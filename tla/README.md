# Chronotope in TLA+

Chronotope is a temporal knowledge base: claims ("assertions") about resources, places and
times, with sources, branches, an append-only log of revisions, and the raw conversation
events that claims were extracted from. This directory holds TLA+ models of its engine, the
TLC configurations that check them, and TLAPS proofs. The source is `src/`; file names below
are relative to `src/crates/chronotope-engine/src/` unless they say otherwise, and "core"
stands for `src/crates/chronotope-core/src/`.

- [The system](#the-system): inventory of the components
- [Modules](#modules): what is modelled, and how it corresponds to the code
- [Runs](#runs): what TLC checks, with which bounds
- [Disagreements](#disagreements-between-code-and-documentation)
- [Proofs](#proofs)
- [What the models show besides](#what-the-models-show-besides)
- [What is not modelled](#what-is-not-modelled)
- [Plan](#plan)

## The system

All state is in one `KnowledgeBase` (`kb.rs`). Its disk holds three things: the revision log
`revisions.jsonl`, the content-addressed `objects/`, and `keys.json`. Everything else is
memory, rebuilt by replaying the log at `open`. A write request (`write.rs`) validates
against the current memory, builds a list of `Command`s, and commits them as one revision:
append to the log, then apply. The server (`chronotope-server/src/http.rs`) keeps the
knowledge base behind one reader-writer lock, so a write is atomic with regard to other
requests. It is *not* atomic with regard to a crash, and that is where much of the
difficulty is; the rest comes from long sequences of legal requests whose effects meet: on
branches that see each other's past, on resources that are merged, on rows and indexes that
were computed earlier. A timer calls `materialize`, which brings cached projections up to
date with what commits have invalidated.

| component | state | operations | correct when |
|---|---|---|---|
| **assertions, statuses, branches** (`canonical.rs`, `view.rs`, `write.rs`) | assertions with status histories, branch table, revision headers | propose, retract, dispute, accept, supersede, verify, add evidence, create branch; the view of a branch | a branch sees its past and nothing of others; a claim is shown once; only curators accept; the past stays past |
| **revision log, object store** (`store/log.rs`, `store/object.rs`) | the file, the write buffer, the object files | append, repair of the tail, replay, put | what was acknowledged survives crashes; the log can always be opened |
| **conversation history, key vault** (`history.rs`, `crypto.rs`, `write.rs`, `query/history.rs`) | events, indexes, keys in memory, `keys.json` | record events, create key, shred key, replay; search, context, conversations, content | each event once, as sent; the index is true; shredded is for good; the rest stays readable; pages add up to the whole |
| **identity** (`canonical.rs`) | redirects, members of merged resources, proposals | propose, approve or reject | redirects do not cycle; members are exactly those that resolve to it; all queries agree on who is who |
| **materializer, projections** (`materialize.rs`, `projection.rs`) | per branch: dirty set, rows, indexes, dependants | invalidate, materialize | a row that claims to be fresh equals what would be computed now; the queue becomes empty |
| **claim evaluation** (`facts.rs`, core `rank.rs`) | none | rank and choose among claims | a deterministic choice that prefers as documented |
| **temporal order graph** (core `time/order.rs`) | points, edges, numbers | add a relation, answer a relation, label | answers exactly what the claims leave possible; incremental equals rebuilt |
| **time** (core `time/range.rs`, `allen.rs`, `calendar.rs`, `expr.rs`, `resolve.rs`) | none | fuzzy intervals, Allen relations, calendars, resolution of relative times | the algebra agrees with intervals on a line, calendars with counting |
| **time expression parser** (core `time/parse.rs`) | none | text to expression | |
| **visibility** (core `model/security.rs`) | none | who sees what | an answer holds only what its reader may see |
| **resources, vocabulary, schema** (`canonical.rs`, core `vocab.rs`) | labels, types, predicates, external ids | define, register, alias | indexes agree with the records |
| **queries** (`query/`) | none | search, lookup, expand, neighbors, timeline, conflicts | a search finds what is known and nothing that no longer is |
| **indexes** (`text.rs`, `vector.rs`, `index/`) | inverted, vector, interval, spatial index | insert, remove, query | agree with a scan |
| **observations, trajectories, tables** (`store/columnar.rs`) | ordered maps | insert, range | |
| **space** (core `space/`) | none | transforms, distances | |
| **extraction, ingestion** (chronotope-extract) | none | text to a sequence of commits | a failure in the middle is recoverable |
| **server, CLI, demo, bench** (chronotope-server) | the lock | routing | |
| **exports, SQL migrations** (`export.rs`, `sqlexport.rs`, `sql/`) | none | formatting | |

How they interact: `write` reads the canonical store through a `View`, puts snapshots into
the object store, and calls `commit_prepared`; that appends to the log and calls
`apply_revision`, which for each command updates the side stores (history, keys, columnar,
vectors), then the canonical store, then invalidates the projections. `open` runs
`apply_revision` over the whole log, *with its side effects*: it generates and removes keys
and rewrites `keys.json`. Ingestion is a client of `write` that makes one commit after
another.

What is hard here:

- *Crash recovery.* Three files with different durability: the log and the objects are
  synced, `keys.json` is not. A line is cut anywhere; recovery itself may be killed.
- *Partial failure.* A failed append returns an error and the process goes on with what the
  `BufWriter` and the file then hold; failures to persist a key are only logged; a page that
  is ingested may be cut after any of its commits and ingested again.
- *Copy-on-write branches.* Limits at forks, overrides of overrides, statuses as of a fork:
  no single request goes wrong, only sequences of them.
- *Resends and batches.* Idempotent ids, all-or-nothing batches, conflicts inside a batch.
- *Stale derived state.* Redirect chains, cached times that refer to each other, rows and a
  dozen indexes that are recomputed while commits invalidate more of them.
- *Incremental structures.* The order graph merges points and renumbers them and must
  nevertheless answer as if it had been built at once.
- *Edges of numbers.* Calendars, recurrences that run into the next day, buckets that reach
  into the next, infinite ends.

The hazards are listed line by line in `PROJECT.json`, each with the properties that cover
it or the reason why none does.

## Modules

| module | models | kind |
|---|---|---|
| `Branching` | assertions, statuses, branches, views | state machine |
| `RevisionLog`, `DurableLog` | log file, buffer, objects, recovery; what the log promises | state machine and the abstract specification it implements |
| `ConversationHistory`, `HistoryLedger` | `record_events`, keys, index, replay; what the history promises | state machine and the abstract specification it implements |
| `Identity`, `Materializer` | merges; the invalidation queue, the time cache, the rows | operations and their state, composed in a state machine |
| `AllenRelation`, `OrderGraph`, `OrderMaintenance` | endpoint constraints; the incremental graph as a value; how a branch keeps one | operators, operators, state machine |
| `Ticks`, `FuzzyRange`, `Allen`, `Calendar`, `Resolve` | the axis, uncertain intervals, sets of relations, calendars, resolution | operators |
| `Indexes` | temporal buckets, spatial grid and frames, pairs of characters | operators |
| `HistoryQueries` | search, paging, context, conversations, content pages | operators |
| `Laws` | the questions that are asked of the four rows above | state machine without memory |
| `Vocabulary`, `Store`, `Facts` | built-in types and predicates; the canonical store and what commands do to it; claim evaluation | operators |
| `Requests`, `Records` | the write requests, as the set of their outcomes | operators |
| `Projection`, `Queries`, `Ingestion` | rows, indexes and the queue; the read operations; linking and writing a page | operators |
| `Catalog` | one knowledge base: store, projection, requests, ticks, restarts | state machine that composes the six rows above |
| `BranchingProofs` | theorems about `Branching` | proofs |
| `RevisionLogProofs`, `ConversationHistoryProofs` | theorems about the two logs | proofs |
| `IdentityProofs`, `MaterializerProofs` | theorems about `Identity` and `Materializer` | proofs |
| `LawsProofs`, `DateProofs` | theorems about relations, windows, days and indexes, and about dates and the times of expressions | proofs |
| `Counting` | induction over numbers, for the other modules of proofs | proofs |
| `MCBranching`, `MCRevisionLog`, `MCConversationHistory`, `MCMaterializer`, `MCOrder`, `MCLaws`, `MCCatalog` | model values, worlds, questions, symmetry | for TLC |

Operators introduced by the words "With a fault" are used by no specification. They are
wrong versions of the operator below them, and stand there to show that the properties
notice them.

### Branching

`revisions` is the list of revision headers; a revision's seq is its index, so `HeadSeq` is
`head_seq`. `assertions` is the store's assertion table with ids as indexes. `branches`
holds parent and `fork_seq`, and `chain` what `branch_chain` computes from them: the code
walks to `main` on every call, but branches never change after they are created, so the
model evaluates the walk once (and the invariant `ChainIsWalk` compares it with the walk).
`status_history` is kept as a function from a seq to the status after it, which is the same
information as the list of changes.

Each action is one arm of `KnowledgeBase::write`, with all commands it commits:
`status_cmds` decides between `ChangeStatus` in place and a copy that `overrides` the
original, `AcceptAssertion` also retires what the assertion replaces, `SupersedeAssertion`
adds, links and perhaps retires. `Visible`, `StatusAt` and `EffectiveStatus` are
`effective_status` of `view.rs` for the default view. Refused requests change nothing, and
appear as guards.

Abstracted: contents (all assertions share subject and predicate, the only case in which
they meet), visibility (all public), `as_known_at`; `Catalog` has those, on main.

### RevisionLog and DurableLog

A line of the log is three tokens, *head*, *rest*, *newline*: enough to cut it inside the
JSON text, directly before the newline, and between lines, which are the cases that
`recover_tail` and `read_all` tell apart; `RevisionsInFirst` reads them one after another,
as a recursive function of how many were read. `file` is what a reader sees, `synced` how much of
it survives a power loss, `buffer` the `BufWriter`. Each way an append can end is an action:
`Commit`, `FlushFails`, `WriteThroughFails` and `FlushBeforeFails` (lines longer than the
buffer bypass it), `SyncFails`, `ExitInCommit`. Objects are *absent*, *cached* (renamed,
directory not synced) or *durable*. `PowerLoss` keeps any part of the unsynced tail and any
subset of the cached objects. `Open` is `recover_tail`, `read_all` and the replay.

`DurableLog` is the promise: acknowledged revisions stay and keep their place, and one whose
commit was cut short may turn up or be lost until a later one is acknowledged. The
refinement maps *committed* to the revisions in the synced part of the file and *doubtful*
to those behind it. `KeepsPromise` says that every step is one of the promise's as long as
no write failed; afterwards only `AckedOrClosed` is true (see
[Disagreements](#disagreements-between-code-and-documentation)).

### ConversationHistory and HistoryLedger

The log here is a sequence of commands, durable at once: with fsync and no failed write that
is what `RevisionLog` establishes. `RecordEvents` is `record_events` with its checks in the
code's order of precedence: resend, repetition within the request, sequence taken by a
recorded event or by one of the request, source and visibility, encryption. One conflict
refuses the whole request. `ResendEvents` is the case in which nothing is new and no
revision is made. `NewEvents` goes through the request as the code's loop does, as a
recursive function of how many of its messages were looked at. `Applied` is `apply_side_stores`, used both by commits and by `Replayed`,
so that a replay does all that a commit does, including writing `keys.json`.

Key material is a number, drawn anew whenever the code generates a key and without a limit,
since nothing bounds how often that happens; an event remembers
which it was encrypted with, so "decrypts" is equality. `older` are the versions of
`keys.json` that a power loss may bring back, since nothing syncs it. `Open(FALSE)` and
`CreateKey(k, FALSE)` are the cases in which `persist` fails, which the code logs and then
ignores. A kill may come between log and memory (`KillInCommit`, `KillInRecord`) or in the
replay (`KillInOpen`).

Abstracted: the fields of an event besides conversation and sequence (they are compared as
one value), groups visibility, the indexes that follow the same pattern as the ones here. A
power loss that leaves an empty `keys.json` is left out: `open` then fails.

`HistoryLedger` is the promise: a ledger that only grows, by all of a request's new events
or by none, unique ids and sequence numbers, and an open store that shows all of it.

### Identity and Materializer

`Identity` has the three variables that merges change and the operations on them;
`Materializer` extends it, so that every action of one step says what becomes of the other's
variables. `Resolve` is `resolve_id`, `IdentityGroup` is `identity_group` (its cut at 256
members is left out), both by following what there is a bounded number of times; `Decision` is `decide_merge`, which resolves the proposed ids again
before it makes the redirect.

`Materializer` is one `BranchState`. `claims` are the claims that give a resource a time,
the best ranked first: a new claim may enter at any place, since its rank is computed from
data this model does not have. A time is *absolute*, or *after* the time of another
resource. `TimeAt`, `TimesOf` and `OneMore` are the mutually recursive `time_at_depth`,
`compute_time` and `resolve_expr`, with the cache they read and write, the stack that
detects cycles, the depth limit, and the dependencies they record. The recursion is the
function `Search` of the hops that are left: each level answers every `Query` from the
answers of the level below, and the order of the claims is a recursive function in
`TimesOf`. `FreshSlot` is the same search started with an empty cache, that is, what is true
of the store.

The actions are the commits and the steps of the background task. `Touched` is what every
commit invalidates, `Invalidated` is `BranchState::invalidate`: the
resource and everything that depends on it is dropped from the cache, flagged stale and
queued, in an order that depends on hash sets and is therefore free. `Process` is one turn
of the loop in `process`; the code runs up to `materialize_batch` of them under one lock,
and a batch of one allows every interleaving with commits. `TouchResource` stands for all
commits that invalidate one resource and leave times alone, `TouchAll` for `invalidate_all`.
`Init` is the state after the replay of a log: any claims and proposals, everything queued,
nothing materialized.

Abstracted: the other columns of a row (`Projection` has them), start and end times, anchors
given by name, more than one branch.

### OrderGraph and OrderMaintenance

A graph is a record of the code's fields: for every event the number of its start point (its
end point is the next), a union-find of merged points, successors, predecessors and the
numbers that Pearce and Kelly's algorithm keeps. `AddLt`, `Merge` and `Reordered` are the
new edge, the two points that become one, and the limited renumbering after either;
`Related` is `add_relation`, which refuses what contradicts the graph. `PossibleIn` is
`relation`, which answers with the relations that the known orders leave. `OrderMaintenance`
keeps one graph as `materialize.rs` does: `pending_relations` are added in the order of
their commits by `apply_pending_relations`; any other change makes the graph dirty, and it
is then built again, accepted relations first (`rebuild_order`). The properties compare the
graph with `PossibleWorlds`, the assignments of intervals in which all claims taken are
true.

### Time, indexes and history queries: Laws

These parts are functions. Each module translates one or two files; an infinity is the least
or greatest integer, as in the code. `Laws` asks one question per state: `question` holds
the inputs, chosen from the constants, and each property compares the answer with a
definition that shares nothing with the code: an uncertain interval is the set of intervals
it may stand for (an infinite bound is replaced there by the constant `Horizon`, beyond
everything else that is asked about), a calendar is counted a day or a month at a time, a query of an index is
the filtered list, and the pages of a search are one list. `Pages` lets events be recorded
and texts be shredded between the first page and the rest.

An expression is the sequence of its nodes, each after those that it is made of, so that
`approx` and `interval` nest as deep as in `TimeAst`: `Times` is the recursion of
`Resolver::ast`, and `Ast` the time of the last node. The floating-point numbers of
`index/geo.rs` and `space/` are integers, and frames are planes: a transform is any affine
map of two coordinates (`Apply`), and of a box it maps two opposite corners, as
`Geometry::map` does (`MappedBox`). The width of a tick in `level_of` and the limits of the grid are constants.

### Store, Facts, Requests, Records

`Store` is `canonical.rs` as a record with one field per table. An id is a position in its
table, `None` is 0. A view is a record of reader, time of knowledge, statuses, canon and
timelines; `Shown` is which claims it shows (`view.rs`, `model/security.rs`). `Facts` is
`facts.rs` and `rank.rs`: the weights in percent, `IndependentSources`, the preferred claim,
time, place, works, entities, placement. `Components` are the parts of a score: reliability
and corroboration, and where a claim has them how sure the extractor was (`Extraction`) and
how specific the expression of its time is (`Specificity`, from the sorts of its nodes).

The text of a label is the sequence of tokens that `tokenize` makes of it; a search asks for
all tokens of its text (`search_tokens`, `text.rs:186`), in any label. Types are keys, and
what a claim `instance_of` names is the id of a resource: `DefineType` puts no resource into
the store and `write.rs:520` takes no other object, so that such a claim never adds a key or
what is above one. It is kept as `classes` of the facts.

A request is an operator that yields the set of its outcomes, empty where the code refuses
it. An outcome is the store after the commands and what those touch. Every early return is a
conjunct of its condition; every command is an update. A batch keeps the order of its
commands where that matters.

### Projection, Queries, Ingestion and Catalog

`Projection` has a row for each resource that was materialized, `postings` for each kind of
index, the set of stale rows and the queue. `Upsert` replaces a row in the indexes;
`Expanded` and `Invalidated` are the invalidation after a commit, with all the rows that it
reaches through the indexes; `MaterializeSome` is a batch of `process`. `Queries` are
functions of store, projection and view. `Ingested` is `ingest` commit by commit; `Ingest`
in `Catalog` may stop after any of them, and the page can come again.

`Catalog` composes them. Its constant `Worlds` is a set of stores, each with the requests
that may come. A behaviour begins in one of them, makes up to `MaxWrites` of those requests
in any order, each at most once, and lets the background task tick and the process restart
anywhere in between. A restart keeps the store and loses the projection (`Reopened`); that
the store survives is the business of `RevisionLog`.

## Runs

`Settles` and `SettlesUnlessMerged` are liveness properties. They assume weak fairness of
`Materialize`, which the timer in `serve` provides: it calls `materialize` at every tick,
whatever the requests do and whatever the last call returned (`http.rs:162-182`). Everything
else is safety and assumes no fairness. `CHECK_DEADLOCK FALSE` stands in every configuration
since every model stops at the bound on its revisions, commits, events or writes, and `Laws`
after one question.

| run | configuration | shows |
|---|---|---|
| `branching` | 3 branches, a curator and an agent, 4 revisions, chains up to 2 viewable | `TypeOK`, `ChainIsWalk`, `ForkIsolation`, `BranchStartsAsParent`, `AcceptedOnlyByCurator`, `ReplacementRetiresOld`, `OneVersionPerClaim` |
| `log` | 4 revisions, 1 object, 3 stops, 2 failed writes or syncs | `SeqsIncrease`, `AckedOrClosed`, `KeepsPromise` |
| `log_acked` | 4 revisions, 2 failures, 2 stops | violates `AckedSurvive` |
| `history` | 2 owners, 2 event ids, 2 sequence numbers, 2 texts, all visibilities, batches of 2, 2 commits, 1 kill | `AnsweredIsKept`, `OneSourcePerConversation`, `KeepsLedger` |
| `history_keys` | 1 owner, 1 key, text and binary contents, 4 commits, 2 kills, 1 power loss, 1 failed write | `IndexIsTrue`, `ShreddedForGood`, `ShreddedOffDisk`, `ReadableWhileKeysKept` |
| `history_lost` | 1 owner, 1 key, 1 kill, 1 power loss | violates `ReadableUnlessShredded` |
| `materializer` | 3 resources, 2 proposals, 3 claims, 4 claims, proposals and commits together, depth limit 2 | `OneIdentity`, `HonestRows`, `SettlesUnlessMerged` |
| `materializer_loop` | 3 resources, 1 proposal, 1 claim, 3 events | violates `Settles` |
| `order` | 3 events, 3 relations: any of the 13, then 4, then 3 or the inverse way, accepted or proposed; one change, retraction or acceptance at a time | `TypeOK`, `RelationsAreExact`, `ConflictsAreReal`, `SameAsRebuilt`, `LabelsExtendOrder`, `AcceptedFirst` |
| `laws` | one question each, see below | `WindowsAsMeant`, `RelationsAsMeant`, `DaysCounted`, `NearestDate`, `EndsInMonthOfStart`, `MonthsAndWeeksCounted`, `VaguerEventsVaguerTimes`, `IndexesFindAll`, `HistoryPages` |
| `catalog` | 8 worlds of up to 8 requests, 3 of them made, ticks of 3 resources, two readers, 12 searches | `FreshRowsAreCurrent`, `SearchFindsFacts`, `MergedAnswersAgree`, `PastStaysPast`, `IngestionLinks` |
| `catalog_stuck` | one of those worlds | violates `StaleRowsAreQueued` |

Why these bounds are enough to be interesting:

- *Branches.* Three allow a child, a grandchild and two siblings. Four revisions suffice
  for: an assertion on main, a fork, a change in the fork, a change on main; and for a copy
  in a child of what the branch above had already copied. `MaxChain = 2` against 3 branches
  makes the "too deep" refusal happen.
- *Log.* Four revisions and three stops let the log go through a torn line, a completed
  line, a replayed but unacknowledged revision, and a power loss between any two of them.
  With one object a put can meet an object that an earlier process left.
- *History.* Batches of two events hold every pairwise conflict of the code, and a batch
  after a batch every conflict with recorded events. One conversation id for two owners
  tests that ids are scoped by owner and that a public source is shared. Four commits are
  create key, record, shred, and one more; two kills allow a kill inside the recovery from a
  kill.
- *Materializer.* Three resources allow a chain of relative times, cycles of two and of
  three, and merges into and out of them. Claims and proposals that the log already holds
  count as events, so that four events are three claims and a commit that disturbs them, two
  claims, a proposal and its approval, or two proposals on the same resources and both
  approvals; commits fall between any two steps of the materialization. Claims in the log do
  not refer to their own subject; claims that are added may. Three hops suffice for three
  resources.
- *Order.* Three events close a circle, and three relations are the least that may
  contradict each other only together. The first runs through all thirteen, the others
  through one of each effect on the graph: an edge only, points that merge, one inside the
  other.
- *Laws.* Expressions say "about" once and twice, inside of an interval and around one, refer to
  two events, none or several on either side of "between", and are open at one end, for events
  with any bounds of those ranges. Frames are scaled, mirrored with a turn by a right angle,
  turned by half of one, and nested three deep. Ranges are all of the finite ones over four ticks and those open to one side or
  both; windows reach beyond both ends. Days surround leap days, ends of centuries and of
  years, and the Julian calendar's end; calendars are Gregorian with an offset of nine hours
  and a uniform one of 28 days to a month and 4 months to a year. `MaxShift = 14` months go
  more than a year back and ahead. A tick of the temporal index has 6 bits and a level 2, so
  that the least and greatest tick and every level are reached; the grid's cells hold 4, and
  both limits of the number of cells are passed. Histories have three events of one
  conversation with a gap in their sequence, out of order and at equal times.
- *Catalog.* Each world is made of resources that one kind of hazard needs: a city in a
  country with events there, of which one is private to somebody (`Places`); three resources
  of one name and merges proposed around all of them (`Merges`); documents that are read
  late and claims that are backdated by them (`Sources`); an event whose time is given on two
  axes, written "about" a month by one and as days by the other, a private one that is disputed,
  and a predicate for coordinates besides the built-in one (`Axes`); types and predicates that are used
  before and after they are granted (`Words`); a table with a sequence and observations
  (`Tables`); one page that is ingested twice with a cut anywhere, and a merge of what it
  may mention (`Pages`); an event that loses its date (`Undated`). Three requests are the
  least in which one prepares, one commits and one disturbs. One reader is anonymous; the
  other is an agent that acts for the owner of the private data and is in the group that
  other data is shared with.

Symmetry is used, in the runs without liveness, on branches other than main, event ids,
owners and texts, all of which the definitions treat alike. The other MC modules use none.

`TypeOK` is among a run's properties where it says more than types: that the graph is
numbered and linked as its algorithm needs it (`order`), and as the base of the proofs
(`branching`). Those of the other state machines were checked with the same instances and
are left out of the runs, which other properties use better.

## Disagreements between code and documentation

Four runs find a behaviour that contradicts what a comment of the program says. They are
findings of the models in the ordinary course of writing them.

- `log_acked`: after one failed write of a long line, half a line is in the file. The
  process goes on, the next line is glued to it, synced and acknowledged, and the log cannot
  be opened again.
- `history_lost`: `keys.json` is not synced. A power loss that takes back the version with a
  new key makes the replay generate another one, and the events encrypted with the first
  cannot be read any more.
- `materializer_loop`: `process` answers a queued id that was merged away by invalidating
  what it was merged into, and that invalidation queues all dependents. If the merged
  resource was itself a dependent, because its time was once given relative to the other,
  even by a claim that was retracted since, the two queue each other for ever:
  `materialize_all` does not return, and the branch is not consistent until the process
  restarts. `SettlesUnlessMerged` shows that within the bounds this is the only way not to
  settle.
- `catalog_stuck`: when all live claims about the time of a resource are denials,
  `compute_time` has no slot and panics (`facts.rs:409`). Its id was taken from the queue
  before, so that the row stays stale; the background task goes on with the next tick.

## Proofs

Each theorem holds for every value of its module's constants: every set of branches,
principals, owners, keys and messages, every bound, all integers. The only assumptions are
those that the modules name (`BranchingAssumption`, `HistoryAssumption`, `LogAssumption`,
`TicksAssumption`, `IdentityAssumption`, `MaterializerAssumption`, `LawsAssumption`,
`RangesAssumption`, `RecurrencesAssumption`, `ReferencesAssumption`,
`ExpressionsAssumption`, `WrittenAssumption`, `DatesAssumption`, `SpansAssumption`,
`FramesAssumption`, `TextsAssumption`, `IndexAssumption`, `PowersAssumption`), which TLC
evaluates in the runs; for `NoneForgotten` and
`PromiseKept` that `Fsync` is true, because without it the code promises nothing after a power loss; and for the theorems of
`IdentityProofs` and `MaterializerProofs` that there are no more merges than redirects that
`resolve_id` follows, which are 16.

| module | theorem | |
|---|---|---|
| `BranchingProofs` | `TypeCorrect` | `Spec => []TypeOK` |
| `BranchingProofs` | `ForkIsolated` | `Spec => ForkIsolation`: a commit changes the view of the branch it was made on and of no other existing branch |
| `BranchingProofs` | `AcceptedByCurator` | `Spec => AcceptedOnlyByCurator`: what a branch newly shows as accepted was accepted by a curator's request |
| `BranchingProofs` | `BranchStarts` | `Spec => BranchStartsAsParent`: a new branch shows what its parent shows |
| `BranchingProofs` | `ChainsAreWalks` | `Spec => []ChainIsWalk`: the chain of a branch is at any later time what the walk to main computes |
| `BranchingProofs` | `OneVersion` | `Spec => []OneVersionPerClaim`: of an assertion and all copies of it a branch sees at most one |
| `BranchingProofs` | `ReplacedIsRetired` | `Spec => ReplacementRetiresOld`: who accepts a replacement retires what it replaces |
| `ConversationHistoryProofs` | `TypeCorrect` | `Spec => []TypeOK` |
| `ConversationHistoryProofs` | `AnswersKept` | `Spec => []AnsweredIsKept`: what was answered for a message is in the log, as it was sent |
| `ConversationHistoryProofs` | `OneSourceEach` | `Spec => []OneSourcePerConversation` |
| `ConversationHistoryProofs` | `IndexTruthful` | `Spec => []IndexIsTrue`: a text is in the index exactly if the event can be read |
| `ConversationHistoryProofs` | `ShreddingIsForGood` | `Spec => []ShreddedForGood`: no store that serves can read a shredded event |
| `ConversationHistoryProofs` | `ShreddingReachesDisk` | `Spec => []ShreddedOffDisk`: nor is its key in `keys.json`, if that could be written |
| `ConversationHistoryProofs` | `KeptKeysKeepEventsReadable` | `Spec => []ReadableWhileKeysKept`: all else stays readable while `keys.json` is kept |
| `ConversationHistoryProofs` | `LedgerKept` | `Spec => KeepsLedger`: the history implements `HistoryLedger` |
| `RevisionLogProofs` | `TypeCorrect` | `Spec => []TypeOK` |
| `RevisionLogProofs` | `NoGaps` | `Spec => []SeqsIncrease`: while no write failed, memory holds the revisions 1, 2, 3 and so on |
| `RevisionLogProofs` | `NoneForgotten` | with `Fsync`, `Spec => []AckedOrClosed`: a log that can be opened has what was acknowledged |
| `RevisionLogProofs` | `PromiseKept` | with `Fsync`, `Spec => KeepsPromise`: while no write failed, the log implements `DurableLog` |
| `IdentityProofs` | `OneResourceEach` | with `MaxProposals <= MaxHops`, `IdentitySpec => []OneIdentity`: an id stands for one resource |
| `MaterializerProofs` | `QueuedAtMostOnce` | with `MaxProposals <= MaxHops`, `Spec => []TypeOK`: types, and no resource is queued twice |
| `MaterializerProofs` | `UnflaggedRowsAreHonest` | with `MaxProposals <= MaxHops`, `Spec => []HonestRows`: a row that is not flagged stale is what the store says now |
| `MaterializerProofs` | `MaterializedIdentities` | with `MaxProposals <= MaxHops`, `Spec => []OneIdentity` |
| `LawsProofs` | `ConstraintsExact` | a relation holds exactly if its endpoint constraints do |
| `LawsProofs` | `InverseExact` | the inverse is the relation of the same intervals in the other order |
| `LawsProofs` | `CompositionExact` | the composition table is exact for all intervals, although it is computed from six values |
| `LawsProofs` | `OverlapsAsMeant` | the tests of a window against an uncertain interval say what they say of the intervals it may stand for |
| `LawsProofs` | `PossibleExact` | a relation of two uncertain intervals is possible exactly if intervals they may stand for have it |
| `LawsProofs` | `RelatedRight` | `Spec => []RelationsAsMeant`: the same, with composition and inverses |
| `LawsProofs` | `ComparedRight` | `Spec => []WindowsAsMeant`: windows against uncertain intervals and against recurring times |
| `LawsProofs` | `CountedRight` | `Spec => []DaysCounted`: days are counted and named as meant, in every calendar |
| `LawsProofs` | `IndexesRight` | `Spec => []IndexesFindAll`: a search of an index finds all that it should and nothing else; excepted are spans wider than half of all ticks, and boxes that are turned or sheared, which are found as they were mapped |
| `DateProofs` | `CountedOn` | `Spec => []MonthsAndWeeksCounted`: a month or year so many away begins and ends with the days that one reaches by counting, and a week or a named day of one is in the week that is meant |
| `DateProofs` | `VagueButRight` | `Spec => []VaguerEventsVaguerTimes`: what is resolved from uncertain events, by expressions nested in any way, allows what any intervals they may stand for would give, unless "about" is said of what has no bound |
| `DateProofs` | `EndsWhereItBegan` | `Spec => []EndsInMonthOfStart`: an interval written as a date and another day ends in the month it begins in |
| `DateProofs` | `NearestMeant` | `Spec => []NearestDate`: a date without a year is the nearest such date of all the years around |

All properties of the runs `branching`, `log`, `history` and `history_keys` are among these,
and the invariants of `materializer`.

`TypeOK` alone does not carry fork isolation. The inductive invariant `IInv` adds

- `ChainOK`: a chain starts with the branch itself, and the limits of all further links are
  at most `HeadSeq`. A new revision has a larger seq, so it is beyond every limit but that
  of its own branch.
- `RefsOK`: what an assertion supersedes exists, so that accepting a replacement changes an
  assertion that is there and the list keeps its shape.

The argument is in two halves. First, `NextShape` reduces the eight requests to two cases: a
commit whose new assertion list has the *shape* `CommitShape` (old assertions keep their
branch, creation and override; a status history changes only on the committing branch, and
only from the new seq on; added assertions belong to the committing branch and carry the new
seq), or the creation of a branch. One lemma per helper of `write.rs` establishes the shape
(`WithStatusShape`, `AcceptShape`, `SupersedeShape`, ...). Second, `VisibleUnchanged`,
`StatusUnchanged` and `AddedHidden` show, from the shape and `LimitOfOther`, that another
branch's view is the same before and after (`ViewUnchanged`).

`AcceptedByCurator` uses `IInv` again: each request that is not a curator's leaves a list
that `AcceptsNothing` holds of, no history being accepted anywhere it was not before, and
copies take their history from what the branch showed.

`BranchStarts` needs more. `FInv` adds to `IInv`

- `HomesOK`: every stored assertion is on a branch that exists, was created at the head or
  before, and keeps its status from the head on. So a limit at the head cuts nothing of it
  off.
- `LinksOK`: a chain names existing branches, and each once, so that the new branch's first
  link, which has nothing on it, does not hide one of its parent's.

Each helper that adds or changes an assertion has a lemma that it keeps what is at home at
home (`AppendHome` and those after it), and the view of the new branch is then its parent's,
link by link.

`VInv` adds what the theorems about chains and versions need:

- `WalkOK`: a chain begins with the branch itself and no limit, each link follows from the
  one before it by `LinkAfter`, and the last one is main. Chains are made from the parent's
  chain, once; the walk from the branch is the same because the limits only fall along it.
- `EarlierOK`: copies and replacements come after what they copy or replace, so that
  following them ends.
- `OneVersionPerClaim` itself, which is inductive with these. A copy hides what it copies
  from its own branch, and is beyond the limit of every other branch; and no request copies
  the same assertion twice (`CopiesIn`). That a replacement retires the old claim then
  follows: the branch sees one version of it, and that is the one that was changed.

The invariant `HInv` of `ConversationHistory` ties four copies of the same knowledge to one
another.

- `LogSound`: the events in the log are a ledger, each conversation has one source, and no
  event was encrypted with a material that was not generated yet.
- `MemoryFollowsLog`: the memory of an open store `Tracks` the log: its events are those of
  the commands, its shredded keys have no material, its index is true for its keys. That a
  replay ends in such a memory, from any `keys.json`, is an induction over the revisions.
- `NothingAheadOf`: no key in memory, on disk or in an older version of `keys.json` has a
  material that was not generated yet. A key that is lost is therefore generated anew as a
  different one, and an event it had encrypted is seen as unreadable and not as something
  else. With a bound on materials this would fail at the bound, which is why there is none.
- `DiskFollowsMemory`, `DiskHoldsKeys`: what can be said of `keys.json` while no write failed
  and no power loss took one back.

`LedgerKept` maps each step to one of `HistoryLedger` or a stutter: the request that records
appends, all that is refused, shredded, killed or replayed leaves the ledger as it is.

The invariant `LInv` of `RevisionLog` has two parts that do not depend on each other. While
no write failed, the file is `InOrder`: the lines of revisions 1, 2, 3 and so on, the last
perhaps cut short; an open store has whole lines only and has read all of them. The repair
of the tail then either completes the last line or drops it, and both leave such a file.
With `Fsync`, and whatever failed, `AckedOnDisk` says that the newline of each acknowledged
revision lies in the synced part of the file, which no power loss and no repair takes away.
`AckedOrClosed` is about what is read, so that `NoneForgotten` has to follow the reading
through a file that may have glued lines; `PromiseKept` follows it step by step.

`OneResourceEach` is about the steps that change the variables of `Identity`; all others of
`Materializer` leave them as they are. Its invariant `IdInv` says that the redirects are a
`Forest`: each resource has a root that was not merged away, and fewer redirects to go than
there were approved proposals. A decision resolves both ids to roots and redirects one to the
other, whatever was approved since the proposal was made, so that what ended at the first
ends at the second, one redirect later (`MergedTree`). `resolve_id` then reaches the root
before it gives up (`ResolvesToRoot`), and the group of a root is its tree (`GroupHasRoot`).
With more merges than hops, a chain of them can be longer than what `resolve_id` follows, so
the assumption is needed; with it the group never reaches the 256 ids where `identity_group`
stops.

`UnflaggedRowsAreHonest` compares two searches that were made at different times, from
different caches, through claims that refer to each other in any way. `HonestRows` itself is
far from inductive: it says nothing of the cache that the next search will read, nor of the
dependents that the next commit will follow. The proof replaces the search by something that
has no cache and can be reasoned about link by link.

- The best ranked live claim of a resource gives it a time, or a link to one other resource
  (`LinksOf`). `WalkFrom` follows the links for as many hops as a search may, and stops at a
  time, at a resource it has passed, or when no hops are left. A search that starts with an
  empty cache ends where the walk does (`FreshIsWalk`).
- `CacheFollows`: each entry of the cache follows from the entry its link leads to, the link
  is among the dependents, and the entries have ranks that fall along the links. Without the
  ranks a cycle of entries could confirm itself for ever. A search that reads such a cache
  leaves such a cache (`SearchGood`: what it computes was computed after what it depends on,
  so that it may have the next rank), and finds where the walk leads or, where the walk ran
  out of hops, what the cache knew already (`AnswersArrive`).
- `RowsFollow`: a row that is not flagged stale belongs to a resource that was not merged
  away, is where its walk leads, and each link of its walk is among the dependents.
- `ApprovedMerged`, that what was approved was merged, gives what `MergesAsProposed` means
  for the next decision: it joins the two ids that are touched.

A commit changes the links of some resources only, and touches each of them (`InsertLinks`,
`RetractLinks`, `MergeLinks`). What the invalidation reaches from them is closed under the
dependents, is dropped from the cache and flagged stale (`InvalidatedAllWipes`). An entry or
a row that remains has no link into that set, since its links are among the dependents; so
its walk meets none of what changed, and is as it was (`SameWalk`, `ClearedFollows`). The
materializer's own step fills in one row after a search, and what it adds to the dependents
are the links of that row's walk. `QueuedAtMostOnce` is the easy half of the same
invariant. `MaterializedIdentities` is `OneResourceEach` for the composed specification.

The reading, the replay and the loop over a request are recursive functions of a number.
What they compute is shown by induction, and the induction principle itself is proved in
`Counting` from the library's fact that a set of numbers has a least one: a property is a
set of numbers there, and not an operator, which the provers could not instantiate.

`CompositionExact` has one idea: the endpoints of three intervals are at most six numbers,
and replacing each by its place among them (`Place`) keeps their order (`PlaceOrder`), so
that any three intervals have their relations among those of the table (`MovedRelation`).

`PossibleExact` is about shortest paths between four endpoints and an origin (`Feasible`). That
nothing possible is refused follows from the choice of intervals that shows it: its endpoints
respect every bound (`Respects`), and a path through another node asks no more than its two
halves do (`NothingLost`), so that no circle is negative. That nothing impossible is accepted
needs a choice to be made: once all paths are taken, the bounds are closed (`Closure`), and
every endpoint at its latest place (`LatestTogether`, `LatestWithin`) keeps all bounds at once.
Endpoints that no bound keeps from going on for ever are placed at the horizon, in the order
of the relation, which four values are enough for (`FourValues`). `RangesAssumption` says
that bounds are in sight of `Horizon` or infinite, and that a range neither begins at the end
of time nor ends at its beginning.

`ComparedRight` follows a recurring time through the resolution. The days that are searched
are those whose occurrence can reach the window, two days and the length of an occurrence
earlier (`OccurrenceDay`), and away from both ends of time no start of a day is cut off
(`DayStartNear`). `RecurrencesAssumption` says that clocks begin within two days, as
`DateSpec::validate` demands, that an occurrence takes a month at most, which bounds what the
property itself searches, that offsets are of a day at most, and that windows are weeks away
from the least and the greatest tick.

`CountedRight` gives every day a place: the *r*-th day of the *t*-th year of the *p*-th leap
cycle of the *c*-th century of an era of 400 years that begin in March (`PlaceOfDay`). On
places the corrections by 1460, 36524 and 146096 days in `civil_from_days` are exact
(`YearOfPlace`), the way back is a sum (`DayOfPlace`), leap days are at the end of a year
(`LeapPlace`), and the next day is the next place (`NextPlace`, `NextYearPlace`). The
calendars of games are the same with a product of two lengths (`UniformPlace`), and the
Julian one goes month by month. The numbers are integers without a width; the program's are
64 bits wide, which is enough for the Gregorian day of any tick.

`CountedOn` goes from a reference to a date, from there to a month, a year or a weekday, and
back to ticks. A date leads back to its day and a day to its date (`DateAgain`,
`DateOfItsDay`), the first day after a month is the first of the next (`MonthAfter`), and
`ShiftMonth` leads where counting month by month does (`ShiftSteps`, `MonthsOnIs`). A whole
week begins with the day of the week that its calendar counts from, as many weeks from that of
the reference as are named (`WindowOfWeek`). What
remains is that nothing counted is cut off at the ends of time. The first days of years keep
to a line of 146097 days in 400 years, never more than a year away from it (`YearBand`), so
that years that are so many apart begin no more than as many long years apart
(`YearsApart`); `Far` adds up the longest way that is counted, and `ReferencesAssumption` says that
references are that many days away from both ends.

`VagueButRight` is about pairs of ranges of which one is `Sharper`: its bounds are within
those of the other, as the bounds of an interval are within those of an uncertain one that it
may be. Normalizing keeps that (`NormalizedSharper`), and so do offsets before and after an
event, because adding is monotone where bounds are finite and leaves infinite ones alone
(`OffsetLater`, `ShiftSharper`), and what lies between events: the last of their ends and the
first of their starts move inwards as more is known, whatever their number (`LastEndFollows`,
`FirstStartFollows`, `BetweenIs`). So do intervals whose ends are such times or open
(`IntervalFollows`). "About" widens a range by more the longer it is (`FuzzMore`), and what is
vaguer is longer (`WidthMore`), as long as it has a length. Dates, and what counts from a
reference or recurs, do not depend on events (`DateAlone`, `OthersAlone`). That the sharper
expression can be resolved where the vaguer one can, and the other way round, is part of each
step (`Follows`). `NodeGoes` puts this together for one node, and the theorem follows for all
nodes in their order, by induction over numbers (`Counting`): to what depth they nest does not
matter. `ExpressionsAssumption` says that nodes come after those they are made of, that their
events are the two that are asked about, and that a date with a year lasts from a tick to a
later one.

`EndsWhereItBegan` is about "from the 3rd of May to the 5th". A date with a day begins with
that day of its month, or at its clock time within it (`DayThere`, `DatedDay`). The second
date takes over year and month, or so many months from now, and nothing else of the first
(`Inherited`), so that both ends are days of one month and the interval stays within it
(`WithinMonth`). `WrittenAssumption` says which intervals those are: days that the month has,
one not after the other, no zone, neither Julian nor uncertain, and a month that is not cut
off at the ends of time.

`NearestMeant` says that to look at three candidates is enough. A date is somewhere in its
month, as far into it in every year (`PlacedIn`, `DatePlace`), and months that are numbered
one after the other are in the order of their days (`DaysOfMonths`). So of two months that
are both later than the reference the farther one has the farther date (`LaterFarther`), of
two earlier ones likewise (`EarlierFarther`), and whatever lies between the reference and a
candidate is nearer (`BetweenIsNearer`): the nearest of the month or year of the reference,
the one before and the one after (`NearestOfThree`) is the nearest of five years, by month
(`NearestOfYears`) and without one (`NearestOfMonths`). A year that is not named and has no
month or day is the year of the reference, which contains it (`YearMeant`). `DatesAssumption`
says that every year has the date, and every month if none is named: for February 29, or the
29th of no month, three candidates are not enough, and the property does not claim them. A
clock time is over within a week, and in a uniform calendar with clock times months have ten
days at least, so that no time of the day reaches past the next month.

`IndexesRight` has a part for each index. A span is listed on the first level on which it lies
in two buckets at most, so that a window that overlaps it reads that bucket or the one before
(`LevelReads`); the subtraction that `level_of` does is exact for spans of less than half of
all ticks (`WrappedFits`), which is what `Subtractable` asks of the others, and infinite ones
are on the last level, which every window reads. A box is mapped frame by frame, with any affine
maps, and is a box again (`RootIs`). On each way that keeps axes the four corners' places have
the bounds of its place as their coordinates (`CornersApplied`, `AroundRaised`), whatever is
mirrored, scaled or turned by a right angle; `Upright` is that condition, and without it the
theorem says only that the grid is exact for the boxes as they were mapped. Two boxes that meet
are over a common cell
(`CommonCell`), and an index lists one box for each document, however often that was replaced
(`BoxInserted`). For texts the argument is about pairs of characters next to each other. Folding,
splitting into words and joining them with one space keep the pairs that no white space is
in (`NormalIs`), splitting at separators keeps those that neither of the two is in
(`TokensAre`), and a part of a text has no pairs that the text has not (`PairsOfPart`); so a
text that has what is looked for has all its pairs. `TextsAssumption` says that folding twice
is folding once: `fold_width` and lower case are such, and that the few characters whose
lower case is two are folded to one is an abstraction of `Indexes`. `FramesAssumption` says that parents of
frames are frames; their transforms may be any affine maps, and their parents may lead in a circle,
which `to_root` follows as far as there are frames. `SpansAssumption` says that spans are not
empty, and `PowersAssumption` lists facts about powers of two.

Only model-checked, and why:

- `SettlesUnlessMerged`: liveness under fairness.
- The properties of `order`: the graph is built and answers by folding over sets and
  sequences of points, and the worlds it is compared with are sets of functions.
  `OrderMaintenance!TypeOK` would be the first of them, for it says that edges, numbers and
  merged points fit each other; it holds because of what the limited renumbering does to all
  points between two, a statement about the result of several nested folds.
- `HistoryPages` of `laws`: it compares pages, which are sorted and folded sequences, with
  the whole.
- The properties of `catalog`: rows, indexes and the queue are folds over the store.

## What the models show besides

While modelling we met behaviour that no comment contradicts but that a reader of the code
may not expect. Properties are stated so that they hold with it, and say where they make an
exception.

- *Identity.* `decide_merge` invalidates the ids of the proposal and not those that the
  redirect really joins (`canonical.rs:398`); rows that name a merged id keep naming it,
  which is the exception in `FreshRowsAreCurrent`. Observations, trajectories, embeddings,
  scopes of sequences and links of rows stay under the merged id. A claim `distinct_from`
  prevents a proposal only if it is about the two ids themselves and was made before it
  (`write.rs:930-943`). Values that are merged ids count as different, hence as contested.
  `resolve_id` follows 16 redirects. The order graph keeps merged events until something
  else makes it dirty.
- *Views.* `as_known_at` is described as using only what had been acquired by then
  (`query/mod.rs:42`). It does so for which claims are shown and their statuses, but then
  evaluates them with today's evidence, verification, policy and sources (`facts.rs:156`), and
  with today's merges, vocabulary, licenses and types: evidence that is read later raises the
  rank of a claim in an answer about the past, and may change which of two values it prefers.
  `PastStaysPast` compares all that such an answer says, and states these as its exceptions;
  without them TLC refutes it. Lists of
  conflicts, searches of the past, of a canon or of a timeline take their candidates from
  the projection of today that an anonymous reader sees: what only a wider view contests is
  not found. A search for status `retracted` finds nothing. The evidence that an AI derived
  lowers the tier of a human's claim that had none.
- *Claims.* A proposed replacement can be made in a branch that does not show the assertion
  that it replaces, and can then never be accepted (`write.rs:903`). A place that is
  inherited, and the containment that ingestion uses, ignore the polarity of the claim.
  `Source.root` is followed one step. If subject and object of a request are both new and
  have one external id, two resources are made.
- *Log.* `put` trusts an object that an earlier process renamed but did not sync; a power
  loss may later remove it from under a synced revision (`store/object.rs:75`).
- *Order graph.* `label` is stored in rows and is not renewed when the graph renumbers.
  `certainly_overlaps` is sound and not complete: it does not use that an interval starts
  before it ends.
- *Time.* `FuzzyRange::normalized` depends on the order of its repairs (`range.rs:40`).
  "About" a time that is open to one side is not widened (`resolve.rs:263`), so that learning
  its other end may make the time reach further than before on the side that was known;
  wherever such an "about" is nested, it is the exception in `VaguerEventsVaguerTimes`. An expression relative to an event
  loses its clock. "2026年12月28日〜1月3日" is refused, since the end takes the year of the start;
  the leap days of the Julian calendar before 1582 that the Gregorian has not are refused.
  An end "of last year" loses the relative year (`parse.rs:111`). Uniform calendars are not
  validated.
- *Indexes.* `Geometry::map` transforms two opposite corners, so that a box in a frame that is
  turned or sheared against its parent gets too small a box there, or one of no width, and
  searches beside its diagonal lose it; a box with its corners exchanged is never found.
  `level_of` overflows for a finite span of more than half of all ticks. Both are exceptions in
  `IndexesFindAll`, and without them TLC refutes it. The index of times holds the alternatives on
  the axis of the preferred time (`projection.rs:255`) while a search that need only possibly
  match accepts those on any axis (`search.rs:324`): an event whose other dating is on another
  axis is found there only if the numbers happen to overlap. That is the exception in
  `SearchFindsFacts`.
- *History.* A context with nothing asked for before the anchor says `has_more_before:
  false` although there is more. A search that its budget stops before the first event has
  no cursor (`query/history.rs:319`).
- *Ingestion.* Links are decided on labels alone before the first commit: two mentions of
  one new name make two resources, and when a page was cut before it said where a place is,
  the next reading makes that place again. A malformed key of a predicate fails in the
  middle.
- *Branches and background.* One branch whose view fails ends `materialize` for the branches
  after it (`kb.rs:355`). Of the types only the first 64 have a bit in the mask of a row.

## What is not modelled

Left out for good, with their reasons in `PROJECT.json`: the recognition of time expressions
and of sentences (`parse.rs` but for `inherit_date_context`, `rules.rs`), character by
character, whose results enter as expressions and pages; vectors, heights and distances
(floating-point arithmetic); the layout of columnar stores; server and CLI (I/O around the
lock), exports (formatting that nothing reads back); rendering, explanations and traces of
answers. Within the modelled components: several processes on one directory (nothing in the
code prevents it, and nothing in it is meant to work then), corruption of data that was
synced, rows of several branches, evidence or verification that reaches branches forked
earlier, which the model does have (`AddEvidence`, `VerifyAssertion` change the assertion in
place) but no document says which way is meant, the budgets of the order graph's searches
and of the queries outside the history, and the gap between choosing an extractor's labels
and ingesting what it found (`http.rs:144`).

## Plan

Done: the core (`Branching`, `RevisionLog`, `ConversationHistory`, `Identity`,
`Materializer`), the order graph, time, indexes and queries of the history, the store with
all its requests, projection, queries and ingestion, and the theorems above. What would add
most now:

1. Type correctness of `OrderMaintenance` as a theorem.
2. `Catalog` with a child branch: a commit on the parent, the rows of the child.
3. `to_root` with boxes that bound all four corners, to compare with what `Geometry::map` loses.
