---------------------------- MODULE Materializer ----------------------------
(***************************************************************************)
(* The materializer of one branch: the queue of invalidated resources, the  *)
(* cache of resolved times, the dependents of each resource, and the rows   *)
(* of the projection, as commits and the background task take turns         *)
(* (materialize.rs, the invalidation in kb.rs, the times in facts.rs).      *)
(*                                                                         *)
(* A resource's time comes from claims that give it absolutely or relative  *)
(* to another resource's time; the best ranked claim is preferred, and the  *)
(* others are alternatives.  The rest of a row is left out, and so are      *)
(* anchors given by name, start and end times, and the order graph.         *)
(***************************************************************************)
EXTENDS Identity, FiniteSets, SequencesExt

CONSTANTS
  Tick,        \* absolute times
  MaxDepth,    \* MAX_RELATIVE_DEPTH (8)
  MaxClaims,   \* bound on claims
  MaxEvents    \* bound on claims, proposals and commits together

ASSUME MaterializerAssumption ==
  /\ IsFiniteSet(Resource)
  /\ Tick \subseteq Nat /\ Tick # {}
  /\ MaxDepth \in Nat
  /\ MaxClaims \in Nat
  /\ MaxEvents \in Nat

VARIABLES
  claims,      \* the time claims, the best ranked first
  rows,        \* the projection: resource id -> row
  cache,       \* time_cache: resource id -> the slot, once it is computed
  dependents,  \* time_dependents: resource id -> who refers to its time
  queue,       \* the invalidated resources
  current,     \* materialized_seq = head_seq
  commits      \* how many commits there were

vars == <<identityVars, claims, rows, cache, dependents, queue, current, commits>>

projection == <<rows, cache, dependents, queue>>

\* A claim's expression: a tick, or one tick after the time of another resource.
Expression == [kind : {"absolute"}, tick : Tick] \cup [kind : {"after"}, anchor : Resource]

Claim == [subject : Resource, expr : Expression, live : BOOLEAN]

Found(t) == [kind |-> "found", tick |-> t]

Unresolved(kind, anchor) == [kind |-> kind, anchor |-> anchor]

Unknown == Unresolved("unknown", NoResource)

Time ==
  [kind : {"found"}, tick : Nat]
    \cup [kind : {"unknown", "anchor_unresolved", "cycle", "depth_exceeded"},
          anchor : Resource \cup {NoResource}]

\* A cycle or an exceeded depth depends on where the search started.
PathDependent(time) == time.kind \in {"cycle", "depth_exceeded"}

Slot == [time : Time, alternatives : SUBSET Time]

Row == [time : Time, alternatives : SUBSET Time, stale : BOOLEAN]

NoSlot == [time |-> Unresolved("none", NoResource)]

NoRow == [time |-> Unresolved("none", NoResource)]

-----------------------------------------------------------------------------
(* Computing a time (time_at_depth, compute_time, resolve_expr).            *)

\* The live claims about a resource and the ones merged into it, by their ranks.
ClaimsAbout(r) ==
  LET group == IdentityGroup(r)
  IN  {n \in 1..Len(claims) : claims[n].live /\ claims[n].subject \in group}

\* The time of an expression that refers to anchor, whose time is given.
After(anchor, time) ==
  CASE time.kind = "found"     -> Found(time.tick + 1)
    [] PathDependent(time)     -> Unresolved(time.kind, anchor)
    [] OTHER                   -> Unresolved("anchor_unresolved", anchor)

\* A search carries the cache and the dependencies found so far.
SearchState == [cache : [Resource -> Slot \cup {NoSlot}], deps : SUBSET (Resource \X Resource)]

\* What is asked for: a resource's time, with the resources whose times are being computed.
\* A query has one outcome; the operators give a set with that outcome.
Query == [st : SearchState, r : Resource, stack : SUBSET Resource]

Asked(st, r, anchor, stack) ==
  [st    |-> [cache |-> st.cache, deps |-> st.deps \cup {<<anchor, r>>}],
   r     |-> anchor,
   stack |-> stack]

Adding(before, st, time) == [st |-> st, times |-> Append(before.times, time)]

\* The time of one more claim about r; ask answers queries.
OneMore(ask, before, r, stack, expr) ==
  IF expr.kind = "absolute"
    THEN {Adding(before, before.st, Found(expr.tick))}
    ELSE {Adding(before, found.st, After(expr.anchor, found.slot.time)) :
            found \in ask[Asked(before.st, r, Resolve(expr.anchor), stack)]}

\* The times of all claims about r, the best ranked first.
TimesOf(ask, st, r, stack) ==
  LET times[n \in 0..Len(claims)] ==
        IF n = 0 THEN {[st |-> st, times |-> <<>>]}
        ELSE IF n \in ClaimsAbout(r)
          THEN UNION {OneMore(ask, before, r, stack, claims[n].expr) : before \in times[n - 1]}
          ELSE times[n - 1]
  IN  times[Len(claims)]

SlotOf(times) ==
  [time         |-> IF times = <<>> THEN Unknown ELSE times[1],
   alternatives |-> {times[i] : i \in {j \in 2..Len(times) : times[j].kind = "found"}}]

UnresolvedSlot(kind) == [time |-> Unresolved(kind, NoResource), alternatives |-> {}]

Kept(slot) == ~ PathDependent(slot.time)

Remember(st, r, slot) == IF Kept(slot) THEN [st EXCEPT !.cache[r] = slot] ELSE st

TimeAt(ask, hops, q) ==
  CASE q.st.cache[q.r] # NoSlot -> {[st |-> q.st, slot |-> q.st.cache[q.r]]}
    [] q.st.cache[q.r] = NoSlot /\ q.r \in q.stack -> {[st |-> q.st, slot |-> UnresolvedSlot("cycle")]}
    [] q.st.cache[q.r] = NoSlot /\ q.r \notin q.stack /\ hops = 0 ->
         {[st |-> q.st, slot |-> UnresolvedSlot("depth_exceeded")]}
    [] OTHER ->
         {[st |-> Remember(all.st, q.r, SlotOf(all.times)), slot |-> SlotOf(all.times)] :
            all \in TimesOf(ask, q.st, q.r, q.stack \cup {q.r})}

\* The answers to all queries, with so many hops left.
Search[hops \in 0..(MaxDepth + 1)] == [q \in Query |-> TimeAt(Search[hops - 1], hops, q)]

\* The outcome for a resource whose time nobody is computing yet.
Answers(st, r) == Search[MaxDepth + 1][[st |-> st, r |-> r, stack |-> {}]]

NoCache == [r \in Resource |-> NoSlot]

\* The slot of a resource, computed from the store alone.
FreshSlot(r) ==
  CHOOSE slot \in {found.slot : found \in Answers([cache |-> NoCache, deps |-> {}], Resolve(r))} : TRUE

-----------------------------------------------------------------------------
(* Invalidation.                                                            *)

\* With a fault: the dependents of the dependents are left alone.
DirectDependents(deps, r) == {r} \cup deps[r]

\* What the invalidation of a resource reaches: it, its dependents, theirs and so on.
Reached(deps, r) ==
  {x \in Resource :
     \A S \in SUBSET Resource : r \in S /\ (\A a \in S : deps[a] \subseteq S) => x \in S}

\* The orders in which invalidate may come upon the reached resources: it walks
\* over hash sets.
Walks(deps, r) ==
  {s \in {<<r>> \o others : others \in SetToSeqs(Reached(deps, r) \ {r})} :
     \A i \in 2..Len(s) : \E j \in 1..(i - 1) : s[i] \in deps[s[j]]}

NotQueued(ids, r) == r \notin Range(ids)

\* The queue with those of these that were not in it.
Queued(ids, walk) ==
  LET joined[n \in 0..Len(walk)] ==
        IF n = 0 THEN ids
        ELSE IF NotQueued(joined[n - 1], walk[n])
          THEN Append(joined[n - 1], walk[n])
          ELSE joined[n - 1]
  IN  joined[Len(walk)]

\* The state of the projection is passed as a record.
Projection == [rows |-> rows, cache |-> cache, deps |-> dependents, queue |-> queue]

\* The possible results of the invalidation of a resource.
Invalidated(st, r) ==
  LET reached == Reached(st.deps, r)
  IN  {[st EXCEPT
          !.cache = [x \in Resource |-> IF x \in reached THEN NoSlot ELSE @[x]],
          !.rows  = [x \in Resource |-> IF x \in reached /\ @[x] # NoRow
                                          THEN [@[x] EXCEPT !.stale = TRUE]
                                          ELSE @[x]],
          !.queue = Queued(@, walk)] : walk \in Walks(st.deps, r)}

\* ... and of several, one after the other.
InvalidatedAll(st, ids) ==
  LET after[n \in 0..Len(ids)] ==
        IF n = 0 THEN {st} ELSE UNION {Invalidated(s, ids[n]) : s \in after[n - 1]}
  IN  after[Len(ids)]

Becomes(st) ==
  /\ rows' = st.rows
  /\ cache' = st.cache
  /\ dependents' = st.deps
  /\ queue' = st.queue

\* A commit that invalidates these resources, in this order.
Invalidates(ids) ==
  /\ commits' = commits + 1
  /\ Len(claims') + Len(proposals') + commits' <= MaxEvents
  /\ current' = FALSE
  /\ \E st \in InvalidatedAll(Projection, ids) : Becomes(st)

\* KnowledgeBase::invalidate: a resource, and what it is merged into now.
Touched(r) == IF Resolve(r)' = r THEN <<r>> ELSE <<r, Resolve(r)'>>

-----------------------------------------------------------------------------
(* Commits.                                                                 *)

\* propose_assertion: the subject is resolved; the anchor is kept as it is written.
\* The new claim may rank above, below or between the others.
AddClaim(r, expr) ==
  /\ Len(claims) < MaxClaims
  /\ \E i \in 1..(Len(claims) + 1) :
       claims' = InsertAt(claims, i, [subject |-> Resolve(r), expr |-> expr, live |-> TRUE])
  /\ UNCHANGED identityVars
  /\ Invalidates(Touched(Resolve(r)))

RetractClaim(n) ==
  /\ claims[n].live
  /\ claims' = [claims EXCEPT ![n].live = FALSE]
  /\ UNCHANGED identityVars
  /\ Invalidates(Touched(claims[n].subject))

\* A change of a resource that leaves the times alone: a label, an evidence.
TouchResource(r) ==
  /\ UNCHANGED <<identityVars, claims>>
  /\ Invalidates(Touched(Resolve(r)))

\* A change of the vocabulary, the calendars or the rank policy invalidates all
\* rows, in the order of their ids (invalidate_all).
TouchAll ==
  /\ UNCHANGED <<identityVars, claims>>
  /\ Invalidates(SetToSeq(Resource))

ProposeMerge(from, into) ==
  /\ NewProposal(from, into)
  /\ UNCHANGED claims
  /\ Invalidates(<<>>)

\* The ids of the proposal are touched, not the ones that the redirect is made of.
DecideMerge(n, approve) ==
  /\ Decision(n, approve)
  /\ UNCHANGED claims
  /\ Invalidates(Touched(proposals[n].from) \o Touched(proposals[n].into))

-----------------------------------------------------------------------------
(* The background task.  It works through the queue in batches; a batch is  *)
(* a number of these steps without a commit between them.                   *)

ProcessMerged(r, rest) ==
  LET removed == [Projection EXCEPT !.queue = rest, !.rows[r] = NoRow]
  IN  \E st \in IF Resolve(r) \in Range(rest) THEN {removed} ELSE Invalidated(removed, Resolve(r)) :
        Becomes(st)

\* With a fault: the dependents are told whether the time is a new one or not.
AlwaysTold(st, r, time) == st.deps[r] \ {r}

\* The dependents that are told of a new time.
Told(st, r, time) ==
  IF st.rows[r] # NoRow /\ st.rows[r].time = time THEN {} ELSE st.deps[r] \ {r}

RowOf(slot) == [time |-> slot.time, alternatives |-> slot.alternatives, stale |-> FALSE]

ProcessRow(r, rest) ==
  \E found \in Answers([cache |-> cache, deps |-> {}], r) :
    LET computed ==
          [Projection EXCEPT
             !.queue = rest,
             !.cache = found.st.cache,
             !.deps  = [a \in Resource |-> @[a] \cup {d \in Resource : <<a, d>> \in found.st.deps}]]
    IN  \E told \in SetToSeqs(Told(computed, r, found.slot.time)) :
          \E st \in InvalidatedAll(computed, told) :
            Becomes([st EXCEPT !.rows[r] = RowOf(found.slot)])

Process ==
  /\ queue # <<>>
  /\ LET r == Head(queue)
     IN  IF Resolve(r) # r THEN ProcessMerged(r, Tail(queue)) ELSE ProcessRow(r, Tail(queue))
  /\ current' = (queue' = <<>>)
  /\ UNCHANGED <<identityVars, claims, commits>>

\* The task finds an empty queue.
FindNothing ==
  /\ queue = <<>>
  /\ ~ current
  /\ current' = TRUE
  /\ UNCHANGED <<identityVars, claims, projection, commits>>

Materialize == Process \/ FindNothing

-----------------------------------------------------------------------------
\* The claims of the log refer to other resources, to bound the initial states; a claim
\* that is added may refer to its own subject.
ReplayedClaim ==
  {c \in Claim : c.live /\ (c.expr.kind = "after" => c.expr.anchor # c.subject)}

\* The revisions of the log were replayed: nothing is materialized yet, and every
\* resource was invalidated when it was created.
Init ==
  /\ InitIdentity
  /\ claims \in BoundedSeq(ReplayedClaim, MaxClaims)
  /\ Len(claims) + Len(proposals) <= MaxEvents
  /\ rows = [r \in Resource |-> NoRow]
  /\ cache = NoCache
  /\ dependents = [r \in Resource |-> {}]
  /\ queue = SetToSeq(Resource)
  /\ current = FALSE
  /\ commits = 0

Next ==
  \/ \E r \in Resource, expr \in Expression : AddClaim(r, expr)
  \/ \E n \in 1..Len(claims) : RetractClaim(n)
  \/ \E r \in Resource : TouchResource(r)
  \/ TouchAll
  \/ \E from, into \in Resource : ProposeMerge(from, into)
  \/ \E n \in 1..Len(proposals), approve \in BOOLEAN : DecideMerge(n, approve)
  \/ Materialize

\* The timer of serve calls materialize again and again, whatever the requests do.
Spec == Init /\ [][Next]_vars /\ WF_vars(Materialize)

-----------------------------------------------------------------------------
(* Properties.                                                              *)

\* Every variable has its type, and a resource is in the queue at most once
\* (BranchState::invalidate, queued).
TypeOK ==
  /\ IdentityTypeOK
  /\ claims \in Seq(Claim)
  /\ rows \in [Resource -> Row \cup {NoRow}]
  /\ cache \in [Resource -> Slot \cup {NoSlot}]
  /\ dependents \in [Resource -> SUBSET Resource]
  /\ queue \in Seq(Resource)
  /\ \A i, j \in 1..Len(queue) : queue[i] = queue[j] => i = j
  /\ current \in BOOLEAN
  /\ commits \in 0..MaxEvents

\* What freshness reports as consistent.
Consistent == queue = <<>> /\ current

\* Every merge was made of the ids that were proposed: none was approved after its own
\* from had been merged into something else.
MergesAsProposed ==
  \A r \in Resource :
    Merged(r) => \E n \in 1..Len(proposals) :
                   proposals[n].status = "approved" /\ proposals[n].from = r

\* A row that is not flagged stale belongs to a resource that was not merged away, and is
\* what would be computed from the store now, whatever commits and materialization did
\* in between (invalidate, process, the time cache).  Left out are chains of relative
\* times beyond the depth limit, whose result depends on what is cached, and merges that
\* were not made as they were proposed, after which a row is left over.
HonestRows ==
  MergesAsProposed =>
    \A r \in Resource :
      rows[r] # NoRow /\ ~ rows[r].stale =>
        /\ ~ Merged(r)
        /\ \/ rows[r].time = FreshSlot(r).time
           \/ FreshSlot(r).time.kind = "depth_exceeded"

\* Rows become current again when commits cease: what a change invalidates is recomputed
\* in finitely many steps, cycles of relative times included (BranchState::process).
Settles == <>[]Consistent

\* The time of the resource it was merged into was computed from its own, directly or
\* through others, before the merge: its entry in time_dependents remains.
MergedIntoAnchor(r) == Merged(r) /\ r \in Reached(dependents, Resolve(r))

\* The same, but for resources that were merged into what their time depended on: the
\* invalidation of the one and the removal of the other queue each other for ever
\* (BranchState::process).
SettlesUnlessMerged == Settles \/ <>[](\E r \in Resource : MergedIntoAnchor(r))
=============================================================================
