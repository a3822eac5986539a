------------------------------ MODULE Catalog ------------------------------
(***************************************************************************)
(* One knowledge base on its main branch: what it stores, the projection     *)
(* that a background task brings up to date, and the requests of the modules  *)
(* below it as actions (kb.rs, write.rs).  Each request of a world is made    *)
(* at most once, in any order.                                               *)
(***************************************************************************)
EXTENDS Queries, Ingestion

CONSTANTS
  Worlds,            \* where to begin: a store, and the requests that may come
  MaxWrites,         \* how many requests a behaviour has
  MaterializeBatch,  \* how many resources one tick of the background task takes
  Searches,          \* what is searched for
  Readers            \* who reads

ASSUME CatalogAssumption == MaxWrites \in Nat /\ MaterializeBatch \in Nat \ {0}

VARIABLES
  store,
  projection,
  requests,     \* requests that were not made yet
  reports,      \* what ingestion reported
  writes

vars == <<store, projection, requests, reports, writes>>

Init ==
  \E w \in Worlds :
    /\ store = w.store
    /\ projection = MaterializeSome(w.store, Reopened(w.store), 2 * Len(w.store.resources))
    /\ requests = w.requests
    /\ reports = <<>> /\ writes = 0

-----------------------------------------------------------------------------

\* A request of this kind is made, and what it comes to is committed.
Request(op, Outcomes(_)) ==
  \E i \in DOMAIN requests :
    /\ requests[i].op = op
    /\ \E o \in Outcomes(requests[i]) :
         /\ store' = o.store
         /\ projection' = Invalidated(o.store, projection, o.touched, o.role)
    /\ writes < MaxWrites /\ writes' = writes + 1
    /\ requests' = RemoveAt(requests, i)
    /\ UNCHANGED reports

Create == Request("create_resource", LAMBDA r : CreateResource(store, r.q))
Update == Request("update_resource", LAMBDA r : UpdateResource(store, r.q))
Propose == Request("propose_assertion", LAMBDA r : ProposeAssertion(store, r.by, r.q))
Supersede == Request("supersede_assertion", LAMBDA r : SupersedeAssertion(store, r.by, r.claim, r.q))
Retract == Request("retract_assertion", LAMBDA r : RetractAssertion(store, r.by, r.claim, r.basis))
Dispute == Request("dispute_assertion", LAMBDA r : DisputeAssertion(store, r.by, r.claim))
Accept == Request("accept_assertion", LAMBDA r : AcceptAssertion(store, r.by, r.claim))
Verify == Request("verify_assertion", LAMBDA r : VerifyAssertion(store, r.by, r.claim))
AddEvidenceTo == Request("add_evidence", LAMBDA r : AddEvidence(store, r.by, r.claim, r.e))
ProposeMerge == Request("merge_identity", LAMBDA r : MergeIdentity(store, r.q))
Decide == Request("decide_merge", LAMBDA r : DecideMerge(store, r.by, r.proposal, r.approve))
Link == Request("link_source", LAMBDA r : LinkSource(store, r.by, r.q))
Observe == Request("add_observation", LAMBDA r : AddObservation(store, r.by, r.q))
Track == Request("add_trajectory", LAMBDA r : AddTrajectory(store, r.by, r.q))
NewPredicate == Request("propose_predicate", LAMBDA r : ProposePredicate(store, r.by, r.q))
GrantPredicate == Request("accept_predicate", LAMBDA r : AcceptPredicate(store, r.by, r.key))
NewType == Request("propose_type", LAMBDA r : ProposeType(store, r.by, r.q))
NewCalendar == Request("define_calendar", LAMBDA r : DefineCalendar(store, r.by, r.key, r.wellFormed))
NewLicense == Request("define_license", LAMBDA r : DefineLicense(store, r.by, r.key, r.free))
NewPolicy == Request("set_rank_policy", LAMBDA r : SetRankPolicy(store, r.by, r.policy))
NewSequence == Request("define_sequence", LAMBDA r : DefineSequence(store, r.q))
NewTable == Request("define_table", LAMBDA r : DefineTable(store, r.q))
NewRows == Request("add_table_rows", LAMBDA r : AddTableRows(store, r.table, r.rows))
NewLink == Request("link_row", LAMBDA r : LinkRow(store, r.table, r.key, r.id))
NewVector == Request("set_embedding", LAMBDA r : SetEmbedding(store, r.id, r.space, r.vector))

\* An extraction is written commit by commit, and may end after any of them.
Ingest ==
  \E i \in {x \in DOMAIN requests : requests[x].op = "ingest"} :
    LET d == requests[i].d
    IN  /\ writes < MaxWrites /\ writes' = writes + 1
        /\ Valid(store, d)
        /\ \E decisions \in {Decisions(store, d)} :
             LET all == Len(Steps(store, d, decisions))
             IN  \E steps \in 1..all : \E done \in {Ingested(store, projection, requests[i].by, d, decisions, steps)} :
                   /\ store' = done.store
                   /\ projection' = done.projection
                   /\ reports' = Append(reports, [d |-> d, ids |-> done.ids, decisions |-> decisions,
                                                  whole |-> steps = all /\ ~done.failed])
        /\ requests' = RemoveAt(requests, i)

-----------------------------------------------------------------------------

Unasked == UNCHANGED <<store, requests, reports, writes>>

\* A tick of the background task, which goes on after a panic.
Materialize ==
  /\ projection.queue # <<>>
  /\ projection' = MaterializeSome(store, projection, MaterializeBatch)
  /\ Unasked

\* The projection is not stored.
Restart == projection' = Reopened(store) /\ Unasked

Resources == Create \/ Update \/ ProposeMerge \/ Decide
Claims == Propose \/ Supersede \/ Retract \/ Dispute \/ Accept \/ Verify \/ AddEvidenceTo
Schema == NewPredicate \/ GrantPredicate \/ NewType \/ NewCalendar \/ NewLicense \/ NewPolicy
Data == Link \/ Observe \/ Track \/ NewSequence \/ NewTable \/ NewRows \/ NewLink \/ NewVector

Next == Resources \/ Claims \/ Schema \/ Data \/ Ingest \/ Materialize \/ Restart

Spec == Init /\ [][Next]_vars

-----------------------------------------------------------------------------
(* Properties *)

Fresh == DOMAIN projection.rows \ projection.stale

MergedIds == DOMAIN store.redirects \cup Range(store.redirects)

Naming(id, row) == {id} \cup row.places \cup row.ancestors \cup row.works \cup row.entities

\* A row that is not marked as stale is the one that would be computed now, wherever the change
\* was made that it depends on: a place above its place, a claim about something it is related
\* to, a license or the vocabulary (kb.rs, invalidate).  What a merge concerns is the exception.
CurrentOrMerged(id, row, now) == row = now \/ (Naming(id, row) \cup Naming(id, now)) \cap MergedIds # {}

FreshRowsAreCurrent == \A id \in Fresh : CurrentOrMerged(id, projection.rows[id], RowOf(store, id))

\* What waits to be computed again is in the queue (materialize.rs:3).
StaleRowsAreQueued == projection.stale \subseteq Range(projection.queue)

\* Whether what is known of a resource, and these other opinions on its time, is what a search means.
Meant(f, others, who, q) ==
  /\ CanSee(who, f.visibility) /\ f.rank >= q.minRank
  /\ AcceptsFacts(store, f, q)
  /\ \A token \in Range(q.text) : \E l \in Range(f.labels) : token \in Range(Normal(l))
  /\ q.contestedOnly => f.contested # {}
  /\ q.window # AnyTime =>
       \/ TimeAccepts(f.time, q.window)
       \/ q.window.mode = "possibly" /\ \E a \in others : Accepts(q.window, a[1], a[2])

OtherTimes(f) == IF f.time.kind = "resolved" THEN f.time.alternatives ELSE {}

\* Those on the axis of the preferred time; the index of times has no others.
OtherTimesOnAxis(f) == {a \in OtherTimes(f) : a[1] = f.time.axis}

EventsWith(e) == [NoFilter EXCEPT !.types = {"Event"}, !.entities = {e}]
TimelineWith(e) == [types |-> {}, entity |-> e, work |-> None, place |-> None]

\* What ends before another begins does not come after it.
InOrderOfTime(rows) ==
  LET at(i) == projection.rows[rows[i]].time.range
  IN  \A i, j \in DOMAIN rows : i < j => at(j).es = at(i).es \/ ~CertainlyBefore(at(j), at(i).es)

DisagreesIn(answers) == \E a \in answers : \E k \in DOMAIN a : a[k].contested

FoundAsMeant(current, known, who, q) ==
  LET found == Range(Search(store, projection, ToTheView(who), q)) \cap current
  IN  /\ {id \in current : Meant(known[id], OtherTimesOnAxis(known[id]), who, q)} \subseteq found
      /\ found \subseteq {id \in current : Meant(known[id], OtherTimes(known[id]), who, q)}

FoundIffMeant(current, known) ==
  \A who \in Readers :
    /\ \A q \in Searches : FoundAsMeant(current, known, who, q)
    /\ \A e \in current :
         TimelineRows(store, projection, who, TimelineWith(e)) \cap (current \ {e})
           = {id \in current \ {e} : Meant(known[id], {}, who, EventsWith(e))}
    /\ \A axis \in {known[e].time.axis : e \in {x \in current : known[x].time.kind = "resolved"}} :
         InOrderOfTime(TimelineOn(projection, current, axis))
    /\ LET conflicts == Conflicts(store, projection, ToTheView(who))
       IN  \A id \in current \cap conflicts :
             DisagreesIn(Expand(store, id, ToTheView(who), {}, FALSE)) <=> CanSee(who, known[id].visibility)
    /\ Conflicts(store, projection, ProjectionView) \cap current = {id \in current : known[id].contested # {}}

\* A search finds a resource with a current row if and only if what is known of it is what the
\* search asks for: no index has lost it, and none still has it under an old place, time, type or
\* word.  One thing is excepted: where another opinion on the time is on another axis than the
\* preferred one, a search of that axis may find the resource by it or not, since the search
\* accepts it (search.rs:324) but the index of times has it only by chance (projection.rs:255).
\* The timeline of an entity has its events, none after one that must come later; the list of
\* conflicts has what is contested, and what is expanded shows it to those who may see the
\* resource (ops.rs).
SearchFindsFacts ==
  \E known \in {[id \in {x \in Fresh : ~Redirected(store, x)} |-> RowOf(store, id)]} :
    FoundIffMeant({id \in DOMAIN known : known[id] = projection.rows[id]}, known)

\* What was known at a time: claims, with the status that they had.
KnownAt(s, t) == {<<c, StatusAt(s.claims[c], t)>> : c \in {x \in Ids(s.claims) : s.claims[x].known <= t}}

\* New evidence that was acquired by then, or a change of status that rests on something that was.
LearntOf(t) ==
  \E c \in Ids(store'.claims) :
    LET new == store'.claims[c]
        isOld == c \in Ids(store.claims)
        evidence == Range(new.evidence) \ (IF isOld THEN Range(store.claims[c].evidence) ELSE {})
        changes == SubSeq(new.history, (IF isOld THEN Len(store.claims[c].history) ELSE 0) + 1, Len(new.history))
    IN  \/ \E e \in evidence : store'.acquisitions[e.acquisition].at <= t
        \/ \E h \in Range(changes) : h.basis # None /\ h.basis <= t

AsKnownAt(t) == [ProjectionView EXCEPT !.knownAt = t]

\* Identity, vocabulary, licenses and types have no past: every view has those of today.
UntimedStays ==
  /\ <<store.redirects, store.types, store.predicates, store.licenses>>'
       = <<store.redirects, store.types, store.predicates, store.licenses>>
  /\ \A id \in Ids(store.resources) : store'.resources[id].types = store.resources[id].types

\* Nor have what weighs claims, and the sources with the dates of their publication.
WeightsStay ==
  /\ <<store.policy, store.sources>>' = <<store.policy, store.sources>>
  /\ \A c \in Ids(store.claims) : /\ store'.claims[c].evidence = store.claims[c].evidence
                                  /\ store'.claims[c].verified = store.claims[c].verified

\* Only weights tell which of several values comes first.
Unweighed(f) ==
  [types |-> f.types, classes |-> f.classes, places |-> f.places, ancestors |-> f.ancestors, entities |-> f.entities,
   works |-> f.works, canons |-> f.canons, timelines |-> f.timelines, stated |-> f.stated,
   contested |-> f.contested, known |-> f.known, free |-> f.free]

SameAnswers(t) ==
  \A id \in Ids(store.resources) \ DOMAIN store.redirects :
    LET before == FactsOf(store, id, AsKnownAt(t))
        after  == FactsOf(store', id, AsKnownAt(t))
    IN  after = before \/ (~WeightsStay /\ Unweighed(after) = Unweighed(before))

\* The claims that an answer about a past time rests on, and their statuses, stay as they were,
\* whatever is claimed, changed, merged or read later; only a document that had been acquired by
\* that time can change them (view.rs, effective_status; canonical.rs, first_known).  So does all
\* else that the answer says of a resource, with what the code keeps no time of excepted:
\* merges, vocabulary, licenses and types change every past answer, and what is preferred and how
\* it ranks changes with evidence of any time, verification, the policy and sources (facts.rs:156),
\* although the view promises to use only what had been acquired by then (query/mod.rs:42).
PastStaysPast ==
  [][store' # store => \A t \in 1..(store.clock - 1) :
       \/ LearntOf(t)
       \/ /\ KnownAt(store', t) = KnownAt(store, t)
          /\ UntimedStays => SameAnswers(t)]_vars

Standing == Ids(store.resources) \ DOMAIN store.redirects

Near(id, view) ==
  LET edges == Neighbors(store, id, view, {}, "both", 2).edges IN UNION {{e[1], e[3]} : e \in edges}

\* After merges of merges every claim is about one resource, to all queries alike: what leads
\* from one resource to another leads back, and no answer names a resource that was merged
\* away (canonical.rs, identity_group; ops.rs).
MergedAnswersAgree ==
  \A who \in Readers :
    LET view == ToTheView(who)
    IN  /\ \A id \in Standing :
             ClaimsAbout(store, id, view) = {c \in ShownClaims(store, view) : SubjectOf(store, c) = id}
        /\ \E near \in {[id \in Standing |-> Near(id, view)]} :
             \A a \in Standing : near[a] \subseteq Standing /\ \A b \in near[a] : a \in near[b]
        /\ \A id \in Ids(store.resources) :
             LookupId(store, id) \cup PossiblySame(store, Canonical(store, id), view) \subseteq Standing
        /\ \A id \in Ids(store.resources) : \A l \in Range(store.resources[id].labels) :
             Canonical(store, id) \in LookupLabel(store, l) /\ LookupLabel(store, l) \subseteq Standing
        /\ \A id \in Ids(store.resources) : \A x \in store.resources[id].externals :
             LookupExternal(store, x) = {Canonical(store, id)}
        /\ \A i \in Ids(store.sequences) : Range(ItemsOf(store, i)) \subseteq Standing

\* A mention that a reader would look for again: no event, and not inside another one.
Recurs(d, i) ==
  /\ d.entities[i].resource = None /\ "Event" \notin d.entities[i].types /\ ParentMention(d, i) = None
  /\ d.entities[i].types \ {"Resource"} # {}

SaysOf(s, id, other, key) ==
  \E c \in Ids(s.claims) : /\ s.claims[c].subject = id /\ s.claims[c].predicate = key
                           /\ s.claims[c].object = ResourceValue(other)

\* Reading a document once more, after a reading that was cut short or after merges, does not
\* make a second resource of what it mentions, unless it then cannot be told which one is meant.
\* A reading that came to its end has said of every undecided mention what it may be the same as,
\* and has every claim of the document that joins two mentions (pipeline.rs, link.rs).
IngestionLinks ==
  [][reports' # reports =>
       LET new == Last(reports')
           d == new.d
       IN  /\ \A old \in Range(reports) : \A i \in DOMAIN old.ids :
                old.d = d /\ Recurs(d, i) => new.decisions[i].decision # "new"
           /\ new.whole => \A i \in DOMAIN d.entities :
                new.decisions[i].decision = "ambiguous" =>
                  \A id \in new.decisions[i].candidates : SaysOf(store', new.ids[i], id, "possibly_same_as")
           /\ new.whole => \A n \in DOMAIN d.claims :
                LET c == d.claims[n]
                IN  c.object.kind = "mention" /\ PredicateOf(store', c.predicate).range = RangeOf("resource", {})
                      => SaysOf(store', new.ids[c.subject], new.ids[c.object.of], c.predicate)]_vars
=============================================================================
