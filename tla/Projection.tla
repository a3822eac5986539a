----------------------------- MODULE Projection -----------------------------
(***************************************************************************)
(* The projection of the main branch (projection.rs) as a record p: a row   *)
(* for each resource that was materialized, the indexes over the rows, and   *)
(* the queue of what has to be computed again (kb.rs, materialize.rs).       *)
(* Materializer has what follows from times that refer to others.            *)
(***************************************************************************)
EXTENDS Records

Indexes == {"type", "entity", "space", "ancestor", "work", "canon", "timeline", "text", "span", "contested"}

NewProjection == [rows |-> Empty, postings |-> [kind \in Indexes |-> {}], stale |-> {}, queue |-> <<>>]

Redirected(s, id) == id \in DOMAIN s.redirects

-----------------------------------------------------------------------------
(* Rows *)

\* The labels of what was merged into it are searched as well.
LabelsOf(s, id) == FlattenSeq([i \in DOMAIN Group(s, id) |-> s.resources[Group(s, id)[i]].labels])

\* from_facts
RowOf(s, id) ==
  FactsOf(s, id, ProjectionView) @@
    [labels |-> LabelsOf(s, id), visibility |-> s.resources[id].visibility]

HasTime(row) == row.time.kind = "resolved"

\* The span of the time and of the times others say, as far as they are on one axis.
SpanOf(time) ==
  LET ranges == {time.range} \cup {a[2] : a \in {x \in time.alternatives : x[1] = time.axis}}
  IN  <<Min({r.es : r \in ranges}), Max({r.le : r \in ranges})>>

KeysIn(row, kind) ==
  CASE kind = "type"      -> row.types
    [] kind = "entity"    -> row.entities
    [] kind = "space"     -> row.places
    [] kind = "ancestor"  -> row.ancestors
    [] kind = "work"      -> row.works
    [] kind = "canon"     -> row.canons
    [] kind = "timeline"  -> row.timelines
    [] kind = "text"      -> UNION {Range(Normal(l)) : l \in Range(row.labels)}
    [] kind = "span"      -> IF HasTime(row) THEN {SpanOf(row.time)} ELSE {}
    [] kind = "contested" -> IF row.contested # {} THEN {TRUE} ELSE {}

Posted(p, kind, key) == {e[2] : e \in {x \in p.postings[kind] : x[1] = key}}

Unindex(p, id) ==
  IF id \notin DOMAIN p.rows THEN p
  ELSE [p EXCEPT !.postings = [k \in Indexes |-> @[k] \ {<<key, id>> : key \in KeysIn(p.rows[id], k)}]]

\* With a fault: the entries of the old row stay.
UpsertOver(p, id, row) ==
  [p EXCEPT !.postings = [k \in Indexes |-> @[k] \cup {<<key, id>> : key \in KeysIn(row, k)}],
            !.rows = Put(@, id, row),
            !.stale = @ \ {id}]

Upsert(p, id, row) ==
  LET rest == Unindex(p, id)
  IN  [rest EXCEPT !.postings = [k \in Indexes |-> @[k] \cup {<<key, id>> : key \in KeysIn(row, k)}],
                   !.rows = Put(@, id, row),
                   !.stale = @ \ {id}]

RemoveRow(p, id) ==
  [Unindex(p, id) EXCEPT !.rows = Restrict(p.rows, DOMAIN p.rows \ {id}), !.stale = @ \ {id}]

-----------------------------------------------------------------------------
(* Invalidation *)

\* Queued once; the row it has is stale from now on.
Invalidate(p, id) ==
  [p EXCEPT !.queue = IF id \in Range(@) THEN @ ELSE Append(@, id),
            !.stale = @ \cup ({id} \cap DOMAIN p.rows)]

InvalidateIn(p, ids) == FoldLeft(Invalidate, p, Ascending(ids))

\* With a fault: only the coordinates of a place spread to what is in it.
ExpandedLess(p, id, role) == IF role = "Coordinates" THEN Posted(p, "ancestor", id) ELSE {}

\* The rows whose places or works hang on what a claim is about; they are looked for under the
\* id that the claim has, not under the one it is merged into.
Expanded(p, id, role) ==
  CASE role \in {"SpatialContainment", "Coordinates", "Location"} -> Posted(p, "ancestor", id) \cup Posted(p, "space", id)
    [] role = "WorkMembership" -> Posted(p, "work", id)
    [] OTHER -> {}

\* KnowledgeBase::invalidate
Invalidated(s, p, touched, role) ==
  IF touched = {Everything} THEN InvalidateIn(p, Ids(s.resources))
  ELSE FoldLeft(LAMBDA q, id : InvalidateIn(Invalidate(Invalidate(q, id), Canonical(s, id)), Expanded(p, id, role)),
                p, Ascending(touched))

-----------------------------------------------------------------------------
(* Materialization *)

\* process, one resource of the queue, which is taken out before anything else happens.  The
\* program panics where a time cannot be computed.
Processed(p, id, row) ==
  IF row.time = Failed THEN [p |-> p, panicked |-> TRUE]
  ELSE [p |-> Upsert(p, id, row), panicked |-> FALSE]

MaterializeNext(s, p) ==
  LET id   == Head(p.queue)
      rest == [p EXCEPT !.queue = Tail(@)]
  IN  IF Redirected(s, id)
      THEN [p |-> Invalidate(RemoveRow(rest, id), Canonical(s, id)), panicked |-> FALSE]
      ELSE Processed(rest, id, RowOf(s, id))

\* process: so many of the queue, or until it panics.
MaterializeSome(s, p, batch) ==
  FoldLeft(LAMBDA done, i : IF done.p.queue = <<>> \/ done.panicked THEN done ELSE MaterializeNext(s, done.p),
           [p |-> p, panicked |-> FALSE], [i \in 1..batch |-> i]).p

\* What the projection begins with when a base is opened: everything is queued.
Reopened(s) == InvalidateIn(NewProjection, Ids(s.resources))

Consistent(p) == p.queue = <<>> /\ p.stale = {}
=============================================================================
