------------------------------ MODULE Queries ------------------------------
(***************************************************************************)
(* The read operations (query/mod.rs, search.rs, ops.rs) as functions of    *)
(* the store s, the projection p and a view: which resources and claims an   *)
(* answer has.  Budgets, floating-point scores and the layout of answers are   *)
(* left out; histories are in HistoryQueries.                                 *)
(***************************************************************************)
EXTENDS Projection

ToTheView(who) == [ProjectionView EXCEPT !.who = who]

-----------------------------------------------------------------------------
(* Search *)

AnyTime == [axis |-> "any"]
Window(axis, from, to, mode, undated) == [axis |-> axis, from |-> from, to |-> to, mode |-> mode, undated |-> undated]

NoFilter ==
  [types |-> {}, entities |-> {}, works |-> {}, place |-> None, text |-> <<>>, window |-> AnyTime,
   contestedOnly |-> FALSE, minRank |-> 0, order |-> "rank", limit |-> 20]

\* Window::accepts
AcceptsRange(w, range) ==
  CASE w.mode = "within"    -> CertainlyWithin(range, w.from, w.to)
    [] w.mode = "certainly" -> CertainlyOverlaps(range, w.from, w.to)
    [] w.mode = "possibly"  -> PossiblyOverlaps(range, w.from, w.to)

Accepts(w, axis, range) == axis = w.axis /\ AcceptsRange(w, range)

PostedAny(p, kind, keys) == UNION {Posted(p, kind, k) : k \in keys}

\* scoped: the rows of a canon or of timelines, and those of none.
Scoped(p, kind, keys) == PostedAny(p, kind, keys) \cup (DOMAIN p.rows \ {e[2] : e \in p.postings[kind]})

\* TemporalIndex::overlapping
Overlapping(p, w) == {e[2] : e \in {x \in p.postings["span"] : x[1][1] < w.to /\ x[1][2] > w.from}}
Dated(p) == {e[2] : e \in p.postings["span"]}

Candidates(s, p, view, q) ==
  {id \in DOMAIN p.rows :
     /\ q.types # {} => id \in PostedAny(p, "type", q.types)
     /\ \A e \in q.entities : id \in Posted(p, "entity", Canonical(s, e))
     /\ \A w \in q.works : id \in Posted(p, "work", Canonical(s, w))
     /\ q.place # None => id \in Posted(p, "ancestor", Canonical(s, q.place))
     /\ \A token \in Range(q.text) : id \in Posted(p, "text", token)
     /\ view.canon # None => id \in Scoped(p, "canon", {view.canon})
     /\ view.timelines # {} => id \in Scoped(p, "timeline", view.timelines)
     /\ q.window # AnyTime => \/ id \in Overlapping(p, q.window)
                              \/ q.window.undated /\ id \notin Dated(p)
     /\ q.contestedOnly => id \in Posted(p, "contested", TRUE)}

\* A label that is the text, or one that begins with it.
Likeness(row, text) ==
  LET labels == {Normal(l) : l \in Range(row.labels)}
  IN  IF text = <<>> THEN 0 ELSE IF text \in labels THEN 1000000
      ELSE IF \E l \in labels : IsPrefix(text, l) THEN 300000 ELSE 0

\* By rank, by the start of the time, or by how well a label matches and a tenth of the rank.
ScoreOf(row, q) ==
  CASE q.order = "rank" -> row.rank
    [] q.order = "time" -> IF HasTime(row) THEN -row.time.range.es ELSE NegInf
    [] q.order = "relevance" -> row.rank \div 10 + Likeness(row, q.text)

\* A row in the window by its time or, if it need only be possible, by what others say; a view of
\* its own looks at the time again.
InWindow(row, w, verify) ==
  IF HasTime(row)
  THEN \/ Accepts(w, row.time.axis, row.time.range)
       \/ w.mode = "possibly" /\ \E a \in row.time.alternatives : Accepts(w, a[1], a[2])
       \/ verify /\ row.time.axis = w.axis
  ELSE w.undated

\* FactFilters::accepts
AcceptsFacts(s, f, q) ==
  /\ q.types # {} => q.types \cap f.types # {}
  /\ \A e \in q.entities : Canonical(s, e) \in f.entities
  /\ \A w \in q.works : Canonical(s, w) \in f.works
  /\ q.place # None => Canonical(s, q.place) \in f.ancestors

TimeAccepts(time, w) ==
  IF time.kind = "resolved" THEN Accepts(w, time.axis, time.range) ELSE w.undated

VerifiedBy(s, f, q) ==
  /\ f.stated
  /\ AcceptsFacts(s, f, q)
  /\ q.window # AnyTime => TimeAccepts(f.time, q.window)

Verified(s, id, view, q) == VerifiedBy(s, FactsOf(s, id, view), q)

Hit(s, p, id, view, q) ==
  LET row == p.rows[id]
      verify == ~AsProjected(view)
  IN  /\ CanSee(view.who, row.visibility)
      /\ row.rank >= q.minRank
      /\ q.window # AnyTime => InWindow(row, q.window, verify)
      /\ verify => Verified(s, id, view, q)

Prefix(seq, n) == SubSeq(seq, 1, Smaller(n, Len(seq)))

\* Higher scores first, then the older.
Search(s, p, view, q) ==
  LET score(id) == ScoreOf(p.rows[id], q)
      before(a, b) == score(a) > score(b) \/ (score(a) = score(b) /\ a < b)
  IN  Prefix(SortedBy({id \in Candidates(s, p, view, q) : Hit(s, p, id, view, q)}, before), q.limit)

-----------------------------------------------------------------------------
(* Lookup and claims *)

\* possibly_same
PossiblySame(s, id, view) ==
  LET live(claims) == WithKeys(s, Affirmed(s, claims, view), {"possibly_same_as"})
  IN  (ObjectsOf(s, live(ClaimsAbout(s, id, view)))
         \cup {SubjectOf(s, c) : c \in live(ClaimsReferencing(s, id, view))}) \ {id}

\* lookup, by id, external id or label.
LookupId(s, id) == {Canonical(s, id)} \cap Ids(s.resources)
LookupExternal(s, ext) == {FindByExternal(s, ext)} \ {None}
LookupLabel(s, label) == FindByLabel(s, label)

\* expand_claims: the claims of a predicate, the preferred one first, and those that deny it.
Expanding(s, id, view, keys, history) ==
  LET wide   == IF history THEN [view EXCEPT !.statuses = DOMAIN StatusOrder] ELSE view
      all    == ClaimsAbout(s, Canonical(s, id), wide)
      claims == IF keys = {} THEN all ELSE WithKeys(s, all, keys)
  IN  [k \in {s.claims[c].predicate : c \in claims} |->
         [values    |-> Values(s, claims, wide, k),
          negated   |-> {c \in Saying(s, claims, wide, k) : s.claims[c].negated},
          contested |-> Contested(s, claims, wide, k),
          past      |-> {c \in claims : s.claims[c].predicate = k /\ ~IsLive(s, c, wide)}]]

\* The answer, or none where there is no such resource or predicate, or the reader may not see it.
Expand(s, id, view, keys, history) ==
  If(/\ Exists(s, id)
     /\ CanSee(view.who, s.resources[Canonical(s, id)].visibility)
     /\ \A k \in keys : PredicateDefined(s, k),
     Expanding(s, id, view, keys, history))

-----------------------------------------------------------------------------
(* Graphs and lists *)

\* neighbors: one step from a resource.
EdgesFrom(s, id, view, keys, direction) ==
  LET wanted(claims) == IF keys = {} THEN claims ELSE WithKeys(s, claims, keys)
      out == {c \in wanted(ClaimsAbout(s, id, view)) : AsResource(s.claims[c].object) # None}
      in  == wanted(ClaimsReferencing(s, id, view))
  IN  (IF direction \in {"out", "both"} THEN {<<id, c, ObjectOf(s, c)>> : c \in out} ELSE {})
        \cup (IF direction \in {"in", "both"} THEN {<<SubjectOf(s, c), c, id>> : c \in in} ELSE {})

Neighbors(s, id, view, keys, direction, depth) ==
  LET reached(edges) == {e[1] : e \in edges} \cup {e[3] : e \in edges}
      step[n \in 0..depth] ==
        IF n = 0 THEN [seen |-> {Canonical(s, id)}, edges |-> {}]
        ELSE LET last  == step[n - 1]
                 edges == UNION {EdgesFrom(s, x, view, keys, direction) : x \in last.seen}
             IN  [seen |-> last.seen \cup reached(edges), edges |-> last.edges \cup edges]
  IN  step[depth]

\* timeline: events of an entity, a work or a place, by the axis of their time.
TimelineRows(s, p, who, q) ==
  {id \in PostedAny(p, "type", IF q.types = {} THEN {"Event"} ELSE q.types) :
     /\ q.entity # None => id \in Posted(p, "entity", Canonical(s, q.entity)) \cup {Canonical(s, q.entity)}
     /\ q.work # None => id \in Posted(p, "work", Canonical(s, q.work))
     /\ q.place # None => id \in Posted(p, "ancestor", Canonical(s, q.place))
     /\ CanSee(who, p.rows[id].visibility)}

TimelineOn(p, rows, axis) ==
  LET on == {id \in rows : HasTime(p.rows[id]) /\ p.rows[id].time.axis = axis}
      at(id) == p.rows[id].time.range
      before(a, b) == \/ at(a).es < at(b).es
                      \/ at(a).es = at(b).es /\ at(a).le < at(b).le
                      \/ at(a).es = at(b).es /\ at(a).le = at(b).le /\ a < b
  IN  SortedBy(on, before)

\* conflicts: of the rows marked as contested, those that still are.
Conflicts(s, p, view) ==
  {id \in Posted(p, "contested", TRUE) : ContestedKeys(s, ClaimsAbout(s, id, view), view) # {}}

ItemsOf(s, i) == [n \in DOMAIN s.sequences[i].items |-> Canonical(s, s.sequences[i].items[n])]
=============================================================================
