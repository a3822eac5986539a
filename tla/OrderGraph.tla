----------------------------- MODULE OrderGraph -----------------------------
(***************************************************************************)
(* The temporal order graph (time/order.rs): every event has a start and an *)
(* end point; relations of events become strict order edges and merged      *)
(* points; each point carries a number that every edge increases, which is  *)
(* kept up incrementally (Pearce and Kelly) and prunes the searches.        *)
(*                                                                         *)
(* A graph is a value of this module; OrderMaintenance keeps one.  The      *)
(* budget of a search (200000 points) is left out.                          *)
(***************************************************************************)
EXTENDS AllenRelation, FiniteSets, SequencesExt

CONSTANT Event

\* The points are numbered from 0 in the order of their creation.
EmptyGraph ==
  [events |-> [e \in {} |-> 0], parent |-> <<>>, succ |-> <<>>, pred |-> <<>>, ord |-> <<>>,
   next |-> 0]

Points(g) == DOMAIN g.parent

Registered(g) == DOMAIN g.events

\* ensure_event, with the two points of the event and the edge between them.
Registering(g, e) ==
  IF e \in Registered(g)
    THEN g
    ELSE
      LET s == Len(g.parent) + 1
      IN  [events |-> [x \in Registered(g) \cup {e} |-> IF x = e THEN s ELSE g.events[x]],
           parent |-> g.parent \o <<s, s + 1>>,
           succ   |-> g.succ \o <<{s + 1}, {}>>,
           pred   |-> g.pred \o <<{}, {s}>>,
           ord    |-> g.ord \o <<g.next, g.next + 1>>,
           next   |-> g.next + 2]

\* The representative of a point.
Find(g, x) ==
  LET root[p \in Points(g)] == IF g.parent[p] = p THEN p ELSE root[g.parent[p]]
  IN  root[x]

\* What is reached from a point along the edges, going on only from allowed points.
Reached(edges, from, allowed) ==
  LET grown(S) == S \cup {m \in allowed : \E n \in S : m \in edges[n]}
      upTo[k \in 0..Cardinality(allowed)] == IF k = 0 THEN {from} ELSE grown(upTo[k - 1])
  IN  upTo[Cardinality(allowed)]

\* reaches: is there a path of edges from x to y?  The numbers prune the search.
Reaches(g, x, y) ==
  LET rx    == Find(g, x)
      ry    == Find(g, y)
      below == {m \in Points(g) : g.ord[m] < g.ord[ry]}
  IN  /\ rx # ry
      /\ g.ord[rx] < g.ord[ry]
      /\ \E n \in Reached(g.succ, rx, below) : ry \in g.succ[n]

\* The four points of two events, numbered as in AllenRelation.
PointsOf(g, a, b) == <<g.events[a], g.events[a] + 1, g.events[b], g.events[b] + 1>>

\* known_matrix, as the pairs known to be strictly ordered and the pairs known to be ordered.
KnownStrict(g, pts) == {p \in (1..4) \X (1..4) : p[1] # p[2] /\ Reaches(g, pts[p[1]], pts[p[2]])}

\* With a fault: merged points are taken for unrelated ones.
NoneEqual(g, pts) == {}

KnownEqual(g, pts) == {p \in (1..4) \X (1..4) : Find(g, pts[p[1]]) = Find(g, pts[p[2]])}

Joined(R) == R \cup {p \in (1..4) \X (1..4) : \E k \in 1..4 : <<p[1], k>> \in R /\ <<k, p[2]>> \in R}

\* consistent: closing what is known and the constraints leaves no strict cycle.
Consistent(strict, equal, constraints) ==
  LET edge(c)  == <<c.from, c.to>>
      lt       == strict \cup {edge(c) : c \in {d \in Range(constraints) : d.strict}}
      le       == lt \cup equal \cup UNION {{<<c.from, c.to>>, <<c.to, c.from>>} :
                                             c \in {d \in Range(constraints) : ~ d.strict}}
      closed   == Joined(Joined(le))
  IN  \A p \in lt : <<p[2], p[1]>> \notin closed

\* With a fault: edges are added without moving the numbers.
EdgeOnly(g, x, y) ==
  [g EXCEPT !.succ[Find(g, x)] = @ \cup {Find(g, y)}, !.pred[Find(g, y)] = @ \cup {Find(g, x)}]

\* add_lt: the edge, and new numbers for what lies between its ends, taken from the
\* numbers those points had.  The search for a cycle is an error of its own there; it
\* finds none after Consistent (RelationsAreExact).
AddLt(g, x, y) ==
  LET rx   == Find(g, x)
      ry   == Find(g, y)
      h    == [g EXCEPT !.succ[rx] = @ \cup {ry}, !.pred[ry] = @ \cup {rx}]
      lb   == g.ord[ry]
      ub   == g.ord[rx]
      byOrd(m, n) == g.ord[m] < g.ord[n]
      forward  == Reached(h.succ, ry, {m \in Points(g) : g.ord[m] <= ub})
      backward == Reached(h.pred, rx, {m \in Points(g) : g.ord[m] >= lb})
      moved == SetToSortSeq(backward, byOrd) \o SetToSortSeq(forward, byOrd)
      slots == SetToSortSeq({g.ord[m] : m \in Range(moved)}, <)
  IN  IF lb > ub \/ ry \in g.succ[rx]
        THEN h
        ELSE [h EXCEPT !.ord = [m \in Points(g) |->
                IF m \in Range(moved) THEN slots[CHOOSE i \in 1..Len(moved) : moved[i] = m] ELSE @[m]]]

Replaced(S, old, new) == IF old \in S THEN (S \ {old}) \cup {new} ELSE S

\* merge: the second point's edges go to the first.
Merge(g, x, y) ==
  LET rx   == Find(g, x)
      ry   == Find(g, y)
      h    == [g EXCEPT !.parent[ry] = rx]
      outs == {Find(h, s) : s \in g.succ[ry]}
      ins  == {Find(h, p) : p \in g.pred[ry]}
      moved(edges, others, own, p) ==
        CASE p = ry -> {}
          [] p = rx -> edges[p] \cup (own \ {rx})
          [] OTHER  -> IF p \in others THEN Replaced(edges[p], ry, rx) ELSE edges[p]
  IN  IF rx = ry
        THEN g
        ELSE [h EXCEPT !.succ = [p \in Points(g) |-> moved(@, ins, outs, p)],
                       !.pred = [p \in Points(g) |-> moved(@, outs, ins, p)]]

\* With a fault: merged points keep the numbers they had.
NotReordered(g) == g

\* reorder_all: new numbers for the representatives, from those without predecessors on
\* (Kahn); the other points keep theirs.
Reordered(g) ==
  LET rep(p)  == Find(g, p) = p
      succ    == [p \in Points(g) |-> {Find(g, s) : s \in g.succ[p]}]
      pred    == [p \in Points(g) |-> {Find(g, s) : s \in g.pred[p]}]
      indeg   == [p \in Points(g) |-> Cardinality({q \in Points(g) : rep(q) /\ p \in succ[q]})]
      sorted(S) == SetToSortSeq(S, <)
      visit(st, k) ==
        IF st.queue = <<>>
          THEN st
          ELSE
            LET v     == Head(st.queue)
                freed == {s \in succ[v] : st.indeg[s] = 1}
            IN  [queue |-> Tail(st.queue) \o sorted(freed),
                 indeg |-> [p \in Points(g) |-> IF p \in succ[v] THEN st.indeg[p] - 1 ELSE st.indeg[p]],
                 ord   |-> [st.ord EXCEPT ![v] = st.next],
                 next  |-> st.next + 1]
      roots == {p \in Points(g) : rep(p) /\ indeg[p] = 0}
      done  == FoldLeft(visit, [queue |-> sorted(roots), indeg |-> indeg, ord |-> g.ord, next |-> 0],
                        g.parent)
  IN  [g EXCEPT !.succ = succ, !.pred = pred, !.ord = done.ord,
                !.next = IF done.next > @ THEN done.next ELSE @]

\* add_relation between different events, once it is found consistent: the constraints
\* one after the other, and all new numbers if points were merged.
Constrained(g, pts, constraints) ==
  LET one(h, c) == IF c.strict THEN AddLt(h, pts[c.from], pts[c.to]) ELSE Merge(h, pts[c.from], pts[c.to])
      all  == FoldLeft(one, g, constraints)
  IN  IF all.parent = g.parent THEN all ELSE Reordered(all)

\* add_relation: the graph with the relation, or whether it is refused as a conflict.  A
\* refused relation leaves its events behind in the graph, unless they are the same.
Related(g, a, rel, b) ==
  LET h   == Registering(Registering(g, a), b)
      pts == PointsOf(h, a, b)
      constraints == EndpointConstraints(rel)
  IN  IF a = b
        THEN [graph |-> g, refused |-> rel # "equals"]
        ELSE IF Consistent(KnownStrict(h, pts), KnownEqual(h, pts), constraints)
               THEN [graph |-> Constrained(h, pts, constraints), refused |-> FALSE]
               ELSE [graph |-> h, refused |-> TRUE]

\* relation: what the relation of two registered events may be.
PossibleIn(g, a, b) ==
  LET pts    == PointsOf(g, a, b)
      strict == KnownStrict(g, pts)
      equal  == KnownEqual(g, pts)
  IN  {rel \in Relation : Consistent(strict, equal, EndpointConstraints(rel))}

\* With a fault: the numbers of points that were merged into others.
LabelOfPoints(g, e) == [start |-> g.ord[g.events[e]], end |-> g.ord[g.events[e] + 1]]

\* label: the numbers of the start and the end of an event.
Label(g, e) == [start |-> g.ord[Find(g, g.events[e])], end |-> g.ord[Find(g, g.events[e] + 1)]]

-----------------------------------------------------------------------------
\* The numbers increase along every edge between representatives, and every edge is known
\* at both ends.
WellNumbered(g) ==
  \A x, y \in Points(g) :
    /\ y \in g.succ[x] <=> x \in g.pred[y]
    /\ y \in g.succ[x] => Find(g, x) = x /\ Find(g, y) = y /\ g.ord[x] < g.ord[y]
=============================================================================
