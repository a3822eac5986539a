------------------------------- MODULE Allen -------------------------------
(***************************************************************************)
(* Sets of Allen relations (time/allen.rs): inverse, composition, and the   *)
(* relations that two uncertain intervals may have.  A set of relations is   *)
(* 13 bits in the code, and a set here.                                      *)
(***************************************************************************)
EXTENDS AllenRelation, FuzzyRange, SequencesExt

InverseSet(rels) == {InverseOf(rel) : rel \in rels}

\* The intervals that composition_table goes through: the endpoints of three intervals
\* take six values at most.
TableValues == 0..5

TableIntervals == {i \in [s : TableValues, e : TableValues] : i.s < i.e}

\* The table: row and column are the relations of a to b and of b to c.
CompositionTable ==
  LET triples == TableIntervals \X TableIntervals \X TableIntervals
      entries == {<<Of(t[1], t[2]), Of(t[2], t[3]), Of(t[1], t[3])>> : t \in triples}
  IN  [p \in Relation \X Relation |-> {t[3] : t \in {u \in entries : u[1] = p[1] /\ u[2] = p[2]}}]

Compose(rels, others) == UNION {CompositionTable[p] : p \in rels \X others}

\* feasible: the bounds and the relation as differences between the endpoints and an
\* origin, at least one negative circle of which makes them impossible.  No bound at all
\* is more than any sum of bounds.
Infinity == MaxInt - MinInt

Node == 1..5
Origin == 5

\* The upper bound of node j minus node i, when an interval has at least this length.
BoundsFor(a, b, length) ==
  LET lo == <<a.es, a.ee, b.es, b.ee>>
      hi == <<a.ls, a.le, b.ls, b.le>>
  IN  [p \in Node \X Node |->
         CASE p[1] = p[2] -> 0
           [] p[1] # Origin /\ p[2] = Origin -> IF Finite(lo[p[1]]) THEN -lo[p[1]] ELSE Infinity
           [] p[1] = Origin /\ p[2] # Origin -> IF Finite(hi[p[2]]) THEN hi[p[2]] ELSE Infinity
           [] p \in {<<E1, S1>>, <<E2, S2>>} -> -length
           [] OTHER -> Infinity]

\* With a fault: the intervals may be empty.
BoundsOfEmpty(a, b) == BoundsFor(a, b, 0)

Bounds(a, b) == BoundsFor(a, b, 1)

Tightened(d, p, w) == [d EXCEPT ![p] = Smaller(@, w)]

WithConstraint(d, c) ==
  IF c.strict THEN Tightened(d, <<c.to, c.from>>, -1)
              ELSE Tightened(Tightened(d, <<c.to, c.from>>, 0), <<c.from, c.to>>, 0)

\* One round of Floyd and Warshall: paths through k.
Through(d, k) ==
  [p \in Node \X Node |->
     IF d[<<p[1], k>>] = Infinity \/ d[<<k, p[2]>>] = Infinity
       THEN d[p]
       ELSE Smaller(d[p], d[<<p[1], k>>] + d[<<k, p[2]>>])]

\* The bounds with all constraints, and then with all paths.
Constrained(d, constraints) ==
  LET with[n \in 0..Len(constraints)] ==
        IF n = 0 THEN d ELSE WithConstraint(with[n - 1], constraints[n])
  IN  with[Len(constraints)]

ShortestPaths(d) ==
  LET through[k \in 0..5] == IF k = 0 THEN d ELSE Through(through[k - 1], k)
  IN  through[5]

Feasible(a, b, rel) ==
  \A n \in Node : ShortestPaths(Constrained(Bounds(a, b), EndpointConstraints(rel)))[<<n, n>>] >= 0

PossibleRelations(a, b) == {rel \in Relation : Feasible(a, b, rel)}
=============================================================================
