--------------------------- MODULE AllenRelation ---------------------------
(***************************************************************************)
(* The thirteen relations of two intervals, as constraints on their four    *)
(* endpoints (time/allen.rs; time/order.rs has a copy of the table).        *)
(***************************************************************************)
EXTENDS Integers, Sequences

\* ALL_RELATIONS, in the order of their bits.
Relations ==
  <<"before", "meets", "overlaps", "starts", "during", "finishes", "equals", "finished_by",
    "contains", "started_by", "overlapped_by", "met_by", "after">>

Relation == {Relations[i] : i \in 1..13}

\* The mirror image in the list.
InverseOf(rel) == Relations[14 - (CHOOSE i \in 1..13 : Relations[i] = rel)]

\* The endpoints: start and end of the first interval, start and end of the second.
S1 == 1
E1 == 2
S2 == 3
E2 == 4

Lt(i, j) == [from |-> i, to |-> j, strict |-> TRUE]
Eq(i, j) == [from |-> i, to |-> j, strict |-> FALSE]

EndpointConstraints(rel) ==
  CASE rel = "before"        -> <<Lt(E1, S2)>>
    [] rel = "meets"         -> <<Eq(E1, S2)>>
    [] rel = "overlaps"      -> <<Lt(S1, S2), Lt(S2, E1), Lt(E1, E2)>>
    [] rel = "starts"        -> <<Eq(S1, S2), Lt(E1, E2)>>
    [] rel = "during"        -> <<Lt(S2, S1), Lt(E1, E2)>>
    [] rel = "finishes"      -> <<Eq(E1, E2), Lt(S2, S1)>>
    [] rel = "equals"        -> <<Eq(S1, S2), Eq(E1, E2)>>
    [] rel = "finished_by"   -> <<Eq(E1, E2), Lt(S1, S2)>>
    [] rel = "contains"      -> <<Lt(S1, S2), Lt(E2, E1)>>
    [] rel = "started_by"    -> <<Eq(S1, S2), Lt(E2, E1)>>
    [] rel = "overlapped_by" -> <<Lt(S2, S1), Lt(S1, E2), Lt(E2, E1)>>
    [] rel = "met_by"        -> <<Eq(E2, S1)>>
    [] rel = "after"         -> <<Lt(E2, S1)>>

\* AllenRelation::of: the relation of two intervals whose endpoints are known.
Of(a, b) ==
  CASE a.s = b.s /\ a.e = b.e -> "equals"
    [] a.s = b.s /\ a.e < b.e -> "starts"
    [] a.s = b.s /\ a.e > b.e -> "started_by"
    [] a.s > b.s /\ a.e = b.e -> "finishes"
    [] a.s < b.s /\ a.e = b.e -> "finished_by"
    [] a.s > b.s /\ a.e < b.e -> "during"
    [] a.s < b.s /\ a.e > b.e -> "contains"
    [] a.s < b.s /\ a.e < b.e -> (CASE a.e < b.s -> "before"
                                    [] a.e = b.s -> "meets"
                                    [] a.e > b.s -> "overlaps")
    [] a.s > b.s /\ a.e > b.e -> (CASE a.s > b.e -> "after"
                                    [] a.s = b.e -> "met_by"
                                    [] a.s < b.e -> "overlapped_by")
=============================================================================
