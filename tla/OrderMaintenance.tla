-------------------------- MODULE OrderMaintenance --------------------------
(***************************************************************************)
(* How a branch keeps its order graph (materialize.rs): new relations wait  *)
(* until the next materialization, which adds them in the order they were   *)
(* committed; any other change of a relation marks the graph dirty, and the *)
(* next materialization builds it again, the accepted relations first.      *)
(*                                                                         *)
(* Merges of events are left out: decide_merge marks nothing dirty, and the *)
(* graph keeps the old ids until something else does.                       *)
(***************************************************************************)
EXTENDS OrderGraph, TLC

CONSTANTS
  MayRelate,     \* which relations are asserted first, second and so on: bounds their number
  MaxChanged     \* bound on the claims that are accepted or retired when one is changed

ASSUME OrderAssumption ==
  /\ MayRelate \in Seq(SUBSET [subject : Event, rel : Relation, object : Event, accepted : BOOLEAN])
  /\ MaxChanged \in Nat

VARIABLES
  relations,     \* the assertions of temporal relations, in the order of their commits
  graph,         \* the order graph
  conflicts,     \* order_conflicts: what the graph refused
  pending,       \* pending_relations
  dirty          \* order_dirty

vars == <<relations, graph, conflicts, pending, dirty>>

RelationClaim ==
  [subject : Event, rel : Relation, object : Event, accepted : BOOLEAN, live : BOOLEAN]

\* Adds claims to a graph, noting those it refuses.
Adding(st, ids) ==
  LET noted(added, h, i) ==
        [graph     |-> added.graph,
         conflicts |-> IF added.refused THEN h.conflicts \cup {i} ELSE h.conflicts]
      one(h, i) ==
        LET c == relations[i]
        IN  IF c.live THEN noted(Related(h.graph, c.subject, c.rel, c.object), h, i) ELSE h
  IN  FoldLeft(one, st, ids)

\* With a fault: the claims are taken in the order of their commits, whatever their status.
CommitOrder == [i \in 1..Len(relations) |-> i]

\* The accepted claims, then the others; each in the order of their commits.
RebuildOrder ==
  LET isAccepted(i) == relations[i].accepted
      isOther(i)    == ~ relations[i].accepted
      all           == [i \in 1..Len(relations) |-> i]
  IN  SelectSeq(all, isAccepted) \o SelectSeq(all, isOther)

Rebuilt == Adding([graph |-> EmptyGraph, conflicts |-> {}], RebuildOrder)

-----------------------------------------------------------------------------
\* A curator's relation is accepted at once, an agent's is proposed.
AssertRelation(claim) ==
  /\ relations' = Append(relations, [live |-> TRUE] @@ claim)
  /\ pending' = Append(pending, Len(relations'))
  /\ UNCHANGED <<graph, conflicts, dirty>>

\* With a fault: the graph is not built again.
ChangedQuietly(i, claim) ==
  /\ relations' = [relations EXCEPT ![i] = claim]
  /\ UNCHANGED <<graph, conflicts, pending, dirty>>

Changed(i, claim) ==
  /\ Cardinality({j \in 1..Len(relations) : relations[j].accepted \/ ~ relations[j].live}) < MaxChanged
  /\ relations' = [relations EXCEPT ![i] = claim]
  /\ dirty' = TRUE
  /\ UNCHANGED <<graph, conflicts, pending>>

Accept(i) ==
  /\ relations[i].live /\ ~ relations[i].accepted
  /\ Changed(i, [relations[i] EXCEPT !.accepted = TRUE])

Retract(i) ==
  /\ relations[i].live
  /\ Changed(i, [relations[i] EXCEPT !.live = FALSE])

\* process: what it does about the order before it works through the queue.
ProcessOrder ==
  /\ dirty \/ pending # <<>>
  /\ LET st == IF dirty THEN Rebuilt ELSE Adding([graph |-> graph, conflicts |-> conflicts], pending)
     IN  graph' = st.graph /\ conflicts' = st.conflicts
  /\ dirty' = FALSE
  /\ pending' = <<>>
  /\ UNCHANGED relations

Init ==
  /\ relations = <<>>
  /\ graph = EmptyGraph
  /\ conflicts = {}
  /\ pending = <<>>
  /\ dirty = TRUE

Next ==
  \/ /\ Len(relations) < Len(MayRelate)
     /\ \E claim \in MayRelate[Len(relations) + 1] : AssertRelation(claim)
  \/ \E i \in 1..Len(relations) : Accept(i) \/ Retract(i)
  \/ ProcessOrder

Spec == Init /\ [][Next]_vars

-----------------------------------------------------------------------------
(* What the relations mean: the events are intervals of some time line.     *)

\* The ways to place the events, up to the distances: all their endpoints in 1..k for some k.
Placements ==
  LET n == 2 * Cardinality(Event)
      intervals == {i \in [s : 1..n, e : 1..n] : i.s < i.e}
      used(w) == UNION {{w[e].s, w[e].e} : e \in Event}
  IN  {w \in [Event -> intervals] : used(w) = 1..Cardinality(used(w))}

\* A placement as the relation of every two events.
Worlds == {[p \in Event \X Event |-> Of(w[p[1]], w[p[2]])] : w \in Placements}

\* The live claims that the graph took.
Taken == {relations[i] : i \in {j \in 1..Len(relations) : relations[j].live} \ conflicts}

PossibleWorlds(claims) ==
  {w \in Worlds : \A c \in claims : w[<<c.subject, c.object>>] = c.rel}

Settled == ~ dirty /\ pending = <<>>

-----------------------------------------------------------------------------
(* Properties.                                                              *)

\* The state is typed, and the numbers of the points increase along the edges, however
\* relations were added and points merged (add_lt, merge, reorder_all): the searches are
\* pruned by them.
TypeOK ==
  /\ relations \in Seq(RelationClaim)
  /\ conflicts \subseteq 1..Len(relations)
  /\ pending \in Seq(1..Len(relations))
  /\ dirty \in BOOLEAN
  /\ Registered(graph) \subseteq Event
  /\ WellNumbered(graph)

\* What relation answers is what the claims taken leave possible, neither more nor less
\* (known_matrix, consistent, reaches).
RelationsAreExact ==
  Settled =>
    \A worlds \in {PossibleWorlds(Taken)} : \A a, b \in Registered(graph) :
      graph.events[a] < graph.events[b] => PossibleIn(graph, a, b) = {w[<<a, b>>] : w \in worlds}

\* A claim is in conflict exactly when it can not be true together with the claims
\* taken, which can all be true (add_relation, order_conflicts).
ConflictsAreReal ==
  Settled =>
    /\ PossibleWorlds(Taken) # {}
    /\ \A i \in conflicts : relations[i].live => PossibleWorlds(Taken \cup {relations[i]}) = {}

\* Adding relations as they come gives what building the graph again would give, unless an
\* accepted relation was refused for a proposed one that was there before
\* (apply_pending_relations, rebuild_order).
SameAsRebuilt ==
  Settled /\ ~ (\E i \in conflicts : relations[i].accepted) =>
    \A again \in {Rebuilt} :
      /\ conflicts = again.conflicts
      /\ Registered(graph) = Registered(again.graph)
      /\ \A a, b \in Registered(graph) :
           graph.events[a] < graph.events[b] => PossibleIn(graph, a, b) = PossibleIn(again.graph, a, b)

\* When the graph is built again, an accepted relation is refused only for accepted ones
\* (rebuild_order).
AcceptedFirst ==
  [][ProcessOrder /\ dirty =>
       \A i \in conflicts' :
         relations[i].accepted =>
           PossibleWorlds({relations[i]} \cup {c \in Taken' : c.accepted}) = {}]_vars

\* The events sorted by their labels are in an order that the claims taken allow: one that
\* certainly starts before another comes first (label, linear_extension).
LabelsExtendOrder ==
  Settled =>
    \A a, b \in Registered(graph) :
      PossibleIn(graph, a, b) \subseteq {"before", "meets", "overlaps", "finished_by", "contains"} =>
        Label(graph, a).start < Label(graph, b).start
=============================================================================
