----------------------------- MODULE DurableLog -----------------------------
(***************************************************************************)
(* What the store promises of its revisions when every commit is synced: a  *)
(* revision that was acknowledged stays for ever and keeps its place.  One  *)
(* whose commit was cut short by a crash may turn up after the restart, and *)
(* a power loss may take it away again as long as no later commit was       *)
(* acknowledged.                                                            *)
(***************************************************************************)
EXTENDS Sequences, Naturals

CONSTANT Revision

VARIABLES
  committed,  \* the acknowledged revisions and those before them
  doubtful,   \* revisions after them that a power loss may take away
  serving,    \* whether the store is open
  shown       \* the revisions the open store has applied

vars == <<committed, doubtful, serving, shown>>

Init ==
  /\ committed = <<>>
  /\ doubtful = <<>>
  /\ serving = FALSE
  /\ shown = <<>>

\* An acknowledged commit.
Commit(r) ==
  /\ serving
  /\ committed' = committed \o doubtful \o <<r>>
  /\ doubtful' = <<>>
  /\ shown' = Append(shown, r)
  /\ UNCHANGED serving

GoesDown == serving' = FALSE /\ shown' = <<>>

\* The store goes down inside a commit, which leaves one more doubtful revision.
StopInCommit(r) ==
  /\ serving
  /\ doubtful' = Append(doubtful, r)
  /\ GoesDown
  /\ UNCHANGED committed

\* The store goes down and keeps the first n doubtful revisions, the first m of
\* them for good.
Stop(m, n) ==
  /\ committed' = committed \o SubSeq(doubtful, 1, m)
  /\ doubtful' = SubSeq(doubtful, m + 1, n)
  /\ GoesDown

\* The store opens and shows what there is; the recovery may settle the doubt.
Open ==
  /\ ~ serving
  /\ \/ UNCHANGED <<committed, doubtful>>
     \/ committed' = committed \o doubtful /\ doubtful' = <<>>
  /\ serving' = TRUE
  /\ shown' = committed \o doubtful

Next ==
  \/ \E r \in Revision : Commit(r) \/ StopInCommit(r)
  \/ \E n \in 0..Len(doubtful) : \E m \in 0..n : Stop(m, n)
  \/ Open

Spec == Init /\ [][Next]_vars
=============================================================================
