--------------------------- MODULE HistoryLedger ---------------------------
(***************************************************************************)
(* What the conversation history promises, whatever happens to the process: *)
(* a ledger of events in recording order, to which a request adds all of    *)
(* its new events or none, and from which nothing is ever taken or changed. *)
(* An owner's event ids are unique, and so are the sequence numbers of each *)
(* of the owner's conversations.                                            *)
(***************************************************************************)
EXTENDS Naturals, Sequences

VARIABLES
  recorded,  \* the events, in recording order
  serving,   \* whether the store is open
  shown      \* the events the open store shows

vars == <<recorded, serving, shown>>

Init ==
  /\ recorded = <<>>
  /\ serving = FALSE
  /\ shown = <<>>

Clash(e, f) ==
  /\ e.owner = f.owner
  /\ \/ e.id = f.id
     \/ e.conversation = f.conversation /\ e.sequence = f.sequence

Consistent(events) ==
  \A i, j \in 1..Len(events) : Clash(events[i], events[j]) => i = j

\* One request's new events.  The process may be killed before it can show them.
Record ==
  /\ serving
  /\ Len(recorded') > Len(recorded)
  /\ SubSeq(recorded', 1, Len(recorded)) = recorded
  /\ Consistent(recorded')
  /\ \/ shown' = recorded' /\ serving' = TRUE
     \/ shown' = <<>> /\ serving' = FALSE

Stop ==
  /\ serving' = FALSE
  /\ shown' = <<>>
  /\ UNCHANGED recorded

Open ==
  /\ ~ serving
  /\ serving' = TRUE
  /\ shown' = recorded
  /\ UNCHANGED recorded

Next == Record \/ Stop \/ Open

Spec == Init /\ [][Next]_vars
=============================================================================
