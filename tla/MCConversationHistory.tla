----------------------- MODULE MCConversationHistory -----------------------
(* Small instances of ConversationHistory for TLC. *)
EXTENDS ConversationHistory, TLC

CONSTANTS alice, bob, e1, e2, c1, hello, bye, noise, k1, none

\* The texts are compared and indexed alike.
Symmetry == Permutations(EventId) \cup Permutations(Owner) \cup Permutations(Text)
=============================================================================
