SPECIFICATION Spec
CONSTANTS
  alice = alice
  bob = bob
  e1 = e1
  e2 = e2
  c1 = c1
  hello = hello
  bye = bye
  noise = noise
  k1 = k1
  none = none
  Owner = {alice, bob}
  EventId = {e1, e2}
  Conversation = {c1}
  Sequence = {1, 2}
  Text = {hello, bye}
  Binary = {}
  Key = {}
  NoKey = none
  MaxBatch = 2
  MaxCommits = 2
  MaxKills = 1
  MaxPowerLosses = 0
  MaxFailures = 0
SYMMETRY Symmetry
INVARIANTS
  AnsweredIsKept
  OneSourcePerConversation
PROPERTIES
  KeepsLedger
CHECK_DEADLOCK FALSE
