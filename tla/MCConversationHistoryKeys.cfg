SPECIFICATION Spec
CONSTANTS
  alice = alice
  bob = bob
  e1 = e1
  e2 = e2
  c1 = c1
  hello = hello
  bye = bye
  noise = noise
  k1 = k1
  none = none
  Owner = {alice}
  EventId = {e1, e2}
  Conversation = {c1}
  Sequence = {1, 2}
  Text = {hello}
  Binary = {noise}
  Key = {k1}
  NoKey = none
  MaxBatch = 1
  MaxCommits = 4
  MaxKills = 2
  MaxPowerLosses = 1
  MaxFailures = 1
SYMMETRY Symmetry
INVARIANTS
  IndexIsTrue
  ShreddedForGood
  ShreddedOffDisk
  ReadableWhileKeysKept
CHECK_DEADLOCK FALSE
