SPECIFICATION Spec
CONSTANTS
  main = main
  b1 = b1
  b2 = b2
  alice = alice
  bot = bot
  e1 = e1
  Branch = {main, b1, b2}
  Main = main
  Actor = {alice, bot}
  Curator = {alice}
  Evidence = {e1}
  MaxSeq = 4
  MaxAssertions = 4
  MaxChain = 2
SYMMETRY Symmetry
INVARIANTS
  TypeOK
  ChainIsWalk
  OneVersionPerClaim
PROPERTIES
  ForkIsolation
  BranchStartsAsParent
  AcceptedOnlyByCurator
  ReplacementRetiresOld
CHECK_DEADLOCK FALSE
