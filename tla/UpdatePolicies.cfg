CONSTANTS
  a1 = a1  a2 = a2  a3 = a3  a4 = a4
  Agent = {a1, a2, a3, a4}
  NoAgent = NoAgent
  Room <- OneEach
  OldCount = 2
  NewCount = 2
  Policies = {"rolling", "recreate", "bluegreen"}
  MaxTasks = 8
  MaxFaults = 1
SPECIFICATION Spec
INVARIANTS
  TypeOK
  KeepsInstances
  HonestStatus
  BooksBalance
  FlagHasOwner
SYMMETRY Symmetry
CHECK_DEADLOCK FALSE
