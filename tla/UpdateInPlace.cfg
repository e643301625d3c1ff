CONSTANTS
  a1 = a1  a2 = a2  a3 = a3  a4 = a4
  Agent = {a1, a2}
  NoAgent = NoAgent
  Room <- TwoEach
  OldCount = 2
  NewCount = 2
  Policies = {"rolling"}
  MaxTasks = 8
  MaxFaults = 0
SPECIFICATION Spec
INVARIANT InPlaceIsNeutral
SYMMETRY Symmetry
CHECK_DEADLOCK FALSE
