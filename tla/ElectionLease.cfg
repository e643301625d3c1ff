CONSTANTS
  n1 = n1  n2 = n2  n3 = n3
  Node = {n1, n2}
  NoNode = NoNode
  TTL = 2
  TakeOverAfter = 2
  IsolateAfter = 3
  MaxFaults = 3
SPECIFICATION FairSpec
INVARIANTS
  TypeOK
  SplitOnlyByLapse
PROPERTIES
  LeaseImplemented
  Converges
  IsolatedStops
CHECK_DEADLOCK FALSE
