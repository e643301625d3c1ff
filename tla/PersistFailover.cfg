CONSTANTS
  n1 = n1  n2 = n2  j1 = j1
  Node = {n1, n2}
  NoNode = NoNode
  Home = n1
  Job = {j1}
  InitJob = {j1}
  Kind = {"remote", "file"}
  MaxStamp = 3
  MaxFaults = 2
SPECIFICATION FairSpec
INVARIANTS
  TypeOK
  UnsavedIsMarked
  CommittedStays
  SnapshotIsWhole
PROPERTY ChangesGetCommitted
CHECK_DEADLOCK FALSE
