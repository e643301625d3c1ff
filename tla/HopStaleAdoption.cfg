SPECIFICATION Spec
CONSTANTS
  t1 = t1  t2 = t2
  Task = {t1, t2}
  NoTask = none
  Cores = 2
  MaxCage = 5
  Jobs <- Some
  MaxDownloads = 1
  MaxFaults = 2
SYMMETRY Sym
CHECK_DEADLOCK FALSE
INVARIANTS AdoptionIsOwnership
