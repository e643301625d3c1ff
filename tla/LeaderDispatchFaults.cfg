CONSTANTS
  w1 = w1  w2 = w2
  Agent = {1, 2}
  Job = {1, 2}
  Worker = {w1, w2}
  Home = 1
  Count <- Singles
  Affine <- Anywhere
  Room <- Tight
  Wrap = 2
  Before = {2}
  SettleDelay = FALSE
  Bound <- MCBound
  Submits = 1
  Patches = 0
  Deletes = 1
  Handbacks = 1
  Restarts = 1
  Cuts = 1
  Losses = 0
  Leaves = 1
  Events = 2
  Nobody = Nobody
SYMMETRY Symmetry
SPECIFICATION Spec
INVARIANTS
  TypeOK
  FlagHasHolder
