CONSTANTS
  w1 = w1  w2 = w2
  Agent = {1, 2}
  Job = {1, 2}
  Worker = {w1, w2}
  Home = 1
  Count <- TwoIsDaemon
  Affine <- OnePinned
  Room <- Roomy
  Wrap = 2
  Before = {1}
  SettleDelay = TRUE
  Bound <- MCBound
  Submits = 1
  Patches = 1
  Deletes = 0
  Handbacks = 0
  Restarts = 0
  Cuts = 0
  Losses = 0
  Leaves = 0
  Events = 2
  Nobody = Nobody
SYMMETRY Symmetry
SPECIFICATION Spec
INVARIANTS
  OneDispatcher
  DaemonOnce
  BooksMatch
  NothingSentUnasked
