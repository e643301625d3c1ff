CONSTANTS
  w1 = w1  w2 = w2
  Agent = {1, 2}
  Job = {1}
  Worker = {w1, w2}
  Home = 2
  Count <- Singles
  Affine <- Anywhere
  Room <- Roomy
  Wrap = 2
  Before = {}
  SettleDelay = TRUE
  Bound <- MCBound
  Submits = 1
  Patches = 0
  Deletes = 0
  Handbacks = 0
  Restarts = 0
  Cuts = 1
  Losses = 1
  Leaves = 0
  Events = 3
  Nobody = Nobody
SPECIFICATION FairSpec
PROPERTY StoredJobsRun
