CONSTANTS
  j1 = j1  t1 = t1  t2 = t2  r1 = r1
  Job = {j1}
  Task = {t1, t2}
  JobOf <- OneJob
  StopReq = {r1}
  MaxRestarts = 1
  MaxVersion = 1
  NoTask = NoTask
  Leads = TRUE
  MayShutDown = TRUE
SPECIFICATION FairSpec
INVARIANTS
  TypeOK
  NoStrayProcess
  NoRestartPastShutdown
  IndInv
  OneGoroutinePerTask
  RestartBudget
  ReservationKept
PROPERTIES
  GoneIsFinal
  NothingStaysOwed
CHECK_DEADLOCK FALSE
