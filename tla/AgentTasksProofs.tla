-------------------------- MODULE AgentTasksProofs --------------------------
(***************************************************************************)
(* Proofs about AgentTasks, for every set of jobs, tasks and stop requests *)
(* and every budget.                                                       *)
(***************************************************************************)
EXTENDS AgentTasks, TLAPS

-----------------------------------------------------------------------------
(* Types.                                                                  *)

\* The goroutine variables, as TypeOK types them.
GoOK == pc \in [Task -> PC] /\ loc \in [Task -> Locals]

\* What the helpers assign has its type.
LEMMA LocalsType ==
  /\ NoLocals \in Locals
  /\ \A v \in Version, ran \in BOOLEAN, olds \in SUBSET Task, p \in Task \cup {NoTask} :
       Attempt(v, ran, olds, p) \in Locals
BY AgentAssumption DEF NoLocals, Attempt, Locals, Version

LEMMA LetType ==
  ASSUME GoOK, NEW t \in Task, NEW p \in PC, NEW l \in Locals, Let(t, p, l)
  PROVE  GoOK'
BY DEF GoOK, Let

LEMMA GotoType ==
  ASSUME GoOK, NEW t \in Task, NEW p \in PC, Goto(t, p)
  PROVE  GoOK'
BY DEF GoOK, Goto

LEMMA ReturnType ==
  ASSUME GoOK, NEW t \in Task, Return(t)
  PROVE  GoOK'
BY LetType, LocalsType DEF Return, PC, CommonPC

LEMMA MarkType ==
  ASSUME TypeOK, NEW S, NEW s \in Status, Mark(S, s)
  PROVE  status' \in [Task -> Status]
BY DEF TypeOK, Mark

LEMMA RunType ==
  ASSUME TypeOK, NEW t \in Task, NEW p \in PC, NEW q \in PC, RunnerRun(t, p, q)
  PROVE  GoOK' /\ proc' \in [Task -> Proc]
BY GotoType DEF TypeOK, GoOK, RunnerRun, Proc, PC, CommonPC

LEMMA StarterType ==
  ASSUME TypeOK, NEW t \in Task, Starter(t)
  PROVE  TypeOK'
<1> USE AgentAssumption
<1> USE LetType, GotoType, ReturnType, MarkType, LocalsType
<1>0. GoOK BY DEF GoOK, TypeOK
<1> USE DEF others, regVars, stopVars, RunnerStop
<1>1. CASE RemovePredecessor(t)
  <2>1. CASE loc[t].olds = {} /\ Goto(t, "fresh") /\ UNCHANGED tasks
    <3>1. GoOK' BY <1>0, <2>1 DEF PC, StartPC
    <3> QED BY <1>1, <2>1, <3>1 DEF TypeOK, GoOK, RemovePredecessor
  <2>2. ASSUME NEW o \in loc[t].olds, tasks' = tasks \ {o},
               Let(t, "replacing", Attempt(loc[t].def, FALSE, loc[t].olds \ {o}, o))
        PROVE TypeOK'
    <3>1. GoOK' BY <1>0, <2>2 DEF PC, StartPC, TypeOK, Locals
    <3> QED BY <1>1, <2>2, <3>1 DEF TypeOK, GoOK, RemovePredecessor
  <2> QED BY <1>1, <2>1, <2>2 DEF RemovePredecessor
<1>2. CASE StopPredecessor(t)
  <2>1. GoOK' BY <1>0, <1>2 DEF PC, StartPC, TypeOK, Locals, StopPredecessor
  <2> QED BY <1>2, <2>1 DEF TypeOK, GoOK, StopPredecessor, Proc
<1>3. CASE CheckFresh(t)
  <2>1. GoOK' BY <1>0, <1>3 DEF PC, StartPC, CheckFresh
  <2> QED BY <1>3, <2>1 DEF TypeOK, GoOK, CheckFresh, Locals
<1>4. CASE StartRun(t)
  <2>1. GoOK' /\ proc' \in [Task -> Proc] BY <1>0, <1>4, RunType DEF PC, StartPC, StartRun
  <2> QED BY <1>4, <2>1 DEF TypeOK, GoOK, StartRun
<1>5. CASE CheckStarted(t)
  <2>1. GoOK' BY <1>0, <1>5 DEF PC, CommonPC, CheckStarted
  <2>2. status' \in [Task -> Status] BY <1>5 DEF Status, TypeOK, CheckStarted
  <2>3. jobs' \in [Job -> Version] /\ tasks' \subseteq Task BY <1>5 DEF TypeOK, CheckStarted, Locals
  <2> QED BY <1>5, <2>1, <2>2, <2>3 DEF TypeOK, GoOK, CheckStarted
<1>6. CASE StartFailed(t)
  <2>1. GoOK' BY <1>0, <1>6 DEF PC, RestartPC, StartFailed
  <2>2. status' \in [Task -> Status] BY <1>6 DEF Status, StartFailed
  <2> QED BY <1>6, <2>1, <2>2 DEF TypeOK, GoOK, StartFailed
<1>7. CASE DropTask(t)
  <2>1. GoOK' BY <1>0, <1>7 DEF DropTask
  <2> QED BY <1>7, <2>1 DEF TypeOK, GoOK, DropTask
<1>8. CASE RemoveGhost(t)
  <2>1. GoOK' BY <1>0, <1>8 DEF RemoveGhost, PC, CommonPC
  <2> QED BY <1>8, <2>1 DEF TypeOK, GoOK, RemoveGhost
<1>9. CASE StopGhost(t)
  <2>1. GoOK' BY <1>0, <1>9 DEF StopGhost
  <2> QED BY <1>9, <2>1 DEF TypeOK, GoOK, StopGhost, Proc
<1> QED BY <1>1, <1>2, <1>3, <1>4, <1>5, <1>6, <1>7, <1>8, <1>9 DEF Starter

LEMMA RestarterType ==
  ASSUME TypeOK, NEW t \in Task, Restarter(t)
  PROVE  TypeOK'
<1> USE AgentAssumption
<1> USE LetType, GotoType, ReturnType, MarkType, LocalsType
<1>0. GoOK BY DEF GoOK, TypeOK
<1> USE DEF others, regVars, stopVars, RunnerStop
<1>1. CASE CleanUp(t)
  <2>1. GoOK' BY <1>0, <1>1 DEF PC, RestartPC, CleanUp
  <2> QED BY <1>1, <2>1 DEF TypeOK, GoOK, CleanUp, Proc
<1>2. CASE FindJob(t)
  <2>1. GoOK' BY <1>0, <1>2 DEF PC, RestartPC, CommonPC, FindJob
  <2> QED BY <1>2, <2>1 DEF TypeOK, GoOK, FindJob
<1>3. CASE CountRestart(t)
  <2>1. GoOK' BY <1>0, <1>3 DEF PC, RestartPC, CountRestart
  <2>2. restarts' \in [Task -> Nat] BY <1>3 DEF TypeOK, CountRestart
  <2> QED BY <1>3, <2>1, <2>2 DEF TypeOK, GoOK, CountRestart
<1>4. CASE GiveUp(t)
  <2>1. GoOK' BY <1>0, <1>4 DEF GiveUp
  <2>2. status' \in [Task -> Status] BY <1>4 DEF Status, GiveUp
  <2> QED BY <1>4, <2>1, <2>2 DEF TypeOK, GoOK, GiveUp
<1>5. CASE Backoff(t)
  <2>1. GoOK' BY <1>0, <1>5 DEF PC, RestartPC, Backoff
  <2> QED BY <1>5, <2>1 DEF TypeOK, GoOK, Backoff
<1>6. CASE NoArtifact(t)
  <2>1. GoOK' BY <1>0, <1>6 DEF PC, RestartPC, NoArtifact
  <2> QED BY <1>6, <2>1 DEF TypeOK, GoOK, NoArtifact
<1>7. CASE NoPort(t)
  <2>1. GoOK' BY <1>0, <1>7 DEF PC, RestartPC, NoPort
  <2>2. restarts' \in [Task -> Nat] BY <1>7 DEF TypeOK, NoPort
  <2> QED BY <1>7, <2>1, <2>2 DEF TypeOK, GoOK, NoPort
<1>8. ASSUME NEW n \in Task, Swap(t, n) PROVE TypeOK'
  <2>1. GoOK' BY <1>0, <1>8 DEF GoOK, PC, RestartPC, CommonPC, Swap
  <2>2. status' \in [Task -> Status] BY <1>8 DEF Status, Swap
  <2>3. restarts' \in [Task -> Nat] BY <1>8 DEF TypeOK, Swap
  <2> QED BY <1>8, <2>1, <2>2, <2>3 DEF TypeOK, GoOK, Swap
<1>9. CASE SwapTooLate(t)
  <2>1. GoOK' BY <1>0, <1>9 DEF SwapTooLate
  <2> QED BY <1>9, <2>1 DEF TypeOK, GoOK, SwapTooLate
<1>10. CASE CheckShutdown(t)
  <2>1. GoOK' BY <1>0, <1>10 DEF PC, RestartPC, CommonPC, CheckShutdown
  <2> QED BY <1>10, <2>1 DEF TypeOK, GoOK, CheckShutdown
<1>11. CASE Rerun(t)
  <2>1. GoOK' /\ proc' \in [Task -> Proc]
    BY <1>0, <1>11, RunType DEF PC, RestartPC, Rerun
  <2> QED BY <1>11, <2>1 DEF TypeOK, GoOK, Rerun
<1>12. CASE CheckRestarted(t)
  <2>1. GoOK' BY <1>0, <1>12 DEF PC, CommonPC, CheckRestarted
  <2>2. status' \in [Task -> Status] BY <1>12 DEF Status, TypeOK, CheckRestarted
  <2> QED BY <1>12, <2>1, <2>2 DEF TypeOK, GoOK, CheckRestarted
<1> QED BY <1>1, <1>2, <1>3, <1>4, <1>5, <1>6, <1>7, <1>8, <1>9, <1>10, <1>11, <1>12
        DEF Restarter

LEMMA RequestType ==
  ASSUME TypeOK, Request
  PROVE  TypeOK'
<1> USE AgentAssumption
<1> USE LetType, LocalsType
<1> USE DEF regVars, goVars, stopVars, TasksOf
<1>0. GoOK BY DEF GoOK, TypeOK
<1>1. ASSUME NEW t \in Task, NEW v \in Version, NEW replace \in BOOLEAN,
             AcceptRun(t, v, replace)
      PROVE  TypeOK'
  <2>1. GoOK' BY <1>0, <1>1 DEF PC, StartPC, AcceptRun, TypeOK
  <2>2. status' \in [Task -> Status] BY <1>1 DEF TypeOK, Status, AcceptRun
  <2> QED BY <1>1, <2>1, <2>2 DEF TypeOK, GoOK, AcceptRun
<1>2. ASSUME NEW j \in Job, StoreJob(j) PROVE TypeOK'
  BY <1>2 DEF TypeOK, StoreJob, Version
<1>3. ASSUME NEW j \in Job, DropJob(j) PROVE TypeOK'
  BY <1>3 DEF TypeOK, DropJob, Version
<1>4. ASSUME NEW r \in StopReq, NEW S \in SUBSET tasks, OpenReq(r, S),
             jobs' \in [Job -> Version]
      PROVE  TypeOK'
  BY <1>4 DEF TypeOK, OpenReq, Claim, Mark, Status
<1>5. ASSUME NEW r \in StopReq, NEW t \in Task, StopTask(r, t) PROVE TypeOK'
  BY <1>4, <1>5 DEF StopTask, TypeOK
<1>6. ASSUME NEW r \in StopReq, NEW j \in Job, StopJobTasks(r, j) PROVE TypeOK'
  BY <1>4, <1>6 DEF StopJobTasks, TypeOK
<1>7. ASSUME NEW r \in StopReq, NEW j \in Job, DeleteJob(r, j) PROVE TypeOK'
  <2>1. jobs' \in [Job -> Version] BY <1>7 DEF DeleteJob, TypeOK, Version
  <2>2. CASE OpenReq(r, TasksOf(j)) BY <1>4, <2>1, <2>2
  <2>3. CASE TasksOf(j) = {} BY <1>7, <2>1, <2>3 DEF DeleteJob, OpenReq, TypeOK
  <2> QED BY <1>7, <2>2, <2>3 DEF DeleteJob
<1>8. ASSUME NEW r \in StopReq, StopAllTasks(r) PROVE TypeOK'
  BY <1>4, <1>8 DEF StopAllTasks, TypeOK
<1> QED BY <1>1, <1>2, <1>3, <1>5, <1>6, <1>7, <1>8 DEF Request

LEMMA InitType == Init => TypeOK
BY AgentAssumption, LocalsType
   DEF Init, TypeOK, Version, Status, Proc, PC, CommonPC, NoReq

LEMMA TypeStep == TypeOK /\ [Next]_vars => TypeOK'
<1> SUFFICES ASSUME TypeOK, [Next]_vars PROVE TypeOK'
  OBVIOUS
<1> USE LetType, LocalsType
<1> USE DEF regVars, goVars, stopVars, RunnerStop
<1>0. GoOK BY DEF GoOK, TypeOK
<1>1. ASSUME NEW t \in Task, ProcessEnds(t) PROVE TypeOK'
  BY <1>1 DEF TypeOK, ProcessEnds, Proc
<1>2. ASSUME NEW r \in StopReq, Stopper(r) PROVE TypeOK'
  <2>1. CASE RemoveBatch(r)
    BY <2>1 DEF TypeOK, RemoveBatch
  <2>2. ASSUME NEW t \in Task, StopOne(r, t) PROVE TypeOK'
    BY <2>2 DEF TypeOK, StopOne, Proc, NoReq
  <2> QED BY <1>2, <2>1, <2>2 DEF Stopper
<1>3. CASE Monitor
  <2>1. CASE MonitorSnapshot
    BY <2>1 DEF TypeOK, MonitorSnapshot
  <2>2. ASSUME NEW t \in Task, MonitorPass(t) PROVE TypeOK'
    BY <2>2 DEF TypeOK, MonitorPass
  <2>3. ASSUME NEW t \in Task, NEW m \in {"Stopping", "Failed"}, MonitorRestart(t, m)
        PROVE  TypeOK'
    <3>1. Attempt(0, TRUE, {}, NoTask) \in Locals
      BY AgentAssumption DEF Attempt, Locals, Version
    <3>2. GoOK' BY <1>0, <2>3, <3>1 DEF PC, RestartPC, MonitorRestart
    <3>3. status' \in [Task -> Status] BY <2>3, MarkType DEF Status, MonitorRestart
    <3> QED BY <2>3, <3>2, <3>3 DEF TypeOK, GoOK, MonitorRestart
  <2> QED BY <1>3, <2>1, <2>2, <2>3 DEF Monitor
<1>4. CASE Shutdown
  <2>1. CASE CloseShutdownCh
    BY <2>1 DEF TypeOK, CloseShutdownCh
  <2>2. CASE ShutdownMark
    BY <2>2 DEF TypeOK, ShutdownMark, Claim, Mark, Status
  <2>3. CASE ShutdownRemove
    BY <2>3 DEF TypeOK, ShutdownRemove
  <2>4. ASSUME NEW t \in Task, ShutdownStop(t) PROVE TypeOK'
    BY <2>4 DEF TypeOK, ShutdownStop, Proc
  <2>5. CASE Exit
    BY <2>5 DEF TypeOK, Exit, NoReq, PC, CommonPC
  <2> QED BY <1>4, <2>1, <2>2, <2>3, <2>4, <2>5 DEF Shutdown
<1>5. CASE UNCHANGED vars
  BY <1>5 DEF TypeOK, vars
<1> QED BY <1>1, <1>2, <1>3, <1>4, <1>5, RequestType, StarterType, RestarterType DEF Next

-----------------------------------------------------------------------------
(* The inductive invariant, one conjunct at a time.                        *)

\* A task stays nowhere until AcceptRun or Swap gives it its goroutine.
LEMMA UnbornStep ==
  ASSUME TypeOK, Unborn, [Next]_vars
  PROVE  Unborn'
<1> USE DEF Unborn, TypeOK, others, regVars, stopVars, Goto, Let, Return, NoLocals,
      Attempt, Mark, Claim, RunnerStop, RunnerRun, OpenReq, TasksOf, NoReq, goVars
<1>1. CASE Request
  <2>1. ASSUME NEW t \in Task, NEW v \in Version, NEW replace \in BOOLEAN,
             AcceptRun(t, v, replace) PROVE Unborn'
    BY <2>1 DEF AcceptRun
  <2>2. ASSUME NEW j \in Job, StoreJob(j) PROVE Unborn' BY <2>2 DEF StoreJob
  <2>3. ASSUME NEW j \in Job, DropJob(j) PROVE Unborn' BY <2>3 DEF DropJob
  <2>4. ASSUME NEW r \in StopReq, NEW t \in Task, StopTask(r, t) PROVE Unborn'
    BY <2>4 DEF StopTask
  <2>5. ASSUME NEW r \in StopReq, NEW j \in Job, StopJobTasks(r, j) PROVE Unborn'
    BY <2>5 DEF StopJobTasks
  <2>6. ASSUME NEW r \in StopReq, NEW j \in Job, DeleteJob(r, j) PROVE Unborn'
    BY <2>6 DEF DeleteJob
  <2>7. ASSUME NEW r \in StopReq, StopAllTasks(r) PROVE Unborn' BY <2>7 DEF StopAllTasks
  <2> QED BY <1>1, <2>1, <2>2, <2>3, <2>4, <2>5, <2>6, <2>7 DEF Request
<1>2. ASSUME NEW t \in Task, Starter(t) PROVE Unborn'
  <2>1. CASE RemovePredecessor(t) BY <2>1 DEF RemovePredecessor
  <2>2. CASE StopPredecessor(t) BY <2>2 DEF StopPredecessor
  <2>3. CASE CheckFresh(t) BY <2>3 DEF CheckFresh
  <2>4. CASE StartRun(t) BY <2>4 DEF StartRun
  <2>5. CASE CheckStarted(t) BY <2>5 DEF CheckStarted
  <2>6. CASE StartFailed(t) BY <2>6 DEF StartFailed
  <2>7. CASE DropTask(t) BY <2>7 DEF DropTask
  <2>8. CASE RemoveGhost(t) BY <2>8 DEF RemoveGhost
  <2>9. CASE StopGhost(t) BY <2>9 DEF StopGhost
  <2> QED BY <1>2, <2>1, <2>2, <2>3, <2>4, <2>5, <2>6, <2>7, <2>8, <2>9 DEF Starter
<1>3. ASSUME NEW t \in Task, Restarter(t) PROVE Unborn'
  <2>1. CASE CleanUp(t) BY <2>1 DEF CleanUp
  <2>2. CASE FindJob(t) BY <2>2 DEF FindJob
  <2>3. CASE CountRestart(t) BY <2>3 DEF CountRestart
  <2>4. CASE GiveUp(t) BY <2>4 DEF GiveUp
  <2>5. CASE Backoff(t) BY <2>5 DEF Backoff
  <2>6. CASE NoArtifact(t) BY <2>6 DEF NoArtifact
  <2>7. CASE NoPort(t) BY <2>7 DEF NoPort
  <2>8. ASSUME NEW n \in Task, Swap(t, n) PROVE Unborn' BY <2>8 DEF Swap
  <2>9. CASE SwapTooLate(t) BY <2>9 DEF SwapTooLate
  <2>10. CASE CheckShutdown(t) BY <2>10 DEF CheckShutdown
  <2>11. CASE Rerun(t) BY <2>11 DEF Rerun
  <2>12. CASE CheckRestarted(t) BY <2>12 DEF CheckRestarted
  <2> QED BY <1>3, <2>1, <2>2, <2>3, <2>4, <2>5, <2>6, <2>7, <2>8, <2>9, <2>10,
            <2>11, <2>12 DEF Restarter
<1>4. ASSUME NEW t \in Task, ProcessEnds(t) PROVE Unborn' BY <1>4 DEF ProcessEnds
<1>5. ASSUME NEW r \in StopReq, Stopper(r) PROVE Unborn'
  <2>1. CASE RemoveBatch(r) BY <2>1 DEF RemoveBatch
  <2>2. ASSUME NEW t \in Task, StopOne(r, t) PROVE Unborn' BY <2>2 DEF StopOne
  <2> QED BY <1>5, <2>1, <2>2 DEF Stopper
<1>6. CASE Monitor
  <2>1. CASE MonitorSnapshot BY <2>1 DEF MonitorSnapshot
  <2>2. ASSUME NEW t \in Task, MonitorPass(t) PROVE Unborn' BY <2>2 DEF MonitorPass
  <2>3. ASSUME NEW t \in Task, NEW m \in {"Stopping", "Failed"},
             MonitorRestart(t, m) PROVE Unborn'
    BY <2>3 DEF MonitorRestart
  <2> QED BY <1>6, <2>1, <2>2, <2>3 DEF Monitor
<1>7. CASE Shutdown
  <2>1. CASE CloseShutdownCh BY <2>1 DEF CloseShutdownCh
  <2>2. CASE ShutdownMark BY <2>2 DEF ShutdownMark
  <2>3. CASE ShutdownRemove BY <2>3 DEF ShutdownRemove
  <2>4. ASSUME NEW t \in Task, ShutdownStop(t) PROVE Unborn' BY <2>4 DEF ShutdownStop
  <2>5. CASE Exit BY <2>5 DEF Exit
  <2> QED BY <1>7, <2>1, <2>2, <2>3, <2>4, <2>5 DEF Shutdown
<1>8. CASE UNCHANGED vars BY <1>8 DEF vars
<1> QED BY <1>1, <1>2, <1>3, <1>4, <1>5, <1>6, <1>7, <1>8 DEF Next

\* Only runner.Run, at "run" and "rerun", makes the runner hold a task, and
\* "cleanup" and "ghostStop" release it.
LEMMA NothingHeldStep ==
  ASSUME TypeOK, Unborn, OneGoroutinePerTask, NothingHeld, [Next]_vars
  PROVE  NothingHeld'
<1> USE DEF NothingHeld, Unborn, OneGoroutinePerTask, TypeOK, others, regVars,
      stopVars, Goto, Let, Return, NoLocals, Attempt, Mark, Claim, RunnerStop,
      RunnerRun, OpenReq, TasksOf, NoReq, goVars
<1>1. CASE Request
  <2>1. ASSUME NEW t \in Task, NEW v \in Version, NEW replace \in BOOLEAN,
             AcceptRun(t, v, replace) PROVE NothingHeld'
    BY <2>1 DEF AcceptRun
  <2>2. ASSUME NEW j \in Job, StoreJob(j) PROVE NothingHeld' BY <2>2 DEF StoreJob
  <2>3. ASSUME NEW j \in Job, DropJob(j) PROVE NothingHeld' BY <2>3 DEF DropJob
  <2>4. ASSUME NEW r \in StopReq, NEW t \in Task, StopTask(r, t) PROVE NothingHeld'
    BY <2>4 DEF StopTask
  <2>5. ASSUME NEW r \in StopReq, NEW j \in Job, StopJobTasks(r, j) PROVE NothingHeld'
    BY <2>5 DEF StopJobTasks
  <2>6. ASSUME NEW r \in StopReq, NEW j \in Job, DeleteJob(r, j) PROVE NothingHeld'
    BY <2>6 DEF DeleteJob
  <2>7. ASSUME NEW r \in StopReq, StopAllTasks(r) PROVE NothingHeld'
    BY <2>7 DEF StopAllTasks
  <2> QED BY <1>1, <2>1, <2>2, <2>3, <2>4, <2>5, <2>6, <2>7 DEF Request
<1>2. ASSUME NEW t \in Task, Starter(t) PROVE NothingHeld'
  <2>1. CASE RemovePredecessor(t) BY <2>1 DEF RemovePredecessor
  <2>2. CASE StopPredecessor(t) BY <2>2 DEF StopPredecessor
  <2>3. CASE CheckFresh(t) BY <2>3 DEF CheckFresh
  <2>4. CASE StartRun(t) BY <2>4 DEF StartRun
  <2>5. CASE CheckStarted(t) BY <2>5 DEF CheckStarted
  <2>6. CASE StartFailed(t) BY <2>6 DEF StartFailed
  <2>7. CASE DropTask(t) BY <2>7 DEF DropTask
  <2>8. CASE RemoveGhost(t) BY <2>8 DEF RemoveGhost
  <2>9. CASE StopGhost(t) BY <2>9 DEF StopGhost
  <2> QED BY <1>2, <2>1, <2>2, <2>3, <2>4, <2>5, <2>6, <2>7, <2>8, <2>9 DEF Starter
<1>3. ASSUME NEW t \in Task, Restarter(t) PROVE NothingHeld'
  <2>1. CASE CleanUp(t) BY <2>1 DEF CleanUp
  <2>2. CASE FindJob(t) BY <2>2 DEF FindJob
  <2>3. CASE CountRestart(t) BY <2>3 DEF CountRestart
  <2>4. CASE GiveUp(t) BY <2>4 DEF GiveUp
  <2>5. CASE Backoff(t) BY <2>5 DEF Backoff
  <2>6. CASE NoArtifact(t) BY <2>6 DEF NoArtifact
  <2>7. CASE NoPort(t) BY <2>7 DEF NoPort
  <2>8. ASSUME NEW n \in Task, Swap(t, n) PROVE NothingHeld' BY <2>8 DEF Swap
  <2>9. CASE SwapTooLate(t) BY <2>9 DEF SwapTooLate
  <2>10. CASE CheckShutdown(t) BY <2>10 DEF CheckShutdown
  <2>11. CASE Rerun(t) BY <2>11 DEF Rerun
  <2>12. CASE CheckRestarted(t) BY <2>12 DEF CheckRestarted
  <2> QED BY <1>3, <2>1, <2>2, <2>3, <2>4, <2>5, <2>6, <2>7, <2>8, <2>9, <2>10,
            <2>11, <2>12 DEF Restarter
<1>4. ASSUME NEW t \in Task, ProcessEnds(t) PROVE NothingHeld' BY <1>4 DEF ProcessEnds
<1>5. ASSUME NEW r \in StopReq, Stopper(r) PROVE NothingHeld'
  <2>1. CASE RemoveBatch(r) BY <2>1 DEF RemoveBatch
  <2>2. ASSUME NEW t \in Task, StopOne(r, t) PROVE NothingHeld' BY <2>2 DEF StopOne
  <2> QED BY <1>5, <2>1, <2>2 DEF Stopper
<1>6. CASE Monitor
  <2>1. CASE MonitorSnapshot BY <2>1 DEF MonitorSnapshot
  <2>2. ASSUME NEW t \in Task, MonitorPass(t) PROVE NothingHeld' BY <2>2 DEF MonitorPass
  <2>3. ASSUME NEW t \in Task, NEW m \in {"Stopping", "Failed"},
             MonitorRestart(t, m) PROVE NothingHeld'
    BY <2>3 DEF MonitorRestart
  <2> QED BY <1>6, <2>1, <2>2, <2>3 DEF Monitor
<1>7. CASE Shutdown
  <2>1. CASE CloseShutdownCh BY <2>1 DEF CloseShutdownCh
  <2>2. CASE ShutdownMark BY <2>2 DEF ShutdownMark
  <2>3. CASE ShutdownRemove BY <2>3 DEF ShutdownRemove
  <2>4. ASSUME NEW t \in Task, ShutdownStop(t) PROVE NothingHeld'
    BY <2>4 DEF ShutdownStop
  <2>5. CASE Exit BY <2>5 DEF Exit
  <2> QED BY <1>7, <2>1, <2>2, <2>3, <2>4, <2>5 DEF Shutdown
<1>8. CASE UNCHANGED vars BY <1>8 DEF vars
<1> QED BY <1>1, <1>2, <1>3, <1>4, <1>5, <1>6, <1>7, <1>8 DEF Next

\* Batches, predecessors and the shutdown snapshot only shrink after the claim.
LEMMA WorkIsClaimedStep ==
  ASSUME TypeOK, Unborn, WorkIsClaimed, [Next]_vars
  PROVE  WorkIsClaimed'
<1> USE DEF WorkIsClaimed, Unborn, Locals, TypeOK, others, regVars, stopVars, Goto,
      Let, Return, NoLocals, Attempt, Mark, Claim, RunnerStop, RunnerRun, OpenReq,
      TasksOf, NoReq, goVars
<1>1. CASE Request
  <2>1. ASSUME NEW t \in Task, NEW v \in Version, NEW replace \in BOOLEAN,
             AcceptRun(t, v, replace) PROVE WorkIsClaimed'
    BY <2>1 DEF AcceptRun
  <2>2. ASSUME NEW j \in Job, StoreJob(j) PROVE WorkIsClaimed' BY <2>2 DEF StoreJob
  <2>3. ASSUME NEW j \in Job, DropJob(j) PROVE WorkIsClaimed' BY <2>3 DEF DropJob
  <2>4. ASSUME NEW r \in StopReq, NEW t \in Task, StopTask(r, t) PROVE WorkIsClaimed'
    BY <2>4 DEF StopTask
  <2>5. ASSUME NEW r \in StopReq, NEW j \in Job, StopJobTasks(r, j) PROVE WorkIsClaimed'
    BY <2>5 DEF StopJobTasks
  <2>6. ASSUME NEW r \in StopReq, NEW j \in Job, DeleteJob(r, j) PROVE WorkIsClaimed'
    <3>1. CASE OpenReq(r, TasksOf(j)) BY <3>1
    <3>2. CASE UNCHANGED <<reqs, loc, snap, claimed>> BY <3>2
    <3> QED BY <2>6, <3>1, <3>2 DEF DeleteJob
  <2>7. ASSUME NEW r \in StopReq, StopAllTasks(r) PROVE WorkIsClaimed'
    BY <2>7 DEF StopAllTasks
  <2> QED BY <1>1, <2>1, <2>2, <2>3, <2>4, <2>5, <2>6, <2>7 DEF Request
<1>2. ASSUME NEW t \in Task, Starter(t) PROVE WorkIsClaimed'
  <2>1. CASE RemovePredecessor(t) BY <2>1 DEF RemovePredecessor
  <2>2. CASE StopPredecessor(t) BY <2>2 DEF StopPredecessor
  <2>3. CASE CheckFresh(t) BY <2>3, SMTT(30) DEF CheckFresh
  <2>4. CASE StartRun(t) BY <2>4 DEF StartRun
  <2>5. CASE CheckStarted(t) BY <2>5 DEF CheckStarted
  <2>6. CASE StartFailed(t) BY <2>6 DEF StartFailed
  <2>7. CASE DropTask(t) BY <2>7 DEF DropTask
  <2>8. CASE RemoveGhost(t) BY <2>8 DEF RemoveGhost
  <2>9. CASE StopGhost(t) BY <2>9 DEF StopGhost
  <2> QED BY <1>2, <2>1, <2>2, <2>3, <2>4, <2>5, <2>6, <2>7, <2>8, <2>9 DEF Starter
<1>3. ASSUME NEW t \in Task, Restarter(t) PROVE WorkIsClaimed'
  <2>1. CASE CleanUp(t) BY <2>1 DEF CleanUp
  <2>2. CASE FindJob(t) BY <2>2 DEF FindJob
  <2>3. CASE CountRestart(t) BY <2>3 DEF CountRestart
  <2>4. CASE GiveUp(t) BY <2>4 DEF GiveUp
  <2>5. CASE Backoff(t)
    <3>1. CASE life = "running" BY <2>5, <3>1 DEF Backoff
    <3>2. CASE life # "running" BY <2>5, <3>2 DEF Backoff
    <3> QED BY <3>1, <3>2
  <2>6. CASE NoArtifact(t) BY <2>6 DEF NoArtifact
  <2>7. CASE NoPort(t) BY <2>7 DEF NoPort
  <2>8. ASSUME NEW n \in Task, Swap(t, n) PROVE WorkIsClaimed' BY <2>8 DEF Swap
  <2>9. CASE SwapTooLate(t) BY <2>9 DEF SwapTooLate
  <2>10. CASE CheckShutdown(t) BY <2>10 DEF CheckShutdown
  <2>11. CASE Rerun(t) BY <2>11 DEF Rerun
  <2>12. CASE CheckRestarted(t) BY <2>12 DEF CheckRestarted
  <2> QED BY <1>3, <2>1, <2>2, <2>3, <2>4, <2>5, <2>6, <2>7, <2>8, <2>9, <2>10,
            <2>11, <2>12 DEF Restarter
<1>4. ASSUME NEW t \in Task, ProcessEnds(t) PROVE WorkIsClaimed' BY <1>4 DEF ProcessEnds
<1>5. ASSUME NEW r \in StopReq, Stopper(r) PROVE WorkIsClaimed'
  <2>1. CASE RemoveBatch(r) BY <2>1 DEF RemoveBatch
  <2>2. ASSUME NEW t \in Task, StopOne(r, t) PROVE WorkIsClaimed' BY <2>2 DEF StopOne
  <2> QED BY <1>5, <2>1, <2>2 DEF Stopper
<1>6. CASE Monitor
  <2>1. CASE MonitorSnapshot BY <2>1 DEF MonitorSnapshot
  <2>2. ASSUME NEW t \in Task, MonitorPass(t) PROVE WorkIsClaimed'
    BY <2>2 DEF MonitorPass
  <2>3. ASSUME NEW t \in Task, NEW m \in {"Stopping", "Failed"},
             MonitorRestart(t, m) PROVE WorkIsClaimed'
    BY <2>3 DEF MonitorRestart
  <2> QED BY <1>6, <2>1, <2>2, <2>3 DEF Monitor
<1>7. CASE Shutdown
  <2>1. CASE CloseShutdownCh BY <2>1 DEF CloseShutdownCh
  <2>2. CASE ShutdownMark BY <2>2 DEF ShutdownMark
  <2>3. CASE ShutdownRemove BY <2>3 DEF ShutdownRemove
  <2>4. ASSUME NEW t \in Task, ShutdownStop(t) PROVE WorkIsClaimed'
    BY <2>4 DEF ShutdownStop
  <2>5. CASE Exit BY <2>5 DEF Exit
  <2> QED BY <1>7, <2>1, <2>2, <2>3, <2>4, <2>5 DEF Shutdown
<1>8. CASE UNCHANGED vars BY <1>8 DEF vars
<1> QED BY <1>1, <1>2, <1>3, <1>4, <1>5, <1>6, <1>7, <1>8 DEF Next

\* The state of a task being started is written by claims only.
LEMMA ClaimIsSeenStep ==
  ASSUME TypeOK, Unborn, OneGoroutinePerTask, ClaimIsSeen, [Next]_vars
  PROVE  ClaimIsSeen'
<1> USE DEF ClaimIsSeen, Unborn, OneGoroutinePerTask, TypeOK, others, regVars,
      stopVars, Goto, Let, Return, NoLocals, Attempt, Mark, Claim, RunnerStop,
      RunnerRun, OpenReq, TasksOf, NoReq, goVars
<1>1. CASE Request
  <2>1. ASSUME NEW t \in Task, NEW v \in Version, NEW replace \in BOOLEAN,
             AcceptRun(t, v, replace) PROVE ClaimIsSeen'
    BY <2>1 DEF AcceptRun
  <2>2. ASSUME NEW j \in Job, StoreJob(j) PROVE ClaimIsSeen' BY <2>2 DEF StoreJob
  <2>3. ASSUME NEW j \in Job, DropJob(j) PROVE ClaimIsSeen' BY <2>3 DEF DropJob
  <2>4. ASSUME NEW r \in StopReq, NEW t \in Task, StopTask(r, t) PROVE ClaimIsSeen'
    BY <2>4 DEF StopTask
  <2>5. ASSUME NEW r \in StopReq, NEW j \in Job, StopJobTasks(r, j) PROVE ClaimIsSeen'
    BY <2>5 DEF StopJobTasks
  <2>6. ASSUME NEW r \in StopReq, NEW j \in Job, DeleteJob(r, j) PROVE ClaimIsSeen'
    BY <2>6 DEF DeleteJob
  <2>7. ASSUME NEW r \in StopReq, StopAllTasks(r) PROVE ClaimIsSeen'
    BY <2>7 DEF StopAllTasks
  <2> QED BY <1>1, <2>1, <2>2, <2>3, <2>4, <2>5, <2>6, <2>7 DEF Request
<1>2. ASSUME NEW t \in Task, Starter(t) PROVE ClaimIsSeen'
  <2>1. CASE RemovePredecessor(t) BY <2>1 DEF RemovePredecessor
  <2>2. CASE StopPredecessor(t) BY <2>2 DEF StopPredecessor
  <2>3. CASE CheckFresh(t) BY <2>3 DEF CheckFresh
  <2>4. CASE StartRun(t) BY <2>4 DEF StartRun
  <2>5. CASE CheckStarted(t) BY <2>5 DEF CheckStarted
  <2>6. CASE StartFailed(t) BY <2>6 DEF StartFailed
  <2>7. CASE DropTask(t) BY <2>7 DEF DropTask
  <2>8. CASE RemoveGhost(t) BY <2>8 DEF RemoveGhost
  <2>9. CASE StopGhost(t) BY <2>9 DEF StopGhost
  <2> QED BY <1>2, <2>1, <2>2, <2>3, <2>4, <2>5, <2>6, <2>7, <2>8, <2>9 DEF Starter
<1>3. ASSUME NEW t \in Task, Restarter(t) PROVE ClaimIsSeen'
  <2>1. CASE CleanUp(t) BY <2>1 DEF CleanUp
  <2>2. CASE FindJob(t) BY <2>2 DEF FindJob
  <2>3. CASE CountRestart(t) BY <2>3 DEF CountRestart
  <2>4. CASE GiveUp(t) BY <2>4 DEF GiveUp
  <2>5. CASE Backoff(t) BY <2>5 DEF Backoff
  <2>6. CASE NoArtifact(t) BY <2>6 DEF NoArtifact
  <2>7. CASE NoPort(t) BY <2>7 DEF NoPort
  <2>8. ASSUME NEW n \in Task, Swap(t, n) PROVE ClaimIsSeen' BY <2>8 DEF Swap
  <2>9. CASE SwapTooLate(t) BY <2>9 DEF SwapTooLate
  <2>10. CASE CheckShutdown(t) BY <2>10 DEF CheckShutdown
  <2>11. CASE Rerun(t) BY <2>11 DEF Rerun
  <2>12. CASE CheckRestarted(t) BY <2>12 DEF CheckRestarted
  <2> QED BY <1>3, <2>1, <2>2, <2>3, <2>4, <2>5, <2>6, <2>7, <2>8, <2>9, <2>10,
            <2>11, <2>12 DEF Restarter
<1>4. ASSUME NEW t \in Task, ProcessEnds(t) PROVE ClaimIsSeen' BY <1>4 DEF ProcessEnds
<1>5. ASSUME NEW r \in StopReq, Stopper(r) PROVE ClaimIsSeen'
  <2>1. CASE RemoveBatch(r) BY <2>1 DEF RemoveBatch
  <2>2. ASSUME NEW t \in Task, StopOne(r, t) PROVE ClaimIsSeen' BY <2>2 DEF StopOne
  <2> QED BY <1>5, <2>1, <2>2 DEF Stopper
<1>6. CASE Monitor
  <2>1. CASE MonitorSnapshot BY <2>1 DEF MonitorSnapshot
  <2>2. ASSUME NEW t \in Task, MonitorPass(t) PROVE ClaimIsSeen' BY <2>2 DEF MonitorPass
  <2>3. ASSUME NEW t \in Task, NEW m \in {"Stopping", "Failed"},
             MonitorRestart(t, m) PROVE ClaimIsSeen'
    BY <2>3 DEF MonitorRestart
  <2> QED BY <1>6, <2>1, <2>2, <2>3 DEF Monitor
<1>7. CASE Shutdown
  <2>1. CASE CloseShutdownCh BY <2>1 DEF CloseShutdownCh
  <2>2. CASE ShutdownMark BY <2>2 DEF ShutdownMark
  <2>3. CASE ShutdownRemove BY <2>3 DEF ShutdownRemove
  <2>4. ASSUME NEW t \in Task, ShutdownStop(t) PROVE ClaimIsSeen'
    BY <2>4 DEF ShutdownStop
  <2>5. CASE Exit BY <2>5 DEF Exit
  <2> QED BY <1>7, <2>1, <2>2, <2>3, <2>4, <2>5 DEF Shutdown
<1>8. CASE UNCHANGED vars BY <1>8 DEF vars
<1> QED BY <1>1, <1>2, <1>3, <1>4, <1>5, <1>6, <1>7, <1>8 DEF Next

\* Whoever removes a record of an idle task claimed it first.
LEMMA MonitorKnowsStep ==
  ASSUME TypeOK, WorkIsClaimed, OneGoroutinePerTask, MonitorKnows, [Next]_vars
  PROVE  MonitorKnows'
<1> USE DEF MonitorKnows, WorkIsClaimed, OneGoroutinePerTask, Locals, TypeOK,
      others, regVars, stopVars, Goto, Let, Return, NoLocals, Attempt, Mark, Claim,
      RunnerStop, RunnerRun, OpenReq, TasksOf, NoReq, goVars
<1>1. CASE Request
  <2>1. ASSUME NEW t \in Task, NEW v \in Version, NEW replace \in BOOLEAN,
             AcceptRun(t, v, replace) PROVE MonitorKnows'
    BY <2>1 DEF AcceptRun
  <2>2. ASSUME NEW j \in Job, StoreJob(j) PROVE MonitorKnows' BY <2>2 DEF StoreJob
  <2>3. ASSUME NEW j \in Job, DropJob(j) PROVE MonitorKnows' BY <2>3 DEF DropJob
  <2>4. ASSUME NEW r \in StopReq, NEW t \in Task, StopTask(r, t) PROVE MonitorKnows'
    BY <2>4 DEF StopTask
  <2>5. ASSUME NEW r \in StopReq, NEW j \in Job, StopJobTasks(r, j) PROVE MonitorKnows'
    BY <2>5 DEF StopJobTasks
  <2>6. ASSUME NEW r \in StopReq, NEW j \in Job, DeleteJob(r, j) PROVE MonitorKnows'
    BY <2>6 DEF DeleteJob
  <2>7. ASSUME NEW r \in StopReq, StopAllTasks(r) PROVE MonitorKnows'
    BY <2>7 DEF StopAllTasks
  <2> QED BY <1>1, <2>1, <2>2, <2>3, <2>4, <2>5, <2>6, <2>7 DEF Request
<1>2. ASSUME NEW t \in Task, Starter(t) PROVE MonitorKnows'
  <2>1. CASE RemovePredecessor(t) BY <2>1 DEF RemovePredecessor
  <2>2. CASE StopPredecessor(t) BY <2>2 DEF StopPredecessor
  <2>3. CASE CheckFresh(t) BY <2>3 DEF CheckFresh
  <2>4. CASE StartRun(t) BY <2>4 DEF StartRun
  <2>5. CASE CheckStarted(t) BY <2>5 DEF CheckStarted
  <2>6. CASE StartFailed(t) BY <2>6 DEF StartFailed
  <2>7. CASE DropTask(t) BY <2>7 DEF DropTask
  <2>8. CASE RemoveGhost(t) BY <2>8 DEF RemoveGhost
  <2>9. CASE StopGhost(t) BY <2>9 DEF StopGhost
  <2> QED BY <1>2, <2>1, <2>2, <2>3, <2>4, <2>5, <2>6, <2>7, <2>8, <2>9 DEF Starter
<1>3. ASSUME NEW t \in Task, Restarter(t) PROVE MonitorKnows'
  <2>1. CASE CleanUp(t) BY <2>1 DEF CleanUp
  <2>2. CASE FindJob(t) BY <2>2 DEF FindJob
  <2>3. CASE CountRestart(t) BY <2>3 DEF CountRestart
  <2>4. CASE GiveUp(t) BY <2>4 DEF GiveUp
  <2>5. CASE Backoff(t) BY <2>5 DEF Backoff
  <2>6. CASE NoArtifact(t) BY <2>6 DEF NoArtifact
  <2>7. CASE NoPort(t) BY <2>7 DEF NoPort
  <2>8. ASSUME NEW n \in Task, Swap(t, n) PROVE MonitorKnows' BY <2>8 DEF Swap
  <2>9. CASE SwapTooLate(t) BY <2>9 DEF SwapTooLate
  <2>10. CASE CheckShutdown(t) BY <2>10 DEF CheckShutdown
  <2>11. CASE Rerun(t) BY <2>11 DEF Rerun
  <2>12. CASE CheckRestarted(t) BY <2>12 DEF CheckRestarted
  <2> QED BY <1>3, <2>1, <2>2, <2>3, <2>4, <2>5, <2>6, <2>7, <2>8, <2>9, <2>10,
            <2>11, <2>12 DEF Restarter
<1>4. ASSUME NEW t \in Task, ProcessEnds(t) PROVE MonitorKnows' BY <1>4 DEF ProcessEnds
<1>5. ASSUME NEW r \in StopReq, Stopper(r) PROVE MonitorKnows'
  <2>1. CASE RemoveBatch(r) BY <2>1 DEF RemoveBatch
  <2>2. ASSUME NEW t \in Task, StopOne(r, t) PROVE MonitorKnows' BY <2>2 DEF StopOne
  <2> QED BY <1>5, <2>1, <2>2 DEF Stopper
<1>6. CASE Monitor
  <2>1. CASE MonitorSnapshot BY <2>1 DEF MonitorSnapshot
  <2>2. ASSUME NEW t \in Task, MonitorPass(t) PROVE MonitorKnows'
    BY <2>2 DEF MonitorPass
  <2>3. ASSUME NEW t \in Task, NEW m \in {"Stopping", "Failed"},
             MonitorRestart(t, m) PROVE MonitorKnows'
    BY <2>3 DEF MonitorRestart
  <2> QED BY <1>6, <2>1, <2>2, <2>3 DEF Monitor
<1>7. CASE Shutdown
  <2>1. CASE CloseShutdownCh BY <2>1 DEF CloseShutdownCh
  <2>2. CASE ShutdownMark BY <2>2 DEF ShutdownMark
  <2>3. CASE ShutdownRemove BY <2>3 DEF ShutdownRemove
  <2>4. ASSUME NEW t \in Task, ShutdownStop(t) PROVE MonitorKnows'
    BY <2>4 DEF ShutdownStop
  <2>5. CASE Exit BY <2>5 DEF Exit
  <2> QED BY <1>7, <2>1, <2>2, <2>3, <2>4, <2>5 DEF Shutdown
<1>8. CASE UNCHANGED vars BY <1>8 DEF vars
<1> QED BY <1>1, <1>2, <1>3, <1>4, <1>5, <1>6, <1>7, <1>8 DEF Next

\* A goroutine begins at a new task, or at one the monitor has marked.
LEMMA OneGoroutineStep ==
  ASSUME TypeOK, Unborn, OneGoroutinePerTask, [Next]_vars
  PROVE  OneGoroutinePerTask'
<1> USE DEF OneGoroutinePerTask, Unborn, TypeOK, others, regVars, stopVars, Goto,
      Let, Return, NoLocals, Attempt, Mark, Claim, RunnerStop, RunnerRun, OpenReq,
      TasksOf, NoReq, goVars
<1>1. CASE Request
  <2>1. ASSUME NEW t \in Task, NEW v \in Version, NEW replace \in BOOLEAN,
             AcceptRun(t, v, replace) PROVE OneGoroutinePerTask'
    BY <2>1 DEF AcceptRun
  <2>2. ASSUME NEW j \in Job, StoreJob(j) PROVE OneGoroutinePerTask'
    BY <2>2 DEF StoreJob
  <2>3. ASSUME NEW j \in Job, DropJob(j) PROVE OneGoroutinePerTask' BY <2>3 DEF DropJob
  <2>4. ASSUME NEW r \in StopReq, NEW t \in Task, StopTask(r, t) PROVE OneGoroutinePerTask'
    BY <2>4 DEF StopTask
  <2>5. ASSUME NEW r \in StopReq, NEW j \in Job, StopJobTasks(r, j) PROVE OneGoroutinePerTask'
    BY <2>5 DEF StopJobTasks
  <2>6. ASSUME NEW r \in StopReq, NEW j \in Job, DeleteJob(r, j) PROVE OneGoroutinePerTask'
    BY <2>6 DEF DeleteJob
  <2>7. ASSUME NEW r \in StopReq, StopAllTasks(r) PROVE OneGoroutinePerTask'
    BY <2>7 DEF StopAllTasks
  <2> QED BY <1>1, <2>1, <2>2, <2>3, <2>4, <2>5, <2>6, <2>7 DEF Request
<1>2. ASSUME NEW t \in Task, Starter(t) PROVE OneGoroutinePerTask'
  <2>1. CASE RemovePredecessor(t) BY <2>1 DEF RemovePredecessor
  <2>2. CASE StopPredecessor(t) BY <2>2 DEF StopPredecessor
  <2>3. CASE CheckFresh(t) BY <2>3 DEF CheckFresh
  <2>4. CASE StartRun(t) BY <2>4 DEF StartRun
  <2>5. CASE CheckStarted(t) BY <2>5 DEF CheckStarted
  <2>6. CASE StartFailed(t) BY <2>6 DEF StartFailed
  <2>7. CASE DropTask(t) BY <2>7 DEF DropTask
  <2>8. CASE RemoveGhost(t) BY <2>8 DEF RemoveGhost
  <2>9. CASE StopGhost(t) BY <2>9 DEF StopGhost
  <2> QED BY <1>2, <2>1, <2>2, <2>3, <2>4, <2>5, <2>6, <2>7, <2>8, <2>9 DEF Starter
<1>3. ASSUME NEW t \in Task, Restarter(t) PROVE OneGoroutinePerTask'
  <2>1. CASE CleanUp(t) BY <2>1 DEF CleanUp
  <2>2. CASE FindJob(t) BY <2>2 DEF FindJob
  <2>3. CASE CountRestart(t) BY <2>3 DEF CountRestart
  <2>4. CASE GiveUp(t) BY <2>4 DEF GiveUp
  <2>5. CASE Backoff(t) BY <2>5 DEF Backoff
  <2>6. CASE NoArtifact(t) BY <2>6 DEF NoArtifact
  <2>7. CASE NoPort(t) BY <2>7 DEF NoPort
  <2>8. ASSUME NEW n \in Task, Swap(t, n) PROVE OneGoroutinePerTask' BY <2>8 DEF Swap
  <2>9. CASE SwapTooLate(t) BY <2>9 DEF SwapTooLate
  <2>10. CASE CheckShutdown(t) BY <2>10 DEF CheckShutdown
  <2>11. CASE Rerun(t) BY <2>11 DEF Rerun
  <2>12. CASE CheckRestarted(t) BY <2>12 DEF CheckRestarted
  <2> QED BY <1>3, <2>1, <2>2, <2>3, <2>4, <2>5, <2>6, <2>7, <2>8, <2>9, <2>10,
            <2>11, <2>12 DEF Restarter
<1>4. ASSUME NEW t \in Task, ProcessEnds(t) PROVE OneGoroutinePerTask'
  BY <1>4 DEF ProcessEnds
<1>5. ASSUME NEW r \in StopReq, Stopper(r) PROVE OneGoroutinePerTask'
  <2>1. CASE RemoveBatch(r) BY <2>1 DEF RemoveBatch
  <2>2. ASSUME NEW t \in Task, StopOne(r, t) PROVE OneGoroutinePerTask'
    BY <2>2 DEF StopOne
  <2> QED BY <1>5, <2>1, <2>2 DEF Stopper
<1>6. CASE Monitor
  <2>1. CASE MonitorSnapshot BY <2>1 DEF MonitorSnapshot
  <2>2. ASSUME NEW t \in Task, MonitorPass(t) PROVE OneGoroutinePerTask'
    BY <2>2 DEF MonitorPass
  <2>3. ASSUME NEW t \in Task, NEW m \in {"Stopping", "Failed"},
             MonitorRestart(t, m) PROVE OneGoroutinePerTask'
    BY <2>3 DEF MonitorRestart
  <2> QED BY <1>6, <2>1, <2>2, <2>3 DEF Monitor
<1>7. CASE Shutdown
  <2>1. CASE CloseShutdownCh BY <2>1 DEF CloseShutdownCh
  <2>2. CASE ShutdownMark BY <2>2 DEF ShutdownMark
  <2>3. CASE ShutdownRemove BY <2>3 DEF ShutdownRemove
  <2>4. ASSUME NEW t \in Task, ShutdownStop(t) PROVE OneGoroutinePerTask'
    BY <2>4 DEF ShutdownStop
  <2>5. CASE Exit BY <2>5 DEF Exit
  <2> QED BY <1>7, <2>1, <2>2, <2>3, <2>4, <2>5 DEF Shutdown
<1>8. CASE UNCHANGED vars BY <1>8 DEF vars
<1> QED BY <1>1, <1>2, <1>3, <1>4, <1>5, <1>6, <1>7, <1>8 DEF Next

\* Only the goroutine itself or a claim takes a record away.
LEMMA ReservationStep ==
  ASSUME TypeOK, WorkIsClaimed, MonitorKnows, ReservationKept, [Next]_vars
  PROVE  ReservationKept'
<1> USE DEF ReservationKept, WorkIsClaimed, MonitorKnows, Locals, StartPC,
      RestartPC, TypeOK, others, regVars, stopVars, Goto, Let, Return, NoLocals,
      Attempt, Mark, Claim, RunnerStop, RunnerRun, OpenReq, TasksOf, NoReq, goVars
<1>1. CASE Request
  <2>1. ASSUME NEW t \in Task, NEW v \in Version, NEW replace \in BOOLEAN,
             AcceptRun(t, v, replace) PROVE ReservationKept'
    BY <2>1 DEF AcceptRun
  <2>2. ASSUME NEW j \in Job, StoreJob(j) PROVE ReservationKept' BY <2>2 DEF StoreJob
  <2>3. ASSUME NEW j \in Job, DropJob(j) PROVE ReservationKept' BY <2>3 DEF DropJob
  <2>4. ASSUME NEW r \in StopReq, NEW t \in Task, StopTask(r, t) PROVE ReservationKept'
    BY <2>4 DEF StopTask
  <2>5. ASSUME NEW r \in StopReq, NEW j \in Job, StopJobTasks(r, j) PROVE ReservationKept'
    BY <2>5 DEF StopJobTasks
  <2>6. ASSUME NEW r \in StopReq, NEW j \in Job, DeleteJob(r, j) PROVE ReservationKept'
    BY <2>6 DEF DeleteJob
  <2>7. ASSUME NEW r \in StopReq, StopAllTasks(r) PROVE ReservationKept'
    BY <2>7 DEF StopAllTasks
  <2> QED BY <1>1, <2>1, <2>2, <2>3, <2>4, <2>5, <2>6, <2>7 DEF Request
<1>2. ASSUME NEW t \in Task, Starter(t) PROVE ReservationKept'
  <2>1. CASE RemovePredecessor(t) BY <2>1 DEF RemovePredecessor
  <2>2. CASE StopPredecessor(t) BY <2>2 DEF StopPredecessor
  <2>3. CASE CheckFresh(t) BY <2>3 DEF CheckFresh
  <2>4. CASE StartRun(t) BY <2>4 DEF StartRun
  <2>5. CASE CheckStarted(t) BY <2>5 DEF CheckStarted
  <2>6. CASE StartFailed(t) BY <2>6 DEF StartFailed
  <2>7. CASE DropTask(t) BY <2>7 DEF DropTask
  <2>8. CASE RemoveGhost(t) BY <2>8 DEF RemoveGhost
  <2>9. CASE StopGhost(t) BY <2>9 DEF StopGhost
  <2> QED BY <1>2, <2>1, <2>2, <2>3, <2>4, <2>5, <2>6, <2>7, <2>8, <2>9 DEF Starter
<1>3. ASSUME NEW t \in Task, Restarter(t) PROVE ReservationKept'
  <2>1. CASE CleanUp(t) BY <2>1 DEF CleanUp
  <2>2. CASE FindJob(t) BY <2>2 DEF FindJob
  <2>3. CASE CountRestart(t) BY <2>3 DEF CountRestart
  <2>4. CASE GiveUp(t) BY <2>4 DEF GiveUp
  <2>5. CASE Backoff(t) BY <2>5 DEF Backoff
  <2>6. CASE NoArtifact(t) BY <2>6 DEF NoArtifact
  <2>7. CASE NoPort(t) BY <2>7 DEF NoPort
  <2>8. ASSUME NEW n \in Task, Swap(t, n) PROVE ReservationKept' BY <2>8 DEF Swap
  <2>9. CASE SwapTooLate(t) BY <2>9 DEF SwapTooLate
  <2>10. CASE CheckShutdown(t) BY <2>10 DEF CheckShutdown
  <2>11. CASE Rerun(t) BY <2>11 DEF Rerun
  <2>12. CASE CheckRestarted(t) BY <2>12 DEF CheckRestarted
  <2> QED BY <1>3, <2>1, <2>2, <2>3, <2>4, <2>5, <2>6, <2>7, <2>8, <2>9, <2>10,
            <2>11, <2>12 DEF Restarter
<1>4. ASSUME NEW t \in Task, ProcessEnds(t) PROVE ReservationKept'
  BY <1>4 DEF ProcessEnds
<1>5. ASSUME NEW r \in StopReq, Stopper(r) PROVE ReservationKept'
  <2>1. CASE RemoveBatch(r) BY <2>1 DEF RemoveBatch
  <2>2. ASSUME NEW t \in Task, StopOne(r, t) PROVE ReservationKept' BY <2>2 DEF StopOne
  <2> QED BY <1>5, <2>1, <2>2 DEF Stopper
<1>6. CASE Monitor
  <2>1. CASE MonitorSnapshot BY <2>1 DEF MonitorSnapshot
  <2>2. ASSUME NEW t \in Task, MonitorPass(t) PROVE ReservationKept'
    BY <2>2 DEF MonitorPass
  <2>3. ASSUME NEW t \in Task, NEW m \in {"Stopping", "Failed"},
             MonitorRestart(t, m) PROVE ReservationKept'
    BY <2>3 DEF MonitorRestart
  <2> QED BY <1>6, <2>1, <2>2, <2>3 DEF Monitor
<1>7. CASE Shutdown
  <2>1. CASE CloseShutdownCh BY <2>1 DEF CloseShutdownCh
  <2>2. CASE ShutdownMark BY <2>2 DEF ShutdownMark
  <2>3. CASE ShutdownRemove BY <2>3 DEF ShutdownRemove
  <2>4. ASSUME NEW t \in Task, ShutdownStop(t) PROVE ReservationKept'
    BY <2>4 DEF ShutdownStop
  <2>5. CASE Exit BY <2>5 DEF Exit
  <2> QED BY <1>7, <2>1, <2>2, <2>3, <2>4, <2>5 DEF Shutdown
<1>8. CASE UNCHANGED vars BY <1>8 DEF vars
<1> QED BY <1>1, <1>2, <1>3, <1>4, <1>5, <1>6, <1>7, <1>8 DEF Next

\* Shutdown claims what is in the map, and that is where replacements are.
LEMMA ShutdownStep ==
  ASSUME TypeOK, ReservationKept, NoRestartPastShutdown, [Next]_vars
  PROVE  NoRestartPastShutdown'
<1> USE DEF NoRestartPastShutdown, ReservationKept, StartPC, RestartPC, TypeOK,
      others, regVars, stopVars, Goto, Let, Return, NoLocals, Attempt, Mark, Claim,
      RunnerStop, RunnerRun, OpenReq, TasksOf, NoReq, goVars
<1>1. CASE Request
  <2>1. ASSUME NEW t \in Task, NEW v \in Version, NEW replace \in BOOLEAN,
             AcceptRun(t, v, replace) PROVE NoRestartPastShutdown'
    BY <2>1 DEF AcceptRun
  <2>2. ASSUME NEW j \in Job, StoreJob(j) PROVE NoRestartPastShutdown'
    BY <2>2 DEF StoreJob
  <2>3. ASSUME NEW j \in Job, DropJob(j) PROVE NoRestartPastShutdown'
    BY <2>3 DEF DropJob
  <2>4. ASSUME NEW r \in StopReq, NEW t \in Task, StopTask(r, t) PROVE NoRestartPastShutdown'
    BY <2>4 DEF StopTask
  <2>5. ASSUME NEW r \in StopReq, NEW j \in Job, StopJobTasks(r, j) PROVE NoRestartPastShutdown'
    BY <2>5 DEF StopJobTasks
  <2>6. ASSUME NEW r \in StopReq, NEW j \in Job, DeleteJob(r, j) PROVE NoRestartPastShutdown'
    BY <2>6 DEF DeleteJob
  <2>7. ASSUME NEW r \in StopReq, StopAllTasks(r) PROVE NoRestartPastShutdown'
    BY <2>7 DEF StopAllTasks
  <2> QED BY <1>1, <2>1, <2>2, <2>3, <2>4, <2>5, <2>6, <2>7 DEF Request
<1>2. ASSUME NEW t \in Task, Starter(t) PROVE NoRestartPastShutdown'
  <2>1. CASE RemovePredecessor(t) BY <2>1 DEF RemovePredecessor
  <2>2. CASE StopPredecessor(t) BY <2>2 DEF StopPredecessor
  <2>3. CASE CheckFresh(t) BY <2>3 DEF CheckFresh
  <2>4. CASE StartRun(t) BY <2>4 DEF StartRun
  <2>5. CASE CheckStarted(t) BY <2>5 DEF CheckStarted
  <2>6. CASE StartFailed(t) BY <2>6 DEF StartFailed
  <2>7. CASE DropTask(t) BY <2>7 DEF DropTask
  <2>8. CASE RemoveGhost(t) BY <2>8 DEF RemoveGhost
  <2>9. CASE StopGhost(t) BY <2>9 DEF StopGhost
  <2> QED BY <1>2, <2>1, <2>2, <2>3, <2>4, <2>5, <2>6, <2>7, <2>8, <2>9 DEF Starter
<1>3. ASSUME NEW t \in Task, Restarter(t) PROVE NoRestartPastShutdown'
  <2>1. CASE CleanUp(t) BY <2>1 DEF CleanUp
  <2>2. CASE FindJob(t) BY <2>2 DEF FindJob
  <2>3. CASE CountRestart(t) BY <2>3 DEF CountRestart
  <2>4. CASE GiveUp(t) BY <2>4 DEF GiveUp
  <2>5. CASE Backoff(t) BY <2>5 DEF Backoff
  <2>6. CASE NoArtifact(t) BY <2>6 DEF NoArtifact
  <2>7. CASE NoPort(t) BY <2>7 DEF NoPort
  <2>8. ASSUME NEW n \in Task, Swap(t, n) PROVE NoRestartPastShutdown' BY <2>8 DEF Swap
  <2>9. CASE SwapTooLate(t) BY <2>9 DEF SwapTooLate
  <2>10. CASE CheckShutdown(t) BY <2>10 DEF CheckShutdown
  <2>11. CASE Rerun(t) BY <2>11 DEF Rerun
  <2>12. CASE CheckRestarted(t) BY <2>12 DEF CheckRestarted
  <2> QED BY <1>3, <2>1, <2>2, <2>3, <2>4, <2>5, <2>6, <2>7, <2>8, <2>9, <2>10,
            <2>11, <2>12 DEF Restarter
<1>4. ASSUME NEW t \in Task, ProcessEnds(t) PROVE NoRestartPastShutdown'
  BY <1>4 DEF ProcessEnds
<1>5. ASSUME NEW r \in StopReq, Stopper(r) PROVE NoRestartPastShutdown'
  <2>1. CASE RemoveBatch(r) BY <2>1 DEF RemoveBatch
  <2>2. ASSUME NEW t \in Task, StopOne(r, t) PROVE NoRestartPastShutdown'
    BY <2>2 DEF StopOne
  <2> QED BY <1>5, <2>1, <2>2 DEF Stopper
<1>6. CASE Monitor
  <2>1. CASE MonitorSnapshot BY <2>1 DEF MonitorSnapshot
  <2>2. ASSUME NEW t \in Task, MonitorPass(t) PROVE NoRestartPastShutdown'
    BY <2>2 DEF MonitorPass
  <2>3. ASSUME NEW t \in Task, NEW m \in {"Stopping", "Failed"},
             MonitorRestart(t, m) PROVE NoRestartPastShutdown'
    BY <2>3 DEF MonitorRestart
  <2> QED BY <1>6, <2>1, <2>2, <2>3 DEF Monitor
<1>7. CASE Shutdown
  <2>1. CASE CloseShutdownCh BY <2>1 DEF CloseShutdownCh
  <2>2. CASE ShutdownMark BY <2>2 DEF ShutdownMark
  <2>3. CASE ShutdownRemove BY <2>3 DEF ShutdownRemove
  <2>4. ASSUME NEW t \in Task, ShutdownStop(t) PROVE NoRestartPastShutdown'
    BY <2>4 DEF ShutdownStop
  <2>5. CASE Exit BY <2>5 DEF Exit
  <2> QED BY <1>7, <2>1, <2>2, <2>3, <2>4, <2>5 DEF Shutdown
<1>8. CASE UNCHANGED vars BY <1>8 DEF vars
<1> QED BY <1>1, <1>2, <1>3, <1>4, <1>5, <1>6, <1>7, <1>8 DEF Next

\* The count is checked before the backoff and not raised until after it.
LEMMA BudgetLeftStep ==
  ASSUME TypeOK, BudgetLeft, [Next]_vars
  PROVE  BudgetLeft'
<1> USE DEF BudgetLeft, TypeOK, others, regVars, stopVars, Goto, Let, Return,
      NoLocals, Attempt, Mark, Claim, RunnerStop, RunnerRun, OpenReq, TasksOf,
      NoReq, goVars
<1>1. CASE Request
  <2>1. ASSUME NEW t \in Task, NEW v \in Version, NEW replace \in BOOLEAN,
             AcceptRun(t, v, replace) PROVE BudgetLeft'
    BY <2>1 DEF AcceptRun
  <2>2. ASSUME NEW j \in Job, StoreJob(j) PROVE BudgetLeft' BY <2>2 DEF StoreJob
  <2>3. ASSUME NEW j \in Job, DropJob(j) PROVE BudgetLeft' BY <2>3 DEF DropJob
  <2>4. ASSUME NEW r \in StopReq, NEW t \in Task, StopTask(r, t) PROVE BudgetLeft'
    BY <2>4 DEF StopTask
  <2>5. ASSUME NEW r \in StopReq, NEW j \in Job, StopJobTasks(r, j) PROVE BudgetLeft'
    BY <2>5 DEF StopJobTasks
  <2>6. ASSUME NEW r \in StopReq, NEW j \in Job, DeleteJob(r, j) PROVE BudgetLeft'
    BY <2>6 DEF DeleteJob
  <2>7. ASSUME NEW r \in StopReq, StopAllTasks(r) PROVE BudgetLeft'
    BY <2>7 DEF StopAllTasks
  <2> QED BY <1>1, <2>1, <2>2, <2>3, <2>4, <2>5, <2>6, <2>7 DEF Request
<1>2. ASSUME NEW t \in Task, Starter(t) PROVE BudgetLeft'
  <2>1. CASE RemovePredecessor(t) BY <2>1 DEF RemovePredecessor
  <2>2. CASE StopPredecessor(t) BY <2>2 DEF StopPredecessor
  <2>3. CASE CheckFresh(t) BY <2>3 DEF CheckFresh
  <2>4. CASE StartRun(t) BY <2>4 DEF StartRun
  <2>5. CASE CheckStarted(t) BY <2>5 DEF CheckStarted
  <2>6. CASE StartFailed(t) BY <2>6 DEF StartFailed
  <2>7. CASE DropTask(t) BY <2>7 DEF DropTask
  <2>8. CASE RemoveGhost(t) BY <2>8 DEF RemoveGhost
  <2>9. CASE StopGhost(t) BY <2>9 DEF StopGhost
  <2> QED BY <1>2, <2>1, <2>2, <2>3, <2>4, <2>5, <2>6, <2>7, <2>8, <2>9 DEF Starter
<1>3. ASSUME NEW t \in Task, Restarter(t) PROVE BudgetLeft'
  <2>1. CASE CleanUp(t) BY <2>1 DEF CleanUp
  <2>2. CASE FindJob(t) BY <2>2 DEF FindJob
  <2>3. CASE CountRestart(t)
    <3>1. restarts' \in [Task -> Nat] BY <2>3 DEF CountRestart
    <3>2. pc'[t] = "backoff" /\ t \in tasks => restarts'[t] < MaxRestarts
      BY <2>3, <3>1, AgentAssumption DEF CountRestart
    <3>3. \A u \in Task \ {t} : pc'[u] = pc[u] /\ restarts'[u] = restarts[u]
      BY <2>3 DEF CountRestart
    <3>4. pc'[t] # "swap" /\ tasks' = tasks BY <2>3 DEF CountRestart
    <3> QED BY <3>2, <3>3, <3>4
  <2>4. CASE GiveUp(t) BY <2>4 DEF GiveUp
  <2>5. CASE Backoff(t) BY <2>5 DEF Backoff
  <2>6. CASE NoArtifact(t) BY <2>6 DEF NoArtifact
  <2>7. CASE NoPort(t) BY <2>7 DEF NoPort
  <2>8. ASSUME NEW n \in Task, Swap(t, n) PROVE BudgetLeft' BY <2>8 DEF Swap
  <2>9. CASE SwapTooLate(t) BY <2>9 DEF SwapTooLate
  <2>10. CASE CheckShutdown(t) BY <2>10 DEF CheckShutdown
  <2>11. CASE Rerun(t) BY <2>11 DEF Rerun
  <2>12. CASE CheckRestarted(t) BY <2>12 DEF CheckRestarted
  <2> QED BY <1>3, <2>1, <2>2, <2>3, <2>4, <2>5, <2>6, <2>7, <2>8, <2>9, <2>10,
            <2>11, <2>12 DEF Restarter
<1>4. ASSUME NEW t \in Task, ProcessEnds(t) PROVE BudgetLeft' BY <1>4 DEF ProcessEnds
<1>5. ASSUME NEW r \in StopReq, Stopper(r) PROVE BudgetLeft'
  <2>1. CASE RemoveBatch(r) BY <2>1 DEF RemoveBatch
  <2>2. ASSUME NEW t \in Task, StopOne(r, t) PROVE BudgetLeft' BY <2>2 DEF StopOne
  <2> QED BY <1>5, <2>1, <2>2 DEF Stopper
<1>6. CASE Monitor
  <2>1. CASE MonitorSnapshot BY <2>1 DEF MonitorSnapshot
  <2>2. ASSUME NEW t \in Task, MonitorPass(t) PROVE BudgetLeft' BY <2>2 DEF MonitorPass
  <2>3. ASSUME NEW t \in Task, NEW m \in {"Stopping", "Failed"},
             MonitorRestart(t, m) PROVE BudgetLeft'
    BY <2>3 DEF MonitorRestart
  <2> QED BY <1>6, <2>1, <2>2, <2>3 DEF Monitor
<1>7. CASE Shutdown
  <2>1. CASE CloseShutdownCh BY <2>1 DEF CloseShutdownCh
  <2>2. CASE ShutdownMark BY <2>2 DEF ShutdownMark
  <2>3. CASE ShutdownRemove BY <2>3 DEF ShutdownRemove
  <2>4. ASSUME NEW t \in Task, ShutdownStop(t) PROVE BudgetLeft'
    BY <2>4 DEF ShutdownStop
  <2>5. CASE Exit BY <2>5 DEF Exit
  <2> QED BY <1>7, <2>1, <2>2, <2>3, <2>4, <2>5 DEF Shutdown
<1>8. CASE UNCHANGED vars BY <1>8 DEF vars
<1> QED BY <1>1, <1>2, <1>3, <1>4, <1>5, <1>6, <1>7, <1>8 DEF Next

\* Only a replacement and a busy port raise the count, by one.
LEMMA BudgetStep ==
  ASSUME TypeOK, BudgetLeft, RestartBudget, [Next]_vars
  PROVE  RestartBudget'
<1> USE DEF RestartBudget, BudgetLeft, TypeOK, others, regVars, stopVars, Goto, Let,
      Return, NoLocals, Attempt, Mark, Claim, RunnerStop, RunnerRun, OpenReq,
      TasksOf, NoReq, goVars
<1>1. CASE Request
  <2>1. ASSUME NEW t \in Task, NEW v \in Version, NEW replace \in BOOLEAN,
             AcceptRun(t, v, replace) PROVE RestartBudget'
    BY <2>1 DEF AcceptRun
  <2>2. ASSUME NEW j \in Job, StoreJob(j) PROVE RestartBudget' BY <2>2 DEF StoreJob
  <2>3. ASSUME NEW j \in Job, DropJob(j) PROVE RestartBudget' BY <2>3 DEF DropJob
  <2>4. ASSUME NEW r \in StopReq, NEW t \in Task, StopTask(r, t) PROVE RestartBudget'
    BY <2>4 DEF StopTask
  <2>5. ASSUME NEW r \in StopReq, NEW j \in Job, StopJobTasks(r, j) PROVE RestartBudget'
    BY <2>5 DEF StopJobTasks
  <2>6. ASSUME NEW r \in StopReq, NEW j \in Job, DeleteJob(r, j) PROVE RestartBudget'
    BY <2>6 DEF DeleteJob
  <2>7. ASSUME NEW r \in StopReq, StopAllTasks(r) PROVE RestartBudget'
    BY <2>7 DEF StopAllTasks
  <2> QED BY <1>1, <2>1, <2>2, <2>3, <2>4, <2>5, <2>6, <2>7 DEF Request
<1>2. ASSUME NEW t \in Task, Starter(t) PROVE RestartBudget'
  <2>1. CASE RemovePredecessor(t) BY <2>1 DEF RemovePredecessor
  <2>2. CASE StopPredecessor(t) BY <2>2 DEF StopPredecessor
  <2>3. CASE CheckFresh(t) BY <2>3 DEF CheckFresh
  <2>4. CASE StartRun(t) BY <2>4 DEF StartRun
  <2>5. CASE CheckStarted(t) BY <2>5 DEF CheckStarted
  <2>6. CASE StartFailed(t) BY <2>6 DEF StartFailed
  <2>7. CASE DropTask(t) BY <2>7 DEF DropTask
  <2>8. CASE RemoveGhost(t) BY <2>8 DEF RemoveGhost
  <2>9. CASE StopGhost(t) BY <2>9 DEF StopGhost
  <2> QED BY <1>2, <2>1, <2>2, <2>3, <2>4, <2>5, <2>6, <2>7, <2>8, <2>9 DEF Starter
<1>3. ASSUME NEW t \in Task, Restarter(t) PROVE RestartBudget'
  <2>1. CASE CleanUp(t) BY <2>1 DEF CleanUp
  <2>2. CASE FindJob(t) BY <2>2 DEF FindJob
  <2>3. CASE CountRestart(t) BY <2>3, AgentAssumption DEF CountRestart
  <2>4. CASE GiveUp(t) BY <2>4 DEF GiveUp
  <2>5. CASE Backoff(t) BY <2>5 DEF Backoff
  <2>6. CASE NoArtifact(t) BY <2>6 DEF NoArtifact
  <2>7. CASE NoPort(t) BY <2>7, AgentAssumption DEF NoPort
  <2>8. ASSUME NEW n \in Task, Swap(t, n) PROVE RestartBudget'
    BY <2>8, AgentAssumption DEF Swap
  <2>9. CASE SwapTooLate(t) BY <2>9 DEF SwapTooLate
  <2>10. CASE CheckShutdown(t) BY <2>10 DEF CheckShutdown
  <2>11. CASE Rerun(t) BY <2>11 DEF Rerun
  <2>12. CASE CheckRestarted(t) BY <2>12 DEF CheckRestarted
  <2> QED BY <1>3, <2>1, <2>2, <2>3, <2>4, <2>5, <2>6, <2>7, <2>8, <2>9, <2>10,
            <2>11, <2>12 DEF Restarter
<1>4. ASSUME NEW t \in Task, ProcessEnds(t) PROVE RestartBudget' BY <1>4 DEF ProcessEnds
<1>5. ASSUME NEW r \in StopReq, Stopper(r) PROVE RestartBudget'
  <2>1. CASE RemoveBatch(r) BY <2>1 DEF RemoveBatch
  <2>2. ASSUME NEW t \in Task, StopOne(r, t) PROVE RestartBudget' BY <2>2 DEF StopOne
  <2> QED BY <1>5, <2>1, <2>2 DEF Stopper
<1>6. CASE Monitor
  <2>1. CASE MonitorSnapshot BY <2>1 DEF MonitorSnapshot
  <2>2. ASSUME NEW t \in Task, MonitorPass(t) PROVE RestartBudget'
    BY <2>2 DEF MonitorPass
  <2>3. ASSUME NEW t \in Task, NEW m \in {"Stopping", "Failed"},
             MonitorRestart(t, m) PROVE RestartBudget'
    BY <2>3 DEF MonitorRestart
  <2> QED BY <1>6, <2>1, <2>2, <2>3 DEF Monitor
<1>7. CASE Shutdown
  <2>1. CASE CloseShutdownCh BY <2>1 DEF CloseShutdownCh
  <2>2. CASE ShutdownMark BY <2>2 DEF ShutdownMark
  <2>3. CASE ShutdownRemove BY <2>3 DEF ShutdownRemove
  <2>4. ASSUME NEW t \in Task, ShutdownStop(t) PROVE RestartBudget'
    BY <2>4 DEF ShutdownStop
  <2>5. CASE Exit BY <2>5 DEF Exit
  <2> QED BY <1>7, <2>1, <2>2, <2>3, <2>4, <2>5 DEF Shutdown
<1>8. CASE UNCHANGED vars BY <1>8 DEF vars
<1> QED BY <1>1, <1>2, <1>3, <1>4, <1>5, <1>6, <1>7, <1>8 DEF Next

\* A step that takes a record away leaves a Stop owed, a ghost to clean up, or
\* nothing held.
LEMMA NoStrayStep ==
  ASSUME TypeOK, Unborn, NothingHeld, OneGoroutinePerTask, NoStrayProcess,
         [Next]_vars
  PROVE  NoStrayProcess'
<1> USE DEF NoStrayProcess, Unborn, NothingHeld, OneGoroutinePerTask, StopOwed,
      TypeOK, others, regVars, stopVars, Goto, Let, Return, NoLocals, Attempt, Mark,
      Claim, RunnerStop, RunnerRun, OpenReq, TasksOf, NoReq, goVars
<1>1. CASE Request
  <2>1. ASSUME NEW t \in Task, NEW v \in Version, NEW replace \in BOOLEAN,
             AcceptRun(t, v, replace) PROVE NoStrayProcess'
    BY <2>1 DEF AcceptRun
  <2>2. ASSUME NEW j \in Job, StoreJob(j) PROVE NoStrayProcess' BY <2>2 DEF StoreJob
  <2>3. ASSUME NEW j \in Job, DropJob(j) PROVE NoStrayProcess' BY <2>3 DEF DropJob
  <2>4. ASSUME NEW r \in StopReq, NEW t \in Task, StopTask(r, t) PROVE NoStrayProcess'
    BY <2>4 DEF StopTask
  <2>5. ASSUME NEW r \in StopReq, NEW j \in Job, StopJobTasks(r, j) PROVE NoStrayProcess'
    BY <2>5 DEF StopJobTasks
  <2>6. ASSUME NEW r \in StopReq, NEW j \in Job, DeleteJob(r, j) PROVE NoStrayProcess'
    <3>1. CASE OpenReq(r, TasksOf(j)) BY <3>1
    <3>2. CASE UNCHANGED <<tasks, proc, goVars, stopVars>> BY <3>2
    <3> QED BY <2>6, <3>1, <3>2 DEF DeleteJob
  <2>7. ASSUME NEW r \in StopReq, StopAllTasks(r) PROVE NoStrayProcess'
    BY <2>7 DEF StopAllTasks
  <2> QED BY <1>1, <2>1, <2>2, <2>3, <2>4, <2>5, <2>6, <2>7 DEF Request
<1>2. ASSUME NEW t \in Task, Starter(t) PROVE NoStrayProcess'
  <2>1. CASE RemovePredecessor(t) BY <2>1 DEF RemovePredecessor
  <2>2. CASE StopPredecessor(t) BY <2>2 DEF StopPredecessor
  <2>3. CASE CheckFresh(t) BY <2>3 DEF CheckFresh
  <2>4. CASE StartRun(t) BY <2>4 DEF StartRun
  <2>5. CASE CheckStarted(t) BY <2>5 DEF CheckStarted
  <2>6. CASE StartFailed(t) BY <2>6 DEF StartFailed
  <2>7. CASE DropTask(t) BY <2>7 DEF DropTask
  <2>8. CASE RemoveGhost(t) BY <2>8 DEF RemoveGhost
  <2>9. CASE StopGhost(t) BY <2>9 DEF StopGhost
  <2> QED BY <1>2, <2>1, <2>2, <2>3, <2>4, <2>5, <2>6, <2>7, <2>8, <2>9 DEF Starter
<1>3. ASSUME NEW t \in Task, Restarter(t) PROVE NoStrayProcess'
  <2>1. CASE CleanUp(t) BY <2>1 DEF CleanUp
  <2>2. CASE FindJob(t) BY <2>2 DEF FindJob
  <2>3. CASE CountRestart(t) BY <2>3 DEF CountRestart
  <2>4. CASE GiveUp(t) BY <2>4 DEF GiveUp
  <2>5. CASE Backoff(t) BY <2>5 DEF Backoff
  <2>6. CASE NoArtifact(t) BY <2>6 DEF NoArtifact
  <2>7. CASE NoPort(t) BY <2>7 DEF NoPort
  <2>8. ASSUME NEW n \in Task, Swap(t, n) PROVE NoStrayProcess'
    <3>1. /\ proc' = proc /\ UNCHANGED <<life, reqs, snap>>
          /\ proc[t] = "none" /\ proc[n] = "none"
      BY <2>8 DEF Swap
    <3>2. \A u \in Task \ {t, n} :
            pc'[u] = pc[u] /\ loc'[u] = loc[u] /\ (u \in tasks => u \in tasks')
      BY <2>8 DEF Swap
    <3>3. pc[t] # "replacing" /\ pc[n] # "replacing" BY <2>8 DEF Swap
    <3>4. ASSUME NEW u \in Task \ {t, n}, StopOwed(u) PROVE StopOwed(u)'
      BY <3>1, <3>2, <3>3, <3>4
    <3> QED BY <3>1, <3>2, <3>4
  <2>9. CASE SwapTooLate(t) BY <2>9 DEF SwapTooLate
  <2>10. CASE CheckShutdown(t) BY <2>10 DEF CheckShutdown
  <2>11. CASE Rerun(t) BY <2>11 DEF Rerun
  <2>12. CASE CheckRestarted(t) BY <2>12 DEF CheckRestarted
  <2> QED BY <1>3, <2>1, <2>2, <2>3, <2>4, <2>5, <2>6, <2>7, <2>8, <2>9, <2>10,
            <2>11, <2>12 DEF Restarter
<1>4. ASSUME NEW t \in Task, ProcessEnds(t) PROVE NoStrayProcess'
  BY <1>4 DEF ProcessEnds
<1>5. ASSUME NEW r \in StopReq, Stopper(r) PROVE NoStrayProcess'
  <2>1. CASE RemoveBatch(r) BY <2>1 DEF RemoveBatch
  <2>2. ASSUME NEW t \in Task, StopOne(r, t) PROVE NoStrayProcess' BY <2>2 DEF StopOne
  <2> QED BY <1>5, <2>1, <2>2 DEF Stopper
<1>6. CASE Monitor
  <2>1. CASE MonitorSnapshot BY <2>1 DEF MonitorSnapshot
  <2>2. ASSUME NEW t \in Task, MonitorPass(t) PROVE NoStrayProcess'
    BY <2>2 DEF MonitorPass
  <2>3. ASSUME NEW t \in Task, NEW m \in {"Stopping", "Failed"},
             MonitorRestart(t, m) PROVE NoStrayProcess'
    BY <2>3 DEF MonitorRestart
  <2> QED BY <1>6, <2>1, <2>2, <2>3 DEF Monitor
<1>7. CASE Shutdown
  <2>1. CASE CloseShutdownCh BY <2>1 DEF CloseShutdownCh
  <2>2. CASE ShutdownMark BY <2>2 DEF ShutdownMark
  <2>3. CASE ShutdownRemove BY <2>3 DEF ShutdownRemove
  <2>4. ASSUME NEW t \in Task, ShutdownStop(t) PROVE NoStrayProcess'
    BY <2>4 DEF ShutdownStop
  <2>5. CASE Exit BY <2>5 DEF Exit
  <2> QED BY <1>7, <2>1, <2>2, <2>3, <2>4, <2>5 DEF Shutdown
<1>8. CASE UNCHANGED vars BY <1>8 DEF vars
<1> QED BY <1>1, <1>2, <1>3, <1>4, <1>5, <1>6, <1>7, <1>8 DEF Next

\* A record is added for a new task only: startJob adds back what is still there.
LEMMA GoneStep ==
  ASSUME TypeOK, Unborn, ClaimIsSeen, ReservationKept, [Next]_vars
  PROVE  StaysGone
<1> USE DEF StaysGone, Unborn, ClaimIsSeen, ReservationKept, StartPC, RestartPC,
      TypeOK, others, regVars, stopVars, Goto, Let, Return, NoLocals, Attempt, Mark,
      Claim, RunnerStop, RunnerRun, OpenReq, TasksOf, NoReq, goVars
<1>1. CASE Request
  <2>1. ASSUME NEW t \in Task, NEW v \in Version, NEW replace \in BOOLEAN,
             AcceptRun(t, v, replace) PROVE StaysGone
    BY <2>1 DEF AcceptRun
  <2>2. ASSUME NEW j \in Job, StoreJob(j) PROVE StaysGone BY <2>2 DEF StoreJob
  <2>3. ASSUME NEW j \in Job, DropJob(j) PROVE StaysGone BY <2>3 DEF DropJob
  <2>4. ASSUME NEW r \in StopReq, NEW t \in Task, StopTask(r, t) PROVE StaysGone
    BY <2>4 DEF StopTask
  <2>5. ASSUME NEW r \in StopReq, NEW j \in Job, StopJobTasks(r, j) PROVE StaysGone
    BY <2>5 DEF StopJobTasks
  <2>6. ASSUME NEW r \in StopReq, NEW j \in Job, DeleteJob(r, j) PROVE StaysGone
    BY <2>6 DEF DeleteJob
  <2>7. ASSUME NEW r \in StopReq, StopAllTasks(r) PROVE StaysGone
    BY <2>7 DEF StopAllTasks
  <2> QED BY <1>1, <2>1, <2>2, <2>3, <2>4, <2>5, <2>6, <2>7 DEF Request
<1>2. ASSUME NEW t \in Task, Starter(t) PROVE StaysGone
  <2>1. CASE RemovePredecessor(t) BY <2>1 DEF RemovePredecessor
  <2>2. CASE StopPredecessor(t) BY <2>2 DEF StopPredecessor
  <2>3. CASE CheckFresh(t) BY <2>3 DEF CheckFresh
  <2>4. CASE StartRun(t) BY <2>4 DEF StartRun
  <2>5. CASE CheckStarted(t) BY <2>5 DEF CheckStarted
  <2>6. CASE StartFailed(t) BY <2>6 DEF StartFailed
  <2>7. CASE DropTask(t) BY <2>7 DEF DropTask
  <2>8. CASE RemoveGhost(t) BY <2>8 DEF RemoveGhost
  <2>9. CASE StopGhost(t) BY <2>9 DEF StopGhost
  <2> QED BY <1>2, <2>1, <2>2, <2>3, <2>4, <2>5, <2>6, <2>7, <2>8, <2>9 DEF Starter
<1>3. ASSUME NEW t \in Task, Restarter(t) PROVE StaysGone
  <2>1. CASE CleanUp(t) BY <2>1 DEF CleanUp
  <2>2. CASE FindJob(t) BY <2>2 DEF FindJob
  <2>3. CASE CountRestart(t) BY <2>3 DEF CountRestart
  <2>4. CASE GiveUp(t) BY <2>4 DEF GiveUp
  <2>5. CASE Backoff(t) BY <2>5 DEF Backoff
  <2>6. CASE NoArtifact(t) BY <2>6 DEF NoArtifact
  <2>7. CASE NoPort(t) BY <2>7 DEF NoPort
  <2>8. ASSUME NEW n \in Task, Swap(t, n) PROVE StaysGone BY <2>8 DEF Swap
  <2>9. CASE SwapTooLate(t) BY <2>9 DEF SwapTooLate
  <2>10. CASE CheckShutdown(t) BY <2>10 DEF CheckShutdown
  <2>11. CASE Rerun(t) BY <2>11 DEF Rerun
  <2>12. CASE CheckRestarted(t) BY <2>12 DEF CheckRestarted
  <2> QED BY <1>3, <2>1, <2>2, <2>3, <2>4, <2>5, <2>6, <2>7, <2>8, <2>9, <2>10,
            <2>11, <2>12 DEF Restarter
<1>4. ASSUME NEW t \in Task, ProcessEnds(t) PROVE StaysGone BY <1>4 DEF ProcessEnds
<1>5. ASSUME NEW r \in StopReq, Stopper(r) PROVE StaysGone
  <2>1. CASE RemoveBatch(r) BY <2>1 DEF RemoveBatch
  <2>2. ASSUME NEW t \in Task, StopOne(r, t) PROVE StaysGone BY <2>2 DEF StopOne
  <2> QED BY <1>5, <2>1, <2>2 DEF Stopper
<1>6. CASE Monitor
  <2>1. CASE MonitorSnapshot BY <2>1 DEF MonitorSnapshot
  <2>2. ASSUME NEW t \in Task, MonitorPass(t) PROVE StaysGone BY <2>2 DEF MonitorPass
  <2>3. ASSUME NEW t \in Task, NEW m \in {"Stopping", "Failed"},
             MonitorRestart(t, m) PROVE StaysGone
    BY <2>3 DEF MonitorRestart
  <2> QED BY <1>6, <2>1, <2>2, <2>3 DEF Monitor
<1>7. CASE Shutdown
  <2>1. CASE CloseShutdownCh BY <2>1 DEF CloseShutdownCh
  <2>2. CASE ShutdownMark BY <2>2 DEF ShutdownMark
  <2>3. CASE ShutdownRemove BY <2>3 DEF ShutdownRemove
  <2>4. ASSUME NEW t \in Task, ShutdownStop(t) PROVE StaysGone BY <2>4 DEF ShutdownStop
  <2>5. CASE Exit BY <2>5 DEF Exit
  <2> QED BY <1>7, <2>1, <2>2, <2>3, <2>4, <2>5 DEF Shutdown
<1>8. CASE UNCHANGED vars BY <1>8 DEF vars
<1> QED BY <1>1, <1>2, <1>3, <1>4, <1>5, <1>6, <1>7, <1>8 DEF Next

LEMMA IndInit == Init => IndInv
<1> SUFFICES ASSUME Init PROVE IndInv
  OBVIOUS
<1>1. TypeOK BY InitType
<1>2. Unborn /\ NothingHeld /\ WorkIsClaimed /\ ClaimIsSeen /\ MonitorKnows
  BY DEF Init, Unborn, NothingHeld, WorkIsClaimed, ClaimIsSeen, MonitorKnows,
         NoLocals, Attempt, NoReq
<1>3. OneGoroutinePerTask /\ ReservationKept /\ NoRestartPastShutdown
  BY DEF Init, OneGoroutinePerTask, ReservationKept, NoRestartPastShutdown,
         StartPC, RestartPC
<1>4. BudgetLeft /\ RestartBudget /\ NoStrayProcess
  BY AgentAssumption DEF Init, BudgetLeft, RestartBudget, NoStrayProcess
<1> QED BY <1>1, <1>2, <1>3, <1>4 DEF IndInv

LEMMA IndStep == IndInv /\ [Next]_vars => IndInv'
BY TypeStep, UnbornStep, NothingHeldStep, WorkIsClaimedStep, ClaimIsSeenStep,
   MonitorKnowsStep, OneGoroutineStep, ReservationStep, ShutdownStep, BudgetLeftStep,
   BudgetStep, NoStrayStep
   DEF IndInv

\* What the goroutines rely on of each other, all of it at once: a mark that is there is
\* seen by the start it is meant for, what is held was asked for, whoever owes a Stop has
\* its tasks claimed, and the budget that was checked is still there at the swap.
THEOREM Inductive == Spec => []IndInv
BY IndInit, IndStep, PTL DEF Spec
-----------------------------------------------------------------------------
(* The theorems.                                                           *)

\* The agent's maps, the goroutines' positions and variables, and the requests
\* stay within their types, whatever the interleaving.
THEOREM TypeCorrect == Spec => []TypeOK
BY InitType, TypeStep, PTL DEF Spec

\* However starts, restarts, stops, deletes, replaces, the monitor and shutdown
\* interleave, the runner never holds a task nobody will look at again.
THEOREM NoStray == Spec => []NoStrayProcess
<1>1. IndInv => NoStrayProcess BY DEF IndInv
<1> QED BY <1>1, Inductive, PTL

\* A removed task record never comes back: startJob's and restartTask's last
\* operations, which write through a pointer they held during a slow Run, do not
\* bring back what a stop or delete has removed meanwhile.
THEOREM GoneForever == Spec => GoneIsFinal
<1>1. IndInv /\ [Next]_vars => [StaysGone]_vars
  BY GoneStep DEF IndInv
<1> QED BY <1>1, Inductive, PTL DEF Spec, GoneIsFinal

\* The monitor never starts a second restart goroutine for a task.
THEOREM SingleGoroutine == Spec => []OneGoroutinePerTask
<1>1. IndInv => OneGoroutinePerTask BY DEF IndInv
<1> QED BY <1>1, Inductive, PTL

\* max_restarts is never exceeded by restartTask.
THEOREM BudgetKept == Spec => []RestartBudget
<1>1. IndInv => RestartBudget BY DEF IndInv
<1> QED BY <1>1, Inductive, PTL

\* No replacement is started behind the back of the agent's shutdown.
THEOREM ShutdownSeesAll == Spec => []NoRestartPastShutdown
<1>1. IndInv => NoRestartPastShutdown BY DEF IndInv
<1> QED BY <1>1, Inductive, PTL

\* A task keeps its capacity reservation from /run until it is claimed or its
\* goroutine gives it up.
THEOREM ReservationHeld == Spec => []ReservationKept
<1>1. IndInv => ReservationKept BY DEF IndInv
<1> QED BY <1>1, Inductive, PTL
=============================================================================
