----------------------------- MODULE AgentTasks -----------------------------
(***************************************************************************)
(* The life of a task on one agent (internal/agent).  The agent keeps its  *)
(* jobs and tasks in maps owned by one goroutine, the state loop; every    *)
(* other goroutine works on them one operation at a time.  Between two     *)
(* operations of one goroutine - while an artifact downloads, a process is *)
(* being killed, a restart backs off - the others go on, and this module   *)
(* is about what they can do to each other:                                *)
(*   - a start goroutine per accepted /run, which may first have to stop   *)
(*     the predecessors it replaces;                                       *)
(*   - a restart goroutine per crash, which swaps the task for a new one;  *)
(*   - stop requests (/stop-task, /stop, /delete, isolation), each of them *)
(*     mark, then remove, then runner.Stop;                                *)
(*   - the monitor, which works through a snapshot of the running tasks;   *)
(*   - shutdown, after which the process is gone and its goroutines too.   *)
(*                                                                         *)
(* One step is one operation of the state loop or one call of the runner.  *)
(* Admission (capacity) is the subject of AgentCapacity; here a /run that  *)
(* is refused is no step at all.                                           *)
(***************************************************************************)
EXTENDS Integers, FiniteSets

CONSTANTS Job,          \* job names
          Task,         \* task IDs; each is used for one task only
          JobOf,        \* Task.JobName of each (IDs are random: no loss)
          StopReq,      \* stop requests in flight, at most one per element
          MaxRestarts,  \* the job's max_restarts (a finite budget)
          MaxVersion,   \* bound: versions of a job definition submitted
          NoTask,       \* stands for a nil *types.Task
          Leads,        \* whether this node leads, so that the leader uses its
                        \* job map as the cluster's JobStore
          MayShutDown   \* whether the environment cancels the agent's context

ASSUME AgentAssumption ==
  /\ JobOf \in [Task -> Job]
  /\ MaxRestarts \in Nat
  /\ MaxVersion \in Nat
  /\ NoTask \notin Task
  /\ Leads \in BOOLEAN
  /\ MayShutDown \in BOOLEAN

Version == 0 .. MaxVersion       \* 0: the job has no record

Status == {"unborn", "Queued", "Running", "Stopping", "Failed"}

\* What the runner holds for a task: nothing (yet, or any more), a live process,
\* or the bookkeeping of one that ended or did not get started.
Proc == {"none", "up", "ended"}

\* Where the goroutine that starts or restarts a task stands.  First the
\* start goroutine, then restartTask, then what both have in common.
StartPC   == {"replace", "replacing", "fresh", "run", "started", "startFailed"}
RestartPC == {"cleanup", "decide", "count", "giveUp", "backoff", "swap",
              "published", "rerun", "restarted", "rerunFailed"}
CommonPC  == {"idle", "drop", "ghost", "ghostStop"}
PC == StartPC \cup RestartPC \cup CommonPC

VARIABLES
  jobs,      \* agentState.jobs: the version of each definition, 0 if absent
  tasks,     \* the IDs in agentState.tasks
  status,    \* Task.State, readable through the pointer after removal too
  restarts,  \* Task.RestartCount
  proc,      \* the runner's side of each task
  pc,        \* the goroutine working on each task
  loc,       \* that goroutine's local variables
  reqs,      \* the stop requests: phase and the tasks they claimed
  monSnap,   \* rest of the snapshot checkTasks is working through
  life,      \* the agent process
  snap,      \* the tasks shutdown found
  claimed,   \* history: tasks some stop, delete, replace or shutdown marked
  newest     \* history: the newest version submitted for each job

regVars  == <<jobs, tasks, status, restarts>>
goVars   == <<pc, loc>>
stopVars == <<reqs, life, snap>>
vars == <<regVars, proc, goVars, stopVars, monSnap, claimed, newest>>

\* What goroutines that start and restart tasks leave alone.
others == <<stopVars, monSnap, claimed, newest>>

\* def: the version of the job definition a start goroutine will write; ran:
\* restartTask's parameter, the previous attempt really ran; olds: predecessors a
\* start goroutine has still to stop; pred: the one whose runner.Stop is under way.
Locals == [def : Version, ran : BOOLEAN, olds : SUBSET Task,
           pred : Task \cup {NoTask}]
Attempt(v, ran, olds, pred) == [def |-> v, ran |-> ran, olds |-> olds, pred |-> pred]
NoLocals == Attempt(0, FALSE, {}, NoTask)

NoReq == [phase |-> "idle", batch |-> {}]

TypeOK ==
  /\ jobs \in [Job -> Version]
  /\ tasks \subseteq Task
  /\ status \in [Task -> Status]
  /\ restarts \in [Task -> Nat]
  /\ proc \in [Task -> Proc]
  /\ pc \in [Task -> PC]
  /\ loc \in [Task -> Locals]
  /\ reqs \in [StopReq -> [phase : {"idle", "marked", "stopping"},
                           batch : SUBSET Task]]
  /\ monSnap \subseteq Task
  /\ life \in {"running", "closing", "marked", "stopping", "exited"}
  /\ snap \subseteq Task
  /\ claimed \subseteq Task
  /\ newest \in [Job -> Version]

Init ==
  /\ jobs = [j \in Job |-> 0]
  /\ tasks = {}
  /\ status = [t \in Task |-> "unborn"]
  /\ restarts = [t \in Task |-> 0]
  /\ proc = [t \in Task |-> "none"]
  /\ pc = [t \in Task |-> "idle"]
  /\ loc = [t \in Task |-> NoLocals]
  /\ reqs = [r \in StopReq |-> NoReq]
  /\ monSnap = {}
  /\ life = "running"
  /\ snap = {}
  /\ claimed = {}
  /\ newest = [j \in Job |-> 0]
-----------------------------------------------------------------------------
(* Helpers.                                                                *)

TasksOf(j) == {t \in tasks : JobOf[t] = j}

\* State-loop operation that sets the state of the tasks in S.
Mark(S, s) == status' = [t \in Task |-> IF t \in S THEN s ELSE status[t]]

\* ... and claims them for a stop, delete, replace or shutdown.
Claim(S) ==
  /\ Mark(S, "Stopping")
  /\ claimed' = claimed \cup S

\* runner.Stop makes its one attempt: whatever it held for the task is freed,
\* or kept in the runner's own quarantine.  For a task it does not know, because
\* Run has not registered it yet, it does nothing.
RunnerStop(t) == proc' = [proc EXCEPT ![t] = "none"]

\* Goroutine t moves on to p; it may assign to its local variables.
Goto(t, p) == pc' = [pc EXCEPT ![t] = p] /\ UNCHANGED loc
Let(t, p, l) == pc' = [pc EXCEPT ![t] = p] /\ loc' = [loc EXCEPT ![t] = l]

\* The goroutine ends, and its local variables with it.
Return(t) == Let(t, "idle", NoLocals)

\* runner.Run, up to the moment it returns: the process is up and registered;
\* or an error, which may leave something of the attempt for Stop to clean up;
\* or ErrNoCapacity, and then the runner has already released its cage.
RunnerRun(t, up, failed) ==
  \/ proc' = [proc EXCEPT ![t] = "up"] /\ Goto(t, up)
  \/ proc' \in {proc, [proc EXCEPT ![t] = "ended"]} /\ Goto(t, failed)
  \/ UNCHANGED proc /\ Goto(t, "drop")

-----------------------------------------------------------------------------
(* Requests.                                                               *)

\* The state operation of handleRun that admits task t with version v of its
\* job; with replace the job's present tasks are claimed and become the
\* predecessors the start goroutine stops first.
AcceptRun(t, v, replace) ==
  LET j == JobOf[t]
      old == IF replace THEN TasksOf(j) ELSE {}
  IN  /\ life # "exited"
      /\ status[t] = "unborn"
      /\ v \in {newest[j], newest[j] + 1} \cap (1 .. MaxVersion)
      /\ newest' = [newest EXCEPT ![j] = v]
      /\ jobs' = [jobs EXCEPT ![j] = v]
      /\ tasks' = tasks \cup {t}
      /\ status' = [u \in Task |-> IF u = t THEN "Queued"
                                  ELSE IF u \in old THEN "Stopping" ELSE status[u]]
      /\ claimed' = claimed \cup old
      /\ Let(t, "replace", Attempt(v, FALSE, old, NoTask))
      /\ UNCHANGED <<restarts, proc, stopVars, monSnap>>

\* JobStore.StoreJob, when this node leads: a new definition, no task.
StoreJob(j) ==
  /\ Leads /\ life # "exited"
  /\ newest[j] < MaxVersion
  /\ newest' = [newest EXCEPT ![j] = @ + 1]
  /\ jobs' = [jobs EXCEPT ![j] = newest[j] + 1]
  /\ UNCHANGED <<tasks, status, restarts, proc, goVars, stopVars, monSnap, claimed>>

\* JobStore.DeleteJob, when this node leads: the definition only.
DropJob(j) ==
  /\ Leads /\ life # "exited"
  /\ jobs' = [jobs EXCEPT ![j] = 0]
  /\ UNCHANGED <<tasks, status, restarts, proc, goVars, stopVars, monSnap,
                 claimed, newest>>

\* The marking operation of a stop request: request r claims the tasks in S.
OpenReq(r, S) ==
  /\ life # "exited"
  /\ reqs[r].phase = "idle"
  /\ S # {}
  /\ reqs' = [reqs EXCEPT ![r] = [phase |-> "marked", batch |-> S]]
  /\ Claim(S)
  /\ UNCHANGED <<tasks, restarts, proc, goVars, life, snap, monSnap, newest>>

\* handleStopTask, stopJobTasks (preemption) and StopAllTasks (isolation)
\* leave the definition; deleteJob removes it in the same operation.
StopTask(r, t)   == t \in tasks /\ OpenReq(r, {t}) /\ UNCHANGED jobs
StopJobTasks(r, j) == OpenReq(r, TasksOf(j)) /\ UNCHANGED jobs
StopAllTasks(r)  == OpenReq(r, tasks) /\ UNCHANGED jobs

DeleteJob(r, j) ==
  /\ life # "exited"
  /\ jobs' = [jobs EXCEPT ![j] = 0]
  /\ \/ OpenReq(r, TasksOf(j))
     \/ /\ TasksOf(j) = {}
        /\ UNCHANGED <<tasks, status, restarts, proc, goVars, stopVars, monSnap,
                       claimed, newest>>

\* stopTasks and stopAndRemove: first the records go, in one operation ...
RemoveBatch(r) ==
  /\ reqs[r].phase = "marked"
  /\ tasks' = tasks \ reqs[r].batch
  /\ reqs' = [reqs EXCEPT ![r] = [phase |-> "stopping", batch |-> @.batch]]
  /\ UNCHANGED <<jobs, status, restarts, proc, goVars, life, snap, monSnap,
                 claimed, newest>>

\* ... and then runner.Stop of each, in parallel.
StopOne(r, t) ==
  /\ reqs[r].phase = "stopping"
  /\ t \in reqs[r].batch
  /\ RunnerStop(t)
  /\ reqs' = [reqs EXCEPT ![r] = IF @.batch = {t} THEN NoReq
                                 ELSE [phase |-> "stopping", batch |-> @.batch \ {t}]]
  /\ UNCHANGED <<regVars, goVars, life, snap, monSnap, claimed, newest>>

-----------------------------------------------------------------------------
(* The start goroutine of handleRun, and startJob.                         *)

\* Replace: stopAndRemove of one predecessor after the other - the record ...
RemovePredecessor(t) ==
  /\ pc[t] = "replace"
  /\ \/ loc[t].olds = {} /\ Goto(t, "fresh") /\ UNCHANGED tasks
     \/ \E o \in loc[t].olds :
          /\ tasks' = tasks \ {o}
          /\ Let(t, "replacing", Attempt(loc[t].def, FALSE, loc[t].olds \ {o}, o))
  /\ UNCHANGED <<jobs, status, restarts, proc, others>>

\* ... and then its runner.Stop.
StopPredecessor(t) ==
  /\ pc[t] = "replacing"
  /\ RunnerStop(loc[t].pred)
  /\ Let(t, "replace", Attempt(loc[t].def, FALSE, loc[t].olds, NoTask))
  /\ UNCHANGED <<regVars, others>>

\* startJob registers the definition unless the task was claimed meanwhile.
CheckFresh(t) ==
  /\ pc[t] = "fresh"
  /\ IF status[t] = "Stopping"
     THEN Return(t) /\ UNCHANGED jobs
     ELSE Goto(t, "run") /\ jobs' = [jobs EXCEPT ![JobOf[t]] = loc[t].def]
  /\ UNCHANGED <<tasks, status, restarts, proc, others>>

\* No artifact matches or no port is free: the start fails without a process;
\* otherwise the runner runs it.
StartRun(t) ==
  /\ pc[t] = "run"
  /\ RunnerRun(t, "started", "startFailed")
  /\ UNCHANGED <<regVars, others>>

\* Mutant: nobody looks at the task's state after runner.Run.
CheckStartedBlindly(t) ==
  /\ pc[t] = "started"
  /\ jobs' = [jobs EXCEPT ![JobOf[t]] = loc[t].def]
  /\ Mark({t}, "Running") /\ tasks' = tasks \cup {t} /\ Return(t)
  /\ UNCHANGED <<restarts, proc, others>>

\* The post-run operation: a task whose job is gone, or that was claimed while
\* it started, is a ghost; any other is stored and Running.
CheckStarted(t) ==
  /\ pc[t] = "started"
  /\ \/ /\ jobs[JobOf[t]] = 0
        /\ Goto(t, "ghost")
        /\ UNCHANGED <<jobs, tasks, status>>
     \/ /\ jobs[JobOf[t]] # 0
        /\ jobs' = [jobs EXCEPT ![JobOf[t]] = loc[t].def]
        /\ IF status[t] = "Stopping"
           THEN Goto(t, "ghost") /\ UNCHANGED <<tasks, status>>
           ELSE Mark({t}, "Running") /\ tasks' = tasks \cup {t} /\ Return(t)
  /\ UNCHANGED <<restarts, proc, others>>

\* A failed start, first or not, is marked and then goes through restartTask
\* with ran = false.
StartFailed(t) ==
  /\ pc[t] \in {"startFailed", "rerunFailed"}
  /\ Mark({t} \cap tasks, "Failed")
  /\ Let(t, "cleanup", NoLocals)
  /\ UNCHANGED <<jobs, tasks, restarts, proc, others>>

\* Mutant: the goroutine gives up and leaves the record.
DropNothing(t) ==
  /\ pc[t] = "drop"
  /\ Return(t)
  /\ UNCHANGED <<regVars, proc, others>>

\* The record goes and the goroutine ends: releaseUnplaceable, and restartTask
\* when the job is gone or shutdown is under way.
DropTask(t) ==
  /\ pc[t] = "drop"
  /\ tasks' = tasks \ {t}
  /\ Return(t)
  /\ UNCHANGED <<jobs, status, restarts, proc, others>>

\* stopAndRemove of a ghost: the record, then the runner.
RemoveGhost(t) ==
  /\ pc[t] = "ghost"
  /\ tasks' = tasks \ {t}
  /\ Goto(t, "ghostStop")
  /\ UNCHANGED <<jobs, status, restarts, proc, others>>

StopGhost(t) ==
  /\ pc[t] = "ghostStop"
  /\ RunnerStop(t)
  /\ Return(t)
  /\ UNCHANGED <<regVars, others>>

-----------------------------------------------------------------------------
(* restartTask.                                                            *)

\* Mutant: cleaning up goes through stopAndRemove.
CleanUpAndRemove(t) ==
  /\ pc[t] = "cleanup"
  /\ RunnerStop(t)
  /\ tasks' = tasks \ {t}
  /\ Goto(t, "decide")
  /\ UNCHANGED <<jobs, status, restarts, others>>

\* Mutant: the previous attempt is not released.
CleanUpNothing(t) ==
  /\ pc[t] = "cleanup"
  /\ Goto(t, "decide")
  /\ UNCHANGED <<regVars, proc, others>>

\* One attempt to release what the previous run left.
CleanUp(t) ==
  /\ pc[t] = "cleanup"
  /\ RunnerStop(t)
  /\ Goto(t, "decide")
  /\ UNCHANGED <<regVars, others>>

\* GetJob: without a job the task goes too.
FindJob(t) ==
  /\ pc[t] = "decide"
  /\ Goto(t, IF jobs[JobOf[t]] = 0 THEN "drop" ELSE "count")
  /\ UNCHANGED <<regVars, proc, others>>

\* Mutant: one restart too many.
CountOneMore(t) ==
  /\ pc[t] = "count"
  /\ UNCHANGED restarts
  /\ IF (IF t \in tasks THEN restarts[t] ELSE 0) > MaxRestarts
     THEN Goto(t, "giveUp") ELSE Goto(t, "backoff")
  /\ UNCHANGED <<jobs, tasks, status, proc, others>>

\* The restart counter decides.  An attempt that ran for longer than the restart
\* window starts a new count; a task that is gone counts as never restarted.
CountRestart(t) ==
  /\ pc[t] = "count"
  /\ \/ UNCHANGED restarts
     \/ t \in tasks /\ loc[t].ran /\ restarts' = [restarts EXCEPT ![t] = 0]
  /\ IF (IF t \in tasks THEN restarts'[t] ELSE 0) >= MaxRestarts
     THEN Goto(t, "giveUp") ELSE Goto(t, "backoff")
  /\ UNCHANGED <<jobs, tasks, status, proc, others>>

\* The budget is spent, or no artifact matches this node: the task has failed.
GiveUp(t) ==
  /\ pc[t] = "giveUp"
  /\ Mark({t} \cap tasks, "Failed")
  /\ Return(t)
  /\ UNCHANGED <<jobs, tasks, restarts, proc, others>>

\* waitRestart and the check of shutdownCh before the swap.
Backoff(t) ==
  /\ pc[t] = "backoff"
  /\ IF life = "running" THEN Goto(t, "swap") ELSE Return(t)
  /\ UNCHANGED <<regVars, proc, others>>

\* After the wait no artifact matches this node.
NoArtifact(t) ==
  /\ pc[t] = "backoff"
  /\ Goto(t, "giveUp")
  /\ UNCHANGED <<regVars, proc, others>>

\* A fixed port is taken: the attempt counts, nothing has to be cleaned up.
NoPort(t) ==
  /\ pc[t] = "backoff"
  /\ restarts' = [u \in Task |-> IF u \in {t} \cap tasks THEN restarts[u] + 1
                                                         ELSE restarts[u]]
  /\ Let(t, "decide", NoLocals)
  /\ UNCHANGED <<jobs, tasks, status, proc, others>>

\* Mutant: the replacement's count goes down.
SwapCountsDown(t, n) ==
  /\ pc[t] = "swap"
  /\ t \in tasks
  /\ status[n] = "unborn" /\ JobOf[n] = JobOf[t]
  /\ tasks' = (tasks \ {t}) \cup {n}
  /\ Mark({n}, "Queued")
  /\ restarts' = [restarts EXCEPT ![n] = restarts[t] - 1]
  /\ pc' = [pc EXCEPT ![t] = "idle", ![n] = "published"]
  /\ loc' = [loc EXCEPT ![t] = NoLocals, ![n] = NoLocals]
  /\ UNCHANGED <<jobs, proc, others>>

\* The atomic swap: replacement n takes the place of t, if t is still there.
Swap(t, n) ==
  /\ pc[t] = "swap"
  /\ t \in tasks
  /\ status[n] = "unborn" /\ JobOf[n] = JobOf[t]
  /\ tasks' = (tasks \ {t}) \cup {n}
  /\ Mark({n}, "Queued")
  /\ restarts' = [restarts EXCEPT ![n] = restarts[t] + 1]
  /\ pc' = [pc EXCEPT ![t] = "idle", ![n] = "published"]
  /\ loc' = [loc EXCEPT ![t] = NoLocals, ![n] = NoLocals]
  /\ UNCHANGED <<jobs, proc, others>>

SwapTooLate(t) ==
  /\ pc[t] = "swap"
  /\ t \notin tasks
  /\ Return(t)
  /\ UNCHANGED <<regVars, proc, others>>

\* Mutant: no second look.
CheckNothing(t) ==
  /\ pc[t] = "published"
  /\ Goto(t, "rerun")
  /\ UNCHANGED <<regVars, proc, others>>

\* The second look at shutdownCh, after the replacement became visible.
CheckShutdown(t) ==
  /\ pc[t] = "published"
  /\ Goto(t, IF life = "running" THEN "rerun" ELSE "drop")
  /\ UNCHANGED <<regVars, proc, others>>

Rerun(t) ==
  /\ pc[t] = "rerun"
  /\ RunnerRun(t, "restarted", "rerunFailed")
  /\ UNCHANGED <<regVars, others>>

\* Mutant: no ghost guard after the runner's Run of a replacement.
CheckRestartedBlindly(t) ==
  /\ pc[t] = "restarted"
  /\ Mark({t} \cap tasks, "Running") /\ Return(t)
  /\ UNCHANGED <<jobs, tasks, restarts, proc, others>>

CheckRestarted(t) ==
  /\ pc[t] = "restarted"
  /\ IF t \in tasks /\ status[t] # "Stopping"
     THEN Mark({t}, "Running") /\ Return(t)
     ELSE Goto(t, "ghost") /\ UNCHANGED status
  /\ UNCHANGED <<jobs, tasks, restarts, proc, others>>

-----------------------------------------------------------------------------
(* The monitor goroutine, and processes ending by themselves.              *)

ProcessEnds(t) ==
  /\ proc[t] = "up"
  /\ proc' = [proc EXCEPT ![t] = "ended"]
  /\ UNCHANGED <<regVars, goVars, stopVars, monSnap, claimed, newest>>

\* checkTasks takes its snapshot of the running tasks ...
MonitorSnapshot ==
  /\ life = "running"
  /\ monSnap = {}
  /\ monSnap' = {t \in tasks : status[t] = "Running"}
  /\ UNCHANGED <<regVars, proc, goVars, stopVars, claimed, newest>>

\* ... and looks at each: all is well or the status cannot be read, or it
\* crashed, or it is unhealthy (which a task can be whatever its process does).
\* The record may be gone by then.
MonitorPass(t) ==
  /\ t \in monSnap
  /\ monSnap' = monSnap \ {t}
  /\ UNCHANGED <<regVars, proc, goVars, stopVars, claimed, newest>>

\* Mutant: a crash leaves the task Running while it is restarted.
MonitorRestartUnmarked(t, mark) ==
  /\ t \in monSnap
  /\ mark = "Stopping" => proc[t] # "up"
  /\ monSnap' = monSnap \ {t}
  /\ Let(t, "cleanup", Attempt(0, TRUE, {}, NoTask))
  /\ UNCHANGED <<regVars, proc, stopVars, claimed, newest>>

MonitorRestart(t, mark) ==
  /\ t \in monSnap
  /\ mark = "Stopping" => proc[t] # "up"
  /\ monSnap' = monSnap \ {t}
  /\ Mark({t} \cap tasks, mark)
  /\ Let(t, "cleanup", Attempt(0, TRUE, {}, NoTask))
  /\ UNCHANGED <<jobs, tasks, restarts, proc, stopVars, claimed, newest>>

-----------------------------------------------------------------------------
(* Shutdown: close shutdownCh, mark, remove, stop; then Run returns, main  *)
(* returns, and every goroutine still at work is gone.                     *)

CloseShutdownCh ==
  /\ MayShutDown /\ life = "running"
  /\ life' = "closing"
  /\ UNCHANGED <<regVars, proc, goVars, reqs, snap, monSnap, claimed, newest>>

ShutdownMark ==
  /\ life = "closing"
  /\ life' = "marked"
  /\ snap' = tasks
  /\ Claim(tasks)
  /\ UNCHANGED <<jobs, tasks, restarts, proc, goVars, reqs, monSnap, newest>>

ShutdownRemove ==
  /\ life = "marked"
  /\ life' = "stopping"
  /\ tasks' = tasks \ snap
  /\ UNCHANGED <<jobs, status, restarts, proc, goVars, reqs, snap, monSnap,
                 claimed, newest>>

ShutdownStop(t) ==
  /\ life = "stopping" /\ t \in snap
  /\ RunnerStop(t)
  /\ snap' = snap \ {t}
  /\ UNCHANGED <<regVars, goVars, reqs, life, monSnap, claimed, newest>>

Exit ==
  /\ life = "stopping" /\ snap = {}
  /\ life' = "exited"
  /\ pc' = [t \in Task |-> "idle"]
  /\ loc' = [t \in Task |-> NoLocals]
  /\ reqs' = [r \in StopReq |-> NoReq]
  /\ monSnap' = {}
  /\ UNCHANGED <<regVars, proc, snap, claimed, newest>>

-----------------------------------------------------------------------------
Request ==
  \/ \E t \in Task, v \in Version, replace \in BOOLEAN : AcceptRun(t, v, replace)
  \/ \E j \in Job : StoreJob(j) \/ DropJob(j)
  \/ \E r \in StopReq :
       \/ \E t \in Task : StopTask(r, t)
       \/ \E j \in Job : StopJobTasks(r, j) \/ DeleteJob(r, j)
       \/ StopAllTasks(r)

Starter(t) == \/ RemovePredecessor(t) \/ StopPredecessor(t)
              \/ CheckFresh(t) \/ StartRun(t) \/ CheckStarted(t) \/ StartFailed(t)
              \/ DropTask(t) \/ RemoveGhost(t) \/ StopGhost(t)

Restarter(t) == \/ CleanUp(t) \/ FindJob(t) \/ CountRestart(t) \/ GiveUp(t)
                \/ Backoff(t) \/ NoArtifact(t) \/ NoPort(t)
                \/ \E n \in Task : Swap(t, n)
                \/ SwapTooLate(t) \/ CheckShutdown(t)
                \/ Rerun(t) \/ CheckRestarted(t)

Stopper(r) == RemoveBatch(r) \/ \E t \in Task : StopOne(r, t)

Monitor == \/ MonitorSnapshot
           \/ \E t \in Task : \/ MonitorPass(t)
                              \/ \E m \in {"Stopping", "Failed"} : MonitorRestart(t, m)

Shutdown == \/ CloseShutdownCh \/ ShutdownMark \/ ShutdownRemove
            \/ \E t \in Task : ShutdownStop(t)
            \/ Exit

Next ==
  \/ Request
  \/ \E t \in Task : Starter(t) \/ Restarter(t) \/ ProcessEnds(t)
  \/ \E r \in StopReq : Stopper(r)
  \/ Monitor
  \/ Shutdown

Spec == Init /\ [][Next]_vars

\* Goroutines are scheduled, and every call they make returns: the runner's
\* budgets for stopping are finite, and a download that hangs times out.
\* Requests, crashes, the monitor's verdicts and the signal to shut down are up to
\* others; once it has begun, shutdown goes on.
FairSpec ==
  /\ Spec
  /\ \A t \in Task : WF_vars(Starter(t) \/ Restarter(t))
  /\ \A r \in StopReq : WF_vars(Stopper(r))
  /\ WF_vars(ShutdownMark \/ ShutdownRemove \/ (\E t \in Task : ShutdownStop(t)) \/ Exit)
-----------------------------------------------------------------------------
(* Properties.                                                             *)

\* A runner.Stop of t that some goroutine has still to make or to finish.
StopOwed(t) ==
  \/ \E r \in StopReq : reqs[r].phase = "stopping" /\ t \in reqs[r].batch
  \/ \E s \in Task : pc[s] = "replacing" /\ loc[s].pred = t
  \/ life = "stopping" /\ t \in snap
  \/ pc[t] \in {"cleanup", "ghostStop"}

\* Whatever the runner holds is accounted for: its task is in the map, or a
\* goroutine is about to decide on it, or a Stop is owed.  This is what the
\* ghost guards after Run are for: a stop that crosses a start finds nothing
\* to stop, and the start must then undo itself.
NoStrayProcess ==
  \A t \in Task : life # "exited" /\ proc[t] # "none" =>
    \/ t \in tasks
    \/ pc[t] \in {"started", "restarted", "startFailed", "rerunFailed", "ghost"}
    \/ StopOwed(t)

\* GONE is final: once its record was removed, a task never returns to the map,
\* whichever goroutine still holds a pointer to it.
StaysGone ==
  \A t \in Task : status[t] # "unborn" /\ t \notin tasks => t \notin tasks'
GoneIsFinal == [][StaysGone]_vars

\* A running task has no goroutine at work on it, nor has a task the monitor
\* is still to look at: a crash is restarted once, by one goroutine.
OneGoroutinePerTask ==
  \A t \in Task : \/ t \in tasks /\ status[t] = "Running"
                  \/ t \in monSnap
    => pc[t] = "idle"

\* max_restarts bounds the restarts of a lineage, failed starts, busy ports and
\* changes of hands between goroutines included.
RestartBudget == \A t \in Task : restarts[t] <= MaxRestarts

\* Whatever restartTask runs once shutdown has taken its snapshot is in that
\* snapshot or was claimed before: no restart slips past shutdown.
NoRestartPastShutdown ==
  life \in {"marked", "stopping", "exited"} =>
    \A t \in Task : pc[t] \in {"rerun", "restarted"} => t \in claimed

\* A restart never gives up the reservation: until someone claims the task, its
\* record stays while a goroutine works on it, so the leader sees no gap.
ReservationKept ==
  \A t \in Task :
    pc[t] \in StartPC \cup RestartPC => t \in tasks \/ t \in claimed

\* Something is still due to t: a claimed task has a record or is held by the
\* runner, an accepted one is Queued.
Owing(t) ==
  /\ life # "exited"
  /\ \/ t \in claimed /\ (t \in tasks \/ proc[t] # "none")
     \/ t \in tasks /\ status[t] = "Queued"

\* Claims are carried out and starts settle: in the end the record of a claimed
\* task is gone and the runner has made its attempt, whatever the task was doing
\* when it was claimed, and an accepted task does not stay Queued, over failures,
\* restarts and a shutdown.  Only the end of the agent's process cuts this short.
NothingStaysOwed == \A t \in Task : []<> ~ Owing(t)

-----------------------------------------------------------------------------
(* The inductive invariant: the safety properties need each other, and six *)
(* facts about where things stand in between.  AgentTasksProofs proves it. *)

\* A task that does not exist yet is nowhere.
Unborn ==
  \A t \in Task : status[t] = "unborn" =>
    /\ proc[t] = "none" /\ pc[t] = "idle"
    /\ t \notin tasks /\ t \notin claimed /\ t \notin monSnap

\* Between cleaning up and runner.Run the runner holds nothing for the task.
NothingHeld ==
  \A t \in Task :
    pc[t] \in {"replace", "replacing", "fresh", "run", "decide", "count", "giveUp",
               "backoff", "swap", "published", "rerun", "drop"} => proc[t] = "none"

\* What a stop request, a replacing start or shutdown works on is claimed.
WorkIsClaimed ==
  /\ \A r \in StopReq : reqs[r].batch \subseteq claimed
  /\ \A t \in Task : loc[t].olds \subseteq claimed
  /\ snap \subseteq claimed

\* A claim of a task that is being started stays visible in its state.
ClaimIsSeen ==
  \A t \in Task :
    pc[t] \in {"replace", "replacing", "fresh", "run", "started"} /\ t \in claimed
      => status[t] = "Stopping"

\* The monitor works on tasks it found, or ones claimed since.
MonitorKnows == \A t \in Task : t \in monSnap => t \in tasks \/ t \in claimed

\* A restart that goes ahead has budget left.
BudgetLeft ==
  \A t \in Task : pc[t] \in {"backoff", "swap"} /\ t \in tasks => restarts[t] < MaxRestarts

\* Everything above that holds in every state, together strong enough to be kept
\* by every step.
IndInv ==
  /\ TypeOK /\ Unborn /\ NothingHeld /\ WorkIsClaimed /\ ClaimIsSeen
  /\ MonitorKnows /\ OneGoroutinePerTask /\ ReservationKept
  /\ NoRestartPastShutdown /\ BudgetLeft /\ RestartBudget /\ NoStrayProcess

-----------------------------------------------------------------------------
(* Statements of the repository that the code does not keep.               *)

AllQuiet == /\ \A t \in Task : pc[t] = "idle"
            /\ \A r \in StopReq : reqs[r] = NoReq

\* "deletes a job and cleans up all its tasks": when a delete and everything
\* else has finished and the job has no definition, no task of it is left.
DeleteCleansUp ==
  \A j \in Job : AllQuiet /\ jobs[j] = 0 => \A t \in TasksOf(j) : proc[t] # "up"

\* The definition an agent is left with is the newest one submitted: a start of
\* an older version that a newer one replaced does not write its own back.
NewestDefinitionWins == \A j \in Job : AllQuiet => jobs[j] \in {0, newest[j]}
=============================================================================
