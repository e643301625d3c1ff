---------------------------- MODULE HostRunners ----------------------------
(***************************************************************************)
(* The drivers of an ordinary host: processes (internal/runner/process.go, *)
(* process_linux.go) and containers (internal/runner/docker.go), with the  *)
(* logs of module TaskLog.  A start is one goroutine of the agent, which   *)
(* also makes the Stop that follows a failed start, a crash or a ghost; a  *)
(* Stop of a delete runs beside it.  A task ID is started once.  What the  *)
(* agent decides about a task is in AgentTasks; here it is there, queued,  *)
(* running or failed, or gone.  Tasks share nothing on the host.           *)
(***************************************************************************)
EXTENDS TaskLog, FiniteSets

CONSTANTS Volume,    \* what is bound into a task's directory
          Optional,  \* binds of the isolation: a start goes on without them
          MaxFaults  \* bound: failures of the host, lost answers, restarts

ASSUME HostAssumption == Optional \subseteq Volume /\ MaxFaults \in Nat

VARIABLES
  driver,    \* the driver of each task
  rec,       \* the agent's record of it
  run,       \* the goroutine of its start
  stops,     \* its Stops, and the cleanup of a start that failed
  dir,       \* host: tasks that have a directory
  bound,     \* host: active binds in it
  cgroup,    \* host: tasks that have a cgroup
  group,     \* host: the process group
  ctr,       \* daemon: the container
  late,      \* daemon: a create that was given up and is still to be carried out
  made,      \* setupTaskDir's own list of mounts
  fd,        \* starts that hold a descriptor of their cgroup
  owned,     \* ExecRunner.processes
  groupGone, \* execProcess.groupGone
  dirs,      \* ExecRunner.taskDirs
  mounts,    \* ExecRunner.mounts
  reading,   \* tasks whose output is being read
  hist,      \* history: tasks a Stop failed for, directories an extraction put
             \* back after a Stop, binds that a RemoveAll went through
  faults

agent == <<driver, rec, run>>
host == <<dir, bound, cgroup, group>>
docker == <<ctr, late>>
setup == <<made, fd>>
maps == <<owned, groupGone, dirs, mounts>>
logs == <<logVars, reading>>
vars == <<agent, stops, host, docker, setup, maps, logs, hist, faults>>

Caller == {"own", "request", "run"}
StopIdle == [pc |-> "idle", dir |-> FALSE, binds |-> {}]

TypeOK ==
  /\ LogTypeOK
  /\ driver \in [Task -> {"exec", "docker"}]
  /\ rec \in [Task -> {"none", "queued", "running", "failed", "gone"}]
  /\ run \in [Task -> {"idle", "dir", "mount", "download", "cgroup", "start", "log",
                       "register", "failing", "pull", "create", "ctrstart", "stream",
                       "ok", "err", "restart"}]
  /\ stops \in [Task -> [Caller ->
       [pc : {"idle", "begin", "term", "kill", "forget", "clean", "unmount", "remove",
              "unmap", "rmcg", "halt", "rm", "hush"},
        dir : BOOLEAN, binds : SUBSET Volume]]]
  /\ dir \subseteq Task /\ cgroup \subseteq Task
  /\ bound \in [Task -> SUBSET Volume]
  /\ group \in [Task -> {"none", "up", "left", "gone", "reused"}]
  /\ ctr \in [Task -> {"none", "created", "up", "exited"}]
  /\ late \in [Task -> {"no", "pending", "landed"}]
  /\ made \in [Task -> SUBSET Volume] /\ fd \subseteq Task
  /\ owned \subseteq Task /\ groupGone \subseteq Task
  /\ dirs \subseteq Task
  /\ mounts \in [Task -> SUBSET Volume] /\ \A t \in Task \ dirs : mounts[t] = {}
  /\ reading \subseteq Task
  /\ hist \in [kept : SUBSET Task, stray : SUBSET Task, through : SUBSET Task]
  /\ faults \in 0 .. MaxFaults

Init ==
  /\ LogInit
  /\ driver \in [Task -> {"exec", "docker"}]
  /\ rec = [t \in Task |-> "none"] /\ run = [t \in Task |-> "idle"]
  /\ stops = [t \in Task |-> [k \in Caller |-> StopIdle]]
  /\ dir = {} /\ cgroup = {} /\ bound = [t \in Task |-> {}]
  /\ group = [t \in Task |-> "none"]
  /\ ctr = [t \in Task |-> "none"] /\ late = [t \in Task |-> "no"]
  /\ made = [t \in Task |-> {}] /\ fd = {}
  /\ owned = {} /\ groupGone = {} /\ dirs = {} /\ mounts = [t \in Task |-> {}]
  /\ reading = {}
  /\ hist = [kept |-> {}, stray |-> {}, through |-> {}]
  /\ faults = 0

Fault == faults < MaxFaults /\ faults' = faults + 1
Go(t, pc) == run' = [run EXCEPT ![t] = pc] /\ UNCHANGED <<driver, rec>>
StopGo(t, k, pc) == stops' = [stops EXCEPT ![t][k].pc = pc]
StopEnds(t, k) == stops' = [stops EXCEPT ![t][k] = StopIdle]
Alive(t) == group[t] \in {"up", "left"}
-----------------------------------------------------------------------------
(* The agent.                                                              *)

unseen == <<host, docker, setup, maps, logs, hist>>

AcceptRun(t) ==
  /\ rec[t] = "none"
  /\ rec' = [rec EXCEPT ![t] = "queued"]
  /\ run' = [run EXCEPT ![t] = IF driver[t] = "exec" THEN "dir" ELSE "pull"]
  /\ UNCHANGED <<driver, stops, unseen, faults>>

GhostStays(t) ==   \* mutant: startJob without its second look
  /\ run[t] \in {"ok", "err"}
  /\ run' = [run EXCEPT ![t] = IF @ = "err" THEN "restart" ELSE "idle"]
  /\ rec' = [rec EXCEPT ![t] = IF @ = "gone" THEN @
                               ELSE IF run[t] = "ok" THEN "running" ELSE "failed"]
  /\ IF run[t] = "ok" THEN UNCHANGED stops ELSE StopGo(t, "own", "begin")
  /\ UNCHANGED <<driver, unseen, faults>>

\* A ghost is stopped again; a start that failed is cleaned up by restartTask.
RunReturns(t) ==
  /\ run[t] \in {"ok", "err"}
  /\ run' = [run EXCEPT ![t] = IF @ = "err" THEN "restart" ELSE "idle"]
  /\ rec' = [rec EXCEPT ![t] = IF @ = "gone" THEN @
                               ELSE IF run[t] = "ok" THEN "running" ELSE "failed"]
  /\ IF run[t] = "ok" /\ rec[t] # "gone" THEN UNCHANGED stops
                                         ELSE StopGo(t, "own", "begin")
  /\ UNCHANGED <<driver, unseen, faults>>

RequestStop(t) ==
  /\ rec[t] \in {"queued", "running", "failed"}
  /\ rec' = [rec EXCEPT ![t] = "gone"]
  /\ StopGo(t, "request", "begin")
  /\ UNCHANGED <<driver, run, unseen, faults>>

\* checkTasks: Status finds no process, a group that is gone, or no container that
\* runs - or the daemon does not answer.
DetectCrash(t) ==
  /\ rec[t] = "running" /\ run[t] = "idle"
  /\ IF driver[t] = "exec"
     THEN /\ t \notin owned \/ t \in groupGone \/ group[t] = "gone"
          /\ groupGone' = IF t \in owned THEN groupGone \cup {t} ELSE groupGone
          /\ UNCHANGED faults
     ELSE /\ (ctr[t] # "up" /\ UNCHANGED faults) \/ Fault
          /\ UNCHANGED groupGone
  /\ rec' = [rec EXCEPT ![t] = "failed"]
  /\ run' = [run EXCEPT ![t] = "restart"]
  /\ StopGo(t, "own", "begin")
  /\ UNCHANGED <<driver, host, docker, setup, owned, dirs, mounts, logs, hist>>

\* The rest of restartTask: a replacement, or no more restarts.
Restart(t) ==
  /\ run[t] = "restart" /\ stops[t]["own"].pc = "idle"
  /\ run' = [run EXCEPT ![t] = "idle"]
  /\ \/ rec[t] = "failed" /\ rec' = [rec EXCEPT ![t] = "gone"]
     \/ UNCHANGED rec
  /\ UNCHANGED <<driver, stops, unseen, faults>>
-----------------------------------------------------------------------------
(* ExecRunner.Run.                                                         *)

MakeDir(t) ==
  /\ run[t] = "dir"
  /\ dir' = dir \cup {t}
  /\ Go(t, "mount")
  /\ UNCHANGED <<stops, bound, cgroup, group, docker, setup, maps, logs, hist, faults>>

Required == Volume \ Optional

\* The job's volumes first, then those of the isolation.
MountVolume(t) ==
  /\ run[t] = "mount"
  /\ \E v \in Volume \ made[t] :
       /\ v \in Optional => Required \subseteq made[t]
       /\ bound' = [bound EXCEPT ![t] = @ \cup {v}]
       /\ made' = [made EXCEPT ![t] = @ \cup {v}]
  /\ UNCHANGED <<agent, stops, dir, cgroup, group, docker, fd, maps, logs, hist, faults>>

Publish(t) ==
  /\ dirs' = dirs \cup {t}
  /\ mounts' = [mounts EXCEPT ![t] = made[t]]
  /\ made' = [made EXCEPT ![t] = {}]

\* Nothing is in the runner's maps until all of it is there ...
PublishDir(t) ==
  /\ run[t] = "mount" /\ Required \subseteq made[t]
  /\ Publish(t)
  /\ Go(t, "download")
  /\ UNCHANGED <<stops, host, docker, fd, owned, groupGone, logs, hist, faults>>

\* ... and a setup that fails takes back what it did, or publishes what it cannot.
RollBack(t) ==
  /\ run[t] = "mount" /\ ~ Required \subseteq made[t]
  /\ \/ /\ bound' = [bound EXCEPT ![t] = {}]
        /\ dir' = dir \ {t}
        /\ made' = [made EXCEPT ![t] = {}]
        /\ UNCHANGED <<dirs, mounts, faults>>
     \/ \E F \in SUBSET made[t] :
          /\ Fault /\ bound' = [bound EXCEPT ![t] = F]
          /\ Publish(t)
          /\ UNCHANGED dir
  /\ Go(t, "err")
  /\ UNCHANGED <<stops, cgroup, group, docker, fd, owned, groupGone, logs, hist>>

\* downloadArtifact: an extraction makes the directories it needs, the task's own too
\* when a Stop has removed it.
Download(t) ==
  /\ run[t] = "download"
  /\ dir' \in {dir, dir \cup {t}}
  /\ hist' = [hist EXCEPT !.stray = IF dir' # dir THEN @ \cup {t} ELSE @]
  /\ \/ Go(t, "cgroup") /\ UNCHANGED stops
     \/ Go(t, "failing") /\ StopGo(t, "run", "clean")
  /\ UNCHANGED <<bound, cgroup, group, docker, setup, maps, logs, faults>>

\* A task without a memory limit, or without the luck, goes on without a cgroup.
PrepareCgroup(t) ==
  /\ run[t] = "cgroup"
  /\ \/ cgroup' = cgroup \cup {t} /\ fd' = fd \cup {t}
     \/ UNCHANGED <<cgroup, fd>>
  /\ Go(t, "start")
  /\ UNCHANGED <<stops, dir, bound, group, docker, made, maps, logs, hist, faults>>

\* cmd.Start, in the directory and the cgroup if they are still there.
StartProcess(t) ==
  /\ run[t] = "start"
  /\ fd' = fd \ {t}
  /\ \/ /\ t \in dir /\ (t \in fd => t \in cgroup)
        /\ group' = [group EXCEPT ![t] = "up"]
        /\ Go(t, "log") /\ UNCHANGED stops
     \/ /\ Go(t, "failing") /\ StopGo(t, "run", "rmcg")
        /\ UNCHANGED group
  /\ UNCHANGED <<dir, bound, cgroup, docker, made, maps, logs, hist, faults>>

PutLogs(t) ==
  /\ run[t] = "log"
  /\ PutLog(t) /\ reading' = reading \cup {t}
  /\ Go(t, "register")
  /\ UNCHANGED <<stops, host, docker, setup, maps, hist, faults>>

\* From here on a Stop is a stop of the process.
Register(t) ==
  /\ run[t] = "register"
  /\ owned' = owned \cup {t}
  /\ Go(t, "ok")
  /\ UNCHANGED <<stops, host, docker, setup, groupGone, dirs, mounts, logs, hist, faults>>

StartFailed(t) ==
  /\ run[t] = "failing" /\ stops[t]["run"].pc = "idle"
  /\ Go(t, "err")
  /\ UNCHANGED <<stops, unseen, faults>>
-----------------------------------------------------------------------------
(* ExecRunner.Stop, and cleanupTaskDir, which a failed start calls too.    *)

BeginStop(t, k) ==
  /\ stops[t][k].pc = "begin"
  /\ StopGo(t, k, IF driver[t] = "docker" THEN "halt"
                  ELSE IF t \in owned THEN "term" ELSE "clean")
  /\ UNCHANGED <<agent, unseen, faults>>

Seen(t) == t \in groupGone \/ group[t] = "gone"

\* SIGTERM, and ten seconds to see the group gone.
Terminate(t, k) ==
  /\ stops[t][k].pc = "term"
  /\ \/ Seen(t) /\ groupGone' = groupGone \cup {t} /\ StopGo(t, k, "forget")
     \/ ~ Seen(t) /\ UNCHANGED groupGone /\ StopGo(t, k, "kill")
  /\ UNCHANGED <<agent, host, docker, setup, owned, dirs, mounts, logs, hist, faults>>

\* SIGKILL, which a group outlives only if the kernel does not let it die.
Kill(t, k) ==
  /\ stops[t][k].pc = "kill"
  /\ \/ /\ group' = [group EXCEPT ![t] = IF Seen(t) THEN @ ELSE "gone"]
        /\ groupGone' = groupGone \cup {t}
        /\ StopGo(t, k, "forget")
        /\ UNCHANGED <<hist, faults>>
     \/ /\ ~ Seen(t) /\ Fault /\ StopEnds(t, k)
        /\ hist' = [hist EXCEPT !.kept = @ \cup {t}]
        /\ UNCHANGED <<group, groupGone>>
  /\ UNCHANGED <<agent, dir, bound, cgroup, docker, setup, owned, dirs, mounts, logs>>

Forget(t, k) ==
  /\ stops[t][k].pc = "forget"
  /\ owned' = owned \ {t}
  /\ StopGo(t, k, "clean")
  /\ UNCHANGED <<agent, host, docker, setup, groupGone, dirs, mounts, logs, hist, faults>>

\* Of a Stop the cgroup comes last, of a failed start first.
AfterDir(k) == IF k = "run" THEN "idle" ELSE "rmcg"
AfterCgroup(k) == IF k = "run" THEN "clean" ELSE "idle"

\* What is recorded of the directory, read once; the log retires.
CleanTaskDir(t, k) ==
  /\ stops[t][k].pc = "clean"
  /\ stops' = [stops EXCEPT ![t][k] =
       [pc |-> "unmount", dir |-> t \in dirs, binds |-> mounts[t]]]
  /\ RetireLog(t) /\ UNCHANGED reading
  /\ UNCHANGED <<agent, host, docker, setup, maps, hist, faults>>

UnmountLeaky(t, k) ==   \* mutant: the directory goes whatever is still bound in it
  /\ stops[t][k].pc = "unmount"
  /\ \/ /\ bound' = [bound EXCEPT ![t] = @ \ stops[t][k].binds] /\ UNCHANGED faults
     \/ \E F \in SUBSET (stops[t][k].binds \cap bound[t]) \ {{}} :
          Fault /\ bound' = [bound EXCEPT ![t] = (@ \ stops[t][k].binds) \cup F]
  /\ StopGo(t, k, "remove")
  /\ UNCHANGED <<agent, dir, cgroup, group, docker, setup, maps, logs, hist>>

\* A bind that is gone already is no failure; one that stays saves the directory.
Unmount(t, k) ==
  /\ stops[t][k].pc = "unmount"
  /\ \/ /\ bound' = [bound EXCEPT ![t] = @ \ stops[t][k].binds]
        /\ StopGo(t, k, "remove")
        /\ UNCHANGED <<hist, faults>>
     \/ \E F \in SUBSET (stops[t][k].binds \cap bound[t]) \ {{}} :
          /\ Fault /\ bound' = [bound EXCEPT ![t] = (@ \ stops[t][k].binds) \cup F]
          /\ StopGo(t, k, AfterDir(k))
          /\ hist' = [hist EXCEPT !.kept = @ \cup {t}]
  /\ UNCHANGED <<agent, dir, cgroup, group, docker, setup, maps, logs>>

\* RemoveAll follows every bind that is still active.
RemoveDir(t, k) ==
  /\ stops[t][k].pc = "remove"
  /\ \/ /\ dir' = IF stops[t][k].dir THEN dir \ {t} ELSE dir
        /\ hist' = [hist EXCEPT !.through =
             IF stops[t][k].dir /\ bound[t] # {} THEN @ \cup {t} ELSE @]
        /\ StopGo(t, k, "unmap")
        /\ UNCHANGED faults
     \/ /\ stops[t][k].dir /\ Fault /\ StopGo(t, k, AfterDir(k))
        /\ hist' = [hist EXCEPT !.kept = @ \cup {t}]
        /\ UNCHANGED dir
  /\ UNCHANGED <<agent, bound, cgroup, group, docker, setup, maps, logs>>

UnmapDirOnly(t, k) ==   \* mutant: the list of mounts is not deleted with it
  /\ stops[t][k].pc = "unmap"
  /\ dirs' = IF stops[t][k].dir THEN dirs \ {t} ELSE dirs
  /\ stops' = [stops EXCEPT ![t][k] = [StopIdle EXCEPT !.pc = AfterDir(k)]]
  /\ UNCHANGED <<agent, host, docker, setup, owned, groupGone, mounts, logs, hist, faults>>

\* The maps forget it, unless it is another directory than the one that was read.
Unmap(t, k) ==
  /\ stops[t][k].pc = "unmap"
  /\ LET same == stops[t][k].dir /\ t \in dirs
     IN /\ dirs' = IF same THEN dirs \ {t} ELSE dirs
        /\ mounts' = IF same THEN [mounts EXCEPT ![t] = {}] ELSE mounts
  /\ stops' = [stops EXCEPT ![t][k] = [StopIdle EXCEPT !.pc = AfterDir(k)]]
  /\ UNCHANGED <<agent, host, docker, setup, owned, groupGone, logs, hist, faults>>

\* removeCgroup: a cgroup with a process in it stays, and nothing is said of it but
\* an error.
RemoveCgroup(t, k) ==
  /\ stops[t][k].pc = "rmcg"
  /\ cgroup' = IF Alive(t) THEN cgroup ELSE cgroup \ {t}
  /\ stops' = [stops EXCEPT ![t][k] = [StopIdle EXCEPT !.pc = AfterCgroup(k)]]
  /\ UNCHANGED <<agent, dir, bound, group, docker, setup, maps, logs, hist, faults>>
-----------------------------------------------------------------------------
(* The process, and who watches it.                                        *)

watching == <<agent, stops, dir, bound, cgroup, docker, setup>>

\* The leader of the group ends, its descendants with it or later.
LeaderExits(t) ==
  /\ group[t] = "up"
  /\ \E s \in {"left", "gone"} : group' = [group EXCEPT ![t] = s]
  /\ UNCHANGED <<watching, maps, logs, hist, faults>>

GroupEnds(t) ==
  /\ group[t] = "left"
  /\ group' = [group EXCEPT ![t] = "gone"]
  /\ UNCHANGED <<watching, maps, logs, hist, faults>>

\* cmd.Wait, or a Status, sees that the group is gone.
Observe(t) ==
  /\ t \in owned \ groupGone /\ group[t] = "gone"
  /\ groupGone' = groupGone \cup {t}
  /\ UNCHANGED <<watching, group, owned, dirs, mounts, logs, hist, faults>>

\* The kernel gives the number to another group.
Reuse(t) ==
  /\ group[t] = "gone" /\ Fault
  /\ group' = [group EXCEPT ![t] = "reused"]
  /\ UNCHANGED <<watching, maps, logs, hist>>

\* PipeReader, or the frames of a container's log stream.
ReadOutput(t) ==
  /\ t \in reading /\ lines[t] < MaxLines
  /\ WriteLine(t)
  /\ UNCHANGED <<watching, group, maps, reading, hist, faults>>

\* The pipe ends with the leader and closes the log; a stream of the daemon may end at
\* any time and leaves that to Stop.
OutputEnds(t) ==
  /\ t \in reading
  /\ reading' = reading \ {t}
  /\ IF driver[t] = "exec" THEN group[t] # "up" /\ EndLog(t) ELSE UNCHANGED logVars
  /\ UNCHANGED <<watching, group, maps, hist, faults>>

ReadLog(t) ==
  /\ Reading(t)
  /\ UNCHANGED <<watching, group, maps, reading, hist, faults>>
-----------------------------------------------------------------------------
(* DockerRunner.  A call to the daemon is carried out or not, and answered *)
(* or not.                                                                 *)

onHost == <<host, setup, maps>>
Ctr(t, s) == ctr' = [ctr EXCEPT ![t] = s]

Pull(t) ==
  /\ run[t] = "pull"
  /\ Go(t, "create") \/ Go(t, "err")
  /\ UNCHANGED <<stops, onHost, docker, logs, hist, faults>>

CreateContainer(t) ==
  /\ run[t] = "create"
  /\ \/ Ctr(t, "created") /\ Go(t, "ctrstart") /\ UNCHANGED <<late, faults>>
     \/ Go(t, "err") /\ UNCHANGED <<docker, faults>>
     \/ Ctr(t, "created") /\ Go(t, "err") /\ Fault /\ UNCHANGED late
     \/ late' = [late EXCEPT ![t] = "pending"] /\ Go(t, "err") /\ Fault /\ UNCHANGED ctr
  /\ UNCHANGED <<stops, onHost, logs, hist>>

\* The daemon gets round to a create that nobody waits for any more.
CreateLands(t) ==
  /\ late[t] = "pending"
  /\ late' = [late EXCEPT ![t] = "landed"]
  /\ Ctr(t, "created")
  /\ UNCHANGED <<agent, stops, onHost, logs, hist, faults>>

StartContainer(t) ==
  /\ run[t] = "ctrstart"
  /\ \/ ctr[t] = "created" /\ Ctr(t, "up") /\ Go(t, "stream") /\ UNCHANGED faults
     \/ ctr[t] = "created" /\ Ctr(t, "up") /\ Go(t, "err") /\ Fault
     \/ Go(t, "err") /\ UNCHANGED <<ctr, faults>>
  /\ UNCHANGED <<stops, onHost, late, logs, hist>>

StreamLogs(t) ==
  /\ run[t] = "stream"
  /\ PutLog(t) /\ reading' = reading \cup {t}
  /\ Go(t, "ok")
  /\ UNCHANGED <<stops, onHost, docker, hist, faults>>

ContainerExits(t) ==
  /\ ctr[t] = "up"
  /\ Ctr(t, "exited")
  /\ UNCHANGED <<agent, stops, onHost, late, logs, hist, faults>>

\* Stop: whatever becomes of the stop, the container is removed by force.
HaltContainer(t, k) ==
  /\ stops[t][k].pc = "halt"
  /\ \/ Ctr(t, IF ctr[t] = "up" THEN "exited" ELSE ctr[t]) /\ UNCHANGED faults
     \/ Fault /\ UNCHANGED ctr
  /\ StopGo(t, k, "rm")
  /\ UNCHANGED <<agent, onHost, late, logs, hist>>

RemoveContainer(t, k) ==
  /\ stops[t][k].pc = "rm"
  /\ \/ Ctr(t, "none") /\ UNCHANGED <<hist, faults>>
     \/ Fault /\ hist' = [hist EXCEPT !.kept = @ \cup {t}] /\ UNCHANGED ctr
  /\ StopGo(t, k, "hush")
  /\ UNCHANGED <<agent, onHost, late, logs>>

\* The log stream is cancelled, the log retires.
RetireContainerLog(t, k) ==
  /\ stops[t][k].pc = "hush"
  /\ RetireLog(t) /\ UNCHANGED reading
  /\ StopEnds(t, k)
  /\ UNCHANGED <<agent, onHost, docker, hist, faults>>
-----------------------------------------------------------------------------
(* The agent's process dies and is started again: Init removes the         *)
(* containers it finds, if it can, and leaves what the processes have.     *)

AgentRestarts ==
  /\ Fault
  /\ rec' = [t \in Task |-> IF rec[t] = "none" THEN "none" ELSE "gone"]
  /\ run' = [t \in Task |-> "idle"]
  /\ stops' = [t \in Task |-> [k \in Caller |-> StopIdle]]
  /\ made' = [t \in Task |-> {}] /\ fd' = {}
  /\ owned' = {} /\ groupGone' = {} /\ dirs' = {} /\ mounts' = [t \in Task |-> {}]
  /\ reading' = {}
  /\ shelf' = [t \in Task |-> "none"] /\ lines' = [t \in Task |-> 0]
  /\ closed' = [t \in Task |-> FALSE] /\ listener' = [t \in Task |-> Idle]
  /\ missed' = {}
  /\ \E C \in SUBSET Task :
       /\ ctr' = [t \in Task |-> IF t \in C THEN ctr[t] ELSE "none"]
       /\ hist' = [hist EXCEPT !.kept = @ \cup C \cup {t \in Task : driver[t] = "exec"}]
  /\ UNCHANGED <<driver, host, late>>

ExecRun(t) ==
  \/ MakeDir(t) \/ MountVolume(t) \/ PublishDir(t) \/ RollBack(t) \/ Download(t)
  \/ PrepareCgroup(t) \/ StartProcess(t) \/ PutLogs(t) \/ Register(t) \/ StartFailed(t)

ExecStop(t, k) ==
  \/ Terminate(t, k) \/ Kill(t, k) \/ Forget(t, k) \/ CleanTaskDir(t, k)
  \/ Unmount(t, k) \/ RemoveDir(t, k) \/ Unmap(t, k) \/ RemoveCgroup(t, k)

DockerRun(t) ==
  \/ Pull(t) \/ CreateContainer(t) \/ CreateLands(t) \/ StartContainer(t)
  \/ StreamLogs(t) \/ ContainerExits(t)

DockerStop(t, k) ==
  \/ HaltContainer(t, k) \/ RemoveContainer(t, k) \/ RetireContainerLog(t, k)

Next ==
  \/ \E t \in Task : AcceptRun(t) \/ RunReturns(t) \/ RequestStop(t) \/ DetectCrash(t)
                     \/ Restart(t)
  \/ \E t \in Task : ExecRun(t) \/ DockerRun(t)
  \/ \E t \in Task, k \in Caller : BeginStop(t, k) \/ ExecStop(t, k) \/ DockerStop(t, k)
  \/ \E t \in Task : LeaderExits(t) \/ GroupEnds(t) \/ Observe(t) \/ Reuse(t)
  \/ \E t \in Task : ReadOutput(t) \/ OutputEnds(t) \/ ReadLog(t)
  \/ AgentRestarts

Spec == Init /\ [][Next]_vars
-----------------------------------------------------------------------------
(* Properties.                                                             *)

\* Nothing of the host is deleted through a bind, however cleanups cross each other
\* and a setup that is rolled back: a bind that stays saves the directory
\* (cleanupTaskResources, unsafeToRemove).
HostFilesSafe == hist.through = {}

\* When the agent has done with a task, however its Stops crossed its start or its
\* crash, its process group is gone, no container of it runs, nothing is bound,
\* counted or kept for it, and its log is no longer live, so that nobody waits for
\* more of it.  A task whose Stop failed is excepted, and a descendant that left the
\* process group: Setpgid is all the driver knows of its descendants.
NothingLeft == \A t \in Task \ hist.kept :
  rec[t] = "gone" /\ run[t] = "idle" /\ (\A k \in Caller : stops[t][k].pc = "idle")
  => /\ ~ Alive(t) /\ bound[t] = {} /\ t \notin cgroup
     /\ (t \in dir => t \in hist.stray)
     /\ \/ ctr[t] = "none"
        \/ ctr[t] = "created" /\ late[t] = "landed"
     /\ t \notin owned /\ t \notin dirs
     /\ shelf[t] # "live" /\ listener[t].on # "open"

\* What the documentation says of a cleanup (docs/lifecycles.md): where a bind
\* survives the unmount, "RemoveAll still runs".  A cleanup that has a directory on
\* record goes on from the unmounts to the removal.
RemovesDespiteBinds ==
  [][\A t \in Task, k \in Caller :
       stops[t][k].pc = "unmount" /\ t \in dirs' /\ stops'[t][k] # stops[t][k]
         => stops'[t][k].pc = "remove"]_vars
=============================================================================
