------------------------- MODULE HostRunnersProofs -------------------------
(***************************************************************************)
(* Proofs about HostRunners, for any tasks, volumes and number of faults:  *)
(* no cleanup deletes files of the host through a bind, what a task leaves *)
(* behind is owed by somebody until nothing is left, and a log is in order *)
(* for who reads it.                                                       *)
(***************************************************************************)
EXTENDS HostRunners, TaskLogProofs, TLAPS

-----------------------------------------------------------------------------
(* The inductive invariant.                                                *)

Places == {"idle", "begin", "term", "kill", "forget", "clean", "unmount", "remove",
           "unmap", "rmcg", "halt", "rm", "hush"}

StopRec == [pc : Places, dir : BOOLEAN, binds : SUBSET Volume]

\* The types of the variables that have a say.
BindType ==
  /\ DOMAIN rec = Task /\ DOMAIN run = Task
  /\ stops \in [Task -> [Caller -> StopRec]]
  /\ bound \in [Task -> SUBSET Volume]
  /\ made \in [Task -> SUBSET Volume]
  /\ dirs \subseteq Task
  /\ mounts \in [Task -> SUBSET Volume]
  /\ hist \in [kept : SUBSET Task, stray : SUBSET Task, through : SUBSET Task]

SettingUp == {"dir", "mount"}

\* A task that has not been asked for has nothing.
NotYet(t) ==
  rec[t] = "none" => /\ run[t] = "idle" /\ bound[t] = {} /\ made[t] = {}
                     /\ t \notin dirs /\ \A k \in Caller : ~ stops[t][k].dir

\* While its directory is set up, only the start knows of its binds.
SetUp(t) ==
  run[t] \in SettingUp => /\ bound[t] \subseteq made[t] /\ (run[t] = "dir" => bound[t] = {})
                          /\ t \notin dirs /\ \A k \in Caller : ~ stops[t][k].dir

\* A directory that the maps have is there with the list of what is bound in it, and
\* so is one that a cleanup has read; when it is to be removed, nothing is bound.
Listed(t) == t \in dirs => bound[t] \subseteq mounts[t]

ReadList(t) == \A k \in Caller : stops[t][k].dir =>
  /\ stops[t][k].pc = "unmount" => bound[t] \subseteq stops[t][k].binds
  /\ stops[t][k].pc = "remove" => bound[t] = {}

TaskInv(t) == NotYet(t) /\ SetUp(t) /\ Listed(t) /\ ReadList(t)

BindInv == BindType /\ HostFilesSafe /\ \A t \in Task : TaskInv(t)

-----------------------------------------------------------------------------
(* Steps that leave binds alone.                                           *)

\* A Stop goes on, without a new directory to remove.
StopsQuiet ==
  /\ stops' \in [Task -> [Caller -> StopRec]]
  /\ \A t \in Task, k \in Caller :
       \/ stops'[t][k] = stops[t][k]
       \/ /\ stops'[t][k].pc \notin {"unmount", "remove"}
          /\ stops'[t][k].dir => stops[t][k].dir

RunQuiet == \A t \in Task :
  /\ rec'[t] = "none" => rec[t] = "none" /\ run'[t] = run[t]
  /\ run'[t] \in SettingUp => \/ run'[t] = run[t]
                              \/ run'[t] = "dir" /\ rec[t] = "none"
                              \/ run'[t] = "mount" /\ run[t] = "dir"

HistType == hist \in [kept : SUBSET Task, stray : SUBSET Task, through : SUBSET Task]
HistQuiet == HistType' /\ hist'.through = hist.through

Quiet ==
  /\ UNCHANGED <<bound, made, dirs, mounts>>
  /\ HistQuiet /\ RunQuiet /\ StopsQuiet
  /\ DOMAIN rec' = Task /\ DOMAIN run' = Task

LEMMA QuietKeeps ==
  ASSUME BindInv, Quiet
  PROVE  BindInv'
<1>1. HostFilesSafe' BY DEF BindInv, HostFilesSafe, Quiet, HistQuiet
<1>2. ASSUME NEW t \in Task PROVE TaskInv(t)'
  <2>1. TaskInv(t) BY DEF BindInv
  <2> QED BY <2>1 DEF TaskInv, Quiet, RunQuiet, StopsQuiet, NotYet, SetUp, Listed, ReadList,
                      SettingUp
<1>3. BindType' BY DEF BindInv, BindType, Quiet, StopsQuiet, HistQuiet, HistType
<1> QED BY <1>1, <1>2, <1>3 DEF BindInv

LEMMA StopSet ==
  ASSUME BindType, NEW t \in Task, NEW k \in Caller, NEW r \in StopRec,
         stops' = [stops EXCEPT ![t][k] = r]
  PROVE  /\ stops' \in [Task -> [Caller -> StopRec]]
         /\ \A s \in Task, c \in Caller :
              stops'[s][c] = IF s = t /\ c = k THEN r ELSE stops[s][c]
BY DEF BindType

LEMMA StopMoves ==
  ASSUME BindType, NEW t \in Task, NEW k \in Caller, NEW pc \in Places, StopGo(t, k, pc)
  PROVE  /\ stops' \in [Task -> [Caller -> StopRec]]
         /\ \A s \in Task, c \in Caller : s # t \/ c # k => stops'[s][c] = stops[s][c]
         /\ stops'[t][k].pc = pc /\ stops'[t][k].dir = stops[t][k].dir
         /\ stops'[t][k].binds = stops[t][k].binds
<1> DEFINE r == [stops[t][k] EXCEPT !.pc = pc]
<1>1. stops[t][k] \in StopRec BY DEF BindType
<1>2. r \in StopRec /\ r.pc = pc /\ r.dir = stops[t][k].dir /\ r.binds = stops[t][k].binds
  BY <1>1 DEF StopRec
<1>3. stops' = [stops EXCEPT ![t][k] = r] BY DEF StopGo
<1> HIDE DEF r
<1> QED BY <1>2, <1>3, StopSet

LEMMA StopSame ==
  ASSUME BindType, UNCHANGED stops
  PROVE  StopsQuiet
BY DEF BindType, StopsQuiet

LEMMA StopGoQuiet ==
  ASSUME BindType, NEW t \in Task, NEW k \in Caller,
         NEW pc \in Places \ {"unmount", "remove"}, StopGo(t, k, pc)
  PROVE  StopsQuiet
BY StopMoves DEF StopsQuiet

LEMMA StopIdleQuiet ==
  ASSUME BindType, NEW t \in Task, NEW k \in Caller,
         NEW pc \in Places \ {"unmount", "remove"},
         stops' = [stops EXCEPT ![t][k] = [StopIdle EXCEPT !.pc = pc]]
  PROVE  StopsQuiet
<1>1. [StopIdle EXCEPT !.pc = pc] \in StopRec /\ ~ [StopIdle EXCEPT !.pc = pc].dir
      /\ [StopIdle EXCEPT !.pc = pc].pc = pc
  BY DEF StopIdle, StopRec
<1> QED BY <1>1, StopSet DEF StopsQuiet

LEMMA StopEndsQuiet ==
  ASSUME BindType, NEW t \in Task, NEW k \in Caller, StopEnds(t, k)
  PROVE  StopsQuiet
<1>1. StopIdle \in StopRec /\ StopIdle.pc = "idle" /\ ~ StopIdle.dir
  BY DEF StopIdle, StopRec, Places
<1> QED BY <1>1, StopSet DEF StopsQuiet, StopEnds

\* The places a Stop goes to without a list.
LEMMA Named ==
  /\ \A k \in {"own", "request", "run"} : k \in Caller
  /\ \A pc \in {"idle", "begin", "term", "kill", "forget", "clean", "unmap", "rmcg",
                "halt", "rm", "hush"} : pc \in Places \ {"unmount", "remove"}
  /\ \A k \in Caller : AfterDir(k) \in Places \ {"unmount", "remove"}
                       /\ AfterCgroup(k) \in Places \ {"unmount", "remove"}
BY DEF Caller, Places, AfterDir, AfterCgroup

\* The agent's own steps.
LEMMA AgentQuiet ==
  ASSUME BindType, NEW t \in Task, NotYet(t),
         AcceptRun(t) \/ RunReturns(t) \/ RequestStop(t) \/ DetectCrash(t) \/ Restart(t)
  PROVE  Quiet
<1>0. UNCHANGED <<bound, made, dirs, mounts, hist>>
  BY DEF AcceptRun, RunReturns, RequestStop, DetectCrash, Restart, unseen, host, docker,
         setup, maps
<1>1. DOMAIN rec' = Task /\ DOMAIN run' = Task
  BY DEF BindType, AcceptRun, RunReturns, RequestStop, DetectCrash, Restart
<1>2. RunQuiet
  BY DEF BindType, AcceptRun, RunReturns, RequestStop, DetectCrash, Restart, RunQuiet,
         SettingUp, NotYet
<1>3. StopsQuiet
  BY Named, StopSame, StopGoQuiet
     DEF AcceptRun, RunReturns, RequestStop, DetectCrash, Restart
<1>4. HistQuiet BY <1>0 DEF HistQuiet, HistType, BindType
<1> QED BY <1>0, <1>1, <1>2, <1>3, <1>4 DEF Quiet

\* The steps of a start but for the binds.
LEMMA RunStepQuiet ==
  ASSUME BindType, NEW t \in Task, NotYet(t),
         MakeDir(t) \/ Download(t) \/ PrepareCgroup(t) \/ StartProcess(t) \/ PutLogs(t)
         \/ Register(t) \/ StartFailed(t)
  PROVE  Quiet
<1>0. UNCHANGED <<bound, made, dirs, mounts>>
  BY DEF MakeDir, Download, PrepareCgroup, StartProcess, PutLogs, Register, StartFailed,
         unseen, host, docker, setup, maps
<1>1. UNCHANGED rec /\ \E pc \in {"mount", "cgroup", "failing", "start", "log", "register",
                                  "ok", "err"} :
        run' = [run EXCEPT ![t] = pc] /\ (pc = "mount" => run[t] = "dir")
  BY DEF MakeDir, Download, PrepareCgroup, StartProcess, PutLogs, Register, StartFailed, Go
<1>2. DOMAIN rec' = Task /\ DOMAIN run' = Task BY <1>1 DEF BindType
<1>3. RunQuiet
  <2>1. rec[t] # "none"
    BY DEF NotYet, MakeDir, Download, PrepareCgroup, StartProcess, PutLogs, Register, StartFailed
  <2> QED BY <1>1, <2>1 DEF RunQuiet, BindType, SettingUp
<1>4. StopsQuiet
  BY Named, StopSame, StopGoQuiet
     DEF MakeDir, Download, PrepareCgroup, StartProcess, PutLogs, Register, StartFailed
<1>5. HistQuiet
  <2>1. CASE UNCHANGED hist BY <2>1 DEF HistQuiet, HistType, BindType
  <2>2. CASE Download(t) BY <2>2 DEF Download, HistQuiet, HistType, BindType
  <2> QED
    BY <2>1, <2>2
       DEF MakeDir, PrepareCgroup, StartProcess, PutLogs, Register, StartFailed, unseen
<1> QED BY <1>0, <1>2, <1>3, <1>4, <1>5 DEF Quiet

\* What the process, its output and the readers of its log do.
LEMMA WatchQuiet ==
  ASSUME BindType, NEW t \in Task,
         LeaderExits(t) \/ GroupEnds(t) \/ Observe(t) \/ Reuse(t) \/ ReadOutput(t)
         \/ OutputEnds(t) \/ ReadLog(t)
  PROVE  Quiet
<1>1. UNCHANGED <<rec, run, stops, bound, made, dirs, mounts, hist>>
  BY DEF LeaderExits, GroupEnds, Observe, Reuse, ReadOutput, OutputEnds, ReadLog, watching,
         agent, docker, setup, maps
<1> QED
  BY <1>1, StopSame DEF Quiet, RunQuiet, HistQuiet, HistType, BindType

LEMMA KeptGrows ==
  ASSUME HistType, NEW t \in Task, hist' = [hist EXCEPT !.kept = @ \cup {t}]
  PROVE  HistQuiet
BY DEF HistQuiet, HistType

\* The steps of a Stop that read and change nothing of the directory.
LEMMA StopStepQuiet ==
  ASSUME BindType, NEW t \in Task, NEW k \in Caller,
         BeginStop(t, k) \/ Terminate(t, k) \/ Kill(t, k) \/ Forget(t, k)
         \/ RemoveCgroup(t, k) \/ DockerStop(t, k)
  PROVE  Quiet
<1>1. UNCHANGED <<rec, run, bound, made, dirs, mounts>>
  BY DEF BeginStop, Terminate, Kill, Forget, RemoveCgroup, DockerStop, HaltContainer,
         RemoveContainer, RetireContainerLog, unseen, agent, host, docker, setup, maps, onHost
<1>2. StopsQuiet
  BY Named, StopGoQuiet, StopIdleQuiet, StopEndsQuiet
     DEF BeginStop, Terminate, Kill, Forget, RemoveCgroup, DockerStop, HaltContainer,
         RemoveContainer, RetireContainerLog
<1>3. HistQuiet
  <2>1. \/ UNCHANGED hist
        \/ hist' = [hist EXCEPT !.kept = @ \cup {t}]
    BY DEF BeginStop, Terminate, Kill, Forget, RemoveCgroup, DockerStop, HaltContainer,
           RemoveContainer, RetireContainerLog, unseen
  <2>2. CASE UNCHANGED hist BY <2>2 DEF HistQuiet, HistType, BindType
  <2>3. CASE hist' = [hist EXCEPT !.kept = @ \cup {t}]
    BY <2>3, KeptGrows DEF BindType, HistType
  <2> QED BY <2>1, <2>2, <2>3
<1> QED BY <1>1, <1>2, <1>3 DEF Quiet, RunQuiet, BindType

LEMMA DockerRunQuiet ==
  ASSUME BindType, NEW t \in Task, NotYet(t), DockerRun(t)
  PROVE  Quiet
<1> USE DEF DockerRun, Pull, CreateContainer, CreateLands, StartContainer, StreamLogs,
            ContainerExits
<1>1. UNCHANGED <<rec, stops, bound, made, dirs, mounts, hist>>
  BY DEF Go, agent, onHost, host, setup, maps
<1>2. \/ UNCHANGED run
      \/ /\ \E pc \in {"create", "err", "ctrstart", "stream", "ok"} :
              run' = [run EXCEPT ![t] = pc]
         /\ run[t] # "idle"
  BY DEF Go, agent
<1>3. RunQuiet BY <1>1, <1>2 DEF RunQuiet, NotYet, SettingUp, BindType
<1>4. DOMAIN run' = Task BY <1>2 DEF BindType
<1> QED BY <1>1, <1>3, <1>4, StopSame DEF Quiet, HistQuiet, HistType, BindType

-----------------------------------------------------------------------------
(* The steps that make, record and undo binds.                             *)

\* The step is of task t: of the others nothing changes that has a say.
Elsewhere(t) == \A s \in Task \ {t} :
  /\ rec'[s] = rec[s] /\ run'[s] = run[s] /\ stops'[s] = stops[s]
  /\ bound'[s] = bound[s] /\ made'[s] = made[s] /\ mounts'[s] = mounts[s]
  /\ s \in dirs' <=> s \in dirs

LEMMA OneTask ==
  ASSUME BindInv, BindType', HostFilesSafe', NEW t \in Task, Elsewhere(t), TaskInv(t)'
  PROVE  BindInv'
<1>1. ASSUME NEW s \in Task \ {t} PROVE TaskInv(s)'
  <2>1. TaskInv(s) BY DEF BindInv
  <2> QED BY <2>1 DEF TaskInv, Elsewhere, NotYet, SetUp, Listed, ReadList
<1> QED BY <1>1 DEF BindInv

LEMMA MountKeeps ==
  ASSUME BindInv, NEW t \in Task, MountVolume(t) \/ PublishDir(t) \/ RollBack(t)
  PROVE  BindInv'
<1> USE DEF BindInv, BindType
<1>1. run[t] = "mount" /\ rec[t] # "none"
  BY DEF MountVolume, PublishDir, RollBack, TaskInv, NotYet
<1>2. UNCHANGED <<rec, stops>>
  BY DEF MountVolume, PublishDir, RollBack, Go, agent
<1>3. /\ bound[t] \subseteq made[t] /\ t \notin dirs
      /\ \A k \in Caller : ~ stops[t][k].dir
  BY <1>1 DEF TaskInv, SetUp, SettingUp
<1>4. HistQuiet BY DEF MountVolume, PublishDir, RollBack, HistQuiet, HistType
<1>5. HostFilesSafe' BY <1>4 DEF HistQuiet, HostFilesSafe
<1>6. CASE MountVolume(t)
  <2>1. PICK v \in Volume \ made[t] : /\ bound' = [bound EXCEPT ![t] = @ \cup {v}]
                                      /\ made' = [made EXCEPT ![t] = @ \cup {v}]
    BY <1>6 DEF MountVolume
  <2>2. UNCHANGED <<run, dirs, mounts>> BY <1>6 DEF MountVolume, agent, maps
  <2>3. BindType' BY <1>2, <1>4, <2>1, <2>2 DEF HistQuiet, HistType
  <2>4. Elsewhere(t) BY <1>2, <2>1, <2>2 DEF Elsewhere
  <2>5. TaskInv(t)'
    BY <1>1, <1>2, <1>3, <2>1, <2>2 DEF TaskInv, NotYet, SetUp, Listed, ReadList
  <2> QED BY <1>5, <2>3, <2>4, <2>5, OneTask
<1>7. ASSUME NEW F \in SUBSET made[t], bound' = [bound EXCEPT ![t] = F], Publish(t),
             NEW pc \in {"download", "err"}, Go(t, pc)
      PROVE  BindInv'
  <2>1. BindType' BY <1>2, <1>4, <1>7 DEF HistQuiet, HistType, Publish, Go
  <2>2. Elsewhere(t) BY <1>2, <1>7 DEF Elsewhere, Publish, Go
  <2>3. TaskInv(t)'
    BY <1>1, <1>2, <1>3, <1>7
       DEF TaskInv, NotYet, SetUp, Listed, ReadList, Publish, Go, SettingUp
  <2> QED BY <1>5, <2>1, <2>2, <2>3, OneTask
<1>8. CASE PublishDir(t)
  <2>1. UNCHANGED bound BY <1>8 DEF PublishDir, host
  <2>2. bound' = [bound EXCEPT ![t] = bound[t]] /\ bound[t] \in SUBSET made[t]
    BY <1>3, <2>1
  <2> QED BY <1>7, <1>8, <2>2 DEF PublishDir
<1>9. CASE RollBack(t)
  <2>1. CASE /\ bound' = [bound EXCEPT ![t] = {}] /\ made' = [made EXCEPT ![t] = {}]
             /\ UNCHANGED <<dirs, mounts>>
    <3>1. Go(t, "err") BY <1>9 DEF RollBack
    <3>2. BindType' BY <1>2, <1>4, <2>1, <3>1 DEF HistQuiet, HistType, Go
    <3>3. Elsewhere(t) BY <1>2, <2>1, <3>1 DEF Elsewhere, Go
    <3>4. TaskInv(t)'
      BY <1>1, <1>2, <1>3, <2>1, <3>1
         DEF TaskInv, NotYet, SetUp, Listed, ReadList, Go, SettingUp
    <3> QED BY <1>5, <3>2, <3>3, <3>4, OneTask
  <2>2. CASE \E F \in SUBSET made[t] : bound' = [bound EXCEPT ![t] = F] /\ Publish(t)
    BY <1>7, <1>9, <2>2 DEF RollBack
  <2> QED BY <1>9, <2>1, <2>2 DEF RollBack
<1> QED BY <1>6, <1>8, <1>9

LEMMA CleanKeeps ==
  ASSUME BindInv, NEW t \in Task, NEW k \in Caller,
         CleanTaskDir(t, k) \/ Unmount(t, k) \/ RemoveDir(t, k) \/ Unmap(t, k)
  PROVE  BindInv'
<1> USE Named DEF BindInv
<1>0. BindType /\ TaskInv(t) /\ stops[t][k] \in StopRec BY DEF BindType
<1>1. UNCHANGED <<rec, run, made>>
  BY DEF CleanTaskDir, Unmount, RemoveDir, Unmap, agent, setup
<1>2. CASE CleanTaskDir(t, k)
  <2>1. [pc |-> "unmount", dir |-> t \in dirs, binds |-> mounts[t]] \in StopRec
    BY <1>0 DEF StopRec, Places, BindType
  <2>2. PICK r \in StopRec :
          /\ r.pc = "unmount" /\ r.dir = (t \in dirs) /\ r.binds = mounts[t]
          /\ stops' = [stops EXCEPT ![t][k] = r]
    BY <1>2, <2>1 DEF CleanTaskDir
  <2>3. UNCHANGED <<bound, dirs, mounts, hist>>
    BY <1>2 DEF CleanTaskDir, host, maps
  <2>4. /\ stops' \in [Task -> [Caller -> StopRec]]
        /\ \A s \in Task, c \in Caller :
             stops'[s][c] = IF s = t /\ c = k THEN r ELSE stops[s][c]
    BY <1>0, <2>2, StopSet
  <2>5. BindType' /\ HostFilesSafe' BY <1>1, <2>3, <2>4 DEF BindType, HostFilesSafe
  <2>6. Elsewhere(t) BY <1>1, <2>2, <2>3 DEF Elsewhere, BindType
  <2>7. TaskInv(t)'
    BY <1>0, <1>1, <2>2, <2>3, <2>4, ZenonT(30) DEF TaskInv, NotYet, SetUp, Listed, ReadList
  <2> QED BY <2>5, <2>6, <2>7, OneTask
<1>3. CASE Unmount(t, k)
  <2>1. PICK F \in SUBSET (stops[t][k].binds \cap bound[t]) :
          /\ bound' = [bound EXCEPT ![t] = (@ \ stops[t][k].binds) \cup F]
          /\ \/ F = {} /\ StopGo(t, k, "remove") /\ UNCHANGED hist
             \/ StopGo(t, k, AfterDir(k)) /\ hist' = [hist EXCEPT !.kept = @ \cup {t}]
    <3>1. CASE /\ bound' = [bound EXCEPT ![t] = @ \ stops[t][k].binds]
               /\ StopGo(t, k, "remove") /\ UNCHANGED hist
      BY <1>0, <3>1 DEF BindType
    <3> QED BY <1>3, <3>1 DEF Unmount
  <2>2. UNCHANGED <<dirs, mounts>> /\ stops[t][k].pc = "unmount" BY <1>3 DEF Unmount, maps
  <2>3. PICK pc \in Places : /\ StopGo(t, k, pc) /\ pc # "unmount"
                             /\ pc = "remove" => F = {}
    <3>1. "remove" \in Places BY DEF Places
    <3> QED BY <2>1, <3>1
  <2>4. /\ stops' \in [Task -> [Caller -> StopRec]]
        /\ \A s \in Task, c \in Caller : s # t \/ c # k => stops'[s][c] = stops[s][c]
        /\ stops'[t][k].pc = pc /\ stops'[t][k].dir = stops[t][k].dir
    BY <1>0, <2>3, StopMoves
  <2>5. /\ bound'[t] \subseteq bound[t] /\ bound' \in [Task -> SUBSET Volume]
        /\ \A s \in Task \ {t} : bound'[s] = bound[s]
        /\ (F = {} => bound'[t] = bound[t] \ stops[t][k].binds)
    BY <1>0, <2>1 DEF BindType
  <2>6. HistQuiet
    <3>1. UNCHANGED hist \/ hist' = [hist EXCEPT !.kept = @ \cup {t}] BY <2>1
    <3> QED BY <1>0, <3>1 DEF HistQuiet, HistType, BindType
  <2>7. BindType' /\ HostFilesSafe'
    BY <1>0, <1>1, <2>2, <2>4, <2>5, <2>6 DEF BindType, HostFilesSafe, HistQuiet, HistType
  <2>8. Elsewhere(t) BY <1>1, <2>1, <2>2, <2>3, <2>5 DEF Elsewhere, BindType, StopGo
  <2>9. ReadList(t)'
    <3> SUFFICES ASSUME NEW c \in Caller, stops'[t][c].dir
                 PROVE  /\ stops'[t][c].pc = "unmount" => bound'[t] \subseteq stops'[t][c].binds
                        /\ stops'[t][c].pc = "remove" => bound'[t] = {}
      BY DEF ReadList
    <3>1. ReadList(t) BY <1>0 DEF TaskInv
    <3>2. CASE c # k BY <2>4, <2>5, <3>1, <3>2 DEF ReadList
    <3>3. CASE c = k
      <4>1. bound[t] \subseteq stops[t][k].binds BY <2>2, <2>4, <3>1, <3>3 DEF ReadList
      <4>2. bound[t] \ stops[t][k].binds = {} BY <4>1
      <4>3. F = {} => bound'[t] = {} BY <2>5, <4>2
      <4> QED BY <2>3, <2>4, <3>3, <4>3
    <3> QED BY <3>2, <3>3
  <2>10. TaskInv(t)'
    BY <1>0, <1>1, <2>2, <2>4, <2>5, <2>9 DEF TaskInv, NotYet, SetUp, Listed
  <2> QED BY <2>7, <2>8, <2>10, OneTask
<1>4. CASE RemoveDir(t, k)
  <2>1. UNCHANGED <<bound, dirs, mounts>> /\ stops[t][k].pc = "remove"
    BY <1>4 DEF RemoveDir, maps
  <2>2. \E pc \in Places \ {"unmount", "remove"} : StopGo(t, k, pc)
    BY <1>4 DEF RemoveDir
  <2>3. StopsQuiet BY <1>0, <2>2, StopGoQuiet
  <2>4. stops[t][k].dir => bound[t] = {} BY <1>0, <2>1 DEF TaskInv, ReadList
  <2>5. HistQuiet
    <3>1. hist \in [kept : SUBSET Task, stray : SUBSET Task, through : SUBSET Task]
      BY <1>0 DEF BindType
    <3>2. \/ hist' = [hist EXCEPT !.through = hist.through]
          \/ hist' = [hist EXCEPT !.kept = @ \cup {t}]
      BY <1>4, <2>4 DEF RemoveDir
    <3> QED BY <3>1, <3>2 DEF HistQuiet, HistType
  <2>6. Quiet BY <1>0, <1>1, <2>1, <2>3, <2>5 DEF Quiet, RunQuiet, BindType
  <2> QED BY <2>6, QuietKeeps
<1>5. CASE Unmap(t, k)
  <2>1. StopsQuiet BY <1>0, <1>5, StopIdleQuiet DEF Unmap
  <2>2. UNCHANGED <<bound, hist>> /\ dirs' \subseteq dirs
        /\ \A s \in Task : s \in dirs' => mounts'[s] = mounts[s]
    BY <1>0, <1>5 DEF Unmap, host, BindType
  <2>3. mounts' \in [Task -> SUBSET Volume] BY <1>0, <1>5 DEF Unmap, BindType
  <2>4. BindType' /\ HostFilesSafe'
    BY <1>0, <1>1, <2>1, <2>2, <2>3 DEF BindType, HostFilesSafe, StopsQuiet
  <2>5. ASSUME NEW s \in Task PROVE TaskInv(s)'
    <3>1. TaskInv(s) OBVIOUS
    <3> QED BY <1>1, <2>1, <2>2, <3>1
            DEF TaskInv, NotYet, SetUp, Listed, ReadList, StopsQuiet
  <2> QED BY <2>4, <2>5
<1> QED BY <1>2, <1>3, <1>4, <1>5

LEMMA RestartKeeps ==
  ASSUME BindInv, AgentRestarts
  PROVE  BindInv'
<1> USE DEF BindInv
<1>1. /\ rec' = [t \in Task |-> IF rec[t] = "none" THEN "none" ELSE "gone"]
      /\ run' = [t \in Task |-> "idle"]
      /\ stops' = [t \in Task |-> [k \in Caller |-> StopIdle]]
      /\ made' = [t \in Task |-> {}]
      /\ dirs' = {} /\ mounts' = [t \in Task |-> {}]
      /\ UNCHANGED bound
  BY DEF AgentRestarts, host
<1>2. HistQuiet BY ZenonT(30) DEF AgentRestarts, HistQuiet, HistType, BindType
<1>3. StopIdle \in StopRec /\ ~ StopIdle.dir BY DEF StopIdle, StopRec, Places
<1>4. BindType' BY <1>1, <1>2, <1>3 DEF BindType, HistQuiet, HistType
<1>5. HostFilesSafe' BY <1>2 DEF HistQuiet, HostFilesSafe
<1>6. ASSUME NEW t \in Task PROVE TaskInv(t)'
  <2>1. TaskInv(t) OBVIOUS
  <2> QED BY <1>1, <1>3, <2>1 DEF TaskInv, NotYet, SetUp, Listed, ReadList, SettingUp
<1> QED BY <1>4, <1>5, <1>6

LEMMA BindStep ==
  ASSUME BindInv, [Next]_vars
  PROVE  BindInv'
<1>0. BindType /\ \A t \in Task : NotYet(t) BY DEF BindInv, TaskInv
<1>1. ASSUME NEW t \in Task, ExecRun(t) PROVE BindInv'
  BY <1>0, <1>1, RunStepQuiet, MountKeeps, QuietKeeps DEF ExecRun
<1>2. ASSUME NEW t \in Task, NEW k \in Caller, ExecStop(t, k) PROVE BindInv'
  BY <1>0, <1>2, StopStepQuiet, CleanKeeps, QuietKeeps DEF ExecStop
<1>3. CASE UNCHANGED vars
  <2>1. UNCHANGED <<rec, run, stops, bound, made, dirs, mounts, hist>>
    BY <1>3 DEF vars, agent, host, setup, maps
  <2>2. Quiet BY <1>0, <2>1, StopSame DEF Quiet, RunQuiet, HistQuiet, HistType, BindType
  <2> QED BY <2>2, QuietKeeps
<1> QED BY <1>0, <1>1, <1>2, <1>3, AgentQuiet, DockerRunQuiet, StopStepQuiet, WatchQuiet,
           RestartKeeps, QuietKeeps DEF Next

LEMMA InitHolds ==
  ASSUME Init
  PROVE  BindInv
<1>1. StopIdle \in StopRec /\ ~ StopIdle.dir BY DEF StopIdle, StopRec, Places
<1>2. BindType BY <1>1 DEF Init, BindType
<1>3. HostFilesSafe BY DEF Init, HostFilesSafe
<1>4. \A t \in Task : TaskInv(t)
  BY <1>1 DEF Init, TaskInv, NotYet, SetUp, Listed, ReadList, SettingUp
<1> QED BY <1>2, <1>3, <1>4 DEF BindInv

-----------------------------------------------------------------------------
(* Types.                                                                  *)

\* All of TypeOK but for the logs (LogInv) and the Stops (BindType).
HostTypes ==
  /\ driver \in [Task -> {"exec", "docker"}]
  /\ rec \in [Task -> {"none", "queued", "running", "failed", "gone"}]
  /\ run \in [Task -> {"idle", "dir", "mount", "download", "cgroup", "start", "log",
                       "register", "failing", "pull", "create", "ctrstart", "stream",
                       "ok", "err", "restart"}]
  /\ dir \subseteq Task /\ cgroup \subseteq Task
  /\ bound \in [Task -> SUBSET Volume]
  /\ group \in [Task -> {"none", "up", "left", "gone", "reused"}]
  /\ ctr \in [Task -> {"none", "created", "up", "exited"}]
  /\ late \in [Task -> {"no", "pending", "landed"}]
  /\ made \in [Task -> SUBSET Volume] /\ fd \subseteq Task
  /\ owned \subseteq Task /\ groupGone \subseteq Task
  /\ dirs \subseteq Task
  /\ mounts \in [Task -> SUBSET Volume] /\ \A t \in Task \ dirs : mounts[t] = {}
  /\ reading \subseteq Task
  /\ HistType
  /\ faults \in 0 .. MaxFaults

LEMMA Bound == MaxFaults \in Nat BY HostAssumption

\* A fault is one more; what history keeps of a failed Stop.
LEMMA FaultType ==
  ASSUME HostTypes, Fault \/ UNCHANGED faults
  PROVE  faults' \in 0 .. MaxFaults
BY Bound DEF HostTypes, Fault

LEMMA KeptType ==
  ASSUME HistType, NEW t \in Task, hist' = [hist EXCEPT !.kept = @ \cup {t}]
  PROVE  /\ HistType' /\ hist'.kept = hist.kept \cup {t}
         /\ hist'.stray = hist.stray /\ hist'.through = hist.through
BY DEF HistType

LEMMA AgentTypes ==
  ASSUME HostTypes, NEW t \in Task,
         AcceptRun(t) \/ RunReturns(t) \/ RequestStop(t) \/ DetectCrash(t) \/ Restart(t)
  PROVE  HostTypes'
<1> USE Bound
    DEF HostTypes, HistType, Fault, unseen, host, docker, setup, maps, logs
<1>1. CASE AcceptRun(t) BY <1>1 DEF AcceptRun
<1>2. CASE RunReturns(t) BY <1>2 DEF RunReturns
<1>3. CASE RequestStop(t) BY <1>3 DEF RequestStop
<1>4. CASE DetectCrash(t) BY <1>4 DEF DetectCrash
<1>5. CASE Restart(t) BY <1>5 DEF Restart
<1> QED BY <1>1, <1>2, <1>3, <1>4, <1>5

LEMMA StartTypes ==
  ASSUME HostTypes, NEW t \in Task, ExecRun(t)
  PROVE  HostTypes'
<1> USE Bound
    DEF HostTypes, HistType, Fault, Go, Publish, Required, unseen, agent, host, docker,
        setup, maps, logs
<1>1. CASE MakeDir(t) BY <1>1 DEF MakeDir
<1>2. CASE MountVolume(t) BY <1>2 DEF MountVolume
<1>3. CASE PublishDir(t) BY <1>3 DEF PublishDir
<1>4. CASE RollBack(t) BY <1>4 DEF RollBack
<1>5. CASE Download(t) BY <1>5 DEF Download
<1>6. CASE PrepareCgroup(t) BY <1>6 DEF PrepareCgroup
<1>7. CASE StartProcess(t) BY <1>7 DEF StartProcess
<1>8. CASE PutLogs(t) BY <1>8 DEF PutLogs
<1>9. CASE Register(t) BY <1>9 DEF Register
<1>10. CASE StartFailed(t) BY <1>10 DEF StartFailed
<1> QED BY <1>1, <1>2, <1>3, <1>4, <1>5, <1>6, <1>7, <1>8, <1>9, <1>10 DEF ExecRun

LEMMA StopTypes ==
  ASSUME HostTypes, BindType, NEW t \in Task, NEW k \in Caller,
         BeginStop(t, k) \/ ExecStop(t, k) \/ DockerStop(t, k)
  PROVE  HostTypes'
<1> USE DEF agent, unseen, host, docker, setup, maps, logs, onHost
<1>0. HistType BY DEF HostTypes
<1>1. CASE BeginStop(t, k) BY <1>1 DEF BeginStop, HostTypes, HistType
<1>2. CASE Terminate(t, k) BY <1>2 DEF Terminate, HostTypes, HistType
<1>3. CASE Kill(t, k)
  <2>1. HistType' BY <1>0, <1>3, KeptType DEF Kill, HistType
  <2>2. faults' \in 0 .. MaxFaults BY <1>3, FaultType DEF Kill
  <2> QED BY <1>3, <2>1, <2>2 DEF Kill, HostTypes
<1>4. CASE Forget(t, k) BY <1>4 DEF Forget, HostTypes, HistType
<1>5. CASE CleanTaskDir(t, k) BY <1>5 DEF CleanTaskDir, HostTypes, HistType
<1>6. CASE Unmount(t, k)
  <2>1. HistType' BY <1>0, <1>6, KeptType DEF Unmount, HistType
  <2>2. faults' \in 0 .. MaxFaults BY <1>6, FaultType DEF Unmount
  <2>3. bound' \in [Task -> SUBSET Volume] BY <1>6 DEF Unmount, HostTypes
  <2> QED BY <1>6, <2>1, <2>2, <2>3 DEF Unmount, HostTypes
<1>7. CASE RemoveDir(t, k)
  <2>1. HistType'
    <3>1. ASSUME NEW S \in SUBSET Task, hist' = [hist EXCEPT !.through = S]
          PROVE  HistType'
      BY <1>0, <3>1 DEF HistType
    <3>2. hist.through \cup {t} \in SUBSET Task /\ hist.through \in SUBSET Task
      BY <1>0 DEF HistType
    <3> QED BY <1>0, <1>7, <3>1, <3>2, KeptType DEF RemoveDir
  <2>2. faults' \in 0 .. MaxFaults BY <1>7, FaultType DEF RemoveDir
  <2>3. dir' \subseteq Task BY <1>7 DEF RemoveDir, HostTypes
  <2> QED BY <1>7, <2>1, <2>2, <2>3 DEF RemoveDir, HostTypes
<1>8. CASE Unmap(t, k) BY <1>8 DEF Unmap, HostTypes, HistType
<1>9. CASE RemoveCgroup(t, k) BY <1>9 DEF RemoveCgroup, HostTypes, HistType
<1>10. CASE HaltContainer(t, k)
  <2>1. faults' \in 0 .. MaxFaults BY <1>10, FaultType DEF HaltContainer
  <2>2. ctr' \in [Task -> {"none", "created", "up", "exited"}]
    BY <1>10 DEF HaltContainer, HostTypes, Ctr
  <2> QED BY <1>10, <2>1, <2>2 DEF HaltContainer, HostTypes, HistType
<1>11. CASE RemoveContainer(t, k)
  <2>1. HistType' BY <1>0, <1>11, KeptType DEF RemoveContainer, HistType
  <2>2. faults' \in 0 .. MaxFaults BY <1>11, FaultType DEF RemoveContainer
  <2> QED BY <1>11, <2>1, <2>2 DEF RemoveContainer, HostTypes, Ctr
<1>12. CASE RetireContainerLog(t, k) BY <1>12 DEF RetireContainerLog, HostTypes, HistType
<1> QED
  BY <1>1, <1>2, <1>3, <1>4, <1>5, <1>6, <1>7, <1>8, <1>9, <1>10, <1>11, <1>12
     DEF ExecStop, DockerStop

LEMMA WatchTypes ==
  ASSUME HostTypes, NEW t \in Task,
         LeaderExits(t) \/ GroupEnds(t) \/ Observe(t) \/ Reuse(t) \/ ReadOutput(t)
         \/ OutputEnds(t) \/ ReadLog(t)
  PROVE  HostTypes'
<1> USE Bound
    DEF HostTypes, HistType, Fault, watching, agent, docker, setup, maps, logs
<1>1. CASE LeaderExits(t) BY <1>1 DEF LeaderExits
<1>2. CASE GroupEnds(t) BY <1>2 DEF GroupEnds
<1>3. CASE Observe(t) BY <1>3 DEF Observe
<1>4. CASE Reuse(t) BY <1>4 DEF Reuse
<1>5. CASE ReadOutput(t) BY <1>5 DEF ReadOutput
<1>6. CASE OutputEnds(t) BY <1>6 DEF OutputEnds
<1>7. CASE ReadLog(t) BY <1>7 DEF ReadLog
<1> QED BY <1>1, <1>2, <1>3, <1>4, <1>5, <1>6, <1>7

LEMMA DockerTypes ==
  ASSUME HostTypes, NEW t \in Task, DockerRun(t)
  PROVE  HostTypes'
<1> USE Bound
    DEF HostTypes, HistType, Fault, Go, Ctr, onHost, agent, host, docker, setup, maps, logs
<1>1. CASE Pull(t) BY <1>1 DEF Pull
<1>2. CASE CreateContainer(t) BY <1>2 DEF CreateContainer
<1>3. CASE CreateLands(t) BY <1>3 DEF CreateLands
<1>4. CASE StartContainer(t) BY <1>4 DEF StartContainer
<1>5. CASE StreamLogs(t) BY <1>5 DEF StreamLogs
<1>6. CASE ContainerExits(t) BY <1>6 DEF ContainerExits
<1> QED BY <1>1, <1>2, <1>3, <1>4, <1>5, <1>6 DEF DockerRun

LEMMA RestartTypes ==
  ASSUME HostTypes, AgentRestarts
  PROVE  HostTypes'
<1>1. HistType' BY DEF HostTypes, HistType, AgentRestarts
<1>2. faults' \in 0 .. MaxFaults BY FaultType DEF AgentRestarts
<1>3. ctr' \in [Task -> {"none", "created", "up", "exited"}] BY DEF HostTypes, AgentRestarts
<1> QED BY <1>1, <1>2, <1>3 DEF HostTypes, AgentRestarts, host

LEMMA HostTypesStep ==
  ASSUME HostTypes, BindType, [Next]_vars
  PROVE  HostTypes'
<1>1. CASE UNCHANGED vars
  BY <1>1 DEF vars, HostTypes, HistType, agent, host, docker, setup, maps, logs
<1> QED BY <1>1, AgentTypes, StartTypes, StopTypes, WatchTypes, DockerTypes, RestartTypes
        DEF Next

-----------------------------------------------------------------------------
(* Logs.                                                                   *)

LEMMA LogStep ==
  ASSUME LogInv, [Next]_vars
  PROVE  LogInv'
<1> USE DEF unseen, logs
<1>1. ASSUME NEW t \in Task,
             AcceptRun(t) \/ RunReturns(t) \/ RequestStop(t) \/ DetectCrash(t) \/ Restart(t)
      PROVE  LogInv'
  BY <1>1, LogUnchanged DEF AcceptRun, RunReturns, RequestStop, DetectCrash, Restart
<1>2. ASSUME NEW t \in Task, ExecRun(t) PROVE LogInv'
  BY <1>2, LogUnchanged, PutKeeps
     DEF ExecRun, MakeDir, MountVolume, PublishDir, RollBack, Download, PrepareCgroup,
         StartProcess, PutLogs, Register, StartFailed
<1>3. ASSUME NEW t \in Task, DockerRun(t) PROVE LogInv'
  BY <1>3, LogUnchanged, PutKeeps
     DEF DockerRun, Pull, CreateContainer, CreateLands, StartContainer, StreamLogs,
         ContainerExits
<1>4. ASSUME NEW t \in Task, NEW k \in Caller,
             BeginStop(t, k) \/ ExecStop(t, k) \/ DockerStop(t, k)
      PROVE  LogInv'
  BY <1>4, LogUnchanged, RetireKeeps
     DEF BeginStop, ExecStop, Terminate, Kill, Forget, CleanTaskDir, Unmount, RemoveDir,
         Unmap, RemoveCgroup, DockerStop, HaltContainer, RemoveContainer, RetireContainerLog
<1>5. ASSUME NEW t \in Task,
             LeaderExits(t) \/ GroupEnds(t) \/ Observe(t) \/ Reuse(t) \/ ReadOutput(t)
             \/ OutputEnds(t) \/ ReadLog(t)
      PROVE  LogInv'
  BY <1>5, LogUnchanged, WriteKeeps, EndKeeps, ReadingKeeps
     DEF LeaderExits, GroupEnds, Observe, Reuse, ReadOutput, OutputEnds, ReadLog
<1>6. CASE AgentRestarts BY <1>6, ForgetKeeps DEF AgentRestarts
<1>7. CASE UNCHANGED vars BY <1>7, LogUnchanged DEF vars
<1> QED BY <1>1, <1>2, <1>3, <1>4, <1>5, <1>6, <1>7 DEF Next

-----------------------------------------------------------------------------
(* What a task leaves behind.                                              *)

\* Where a Stop is, by what it is still to do.
Killing == {"term", "kill", "forget"}
ToKill == {"begin"} \cup Killing
ToClean == ToKill \cup {"clean"}
InDir == {"unmount", "remove", "unmap"}
ToRemove == {"begin", "halt", "rm"}
Containing == {"halt", "rm", "hush"}

\* Where a start is.
ToStart == {"dir", "mount", "download", "cgroup", "start"}
Started == {"log", "register"}
ExecStart == ToStart \cup Started \cup {"failing"}
DockerStart == {"pull", "create", "ctrstart", "stream"}

\* The Stops that take everything away; the cleanup of a failed start is not one.
Stopper == {"own", "request"}
Comes(t, P) == \E k \in Stopper : stops[t][k].pc \in P

\* A task that runs, so that whoever ends it is to stop it.
Serves(t) == run[t] = "idle" /\ rec[t] = "running"

\* A driver leaves what is the other's alone.
ByDriver(t) ==
  /\ driver[t] = "docker" =>
       /\ run[t] \notin ExecStart
       /\ t \notin dir /\ t \notin cgroup /\ t \notin owned /\ t \notin dirs
       /\ bound[t] = {} /\ group[t] = "none"
       /\ \A k \in Caller : stops[t][k].pc \in {"idle", "begin"} \cup Containing
  /\ driver[t] = "exec" =>
       /\ run[t] \notin DockerStart /\ ctr[t] = "none" /\ late[t] = "no"
       /\ \A k \in Caller : stops[t][k].pc \notin Containing

\* What is not there before it is made.
NotMade(t) ==
  /\ rec[t] = "none" => /\ late[t] = "no" /\ group[t] = "none"
                        /\ t \notin owned /\ t \notin dir
                        /\ \A k \in Caller : stops[t][k].pc = "idle"
  /\ run[t] \in ToStart => group[t] = "none"
  /\ run[t] \in ToStart \cup Started =>
       t \notin owned /\ \A k \in Caller : stops[t][k].pc \notin Killing
  /\ run[t] \in {"pull", "create", "ctrstart"} => late[t] = "no"

\* A group that is taken for gone is, and one that is alive is somebody's.
GroupKnown(t) ==
  /\ t \in groupGone => group[t] \in {"gone", "reused"}
  /\ \A k \in Caller : stops[t][k].pc = "forget" => group[t] \in {"gone", "reused"}
  /\ Alive(t) => run[t] \in Started \/ t \in owned \/ t \in hist.kept

\* A directory, and what is bound in it, is in the maps until it is removed.
DirKnown(t) ==
  /\ bound[t] # {} => run[t] = "mount" \/ t \in dirs \/ t \in hist.kept
  /\ t \in dir => run[t] = "mount" \/ t \in dirs \/ t \in hist.kept \cup hist.stray
  /\ \A k \in Caller : stops[t][k].dir /\ stops[t][k].pc = "unmap" =>
       bound[t] = {} /\ (t \in dir => t \in hist.kept \cup hist.stray)

\* Whatever a task still has, somebody is on the way to take away.
Owed(t) == t \notin hist.kept /\ ~ Serves(t) =>
  /\ t \in owned => run[t] = "ok" \/ Comes(t, ToKill)
  /\ t \in cgroup => \/ run[t] \in {"start", "ok", "failing", "err"} \cup Started
                     \/ \E k \in Stopper : stops[t][k].pc # "idle"
  /\ t \in dirs => \/ run[t] \in (ExecStart \ {"dir", "mount"}) \cup {"ok", "err"}
                   \/ Comes(t, ToClean)
                   \/ \E k \in Stopper : stops[t][k].pc \in InDir /\ stops[t][k].dir
  /\ shelf[t] = "live" => \/ run[t] \in {"register", "ok"}
                          \/ Comes(t, ToClean \cup Containing)
  /\ ctr[t] # "none" => \/ ctr[t] = "created" /\ late[t] = "landed"
                        \/ run[t] \in {"ctrstart", "stream", "ok", "err"}
                        \/ Comes(t, ToRemove)

LeftOver(t) == ByDriver(t) /\ NotMade(t) /\ GroupKnown(t) /\ DirKnown(t) /\ Owed(t)

\* The invariants that are proved by now.
CoreInv == BindInv /\ HostTypes /\ LogInv

LEMMA LeftInvImplies ==
  ASSUME CoreInv, \A t \in Task : LeftOver(t)
  PROVE  NothingLeft
<1> SUFFICES ASSUME NEW t \in Task \ hist.kept, rec[t] = "gone", run[t] = "idle",
                    \A k \in Caller : stops[t][k].pc = "idle"
             PROVE  /\ ~ Alive(t) /\ bound[t] = {} /\ t \notin cgroup
                    /\ (t \in dir => t \in hist.stray)
                    /\ (ctr[t] # "none" => ctr[t] = "created" /\ late[t] = "landed")
                    /\ t \notin owned /\ t \notin dirs
                    /\ shelf[t] # "live" /\ listener[t].on # "open"
  BY DEF NothingLeft
<1>1. LeftOver(t) /\ Ends(t) BY DEF CoreInv, LogInv
<1>2. \A k \in Stopper : stops[t][k].pc = "idle" BY DEF Stopper, Caller
<1>3. /\ t \notin owned /\ t \notin cgroup /\ t \notin dirs /\ shelf[t] # "live"
      /\ (ctr[t] # "none" => ctr[t] = "created" /\ late[t] = "landed")
  <2>1. Owed(t) /\ ~ Serves(t) BY <1>1 DEF LeftOver, Serves
  <2>2. ~ Comes(t, ToKill) /\ ~ Comes(t, ToClean) /\ ~ Comes(t, ToRemove)
        /\ ~ Comes(t, ToClean \cup Containing)
    BY <1>2 DEF Comes, ToKill, ToClean, Killing, Containing, ToRemove
  <2>3. t \notin owned /\ t \notin cgroup BY <1>2, <2>1, <2>2 DEF Owed, Started
  <2>4. t \notin dirs BY <1>2, <2>1, <2>2 DEF Owed, InDir, ExecStart, ToStart, Started
  <2>5. shelf[t] # "live" BY <2>1, <2>2 DEF Owed
  <2>6. (ctr[t] # "none" => ctr[t] = "created" /\ late[t] = "landed") BY <2>1, <2>2 DEF Owed
  <2> QED BY <2>3, <2>4, <2>5, <2>6
<1>4. listener[t].on # "open" BY <1>1, <1>3 DEF Ends
<1>5. ~ Alive(t) BY <1>1, <1>3 DEF LeftOver, GroupKnown, Started
<1>6. bound[t] = {} /\ (t \in dir => t \in hist.stray)
  BY <1>1, <1>3 DEF LeftOver, DirKnown
<1> QED BY <1>3, <1>4, <1>5, <1>6

-----------------------------------------------------------------------------
(* The steps of Stops: where they go, and what they touch of one task.     *)

LEMMA Callers ==
  /\ "own" \in Caller /\ "request" \in Caller /\ "run" \in Caller
  /\ Stopper \subseteq Caller
BY DEF Caller, Stopper

\* Every task but t is left alone.
Away(t) == \A s \in Task \ {t} :
  /\ driver'[s] = driver[s] /\ rec'[s] = rec[s] /\ run'[s] = run[s]
  /\ stops'[s] = stops[s] /\ bound'[s] = bound[s] /\ group'[s] = group[s]
  /\ ctr'[s] = ctr[s] /\ late'[s] = late[s] /\ shelf'[s] = shelf[s]
  /\ s \in dir' <=> s \in dir
  /\ s \in cgroup' <=> s \in cgroup
  /\ s \in owned' <=> s \in owned
  /\ s \in groupGone' <=> s \in groupGone
  /\ s \in dirs' <=> s \in dirs
  /\ s \in hist'.kept <=> s \in hist.kept
  /\ s \in hist'.stray <=> s \in hist.stray

LEMMA AwayKeeps ==
  ASSUME NEW t \in Task, Away(t), NEW s \in Task \ {t}, LeftOver(s)
  PROVE  LeftOver(s)'
BY DEF Away, LeftOver, ByDriver, NotMade, GroupKnown, DirKnown, Owed, Serves, Comes, Alive

\* Stop k of t goes to pc, and the others stay.
StopTo(t, k, pc) == \A c \in Caller :
  /\ stops'[t][c].pc = IF c = k THEN pc ELSE stops[t][c].pc
  /\ stops'[t][c].dir = stops[t][c].dir

\* Stop k of t is at pc without a directory.
StopRests(t, k, pc) == \A c \in Caller :
  stops'[t][c] = IF c = k THEN [StopIdle EXCEPT !.pc = pc] ELSE stops[t][c]

LEMMA StopGoes ==
  ASSUME BindType, NEW t \in Task, NEW k \in Caller, NEW pc, StopGo(t, k, pc)
  PROVE  StopTo(t, k, pc) /\ \A s \in Task \ {t} : stops'[s] = stops[s]
BY DEF BindType, StopRec, StopTo, StopGo

LEMMA StopSits ==
  ASSUME BindType, NEW t \in Task, NEW k \in Caller, NEW pc,
         stops' = [stops EXCEPT ![t][k] = [StopIdle EXCEPT !.pc = pc]]
  PROVE  StopRests(t, k, pc) /\ \A s \in Task \ {t} : stops'[s] = stops[s]
BY DEF BindType, StopRests

LEMMA StopDone ==
  ASSUME BindType, NEW t \in Task, NEW k \in Caller, StopEnds(t, k)
  PROVE  StopRests(t, k, "idle") /\ \A s \in Task \ {t} : stops'[s] = stops[s]
<1>1. StopIdle = [StopIdle EXCEPT !.pc = "idle"] BY DEF StopIdle
<1> QED BY <1>1, StopSits DEF StopEnds

\* A step of a Stop: what the next one still finds to do is owed as before.
LEMMA StopLeft ==
  ASSUME CoreInv, NEW t \in Task, NEW k \in Caller, LeftOver(t),
         BeginStop(t, k) \/ ExecStop(t, k) \/ DockerStop(t, k)
  PROVE  Away(t) /\ LeftOver(t)'
<1> USE DEF Stopper, Caller, Killing, ToKill, ToClean, InDir, ToRemove, Containing, ToStart,
            Started, ExecStart, DockerStart
<1>0. /\ BindType /\ HistType /\ HostTypes /\ LogTypeOK /\ ReadList(t)
      /\ driver[t] \in {"exec", "docker"}
  BY DEF CoreInv, BindInv, LogInv, TaskInv, HostTypes
<1>1. CASE BeginStop(t, k)
  <2>1. UNCHANGED <<driver, rec, run, late>>
    BY <1>1 DEF BeginStop, agent, docker, unseen
  <2>2. /\ UNCHANGED <<bound, group, ctr, shelf, dir, cgroup, owned, groupGone, dirs, hist>>
        /\ stops[t][k].pc = "begin"
        /\ StopTo(t, k, IF driver[t] = "docker" THEN "halt"
                        ELSE IF t \in owned THEN "term" ELSE "clean")
    BY <1>0, <1>1, StopGoes
       DEF BeginStop, agent, host, docker, maps, onHost, unseen, logs, logVars
  <2>3. Away(t)
    BY <1>0, <1>1, StopGoes, StopSits, StopDone, KeptType
       DEF BeginStop, Away, RetireLog, Ctr, HostTypes, BindType, LogTypeOK, agent, host,
           docker, setup, maps, logs, logVars, onHost, unseen
  <2>4. LeftOver(t)'
    BY <1>0, <2>1, <2>2
       DEF StopTo, LeftOver, ByDriver, NotMade, GroupKnown, DirKnown, Owed, Serves, Comes,
           Alive
  <2> QED BY <2>3, <2>4
<1>2. CASE Terminate(t, k)
  <2>1. UNCHANGED <<driver, rec, run, late>>
    BY <1>2 DEF Terminate, agent, docker, unseen
  <2>2. /\ UNCHANGED <<bound, group, ctr, shelf, dir, cgroup, owned, dirs, hist>>
        /\ stops[t][k].pc = "term"
        /\ \/ Seen(t) /\ groupGone' = groupGone \cup {t} /\ StopTo(t, k, "forget")
           \/ UNCHANGED groupGone /\ StopTo(t, k, "kill")
    BY <1>0, <1>2, StopGoes
       DEF Terminate, agent, host, docker, maps, onHost, unseen, logs, logVars
  <2>3. Away(t)
    BY <1>0, <1>2, StopGoes, StopSits, StopDone, KeptType
       DEF Terminate, Away, RetireLog, Ctr, HostTypes, BindType, LogTypeOK, agent, host,
           docker, setup, maps, logs, logVars, onHost, unseen
  <2>4. LeftOver(t)'
    BY <1>0, <2>1, <2>2
       DEF StopTo, Seen, LeftOver, ByDriver, NotMade, GroupKnown, DirKnown, Owed, Serves,
           Comes, Alive
  <2> QED BY <2>3, <2>4
<1>3. CASE Kill(t, k)
  <2>1. UNCHANGED <<driver, rec, run, late>>
    BY <1>3 DEF Kill, agent, docker, unseen
  <2>2. /\ UNCHANGED <<bound, ctr, shelf, dir, cgroup, owned, dirs>>
        /\ stops[t][k].pc = "kill" /\ hist'.stray = hist.stray
        /\ \/ /\ group'[t] = IF Seen(t) THEN group[t] ELSE "gone"
              /\ groupGone' = groupGone \cup {t} /\ UNCHANGED hist
              /\ StopTo(t, k, "forget")
           \/ /\ UNCHANGED <<group, groupGone>> /\ hist'.kept = hist.kept \cup {t}
              /\ StopRests(t, k, "idle")
    BY <1>0, <1>3, StopGoes, StopDone, KeptType
       DEF Kill, HostTypes, agent, host, docker, maps, onHost, unseen, logs, logVars
  <2>3. Away(t)
    <3>1. \A s \in Task \ {t} : stops'[s] = stops[s]
      BY <1>0, <1>3, StopGoes, StopDone DEF Kill
    <3>2. \A s \in Task \ {t} : group'[s] = group[s] BY <1>0, <1>3 DEF Kill, HostTypes
    <3>3. \A s \in Task \ {t} : s \in groupGone' <=> s \in groupGone BY <2>2
    <3>4. \A s \in Task \ {t} : s \in hist'.kept <=> s \in hist.kept BY <2>2
    <3> QED BY <2>1, <2>2, <3>1, <3>2, <3>3, <3>4 DEF Away
  <2>4. LeftOver(t)'
    BY <1>0, <2>1, <2>2
       DEF StopTo, StopRests, StopIdle, Seen, LeftOver, ByDriver, NotMade, GroupKnown,
           DirKnown, Owed, Serves, Comes, Alive
  <2> QED BY <2>3, <2>4
<1>4. CASE Forget(t, k)
  <2>1. UNCHANGED <<driver, rec, run, late>>
    BY <1>4 DEF Forget, agent, docker, unseen
  <2>2. /\ UNCHANGED <<bound, group, ctr, shelf, dir, cgroup, groupGone, dirs, hist>>
        /\ stops[t][k].pc = "forget" /\ owned' = owned \ {t} /\ StopTo(t, k, "clean")
    BY <1>0, <1>4, StopGoes
       DEF Forget, agent, host, docker, maps, onHost, unseen, logs, logVars
  <2>3. Away(t)
    BY <1>0, <1>4, StopGoes, StopSits, StopDone, KeptType
       DEF Forget, Away, RetireLog, Ctr, HostTypes, BindType, LogTypeOK, agent, host,
           docker, setup, maps, logs, logVars, onHost, unseen
  <2>4. LeftOver(t)'
    BY <1>0, <2>1, <2>2
       DEF StopTo, LeftOver, ByDriver, NotMade, GroupKnown, DirKnown, Owed, Serves, Comes,
           Alive
  <2> QED BY <2>3, <2>4
<1>5. CASE CleanTaskDir(t, k)
  <2>1. UNCHANGED <<driver, rec, run, late>>
    BY <1>5 DEF CleanTaskDir, agent, docker, unseen
  <2>2. /\ UNCHANGED <<bound, group, ctr, dir, cgroup, owned, groupGone, dirs, hist>>
        /\ stops[t][k].pc = "clean" /\ shelf'[t] # "live"
        /\ \A c \in Caller :
             /\ stops'[t][c].pc = IF c = k THEN "unmount" ELSE stops[t][c].pc
             /\ stops'[t][c].dir = IF c = k THEN t \in dirs ELSE stops[t][c].dir
    BY <1>0, <1>5
       DEF CleanTaskDir, RetireLog, LogTypeOK, BindType, agent, host, docker, maps, onHost,
           unseen, logs, logVars
  <2>3. Away(t)
    BY <1>0, <1>5, StopGoes, StopSits, StopDone, KeptType
       DEF CleanTaskDir, Away, RetireLog, Ctr, HostTypes, BindType, LogTypeOK, agent, host,
           docker, setup, maps, logs, logVars, onHost, unseen
  <2>4. LeftOver(t)'
    <3>1. ByDriver(t)' BY <1>0, <2>1, <2>2
        DEF LeftOver, ByDriver, Containing, ExecStart, ToStart, Started, DockerStart
    <3>2. NotMade(t)' BY <1>0, <2>1, <2>2 DEF LeftOver, NotMade, Killing, ToStart, Started
    <3>3. GroupKnown(t)' BY <1>0, <2>1, <2>2 DEF LeftOver, GroupKnown, Alive, Started
    <3>4. DirKnown(t)' BY <1>0, <2>1, <2>2 DEF LeftOver, DirKnown
    <3>5. Owed(t)'
      <4> SUFFICES ASSUME t \notin hist.kept, ~ Serves(t) PROVE Owed(t)'
        BY <2>1, <2>2 DEF Owed, Serves
      <4>1. Owed(t) BY DEF LeftOver
      <4>2. ctr'[t] = "none"
        BY <1>0, <2>2 DEF LeftOver, ByDriver, Containing
      <4>3. \A c \in Stopper : c # k => stops'[t][c].pc = stops[t][c].pc
                                        /\ stops'[t][c].dir = stops[t][c].dir
        BY <2>2, Callers
      <4>4. t \in owned' => run'[t] = "ok" \/ Comes(t, ToKill)'
        BY <2>1, <2>2, <4>1, <4>3 DEF Owed, Comes, ToKill, Killing
      <4>5. t \in cgroup' => \/ run'[t] \in {"start", "ok", "failing", "err"} \cup Started
                             \/ \E c \in Stopper : stops'[t][c].pc # "idle"
        BY <2>1, <2>2, <4>1, <4>3, Callers DEF Owed
      <4>6. t \in dirs' =>
              \/ run'[t] \in (ExecStart \ {"dir", "mount"}) \cup {"ok", "err"}
              \/ Comes(t, ToClean)'
              \/ \E c \in Stopper : stops'[t][c].pc \in InDir /\ stops'[t][c].dir
        BY <2>1, <2>2, <4>1, <4>3, Callers DEF Owed, Comes, InDir
      <4> QED BY <2>2, <4>2, <4>4, <4>5, <4>6 DEF Owed
    <3> QED BY <3>1, <3>2, <3>3, <3>4, <3>5 DEF LeftOver
  <2> QED BY <2>3, <2>4
<1>6. CASE Unmount(t, k)
  <2>1. UNCHANGED <<driver, rec, run, late>>
    BY <1>6 DEF Unmount, agent, docker, unseen
  <2>2. /\ UNCHANGED <<group, ctr, shelf, dir, cgroup, owned, groupGone, dirs>>
        /\ stops[t][k].pc = "unmount" /\ bound'[t] \subseteq bound[t]
        /\ hist'.stray = hist.stray
        /\ \/ UNCHANGED hist /\ StopTo(t, k, "remove")
           \/ hist'.kept = hist.kept \cup {t} /\ StopTo(t, k, AfterDir(k))
    BY <1>0, <1>6, StopGoes, KeptType
       DEF Unmount, HostTypes, agent, host, docker, maps, onHost, unseen, logs, logVars
  <2>3. Away(t)
    <3>1. \A s \in Task \ {t} : stops'[s] = stops[s] BY <1>0, <1>6, StopGoes DEF Unmount
    <3>2. \A s \in Task \ {t} : bound'[s] = bound[s] BY <1>0, <1>6 DEF Unmount, HostTypes
    <3>3. \A s \in Task \ {t} : s \in hist'.kept <=> s \in hist.kept BY <2>2
    <3> QED BY <2>1, <2>2, <3>1, <3>2, <3>3 DEF Away
  <2>4. LeftOver(t)'
    BY <1>0, <2>1, <2>2
       DEF StopTo, AfterDir, LeftOver, ByDriver, NotMade, GroupKnown, DirKnown, Owed,
           Serves, Comes, Alive
  <2> QED BY <2>3, <2>4
<1>7. CASE RemoveDir(t, k)
  <2>1. UNCHANGED <<driver, rec, run, late>>
    BY <1>7 DEF RemoveDir, agent, docker, unseen
  <2>2. /\ UNCHANGED <<bound, group, ctr, shelf, cgroup, owned, groupGone, dirs>>
        /\ stops[t][k].pc = "remove" /\ dir' \subseteq dir /\ hist'.stray = hist.stray
        /\ \/ /\ StopTo(t, k, "unmap") /\ (stops[t][k].dir => t \notin dir')
              /\ hist'.kept = hist.kept
           \/ StopTo(t, k, AfterDir(k)) /\ hist'.kept = hist.kept \cup {t}
    BY <1>0, <1>7, StopGoes, KeptType
       DEF RemoveDir, HistType, agent, host, docker, maps, onHost, unseen, logs, logVars
  <2>3. Away(t)
    <3>1. \A s \in Task \ {t} : stops'[s] = stops[s]
      BY <1>0, <1>7, StopGoes, StopDone DEF RemoveDir
    <3>2. \A s \in Task \ {t} : (s \in dir' <=> s \in dir) BY <1>0, <1>7
        DEF RemoveDir, HostTypes
    <3>3. \A s \in Task \ {t} : s \in groupGone' <=> s \in groupGone BY <2>2
    <3>4. \A s \in Task \ {t} : s \in hist'.kept <=> s \in hist.kept BY <2>2
    <3> QED BY <2>1, <2>2, <3>1, <3>2, <3>3, <3>4 DEF Away
  <2>4. LeftOver(t)'
    BY <1>0, <2>1, <2>2
       DEF StopTo, AfterDir, ReadList, LeftOver, ByDriver, NotMade, GroupKnown, DirKnown,
           Owed, Serves, Comes, Alive
  <2> QED BY <2>3, <2>4
<1>8. CASE Unmap(t, k)
  <2>1. UNCHANGED <<driver, rec, run, late>>
    BY <1>8 DEF Unmap, agent, docker, unseen
  <2>2. /\ UNCHANGED <<bound, group, ctr, shelf, dir, cgroup, owned, groupGone, hist>>
        /\ stops[t][k].pc = "unmap" /\ StopRests(t, k, AfterDir(k))
        /\ dirs' = IF stops[t][k].dir THEN dirs \ {t} ELSE dirs
    BY <1>0, <1>8, StopSits
       DEF Unmap, agent, host, docker, maps, onHost, unseen, logs, logVars
  <2>3. Away(t)
    BY <1>0, <1>8, StopGoes, StopSits, StopDone, KeptType
       DEF Unmap, Away, RetireLog, Ctr, HostTypes, BindType, LogTypeOK, agent, host, docker,
           setup, maps, logs, logVars, onHost, unseen
  <2>4. LeftOver(t)'
    BY <1>0, <2>1, <2>2
       DEF StopRests, StopIdle, AfterDir, LeftOver, ByDriver, NotMade, GroupKnown, DirKnown,
           Owed, Serves, Comes, Alive
  <2> QED BY <2>3, <2>4
<1>9. CASE RemoveCgroup(t, k)
  <2>1. UNCHANGED <<driver, rec, run, late>>
    BY <1>9 DEF RemoveCgroup, agent, docker, unseen
  <2>2. /\ UNCHANGED <<bound, group, ctr, shelf, dir, owned, groupGone, dirs, hist>>
        /\ stops[t][k].pc = "rmcg" /\ StopRests(t, k, AfterCgroup(k))
        /\ cgroup' = IF Alive(t) THEN cgroup ELSE cgroup \ {t}
    BY <1>0, <1>9, StopSits
       DEF RemoveCgroup, agent, host, docker, maps, onHost, unseen, logs, logVars
  <2>3. Away(t)
    BY <1>0, <1>9, StopGoes, StopSits, StopDone, KeptType
       DEF RemoveCgroup, Away, RetireLog, Ctr, HostTypes, BindType, LogTypeOK, agent, host,
           docker, setup, maps, logs, logVars, onHost, unseen
  <2>4. LeftOver(t)'
    BY <1>0, <2>1, <2>2
       DEF StopRests, StopIdle, AfterCgroup, LeftOver, ByDriver, NotMade, GroupKnown,
           DirKnown, Owed, Serves, Comes, Alive
  <2> QED BY <2>3, <2>4
<1>10. CASE HaltContainer(t, k)
  <2>1. UNCHANGED <<driver, rec, run, late>>
    BY <1>10 DEF HaltContainer, agent, docker, unseen
  <2>2. /\ UNCHANGED <<bound, group, shelf, dir, cgroup, owned, groupGone, dirs, hist>>
        /\ stops[t][k].pc = "halt" /\ StopTo(t, k, "rm")
        /\ ctr'[t] = ctr[t] \/ ctr[t] = "up"
    BY <1>0, <1>10, StopGoes
       DEF HaltContainer, Ctr, HostTypes, agent, host, docker, maps, onHost, unseen, logs,
           logVars
  <2>3. Away(t)
    BY <1>0, <1>10, StopGoes, StopSits, StopDone, KeptType
       DEF HaltContainer, Away, RetireLog, Ctr, HostTypes, BindType, LogTypeOK, agent, host,
           docker, setup, maps, logs, logVars, onHost, unseen
  <2>4. LeftOver(t)'
    BY <1>0, <2>1, <2>2
       DEF StopTo, LeftOver, ByDriver, NotMade, GroupKnown, DirKnown, Owed, Serves, Comes,
           Alive
  <2> QED BY <2>3, <2>4
<1>11. CASE RemoveContainer(t, k)
  <2>1. UNCHANGED <<driver, rec, run, late>>
    BY <1>11 DEF RemoveContainer, agent, docker, unseen
  <2>2. /\ UNCHANGED <<bound, group, shelf, dir, cgroup, owned, groupGone, dirs>>
        /\ stops[t][k].pc = "rm" /\ StopTo(t, k, "hush") /\ hist'.stray = hist.stray
        /\ \/ ctr'[t] = "none" /\ UNCHANGED hist
           \/ UNCHANGED ctr /\ hist'.kept = hist.kept \cup {t}
    BY <1>0, <1>11, StopGoes, KeptType
       DEF RemoveContainer, Ctr, HostTypes, agent, host, docker, maps, onHost, unseen, logs,
           logVars
  <2>3. Away(t)
    BY <1>0, <1>11, StopGoes, StopSits, StopDone, KeptType
       DEF RemoveContainer, Away, RetireLog, Ctr, HostTypes, BindType, LogTypeOK, agent,
           host, docker, setup, maps, logs, logVars, onHost, unseen
  <2>4. LeftOver(t)'
    BY <1>0, <2>1, <2>2
       DEF StopTo, LeftOver, ByDriver, NotMade, GroupKnown, DirKnown, Owed, Serves, Comes,
           Alive
  <2> QED BY <2>3, <2>4
<1>12. CASE RetireContainerLog(t, k)
  <2>1. UNCHANGED <<driver, rec, run, late>>
    BY <1>12 DEF RetireContainerLog, agent, docker, unseen
  <2>2. /\ UNCHANGED <<bound, group, ctr, dir, cgroup, owned, groupGone, dirs, hist>>
        /\ stops[t][k].pc = "hush" /\ StopRests(t, k, "idle") /\ shelf'[t] # "live"
    BY <1>0, <1>12, StopDone
       DEF RetireContainerLog, RetireLog, LogTypeOK, agent, host, docker, maps, onHost,
           unseen, logs, logVars
  <2>3. Away(t)
    BY <1>0, <1>12, StopGoes, StopSits, StopDone, KeptType
       DEF RetireContainerLog, Away, RetireLog, Ctr, HostTypes, BindType, LogTypeOK, agent,
           host, docker, setup, maps, logs, logVars, onHost, unseen
  <2>4. LeftOver(t)'
    BY <1>0, <2>1, <2>2
       DEF StopRests, StopIdle, LeftOver, ByDriver, NotMade, GroupKnown, DirKnown, Owed,
           Serves, Comes, Alive
  <2> QED BY <2>3, <2>4
<1> QED
  BY <1>1, <1>2, <1>3, <1>4, <1>5, <1>6, <1>7, <1>8, <1>9, <1>10, <1>11, <1>12
     DEF ExecStop, DockerStop

-----------------------------------------------------------------------------
(* The other steps.                                                        *)

\* The agent's decisions: a task that is given up is stopped.
LEMMA AgentLeft ==
  ASSUME CoreInv, \A u \in Task : LeftOver(u), NEW t \in Task,
         AcceptRun(t) \/ RunReturns(t) \/ RequestStop(t) \/ DetectCrash(t) \/ Restart(t),
         NEW s \in Task
  PROVE  LeftOver(s)'
<1> USE DEF Stopper, Caller, Killing, ToKill, ToClean, InDir, ToRemove, Containing, ToStart,
            Started, ExecStart, DockerStart
<1>0. /\ HostTypes /\ HistType /\ BindType /\ LogTypeOK /\ NotYet(t) /\ SetUp(t)
      /\ LeftOver(s) /\ LeftOver(t)
  BY DEF CoreInv, BindInv, LogInv, TaskInv, HostTypes
<1>1. CASE AcceptRun(t)
  <2>1. /\ UNCHANGED <<driver, late, bound, group, ctr, shelf, dir, cgroup, owned, groupGone,
                    dirs, hist, stops>>
        /\ rec[t] = "none" /\ rec'[t] = "queued"
        /\ run'[t] = IF driver[t] = "exec" THEN "dir" ELSE "pull"
    BY <1>0, <1>1
       DEF AcceptRun, HostTypes, agent, host, docker, maps, unseen, logs, logVars
  <2>2. Away(t)
    BY <1>0, <1>1, <2>1, StopGoes, Callers
       DEF AcceptRun, Away, Go, HostTypes, BindType, HistType
  <2>3. ByDriver(t)'
    BY <1>0, <2>1 DEF StopTo, LeftOver, ByDriver
  <2>4. NotMade(t)'
    BY <1>0, <2>1 DEF NotYet, StopTo, LeftOver, NotMade
  <2>5. GroupKnown(t)'
    BY <1>0, <2>1 DEF StopTo, LeftOver, NotMade, GroupKnown, Alive
  <2>6. DirKnown(t)'
    BY <1>0, <2>1 DEF NotYet, SetUp, SettingUp, StopTo, LeftOver, DirKnown
  <2>7. Owed(t)'
    BY <1>0, <2>1 DEF NotYet, LeftOver, NotMade, Owed, Serves, Comes, Alive
  <2> QED BY <1>0, <2>2, <2>3, <2>4, <2>5, <2>6, <2>7, AwayKeeps DEF LeftOver
<1>2. CASE RunReturns(t)
  <2>1. /\ UNCHANGED <<driver, late, bound, group, ctr, shelf, dir, cgroup, owned, groupGone,
                    dirs, hist>>
        /\ \/ /\ run[t] = "ok" /\ rec[t] # "gone" /\ UNCHANGED stops
              /\ rec'[t] = "running" /\ run'[t] = "idle"
           \/ /\ StopTo(t, "own", "begin") /\ rec'[t] # "none"
              /\ run'[t] \in {"restart", "idle"}
              /\ run[t] \in {"ok", "err"} /\ (run[t] = "err" => rec'[t] # "running")
    BY <1>0, <1>2, StopGoes, Callers
       DEF RunReturns, HostTypes, agent, host, docker, maps, unseen, logs, logVars
  <2>2. Away(t)
    BY <1>0, <1>2, <2>1, StopGoes, Callers
       DEF RunReturns, Away, Go, HostTypes, BindType, HistType
  <2>3. ByDriver(t)'
    BY <1>0, <2>1 DEF StopTo, LeftOver, ByDriver
  <2>4. NotMade(t)'
    BY <1>0, <2>1 DEF NotYet, StopTo, LeftOver, NotMade
  <2>5. GroupKnown(t)'
    BY <1>0, <2>1 DEF StopTo, LeftOver, NotMade, GroupKnown, Alive
  <2>6. DirKnown(t)'
    BY <1>0, <2>1 DEF NotYet, SetUp, SettingUp, StopTo, LeftOver, DirKnown
  <2>7. Owed(t)'
    BY <1>0, <2>1 DEF StopTo, LeftOver, NotMade, GroupKnown, Owed, Serves, Comes, Alive
  <2> QED BY <1>0, <2>2, <2>3, <2>4, <2>5, <2>6, <2>7, AwayKeeps DEF LeftOver
<1>3. CASE RequestStop(t)
  <2>1. /\ UNCHANGED <<driver, run, bound, group, ctr, late, shelf, dir, cgroup, owned, groupGone,
                    dirs, hist>>
        /\ rec[t] \in {"queued", "running", "failed"} /\ rec'[t] = "gone"
        /\ StopTo(t, "request", "begin")
    BY <1>0, <1>3, StopGoes, Callers
       DEF RequestStop, agent, host, docker, maps, unseen, logs, logVars, HostTypes,
           BindType
  <2>2. Away(t)
    BY <1>0, <1>3, <2>1, StopGoes, Callers
       DEF RequestStop, Away, HostTypes, BindType, LogTypeOK
  <2>3. ByDriver(t)'
    BY <1>0, <2>1 DEF StopTo, LeftOver, ByDriver
  <2>4. NotMade(t)'
    BY <1>0, <2>1 DEF NotYet, StopTo, LeftOver, NotMade
  <2>5. GroupKnown(t)'
    BY <1>0, <2>1 DEF StopTo, LeftOver, NotMade, GroupKnown, Alive
  <2>6. DirKnown(t)'
    BY <1>0, <2>1 DEF NotYet, SetUp, SettingUp, StopTo, LeftOver, DirKnown
  <2>7. Owed(t)'
    BY <1>0, <2>1 DEF StopTo, LeftOver, NotMade, GroupKnown, Owed, Serves, Comes, Alive
  <2> QED BY <1>0, <2>2, <2>3, <2>4, <2>5, <2>6, <2>7, AwayKeeps DEF LeftOver
<1>4. CASE DetectCrash(t)
  <2>1. /\ UNCHANGED <<driver, bound, group, ctr, late, shelf, dir, cgroup, owned, dirs, hist>>
        /\ rec[t] = "running" /\ rec'[t] = "failed" /\ run[t] = "idle" /\ run'[t] = "restart"
        /\ t \in groupGone' => t \in groupGone \/ group[t] = "gone"
        /\ StopTo(t, "own", "begin")
    BY <1>0, <1>4, StopGoes, Callers
       DEF DetectCrash, host, docker, logs, logVars, Fault, HostTypes, BindType
  <2>2. Away(t)
    BY <1>0, <1>4, <2>1, StopGoes, Callers
       DEF DetectCrash, Away, HostTypes, BindType, LogTypeOK
  <2>3. LeftOver(t)'
    BY <1>0, <2>1
       DEF NotYet, SetUp, SettingUp, StopTo, LeftOver, ByDriver, NotMade, GroupKnown,
           DirKnown, Owed, Serves, Comes, Alive
  <2> QED BY <1>0, <2>2, <2>3, AwayKeeps
<1>5. CASE Restart(t)
  <2>1. /\ UNCHANGED <<driver, stops, bound, group, ctr, late, shelf, dir, cgroup, owned,
                    groupGone, dirs, hist>>
        /\ run[t] = "restart" /\ run'[t] = "idle" /\ stops[t]["own"].pc = "idle"
        /\ rec'[t] = rec[t] \/ (rec[t] = "failed" /\ rec'[t] = "gone")
    BY <1>0, <1>5
       DEF Restart, host, docker, maps, unseen, logs, logVars, HostTypes, BindType
  <2>2. Away(t)
    BY <1>0, <1>5, <2>1
       DEF Restart, Away, HostTypes, BindType, LogTypeOK
  <2>3. LeftOver(t)'
    BY <1>0, <2>1
       DEF NotYet, SetUp, SettingUp, StopTo, LeftOver, ByDriver, NotMade, GroupKnown,
           DirKnown, Owed, Serves, Comes, Alive
  <2> QED BY <1>0, <2>2, <2>3, AwayKeeps
<1> QED BY <1>1, <1>2, <1>3, <1>4, <1>5

\* A start: what it makes it finishes with, or hands to the Stop that follows.
LEMMA StartLeft ==
  ASSUME CoreInv, \A u \in Task : LeftOver(u), NEW t \in Task,
         ExecRun(t),
         NEW s \in Task
  PROVE  LeftOver(s)'
<1> USE DEF Stopper, Caller, Killing, ToKill, ToClean, InDir, ToRemove, Containing, ToStart,
            Started, ExecStart, DockerStart
<1>0. /\ HostTypes /\ HistType /\ BindType /\ LogTypeOK /\ NotYet(t) /\ SetUp(t)
      /\ LeftOver(s) /\ LeftOver(t)
  BY DEF CoreInv, BindInv, LogInv, TaskInv, HostTypes
<1>1. CASE MakeDir(t)
  <2>1. /\ UNCHANGED <<driver, rec, stops, bound, group, ctr, late, shelf, cgroup, owned,
                    groupGone, dirs, hist>>
        /\ run[t] = "dir" /\ run'[t] = "mount" /\ t \in dir'
    BY <1>0, <1>1
       DEF MakeDir, Go, docker, maps, logs, logVars, HostTypes, BindType
  <2>2. Away(t)
    BY <1>0, <1>1, <2>1
       DEF MakeDir, Away, Go, HostTypes, BindType, LogTypeOK
  <2>3. LeftOver(t)'
    BY <1>0, <2>1
       DEF NotYet, SetUp, SettingUp, StopTo, LeftOver, ByDriver, NotMade, GroupKnown,
           DirKnown, Owed, Serves, Comes, Alive
  <2> QED BY <1>0, <2>2, <2>3, AwayKeeps
<1>2. CASE MountVolume(t)
  <2>1. /\ UNCHANGED <<driver, rec, run, stops, group, ctr, late, shelf, dir, cgroup, owned,
                    groupGone, dirs, hist>>
        /\ run[t] = "mount"
    BY <1>0, <1>2
       DEF MountVolume, agent, docker, maps, logs, logVars, HostTypes, BindType
  <2>2. Away(t)
    BY <1>0, <1>2, <2>1
       DEF MountVolume, Away, HostTypes, BindType, LogTypeOK
  <2>3. LeftOver(t)'
    BY <1>0, <2>1
       DEF NotYet, SetUp, SettingUp, StopTo, LeftOver, ByDriver, NotMade, GroupKnown,
           DirKnown, Owed, Serves, Comes, Alive
  <2> QED BY <1>0, <2>2, <2>3, AwayKeeps
<1>3. CASE PublishDir(t)
  <2>1. /\ UNCHANGED <<driver, rec, stops, bound, group, ctr, late, shelf, dir, cgroup, owned,
                    groupGone, hist>>
        /\ run[t] = "mount" /\ run'[t] = "download" /\ t \in dirs'
    BY <1>0, <1>3
       DEF PublishDir, Go, Publish, host, docker, logs, logVars, HostTypes, BindType
  <2>2. Away(t)
    BY <1>0, <1>3, <2>1
       DEF PublishDir, Away, Go, Publish, HostTypes, BindType, LogTypeOK
  <2>3. LeftOver(t)'
    BY <1>0, <2>1
       DEF NotYet, SetUp, SettingUp, StopTo, LeftOver, ByDriver, NotMade, GroupKnown,
           DirKnown, Owed, Serves, Comes, Alive
  <2> QED BY <1>0, <2>2, <2>3, AwayKeeps
<1>4. CASE RollBack(t)
  <2>1. /\ UNCHANGED <<driver, rec, stops, group, ctr, late, shelf, cgroup, owned, groupGone, hist>>
        /\ run[t] = "mount" /\ run'[t] = "err"
        /\ \/ bound'[t] = {} /\ t \notin dir' /\ UNCHANGED dirs
           \/ t \in dirs' /\ UNCHANGED dir
    BY <1>0, <1>4
       DEF RollBack, Go, Publish, docker, logs, logVars, Fault, HostTypes, BindType
  <2>2. Away(t)
    BY <1>0, <1>4, <2>1
       DEF RollBack, Away, Go, Publish, HostTypes, BindType, LogTypeOK
  <2>3. LeftOver(t)'
    BY <1>0, <2>1
       DEF NotYet, SetUp, SettingUp, StopTo, LeftOver, ByDriver, NotMade, GroupKnown,
           DirKnown, Owed, Serves, Comes, Alive
  <2> QED BY <1>0, <2>2, <2>3, AwayKeeps
<1>5. CASE Download(t)
  <2>1. /\ UNCHANGED <<driver, rec, late, bound, group, ctr, shelf, cgroup, owned, groupGone,
                    dirs>>
        /\ run[t] = "download" /\ hist'.kept = hist.kept /\ hist.stray \subseteq hist'.stray
        /\ t \in dir' /\ t \notin dir => t \in hist'.stray
        /\ \/ run'[t] = "cgroup" /\ UNCHANGED stops
           \/ run'[t] = "failing" /\ StopTo(t, "run", "clean")
    BY <1>0, <1>5, StopGoes, Callers
       DEF Download, Go, HostTypes, HistType, agent, host, docker, maps, unseen, logs,
           logVars
  <2>2. Away(t)
    BY <1>0, <1>5, <2>1, StopGoes, Callers
       DEF Download, Away, Go, HostTypes, BindType, HistType
  <2>3. ByDriver(t)'
    BY <1>0, <2>1 DEF StopTo, LeftOver, ByDriver
  <2>4. NotMade(t)'
    BY <1>0, <2>1 DEF NotYet, StopTo, LeftOver, NotMade
  <2>5. GroupKnown(t)'
    BY <1>0, <2>1 DEF StopTo, LeftOver, NotMade, GroupKnown, Alive
  <2>6. DirKnown(t)'
    BY <1>0, <2>1 DEF NotYet, SetUp, SettingUp, StopTo, LeftOver, DirKnown
  <2>7. Owed(t)'
    BY <1>0, <2>1 DEF StopTo, LeftOver, NotMade, GroupKnown, Owed, Serves, Comes, Alive
  <2> QED BY <1>0, <2>2, <2>3, <2>4, <2>5, <2>6, <2>7, AwayKeeps DEF LeftOver
<1>6. CASE PrepareCgroup(t)
  <2>1. /\ UNCHANGED <<driver, rec, stops, bound, group, ctr, late, shelf, dir, owned, groupGone,
                    dirs, hist>>
        /\ run[t] = "cgroup" /\ run'[t] = "start"
    BY <1>0, <1>6
       DEF PrepareCgroup, Go, docker, maps, logs, logVars, HostTypes, BindType
  <2>2. Away(t)
    BY <1>0, <1>6, <2>1
       DEF PrepareCgroup, Away, Go, HostTypes, BindType, LogTypeOK
  <2>3. LeftOver(t)'
    BY <1>0, <2>1
       DEF NotYet, SetUp, SettingUp, StopTo, LeftOver, ByDriver, NotMade, GroupKnown,
           DirKnown, Owed, Serves, Comes, Alive
  <2> QED BY <1>0, <2>2, <2>3, AwayKeeps
<1>7. CASE StartProcess(t)
  <2>1. /\ UNCHANGED <<driver, rec, late, bound, ctr, shelf, dir, cgroup, owned, groupGone,
                    dirs, hist>>
        /\ run[t] = "start"
        /\ \/ run'[t] = "log" /\ UNCHANGED stops /\ group'[t] = "up"
           \/ run'[t] = "failing" /\ StopTo(t, "run", "rmcg") /\ UNCHANGED group
    BY <1>0, <1>7, StopGoes, Callers
       DEF StartProcess, Go, HostTypes, agent, host, docker, maps, unseen, logs, logVars
  <2>2. Away(t)
    BY <1>0, <1>7, <2>1, StopGoes, Callers
       DEF StartProcess, Away, Go, HostTypes, BindType, HistType
  <2>3. ByDriver(t)'
    BY <1>0, <2>1 DEF StopTo, LeftOver, ByDriver
  <2>4. NotMade(t)'
    BY <1>0, <2>1 DEF NotYet, StopTo, LeftOver, NotMade
  <2>5. GroupKnown(t)'
    BY <1>0, <2>1 DEF StopTo, LeftOver, NotMade, GroupKnown, Alive
  <2>6. DirKnown(t)'
    BY <1>0, <2>1 DEF NotYet, SetUp, SettingUp, StopTo, LeftOver, DirKnown
  <2>7. Owed(t)'
    BY <1>0, <2>1 DEF StopTo, LeftOver, NotMade, GroupKnown, Owed, Serves, Comes, Alive
  <2> QED BY <1>0, <2>2, <2>3, <2>4, <2>5, <2>6, <2>7, AwayKeeps DEF LeftOver
<1>8. CASE PutLogs(t)
  <2>1. /\ UNCHANGED <<driver, rec, stops, bound, group, ctr, late, dir, cgroup, owned, groupGone,
                    dirs, hist>>
        /\ run[t] = "log" /\ run'[t] = "register"
    BY <1>0, <1>8
       DEF PutLogs, Go, PutLog, host, docker, maps, HostTypes, BindType
  <2>2. Away(t)
    BY <1>0, <1>8, <2>1
       DEF PutLogs, Away, Go, PutLog, HostTypes, BindType, LogTypeOK
  <2>3. LeftOver(t)'
    BY <1>0, <2>1
       DEF NotYet, SetUp, SettingUp, StopTo, LeftOver, ByDriver, NotMade, GroupKnown,
           DirKnown, Owed, Serves, Comes, Alive
  <2> QED BY <1>0, <2>2, <2>3, AwayKeeps
<1>9. CASE Register(t)
  <2>1. /\ UNCHANGED <<driver, rec, stops, bound, group, ctr, late, shelf, dir, cgroup, groupGone,
                    dirs, hist>>
        /\ run[t] = "register" /\ run'[t] = "ok" /\ t \in owned'
    BY <1>0, <1>9
       DEF Register, Go, host, docker, logs, logVars, HostTypes, BindType
  <2>2. Away(t)
    BY <1>0, <1>9, <2>1
       DEF Register, Away, Go, HostTypes, BindType, LogTypeOK
  <2>3. LeftOver(t)'
    BY <1>0, <2>1
       DEF NotYet, SetUp, SettingUp, StopTo, LeftOver, ByDriver, NotMade, GroupKnown,
           DirKnown, Owed, Serves, Comes, Alive
  <2> QED BY <1>0, <2>2, <2>3, AwayKeeps
<1>10. CASE StartFailed(t)
  <2>1. /\ UNCHANGED <<driver, rec, stops, bound, group, ctr, late, shelf, dir, cgroup, owned,
                    groupGone, dirs, hist>>
        /\ run[t] = "failing" /\ run'[t] = "err"
    BY <1>0, <1>10
       DEF StartFailed, Go, host, docker, maps, unseen, logs, logVars, HostTypes,
           BindType
  <2>2. Away(t)
    BY <1>0, <1>10, <2>1
       DEF StartFailed, Away, Go, HostTypes, BindType, LogTypeOK
  <2>3. LeftOver(t)'
    BY <1>0, <2>1
       DEF NotYet, SetUp, SettingUp, StopTo, LeftOver, ByDriver, NotMade, GroupKnown,
           DirKnown, Owed, Serves, Comes, Alive
  <2> QED BY <1>0, <2>2, <2>3, AwayKeeps
<1> QED BY <1>1, <1>2, <1>3, <1>4, <1>5, <1>6, <1>7, <1>8, <1>9, <1>10 DEF ExecRun

\* The same of a container, and what the daemon does late.
LEMMA DockerLeft ==
  ASSUME CoreInv, \A u \in Task : LeftOver(u), NEW t \in Task,
         DockerRun(t),
         NEW s \in Task
  PROVE  LeftOver(s)'
<1> USE DEF Stopper, Caller, Killing, ToKill, ToClean, InDir, ToRemove, Containing, ToStart,
            Started, ExecStart, DockerStart
<1>0. /\ HostTypes /\ HistType /\ BindType /\ LogTypeOK /\ NotYet(t) /\ SetUp(t)
      /\ LeftOver(s) /\ LeftOver(t)
  BY DEF CoreInv, BindInv, LogInv, TaskInv, HostTypes
<1>1. CASE Pull(t)
  <2>1. /\ UNCHANGED <<driver, rec, stops, bound, group, ctr, late, shelf, dir, cgroup, owned,
                    groupGone, dirs, hist>>
        /\ run[t] = "pull" /\ run'[t] \in {"create", "err"}
    BY <1>0, <1>1
       DEF Pull, Go, onHost, host, docker, maps, logs, logVars, HostTypes, BindType
  <2>2. Away(t)
    BY <1>0, <1>1, <2>1
       DEF Pull, Away, Go, HostTypes, BindType, LogTypeOK
  <2>3. LeftOver(t)'
    BY <1>0, <2>1
       DEF NotYet, SetUp, SettingUp, StopTo, LeftOver, ByDriver, NotMade, GroupKnown,
           DirKnown, Owed, Serves, Comes, Alive
  <2> QED BY <1>0, <2>2, <2>3, AwayKeeps
<1>2. CASE CreateContainer(t)
  <2>1. /\ UNCHANGED <<driver, rec, stops, bound, group, shelf, dir, cgroup, owned, groupGone,
                    dirs, hist>>
        /\ run[t] = "create"
        /\ \/ run'[t] \in {"ctrstart", "err"} /\ ctr'[t] = "created" /\ UNCHANGED late
           \/ run'[t] = "err" /\ UNCHANGED ctr /\ late'[t] \in {late[t], "pending"}
    BY <1>0, <1>2
       DEF CreateContainer, Go, Ctr, onHost, host, docker, maps, logs, logVars, Fault,
           HostTypes, BindType
  <2>2. Away(t)
    <3>1. \A u \in Task \ {t} : run'[u] = run[u] /\ ctr'[u] = ctr[u] /\ late'[u] = late[u]
      BY <1>0, <1>2 DEF CreateContainer, Go, Ctr, docker, HostTypes
    <3> QED BY <2>1, <3>1 DEF Away
  <2>3. ByDriver(t)'
    BY <1>0, <2>1 DEF StopTo, LeftOver, ByDriver
  <2>4. NotMade(t)'
    BY <1>0, <2>1 DEF NotYet, StopTo, LeftOver, NotMade
  <2>5. GroupKnown(t)'
    BY <1>0, <2>1 DEF StopTo, LeftOver, NotMade, GroupKnown, Alive
  <2>6. DirKnown(t)'
    BY <1>0, <2>1 DEF NotYet, SetUp, SettingUp, StopTo, LeftOver, DirKnown
  <2>7. Owed(t)'
    BY <1>0, <2>1 DEF StopTo, LeftOver, NotMade, GroupKnown, Owed, Serves, Comes, Alive
  <2> QED BY <1>0, <2>2, <2>3, <2>4, <2>5, <2>6, <2>7, AwayKeeps DEF LeftOver
<1>3. CASE CreateLands(t)
  <2>1. /\ UNCHANGED <<driver, rec, run, stops, bound, group, shelf, dir, cgroup, owned, groupGone,
                    dirs, hist>>
        /\ late[t] = "pending" /\ late'[t] = "landed" /\ ctr'[t] = "created"
    BY <1>0, <1>3
       DEF CreateLands, Ctr, agent, onHost, host, maps, logs, logVars, HostTypes,
           BindType
  <2>2. Away(t)
    BY <1>0, <1>3, <2>1
       DEF CreateLands, Away, Ctr, HostTypes, BindType, LogTypeOK
  <2>3. ByDriver(t)'
    BY <1>0, <2>1 DEF StopTo, LeftOver, ByDriver
  <2>4. NotMade(t)'
    BY <1>0, <2>1 DEF NotYet, StopTo, LeftOver, NotMade
  <2>5. GroupKnown(t)'
    BY <1>0, <2>1 DEF StopTo, LeftOver, NotMade, GroupKnown, Alive
  <2>6. DirKnown(t)'
    BY <1>0, <2>1 DEF NotYet, SetUp, SettingUp, StopTo, LeftOver, DirKnown
  <2>7. Owed(t)'
    BY <1>0, <2>1 DEF StopTo, LeftOver, NotMade, GroupKnown, Owed, Serves, Comes, Alive
  <2> QED BY <1>0, <2>2, <2>3, <2>4, <2>5, <2>6, <2>7, AwayKeeps DEF LeftOver
<1>4. CASE StartContainer(t)
  <2>1. /\ UNCHANGED <<driver, rec, stops, bound, group, late, shelf, dir, cgroup, owned,
                    groupGone, dirs, hist>>
        /\ run[t] = "ctrstart"
        /\ \/ ctr[t] = "created" /\ ctr'[t] = "up" /\ run'[t] \in {"stream", "err"}
           \/ UNCHANGED ctr /\ run'[t] = "err"
    BY <1>0, <1>4
       DEF StartContainer, Go, Ctr, onHost, host, maps, logs, logVars, Fault, HostTypes,
           BindType
  <2>2. Away(t)
    BY <1>0, <1>4, <2>1
       DEF StartContainer, Away, Go, Ctr, HostTypes, BindType, LogTypeOK
  <2>3. LeftOver(t)'
    BY <1>0, <2>1
       DEF NotYet, SetUp, SettingUp, StopTo, LeftOver, ByDriver, NotMade, GroupKnown,
           DirKnown, Owed, Serves, Comes, Alive
  <2> QED BY <1>0, <2>2, <2>3, AwayKeeps
<1>5. CASE StreamLogs(t)
  <2>1. /\ UNCHANGED <<driver, rec, stops, bound, group, ctr, late, dir, cgroup, owned, groupGone,
                    dirs, hist>>
        /\ run[t] = "stream" /\ run'[t] = "ok"
    BY <1>0, <1>5
       DEF StreamLogs, Go, PutLog, onHost, host, docker, maps, HostTypes, BindType
  <2>2. Away(t)
    BY <1>0, <1>5, <2>1
       DEF StreamLogs, Away, Go, PutLog, HostTypes, BindType, LogTypeOK
  <2>3. LeftOver(t)'
    BY <1>0, <2>1
       DEF NotYet, SetUp, SettingUp, StopTo, LeftOver, ByDriver, NotMade, GroupKnown,
           DirKnown, Owed, Serves, Comes, Alive
  <2> QED BY <1>0, <2>2, <2>3, AwayKeeps
<1>6. CASE ContainerExits(t)
  <2>1. /\ UNCHANGED <<driver, rec, run, stops, bound, group, late, shelf, dir, cgroup, owned,
                    groupGone, dirs, hist>>
        /\ ctr[t] = "up" /\ ctr'[t] = "exited"
    BY <1>0, <1>6
       DEF ContainerExits, Ctr, agent, onHost, host, maps, logs, logVars, HostTypes,
           BindType
  <2>2. Away(t)
    BY <1>0, <1>6, <2>1
       DEF ContainerExits, Away, Ctr, HostTypes, BindType, LogTypeOK
  <2>3. LeftOver(t)'
    BY <1>0, <2>1
       DEF NotYet, SetUp, SettingUp, StopTo, LeftOver, ByDriver, NotMade, GroupKnown,
           DirKnown, Owed, Serves, Comes, Alive
  <2> QED BY <1>0, <2>2, <2>3, AwayKeeps
<1> QED BY <1>1, <1>2, <1>3, <1>4, <1>5, <1>6 DEF DockerRun

\* A process that ends, and its log.
LEMMA WatchLeft ==
  ASSUME CoreInv, \A u \in Task : LeftOver(u), NEW t \in Task,
         LeaderExits(t) \/ GroupEnds(t) \/ Observe(t) \/ Reuse(t) \/ ReadOutput(t)
         \/ OutputEnds(t) \/ ReadLog(t),
         NEW s \in Task
  PROVE  LeftOver(s)'
<1> USE DEF Stopper, Caller, Killing, ToKill, ToClean, InDir, ToRemove, Containing, ToStart,
            Started, ExecStart, DockerStart
<1>0. /\ HostTypes /\ HistType /\ BindType /\ LogTypeOK /\ NotYet(t) /\ SetUp(t)
      /\ LeftOver(s) /\ LeftOver(t)
  BY DEF CoreInv, BindInv, LogInv, TaskInv, HostTypes
<1>1. CASE LeaderExits(t)
  <2>1. /\ UNCHANGED <<driver, rec, run, stops, bound, ctr, late, shelf, dir, cgroup, owned,
                    groupGone, dirs, hist>>
        /\ group[t] = "up" /\ group'[t] \in {"left", "gone"}
    BY <1>0, <1>1
       DEF LeaderExits, watching, agent, docker, maps, logs, logVars, HostTypes,
           BindType
  <2>2. Away(t)
    BY <1>0, <1>1, <2>1
       DEF LeaderExits, Away, HostTypes, BindType, LogTypeOK
  <2>3. LeftOver(t)'
    BY <1>0, <2>1
       DEF NotYet, SetUp, SettingUp, StopTo, LeftOver, ByDriver, NotMade, GroupKnown,
           DirKnown, Owed, Serves, Comes, Alive
  <2> QED BY <1>0, <2>2, <2>3, AwayKeeps
<1>2. CASE GroupEnds(t)
  <2>1. /\ UNCHANGED <<driver, rec, run, stops, bound, ctr, late, shelf, dir, cgroup, owned,
                    groupGone, dirs, hist>>
        /\ group[t] = "left" /\ group'[t] = "gone"
    BY <1>0, <1>2
       DEF GroupEnds, watching, agent, docker, maps, logs, logVars, HostTypes, BindType
  <2>2. Away(t)
    BY <1>0, <1>2, <2>1
       DEF GroupEnds, Away, HostTypes, BindType, LogTypeOK
  <2>3. LeftOver(t)'
    BY <1>0, <2>1
       DEF NotYet, SetUp, SettingUp, StopTo, LeftOver, ByDriver, NotMade, GroupKnown,
           DirKnown, Owed, Serves, Comes, Alive
  <2> QED BY <1>0, <2>2, <2>3, AwayKeeps
<1>3. CASE Observe(t)
  <2>1. /\ UNCHANGED <<driver, rec, run, stops, bound, group, ctr, late, shelf, dir, cgroup, owned,
                    dirs, hist>>
        /\ group[t] = "gone"
    BY <1>0, <1>3
       DEF Observe, watching, agent, docker, logs, logVars, HostTypes, BindType
  <2>2. Away(t)
    BY <1>0, <1>3, <2>1
       DEF Observe, Away, HostTypes, BindType, LogTypeOK
  <2>3. LeftOver(t)'
    BY <1>0, <2>1
       DEF NotYet, SetUp, SettingUp, StopTo, LeftOver, ByDriver, NotMade, GroupKnown,
           DirKnown, Owed, Serves, Comes, Alive
  <2> QED BY <1>0, <2>2, <2>3, AwayKeeps
<1>4. CASE Reuse(t)
  <2>1. /\ UNCHANGED <<driver, rec, run, stops, bound, ctr, late, shelf, dir, cgroup, owned,
                    groupGone, dirs, hist>>
        /\ group[t] = "gone" /\ group'[t] = "reused"
    BY <1>0, <1>4
       DEF Reuse, watching, agent, docker, maps, logs, logVars, HostTypes, BindType
  <2>2. Away(t)
    BY <1>0, <1>4, <2>1
       DEF Reuse, Away, HostTypes, BindType, LogTypeOK
  <2>3. LeftOver(t)'
    BY <1>0, <2>1
       DEF NotYet, SetUp, SettingUp, StopTo, LeftOver, ByDriver, NotMade, GroupKnown,
           DirKnown, Owed, Serves, Comes, Alive
  <2> QED BY <1>0, <2>2, <2>3, AwayKeeps
<1>5. CASE ReadOutput(t)
  <2>1. UNCHANGED <<driver, rec, run, stops, bound, group, ctr, late, shelf, dir, cgroup, owned,
                   groupGone, dirs, hist>>
    BY <1>0, <1>5
       DEF ReadOutput, WriteLine, watching, agent, docker, maps, HostTypes, BindType
  <2>2. Away(t)
    BY <2>1 DEF Away
  <2>3. LeftOver(t)'
    BY <1>0, <2>1
       DEF NotYet, SetUp, SettingUp, StopTo, LeftOver, ByDriver, NotMade, GroupKnown,
           DirKnown, Owed, Serves, Comes, Alive
  <2> QED BY <1>0, <2>2, <2>3, AwayKeeps
<1>6. CASE OutputEnds(t)
  <2>1. UNCHANGED <<driver, rec, run, stops, bound, group, ctr, late, shelf, dir, cgroup, owned,
                   groupGone, dirs, hist>>
    BY <1>0, <1>6
       DEF OutputEnds, EndLog, logVars, watching, agent, docker, maps, HostTypes,
           BindType
  <2>2. Away(t)
    BY <2>1 DEF Away
  <2>3. LeftOver(t)'
    BY <1>0, <2>1
       DEF NotYet, SetUp, SettingUp, StopTo, LeftOver, ByDriver, NotMade, GroupKnown,
           DirKnown, Owed, Serves, Comes, Alive
  <2> QED BY <1>0, <2>2, <2>3, AwayKeeps
<1>7. CASE ReadLog(t)
  <2>1. /\ UNCHANGED <<driver, rec, run, stops, bound, group, ctr, late, dir, cgroup, owned,
                    groupGone, dirs, hist>>
        /\ shelf'[t] \in {shelf[t], "none"}
        /\ \A u \in Task \ {t} : shelf'[u] = shelf[u]
    BY <1>0, <1>7
       DEF ReadLog, Reading, Expire, Subscribe, Receive, Unsubscribe, watching, agent,
           docker, maps, LogTypeOK
  <2>2. Away(t)
    BY <2>1 DEF Away
  <2>3. LeftOver(t)'
    BY <1>0, <2>1
       DEF NotYet, SetUp, SettingUp, StopTo, LeftOver, ByDriver, NotMade, GroupKnown,
           DirKnown, Owed, Serves, Comes, Alive
  <2> QED BY <1>0, <2>2, <2>3, AwayKeeps
<1> QED BY <1>1, <1>2, <1>3, <1>4, <1>5, <1>6, <1>7

\* A process of the agent that is gone leaves a host it excepts: its processes, and the
\* containers that Init could not remove.
LEMMA RestartLeft ==
  ASSUME CoreInv, \A u \in Task : LeftOver(u), AgentRestarts, NEW s \in Task
  PROVE  LeftOver(s)'
<1>0. HostTypes /\ HistType /\ BindType /\ LeftOver(s) /\ NotYet(s)
  BY DEF CoreInv, BindInv, TaskInv, HostTypes
<1>1. /\ rec' = [t \in Task |-> IF rec[t] = "none" THEN "none" ELSE "gone"]
      /\ run' = [t \in Task |-> "idle"]
      /\ stops' = [t \in Task |-> [k \in Caller |-> StopIdle]]
      /\ owned' = {} /\ groupGone' = {} /\ dirs' = {}
      /\ shelf' = [t \in Task |-> "none"]
      /\ UNCHANGED <<driver, dir, bound, cgroup, group, late>>
  BY DEF AgentRestarts, host
<1>2. PICK C \in SUBSET Task :
        /\ ctr' = [t \in Task |-> IF t \in C THEN ctr[t] ELSE "none"]
        /\ hist' = [hist EXCEPT !.kept = @ \cup C \cup {t \in Task : driver[t] = "exec"}]
  BY DEF AgentRestarts
<1>3. /\ hist'.kept = hist.kept \cup C \cup {t \in Task : driver[t] = "exec"}
      /\ hist'.stray = hist.stray
  BY <1>0, <1>2 DEF HistType
<1>4. StopIdle.pc = "idle" /\ ~ StopIdle.dir BY DEF StopIdle
<1>5. driver[s] \in {"exec", "docker"} BY <1>0 DEF HostTypes
<1>6. ByDriver(s)'
  BY <1>0, <1>1, <1>2, <1>4
     DEF LeftOver, ByDriver, Containing, ExecStart, ToStart, Started, DockerStart
<1>7. NotMade(s)'
  BY <1>0, <1>1, <1>4 DEF LeftOver, NotMade, NotYet, Killing, ToStart, Started
<1>8. GroupKnown(s)' /\ DirKnown(s)'
  BY <1>0, <1>1, <1>3, <1>4, <1>5 DEF LeftOver, ByDriver, GroupKnown, DirKnown, Alive
<1>9. Owed(s)'
  BY <1>0, <1>1, <1>2, <1>3, <1>5 DEF LeftOver, ByDriver, Owed
<1> QED BY <1>6, <1>7, <1>8, <1>9 DEF LeftOver

LEMMA LeftStep ==
  ASSUME CoreInv, \A t \in Task : LeftOver(t), [Next]_vars, NEW s \in Task
  PROVE  LeftOver(s)'
<1>1. ASSUME NEW t \in Task, NEW k \in Caller,
             BeginStop(t, k) \/ ExecStop(t, k) \/ DockerStop(t, k)
      PROVE  LeftOver(s)'
  BY <1>1, StopLeft, AwayKeeps
<1>2. CASE UNCHANGED vars
  <2>1. LeftOver(s) OBVIOUS
  <2> QED
    BY <1>2, <2>1
       DEF vars, agent, host, docker, setup, maps, logs, logVars, LeftOver, ByDriver,
           NotMade, GroupKnown, DirKnown, Owed, Serves, Comes, Alive
<1> QED BY <1>1, <1>2, AgentLeft, StartLeft, DockerLeft, WatchLeft, RestartLeft DEF Next

LEMMA LeftInit ==
  ASSUME Init, NEW t \in Task
  PROVE  LeftOver(t)
<1>1. StopIdle.pc = "idle" /\ ~ StopIdle.dir BY DEF StopIdle
<1> QED
  BY <1>1
     DEF Init, LogInit, LeftOver, ByDriver, NotMade, GroupKnown, DirKnown, Owed, Alive,
         Containing, ExecStart, DockerStart, ToStart, Started, Killing

-----------------------------------------------------------------------------
(* The theorems.                                                           *)

\* No RemoveAll goes through an active bind of a task's directory, however setups,
\* their rollback, failed unmounts and the cleanups of crossing Stops fall
\* (setupTaskDir publishes the directory with its mounts; cleanupTaskDir keeps it
\* unless every unmount succeeded).
THEOREM BindsSpareTheHost == Spec => []HostFilesSafe
<1>1. BindInv /\ [Next]_vars => BindInv' BY BindStep
<1>2. BindInv => HostFilesSafe BY DEF BindInv
<1> QED BY <1>1, <1>2, InitHolds, PTL DEF Spec

LEMMA CoreInvariant == Spec => []CoreInv
<1>1. Init => CoreInv
  <2>1. Init => HostTypes BY Bound DEF Init, HostTypes, HistType
  <2> QED BY <2>1, InitHolds, LogInitHolds DEF Init, CoreInv
<1>2. CoreInv /\ [Next]_vars => CoreInv'
  BY BindStep, HostTypesStep, LogStep DEF CoreInv, BindInv
<1> QED BY <1>1, <1>2, PTL DEF Spec

\* Every variable keeps its type: no log is longer than what was written, no channel
\* fuller than its buffer, and the list of mounts of a directory that the maps do not
\* have is empty (mounts and taskDirs are written and deleted together).
THEOREM TypeCorrect == Spec => []TypeOK
<1>1. CoreInv => TypeOK
  <2> SUFFICES ASSUME CoreInv PROVE TypeOK OBVIOUS
  <2>1. stops \in [Task -> [Caller ->
          [pc : {"idle", "begin", "term", "kill", "forget", "clean", "unmount", "remove",
                 "unmap", "rmcg", "halt", "rm", "hush"},
           dir : BOOLEAN, binds : SUBSET Volume]]]
    BY DEF CoreInv, BindInv, BindType, StopRec, Places
  <2>2. HostTypes /\ HistType /\ LogTypeOK BY DEF CoreInv, HostTypes, LogInv
  <2> QED BY <2>1, <2>2 DEF TypeOK, HostTypes, HistType
<1> QED BY <1>1, CoreInvariant, PTL

\* What a client gets of a log is in order and without a gap, for any length of the
\* tail and any buffer of the channel, whatever Close, retirement and the end of the
\* agent's process come between (Write, Subscribe, Unsubscribe, retire).
THEOREM LogsInOrder == Spec => []LogInOrder
<1>1. CoreInv => LogInOrder BY LogInvInOrder DEF CoreInv
<1> QED BY <1>1, CoreInvariant, PTL

\* When the agent has done with a task and no Stop of it failed, its process group is
\* gone and nothing of it is left on the host or in the runner's maps, whatever Stops
\* crossed its start, its failure or its crash (Run and its rollback, Stop,
\* cleanupTaskDir, removeCgroup, retire).
THEOREM TasksLeaveNothing == Spec => []NothingLeft
<1> DEFINE Inv == CoreInv /\ \A t \in Task : LeftOver(t)
<1>1. Spec => [](\A t \in Task : LeftOver(t))
  <2>1. Init => \A t \in Task : LeftOver(t) BY LeftInit
  <2>2. CoreInv /\ (\A t \in Task : LeftOver(t)) /\ [Next]_vars
        => (\A t \in Task : LeftOver(t))'
    BY LeftStep
  <2> QED BY <2>1, <2>2, CoreInvariant, PTL DEF Spec
<1>2. Inv => NothingLeft BY LeftInvImplies
<1> QED BY <1>1, <1>2, CoreInvariant, PTL

=============================================================================
