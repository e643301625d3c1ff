------------------------------ MODULE HopSlots ------------------------------
(***************************************************************************)
(* The HopOS driver (internal/runner/hopos.go, hopos_stream.go) and the    *)
(* handoff of a kernel flip (internal/agent/handoff.go).  A task runs in   *)
(* one or more cages of the node.  The driver gives cages out before the   *)
(* image is downloaded and takes them back when the node has let go of     *)
(* them.  A start is one goroutine of the agent, which also makes the Stop *)
(* that follows a failed start, a crash or a ghost; a Stop of a delete     *)
(* runs beside it.  A task ID is started once: a restart has a new one.    *)
(* What the agent decides about a task is in AgentTasks; here it is there, *)
(* queued, running or failed, or gone.                                     *)
(***************************************************************************)
EXTENDS Integers, FiniteSets, FiniteSetsExt

CONSTANTS Task, NoTask,
          Cores,        \* SlotManager.NumCores
          MaxCage,      \* bound: cage IDs; the code has none above the cores
          Jobs,         \* definitions to run: CPUShares / 1024, at least 1, whether
                        \* there is a sharegroup, and the cages of the core class
          MaxDownloads, \* maxConcurrentDownloads
          MaxFaults     \* bound: crashes, failed or timed out Stops, flips

Cage == 1 .. MaxCage

ASSUME HopAssumption ==
  /\ NoTask \notin Task
  /\ Cores \in Nat \ {0} /\ MaxCage \in Nat /\ Cores <= MaxCage
  /\ Jobs \subseteq [cores : Nat \ {0}, shared : BOOLEAN, class : SUBSET Cage]
  /\ MaxDownloads \in Nat \ {0} /\ MaxFaults \in Nat

VARIABLES
  app,      \* the node: whose app is on in each cage
  rec,      \* the agent's record of each task
  job,      \* the definition it is of
  pid,      \* Task.Pid
  slots,    \* HopRunner.slots, 0 for none
  inUse,    \* HopRunner.inUse
  plumbed,  \* tasks in HopRunner.cancels and dones
  armed,    \* tasks with HopRunner.armed
  stopping, \* HopRunner.stopping
  cut,      \* starts whose context Stop has cancelled
  run,      \* the goroutine of each start
  stops,    \* the Stop of the task's own goroutine and that of a request
  kept,     \* history: tasks a Stop failed for, quarantined
  lost,     \* history: apps a flip left without an owner
  faults

agent == <<rec, job, pid>>
maps == <<slots, inUse, plumbed, armed, stopping>>
hist == <<kept, lost>>
vars == <<app, agent, maps, cut, run, stops, hist, faults>>

Caller == {"own", "request"}
StopIdle == [pc |-> "idle", slot |-> 0]

TypeOK ==
  /\ app \in [Cage -> Task \cup {NoTask}]
  /\ rec \in [Task -> {"none", "queued", "running", "failed", "gone"}]
  /\ job \in [Task -> Jobs]
  /\ pid \in [Task -> 0 .. MaxCage]
  /\ slots \in [Task -> 0 .. MaxCage]
  /\ inUse \in [Cage -> Task \cup {NoTask}]
  /\ plumbed \subseteq Task /\ armed \subseteq plumbed /\ stopping \subseteq Task
  /\ cut \subseteq Task
  /\ run \in [Task -> {"idle", "alloc", "queue", "get", "stream", "failing",
                       "unplaced", "arm", "publish", "ok", "err", "full", "restart"}]
  /\ stops \in [Task -> [Caller -> [pc : {"idle", "begin", "wait", "kill", "release"},
                                    slot : 0 .. MaxCage]]]
  /\ kept \subseteq Task /\ lost \subseteq Task
  /\ faults \in 0 .. MaxFaults

Init ==
  /\ app = [c \in Cage |-> NoTask]
  /\ rec = [t \in Task |-> "none"] /\ job \in [Task -> Jobs]
  /\ pid = [t \in Task |-> 0]
  /\ slots = [t \in Task |-> 0] /\ inUse = [c \in Cage |-> NoTask]
  /\ plumbed = {} /\ armed = {} /\ stopping = {}
  /\ cut = {}
  /\ run = [t \in Task |-> "idle"]
  /\ stops = [t \in Task |-> [k \in Caller |-> StopIdle]]
  /\ kept = {} /\ lost = {}
  /\ faults = 0

\* A sharegroup member takes one cage; the node has the cores of the pool.
Cages(t, s) == s .. s + (IF job[t].shared THEN 1 ELSE job[t].cores) - 1
Held(t) == IF slots[t] = 0 THEN {} ELSE Cages(t, slots[t])
Put(f, S, v) == [x \in DOMAIN f |-> IF x \in S THEN v ELSE f[x]]
Off(t) == Put(app, {c \in Cage : app[c] = t}, NoTask)

Fault == faults < MaxFaults /\ faults' = faults + 1
Go(t, pc) == run' = [run EXCEPT ![t] = pc]
-----------------------------------------------------------------------------
(* Run.                                                                    *)

\* handleRun and restartTask: a record, and the goroutine of the start.
AcceptRun(t) ==
  /\ rec[t] = "none"
  /\ rec' = [rec EXCEPT ![t] = "queued"]
  /\ Go(t, "alloc")
  /\ UNCHANGED <<app, job, pid, maps, cut, stops, hist, faults>>

\* The runs of cages that suit t; the node has the cores in pool for sharegroups.
Free(t, pool) ==
  {s \in Cage :
    LET cages == Cages(t, s)
        last == Max(cages)
        dedicated == ~ job[t].shared
    IN /\ IF dedicated THEN (job[t].cores > 1 \/ job[t].class # Cage) => last <= Cores
                       ELSE s > Cores
       /\ last <= MaxCage
       /\ dedicated /\ last <= Cores => cages \cap pool = {}
       /\ \A c \in cages : /\ inUse[c] = NoTask /\ app[c] = NoTask
                           /\ dedicated => c \in job[t].class}

\* Cages that the node reports as off are taken for free.
FreeForNode(t, pool) ==   \* mutant: starts under way are not looked at
  {s \in Cage :
    LET cages == Cages(t, s) IN
       /\ IF job[t].shared THEN s > Cores ELSE Max(cages) <= Cores
       /\ Max(cages) <= MaxCage
       /\ \A c \in cages : app[c] = NoTask}

Take(t, s) ==
  /\ inUse' = Put(inUse, Cages(t, s), t)
  /\ slots' = [slots EXCEPT ![t] = s]
  /\ plumbed' = plumbed \cup {t}
  /\ Go(t, "queue")
  /\ UNCHANGED <<armed, stopping>>

AllocateBlindly(t) ==     \* mutant: only the node is asked
  /\ run[t] = "alloc"
  /\ \E pool \in SUBSET (1 .. Cores) :
       IF FreeForNode(t, pool) = {} THEN Go(t, "full") /\ UNCHANGED maps
                                    ELSE Take(t, Min(FreeForNode(t, pool)))
  /\ UNCHANGED <<app, agent, cut, stops, hist, faults>>

\* The first free run of cages is the task's before a byte is downloaded.
AllocateSlot(t) ==
  /\ run[t] = "alloc"
  /\ \E pool \in SUBSET (1 .. Cores) :
       IF Free(t, pool) = {} THEN Go(t, "full") /\ UNCHANGED maps
                             ELSE Take(t, Min(Free(t, pool)))
  /\ UNCHANGED <<app, agent, cut, stops, hist, faults>>

Downloading == {t \in Task : run[t] \in {"get", "stream", "failing", "unplaced", "arm"}}

\* runViaStream has returned, or never began: its done channel is closed.
Done(t) == run[t] \notin {"queue", "get", "stream", "failing", "unplaced", "arm"}

\* runViaStream returns; that its context is cancelled too matters no more.
Leave(t, pc) ==
  /\ Go(t, pc)
  /\ cut' = cut \ {t}

\* Waiting for a turn to download.
TakeTurn(t) ==
  /\ run[t] = "queue" /\ Cardinality(Downloading) < MaxDownloads
  /\ Go(t, "get")
  /\ UNCHANGED <<app, agent, maps, cut, stops, hist, faults>>

\* Stop cancelled the start while it waited, asked for the image or streamed it.
GiveUp(t) ==
  /\ run[t] \in {"queue", "get", "stream"} /\ t \in cut
  /\ Leave(t, "ok")
  /\ UNCHANGED <<app, agent, maps, stops, hist, faults>>

\* The artifact server answers, or does not, or not with an image of known size.
GetImage(t) ==
  /\ run[t] = "get"
  /\ Go(t, "stream") \/ Go(t, "failing")
  /\ UNCHANGED <<app, agent, maps, cut, stops, hist, faults>>

\* The node streams the image into the cages and starts the app ...
StartStream(t) ==
  /\ run[t] = "stream"
  /\ \A c \in Held(t) : app[c] = NoTask
  /\ app' = Put(app, Held(t), t)
  /\ Go(t, "arm")
  /\ UNCHANGED <<agent, maps, cut, stops, hist, faults>>

\* ... or cleans up what it took, for want of room or because the stream broke.
StreamFails(t) ==
  /\ run[t] = "stream" /\ t \notin cut
  /\ Go(t, "failing") \/ Go(t, "unplaced")
  /\ UNCHANGED <<app, agent, maps, cut, stops, hist, faults>>

ReleaseKeepsArmed(t) ==   \* mutant: the armed flag stays behind
  /\ inUse' = Put(inUse, {c \in Cage : inUse[c] = t}, NoTask)
  /\ slots' = [slots EXCEPT ![t] = 0]
  /\ plumbed' = plumbed \ {t} /\ armed' = armed /\ stopping' = stopping \ {t}

\* release: whatever the maps hold of t.
Release(t) ==
  /\ inUse' = Put(inUse, {c \in Cage : inUse[c] = t}, NoTask)
  /\ slots' = [slots EXCEPT ![t] = 0]
  /\ plumbed' = plumbed \ {t} /\ armed' = armed \ {t} /\ stopping' = stopping \ {t}

\* A failed start gives its cages back itself.
ReleaseFailed(t) ==
  /\ run[t] \in {"failing", "unplaced"}
  /\ Release(t)
  /\ Leave(t, IF run[t] = "failing" THEN "err" ELSE "full")
  /\ UNCHANGED <<app, agent, stops, hist, faults>>

\* From here on a Stop is a stop of the app.
Arm(t) ==
  /\ run[t] = "arm"
  /\ armed' = armed \cup {t}
  /\ Leave(t, IF t \in stopping THEN "ok" ELSE "publish")
  /\ UNCHANGED <<app, agent, slots, inUse, plumbed, stopping, stops, hist, faults>>

\* Task.Pid is set unless a Stop has begun.
Publish(t) ==
  /\ run[t] = "publish"
  /\ pid' = [pid EXCEPT ![t] = IF t \in stopping \/ slots[t] = 0 THEN @ ELSE slots[t]]
  /\ Go(t, "ok")
  /\ UNCHANGED <<app, rec, job, maps, cut, stops, hist, faults>>

StopBegins(t, k) == stops' = [stops EXCEPT ![t][k] = [StopIdle EXCEPT !.pc = "begin"]]

\* startJob and restartTask after Run: a task that is gone is stopped again, a
\* failed one is cleaned up, one that cannot be placed is dropped.
RunReturns(t) ==
  /\ run[t] \in {"ok", "err", "full"}
  /\ Go(t, IF run[t] = "err" THEN "restart" ELSE "idle")
  /\ CASE run[t] = "ok" /\ rec[t] # "gone" ->
            rec' = [rec EXCEPT ![t] = "running"] /\ UNCHANGED stops
       [] run[t] = "ok" /\ rec[t] = "gone" -> StopBegins(t, "own") /\ UNCHANGED rec
       [] run[t] = "err" ->
            /\ StopBegins(t, "own")
            /\ rec' = [rec EXCEPT ![t] = IF @ = "gone" THEN @ ELSE "failed"]
       [] run[t] = "full" -> rec' = [rec EXCEPT ![t] = "gone"] /\ UNCHANGED stops
  /\ UNCHANGED <<app, job, pid, maps, cut, hist, faults>>
-----------------------------------------------------------------------------
(* Stop.                                                                   *)

\* A stop, delete or replace: the record goes, and Stop is called.
RequestStop(t) ==
  /\ rec[t] \in {"queued", "running", "failed"}
  /\ rec' = [rec EXCEPT ![t] = "gone"]
  /\ StopBegins(t, "request")
  /\ UNCHANGED <<app, job, pid, maps, cut, run, hist, faults>>

\* checkTasks: Status finds the core off; restartTask stops what is left.
DetectCrash(t) ==
  /\ rec[t] = "running" /\ run[t] = "idle"
  /\ app[IF slots[t] = 0 THEN pid[t] ELSE slots[t]] # t
  /\ rec' = [rec EXCEPT ![t] = "failed"]
  /\ StopBegins(t, "own")
  /\ Go(t, "restart")
  /\ UNCHANGED <<app, job, pid, maps, cut, hist, faults>>

\* The rest of restartTask: the replacement takes the record's place, or the task
\* is out of restarts and keeps it.
Restart(t) ==
  /\ run[t] = "restart" /\ stops[t]["own"].pc = "idle"
  /\ Go(t, "idle")
  /\ \/ rec[t] = "failed" /\ rec' = [rec EXCEPT ![t] = "gone"]
     \/ UNCHANGED rec
  /\ UNCHANGED <<app, job, pid, maps, cut, stops, hist, faults>>

StopGo(t, k, pc) == stops' = [stops EXCEPT ![t][k].pc = pc]
StopEnds(t, k) == stops' = [stops EXCEPT ![t][k] = StopIdle]

\* A task without a cage is not the driver's.  Otherwise the start is cancelled.
BeginStop(t, k) ==
  /\ stops[t][k].pc = "begin"
  /\ IF slots[t] = 0
     THEN StopEnds(t, k) /\ UNCHANGED <<stopping, cut>>
     ELSE /\ stopping' = stopping \cup {t}
          /\ cut' = IF Done(t) THEN cut ELSE cut \cup {t}
          /\ stops' = [stops EXCEPT ![t][k] =
               [pc |-> IF t \in plumbed THEN "wait" ELSE "kill", slot |-> slots[t]]]
  /\ UNCHANGED <<app, agent, slots, inUse, plumbed, armed, run, hist, faults>>

WaitBriefly(t, k) ==      \* mutant: after the timeout the cages are given back
  /\ stops[t][k].pc = "wait"
  /\ StopGo(t, k, IF t \in armed THEN "kill" ELSE "release")
  /\ \/ Done(t) /\ UNCHANGED faults
     \/ ~ Done(t) /\ Fault
  /\ UNCHANGED <<app, agent, maps, cut, run, hist>>

\* stopOwned waits until the start has ended, and then looks whether there is an
\* app to stop; a start that does not end is kept.
WaitForStart(t, k) ==
  /\ stops[t][k].pc = "wait"
  /\ \/ /\ Done(t)
        /\ StopGo(t, k, IF t \in armed THEN "kill" ELSE "release")
        /\ UNCHANGED <<kept, faults>>
     \/ ~ Done(t) /\ Fault /\ StopEnds(t, k) /\ kept' = kept \cup {t}
  /\ UNCHANGED <<app, agent, maps, cut, run, lost>>

\* SlotManager.Stop turns off whatever runs in the cage, or fails.
StopSlot(t, k) ==
  /\ stops[t][k].pc = "kill"
  /\ \/ /\ app' = IF app[stops[t][k].slot] = NoTask THEN app
                  ELSE Off(app[stops[t][k].slot])
        /\ StopGo(t, k, "release")
        /\ UNCHANGED <<kept, faults>>
     \/ /\ Fault /\ StopEnds(t, k) /\ kept' = kept \cup {t}
        /\ UNCHANGED app
  /\ UNCHANGED <<agent, maps, cut, run, lost>>

ReleaseStopped(t, k) ==
  /\ stops[t][k].pc = "release"
  /\ Release(t)
  /\ StopEnds(t, k)
  /\ UNCHANGED <<app, agent, cut, run, hist, faults>>
-----------------------------------------------------------------------------
(* The node, and a kernel flip.                                            *)

Crash(t) ==
  /\ Fault
  /\ \E c \in Cage : app[c] = t
  /\ app' = Off(t)
  /\ UNCHANGED <<agent, maps, cut, run, stops, hist>>

AdoptNone(S) ==           \* mutant: the maps of the driver are fresh
  /\ slots' = [t \in Task |-> 0]
  /\ inUse' = [c \in Cage |-> NoTask]

\* AdoptRunning: each record with a Pid gets its cages, in the order of a map.
\* The cages are counted by CPUShares, of a sharegroup member too.
Adopt(S) ==
  /\ slots' = [t \in Task |-> IF t \in S THEN pid[t] ELSE 0]
  /\ inUse' \in [Cage -> Task \cup {NoTask}]
  /\ \A c \in Cage :
       LET claims == {t \in S : c \in pid[t] .. pid[t] + job[t].cores - 1}
       IN inUse'[c] \in (IF claims = {} THEN {NoTask} ELSE claims)

\* Snapshot is taken as the kernel jumps; the apps run on, everything else is
\* new.  Restore brings back the records, and AdoptRunning their cages.
Flip ==
  LET known == {t \in Task : rec[t] \in {"queued", "running", "failed"} /\ pid[t] # 0}
  IN /\ Fault
     /\ Adopt(known)
     /\ plumbed' = {} /\ armed' = {} /\ stopping' = {}
     /\ cut' = {}
     /\ run' = [t \in Task |-> "idle"]
     /\ stops' = [t \in Task |-> [k \in Caller |-> StopIdle]]
     /\ lost' = lost \cup {t \in Task \ known : \E c \in Cage : app[c] = t}
     /\ UNCHANGED <<app, agent, kept>>

Starting(t) ==
  \/ AcceptRun(t) \/ AllocateSlot(t) \/ TakeTurn(t) \/ GiveUp(t) \/ GetImage(t)
  \/ StartStream(t) \/ StreamFails(t) \/ ReleaseFailed(t) \/ Arm(t) \/ Publish(t)
  \/ RunReturns(t)

Stopping(t, k) ==
  \/ BeginStop(t, k) \/ WaitForStart(t, k) \/ StopSlot(t, k)
  \/ ReleaseStopped(t, k)

Next ==
  \/ \E t \in Task : Starting(t)
  \/ \E t \in Task : RequestStop(t)
  \/ \E t \in Task : DetectCrash(t)
  \/ \E t \in Task : Restart(t)
  \/ \E t \in Task, k \in Caller : Stopping(t, k)
  \/ \E t \in Task : Crash(t)
  \/ Flip

Spec == Init /\ [][Next]_vars
-----------------------------------------------------------------------------
(* Properties.                                                             *)

\* No cage is given to two tasks, whatever is under way on either of them: only
\* the owner of a cage may stop what runs there (slots, inUse, AdoptRunning).
OneOwner == \A t, u \in Task : t # u => Held(t) \cap Held(u) = {}

\* Cages that an image is streamed into, or that an app runs in, are the task's
\* own until the node has let go of them (stopOwned; apps a flip lost excepted).
OwnsWhereItRuns == \A t \in Task \ lost :
  /\ run[t] = "stream" => Held(t) # {}
  /\ {c \in Cage : app[c] = t} \subseteq Held(t)

\* When the agent has done with a task, however its Stops crossed its start, its
\* crash or a flip, it has no cage and no app: nothing leaks and nothing runs
\* unseen (Run, Stop, startJob's ghost guard, AdoptRunning; what is quarantined
\* is excepted).
GoneIsFree == \A t \in Task \ (kept \cup lost) :
  rec[t] = "gone" /\ run[t] = "idle" /\ (\A k \in Caller : stops[t][k].pc = "idle")
  => /\ slots[t] = 0
     /\ \A c \in Cage : inUse[c] # t /\ app[c] # t

\* What a flip hands over is ownership of the cage, and of nothing else
\* (hopos.go:475: "Het is puur EIGENDOM"), however many faults came before it.
AdoptionIsOwnership == OneOwner

=============================================================================
