------------------------------- MODULE Update -------------------------------
(***************************************************************************)
(* Updating a job that runs (internal/leader/update.go).  A definition is  *)
(* a version, 1 before the update and 2 after it.  The update takes the    *)
(* job's dispatching flag, replaces instances by one of three policies and *)
(* gives the flag back; a reconciliation, a renumbering of priorities and  *)
(* a delete, all of which work on copies read earlier, run beside it.      *)
(* LeaderDispatch has these in full; here they have the steps that read or *)
(* write what an update does.  A node that is lost stays lost, and an      *)
(* instance takes one unit of the room of its agent, from the answer to    *)
(* /run, when it is only queued, until it has been removed.                *)
(***************************************************************************)
EXTENDS Integers, FiniteSets, FiniteSetsExt

CONSTANTS Agent, NoAgent,
          Room,                \* instances an agent has room for, neighbours included
          OldCount, NewCount,  \* Job.Count of the two versions
          Policies,            \* update policies to check
          MaxTasks,            \* instances that can be told apart at one time
          MaxFaults            \* bound: faults, deletes and PATCHes in one behaviour

ASSUME UpdateAssumption ==
  /\ IsFiniteSet(Agent) /\ NoAgent \notin Agent /\ Room \in [Agent -> Nat]
  /\ OldCount \in Nat \ {0} /\ NewCount \in Nat \ {0}
  /\ Policies \subseteq {"rolling", "recreate", "bluegreen"}
  /\ MaxTasks \in Nat /\ OldCount <= MaxTasks /\ MaxFaults \in Nat

VARIABLES
  agents,     \* registered with the leader
  dead,       \* machines that are lost
  tasks,      \* the job's instances on the agents
  starting,   \* IDs of those that are queued: accepted, and yet to be started
  placed,     \* leaderState.placed for this job
  neighbour,  \* room that other jobs take on each agent
  store,      \* the definition in the job store
  tombstone,
  flag,       \* leaderState.dispatching for this job
  upd,        \* the goroutine of UpdateJob
  rec,        \* a reconciliation
  patch,      \* the copy that a PATCH of a priority writes back
  del,        \* where DeleteJobByName stands
  faults

env == <<agents, dead, neighbour>>
job == <<store, tombstone, flag>>
vars == <<env, tasks, starting, placed, job, upd, rec, patch, del, faults>>

Gone == [ver |-> 0, deploying |-> FALSE]
Definition(v, d) == [ver |-> v, deploying |-> d]
Definitions == {Gone} \cup [ver : {1, 2}, deploying : BOOLEAN]
\* One that replaces others starts when they are gone.
Task == [id : 1 .. MaxTasks, at : Agent, ver : {1, 2},
         state : {"accepted", "replacing", "stopping"}]
NoTask == [id |-> 0, at |-> NoAgent, ver |-> 1, state |-> "accepted"]

TypeOK ==
  /\ agents \subseteq Agent /\ dead \subseteq Agent
  /\ tasks \subseteq Task /\ starting \subseteq 1 .. MaxTasks
  /\ placed \in [Agent -> Nat]
  /\ neighbour \in [Agent -> Nat]
  /\ store \in Definitions
  /\ tombstone \in BOOLEAN /\ flag \in BOOLEAN
  /\ upd \in [pc : {"idle", "lock", "ask", "fetch", "store", "next", "pass", "track",
                    "inplace", "stop", "unbook", "unlock", "finish", "wipe", "halt",
                    "release", "resubmit", "relock", "over"},
              policy : Policies, asked : SUBSET Agent, olds : SUBSET Task,
              cur : Task \cup {NoTask}, sent : Nat, untried : SUBSET Agent,
              full : BOOLEAN, at : Agent \cup {NoAgent}, ok : BOOLEAN]
  /\ rec \in [pc : {"idle", "renumber", "check", "count", "lock", "pass", "track",
                    "unlock"}, copy : Definitions, left : Nat, untried : SUBSET Agent,
              full : BOOLEAN, at : Agent \cup {NoAgent}]
  /\ patch \in Definitions
  /\ del \in {"idle", "drop", "wipe", "purge", "sweep", "clear"}
  /\ faults \in 0 .. MaxFaults

On(a) == {t \in tasks : t.at = a}
\* Accepted and not told to stop, and those of them that run.
Standing == {t \in tasks : t.state # "stopping"}
Up == {t \in Standing : t.id \notin starting}
CountOf(v) == IF v = 1 THEN OldCount ELSE NewCount
Used(a) == Cardinality(On(a)) + neighbour[a]

IdleRec == [pc |-> "idle", copy |-> Gone, left |-> 0, untried |-> {}, full |-> FALSE,
            at |-> NoAgent]

\* The job runs as version 1, wherever it was placed.
Init ==
  /\ agents = Agent /\ dead = {}
  /\ \E where \in [1 .. OldCount -> Agent] :
       tasks = {[id |-> i, at |-> where[i], ver |-> 1, state |-> "accepted"] :
                  i \in 1 .. OldCount}
  /\ starting = {}
  /\ placed = [a \in Agent |-> Cardinality(On(a))]
  /\ neighbour = [a \in Agent |-> 0]
  /\ \A a \in Agent : Used(a) <= Room[a]
  /\ store = Definition(1, FALSE)
  /\ tombstone = FALSE /\ flag = FALSE
  /\ \E p \in Policies :
       upd = [pc |-> "idle", policy |-> p, asked |-> {}, olds |-> {}, cur |-> NoTask,
              sent |-> 0, untried |-> {}, full |-> FALSE, at |-> NoAgent, ok |-> TRUE]
  /\ rec = IdleRec
  /\ patch = Gone /\ del = "idle"
  /\ faults = 0

Fault == faults < MaxFaults /\ faults' = faults + 1
NoFault == UNCHANGED faults
-----------------------------------------------------------------------------
(* What an agent does with a /run, and a pass over the agents.             *)

\* Task IDs no agent and no goroutine knows; MaxTasks bounds them.
FreshIDs == (1 .. MaxTasks) \ {t.id : t \in tasks \cup upd.olds \cup {upd.cur}}
NewTask(a, v, s) == [id |-> Min(FreshIDs), at |-> a, ver |-> v, state |-> s]
Stopped(t) == [t EXCEPT !.state = "stopping"]

\* What is new on an agent is queued; what is told to stop, or gone, no longer.
Queues == starting' = {t.id : t \in {u \in tasks' : u.state # "stopping"
                         /\ (u.id \in starting \/ \A w \in tasks : w.id # u.id)}}

\* handleRun: admission, and the task in the map is the reservation; it is answered
\* before anything is downloaded or started.
Accept(a, v) ==
  /\ a \notin dead /\ Used(a) + 1 <= Room[a] /\ FreshIDs # {}
  /\ tasks' = tasks \cup {NewTask(a, v, "accepted")} /\ Queues

\* The agent answers 503.
Refuse(a) == a \notin dead /\ Used(a) + 1 > Room[a] /\ UNCHANGED <<tasks, starting>>

\* handleRun with replace=1: the job's own tasks do not count, and all of those on
\* the agent are told to stop; the new one starts when they are gone.
Replace(a) ==
  /\ a \notin dead /\ neighbour[a] + 1 <= Room[a] /\ FreshIDs # {}
  /\ tasks' = {IF t.at = a THEN Stopped(t) ELSE t : t \in tasks}
              \cup {NewTask(a, 2, "replacing")}
  /\ Queues

\* dispatchJob begins.
Pass(g) == [g EXCEPT !.pc = "pass", !.untried = agents, !.full = FALSE]

\* sendRunToAgent, with version v, to the next agent of the pass of goroutine g, which
\* is then h: taken, passed over because it is full, or passed over.
Offer(g, h, v) ==
  \E a \in g.untried \cap agents :
    LET on == [g EXCEPT !.untried = @ \ {a}] IN
    \/ /\ tombstone \/ a \in dead
       /\ h = on /\ NoFault /\ UNCHANGED <<tasks, starting>>
    \/ /\ ~ tombstone /\ Refuse(a)
       /\ h = [on EXCEPT !.full = TRUE] /\ NoFault
    \/ /\ ~ tombstone /\ Accept(a, v)
       /\ \/ h = [on EXCEPT !.pc = "track", !.at = a] /\ NoFault
          \/ h = on /\ Fault

PassOver(g) == g.pc = "pass" /\ g.untried \cap agents = {}

Track(a) == placed' = [placed EXCEPT ![a] = @ + 1]
-----------------------------------------------------------------------------
(* UpdateJob.                                                              *)

others == <<env, rec, patch, del>>
Goto(pc) == upd' = [upd EXCEPT !.pc = pc]
\* A pass is over, an old instance dealt with, the update itself.
PassTo(pc, ok) == upd' = [upd EXCEPT !.pc = pc, !.untried = {}, !.full = FALSE,
                                     !.at = NoAgent, !.ok = ok]
NextFrom(g) == [g EXCEPT !.pc = "next", !.cur = NoTask]
Return(pc) == upd' = [upd EXCEPT !.pc = pc, !.olds = {}, !.cur = NoTask, !.sent = 0]
ToUpd(g) == upd' = g

\* The job exists and the policy is one of the three.
UpdateJob ==
  /\ upd.pc = "idle" /\ store # Gone
  /\ Goto("lock")
  /\ UNCHANGED <<others, tasks, starting, placed, job, faults>>

\* lockJob; 409 if the flag is taken.
LockJob ==
  /\ upd.pc = "lock"
  /\ flag' = TRUE
  /\ IF flag THEN Goto("idle")
     ELSE Goto(IF upd.policy = "recreate" THEN "wipe" ELSE "ask")
  /\ UNCHANGED <<others, tasks, starting, placed, store, tombstone, faults>>

\* GetJobStatus: the agents that have the job according to the books ...
AskAgents ==
  /\ upd.pc = "ask"
  /\ upd' = [upd EXCEPT !.pc = "fetch",
               !.asked = IF store = Gone THEN {} ELSE {a \in agents : placed[a] > 0}]
  /\ UNCHANGED <<others, tasks, starting, placed, job, faults>>

\* ... and what each of them says that it has; one that does not answer is passed
\* over, dead or not.
FetchTasks ==
  /\ upd.pc = "fetch"
  /\ \E silent \in SUBSET (upd.asked \ dead) :
       /\ upd' = [upd EXCEPT !.pc = "store", !.asked = {},
                    !.olds = {t \in tasks : t.at \in upd.asked \ (dead \cup silent)}]
       /\ IF silent = {} THEN NoFault ELSE Fault
  /\ UNCHANGED <<others, tasks, starting, placed, job>>

StoreNew ==
  /\ upd.pc = "store"
  /\ store' = Definition(2, TRUE)
  /\ Goto("next")
  /\ UNCHANGED <<others, tasks, starting, placed, tombstone, flag, faults>>

NextOld(pc) == \E t \in upd.olds :
  upd' = [(IF pc = "pass" THEN Pass(upd) ELSE [upd EXCEPT !.pc = pc])
          EXCEPT !.cur = t, !.olds = @ \ {t}, !.sent = @ + 1]

\* Rolling: one new instance for one old one, while the count has not been reached.
RollNext ==
  /\ upd.pc = "next" /\ upd.policy = "rolling"
  /\ \/ upd.olds = {} /\ Goto("unlock")
     \/ upd.sent < NewCount /\ NextOld("pass")
     \/ upd.sent >= NewCount /\ NextOld("stop")
  /\ UNCHANGED <<others, tasks, starting, placed, job, faults>>

\* Blue-green: all new instances, then the old ones.
BlueGreenNext ==
  /\ upd.pc = "next" /\ upd.policy = "bluegreen"
  /\ \/ upd.sent < NewCount /\ upd' = [Pass(upd) EXCEPT !.sent = @ + 1]
     \/ upd.sent >= NewCount /\ NextOld("stop")
     \/ upd.sent >= NewCount /\ upd.olds = {} /\ Goto("unlock")
  /\ UNCHANGED <<others, tasks, starting, placed, job, faults>>

SendNew ==
  /\ upd.pc = "pass"
  /\ Offer(upd, upd', 2)
  /\ UNCHANGED <<others, placed, job>>

TrackNew ==
  /\ upd.pc = "track"
  /\ Track(upd.at)
  /\ CASE upd.policy = "rolling" -> PassTo("stop", TRUE)
       [] upd.policy = "bluegreen" -> PassTo("next", TRUE)
       [] upd.policy = "recreate" /\ upd.sent < NewCount ->
            upd' = [Pass(upd) EXCEPT !.sent = @ + 1, !.at = NoAgent]
       [] OTHER -> PassTo("unlock", TRUE)
  /\ UNCHANGED <<others, tasks, starting, job, faults>>

NoRoomGoesOn ==      \* mutant: a full cluster does not stop a rolling update
  /\ PassOver(upd)
  /\ IF upd.policy = "rolling" THEN PassTo("stop", TRUE) ELSE PassTo("unlock", FALSE)
  /\ UNCHANGED <<others, tasks, starting, placed, job, faults>>

\* No agent took it.  Rolling falls back to replacing in place if there was no room
\* and the old instance's agent is still there; otherwise the update fails.
NoRoom ==
  /\ PassOver(upd)
  /\ IF upd.policy = "rolling" /\ upd.full /\ upd.cur.at \in agents
     THEN PassTo("inplace", TRUE)
     ELSE PassTo("unlock", FALSE)
  /\ UNCHANGED <<others, tasks, starting, placed, job, faults>>

\* sendReplaceToAgent: on success there is nothing to stop and nothing to count.
InPlace ==
  /\ upd.pc = "inplace"
  /\ \/ /\ ~ tombstone /\ Replace(upd.cur.at)
        /\ \/ ToUpd(NextFrom(upd)) /\ NoFault
           \/ PassTo("unlock", FALSE) /\ Fault
     \/ /\ \/ tombstone \/ upd.cur.at \in dead
           \/ neighbour[upd.cur.at] + 1 > Room[upd.cur.at]
        /\ PassTo("unlock", FALSE)
        /\ NoFault /\ UNCHANGED <<tasks, starting>>
  /\ UNCHANGED <<others, placed, job>>

\* stopTaskByID, which is answered while the task is still stopping; a failed call
\* is ignored.
StopOld ==
  /\ upd.pc = "stop"
  /\ \/ upd.cur.at \in agents \ dead /\ Goto("unbook") /\ NoFault
        /\ tasks' = {IF t.id = upd.cur.id THEN Stopped(t) ELSE t : t \in tasks}
        /\ Queues
     \/ upd.cur.at \in agents \ dead /\ Goto("unbook") /\ Fault /\ UNCHANGED <<tasks, starting>>
     \/ upd.cur.at \in agents \cap dead /\ Goto("unbook") /\ NoFault /\ UNCHANGED <<tasks, starting>>
     \/ upd.cur.at \notin agents /\ ToUpd(NextFrom(upd)) /\ NoFault /\ UNCHANGED <<tasks, starting>>
  /\ UNCHANGED <<others, placed, job>>

UnbookBlindly ==     \* mutant: without a look at the count
  /\ upd.pc = "unbook"
  /\ placed' = [placed EXCEPT ![upd.cur.at] = @ - 1]
  /\ ToUpd(NextFrom(upd))
  /\ UNCHANGED <<others, tasks, starting, job, faults>>

UnbookRolling ==     \* mutant: blue-green forgets the books
  /\ upd.pc = "unbook"
  /\ placed' = [placed EXCEPT ![upd.cur.at] =
                  IF @ > 0 /\ upd.policy = "rolling" THEN @ - 1 ELSE @]
  /\ ToUpd(NextFrom(upd))
  /\ UNCHANGED <<others, tasks, starting, job, faults>>

Unbook ==
  /\ upd.pc = "unbook"
  /\ placed' = [placed EXCEPT ![upd.cur.at] = IF @ > 0 THEN @ - 1 ELSE 0]
  /\ ToUpd(NextFrom(upd))
  /\ UNCHANGED <<others, tasks, starting, job, faults>>

UnlockOnSuccess ==   \* mutant: a failing update returns with the flag set
  /\ upd.pc = "unlock"
  /\ flag' = (flag /\ ~ upd.ok)
  /\ Return(IF upd.ok THEN "finish" ELSE "over")
  /\ UNCHANGED <<others, tasks, starting, placed, store, tombstone, faults>>

FinishAnyway ==      \* mutant: the rollout is over, whether it failed or not
  /\ upd.pc = "unlock"
  /\ flag' = FALSE
  /\ Return("finish")
  /\ UNCHANGED <<others, tasks, starting, placed, store, tombstone, faults>>

\* unlockJob; a failed update leaves Deploying set.
UnlockJob ==
  /\ upd.pc = "unlock"
  /\ flag' = FALSE
  /\ Return(IF upd.ok THEN "finish" ELSE "over")
  /\ UNCHANGED <<others, tasks, starting, placed, store, tombstone, faults>>

\* The final StoreJob, after the flag has been given back.
Finish ==
  /\ upd.pc = "finish"
  /\ store' = Definition(2, FALSE)
  /\ Goto("over")
  /\ UNCHANGED <<others, tasks, starting, placed, tombstone, flag, faults>>
-----------------------------------------------------------------------------
(* updateRecreate.                                                         *)

WipePlaced ==
  /\ upd.pc = "wipe"
  /\ upd' = [upd EXCEPT !.pc = "halt", !.asked = {a \in agents : placed[a] > 0}]
  /\ placed' = [a \in Agent |-> 0]
  /\ UNCHANGED <<others, tasks, starting, job, faults>>

\* stopTasksOnAgent, one agent after the other, answered when the tasks are gone;
\* failures are ignored.
HaltTasks ==
  /\ upd.pc = "halt"
  /\ \/ \E a \in upd.asked :
          /\ upd' = [upd EXCEPT !.asked = @ \ {a}]
          /\ \/ tasks' = (IF a \in dead THEN tasks ELSE tasks \ On(a)) /\ Queues /\ NoFault
             \/ a \notin dead /\ UNCHANGED <<tasks, starting>> /\ Fault
     \/ upd.asked = {} /\ Goto("release") /\ UNCHANGED <<tasks, starting>> /\ NoFault
  /\ UNCHANGED <<others, placed, job>>

\* The flag is given back before DispatchJob stores the new definition.
ReleaseFlag ==
  /\ upd.pc = "release"
  /\ flag' = FALSE
  /\ Goto("resubmit")
  /\ UNCHANGED <<others, tasks, starting, placed, store, tombstone, faults>>

\* DispatchJob: the tombstone is lifted and the definition stored.
Resubmit ==
  /\ upd.pc = "resubmit"
  /\ tombstone' = FALSE
  /\ store' = Definition(2, TRUE)
  /\ Goto("relock")
  /\ UNCHANGED <<others, tasks, starting, placed, flag, faults>>

\* dispatchInstances: whoever has the flag dispatches, which counts as success.
Relock ==
  /\ upd.pc = "relock"
  /\ flag' = TRUE
  /\ upd' = IF flag THEN [upd EXCEPT !.pc = "finish"]
                    ELSE [Pass(upd) EXCEPT !.sent = 1]
  /\ UNCHANGED <<others, tasks, starting, placed, store, tombstone, faults>>
-----------------------------------------------------------------------------
(* A reconciliation, with the definition it read when it began.            *)

notRec == <<env, upd, patch, del>>
RecGoto(pc) == rec' = [rec EXCEPT !.pc = pc]

ReconcileJobs ==
  /\ rec.pc = "idle" /\ store # Gone /\ agents # {}
  /\ rec' = [rec EXCEPT !.pc = "renumber", !.copy = store]
  /\ UNCHANGED <<notRec, tasks, starting, placed, job, faults>>

\* normalizePriorities: a job whose priority changes is written back as it was
\* read, if there still is one.
NormalizePriorities ==
  /\ rec.pc = "renumber"
  /\ \/ UNCHANGED store
     \/ store # Gone /\ store' = rec.copy
  /\ RecGoto("check")
  /\ UNCHANGED <<notRec, tasks, starting, placed, tombstone, flag, faults>>

CheckFlag ==
  /\ rec.pc = "check"
  /\ IF flag THEN rec' = IdleRec ELSE RecGoto("count")
  /\ UNCHANGED <<notRec, tasks, starting, placed, job, faults>>

\* The instances in the books, one by one.
Booked == UNION {{a} \X (1 .. placed[a]) : a \in agents}

CountPlaced ==
  /\ rec.pc = "count"
  /\ LET missing == CountOf(rec.copy.ver) - Cardinality(Booked)
     IN rec' = IF missing > 0 THEN [rec EXCEPT !.pc = "lock", !.left = missing]
                              ELSE IdleRec
  /\ UNCHANGED <<notRec, tasks, starting, placed, job, faults>>

LockInstances ==
  /\ rec.pc = "lock"
  /\ flag' = TRUE
  /\ rec' = IF flag THEN IdleRec ELSE Pass(rec)
  /\ UNCHANGED <<notRec, tasks, starting, placed, store, tombstone, faults>>

SendMissing ==
  /\ rec.pc = "pass"
  /\ Offer(rec, rec', rec.copy.ver)
  /\ UNCHANGED <<notRec, placed, job>>

TrackMissing ==
  /\ rec.pc = "track"
  /\ Track(rec.at)
  /\ rec' = IF rec.left > 1 THEN [Pass(rec) EXCEPT !.left = @ - 1, !.at = NoAgent]
                            ELSE [IdleRec EXCEPT !.pc = "unlock"]
  /\ UNCHANGED <<notRec, tasks, starting, job, faults>>

NoneTakesIt ==
  /\ PassOver(rec)
  /\ rec' = [IdleRec EXCEPT !.pc = "unlock"]
  /\ UNCHANGED <<notRec, tasks, starting, placed, job, faults>>

UnlockInstances ==
  /\ rec.pc = "unlock"
  /\ flag' = FALSE
  /\ rec' = IdleRec
  /\ UNCHANGED <<notRec, tasks, starting, placed, store, tombstone, faults>>
-----------------------------------------------------------------------------
(* PATCH of a priority, and a delete.                                      *)

\* PatchJobPriority reads all definitions ...
PatchRead ==
  /\ patch = Gone /\ store # Gone
  /\ Fault
  /\ patch' = store
  /\ UNCHANGED <<env, tasks, starting, placed, job, upd, rec, del>>

\* ... and writes them back with their new numbers, where they still exist.
PatchWrite ==
  /\ patch # Gone
  /\ patch' = Gone
  /\ store' = IF store = Gone THEN Gone ELSE patch
  /\ UNCHANGED <<env, tasks, starting, placed, tombstone, flag, upd, rec, del, faults>>

notDel == <<env, upd, rec, patch>>

DeleteJob ==
  /\ del = "idle" /\ store # Gone
  /\ Fault
  /\ del' = "drop" /\ tombstone' = TRUE
  /\ UNCHANGED <<env, tasks, starting, placed, store, flag, upd, rec, patch>>

DropJob ==
  /\ del = "drop"
  /\ del' = "wipe" /\ store' = Gone
  /\ UNCHANGED <<notDel, tasks, starting, placed, tombstone, flag, faults>>

\* The agents that have it by the books are told; those calls are answered, or not,
\* after the tasks are gone.
WipeAndPurge ==
  /\ del = "wipe"
  /\ del' = "sweep"
  /\ placed' = [a \in Agent |-> 0]
  /\ \E deaf \in SUBSET (agents \ dead) :
       /\ tasks' = {t \in tasks : t.at \notin agents \ deaf \/ placed[t.at] = 0}
       /\ Queues
       /\ IF deaf = {} THEN NoFault ELSE Fault
  /\ UNCHANGED <<notDel, store, tombstone, flag>>

\* The sweep: while the tombstone stands, a job that came back goes again.
Sweep ==
  /\ del = "sweep"
  /\ IF tombstone /\ store # Gone
     THEN /\ store' = Gone
          /\ \E deaf \in SUBSET (agents \ dead) :
               /\ tasks' = {t \in tasks : t.at \notin agents \ deaf}
               /\ Queues
               /\ IF deaf = {} THEN NoFault ELSE Fault
          /\ UNCHANGED del
     ELSE del' = "clear" /\ NoFault /\ UNCHANGED <<store, tasks, starting>>
  /\ UNCHANGED <<notDel, placed, tombstone, flag>>

ClearFlag ==
  /\ del = "clear"
  /\ del' = "idle" /\ flag' = FALSE
  /\ UNCHANGED <<notDel, tasks, starting, placed, store, tombstone, faults>>
-----------------------------------------------------------------------------
(* The agents and their neighbours.                                        *)

notEnv == <<job, upd, rec, patch, del>>

\* What is queued runs, ...
Startable(t) ==
  /\ t \in Standing /\ t.id \in starting
  /\ t.state = "replacing" => \A u \in On(t.at) : u.state # "stopping"

Start(t) ==
  /\ Startable(t)
  /\ starting' = starting \ {t.id}
  /\ UNCHANGED <<env, tasks, placed, notEnv, faults>>

\* ... or fails: it is tried again under another ID, or its room is given back, of
\* which the leader hears or does not.
StartFails(t) ==
  /\ Startable(t) /\ Fault
  /\ \/ /\ FreshIDs # {} /\ UNCHANGED placed
        /\ tasks' = (tasks \ {t}) \cup {NewTask(t.at, t.ver, "accepted")}
     \/ /\ tasks' = tasks \ {t}
        /\ placed' \in {placed, [placed EXCEPT ![t.at] = IF @ > 0 THEN @ - 1 ELSE 0]}
  /\ Queues
  /\ UNCHANGED <<env, notEnv>>

\* stopAndRemove comes to its end.
Removed(t) ==
  /\ t.state = "stopping"
  /\ tasks' = tasks \ {t}
  /\ UNCHANGED <<env, starting, placed, notEnv, faults>>

Die(a) ==
  /\ a \notin dead /\ Fault
  /\ dead' = dead \cup {a}
  /\ tasks' = tasks \ On(a) /\ Queues
  /\ UNCHANGED <<agents, neighbour, placed, notEnv>>

CheckDeadAgent(a) ==
  /\ a \in agents \cap dead
  /\ agents' = agents \ {a}
  /\ placed' = [placed EXCEPT ![a] = 0]
  /\ UNCHANGED <<dead, neighbour, tasks, starting, notEnv, faults>>

\* Another job gets, or loses, an instance on the agent.
NeighbourMoves(a) ==
  /\ \/ Used(a) + 1 <= Room[a] /\ neighbour' = [neighbour EXCEPT ![a] = @ + 1]
     \/ neighbour[a] > 0 /\ neighbour' = [neighbour EXCEPT ![a] = @ - 1]
  /\ UNCHANGED <<agents, dead, tasks, starting, placed, notEnv, faults>>

Updating ==
  \/ LockJob \/ AskAgents \/ FetchTasks \/ StoreNew \/ RollNext \/ BlueGreenNext
  \/ SendNew \/ TrackNew \/ NoRoom \/ InPlace \/ StopOld \/ Unbook \/ UnlockJob \/ Finish
  \/ WipePlaced \/ HaltTasks \/ ReleaseFlag \/ Resubmit \/ Relock

Reconciling ==
  \/ NormalizePriorities \/ CheckFlag \/ CountPlaced \/ LockInstances
  \/ SendMissing \/ TrackMissing \/ NoneTakesIt \/ UnlockInstances

Deleting == DropJob \/ WipeAndPurge \/ Sweep \/ ClearFlag

Next ==
  \/ UpdateJob
  \/ Updating
  \/ ReconcileJobs
  \/ Reconciling
  \/ PatchRead
  \/ PatchWrite
  \/ DeleteJob
  \/ Deleting
  \/ \E t \in tasks : Start(t)
  \/ \E t \in tasks : StartFails(t)
  \/ \E t \in tasks : Removed(t)
  \/ \E a \in Agent : Die(a)
  \/ \E a \in Agent : CheckDeadAgent(a)
  \/ \E a \in Agent : NeighbourMoves(a)

Spec == Init /\ [][Next]_vars

-----------------------------------------------------------------------------
(* Properties.                                                             *)

\* Nothing but the update and its neighbours has happened.
Undisturbed == faults = 0
Overlaps == upd.policy \in {"rolling", "bluegreen"}

\* A rolling or blue-green update gives up an old instance only for a new one that an
\* agent has accepted: as many as both versions want are accepted and not told to
\* stop, whether it succeeds or fails half-way for want of room (updateRolling,
\* updateBlueGreen).  An accepted one may be queued yet; see ZeroDowntime.
KeepsInstances ==
  Undisturbed /\ Overlaps => Cardinality(Standing) >= Min({OldCount, NewCount})

\* A status that says the new version is deployed is true, and stays true, whatever
\* copies of the old definition reconciliations still hold: every instance of the
\* old one has been told to stop (UpdateJob: "sees the honest truth instead of a
\* false healthy").
\* It needs a new version that wants no fewer instances than the old one: where it
\* wants fewer, a reconciliation that still has the old definition counts against the
\* old count, finds instances missing after the update and sends the old version.
HonestStatus ==
  Undisturbed /\ Overlaps /\ store = Definition(2, FALSE) => \A t \in Standing : t.ver = 2

Quiet == upd.pc \in {"idle", "over"} /\ rec.pc = "idle"

\* The books agree with the agents again when an update has ended, failed or not:
\* a wrong count is never corrected by a reconciliation (trackPlacement, stopOldTask).
BooksBalance ==
  Undisturbed /\ Quiet => \A a \in Agent : placed[a] = Cardinality(On(a) \cap Standing)

\* Whoever has set the flag is still there to give it back, on every path of an
\* update or dispatch, failures and deletes included: while it is set, no
\* reconciliation looks at the job (unlockJob).
FlagHasOwner == flag =>
  \/ upd.pc \notin {"idle", "lock", "resubmit", "relock", "finish", "over"}
  \/ rec.pc \in {"pass", "track", "unlock"}

-----------------------------------------------------------------------------
(* Statements of the repository that the code does not keep.               *)

\* "dispatch new version before stopping old (zero downtime)" (updateRolling): the
\* old instance is told to stop when the new one has been accepted, not when it runs.
ZeroDowntime ==
  Undisturbed /\ Overlaps => Cardinality(Up) >= Min({OldCount, NewCount})

\* What the code says of replacing in place: on balance the placement is unchanged
\* (updateRolling).  It fails where an agent runs several instances, all of which
\* the agent replaces by one.
InPlaceIsNeutral == BooksBalance
=============================================================================
