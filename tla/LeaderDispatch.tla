--------------------------- MODULE LeaderDispatch ---------------------------
(***************************************************************************)
(* How the leader places jobs on agents (internal/leader: dispatch.go,     *)
(* health.go, leader.go).                                                  *)
(*                                                                         *)
(* The leader's books - who is registered, what was placed where, which    *)
(* job is being dispatched, which was deleted - are owned by one state     *)
(* loop.  The goroutines that use them (API handlers, reconciliations)     *)
(* hold no lock between two operations of that loop, and in between they   *)
(* call agents over HTTP.  One step here is one such operation, one        *)
(* operation of the JobStore, or one HTTP call as the agent sees it.       *)
(*                                                                         *)
(* The JobStore is the job map of the agent on the leader's own node: an   *)
(* accepted /run on that agent writes the job back into it.                *)
(*                                                                         *)
(* Agents are numbered in the order of their IDs, jobs by their normalised *)
(* priority (1 is the most important), which renumbering keeps, and so     *)
(* does every PATCH of a priority here: one that changes the order of the  *)
(* jobs is not in this module, nor is an update of a running job.          *)
(***************************************************************************)
EXTENDS Integers, FiniteSets, FiniteSetsExt

CONSTANTS
  Agent, Job, Worker,
  Home,        \* the agent whose job map is the JobStore
  Count,       \* Job.Count; -1 runs the job on every agent
  Affine,      \* the agents a job's affinity admits
  Room,        \* how many instances each agent has room for
  Wrap,        \* bound: the round-robin counter is kept modulo this
  Before,      \* jobs that were stored when this leader was elected
  SettleDelay, \* whether the leader was started with a settle delay
  Bound,       \* bounds: how often each of the environment's events happens
  Nobody       \* stands for a nil agent or job

\* "any" bounds them taken together.
Event == {"submit", "patch", "delete", "handback", "restart", "cut", "lost", "leave", "any"}

ASSUME DispatchAssumption ==
  /\ Agent \subseteq Nat /\ IsFiniteSet(Agent) /\ Home \in Agent
  /\ Job \subseteq Nat /\ IsFiniteSet(Job) /\ Before \subseteq Job
  /\ Count \in [Job -> Int]
  /\ Affine \in [Job -> SUBSET Agent]
  /\ Room \in [Agent -> Nat]
  /\ Wrap \in Nat \ {0} /\ \A n \in 1 .. Cardinality(Agent) : Wrap % n = 0
  /\ SettleDelay \in BOOLEAN
  /\ Bound \in [Event -> Nat]
  /\ Nobody \notin Agent \cup Job

Daemon(j)  == Count[j] = -1
Desired(j) == IF Count[j] <= 0 THEN 1 ELSE Count[j]

\* Where a goroutine stands while it has the job's dispatching flag ...
Holding == {"missing", "daemon", "sendDaemon", "trackDaemon", "begin", "pick", "offer",
            "send", "track", "victim", "stop", "unbook", "offerEvict", "sendEvict", "unlock"}
\* ... and elsewhere: reconciling, or handling a request.
Other == {"idle", "snapJobs", "snapAgents", "reset", "next", "check", "count", "claim",
          "lock", "lift", "store", "snapOne", "mark", "tomb", "drop", "wipe",
          "purge", "sweep", "look", "clear", "register", "trim", "trimDrop", "trimAgent",
          "trimStop"}

VARIABLES
  store,       \* the JobStore: the jobs that have a definition
  agents,      \* leaderState.agents: the registered ones
  placed,      \* leaderState.placed, 0 where an entry is missing
  dispatching, \* leaderState.dispatching
  settled,     \* leaderState.settled
  tombstones,  \* leaderState.tombstones
  roundRobin,  \* leaderState.roundRobin, modulo Wrap
  due,         \* a `go reconcileJobs()` that has not begun yet
  real,        \* the instances each agent really has
  reach,       \* the agents that can be reached
  fresh,       \* agents restarted since they last registered
  pc,          \* the goroutines, and their local variables:
  job,         \*   the job at hand
  todo,        \*   reconcileJobs: the jobs still to look at
  seen,        \*   reconcileJobs: its snapshot of the agents
  need,        \*   instances still to dispatch; sweeps made by a delete
  tries,       \*   attempts left in the round-robin pass
  at,          \*   the agent at hand
  cand,        \*   agents still to deal with
  victim,      \*   the job to preempt
  report,      \*   the counts an agent reports when it registers
  allowed      \* how many of each of the environment's events are left

books  == <<agents, placed, dispatching, settled, tombstones, roundRobin, due>>
sites  == <<real, reach, fresh>>
slot   == <<need, tries, at, cand, victim>>
work   == <<job, todo, seen, slot, report>>
vars   == <<store, books, sites, pc, work, allowed>>

Zero == [j \in Job |-> 0]

\* The instances of j on the agents of S, counted one by one.
Total(f, S, j) == Cardinality(UNION {{a} \X (1 .. f[a][j]) : a \in S})

TypeOK ==
  /\ store \subseteq Job /\ agents \subseteq Agent
  /\ placed \in [Agent -> [Job -> Nat]] /\ real \in [Agent -> [Job -> Nat]]
  /\ dispatching \subseteq Job /\ tombstones \subseteq Job
  /\ settled \in BOOLEAN /\ due \in BOOLEAN
  /\ roundRobin \in 0 .. Wrap - 1
  /\ reach \subseteq Agent /\ fresh \subseteq Agent
  /\ pc \in [Worker -> Holding \cup Other]
  /\ job \in [Worker -> Job \cup {Nobody}]
  /\ todo \in [Worker -> SUBSET Job]
  /\ seen \in [Worker -> SUBSET Agent] /\ cand \in [Worker -> SUBSET Agent]
  /\ need \in [Worker -> Nat] /\ tries \in [Worker -> Nat]
  /\ at \in [Worker -> Agent \cup {Nobody}]
  /\ victim \in [Worker -> Job \cup {Nobody}]
  /\ report \in [Worker -> [Job -> Nat]]
  /\ allowed \in [Event -> Nat]

\* A new leader: its books know what runs on its own node; what its predecessor
\* placed on other agents is running there still.
Init ==
  /\ store = Before
  /\ real \in {r \in [Agent -> [Job -> 0 .. 1]] :
                 /\ \A j \in Job, a \in Agent :
                      r[a][j] > 0 => j \in Before /\ a \in Affine[j]
                 /\ \A j \in Before : Daemon(j) \/ Total(r, Agent, j) <= Desired(j)
                 /\ \A a \in Agent : MapThenSumSet(LAMBDA j : r[a][j], Job) <= Room[a]}
  /\ agents = {Home}
  /\ placed = [a \in Agent |-> IF a = Home THEN real[Home] ELSE Zero]
  /\ dispatching = {} /\ tombstones = {} /\ roundRobin = 0 /\ due = FALSE
  /\ settled = ~SettleDelay
  /\ reach = Agent /\ fresh = {}
  /\ pc = [w \in Worker |-> "idle"]
  /\ job = [w \in Worker |-> Nobody] /\ victim = [w \in Worker |-> Nobody]
  /\ at = [w \in Worker |-> Nobody]
  /\ todo = [w \in Worker |-> {}]
  /\ seen = [w \in Worker |-> {}] /\ cand = [w \in Worker |-> {}]
  /\ need = [w \in Worker |-> 0] /\ tries = [w \in Worker |-> 0]
  /\ report = [w \in Worker |-> Zero]
  /\ allowed = Bound

Go(w, p) == pc' = [pc EXCEPT ![w] = p]

\* What a goroutine remembers of the job it worked on is forgotten ...
ClearSlot(w) ==
  /\ need' = [need EXCEPT ![w] = 0] /\ tries' = [tries EXCEPT ![w] = 0]
  /\ at' = [at EXCEPT ![w] = Nobody] /\ cand' = [cand EXCEPT ![w] = {}]
  /\ victim' = [victim EXCEPT ![w] = Nobody]

\* ... and everything else when it returns.
Return(w) ==
  /\ Go(w, "idle") /\ ClearSlot(w)
  /\ job' = [job EXCEPT ![w] = Nobody] /\ todo' = [todo EXCEPT ![w] = {}]
  /\ seen' = [seen EXCEPT ![w] = {}] /\ report' = [report EXCEPT ![w] = Zero]

Happens(e) == /\ allowed[e] > 0 /\ allowed["any"] > 0
              /\ allowed' = [allowed EXCEPT ![e] = @ - 1, !["any"] = @ - 1]
-----------------------------------------------------------------------------
(* reconcileJobs and reconcileJob.                                         *)

\* A spawned reconcileJobs begins.
StartReconcile(w) ==
  /\ pc[w] = "idle" /\ due
  /\ due' = FALSE
  /\ Go(w, "snapJobs")
  /\ UNCHANGED <<store, agents, placed, dispatching, settled, tombstones, roundRobin,
                 sites, work, allowed>>

\* Its snapshot of the jobs; none, and it returns.
SnapJobs(w) ==
  /\ pc[w] = "snapJobs"
  /\ IF store = {}
       THEN Return(w)
       ELSE /\ Go(w, "snapAgents")
            /\ todo' = [todo EXCEPT ![w] = store]
            /\ UNCHANGED <<job, seen, slot, report>>
  /\ UNCHANGED <<store, books, sites, allowed>>

\* Its snapshot of the agents; none, and it returns.
SnapAgents(w) ==
  /\ pc[w] = "snapAgents"
  /\ IF agents = {}
       THEN Return(w)
       ELSE /\ Go(w, "reset")
            /\ seen' = [seen EXCEPT ![w] = agents]
            /\ UNCHANGED <<job, todo, slot, report>>
  /\ UNCHANGED <<store, books, sites, allowed>>

\* Priorities are renumbered, which keeps their order; the round robin all
\* dispatches share starts over.
ResetRound(w) ==
  /\ pc[w] = "reset"
  /\ roundRobin' = 0
  /\ Go(w, "next")
  /\ UNCHANGED <<store, agents, placed, dispatching, settled, tombstones, due, sites,
                 work, allowed>>

\* The next job, the most important first.
NextJob(w) ==
  /\ pc[w] = "next"
  /\ IF todo[w] = {}
       THEN Return(w)
       ELSE /\ Go(w, "check")
            /\ job' = [job EXCEPT ![w] = Min(todo[w])]
            /\ todo' = [todo EXCEPT ![w] = @ \ {Min(todo[w])}]
            /\ ClearSlot(w)
            /\ UNCHANGED <<seen, report>>
  /\ UNCHANGED <<store, books, sites, allowed>>

\* reconcileJob skips a job that is being dispatched.
CheckDispatching(w) ==
  /\ pc[w] = "check"
  /\ Go(w, IF job[w] \in dispatching THEN "next"
           ELSE IF Daemon(job[w]) THEN "claim" ELSE "count")
  /\ UNCHANGED <<store, books, sites, work, allowed>>

\* Mutant: the flag is set without a look at it.
ClaimBlindly(w) ==
  /\ pc[w] = "claim"
  /\ dispatching' = dispatching \cup {job[w]}
  /\ Go(w, "missing")
  /\ UNCHANGED <<store, agents, placed, settled, tombstones, roundRobin, due,
                 sites, work, allowed>>

\* A daemon is claimed before its placements are read.
ClaimDaemon(w) ==
  /\ pc[w] = "claim"
  /\ dispatching' = dispatching \cup {job[w]}
  /\ Go(w, IF job[w] \in dispatching THEN "next" ELSE "missing")
  /\ UNCHANGED <<store, agents, placed, settled, tombstones, roundRobin, due,
                 sites, work, allowed>>

ListMissing(w) ==
  /\ pc[w] = "missing"
  /\ cand' = [cand EXCEPT ![w] = {a \in seen[w] : placed[a][job[w]] = 0}]
  /\ Go(w, "daemon")
  /\ UNCHANGED <<store, books, sites, job, todo, seen, need, tries, at, victim, report, allowed>>

\* The next agent that lacks the daemon; a deleted job is not sent any more.
NextMissing(w) ==
  /\ pc[w] = "daemon"
  /\ IF cand[w] = {}
       THEN Go(w, "unlock") /\ UNCHANGED <<at, cand>>
       ELSE \E a \in cand[w] :
              /\ at' = [at EXCEPT ![w] = a] /\ cand' = [cand EXCEPT ![w] = @ \ {a}]
              /\ Go(w, IF job[w] \in tombstones THEN "daemon" ELSE "sendDaemon")
  /\ UNCHANGED <<store, books, sites, job, todo, seen, need, tries, victim, report, allowed>>

\* Mutant: the placements on agents that are gone count too.
CountEvicted(w) ==
  /\ pc[w] = "count"
  /\ LET missing == Desired(job[w]) - Total(placed, Agent, job[w])
     IN IF missing > 0
          THEN Go(w, "lock") /\ need' = [need EXCEPT ![w] = missing]
          ELSE Go(w, "next") /\ UNCHANGED need
  /\ UNCHANGED <<store, books, sites, job, todo, seen, tries, at, cand, victim, report, allowed>>

\* A regular job: what the books say is missing ...
CountPlaced(w) ==
  /\ pc[w] = "count"
  /\ LET missing == Desired(job[w]) - Total(placed, agents, job[w])
     IN IF missing > 0
          THEN Go(w, "lock") /\ need' = [need EXCEPT ![w] = missing]
          ELSE Go(w, "next") /\ UNCHANGED need
  /\ UNCHANGED <<store, books, sites, job, todo, seen, tries, at, cand, victim, report, allowed>>

-----------------------------------------------------------------------------
(* dispatchInstances and dispatchJob.                                      *)

\* Mutant: two goroutines may both find the flag clear.
LockBlindly(w) ==
  /\ pc[w] = "lock"
  /\ dispatching' = dispatching \cup {job[w]}
  /\ Go(w, "begin")
  /\ UNCHANGED <<store, agents, placed, settled, tombstones, roundRobin, due,
                 sites, work, allowed>>

\* ... is dispatched by the one who sets the flag.
Lock(w) ==
  /\ pc[w] = "lock"
  /\ dispatching' = dispatching \cup {job[w]}
  /\ Go(w, IF job[w] \in dispatching THEN "next" ELSE "begin")
  /\ UNCHANGED <<store, agents, placed, settled, tombstones, roundRobin, due,
                 sites, work, allowed>>

\* Mutant: the error return without the deferred unlock.
BeginStranding(w) ==
  /\ pc[w] = "begin"
  /\ tries' = [tries EXCEPT ![w] = Cardinality(agents)]
  /\ cand' = [cand EXCEPT ![w] = {}]
  /\ Go(w, IF agents = {} THEN "next" ELSE "pick")
  /\ UNCHANGED <<store, books, sites, job, todo, seen, need, at, victim, report, allowed>>

\* One instance: the first pass makes as many attempts as there are agents now.
Begin(w) ==
  /\ pc[w] = "begin"
  /\ tries' = [tries EXCEPT ![w] = Cardinality(agents)]
  /\ cand' = [cand EXCEPT ![w] = {}]
  /\ Go(w, IF agents = {} THEN "unlock" ELSE "pick")
  /\ UNCHANGED <<store, books, sites, job, todo, seen, need, at, victim, report, allowed>>

\* The agents in the order of their IDs, the first of them number 0.
Sorted(n) == CHOOSE a \in agents : Cardinality({b \in agents : b < a}) = n

\* nextAgent.
Pick(w) ==
  /\ pc[w] = "pick" /\ tries[w] > 0 /\ agents # {}
  /\ at' = [at EXCEPT ![w] = Sorted(roundRobin % Cardinality(agents))]
  /\ roundRobin' = (roundRobin + 1) % Wrap
  /\ tries' = [tries EXCEPT ![w] = @ - 1]
  /\ Go(w, "offer")
  /\ UNCHANGED <<store, agents, placed, dispatching, settled, tombstones, due, sites,
                 job, todo, seen, need, cand, victim, report, allowed>>

\* Every agent was tried: the second pass begins.
PickNoMore(w) ==
  /\ pc[w] = "pick" /\ (tries[w] = 0 \/ agents = {})
  /\ Go(w, "victim")
  /\ UNCHANGED <<store, books, sites, work, allowed>>

\* The tombstone check on the way to an agent.
Offer(w) ==
  /\ \/ pc[w] = "offer" /\ Go(w, IF job[w] \in tombstones THEN "pick" ELSE "send")
     \/ pc[w] = "offerEvict" /\ Go(w, IF job[w] \in tombstones THEN "victim" ELSE "sendEvict")
  /\ UNCHANGED <<store, books, sites, work, allowed>>

\* The agent has room: the job is written to its map and a task begins.
Accept(w) ==
  /\ real' = [real EXCEPT ![at[w]][job[w]] = @ + 1]
  /\ store' = IF at[w] = Home THEN store \cup {job[w]} ELSE store

Full(a) == MapThenSumSet(LAMBDA j : real[a][j], Job) >= Room[a]

\* /run at the agent: accepted, 503 for want of room, or an error (406, not
\* reached).  An accepted request may still end as an error for the leader.
SendRun(w, accepted, full, failed) ==
  LET a == at[w]
  IN \/ /\ a \in reach /\ a \in Affine[job[w]] /\ ~Full(a)
        /\ Accept(w)
        /\ \/ Go(w, accepted) /\ UNCHANGED allowed
           \/ a # Home /\ Happens("lost") /\ Go(w, failed)
        /\ UNCHANGED cand
     \/ /\ a \in reach /\ a \in Affine[job[w]] /\ Full(a)
        /\ Go(w, full)
        /\ cand' = IF full = "pick" THEN [cand EXCEPT ![w] = @ \cup {a}] ELSE cand
        /\ UNCHANGED <<store, real, allowed>>
     \/ /\ a \notin reach \/ a \notin Affine[job[w]]
        /\ Go(w, failed)
        /\ UNCHANGED <<store, real, allowed, cand>>

Send(w) ==
  /\ \/ pc[w] = "send"       /\ SendRun(w, "track", "pick", "pick")
     \/ pc[w] = "sendDaemon" /\ SendRun(w, "trackDaemon", "daemon", "daemon")
     \/ pc[w] = "sendEvict"  /\ SendRun(w, "track", "victim", "victim")
  /\ UNCHANGED <<books, reach, fresh, job, todo, seen, need, tries, at, victim, report>>

\* trackPlacement, whether or not the agent is still registered.
Track(w) ==
  /\ pc[w] \in {"track", "trackDaemon"}
  /\ placed' = [placed EXCEPT ![at[w]][job[w]] = @ + 1]
  /\ IF pc[w] = "trackDaemon"
       THEN Go(w, "daemon") /\ UNCHANGED need
       ELSE /\ need' = [need EXCEPT ![w] = @ - 1]
            /\ Go(w, IF need[w] > 1 THEN "begin" ELSE "unlock")
  /\ UNCHANGED <<store, agents, dispatching, settled, tombstones, roundRobin, due, sites,
                 job, todo, seen, tries, at, cand, victim, report, allowed>>

\* The deferred unlock.
Unlock(w) ==
  /\ pc[w] = "unlock"
  /\ dispatching' = dispatching \ {job[w]}
  /\ Go(w, "next")
  /\ UNCHANGED <<store, agents, placed, settled, tombstones, roundRobin, due,
                 sites, work, allowed>>

\* findVictim: the least important job placed there, if less than ours.
Victims(w, a) == {v \in store : placed[a][v] > 0 /\ v > job[w]}

FindVictim(w) ==
  /\ pc[w] = "victim"
  /\ IF cand[w] = {}
       THEN Go(w, "unlock") /\ UNCHANGED <<at, cand, victim>>
       ELSE \E a \in cand[w] :
              /\ cand' = [cand EXCEPT ![w] = @ \ {a}]
              /\ IF Victims(w, a) = {}
                   THEN UNCHANGED <<pc, at, victim>>
                   ELSE /\ Go(w, "stop")
                        /\ at' = [at EXCEPT ![w] = a]
                        /\ victim' = [victim EXCEPT ![w] = Max(Victims(w, a))]
  /\ UNCHANGED <<store, books, sites, job, todo, seen, need, tries, report, allowed>>

\* /stop at the agent.
StopVictim(w) ==
  /\ pc[w] = "stop"
  /\ IF at[w] \in reach
       THEN real' = [real EXCEPT ![at[w]][victim[w]] = 0] /\ Go(w, "unbook")
       ELSE Go(w, "victim") /\ UNCHANGED real
  /\ UNCHANGED <<store, books, reach, fresh, work, allowed>>

\* The victim's placements are struck out.
Unbook(w) ==
  /\ pc[w] = "unbook"
  /\ placed' = [placed EXCEPT ![at[w]][victim[w]] = 0]
  /\ Go(w, "offerEvict")
  /\ UNCHANGED <<store, agents, dispatching, settled, tombstones, roundRobin, due,
                 sites, work, allowed>>

Dispatcher(w) ==
  \/ SnapJobs(w) \/ SnapAgents(w) \/ ResetRound(w) \/ NextJob(w) \/ CheckDispatching(w)
  \/ ClaimDaemon(w) \/ ListMissing(w) \/ NextMissing(w) \/ CountPlaced(w)
  \/ Lock(w) \/ Begin(w) \/ Pick(w) \/ PickNoMore(w) \/ Offer(w) \/ Send(w) \/ Track(w)
  \/ Unlock(w) \/ FindVictim(w) \/ StopVictim(w) \/ Unbook(w)
-----------------------------------------------------------------------------
(* DispatchJob: POST /v1/jobs of a name that has no definition.            *)

Submit(w, j) ==
  /\ pc[w] = "idle" /\ j \notin store
  /\ Happens("submit")
  /\ Go(w, "lift") /\ job' = [job EXCEPT ![w] = j]
  /\ UNCHANGED <<store, books, sites, todo, seen, slot, report>>

Lift(w) ==
  /\ pc[w] = "lift"
  /\ tombstones' = tombstones \ {job[w]}
  /\ Go(w, "store")
  /\ UNCHANGED <<store, agents, placed, dispatching, settled, roundRobin, due,
                 sites, work, allowed>>

\* Mutant: a new job is dispatched whether or not the leader has settled.
StoreUnsettled(w) ==
  /\ pc[w] = "store"
  /\ store' = store \cup {job[w]}
  /\ Go(w, IF Daemon(job[w]) THEN "snapOne" ELSE "lock")
  /\ need' = [need EXCEPT ![w] = Desired(job[w])]
  /\ UNCHANGED <<books, sites, job, todo, seen, tries, at, cand, victim, report, allowed>>

\* Stored first; dispatched now if the leader has settled.  Settling looks at
\* nothing a store changes, so the look at settled may be taken with the store.
Store(w) ==
  /\ pc[w] = "store"
  /\ store' = store \cup {job[w]}
  /\ Go(w, IF ~settled THEN "next" ELSE IF Daemon(job[w]) THEN "snapOne" ELSE "lock")
  /\ need' = [need EXCEPT ![w] = Desired(job[w])]
  /\ UNCHANGED <<books, sites, job, todo, seen, tries, at, cand, victim, report, allowed>>

\* A daemon goes the way of reconcileJob, with the agents of this moment.
SnapOne(w) ==
  /\ pc[w] = "snapOne"
  /\ seen' = [seen EXCEPT ![w] = agents]
  /\ Go(w, "check")
  /\ UNCHANGED <<store, books, sites, job, todo, slot, report, allowed>>

-----------------------------------------------------------------------------
(* DeleteJobByName.                                                        *)

Delete(w, j) ==
  /\ pc[w] = "idle" /\ j \in store
  /\ Happens("delete")
  /\ Go(w, "tomb") /\ job' = [job EXCEPT ![w] = j]
  /\ UNCHANGED <<store, books, sites, todo, seen, slot, report>>

\* Tombstones expire only after every dispatch that began before them.
Tombstone(w) ==
  /\ pc[w] = "tomb"
  /\ tombstones' = tombstones \cup {job[w]}
  /\ Go(w, "drop")
  /\ UNCHANGED <<store, agents, placed, dispatching, settled, roundRobin, due,
                 sites, work, allowed>>

Drop(w) ==
  /\ pc[w] = "drop"
  /\ store' = store \ {job[w]}
  /\ Go(w, "wipe")
  /\ UNCHANGED <<books, sites, work, allowed>>

\* The job's placements are struck out; the agents that had one will be told.
Wipe(w) ==
  /\ pc[w] = "wipe"
  /\ cand' = [cand EXCEPT ![w] = {a \in agents : placed[a][job[w]] > 0}]
  /\ placed' = [a \in Agent |-> [placed[a] EXCEPT ![job[w]] = 0]]
  /\ Go(w, "purge")
  /\ UNCHANGED <<store, agents, dispatching, settled, tombstones, roundRobin, due, sites,
                 job, todo, seen, need, tries, at, victim, report, allowed>>

\* /delete at an agent: its definition and all its tasks go.
Purge(w) ==
  /\ pc[w] = "purge"
  /\ IF cand[w] = {}
       THEN Go(w, "sweep") /\ UNCHANGED <<store, real, cand>>
       ELSE \E a \in cand[w] :
              /\ cand' = [cand EXCEPT ![w] = @ \ {a}]
              /\ real' = IF a \in reach THEN [real EXCEPT ![a][job[w]] = 0] ELSE real
              /\ store' = IF a = Home THEN store \ {job[w]} ELSE store
              /\ UNCHANGED pc
  /\ UNCHANGED <<books, reach, fresh, job, todo, seen, need, tries, at, victim, report, allowed>>

\* Up to three sweeps, as long as the tombstone stands ...
Sweep(w) ==
  /\ pc[w] = "sweep"
  /\ Go(w, IF need[w] < 3 /\ job[w] \in tombstones THEN "look" ELSE "clear")
  /\ UNCHANGED <<store, books, sites, work, allowed>>

\* ... and the job is back in the store.
Look(w) ==
  /\ pc[w] = "look"
  /\ IF job[w] \in store
       THEN /\ store' = store \ {job[w]}
            /\ cand' = [cand EXCEPT ![w] = agents]
            /\ need' = [need EXCEPT ![w] = @ + 1]
            /\ Go(w, "purge")
       ELSE Go(w, "clear") /\ UNCHANGED <<store, cand, need>>
  /\ UNCHANGED <<books, sites, job, todo, seen, tries, at, victim, report, allowed>>

\* The dispatching flag is cleared, whoever set it.
Clear(w) ==
  /\ pc[w] = "clear"
  /\ dispatching' = dispatching \ {job[w]}
  /\ due' = TRUE
  /\ Return(w)
  /\ UNCHANGED <<store, agents, placed, settled, tombstones, roundRobin, sites, allowed>>

-----------------------------------------------------------------------------
(* Registration, hand-back and departure of agents.                        *)

\* An agent the leader does not know, or one that restarted, counts its tasks
\* and sends its registration.
Register(w, a) ==
  /\ pc[w] = "idle"
  /\ a \in reach /\ (a \notin agents \/ a \in fresh)
  /\ \A v \in Worker : pc[v] = "register" => at[v] # a
  /\ Go(w, "register")
  /\ at' = [at EXCEPT ![w] = a] /\ report' = [report EXCEPT ![w] = real[a]]
  /\ UNCHANGED <<store, books, sites, job, todo, seen, need, tries, cand, victim, allowed>>

\* Mutant: an agent comes back with the books it left.
RegisterKeeping(w) ==
  /\ pc[w] = "register"
  /\ agents' = agents \cup {at[w]} /\ fresh' = fresh \ {at[w]}
  /\ IF settled THEN Go(w, "trim") /\ UNCHANGED work ELSE Return(w)
  /\ UNCHANGED <<store, placed, dispatching, settled, tombstones, roundRobin, due, real, reach, allowed>>

\* RegisterAgent: what the agent reports replaces what the books said of it.
Registered(w) ==
  /\ pc[w] = "register"
  /\ agents' = agents \cup {at[w]} /\ fresh' = fresh \ {at[w]}
  /\ placed' = [placed EXCEPT ![at[w]] = report[w]]
  /\ IF settled THEN Go(w, "trim") /\ UNCHANGED work ELSE Return(w)
  /\ UNCHANGED <<store, dispatching, settled, tombstones, roundRobin, due, real, reach, allowed>>

\* trimReturningAgentSurplus: the regular jobs the others have enough of.
Redundant(a) ==
  {j \in store : ~Daemon(j) /\ placed[a][j] > 0
                 /\ Total(placed, Agent, j) - placed[a][j] >= Desired(j)}

Trim(w) ==
  /\ pc[w] = "trim"
  /\ todo' = [todo EXCEPT ![w] = Redundant(at[w])]
  /\ Go(w, "trimDrop")
  /\ UNCHANGED <<store, books, sites, job, seen, slot, report, allowed>>

\* They are struck out ...
TrimDrop(w) ==
  /\ pc[w] = "trimDrop"
  /\ placed' = [placed EXCEPT ![at[w]] =
                  [j \in Job |-> IF j \in todo[w] THEN 0 ELSE placed[at[w]][j]]]
  /\ Go(w, "trimAgent")
  /\ UNCHANGED <<store, agents, dispatching, settled, tombstones, roundRobin, due, sites,
                 work, allowed>>

\* ... and, if the agent is still registered, ...
TrimAgent(w) ==
  /\ pc[w] = "trimAgent"
  /\ todo' = [todo EXCEPT ![w] = IF at[w] \in agents THEN @ ELSE {}]
  /\ Go(w, "trimStop")
  /\ UNCHANGED <<store, books, sites, job, seen, slot, report, allowed>>

\* ... stopped there, job by job; then all is reconciled.
TrimStop(w) ==
  /\ pc[w] = "trimStop"
  /\ IF todo[w] = {}
       THEN Go(w, "snapJobs") /\ ClearSlot(w) /\ report' = [report EXCEPT ![w] = Zero]
            /\ UNCHANGED <<real, todo>>
       ELSE \E j \in todo[w] :
              /\ todo' = [todo EXCEPT ![w] = @ \ {j}]
              /\ real' = IF at[w] \in reach THEN [real EXCEPT ![at[w]][j] = 0] ELSE real
              /\ UNCHANGED <<pc, slot, report>>
  /\ UNCHANGED <<store, books, reach, fresh, job, seen, allowed>>

\* An agent finds it cannot place a task, removes it and says so.
HandBack(w, a, j) ==
  /\ pc[w] = "idle" /\ a \in reach /\ real[a][j] > 0
  /\ Happens("handback")
  /\ real' = [real EXCEPT ![a][j] = @ - 1]
  /\ Go(w, "mark")
  /\ at' = [at EXCEPT ![w] = a] /\ job' = [job EXCEPT ![w] = j]
  /\ UNCHANGED <<store, books, reach, fresh, todo, seen, need, tries, cand, victim, report>>

\* Mutant: the count is lowered without a look at it.
MarkBlindly(w) ==
  /\ pc[w] = "mark"
  /\ placed' = [placed EXCEPT ![at[w]][job[w]] = @ - 1]
  /\ due' = TRUE
  /\ Return(w)
  /\ UNCHANGED <<store, agents, dispatching, settled, tombstones, roundRobin, sites, allowed>>

\* MarkUnplaced.
MarkUnplaced(w) ==
  /\ pc[w] = "mark"
  /\ placed' = IF placed[at[w]][job[w]] > 0
                 THEN [placed EXCEPT ![at[w]][job[w]] = @ - 1] ELSE placed
  /\ due' = TRUE
  /\ Return(w)
  /\ UNCHANGED <<store, agents, dispatching, settled, tombstones, roundRobin, sites, allowed>>

\* UnregisterAgent: DELETE /v1/agents/a; the agent is reconciled away.
Leave(w, a) ==
  /\ pc[w] = "idle" /\ a \in agents
  /\ Happens("leave")
  /\ agents' = agents \ {a}
  /\ placed' = [placed EXCEPT ![a] = Zero]
  /\ Go(w, "snapJobs")
  /\ UNCHANGED <<store, dispatching, settled, tombstones, roundRobin, due, sites, work>>

\* PatchJobPriority: PATCH of a priority, or the end of a create that asked for one.
\* All definitions are written back where they still are, and all is reconciled,
\* whether or not the leader has settled.
Patch ==
  /\ store # {} /\ Happens("patch")
  /\ due' = TRUE
  /\ UNCHANGED <<store, agents, placed, dispatching, settled, tombstones, roundRobin,
                 sites, pc, work>>

Requester(w) ==
  \/ Lift(w) \/ Store(w) \/ SnapOne(w)
  \/ Tombstone(w) \/ Drop(w) \/ Wipe(w) \/ Purge(w) \/ Sweep(w) \/ Look(w) \/ Clear(w)
  \/ Registered(w) \/ Trim(w) \/ TrimDrop(w) \/ TrimAgent(w) \/ TrimStop(w) \/ MarkUnplaced(w)

-----------------------------------------------------------------------------
(* Timers and the world outside.                                           *)

Settle ==
  /\ ~settled
  /\ settled' = TRUE /\ due' = TRUE
  /\ UNCHANGED <<store, agents, placed, dispatching, tombstones, roundRobin, sites, pc, work, allowed>>

\* Run: every third tick reconciles.
Tick ==
  /\ settled /\ ~due
  /\ due' = TRUE
  /\ UNCHANGED <<store, agents, placed, dispatching, settled, tombstones, roundRobin,
                 sites, pc, work, allowed>>

\* checkDeadAgents: an agent that was out of reach for agentTimeout is dropped.
CheckDeadAgent(a) ==
  /\ settled /\ a \in agents \ reach
  /\ agents' = agents \ {a} /\ placed' = [placed EXCEPT ![a] = Zero]
  /\ due' = TRUE
  /\ UNCHANGED <<store, dispatching, settled, tombstones, roundRobin, sites, pc, work, allowed>>

\* An agent's node restarts: its tasks are gone, the leader need not notice.
Restart(a) ==
  /\ a # Home /\ a \in reach /\ Happens("restart")
  /\ real' = [real EXCEPT ![a] = Zero] /\ fresh' = fresh \cup {a}
  /\ UNCHANGED <<store, books, reach, pc, work>>

\* The network between the leader and an agent fails, and heals.
Cut(a) ==
  /\ a # Home /\ a \in reach /\ Happens("cut")
  /\ reach' = reach \ {a}
  /\ UNCHANGED <<store, books, real, fresh, pc, work>>

Heal(a) ==
  /\ a \notin reach
  /\ reach' = reach \cup {a}
  /\ UNCHANGED <<store, books, real, fresh, pc, work, allowed>>

Request(w) ==
  \/ \E j \in Job : Submit(w, j) \/ Delete(w, j) \/ \E a \in Agent : HandBack(w, a, j)
  \/ \E a \in Agent : Leave(w, a)

Next ==
  \/ \E w \in Worker : Dispatcher(w) \/ Requester(w) \/ Request(w) \/ StartReconcile(w)
  \/ \E w \in Worker, a \in Agent : Register(w, a)
  \/ Settle \/ Tick \/ Patch
  \/ \E a \in Agent : CheckDeadAgent(a) \/ Restart(a) \/ Cut(a) \/ Heal(a)

Spec == Init /\ [][Next]_vars

\* Goroutines are scheduled and HTTP calls time out; timers fire; agents keep
\* registering until they succeed.  A registration or a reconciliation never
\* waits for one of our few workers for good: Worker is a bound of the model.
FairSpec ==
  /\ Spec
  /\ \A w \in Worker : WF_vars(Dispatcher(w) \/ Requester(w))
  /\ SF_vars(\E w \in Worker : StartReconcile(w))
  /\ \A a \in Agent : SF_vars(\E w \in Worker : Register(w, a))
  /\ WF_vars(Settle) /\ WF_vars(Tick)
  /\ \A a \in Agent : WF_vars(CheckDeadAgent(a))
-----------------------------------------------------------------------------
(* Properties.                                                             *)

Sending == {"send", "sendDaemon", "sendEvict"}

\* Every set dispatching flag has a goroutine that will clear it: no early
\* return, and no delete, strands a job where every reconciliation skips it.
FlagHasHolder ==
  \A j \in dispatching : \E w \in Worker : pc[w] \in Holding /\ job[w] = j

\* The flag keeps dispatchers of one job apart.
OneDispatcher ==
  \A v, w \in Worker : v # w /\ pc[v] \in Holding /\ pc[w] \in Holding => job[v] # job[w]

\* A daemon runs at most once on an agent: it is claimed before the books are
\* read, and the books never forget an instance.
DaemonOnce == \A a \in Agent, j \in Job : Daemon(j) => real[a][j] <= 1

\* The books match reality: the instances on a registered agent are those that
\* are counted and those the goroutines that placed them are about to count.
BooksMatch ==
  \A a \in agents, j \in Job :
    real[a][j] = placed[a][j]
      + Cardinality({w \in Worker : pc[w] \in {"track", "trackDaemon"}
                                    /\ at[w] = a /\ job[w] = j})

\* What makes a leader reconcile before it has settled: a PATCH of a priority or a
\* create with one, a delete, a hand-back, an agent that is unregistered.  (An update
\* does not ask either: it is in module Update, of a leader that has settled.)
Asked == \E e \in {"patch", "delete", "handback", "leave"} : allowed[e] < Bound[e]

\* As long as nobody asked for it in one of these ways, no job is on its way to an
\* agent before the leader has settled: not for a job that is submitted, an agent
\* that registers, surplus that is trimmed or time that passes ("EnableSettle
\* enables settle period (waits agentTimeout before first reconciliation)").
NothingSentUnasked == Asked \/ settled \/ \A w \in Worker : pc[w] \notin Sending

\* A stored job gets its count of instances on agents that can be reached,
\* whatever comes in between: a leader that has yet to settle, agents that have
\* yet to register, another dispatcher, an agent lost, an answer lost.
Runs(j) == IF Daemon(j)
             THEN \A a \in agents \cap reach \cap Affine[j] : real[a][j] > 0
             ELSE Total(real, reach, j) >= Desired(j)
StoredJobsRun == \A j \in Job : j \in store ~> Runs(j)

-----------------------------------------------------------------------------
(* Statements of the repository that the code does not keep.               *)

\* "Over-scheduling! Got %d tasks, expected at most": a regular job never has
\* more instances than its count.
NotOverScheduled == \A j \in Job : ~Daemon(j) => Total(real, Agent, j) <= Desired(j)

\* "During this period, jobs are stored but not dispatched": nothing is sent while
\* the leader settles, whoever asks for a reconciliation.
SettleHoldsBack == settled \/ \A w \in Worker : pc[w] \notin Sending

\* "A job that's in s.dispatching[name] is skipped by reconciliation", with
\* deletes around.
FlagExcludes == OneDispatcher

\* "we never drop below desired": what a returning agent is told to stop, the
\* other agents have enough of.
TrimKeepsDesired ==
  [][\A w \in Worker : pc[w] = "trimStop" =>
       \A j \in todo[w] \ todo'[w] : Total(real, Agent \ {at[w]}, j) >= Desired(j)]_vars
=============================================================================
