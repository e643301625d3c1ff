------------------------------ MODULE Election ------------------------------
(***************************************************************************)
(* Who leads (internal/agentloop, internal/discovery).  Every node runs    *)
(* one loop: it ticks at a fixed interval, and each tick either renews the *)
(* lease it leads by, or registers with or heartbeats to the leader it     *)
(* knows, or counts that it has none, until it tries to take over and      *)
(* finally stops its own tasks.  The lease is an object in a store that    *)
(* offers a read and a write conditional on what was read; between the two *)
(* other nodes go on.  Stores and links fail and heal, answers get lost,   *)
(* nodes stop, crash and come back.                                        *)
(*                                                                         *)
(* Time is counted in tick intervals: every node that is up ticks once in  *)
(* each, in any order, and a lease is good for TTL of them.  Clocks are    *)
(* taken to agree to within an interval.                                   *)
(***************************************************************************)
EXTENDS Integers, FiniteSets

CONSTANTS Node,
          NoNode,         \* "", nil: no leader known, no lease
          TTL,            \* timeouts.leader_lease, in tick intervals
          TakeOverAfter,  \* failed ticks before a take-over is tried
          IsolateAfter,   \* failed ticks before a node stops its tasks
          MaxFaults       \* bound: faults in one behaviour

ASSUME ElectionAssumption ==
  /\ NoNode \notin Node
  /\ TTL \in Nat \ {0}
  /\ TakeOverAfter \in Nat \ {0}
  /\ IsolateAfter \in Nat /\ IsolateAfter > TakeOverAfter
  /\ MaxFaults \in Nat

VARIABLES
  lease,       \* the object in the store: its owner and the intervals left
  current,     \* which ETags a node remembers are still the object's: the one
               \* it read in this attempt, the one of its last write
  pc,          \* where the node's loop stands
  serving,     \* Loop.stopLeader is set: the node runs a leader
  fails,       \* Loop.failCount
  registered,  \* Loop.registered
  leaderOf,    \* Loop.lastLeaderAddr
  members,     \* the agents registered with the node's leader
  ticked,      \* the nodes whose tick of this interval has begun
  hosts,       \* the nodes with tasks running on them
  offline,     \* the nodes that cannot reach the lease store
  cut,         \* the links that are down: {n, m}, or {n} for a node's own API
  faults,      \* bound: faults so far
  lapsed       \* history: nodes whose lease ran out since they last wrote it

storeVars == <<lease, current, lapsed>>
loopVars  == <<serving, fails, registered, leaderOf>>
netVars   == <<offline, cut, faults>>
vars == <<storeVars, pc, loopVars, members, ticked, hosts, netVars>>

PC == {"off", "idle", "renew", "alone", "takeover", "first", "boot", "release"}

TypeOK ==
  /\ lease \in [owner : Node \cup {NoNode}, left : 0 .. TTL]
  /\ current \in [Node -> SUBSET {"read", "written"}]
  /\ pc \in [Node -> PC]
  /\ serving \subseteq Node
  /\ fails \in [Node -> 0 .. IsolateAfter - 1]
  /\ registered \subseteq Node
  /\ leaderOf \in [Node -> Node \cup {NoNode}]
  /\ members \in [Node -> SUBSET Node]
  /\ ticked \subseteq Node
  /\ hosts \subseteq Node
  /\ offline \subseteq Node
  /\ cut \subseteq SUBSET Node
  /\ faults \in 0 .. MaxFaults
  /\ lapsed \subseteq Node

Init ==
  /\ lease = [owner |-> NoNode, left |-> 0]
  /\ current = [n \in Node |-> {}]
  /\ pc = [n \in Node |-> "off"]
  /\ serving = {}
  /\ fails = [n \in Node |-> 0]
  /\ registered = {}
  /\ leaderOf = [n \in Node |-> NoNode]
  /\ members = [n \in Node |-> {}]
  /\ ticked = {}
  /\ hosts = {}
  /\ offline = {}
  /\ cut = {}
  /\ faults = 0
  /\ lapsed = {}
-----------------------------------------------------------------------------
(* Helpers.                                                                *)

Goto(n, p) == pc' = [pc EXCEPT ![n] = p]

\* One more of the faults that the bound allows.
Fault == faults < MaxFaults /\ faults' = faults + 1
NoFault == UNCHANGED faults
netOK == UNCHANGED <<offline, cut, faults>>

Reaches(n, m) == {n, m} \notin cut

\* A call of n to the leader API of m is carried out.
Answers(n, m) == m \in serving /\ Reaches(n, m)

\* Discovery.GetLeader: a read of the store, "" when it fails or has run out.
GetLeader(n) ==
  IF n \notin offline /\ lease.left > 0 THEN lease.owner ELSE NoNode

ClaimableEarly(n) ==       \* mutant: expiry an interval off
  /\ n \notin offline
  /\ lease.owner \in {NoNode, n} \/ lease.left <= 1

\* The first half of tryClaim: no lease, its own, or one that ran out.
Claimable(n) ==
  /\ n \notin offline
  /\ lease.owner \in {NoNode, n} \/ lease.left = 0

Read(n) == current' = [current EXCEPT ![n] = @ \cup {"read"}]

UnchangedOrNot(n, what) == TRUE       \* mutant: an unconditional write

\* Write and Delete are conditional on the ETag of what was read (or, for the
\* release, written): nobody may have written in between.
Unchanged(n, what) == what \in current[n]

\* Discovery.refresh as the store carries it out; the node learns the new ETag
\* only from the answer.
Refresh(n, answered) ==
  /\ lease' = [owner |-> n, left |-> TTL]
  /\ current' = [m \in Node |-> IF m = n /\ answered THEN {"written"} ELSE {}]
  /\ lapsed' = lapsed \ {n}

\* The attempt ends without a write.
NoWrite(n) ==
  /\ current' = [current EXCEPT ![n] = @ \ {"read"}]
  /\ UNCHANGED <<lease, lapsed>>
-----------------------------------------------------------------------------
(* The tick of a node that leads.                                          *)

\* Loop.stepDown, without the release.
StepDown(n) ==
  /\ serving' = serving \ {n}
  /\ members' = [members EXCEPT ![n] = {}]
  /\ registered' = registered \ {n}
  /\ leaderOf' = [leaderOf EXCEPT ![n] = NoNode]

DisplacedStays(n) ==                   \* mutant: taken for an unreachable store
  UNCHANGED <<serving, members, registered, leaderOf, fails>>

\* The store reports another leader: step down at once, agents or not.
Displaced(n) == StepDown(n) /\ UNCHANGED fails

\* The heartbeat to its own API; forgotten there, it registers again.
SelfBeat(n) ==
  /\ members' = IF Reaches(n, n) THEN [members EXCEPT ![n] = @ \cup {n}]
                                 ELSE members
  /\ UNCHANGED <<serving, registered, leaderOf>>

Renewed(n) == SelfBeat(n) /\ fails' = [fails EXCEPT ![n] = 0]

BeginTick(n) ==
  /\ pc[n] = "idle" /\ n \notin ticked
  /\ ticked' = ticked \cup {n}
  /\ UNCHANGED hosts /\ netOK

\* RenewLease reads the lease.
RenewRead(n) ==
  /\ BeginTick(n)
  /\ n \in serving
  /\ UNCHANGED <<lease, lapsed>>
  /\ \/ /\ Claimable(n)
        /\ Read(n)
        /\ Goto(n, "renew")
        /\ UNCHANGED <<loopVars, members>>
     \/ /\ ~ Claimable(n) /\ n \notin offline
        /\ Displaced(n)
        /\ UNCHANGED <<current, pc>>
     \/ /\ n \in offline
        /\ Goto(n, "alone")
        /\ UNCHANGED <<current, loopVars, members>>

\* RenewLease writes it.  A write whose condition fails counts as displaced.
RenewWrite(n) ==
  /\ pc[n] = "renew"
  /\ UNCHANGED <<ticked, hosts, offline, cut>>
  /\ \/ /\ n \notin offline /\ Unchanged(n, "read")
        /\ \/ Refresh(n, TRUE) /\ Renewed(n) /\ Goto(n, "idle") /\ NoFault
           \/ /\ Refresh(n, FALSE) /\ Goto(n, "alone") /\ Fault
              /\ UNCHANGED <<loopVars, members>>
     \/ /\ n \notin offline /\ ~ Unchanged(n, "read")
        /\ NoWrite(n) /\ Displaced(n) /\ Goto(n, "idle") /\ NoFault
     \/ /\ n \in offline
        /\ NoWrite(n) /\ Goto(n, "alone") /\ NoFault
        /\ UNCHANGED <<loopVars, members>>

\* The store did not answer: lead on while there are agents.
Unreachable(n) ==
  /\ pc[n] = "alone"
  /\ IF members[n] # {} THEN SelfBeat(n) ELSE StepDown(n)
  /\ Goto(n, "idle")
  /\ UNCHANGED <<storeVars, fails, ticked, hosts>> /\ netOK
-----------------------------------------------------------------------------
(* The tick of a node that does not lead.                                  *)

Target(n) == IF leaderOf[n] # NoNode THEN leaderOf[n] ELSE GetLeader(n)

\* lastLeaderAddr = "": the next tick asks the store again.
ForgetLeader(n) == leaderOf' = [leaderOf EXCEPT ![n] = NoNode]

StillFailedAnew(n, f) ==               \* mutant: a failed take-over starts anew
  /\ fails' = [fails EXCEPT ![n] = IF f >= TakeOverAfter THEN 0 ELSE f]
  /\ hosts' = IF f >= IsolateAfter THEN hosts \ {n} ELSE hosts

StillFailedOn(n, f) ==                 \* mutant: the count is not taken back
  /\ fails' = [fails EXCEPT ![n] = f]
  /\ hosts' = IF f >= IsolateAfter THEN hosts \ {n} ELSE hosts

\* The end of leaderFailed with count f, when the take-over did not succeed:
\* past the second threshold the node stops its tasks.
StillFailed(n, f) ==
  /\ fails' = [fails EXCEPT ![n] = IF f >= IsolateAfter THEN TakeOverAfter ELSE f]
  /\ hosts' = IF f >= IsolateAfter THEN hosts \ {n} ELSE hosts

\* leaderFailed, up to the read of the take-over it may lead to.
LeaderFailed(n) ==
  LET f == fails[n] + 1 IN
  /\ UNCHANGED <<lease, lapsed, serving, registered>>
  /\ \/ /\ f < TakeOverAfter
        /\ StillFailed(n, f)
        /\ UNCHANGED <<leaderOf, current, pc>>
     \/ /\ f >= TakeOverAfter
        /\ ForgetLeader(n)
        /\ \/ /\ Claimable(n)
              /\ Read(n)
              /\ Goto(n, "takeover")
              /\ UNCHANGED <<fails, hosts>>
           \/ /\ ~ Claimable(n)
              /\ StillFailed(n, f)
              /\ UNCHANGED <<current, pc>>

\* The leader answers: the node is registered and knows where.
Attend(n, m) ==
  /\ registered' = registered \cup {n}
  /\ leaderOf' = [leaderOf EXCEPT ![n] = m]
  /\ fails' = [fails EXCEPT ![n] = 0]
  /\ UNCHANGED <<storeVars, pc, serving, hosts>>

Enlist(n, m) == members' = [members EXCEPT ![m] = @ \cup {n}]

\* DoRegister: it succeeds, fails, or is carried out without an answer.
Register(n, m) ==
  \/ /\ Answers(n, m)
     /\ Enlist(n, m)
     /\ \/ Attend(n, m) /\ NoFault
        \/ LeaderFailed(n) /\ Fault
  \/ /\ ~ Answers(n, m)
     /\ LeaderFailed(n)
     /\ NoFault /\ UNCHANGED members

\* DoHeartbeat: likewise, and a leader may say that it does not know the node.
Heartbeat(n, m) ==
  /\ UNCHANGED members
  /\ \/ /\ Answers(n, m) /\ n \in members[m]
        /\ \/ Attend(n, m) /\ NoFault
           \/ LeaderFailed(n) /\ Fault
     \/ /\ Answers(n, m) /\ n \notin members[m]
        /\ registered' = registered \ {n}
        /\ ForgetLeader(n)
        /\ NoFault /\ UNCHANGED <<storeVars, pc, serving, fails, hosts>>
     \/ /\ ~ Answers(n, m)
        /\ LeaderFailed(n) /\ NoFault

FollowTick(n) ==
  /\ pc[n] = "idle" /\ n \notin ticked /\ n \notin serving
  /\ ticked' = ticked \cup {n}
  /\ UNCHANGED <<offline, cut>>
  /\ \/ /\ Target(n) = NoNode
        /\ LeaderFailed(n)
        /\ NoFault /\ UNCHANGED members
     \/ \E m \in {Target(n)} \ {NoNode} :
          IF n \in registered THEN Heartbeat(n, m) ELSE Register(n, m)

\* The take-over's write; the leader boots only if the store confirms it.
TakeOverWrite(n) ==
  /\ pc[n] = "takeover"
  /\ UNCHANGED <<serving, registered, leaderOf, members, ticked, offline, cut>>
  /\ \/ /\ n \notin offline /\ Unchanged(n, "read")
        /\ \/ /\ Refresh(n, TRUE) /\ Goto(n, "boot")
              /\ NoFault /\ UNCHANGED <<fails, hosts>>
           \/ /\ Refresh(n, FALSE) /\ Goto(n, "idle")
              /\ Fault /\ StillFailed(n, fails[n] + 1)
     \/ /\ n \in offline \/ ~ Unchanged(n, "read")
        /\ NoWrite(n) /\ Goto(n, "idle")
        /\ StillFailed(n, fails[n] + 1) /\ NoFault
-----------------------------------------------------------------------------
(* Start, BecomeLeader and the end of the loop.                            *)

\* The process starts; BecomeLeaderNow makes one attempt before the first tick.
Start(n) ==
  /\ pc[n] = "off"
  /\ \/ Claimable(n) /\ Read(n) /\ Goto(n, "first")
     \/ ~ Claimable(n) /\ Goto(n, "idle") /\ UNCHANGED current
  /\ ticked' = ticked \ {n}
  /\ UNCHANGED <<lease, lapsed, loopVars, members, hosts>> /\ netOK

FirstWrite(n) ==
  /\ pc[n] = "first"
  /\ UNCHANGED <<loopVars, members, ticked, hosts, offline, cut>>
  /\ \/ /\ n \notin offline /\ Unchanged(n, "read")
        /\ \/ Refresh(n, TRUE) /\ Goto(n, "boot") /\ NoFault
           \/ Refresh(n, FALSE) /\ Goto(n, "idle") /\ Fault
     \/ /\ n \in offline \/ ~ Unchanged(n, "read")
        /\ NoWrite(n) /\ Goto(n, "idle") /\ NoFault

\* DoBecomeLeader returns: the API serves, the node is its own first agent.
BecomeLeader(n) ==
  /\ pc[n] = "boot"
  /\ serving' = serving \cup {n}
  /\ Enlist(n, n)
  /\ fails' = [fails EXCEPT ![n] = 0]
  /\ Goto(n, "idle")
  /\ UNCHANGED <<storeVars, registered, leaderOf, ticked, hosts>> /\ netOK

\* The loop's context ends: stepDown(true) stops the leader, and a node that
\* led goes on to release its lease.
Done(n) ==
  /\ pc[n] = "idle"
  /\ Fault
  /\ StepDown(n)
  /\ Goto(n, IF n \in serving THEN "release" ELSE "off")
  /\ fails' = [fails EXCEPT ![n] = 0]
  /\ hosts' = hosts \ {n}
  /\ UNCHANGED <<storeVars, ticked, offline, cut>>

\* ReleaseLeadership, best effort: it need not reach the store, and the process
\* does not wait for it.
Release(n) ==
  /\ pc[n] = "release"
  /\ Goto(n, "off")
  /\ \/ /\ n \notin offline /\ Unchanged(n, "written")
        /\ lease' = [owner |-> NoNode, left |-> 0]
        /\ current' = [m \in Node |-> {}]
     \/ /\ current' = [current EXCEPT ![n] = {}]
        /\ UNCHANGED lease
  /\ UNCHANGED <<lapsed, loopVars, members, ticked, hosts>> /\ netOK

\* The machine goes down, at whatever point.
Crash(n) ==
  /\ pc[n] # "off"
  /\ Fault
  /\ StepDown(n)
  /\ fails' = [fails EXCEPT ![n] = 0]
  /\ Goto(n, "off")
  /\ current' = [current EXCEPT ![n] = {}]
  /\ hosts' = hosts \ {n}
  /\ UNCHANGED <<lease, lapsed, ticked, offline, cut>>
-----------------------------------------------------------------------------
(* What a leader does with its agents, time, and the network.              *)

\* A leader that reaches an agent gives it something to run.
Dispatch(m, n) ==
  /\ m \in serving /\ n \in members[m] /\ Reaches(m, n) /\ pc[n] # "off"
  /\ n \notin hosts
  /\ hosts' = hosts \cup {n}
  /\ UNCHANGED <<storeVars, pc, loopVars, members, ticked, netVars>>

\* checkDeadAgents: an agent whose heartbeats do not arrive is struck off.
CheckDeadAgent(m, n) ==
  /\ m \in serving /\ n \in members[m]
  /\ \/ ~ Reaches(n, m) \/ pc[n] = "off"
     \/ n # m /\ (n \in serving \/ leaderOf[n] # m)
  /\ members' = [members EXCEPT ![m] = @ \ {n}]
  /\ UNCHANGED <<storeVars, pc, loopVars, ticked, hosts, netVars>>

\* A tick interval passes.  Claims are bounded by backendTimeout and are over; a
\* leader that is still booting may be slow.
Interval ==
  /\ \A n \in Node : \/ pc[n] \in {"off", "boot"}
                     \/ pc[n] = "idle" /\ n \in ticked
  /\ IF \E n \in Node : pc[n] = "boot" THEN Fault ELSE NoFault
  /\ ticked' = {}
  /\ lease' = [lease EXCEPT !.left = IF @ = 0 THEN 0 ELSE @ - 1]
  /\ lapsed' = IF lease.left = 1 THEN lapsed \cup {lease.owner} ELSE lapsed
  /\ UNCHANGED <<current, pc, loopVars, members, hosts, offline, cut>>

notNet == <<storeVars, pc, loopVars, members, ticked, hosts>>

StoreCut(n) ==
  /\ n \notin offline /\ Fault
  /\ offline' = offline \cup {n}
  /\ UNCHANGED <<cut, notNet>>

StoreBack(n) ==
  /\ n \in offline
  /\ offline' = offline \ {n}
  /\ UNCHANGED <<cut, faults, notNet>>

LinkCut(n, m) ==
  /\ Reaches(n, m) /\ Fault
  /\ cut' = cut \cup {{n, m}}
  /\ UNCHANGED <<offline, notNet>>

LinkBack(n, m) ==
  /\ ~ Reaches(n, m)
  /\ cut' = cut \ {{n, m}}
  /\ UNCHANGED <<offline, faults, notNet>>

Loop(n) ==
  \/ RenewRead(n) \/ RenewWrite(n) \/ Unreachable(n)
  \/ FollowTick(n) \/ TakeOverWrite(n)
  \/ FirstWrite(n) \/ BecomeLeader(n) \/ Release(n)

Next ==
  \/ \E n \in Node : Loop(n)
  \/ \E n \in Node : Start(n)
  \/ \E n \in Node : Done(n)
  \/ \E n \in Node : Crash(n)
  \/ \E n \in Node : StoreCut(n)
  \/ \E n \in Node : StoreBack(n)
  \/ \E m, n \in Node : Dispatch(m, n)
  \/ \E m, n \in Node : CheckDeadAgent(m, n)
  \/ \E n, m \in Node : LinkCut(n, m)
  \/ \E n, m \in Node : LinkBack(n, m)
  \/ Interval

Spec == Init /\ [][Next]_vars

\* A loop goes on (every call it makes has a timeout) and time passes.  Nothing
\* says that the network heals or that a node comes back.
Fairness ==
  /\ \A n \in Node : WF_vars(Loop(n))
  /\ WF_vars(Interval)

FairSpec == Spec /\ Fairness
-----------------------------------------------------------------------------
(* Properties.                                                             *)

\* Two nodes lead at once only when the lease of one of them ran out under it:
\* a race for a free or expired lease has one winner, and a leader that stops
\* has stopped before its lease is free (tryClaim, refresh, stepDown).
SplitOnlyByLapse ==
  \A n, m \in serving : n # m => lapsed \cap {n, m} # {}

\* Read, conditional write, expiry and release together are the lease that the
\* abstract specification describes.
L == INSTANCE Lease WITH
  right <- [n \in Node |-> IF lease.owner = n /\ lease.left > 0 THEN "valid"
                           ELSE IF n \in lapsed /\ (n \in serving \/ pc[n] = "boot")
                           THEN "lapsed" ELSE "none"]
LeaseImplemented == L!Spec

Healthy ==
  offline = {} /\ cut = {} /\ \A n \in Node : pc[n] # "off"

\* One leader, by the lease, which every other node follows.
Agreed == \E n \in Node :
  /\ serving = {n} /\ lease.owner = n
  /\ \A m \in Node \ {n} : leaderOf[m] = n /\ m \in registered \cap members[n]

\* Once the outages are over and all nodes are up, the cluster comes to have one
\* leader that everyone is registered with, whatever happened before: two leaders,
\* a lease nobody serves under, a node that forgot or is forgotten (Tick).
Converges == <>[]Healthy => <>[]Agreed

Isolated(n) ==
  /\ pc[n] # "off" /\ n \in offline
  /\ \A m \in Node \ {n} : ~ Reaches(n, m)

\* An agent that stays cut off from the store and from every other node stops
\* its tasks, unless it leads (leaderFailed: "likely network isolated").
IsolatedStops == \A n \in Node :
  <>[](Isolated(n) /\ n \notin serving) => <>[](n \notin hosts)

\* The same of every node, leaders included, as the documentation has it
\* (docs/architecture.md, "Agent isolated").
CutOffStops == \A n \in Node : <>[]Isolated(n) => <>[](n \notin hosts)
=============================================================================
