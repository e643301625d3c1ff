--------------------------- MODULE ElectionProofs ---------------------------
(***************************************************************************)
(* Proofs about Election, for every set of nodes, every lease time, every  *)
(* pair of thresholds and any number of faults: its types, what two nodes  *)
(* that serve at once say of the lease, and that the claims, the clock and *)
(* the steps down of the nodes together keep the promise of module Lease.  *)
(***************************************************************************)
EXTENDS Election, TLAPS

-----------------------------------------------------------------------------
(* The inductive invariant.                                                *)

\* A lease that nobody has does not run.
FreeHasNoTime == lease.owner = NoNode => lease.left = 0

\* Who has read the lease and may still write it found nobody else's valid claim,
\* and nobody has made one since: a write in between changes the ETag.
ReadIsClaimable == \A n \in Node :
  "read" \in current[n] => lease.owner \in {NoNode, n} \/ lease.left = 0

\* Who knows the ETag of its last write still owns the object.
WrittenIsOwn == \A n \in Node : "written" \in current[n] => lease.owner = n

\* Who serves, or is about to, has the lease or lost it to the clock.
ServesByRight == \A n \in Node :
  n \in serving \/ pc[n] = "boot" =>
    n \in lapsed \/ (lease.owner = n /\ lease.left > 0)

\* Who gives its lease back has stopped serving.
ReleasesStopped == \A n \in Node : pc[n] = "release" => n \notin serving

LeaseInv ==
  /\ FreeHasNoTime /\ ReadIsClaimable /\ WrittenIsOwn
  /\ ServesByRight /\ ReleasesStopped

-----------------------------------------------------------------------------
(* What a step does to the lease and to those who serve by it.             *)

Quiet ==
  /\ UNCHANGED <<lease, lapsed, serving>>
  /\ \A m \in Node :
       /\ pc'[m] = "boot" <=> pc[m] = "boot"
       /\ pc'[m] = "release" => pc[m] = "release"
       /\ "read" \in current'[m] => "read" \in current[m] \/ Claimable(m)
       /\ "written" \in current'[m] => "written" \in current[m]

Writes(n) ==
  /\ "read" \in current[n] /\ "read" \notin current'[n]
  /\ lease' = [owner |-> n, left |-> TTL]
  /\ lapsed' = lapsed \ {n}
  /\ UNCHANGED serving
  /\ pc'[n] # "release" /\ pc[n] # "boot"
  /\ \A m \in Node \ {n} : pc'[m] = pc[m] /\ current'[m] = {}

Leads(n) ==
  /\ pc[n] = "boot" /\ pc'[n] = "idle"
  /\ serving' = serving \cup {n}
  /\ UNCHANGED <<lease, lapsed, current>>
  /\ \A m \in Node \ {n} : pc'[m] = pc[m]

Stops(n) ==
  /\ serving' = serving \ {n}
  /\ UNCHANGED <<lease, lapsed>>
  /\ pc'[n] # "boot"
  /\ \A m \in Node \ {n} : pc'[m] = pc[m]
  /\ \A m \in Node : current'[m] \subseteq current[m]

GivesBack(n) ==
  /\ pc[n] = "release" /\ pc'[n] = "off"
  /\ "written" \in current[n]
  /\ lease' = [owner |-> NoNode, left |-> 0]
  /\ UNCHANGED <<lapsed, serving>>
  /\ \A m \in Node \ {n} : pc'[m] = pc[m]
  /\ \A m \in Node : current'[m] = {}

Ages ==
  /\ UNCHANGED <<current, pc, serving>>
  /\ lease' = [lease EXCEPT !.left = IF @ = 0 THEN 0 ELSE @ - 1]
  /\ lapsed' = IF lease.left = 1 THEN lapsed \cup {lease.owner} ELSE lapsed

StepKind ==
  \/ Quiet \/ Ages
  \/ \E n \in Node : Writes(n) \/ Leads(n) \/ Stops(n) \/ GivesBack(n)

\* The variables that have a say.
CoreOK ==
  /\ current \in [Node -> SUBSET {"read", "written"}]
  /\ pc \in [Node -> PC]

LEMMA FollowIsQuiet ==
  ASSUME CoreOK, NEW n \in Node, pc[n] = "idle", LeaderFailed(n)
  PROVE  Quiet
BY DEF CoreOK, LeaderFailed, Quiet, Read, Goto

LEMMA FollowTickKind ==
  ASSUME CoreOK, NEW n \in Node, FollowTick(n)
  PROVE  Quiet
<1>0. pc[n] = "idle" BY DEF FollowTick
<1>1. ASSUME NEW m, Register(n, m) PROVE Quiet
  BY <1>0, <1>1, FollowIsQuiet DEF Register, Attend, Quiet, storeVars, CoreOK
<1>2. ASSUME NEW m, Heartbeat(n, m) PROVE Quiet
  BY <1>0, <1>2, FollowIsQuiet DEF Heartbeat, Attend, Quiet, storeVars, CoreOK
<1> QED BY <1>0, <1>1, <1>2, FollowIsQuiet DEF FollowTick

LEMMA LoopKind ==
  ASSUME CoreOK, NEW n \in Node, Loop(n)
  PROVE  StepKind
<1> USE DEF CoreOK
<1>1. CASE RenewRead(n)
  <2>1. CASE Displaced(n) /\ UNCHANGED <<lease, lapsed, current, pc>>
    <3>1. Stops(n) BY <1>1, <2>1 DEF RenewRead, BeginTick, Displaced, StepDown, Stops
    <3> QED BY <3>1 DEF StepKind
  <2>2. CASE ~ (Displaced(n) /\ UNCHANGED <<lease, lapsed, current, pc>>)
    <3>1. Quiet
      BY <1>1, <2>2 DEF RenewRead, BeginTick, Quiet, Read, Goto, loopVars
    <3> QED BY <3>1 DEF StepKind
  <2> QED BY <2>1, <2>2
<1>2. CASE RenewWrite(n)
  <2>1. CASE Unchanged(n, "read") /\ (Refresh(n, TRUE) \/ Refresh(n, FALSE)) /\ UNCHANGED serving
             /\ (Goto(n, "idle") \/ Goto(n, "alone"))
    <3>1. Writes(n) BY <1>2, <2>1 DEF RenewWrite, Unchanged, Refresh, Goto, Writes
    <3> QED BY <3>1 DEF StepKind
  <2>2. CASE NoWrite(n) /\ Displaced(n) /\ Goto(n, "idle")
    <3>1. Stops(n) BY <2>2 DEF NoWrite, Displaced, StepDown, Goto, Stops
    <3> QED BY <3>1 DEF StepKind
  <2>3. CASE NoWrite(n) /\ Goto(n, "alone") /\ UNCHANGED loopVars
    <3>1. Quiet BY <1>2, <2>3 DEF RenewWrite, NoWrite, Goto, Quiet, loopVars
    <3> QED BY <3>1 DEF StepKind
  <2> QED BY <1>2, <2>1, <2>2, <2>3 DEF RenewWrite, Renewed, SelfBeat, loopVars
<1>3. CASE Unreachable(n)
  <2>1. CASE SelfBeat(n)
    <3>1. Quiet BY <1>3, <2>1 DEF Unreachable, SelfBeat, Goto, Quiet, storeVars
    <3> QED BY <3>1 DEF StepKind
  <2>2. CASE StepDown(n)
    <3>1. Stops(n) BY <1>3, <2>2 DEF Unreachable, StepDown, Goto, Stops, storeVars
    <3> QED BY <3>1 DEF StepKind
  <2> QED BY <1>3, <2>1, <2>2 DEF Unreachable
<1>4. CASE FollowTick(n)
  BY <1>4, FollowTickKind DEF StepKind
<1>5. CASE TakeOverWrite(n)
  <2>1. CASE Unchanged(n, "read") /\ (Refresh(n, TRUE) \/ Refresh(n, FALSE)) /\ UNCHANGED serving
             /\ (Goto(n, "idle") \/ Goto(n, "boot"))
    <3>1. Writes(n) BY <1>5, <2>1 DEF TakeOverWrite, Unchanged, Refresh, Goto, Writes
    <3> QED BY <3>1 DEF StepKind
  <2>2. CASE NoWrite(n) /\ Goto(n, "idle")
    <3>1. Quiet BY <1>5, <2>2 DEF TakeOverWrite, NoWrite, Goto, Quiet
    <3> QED BY <3>1 DEF StepKind
  <2> QED BY <1>5, <2>1, <2>2 DEF TakeOverWrite
<1>6. CASE FirstWrite(n)
  <2>1. CASE Unchanged(n, "read") /\ (Refresh(n, TRUE) \/ Refresh(n, FALSE)) /\ UNCHANGED serving
             /\ (Goto(n, "idle") \/ Goto(n, "boot"))
    <3>1. Writes(n) BY <1>6, <2>1 DEF FirstWrite, Unchanged, Refresh, Goto, Writes
    <3> QED BY <3>1 DEF StepKind
  <2>2. CASE NoWrite(n) /\ Goto(n, "idle")
    <3>1. Quiet BY <1>6, <2>2 DEF FirstWrite, NoWrite, Goto, Quiet, loopVars
    <3> QED BY <3>1 DEF StepKind
  <2> QED BY <1>6, <2>1, <2>2 DEF FirstWrite, loopVars
<1>7. CASE BecomeLeader(n)
  <2>1. Leads(n) BY <1>7 DEF BecomeLeader, Goto, Leads, storeVars
  <2> QED BY <2>1 DEF StepKind
<1>8. CASE Release(n)
  <2>1. CASE Unchanged(n, "written") /\ lease' = [owner |-> NoNode, left |-> 0]
             /\ current' = [m \in Node |-> {}]
    <3>1. GivesBack(n) BY <1>8, <2>1 DEF Release, Unchanged, Goto, GivesBack, loopVars
    <3> QED BY <3>1 DEF StepKind
  <2>2. CASE current' = [current EXCEPT ![n] = {}] /\ UNCHANGED lease
    <3>1. Quiet BY <1>8, <2>2 DEF Release, Goto, Quiet, loopVars
    <3> QED BY <3>1 DEF StepKind
  <2> QED BY <1>8, <2>1, <2>2 DEF Release
<1> QED BY <1>1, <1>2, <1>3, <1>4, <1>5, <1>6, <1>7, <1>8 DEF Loop

\* Every step of the system is one of these.
LEMMA NextKind ==
  ASSUME CoreOK, Next
  PROVE  StepKind
<1> USE DEF CoreOK
<1>1. ASSUME NEW n \in Node, Start(n) PROVE StepKind
  <2>1. Quiet BY <1>1 DEF Start, Read, Goto, Quiet, loopVars
  <2> QED BY <2>1 DEF StepKind
<1>2. ASSUME NEW n \in Node, Done(n) PROVE StepKind
  <2>1. Stops(n) BY <1>2 DEF Done, StepDown, Goto, Stops, storeVars
  <2> QED BY <2>1 DEF StepKind
<1>3. ASSUME NEW n \in Node, Crash(n) PROVE StepKind
  <2>1. Stops(n) BY <1>3 DEF Crash, StepDown, Goto, Stops
  <2> QED BY <2>1 DEF StepKind
<1>4. CASE Interval
  <2>1. Ages BY <1>4 DEF Interval, Ages, loopVars
  <2> QED BY <2>1 DEF StepKind
<1>5. CASE UNCHANGED <<storeVars, pc, loopVars>>
  <2>1. Quiet BY <1>5 DEF Quiet, storeVars, loopVars
  <2> QED BY <2>1 DEF StepKind
<1>6. ASSUME NEW n \in Node, NEW m \in Node,
             StoreCut(n) \/ StoreBack(n) \/ Dispatch(m, n) \/ CheckDeadAgent(m, n)
             \/ LinkCut(n, m) \/ LinkBack(n, m)
      PROVE  UNCHANGED <<storeVars, pc, loopVars>>
  BY <1>6 DEF StoreCut, StoreBack, Dispatch, CheckDeadAgent, LinkCut, LinkBack, notNet
<1> QED BY <1>1, <1>2, <1>3, <1>4, <1>5, <1>6, LoopKind DEF Next

-----------------------------------------------------------------------------
(* Every kind of step keeps the invariant.                                 *)

LeaseOK == CoreOK /\ lease \in [owner : Node \cup {NoNode}, left : 0 .. TTL]

LEMMA QuietKeeps ==
  ASSUME LeaseOK, LeaseInv, Quiet
  PROVE  LeaseInv'
BY DEF LeaseOK, LeaseInv, FreeHasNoTime, ReadIsClaimable, WrittenIsOwn, ServesByRight,
       ReleasesStopped, Quiet, Claimable

LEMMA WriteKeeps ==
  ASSUME LeaseOK, LeaseInv, NEW n \in Node, Writes(n)
  PROVE  LeaseInv'
<1> USE ElectionAssumption DEF LeaseInv
<1>1. lease'.owner = n /\ lease'.left = TTL BY DEF Writes
<1>2. FreeHasNoTime' BY <1>1 DEF FreeHasNoTime
<1>3. ReadIsClaimable' BY <1>1 DEF ReadIsClaimable, Writes
<1>4. WrittenIsOwn' BY <1>1 DEF WrittenIsOwn, Writes
<1>5. ServesByRight'
  <2> SUFFICES ASSUME NEW m \in Node, m \in serving' \/ pc'[m] = "boot", m # n
               PROVE  m \in lapsed'
    BY <1>1 DEF ServesByRight
  <2>1. m \in lapsed \/ (lease.owner = m /\ lease.left > 0) BY DEF Writes, ServesByRight
  <2>2. lease.owner \in {NoNode, n} \/ lease.left = 0 BY DEF Writes, ReadIsClaimable
  <2> QED BY <2>1, <2>2 DEF Writes
<1>6. ReleasesStopped' BY DEF ReleasesStopped, Writes
<1> QED BY <1>2, <1>3, <1>4, <1>5, <1>6

LEMMA LeadKeeps ==
  ASSUME LeaseOK, LeaseInv, NEW n \in Node, Leads(n)
  PROVE  LeaseInv'
BY DEF LeaseOK, CoreOK, LeaseInv, FreeHasNoTime, ReadIsClaimable, WrittenIsOwn, ServesByRight,
       ReleasesStopped, Leads

LEMMA StopKeeps ==
  ASSUME LeaseOK, LeaseInv, NEW n \in Node, Stops(n)
  PROVE  LeaseInv'
BY DEF LeaseOK, CoreOK, LeaseInv, FreeHasNoTime, ReadIsClaimable, WrittenIsOwn, ServesByRight,
       ReleasesStopped, Stops

LEMMA GiveBackKeeps ==
  ASSUME LeaseOK, LeaseInv, NEW n \in Node, GivesBack(n)
  PROVE  LeaseInv'
<1> USE DEF LeaseInv
<1>1. lease'.owner = NoNode /\ lease'.left = 0 /\ lease.owner = n
  BY DEF GivesBack, WrittenIsOwn
<1>2. FreeHasNoTime' /\ ReadIsClaimable' BY <1>1 DEF FreeHasNoTime, ReadIsClaimable
<1>3. WrittenIsOwn' BY DEF WrittenIsOwn, GivesBack
<1>4. ServesByRight' BY <1>1 DEF ServesByRight, ReleasesStopped, GivesBack
<1>5. ReleasesStopped' BY DEF ReleasesStopped, GivesBack
<1> QED BY <1>2, <1>3, <1>4, <1>5

LEMMA AgeKeeps ==
  ASSUME LeaseOK, LeaseInv, Ages
  PROVE  LeaseInv'
<1> USE ElectionAssumption DEF LeaseInv, LeaseOK, Ages
<1>1. lease'.owner = lease.owner /\ lease.left \in Nat
      /\ lease'.left = IF lease.left = 0 THEN 0 ELSE lease.left - 1
  OBVIOUS
<1>2. FreeHasNoTime' /\ ReadIsClaimable' /\ WrittenIsOwn' /\ ReleasesStopped'
  BY <1>1 DEF FreeHasNoTime, ReadIsClaimable, WrittenIsOwn, ReleasesStopped
<1>3. ServesByRight' BY <1>1 DEF ServesByRight
<1> QED BY <1>2, <1>3

LEMMA LeaseStep ==
  ASSUME TypeOK, LeaseInv, [Next]_vars
  PROVE  LeaseInv'
<1>1. LeaseOK BY DEF TypeOK, LeaseOK, CoreOK
<1>2. CASE Next
  <2>1. StepKind BY <1>1, <1>2, NextKind DEF LeaseOK
  <2> QED BY <1>1, <2>1, QuietKeeps, WriteKeeps, LeadKeeps, StopKeeps, GiveBackKeeps, AgeKeeps
          DEF StepKind
<1>3. CASE UNCHANGED vars
  BY <1>3 DEF vars, storeVars, loopVars, LeaseInv, FreeHasNoTime, ReadIsClaimable, WrittenIsOwn,
              ServesByRight, ReleasesStopped
<1> QED BY <1>2, <1>3

-----------------------------------------------------------------------------
(* Types.                                                                  *)

LEMMA FailedType ==
  ASSUME TypeOK, NEW n \in Node, LeaderFailed(n)
  PROVE  /\ current' \in [Node -> SUBSET {"read", "written"}]
         /\ pc' \in [Node -> PC]
         /\ fails' \in [Node -> 0 .. IsolateAfter - 1]
         /\ leaderOf' \in [Node -> Node \cup {NoNode}]
         /\ hosts' \subseteq Node
<1> USE ElectionAssumption DEF TypeOK
<1>1. fails[n] + 1 \in 1 .. IsolateAfter OBVIOUS
<1>2. fails' \in [Node -> 0 .. IsolateAfter - 1]
  BY <1>1 DEF LeaderFailed, StillFailed
<1> QED BY <1>2 DEF LeaderFailed, StillFailed, ForgetLeader, Read, Goto, PC

LEMMA StillFailedType ==
  ASSUME TypeOK, NEW n \in Node, StillFailed(n, fails[n] + 1)
  PROVE  fails' \in [Node -> 0 .. IsolateAfter - 1] /\ hosts' \subseteq Node
<1> USE ElectionAssumption DEF TypeOK
<1>1. fails[n] + 1 \in 1 .. IsolateAfter OBVIOUS
<1> QED BY <1>1 DEF StillFailed

LEMMA FaultType ==
  ASSUME TypeOK, Fault \/ NoFault
  PROVE  faults' \in 0 .. MaxFaults
BY ElectionAssumption DEF TypeOK, Fault, NoFault

LEMMA RefreshType ==
  ASSUME TypeOK, NEW n \in Node, NEW b \in BOOLEAN, Refresh(n, b)
  PROVE  /\ lease' \in [owner : Node \cup {NoNode}, left : 0 .. TTL]
         /\ current' \in [Node -> SUBSET {"read", "written"}]
         /\ lapsed' \subseteq Node
BY ElectionAssumption DEF TypeOK, Refresh

LEMMA FollowType ==
  ASSUME TypeOK, NEW n \in Node, FollowTick(n)
  PROVE  TypeOK'
<1> USE FaultType, FailedType
<1>0. Target(n) \in Node \cup {NoNode} BY DEF Target, GetLeader, TypeOK
<1>1. CASE LeaderFailed(n) /\ NoFault /\ UNCHANGED members
  BY <1>1 DEF TypeOK, FollowTick, LeaderFailed
<1>2. ASSUME NEW m \in Node, Register(n, m) PROVE TypeOK'
  <2>1. CASE LeaderFailed(n)
    BY <1>2, <2>1 DEF TypeOK, FollowTick, LeaderFailed, Register, Enlist
  <2>2. CASE Attend(n, m)
    BY <1>2, <2>2, ElectionAssumption
       DEF TypeOK, FollowTick, Attend, Register, Enlist, storeVars
  <2> QED BY <1>2, <2>1, <2>2 DEF Register
<1>3. ASSUME NEW m \in Node, Heartbeat(n, m) PROVE TypeOK'
  <2>1. CASE LeaderFailed(n)
    BY <1>3, <2>1 DEF TypeOK, FollowTick, LeaderFailed, Heartbeat
  <2>2. CASE Attend(n, m)
    BY <1>3, <2>2, ElectionAssumption DEF TypeOK, FollowTick, Attend, Heartbeat, storeVars
  <2>3. CASE ForgetLeader(n) /\ UNCHANGED <<storeVars, pc, serving, fails, hosts>>
             /\ registered' = registered \ {n}
    BY <1>3, <2>3 DEF TypeOK, FollowTick, ForgetLeader, Heartbeat, storeVars
  <2> QED BY <1>3, <2>1, <2>2, <2>3 DEF Heartbeat
<1> QED BY <1>0, <1>1, <1>2, <1>3 DEF FollowTick

LEMMA LoopType ==
  ASSUME TypeOK, NEW n \in Node, Loop(n)
  PROVE  TypeOK'
<1> USE FaultType, RefreshType, StillFailedType DEF loopVars, storeVars, netOK
<1>1. CASE RenewRead(n)
  BY <1>1 DEF TypeOK, RenewRead, BeginTick, Read, Goto, Displaced, StepDown, PC
<1>2. CASE RenewWrite(n)
  <2>1. CASE Refresh(n, TRUE) /\ Renewed(n)
    <3>1. fails' \in [Node -> 0 .. IsolateAfter - 1]
      BY <2>1, ElectionAssumption DEF TypeOK, Renewed
    <3>2. members' \in [Node -> SUBSET Node] BY <2>1 DEF TypeOK, Renewed, SelfBeat
    <3> QED BY <1>2, <2>1, <3>1, <3>2 DEF TypeOK, RenewWrite, Renewed, SelfBeat, Goto, PC
  <2>0. /\ UNCHANGED <<ticked, hosts, offline, cut>>
        /\ pc' \in [Node -> PC]
        /\ faults' \in 0 .. MaxFaults
    <3>1. Goto(n, "idle") \/ Goto(n, "alone") BY <1>2 DEF RenewWrite
    <3>2. Fault \/ NoFault BY <1>2 DEF RenewWrite
    <3>3. faults' \in 0 .. MaxFaults BY <3>2
    <3>4. pc' \in [Node -> PC] BY <3>1 DEF TypeOK, Goto, PC
    <3> QED BY <1>2, <3>3, <3>4 DEF RenewWrite
  <2>2. CASE Refresh(n, FALSE) /\ UNCHANGED <<loopVars, members>>
    <3>1. /\ lease' \in [owner : Node \cup {NoNode}, left : 0 .. TTL]
          /\ current' \in [Node -> SUBSET {"read", "written"}]
          /\ lapsed' \subseteq Node
      BY <2>2
    <3> QED BY <2>0, <2>2, <3>1 DEF TypeOK
  <2>3. CASE NoWrite(n) /\ Displaced(n)
    BY <2>0, <2>3 DEF TypeOK, NoWrite, Displaced, StepDown
  <2>4. CASE NoWrite(n) /\ UNCHANGED <<loopVars, members>>
    BY <2>0, <2>4 DEF TypeOK, NoWrite
  <2> QED BY <1>2, <2>1, <2>2, <2>3, <2>4 DEF RenewWrite
<1>3. CASE Unreachable(n)
  BY <1>3 DEF TypeOK, Unreachable, SelfBeat, StepDown, Goto, PC
<1>4. CASE FollowTick(n)
  BY <1>4, FollowType
<1>5. CASE TakeOverWrite(n)
  <2>1. CASE Refresh(n, TRUE) /\ UNCHANGED <<fails, hosts>>
    BY <1>5, <2>1 DEF TypeOK, TakeOverWrite, Goto, PC
  <2>2. CASE Refresh(n, FALSE) /\ StillFailed(n, fails[n] + 1)
    BY <1>5, <2>2 DEF TypeOK, TakeOverWrite, Goto, PC
  <2>3. CASE NoWrite(n) /\ StillFailed(n, fails[n] + 1)
    BY <1>5, <2>3, ZenonT(30) DEF TypeOK, TakeOverWrite, NoWrite, Goto, PC
  <2> QED BY <1>5, <2>1, <2>2, <2>3 DEF TakeOverWrite
<1>6. CASE FirstWrite(n)
  <2>1. CASE Refresh(n, TRUE) \/ Refresh(n, FALSE)
    BY <1>6, <2>1 DEF TypeOK, FirstWrite, Goto, PC
  <2>2. CASE NoWrite(n)
    BY <1>6, <2>2 DEF TypeOK, FirstWrite, NoWrite, Goto, PC
  <2> QED BY <1>6, <2>1, <2>2 DEF FirstWrite
<1>7. CASE BecomeLeader(n)
  BY <1>7, ElectionAssumption DEF TypeOK, BecomeLeader, Enlist, Goto, PC
<1>8. CASE Release(n)
  BY <1>8, ElectionAssumption DEF TypeOK, Release, Goto, PC
<1> QED BY <1>1, <1>2, <1>3, <1>4, <1>5, <1>6, <1>7, <1>8 DEF Loop

LEMMA TypeStep ==
  ASSUME TypeOK, LeaseInv, [Next]_vars
  PROVE  TypeOK'
<1> USE FaultType DEF loopVars, storeVars, netVars, netOK, notNet
<1>1. ASSUME NEW n \in Node, Start(n) PROVE TypeOK'
  BY <1>1 DEF TypeOK, Start, Read, Goto, PC
<1>2. ASSUME NEW n \in Node, Done(n) PROVE TypeOK'
  BY <1>2, ElectionAssumption DEF TypeOK, Done, StepDown, Goto, PC
<1>3. ASSUME NEW n \in Node, Crash(n) PROVE TypeOK'
  BY <1>3, ElectionAssumption DEF TypeOK, Crash, StepDown, Goto, PC
<1>4. CASE Interval
  <2>1. lease' \in [owner : Node \cup {NoNode}, left : 0 .. TTL]
    BY <1>4, ElectionAssumption DEF TypeOK, Interval
  <2>2. lapsed' \subseteq Node BY <1>4 DEF TypeOK, Interval, LeaseInv, FreeHasNoTime
  <2> QED BY <1>4, <2>1, <2>2 DEF TypeOK, Interval
<1>5. ASSUME NEW n \in Node, NEW m \in Node, LinkCut(n, m) \/ LinkBack(n, m) PROVE TypeOK'
  BY <1>5 DEF TypeOK, LinkCut, LinkBack
<1>6. ASSUME NEW n \in Node, NEW m \in Node, Dispatch(m, n) \/ CheckDeadAgent(m, n)
      PROVE  TypeOK'
  BY <1>6 DEF TypeOK, Dispatch, CheckDeadAgent
<1>7. ASSUME NEW n \in Node, StoreCut(n) \/ StoreBack(n) PROVE TypeOK'
  BY <1>7 DEF TypeOK, StoreCut, StoreBack
<1>8. CASE UNCHANGED vars
  BY <1>8 DEF TypeOK, vars
<1> QED BY <1>1, <1>2, <1>3, <1>4, <1>5, <1>6, <1>7, <1>8, LoopType DEF Next

LEMMA InitHolds ==
  ASSUME Init
  PROVE  TypeOK /\ LeaseInv
BY ElectionAssumption DEF Init, TypeOK, PC, LeaseInv, FreeHasNoTime, ReadIsClaimable,
   WrittenIsOwn, ServesByRight, ReleasesStopped

LEMMA Invariant == Spec => [](TypeOK /\ LeaseInv)
<1>1. TypeOK /\ LeaseInv /\ [Next]_vars => (TypeOK /\ LeaseInv)'
  BY LeaseStep, TypeStep
<1> QED BY <1>1, InitHolds, PTL DEF Spec

-----------------------------------------------------------------------------
(* Theorems.                                                               *)

\* The state of the loops, of the store and of the network stays within its types.
THEOREM TypeCorrect == Spec => []TypeOK
BY Invariant, PTL

\* Two nodes serve at once only when the lease of one of them ran out under it,
\* however claims, take-overs, releases, crashes and outages fall.
THEOREM SplitNeedsLapse == Spec => []SplitOnlyByLapse
<1>1. TypeOK /\ LeaseInv => SplitOnlyByLapse
  BY DEF LeaseInv, ServesByRight, SplitOnlyByLapse, TypeOK
<1> QED BY <1>1, Invariant, PTL
-----------------------------------------------------------------------------
(* The loops implement the lease of module Lease.                          *)

\* What the claim of n is worth (the substitution for right).
Worth(n) == IF lease.owner = n /\ lease.left > 0 THEN "valid"
            ELSE IF n \in lapsed /\ (n \in serving \/ pc[n] = "boot")
            THEN "lapsed" ELSE "none"

LEMMA QuietRefines ==
  ASSUME Quiet
  PROVE  UNCHANGED L!vars
BY DEF Quiet, L!vars

LEMMA WriteRefines ==
  ASSUME LeaseOK, LeaseInv, NEW n \in Node, Writes(n)
  PROVE  L!Claim(n)
<1> USE ElectionAssumption
<1>1. lease.owner \in {NoNode, n} \/ lease.left = 0
  BY DEF Writes, LeaseInv, ReadIsClaimable
<1>2. Worth(n)' = "valid" BY DEF Worth, Writes
<1>3. ASSUME NEW m \in Node \ {n} PROVE Worth(m) # "valid" /\ Worth(m)' = Worth(m)
  BY <1>1 DEF Worth, Writes
<1>4. UNCHANGED serving BY DEF Writes
<1> QED BY <1>2, <1>3, <1>4 DEF L!Claim, L!Becomes, Worth

LEMMA LeadRefines ==
  ASSUME LeaseOK, LeaseInv, NEW n \in Node, Leads(n)
  PROVE  L!Lead(n)
<1>1. Worth(n) # "none" BY DEF Worth, Leads, LeaseInv, ServesByRight
<1>2. ASSUME NEW m \in Node PROVE Worth(m)' = Worth(m) BY DEF Worth, Leads
<1>3. serving' = serving \cup {n} BY DEF Leads
<1> QED BY <1>1, <1>2, <1>3 DEF L!Lead, Worth

LEMMA StopRefines ==
  ASSUME NEW n \in Node, Stops(n)
  PROVE  L!StopLeading(n)
<1>1. ASSUME NEW m \in Node \ {n} PROVE Worth(m)' = Worth(m) BY DEF Worth, Stops
<1>2. Worth(n)' = IF Worth(n) = "valid" THEN "valid" ELSE "none" BY DEF Worth, Stops
<1>3. serving' = serving \ {n} BY DEF Stops
<1> QED BY <1>1, <1>2, <1>3 DEF L!StopLeading, L!Becomes, Worth

LEMMA GiveBackRefines ==
  ASSUME LeaseOK, LeaseInv, NEW n \in Node, GivesBack(n)
  PROVE  L!GiveBack(n) \/ UNCHANGED L!vars
<1>1. lease.owner = n /\ n \notin serving
  BY DEF GivesBack, LeaseInv, WrittenIsOwn, ReleasesStopped
<1>2. Worth(n)' = "none" BY <1>1, ElectionAssumption DEF Worth, GivesBack
<1>3. ASSUME NEW m \in Node \ {n} PROVE Worth(m)' = Worth(m)
  BY <1>1, ElectionAssumption DEF Worth, GivesBack
<1>4. UNCHANGED serving BY DEF GivesBack
<1>5. CASE lease.left > 0
  <2>1. Worth(n) = "valid" BY <1>1, <1>5 DEF Worth
  <2> QED BY <1>1, <1>2, <1>3, <1>4, <2>1 DEF L!GiveBack, L!Becomes, Worth
<1>6. CASE ~ (lease.left > 0)
  <2>1. Worth(n) = "none" BY <1>1, <1>6 DEF Worth, GivesBack
  <2> QED BY <1>2, <1>3, <1>4, <2>1 DEF L!vars, Worth
<1> QED BY <1>5, <1>6

LEMMA AgeRefines ==
  ASSUME LeaseOK, LeaseInv, Ages
  PROVE  (\E n \in Node : L!RunOut(n)) \/ UNCHANGED L!vars
<1> USE ElectionAssumption DEF LeaseOK, CoreOK
<1>0. UNCHANGED serving BY DEF Ages
<1>1. CASE lease.left = 1
  <2>1. lease.owner \in Node BY <1>1 DEF LeaseInv, FreeHasNoTime
  <2>0. PICK o \in Node : lease.owner = o BY <2>1
  <2>2. Worth(o) = "valid" BY <1>1, <2>0 DEF Worth
  <2>3. Worth(o)' = IF o \in serving \/ pc[o] = "boot" THEN "lapsed" ELSE "none"
    BY <1>1, <2>0 DEF Worth, Ages
  <2>4. ASSUME NEW m \in Node \ {o} PROVE Worth(m)' = Worth(m)
    <3>1. lapsed' = lapsed \cup {o} /\ UNCHANGED <<pc, serving>> BY <1>1, <2>0 DEF Ages
    <3>2. lease'.owner = o BY <2>0 DEF Ages
    <3> QED BY <2>0, <3>1, <3>2 DEF Worth
  <2>5. L!RunOut(o)
    BY <1>0, <2>1, <2>2, <2>3, <2>4, ZenonT(30) DEF L!RunOut, L!Becomes, Worth
  <2> QED BY <2>5
<1>2. CASE lease.left # 1
  <2>1. ASSUME NEW m \in Node PROVE Worth(m)' = Worth(m)
    BY <1>2 DEF Worth, Ages
  <2> QED BY <1>0, <2>1 DEF L!vars, Worth
<1> QED BY <1>1, <1>2

LEMMA NextRefines ==
  ASSUME TypeOK, LeaseInv, [Next]_vars
  PROVE  [L!Next]_L!vars
<1>1. LeaseOK BY DEF TypeOK, LeaseOK, CoreOK
<1>2. CASE Next
  <2>1. StepKind BY <1>1, <1>2, NextKind DEF LeaseOK
  <2> QED BY <1>1, <2>1, QuietRefines, WriteRefines, LeadRefines, StopRefines,
             GiveBackRefines, AgeRefines DEF StepKind, L!Next
<1>3. CASE UNCHANGED vars
  BY <1>3 DEF vars, storeVars, loopVars, L!vars
<1> QED BY <1>2, <1>3

\* Reading the lease, writing it under the ETag that was read, its expiry, the
\* release and the steps down are, for any nodes, times and faults, the lease that
\* module Lease describes: one valid right at a time.
THEOREM LeaseIsImplemented == Spec => LeaseImplemented
<1>1. Init => L!Init BY DEF Init, L!Init
<1>2. TypeOK /\ LeaseInv /\ [Next]_vars => [L!Next]_L!vars BY NextRefines
<1> QED BY <1>1, <1>2, Invariant, PTL DEF Spec, LeaseImplemented, L!Spec

=============================================================================
