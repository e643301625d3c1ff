---------------------------- MODULE UpdateProofs ----------------------------
(***************************************************************************)
(* Proofs about Update, for any agents, counts, policies and faults: the   *)
(* dispatching flag is never left behind, and every variable keeps its     *)
(* type.  Of updates that nothing disturbs: an old instance is given up    *)
(* only for a new one that was accepted, the books match the agents when   *)
(* an update is over, and a status that says the new version is deployed   *)
(* is true.                                                                *)
(***************************************************************************)
EXTENDS Update, FiniteSetTheorems, WellFoundedInduction, TLAPS

\* Where UpdateJob, and where a reconciliation, has the flag to give back.
UpdateHas == upd.pc \notin {"idle", "lock", "resubmit", "relock", "finish", "over"}
RecHas == rec.pc \in {"pass", "track", "unlock"}

\* The two goroutines are records with a place.
Placed == "pc" \in DOMAIN upd /\ "pc" \in DOMAIN rec

\* A step of the update leaves the reconciliation alone, and keeps the flag as
\* long as it keeps its place among those that have it; and the other way about.
UpdateKeeps == /\ Placed' /\ rec' = rec
               /\ flag' => UpdateHas' \/ (flag /\ ~UpdateHas)
RecKeeps == /\ Placed' /\ upd' = upd
            /\ flag' => RecHas' \/ (flag /\ ~RecHas)
Rests == upd' = upd /\ rec' = rec /\ (flag' => flag)
-----------------------------------------------------------------------------
LEMMA UpdatingKeeps ==
  ASSUME Placed, UpdateJob \/ Updating
  PROVE  UpdateKeeps
<1> USE DEF Placed, UpdateKeeps, UpdateHas, others, job, Goto, PassTo, Return, ToUpd
<1>1. CASE UpdateJob
  BY <1>1 DEF UpdateJob
<1>2. CASE LockJob
  BY <1>2 DEF LockJob
<1>3. CASE AskAgents \/ FetchTasks \/ StoreNew
  BY <1>3 DEF AskAgents, FetchTasks, StoreNew
<1>4. CASE RollNext \/ BlueGreenNext
  BY <1>4 DEF RollNext, BlueGreenNext, NextOld, Pass
<1>5. CASE SendNew
  BY <1>5 DEF SendNew, Offer
<1>6. CASE TrackNew
  <2>1. upd.pc = "track" /\ rec' = rec /\ flag' = flag
    BY <1>6 DEF TrackNew
  <2>2. \/ upd' = [upd EXCEPT !.pc = "stop", !.untried = {}, !.full = FALSE, !.at = NoAgent, !.ok = TRUE]
        \/ upd' = [upd EXCEPT !.pc = "next", !.untried = {}, !.full = FALSE, !.at = NoAgent, !.ok = TRUE]
        \/ upd' = [upd EXCEPT !.pc = "unlock", !.untried = {}, !.full = FALSE, !.at = NoAgent, !.ok = TRUE]
        \/ upd' = [Pass(upd) EXCEPT !.sent = @ + 1, !.at = NoAgent]
    BY <1>6 DEF TrackNew
  <2> QED
    BY <2>1, <2>2 DEF Pass
<1>7. CASE NoRoom
  <2>1. rec' = rec /\ flag' = flag
    BY <1>7 DEF NoRoom
  <2>2. PassTo("inplace", TRUE) \/ PassTo("unlock", FALSE)
    BY <1>7, Zenon DEF NoRoom
  <2>3. CASE PassTo("inplace", TRUE)
    BY <2>1, <2>3
  <2>4. CASE PassTo("unlock", FALSE)
    BY <2>1, <2>4
  <2> QED
    BY <2>2, <2>3, <2>4
<1>8. CASE InPlace
  <2>1. upd.pc = "inplace" /\ rec' = rec /\ flag' = flag
    BY <1>8 DEF InPlace
  <2>2. upd' = NextFrom(upd) \/ PassTo("unlock", FALSE)
    BY <1>8 DEF InPlace
  <2> QED
    BY <2>1, <2>2 DEF NextFrom
<1>9. CASE StopOld \/ Unbook
  BY <1>9 DEF StopOld, Unbook, NextFrom
<1>10. CASE UnlockJob \/ Finish
  <2>1. CASE UnlockJob
    <3>1. rec' = rec /\ ~flag'
      BY <2>1, Zenon DEF UnlockJob
    <3>2. Placed'
      BY <2>1 DEF UnlockJob
    <3> QED
      BY <3>1, <3>2
  <2>2. CASE Finish
    BY <2>2 DEF Finish
  <2> QED
    BY <1>10, <2>1, <2>2
<1>11. CASE WipePlaced
  BY <1>11 DEF WipePlaced
<1>14. CASE HaltTasks
  <2>1. upd.pc = "halt" /\ rec' = rec /\ flag' = flag
    BY <1>14 DEF HaltTasks
  <2>2. upd' = [upd EXCEPT !.pc = "release"] \/ \E a \in upd.asked : upd' = [upd EXCEPT !.asked = @ \ {a}]
    BY <1>14 DEF HaltTasks
  <2> QED
    BY <2>1, <2>2
<1>12. CASE ReleaseFlag \/ Resubmit
  <2>1. CASE ReleaseFlag
    <3>1. rec' = rec /\ ~flag'
      BY <2>1, Zenon DEF ReleaseFlag
    <3>2. Placed'
      BY <2>1 DEF ReleaseFlag
    <3> QED
      BY <3>1, <3>2
  <2>2. CASE Resubmit
    BY <2>2 DEF Resubmit
  <2> QED
    BY <1>12, <2>1, <2>2
<1>13. CASE Relock
  <2>1. rec' = rec /\ upd.pc = "relock"
    BY <1>13 DEF Relock
  <2>2. CASE flag
    <3>1. upd' = [upd EXCEPT !.pc = "finish"]
      BY <1>13, <2>2 DEF Relock
    <3> QED
      BY <2>1, <2>2, <3>1
  <2>3. CASE ~flag
    <3>1. upd' = [Pass(upd) EXCEPT !.sent = 1]
      BY <1>13, <2>3 DEF Relock
    <3> QED
      BY <2>1, <3>1 DEF Pass
  <2> QED
    BY <2>2, <2>3
<1> QED
  BY <1>1, <1>2, <1>3, <1>4, <1>5, <1>6, <1>7, <1>8, <1>9, <1>10, <1>11, <1>12, <1>13, <1>14 DEF Updating

LEMMA ReconcilingKeeps ==
  ASSUME Placed, ReconcileJobs \/ Reconciling
  PROVE  RecKeeps
<1> USE DEF Placed, RecKeeps, RecHas, notRec, job, RecGoto, IdleRec
<1>1. CASE ReconcileJobs
  BY <1>1 DEF ReconcileJobs
<1>2. CASE NormalizePriorities \/ CheckFlag
  BY <1>2 DEF NormalizePriorities, CheckFlag
<1>3. CASE CountPlaced
  BY <1>3 DEF CountPlaced
<1>4. CASE LockInstances
  BY <1>4 DEF LockInstances, Pass
<1>5. CASE SendMissing
  BY <1>5 DEF SendMissing, Offer
<1>6. CASE TrackMissing
  BY <1>6 DEF TrackMissing, Pass
<1>7. CASE NoneTakesIt \/ UnlockInstances
  BY <1>7 DEF NoneTakesIt, PassOver, UnlockInstances
<1> QED
  BY <1>1, <1>2, <1>3, <1>4, <1>5, <1>6, <1>7 DEF Reconciling

LEMMA OthersRest ==
  ASSUME \/ PatchRead \/ PatchWrite \/ DeleteJob \/ Deleting
         \/ \E t \in tasks : Start(t) \/ StartFails(t) \/ Removed(t)
         \/ \E a \in Agent : Die(a) \/ CheckDeadAgent(a) \/ NeighbourMoves(a)
  PROVE  Rests
<1> USE DEF Rests, job, notDel, notEnv
<1>1. CASE PatchRead \/ PatchWrite
  BY <1>1 DEF PatchRead, PatchWrite
<1>2. CASE DeleteJob \/ Deleting
  BY <1>2 DEF DeleteJob, Deleting, DropJob, WipeAndPurge, Sweep, ClearFlag
<1>3. ASSUME NEW t \in tasks, Start(t) \/ StartFails(t) \/ Removed(t) PROVE Rests
  BY <1>3 DEF Start, StartFails, Removed
<1>4. ASSUME NEW a \in Agent, Die(a) \/ CheckDeadAgent(a) \/ NeighbourMoves(a) PROVE Rests
  BY <1>4 DEF Die, CheckDeadAgent, NeighbourMoves
<1> QED
  BY <1>1, <1>2, <1>3, <1>4
LEMMA UpdateLeaves == ASSUME UpdateJob \/ Updating PROVE UNCHANGED others
BY DEF Updating, UpdateJob, LockJob, AskAgents, FetchTasks, StoreNew, RollNext, BlueGreenNext,
  SendNew, TrackNew, NoRoom, InPlace, StopOld, Unbook, UnlockJob, Finish, WipePlaced, HaltTasks,
  ReleaseFlag, Resubmit, Relock

LEMMA ReconcileLeaves == ASSUME ReconcileJobs \/ Reconciling PROVE UNCHANGED notRec
BY DEF Reconciling, ReconcileJobs, NormalizePriorities, CheckFlag, CountPlaced, LockInstances,
  SendMissing, TrackMissing, NoneTakesIt, UnlockInstances

-----------------------------------------------------------------------------
(* Types.                                                                  *)

UpdPC == {"idle", "lock", "ask", "fetch", "store", "next", "pass", "track", "inplace", "stop",
          "unbook", "unlock", "finish", "wipe", "halt", "release", "resubmit", "relock", "over"}
UpdRec == [pc : UpdPC, policy : Policies, asked : SUBSET Agent, olds : SUBSET Task,
           cur : Task \cup {NoTask}, sent : Nat, untried : SUBSET Agent,
           full : BOOLEAN, at : Agent \cup {NoAgent}, ok : BOOLEAN]
RecRec == [pc : {"idle", "renumber", "check", "count", "lock", "pass", "track", "unlock"},
           copy : Definitions, left : Nat, untried : SUBSET Agent, full : BOOLEAN,
           at : Agent \cup {NoAgent}]

\* An agent is only asked to replace what it has, and a reconciliation has a
\* definition to dispatch.
TypeInv == /\ TypeOK
           /\ upd.pc = "inplace" => upd.cur.at \in Agent
           /\ rec.pc \notin {"idle", "unlock"} => rec.copy # Gone

LEMMA RecordTypes == TypeOK => upd \in UpdRec /\ rec \in RecRec
BY DEF TypeOK, UpdRec, UpdPC, RecRec

\* What a type-correct step has to show.
Typed == /\ upd' \in UpdRec /\ rec' \in RecRec
         /\ tasks' \subseteq Task /\ placed' \in [Agent -> Nat]
         /\ store' \in Definitions /\ tombstone' \in BOOLEAN /\ flag' \in BOOLEAN
         /\ upd'.pc = "inplace" => upd'.cur.at \in Agent

LEMMA TypedKeeps ==
  ASSUME TypeOK, Typed, UNCHANGED env, UNCHANGED <<patch, del>>, faults' \in 0 .. MaxFaults,
         starting' \subseteq 1 .. MaxTasks,
         rec'.pc \notin {"idle", "unlock"} => rec'.copy # Gone
  PROVE  TypeInv'
BY DEF TypeOK, TypeInv, Typed, UpdRec, UpdPC, RecRec, env

LEMMA FaultTyped == ASSUME TypeOK, Fault \/ NoFault PROVE faults' \in 0 .. MaxFaults
BY UpdateAssumption DEF TypeOK, Fault, NoFault

LessNat == {p \in Nat \X Nat : p[1] < p[2]}

LEMMA LeastIsMember ==
  ASSUME NEW S \in SUBSET Nat, S # {}
  PROVE  Min(S) \in S /\ \A x \in S : Min(S) <= x
<1>1. IsWellFoundedOn(LessNat, Nat)
  BY NatLessThanWellFounded DEF OpToRel, LessNat
<1>2. PICK s \in S : \A m \in S : ~ (<<m, s>> \in LessNat)
  BY <1>1, WFMin
<1>3. ASSUME NEW m \in S PROVE s <= m
  <2>1. m \in Nat /\ s \in Nat /\ (<<m, s>> \in LessNat <=> m < s)
    BY DEF LessNat
  <2> QED
    BY <1>2, <2>1
<1>4. Min(S) = CHOOSE x \in S : \A y \in S : x <= y
  BY DEF Min
<1> QED
  BY <1>3, <1>4

\* A new task is none of those there are, or are remembered.
LEMMA NewTaskTyped ==
  ASSUME FreshIDs # {}, NEW a \in Agent, NEW v \in {1, 2}, NEW s \in {"accepted", "replacing"}
  PROVE  /\ NewTask(a, v, s) \in Task
         /\ NewTask(a, v, s).at = a /\ NewTask(a, v, s).ver = v
         /\ NewTask(a, v, s).state = s /\ s # "stopping"
         /\ \A t \in tasks \cup upd.olds \cup {upd.cur} : t.id # NewTask(a, v, s).id
<1>1. FreshIDs \in SUBSET Nat
  BY UpdateAssumption DEF FreshIDs
<1>2. Min(FreshIDs) \in FreshIDs
  BY <1>1, LeastIsMember
<1>3. Min(FreshIDs) \in 1 .. MaxTasks /\ \A t \in tasks \cup upd.olds \cup {upd.cur} : t.id # Min(FreshIDs)
  BY <1>2 DEF FreshIDs
<1> QED
  BY <1>3 DEF NewTask, Task

LEMMA AcceptTyped ==
  ASSUME TypeOK, NEW a \in Agent, NEW v \in {1, 2}, Accept(a, v)
  PROVE  tasks' \subseteq Task
BY NewTaskTyped DEF Accept, TypeOK

\* An offer of a pass: what the goroutine g is afterwards.
LEMMA OfferTyped ==
  ASSUME TypeOK, NEW g, NEW h, NEW v \in {1, 2}, Offer(g, h, v), g.untried \subseteq Agent
  PROVE  /\ tasks' \subseteq Task /\ faults' \in 0 .. MaxFaults
         /\ \E a \in Agent, S \in SUBSET Agent :
              /\ \/ h = [g EXCEPT !.untried = S]
                 \/ h = [g EXCEPT !.untried = S, !.full = TRUE]
                 \/ h = [g EXCEPT !.untried = S, !.pc = "track", !.at = a]
<1>1. PICK a \in g.untried \cap agents :
        LET on == [g EXCEPT !.untried = @ \ {a}] IN
        \/ h = on /\ NoFault /\ UNCHANGED tasks
        \/ Refuse(a) /\ h = [on EXCEPT !.full = TRUE] /\ NoFault
        \/ /\ Accept(a, v)
           /\ \/ h = [on EXCEPT !.pc = "track", !.at = a] /\ NoFault
              \/ h = on /\ Fault
  BY DEF Offer
<1>2. a \in Agent
  BY DEF TypeOK
<1> DEFINE S == g.untried \ {a}
<1>3. \/ h = [g EXCEPT !.untried = S]
      \/ h = [g EXCEPT !.untried = S, !.full = TRUE]
      \/ h = [g EXCEPT !.untried = S, !.pc = "track", !.at = a]
  BY <1>1
<1>4. tasks' \subseteq Task
  <2>1. CASE UNCHANGED tasks
    BY <2>1 DEF TypeOK
  <2>2. CASE Accept(a, v)
    BY <1>2, <2>2, AcceptTyped
  <2> QED
    BY <1>1, <2>1, <2>2 DEF Refuse
<1>5. Fault \/ NoFault
  BY <1>1
<1> QED
  BY <1>2, <1>3, <1>4, <1>5, FaultTyped

LEMMA ReplaceTyped ==
  ASSUME TypeOK, NEW a \in Agent, Replace(a)
  PROVE  tasks' \subseteq Task
<1>1. {IF t.at = a THEN Stopped(t) ELSE t : t \in tasks} \subseteq Task
  BY DEF TypeOK, Task, Stopped
<1> QED
  BY <1>1, NewTaskTyped DEF Replace

LEMMA TrackTyped ==
  ASSUME TypeOK, NEW a, Track(a)
  PROVE  placed' \in [Agent -> Nat]
<1>1. placed \in [Agent -> Nat] /\ placed' = [placed EXCEPT ![a] = @ + 1]
  BY DEF TypeOK, Track
<1>2. placed' = [b \in Agent |-> IF b = a THEN placed[b] + 1 ELSE placed[b]]
  BY <1>1
<1>3. \A b \in Agent : (IF b = a THEN placed[b] + 1 ELSE placed[b]) \in Nat
  BY <1>1
<1> QED
  BY <1>2, <1>3

\* UpdateJob, up to the passes.
LEMMA UpdateBeginsTyped ==
  ASSUME TypeInv, UpdateJob \/ LockJob \/ AskAgents \/ FetchTasks \/ StoreNew
  PROVE  Typed /\ faults' \in 0 .. MaxFaults
<1>0. upd \in UpdRec /\ rec \in RecRec
  BY RecordTypes DEF TypeInv
<1> USE <1>0 DEF TypeInv, TypeOK, Typed, UpdRec, UpdPC, Goto, others, job
<1>1. CASE UpdateJob
  BY <1>1 DEF UpdateJob
<1>2. CASE LockJob
  <2>1. upd' \in UpdRec /\ upd'.pc # "inplace"
    BY <1>2 DEF LockJob
  <2> QED
    BY <1>2, <2>1 DEF LockJob
<1>3. CASE AskAgents
  <2>1. (IF store = Gone THEN {} ELSE {a \in agents : placed[a] > 0}) \in SUBSET Agent
    OBVIOUS
  <2> QED
    BY <1>3, <2>1 DEF AskAgents
<1>4. CASE FetchTasks
  <2>1. PICK S \in SUBSET Task :
          upd' = [upd EXCEPT !.pc = "store", !.asked = {}, !.olds = S]
    BY <1>4 DEF FetchTasks
  <2>2. upd' \in UpdRec /\ upd'.pc # "inplace"
    BY <2>1
  <2>3. faults' \in 0 .. MaxFaults
    BY <1>4, FaultTyped DEF FetchTasks
  <2> QED
    BY <1>4, <2>2, <2>3 DEF FetchTasks
<1>5. CASE StoreNew
  BY <1>5 DEF StoreNew, Definitions, Definition
<1> QED
  BY <1>1, <1>2, <1>3, <1>4, <1>5

\* Changing some fields of the goroutine's record.
LEMMA FieldsTyped ==
  ASSUME NEW g \in UpdRec, NEW pc \in UpdPC, NEW c \in Task \cup {NoTask}, NEW S \in SUBSET Task,
         NEW n \in Nat
  PROVE  /\ [g EXCEPT !.pc = pc, !.cur = c, !.olds = S, !.sent = n] \in UpdRec
         /\ [g EXCEPT !.cur = c, !.olds = S, !.sent = n] \in UpdRec
         /\ [g EXCEPT !.pc = pc, !.olds = S, !.cur = c, !.sent = n] \in UpdRec
         /\ [g EXCEPT !.pc = pc, !.cur = c] \in UpdRec
         /\ [g EXCEPT !.sent = n] \in UpdRec
         /\ [g EXCEPT !.pc = pc] \in UpdRec
BY DEF UpdRec

LEMMA WalkTyped ==
  ASSUME NEW g \in UpdRec, NEW pc \in UpdPC, NEW S \in SUBSET Agent, NEW f \in BOOLEAN,
         NEW a \in Agent \cup {NoAgent}, NEW n \in Nat
  PROVE  /\ [g EXCEPT !.pc = pc, !.untried = S, !.full = f] \in UpdRec
         /\ [g EXCEPT !.pc = pc, !.untried = S, !.full = f, !.at = a, !.ok = f] \in UpdRec
         /\ [g EXCEPT !.untried = S, !.pc = pc, !.at = a] \in UpdRec
         /\ [g EXCEPT !.untried = S, !.full = f] \in UpdRec
         /\ [g EXCEPT !.untried = S] \in UpdRec
         /\ [g EXCEPT !.sent = n, !.at = a] \in UpdRec
BY DEF UpdRec

LEMMA PassTyped ==
  ASSUME TypeOK
  PROVE  /\ Pass(upd) \in UpdRec /\ Pass(upd).pc = "pass"
         /\ Pass(upd).olds = upd.olds /\ Pass(upd).cur = upd.cur /\ Pass(upd).sent = upd.sent
<1>1. upd \in UpdRec /\ agents \in SUBSET Agent
  BY RecordTypes DEF TypeOK
<1>2. "pass" \in UpdPC
  BY DEF UpdPC
<1>3. Pass(upd) \in UpdRec
  BY <1>1, <1>2, WalkTyped DEF Pass
<1> QED
  BY <1>1, <1>3 DEF Pass, UpdRec

LEMMA NextTyped ==
  ASSUME TypeInv, RollNext \/ BlueGreenNext
  PROVE  Typed /\ faults' = faults
<1>0. upd \in UpdRec /\ rec \in RecRec /\ TypeOK
  BY RecordTypes DEF TypeInv
<1>1. /\ UNCHANGED <<others, tasks, placed, job, faults>>
      /\ \/ Goto("unlock")
         \/ NextOld("pass")
         \/ NextOld("stop")
         \/ upd' = [Pass(upd) EXCEPT !.sent = @ + 1]
  BY DEF RollNext, BlueGreenNext
<1>2. upd' \in UpdRec /\ upd'.pc # "inplace"
  <2>1. CASE Goto("unlock")
    BY <1>0, <2>1 DEF Goto, UpdRec, UpdPC
  <2>2. ASSUME NEW t \in upd.olds, upd' = [Pass(upd) EXCEPT !.cur = t, !.olds = @ \ {t}, !.sent = @ + 1]
        PROVE  upd' \in UpdRec /\ upd'.pc # "inplace"
    <3> DEFINE g == Pass(upd)
    <3>1. /\ g \in UpdRec /\ g.pc = "pass" /\ g.olds = upd.olds /\ g.sent \in Nat
          /\ t \in Task /\ upd.olds \ {t} \in SUBSET Task
      BY <1>0, PassTyped DEF UpdRec
    <3> DEFINE S == g.olds \ {t}
               n == g.sent + 1
    <3>2. upd' = [g EXCEPT !.cur = t, !.olds = S, !.sent = n]
      BY <2>2
    <3>21. S \in SUBSET Task /\ n \in Nat
      BY <3>1
    <3> HIDE DEF g, S, n
    <3>3. upd' \in UpdRec
      BY <3>1, <3>2, <3>21 DEF UpdRec
    <3> QED
      BY <3>1, <3>2, <3>3 DEF UpdRec
  <2>3. ASSUME NEW t \in upd.olds,
               upd' = [[upd EXCEPT !.pc = "stop"] EXCEPT !.cur = t, !.olds = @ \ {t}, !.sent = @ + 1]
        PROVE  upd' \in UpdRec /\ upd'.pc # "inplace"
    <3>1. t \in Task /\ upd.olds \ {t} \in SUBSET Task /\ upd.sent + 1 \in Nat /\ "stop" \in UpdPC
      BY <1>0 DEF UpdRec, UpdPC
    <3> DEFINE S == upd.olds \ {t}
               n == upd.sent + 1
    <3>2. upd' = [upd EXCEPT !.pc = "stop", !.cur = t, !.olds = S, !.sent = n]
      BY <1>0, <2>3 DEF UpdRec
    <3> HIDE DEF S, n
    <3>3. upd' \in UpdRec
      BY <1>0, <3>1, <3>2, FieldsTyped DEF S, n
    <3> QED
      BY <1>0, <3>2, <3>3 DEF UpdRec
  <2>4. CASE upd' = [Pass(upd) EXCEPT !.sent = @ + 1]
    <3> DEFINE g == Pass(upd)
    <3>1. g \in UpdRec /\ g.pc = "pass" /\ g.sent \in Nat
      BY <1>0, PassTyped DEF UpdRec
    <3> DEFINE n == g.sent + 1
    <3>2. upd' = [g EXCEPT !.sent = n] /\ n \in Nat
      BY <2>4, <3>1
    <3> HIDE DEF g, n
    <3>3. upd' \in UpdRec
      BY <3>1, <3>2 DEF UpdRec
    <3> QED
      BY <3>1, <3>2, <3>3 DEF UpdRec
  <2> QED
    BY <1>1, <2>1, <2>2, <2>3, <2>4 DEF NextOld
<1> QED
  BY <1>0, <1>1, <1>2 DEF Typed, TypeOK, others, job

LEMMA SendTyped ==
  ASSUME TypeInv, SendNew
  PROVE  Typed /\ faults' \in 0 .. MaxFaults
<1>0. upd \in UpdRec /\ rec \in RecRec /\ TypeOK
  BY RecordTypes DEF TypeInv
<1>1. Offer(upd, upd', 2) /\ upd.pc = "pass" /\ UNCHANGED <<others, placed, job>>
  BY DEF SendNew
<1>2. /\ tasks' \subseteq Task /\ faults' \in 0 .. MaxFaults
      /\ \E a \in Agent, S \in SUBSET Agent :
           /\ \/ upd' = [upd EXCEPT !.untried = S]
              \/ upd' = [upd EXCEPT !.untried = S, !.full = TRUE]
              \/ upd' = [upd EXCEPT !.untried = S, !.pc = "track", !.at = a]
  <2>1. upd.untried \subseteq Agent
    BY <1>0 DEF UpdRec
  <2> QED
    BY <1>0, <1>1, <2>1, OfferTyped
<1>3. upd' \in UpdRec /\ upd'.pc # "inplace"
  <2>1. "track" \in UpdPC
    BY DEF UpdPC
  <2>2. upd' \in UpdRec
    <3>1. PICK a \in Agent, S \in SUBSET Agent :
            \/ upd' = [upd EXCEPT !.untried = S]
            \/ upd' = [upd EXCEPT !.untried = S, !.full = TRUE]
            \/ upd' = [upd EXCEPT !.untried = S, !.pc = "track", !.at = a]
      BY <1>2
    <3> QED
      BY <1>0, <2>1, <3>1 DEF UpdRec
  <2> QED
    BY <1>0, <1>1, <1>2, <2>2 DEF UpdRec
<1> QED
  BY <1>0, <1>1, <1>2, <1>3 DEF Typed, TypeOK, others, job

LEMMA TrackNewTyped ==
  ASSUME TypeInv, TrackNew
  PROVE  Typed /\ faults' = faults
<1>0. upd \in UpdRec /\ rec \in RecRec /\ TypeOK
  BY RecordTypes DEF TypeInv
<1>1. /\ Track(upd.at) /\ UNCHANGED <<others, tasks, job, faults>>
      /\ \/ PassTo("stop", TRUE) \/ PassTo("next", TRUE) \/ PassTo("unlock", TRUE)
         \/ upd' = [Pass(upd) EXCEPT !.sent = @ + 1, !.at = NoAgent]
  BY DEF TrackNew
<1>2. upd' \in UpdRec /\ upd'.pc # "inplace"
  <2>1. CASE PassTo("stop", TRUE) \/ PassTo("next", TRUE) \/ PassTo("unlock", TRUE)
    <3>1. \E pc \in {"stop", "next", "unlock"} :
            upd' = [upd EXCEPT !.pc = pc, !.untried = {}, !.full = FALSE, !.at = NoAgent, !.ok = TRUE]
      BY <2>1 DEF PassTo
    <3> QED
      BY <1>0, <3>1, ZenonT(30) DEF UpdRec, UpdPC
  <2>2. CASE upd' = [Pass(upd) EXCEPT !.sent = @ + 1, !.at = NoAgent]
    <3> DEFINE g == Pass(upd)
    <3>1. g \in UpdRec /\ g.pc = "pass" /\ g.sent \in Nat
      BY <1>0, PassTyped DEF UpdRec
    <3> DEFINE n == g.sent + 1
    <3>2. upd' = [g EXCEPT !.sent = n, !.at = NoAgent] /\ n \in Nat
      BY <2>2, <3>1
    <3> HIDE DEF g, n
    <3>3. upd' \in UpdRec
      BY <3>1, <3>2 DEF UpdRec
    <3> QED
      BY <3>1, <3>2, <3>3 DEF UpdRec
  <2> QED
    BY <1>1, <2>1, <2>2
<1> QED
  BY <1>0, <1>1, <1>2, TrackTyped DEF Typed, TypeOK, others, job

LEMMA InPlaceTyped ==
  ASSUME TypeInv, NoRoom \/ InPlace
  PROVE  Typed /\ faults' \in 0 .. MaxFaults
<1>0. upd \in UpdRec /\ rec \in RecRec /\ TypeOK
  BY RecordTypes DEF TypeInv
<1>1. CASE NoRoom
  <2>1. /\ UNCHANGED <<others, tasks, placed, job, faults>>
        /\ (PassTo("inplace", TRUE) /\ upd.cur.at \in agents) \/ PassTo("unlock", FALSE)
    BY <1>1 DEF NoRoom
  <2>2. upd' \in UpdRec /\ (upd'.pc = "inplace" => upd'.cur.at \in Agent)
    <3>1. CASE PassTo("inplace", TRUE) /\ upd.cur.at \in agents
      BY <1>0, <3>1 DEF PassTo, UpdRec, UpdPC, TypeOK
    <3>2. CASE PassTo("unlock", FALSE)
      BY <1>0, <3>2 DEF PassTo, UpdRec, UpdPC
    <3> QED
      BY <2>1, <3>1, <3>2
  <2> QED
    BY <1>0, <2>1, <2>2 DEF Typed, TypeOK, others, job
<1>2. CASE InPlace
  <2>1. /\ UNCHANGED <<others, placed, job>> /\ upd.cur.at \in Agent
        /\ Replace(upd.cur.at) \/ UNCHANGED tasks
        /\ upd' = NextFrom(upd) \/ PassTo("unlock", FALSE)
        /\ Fault \/ NoFault
    BY <1>2 DEF InPlace, ToUpd, TypeInv
  <2>2. upd' \in UpdRec /\ upd'.pc # "inplace"
    BY <1>0, <2>1, ZenonT(30) DEF NextFrom, PassTo, UpdRec, UpdPC
  <2>3. tasks' \subseteq Task /\ faults' \in 0 .. MaxFaults
    <3>1. CASE UNCHANGED tasks
      BY <1>0, <2>1, <3>1, FaultTyped DEF TypeOK
    <3>2. CASE Replace(upd.cur.at)
      BY <1>0, <2>1, <3>2, ReplaceTyped, FaultTyped
    <3> QED
      BY <2>1, <3>1, <3>2
  <2> QED
    BY <1>0, <2>1, <2>2, <2>3 DEF Typed, TypeOK, others, job
<1> QED
  BY <1>1, <1>2

LEMMA UpdateEndsTyped ==
  ASSUME TypeInv, StopOld \/ Unbook \/ UnlockJob \/ Finish
  PROVE  Typed /\ faults' \in 0 .. MaxFaults
<1>0. upd \in UpdRec /\ rec \in RecRec /\ TypeOK
  BY RecordTypes DEF TypeInv
<1>1. CASE StopOld
  <2>1. /\ UNCHANGED <<others, placed, job>>
        /\ \/ tasks' = {IF t.id = upd.cur.id THEN Stopped(t) ELSE t : t \in tasks}
           \/ tasks' = tasks
        /\ Goto("unbook") \/ upd' = NextFrom(upd)
        /\ Fault \/ NoFault
    BY <1>1 DEF StopOld, ToUpd
  <2>2. upd' \in UpdRec /\ upd'.pc # "inplace"
    BY <1>0, <2>1 DEF NextFrom, Goto, UpdRec, UpdPC
  <2>3. tasks' \subseteq Task
    BY <1>0, <2>1 DEF TypeOK, Task, Stopped
  <2> QED
    BY <1>0, <2>1, <2>2, <2>3, FaultTyped DEF Typed, TypeOK, others, job
<1>2. CASE Unbook
  <2>1. /\ UNCHANGED <<others, tasks, job, faults>> /\ upd' = NextFrom(upd)
        /\ placed' = [placed EXCEPT ![upd.cur.at] = IF @ > 0 THEN @ - 1 ELSE 0]
    BY <1>2 DEF Unbook, ToUpd
  <2>2. upd' \in UpdRec /\ upd'.pc # "inplace"
    BY <1>0, <2>1 DEF NextFrom, UpdRec, UpdPC
  <2>3. placed' \in [Agent -> Nat]
    <3>1. placed \in [Agent -> Nat]
      BY <1>0 DEF TypeOK
    <3>2. \A a \in Agent : (IF placed[a] > 0 THEN placed[a] - 1 ELSE 0) \in Nat
      BY <3>1
    <3> QED
      BY <2>1, <3>1, <3>2
  <2> QED
    BY <1>0, <2>1, <2>2, <2>3 DEF Typed, TypeOK, others, job
<1>3. CASE UnlockJob
  <2>1. /\ UNCHANGED <<others, tasks, placed, store, tombstone, faults>> /\ flag' = FALSE
        /\ Return("finish") \/ Return("over")
    BY <1>3, Zenon DEF UnlockJob
  <2>2. upd' \in UpdRec /\ upd'.pc # "inplace"
    <3>1. \E pc \in {"finish", "over"} :
            upd' = [upd EXCEPT !.pc = pc, !.olds = {}, !.cur = NoTask, !.sent = 0]
      BY <2>1 DEF Return
    <3>2. {"finish", "over"} \subseteq UpdPC /\ {} \in SUBSET Task /\ 0 \in Nat
      BY DEF UpdPC
    <3>3. upd' \in UpdRec
      <4>1. PICK pc \in {"finish", "over"} :
              upd' = [upd EXCEPT !.pc = pc, !.olds = {}, !.cur = NoTask, !.sent = 0]
        BY <3>1
      <4> QED
        BY <1>0, <3>2, <4>1, FieldsTyped
    <3> QED
      BY <1>0, <3>1, <3>3 DEF UpdRec
  <2> QED
    BY <1>0, <2>1, <2>2 DEF Typed, TypeOK, others
<1>4. CASE Finish
  BY <1>0, <1>4 DEF Finish, Goto, Typed, TypeOK, UpdRec, UpdPC, others, Definitions, Definition
<1> QED
  BY <1>1, <1>2, <1>3, <1>4

LEMMA RecreateTyped ==
  ASSUME TypeInv, WipePlaced \/ HaltTasks \/ ReleaseFlag \/ Resubmit \/ Relock
  PROVE  Typed /\ faults' \in 0 .. MaxFaults
<1>0. upd \in UpdRec /\ rec \in RecRec /\ TypeOK
  BY RecordTypes DEF TypeInv
<1>1. CASE WipePlaced
  <2>1. {a \in agents : placed[a] > 0} \in SUBSET Agent
    BY <1>0 DEF TypeOK
  <2>2. upd' \in UpdRec /\ upd'.pc # "inplace"
    BY <1>0, <1>1, <2>1 DEF WipePlaced, UpdRec, UpdPC
  <2> QED
    BY <1>0, <1>1, <2>2 DEF WipePlaced, Typed, TypeOK, others, job
<1>2. CASE HaltTasks
  <2>1. /\ UNCHANGED <<others, placed, job>> /\ tasks' \subseteq Task /\ upd.pc = "halt"
        /\ Goto("release") \/ \E a \in upd.asked : upd' = [upd EXCEPT !.asked = @ \ {a}]
        /\ Fault \/ NoFault
    BY <1>0, <1>2 DEF HaltTasks, TypeOK
  <2>2. upd' \in UpdRec /\ upd'.pc # "inplace"
    BY <1>0, <2>1 DEF Goto, UpdRec, UpdPC
  <2> QED
    BY <1>0, <2>1, <2>2, FaultTyped DEF Typed, TypeOK, others, job
<1>3. CASE ReleaseFlag
  BY <1>0, <1>3 DEF ReleaseFlag, Goto, Typed, TypeOK, UpdRec, UpdPC, others
<1>4. CASE Resubmit
  BY <1>0, <1>4 DEF Resubmit, Goto, Typed, TypeOK, UpdRec, UpdPC, others, Definitions, Definition
<1>5. CASE Relock
  <2>1. /\ UNCHANGED <<others, tasks, placed, store, tombstone, faults>> /\ flag' = TRUE
        /\ upd' = [upd EXCEPT !.pc = "finish"] \/ upd' = [Pass(upd) EXCEPT !.sent = 1]
    BY <1>5 DEF Relock
  <2>2. upd' \in UpdRec /\ upd'.pc # "inplace"
    <3>1. CASE upd' = [upd EXCEPT !.pc = "finish"]
      BY <1>0, <3>1 DEF UpdRec, UpdPC
    <3>2. CASE upd' = [Pass(upd) EXCEPT !.sent = 1]
      BY <1>0, <3>2, PassTyped, FieldsTyped DEF UpdRec
    <3> QED
      BY <2>1, <3>1, <3>2
  <2> QED
    BY <1>0, <2>1, <2>2 DEF Typed, TypeOK, others
<1> QED
  BY <1>1, <1>2, <1>3, <1>4, <1>5

LEMMA BookedFinite == ASSUME TypeOK PROVE IsFiniteSet(Booked) /\ Cardinality(Booked) \in Nat
<1> DEFINE Of(a) == {a} \X (1 .. placed[a])
           of == [a \in agents |-> Of(a)]
           All == {Of(a) : a \in agents}
<1>1. IsFiniteSet(agents) /\ \A a \in agents : placed[a] \in Nat
  BY UpdateAssumption, FS_Subset DEF TypeOK
<1>2. of \in Surjection(agents, All)
  BY DEF Surjection
<1>3. IsFiniteSet(All)
  BY <1>1, <1>2, FS_Surjection
<1>4. ASSUME NEW a \in agents PROVE IsFiniteSet(Of(a))
  <2>1. IsFiniteSet(1 .. placed[a])
    BY <1>1, FS_Interval
  <2>2. IsFiniteSet({a})
    BY FS_Singleton
  <2> QED
    BY <2>1, <2>2, FS_Product
<1>5. IsFiniteSet(UNION All)
  BY <1>3, <1>4, FS_UNION
<1> QED
  BY <1>5, FS_CardinalityType DEF Booked

\* A reconciliation.
RecTyped == /\ rec' \in RecRec /\ tasks' \subseteq Task /\ placed' \in [Agent -> Nat]
            /\ store' \in Definitions /\ tombstone' \in BOOLEAN /\ flag' \in BOOLEAN
            /\ rec'.pc \notin {"idle", "unlock"} => rec'.copy # Gone

LEMMA RecTypedKeeps ==
  ASSUME TypeInv, RecTyped, UNCHANGED notRec, faults' \in 0 .. MaxFaults,
         starting' \subseteq 1 .. MaxTasks
  PROVE  TypeInv'
<1>0. TypeOK /\ upd \in UpdRec /\ upd' = upd /\ UNCHANGED env /\ UNCHANGED <<patch, del>>
      /\ (upd.pc = "inplace" => upd.cur.at \in Agent)
  BY RecordTypes DEF TypeInv, notRec
<1>1. Typed
  BY <1>0 DEF Typed, RecTyped
<1> QED
  BY <1>0, <1>1, TypedKeeps DEF RecTyped

LEMMA RecBeginsTyped ==
  ASSUME TypeInv, ReconcileJobs \/ NormalizePriorities \/ CheckFlag \/ LockInstances
  PROVE  RecTyped /\ UNCHANGED notRec /\ faults' = faults
<1>0. /\ rec \in RecRec /\ TypeOK /\ Gone \in Definitions
      /\ rec.pc \notin {"idle", "unlock"} => rec.copy # Gone
  BY RecordTypes DEF TypeInv, Definitions
<1>01. IdleRec \in RecRec /\ IdleRec.pc = "idle"
  BY <1>0 DEF IdleRec, RecRec
<1> USE <1>0, <1>01 DEF TypeOK, RecTyped, RecRec, RecGoto, job
<1>1. CASE ReconcileJobs
  BY <1>1 DEF ReconcileJobs
<1>2. CASE NormalizePriorities
  BY <1>2 DEF NormalizePriorities
<1>3. CASE CheckFlag
  <2>1. rec' = IdleRec \/ (rec.pc = "check" /\ rec' = [rec EXCEPT !.pc = "count"])
    BY <1>3 DEF CheckFlag
  <2>2. rec' \in RecRec /\ (rec'.pc \notin {"idle", "unlock"} => rec'.copy # Gone)
    BY <2>1
  <2> QED
    BY <1>3, <2>2 DEF CheckFlag
<1>4. CASE LockInstances
  <2>1. rec.pc = "lock" /\ (rec' = IdleRec \/ rec' = Pass(rec)) /\ flag' = TRUE
    BY <1>4 DEF LockInstances
  <2>2. rec' \in RecRec /\ (rec'.pc \notin {"idle", "unlock"} => rec'.copy # Gone)
    BY <2>1 DEF Pass
  <2> QED
    BY <1>4, <2>1, <2>2 DEF LockInstances
<1> QED
  BY <1>1, <1>2, <1>3, <1>4

LEMMA RecGoesOnTyped ==
  ASSUME TypeInv, CountPlaced \/ SendMissing \/ TrackMissing \/ NoneTakesIt \/ UnlockInstances
  PROVE  RecTyped /\ UNCHANGED notRec /\ faults' \in 0 .. MaxFaults
<1>0. /\ rec \in RecRec /\ TypeOK /\ Gone \in Definitions
      /\ rec.pc \notin {"idle", "unlock"} => rec.copy # Gone
  BY RecordTypes DEF TypeInv, Definitions
<1>01. /\ IdleRec \in RecRec /\ [IdleRec EXCEPT !.pc = "unlock"] \in RecRec
       /\ IdleRec.pc = "idle" /\ [IdleRec EXCEPT !.pc = "unlock"].pc = "unlock"
  BY <1>0 DEF IdleRec, RecRec
<1>1. CASE CountPlaced
  <2> DEFINE missing == CountOf(rec.copy.ver) - Cardinality(Booked)
  <2>1. missing \in Int
    BY <1>0, BookedFinite, UpdateAssumption DEF CountOf
  <2>2. rec' = IF missing > 0 THEN [rec EXCEPT !.pc = "lock", !.left = missing] ELSE IdleRec
    BY <1>1 DEF CountPlaced
  <2> HIDE DEF missing
  <2>3. rec' \in RecRec /\ (rec'.pc # "idle" => rec'.copy # Gone)
    <3>1. rec.pc = "count"
      BY <1>1 DEF CountPlaced
    <3>2. CASE missing > 0
      <4>1. missing \in Nat /\ rec' = [rec EXCEPT !.pc = "lock", !.left = missing]
        BY <2>1, <2>2, <3>2
      <4> QED
        BY <1>0, <3>1, <4>1 DEF RecRec
    <3> QED
      BY <1>01, <2>1, <2>2, <3>2
  <2> QED
    BY <1>0, <1>1, <2>3 DEF CountPlaced, RecTyped, TypeOK, job
<1>2. CASE SendMissing
  <2>1. Offer(rec, rec', rec.copy.ver) /\ UNCHANGED <<notRec, placed, job>>
    BY <1>2 DEF SendMissing
  <2>2. rec.pc = "pass" /\ rec.copy # Gone
    BY <1>0, <1>2 DEF SendMissing, Offer
  <2>3. rec.copy.ver \in {1, 2}
    BY <1>0, <2>2 DEF RecRec, Definitions
  <2> QED
    <3>1. /\ tasks' \subseteq Task /\ faults' \in 0 .. MaxFaults
          /\ \E a \in Agent, S \in SUBSET Agent :
              \/ rec' = [rec EXCEPT !.untried = S]
              \/ rec' = [rec EXCEPT !.untried = S, !.full = TRUE]
              \/ rec' = [rec EXCEPT !.untried = S, !.pc = "track", !.at = a]
      <4>1. rec.untried \subseteq Agent
        BY <1>0 DEF RecRec
      <4> QED
        BY <1>0, <2>1, <2>3, <4>1, OfferTyped
    <3>2. rec' \in RecRec /\ rec'.copy # Gone
      BY <1>0, <2>2, <3>1 DEF RecRec
    <3> QED
      BY <1>0, <2>1, <3>1, <3>2 DEF RecTyped, TypeOK, job
<1>3. CASE TrackMissing
  <2>1. rec' \in RecRec /\ (rec'.pc # "unlock" => rec'.copy # Gone)
    <3>0. rec.copy # Gone
      BY <1>0, <1>3 DEF TrackMissing
    <3>1. \/ rec' = [Pass(rec) EXCEPT !.left = @ - 1, !.at = NoAgent] /\ rec.left > 1
          \/ rec' = [IdleRec EXCEPT !.pc = "unlock"]
      BY <1>3 DEF TrackMissing
    <3> QED
      <4>1. agents \in SUBSET Agent /\ rec.left \in Nat
        BY <1>0 DEF TypeOK, RecRec
      <4>2. CASE rec' = [Pass(rec) EXCEPT !.left = @ - 1, !.at = NoAgent] /\ rec.left > 1
        <5>1. Pass(rec) = [rec EXCEPT !.pc = "pass", !.untried = agents, !.full = FALSE]
          BY DEF Pass
        <5>2. rec.left - 1 \in Nat /\ Pass(rec).left = rec.left
          BY <1>0, <4>1, <4>2, <5>1 DEF RecRec
        <5>3. rec' = [rec EXCEPT !.pc = "pass", !.untried = agents, !.full = FALSE,
                                 !.left = rec.left - 1, !.at = NoAgent]
          BY <1>0, <4>2, <5>1, <5>2 DEF RecRec
        <5> QED
          BY <1>0, <3>0, <4>1, <5>2, <5>3 DEF RecRec
      <4> QED
        BY <1>01, <3>1, <4>2
  <2>2. placed' \in [Agent -> Nat]
    BY <1>0, <1>3, TrackTyped DEF TrackMissing
  <2> QED
    BY <1>0, <1>3, <2>1, <2>2 DEF TrackMissing, RecTyped, TypeOK, job
<1>4. CASE NoneTakesIt \/ UnlockInstances
  BY <1>0, <1>01, <1>4 DEF NoneTakesIt, UnlockInstances, RecTyped, TypeOK, job
<1> QED
  BY <1>1, <1>2, <1>3, <1>4

\* What is queued is on an agent, or was.
LEMMA QueuesTyped ==
  ASSUME TypeOK, Queues, tasks' \subseteq Task
  PROVE  starting' \subseteq 1 .. MaxTasks
<1>1. \A t \in tasks' : t.id \in 1 .. MaxTasks
  BY DEF Task
<1> QED
  BY <1>1 DEF Queues

LEMMA StartingTyped ==
  ASSUME TypeInv, Next, tasks' \subseteq Task
  PROVE  starting' \subseteq 1 .. MaxTasks
<1>0. TypeOK /\ starting \subseteq 1 .. MaxTasks
  BY DEF TypeInv, TypeOK
<1>1. CASE UpdateJob \/ Updating
  <2>1. Queues \/ starting' = starting
    BY <1>1 DEF UpdateJob, Updating, LockJob, AskAgents, FetchTasks, StoreNew, RollNext,
      BlueGreenNext, SendNew, Offer, Accept, Refuse, TrackNew, NoRoom, InPlace, Replace,
      StopOld, Unbook, UnlockJob, Finish, WipePlaced, HaltTasks, ReleaseFlag, Resubmit, Relock
  <2> QED
    BY <1>0, <2>1, QueuesTyped
<1>2. CASE ReconcileJobs \/ Reconciling
  <2>1. Queues \/ starting' = starting
    BY <1>2 DEF ReconcileJobs, Reconciling, NormalizePriorities, CheckFlag, CountPlaced,
      LockInstances, SendMissing, Offer, Accept, Refuse, TrackMissing, NoneTakesIt,
      UnlockInstances
  <2> QED
    BY <1>0, <2>1, QueuesTyped
<1>3. CASE PatchRead \/ PatchWrite \/ DeleteJob \/ Deleting
  <2>1. Queues \/ starting' = starting
    BY <1>3 DEF PatchRead, PatchWrite, DeleteJob, Deleting, DropJob, WipeAndPurge, Sweep,
      ClearFlag
  <2> QED
    BY <1>0, <2>1, QueuesTyped
<1>4. ASSUME NEW t \in tasks, Start(t) \/ StartFails(t) \/ Removed(t)
      PROVE  starting' \subseteq 1 .. MaxTasks
  <2>1. Queues \/ starting' \subseteq starting
    BY <1>4 DEF Start, StartFails, Removed
  <2> QED
    BY <1>0, <2>1, QueuesTyped
<1>5. ASSUME NEW a \in Agent, Die(a) \/ CheckDeadAgent(a) \/ NeighbourMoves(a)
      PROVE  starting' \subseteq 1 .. MaxTasks
  <2>1. Queues \/ starting' = starting
    BY <1>5 DEF Die, CheckDeadAgent, NeighbourMoves
  <2> QED
    BY <1>0, <2>1, QueuesTyped
<1> QED
  BY <1>1, <1>2, <1>3, <1>4, <1>5 DEF Next

\* Those that run beside both.
LEMMA OthersTyped ==
  ASSUME TypeInv, \/ PatchRead \/ PatchWrite \/ DeleteJob \/ Deleting
                  \/ \E t \in tasks : Start(t) \/ StartFails(t) \/ Removed(t)
                  \/ \E a \in Agent : Die(a) \/ CheckDeadAgent(a) \/ NeighbourMoves(a)
  PROVE  TypeInv'
<1>0. upd \in UpdRec /\ rec \in RecRec /\ TypeOK /\ Gone \in Definitions
  BY RecordTypes DEF TypeInv, Definitions
<1>00. tasks' \subseteq Task => starting' \subseteq 1 .. MaxTasks
  BY StartingTyped DEF Next
<1> DEFINE Kept == /\ upd' = upd /\ rec' = rec
                   /\ agents' \subseteq Agent /\ dead' \subseteq Agent
                   /\ tasks' \subseteq Task /\ starting' \subseteq 1 .. MaxTasks
                   /\ placed' \in [Agent -> Nat]
                   /\ neighbour' \in [Agent -> Nat]
                   /\ store' \in Definitions /\ tombstone' \in BOOLEAN /\ flag' \in BOOLEAN
                   /\ patch' \in Definitions
                   /\ del' \in {"idle", "drop", "wipe", "purge", "sweep", "clear"}
                   /\ faults' \in 0 .. MaxFaults
<1>1. CASE PatchRead \/ PatchWrite
  <2>1. faults' \in 0 .. MaxFaults
    BY <1>0, <1>1, FaultTyped DEF PatchRead, PatchWrite, NoFault
  <2>2. Kept
    BY <1>0, <1>00, <1>1, <2>1 DEF PatchRead, PatchWrite, TypeOK, env, job
  <2> QED
    BY <1>0, <2>2 DEF TypeInv, TypeOK
<1>2. CASE DeleteJob \/ Deleting
  <2>1. faults' \in 0 .. MaxFaults
    BY <1>0, <1>2, FaultTyped DEF DeleteJob, Deleting, DropJob, WipeAndPurge, Sweep, ClearFlag, NoFault
  <2>2. /\ upd' = upd /\ rec' = rec /\ UNCHANGED <<agents, dead, neighbour, patch>>
        /\ tasks' \subseteq tasks /\ (store' = store \/ store' = Gone)
        /\ placed' = placed \/ placed' = [a \in Agent |-> 0]
        /\ tombstone' \in {tombstone, TRUE} /\ flag' \in {flag, FALSE}
        /\ del' \in {del, "idle", "drop", "wipe", "sweep", "clear"}
    BY <1>2 DEF DeleteJob, Deleting, DropJob, WipeAndPurge, Sweep, ClearFlag, env, notDel
  <2>3. placed' \in [Agent -> Nat] /\ tasks' \subseteq Task /\ store' \in Definitions
    BY <1>0, <2>2 DEF TypeOK
  <2>4. tombstone' \in BOOLEAN /\ flag' \in BOOLEAN
    BY <1>0, <2>2, Zenon DEF TypeOK
  <2>5. agents' \subseteq Agent /\ dead' \subseteq Agent /\ neighbour' \in [Agent -> Nat]
        /\ patch' \in Definitions /\ del' \in {"idle", "drop", "wipe", "purge", "sweep", "clear"}
    BY <1>0, <2>2 DEF TypeOK
  <2> QED
    BY <1>0, <1>00, <2>1, <2>2, <2>3, <2>4, <2>5 DEF TypeInv, TypeOK
<1>3. ASSUME NEW t \in tasks, Start(t) \/ Removed(t) PROVE TypeInv'
  <2>1. Kept
    BY <1>0, <1>00, <1>3 DEF Start, Removed, TypeOK, env, notEnv, job
  <2> QED
    BY <1>0, <2>1 DEF TypeInv, TypeOK
<1>5. ASSUME NEW t \in tasks, StartFails(t) PROVE TypeInv'
  <2>1. t \in Task /\ t.at \in Agent /\ t.ver \in {1, 2} /\ placed \in [Agent -> Nat]
    BY <1>0 DEF TypeOK, Task
  <2>2. faults' \in 0 .. MaxFaults
    BY <1>0, <1>5, FaultTyped DEF StartFails
  <2>3. tasks' \subseteq Task
    <3>1. \/ tasks' = tasks \ {t}
          \/ FreshIDs # {} /\ tasks' = (tasks \ {t}) \cup {NewTask(t.at, t.ver, "accepted")}
      BY <1>5 DEF StartFails
    <3> QED
      BY <1>0, <2>1, <3>1, NewTaskTyped DEF TypeOK
  <2>4. placed' \in [Agent -> Nat]
    <3>1. placed' = placed \/ placed' = [placed EXCEPT ![t.at] = IF @ > 0 THEN @ - 1 ELSE 0]
      BY <1>5 DEF StartFails
    <3>2. \A a \in Agent : (IF placed[a] > 0 THEN placed[a] - 1 ELSE 0) \in Nat
      BY <2>1
    <3> QED
      BY <2>1, <3>1, <3>2
  <2>5. UNCHANGED <<env, notEnv>>
    BY <1>5 DEF StartFails
  <2>6. Kept
    BY <1>0, <1>00, <2>2, <2>3, <2>4, <2>5 DEF TypeOK, env, notEnv, job
  <2> QED
    BY <1>0, <2>6 DEF TypeInv, TypeOK
<1>4. ASSUME NEW a \in Agent, Die(a) \/ CheckDeadAgent(a) \/ NeighbourMoves(a) PROVE TypeInv'
  <2>1. faults' \in 0 .. MaxFaults
    BY <1>0, <1>4, FaultTyped DEF Die, CheckDeadAgent, NeighbourMoves, NoFault
  <2>2. neighbour' \in [Agent -> Nat]
    BY <1>0, <1>4 DEF Die, CheckDeadAgent, NeighbourMoves, TypeOK
  <2>3. Kept
    BY <1>0, <1>00, <1>4, <2>1, <2>2 DEF Die, CheckDeadAgent, NeighbourMoves, TypeOK, notEnv, job
  <2> QED
    BY <1>0, <2>3 DEF TypeInv, TypeOK
<1> QED
  BY <1>1, <1>2, <1>3, <1>4, <1>5

LEMMA FiniteUpTo == \A n \in Nat : IsFiniteSet(1 .. n) /\ Cardinality(1 .. n) = n
BY FS_Interval

LEMMA InitTyped == Init => TypeInv
<1> SUFFICES ASSUME Init PROVE TypeInv
  OBVIOUS
<1>1. PICK where \in [1 .. OldCount -> Agent] :
        tasks = {[id |-> i, at |-> where[i], ver |-> 1, state |-> "accepted"] : i \in 1 .. OldCount}
  BY DEF Init
<1> DEFINE task == [i \in 1 .. OldCount |->
                      [id |-> i, at |-> where[i], ver |-> 1, state |-> "accepted"]]
<1>2. task \in Surjection(1 .. OldCount, tasks)
  BY <1>1 DEF Surjection
<1>3. IsFiniteSet(tasks)
  BY <1>2, FiniteUpTo, FS_Surjection, UpdateAssumption
<1>4. \A a \in Agent : Cardinality(On(a)) \in Nat
  BY <1>3, FS_Subset, FS_CardinalityType DEF On
<1>5. tasks \subseteq Task
  BY <1>1, UpdateAssumption DEF Task
<1>6. upd \in UpdRec /\ upd.pc = "idle" /\ rec \in RecRec /\ rec.pc = "idle"
  BY DEF Init, UpdRec, UpdPC, RecRec, IdleRec, Definitions
<1>7. placed \in [Agent -> Nat] /\ neighbour \in [Agent -> Nat]
  BY <1>4 DEF Init
<1>8. store \in Definitions /\ patch \in Definitions /\ faults \in 0 .. MaxFaults
  BY UpdateAssumption DEF Init, Definitions, Definition
<1> QED
  BY <1>5, <1>6, <1>7, <1>8 DEF Init, TypeInv, TypeOK, UpdRec, UpdPC, RecRec

LEMMA TypesLast == ASSUME TypeInv, [Next]_vars PROVE TypeInv'
<1>0. TypeOK /\ faults \in 0 .. MaxFaults
  BY DEF TypeInv, TypeOK
<1>1. CASE UNCHANGED vars
  BY <1>1 DEF vars, env, job, TypeInv, TypeOK
<1>2. CASE UpdateJob \/ Updating
  <2>1. Typed /\ faults' \in 0 .. MaxFaults
    BY <1>0, <1>2, UpdateBeginsTyped, NextTyped, SendTyped, TrackNewTyped, InPlaceTyped,
       UpdateEndsTyped, RecreateTyped DEF Updating
  <2>2. UNCHANGED env /\ UNCHANGED <<rec, patch, del>>
    BY <1>2, UpdateLeaves DEF others
  <2>3. rec'.pc \notin {"idle", "unlock"} => rec'.copy # Gone
    BY <2>2 DEF TypeInv
  <2>4. starting' \subseteq 1 .. MaxTasks
    BY <1>2, <2>1, StartingTyped DEF Typed, Next
  <2> QED
    BY <1>0, <2>1, <2>2, <2>3, <2>4, TypedKeeps
<1>3. CASE ReconcileJobs \/ Reconciling
  <2>1. RecTyped /\ UNCHANGED notRec /\ faults' \in 0 .. MaxFaults
    BY <1>0, <1>3, RecBeginsTyped, RecGoesOnTyped DEF Reconciling
  <2>2. starting' \subseteq 1 .. MaxTasks
    BY <1>3, <2>1, StartingTyped DEF RecTyped, Next
  <2> QED
    BY <2>1, <2>2, RecTypedKeeps
<1> QED
  BY <1>1, <1>2, <1>3, OthersTyped DEF Next
-----------------------------------------------------------------------------
(* What an undisturbed update does.                                        *)

StandingOn(a) == On(a) \cap Standing

\* An instance is replaced in place where it is the only one of the job: all of
\* those on the agent stop.
Alone == Undisturbed /\ upd.pc = "inplace" => StandingOn(upd.cur.at) \subseteq {upd.cur}

\* Nothing goes wrong, and nobody deletes or patches.
Peace == /\ agents = Agent /\ dead = {} /\ ~ tombstone /\ patch = Gone /\ del = "idle"
         /\ store # Gone

\* Whoever dispatches has the flag, and one does.
Exclusive == (UpdateHas => flag) /\ (RecHas => flag) /\ ~ (UpdateHas /\ RecHas)

UniqueIDs == \A t, u \in tasks : t.id = u.id => t = u
Before == upd.pc \in {"idle", "lock", "ask", "fetch"}
Rolls == upd.pc \in {"store", "next", "pass", "track", "inplace", "stop", "unbook"}
HasOld == \/ upd.pc \in {"inplace", "stop", "unbook"}
          \/ upd.pc \in {"pass", "track"} /\ upd.policy = "rolling"

\* The old instances that the update still has to do have not been told to stop, and
\* are known once.
Known ==
  /\ UniqueIDs
  /\ Before => \A t \in tasks : t.state # "stopping"
  /\ upd.olds \subseteq Standing /\ upd.cur \notin upd.olds
  /\ HasOld => upd.cur # NoTask
  /\ HasOld \/ upd.pc = "unlock" \/ upd.cur = NoTask
  /\ upd.cur # NoTask /\ upd.pc # "unbook" => upd.cur \in Standing
  /\ upd.pc = "unbook" => upd.cur \in Task /\ \A t \in Standing : t.id # upd.cur.id
  /\ Before \/ upd.policy = "recreate" \/ upd.pc \in {"finish", "over"}
       => upd.olds = {} /\ upd.cur = NoTask
  /\ upd.pc \in {"wipe", "halt", "release", "resubmit", "relock"} => upd.policy = "recreate"
  /\ upd.pc \in {"ask", "fetch", "store", "next", "inplace", "stop", "unbook"}
       => upd.policy # "recreate"

\* An instance that has been accepted is on an agent.
Sited == /\ upd.pc = "track" => upd.at \in Agent
         /\ rec.pc = "track" => rec.at \in Agent

\* The books of an agent: an instance is counted after it has been accepted, and
\* struck out after it has been told to stop; a recreation strikes all of them out at once.
Coming(a) == (upd.pc = "track" /\ upd.at = a) \/ (rec.pc = "track" /\ rec.at = a)
Going(a) == upd.pc = "unbook" /\ upd.cur.at = a
Halting(a) == upd.pc = "halt" /\ a \in upd.asked
One(b) == IF b THEN 1 ELSE 0
BookOf(a) == IF Halting(a) THEN placed[a] = 0
             ELSE placed[a] + One(Coming(a)) = Cardinality(StandingOn(a)) + One(Going(a))
Books == \A a \in Agent : BookOf(a)

\* Those of the new version, and what the update has added to them.
Recruits == Standing \ (upd.olds \cup {upd.cur})
Gained == IF upd.pc \in {"pass", "inplace"} THEN upd.sent - 1
          ELSE IF upd.sent <= NewCount THEN upd.sent ELSE NewCount
Least == IF OldCount <= NewCount THEN OldCount ELSE NewCount

Serving ==
  /\ Before => Cardinality(Standing) >= OldCount /\ upd.sent = 0
  /\ upd.pc = "fetch" => \A t \in Standing : t.at \in upd.asked
  /\ Rolls => /\ Cardinality(Recruits) >= Gained
              /\ upd.policy = "rolling" => Cardinality(upd.olds) + upd.sent >= OldCount
              /\ upd.policy = "bluegreen" /\ upd.sent <= NewCount => Cardinality(upd.olds) >= OldCount
              /\ upd.policy = "bluegreen" /\ upd.pc \in {"stop", "unbook"} => upd.sent > NewCount
              /\ upd.pc \in {"pass", "track", "inplace"} => upd.sent \in 1 .. NewCount
  /\ ~ Before /\ ~ Rolls => Cardinality(Standing) >= Least

\* Instances of the old version are all on the update's list, and no reconciliation
\* is about to make more of them.
OldOnes == {t \in Standing : t.ver = 1}
Honest ==
  /\ rec.pc \in {"lock", "pass", "track"} => rec.copy.ver = 2
  /\ Rolls => OldOnes \subseteq upd.olds \cup {upd.cur}
  /\ upd.pc = "unlock" /\ upd.ok => OldOnes = {}
  /\ upd.pc = "finish" => OldOnes = {}
  /\ Definition(2, FALSE) \in {store, rec.copy} => OldOnes = {}

Calm == /\ Peace /\ Exclusive /\ Known /\ Sited /\ Books
        /\ Overlaps => Serving /\ (OldCount <= NewCount => Honest)
CalmInv == TypeInv /\ (Undisturbed => Calm)
-----------------------------------------------------------------------------
(* Sets of instances.                                                      *)

LEMMA TaskFinite == IsFiniteSet(Task)
<1> DEFINE Four == (((1 .. MaxTasks) \X Agent) \X {1, 2})
                   \X {"accepted", "replacing", "stopping"}
           task(x) == [id |-> x[1][1][1], at |-> x[1][1][2], ver |-> x[1][2], state |-> x[2]]
           of == [x \in Four |-> task(x)]
<1>1. IsFiniteSet(1 .. MaxTasks) /\ IsFiniteSet(Agent)
  BY UpdateAssumption, FS_Interval
<1>2. IsFiniteSet({1, 2}) /\ IsFiniteSet({"accepted", "replacing", "stopping"})
  <2> DEFINE Standing2 == {"accepted"} \cup {"replacing"}
  <2>1. IsFiniteSet({1}) /\ IsFiniteSet({"accepted"})
    BY FS_Singleton
  <2>2. IsFiniteSet({1} \cup {2}) /\ IsFiniteSet(Standing2)
    BY <2>1, FS_AddElement
  <2>3. IsFiniteSet(Standing2 \cup {"stopping"})
    BY <2>2, FS_AddElement
  <2>4. /\ {1} \cup {2} = {1, 2}
        /\ Standing2 \cup {"stopping"} = {"accepted", "replacing", "stopping"}
    OBVIOUS
  <2> QED
    BY <2>2, <2>3, <2>4
<1>3. IsFiniteSet((1 .. MaxTasks) \X Agent)
  BY <1>1, FS_Product
<1>4. IsFiniteSet(((1 .. MaxTasks) \X Agent) \X {1, 2})
  BY <1>2, <1>3, FS_Product
<1>5. IsFiniteSet(Four)
  BY <1>2, <1>4, FS_Product
<1>6. of \in [Four -> Task]
  BY DEF Task
<1>7. ASSUME NEW t \in Task PROVE \E x \in Four : of[x] = t
  <2> DEFINE y == <<<<<<t.id, t.at>>, t.ver>>, t.state>>
  <2>1. y \in Four
    BY <1>7 DEF Task
  <2>2. of[y] = [id |-> t.id, at |-> t.at, ver |-> t.ver, state |-> t.state]
    BY <2>1
  <2>3. of[y] = t
    BY <1>7, <2>2 DEF Task
  <2> QED
    BY <2>1, <2>3
<1>8. of \in Surjection(Four, Task)
  BY <1>6, <1>7 DEF Surjection
<1> QED
  BY <1>5, <1>8, FS_Surjection

LEMMA Finite ==
  ASSUME NEW S \in SUBSET Task
  PROVE  IsFiniteSet(S) /\ Cardinality(S) \in Nat
BY TaskFinite, FS_Subset, FS_CardinalityType

LEMMA Smaller ==
  ASSUME NEW S \in SUBSET Task, NEW T \in SUBSET S
  PROVE  Cardinality(T) <= Cardinality(S)
BY Finite, FS_Subset

LEMMA OneMore ==
  ASSUME NEW S \in SUBSET Task, NEW t, t \notin S
  PROVE  Cardinality(S \cup {t}) = Cardinality(S) + 1
BY Finite, FS_AddElement

LEMMA OneLess ==
  ASSUME NEW S \in SUBSET Task, NEW t \in S
  PROVE  Cardinality(S \ {t}) = Cardinality(S) - 1
BY Finite, FS_RemoveElement

LEMMA NoneAndOne == Cardinality({}) = 0 /\ \A t : Cardinality({t}) = 1
BY FS_EmptySet, FS_Singleton

\* No instance is the absent one.
LEMMA NoTaskIsNone == NoTask \notin Task
BY DEF NoTask, Task

LEMMA StandingTyped ==
  ASSUME TypeOK
  PROVE  /\ Standing \in SUBSET Task /\ \A a : StandingOn(a) \in SUBSET Task /\ StandingOn(a) \in SUBSET Standing
         /\ \A t \in Standing : t \in tasks /\ t.state # "stopping" /\ t.at \in Agent /\ t \in StandingOn(t.at)
         /\ \A a : StandingOn(a) = {t \in Standing : t.at = a}
BY DEF TypeOK, Standing, StandingOn, On, Task

\* An instance is accepted.
Joins(n) == /\ n \in Task /\ n.state # "stopping" /\ n \notin tasks
            /\ \A t \in tasks \cup upd.olds \cup {upd.cur} : t.id # n.id
            /\ tasks' = tasks \cup {n}

LEMMA JoinsStanding ==
  ASSUME TypeOK, NEW n, Joins(n)
  PROVE  /\ Standing' = Standing \cup {n} /\ n \notin Standing /\ n \notin upd.olds \cup {upd.cur}
         /\ UniqueIDs => UniqueIDs'
         /\ \A a : StandingOn(a)' = IF n.at = a THEN StandingOn(a) \cup {n} ELSE StandingOn(a)
<1>1. Standing' = Standing \cup {n} /\ n \notin Standing
  BY DEF Joins, Standing
<1>2. n \notin upd.olds \cup {upd.cur}
  BY DEF Joins
<1>3. UniqueIDs => UniqueIDs'
  BY DEF Joins, UniqueIDs
<1>4. \A a : StandingOn(a)' = IF n.at = a THEN StandingOn(a) \cup {n} ELSE StandingOn(a)
  BY DEF Joins, StandingOn, On, Standing
<1> QED
  BY <1>1, <1>2, <1>3, <1>4

\* An instance is gone.
Leaves(t) == tasks' = tasks \ {t}

LEMMA LeavesStanding ==
  ASSUME TypeOK, NEW t \in tasks, Leaves(t)
  PROVE  /\ Standing' = Standing \ {t} /\ (UniqueIDs => UniqueIDs')
         /\ \A a : StandingOn(a)' = StandingOn(a) \ {t}
         /\ UniqueIDs => \A u \in tasks' : u.id # t.id
BY DEF Leaves, Standing, StandingOn, On, UniqueIDs

\* An instance is told to stop.
Halts(t) == tasks' = {IF u.id = t.id THEN Stopped(u) ELSE u : u \in tasks}

LEMMA HaltsStanding ==
  ASSUME TypeOK, UniqueIDs, NEW t \in Standing, Halts(t)
  PROVE  /\ Standing' = Standing \ {t} /\ UniqueIDs'
         /\ \A a : StandingOn(a)' = StandingOn(a) \ {t}
         /\ \A u \in Standing' : u.id # t.id
<1> DEFINE halt(u) == IF u.id = t.id THEN Stopped(u) ELSE u
<1>1. tasks' = {halt(u) : u \in tasks}
  BY DEF Halts
<1>2. \A u \in tasks : /\ halt(u).id = u.id /\ halt(u).at = u.at
                       /\ u.id = t.id => halt(u).state = "stopping"
                       /\ u.id # t.id => halt(u) = u
  BY DEF TypeOK, Task, Stopped
<1> HIDE DEF halt
<1>3. \A u \in tasks : u.id = t.id <=> u = t
  BY DEF UniqueIDs, Standing
<1>4. ASSUME NEW u PROVE u \in Standing' <=> u \in Standing \ {t}
  BY <1>1, <1>2, <1>3 DEF Standing
<1>5. Standing' = Standing \ {t}
  BY <1>4
<1>6. UniqueIDs'
  BY <1>1, <1>2 DEF UniqueIDs
<1>7. ASSUME NEW a PROVE StandingOn(a)' = StandingOn(a) \ {t}
  <2>1. StandingOn(a)' = {u \in Standing' : u.at = a} /\ StandingOn(a) = {u \in Standing : u.at = a}
    BY DEF StandingOn, On, Standing
  <2> QED
    BY <1>5, <2>1
<1>8. \A u \in Standing' : u.id # t.id
  BY <1>3, <1>5 DEF Standing
<1> QED
  BY <1>5, <1>6, <1>7, <1>8

LEMMA SameStanding ==
  ASSUME tasks' = tasks
  PROVE  Standing' = Standing /\ UniqueIDs' = UniqueIDs /\ \A a : StandingOn(a)' = StandingOn(a)
BY DEF Standing, StandingOn, On, UniqueIDs

\* All of an agent's instances are told to stop, and a new one is accepted.
LEMMA ReplaceStanding ==
  ASSUME TypeOK, UniqueIDs, NEW b \in Agent, Replace(b)
  PROVE  \E n \in Task : /\ n.at = b /\ n.ver = 2
                         /\ n \notin Standing /\ n \notin upd.olds \cup {upd.cur}
                         /\ Standing' = (Standing \ StandingOn(b)) \cup {n}
                         /\ UniqueIDs'
                         /\ \A a : StandingOn(a)' = IF a = b THEN {n} ELSE StandingOn(a)
<1> DEFINE n == NewTask(b, 2, "replacing")
           halt(t) == IF t.at = b THEN Stopped(t) ELSE t
<1>1. tasks' = {halt(t) : t \in tasks} \cup {n}
  BY DEF Replace
<1>2. /\ n \in Task /\ n.at = b /\ n.ver = 2 /\ n.state # "stopping"
      /\ \A t \in tasks \cup upd.olds \cup {upd.cur} : t.id # n.id
  BY NewTaskTyped DEF Replace
<1> HIDE DEF n
<1>3. \A t \in tasks : /\ halt(t).id = t.id /\ halt(t).at = t.at
                       /\ t.at = b => halt(t).state = "stopping"
                       /\ t.at # b => halt(t) = t
  BY DEF TypeOK, Task, Stopped
<1> HIDE DEF halt
<1>4. ASSUME NEW t PROVE t \in Standing' <=> t \in (Standing \ StandingOn(b)) \cup {n}
  BY <1>1, <1>2, <1>3 DEF Standing, StandingOn, On
<1>5. Standing' = (Standing \ StandingOn(b)) \cup {n}
  BY <1>4
<1>6. UniqueIDs'
  BY <1>1, <1>2, <1>3 DEF UniqueIDs
<1>7. ASSUME NEW a PROVE StandingOn(a)' = IF a = b THEN {n} ELSE StandingOn(a)
  <2>1. StandingOn(a)' = {t \in Standing' : t.at = a}
    BY DEF StandingOn, On, Standing
  <2>2. StandingOn(a) = {t \in Standing : t.at = a} /\ StandingOn(b) = {t \in Standing : t.at = b}
    BY DEF StandingOn, On, Standing
  <2> QED
    BY <1>2, <1>5, <2>1, <2>2
<1>8. n \notin Standing /\ n \notin upd.olds \cup {upd.cur}
  BY <1>2 DEF Standing
<1> QED
  BY <1>2, <1>5, <1>6, <1>7, <1>8

\* In peace a pass that does not end finds an agent full, or gets what it wants.
FindsFull(g, h, a) == h = [g EXCEPT !.untried = @ \ {a}, !.full = TRUE]
Succeeds(g, h, a) == h = [g EXCEPT !.untried = @ \ {a}, !.pc = "track", !.at = a]

LEMMA PeacefulOffer ==
  ASSUME TypeOK, Peace, Undisturbed', NEW g, NEW h, NEW v \in {1, 2}, Offer(g, h, v)
  PROVE  \E a \in Agent :
           \/ FindsFull(g, h, a) /\ tasks' = tasks
           \/ /\ Succeeds(g, h, a)
              /\ \E n : Joins(n) /\ n.at = a /\ n.ver = v
<1>1. PICK a \in g.untried \cap agents :
        LET on == [g EXCEPT !.untried = @ \ {a}] IN
        \/ Refuse(a) /\ h = [on EXCEPT !.full = TRUE]
        \/ /\ Accept(a, v)
           /\ \/ h = [on EXCEPT !.pc = "track", !.at = a]
              \/ Fault
  BY DEF Offer, Peace
<1>2. ~ Fault /\ a \in Agent
  BY UpdateAssumption DEF Fault, Undisturbed, TypeOK
<1>3. ASSUME Accept(a, v)
      PROVE  \E n : Joins(n) /\ n.at = a /\ n.ver = v
  <2> DEFINE n == NewTask(a, v, "accepted")
  <2>1. tasks' = tasks \cup {n} /\ FreshIDs # {}
    BY <1>3 DEF Accept
  <2>2. /\ n \in Task /\ n.at = a /\ n.ver = v /\ n.state # "stopping"
        /\ \A t \in tasks \cup upd.olds \cup {upd.cur} : t.id # n.id
    BY <1>2, <2>1, NewTaskTyped
  <2> HIDE DEF n
  <2>3. Joins(n)
    BY <2>1, <2>2 DEF Joins
  <2> QED
    BY <2>2, <2>3
<1> DEFINE on == [g EXCEPT !.untried = @ \ {a}]
<1>4. CASE Refuse(a) /\ h = [on EXCEPT !.full = TRUE]
  BY <1>2, <1>4 DEF Refuse, FindsFull
<1>5. CASE Accept(a, v) /\ h = [on EXCEPT !.pc = "track", !.at = a]
  <2>1. Succeeds(g, h, a)
    BY <1>5 DEF Succeeds
  <2> QED
    BY <1>2, <1>3, <1>5, <2>1
<1> QED
  BY <1>1, <1>2, <1>4, <1>5

-----------------------------------------------------------------------------
(* The steps of the update, in peace.                                      *)

\* Before and after a step that disturbs nothing.
Undisturbing == /\ TypeInv /\ TypeInv' /\ Undisturbed /\ Undisturbed'
                /\ Peace /\ Exclusive /\ Known /\ Sited /\ Books

From(pc, then) == upd.pc = pc /\ upd'.pc = then
Steady == tasks' = tasks /\ placed' = placed
\* The list and the instance in hand stay, and the number of new ones.
Kept == upd'.olds = upd.olds /\ upd'.cur = upd.cur
KeptAll == Kept /\ upd'.sent = upd.sent

Begins ==
  /\ Steady /\ KeptAll
  /\ \/ From("idle", "lock")
     \/ From("lock", "idle")
     \/ From("lock", "ask") /\ upd.policy # "recreate"
     \/ From("lock", "wipe") /\ upd.policy = "recreate"
     \/ From("ask", "fetch") /\ upd'.asked = {a \in Agent : placed[a] > 0}
Fetches ==
  /\ Steady /\ From("fetch", "store") /\ upd'.cur = upd.cur /\ upd'.sent = upd.sent
  /\ upd'.olds = {t \in tasks : t.at \in upd.asked}
Proceeds ==
  /\ Steady /\ KeptAll
  /\ \/ From("store", "next") \/ From("pass", "pass") \/ From("finish", "over")
     \/ From("release", "resubmit") \/ From("resubmit", "relock") \/ From("relock", "finish")
PicksOld(t) ==
  /\ Steady /\ upd.pc = "next"
  /\ upd'.cur = t /\ upd'.olds = upd.olds \ {t} /\ upd'.sent = upd.sent + 1
  /\ \/ upd'.pc = "pass" /\ upd.policy = "rolling" /\ upd.sent < NewCount
     \/ upd'.pc = "stop" /\ upd.sent >= NewCount
AsksForNew ==
  /\ Steady /\ Kept /\ From("next", "pass")
  /\ upd.policy = "bluegreen" /\ upd.sent < NewCount /\ upd'.sent = upd.sent + 1
RunsOut ==
  /\ Steady /\ KeptAll /\ From("next", "unlock") /\ upd.olds = {}
  /\ upd.policy = "rolling" \/ upd.sent >= NewCount
Gains(a) ==
  /\ placed' = placed /\ KeptAll /\ From("pass", "track") /\ upd'.at = a
  /\ \E n : Joins(n) /\ n.at = a /\ n.ver = 2
Counts ==
  /\ tasks' = tasks /\ Kept /\ upd.pc = "track"
  /\ placed' = [placed EXCEPT ![upd.at] = @ + 1]
  /\ \/ upd.policy = "rolling" /\ upd'.pc = "stop" /\ upd'.sent = upd.sent
     \/ upd.policy = "bluegreen" /\ upd'.pc = "next" /\ upd'.sent = upd.sent
     \/ upd.policy \notin {"rolling", "bluegreen"} /\ upd'.pc \in {"pass", "unlock"}
GivesUp ==
  /\ Steady /\ KeptAll
  /\ \/ From("pass", "inplace") /\ upd.policy = "rolling"
     \/ upd.pc \in {"pass", "inplace"} /\ upd'.pc = "unlock" /\ ~ upd'.ok
\* The agent's instance, the only one of the job, makes way for a new one.
Swaps ==
  /\ placed' = placed /\ From("inplace", "next")
  /\ upd'.olds = upd.olds /\ upd'.cur = NoTask /\ upd'.sent = upd.sent
  /\ StandingOn(upd.cur.at) = {upd.cur}
  /\ \E n \in Task : /\ n.at = upd.cur.at /\ n.ver = 2
                     /\ n \notin Standing /\ n \notin upd.olds \cup {upd.cur}
                     /\ Standing' = (Standing \ {upd.cur}) \cup {n} /\ UniqueIDs'
                     /\ \A a : StandingOn(a)' = IF a = upd.cur.at THEN {n} ELSE StandingOn(a)
Stops ==
  /\ placed' = placed /\ KeptAll /\ From("stop", "unbook")
  /\ upd.cur \in Standing /\ Halts(upd.cur)
Strikes ==
  /\ tasks' = tasks /\ From("unbook", "next")
  /\ upd'.olds = upd.olds /\ upd'.cur = NoTask /\ upd'.sent = upd.sent
  /\ placed' = [placed EXCEPT ![upd.cur.at] = IF @ > 0 THEN @ - 1 ELSE 0]
Returns ==
  /\ Steady /\ upd.pc = "unlock" /\ upd'.olds = {} /\ upd'.cur = NoTask
  /\ \/ upd'.pc = "over"
     \/ upd'.pc = "finish" /\ upd.ok
Wipes ==
  /\ tasks' = tasks /\ Kept /\ From("wipe", "halt")
  /\ upd'.asked = {a \in Agent : placed[a] > 0} /\ placed' = [a \in Agent |-> 0]
HaltsOn(b) ==
  /\ placed' = placed /\ Kept /\ From("halt", "halt")
  /\ b \in upd.asked /\ upd'.asked = upd.asked \ {b} /\ tasks' = tasks \ On(b)
Restarts ==
  /\ Steady /\ Kept
  /\ \/ From("halt", "release") /\ upd.asked = {}
     \/ From("relock", "pass")

Stored == \/ store' = store
          \/ store' = Definition(2, TRUE)
          \/ upd.pc = "finish" /\ store' = Definition(2, FALSE)
UpdateStep ==
  /\ rec' = rec /\ upd'.policy = upd.policy /\ Stored
  /\ \/ Begins \/ Fetches \/ Proceeds
     \/ \E t \in upd.olds : PicksOld(t)
     \/ AsksForNew \/ RunsOut
     \/ \E a \in Agent : Gains(a)
     \/ Counts \/ GivesUp \/ Swaps \/ Stops \/ Strikes \/ Returns \/ Wipes
     \/ \E b \in Agent : HaltsOn(b)
     \/ Restarts

LEMMA PeaceLasts ==
  ASSUME Undisturbing, UpdateJob \/ Updating \/ ReconcileJobs \/ Reconciling
  PROVE  Peace'
<1>0. /\ Peace /\ (rec.pc = "renumber" => rec.copy # Gone)
      /\ \A d : Definition(2, d) # Gone
  BY DEF Undisturbing, TypeInv, Definition, Gone
<1>1. /\ UNCHANGED <<env, patch, del>> /\ (UNCHANGED tombstone \/ tombstone' = FALSE)
      /\ store' # Gone
  <2>1. CASE UpdateJob \/ Updating
    BY <1>0, <2>1 DEF Updating, UpdateJob, LockJob, AskAgents, FetchTasks, StoreNew, RollNext,
      BlueGreenNext, SendNew, TrackNew, NoRoom, InPlace, StopOld, Unbook, UnlockJob, Finish,
      WipePlaced, HaltTasks, ReleaseFlag, Resubmit, Relock, others, job, Peace
  <2>2. CASE ReconcileJobs \/ Reconciling
    BY <1>0, <2>2 DEF Reconciling, ReconcileJobs, NormalizePriorities, CheckFlag, CountPlaced,
      LockInstances, SendMissing, TrackMissing, NoneTakesIt, UnlockInstances, notRec, job, Peace
  <2> QED
    BY <2>1, <2>2
<1> QED
  BY <1>0, <1>1 DEF Peace, env

\* The flag is taken when it is free, and given back.
Turn(has, hasNow) == \/ (hasNow <=> has) /\ (flag' <=> flag)
                     \/ ~ flag /\ hasNow /\ flag'
                     \/ has /\ ~ hasNow /\ ~ flag'

LEMMA UpdateTurns ==
  ASSUME TypeInv, UpdateJob \/ Updating
  PROVE  Turn(UpdateHas, UpdateHas') /\ rec' = rec
<1>0. upd \in UpdRec /\ rec' = rec
  BY RecordTypes, UpdateLeaves DEF TypeInv, others
<1>1. CASE LockJob
  <2>1. upd.pc = "lock" /\ flag' = TRUE
    BY <1>1 DEF LockJob
  <2>2. CASE flag
    BY <1>0, <1>1, <2>1, <2>2 DEF LockJob, Goto, UpdateHas, Turn, UpdRec
  <2>3. CASE ~ flag
    <3>1. Goto("wipe") \/ Goto("ask")
      BY <1>1, <2>3 DEF LockJob
    <3> QED
      BY <1>0, <2>1, <2>3, <3>1 DEF Goto, UpdateHas, Turn, UpdRec
  <2> QED
    BY <2>2, <2>3
<1>2. CASE Relock
  <2>1. upd.pc = "relock" /\ flag' = TRUE
        /\ upd' = IF flag THEN [upd EXCEPT !.pc = "finish"] ELSE [Pass(upd) EXCEPT !.sent = 1]
    BY <1>2 DEF Relock
  <2> QED
    BY <1>0, <2>1 DEF Pass, UpdateHas, Turn, UpdRec
<1>3. CASE UnlockJob
  <2>1. upd.pc = "unlock" /\ flag' = FALSE /\ (Return("finish") \/ Return("over"))
    BY <1>3, Zenon DEF UnlockJob
  <2> QED
    BY <1>0, <2>1 DEF Return, UpdateHas, Turn, UpdRec
<1>4. CASE ReleaseFlag
  BY <1>0, <1>4 DEF ReleaseFlag, Goto, UpdateHas, Turn, UpdRec
<1>5. ASSUME flag' = flag, UpdateHas' <=> UpdateHas PROVE Turn(UpdateHas, UpdateHas')
  BY <1>5 DEF Turn
<1> USE <1>0 DEF UpdateHas, Goto, PassTo, ToUpd, NextFrom, UpdRec, job
<1>6. CASE UpdateJob \/ AskAgents \/ FetchTasks \/ StoreNew \/ Unbook \/ Finish \/ Resubmit \/ WipePlaced
  BY <1>5, <1>6, ZenonT(30) DEF UpdateJob, AskAgents, FetchTasks, StoreNew, Unbook, Finish, Resubmit, WipePlaced
<1>7. CASE RollNext \/ BlueGreenNext
  <2>1. upd.pc = "next" /\ flag' = flag
    BY <1>7 DEF RollNext, BlueGreenNext
  <2>2. UpdateHas'
    BY <1>7, ZenonT(30) DEF RollNext, BlueGreenNext, NextOld, Pass
  <2> QED
    BY <1>5, <2>1, <2>2
<1>8. CASE SendNew
  BY <1>5, <1>8 DEF SendNew, Offer
<1>9. CASE TrackNew
  <2>1. upd.pc = "track" /\ flag' = flag
    BY <1>9 DEF TrackNew
  <2>2. \/ PassTo("stop", TRUE) \/ PassTo("next", TRUE) \/ PassTo("unlock", TRUE)
        \/ upd' = [Pass(upd) EXCEPT !.sent = @ + 1, !.at = NoAgent]
    BY <1>9 DEF TrackNew
  <2>3. UpdateHas'
    BY <2>2, ZenonT(30) DEF Pass
  <2> QED
    BY <1>5, <2>1, <2>3
<1>10. CASE NoRoom
  <2>1. upd.pc = "pass" /\ flag' = flag /\ (PassTo("inplace", TRUE) \/ PassTo("unlock", FALSE))
    BY <1>10, Zenon DEF NoRoom, PassOver
  <2>2. CASE PassTo("inplace", TRUE)
    BY <1>5, <2>1, <2>2
  <2>3. CASE PassTo("unlock", FALSE)
    BY <1>5, <2>1, <2>3
  <2> QED
    BY <2>1, <2>2, <2>3
<1>11. CASE InPlace
  <2>1. upd.pc = "inplace" /\ flag' = flag /\ (upd' = NextFrom(upd) \/ PassTo("unlock", FALSE))
    BY <1>11 DEF InPlace
  <2> QED
    BY <1>5, <2>1, ZenonT(30)
<1>12. CASE StopOld
  BY <1>5, <1>12 DEF StopOld
<1>13. CASE HaltTasks
  <2>1. upd.pc = "halt" /\ flag' = flag
        /\ (Goto("release") \/ \E a \in upd.asked : upd' = [upd EXCEPT !.asked = @ \ {a}])
    BY <1>13 DEF HaltTasks
  <2> QED
    BY <1>5, <2>1
<1> QED
  BY <1>0, <1>1, <1>2, <1>3, <1>4, <1>6, <1>7, <1>8, <1>9, <1>10, <1>11, <1>12, <1>13 DEF Updating

\* Every step of UpdateJob is one of these.
LEMMA StartSteps ==
  ASSUME Undisturbing, \/ UpdateJob \/ LockJob \/ AskAgents \/ FetchTasks \/ StoreNew
                       \/ UnlockJob \/ Finish \/ WipePlaced \/ ReleaseFlag \/ Resubmit \/ Relock
  PROVE  UpdateStep
<1>0. /\ upd \in UpdRec /\ rec' = rec /\ agents = Agent /\ dead = {} /\ store # Gone
  BY RecordTypes, UpdateLeaves DEF Undisturbing, TypeInv, Peace, others, Updating
<1> USE <1>0 DEF UpdateStep, Stored, From, Steady, Kept, KeptAll, job
<1>1. CASE UpdateJob
  BY <1>1 DEF UpdateJob, Goto, Begins, UpdRec
<1>2. CASE LockJob
  <2>1. \/ Goto("idle")
        \/ Goto("ask") /\ upd.policy # "recreate"
        \/ Goto("wipe") /\ upd.policy = "recreate"
    BY <1>2 DEF LockJob
  <2>2. upd.pc = "lock" /\ tasks' = tasks /\ placed' = placed /\ store' = store
    BY <1>2 DEF LockJob
  <2>3. CASE Goto("idle")
    BY <2>2, <2>3 DEF Goto, Begins, UpdRec
  <2>4. CASE Goto("ask") /\ upd.policy # "recreate"
    BY <2>2, <2>4 DEF Goto, Begins, UpdRec
  <2>5. CASE Goto("wipe") /\ upd.policy = "recreate"
    BY <2>2, <2>5 DEF Goto, Begins, UpdRec
  <2> QED
    BY <2>1, <2>3, <2>4, <2>5
<1>3. CASE AskAgents
  <2>1. upd' = [upd EXCEPT !.pc = "fetch", !.asked = {a \in Agent : placed[a] > 0}]
    BY <1>3 DEF AskAgents
  <2> QED
    BY <1>3, <2>1 DEF AskAgents, Begins, UpdRec
<1>4. CASE FetchTasks
  <2>0. ~ Fault
    BY DEF Undisturbing, Undisturbed, Fault
  <2>1. upd' = [upd EXCEPT !.pc = "store", !.asked = {}, !.olds = {t \in tasks : t.at \in upd.asked}]
    BY <1>4, <2>0 DEF FetchTasks
  <2> QED
    BY <1>4, <2>1 DEF FetchTasks, Fetches, UpdRec
<1>5. CASE StoreNew \/ Finish \/ ReleaseFlag \/ Resubmit
  BY <1>5 DEF StoreNew, Finish, ReleaseFlag, Resubmit, Goto, Proceeds, UpdRec
<1>6. CASE UnlockJob
  <2>1. /\ upd.pc = "unlock" /\ tasks' = tasks /\ placed' = placed /\ store' = store
        /\ \/ Return("finish") /\ upd.ok
           \/ Return("over")
    BY <1>6, Zenon DEF UnlockJob
  <2> QED
    BY <2>1 DEF Return, Returns, UpdRec
<1>7. CASE WipePlaced
  BY <1>7 DEF WipePlaced, Wipes, UpdRec
<1>8. CASE Relock
  <2>1. /\ upd.pc = "relock" /\ tasks' = tasks /\ placed' = placed /\ store' = store
        /\ \/ upd' = [upd EXCEPT !.pc = "finish"]
           \/ upd' = [upd EXCEPT !.pc = "pass", !.untried = agents, !.full = FALSE, !.sent = 1]
    BY <1>8 DEF Relock, Pass, UpdRec
  <2>2. CASE upd' = [upd EXCEPT !.pc = "finish"]
    BY <2>1, <2>2 DEF Proceeds, UpdRec
  <2>3. CASE upd' = [upd EXCEPT !.pc = "pass", !.untried = agents, !.full = FALSE, !.sent = 1]
    BY <2>1, <2>3 DEF Restarts, UpdRec
  <2> QED
    BY <2>1, <2>2, <2>3
<1> QED
  BY <1>1, <1>2, <1>3, <1>4, <1>5, <1>6, <1>7, <1>8

LEMMA NextSteps ==
  ASSUME Undisturbing, RollNext \/ BlueGreenNext
  PROVE  UpdateStep
<1>0. /\ upd \in UpdRec /\ rec' = rec /\ upd.sent \in Nat
      /\ upd.pc = "next" /\ tasks' = tasks /\ placed' = placed /\ store' = store
  BY RecordTypes, UpdateLeaves DEF Undisturbing, TypeInv, others, Updating, RollNext,
    BlueGreenNext, UpdRec, job
<1>1. \/ upd.olds = {} /\ Goto("unlock") /\ (upd.policy = "rolling" \/ upd.sent >= NewCount)
      \/ upd.policy = "rolling" /\ upd.sent < NewCount /\ NextOld("pass")
      \/ upd.policy = "bluegreen" /\ upd.sent < NewCount /\ upd' = [Pass(upd) EXCEPT !.sent = @ + 1]
      \/ upd.sent >= NewCount /\ NextOld("stop")
  BY DEF RollNext, BlueGreenNext
<1> USE <1>0 DEF UpdateStep, Stored, From, Steady, Kept, KeptAll
<1>2. CASE upd.olds = {} /\ Goto("unlock") /\ (upd.policy = "rolling" \/ upd.sent >= NewCount)
  BY <1>2 DEF RunsOut, Goto, UpdRec
<1>3. CASE upd.policy = "bluegreen" /\ upd.sent < NewCount /\ upd' = [Pass(upd) EXCEPT !.sent = @ + 1]
  BY <1>3 DEF AsksForNew, Pass, UpdRec
<1>4. CASE upd.policy = "rolling" /\ upd.sent < NewCount /\ NextOld("pass")
  <2>1. PICK t \in upd.olds :
          upd' = [Pass(upd) EXCEPT !.cur = t, !.olds = @ \ {t}, !.sent = @ + 1]
    BY <1>4 DEF NextOld
  <2>2. PicksOld(t) /\ upd'.policy = upd.policy
    BY <1>4, <2>1 DEF PicksOld, Pass, UpdRec
  <2> QED
    BY <2>2
<1>5. CASE upd.sent >= NewCount /\ NextOld("stop")
  <2>1. PICK t \in upd.olds :
          upd' = [[upd EXCEPT !.pc = "stop"] EXCEPT !.cur = t, !.olds = @ \ {t}, !.sent = @ + 1]
    BY <1>5 DEF NextOld
  <2>2. PicksOld(t) /\ upd'.policy = upd.policy
    BY <1>5, <2>1 DEF PicksOld, UpdRec
  <2> QED
    BY <2>2
<1> QED
  BY <1>1, <1>2, <1>3, <1>4, <1>5

LEMMA PassSteps ==
  ASSUME Undisturbing, SendNew \/ TrackNew \/ NoRoom
  PROVE  UpdateStep
<1>0. /\ upd \in UpdRec /\ rec' = rec /\ placed \in [Agent -> Nat] /\ TypeOK
      /\ store' = store
  BY RecordTypes, UpdateLeaves DEF Undisturbing, TypeInv, TypeOK, others, Updating, SendNew,
    TrackNew, NoRoom, job
<1> USE <1>0 DEF UpdateStep, Stored, From, Steady, Kept, KeptAll
<1>1. CASE SendNew
  <2>0. upd.pc = "pass" /\ placed' = placed
    BY <1>1 DEF SendNew
  <2>1. Peace /\ Undisturbed' /\ Offer(upd, upd', 2)
    BY <1>1 DEF SendNew, Undisturbing
  <2>2. PICK a \in Agent :
          \/ FindsFull(upd, upd', a) /\ tasks' = tasks
          \/ /\ Succeeds(upd, upd', a)
             /\ \E n : Joins(n) /\ n.at = a /\ n.ver = 2
    <3>1. 2 \in {1, 2}
      OBVIOUS
    <3> HIDE DEF UpdateStep, Stored, From, Steady, Kept, KeptAll
    <3> QED
      BY <2>1, <3>1, PeacefulOffer
  <2>3. CASE FindsFull(upd, upd', a) /\ tasks' = tasks
    BY <2>0, <2>3 DEF FindsFull, Proceeds, UpdRec
  <2>4. CASE /\ Succeeds(upd, upd', a)
             /\ \E n : Joins(n) /\ n.at = a /\ n.ver = 2
    <3>1. /\ upd'.pc = "track" /\ upd'.at = a /\ upd'.olds = upd.olds /\ upd'.cur = upd.cur
          /\ upd'.sent = upd.sent /\ upd'.policy = upd.policy
      BY <2>4 DEF Succeeds, UpdRec
    <3>2. Gains(a)
      BY <2>0, <2>4, <3>1 DEF Gains
    <3> QED
      BY <3>1, <3>2
  <2> QED
    BY <2>2, <2>3, <2>4
<1>2. CASE TrackNew
  <2>1. /\ upd.pc = "track" /\ tasks' = tasks /\ placed' = [placed EXCEPT ![upd.at] = @ + 1]
    BY <1>2 DEF TrackNew, Track
  <2>2. \/ upd.policy = "rolling" /\ PassTo("stop", TRUE)
        \/ upd.policy = "bluegreen" /\ PassTo("next", TRUE)
        \/ /\ upd.policy \notin {"rolling", "bluegreen"}
           /\ \/ PassTo("unlock", TRUE)
              \/ upd' = [Pass(upd) EXCEPT !.sent = @ + 1, !.at = NoAgent]
    BY <1>2 DEF TrackNew
  <2>3. CASE upd.policy = "rolling" /\ PassTo("stop", TRUE)
    BY <2>1, <2>3 DEF Counts, PassTo, UpdRec
  <2>4. CASE upd.policy = "bluegreen" /\ PassTo("next", TRUE)
    BY <2>1, <2>4 DEF Counts, PassTo, UpdRec
  <2>5. CASE upd.policy \notin {"rolling", "bluegreen"} /\ PassTo("unlock", TRUE)
    BY <2>1, <2>5 DEF Counts, PassTo, UpdRec
  <2>6. CASE /\ upd.policy \notin {"rolling", "bluegreen"}
             /\ upd' = [Pass(upd) EXCEPT !.sent = @ + 1, !.at = NoAgent]
    BY <2>1, <2>6 DEF Counts, Pass, UpdRec
  <2> QED
    BY <2>2, <2>3, <2>4, <2>5, <2>6
<1>3. CASE NoRoom
  <2>1. /\ upd.pc = "pass" /\ tasks' = tasks /\ placed' = placed
        /\ \/ upd.policy = "rolling" /\ PassTo("inplace", TRUE)
           \/ PassTo("unlock", FALSE)
    BY <1>3, Zenon DEF NoRoom, PassOver
  <2>2. CASE upd.policy = "rolling" /\ PassTo("inplace", TRUE)
    BY <2>1, <2>2 DEF GivesUp, PassTo, UpdRec
  <2>3. CASE PassTo("unlock", FALSE)
    BY <2>1, <2>3 DEF GivesUp, PassTo, UpdRec
  <2> QED
    BY <2>1, <2>2, <2>3
<1> QED
  BY <1>1, <1>2, <1>3

LEMMA InPlaceSteps ==
  ASSUME Undisturbing, Alone, InPlace
  PROVE  UpdateStep
<1>0. /\ Known /\ TypeOK /\ dead = {} /\ ~ tombstone /\ upd.pc = "inplace" /\ upd \in UpdRec
      /\ Undisturbed /\ Undisturbed' /\ faults \in Nat /\ placed' = placed /\ store' = store
      /\ rec' = rec
  BY RecordTypes, UpdateLeaves DEF Undisturbing, TypeInv, TypeOK, Peace, InPlace, others,
    Updating, job
<1>1. upd.cur \in Standing /\ upd.cur.at \in Agent /\ upd.cur \in StandingOn(upd.cur.at)
  BY <1>0, StandingTyped DEF Known, HasOld
<1>2. StandingOn(upd.cur.at) = {upd.cur}
  BY <1>0, <1>1 DEF Alone
<1>3. ~ Fault
  BY <1>0 DEF Fault, Undisturbed
<1>4. \/ Replace(upd.cur.at) /\ upd' = NextFrom(upd)
      \/ PassTo("unlock", FALSE) /\ tasks' = tasks
  BY <1>3 DEF InPlace, ToUpd
<1>5. CASE Replace(upd.cur.at) /\ upd' = NextFrom(upd)
  <2>1. PICK n \in Task : /\ n.at = upd.cur.at /\ n.ver = 2
                          /\ n \notin Standing /\ n \notin upd.olds \cup {upd.cur}
                          /\ Standing' = (Standing \ StandingOn(upd.cur.at)) \cup {n}
                          /\ UniqueIDs'
                          /\ \A a : StandingOn(a)' = IF a = upd.cur.at THEN {n} ELSE StandingOn(a)
    BY <1>0, <1>1, <1>5, ReplaceStanding DEF Known
  <2>2. /\ upd'.pc = "next" /\ upd'.olds = upd.olds /\ upd'.cur = NoTask
        /\ upd'.sent = upd.sent /\ upd'.policy = upd.policy
    BY <1>0, <1>5 DEF NextFrom, UpdRec
  <2>3. Standing' = (Standing \ {upd.cur}) \cup {n}
    BY <1>2, <2>1
  <2>4. Swaps
    BY <1>0, <1>2, <2>1, <2>2, <2>3 DEF Swaps, From
  <2> QED
    BY <1>0, <2>2, <2>4 DEF UpdateStep, Stored
<1>6. CASE PassTo("unlock", FALSE) /\ tasks' = tasks
  BY <1>0, <1>6 DEF PassTo, UpdRec, GivesUp, Steady, Kept, KeptAll, UpdateStep, Stored, From
<1> QED
  BY <1>4, <1>5, <1>6

LEMMA StopSteps ==
  ASSUME Undisturbing, StopOld \/ Unbook \/ HaltTasks
  PROVE  UpdateStep
<1>0. /\ upd \in UpdRec /\ rec' = rec /\ Known /\ TypeOK /\ agents = Agent /\ dead = {}
      /\ store' = store /\ upd.asked \subseteq Agent
  BY RecordTypes, UpdateLeaves DEF Undisturbing, TypeInv, TypeOK, Peace, others, Updating,
    StopOld, Unbook, HaltTasks, job, UpdRec
<1>01. ~ Fault
  BY DEF Undisturbing, Undisturbed, Fault
<1>1. CASE StopOld
  <2>1. upd.pc = "stop" /\ upd.cur \in Standing /\ upd.cur.at \in Agent /\ placed' = placed
    BY <1>0, <1>1, StandingTyped DEF StopOld, Known, HasOld
  <2>2. Goto("unbook") /\ tasks' = {IF t.id = upd.cur.id THEN Stopped(t) ELSE t : t \in tasks}
    BY <1>0, <1>01, <1>1, <2>1 DEF StopOld
  <2>4. /\ upd'.pc = "unbook" /\ upd'.policy = upd.policy /\ KeptAll
    BY <1>0, <2>2 DEF Goto, UpdRec, Kept, KeptAll
  <2>5. Stops
    BY <2>1, <2>2, <2>4 DEF Stops, From, Halts
  <2> QED
    BY <1>0, <2>4, <2>5 DEF UpdateStep, Stored
<1>2. CASE Unbook
  BY <1>0, <1>2 DEF Unbook, ToUpd, NextFrom, UpdRec, Strikes, From, UpdateStep, Stored
<1>3. CASE HaltTasks
  <2>1. CASE upd.asked = {} /\ Goto("release") /\ UNCHANGED tasks
    BY <1>0, <1>3, <2>1 DEF HaltTasks, Goto, UpdRec, Restarts, From, UpdateStep, Stored,
      Steady, Kept
  <2>2. ASSUME NEW a \in upd.asked, tasks' = tasks \ On(a), upd' = [upd EXCEPT !.asked = @ \ {a}]
        PROVE  UpdateStep
    <3>1. HaltsOn(a) /\ upd'.policy = upd.policy
      BY <1>0, <1>3, <2>2 DEF HaltTasks, HaltsOn, From, Kept, UpdRec
    <3> QED
      BY <1>0, <3>1 DEF UpdateStep, Stored
  <2> QED
    BY <1>0, <1>01, <1>3, <2>1, <2>2 DEF HaltTasks
<1> QED
  BY <1>1, <1>2, <1>3

LEMMA UpdateSteps ==
  ASSUME Undisturbing, Alone, UpdateJob \/ Updating
  PROVE  UpdateStep
BY StartSteps, NextSteps, PassSteps, InPlaceSteps, StopSteps DEF Updating

\* The steps of a reconciliation.
RecFrom(pc, then) == rec.pc = pc /\ rec'.pc = then /\ rec'.copy = rec.copy
Looks ==
  /\ Steady /\ flag' = flag
  /\ \/ rec.pc = "idle" /\ rec'.pc = "renumber" /\ rec'.copy = store /\ store' = store
     \/ RecFrom("renumber", "check") /\ store' \in {store, rec.copy}
     \/ RecFrom("check", "count") /\ store' = store
     \/ /\ RecFrom("count", "lock") /\ store' = store
        /\ Cardinality(Booked) < CountOf(rec.copy.ver)
     \/ rec.pc \in {"check", "count"} /\ rec' = IdleRec /\ store' = store
Takes ==
  /\ Steady /\ flag' = TRUE /\ store' = store
  /\ \/ rec.pc = "lock" /\ flag /\ rec' = IdleRec
     \/ RecFrom("lock", "pass") /\ ~ flag
Starts(a) ==
  /\ placed' = placed /\ flag' = flag /\ store' = store
  /\ RecFrom("pass", "track") /\ rec'.at = a
  /\ \E n : Joins(n) /\ n.at = a /\ n.ver = rec.copy.ver
Adds ==
  /\ tasks' = tasks /\ flag' = flag /\ store' = store
  /\ rec.pc = "track" /\ placed' = [placed EXCEPT ![rec.at] = @ + 1]
  /\ \/ RecFrom("track", "pass")
     \/ rec'.pc = "unlock" /\ rec'.copy = Gone
Closes ==
  /\ Steady /\ store' = store
  /\ \/ RecFrom("pass", "pass") /\ flag' = flag
     \/ rec.pc = "pass" /\ rec'.pc = "unlock" /\ rec'.copy = Gone /\ flag' = flag
     \/ rec.pc = "unlock" /\ rec' = IdleRec /\ flag' = FALSE
RecStep == /\ upd' = upd
           /\ Looks \/ Takes \/ (\E a \in Agent : Starts(a)) \/ Adds \/ Closes

LEMMA RecSteps ==
  ASSUME Undisturbing, ReconcileJobs \/ Reconciling
  PROVE  RecStep
<1>0. /\ rec \in RecRec /\ upd' = upd /\ TypeOK
      /\ (rec.pc \notin {"idle", "unlock"} => rec.copy # Gone)
  BY RecordTypes, ReconcileLeaves DEF Undisturbing, TypeInv, notRec
<1> USE <1>0 DEF RecStep, Steady, RecFrom, job
<1>1. CASE ReconcileJobs \/ NormalizePriorities
  BY <1>1 DEF ReconcileJobs, NormalizePriorities, RecGoto, Looks, RecRec
<1>2. CASE CheckFlag
  <2>1. rec.pc = "check" /\ (rec' = IdleRec \/ rec' = [rec EXCEPT !.pc = "count"])
        /\ Steady /\ store' = store /\ flag' = flag
    BY <1>2 DEF CheckFlag, RecGoto
  <2> QED
    BY <2>1 DEF Looks, RecRec
<1>3. CASE CountPlaced
  <2> DEFINE missing == CountOf(rec.copy.ver) - Cardinality(Booked)
  <2>1. /\ rec.pc = "count" /\ Steady /\ store' = store /\ flag' = flag
        /\ rec' = IF missing > 0 THEN [rec EXCEPT !.pc = "lock", !.left = missing] ELSE IdleRec
    BY <1>3 DEF CountPlaced
  <2>2. missing > 0 => Cardinality(Booked) < CountOf(rec.copy.ver)
    <3>1. Cardinality(Booked) \in Nat /\ CountOf(rec.copy.ver) \in Nat
      BY BookedFinite, UpdateAssumption DEF CountOf
    <3> QED
      BY <3>1
  <2> HIDE DEF missing
  <2>3. CASE missing > 0
    BY <2>1, <2>2, <2>3 DEF Looks, RecRec
  <2>4. CASE ~ (missing > 0)
    BY <2>1, <2>4 DEF Looks
  <2> QED
    BY <2>3, <2>4
<1>4. CASE LockInstances
  <2>1. /\ rec.pc = "lock" /\ Steady /\ store' = store /\ flag' = TRUE
        /\ \/ flag /\ rec' = IdleRec
           \/ ~ flag /\ rec' = Pass(rec)
    BY <1>4 DEF LockInstances
  <2> QED
    BY <2>1 DEF Takes, Pass, RecRec
<1>5. CASE SendMissing
  <2>0. /\ rec.pc = "pass" /\ placed' = placed /\ store' = store /\ flag' = flag
        /\ Peace /\ Undisturbed' /\ Offer(rec, rec', rec.copy.ver)
    BY <1>5 DEF SendMissing, Undisturbing, Offer
  <2>1. rec.copy.ver \in {1, 2}
    BY <2>0 DEF RecRec, Definitions
  <2>2. PICK a \in Agent :
          \/ FindsFull(rec, rec', a) /\ tasks' = tasks
          \/ /\ Succeeds(rec, rec', a)
             /\ \E n : Joins(n) /\ n.at = a /\ n.ver = rec.copy.ver
    <3> HIDE DEF RecStep, Steady, RecFrom
    <3> QED
      BY <2>0, <2>1, PeacefulOffer
  <2>3. CASE FindsFull(rec, rec', a) /\ tasks' = tasks
    BY <2>0, <2>3 DEF FindsFull, Closes, RecRec
  <2>4. CASE /\ Succeeds(rec, rec', a)
             /\ \E n : Joins(n) /\ n.at = a /\ n.ver = rec.copy.ver
    <3>1. rec'.pc = "track" /\ rec'.at = a /\ rec'.copy = rec.copy
      BY <2>4 DEF Succeeds, RecRec
    <3>2. Starts(a)
      BY <2>0, <2>4, <3>1 DEF Starts
    <3> QED
      BY <3>2
  <2> QED
    BY <2>2, <2>3, <2>4
<1>6. CASE TrackMissing
  <2>1. /\ rec.pc = "track" /\ tasks' = tasks /\ store' = store /\ flag' = flag
        /\ placed' = [placed EXCEPT ![rec.at] = @ + 1]
        /\ \/ rec' = [Pass(rec) EXCEPT !.left = @ - 1, !.at = NoAgent]
           \/ rec' = [IdleRec EXCEPT !.pc = "unlock"]
    BY <1>6 DEF TrackMissing, Track
  <2>2. CASE rec' = [Pass(rec) EXCEPT !.left = @ - 1, !.at = NoAgent]
    BY <2>1, <2>2 DEF Adds, Pass, RecRec
  <2>3. CASE rec' = [IdleRec EXCEPT !.pc = "unlock"]
    BY <2>1, <2>3 DEF Adds, IdleRec
  <2> QED
    BY <2>1, <2>2, <2>3
<1>7. CASE NoneTakesIt \/ UnlockInstances
  BY <1>7 DEF NoneTakesIt, UnlockInstances, PassOver, Closes, IdleRec
<1> QED
  BY <1>1, <1>2, <1>3, <1>4, <1>5, <1>6, <1>7 DEF Reconciling

LEMMA RecTurns ==
  ASSUME Undisturbing, RecStep
  PROVE  Turn(RecHas, RecHas') /\ upd' = upd
<1>0. upd' = upd
  BY DEF RecStep
<1> USE <1>0 DEF Turn, RecHas, RecFrom, IdleRec
<1>1. CASE Looks
  BY <1>1 DEF Looks
<1>2. CASE Takes
  BY <1>2 DEF Takes
<1>3. CASE \E a \in Agent : Starts(a)
  BY <1>3 DEF Starts
<1>4. CASE Adds
  BY <1>4 DEF Adds
<1>5. CASE Closes
  BY <1>5 DEF Closes
<1> QED
  BY <1>1, <1>2, <1>3, <1>4, <1>5 DEF RecStep

LEMMA StaysExclusive ==
  ASSUME Undisturbing, UpdateJob \/ Updating \/ ReconcileJobs \/ Reconciling
  PROVE  Exclusive'
<1>1. CASE UpdateJob \/ Updating
  <2>1. Turn(UpdateHas, UpdateHas') /\ rec' = rec
    BY <1>1, UpdateTurns DEF Undisturbing
  <2>2. RecHas' <=> RecHas
    BY <2>1 DEF RecHas
  <2> QED
    BY <2>1, <2>2 DEF Undisturbing, Exclusive, Turn
<1>2. CASE ReconcileJobs \/ Reconciling
  <2>1. Turn(RecHas, RecHas') /\ upd' = upd
    BY <1>2, RecSteps, RecTurns
  <2>2. UpdateHas' <=> UpdateHas
    BY <2>1 DEF UpdateHas
  <2> QED
    BY <2>1, <2>2 DEF Undisturbing, Exclusive, Turn
<1> QED
  BY <1>1, <1>2

-----------------------------------------------------------------------------
(* The list of old instances, and the books.                               *)

LEMMA KnownInUpdate ==
  ASSUME Undisturbing, UpdateStep
  PROVE  Known'
<1>0. /\ Known /\ TypeOK /\ NoTask \notin Standing /\ upd'.policy = upd.policy
      /\ upd.olds \subseteq Standing /\ Standing \subseteq tasks
  BY StandingTyped, NoTaskIsNone DEF Undisturbing, TypeInv, UpdateStep, Known
<1> USE <1>0 DEF Known, HasOld, Before, From, Steady, Kept, KeptAll
<1>1. ASSUME tasks' = tasks PROVE Standing' = Standing /\ UniqueIDs'
  BY <1>1, SameStanding
<1>2. CASE Begins
  BY <1>1, <1>2 DEF Begins
<1>3. CASE Fetches
  <2>1. upd'.olds \subseteq Standing
    BY <1>3 DEF Fetches, Standing
  <2> QED
    BY <1>1, <1>3, <2>1 DEF Fetches
<1>4. CASE Proceeds
  BY <1>1, <1>4 DEF Proceeds
<1>5. ASSUME NEW t \in upd.olds, PicksOld(t) PROVE Known'
  BY <1>1, <1>5 DEF PicksOld
<1>6. CASE AsksForNew \/ RunsOut
  BY <1>1, <1>6 DEF AsksForNew, RunsOut
<1>7. ASSUME NEW a \in Agent, Gains(a) PROVE Known'
  <2>1. UniqueIDs' /\ Standing \subseteq Standing'
    BY <1>7, JoinsStanding DEF Gains
  <2> QED
    BY <1>7, <2>1 DEF Gains
<1>8. CASE Counts
  BY <1>1, <1>8 DEF Counts
<1>9. CASE GivesUp
  BY <1>1, <1>9 DEF GivesUp
<1>10. CASE Swaps
  BY <1>10 DEF Swaps
<1>11. CASE Stops
  <2>1. /\ Standing' = Standing \ {upd.cur} /\ UniqueIDs' /\ upd.cur \in Task
        /\ \A u \in Standing' : u.id # upd.cur.id
    BY <1>11, HaltsStanding, StandingTyped DEF Stops
  <2> QED
    BY <1>11, <2>1 DEF Stops
<1>12. CASE Strikes \/ Returns
  BY <1>1, <1>12 DEF Strikes, Returns
<1>13. CASE Wipes \/ Restarts
  BY <1>1, <1>13 DEF Wipes, Restarts
<1>14. ASSUME NEW b \in Agent, HaltsOn(b) PROVE Known'
  <2>1. tasks' \subseteq tasks /\ UniqueIDs'
    BY <1>14 DEF HaltsOn, UniqueIDs
  <2> QED
    BY <1>14, <2>1 DEF HaltsOn
<1> HIDE DEF Known, HasOld, Before, From, Steady, Kept, KeptAll
<1> QED
  BY <1>2, <1>3, <1>4, <1>5, <1>6, <1>7, <1>8, <1>9, <1>10, <1>11, <1>12, <1>13, <1>14
  DEF UpdateStep

\* A reconciliation only starts instances, which the update knows nothing of.
LEMMA RecOnlyStarts ==
  ASSUME Undisturbing, RecStep
  PROVE  /\ upd' = upd
         /\ \/ tasks' = tasks
            \/ rec.pc = "pass" /\ \E n : Joins(n) /\ n.ver = rec.copy.ver
BY DEF RecStep, Looks, Takes, Starts, Adds, Closes, RecFrom, Steady

LEMMA KnownBeside ==
  ASSUME Undisturbing, RecStep
  PROVE  Known'
<1>0. Known /\ TypeOK /\ upd' = upd
  BY RecOnlyStarts DEF Undisturbing, TypeInv
<1>1. CASE tasks' = tasks
  BY <1>0, <1>1, SameStanding DEF Known, HasOld, Before
<1>2. ASSUME NEW n, Joins(n) PROVE Known'
  <2>1. UniqueIDs' /\ Standing \subseteq Standing'
    BY <1>0, <1>2, JoinsStanding DEF Known
  <2>2. n.id # upd.cur.id /\ n.state # "stopping" /\ tasks' = tasks \cup {n}
        /\ Standing' = Standing \cup {n}
    BY <1>0, <1>2, JoinsStanding DEF Joins
  <2> QED
    BY <1>0, <2>1, <2>2 DEF Known, HasOld, Before
<1> QED
  BY <1>1, <1>2, RecOnlyStarts

\* A task that was replaced is gone for good.
LEMMA KnownRemoved ==
  ASSUME Undisturbing, NEW t \in tasks, Removed(t)
  PROVE  Known' /\ Standing' = Standing /\ upd' = upd /\ \A a : StandingOn(a)' = StandingOn(a)
<1>0. Known /\ TypeOK /\ t \notin Standing /\ upd' = upd /\ Leaves(t)
  BY DEF Undisturbing, TypeInv, Removed, Standing, notEnv, Leaves
<1>1. Standing' = Standing /\ UniqueIDs' /\ (\A a : StandingOn(a)' = StandingOn(a)) /\ tasks' \subseteq tasks
  <2>1. \A a : t \notin StandingOn(a)
    BY <1>0, StandingTyped
  <2> QED
    BY <1>0, <2>1, LeavesStanding DEF Known, Leaves
<1> QED
  BY <1>0, <1>1 DEF Known, HasOld, Before

LEMMA SitedLasts ==
  ASSUME Undisturbing, UpdateStep \/ RecStep
  PROVE  Sited'
<1>0. Sited
  BY DEF Undisturbing
<1>1. CASE UpdateStep
  BY <1>0, <1>1 DEF UpdateStep, Sited, From, Begins, Fetches, Proceeds, PicksOld, AsksForNew,
    RunsOut, Gains, Counts, GivesUp, Swaps, Stops, Strikes, Returns, Wipes, HaltsOn, Restarts
<1>2. CASE RecStep
  BY <1>0, <1>2 DEF RecStep, Sited, RecFrom, Looks, Takes, Starts, Adds, Closes, IdleRec
<1> QED
  BY <1>1, <1>2

\* What the books need to know of the types.
LEMMA BooksTyped ==
  ASSUME TypeOK, Books
  PROVE  /\ placed \in [Agent -> Nat]
         /\ \A a \in Agent : placed[a] \in Nat /\ Cardinality(StandingOn(a)) \in Nat
         /\ \A a \in Agent : BookOf(a)
BY StandingTyped, Finite DEF TypeOK, Books

\* Neither the update nor a reconciliation has an instance that is not counted.
Balanced == /\ upd.pc \notin {"track", "unbook", "halt"} /\ rec.pc # "track"

LEMMA BooksRest ==
  ASSUME Balanced, Balanced', placed' = placed, \A a : StandingOn(a)' = StandingOn(a), Books
  PROVE  Books'
BY DEF Balanced, Books, BookOf, Coming, Going, Halting

\* An instance that is accepted, by whichever of the two.
LEMMA BooksJoin ==
  ASSUME TypeOK, Books, Balanced, placed' = placed, NEW a \in Agent,
         \E n : Joins(n) /\ n.at = a,
         \A b : Coming(b)' <=> b = a, \A b : ~ Halting(b)' /\ ~ Going(b)'
  PROVE  Books'
<1>1. PICK n : Joins(n) /\ n.at = a
  OBVIOUS
<1>2. /\ \A b : StandingOn(b)' = IF a = b THEN StandingOn(b) \cup {n} ELSE StandingOn(b)
      /\ n \notin StandingOn(a) /\ StandingOn(a) \in SUBSET Task
  BY <1>1, JoinsStanding, StandingTyped
<1>3. Cardinality(StandingOn(a) \cup {n}) = Cardinality(StandingOn(a)) + 1
  BY <1>2, OneMore
<1>4. \A b \in Agent : placed[b] = Cardinality(StandingOn(b)) /\ placed[b] \in Nat
  BY BooksTyped DEF Balanced, BookOf, Halting, Coming, Going, One
<1>5. ASSUME NEW b \in Agent PROVE BookOf(b)'
  <2>1. Cardinality(StandingOn(b)') = IF b = a THEN placed[b] + 1 ELSE placed[b]
    BY <1>2, <1>3, <1>4
  <2> QED
    BY <1>4, <2>1 DEF BookOf, One
<1> QED
  BY <1>5 DEF Books

\* An instance that is counted.
LEMMA BooksCount ==
  ASSUME TypeOK, Books, NEW b \in Agent, tasks' = tasks, placed' = [placed EXCEPT ![b] = @ + 1],
         \A a : Coming(a) <=> a = b, \A a : ~ Halting(a) /\ ~ Going(a), Balanced'
  PROVE  Books'
<1>1. \A a : StandingOn(a)' = StandingOn(a)
  BY SameStanding
<1>2. \A a \in Agent : /\ placed[a] \in Nat /\ Cardinality(StandingOn(a)) \in Nat
                       /\ placed[a] + One(a = b) = Cardinality(StandingOn(a))
  BY BooksTyped DEF BookOf, One
<1>3. ASSUME NEW a \in Agent PROVE BookOf(a)'
  <2>1. placed'[a] = placed[a] + One(a = b)
    BY <1>2, BooksTyped DEF One
  <2> QED
    BY <1>1, <1>2, <2>1 DEF BookOf, Balanced, Halting, Coming, Going, One
<1> QED
  BY <1>3 DEF Books

LEMMA BooksInUpdate ==
  ASSUME Undisturbing, UpdateStep
  PROVE  Books'
<1>0. /\ TypeOK /\ Books /\ Known /\ placed \in [Agent -> Nat] /\ rec' = rec
      /\ (upd.pc = "track" => upd.at \in Agent)
  <2>1. Sited /\ TypeOK /\ Books /\ Known /\ rec' = rec
    BY DEF Undisturbing, TypeInv, UpdateStep
  <2> QED
    BY <2>1, BooksTyped DEF Sited
<1>1. UpdateHas => rec.pc # "track"
  BY DEF Undisturbing, Exclusive, RecHas
<1>2. ASSUME tasks' = tasks, placed' = placed, upd.pc \notin {"track", "unbook", "halt"},
             upd'.pc \notin {"track", "unbook", "halt"}
      PROVE  Books'
  <2>1. \A a : StandingOn(a)' = StandingOn(a)
    BY <1>2, SameStanding
  <2>2. \A a \in Agent : BookOf(a)
    BY <1>0 DEF Books
  <2> QED
    BY <1>0, <1>2, <2>1, <2>2 DEF Books, BookOf, Coming, Going, Halting
<1> USE DEF From, Steady, Kept, KeptAll
<1>3. CASE Begins \/ Fetches \/ Proceeds \/ AsksForNew \/ RunsOut \/ GivesUp \/ Returns
  BY <1>2, <1>3 DEF Begins, Fetches, Proceeds, AsksForNew, RunsOut, GivesUp, Returns
<1>4. ASSUME NEW t \in upd.olds, PicksOld(t) PROVE Books'
  BY <1>2, <1>4 DEF PicksOld
<1>5. ASSUME NEW a \in Agent, Gains(a) PROVE Books'
  <2>1. Balanced /\ placed' = placed /\ \E n : Joins(n) /\ n.at = a
    BY <1>1, <1>5 DEF Gains, Balanced, UpdateHas
  <2>2. (\A b : Coming(b)' <=> b = a) /\ (\A b : ~ Halting(b)' /\ ~ Going(b)')
    BY <1>0, <1>5, <2>1 DEF Gains, Balanced, Coming, Halting, Going
  <2> QED
    BY <1>0, <2>1, <2>2, BooksJoin
<1>6. CASE Counts
  <2>1. /\ upd.at \in Agent /\ tasks' = tasks /\ placed' = [placed EXCEPT ![upd.at] = @ + 1]
        /\ upd.pc = "track" /\ upd'.pc \in {"stop", "next", "pass", "unlock"}
    BY <1>0, <1>6 DEF Counts
  <2>2. /\ \A a : Coming(a) <=> a = upd.at
        /\ \A a : ~ Halting(a) /\ ~ Going(a)
        /\ Balanced'
    BY <1>0, <1>1, <2>1 DEF Balanced, Coming, Halting, Going, UpdateHas
  <2> QED
    BY <1>0, <2>1, <2>2, BooksCount
<1>7. CASE Swaps
  <2>1. Balanced /\ Balanced'
    BY <1>0, <1>1, <1>7 DEF Swaps, Balanced, UpdateHas
  <2>2. PICK n : \A a : StandingOn(a)' = IF a = upd.cur.at THEN {n} ELSE StandingOn(a)
    BY <1>7 DEF Swaps
  <2>3. \A a : Cardinality(StandingOn(a)') = Cardinality(StandingOn(a))
    <3>1. StandingOn(upd.cur.at) = {upd.cur}
      BY <1>7 DEF Swaps
    <3>2. Cardinality({n}) = 1 /\ Cardinality({upd.cur}) = 1
      BY NoneAndOne
    <3> HIDE DEF From, Steady, Kept, KeptAll
    <3> TAKE a
    <3>3. CASE a = upd.cur.at
      BY <2>2, <3>1, <3>2, <3>3
    <3>4. CASE a # upd.cur.at
      <4>1. StandingOn(a)' = StandingOn(a)
        BY <2>2, <3>4
      <4> QED
        BY <4>1
    <3> QED
      BY <3>3, <3>4
  <2>4. \A a \in Agent : BookOf(a)'
    BY <1>0, <1>7, <2>1, <2>3 DEF Swaps, Books, BookOf, Balanced, Halting, Coming, Going
  <2> QED
    BY <2>4 DEF Books
<1>8. CASE Stops
  <2>1. /\ upd.cur \in Standing /\ upd.cur \in StandingOn(upd.cur.at) /\ rec.pc # "track"
        /\ upd.pc = "stop" /\ upd'.pc = "unbook" /\ upd'.cur = upd.cur
    BY <1>0, <1>1, <1>8, StandingTyped DEF Stops, Known, HasOld, UpdateHas
  <2>2. \A a : StandingOn(a)' = StandingOn(a) \ {upd.cur} /\ (a # upd.cur.at => upd.cur \notin StandingOn(a))
    BY <1>0, <1>8, <2>1, HaltsStanding, StandingTyped DEF Stops, Known
  <2>3. ASSUME NEW a \in Agent PROVE BookOf(a)'
    <3>1. placed[a] = Cardinality(StandingOn(a)) /\ placed[a] \in Nat
      BY <1>0, <2>1, BooksTyped DEF BookOf, Halting, Coming, Going, One
    <3>2. Cardinality(StandingOn(a)') = IF a = upd.cur.at THEN placed[a] - 1 ELSE placed[a]
      <4>1. StandingOn(a) \in SUBSET Task
        BY <1>0, StandingTyped
      <4>2. CASE a = upd.cur.at
        BY <2>1, <2>2, <3>1, <4>1, <4>2, OneLess
      <4>3. CASE a # upd.cur.at
        <5>1. StandingOn(a)' = StandingOn(a)
          BY <2>2, <4>3
        <5> QED
          BY <3>1, <4>3, <5>1
      <4> QED
        BY <4>2, <4>3
    <3> QED
      BY <1>0, <1>8, <2>1, <3>1, <3>2 DEF Stops, BookOf, Halting, Coming, Going, One
  <2> QED
    BY <2>3 DEF Books
<1>9. CASE Strikes
  <2>1. /\ upd.cur.at \in Agent /\ rec.pc # "track" /\ upd.pc = "unbook" /\ upd'.pc = "next"
    BY <1>0, <1>1, <1>9 DEF Strikes, Known, UpdateHas, Task
  <2>2. \A a : StandingOn(a)' = StandingOn(a)
    BY <1>9, SameStanding DEF Strikes
  <2>3. ASSUME NEW a \in Agent PROVE BookOf(a)'
    <3>1. /\ placed[a] = Cardinality(StandingOn(a)) + One(a = upd.cur.at)
          /\ placed[a] \in Nat /\ Cardinality(StandingOn(a)) \in Nat
      BY <1>0, <2>1, BooksTyped DEF BookOf, Halting, Coming, Going, One
    <3>2. placed'[a] = Cardinality(StandingOn(a))
      <4>1. CASE a = upd.cur.at
        <5>1. placed'[a] = IF placed[a] > 0 THEN placed[a] - 1 ELSE 0
          BY <1>0, <1>9, <4>1 DEF Strikes
        <5> QED
          BY <3>1, <4>1, <5>1 DEF One
      <4>2. CASE a # upd.cur.at
        BY <1>0, <1>9, <3>1, <4>2 DEF Strikes, One
      <4> QED
        BY <4>1, <4>2
    <3> QED
      BY <1>0, <2>1, <2>2, <3>1, <3>2 DEF BookOf, Halting, Coming, Going, One
  <2> QED
    BY <2>3 DEF Books
<1>10. CASE Wipes
  <2>1. /\ rec.pc # "track" /\ upd.pc = "wipe" /\ upd'.pc = "halt"
        /\ upd'.asked = {a \in Agent : placed[a] > 0} /\ placed' = [a \in Agent |-> 0]
    BY <1>1, <1>10 DEF Wipes, UpdateHas
  <2>2. \A a : StandingOn(a)' = StandingOn(a)
    BY <1>10, SameStanding DEF Wipes
  <2>3. ASSUME NEW a \in Agent PROVE BookOf(a)'
    <3>1. placed[a] = Cardinality(StandingOn(a)) /\ placed[a] \in Nat
      BY <1>0, <2>1, BooksTyped DEF BookOf, Halting, Coming, Going, One
    <3> QED
      BY <1>0, <2>1, <2>2, <3>1 DEF BookOf, Halting, Coming, Going, One
  <2> QED
    BY <2>3 DEF Books
<1>11. ASSUME NEW b \in Agent, HaltsOn(b) PROVE Books'
  <2>1. /\ rec.pc # "track" /\ upd.pc = "halt" /\ upd'.pc = "halt" /\ placed' = placed
        /\ b \in upd.asked /\ upd'.asked = upd.asked \ {b} /\ tasks' = tasks \ On(b)
    BY <1>1, <1>11 DEF HaltsOn, UpdateHas
  <2>2. \A a : StandingOn(a)' = IF a = b THEN {} ELSE StandingOn(a)
    BY <2>1 DEF StandingOn, On, Standing
  <2>3. ASSUME NEW a \in Agent PROVE BookOf(a)'
    <3>1. BookOf(a)
      BY <1>0 DEF Books
    <3> QED
      BY <1>0, <2>1, <2>2, <3>1, NoneAndOne DEF BookOf, Halting, Coming, Going, One
  <2> QED
    BY <2>3 DEF Books
<1>12. CASE Restarts
  <2>1. /\ \A a : ~ Halting(a) /\ ~ Halting(a)'
        /\ upd.pc \in {"halt", "relock"} /\ upd'.pc \in {"release", "pass"}
        /\ placed' = placed /\ tasks' = tasks
    BY <1>12 DEF Restarts, Halting
  <2>2. \A a : StandingOn(a)' = StandingOn(a)
    BY <2>1, SameStanding
  <2>3. \A a \in Agent : BookOf(a)
    BY <1>0 DEF Books
  <2> QED
    BY <1>0, <2>1, <2>2, <2>3 DEF Books, BookOf, Coming, Going
<1> HIDE DEF From, Steady, Kept, KeptAll
<1> QED
  BY <1>3, <1>4, <1>5, <1>6, <1>7, <1>8, <1>9, <1>10, <1>11, <1>12 DEF UpdateStep

LEMMA BooksBeside ==
  ASSUME Undisturbing, RecStep
  PROVE  Books'
<1>0. /\ TypeOK /\ Books /\ upd' = upd /\ placed \in [Agent -> Nat]
      /\ (rec.pc = "track" => rec.at \in Agent)
  <2>1. Sited /\ TypeOK /\ Books /\ upd' = upd
    BY RecOnlyStarts DEF Undisturbing, TypeInv
  <2> QED
    BY <2>1, BooksTyped DEF Sited
<1>1. rec.pc \in {"pass", "track"} => upd.pc \notin {"track", "unbook", "halt"}
  BY DEF Undisturbing, Exclusive, RecHas, UpdateHas
<1>2. ASSUME Looks \/ Takes \/ Closes
      PROVE  tasks' = tasks /\ placed' = placed /\ rec.pc # "track" /\ rec'.pc # "track"
  BY <1>2 DEF Looks, Takes, Closes, Steady, RecFrom, IdleRec
<1>3. CASE Looks \/ Takes \/ Closes
  <2>1. \A a : StandingOn(a)' = StandingOn(a)
    BY <1>2, <1>3, SameStanding
  <2>2. \A a \in Agent : BookOf(a)
    BY <1>0 DEF Books
  <2> QED
    BY <1>0, <1>2, <1>3, <2>1, <2>2 DEF Books, BookOf, Coming, Going, Halting
<1>4. ASSUME NEW a \in Agent, Starts(a) PROVE Books'
  <2>1. Balanced /\ placed' = placed /\ (\E n : Joins(n) /\ n.at = a) /\ rec'.pc = "track"
        /\ rec'.at = a
    BY <1>1, <1>4 DEF Starts, Balanced, RecFrom
  <2>2. (\A b : Coming(b)' <=> b = a) /\ (\A b : ~ Halting(b)' /\ ~ Going(b)')
    BY <1>0, <2>1 DEF Balanced, Coming, Halting, Going
  <2> QED
    BY <1>0, <2>1, <2>2, BooksJoin
<1>5. CASE Adds
  <2>1. /\ rec.at \in Agent /\ tasks' = tasks /\ placed' = [placed EXCEPT ![rec.at] = @ + 1]
        /\ rec.pc = "track" /\ rec'.pc \in {"pass", "unlock"}
    BY <1>0, <1>5 DEF Adds, RecFrom
  <2>2. /\ \A a : Coming(a) <=> a = rec.at
        /\ \A a : ~ Halting(a) /\ ~ Going(a)
        /\ Balanced'
    BY <1>0, <1>1, <2>1 DEF Balanced, Coming, Halting, Going
  <2> QED
    BY <1>0, <2>1, <2>2, BooksCount
<1> QED
  BY <1>3, <1>4, <1>5 DEF RecStep

-----------------------------------------------------------------------------
(* How many instances have been accepted and not told to stop.             *)

LEMMA ServingTyped ==
  ASSUME TypeOK, Known
  PROVE  /\ Standing \in SUBSET Task /\ Recruits \in SUBSET Task /\ upd.olds \in SUBSET Task
         /\ Cardinality(Standing) \in Nat /\ Cardinality(Recruits) \in Nat
         /\ Cardinality(upd.olds) \in Nat /\ upd.sent \in Nat
         /\ OldCount \in Nat \ {0} /\ NewCount \in Nat \ {0}
         /\ NoTask \notin Standing /\ upd.olds \subseteq Standing
<1>1. Standing \in SUBSET Task /\ upd.olds \in SUBSET Standing /\ upd.sent \in Nat /\ NoTask \notin Standing
  BY StandingTyped, NoTaskIsNone, RecordTypes DEF Known, UpdRec
<1> QED
  BY <1>1, Finite, UpdateAssumption DEF Recruits

\* The old ones still to do, and those of the new version, are different ones.
LEMMA StandingIsBoth ==
  ASSUME TypeOK, Known
  PROVE  /\ Cardinality(Standing) >= Cardinality(Recruits) + Cardinality(upd.olds)
         /\ upd.cur \in Standing =>
              Cardinality(Standing) >= Cardinality(Recruits) + Cardinality(upd.olds) + 1
<1>0. /\ Standing \in SUBSET Task /\ Recruits \in SUBSET Task /\ upd.olds \in SUBSET Task
      /\ Recruits \subseteq Standing /\ upd.olds \subseteq Standing /\ Recruits \cap upd.olds = {}
      /\ upd.cur \notin Recruits \cup upd.olds
  BY ServingTyped DEF Recruits, Known
<1>1. Cardinality(Recruits \cup upd.olds) = Cardinality(Recruits) + Cardinality(upd.olds)
  <2>1. IsFiniteSet(Recruits) /\ IsFiniteSet(upd.olds)
    BY <1>0, Finite
  <2>2. /\ Cardinality(Recruits \cup upd.olds) =
            Cardinality(Recruits) + Cardinality(upd.olds) - Cardinality(Recruits \cap upd.olds)
        /\ Cardinality({}) = 0
        /\ Cardinality(Recruits) \in Nat /\ Cardinality(upd.olds) \in Nat
    BY <2>1, FS_Union, NoneAndOne, FS_CardinalityType
  <2>3. Cardinality(Recruits \cap upd.olds) = 0
    BY <1>0, <2>2
  <2> QED
    BY <2>2, <2>3
<1>2. Recruits \cup upd.olds \in SUBSET Standing /\ Recruits \cup upd.olds \in SUBSET Task
  BY <1>0
<1>3. Cardinality(Standing) >= Cardinality(Recruits \cup upd.olds)
  <2>1. Cardinality(Recruits \cup upd.olds) <= Cardinality(Standing)
    BY <1>0, <1>2, Smaller
  <2> QED
    BY <1>0, <1>2, <2>1, Finite
<1>4. ASSUME upd.cur \in Standing
      PROVE  Cardinality(Standing) >= Cardinality(Recruits) + Cardinality(upd.olds) + 1
  <2>1. Cardinality((Recruits \cup upd.olds) \cup {upd.cur}) = Cardinality(Recruits \cup upd.olds) + 1
    BY <1>0, <1>2, OneMore
  <2>2. (Recruits \cup upd.olds) \cup {upd.cur} \in SUBSET Standing
    BY <1>2, <1>4
  <2>3. Cardinality((Recruits \cup upd.olds) \cup {upd.cur}) <= Cardinality(Standing)
    BY <1>0, <2>2, Smaller
  <2> QED
    BY <1>0, <1>1, <2>1, <2>3, Finite
<1> QED
  BY <1>0, <1>1, <1>3, <1>4, Finite

\* The instances and the list stay: so do the recruits.
LEMMA SameRecruits ==
  ASSUME tasks' = tasks, Kept
  PROVE  Recruits' = Recruits /\ Standing' = Standing
BY SameStanding DEF Recruits, Kept

LEMMA ServingBegins ==
  ASSUME Undisturbing, UpdateStep, Overlaps, Serving, Begins \/ Fetches \/ Proceeds
  PROVE  Serving'
<1>0. /\ TypeOK /\ TypeOK' /\ Known /\ Known' /\ Books /\ Overlaps'
  BY KnownInUpdate DEF Undisturbing, TypeInv, UpdateStep, Overlaps
<1>1. /\ Standing \in SUBSET Task /\ NewCount \in Nat \ {0} /\ upd.sent \in Nat /\ OldCount \in Nat
  BY <1>0, ServingTyped
<1>2. tasks' = tasks /\ Standing' = Standing /\ Cardinality(Recruits)' \in Nat
  <2>1. tasks' = tasks /\ Standing' = Standing
    BY SameStanding DEF Begins, Fetches, Proceeds, Steady
  <2>2. Recruits' \in SUBSET Task
    BY <1>1, <2>1 DEF Recruits
  <2> QED
    BY <2>1, <2>2, Finite
<1>3. CASE Begins
  <2>1. ASSUME From("ask", "fetch"), upd'.asked = {a \in Agent : placed[a] > 0}
        PROVE  \A t \in Standing' : t.at \in upd'.asked
    <3> SUFFICES ASSUME NEW t \in Standing PROVE t.at \in Agent /\ placed[t.at] > 0
      BY <1>2, <2>1
    <3>1. t.at \in Agent /\ t \in StandingOn(t.at) /\ StandingOn(t.at) \in SUBSET Task
      BY <1>0, StandingTyped
    <3>2. placed[t.at] = Cardinality(StandingOn(t.at)) /\ placed[t.at] \in Nat
      <4>1. upd.pc = "ask" /\ rec.pc # "track"
        BY <2>1 DEF From, Undisturbing, Exclusive, UpdateHas, RecHas
      <4>2. /\ BookOf(t.at) /\ placed[t.at] \in Nat /\ Cardinality(StandingOn(t.at)) \in Nat
        BY <1>0, <3>1, BooksTyped
      <4> QED
        BY <4>1, <4>2 DEF BookOf, Halting, Coming, Going, One
    <3>3. 1 <= Cardinality(StandingOn(t.at))
      <4>1. {t} \in SUBSET StandingOn(t.at)
        BY <3>1
      <4> QED
        BY <3>1, <4>1, Smaller, NoneAndOne
    <3> QED
      BY <3>1, <3>2, <3>3
  <2>2. upd'.pc # "fetch" \/ \A t \in Standing' : t.at \in upd'.asked
    BY <1>3, <2>1 DEF Begins, From
  <2> QED
    BY <1>0, <1>2, <1>3, <2>2 DEF Begins, From, KeptAll, Serving, Before, Rolls, Overlaps
<1>4. CASE Fetches
  <2>1. upd.pc = "fetch" /\ upd'.pc = "store" /\ upd.sent = 0 /\ upd'.sent = 0
        /\ Cardinality(Standing) >= OldCount /\ \A t \in Standing : t.at \in upd.asked
    BY <1>4 DEF Fetches, From, Serving, Before
  <2>2. upd'.olds = Standing
    BY <1>0, <1>4, <2>1, StandingTyped DEF Fetches, Known, Before, Standing
  <2>3. Gained' = 0
    BY <1>1, <2>1 DEF Gained
  <2> QED
    <3>1. Cardinality(upd'.olds) >= OldCount /\ Cardinality(upd'.olds) \in Nat
      BY <1>0, <1>1, <2>1, <2>2, ServingTyped
    <3> QED
      BY <1>0, <1>1, <1>2, <2>1, <2>3, <3>1 DEF Serving, Before, Rolls
<1>5. CASE Proceeds
  <2>1. Recruits' = Recruits /\ KeptAll
    BY <1>2, <1>5, SameRecruits DEF Proceeds, KeptAll
  <2>2. CASE From("store", "next") \/ From("pass", "pass")
    <3>1. Gained' = Gained
      BY <2>1, <2>2 DEF Gained, From, KeptAll
    <3>2. upd'.policy = upd.policy
      BY DEF UpdateStep
    <3> QED
      BY <1>2, <2>1, <2>2, <3>1, <3>2 DEF Serving, Before, Rolls, From, KeptAll, Kept
  <2>3. CASE /\ ~ From("store", "next") /\ ~ From("pass", "pass")
    BY <1>2, <1>5, <2>3 DEF Proceeds, Serving, Before, Rolls, From
  <2> QED
    BY <2>2, <2>3
<1> QED
  BY <1>3, <1>4, <1>5

LEMMA ServingNext ==
  ASSUME Undisturbing, UpdateStep, Overlaps, Serving,
         (\E t \in upd.olds : PicksOld(t)) \/ AsksForNew \/ RunsOut
  PROVE  Serving'
<1>0. /\ TypeOK /\ TypeOK' /\ Known /\ Known' /\ Overlaps' /\ upd'.policy = upd.policy
  BY KnownInUpdate DEF Undisturbing, TypeInv, UpdateStep, Overlaps
<1>1. /\ upd.olds \in SUBSET Task /\ Cardinality(Recruits) \in Nat /\ NewCount \in Nat \ {0}
      /\ upd.sent \in Nat /\ OldCount \in Nat /\ Cardinality(Standing) \in Nat
      /\ Cardinality(upd.olds) \in Nat /\ upd.olds \subseteq Standing /\ NoTask \notin Standing
  BY <1>0, ServingTyped
<1>2. tasks' = tasks /\ Standing' = Standing /\ upd.pc = "next" /\ upd.cur = NoTask
  BY <1>0, SameStanding DEF PicksOld, AsksForNew, RunsOut, Steady, From, Known, HasOld
<1>3. /\ Cardinality(Recruits) >= (IF upd.sent <= NewCount THEN upd.sent ELSE NewCount)
      /\ upd.policy = "rolling" => Cardinality(upd.olds) + upd.sent >= OldCount
      /\ upd.policy = "bluegreen" /\ upd.sent <= NewCount => Cardinality(upd.olds) >= OldCount
  BY <1>2 DEF Serving, Rolls, Gained
<1>4. ASSUME NEW t \in upd.olds, PicksOld(t) PROVE Serving'
  <2>1. Recruits' = Recruits
    BY <1>1, <1>2, <1>4 DEF PicksOld, Recruits
  <2>2. Cardinality(upd'.olds) = Cardinality(upd.olds) - 1
    BY <1>1, <1>4, OneLess DEF PicksOld
  <2>3. upd'.sent = upd.sent + 1
    BY <1>4 DEF PicksOld
  <2>4. CASE upd'.pc = "pass" /\ upd.policy = "rolling" /\ upd.sent < NewCount
    BY <1>0, <1>1, <1>3, <2>1, <2>2, <2>3, <2>4 DEF Serving, Before, Rolls, Gained
  <2>5. CASE upd'.pc = "stop" /\ upd.sent >= NewCount
    BY <1>0, <1>1, <1>3, <2>1, <2>2, <2>3, <2>5 DEF Serving, Before, Rolls, Gained
  <2> QED
    BY <1>4, <2>4, <2>5 DEF PicksOld
<1>5. CASE AsksForNew
  <2>1. /\ Recruits' = Recruits /\ upd'.olds = upd.olds /\ upd'.sent = upd.sent + 1
        /\ upd'.pc = "pass" /\ upd.policy = "bluegreen" /\ upd.sent < NewCount
    BY <1>2, <1>5, SameRecruits DEF AsksForNew, From, Kept
  <2> QED
    BY <1>0, <1>1, <1>3, <2>1 DEF Serving, Before, Rolls, Gained
<1>6. CASE RunsOut
  <2>1. upd.olds = {} /\ upd'.pc = "unlock" /\ (upd.policy = "rolling" \/ upd.sent >= NewCount)
    BY <1>6 DEF RunsOut, From
  <2>2. Cardinality(upd.olds) = 0 /\ Cardinality(Standing) >= Cardinality(Recruits)
    BY <1>0, <1>1, <2>1, NoneAndOne, StandingIsBoth
  <2>3. Cardinality(Standing) >= Least
    BY <1>1, <1>3, <2>1, <2>2, <1>0 DEF Least, Overlaps
  <2> QED
    BY <1>2, <2>1, <2>3 DEF Serving, Before, Rolls
<1> QED
  BY <1>4, <1>5, <1>6

LEMMA ServingGoesOn ==
  ASSUME Undisturbing, UpdateStep, Overlaps, Serving,
         (\E a \in Agent : Gains(a)) \/ Counts \/ GivesUp
  PROVE  Serving'
<1>0. /\ TypeOK /\ TypeOK' /\ Known /\ Known' /\ Overlaps' /\ upd'.policy = upd.policy
  BY KnownInUpdate DEF Undisturbing, TypeInv, UpdateStep, Overlaps
<1>1. /\ Recruits \in SUBSET Task /\ Cardinality(Recruits) \in Nat /\ NewCount \in Nat \ {0}
      /\ upd.sent \in Nat /\ OldCount \in Nat \ {0} /\ Cardinality(Standing) \in Nat
      /\ Cardinality(upd.olds) \in Nat /\ upd.olds \subseteq Standing
  BY <1>0, ServingTyped
<1>2. /\ upd.pc \in {"pass", "track", "inplace"} /\ upd.sent \in 1 .. NewCount
      /\ Cardinality(Recruits) >= (IF upd.pc = "track" THEN upd.sent ELSE upd.sent - 1)
      /\ upd.policy = "rolling" => Cardinality(upd.olds) + upd.sent >= OldCount
      /\ upd.policy = "bluegreen" => Cardinality(upd.olds) >= OldCount
      /\ Kept
  BY <1>1 DEF Gains, Counts, GivesUp, From, KeptAll, Serving, Rolls, Gained
<1>3. ASSUME NEW a \in Agent, Gains(a) PROVE Serving'
  <2>1. PICK n : Joins(n)
    BY <1>3 DEF Gains
  <2>2. Recruits' = Recruits \cup {n} /\ n \notin Recruits
    BY <1>0, <1>2, <2>1, JoinsStanding DEF Kept, Recruits
  <2>3. Cardinality(Recruits') = Cardinality(Recruits) + 1
    BY <1>1, <2>2, OneMore
  <2>4. upd'.pc = "track" /\ upd.pc = "pass" /\ upd'.sent = upd.sent /\ upd'.olds = upd.olds
    BY <1>3 DEF Gains, From, KeptAll, Kept
  <2> QED
    BY <1>0, <1>1, <1>2, <2>3, <2>4 DEF Serving, Before, Rolls, Gained
<1>4. CASE Counts
  <2>1. /\ Recruits' = Recruits /\ upd'.olds = upd.olds /\ upd'.sent = upd.sent /\ upd.pc = "track"
        /\ \/ upd.policy = "rolling" /\ upd'.pc = "stop"
           \/ upd.policy = "bluegreen" /\ upd'.pc = "next"
    BY <1>0, <1>2, <1>4, SameRecruits DEF Counts, Kept, Overlaps
  <2> QED
    BY <1>0, <1>1, <1>2, <2>1 DEF Serving, Before, Rolls, Gained
<1>5. CASE GivesUp
  <2>1. /\ Recruits' = Recruits /\ upd'.olds = upd.olds /\ upd'.sent = upd.sent /\ Standing' = Standing
        /\ upd.pc \in {"pass", "inplace"}
        /\ \/ upd.pc = "pass" /\ upd'.pc = "inplace" /\ upd.policy = "rolling"
           \/ upd'.pc = "unlock"
    BY <1>2, <1>5, SameRecruits DEF GivesUp, KeptAll, Kept, Steady, From
  <2>2. CASE upd.pc = "pass" /\ upd'.pc = "inplace" /\ upd.policy = "rolling"
    BY <1>0, <1>1, <1>2, <2>1, <2>2 DEF Serving, Before, Rolls, Gained
  <2>3. CASE upd'.pc = "unlock"
    <3>1. upd.policy = "rolling" => upd.cur \in Standing
      BY <1>0, <2>1 DEF Known, HasOld
    <3>2. Cardinality(Standing) >= OldCount
      BY <1>0, <1>1, <1>2, <2>1, <3>1, StandingIsBoth DEF Overlaps
    <3>3. Cardinality(Standing') >= Least
      BY <1>1, <2>1, <3>2 DEF Least
    <3> QED
      BY <2>3, <3>3 DEF Serving, Before, Rolls
  <2> QED
    BY <2>1, <2>2, <2>3
<1> QED
  BY <1>3, <1>4, <1>5

LEMMA ServingEnds ==
  ASSUME Undisturbing, UpdateStep, Overlaps, Serving,
         Swaps \/ Stops \/ Strikes \/ Returns
  PROVE  Serving'
<1>0. /\ TypeOK /\ TypeOK' /\ Known /\ Known' /\ Overlaps' /\ upd'.policy = upd.policy
  BY KnownInUpdate DEF Undisturbing, TypeInv, UpdateStep, Overlaps
<1>1. /\ Recruits \in SUBSET Task /\ Cardinality(Recruits) \in Nat /\ NewCount \in Nat \ {0}
      /\ upd.sent \in Nat /\ OldCount \in Nat \ {0} /\ Standing \in SUBSET Task
      /\ Cardinality(upd.olds) \in Nat /\ upd.olds \subseteq Standing /\ NoTask \notin Standing
  BY <1>0, ServingTyped
<1>2. CASE Swaps
  <2>1. PICK n \in Task : /\ n \notin Standing /\ n \notin upd.olds \cup {upd.cur}
                          /\ Standing' = (Standing \ {upd.cur}) \cup {n}
    BY <1>2 DEF Swaps
  <2>2. upd'.cur = NoTask /\ upd'.olds = upd.olds /\ upd'.sent = upd.sent /\ upd'.pc = "next"
        /\ upd.pc = "inplace" /\ NoTask \notin Task
    BY <1>2, NoTaskIsNone DEF Swaps, From
  <2>3. Recruits' = Recruits \cup {n} /\ n \notin Recruits
    BY <1>1, <2>1, <2>2 DEF Recruits
  <2>4. Cardinality(Recruits') = Cardinality(Recruits) + 1
    BY <1>1, <2>3, OneMore
  <2> QED
    BY <1>0, <1>1, <2>2, <2>4 DEF Serving, Before, Rolls, Gained
<1>3. CASE Stops
  <2>1. Standing' = Standing \ {upd.cur}
    BY <1>0, <1>3, HaltsStanding DEF Stops, Known
  <2>2. upd'.cur = upd.cur /\ upd'.olds = upd.olds /\ upd'.sent = upd.sent /\ upd'.pc = "unbook"
        /\ upd.pc = "stop"
    BY <1>3 DEF Stops, From, KeptAll, Kept
  <2>3. Recruits' = Recruits
    BY <2>1, <2>2 DEF Recruits
  <2> QED
    BY <1>0, <1>1, <2>2, <2>3 DEF Serving, Before, Rolls, Gained
<1>4. CASE Strikes
  <2>1. Standing' = Standing
    BY <1>4, SameStanding DEF Strikes
  <2>2. upd'.cur = NoTask /\ upd'.olds = upd.olds /\ upd'.sent = upd.sent /\ upd'.pc = "next"
        /\ upd.pc = "unbook"
    BY <1>4 DEF Strikes, From
  <2>3. upd.cur \notin Standing
    BY <1>0, <2>2 DEF Known, Standing
  <2>4. Recruits' = Recruits
    BY <1>1, <2>1, <2>2, <2>3 DEF Recruits
  <2> QED
    BY <1>0, <1>1, <2>2, <2>4 DEF Serving, Before, Rolls, Gained
<1>5. CASE Returns
  <2>1. Standing' = Standing /\ upd.pc = "unlock" /\ upd'.pc \in {"over", "finish"}
    BY <1>5, SameStanding DEF Returns, Steady
  <2> QED
    BY <2>1 DEF Serving, Before, Rolls
<1> QED
  BY <1>2, <1>3, <1>4, <1>5

LEMMA ServingInUpdate ==
  ASSUME Undisturbing, UpdateStep, Overlaps, Serving
  PROVE  Serving'
<1>1. Known
  BY DEF Undisturbing
<1>2. ~ (Wipes \/ \E b \in Agent : HaltsOn(b))
  BY <1>1 DEF Wipes, HaltsOn, From, Known, Overlaps
<1>3. ~ Restarts
  BY <1>1 DEF Restarts, From, Known, Overlaps
<1> QED
  BY <1>2, <1>3, ServingBegins, ServingNext, ServingGoesOn, ServingEnds DEF UpdateStep

LEMMA ServingBeside ==
  ASSUME Undisturbing, RecStep, Overlaps, Serving
  PROVE  Serving'
<1>0. /\ TypeOK /\ Known /\ upd' = upd
      /\ \/ tasks' = tasks
         \/ rec.pc = "pass" /\ \E n : Joins(n)
  BY RecOnlyStarts DEF Undisturbing, TypeInv
<1>1. CASE tasks' = tasks
  <2>1. Standing' = Standing /\ Recruits' = Recruits
    BY <1>0, <1>1, SameStanding DEF Recruits
  <2> QED
    BY <1>0, <2>1 DEF Serving, Before, Rolls, Gained
<1>2. ASSUME NEW n, Joins(n), rec.pc = "pass" PROVE Serving'
  <2>1. /\ Standing' = Standing \cup {n} /\ n \notin Standing /\ n \notin upd.olds \cup {upd.cur}
    BY <1>0, <1>2, JoinsStanding
  <2>2. Recruits' = Recruits \cup {n} /\ n \notin Recruits
    BY <1>0, <2>1 DEF Recruits
  <2>3. /\ Cardinality(Standing') = Cardinality(Standing) + 1
        /\ Cardinality(Recruits') = Cardinality(Recruits) + 1
        /\ Cardinality(Standing) \in Nat /\ Cardinality(Recruits) \in Nat
    BY <1>0, <2>1, <2>2, ServingTyped, OneMore
  <2>4. upd.pc # "fetch"
    BY <1>2 DEF Undisturbing, Exclusive, RecHas, UpdateHas
  <2>5. Gained' = Gained /\ Gained \in Int /\ OldCount \in Nat /\ Least \in Nat
    BY <1>0, ServingTyped DEF Gained, Least
  <2> QED
    BY <1>0, <2>3, <2>4, <2>5 DEF Serving, Before, Rolls
<1> QED
  BY <1>0, <1>1, <1>2

-----------------------------------------------------------------------------
(* A status that tells the truth.                                          *)

\* The books of all agents together are not short of an instance, other than the
\* one that is being counted.
LEMMA BooksCover ==
  ASSUME TypeOK, agents = Agent, Books, rec.pc # "track", upd.pc # "halt"
  PROVE  Cardinality(Booked) + One(upd.pc = "track") >= Cardinality(Standing)
<1> DEFINE Size(a) == Cardinality(StandingOn(a))
           Numbering(a) == CHOOSE f : f \in Surjection(1 .. Size(a), StandingOn(a))
           Counted == UNION {{a} \X (1 .. Size(a)) : a \in Agent}
           Last == {<<upd.at, Size(upd.at)>>}
           Whole == IF upd.pc = "track" THEN Booked \cup Last ELSE Booked
           num == [p \in Counted |-> Numbering(p[1])[p[2]]]
<1>1. ASSUME NEW a \in Agent
      PROVE  /\ Size(a) \in Nat /\ placed[a] \in Nat
             /\ placed[a] + One(Coming(a)) >= Size(a)
             /\ Numbering(a) \in Surjection(1 .. Size(a), StandingOn(a))
  <2>1. StandingOn(a) \in SUBSET Task /\ BookOf(a) /\ placed[a] \in Nat /\ Size(a) \in Nat
    BY StandingTyped, BooksTyped
  <2>2. placed[a] + One(Coming(a)) >= Size(a)
    BY <2>1 DEF BookOf, Halting, One
  <2>3. \E f : f \in Surjection(1 .. Size(a), StandingOn(a))
    BY <2>1, Finite, FS_CardinalityType DEF ExistsBijection, Bijection
  <2>4. Numbering(a) \in Surjection(1 .. Size(a), StandingOn(a))
    BY <2>3
  <2> QED
    BY <2>1, <2>2, <2>4
<1>2. Counted \subseteq Whole
  <2> SUFFICES ASSUME NEW a \in Agent, NEW i \in 1 .. Size(a) PROVE <<a, i>> \in Whole
    OBVIOUS
  <2>1. i <= placed[a] => <<a, i>> \in Booked
    BY <1>1 DEF Booked
  <2>2. ~ (i <= placed[a]) => i = Size(a) /\ Coming(a)
    BY <1>1 DEF One
  <2>3. Coming(a) => upd.pc = "track" /\ upd.at = a
    BY DEF Coming
  <2> QED
    BY <2>1, <2>2, <2>3
<1>3. IsFiniteSet(Whole) /\ Cardinality(Whole) <= Cardinality(Booked) + One(upd.pc = "track")
  <2>1. IsFiniteSet(Booked) /\ Cardinality(Booked) \in Nat
    BY BookedFinite
  <2>2. /\ IsFiniteSet(Booked \cup Last)
        /\ \/ Cardinality(Booked \cup Last) = Cardinality(Booked)
           \/ Cardinality(Booked \cup Last) = Cardinality(Booked) + 1
    BY <2>1, FS_AddElement
  <2> QED
    BY <2>1, <2>2 DEF One
<1>4. IsFiniteSet(Counted) /\ Cardinality(Counted) <= Cardinality(Whole)
  BY <1>2, <1>3, FS_Subset
<1>5. num \in Surjection(Counted, Standing)
  <2>1. ASSUME NEW p \in Counted PROVE num[p] \in Standing
    <3>1. PICK a \in Agent : p \in {a} \X (1 .. Size(a))
      OBVIOUS
    <3>2. p[1] = a /\ p[2] \in 1 .. Size(a) /\ num[p] = Numbering(p[1])[p[2]]
      BY <3>1
    <3>3. Numbering(a)[p[2]] \in StandingOn(a)
      BY <1>1, <3>2 DEF Surjection
    <3> QED
      BY <3>2, <3>3 DEF StandingOn
  <2>2. ASSUME NEW t \in Standing PROVE \E p \in Counted : num[p] = t
    <3>1. t.at \in Agent /\ t \in StandingOn(t.at)
      BY StandingTyped
    <3>2. PICK i \in 1 .. Size(t.at) : Numbering(t.at)[i] = t
      BY <1>1, <3>1 DEF Surjection
    <3>3. <<t.at, i>> \in Counted
      BY <3>1
    <3>4. num[<<t.at, i>>] = t
      BY <3>2, <3>3
    <3> QED
      BY <3>3, <3>4
  <2>3. num \in [Counted -> Standing]
    BY <2>1
  <2> QED
    BY <2>2, <2>3 DEF Surjection
<1>6. Cardinality(Standing) <= Cardinality(Counted)
  BY <1>4, <1>5, FS_Surjection
<1>7. /\ Cardinality(Standing) \in Nat /\ Cardinality(Counted) \in Nat /\ Cardinality(Whole) \in Nat
      /\ Cardinality(Booked) \in Nat
  BY <1>3, <1>4, StandingTyped, Finite, FS_CardinalityType, BookedFinite
<1> QED
  BY <1>3, <1>4, <1>6, <1>7 DEF One

\* Whenever a reconciliation counts, all that the old version wanted is there, if
\* the new version does not want less.
LEMMA NoneMissing ==
  ASSUME Undisturbing, Overlaps, Serving, OldCount <= NewCount, rec.pc = "count"
  PROVE  OldCount <= Cardinality(Booked)
<1>0. /\ TypeOK /\ Known /\ Books /\ agents = Agent
  BY DEF Undisturbing, TypeInv, Peace
<1>1. /\ Cardinality(Standing) \in Nat /\ Cardinality(Recruits) \in Nat /\ Cardinality(Booked) \in Nat
      /\ Cardinality(upd.olds) \in Nat /\ upd.sent \in Nat
      /\ OldCount \in Nat \ {0} /\ NewCount \in Nat \ {0}
  BY <1>0, ServingTyped, BookedFinite
<1>2. upd.pc # "halt"
  BY <1>0 DEF Known, Overlaps
<1>3. Cardinality(Booked) + One(upd.pc = "track") >= Cardinality(Standing)
  BY <1>0, <1>2, BooksCover
<1>4. Cardinality(Standing) >= OldCount + One(upd.pc = "track")
  <2>1. CASE Before
    BY <1>1, <2>1 DEF Before, Serving, One
  <2>2. CASE ~ Before /\ ~ Rolls
    BY <1>1, <2>2 DEF Rolls, Serving, One, Least
  <2>3. CASE Rolls
    <3>1. /\ Cardinality(Recruits) >= Gained
          /\ upd.policy = "rolling" => Cardinality(upd.olds) + upd.sent >= OldCount
          /\ upd.policy = "bluegreen" /\ upd.sent <= NewCount => Cardinality(upd.olds) >= OldCount
          /\ upd.pc \in {"pass", "track", "inplace"} => upd.sent \in 1 .. NewCount
      BY <2>3 DEF Serving
    <3>2. /\ Cardinality(Standing) >= Cardinality(Recruits) + Cardinality(upd.olds)
          /\ upd.cur \in Standing =>
               Cardinality(Standing) >= Cardinality(Recruits) + Cardinality(upd.olds) + 1
      BY <1>0, StandingIsBoth
    <3>3. /\ upd.pc \in {"pass", "track", "inplace"} /\ upd.policy = "rolling" => upd.cur \in Standing
      BY <1>0 DEF Known, HasOld
    <3>4. CASE upd.policy = "rolling"
      BY <1>1, <3>1, <3>2, <3>3, <3>4 DEF Gained, One
    <3>5. CASE upd.policy = "bluegreen"
      BY <1>1, <3>1, <3>2, <3>5 DEF Gained, One
    <3> QED
      BY <3>4, <3>5 DEF Overlaps
  <2> QED
    BY <2>1, <2>2, <2>3
<1> QED
  BY <1>1, <1>3, <1>4 DEF One

LEMMA HonestInUpdate ==
  ASSUME Undisturbing, UpdateStep, Overlaps, Serving, Honest
  PROVE  Honest'
<1>0. /\ TypeOK /\ Known /\ rec' = rec /\ Stored /\ NoTask \notin Standing
      /\ ~ Wipes /\ ~ Restarts /\ \A b \in Agent : ~ HaltsOn(b)
  <2>1. Known /\ TypeOK
    BY DEF Undisturbing, TypeInv
  <2> QED
    BY <2>1, StandingTyped, NoTaskIsNone
    DEF UpdateStep, Wipes, Restarts, HaltsOn, From, Known, Overlaps
\* No instance of the old version appears, and those that are not done stay listed.
<1>1. OldOnes' \subseteq OldOnes /\ (Rolls' => OldOnes' \subseteq upd'.olds \cup {upd'.cur})
  <2>1. ASSUME tasks' = tasks PROVE Standing' = Standing /\ OldOnes' = OldOnes
    BY <2>1, SameStanding DEF OldOnes
  <2> USE <1>0 DEF Honest, Rolls, From, Steady, Kept, KeptAll
  <2>2. CASE Begins \/ Proceeds \/ AsksForNew \/ RunsOut \/ GivesUp \/ Returns \/ Counts
    BY <2>1, <2>2 DEF Begins, Proceeds, AsksForNew, RunsOut, GivesUp, Returns, Counts
  <2>3. CASE Fetches
    <3>1. \A t \in Standing : t.at \in upd.asked
      BY <2>3 DEF Fetches, Serving
    <3>2. Standing \subseteq upd'.olds
      BY <2>3, <3>1 DEF Fetches, Standing
    <3> QED
      BY <2>1, <2>3, <3>2 DEF Fetches, OldOnes
  <2>4. ASSUME NEW t \in upd.olds, PicksOld(t) 
        PROVE  OldOnes' \subseteq OldOnes /\ (Rolls' => OldOnes' \subseteq upd'.olds \cup {upd'.cur})
    <3>1. upd.cur \notin OldOnes
      BY <2>4 DEF PicksOld, Known, HasOld, OldOnes
    <3> QED
      BY <2>1, <2>4, <3>1 DEF PicksOld
  <2>5. ASSUME NEW a \in Agent, Gains(a)
        PROVE  OldOnes' \subseteq OldOnes /\ (Rolls' => OldOnes' \subseteq upd'.olds \cup {upd'.cur})
    <3>1. PICK n : Joins(n) /\ n.ver = 2
      BY <2>5 DEF Gains
    <3>2. OldOnes' = OldOnes
      BY <3>1, JoinsStanding DEF OldOnes
    <3> QED
      BY <2>5, <3>2 DEF Gains
  <2>6. CASE Swaps
    <3>1. OldOnes' = OldOnes \ {upd.cur}
      BY <2>6 DEF Swaps, OldOnes
    <3> QED
      BY <2>6, <3>1 DEF Swaps
  <2>7. CASE Stops
    <3>1. OldOnes' = OldOnes \ {upd.cur}
      BY <2>7, HaltsStanding DEF Stops, OldOnes, Known
    <3> QED
      BY <2>7, <3>1 DEF Stops
  <2>8. CASE Strikes
    <3>1. upd.cur \notin OldOnes
      BY <2>8 DEF Strikes, Known, OldOnes, Standing
    <3> QED
      BY <2>1, <2>8, <3>1 DEF Strikes
  <2> HIDE DEF Honest, Rolls, From, Steady, Kept, KeptAll
  <2> QED
    BY <2>2, <2>3, <2>4, <2>5, <2>6, <2>7, <2>8 DEF UpdateStep
<1>2. upd'.pc = "unlock" /\ upd'.ok => OldOnes' = {}
  <2>1. upd'.pc = "unlock" => RunsOut \/ GivesUp
    BY <1>0 DEF UpdateStep, Begins, Fetches, Proceeds, PicksOld, AsksForNew, Gains, Counts,
      Swaps, Stops, Strikes, Returns, From, Overlaps
  <2>2. ASSUME RunsOut PROVE OldOnes = {}
    <3>1. upd.pc = "next" /\ upd.olds = {} /\ upd.cur = NoTask
      BY <1>0, <2>2 DEF RunsOut, From, Known, HasOld
    <3> QED
      BY <1>0, <3>1 DEF Honest, Rolls, OldOnes
  <2>3. upd'.pc = "unlock" /\ GivesUp => ~ upd'.ok
    BY DEF GivesUp, From
  <2> QED
    BY <1>1, <2>1, <2>2, <2>3
<1>3. upd'.pc = "finish" => OldOnes' = {}
  <2>1. upd'.pc = "finish" => upd.pc = "unlock" /\ upd.ok
    BY <1>0 DEF UpdateStep, Begins, Fetches, Proceeds, PicksOld, AsksForNew, RunsOut, Gains,
      Counts, GivesUp, Swaps, Stops, Strikes, Returns, From, Known, Overlaps
  <2> QED
    BY <1>1, <2>1 DEF Honest
<1>4. Definition(2, FALSE) \in {store', rec'.copy} => OldOnes' = {}
  <2>1. Definition(2, TRUE) # Definition(2, FALSE)
    BY DEF Definition
  <2> QED
    BY <1>0, <1>1, <2>1 DEF Stored, Honest
<1> QED
  BY <1>0, <1>1, <1>2, <1>3, <1>4 DEF Honest

LEMMA HonestBeside ==
  ASSUME Undisturbing, RecStep, Overlaps, Serving, Honest, OldCount <= NewCount
  PROVE  Honest'
<1>0. /\ TypeOK /\ Known /\ upd' = upd /\ rec \in RecRec
      /\ rec.pc \notin {"idle", "unlock"} => rec.copy # Gone
  BY RecOnlyStarts, RecordTypes DEF Undisturbing, TypeInv
<1>1. rec'.pc \in {"lock", "pass", "track"} => rec'.copy.ver = 2
  <2>1. CASE RecFrom("count", "lock") /\ Cardinality(Booked) < CountOf(rec.copy.ver)
    <3>1. OldCount <= Cardinality(Booked) /\ rec.pc = "count" /\ rec'.copy = rec.copy
      BY <2>1, NoneMissing DEF RecFrom
    <3>2. rec.copy.ver \in {1, 2}
      BY <1>0, <3>1 DEF RecRec, Definitions
    <3>3. rec.copy.ver # 1
      BY <2>1, <3>1, UpdateAssumption, BookedFinite, <1>0 DEF CountOf
    <3> QED
      BY <3>1, <3>2, <3>3
  <2>2. CASE ~ (RecFrom("count", "lock") /\ Cardinality(Booked) < CountOf(rec.copy.ver))
    BY <2>2 DEF RecStep, Looks, Takes, Starts, Adds, Closes, RecFrom, IdleRec, Honest
  <2> QED
    BY <2>1, <2>2
<1>2. OldOnes' = OldOnes
  <2>1. CASE tasks' = tasks
    BY <2>1, SameStanding DEF OldOnes
  <2>2. ASSUME NEW n, Joins(n), n.ver = rec.copy.ver, rec.pc = "pass" PROVE OldOnes' = OldOnes
    <3>1. Standing' = Standing \cup {n} /\ n.ver = 2
      BY <1>0, <2>2, JoinsStanding DEF Honest
    <3> QED
      BY <3>1 DEF OldOnes
  <2> QED
    BY <2>1, <2>2, RecOnlyStarts
<1>3. Definition(2, FALSE) \in {store', rec'.copy} => Definition(2, FALSE) \in {store, rec.copy}
  <2>1. Definition(2, FALSE) # Gone
    BY DEF Definition, Gone
  <2>2. /\ store' \in {store, rec.copy}
        /\ rec'.copy \in {store, rec.copy} \/ rec'.copy = Gone
    <3>1. IdleRec.copy = Gone
      BY DEF IdleRec
    <3> QED
      BY <3>1 DEF RecStep, Looks, Takes, Starts, Adds, Closes, RecFrom
  <2> QED
    BY <2>1, <2>2
<1> QED
  BY <1>0, <1>1, <1>2, <1>3 DEF Honest, Rolls

-----------------------------------------------------------------------------
(* An undisturbed update, from beginning to end.                           *)

LEMMA FaultsAdd ==
  ASSUME [Next]_vars
  PROVE  faults' = faults \/ faults' = faults + 1
<1> USE DEF Fault, NoFault
<1>1. CASE UNCHANGED vars
  BY <1>1 DEF vars
<1>2. CASE UpdateJob \/ Updating
  BY <1>2 DEF Updating, UpdateJob, LockJob, AskAgents, FetchTasks, StoreNew, RollNext,
    BlueGreenNext, SendNew, Offer, TrackNew, NoRoom, InPlace, StopOld, Unbook, UnlockJob, Finish,
    WipePlaced, HaltTasks, ReleaseFlag, Resubmit, Relock
<1>3. CASE ReconcileJobs \/ Reconciling
  BY <1>3 DEF Reconciling, ReconcileJobs, NormalizePriorities, CheckFlag, CountPlaced,
    LockInstances, SendMissing, Offer, TrackMissing, NoneTakesIt, UnlockInstances
<1>4. CASE PatchRead \/ PatchWrite \/ DeleteJob \/ Deleting
  BY <1>4 DEF PatchRead, PatchWrite, DeleteJob, Deleting, DropJob, WipeAndPurge, Sweep, ClearFlag
<1>5. CASE \/ \E t \in tasks : Start(t) \/ StartFails(t) \/ Removed(t)
           \/ \E a \in Agent : Die(a) \/ CheckDeadAgent(a) \/ NeighbourMoves(a)
  BY <1>5 DEF Start, StartFails, Removed, Die, CheckDeadAgent, NeighbourMoves
<1> QED
  BY <1>1, <1>2, <1>3, <1>4, <1>5 DEF Next

\* What does not touch the update, the reconciliation or an instance that stands.
LEMMA CalmBeside ==
  ASSUME Calm, Known', UNCHANGED <<agents, dead, placed, job, upd, rec, patch, del>>,
         Standing' = Standing, \A a : StandingOn(a)' = StandingOn(a)
  PROVE  Calm'
<1> USE DEF Calm, job
<1>1. Peace' /\ Exclusive' /\ Sited'
  BY DEF Peace, Exclusive, UpdateHas, RecHas, Sited
<1>2. Books'
  BY DEF Books, BookOf, Halting, Coming, Going
<1>3. Overlaps' <=> Overlaps
  BY DEF Overlaps
<1>4. Serving => Serving'
  <2>1. Recruits' = Recruits /\ Gained' = Gained
    BY DEF Recruits, Gained
  <2> QED
    BY <2>1 DEF Serving, Before, Rolls
<1>5. Honest => Honest'
  BY DEF Honest, OldOnes, Rolls
<1> QED
  BY <1>1, <1>2, <1>3, <1>4, <1>5

LEMMA CalmLasts ==
  ASSUME CalmInv, Alone, [Next]_vars
  PROVE  CalmInv'
<1>1. TypeInv /\ TypeInv'
  BY TypesLast DEF CalmInv
<1> SUFFICES ASSUME Undisturbed' PROVE Calm'
  BY <1>1 DEF CalmInv
<1>2. Undisturbed /\ Calm
  <2>1. faults \in Nat
    BY <1>1 DEF TypeInv, TypeOK
  <2> QED
    BY <2>1, FaultsAdd DEF Undisturbed, CalmInv
<1>3. Undisturbing
  BY <1>1, <1>2 DEF Undisturbing, Calm
<1>4. ~ Fault
  BY <1>2 DEF Fault, Undisturbed
<1>5. CASE UNCHANGED vars
  <2>1. tasks' = tasks /\ upd' = upd
    BY <1>5 DEF vars
  <2>2. Standing' = Standing /\ UniqueIDs' = UniqueIDs /\ \A a : StandingOn(a)' = StandingOn(a)
    BY <2>1, SameStanding
  <2>3. Known'
    BY <1>3, <2>1, <2>2 DEF Undisturbing, Known, HasOld, Before
  <2> QED
    BY <1>2, <1>5, <2>2, <2>3, CalmBeside DEF vars, env
<1>6. CASE UpdateJob \/ Updating
  <2>1. UpdateStep
    BY <1>3, <1>6, UpdateSteps
  <2>2. Peace' /\ Exclusive' /\ Known' /\ Sited' /\ Books'
    BY <1>3, <1>6, <2>1, PeaceLasts, StaysExclusive, KnownInUpdate, SitedLasts, BooksInUpdate
  <2>3. Overlaps' <=> Overlaps
    BY <2>1 DEF UpdateStep, Overlaps
  <2>4. Overlaps /\ Serving => Serving' /\ (Honest => Honest')
    BY <1>3, <2>1, ServingInUpdate, HonestInUpdate
  <2> QED
    BY <1>2, <2>2, <2>3, <2>4 DEF Calm
<1>7. CASE ReconcileJobs \/ Reconciling
  <2>1. RecStep
    BY <1>3, <1>7, RecSteps
  <2>2. Peace' /\ Exclusive' /\ Known' /\ Sited' /\ Books'
    BY <1>3, <1>7, <2>1, PeaceLasts, StaysExclusive, KnownBeside, SitedLasts, BooksBeside
  <2>3. Overlaps' <=> Overlaps
    BY <2>1 DEF RecStep, Overlaps
  <2>4. Overlaps /\ Serving => Serving' /\ (OldCount <= NewCount /\ Honest => Honest')
    BY <1>3, <2>1, ServingBeside, HonestBeside
  <2> QED
    BY <1>2, <2>2, <2>3, <2>4 DEF Calm
<1>8. ASSUME NEW t \in tasks, Removed(t) PROVE Calm'
  <2>1. Known' /\ Standing' = Standing /\ \A a : StandingOn(a)' = StandingOn(a)
    BY <1>3, <1>8, KnownRemoved
  <2> QED
    BY <1>2, <1>8, <2>1, CalmBeside DEF Removed, env, notEnv
<1>9. ASSUME (\E t \in tasks : Start(t)) \/ (\E a \in Agent : NeighbourMoves(a)) PROVE Calm'
  <2>1. tasks' = tasks /\ upd' = upd
    BY <1>9 DEF Start, NeighbourMoves, notEnv
  <2>2. Standing' = Standing /\ UniqueIDs' = UniqueIDs /\ \A b : StandingOn(b)' = StandingOn(b)
    BY <2>1, SameStanding
  <2>3. Known'
    BY <1>3, <2>1, <2>2 DEF Undisturbing, Known, HasOld, Before
  <2> QED
    BY <1>2, <1>9, <2>2, <2>3, CalmBeside DEF Start, NeighbourMoves, notEnv, env
\* Nobody patches or deletes, and nothing dies or fails to start.
<1>10. ~ (PatchRead \/ PatchWrite \/ DeleteJob \/ Deleting)
  BY <1>3, <1>4 DEF Undisturbing, Peace, PatchRead, PatchWrite, DeleteJob, Deleting, DropJob,
    WipeAndPurge, Sweep, ClearFlag
<1>11. \A a \in Agent : ~ Die(a) /\ ~ CheckDeadAgent(a)
  BY <1>3, <1>4 DEF Undisturbing, Peace, Die, CheckDeadAgent
<1>12. \A t \in tasks : ~ StartFails(t)
  BY <1>4 DEF StartFails
<1> QED
  BY <1>5, <1>6, <1>7, <1>8, <1>9, <1>10, <1>11, <1>12 DEF Next

LEMMA InitCalm == Init => CalmInv
<1> SUFFICES ASSUME Init PROVE Calm
  BY InitTyped DEF CalmInv
<1>0. TypeOK
  BY InitTyped DEF TypeInv
<1>1. PICK where \in [1 .. OldCount -> Agent] :
        tasks = {[id |-> i, at |-> where[i], ver |-> 1, state |-> "accepted"] : i \in 1 .. OldCount}
  BY DEF Init
<1>2. /\ upd.pc = "idle" /\ upd.olds = {} /\ upd.cur = NoTask /\ upd.sent = 0
      /\ rec.pc = "idle" /\ rec.copy = Gone /\ store = Definition(1, FALSE)
  BY DEF Init, IdleRec
<1>3. Definition(1, FALSE) # Gone /\ Definition(1, FALSE) # Definition(2, FALSE)
      /\ Definition(2, FALSE) # Gone
  BY DEF Definition, Gone
<1>4. Standing = tasks /\ (\A t \in tasks : t.state # "stopping") /\ UniqueIDs
  BY <1>1 DEF Standing, UniqueIDs
<1>5. Peace
  BY <1>2, <1>3 DEF Init, Peace
<1>6. Exclusive /\ Sited
  BY <1>2 DEF Exclusive, UpdateHas, RecHas, Sited
<1>7. Known
  BY <1>2, <1>4 DEF Known, HasOld, Before
<1>8. Books
  <2>1. \A a : StandingOn(a) = On(a)
    BY <1>4 DEF StandingOn, On
  <2>2. \A a \in Agent : placed[a] = Cardinality(On(a)) /\ Cardinality(On(a)) \in Nat
    <3>1. \A a \in Agent : placed[a] = Cardinality(On(a))
      BY DEF Init
    <3> QED
      BY <1>0, <2>1, <3>1, StandingTyped, Finite
  <2> QED
    BY <1>2, <2>1, <2>2 DEF Books, BookOf, Halting, Coming, Going, One
<1>9. Serving
  <2> DEFINE task == [i \in 1 .. OldCount |->
                        [id |-> i, at |-> where[i], ver |-> 1, state |-> "accepted"]]
  <2>1. task \in Injection(1 .. OldCount, tasks)
    <3>1. task \in [1 .. OldCount -> tasks]
      BY <1>1
    <3>2. ASSUME NEW i \in 1 .. OldCount, NEW j \in 1 .. OldCount, task[i] = task[j] PROVE i = j
      <4>1. task[i].id = i /\ task[j].id = j
        OBVIOUS
      <4> QED
        BY <3>2, <4>1
    <3> QED
      BY <3>1, <3>2 DEF Injection, IsInjective
  <2>2. IsFiniteSet(tasks) /\ Cardinality(tasks) \in Nat
    BY <1>0, Finite DEF TypeOK
  <2>3. Cardinality(1 .. OldCount) = OldCount
    BY FiniteUpTo, UpdateAssumption
  <2>4. Cardinality(tasks) >= OldCount
    <3>1. Cardinality(1 .. OldCount) <= Cardinality(tasks)
      BY <2>1, <2>2, FS_Injection
    <3> QED
      BY <2>2, <2>3, <3>1, UpdateAssumption
  <2> QED
    BY <1>2, <1>4, <2>4 DEF Serving, Before, Rolls
<1>10. Honest
  BY <1>2, <1>3 DEF Honest, Rolls
<1> QED
  BY <1>5, <1>6, <1>7, <1>8, <1>9, <1>10 DEF Calm

\* What a calm state promises.
LEMMA CalmServes == CalmInv => KeepsInstances
<1> SUFFICES ASSUME CalmInv, Undisturbed, Overlaps
             PROVE  Cardinality(Standing) >= Min({OldCount, NewCount})
  BY DEF KeepsInstances
<1>0. TypeOK /\ Known /\ Serving
  BY DEF CalmInv, TypeInv, Calm
<1>1. /\ Cardinality(Standing) \in Nat /\ Cardinality(Recruits) \in Nat
      /\ Cardinality(upd.olds) \in Nat /\ upd.sent \in Nat
      /\ OldCount \in Nat \ {0} /\ NewCount \in Nat \ {0}
  BY <1>0, ServingTyped
<1>2. Cardinality(Standing) >= Least
  <2>1. CASE Before
    BY <1>0, <1>1, <2>1 DEF Before, Serving, Least
  <2>2. CASE ~ Before /\ ~ Rolls
    BY <1>0, <2>2 DEF Serving
  <2>3. CASE Rolls
    <3>1. /\ Cardinality(Recruits) >= Gained
          /\ upd.policy = "rolling" => Cardinality(upd.olds) + upd.sent >= OldCount
          /\ upd.policy = "bluegreen" /\ upd.sent <= NewCount => Cardinality(upd.olds) >= OldCount
          /\ upd.pc \in {"pass", "track", "inplace"} => upd.sent \in 1 .. NewCount
      BY <1>0, <2>3 DEF Serving
    <3>2. /\ Cardinality(Standing) >= Cardinality(Recruits) + Cardinality(upd.olds)
          /\ upd.cur \in Standing =>
               Cardinality(Standing) >= Cardinality(Recruits) + Cardinality(upd.olds) + 1
      BY <1>0, StandingIsBoth
    <3>3. /\ upd.pc \in {"pass", "track", "inplace"} /\ upd.policy = "rolling" => upd.cur \in Standing
      BY <1>0 DEF Known, HasOld
    <3>4. CASE upd.policy = "rolling"
      BY <1>1, <3>1, <3>2, <3>3, <3>4 DEF Gained, Least
    <3>5. CASE upd.policy = "bluegreen"
      BY <1>1, <3>1, <3>2, <3>5 DEF Gained, Least
    <3> QED
      BY <3>4, <3>5 DEF Overlaps
  <2> QED
    BY <2>1, <2>2, <2>3
<1>3. Min({OldCount, NewCount}) = Least
  <2>1. Least \in {OldCount, NewCount} /\ \A n \in {OldCount, NewCount} : Least <= n
    BY <1>1 DEF Least
  <2>2. Min({OldCount, NewCount}) \in {OldCount, NewCount}
        /\ \A n \in {OldCount, NewCount} : Min({OldCount, NewCount}) <= n
    BY <2>1 DEF Min
  <2> QED
    BY <1>1, <2>1, <2>2
<1> QED
  BY <1>2, <1>3

LEMMA CalmBalances == CalmInv => BooksBalance
<1> SUFFICES ASSUME CalmInv, Undisturbed, Quiet, NEW a \in Agent
             PROVE  placed[a] = Cardinality(StandingOn(a))
  BY DEF BooksBalance, StandingOn
<1>1. /\ BookOf(a) /\ placed[a] \in Nat /\ Cardinality(StandingOn(a)) \in Nat
  BY BooksTyped DEF CalmInv, TypeInv, Calm
<1> QED
  BY <1>1 DEF BookOf, Halting, Coming, Going, One, Quiet

LEMMA CalmIsHonest == ASSUME OldCount <= NewCount, CalmInv PROVE HonestStatus
<1> SUFFICES ASSUME Undisturbed, Overlaps, store = Definition(2, FALSE), NEW t \in Standing
             PROVE  t.ver = 2
  BY DEF HonestStatus
<1>1. OldOnes = {} /\ TypeOK
  BY DEF CalmInv, TypeInv, Calm, Honest
<1>2. t.ver \in {1, 2}
  BY <1>1 DEF Standing, TypeOK, Task
<1> QED
  BY <1>1, <1>2 DEF OldOnes

\* An agent with room for one instance never has two that stand.
OneStanding == \A a \in Agent : \A t, u \in StandingOn(a) : t = u

\* What any step does to the instances.
LEMMA TasksChange ==
  ASSUME TypeInv, [Next]_vars
  PROVE  \/ tasks' \subseteq tasks
         \/ \E id : tasks' = {IF t.id = id THEN Stopped(t) ELSE t : t \in tasks}
         \/ \E t \in tasks : StartFails(t)
         \/ \E a \in Agent, v \in {1, 2} : Accept(a, v)
         \/ \E a \in Agent : Replace(a)
<1>1. CASE UNCHANGED vars
  BY <1>1 DEF vars
<1>2. CASE SendNew \/ SendMissing
  <2>1. PICK g, h, v : /\ Offer(g, h, v) /\ v \in {1, 2} /\ g.untried \subseteq Agent
    <3>1. CASE SendNew
      <4>1. upd.untried \subseteq Agent /\ Offer(upd, upd', 2) /\ 2 \in {1, 2}
        BY <3>1, RecordTypes DEF SendNew, TypeInv, UpdRec
      <4> QED
        BY <4>1
    <3>2. CASE SendMissing
      <4>1. rec.untried \subseteq Agent /\ Offer(rec, rec', rec.copy.ver) /\ rec.pc = "pass"
        BY <3>2, RecordTypes DEF SendMissing, TypeInv, RecRec, Offer
      <4>2. rec.copy.ver \in {1, 2}
        BY <4>1, RecordTypes DEF TypeInv, RecRec, Definitions
      <4> QED
        BY <4>1, <4>2
    <3> QED
      BY <1>2, <3>1, <3>2
  <2> QED
    BY <2>1 DEF Offer, Refuse
<1>3. CASE InPlace
  BY <1>3 DEF InPlace, TypeInv
<1>4. CASE \/ UpdateJob \/ LockJob \/ AskAgents \/ FetchTasks \/ StoreNew \/ RollNext \/ BlueGreenNext
           \/ TrackNew \/ NoRoom \/ Unbook \/ UnlockJob \/ Finish
           \/ WipePlaced \/ HaltTasks \/ ReleaseFlag \/ Resubmit \/ Relock
  BY <1>4 DEF UpdateJob, LockJob, AskAgents, FetchTasks, StoreNew, RollNext, BlueGreenNext,
    TrackNew, NoRoom, Unbook, UnlockJob, Finish, WipePlaced, HaltTasks, ReleaseFlag, Resubmit,
    Relock
<1>8. CASE StopOld
  BY <1>8 DEF StopOld
<1>5. CASE \/ ReconcileJobs \/ NormalizePriorities \/ CheckFlag \/ CountPlaced \/ LockInstances
           \/ TrackMissing \/ NoneTakesIt \/ UnlockInstances
  BY <1>5 DEF ReconcileJobs, NormalizePriorities, CheckFlag, CountPlaced, LockInstances,
    TrackMissing, NoneTakesIt, UnlockInstances
<1>6. CASE PatchRead \/ PatchWrite \/ DeleteJob \/ Deleting
  BY <1>6 DEF PatchRead, PatchWrite, DeleteJob, Deleting, DropJob, WipeAndPurge, Sweep, ClearFlag
<1>7. CASE \/ \E t \in tasks : Start(t) \/ Removed(t)
           \/ \E a \in Agent : Die(a) \/ CheckDeadAgent(a) \/ NeighbourMoves(a)
  BY <1>7 DEF Start, Removed, Die, CheckDeadAgent, NeighbourMoves
<1> QED
  BY <1>1, <1>2, <1>3, <1>4, <1>5, <1>6, <1>7, <1>8 DEF Next, Updating, Reconciling

LEMMA OneStandingLasts ==
  ASSUME \A a \in Agent : Room[a] <= 1, TypeInv, OneStanding, [Next]_vars
  PROVE  OneStanding'
<1>0. TypeOK /\ Room \in [Agent -> Nat]
  BY UpdateAssumption DEF TypeInv
<1>1. CASE tasks' \subseteq tasks
  <2>1. \A a : StandingOn(a)' \subseteq StandingOn(a)
    BY <1>1 DEF StandingOn, On, Standing
  <2> QED
    BY <2>1 DEF OneStanding
<1>4. ASSUME NEW id, tasks' = {IF t.id = id THEN Stopped(t) ELSE t : t \in tasks} PROVE OneStanding'
  <2>1. \A t \in tasks : Stopped(t).state = "stopping"
    BY <1>0 DEF TypeOK, Task, Stopped
  <2>2. Standing' \subseteq Standing
    BY <1>4, <2>1 DEF Standing
  <2>3. \A a : StandingOn(a)' \subseteq StandingOn(a)
    BY <2>2 DEF StandingOn, On, Standing
  <2> QED
    BY <2>3 DEF OneStanding
<1>5. ASSUME NEW t \in tasks, StartFails(t) PROVE OneStanding'
  <2> DEFINE n == NewTask(t.at, t.ver, "accepted")
  <2>1. tasks' \subseteq (tasks \ {t}) \cup {n} /\ t \in StandingOn(t.at) /\ t.at \in Agent
    BY <1>0, <1>5, StandingTyped DEF StartFails, Startable
  <2>2. n.at = t.at
    BY DEF NewTask
  <2> HIDE DEF n
  <2>3. \A a : StandingOn(a)' \subseteq IF a = t.at THEN (StandingOn(a) \ {t}) \cup {n} ELSE StandingOn(a)
    BY <2>1, <2>2 DEF StandingOn, On, Standing
  <2>4. StandingOn(t.at) = {t}
    BY <2>1 DEF OneStanding
  <2> QED
    BY <2>3, <2>4 DEF OneStanding
<1>2. ASSUME NEW b \in Agent, NEW v \in {1, 2}, Accept(b, v) PROVE OneStanding'
  <2>1. On(b) = {}
    <3>1. Used(b) + 1 <= Room[b] /\ Room[b] \in Nat /\ Room[b] <= 1
      BY <1>0, <1>2 DEF Accept
    <3>2. On(b) \in SUBSET Task /\ neighbour[b] \in Nat
      BY <1>0 DEF TypeOK, On
    <3>3. IsFiniteSet(On(b)) /\ Cardinality(On(b)) \in Nat
      BY <3>2, Finite
    <3>4. Cardinality(On(b)) = 0
      BY <3>1, <3>2, <3>3 DEF Used
    <3> QED
      BY <3>3, <3>4, FS_EmptySet
  <2>2. tasks' = tasks \cup {NewTask(b, v, "accepted")}
    BY <1>2 DEF Accept
  <2>3. NewTask(b, v, "accepted").at = b
    BY DEF NewTask
  <2> DEFINE n == NewTask(b, v, "accepted")
  <2> HIDE DEF n
  <2>4. \A a : StandingOn(a)' \subseteq IF a = b THEN {n} ELSE StandingOn(a)
    BY <2>1, <2>2, <2>3 DEF StandingOn, On, Standing, n
  <2> QED
    BY <2>4 DEF OneStanding
<1>3. ASSUME NEW b \in Agent, Replace(b) PROVE OneStanding'
  <2> DEFINE n == NewTask(b, 2, "replacing")
             halt(t) == IF t.at = b THEN Stopped(t) ELSE t
  <2>1. tasks' = {halt(t) : t \in tasks} \cup {n}
    BY <1>3 DEF Replace
  <2>2. n.at = b
    BY DEF NewTask
  <2> HIDE DEF n
  <2>3. \A t \in tasks : /\ halt(t).at = t.at
                         /\ t.at = b => halt(t).state = "stopping"
                         /\ t.at # b => halt(t) = t
    BY <1>0 DEF TypeOK, Task, Stopped
  <2> HIDE DEF halt
  <2>4. \A a : StandingOn(a)' \subseteq IF a = b THEN {n} ELSE StandingOn(a)
    BY <2>1, <2>2, <2>3 DEF StandingOn, On, Standing
  <2> QED
    BY <2>4 DEF OneStanding
<1> QED
  BY <1>1, <1>2, <1>3, <1>4, <1>5, TasksChange

LEMMA InitOneStanding ==
  ASSUME \A a \in Agent : Room[a] <= 1
  PROVE  Init => OneStanding
<1> SUFFICES ASSUME Init, NEW a \in Agent, NEW t \in StandingOn(a), NEW u \in StandingOn(a), t # u
             PROVE  FALSE
  BY DEF OneStanding
<1>1. TypeOK /\ Used(a) <= Room[a] /\ neighbour[a] = 0 /\ Room[a] \in Nat
  BY InitTyped, UpdateAssumption DEF Init, TypeInv
<1>2. On(a) \in SUBSET Task /\ {t, u} \in SUBSET On(a) /\ {t, u} = {t} \cup {u} /\ u \notin {t}
      /\ {t} \in SUBSET Task
  BY <1>1 DEF TypeOK, On, StandingOn
<1>3. Cardinality({t, u}) = 2
  <2>1. Cardinality({t} \cup {u}) = Cardinality({t}) + 1 /\ Cardinality({t}) = 1
    BY <1>2, OneMore, NoneAndOne
  <2>2. Cardinality({t, u}) = Cardinality({t} \cup {u})
    BY <1>2
  <2> QED
    BY <2>1, <2>2
<1>4. Cardinality({t, u}) <= Cardinality(On(a)) /\ Cardinality(On(a)) \in Nat
  BY <1>2, Smaller, Finite
<1> QED
  BY <1>1, <1>3, <1>4 DEF Used

LEMMA OneStandingIsAlone == CalmInv /\ OneStanding => Alone
<1> SUFFICES ASSUME CalmInv, OneStanding, Undisturbed, upd.pc = "inplace"
             PROVE  StandingOn(upd.cur.at) \subseteq {upd.cur}
  BY DEF Alone
<1>1. TypeOK /\ upd.cur \in Standing
  BY DEF CalmInv, TypeInv, Calm, Known, HasOld
<1>2. upd.cur.at \in Agent /\ upd.cur \in StandingOn(upd.cur.at)
  BY <1>1, StandingTyped
<1> QED
  BY <1>2 DEF OneStanding

-----------------------------------------------------------------------------
\* While a job's dispatching flag is set, an update or a dispatch that has it is
\* under way and will give it back: no path out of updateRolling, updateRecreate
\* or updateBlueGreen, failed or not, and no delete in between, leaves a job that
\* every reconciliation skips (lockJob, unlockJob, dispatchInstances).
THEOREM FlagIsGivenBack == Spec => []FlagHasOwner
<1> DEFINE Inv == Placed /\ FlagHasOwner
<1>1. Init => Inv
  BY DEF Init, Placed, FlagHasOwner, IdleRec
<1>2. Inv /\ [Next]_vars => Inv'
  <2> SUFFICES ASSUME Inv, [Next]_vars PROVE Inv'
    OBVIOUS
  <2> USE DEF FlagHasOwner
  <2>1. CASE UNCHANGED vars
    BY <2>1 DEF vars, job, Placed
  <2>2. CASE UpdateJob \/ Updating
    BY <2>2, UpdatingKeeps DEF UpdateKeeps, UpdateHas
  <2>3. CASE ReconcileJobs \/ Reconciling
    BY <2>3, ReconcilingKeeps DEF RecKeeps, RecHas
  <2>4. CASE Rests
    BY <2>4 DEF Rests, Placed
  <2> QED
    BY <2>1, <2>2, <2>3, <2>4, OthersRest DEF Next
<1>3. Inv => FlagHasOwner
  OBVIOUS
<1> QED
  BY <1>1, <1>2, <1>3, PTL DEF Spec

\* Every variable keeps its type, whatever the bound on the instances: an update
\* only asks agents that are registered, and a dispatch always has a version to
\* send (updateRolling, dispatchJob, trackPlacement, stopOldTask).
THEOREM TypeCorrect == Spec => []TypeOK
<1>1. TypeInv /\ [Next]_vars => TypeInv'
  BY TypesLast
<1>2. TypeInv => TypeOK
  BY DEF TypeInv
<1> QED
  BY <1>1, <1>2, InitTyped, PTL DEF Spec

\* A rolling or blue-green update that nothing disturbs gives up an old instance only
\* for a new one that an agent has accepted: whatever the counts, at every moment, as
\* many instances as both versions want are accepted and not told to stop, whether the
\* update ends well or gives up for want of room (updateRolling, updateBlueGreen).  It
\* is not said that they run: an accepted one may be queued.  Replacing in place has
\* to find the instance alone.
THEOREM InstancesKept == Spec /\ []Alone => []KeepsInstances
<1>1. CalmInv /\ Alone /\ [Next]_vars => CalmInv'
  BY CalmLasts
<1> QED
  BY <1>1, InitCalm, CalmServes, PTL DEF Spec

\* When an undisturbed update is over, by any of the policies, the books agree with
\* the agents (trackPlacement, stopOldTask, updateRecreate): again, where what is
\* replaced in place is alone.
THEOREM BooksBalanceAfter == Spec /\ []Alone => []BooksBalance
<1>1. CalmInv /\ Alone /\ [Next]_vars => CalmInv'
  BY CalmLasts
<1> QED
  BY <1>1, InitCalm, CalmBalances, PTL DEF Spec

\* A status that says the new version is deployed is true, however old the copies
\* are that reconciliations hold, if the new version wants no fewer instances than
\* the old one (UpdateJob, reconcileJobs): with fewer, a reconciliation that read the
\* old definition still finds some of them missing.
THEOREM StatusIsHonest ==
  ASSUME OldCount <= NewCount PROVE Spec /\ []Alone => []HonestStatus
<1>1. CalmInv /\ Alone /\ [Next]_vars => CalmInv'
  BY CalmLasts
<1>2. CalmInv => HonestStatus
  BY CalmIsHonest
<1> QED
  BY <1>1, <1>2, InitCalm, PTL DEF Spec

\* Where every agent has room for one instance, what is replaced in place is always
\* alone (handleRun with replace=1).
THEOREM AloneWhereOneFits ==
  ASSUME \A a \in Agent : Room[a] <= 1 PROVE Spec => []Alone
<1> DEFINE Inv == CalmInv /\ OneStanding
<1>1. Init => Inv
  BY InitCalm, InitOneStanding
<1>2. Inv /\ [Next]_vars => Inv'
  <2> SUFFICES ASSUME Inv, [Next]_vars PROVE Inv'
    OBVIOUS
  <2>1. CalmInv'
    BY OneStandingIsAlone, CalmLasts
  <2>2. OneStanding'
    BY OneStandingLasts DEF CalmInv
  <2> QED
    BY <2>1, <2>2
<1>3. Inv => Alone
  BY OneStandingIsAlone
<1> QED
  BY <1>1, <1>2, <1>3, PTL DEF Spec
=============================================================================
