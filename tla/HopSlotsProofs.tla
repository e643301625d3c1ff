--------------------------- MODULE HopSlotsProofs ---------------------------
(***************************************************************************)
(* Proofs about HopSlots, for any tasks, cores, definitions and number of  *)
(* crashes and failed Stops: as long as there is no kernel flip, no cage   *)
(* has two owners, and an app only ever runs where its task owns the       *)
(* cages.  After the first flip a cage may have two: AdoptionIsOwnership.  *)
(***************************************************************************)
EXTENDS HopSlots, WellFoundedInduction, TLAPS

StopRec == [pc : {"idle", "begin", "wait", "kill", "release"}, slot : 0 .. MaxCage]

\* The types of the variables that have a say.
HopType ==
  /\ app \in [Cage -> Task \cup {NoTask}]
  /\ inUse \in [Cage -> Task \cup {NoTask}]
  /\ slots \in [Task -> 0 .. MaxCage]
  /\ job \in [Task -> Jobs]
  /\ DOMAIN run = Task /\ DOMAIN rec = Task
  /\ stops \in [Task -> [Caller -> StopRec]]
  /\ lost = {}

AppOf(t) == {c \in Cage : app[c] = t}

\* The cages of a task are marked as its own.
Owned(t) == Held(t) \subseteq {c \in Cage : inUse[c] = t}

\* An app is on in all of its task's cages or in none, and when it is on its start
\* is about to say so, or has.
Whole(t) == AppOf(t) # {} => AppOf(t) = Held(t) /\ (run[t] = "arm" \/ t \in armed)

\* A task that has not asked for cages has none, and no Stop waits for it.
Unstarted(t) ==
  /\ rec[t] = "none" => run[t] = "idle"
  /\ rec[t] = "none" \/ run[t] = "alloc" =>
       slots[t] = 0 /\ \A k \in Caller : stops[t][k].pc \in {"idle", "begin"}

\* A start that streams has cages; one that has not streamed has no app.
Underway(t) ==
  /\ rec[t] = "none" \/ run[t] \in {"alloc", "queue", "get", "stream", "failing", "unplaced"}
       => t \notin armed
  /\ run[t] \in {"queue", "get", "stream"} => slots[t] # 0
  /\ slots[t] # 0 => t \in plumbed

\* A Stop turns an app off, or gives cages back, only when the start has ended; the
\* cage it knows is the task's, unless another Stop has given that back.
Settled(t) == \A k \in Caller :
  /\ stops[t][k].pc \in {"kill", "release"} => Done(t)
  /\ stops[t][k].pc \in {"wait", "kill"} =>
       stops[t][k].slot # 0 /\ slots[t] \in {0, stops[t][k].slot}
  /\ stops[t][k].pc = "release" => AppOf(t) = {}

TaskInv(t) == Owned(t) /\ Whole(t) /\ Unstarted(t) /\ Underway(t) /\ Settled(t)

HopInv == HopType /\ \A t \in Task : TaskInv(t)
-----------------------------------------------------------------------------
(* Cages.                                                                  *)

LEMMA CagesOfTask ==
  ASSUME HopType, NEW t \in Task
  PROVE  /\ slots[t] = 0 => Held(t) = {}
         /\ slots[t] # 0 => slots[t] \in Held(t)
BY HopAssumption DEF HopType, Held, Cages

LEMMA FreeIsFree ==
  ASSUME HopType, NEW t \in Task, NEW pool, NEW s \in Free(t, pool)
  PROVE  /\ s \in Cage /\ Cages(t, s) \subseteq Cage
         /\ \A c \in Cages(t, s) : inUse[c] = NoTask
<1>1. s \in Cage /\ Max(Cages(t, s)) <= MaxCage /\ \A c \in Cages(t, s) : inUse[c] = NoTask
  BY DEF Free
<1> DEFINE n == IF job[t].shared THEN 1 ELSE job[t].cores
<1>2. n \in Nat \ {0}
  BY HopAssumption DEF HopType
<1>3. Cages(t, s) = s .. s + n - 1
  BY DEF Cages
<1>4. Max(s .. s + n - 1) = s + n - 1
  <2>1. s \in Nat /\ s + n - 1 \in s .. s + n - 1 /\ \A c \in s .. s + n - 1 : s + n - 1 >= c
    BY <1>1, <1>2, HopAssumption DEF Cage
  <2> DEFINE e == s + n - 1
             P(x) == \A c \in s .. e : x >= c
  <2>2. e \in s .. e /\ P(e)
    BY <2>1
  <2>3. Max(s .. e) = CHOOSE x \in s .. e : P(x)
    BY DEF Max
  <2>4. Max(s .. e) \in s .. e /\ P(Max(s .. e))
    <3> HIDE DEF P, e
    <3> QED BY <2>2, <2>3
  <2>5. Max(s .. e) >= e /\ Max(s .. e) <= e /\ e \in Int /\ Max(s .. e) \in Int
    BY <2>1, <2>2, <2>4, <1>2
  <2> QED
    BY <2>5
<1> QED
  BY <1>1, <1>2, <1>3, <1>4, HopAssumption DEF Cage

LessNat == {p \in Nat \X Nat : p[1] < p[2]}

LEMMA LeastIsMember ==
  ASSUME NEW S \in SUBSET Nat, S # {}
  PROVE  Min(S) \in S
<1>1. IsWellFoundedOn(LessNat, Nat)
  BY NatLessThanWellFounded DEF OpToRel, LessNat
<1>2. PICK s \in S : \A m \in S : ~ (<<m, s>> \in LessNat)
  BY <1>1, WFMin
<1>3. ASSUME NEW m \in S PROVE s <= m
  <2>1. m \in Nat /\ s \in Nat /\ (<<m, s>> \in LessNat <=> m < s)
    BY DEF LessNat
  <2> QED
    BY <1>2, <2>1
<1>4. Min(S) = CHOOSE x \in S : \A y \in S : x <= y
  BY DEF Min
<1> QED
  BY <1>3, <1>4
-----------------------------------------------------------------------------
(* A step of one task leaves the others alone.                             *)

Alone(t) == \A u \in Task \ {t} :
  /\ rec'[u] = rec[u] /\ run'[u] = run[u] /\ slots'[u] = slots[u] /\ stops'[u] = stops[u]
  /\ (u \in armed' <=> u \in armed) /\ (u \in plumbed' <=> u \in plumbed)
  /\ \A c \in Cage : inUse[c] = u => inUse'[c] = u

\* Apps go on, or off as a whole.
AppsWhole(t) == \A u \in Task \ {t} : AppOf(u)' \in {{}, AppOf(u)}

LEMMA OthersKeep ==
  ASSUME HopInv, NEW t \in Task, Alone(t), AppsWhole(t), job' = job
  PROVE  \A u \in Task \ {t} : TaskInv(u)'
<1> SUFFICES ASSUME NEW u \in Task \ {t} PROVE TaskInv(u)'
  OBVIOUS
<1>0. TaskInv(u)
  BY DEF HopInv
<1>1. Held(u)' = Held(u)
  BY DEF Alone, Held, Cages
<1>2. Done(u)' = Done(u)
  BY DEF Alone, Done
<1>3. AppOf(u)' = {} \/ AppOf(u)' = AppOf(u)
  BY DEF AppsWhole
<1>4. Owned(u)'
  BY <1>0, <1>1 DEF Alone, TaskInv, Owned
<1>5. Whole(u)'
  BY <1>0, <1>1, <1>3 DEF Alone, TaskInv, Whole
<1>6. Unstarted(u)' /\ Underway(u)'
  BY <1>0 DEF Alone, TaskInv, Unstarted, Underway
<1>7. Settled(u)'
  BY <1>0, <1>2, <1>3 DEF Alone, TaskInv, Settled
<1> QED
  BY <1>4, <1>5, <1>6, <1>7 DEF TaskInv

\* A step that leaves cages and apps alone.
LEMMA CagesKeep ==
  ASSUME HopInv, NEW t \in Task, Alone(t), job' = job, app' = app, inUse' = inUse,
         slots' = slots, lost' = lost, DOMAIN run' = Task, DOMAIN rec' = Task,
         stops' \in [Task -> [Caller -> StopRec]],
         Whole(t)', Unstarted(t)', Underway(t)', Settled(t)'
  PROVE  HopInv'
<1>1. HopType'
  BY DEF HopInv, HopType
<1>2. AppsWhole(t)
  BY DEF AppsWhole, AppOf
<1>3. Held(t)' = Held(t)
  BY DEF Held, Cages
<1>4. Owned(t)'
  BY <1>3 DEF HopInv, TaskInv, Owned
<1> QED
  BY <1>1, <1>2, <1>4, OthersKeep DEF HopInv, TaskInv
-----------------------------------------------------------------------------
(* Starts.                                                                 *)

\* A Stop that begins owes nothing yet.
LEMMA StopsBegin ==
  ASSUME HopInv, NEW t \in Task, NEW k \in Caller, StopBegins(t, k),
         slots' = slots, AppOf(t)' = AppOf(t), Done(t) => Done(t)'
  PROVE  /\ stops' \in [Task -> [Caller -> StopRec]]
         /\ \A u \in Task \ {t} : stops'[u] = stops[u]
         /\ \A i \in Caller : stops'[t][i] = stops[t][i] \/ stops'[t][i].pc = "begin"
         /\ Settled(t)'
<1>1. [pc |-> "begin", slot |-> 0] \in StopRec
      /\ [StopIdle EXCEPT !.pc = "begin"] = [pc |-> "begin", slot |-> 0]
  BY HopAssumption DEF StopRec, StopIdle
<1>2. /\ stops' \in [Task -> [Caller -> StopRec]]
      /\ \A u \in Task \ {t} : stops'[u] = stops[u]
      /\ \A i \in Caller : stops'[t][i] = IF i = k THEN [pc |-> "begin", slot |-> 0] ELSE stops[t][i]
  BY <1>1 DEF StopBegins, HopInv, HopType
<1>3. Settled(t)
  BY DEF HopInv, TaskInv
<1> QED
  BY <1>2, <1>3 DEF Settled

LEMMA StartKeeps ==
  ASSUME HopInv, NEW t \in Task,
         \/ AcceptRun(t) \/ TakeTurn(t) \/ GiveUp(t) \/ GetImage(t) \/ StreamFails(t)
         \/ Arm(t) \/ Publish(t) \/ RunReturns(t) \/ Restart(t) \/ RequestStop(t) \/ DetectCrash(t)
  PROVE  HopInv'
<1>0. HopType /\ TaskInv(t)
  BY DEF HopInv
<1>1. /\ job' = job /\ app' = app /\ inUse' = inUse /\ slots' = slots /\ lost' = lost
      /\ plumbed' = plumbed
  BY DEF AcceptRun, TakeTurn, GiveUp, GetImage, StreamFails, Arm, Publish, RunReturns, Restart,
    RequestStop, DetectCrash, agent, maps, hist
<1>2. Held(t)' = Held(t) /\ AppOf(t)' = AppOf(t)
  BY <1>1 DEF Held, Cages, AppOf
<1> DEFINE Fine == /\ Alone(t) /\ DOMAIN run' = Task /\ DOMAIN rec' = Task
                   /\ stops' \in [Task -> [Caller -> StopRec]]
                   /\ Whole(t)' /\ Unstarted(t)' /\ Underway(t)' /\ Settled(t)'
<1> USE <1>0, <1>1, <1>2 DEF HopType, TaskInv, Alone, Whole, Unstarted, Underway, Settled, Done,
      Go, Leave, StopRec, Caller
<1>3. ASSUME AcceptRun(t) PROVE Fine
  BY <1>3 DEF AcceptRun, maps
<1>4. ASSUME TakeTurn(t) PROVE Fine
  BY <1>4 DEF TakeTurn, maps, agent
<1>5. ASSUME GiveUp(t) PROVE Fine
  BY <1>5 DEF GiveUp, maps, agent
<1>6. ASSUME GetImage(t) PROVE Fine
  BY <1>6 DEF GetImage, maps, agent
<1>7. ASSUME StreamFails(t) PROVE Fine
  BY <1>7 DEF StreamFails, maps, agent
<1>8. ASSUME Arm(t) PROVE Fine
  BY <1>8 DEF Arm, agent
<1>9. ASSUME Publish(t) PROVE Fine
  BY <1>9 DEF Publish, maps
<1>10. ASSUME RunReturns(t) PROVE Fine
  <2>1. /\ run[t] \in {"ok", "err", "full"} /\ rec[t] # "none"
        /\ run' = [run EXCEPT ![t] = IF run[t] = "err" THEN "restart" ELSE "idle"]
        /\ armed' = armed
    BY <1>10 DEF RunReturns, maps
  <2>2. DOMAIN rec' = Task /\ rec'[t] # "none" /\ \A u \in Task \ {t} : rec'[u] = rec[u]
    BY <1>10 DEF RunReturns
  <2>3. StopBegins(t, "own") \/ stops' = stops
    BY <1>10 DEF RunReturns
  <2>4. CASE stops' = stops
    BY <2>1, <2>2, <2>4
  <2>5. CASE StopBegins(t, "own")
    <3>1. Done(t) => Done(t)'
      BY <2>1
    <3> HIDE DEF Settled
    <3>2. Settled(t)' /\ stops' \in [Task -> [Caller -> StopRec]]
          /\ \A u \in Task \ {t} : stops'[u] = stops[u]
      BY <2>5, <3>1, StopsBegin
    <3> QED
      BY <2>1, <2>2, <3>2
  <2> QED
    BY <2>3, <2>4, <2>5
<1>11. ASSUME Restart(t) PROVE Fine
  BY <1>11 DEF Restart, maps
<1>12. ASSUME RequestStop(t) PROVE Fine
  <2>1. /\ rec[t] # "none" /\ rec' = [rec EXCEPT ![t] = "gone"]
        /\ StopBegins(t, "request") /\ run' = run /\ armed' = armed
    BY <1>12 DEF RequestStop, maps
  <2>2. Done(t) => Done(t)'
    BY <2>1
  <2> HIDE DEF Settled
  <2>3. /\ Settled(t)' /\ stops' \in [Task -> [Caller -> StopRec]]
        /\ \A u \in Task \ {t} : stops'[u] = stops[u]
        /\ \A i \in Caller : stops'[t][i] = stops[t][i] \/ stops'[t][i].pc = "begin"
    BY <2>1, <2>2, StopsBegin
  <2> QED
    BY <2>1, <2>3
<1>13. ASSUME DetectCrash(t) PROVE Fine
  <2>1. /\ rec[t] = "running" /\ rec' = [rec EXCEPT ![t] = "failed"]
        /\ run[t] = "idle" /\ run' = [run EXCEPT ![t] = "restart"]
        /\ StopBegins(t, "own") /\ armed' = armed
    BY <1>13 DEF DetectCrash, maps
  <2>2. Done(t) => Done(t)'
    BY <2>1
  <2> HIDE DEF Settled
  <2>3. Settled(t)' /\ stops' \in [Task -> [Caller -> StopRec]]
        /\ \A u \in Task \ {t} : stops'[u] = stops[u]
    BY <2>1, <2>2, StopsBegin
  <2> QED
    BY <2>1, <2>3
<1>14. Fine
  BY <1>3, <1>4, <1>5, <1>6, <1>7, <1>8, <1>9, <1>10, <1>11, <1>12, <1>13
<1> QED
  BY <1>14, CagesKeep
-----------------------------------------------------------------------------
(* Cages are given out and taken back, apps go on and off.                 *)

\* A step of t is fine for t's own sake, and for the others'.
LEMMA OneMoves ==
  ASSUME HopInv, NEW t \in Task, HopType', Alone(t), AppsWhole(t), job' = job, TaskInv(t)'
  PROVE  HopInv'
BY OthersKeep DEF HopInv

LEMMA AllocateKeeps ==
  ASSUME HopInv, NEW t \in Task, AllocateSlot(t)
  PROVE  HopInv'
<1>0. HopType /\ TaskInv(t) /\ run[t] = "alloc" /\ slots[t] = 0 /\ t \notin armed /\ AppOf(t) = {}
  BY DEF HopInv, TaskInv, Unstarted, Underway, Whole, AllocateSlot
<1>1. /\ app' = app /\ job' = job /\ rec' = rec /\ stops' = stops /\ lost' = lost
      /\ armed' = armed /\ AppOf(t)' = AppOf(t) /\ AppsWhole(t)
  BY DEF AllocateSlot, agent, hist, maps, Take, AppOf, AppsWhole
<1>2. PICK pool \in SUBSET (1 .. Cores) :
        IF Free(t, pool) = {} THEN Go(t, "full") /\ UNCHANGED maps ELSE Take(t, Min(Free(t, pool)))
  BY DEF AllocateSlot
<1>3. CASE Free(t, pool) = {}
  <2>1. run' = [run EXCEPT ![t] = "full"] /\ UNCHANGED maps
    BY <1>2, <1>3 DEF Go
  <2> QED
    BY <1>0, <1>1, <2>1, CagesKeep DEF maps, HopType, TaskInv, Alone, Whole, Unstarted, Underway,
      Settled, Done
<1>4. CASE Free(t, pool) # {}
  <2> DEFINE s == Min(Free(t, pool))
  <2>1. s \in Free(t, pool)
    <3>1. Free(t, pool) \in SUBSET Nat
      BY HopAssumption DEF Free, Cage
    <3> QED
      BY <1>4, <3>1, LeastIsMember
  <2> HIDE DEF s
  <2>2. s \in Cage /\ Cages(t, s) \subseteq Cage /\ \A c \in Cages(t, s) : inUse[c] = NoTask
    BY <1>0, <2>1, FreeIsFree
  <2>3. Take(t, s)
    BY <1>2, <1>4 DEF s
  <2>4. /\ inUse' = [c \in Cage |-> IF c \in Cages(t, s) THEN t ELSE inUse[c]]
        /\ slots' = [slots EXCEPT ![t] = s] /\ plumbed' = plumbed \cup {t}
        /\ run' = [run EXCEPT ![t] = "queue"]
    BY <1>0, <2>3 DEF Take, Put, Go, HopType
  <2>5. HopType'
    BY <1>0, <1>1, <2>2, <2>4, HopAssumption DEF HopType, Cage
  <2>6. Alone(t)
    BY <1>0, <1>1, <2>2, <2>4, HopAssumption DEF HopType, Alone
  <2>7. Held(t)' = Cages(t, s)
    <3>1. slots'[t] = s /\ s # 0
      BY <1>0, <2>2, <2>4, HopAssumption DEF HopType, Cage
    <3> QED
      BY <1>1, <3>1 DEF Held, Cages
  <2>8. Owned(t)'
    BY <2>2, <2>4, <2>7 DEF Owned
  <2>9. Whole(t)' /\ Underway(t)'
    BY <1>0, <1>1, <2>2, <2>4, HopAssumption DEF Whole, Underway, HopType, Cage
  <2>10. Unstarted(t)'
    BY <1>0, <1>1, <2>4 DEF TaskInv, Unstarted, HopType
  <2>11. Settled(t)'
    BY <1>0, <1>1 DEF TaskInv, Settled, Unstarted
  <2> QED
    BY <1>1, <2>5, <2>6, <2>8, <2>9, <2>10, <2>11, OneMoves DEF TaskInv
<1> QED
  BY <1>3, <1>4

\* The image goes into free cages of the task's own.
LEMMA StreamKeeps ==
  ASSUME HopInv, NEW t \in Task, StartStream(t)
  PROVE  HopInv'
<1>0. /\ HopType /\ TaskInv(t) /\ run[t] = "stream" /\ slots[t] # 0 /\ t \notin armed
      /\ AppOf(t) = {} /\ \A c \in Held(t) : app[c] = NoTask
      /\ Held(t) \subseteq Cage
  BY DEF HopInv, TaskInv, Underway, Whole, StartStream, Owned
<1>1. /\ job' = job /\ rec' = rec /\ stops' = stops /\ lost' = lost /\ slots' = slots
      /\ inUse' = inUse /\ armed' = armed /\ plumbed' = plumbed
      /\ app' = [c \in Cage |-> IF c \in Held(t) THEN t ELSE app[c]]
      /\ run' = [run EXCEPT ![t] = "arm"]
  BY <1>0 DEF StartStream, agent, hist, maps, Put, Go, HopType
<1>2. Held(t)' = Held(t)
  BY <1>1 DEF Held, Cages
<1>3. HopType'
  BY <1>0, <1>1 DEF HopType
<1>4. Alone(t)
  BY <1>0, <1>1 DEF Alone, HopType
<1>5. AppsWhole(t)
  BY <1>0, <1>1, HopAssumption DEF AppsWhole, AppOf
<1>6. AppOf(t)' = Held(t)
  BY <1>0, <1>1 DEF AppOf
<1>7. Owned(t)' /\ Whole(t)'
  BY <1>0, <1>1, <1>2, <1>6 DEF Owned, Whole, TaskInv, HopType
<1>8. Unstarted(t)' /\ Underway(t)'
  BY <1>0, <1>1 DEF Unstarted, Underway, TaskInv, HopType
<1>9. Settled(t)'
  BY <1>0, <1>1 DEF Settled, TaskInv, Done
<1> QED
  BY <1>1, <1>3, <1>4, <1>5, <1>7, <1>8, <1>9, OneMoves DEF TaskInv

\* Cages are given back when nothing of the task is on, or will go on.
LEMMA ReleaseKeeps ==
  ASSUME HopInv, NEW t \in Task, Release(t), AppOf(t) = {}, app' = app, job' = job, rec' = rec,
         lost' = lost, run'[t] \notin {"alloc", "queue", "get", "stream"}, DOMAIN run' = Task,
         \A u \in Task \ {t} : run'[u] = run[u] /\ stops'[u] = stops[u],
         stops' \in [Task -> [Caller -> StopRec]],
         rec[t] # "none",
         \A k \in Caller : \/ stops'[t][k].pc = "idle"
                           \/ stops'[t][k] = stops[t][k] /\ (Done(t) => Done(t)')
  PROVE  HopInv'
<1>0. HopType /\ TaskInv(t)
  BY DEF HopInv
<1>1. /\ inUse' = [c \in Cage |-> IF inUse[c] = t THEN NoTask ELSE inUse[c]]
      /\ slots' = [slots EXCEPT ![t] = 0] /\ slots'[t] = 0
      /\ plumbed' = plumbed \ {t} /\ armed' = armed \ {t}
  BY <1>0 DEF Release, Put, HopType
<1>2. HopType'
  BY <1>0, <1>1, HopAssumption DEF HopType
<1>3. Alone(t)
  BY <1>0, <1>1 DEF Alone, HopType
<1>4. AppsWhole(t) /\ AppOf(t)' = {}
  BY DEF AppsWhole, AppOf
<1>5. Held(t)' = {}
  BY <1>1 DEF Held
<1>6. Owned(t)' /\ Whole(t)'
  BY <1>4, <1>5 DEF Owned, Whole
<1>7. Unstarted(t)' /\ Underway(t)'
  BY <1>1 DEF Unstarted, Underway
<1>8. Settled(t)'
  BY <1>0, <1>1, <1>4 DEF Settled, TaskInv
<1> QED
  BY <1>2, <1>3, <1>4, <1>6, <1>7, <1>8, OneMoves DEF TaskInv

LEMMA ReleaseFailedKeeps ==
  ASSUME HopInv, NEW t \in Task, ReleaseFailed(t)
  PROVE  HopInv'
<1>0. /\ HopType /\ TaskInv(t) /\ rec[t] # "none" /\ AppOf(t) = {}
      /\ run[t] \in {"failing", "unplaced"}
  BY DEF HopInv, TaskInv, Underway, Whole, Unstarted, ReleaseFailed
<1>1. /\ app' = app /\ job' = job /\ rec' = rec /\ lost' = lost /\ stops' = stops /\ Release(t)
      /\ run' = [run EXCEPT ![t] = IF run[t] = "failing" THEN "err" ELSE "full"]
  BY DEF ReleaseFailed, agent, hist, Leave, Go
<1>2. /\ run'[t] \in {"err", "full"} /\ DOMAIN run' = Task
      /\ \A u \in Task \ {t} : run'[u] = run[u]
  BY <1>0, <1>1 DEF HopType
<1>3. Done(t)'
  BY <1>2 DEF Done
<1>4. stops' \in [Task -> [Caller -> StopRec]]
  BY <1>0, <1>1 DEF HopType
<1> QED
  BY <1>0, <1>1, <1>2, <1>3, <1>4, ReleaseKeeps
-----------------------------------------------------------------------------
(* Stops.                                                                  *)

LEMMA StopKeeps ==
  ASSUME HopInv, NEW t \in Task, NEW k \in Caller, BeginStop(t, k) \/ WaitForStart(t, k)
  PROVE  HopInv'
<1>0. HopType /\ TaskInv(t)
  BY DEF HopInv
<1>1. /\ job' = job /\ app' = app /\ inUse' = inUse /\ slots' = slots /\ lost' = lost
      /\ plumbed' = plumbed /\ armed' = armed /\ run' = run /\ rec' = rec
  BY DEF BeginStop, WaitForStart, agent, maps, hist
<1>2. Held(t)' = Held(t) /\ AppOf(t)' = AppOf(t) /\ (Done(t)' <=> Done(t))
  BY <1>1 DEF Held, Cages, AppOf, Done
<1> DEFINE Fits(r) == /\ r \in StopRec
                      /\ r.pc \in {"kill", "release"} => Done(t)
                      /\ r.pc \in {"wait", "kill"} => r.slot # 0 /\ slots[t] \in {0, r.slot}
                      /\ r.pc = "release" => AppOf(t) = {}
                      /\ r.pc # "idle" /\ r.pc # "begin" => rec[t] # "none" /\ run[t] # "alloc"
<1>3. ASSUME NEW r, stops' = [stops EXCEPT ![t][k] = r], Fits(r)
      PROVE  HopInv'
  <2>1. stops' \in [Task -> [Caller -> StopRec]] /\ \A u \in Task \ {t} : stops'[u] = stops[u]
    BY <1>0, <1>3 DEF HopType
  <2>2. \A i \in Caller : stops'[t][i] = IF i = k THEN r ELSE stops[t][i]
    BY <1>0, <1>3 DEF HopType
  <2>3. Settled(t)'
    BY <1>0, <1>1, <1>2, <1>3, <2>2 DEF Settled, TaskInv
  <2>4. r.pc \in {"idle", "begin"} \/ (rec[t] # "none" /\ run[t] # "alloc")
    BY <1>3 DEF StopRec
  <2>5. Unstarted(t)'
    BY <1>0, <1>1, <2>2, <2>4 DEF Unstarted, TaskInv
  <2>6. Whole(t)' /\ Underway(t)' /\ Alone(t) /\ DOMAIN run' = Task /\ DOMAIN rec' = Task
    BY <1>0, <1>1, <1>2, <2>1 DEF Whole, Underway, TaskInv, Alone, HopType
  <2> QED
    BY <1>1, <2>1, <2>3, <2>5, <2>6, CagesKeep
<1>4. Fits(StopIdle)
  BY HopAssumption DEF StopIdle, StopRec
<1>5. CASE BeginStop(t, k)
  <2>1. CASE slots[t] = 0
    BY <1>3, <1>4, <1>5, <2>1 DEF BeginStop, StopEnds
  <2>2. CASE slots[t] # 0
    <3> DEFINE r == [pc |-> "wait", slot |-> slots[t]]
    <3>1. t \in plumbed /\ rec[t] # "none" /\ run[t] # "alloc"
      BY <1>0, <2>2 DEF TaskInv, Underway, Unstarted
    <3>2. stops' = [stops EXCEPT ![t][k] = r]
      BY <1>5, <2>2, <3>1 DEF BeginStop
    <3>3. Fits(r)
      BY <1>0, <2>2, <3>1 DEF StopRec, HopType
    <3> QED
      BY <1>3, <3>2, <3>3
  <2> QED
    BY <2>1, <2>2
<1>6. CASE WaitForStart(t, k)
  <2>1. CASE stops' = [stops EXCEPT ![t][k] = StopIdle]
    BY <1>3, <1>4, <2>1
  <2>2. CASE Done(t) /\ StopGo(t, k, IF t \in armed THEN "kill" ELSE "release")
    <3> DEFINE r == [stops[t][k] EXCEPT !.pc = IF t \in armed THEN "kill" ELSE "release"]
    <3>1. stops[t][k] \in StopRec /\ stops[t][k].pc = "wait"
      BY <1>0, <1>6 DEF WaitForStart, HopType
    <3>2. stops' = [stops EXCEPT ![t][k] = r]
      BY <2>2 DEF StopGo
    <3>3. r \in StopRec /\ r.slot = stops[t][k].slot
          /\ r.pc = IF t \in armed THEN "kill" ELSE "release"
      BY <3>1 DEF StopRec
    <3>4. t \notin armed => AppOf(t) = {}
      BY <1>0, <2>2 DEF TaskInv, Whole, Done
    <3>5. rec[t] # "none" /\ run[t] # "alloc"
      BY <1>0, <3>1 DEF TaskInv, Unstarted
    <3>6. stops[t][k].slot # 0 /\ slots[t] \in {0, stops[t][k].slot}
      BY <1>0, <3>1 DEF TaskInv, Settled
    <3>7. Fits(r)
      <4> HIDE DEF r
      <4> QED BY <2>2, <3>3, <3>4, <3>5, <3>6
    <3> QED
      BY <1>3, <3>2, <3>7
  <2> QED
    BY <1>6, <2>1, <2>2 DEF WaitForStart, StopEnds
<1> QED
  BY <1>5, <1>6

\* When apps go off, nothing but that happens.
LEMMA OffKeeps ==
  ASSUME HopInv, NEW t \in Task, NEW v, app' = Off(v) \/ app' = app,
         job' = job, inUse' = inUse, slots' = slots, lost' = lost, plumbed' = plumbed,
         armed' = armed, run' = run, rec' = rec,
         \A u \in Task \ {t} : stops'[u] = stops[u],
         stops' \in [Task -> [Caller -> StopRec]],
         Settled(t)', Unstarted(t)'
  PROVE  HopInv'
<1>0. HopType /\ TaskInv(t)
  BY DEF HopInv
<1>1. app' \in [Cage -> Task \cup {NoTask}]
  BY <1>0 DEF Off, Put, HopType
<1>2. HopType'
  BY <1>0, <1>1 DEF HopType
<1>3. \A u \in Task : AppOf(u)' \in {{}, AppOf(u)}
  BY <1>0, HopAssumption DEF AppOf, Off, Put, HopType
<1>4. Held(t)' = Held(t)
  BY DEF Held, Cages
<1>5. Owned(t)' /\ Whole(t)' /\ Underway(t)'
  BY <1>0, <1>3, <1>4 DEF TaskInv, Owned, Whole, Underway
<1>6. Alone(t) /\ AppsWhole(t)
  BY <1>3 DEF Alone, AppsWhole
<1> QED
  BY <1>2, <1>5, <1>6, OneMoves DEF TaskInv

LEMMA StopSlotKeeps ==
  ASSUME HopInv, NEW t \in Task, NEW k \in Caller, StopSlot(t, k)
  PROVE  HopInv'
<1>0. HopType /\ TaskInv(t) /\ stops[t][k].pc = "kill" /\ stops[t][k] \in StopRec
  BY DEF HopInv, HopType, StopSlot
<1> DEFINE s == stops[t][k].slot
<1>1. /\ job' = job /\ inUse' = inUse /\ slots' = slots /\ lost' = lost /\ plumbed' = plumbed
      /\ armed' = armed /\ run' = run /\ rec' = rec
  BY DEF StopSlot, agent, maps
<1>2. Done(t) /\ slots[t] \in {0, s} /\ rec[t] # "none" /\ run[t] # "alloc"
  BY <1>0 DEF TaskInv, Settled, Unstarted
<1>3. CASE /\ app' = IF app[s] = NoTask THEN app ELSE Off(app[s])
           /\ StopGo(t, k, "release")
  <2> DEFINE r == [stops[t][k] EXCEPT !.pc = "release"]
  <2>1. r \in StopRec /\ r.pc = "release"
    BY <1>0 DEF StopRec
  <2>2. stops' = [stops EXCEPT ![t][k] = r]
    BY <1>3 DEF StopGo
  <2> HIDE DEF r
  <2>3. /\ stops' \in [Task -> [Caller -> StopRec]]
        /\ \A u \in Task \ {t} : stops'[u] = stops[u]
        /\ \A i \in Caller : stops'[t][i] = IF i = k THEN r ELSE stops[t][i]
    BY <1>0, <2>1, <2>2 DEF HopType
  <2>4. AppOf(t)' = {}
    <3>1. CASE AppOf(t) = {}
      BY <1>0, <1>3, <3>1, HopAssumption DEF AppOf, Off, Put, HopType
    <3>2. CASE AppOf(t) # {}
      <4>1. AppOf(t) = Held(t)
        BY <1>0, <3>2 DEF TaskInv, Whole
      <4>2. slots[t] = s /\ s \in Held(t)
        BY <1>0, <1>2, <3>2, <4>1, CagesOfTask
      <4>3. app[s] = t
        BY <4>1, <4>2 DEF AppOf
      <4>4. app' = Off(t)
        BY <1>3, <4>3, HopAssumption
      <4> QED
        BY <1>0, <4>4, HopAssumption DEF AppOf, Off, Put, HopType
    <3> QED
      BY <3>1, <3>2
  <2>5. Done(t)'
    BY <1>1, <1>2 DEF Done
  <2>6. Settled(t)'
    BY <1>0, <1>1, <2>1, <2>3, <2>4, <2>5 DEF TaskInv, Settled
  <2>7. Unstarted(t)'
    BY <1>1, <1>2 DEF Unstarted
  <2>8. app' = Off(app[s]) \/ app' = app
    BY <1>3
  <2> QED
    BY <1>1, <2>3, <2>6, <2>7, <2>8, OffKeeps
<1>4. CASE app' = app /\ StopEnds(t, k)
  <2>1. StopIdle \in StopRec /\ StopIdle.pc = "idle"
    BY HopAssumption DEF StopRec, StopIdle
  <2>2. /\ stops' \in [Task -> [Caller -> StopRec]]
        /\ \A u \in Task \ {t} : stops'[u] = stops[u]
        /\ \A i \in Caller : stops'[t][i] = IF i = k THEN StopIdle ELSE stops[t][i]
    BY <1>0, <1>4, <2>1 DEF HopType, StopEnds
  <2>3. AppOf(t)' = AppOf(t) /\ (Done(t)' <=> Done(t))
    BY <1>1, <1>4 DEF AppOf, Done
  <2>4. Settled(t)'
    BY <1>0, <1>1, <2>1, <2>2, <2>3 DEF TaskInv, Settled
  <2>5. Unstarted(t)'
    BY <1>1, <1>2 DEF Unstarted
  <2> QED
    BY <1>1, <1>4, <2>2, <2>4, <2>5, OffKeeps
<1> QED
  BY <1>3, <1>4 DEF StopSlot

LEMMA ReleaseStoppedKeeps ==
  ASSUME HopInv, NEW t \in Task, NEW k \in Caller, ReleaseStopped(t, k)
  PROVE  HopInv'
<1>0. HopType /\ TaskInv(t) /\ stops[t][k].pc = "release"
  BY DEF HopInv, ReleaseStopped
<1>1. AppOf(t) = {} /\ Done(t) /\ rec[t] # "none" /\ run[t] # "alloc"
  BY <1>0 DEF TaskInv, Settled, Unstarted
<1>2. /\ Release(t) /\ app' = app /\ job' = job /\ rec' = rec /\ lost' = lost /\ run' = run
      /\ stops' = [stops EXCEPT ![t][k] = StopIdle]
  BY DEF ReleaseStopped, agent, hist, StopEnds
<1>3. StopIdle \in StopRec /\ StopIdle.pc = "idle"
  BY HopAssumption DEF StopRec, StopIdle
<1>4. /\ stops' \in [Task -> [Caller -> StopRec]]
      /\ \A u \in Task \ {t} : stops'[u] = stops[u]
      /\ \A i \in Caller : stops'[t][i] = IF i = k THEN StopIdle ELSE stops[t][i]
  BY <1>0, <1>2, <1>3 DEF HopType
<1>5. Done(t)' /\ run'[t] \notin {"alloc", "queue", "get", "stream"} /\ DOMAIN run' = Task
  BY <1>0, <1>1, <1>2 DEF Done, HopType
<1> QED
  BY <1>1, <1>2, <1>3, <1>4, <1>5, ReleaseKeeps

LEMMA CrashKeeps ==
  ASSUME HopInv, NEW t \in Task, Crash(t)
  PROVE  HopInv'
<1>1. /\ job' = job /\ inUse' = inUse /\ slots' = slots /\ lost' = lost /\ plumbed' = plumbed
      /\ armed' = armed /\ run' = run /\ rec' = rec /\ stops' = stops /\ app' = Off(t)
  BY DEF Crash, agent, maps, hist
<1>2. HopType /\ TaskInv(t)
  BY DEF HopInv
<1>3. AppOf(t)' = {} /\ (Done(t)' <=> Done(t))
  BY <1>1, <1>2, HopAssumption DEF AppOf, Off, Put, HopType, Done
<1>4. Settled(t)' /\ Unstarted(t)'
  BY <1>1, <1>2, <1>3 DEF TaskInv, Settled, Unstarted
<1> QED
  BY <1>1, <1>2, <1>4, OffKeeps DEF HopType
-----------------------------------------------------------------------------
(* The invariant.                                                          *)

LEMMA InitHolds == Init => HopInv
<1> SUFFICES ASSUME Init PROVE HopInv
  OBVIOUS
<1>1. HopType
  BY HopAssumption DEF Init, HopType, StopIdle, StopRec
<1>2. ASSUME NEW t \in Task PROVE TaskInv(t)
  <2>1. Held(t) = {} /\ slots[t] = 0
    BY DEF Held, Init
  <2>2. AppOf(t) = {}
    BY HopAssumption DEF AppOf, Init
  <2>3. \A k \in Caller : stops[t][k].pc = "idle"
    BY DEF Init, StopIdle
  <2>4. rec[t] = "none" /\ run[t] = "idle" /\ t \notin armed
    BY DEF Init
  <2> QED
    BY <2>1, <2>2, <2>3, <2>4 DEF TaskInv, Owned, Whole, Unstarted, Underway, Settled
<1> QED
  BY <1>1, <1>2 DEF HopInv

LEMMA StepKeeps ==
  ASSUME HopInv, [Next]_vars, [~Flip]_vars
  PROVE  HopInv'
<1>1. CASE UNCHANGED vars
  BY <1>1 DEF vars, agent, maps, hist, HopInv, HopType, TaskInv, Owned, Whole, Unstarted, Underway,
    Settled, Done, AppOf, Held, Cages
<1>2. CASE Next /\ ~Flip
  <2>1. ASSUME NEW t \in Task, Starting(t) PROVE HopInv'
    BY <2>1, StartKeeps, AllocateKeeps, StreamKeeps, ReleaseFailedKeeps DEF Starting
  <2>2. ASSUME NEW t \in Task, NEW k \in Caller, Stopping(t, k) PROVE HopInv'
    BY <2>2, StopKeeps, StopSlotKeeps, ReleaseStoppedKeeps DEF Stopping
  <2> QED
    BY <1>2, <2>1, <2>2, StartKeeps, CrashKeeps DEF Next
<1> QED
  BY <1>1, <1>2

LEMMA InvImplies == HopInv => OneOwner /\ OwnsWhereItRuns
<1> SUFFICES ASSUME HopInv PROVE OneOwner /\ OwnsWhereItRuns
  OBVIOUS
<1>1. OneOwner
  BY DEF HopInv, TaskInv, Owned, OneOwner
<1>2. ASSUME NEW t \in Task
      PROVE  /\ run[t] = "stream" => Held(t) # {}
             /\ {c \in Cage : app[c] = t} \subseteq Held(t)
  BY CagesOfTask DEF HopInv, TaskInv, Underway, Whole, AppOf
<1> QED
  BY <1>1, <1>2 DEF OwnsWhereItRuns
-----------------------------------------------------------------------------
(* What is gone is free.                                                   *)

\* A cage is marked for nobody but a task that has cages, and a start that failed
\* has none.
Marked(t) ==
  /\ slots[t] = 0 => \A c \in Cage : inUse[c] # t
  /\ run[t] \in {"err", "full"} => slots[t] = 0

\* Cages of a task that is gone, or crashed, have a Stop or a start to free them.
Tidied(t) ==
  t \in kept \/ slots[t] = 0 \/
    /\ rec[t] = "gone" => \/ run[t] \notin {"idle", "restart"}
                          \/ \E k \in Caller : stops[t][k].pc # "idle"
    /\ run[t] = "restart" => stops[t]["own"].pc # "idle"

GoneInv == HopInv /\ \A t \in Task : Marked(t) /\ Tidied(t)

\* One task moves; what the others have to show is as it was.
Apart(t) == \A u \in Task \ {t} :
  /\ rec'[u] = rec[u] /\ run'[u] = run[u] /\ slots'[u] = slots[u] /\ stops'[u] = stops[u]
  /\ u \in kept => u \in kept'
  /\ \A c \in Cage : inUse'[c] = u => inUse[c] = u

LEMMA OneTidies ==
  ASSUME GoneInv, HopInv', NEW t \in Task, Apart(t), Marked(t)', Tidied(t)'
  PROVE  GoneInv'
<1>1. ASSUME NEW u \in Task \ {t} PROVE Marked(u)' /\ Tidied(u)'
  BY DEF GoneInv, Apart, Marked, Tidied
<1> QED
  BY <1>1 DEF GoneInv

LEMMA StartTidies ==
  ASSUME GoneInv, HopInv', NEW t \in Task, Starting(t)
  PROVE  GoneInv'
<1>0. HopType /\ TaskInv(t) /\ Marked(t) /\ Tidied(t)
  BY DEF GoneInv, HopInv
<1> DEFINE Fine == Apart(t) /\ Marked(t)' /\ Tidied(t)'
<1> USE <1>0 DEF HopType, Apart, Marked, Tidied, Go, Leave
<1>1. ASSUME AcceptRun(t) \/ TakeTurn(t) \/ GiveUp(t) \/ GetImage(t) PROVE Fine
  BY <1>1 DEF AcceptRun, TakeTurn, GiveUp, GetImage, maps, hist, agent, TaskInv, Unstarted
<1>2. ASSUME StreamFails(t) \/ Arm(t) \/ Publish(t) \/ StartStream(t) PROVE Fine
  BY <1>2 DEF StreamFails, Arm, Publish, StartStream, maps, hist, agent
<1>3. ASSUME ReleaseFailed(t) PROVE Fine
  BY <1>3, HopAssumption DEF ReleaseFailed, Release, Put, hist, agent
<1>4. ASSUME AllocateSlot(t) PROVE Fine
  <2>1. /\ run[t] = "alloc" /\ slots[t] = 0 /\ rec' = rec /\ stops' = stops /\ kept' = kept
    BY <1>4 DEF AllocateSlot, agent, hist, TaskInv, Unstarted
  <2>2. PICK pool \in SUBSET (1 .. Cores) :
          IF Free(t, pool) = {} THEN Go(t, "full") /\ UNCHANGED maps ELSE Take(t, Min(Free(t, pool)))
    BY <1>4 DEF AllocateSlot
  <2>3. CASE Free(t, pool) = {}
    <3>1. run' = [run EXCEPT ![t] = "full"] /\ slots' = slots /\ inUse' = inUse
      BY <2>2, <2>3 DEF maps
    <3> QED
      BY <2>1, <3>1
  <2>4. CASE Free(t, pool) # {}
    <3> DEFINE s == Min(Free(t, pool))
    <3>1. s \in Cage
      <4>1. Free(t, pool) \in SUBSET Nat /\ Free(t, pool) \subseteq Cage
        BY HopAssumption DEF Free, Cage
      <4> QED
        BY <2>4, <4>1, LeastIsMember
    <3>2. Take(t, s)
      BY <2>2, <2>4
    <3> HIDE DEF s
    <3>3. /\ inUse' = [c \in Cage |-> IF c \in Cages(t, s) THEN t ELSE inUse[c]]
          /\ slots' = [slots EXCEPT ![t] = s] /\ s # 0
          /\ run' = [run EXCEPT ![t] = "queue"]
      BY <3>1, <3>2, HopAssumption DEF Take, Put, Cage
    <3> QED
      BY <2>1, <3>3
  <2> QED
    BY <2>3, <2>4
<1>5. ASSUME RunReturns(t) PROVE Fine
  <2>1. /\ run[t] \in {"ok", "err", "full"} /\ slots' = slots /\ inUse' = inUse /\ kept' = kept
        /\ run' = [run EXCEPT ![t] = IF run[t] = "err" THEN "restart" ELSE "idle"]
    BY <1>5 DEF RunReturns, maps, hist
  <2>2. \A u \in Task \ {t} : rec'[u] = rec[u]
    BY <1>5 DEF RunReturns
  <2>3. StopBegins(t, "own") \/ stops' = stops
    BY <1>5 DEF RunReturns
  <2>4. \A u \in Task \ {t} : stops'[u] = stops[u]
    BY <2>3 DEF StopBegins
  <2>5. Apart(t) /\ Marked(t)'
    BY <2>1, <2>2, <2>4
  <2>6. CASE run[t] \in {"err", "full"}
    BY <2>1, <2>5, <2>6
  <2>7. CASE run[t] = "ok" /\ rec[t] # "gone"
    <3>1. rec'[t] = "running"
      BY <1>5, <2>7 DEF RunReturns
    <3> QED
      BY <2>1, <2>5, <2>7, <3>1
  <2>8. CASE run[t] = "ok" /\ rec[t] = "gone"
    <3>1. StopBegins(t, "own")
      BY <1>5, <2>8 DEF RunReturns
    <3>2. stops'[t]["own"].pc # "idle" /\ "own" \in Caller
      BY <3>1 DEF StopBegins, StopIdle, Caller
    <3>3. run'[t] = "idle"
      BY <2>1, <2>8
    <3> QED
      BY <2>5, <3>2, <3>3
  <2> QED
    BY <2>1, <2>6, <2>7, <2>8
<1>6. Fine
  BY <1>1, <1>2, <1>3, <1>4, <1>5 DEF Starting
<1> QED
  BY <1>6, OneTidies

LEMMA AgentTidies ==
  ASSUME GoneInv, HopInv', NEW t \in Task, RequestStop(t) \/ DetectCrash(t) \/ Restart(t) \/ Crash(t)
  PROVE  GoneInv'
<1>0. HopType /\ TaskInv(t) /\ Marked(t) /\ Tidied(t)
  BY DEF GoneInv, HopInv
<1> DEFINE Fine == Apart(t) /\ Marked(t)' /\ Tidied(t)'
<1> USE <1>0 DEF HopType, Apart, Marked, Tidied, Go
<1>1. ASSUME RequestStop(t) PROVE Fine
  <2>1. stops' = [stops EXCEPT ![t]["request"] = [StopIdle EXCEPT !.pc = "begin"]] /\ "request" \in Caller
    BY <1>1 DEF RequestStop, StopBegins, Caller
  <2>2. stops'[t]["request"].pc # "idle" /\ stops'[t]["own"] = stops[t]["own"]
        /\ \A u \in Task \ {t} : stops'[u] = stops[u]
    BY <2>1 DEF StopIdle, Caller
  <2> QED
    BY <1>1, <2>1, <2>2 DEF RequestStop, maps, hist
<1>2. ASSUME DetectCrash(t) PROVE Fine
  <2>1. stops' = [stops EXCEPT ![t]["own"] = [StopIdle EXCEPT !.pc = "begin"]] /\ "own" \in Caller
    BY <1>2 DEF DetectCrash, StopBegins, Caller
  <2>2. stops'[t]["own"].pc # "idle" /\ \A u \in Task \ {t} : stops'[u] = stops[u]
    BY <2>1 DEF StopIdle, Caller
  <2> QED
    BY <1>2, <2>1, <2>2 DEF DetectCrash, maps, hist
<1>3. ASSUME Restart(t) PROVE Fine
  BY <1>3 DEF Restart, maps, hist
<1>4. ASSUME Crash(t) PROVE Fine
  BY <1>4 DEF Crash, maps, hist, agent
<1>5. Fine
  BY <1>1, <1>2, <1>3, <1>4
<1> QED
  BY <1>5, OneTidies

LEMMA StopTidies ==
  ASSUME GoneInv, HopInv', NEW t \in Task, NEW k \in Caller, Stopping(t, k)
  PROVE  GoneInv'
<1>0. HopType /\ TaskInv(t) /\ Marked(t) /\ Tidied(t)
  BY DEF GoneInv, HopInv
<1> DEFINE Fine == Apart(t) /\ Marked(t)' /\ Tidied(t)'
<1>1. ASSUME ReleaseStopped(t, k) PROVE Fine
  <2>1. slots'[t] = 0 /\ run' = run /\ rec' = rec /\ kept' = kept
        /\ inUse' = [c \in Cage |-> IF inUse[c] = t THEN NoTask ELSE inUse[c]]
    BY <1>0, <1>1 DEF ReleaseStopped, Release, Put, agent, hist, HopType
  <2>2. \A u \in Task \ {t} : slots'[u] = slots[u] /\ stops'[u] = stops[u]
    BY <1>0, <1>1 DEF ReleaseStopped, Release, StopEnds, HopType
  <2> QED
    BY <1>0, <2>1, <2>2, HopAssumption DEF Apart, Marked, Tidied
<1>2. ASSUME BeginStop(t, k) \/ WaitForStart(t, k) \/ StopSlot(t, k) PROVE Fine
  <2>1. /\ slots' = slots /\ inUse' = inUse /\ rec' = rec /\ run' = run
        /\ \A u \in Task : u \in kept => u \in kept'
    BY <1>2 DEF BeginStop, WaitForStart, StopSlot, agent, maps, hist
  <2>2. \A u \in Task \ {t} : stops'[u] = stops[u]
    <3>1. ASSUME NEW r, stops' = [stops EXCEPT ![t][k] = r]
          PROVE  \A u \in Task \ {t} : stops'[u] = stops[u]
      BY <1>0, <3>1 DEF HopType
    <3>2. ASSUME NEW pc, StopGo(t, k, pc)
          PROVE  \E r : stops' = [stops EXCEPT ![t][k] = r]
      BY <3>2 DEF StopGo
    <3>3. \E r : stops' = [stops EXCEPT ![t][k] = r]
      <4>1. CASE BeginStop(t, k)
        BY <4>1 DEF BeginStop, StopEnds
      <4>2. CASE WaitForStart(t, k)
        <5>1. \/ StopGo(t, k, "kill") \/ StopGo(t, k, "release")
              \/ stops' = [stops EXCEPT ![t][k] = StopIdle]
          BY <4>2 DEF WaitForStart, StopEnds
        <5> QED
          BY <5>1, <3>2, Zenon
      <4>3. CASE StopSlot(t, k)
        <5>1. StopGo(t, k, "release") \/ stops' = [stops EXCEPT ![t][k] = StopIdle]
          BY <4>3 DEF StopSlot, StopEnds
        <5> QED
          BY <5>1, <3>2, Zenon
      <4> QED
        BY <1>2, <4>1, <4>2, <4>3
    <3> QED
      BY <3>1, <3>3
  <2>3. Apart(t) /\ Marked(t)'
    BY <1>0, <2>1, <2>2 DEF Apart, Marked
  <2>4. slots[t] = 0 \/ t \in kept' \/ \E r : stops' = [stops EXCEPT ![t][k] = r] /\ r.pc # "idle"
    <3>1. CASE BeginStop(t, k)
      <4>1. CASE slots[t] # 0
        <5> DEFINE r == [pc |-> IF t \in plumbed THEN "wait" ELSE "kill", slot |-> slots[t]]
        <5>1. stops' = [stops EXCEPT ![t][k] = r] /\ r.pc # "idle"
          BY <3>1, <4>1 DEF BeginStop
        <5> QED
          BY <5>1
      <4> QED
        BY <4>1
    <3>2. ASSUME NEW pc \in {"kill", "release"}, StopGo(t, k, pc)
          PROVE  \E r : stops' = [stops EXCEPT ![t][k] = r] /\ r.pc # "idle"
      <4> DEFINE r == [stops[t][k] EXCEPT !.pc = pc]
      <4>1. stops' = [stops EXCEPT ![t][k] = r]
        BY <3>2 DEF StopGo
      <4>2. stops[t][k] \in StopRec
        BY <1>0 DEF HopType
      <4>3. r.pc = pc
        BY <4>2 DEF StopRec
      <4> QED
        BY <4>1, <4>3
    <3>3. CASE WaitForStart(t, k)
      <4>1. t \in kept' \/ StopGo(t, k, "kill") \/ StopGo(t, k, "release")
        BY <3>3 DEF WaitForStart
      <4> QED
        BY <4>1, <3>2
    <3>4. CASE StopSlot(t, k)
      <4>1. t \in kept' \/ StopGo(t, k, "release")
        BY <3>4 DEF StopSlot
      <4> QED
        BY <4>1, <3>2
    <3> QED
      BY <1>2, <3>1, <3>3, <3>4
  <2>5. CASE slots[t] = 0 \/ t \in kept'
    BY <2>1, <2>3, <2>5 DEF Tidied
  <2>6. ASSUME NEW r, stops' = [stops EXCEPT ![t][k] = r], r.pc # "idle" PROVE Tidied(t)'
    <3>1. \A i \in Caller : stops'[t][i] = IF i = k THEN r ELSE stops[t][i]
      BY <1>0, <2>6 DEF HopType
    <3>2. "own" \in Caller
      BY DEF Caller
    <3> QED
      BY <1>0, <2>1, <2>6, <3>1, <3>2 DEF Tidied
  <2> QED
    BY <2>3, <2>4, <2>5, <2>6
<1>3. Fine
  BY <1>1, <1>2 DEF Stopping
<1> QED
  BY <1>3, OneTidies

LEMMA StepTidies ==
  ASSUME GoneInv, [Next]_vars, [~Flip]_vars
  PROVE  GoneInv'
<1>1. HopInv'
  BY StepKeeps DEF GoneInv
<1>2. CASE UNCHANGED vars
  BY <1>1, <1>2 DEF vars, agent, maps, hist, GoneInv, Marked, Tidied
<1>3. CASE Next /\ ~Flip
  BY <1>1, <1>3, StartTidies, AgentTidies, StopTidies DEF Next
<1> QED
  BY <1>2, <1>3

-----------------------------------------------------------------------------
(* Types, over flips too.                                                  *)

\* A start that the driver has in hand has its channels in the maps, and a Stop that
\* is past waiting for the start has seen it end.
InHand(t) ==
  /\ Unstarted(t)
  /\ ~ Done(t) => t \in plumbed
  /\ \A k \in Caller : stops[t][k].pc \in {"kill", "release"} => Done(t)

TypeInv == TypeOK /\ \A t \in Task : InHand(t)

\* What a step of one task leaves of the others.
Beside(t) == \A u \in Task \ {t} :
  /\ rec'[u] = rec[u] /\ run'[u] = run[u] /\ slots'[u] = slots[u] /\ stops'[u] = stops[u]
  /\ u \in plumbed => u \in plumbed'

LEMMA OneInHand ==
  ASSUME TypeInv, TypeOK', NEW t \in Task, Beside(t), InHand(t)'
  PROVE  TypeInv'
<1>1. ASSUME NEW u \in Task \ {t} PROVE InHand(u)'
  BY DEF TypeInv, InHand, Beside, Unstarted, Done
<1> QED
  BY <1>1 DEF TypeInv

LEMMA FaultTyped == ASSUME TypeOK, Fault PROVE faults' \in 0 .. MaxFaults
BY HopAssumption DEF TypeOK, Fault

LEMMA IdleTyped == StopIdle \in StopRec /\ [StopIdle EXCEPT !.pc = "begin"] \in StopRec
                   /\ [StopIdle EXCEPT !.pc = "begin"].pc = "begin" /\ StopIdle.pc = "idle"
BY HopAssumption DEF StopIdle, StopRec

LEMMA OneStop ==
  ASSUME TypeOK, NEW t \in Task, NEW k \in Caller, NEW r \in StopRec,
         stops' = [stops EXCEPT ![t][k] = r]
  PROVE  /\ stops' \in [Task -> [Caller -> StopRec]]
         /\ \A u \in Task \ {t} : stops'[u] = stops[u]
         /\ \A i \in Caller : stops'[t][i] = IF i = k THEN r ELSE stops[t][i]
BY DEF TypeOK, StopRec

LEMMA PutTyped ==
  ASSUME NEW f \in [Cage -> Task \cup {NoTask}], NEW S, NEW v \in Task \cup {NoTask}
  PROVE  Put(f, S, v) \in [Cage -> Task \cup {NoTask}]
BY DEF Put

LEMMA ReleaseTyped ==
  ASSUME TypeOK, NEW t \in Task, Release(t)
  PROVE  /\ inUse' \in [Cage -> Task \cup {NoTask}] /\ slots' \in [Task -> 0 .. MaxCage]
         /\ slots'[t] = 0 /\ \A u \in Task \ {t} : slots'[u] = slots[u]
         /\ plumbed' = plumbed \ {t} /\ plumbed' \subseteq Task /\ armed' \subseteq plumbed'
         /\ stopping' \subseteq Task
<1>1. inUse' \in [Cage -> Task \cup {NoTask}]
  BY PutTyped DEF Release, TypeOK
<1> QED
  BY <1>1, HopAssumption DEF Release, TypeOK

LEMMA StartTyped ==
  ASSUME TypeInv, NEW t \in Task,
         \/ AcceptRun(t) \/ TakeTurn(t) \/ GiveUp(t) \/ GetImage(t) \/ StreamFails(t)
         \/ Arm(t) \/ Publish(t) \/ Restart(t)
  PROVE  TypeInv'
<1>0. TypeOK /\ InHand(t)
  BY DEF TypeInv
<1> DEFINE Fine == TypeOK' /\ Beside(t) /\ InHand(t)'
<1> USE <1>0 DEF TypeOK, InHand, Beside, Unstarted, Done, Go, Leave
<1>1. ASSUME AcceptRun(t) PROVE Fine
  BY <1>1 DEF AcceptRun, maps, hist
<1>2. ASSUME TakeTurn(t) PROVE Fine
  BY <1>2 DEF TakeTurn, agent, maps, hist
<1>3. ASSUME GiveUp(t) PROVE Fine
  BY <1>3 DEF GiveUp, agent, maps, hist
<1>4. ASSUME GetImage(t) PROVE Fine
  BY <1>4 DEF GetImage, agent, maps, hist
<1>5. ASSUME StreamFails(t) PROVE Fine
  BY <1>5 DEF StreamFails, agent, maps, hist
<1>6. ASSUME Arm(t) PROVE Fine
  BY <1>6 DEF Arm, agent, hist
<1>7. ASSUME Publish(t) PROVE Fine
  BY <1>7 DEF Publish, maps, hist
<1>8. ASSUME Restart(t) PROVE Fine
  BY <1>8 DEF Restart, maps, hist
<1>9. Fine
  BY <1>1, <1>2, <1>3, <1>4, <1>5, <1>6, <1>7, <1>8
<1> QED
  BY <1>9, OneInHand

LEMMA StreamTyped ==
  ASSUME TypeInv, NEW t \in Task, StartStream(t)
  PROVE  TypeInv'
<1>0. TypeOK /\ InHand(t) /\ app' \in [Cage -> Task \cup {NoTask}]
  BY PutTyped DEF TypeInv, TypeOK, StartStream
<1>1. TypeOK' /\ Beside(t) /\ InHand(t)'
  BY <1>0 DEF TypeOK, InHand, Beside, Unstarted, Done, Go, StartStream, agent, maps, hist
<1> QED
  BY <1>1, OneInHand

LEMMA AllocateTyped ==
  ASSUME TypeInv, NEW t \in Task, AllocateSlot(t)
  PROVE  TypeInv'
<1>0. TypeOK /\ InHand(t) /\ run[t] = "alloc"
      /\ UNCHANGED <<app, agent, cut, stops, hist, faults>>
  BY DEF TypeInv, AllocateSlot
<1>1. PICK pool \in SUBSET (1 .. Cores) :
        IF Free(t, pool) = {} THEN Go(t, "full") /\ UNCHANGED maps ELSE Take(t, Min(Free(t, pool)))
  BY DEF AllocateSlot
<1>2. CASE Free(t, pool) = {}
  <2>1. Go(t, "full") /\ UNCHANGED maps
    BY <1>1, <1>2
  <2>2. TypeOK' /\ Beside(t) /\ InHand(t)'
    BY <1>0, <2>1 DEF TypeOK, InHand, Beside, Unstarted, Done, Go, agent, maps, hist
  <2> QED
    BY <2>2, OneInHand
<1>3. CASE Free(t, pool) # {}
  <2> DEFINE s == Min(Free(t, pool))
  <2>1. s \in Cage
    <3>1. Free(t, pool) \in SUBSET Nat /\ Free(t, pool) \subseteq Cage
      BY HopAssumption DEF Free, Cage
    <3> QED
      BY <1>3, <3>1, LeastIsMember
  <2>2. Take(t, s)
    BY <1>1, <1>3
  <2> HIDE DEF s
  <2>3. inUse' \in [Cage -> Task \cup {NoTask}]
    BY <1>0, <2>2, PutTyped DEF Take, TypeOK
  <2>4. s \in 0 .. MaxCage
    BY <2>1, HopAssumption DEF Cage
  <2>5. TypeOK' /\ Beside(t) /\ InHand(t)'
    BY <1>0, <2>2, <2>3, <2>4 DEF Take, TypeOK, InHand, Beside, Unstarted, Done, Go, agent, hist
  <2> QED
    BY <2>5, OneInHand
<1> QED
  BY <1>2, <1>3

LEMMA ReleaseFailedTyped ==
  ASSUME TypeInv, NEW t \in Task, ReleaseFailed(t)
  PROVE  TypeInv'
<1>0. TypeOK /\ InHand(t) /\ run[t] \in {"failing", "unplaced"} /\ Release(t)
  BY DEF TypeInv, ReleaseFailed
<1>1. /\ run' = [run EXCEPT ![t] = IF run[t] = "failing" THEN "err" ELSE "full"]
      /\ cut' = cut \ {t} /\ UNCHANGED <<app, agent, stops, hist, faults>>
  BY DEF ReleaseFailed, Leave, Go
<1>2. TypeOK' /\ Beside(t) /\ InHand(t)'
  BY <1>0, <1>1, ReleaseTyped DEF TypeOK, InHand, Beside, Unstarted, Done, agent, hist
<1> QED
  BY <1>2, OneInHand

\* A Stop that begins waits for nothing yet.
LEMMA BeginTyped ==
  ASSUME TypeInv, NEW t \in Task, NEW k \in Caller, StopBegins(t, k), Done(t) => Done(t)'
  PROVE  /\ stops' \in [Task -> [Caller -> StopRec]]
         /\ \A u \in Task \ {t} : stops'[u] = stops[u]
         /\ \A i \in Caller : stops'[t][i].pc \in {"kill", "release"} => Done(t)'
<1>1. /\ stops' \in [Task -> [Caller -> StopRec]]
      /\ \A u \in Task \ {t} : stops'[u] = stops[u]
      /\ \A i \in Caller : stops'[t][i] = IF i = k THEN [StopIdle EXCEPT !.pc = "begin"] ELSE stops[t][i]
  BY IdleTyped, OneStop DEF StopBegins, TypeInv
<1> QED
  BY <1>1, IdleTyped DEF TypeInv, InHand

LEMMA AgentTyped ==
  ASSUME TypeInv, NEW t \in Task, RunReturns(t) \/ RequestStop(t) \/ DetectCrash(t)
  PROVE  TypeInv'
<1>0. TypeOK /\ InHand(t)
  BY DEF TypeInv
<1>1. UNCHANGED <<app, job, pid, maps, cut, hist, faults>>
  BY DEF RunReturns, RequestStop, DetectCrash
<1> DEFINE Starts == /\ run' \in [Task -> {"idle", "alloc", "queue", "get", "stream", "failing",
                                            "unplaced", "arm", "publish", "ok", "err", "full", "restart"}]
                     /\ \A u \in Task \ {t} : run'[u] = run[u]
                     /\ (run'[t] = run[t] \/ Done(t)') /\ (Done(t) => Done(t)')
                     /\ (run'[t] = run[t] \/ run'[t] \in {"idle", "restart"})
           Records == /\ rec' \in [Task -> {"none", "queued", "running", "failed", "gone"}]
                      /\ \A u \in Task \ {t} : rec'[u] = rec[u]
                      /\ rec[t] # "none" /\ rec'[t] # "none"
           Same == stops' = stops \/ \E k \in Caller : StopBegins(t, k)
<1>2. ASSUME RunReturns(t) PROVE Starts /\ Records /\ Same
  <2>1. Starts
    BY <1>0, <1>2 DEF RunReturns, Go, TypeOK, Done
  <2>2. Records
    BY <1>0, <1>2 DEF RunReturns, TypeOK, InHand, Unstarted
  <2>3. Same
    BY <1>2 DEF RunReturns, Caller
  <2> QED
    BY <2>1, <2>2, <2>3
<1>3. ASSUME RequestStop(t) PROVE Starts /\ Records /\ Same
  BY <1>0, <1>3 DEF RequestStop, TypeOK, Done, Caller
<1>4. ASSUME DetectCrash(t) PROVE Starts /\ Records /\ Same
  BY <1>0, <1>4 DEF DetectCrash, Go, TypeOK, Done, Caller
<1>5. Starts /\ Records /\ Same
  BY <1>2, <1>3, <1>4
<1>6. /\ stops' \in [Task -> [Caller -> StopRec]]
      /\ \A u \in Task \ {t} : stops'[u] = stops[u]
      /\ \A i \in Caller : stops'[t][i].pc \in {"kill", "release"} => Done(t)'
  <2>1. CASE stops' = stops
    BY <1>0, <1>5, <2>1 DEF TypeOK, InHand, StopRec
  <2>2. ASSUME NEW k \in Caller, StopBegins(t, k)
        PROVE  /\ stops' \in [Task -> [Caller -> StopRec]]
               /\ \A u \in Task \ {t} : stops'[u] = stops[u]
               /\ \A i \in Caller : stops'[t][i].pc \in {"kill", "release"} => Done(t)'
    BY <1>5, <2>2, BeginTyped
  <2> QED
    BY <1>5, <2>1, <2>2
<1>7. rec'[t] # "none" /\ (run'[t] = "alloc" => run[t] = "alloc")
  BY <1>5
<1>8. Unstarted(t)'
  <2>1. slots' = slots
    BY <1>1 DEF maps
  <2>2. ASSUME run'[t] = "alloc" PROVE \A i \in Caller : stops'[t][i].pc \in {"idle", "begin"}
    <3>1. run[t] = "alloc" /\ \A i \in Caller : stops[t][i].pc \in {"idle", "begin"}
      BY <1>0, <1>7, <2>2 DEF InHand, Unstarted
    <3>2. CASE stops' = stops
      BY <3>1, <3>2
    <3>3. ASSUME NEW k \in Caller, StopBegins(t, k)
          PROVE  \A i \in Caller : stops'[t][i].pc \in {"idle", "begin"}
      <4>1. \A i \in Caller : stops'[t][i] = IF i = k THEN [StopIdle EXCEPT !.pc = "begin"] ELSE stops[t][i]
        BY <1>0, <3>3, IdleTyped, OneStop DEF StopBegins
      <4> QED
        BY <3>1, <4>1, IdleTyped
    <3> QED
      BY <1>5, <3>2, <3>3
  <2> QED
    BY <1>0, <1>7, <2>1, <2>2 DEF InHand, Unstarted
<1>9. TypeOK'
  BY <1>0, <1>1, <1>5, <1>6 DEF TypeOK, StopRec, maps, hist
<1>10. Beside(t) /\ InHand(t)'
  BY <1>0, <1>1, <1>5, <1>6, <1>8 DEF Beside, InHand, Done, maps
<1> QED
  BY <1>9, <1>10, OneInHand

\* A Stop goes on to r.
LEMMA StopMoves ==
  ASSUME TypeInv, NEW t \in Task, NEW k \in Caller, NEW r \in StopRec,
         stops' = [stops EXCEPT ![t][k] = r],
         r.pc \in {"kill", "release"} => Done(t),
         r.pc \in {"idle", "begin"} \/ (rec[t] # "none" /\ run[t] # "alloc"),
         UNCHANGED <<agent, slots, inUse, plumbed, armed, run, lost>>,
         app' \in [Cage -> Task \cup {NoTask}], stopping' \subseteq Task, cut' \subseteq Task,
         kept' \subseteq Task, faults' \in 0 .. MaxFaults
  PROVE  TypeInv'
<1>0. TypeOK /\ InHand(t)
  BY DEF TypeInv
<1>1. /\ stops' \in [Task -> [Caller -> StopRec]]
      /\ \A u \in Task \ {t} : stops'[u] = stops[u]
      /\ \A i \in Caller : stops'[t][i] = IF i = k THEN r ELSE stops[t][i]
  BY <1>0, OneStop
<1>2. TypeOK'
  BY <1>0, <1>1 DEF TypeOK, StopRec, agent
<1>3. Beside(t)
  BY <1>1 DEF Beside, agent
<1>4. InHand(t)'
  BY <1>0, <1>1 DEF InHand, Unstarted, Done, agent
<1> QED
  BY <1>2, <1>3, <1>4, OneInHand

LEMMA StopTyped ==
  ASSUME TypeInv, NEW t \in Task, NEW k \in Caller, Stopping(t, k)
  PROVE  TypeInv'
<1>0. TypeOK /\ InHand(t) /\ stops[t][k] \in StopRec
  BY DEF TypeInv, TypeOK, StopRec
<1>1. stops[t][k].pc # "begin" /\ stops[t][k].pc # "idle" => rec[t] # "none" /\ run[t] # "alloc"
  BY <1>0 DEF InHand, Unstarted
<1>2. ASSUME NEW pc \in {"kill", "release"}, StopGo(t, k, pc)
      PROVE  \E r \in StopRec : stops' = [stops EXCEPT ![t][k] = r] /\ r.pc = pc
  <2> DEFINE r == [stops[t][k] EXCEPT !.pc = pc]
  <2>1. r \in StopRec /\ r.pc = pc
    BY <1>0 DEF StopRec
  <2>2. stops' = [stops EXCEPT ![t][k] = r]
    BY <1>2 DEF StopGo
  <2> QED
    BY <2>1, <2>2
<1>3. CASE BeginStop(t, k)
  <2>1. /\ UNCHANGED <<agent, slots, inUse, plumbed, armed, run, lost>>
        /\ app' \in [Cage -> Task \cup {NoTask}] /\ kept' \subseteq Task /\ faults' \in 0 .. MaxFaults
    BY <1>0, <1>3 DEF BeginStop, hist, TypeOK
  <2>2. CASE slots[t] = 0
    <3>1. stops' = [stops EXCEPT ![t][k] = StopIdle] /\ UNCHANGED <<stopping, cut>>
      BY <1>3, <2>2 DEF BeginStop, StopEnds
    <3>2. stopping' \subseteq Task /\ cut' \subseteq Task
      BY <1>0, <3>1 DEF TypeOK
    <3> QED
      BY <2>1, <3>1, <3>2, IdleTyped, StopMoves
  <2>3. CASE slots[t] # 0
    <3> DEFINE r == [pc |-> IF t \in plumbed THEN "wait" ELSE "kill", slot |-> slots[t]]
    <3>1. /\ stops' = [stops EXCEPT ![t][k] = r] /\ stopping' = stopping \cup {t}
          /\ cut' = IF Done(t) THEN cut ELSE cut \cup {t}
      BY <1>3, <2>3 DEF BeginStop
    <3>2. stopping' \subseteq Task /\ cut' \subseteq Task
      BY <1>0, <3>1 DEF TypeOK
    <3>3. r \in StopRec /\ (r.pc \in {"kill", "release"} => Done(t))
      BY <1>0 DEF StopRec, TypeOK, InHand
    <3>4. rec[t] # "none" /\ run[t] # "alloc"
      BY <1>0, <2>3 DEF InHand, Unstarted
    <3> HIDE DEF r
    <3> QED
      BY <2>1, <3>1, <3>2, <3>3, <3>4, StopMoves
  <2> QED
    BY <2>2, <2>3
<1>4. CASE WaitForStart(t, k)
  <2>1. /\ UNCHANGED <<agent, slots, inUse, plumbed, armed, run, lost>>
        /\ app' \in [Cage -> Task \cup {NoTask}] /\ stopping' \subseteq Task /\ cut' \subseteq Task
    BY <1>0, <1>4 DEF WaitForStart, maps, TypeOK
  <2>2. CASE Done(t) /\ StopGo(t, k, IF t \in armed THEN "kill" ELSE "release") /\ UNCHANGED <<kept, faults>>
    <3>1. PICK r \in StopRec : stops' = [stops EXCEPT ![t][k] = r] /\ r.pc \in {"kill", "release"}
      <4>1. StopGo(t, k, "kill") \/ StopGo(t, k, "release")
        BY <2>2
      <4> QED
        BY <4>1, <1>2
    <3>2. kept' \subseteq Task /\ faults' \in 0 .. MaxFaults
      BY <1>0, <2>2 DEF TypeOK
    <3>3. rec[t] # "none" /\ run[t] # "alloc"
      BY <1>1, <1>4 DEF WaitForStart
    <3> QED
      BY <2>1, <2>2, <3>1, <3>2, <3>3, StopMoves
  <2>3. CASE Fault /\ StopEnds(t, k) /\ kept' = kept \cup {t}
    <3>1. stops' = [stops EXCEPT ![t][k] = StopIdle] /\ kept' \subseteq Task /\ faults' \in 0 .. MaxFaults
      BY <1>0, <2>3, FaultTyped DEF StopEnds, TypeOK
    <3> QED
      BY <2>1, <3>1, IdleTyped, StopMoves
  <2> QED
    BY <1>4, <2>2, <2>3 DEF WaitForStart
<1>5. CASE StopSlot(t, k)
  <2>1. /\ UNCHANGED <<agent, slots, inUse, plumbed, armed, run, lost>>
        /\ stopping' \subseteq Task /\ cut' \subseteq Task
    BY <1>0, <1>5 DEF StopSlot, maps, TypeOK
  <2>2. app' \in [Cage -> Task \cup {NoTask}]
    <3>1. \A v : Off(v) \in [Cage -> Task \cup {NoTask}]
      BY <1>0, PutTyped DEF Off, TypeOK
    <3>2. app' = app \/ \E v : app' = Off(v)
      BY <1>5 DEF StopSlot
    <3> QED
      BY <1>0, <3>1, <3>2 DEF TypeOK
  <2>3. stops[t][k].pc = "kill" /\ Done(t) /\ rec[t] # "none" /\ run[t] # "alloc"
    BY <1>0, <1>1, <1>5 DEF StopSlot, InHand
  <2>4. CASE StopGo(t, k, "release") /\ UNCHANGED <<kept, faults>>
    <3>1. PICK r \in StopRec : stops' = [stops EXCEPT ![t][k] = r] /\ r.pc = "release"
      BY <1>2, <2>4
    <3>2. kept' \subseteq Task /\ faults' \in 0 .. MaxFaults
      BY <1>0, <2>4 DEF TypeOK
    <3> QED
      BY <2>1, <2>2, <2>3, <3>1, <3>2, StopMoves
  <2>5. CASE Fault /\ StopEnds(t, k) /\ kept' = kept \cup {t}
    <3>1. stops' = [stops EXCEPT ![t][k] = StopIdle] /\ kept' \subseteq Task /\ faults' \in 0 .. MaxFaults
      BY <1>0, <2>5, FaultTyped DEF StopEnds, TypeOK
    <3> QED
      BY <2>1, <2>2, <3>1, IdleTyped, StopMoves
  <2> QED
    BY <1>5, <2>4, <2>5 DEF StopSlot
<1>6. CASE ReleaseStopped(t, k)
  <2>1. /\ Release(t) /\ UNCHANGED <<app, agent, cut, run, hist, faults>>
        /\ stops' = [stops EXCEPT ![t][k] = StopIdle] /\ stops[t][k].pc = "release"
    BY <1>6 DEF ReleaseStopped, StopEnds
  <2>2. Done(t) /\ rec[t] # "none" /\ run[t] # "alloc"
    BY <1>0, <1>1, <2>1 DEF InHand
  <2>3. /\ stops' \in [Task -> [Caller -> StopRec]]
        /\ \A u \in Task \ {t} : stops'[u] = stops[u]
    BY <1>0, <2>1, IdleTyped, OneStop
  <2>4. TypeOK'
    BY <1>0, <2>1, <2>3, ReleaseTyped DEF TypeOK, StopRec, agent, hist
  <2>5. Beside(t)
    BY <1>0, <2>1, <2>3, ReleaseTyped DEF Beside, agent
  <2>6. InHand(t)'
    BY <2>1, <2>2 DEF InHand, Unstarted, Done, agent
  <2> QED
    BY <2>4, <2>5, <2>6, OneInHand
<1> QED
  BY <1>3, <1>4, <1>5, <1>6 DEF Stopping

LEMMA CrashTyped ==
  ASSUME TypeInv, NEW t \in Task, Crash(t)
  PROVE  TypeInv'
<1>1. UNCHANGED <<agent, maps, cut, run, stops, hist>>
  BY DEF Crash
<1>2. app' \in [Cage -> Task \cup {NoTask}] /\ faults' \in 0 .. MaxFaults
  BY PutTyped, FaultTyped DEF Crash, Off, TypeInv, TypeOK
<1>3. TypeOK'
  BY <1>1, <1>2 DEF TypeInv, TypeOK, agent, maps, hist
<1>4. Beside(t) /\ InHand(t)'
  BY <1>1 DEF TypeInv, Beside, InHand, Unstarted, Done, agent, maps
<1> QED
  BY <1>3, <1>4, OneInHand

\* A flip leaves no start and no Stop, and only a task with a record has cages.
LEMMA FlipTyped ==
  ASSUME TypeInv, Flip
  PROVE  TypeInv'
<1> DEFINE known == {t \in Task : rec[t] \in {"queued", "running", "failed"} /\ pid[t] # 0}
<1>0. TypeOK
  BY DEF TypeInv
<1>1. /\ slots' = [t \in Task |-> IF t \in known THEN pid[t] ELSE 0]
      /\ inUse' \in [Cage -> Task \cup {NoTask}]
      /\ plumbed' = {} /\ armed' = {} /\ stopping' = {} /\ cut' = {}
      /\ run' = [t \in Task |-> "idle"]
      /\ stops' = [t \in Task |-> [k \in Caller |-> StopIdle]]
      /\ UNCHANGED <<app, agent, kept>>
  BY DEF Flip, Adopt
<1>2. faults' \in 0 .. MaxFaults /\ lost' \subseteq Task
  BY <1>0, FaultTyped DEF Flip, TypeOK
<1>3. stops' \in [Task -> [Caller -> StopRec]]
  BY <1>1, IdleTyped
<1>4. slots' \in [Task -> 0 .. MaxCage]
  BY <1>0, <1>1, HopAssumption DEF TypeOK
<1>5. TypeOK'
  <2>1. run' \in [Task -> {"idle", "alloc", "queue", "get", "stream", "failing",
                           "unplaced", "arm", "publish", "ok", "err", "full", "restart"}]
    BY <1>1
  <2> QED
    BY <1>0, <1>1, <1>2, <1>3, <1>4, <2>1 DEF TypeOK, StopRec, agent
<1>6. ASSUME NEW t \in Task PROVE InHand(t)'
  <2>1. rec'[t] = "none" => slots'[t] = 0
    BY <1>1 DEF agent
  <2> QED
    BY <1>1, <2>1, IdleTyped DEF InHand, Unstarted, Done
<1> QED
  BY <1>5, <1>6 DEF TypeInv

-----------------------------------------------------------------------------
(* The theorems.                                                           *)

\* Up to the first flip no cage is given to two tasks: AllocateSlot, release and the
\* Stops that run beside a start share the maps of the driver, and only an owner's
\* cages are ever stopped (hopos.go).
THEOREM CagesHaveOneOwner == Spec /\ [][~Flip]_vars => []OneOwner
<1>1. HopInv /\ [Next]_vars /\ [~Flip]_vars => HopInv'
  BY StepKeeps
<1> QED
  BY <1>1, InitHolds, InvImplies, PTL DEF Spec

\* Up to the first flip an image is only streamed into the cages of its own task, and
\* as long as an app is on, its task owns all of its cages: no Stop, however it
\* crosses the start or another Stop, gives them back too early (stopOwned,
\* release).
THEOREM AppsRunInOwnCages == Spec /\ [][~Flip]_vars => []OwnsWhereItRuns
<1>1. HopInv /\ [Next]_vars /\ [~Flip]_vars => HopInv'
  BY StepKeeps
<1> QED
  BY <1>1, InitHolds, InvImplies, PTL DEF Spec

\* Up to the first flip, what the agent has done with is free: a task that is gone,
\* with its start and its Stops over, has no cage and no app, however its Stops
\* crossed its start, its crash or its restart; a Stop that failed quarantines it
\* (Run, Stop, startJob's ghost guard, restartTask).
THEOREM WhatIsGoneIsFree == Spec /\ [][~Flip]_vars => []GoneIsFree
<1>1. Init => GoneInv
  <2> SUFFICES ASSUME Init PROVE GoneInv
    OBVIOUS
  <2>1. \A t \in Task : Marked(t) /\ Tidied(t)
    BY HopAssumption DEF Init, Marked, Tidied
  <2> QED
    BY <2>1, InitHolds DEF GoneInv
<1>2. GoneInv /\ [Next]_vars /\ [~Flip]_vars => GoneInv'
  BY StepTidies
<1>3. GoneInv => GoneIsFree
  <2> SUFFICES ASSUME GoneInv, NEW t \in Task \ kept, rec[t] = "gone", run[t] = "idle",
                      \A k \in Caller : stops[t][k].pc = "idle"
               PROVE  slots[t] = 0 /\ \A c \in Cage : inUse[c] # t /\ app[c] # t
    BY DEF GoneIsFree
  <2>1. slots[t] = 0 /\ \A c \in Cage : inUse[c] # t
    BY DEF GoneInv, Marked, Tidied
  <2>2. AppOf(t) = {}
    BY <2>1, CagesOfTask DEF GoneInv, HopInv, TaskInv, Whole
  <2> QED
    BY <2>1, <2>2 DEF AppOf
<1> QED
  BY <1>1, <1>2, <1>3, PTL DEF Spec

\* Every variable keeps its type, over flips too: an app that may be on has a start
\* that ended in the maps of the driver, for no Stop gives those up before the start
\* is over (Run, Stop, release, AdoptRunning).
THEOREM TypeCorrect == Spec => []TypeOK
<1>1. Init => TypeInv
  <2> SUFFICES ASSUME Init PROVE TypeInv
    OBVIOUS
  <2>1. TypeOK
    <3>1. stops \in [Task -> [Caller -> StopRec]]
      BY IdleTyped DEF Init
    <3> QED
      BY <3>1, HopAssumption DEF Init, TypeOK, StopRec
  <2>2. \A t \in Task : InHand(t)
    BY IdleTyped DEF Init, InHand, Unstarted, Done
  <2> QED
    BY <2>1, <2>2 DEF TypeInv
<1>2. TypeInv /\ [Next]_vars => TypeInv'
  <2> SUFFICES ASSUME TypeInv, [Next]_vars PROVE TypeInv'
    OBVIOUS
  <2>1. CASE UNCHANGED vars
    BY <2>1 DEF vars, agent, maps, hist, TypeInv, TypeOK, InHand, Unstarted, Done
  <2>2. ASSUME NEW t \in Task, Starting(t) PROVE TypeInv'
    BY <2>2, StartTyped, StreamTyped, AllocateTyped, ReleaseFailedTyped, AgentTyped DEF Starting
  <2> QED
    BY <2>1, <2>2, StartTyped, AgentTyped, StopTyped, CrashTyped, FlipTyped DEF Next
<1>3. TypeInv => TypeOK
  BY DEF TypeInv
<1> QED
  BY <1>1, <1>2, <1>3, PTL DEF Spec
=============================================================================
