------------------------ MODULE LeaderDispatchProofs ------------------------
(***************************************************************************)
(* What holds of the leader's dispatching flag, of its settle delay and of *)
(* its books, for any agents, jobs and goroutines.                         *)
(*                                                                         *)
(* The flag is argued about with four kinds of step: a goroutine keeps     *)
(* what it has (Keeps), takes the flag of its job (Takes), gives it back   *)
(* (Gives), or is none of a goroutine's business (Rests).  Each action is  *)
(* shown to be of one kind; each property is shown once per kind.          *)
(*                                                                         *)
(* The books are argued about in the same way: a step is an instance that  *)
(* an agent accepts (Accepted), one that is counted (Tracked), an agent    *)
(* that registers (Joined), or nothing to the books (Elsewhere).           *)
(***************************************************************************)
EXTENDS LeaderDispatch, FiniteSetTheorems, TLAPS

\* The part of the state the arguments are about is made of functions.
Functions3 == DOMAIN pc = Worker /\ DOMAIN job = Worker /\ DOMAIN todo = Worker

\* The other goroutines do not move.
Alone(w) ==
  /\ \A v \in Worker \ {w} : pc'[v] = pc[v] /\ job'[v] = job[v] /\ todo'[v] = todo[v]
  /\ Functions3'

Keeps(w) ==
  /\ Alone(w) /\ dispatching' = dispatching
  /\ pc'[w] \in Holding <=> pc[w] \in Holding
  /\ pc[w] \in Holding => job'[w] = job[w]

Takes(w) ==
  /\ Alone(w) /\ dispatching' = dispatching \cup {job[w]}
  /\ pc[w] \notin Holding /\ job'[w] = job[w]
  /\ IF job[w] \in dispatching THEN pc'[w] \notin Holding ELSE pc'[w] \in Holding

Gives(w) ==
  /\ Alone(w) /\ dispatching' = dispatching \ {job[w]}
  /\ pc[w] \in {"unlock", "clear"} /\ pc'[w] \notin Holding

Rests == UNCHANGED <<pc, job, todo, dispatching>>
-----------------------------------------------------------------------------
(* Every action is of one kind.                                            *)

LEMMA DispatcherKinds ==
  ASSUME Functions3, NEW w \in Worker, Dispatcher(w)
  PROVE  Keeps(w) \/ Takes(w) \/ Gives(w)
<1> USE DEF Functions3, Alone, Go
<1>1. CASE SnapJobs(w)
  BY <1>1 DEF SnapJobs, Keeps, Holding, Return, ClearSlot, books
<1>2. CASE SnapAgents(w)
  BY <1>2 DEF SnapAgents, Keeps, Holding, Return, ClearSlot, books
<1>3. CASE ResetRound(w)
  BY <1>3 DEF ResetRound, Keeps, Holding, books, work, slot
<1>4. CASE NextJob(w)
  BY <1>4 DEF NextJob, Keeps, Holding, Return, ClearSlot, books
<1>5. CASE CheckDispatching(w)
  BY <1>5 DEF CheckDispatching, Keeps, Holding, books, work, slot
<1>6. CASE ClaimDaemon(w)
  BY <1>6 DEF ClaimDaemon, Takes, Holding, work, slot
<1>7. CASE ListMissing(w)
  BY <1>7 DEF ListMissing, Keeps, Holding, books
<1>8. CASE NextMissing(w)
  BY <1>8 DEF NextMissing, Keeps, Holding, books
<1>9. CASE CountPlaced(w)
  BY <1>9 DEF CountPlaced, Keeps, Holding, books
<1>10. CASE Lock(w)
  BY <1>10 DEF Lock, Takes, Holding, work, slot
<1>11. CASE Begin(w)
  BY <1>11 DEF Begin, Keeps, Holding, books
<1>12. CASE Pick(w)
  BY <1>12 DEF Pick, Keeps, Holding, books, work, slot
<1>13. CASE PickNoMore(w)
  BY <1>13 DEF PickNoMore, Keeps, Holding, books, work, slot
<1>14. CASE Offer(w)
  BY <1>14 DEF Offer, Keeps, Holding, books, work, slot
<1>15. CASE Send(w)
  BY <1>15 DEF Send, Keeps, Holding, SendRun, books
<1>16. CASE Track(w)
  BY <1>16 DEF Track, Keeps, Holding, books
<1>17. CASE Unlock(w)
  BY <1>17 DEF Unlock, Gives, Holding, work, slot
<1>18. CASE FindVictim(w)
  BY <1>18 DEF FindVictim, Keeps, Holding, books
<1>19. CASE StopVictim(w)
  BY <1>19 DEF StopVictim, Keeps, Holding, books, work, slot
<1>20. CASE Unbook(w)
  BY <1>20 DEF Unbook, Keeps, Holding, books, work, slot
<1> QED
  BY <1>1, <1>2, <1>3, <1>4, <1>5, <1>6, <1>7, <1>8, <1>9, <1>10, <1>11, <1>12, <1>13, <1>14,
    <1>15, <1>16, <1>17, <1>18, <1>19, <1>20 DEF Dispatcher

LEMMA RequesterKinds ==
  ASSUME Functions3, NEW w \in Worker, Requester(w)
  PROVE  Keeps(w) \/ Gives(w)
<1> USE DEF Functions3, Alone, Go
<1>1. CASE Lift(w)
  BY <1>1 DEF Lift, Keeps, Holding, books, work, slot
<1>2. CASE Store(w)
  BY <1>2 DEF Store, Keeps, Holding, books, work, slot
<1>3. CASE SnapOne(w)
  BY <1>3 DEF SnapOne, Keeps, Holding, books, work, slot
<1>4. CASE Tombstone(w)
  BY <1>4 DEF Tombstone, Keeps, Holding, books, work, slot
<1>5. CASE Drop(w)
  BY <1>5 DEF Drop, Keeps, Holding, books, work, slot
<1>6. CASE Wipe(w)
  BY <1>6 DEF Wipe, Keeps, Holding, books, work, slot
<1>7. CASE Purge(w)
  BY <1>7 DEF Purge, Keeps, Holding, books, work, slot
<1>8. CASE Sweep(w)
  BY <1>8 DEF Sweep, Keeps, Holding, books, work, slot
<1>9. CASE Look(w)
  BY <1>9 DEF Look, Keeps, Holding, books, work, slot
<1>10. CASE Clear(w)
  BY <1>10 DEF Clear, Gives, Holding, Return, ClearSlot, work
<1>11. CASE Registered(w)
  BY <1>11 DEF Registered, Keeps, Holding, Return, ClearSlot, work
<1>12. CASE Trim(w)
  BY <1>12 DEF Trim, Keeps, Holding, books, work, slot
<1>13. CASE TrimDrop(w)
  BY <1>13 DEF TrimDrop, Keeps, Holding, books, work, slot
<1>14. CASE TrimAgent(w)
  BY <1>14 DEF TrimAgent, Keeps, Holding, books, work, slot
<1>15. CASE TrimStop(w)
  BY <1>15 DEF TrimStop, Keeps, Holding, ClearSlot, books
<1>16. CASE MarkUnplaced(w)
  BY <1>16 DEF MarkUnplaced, Keeps, Holding, Return, ClearSlot, work
<1> QED
  BY <1>1, <1>2, <1>3, <1>4, <1>5, <1>6, <1>7, <1>8, <1>9, <1>10, <1>11, <1>12, <1>13, <1>14,
    <1>15, <1>16 DEF Requester

LEMMA RequestKinds ==
  ASSUME Functions3, NEW w \in Worker,
         Request(w) \/ StartReconcile(w) \/ \E a \in Agent : Register(w, a)
  PROVE  Keeps(w)
<1> USE DEF Functions3, Alone, Go, Keeps, Holding, books, work, slot
<1>1. ASSUME NEW j \in Job, Submit(w, j) PROVE Keeps(w)
  BY <1>1 DEF Submit
<1>2. ASSUME NEW j \in Job, Delete(w, j) PROVE Keeps(w)
  BY <1>2 DEF Delete
<1>3. ASSUME NEW j \in Job, NEW a \in Agent, HandBack(w, a, j) PROVE Keeps(w)
  BY <1>3 DEF HandBack
<1>4. ASSUME NEW a \in Agent, Leave(w, a) PROVE Keeps(w)
  BY <1>4 DEF Leave
<1>5. CASE StartReconcile(w)
  BY <1>5 DEF StartReconcile
<1>6. ASSUME NEW a \in Agent, Register(w, a) PROVE Keeps(w)
  BY <1>6 DEF Register
<1> QED
  BY <1>1, <1>2, <1>3, <1>4, <1>5, <1>6 DEF Request

LEMMA OutsideKinds ==
  ASSUME Settle \/ Tick \/ Patch \/ \E a \in Agent : CheckDeadAgent(a) \/ Restart(a) \/ Cut(a) \/ Heal(a)
  PROVE  Rests
<1>1. CASE Settle \/ Tick \/ Patch
  BY <1>1 DEF Settle, Tick, Patch, Rests, work
<1>2. ASSUME NEW a \in Agent, CheckDeadAgent(a) PROVE Rests
  BY <1>2 DEF CheckDeadAgent, Rests, work
<1>3. ASSUME NEW a \in Agent, Restart(a) \/ Cut(a) \/ Heal(a) PROVE Rests
  BY <1>3 DEF Restart, Cut, Heal, Rests, work, books
<1> QED
  BY <1>1, <1>2, <1>3

LEMMA StepKinds ==
  ASSUME Functions3, [Next]_vars
  PROVE  Rests \/ \E w \in Worker : Keeps(w) \/ Takes(w) \/ Gives(w)
<1>1. CASE UNCHANGED vars
  BY <1>1 DEF vars, books, work, Rests
<1>2. CASE Next
  BY <1>2, DispatcherKinds, RequesterKinds, RequestKinds, OutsideKinds DEF Next
<1> QED
  BY <1>1, <1>2

LEMMA StaysFunctions ==
  ASSUME Functions3, [Next]_vars
  PROVE  Functions3'
BY StepKinds DEF Keeps, Takes, Gives, Alone, Rests, Functions3
-----------------------------------------------------------------------------
(* A set flag has somebody who will clear it.                              *)

\* Every dispatching flag that is set has a goroutine that holds it and is on
\* its way to the deferred unlock of dispatchInstances and reconcileJob
\* (dispatch.go, health.go): whatever fails on the way, and whoever deletes the
\* job meanwhile, no job is left where every reconciliation skips it.
THEOREM NoFlagStranded == Spec => []FlagHasHolder
<1> DEFINE Inv == Functions3 /\ FlagHasHolder
<1>1. Init => Inv
  BY DEF Init, Functions3, FlagHasHolder
<1>2. Inv /\ [Next]_vars => Inv'
  <2> SUFFICES ASSUME Inv, [Next]_vars PROVE FlagHasHolder'
    BY StaysFunctions
  <2>1. CASE Rests
    BY <2>1 DEF Rests, FlagHasHolder
  <2>2. ASSUME NEW w \in Worker, Keeps(w) PROVE FlagHasHolder'
    BY <2>2 DEF Keeps, Alone, FlagHasHolder
  <2>3. ASSUME NEW w \in Worker, Takes(w) PROVE FlagHasHolder'
    <3> SUFFICES ASSUME NEW j \in dispatching'
                 PROVE  \E v \in Worker : pc'[v] \in Holding /\ job'[v] = j
      BY DEF FlagHasHolder
    <3>1. CASE j \in dispatching
      <4>1. PICK v \in Worker : pc[v] \in Holding /\ job[v] = j
        BY <3>1 DEF FlagHasHolder
      <4>2. v # w
        BY <4>1, <2>3 DEF Takes
      <4> QED
        BY <4>1, <4>2, <2>3 DEF Takes, Alone
    <3>2. CASE j \notin dispatching
      BY <3>2, <2>3 DEF Takes
    <3> QED
      BY <3>1, <3>2
  <2>4. ASSUME NEW w \in Worker, Gives(w) PROVE FlagHasHolder'
    <3> SUFFICES ASSUME NEW j \in dispatching'
                 PROVE  \E v \in Worker : pc'[v] \in Holding /\ job'[v] = j
      BY DEF FlagHasHolder
    <3>1. j \in dispatching /\ j # job[w]
      BY <2>4 DEF Gives
    <3>2. PICK v \in Worker : pc[v] \in Holding /\ job[v] = j
      BY <3>1 DEF FlagHasHolder
    <3> QED
      BY <3>1, <3>2, <2>4 DEF Gives, Alone
  <2> QED
    BY StepKinds, <2>1, <2>2, <2>3, <2>4
<1>3. Inv => FlagHasHolder
  OBVIOUS
<1> QED
  BY <1>1, <1>2, <1>3, PTL DEF Spec
-----------------------------------------------------------------------------
(* The environment's events that are ruled out.                            *)

\* The steps of a delete.
Deleting == {"tomb", "drop", "wipe", "purge", "sweep", "look", "clear"}

\* An event of which none is left stays away.
Never(e) == allowed[e] = 0
Counts == allowed \in [Event -> Nat]

LEMMA BoundsOnlyFall ==
  ASSUME Counts, [Next]_vars
  PROVE  Counts' /\ \A e \in Event : allowed'[e] <= allowed[e] /\ (Never(e) => Never(e)')
<1> DEFINE Falls == Counts' /\ \A e \in Event : allowed'[e] <= allowed[e]
                    /\ (Never(e) => Never(e)')
<1> USE DEF Counts, Never, Event
<1>1. ASSUME NEW f \in Event, Happens(f) PROVE Falls
  BY <1>1 DEF Happens
<1>2. ASSUME UNCHANGED allowed PROVE Falls
  BY <1>2
<1>3. ASSUME NEW w \in Worker, Dispatcher(w) PROVE UNCHANGED allowed \/ Happens("lost")
  BY <1>3 DEF Dispatcher, SnapJobs, SnapAgents, ResetRound, NextJob, CheckDispatching, ClaimDaemon,
    ListMissing, NextMissing, CountPlaced, Lock, Begin, Pick, PickNoMore, Offer, Send, SendRun,
    Track, Unlock, FindVictim, StopVictim, Unbook
<1>4. ASSUME NEW w \in Worker, Requester(w) PROVE UNCHANGED allowed
  BY <1>4 DEF Requester, Lift, Store, SnapOne, Tombstone, Drop, Wipe, Purge, Sweep, Look, Clear,
    Registered, Trim, TrimDrop, TrimAgent, TrimStop, MarkUnplaced
<1>5. ASSUME NEW w \in Worker, Request(w) PROVE \E f \in Event : Happens(f)
  BY <1>5 DEF Request, Submit, Delete, HandBack, Leave
<1>6. ASSUME NEW w \in Worker, StartReconcile(w) \/ \E a \in Agent : Register(w, a)
      PROVE  UNCHANGED allowed
  BY <1>6 DEF StartReconcile, Register
<1>7. ASSUME Settle \/ Tick \/ Patch PROVE UNCHANGED allowed \/ \E f \in Event : Happens(f)
  BY <1>7 DEF Settle, Tick, Patch
<1>8. ASSUME NEW a \in Agent, CheckDeadAgent(a) \/ Restart(a) \/ Cut(a) \/ Heal(a)
      PROVE  UNCHANGED allowed \/ \E f \in Event : Happens(f)
  BY <1>8 DEF CheckDeadAgent, Restart, Cut, Heal
<1>9. ASSUME UNCHANGED vars PROVE UNCHANGED allowed
  BY <1>9 DEF vars
<1>10. UNCHANGED allowed \/ \E f \in Event : Happens(f)
  <2>1. "lost" \in Event
    OBVIOUS
  <2> QED
    BY <2>1, <1>3, <1>4, <1>5, <1>6, <1>7, <1>8, <1>9 DEF Next
<1> HIDE DEF Falls
<1>11. Falls
  BY <1>1, <1>2, <1>10
<1> QED
  BY <1>11 DEF Falls
-----------------------------------------------------------------------------
(* Without deletes the flag keeps dispatchers apart.                       *)

\* Whoever dispatches a job has set its flag.
HoldersFlagged == \A w \in Worker : pc[w] \in Holding => job[w] \in dispatching

NobodyDeletes == \A w \in Worker : pc[w] \notin Deleting

LEMMA DeletesBegin ==
  ASSUME Functions3, [Next]_vars, Never("delete"), NobodyDeletes
  PROVE  NobodyDeletes'
<1> USE DEF Functions3, Go, NobodyDeletes, Deleting
<1>1. ASSUME NEW w \in Worker, Dispatcher(w) PROVE NobodyDeletes'

  <2>1. CASE SnapJobs(w)
    BY <2>1 DEF SnapJobs, Return
  <2>2. CASE SnapAgents(w)
    BY <2>2 DEF SnapAgents, Return
  <2>3. CASE ResetRound(w)
    BY <2>3 DEF ResetRound
  <2>4. CASE NextJob(w)
    BY <2>4 DEF NextJob, Return
  <2>5. CASE CheckDispatching(w)
    BY <2>5 DEF CheckDispatching
  <2>6. CASE ClaimDaemon(w)
    BY <2>6 DEF ClaimDaemon
  <2>7. CASE ListMissing(w)
    BY <2>7 DEF ListMissing
  <2>8. CASE NextMissing(w)
    BY <2>8 DEF NextMissing
  <2>9. CASE CountPlaced(w)
    BY <2>9 DEF CountPlaced
  <2>10. CASE Lock(w)
    BY <2>10 DEF Lock
  <2>11. CASE Begin(w)
    BY <2>11 DEF Begin
  <2>12. CASE Pick(w)
    BY <2>12 DEF Pick
  <2>13. CASE PickNoMore(w)
    BY <2>13 DEF PickNoMore
  <2>14. CASE Offer(w)
    BY <2>14 DEF Offer
  <2>15. CASE Send(w)
    BY <2>15 DEF Send, SendRun
  <2>16. CASE Track(w)
    BY <2>16 DEF Track
  <2>17. CASE Unlock(w)
    BY <2>17 DEF Unlock
  <2>18. CASE FindVictim(w)
    BY <2>18 DEF FindVictim
  <2>19. CASE StopVictim(w)
    BY <2>19 DEF StopVictim
  <2>20. CASE Unbook(w)
    BY <2>20 DEF Unbook
  <2> QED
    BY <1>1, <2>1, <2>2, <2>3, <2>4, <2>5, <2>6, <2>7, <2>8, <2>9, <2>10, <2>11, <2>12, <2>13,
      <2>14, <2>15, <2>16, <2>17, <2>18, <2>19, <2>20 DEF Dispatcher
<1>2. ASSUME NEW w \in Worker, Requester(w) PROVE NobodyDeletes'
  BY <1>2 DEF Requester, Lift, Store, SnapOne, Tombstone, Drop, Wipe, Purge, Sweep, Look, Clear,
    Registered, Trim, TrimDrop, TrimAgent, TrimStop, MarkUnplaced, Return
<1>3. ASSUME NEW w \in Worker, Request(w) PROVE NobodyDeletes'
  BY <1>3 DEF Request, Submit, Delete, HandBack, Leave, Happens, Never
<1>4. ASSUME NEW w \in Worker, StartReconcile(w) \/ \E a \in Agent : Register(w, a)
      PROVE  NobodyDeletes'
  BY <1>4 DEF StartReconcile, Register
<1>5. CASE Rests
  BY <1>5 DEF Rests
<1>6. CASE UNCHANGED vars
  BY <1>6 DEF vars
<1> QED
  BY <1>1, <1>2, <1>3, <1>4, <1>5, <1>6, OutsideKinds DEF Next

LEMMA FlagKept ==
  ASSUME Functions3, NobodyDeletes, HoldersFlagged, OneDispatcher, [Next]_vars
  PROVE  (HoldersFlagged /\ OneDispatcher)'
<1> USE DEF HoldersFlagged, OneDispatcher
<1>1. CASE Rests
  BY <1>1 DEF Rests
<1>2. ASSUME NEW w \in Worker, Keeps(w) PROVE (HoldersFlagged /\ OneDispatcher)'
  BY <1>2 DEF Keeps, Alone
<1>3. ASSUME NEW w \in Worker, Takes(w) PROVE (HoldersFlagged /\ OneDispatcher)'
  BY <1>3 DEF Takes, Alone
<1>4. ASSUME NEW w \in Worker, Gives(w) PROVE (HoldersFlagged /\ OneDispatcher)'
  <2>1. pc[w] \in Holding
    BY <1>4 DEF Gives, NobodyDeletes, Deleting, Holding
  <2> QED
    BY <2>1, <1>4 DEF Gives, Alone
<1> QED
  BY StepKinds, <1>1, <1>2, <1>3, <1>4

\* As long as nobody deletes a job, no two goroutines dispatch the same one:
\* SetDispatching of dispatchInstances and of reconcileJob excludes.  (A delete
\* clears the flag whoever holds it, and the exclusion ends with it.)
THEOREM FlagExcludesWithoutDeletes ==
  ASSUME Bound["delete"] = 0
  PROVE  Spec => []OneDispatcher
<1> DEFINE Inv == /\ Functions3 /\ Counts /\ Never("delete")
                  /\ NobodyDeletes /\ HoldersFlagged /\ OneDispatcher
<1>1. Init => Inv
  BY DispatchAssumption DEF Init, Functions3, Counts, Never, NobodyDeletes, Deleting,
    HoldersFlagged, OneDispatcher, Holding
<1>2. Inv /\ [Next]_vars => Inv'
  BY StaysFunctions, BoundsOnlyFall, DeletesBegin, FlagKept DEF Event
<1>3. Inv => OneDispatcher
  OBVIOUS
<1> QED
  BY <1>1, <1>2, <1>3, PTL DEF Spec
-----------------------------------------------------------------------------
(* A settling leader sends nothing, if nothing but jobs and agents come.   *)

\* What goroutines may be at while the leader settles: nobody reconciles.
Calm ==
  ~settled => /\ ~due
              /\ \A w \in Worker : /\ pc[w] \in {"idle", "lift", "store", "next", "register"}
                                    /\ todo[w] = {}

LEMMA StaysCalm ==
  ASSUME Functions3, [Next]_vars, Calm,
         \A e \in {"patch", "delete", "handback", "leave"} : ~Happens(e)
  PROVE  Calm'
<1> USE DEF Functions3, Go, Calm
<1>1. ASSUME NEW w \in Worker, Dispatcher(w) PROVE Calm'
  <2>1. CASE settled
    <3>1. settled'
      BY <1>1, <2>1 DEF Dispatcher, SnapJobs, SnapAgents, ResetRound, NextJob, CheckDispatching,
        ClaimDaemon, ListMissing, NextMissing, CountPlaced, Lock, Begin, Pick, PickNoMore, Offer,
        Send, Track, Unlock, FindVictim, StopVictim, Unbook, books
    <3> QED
      BY <3>1
  <2>2. CASE ~settled
    <3>1. NextJob(w)
      BY <1>1, <2>2 DEF Dispatcher, SnapJobs, SnapAgents, ResetRound, NextJob, CheckDispatching,
        ClaimDaemon, ListMissing, NextMissing, CountPlaced, Lock, Begin, Pick, PickNoMore, Offer,
        Send, Track, Unlock, FindVictim, StopVictim, Unbook
    <3> QED
      BY <3>1, <2>2 DEF NextJob, Return, books
  <2> QED
    BY <2>1, <2>2
<1>2. ASSUME NEW w \in Worker, Requester(w) PROVE Calm'
  <2>1. CASE settled
    <3>1. settled'
      BY <1>2, <2>1 DEF Requester, Lift, Store, SnapOne, Tombstone, Drop, Wipe, Purge, Sweep, Look,
        Clear, Registered, Trim, TrimDrop, TrimAgent, TrimStop, MarkUnplaced, books
    <3> QED
      BY <3>1
  <2>2. CASE ~settled
    <3>1. Lift(w) \/ Store(w) \/ Registered(w)
      BY <1>2, <2>2 DEF Requester, Lift, Store, SnapOne, Tombstone, Drop, Wipe, Purge, Sweep, Look,
        Clear, Registered, Trim, TrimDrop, TrimAgent, TrimStop, MarkUnplaced
    <3> QED
      BY <3>1, <2>2 DEF Lift, Store, Registered, Return, books, work
  <2> QED
    BY <2>1, <2>2
<1>3. ASSUME NEW w \in Worker, Request(w) PROVE Calm'
  <2>1. \E j \in Job : Submit(w, j)
    BY <1>3 DEF Request, Delete, HandBack, Leave
  <2> QED
    BY <2>1 DEF Submit, books
<1>4. ASSUME NEW w \in Worker, StartReconcile(w) PROVE Calm'
  BY <1>4 DEF StartReconcile, work
<1>5. ASSUME NEW w \in Worker, NEW a \in Agent, Register(w, a) PROVE Calm'
  BY <1>5 DEF Register, books
<1>6. CASE Settle \/ Tick \/ Patch
  BY <1>6 DEF Settle, Tick, Patch
<1>7. ASSUME NEW a \in Agent, CheckDeadAgent(a) \/ Restart(a) \/ Cut(a) \/ Heal(a) PROVE Calm'
  BY <1>7 DEF CheckDeadAgent, Restart, Cut, Heal, books, work
<1>8. CASE UNCHANGED vars
  BY <1>8 DEF vars, books, work
<1> QED
  BY <1>1, <1>2, <1>3, <1>4, <1>5, <1>6, <1>7, <1>8 DEF Next

\* An event that happens uses up one of its kind for good.
WithinBound == \A e \in Event : allowed[e] <= Bound[e]

LEMMA AskedStays ==
  ASSUME Counts, WithinBound, [Next]_vars
  PROVE  /\ WithinBound' /\ (Asked => Asked')
         /\ \A e \in {"patch", "delete", "handback", "leave"} : Happens(e) => Asked'
<1>1. Bound \in [Event -> Nat]
  BY DispatchAssumption
<1>2. \A e \in Event : allowed[e] \in Nat /\ allowed'[e] \in Nat /\ allowed'[e] <= allowed[e]
  BY BoundsOnlyFall DEF Counts
<1>3. WithinBound' /\ (Asked => Asked')
  BY <1>1, <1>2 DEF WithinBound, Asked, Event
<1>4. ASSUME NEW e \in {"patch", "delete", "handback", "leave"}, Happens(e) PROVE Asked'
  <2>1. e \in Event /\ e # "any"
    BY DEF Event
  <2>2. allowed'[e] = allowed[e] - 1
    BY <1>4, <2>1 DEF Happens, Counts, Event
  <2>3. allowed'[e] < Bound[e]
    BY <1>1, <1>2, <2>1, <2>2 DEF WithinBound
  <2> QED
    BY <2>3 DEF Asked
<1> QED
  BY <1>3, <1>4

\* "EnableSettle enables settle period": nothing that happens of itself - a job that
\* is submitted, an agent that registers, time that passes - sends a job to an agent
\* before the leader has settled.  Up to the first PATCH of a priority (or create
\* with one), delete, hand-back or DELETE of an agent, each of which starts a
\* reconciliation that does not ask whether it has.  (Nor does an update of a running
\* job, which is not in module LeaderDispatch.)
THEOREM SettlesFirst == Spec => []NothingSentUnasked
<1> DEFINE Inv == Functions3 /\ Counts /\ WithinBound /\ (Asked \/ Calm)
<1>1. Init => Inv
  BY DispatchAssumption DEF Init, Functions3, Counts, WithinBound, Calm
<1>2. Inv /\ [Next]_vars => Inv'
  <2> SUFFICES ASSUME Inv, [Next]_vars PROVE Inv'
    OBVIOUS
  <2>1. Functions3' /\ Counts' /\ WithinBound'
    BY StaysFunctions, BoundsOnlyFall, AskedStays
  <2>2. CASE Asked
    BY <2>1, <2>2, AskedStays
  <2>3. CASE Calm /\ \E e \in {"patch", "delete", "handback", "leave"} : Happens(e)
    BY <2>1, <2>3, AskedStays
  <2>4. CASE Calm /\ \A e \in {"patch", "delete", "handback", "leave"} : ~Happens(e)
    BY <2>1, <2>4, StaysCalm
  <2> QED
    BY <2>2, <2>3, <2>4
<1>3. Inv => NothingSentUnasked
  BY DEF Calm, NothingSentUnasked, Sending
<1> QED
  BY <1>1, <1>2, <1>3, PTL DEF Spec
-----------------------------------------------------------------------------
(* Numbers: the ranks in a finite set of them, its extremes, and a total.  *)

\* Among n numbers there is one with exactly 0, 1, ... n - 1 below it.
LEMMA Ranks ==
  ASSUME NEW S \in SUBSET Nat, IsFiniteSet(S), NEW n \in 0 .. Cardinality(S) - 1
  PROVE  \E a \in S : Cardinality({b \in S : b < a}) = n
<1> DEFINE Below(a) == {b \in S : b < a}
           rank == [a \in S |-> Cardinality(Below(a))]
           N == Cardinality(S)
<1>1. N \in Nat
  BY FS_CardinalityType
<1>2. ASSUME NEW a \in S PROVE IsFiniteSet(Below(a)) /\ rank[a] \in 0 .. N - 1
  <2>1. Below(a) \in SUBSET S /\ Below(a) # S
    OBVIOUS
  <2>2. IsFiniteSet(Below(a)) /\ Cardinality(Below(a)) <= N /\ Cardinality(Below(a)) # N
    BY <2>1, FS_Subset
  <2>3. Cardinality(Below(a)) \in Nat
    BY <2>2, FS_CardinalityType
  <2> QED
    BY <2>2, <2>3, <1>1
<1>3. ASSUME NEW a \in S, NEW c \in S, a < c PROVE rank[a] # rank[c]
  <2>0. a \in Nat /\ c \in Nat /\ \A b \in S : b \in Nat
    OBVIOUS
  <2>1. Below(a) \in SUBSET Below(c)
    <3> SUFFICES ASSUME NEW b \in S, b < a PROVE b < c
      OBVIOUS
    <3> QED
      BY <1>3, <2>0
  <2>2. a \in Below(c) /\ a \notin Below(a)
    BY <1>3, <2>0
  <2> QED
    BY <2>1, <2>2, <1>2, FS_Subset
<1>4. rank \in Injection(S, 0 .. N - 1)
  <2>1. rank \in [S -> 0 .. N - 1]
    BY <1>2
  <2>2. \A a, c \in S : rank[a] = rank[c] => a = c
    <3> SUFFICES ASSUME NEW a \in S, NEW c \in S, rank[a] = rank[c] PROVE a = c
      OBVIOUS
    <3>1. a < c \/ c < a \/ a = c
      OBVIOUS
    <3> QED
      BY <3>1, <1>3
  <2> QED
    BY <2>1, <2>2 DEF Injection, IsInjective
<1>5. IsFiniteSet(0 .. N - 1) /\ Cardinality(0 .. N - 1) = N
  BY <1>1, FS_Interval
<1>6. rank \in Surjection(S, 0 .. N - 1)
  BY <1>4, <1>5, FS_Injection
<1>7. PICK a \in S : rank[a] = n
  BY <1>6 DEF Surjection
<1> QED
  BY <1>7

LEMMA Extremes ==
  ASSUME NEW S \in SUBSET Nat, IsFiniteSet(S), S # {}
  PROVE  Min(S) \in S /\ Max(S) \in S
<1> DEFINE N == Cardinality(S)
<1>1. N \in Nat /\ N # 0
  BY FS_CardinalityType, FS_EmptySet
<1>2. \E x \in S : \A y \in S : x <= y
  <2>1. PICK a \in S : Cardinality({b \in S : b < a}) = 0
    BY <1>1, Ranks
  <2>2. IsFiniteSet({b \in S : b < a})
    BY FS_Subset
  <2>3. {b \in S : b < a} = {}
    BY <2>1, <2>2, FS_EmptySet
  <2> QED
    BY <2>3
<1>3. \E x \in S : \A y \in S : x >= y
  <2>1. PICK a \in S : Cardinality({b \in S : b < a}) = N - 1
    BY <1>1, Ranks
  <2> DEFINE T == {b \in S : b < a}
  <2>2. IsFiniteSet(T) /\ a \notin T
    BY FS_Subset
  <2>3. IsFiniteSet(T \cup {a}) /\ Cardinality(T \cup {a}) = Cardinality(T) + 1
    BY <2>2, FS_AddElement
  <2>4. Cardinality(T \cup {a}) = N
    BY <2>1, <2>3, <1>1
  <2>5. T \cup {a} \in SUBSET S
    OBVIOUS
  <2>6. T \cup {a} = S
    BY <2>4, <2>5, FS_Subset
  <2> QED
    BY <2>6
<1> QED
  BY <1>2, <1>3 DEF Min, Max

LEMMA TotalType ==
  ASSUME NEW f \in [Agent -> [Job -> Nat]], NEW S \in SUBSET Agent, NEW j \in Job
  PROVE  Total(f, S, j) \in Nat
<1> DEFINE Of(a) == {a} \X (1 .. f[a][j])
           of == [a \in S |-> Of(a)]
           All == {Of(a) : a \in S}
<1>1. IsFiniteSet(S)
  BY DispatchAssumption, FS_Subset
<1>2. of \in Surjection(S, All)
  BY DEF Surjection
<1>3. IsFiniteSet(All)
  BY <1>1, <1>2, FS_Surjection
<1>4. ASSUME NEW a \in S PROVE IsFiniteSet(Of(a))
  <2>1. f[a][j] \in Nat
    OBVIOUS
  <2>2. IsFiniteSet(1 .. f[a][j])
    BY <2>1, FS_Interval
  <2>3. IsFiniteSet({a})
    BY FS_Singleton
  <2> QED
    BY <2>2, <2>3, FS_Product
<1>5. IsFiniteSet(UNION All)
  BY <1>3, <1>4, FS_UNION
<1> QED
  BY <1>5, FS_CardinalityType DEF Total

LEMMA SortedType ==
  ASSUME agents \in SUBSET Agent, agents # {}, roundRobin \in Nat
  PROVE  Sorted(roundRobin % Cardinality(agents)) \in agents
<1> DEFINE N == Cardinality(agents)
<1>1. IsFiniteSet(agents) /\ agents \in SUBSET Nat
  BY DispatchAssumption, FS_Subset
<1>2. N \in Nat /\ N > 0
  BY <1>1, FS_CardinalityType, FS_EmptySet
<1>3. roundRobin % N \in 0 .. N - 1
  BY <1>2
<1>4. \E a \in agents : Cardinality({b \in agents : b < a}) = roundRobin % N
  BY <1>1, <1>3, Ranks
<1> QED
  BY <1>4 DEF Sorted

-----------------------------------------------------------------------------
(* Types.                                                                  *)

\* Where a goroutine has no job, has an agent, and has instances to place.
Jobless == {"idle", "snapJobs", "snapAgents", "reset", "next", "register",
            "trim", "trimDrop", "trimAgent", "trimStop"}
Targeting == {"sendDaemon", "trackDaemon", "offer", "send", "track", "stop", "unbook",
              "offerEvict", "sendEvict", "mark", "register",
              "trim", "trimDrop", "trimAgent", "trimStop"}
Placing == {"lock", "begin", "pick", "offer", "send", "track", "victim", "stop", "unbook",
            "offerEvict", "sendEvict"}

\* The local variables a goroutine is about to use have been set.
Set(w) ==
  /\ pc[w] \notin Jobless => job[w] \in Job
  /\ pc[w] \in Targeting => at[w] \in Agent
  /\ pc[w] \in {"stop", "unbook"} => victim[w] \in Job
  /\ pc[w] \in Placing => need[w] > 0

\* The types that make up TypeOK: of the books and the agents ...
Around ==
  /\ store \subseteq Job /\ agents \subseteq Agent
  /\ placed \in [Agent -> [Job -> Nat]] /\ real \in [Agent -> [Job -> Nat]]
  /\ dispatching \subseteq Job /\ tombstones \subseteq Job
  /\ settled \in BOOLEAN /\ due \in BOOLEAN
  /\ roundRobin \in 0 .. Wrap - 1
  /\ reach \subseteq Agent /\ fresh \subseteq Agent
  /\ allowed \in [Event -> Nat]

\* ... and of what the goroutines keep.
Local1 ==
  /\ pc \in [Worker -> Holding \cup Other]
  /\ job \in [Worker -> Job \cup {Nobody}]
  /\ todo \in [Worker -> SUBSET Job] /\ seen \in [Worker -> SUBSET Agent]
  /\ report \in [Worker -> [Job -> Nat]]
Local2 ==
  /\ cand \in [Worker -> SUBSET Agent]
  /\ need \in [Worker -> Nat] /\ tries \in [Worker -> Nat]
  /\ at \in [Worker -> Agent \cup {Nobody}]
  /\ victim \in [Worker -> Job \cup {Nobody}]

Typed == Around /\ Local1 /\ Local2 /\ \A w \in Worker : Set(w)

LEMMA Constants ==
  /\ Home \in Agent /\ Before \in SUBSET Job /\ Wrap \in Nat \ {0} /\ Bound \in [Event -> Nat]
  /\ \A j \in Job : Desired(j) \in Nat /\ Desired(j) > 0
  /\ \A n \in Nat : n % Wrap \in 0 .. Wrap - 1
<1>1. \A j \in Job : Count[j] \in Int
  BY DispatchAssumption
<1>2. Wrap \in Nat /\ Wrap > 0
  BY DispatchAssumption
<1> QED
  BY <1>1, <1>2, DispatchAssumption DEF Desired

LEMMA JobsFinite ==
  ASSUME NEW S \in SUBSET Job
  PROVE  S \in SUBSET Nat /\ IsFiniteSet(S)
<1>1. IsFiniteSet(Job) /\ Job \in SUBSET Nat
  BY DispatchAssumption
<1> QED
  BY <1>1, FS_Subset

LEMMA AgentsFinite ==
  ASSUME agents \in SUBSET Agent
  PROVE  IsFiniteSet(agents)
BY DispatchAssumption, FS_Subset

LEMMA HappensTypes ==
  ASSUME allowed \in [Event -> Nat], NEW e \in Event, Happens(e)
  PROVE  allowed' \in [Event -> Nat]
<1>1. "any" \in Event
  BY DEF Event
<1>2. CASE e = "any"
  BY <1>1, <1>2 DEF Happens
<1>3. CASE e # "any"
  BY <1>1, <1>3 DEF Happens
<1> QED
  BY <1>2, <1>3

LEMMA TypesBegin == Init => Typed
<1> SUFFICES ASSUME Init PROVE Typed
  OBVIOUS
<1>1. real \in [Agent -> [Job -> Nat]]
  BY DEF Init
<1>2. placed \in [Agent -> [Job -> Nat]]
  BY <1>1, Constants DEF Init, Zero
<1>6. /\ store = Before /\ agents = {Home} /\ dispatching = {} /\ tombstones = {}
      /\ roundRobin = 0 /\ due = FALSE /\ settled = ~SettleDelay
      /\ reach = Agent /\ fresh = {} /\ allowed = Bound
  BY DEF Init
<1>7. settled \in BOOLEAN
  BY <1>6
<1>8. 0 \in 0 .. Wrap - 1
  BY Constants
<1>3. Around
  BY <1>1, <1>2, <1>6, <1>7, <1>8, Constants DEF Around
<1>4. Local1 /\ Local2
  BY DEF Init, Local1, Local2, Zero, Other
<1>5. \A w \in Worker : Set(w)
  BY DEF Init, Set, Jobless, Targeting, Placing
<1> QED
  BY <1>3, <1>4, <1>5 DEF Typed

\* One agent of those a goroutine still has to deal with.
NextMissingAt(w, a) ==
  /\ at' = [at EXCEPT ![w] = a] /\ cand' = [cand EXCEPT ![w] = @ \ {a}]
  /\ Go(w, IF job[w] \in tombstones THEN "daemon" ELSE "sendDaemon")
  /\ UNCHANGED <<store, books, sites, job, todo, seen, need, tries, victim, report, allowed>>

FindVictimAt(w, a) ==
  /\ cand' = [cand EXCEPT ![w] = @ \ {a}]
  /\ IF Victims(w, a) = {}
       THEN UNCHANGED <<pc, at, victim>>
       ELSE /\ Go(w, "stop") /\ at' = [at EXCEPT ![w] = a]
            /\ victim' = [victim EXCEPT ![w] = Max(Victims(w, a))]
  /\ UNCHANGED <<store, books, sites, job, todo, seen, need, tries, report, allowed>>

StopNext(w, a, v) ==
  /\ Go(w, "stop") /\ at' = [at EXCEPT ![w] = a]
  /\ victim' = [victim EXCEPT ![w] = v] /\ cand' = [cand EXCEPT ![w] = @ \ {a}]
  /\ UNCHANGED <<store, books, sites, job, todo, seen, need, tries, report, allowed>>

LookAgain(w) ==
  /\ store' = store \ {job[w]} /\ cand' = [cand EXCEPT ![w] = agents]
  /\ need' = [need EXCEPT ![w] = @ + 1] /\ Go(w, "purge")
  /\ UNCHANGED <<books, sites, job, todo, seen, tries, at, victim, report, allowed>>

PurgeAt(w, a) ==
  /\ cand' = [cand EXCEPT ![w] = @ \ {a}]
  /\ real' = IF a \in reach THEN [real EXCEPT ![a][job[w]] = 0] ELSE real
  /\ store' = IF a = Home THEN store \ {job[w]} ELSE store
  /\ UNCHANGED <<pc, books, reach, fresh, job, todo, seen, need, tries, at, victim, report,
    allowed>>

TrimStopOf(w, j) ==
  /\ todo' = [todo EXCEPT ![w] = @ \ {j}]
  /\ real' = IF at[w] \in reach THEN [real EXCEPT ![at[w]][j] = 0] ELSE real
  /\ UNCHANGED <<store, books, reach, fresh, pc, job, seen, slot, report, allowed>>

Missing(w) == Desired(job[w]) - Total(placed, agents, job[w])

Wants(w, n) ==
  /\ Go(w, "lock") /\ need' = [need EXCEPT ![w] = n]
  /\ UNCHANGED <<store, books, sites, job, todo, seen, tries, at, cand, victim, report, allowed>>

Enough(w) ==
  /\ Go(w, "next")
  /\ UNCHANGED <<store, books, sites, job, todo, seen, need, tries, at, cand, victim, report,
    allowed>>

LEMMA CountPlacedWants ==
  ASSUME NEW w \in Worker, CountPlaced(w)
  PROVE  (Missing(w) > 0 /\ Wants(w, Missing(w))) \/ Enough(w)
BY DEF CountPlaced, Missing, Wants, Enough

LEMMA NextMissingChoice ==
  ASSUME NEW w \in Worker, NextMissing(w), cand[w] # {}
  PROVE  \E a \in cand[w] : NextMissingAt(w, a)
BY DEF NextMissing, NextMissingAt

LEMMA FindVictimChoice ==
  ASSUME NEW w \in Worker, FindVictim(w), cand[w] # {}
  PROVE  \E a \in cand[w] : FindVictimAt(w, a)
BY DEF FindVictim, FindVictimAt

LEMMA VictimFound ==
  ASSUME NEW w \in Worker, NEW a, NEW v, FindVictimAt(w, a), Victims(w, a) # {},
         v = Max(Victims(w, a))
  PROVE  StopNext(w, a, v)
BY DEF FindVictimAt, StopNext

LEMMA LookFound ==
  ASSUME NEW w \in Worker, Look(w), job[w] \in store
  PROVE  LookAgain(w)
BY DEF Look, LookAgain

LEMMA PurgeChoice ==
  ASSUME NEW w \in Worker, Purge(w), cand[w] # {}
  PROVE  \E a \in cand[w] : PurgeAt(w, a)
BY DEF Purge, PurgeAt

LEMMA TrimStopChoice ==
  ASSUME NEW w \in Worker, TrimStop(w), todo[w] # {}
  PROVE  \E j \in todo[w] : TrimStopOf(w, j)
BY DEF TrimStop, TrimStopOf

LEMMA DispatcherTypes ==
  ASSUME Typed, NEW w \in Worker, Dispatcher(w)
  PROVE  Typed'
<1> USE DEF Typed, Around, Local1, Local2, Set, Jobless, Targeting, Placing, Go, Return,
            ClearSlot, Zero, books, sites, slot, work, Holding, Other
<1>1. CASE SnapJobs(w)
  <2>8. CASE store = {}
    <3>1.
            /\ Return(w)
            /\ UNCHANGED <<store, books, sites, allowed>>
      BY <1>1, <2>8 DEF SnapJobs
    <3> QED
      BY <3>1
  <2>9. CASE ~ (store = {})
    <3>1.
            /\ pc[w] = "snapJobs" /\ Go(w, "snapAgents") /\ todo' = [todo EXCEPT ![w] = store]
            /\ UNCHANGED <<job, seen, slot, report>>
            /\ UNCHANGED <<store, books, sites, allowed>>
      BY <1>1, <2>9 DEF SnapJobs
    <3> QED
      BY <3>1
  <2> QED
    BY <2>8, <2>9
<1>2. CASE SnapAgents(w)
  <2>8. CASE agents = {}
    <3>1.
            /\ Return(w)
            /\ UNCHANGED <<store, books, sites, allowed>>
      BY <1>2, <2>8 DEF SnapAgents
    <3> QED
      BY <3>1
  <2>9. CASE ~ (agents = {})
    <3>1.
            /\ pc[w] = "snapAgents" /\ Go(w, "reset") /\ seen' = [seen EXCEPT ![w] = agents]
            /\ UNCHANGED <<job, todo, slot, report>>
            /\ UNCHANGED <<store, books, sites, allowed>>
      BY <1>2, <2>9 DEF SnapAgents
    <3> QED
      BY <3>1
  <2> QED
    BY <2>8, <2>9
<1>3. CASE ResetRound(w)
  <2>1. Around'
    BY <1>3, Constants DEF ResetRound
  <2>2. Local1'
    BY <1>3, Constants DEF ResetRound
  <2>3. Local2'
    BY <1>3, Constants DEF ResetRound
  <2>4. ASSUME NEW v \in Worker PROVE Set(v)'
    <3>1. CASE v = w
      BY <3>1, <1>3, Constants DEF ResetRound
    <3>2. CASE v # w
      BY <3>2, <1>3 DEF ResetRound
    <3> QED
      BY <3>1, <3>2
  <2> QED
    BY <2>1, <2>2, <2>3, <2>4
<1>4. CASE NextJob(w)
  <2>0. ASSUME todo[w] # {} PROVE Min(todo[w]) \in Job
    <3>1. todo[w] \in SUBSET Job
      OBVIOUS
    <3>2. todo[w] \in SUBSET Nat /\ IsFiniteSet(todo[w])
      BY <3>1, JobsFinite
    <3>3. Min(todo[w]) \in todo[w]
      BY <2>0, <3>2, Extremes
    <3> QED
      BY <3>1, <3>3
  <2>8. CASE todo[w] = {}
    <3>1.
            /\ Return(w)
            /\ UNCHANGED <<store, books, sites, allowed>>
      BY <1>4, <2>8, <2>0 DEF NextJob
    <3> QED
      BY <3>1
  <2>9. CASE ~ (todo[w] = {})
    <3>1.
            /\ Go(w, "check") /\ \E j \in Job : job' = [job EXCEPT ![w] = j]
            /\ \E S \in SUBSET Job : todo' = [todo EXCEPT ![w] = S]
            /\ ClearSlot(w) /\ UNCHANGED <<seen, report>>
            /\ UNCHANGED <<store, books, sites, allowed>>
      BY <1>4, <2>9, <2>0 DEF NextJob
    <3> QED
      BY <3>1
  <2> QED
    BY <2>8, <2>9
<1>5. CASE CheckDispatching(w)
  BY <1>5 DEF CheckDispatching
<1>6. CASE ClaimDaemon(w)
  BY <1>6 DEF ClaimDaemon
<1>7. CASE ListMissing(w)
  BY <1>7 DEF ListMissing
<1>8. CASE NextMissing(w)
  <2>1. job[w] \in Job
    BY <1>8 DEF NextMissing
  <2>2. CASE cand[w] = {}
    BY <1>8, <2>2, ZenonT(30) DEF NextMissing
  <2>3. CASE cand[w] # {}
    <3>1. PICK a \in cand[w] : NextMissingAt(w, a)
      BY <1>8, <2>3, NextMissingChoice
    <3>2. a \in Agent /\ cand[w] \ {a} \in SUBSET Agent
      OBVIOUS
    <3>4. Around' /\ Local1' /\ Local2'
      BY <3>1, <3>2 DEF NextMissingAt
    <3>5. ASSUME NEW v \in Worker PROVE Set(v)'
      BY <3>1, <3>2, <2>1 DEF NextMissingAt
    <3> QED
      BY <3>4, <3>5
  <2> QED
    BY <2>2, <2>3
<1>9. CASE CountPlaced(w)
  <2>1. job[w] \in Job
    BY <1>9 DEF CountPlaced
  <2>2. Missing(w) \in Int
    <3>1. Total(placed, agents, job[w]) \in Nat
      BY <2>1, TotalType
    <3>2. Desired(job[w]) \in Nat
      BY <2>1, Constants
    <3> QED
      BY <3>1, <3>2 DEF Missing
  <2>3. CASE Enough(w)
    BY <2>3 DEF Enough
  <2>4. CASE Missing(w) > 0 /\ Wants(w, Missing(w))
    <3>1. PICK n \in Nat : n > 0 /\ Wants(w, n)
      BY <2>2, <2>4
    <3>2. Around' /\ Local1' /\ Local2'
      BY <3>1 DEF Wants
    <3>3. ASSUME NEW v \in Worker PROVE Set(v)'
      BY <3>1, <2>1 DEF Wants
    <3> QED
      BY <3>2, <3>3
  <2> QED
    BY <1>9, <2>3, <2>4, CountPlacedWants
<1>10. CASE Lock(w)
  BY <1>10 DEF Lock
<1>11. CASE Begin(w)
  <2>0. Cardinality(agents) \in Nat
    BY AgentsFinite, FS_CardinalityType
  <2>1. Around'
    BY <1>11, <2>0 DEF Begin
  <2>2. Local1'
    BY <1>11, <2>0 DEF Begin
  <2>3. Local2'
    BY <1>11, <2>0 DEF Begin
  <2>4. ASSUME NEW v \in Worker PROVE Set(v)'
    <3>1. CASE v = w
      BY <3>1, <1>11, <2>0 DEF Begin
    <3>2. CASE v # w
      BY <3>2, <1>11 DEF Begin
    <3> QED
      BY <3>1, <3>2
  <2> QED
    BY <2>1, <2>2, <2>3, <2>4
<1>12. CASE Pick(w)
  <2>0. Sorted(roundRobin % Cardinality(agents)) \in Agent
    BY <1>12, SortedType DEF Pick
  <2>1. (roundRobin + 1) % Wrap \in 0 .. Wrap - 1
    <3>1. roundRobin + 1 \in Nat
      BY Constants
    <3> QED
      BY <3>1, Constants
  <2>2. tries[w] - 1 \in Nat
    BY <1>12 DEF Pick
  <2>3. Around' /\ Local1'
    BY <1>12, <2>1 DEF Pick
  <2>4. Local2'
    BY <1>12, <2>0, <2>2 DEF Pick
  <2>5. ASSUME NEW v \in Worker PROVE Set(v)'
    BY <1>12, <2>0 DEF Pick
  <2> QED
    BY <2>3, <2>4, <2>5
<1>13. CASE PickNoMore(w)
  BY <1>13 DEF PickNoMore
<1>14. CASE Offer(w)
  BY <1>14, ZenonT(30) DEF Offer
<1>15. CASE Send(w)
  <2>0. at[w] \in Agent /\ job[w] \in Job
    BY <1>15 DEF Send
  <2>9. PICK p, q, r \in Holding : SendRun(w, p, q, r)
    BY <1>15 DEF Send
  <2>7. \/ Accept(w)
        \/ UNCHANGED <<store, real>>
    BY <2>9 DEF SendRun
  <2>8. Accept(w) => real' \in [Agent -> [Job -> Nat]]
    <3>1. real[at[w]][job[w]] + 1 \in Nat
      BY <2>0
    <3> QED
      BY <2>0, <3>1 DEF Accept
  <2>1. store' \in SUBSET Job /\ real' \in [Agent -> [Job -> Nat]]
    BY <2>7, <2>8, <2>0 DEF Accept
  <2>2. allowed' \in [Event -> Nat]
    BY <1>15, HappensTypes DEF Send, SendRun, Event
  <2>3. Around'
    BY <1>15, <2>1, <2>2 DEF Send
  <2>4. \E p1 \in Holding : Go(w, p1)
    BY <2>9 DEF SendRun
  <2>10. cand' \in [Worker -> SUBSET Agent]
    BY <2>9, <2>0 DEF SendRun
  <2>5. Local1' /\ Local2'
    BY <1>15, <2>4, <2>10, ZenonT(30) DEF Send
  <2>6. ASSUME NEW v \in Worker PROVE Set(v)'
    BY <1>15, <2>0 DEF Send, SendRun
  <2> QED
    BY <2>3, <2>5, <2>6
<1>16. CASE Track(w)
  <2>1. at[w] \in Agent /\ job[w] \in Job
    BY <1>16 DEF Track
  <2>2. placed[at[w]][job[w]] + 1 \in Nat
    BY <2>1
  <2>3. placed' \in [Agent -> [Job -> Nat]]
    BY <1>16, <2>1, <2>2 DEF Track
  <2>8. CASE pc[w] = "trackDaemon"
    <3>1. Go(w, "daemon") /\ UNCHANGED need
      BY <1>16, <2>8 DEF Track
    <3>2. Around' /\ Local1' /\ Local2'
      BY <1>16, <2>3, <3>1 DEF Track
    <3>3. ASSUME NEW v \in Worker PROVE Set(v)'
      BY <1>16, <2>1, <2>8, <3>1 DEF Track
    <3> QED
      BY <3>2, <3>3
  <2>9. CASE pc[w] = "track"
    <3>1. need[w] \in Nat /\ need[w] > 0
      BY <2>9
    <3>2. need[w] - 1 \in Nat /\ (need[w] > 1 => need[w] - 1 > 0)
      BY <3>1
    <3>3. need' = [need EXCEPT ![w] = need[w] - 1] /\ Go(w, IF need[w] > 1 THEN "begin" ELSE
      "unlock")
      BY <1>16, <2>9 DEF Track
    <3>4. Around' /\ Local1' /\ Local2'
      BY <1>16, <2>3, <3>2, <3>3 DEF Track
    <3>5. ASSUME NEW v \in Worker PROVE Set(v)'
      BY <1>16, <2>9, <3>2, <3>3 DEF Track
    <3> QED
      BY <3>4, <3>5
  <2> QED
    BY <1>16, <2>8, <2>9 DEF Track
<1>17. CASE Unlock(w)
  BY <1>17 DEF Unlock
<1>18. CASE FindVictim(w)
  <2>1. job[w] \in Job /\ need[w] > 0
    BY <1>18 DEF FindVictim
  <2>2. CASE cand[w] = {}
    BY <1>18, <2>2, ZenonT(30) DEF FindVictim
  <2>3. CASE cand[w] # {}
    <3>1. PICK a \in cand[w] : FindVictimAt(w, a)
      BY <1>18, <2>3, FindVictimChoice
    <3>2. a \in Agent /\ cand[w] \ {a} \in SUBSET Agent
      OBVIOUS
    <3>3. CASE Victims(w, a) = {}
      BY <3>1, <3>2, <3>3, <2>1 DEF FindVictimAt
    <3>4. CASE Victims(w, a) # {}
      <4>1. Victims(w, a) \in SUBSET Job
        BY DEF Victims
      <4>2. Victims(w, a) \in SUBSET Nat /\ IsFiniteSet(Victims(w, a))
        BY <4>1, JobsFinite
      <4>3. PICK v \in Job : v = Max(Victims(w, a))
        BY <3>4, <4>1, <4>2, Extremes
      <4>4. StopNext(w, a, v)
        BY <3>1, <3>4, <4>3, VictimFound
      <4>5. Around' /\ Local1'
        BY <4>4 DEF StopNext
      <4>7. Local2'
        BY <4>4, <3>2 DEF StopNext
      <4>6. ASSUME NEW u \in Worker PROVE Set(u)'
        BY <4>4, <3>2, <2>1 DEF StopNext
      <4> QED
        BY <4>5, <4>6, <4>7
    <3> QED
      BY <3>3, <3>4
  <2> QED
    BY <2>2, <2>3
<1>19. CASE StopVictim(w)
  <2>8. CASE at[w] \in reach
    <3>1.
            /\ real' = [real EXCEPT ![at[w]][victim[w]] = 0]
            /\ pc[w] = "stop" /\ Go(w, "unbook") /\ at[w] \in Agent /\ victim[w] \in Job
            /\ UNCHANGED <<store, books, reach, fresh, work, allowed>>
      BY <1>19, <2>8 DEF StopVictim
    <3> QED
      BY <3>1
  <2>9. CASE ~ (at[w] \in reach)
    <3>1.
            /\ pc[w] = "stop" /\ Go(w, "victim")
            /\ UNCHANGED <<store, books, real, reach, fresh, work, allowed>>
      BY <1>19, <2>9 DEF StopVictim
    <3> QED
      BY <3>1
  <2> QED
    BY <2>8, <2>9
<1>20. CASE Unbook(w)
  BY <1>20 DEF Unbook
<1> QED
  BY <1>1, <1>2, <1>3, <1>4, <1>5, <1>6, <1>7, <1>8, <1>9, <1>10, <1>11, <1>12, <1>13, <1>14,
    <1>15, <1>16, <1>17, <1>18, <1>19, <1>20 DEF Dispatcher

LEMMA RequesterTypes ==
  ASSUME Typed, NEW w \in Worker, Requester(w)
  PROVE  Typed'
<1> USE DEF Typed, Around, Local1, Local2, Set, Jobless, Targeting, Placing, Go, Return,
            ClearSlot, Zero, books, sites, slot, work, Holding, Other
<1>1. CASE Lift(w)
  BY <1>1 DEF Lift
<1>2. CASE Store(w)
  <2>0. Desired(job[w]) \in Nat /\ Desired(job[w]) > 0
    BY <1>2, Constants DEF Store
  <2>1. Around'
    BY <1>2, <2>0 DEF Store
  <2>2. Local1'
    BY <1>2, <2>0 DEF Store
  <2>3. Local2'
    BY <1>2, <2>0 DEF Store
  <2>4. ASSUME NEW v \in Worker PROVE Set(v)'
    <3>1. CASE v = w
      BY <3>1, <1>2, <2>0 DEF Store
    <3>2. CASE v # w
      BY <3>2, <1>2 DEF Store
    <3> QED
      BY <3>1, <3>2
  <2> QED
    BY <2>1, <2>2, <2>3, <2>4
<1>3. CASE SnapOne(w)
  BY <1>3 DEF SnapOne
<1>4. CASE Tombstone(w)
  BY <1>4 DEF Tombstone
<1>5. CASE Drop(w)
  BY <1>5 DEF Drop
<1>6. CASE Wipe(w)
  BY <1>6 DEF Wipe
<1>7. CASE Purge(w)
  <2>1. job[w] \in Job
    BY <1>7 DEF Purge
  <2>2. CASE cand[w] = {}
    BY <1>7, <2>2, ZenonT(30) DEF Purge
  <2>3. CASE cand[w] # {}
    <3>1. PICK a \in cand[w] : PurgeAt(w, a)
      BY <1>7, <2>3, PurgeChoice
    <3>2. a \in Agent /\ cand[w] \ {a} \in SUBSET Agent
      OBVIOUS
    <3>3. store' \in SUBSET Job /\ real' \in [Agent -> [Job -> Nat]]
      BY <3>1, <3>2, <2>1 DEF PurgeAt
    <3> QED
      BY <3>1, <3>2, <3>3 DEF PurgeAt
  <2> QED
    BY <2>2, <2>3
<1>8. CASE Sweep(w)
  BY <1>8 DEF Sweep
<1>9. CASE Look(w)
  <2>1. job[w] \in Job
    BY <1>9 DEF Look
  <2>2. CASE job[w] \in store
    <3>1. LookAgain(w)
      BY <1>9, <2>2, LookFound
    <3>2. need[w] + 1 \in Nat
      OBVIOUS
    <3> QED
      BY <3>1, <3>2, <2>1 DEF LookAgain
  <2>3. CASE job[w] \notin store
    BY <1>9, <2>3, ZenonT(30) DEF Look
  <2> QED
    BY <2>2, <2>3
<1>10. CASE Clear(w)
  BY <1>10 DEF Clear
<1>11. CASE Registered(w)
  <2>1. at[w] \in Agent
    BY <1>11 DEF Registered
  <2>2. CASE settled
    BY <1>11, <2>1, <2>2, ZenonT(30) DEF Registered
  <2>3. CASE ~ settled
    <3>1. /\ agents' = agents \cup {at[w]} /\ fresh' = fresh \ {at[w]}
          /\ placed' = [placed EXCEPT ![at[w]] = report[w]] /\ Return(w)
          /\ UNCHANGED <<store, dispatching, settled, tombstones, roundRobin, due, real, reach,
            allowed>>
      BY <1>11, <2>3 DEF Registered
    <3> QED
      BY <3>1, <2>1
  <2> QED
    BY <2>2, <2>3
<1>12. CASE Trim(w)
  <2>1. Around'
    BY <1>12 DEF Trim, Redundant
  <2>2. Local1'
    BY <1>12 DEF Trim, Redundant
  <2>3. Local2'
    BY <1>12 DEF Trim, Redundant
  <2>4. ASSUME NEW v \in Worker PROVE Set(v)'
    <3>1. CASE v = w
      BY <3>1, <1>12 DEF Trim, Redundant
    <3>2. CASE v # w
      BY <3>2, <1>12 DEF Trim, Redundant
    <3> QED
      BY <3>1, <3>2
  <2> QED
    BY <2>1, <2>2, <2>3, <2>4
<1>13. CASE TrimDrop(w)
  BY <1>13 DEF TrimDrop
<1>14. CASE TrimAgent(w)
  BY <1>14 DEF TrimAgent
<1>15. CASE TrimStop(w)
  <2>1. at[w] \in Agent
    BY <1>15 DEF TrimStop
  <2>2. CASE todo[w] = {}
    <3>1. /\ Go(w, "snapJobs") /\ ClearSlot(w) /\ report' = [report EXCEPT ![w] = Zero]
          /\ UNCHANGED <<store, books, real, reach, fresh, job, todo, seen, allowed>>
      BY <1>15, <2>2 DEF TrimStop
    <3> QED
      BY <3>1
  <2>3. CASE todo[w] # {}
    <3>1. PICK j \in todo[w] : TrimStopOf(w, j)
      BY <1>15, <2>3, TrimStopChoice
    <3>2. j \in Job /\ todo[w] \ {j} \in SUBSET Job
      OBVIOUS
    <3>3. real' \in [Agent -> [Job -> Nat]]
      BY <3>1, <3>2, <2>1 DEF TrimStopOf
    <3> QED
      BY <3>1, <3>2, <3>3 DEF TrimStopOf
  <2> QED
    BY <2>2, <2>3
<1>16. CASE MarkUnplaced(w)
  <2>1. at[w] \in Agent /\ job[w] \in Job /\ placed[at[w]][job[w]] \in Nat
    BY <1>16 DEF MarkUnplaced
  <2>2. placed' \in [Agent -> [Job -> Nat]]
    <3>1. CASE placed[at[w]][job[w]] > 0
      <4>1. placed[at[w]][job[w]] - 1 \in Nat
        BY <2>1, <3>1
      <4> QED
        BY <1>16, <2>1, <3>1, <4>1 DEF MarkUnplaced
    <3>2. CASE ~ (placed[at[w]][job[w]] > 0)
      BY <1>16, <3>2 DEF MarkUnplaced
    <3> QED
      BY <3>1, <3>2
  <2>3. /\ due' = TRUE /\ Return(w)
        /\ UNCHANGED <<store, agents, dispatching, settled, tombstones, roundRobin, sites, allowed>>
    BY <1>16 DEF MarkUnplaced
  <2> QED
    BY <2>2, <2>3
<1> QED
  BY <1>1, <1>2, <1>3, <1>4, <1>5, <1>6, <1>7, <1>8, <1>9, <1>10, <1>11, <1>12, <1>13, <1>14,
    <1>15, <1>16 DEF Requester

LEMMA OtherTypes ==
  ASSUME Typed, Next, ~ \E w \in Worker : Dispatcher(w) \/ Requester(w)
  PROVE  Typed'
<1> USE DEF Typed, Around, Local1, Local2, Set, Jobless, Targeting, Placing, Go, Return,
            ClearSlot, Zero, books, sites, slot, work, Holding, Other
<1>1. ASSUME NEW w \in Worker, NEW j \in Job, Submit(w, j) PROVE Typed'
  <2>1. allowed' \in [Event -> Nat]
    BY <1>1, HappensTypes DEF Submit, Event
  <2> QED
    BY <1>1, <2>1 DEF Submit
<1>2. ASSUME NEW w \in Worker, NEW j \in Job, Delete(w, j) PROVE Typed'
  <2>1. allowed' \in [Event -> Nat]
    BY <1>2, HappensTypes DEF Delete, Event
  <2> QED
    BY <1>2, <2>1 DEF Delete
<1>3. ASSUME NEW w \in Worker, NEW j \in Job, NEW a \in Agent, HandBack(w, a, j) PROVE Typed'
  <2>1. allowed' \in [Event -> Nat]
    BY <1>3, HappensTypes DEF HandBack, Event
  <2> QED
    BY <1>3, <2>1 DEF HandBack
<1>4. ASSUME NEW w \in Worker, NEW a \in Agent, Leave(w, a) PROVE Typed'
  <2>1. allowed' \in [Event -> Nat]
    BY <1>4, HappensTypes DEF Leave, Event
  <2> QED
    BY <1>4, <2>1 DEF Leave
<1>5. ASSUME NEW w \in Worker, StartReconcile(w) PROVE Typed'
  BY <1>5 DEF StartReconcile
<1>6. ASSUME NEW w \in Worker, NEW a \in Agent, Register(w, a) PROVE Typed'
  BY <1>6 DEF Register
<1>7. ASSUME Settle \/ Tick \/ Patch PROVE Typed'
  <2>1. CASE Settle \/ Tick
    BY <2>1 DEF Settle, Tick
  <2>2. CASE Patch
    <3>1. allowed' \in [Event -> Nat]
      BY <2>2, HappensTypes DEF Patch, Event
    <3> QED
      BY <2>2, <3>1 DEF Patch
  <2> QED
    BY <1>7, <2>1, <2>2
<1>8. ASSUME NEW a \in Agent, CheckDeadAgent(a) PROVE Typed'
  BY <1>8 DEF CheckDeadAgent
<1>9. ASSUME NEW a \in Agent, Restart(a) PROVE Typed'
  <2>1. allowed' \in [Event -> Nat]
    BY <1>9, HappensTypes DEF Restart, Event
  <2> QED
    BY <1>9, <2>1 DEF Restart
<1>10. ASSUME NEW a \in Agent, Cut(a) \/ Heal(a) PROVE Typed'
  <2>1. allowed' \in [Event -> Nat]
    BY <1>10, HappensTypes DEF Cut, Heal, Event
  <2> QED
    BY <1>10, <2>1 DEF Cut, Heal
<1> QED
  BY <1>1, <1>2, <1>3, <1>4, <1>5, <1>6, <1>7, <1>8, <1>9, <1>10 DEF Next, Request

LEMMA TypesKept ==
  ASSUME Typed, [Next]_vars
  PROVE  Typed'
<1>1. CASE UNCHANGED vars
  BY <1>1 DEF vars, books, sites, slot, work, Typed, Around, Local1, Local2, Set
<1>2. CASE Next
  BY <1>2, DispatcherTypes, RequesterTypes, OtherTypes
<1> QED
  BY <1>1, <1>2

\* Counts stay natural numbers, and what a goroutine is about to use (an agent to send
\* to, a victim, instances that are missing) has been set: TypeOK with Set.
THEOREM TypeCorrect == Spec => []TypeOK
<1>1. Typed => TypeOK
  BY DEF Typed, Around, Local1, Local2, TypeOK
<1> QED
  BY <1>1, TypesBegin, TypesKept, PTL DEF Spec
-----------------------------------------------------------------------------
(* The books, when nothing fails.                                          *)

\* What is ruled out: a delete, a task handed back, a node that restarts, a network
\* that fails, an answer that is lost, an agent that leaves.
NoFaults == \A e \in {"delete", "handback", "restart", "cut", "lost", "leave"} : Never(e)

\* Then every agent can be reached, and no goroutine is at what those events begin.
Steady ==
  /\ Counts /\ NoFaults /\ reach = Agent /\ fresh = {}
  /\ \A w \in Worker : pc[w] \notin Deleting \cup {"mark"}

Tracking == {"track", "trackDaemon"}
Trimming == {"trimDrop", "trimAgent", "trimStop"}

\* A goroutine deals with agents that are registered; they stay so.
KnowsAgents(w) ==
  /\ seen[w] \subseteq agents /\ cand[w] \subseteq agents
  /\ pc[w] \in Targeting \ {"register"} => at[w] \in agents

\* An agent is not registered before its registration arrives, which says what it has.
ReportsTruly(w) ==
  pc[w] = "register" => /\ at[w] \notin agents /\ report[w] = real[at[w]]
                        /\ \A v \in Worker \ {w} : pc[v] = "register" => at[v] # at[w]

\* No goroutine stops an instance of a job of J, to make room or as surplus.
Spared(J) == \A w \in Worker : /\ pc[w] \in {"stop", "unbook"} => victim[w] \notin J
                               /\ pc[w] \in Trimming => todo[w] \cap J = {}

\* The goroutines that are about to count an instance of j on a.
Placers(a, j) == {w \in Worker : pc[w] \in Tracking /\ at[w] = a /\ job[w] = j}

Booked(J) ==
  \A a \in agents, j \in J : /\ IsFiniteSet(Placers(a, j))
                             /\ real[a][j] = placed[a][j] + Cardinality(Placers(a, j))

\* The kinds of step, as the books of the jobs of J see them.
Others(w) ==
  \A v \in Worker \ {w} :
    /\ pc'[v] = pc[v] /\ at'[v] = at[v] /\ job'[v] = job[v] /\ report'[v] = report[v]
    /\ seen'[v] = seen[v] /\ cand'[v] = cand[v] /\ victim'[v] = victim[v] /\ todo'[v] = todo[v]

Elsewhere(w, J) ==
  /\ pc[w] \notin Tracking /\ pc'[w] \notin Tracking /\ agents' = agents
  /\ \A a \in Agent, j \in J : real'[a][j] = real[a][j] /\ placed'[a][j] = placed[a][j]
  /\ \A a \in Agent \ agents : real'[a] = real[a]

Accepted(w) ==
  /\ pc[w] \in Sending /\ pc'[w] \in Tracking
  /\ pc[w] = "sendDaemon" <=> pc'[w] = "trackDaemon"
  /\ at'[w] = at[w] /\ job'[w] = job[w] /\ UNCHANGED <<agents, placed>>
  /\ real' = [real EXCEPT ![at[w]][job[w]] = @ + 1]

Tracked(w) ==
  /\ pc[w] \in Tracking /\ pc'[w] \notin Tracking /\ UNCHANGED <<agents, real>>
  /\ placed' = [placed EXCEPT ![at[w]][job[w]] = @ + 1]

Joined(w) ==
  /\ pc[w] = "register" /\ pc'[w] \notin Tracking \cup {"register"} /\ UNCHANGED real
  /\ agents' = agents \cup {at[w]} /\ placed' = [placed EXCEPT ![at[w]] = report[w]]

\* What a step of w leaves as the proofs below need it.
Moves(w) ==
  /\ Others(w) /\ KnowsAgents(w)' /\ agents \subseteq agents' /\ UNCHANGED <<reach, fresh>>
  /\ pc'[w] \notin Deleting \cup {"mark", "register"}

LEMMA DispatcherMoves ==
  ASSUME Typed, Steady, NEW w \in Worker, KnowsAgents(w), Dispatcher(w)
  PROVE  Moves(w)
<1> USE DEF Typed, Local1, Local2, Around, Steady, KnowsAgents, Go, Return, ClearSlot, Moves,
  Others,
            Targeting, Deleting, books, sites, slot, work
<1>1. CASE SnapJobs(w)
  BY <1>1 DEF SnapJobs
<1>2. CASE SnapAgents(w)
  BY <1>2 DEF SnapAgents
<1>3. CASE ResetRound(w)
  BY <1>3 DEF ResetRound
<1>4. CASE NextJob(w)
  BY <1>4 DEF NextJob
<1>5. CASE CheckDispatching(w)
  BY <1>5 DEF CheckDispatching
<1>6. CASE ClaimDaemon(w)
  BY <1>6 DEF ClaimDaemon
<1>7. CASE ListMissing(w)
  BY <1>7 DEF ListMissing
<1>8. CASE NextMissing(w)
  <2>1. CASE cand[w] = {}
    BY <1>8, <2>1 DEF NextMissing
  <2>2. CASE cand[w] # {}
    <3>1. PICK a \in cand[w] : NextMissingAt(w, a)
      BY <1>8, <2>2, NextMissingChoice
    <3> QED
      BY <3>1, <1>8 DEF NextMissingAt, NextMissing
  <2> QED
    BY <2>1, <2>2
<1>9. CASE CountPlaced(w)
  BY <1>9 DEF CountPlaced
<1>10. CASE Lock(w)
  BY <1>10 DEF Lock
<1>11. CASE Begin(w)
  BY <1>11 DEF Begin
<1>12. CASE Pick(w)
  <2>1. Sorted(roundRobin % Cardinality(agents)) \in agents
    BY <1>12, SortedType DEF Pick
  <2> QED
    BY <1>12, <2>1 DEF Pick
<1>13. CASE PickNoMore(w)
  BY <1>13 DEF PickNoMore
<1>14. CASE Offer(w)
  BY <1>14 DEF Offer
<1>15. CASE Send(w)
  BY <1>15 DEF Send, SendRun, Accept
<1>16. CASE Track(w)
  BY <1>16 DEF Track
<1>17. CASE Unlock(w)
  BY <1>17 DEF Unlock
<1>18. CASE FindVictim(w)
  <2>1. CASE cand[w] = {}
    BY <1>18, <2>1 DEF FindVictim
  <2>2. CASE cand[w] # {}
    <3>1. PICK a \in cand[w] : FindVictimAt(w, a)
      BY <1>18, <2>2, FindVictimChoice
    <3>2. pc[w] = "victim"
      BY <1>18 DEF FindVictim
    <3> QED
      BY <3>1, <3>2 DEF FindVictimAt
  <2> QED
    BY <2>1, <2>2
<1>19. CASE StopVictim(w)
  BY <1>19 DEF StopVictim
<1>20. CASE Unbook(w)
  BY <1>20 DEF Unbook
<1> QED
  BY <1>1, <1>2, <1>3, <1>4, <1>5, <1>6, <1>7, <1>8, <1>9, <1>10, <1>11, <1>12, <1>13, <1>14,
    <1>15, <1>16, <1>17, <1>18, <1>19, <1>20 DEF Dispatcher

LEMMA RequesterMoves ==
  ASSUME Typed, Steady, NEW w \in Worker, KnowsAgents(w), Requester(w)
  PROVE  Moves(w)
<1> USE DEF Typed, Local1, Local2, Around, Steady, KnowsAgents, Go, Return, ClearSlot, Moves,
  Others,
            Targeting, Deleting, books, sites, slot, work
<1>1. CASE Lift(w)
  BY <1>1 DEF Lift
<1>2. CASE Store(w)
  BY <1>2 DEF Store
<1>3. CASE SnapOne(w)
  BY <1>3 DEF SnapOne
<1>4. CASE Tombstone(w)
  BY <1>4 DEF Tombstone
<1>5. CASE Drop(w)
  BY <1>5 DEF Drop
<1>6. CASE Wipe(w)
  BY <1>6 DEF Wipe
<1>7. CASE Purge(w)
  BY <1>7 DEF Purge
<1>8. CASE Sweep(w)
  BY <1>8 DEF Sweep
<1>9. CASE Look(w)
  BY <1>9 DEF Look
<1>10. CASE Clear(w)
  BY <1>10 DEF Clear
<1>11. CASE Registered(w)
  BY <1>11 DEF Registered
<1>12. CASE Trim(w)
  BY <1>12 DEF Trim
<1>13. CASE TrimDrop(w)
  BY <1>13 DEF TrimDrop
<1>14. CASE TrimAgent(w)
  BY <1>14 DEF TrimAgent
<1>15. CASE TrimStop(w)
  <2>1. CASE todo[w] = {}
    BY <1>15, <2>1 DEF TrimStop
  <2>2. CASE todo[w] # {}
    <3>1. PICK j \in todo[w] : TrimStopOf(w, j)
      BY <1>15, <2>2, TrimStopChoice
    <3> QED
      BY <3>1, <1>15 DEF TrimStopOf, TrimStop
  <2> QED
    BY <2>1, <2>2
<1>16. CASE MarkUnplaced(w)
  BY <1>16 DEF MarkUnplaced
<1> QED
  BY <1>1, <1>2, <1>3, <1>4, <1>5, <1>6, <1>7, <1>8, <1>9, <1>10, <1>11, <1>12, <1>13, <1>14,
    <1>15, <1>16 DEF Requester

LEMMA DispatcherEffects ==
  ASSUME Typed, Steady, NEW J \in SUBSET Job, Spared(J),
         NEW w \in Worker, KnowsAgents(w), Dispatcher(w)
  PROVE  Elsewhere(w, J) \/ Accepted(w) \/ Tracked(w)
<1> USE DEF Typed, Local1, Local2, Around, Set, Targeting, Jobless, KnowsAgents, Steady, Deleting,
            Spared, Tracking, Trimming, Go, Return, ClearSlot, books, sites, slot, work
<1>1. CASE SnapJobs(w)
  BY <1>1 DEF SnapJobs, Elsewhere
<1>2. CASE SnapAgents(w)
  BY <1>2 DEF SnapAgents, Elsewhere
<1>3. CASE ResetRound(w)
  BY <1>3 DEF ResetRound, Elsewhere
<1>4. CASE NextJob(w)
  BY <1>4 DEF NextJob, Elsewhere
<1>5. CASE CheckDispatching(w)
  BY <1>5 DEF CheckDispatching, Elsewhere
<1>6. CASE ClaimDaemon(w)
  BY <1>6 DEF ClaimDaemon, Elsewhere
<1>7. CASE ListMissing(w)
  BY <1>7 DEF ListMissing, Elsewhere
<1>8. CASE NextMissing(w)
  <2>1. CASE cand[w] = {}
    BY <1>8, <2>1 DEF NextMissing, Elsewhere
  <2>2. CASE cand[w] # {}
    <3>1. PICK a \in cand[w] : NextMissingAt(w, a)
      BY <1>8, <2>2, NextMissingChoice
    <3> QED
      BY <3>1, <1>8 DEF NextMissingAt, NextMissing, Elsewhere
  <2> QED
    BY <2>1, <2>2
<1>9. CASE CountPlaced(w)
  BY <1>9 DEF CountPlaced, Elsewhere
<1>10. CASE Lock(w)
  BY <1>10 DEF Lock, Elsewhere
<1>11. CASE Begin(w)
  BY <1>11 DEF Begin, Elsewhere
<1>12. CASE Pick(w)
  BY <1>12 DEF Pick, Elsewhere
<1>13. CASE PickNoMore(w)
  BY <1>13 DEF PickNoMore, Elsewhere
<1>14. CASE Offer(w)
  BY <1>14 DEF Offer, Elsewhere
<1>15. CASE Send(w)
  <2>1. CASE Accept(w) /\ pc'[w] \in Tracking
    BY <1>15, <2>1 DEF Send, SendRun, Accept, Accepted, Sending
  <2>2. CASE UNCHANGED <<real, placed>> /\ pc'[w] \notin Tracking
    BY <1>15, <2>2 DEF Send, Elsewhere
  <2>3. ~ Happens("lost")
    BY DEF Happens, NoFaults, Never
  <2> QED
    BY <1>15, <2>1, <2>2, <2>3 DEF Send, SendRun
<1>16. CASE Track(w)
  BY <1>16 DEF Track, Tracked
<1>17. CASE Unlock(w)
  BY <1>17 DEF Unlock, Elsewhere
<1>18. CASE FindVictim(w)
  <2>1. CASE cand[w] = {}
    BY <1>18, <2>1 DEF FindVictim, Elsewhere
  <2>2. CASE cand[w] # {}
    <3>1. PICK a \in cand[w] : FindVictimAt(w, a)
      BY <1>18, <2>2, FindVictimChoice
    <3>2. pc[w] = "victim"
      BY <1>18 DEF FindVictim
    <3> QED
      BY <3>1, <3>2 DEF FindVictimAt, Elsewhere
  <2> QED
    BY <2>1, <2>2
<1>19. CASE StopVictim(w)
  BY <1>19 DEF StopVictim, Elsewhere
<1>20. CASE Unbook(w)
  BY <1>20 DEF Unbook, Elsewhere
<1> QED
  BY <1>1, <1>2, <1>3, <1>4, <1>5, <1>6, <1>7, <1>8, <1>9, <1>10, <1>11, <1>12, <1>13, <1>14,
    <1>15, <1>16, <1>17, <1>18, <1>19, <1>20 DEF Dispatcher

LEMMA RequesterEffects ==
  ASSUME Typed, Steady, NEW J \in SUBSET Job, Spared(J),
         NEW w \in Worker, KnowsAgents(w), Requester(w)
  PROVE  Elsewhere(w, J) \/ Joined(w)
<1> USE DEF Typed, Local1, Local2, Around, Set, Targeting, Jobless, KnowsAgents, Steady, Deleting,
            Spared, Tracking, Trimming, Go, Return, ClearSlot, books, sites, slot, work
<1>1. CASE Lift(w)
  BY <1>1 DEF Lift, Elsewhere
<1>2. CASE Store(w)
  BY <1>2 DEF Store, Elsewhere
<1>3. CASE SnapOne(w)
  BY <1>3 DEF SnapOne, Elsewhere
<1>4. CASE Tombstone(w)
  BY <1>4 DEF Tombstone
<1>5. CASE Drop(w)
  BY <1>5 DEF Drop
<1>6. CASE Wipe(w)
  BY <1>6 DEF Wipe
<1>7. CASE Purge(w)
  BY <1>7 DEF Purge
<1>8. CASE Sweep(w)
  BY <1>8 DEF Sweep
<1>9. CASE Look(w)
  BY <1>9 DEF Look
<1>10. CASE Clear(w)
  BY <1>10 DEF Clear
<1>11. CASE Registered(w)
  BY <1>11 DEF Registered, Joined
<1>12. CASE Trim(w)
  BY <1>12 DEF Trim, Elsewhere
<1>13. CASE TrimDrop(w)
  BY <1>13 DEF TrimDrop, Elsewhere
<1>14. CASE TrimAgent(w)
  BY <1>14 DEF TrimAgent, Elsewhere
<1>15. CASE TrimStop(w)
  <2>1. CASE todo[w] = {}
    BY <1>15, <2>1 DEF TrimStop, Elsewhere
  <2>2. CASE todo[w] # {}
    <3>1. PICK j \in todo[w] : TrimStopOf(w, j)
      BY <1>15, <2>2, TrimStopChoice
    <3>2. pc[w] = "trimStop" /\ j \in Job \ J /\ at[w] \in agents
      BY <1>15 DEF TrimStop
    <3> QED
      BY <3>1, <3>2 DEF TrimStopOf, Elsewhere
  <2> QED
    BY <2>1, <2>2
<1>16. CASE MarkUnplaced(w)
  BY <1>16 DEF MarkUnplaced
<1> QED
  BY <1>1, <1>2, <1>3, <1>4, <1>5, <1>6, <1>7, <1>8, <1>9, <1>10, <1>11, <1>12, <1>13, <1>14,
    <1>15, <1>16 DEF Requester

\* An agent sends its registration.
Asks(w, J) ==
  /\ Elsewhere(w, J) /\ pc'[w] = "register" /\ at'[w] \notin agents
  /\ UNCHANGED real /\ report'[w] = real[at'[w]]
  /\ \A v \in Worker : pc[v] = "register" => at[v] # at'[w]

LEMMA OtherEffects ==
  ASSUME Typed, Steady, NEW J \in SUBSET Job, NEW w \in Worker, KnowsAgents(w),
         Request(w) \/ StartReconcile(w) \/ \E a \in Agent : Register(w, a)
  PROVE  /\ Others(w) /\ KnowsAgents(w)' /\ UNCHANGED <<reach, fresh>>
         /\ pc'[w] \notin Deleting \cup {"mark"}
         /\ (pc'[w] # "register" /\ Elsewhere(w, J)) \/ Asks(w, J)
<1> USE DEF Typed, Local1, Local2, Around, KnowsAgents, Targeting, Deleting, Tracking, Steady,
  Others,
            Go, books, sites, slot, work
<1>1. ASSUME NEW e \in {"delete", "handback", "leave"} PROVE ~ Happens(e)
  BY <1>1 DEF Happens, NoFaults, Never
<1>2. ASSUME NEW j \in Job, Submit(w, j) PROVE pc'[w] = "lift" /\ Elsewhere(w, J) /\ Others(w)
  /\ KnowsAgents(w)' /\ UNCHANGED <<reach, fresh>>
  BY <1>2 DEF Submit, Elsewhere
<1>3. CASE StartReconcile(w)
  BY <1>3 DEF StartReconcile, Elsewhere
<1>4. ASSUME NEW a \in Agent, Register(w, a) PROVE Asks(w, J) /\ Others(w) /\ KnowsAgents(w)' /\
  UNCHANGED <<reach, fresh>>
  BY <1>4 DEF Register, Asks, Elsewhere
<1>5. ASSUME NEW j \in Job, Delete(w, j) \/ \E a \in Agent : HandBack(w, a, j) PROVE FALSE
  BY <1>1, <1>5 DEF Delete, HandBack
<1>6. ASSUME NEW a \in Agent, Leave(w, a) PROVE FALSE
  BY <1>1, <1>6 DEF Leave
<1>7. CASE \E j \in Job : Submit(w, j)
  BY <1>2, <1>7
<1>8. CASE \E a \in Agent : Register(w, a)
  <2>1. Asks(w, J) /\ Others(w) /\ KnowsAgents(w)' /\ UNCHANGED <<reach, fresh>>
    BY <1>4, <1>8
  <2>2. pc'[w] = "register"
    BY <2>1 DEF Asks
  <2> QED
    BY <2>1, <2>2
<1> QED
  BY <1>3, <1>5, <1>6, <1>7, <1>8 DEF Request

BooksInv(J) ==
  /\ Typed /\ Steady /\ Booked(J)
  /\ \A w \in Worker : KnowsAgents(w) /\ ReportsTruly(w)

LEMMA ElsewhereBooks ==
  ASSUME NEW J \in SUBSET Job, BooksInv(J), NEW w \in Worker, Others(w), Elsewhere(w, J)
  PROVE  Booked(J)'
<1> SUFFICES ASSUME NEW a \in agents, NEW j \in J
             PROVE  /\ IsFiniteSet(Placers(a, j)')
                    /\ real'[a][j] = placed'[a][j] + Cardinality(Placers(a, j)')
  BY DEF Booked, Elsewhere
<1>1. Placers(a, j)' = Placers(a, j)
  BY DEF Placers, Others, Elsewhere
<1>2. real'[a][j] = real[a][j] /\ placed'[a][j] = placed[a][j]
  BY DEF Elsewhere, BooksInv, Typed, Around
<1> QED
  BY <1>1, <1>2 DEF BooksInv, Booked

LEMMA AcceptedBooks ==
  ASSUME NEW J \in SUBSET Job, BooksInv(J), NEW w \in Worker, Others(w), Accepted(w)
  PROVE  Booked(J)'
<1> SUFFICES ASSUME NEW a \in agents, NEW j \in J
             PROVE  /\ IsFiniteSet(Placers(a, j)')
                    /\ real'[a][j] = placed'[a][j] + Cardinality(Placers(a, j)')
  BY DEF Booked, Accepted
<1>0. /\ real \in [Agent -> [Job -> Nat]] /\ placed \in [Agent -> [Job -> Nat]]
      /\ a \in Agent /\ j \in Job /\ at[w] \in Agent /\ job[w] \in Job
  BY DEF BooksInv, Typed, Around, Set, Accepted, Sending, Targeting, Jobless
<1>1. IsFiniteSet(Placers(a, j)) /\ real[a][j] = placed[a][j] + Cardinality(Placers(a, j))
  BY DEF BooksInv, Booked
<1>2. CASE a = at[w] /\ j = job[w]
  <2>1. Placers(a, j)' = Placers(a, j) \cup {w} /\ w \notin Placers(a, j)
    BY <1>2 DEF Placers, Others, Accepted, Sending, Tracking
  <2>2. IsFiniteSet(Placers(a, j)') /\ Cardinality(Placers(a, j)') = Cardinality(Placers(a, j)) + 1
    BY <2>1, <1>1, FS_AddElement
  <2>3. real'[a][j] = real[a][j] + 1 /\ placed'[a][j] = placed[a][j]
    BY <1>0, <1>2 DEF Accepted
  <2>4. Cardinality(Placers(a, j)) \in Nat
    BY <1>1, FS_CardinalityType
  <2> QED
    BY <1>0, <1>1, <2>2, <2>3, <2>4
<1>3. CASE ~ (a = at[w] /\ j = job[w])
  <2>1. Placers(a, j)' = Placers(a, j)
    BY <1>3 DEF Placers, Others, Accepted, Sending, Tracking
  <2>2. real'[a][j] = real[a][j] /\ placed'[a][j] = placed[a][j]
    BY <1>0, <1>3 DEF Accepted
  <2> QED
    BY <1>1, <2>1, <2>2
<1> QED
  BY <1>2, <1>3

LEMMA TrackedBooks ==
  ASSUME NEW J \in SUBSET Job, BooksInv(J), NEW w \in Worker, Others(w), Tracked(w)
  PROVE  Booked(J)'
<1> SUFFICES ASSUME NEW a \in agents, NEW j \in J
             PROVE  /\ IsFiniteSet(Placers(a, j)')
                    /\ real'[a][j] = placed'[a][j] + Cardinality(Placers(a, j)')
  BY DEF Booked, Tracked
<1>0. /\ real \in [Agent -> [Job -> Nat]] /\ placed \in [Agent -> [Job -> Nat]]
      /\ a \in Agent /\ j \in Job /\ at[w] \in Agent /\ job[w] \in Job
  BY DEF BooksInv, Typed, Around, Set, Tracked, Tracking, Targeting, Jobless
<1>1. IsFiniteSet(Placers(a, j)) /\ real[a][j] = placed[a][j] + Cardinality(Placers(a, j))
  BY DEF BooksInv, Booked
<1>2. CASE a = at[w] /\ j = job[w]
  <2>1. Placers(a, j)' = Placers(a, j) \ {w} /\ w \in Placers(a, j)
    BY <1>2 DEF Placers, Others, Tracked
  <2>2. IsFiniteSet(Placers(a, j)') /\ Cardinality(Placers(a, j)') = Cardinality(Placers(a, j)) - 1
    BY <2>1, <1>1, FS_RemoveElement
  <2>3. real'[a][j] = real[a][j] /\ placed'[a][j] = placed[a][j] + 1
    BY <1>0, <1>2 DEF Tracked
  <2>4. Cardinality(Placers(a, j)) \in Nat
    BY <1>1, FS_CardinalityType
  <2> QED
    BY <1>0, <1>1, <2>2, <2>3, <2>4
<1>3. CASE ~ (a = at[w] /\ j = job[w])
  <2>1. Placers(a, j)' = Placers(a, j)
    BY <1>3 DEF Placers, Others, Tracked
  <2>2. real'[a][j] = real[a][j] /\ placed'[a][j] = placed[a][j]
    BY <1>0, <1>3 DEF Tracked
  <2> QED
    BY <1>1, <2>1, <2>2
<1> QED
  BY <1>2, <1>3

\* What a new agent reports is what it has, and nobody is placing anything on it.
LEMMA JoinedBooks ==
  ASSUME NEW J \in SUBSET Job, BooksInv(J), NEW w \in Worker, Others(w), Joined(w)
  PROVE  Booked(J)'
<1> SUFFICES ASSUME NEW a \in agents', NEW j \in J
             PROVE  /\ IsFiniteSet(Placers(a, j)')
                    /\ real'[a][j] = placed'[a][j] + Cardinality(Placers(a, j)')
  BY DEF Booked
<1>0. /\ placed \in [Agent -> [Job -> Nat]] /\ real \in [Agent -> [Job -> Nat]]
      /\ at[w] \in Agent \ agents /\ agents \subseteq Agent /\ report[w] = real[at[w]]
  BY DEF BooksInv, Typed, Around, Set, Joined, Targeting, ReportsTruly
<1>1. Placers(a, j)' = Placers(a, j)
  BY DEF Placers, Others, Joined, Tracking
<1>2. CASE a = at[w]
  <2>1. Placers(a, j) = {}
    BY <1>0, <1>2 DEF Placers, BooksInv, KnowsAgents, Tracking, Targeting
  <2>2. placed'[a][j] = real[a][j] /\ real'[a][j] = real[a][j]
    BY <1>0, <1>2 DEF Joined
  <2>3. real[a][j] \in Nat
    BY <1>0, <1>2
  <2> QED
    BY <1>1, <2>1, <2>2, <2>3, FS_EmptySet
<1>3. CASE a # at[w]
  <2>1. a \in agents /\ placed'[a][j] = placed[a][j] /\ real'[a][j] = real[a][j]
    BY <1>0, <1>3 DEF Joined
  <2> QED
    BY <1>1, <2>1 DEF BooksInv, Booked
<1> QED
  BY <1>2, <1>3

LEMMA BooksOfStep ==
  ASSUME NEW J \in SUBSET Job, BooksInv(J), NEW w \in Worker, Others(w),
         Elsewhere(w, J) \/ Accepted(w) \/ Tracked(w) \/ Joined(w)
  PROVE  Booked(J)'
BY ElsewhereBooks, AcceptedBooks, TrackedBooks, JoinedBooks

\* The instances of an agent that is not registered stay as they are.
LEMMA ReportsKept ==
  ASSUME NEW J \in SUBSET Job, BooksInv(J), NEW w \in Worker, Others(w),
         \/ /\ Elsewhere(w, J) \/ Accepted(w) \/ Tracked(w) \/ Joined(w)
            /\ pc'[w] # "register"
         \/ Asks(w, J)
  PROVE  \A v \in Worker : ReportsTruly(v)'
<1> SUFFICES ASSUME NEW v \in Worker, pc'[v] = "register"
             PROVE  /\ at'[v] \notin agents' /\ report'[v] = real'[at'[v]]
                    /\ \A u \in Worker \ {v} : pc'[u] = "register" => at'[u] # at'[v]
  BY DEF ReportsTruly
<1>1. CASE Asks(w, J)
  BY <1>1 DEF BooksInv, ReportsTruly, Asks, Elsewhere, Others
<1>2. CASE /\ Elsewhere(w, J) \/ Accepted(w) \/ Tracked(w) \/ Joined(w)
           /\ pc'[w] # "register"
  <2>1. /\ v # w /\ pc[v] = "register" /\ at'[v] = at[v] /\ report'[v] = report[v]
        /\ at[v] \in Agent \ agents /\ report[v] = real[at[v]]
        /\ \A u \in Worker \ {v} : pc[u] = "register" => at[u] # at[v]
    BY <1>2 DEF BooksInv, Typed, Set, Targeting, ReportsTruly, Others
  <2>2. \A u \in Worker \ {v} : pc'[u] = "register" => at'[u] # at'[v]
    BY <1>2, <2>1 DEF Others
  <2>3. at[v] \notin agents' /\ real'[at[v]] = real[at[v]]
    <3>1. CASE Elsewhere(w, J)
      BY <3>1, <2>1 DEF Elsewhere
    <3>2. CASE Accepted(w)
      BY <3>2, <2>1 DEF Accepted, BooksInv, Typed, Around, KnowsAgents, Sending, Targeting
    <3>3. CASE Tracked(w)
      BY <3>3, <2>1 DEF Tracked
    <3>4. CASE Joined(w)
      BY <3>4, <2>1 DEF Joined
    <3> QED
      BY <1>2, <3>1, <3>2, <3>3, <3>4
  <2> QED
    BY <2>1, <2>2, <2>3
<1> QED
  BY <1>1, <1>2

LEMMA BooksKept ==
  ASSUME NEW J \in SUBSET Job, BooksInv(J), Spared(J), [Next]_vars
  PROVE  BooksInv(J)'
<1> USE DEF BooksInv
<1>1. Typed' /\ Counts' /\ NoFaults'
  BY TypesKept, BoundsOnlyFall DEF Steady, NoFaults, Event
<1>2. ASSUME NEW w \in Worker, Others(w), KnowsAgents(w)', agents \subseteq agents',
             UNCHANGED <<reach, fresh>>, pc'[w] \notin Deleting \cup {"mark"}
      PROVE  Steady' /\ \A v \in Worker : KnowsAgents(v)'
  <2>1. Steady'
    BY <1>1, <1>2 DEF Steady, Others
  <2>2. ASSUME NEW v \in Worker \ {w} PROVE KnowsAgents(v)'
    BY <1>2, <2>2 DEF KnowsAgents, Others
  <2> QED
    BY <1>2, <2>1, <2>2
<1>3. ASSUME NEW w \in Worker, Dispatcher(w) \/ Requester(w) PROVE BooksInv(J)'
  <2>1. Moves(w) /\ (Elsewhere(w, J) \/ Accepted(w) \/ Tracked(w) \/ Joined(w))
    BY <1>3, DispatcherMoves, RequesterMoves, DispatcherEffects, RequesterEffects
  <2>2. Steady' /\ \A v \in Worker : KnowsAgents(v)'
    BY <2>1, <1>2 DEF Moves
  <2>3. Booked(J)' /\ \A v \in Worker : ReportsTruly(v)'
    BY <2>1, BooksOfStep, ReportsKept DEF Moves
  <2> QED
    BY <1>1, <2>2, <2>3
<1>4. ASSUME NEW w \in Worker,
             Request(w) \/ StartReconcile(w) \/ \E a \in Agent : Register(w, a)
      PROVE  BooksInv(J)'
  <2>1. /\ Others(w) /\ KnowsAgents(w)' /\ UNCHANGED <<reach, fresh>>
        /\ pc'[w] \notin Deleting \cup {"mark"}
        /\ (pc'[w] # "register" /\ Elsewhere(w, J)) \/ Asks(w, J)
    BY <1>4, OtherEffects
  <2>2. Elsewhere(w, J) /\ agents' = agents
    BY <2>1 DEF Asks, Elsewhere
  <2>3. Steady' /\ \A v \in Worker : KnowsAgents(v)'
    BY <2>1, <2>2, <1>2
  <2>4. Booked(J)' /\ \A v \in Worker : ReportsTruly(v)'
    BY <2>1, <2>2, BooksOfStep, ReportsKept
  <2> QED
    BY <1>1, <2>3, <2>4
<1>5. CASE UNCHANGED vars \/ Settle \/ Tick \/ Patch
  <2>1. UNCHANGED <<agents, placed, real, reach, fresh, pc, at, job, seen, cand, report>>
    BY <1>5 DEF Settle, Tick, Patch, vars, books, sites, work, slot
  <2>2. Booked(J)'
    BY <2>1 DEF Booked, Placers
  <2>3. Steady' /\ \A w \in Worker : KnowsAgents(w)' /\ ReportsTruly(w)'
    BY <1>1, <2>1 DEF Steady, KnowsAgents, ReportsTruly
  <2> QED
    BY <1>1, <2>2, <2>3
<1>6. ASSUME NEW a \in Agent, CheckDeadAgent(a) \/ Restart(a) \/ Cut(a) \/ Heal(a) PROVE FALSE
  BY <1>6 DEF Steady, Typed, Around, NoFaults, Never, CheckDeadAgent, Restart, Cut, Heal, Happens
<1> QED
  BY <1>3, <1>4, <1>5, <1>6 DEF Next

FaultFree == \A e \in {"delete", "handback", "restart", "cut", "lost", "leave"} : Bound[e] = 0

LEMMA BooksBegin ==
  ASSUME FaultFree, Init, NEW J \in SUBSET Job
  PROVE  BooksInv(J)
<1>1. Typed
  BY TypesBegin
<1>2. Steady
  BY Constants DEF FaultFree, Init, Steady, Counts, NoFaults, Never, Deleting
<1>3. \A w \in Worker : KnowsAgents(w) /\ ReportsTruly(w)
  BY DEF Init, KnowsAgents, ReportsTruly, Targeting
<1>4. ASSUME NEW a \in agents, NEW j \in J
      PROVE  /\ IsFiniteSet(Placers(a, j))
             /\ real[a][j] = placed[a][j] + Cardinality(Placers(a, j))
  <2>1. Placers(a, j) = {}
    BY DEF Init, Placers, Tracking
  <2>2. a = Home /\ placed[a] = real[a] /\ real[a][j] \in Nat
    BY <1>1, Constants DEF Init, Typed, Around
  <2> QED
    BY <2>1, <2>2, FS_EmptySet
<1> QED
  BY <1>1, <1>2, <1>3, <1>4 DEF BooksInv, Booked

\* The books match reality, however many agents register and jobs are submitted, as
\* long as nothing fails or is deleted (FaultFree) and in every behaviour in which no
\* instance is stopped to make room or as surplus.
THEOREM BooksKeepPace ==
  ASSUME FaultFree
  PROVE  Spec /\ []Spared(Job) => []BooksMatch
<1>1. Init => BooksInv(Job)
  BY BooksBegin
<1>2. BooksInv(Job) /\ Spared(Job) /\ [Next]_vars => BooksInv(Job)'
  BY BooksKept
<1>3. BooksInv(Job) => BooksMatch
  BY DEF BooksInv, Booked, BooksMatch, Placers, Tracking
<1> QED
  BY <1>1, <1>2, <1>3, PTL DEF Spec
-----------------------------------------------------------------------------
(* A daemon runs at most once on an agent.                                 *)

Daemons == {j \in Job : Daemon(j)}

\* Daemons and regular jobs are dispatched on different paths, and only regular ones
\* are a surplus.
Fits(w) ==
  /\ pc[w] \in {"claim", "missing", "daemon", "sendDaemon", "trackDaemon"} => Daemon(job[w])
  /\ pc[w] \in Placing \cup {"count"} => ~ Daemon(job[w])
  /\ pc[w] \in Trimming => \A j \in todo[w] : ~ Daemon(j)

\* Whoever dispatches a daemon only has agents ahead that the books say lack it.
Lacks(w) ==
  pc[w] \in {"daemon", "sendDaemon", "trackDaemon"} =>
    /\ \A a \in cand[w] : placed[a][job[w]] = 0
    /\ pc[w] # "daemon" => at[w] \notin cand[w] /\ placed[at[w]][job[w]] = 0

DaemonInv ==
  /\ BooksInv(Daemons) /\ DaemonOnce
  /\ HoldersFlagged /\ OneDispatcher
  /\ \A w \in Worker : Fits(w) /\ Lacks(w)

LEMMA DispatcherDaemons ==
  ASSUME Typed, Steady, NEW w \in Worker, Fits(w), Lacks(w), KnowsAgents(w), Dispatcher(w)
  PROVE  Fits(w)' /\ Lacks(w)'
<1> USE DEF Typed, Local1, Local2, Around, Set, Targeting, Jobless, KnowsAgents, Steady, Deleting,
            Fits, Lacks, Placing, Trimming, Go, Return, ClearSlot, books, sites, slot, work
<1>1. CASE SnapJobs(w)
  BY <1>1 DEF SnapJobs
<1>2. CASE SnapAgents(w)
  BY <1>2 DEF SnapAgents
<1>3. CASE ResetRound(w)
  BY <1>3 DEF ResetRound
<1>4. CASE NextJob(w)
  BY <1>4 DEF NextJob
<1>5. CASE CheckDispatching(w)
  BY <1>5 DEF CheckDispatching
<1>6. CASE ClaimDaemon(w)
  BY <1>6 DEF ClaimDaemon
<1>7. CASE ListMissing(w)
  BY <1>7 DEF ListMissing
<1>8. CASE NextMissing(w)
  <2>1. CASE cand[w] = {}
    BY <1>8, <2>1 DEF NextMissing
  <2>2. CASE cand[w] # {}
    <3>1. PICK a \in cand[w] : NextMissingAt(w, a)
      BY <1>8, <2>2, NextMissingChoice
    <3> QED
      BY <3>1, <1>8 DEF NextMissingAt, NextMissing
  <2> QED
    BY <2>1, <2>2
<1>9. CASE CountPlaced(w)
  BY <1>9 DEF CountPlaced
<1>10. CASE Lock(w)
  BY <1>10 DEF Lock
<1>11. CASE Begin(w)
  BY <1>11 DEF Begin
<1>12. CASE Pick(w)
  BY <1>12 DEF Pick
<1>13. CASE PickNoMore(w)
  BY <1>13 DEF PickNoMore
<1>14. CASE Offer(w)
  BY <1>14 DEF Offer
<1>15. CASE Send(w)
  BY <1>15 DEF Send, SendRun
<1>16. CASE Track(w)
  BY <1>16 DEF Track
<1>17. CASE Unlock(w)
  BY <1>17 DEF Unlock
<1>18. CASE FindVictim(w)
  <2>1. CASE cand[w] = {}
    BY <1>18, <2>1 DEF FindVictim
  <2>2. CASE cand[w] # {}
    <3>1. PICK a \in cand[w] : FindVictimAt(w, a)
      BY <1>18, <2>2, FindVictimChoice
    <3>2. pc[w] = "victim"
      BY <1>18 DEF FindVictim
    <3> QED
      BY <3>1, <3>2 DEF FindVictimAt
  <2> QED
    BY <2>1, <2>2
<1>19. CASE StopVictim(w)
  BY <1>19 DEF StopVictim
<1>20. CASE Unbook(w)
  BY <1>20 DEF Unbook
<1> QED
  BY <1>1, <1>2, <1>3, <1>4, <1>5, <1>6, <1>7, <1>8, <1>9, <1>10, <1>11, <1>12, <1>13, <1>14,
    <1>15, <1>16, <1>17, <1>18, <1>19, <1>20 DEF Dispatcher

LEMMA RequesterDaemons ==
  ASSUME Typed, Steady, NEW w \in Worker, Fits(w), Lacks(w), KnowsAgents(w), Requester(w)
  PROVE  Fits(w)' /\ Lacks(w)'
<1> USE DEF Typed, Local1, Local2, Around, Set, Targeting, Jobless, KnowsAgents, Steady, Deleting,
            Fits, Lacks, Placing, Trimming, Go, Return, ClearSlot, books, sites, slot, work
<1>1. CASE Lift(w)
  BY <1>1 DEF Lift
<1>2. CASE Store(w)
  BY <1>2 DEF Store
<1>3. CASE SnapOne(w)
  BY <1>3 DEF SnapOne
<1>4. CASE Tombstone(w)
  BY <1>4 DEF Tombstone
<1>5. CASE Drop(w)
  BY <1>5 DEF Drop
<1>6. CASE Wipe(w)
  BY <1>6 DEF Wipe
<1>7. CASE Purge(w)
  BY <1>7 DEF Purge
<1>8. CASE Sweep(w)
  BY <1>8 DEF Sweep
<1>9. CASE Look(w)
  BY <1>9 DEF Look
<1>10. CASE Clear(w)
  BY <1>10 DEF Clear
<1>11. CASE Registered(w)
  BY <1>11 DEF Registered
<1>12. CASE Trim(w)
  BY <1>12 DEF Trim, Redundant
<1>13. CASE TrimDrop(w)
  BY <1>13 DEF TrimDrop
<1>14. CASE TrimAgent(w)
  BY <1>14 DEF TrimAgent
<1>15. CASE TrimStop(w)
  <2>1. CASE todo[w] = {}
    BY <1>15, <2>1 DEF TrimStop
  <2>2. CASE todo[w] # {}
    <3>1. PICK j \in todo[w] : TrimStopOf(w, j)
      BY <1>15, <2>2, TrimStopChoice
    <3> QED
      BY <3>1, <1>15 DEF TrimStopOf, TrimStop
  <2> QED
    BY <2>1, <2>2
<1>16. CASE MarkUnplaced(w)
  BY <1>16 DEF MarkUnplaced
<1> QED
  BY <1>1, <1>2, <1>3, <1>4, <1>5, <1>6, <1>7, <1>8, <1>9, <1>10, <1>11, <1>12, <1>13, <1>14,
    <1>15, <1>16 DEF Requester

LEMMA OtherDaemons ==
  ASSUME Typed, Steady, NEW w \in Worker, Fits(w), Lacks(w),
         Request(w) \/ StartReconcile(w) \/ \E a \in Agent : Register(w, a)
  PROVE  Fits(w)' /\ Lacks(w)'
<1>1. pc'[w] \in {"lift", "snapJobs", "register"} \cup Deleting \cup {"mark"}
  BY DEF Request, Submit, Delete, HandBack, Leave, StartReconcile, Register, Go, Typed, Local1,
    Deleting
<1> QED
  BY <1>1 DEF Fits, Lacks, Placing, Trimming, Deleting

\* Nobody else places the daemon that w dispatches.
LEMMA OthersDaemons ==
  ASSUME DaemonInv, NEW w \in Worker, Others(w),
         Elsewhere(w, Daemons) \/ Accepted(w) \/ Tracked(w) \/ Joined(w),
         NEW v \in Worker \ {w}
  PROVE  Fits(v)' /\ Lacks(v)'
<1>1. Fits(v)'
  BY DEF DaemonInv, Fits, Others
<1>2. ASSUME pc[v] \in {"daemon", "sendDaemon", "trackDaemon"},
             NEW a \in agents, placed[a][job[v]] = 0
      PROVE  placed'[a][job[v]] = 0
  <2>1. /\ job[v] \in Daemons /\ a \in Agent /\ placed \in [Agent -> [Job -> Nat]]
        /\ pc[w] \in Targeting => at[w] \in Agent
        /\ pc[w] \notin Jobless => job[w] \in Job
    BY <1>2 DEF DaemonInv, BooksInv, Typed, Around, Set, Fits, Daemons, Jobless
  <2>2. CASE Elsewhere(w, Daemons)
    BY <1>2, <2>1, <2>2 DEF Elsewhere
  <2>3. CASE Accepted(w)
    BY <1>2, <2>3 DEF Accepted
  <2>4. CASE Tracked(w)
    <3>1. job[w] # job[v]
      BY <1>2, <2>4 DEF DaemonInv, OneDispatcher, Holding, Tracked, Tracking
    <3> QED
      BY <1>2, <2>1, <2>4, <3>1 DEF Tracked, Tracking, Targeting, Jobless, Daemons
  <2>5. CASE Joined(w)
    <3>1. at[w] # a
      BY <1>2, <2>5 DEF DaemonInv, BooksInv, ReportsTruly, Joined
    <3> QED
      BY <1>2, <2>1, <2>5, <3>1 DEF Joined, Targeting
  <2> QED
    BY <2>2, <2>3, <2>4, <2>5
<1>3. /\ Lacks(v) /\ KnowsAgents(v)
      /\ pc'[v] = pc[v] /\ at'[v] = at[v] /\ job'[v] = job[v] /\ cand'[v] = cand[v]
  BY DEF DaemonInv, BooksInv, Others
<1>4. Lacks(v)'
  BY <1>2, <1>3 DEF Lacks, KnowsAgents, Targeting
<1> QED
  BY <1>1, <1>4

\* An accepted daemon is the first instance on its agent.
LEMMA OnceOfStep ==
  ASSUME DaemonInv, NEW w \in Worker, Others(w),
         Elsewhere(w, Daemons) \/ Accepted(w) \/ Tracked(w) \/ Joined(w)
  PROVE  DaemonOnce'
<1> SUFFICES ASSUME NEW a \in Agent, NEW j \in Daemons PROVE real'[a][j] <= 1
  BY DEF DaemonOnce, Daemons, Daemon
<1>1. real[a][j] <= 1 /\ real \in [Agent -> [Job -> Nat]] /\ j \in Job
  BY DEF DaemonInv, DaemonOnce, BooksInv, Typed, Around, Daemons
<1>2. CASE Elsewhere(w, Daemons)
  BY <1>1, <1>2 DEF Elsewhere
<1>3. CASE Tracked(w) \/ Joined(w)
  BY <1>1, <1>3 DEF Tracked, Joined
<1>4. CASE Accepted(w)
  <2>0. at[w] \in agents /\ at[w] \in Agent /\ job[w] \in Job
    BY <1>4 DEF DaemonInv, BooksInv, Typed, Around, Set, Accepted, Sending, Jobless,
      KnowsAgents, Targeting
  <2>1. CASE a = at[w] /\ j = job[w]
    <3>1. pc[w] = "sendDaemon"
      BY <1>4, <2>1 DEF DaemonInv, Fits, Placing, Accepted, Sending, Daemons
    <3>2. placed[a][j] = 0
      BY <2>1, <3>1 DEF DaemonInv, Lacks
    <3>3. Placers(a, j) = {}
      BY <2>1, <3>1 DEF DaemonInv, OneDispatcher, Placers, Holding, Tracking
    <3>4. real[a][j] = placed[a][j] + Cardinality(Placers(a, j))
      BY <2>0, <2>1 DEF DaemonInv, BooksInv, Booked
    <3>5. real[a][j] = 0
      BY <3>2, <3>3, <3>4, FS_EmptySet
    <3>6. real'[a][j] = real[a][j] + 1
      BY <1>1, <1>4, <2>1 DEF Accepted
    <3> QED
      BY <3>5, <3>6
  <2>2. CASE ~ (a = at[w] /\ j = job[w])
    <3>1. real'[a][j] = real[a][j]
      BY <1>1, <1>4, <2>0, <2>2 DEF Accepted
    <3> QED
      BY <1>1, <3>1
  <2> QED
    BY <2>1, <2>2
<1> QED
  BY <1>2, <1>3, <1>4

\* No goroutine stops a daemon to make room.
DaemonsSpared == \A w \in Worker : pc[w] \in {"stop", "unbook"} => ~ Daemon(victim[w])

LEMMA DaemonsKept ==
  ASSUME DaemonInv, DaemonsSpared, [Next]_vars
  PROVE  DaemonInv'
<1>1. Spared(Daemons)
  BY DEF DaemonInv, DaemonsSpared, Spared, Daemons, Fits
<1>2. BooksInv(Daemons)'
  BY <1>1, BooksKept DEF DaemonInv, Daemons
<1>3. (HoldersFlagged /\ OneDispatcher)'
  BY FlagKept DEF DaemonInv, BooksInv, Typed, Local1, Functions3, Steady, NobodyDeletes
<1>4. ASSUME NEW w \in Worker,
             \/ Dispatcher(w) \/ Requester(w)
             \/ Request(w) \/ StartReconcile(w) \/ \E a \in Agent : Register(w, a)
      PROVE  DaemonOnce' /\ \A v \in Worker : Fits(v)' /\ Lacks(v)'
  <2>0. Typed /\ Steady /\ KnowsAgents(w) /\ Fits(w) /\ Lacks(w) /\ Daemons \in SUBSET Job
    BY DEF DaemonInv, BooksInv, Daemons
  <2>1. /\ Others(w)
        /\ Elsewhere(w, Daemons) \/ Accepted(w) \/ Tracked(w) \/ Joined(w)
    <3>1. CASE Dispatcher(w)
      BY <3>1, <2>0, <1>1, DispatcherMoves, DispatcherEffects DEF Moves
    <3>2. CASE Requester(w)
      BY <3>2, <2>0, <1>1, RequesterMoves, RequesterEffects DEF Moves
    <3>3. CASE Request(w) \/ StartReconcile(w) \/ \E a \in Agent : Register(w, a)
      BY <3>3, <2>0, OtherEffects DEF Asks
    <3> QED
      BY <1>4, <3>1, <3>2, <3>3
  <2>2. Fits(w)' /\ Lacks(w)'
    BY <1>4, <2>0, DispatcherDaemons, RequesterDaemons, OtherDaemons
  <2> QED
    BY <2>1, <2>2, OthersDaemons, OnceOfStep
<1>5. ASSUME UNCHANGED vars \/ Settle \/ Tick \/ Patch
      PROVE  DaemonOnce' /\ \A w \in Worker : Fits(w)' /\ Lacks(w)'
  <2>1. UNCHANGED <<placed, real, pc, at, job, cand, todo>>
    BY <1>5 DEF Settle, Tick, Patch, vars, books, sites, work, slot
  <2>2. ASSUME NEW w \in Worker PROVE Fits(w)' /\ Lacks(w)'
    BY <2>1 DEF DaemonInv, Fits, Lacks
  <2>3. DaemonOnce'
    BY <2>1 DEF DaemonInv, DaemonOnce
  <2> QED
    BY <2>2, <2>3
<1>6. ASSUME NEW a \in Agent, CheckDeadAgent(a) \/ Restart(a) \/ Cut(a) \/ Heal(a) PROVE FALSE
  BY <1>6 DEF DaemonInv, BooksInv, Steady, Typed, Around, NoFaults, Never, CheckDeadAgent,
    Restart, Cut, Heal, Happens
<1>7. DaemonOnce' /\ \A w \in Worker : Fits(w)' /\ Lacks(w)'
  <2> DEFINE Good == DaemonOnce' /\ \A w \in Worker : Fits(w)' /\ Lacks(w)'
  <2>1. ASSUME NEW w \in Worker, Dispatcher(w) \/ Requester(w) \/ Request(w) \/ StartReconcile(w)
        PROVE  Good
    BY <1>4, <2>1
  <2>2. ASSUME NEW w \in Worker, NEW a \in Agent, Register(w, a) PROVE Good
    BY <1>4, <2>2
  <2>3. ASSUME UNCHANGED vars \/ Settle \/ Tick \/ Patch PROVE Good
    BY <1>5, <2>3
  <2> HIDE DEF Good
  <2> QED
    BY <1>6, <2>1, <2>2, <2>3 DEF Next, Good
<1> QED
  BY <1>2, <1>3, <1>7 DEF DaemonInv

LEMMA DaemonsBegin ==
  ASSUME FaultFree, Init
  PROVE  DaemonInv
<1>1. BooksInv(Daemons)
  BY BooksBegin DEF Daemons
<1>2. DaemonOnce
  BY DEF Init, DaemonOnce
<1>3. HoldersFlagged /\ OneDispatcher /\ \A w \in Worker : Fits(w) /\ Lacks(w)
  BY DEF Init, HoldersFlagged, OneDispatcher, Holding, Fits, Lacks, Placing, Trimming
<1> QED
  BY <1>1, <1>2, <1>3 DEF DaemonInv

\* A daemon runs at most once on each agent, whoever submits and reconciles it at the
\* same time, as long as nothing fails or is deleted (FaultFree) and in every behaviour
\* in which no daemon is stopped to make room: the flag is taken before the books are
\* read (reconcileJob), and the books keep pace.
THEOREM DaemonsOnce ==
  ASSUME FaultFree
  PROVE  Spec /\ []DaemonsSpared => []DaemonOnce
<1>1. Init => DaemonInv
  BY DaemonsBegin
<1>2. DaemonInv /\ DaemonsSpared /\ [Next]_vars => DaemonInv'
  BY DaemonsKept
<1>3. DaemonInv => DaemonOnce
  BY DEF DaemonInv
<1> QED
  BY <1>1, <1>2, <1>3, PTL DEF Spec

\* Every daemon comes before every regular job.
DaemonsFirst == \A d, j \in Job : Daemon(d) /\ ~ Daemon(j) => d < j

LEMMA VictimsRegular ==
  ASSUME DaemonsFirst, Typed, DaemonsSpared, NEW w \in Worker, Fits(w), Dispatcher(w)
  PROVE  DaemonsSpared'
<1> USE DEF Typed, Local1, Local2, Set, Targeting, Jobless, Fits, Placing, DaemonsSpared,
            Go, Return, ClearSlot, books, sites, slot, work
<1>1. CASE SnapJobs(w)
  BY <1>1 DEF SnapJobs
<1>2. CASE SnapAgents(w)
  BY <1>2 DEF SnapAgents
<1>3. CASE ResetRound(w)
  BY <1>3 DEF ResetRound
<1>4. CASE NextJob(w)
  BY <1>4 DEF NextJob
<1>5. CASE CheckDispatching(w)
  BY <1>5 DEF CheckDispatching
<1>6. CASE ClaimDaemon(w)
  BY <1>6 DEF ClaimDaemon
<1>7. CASE ListMissing(w)
  BY <1>7 DEF ListMissing
<1>8. CASE NextMissing(w)
  BY <1>8 DEF NextMissing
<1>9. CASE CountPlaced(w)
  BY <1>9 DEF CountPlaced
<1>10. CASE Lock(w)
  BY <1>10 DEF Lock
<1>11. CASE Begin(w)
  BY <1>11 DEF Begin
<1>12. CASE Pick(w)
  BY <1>12 DEF Pick
<1>13. CASE PickNoMore(w)
  BY <1>13 DEF PickNoMore
<1>14. CASE Offer(w)
  BY <1>14 DEF Offer
<1>15. CASE Send(w)
  BY <1>15 DEF Send, SendRun
<1>16. CASE Track(w)
  BY <1>16 DEF Track
<1>17. CASE Unlock(w)
  BY <1>17 DEF Unlock
<1>18. CASE FindVictim(w)
  <2>1. CASE cand[w] = {}
    BY <1>18, <2>1 DEF FindVictim
  <2>2. CASE cand[w] # {}
    <3>1. PICK a \in cand[w] : FindVictimAt(w, a)
      BY <1>18, <2>2, FindVictimChoice
    <3>2. pc[w] = "victim"
      BY <1>18 DEF FindVictim
    <3>3. CASE Victims(w, a) = {}
      BY <3>1, <3>2, <3>3 DEF FindVictimAt
    <3>4. CASE Victims(w, a) # {}
      <4>1. Victims(w, a) \in SUBSET Job
        BY DEF Victims, Around
      <4>2. Victims(w, a) \in SUBSET Nat /\ IsFiniteSet(Victims(w, a))
        BY <4>1, JobsFinite
      <4>3. PICK v \in Victims(w, a) : v = Max(Victims(w, a))
        BY <3>4, <4>2, Extremes
      <4>4. StopNext(w, a, v)
        BY <3>1, <3>4, <4>3, VictimFound
      <4>5. v \in Job /\ job[w] \in Job /\ v > job[w] /\ ~ Daemon(job[w])
        BY <3>2, <4>1, <4>3 DEF Victims
      <4>6. v \in Nat /\ job[w] \in Nat
        BY <4>5, DispatchAssumption
      <4>7. ~ Daemon(v)
        BY <4>5, <4>6 DEF DaemonsFirst
      <4> QED
        BY <4>4, <4>7 DEF StopNext
    <3> QED
      BY <3>3, <3>4
  <2> QED
    BY <2>1, <2>2
<1>19. CASE StopVictim(w)
  BY <1>19 DEF StopVictim
<1>20. CASE Unbook(w)
  BY <1>20 DEF Unbook
<1> QED
  BY <1>1, <1>2, <1>3, <1>4, <1>5, <1>6, <1>7, <1>8, <1>9, <1>10, <1>11, <1>12, <1>13, <1>14,
    <1>15, <1>16, <1>17, <1>18, <1>19, <1>20 DEF Dispatcher

LEMMA SparedKept ==
  ASSUME DaemonsFirst, Typed, DaemonsSpared, \A w \in Worker : Fits(w), [Next]_vars
  PROVE  DaemonsSpared'
<1>1. ASSUME NEW w \in Worker, Dispatcher(w) PROVE DaemonsSpared'
  BY <1>1, VictimsRegular
<1>2. ASSUME NEW w \in Worker,
             \A v \in Worker : \/ pc'[v] = pc[v] /\ victim'[v] = victim[v]
                               \/ pc'[v] \notin {"stop", "unbook"}
      PROVE  DaemonsSpared'
  BY <1>2 DEF DaemonsSpared
<1>3. ASSUME NEW w \in Worker, Requester(w) PROVE DaemonsSpared'
  <2>1. \A v \in Worker : \/ pc'[v] = pc[v] /\ victim'[v] = victim[v]
                          \/ pc'[v] \notin {"stop", "unbook"}
    BY <1>3 DEF Typed, Local1, Local2, Requester, Lift, Store, SnapOne, Tombstone, Drop, Wipe,
      Purge,
      Sweep, Look, Clear, Registered, Trim, TrimDrop, TrimAgent, TrimStop, MarkUnplaced, Go, Return,
      ClearSlot, work, slot
  <2> QED
    BY <1>2, <2>1
<1>4. ASSUME NEW w \in Worker,
             Request(w) \/ StartReconcile(w) \/ \E a \in Agent : Register(w, a)
      PROVE  DaemonsSpared'
  <2>1. \A v \in Worker : \/ pc'[v] = pc[v] /\ victim'[v] = victim[v]
                          \/ pc'[v] \notin {"stop", "unbook"}
    BY <1>4 DEF Typed, Local1, Local2, Request, Submit, Delete, HandBack, Leave, StartReconcile,
      Register, Go, work, slot
  <2> QED
    BY <1>2, <2>1
<1>5. ASSUME UNCHANGED <<pc, victim>> PROVE DaemonsSpared'
  BY <1>5 DEF DaemonsSpared
<1>6. CASE UNCHANGED vars \/ Settle \/ Tick \/ Patch
  BY <1>5, <1>6 DEF vars, work, slot, Settle, Tick, Patch
<1>7. ASSUME NEW a \in Agent, CheckDeadAgent(a) \/ Restart(a) \/ Cut(a) \/ Heal(a)
      PROVE  DaemonsSpared'
  BY <1>5, <1>7 DEF CheckDeadAgent, Restart, Cut, Heal, work, slot
<1> HIDE DEF DaemonsSpared
<1> QED
  BY <1>1, <1>3, <1>4, <1>6, <1>7 DEF Next

\* Where every daemon comes before every regular job, nobody makes room by stopping
\* one (findVictim looks for less important jobs), and nothing needs to be assumed of
\* the behaviour but that it is free of faults and deletes.
THEOREM DaemonsOnceWhenFirst ==
  ASSUME FaultFree, DaemonsFirst
  PROVE  Spec => []DaemonOnce
<1> DEFINE Inv == DaemonInv /\ DaemonsSpared
<1>1. Init => Inv
  BY DaemonsBegin DEF Init, DaemonsSpared
<1>2. Inv /\ [Next]_vars => Inv'
  BY DaemonsKept, SparedKept DEF DaemonInv, BooksInv
<1>3. Inv => DaemonOnce
  BY DEF DaemonInv
<1> QED
  BY <1>1, <1>2, <1>3, PTL DEF Spec
=============================================================================
