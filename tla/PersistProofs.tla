---------------------------- MODULE PersistProofs ----------------------------
(***************************************************************************)
(* Proofs about Persist, for any nodes, jobs, kinds of store, number of    *)
(* changes and number of faults: its types, that no marked change of the   *)
(* leader's store is forgotten, that what a save confirmed stays where no  *)
(* older copy is written over it, and that what a reader finds is never    *)
(* half a snapshot.                                                        *)
(***************************************************************************)
EXTENDS Persist, WellFoundedInduction, TLAPS

-----------------------------------------------------------------------------
(* The inductive invariant.                                                *)

AtMost(a, b) == \A j \in Job : a[j] <= b[j]

\* Apart from the jobs of which an older copy was written.
Keeps(a, b) == \A j \in Job \ undone : a[j] <= b[j]

Saving == flush \in {"put", "written", "synced", "renamed"}

\* Where the flusher and the seeding can be, and of which kind of store.
Places ==
  /\ leader = NoNode <=> phase = "down"
  /\ seeding # {} => phase = "seed"
  /\ flush # "wait" => Serves
  /\ late # {} \/ old # NoNode => kind = "remote"
  /\ flush \in {"written", "synced", "renamed"} => kind = "file"

\* A power failure finds one of the snapshots that were written whole; once the
\* file is renamed it is the one being saved that is read.
FoundWhole ==
  /\ snap \in rest /\ \A r \in rest : r.is # "torn"
  /\ flush = "renamed" => snap = Snapshot(image)

\* The image that is being saved is of this leader's store, and either up to date
\* or to be followed by another.
ImageCurrent ==
  Saving => /\ Keeps(image, local[leader])
            /\ \/ unmarked > 0 \/ dirty
               \/ \A j \in Job \ passed : image[j] = local[leader][j]

\* No stamp is ahead of the newest.
NoneAhead ==
  /\ AtMost(confirmed, newest)
  /\ \A n \in Node : AtMost(local[n], newest)
  /\ \A r \in rest : AtMost(r.jobs, newest)
  /\ \A jobs \in late : AtMost(jobs, newest)
  /\ AtMost(image, newest)

\* What was confirmed is in everything that may become the snapshot.
ConfirmedEverywhere ==
  ~ excused => /\ \A r \in rest : Keeps(confirmed, r.jobs)
               /\ Serves => Keeps(confirmed, local[leader])
               /\ Saving => Keeps(confirmed, image)

SaveInv ==
  /\ Places /\ FoundWhole /\ ImageCurrent /\ UnsavedIsMarked
  /\ NoneAhead /\ ConfirmedEverywhere

-----------------------------------------------------------------------------
(* Stamps.                                                                 *)

LEMMA StampsGrow ==
  ASSUME NEW s \in Nat
  PROVE  /\ NextOdd(s) \in Nat /\ NextOdd(s) > s
         /\ NextEven(s) \in Nat /\ NextEven(s) > s
BY DEF NextOdd, NextEven

\* Natural numbers have a least one among them.
LessNat == {p \in Nat \X Nat : p[1] < p[2]}

\* What a power failure leaves of a job at least.
LEMMA DurableIsLeast ==
  ASSUME TypeOK
  PROVE  Durable \in Jobs /\ \A r \in rest : AtMost(Durable, r.jobs)
<1> USE PersistAssumption DEF TypeOK, Snapshots, Jobs, Stamp
<1>1. ASSUME NEW j \in Job
      PROVE  Durable[j] \in Stamp /\ \A r \in rest : Durable[j] <= r.jobs[j]
  <2> DEFINE S == {r.jobs[j] : r \in rest}
  <2>1. S \in SUBSET Nat /\ S # {} /\ S \subseteq Stamp OBVIOUS
  <2>2. PICK s \in S : \A m \in S : s <= m
    <3> HIDE DEF S
    <3>0. IsWellFoundedOn(LessNat, Nat) BY NatLessThanWellFounded DEF OpToRel, LessNat
    <3>1. PICK s \in S : \A m \in S : ~ (<<m, s>> \in LessNat)
      BY <2>1, <3>0, WFMin
    <3>2. ASSUME NEW m \in S PROVE s <= m
      <4>1. m \in Nat /\ s \in Nat BY <2>1
      <4>2. <<m, s>> \in LessNat <=> m < s BY <4>1 DEF LessNat
      <4> QED BY <3>1, <4>1, <4>2
    <3> QED BY <3>2
  <2>3. \A r \in rest : s <= r.jobs[j] BY <2>2
  <2>4. Durable[j] = CHOOSE c \in S : \A r \in rest : c <= r.jobs[j] BY DEF Durable
  <2>5. Durable[j] \in S /\ \A r \in rest : Durable[j] <= r.jobs[j]
    <3> HIDE DEF S
    <3> QED BY <2>2, <2>3, <2>4
  <2> QED BY <2>1, <2>5
<1>2. Durable = [j \in Job |-> CHOOSE s \in {r.jobs[j] : r \in rest} : \A r \in rest : s <= r.jobs[j]] BY DEF Durable
<1>3. Durable \in Jobs BY <1>1, <1>2
<1> QED BY <1>1, <1>3 DEF AtMost

LEMMA AtMostTrans ==
  ASSUME NEW a \in Jobs, NEW b \in Jobs, NEW c \in Jobs, AtMost(a, b), AtMost(b, c)
  PROVE  AtMost(a, c)
BY PersistAssumption DEF AtMost, Jobs, Stamp

LEMMA AtMostSelf ==
  ASSUME NEW a \in Jobs
  PROVE  AtMost(a, a) /\ AtMost(Nothing, a)
BY PersistAssumption DEF AtMost, Jobs, Stamp, Nothing
-----------------------------------------------------------------------------
(* Types.                                                                  *)

LEMMA WriteType ==
  ASSUME TypeOK, NEW n \in Node, NEW j \in Job, NEW s \in Stamp, Write(n, j, s)
  PROVE  local' \in [Node -> Jobs]
BY DEF TypeOK, Write, Jobs

LEMMA StoreJobType ==
  ASSUME TypeOK, NEW n \in Node, NEW j \in Job, StoreJob(n, j)
  PROVE  newest' \in Jobs /\ local' \in [Node -> Jobs] /\ unmarked' \in Nat
<1>1. NextOdd(newest[j]) \in Stamp
  BY PersistAssumption, StampsGrow DEF TypeOK, StoreJob, Jobs, Stamp
<1>2. newest' \in Jobs BY <1>1 DEF TypeOK, StoreJob, Jobs
<1>3. local' \in [Node -> Jobs] BY <1>1, WriteType DEF StoreJob
<1> QED BY <1>2, <1>3 DEF TypeOK, StoreJob, Marked

LEMMA AuthorsAreNodes ==
  ASSUME TypeOK, SaveInv, Serves
  PROVE  leader \in Node
BY DEF TypeOK, SaveInv, Places, Serves

LEMMA TermType ==
  ASSUME TypeOK, SaveInv, (\E n \in Node : Elect(n)) \/ StepDown \/ Crash
         \/ LoadSnapshot \/ LoadNothing \/ LoadFails \/ Displace \/ OldSave \/ OldEnds
  PROVE  TypeOK'
<1> USE PersistAssumption DEF Fault, TypeOK
<1>0. Nothing \in Jobs BY DEF Nothing, Jobs, Stamp
<1>1. CASE StepDown
  <2>1. late' \subseteq Jobs /\ faults' \in 0 .. MaxFaults BY <1>1 DEF StepDown, Over
  <2> QED BY <1>0, <1>1, <2>1 DEF StepDown, Over, histVars
<1>2. CASE Crash
  <2>1. late' \subseteq Jobs /\ faults' \in 0 .. MaxFaults BY <1>2 DEF Crash, Over
  <2>2. local' \in [Node -> Jobs] BY <1>0, <1>2 DEF Crash
  <2>3. snap' \in Snapshots /\ rest' \subseteq Snapshots /\ rest' # {} BY <1>2 DEF Crash
  <2> QED BY <1>0, <1>2, <2>1, <2>2, <2>3 DEF Crash, Over, histVars
<1>3. CASE LoadSnapshot
  <2>1. Durable \in Jobs BY DurableIsLeast
  <2> QED BY <1>3, <2>1 DEF LoadSnapshot, storeVars, Snapshots
<1>4. CASE LoadNothing BY <1>0, <1>4 DEF LoadNothing, flushVars, storeVars
<1>5. CASE LoadFails BY <1>5 DEF LoadFails, flushVars, storeVars
<1>6. CASE \E n \in Node : Elect(n)
  BY <1>6 DEF Elect, storeVars, histVars
<1>7. CASE Displace
  <2>1. late' \subseteq Jobs /\ faults' \in 0 .. MaxFaults BY <1>7 DEF Displace, Over
  <2>2. old' \in Node BY <1>7 DEF Displace
  <2> QED BY <1>0, <1>7, <2>1, <2>2 DEF Displace, Over, histVars
<1>8. CASE OldSave
  <2>1. Snapshot(local[old]) \in Snapshots BY <1>8 DEF OldSave, Snapshot, Snapshots
  <2> QED BY <1>8, <2>1 DEF OldSave, leaderVars, flushVars
<1>9. CASE OldEnds
  <2>1. late' \subseteq Jobs BY <1>9 DEF OldEnds
  <2> QED BY <1>9, <2>1 DEF OldEnds, flushVars, histVars
<1> QED BY <1>1, <1>2, <1>3, <1>4, <1>5, <1>6, <1>7, <1>8, <1>9

LEMMA WriteBackType ==
  ASSUME TypeOK, NEW n \in Node, NEW j \in Job, NEW s \in 1 .. newest[j], WriteBack(n, j, s)
  PROVE  TypeOK'
<1>1. s \in Stamp BY PersistAssumption DEF TypeOK, Jobs, Stamp
<1>2. local' \in [Node -> Jobs] BY <1>1, WriteType DEF WriteBack
<1>3. faults' \in 0 .. MaxFaults BY PersistAssumption DEF WriteBack, Fault, TypeOK
<1>4. undone' \subseteq Job /\ unmarked' \in Nat BY DEF WriteBack, Undoes, Marked, TypeOK
<1> QED BY <1>2, <1>3, <1>4 DEF WriteBack, unmutated, flushVars, storeVars, TypeOK

LEMMA ArriveType ==
  ASSUME TypeOK, NEW n \in Node, NEW j \in Job, NEW s \in 1 .. newest[j], Arrive(n, j, s)
  PROVE  TypeOK'
<1>1. s \in Stamp BY PersistAssumption DEF TypeOK, Jobs, Stamp
<1>2. local' \in [Node -> Jobs] BY <1>1, WriteType DEF Arrive
<1>3. faults' \in 0 .. MaxFaults BY PersistAssumption DEF Arrive, Fault, TypeOK
<1>4. undone' \subseteq Job /\ passed' \subseteq Job BY DEF Arrive, Undoes, TypeOK
<1> QED BY <1>2, <1>3, <1>4 DEF Arrive, unmutated, flushVars, storeVars, TypeOK

LEMMA MutationType ==
  ASSUME TypeOK, SaveInv,
         \/ \E n \in Node, j \in Job : Submit(n, j) \/ DeleteJob(n, j)
         \/ \E n \in Node, j \in Job : \E s \in 1 .. newest[j] :
               Renumber(n, j, s) \/ EndUpdate(n, j, s) \/ Arrive(n, j, s)
         \/ \E j \in Job : SeedCheck(j) \/ SeedStore(j)
         \/ Mark \/ Seeded
  PROVE  TypeOK'
<1> USE PersistAssumption DEF unmutated, flushVars, storeVars, histVars
<1>1. ASSUME NEW n \in Node, NEW j \in Job, Submit(n, j) PROVE TypeOK'
  BY <1>1, StoreJobType DEF TypeOK, Submit
<1>2. ASSUME NEW n \in Node, NEW j \in Job, DeleteJob(n, j) PROVE TypeOK'
  <2>1. NextEven(newest[j]) \in Stamp BY <1>2, StampsGrow DEF DeleteJob, TypeOK, Jobs, Stamp
  <2>2. newest' \in Jobs BY <1>2, <2>1 DEF TypeOK, DeleteJob, Jobs
  <2>3. local' \in [Node -> Jobs] BY <1>2, <2>1, WriteType DEF DeleteJob
  <2>4. unmarked' \in Nat BY <1>2 DEF TypeOK, DeleteJob, Marked
  <2> QED BY <1>2, <2>2, <2>3, <2>4 DEF TypeOK, DeleteJob
<1>3. ASSUME NEW j \in Job, SeedCheck(j) PROVE TypeOK'
  BY <1>3 DEF TypeOK, SeedCheck
<1>4. ASSUME NEW j \in Job, SeedStore(j) PROVE TypeOK'
  <2>1. leader \in Node BY <1>4, AuthorsAreNodes DEF SeedStore, SaveInv, Places, Serves
  <2>2. newest' \in Jobs /\ local' \in [Node -> Jobs] /\ unmarked' \in Nat
    BY <1>4, <2>1, StoreJobType DEF SeedStore, TypeOK
  <2> QED BY <1>4, <2>2 DEF TypeOK, SeedStore
<1>5. CASE Mark BY <1>5 DEF TypeOK, Mark, leaderVars
<1>6. CASE Seeded BY <1>6 DEF TypeOK, Seeded
<1> QED BY <1>1, <1>2, <1>3, <1>4, <1>5, <1>6, WriteBackType, ArriveType DEF Renumber, EndUpdate

LEMMA SavedType ==
  ASSUME TypeOK, Saved \/ SaveFailed
  PROVE  /\ flush' = "wait" /\ image' \in Jobs /\ confirmed' \in Jobs /\ dirty' \in BOOLEAN
<1> USE PersistAssumption DEF TypeOK, Jobs, Stamp
<1>1. Nothing \in Jobs BY DEF Nothing
<1>2. CASE Saved
  <2>1. ASSUME NEW j \in Job
        PROVE  (IF image[j] > confirmed[j] THEN image[j] ELSE confirmed[j]) \in Stamp
    OBVIOUS
  <2> QED BY <1>1, <1>2, <2>1 DEF Saved
<1>3. CASE SaveFailed BY <1>1, <1>3 DEF SaveFailed
<1> QED BY <1>2, <1>3

LEMMA SaveType ==
  ASSUME TypeOK, SaveInv, Flusher \/ \E jobs \in late : Land(jobs)
  PROVE  TypeOK'
<1> USE PersistAssumption, SavedType DEF unsaved, leaderVars, storeVars, histVars, Fault
<1>1. CASE Wake BY <1>1 DEF TypeOK, Wake
<1>2. CASE Marshal
  <2>1. image' \in Jobs BY <1>2 DEF TypeOK, Marshal, SaveInv, Places, Serves
  <2> QED BY <1>2, <2>1 DEF TypeOK, Marshal
<1>3. CASE Put
  <2>1. Snapshot(image) \in Snapshots BY DEF TypeOK, Snapshot, Snapshots
  <2>2. snap' \in Snapshots /\ rest' \subseteq Snapshots /\ rest' # {} /\ late' \subseteq Jobs
    BY <1>3, <2>1 DEF TypeOK, Put
  <2>3. Saved \/ SaveFailed BY <1>3 DEF Put
  <2>4. faults' \in 0 .. MaxFaults BY <1>3 DEF TypeOK, Put
  <2>5. UNCHANGED <<unsaved, excused, passed, undone>> BY <1>3 DEF Put
  <2> QED BY <2>2, <2>3, <2>4, <2>5 DEF TypeOK
<1>4. ASSUME NEW a, NEW b \in {"written", "synced", "renamed"}, FileStep(a, b),
             snap' \in Snapshots, rest' \subseteq Snapshots, rest' # {}
      PROVE  TypeOK'
  <2>1. CASE flush' = b /\ UNCHANGED <<dirty, image, confirmed, faults>>
    BY <1>4, <2>1 DEF TypeOK, FileStep
  <2>2. CASE SaveFailed /\ Fault
    BY <1>4, <2>2 DEF TypeOK, FileStep
  <2> QED BY <1>4, <2>1, <2>2 DEF FileStep
<1>5. CASE WriteTmp BY <1>4, <1>5 DEF WriteTmp, TypeOK
<1>6. CASE SyncTmp BY <1>4, <1>6 DEF SyncTmp, TypeOK
<1>7. CASE Rename
  <2>1. Snapshot(image) \in Snapshots BY DEF TypeOK, Snapshot, Snapshots
  <2>2. snap' \in Snapshots /\ rest' \subseteq Snapshots /\ rest' # {}
    BY <1>7, <2>1 DEF Rename, TypeOK
  <2> QED BY <1>4, <1>7, <2>2 DEF Rename
<1>8. CASE SyncDir
  <2>1. Nothing \in Jobs BY DEF Nothing, Jobs, Stamp
  <2>2. confirmed' \in Jobs /\ image' \in Jobs /\ flush' = "wait" /\ dirty' \in BOOLEAN
    BY <1>8, <2>1 DEF SyncDir, TypeOK
  <2>3. rest' \subseteq Snapshots /\ rest' # {} BY <1>8 DEF SyncDir, TypeOK
  <2>4. faults' \in 0 .. MaxFaults BY <1>8 DEF SyncDir, TypeOK
  <2> QED BY <1>8, <2>2, <2>3, <2>4 DEF SyncDir, TypeOK
<1>9. ASSUME NEW jobs \in late, Land(jobs) PROVE TypeOK'
  <2>1. Snapshot(jobs) \in Snapshots BY DEF TypeOK, Snapshot, Snapshots
  <2> QED BY <1>9, <2>1 DEF Land, TypeOK, flushVars
<1> QED BY <1>1, <1>2, <1>3, <1>5, <1>6, <1>7, <1>8, <1>9 DEF Flusher

LEMMA TypeStep ==
  ASSUME TypeOK, SaveInv, [Next]_vars
  PROVE  TypeOK'
<1>1. CASE UNCHANGED vars
  BY <1>1 DEF TypeOK, vars, leaderVars, flushVars, storeVars, histVars
<1> QED BY <1>1, TermType, MutationType, SaveType DEF Next

-----------------------------------------------------------------------------
(* Every step keeps the invariant: leaders come and go.                    *)

LEMMA PlacesKept ==
  ASSUME TypeOK, SaveInv, Next
  PROVE  Places'
<1> USE PersistAssumption DEF TypeOK, SaveInv, Places, Serves
<1>1. CASE \E n \in Node : Elect(n) BY <1>1 DEF Elect, storeVars
<1>2. CASE LoadSnapshot \/ LoadNothing \/ LoadFails
  BY <1>2 DEF LoadSnapshot, LoadNothing, LoadFails, flushVars, storeVars
<1>3. CASE StepDown \/ Crash \/ Displace \/ OldSave \/ OldEnds
  BY <1>3 DEF StepDown, Crash, Displace, OldSave, OldEnds, Over, leaderVars, flushVars, storeVars
<1>4. ASSUME NEW j \in Job, \/ SeedCheck(j) \/ SeedStore(j)
                              \/ \E n \in Node : Submit(n, j) \/ DeleteJob(n, j)
      PROVE Places'
  BY <1>4 DEF Submit, DeleteJob, SeedCheck, SeedStore, unmutated, flushVars, storeVars
<1>5. CASE Mark \/ Seeded
  BY <1>5 DEF Mark, Seeded, unmutated, flushVars, storeVars
<1>6. ASSUME NEW n \in Node, NEW j \in Job, NEW s \in 1 .. newest[j],
             Renumber(n, j, s) \/ EndUpdate(n, j, s) \/ Arrive(n, j, s)
      PROVE Places'
  BY <1>6 DEF Renumber, EndUpdate, WriteBack, Arrive, unmutated, flushVars, storeVars
<1>7. CASE Wake \/ Marshal BY <1>7 DEF Wake, Marshal, unsaved, leaderVars, storeVars
<1>8. CASE Put BY <1>8 DEF Put, unsaved, leaderVars, storeVars, Saved, SaveFailed
<1>9. CASE WriteTmp \/ SyncTmp \/ Rename \/ SyncDir
  BY <1>9 DEF WriteTmp, SyncTmp, Rename, SyncDir, FileStep, unsaved, leaderVars, Saved, SaveFailed
<1>10. ASSUME NEW jobs \in late, Land(jobs) PROVE Places'
  BY <1>10 DEF Land, unsaved, leaderVars, flushVars
<1> QED BY <1>1, <1>2, <1>3, <1>4, <1>5, <1>6, <1>7, <1>8, <1>9, <1>10 DEF Next, Flusher

LEMMA FoundWholeKept ==
  ASSUME TypeOK, SaveInv, Next
  PROVE  FoundWhole'
<1> USE DEF TypeOK, SaveInv, FoundWhole
<1>1. CASE \E n \in Node : Elect(n) BY <1>1 DEF Elect, storeVars
<1>2. CASE LoadSnapshot \/ LoadNothing \/ LoadFails
  BY <1>2 DEF LoadSnapshot, LoadNothing, LoadFails, flushVars, storeVars
<1>3. CASE StepDown \/ Crash \/ Displace BY <1>3 DEF StepDown, Crash, Displace, Over
<1>12. CASE OldSave \/ OldEnds
  BY <1>12 DEF OldSave, OldEnds, Places, leaderVars, flushVars, Snapshot
<1>4. ASSUME NEW j \in Job, \/ SeedCheck(j) \/ SeedStore(j)
                              \/ \E n \in Node : Submit(n, j) \/ DeleteJob(n, j)
      PROVE FoundWhole'
  BY <1>4 DEF Submit, DeleteJob, SeedCheck, SeedStore, unmutated, flushVars, storeVars
<1>5. CASE Mark \/ Seeded
  BY <1>5 DEF Mark, Seeded, unmutated, flushVars, storeVars
<1>6. ASSUME NEW n \in Node, NEW j \in Job, NEW s \in 1 .. newest[j],
             Renumber(n, j, s) \/ EndUpdate(n, j, s) \/ Arrive(n, j, s)
      PROVE FoundWhole'
  BY <1>6 DEF Renumber, EndUpdate, WriteBack, Arrive, unmutated, flushVars, storeVars
<1>7. CASE Wake \/ Marshal BY <1>7 DEF Wake, Marshal, unsaved, leaderVars, storeVars
<1>8. CASE Put
  BY <1>8 DEF Put, unsaved, leaderVars, storeVars, Saved, SaveFailed, Snapshot
<1>9. CASE WriteTmp \/ SyncTmp \/ SyncDir
  BY <1>9 DEF WriteTmp, SyncTmp, SyncDir, FileStep, Saved, SaveFailed
<1>10. CASE Rename
  BY <1>10 DEF Rename, FileStep, SaveFailed, Snapshot
<1>11. ASSUME NEW jobs \in late, Land(jobs) PROVE FoundWhole'
  BY <1>11 DEF Land, Places, unsaved, leaderVars, flushVars, Snapshot
<1> QED BY <1>1, <1>2, <1>3, <1>4, <1>5, <1>6, <1>7, <1>8, <1>9, <1>10, <1>11, <1>12
        DEF Next, Flusher

-----------------------------------------------------------------------------
(* What a mutation does to the leader's store.                             *)

Mutates ==
  /\ UNCHANGED <<leader, phase, flushVars, storeVars, confirmed, excused>>
  /\ AtMost(newest, newest')
  /\ \A n \in Node : AtMost(local'[n], newest')
  /\ unmarked' >= unmarked
  /\ passed \subseteq passed' /\ undone \subseteq undone'
  /\ leader \in Node => \A j \in Job :
       /\ local'[leader][j] # local[leader][j] => unmarked' > 0 \/ j \in passed'
       /\ local[leader][j] <= local'[leader][j] \/ j \in undone'

\* One definition is written, and if it is the leader's, with a mark or by its agent.
LEMMA WriteMutates ==
  ASSUME TypeOK, SaveInv, UNCHANGED unmutated,
         NEW n \in Node, NEW j \in Job, NEW s \in Nat, Write(n, j, s),
         AtMost(newest, newest'), newest' \in [Job -> Nat], s <= newest'[j],
         unmarked' >= unmarked, passed \subseteq passed', undone \subseteq undone',
         n = leader => unmarked' > 0 \/ j \in passed',
         n = leader => local[n][j] <= s \/ j \in undone'
  PROVE  Mutates
<1> USE PersistAssumption DEF TypeOK, Jobs, Stamp
<1>1. local' = [local EXCEPT ![n] = [local[n] EXCEPT ![j] = s]] BY DEF Write
<1>2. \A m \in Node : AtMost(local[m], newest) BY DEF SaveInv, NoneAhead
<1>3. ASSUME NEW m \in Node PROVE AtMost(local'[m], newest')
  <2>1. ASSUME NEW i \in Job PROVE local'[m][i] <= newest'[i]
    <3>1. local[m][i] <= newest[i] /\ newest[i] <= newest'[i] BY <1>2 DEF AtMost
    <3>2. local'[m][i] = local[m][i] \/ (m = n /\ i = j /\ local'[m][i] = s) BY <1>1
    <3>3. local[m][i] \in Nat /\ newest[i] \in Nat /\ newest'[i] \in Nat OBVIOUS
    <3> QED BY <3>1, <3>2, <3>3
  <2> QED BY <2>1 DEF AtMost
<1>4. ASSUME leader \in Node, NEW i \in Job
      PROVE  /\ local'[leader][i] # local[leader][i] => unmarked' > 0 \/ i \in passed'
             /\ local[leader][i] <= local'[leader][i] \/ i \in undone'
  <2>1. CASE n = leader /\ i = j
    <3>1. local'[leader][i] = s BY <1>1, <2>1
    <3> QED BY <2>1, <3>1
  <2>2. CASE ~ (n = leader /\ i = j)
    <3>1. local'[leader][i] = local[leader][i] BY <1>1, <1>4, <2>2
    <3>2. local[leader][i] \in Nat BY <1>4
    <3> QED BY <3>1, <3>2
  <2> QED BY <2>1, <2>2
<1> QED BY <1>3, <1>4 DEF Mutates, unmutated

LEMMA StoreMutates ==
  ASSUME TypeOK, SaveInv, NEW n \in Node, NEW j \in Job, StoreJob(n, j),
         UNCHANGED <<unmutated, passed, undone>>
  PROVE  Mutates
<1> USE PersistAssumption DEF TypeOK, Jobs, Stamp
<1>1. NextOdd(newest[j]) \in Nat /\ NextOdd(newest[j]) > newest[j] BY StampsGrow
<1>2. newest' = [newest EXCEPT ![j] = NextOdd(newest[j])] BY DEF StoreJob
<1>3. AtMost(newest, newest') /\ newest' \in [Job -> Nat] /\ newest'[j] = NextOdd(newest[j])
  BY <1>1, <1>2 DEF AtMost
<1>4. local[n][j] <= NextOdd(newest[j]) BY <1>1 DEF SaveInv, NoneAhead, AtMost
<1>5. unmarked' >= unmarked /\ (n = leader => unmarked' > 0) BY DEF StoreJob, Marked
<1>6. Write(n, j, NextOdd(newest[j])) BY DEF StoreJob
<1> QED BY <1>1, <1>3, <1>4, <1>5, <1>6, WriteMutates

LEMMA DeleteMutates ==
  ASSUME TypeOK, SaveInv, NEW n \in Node, NEW j \in Job, DeleteJob(n, j)
  PROVE  Mutates
<1> USE PersistAssumption DEF TypeOK, Jobs, Stamp
<1>1. NextEven(newest[j]) \in Nat /\ NextEven(newest[j]) > newest[j] BY StampsGrow
<1>2. newest' = [newest EXCEPT ![j] = NextEven(newest[j])] BY DEF DeleteJob
<1>3. AtMost(newest, newest') /\ newest' \in [Job -> Nat] /\ newest'[j] = NextEven(newest[j])
  BY <1>1, <1>2 DEF AtMost
<1>4. local[n][j] <= NextEven(newest[j]) BY <1>1 DEF SaveInv, NoneAhead, AtMost
<1>5. unmarked' >= unmarked /\ (n = leader => unmarked' > 0) BY DEF DeleteJob, Marked
<1>6. Write(n, j, NextEven(newest[j])) /\ UNCHANGED <<unmutated, passed, undone>>
  BY DEF DeleteJob
<1> QED BY <1>1, <1>3, <1>4, <1>5, <1>6, WriteMutates

LEMMA CopyMutates ==
  ASSUME TypeOK, SaveInv, NEW n \in Node, NEW j \in Job, NEW s \in 1 .. newest[j],
         WriteBack(n, j, s) \/ Arrive(n, j, s)
  PROVE  Mutates
<1> USE PersistAssumption DEF TypeOK, Jobs, Stamp
<1>1. Write(n, j, s) /\ Undoes(n, j, s) /\ newest' = newest /\ UNCHANGED unmutated
  BY DEF WriteBack, Arrive
<1>2. s \in Nat /\ s <= newest[j] /\ local[n][j] \in Nat OBVIOUS
<1>3. AtMost(newest, newest') /\ newest' \in [Job -> Nat] BY <1>1 DEF AtMost
<1>4. undone \subseteq undone' /\ (n = leader => local[n][j] <= s \/ j \in undone')
  BY <1>1, <1>2 DEF Undoes
<1>5. /\ unmarked' >= unmarked /\ passed \subseteq passed'
      /\ n = leader => unmarked' > 0 \/ j \in passed'
  BY DEF WriteBack, Arrive, Marked
<1> QED BY <1>1, <1>2, <1>3, <1>4, <1>5, WriteMutates

LEMMA NextMutates ==
  ASSUME TypeOK, SaveInv,
         \/ \E n \in Node, j \in Job : Submit(n, j) \/ DeleteJob(n, j)
         \/ \E n \in Node, j \in Job : \E s \in 1 .. newest[j] :
               Renumber(n, j, s) \/ EndUpdate(n, j, s) \/ Arrive(n, j, s)
         \/ \E j \in Job : SeedStore(j)
  PROVE  Mutates
<1>1. ASSUME NEW n \in Node, NEW j \in Job, Submit(n, j) PROVE Mutates
  BY <1>1, StoreMutates DEF Submit
<1>2. ASSUME NEW j \in Job, SeedStore(j) PROVE Mutates
  <2>1. leader \in Node BY <1>2, AuthorsAreNodes DEF SeedStore, SaveInv, Places, Serves
  <2>2. CASE StoreJob(leader, j) BY <1>2, <2>1, <2>2, StoreMutates DEF SeedStore
  <2>3. CASE UNCHANGED <<local, newest, unmarked>>
    <3>1. AtMost(newest, newest') /\ \A n \in Node : AtMost(local'[n], newest')
      BY <2>3, AtMostSelf DEF TypeOK, SaveInv, NoneAhead
    <3>2. \A i \in Job : local[leader][i] <= local'[leader][i]
      BY <2>1, <2>3, AtMostSelf DEF TypeOK, AtMost
    <3> QED BY <1>2, <2>3, <3>1, <3>2 DEF SeedStore, Mutates, unmutated, TypeOK
  <2> QED BY <1>2, <2>2, <2>3 DEF SeedStore
<1> QED BY <1>1, <1>2, DeleteMutates, CopyMutates DEF Renumber, EndUpdate

LEMMA MutationKeeps ==
  ASSUME TypeOK, TypeOK', SaveInv, Mutates
  PROVE  ImageCurrent' /\ UnsavedIsMarked' /\ NoneAhead' /\ ConfirmedEverywhere'
<1> USE DEF Mutates, flushVars, storeVars
<1>0. Saving \/ Serves => leader \in Node BY DEF TypeOK, SaveInv, Places, Serves, Saving
<1>1. ImageCurrent'
  <2> SUFFICES ASSUME Saving
               PROVE  /\ Keeps(image, local[leader])'
                      /\ \/ unmarked' > 0 \/ dirty
                         \/ \A j \in Job \ passed' : image[j] = local'[leader][j]
    BY DEF ImageCurrent, Saving
  <2>1. ASSUME NEW j \in Job \ undone' PROVE image[j] <= local'[leader][j]
    <3>1. image[j] <= local[leader][j] /\ local[leader][j] <= local'[leader][j]
      BY <1>0 DEF SaveInv, ImageCurrent, Keeps
    <3>2. image[j] \in Nat /\ local[leader][j] \in Nat /\ local'[leader][j] \in Nat
      BY <1>0, PersistAssumption DEF TypeOK, Jobs, Stamp
    <3> QED BY <3>1, <3>2
  <2>2. unmarked' > 0 \/ dirty \/ \A j \in Job \ passed' : image[j] = local'[leader][j]
    BY <1>0 DEF SaveInv, ImageCurrent, TypeOK
  <2> QED BY <2>1, <2>2 DEF Keeps
<1>2. UnsavedIsMarked'
  <2> SUFFICES ASSUME Serves, ~ excused, ~ OnItsWay'
               PROVE  \A j \in Job \ passed' : SameJob(snap, local'[leader], j)
    BY DEF UnsavedIsMarked, Serves
  <2>1. ~ OnItsWay BY DEF OnItsWay, TypeOK
  <2>2. \A j \in Job \ passed : SameJob(snap, local[leader], j)
    BY <2>1 DEF SaveInv, UnsavedIsMarked
  <2>3. \A j \in Job \ passed' : local'[leader][j] = local[leader][j]
    BY <1>0 DEF OnItsWay
  <2> QED BY <2>2, <2>3 DEF SameJob
<1>3. NoneAhead' BY AtMostTrans DEF TypeOK, SaveInv, NoneAhead, Snapshots
<1>4. ConfirmedEverywhere'
  <2> SUFFICES ASSUME ~ excused
               PROVE  /\ \A r \in rest : Keeps(confirmed, r.jobs)'
                      /\ Serves => Keeps(confirmed, local[leader])'
                      /\ Saving => Keeps(confirmed, image)'
    BY DEF ConfirmedEverywhere, Serves, Saving, Keeps
  <2>1. /\ \A r \in rest : Keeps(confirmed, r.jobs)'
        /\ Saving => Keeps(confirmed, image)'
    BY DEF SaveInv, ConfirmedEverywhere, Keeps
  <2>2. ASSUME Serves, NEW j \in Job \ undone' PROVE confirmed[j] <= local'[leader][j]
    <3>1. confirmed[j] <= local[leader][j] /\ local[leader][j] <= local'[leader][j]
      BY <1>0, <2>2 DEF SaveInv, ConfirmedEverywhere, Keeps
    <3>2. confirmed[j] \in Nat /\ local[leader][j] \in Nat /\ local'[leader][j] \in Nat
      BY <1>0, <2>2, PersistAssumption DEF TypeOK, Jobs, Stamp
    <3> QED BY <3>1, <3>2
  <2> QED BY <2>1, <2>2 DEF Keeps
<1> QED BY <1>1, <1>2, <1>3, <1>4

-----------------------------------------------------------------------------
(* The other steps.                                                        *)

Kept == ImageCurrent' /\ UnsavedIsMarked' /\ NoneAhead' /\ ConfirmedEverywhere'

\* What is at most something keeps within it.
LEMMA AtMostKeeps ==
  ASSUME NEW a, NEW b, AtMost(a, b)
  PROVE  Keeps(a, b)
BY DEF AtMost, Keeps

LEMMA LoadKeeps ==
  ASSUME TypeOK, TypeOK', SaveInv, LoadSnapshot \/ LoadNothing \/ LoadFails
  PROVE  Kept
<1> USE PersistAssumption DEF TypeOK, SaveInv, Places, Serves
<1>0. leader \in Node /\ flush = "wait"
  BY DEF LoadSnapshot, LoadNothing, LoadFails
<1>1. CASE LoadSnapshot
  <2>1. \A r \in rest : AtMost(Durable, r.jobs) BY DurableIsLeast
  <2>2. AtMost(Durable, newest)
    BY <2>1, DurableIsLeast, AtMostTrans DEF FoundWhole, NoneAhead, Snapshots
  <2>3. AtMost(Durable, snap.jobs) /\ AtMost(snap.jobs, newest)
    BY <2>1 DEF FoundWhole, NoneAhead
  <2>4. local'[leader] = snap.jobs BY <1>0, <1>1 DEF LoadSnapshot
  <2>5. \A n \in Node : AtMost(local'[n], newest)
    BY <1>1, <2>3, <2>4 DEF LoadSnapshot, NoneAhead
  <2>6. NoneAhead' BY <1>1, <2>2, <2>5 DEF LoadSnapshot, storeVars, NoneAhead
  <2>7. ConfirmedEverywhere'
    <3>1. flush' = "wait" /\ confirmed' = Durable /\ UNCHANGED <<rest, leader>>
      BY <1>0, <1>1 DEF LoadSnapshot, storeVars
    <3>2. \A r \in rest : Keeps(confirmed, r.jobs)' BY <2>1, <3>1 DEF AtMost, Keeps
    <3>3. Keeps(confirmed, local[leader])' BY <2>3, <2>4, <3>1 DEF AtMost, Keeps
    <3> QED BY <3>1, <3>2, <3>3 DEF ConfirmedEverywhere, Saving
  <2>8. ImageCurrent' /\ UnsavedIsMarked'
    BY <1>0, <1>1 DEF LoadSnapshot, ImageCurrent, Saving, UnsavedIsMarked, OnItsWay
  <2> QED BY <2>6, <2>7, <2>8 DEF Kept
<1>2. CASE LoadNothing
  <2>1. AtMost(Nothing, newest) /\ AtMost(Nothing, local[leader])
        /\ \A r \in rest : AtMost(Nothing, r.jobs)
    BY <1>0, AtMostSelf DEF Snapshots
  <2>2. UNCHANGED <<local, newest, leader, flush, image, snap, rest, late>> /\ confirmed' = Nothing
    BY <1>2 DEF LoadNothing, flushVars, storeVars
  <2>3. NoneAhead' BY <2>1, <2>2 DEF NoneAhead
  <2>4. ConfirmedEverywhere' /\ ImageCurrent'
    BY <1>0, <2>1, <2>2 DEF ConfirmedEverywhere, ImageCurrent, Saving, AtMost, Keeps
  <2>5. UnsavedIsMarked'
    BY <1>0, <1>2, <2>2 DEF LoadNothing, UnsavedIsMarked, SameJob, Map
  <2> QED BY <2>3, <2>4, <2>5 DEF Kept
<1>3. CASE LoadFails
  BY <1>0, <1>3
     DEF LoadFails, flushVars, storeVars, Kept, NoneAhead, ConfirmedEverywhere, ImageCurrent,
         UnsavedIsMarked, Saving
<1> QED BY <1>1, <1>2, <1>3

LEMMA TermKeeps ==
  ASSUME TypeOK, TypeOK', SaveInv,
         \/ \E n \in Node : Elect(n)
         \/ StepDown \/ Crash \/ Displace \/ OldSave \/ OldEnds
  PROVE  Kept
<1> USE PersistAssumption DEF TypeOK, SaveInv, Places, Serves, Saving
<1>1. CASE \E n \in Node : Elect(n)
  <2>1. UNCHANGED <<local, newest, snap, rest, late, confirmed, excused, undone, flush, image>>
        /\ flush = "wait" /\ ~ Serves'
    BY <1>1 DEF Elect, storeVars, histVars
  <2> QED BY <2>1 DEF Kept, NoneAhead, ConfirmedEverywhere, Keeps, ImageCurrent, UnsavedIsMarked
\* The leader's term ends.
<1>2. ASSUME Over, UNCHANGED <<newest, confirmed, excused, undone>>, rest' \subseteq rest,
             \A n \in Node : AtMost(local'[n], newest)
      PROVE  Kept
  <2>1. \A jobs \in late' : AtMost(jobs, newest)
    <3>1. CASE late' = late BY <3>1 DEF NoneAhead
    <3>2. CASE flush = "put" /\ late' = late \cup {image}
      <4>1. leader \in Node BY <3>2
      <4>2. ASSUME NEW r \in late' PROVE AtMost(r, newest)
        BY <3>2, <4>1 DEF NoneAhead
      <4> QED BY <4>2
    <3> QED BY <1>2, <3>1, <3>2 DEF Over
  <2>2. flush' = "wait" /\ ~ Serves' BY <1>2 DEF Over
  <2>3. NoneAhead' BY <1>2, <2>1, AtMostSelf DEF NoneAhead, Over
  <2>4. ConfirmedEverywhere' BY <1>2, <2>2 DEF ConfirmedEverywhere, Keeps
  <2> QED BY <2>2, <2>3, <2>4 DEF Kept, ImageCurrent, UnsavedIsMarked
<1>3. CASE StepDown BY <1>2, <1>3 DEF StepDown, histVars, NoneAhead
<1>4. CASE Displace BY <1>2, <1>4 DEF Displace, histVars, NoneAhead
<1>5. CASE Crash
  <2>1. \A n \in Node : AtMost(local'[n], newest)
    <3>1. ASSUME NEW n \in Node PROVE local'[n] = local[n] \/ local'[n] = Nothing
      BY <1>5 DEF Crash
    <3> QED BY <3>1, AtMostSelf DEF NoneAhead
  <2> QED BY <1>2, <1>5, <2>1 DEF Crash, histVars
\* What the displaced leader writes is no newer than the newest.
<1>6. CASE OldSave
  <2>1. old \in Node /\ Snapshot(local[old]).jobs = local[old] BY <1>6 DEF OldSave, Snapshot
  <2>2. UNCHANGED <<local, newest, leader, phase, unmarked, dirty, flush, image, late, confirmed,
                    passed, undone>> /\ excused'
    BY <1>6 DEF OldSave, leaderVars, flushVars
  <2>3. \A r \in rest' : AtMost(r.jobs, newest) BY <1>6, <2>1 DEF OldSave, NoneAhead
  <2>4. NoneAhead' BY <2>2, <2>3 DEF NoneAhead
  <2>5. ImageCurrent' BY <2>2 DEF ImageCurrent, Keeps
  <2> QED BY <2>2, <2>4, <2>5 DEF Kept, ConfirmedEverywhere, UnsavedIsMarked
<1>7. CASE OldEnds
  <2>1. old \in Node BY <1>7 DEF OldEnds
  <2>2. UNCHANGED <<local, newest, leader, phase, unmarked, dirty, flush, image, snap, rest,
                    confirmed, excused, passed, undone>>
    BY <1>7 DEF OldEnds, flushVars, histVars
  <2>3. \A jobs \in late' : AtMost(jobs, newest) BY <1>7, <2>1 DEF OldEnds, NoneAhead
  <2>4. NoneAhead' BY <2>2, <2>3 DEF NoneAhead
  <2>5. ImageCurrent' /\ ConfirmedEverywhere' BY <2>2 DEF ImageCurrent, ConfirmedEverywhere, Keeps
  <2>6. UnsavedIsMarked' BY <2>2 DEF UnsavedIsMarked, OnItsWay
  <2> QED BY <2>4, <2>5, <2>6 DEF Kept
<1> QED BY <1>1, <1>3, <1>4, <1>5, <1>6, <1>7

LEMMA MarkKeeps ==
  ASSUME TypeOK, TypeOK', SaveInv,
         (\E j \in Job : SeedCheck(j)) \/ Mark \/ Seeded
  PROVE  Kept
<1> USE DEF TypeOK, SaveInv, Saving, Serves, flushVars, storeVars, histVars
<1>1. UNCHANGED <<local, newest, leader, flush, image, snap, rest, late, confirmed, excused,
                  passed, undone>> /\ (Serves' <=> Serves)
  BY DEF SeedCheck, Mark, Seeded, unmutated
<1>2. (unmarked > 0 \/ dirty) => (unmarked' > 0 \/ dirty')
  BY DEF SeedCheck, Mark, Seeded, unmutated
<1>3. NoneAhead' BY <1>1 DEF NoneAhead
<1>4. ConfirmedEverywhere' BY <1>1 DEF ConfirmedEverywhere, Keeps
<1>5. ImageCurrent' BY <1>1, <1>2 DEF ImageCurrent, Keeps
<1>6. UnsavedIsMarked' BY <1>1, <1>2 DEF UnsavedIsMarked, OnItsWay
<1> QED BY <1>3, <1>4, <1>5, <1>6 DEF Kept

LEMMA ImageFacts ==
  ASSUME TypeOK, SaveInv, Saving
  PROVE  leader \in Node /\ image \in Jobs /\ confirmed \in Jobs
BY DEF TypeOK, SaveInv, Saving, Places, Serves

\* Save succeeds when what a reader finds is the image.
LEMMA SavedKeeps ==
  ASSUME TypeOK, TypeOK', SaveInv, Saving, Saved,
         snap' = Snapshot(image), rest' = {snap'},
         UNCHANGED <<unsaved, late, excused, passed, undone>>
  PROVE  Kept
<1> USE PersistAssumption, ImageFacts DEF unsaved, leaderVars
<1>1. AtMost(image, newest) BY DEF SaveInv, NoneAhead
<1>2. snap'.jobs = image /\ snap'.is = "whole" BY DEF Snapshot
<1>3. ImageCurrent' BY DEF ImageCurrent, Saving, Saved
<1>4. UnsavedIsMarked'
  BY <1>2 DEF UnsavedIsMarked, SaveInv, ImageCurrent, SameJob, OnItsWay, Saved, Serves, TypeOK
<1>5. AtMost(confirmed', newest)
  BY <1>1 DEF Saved, SaveInv, NoneAhead, AtMost
<1>6. NoneAhead' BY <1>1, <1>2, <1>5, AtMostSelf DEF TypeOK, SaveInv, NoneAhead, Saved
<1>7. ASSUME ~ excused, NEW j \in Job \ undone PROVE confirmed'[j] = image[j]
  <2>1. confirmed[j] \in Nat /\ image[j] \in Nat BY DEF Jobs, Stamp
  <2>2. confirmed[j] <= image[j] BY <1>7 DEF SaveInv, ConfirmedEverywhere, Keeps
  <2>3. confirmed'[j] = IF image[j] > confirmed[j] THEN image[j] ELSE confirmed[j] BY DEF Saved
  <2> QED BY <2>1, <2>2, <2>3
<1>8. ConfirmedEverywhere'
  <2> SUFFICES ASSUME ~ excused
               PROVE  (\A r \in rest : Keeps(confirmed, r.jobs))' /\ Keeps(confirmed, local[leader])'
    BY DEF ConfirmedEverywhere, Saving, Saved
  <2>1. ASSUME NEW j \in Job \ undone
        PROVE  confirmed'[j] <= image[j] /\ confirmed'[j] <= local[leader][j]
    <3>1. confirmed'[j] = image[j] /\ image[j] <= local[leader][j]
      BY <1>7 DEF SaveInv, ImageCurrent, Keeps
    <3>2. image[j] \in Nat BY DEF Jobs, Stamp
    <3> QED BY <3>1, <3>2
  <2> QED BY <1>2, <2>1 DEF Keeps
<1> QED BY <1>3, <1>4, <1>6, <1>8 DEF Kept

\* It fails, whether what a reader finds is the image by now or not.
LEMMA FailedKeeps ==
  ASSUME TypeOK, TypeOK', SaveInv, Saving, SaveFailed,
         \/ UNCHANGED <<snap, rest>>
         \/ snap' = Snapshot(image) /\ rest' = {snap'},
         late' \subseteq late \cup {image}, UNCHANGED <<unsaved, excused, passed, undone>>
  PROVE  Kept
<1> USE PersistAssumption, ImageFacts DEF unsaved, leaderVars
<1>1. AtMost(image, newest) BY DEF SaveInv, NoneAhead
<1>2. \A r \in rest' : r \in rest \/ r.jobs = image BY DEF Snapshot
<1>3. ImageCurrent' /\ UnsavedIsMarked'
  BY DEF ImageCurrent, UnsavedIsMarked, OnItsWay, Saving, SaveFailed
<1>4. NoneAhead'
  <2>1. AtMost(Nothing, newest) BY AtMostSelf DEF TypeOK
  <2> QED BY <1>1, <1>2, <2>1 DEF SaveInv, NoneAhead, SaveFailed
<1>5. ConfirmedEverywhere'
  BY <1>2 DEF SaveInv, ConfirmedEverywhere, Keeps, Saving, SaveFailed, Serves
<1> QED BY <1>3, <1>4, <1>5 DEF Kept

\* It succeeds without the directory: what a power failure leaves stays open.
LEMMA UnsyncedKeeps ==
  ASSUME TypeOK, TypeOK', SaveInv, flush = "renamed", flush' = "wait", image' = Nothing,
         UNCHANGED <<unsaved, snap, rest, late, dirty, confirmed, excused, passed, undone>>
  PROVE  Kept
<1> USE PersistAssumption, ImageFacts DEF unsaved, leaderVars
<1>1. Saving /\ snap.jobs = image /\ snap.is = "whole" BY DEF Saving, SaveInv, FoundWhole, Snapshot
<1>2. ImageCurrent' BY DEF ImageCurrent, Saving
<1>3. UnsavedIsMarked'
  BY <1>1 DEF UnsavedIsMarked, SaveInv, ImageCurrent, SameJob, OnItsWay, Serves
<1>4. NoneAhead' BY AtMostSelf DEF TypeOK, SaveInv, NoneAhead
<1>5. ConfirmedEverywhere' BY DEF SaveInv, ConfirmedEverywhere, Keeps, Saving, Serves
<1> QED BY <1>2, <1>3, <1>4, <1>5 DEF Kept

LEMMA FlushKeeps ==
  ASSUME TypeOK, TypeOK', SaveInv, Flusher \/ \E jobs \in late : Land(jobs)
  PROVE  Kept
<1> USE PersistAssumption
<1>1. CASE Wake
  BY <1>1 DEF Wake, Kept, TypeOK, SaveInv, ImageCurrent, UnsavedIsMarked, OnItsWay, NoneAhead,
              ConfirmedEverywhere, Keeps, Saving, Serves, unsaved, leaderVars, storeVars, histVars
<1>2. CASE Marshal
  <2>1. leader \in Node BY <1>2 DEF Marshal, SaveInv, Places, Serves, TypeOK
  <2>2. UNCHANGED <<unsaved, snap, rest, late, dirty, confirmed, excused, undone>>
        /\ image' = local[leader] /\ flush' = "put"
    BY <1>2 DEF Marshal, storeVars
  <2>3. Keeps(image, local[leader])' /\ AtMost(local[leader], local[leader])
    BY <2>1, <2>2, AtMostSelf DEF TypeOK, unsaved, leaderVars, AtMost, Keeps
  <2>4. ImageCurrent' BY <2>2, <2>3 DEF ImageCurrent, unsaved, leaderVars
  <2>5. UnsavedIsMarked' BY <2>2 DEF UnsavedIsMarked, OnItsWay
  <2>6. NoneAhead' BY <2>1, <2>2 DEF SaveInv, NoneAhead, unsaved, leaderVars
  <2>7. Serves BY <1>2 DEF Marshal, SaveInv, Places
  <2>8. ConfirmedEverywhere'
    BY <2>2, <2>7 DEF SaveInv, ConfirmedEverywhere, Keeps, unsaved, leaderVars
  <2> QED BY <2>4, <2>5, <2>6, <2>8 DEF Kept
<1>3. CASE Put
  <2>1. Saving /\ UNCHANGED <<unsaved, excused, passed, undone>> BY <1>3 DEF Put, Saving
  <2>2. CASE Saved /\ snap' = Snapshot(image) /\ rest' = {snap'} /\ UNCHANGED late
    BY <2>1, <2>2, SavedKeeps
  <2>3. CASE SaveFailed
    <3>1. /\ UNCHANGED <<snap, rest>> \/ (snap' = Snapshot(image) /\ rest' = {snap'})
          /\ late' \subseteq late \cup {image}
      BY <1>3, <2>3 DEF Put, storeVars
    <3> QED BY <2>1, <2>3, <3>1, FailedKeeps
  <2> QED BY <1>3, <2>2, <2>3 DEF Put
<1>4. ASSUME NEW a \in {"put", "written", "synced"}, NEW b \in {"written", "synced", "renamed"},
             FileStep(a, b),
             IF b = "renamed" /\ flush' = b
             THEN snap' = Snapshot(image) /\ rest' = rest \cup {snap'}
             ELSE UNCHANGED <<snap, rest>>
      PROVE  Kept
  <2>1. Saving /\ UNCHANGED <<unsaved, late, excused, passed, undone>>
    BY <1>4 DEF FileStep, Saving
  <2>2. CASE SaveFailed
    <3>1. UNCHANGED <<snap, rest>> BY <1>4, <2>2 DEF SaveFailed
    <3> QED BY <2>1, <2>2, <3>1, FailedKeeps
  <2>3. CASE flush' = b /\ UNCHANGED <<dirty, image, confirmed, faults>>
    <3>1. AtMost(image, newest) BY <2>1, ImageFacts DEF SaveInv, NoneAhead
    <3>2. \A r \in rest' : r \in rest \/ r.jobs = image BY <1>4 DEF Snapshot
    <3>3. Saving' BY <1>4, <2>3 DEF Saving
    <3>4. ImageCurrent' BY <2>1, <2>3 DEF SaveInv, ImageCurrent, Keeps, unsaved, leaderVars
    <3>5. UnsavedIsMarked' BY <3>3 DEF UnsavedIsMarked, OnItsWay, Saving
    <3>6. NoneAhead' BY <2>1, <2>3, <3>1, <3>2 DEF SaveInv, NoneAhead, unsaved, leaderVars
    <3>7. ConfirmedEverywhere'
      BY <2>1, <2>3, <3>2
         DEF SaveInv, ConfirmedEverywhere, Keeps, Serves, unsaved, leaderVars
    <3> QED BY <3>4, <3>5, <3>6, <3>7 DEF Kept
  <2> QED BY <1>4, <2>2, <2>3 DEF FileStep
<1>5. CASE WriteTmp BY <1>4, <1>5 DEF WriteTmp
<1>6. CASE SyncTmp BY <1>4, <1>6 DEF SyncTmp
<1>7. CASE Rename BY <1>4, <1>7 DEF Rename
<1>8. CASE SyncDir
  <2>1. Saving /\ snap' = Snapshot(image)
    BY <1>8 DEF SyncDir, Saving, SaveInv, FoundWhole
  <2>2. UNCHANGED <<unsaved, snap, late, excused, passed, undone>> BY <1>8 DEF SyncDir
  <2>3. CASE rest' = {snap} /\ Saved BY <2>1, <2>2, <2>3, SavedKeeps
  <2>4. CASE flush' = "wait" /\ image' = Nothing /\ UNCHANGED <<rest, dirty, confirmed>>
    BY <1>8, <2>2, <2>4, UnsyncedKeeps DEF SyncDir
  <2> QED BY <1>8, <2>3, <2>4 DEF SyncDir
<1>9. ASSUME NEW jobs \in late, Land(jobs) PROVE Kept
  <2>1. AtMost(jobs, newest) BY DEF SaveInv, NoneAhead
  <2>2. snap'.jobs = jobs BY <1>9 DEF Land, Snapshot
  <2>3. UNCHANGED <<unsaved, flushVars, confirmed, passed, undone>> /\ excused'
        /\ rest' = {snap'} /\ late' \subseteq late
    BY <1>9 DEF Land
  <2>4. NoneAhead' BY <2>1, <2>2, <2>3 DEF SaveInv, NoneAhead, unsaved, flushVars
  <2>5. ImageCurrent'
    BY <2>3 DEF SaveInv, ImageCurrent, Keeps, Saving, unsaved, leaderVars, flushVars
  <2> QED BY <2>3, <2>4, <2>5 DEF Kept, ConfirmedEverywhere, UnsavedIsMarked
<1> QED BY <1>1, <1>2, <1>3, <1>5, <1>6, <1>7, <1>8, <1>9 DEF Flusher

LEMMA SaveStep ==
  ASSUME TypeOK, TypeOK', SaveInv, [Next]_vars
  PROVE  SaveInv'
<1>1. CASE Next
  <2>1. Places' /\ FoundWhole' BY <1>1, PlacesKept, FoundWholeKept
  <2>2. Kept
    BY <1>1, NextMutates, MutationKeeps, LoadKeeps, TermKeeps, MarkKeeps, FlushKeeps
       DEF Next, Kept
  <2> QED BY <2>1, <2>2 DEF SaveInv, Kept
<1>2. CASE UNCHANGED vars
  BY <1>2 DEF vars, leaderVars, flushVars, storeVars, histVars, SaveInv, Places, FoundWhole,
              ImageCurrent, UnsavedIsMarked, OnItsWay, NoneAhead, ConfirmedEverywhere, Keeps,
              Saving, Serves
<1> QED BY <1>1, <1>2

LEMMA InitHolds ==
  ASSUME Init
  PROVE  TypeOK /\ SaveInv
<1> USE PersistAssumption DEF Init
<1>1. Nothing \in Jobs BY DEF Nothing, Jobs, Stamp
<1>2. NoSnapshot \in Snapshots /\ NoSnapshot.jobs = Nothing /\ NoSnapshot.is # "torn"
  BY <1>1 DEF NoSnapshot, Snapshots
<1>3. TypeOK
  <2>1. snap \in Snapshots /\ rest \subseteq Snapshots /\ rest # {} BY <1>2
  <2>2. local \in [Node -> Jobs] BY <1>1
  <2>3. faults \in 0 .. MaxFaults /\ unmarked \in Nat OBVIOUS
  <2> QED BY <1>1, <2>1, <2>2, <2>3 DEF TypeOK
<1>4. SaveInv
  <2>1. AtMost(Nothing, Nothing) BY <1>1, AtMostSelf
  <2>2. Places /\ FoundWhole /\ ImageCurrent /\ UnsavedIsMarked
    BY <1>2 DEF Places, FoundWhole, ImageCurrent, UnsavedIsMarked, Saving, Serves
  <2>3. NoneAhead BY <1>2, <2>1 DEF NoneAhead
  <2>4. ConfirmedEverywhere BY <1>2, <2>1 DEF ConfirmedEverywhere, AtMost, Keeps, Saving, Serves
  <2> QED BY <2>2, <2>3, <2>4 DEF SaveInv
<1> QED BY <1>3, <1>4

LEMMA Invariant == Spec => [](TypeOK /\ SaveInv)
<1>1. TypeOK /\ SaveInv /\ [Next]_vars => (TypeOK /\ SaveInv)'
  BY TypeStep, SaveStep
<1> QED BY <1>1, InitHolds, PTL DEF Spec

-----------------------------------------------------------------------------
(* Theorems.                                                               *)

\* The job maps, the flusher and the store stay within their types.
THEOREM TypeCorrect == Spec => []TypeOK
BY Invariant, PTL

\* No marked change of the leader's store is forgotten by the flusher: what the
\* snapshot does not have is marked, about to be marked, or being saved.  Excepted
\* are the jobs the leader's own agent wrote past the mark since the flusher last
\* read the map, and a leader whose snapshot another has written.
THEOREM NoChangeForgotten == Spec => []UnsavedIsMarked
<1>1. SaveInv => UnsavedIsMarked BY DEF SaveInv
<1> QED BY <1>1, Invariant, PTL

\* What a save confirmed is not undone by a later leader, a failed save or a power
\* failure, whichever store has it.  Excepted are a job of which an older copy was
\* written into the leader's map, the term of a leader that could not load, and what
\* a displaced leader or a PUT that was given up does later.
THEOREM ConfirmedStays == Spec => []CommittedStays
<1>1. TypeOK /\ SaveInv => CommittedStays
  BY PersistAssumption
     DEF TypeOK, SaveInv, FoundWhole, ConfirmedEverywhere, CommittedStays, Keeps,
         Snapshots, Jobs, Stamp
<1> QED BY <1>1, Invariant, PTL

\* A crash at any point of the file's replacement leaves a readable snapshot.
THEOREM NeverTorn == Spec => []SnapshotIsWhole
<1>1. SaveInv => SnapshotIsWhole BY DEF SaveInv, FoundWhole, SnapshotIsWhole
<1> QED BY <1>1, Invariant, PTL

=============================================================================
