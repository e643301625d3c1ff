------------------------------- MODULE Persist -------------------------------
(***************************************************************************)
(* The committed state (internal/leader/persist.go, init.go and the state  *)
(* stores of internal/discovery).  The leader keeps the definitions in the *)
(* job map of its own agent, marks every change, and a flusher writes the  *)
(* whole map as one snapshot: a PUT to the store that holds the lease, or, *)
(* on a standalone node, a file replaced in steps.  A new leader replaces  *)
(* its agent's job map by the snapshot; without a snapshot it may seed the *)
(* configured jobs.  Leaders change, crash and lose power at any point; a  *)
(* leader that has lost its lease goes on until it notices.  The leader's  *)
(* agent is an agent as well: what it is sent it writes past the mark.     *)
(*                                                                         *)
(* What is known of a job is a stamp: every submit gives the job its next  *)
(* odd stamp, every delete its next even one.  Code tells only whether a   *)
(* job is there (odd); the order of stamps is for the properties.          *)
(***************************************************************************)
EXTENDS Integers, FiniteSets

CONSTANTS Node, NoNode,
          Home,        \* the node of the standalone case
          Job,
          InitJob,     \* cluster.init_jobs
          Kind,        \* kinds of store to check: "remote", "file"
          MaxStamp,    \* bound: submits and deletes of a job
          MaxFaults    \* bound: faults, write-backs and late calls, together

ASSUME PersistAssumption ==
  /\ NoNode \notin Node /\ Home \in Node
  /\ InitJob \subseteq Job
  /\ Kind \subseteq {"remote", "file"} /\ Kind # {}
  /\ MaxStamp \in Nat /\ MaxFaults \in Nat

VARIABLES
  kind,       \* StateStoreFromConfig: where snapshots go
  local,      \* each agent's job map
  newest,     \* history: the newest stamp given to each job
  leader, phase,       \* who leads and how far BecomeLeader has got
  old,        \* a leader that has lost the lease and has yet to notice
  toSeed, seeding,     \* SeedInitJobs: jobs left, and the ones found absent
  unmarked,   \* mutations that are in the store and have yet to mark it
  dirty,      \* l.stateDirty holds its one token
  flush,      \* where persistLoop stands
  image,      \* the snapshot it is saving
  snap,       \* the snapshot a reader of the store finds
  rest,       \* what may be found after a power failure
  late,       \* PUTs given up that may still be carried out
  confirmed,  \* history: what a Save of which nothing failed has reported as saved
  excused,    \* history: this leader did not get to load what was saved, or
              \* started from its agent's job map where nothing was saved, or
              \* another's snapshot or a PUT given up landed since it loaded
  passed,     \* history: jobs its agent wrote since the flusher last read them
  undone,     \* history: jobs of which an older copy was written since it loaded
  faults

storeVars == <<snap, rest, late>>
leaderVars == <<leader, phase, old, toSeed, seeding, unmarked>>
flushVars == <<dirty, flush, image>>
histVars == <<confirmed, excused, passed, undone>>
vars == <<kind, local, newest, leaderVars, flushVars, storeVars, histVars, faults>>

Stamp == 0 .. MaxStamp
Jobs == [Job -> Stamp]
Nothing == [j \in Job |-> 0]

Present(s) == s % 2 = 1
Map(jobs) == {j \in Job : Present(jobs[j])}

\* The store's answer to Load: no object, an unreadable one, or a snapshot.
NoSnapshot == [is |-> "none", jobs |-> Nothing]
Torn == [is |-> "torn", jobs |-> Nothing]
Snapshot(jobs) == [is |-> "whole", jobs |-> jobs]
Snapshots == [is : {"none", "torn", "whole"}, jobs : Jobs]

TypeOK ==
  /\ kind \in Kind
  /\ local \in [Node -> Jobs]
  /\ newest \in Jobs
  /\ leader \in Node \cup {NoNode}
  /\ phase \in {"down", "load", "seed", "serve"}
  /\ old \in Node \cup {NoNode}
  /\ toSeed \subseteq Job /\ seeding \subseteq Job
  /\ unmarked \in Nat
  /\ dirty \in BOOLEAN
  /\ flush \in {"wait", "debounce", "put", "written", "synced", "renamed"}
  /\ image \in Jobs
  /\ snap \in Snapshots
  /\ rest \subseteq Snapshots /\ rest # {}
  /\ late \subseteq Jobs
  /\ confirmed \in Jobs
  /\ excused \in BOOLEAN
  /\ passed \subseteq Job /\ undone \subseteq Job
  /\ faults \in 0 .. MaxFaults

Init ==
  /\ kind \in Kind
  /\ local = [n \in Node |-> Nothing]
  /\ newest = Nothing
  /\ leader = NoNode /\ phase = "down" /\ old = NoNode
  /\ toSeed = {} /\ seeding = {} /\ unmarked = 0
  /\ dirty = FALSE /\ flush = "wait" /\ image = Nothing
  /\ snap = NoSnapshot /\ rest = {NoSnapshot} /\ late = {}
  /\ confirmed = Nothing /\ excused = FALSE
  /\ passed = {} /\ undone = {}
  /\ faults = 0

Fault == faults < MaxFaults /\ faults' = faults + 1
-----------------------------------------------------------------------------
(* Leaders come and go.                                                    *)

\* The lease is won; SetStatePersister starts with nothing marked.
Elect(n) ==
  /\ leader = NoNode /\ n # old
  /\ kind = "file" => n = Home
  /\ leader' = n /\ phase' = "load"
  /\ dirty' = FALSE
  /\ UNCHANGED <<kind, local, newest, old, toSeed, seeding, unmarked, flush, image,
                 storeVars, histVars, faults>>

\* What a reader finds even after a power failure now.
Durable == [j \in Job |-> CHOOSE s \in {r.jobs[j] : r \in rest} :
                            \A r \in rest : s <= r.jobs[j]]

LoadMerging ==       \* mutant: jobs the snapshot does not know are kept
  /\ phase = "load" /\ snap.is = "whole"
  /\ local' = [local EXCEPT ![leader] = [j \in Job |->
                 IF Present(snap.jobs[j]) THEN snap.jobs[j] ELSE @[j]]]
  /\ dirty' = TRUE
  /\ phase' = "serve"
  /\ confirmed' = Durable /\ excused' = FALSE /\ passed' = {} /\ undone' = {}
  /\ UNCHANGED <<kind, newest, leader, old, toSeed, seeding, unmarked, flush, image,
                 storeVars, faults>>

\* LoadCommittedState found a snapshot: drop what it does not know, take over
\* what it has; both mark the state dirty.
LoadSnapshot ==
  /\ phase = "load" /\ snap.is = "whole"
  /\ local' = [local EXCEPT ![leader] = snap.jobs]
  /\ dirty' = TRUE
  /\ phase' = "serve"
  /\ confirmed' = Durable /\ excused' = FALSE /\ passed' = {} /\ undone' = {}
  /\ UNCHANGED <<kind, newest, leader, old, toSeed, seeding, unmarked, flush, image,
                 storeVars, faults>>

\* No snapshot: a clean boot, which seeds if the job map is empty as well.  What
\* the map has is not marked, and saved with the next change only.
LoadNothing ==
  /\ phase = "load" /\ snap.is = "none"
  /\ toSeed' = IF Map(local[leader]) = {} THEN InitJob ELSE {}
  /\ phase' = "seed"
  /\ confirmed' = Nothing /\ excused' = (Map(local[leader]) # {})
  /\ passed' = {} /\ undone' = {}
  /\ UNCHANGED <<kind, local, newest, leader, old, seeding, unmarked, flushVars,
                 storeVars, faults>>

\* The store does not answer, or what it has cannot be read: the leader goes on
\* with the job map it has, and does not seed.
LoadFails ==
  /\ phase = "load"
  /\ \/ snap.is = "torn" /\ UNCHANGED faults
     \/ Fault
  /\ phase' = "serve"
  /\ excused' = TRUE
  /\ UNCHANGED <<kind, local, newest, leader, old, toSeed, seeding, unmarked, flushVars,
                 storeVars, confirmed, passed, undone>>

\* The leader's context ends: the flusher returns wherever it stands; a PUT it
\* has sent may be carried out yet.
Over ==
  /\ leader' = NoNode /\ phase' = "down"
  /\ toSeed' = {} /\ seeding' = {} /\ unmarked' = 0
  /\ flush' = "wait"
  /\ image' = Nothing
  /\ \/ UNCHANGED late
     \/ flush = "put" /\ kind = "remote" /\ late' = late \cup {image}

\* It steps down: a save under way in the file goes on to its end or not at all,
\* which is as good as its steps so far.
StepDown ==
  /\ leader # NoNode
  /\ Fault
  /\ Over
  /\ dirty' = FALSE
  /\ UNCHANGED <<kind, local, newest, old, snap, rest, histVars>>

\* The leader's machine loses power.
Crash ==
  /\ leader # NoNode
  /\ Fault
  /\ Over
  /\ dirty' = FALSE
  /\ local' = [local EXCEPT ![leader] = Nothing]
  /\ snap' \in rest /\ rest' = {snap'}
  /\ UNCHANGED <<kind, newest, old, histVars>>

\* Its lease runs out unnoticed, and may pass to another.
Displace ==
  /\ leader # NoNode /\ old = NoNode /\ kind = "remote"
  /\ Fault
  /\ Over
  /\ dirty' = FALSE
  /\ old' = leader
  /\ UNCHANGED <<kind, local, newest, snap, rest, histVars>>

\* What it has is saved over what its successor loaded, or saved, ...
OldSave ==
  /\ old # NoNode
  /\ snap' = Snapshot(local[old]) /\ rest' = {snap'}
  /\ excused' = TRUE
  /\ UNCHANGED <<kind, local, newest, leaderVars, flushVars, late, confirmed, passed, undone,
                 faults>>

\* ... until it notices; a PUT it has sent may be carried out yet.
OldEnds ==
  /\ old # NoNode
  /\ old' = NoNode
  /\ late' \in {late, late \cup {local[old]}}
  /\ UNCHANGED <<kind, local, newest, leader, phase, toSeed, seeding, unmarked, flushVars,
                 snap, rest, histVars, faults>>
-----------------------------------------------------------------------------
(* Mutations, each of them two operations: the store's, and the mark.      *)

Serves == phase \in {"seed", "serve"}

NextOdd(s) == s + 1 + (s % 2)
NextEven(s) == s + 2 - (s % 2)

\* Whose API takes changes.
Author(n) == (n = leader /\ Serves) \/ n = old

unmutated == <<kind, leader, phase, old, flushVars, storeVars, confirmed, excused>>

\* A definition, or its absence, is written to the job map of n; an author's writes
\* are marked.
Write(n, j, s) == local' = [local EXCEPT ![n][j] = s]

Marked(n) == unmarked' = IF n = leader THEN unmarked + 1 ELSE unmarked

\* StoreJob at the leader.
StoreJob(n, j) ==
  /\ NextOdd(newest[j]) <= MaxStamp
  /\ newest' = [newest EXCEPT ![j] = NextOdd(@)]
  /\ Write(n, j, NextOdd(newest[j])) /\ Marked(n)

Submit(n, j) ==
  /\ Author(n)
  /\ StoreJob(n, j)
  /\ UNCHANGED <<unmutated, toSeed, seeding, passed, undone, faults>>

\* DeleteJobByName at the leader; the agents are told by Arrive.
DeleteJob(n, j) ==
  /\ Author(n) /\ Present(local[n][j])
  /\ NextEven(newest[j]) <= MaxStamp
  /\ newest' = [newest EXCEPT ![j] = NextEven(@)]
  /\ Write(n, j, NextEven(newest[j])) /\ Marked(n)
  /\ UNCHANGED <<unmutated, toSeed, seeding, passed, undone, faults>>

\* An older copy undoes what the leader's map had of the job.
Undoes(n, j, s) ==
  undone' = IF n = leader /\ s < local[n][j] THEN undone \cup {j} ELSE undone

\* A definition that was read earlier is written back whole, with a field changed.
WriteBack(n, j, s) ==
  /\ Author(n) /\ Present(s)
  /\ Fault
  /\ Write(n, j, s) /\ Marked(n) /\ Undoes(n, j, s)
  /\ UNCHANGED <<unmutated, newest, toSeed, seeding, passed>>

\* The renumbering of priorities, where the job still has a definition ...
Renumber(n, j, s) == Present(local[n][j]) /\ WriteBack(n, j, s)

\* ... and the end of an update, whether it has one or not.
EndUpdate(n, j, s) == ~ Present(local[n][j]) /\ WriteBack(n, j, s)

MarkTwice ==         \* mutant: marks without a mutation
  /\ unmarked' = unmarked - 1
  /\ dirty' = TRUE
  /\ UNCHANGED <<kind, local, newest, leader, phase, old, toSeed, seeding, flush, image,
                 storeVars, histVars, faults>>

MarkIfIdle ==        \* mutant: no mark while a save is under way
  /\ unmarked > 0
  /\ unmarked' = unmarked - 1
  /\ dirty' = (flush = "wait")
  /\ UNCHANGED <<kind, local, newest, leader, phase, old, toSeed, seeding, flush, image,
                 storeVars, histVars, faults>>

\* markStateDirty: the channel holds one token.
Mark ==
  /\ unmarked > 0
  /\ unmarked' = unmarked - 1
  /\ dirty' = TRUE
  /\ UNCHANGED <<kind, local, newest, leader, phase, old, toSeed, seeding, flush, image,
                 storeVars, histVars, faults>>

\* An agent, the leader's own too, is sent a job (an odd stamp) or told to delete
\* one; the calls, and the starts they begin, take as long as they take, so that
\* what they bring may be older than what the leader has by then.  The agent writes
\* its map itself: nothing is marked.
Arrive(n, j, s) ==
  /\ kind = "file" => n = Home
  /\ s # local[n][j] /\ (Present(s) \/ Present(local[n][j]))
  /\ \/ Serves /\ s = local[leader][j] /\ UNCHANGED faults
     \/ Fault
  /\ Write(n, j, s) /\ Undoes(n, j, s)
  /\ passed' = IF n = leader THEN passed \cup {j} ELSE passed
  /\ UNCHANGED <<unmutated, newest, toSeed, seeding, unmarked>>

\* SeedInitJobs: a job that exists is skipped; the others are submitted.
SeedCheck(j) ==
  /\ phase = "seed" /\ seeding = {} /\ j \in toSeed
  /\ toSeed' = toSeed \ {j}
  /\ seeding' = IF Present(local[leader][j]) THEN {} ELSE {j}
  /\ UNCHANGED <<unmutated, local, newest, unmarked, passed, undone, faults>>

SeedStore(j) ==
  /\ j \in seeding
  /\ seeding' = {}
  /\ \/ StoreJob(leader, j)
     \/ NextOdd(newest[j]) > MaxStamp /\ UNCHANGED <<local, newest, unmarked>>
  /\ UNCHANGED <<unmutated, toSeed, passed, undone, faults>>

Seeded ==
  /\ phase = "seed" /\ toSeed = {} /\ seeding = {}
  /\ phase' = "serve"
  /\ UNCHANGED <<kind, local, newest, leader, old, toSeed, seeding, unmarked, flushVars,
                 storeVars, histVars, faults>>
-----------------------------------------------------------------------------
(* persistLoop and Save.                                                   *)

unsaved == <<kind, local, newest, leaderVars>>

\* The token is taken; changes of the next second ride along.
Wake ==
  /\ Serves /\ flush = "wait" /\ dirty
  /\ dirty' = FALSE
  /\ flush' = "debounce"
  /\ UNCHANGED <<unsaved, image, storeVars, histVars, faults>>

\* The job map is read after the token is taken.
Marshal ==
  /\ flush = "debounce"
  /\ image' = local[leader]
  /\ flush' = "put"
  /\ passed' = {}
  /\ UNCHANGED <<unsaved, dirty, storeVars, confirmed, excused, undone, faults>>

\* Save returned nil.
Saved ==
  /\ flush' = "wait" /\ image' = Nothing
  /\ confirmed' = [j \in Job |-> IF image[j] > confirmed[j] THEN image[j]
                                                           ELSE confirmed[j]]
  /\ UNCHANGED dirty

SaveDropped ==       \* mutant: a failed save is not tried again
  /\ flush' = "wait" /\ image' = Nothing
  /\ UNCHANGED <<dirty, confirmed>>

\* Save failed: mark again, so that another round tries.
SaveFailed ==
  /\ flush' = "wait" /\ image' = Nothing
  /\ dirty' = TRUE
  /\ UNCHANGED confirmed

Put ==
  /\ flush = "put" /\ kind = "remote"
  /\ UNCHANGED <<unsaved, excused, passed, undone>>
  /\ \/ /\ snap' = Snapshot(image) /\ rest' = {snap'}
        /\ Saved /\ UNCHANGED <<late, faults>>
     \/ /\ snap' = Snapshot(image) /\ rest' = {snap'}
        /\ SaveFailed /\ Fault /\ UNCHANGED late
     \/ /\ SaveFailed /\ Fault /\ UNCHANGED storeVars
     \/ /\ late' = late \cup {image}
        /\ SaveFailed /\ Fault /\ UNCHANGED <<snap, rest>>

\* A PUT given up is carried out after all.
Land(jobs) ==
  /\ jobs \in late
  /\ late' = late \ {jobs}
  /\ snap' = Snapshot(jobs) /\ rest' = {snap'}
  /\ excused' = TRUE
  /\ UNCHANGED <<unsaved, flushVars, confirmed, passed, undone, faults>>

\* FileStateStore.Save: write a sibling, flush it, rename, flush the directory.
\* Each of the first three may fail (a full disk): the file is then as it was.
FileStep(from, to) ==
  /\ flush = from /\ kind = "file"
  /\ UNCHANGED <<unsaved, late, excused, passed, undone>>
  /\ \/ flush' = to /\ UNCHANGED <<dirty, image, confirmed, faults>>
     \/ SaveFailed /\ Fault

WriteTmp == FileStep("put", "written") /\ UNCHANGED <<snap, rest>>

SyncTmp == FileStep("written", "synced") /\ UNCHANGED <<snap, rest>>

RenameUnsynced ==    \* mutant: the sibling's content is not flushed first
  /\ FileStep("synced", "renamed")
  /\ IF flush' = "renamed"
     THEN snap' = Snapshot(image) /\ rest' = rest \cup {snap', Torn}
     ELSE UNCHANGED <<snap, rest>>

Rename ==
  /\ FileStep("synced", "renamed")
  /\ IF flush' = "renamed"
     THEN snap' = Snapshot(image) /\ rest' = rest \cup {snap'}
     ELSE UNCHANGED <<snap, rest>>

\* Save does not look at what became of the directory: it returns nil, and the
\* rename may or may not outlast a power failure.
SyncDir ==
  /\ flush = "renamed"
  /\ \/ rest' = {snap} /\ Saved /\ UNCHANGED faults
     \/ /\ Fault
        /\ flush' = "wait" /\ image' = Nothing
        /\ UNCHANGED <<rest, dirty, confirmed>>
  /\ UNCHANGED <<unsaved, snap, late, excused, passed, undone>>

Flusher == Wake \/ Marshal \/ Put \/ WriteTmp \/ SyncTmp \/ Rename \/ SyncDir

Next ==
  \/ \E n \in Node : Elect(n)
  \/ LoadSnapshot
  \/ LoadNothing
  \/ LoadFails
  \/ StepDown
  \/ Crash
  \/ Displace
  \/ OldSave
  \/ OldEnds
  \/ \E n \in Node, j \in Job : Submit(n, j)
  \/ \E n \in Node, j \in Job : DeleteJob(n, j)
  \/ \E n \in Node, j \in Job : \E s \in 1 .. newest[j] : Renumber(n, j, s)
  \/ \E n \in Node, j \in Job : \E s \in 1 .. newest[j] : EndUpdate(n, j, s)
  \/ Mark
  \/ \E n \in Node, j \in Job : \E s \in 1 .. newest[j] : Arrive(n, j, s)
  \/ \E j \in Job : SeedCheck(j)
  \/ \E j \in Job : SeedStore(j)
  \/ Seeded
  \/ \E jobs \in late : Land(jobs)
  \/ Flusher

Spec == Init /\ [][Next]_vars

\* The flusher is a goroutine of its own and every call it makes has a timeout;
\* a mutation that has changed the store goes on to mark it.
Fairness == WF_vars(Flusher) /\ WF_vars(Mark)

FairSpec == Spec /\ Fairness
-----------------------------------------------------------------------------
(* Properties.                                                             *)

SameJob(s, jobs, j) == IF s.is = "whole" THEN s.jobs[j] = jobs[j] ELSE ~ Present(jobs[j])
Same(s, jobs) == \A j \in Job : SameJob(s, jobs, j)

OnItsWay == unmarked > 0 \/ dirty \/ flush # "wait"

\* Whatever differs between the leader's store and the snapshot is on its way
\* there: marked, about to be marked, or in the flusher's hands, so that no mark is
\* lost between two saves.  Excepted is what the leader's own agent has written
\* since the flusher last read the map, and a snapshot another has written.
UnsavedIsMarked ==
  Serves /\ ~ excused =>
    OnItsWay \/ \A j \in Job \ passed : SameJob(snap, local[leader], j)

\* What a save confirmed is not undone in the snapshot, over any number of
\* leaders, steps down, crashes and failed saves: a deleted job does not rise, an
\* older definition does not come back.  Excepted is a job of which an older copy
\* was written into the leader's map, the term of a leader that could not load, and
\* what a PUT that was given up, or a leader that was displaced, does later.
CommittedStays ==
  ~ excused => \A j \in Job \ undone : snap.jobs[j] >= confirmed[j]

\* A crash at any point of the file's replacement leaves a readable snapshot.
SnapshotIsWhole == snap.is # "torn"

\* With a leader that stays, alone, and whose agent writes nothing past the mark
\* any more, the snapshot comes to be what the leader has, however its saves fail
\* on the way and whatever is written back.
ChangesGetCommitted == \A n \in Node :
  <>[](leader = n /\ phase = "serve" /\ ~ excused /\ passed = {}) => <>[]Same(snap, local[n])

-----------------------------------------------------------------------------
(* Statements of the repository that the code does not keep.               *)

\* "Every mutation path (submit, delete, priority renumbering, sync) marks the state
\* dirty - no call site can forget to" (persist.go).
EveryWriteMarks == Serves /\ ~ excused => OnItsWay \/ Same(snap, local[leader])

\* "The snapshot says what should run"; "a displaced leader has already lost its
\* lease before its stale snapshot could matter" (persist.go).
SnapshotIsTruth == \A j \in Job : snap.jobs[j] >= confirmed[j]
=============================================================================
