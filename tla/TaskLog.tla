------------------------------ MODULE TaskLog ------------------------------
(***************************************************************************)
(* The log of a task (internal/runner/logs.go), which every driver keeps   *)
(* in the same way: a broadcaster with the last lines, the store that has  *)
(* it while the task runs and for some minutes after, and one client that  *)
(* follows it (internal/agent/handlers.go, handleLogs).  A line is its     *)
(* number.  The two streams of a task are one here: the store puts and     *)
(* retires them together.                                                  *)
(***************************************************************************)
EXTENDS Naturals, Sequences

CONSTANTS Task,
          TailSize,   \* tailSize: lines that are kept
          ChanSize,   \* the buffer of a subscriber's channel
          MaxLines    \* bound: lines a task says

ASSUME LogAssumption ==
  /\ TailSize \in Nat \ {0} /\ ChanSize \in Nat /\ TailSize <= ChanSize
  /\ MaxLines \in Nat

VARIABLES
  shelf,    \* logStore: is the task's broadcaster live, retired, or not there
  lines,    \* LogBroadcaster.tailPos: lines written
  closed,   \* LogBroadcaster.closed
  listener, \* the client: its channel, whether it is open, the last line it took
  missed    \* history: listeners whose channel was full for a line

logVars == <<shelf, lines, closed, listener, missed>>

Idle == [on |-> "none", chan |-> <<>>, took |-> 0]

LogTypeOK ==
  /\ shelf \in [Task -> {"none", "live", "retired"}]
  /\ lines \in [Task -> 0 .. MaxLines]
  /\ closed \in [Task -> BOOLEAN]
  /\ listener \in [Task -> [on : {"none", "open", "closed"}, chan : Seq(1 .. MaxLines),
                            took : 0 .. MaxLines]]
  /\ \A t \in Task : Len(listener[t].chan) <= ChanSize
  /\ missed \subseteq Task

LogInit ==
  /\ shelf = [t \in Task |-> "none"]
  /\ lines = [t \in Task |-> 0]
  /\ closed = [t \in Task |-> FALSE]
  /\ listener = [t \in Task |-> Idle]
  /\ missed = {}

\* The last lines, in order.
TailLines(t) ==
  LET start == IF lines[t] > TailSize THEN lines[t] - TailSize ELSE 0
  IN [i \in 1 .. lines[t] - start |-> start + i]

\* The channel is closed once what is in it has been taken.
Shut(l) == IF l.on = "open" THEN [l EXCEPT !.on = "closed"] ELSE l

\* The broadcaster of a start; the task's earlier retirement is forgotten.
PutLog(t) ==
  /\ shelf' = [shelf EXCEPT ![t] = "live"]
  /\ UNCHANGED <<lines, closed, listener, missed>>

CloseLog(t) ==
  /\ closed' = [closed EXCEPT ![t] = TRUE]
  /\ listener' = [listener EXCEPT ![t] = Shut(@)]

\* PipeReader at the end of its pipe.
EndLog(t) == CloseLog(t) /\ UNCHANGED <<shelf, lines, missed>>

\* retire, which closes; a task without a live log has nothing to retire.
RetireLog(t) ==
  IF shelf[t] = "live"
  THEN /\ shelf' = [shelf EXCEPT ![t] = "retired"]
       /\ CloseLog(t)
       /\ UNCHANGED <<lines, missed>>
  ELSE UNCHANGED logVars

\* The retention has passed: lookup finds it no more.
Expire(t) ==
  /\ shelf[t] = "retired"
  /\ shelf' = [shelf EXCEPT ![t] = "none"]
  /\ UNCHANGED <<lines, closed, listener, missed>>

WriteDraining(t) ==  \* mutant: the oldest line makes room, as in the event bus
  LET l == listener[t]
      full == Len(l.chan) = ChanSize
  IN /\ lines' = [lines EXCEPT ![t] = @ + 1]
     /\ listener' = [listener EXCEPT ![t].chan =
          IF l.on # "open" THEN @ ELSE Append(IF full THEN Tail(@) ELSE @, lines[t] + 1)]
     /\ UNCHANGED <<shelf, closed, missed>>

\* A line goes to the tail, and to the listener if there is room: the writer of a
\* log never waits for who reads it.
WriteLine(t) ==
  LET l == listener[t]
      full == Len(l.chan) = ChanSize
  IN /\ lines' = [lines EXCEPT ![t] = @ + 1]
     /\ listener' = [listener EXCEPT ![t].chan =
          IF l.on # "open" \/ full THEN @ ELSE Append(@, lines[t] + 1)]
     /\ missed' = IF l.on = "open" /\ full THEN missed \cup {t} ELSE missed
     /\ UNCHANGED <<shelf, closed>>

\* The history first; of a log that is closed there is nothing after it.
Subscribe(t) ==
  /\ shelf[t] # "none" /\ listener[t].on = "none"
  /\ listener' = [listener EXCEPT ![t] =
       [Idle EXCEPT !.on = IF closed[t] THEN "closed" ELSE "open",
                    !.chan = TailLines(t)]]
  /\ UNCHANGED <<shelf, lines, closed, missed>>

\* The client takes a line, or sees that the channel is closed and leaves.
Receive(t) ==
  LET l == listener[t] IN
  /\ \/ l.chan # <<>> /\ listener' = [listener EXCEPT ![t] =
                           [l EXCEPT !.chan = Tail(@), !.took = Head(l.chan)]]
     \/ l.chan = <<>> /\ l.on = "closed" /\ listener' = [listener EXCEPT ![t] = Idle]
  /\ missed' = IF listener'[t] = Idle THEN missed \ {t} ELSE missed
  /\ UNCHANGED <<shelf, lines, closed>>

\* The client hangs up; Close may have closed the channel before.
Unsubscribe(t) ==
  /\ listener[t].on # "none"
  /\ listener' = [listener EXCEPT ![t] = Idle]
  /\ missed' = missed \ {t}
  /\ UNCHANGED <<shelf, lines, closed>>

Reading(t) == Expire(t) \/ Subscribe(t) \/ Receive(t) \/ Unsubscribe(t)

\* What a client gets is the log, from a point in its tail: no line twice, none out
\* of order, and none skipped unless the client was so slow that its channel was
\* full (Write, Subscribe).
LogInOrder == \A t \in Task :
  LET l == listener[t]
      got == IF l.took = 0 THEN l.chan ELSE <<l.took>> \o l.chan
  IN /\ \A i \in 1 .. Len(got) - 1 : got[i] < got[i + 1]
     /\ l.on = "open" /\ t \notin missed /\ got # <<>> =>
          /\ \A i \in 1 .. Len(got) - 1 : got[i + 1] = got[i] + 1
          /\ got[Len(got)] = lines[t]

=============================================================================
