--------------------------- MODULE TaskLogProofs ---------------------------
(***************************************************************************)
(* Lemmas about TaskLog: what every operation on a log and its listener    *)
(* keeps.  Module HostRunnersProofs uses them.                             *)
(***************************************************************************)
EXTENDS TaskLog, SequenceTheorems, TLAPS

-----------------------------------------------------------------------------
(* The invariant.                                                          *)

Listener == [on : {"none", "open", "closed"}, chan : Seq(1 .. MaxLines),
             took : 0 .. MaxLines]

\* What a listener has, last and next, when n lines were written.
Rising(l, n) ==
  /\ \A i \in 1 .. Len(l.chan) - 1 : l.chan[i] < l.chan[i + 1]
  /\ \A i \in 1 .. Len(l.chan) : l.chan[i] <= n
  /\ l.took # 0 /\ l.chan # <<>> => l.took < l.chan[1]
  /\ l.took <= n

\* Nothing is missing up to line n.
UpTo(l, n) ==
  /\ \A i \in 1 .. Len(l.chan) - 1 : l.chan[i + 1] = l.chan[i] + 1
  /\ l.chan # <<>> => l.chan[Len(l.chan)] = n
  /\ l.took # 0 /\ l.chan # <<>> => l.chan[1] = l.took + 1
  /\ l.took # 0 /\ l.chan = <<>> => l.took = n

Follows(t) ==
  /\ Rising(listener[t], lines[t])
  /\ listener[t].on = "open" /\ t \notin missed => UpTo(listener[t], lines[t])

\* Who still waits for lines listens to a log that is live; one that is retired is closed.
Ends(t) ==
  /\ listener[t].on = "open" => shelf[t] = "live" /\ ~ closed[t]
  /\ shelf[t] = "retired" => closed[t]

LogInv == LogTypeOK /\ \A t \in Task : Follows(t) /\ Ends(t)

LEMMA LogTypes ==
  LogTypeOK <=> /\ shelf \in [Task -> {"none", "live", "retired"}]
                /\ lines \in [Task -> 0 .. MaxLines]
                /\ closed \in [Task -> BOOLEAN]
                /\ listener \in [Task -> Listener]
                /\ \A t \in Task : Len(listener[t].chan) <= ChanSize
                /\ missed \subseteq Task
BY DEF LogTypeOK, Listener

LEMMA Numbers == /\ MaxLines \in Nat /\ TailSize \in Nat \ {0}
                 /\ ChanSize \in Nat /\ TailSize <= ChanSize
BY LogAssumption

LEMMA SeqFacts ==
  ASSUME NEW S, NEW c \in Seq(S)
  PROVE  /\ Len(c) \in Nat /\ (c = <<>> <=> Len(c) = 0)
         /\ \A i \in 1 .. Len(c) : c[i] \in S
BY LenProperties, EmptySeq, ElementOfSeq

-----------------------------------------------------------------------------
(* One listener, one log.                                                  *)

\* The listener changes only by being closed.
LEMMA ShutKeeps ==
  ASSUME NEW l \in Listener, NEW n \in Nat
  PROVE  /\ Shut(l) \in Listener /\ Shut(l).on # "open"
         /\ Shut(l).chan = l.chan /\ Shut(l).took = l.took
         /\ Rising(l, n) => Rising(Shut(l), n)
<1>1. Shut(l) \in Listener /\ Shut(l).on # "open" /\ Shut(l).chan = l.chan /\ Shut(l).took = l.took
  BY DEF Listener, Shut
<1> QED BY <1>1 DEF Rising

LEMMA IdleKeeps ==
  ASSUME NEW n \in Nat
  PROVE  /\ Idle \in Listener /\ Idle.on = "none" /\ Idle.chan = <<>> /\ Idle.took = 0
         /\ Rising(Idle, n)
<1>1. /\ Idle \in Listener /\ Idle.on = "none" /\ Idle.chan = <<>> /\ Idle.took = 0
  BY Numbers, EmptySeq DEF Idle, Listener
<1> QED BY <1>1, EmptySeq DEF Rising

\* A line that is written while there is room.
LEMMA AppendKeeps ==
  ASSUME NEW l \in Listener, NEW n \in Nat, n < MaxLines, Rising(l, n)
  PROVE  LET m == [l EXCEPT !.chan = Append(l.chan, n + 1)]
         IN /\ m \in Listener /\ Len(m.chan) = Len(l.chan) + 1
            /\ m.on = l.on
            /\ Rising(m, n + 1)
            /\ UpTo(l, n) => UpTo(m, n + 1)
<1> DEFINE m == [l EXCEPT !.chan = Append(l.chan, n + 1)]
<1> PICK c : c = l.chan OBVIOUS
<1> PICK d : d = Append(c, n + 1) OBVIOUS
<1>0. c \in Seq(1 .. MaxLines) /\ l.took \in Nat /\ n + 1 \in 1 .. MaxLines
  BY Numbers DEF Listener
<1>1. /\ d \in Seq(1 .. MaxLines) /\ Len(d) = Len(c) + 1 /\ Len(c) \in Nat
      /\ \A i \in 1 .. Len(c) : d[i] = c[i] /\ c[i] \in Nat
      /\ d[Len(c) + 1] = n + 1 /\ d # <<>>
      /\ c = <<>> <=> Len(c) = 0
  <2>1. \A i \in 1 .. Len(c) : c[i] \in Nat
    <3>1. \A i \in 1 .. Len(c) : c[i] \in 1 .. MaxLines BY <1>0, SeqFacts
    <3> QED BY <3>1
  <2> QED BY <1>0, <2>1, SeqFacts, AppendProperties
<1>2. m \in Listener /\ m.on = l.on /\ m.chan = d /\ m.took = l.took
  BY <1>0, <1>1 DEF Listener
<1> HIDE DEF m
<1>3. Rising(m, n + 1)
  <2>1. ASSUME NEW i \in 1 .. Len(d) - 1 PROVE d[i] < d[i + 1]
    <3>1. i \in 1 .. Len(c) BY <1>1
    <3>2. CASE i = Len(c) BY <1>0, <1>1, <3>1, <3>2 DEF Rising
    <3>3. CASE i # Len(c) BY <1>0, <1>1, <3>1, <3>3 DEF Rising
    <3> QED BY <3>2, <3>3
  <2>2. l.took # 0 => l.took < d[1]
    <3>1. CASE c = <<>> BY <1>0, <1>1, <3>1 DEF Rising
    <3>2. CASE c # <<>> BY <1>0, <1>1, <3>2 DEF Rising
    <3> QED BY <3>1, <3>2
  <2>3. l.took <= n + 1 BY <1>0 DEF Rising
  <2> QED BY <1>1, <1>2, <2>1, <2>2, <2>3, SMTT(30) DEF Rising
<1>4. ASSUME UpTo(l, n) PROVE UpTo(m, n + 1)
  <2>1. ASSUME NEW i \in 1 .. Len(d) - 1 PROVE d[i + 1] = d[i] + 1
    <3>1. i \in 1 .. Len(c) BY <1>1
    <3>2. CASE i = Len(c) BY <1>0, <1>1, <1>4, <3>1, <3>2 DEF UpTo
    <3>3. CASE i # Len(c) BY <1>0, <1>1, <1>4, <3>1, <3>3 DEF UpTo
    <3> QED BY <3>2, <3>3
  <2>2. l.took # 0 => d[1] = l.took + 1
    <3>1. CASE c = <<>> BY <1>0, <1>1, <1>4, <3>1 DEF UpTo
    <3>2. CASE c # <<>> BY <1>0, <1>1, <1>4, <3>2 DEF UpTo
    <3> QED BY <3>1, <3>2
  <2> QED BY <1>1, <1>2, <2>1, <2>2 DEF UpTo
<1> QED BY <1>1, <1>2, <1>3, <1>4 DEF m

\* A line that is taken.
LEMMA TakeKeeps ==
  ASSUME NEW l \in Listener, l.chan # <<>>, NEW n \in Nat, Rising(l, n)
  PROVE  LET m == [l EXCEPT !.chan = Tail(l.chan), !.took = Head(l.chan)]
         IN /\ m \in Listener /\ Len(m.chan) = Len(l.chan) - 1
            /\ m.on = l.on
            /\ Rising(m, n)
            /\ UpTo(l, n) => UpTo(m, n)
<1> DEFINE m == [l EXCEPT !.chan = Tail(l.chan), !.took = Head(l.chan)]
<1> PICK c : c = l.chan OBVIOUS
<1> PICK d : d = Tail(c) OBVIOUS
<1>0. c \in Seq(1 .. MaxLines) /\ c # <<>> BY DEF Listener
<1>1. /\ d \in Seq(1 .. MaxLines) /\ Len(d) = Len(c) - 1 /\ Len(c) \in Nat \ {0}
      /\ \A i \in 1 .. Len(c) : c[i] \in 1 .. MaxLines
      /\ \A i \in 1 .. Len(d) : d[i] = c[i + 1]
      /\ Head(c) = c[1]
      /\ d = <<>> <=> Len(d) = 0
  <2>1. d \in Seq(1 .. MaxLines) BY <1>0, HeadTailProperties
  <2>2. \A i \in 1 .. Len(d) : d[i] = c[i + 1] BY <1>0, HeadTailProperties
  <2>3. Len(d) = Len(c) - 1 BY <1>0, HeadTailProperties
  <2>4. Head(c) = c[1] OBVIOUS
  <2>5. Len(c) \in Nat \ {0} BY <1>0, SeqFacts
  <2> QED BY <1>0, <2>1, <2>2, <2>3, <2>4, <2>5, SeqFacts
<1>2. c[1] \in 1 .. MaxLines BY <1>1
<1>3. m \in Listener /\ m.on = l.on /\ m.chan = d /\ m.took = c[1]
  <2>1. m = [l EXCEPT !.chan = d, !.took = c[1]] BY <1>1
  <2>2. c[1] \in 0 .. MaxLines BY <1>2
  <2> HIDE DEF m
  <2> QED BY <1>1, <2>1, <2>2 DEF Listener
<1> HIDE DEF m
<1>4. Rising(m, n)
  <2>1. ASSUME NEW i \in 1 .. Len(d) - 1 PROVE d[i] < d[i + 1]
    BY <1>0, <1>1 DEF Rising
  <2>2. \A i \in 1 .. Len(d) : d[i] <= n
    BY <1>0, <1>1 DEF Rising
  <2>3. c[1] <= n BY <1>1 DEF Rising
  <2>4. d # <<>> => c[1] < d[1] BY <1>1 DEF Rising
  <2> QED BY <1>1, <1>3, <2>1, <2>2, <2>3, <2>4 DEF Rising
<1>5. ASSUME UpTo(l, n) PROVE UpTo(m, n)
  <2>1. ASSUME NEW i \in 1 .. Len(d) - 1 PROVE d[i + 1] = d[i] + 1
    BY <1>0, <1>1, <1>5 DEF UpTo
  <2>2. d # <<>> => d[Len(d)] = n /\ d[1] = c[1] + 1
    BY <1>0, <1>1, <1>5 DEF UpTo
  <2>3. d = <<>> => c[1] = n BY <1>0, <1>1, <1>5 DEF UpTo
  <2> QED BY <1>1, <1>3, <2>1, <2>2, <2>3 DEF UpTo
<1> QED BY <1>1, <1>3, <1>4, <1>5 DEF m

\* The tail, which is what a listener begins with.
LEMMA TailIsRecent ==
  ASSUME LogTypeOK, NEW t \in Task, NEW on \in {"open", "closed"}
  PROVE  LET m == [Idle EXCEPT !.on = on, !.chan = TailLines(t)]
         IN /\ m \in Listener /\ Len(m.chan) <= ChanSize /\ m.on = on
            /\ Rising(m, lines[t]) /\ UpTo(m, lines[t])
<1> DEFINE n == lines[t]
           s == IF n > TailSize THEN n - TailSize ELSE 0
           d == TailLines(t)
           m == [Idle EXCEPT !.on = on, !.chan = d]
<1>1. n \in Nat /\ n <= MaxLines /\ s \in Nat /\ n - s \in Nat /\ n - s <= TailSize
  BY Numbers, LogTypes
<1>2. d = [i \in 1 .. n - s |-> s + i] BY DEF TailLines
<1> HIDE DEF n, s, d
<1>3. /\ d \in Seq(1 .. MaxLines) /\ Len(d) = n - s /\ (d = <<>> <=> Len(d) = 0)
      /\ \A i \in 1 .. Len(d) : d[i] = s + i
  <2>1. \A i \in 1 .. n - s : s + i \in 1 .. MaxLines BY <1>1, Numbers
  <2>2. d \in Seq(1 .. MaxLines)
    <3>1. d \in [1 .. n - s -> 1 .. MaxLines] BY <1>2, <2>1
    <3> QED BY <1>1, <3>1, SeqDef
  <2>3. Len(d) = n - s BY <1>1, <1>2, <2>2, LenProperties
  <2> QED BY <1>1, <1>2, <2>2, <2>3, SeqFacts
<1>4. m \in Listener /\ m.on = on /\ m.chan = d /\ m.took = 0
  <2>1. 0 \in 0 .. MaxLines BY Numbers
  <2> QED BY <1>3, <2>1 DEF Listener, Idle
<1> HIDE DEF m
<1>5. Rising(m, n) BY <1>1, <1>3, <1>4, SMTT(30) DEF Rising
<1>6. UpTo(m, n) BY <1>1, <1>3, <1>4 DEF UpTo
<1>7. Len(d) <= ChanSize BY <1>1, <1>3, Numbers
<1> QED BY <1>4, <1>5, <1>6, <1>7 DEF m, d, n

-----------------------------------------------------------------------------
(* The operations.                                                         *)

\* The step is of the log of t: every other log stays as it is.
LEMMA OneLog ==
  ASSUME LogInv, NEW t \in Task, LogTypeOK', Follows(t)', Ends(t)',
         \A s \in Task \ {t} : /\ shelf'[s] = shelf[s] /\ lines'[s] = lines[s]
                               /\ closed'[s] = closed[s] /\ listener'[s] = listener[s]
                               /\ s \in missed' <=> s \in missed
  PROVE  LogInv'
<1>1. ASSUME NEW s \in Task \ {t} PROVE Follows(s)' /\ Ends(s)'
  <2>1. Follows(s) /\ Ends(s) BY DEF LogInv
  <2> QED BY <2>1 DEF Follows, Ends
<1> QED BY <1>1 DEF LogInv

LEMMA PutKeeps ==
  ASSUME LogInv, NEW t \in Task, PutLog(t)
  PROVE  LogInv'
<1>1. LogTypeOK /\ Follows(t) /\ Ends(t) BY DEF LogInv
<1>2. LogTypeOK' BY <1>1, LogTypes DEF LogTypeOK, PutLog
<1>3. Follows(t)' BY <1>1 DEF Follows, PutLog
<1>4. Ends(t)' BY <1>1, LogTypes DEF Ends, PutLog
<1> QED BY <1>1, <1>2, <1>3, <1>4, OneLog, LogTypes DEF PutLog

LEMMA CloseKeeps ==
  ASSUME LogInv, NEW t \in Task, CloseLog(t), UNCHANGED <<lines, missed>>,
         UNCHANGED shelf \/ shelf' = [shelf EXCEPT ![t] = "retired"]
  PROVE  LogInv'
<1>1. LogTypeOK /\ Follows(t) /\ Ends(t) BY DEF LogInv
<1>2. listener[t] \in Listener /\ lines[t] \in Nat BY <1>1, LogTypes, Numbers
<1> DEFINE l == Shut(listener[t])
<1>3. /\ l \in Listener /\ l.on # "open" /\ l.chan = listener[t].chan
      /\ Rising(l, lines[t])
  BY <1>1, <1>2, ShutKeeps DEF Follows
<1>4. /\ listener' = [listener EXCEPT ![t] = l]
      /\ closed' = [closed EXCEPT ![t] = TRUE]
  BY DEF CloseLog
<1> HIDE DEF l
<1>5. listener' \in [Task -> Listener] /\ closed' \in [Task -> BOOLEAN]
      /\ shelf' \in [Task -> {"none", "live", "retired"}]
  BY <1>1, <1>3, <1>4, LogTypes
<1>6. \A s \in Task : Len(listener'[s].chan) <= ChanSize
  BY <1>1, <1>3, <1>4, LogTypes
<1>7. LogTypeOK'
  BY <1>1, <1>5, <1>6, LogTypes DEF LogTypeOK, Listener
<1>8. Follows(t)' /\ Ends(t)'
  BY <1>1, <1>3, <1>4, LogTypes DEF Follows, Ends
<1> QED BY <1>1, <1>4, <1>7, <1>8, OneLog, LogTypes

LEMMA EndKeeps ==
  ASSUME LogInv, NEW t \in Task, EndLog(t)
  PROVE  LogInv'
BY CloseKeeps DEF EndLog

LEMMA RetireKeeps ==
  ASSUME LogInv, NEW t \in Task, RetireLog(t)
  PROVE  LogInv'
<1>1. CASE UNCHANGED logVars
  BY <1>1 DEF logVars, LogInv, LogTypeOK, Follows, Ends
<1> QED BY <1>1, CloseKeeps DEF RetireLog

LEMMA WriteKeeps ==
  ASSUME LogInv, NEW t \in Task, lines[t] < MaxLines, WriteLine(t)
  PROVE  LogInv'
<1> DEFINE l == listener[t]
           n == lines[t]
           more == [l EXCEPT !.chan = Append(l.chan, n + 1)]
<1>1. LogTypeOK /\ Follows(t) /\ Ends(t) BY DEF LogInv
<1>2. l \in Listener /\ n \in Nat /\ Rising(l, n) /\ Len(l.chan) <= ChanSize
  BY <1>1, LogTypes, Numbers DEF Follows
<1>3. /\ more \in Listener /\ Len(more.chan) = Len(l.chan) + 1 /\ more.on = l.on
      /\ Rising(more, n + 1) /\ (UpTo(l, n) => UpTo(more, n + 1))
  BY <1>2, AppendKeeps
<1>4. Rising(l, n + 1)
  <2>1. l.chan \in Seq(1 .. MaxLines) /\ l.took \in Nat BY <1>2, Numbers DEF Listener
  <2>2. \A i \in 1 .. Len(l.chan) : l.chan[i] \in 1 .. MaxLines BY <2>1, SeqFacts
  <2> QED BY <1>2, <2>1, <2>2 DEF Rising
<1>5. Len(l.chan) \in Nat BY <1>2, SeqFacts DEF Listener
<1>6. PICK m \in Listener :
        /\ listener' = [listener EXCEPT ![t] = m]
        /\ Len(m.chan) <= ChanSize /\ m.on = l.on /\ Rising(m, n + 1)
        /\ l.on = "open" /\ t \notin missed' /\ UpTo(l, n) => UpTo(m, n + 1)
        /\ t \in missed => t \in missed'
  <2>1. CASE l.on # "open" \/ Len(l.chan) = ChanSize
    <3>1. listener' = [listener EXCEPT ![t].chan = l.chan] BY <2>1 DEF WriteLine
    <3>2. [l EXCEPT !.chan = l.chan] = l BY <1>2 DEF Listener
    <3>3. listener' = [listener EXCEPT ![t] = l] BY <3>1, <3>2
    <3>4. l.on = "open" => t \in missed' BY <2>1 DEF WriteLine
    <3>5. t \in missed => t \in missed' BY DEF WriteLine
    <3> QED BY <1>2, <1>4, <3>3, <3>4, <3>5
  <2>2. CASE ~ (l.on # "open" \/ Len(l.chan) = ChanSize)
    <3>1. listener' = [listener EXCEPT ![t].chan = Append(l.chan, n + 1)]
      BY <2>2 DEF WriteLine
    <3>2. listener' = [listener EXCEPT ![t] = more] BY <3>1
    <3>3. UNCHANGED missed BY <2>2 DEF WriteLine
    <3>4. Len(more.chan) <= ChanSize BY <1>2, <1>3, <1>5, <2>2, Numbers
    <3> HIDE DEF more
    <3> QED BY <1>3, <3>2, <3>3, <3>4
  <2> QED BY <2>1, <2>2
<1>7. /\ lines' = [lines EXCEPT ![t] = n + 1] /\ UNCHANGED <<shelf, closed>>
      /\ missed' \subseteq Task /\ \A s \in Task \ {t} : s \in missed' <=> s \in missed
  BY <1>1, LogTypes DEF WriteLine
<1>8. lines' \in [Task -> 0 .. MaxLines] BY <1>1, <1>2, <1>7, LogTypes, Numbers
<1>9. LogTypeOK'
  <2>1. listener' \in [Task -> Listener] BY <1>1, <1>6, LogTypes
  <2>2. \A s \in Task : Len(listener'[s].chan) <= ChanSize BY <1>1, <1>6, LogTypes
  <2> QED BY <1>1, <1>7, <1>8, <2>1, <2>2, LogTypes DEF LogTypeOK, Listener
<1>10. listener'[t] = m /\ lines'[t] = n + 1 /\ \A s \in Task \ {t} :
         listener'[s] = listener[s] /\ lines'[s] = lines[s]
  BY <1>1, <1>6, <1>7, LogTypes
<1>11. Follows(t)'
  <2>1. Rising(m, n + 1) BY <1>6
  <2>2. m.on = "open" /\ t \notin missed' => UpTo(m, n + 1) BY <1>1, <1>6 DEF Follows
  <2> QED BY <1>10, <2>1, <2>2 DEF Follows
<1>12. Ends(t)' BY <1>1, <1>6, <1>7, <1>10 DEF Ends
<1> QED BY <1>7, <1>9, <1>10, <1>11, <1>12, OneLog

\* The client and the retention.
LEMMA ReadingKeeps ==
  ASSUME LogInv, NEW t \in Task, Reading(t)
  PROVE  LogInv'
<1>1. LogTypeOK /\ Follows(t) /\ Ends(t) BY DEF LogInv
<1>2. listener[t] \in Listener /\ lines[t] \in Nat /\ Len(listener[t].chan) <= ChanSize
  BY <1>1, LogTypes, Numbers
<1>3. CASE Expire(t)
  <2>1. LogTypeOK' BY <1>1, <1>3, LogTypes DEF LogTypeOK, Expire
  <2>2. Follows(t)' BY <1>1, <1>3 DEF Follows, Expire
  <2>3. Ends(t)' BY <1>1, <1>3, LogTypes DEF Ends, Expire
  <2> QED BY <1>1, <1>3, <2>1, <2>2, <2>3, OneLog, LogTypes DEF Expire
<1>4. ASSUME NEW m \in Listener, listener' = [listener EXCEPT ![t] = m],
             Len(m.chan) <= ChanSize, Rising(m, lines[t]),
             m.on = "open" => /\ shelf[t] = "live" /\ ~ closed[t]
                              /\ t \notin missed' => UpTo(m, lines[t]),
             UNCHANGED <<shelf, lines, closed>>,
             missed' \subseteq Task, \A s \in Task \ {t} : s \in missed' <=> s \in missed
      PROVE  LogInv'
  <2>1. listener' \in [Task -> Listener] BY <1>1, <1>4, LogTypes
  <2>2. \A s \in Task : Len(listener'[s].chan) <= ChanSize BY <1>1, <1>4, LogTypes
  <2>3. LogTypeOK' BY <1>1, <1>4, <2>1, <2>2, LogTypes DEF LogTypeOK, Listener
  <2>4. listener'[t] = m /\ \A s \in Task \ {t} : listener'[s] = listener[s]
    BY <1>1, <1>4, LogTypes
  <2>5. Follows(t)' BY <1>4, <2>4 DEF Follows
  <2>6. Ends(t)' BY <1>1, <1>4, <2>4 DEF Ends
  <2> QED BY <1>4, <2>3, <2>4, <2>5, <2>6, OneLog
<1>5. missed \subseteq Task BY <1>1, LogTypes
<1>6. /\ Idle \in Listener /\ Idle.on = "none" /\ Len(Idle.chan) <= ChanSize
      /\ Rising(Idle, lines[t])
  BY <1>2, IdleKeeps, EmptySeq, Numbers
<1>7. CASE Subscribe(t)
  <2>1. PICK on \in {"open", "closed"} :
          /\ listener' = [listener EXCEPT ![t] =
               [Idle EXCEPT !.on = on, !.chan = TailLines(t)]]
          /\ on = "open" => ~ closed[t]
    BY <1>7 DEF Subscribe
  <2> DEFINE m == [Idle EXCEPT !.on = on, !.chan = TailLines(t)]
  <2>2. /\ m \in Listener /\ Len(m.chan) <= ChanSize /\ m.on = on
        /\ Rising(m, lines[t]) /\ UpTo(m, lines[t])
    BY <1>1, TailIsRecent
  <2>3. listener' = [listener EXCEPT ![t] = m] BY <2>1
  <2> HIDE DEF m
  <2>4. on = "open" => shelf[t] = "live"
    BY <1>1, <1>7, <2>1, LogTypes DEF Ends, Subscribe
  <2> QED BY <1>4, <1>5, <1>7, <2>1, <2>2, <2>3, <2>4 DEF Subscribe
<1>8. CASE Receive(t)
  <2>1. /\ UNCHANGED <<shelf, lines, closed>> /\ missed' \subseteq missed
        /\ \A s \in Task \ {t} : s \in missed' <=> s \in missed
        /\ t \in missed /\ t \notin missed' => listener'[t] = Idle
    BY <1>8 DEF Receive
  <2>2. CASE listener[t].chan # <<>> /\ listener' = [listener EXCEPT ![t] =
          [listener[t] EXCEPT !.chan = Tail(@), !.took = Head(listener[t].chan)]]
    <3> DEFINE m == [listener[t] EXCEPT !.chan = Tail(listener[t].chan),
                                        !.took = Head(listener[t].chan)]
    <3>1. /\ m \in Listener /\ Len(m.chan) = Len(listener[t].chan) - 1
          /\ m.on = listener[t].on /\ Rising(m, lines[t])
          /\ UpTo(listener[t], lines[t]) => UpTo(m, lines[t])
      BY <1>1, <1>2, <2>2, TakeKeeps DEF Follows
    <3>2. listener' = [listener EXCEPT ![t] = m] BY <2>2
    <3> HIDE DEF m
    <3>3. Len(m.chan) <= ChanSize
      <4>1. Len(listener[t].chan) \in Nat BY <1>2, SeqFacts DEF Listener
      <4> QED BY <1>2, <3>1, <4>1, Numbers
    <3>4. listener'[t] = m BY <1>1, <3>2, LogTypes
    <3>5. ASSUME m.on = "open"
          PROVE  /\ shelf[t] = "live" /\ ~ closed[t]
                 /\ t \notin missed' => UpTo(m, lines[t])
      <4>1. shelf[t] = "live" /\ ~ closed[t] BY <1>1, <3>1, <3>5 DEF Ends
      <4>2. m # Idle BY <1>6, <3>5
      <4> QED BY <1>1, <2>1, <3>1, <3>4, <3>5, <4>1, <4>2 DEF Follows
    <3> QED BY <1>4, <1>5, <2>1, <3>1, <3>2, <3>3, <3>5
  <2>3. CASE listener' = [listener EXCEPT ![t] = Idle]
    BY <1>4, <1>5, <1>6, <2>1, <2>3
  <2> QED BY <1>8, <2>2, <2>3 DEF Receive
<1>9. CASE Unsubscribe(t)
  BY <1>4, <1>5, <1>6, <1>9 DEF Unsubscribe
<1> QED BY <1>3, <1>7, <1>8, <1>9 DEF Reading

\* The agent's process dies, its logs with it.
LEMMA ForgetKeeps ==
  ASSUME shelf' = [t \in Task |-> "none"], lines' = [t \in Task |-> 0],
         closed' = [t \in Task |-> FALSE], listener' = [t \in Task |-> Idle], missed' = {}
  PROVE  LogInv'
<1>1. /\ Idle \in Listener /\ Idle.on = "none" /\ Len(Idle.chan) <= ChanSize
      /\ Rising(Idle, 0)
  BY IdleKeeps, EmptySeq, Numbers
<1>2. LogTypeOK' BY <1>1, Numbers DEF LogTypeOK, Listener
<1>3. \A t \in Task : Follows(t)' /\ Ends(t)' BY <1>1 DEF Follows, Ends
<1> QED BY <1>2, <1>3 DEF LogInv

LEMMA LogInitHolds ==
  ASSUME LogInit
  PROVE  LogInv
<1>1. /\ Idle \in Listener /\ Idle.on = "none" /\ Len(Idle.chan) <= ChanSize
      /\ Rising(Idle, 0)
  BY IdleKeeps, EmptySeq, Numbers
<1>2. LogTypeOK BY <1>1, Numbers DEF LogInit, LogTypeOK, Listener
<1>3. \A t \in Task : Follows(t) /\ Ends(t) BY <1>1 DEF LogInit, Follows, Ends
<1> QED BY <1>2, <1>3 DEF LogInv

LEMMA LogUnchanged ==
  ASSUME LogInv, UNCHANGED logVars
  PROVE  LogInv'
BY DEF logVars, LogInv, LogTypeOK, Follows, Ends

\* What a listener took last and what waits for it, in one sequence.
LEMMA LogInvInOrder ==
  ASSUME LogInv
  PROVE  LogInOrder
<1> SUFFICES ASSUME NEW t \in Task
             PROVE  LET l == listener[t]
                        got == IF l.took = 0 THEN l.chan ELSE <<l.took>> \o l.chan
                    IN /\ \A i \in 1 .. Len(got) - 1 : got[i] < got[i + 1]
                       /\ l.on = "open" /\ t \notin missed /\ got # <<>> =>
                            /\ \A i \in 1 .. Len(got) - 1 : got[i + 1] = got[i] + 1
                            /\ got[Len(got)] = lines[t]
  BY DEF LogInOrder
<1>0. Follows(t) /\ LogTypeOK BY DEF LogInv
<1> PICK l : l = listener[t] OBVIOUS
<1> PICK c : c = l.chan OBVIOUS
<1>1. /\ l \in Listener /\ Rising(l, lines[t])
      /\ l.on = "open" /\ t \notin missed => UpTo(l, lines[t])
  BY <1>0, LogTypes DEF Follows
<1>2. /\ c \in Seq(1 .. MaxLines) /\ Len(c) \in Nat /\ (c = <<>> <=> Len(c) = 0)
      /\ l.took \in Nat /\ c \in Seq(Nat)
  BY <1>1, SeqFacts, Numbers, SeqMonotonic DEF Listener
<1>3. CASE l.took = 0
  BY <1>1, <1>2, <1>3 DEF Rising, UpTo
<1>4. CASE l.took # 0
  <2> PICK g : g = <<l.took>> \o c OBVIOUS
  <2>1. /\ Len(g) = Len(c) + 1 /\ g[1] = l.took
        /\ \A i \in 1 .. Len(c) : g[i + 1] = c[i]
    <3>1. <<l.took>> \in Seq(Nat) /\ Len(<<l.took>>) = 1 BY <1>2
    <3>2. /\ Len(g) = 1 + Len(c)
          /\ \A i \in 1 .. 1 + Len(c) : g[i] = IF i <= 1 THEN <<l.took>>[i] ELSE c[i - 1]
      BY <1>2, <3>1, ConcatProperties
    <3> QED BY <1>2, <3>2
  <2>2. ASSUME NEW i \in 1 .. Len(g) - 1 PROVE g[i] < g[i + 1]
    <3>1. CASE i = 1 BY <1>1, <1>2, <1>4, <2>1, <3>1 DEF Rising
    <3>2. CASE i # 1
      <4>1. i - 1 \in 1 .. Len(c) - 1 BY <1>2, <2>1, <3>2
      <4>2. g[i] = c[i - 1] /\ g[i + 1] = c[(i - 1) + 1] BY <1>2, <2>1, <4>1
      <4> QED BY <1>1, <4>1, <4>2 DEF Rising
    <3> QED BY <3>1, <3>2
  <2>3. ASSUME UpTo(l, lines[t])
        PROVE  /\ \A i \in 1 .. Len(g) - 1 : g[i + 1] = g[i] + 1
               /\ g[Len(g)] = lines[t]
    <3>1. ASSUME NEW i \in 1 .. Len(g) - 1 PROVE g[i + 1] = g[i] + 1
      <4>1. CASE i = 1 BY <1>2, <1>4, <2>1, <2>3, <4>1 DEF UpTo
      <4>2. CASE i # 1
        <5>1. i - 1 \in 1 .. Len(c) - 1 BY <1>2, <2>1, <4>2
        <5>2. g[i] = c[i - 1] /\ g[i + 1] = c[(i - 1) + 1] BY <1>2, <2>1, <5>1
        <5> QED BY <2>3, <5>1, <5>2 DEF UpTo
      <4> QED BY <4>1, <4>2
    <3>2. g[Len(g)] = lines[t] BY <1>2, <1>4, <2>1, <2>3 DEF UpTo
    <3> QED BY <3>1, <3>2
  <2> QED BY <1>1, <1>4, <2>2, <2>3
<1> QED BY <1>3, <1>4

=============================================================================
