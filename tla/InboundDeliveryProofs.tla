----------------------- MODULE InboundDeliveryProofs -----------------------
(***************************************************************************)
(* Theorems about InboundDelivery, for every set of keys, sessions and     *)
(* connections and every bound.  The inductive invariant IInv adds to the  *)
(* safety properties what the connections carry: who owns them, that their *)
(* frames are rows already inserted, and that no frame overtakes an        *)
(* earlier message of its session (NoOvertaking).  The last section shows  *)
(* step by step that InboundDelivery implements ReliableInbox.             *)
(***************************************************************************)
EXTENDS InboundDelivery, TLAPS

\* Numbers not yet given to a row have no row and were never written.
Rows == \A m \in Msgs : m >= next => state[m] = "none" /\ written[m] = 0

\* The map of connections holds a session's own connection, open only while
\* the daemon runs.
Connections ==
    /\ \A s \in Sessions : live[s] # None => owner[live[s]] = s
    /\ ~alive => flushing = {}

\* Messages a shim has handed to claude, or missed.
HadTurn == Forwarded \cup passed

\* What a shim missed on its connection had its turn.
Missed == \A c \in Shims : missed[c] \subseteq HadTurn

\* A channel_event carries an inserted row of the connection's session; a
\* channel_ack a message that was written to claude.
Frames ==
    \A c \in Shims :
      /\ \A i \in 1..Len(toShim[c]) :
           toShim[c][i] < next /\ Target[keyOf[toShim[c][i]]] = owner[c]
      /\ \A i \in 1..Len(toDaemon[c]) : written[toDaemon[c][i]] > 0

\* Rows still to be flushed are unacknowledged, and later than every frame
\* under way to their session's registered connection.
FlushOrder ==
    \A m \in flushing :
      /\ Outstanding(m)
      /\ \A c \in Shims :
           live[Target[keyOf[m]]] = c =>
             \A i \in 1..Len(toShim[c]) : toShim[c][i] < m

\* Every earlier message of a frame's session, if it has a row, was written to
\* claude or missed, or precedes the frame on the connection.
NoOvertaking ==
    \A c \in Shims : \A j \in 1..Len(toShim[c]) : \A m \in Msgs :
      m < toShim[c][j] /\ HasRow(m) /\ Target[keyOf[m]] = owner[c] =>
        \/ m \in HadTurn
        \/ \E i \in 1..(j - 1) : toShim[c][i] = m

IInv ==
    /\ TypeOK
    /\ Rows
    /\ Connections
    /\ Missed
    /\ Frames
    /\ FlushOrder
    /\ InOrderOnConnection
    /\ AckedWasForwarded
    /\ OnlyMissedAreStranded
    /\ NoOvertaking
    /\ OnlyMissedAreOvertaken

-----------------------------------------------------------------------------
(* Sequences                                                               *)

\* Appending keeps what a connection carries and adds the new message.
LEMMA CarriesAppend ==
    ASSUME NEW q \in Seq(Msgs), NEW m \in Msgs, NEW n \in Msgs, Carries(q, n) \/ n = m
    PROVE  Carries(Append(q, m), n)
<1>1. CASE Carries(q, n)
  BY <1>1 DEF Carries
<1>2. CASE n = m
  <2>1. Append(q, m)[Len(q) + 1] = m /\ Len(q) + 1 \in 1..Len(Append(q, m))
    OBVIOUS
  <2> QED BY <2>1, <1>2 DEF Carries
<1> QED BY <1>1, <1>2

\* Taking the head leaves every other message on the connection.
LEMMA CarriesTail ==
    ASSUME NEW q \in Seq(Msgs), q # <<>>, NEW n \in Msgs, Carries(q, n), n # Head(q)
    PROVE  Carries(Tail(q), n)
<1>1. PICK i \in 1..Len(q) : q[i] = n
  BY DEF Carries
<1>2. i # 1
  BY <1>1
<1>3. i - 1 \in 1..Len(Tail(q)) /\ Tail(q)[i - 1] = n
  BY <1>1, <1>2
<1> QED BY <1>3 DEF Carries

\* The elements of a sequence with one more at its end.
LEMMA AppendElements ==
    ASSUME NEW q \in Seq(Msgs), NEW m \in Msgs, NEW i \in 1..Len(Append(q, m))
    PROVE  \/ i \in 1..Len(q) /\ Append(q, m)[i] = q[i]
           \/ i = Len(q) + 1 /\ Append(q, m)[i] = m
OBVIOUS

\* The elements of a sequence without its first.
LEMMA TailElements ==
    ASSUME NEW q \in Seq(Msgs), q # <<>>
    PROVE  /\ Head(q) = q[1] /\ 1 \in 1..Len(q)
           /\ \A i \in 1..Len(Tail(q)) : i + 1 \in 1..Len(q) /\ Tail(q)[i] = q[i + 1]
OBVIOUS

\* The elements of a sequence without its first n.
LEMMA DropElements ==
    ASSUME NEW q \in Seq(Msgs), NEW n \in 0..Len(q)
    PROVE  LET r == SubSeq(q, n + 1, Len(q)) IN
           /\ r \in Seq(Msgs)
           /\ Len(r) = Len(q) - n
           /\ \A i \in 1..Len(r) : i + n \in 1..Len(q) /\ r[i] = q[i + n]
OBVIOUS

-----------------------------------------------------------------------------
(* Type correctness                                                        *)

\* The initial state is well typed.
LEMMA InitType == Init => TypeOK
<1> SUFFICES ASSUME Init PROVE TypeOK
  OBVIOUS
<1>1. \E k \in Keys : TRUE
  BY InboundAssumption
<1>2. (CHOOSE k \in Keys : TRUE) \in Keys
  BY <1>1
<1>3. \E s \in Sessions : TRUE
  BY <1>2, InboundAssumption
<1>4. (CHOOSE s \in Sessions : TRUE) \in Sessions
  BY <1>3
<1>5. <<>> \in Seq(Msgs)
  OBVIOUS
<1>6. next \in 1..(MaxMsgs + 1) /\ faults \in 0..MaxFaults
  BY InboundAssumption DEF Init
<1>7. keyOf \in [Msgs -> Keys] /\ owner \in [Shims -> Sessions]
  BY <1>2, <1>4 DEF Init
<1>8. toShim \in [Shims -> Seq(Msgs)] /\ toDaemon \in [Shims -> Seq(Msgs)]
  BY <1>5 DEF Init
<1>9. state \in [Msgs -> RowStates] /\ written \in [Msgs -> 0..2]
  BY DEF Init, RowStates
<1>10. /\ alive \in BOOLEAN
       /\ open \in [Shims -> BOOLEAN]
       /\ up \in [Shims -> BOOLEAN]
       /\ proc \in [Shims -> {"none", "starting", "listening"}]
       /\ missed \in [Shims -> SUBSET Msgs]
       /\ passed \in SUBSET Msgs
  BY DEF Init
<1>11. live \in [Sessions -> Shims \cup {None}] /\ flushing \in SUBSET Msgs
  BY DEF Init
<1> QED BY <1>6, <1>7, <1>8, <1>9, <1>10, <1>11 DEF TypeOK

\* What Write can do to the frames under way.
LEMMA WriteType ==
    ASSUME TypeOK, NEW s \in Sessions, NEW m \in Msgs, Write(s, m)
    PROVE  toShim' \in [Shims -> Seq(Msgs)]
BY DEF Write, Writable, TypeOK

\* Every step of the daemon, the sockets and the shims keeps the types.
LEMMA NextType == TypeOK /\ [Next]_vars => TypeOK'
<1> SUFFICES ASSUME TypeOK, [Next]_vars PROVE TypeOK'
  OBVIOUS
<1> USE InboundAssumption
<1>1. ASSUME NEW k \in Keys, Ingest(k) PROVE TypeOK'
  <2>1. toShim' \in [Shims -> Seq(Msgs)]
    BY <1>1, WriteType DEF Ingest
  <2>2. state' \in [Msgs -> RowStates]
    BY <1>1 DEF Ingest, TypeOK, RowStates
  <2>3. next' \in 1..(MaxMsgs + 1)
    BY <1>1 DEF Ingest, TypeOK, Msgs
  <2> QED BY <1>1, <2>1, <2>2, <2>3 DEF Ingest, TypeOK, history
<1>2. CASE FlushRow
  <2>1. PICK m \in flushing : /\ Write(Target[keyOf[m]], m)
                              /\ flushing' = flushing \ {m}
                              /\ \E sent \in BOOLEAN : state' = AfterSend(m, sent)
    BY <1>2 DEF FlushRow, SendResults
  <2>2. toShim' \in [Shims -> Seq(Msgs)]
    BY <2>1, WriteType DEF TypeOK
  <2>3. state' \in [Msgs -> RowStates]
    BY <2>1 DEF AfterSend, TypeOK, RowStates
  <2> QED BY <1>2, <2>1, <2>2, <2>3 DEF FlushRow, TypeOK, history
<1>3. ASSUME NEW c \in Shims, DaemonReadsAck(c) PROVE TypeOK'
  <2>1. state' \in [Msgs -> RowStates]
    BY <1>3 DEF DaemonReadsAck, Acknowledge, TypeOK, RowStates
  <2>2. toDaemon' \in [Shims -> Seq(Msgs)]
    BY <1>3 DEF DaemonReadsAck, TypeOK
  <2> QED BY <1>3, <2>1, <2>2 DEF DaemonReadsAck, TypeOK, history
<1>4. ASSUME NEW s \in Sessions, NEW source, SessionStart(s, source) PROVE TypeOK'
  BY <1>4 DEF SessionStart, TypeOK, RowStates, sockets, history
<1>5. ASSUME NEW c \in Shims, NEW s \in Sessions, NEW alright \in BOOLEAN,
             Register(c, s, alright), faults' \in 0..MaxFaults,
             proc' \in [Shims -> {"none", "starting", "listening"}]
      PROVE TypeOK'
  <2>1. toDaemon' \in [Shims -> Seq(Msgs)] /\ toShim' \in [Shims -> Seq(Msgs)]
    BY <1>5 DEF Register, TypeOK
  <2>2. open' \in [Shims -> BOOLEAN] /\ up' \in [Shims -> BOOLEAN]
    BY <1>5 DEF Register, TypeOK
  <2>3. live' \in [Sessions -> Shims \cup {None}] /\ owner' \in [Shims -> Sessions]
    BY <1>5 DEF Register, TypeOK
  <2>4. flushing' \in SUBSET Msgs /\ missed' \in [Shims -> SUBSET Msgs]
    BY <1>5 DEF Register, Pending, TypeOK
  <2> QED BY <1>5, <2>1, <2>2, <2>3, <2>4 DEF Register, TypeOK, database
<1>6. ASSUME NEW c \in Shims, NEW s \in Sessions, Hello(c, s) PROVE TypeOK'
  <2>1. faults' \in 0..MaxFaults
    BY <1>6 DEF Hello, TypeOK
  <2>2. proc' \in [Shims -> {"none", "starting", "listening"}]
    BY <1>6 DEF Hello, TypeOK
  <2> QED BY <1>5, <1>6, <2>1, <2>2 DEF Hello
<1>7. ASSUME NEW c \in Shims, NEW s \in Sessions, GhostHello(c, s) PROVE TypeOK'
  <2>1. faults' \in 0..MaxFaults /\ proc' \in [Shims -> {"none", "starting", "listening"}]
    BY <1>7 DEF GhostHello, TypeOK
  <2> QED BY <1>5, <1>7, <2>1 DEF GhostHello
<1>8. ASSUME NEW c \in Shims, ConnectionClosed(c) \/ HeartbeatTimeout(c) PROVE TypeOK'
  <2>1. Destroy(c) /\ faults' \in 0..MaxFaults
    BY <1>8 DEF ConnectionClosed, HeartbeatTimeout, TypeOK
  <2> QED BY <2>1 DEF Destroy, TypeOK, database
<1>9. ASSUME NEW c \in Shims, ShimSeesClose(c) \/ ShimDies(c) PROVE TypeOK'
  <2>1. CloseShimEnd(c) /\ faults' \in 0..MaxFaults
    BY <1>9 DEF ShimSeesClose, ShimDies, TypeOK
  <2>2. proc' \in [Shims -> {"none", "starting", "listening"}]
    BY <1>9 DEF ShimSeesClose, ShimDies, TypeOK
  <2>3. up' \in [Shims -> BOOLEAN] /\ toShim' \in [Shims -> Seq(Msgs)]
    BY <2>1 DEF CloseShimEnd, TypeOK
  <2>4. missed' \in [Shims -> SUBSET Msgs]
    BY <2>1 DEF CloseShimEnd, TypeOK
  <2> QED BY <2>1, <2>2, <2>3, <2>4 DEF CloseShimEnd, TypeOK, database
<1>10. ASSUME NEW c \in Shims, ShimForward(c) PROVE TypeOK'
  <2>1. Head(toShim[c]) \in Msgs /\ Tail(toShim[c]) \in Seq(Msgs)
    BY <1>10 DEF ShimForward, TypeOK
  <2>2. toShim' \in [Shims -> Seq(Msgs)] /\ toDaemon' \in [Shims -> Seq(Msgs)]
    BY <1>10, <2>1 DEF ShimForward, TypeOK
  <2>3. written' \in [Msgs -> 0..2] /\ passed' \in SUBSET Msgs
    BY <1>10, <2>1 DEF ShimForward, TypeOK
  <2> QED BY <1>10, <2>2, <2>3 DEF ShimForward, TypeOK, database
<1>11. ASSUME NEW c \in Shims, ReadWelcome(c) PROVE TypeOK'
  <2>1. PICK n \in 0..Len(toShim[c]) :
           LET unheard == {toShim[c][i] : i \in 1..n} IN
           /\ missed' = [missed EXCEPT ![c] = IF open[c] THEN @ \cup unheard ELSE @]
           /\ passed' = passed \cup {m \in unheard : written[m] = 0}
           /\ toShim' = [toShim EXCEPT ![c] = SubSeq(@, n + 1, Len(@))]
    BY <1>11 DEF ReadWelcome
  <2>2. toShim[c] \in Seq(Msgs) /\ {toShim[c][i] : i \in 1..n} \subseteq Msgs
    BY DEF TypeOK
  <2>3. SubSeq(toShim[c], n + 1, Len(toShim[c])) \in Seq(Msgs)
    BY <2>2, DropElements
  <2>4. toShim' \in [Shims -> Seq(Msgs)]
    BY <2>1, <2>3 DEF TypeOK
  <2>5. missed' \in [Shims -> SUBSET Msgs] /\ passed' \in SUBSET Msgs
    BY <2>1, <2>2 DEF TypeOK
  <2>6. proc' \in [Shims -> {"none", "starting", "listening"}]
    BY <1>11 DEF ReadWelcome, TypeOK
  <2> QED BY <1>11, <2>4, <2>5, <2>6 DEF ReadWelcome, TypeOK, database
<1>12. ASSUME NEW c \in Shims, NotifyFails(c) PROVE TypeOK'
  <2>1. Head(toShim[c]) \in Msgs /\ Tail(toShim[c]) \in Seq(Msgs)
    BY <1>12 DEF NotifyFails, TypeOK
  <2>2. toShim' \in [Shims -> Seq(Msgs)]
    BY <1>12, <2>1 DEF NotifyFails, TypeOK
  <2>3. missed' \in [Shims -> SUBSET Msgs] /\ passed' \in SUBSET Msgs
    BY <1>12, <2>1 DEF NotifyFails, TypeOK
  <2>4. faults' \in 0..MaxFaults
    BY <1>12 DEF NotifyFails, TypeOK
  <2> QED BY <1>12, <2>2, <2>3, <2>4 DEF NotifyFails, TypeOK, database
<1>13. ASSUME NEW c \in Shims, ShimGone(c) PROVE TypeOK'
  BY <1>13 DEF ShimGone, TypeOK, database, history
<1>14. CASE DaemonCrash
  <2>1. live' \in [Sessions -> Shims \cup {None}] /\ open' \in [Shims -> BOOLEAN]
    BY <1>14 DEF DaemonCrash
  <2>2. toDaemon' \in [Shims -> Seq(Msgs)] /\ missed' \in [Shims -> SUBSET Msgs]
    BY <1>14 DEF DaemonCrash
  <2>3. faults' \in 0..MaxFaults
    BY <1>14 DEF DaemonCrash, TypeOK
  <2>4. alive' \in BOOLEAN
    BY <1>14 DEF DaemonCrash
  <2> QED BY <1>14, <2>1, <2>2, <2>3, <2>4 DEF DaemonCrash, TypeOK, database
<1>15. CASE DaemonStart
  BY <1>15 DEF DaemonStart, TypeOK, database, sockets, history
<1>16. CASE UNCHANGED vars
  BY <1>16 DEF vars, TypeOK
<1> QED BY <1>1, <1>2, <1>3, <1>4, <1>6, <1>7, <1>8, <1>9, <1>10, <1>11, <1>12, <1>13,
           <1>14, <1>15, <1>16 DEF Next

\* Every reachable state is well typed: in particular a row is only ever in a
\* state that the schema's CHECK constraint admits.
THEOREM TypeCorrect == Safety => []TypeOK
BY InitType, NextType, PTL DEF Safety

-----------------------------------------------------------------------------
(* The inductive invariant                                                 *)

\* With no rows, no frames and no connections, IInv holds.
LEMMA InitIInv == Init => IInv
<1> SUFFICES ASSUME Init PROVE IInv
  OBVIOUS
<1>1. TypeOK
  BY InitType
<1>2. Rows /\ Connections /\ AckedWasForwarded /\ OnlyMissedAreOvertaken
  BY InboundAssumption DEF Init, Rows, Connections, AckedWasForwarded, OnlyMissedAreOvertaken, HasRow
<1>3. \A c \in Shims : toShim[c] = <<>> /\ toDaemon[c] = <<>>
  BY DEF Init
<1>4. Frames /\ InOrderOnConnection /\ NoOvertaking
  BY <1>3 DEF Frames, InOrderOnConnection, NoOvertaking
<1>5. FlushOrder /\ OnlyMissedAreStranded /\ Missed
  BY DEF Init, FlushOrder, OnlyMissedAreStranded, Missed
<1> QED BY <1>1, <1>2, <1>4, <1>5 DEF IInv

\* The effect of Write on each connection.
LEMMA WriteEffect ==
    ASSUME TypeOK, NEW s \in Sessions, NEW m \in Msgs, Write(s, m), NEW c \in Shims
    PROVE  /\ live[s] = c /\ open[c] /\ up[c] => toShim'[c] = Append(toShim[c], m)
           /\ ~(live[s] = c /\ open[c] /\ up[c]) => toShim'[c] = toShim[c]
BY InboundAssumption DEF Write, Writable, TypeOK

\* The row m of session s is written to the session's connection, as it is
\* inserted or as it is flushed: everything earlier of the session is settled
\* or already under way.
LEMMA WriteKeepsIInv ==
    ASSUME IInv, TypeOK', NEW s \in Sessions, NEW m \in Msgs, Write(s, m),
           m < next', next <= next', Target[keyOf'[m]] = s,
           \A n \in Msgs : n < next => keyOf'[n] = keyOf[n],
           \A n \in Msgs : n # m => state'[n] = state[n],
           state'[m] \in {"received", "delivered"},
           \A c \in Shims : live[s] = c => \A i \in 1..Len(toShim[c]) : toShim[c][i] < m,
           flushing' = flushing \ {m}, \A n \in flushing : m <= n,
           HasRow(m) \/ m = next,
           UNCHANGED <<alive, live, owner, open, up, toDaemon, written, missed, passed>>
    PROVE  IInv'
<1> USE DEF IInv
<1>1. \A n \in Msgs : HasRow(n) => n < next
  BY DEF Rows, HasRow, TypeOK, Msgs
<1>2. \A n \in Msgs : n # m /\ HasRow(n)' => HasRow(n) /\ keyOf'[n] = keyOf[n]
  BY <1>1 DEF HasRow
<1>3. \A c \in Shims : toShim[c] \in Seq(Msgs) /\ toDaemon[c] \in Seq(Msgs)
  BY DEF TypeOK
<1>4. Rows'
  BY DEF Rows, TypeOK, Msgs
<1>5. Connections' /\ Missed'
  BY DEF Connections, Missed, HadTurn, Forwarded
<1>6. AckedWasForwarded'
  BY DEF AckedWasForwarded, Forwarded
<1>7. Frames'
  <2> SUFFICES ASSUME NEW c \in Shims
      PROVE  /\ \A i \in 1..Len(toShim'[c]) :
                  toShim'[c][i] < next' /\ Target[keyOf'[toShim'[c][i]]] = owner[c]
             /\ \A i \in 1..Len(toDaemon[c]) : written[toDaemon[c][i]] > 0
    BY DEF Frames
  <2>1. \A i \in 1..Len(toDaemon[c]) : written[toDaemon[c][i]] > 0
    BY DEF Frames
  <2>2. ASSUME NEW i \in 1..Len(toShim[c])
        PROVE  toShim[c][i] < next' /\ Target[keyOf'[toShim[c][i]]] = owner[c]
    <3>1. toShim[c][i] \in Msgs
      BY <1>3
    <3>2. toShim[c][i] < next /\ Target[keyOf[toShim[c][i]]] = owner[c]
      BY DEF Frames
    <3> QED BY <3>1, <3>2 DEF TypeOK, Msgs
  <2>3. CASE live[s] = c /\ open[c] /\ up[c]
    <3>1. toShim'[c] = Append(toShim[c], m)
      BY <2>3, WriteEffect
    <3>2. owner[c] = s
      BY <2>3, InboundAssumption DEF Connections
    <3>3. ASSUME NEW i \in 1..Len(Append(toShim[c], m))
          PROVE  LET f == Append(toShim[c], m)[i] IN f < next' /\ Target[keyOf'[f]] = owner[c]
      <4>1. CASE i \in 1..Len(toShim[c]) /\ Append(toShim[c], m)[i] = toShim[c][i]
        BY <4>1, <2>2
      <4>2. CASE Append(toShim[c], m)[i] = m
        BY <4>2, <3>2
      <4> QED BY <4>1, <4>2, <1>3, AppendElements
    <3> QED BY <2>1, <3>1, <3>3
  <2>4. CASE ~(live[s] = c /\ open[c] /\ up[c])
    BY <2>1, <2>2, <2>4, WriteEffect
  <2> QED BY <2>3, <2>4
<1>8. InOrderOnConnection'
  <2> SUFFICES ASSUME NEW c \in Shims, NEW i \in 1..Len(toShim'[c]),
                      NEW j \in 1..Len(toShim'[c]), i < j
      PROVE  toShim'[c][i] < toShim'[c][j]
    BY DEF InOrderOnConnection
  <2>1. CASE live[s] = c /\ open[c] /\ up[c]
    <3>1. toShim'[c] = Append(toShim[c], m)
      BY <2>1, WriteEffect
    <3>2. i \in 1..Len(toShim[c]) /\ toShim'[c][i] = toShim[c][i]
      BY <3>1, <1>3
    <3>3. CASE j \in 1..Len(toShim[c])
      <4>1. toShim'[c][j] = toShim[c][j]
        BY <3>1, <3>3, <1>3
      <4> QED BY <3>2, <3>3, <4>1 DEF InOrderOnConnection
    <3>4. CASE j \notin 1..Len(toShim[c])
      <4>1. toShim'[c][j] = m
        BY <3>1, <3>4, <1>3, AppendElements
      <4> QED BY <2>1, <3>2, <4>1
    <3> QED BY <3>3, <3>4
  <2>2. CASE ~(live[s] = c /\ open[c] /\ up[c])
    <3>1. toShim'[c] = toShim[c]
      BY <2>2, WriteEffect
    <3> QED BY <3>1 DEF InOrderOnConnection
  <2> QED BY <2>1, <2>2
<1>9. FlushOrder'
  <2> SUFFICES ASSUME NEW n \in flushing, n # m
      PROVE  /\ Outstanding(n)'
             /\ \A c \in Shims : live[Target[keyOf'[n]]] = c =>
                  \A i \in 1..Len(toShim'[c]) : toShim'[c][i] < n
    BY DEF FlushOrder
  <2>1. n \in Msgs /\ Outstanding(n) /\ m < n
    BY DEF FlushOrder, TypeOK, Msgs
  <2>2. Outstanding(n)' /\ keyOf'[n] = keyOf[n]
    BY <2>1, <1>2 DEF Outstanding, HasRow
  <2> SUFFICES ASSUME NEW c \in Shims, live[Target[keyOf[n]]] = c, NEW i \in 1..Len(toShim'[c])
      PROVE  toShim'[c][i] < n
    BY <2>2
  <2>3. \A j \in 1..Len(toShim[c]) : toShim[c][j] < n
    BY DEF FlushOrder
  <2>4. CASE live[s] = c /\ open[c] /\ up[c]
    <3>1. toShim'[c] = Append(toShim[c], m)
      BY <2>4, WriteEffect
    <3> QED BY <2>1, <2>3, <3>1, <1>3, AppendElements
  <2>5. CASE ~(live[s] = c /\ open[c] /\ up[c])
    BY <2>3, <2>5, WriteEffect
  <2> QED BY <2>4, <2>5
<1>10. \A c \in Shims : \A n \in Msgs : Carries(toShim[c], n) => Carries(toShim'[c], n)
  <2> SUFFICES ASSUME NEW c \in Shims, NEW n \in Msgs, Carries(toShim[c], n)
      PROVE  Carries(toShim'[c], n)
    OBVIOUS
  <2>1. toShim'[c] = Append(toShim[c], m) \/ toShim'[c] = toShim[c]
    BY WriteEffect
  <2>2. Carries(Append(toShim[c], m), n)
    BY <1>3, CarriesAppend
  <2> QED BY <2>1, <2>2
<1>11. OnlyMissedAreStranded'
  <2> SUFFICES ASSUME NEW r \in Sessions, NEW c \in Shims, live[r] = c, open[c], up[c],
                      NEW n \in Msgs, Outstanding(n)', Target[keyOf'[n]] = r
      PROVE  \/ n \in flushing' \/ Carries(toShim'[c], n)
             \/ Carries(toDaemon[c], n) \/ n \in missed[c]
    BY DEF OnlyMissedAreStranded
  <2>1. CASE n = m
    <3>1. toShim'[c] = Append(toShim[c], m)
      BY <2>1, WriteEffect
    <3> QED BY <2>1, <3>1, <1>3, CarriesAppend
  <2>2. CASE n # m
    <3>1. Outstanding(n) /\ keyOf'[n] = keyOf[n]
      BY <2>2, <1>2 DEF Outstanding, HasRow
    <3>2. n \in flushing \/ Carries(toShim[c], n) \/ Carries(toDaemon[c], n) \/ n \in missed[c]
      BY <3>1 DEF OnlyMissedAreStranded
    <3> QED BY <2>2, <3>2, <1>10
  <2> QED BY <2>1, <2>2
<1>12. NoOvertaking'
  <2> SUFFICES ASSUME NEW c \in Shims, NEW j \in 1..Len(toShim'[c]), NEW n \in Msgs,
                      n < toShim'[c][j], HasRow(n)', Target[keyOf'[n]] = owner[c]
      PROVE  n \in HadTurn \/ \E i \in 1..(j - 1) : toShim'[c][i] = n
    BY DEF NoOvertaking, HadTurn, Forwarded
  <2>1. ASSUME j \in 1..Len(toShim[c]), toShim'[c][j] = toShim[c][j],
               \A i \in 1..Len(toShim[c]) : toShim'[c][i] = toShim[c][i]
        PROVE  n \in HadTurn \/ \E i \in 1..(j - 1) : toShim'[c][i] = n
    <3>1. toShim[c][j] < next /\ toShim[c][j] \in Msgs
      BY <2>1, <1>3 DEF Frames
    <3>2. HasRow(n) /\ keyOf'[n] = keyOf[n]
      BY <2>1, <3>1, <1>1, <1>2 DEF TypeOK, Msgs
    <3>3. n \in HadTurn \/ \E i \in 1..(j - 1) : toShim[c][i] = n
      BY <2>1, <3>2 DEF NoOvertaking
    <3> QED BY <2>1, <3>3
  <2>2. CASE live[s] = c /\ open[c] /\ up[c]
    <3>1. toShim'[c] = Append(toShim[c], m)
      BY <2>2, WriteEffect
    <3>2. \A i \in 1..Len(toShim[c]) :
             i \in 1..Len(toShim'[c]) /\ toShim'[c][i] = toShim[c][i]
      BY <3>1, <1>3
    <3>3. CASE j \in 1..Len(toShim[c])
      BY <2>1, <3>2, <3>3
    <3>4. CASE j \notin 1..Len(toShim[c])
      <4>1. j = Len(toShim[c]) + 1 /\ toShim'[c][j] = m
        BY <3>1, <3>4, <1>3, AppendElements
      <4>2. n # m /\ ~(m <= n)
        BY <4>1 DEF Msgs
      <4>3. HasRow(n) /\ Target[keyOf[n]] = s
        BY <4>2, <1>2, <2>2, InboundAssumption DEF Connections
      <4>4. CASE state[n] = "acknowledged"
        BY <4>4 DEF AckedWasForwarded, HadTurn
      <4>5. CASE Outstanding(n)
        <5>1. Carries(toShim[c], n) \/ Carries(toDaemon[c], n) \/ n \in missed[c]
          BY <4>2, <4>3, <4>5, <2>2 DEF OnlyMissedAreStranded
        <5>2. CASE Carries(toShim[c], n)
          BY <5>2, <3>2, <4>1, <1>3 DEF Carries
        <5>3. CASE Carries(toDaemon[c], n)
          BY <5>3 DEF Carries, Frames, HadTurn, Forwarded
        <5>4. CASE n \in missed[c]
          BY <5>4 DEF Missed
        <5> QED BY <5>1, <5>2, <5>3, <5>4
      <4> QED BY <4>3, <4>4, <4>5 DEF HasRow, Outstanding, TypeOK, RowStates
    <3> QED BY <3>3, <3>4
  <2>3. CASE ~(live[s] = c /\ open[c] /\ up[c])
    BY <2>1, <2>3, WriteEffect
  <2> QED BY <2>2, <2>3
<1>13. OnlyMissedAreOvertaken'
  <2> SUFFICES ASSUME NEW a \in Msgs, NEW b \in Msgs, a < b, SameSession(a, b)',
                      HasRow(a)', HasRow(b)', b \in Forwarded
      PROVE  a \in Forwarded \/ a \in passed
    BY DEF OnlyMissedAreOvertaken, Forwarded
  <2>1. HasRow(b) /\ keyOf'[b] = keyOf[b]
    BY <1>1, <1>2 DEF Rows, Forwarded, TypeOK, Msgs
  <2>2. HasRow(a) /\ keyOf'[a] = keyOf[a]
    BY <2>1, <1>1, <1>2 DEF TypeOK, Msgs
  <2> QED BY <2>1, <2>2 DEF OnlyMissedAreOvertaken, SameSession
<1> QED BY <1>4, <1>5, <1>6, <1>7, <1>8, <1>9, <1>11, <1>12, <1>13

\* ingestInbound: the new row is the newest, and is written at once to the
\* session's connection if that works.
LEMMA IngestKeepsIInv ==
    ASSUME IInv, TypeOK', NEW k \in Keys, Ingest(k)
    PROVE  IInv'
<1> USE DEF IInv
<1>1. next \in Msgs /\ Target[k] \in Sessions /\ next' = next + 1
  BY InboundAssumption DEF Ingest
<1>2. Write(Target[k], next) /\ keyOf'[next] = k
  BY <1>1 DEF Ingest, TypeOK
<1>3. /\ \A n \in Msgs : n < next => keyOf'[n] = keyOf[n]
      /\ \A n \in Msgs : n # next => state'[n] = state[n]
  BY <1>1 DEF Ingest, TypeOK, Msgs
<1>4. state'[next] \in {"received", "delivered"}
  BY <1>1 DEF Ingest, TypeOK
<1>5. \A c \in Shims : \A i \in 1..Len(toShim[c]) : toShim[c][i] < next
  BY DEF Frames
<1>6. flushing = {} /\ flushing' = flushing \ {next} /\ \A n \in flushing : next <= n
  BY DEF Ingest, Ready
<1>7. next < next' /\ next <= next'
  BY <1>1 DEF Msgs
<1>8. UNCHANGED <<alive, live, owner, open, up, toDaemon, written, missed, passed>>
  BY DEF Ingest, history
<1> QED BY <1>1, <1>2, <1>3, <1>4, <1>5, <1>6, <1>7, <1>8, WriteKeepsIInv

\* A turn of flushPendingForSession takes the row from "to be flushed" to "on
\* the connection", after every older row.
LEMMA FlushRowKeepsIInv ==
    ASSUME IInv, TypeOK', FlushRow
    PROVE  IInv'
<1> USE DEF IInv
<1>1. PICK m \in flushing :
         /\ FirstRow(m, flushing)
         /\ \E sent \in BOOLEAN : state' = AfterSend(m, sent)
         /\ Write(Target[keyOf[m]], m)
         /\ flushing' = flushing \ {m}
  BY DEF FlushRow, SendResults
<1> DEFINE s == Target[keyOf[m]]
<1>2. m \in Msgs /\ s \in Sessions /\ Outstanding(m)
  BY InboundAssumption DEF TypeOK, FlushOrder
<1>3. m < next /\ HasRow(m)
  BY <1>2 DEF Rows, Outstanding, HasRow, TypeOK, Msgs
<1>4. next' = next /\ keyOf' = keyOf
  BY DEF FlushRow
<1>5. \A n \in Msgs : n # m => state'[n] = state[n]
  BY <1>1, <1>2 DEF AfterSend, TypeOK
<1>6. state'[m] \in {"received", "delivered"}
  BY <1>1, <1>2 DEF AfterSend, TypeOK, Outstanding
<1>7. \A c \in Shims : live[s] = c => \A i \in 1..Len(toShim[c]) : toShim[c][i] < m
  BY <1>1 DEF FlushOrder
<1>8. \A n \in flushing : m <= n
  BY <1>1 DEF FirstRow
<1>9. UNCHANGED <<alive, live, owner, open, up, toDaemon, written, missed, passed>>
  BY DEF FlushRow, history
<1>10. next <= next'
  BY <1>4 DEF TypeOK
<1>11. Write(s, m) /\ flushing' = flushing \ {m} /\ Target[keyOf'[m]] = s
  BY <1>1, <1>4
<1> QED BY <1>2, <1>3, <1>4, <1>5, <1>6, <1>7, <1>8, <1>9, <1>10, <1>11, WriteKeepsIInv

\* Connections that lose their ends, and what was under way with them, keep the
\* invariant: the rows stay, and nothing is claimed of a broken connection.
LEMMA LossKeepsIInv ==
    ASSUME IInv, TypeOK', UNCHANGED <<next, state, keyOf, owner, written, passed>>,
           flushing' \subseteq flushing, ~alive' => flushing' = {},
           \A s \in Sessions : live'[s] \in {live[s], None},
           \A c \in Shims : toShim'[c] \in {toShim[c], <<>>} /\ toDaemon'[c] \in {toDaemon[c], <<>>},
           \A c \in Shims : missed'[c] \subseteq missed[c],
           \A s \in Sessions : \A c \in Shims : live'[s] = c /\ open'[c] /\ up'[c] =>
             /\ open[c] /\ up[c] /\ flushing' = flushing
             /\ toShim'[c] = toShim[c] /\ toDaemon'[c] = toDaemon[c] /\ missed'[c] = missed[c]
    PROVE  IInv'
<1> USE DEF IInv
<1>1. Rows' /\ Connections' /\ Missed'
  BY DEF Rows, Connections, Missed, HadTurn, Forwarded
<1>2. Frames' /\ InOrderOnConnection' /\ NoOvertaking'
  BY DEF Frames, InOrderOnConnection, NoOvertaking, HadTurn, Forwarded, HasRow
<1>3. FlushOrder'
  <2> SUFFICES ASSUME NEW m \in flushing', NEW c \in Shims, live'[Target[keyOf[m]]] = c,
                      NEW i \in 1..Len(toShim'[c])
      PROVE  toShim'[c][i] < m
    BY DEF FlushOrder, Outstanding
  <2>1. Target[keyOf[m]] \in Sessions /\ live[Target[keyOf[m]]] = c
    BY InboundAssumption DEF TypeOK
  <2>2. toShim'[c] = toShim[c]
    OBVIOUS
  <2> QED BY <2>1, <2>2 DEF FlushOrder
<1>4. AckedWasForwarded' /\ OnlyMissedAreOvertaken'
  BY DEF AckedWasForwarded, OnlyMissedAreOvertaken, Forwarded, HasRow, SameSession
<1>5. OnlyMissedAreStranded'
  <2> SUFFICES ASSUME NEW s \in Sessions, NEW c \in Shims, live'[s] = c, open'[c], up'[c],
                      NEW m \in Msgs, Outstanding(m), Target[keyOf[m]] = s
      PROVE  m \in flushing \/ Carries(toShim[c], m) \/ Carries(toDaemon[c], m) \/ m \in missed[c]
    BY DEF OnlyMissedAreStranded, Outstanding
  <2>1. live[s] = c /\ open[c] /\ up[c]
    BY InboundAssumption
  <2> QED BY <2>1 DEF OnlyMissedAreStranded
<1> QED BY <1>1, <1>2, <1>3, <1>4, <1>5

\* A destroyed connection is no longer registered, so nothing is owed on it.
LEMMA DestroyKeepsIInv ==
    ASSUME IInv, TypeOK', NEW c \in Shims, Ready, Destroy(c)
    PROVE  IInv'
<1>1. \A s \in Sessions : live'[s] \in {live[s], None} /\ live'[s] # c
  BY InboundAssumption DEF Destroy
<1>2. \A d \in Shims : d # c => toDaemon'[d] = toDaemon[d] /\ open'[d] = open[d]
  BY DEF Destroy, IInv, TypeOK
<1>3. toDaemon'[c] = <<>>
  BY DEF Destroy, IInv, TypeOK
<1>4. UNCHANGED <<next, state, keyOf, owner, written, passed, alive, flushing, up, toShim>>
  BY DEF Destroy, database
<1>5. ~alive' => flushing' = {}
  BY <1>4 DEF Ready
<1>6. missed'[c] = {} /\ \A d \in Shims : d # c => missed'[d] = missed[d]
  BY DEF Destroy, IInv, TypeOK
<1> QED BY <1>1, <1>2, <1>3, <1>4, <1>5, <1>6, LossKeepsIInv

\* A shim's end that goes away takes its unread frames along.
LEMMA ShimEndKeepsIInv ==
    ASSUME IInv, TypeOK', NEW c \in Shims, CloseShimEnd(c)
    PROVE  IInv'
<1>1. /\ up' = [up EXCEPT ![c] = FALSE]
      /\ toShim' = [toShim EXCEPT ![c] = <<>>]
      /\ missed' = [missed EXCEPT ![c] = {}]
      /\ UNCHANGED <<next, state, keyOf, owner, written, passed, alive, live, flushing, open,
                     toDaemon>>
  BY DEF CloseShimEnd, database
<1>2. \A d \in Shims : d # c => toShim'[d] = toShim[d] /\ up'[d] = up[d] /\ missed'[d] = missed[d]
  BY <1>1 DEF IInv, TypeOK
<1>3. toShim'[c] = <<>> /\ ~up'[c] /\ missed'[c] = {}
  BY <1>1 DEF IInv, TypeOK
<1>4. ~alive' => flushing' = {}
  BY <1>1 DEF IInv, Connections
<1> QED BY <1>1, <1>2, <1>3, <1>4, LossKeepsIInv

\* A crash forgets connections and the replay, never rows; what a shim that has
\* no connection does is not seen.
LEMMA DaemonKeepsIInv ==
    ASSUME IInv, TypeOK',
           DaemonCrash \/ DaemonStart \/ (\E c \in Shims : ShimGone(c)) \/ UNCHANGED vars
    PROVE  IInv'
<1>1. CASE DaemonCrash
  <2>1. /\ UNCHANGED <<next, state, keyOf, owner, written, passed, up, toShim>>
        /\ flushing' = {}
        /\ \A s \in Sessions : live'[s] = None
        /\ \A c \in Shims : toDaemon'[c] = <<>> /\ missed'[c] = {}
    BY <1>1 DEF DaemonCrash, database
  <2> QED BY <2>1, InboundAssumption, LossKeepsIInv
<1>2. CASE DaemonStart
  <2>1. UNCHANGED <<next, state, keyOf, owner, written, passed, missed, live, flushing, open, up,
                    toShim, toDaemon>>
        /\ alive'
    BY <1>2 DEF DaemonStart, database, sockets, history
  <2> QED BY <2>1, LossKeepsIInv
<1>3. CASE (\E c \in Shims : ShimGone(c)) \/ UNCHANGED vars
  <2>1. UNCHANGED <<next, state, keyOf, owner, written, passed, missed, alive, live, flushing, open,
                    up, toShim, toDaemon>>
    BY <1>3 DEF vars, ShimGone, database, history
  <2>2. ~alive' => flushing' = {}
    BY <2>1 DEF IInv, Connections
  <2> QED BY <2>1, <2>2, LossKeepsIInv
<1> QED BY <1>1, <1>2, <1>3

\* channel_ack: every acknowledgement on the wire is of a forwarded message.
LEMMA AckKeepsIInv ==
    ASSUME IInv, TypeOK', NEW c \in Shims, DaemonReadsAck(c)
    PROVE  IInv'
<1> USE DEF IInv
<1> DEFINE q == toDaemon[c]
           a == Head(q)
<1>1. q \in Seq(Msgs) /\ q # <<>> /\ a \in Msgs
  BY DEF DaemonReadsAck, TypeOK
<1>2. /\ toDaemon'[c] = Tail(q) /\ \A d \in Shims : d # c => toDaemon'[d] = toDaemon[d]
      /\ UNCHANGED <<next, keyOf, alive, live, flushing, owner, open, up, toShim, written, missed,
                     passed>>
  BY DEF DaemonReadsAck, TypeOK, history
<1>3. flushing = {}
  BY DEF DaemonReadsAck, Ready
<1>4. a \in Forwarded
  BY <1>1, TailElements DEF Frames, Forwarded
<1>5. /\ \A m \in Msgs : m # a => state'[m] = state[m]
      /\ Outstanding(a) => state'[a] = "acknowledged"
      /\ ~Outstanding(a) => state'[a] = state[a]
  BY <1>1 DEF DaemonReadsAck, Acknowledge, Outstanding, TypeOK
<1>6. \A m \in Msgs : HasRow(m)' <=> HasRow(m)
  BY <1>5 DEF HasRow, Outstanding
<1>7. \A m \in Msgs : Outstanding(m)' => Outstanding(m) /\ m # a
  BY <1>5 DEF Outstanding
<1>8. Rows'
  BY <1>2, <1>6 DEF Rows, HasRow
<1>9. Connections' /\ Missed'
  BY <1>2 DEF Connections, Missed, HadTurn, Forwarded
<1>10. Frames'
  <2> SUFFICES ASSUME NEW d \in Shims, NEW i \in 1..Len(toDaemon'[d])
      PROVE  written[toDaemon'[d][i]] > 0
    BY <1>2 DEF Frames
  <2>1. CASE d = c
    BY <2>1, <1>1, <1>2, TailElements DEF Frames
  <2>2. CASE d # c
    BY <2>2, <1>2 DEF Frames
  <2> QED BY <2>1, <2>2
<1>11. FlushOrder'
  BY <1>2, <1>3 DEF FlushOrder
<1>12. InOrderOnConnection'
  BY <1>2 DEF InOrderOnConnection
<1>13. AckedWasForwarded'
  BY <1>2, <1>4, <1>5 DEF AckedWasForwarded, Forwarded
<1>14. OnlyMissedAreStranded'
  <2> SUFFICES ASSUME NEW s \in Sessions, NEW d \in Shims, live[s] = d, open[d], up[d],
                      NEW m \in Msgs, Outstanding(m), m # a, Target[keyOf[m]] = s
      PROVE  Carries(toShim[d], m) \/ Carries(toDaemon'[d], m) \/ m \in missed[d]
    BY <1>2, <1>7 DEF OnlyMissedAreStranded
  <2>1. Carries(toShim[d], m) \/ Carries(toDaemon[d], m) \/ m \in missed[d]
    BY <1>3 DEF OnlyMissedAreStranded
  <2>2. Carries(toDaemon[d], m) => Carries(toDaemon'[d], m)
    BY <1>1, <1>2, CarriesTail
  <2> QED BY <2>1, <2>2
<1>15. NoOvertaking'
  BY <1>2, <1>6 DEF NoOvertaking, HadTurn, Forwarded
<1>16. OnlyMissedAreOvertaken'
  BY <1>2, <1>6 DEF OnlyMissedAreOvertaken, Forwarded, SameSession
<1> QED BY <1>8, <1>9, <1>10, <1>11, <1>12, <1>13, <1>14, <1>15, <1>16

\* The purge of a SessionStart takes rows away from one session only.
LEMMA SessionStartKeepsIInv ==
    ASSUME IInv, TypeOK', NEW s \in Sessions, NEW source, SessionStart(s, source)
    PROVE  IInv'
<1> USE DEF IInv
<1>1. flushing = {} /\ UNCHANGED <<next, keyOf, alive, live, flushing, owner, open, up, toShim,
                                   toDaemon, written, missed, passed>>
  BY DEF SessionStart, Ready, sockets, history
<1>2. \A m \in Msgs : state'[m] \in {"none", state[m]}
  BY DEF SessionStart, TypeOK
<1>3. \A m \in Msgs : /\ HasRow(m)' => HasRow(m)
                      /\ Outstanding(m)' => Outstanding(m)
  BY <1>2 DEF HasRow, Outstanding
<1>4. Rows' /\ Connections' /\ Missed' /\ Frames' /\ InOrderOnConnection'
  BY <1>1, <1>2 DEF Rows, Connections, Missed, HadTurn, Forwarded, Frames, InOrderOnConnection
<1>5. FlushOrder'
  BY <1>1 DEF FlushOrder
<1>6. AckedWasForwarded'
  BY <1>1, <1>2 DEF AckedWasForwarded, Forwarded
<1>7. OnlyMissedAreStranded'
  <2> SUFFICES ASSUME NEW r \in Sessions, NEW c \in Shims, live[r] = c, open[c], up[c],
                      NEW m \in Msgs, Outstanding(m)', Target[keyOf[m]] = r
      PROVE  m \in flushing \/ Carries(toShim[c], m) \/ Carries(toDaemon[c], m) \/ m \in missed[c]
    BY <1>1 DEF OnlyMissedAreStranded
  <2>1. Outstanding(m)
    BY <1>2 DEF Outstanding
  <2> QED BY <2>1 DEF OnlyMissedAreStranded
<1>8. NoOvertaking'
  BY <1>1, <1>2 DEF NoOvertaking, HadTurn, Forwarded, HasRow
<1>9. OnlyMissedAreOvertaken'
  BY <1>1, <1>2 DEF OnlyMissedAreOvertaken, Forwarded, SameSession, HasRow
<1> QED BY <1>4, <1>5, <1>6, <1>7, <1>8, <1>9

\* The hello handler: the rows to replay are exactly those still owed.
LEMMA RegisterKeepsIInv ==
    ASSUME IInv, TypeOK', NEW c \in Shims, NEW s \in Sessions, NEW alright \in BOOLEAN,
           Ready, Connects(c, s), Register(c, s, alright)
    PROVE  IInv'
<1> USE DEF IInv
<1>1. /\ UNCHANGED <<next, state, keyOf, alive, written, passed>> /\ alive /\ flushing = {}
      /\ flushing' = Pending(s)
  BY DEF Register, database, Ready
<1>2. /\ live'[s] = c /\ \A r \in Sessions : r # s => live'[r] = live[r]
      /\ owner'[c] = s /\ \A d \in Shims : d # c => owner'[d] = owner[d]
      /\ toShim'[c] = <<>> /\ \A d \in Shims : d # c => toShim'[d] = toShim[d]
  BY DEF Register, TypeOK
<1>3. /\ \A d \in Shims : toDaemon'[d] \in {<<>>, toDaemon[d]}
      /\ \A d \in Shims : d # c /\ d # live[s] => toDaemon'[d] = toDaemon[d]
      /\ \A d \in Shims : d # c /\ open'[d] => open[d] /\ d # live[s]
      /\ \A d \in Shims : d # c => up'[d] = up[d]
      /\ \A d \in Shims : missed'[d] \in {{}, missed[d]}
      /\ \A d \in Shims : d # c /\ d # live[s] => missed'[d] = missed[d]
  BY DEF Register, TypeOK
<1>4. \A r \in Sessions : r # s => live[r] # c
  <2>1. CASE Fresh(c)
    BY <2>1 DEF Fresh
  <2>2. CASE owner[c] = s
    BY <2>2, InboundAssumption DEF Connections
  <2> QED BY <2>1, <2>2 DEF Connects
<1>5. Rows' /\ AckedWasForwarded' /\ OnlyMissedAreOvertaken' /\ Missed'
  <2>1. Missed'
    BY <1>1, <1>3 DEF Missed, HadTurn, Forwarded
  <2> QED BY <1>1, <2>1 DEF Rows, AckedWasForwarded, OnlyMissedAreOvertaken, Forwarded, HasRow,
             SameSession
<1>6. Connections'
  <2>1. ASSUME NEW r \in Sessions, live'[r] # None PROVE owner'[live'[r]] = r
    <3>1. CASE r = s
      BY <3>1, <1>2
    <3>2. CASE r # s
      <4>1. live'[r] = live[r] /\ live[r] \in Shims /\ live[r] # c
        BY <2>1, <3>2, <1>2, <1>4 DEF TypeOK
      <4> QED BY <4>1, <1>2, <2>1 DEF Connections
    <3> QED BY <3>1, <3>2
  <2>2. alive'
    BY <1>1
  <2> QED BY <2>1, <2>2 DEF Connections
<1>7. Frames'
  <2> SUFFICES ASSUME NEW d \in Shims
      PROVE  /\ \A i \in 1..Len(toShim'[d]) :
                  toShim'[d][i] < next /\ Target[keyOf[toShim'[d][i]]] = owner'[d]
             /\ \A i \in 1..Len(toDaemon'[d]) : written[toDaemon'[d][i]] > 0
    BY <1>1 DEF Frames
  <2>1. \A i \in 1..Len(toDaemon'[d]) : written[toDaemon'[d][i]] > 0
    BY <1>3 DEF Frames
  <2> QED BY <2>1, <1>2 DEF Frames
<1>8. FlushOrder'
  <2> SUFFICES ASSUME NEW m \in Pending(s)
      PROVE  /\ Outstanding(m)
             /\ \A d \in Shims : live'[Target[keyOf[m]]] = d =>
                  \A i \in 1..Len(toShim'[d]) : toShim'[d][i] < m
    BY <1>1 DEF FlushOrder, Outstanding
  <2> QED BY <1>2 DEF Pending, Outstanding
<1>9. InOrderOnConnection'
  BY <1>2 DEF InOrderOnConnection
<1>10. NoOvertaking'
  BY <1>1, <1>2 DEF NoOvertaking, HadTurn, Forwarded, HasRow
<1>11. OnlyMissedAreStranded'
  <2> SUFFICES ASSUME NEW r \in Sessions, NEW d \in Shims, live'[r] = d, open'[d], up'[d],
                      NEW m \in Msgs, Outstanding(m), Target[keyOf[m]] = r
      PROVE  \/ m \in flushing' \/ Carries(toShim'[d], m)
             \/ Carries(toDaemon'[d], m) \/ m \in missed'[d]
    BY <1>1 DEF OnlyMissedAreStranded, Outstanding
  <2>1. CASE r = s
    BY <2>1, <1>1 DEF Pending, Outstanding
  <2>2. CASE r # s
    <3>1. live[r] = d /\ d # c
      BY <2>2, <1>2, <1>4
    <3>2. open[d] /\ up[d] /\ toShim'[d] = toShim[d] /\ toDaemon'[d] = toDaemon[d]
      BY <3>1, <1>2, <1>3
    <3>3. missed'[d] = missed[d]
      BY <3>1, <3>2, <1>3, <2>2
    <3> QED BY <3>1, <3>2, <3>3, <1>1 DEF OnlyMissedAreStranded
  <2> QED BY <2>1, <2>2
<1> QED BY <1>5, <1>6, <1>7, <1>8, <1>9, <1>10, <1>11

\* The shim takes the first n frames of its connection.
Drops(c, n) ==
    /\ Len(toShim'[c]) = Len(toShim[c]) - n
    /\ \A i \in 1..Len(toShim'[c]) : toShim'[c][i] = toShim[c][i + n]
    /\ \A d \in Shims : d # c => toShim'[d] = toShim[d]
    /\ UNCHANGED <<next, state, keyOf, alive, live, flushing, owner, open, up>>

\* It hands each of them to claude or misses it.
Takes(c, n) ==
    /\ Drops(c, n)
    /\ \A d \in Shims : d # c => toDaemon'[d] = toDaemon[d] /\ missed'[d] = missed[d]
    /\ \A m \in Forwarded : m \in Forwarded'
    /\ \A m \in Forwarded' : m \in Forwarded \/ \E i \in 1..n : toShim[c][i] = m
    /\ \A m \in HadTurn : m \in HadTurn'
    /\ \A i \in 1..n : toShim[c][i] \in HadTurn'
    /\ missed'[c] \subseteq HadTurn'
    /\ \A i \in 1..Len(toDaemon'[c]) : toDaemon'[c][i] \in Forwarded'
    /\ open[c] => \A i \in 1..n :
                    toShim[c][i] \in missed'[c] \/ Carries(toDaemon'[c], toShim[c][i])
    /\ \A m \in Msgs : Carries(toDaemon[c], m) => Carries(toDaemon'[c], m)
    /\ missed[c] \subseteq missed'[c]

\* Taking frames keeps the invariant: every older row of their session has had
\* its turn before.
LEMMA TakeKeepsIInv ==
    ASSUME IInv, TypeOK', NEW c \in Shims, NEW n \in 0..Len(toShim[c]), Takes(c, n)
    PROVE  IInv'
<1> USE DEF IInv, Takes, Drops
<1> DEFINE q == toShim[c]
<1>1. q \in Seq(Msgs) /\ toShim'[c] \in Seq(Msgs) /\ Len(q) \in Nat /\ n \in Nat
  BY DEF TypeOK
<1>2. \A i \in 1..Len(toShim'[c]) : i + n \in 1..Len(q) /\ toShim'[c][i] = q[i + n]
  BY <1>1
<1>3. \A i \in 1..n : i \in 1..Len(q) /\ q[i] \in Msgs
  BY <1>1
<1>4. ASSUME NEW d \in Shims, NEW i \in 1..Len(toShim'[d])
       PROVE  \E j \in 1..Len(toShim[d]) : toShim'[d][i] = toShim[d][j]
  <2>1. CASE d = c
    BY <2>1, <1>2
  <2>2. CASE d # c
    BY <2>2
  <2> QED BY <2>1, <2>2
<1>5. Rows'
  <2> SUFFICES ASSUME NEW m \in Msgs, m >= next PROVE state[m] = "none" /\ written'[m] = 0
    BY DEF Rows
  <2>1. state[m] = "none" /\ m \notin Forwarded
    BY DEF Rows, Forwarded
  <2>2. \A i \in 1..n : q[i] # m
    <3> SUFFICES ASSUME NEW i \in 1..n PROVE q[i] # m
      OBVIOUS
    <3>1. q[i] < next /\ q[i] \in Nat /\ next \in Nat
      BY <1>3, InboundAssumption DEF Frames, TypeOK, Msgs
    <3> QED BY <3>1 DEF Msgs
  <2>3. m \notin Forwarded' /\ written'[m] \in 0..2
    BY <2>1, <2>2 DEF TypeOK
  <2> QED BY <2>1, <2>3 DEF Forwarded
<1>6. Connections' /\ AckedWasForwarded'
  BY DEF Connections, AckedWasForwarded
<1>7. Missed'
  <2> SUFFICES ASSUME NEW d \in Shims PROVE missed'[d] \subseteq HadTurn'
    BY DEF Missed
  <2>1. CASE d = c
    BY <2>1
  <2>2. CASE d # c
    BY <2>2 DEF Missed
  <2> QED BY <2>1, <2>2
<1>8. Frames'
  <2> SUFFICES ASSUME NEW d \in Shims
      PROVE  /\ \A i \in 1..Len(toShim'[d]) :
                  toShim'[d][i] < next /\ Target[keyOf[toShim'[d][i]]] = owner[d]
             /\ \A i \in 1..Len(toDaemon'[d]) : written'[toDaemon'[d][i]] > 0
    BY DEF Frames
  <2>1. ASSUME NEW i \in 1..Len(toShim'[d])
        PROVE  toShim'[d][i] < next /\ Target[keyOf[toShim'[d][i]]] = owner[d]
    <3>1. PICK j \in 1..Len(toShim[d]) : toShim'[d][i] = toShim[d][j]
      BY <1>4
    <3>2. toShim[d][j] < next /\ Target[keyOf[toShim[d][j]]] = owner[d]
      BY DEF Frames
    <3> QED BY <3>1, <3>2
  <2>2. ASSUME NEW i \in 1..Len(toDaemon'[d]) PROVE written'[toDaemon'[d][i]] > 0
    <3>1. CASE d = c
      BY <3>1 DEF Forwarded
    <3>2. CASE d # c
      <4>1. toDaemon[d][i] \in Msgs /\ written[toDaemon[d][i]] > 0
        BY <3>2 DEF Frames, TypeOK
      <4>2. toDaemon[d][i] \in Forwarded'
        BY <4>1 DEF Forwarded
      <4> QED BY <4>2, <3>2 DEF Forwarded
    <3> QED BY <3>1, <3>2
  <2> QED BY <2>1, <2>2
<1>9. FlushOrder'
  <2> SUFFICES ASSUME NEW m \in flushing, NEW d \in Shims, live[Target[keyOf[m]]] = d,
                      NEW i \in 1..Len(toShim'[d])
      PROVE  toShim'[d][i] < m
    BY DEF FlushOrder, Outstanding
  <2> QED BY <1>4 DEF FlushOrder
<1>10. InOrderOnConnection'
  <2> SUFFICES ASSUME NEW d \in Shims, NEW i \in 1..Len(toShim'[d]),
                      NEW j \in 1..Len(toShim'[d]), i < j
      PROVE  toShim'[d][i] < toShim'[d][j]
    BY DEF InOrderOnConnection
  <2>1. CASE d = c
    <3>1. i + n < j + n
      BY <1>1
    <3> QED BY <2>1, <3>1, <1>2 DEF InOrderOnConnection
  <2>2. CASE d # c
    BY <2>2 DEF InOrderOnConnection
  <2> QED BY <2>1, <2>2
<1>11. OnlyMissedAreStranded'
  <2> SUFFICES ASSUME NEW s \in Sessions, NEW d \in Shims, live[s] = d, open[d], up[d],
                      NEW m \in Msgs, Outstanding(m), Target[keyOf[m]] = s
      PROVE  \/ m \in flushing \/ Carries(toShim'[d], m)
             \/ Carries(toDaemon'[d], m) \/ m \in missed'[d]
    BY DEF OnlyMissedAreStranded, Outstanding
  <2>1. m \in flushing \/ Carries(toShim[d], m) \/ Carries(toDaemon[d], m) \/ m \in missed[d]
    BY DEF OnlyMissedAreStranded
  <2>2. ASSUME d = c, Carries(q, m)
        PROVE  Carries(toShim'[c], m) \/ Carries(toDaemon'[c], m) \/ m \in missed'[c]
    <3>1. PICK i \in 1..Len(q) : q[i] = m
      BY <2>2 DEF Carries
    <3>2. CASE i \in 1..n
      BY <2>2, <3>1, <3>2
    <3>3. CASE i \notin 1..n
      <4>1. i - n \in 1..Len(toShim'[c])
        BY <1>1, <3>3
      <4>2. toShim'[c][i - n] = q[i]
        BY <4>1, <1>1, <1>2
      <4> QED BY <4>1, <4>2, <3>1 DEF Carries
    <3> QED BY <3>2, <3>3
  <2>3. CASE d = c
    BY <2>1, <2>2, <2>3
  <2>4. CASE d # c
    BY <2>1, <2>4
  <2> QED BY <2>3, <2>4
<1>12. NoOvertaking'
  <2> SUFFICES ASSUME NEW d \in Shims, NEW j \in 1..Len(toShim'[d]), NEW m \in Msgs,
                      m < toShim'[d][j], HasRow(m)', Target[keyOf'[m]] = owner'[d]
      PROVE  m \in HadTurn' \/ \E i \in 1..(j - 1) : toShim'[d][i] = m
    BY DEF NoOvertaking
  <2>0. HasRow(m) /\ Target[keyOf[m]] = owner[d]
    BY DEF HasRow
  <2>1. CASE d = c
    <3>1. j + n \in 1..Len(q) /\ m < q[j + n]
      BY <2>1, <1>2
    <3>2. m \in HadTurn \/ \E i \in 1..(j + n - 1) : q[i] = m
      BY <2>0, <2>1, <3>1 DEF NoOvertaking
    <3>3. ASSUME NEW i \in 1..(j + n - 1), q[i] = m
          PROVE  m \in HadTurn' \/ \E k \in 1..(j - 1) : toShim'[c][k] = m
      <4>1. CASE i \in 1..n
        BY <3>3, <4>1
      <4>2. CASE i \notin 1..n
        <5>1. i - n \in 1..(j - 1) /\ i - n \in 1..Len(toShim'[c])
          BY <1>1, <2>1, <3>1, <4>2
        <5>2. toShim'[c][i - n] = q[i]
          BY <5>1, <1>1, <1>2
        <5> QED BY <3>3, <5>1, <5>2
      <4> QED BY <4>1, <4>2
    <3> QED BY <2>1, <3>2, <3>3
  <2>2. CASE d # c
    <3>1. toShim'[d] = toShim[d]
      BY <2>2
    <3>2. m \in HadTurn \/ \E i \in 1..(j - 1) : toShim[d][i] = m
      BY <2>0, <3>1 DEF NoOvertaking
    <3> QED BY <3>1, <3>2
  <2> QED BY <2>1, <2>2
<1>13. OnlyMissedAreOvertaken'
  <2> SUFFICES ASSUME NEW a \in Msgs, NEW b \in Msgs, a < b, SameSession(a, b), HasRow(a),
                      HasRow(b), b \in Forwarded'
      PROVE  a \in HadTurn'
    BY DEF OnlyMissedAreOvertaken, SameSession, HasRow, HadTurn
  <2>1. CASE b \in Forwarded
    BY <2>1 DEF OnlyMissedAreOvertaken, HadTurn
  <2>2. ASSUME NEW i \in 1..n, q[i] = b PROVE a \in HadTurn'
    <3>1. i \in 1..Len(q) /\ Target[keyOf[a]] = owner[c]
      BY <2>2, <1>3 DEF Frames, SameSession
    <3>2. a \in HadTurn \/ \E k \in 1..(i - 1) : q[k] = a
      BY <2>2, <3>1 DEF NoOvertaking
    <3>3. \A k \in 1..(i - 1) : k \in 1..n
      BY <1>1
    <3> QED BY <3>2, <3>3
  <2> QED BY <2>1, <2>2
<1> QED BY <1>5, <1>6, <1>7, <1>8, <1>9, <1>10, <1>11, <1>12, <1>13

\* The head of a sequence as its first n elements, n being 1.
LEMMA TailDrops ==
    ASSUME NEW q \in Seq(Msgs), q # <<>>
    PROVE  /\ 1 \in 0..Len(q) /\ Len(Tail(q)) = Len(q) - 1
           /\ \A i \in 1..Len(Tail(q)) : Tail(q)[i] = q[i + 1]
           /\ \A i \in 1..1 : q[i] = Head(q)
OBVIOUS

\* The shim forwards the first frame of its connection and acknowledges it.
LEMMA ShimForwardKeepsIInv ==
    ASSUME IInv, TypeOK', NEW c \in Shims, ShimForward(c)
    PROVE  IInv'
<1> USE DEF IInv
<1> DEFINE q == toShim[c]
           h == Head(q)
<1>1. q \in Seq(Msgs) /\ q # <<>> /\ h \in Msgs /\ toDaemon[c] \in Seq(Msgs)
  BY DEF ShimForward, TypeOK
<1>2. /\ toShim'[c] = Tail(q) /\ \A d \in Shims : d # c => toShim'[d] = toShim[d]
      /\ toDaemon'[c] = IF open[c] THEN Append(toDaemon[c], h) ELSE toDaemon[c]
      /\ \A d \in Shims : d # c => toDaemon'[d] = toDaemon[d]
      /\ UNCHANGED <<next, state, keyOf, alive, live, flushing, owner, open, up, missed>>
  BY DEF ShimForward, TypeOK, database
<1>3. /\ \A m \in Msgs : (written'[m] > 0) <=> (m = h \/ written[m] > 0)
      /\ passed' = passed \ {h}
  BY <1>1 DEF ShimForward, TypeOK
<1>4. \A m \in Msgs : m \in Forwarded' <=> m = h \/ m \in Forwarded
  <2> SUFFICES ASSUME NEW m \in Msgs PROVE written'[m] > 0 <=> m = h \/ written[m] > 0
    BY DEF Forwarded
  <2> QED BY <1>3
<1>5. /\ \A m \in Forwarded : m \in Forwarded'
      /\ \A m \in HadTurn : m \in HadTurn'
      /\ h \in HadTurn' /\ h \in Forwarded'
  BY <1>1, <1>3, <1>4 DEF HadTurn, Forwarded, TypeOK
<1>6. 1 \in 0..Len(q) /\ Len(toShim'[c]) = Len(q) - 1
      /\ (\A i \in 1..Len(toShim'[c]) : toShim'[c][i] = q[i + 1])
      /\ (\A i \in 1..1 : q[i] = h)
  BY <1>1, <1>2, TailDrops
<1>7. \A m \in Forwarded' : m \in Forwarded \/ \E i \in 1..1 : q[i] = m
  <2>1. \A m \in Forwarded' : m \in Msgs /\ (m = h \/ m \in Forwarded)
    BY <1>4 DEF Forwarded
  <2>2. \E i \in 1..1 : q[i] = h
    BY <1>6
  <2> QED BY <2>1, <2>2
<1>8. \A i \in 1..Len(toDaemon'[c]) : toDaemon'[c][i] \in Forwarded'
  <2>1. ASSUME NEW i \in 1..Len(toDaemon[c]) PROVE toDaemon[c][i] \in Forwarded'
    <3>1. toDaemon[c][i] \in Forwarded
      BY <1>1 DEF Frames, Forwarded
    <3> QED BY <3>1, <1>5
  <2>2. ASSUME open[c], NEW i \in 1..Len(Append(toDaemon[c], h))
        PROVE  Append(toDaemon[c], h)[i] \in Forwarded'
    BY <2>1, <1>1, <1>5, AppendElements
  <2> QED BY <2>1, <2>2, <1>2
<1>9. missed'[c] \subseteq HadTurn'
  BY <1>2, <1>5 DEF Missed
<1>10. open[c] => Carries(toDaemon'[c], h)
  BY <1>1, <1>2, CarriesAppend
<1>11. \A m \in Msgs : Carries(toDaemon[c], m) => Carries(toDaemon'[c], m)
  BY <1>1, <1>2, CarriesAppend
<1>12. \A i \in 1..1 : q[i] \in HadTurn'
  BY <1>5, <1>6
<1>13. open[c] => \A i \in 1..1 : q[i] \in missed'[c] \/ Carries(toDaemon'[c], q[i])
  BY <1>6, <1>10
<1>14. Drops(c, 1)
  BY <1>2, <1>6 DEF Drops
<1>15. /\ \A d \in Shims : d # c => toDaemon'[d] = toDaemon[d] /\ missed'[d] = missed[d]
       /\ missed[c] \subseteq missed'[c]
  BY <1>2
<1>16. Takes(c, 1)
  BY <1>5, <1>7, <1>8, <1>9, <1>11, <1>12, <1>13, <1>14, <1>15, Zenon DEF Takes
<1>17. 1 \in 0..Len(toShim[c])
  BY <1>6
<1> HIDE DEF IInv, q, h
<1> QED BY <1>16, <1>17, TakeKeepsIInv, Zenon

\* Of the frames it takes, the shim misses all, whose messages are lost:
\* nothing is written and nothing acknowledged.
Misses(c, n, lost) ==
    /\ Drops(c, n)
    /\ lost = {toShim[c][i] : i \in 1..n}
    /\ missed' = [missed EXCEPT ![c] = IF open[c] THEN @ \cup lost ELSE @]
    /\ \A m \in Msgs : m \in passed' <=> m \in passed \/ (m \in lost /\ written[m] = 0)
    /\ UNCHANGED <<toDaemon, written>>

LEMMA MissKeepsIInv ==
    ASSUME IInv, TypeOK', NEW c \in Shims, NEW n \in 0..Len(toShim[c]), NEW lost \in SUBSET Msgs,
           Misses(c, n, lost)
    PROVE  IInv'
<1> USE DEF IInv, Misses
<1>1. Forwarded' = Forwarded
  BY DEF Forwarded
<1>2. \A m \in lost : m \in HadTurn'
  <2> SUFFICES ASSUME NEW m \in lost PROVE m \in HadTurn'
    OBVIOUS
  <2>1. m \in Msgs /\ written[m] \in 0..2
    BY DEF TypeOK
  <2> QED BY <2>1, <1>1 DEF HadTurn, Forwarded
<1>3. \A m \in HadTurn : m \in HadTurn'
  BY <1>1 DEF HadTurn, TypeOK
<1>4. /\ missed'[c] = IF open[c] THEN missed[c] \cup lost ELSE missed[c]
      /\ \A d \in Shims : d # c => missed'[d] = missed[d]
  BY DEF TypeOK
<1>5. missed'[c] \subseteq HadTurn'
  BY <1>2, <1>3, <1>4 DEF Missed
<1>6. \A i \in 1..Len(toDaemon'[c]) : toDaemon'[c][i] \in Forwarded'
  BY <1>1 DEF Frames, Forwarded, TypeOK
<1>7. \A i \in 1..n : toShim[c][i] \in lost
  OBVIOUS
<1>8. \A i \in 1..n : toShim[c][i] \in HadTurn'
  BY <1>2, <1>7
<1>9. open[c] => \A i \in 1..n :
             toShim[c][i] \in missed'[c] \/ Carries(toDaemon'[c], toShim[c][i])
  BY <1>4, <1>7
<1>10. /\ \A d \in Shims : d # c => toDaemon'[d] = toDaemon[d] /\ missed'[d] = missed[d]
       /\ missed[c] \subseteq missed'[c]
       /\ \A m \in Msgs : Carries(toDaemon[c], m) => Carries(toDaemon'[c], m)
  BY <1>4
<1>11. /\ \A m \in Forwarded : m \in Forwarded'
       /\ \A m \in Forwarded' : m \in Forwarded \/ \E i \in 1..n : toShim[c][i] = m
  BY <1>1
<1>12. Drops(c, n)
  OBVIOUS
<1>13. Takes(c, n)
  BY <1>3, <1>5, <1>6, <1>8, <1>9, <1>10, <1>11, <1>12, Zenon DEF Takes
<1> HIDE DEF IInv, Misses
<1> QED BY <1>13, TakeKeepsIInv, Zenon

\* The chunk with the welcome.
LEMMA ReadWelcomeMisses ==
    ASSUME TypeOK, NEW c \in Shims, ReadWelcome(c)
    PROVE  \E n \in 0..Len(toShim[c]) : \E lost \in SUBSET Msgs : Misses(c, n, lost)
<1>1. PICK n \in 0..Len(toShim[c]) :
         LET unheard == {toShim[c][i] : i \in 1..n} IN
         /\ missed' = [missed EXCEPT ![c] = IF open[c] THEN @ \cup unheard ELSE @]
         /\ passed' = passed \cup {m \in unheard : written[m] = 0}
         /\ toShim' = [toShim EXCEPT ![c] = SubSeq(@, n + 1, Len(@))]
  BY DEF ReadWelcome
<1> DEFINE lost == {toShim[c][i] : i \in 1..n}
<1>2. toShim[c] \in Seq(Msgs)
  BY DEF TypeOK
<1>3. lost \in SUBSET Msgs
  BY <1>2
<1>4. toShim'[c] = SubSeq(toShim[c], n + 1, Len(toShim[c]))
      /\ \A d \in Shims : d # c => toShim'[d] = toShim[d]
  BY <1>1 DEF TypeOK
<1>5. /\ Len(toShim'[c]) = Len(toShim[c]) - n
      /\ \A i \in 1..Len(toShim'[c]) : toShim'[c][i] = toShim[c][i + n]
  BY <1>2, <1>4, DropElements
<1>6. \A m \in Msgs : m \in passed' <=> m \in passed \/ (m \in lost /\ written[m] = 0)
  BY <1>1
<1>7. UNCHANGED <<next, state, keyOf, alive, live, flushing, owner, open, up, toDaemon, written>>
  BY DEF ReadWelcome, database
<1>8. missed' = [missed EXCEPT ![c] = IF open[c] THEN @ \cup lost ELSE @]
  BY <1>1
<1>9. Misses(c, n, lost)
  BY <1>4, <1>5, <1>6, <1>7, <1>8 DEF Misses, Drops
<1> QED BY <1>3, <1>9

\* A rejected notification.
LEMMA NotifyFailsMisses ==
    ASSUME TypeOK, NEW c \in Shims, NotifyFails(c)
    PROVE  \E n \in 0..Len(toShim[c]) : \E lost \in SUBSET Msgs : Misses(c, n, lost)
<1> DEFINE h == Head(toShim[c])
           lost == {h}
<1>1. toShim[c] \in Seq(Msgs) /\ toShim[c] # <<>> /\ h \in Msgs
  BY DEF NotifyFails, TypeOK
<1>2. /\ 1 \in 0..Len(toShim[c]) /\ Len(Tail(toShim[c])) = Len(toShim[c]) - 1
      /\ \A i \in 1..Len(Tail(toShim[c])) : Tail(toShim[c])[i] = toShim[c][i + 1]
      /\ \A i \in 1..1 : toShim[c][i] = h
  BY <1>1, TailDrops
<1>3. lost = {toShim[c][i] : i \in 1..1} /\ lost \in SUBSET Msgs
  BY <1>1, <1>2
<1>4. toShim'[c] = Tail(toShim[c]) /\ \A d \in Shims : d # c => toShim'[d] = toShim[d]
  BY DEF NotifyFails, TypeOK
<1>5. /\ missed' = [missed EXCEPT ![c] = IF open[c] THEN @ \cup lost ELSE @]
      /\ UNCHANGED <<next, state, keyOf, alive, live, flushing, owner, open, up, toDaemon, written>>
  BY DEF NotifyFails, database
<1>6. \A m \in Msgs : m \in passed' <=> m \in passed \/ (m \in lost /\ written[m] = 0)
  BY <1>1 DEF NotifyFails
<1>7. Misses(c, 1, lost)
  BY <1>2, <1>3, <1>4, <1>5, <1>6 DEF Misses, Drops
<1> QED BY <1>2, <1>3, <1>7

\* Every step keeps IInv: one case per action of Next.
LEMMA NextKeepsIInv == IInv /\ [Next]_vars => IInv'
<1> SUFFICES ASSUME IInv, [Next]_vars PROVE IInv'
  OBVIOUS
<1>1. TypeOK'
  BY NextType DEF IInv
<1>2. ASSUME NEW k \in Keys, Ingest(k) PROVE IInv'
  BY <1>1, <1>2, IngestKeepsIInv
<1>3. CASE FlushRow
  BY <1>1, <1>3, FlushRowKeepsIInv
<1>4. ASSUME NEW c \in Shims, DaemonReadsAck(c) PROVE IInv'
  BY <1>1, <1>4, AckKeepsIInv
<1>5. ASSUME NEW s \in Sessions, NEW source, SessionStart(s, source) PROVE IInv'
  BY <1>1, <1>5, SessionStartKeepsIInv
<1>6. ASSUME NEW c \in Shims, NEW s \in Sessions, Hello(c, s) PROVE IInv'
  BY <1>1, <1>6, RegisterKeepsIInv DEF Hello
<1>7. ASSUME NEW c \in Shims, NEW s \in Sessions, GhostHello(c, s) PROVE IInv'
  BY <1>1, <1>7, RegisterKeepsIInv DEF GhostHello
<1>8. ASSUME NEW c \in Shims, ConnectionClosed(c) \/ HeartbeatTimeout(c) PROVE IInv'
  BY <1>1, <1>8, DestroyKeepsIInv DEF ConnectionClosed, HeartbeatTimeout
<1>9. ASSUME NEW c \in Shims, ShimSeesClose(c) \/ ShimDies(c) PROVE IInv'
  BY <1>1, <1>9, ShimEndKeepsIInv DEF ShimSeesClose, ShimDies
<1>10. ASSUME NEW c \in Shims, ShimForward(c) PROVE IInv'
  BY <1>1, <1>10, ShimForwardKeepsIInv
<1>11. ASSUME NEW c \in Shims, ReadWelcome(c) \/ NotifyFails(c) PROVE IInv'
  <2>1. TypeOK
    BY DEF IInv
  <2>2. PICK n \in 0..Len(toShim[c]), lost \in SUBSET Msgs : Misses(c, n, lost)
    BY <1>11, <2>1, ReadWelcomeMisses, NotifyFailsMisses
  <2> QED BY <1>1, <2>2, MissKeepsIInv
<1>12. CASE DaemonCrash \/ DaemonStart \/ (\E c \in Shims : ShimGone(c)) \/ UNCHANGED vars
  BY <1>1, <1>12, DaemonKeepsIInv
<1> QED BY <1>12, <1>2, <1>3, <1>4, <1>5, <1>6, <1>7, <1>8, <1>9, <1>10, <1>11 DEF Next

\* IInv is inductive: it holds in every reachable state, and the safety
\* properties below are conjuncts of it.
THEOREM Inductive == Safety => []IInv
BY InitIInv, NextKeepsIInv, PTL DEF Safety

\* No row is acknowledged before its message was written to claude, whatever
\* the interleaving of replays, acknowledgements, clears and crashes.
THEOREM AcknowledgedIsForwarded == Safety => []AckedWasForwarded
<1>1. IInv => AckedWasForwarded
  BY DEF IInv
<1> QED BY Inductive, <1>1, PTL

\* While a session's connection works, every unacknowledged row of the session
\* is on its way or was missed by the shim on that connection: the replay at the
\* handshake and the write at the insertion together forget none.
THEOREM NothingElseStranded == Safety => []OnlyMissedAreStranded
<1>1. IInv => OnlyMissedAreStranded
  BY DEF IInv
<1> QED BY Inductive, <1>1, PTL

\* claude first sees a session's messages in the order they were accepted, but
\* for those that a shim read and missed.
THEOREM FirstForwardOrder == Safety => []OnlyMissedAreOvertaken
<1>1. IInv => OnlyMissedAreOvertaken
  BY DEF IInv
<1> QED BY Inductive, <1>1, PTL

\* A connection carries each message at most once, in order.
THEOREM ConnectionOrder == Safety => []InOrderOnConnection
<1>1. IInv => InOrderOnConnection
  BY DEF IInv
<1> QED BY Inductive, <1>1, PTL

-----------------------------------------------------------------------------
(* InboundDelivery implements ReliableInbox: each step of the router, the  *)
(* sockets and the shims is one of its steps or a stutter.                 *)

\* Row numbers and row states, for the cases of StatusOf.
LEMMA NumbersAndStates ==
    ASSUME TypeOK, NEW m \in Msgs
    PROVE  m \in Nat /\ next \in Nat /\ state[m] \in RowStates
<1>1. m \in Nat
  BY InboundAssumption DEF Msgs
<1>2. next \in Nat
  BY InboundAssumption DEF TypeOK
<1>3. state[m] \in RowStates
  BY DEF TypeOK
<1> QED BY <1>1, <1>2, <1>3

\* The four values of a message's abstract status.
LEMMA StatusValue ==
    ASSUME TypeOK, Rows, NEW m \in Msgs
    PROVE  /\ m >= next => Status[m] = "new"
           /\ m < next /\ state[m] = "none" => Status[m] = "dropped"
           /\ Outstanding(m) => Status[m] = "pending" /\ m < next
           /\ state[m] = "acknowledged" => Status[m] = "settled" /\ m < next
<1>1. m \in Nat /\ next \in Nat /\ state[m] \in RowStates
  BY NumbersAndStates
<1>2. CASE m >= next
  <2>1. state[m] = "none" /\ ~(m < next)
    BY <1>1, <1>2 DEF Rows
  <2> QED BY <1>2, <2>1 DEF Status, StatusOf, Outstanding
<1>3. CASE m < next
  <2>1. ~(m >= next)
    BY <1>1, <1>3
  <2> QED BY <1>1, <1>3, <2>1 DEF Status, StatusOf, Outstanding, RowStates
<1> QED BY <1>1, <1>2, <1>3 DEF RowStates

\* The status of a message follows from its number and the state of its row.
LEMMA SameStatus ==
    ASSUME TypeOK, TypeOK', Rows, Rows', next' = next, NEW m \in Msgs,
           state'[m] = state[m] \/ (Outstanding(m) /\ Outstanding(m)')
    PROVE  Status'[m] = Status[m]
<1>1. m \in Nat /\ next \in Nat /\ state[m] \in RowStates
  BY NumbersAndStates
<1>2. CASE Outstanding(m) /\ Outstanding(m)'
  <2>1. m < next /\ ~(m >= next)
    BY <1>1, <1>2, StatusValue
  <2>2. Status[m] = "pending"
    BY <1>2, StatusValue
  <2>3. Status'[m] = "pending"
    BY <2>1, <1>2 DEF Status, StatusOf, Outstanding
  <2> QED BY <2>2, <2>3
<1>3. CASE state'[m] = state[m]
  BY <1>3 DEF Status, StatusOf, Outstanding
<1> QED BY <1>2, <1>3

\* ReliableInbox's Kept: the message has a row.
LEMMA KeptIsRow ==
    ASSUME TypeOK, Rows, NEW m \in Msgs
    PROVE  Inbox!Kept(m) <=> HasRow(m)
<1>1. state[m] \in RowStates /\ m \in Nat /\ next \in Nat
  BY NumbersAndStates
<1> QED BY <1>1, StatusValue DEF Inbox!Kept, HasRow, Outstanding, RowStates, Rows

\* Status is a function on messages, as the mapping's EXCEPTs need.
LEMMA StatusIsFunction == Status = [m \in Msgs |-> Status[m]]
BY DEF Status

\* A step that changes neither rows nor what was written is not seen.
LEMMA Unseen ==
    ASSUME IInv, TypeOK', Rows', UNCHANGED <<next, keyOf, written, passed>>,
           \A m \in Msgs : state'[m] = state[m] \/ (Outstanding(m) /\ Outstanding(m)')
    PROVE  UNCHANGED Inbox!vars
<1> USE DEF IInv
<1>1. \A m \in Msgs : Status'[m] = Status[m]
  BY SameStatus
<1>2. Status' = Status
  <2>1. Status' = [m \in Msgs |-> Status'[m]]
    BY DEF Status
  <2> QED BY <1>1, <2>1, StatusIsFunction
<1>3. Forwarded' = Forwarded
  BY DEF Forwarded
<1> QED BY <1>2, <1>3 DEF Inbox!vars

\* ingestInbound is an Accept of the abstract inbox.
LEMMA IngestAccepts ==
    ASSUME IInv, TypeOK', Rows', NEW k \in Keys, Ingest(k)
    PROVE  Inbox!Accept(k)
<1> USE DEF IInv
<1>1. next \in Msgs /\ next' = next + 1 /\ next \in Nat
  BY NumbersAndStates DEF Ingest
<1>2. \A m \in Msgs : Inbox!Kept(m) => keyOf[m] # k
  BY KeptIsRow DEF Ingest, Duplicate
<1>3. /\ keyOf' = [keyOf EXCEPT ![next] = k]
      /\ \E st \in {"received", "delivered"} : state' = [state EXCEPT ![next] = st]
      /\ written' = written /\ passed' = passed
  BY DEF Ingest, history
<1>4. Status'[next] = "pending"
  <2>1. state'[next] \in {"received", "delivered"}
    BY <1>1, <1>3 DEF TypeOK
  <2>2. ~(next >= next') /\ next < next'
    BY <1>1
  <2> QED BY <1>1, <2>1, <2>2 DEF Status, StatusOf, Outstanding
<1>5. ASSUME NEW m \in Msgs, m # next PROVE Status'[m] = Status[m]
  <2>1. state'[m] = state[m] /\ m \in Nat
    BY <1>1, <1>3, <1>5, NumbersAndStates DEF TypeOK
  <2>2. (m >= next <=> m >= next') /\ (m < next <=> m < next')
    BY <1>1, <1>5, <2>1
  <2>3. CASE m >= next
    <3>1. m >= next' /\ ~(m < next) /\ ~(m < next')
      BY <1>1, <2>1, <2>2, <2>3
    <3> QED BY <2>3, <3>1 DEF Status, StatusOf
  <2>4. CASE m < next
    <3>1. m < next' /\ ~(m >= next) /\ ~(m >= next')
      BY <1>1, <2>1, <2>2, <2>4
    <3>2. state[m] \in RowStates
      BY NumbersAndStates
    <3> QED BY <2>1, <2>4, <3>1, <3>2 DEF Status, StatusOf, Outstanding, RowStates
  <2> QED BY <1>1, <2>1, <2>3, <2>4
<1>6. Status' = [Status EXCEPT ![next] = "pending"]
  <2>1. Status' = [m \in Msgs |-> Status'[m]]
    BY DEF Status
  <2> QED BY <1>1, <1>4, <1>5, <2>1, StatusIsFunction
<1>7. Forwarded' = Forwarded
  BY <1>3 DEF Forwarded
<1> QED BY <1>1, <1>2, <1>3, <1>6, <1>7 DEF Inbox!Accept, Inbox!Msgs, Msgs

\* channel_ack settles a pending message, or changes nothing.
LEMMA AckSettles ==
    ASSUME IInv, TypeOK', Rows', NEW c \in Shims, DaemonReadsAck(c)
    PROVE  (\E m \in Msgs : Inbox!Settle(m)) \/ UNCHANGED Inbox!vars
<1> USE DEF IInv
<1> DEFINE a == Head(toDaemon[c])
<1>1. a \in Msgs /\ toDaemon[c] \in Seq(Msgs) /\ toDaemon[c] # <<>>
  BY DEF DaemonReadsAck, TypeOK
<1>2. a \in Forwarded
  BY <1>1, TailElements DEF Frames, Forwarded
<1>3. /\ UNCHANGED <<next, keyOf, written, passed>>
      /\ \A m \in Msgs : m # a => state'[m] = state[m]
      /\ Outstanding(a) => state'[a] = "acknowledged"
      /\ ~Outstanding(a) => state'[a] = state[a]
  BY <1>1 DEF DaemonReadsAck, Acknowledge, Outstanding, TypeOK, history
<1>4. CASE ~Outstanding(a)
  BY <1>3, <1>4, Unseen
<1>5. CASE Outstanding(a)
  <2>1. Status[a] = "pending" /\ a < next /\ a \in Nat /\ next \in Nat
    BY <1>1, <1>5, StatusValue, NumbersAndStates
  <2>2. Status'[a] = "settled"
    <3>1. ~(a >= next') /\ a < next' /\ state'[a] = "acknowledged"
      BY <2>1, <1>3, <1>5
    <3> QED BY <3>1, <1>1 DEF Status, StatusOf, Outstanding
  <2>3. \A m \in Msgs : m # a => Status'[m] = Status[m]
    BY <1>3, SameStatus
  <2>4. Status' = [Status EXCEPT ![a] = "settled"]
    <3>1. Status' = [m \in Msgs |-> Status'[m]]
      BY DEF Status
    <3> QED BY <1>1, <2>2, <2>3, <3>1, StatusIsFunction
  <2>5. Forwarded' = Forwarded
    BY <1>3 DEF Forwarded
  <2>6. Inbox!Settle(a)
    BY <1>2, <1>3, <2>1, <2>4, <2>5 DEF Inbox!Settle
  <2> QED BY <1>1, <2>6
<1> QED BY <1>4, <1>5

\* The purge of a SessionStart is a Forget of the abstract inbox.
LEMMA SessionStartForgets ==
    ASSUME IInv, TypeOK', Rows', NEW s \in Sessions, NEW source, SessionStart(s, source)
    PROVE  Inbox!Forget(s)
<1> USE DEF IInv
<1>1. /\ UNCHANGED <<next, keyOf, written, passed>>
      /\ state' = [m \in Msgs |-> IF Target[keyOf[m]] = s THEN "none" ELSE state[m]]
  BY DEF SessionStart, sockets, history
<1>2. ASSUME NEW m \in Msgs
      PROVE  Status'[m] = IF Inbox!Kept(m) /\ Target[keyOf[m]] = s THEN "dropped" ELSE Status[m]
  <2>1. m \in Nat /\ next \in Nat /\ state[m] \in RowStates
    BY NumbersAndStates
  <2>2. CASE Inbox!Kept(m) /\ Target[keyOf[m]] = s
    <3>1. state'[m] = "none" /\ HasRow(m)
      BY <1>1, <2>2, KeptIsRow
    <3>2. m < next /\ ~(m >= next)
      BY <2>1, <3>1 DEF Rows, HasRow
    <3> QED BY <1>1, <2>2, <3>1, <3>2 DEF Status, StatusOf, Outstanding
  <2>3. CASE ~(Inbox!Kept(m) /\ Target[keyOf[m]] = s)
    <3>1. state'[m] = state[m]
      BY <1>1, <2>3, KeptIsRow DEF HasRow
    <3> QED BY <1>1, <2>3, <3>1, SameStatus
  <2> QED BY <2>2, <2>3
<1>3. Status' = [m \in Msgs |-> IF Inbox!Kept(m) /\ Target[keyOf[m]] = s
                                THEN "dropped" ELSE Status[m]]
  <2>1. Status' = [m \in Msgs |-> Status'[m]]
    BY DEF Status
  <2> QED BY <1>2, <2>1
<1>4. Forwarded' = Forwarded
  BY <1>1 DEF Forwarded
<1> QED BY <1>1, <1>3, <1>4 DEF Inbox!Forget, Inbox!Msgs, Msgs

\* Frames are of inserted rows, and every kept message accepted earlier for the
\* session had its turn, or precedes the frame.
LEMMA FrameInTurn ==
    ASSUME IInv, NEW c \in Shims, NEW j \in 1..Len(toShim[c]), NEW S \in SUBSET Msgs,
           \A i \in 1..(j - 1) : toShim[c][i] \in S
    PROVE  /\ toShim[c][j] \in Msgs /\ Status[toShim[c][j]] # "new"
           /\ Inbox!InTurn(toShim[c][j], S)
<1> USE DEF IInv
<1> DEFINE h == toShim[c][j]
<1>1. toShim[c] \in Seq(Msgs) /\ h \in Msgs
  BY DEF TypeOK
<1>2. h < next /\ Target[keyOf[h]] = owner[c]
  BY DEF Frames
<1>3. Status[h] # "new"
  <2>1. state[h] \in RowStates /\ h \in Nat /\ next \in Nat
    BY <1>1, NumbersAndStates
  <2> QED BY <1>1, <1>2, <2>1, StatusValue DEF RowStates, Outstanding
<1>4. ASSUME NEW n \in Msgs, n < h, Inbox!Kept(n), Target[keyOf[n]] = Target[keyOf[h]]
      PROVE  n \in (Forwarded \cup passed) \cup S
  <2>1. HasRow(n)
    BY <1>4, KeptIsRow
  <2>2. n \in HadTurn \/ \E i \in 1..(j - 1) : toShim[c][i] = n
    BY <1>2, <1>4, <2>1 DEF NoOvertaking
  <2> QED BY <2>2 DEF HadTurn
<1> QED BY <1>1, <1>3, <1>4 DEF Inbox!InTurn, Inbox!Msgs, Msgs

\* The first forwarding of a message is a HandOver, in order.
LEMMA ForwardHandsOver ==
    ASSUME IInv, TypeOK', Rows', NEW c \in Shims, ShimForward(c)
    PROVE  \E m \in Msgs : Inbox!HandOver(m)
<1> USE DEF IInv
<1> DEFINE h == Head(toShim[c])
<1>1. toShim[c] \in Seq(Msgs) /\ toShim[c] # <<>> /\ h \in Msgs
  BY DEF ShimForward, TypeOK
<1>2. h = toShim[c][1] /\ 1 \in 1..Len(toShim[c])
  BY <1>1, TailElements
<1>3. Status[h] # "new" /\ Inbox!InTurn(h, {})
  <2>1. \A i \in 1..(1 - 1) : toShim[c][i] \in {}
    OBVIOUS
  <2> QED BY <1>2, <2>1, FrameInTurn
<1>6. /\ written' = [written EXCEPT ![h] = IF @ < 2 THEN @ + 1 ELSE @]
      /\ passed' = passed \ {h}
  BY DEF ShimForward
<1>7. Forwarded' = Forwarded \cup {h}
  <2>1. \A m \in Msgs : (written'[m] > 0) <=> (written[m] > 0 \/ m = h)
    BY <1>1, <1>6 DEF TypeOK
  <2> QED BY <1>1, <2>1 DEF Forwarded
<1>8. UNCHANGED <<next, state, keyOf>>
  BY DEF ShimForward, database
<1>9. Status' = Status
  BY <1>8 DEF Status, StatusOf, Outstanding
<1>10. Inbox!HandOver(h)
  BY <1>3, <1>6, <1>7, <1>8, <1>9 DEF Inbox!HandOver
<1> QED BY <1>1, <1>10

\* What a shim misses is passed over, in order.
LEMMA MissPassesOver ==
    ASSUME IInv, TypeOK', Rows', NEW c \in Shims, ReadWelcome(c) \/ NotifyFails(c)
    PROVE  \E S \in SUBSET Msgs : Inbox!PassOver(S)
<1> USE DEF IInv
<1>0. PICK n \in 0..Len(toShim[c]), lost \in SUBSET Msgs : Misses(c, n, lost)
  BY ReadWelcomeMisses, NotifyFailsMisses
<1>1. /\ lost = {toShim[c][i] : i \in 1..n}
      /\ \A m \in Msgs : m \in passed' <=> m \in passed \/ (m \in lost /\ written[m] = 0)
      /\ UNCHANGED <<next, state, keyOf, written>>
  BY <1>0 DEF Misses, Drops
<1>2. toShim[c] \in Seq(Msgs) /\ Len(toShim[c]) \in Nat
  BY DEF TypeOK
<1>3. ASSUME NEW m \in lost PROVE Status[m] # "new" /\ Inbox!InTurn(m, lost)
  <2>1. PICK j \in 1..n : toShim[c][j] = m
    BY <1>1
  <2>2. j \in 1..Len(toShim[c]) /\ \A i \in 1..(j - 1) : toShim[c][i] \in lost
    BY <1>1, <1>2
  <2> QED BY <2>1, <2>2, FrameInTurn
<1>4. passed' = passed \cup (lost \ Forwarded)
  <2>1. ASSUME NEW m \in Msgs PROVE written[m] = 0 <=> m \notin Forwarded
    <3>1. written[m] \in 0..2
      BY DEF TypeOK
    <3> QED BY <3>1 DEF Forwarded
  <2>2. passed \subseteq Msgs /\ passed' \subseteq Msgs
    BY DEF TypeOK
  <2> QED BY <1>1, <2>1, <2>2
<1>5. Status' = Status /\ Forwarded' = Forwarded
  BY <1>1 DEF Status, StatusOf, Outstanding, Forwarded
<1>6. Inbox!PassOver(lost)
  BY <1>1, <1>3, <1>4, <1>5 DEF Inbox!PassOver
<1> QED BY <1>6

\* Initial states map to initial states.
LEMMA InitRefines == Init => Inbox!Init
<1> SUFFICES ASSUME Init PROVE Inbox!Init
  OBVIOUS
<1>1. TypeOK /\ IInv
  BY InitType, InitIInv
<1>2. ASSUME NEW m \in Msgs PROVE Status[m] = "new"
  <2>1. m \in Nat /\ m >= 1
    BY InboundAssumption DEF Msgs
  <2>2. m >= next
    BY <2>1 DEF Init
  <2> QED BY <1>1, <2>2, StatusValue DEF IInv
<1>3. Status = [m \in Msgs |-> "new"]
  BY <1>2, StatusIsFunction
<1>4. Forwarded = {} /\ passed = {}
  BY DEF Init, Forwarded
<1>5. keyOf \in [Msgs -> Keys] /\ next = 1
  BY <1>1 DEF TypeOK, Init
<1> QED BY <1>3, <1>4, <1>5 DEF Inbox!Init, Inbox!Msgs, Msgs

\* Every step maps to a step of the abstract inbox or to a stutter.
LEMMA StepRefines == IInv /\ IInv' /\ [Next]_vars => [Inbox!Next]_(Inbox!vars)
<1> SUFFICES ASSUME IInv, IInv', [Next]_vars PROVE Inbox!Next \/ UNCHANGED Inbox!vars
  OBVIOUS
<1>1. TypeOK' /\ Rows'
  BY DEF IInv
<1>2. ASSUME NEW k \in Keys, Ingest(k) PROVE Inbox!Next
  BY <1>1, <1>2, IngestAccepts DEF Inbox!Next
<1>3. CASE FlushRow
  <2>1. PICK m \in flushing : \E sent \in BOOLEAN : state' = AfterSend(m, sent)
    BY <1>3 DEF FlushRow, SendResults
  <2>2. m \in Msgs /\ Outstanding(m)
    BY DEF IInv, TypeOK, FlushOrder
  <2>3. \A n \in Msgs : state'[n] = state[n] \/ (Outstanding(n) /\ Outstanding(n)')
    BY <2>1, <2>2 DEF AfterSend, IInv, TypeOK, Outstanding
  <2> QED BY <1>1, <1>3, <2>3, Unseen DEF FlushRow, history
<1>4. ASSUME NEW c \in Shims, DaemonReadsAck(c) PROVE Inbox!Next \/ UNCHANGED Inbox!vars
  BY <1>1, <1>4, AckSettles DEF Inbox!Next, Inbox!Msgs, Msgs
<1>5. ASSUME NEW s \in Sessions, NEW source, SessionStart(s, source) PROVE Inbox!Next
  BY <1>1, <1>5, SessionStartForgets DEF Inbox!Next
<1>6. ASSUME NEW c \in Shims, ShimForward(c) PROVE Inbox!Next
  BY <1>1, <1>6, ForwardHandsOver DEF Inbox!Next, Inbox!Msgs, Msgs
<1>7. ASSUME UNCHANGED <<next, state, keyOf, written, passed>> PROVE UNCHANGED Inbox!vars
  BY <1>1, <1>7, Unseen
<1>8. ASSUME NEW c \in Shims, NEW s \in Sessions, Hello(c, s) \/ GhostHello(c, s)
      PROVE  UNCHANGED Inbox!vars
  BY <1>7, <1>8 DEF Hello, GhostHello, Register, database
<1>9. ASSUME NEW c \in Shims, ConnectionClosed(c) \/ HeartbeatTimeout(c)
      PROVE  UNCHANGED Inbox!vars
  BY <1>7, <1>9 DEF ConnectionClosed, HeartbeatTimeout, Destroy, database
<1>10. ASSUME NEW c \in Shims, ShimSeesClose(c) \/ ShimDies(c) \/ ShimGone(c)
       PROVE  UNCHANGED Inbox!vars
  BY <1>7, <1>10 DEF ShimSeesClose, ShimDies, ShimGone, CloseShimEnd, database, history
<1>11. CASE DaemonCrash \/ DaemonStart \/ UNCHANGED vars
  BY <1>7, <1>11 DEF DaemonCrash, DaemonStart, vars, database, sockets, history
<1>12. ASSUME NEW c \in Shims, ReadWelcome(c) \/ NotifyFails(c) PROVE Inbox!Next
  BY <1>1, <1>12, MissPassesOver DEF Inbox!Next, Inbox!Msgs, Msgs
<1> QED BY <1>2, <1>3, <1>4, <1>5, <1>6, <1>8, <1>9, <1>10, <1>11, <1>12 DEF Next

\* The daemon, its database, the sockets and the shims together keep the
\* promise ReliableInbox states: accepted once per key, first handed over in
\* order but for those passed over when their turn came, settled only after
\* being handed over, forgotten only by a clear.
THEOREM Refinement == Safety => ImplementsInbox
<1>1. Inbox!Spec <=> Inbox!Init /\ [][Inbox!Next]_(Inbox!vars)
  BY DEF Inbox!Spec
<1> QED BY <1>1, InitRefines, StepRefines, Inductive, PTL DEF Safety, ImplementsInbox
=============================================================================
