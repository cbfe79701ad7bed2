---------------------------- MODULE IpcLinkProofs ----------------------------
(***************************************************************************)
(* Theorems about IpcLink, for any number of shims, connections, requests  *)
(* and faults.  The inductive invariant IInv follows a handshake through   *)
(* the wire: who still has to send its hello (Ungreeted), that a hello on  *)
(* the way is the only one and of a new connection (Hellos), that a        *)
(* welcome is on its way from an authenticated one (Welcomes).             *)
(***************************************************************************)
EXTENDS IpcLink, TLAPS

\* The frames of a queue.
Frames(q) == {q[i] : i \in 1..Len(q)}

\* At most one of them is a hello.
OneHello(q) ==
    \A i, j \in 1..Len(q) : q[i] = "hello" /\ q[j] = "hello" => i = j

\* Each connection has one client at most.
Sockets == \A p, q \in Shims : socket[p] = socket[q] /\ socket[p] # None => p = q

\* A socket whose 'close' event is to come is destroyed; nothing is read from
\* one that is destroyed.
Ends ==
    /\ \A c \in closing : ~open[c]
    /\ \A c \in Conns : ~open[c] => toDaemon[c] = <<>>

\* A hello on the way is the only one, and its connection is still new.
Hellos ==
    \A c \in Conns :
      /\ OneHello(toDaemon[c])
      /\ "hello" \in Frames(toDaemon[c]) => ctx[c] = "new"

\* A client that has not sent its hello is new to the server.
Ungreeted ==
    \A p \in Shims :
      socket[p] # None /\ ~greeted[p] =>
        /\ open[socket[p]] => ctx[socket[p]] = "new"
        /\ "hello" \notin Frames(toDaemon[socket[p]])

\* A welcome is on its way from a connection that is authenticated.
Welcomes ==
    \A c \in Conns :
      open[c] /\ "welcome" \in Frames(toShim[c]) => ctx[c] = "authenticated"

\* A client that was welcomed is authenticated, as long as its socket lasts.
Welcomed ==
    \A p \in Shims :
      link[p] = "connected" =>
        socket[p] # None /\ (open[socket[p]] => ctx[socket[p]] = "authenticated")

\* The row of a session in the map says so.
RowFollowsMap == registered # None => dbState = "connected"

\* A result is of a request that was taken up.
Results ==
    /\ due \subseteq handled
    /\ \A c \in Conns : Frames(toShim[c]) \cap Reqs \subseteq handled

IInv ==
    /\ TypeOK
    /\ Sockets
    /\ Ends
    /\ Hellos
    /\ Ungreeted
    /\ Welcomes
    /\ Welcomed
    /\ RowFollowsMap
    /\ Results
    /\ OneServed
    /\ SentWasHandled

-----------------------------------------------------------------------------
(* Queues                                                                  *)

\* The empty queue.
LEMMA EmptyQueue == Frames(<<>>) = {} /\ OneHello(<<>>)
BY DEF Frames, OneHello

\* A frame written at the end of a queue.
LEMMA FramesAppend ==
    ASSUME NEW S, NEW q \in Seq(S), NEW f \in S
    PROVE  /\ Append(q, f) \in Seq(S)
           /\ Frames(Append(q, f)) = Frames(q) \cup {f}
           /\ OneHello(q) /\ (f = "hello" => "hello" \notin Frames(q)) => OneHello(Append(q, f))
<1>1. Append(q, f) \in Seq(S) /\ Len(Append(q, f)) = Len(q) + 1
  OBVIOUS
<1>2. /\ Append(q, f)[Len(q) + 1] = f
      /\ \A i \in 1..Len(q) : Append(q, f)[i] = q[i]
  OBVIOUS
<1>3. \A i \in 1..Len(Append(q, f)) : i \in 1..Len(q) \/ i = Len(q) + 1
  BY <1>1
<1>4. 1..Len(q) \subseteq 1..Len(Append(q, f)) /\ Len(q) + 1 \in 1..Len(Append(q, f))
  BY <1>1
<1>5. Frames(Append(q, f)) = Frames(q) \cup {f}
  BY <1>2, <1>3, <1>4, Zenon DEF Frames
<1>6. ASSUME OneHello(q), f = "hello" => "hello" \notin Frames(q)
      PROVE  OneHello(Append(q, f))
  BY <1>2, <1>3, <1>6, Zenon DEF OneHello, Frames
<1> QED BY <1>1, <1>5, <1>6

\* A frame read from the front of a queue.
LEMMA FramesTail ==
    ASSUME NEW S, NEW q \in Seq(S), q # <<>>
    PROVE  /\ Tail(q) \in Seq(S) /\ Head(q) \in S
           /\ Head(q) \in Frames(q)
           /\ Frames(Tail(q)) \subseteq Frames(q)
           /\ OneHello(q) => OneHello(Tail(q))
           /\ OneHello(q) /\ Head(q) = "hello" => "hello" \notin Frames(Tail(q))
<1>1. /\ Head(q) = q[1] /\ 1 \in 1..Len(q)
      /\ Tail(q) \in Seq(S) /\ Head(q) \in S
      /\ \A i \in 1..Len(Tail(q)) : i + 1 \in 1..Len(q) /\ Tail(q)[i] = q[i + 1]
  OBVIOUS
<1>2. \A i, j \in 1..Len(Tail(q)) : i + 1 # 1 /\ (i + 1 = j + 1 => i = j)
  OBVIOUS
<1>3. Head(q) \in Frames(q) /\ Frames(Tail(q)) \subseteq Frames(q)
  <2>1. \E i \in 1..Len(q) : q[i] = Head(q)
    BY <1>1
  <2>2. ASSUME NEW f \in Frames(Tail(q)) PROVE f \in Frames(q)
    BY <1>1 DEF Frames
  <2> QED BY <2>1, <2>2 DEF Frames
<1>4. OneHello(q) => OneHello(Tail(q))
  BY <1>1, <1>2, Zenon DEF OneHello
<1>5. OneHello(q) /\ Head(q) = "hello" => "hello" \notin Frames(Tail(q))
  <2> SUFFICES ASSUME OneHello(q), q[1] = "hello", NEW i \in 1..Len(Tail(q)), Tail(q)[i] = "hello"
               PROVE  FALSE
    BY <1>1 DEF Frames
  <2>1. i + 1 = 1
    BY <1>1 DEF OneHello
  <2> QED BY <2>1, <1>2
<1> QED BY <1>1, <1>3, <1>4, <1>5

-----------------------------------------------------------------------------
(* Type correctness                                                        *)

\* The initial state is well typed.
LEMMA InitType == Init => TypeOK
<1> SUFFICES ASSUME Init PROVE TypeOK
  OBVIOUS
<1>1. (CHOOSE p \in Shims : TRUE) \in Shims
  BY LinkAssumption
<1>2. <<>> \in Seq(ShimFrames) /\ <<>> \in Seq(DaemonFrames)
  OBVIOUS
<1>3. asker \in [Reqs -> Shims]
  BY <1>1, Zenon DEF Init
<1>4. toDaemon \in [Conns -> Seq(ShimFrames)] /\ toShim \in [Conns -> Seq(DaemonFrames)]
  BY <1>2 DEF Init
<1>5. faults \in 0..MaxFaults
  BY LinkAssumption DEF Init
<1> QED BY <1>3, <1>4, <1>5 DEF Init, TypeOK

\* What the server writes keeps the type of what is on the way.
LEMMA SendType ==
    ASSUME TypeOK, NEW c \in Conns, NEW f \in DaemonFrames, SendToShim(c, f)
    PROVE  toShim' \in [Conns -> Seq(DaemonFrames)]
BY DEF SendToShim, TypeOK

\* So does what a shim writes.
LEMMA WriteType ==
    ASSUME TypeOK, NEW p \in Shims, NEW f \in ShimFrames, SendToDaemon(p, f), socket[p] # None
    PROVE  toDaemon' \in [Conns -> Seq(ShimFrames)]
BY DEF SendToDaemon, TypeOK

\* Destroying sockets keeps the types of the server's ends.
LEMMA DestroyType ==
    ASSUME TypeOK, NEW D \in SUBSET Conns, Destroy(D)
    PROVE  open' \in [Conns -> BOOLEAN] /\ closing' \in SUBSET Conns
BY DEF Destroy, TypeOK

\* Every step of the server keeps the types.
LEMMA ServerType == TypeOK /\ ServerStep => TypeOK'
<1> SUFFICES ASSUME TypeOK, ServerStep PROVE TypeOK'
  OBVIOUS
<1> USE DEF TypeOK, server, shim
<1>1. ASSUME NEW c \in Conns, ReadHello(c) PROVE TypeOK'
  BY <1>1, FramesTail DEF ReadHello
<1>2. ASSUME NEW c \in Conns, Verified(c) PROVE TypeOK'
  <2>1. toShim' \in [Conns -> Seq(DaemonFrames)]
    BY <1>2, SendType DEF Verified, DaemonFrames
  <2>2. toDaemon' \in [Conns -> Seq(ShimFrames)]
    BY <1>2 DEF Verified
  <2>3. open' \in [Conns -> BOOLEAN] /\ closing' \in SUBSET Conns
    <3>1. Displaced \in SUBSET Conns
      BY DEF Displaced
    <3> QED BY <1>2, <3>1, DestroyType DEF Verified
  <2> QED BY <1>2, <2>1, <2>2, <2>3 DEF Verified
<1>3. ASSUME NEW c \in Conns, ReadReply(c) PROVE TypeOK'
  BY <1>3, FramesTail DEF ReadReply
<1>4. ASSUME NEW c \in Conns, Refuse(c) PROVE TypeOK'
  <2>1. toShim' \in [Conns -> Seq(DaemonFrames)]
    BY <1>4, SendType DEF Refuse, DaemonFrames
  <2>2. open' \in [Conns -> BOOLEAN] /\ closing' \in SUBSET Conns
    BY <1>4, DestroyType DEF Refuse
  <2>3. toDaemon' \in [Conns -> Seq(ShimFrames)]
    BY <1>4 DEF Refuse
  <2> QED BY <1>4, <2>1, <2>2, <2>3 DEF Refuse
<1>5. ASSUME NEW r \in Reqs, SendResult(r) PROVE TypeOK'
  <2>1. toShim' \in [Conns -> Seq(DaemonFrames)]
    BY <1>5, SendType DEF SendResult, DaemonFrames
  <2> QED BY <1>5, <2>1 DEF SendResult
<1>6. ASSUME NEW c \in Conns, PeerClosed(c) PROVE TypeOK'
  BY <1>6, DestroyType DEF PeerClosed
<1>7. ASSUME NEW c \in Conns, HeartbeatTimeout(c) PROVE TypeOK'
  <2>1. open' \in [Conns -> BOOLEAN] /\ closing' \in SUBSET Conns
    BY <1>7, DestroyType DEF HeartbeatTimeout
  <2>2. toDaemon' \in [Conns -> Seq(ShimFrames)] /\ faults' \in 0..MaxFaults
    BY <1>7, LinkAssumption DEF HeartbeatTimeout
  <2> QED BY <1>7, <2>1, <2>2 DEF HeartbeatTimeout
<1>8. ASSUME NEW c \in Conns, Teardown(c) PROVE TypeOK'
  BY <1>8 DEF Teardown, MarkedDisconnected
<1>9. CASE DaemonDown
  <2>1. <<>> \in Seq(ShimFrames)
    OBVIOUS
  <2>2. toDaemon' \in [Conns -> Seq(ShimFrames)] /\ faults' \in 0..MaxFaults
    BY <1>9, <2>1, LinkAssumption DEF DaemonDown
  <2> QED BY <1>9, <2>2 DEF DaemonDown
<1>10. CASE DaemonStart
  BY <1>10 DEF DaemonStart
<1> QED BY <1>1, <1>2, <1>3, <1>4, <1>5, <1>6, <1>7, <1>8, <1>9, <1>10 DEF ServerStep

\* Every step of a shim keeps the types.
LEMMA ShimType == TypeOK /\ ShimStep => TypeOK'
<1> SUFFICES ASSUME TypeOK, ShimStep PROVE TypeOK'
  OBVIOUS
<1> USE DEF TypeOK, server, shim
<1>1. ASSUME NEW p \in Shims, StartShim(p) PROVE TypeOK'
  BY <1>1 DEF StartShim
<1>2. ASSUME NEW p \in Shims, NEW c \in Conns, Attempt(p, c) PROVE TypeOK'
  BY <1>2 DEF Attempt
<1>3. ASSUME NEW p \in Shims, GiveUpStarting(p) PROVE TypeOK'
  BY <1>3 DEF GiveUpStarting
<1>4. ASSUME NEW p \in Shims, Greet(p) PROVE TypeOK'
  <2>1. toDaemon' \in [Conns -> Seq(ShimFrames)]
    BY <1>4, WriteType DEF Greet, ShimFrames
  <2> QED BY <1>4, <2>1 DEF Greet
<1>5. ASSUME NEW p \in Shims, NEW r \in Reqs, Reply(p, r) PROVE TypeOK'
  <2>1. toDaemon' \in [Conns -> Seq(ShimFrames)]
    BY <1>5, WriteType DEF Reply, ShimFrames
  <2> QED BY <1>5, <2>1 DEF Reply, AfterWrite
<1>6. ASSUME NEW r \in Reqs, RequestTimeout(r) PROVE TypeOK'
  BY <1>6 DEF RequestTimeout
<1>7. ASSUME NEW p \in Shims, ReadWelcome(p) PROVE TypeOK'
  BY <1>7, FramesTail DEF ReadWelcome, Receive
<1>8. ASSUME NEW p \in Shims, ReadResult(p) PROVE TypeOK'
  BY <1>8, FramesTail DEF ReadResult, Receive
<1>9. ASSUME NEW p \in Shims, ReadError(p) PROVE TypeOK'
  <2>1. toShim' \in [Conns -> Seq(DaemonFrames)]
    <3>1. socket[p] \in Conns /\ toShim[socket[p]] # <<>>
      BY <1>9 DEF ReadError, Receive
    <3>2. Tail(toShim[socket[p]]) \in Seq(DaemonFrames) /\ <<>> \in Seq(DaemonFrames)
      BY <3>1, FramesTail
    <3> QED BY <1>9, <3>1, <3>2 DEF ReadError
  <2>2. stopped' \in [Shims -> BOOLEAN] /\ end' \in [Conns -> BOOLEAN]
    BY <1>9 DEF ReadError, Receive
  <2> QED BY <1>9, <2>1, <2>2 DEF ReadError
<1>10. ASSUME NEW p \in Shims, ShimClose(p) PROVE TypeOK'
  BY <1>10 DEF ShimClose, FailPending
<1>11. ASSUME NEW p \in Shims, ShimDies(p) PROVE TypeOK'
  BY <1>11, LinkAssumption DEF ShimDies, FailPending
<1> QED BY <1>1, <1>2, <1>3, <1>4, <1>5, <1>6, <1>7, <1>8, <1>9, <1>10, <1>11 DEF ShimStep

\* Every variable keeps its type: what the states, queues and counters of both
\* ends may hold.
THEOREM TypeCorrect == Spec => []TypeOK
<1>1. TypeOK /\ UNCHANGED vars => TypeOK'
  BY DEF TypeOK, vars
<1> QED BY <1>1, InitType, ServerType, ShimType, PTL DEF Spec, Safety, Next

-----------------------------------------------------------------------------
(* The invariant                                                           *)

\* It holds at the start: there are no connections.
LEMMA InitInv == Init => IInv
<1> SUFFICES ASSUME Init PROVE IInv
  OBVIOUS
<1>1. /\ \A c \in Conns : ~open[c] /\ toDaemon[c] = <<>> /\ toShim[c] = <<>>
      /\ \A p \in Shims : socket[p] = None /\ link[p] = "disconnected"
      /\ \A r \in Reqs : request[r] = "unused"
  BY DEF Init
<1>2. closing = {} /\ due = {} /\ registered = None
  BY DEF Init
<1>3. Hellos /\ Welcomes /\ Results
  BY <1>1, <1>2, EmptyQueue DEF Hellos, Welcomes, Results
<1>4. Sockets /\ Ends /\ Ungreeted /\ Welcomed /\ RowFollowsMap
  BY <1>1, <1>2 DEF Sockets, Ends, Ungreeted, Welcomed, RowFollowsMap
<1> QED BY <1>1, <1>3, <1>4, InitType DEF IInv, OneServed, SentWasHandled

\* What the server writes is on the way, if the connection lasts.
LEMMA SendFrames ==
    ASSUME TypeOK, NEW c \in Conns, NEW f \in DaemonFrames, SendToShim(c, f),
           NEW d \in Conns
    PROVE  /\ d # c => Frames(toShim'[d]) = Frames(toShim[d])
           /\ Frames(toShim'[d]) \subseteq Frames(toShim[d]) \cup {f}
<1>1. Frames(Append(toShim[c], f)) = Frames(toShim[c]) \cup {f}
  BY FramesAppend DEF TypeOK
<1> QED BY <1>1 DEF SendToShim, TypeOK

\* Every step of the server keeps it.
LEMMA ServerInv == IInv /\ ServerStep => IInv'
<1> SUFFICES ASSUME IInv, ServerStep PROVE IInv'
  OBVIOUS
<1> USE DEF server, shim
<1>0. TypeOK /\ TypeOK'
  BY ServerType DEF IInv
<1>1. ASSUME NEW c \in Conns, ReadHello(c) PROVE IInv'
  <2>1. ctx[c] = "new" /\ open[c]
    BY <1>0, <1>1, FramesTail DEF ReadHello, IInv, Hellos, TypeOK
  <2>2. /\ "hello" \notin Frames(toDaemon'[c]) /\ OneHello(toDaemon'[c])
        /\ \A d \in Conns : d # c => toDaemon'[d] = toDaemon[d] /\ ctx'[d] = ctx[d]
        /\ ctx'[c] = "verifying"
    BY <1>0, <1>1, FramesTail DEF ReadHello, IInv, Hellos, TypeOK
  <2>3. \A p \in Shims : socket[p] = c => greeted[p]
    <3>1. "hello" \in Frames(toDaemon[c])
      BY <1>0, <1>1, FramesTail DEF ReadHello, TypeOK
    <3> QED BY <3>1, LinkAssumption DEF IInv, Ungreeted
  <2>4. Hellos'
    BY <1>0, <2>2 DEF IInv, Hellos
  <2>5. Ungreeted'
    BY <1>0, <1>1, <2>2, <2>3 DEF ReadHello, IInv, Ungreeted, TypeOK
  <2>6. Welcomes' /\ Welcomed' /\ OneServed'
    BY <1>0, <1>1, <2>1, <2>2 DEF ReadHello, IInv, Welcomes, Welcomed, OneServed, TypeOK
  <2>7. Ends'
    BY <1>0, <1>1, <2>1, <2>2 DEF ReadHello, IInv, Ends
  <2>8. Sockets' /\ RowFollowsMap' /\ Results' /\ SentWasHandled'
    BY <1>1 DEF ReadHello, IInv, Sockets, RowFollowsMap, Results, SentWasHandled
  <2> QED BY <1>0, <2>4, <2>5, <2>6, <2>7, <2>8 DEF IInv
<1>2. ASSUME NEW c \in Conns, Verified(c) PROVE IInv'
  <2>1. /\ ctx' = [ctx EXCEPT ![c] = "authenticated"] /\ ctx[c] = "verifying"
        /\ registered' = c /\ dbState' = "connected"
        /\ open' = [d \in Conns |-> open[d] /\ d \notin Displaced]
        /\ closing' = closing \cup {d \in Displaced : open[d]}
        /\ toDaemon' = [d \in Conns |-> IF d \in Displaced THEN <<>> ELSE toDaemon[d]]
        /\ UNCHANGED <<handled, due, link, socket, greeted, request>>
    BY <1>2 DEF Verified, Destroy
  <2>2. \A d \in Conns : /\ d # c => Frames(toShim'[d]) = Frames(toShim[d])
                         /\ Frames(toShim'[d]) \subseteq Frames(toShim[d]) \cup {"welcome"}
    BY <1>0, <1>2, SendFrames DEF Verified, DaemonFrames
  <2>3. Displaced \subseteq Conns
    BY <1>0 DEF Displaced, TypeOK
  <2>4. OneServed'
    BY <1>0, <2>1, LinkAssumption DEF IInv, OneServed, TypeOK, Displaced
  <2>5. Hellos'
    BY <1>0, <2>1, EmptyQueue DEF IInv, Hellos, TypeOK
  <2>6. Ungreeted'
    BY <1>0, <2>1, EmptyQueue DEF IInv, Ungreeted, TypeOK
  <2>7. Welcomes'
    BY <1>0, <2>1, <2>2 DEF IInv, Welcomes, TypeOK
  <2>8. Welcomed'
    BY <1>0, <2>1 DEF IInv, Welcomed, TypeOK
  <2>9. Ends'
    BY <1>0, <2>1, <2>3 DEF IInv, Ends, TypeOK
  <2>10. Results'
    <3>1. "welcome" \notin Reqs
      BY LinkAssumption
    <3> QED BY <1>0, <2>1, <2>2, <3>1 DEF IInv, Results
  <2>11. Sockets' /\ RowFollowsMap' /\ SentWasHandled'
    BY <2>1 DEF IInv, Sockets, RowFollowsMap, SentWasHandled
  <2> QED BY <1>0, <2>4, <2>5, <2>6, <2>7, <2>8, <2>9, <2>10, <2>11 DEF IInv
<1>3. ASSUME NEW c \in Conns, ReadReply(c) PROVE IInv'
  <2>1. /\ Frames(toDaemon'[c]) \subseteq Frames(toDaemon[c])
        /\ OneHello(toDaemon[c]) => OneHello(toDaemon'[c])
        /\ \A d \in Conns : d # c => toDaemon'[d] = toDaemon[d]
    BY <1>0, <1>3, FramesTail DEF ReadReply, TypeOK
  <2>2. Hellos'
    BY <1>0, <1>3, <2>1 DEF ReadReply, IInv, Hellos
  <2>3. Ungreeted'
    BY <1>0, <1>3, <2>1 DEF ReadReply, IInv, Ungreeted, TypeOK
  <2>4. Ends'
    BY <1>0, <1>3, <2>1 DEF ReadReply, IInv, Ends
  <2>5. Results' /\ SentWasHandled'
    BY <1>3 DEF ReadReply, IInv, Results, SentWasHandled
  <2>6. Sockets' /\ Welcomes' /\ Welcomed' /\ RowFollowsMap' /\ OneServed'
    BY <1>3 DEF ReadReply, IInv, Sockets, Welcomes, Welcomed, RowFollowsMap, OneServed
  <2> QED BY <1>0, <2>2, <2>3, <2>4, <2>5, <2>6 DEF IInv
<1>4. ASSUME NEW c \in Conns, Refuse(c) PROVE IInv'
  <2>1. /\ open' = [d \in Conns |-> open[d] /\ d \notin {c}]
        /\ closing' = closing \cup {d \in {c} : open[d]}
        /\ toDaemon' = [toDaemon EXCEPT ![c] = <<>>]
        /\ UNCHANGED <<ctx, registered, dbState, handled, due, link, socket, greeted, request>>
    BY <1>4 DEF Refuse, Destroy
  <2>2. \A d \in Conns : /\ d # c => Frames(toShim'[d]) = Frames(toShim[d])
                         /\ Frames(toShim'[d]) \subseteq Frames(toShim[d]) \cup {"error"}
    BY <1>0, <1>4, SendFrames DEF Refuse, DaemonFrames
  <2>3. Results'
    <3>1. "error" \notin Reqs
      BY LinkAssumption
    <3> QED BY <2>1, <2>2, <3>1 DEF IInv, Results
  <2>4. Hellos'
    BY <1>0, <2>1, EmptyQueue DEF IInv, Hellos, TypeOK
  <2>5. Ungreeted'
    BY <1>0, <2>1, EmptyQueue DEF IInv, Ungreeted, TypeOK
  <2>6. Ends'
    BY <1>0, <2>1 DEF IInv, Ends, TypeOK
  <2>7. Welcomes' /\ Welcomed' /\ OneServed'
    BY <1>0, <2>1, <2>2 DEF IInv, Welcomes, Welcomed, OneServed, TypeOK
  <2>8. Sockets' /\ RowFollowsMap' /\ SentWasHandled'
    BY <2>1 DEF IInv, Sockets, RowFollowsMap, SentWasHandled
  <2> QED BY <1>0, <2>3, <2>4, <2>5, <2>6, <2>7, <2>8 DEF IInv
<1>5. ASSUME NEW r \in Reqs, SendResult(r) PROVE IInv'
  <2>1. /\ due' = due \ {r} /\ r \in due
        /\ UNCHANGED <<open, ctx, closing, registered, dbState, handled, link, socket,
                       greeted, request, toDaemon>>
    BY <1>5 DEF SendResult
  <2>2. \A d \in Conns : Frames(toShim'[d]) \subseteq Frames(toShim[d]) \cup {r}
    BY <1>0, <1>5, SendFrames DEF SendResult, DaemonFrames, TypeOK
  <2>3. Results'
    BY <2>1, <2>2 DEF IInv, Results
  <2>4. Welcomes'
    <3>1. r # "welcome"
      BY LinkAssumption
    <3> QED BY <2>1, <2>2, <3>1 DEF IInv, Welcomes
  <2>5. /\ Hellos' /\ Ungreeted' /\ Ends' /\ Welcomed' /\ OneServed'
        /\ Sockets' /\ RowFollowsMap' /\ SentWasHandled'
    BY <2>1 DEF IInv, Hellos, Ungreeted, Ends, Welcomed, OneServed, Sockets,
                RowFollowsMap, SentWasHandled
  <2> QED BY <1>0, <2>3, <2>4, <2>5 DEF IInv
<1>6. ASSUME NEW c \in Conns, PeerClosed(c) \/ HeartbeatTimeout(c) PROVE IInv'
  <2>1. /\ open' = [d \in Conns |-> open[d] /\ d \notin {c}]
        /\ closing' = closing \cup {d \in {c} : open[d]}
        /\ toDaemon' = [toDaemon EXCEPT ![c] = <<>>]
        /\ UNCHANGED <<ctx, registered, dbState, handled, due, link, socket, greeted, request,
                       toShim>>
    BY <1>0, <1>6 DEF PeerClosed, HeartbeatTimeout, Destroy, TypeOK
  <2>2. Hellos'
    BY <1>0, <2>1, EmptyQueue DEF IInv, Hellos, TypeOK
  <2>3. Ungreeted'
    BY <1>0, <2>1, EmptyQueue DEF IInv, Ungreeted, TypeOK
  <2>4. Ends'
    BY <1>0, <2>1 DEF IInv, Ends, TypeOK
  <2>5. Welcomes' /\ Welcomed' /\ OneServed'
    BY <1>0, <2>1 DEF IInv, Welcomes, Welcomed, OneServed, TypeOK
  <2>6. Sockets' /\ RowFollowsMap' /\ SentWasHandled' /\ Results'
    BY <2>1 DEF IInv, Sockets, RowFollowsMap, SentWasHandled, Results
  <2> QED BY <1>0, <2>2, <2>3, <2>4, <2>5, <2>6 DEF IInv
<1>7. ASSUME NEW c \in Conns, Teardown(c) PROVE IInv'
  <2>1. ~open[c] /\ toDaemon[c] = <<>>
    BY <1>7 DEF Teardown, IInv, Ends
  <2>2. /\ \A d \in Conns : d # c => ctx'[d] = ctx[d]
        /\ ctx'[c] \in {"new", "verifying"}
        /\ UNCHANGED <<open, handled, due, link, socket, greeted, request, toDaemon, toShim>>
        /\ closing' \subseteq closing
    BY <1>0, <1>7 DEF Teardown, TypeOK
  <2>3. Hellos'
    BY <2>1, <2>2, EmptyQueue DEF IInv, Hellos
  <2>4. Ungreeted'
    BY <1>0, <2>1, <2>2 DEF IInv, Ungreeted, TypeOK
  <2>5. OneServed' /\ RowFollowsMap'
    BY <1>0, <1>7, <2>1, <2>2, LinkAssumption DEF Teardown, IInv, OneServed, RowFollowsMap,
       IsRegistered, TypeOK
  <2>6. Welcomes' /\ Welcomed'
    BY <1>0, <2>1, <2>2 DEF IInv, Welcomes, Welcomed, TypeOK
  <2>7. Ends' /\ Sockets' /\ SentWasHandled' /\ Results'
    BY <2>2 DEF IInv, Ends, Sockets, SentWasHandled, Results
  <2> QED BY <1>0, <2>3, <2>4, <2>5, <2>6, <2>7 DEF IInv
<1>8. CASE DaemonDown
  <2>1. /\ \A c \in Conns : ~open'[c] /\ toDaemon'[c] = <<>> /\ ctx'[c] = "new"
        /\ closing' = {} /\ registered' = None /\ due' = {}
        /\ UNCHANGED <<handled, link, socket, greeted, request, toShim>>
    BY <1>8 DEF DaemonDown
  <2>2. Hellos' /\ Ungreeted'
    BY <1>0, <2>1, EmptyQueue DEF Hellos, Ungreeted, TypeOK
  <2>3. Welcomes' /\ OneServed' /\ RowFollowsMap' /\ Ends'
    BY <2>1 DEF Welcomes, OneServed, RowFollowsMap, Ends
  <2>4. Welcomed'
    BY <1>0, <2>1 DEF IInv, Welcomed, TypeOK
  <2>5. Sockets' /\ SentWasHandled' /\ Results'
    BY <2>1 DEF IInv, Sockets, SentWasHandled, Results
  <2> QED BY <1>0, <2>2, <2>3, <2>4, <2>5 DEF IInv
<1>9. CASE DaemonStart
  BY <1>0, <1>9 DEF DaemonStart, IInv, Hellos, Ungreeted, Welcomes, Welcomed, OneServed, Ends,
     Sockets, RowFollowsMap, SentWasHandled, Results
<1> QED BY <1>1, <1>2, <1>3, <1>4, <1>5, <1>6, <1>7, <1>8, <1>9 DEF ServerStep

\* Every step of a shim keeps it.
LEMMA ShimInv == IInv /\ ShimStep => IInv'
<1> SUFFICES ASSUME IInv, ShimStep PROVE IInv'
  OBVIOUS
<1> USE DEF server, shim
<1>0. TypeOK /\ TypeOK'
  BY ShimType DEF IInv
<1>1. ASSUME NEW p \in Shims, StartShim(p) \/ GiveUpStarting(p) PROVE IInv'
  BY <1>0, <1>1 DEF StartShim, GiveUpStarting, IInv, Hellos, Ungreeted, Welcomes, Welcomed,
     OneServed, Ends, Sockets, RowFollowsMap, SentWasHandled, Results
<1>2. ASSUME NEW p \in Shims, NEW c \in Conns, Attempt(p, c) PROVE IInv'
  <2>1. /\ socket' = [socket EXCEPT ![p] = c] /\ greeted' = [greeted EXCEPT ![p] = FALSE]
        /\ link' = [link EXCEPT ![p] = "connecting"]
        /\ open' = [open EXCEPT ![c] = TRUE] /\ ctx' = [ctx EXCEPT ![c] = "new"]
        /\ toShim' = [toShim EXCEPT ![c] = <<>>] /\ toDaemon' = [toDaemon EXCEPT ![c] = <<>>]
        /\ UNCHANGED <<closing, registered, dbState, handled, due, request>>
    BY <1>2 DEF Attempt
  <2>2. c \notin closing /\ \A q \in Shims : socket[q] # c
    BY <1>2 DEF Attempt, Fresh
  <2>3. Sockets'
    BY <1>0, <2>1, <2>2 DEF IInv, Sockets, TypeOK
  <2>4. Ends'
    BY <1>0, <2>1, <2>2 DEF IInv, Ends, TypeOK
  <2>5. Hellos' /\ Welcomes' /\ Results'
    BY <1>0, <2>1, EmptyQueue DEF IInv, Hellos, Welcomes, Results, TypeOK
  <2>6. Ungreeted'
    BY <1>0, <2>1, <2>2, EmptyQueue DEF IInv, Ungreeted, TypeOK
  <2>7. Welcomed'
    BY <1>0, <2>1, <2>2 DEF IInv, Welcomed, TypeOK
  <2>8. RowFollowsMap' /\ OneServed' /\ SentWasHandled'
    BY <1>0, <2>1 DEF IInv, RowFollowsMap, OneServed, SentWasHandled, TypeOK
  <2> QED BY <1>0, <2>3, <2>4, <2>5, <2>6, <2>7, <2>8 DEF IInv
<1>3. ASSUME NEW p \in Shims, Greet(p) PROVE IInv'
  <2>1. /\ socket[p] \in Conns /\ ~greeted[p] /\ socket[p] # None
        /\ greeted' = [greeted EXCEPT ![p] = TRUE]
        /\ UNCHANGED <<open, ctx, closing, registered, dbState, handled, due, link, socket,
                       request, toShim>>
        /\ toDaemon' = IF open[socket[p]]
                       THEN [toDaemon EXCEPT ![socket[p]] = Append(@, "hello")] ELSE toDaemon
    BY <1>0, <1>3 DEF Greet, SendToDaemon, TypeOK
  <2>2. /\ open[socket[p]] => ctx[socket[p]] = "new"
        /\ "hello" \notin Frames(toDaemon[socket[p]])
    BY <2>1 DEF IInv, Ungreeted
  <2>3. LET q == Append(toDaemon[socket[p]], "hello") IN
        OneHello(q) /\ Frames(q) = Frames(toDaemon[socket[p]]) \cup {"hello"}
    BY <1>0, <2>1, <2>2, FramesAppend DEF IInv, Hellos, TypeOK, ShimFrames
  <2>4. Hellos'
    BY <1>0, <2>1, <2>2, <2>3 DEF IInv, Hellos, TypeOK
  <2>5. Ungreeted'
    BY <1>0, <2>1 DEF IInv, Ungreeted, Sockets, TypeOK
  <2>6. Ends'
    BY <1>0, <2>1 DEF IInv, Ends, TypeOK
  <2>7. /\ Sockets' /\ Welcomes' /\ Welcomed' /\ RowFollowsMap' /\ Results'
        /\ OneServed' /\ SentWasHandled'
    BY <2>1 DEF IInv, Sockets, Welcomes, Welcomed, RowFollowsMap, Results, OneServed,
                SentWasHandled
  <2> QED BY <1>0, <2>4, <2>5, <2>6, <2>7 DEF IInv
<1>4. ASSUME NEW p \in Shims, NEW r \in Reqs, Reply(p, r) PROVE IInv'
  <2>1. /\ UNCHANGED <<open, ctx, closing, registered, dbState, handled, due, link, socket,
                       greeted, toShim>>
        /\ \E outcome \in {"pending", "failed"} : request' = [request EXCEPT ![r] = outcome]
    BY <1>4 DEF Reply, AfterWrite
  <2>2. \/ UNCHANGED toDaemon
        \/ /\ socket[p] \in Conns /\ open[socket[p]]
           /\ toDaemon' = [toDaemon EXCEPT ![socket[p]] = Append(@, r)]
    BY <1>0, <1>4 DEF Reply, SendToDaemon, TypeOK
  <2>3. ASSUME NEW c \in Conns
        PROVE  /\ OneHello(toDaemon[c]) => OneHello(Append(toDaemon[c], r))
               /\ "hello" \in Frames(Append(toDaemon[c], r)) => "hello" \in Frames(toDaemon[c])
    <3>1. r # "hello" /\ r \in ShimFrames
      BY LinkAssumption DEF ShimFrames
    <3>2. Frames(Append(toDaemon[c], r)) = Frames(toDaemon[c]) \cup {r}
      BY <1>0, <3>1, FramesAppend DEF TypeOK
    <3> QED BY <1>0, <3>1, <3>2, FramesAppend DEF TypeOK
  <2>4. \A c \in Conns :
          /\ OneHello(toDaemon[c]) => OneHello(toDaemon'[c])
          /\ "hello" \in Frames(toDaemon'[c]) => "hello" \in Frames(toDaemon[c])
    <3>1. \A c \in Conns :
            toDaemon'[c] = toDaemon[c] \/ toDaemon'[c] = Append(toDaemon[c], r)
      BY <1>0, <2>2 DEF TypeOK
    <3> QED BY <2>3, <3>1
  <2>5. Hellos' /\ Ungreeted'
    BY <1>0, <2>1, <2>4 DEF IInv, Hellos, Ungreeted, TypeOK
  <2>6. Ends'
    BY <1>0, <2>1, <2>2 DEF IInv, Ends, TypeOK
  <2>7. SentWasHandled'
    BY <1>0, <2>1 DEF IInv, SentWasHandled, TypeOK
  <2>8. Sockets' /\ Welcomes' /\ Welcomed' /\ RowFollowsMap' /\ Results' /\ OneServed'
    BY <2>1 DEF IInv, Sockets, Welcomes, Welcomed, RowFollowsMap, Results, OneServed
  <2> QED BY <1>0, <2>5, <2>6, <2>7, <2>8 DEF IInv
<1>5. ASSUME NEW r \in Reqs, RequestTimeout(r) PROVE IInv'
  <2>1. SentWasHandled'
    BY <1>0, <1>5 DEF RequestTimeout, IInv, SentWasHandled, TypeOK
  <2> QED BY <1>0, <1>5, <2>1 DEF RequestTimeout, IInv, Hellos, Ungreeted, Welcomes, Welcomed,
             OneServed, Ends, Sockets, RowFollowsMap, Results
<1>6. ASSUME NEW p \in Shims, ReadWelcome(p) \/ ReadResult(p) \/ ReadError(p) PROVE IInv'
  <2>1. socket[p] \in Conns /\ toShim[socket[p]] # <<>> /\ socket[p] # None
    BY <1>0, <1>6 DEF ReadWelcome, ReadResult, ReadError, Receive, TypeOK
  <2>2. /\ UNCHANGED <<open, ctx, closing, registered, dbState, handled, due, socket,
                       greeted, toDaemon>>
        /\ toShim' \in {[toShim EXCEPT ![socket[p]] = Tail(@)],
                        [toShim EXCEPT ![socket[p]] = <<>>]}
    BY <1>6 DEF ReadWelcome, ReadResult, ReadError
  <2>3. \A c \in Conns : Frames(toShim'[c]) \subseteq Frames(toShim[c])
    <3>1. Frames(Tail(toShim[socket[p]])) \subseteq Frames(toShim[socket[p]])
      BY <1>0, <2>1, FramesTail DEF TypeOK
    <3>2. CASE toShim' = [toShim EXCEPT ![socket[p]] = Tail(@)]
      BY <1>0, <2>1, <3>1, <3>2 DEF TypeOK
    <3>3. CASE toShim' = [toShim EXCEPT ![socket[p]] = <<>>]
      BY <1>0, <2>1, <3>3, EmptyQueue DEF TypeOK
    <3> QED BY <2>2, <3>2, <3>3
  <2>4. Head(toShim[socket[p]]) \in Frames(toShim[socket[p]])
    BY <1>0, <2>1, FramesTail DEF TypeOK
  <2>5. Welcomed'
    <3>1. CASE ReadWelcome(p)
      BY <1>0, <2>1, <2>2, <2>4, <3>1 DEF ReadWelcome, Receive, IInv, Welcomed, Welcomes, TypeOK
    <3>2. CASE ReadResult(p) \/ ReadError(p)
      BY <2>2, <3>2 DEF ReadResult, ReadError, IInv, Welcomed
    <3> QED BY <1>6, <3>1, <3>2
  <2>6. SentWasHandled'
    <3>1. CASE ReadResult(p)
      BY <1>0, <2>1, <2>2, <2>4, <3>1
         DEF ReadResult, Receive, Answered, IInv, Results, SentWasHandled, TypeOK
    <3>2. CASE ReadWelcome(p) \/ ReadError(p)
      BY <2>2, <3>2 DEF ReadWelcome, ReadError, IInv, SentWasHandled
    <3> QED BY <1>6, <3>1, <3>2
  <2>7. Welcomes' /\ Results'
    BY <2>2, <2>3 DEF IInv, Welcomes, Results
  <2>8. Hellos' /\ Ungreeted' /\ Ends' /\ Sockets' /\ RowFollowsMap' /\ OneServed'
    BY <2>2 DEF IInv, Hellos, Ungreeted, Ends, Sockets, RowFollowsMap, OneServed
  <2> QED BY <1>0, <2>5, <2>6, <2>7, <2>8 DEF IInv
<1>7. ASSUME NEW p \in Shims, ShimClose(p) \/ ShimDies(p) PROVE IInv'
  <2>1. /\ UNCHANGED <<open, ctx, closing, registered, dbState, handled, due, greeted, toDaemon>>
        /\ socket' = [socket EXCEPT ![p] = None]
        /\ link' = [link EXCEPT ![p] = "disconnected"]
        /\ request' = FailPending(p)
    BY <1>7 DEF ShimClose, ShimDies
  <2>2. \A c \in Conns : toShim'[c] \in {toShim[c], <<>>}
    BY <1>7 DEF ShimClose, ShimDies
  <2>3. Welcomes' /\ Results'
    BY <2>1, <2>2, EmptyQueue DEF IInv, Welcomes, Results
  <2>4. Welcomed'
    BY <1>0, <2>1 DEF IInv, Welcomed, TypeOK
  <2>5. Ungreeted'
    BY <1>0, <2>1 DEF IInv, Ungreeted, TypeOK
  <2>6. Sockets'
    BY <1>0, <2>1 DEF IInv, Sockets, TypeOK
  <2>7. SentWasHandled'
    BY <2>1 DEF IInv, SentWasHandled, FailPending
  <2>8. Hellos' /\ Ends' /\ RowFollowsMap' /\ OneServed'
    BY <2>1 DEF IInv, Hellos, Ends, RowFollowsMap, OneServed
  <2> QED BY <1>0, <2>3, <2>4, <2>5, <2>6, <2>7, <2>8 DEF IInv
<1> QED BY <1>1, <1>2, <1>3, <1>4, <1>5, <1>6, <1>7 DEF ShimStep

\* Every behaviour keeps the invariant.
THEOREM Inductive == Spec => []IInv
<1>1. IInv /\ UNCHANGED vars => IInv'
  BY DEF vars, IInv, TypeOK, Hellos, Ungreeted, Welcomes, Welcomed, OneServed, Ends, Sockets,
     RowFollowsMap, SentWasHandled, Results
<1> QED BY <1>1, InitInv, ServerInv, ShimInv, PTL DEF Spec, Safety, Next

-----------------------------------------------------------------------------
(* What the link guarantees                                                *)

\* However token checks, displacements and close events interleave, at most one
\* connection of the session is served, the registered one (handleFrame hello,
\* teardownConnection).
THEOREM ServedIsRegistered == Spec => []OneServed
BY Inductive, PTL DEF IInv

\* A client that takes itself for connected, on a socket the server keeps, is the
\* registered one, and the row of its session says connected.
THEOREM ClientAndMapAgree == Spec => []ConnectedIsRegistered
<1>1. IInv => ConnectedIsRegistered
  <2> SUFFICES ASSUME IInv, NEW p \in Shims, link[p] = "connected", open[socket[p]]
               PROVE  registered = socket[p] /\ dbState = "connected"
    BY DEF ConnectedIsRegistered
  <2>1. socket[p] \in Conns /\ socket[p] # None /\ ctx[socket[p]] = "authenticated"
    BY DEF IInv, Welcomed, TypeOK
  <2> QED BY <2>1 DEF IInv, OneServed, RowFollowsMap
<1> QED BY <1>1, Inductive, PTL

\* claude hears "sent" only of a reply that the daemon took up, through timers,
\* lost connections and late results.
THEOREM SentIsHandled == Spec => []SentWasHandled
BY Inductive, PTL DEF IInv
\* A request that waits has a connection its result may come over: the close of
\* a socket, or the death of its shim, takes the requests made over it along
\* (failPendingRequests).
THEOREM WaitingHasConnection == Spec => []PendingHasSocket
<1>1. Init => PendingHasSocket
  BY DEF Init, PendingHasSocket
<1>2. TypeOK /\ PendingHasSocket /\ [Next]_vars => PendingHasSocket'
  <2> SUFFICES ASSUME TypeOK, PendingHasSocket, [Next]_vars PROVE PendingHasSocket'
    OBVIOUS
  <2> USE DEF PendingHasSocket, TypeOK, server, shim
  <2>1. CASE UNCHANGED <<socket, request, asker>>
    BY <2>1
  <2>2. CASE ServerStep
    <3>1. UNCHANGED shim
      BY <2>2 DEF ServerStep, ReadHello, Verified, ReadReply, Refuse, SendResult, PeerClosed,
         HeartbeatTimeout, Teardown, DaemonDown, DaemonStart
    <3> QED BY <2>1, <3>1
  <2>3. ASSUME NEW p \in Shims, NEW c \in Conns, Attempt(p, c) PROVE PendingHasSocket'
    BY <2>3, LinkAssumption DEF Attempt
  <2>4. ASSUME NEW p \in Shims, NEW r \in Reqs, Reply(p, r) PROVE PendingHasSocket'
    <3>1. /\ socket' = socket /\ asker' = [asker EXCEPT ![r] = p]
          /\ \E outcome \in {"pending", "failed"} : request' = [request EXCEPT ![r] = outcome]
          /\ socket[p] = None => request' = [request EXCEPT ![r] = "failed"]
      BY <2>4 DEF Reply, AfterWrite
    <3> QED BY <3>1
  <2>5. ASSUME NEW r \in Reqs, RequestTimeout(r) PROVE PendingHasSocket'
    BY <2>5 DEF RequestTimeout
  <2>6. ASSUME NEW p \in Shims, ReadResult(p) PROVE PendingHasSocket'
    <3>1. /\ UNCHANGED <<socket, asker>>
          /\ \A r \in Reqs : request'[r] = "pending" => request[r] = "pending"
      BY <2>6 DEF ReadResult
    <3> QED BY <3>1
  <2>7. ASSUME NEW p \in Shims, ShimClose(p) \/ ShimDies(p) PROVE PendingHasSocket'
    <3>1. socket' = [socket EXCEPT ![p] = None] /\ asker' = asker /\ request' = FailPending(p)
      BY <2>7 DEF ShimClose, ShimDies
    <3> QED BY <3>1 DEF FailPending
  <2>8. ASSUME NEW p \in Shims,
               StartShim(p) \/ GiveUpStarting(p) \/ Greet(p) \/ ReadWelcome(p) \/ ReadError(p)
        PROVE  PendingHasSocket'
    BY <2>1, <2>8 DEF StartShim, GiveUpStarting, Greet, ReadWelcome, ReadError
  <2>9. CASE UNCHANGED vars
    BY <2>1, <2>9 DEF vars
  <2> QED BY <2>2, <2>3, <2>4, <2>5, <2>6, <2>7, <2>8, <2>9 DEF Next, ShimStep
<1> QED BY <1>1, <1>2, TypeCorrect, PTL DEF Spec, Safety
=============================================================================
