------------------------------- MODULE IpcLink -------------------------------
(***************************************************************************)
(* The link between one session's shims and rederd: connection, handshake, *)
(* displacement, teardown and reconnection, and the reply requests that    *)
(* cross it.  packages/core/src/ipc/server.ts and                          *)
(* packages/shim/src/ipc-client.ts.                                        *)
(*                                                                         *)
(* The server handles frames concurrently: handleFrame awaits verifyToken  *)
(* (argon2) on a hello, and frames that arrive meanwhile are handled       *)
(* before it resumes.  So a hello is two steps, ReadHello and Verified,    *)
(* and any event of the socket may fall between them.  Destroying a socket *)
(* and its 'close' event are two steps as well (Teardown, ShimClose).      *)
(*                                                                         *)
(* reply_tool_call stands for every frame the shim sends through sendRaw:  *)
(* permission_request and channel_ack take the same path and have no       *)
(* result.  Pings are sent while connected only and change nothing here    *)
(* but the heartbeat timer, which HeartbeatTimeout abstracts.              *)
(***************************************************************************)
EXTENDS Naturals, Sequences

CONSTANTS
    Shims,      \* shim processes started for the session
    Conns,      \* connection identities, reused once nothing refers to them
    Reqs,       \* reply requests of claude, each made once
    None,       \* "no connection"
    MaxFaults   \* bound: crashes, kills and heartbeat losses together

ASSUME LinkAssumption ==
    /\ Shims # {}
    /\ None \notin Conns
    /\ Reqs \cap {"hello", "welcome", "error"} = {}
    /\ MaxFaults \in Nat

VARIABLES
    \* rederd
    up,         \* the daemon process runs
    open,       \* the server's end of a connection is not destroyed
    ctx,        \* ConnectionCtx: new, verifying (awaits verifyToken), authenticated
    closing,    \* destroyed sockets whose 'close' event is still to come
    registered, \* connections.get(session)
    dbState,    \* sessions.state
    handled,    \* history: requests emitted as reply_tool_call
    due,        \* requests whose reply_tool_result is still to be sent
    \* the shims
    process,    \* off, starting (first connect), serving (MCP server created)
    link,       \* IpcClient.status: connecting, connected or disconnected
    stopped,    \* IpcClient.shuttingDown
    socket,     \* IpcClient.socket
    greeted,    \* the socket's 'connect' event fired: hello was written
    end,        \* the shim's end of a connection is not destroyed
    request,    \* what claude knows of each request
    asker,      \* the shim the request was made through
    \* the wire
    toDaemon,   \* frames written by the shim, unread by the server
    toShim,     \* frames written by the server, unread by the shim
    faults

server == <<up, open, ctx, closing, registered, dbState, handled, due>>
shim == <<process, link, stopped, socket, greeted, end, request, asker>>
vars == <<up, open, ctx, closing, registered, dbState, handled, due,
          process, link, stopped, socket, greeted, end, request, asker,
          toDaemon, toShim, faults>>

ShimFrames == {"hello"} \cup Reqs
DaemonFrames == {"welcome", "error"} \cup Reqs

TypeOK ==
    /\ up \in BOOLEAN
    /\ open \in [Conns -> BOOLEAN]
    /\ ctx \in [Conns -> {"new", "verifying", "authenticated"}]
    /\ closing \in SUBSET Conns
    /\ registered \in Conns \cup {None}
    /\ dbState \in {"registered", "connected", "disconnected"}
    /\ handled \in SUBSET Reqs
    /\ due \in SUBSET Reqs
    /\ process \in [Shims -> {"off", "starting", "serving"}]
    /\ link \in [Shims -> {"connecting", "connected", "disconnected"}]
    /\ stopped \in [Shims -> BOOLEAN]
    /\ socket \in [Shims -> Conns \cup {None}]
    /\ greeted \in [Shims -> BOOLEAN]
    /\ end \in [Conns -> BOOLEAN]
    /\ request \in [Reqs -> {"unused", "pending", "sent", "failed"}]
    /\ asker \in [Reqs -> Shims]
    /\ toDaemon \in [Conns -> Seq(ShimFrames)]
    /\ toShim \in [Conns -> Seq(DaemonFrames)]
    /\ faults \in 0..MaxFaults

Init ==
    /\ up = TRUE
    /\ open = [c \in Conns |-> FALSE]
    /\ ctx = [c \in Conns |-> "new"]
    /\ closing = {}
    /\ registered = None
    /\ dbState = "registered"
    /\ handled = {}
    /\ due = {}
    /\ process = [p \in Shims |-> "off"]
    /\ link = [p \in Shims |-> "disconnected"]
    /\ stopped = [p \in Shims |-> FALSE]
    /\ socket = [p \in Shims |-> None]
    /\ greeted = [p \in Shims |-> FALSE]
    /\ end = [c \in Conns |-> FALSE]
    /\ request = [r \in Reqs |-> "unused"]
    /\ asker = [r \in Reqs |-> CHOOSE p \in Shims : TRUE]
    /\ toDaemon = [c \in Conns |-> <<>>]
    /\ toShim = [c \in Conns |-> <<>>]
    /\ faults = 0

-----------------------------------------------------------------------------
(* Faults a mutated definition stands for; Next never uses them.           *)

\* A hello leaves the session's prior connection open.
KeepPrior == {}

\* Teardown does not ask whether the map still holds this very connection.
AnyAuthenticated(c) == ctx[c] = "authenticated"

\* sendReply resolves as soon as the frame is written.
SentOnWrite == {"sent"}

\* After a lost connection the client does not try again.
FirstTimeOnly(p) == ~stopped[p] /\ process[p] = "starting"

-----------------------------------------------------------------------------
(* The server                                                              *)

\* handleFrame admits frames other than hello.
Admitted(c) == ctx[c] = "authenticated"

\* Prior connection of the session that a hello destroys.
Displaced == {registered} \ {None}

\* teardownConnection: the map still holds this connection.
IsRegistered(c) == ctx[c] = "authenticated" /\ registered = c

MarkedDisconnected == "disconnected"

\* Server frame f on connection c; what is written to a dead end is lost.
SendToShim(c, f) ==
    toShim' = IF open[c] /\ end[c] THEN [toShim EXCEPT ![c] = Append(@, f)] ELSE toShim

\* socket.destroy() on the server's ends in D: unread frames are dropped, and
\* a 'close' event will follow for those not destroyed before.
Destroy(D) ==
    /\ open' = [c \in Conns |-> open[c] /\ c \notin D]
    /\ closing' = closing \cup {c \in D : open[c]}

\* The first frame is a hello: verifyToken is awaited.
ReadHello(c) ==
    /\ up /\ open[c] /\ toDaemon[c] # <<>>
    /\ Head(toDaemon[c]) = "hello"
    /\ ctx' = [ctx EXCEPT ![c] = "verifying"]
    /\ toDaemon' = [toDaemon EXCEPT ![c] = Tail(@)]
    /\ UNCHANGED <<up, open, closing, registered, dbState, handled, due, shim, toShim, faults>>

\* The token is good: displace the prior connection, register this one (even
\* if its socket was destroyed meanwhile) and send welcome.
Verified(c) ==
    /\ up /\ ctx[c] = "verifying"
    /\ Destroy(Displaced)
    /\ ctx' = [ctx EXCEPT ![c] = "authenticated"]
    /\ registered' = c
    /\ dbState' = "connected"
    /\ SendToShim(c, "welcome")
    /\ toDaemon' = [d \in Conns |-> IF d \in Displaced THEN <<>> ELSE toDaemon[d]]
    /\ UNCHANGED <<up, handled, due, shim, faults>>

\* A reply_tool_call on an authenticated connection.
ReadReply(c) ==
    /\ up /\ open[c] /\ toDaemon[c] # <<>>
    /\ Head(toDaemon[c]) \in Reqs
    /\ Admitted(c)
    /\ handled' = handled \cup {Head(toDaemon[c])}
    /\ due' = due \cup {Head(toDaemon[c])}
    /\ toDaemon' = [toDaemon EXCEPT ![c] = Tail(@)]
    /\ UNCHANGED <<up, open, ctx, closing, registered, dbState, shim, toShim, faults>>

\* A frame other than hello before authentication, which is also the case
\* while the token is being verified: UNAUTHENTICATED, and the socket is
\* destroyed.
Refuse(c) ==
    /\ up /\ open[c] /\ toDaemon[c] # <<>>
    /\ Head(toDaemon[c]) \in Reqs
    /\ ~Admitted(c)
    /\ SendToShim(c, "error")
    /\ Destroy({c})
    /\ toDaemon' = [toDaemon EXCEPT ![c] = <<>>]
    /\ UNCHANGED <<up, ctx, registered, dbState, handled, due, shim, faults>>

\* handleReplyToolCall ends: the result goes to the session's connection of
\* that moment, if there is one.
SendResult(r) ==
    /\ up /\ r \in due
    /\ due' = due \ {r}
    /\ IF registered = None THEN UNCHANGED toShim ELSE SendToShim(registered, r)
    /\ UNCHANGED <<up, open, ctx, closing, registered, dbState, handled, shim, toDaemon, faults>>

\* The shim's end is gone and everything it wrote was read: the socket closes.
PeerClosed(c) ==
    /\ up /\ open[c] /\ ~end[c] /\ toDaemon[c] = <<>>
    /\ Destroy({c})
    /\ UNCHANGED <<up, ctx, registered, dbState, handled, due, shim, toDaemon, toShim, faults>>

\* No ping for heartbeatTimeoutMs although the shim lives.  Of a socket that is
\* already destroyed the timer destroys nothing.
HeartbeatTimeout(c) ==
    /\ up /\ open[c] /\ end[c] /\ ctx[c] = "authenticated"
    /\ faults < MaxFaults
    /\ faults' = faults + 1
    /\ Destroy({c})
    /\ toDaemon' = [toDaemon EXCEPT ![c] = <<>>]
    /\ UNCHANGED <<up, ctx, registered, dbState, handled, due, shim, toShim>>

\* The server socket's 'close' event: teardownConnection.  A handshake still in
\* verifyToken keeps its context and resumes later.
Teardown(c) ==
    /\ up /\ c \in closing
    /\ closing' = closing \ {c}
    /\ IF IsRegistered(c)
       THEN registered' = None /\ dbState' = MarkedDisconnected
       ELSE UNCHANGED <<registered, dbState>>
    /\ ctx' = [ctx EXCEPT ![c] = IF @ = "verifying" THEN @ ELSE "new"]
    /\ UNCHANGED <<up, open, handled, due, shim, toDaemon, toShim, faults>>

\* The daemon stops or is killed.  IpcServer.close empties the map before the
\* 'close' events, so sessions.state stays as it is in both cases.
DaemonDown ==
    /\ up
    /\ faults < MaxFaults
    /\ faults' = faults + 1
    /\ up' = FALSE
    /\ open' = [c \in Conns |-> FALSE]
    /\ ctx' = [c \in Conns |-> "new"]
    /\ closing' = {}
    /\ registered' = None
    /\ due' = {}
    /\ toDaemon' = [c \in Conns |-> <<>>]
    /\ UNCHANGED <<dbState, handled, shim, toShim>>

DaemonStart ==
    /\ ~up
    /\ up' = TRUE
    /\ UNCHANGED <<open, ctx, closing, registered, dbState, handled, due, shim,
                   toDaemon, toShim, faults>>

-----------------------------------------------------------------------------
(* The shim                                                                *)

\* Neither end refers to connection c any more.
Fresh(c) ==
    /\ ~open[c] /\ ~end[c] /\ c \notin closing
    /\ ctx[c] # "verifying" /\ registered # c
    /\ \A p \in Shims : socket[p] # c

\* scheduleReconnectIfNeeded, and the first connect.
Retries(p) == ~stopped[p]

\* failPendingRequests: each request waiting on this client is rejected.
FailPending(p) ==
    [r \in Reqs |-> IF asker[r] = p /\ request[r] = "pending" THEN "failed" ELSE request[r]]

\* The request a reply_tool_result names, if it is still waiting.
Answered(p, f) == {r \in Reqs : r = f /\ request[r] = "pending" /\ asker[r] = p}

\* claude starts a shim.
StartShim(p) ==
    /\ process[p] = "off"
    /\ process' = [process EXCEPT ![p] = "starting"]
    /\ stopped' = [stopped EXCEPT ![p] = FALSE]
    /\ UNCHANGED <<server, link, socket, greeted, end, request, asker, toDaemon, toShim, faults>>

\* attemptOnce, while the daemon listens.
Attempt(p, c) ==
    /\ up
    /\ process[p] # "off" /\ socket[p] = None /\ Retries(p)
    /\ Fresh(c)
    /\ socket' = [socket EXCEPT ![p] = c]
    /\ greeted' = [greeted EXCEPT ![p] = FALSE]
    /\ link' = [link EXCEPT ![p] = "connecting"]
    /\ end' = [end EXCEPT ![c] = TRUE]
    /\ open' = [open EXCEPT ![c] = TRUE]
    /\ ctx' = [ctx EXCEPT ![c] = "new"]
    /\ toShim' = [toShim EXCEPT ![c] = <<>>]
    /\ toDaemon' = [toDaemon EXCEPT ![c] = <<>>]
    /\ UNCHANGED <<up, closing, registered, dbState, handled, due,
                   process, stopped, request, asker, faults>>

\* The first connect is refused: the shim exits (die, shim/src/index.ts).  A
\* later attempt that is refused is only tried again.
GiveUpStarting(p) ==
    /\ ~up
    /\ process[p] = "starting" /\ socket[p] = None
    /\ process' = [process EXCEPT ![p] = "off"]
    /\ UNCHANGED <<server, link, stopped, socket, greeted, end, request, asker,
                   toDaemon, toShim, faults>>

\* sendRaw on the shim's socket: lost if the server's end is destroyed.
SendToDaemon(p, f) ==
    toDaemon' = IF open[socket[p]] THEN [toDaemon EXCEPT ![socket[p]] = Append(@, f)]
                                   ELSE toDaemon

\* The socket's 'connect' event.  What was written before it goes first.
Greet(p) ==
    /\ socket[p] # None /\ end[socket[p]] /\ ~greeted[p]
    /\ greeted' = [greeted EXCEPT ![p] = TRUE]
    /\ SendToDaemon(p, "hello")
    /\ UNCHANGED <<server, process, link, stopped, socket, end, request, asker, toShim, faults>>

\* What claude knows once the frame is handed to the socket: when write reports
\* backpressure the request is rejected, yet its frame will be sent.
AfterWrite == {"pending", "failed"}

\* The reply tool: sendReply asks only for a socket that is not destroyed.
Reply(p, r) ==
    /\ process[p] = "serving"
    /\ request[r] = "unused"
    /\ asker' = [asker EXCEPT ![r] = p]
    /\ IF socket[p] = None \/ ~end[socket[p]]
       THEN /\ request' = [request EXCEPT ![r] = "failed"]
            /\ UNCHANGED toDaemon
       ELSE /\ \E outcome \in AfterWrite :
                 request' = [request EXCEPT ![r] = outcome]
            /\ SendToDaemon(p, r)
    /\ UNCHANGED <<server, process, link, stopped, socket, greeted, end, toShim, faults>>

\* The 30 s timer of sendReply.
RequestTimeout(r) ==
    /\ request[r] = "pending"
    /\ request' = [request EXCEPT ![r] = "failed"]
    /\ UNCHANGED <<server, process, link, stopped, socket, greeted, end, asker,
                   toDaemon, toShim, faults>>

\* The next frame from the server is f.
Receive(p, f) ==
    /\ socket[p] # None /\ end[socket[p]] /\ toShim[socket[p]] # <<>>
    /\ f = Head(toShim[socket[p]])

\* welcome: connected; the first one lets the MCP server start.
ReadWelcome(p) ==
    /\ Receive(p, "welcome")
    /\ link' = [link EXCEPT ![p] = "connected"]
    /\ process' = [process EXCEPT ![p] = "serving"]
    /\ toShim' = [toShim EXCEPT ![socket[p]] = Tail(@)]
    /\ UNCHANGED <<server, stopped, socket, greeted, end, request, asker, toDaemon, faults>>

\* reply_tool_result, success.
ReadResult(p) ==
    /\ \E f \in Reqs :
         /\ Receive(p, f)
         /\ request' = [r \in Reqs |-> IF r \in Answered(p, f) THEN "sent" ELSE request[r]]
    /\ toShim' = [toShim EXCEPT ![socket[p]] = Tail(@)]
    /\ UNCHANGED <<server, process, link, stopped, socket, greeted, end, asker, toDaemon, faults>>

\* error: a client that is not connected takes it for a failed handshake, shuts
\* down for good and destroys its socket.
ReadError(p) ==
    /\ Receive(p, "error")
    /\ IF link[p] = "connected"
       THEN /\ toShim' = [toShim EXCEPT ![socket[p]] = Tail(@)]
            /\ UNCHANGED <<stopped, end>>
       ELSE /\ toShim' = [toShim EXCEPT ![socket[p]] = <<>>]
            /\ stopped' = [stopped EXCEPT ![p] = TRUE]
            /\ end' = [end EXCEPT ![socket[p]] = FALSE]
    /\ UNCHANGED <<server, process, link, socket, greeted, request, asker, toDaemon, faults>>

\* The shim's socket emits 'close', everything the server sent having been read.
\* A shim that was still starting exits.
ShimClose(p) ==
    /\ socket[p] # None
    /\ ~end[socket[p]] \/ (~open[socket[p]] /\ toShim[socket[p]] = <<>>)
    /\ end' = [end EXCEPT ![socket[p]] = FALSE]
    /\ socket' = [socket EXCEPT ![p] = None]
    /\ link' = [link EXCEPT ![p] = "disconnected"]
    /\ request' = FailPending(p)
    /\ process' = [process EXCEPT ![p] = IF @ = "starting" THEN "off" ELSE @]
    /\ UNCHANGED <<server, stopped, greeted, asker, toDaemon, toShim, faults>>

\* A shim is killed, on its own or with its claude.
ShimDies(p) ==
    /\ process[p] # "off"
    /\ faults < MaxFaults
    /\ faults' = faults + 1
    /\ process' = [process EXCEPT ![p] = "off"]
    /\ link' = [link EXCEPT ![p] = "disconnected"]
    /\ socket' = [socket EXCEPT ![p] = None]
    /\ end' = [c \in Conns |-> end[c] /\ c # socket[p]]
    /\ toShim' = [c \in Conns |-> IF c = socket[p] THEN <<>> ELSE toShim[c]]
    /\ request' = FailPending(p)
    /\ UNCHANGED <<server, stopped, greeted, asker, toDaemon>>

-----------------------------------------------------------------------------
ServerStep ==
    \/ \E c \in Conns : ReadHello(c)
    \/ \E c \in Conns : Verified(c)
    \/ \E c \in Conns : ReadReply(c)
    \/ \E c \in Conns : Refuse(c)
    \/ \E r \in Reqs : SendResult(r)
    \/ \E c \in Conns : PeerClosed(c)
    \/ \E c \in Conns : HeartbeatTimeout(c)
    \/ \E c \in Conns : Teardown(c)
    \/ DaemonDown
    \/ DaemonStart

ShimStep ==
    \/ \E p \in Shims : StartShim(p)
    \/ \E p \in Shims, c \in Conns : Attempt(p, c)
    \/ \E p \in Shims : GiveUpStarting(p)
    \/ \E p \in Shims : Greet(p)
    \/ \E p \in Shims, r \in Reqs : Reply(p, r)
    \/ \E r \in Reqs : RequestTimeout(r)
    \/ \E p \in Shims : ReadWelcome(p)
    \/ \E p \in Shims : ReadResult(p)
    \/ \E p \in Shims : ReadError(p)
    \/ \E p \in Shims : ShimClose(p)
    \/ \E p \in Shims : ShimDies(p)

Next == ServerStep \/ ShimStep

\* The event loops run their handlers, argon2 finishes, the kernel delivers
\* bytes and close events, timers fire, the service manager restarts rederd.
\* claude's own steps (StartShim, Reply) and the faults are not fair.
Fairness ==
    /\ WF_vars(DaemonStart)
    /\ \A c \in Conns :
         /\ WF_vars(ReadHello(c) \/ ReadReply(c) \/ Refuse(c))
         /\ WF_vars(Verified(c))
         /\ WF_vars(PeerClosed(c))
         /\ WF_vars(Teardown(c))
    /\ \A r \in Reqs : WF_vars(SendResult(r)) /\ WF_vars(RequestTimeout(r))
    /\ \A p \in Shims :
         /\ WF_vars(\E c \in Conns : Attempt(p, c))
         /\ WF_vars(Greet(p))
         /\ WF_vars(ReadWelcome(p) \/ ReadResult(p) \/ ReadError(p))
         /\ WF_vars(ShimClose(p))

Safety == Init /\ [][Next]_vars
Spec == Safety /\ Fairness

-----------------------------------------------------------------------------
(* Safety                                                                  *)

\* Two connections of a session are never served at once: of those that
\* completed a handshake, only the registered one is not destroyed, whatever
\* the order in which concurrent token checks finish.
OneServed ==
    \A c \in Conns : ctx[c] = "authenticated" /\ open[c] => registered = c

\* A client that takes itself for connected, on a socket the server has not
\* destroyed, is the one the server delivers to, and its session is connected:
\* the close event of a connection it displaced, whenever it comes, takes
\* neither from it.
ConnectedIsRegistered ==
    \A p \in Shims :
      link[p] = "connected" /\ end[socket[p]] /\ open[socket[p]] =>
        registered = socket[p] /\ dbState = "connected"

\* claude is told "sent" only of a request the daemon took up.
SentWasHandled == \A r \in Reqs : request[r] = "sent" => r \in handled

\* A waiting request has a connection its result may come over; a connection
\* that goes takes its requests with it rather than leave claude to the timer.
PendingHasSocket == \A r \in Reqs : request[r] = "pending" => socket[asker[r]] # None

-----------------------------------------------------------------------------
(* Liveness                                                                *)

\* A shim that serves claude gets its connection back, unless it shut itself
\* down on an error frame.
Reconnects ==
    \A p \in Shims :
      process[p] = "serving" ~> (link[p] = "connected" \/ stopped[p] \/ process[p] = "off")

-----------------------------------------------------------------------------
(* What the documents say and the code does not do                         *)

\* reder-prd.md, F3.6: on daemon disconnect while claude is still attached, the
\* shim continues attempting reconnection.
KeepsReconnecting ==
    \A p \in Shims : process[p] = "serving" ~> (link[p] = "connected" \/ process[p] = "off")
=============================================================================
