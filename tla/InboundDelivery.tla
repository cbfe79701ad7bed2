--------------------------- MODULE InboundDelivery ---------------------------
(***************************************************************************)
(* The inbound path, from an adapter's ingestInbound to claude's stdin:    *)
(* the durable outbox (inbound_messages), the router that writes and       *)
(* replays it, the IPC connections and the shim that forwards each         *)
(* channel_event to claude and sends back channel_ack.                     *)
(*                                                                         *)
(* Granularity.  The daemon is one Node.js event loop: a handler runs      *)
(* until it waits for I/O.  flushPendingForSession awaits between rows,    *)
(* but only for already resolved promises, so no other handler runs before *)
(* it ends (Ready below); the shim, claude and a crash do interleave with  *)
(* its rows.  Token verification and the handshake frames are the subject  *)
(* of IpcLink; here the daemon's part of a handshake is one step, Hello or *)
(* GhostHello.                                                             *)
(*                                                                         *)
(* A shim process has one connection at a time, so both go by one name.    *)
(* It connects before it creates its MCP server: on its first connection   *)
(* nobody listens to the channel_events that arrive in the same chunk as   *)
(* the welcome (ReadWelcome).  On a reconnect the listener is there.       *)
(*                                                                         *)
(* Messages are numbered in insertion order, which is the order of         *)
(* ORDER BY received_at, rowid as long as the clock does not step back.    *)
(* Frames are assumed to fit MAX_FRAME_BYTES.                              *)
(***************************************************************************)
EXTENDS Naturals, Sequences

CONSTANTS
    Keys,       \* idempotency keys: one per message a transport may present
    Sessions,   \* sessions of the daemon
    Target,     \* the session each key's message is addressed to
    Shims,      \* shim processes and their connections; a name is used again
                \* once its process and both ends of its connection are gone
    None,       \* "no connection"
    MaxMsgs,    \* bound: rows ever inserted
    MaxFaults   \* bound: crashes, kills, heartbeat losses, ghosts, rejected
                \* notifications and displacements by a second shim together

ASSUME InboundAssumption ==
    /\ Keys # {}
    /\ Target \in [Keys -> Sessions]
    /\ None \notin Shims
    /\ MaxMsgs \in Nat
    /\ MaxFaults \in Nat

Msgs == 1..MaxMsgs
RowStates == {"none", "received", "delivered", "acknowledged"}

VARIABLES
    \* rederd's database: survives a crash
    next,       \* number of the next row
    state,      \* inbound_messages.state, "none" where there is no row
    keyOf,      \* inbound_messages.idempotency_key
    \* rederd's memory
    alive,      \* the daemon process runs
    live,       \* IpcServer.connections: session -> connection
    flushing,   \* rows flushPendingForSession has read and not yet sent
    \* the shims and the sockets
    proc,       \* "none", "starting" (no listener yet) or "listening"
    owner,      \* the session the shim belongs to
    open,       \* the daemon's end is not destroyed
    up,         \* the shim's end is open and its process alive
    toShim,     \* channel_event frames written and not yet read by the shim
    toDaemon,   \* channel_ack frames written and not yet read by the daemon
    \* history, and the bound on faults
    written,    \* how often a shim wrote each message to claude: 0, 1, 2 or more
    missed,     \* messages a shim read on its connection and did not hand over
    passed,     \* messages some shim missed and none has handed over since
    faults      \* faults so far

database == <<next, state, keyOf>>
sockets == <<proc, owner, open, up, toShim, toDaemon>>
history == <<written, missed, passed>>
vars == <<next, state, keyOf, alive, live, flushing, proc,
          owner, open, up, toShim, toDaemon, written, missed, passed, faults>>

TypeOK ==
    /\ next \in 1..(MaxMsgs + 1)
    /\ state \in [Msgs -> RowStates]
    /\ keyOf \in [Msgs -> Keys]
    /\ alive \in BOOLEAN
    /\ live \in [Sessions -> Shims \cup {None}]
    /\ flushing \in SUBSET Msgs
    /\ proc \in [Shims -> {"none", "starting", "listening"}]
    /\ owner \in [Shims -> Sessions]
    /\ open \in [Shims -> BOOLEAN]
    /\ up \in [Shims -> BOOLEAN]
    /\ toShim \in [Shims -> Seq(Msgs)]
    /\ toDaemon \in [Shims -> Seq(Msgs)]
    /\ written \in [Msgs -> 0..2]
    /\ missed \in [Shims -> SUBSET Msgs]
    /\ passed \in SUBSET Msgs
    /\ faults \in 0..MaxFaults

Init ==
    /\ next = 1
    /\ state = [m \in Msgs |-> "none"]
    /\ keyOf = [m \in Msgs |-> CHOOSE k \in Keys : TRUE]
    /\ alive = TRUE
    /\ live = [s \in Sessions |-> None]
    /\ flushing = {}
    /\ proc = [c \in Shims |-> "none"]
    /\ owner = [c \in Shims |-> CHOOSE s \in Sessions : TRUE]
    /\ open = [c \in Shims |-> FALSE]
    /\ up = [c \in Shims |-> FALSE]
    /\ toShim = [c \in Shims |-> <<>>]
    /\ toDaemon = [c \in Shims |-> <<>>]
    /\ written = [m \in Msgs |-> 0]
    /\ missed = [c \in Shims |-> {}]
    /\ passed = {}
    /\ faults = 0

-----------------------------------------------------------------------------
(* Faults a mutated definition stands for; Next never uses them.           *)

\* The replay query forgets rows that were already written to a socket once.
PendingReceivedOnly(s) == {m \in Msgs : state[m] = "received" /\ Target[keyOf[m]] = s}

\* The replay query loses its ORDER BY and returns the newest row first.
NewestFirst(m, S) == \A n \in S : n <= m

\* A successful socket write is taken for an acknowledgement.
MarkAcknowledgedOnWrite(m, sent) ==
    IF sent THEN [state EXCEPT ![m] = "acknowledged"] ELSE state

\* The idempotency lookup is skipped.
NeverDuplicate(k) == FALSE

-----------------------------------------------------------------------------
(* The outbox: packages/core/src/storage/outbox.ts                         *)

HasRow(m) == state[m] # "none"

\* Rows listPendingInboundForSession returns for session s.
Pending(s) ==
    {m \in Msgs : state[m] \in {"received", "delivered"} /\ Target[keyOf[m]] = s}

\* The loop over the rows of S, ORDER BY received_at, rowid, takes m first.
FirstRow(m, S) == \A n \in S : m <= n

\* insertInbound finds a row with the message's idempotency key.
Duplicate(k) == \E m \in Msgs : HasRow(m) /\ keyOf[m] = k

\* deliverInbound: markInboundDelivered, from 'received' only, if sendFrame
\* returned true.
AfterSend(m, sent) ==
    IF sent /\ state[m] = "received" THEN [state EXCEPT ![m] = "delivered"] ELSE state

\* markInboundAcknowledged: from 'received' or 'delivered' only.
Acknowledge(m) ==
    IF state[m] \in {"received", "delivered"}
    THEN [state EXCEPT ![m] = "acknowledged"] ELSE state

-----------------------------------------------------------------------------
(* Sending: IpcServer.sendToSession and sendFrame                          *)

\* No handler of the daemon is in progress.
Ready == alive /\ flushing = {}

\* sendFrame would write: the session is in the map, its socket not destroyed.
Writable(s) == live[s] # None /\ open[live[s]]

\* The frame for message m is written to session s's socket.  Bytes written
\* after the shim's end is gone reach nobody.
Write(s, m) ==
    toShim' = IF Writable(s) /\ up[live[s]]
              THEN [toShim EXCEPT ![live[s]] = Append(@, m)] ELSE toShim

\* sendFrame's result.  socket.write is false under backpressure, although the
\* frame is buffered and will be sent: both results are possible.
SendResults(s) == IF Writable(s) THEN BOOLEAN ELSE {FALSE}

\* ingestInbound of a message with a fresh key: insert the row, then try to
\* deliver.  A duplicate key changes nothing.
Ingest(k) ==
    /\ Ready
    /\ next \in Msgs
    /\ ~Duplicate(k)
    /\ \E sent \in SendResults(Target[k]) :
         state' = [state EXCEPT ![next] = IF sent THEN "delivered" ELSE "received"]
    /\ Write(Target[k], next)
    /\ keyOf' = [keyOf EXCEPT ![next] = k]
    /\ next' = next + 1
    /\ UNCHANGED <<alive, live, flushing, proc, owner, open, up, toDaemon, history, faults>>

\* One turn of flushPendingForSession's loop.
FlushRow ==
    /\ alive
    /\ \E m \in flushing :
         /\ FirstRow(m, flushing)
         /\ \E sent \in SendResults(Target[keyOf[m]]) : state' = AfterSend(m, sent)
         /\ Write(Target[keyOf[m]], m)
         /\ flushing' = flushing \ {m}
    /\ UNCHANGED <<next, keyOf, alive, live, proc, owner, open, up, toDaemon, history, faults>>

\* The channel_ack handler.
DaemonReadsAck(c) ==
    /\ Ready
    /\ open[c]
    /\ toDaemon[c] # <<>>
    /\ state' = Acknowledge(Head(toDaemon[c]))
    /\ toDaemon' = [toDaemon EXCEPT ![c] = Tail(@)]
    /\ UNCHANGED <<next, keyOf, alive, live, flushing, proc, owner, open, up, toShim,
                   history, faults>>

\* The SessionStart hook of session s.  With source startup (claude starts) or
\* clear (the user typed /clear) purgeSessionData deletes the session's rows;
\* the rest of clearSession is outside this module.
SessionStart(s, source) ==
    /\ Ready
    /\ source \in {"startup", "clear"}
    /\ \E m \in Msgs : HasRow(m) /\ Target[keyOf[m]] = s
    /\ state' = [m \in Msgs |-> IF Target[keyOf[m]] = s THEN "none" ELSE state[m]]
    /\ UNCHANGED <<next, keyOf, alive, live, flushing, sockets, history, faults>>

-----------------------------------------------------------------------------
(* Connections: IpcServer and the shim's IpcClient                         *)

\* A name no process and no end of a connection holds: not even the map of
\* connections, where one destroyed during its handshake stays (GhostHello).
Fresh(c) == proc[c] = "none" /\ ~open[c] /\ ~up[c] /\ \A s \in Sessions : live[s] # c

\* A shim that has lost its connection and tries again, with capped delays and
\* without limit (IpcClient.scheduleReconnectIfNeeded).
Retrying(c) == proc[c] = "listening" /\ ~up[c]

\* Who may connect for session s: a new shim, or one of s that tries again.
Connects(c, s) == Fresh(c) \/ (Retrying(c) /\ owner[c] = s)

\* A shim of session s has its one socket open.
HasShim(s) == \E c \in Shims : up[c] /\ owner[c] = s

\* The hello handler once the token is verified: destroy the prior connection
\* of the session, register the new one and read the rows to replay.  alright
\* tells whether the new socket still works on both ends.
Register(c, s, alright) ==
    LET keep == [d \in Shims |-> d \notin {c, live[s]}] IN
    /\ live' = [live EXCEPT ![s] = c]
    /\ owner' = [owner EXCEPT ![c] = s]
    /\ open' = [d \in Shims |-> IF d = c THEN alright ELSE keep[d] /\ open[d]]
    /\ up' = [up EXCEPT ![c] = alright]
    /\ toShim' = [toShim EXCEPT ![c] = <<>>]
    /\ toDaemon' = [d \in Shims |-> IF keep[d] THEN toDaemon[d] ELSE <<>>]
    /\ missed' = [d \in Shims |-> IF keep[d] THEN missed[d] ELSE {}]
    /\ flushing' = Pending(s)
    /\ UNCHANGED <<database, alive, written, passed>>

\* A shim connects: the session's only one, or a second one beside it (a fault).
Hello(c, s) ==
    /\ Ready
    /\ Connects(c, s)
    /\ faults' = IF HasShim(s) THEN faults + 1 ELSE faults
    /\ faults' <= MaxFaults
    /\ proc' = [proc EXCEPT ![c] = IF @ = "none" THEN "starting" ELSE @]
    /\ Register(c, s, TRUE)

\* The socket is destroyed while the token is being verified: the handler
\* goes on and registers the dead connection, whose 'close' event is past.  A
\* shim that was connecting for the first time exits, another tries again.
GhostHello(c, s) ==
    /\ Ready
    /\ Connects(c, s)
    /\ faults < MaxFaults
    /\ faults' = faults + 1
    /\ Register(c, s, FALSE)
    /\ UNCHANGED proc

\* The daemon's end of c is destroyed; what it had not read yet is lost.
Destroy(c) ==
    /\ open' = [open EXCEPT ![c] = FALSE]
    /\ toDaemon' = [toDaemon EXCEPT ![c] = <<>>]
    /\ live' = [s \in Sessions |-> IF live[s] = c THEN None ELSE live[s]]
    /\ missed' = [missed EXCEPT ![c] = {}]
    /\ UNCHANGED <<database, alive, flushing, proc, owner, up, toShim, written, passed>>

\* The daemon's socket emits 'close' after the shim's end went away.  An
\* acknowledgement lost here also stands for one the shim had no time to send.
ConnectionClosed(c) ==
    /\ Ready
    /\ open[c]
    /\ ~up[c]
    /\ Destroy(c)
    /\ UNCHANGED faults

\* No ping for heartbeatTimeoutMs, although the shim's end is open.
HeartbeatTimeout(c) ==
    /\ Ready
    /\ open[c]
    /\ up[c]
    /\ faults < MaxFaults
    /\ faults' = faults + 1
    /\ Destroy(c)

-----------------------------------------------------------------------------
(* The shim: index.ts, IpcClient and the MCP server's onChannelEvent       *)

\* The shim's end of c is gone, with the frames it did not read.
CloseShimEnd(c) ==
    /\ up' = [up EXCEPT ![c] = FALSE]
    /\ toShim' = [toShim EXCEPT ![c] = <<>>]
    /\ missed' = [missed EXCEPT ![c] = {}]
    /\ UNCHANGED <<database, alive, live, flushing, owner, open, toDaemon, written, passed>>

\* The shim's socket emits 'close'.  A shim that listens goes on to try again;
\* for one that waits for its first welcome connect() throws, and it exits.
ShimSeesClose(c) ==
    /\ up[c]
    /\ ~open[c]
    /\ proc' = [proc EXCEPT ![c] = IF @ = "starting" THEN "none" ELSE @]
    /\ CloseShimEnd(c)
    /\ UNCHANGED faults

\* The chunk that holds the welcome of a shim's first connection, and the first
\* n channel_events behind it.  All its frames are emitted before the promise
\* of connect() lets the shim attach its listener: these n meet none.
ReadWelcome(c) ==
    /\ up[c]
    /\ proc[c] = "starting"
    /\ \E n \in 0..Len(toShim[c]) :
         LET unheard == {toShim[c][i] : i \in 1..n} IN
         /\ missed' = [missed EXCEPT ![c] = IF open[c] THEN @ \cup unheard ELSE @]
         /\ passed' = passed \cup {m \in unheard : written[m] = 0}
         /\ toShim' = [toShim EXCEPT ![c] = SubSeq(@, n + 1, Len(@))]
    /\ proc' = [proc EXCEPT ![c] = "listening"]
    /\ UNCHANGED <<database, alive, live, flushing, owner, open, up, toDaemon, written, faults>>

\* onChannelEvent: write the notification to stdout, then send channel_ack.
ShimForward(c) ==
    /\ up[c]
    /\ proc[c] = "listening"
    /\ toShim[c] # <<>>
    /\ LET m == Head(toShim[c]) IN
         /\ written' = [written EXCEPT ![m] = IF @ < 2 THEN @ + 1 ELSE @]
         /\ passed' = passed \ {m}
         /\ toDaemon' = IF open[c] THEN [toDaemon EXCEPT ![c] = Append(@, m)] ELSE toDaemon
    /\ toShim' = [toShim EXCEPT ![c] = Tail(@)]
    /\ UNCHANGED <<database, alive, live, flushing, proc, owner, open, up, missed, faults>>

\* onChannelEvent, and the notification is rejected: it is logged, and neither
\* written nor acknowledged.
NotifyFails(c) ==
    /\ up[c]
    /\ proc[c] = "listening"
    /\ toShim[c] # <<>>
    /\ faults < MaxFaults
    /\ faults' = faults + 1
    /\ LET m == Head(toShim[c]) IN
         /\ missed' = [missed EXCEPT ![c] = IF open[c] THEN @ \cup {m} ELSE @]
         /\ passed' = IF written[m] = 0 THEN passed \cup {m} ELSE passed
    /\ toShim' = [toShim EXCEPT ![c] = Tail(@)]
    /\ UNCHANGED <<database, alive, live, flushing, proc, owner, open, up, toDaemon, written>>

\* A connected shim is killed, on its own or with the claude that started it.
ShimDies(c) ==
    /\ up[c]
    /\ faults < MaxFaults
    /\ faults' = faults + 1
    /\ proc' = [proc EXCEPT ![c] = "none"]
    /\ CloseShimEnd(c)

\* A shim that tries again does so no more: it is killed, or an error frame
\* during a handshake made it give up (shuttingDown; IpcLink has how).
ShimGone(c) ==
    /\ Retrying(c)
    /\ proc' = [proc EXCEPT ![c] = "none"]
    /\ UNCHANGED <<database, alive, live, flushing, owner, open, up, toShim, toDaemon,
                   history, faults>>

-----------------------------------------------------------------------------
(* The daemon's faults                                                     *)

DaemonCrash ==
    /\ alive
    /\ faults < MaxFaults
    /\ faults' = faults + 1
    /\ alive' = FALSE
    /\ live' = [s \in Sessions |-> None]
    /\ flushing' = {}
    /\ open' = [c \in Shims |-> FALSE]
    /\ toDaemon' = [c \in Shims |-> <<>>]
    /\ missed' = [c \in Shims |-> {}]
    /\ UNCHANGED <<database, proc, owner, up, toShim, written, passed>>

\* The service manager starts the daemon again, on the same database.
DaemonStart ==
    /\ ~alive
    /\ alive' = TRUE
    /\ UNCHANGED <<database, live, flushing, sockets, history, faults>>

-----------------------------------------------------------------------------
Next ==
    \/ \E k \in Keys : Ingest(k)
    \/ FlushRow
    \/ \E c \in Shims : DaemonReadsAck(c)
    \/ \E s \in Sessions : SessionStart(s, "startup")
    \/ \E s \in Sessions : SessionStart(s, "clear")
    \/ \E c \in Shims, s \in Sessions : Hello(c, s)
    \/ \E c \in Shims, s \in Sessions : GhostHello(c, s)
    \/ \E c \in Shims : ConnectionClosed(c)
    \/ \E c \in Shims : HeartbeatTimeout(c)
    \/ \E c \in Shims : ShimSeesClose(c)
    \/ \E c \in Shims : ReadWelcome(c)
    \/ \E c \in Shims : ShimForward(c)
    \/ \E c \in Shims : NotifyFails(c)
    \/ \E c \in Shims : ShimDies(c)
    \/ \E c \in Shims : ShimGone(c)
    \/ DaemonCrash
    \/ DaemonStart

\* A shim that tries again connects, if its session has no other connection.
Reconnect(c) == Retrying(c) /\ ~HasShim(owner[c]) /\ Hello(c, owner[c])

\* The event loops run their handlers, the kernel delivers bytes and close
\* events, a shim goes on trying, the service manager restarts the daemon.
\* Nothing is assumed of transports, of clears, of faults, nor of claude:
\* that a shim is ever started, or stays.
Fairness ==
    /\ WF_vars(FlushRow)
    /\ WF_vars(DaemonStart)
    /\ \A c \in Shims :
         /\ WF_vars(Reconnect(c))
         /\ WF_vars(DaemonReadsAck(c))
         /\ WF_vars(ConnectionClosed(c))
         /\ WF_vars(ShimSeesClose(c))
         /\ WF_vars(ReadWelcome(c))
         /\ WF_vars(ShimForward(c))

Safety == Init /\ [][Next]_vars
Spec == Safety /\ Fairness

-----------------------------------------------------------------------------
(* Safety                                                                  *)

\* Messages some shim has written to claude.
Forwarded == {m \in Msgs : written[m] > 0}

Outstanding(m) == state[m] \in {"received", "delivered"}
Carries(q, m) == \E i \in 1..Len(q) : q[i] = m
SameSession(m, n) == Target[keyOf[m]] = Target[keyOf[n]]

\* A row becomes 'acknowledged' only after a shim wrote its message to claude:
\* no reply of the socket layer, replay or restart settles a message that was
\* never handed over.
AckedWasForwarded == \A m \in Msgs : state[m] = "acknowledged" => m \in Forwarded

\* While the session's registered connection works on both ends, every
\* unacknowledged row is still to be flushed, or its frame or its
\* acknowledgement is under way on that very connection, or the shim missed it
\* on that connection.  Nothing else would ever send it again, there is no
\* timer: the rows a shim misses are the only ones a working connection
\* strands, and those that an earlier connection stranded are sent again.
OnlyMissedAreStranded ==
    \A s \in Sessions : \A c \in Shims :
      live[s] = c /\ open[c] /\ up[c] =>
        \A m \in Msgs : Outstanding(m) /\ Target[keyOf[m]] = s =>
          m \in flushing \/ Carries(toShim[c], m) \/ Carries(toDaemon[c], m) \/ m \in missed[c]

\* claude first sees the messages of a session in the order they were accepted,
\* across replays, displaced connections and crashes, but for those a shim
\* missed: only such a message is overtaken.
OnlyMissedAreOvertaken ==
    \A m, n \in Msgs :
      m < n /\ SameSession(m, n) /\ HasRow(m) /\ HasRow(n) /\ n \in Forwarded
        => m \in Forwarded \/ m \in passed

\* One connection carries each message at most once and in order, although
\* rows are replayed and new messages ingested on the same connection.
InOrderOnConnection ==
    \A c \in Shims : \A i, j \in 1..Len(toShim[c]) :
      i < j => toShim[c][i] < toShim[c][j]

-----------------------------------------------------------------------------
(* The inbound path keeps ReliableInbox's promise.                         *)

StatusOf(m) ==
    CASE m >= next -> "new"
      [] m < next /\ state[m] = "none" -> "dropped"
      [] m < next /\ Outstanding(m) -> "pending"
      [] m < next /\ state[m] = "acknowledged" -> "settled"

Status == [m \in Msgs |-> StatusOf(m)]

Inbox == INSTANCE ReliableInbox WITH status <- Status, got <- Forwarded

\* Seen from outside, the outbox, the router, the sockets and the shims do
\* what ReliableInbox says, in every interleaving and through every fault.
ImplementsInbox == Inbox!Spec

-----------------------------------------------------------------------------
(* Liveness                                                                *)

\* A shim of session s is there, connected or trying again.
Served(s) == \E c \in Shims : proc[c] = "listening" /\ owner[c] = s

\* While a session has a shim that has once been connected, every message
\* accepted for it is in the end acknowledged, or forgotten by a clear, unless
\* the shim missed it: after the faults stop, reconnecting delivers the backlog.
EveryRowSettles ==
    \A m \in Msgs :
      Outstanding(m) /\ Served(Target[keyOf[m]]) ~>
        \/ ~Outstanding(m)
        \/ ~Served(Target[keyOf[m]])
        \/ \E c \in Shims : m \in missed[c]

-----------------------------------------------------------------------------
(* What the documents say and the code does not do                         *)

\* acceptance.md, on a shim that was killed and started again: the messages sent
\* meanwhile appear "after the shim reconnects, in order, with zero loss".
ReplayReachesClaude ==
    \A s \in Sessions : \A c \in Shims :
      live[s] = c /\ open[c] /\ up[c] =>
        \A m \in Msgs : Outstanding(m) /\ Target[keyOf[m]] = s =>
          m \in flushing \/ Carries(toShim[c], m) \/ Carries(toDaemon[c], m)

\* reder-prd.md, NFR-R2: no acknowledged message is duplicated.
AcknowledgedOnce == \A m \in Msgs : state[m] = "acknowledged" => written[m] <= 1

\* quickstart.md: messages sent while claude restarts are delivered when it is
\* back; so the hook of a claude that starts deletes none that is still queued.
StartupKeepsQueued ==
    [][\A s \in Sessions : SessionStart(s, "startup") =>
         \A m \in Pending(s) : m \in Forwarded \/ HasRow(m)']_vars
=============================================================================
