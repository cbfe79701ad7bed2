# Rederd in TLA+

RederJS connects long-running Claude Code sessions to people. A daemon (`rederd`)
runs the chat adapters (Telegram, web dashboard); each session's claude starts a
*shim*, an MCP server that talks to the daemon over a unix socket. Messages go from
an adapter through the daemon and the shim to claude ("inbound"), replies come back
("outbound"), permission prompts go out and verdicts come back, and hook events tell
the daemon when a conversation starts, is cleared, stops.

This directory holds TLA+ models of the parts of that system where order, failure and
timing decide correctness, the TLC runs that check them, and TLAPS proofs. Paths below
are relative to `src/packages/` unless they start with `docs/`.

## 1. The system

| component | state | operations | interacts with |
|---|---|---|---|
| Inbound delivery (`core/src/router.ts`, `core/src/storage/outbox.ts`) | `inbound_messages` rows: received, delivered, acknowledged | `ingestInbound`, `deliverInbound`, `flushPendingForSession`, `channel_ack`, purge on clear | adapters call it; it sends on the IPC connection; replays on `shim_connected` |
| IPC link (`core/src/ipc/server.ts`, `shim/src/ipc-client.ts`, `shim/src/index.ts`) | `connections` map, `ConnectionCtx`, `sessions.state`; client `status`, socket, pending requests, `shuttingDown` | hello/welcome, displacement, teardown, heartbeat, reconnect, reply requests with a 30 s timer | router through events, shim's MCP server |
| Permission relay (`core/src/permissions.ts`) | `active` map with `settled` flags and timers, `permission_requests`, `persistent_approvals` | request, verdict, timeout, cancel for a session, stop | adapters (awaited calls), IPC link, activity tracker |
| Session clear and activity (`core/src/router.ts` `clearSession`, `core/src/activity.ts`, `core/src/storage/purge.ts`) | activity per session, `pendingPermissions` | hooks, clear, reset | permissions, outbox, adapters |
| Daemon start and stop (`daemon/src/index.ts`, `lifecycle.ts`, `bootstrap.ts`, `cli/src/commands/service.ts`, `init.ts`, `systemd.ts`, `dashboard.ts`, `adapter-web/src/auth.ts`) | `rederd.pid`, `rederd.sock`, the systemd unit, `dashboard.token` | bootstrap, lock, signals, stop; `start`, `stop`, `restart`, `init`, `rotate-token`, `url` | other instances, shims, systemd |
| Outbound replies (`core/src/router.ts` `handleReplyToolCall`) | `outbound_messages`, attempt counter | insert, send with retries, result to the shim | IPC link, adapters |
| Transcript capture and hook client (`shim/src/hook-cli.ts`, `core/src/transcript-tail.ts`, `transcript-parser.ts`, router) | `transcript_offsets`, eager prompt cache, local rows | hooks, tail at Stop, eager capture of a prompt | claude, storage, activity |
| Telegram adapter (`adapter-telegram/src`) | polling offset, limiters, `perm:<id>` keys | poll loop, every kind of update, access gate, media, prompts, sends | router, pairing |
| Pairing and rate limits (`core/src/pairing.ts`, `ratelimit.ts`) | `pair_codes_v2`, `bindings`, sliding windows | issue, redeem, expire, reconcile with an allowlist, limit | adapters, router, `reder pair` |
| Session setup (`cli/src/commands/sessions-*.ts`, `config-writer.ts`, `claude-hooks.ts`, `telegram.ts`, `core/src/sessions.ts`, `tmux.ts`) | `reder.config.yaml`, session rows, token files, `.mcp.json`, `settings.local.json`, tmux | add, remove, repair, start, up, restart, bot commands; registration at start | each other, rederd |
| Web backend (`adapter-web/src`) | unread counters, event streams | transcript, messages, permissions, `rotate-token` | router, relay |
| Dashboard front end (`adapter-web/web/src`) | messages, cards, selection | fetches, events, decisions | web backend |
| others | | codec, media, audit, logging, health, storage | |

What makes it hard, component by component (the full list, each item at its line, is
`hazards` in `PROJECT.json`):

* **Inbound**: a socket write says little. It may be lost after `true` and delivered
  after `false`; there is no resend timer, only the replay on the next handshake; and on a
  shim's first connection the frames that share a chunk with the welcome meet no listener.
  A message must not be lost, stranded, reordered, or settled before claude's side had it.
* **IPC link**: the hello handler awaits argon2. Other frames, other handshakes and the
  end of the socket fall in between; the 'close' event of a displaced connection comes
  after its successor was registered.
* **Permissions**: users on two adapters, a timer and a clear race for one request, and
  every loop over adapters awaits between its turns.
* **Start and stop**: the lock and the socket path are files that other instances
  create, read and unlink between any two of our system calls, and a kill leaves them.
* **Outbound**: a reply is sent in parts and sent again from its first part; claude may
  be told that it failed while its handler goes on; a clear deletes its row and a crash
  its handler; whom it goes to is what the daemon knows, not what claude has seen.
* **Telegram and pairing**: the offset is written after the update it passes, so a crash
  redelivers; downloads are awaited; the configuration is another one after a restart,
  and what was bound or decided under the old one must not outlive it.
* **Transcripts and hooks**: every hook is a process, and its token is verified before its
  event is looked at: they are applied in any order. A transcript is read while it is
  written, and a prompt comes twice, from its hook and from the transcript.
* **Session setup**: one session is written down in five places that no transaction spans;
  commands are killed between two of them, or run beside each other.
* **Dashboard**: a change is an event on one connection and an answer on another; the
  count of unread messages is reset by whoever fetches.

## 2. Modules

| module | what it is |
|---|---|
| `ReliableInbox` | what the inbound path promises: accept once per key, hand over in order but for messages passed over in their turn, settle after handing over, forget on a clear only. No sockets or crashes |
| `InboundDelivery` | outbox + router + connections + shims + crashes, for many sessions; implements `ReliableInbox` |
| `InboundDeliveryProofs` | TLAPS: types, inductive invariant, four safety properties, and that `InboundDelivery` implements `ReliableInbox` |
| `IpcLink` | the link of one session: both state machines, frames, handshake in two steps |
| `ReplyRecipient` | `OutboundReply` beside the messages that claude was handed: whom a reply answers |
| `ReplyPromise` | what the reply tool promises claude: "sent" means posted and final, chunks in order, no part posted more than `MaxAttempts` times |
| `OutboundReply` | the reply tool, the router's handlers with retries, `outbound_messages`, Telegram's sends; implements `ReplyPromise` |
| `OutboundReplyProofs` | TLAPS: types, inductive invariant, two safety properties, the refinement |
| `Permissions` | the relay of one session's permission requests, with clears and restarts |
| `PermissionsProofs` | TLAPS: types and all four safety properties of the relay |
| `DaemonStart` | instances of rederd competing for the socket path and the lock file |
| `ServiceControl` | the commands that start and stop rederd, the systemd unit and the dashboard's token, on top of `DaemonStart` |
| `IpcLinkProofs` | TLAPS: types and all safety properties of the link |
| `TelegramInbound` | polling loops, access gate, pairing, limits and media ingestion of the Telegram bots, with restarts and edits of the configuration |
| `TelegramInboundProofs` | TLAPS: types, who is stored, bound and obeyed, and that the limits hold |
| `SessionSetup` | the commands that set up sessions, each a process of many steps, over the five places |
| `CommandLineProofs` | TLAPS: `DaemonStart`'s types, and that an instance that serves holds the lock or was robbed of it by an overlapping start; `ServiceControl` implements that safety part; a printed token is accepted or was replaced by such a start; `SessionSetup`'s types and its four action properties |
| `SessionCapture` | hooks, transcript and activity of one session |
| `SessionCaptureProofs` | TLAPS: types, that only skipped replies are missing, and that prompts are stored and shown, each once |
| `Dashboard` | unread counts and event streams of the web adapter, one tab with its panel, the relay as it appears to them |
| `DashboardProofs` | TLAPS: types, the badge's counts, the panel's rows and cards |
| `MC...` | instances for TLC |

How they are composed: `ServiceControl` EXTENDS `DaemonStart`, and `ReplyRecipient`
`OutboundReply`, and add variables to its steps; `InboundDelivery` contains the link in the detail that delivery depends on, and
`IpcLink` the handshake in full; the relay of `Permissions` is in `Dashboard` by what it
tells an adapter. Adapters and core meet at the adapter's interface, which each module
states as actions.

### InboundDelivery

Rows are numbered in insertion order, which is what `ORDER BY received_at, rowid` gives
as long as the clock does not step back. `state` is the column; `"none"` stands for no
row. `live` is the server's map; a shim process and its connection go by one name, and
`open`/`up` are the two ends of it; `toShim` and `toDaemon` are what is on the wire.
`flushing` is the list `flushPendingForSession` holds in a local variable. That loop awaits, but only promises that are already
resolved, so no other handler of the daemon runs before it ends; a shim, or a crash of
the daemon, does. `Ready` states that for every other handler.

`sendFrame` returns what `socket.write` returned; under backpressure that is `false`
for a frame that will be sent (`SendResults`). `Hello` is a handshake that ends well.
`GhostHello` is one whose socket was destroyed while the token was being verified: the
handler goes on and registers a dead connection. `written` counts to 2, which is enough
to tell "never", "once" and "again".

`proc` is what the shim has got to. `shim/src/index.ts` awaits `connect()`, which resolves
on the welcome, and creates the MCP server afterwards; the frames of one chunk are emitted
synchronously. So on its first connection a shim in `"starting"` reads the welcome with
any number of the channel_events behind it (`ReadWelcome`), and these meet no listener. A
notification that is rejected has the same effect (`NotifyFails`). Neither is noticed by
the daemon. `missed[c]` are the messages that went so on connection `c`, `passed` those that
no shim has handed over since: the properties say that what was missed is the only thing
that is ever stranded or overtaken. A shim that listens tries again when its connection is
gone (`Retrying`), until it is killed or gives up (`ShimGone`).

### IpcLink

`ReadHello` and `Verified` are the two halves of the hello handler; `Refuse` is the
UNAUTHENTICATED answer to any other frame before the second half. Destroying a socket
(`Destroy`) and its 'close' event (`Teardown`, `ShimClose`) are separate steps. A frame
written to a destroyed end is lost. `Reply` is the reply tool: it needs a socket, not a
completed handshake, which is what the code asks for. All frames of the shim go through
`sendRaw` as replies do. A shim that gets an error before it is connected stops for good
(`stopped`), as `shuttingDown` does.

### Permissions

One action per handler. `sendAt`, `cancelAt`, `clearAt/clearStep` say which adapter call
a loop awaits. A prompt is in `shown` from the moment its adapter knows where it put it.
`Answer` is any verdict of any adapter on a request: the dashboard knows requests from
events, and a button left on a screen can be pressed at any time. A restart empties what
is in memory and keeps rows, approvals and prompts.

### OutboundReply

`stage[r]` is where the handler of reply `r` awaits: the staging of attachments, one
request to Telegram, or the delay before the next attempt. `attempt`, `part`, `got`,
`again` are its locals; it sends all parts again in each attempt. A text stops at the
first chunk that fails; attachments are all tried, and one that arrives makes the reply
a success. `SendReturns` has every outcome of a request: done, or failed with the message
posted or not, in a way that the adapter holds to be retriable or not. `call` is what
claude knows. `CallFails` stands for everything that rejects `sendReply`; the handler
does not notice. An adapter that threw would end the
process (nothing handles the rejection): that is `Crash`.

`copies` counts what was posted; `ReplyPromise` is about `call` and `copies` only.

Of `inbound_messages` the model keeps what `resolveRecipient` can see: `newest`, the
senders of the rows with the newest `received_at`, and `top`, the one of them whose row has
the greatest `message_id`. `received_at` has milliseconds and `message_id` is a random
UUID, so a new row (`NewRow`) may fall into the millisecond of those before it and come
first or not. `Resolved` is `last` or, once a restart has emptied that, `top`.

### ReplyRecipient

Adds to `OutboundReply` the inbox in the order the rows were stored and how much of it
claude was handed, and states what the documents say of a reply's recipient.

### DaemonStart

One action per system call on the two paths. The pid file is named by its creator and
is empty until its creator is in `written`; `Number('')` is 0, which the code treats as
stale. Any instance may be started at any time, beside others that are starting. `apart`
remembers whether starts have overlapped so far, `robbed` which instances had their lock
removed by another: by one that judged the file that had the name before, or this one while
it was empty, or by one that was robbed itself and releases.

### ServiceControl

One command at a time; each of its system calls is a step, and the daemon goes on in
between. It sees the daemon by the pid file only (`LookForPid`, `CheckPid`). `unit` says
whether `reder init` installed a unit; then systemd starts and restarts (`managed`), and
an instance that a command forked earlier is none of systemd's business. Tokens are
numbered; `raw` is the token file of an old install, which `url` can still read. An
instance that finds no token file makes a token of its own in two steps (`LoadToken`,
`CreateToken`), the second of which renames it over whatever is there by then; `spoiled`
says that a token printed before was replaced so.

### TelegramInbound

A bot stands for its session. `queue` is what Telegram holds and hands out again until
the offset passes it; `stage` says at which await the loop is. `Handled` closes every
branch of `handleUpdate`, `WriteOffset` follows it whatever happened. `got` counts the
rows an update became, `fate` is how its handling ended; both are history. In pairing mode
a stranger gets a code, in allowlist mode the list binds. `Start` reconciles bindings
with the list, forgets the windows and starts the bots in turn: one whose token is missing
or whose `transport.init` throws ends that, nothing retries it, and rederd runs on (`up`)
with the bots it polls, which the model lets be any of them (`Polled`). Windows are sets of
stamps over a bounded clock: `RateLimiter` keeps an array of times and asks only how many
of them are recent, so a stamp is a time and a number that keeps two of one time apart. Group
chats, `/start`, voice notes and what is ignored are one kind, "other".

### SessionSetup

`proc[p]` holds the command's program counter and locals: the document it has loaded is
written back later, and what another command wrote in between is lost with it. A token is
named by the command that made it. `mcp[d]` is the one `reder` server of a project.
`alone` says that nothing came between a command's steps: the properties about a single
command's effect ask for it; what killed and interleaved commands left behind earlier
is the state it starts from.

### SessionCapture

`transcript[f]` grows by entries, the last of which may be `torn`; `NewOffset` is the end
of the last complete one. `captureTranscript` works entry by entry; the model says in
one step what comes of it: the local entries behind the offset (`Unread`), the one of
them that the cached prompt `eager` stands for (`Cached`), and what is left in the cache
(`Left`). `hooks` are events that may be applied in any order (`overtaken`). A clear with
prompts to take back waits (`clears`) and purges later. The history variables name what
the code loses or shows wrong: `skipped` are the replies that `captureTranscript` passed
without a row, since rederd died between the offset and the inserts or since the offset was
that of another file (`Foreign`); `dropped` are cached prompts whose place was taken or
lost, or that came too late; `steady` says that one transcript was read since the last
clear, without a crash midway, which the properties of prompts ask for.

### Dashboard

The daemon's side is a turn of the event loop per step. `pipe` is the event stream,
`asked` the fetches, answered (`Answer`) and applied (`Apply`) in any order. `behind` is
set when an event is lost, a fetch fails or an outdated answer is the last, and reset when
the panel is made to fetch again. `ghosts` and `missed` are cards whose events a broken
stream took.

## 3. Runs

| run | shows |
|---|---|
| `inbound_delivery` | acknowledged implies forwarded; on a working connection nothing is stranded but what its shim missed, and nothing is overtaken but what a shim missed; no frame twice on a connection; refinement of `ReliableInbox`; a message of a session that is served is acknowledged, cleared or missed in the end |
| `ipc_link` | one served connection per session; a connected client is the registered one; "sent" only for handled requests; a shim that serves reconnects |
| `ipc_gives_up` | *violation*: a reply made during a reconnect's token check stops the reconnection for good |
| `outbound_reply` | refinement of `ReplyPromise` through retries, resends, lost frames, clears and crashes; a row is "sent" only if the reply is posted; the recipient is one of those who wrote in the newest millisecond, through clears and restarts; every row is decided or stranded by a crash |
| `outbound_recipient` | *violation*: a reply to the message claude was handed goes to somebody whose later message claude has not got |
| `permissions` | one verdict per request, equal to the row; a cancelled request is never answered; pending only what can be answered; approvals only from "allow"; every request ends |
| `service_control` | under start, stop, restart, init and rotate-token, with kills and starts that overlap: the instance that serves holds its lock, or one that started beside it took it; an instance started after a URL was printed accepts its token, or one that had found no token file replaced it; while starts do not overlap, a stale lock gives way and "started" comes true; "stopped" always does |
| `telegram_inbound` | a redelivered message becomes no second row and the offset passes only what was dealt with; of what passes the limiters no window holds too much; bindings come from codes redeemed once and in time, or from a list; a start with a list obeys it; a bot that is polled passes every update |
| `telegram_two_bots` | *violation*: the same person's first messages to two bots have one key, the second is dropped |
| `session_setup` | add leaves a session that works; remove leaves nothing; other sessions keep what is theirs; restart moves a session to its new project |
| `session_capture` | once its Stop is handled the replies of a transcript are stored, but for those whose capture a crash or another file's offset cut short; so are its prompts, each once; a session shown at work is at work |
| `dashboard` | unread counts follow messages and fetches; a panel at rest shows the rows of its session; cards follow requests |

Further configurations are counterexamples that a finding names (§6); TLC reports each
property as violated (with `-continue` where a configuration has several):

| configuration | what is violated |
|---|---|
| `inbound_documents` | an acknowledged message was written to claude once; a replayed message reaches the claude that is connected; messages queued for a claude that starts are kept |
| `outbound_restart` (`MCReplyRecipient`) | after a restart a reply goes to who wrote last |
| `permission_stale_prompt` | a cancelled request leaves no prompt behind |
| `daemon_documents` (`DaemonStart`) | an instance that serves can be reached; two instances never hold the lock |
| `service_rotate` | an instance started after a rotation accepts the printed token |
| `telegram_start` | a bot whose start failed is started again |
| `service_url`, `service_refused`, `service_stopped` | `dashboard url` prints a URL; a start refused for a running instance has one; after "stopped via systemctl" nothing serves |
| `session_remove` | a remove spares the `.mcp.json` entry of another session |
| `session_reply` | every complete reply of a transcript is stored |
| `session_clear` | a session shown idle is idle |
| `dashboard_badge`, `dashboard_banner`, `dashboard_live` | counts fall only for opened sessions; every open request has a card; a panel at rest is up to date |

Every property of a passing run has a mutant (`mutants` in `PROJECT.json`): a definition
of the model changed as a plausible bug would change the code, under which the run fails.
The mutated forms stand in each module under "Faults a mutated definition stands for"
and are used by nothing else.

`CHECK_DEADLOCK FALSE` is set everywhere because the system may really stop: once the
bounds are used up and nobody writes, all processes wait.

## 4. Bounds

* `inbound_delivery`: 1 session, 2 keys, 3 rows, 2 shims, 2 faults. Two rows of a
  session can be reordered; the third allows a key to be accepted again after a clear;
  two shims let one displace the other with frames on both, or follow it with a first
  connection of its own; two faults give crash and ghost, displacement and rejected
  notification, kill and heartbeat loss, and so on in every order. More sessions are covered
  by the proofs, not by the run; the violation runs use two.
* `ipc_link`: 2 shims, 2 connections, 1 reply request, 2 faults. Two shims verify at the
  same time and displace each other. A third party adds no new pair.
* `outbound_reply`: 2 replies of 2 parts, a text and one with attachments, 2 attempts,
  2 people who write any number of messages, 1 clear, 1 crash; the connection may break any
  number of times. A second part makes partial success, a second attempt resends. Replies
  touch each other only in the queue of frames. Two people share a millisecond or follow
  one another, and a crash or a clear comes in between. `outbound_recipient` and
  `outbound_restart` bound the inbox they remember to 2 messages.
* `permissions`: 2 requests with the same signature, 2 adapters, 1 clear, 1 restart. A
  clear awaits between two requests and between two adapters; one request's approval
  answers the other.
* `service_control`: 3 instances, 2 kills, 2 commands: a stale lock of every kind (empty,
  dead owner), with one or two instances to recover from it, a restart or a rotation on top
  of a start, and instances that the unit and a command start side by side. The commands
  and starts bound the tokens. The counterexample of `service_rotate` takes 3 commands.
* `telegram_inbound`: 1 bot, 2 people, 2 updates of each kind but edits, a limit of 1 in
  a window of 2, a clock to 2, 1 stop, 1 edit of the configuration, which is pairing or a
  list of one. A second update exceeds the limit or redelivers with the first; the list
  names one person and not the other. Bots meet only in the table of keys:
  `telegram_two_bots` has two, and the theorems any number.
* `session_setup`: 2 sessions in 2 projects, one with broken settings, 2 processes, 3
  commands, 1 mishap, which is a kill or one overlap of commands. Three commands are one
  that leaves a mess, one that changes something and one that is asked about.
* `session_capture`: 2 files, 2 texts, 2 prompts, 2 starts, 1 mishap. Two prompts may say
  the same, the hard case, since the cache compares texts, or not.
* `dashboard`: 2 sessions, 1 request, 2 rows, 2 openings of the panel, 2 fetches and 2
  events in flight, 1 mishap: two fetches can answer in the wrong order, across a switch of
  sessions too. It takes some minutes; the others take less than one or two.
* The bounds are in the guards (`MaxMsgs`, `MaxFaults`, `MaxMishaps`, `MaxTime` and
  so on), never in constraints, so the liveness checks are sound.
  Symmetry is used in `session_setup`, `session_capture` and `dashboard`, which check no
  liveness.

## 5. Fairness

Weakly fair: what the event loops, the kernel and the service manager do of themselves,
i.e. reading a frame that arrived, delivering a 'close' event, finishing argon2, firing a
timer, the next turn of a loop, the next attempt to connect (`scheduleReconnectIfNeeded`
has no limit on attempts), restarting the daemon (`Restart=` of the systemd unit), a
process executing its next statement, an adapter's call returning (Telegram's HTTP client
has a timeout). Not fair: people and transports writing, claude making requests or
starting shims, hooks, clears, kills, crashes, a call's failure. `Reconnect` in
`InboundDelivery` is a shim that has served and tries again while no other serves its
session; it may still be killed or give up, and nothing assumes that a session gets a shim
ever again. `EveryRowSettles` is therefore about a session that keeps one (`Served`): its
message is acknowledged or cleared in the end, unless a shim missed it. In `TelegramInbound` the loops and
`Start` are fair: a loop's awaits end (requests have timeouts) and the unit restarts
rederd; a bot whose start failed stays off. In `ServiceControl` instances and the running command execute their next
statements. `SessionSetup`, `SessionCapture` and `Dashboard` state no fairness; their
"in the end" is stated for moments when nothing is under way any more.

## 6. Where the documents and the code differ

`findings` in `PROJECT.json` quotes each. In short: delivery is at least once, the PRD
says exactly once (NFR-R2); messages queued for a claude that starts are purged by its
`SessionStart` hook, the quickstart says they are delivered; a frame sent during a
reconnect's token check ends the reconnection (F3.6); a prompt being sent while its
request is cancelled stays; a second `rederd` takes the socket path before it asks for the
lock (F2.1); a reply goes to whoever wrote to the daemon last, seen by claude or not, and
`in_reply_to`, which could name the right one, needs an id that claude is never told.
Keys of Telegram messages are unique per adapter, the ids they are made of per bot; photos,
documents and updates whose handling threw escape the limit and the promise to persist.
`sessions remove` takes another session's `.mcp.json` entry; a registration at start may
hash a token nobody has. A clear that waits purges what came meanwhile and shows a working
session as idle. Previews of the session list reset unread counts; cards and transcripts
of the dashboard miss what came while a stream was down. An empty pid file reads as pid 0
to `reder start`; `dashboard url` cannot print a hashed token; "stopped via systemctl"
may leave a forked daemon alone; `restart` waits 3 s for a stop that may take 10.

What a claude's first connection replays in the chunk of the welcome is dropped by the shim,
which does not listen yet, and stays unacknowledged until the next handshake, although
replays are said to be in order and without loss. After a restart a reply goes to either of
two people who wrote in one millisecond. A Telegram bot whose start failed, and those behind
it, are not started again (the PRD says with backoff). Replies whose capture a crash cut
short, or that an offset of another transcript covers, are lost for good. Starts that
overlap can rob the lock of an instance that serves, and one that found no token file while
a rotation was under way replaces the token just printed.

Three
smaller ones: a reply that is pending when rederd stops is not taken up again,
though the PRD speaks of entries retried after an upgrade; "acknowledged" means
written to claude's stdin, not received by it; and the shim's first connection is not
retried (F3.3).

## 7. Proofs

All theorems hold for every value of the constants that satisfies the module's `ASSUME`.

* `InboundDeliveryProofs`: `TypeCorrect`; `Inductive` for the invariant `IInv`, and from
  it `AcknowledgedIsForwarded`, `NothingElseStranded`, `FirstForwardOrder`,
  `ConnectionOrder`. The safety properties are not inductive by themselves. That only
  missed messages are overtaken needs `NoOvertaking`: an older message of the session has
  had its turn (`HadTurn`: it was forwarded or is `passed`) or precedes the frame on the
  same connection. That needs `FlushOrder` (the rows
  still to be replayed are younger than all frames of the registered connection), `Frames`
  (a frame is of the connection's own session and an acknowledgement of a forwarded
  message), `Connections` and `Rows`. `WriteKeepsIInv` is the heart: writing the
  next row of a replay, or a fresh row, on the registered connection keeps all of it;
  `TakeKeepsIInv` is the other end: a shim that takes frames off the wire, by handing one
  over or by missing some, keeps it too.
  `Refinement` goes step by step: `IngestAccepts`, `AckSettles`, `SessionStartForgets`,
  `ForwardHandsOver`, `MissPassesOver`, and everything else is a stutter (`Unseen`). The
  order in the abstract `HandOver` and `PassOver` is where `NoOvertaking` is used.
* `OutboundReplyProofs`: `TypeCorrect`, `SentIsPosted`, `RecipientAgrees`, and
  `Refinement` of `ReplyPromise`, for any number of people, replies, parts, attempts, clears
  and crashes. The invariant `IInv` says per reply what its handler has done so far
  (`CountedAt`: no part posted more often than it was tried; `ProgressAt`: the chunks
  before the current one are there), that nobody is told of a success that is not there
  (`ToldAt`), and that a frame on the way is the only one of its call (`Queue`). `Frame`
  carries it over for all replies a step is not about. Not even the types are inductive
  without it: the copies stay in range because the attempts do.
* `PermissionsProofs`: `TypeCorrect`, `OneVerdict`, `AbandonedIsSilent`,
  `PendingIsAnswerable`, `ApprovalIsAllowed`, for any number of adapters, clears and
  restarts. They need `OpenIsUndecided` (an open entry has no verdict, no cancel under way
  and was not abandoned), which is what the `settled` flag is for.

* `IpcLinkProofs`: `TypeCorrect`, `ServedIsRegistered`, `ClientAndMapAgree`,
  `SentIsHandled`, `WaitingHasConnection`, for any number of shims, connections, requests
  and faults. That a connected client is the registered one is not inductive: a welcome on
  the wire must come from an authenticated connection (`Welcomes`), which needs that a
  hello on the wire is the only one of a connection that is still new (`Hellos`), and that
  a client that has not sent its hello is new to the server (`Ungreeted`).
* `CommandLineProofs` is about two specifications that share no name and no variable, and
  extends both. First, of `DaemonStart` alone, `TypeCorrect`, `TheServingHoldsTheLock` and
  `OneInstanceServes`, for any number of instances, kills and starts, overlapping or not. The
  invariant says that one that serves holds the lock or was robbed (`HoldsOrRobbed`), and
  what an instance that recovers a lock knows (`JudgedDead`: one whose pid it took for a
  dead one's is dead). As long as starts were `apart`, only one instance is starting at a
  time and nobody was robbed (`OneByOne`).
  Then `ImplementsDaemonStart`: with the commands, rederd takes only
  steps of `DaemonStart` or stutters, so `ServiceHoldsTheLock` is `DaemonStart`'s theorem.
  `PrintedTokenIsAccepted` needs, in `TInv`, that a printed token stays in its file unless
  it was `spoiled` (`PrintedIsStored`) and that an instance that was not started has read
  none (`UnstartedHasNone`).
* `CommandLineProofs`, of `SessionSetup`: `SetupTypeCorrect`, `AddLeavesUsable`,
  `RemoveLeavesClean`, `OthersAreSpared`, `RestartMovesThere`, for any number of sessions,
  projects, processes, commands and kills. The four are about a command's last step, or
  any step, so the invariant follows commands through all of them: `WellFormed` says what a
  command at each step knows (a draft it has made, a project it has found in the config),
  `Solo` that a command whose `alone` still stands is the only one at work, and `DoneAlone`
  which places such a command has already set right: for an add, for instance, that the
  draft is today's config with its entry while it is being written, and that entry, hash,
  token and `.mcp.json` agree by the time it comes to the hooks. A step of one command is
  nobody else's business (`OneDoes`), so each action is a lemma about that command alone
  (`Does`, `Keeps`); claude's exit is the one step in between that touches a place
  `DoneAlone` speaks of, and it leaves the session where it is.
* `TelegramInboundProofs`: `TypeCorrect`, `StoredOnce`, `BindingsProven`, `ListObeyed`,
  for any number of bots, people, updates, edits and restarts. Every branch of the handling
  of an update is first summarised (`HandlingOne`: it waits or it deals with the update,
  binds only whom the list names, decides only for whom the list allows). `Progress` says
  where the loops can be, `Storing` that the key of a stored message is kept, and
  `RedeemedIsGone` that a redeemed code's row is gone. `RateIsHeld` holds for any limit and
  window: `Stamps` says that the limiter still has whatever is in an open window and that
  the next stamp is a new one (so counting stamps counts messages); what could share a
  window with a message that passes was counted when it passed (`CountedStamps`).
* `SessionCaptureProofs`: `TypeCorrect`, `OnlySkippedMissing`, `PromptsCaptured`,
  `PromptsShownOnce`, `WorkingWorks`, for any number of files, prompts, starts and mishaps,
  prompts of equal text included. The two properties of prompts count the rows that say a
  text; a row of the hook may stand for another prompt's entry in the transcript, so the
  invariant counts what rows stand for: every prompt that was read and has no row of its
  own was taken for a captured one, one for each (`ReadIsShown`), and every captured
  prompt that left the cache was used for one that gets no other row (`UsedOnce`). They
  need that the offset lies in its file and rows are of local prompts (`Caught`), the
  order of entries and of waiting hooks (`Written`, `Queued`), and for replies
  `RepliesAreStored`; `Works` follows a prompt's Stop through the queue.
* `DashboardProofs`: `TypeCorrect`, `BadgeIsNew`, `PanelShowsRows`, `CardsAreRequests`, for
  any number of sessions, requests, rows, events, fetches and mishaps. The properties speak
  of a panel that has heard everything; the invariants say what is still to come. For
  rows: what the panel does not show it will be told of or has asked for
  (`ShownOrComing`); an answer that is not outdated is what the database says, or a message
  or another fetch comes after it (`AnswersAreRows`); a session whose clear is announced has
  no rows, or more is announced (`ClearsArePurges`). For cards: an announced request is
  open, or its removal comes later in the stream (`Announced`); an open one is announced
  again behind every clear (`Reannounced`); and a request not made is nowhere
  (`Requested`). The order of events in the stream is part of the invariant.

Only model-checked: all liveness properties (`EveryRowSettles`, `Reconnects`,
`NoneStaysOpen`, `RowsAreDecided`, `StaleLockGivesWay`,
`CommandsKeepTheirWord`, `EveryUpdatePasses`), since fairness and ENABLED are out of the
prover's reach.

## 8. Not modelled

* Frame codec and schemas (`core/src/ipc/codec.ts`): pure functions of the bytes received.
  The models take frames as whole; a frame above `MAX_FRAME_BYTES` or an invalid one ends
  its connection, which the faults of each module include.
* Storage, migrations, key-value table: better-sqlite3 runs each statement or transaction
  synchronously, and the models take it as one step; migrations run once, before anything
  else, on one process.
* Media files, audit, logging, health: I/O that no decision of the modelled parts reads.
* Front end beyond messages, cards and selection: composer, voice input
  (`voiceFsm`, `useSpeechRecognition`), settings, rendering. Their state is local to a tab
  and its protocol is the browser's.
* Web routes that keep no state: git status, avatars, uploads, tmux probes, static files.
* Telegram: splitting and rendering of messages, group chats, the typing indicator.
* Commands that only read (`doctor`, `status`, `logs`, `sessions list`, `config`).
* The product of `Permissions` with the link. A verdict that is given while the shim is
  disconnected is recorded and its frame is lost (`dispatchVerdict` ignores the result of
  `sendToSession`): each side is modelled, and they are not composed.
* Inside the modelled components: failed tokens and invalid frames of the IPC server,
  failed edits of prompts, the reuse of pids, a clock that steps back, two service commands
  at the same time, tmux commands that fail during a restart of a session.

## 9. How to run

`tlc -workers 2 -config inbound_delivery.cfg MCInboundDelivery` and so on (the module of
each run is in `PROJECT.json`; a further configuration goes with the `MC` module of its
component unless §3 names another); `tlapm InboundDeliveryProofs.tla`.
