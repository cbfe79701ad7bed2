-------------------------- MODULE TelegramInbound --------------------------
(***************************************************************************)
(* What people write to the Telegram bots until it is a row of             *)
(* inbound_messages: the polling loop of each bot with its stored offset,  *)
(* the access gate in both modes, pair codes and bindings, rate limits,    *)
(* and `reder pair`, through restarts with the configuration edited.       *)
(*                                                                         *)
(* Every bot serves one session, so a bot stands for its session too.      *)
(* All chats are private: an update of a group is "other" (allow_groups is *)
(* off) and so are voice notes, /start, /help and what normalizeUpdate     *)
(* ignores, which only send an answer.                                     *)
(***************************************************************************)
EXTENDS Naturals, Sequences, FiniteSets

CONSTANTS
    Bots,        \* the bots, one for each session
    Senders,     \* Telegram users; a private chat's id is its user's
    Blobs,       \* contents of files, told apart by their hash
    Configs,     \* the telegram configs an operator writes: [mode, allow]
    Kinds,       \* the kinds of updates people make
    MsgLimit, MsgWindow,    \* rateLimitPerMinute and its window
    PairLimit, PairWindow,  \* pairAttemptsPerHour and its window
    CodeLife,    \* CODE_TTL_MS
    MaxUpdates,  \* bound: updates per bot
    MaxTime,     \* bound: the clock
    MaxStops,    \* bound: stops and crashes of rederd
    MaxEdits     \* bound: edits of the configuration

ASSUME TelegramAssumption ==
    /\ Configs \subseteq [mode: {"pairing", "allowlist"}, allow: SUBSET Senders]
    /\ Configs # {}
    /\ Kinds \subseteq {"text", "edit", "command", "photo", "document",
                   "callback", "other"}
    /\ {MsgLimit, PairLimit, MsgWindow, PairWindow, CodeLife} \subseteq Nat \ {0}
    /\ {MaxUpdates, MaxTime, MaxStops, MaxEdits} \subseteq Nat

VARIABLES
    up,         \* rederd runs
    queue,      \* queue[b]: the updates of bot b, as Telegram numbers them
    offset,     \* offset[b]: adapter_kv, the updates that are done with
    upTo,       \* upTo[b]: the last update of the batch the loop holds
    stage,      \* stage[b]: "off", "poll", "download" or "handled"
    keys,       \* idempotency keys of inbound_messages
    got,        \* got[b][i]: the rows update i of bot b was stored in
    fate,       \* fate[b][i]: how the loop's handling of it ended
    bindings,   \* table bindings: who is bound to which session
    codes,      \* pair_codes_v2, with those that are gone: [of, at, live]
    redeemed,   \* the redemptions: [code, by, at, run]
    msgWindows, \* messageRateLimiter
    pairWindows,\* pairRateLimiter
    admitted,   \* the stamps of what passed messageRateLimiter since the start
    verdicts,   \* who decided permission requests since the start
    config,     \* reder.config.yaml
    loaded,     \* this.config
    now,        \* the clock
    stops, edits

loopVars == <<up, offset, upTo, stage, got, fate>>
accessVars == <<bindings, codes, redeemed>>
limitVars == <<msgWindows, pairWindows, admitted>>
boundVars == <<stops, edits>>
vars == <<queue, loopVars, keys, accessVars, limitVars, verdicts, config,
          loaded, now, boundVars>>

Ids == 1..MaxUpdates
FileKinds == {"photo", "document"}
Fates == {"new", "kept", "duplicate", "refused", "limited", "failed", "answered"}

Update == [kind: Kinds, from: Senders, ref: Ids \cup Blobs]
Code == [of: Senders, at: Nat, live: BOOLEAN]
Redemption == [code: Nat, by: Bots, at: Nat, run: Nat]

\* A limiter counts and never asks for an order: its array of times is a set, in
\* which the number of the update or code tells two at the same time apart.
Stamp == [no: Nat, at: 0..MaxTime]

TypeOK ==
    /\ up \in BOOLEAN
    /\ queue \in [Bots -> Seq(Update)]
    /\ offset \in [Bots -> 0..MaxUpdates]
    /\ upTo \in [Bots -> 0..MaxUpdates]
    /\ stage \in [Bots -> {"off", "poll", "download", "handled"}]
    /\ got \in [Bots -> [Ids -> Nat]]
    /\ fate \in [Bots -> [Ids -> Fates]]
    /\ bindings \subseteq Senders \X Bots
    /\ codes \in Seq(Code)
    /\ redeemed \subseteq Redemption
    /\ \A r \in redeemed: r.code \in DOMAIN codes
    /\ msgWindows \in [Senders \X Bots -> SUBSET Stamp]
    /\ pairWindows \in [Senders -> SUBSET Stamp]
    /\ admitted \in [Senders \X Bots -> SUBSET Stamp]
    /\ verdicts \subseteq Senders \X Bots
    /\ config \in Configs /\ loaded \in Configs
    /\ now \in 0..MaxTime /\ stops \in 0..MaxStops

Init ==
    /\ up = FALSE
    /\ queue = [b \in Bots |-> <<>>]
    /\ offset = [b \in Bots |-> 0]
    /\ upTo = [b \in Bots |-> 0]
    /\ stage = [b \in Bots |-> "off"]
    /\ keys = {}
    /\ got = [b \in Bots |-> [i \in Ids |-> 0]]
    /\ fate = [b \in Bots |-> [i \in Ids |-> "new"]]
    /\ bindings = {}
    /\ codes = <<>>
    /\ redeemed = {}
    /\ msgWindows = [w \in Senders \X Bots |-> {}]
    /\ pairWindows = [p \in Senders |-> {}]
    /\ admitted = [w \in Senders \X Bots |-> {}]
    /\ verdicts = {}
    /\ config \in Configs
    /\ loaded = config
    /\ now = 0
    /\ stops = 0
    /\ edits = 0

-----------------------------------------------------------------------------
(* Faults a mutated definition stands for; Next never uses them.           *)

\* A text's key is made of the time it is handled, as a command's is.
TimedKey(b, i, u) == <<"text", u.from, <<b, i, got[b][i]>>>>

\* An update whose handling failed is not passed.
StuckOnError(b) == fate[b][offset[b] + 1] # "failed"

\* A timestamp is kept for one unit too few.
ShortWindow(window, size) == {s \in window: s.at + size > now + 1}

\* The row of a redeemed code stays.
CodeStays(c) == codes

\* Bindings outlive the allowlist they came from.
KeepBindings(c) == bindings

-----------------------------------------------------------------------------
(* RateLimiter.check                                                       *)

\* The timestamps still inside the window.
Recent(window, size) == {s \in window: s.at + size > now}

Allowed(window, limit, size) == Cardinality(Recent(window, size)) < limit

Counted(window, size, no) == Recent(window, size) \cup {[no |-> no, at |-> now]}

-----------------------------------------------------------------------------
(* Rows and bindings.                                                      *)

\* The update the loop is about to handle.
Current(b) == queue[b][offset[b] + 1]

\* The key of the message an update becomes: a text or an edit of it by its
\* message_id, a file by its hash, a command by the time.
KeyOf(b, i, u) ==
    IF u.kind = "command"
    THEN <<"command", u.from, <<b, i, got[b][i]>>>>
    ELSE IF u.kind \in FileKinds THEN <<u.kind, u.from, u.ref>>
    ELSE <<"text", u.from, u.ref>>

IsBound(p, b) == <<p, b>> \in bindings

\* deleteBindingsForSessionExceptSenders for every bot, in allowlist mode.
Reconciled(c) ==
    IF c.mode = "allowlist" THEN {w \in bindings: w[1] \in c.allow} ELSE bindings

\* The update has been handled in this way; the offset is still to be written.
Handled(b, how) ==
    /\ stage' = [stage EXCEPT ![b] = "handled"]
    /\ fate' = [fate EXCEPT ![b][offset[b] + 1] = how]
    /\ UNCHANGED <<up, offset, upTo>>

\* router.ingestInbound: a row, or a duplicate, or an exception of SQLite.
Ingest(b, u) ==
    LET i == offset[b] + 1
        key == KeyOf(b, i, u)
    IN \/ /\ key \notin keys
          /\ keys' = keys \cup {key}
          /\ got' = [got EXCEPT ![b][i] = @ + 1]
          /\ Handled(b, "kept")
       \/ /\ key \in keys
          /\ UNCHANGED <<keys, got>>
          /\ Handled(b, "duplicate")
       \/ /\ UNCHANGED <<keys, got>>
          /\ Handled(b, "failed")


-----------------------------------------------------------------------------
(* The access gate, and what passes it.                                    *)

\* gateInboundAndIngest without initiatePairing: in allowlist mode the list
\* decides, and whoever is on it is bound; in pairing mode a binding decides.
Admitted(b, p) ==
    IF loaded.mode = "allowlist" THEN p \in loaded.allow ELSE IsBound(p, b)

BindingsAfterGate(b, p) ==
    IF loaded.mode = "allowlist" THEN bindings \cup {<<p, b>>} ELSE bindings

\* initiatePairing: a new code for a stranger, unless he asks too often.  In
\* allowlist mode strangers are ignored.
TurnedAway(b, p) ==
    /\ ~Admitted(b, p)
    /\ IF loaded.mode = "pairing" /\ Allowed(pairWindows[p], PairLimit, PairWindow)
       THEN /\ codes' = Append(codes, [of |-> p, at |-> now, live |-> TRUE])
            /\ pairWindows' = [pairWindows EXCEPT ![p] = Counted(@, PairWindow, Len(codes) + 1)]
       ELSE UNCHANGED <<codes, pairWindows>>
    /\ Handled(b, "refused")
    /\ UNCHANGED <<keys, got, bindings, redeemed, msgWindows, admitted, verdicts>>

\* A text, an edit or a command of somebody who may write: counted, then stored.
Message(b, u) ==
    /\ u.kind \in {"text", "edit", "command"}
    /\ Admitted(b, u.from)
    /\ bindings' = BindingsAfterGate(b, u.from)
    /\ LET w == <<u.from, b>>
           i == offset[b] + 1
       IN IF Allowed(msgWindows[w], MsgLimit, MsgWindow)
          THEN /\ msgWindows' = [msgWindows EXCEPT ![w] = Counted(@, MsgWindow, i)]
               /\ admitted' = [admitted EXCEPT ![w] = @ \cup {[no |-> i, at |-> now]}]
               /\ Ingest(b, u)
          ELSE /\ Handled(b, "limited")
               /\ UNCHANGED <<keys, got, msgWindows, admitted>>
    /\ UNCHANGED <<codes, redeemed, pairWindows, verdicts>>

\* handlePhoto and handleDocument gate as messages are gated, without a limit,
\* and await the download.
Download(b, u) ==
    /\ Admitted(b, u.from)
    /\ bindings' = BindingsAfterGate(b, u.from)
    /\ stage' = [stage EXCEPT ![b] = "download"]
    /\ UNCHANGED <<up, offset, upTo, keys, got, fate, codes, redeemed, limitVars,
                   verdicts>>

Photo(b, u) == u.kind = "photo" /\ Download(b, u)

\* A document that Telegram says is above the limit is not downloaded.
Document(b, u) ==
    /\ u.kind = "document"
    /\ \/ Download(b, u)
       \/ /\ Admitted(b, u.from)
          /\ bindings' = BindingsAfterGate(b, u.from)
          /\ Handled(b, "answered")
          /\ UNCHANGED <<keys, got, codes, redeemed, limitVars, verdicts>>

\* cacheInboundBlob: a file that came is stored under its hash, or refused for
\* its size or for what its content is.
Cached == {"stored", "refused"}

\* The download fails, or its bytes are refused, or they become a message.
Downloaded(b) ==
    /\ stage[b] = "download"
    /\ \E outcome \in Cached \cup {"failed"}:
          IF outcome = "stored" THEN Ingest(b, Current(b))
          ELSE Handled(b, "answered") /\ UNCHANGED <<keys, got>>
    /\ UNCHANGED <<queue, accessVars, limitVars, verdicts, config, loaded, now,
                   boundVars>>

\* A press of a permission button counts if its sender is bound and, in
\* allowlist mode, still on the list.
MayDecide(b, p) ==
    /\ IsBound(p, b)
    /\ loaded.mode = "allowlist" => p \in loaded.allow

Callback(b, u) ==
    /\ u.kind = "callback"
    /\ verdicts' = IF MayDecide(b, u.from)
                   THEN verdicts \cup {<<u.from, b>>} ELSE verdicts
    /\ Handled(b, "answered")
    /\ UNCHANGED <<keys, got, accessVars, limitVars>>

Other(b, u) ==
    /\ u.kind = "other"
    /\ Handled(b, "answered")
    /\ UNCHANGED <<keys, got, accessVars, limitVars, verdicts>>

-----------------------------------------------------------------------------
(* The polling loop.                                                       *)

\* getUpdates hands out everything from the stored offset on.
Poll(b) ==
    /\ stage[b] = "poll"
    /\ upTo[b] <= offset[b]
    /\ Len(queue[b]) > offset[b]
    /\ upTo' = [upTo EXCEPT ![b] = Len(queue[b])]
    /\ UNCHANGED <<up, queue, offset, stage, got, fate, keys, accessVars, limitVars,
                   verdicts, config, loaded, now, boundVars>>

\* handleUpdate, up to its first await that matters.
HandleUpdate(b) ==
    /\ stage[b] = "poll"
    /\ offset[b] < upTo[b]
    /\ LET u == Current(b)
       IN \/ u.kind \notin {"callback", "other"} /\ TurnedAway(b, u.from)
          \/ Message(b, u)
          \/ Photo(b, u)
          \/ Document(b, u)
          \/ Callback(b, u)
          \/ Other(b, u)
    /\ UNCHANGED <<queue, config, loaded, now, boundVars>>

\* The offset written after an update, and whether it is written at all.
NextOffset(b) == offset[b] + 1
MayPass(b) == TRUE

\* writeOffset, whether handleUpdate threw or not.
WriteOffset(b) ==
    /\ stage[b] = "handled"
    /\ MayPass(b)
    /\ offset' = [offset EXCEPT ![b] = NextOffset(b)]
    /\ stage' = [stage EXCEPT ![b] = "poll"]
    /\ UNCHANGED <<up, queue, upTo, got, fate, keys, accessVars, limitVars, verdicts,
                   config, loaded, now, boundVars>>

-----------------------------------------------------------------------------
(* `reder pair`, and what the operator and the people do.                  *)

\* The row of a redeemed code is deleted with the look-up, in one transaction.
CodesAfter(c) == [codes EXCEPT ![c].live = FALSE]

\* handleAdminPairRequest for the session of b: whoever has a code that is
\* neither redeemed nor expired binds its sender.
Redeem(b, c) ==
    /\ up
    /\ codes[c].live
    /\ codes[c].at + CodeLife > now
    /\ codes' = CodesAfter(c)
    /\ redeemed' = redeemed \cup {[code |-> c, by |-> b, at |-> now,
                                 run |-> stops]}
    /\ bindings' = bindings \cup {<<codes[c].of, b>>}
    /\ UNCHANGED <<queue, loopVars, keys, limitVars, verdicts, config, loaded,
                   now, boundVars>>

\* Somebody writes to bot b: a text has its position as message_id, an edit
\* that of a text of its sender.
Send(b, u) ==
    /\ Len(queue[b]) < MaxUpdates
    /\ u.kind = "edit" =>
          u.ref \in {i \in DOMAIN queue[b]: /\ queue[b][i].kind = "text"
                                            /\ queue[b][i].from = u.from}
    /\ queue' = [queue EXCEPT ![b] = Append(@, u)]
    /\ UNCHANGED <<loopVars, keys, accessVars, limitVars, verdicts, config,
                   loaded, now, boundVars>>

\* The updates that can come next to bot b.
Updates(b) ==
    LET next == Len(queue[b]) + 1
        from(kinds, refs) == [kind: kinds \cap Kinds, from: Senders, ref: refs]
    IN from({"text", "command", "callback", "other"}, {next})
       \cup from({"edit"}, 1..Len(queue[b])) \cup from(FileKinds, Blobs)

Edit(c) ==
    /\ edits < MaxEdits
    /\ edits' = edits + 1
    /\ config' = c
    /\ UNCHANGED <<queue, loopVars, keys, accessVars, limitVars, verdicts,
                   loaded, now, stops>>

Tick ==
    /\ now < MaxTime
    /\ now' = now + 1
    /\ UNCHANGED <<queue, loopVars, keys, accessVars, limitVars, verdicts,
                   config, loaded, boundVars>>

\* The bots that a start leaves polling: one without a token is skipped, and
\* the first whose transport.init throws ends the loop.  Those before it poll,
\* those after it do not, and startAll logs the error and goes on.
Polled == SUBSET Bots

\* TelegramAdapter.start: the bindings are reconciled with the list, the
\* limiters are new, and the bots that come up poll.
Start ==
    /\ ~up
    /\ up' = TRUE
    /\ loaded' = config
    /\ bindings' = Reconciled(config)
    /\ msgWindows' = [w \in Senders \X Bots |-> {}]
    /\ pairWindows' = [p \in Senders |-> {}]
    /\ admitted' = [w \in Senders \X Bots |-> {}]
    /\ verdicts' = {}
    /\ \E polled \in Polled:
          stage' = [b \in Bots |-> IF b \in polled THEN "poll" ELSE "off"]
    /\ upTo' = [b \in Bots |-> 0]
    /\ UNCHANGED <<queue, offset, got, fate, keys, codes, redeemed, config, now,
                   boundVars>>

\* rederd stops or crashes, at any await of any loop.
Stop ==
    /\ up
    /\ up' = FALSE
    /\ stops < MaxStops
    /\ stops' = stops + 1
    /\ stage' = [b \in Bots |-> "off"]
    /\ UNCHANGED <<queue, offset, upTo, got, fate, keys, accessVars, limitVars,
                   verdicts, config, loaded, now, edits>>

Loop(b) == Poll(b) \/ HandleUpdate(b) \/ Downloaded(b) \/ WriteOffset(b)

Next ==
    \/ \E b \in Bots: Loop(b)
    \/ \E b \in Bots, c \in DOMAIN codes: Redeem(b, c)
    \/ \E b \in Bots: \E u \in Updates(b): Send(b, u)
    \/ \E c \in Configs: Edit(c)
    \/ Tick \/ Start \/ Stop

Fairness ==
    /\ \A b \in Bots: WF_vars(Loop(b))
    /\ WF_vars(Start)

Spec == Init /\ [][Next]_vars /\ Fairness

-----------------------------------------------------------------------------
(* Properties                                                              *)

\* An update that is redelivered because rederd stopped before it wrote the
\* offset does not become a second message (a command may: its key is new each
\* time).  The offset passes nothing the loop has not dealt with, and what it
\* stored is in inbound_messages before (index.ts:410, "Advance offset AFTER
\* router ingest").
StoredOnceBeforeOffset ==
    \A b \in Bots: \A i \in DOMAIN queue[b]:
        /\ queue[b][i].kind # "command" => got[b][i] <= 1
        /\ i <= offset[b] => fate[b][i] # "new"
        /\ fate[b][i] = "kept" => got[b][i] > 0

\* Between two starts messageRateLimiter lets no more than MsgLimit texts and
\* commands of a sender through to a session in any window of time, whatever
\* the window's beginning.  Photos and documents never ask it.
RateHeld ==
    \A w \in Senders \X Bots, t \in 0..MaxTime:
        Cardinality({s \in admitted[w]: t <= s.at /\ s.at < t + MsgWindow}) <= MsgLimit

\* A code binds its sender once and before it expires, and every binding has a
\* redemption of a code of that very sender behind it, or comes from a list the
\* operator wrote.
BindingsAreProven ==
    /\ \A r \in redeemed: r.at < codes[r.code].at + CodeLife
    /\ \A r, q \in redeemed: r.code = q.code => r = q
    /\ \A w \in bindings:
          \/ \E r \in redeemed: r.by = w[2] /\ codes[r.code].of = w[1]
          \/ \E c \in Configs: c.mode = "allowlist" /\ w[1] \in c.allow

\* After a start in allowlist mode nobody who is not on the list decides a
\* permission request, and nobody is bound (and so gets prompts and replies)
\* but by a code redeemed since (index.ts:86, "must not survive").
ListIsObeyed ==
    up /\ loaded.mode = "allowlist" =>
        /\ \A v \in verdicts: v[1] \in loaded.allow
        /\ \A w \in bindings: w[1] \notin loaded.allow =>
              \E r \in redeemed: /\ r.by = w[2] /\ codes[r.code].of = w[1]
                                 /\ r.run = stops

\* Every update is passed in the end, also one whose handling always fails,
\* unless its bot ends up not polled: rederd is down, or its start failed for
\* this bot or one before it.
EveryUpdatePasses ==
    \A b \in Bots, i \in Ids:
        (Len(queue[b]) >= i ~> offset[b] >= i) \/ <>[](stage[b] = "off")

\* A paired sender's text is dropped as a duplicate only of itself.
DuplicateOfItself ==
    \A b \in Bots: \A i \in DOMAIN queue[b]:
        queue[b][i].kind = "text" /\ fate[b][i] = "duplicate" => got[b][i] > 0

\* reder-prd.md, on adapters: one that fails to start is "retried with backoff",
\* so a bot that is not polled comes to be, while rederd runs.
StartIsRetried ==
    \A b \in Bots: up /\ stage[b] = "off" ~> ~up \/ stage[b] # "off"
=============================================================================
