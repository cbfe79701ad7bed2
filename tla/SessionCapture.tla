---------------------------- MODULE SessionCapture ----------------------------
(***************************************************************************)
(* What rederd learns of a claude at its terminal: the hooks that claude   *)
(* runs and the transcript it writes.  packages/shim/src/hook-cli.ts,      *)
(* core/src/transcript-tail.ts, transcript-parser.ts, activity.ts, the     *)
(* hook handlers of core/src/router.ts and the end of storage/outbox.ts.   *)
(*                                                                         *)
(* Every hook is a process with a connection of its own, and rederd        *)
(* verifies its token before it looks at the event, so hooks are applied   *)
(* in any order.  A clear waits for adapters to take prompts back before   *)
(* it purges.  The prompt cache, the activity and the waiting clears are   *)
(* in memory; rows and the transcript's offset are in the database.        *)
(*                                                                         *)
(* One session.  Entries of a transcript have one length, the prompt n and *)
(* the reply to it are named n, and every reply has text.  Entries without *)
(* text, tool results and summaries are read and store no message: they    *)
(* are left out, and so are unread counts and pending permissions.         *)
(***************************************************************************)
EXTENDS Naturals, FiniteSets, SequencesExt

CONSTANTS
    Files,       \* transcript files
    Texts,       \* what a prompt may say
    None,        \* nothing
    MaxPrompts,  \* bound: prompts submitted
    MaxStarts,   \* bound: SessionStart hooks
    MaxMishaps   \* bound: crashes, hooks lost or cut, turns interrupted

ASSUME SessionCaptureAssumption ==
    /\ None \notin Files \cup 1..MaxPrompts \cup [file : Files, at : Nat]
    /\ None \notin {"startup", "clear", "resume", "compact"}
    /\ MaxPrompts \in Nat /\ MaxStarts \in Nat /\ MaxMishaps \in Nat

VARIABLES
    transcript, \* the entries in each file
    torn,       \* is the last entry of claude's file still being written?
    claude,     \* whether it runs, on what file, and whether it works
    prompts,    \* the prompts submitted so far
    hooks,      \* events on their way to rederd, oldest first
    starts, mishaps,
    offset,     \* the row of transcript_offsets: its path and offset, or None
    inbound,    \* rows of local prompts: their key and the prompt
    outbound,   \* rows of local replies
    eager,      \* the cached prompt, the last one its hook captured, or None
    clears,     \* clears that wait
    shim,       \* is the session's shim connected?
    activity,   \* hasSeenHook and seenStopSinceLastPrompt
    dropped,    \* prompts whose place in the cache was taken or lost, or that came there too
                \* late, since the last purge
    skipped,    \* replies that captureTranscript passed without a row since then
    steady,     \* was one transcript read since then, without a crash midway?
    overtaken   \* has a hook been applied before an older one?

world == <<transcript, torn, claude, prompts>>
hookVars == <<hooks, starts>>
memory == <<eager, clears, shim, activity>>
database == <<offset, inbound, outbound>>
history == <<dropped, skipped, steady, overtaken>>
vars == <<world, hookVars, mishaps, memory, database, history>>

Ids == 1..MaxPrompts
Keys == {"ups", "uuid"} \X Ids
Entries == {"user", "assistant"} \X Ids

Prompts == [text : Texts, relayed : BOOLEAN]
Hooks == [name : {"SessionStart", "UserPromptSubmit", "Stop"},
          source : {"startup", "clear", "resume", "compact", None},
          prompt : Ids \cup {None}, file : Files]

TypeOK ==
    /\ transcript \in [Files -> Seq(Entries)] /\ torn \in BOOLEAN
    /\ claude \in [on : BOOLEAN, file : Files, busy : BOOLEAN]
    /\ prompts \in Seq(Prompts) /\ Len(prompts) <= MaxPrompts
    /\ hooks \in Seq(Hooks) /\ starts \in 0..MaxStarts /\ mishaps \in 0..MaxMishaps
    /\ offset \in [file : Files, at : Nat] \cup {None}
    /\ inbound \subseteq Keys /\ outbound \subseteq Ids
    /\ eager \in Ids \cup {None}
    /\ clears \in Nat
    /\ shim \in BOOLEAN
    /\ activity \in [seen : BOOLEAN, stop : BOOLEAN]
    /\ dropped \subseteq Ids /\ skipped \subseteq Ids /\ steady \in BOOLEAN /\ overtaken \in BOOLEAN

Init ==
    /\ transcript = [f \in Files |-> <<>>] /\ torn = FALSE
    /\ claude \in [on : {FALSE}, file : Files, busy : {FALSE}]
    /\ prompts = <<>>
    /\ hooks = <<>> /\ starts = 0 /\ mishaps = 0
    /\ offset = None /\ inbound = {} /\ outbound = {}
    /\ eager = None /\ clears = 0 /\ shim = FALSE
    /\ activity = [seen |-> FALSE, stop |-> FALSE]
    /\ dropped = {} /\ skipped = {} /\ steady = TRUE /\ overtaken = FALSE

-----------------------------------------------------------------------------
(* Faults a mutated definition stands for; Next never uses them.           *)

\* The offset is put behind what was read, be it half an entry.
PastTorn(f) == Len(transcript[f])

\* A prompt found in the cache stays there.
StaysCached(ns) == eager

\* A prompt that its hook captured is inserted again.
NeverCached(ns) == {}

\* SessionStart is no sign that claude waits.
StartIsNoStop(name) == [seen |-> TRUE, stop |-> name = "Stop" \/ activity.stop]

-----------------------------------------------------------------------------
(* The activity                                                            *)

\* onHookEvent.
AfterHook(name) == [seen |-> TRUE, stop |-> name # "UserPromptSubmit"]

\* derive, where awaiting-user is idle too.
Shown ==
    CASE ~shim -> "offline"
      [] shim /\ ~activity.seen -> "unknown"
      [] shim /\ activity.seen /\ ~activity.stop -> "working"
      [] OTHER -> "idle"

-----------------------------------------------------------------------------
(* claude                                                                  *)

Fire(name, source, prompt, file) ==
    hooks' = Append(hooks, [name |-> name, source |-> source, prompt |-> prompt, file |-> file])

\* A SessionStart of claude with this file.
Starts(source, file) ==
    /\ starts < MaxStarts
    /\ starts' = starts + 1
    /\ claude' = [on |-> TRUE, file |-> file, busy |-> FALSE]
    /\ Fire("SessionStart", source, None, file)
    /\ UNCHANGED <<transcript, torn, prompts, mishaps, memory, database, history>>

\* claude comes up, with a new transcript or to go on with an old one.
Startup(f) == ~claude.on /\ transcript[f] = <<>> /\ Starts("startup", f)
Resume(f) == ~claude.busy /\ ~torn /\ transcript[f] # <<>> /\ Starts("resume", f)
Clear(f) == claude.on /\ ~claude.busy /\ ~torn /\ transcript[f] = <<>> /\ Starts("clear", f)

\* Between turns, when the user asks for it.
Compact == claude.on /\ ~claude.busy /\ ~torn /\ Starts("compact", claude.file)

\* reder-hook reads the prompt from stdin: nothing of it if it is too long or
\* comes too late.  A relayed prompt carries the channel's marker.
Submit(p, whole) ==
    /\ claude.on /\ ~claude.busy /\ ~torn /\ Len(prompts) < MaxPrompts
    /\ whole \/ mishaps < MaxMishaps
    /\ mishaps' = IF whole THEN mishaps ELSE mishaps + 1
    /\ LET n == Len(prompts) + 1
           f == claude.file IN
       /\ prompts' = Append(prompts, p)
       /\ transcript' = [transcript EXCEPT ![f] = Append(@, <<"user", n>>)]
       /\ Fire("UserPromptSubmit", None, IF whole THEN n ELSE None, f)
    /\ claude' = [claude EXCEPT !.busy = TRUE]
    /\ UNCHANGED <<torn, starts, memory, database, history>>

\* The turn ends: its reply is written, all of it or not yet, and Stop runs.
Reply ==
    /\ claude.busy
    /\ LET f == claude.file IN
       /\ transcript' = [transcript EXCEPT ![f] = Append(@, <<"assistant", Len(prompts)>>)]
       /\ Fire("Stop", None, None, f)
    /\ torn' \in BOOLEAN
    /\ claude' = [claude EXCEPT !.busy = FALSE]
    /\ UNCHANGED <<prompts, starts, mishaps, memory, database, history>>

FinishEntry ==
    /\ torn
    /\ torn' = FALSE
    /\ UNCHANGED <<transcript, claude, prompts, hookVars, mishaps, memory, database, history>>

\* The user interrupts the turn: no hook runs.
Interrupt ==
    /\ claude.busy /\ mishaps < MaxMishaps
    /\ mishaps' = mishaps + 1
    /\ claude' = [claude EXCEPT !.busy = FALSE]
    /\ UNCHANGED <<transcript, torn, prompts, hookVars, memory, database, history>>

Exit ==
    /\ claude.on /\ ~claude.busy /\ ~torn
    /\ claude' = [claude EXCEPT !.on = FALSE]
    /\ UNCHANGED <<transcript, torn, prompts, hookVars, mishaps, memory, database, history>>

-----------------------------------------------------------------------------
(* Reading the transcript                                                  *)

\* The lines that end in a newline.
Complete(f) == Len(transcript[f]) - IF torn /\ f = claude.file THEN 1 ELSE 0

\* The offset is looked up by session; one beyond the file's end is void.
From(f) == IF offset = None \/ offset.at > Complete(f) THEN 0 ELSE offset.at

\* classifyTranscriptLine.
IsLocal(e) == e[1] = "assistant" \/ ~prompts[e[2]].relayed

\* The offset once the complete lines are read.
NewOffset(f) == Complete(f)

\* The local entries of a kind behind the offset, up to entry number last.
Unread(f, kind, last) ==
    {n \in DOMAIN prompts : \E i \in (From(f) + 1)..last :
       transcript[f][i] = <<kind, n>> /\ IsLocal(<<kind, n>>)}

\* captureTranscript works entry by entry: the first of these prompts that says what
\* the cached one does ...
Cached(ns) ==
    LET same == {n \in ns : eager # None /\ prompts[n].text = prompts[eager].text} IN
    {n \in same : \A m \in same : n <= m}

\* ... empties the cache, which is used once.
Left(ns) == IF Cached(ns) = {} THEN eager ELSE None

\* insertLocalInbound: a key is inserted once.
InsertPrompts(kind, ns) == inbound \cup {kind} \X ns

\* insertLocalOutbound; a row that is new is fanned out to the adapters as well.
InsertReplies(ns) == outbound \cup ns

\* What is inserted when the entries up to number last are worked off.
Capture(f, last) ==
    LET ns == Unread(f, "user", last) IN
    /\ inbound' = InsertPrompts("uuid", ns \ Cached(ns))
    /\ outbound' = InsertReplies(Unread(f, "assistant", last))

-----------------------------------------------------------------------------
(* rederd                                                                  *)

\* The frame's token is verified and the hook event emitted.
Take(i) ==
    /\ hooks' = RemoveAt(hooks, i)
    /\ overtaken' = (overtaken \/ i > 1)
    /\ UNCHANGED <<world, starts, mishaps, shim>>

\* clearSession waits for cancelForSession.
BeginClear(i) ==
    /\ hooks[i].source \in {"startup", "clear"}
    /\ Take(i)
    /\ clears' = clears + 1
    /\ UNCHANGED <<eager, activity, database, dropped, skipped, steady>>

Forgotten == None

\* purgeSessionData, and the rest of clearSession.
FinishClear ==
    /\ clears > 0
    /\ clears' = clears - 1
    /\ offset' = None /\ inbound' = {} /\ outbound' = {}
    /\ eager' = Forgotten
    /\ activity' = AfterHook("SessionStart")
    /\ dropped' = {} /\ skipped' = {} /\ steady' = TRUE
    /\ UNCHANGED <<world, hookVars, mishaps, shim, overtaken>>

Resumed(i) ==
    /\ hooks[i].source \in {"resume", "compact"}
    /\ Take(i)
    /\ activity' = AfterHook("SessionStart")
    /\ UNCHANGED <<eager, clears, database, dropped, skipped, steady>>

\* captureUserPrompt, unless the prompt is empty or relayed.
CapturePrompt(i) ==
    /\ hooks[i].name = "UserPromptSubmit"
    /\ Take(i)
    /\ activity' = AfterHook("UserPromptSubmit")
    /\ LET n == hooks[i].prompt IN
       IF IF n = None THEN TRUE ELSE prompts[n].relayed
       THEN UNCHANGED <<inbound, eager, dropped>>
       ELSE /\ inbound' = InsertPrompts("ups", {n})
            /\ eager' = n
            /\ dropped' = dropped \cup ({eager} \ {None})
                            \cup {m \in {n} : <<"uuid", m>> \in inbound}
    /\ UNCHANGED <<clears, offset, outbound, skipped, steady>>

\* Replies without a row that lie before the offset of another file.
Foreign(f) ==
    IF offset = None \/ offset.file = f THEN {}
    ELSE {n \in DOMAIN prompts : \E i \in 1..From(f) : transcript[f][i] = <<"assistant", n>>}
           \ outbound

\* consumeTranscript stores the offset; the rows are inserted after it.
Consume(f) ==
    /\ offset' = IF Complete(f) > From(f) \/ From(f) = Len(transcript[f])
                 THEN [file |-> f, at |-> NewOffset(f)] ELSE offset
    /\ steady' = (steady /\ (offset = None \/ offset.file = f))

CaptureTranscript(i) ==
    /\ hooks[i].name = "Stop"
    /\ Take(i)
    /\ activity' = AfterHook("Stop")
    /\ Consume(hooks[i].file)
    /\ LET f == hooks[i].file IN
       /\ Capture(f, Complete(f))
       /\ skipped' = skipped \cup Foreign(f)
       /\ eager' = Left(Unread(f, "user", Complete(f)))
    /\ UNCHANGED <<clears, dropped>>

ShimConnected ==
    /\ claude.on /\ ~shim
    /\ shim' = TRUE
    /\ UNCHANGED <<world, hookVars, mishaps, eager, clears, activity, database, history>>

ShimDisconnected ==
    /\ shim /\ ~claude.on
    /\ shim' = FALSE
    /\ activity' = [seen |-> FALSE, stop |-> FALSE]
    /\ UNCHANGED <<world, hookVars, mishaps, eager, clears, database, history>>

-----------------------------------------------------------------------------
(* Mishaps                                                                 *)

\* reder-hook finds no daemon, or its connection breaks.
LoseHook(i) ==
    /\ mishaps < MaxMishaps
    /\ mishaps' = mishaps + 1
    /\ hooks' = RemoveAt(hooks, i)
    /\ UNCHANGED <<world, starts, memory, database, history>>

\* What a crash of rederd leaves: nothing that was in memory.
Restarted ==
    /\ mishaps < MaxMishaps
    /\ mishaps' = mishaps + 1
    /\ hooks' = <<>>
    /\ clears' = 0 /\ shim' = FALSE /\ eager' = None
    /\ activity' = [seen |-> FALSE, stop |-> FALSE]
    /\ dropped' = dropped \cup ({eager} \ {None})
    /\ UNCHANGED <<world, starts, overtaken>>

Crash == Restarted /\ UNCHANGED <<database, skipped, steady>>

\* rederd dies when the offset is stored, and an entry that is to be is not.
CrashMidway(i) ==
    /\ hooks[i].name = "Stop"
    /\ Restarted
    /\ LET f == hooks[i].file IN
       /\ \E last \in (From(f) + 1)..Complete(f) :
            IsLocal(transcript[f][last]) /\ Capture(f, last - 1)
       /\ offset' = [file |-> f, at |-> NewOffset(f)]
       /\ skipped' = skipped \cup Foreign(f) \cup (Unread(f, "assistant", Complete(f)) \ outbound')
    /\ steady' = FALSE

-----------------------------------------------------------------------------
Claude ==
    \/ \E f \in Files : Startup(f) \/ Resume(f) \/ Clear(f)
    \/ Compact \/ Reply \/ FinishEntry \/ Interrupt \/ Exit
    \/ \E p \in Prompts, whole \in BOOLEAN : Submit(p, whole)

Daemon ==
    \/ \E i \in DOMAIN hooks : BeginClear(i) \/ Resumed(i) \/ CapturePrompt(i) \/ CaptureTranscript(i)
    \/ FinishClear \/ ShimConnected \/ ShimDisconnected

Mishap == Crash \/ \E i \in DOMAIN hooks : LoseHook(i) \/ CrashMidway(i)

Next == Claude \/ Daemon \/ Mishap
Spec == Init /\ [][Next]_vars

-----------------------------------------------------------------------------
(* Safety                                                                  *)

\* The rows that show a prompt with this text, and the prompts that say it.
Rows(keys, t) == {k \in keys : prompts[k[2]].text = t}
Saying(ids, t) == {n \in ids : prompts[n].text = t}

\* Local prompts are shown once each, whether the hook or the transcript brought
\* them: no text has more rows than prompts that say it, but for those
\* that took the place of another in the cache, lost theirs in a crash, or were
\* read before their hook was handled; as long as hooks arrive in order and one
\* transcript is read.
PromptsAreShownOnce ==
    steady /\ ~overtaken =>
      \A t \in Texts : Cardinality(Rows(inbound, t)) <=
                         Cardinality(Saying(DOMAIN prompts, t)) + Cardinality(Saying(dropped, t))

\* The dashboard shows a session as working only while it is: hooks that came
\* in order and none of which was lost leave no session busy for ever.
WorkingIsWorking ==
    Shown = "working" /\ hooks = <<>> /\ mishaps = 0 /\ ~overtaken => claude.busy

-----------------------------------------------------------------------------
(* Action properties                                                       *)

LocalIn(f, kind) ==
    {n \in DOMAIN prompts : \E i \in 1..Complete(f) :
       transcript[f][i] = <<kind, n>> /\ IsLocal(<<kind, n>>)}

\* A Stop that is handled leaves every reply of its transcript stored that was
\* written in full, however many Stops were lost, overtaken or came before an
\* entry was complete, through crashes and changes of transcript; but for the replies
\* whose insertion a crash cut short after the offset was stored, and for those
\* that lie before an offset counted in another file (EveryReplyIsCaptured).
OnlySkippedAreMissing ==
    [][\A i \in DOMAIN hooks :
         CaptureTranscript(i) =>
           \A n \in LocalIn(hooks[i].file, "assistant") : n \in outbound' \cup skipped']_vars

\* It leaves as many prompts shown as the transcript has with the same text: none is
\* taken for another that the hook has captured; as long as one transcript is
\* read between clears, without a crash midway.
PromptsAreCaptured ==
    [][\A i \in DOMAIN hooks :
         CaptureTranscript(i) /\ steady' =>
           \A t \in Texts :
             Cardinality(Saying(LocalIn(hooks[i].file, "user"), t)) <= Cardinality(Rows(inbound', t))]_vars

-----------------------------------------------------------------------------
(* What the documents say and the code does not do                         *)

\* design/session-activity-status.md: UserPromptSubmit makes a session working
\* until Stop.  So once every hook has been handled, in order, a session shown
\* as idle has no prompt in the works.
IdleIsIdle ==
    Shown = "idle" /\ hooks = <<>> /\ clears = 0 /\ mishaps = 0 /\ ~overtaken => ~claude.busy

\* docs/quickstart.md:90: the transcript on the dashboard has claude's replies.  So
\* a Stop that is handled leaves none of its file without a row.
EveryReplyIsCaptured ==
    [][\A i \in DOMAIN hooks :
         CaptureTranscript(i) =>
           \A n \in LocalIn(hooks[i].file, "assistant") : n \in outbound']_vars
=============================================================================
