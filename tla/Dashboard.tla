------------------------------ MODULE Dashboard ------------------------------
(***************************************************************************)
(* The web dashboard: adapter-web's HTTP routes and event streams, and one *)
(* browser tab that shows the panel of a session beside the session list.  *)
(* packages/adapter-web/src: index.ts, sse.ts, routes/, transcript.ts;     *)
(* web/src: components/Panel.tsx, hooks/useSessionsState.ts, sse.ts.       *)
(*                                                                         *)
(* The panel learns of a change from its event stream and then fetches the *)
(* transcript over connections of their own.  So an event may be lost with *)
(* the stream, and answers may come in any order and to a panel that shows *)
(* another session by then.  The router and the relay are here what they   *)
(* tell the adapter: rows, requests, verdicts and clears.                  *)
(*                                                                         *)
(* A turn of the daemon's event loop is a step, together with the promise  *)
(* jobs it leaves: storage.get and storage.set are synchronous inside.     *)
(***************************************************************************)
EXTENDS Naturals, FiniteSets, Sequences, SequencesExt

CONSTANTS
    Sessions,
    Requests,   \* permission requests, each made once at most
    None,       \* no session; no answer yet; no clear in progress
    MaxRows,    \* bound: rows ever stored
    MaxSelects, \* bound: times a panel is opened
    MaxAsked,   \* bound: fetches of the panel in flight
    MaxPipe,    \* bound: events on their way to the panel
    MaxMishaps  \* bound: streams lost, fetches failed, restarts

ASSUME DashboardAssumption ==
    /\ None \notin Sessions \cup Requests
    /\ MaxRows \in Nat /\ MaxSelects \in Nat
    /\ MaxAsked \in Nat \ {0} /\ MaxPipe \in Nat /\ MaxMishaps \in Nat

VARIABLES
    (* the daemon *)
    rows,     \* the rows of each session in the database
    stored,   \* rows stored so far, which names the next one
    unread,   \* unread:<session> of the adapter's storage
    told,     \* the count the router's activity tracker was told
    open,     \* requests the relay waits for
    of,       \* the session of a request, or None
    prompts,  \* requests whose prompt the relay has still to hand over
    cancels,  \* ended requests whose cancel it has still to hand over
    clearing, \* None, or the cancels a session's clear waits for
    (* the tab *)
    sel,      \* the session of the panel, or None
    stream,   \* "closed", "opening" or "up": the panel's EventSource
    pipe,     \* events written to it and not handled yet
    shown,    \* messages
    cards,    \* permissions
    busy,     \* decisionBusyIds: decided, the answer is under way
    asked,    \* the panel's fetches in flight, in the order they were made
    (* history *)
    fresh,    \* rows of other adapters since the transcript was last fetched
    behind,   \* the panel has missed an event or shows an outdated answer
    missed,   \* requests whose 'requested' never reached the panel
    ghosts,   \* cards whose removal is over or never reached the panel
    selects, mishaps

server == <<rows, stored, unread, told, open, of, prompts, cancels, clearing, fresh>>
tab == <<sel, stream, pipe, shown, cards, busy, asked>>
history == <<behind, missed, ghosts, selects, mishaps>>
vars == <<server, tab, history>>

Event ==
    [kind: {"message", "cleared"}, request: {None}]
      \cup [kind: {"requested", "removed"}, request: Requests]
Fetch == [session: Sessions, data: {None} \cup {<<d>> : d \in SUBSET (1..MaxRows)}, old: BOOLEAN]

TypeOK ==
    /\ rows \in [Sessions -> SUBSET (1..stored)] /\ stored \in 0..MaxRows
    /\ unread \in [Sessions -> 0..MaxRows] /\ told \in [Sessions -> 0..MaxRows]
    /\ fresh \in [Sessions -> 0..MaxRows]
    /\ open \in SUBSET Requests /\ of \in [Requests -> Sessions \cup {None}]
    /\ prompts \in SUBSET Requests /\ cancels \in SUBSET Requests
    /\ clearing \in [Sessions -> {None} \cup {<<w>> : w \in SUBSET Requests}]
    /\ sel \in Sessions \cup {None} /\ stream \in {"closed", "opening", "up"}
    /\ pipe \in Seq(Event) /\ asked \in Seq(Fetch) /\ Len(asked) <= MaxAsked
    /\ shown \in SUBSET (1..MaxRows)
    /\ cards \in SUBSET Requests /\ busy \in SUBSET Requests
    /\ behind \in BOOLEAN /\ missed \in SUBSET Requests /\ ghosts \in SUBSET Requests
    /\ selects \in 0..MaxSelects /\ mishaps \in 0..MaxMishaps

Init ==
    /\ rows = [s \in Sessions |-> {}] /\ stored = 0
    /\ unread = [s \in Sessions |-> 0] /\ told = unread /\ fresh = unread
    /\ open = {} /\ of = [r \in Requests |-> None]
    /\ prompts = {} /\ cancels = {} /\ clearing = [s \in Sessions |-> None]
    /\ sel = None /\ stream = "closed" /\ pipe = <<>> /\ asked = <<>>
    /\ shown = {} /\ cards = {} /\ busy = {}
    /\ behind = FALSE /\ missed = {} /\ ghosts = {}
    /\ selects = 0 /\ mishaps = 0

-----------------------------------------------------------------------------
(* Faults a mutated definition stands for; Next never uses them.           *)

\* onCleared leaves the count.
LeavesCount(s) == unread[s]

\* A message event only refreshes a panel that shows nothing yet.
RefreshesOnce(e) == e.kind = "message" /\ shown = {}

\* Cards are added and never taken away.
NeverDrops(e) == IF e.kind = "requested" THEN cards \cup {e.request} ELSE cards

-----------------------------------------------------------------------------
(* Event streams                                                           *)

Ev(kind, r) == [kind |-> kind, request |-> r]
Message == Ev("message", None)

\* publish(): whoever is subscribed to the session, in the order of the calls.
Heard(s) == sel = s /\ stream = "up"
Published(s, events) == IF Heard(s) THEN pipe \o events ELSE pipe

\* broadcast(): every subscriber, whatever its session.
Broadcast(events) == IF stream = "up" THEN pipe \o events ELSE pipe

\* (History.)  Answers given by now are outdated; an event of the panel's session
\* passes it by.
Outdated == [i \in DOMAIN asked |-> [asked[i] EXCEPT !.old = @ \/ asked[i].data # None]]
PassesBy(s) == sel = s /\ stream # "up"

-----------------------------------------------------------------------------
(* Rows, and the unread count                                              *)

\* incrementUnread for each of n rows persisted in one turn: each reads the count
\* before the first has written it.
Counted(s, elsewhere) == IF elsewhere THEN unread[s] + 1 ELSE unread[s]

\* n rows are persisted in one turn: several when captureTranscript catches up.
\* Each is announced; a reply to a user of the dashboard once more, by sendOutbound.
\* The tracker is told of a count that was raised.
Persist(s, n, elsewhere, events) ==
    /\ stored + n <= MaxRows
    /\ stored' = stored + n
    /\ rows' = [rows EXCEPT ![s] = @ \cup (stored + 1)..(stored + n)]
    /\ unread' = [unread EXCEPT ![s] = Counted(s, elsewhere)]
    /\ told' = IF elsewhere THEN [told EXCEPT ![s] = Counted(s, elsewhere)] ELSE told
    /\ fresh' = IF elsewhere THEN [fresh EXCEPT ![s] = @ + n] ELSE fresh
    /\ pipe' = Published(s, [i \in 1..events |-> Message])
    /\ asked' = IF PassesBy(s) THEN Outdated ELSE asked
    /\ behind' = (behind \/ PassesBy(s))
    /\ UNCHANGED <<open, of, prompts, cancels, clearing, sel, stream, shown, cards, busy,
                   missed, ghosts, selects, mishaps>>

\* Of another adapter, or prompts typed at the terminal.
Inbound(s) == \E n \in 1..2 : Persist(s, n, TRUE, n)

\* POST /sessions/:id/messages.
OwnInbound(s) == Persist(s, 1, FALSE, 1)

Outbound(s) == \E events \in 1..2 : Persist(s, 1, FALSE, events)

\* GET /sessions/:id/messages clears the count, whoever asks.
Read(s) ==
    /\ unread' = [unread EXCEPT ![s] = 0]
    /\ told' = [told EXCEPT ![s] = 0]
    /\ fresh' = [fresh EXCEPT ![s] = 0]

-----------------------------------------------------------------------------
(* Permission requests                                                     *)

\* onPermReq: the request is open before the adapters are asked one by one.
Request(r, s) ==
    /\ of[r] = None
    /\ of' = [of EXCEPT ![r] = s]
    /\ open' = open \cup {r}
    /\ prompts' = prompts \cup {r}
    /\ pipe' = Published(s, <<Ev("requested", r)>>)
    /\ missed' = IF Heard(s) THEN missed ELSE missed \cup {r}
    /\ UNCHANGED <<rows, stored, unread, told, cancels, clearing, fresh, sel, stream, shown,
                   cards, busy, asked, behind, ghosts, selects, mishaps>>

\* A persistent approval answers at once: no adapter is asked.
RequestApproved(r, s) ==
    /\ of[r] = None
    /\ of' = [of EXCEPT ![r] = s]
    /\ pipe' = Published(s, <<Ev("requested", r), Ev("removed", r)>>)
    /\ UNCHANGED <<rows, stored, unread, told, open, prompts, cancels, clearing, fresh, sel,
                   stream, shown, cards, busy, asked, history>>

\* sendPermissionPrompt, when the adapters before this one are done.
Prompt(r) ==
    /\ r \in prompts
    /\ prompts' = prompts \ {r}
    /\ pipe' = Published(of[r], <<Ev("requested", r)>>)
    /\ missed' = IF Heard(of[r]) THEN missed \ {r} ELSE missed
    /\ ghosts' = IF r \in open \cup cancels THEN ghosts ELSE ghosts \cup {r}
    /\ UNCHANGED <<rows, stored, unread, told, open, of, cancels, clearing, fresh, sel, stream,
                   shown, cards, busy, asked, behind, selects, mishaps>>

\* onPermRes: a verdict or the timer ends an open request.
End(r) ==
    IF r \in open
    THEN /\ open' = open \ {r}
         /\ cancels' = cancels \cup {r}
         /\ pipe' = Published(of[r], <<Ev("removed", r)>>)
    ELSE UNCHANGED <<open, cancels, pipe>>

\* The user of another adapter answers, or the request expires.
Resolve(r) ==
    /\ r \in open
    /\ End(r)
    /\ UNCHANGED <<rows, stored, unread, told, of, prompts, clearing, fresh, sel, stream, shown,
                   cards, busy, asked, history>>

\* cancelPermissionPrompt, when the adapters before this one are done.
Cancel(r) ==
    /\ r \in cancels
    /\ cancels' = cancels \ {r}
    /\ clearing' = [s \in Sessions |->
                      IF clearing[s] = None THEN None ELSE <<clearing[s][1] \ {r}>>]
    /\ pipe' = Broadcast(<<Ev("removed", r)>>)
    /\ ghosts' = IF stream = "up" THEN ghosts ELSE ghosts \cup {r}
    /\ UNCHANGED <<rows, stored, unread, told, open, of, prompts, fresh, sel, stream, shown,
                   cards, busy, asked, behind, missed, selects, mishaps>>

-----------------------------------------------------------------------------
(* A conversation is cleared                                               *)

\* onCleared forgets the count.
AfterClear(s) == 0

\* The rows are purged and the clear is announced.  A request that is still open
\* came while the clear waited: it stays open, and its card goes with the others.
Purge(s) ==
    /\ rows' = [rows EXCEPT ![s] = {}]
    /\ unread' = [unread EXCEPT ![s] = AfterClear(s)]
    /\ told' = [told EXCEPT ![s] = 0]
    /\ fresh' = [fresh EXCEPT ![s] = 0]
    /\ pipe' = Published(s, <<Ev("cleared", None)>>)
    /\ asked' = IF sel = s THEN Outdated ELSE asked
    /\ behind' = (behind \/ PassesBy(s))
    /\ missed' = missed \cup {r \in open : of[r] = s}
    /\ UNCHANGED <<stored, open, of, prompts, cancels, sel, stream, shown, cards, busy, ghosts,
                   selects, mishaps>>

OpenOf(s) == {r \in open : of[r] = s}

\* clearSession: with no request to abandon there is nothing to wait for ...
Clear(s) ==
    /\ clearing[s] = None /\ OpenOf(s) = {} /\ rows[s] # {}
    /\ Purge(s)
    /\ UNCHANGED clearing

\* ... else the cancels of the abandoned requests are.
BeginClear(s) ==
    /\ clearing[s] = None /\ OpenOf(s) # {}
    /\ open' = open \ OpenOf(s)
    /\ cancels' = cancels \cup OpenOf(s)
    /\ clearing' = [clearing EXCEPT ![s] = <<OpenOf(s)>>]
    /\ UNCHANGED <<rows, stored, unread, told, of, prompts, fresh, tab, history>>

FinishClear(s) ==
    /\ clearing[s] = <<{}>>
    /\ clearing' = [clearing EXCEPT ![s] = None]
    /\ Purge(s)

-----------------------------------------------------------------------------
(* The tab                                                                 *)

Ask(s) == [session |-> s, data |-> None, old |-> FALSE]

\* The panel is opened for s, or turned to s: it is emptied, fetches the transcript
\* and opens another stream.  Fetches for the session before go on.
Select(s) ==
    /\ sel # s /\ selects < MaxSelects /\ Len(asked) < MaxAsked
    /\ selects' = selects + 1
    /\ sel' = s
    /\ stream' = "opening"
    /\ pipe' = <<>>
    /\ shown' = {} /\ cards' = {}
    /\ asked' = Append(asked, Ask(s))
    /\ behind' = FALSE
    /\ missed' = missed \cup {r \in open : of[r] = s}
    /\ UNCHANGED <<server, busy, ghosts, mishaps>>

\* The panel is unmounted; answers to it go nowhere.
Close ==
    /\ sel # None
    /\ sel' = None /\ stream' = "closed"
    /\ pipe' = <<>> /\ asked' = <<>> /\ shown' = {} /\ cards' = {} /\ busy' = {}
    /\ UNCHANGED <<server, history>>

\* GET /sessions/:id/stream.
Subscribe ==
    /\ stream = "opening"
    /\ stream' = "up"
    /\ UNCHANGED <<server, sel, pipe, shown, cards, busy, asked, history>>

Refreshes(e) == e.kind = "message"
MessagesAfter(e) == IF e.kind = "cleared" THEN {} ELSE shown
CardsAfter(e) ==
    CASE e.kind = "message" -> cards
      [] e.kind = "cleared" -> {}
      [] e.kind = "requested" -> cards \cup {e.request}
      [] e.kind = "removed" -> cards \ {e.request}

\* The panel's handler of its stream.
Handle ==
    /\ pipe # <<>>
    /\ LET e == Head(pipe) IN
         /\ IF Refreshes(e)
            THEN Len(asked) < MaxAsked /\ asked' = Append(asked, Ask(sel))
            ELSE UNCHANGED asked
         /\ shown' = MessagesAfter(e)
         /\ cards' = CardsAfter(e)
         /\ behind' = (behind /\ e.kind # "cleared")
    /\ pipe' = Tail(pipe)
    /\ UNCHANGED <<server, sel, stream, busy, missed, ghosts, selects, mishaps>>

\* onSend, onQuickReply: a message of the panel's own was accepted.
Sent ==
    /\ sel # None /\ stored > 0 /\ Len(asked) < MaxAsked
    /\ asked' = Append(asked, Ask(sel))
    /\ UNCHANGED <<server, sel, stream, pipe, shown, cards, busy, history>>

\* GET /sessions/:id/messages of the panel's fetch number i.
Answer(i) ==
    /\ asked[i].data = None
    /\ asked' = [asked EXCEPT ![i].data = <<rows[asked[i].session]>>]
    /\ Read(asked[i].session)
    /\ UNCHANGED <<rows, stored, open, of, prompts, cancels, clearing, sel, stream, pipe, shown,
                   cards, busy, history>>

\* setMessages: whatever the panel shows by now, and whatever came before.
Apply(i) ==
    /\ asked[i].data # None
    /\ shown' = asked[i].data[1]
    /\ behind' = (asked[i].old \/ asked[i].session # sel)
    /\ asked' = RemoveAt([j \in DOMAIN asked |-> [asked[j] EXCEPT !.old = @ \/ j < i]], i)
    /\ UNCHANGED <<server, sel, stream, pipe, cards, busy, missed, ghosts, selects, mishaps>>

\* handlePermission: the click reaches the relay ...
Decide(r) ==
    /\ r \in cards \ busy
    /\ busy' = busy \cup {r}
    /\ End(r)
    /\ UNCHANGED <<rows, stored, unread, told, of, prompts, clearing, fresh, sel, stream, shown,
                   cards, asked, history>>

\* ... and is accepted, whether it counted or not.
Decided(r) ==
    /\ r \in busy
    /\ busy' = busy \ {r}
    /\ cards' = cards \ {r}
    /\ UNCHANGED <<server, sel, stream, pipe, shown, asked, history>>

\* useSessionsState: each refresh of the session list, on any event and every
\* 30 s, fetches the last messages of every session for its preview.
Preview(s) ==
    /\ unread[s] > 0
    /\ Read(s)
    /\ UNCHANGED <<rows, stored, open, of, prompts, cancels, clearing, tab, history>>

-----------------------------------------------------------------------------
(* Mishaps                                                                 *)

Mishap == mishaps < MaxMishaps /\ mishaps' = mishaps + 1

\* What a lost stream takes with it.
Lost(kinds) == {pipe[i].request : i \in {j \in DOMAIN pipe : pipe[j].kind \in kinds}}

\* The stream breaks, and EventSource opens it again; nothing is sent twice.
Disconnect ==
    /\ stream = "up"
    /\ Mishap
    /\ stream' = "opening"
    /\ pipe' = <<>>
    /\ LET unseen == Lost({"message", "cleared"}) # {} IN
         /\ behind' = (behind \/ unseen)
         /\ asked' = IF unseen THEN Outdated ELSE asked
    /\ missed' = missed \cup (Lost({"requested", "cleared"}) \ {None})
    /\ ghosts' = ghosts \cup Lost({"removed"})
    /\ UNCHANGED <<server, sel, shown, cards, busy, selects>>

\* A fetch fails: the panel says so and does not ask again.
FetchFails(i) ==
    /\ Mishap
    /\ asked' = RemoveAt(Outdated, i)
    /\ behind' = (behind \/ asked[i].session = sel)
    /\ UNCHANGED <<server, sel, stream, pipe, shown, cards, busy, missed, ghosts, selects>>

\* The answer to a click is lost: the card stays.
DecisionFails(r) ==
    /\ r \in busy
    /\ Mishap
    /\ busy' = busy \ {r}
    /\ UNCHANGED <<server, sel, stream, pipe, shown, cards, asked, behind, missed, ghosts, selects>>

\* The daemon restarts: the relay and the tracker forget, the storage does not.
Restart ==
    /\ Mishap
    /\ open' = {} /\ prompts' = {} /\ cancels' = {}
    /\ clearing' = [s \in Sessions |-> None]
    /\ told' = [s \in Sessions |-> 0]
    /\ stream' = IF stream = "closed" THEN "closed" ELSE "opening"
    /\ pipe' = <<>> /\ asked' = <<>> /\ busy' = {}
    /\ behind' = (behind \/ asked # <<>> \/ Lost({"message", "cleared"}) # {})
    /\ ghosts' = ghosts \cup {r \in Requests : of[r] # None}
    /\ UNCHANGED <<rows, stored, unread, of, fresh, sel, shown, cards, missed, selects>>

-----------------------------------------------------------------------------
Daemon ==
    \/ \E s \in Sessions :
         \/ Inbound(s) \/ OwnInbound(s) \/ Outbound(s)
         \/ Clear(s) \/ BeginClear(s) \/ FinishClear(s)
         \/ \E r \in Requests : Request(r, s) \/ RequestApproved(r, s)
    \/ \E r \in Requests : Prompt(r) \/ Resolve(r) \/ Cancel(r)

Tab ==
    \/ \E s \in Sessions : Select(s) \/ Preview(s)
    \/ Close \/ Subscribe \/ Handle \/ Sent
    \/ \E i \in DOMAIN asked : Answer(i) \/ Apply(i)
    \/ \E r \in Requests : Decide(r) \/ Decided(r)

Mishaps ==
    \/ Disconnect \/ Restart
    \/ \E i \in DOMAIN asked : FetchFails(i)
    \/ \E r \in Requests : DecisionFails(r)

Next ==
    \/ Daemon /\ Len(pipe') <= MaxPipe
    \/ Tab /\ Len(pipe') <= MaxPipe
    \/ Mishaps

Spec == Init /\ [][Next]_vars

-----------------------------------------------------------------------------
(* Safety                                                                  *)

\* The count of unread messages is above zero exactly while a message of another
\* adapter has come since the transcript was last fetched, and never above their
\* number; the tracker knows it, or has forgotten it in a restart.
UnreadIsNew ==
    \A s \in Sessions :
      /\ unread[s] > 0 <=> fresh[s] > 0
      /\ unread[s] <= fresh[s]
      /\ told[s] \in {0, unread[s]}

\* When all events are handled and all fetches answered, the panel shows the rows
\* of its session, unless it has missed an event, a fetch failed or an outdated
\* answer came last; the next event or clear that reaches it makes up for that.
PanelCatchesUp == sel # None /\ pipe = <<>> /\ asked = <<>> /\ ~behind => shown = rows[sel]

InPipe(kind, r) == \E i \in DOMAIN pipe : pipe[i] = Ev(kind, r)

\* A card stands for a request that is open, or will be taken away; an open request
\* whose event reached the panel has its card.  Exempt are the events a broken
\* stream or a clear took, and prompts that came after their cancel.
CardsFollowRequests ==
    /\ \A r \in cards \ ghosts : r \in open \cup cancels \/ InPipe("removed", r)
    /\ \A r \in open \ missed : of[r] = sel => r \in cards \/ InPipe("requested", r)

-----------------------------------------------------------------------------
(* What the documents say and the code does not do                         *)

\* README.md: the badge counts the messages received from other adapters since you
\* last opened the session.  So it falls only while its panel is open, or in a
\* clear.
BadgeCountsUnopened ==
    [][\A s \in Sessions : unread'[s] < unread[s] => sel = s \/ clearing[s] # None]_vars

\* README.md: permission banner at top when Claude requests approval.  So the panel
\* that is open and has heard all there is to hear shows every open request.
BannerIsShown ==
    \A r \in open : of[r] = sel /\ stream = "up" /\ pipe = <<>> => r \in cards

\* README.md: live updates over Server-Sent Events; no polling, no refresh.  So a
\* panel at rest shows what there is.
PanelIsLive == sel # None /\ stream = "up" /\ pipe = <<>> /\ asked = <<>> => shown = rows[sel]
=============================================================================
