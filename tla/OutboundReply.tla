---------------------------- MODULE OutboundReply ----------------------------
(***************************************************************************)
(* claude's replies in one session: sendReply of the shim, the router's    *)
(* handleReplyToolCall with its retries, outbound_messages, and the        *)
(* Telegram adapter's sendOutbound, one awaited request to Telegram at a   *)
(* time.  Replies are handled concurrently: each has a handler of its own. *)
(*                                                                         *)
(* The link is abstracted to what a call can see of it (IpcLink has the    *)
(* rest): frames arrive in order or are lost with the connection, and a    *)
(* call may fail at any time, by its 30 s timer, because the connection    *)
(* closes, or because socket.write returned false.                         *)
(*                                                                         *)
(* in_reply_to is left out: it names a message_id of the daemon, which no  *)
(* notification tells claude (the message_id in meta is Telegram's), and   *)
(* an id that no row has leaves the recipient to be found as without one.  *)
(* The clock that gives rows their received_at does not step back, but     *)
(* several rows may have the same millisecond.                             *)
(***************************************************************************)
EXTENDS Naturals, Sequences

CONSTANTS
    Replies,      \* the calls of the reply tool, each with an id of its own
    Files,        \* the replies with attachments
    MaxParts,     \* the most messages a reply is posted as
    Parts,        \* Parts[r]: chunks, or sends of attachments, of reply r
    Senders,      \* the people bound to the session
    None,         \* nobody
    MaxAttempts,  \* outboundMaxAttempts
    MaxClears,    \* bound: SessionStart hooks that clear the session
    MaxCrashes    \* bound: crashes of rederd

ASSUME OutboundAssumption ==
    /\ Files \subseteq Replies
    /\ MaxParts \in Nat /\ Parts \in [Replies -> 1..MaxParts]
    /\ None \notin Senders
    /\ MaxAttempts \in Nat \ {0}
    /\ MaxClears \in Nat
    /\ MaxCrashes \in Nat

VARIABLES
    newest,     \* the senders of the session's inbound_messages with the
                \* newest received_at
    top,        \* of these, the one whose row has the greatest message_id
    last,       \* lastInboundBySession
    call,       \* what claude knows of each call
    toDaemon,   \* reply_tool_call frames on the way
    results,    \* reply_tool_result frames on the way
    stage,      \* where each handler is
    attempt,    \* its attempt, from 1
    part,       \* the part it sends
    got,        \* anyDelivered: in this attempt something was posted
    again,      \* lastRetriable
    row,        \* outbound_messages
    copies,     \* copies[r][p]: how often part p of reply r was posted
    clears, crashes

inboundVars == <<newest, top, last>>
handlerVars == <<stage, attempt, part, got, again>>
vars == <<inboundVars, call, toDaemon, results, handlerVars, row, copies,
          clears, crashes>>

Verdicts == {"sent", "failed"}
Rows == {"none", "pending"} \cup Verdicts

TypeOK ==
    /\ newest \in SUBSET Senders
    /\ top \in Senders \cup {None}
    /\ last \in Senders \cup {None}
    /\ call \in [Replies -> {"idle", "waiting", "sent", "error"}]
    /\ toDaemon \in Seq(Replies)
    /\ results \in SUBSET (Replies \X Verdicts)
    /\ stage \in [Replies -> {"none", "staging", "sending", "backoff", "over"}]
    /\ attempt \in [Replies -> 0..MaxAttempts]
    /\ part \in [Replies -> 0..MaxParts]
    /\ got \in [Replies -> BOOLEAN]
    /\ again \in [Replies -> BOOLEAN]
    /\ row \in [Replies -> Rows]
    /\ copies \in [Replies -> [1..MaxParts -> 0..MaxAttempts]]
    /\ clears \in 0..MaxClears
    /\ crashes \in 0..MaxCrashes

Init ==
    /\ newest = {}
    /\ top = None
    /\ last = None
    /\ call = [r \in Replies |-> "idle"]
    /\ toDaemon = <<>>
    /\ results = {}
    /\ stage = [r \in Replies |-> "none"]
    /\ attempt = [r \in Replies |-> 0]
    /\ part = [r \in Replies |-> 0]
    /\ got = [r \in Replies |-> FALSE]
    /\ again = [r \in Replies |-> FALSE]
    /\ row = [r \in Replies |-> "none"]
    /\ copies = [r \in Replies |-> [p \in 1..MaxParts |-> 0]]
    /\ clears = 0
    /\ crashes = 0

-----------------------------------------------------------------------------
(* Faults a mutated definition stands for; Next never uses them.           *)

\* A clear forgets the rows and not lastInboundBySession.
KeepLast == last

\* The next chunk of a text is sent after one that failed.
TriesAll(r, ok) == part[r] < Parts[r]

\* A text with a chunk posted counts as sent.
AnyOfParts(r, ok) == ok \/ got[r]

\* A failure is reported to claude and not to the row.
DecideSentOnly(r, verdict) ==
    [row EXCEPT ![r] = IF @ = "pending" /\ verdict = "sent" THEN verdict ELSE @]

-----------------------------------------------------------------------------
(* Helpers                                                                 *)

\* resolveRecipient: whoever wrote last, from memory or, after a start, from
\* the rows, ORDER BY received_at DESC, message_id DESC.
Resolved == IF last # None THEN last ELSE top

\* A row of sender s is inserted, in a new millisecond or in that of the rows
\* before it.  Its message_id is a random UUID, and may be the greater one.
NewRow(s) ==
    \/ newest' = {s} /\ top' = s
    \/ newest # {} /\ newest' = newest \cup {s} /\ top' \in {top, s}

LastAfterClear == None

\* An attempt that failed in a way that may pass is followed by another.
MayRetry(r) == attempt[r] < MaxAttempts

\* The attempt whose last request ended with ok has succeeded.
Success(r, ok) == IF r \in Files THEN ok \/ got[r] ELSE ok

\* sendToSession: the result is written if the session has a connection.
SendResult(r, verdict) ==
    \E S \in {{}, {<<r, verdict>>}} : results' = results \cup S

\* markOutboundSent and markOutboundFailed: a row that a clear has deleted is
\* not there to be updated.
RowAfter(r, verdict) == [row EXCEPT ![r] = IF @ = "pending" THEN verdict ELSE @]

-----------------------------------------------------------------------------
(* People                                                                  *)

\* ingestInbound.
Ingest(s) ==
    /\ NewRow(s)
    /\ last' = s
    /\ UNCHANGED <<call, toDaemon, results, handlerVars, row, copies, clears, crashes>>

-----------------------------------------------------------------------------
(* claude and its shim                                                     *)

\* The reply tool is called: the frame is written, or there is no socket.
Call(r) ==
    /\ call[r] = "idle"
    /\ call' = [call EXCEPT ![r] = "waiting"]
    /\ toDaemon' \in {toDaemon, Append(toDaemon, r)}
    /\ UNCHANGED <<inboundVars, results, handlerVars, row, copies, clears, crashes>>

\* sendReply rejects: timer, failPendingRequests, or "socket not writable".
CallFails(r) ==
    /\ call[r] = "waiting"
    /\ call' = [call EXCEPT ![r] = "error"]
    /\ UNCHANGED <<inboundVars, toDaemon, results, handlerVars, row, copies,
                   clears, crashes>>

\* A reply_tool_result: it counts only while the call is pending.
ReadResult(r, verdict) ==
    /\ <<r, verdict>> \in results
    /\ results' = results \ {<<r, verdict>>}
    /\ call' = [call EXCEPT ![r] = IF @ # "waiting" THEN @
                                   ELSE IF verdict = "sent" THEN "sent" ELSE "error"]
    /\ UNCHANGED <<inboundVars, toDaemon, handlerVars, row, copies, clears, crashes>>

-----------------------------------------------------------------------------
(* The router's handler of a reply                                         *)

\* insertOutbound, and the first attempt.
Dispatch(r) ==
    /\ row' = [row EXCEPT ![r] = "pending"]
    /\ stage' = [stage EXCEPT ![r] = "sending"]
    /\ attempt' = [attempt EXCEPT ![r] = 1]
    /\ part' = [part EXCEPT ![r] = 1]
    /\ UNCHANGED <<got, again>>

\* The handler's locals are gone.
Return(r) ==
    /\ stage' = [stage EXCEPT ![r] = "over"]
    /\ attempt' = [attempt EXCEPT ![r] = 0]
    /\ part' = [part EXCEPT ![r] = 0]
    /\ got' = [got EXCEPT ![r] = FALSE]
    /\ again' = [again EXCEPT ![r] = FALSE]

\* The handler answers without having persisted anything.
Refuse(r) ==
    /\ Return(r)
    /\ SendResult(r, "failed")
    /\ UNCHANGED row

\* reply_tool_call: the recipient is resolved here, once; without one the reply
\* is refused.  Attachments are staged first, which awaits the file system.
Accept(r) ==
    /\ toDaemon # <<>> /\ r = Head(toDaemon)
    /\ toDaemon' = Tail(toDaemon)
    /\ \/ Resolved = None /\ Refuse(r)
       \/ /\ Resolved # None
          /\ \/ /\ r \in Files
                /\ stage' = [stage EXCEPT ![r] = "staging"]
                /\ UNCHANGED <<attempt, part, got, again, row>>
             \/ r \notin Files /\ Dispatch(r)
          /\ UNCHANGED results
    /\ UNCHANGED <<inboundVars, call, copies, clears, crashes>>

\* stageOutboundFile has copied the attachments, or one cannot be taken.
Staged(r) ==
    /\ stage[r] = "staging"
    /\ \/ Dispatch(r) /\ UNCHANGED results
       \/ Refuse(r)
    /\ UNCHANGED <<inboundVars, call, toDaemon, copies, clears, crashes>>

\* The end of dispatchOutboundWithRetry: the row is updated, the result sent.
Decide(r, verdict) ==
    /\ Return(r)
    /\ row' = RowAfter(r, verdict)
    /\ SendResult(r, verdict)

\* sendOutbound returns, after a last request that ended with ok; "may" says
\* whether its failure is retriable.
AttemptEnds(r, ok, may) ==
    /\ \/ Success(r, ok) /\ Decide(r, "sent")
       \/ ~Success(r, ok) /\ ~(may /\ MayRetry(r)) /\ Decide(r, "failed")
       \/ /\ ~Success(r, ok) /\ may /\ MayRetry(r)
          /\ stage' = [stage EXCEPT ![r] = "backoff"]
          /\ part' = [part EXCEPT ![r] = 0]
          /\ got' = [got EXCEPT ![r] = FALSE]
          /\ again' = [again EXCEPT ![r] = FALSE]
          /\ UNCHANGED <<attempt, row, results>>

\* A text stops at the first chunk that fails; attachments are all tried.
GoesOn(r, ok) == part[r] < Parts[r] /\ (ok \/ r \in Files)

\* A request to Telegram returns.  It was posted if that went well, and may have
\* been if it did not (a connection that was reset, a timeout); "may" says that
\* the failure is one of those held to be retriable.  A chunk whose markup is refused is sent once more as plain text: the
\* outcome is that of the second request.
SendReturns(r, ok, posted, may) ==
    /\ stage[r] = "sending"
    /\ ok => posted /\ ~may
    /\ copies' = IF posted THEN [copies EXCEPT ![r][part[r]] = @ + 1] ELSE copies
    /\ \/ /\ GoesOn(r, ok)
          /\ part' = [part EXCEPT ![r] = @ + 1]
          /\ got' = [got EXCEPT ![r] = @ \/ ok]
          /\ again' = [again EXCEPT ![r] = IF ok THEN @ ELSE may]
          /\ UNCHANGED <<stage, attempt, row, results>>
       \/ ~GoesOn(r, ok) /\ AttemptEnds(r, ok, IF ok THEN again[r] ELSE may)
    /\ UNCHANGED <<inboundVars, call, toDaemon, clears, crashes>>

\* The delay is over: the whole reply is sent again, from its first part.
Retry(r) ==
    /\ stage[r] = "backoff"
    /\ stage' = [stage EXCEPT ![r] = "sending"]
    /\ attempt' = [attempt EXCEPT ![r] = @ + 1]
    /\ part' = [part EXCEPT ![r] = 1]
    /\ UNCHANGED <<inboundVars, call, toDaemon, results, got, again, row, copies, clears, crashes>>

-----------------------------------------------------------------------------
(* Clears and crashes                                                      *)

\* clearSession, from purgeSessionData on: claude starts afresh, the handlers
\* of replies go on.
Clear ==
    /\ clears < MaxClears
    /\ clears' = clears + 1
    /\ newest' = {}
    /\ top' = None
    /\ last' = LastAfterClear
    /\ row' = [r \in Replies |-> "none"]
    /\ UNCHANGED <<call, toDaemon, results, handlerVars, copies, crashes>>

\* The connection breaks, and what is on it is lost.
LinkBreaks ==
    /\ toDaemon # <<>> \/ results # {}
    /\ toDaemon' = <<>>
    /\ results' = {}
    /\ UNCHANGED <<inboundVars, call, handlerVars, row, copies, clears, crashes>>

\* rederd crashes and is started again: its handlers are gone, and nothing
\* takes up the rows they leave pending.
Crash ==
    /\ crashes < MaxCrashes
    /\ crashes' = crashes + 1
    /\ toDaemon' = <<>>
    /\ results' = {}
    /\ last' = None
    /\ stage' = [r \in Replies |-> IF stage[r] = "none" THEN "none" ELSE "over"]
    /\ attempt' = [r \in Replies |-> 0]
    /\ part' = [r \in Replies |-> 0]
    /\ got' = [r \in Replies |-> FALSE]
    /\ again' = [r \in Replies |-> FALSE]
    /\ UNCHANGED <<newest, top, call, row, copies, clears>>

-----------------------------------------------------------------------------
Handler(r) ==
    \/ Accept(r)
    \/ Staged(r)
    \/ \E ok, posted, may \in BOOLEAN : SendReturns(r, ok, posted, may)
    \/ Retry(r)

Exchange ==
    \/ \E r \in Replies : Call(r)
    \/ \E r \in Replies : CallFails(r)
    \/ \E r \in Replies, verdict \in Verdicts : ReadResult(r, verdict)
    \/ \E r \in Replies : Handler(r)
    \/ LinkBreaks
    \/ Crash

Next ==
    \/ \E s \in Senders : Ingest(s)
    \/ Exchange
    \/ Clear

\* File system, Telegram's client (which has a timeout) and the delays let the
\* handlers go on.
Fairness == \A r \in Replies : WF_vars(Handler(r))

Safety == Init /\ [][Next]_vars
Spec == Safety /\ Fairness

-----------------------------------------------------------------------------
(* Safety                                                                  *)

Promise == INSTANCE ReplyPromise

\* The handlers, retries, clears and crashes keep what the reply tool promises:
\* "sent" is said of replies that are posted and final, chunks are in order,
\* and no part is posted more often than there are attempts.
KeepsPromise == Promise!Spec

\* The reply that the dashboard's history calls sent has been posted, whatever
\* claude was told and whatever became of the rows meanwhile.
SentRowWasPosted == \A r \in Replies : row[r] = "sent" => Promise!Whole(r)

\* A reply without in_reply_to goes to a person with a row of the newest
\* millisecond, found in memory or in the rows: a restart changes the recipient
\* only between people who wrote in one millisecond, and after a clear no reply
\* goes to anyone of the conversation that was cleared.
RecipientIsNewest ==
    /\ \A p \in {last, top} \ {None} : p \in newest
    /\ newest # {} => top # None

-----------------------------------------------------------------------------
(* Liveness                                                                *)

\* The row of a reply does not stay pending, unless a crash strands it: also
\* when claude has given the call up, and when a clear deletes it meanwhile.
RowsAreDecided ==
    \A r \in Replies : row[r] = "pending" ~> row[r] # "pending" \/ crashes > 0
=============================================================================
