---------------------------- MODULE ReplyPromise ----------------------------
(***************************************************************************)
(* What the reply tool promises to claude, with no daemon, retries or      *)
(* crashes in it.  A reply is posted as one part or several: the chunks of *)
(* a long text, or its attachments.                                        *)
(*                                                                         *)
(*   - "sent" means that the whole text, or at least one attachment, has   *)
(*     been posted, and that nothing more of the reply will be;            *)
(*   - the chunks of a text are first posted in their order, and no part   *)
(*     more than MaxAttempts times;                                        *)
(*   - an error promises nothing: parts may be there, and may follow.      *)
(***************************************************************************)
EXTENDS Naturals

CONSTANTS
    Replies,      \* the calls of the reply tool, each with an id of its own
    Files,        \* the replies with attachments
    MaxParts,     \* the most messages a reply is posted as
    Parts,        \* Parts[r]: how many messages reply r is posted as
    MaxAttempts   \* outboundMaxAttempts

VARIABLES
    call,         \* what claude knows of each call
    copies        \* copies[r][p]: how often part p of reply r was posted

vars == <<call, copies>>

Init ==
    /\ call = [r \in Replies |-> "idle"]
    /\ copies = [r \in Replies |-> [p \in 1..MaxParts |-> 0]]

\* The reply is there as far as "sent" says.
Whole(r) ==
    \/ r \notin Files /\ \A p \in 1..Parts[r] : copies[r][p] > 0
    \/ r \in Files /\ \E p \in 1..Parts[r] : copies[r][p] > 0

MakeCall(r) ==
    /\ call[r] = "idle"
    /\ call' = [call EXCEPT ![r] = "waiting"]
    /\ UNCHANGED copies

Post(r, p) ==
    /\ call[r] \in {"waiting", "error"}
    /\ copies[r][p] < MaxAttempts
    /\ r \notin Files => \A q \in 1..(p - 1) : copies[r][q] > 0
    /\ copies' = [copies EXCEPT ![r][p] = @ + 1]
    /\ UNCHANGED call

TellSent(r) ==
    /\ call[r] = "waiting" /\ Whole(r)
    /\ call' = [call EXCEPT ![r] = "sent"]
    /\ UNCHANGED copies

TellError(r) ==
    /\ call[r] = "waiting"
    /\ call' = [call EXCEPT ![r] = "error"]
    /\ UNCHANGED copies

Next ==
    \E r \in Replies :
        \/ MakeCall(r)
        \/ \E p \in 1..Parts[r] : Post(r, p)
        \/ TellSent(r)
        \/ TellError(r)

Spec == Init /\ [][Next]_vars
=============================================================================
