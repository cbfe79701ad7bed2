--------------------------- MODULE ReplyRecipient ---------------------------
(***************************************************************************)
(* OutboundReply beside what claude has seen: the session's inbound        *)
(* messages in the order they were stored, and how many of them claude was *)
(* handed (InboundDelivery has how).  The question is whom a reply answers. *)
(***************************************************************************)
EXTENDS OutboundReply

CONSTANT MaxMsgs    \* bound: rows of inbound_messages at a time

VARIABLES
    inbox,      \* the senders of the session's inbound_messages, as stored
    handed      \* how many of them claude was handed

heardVars == <<inbox, handed>>

HeardType ==
    /\ inbox \in Seq(Senders) /\ Len(inbox) <= MaxMsgs
    /\ handed \in 0..Len(inbox)

\* A message is stored; a clear forgets it.
Stored(s) ==
    /\ Len(inbox) < MaxMsgs
    /\ Ingest(s)
    /\ inbox' = Append(inbox, s)
    /\ UNCHANGED handed

Forgotten ==
    /\ Clear
    /\ inbox' = <<>>
    /\ handed' = 0

\* claude is handed the next message, in the order of the rows.
HandOver ==
    /\ handed < Len(inbox)
    /\ handed' = handed + 1
    /\ UNCHANGED <<inbox, vars>>

NextHeard ==
    \/ \E s \in Senders : Stored(s)
    \/ HandOver
    \/ Exchange /\ UNCHANGED heardVars
    \/ Forgotten

SpecHeard == Init /\ inbox = <<>> /\ handed = 0 /\ [][NextHeard]_<<vars, heardVars>>

-----------------------------------------------------------------------------
(* What the documents say and the code does not do                         *)

\* mcp-server.ts:118: the reply goes to the user who wrote the most recent
\* channel message, that is, of those that reached claude.
RepliesToHeard ==
    [][\A r \in Replies :
         Accept(r) /\ Resolved # None => handed = 0 \/ Resolved = inbox[handed]]_vars

\* The same sentence, of the messages the daemon has: after a restart, too, the
\* reply goes to the one who wrote last.
RepliesToLast ==
    [][\A r \in Replies :
         Accept(r) /\ Resolved # None => Resolved = inbox[Len(inbox)]]_vars
=============================================================================
