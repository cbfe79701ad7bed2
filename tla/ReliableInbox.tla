---------------------------- MODULE ReliableInbox ----------------------------
(***************************************************************************)
(* What the inbound path of rederd promises to the people who write to a   *)
(* session, with no sockets, no shim and no crashes in it:                 *)
(*                                                                         *)
(*   - an adapter's message is accepted at most once per idempotency key;  *)
(*   - accepted messages of a session are first handed to the session's    *)
(*     claude in the order they were accepted, but for those passed over,  *)
(*     and a message is passed over only when its turn has come;           *)
(*   - a message is settled (acknowledged) only after it was handed over;  *)
(*     so one that was passed over stays owed to claude;                   *)
(*   - clearing a session's conversation is the only way to lose one.      *)
(*                                                                         *)
(* A message may be handed over again later (the promise is at least       *)
(* once), which this specification cannot see: a second handing over       *)
(* leaves "got" as it is.  InboundDelivery implements this module.         *)
(***************************************************************************)
EXTENDS Naturals

CONSTANTS
    Keys,       \* idempotency keys: one per message a transport may present
    Sessions,   \* sessions of the daemon
    Target,     \* the session each key's message is addressed to
    MaxMsgs     \* bound on the messages ever accepted

VARIABLES
    next,       \* the next message number; lower numbers were accepted earlier
    status,     \* what became of each message
    keyOf,      \* the idempotency key a message was accepted under
    got,        \* the messages handed to claude at least once
    passed      \* the messages passed over and not handed over since

vars == <<next, status, keyOf, got, passed>>

Msgs == 1..MaxMsgs

Init ==
    /\ next = 1
    /\ status = [m \in Msgs |-> "new"]
    /\ keyOf \in [Msgs -> Keys]
    /\ got = {}
    /\ passed = {}

Kept(m) == status[m] \in {"pending", "settled"}

\* A transport presents key k and no kept message has it.
Accept(k) ==
    /\ next \in Msgs
    /\ \A m \in Msgs : Kept(m) => keyOf[m] # k
    /\ status' = [status EXCEPT ![next] = "pending"]
    /\ keyOf' = [keyOf EXCEPT ![next] = k]
    /\ next' = next + 1
    /\ UNCHANGED <<got, passed>>

\* Every kept message accepted before m for the same session has had its turn
\* before, or has it together with m, as one of S.
InTurn(m, S) ==
    \A n \in Msgs :
      n < m /\ Kept(n) /\ Target[keyOf[n]] = Target[keyOf[m]] => n \in got \cup passed \cup S

\* Message m reaches claude.
HandOver(m) ==
    /\ status[m] # "new"
    /\ InTurn(m, {})
    /\ got' = got \cup {m}
    /\ passed' = passed \ {m}
    /\ UNCHANGED <<next, status, keyOf>>

\* The messages of S are sent and do not reach claude, without anybody noticing.
PassOver(S) ==
    /\ \A m \in S : status[m] # "new" /\ InTurn(m, S)
    /\ passed' = passed \cup (S \ got)
    /\ UNCHANGED <<next, status, keyOf, got>>

Settle(m) ==
    /\ status[m] = "pending"
    /\ m \in got
    /\ status' = [status EXCEPT ![m] = "settled"]
    /\ UNCHANGED <<next, keyOf, got, passed>>

\* The session's conversation is cleared: its messages are forgotten.
Forget(s) ==
    /\ status' = [m \in Msgs |->
                    IF Kept(m) /\ Target[keyOf[m]] = s THEN "dropped" ELSE status[m]]
    /\ UNCHANGED <<next, keyOf, got, passed>>

Next ==
    \/ \E k \in Keys : Accept(k)
    \/ \E m \in Msgs : HandOver(m)
    \/ \E S \in SUBSET Msgs : PassOver(S)
    \/ \E m \in Msgs : Settle(m)
    \/ \E s \in Sessions : Forget(s)

Spec == Init /\ [][Next]_vars
=============================================================================
