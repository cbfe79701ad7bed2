-------------------------- MODULE MCReplyRecipient --------------------------
(* A small instance of ReplyRecipient for TLC: one reply of two parts.     *)
EXTENDS ReplyRecipient

MCParts == [r \in Replies |-> 2]
=============================================================================
