-------------------------- MODULE MCOutboundReply --------------------------
(* A small instance of OutboundReply for TLC: every reply has two parts.   *)
EXTENDS OutboundReply

MCParts == [r \in Replies |-> 2]
=============================================================================
