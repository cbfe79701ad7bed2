---------------------------- MODULE MCPermissions ----------------------------
(* A small instance of Permissions for TLC: the requests ask for the same   *)
(* tool and input, so that approving one for good answers the next.         *)
EXTENDS Permissions

MCSignature == [r \in Requests |-> "npm test"]
=============================================================================
