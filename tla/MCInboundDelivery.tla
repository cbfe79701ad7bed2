------------------------- MODULE MCInboundDelivery -------------------------
(* A small instance of InboundDelivery for TLC.                            *)
EXTENDS InboundDelivery

CONSTANTS k1, k2, k3, s1, s2

\* k3 is addressed to s2 (when it is a session), the others to s1.
MCTarget == [k \in Keys |-> IF k = k3 /\ s2 \in Sessions THEN s2 ELSE s1]
=============================================================================
