--------------------------- MODULE MCSessionCapture ---------------------------
(* Small instances of SessionCapture for TLC.                              *)
EXTENDS SessionCapture, TLC

\* What two prompts or two files are called makes no difference.
Symmetry == Permutations(Texts) \cup Permutations(Files)
=============================================================================
