--------------------------- MODULE MCSessionSetup ---------------------------
(* A small instance of SessionSetup for TLC.                                *)
EXTENDS SessionSetup, TLC

\* Sessions and slots can be renamed; projects differ in their settings file.
Symmetry == Permutations(Sessions) \cup Permutations(Procs)
=============================================================================
