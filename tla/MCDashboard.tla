----------------------------- MODULE MCDashboard -----------------------------
(* Small instances of Dashboard for TLC: the constants are model values.    *)
EXTENDS Dashboard, TLC

\* The sessions differ in nothing, and no liveness is checked.
Symmetry == Permutations(Sessions)
=============================================================================
