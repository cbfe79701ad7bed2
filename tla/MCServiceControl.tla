--------------------------- MODULE MCServiceControl ---------------------------
(* Small instances of ServiceControl for TLC: the constants are model      *)
(* values.                                                                  *)
EXTENDS ServiceControl
=============================================================================
