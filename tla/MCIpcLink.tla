------------------------------ MODULE MCIpcLink ------------------------------
(* Small instances of IpcLink for TLC: the constants are model values.     *)
EXTENDS IpcLink
=============================================================================
