---------------------------- MODULE MCSwitchRoot ----------------------------
(* Model-checking instance of SwitchRoot: every system call may fail.     *)
EXTENDS SwitchRoot

MCFallible == Calls
=============================================================================
