---------------------------- MODULE MCEventStream ----------------------------
(***************************************************************************)
(* EventStream for TLC: the log starts with one event and grows to MaxLog. *)
(***************************************************************************)
EXTENDS EventStream
=============================================================================
