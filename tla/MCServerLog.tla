---------------------------- MODULE MCServerLog ----------------------------
(* ServerLog for TLC. *)
EXTENDS ServerLog
=============================================================================
