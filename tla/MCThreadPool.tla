---------------------------- MODULE MCThreadPool ----------------------------
(* Instances of ThreadPool for TLC.  No symmetry: it would not be sound    *)
(* for the liveness properties.                                            *)
EXTENDS ThreadPool
=============================================================================
