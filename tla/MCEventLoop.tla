---------------------------- MODULE MCEventLoop ----------------------------
(* Symmetry for the runs of EventLoop that check no liveness property:     *)
(* descriptors are told apart by CHOOSE (AnyFd), clients by nothing.       *)
EXTENDS EventLoop, TLC

Symmetry == Permutations(Clients)
=============================================================================
