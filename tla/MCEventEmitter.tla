--------------------------- MODULE MCEventEmitter ---------------------------
(* EventEmitter on a few events, listeners and nested emissions, for TLC. *)
EXTENDS EventEmitter, TLC

FnSymmetry == Permutations(Fn)
=============================================================================
