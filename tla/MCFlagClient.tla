---------------------------- MODULE MCFlagClient ----------------------------
(* FlagClient on a few flags, versions and outstanding requests, for TLC. *)
EXTENDS FlagClient, TLC
=============================================================================
