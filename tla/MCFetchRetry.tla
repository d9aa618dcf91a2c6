---------------------------- MODULE MCFetchRetry ----------------------------
(* FetchRetry on a few concurrent calls, for TLC. *)
EXTENDS FetchRetry

CONSTANTS c1, c2, k1
=============================================================================
