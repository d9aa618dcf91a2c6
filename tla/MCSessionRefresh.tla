-------------------------- MODULE MCSessionRefresh --------------------------
(* SessionRefresh on a few calls, passwords and tokens, for TLC. *)
EXTENDS SessionRefresh, TLC

OpSymmetry == Permutations(Op)

Message == [NullData EXCEPT !.null = FALSE]

(* One failure of each reason refresh() can return, and one it rethrows. *)
MCRefusal ==
    {Answered(429, Message), Answered(503, Message), TimedOut, Unreachable, Unparsed(503),
     Answered(403, [Message EXCEPT !.code = "mfa_enrollment"]),
     Answered(403, [Message EXCEPT !.error = "sso_required"])}
=============================================================================
