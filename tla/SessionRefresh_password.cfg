\* Two refreshes overlap and one of them changes the password.
SPECIFICATION Spec
CONSTANTS
    NoValue = NoValue
    FailureStatus = {400, 403, 429, 503}
    Op = {a, b}
    Password = {p1, p2, w}
    Weak = {w}
    MaxToken = 3
    Refusal <- MCRefusal
SYMMETRY OpSymmetry
INVARIANTS
    PasswordFollowsSession
