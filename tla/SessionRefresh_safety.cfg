\* Three calls on one instance, an API that retires the tokens it exchanges, or not.
SPECIFICATION Spec
CONSTANTS
    NoValue = NoValue
    FailureStatus = {400, 403, 429, 503}
    Op = {a, b, c}
    Password = {p1, p2, w}
    Weak = {w}
    MaxToken = 3
    Refusal <- MCRefusal
SYMMETRY OpSymmetry
INVARIANTS
    TypeOK
    RefreshedOpens
    HoldsLiveToken
PROPERTIES
    FailureKeepsSession
