\* Two refreshes overlap on an API that retires the tokens it exchanges, or not.
SPECIFICATION Spec
CONSTANTS
    NoValue = NoValue
    FailureStatus = {400, 403, 429, 503}
    Op = {a, b}
    Password = {p1, w}
    Weak = {w}
    MaxToken = 2
    Refusal <- MCRefusal
SYMMETRY OpSymmetry
INVARIANT
    TerminalMeansOver
