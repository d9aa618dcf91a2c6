\* Two concurrent calls, POST and DELETE, one key the application may reuse.
SPECIFICATION SpecFair
CONSTANTS
    c1 = c1
    c2 = c2
    k1 = k1
    Call = {c1, c2}
    CallerKey = {k1}
    NoKey = NoKey
    Method = {"POST", "DELETE"}
    MaxRetries = {0, 1}
    Status = {200, 400, 503}
INVARIANTS
    TypeOK
    AtMostOnce
    OkMeansApplied
    TransientExhausted
PROPERTIES
    Settles
