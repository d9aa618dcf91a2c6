\* Two flags, two outstanding requests, listeners that return, throw or close,
\* under the fairness of the event loop alone.
SPECIFICATION SpecLive
CONSTANTS
    Flag = {f1, f2}
    Entry = {e1}
    Absent = Absent
    RequestId = {r1, r2}
    MaxVersion = 2
    ErrorCap = 1
    Reaction = {"return", "throw", "close"}
CHECK_DEADLOCK FALSE
INVARIANTS
    TypeOK
    MirrorFollows
    ReadyMeansFlags
PROPERTIES
    StoreNeverGoesBack
    ClosedStartsNothing
    KeepsPolling
    ChangesArrive
    ReadySettles
