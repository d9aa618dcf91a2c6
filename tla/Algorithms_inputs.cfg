\* Every calculation, on the boundaries of its inputs.
SPECIFICATION Spec
CONSTANTS
    Missing = Missing
    NoId = NoId
    u1 = u1
    u2 = u2
    o1 = o1
    Entries <- MCEntries
    Contexts <- MCContexts
    DeliveryInputs <- MCDeliveryInputs
    ResponseInputs <- MCResponseInputs
    Numbers <- MCNumbers
    Surroundings <- MCSurroundings
    SealInputs <- MCSealInputs
    Attempts <- MCAttempts
    Failures <- MCFailures
    PollInputs <- MCPollInputs
    TIMEOUT_MAX = 150000
INVARIANTS
    ChangesAreReported
    AcceptedIsAuthentic
    GenuineIsAccepted
    DeliveredAsDeclared
    NumbersRoundTrip
    EnvelopeOpens
    RetryAfterIsHonoured
    PollsAreSpaced
