\* Walks in both orders over a list that others change.
SPECIFICATION SpecFair
CONSTANTS
    Object = {1, 2, 3, 4}
    PageLimit = 2
    DefaultLimit = 1
    Request <- FollowedRequest
INVARIANTS
    TypeOK
    NothingSkipped
    InOrder
PROPERTIES
    ReturnsCompleteSet
    WalkEnds
