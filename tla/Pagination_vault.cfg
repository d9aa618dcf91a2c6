\* vault.listObjects with an option whose name on the wire differs.
SPECIFICATION SpecFair
CONSTANTS
    Object = {1, 2, 3, 4}
    PageLimit = 2
    DefaultLimit = 1
    Request <- VaultRequest
INVARIANTS
    WalkFollowsFilter
