\* Listeners that register, remove, emit again and throw, nested twice.
SPECIFICATION Spec
CONSTANTS
    Event = {"change", "error"}
    Fn = {f1, f2}
    MaxRegistration = 3
    MaxDepth = 2
    MaxEmission = 3
SYMMETRY FnSymmetry
INVARIANTS
    TypeOK
    OnceOnlyAgainOutside
PROPERTY KeepsContract
