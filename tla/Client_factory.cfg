\* Clients of createWorkOS in an environment with credentials.
SPECIFICATION Spec
CONSTANTS
    NoValue = NoValue
    FailureStatus = {400, 401, 403, 404, 408, 409, 422, 429, 500, 503}
    Probed = {"authenticateWithRefreshToken"}
INVARIANTS
    FactoryIgnoresEnvironment
