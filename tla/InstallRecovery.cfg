SPECIFICATION Spec
CONSTANTS
    Builds = {a, b, c}
    None = None
    MaxTroubles = 3
INVARIANT FailureIsRecoverable
