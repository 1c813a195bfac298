\* Two concurrent calls on one account; the scenarios are in MCIdentity.
CONSTANTS
    c1 = c1
    c2 = c2
    r1 = r1
    None = None
    Clients = {c1, c2}
    Scenarios <- MCScenarios
    RecoveryCodes = {r1}
    FailureThreshold = 2
    Lockout = 1
    SessionIdle = 2
    SessionAbsolute = 3
    TokenLife = 1
    MaxAttempts = 1
    MaxTokens = 2
    MaxChallenges = 1
    MaxUpdates = 1
SPECIFICATION Spec
INVARIANT
    RecoveryCodeOnce
PROPERTIES
    OutStaysOut
    EndedForGood
CHECK_DEADLOCK FALSE
