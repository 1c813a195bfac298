SPECIFICATION PlatformSpec
CONSTANTS
    known = known
    unknown = unknown
    Calls = {known, unknown}
    Found = {known}
    Workers = {"w1", "w2"}
    Transport = "smtp"
    Attempts = 5
    MaxStalls = 1
    MaxStops = 2
    Holders = {"h1", "h2", "h3"}
    Nobody = Nobody
    MaxLockStops = 2
    Runners = {"r1", "r2"}
    Writes <- MCWrites
    MaxRuns = 4
INVARIANTS
    CompletedWasSent
    RecordedIsDone
PROPERTIES
    EveryJobSettles
    OnlyOwnReleased
CHECK_DEADLOCK FALSE
