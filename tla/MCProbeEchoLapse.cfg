SPECIFICATION SpecSchedule
CONSTANTS
    Targets = 3
    Interval = 4
    Jitter = 1
    Runs = 2
    Per = 6
    Lifetime = 6
    MaxTime = 14
    MaxDeferred = 2
INVARIANTS
    EchoStaysRegistered
