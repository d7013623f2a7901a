\* Statements the code does not keep, refuted one at a time: leave one of them in.
SPECIFICATION SpecSim
CONSTANTS
    n1 = n1
    n2 = n2
    Added <- MCNodes
    Schedules <- MCSchedules
    Kinds = {"datagram", "stream"}
    Latencies = {0, 1}
    Delays = {1}
    TimerIds = {0, 1}
    MaxSends = 2
    MaxTimers = 2
INVARIANTS
    RestartForgetsTimers
\*  ClearedTimerIsSilent
