\* Three goroutines, one of them unmetered; calls every 2; a 429 asks for 0 or 3.
CONSTANTS
    c1 = c1
    c2 = c2
    f1 = f1
    Callers = {c1, c2, f1}
    Free = {f1}
    Interval = 2
    Penalties = {0, 3}
    MaxRetries = 1
    MaxCalls = 3
    Horizon = 2
SPECIFICATION FairLimiterSpec
INVARIANTS
    Paced
PROPERTIES
    PenaltyHeld
    EveryCallEnds
CHECK_DEADLOCK FALSE
