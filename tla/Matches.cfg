\* Two members, matches of three ticks with echoes one tick late, clocks one
\* tick ahead: two matches each fit before MaxTime.
CONSTANTS
    u1 = u1
    u2 = u2
    p1 = p1
    Users = {u1, u2}
    Prints = {p1}
    Plays <- MCPlays
    Window = 2
    Skew = 1
    MinDuration = 1
    Drift = 1
    MatchLen = 3
    MaxLinger = 1
    InOrder = TRUE
    MaxLost = 1
    MaxTime = 3
    MaxRecapWindow = 2
    RecentMatches = 1
    NameRank <- MCNameRank
SPECIFICATION LittleSpec
CHECK_DEADLOCK FALSE
INVARIANTS
    EachMatchOnce
    RecapAgrees
    PagesAgree
PROPERTIES
    EveryMatchLands
