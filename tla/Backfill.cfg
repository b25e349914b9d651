\* Two members; one has three past matches and may play a fourth, whose detail is
\* unusable; the other has one; pages of two; four requests, one failure.
CONSTANTS
    m1 = m1
    m2 = m2
    a1 = a1
    a2 = a2
    r1 = r1
    NoAccount = NoAccount
    Members = {m1, m2}
    Accounts = {a1, a2}
    MayLink <- Both
    Requests = {r1, r2}
    Caller <- CallerOf
    PageSize = 2
    Past <- ThreeAndOne
    Unusable <- Unplayed
    MaxTime = 4
    MaxTrouble = 1
    MaxLinks = 4
SPECIFICATION FairSpec
INVARIANTS
    TypeOK
    NoHole
PROPERTIES
    CursorFalls
    WalkEnds
CHECK_DEADLOCK FALSE
