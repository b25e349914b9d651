\* Three users, a new instance or settled members; one invite code, two requests at
\* once.  Two lists, one Steam app, names not shared at all, weeks of two checks.
CONSTANTS
    u1 = u1
    u2 = u2
    u3 = u3
    i1 = i1
    q1 = q1
    q2 = q2
    Users = {u1, u2, u3}
    Asks <- MCAsks
    Invites = {i1}
    Slots = {q1, q2}
    OpenRegistration = FALSE
    Lists <- MCLists
    Library <- MCLibrary
    MaxShared = 1
    Week = 2
SYMMETRY Symmetric
SPECIFICATION CatSpec
CONSTRAINTS
    FewSlips
    OneStory
CHECK_DEADLOCK FALSE
INVARIANTS
    AdminRemains
    OneSeatEach
    ImportLands
    StaysFresh
