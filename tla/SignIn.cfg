\* One account, one device, one reset link, two requests at once, three tokens.
CONSTANTS
    u1 = u1
    q1 = q1
    q2 = q2
    d1 = d1
    Users = {u1}
    Slots = {q1, q2}
    Devices = {d1}
    MaxId = 3
    MaxLinks = 1
SYMMETRY Symmetric
SPECIFICATION Spec
CONSTRAINT FewSlips
CHECK_DEADLOCK FALSE
INVARIANTS
    StaysSignedIn
    ResetEndsSessions
    ServedOnce
