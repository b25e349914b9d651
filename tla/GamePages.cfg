\* Three requests at once, for each of the four kinds of page.
CONSTANTS
    q1 = q1
    q2 = q2
    q3 = q3
    Slots = {q1, q2, q3}
SYMMETRY Symmetric
SPECIFICATION PageSpec
INVARIANTS
    LinkWhole
PROPERTIES
    RosterKept
