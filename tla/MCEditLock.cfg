SPECIFICATION Spec
CONSTANTS
    p1 = p1
    p2 = p2
    u1 = u1
    u2 = u2
    Pages = {p1, p2}
    Users = {u1, u2}
    User <- OnePageEach
    MaxEdits = 1
    MaxOpens = 2
    MaxSaves = 2
SYMMETRY ChangePlaces
INVARIANTS TypeOK LeftoversAreExplained
PROPERTY OverwritesAreExplained
CHECK_DEADLOCK FALSE
