SPECIFICATION FairSpec
CONSTANTS
    p1 = p1
    p2 = p2
    u1 = u1
    u2 = u2
    Pages = {p1, p2}
    Users = {u1, u2}
    User <- OnePageEach
    MaxEdits = 0
    MaxOpens = 3
    MaxSaves = 2
PROPERTY LoserLearns
CHECK_DEADLOCK FALSE
