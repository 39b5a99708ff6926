SPECIFICATION Spec
CONSTANTS
    r1 = r1
    r2 = r2
    r3 = r3
    p1 = p1
    p2 = p2
    Learning = {r1, r2}
    Reviewing = {v1}
    Processes = {p1}
    Home <- TwoProcesses
    MaxUploads = 1
PROPERTY ReviewedContentIsFrozen
CHECK_DEADLOCK FALSE
