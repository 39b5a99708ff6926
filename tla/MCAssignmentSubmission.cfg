SPECIFICATION Spec
CONSTANTS
    r1 = r1
    r2 = r2
    r3 = r3
    p1 = p1
    p2 = p2
    Learning = {r1, r2, r3}
    Reviewing = {v1, v2}
    Processes = {p1, p2}
    Home <- TwoProcesses
    MaxUploads = 1
SYMMETRY Symmetry
INVARIANTS TypeOK DecidedWasSubmitted AttemptsNeverOvercount UploadsAreSafe OrphansAreExplained DanglingIsExplained
CHECK_DEADLOCK FALSE
