SPECIFICATION Spec
CONSTANTS
    Attempts = {a1, a2}
    Questions = {q1, q2}
    AutoGraded = {q1}
    Requests = {r1, r2}
    Limit = 1
    Timed = TRUE
    SystemUser = TRUE
    Given = {1}
    MaxRequests = 3
SYMMETRY Symmetry
INVARIANTS TypeOK LimitIsKept ResultIsBest GradesMatchAnswers
CHECK_DEADLOCK FALSE
