SPECIFICATION Spec
CONSTANTS
    Emails = {e1, e2}
    Courses = {c1, c2}
    Requests = {r1, r2}
    Base <- MCBase
    MaxRows = 3
SYMMETRY Symmetry
INVARIANTS TypeOK ReportedIsKept CountIsExplained FirstEnrolmentIsSingle
PROPERTY ImplementsRoster
CHECK_DEADLOCK FALSE
