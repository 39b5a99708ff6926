SPECIFICATION Spec
CONSTANTS
    Requests = {q1, q2, q3}
    Learners = {l1}
    MaxEdits = 1
SYMMETRY Symmetry
INVARIANTS TypeOK NumbersHaveNoGap
PROPERTY ImplementsCatalog
