SPECIFICATION Spec
CONSTANTS
    r1 = r1
    r2 = r2
    r3 = r3
    m1 = m1
    m2 = m2
    Modules <- TheModules
    Requests <- TheRequests
CONSTRAINT GivesCertificate
SYMMETRY Interchangeable
INVARIANTS
    TypeOK
    OneCertificateUnderTheLock
    CompletionIsRecorded
PROPERTIES
    FinishedIsKept
    ImplementsIssuance
CHECK_DEADLOCK FALSE
