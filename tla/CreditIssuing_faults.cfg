SPECIFICATION Spec
CONSTANTS
    w1 = w1  w2 = w2
    e1 = e1  e2 = e2
    m1 = m1  m2 = m2  mBad = mBad
    d1 = d1  d2 = d2
    NoEmployee = NoEmployee
    EmployeeIds <- MCEmployees
    Mailboxes <- MCMailboxes
    MalformedMailboxes <- MCMalformed
    Descriptions <- MCDescriptions
    Workers <- MCWorkers
    Configs <- Switches
    Stagings <- MixedRows
    RetryCount = 0
    Faults = {"transient", "garbled", "timeout", "crash", "dbError"}
    CreditCap = 2
SYMMETRY Symmetry
INVARIANTS SuccessRowBacked AuditTruthful ProcessedHasEvidence
PROPERTY CreditsAuthorised
