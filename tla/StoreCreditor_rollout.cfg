SPECIFICATION SystemSpec
CONSTANTS
    w1 = w1  w2 = w2
    i1 = i1
    e1 = e1  e2 = e2
    m1 = m1  m2 = m2
    d1 = d1
    NoEmployee = NoEmployee
    NoEmail = NoEmail
    EmployeeIds <- MCEmployees
    Mailboxes <- MCMailboxes
    MalformedMailboxes = {}
    Descriptions <- MCDescriptions
    Workers <- MCOneWorker
    Importers <- MCImporters
    Configs <- RollOut
    Directories <- Rehiring
    Stagings <- NobodyStaged
    FetchFaults = {}
    RetryCount = 0
    CreditCap = 2
    Faults = {"timeout", "dbError", "crash"}
PROPERTIES KeepsLedger RehireNotCredited CreditsAuthorised
