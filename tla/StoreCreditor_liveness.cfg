SPECIFICATION FairSystem
CONSTANTS
    w1 = w1  w2 = w2
    i1 = i1
    e1 = e1  e2 = e2
    m1 = m1  m2 = m2
    d1 = d1
    NoEmployee = NoEmployee
    NoEmail = NoEmail
    EmployeeIds <- MCEmployees
    Mailboxes <- MCMailboxes
    MalformedMailboxes = {}
    Descriptions <- MCDescriptions
    Workers <- MCTwoWorkers
    Importers <- MCImporters
    Configs <- LiveOnly
    Directories <- BothListed
    Stagings <- NobodyStaged
    FetchFaults = {}
    RetryCount = 0
    CreditCap = 1
    Faults = {"transient", "timeout"}
PROPERTIES KeepsLedger EveryHireAttempted NoStarvation
