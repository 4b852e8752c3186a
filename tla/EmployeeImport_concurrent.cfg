SPECIFICATION Spec
CONSTANTS
    i1 = i1  i2 = i2
    e1 = e1  e2 = e2
    m1 = m1  m2 = m2
    d1 = d1
    NoEmployee = NoEmployee
    NoEmail = NoEmail
    EmployeeIds <- MCEmployees
    Mailboxes <- MCMailboxes
    MalformedMailboxes = {}
    Descriptions <- MCDescriptions
    Importers <- MCImporters
    Configs <- AllSwitches
    Directories <- AnyDirectories
    Faults = {"fetchError", "dbError", "crash"}
SYMMETRY Symmetry
INVARIANTS TypeOK ReportedImportIsComplete
PROPERTY ImportedUnderFlags
