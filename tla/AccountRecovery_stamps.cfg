SPECIFICATION Spec
CONSTANTS
    b1 = b1  b2 = b2
    p1 = p1  p2 = p2
    NoPassword = NoPassword
    Browsers <- MCBrowsers
    Passwords <- MCPasswords
    MaxSaves = 2
    MaxMails = 1
    Faults = {"crash"}
SYMMETRY Symmetry
INVARIANTS TypeOK LinkWorksOnce SessionRestsOnPassword
PROPERTIES PasswordChangeProven LockoutKept
