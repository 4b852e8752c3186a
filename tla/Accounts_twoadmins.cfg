SPECIFICATION Spec
CONSTANTS
    b1 = b1  b2 = b2  b3 = b3
    u1 = u1  u2 = u2  u3 = u3
    NoOne = NoOne
    Browsers <- MCBrowsers
    Emails <- MCEmails
    Faults = {}
SYMMETRY Symmetry
INVARIANT SingleAdmin
