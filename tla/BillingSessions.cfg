SPECIFICATION Spec
CONSTANTS
    Accounts = {a, b}
    Commands = {c1, c2}
    NoAccount = nobody
    MaxCalls = 3
    MaxPasswords = 2
INVARIANTS
    OwnPages
    CurrentCredentials
    NoSessionFromBeforeAWrite
    StoppedSentNothing
CHECK_DEADLOCK FALSE
SYMMETRY Alike
CONSTRAINT OneChange
