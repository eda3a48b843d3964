SPECIFICATION FairSpec
CONSTANTS
    Checks = {c1, c2}
    MaxChanges = 2
    MaxLogins = 1
PROPERTIES
    ProgressSettles
