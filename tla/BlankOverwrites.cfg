SPECIFICATION ConfigSpec
CONSTANTS
    Passwords = {p1, p2}
    Blank = Blank
    MaxSaves = 2
PROPERTY
    BlankNeverOverwrites
CHECK_DEADLOCK FALSE
