CONSTANTS
    t1 = t1
    t2 = t2
    a = a
    b = b
    Thread = {t1}
    Name = {a, b}
    NoName = NoName
    NInodes = 2
    NSlots = 2
    NVnodes = 3
    MaxHeld = 1
    MaxLinks = 2
    IOFails = TRUE
SPECIFICATION Spec
SYMMETRY Symmetry
INVARIANTS NoPanic RefcountCovers NamesKeepFiles
PROPERTY LastNameRemoved
CHECK_DEADLOCK FALSE
