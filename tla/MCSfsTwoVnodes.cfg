CONSTANTS
    t1 = t1
    t2 = t2
    a = a
    b = b
    Thread = {t1, t2}
    Name = {a, b}
    NoName = NoName
    NInodes = 2
    NSlots = 2
    NVnodes = 3
    MaxHeld = 2
    MaxLinks = 3
    IOFails = FALSE
SPECIFICATION Spec
SYMMETRY Symmetry
INVARIANT OneVnodePerInode
CHECK_DEADLOCK FALSE
