CONSTANTS
    f = f
    g = g
    File = {f, g}
    NDIRECT = 1
    DBPERIDB = 3
    NBlocks = 4
    FileBlock = {0, 1, 4, 13}
    Lengths = {0, 2}
    Data = {1}
SPECIFICATION Spec
SYMMETRY Symmetry
VIEW StateView
INVARIANT BlocksOK
PROPERTIES WriteExact TruncateKeeps
