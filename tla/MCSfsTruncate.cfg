CONSTANTS
    f = f
    g = g
    File = {f}
    NDIRECT = 1
    DBPERIDB = 3
    NBlocks = 6
    FileBlock = {0, 2, 3, 4, 5, 7, 13}
    Lengths = {0, 1, 3}
    Data = {1}
SPECIFICATION Spec
SYMMETRY Symmetry
VIEW StateView
PROPERTY TruncateDiscards
