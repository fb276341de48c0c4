CONSTANTS
    t1 = t1
    t2 = t2
    Thread = {t1, t2}
    NULL = NULL
    Subjects = {"emufs", "mounts", "openfiles", "filetable", "kheap", "bitmap",
                "userprog", "ringqueue", "threadspace"}
    a = a
    b = b
    dir = dir
    f = f
    File = {dir, f}
    Root = dir
    Handle = {0, 1, 2, 3}
    v1 = v1
    v2 = v2
    v3 = v3
    Vnode = {v1, v2, v3}
    RefMax = 2
    CloseTries = 1
    NDev = 1
    MapBlocks = 2
    MaxVnodes = 2
    Path = {f}
    Access = {"RDONLY", "WRONLY"}
    MAX_OPEN_FILES = 2
    MAX_FD = 2
    MaxFp = 1
    MaxOpens = 1
    OpenFile = {f}
    FILETABLESIZE = 6
    Named = {3, 4, 5}
    MaxOffset = 1
    MaxOpened = 2
    NSIZES = 2
    BlocksOf <- MCBlocksOf
    NPAGEREFS = 2
    p1 = p1
    p2 = p2
    p3 = p3
    HeapPage = {p1, p2, p3}
    BITS_PER_WORD = 3
    MaxBits = 7
    Program <- MCProgram
    STACKBASE = 3
    STACKPAGES = 1
    NUM_TLB = 2
    RamPages = 3
    AddrPages = 8
    Elem = {a, b}
    InitSize = 2
    MaxSize = 6
    QInit = 4
    Shrink = 4
    MaxThreads = 7
    MaxZombies = 8
SPECIFICATION Spec
INVARIANTS HandlesOK VolumesOK EntriesOwned RingsOK HeapOK BitmapOK OwnMemory
           SleepersNeverFail
PROPERTIES OffsetsFollow IsFifo
CHECK_DEADLOCK FALSE
