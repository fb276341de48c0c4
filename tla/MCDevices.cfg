CONSTANTS
    t1 = t1
    t2 = t2
    Thread = {t1, t2}
    NULL = NULL
    Subjects = {"disk", "console"}
    a = a
    b = b
    Data = {a, b}
    NSect = 2
    SectSize = 2
    MaxTries = 1
    RawRequest <- MCRawRequest
    Boot = t1
    DelayMax = 1
    MaxCalls = 1
    MaxPolled = 1
    MaxKeys = 2
    Text <- MCText
    ReadSize = {2}
SPECIFICATION FairSpec
INVARIANTS DiskInv OutputExact InputOrder
PROPERTIES DiskAtomic DiskFreed ConsoleWritable
CHECK_DEADLOCK FALSE
