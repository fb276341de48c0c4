CONSTANTS
    t1 = t1
    t2 = t2
    t3 = t3
    Thread = {t1, t2, t3}
    NULL = NULL
    s1 = s1
    l1 = l1
    l2 = l2
    c1 = c1
    Sem = {s1}
    Lock = {l1}
    CV = {c1}
    MaxCount = 2
    InitialCount = 0
    InitCount <- MCInitCount
SPECIFICATION FairSpec
INVARIANTS MutualExclusion NoMissedSignal SynchInv
PROPERTIES AtomicOperations FreeLockIsTaken
