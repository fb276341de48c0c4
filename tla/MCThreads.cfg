CONSTANTS
    t0 = t0
    t1 = t1
    t2 = t2
    Thread = {t0, t1, t2}
    Boot = t0
    NULL = NULL
    lb = lb
    a1 = a1
    Addr = {lb, a1}
    lbolt = lb
    HZ = 2
SPECIFICATION FairSpec
INVARIANTS OneList StackInUse CountsOK InterruptFlagOK
PROPERTIES ReadyRuns ZombiesReaped LboltWakes
