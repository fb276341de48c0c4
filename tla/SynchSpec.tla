----------------------------- MODULE SynchSpec -----------------------------
(***************************************************************************)
(* What synch.h promises: semaphores, locks and condition variables whose  *)
(* operations are atomic.  Nothing here says how a thread waits.           *)
(***************************************************************************)
EXTENDS Integers

CONSTANTS Thread, Sem, Lock, CV, NULL, InitCount, MaxCount

VARIABLES semcount,  \* the value of each semaphore
          holder,    \* the thread that holds each lock, or NULL
          waiting    \* the CV each thread waits on, not yet signalled, or NULL

specVars == <<semcount, holder, waiting>>

SpecInit ==
    /\ semcount = InitCount
    /\ holder = [l \in Lock |-> NULL]
    /\ waiting = [t \in Thread |-> NULL]

\* "decrement count.  If the count is 0, block until the count is 1 again"
Down(s) ==
    /\ semcount[s] > 0
    /\ semcount' = [semcount EXCEPT ![s] = @ - 1]
    /\ UNCHANGED <<holder, waiting>>

Up(s) ==
    /\ semcount[s] < MaxCount
    /\ semcount' = [semcount EXCEPT ![s] = @ + 1]
    /\ UNCHANGED <<holder, waiting>>

\* "Only one thread can hold the lock at the same time."  A thread that waits on
\* a condition variable acquires nothing.
Acquire(t, l) ==
    /\ holder[l] = NULL /\ waiting[t] = NULL
    /\ holder' = [holder EXCEPT ![l] = t]
    /\ UNCHANGED <<semcount, waiting>>

\* "Only the thread holding the lock may do this."
Release(t, l) ==
    /\ holder[l] = t
    /\ holder' = [holder EXCEPT ![l] = NULL]
    /\ UNCHANGED <<semcount, waiting>>

\* "Release the supplied lock, go to sleep", in one step.
Wait(t, c, l) ==
    /\ holder[l] = t /\ waiting[t] = NULL
    /\ holder' = [holder EXCEPT ![l] = NULL]
    /\ waiting' = [waiting EXCEPT ![t] = c]
    /\ UNCHANGED semcount

\* "Wake up one thread that's sleeping on this CV", by a thread that holds a lock.
Signal(t, c) ==
    /\ \E l \in Lock : holder[l] = t
    /\ \E u \in Thread \ {t} : /\ waiting[u] = c
                               /\ waiting' = [waiting EXCEPT ![u] = NULL]
    /\ UNCHANGED <<semcount, holder>>

\* "Wake up all threads sleeping on this CV."
Broadcast(t, c) ==
    /\ \E l \in Lock : holder[l] = t
    /\ waiting' = [u \in Thread |-> IF waiting[u] = c THEN NULL ELSE waiting[u]]
    /\ UNCHANGED <<semcount, holder>>

SpecNext ==
    \/ \E s \in Sem : Down(s) \/ Up(s)
    \/ \E t \in Thread, l \in Lock : Acquire(t, l) \/ Release(t, l)
    \/ \E t \in Thread, c \in CV, l \in Lock : Wait(t, c, l)
    \/ \E t \in Thread, c \in CV : Signal(t, c) \/ Broadcast(t, c)

SynchSpecification == SpecInit /\ [][SpecNext]_specVars
=============================================================================
