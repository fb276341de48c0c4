---------------------------- MODULE ThreadSpace ----------------------------
(***************************************************************************)
(* The space the thread system preallocates, so that a context switch or a *)
(* wakeup never has to allocate memory: array_preallocate of sleepers and  *)
(* zombies and scheduler_preallocate in thread_fork (thread.c), over the   *)
(* growing and shrinking of kern/lib/array.c and kern/lib/queue.c.         *)
(*                                                                         *)
(* Threads have no identity here: the run queue records for each entry     *)
(* whether it is a thread that has never run ("new", whose first switch    *)
(* does not reach exorcise), one that has ("old"), or the boot thread,     *)
(* which runs the menu and does not exit; sleepers and zombies are counts. *)
(* kmalloc may fail whenever it is called.                                 *)
(***************************************************************************)
EXTENDS Kernel, Integers, Sequences

CONSTANTS QInit,      \* q_create's size in scheduler_bootstrap (32 in the code)
          Shrink,     \* array_setsize(0) frees an array larger than this (16)
          MaxThreads, \* bound on numthreads
          MaxZombies  \* bound on the zombies that wait for exorcise

ASSUME SpaceAssumption == /\ QInit \in Nat \ {0} /\ Shrink \in Nat
                          /\ MaxThreads \in Nat /\ MaxZombies \in Nat

VARIABLES numthreads,
          running,    \* the kind of thread that runs, "none" in the scheduler
          queue,      \* the run queue, as "new" and "old"
          q_size,     \* slots of its ring, one of which is never used
          nsleep, sleep_max,    \* sleepers: num and max
          bootsleeps,           \* the boot thread is one of them
          nzomb, zomb_max,      \* zombies: num and max
          failed      \* the lists that an insertion outside thread_fork failed on

space_vars == <<numthreads, running, queue, q_size, nsleep, sleep_max, bootsleeps,
                nzomb, zomb_max, failed>>

SpaceInit ==
    /\ numthreads = 1 /\ running = "boot"
    /\ queue = << >> /\ q_size = QInit
    /\ nsleep = 0 /\ sleep_max = 0 /\ bootsleeps = FALSE
    /\ nzomb = 0 /\ zomb_max = 0
    /\ failed = {}

----------------------------------------------------------------------------
(* array.c and queue.c *)

\* array_preallocate's loop: newmax = (newmax + 1) * 2 until it is large enough.
GrowArray(max, n) ==
    LET grown[m \in Nat] == IF n <= m THEN m ELSE grown[(m + 1) * 2]
    IN grown[max]

\* array_preallocate always allocates a new vector.
array_preallocate(max, n) == GrowArray(max, n)

\* array_setsize: the new max, when it does not have to allocate.
array_setsize(max, n) == IF n = 0 /\ max > Shrink THEN 0 ELSE max

\* q_grow's loop: double until it is large enough.
GrowQueue(size, n) ==
    LET grown[m \in Nat \ {0}] == IF n <= m THEN m ELSE grown[m * 2]
    IN grown[size]

scheduler_preallocate(n) == GrowQueue(q_size, n)

\* q_addtail must grow the ring when nextwrite would meet nextread.
q_full(len) == len = q_size - 1

----------------------------------------------------------------------------
(* make_runnable and array_add, as mi_switch and thread_wakeup call them *)

\* make_runnable appends; when the ring is full it grows or, without memory, fails.
make_runnable(q, kind) ==
    \/ /\ ~q_full(Len(q))
       /\ queue' = Append(q, kind)
       /\ UNCHANGED <<q_size, failed>>
    \/ /\ q_full(Len(q))
       /\ queue' = Append(q, kind)
       /\ q_size' = GrowQueue(q_size, q_size + 1)
       /\ UNCHANGED failed
    \/ /\ q_full(Len(q))
       /\ failed' = failed \cup {"runqueue"}
       /\ UNCHANGED <<queue, q_size>>

\* array_add to an array with num elements: the max afterwards.
CanAdd(num, max) == num + 1 <= max
Added(num, max) == array_preallocate(max, num + 1)

----------------------------------------------------------------------------
(* The thread operations *)

Ok == failed = {}

\* Mutant of thread_fork: sleepers is preallocated for the other threads only.
thread_fork_short ==
    /\ Ok /\ running # "none" /\ numthreads < MaxThreads
    /\ sleep_max' = array_preallocate(sleep_max, numthreads - 1)
    /\ zomb_max' = array_preallocate(zomb_max, numthreads + 1)
    /\ q_size' = scheduler_preallocate(numthreads + 1)
    /\ queue' = Append(queue, "new")
    /\ numthreads' = numthreads + 1
    /\ UNCHANGED <<running, nsleep, bootsleeps, nzomb, failed>>

\* thread_fork with interrupts off.  (Where memory runs out it returns ENOMEM and
\* changes no count.)  The ring always has room here for the new thread.
thread_fork ==
    /\ Ok /\ running # "none" /\ numthreads < MaxThreads
    /\ sleep_max' = array_preallocate(sleep_max, numthreads + 1)
    /\ zomb_max' = array_preallocate(zomb_max, numthreads + 1)
    /\ q_size' = scheduler_preallocate(numthreads + 1)
    /\ queue' = Append(queue, "new")
    /\ numthreads' = numthreads + 1
    /\ UNCHANGED <<running, nsleep, bootsleeps, nzomb, failed>>

\* mi_switch(S_READY) up to scheduler().
thread_yield ==
    /\ Ok /\ running # "none"
    /\ make_runnable(queue, running)
    /\ running' = "none"
    /\ UNCHANGED <<numthreads, nsleep, sleep_max, bootsleeps, nzomb, zomb_max>>

\* mi_switch(S_SLEEP).
thread_sleep ==
    /\ Ok /\ running # "none"
    /\ running' = "none"
    /\ bootsleeps' = (bootsleeps \/ running = "boot")
    /\ \/ /\ nsleep' = nsleep + 1
          /\ sleep_max' = Added(nsleep, sleep_max)
          /\ UNCHANGED failed
       \/ /\ ~CanAdd(nsleep, sleep_max)
          /\ failed' = failed \cup {"sleepers"}
          /\ UNCHANGED <<nsleep, sleep_max>>
    /\ UNCHANGED <<numthreads, queue, q_size, nzomb, zomb_max>>

\* thread_exit and mi_switch(S_ZOMB).
thread_exit ==
    /\ Ok /\ running = "old" /\ nzomb < MaxZombies
    /\ numthreads' = numthreads - 1
    /\ running' = "none"
    /\ \/ /\ nzomb' = nzomb + 1
          /\ zomb_max' = Added(nzomb, zomb_max)
          /\ UNCHANGED failed
       \/ /\ ~CanAdd(nzomb, zomb_max)
          /\ failed' = failed \cup {"zombies"}
          /\ UNCHANGED <<nzomb, zomb_max>>
    /\ UNCHANGED <<queue, q_size, nsleep, sleep_max, bootsleeps>>

\* scheduler() and the rest of mi_switch: a thread that has run before reaches
\* exorcise, whose array_setsize(zombies, 0) may free the vector.
scheduler ==
    /\ Ok /\ running = "none" /\ queue # << >>
    /\ running' = IF Head(queue) = "boot" THEN "boot" ELSE "old"
    /\ queue' = Tail(queue)
    /\ IF Head(queue) = "new"
       THEN UNCHANGED <<nzomb, zomb_max>>
       ELSE nzomb' = 0 /\ zomb_max' = array_setsize(zomb_max, 0)
    /\ UNCHANGED <<numthreads, q_size, nsleep, sleep_max, bootsleeps, failed>>

\* One iteration of thread_wakeup, from a thread or an interrupt.
thread_wakeup ==
    /\ Ok /\ nsleep > 0
    /\ nsleep' = nsleep - 1
    /\ \/ /\ bootsleeps /\ bootsleeps' = FALSE
          /\ make_runnable(queue, "boot")
       \/ /\ nsleep > (IF bootsleeps THEN 1 ELSE 0)
          /\ make_runnable(queue, "old")
          /\ UNCHANGED bootsleeps
    /\ UNCHANGED <<numthreads, running, sleep_max, nzomb, zomb_max>>

\* The idle loop and a failed system go on as they are.
Wait == (~Ok \/ (running = "none" /\ queue = << >>)) /\ UNCHANGED space_vars

SpaceNext == thread_fork \/ thread_yield \/ thread_sleep \/ thread_exit \/ scheduler
             \/ thread_wakeup \/ Wait

SpaceBehaviour == SpaceInit /\ [][SpaceNext]_space_vars

----------------------------------------------------------------------------
(* Properties *)

\* mi_switch: "Because we preallocate sleepers[] during thread_fork, this should
\* never fail."  Going to sleep never runs out of memory once a thread has been
\* forked; only the boot thread, sleeping before that, has nothing preallocated.
\* For that numthreads has to count the threads that run, are ready or sleep,
\* and the ring and the arrays to hold them.
SleepersNeverFail ==
    subject = "threadspace" =>
      /\ "sleepers" \in failed => sleep_max = 0 /\ numthreads = 1
      /\ Ok => numthreads = Len(queue) + nsleep + (IF running = "none" THEN 0 ELSE 1)
      /\ Len(queue) < q_size /\ nsleep <= sleep_max /\ nzomb <= zomb_max

\* scheduler_preallocate: "This is done only to ensure that make_runnable() does
\* not fail".
RunqueueNeverFails == "runqueue" \notin failed
=============================================================================
