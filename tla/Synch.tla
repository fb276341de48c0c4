------------------------------- MODULE Synch -------------------------------
(***************************************************************************)
(* kern/thread/synch.c with the assignment 1 solution: semaphores, locks   *)
(* and condition variables built on thread_sleep and thread_wakeup with    *)
(* interrupts off.                                                         *)
(*                                                                         *)
(* Every thread runs client code ("run") that calls the primitives in any  *)
(* order its interface (synch.h) allows.  pc names the point inside the    *)
(* primitive a thread has reached; spl and cvspl are the local variables   *)
(* that hold the spl to restore (cv_wait's own, and the other calls').     *)
(* Interrupt handlers may call V; the timer may preempt a thread at spl 0. *)
(***************************************************************************)
EXTENDS Sched

CONSTANTS Sem, Lock, CV,   \* the objects the threads share
          InitCount,       \* sem_create's initial_count, for each semaphore
          MaxCount         \* bound: V is not called at this count

ASSUME ObjectsDistinct ==
    /\ NULL \notin Sem \cup Lock \cup CV
    /\ Sem \cap Lock = {} /\ Sem \cap CV = {} /\ Lock \cap CV = {}
ASSUME CountsAreNat == MaxCount \in Nat /\ InitCount \in [Sem -> 0..MaxCount]

VARIABLES count,       \* sem->count
          lock_owner,  \* lock->lock_owner
          pc,          \* where in a primitive each thread is
          obj,         \* the semaphore or CV of the primitive it is in
          lk,          \* the lock of the primitive it is in
          spl,         \* the local spl of P, V, lock_* and cv_signal/broadcast
          cvspl,       \* the local spl of cv_wait
          held,        \* the locks its client code holds (acquire has returned)
          irqsem,      \* the semaphore an interrupt handler is V-ing, or NULL
          panicked     \* an assert or panic() was reached

vars == <<curthread, runqueue, sleepers, t_sleepaddr, backspl, curspl, count,
          lock_owner, pc, obj, lk, spl, cvspl, held, irqsem, panicked>>

Labels == {"run", "P_loop", "V_wake", "acq_loop", "rel_do", "rel_wake",
           "cvw_sleep", "cvw_woken", "cvw_exit", "sig_wake", "bcast_wake"}

Init ==
    /\ curthread = NULL
    /\ runqueue \in Bijection(1..Cardinality(Thread), Thread)
    /\ sleepers = << >>
    /\ t_sleepaddr = [t \in Thread |-> NULL]
    /\ backspl = [t \in Thread |-> 0]
    /\ curspl = SPL_HIGH
    /\ count = InitCount
    /\ lock_owner = [l \in Lock |-> NULL]
    /\ pc = [t \in Thread |-> "run"]
    /\ obj = [t \in Thread |-> NULL]
    /\ lk = [t \in Thread |-> NULL]
    /\ spl = [t \in Thread |-> 0]
    /\ cvspl = [t \in Thread |-> 0]
    /\ held = [t \in Thread |-> {}]
    /\ irqsem = NULL
    /\ panicked = FALSE

----------------------------------------------------------------------------
(* Stepping: t is at label from, and no interrupt handler is on top of it. *)

At(t, from) == curthread = t /\ pc[t] = from /\ irqsem = NULL

Goto(t, to) == pc' = [pc EXCEPT ![t] = to]

splhigh(t) == /\ spl' = [spl EXCEPT ![t] = curspl]
              /\ curspl' = SPL_HIGH

splx(t) == curspl' = spl[t] /\ UNCHANGED spl

\* What a step that calls no thread operation leaves alone, curspl apart.
ListsUnchanged == UNCHANGED <<curthread, runqueue, sleepers, t_sleepaddr, backspl>>

\* thread_sleep, whose mi_switch asserts curspl > 0.
thread_sleep(t, addr) ==
    /\ SwitchSleep(t, addr)
    /\ panicked' = (panicked \/ curspl = 0)

----------------------------------------------------------------------------
(* Semaphores *)

P_enter(t, s) ==
    /\ At(t, "run")
    /\ splhigh(t)
    /\ obj' = [obj EXCEPT ![t] = s]
    /\ Goto(t, "P_loop")
    /\ ListsUnchanged
    /\ UNCHANGED <<count, lock_owner, lk, held, cvspl, irqsem, panicked>>

P_sleep(t) ==
    /\ At(t, "P_loop")
    /\ count[obj[t]] = 0
    /\ thread_sleep(t, obj[t])
    /\ UNCHANGED <<count, lock_owner, pc, obj, lk, spl, cvspl, held, irqsem>>

P_take(t) ==
    /\ At(t, "P_loop")
    /\ count[obj[t]] # 0
    /\ count' = [count EXCEPT ![obj[t]] = @ - 1]
    /\ panicked' = (panicked \/ ~(count[obj[t]] > 0))
    /\ splx(t)
    /\ obj' = [obj EXCEPT ![t] = NULL]
    /\ Goto(t, "run")
    /\ ListsUnchanged
    /\ UNCHANGED <<lock_owner, lk, held, cvspl, irqsem>>

V_enter(t, s) ==
    /\ At(t, "run")
    /\ count[s] < MaxCount
    /\ splhigh(t)
    /\ count' = [count EXCEPT ![s] = @ + 1]
    /\ obj' = [obj EXCEPT ![t] = s]
    /\ Goto(t, "V_wake")
    /\ ListsUnchanged
    /\ UNCHANGED <<lock_owner, lk, held, cvspl, irqsem, panicked>>

V_exit(t) ==
    /\ At(t, "V_wake")
    /\ ~HasSleepers(obj[t])
    /\ splx(t)
    /\ obj' = [obj EXCEPT ![t] = NULL]
    /\ Goto(t, "run")
    /\ ListsUnchanged
    /\ UNCHANGED <<count, lock_owner, lk, held, cvspl, irqsem, panicked>>

----------------------------------------------------------------------------
(* Locks.  lock_acquire and lock_release return to cv_wait when obj is a CV. *)

\* lock_acquire up to its loop: acquiring a lock one holds is a panic.
EnterAcquire(t, l) ==
    /\ splhigh(t)
    /\ lk' = [lk EXCEPT ![t] = l]
    /\ panicked' = (panicked \/ lock_owner[l] = t)
    /\ Goto(t, "acq_loop")
    /\ ListsUnchanged

acquire_enter(t, l) ==
    /\ At(t, "run")
    /\ l \notin held[t]
    /\ EnterAcquire(t, l)
    /\ UNCHANGED <<count, lock_owner, obj, held, cvspl, irqsem>>

acquire_sleep(t) ==
    /\ At(t, "acq_loop")
    /\ lock_owner[lk[t]] # NULL
    /\ thread_sleep(t, lk[t])
    /\ UNCHANGED <<count, lock_owner, pc, obj, lk, spl, cvspl, held, irqsem>>

\* Mutant of acquire_take: the owner is not tested again after the sleep.
acquire_take_if(t) ==
    /\ At(t, "acq_loop")
    /\ lock_owner' = [lock_owner EXCEPT ![lk[t]] = t]
    /\ splx(t)
    /\ IF obj[t] \in CV
       THEN Goto(t, "cvw_exit") /\ UNCHANGED <<lk, held>>
       ELSE /\ Goto(t, "run")
            /\ lk' = [lk EXCEPT ![t] = NULL]
            /\ held' = [held EXCEPT ![t] = @ \cup {lk[t]}]
    /\ ListsUnchanged
    /\ UNCHANGED <<count, obj, cvspl, irqsem, panicked>>

acquire_take(t) ==
    /\ At(t, "acq_loop")
    /\ lock_owner[lk[t]] = NULL
    /\ lock_owner' = [lock_owner EXCEPT ![lk[t]] = t]
    /\ splx(t)
    /\ IF obj[t] \in CV
       THEN Goto(t, "cvw_exit") /\ UNCHANGED <<lk, held>>
       ELSE /\ Goto(t, "run")
            /\ lk' = [lk EXCEPT ![t] = NULL]
            /\ held' = [held EXCEPT ![t] = @ \cup {lk[t]}]
    /\ ListsUnchanged
    /\ UNCHANGED <<count, obj, cvspl, irqsem, panicked>>

\* lock_release's test of the owner, made before interrupts are turned off.
ReleaseCheck(t, l) ==
    /\ lk' = [lk EXCEPT ![t] = l]
    /\ panicked' = (panicked \/ lock_owner[l] # t)
    /\ Goto(t, "rel_do")
    /\ held' = [held EXCEPT ![t] = @ \ {l}]

release_check(t, l) ==
    /\ At(t, "run")
    /\ l \in held[t]
    /\ ReleaseCheck(t, l)
    /\ ListsUnchanged
    /\ UNCHANGED <<curspl, count, lock_owner, obj, spl, cvspl, irqsem>>

\* Mutant of release_do: the sleepers are not woken.
release_do_nowake(t) ==
    /\ At(t, "rel_do")
    /\ lock_owner' = [lock_owner EXCEPT ![lk[t]] = NULL]
    /\ IF obj[t] \in CV
       THEN Goto(t, "cvw_sleep") /\ UNCHANGED lk
       ELSE Goto(t, "run") /\ lk' = [lk EXCEPT ![t] = NULL]
    /\ ListsUnchanged
    /\ UNCHANGED <<curspl, count, obj, spl, cvspl, held, irqsem, panicked>>

release_do(t) ==
    /\ At(t, "rel_do")
    /\ splhigh(t)
    /\ lock_owner' = [lock_owner EXCEPT ![lk[t]] = NULL]
    /\ Goto(t, "rel_wake")
    /\ ListsUnchanged
    /\ UNCHANGED <<count, obj, lk, held, cvspl, irqsem, panicked>>

release_exit(t) ==
    /\ At(t, "rel_wake")
    /\ ~HasSleepers(lk[t])
    /\ splx(t)
    /\ IF obj[t] \in CV
       THEN Goto(t, "cvw_sleep") /\ UNCHANGED lk
       ELSE Goto(t, "run") /\ lk' = [lk EXCEPT ![t] = NULL]
    /\ ListsUnchanged
    /\ UNCHANGED <<count, lock_owner, obj, held, cvspl, irqsem, panicked>>

----------------------------------------------------------------------------
(* Condition variables *)

\* Mutant of cv_wait_enter: interrupts stay on.
cv_wait_enter_nospl(t, c, l) ==
    /\ At(t, "run")
    /\ l \in held[t]
    /\ cvspl' = [cvspl EXCEPT ![t] = curspl]
    /\ obj' = [obj EXCEPT ![t] = c]
    /\ ReleaseCheck(t, l)
    /\ ListsUnchanged
    /\ UNCHANGED <<curspl, count, lock_owner, spl, irqsem>>

\* cv_wait: splhigh, then into lock_release.
cv_wait_enter(t, c, l) ==
    /\ At(t, "run")
    /\ l \in held[t]
    /\ cvspl' = [cvspl EXCEPT ![t] = curspl]
    /\ curspl' = SPL_HIGH
    /\ obj' = [obj EXCEPT ![t] = c]
    /\ ReleaseCheck(t, l)
    /\ ListsUnchanged
    /\ UNCHANGED <<count, lock_owner, spl, irqsem>>

cv_wait_sleep(t) ==
    /\ At(t, "cvw_sleep")
    /\ thread_sleep(t, obj[t])
    /\ Goto(t, "cvw_woken")
    /\ UNCHANGED <<count, lock_owner, obj, lk, spl, cvspl, held, irqsem>>

cv_wait_reacquire(t) ==
    /\ At(t, "cvw_woken")
    /\ EnterAcquire(t, lk[t])
    /\ UNCHANGED <<count, lock_owner, obj, held, cvspl, irqsem>>

cv_wait_exit(t) ==
    /\ At(t, "cvw_exit")
    /\ curspl' = cvspl[t]
    /\ held' = [held EXCEPT ![t] = @ \cup {lk[t]}]
    /\ obj' = [obj EXCEPT ![t] = NULL]
    /\ lk' = [lk EXCEPT ![t] = NULL]
    /\ Goto(t, "run")
    /\ ListsUnchanged
    /\ UNCHANGED <<count, lock_owner, spl, cvspl, irqsem, panicked>>

\* cv_signal and cv_broadcast up to thread_wakeone and thread_wakeup.
NotifyEnter(t, c, l, to) ==
    /\ At(t, "run")
    /\ l \in held[t]
    /\ splhigh(t)
    /\ obj' = [obj EXCEPT ![t] = c]
    /\ panicked' = (panicked \/ lock_owner[l] # t)
    /\ Goto(t, to)
    /\ ListsUnchanged
    /\ UNCHANGED <<count, lock_owner, lk, held, cvspl, irqsem>>

cv_signal_enter(t, c, l) == NotifyEnter(t, c, l, "sig_wake")
cv_broadcast_enter(t, c, l) == NotifyEnter(t, c, l, "bcast_wake")

NotifyExit(t) ==
    /\ splx(t)
    /\ obj' = [obj EXCEPT ![t] = NULL]
    /\ Goto(t, "run")
    /\ UNCHANGED <<count, lock_owner, lk, held, cvspl, irqsem, panicked>>

\* thread_wakeone wakes the first sleeper and breaks; cv_signal returns.
cv_signal_wake(t) ==
    /\ At(t, "sig_wake")
    /\ \E i \in DOMAIN sleepers :
          /\ FirstSleeper(obj[t], i)
          /\ sleepers' = RemoveAt(sleepers, i)
          /\ runqueue' = Append(runqueue, sleepers[i])
    /\ NotifyExit(t)
    /\ UNCHANGED <<curthread, t_sleepaddr, backspl>>

cv_notify_exit(t) ==
    /\ At(t, "sig_wake") \/ At(t, "bcast_wake")
    /\ ~HasSleepers(obj[t])
    /\ NotifyExit(t)
    /\ ListsUnchanged

----------------------------------------------------------------------------
(* thread_wakeup's loop, in whichever primitive t is. *)

WakeAddr(t) == CASE pc[t] \in {"V_wake", "bcast_wake"} -> obj[t]
                 [] pc[t] = "rel_wake" -> lk[t]
                 [] OTHER -> NULL

thread_wakeup(t) ==
    /\ curthread = t /\ irqsem = NULL
    /\ pc[t] \in {"V_wake", "rel_wake", "bcast_wake"}
    /\ WakeNext(WakeAddr(t))
    /\ UNCHANGED <<count, lock_owner, pc, obj, lk, spl, cvspl, held, irqsem, panicked>>

----------------------------------------------------------------------------
(* Interrupts *)

\* hardclock calls thread_yield on top of a thread that runs at spl 0.
Preempt ==
    /\ curthread # NULL /\ curspl = 0 /\ irqsem = NULL
    /\ SwitchReady(curthread)
    /\ UNCHANGED <<count, lock_owner, pc, obj, lk, spl, cvspl, held, irqsem, panicked>>

\* hardclock in the idle loop: mi_switch returns at once, curthread being NULL.
IdleTick == Idle /\ irqsem = NULL /\ UNCHANGED vars

Schedule ==
    /\ irqsem = NULL
    /\ Dispatch
    /\ UNCHANGED <<count, lock_owner, pc, obj, lk, spl, cvspl, held, irqsem, panicked>>

\* A device interrupt handler calls V(s) (lhd_iodone, con_start, con_input).
IntrV_enter(s) ==
    /\ InterruptsOn /\ irqsem = NULL
    /\ count[s] < MaxCount
    /\ irqsem' = s
    /\ count' = [count EXCEPT ![s] = @ + 1]
    /\ curspl' = SPL_HIGH
    /\ ListsUnchanged
    /\ UNCHANGED <<lock_owner, pc, obj, lk, spl, cvspl, held, panicked>>

IntrV_wake ==
    /\ irqsem # NULL
    /\ WakeNext(irqsem)
    /\ UNCHANGED <<count, lock_owner, pc, obj, lk, spl, cvspl, held, irqsem, panicked>>

IntrV_exit ==
    /\ irqsem # NULL
    /\ ~HasSleepers(irqsem)
    /\ irqsem' = NULL
    /\ curspl' = IF curthread = NULL THEN SPL_HIGH ELSE 0
    /\ ListsUnchanged
    /\ UNCHANGED <<count, lock_owner, pc, obj, lk, spl, cvspl, held, panicked>>

----------------------------------------------------------------------------

\* The calls client code may make.
Call(t) ==
    \/ \E s \in Sem : P_enter(t, s) \/ V_enter(t, s)
    \/ \E l \in Lock : acquire_enter(t, l) \/ release_check(t, l)
    \/ \E c \in CV, l \in Lock : \/ cv_wait_enter(t, c, l)
                                 \/ cv_signal_enter(t, c, l)
                                 \/ cv_broadcast_enter(t, c, l)

\* The steps of a primitive that has been called.
Continue(t) ==
    \/ P_sleep(t) \/ P_take(t) \/ V_exit(t)
    \/ acquire_sleep(t) \/ acquire_take(t)
    \/ release_do(t) \/ release_exit(t)
    \/ cv_wait_sleep(t) \/ cv_wait_reacquire(t) \/ cv_wait_exit(t)
    \/ cv_signal_wake(t) \/ cv_notify_exit(t)
    \/ thread_wakeup(t)

Interrupt == \/ Preempt \/ IdleTick
             \/ \E s \in Sem : IntrV_enter(s)
             \/ IntrV_wake \/ IntrV_exit

Next ==
    /\ ~panicked
    /\ \/ \E t \in Thread : Call(t) \/ Continue(t)
       \/ Schedule
       \/ Interrupt

Spec == Init /\ [][Next]_vars

\* The CPU executes the scheduler, a started interrupt handler and the primitive
\* the running thread is in; a thread that is given the CPU again and again makes
\* progress (a timer period is many instructions); a pending timer interrupt is
\* taken when interrupts are on again and again.  Client code owes nothing.
Fairness ==
    /\ WF_vars(~panicked /\ Schedule)
    /\ WF_vars(~panicked /\ (IntrV_wake \/ IntrV_exit))
    /\ SF_vars(~panicked /\ Preempt)
    /\ \A t \in Thread : SF_vars(~panicked /\ Continue(t))

FairSpec == Spec /\ Fairness

----------------------------------------------------------------------------
(* Properties *)

Asleep(t) == \E i \in DOMAIN sleepers : sleepers[i] = t
Ready(t) == \E i \in DOMAIN runqueue : runqueue[i] = t

TypeOK ==
    /\ curthread \in Thread \cup {NULL}
    /\ runqueue \in Seq(Thread)
    /\ sleepers \in Seq(Thread)
    /\ t_sleepaddr \in [Thread -> Sem \cup Lock \cup CV \cup {NULL}]
    /\ backspl \in [Thread -> {0, SPL_HIGH}]
    /\ curspl \in {0, SPL_HIGH}
    /\ count \in [Sem -> 0..MaxCount]
    /\ lock_owner \in [Lock -> Thread \cup {NULL}]
    /\ pc \in [Thread -> Labels]
    /\ obj \in [Thread -> Sem \cup CV \cup {NULL}]
    /\ lk \in [Thread -> Lock \cup {NULL}]
    /\ spl \in [Thread -> {0, SPL_HIGH}]
    /\ cvspl \in [Thread -> {0, SPL_HIGH}]
    /\ held \in [Thread -> SUBSET Lock]
    /\ irqsem \in Sem \cup {NULL}
    /\ panicked \in BOOLEAN

\* synch.h: "Only one thread can hold the lock at the same time."  Client code
\* that lock_acquire or cv_wait has returned to is the owner of the lock until it
\* calls lock_release or cv_wait, whatever interrupts and other threads do.
MutualExclusion ==
    \A t \in Thread : \A l \in held[t] :
        lock_owner[l] = t /\ \A u \in Thread \ {t} : l \notin held[u]

\* No wakeup of a lock or semaphore is lost: a thread sleeping on a lock whose
\* owner is gone, or on a semaphore whose count is not 0, is about to be woken by
\* the loop that is running now.
NoLostWakeup ==
    \A i \in DOMAIN sleepers :
        LET a == t_sleepaddr[sleepers[i]]
            waking == (curthread # NULL /\ WakeAddr(curthread) = a) \/ irqsem = a
        IN /\ a \in Lock => lock_owner[a] # NULL \/ waking
           /\ a \in Sem => count[a] = 0 \/ waking

\* cv_wait gives up the lock and goes to sleep atomically: when a thread that
\* holds l is running, so that it could signal, no thread is between the
\* lock_release and the thread_sleep of a cv_wait on l, where the signal would
\* miss it.
NoMissedSignal ==
    \A t, u \in Thread :
        /\ t # u /\ curthread = u
        /\ pc[t] \in {"rel_do", "rel_wake", "cvw_sleep"} /\ obj[t] \in CV
        => lk[t] \notin held[u]

\* Every thread is in exactly one place: running, once in the run queue, or once
\* asleep, and asleep only at a point where its code waits for a wakeup of what
\* it sleeps on.
OnePlace ==
    /\ \A i, j \in DOMAIN runqueue : runqueue[i] = runqueue[j] => i = j
    /\ \A i, j \in DOMAIN sleepers : sleepers[i] = sleepers[j] => i = j
    /\ \A i \in DOMAIN runqueue, j \in DOMAIN sleepers : runqueue[i] # sleepers[j]
    /\ \A i \in DOMAIN runqueue : runqueue[i] # curthread
    /\ \A j \in DOMAIN sleepers :
          LET t == sleepers[j]
          IN /\ t # curthread
             /\ pc[t] \in {"P_loop", "acq_loop", "cvw_woken"}
             /\ t_sleepaddr[t] = IF pc[t] = "acq_loop" THEN lk[t] ELSE obj[t]
    /\ \A t \in Thread : curthread = t \/ Ready(t) \/ Asleep(t)

\* Client code that keeps to synch.h never reaches a panic() or a failing assert
\* of the primitives.
NoPanic == ~panicked

\* A lock that is free while a thread is trying to acquire it is taken.
FreeLockIsTaken ==
    \A l \in Lock :
        (lock_owner[l] = NULL /\ \E t \in Thread : pc[t] = "acq_loop" /\ lk[t] = l)
            ~> (lock_owner[l] # NULL)

----------------------------------------------------------------------------
(* Refinement of the atomic operations of synch.h. *)

\* thread_wakeup of a broadcast on c is in progress; the waiters it has not
\* reached yet are as good as woken.
Broadcasting(c) == curthread # NULL /\ pc[curthread] = "bcast_wake"
                                    /\ obj[curthread] = c

\* t waits on its CV from the moment its lock is free until it is woken.
WaitingOn(t) ==
    IF \/ pc[t] \in {"rel_wake", "cvw_sleep"} /\ obj[t] \in CV
       \/ pc[t] = "cvw_woken" /\ Asleep(t) /\ ~Broadcasting(obj[t])
    THEN obj[t] ELSE NULL

Atomic == INSTANCE SynchSpec
    WITH semcount <- count, holder <- lock_owner,
         waiting <- [t \in Thread |-> WaitingOn(t)]

\* "These operations must be atomic" (synch.h): the primitives as coded behave as
\* if every operation took effect in one step, cv_wait's release and sleep
\* included, although interrupts and other threads run between their steps.
AtomicOperations == Atomic!SynchSpecification

----------------------------------------------------------------------------
(* The inductive invariant behind the safety properties. *)

\* The spl at which the code of t runs where it stands.
Spl(t) == IF pc[t] = "run" \/ (pc[t] = "rel_do" /\ obj[t] = NULL)
          THEN 0 ELSE SPL_HIGH

\* What the local variables of t hold at each point: the nesting of the saved
\* spl values is what brings interrupts back on exactly when the outermost primitive
\* returns to client code.
FrameOK(t) ==
    LET incv == obj[t] \in CV
    IN /\ pc[t] = "run" => obj[t] = NULL /\ lk[t] = NULL
       /\ pc[t] \in {"P_loop", "V_wake"} =>
             obj[t] \in Sem /\ lk[t] = NULL /\ spl[t] = 0
       /\ pc[t] \in {"acq_loop", "rel_wake"} =>
             /\ obj[t] \in CV \cup {NULL} /\ lk[t] \in Lock
             /\ spl[t] = IF incv THEN SPL_HIGH ELSE 0
       /\ pc[t] = "rel_do" => obj[t] \in CV \cup {NULL} /\ lk[t] \in Lock
       /\ pc[t] \in {"cvw_sleep", "cvw_woken", "cvw_exit"} => incv /\ lk[t] \in Lock
       /\ pc[t] \in {"sig_wake", "bcast_wake"} => incv /\ lk[t] = NULL /\ spl[t] = 0
       /\ incv /\ pc[t] \notin {"sig_wake", "bcast_wake"} => cvspl[t] = 0

\* Interrupts are off wherever the code of the running thread means them to be,
\* and a thread that is not running left the CPU at spl 0 or in thread_sleep.
SplOK ==
    /\ curthread = NULL => curspl = SPL_HIGH
    /\ irqsem # NULL => curspl = SPL_HIGH
    /\ \A t \in Thread :
          IF curthread = t
          THEN IF irqsem = NULL THEN curspl = Spl(t) ELSE Spl(t) = 0
          ELSE /\ backspl[t] = Spl(t)
               /\ Spl(t) = 0 \/ pc[t] \in {"P_loop", "acq_loop", "cvw_woken"}

\* The owner of a lock is the thread whose client code holds it, or that is in
\* the part of cv_wait or lock_release that still does.
OwnerOK ==
    \A t \in Thread :
        /\ lk[t] \notin held[t]
        /\ \A l \in Lock :
              lock_owner[l] = t <=>
                  \/ l \in held[t]
                  \/ lk[t] = l /\ pc[t] \in {"rel_do", "cvw_exit"}

SynchInv ==
    /\ TypeOK
    /\ \A t \in Thread : FrameOK(t)
    /\ SplOK
    /\ OwnerOK
    /\ OnePlace
    /\ NoLostWakeup
    /\ NoPanic
=============================================================================
