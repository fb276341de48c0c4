------------------------------ MODULE Threads ------------------------------
(***************************************************************************)
(* The thread system: thread_fork, thread_exit, thread_yield, thread_sleep *)
(* and wakeups, the context switch with its reaping of zombies             *)
(* (exorcise), the timer interrupt, and panic.                             *)
(*                                                                         *)
(* A thread runs its function ("func") at spl 0 and may call any thread    *)
(* operation there.  stat says where each thread stands:                   *)
(*   none     not created            fork     inside thread_fork           *)
(*   fail     past the fail label of thread_fork                           *)
(*   new      made runnable, has never run                                 *)
(*   func     running its function   yield    inside thread_yield          *)
(*   intr     inside the thread_yield of a timer interrupt on top of it    *)
(*   sleep    inside thread_sleep    exit     in zombies                   *)
(*   freed    destroyed by exorcise                                        *)
(***************************************************************************)
EXTENDS Sched

CONSTANTS Boot,   \* the boot thread, which thread_bootstrap sets up
          Addr,   \* sleep addresses
          lbolt,  \* the one hardclock wakes once a second
          HZ      \* timer interrupts per second

ASSUME BootIsThread == Boot \in Thread
ASSUME AddrAssumption == NULL \notin Addr /\ lbolt \in Addr /\ HZ \in Nat \ {0}

VARIABLES zombies,        \* exited threads not freed yet
          numthreads,     \* thread.c's count of outstanding threads
          stat,           \* see above
          child,          \* the thread structure a thread_fork is filling in
          exiting,        \* the threads inside thread_exit, before its mi_switch
          t_cwd,          \* the threads that hold a reference to the cwd vnode
          cwdrefs,        \* that vnode's reference count
          in_interrupt,   \* the machine is in an interrupt handler
          pcb_ininterrupt,\* its value saved at a thread's last switch
          lbolt_counter,
          waking,         \* what a wakeup loop is scanning for, or NULL
          afterwake,      \* what follows that loop
          last,           \* the thread whose stack mi_switch still runs on
          halted,         \* panic() has dropped the other threads
          asserts         \* an assert of the thread system has failed

threadVars == <<zombies, numthreads, stat, child, exiting, t_cwd, cwdrefs, in_interrupt,
                pcb_ininterrupt, lbolt_counter, waking, afterwake, last, halted,
                asserts>>
vars == <<curthread, runqueue, sleepers, t_sleepaddr, backspl, curspl, zombies,
          numthreads, stat, child, exiting, t_cwd, cwdrefs, in_interrupt,
          pcb_ininterrupt, lbolt_counter, waking, afterwake, last, halted, asserts>>

\* scheduler_bootstrap and thread_bootstrap, and the boot thread given a current
\* directory before it forks.
Init ==
    /\ curthread = Boot
    /\ runqueue = << >> /\ sleepers = << >> /\ zombies = << >>
    /\ t_sleepaddr = [t \in Thread |-> NULL]
    /\ backspl = [t \in Thread |-> 0]
    /\ curspl = 0
    /\ numthreads = 1
    /\ stat = [t \in Thread |-> IF t = Boot THEN "func" ELSE "none"]
    /\ child = [t \in Thread |-> NULL]
    /\ exiting = {} /\ t_cwd = {Boot} /\ cwdrefs = 1
    /\ in_interrupt = FALSE
    /\ pcb_ininterrupt = [t \in Thread |-> FALSE]
    /\ lbolt_counter = 0
    /\ waking = NULL /\ afterwake = "return"
    /\ last = Boot
    /\ halted = FALSE /\ asserts = FALSE

\* t runs: no interrupt handler and no wakeup loop is on top of it.
Runs(t) == curthread = t /\ stat[t] = "func" /\ waking = NULL /\ ~halted

\* t runs its function, at spl 0.
InFunc(t) == Runs(t) /\ t \notin exiting

----------------------------------------------------------------------------
(* thread_fork *)

\* thread_fork up to splhigh: the structure, its stack and its pcb, and another
\* reference to the current directory.
thread_fork_prepare(t, u) ==
    /\ InFunc(t) /\ stat[u] = "none"
    /\ stat' = [stat EXCEPT ![u] = "fork"]
    /\ child' = [child EXCEPT ![t] = u]
    /\ IF t \in t_cwd
       THEN t_cwd' = t_cwd \cup {u} /\ cwdrefs' = cwdrefs + 1
       ELSE UNCHANGED <<t_cwd, cwdrefs>>
    /\ UNCHANGED schedVars
    /\ UNCHANGED <<zombies, numthreads, exiting, in_interrupt, pcb_ininterrupt,
                   lbolt_counter, waking, afterwake, last, halted, asserts>>

\* t is in thread_fork with a structure it fills in, or gives back.
Filling(t, where) == InFunc(t) /\ child[t] # NULL /\ stat[child[t]] = where

\* The part with interrupts off: preallocate, make_runnable, numthreads++.
thread_fork_commit(t) ==
    /\ Filling(t, "fork")
    /\ runqueue' = Append(runqueue, child[t])
    /\ numthreads' = numthreads + 1
    /\ stat' = [stat EXCEPT ![child[t]] = "new"]
    /\ child' = [child EXCEPT ![t] = NULL]
    /\ pcb_ininterrupt' = [pcb_ininterrupt EXCEPT ![child[t]] = FALSE]
    /\ UNCHANGED <<curthread, sleepers, t_sleepaddr, backspl, curspl>>
    /\ UNCHANGED <<zombies, exiting, t_cwd, cwdrefs, in_interrupt, lbolt_counter,
                   waking, afterwake, last, halted, asserts>>

\* Instead, a preallocation found no memory: the fail label, and interrupts on.
thread_fork_nomem(t) ==
    /\ Filling(t, "fork")
    /\ stat' = [stat EXCEPT ![child[t]] = "fail"]
    /\ UNCHANGED schedVars
    /\ UNCHANGED <<zombies, numthreads, child, exiting, t_cwd, cwdrefs,
                   in_interrupt, pcb_ininterrupt, lbolt_counter, waking, afterwake,
                   last, halted, asserts>>

\* Mutant of thread_fork_fail: the reference to the current directory is kept.
thread_fork_fail_keepcwd(t) ==
    /\ Filling(t, "fail")
    /\ stat' = [stat EXCEPT ![child[t]] = "none"]
    /\ t_cwd' = t_cwd \ {child[t]}
    /\ child' = [child EXCEPT ![t] = NULL]
    /\ UNCHANGED schedVars
    /\ UNCHANGED <<zombies, numthreads, exiting, cwdrefs, in_interrupt,
                   pcb_ininterrupt, lbolt_counter, waking, afterwake, last, halted,
                   asserts>>

\* The rest of the fail label: VOP_DECREF, before whose end the thread may have slept,
\* and everything is given back.
thread_fork_fail(t) ==
    /\ Filling(t, "fail")
    /\ stat' = [stat EXCEPT ![child[t]] = "none"]
    /\ IF child[t] \in t_cwd
       THEN t_cwd' = t_cwd \ {child[t]} /\ cwdrefs' = cwdrefs - 1
       ELSE UNCHANGED <<t_cwd, cwdrefs>>
    /\ child' = [child EXCEPT ![t] = NULL]
    /\ UNCHANGED schedVars
    /\ UNCHANGED <<zombies, numthreads, exiting, in_interrupt, pcb_ininterrupt,
                   lbolt_counter, waking, afterwake, last, halted, asserts>>

----------------------------------------------------------------------------
(* Giving up the CPU *)

\* The switch out of t, whose last frame stays in use until md_switch.
Leave(t, where) ==
    /\ stat' = [stat EXCEPT ![t] = where]
    /\ last' = t

thread_yield(t) ==
    /\ InFunc(t) /\ child[t] = NULL
    /\ SwitchReady(t)
    /\ Leave(t, "yield")
    /\ UNCHANGED <<zombies, numthreads, child, exiting, t_cwd, cwdrefs,
                   in_interrupt, pcb_ininterrupt, lbolt_counter, waking, afterwake,
                   halted, asserts>>

\* Where code that runs may sleep: in its function, and in the VOP_DECREF of the
\* current directory, for the lock of the count or in VOP_RECLAIM; the reference is
\* given back after that.
MaySleep(t) == IF t \in exiting THEN t \in t_cwd
               ELSE child[t] # NULL => stat[child[t]] = "fail"

\* A caller of thread_sleep turns interrupts off first (P, lock_acquire,
\* clocksleep; in thread_exit they are off); thread_sleep asserts that it is not in
\* an interrupt handler.
thread_sleep(t, a) ==
    /\ Runs(t) /\ MaySleep(t)
    /\ curthread' = NULL
    /\ sleepers' = Append(sleepers, t)
    /\ t_sleepaddr' = [t_sleepaddr EXCEPT ![t] = a]
    /\ backspl' = [backspl EXCEPT ![t] = curspl]
    /\ curspl' = SPL_HIGH
    /\ asserts' = (asserts \/ in_interrupt)
    /\ Leave(t, "sleep")
    /\ UNCHANGED <<runqueue, zombies, numthreads, child, exiting, t_cwd, cwdrefs,
                   in_interrupt, pcb_ininterrupt, lbolt_counter, waking, afterwake,
                   halted>>

\* thread_exit turns interrupts off, and drops the address space.
thread_exit(t) ==
    /\ InFunc(t) /\ child[t] = NULL
    /\ t # Boot
    /\ exiting' = exiting \cup {t}
    /\ curspl' = SPL_HIGH
    /\ UNCHANGED <<curthread, runqueue, sleepers, t_sleepaddr, backspl>>
    /\ UNCHANGED <<zombies, numthreads, stat, child, t_cwd, cwdrefs, in_interrupt,
                   pcb_ininterrupt, lbolt_counter, waking, afterwake, last, halted,
                   asserts>>

\* The end of thread_exit, without what it does to the thread that exits.
Exit(t) ==
    /\ Runs(t) /\ t \in exiting
    /\ exiting' = exiting \ {t}
    /\ IF t \in t_cwd
       THEN t_cwd' = t_cwd \ {t} /\ cwdrefs' = cwdrefs - 1
       ELSE UNCHANGED <<t_cwd, cwdrefs>>
    /\ asserts' = (asserts \/ ~(numthreads > 0))
    /\ numthreads' = numthreads - 1
    /\ curthread' = NULL
    /\ UNCHANGED <<runqueue, sleepers, t_sleepaddr, backspl, curspl, child,
                   in_interrupt, pcb_ininterrupt, lbolt_counter, waking, afterwake,
                   halted>>

\* Mutant of thread_exit_zombie: the thread is destroyed at once.
thread_exit_destroy(t) == Exit(t) /\ zombies' = zombies /\ Leave(t, "freed")

\* The end of VOP_DECREF and of thread_exit: the current directory goes now, the
\* thread structure and its stack when some other thread runs exorcise.
thread_exit_zombie(t) == Exit(t) /\ zombies' = Append(zombies, t) /\ Leave(t, "exit")

\* Mutant of exorcise: the loop stops one short before the array is emptied.
exorcise_short(next) ==
    /\ zombies' = << >>
    /\ stat' = [t \in Thread |-> IF t = next THEN "func"
                                 ELSE IF zombies # << >> /\ t \in ToSet(Front(zombies))
                                 THEN "freed" ELSE stat[t]]
    /\ asserts' = asserts

\* exorcise, by the thread that has just been switched to: every zombie is
\* destroyed, and none is the thread that runs or still has a cwd.
exorcise(next) ==
    /\ zombies' = << >>
    /\ stat' = [t \in Thread |-> IF t = next THEN "func"
                                 ELSE IF t \in ToSet(zombies) THEN "freed"
                                 ELSE stat[t]]
    /\ asserts' = (asserts \/ next \in ToSet(zombies)
                           \/ t_cwd \cap ToSet(zombies) # {})

\* Mutant of mi_switch: md_switch does not save and restore in_interrupt.
mi_switch_noflag ==
    /\ Dispatch /\ waking = NULL /\ ~halted
    /\ LET next == Head(runqueue)
       IN /\ in_interrupt' = IF stat[next] = "intr" THEN FALSE ELSE in_interrupt
          /\ last' = next
          /\ IF stat[next] = "new"
             THEN /\ stat' = [stat EXCEPT ![next] = "func"]
                  /\ UNCHANGED <<zombies, asserts>>
             ELSE exorcise(next)
    /\ UNCHANGED <<numthreads, child, exiting, t_cwd, cwdrefs, pcb_ininterrupt,
                   lbolt_counter, waking, afterwake, halted>>

\* The second half of mi_switch: scheduler() picks the next thread, md_switch saves
\* and restores in_interrupt, and the thread goes on from its own mi_switch.  A new
\* thread enters mi_threadstart instead and does not reach exorcise.  A thread that
\* was in an interrupt returns from it.
mi_switch ==
    /\ Dispatch /\ waking = NULL /\ ~halted
    /\ LET next == Head(runqueue)
       IN /\ pcb_ininterrupt' = [pcb_ininterrupt EXCEPT ![last] = in_interrupt]
          /\ in_interrupt' = IF stat[next] = "intr" THEN FALSE
                             ELSE IF next = last THEN in_interrupt
                             ELSE pcb_ininterrupt[next]
          /\ last' = next
          /\ IF stat[next] = "new"
             THEN /\ stat' = [stat EXCEPT ![next] = "func"]
                  /\ UNCHANGED <<zombies, asserts>>
             ELSE exorcise(next)
    /\ UNCHANGED <<numthreads, child, exiting, t_cwd, cwdrefs, lbolt_counter,
                   waking, afterwake, halted>>

----------------------------------------------------------------------------
(* Wakeups *)

StartWake(a, then) == waking' = a /\ afterwake' = then

\* thread_wakeup(a) and thread_wakeone(a) called by a thread with interrupts off.
thread_wakeup(t, a) ==
    /\ Runs(t)
    /\ StartWake(a, "return")
    /\ curspl' = SPL_HIGH
    /\ UNCHANGED <<curthread, runqueue, sleepers, t_sleepaddr, backspl>>
    /\ UNCHANGED <<zombies, numthreads, stat, child, exiting, t_cwd, cwdrefs,
                   in_interrupt, pcb_ininterrupt, lbolt_counter, last, halted,
                   asserts>>

thread_wakeone(t, a) ==
    /\ Runs(t)
    /\ IF HasSleepers(a) THEN WakeNext(a) ELSE UNCHANGED schedVars
    /\ UNCHANGED threadVars

\* Mutant of wakeup_iteration: the sleeper stays in the array.
wakeup_iteration_keep ==
    /\ waking # NULL
    /\ \E i \in DOMAIN sleepers : FirstSleeper(waking, i)
                                  /\ runqueue' = Append(runqueue, sleepers[i])
    /\ UNCHANGED <<curthread, sleepers, t_sleepaddr, backspl, curspl>>
    /\ UNCHANGED threadVars

\* One iteration of the loop.
wakeup_iteration ==
    /\ waking # NULL
    /\ WakeNext(waking)
    /\ UNCHANGED threadVars

\* The loop ends, and the spl is restored.  In an interrupt handler the handler
\* returns, or, in hardclock, goes on to thread_yield; in the idle loop both leave
\* the scheduler running.
wakeup_done ==
    /\ waking # NULL /\ ~HasSleepers(waking)
    /\ waking' = NULL /\ afterwake' = "return"
    /\ IF afterwake = "yield" /\ curthread # NULL
       THEN /\ curthread' = NULL
            /\ runqueue' = Append(runqueue, curthread)
            /\ backspl' = [backspl EXCEPT ![curthread] = 0]
            /\ Leave(curthread, "intr")
            /\ UNCHANGED <<curspl, in_interrupt>>
       ELSE /\ curspl' = IF curthread = NULL \/ curthread \in exiting THEN SPL_HIGH ELSE 0
            /\ in_interrupt' = FALSE
            /\ UNCHANGED <<curthread, runqueue, backspl, stat, last>>
    /\ UNCHANGED <<sleepers, t_sleepaddr, zombies, numthreads, child, exiting,
                   t_cwd, cwdrefs, pcb_ininterrupt, lbolt_counter, halted, asserts>>

----------------------------------------------------------------------------
(* Interrupts *)

CanInterrupt == InterruptsOn /\ waking = NULL /\ ~halted

\* Mutant of hardclock: it does not end in thread_yield.
hardclock_noyield(t) ==
    /\ CanInterrupt /\ curthread = t
    /\ lbolt_counter' = (lbolt_counter + 1) % HZ
    /\ IF lbolt_counter + 1 >= HZ
       THEN StartWake(lbolt, "return") /\ in_interrupt' = TRUE /\ curspl' = SPL_HIGH
       ELSE UNCHANGED <<waking, afterwake, in_interrupt, curspl>>
    /\ UNCHANGED <<curthread, runqueue, sleepers, t_sleepaddr, backspl>>
    /\ UNCHANGED <<zombies, numthreads, stat, child, exiting, t_cwd, cwdrefs,
                   pcb_ininterrupt, last, halted, asserts>>

\* hardclock on top of a running thread: every HZ ticks lbolt is woken, then the
\* thread yields inside the interrupt.
hardclock(t) ==
    /\ CanInterrupt /\ curthread = t
    /\ IF lbolt_counter + 1 >= HZ
       THEN /\ lbolt_counter' = 0
            /\ in_interrupt' = TRUE
            /\ StartWake(lbolt, "yield")
            /\ curspl' = SPL_HIGH
            /\ UNCHANGED <<curthread, runqueue, sleepers, t_sleepaddr, backspl,
                           stat, last>>
       ELSE /\ lbolt_counter' = lbolt_counter + 1
            /\ in_interrupt' = TRUE
            /\ SwitchReady(t)
            /\ Leave(t, "intr")
            /\ UNCHANGED <<waking, afterwake>>
    /\ UNCHANGED <<zombies, numthreads, child, exiting, t_cwd, cwdrefs,
                   pcb_ininterrupt, halted, asserts>>

\* Mutant of hardclock_idle: an idle tick counts, but wakes nobody.
hardclock_idle_nowake ==
    /\ CanInterrupt /\ Idle
    /\ lbolt_counter' = (lbolt_counter + 1) % HZ
    /\ UNCHANGED schedVars
    /\ UNCHANGED <<zombies, numthreads, stat, child, exiting, t_cwd, cwdrefs,
                   in_interrupt, pcb_ininterrupt, waking, afterwake, last, halted,
                   asserts>>

\* hardclock in the idle loop: its thread_yield finds curthread NULL and returns.
hardclock_idle ==
    /\ CanInterrupt /\ Idle
    /\ IF lbolt_counter + 1 >= HZ
       THEN lbolt_counter' = 0 /\ in_interrupt' = TRUE /\ StartWake(lbolt, "yield")
       ELSE /\ lbolt_counter' = lbolt_counter + 1
            /\ UNCHANGED <<in_interrupt, waking, afterwake>>
    /\ UNCHANGED schedVars
    /\ UNCHANGED <<zombies, numthreads, stat, child, exiting, t_cwd, cwdrefs,
                   pcb_ininterrupt, last, halted, asserts>>

\* A device interrupt wakes the sleepers of an address.
device_interrupt(a) ==
    /\ CanInterrupt
    /\ in_interrupt' = TRUE
    /\ StartWake(a, "return")
    /\ curspl' = SPL_HIGH
    /\ UNCHANGED <<curthread, runqueue, sleepers, t_sleepaddr, backspl>>
    /\ UNCHANGED <<zombies, numthreads, stat, child, exiting, t_cwd, cwdrefs,
                   pcb_ininterrupt, lbolt_counter, last, halted, asserts>>

\* panic: thread_panic empties sleepers and the run queue, dropping the threads on
\* the floor; the panicking thread goes on with interrupts off.
thread_panic(t) ==
    /\ Runs(t)
    /\ halted' = TRUE
    /\ curspl' = SPL_HIGH
    /\ sleepers' = << >> /\ runqueue' = << >>
    /\ UNCHANGED <<curthread, t_sleepaddr, backspl>>
    /\ UNCHANGED <<zombies, numthreads, stat, child, exiting, t_cwd, cwdrefs,
                   in_interrupt, pcb_ininterrupt, lbolt_counter, waking, afterwake,
                   last, asserts>>

\* The halted system stays so.
Halted == halted /\ UNCHANGED vars

----------------------------------------------------------------------------

ForkStep(t) == \/ child[t] = NULL /\ \E u \in Thread : thread_fork_prepare(t, u)
               \/ thread_fork_commit(t) \/ thread_fork_nomem(t) \/ thread_fork_fail(t)

FuncStep(t) ==
    \/ ForkStep(t) \/ thread_yield(t) \/ thread_exit(t) \/ thread_exit_zombie(t)
    \/ \E a \in Addr : thread_sleep(t, a) \/ thread_wakeup(t, a) \/ thread_wakeone(t, a)
    \/ thread_panic(t)

Clock == hardclock_idle \/ \E t \in Thread : hardclock(t)
WakeLoop == wakeup_iteration \/ wakeup_done

Next ==
    /\ ~asserts
    /\ \/ \E t \in Thread : FuncStep(t)
       \/ mi_switch \/ WakeLoop \/ Clock \/ Halted
       \/ \E a \in Addr : device_interrupt(a)

Spec == Init /\ [][Next]_vars

\* The CPU runs the scheduler and wakeup loops; the timer keeps interrupting,
\* whatever short time interrupts are off in between; and a VOP_DECREF, which nothing
\* interrupts, sleeps only so often (for the lock of the count, and for each transfer
\* of VOP_RECLAIM) before thread_exit goes on, if the thread is woken each time.
FairSpec == /\ Spec /\ WF_vars(mi_switch) /\ WF_vars(WakeLoop) /\ SF_vars(Clock)
            /\ \A t \in Thread : SF_vars(thread_exit_zombie(t))

----------------------------------------------------------------------------
(* Properties *)

Live == {t \in Thread : stat[t] \in {"new", "func", "yield", "intr", "sleep"}}

TypeOK ==
    /\ curthread \in Thread \cup {NULL}
    /\ runqueue \in Seq(Thread) /\ sleepers \in Seq(Thread) /\ zombies \in Seq(Thread)
    /\ t_sleepaddr \in [Thread -> Addr \cup {NULL}]
    /\ curspl \in {0, SPL_HIGH} /\ backspl \in [Thread -> {0, SPL_HIGH}]
    /\ numthreads \in Nat /\ cwdrefs \in Nat
    /\ exiting \subseteq Thread /\ t_cwd \subseteq Thread
    /\ waking \in Addr \cup {NULL}
    /\ lbolt_counter \in 0..(HZ - 1)

\* No thread is lost, listed twice, or listed after it was freed: the run queue,
\* the sleepers, the zombies and curthread hold each created thread exactly once,
\* on the list its last operation put it on.
OneList ==
    ~halted =>
      \A t \in Thread :
        LET inr == {i \in DOMAIN runqueue : runqueue[i] = t}
            ins == {i \in DOMAIN sleepers : sleepers[i] = t}
            inz == {i \in DOMAIN zombies : zombies[i] = t}
            places == Cardinality(inr) + Cardinality(ins) + Cardinality(inz)
                      + (IF curthread = t THEN 1 ELSE 0)
        IN CASE stat[t] \in {"none", "freed", "fork", "fail"} -> places = 0
             [] stat[t] = "func" -> curthread = t /\ places = 1
             [] stat[t] \in {"new", "yield", "intr"} -> places = 1 /\ inr # {}
             [] stat[t] = "sleep" -> places = 1 /\ inr \cup ins # {}
             [] stat[t] = "exit" -> places = 1 /\ inz # {}

\* A stack is not freed while code runs on it, the scheduler's idle loop on the
\* stack of a thread that has just exited included.
StackInUse == stat[last] # "freed" /\ (curthread # NULL => last = curthread)

\* The counts keep what they count through forks that fail half way and exits
\* that sleep before they have counted themselves out: numthreads, on which the
\* sizes thread_fork preallocates depend, the threads that are on a list or may
\* still be put on one; and the references of the cwd vnode the threads that have
\* not given theirs back, of which no zombie is one.
CountsOK ==
    /\ TypeOK
    /\ numthreads = Cardinality(Live)
    /\ cwdrefs = Cardinality(t_cwd) /\ t_cwd \cap ToSet(zombies) = {}

\* The global in_interrupt is what the running thread's own nesting makes it,
\* although a thread can be switched out in one handler and another in.
InterruptFlagOK ==
    /\ ~asserts
    /\ curthread # NULL /\ waking = NULL => ~in_interrupt

\* A thread in the run queue runs: the queue is first in, first out.
ReadyRuns == \A t \in Thread :
    (~halted /\ \E i \in DOMAIN runqueue : runqueue[i] = t) ~> (curthread = t \/ halted)

\* A zombie is reaped as long as threads keep running, although a new thread's
\* first switch skips exorcise.  (While all threads sleep it stays.)
ZombiesReaped ==
    []<>(curthread # NULL \/ halted) =>
        \A t \in Thread : stat[t] = "exit" ~> (stat[t] = "freed" \/ halted)

\* clocksleep ends: a thread sleeping on lbolt is made runnable again.
LboltWakes == \A t \in Thread :
    (stat[t] = "sleep" /\ t_sleepaddr[t] = lbolt) ~> (stat[t] # "sleep" \/ halted)
=============================================================================
