------------------------------- MODULE Sched -------------------------------
(***************************************************************************)
(* The thread lists of the OS/161 kernel and the only ways code moves a    *)
(* thread between them: kern/thread/thread.c (mi_switch, thread_sleep,     *)
(* thread_wakeup, thread_wakeone) over kern/thread/scheduler.c.            *)
(*                                                                         *)
(* The machine has one CPU.  curthread is NULL while the scheduler runs    *)
(* (mi_switch sets it so), which is also the idle loop.  Code that runs    *)
(* with curspl > 0 cannot be interrupted; a step of a component that       *)
(* extends this module is what runs between two points at which an         *)
(* interrupt, or another thread, could be seen.                            *)
(***************************************************************************)
EXTENDS Integers, SequencesExt

CONSTANTS Thread,  \* the threads
          NULL     \* the null pointer

ASSUME NullNotThread == NULL \notin Thread
ASSUME ThreadFinite == IsFiniteSet(Thread)

VARIABLES curthread,    \* the running thread, NULL inside the scheduler
          runqueue,     \* scheduler.c: the run queue, oldest first
          sleepers,     \* thread.c: the array of sleeping threads
          t_sleepaddr,  \* what each thread sleeps on
          backspl,      \* the spl a thread is given back when mi_switch returns
          curspl        \* spl.c: 0 = interrupts on

schedVars == <<curthread, runqueue, sleepers, t_sleepaddr, backspl, curspl>>

SPL_HIGH == 15

----------------------------------------------------------------------------

\* No thread is runnable: scheduler() is looping in cpu_idle().
Idle == curthread = NULL /\ runqueue = << >>

\* Interrupts are delivered at spl 0 and by cpu_idle's interrupts_onoff.
InterruptsOn == (curthread # NULL /\ curspl = 0) \/ Idle

\* mi_switch(S_READY) as thread_yield calls it from the timer interrupt or from
\* a thread at spl 0, as far as the call of scheduler().
SwitchReady(t) ==
    /\ curthread' = NULL
    /\ runqueue' = Append(runqueue, t)
    /\ backspl' = [backspl EXCEPT ![t] = curspl]
    /\ curspl' = SPL_HIGH
    /\ UNCHANGED <<sleepers, t_sleepaddr>>

\* thread_sleep(addr) as far as the call of scheduler().
SwitchSleep(t, addr) ==
    /\ t_sleepaddr' = [t_sleepaddr EXCEPT ![t] = addr]
    /\ curthread' = NULL
    /\ sleepers' = Append(sleepers, t)
    /\ backspl' = [backspl EXCEPT ![t] = curspl]
    /\ UNCHANGED <<runqueue, curspl>>

\* scheduler() returns the head of the queue, md_switch resumes it; what is left
\* of its mi_switch, thread_sleep or thread_yield runs (the sleep address is
\* cleared, the spl restored).
Dispatch ==
    /\ curthread = NULL
    /\ runqueue # << >>
    /\ LET t == Head(runqueue)
       IN /\ curthread' = t
          /\ t_sleepaddr' = [t_sleepaddr EXCEPT ![t] = NULL]
          /\ curspl' = backspl[t]
    /\ runqueue' = Tail(runqueue)
    /\ UNCHANGED <<sleepers, backspl>>

\* Some thread sleeps on addr.  (thread_hassleepers)
HasSleepers(addr) == \E i \in DOMAIN sleepers : t_sleepaddr[sleepers[i]] = addr

\* i is the position at which the scan of thread_wakeup(addr) stops next.
FirstSleeper(addr, i) ==
    /\ i \in DOMAIN sleepers
    /\ t_sleepaddr[sleepers[i]] = addr
    /\ \A j \in 1..(i - 1) : t_sleepaddr[sleepers[j]] # addr

\* One iteration of the loop of thread_wakeup or thread_wakeone that finds a
\* sleeper: array_remove, then make_runnable.  The sleeper is removed by position
\* and keeps t_sleepaddr until it runs again.
WakeNext(addr) ==
    /\ \E i \in DOMAIN sleepers :
          /\ FirstSleeper(addr, i)
          /\ sleepers' = RemoveAt(sleepers, i)
          /\ runqueue' = Append(runqueue, sleepers[i])
    /\ UNCHANGED <<curthread, t_sleepaddr, backspl, curspl>>
=============================================================================
