--------------------------- MODULE ThreadsProofs ---------------------------
(***************************************************************************)
(* Machine-checked proofs about Threads, for any number of threads and     *)
(* sleep addresses and any timer rate.                                     *)
(***************************************************************************)
EXTENDS Threads, ListLemmas

----------------------------------------------------------------------------
(* The inductive invariant *)

Stats == {"none", "fork", "fail", "new", "func", "yield", "intr", "sleep", "exit", "freed"}

\* TypeOK without the two counts, and the variables it leaves out.
Types ==
    /\ curthread \in Thread \cup {NULL}
    /\ runqueue \in Seq(Thread) /\ sleepers \in Seq(Thread) /\ zombies \in Seq(Thread)
    /\ t_sleepaddr \in [Thread -> Addr \cup {NULL}]
    /\ curspl \in {0, SPL_HIGH} /\ backspl \in [Thread -> {0, SPL_HIGH}]
    /\ exiting \subseteq Thread /\ t_cwd \subseteq Thread
    /\ waking \in Addr \cup {NULL}
    /\ lbolt_counter \in 0..(HZ - 1)
    /\ stat \in [Thread -> Stats]
    /\ child \in [Thread -> Thread \cup {NULL}]
    /\ last \in Thread
    /\ in_interrupt \in BOOLEAN /\ pcb_ininterrupt \in [Thread -> BOOLEAN]
    /\ halted \in BOOLEAN /\ asserts \in BOOLEAN

\* The thread that runs is the one in its function, and mi_switch is on the stack
\* of the thread that ran last.
Running ==
    /\ \A t \in Thread : curthread = t <=> stat[t] = "func"
    /\ curthread # NULL => last = curthread
    /\ stat[last] # "freed"
    /\ halted => waking = NULL

\* Who is on which list: no list has a thread twice, no two lists share one, and
\* each thread stands on a list its state allows.
Places ==
    ~halted =>
      /\ IsInjective(runqueue) /\ IsInjective(sleepers)
      /\ \A t \in Thread :
           /\ t \in ToSet(runqueue) =>
                stat[t] \in {"new", "yield", "intr", "sleep"} /\ t \notin ToSet(sleepers)
           /\ t \in ToSet(sleepers) => stat[t] = "sleep"
           /\ stat[t] \in {"new", "yield", "intr"} => t \in ToSet(runqueue)
           /\ stat[t] = "sleep" => t \in ToSet(runqueue) \cup ToSet(sleepers)

\* The zombies are the threads that have exited.
Zombies ==
    /\ IsInjective(zombies)
    /\ \A t \in Thread : t \in ToSet(zombies) <=> stat[t] = "exit"

\* A thread structure that thread_fork is filling in belongs to one fork.
Children ==
    /\ \A t \in Thread : child[t] # NULL => stat[child[t]] \in {"fork", "fail"}
    /\ \A t, u \in Thread : child[t] = child[u] /\ child[t] # NULL => t = u

\* Only threads that exist hold the current directory.
Cwds == \A t \in t_cwd : stat[t] \notin {"none", "exit", "freed"}

Counts == numthreads = Cardinality(Live) /\ cwdrefs = Cardinality(t_cwd)

\* in_interrupt is set in the scheduler only after a switch out of a handler, and
\* a thread switched out elsewhere gets it back clear.
Flags ==
    /\ ~asserts
    /\ curthread # NULL /\ waking = NULL => ~in_interrupt
    /\ curthread = NULL /\ waking = NULL /\ in_interrupt => stat[last] = "intr"
    /\ \A t \in Thread :
          stat[t] \in {"new", "yield", "sleep"} /\ t # last => ~pcb_ininterrupt[t]

ThreadsInv == /\ Types /\ Running /\ Places /\ Zombies /\ Children
              /\ Cwds /\ Counts /\ Flags
----------------------------------------------------------------------------
(* Preservation *)

USE DEF SPL_HIGH

\* Waking a sleeper moves it from one list to the other.
LEMMA WakeNextLists ==
    ASSUME Types, Places, ~halted, NEW a, WakeNext(a)
    PROVE  \E t \in ToSet(sleepers) :
             /\ t \in Thread
             /\ runqueue' \in Seq(Thread) /\ sleepers' \in Seq(Thread)
             /\ ToSet(runqueue') = ToSet(runqueue) \cup {t}
             /\ ToSet(sleepers') = ToSet(sleepers) \ {t}
             /\ IsInjective(runqueue') /\ IsInjective(sleepers')
<1>1. PICK i \in DOMAIN sleepers : /\ sleepers' = RemoveAt(sleepers, i)
                                  /\ runqueue' = Append(runqueue, sleepers[i])
  BY DEF WakeNext
<1>2. /\ sleepers[i] \in Thread /\ sleepers[i] \in ToSet(sleepers)
      /\ sleepers' \in Seq(Thread) /\ IsInjective(sleepers')
      /\ ToSet(sleepers') = ToSet(sleepers) \ {sleepers[i]}
  BY <1>1, RemoveAtSet DEF Types, Places
<1>3. sleepers[i] \notin ToSet(runqueue)
  BY <1>2 DEF Places
<1>4. /\ runqueue' \in Seq(Thread) /\ IsInjective(runqueue')
      /\ ToSet(runqueue') = ToSet(runqueue) \cup {sleepers[i]}
  BY <1>1, <1>2, <1>3, AppendSet DEF Types, Places
<1> QED BY <1>2, <1>4

\* The thread at the head of the run queue, and the queue without it.
LEMMA DispatchLists ==
    ASSUME Types, Places, ~halted, Dispatch
    PROVE  /\ Head(runqueue) \in Thread /\ Head(runqueue) \in ToSet(runqueue)
           /\ runqueue' \in Seq(Thread) /\ IsInjective(runqueue')
           /\ ToSet(runqueue') = ToSet(runqueue) \ {Head(runqueue)}
  BY TailSet DEF Dispatch, Types, Places

\* Every step keeps the types.
LEMMA TypesStep ==
    ASSUME Types, Running, Places, Next
    PROVE  Types'
<1>1. ASSUME NEW t \in Thread, NEW u \in Thread, thread_fork_prepare(t, u)
      PROVE  Types'
  BY <1>1, AddrAssumption
  DEF thread_fork_prepare, InFunc, Runs, schedVars, Types, Stats
<1>2. ASSUME NEW t \in Thread, thread_fork_commit(t)
      PROVE  Types'
  <2>1. child[t] \in Thread
    BY <1>2 DEF thread_fork_commit, Filling, Types
  <2>2. Append(runqueue, child[t]) \in Seq(Thread)
    BY <2>1, AppendSet DEF Types
  <2> QED BY <1>2, <2>1, <2>2 DEF thread_fork_commit, Filling, InFunc, Runs, Types, Stats
<1>3. ASSUME NEW t \in Thread, thread_fork_fail(t)
      PROVE  Types'
  BY <1>3, AddrAssumption
  DEF thread_fork_fail, Filling, InFunc, Runs, schedVars, Types, Stats
<1>4. ASSUME NEW t \in Thread, thread_yield(t)
      PROVE  Types'
  <2>1. Append(runqueue, t) \in Seq(Thread)
    BY AppendSet DEF Types
  <2> QED BY <1>4, <2>1 DEF thread_yield, SwitchReady, Leave, Types, Stats
<1>5. ASSUME NEW t \in Thread, thread_exit(t)
      PROVE  Types'
  BY <1>5, NullNotThread, AddrAssumption
  DEF thread_exit, InFunc, Runs, Types, Stats
<1>6. ASSUME NEW t \in Thread, NEW a \in Addr, thread_sleep(t, a)
      PROVE  Types'
  <2>1. Append(sleepers, t) \in Seq(Thread)
    BY AppendSet DEF Types
  <2> QED BY <1>6, <2>1 DEF thread_sleep, Leave, Types, Stats
<1>7. ASSUME NEW t \in Thread, NEW a \in Addr, thread_wakeup(t, a)
      PROVE  Types'
  BY <1>7, AddrAssumption
  DEF thread_wakeup, InFunc, Runs, StartWake, Types, Stats
<1>8. ASSUME NEW t \in Thread, NEW a \in Addr, thread_wakeone(t, a)
      PROVE  Types'
  <2>1. ASSUME WakeNext(a) PROVE runqueue' \in Seq(Thread) /\ sleepers' \in Seq(Thread)
    BY <1>8, <2>1, WakeNextLists DEF thread_wakeone, InFunc, Runs
  <2> QED BY <1>8, <2>1 DEF thread_wakeone, WakeNext, schedVars, threadVars, Types
<1>9. ASSUME NEW t \in Thread, thread_panic(t)
      PROVE  Types'
  BY <1>9, EmptySet DEF thread_panic, Types
<1>10. ASSUME mi_switch
      PROVE  Types'
  <2>1. Head(runqueue) \in Thread /\ runqueue' \in Seq(Thread)
    BY <1>10, DispatchLists DEF mi_switch
  <2>2. zombies' \in Seq(Thread) /\ asserts' \in BOOLEAN
    BY <1>10, EmptySet DEF mi_switch, exorcise, Types
  <2>3. stat' \in [Thread -> Stats]
    BY <1>10, <2>1 DEF mi_switch, exorcise, Types, Stats
  <2>4. in_interrupt' \in BOOLEAN /\ pcb_ininterrupt' \in [Thread -> BOOLEAN]
    BY <1>10, <2>1 DEF mi_switch, Types
  <2> QED BY <1>10, <2>1, <2>2, <2>3, <2>4 DEF mi_switch, Dispatch, Types
<1>11. ASSUME wakeup_iteration
      PROVE  Types'
  <2>1. runqueue' \in Seq(Thread) /\ sleepers' \in Seq(Thread)
    BY <1>11, WakeNextLists DEF wakeup_iteration, Running
  <2> QED BY <1>11, <2>1 DEF wakeup_iteration, WakeNext, threadVars, Types
<1>12. ASSUME wakeup_done
      PROVE  Types'
  <2>1. curthread # NULL => Append(runqueue, curthread) \in Seq(Thread)
    BY AppendSet DEF Types
  <2> QED BY <1>12, <2>1 DEF wakeup_done, Leave, Types, Stats
<1>13. ASSUME hardclock_idle
      PROVE  Types'
  <2>1. lbolt_counter' \in 0..(HZ - 1)
    BY <1>13, AddrAssumption DEF hardclock_idle, Types
  <2>2. waking' \in Addr \cup {NULL} /\ in_interrupt' \in BOOLEAN
    BY <1>13, AddrAssumption DEF hardclock_idle, StartWake, Types
  <2> QED BY <1>13, <2>1, <2>2 DEF hardclock_idle, schedVars, Types
<1>14. ASSUME NEW t \in Thread, hardclock(t)
      PROVE  Types'
  <2>1. Append(runqueue, t) \in Seq(Thread)
    BY AppendSet DEF Types
  <2>2. lbolt_counter' \in 0..(HZ - 1)
    BY <1>14, AddrAssumption DEF hardclock, Types
  <2> QED BY <1>14, <2>1, <2>2, AddrAssumption
    DEF hardclock, StartWake, SwitchReady, Leave, Types, Stats
<1>15. ASSUME NEW a \in Addr, device_interrupt(a)
      PROVE  Types'
  BY <1>15, AddrAssumption
  DEF device_interrupt, CanInterrupt, StartWake, Types, Stats
<1>16. ASSUME Halted
      PROVE  Types'
  BY <1>16, AddrAssumption
  DEF Halted, vars, Types, Stats
<1>17. ASSUME NEW t \in Thread, thread_fork_nomem(t)
      PROVE  Types'
  BY <1>17, NullNotThread, AddrAssumption
  DEF thread_fork_nomem, Filling, InFunc, Runs, schedVars, Types, Stats
<1>18. ASSUME NEW t \in Thread, thread_exit_zombie(t)
      PROVE  Types'
  <2>1. Append(zombies, t) \in Seq(Thread)
    BY AppendSet DEF Types
  <2> QED BY <1>18, <2>1 DEF thread_exit_zombie, Exit, Leave, Types, Stats
<1> QED
  BY <1>1, <1>2, <1>3, <1>4, <1>5, <1>6, <1>7, <1>8, <1>9, <1>10, <1>11, <1>12,
     <1>13, <1>14, <1>15, <1>16, <1>17, <1>18
  DEF Next, FuncStep, ForkStep, Clock, WakeLoop

\* Every step leaves the CPU with the thread that runs, on that thread's stack.
LEMMA RunningStep ==
    ASSUME Types, Running, Places, Zombies, Children, Next
    PROVE  Running'
<1>1. ASSUME NEW t \in Thread, NEW u \in Thread, thread_fork_prepare(t, u)
      PROVE  Running'
  BY <1>1, NullNotThread, AddrAssumption
  DEF thread_fork_prepare, InFunc, Runs, schedVars, Types, Running
<1>2. ASSUME NEW t \in Thread, thread_fork_commit(t)
      PROVE  Running'
  BY <1>2, NullNotThread DEF thread_fork_commit, Filling, InFunc, Runs, Types, Running, Children
<1>3. ASSUME NEW t \in Thread, thread_fork_fail(t)
      PROVE  Running'
  BY <1>3, NullNotThread
  DEF thread_fork_fail, Filling, InFunc, Runs, schedVars, Types, Running, Children
<1>4. ASSUME NEW t \in Thread, thread_yield(t)
      PROVE  Running'
  BY <1>4, NullNotThread, AddrAssumption
  DEF thread_yield, InFunc, Runs, SwitchReady, Leave, Types, Running
<1>5. ASSUME NEW t \in Thread, thread_exit(t)
      PROVE  Running'
  BY <1>5, NullNotThread, AddrAssumption
  DEF thread_exit, InFunc, Runs, Types, Running
<1>6. ASSUME NEW t \in Thread, NEW a \in Addr, thread_sleep(t, a)
      PROVE  Running'
  BY <1>6, NullNotThread, AddrAssumption
  DEF thread_sleep, InFunc, Runs, Leave, Types, Running
<1>7. ASSUME NEW t \in Thread, NEW a \in Addr, thread_wakeup(t, a)
      PROVE  Running'
  BY <1>7, NullNotThread, AddrAssumption
  DEF thread_wakeup, InFunc, Runs, StartWake, Types, Running
<1>8. ASSUME NEW t \in Thread, NEW a \in Addr, thread_wakeone(t, a)
      PROVE  Running'
  BY <1>8, NullNotThread, AddrAssumption
  DEF thread_wakeone, InFunc, Runs, WakeNext, schedVars, threadVars, Types, Running
<1>9. ASSUME NEW t \in Thread, thread_panic(t)
      PROVE  Running'
  BY <1>9, NullNotThread, AddrAssumption
  DEF thread_panic, InFunc, Runs, Types, Running
<1>10. ASSUME mi_switch
      PROVE  Running'
  <2> DEFINE next == Head(runqueue)
  <2>1. next \in Thread /\ next \in ToSet(runqueue)
    BY <1>10, DispatchLists DEF mi_switch
  <2>2. curthread' = next /\ last' = next
    BY <1>10 DEF mi_switch, Dispatch
  <2>3. next \notin ToSet(zombies)
    BY <1>10, <2>1 DEF mi_switch, Places, Zombies
  <2>4. \A t \in Thread : stat[t] # "func"
    BY <1>10, NullNotThread DEF mi_switch, Dispatch, Running
  <2>5. stat'[next] = "func" /\ \A t \in Thread \ {next} : stat'[t] # "func"
    BY <1>10, <2>1, <2>4 DEF mi_switch, exorcise, Types
  <2>6. halted' => waking' = NULL
    BY <1>10 DEF mi_switch
  <2> QED BY <2>1, <2>2, <2>5, <2>6, NullNotThread DEF Running
<1>11. ASSUME wakeup_iteration
      PROVE  Running'
  BY <1>11, NullNotThread, AddrAssumption
  DEF wakeup_iteration, WakeNext, threadVars, Types, Running
<1>12. ASSUME wakeup_done
      PROVE  Running'
  BY <1>12, NullNotThread, AddrAssumption
  DEF wakeup_done, Leave, Types, Running
<1>13. ASSUME hardclock_idle
      PROVE  Running'
  BY <1>13, NullNotThread, AddrAssumption
  DEF hardclock_idle, CanInterrupt, Idle, InterruptsOn, StartWake, schedVars, Types,
      Running
<1>14. ASSUME NEW t \in Thread, hardclock(t)
      PROVE  Running'
  BY <1>14, NullNotThread, AddrAssumption
  DEF hardclock, CanInterrupt, InterruptsOn, StartWake, SwitchReady, Leave, Types,
      Running
<1>15. ASSUME NEW a \in Addr, device_interrupt(a)
      PROVE  Running'
  BY <1>15, NullNotThread, AddrAssumption
  DEF device_interrupt, CanInterrupt, StartWake, Types, Running
<1>16. ASSUME Halted
      PROVE  Running'
  BY <1>16, NullNotThread, AddrAssumption
  DEF Halted, vars, Types, Running
<1>17. ASSUME NEW t \in Thread, thread_fork_nomem(t)
      PROVE  Running'
  BY <1>17, NullNotThread, AddrAssumption
  DEF thread_fork_nomem, Filling, InFunc, Runs, schedVars, Types, Running, Children
<1>18. ASSUME NEW t \in Thread, thread_exit_zombie(t)
      PROVE  Running'
  BY <1>18, NullNotThread, AddrAssumption
  DEF thread_exit_zombie, Exit, InFunc, Runs, Leave, Types, Running
<1> QED
  BY <1>1, <1>2, <1>3, <1>4, <1>5, <1>6, <1>7, <1>8, <1>9, <1>10, <1>11, <1>12,
     <1>13, <1>14, <1>15, <1>16, <1>17, <1>18
  DEF Next, FuncStep, ForkStep, Clock, WakeLoop

\* Every step moves threads between the lists one by one and drops none.
LEMMA PlacesStep ==
    ASSUME Types, Running, Places, Zombies, Children, Next
    PROVE  Places'
<1>1. ASSUME NEW t \in Thread, NEW u \in Thread, thread_fork_prepare(t, u)
      PROVE  Places'
  BY <1>1 DEF thread_fork_prepare, InFunc, Runs, schedVars, Types, Places
<1>2. ASSUME NEW t \in Thread, thread_fork_commit(t)
      PROVE  Places'
  <2>1. child[t] \in Thread /\ child[t] \notin ToSet(runqueue) /\ child[t] \notin ToSet(sleepers)
    BY <1>2 DEF thread_fork_commit, Filling, InFunc, Runs, Types, Running, Places, Children
  <2>2. /\ ToSet(Append(runqueue, child[t])) = ToSet(runqueue) \cup {child[t]}
        /\ IsInjective(Append(runqueue, child[t]))
    BY <1>2, <2>1, AppendSet DEF thread_fork_commit, Filling, InFunc, Runs, Types, Places
  <2> QED BY <1>2, <2>1, <2>2
      DEF thread_fork_commit, Filling, InFunc, Runs, Types, Running, Places, Children
<1>3. ASSUME NEW t \in Thread, thread_fork_fail(t)
      PROVE  Places'
  BY <1>3 DEF thread_fork_fail, Filling, InFunc, Runs, schedVars, Types, Places, Children
<1>4. ASSUME NEW t \in Thread, thread_yield(t)
      PROVE  Places'
  <2>1. t \in Thread /\ t \notin ToSet(runqueue) /\ t \notin ToSet(sleepers)
    BY <1>4 DEF thread_yield, InFunc, Runs, SwitchReady, Leave, Types, Running, Places
  <2>2. /\ ToSet(Append(runqueue, t)) = ToSet(runqueue) \cup {t}
        /\ IsInjective(Append(runqueue, t))
    BY <1>4, <2>1, AppendSet DEF thread_yield, InFunc, Runs, SwitchReady, Leave, Types, Places
  <2> QED BY <1>4, <2>1, <2>2
      DEF thread_yield, InFunc, Runs, SwitchReady, Leave, Types, Running, Places
<1>5. ASSUME NEW t \in Thread, thread_exit(t)
      PROVE  Places'
  BY <1>5, NullNotThread, AddrAssumption
  DEF thread_exit, InFunc, Runs, Types, Places
<1>6. ASSUME NEW t \in Thread, NEW a \in Addr, thread_sleep(t, a)
      PROVE  Places'
  <2>1. t \notin ToSet(runqueue) /\ t \notin ToSet(sleepers)
    BY <1>6 DEF thread_sleep, InFunc, Runs, Places
  <2>2. /\ ToSet(Append(sleepers, t)) = ToSet(sleepers) \cup {t}
        /\ IsInjective(Append(sleepers, t))
    BY <1>6, <2>1, AppendSet DEF thread_sleep, InFunc, Runs, Types, Places
  <2> QED BY <1>6, <2>1, <2>2 DEF thread_sleep, InFunc, Runs, Leave, Types, Places
<1>7. ASSUME NEW t \in Thread, NEW a \in Addr, thread_wakeup(t, a)
      PROVE  Places'
  BY <1>7 DEF thread_wakeup, Places
<1>8. ASSUME NEW t \in Thread, NEW a \in Addr, thread_wakeone(t, a)
      PROVE  Places'
  <2>1. CASE WakeNext(a)
    <3>1. PICK u \in ToSet(sleepers) :
             /\ u \in Thread
             /\ ToSet(runqueue') = ToSet(runqueue) \cup {u}
             /\ ToSet(sleepers') = ToSet(sleepers) \ {u}
             /\ IsInjective(runqueue') /\ IsInjective(sleepers')
      BY <1>8, <2>1, WakeNextLists DEF thread_wakeone, InFunc, Runs
    <3> QED BY <1>8, <3>1 DEF thread_wakeone, InFunc, Runs, threadVars, Places
  <2>2. CASE UNCHANGED schedVars
    BY <1>8, <2>2 DEF thread_wakeone, schedVars, threadVars, Places
  <2> QED BY <1>8, <2>1, <2>2 DEF thread_wakeone
<1>9. ASSUME NEW t \in Thread, thread_panic(t)
      PROVE  Places'
  BY <1>9 DEF thread_panic, Places
<1>10. ASSUME mi_switch
      PROVE  Places'
  <2> DEFINE next == Head(runqueue)
  <2>1. /\ next \in Thread /\ next \in ToSet(runqueue) /\ IsInjective(runqueue')
        /\ ToSet(runqueue') = ToSet(runqueue) \ {next}
    BY <1>10, DispatchLists DEF mi_switch
  <2>2. sleepers' = sleepers /\ halted' = halted /\ ~halted
    BY <1>10 DEF mi_switch, Dispatch
  <2>3. \A t \in Thread \ {next} :
           stat'[t] = stat[t] \/ (stat[t] = "exit" /\ stat'[t] = "freed")
    BY <1>10, <2>1 DEF mi_switch, exorcise, Types, Zombies
  <2>4. stat'[next] = "func"
    BY <1>10, <2>1 DEF mi_switch, exorcise, Types
  <2> QED BY <2>1, <2>2, <2>3, <2>4 DEF Places
<1>11. ASSUME wakeup_iteration
      PROVE  Places'
  <2>1. ~halted
    BY <1>11 DEF wakeup_iteration, Running
  <2>2. PICK u \in ToSet(sleepers) :
             /\ u \in Thread
             /\ ToSet(runqueue') = ToSet(runqueue) \cup {u}
             /\ ToSet(sleepers') = ToSet(sleepers) \ {u}
             /\ IsInjective(runqueue') /\ IsInjective(sleepers')
    BY <1>11, <2>1, WakeNextLists DEF wakeup_iteration
  <2> QED BY <1>11, <2>1, <2>2 DEF wakeup_iteration, threadVars, Places
<1>12. ASSUME wakeup_done
      PROVE  Places'
  <2>1. CASE afterwake = "yield" /\ curthread # NULL
    <3>1. /\ curthread \in Thread /\ stat[curthread] = "func" /\ ~halted
          /\ curthread \notin ToSet(runqueue) /\ curthread \notin ToSet(sleepers)
      BY <1>12, <2>1 DEF wakeup_done, Types, Running, Places
    <3>2. /\ ToSet(Append(runqueue, curthread)) = ToSet(runqueue) \cup {curthread}
          /\ IsInjective(Append(runqueue, curthread))
      BY <3>1, AppendSet DEF Types, Places
    <3>3. /\ runqueue' = Append(runqueue, curthread) /\ sleepers' = sleepers
          /\ stat' = [stat EXCEPT ![curthread] = "intr"]
      BY <1>12, <2>1 DEF wakeup_done, Leave
    <3> QED BY <3>1, <3>2, <3>3 DEF Types, Places
  <2>2. CASE ~(afterwake = "yield" /\ curthread # NULL)
    BY <1>12, <2>2 DEF wakeup_done, Places
  <2> QED BY <2>1, <2>2
<1>13. ASSUME hardclock_idle
      PROVE  Places'
  BY <1>13 DEF hardclock_idle, schedVars, Places
<1>14. ASSUME NEW t \in Thread, hardclock(t)
      PROVE  Places'
  <2>1. CASE lbolt_counter + 1 >= HZ
    BY <1>14, <2>1 DEF hardclock, Places
  <2>2. CASE ~(lbolt_counter + 1 >= HZ)
    <3>1. /\ stat[t] = "func" /\ ~halted
          /\ t \notin ToSet(runqueue) /\ t \notin ToSet(sleepers)
      BY <1>14 DEF hardclock, CanInterrupt, Running, Places
    <3>2. /\ ToSet(Append(runqueue, t)) = ToSet(runqueue) \cup {t}
          /\ IsInjective(Append(runqueue, t))
      BY <3>1, AppendSet DEF Types, Places
    <3>3. /\ runqueue' = Append(runqueue, t) /\ sleepers' = sleepers
          /\ stat' = [stat EXCEPT ![t] = "intr"]
      BY <1>14, <2>2 DEF hardclock, SwitchReady, Leave
    <3> QED BY <3>1, <3>2, <3>3 DEF Types, Places
  <2> QED BY <2>1, <2>2
<1>15. ASSUME NEW a \in Addr, device_interrupt(a)
      PROVE  Places'
  BY <1>15 DEF device_interrupt, Places
<1>16. ASSUME Halted
      PROVE  Places'
  BY <1>16 DEF Halted, vars, Places
<1>17. ASSUME NEW t \in Thread, thread_fork_nomem(t)
      PROVE  Places'
  BY <1>17, NullNotThread, AddrAssumption
  DEF thread_fork_nomem, Filling, InFunc, Runs, schedVars, Types, Places, Children
<1>18. ASSUME NEW t \in Thread, thread_exit_zombie(t)
      PROVE  Places'
  BY <1>18 DEF thread_exit_zombie, Exit, InFunc, Runs, Leave, Types, Places
<1> QED
  BY <1>1, <1>2, <1>3, <1>4, <1>5, <1>6, <1>7, <1>8, <1>9, <1>10, <1>11, <1>12,
     <1>13, <1>14, <1>15, <1>16, <1>17, <1>18
  DEF Next, FuncStep, ForkStep, Clock, WakeLoop

\* Every step keeps the zombies the threads that have exited.
LEMMA ZombiesStep ==
    ASSUME Types, Running, Places, Zombies, Children, Next
    PROVE  Zombies'
<1>1. ASSUME NEW t \in Thread, NEW u \in Thread, thread_fork_prepare(t, u)
      PROVE  Zombies'
  BY <1>1
  DEF thread_fork_prepare, InFunc, Runs, schedVars, Types, Running, Zombies
<1>2. ASSUME NEW t \in Thread, thread_fork_commit(t)
      PROVE  Zombies'
  BY <1>2 DEF thread_fork_commit, Filling, Types, Zombies, Children
<1>3. ASSUME NEW t \in Thread, thread_fork_fail(t)
      PROVE  Zombies'
  BY <1>3 DEF thread_fork_fail, Filling, Types, Zombies, Children
<1>4. ASSUME NEW t \in Thread, thread_yield(t)
      PROVE  Zombies'
  BY <1>4
  DEF thread_yield, InFunc, Runs, SwitchReady, Leave, Types, Running, Zombies
<1>5. ASSUME NEW t \in Thread, thread_exit(t)
      PROVE  Zombies'
  BY <1>5, NullNotThread, AddrAssumption
  DEF thread_exit, InFunc, Runs, Types, Zombies
<1>6. ASSUME NEW t \in Thread, NEW a \in Addr, thread_sleep(t, a)
      PROVE  Zombies'
  BY <1>6
  DEF thread_sleep, InFunc, Runs, Leave, Types, Running, Zombies
<1>7. ASSUME NEW t \in Thread, NEW a \in Addr, thread_wakeup(t, a)
      PROVE  Zombies'
  BY <1>7
  DEF thread_wakeup, InFunc, Runs, StartWake, Types, Running, Zombies
<1>8. ASSUME NEW t \in Thread, NEW a \in Addr, thread_wakeone(t, a)
      PROVE  Zombies'
  BY <1>8
  DEF thread_wakeone, InFunc, Runs, WakeNext, schedVars, threadVars, Types, Running,
      Zombies
<1>9. ASSUME NEW t \in Thread, thread_panic(t)
      PROVE  Zombies'
  BY <1>9
  DEF thread_panic, InFunc, Runs, Types, Running, Zombies
<1>10. ASSUME mi_switch
      PROVE  Zombies'
  <2>1. Head(runqueue) \in Thread /\ stat[Head(runqueue)] # "exit"
    BY <1>10, DispatchLists DEF mi_switch, Places
  <2>2. CASE stat[Head(runqueue)] = "new"
    BY <1>10, <2>1, <2>2 DEF mi_switch, Types, Zombies
  <2>3. CASE exorcise(Head(runqueue))
    BY <2>1, <2>3, EmptySet DEF exorcise, Types, Zombies
  <2> QED BY <1>10, <2>2, <2>3 DEF mi_switch
<1>11. ASSUME wakeup_iteration
      PROVE  Zombies'
  BY <1>11
  DEF wakeup_iteration, WakeNext, threadVars, Types, Running, Zombies
<1>12. ASSUME wakeup_done
      PROVE  Zombies'
  BY <1>12
  DEF wakeup_done, Leave, Types, Running, Zombies
<1>13. ASSUME hardclock_idle
      PROVE  Zombies'
  BY <1>13
  DEF hardclock_idle, CanInterrupt, Idle, InterruptsOn, StartWake, schedVars, Types,
      Running, Zombies
<1>14. ASSUME NEW t \in Thread, hardclock(t)
      PROVE  Zombies'
  BY <1>14
  DEF hardclock, CanInterrupt, InterruptsOn, StartWake, SwitchReady, Leave, Types,
      Running, Zombies
<1>15. ASSUME NEW a \in Addr, device_interrupt(a)
      PROVE  Zombies'
  BY <1>15
  DEF device_interrupt, CanInterrupt, StartWake, Types, Running, Zombies
<1>16. ASSUME Halted
      PROVE  Zombies'
  BY <1>16
  DEF Halted, vars, Types, Running, Zombies
<1>17. ASSUME NEW t \in Thread, thread_fork_nomem(t)
      PROVE  Zombies'
  BY <1>17, NullNotThread, AddrAssumption
  DEF thread_fork_nomem, Filling, InFunc, Runs, schedVars, Types, Zombies, Children
<1>18. ASSUME NEW t \in Thread, thread_exit_zombie(t)
      PROVE  Zombies'
  <2>1. t \notin ToSet(zombies)
    BY <1>18 DEF thread_exit_zombie, Exit, InFunc, Runs, Zombies
  <2>2. /\ ToSet(Append(zombies, t)) = ToSet(zombies) \cup {t}
        /\ IsInjective(Append(zombies, t))
    BY <2>1, AppendSet DEF Types, Zombies
  <2> QED BY <1>18, <2>2 DEF thread_exit_zombie, Exit, Leave, Types, Zombies
<1> QED
  BY <1>1, <1>2, <1>3, <1>4, <1>5, <1>6, <1>7, <1>8, <1>9, <1>10, <1>11, <1>12,
     <1>13, <1>14, <1>15, <1>16, <1>17, <1>18
  DEF Next, FuncStep, ForkStep, Clock, WakeLoop

\* Every step keeps each structure that is being filled in with its one fork.
LEMMA ChildrenStep ==
    ASSUME Types, Running, Places, Zombies, Children, Next
    PROVE  Children'
<1>1. ASSUME NEW t \in Thread, NEW u \in Thread, thread_fork_prepare(t, u)
      PROVE  Children'
  BY <1>1, NullNotThread
  DEF thread_fork_prepare, InFunc, Runs, schedVars, Types, Running, Children
<1>2. ASSUME NEW t \in Thread, thread_fork_commit(t)
      PROVE  Children'
  BY <1>2, NullNotThread
  DEF thread_fork_commit, Filling, InFunc, Runs, Types, Running, Children
<1>3. ASSUME NEW t \in Thread, thread_fork_fail(t)
      PROVE  Children'
  BY <1>3, NullNotThread
  DEF thread_fork_fail, Filling, InFunc, Runs, schedVars, Types, Running, Children
<1>4. ASSUME NEW t \in Thread, thread_yield(t)
      PROVE  Children'
  BY <1>4, NullNotThread
  DEF thread_yield, InFunc, Runs, SwitchReady, Leave, Types, Running, Children
<1>5. ASSUME NEW t \in Thread, thread_exit(t)
      PROVE  Children'
  BY <1>5, NullNotThread, AddrAssumption
  DEF thread_exit, InFunc, Runs, Types, Children
<1>6. ASSUME NEW t \in Thread, NEW a \in Addr, thread_sleep(t, a)
      PROVE  Children'
  BY <1>6, NullNotThread
  DEF thread_sleep, InFunc, Runs, Leave, Types, Running, Children
<1>7. ASSUME NEW t \in Thread, NEW a \in Addr, thread_wakeup(t, a)
      PROVE  Children'
  BY <1>7, NullNotThread
  DEF thread_wakeup, InFunc, Runs, StartWake, Types, Running, Children
<1>8. ASSUME NEW t \in Thread, NEW a \in Addr, thread_wakeone(t, a)
      PROVE  Children'
  BY <1>8, NullNotThread
  DEF thread_wakeone, InFunc, Runs, WakeNext, schedVars, threadVars, Types, Running,
      Children
<1>9. ASSUME NEW t \in Thread, thread_panic(t)
      PROVE  Children'
  BY <1>9, NullNotThread
  DEF thread_panic, InFunc, Runs, Types, Running, Children
<1>10. ASSUME mi_switch
      PROVE  Children'
  <2>1. Head(runqueue) \in Thread /\ stat[Head(runqueue)] \notin {"fork", "fail"}
    BY <1>10, DispatchLists DEF mi_switch, Places
  <2>2. \A t \in Thread : stat[t] \in {"fork", "fail"} => stat'[t] = stat[t]
    BY <1>10, <2>1 DEF mi_switch, exorcise, Types, Zombies
  <2> QED BY <1>10, <2>2 DEF mi_switch, Types, Children
<1>11. ASSUME wakeup_iteration
      PROVE  Children'
  BY <1>11, NullNotThread
  DEF wakeup_iteration, WakeNext, threadVars, Types, Running, Children
<1>12. ASSUME wakeup_done
      PROVE  Children'
  BY <1>12, NullNotThread
  DEF wakeup_done, Leave, Types, Running, Children
<1>13. ASSUME hardclock_idle
      PROVE  Children'
  BY <1>13, NullNotThread
  DEF hardclock_idle, CanInterrupt, Idle, InterruptsOn, StartWake, schedVars, Types,
      Running, Children
<1>14. ASSUME NEW t \in Thread, hardclock(t)
      PROVE  Children'
  <2>1. stat[t] = "func"
    BY <1>14, NullNotThread DEF hardclock, Types, Running
  <2>2. child' = child /\ \A u \in Thread \ {t} : stat'[u] = stat[u]
    BY <1>14 DEF hardclock, Leave, Types
  <2> QED BY <2>1, <2>2, NullNotThread DEF Types, Children
<1>15. ASSUME NEW a \in Addr, device_interrupt(a)
      PROVE  Children'
  BY <1>15, NullNotThread
  DEF device_interrupt, CanInterrupt, StartWake, Types, Running, Children
<1>16. ASSUME Halted
      PROVE  Children'
  BY <1>16, NullNotThread
  DEF Halted, vars, Types, Running, Children
<1>17. ASSUME NEW t \in Thread, thread_fork_nomem(t)
      PROVE  Children'
  BY <1>17, NullNotThread, AddrAssumption
  DEF thread_fork_nomem, Filling, InFunc, Runs, schedVars, Types, Children
<1>18. ASSUME NEW t \in Thread, thread_exit_zombie(t)
      PROVE  Children'
  BY <1>18, NullNotThread
  DEF thread_exit_zombie, Exit, InFunc, Runs, Leave, Types, Running, Children
<1> QED
  BY <1>1, <1>2, <1>3, <1>4, <1>5, <1>6, <1>7, <1>8, <1>9, <1>10, <1>11, <1>12,
     <1>13, <1>14, <1>15, <1>16, <1>17, <1>18
  DEF Next, FuncStep, ForkStep, Clock, WakeLoop

\* Every step keeps the current directory with threads that exist.
LEMMA CwdsStep ==
    ASSUME Types, Running, Places, Zombies, Children, Cwds, Next
    PROVE  Cwds'
<1>1. ASSUME NEW t \in Thread, NEW u \in Thread, thread_fork_prepare(t, u)
      PROVE  Cwds'
  BY <1>1, NullNotThread
  DEF thread_fork_prepare, InFunc, Runs, schedVars, Types, Running, Children, Cwds
<1>2. ASSUME NEW t \in Thread, thread_fork_commit(t)
      PROVE  Cwds'
  BY <1>2, NullNotThread
  DEF thread_fork_commit, Filling, InFunc, Runs, Types, Running, Children, Cwds
<1>3. ASSUME NEW t \in Thread, thread_fork_fail(t)
      PROVE  Cwds'
  BY <1>3, NullNotThread
  DEF thread_fork_fail, Filling, InFunc, Runs, schedVars, Types, Running, Children, Cwds
<1>4. ASSUME NEW t \in Thread, thread_yield(t)
      PROVE  Cwds'
  BY <1>4, NullNotThread
  DEF thread_yield, InFunc, Runs, SwitchReady, Leave, Types, Running, Children, Cwds
<1>5. ASSUME NEW t \in Thread, thread_exit(t)
      PROVE  Cwds'
  BY <1>5, NullNotThread, AddrAssumption
  DEF thread_exit, InFunc, Runs, Types, Cwds
<1>6. ASSUME NEW t \in Thread, NEW a \in Addr, thread_sleep(t, a)
      PROVE  Cwds'
  BY <1>6, NullNotThread
  DEF thread_sleep, InFunc, Runs, Leave, Types, Running, Children, Cwds
<1>7. ASSUME NEW t \in Thread, NEW a \in Addr, thread_wakeup(t, a)
      PROVE  Cwds'
  BY <1>7, NullNotThread
  DEF thread_wakeup, InFunc, Runs, StartWake, Types, Running, Children, Cwds
<1>8. ASSUME NEW t \in Thread, NEW a \in Addr, thread_wakeone(t, a)
      PROVE  Cwds'
  BY <1>8, NullNotThread
  DEF thread_wakeone, InFunc, Runs, WakeNext, schedVars, threadVars, Types, Running,
      Children, Cwds
<1>9. ASSUME NEW t \in Thread, thread_panic(t)
      PROVE  Cwds'
  BY <1>9, NullNotThread
  DEF thread_panic, InFunc, Runs, Types, Running, Children, Cwds
<1>10. ASSUME mi_switch
      PROVE  Cwds'
  <2>1. Head(runqueue) \in Thread
    BY <1>10, DispatchLists DEF mi_switch
  <2> QED BY <1>10, <2>1 DEF mi_switch, exorcise, Types, Zombies, Cwds
<1>11. ASSUME wakeup_iteration
      PROVE  Cwds'
  BY <1>11, NullNotThread
  DEF wakeup_iteration, WakeNext, threadVars, Types, Running, Children, Cwds
<1>12. ASSUME wakeup_done
      PROVE  Cwds'
  BY <1>12, NullNotThread
  DEF wakeup_done, Leave, Types, Running, Children, Cwds
<1>13. ASSUME hardclock_idle
      PROVE  Cwds'
  BY <1>13, NullNotThread
  DEF hardclock_idle, CanInterrupt, Idle, InterruptsOn, StartWake, schedVars, Types,
      Running, Children, Cwds
<1>14. ASSUME NEW t \in Thread, hardclock(t)
      PROVE  Cwds'
  BY <1>14, NullNotThread
  DEF hardclock, CanInterrupt, InterruptsOn, StartWake, SwitchReady, Leave, Types,
      Running, Children, Cwds
<1>15. ASSUME NEW a \in Addr, device_interrupt(a)
      PROVE  Cwds'
  BY <1>15, NullNotThread
  DEF device_interrupt, CanInterrupt, StartWake, Types, Running, Children, Cwds
<1>16. ASSUME Halted
      PROVE  Cwds'
  BY <1>16, NullNotThread
  DEF Halted, vars, Types, Running, Children, Cwds
<1>17. ASSUME NEW t \in Thread, thread_fork_nomem(t)
      PROVE  Cwds'
  BY <1>17, NullNotThread, AddrAssumption
  DEF thread_fork_nomem, Filling, InFunc, Runs, schedVars, Types, Children, Cwds
<1>18. ASSUME NEW t \in Thread, thread_exit_zombie(t)
      PROVE  Cwds'
  BY <1>18, NullNotThread
  DEF thread_exit_zombie, Exit, InFunc, Runs, Leave, Types, Running, Children, Cwds
<1> QED
  BY <1>1, <1>2, <1>3, <1>4, <1>5, <1>6, <1>7, <1>8, <1>9, <1>10, <1>11, <1>12,
     <1>13, <1>14, <1>15, <1>16, <1>17, <1>18
  DEF Next, FuncStep, ForkStep, Clock, WakeLoop

\* No step but the end of thread_fork and thread_exit changes which threads are
\* outstanding.
LEMMA SameLive ==
    ASSUME \A t \in Thread :
             (stat'[t] \in {"new", "func", "yield", "intr", "sleep"})
               <=> (stat[t] \in {"new", "func", "yield", "intr", "sleep"})
    PROVE  Live' = Live
  BY DEF Live

\* numthreads counts a finite set.
LEMMA LiveFinite == IsFiniteSet(Live) /\ Cardinality(Live) \in Nat
<1>1. Live \in SUBSET Thread
  BY DEF Live
<1> QED BY <1>1, ThreadFinite, FS_Subset, FS_CardinalityType

\* Every step keeps numthreads and the references of the current directory.
LEMMA CountsStep ==
    ASSUME Types, Running, Places, Zombies, Children, Cwds, Counts, Next
    PROVE  Counts'
<1>1. ASSUME NEW t \in Thread, NEW u \in Thread, thread_fork_prepare(t, u)
      PROVE  Counts'
  <2>1. Live' = Live
    BY <1>1, SameLive DEF thread_fork_prepare, Types
  <2>2. u \notin t_cwd /\ IsFiniteSet(t_cwd)
    BY <1>1, ThreadFinite, FS_Subset DEF thread_fork_prepare, Types, Cwds
  <2>3. Cardinality(t_cwd \cup {u}) = Cardinality(t_cwd) + 1
    BY <2>2, FS_AddElement
  <2> QED BY <1>1, <2>1, <2>3 DEF thread_fork_prepare, Counts
<1>2. ASSUME NEW t \in Thread, thread_fork_commit(t)
      PROVE  Counts'
  <2>1. Live' = Live \cup {child[t]} /\ child[t] \notin Live
    BY <1>2 DEF thread_fork_commit, Filling, Types, Children, Live
  <2>2. Cardinality(Live') = Cardinality(Live) + 1
    BY <2>1, LiveFinite, FS_AddElement
  <2> QED BY <1>2, <2>2 DEF thread_fork_commit, Filling, Counts
<1>3. ASSUME NEW t \in Thread, thread_fork_fail(t)
      PROVE  Counts'
  <2>1. Live' = Live
    BY <1>3, SameLive DEF thread_fork_fail, Filling, Types, Children
  <2>2. child[t] \in t_cwd => Cardinality(t_cwd \ {child[t]}) = Cardinality(t_cwd) - 1
    BY ThreadFinite, FS_Subset, FS_RemoveElement DEF Types
  <2> QED BY <1>3, <2>1, <2>2 DEF thread_fork_fail, Filling, Counts
<1>4. ASSUME NEW t \in Thread, thread_yield(t)
      PROVE  Counts'
  <2>1. Live' = Live
    BY <1>4, SameLive DEF thread_yield, InFunc, Runs, Leave, Types
  <2> QED BY <1>4, <2>1 DEF thread_yield, Counts
<1>5. ASSUME NEW t \in Thread, thread_exit(t)
      PROVE  Counts'
  <2>1. Live' = Live
    BY <1>5, SameLive DEF thread_exit
  <2> QED BY <1>5, <2>1 DEF thread_exit, Counts
<1>6. ASSUME NEW t \in Thread, NEW a \in Addr, thread_sleep(t, a)
      PROVE  Counts'
  <2>1. Live' = Live
    BY <1>6, SameLive DEF thread_sleep, InFunc, Runs, Leave, Types
  <2> QED BY <1>6, <2>1 DEF thread_sleep, Counts
<1>7. ASSUME NEW t \in Thread, NEW a \in Addr, thread_wakeup(t, a)
      PROVE  Counts'
  <2>1. Live' = Live
    BY <1>7, SameLive DEF thread_wakeup
  <2> QED BY <1>7, <2>1 DEF thread_wakeup, Counts
<1>8. ASSUME NEW t \in Thread, NEW a \in Addr, thread_wakeone(t, a)
      PROVE  Counts'
  <2>1. Live' = Live
    BY <1>8, SameLive DEF thread_wakeone, threadVars
  <2> QED BY <1>8, <2>1 DEF thread_wakeone, threadVars, Counts
<1>9. ASSUME NEW t \in Thread, thread_panic(t)
      PROVE  Counts'
  <2>1. Live' = Live
    BY <1>9, SameLive DEF thread_panic
  <2> QED BY <1>9, <2>1 DEF thread_panic, Counts
<1>10. ASSUME mi_switch
      PROVE  Counts'
  <2>1. Head(runqueue) \in Thread
        /\ stat[Head(runqueue)] \in {"new", "yield", "intr", "sleep"}
    BY <1>10, DispatchLists DEF mi_switch, Places
  <2>2. Live' = Live
    BY <1>10, <2>1, SameLive DEF mi_switch, exorcise, Types, Zombies
  <2> QED BY <1>10, <2>2 DEF mi_switch, Counts
<1>11. ASSUME wakeup_iteration
      PROVE  Counts'
  <2>1. Live' = Live
    BY <1>11, SameLive DEF wakeup_iteration, threadVars
  <2> QED BY <1>11, <2>1 DEF wakeup_iteration, threadVars, Counts
<1>12. ASSUME wakeup_done
      PROVE  Counts'
  <2>1. Live' = Live
    BY <1>12, SameLive DEF wakeup_done, Leave, Types, Running
  <2> QED BY <1>12, <2>1 DEF wakeup_done, Counts
<1>13. ASSUME hardclock_idle
      PROVE  Counts'
  <2>1. Live' = Live
    BY <1>13, SameLive DEF hardclock_idle
  <2> QED BY <1>13, <2>1 DEF hardclock_idle, Counts
<1>14. ASSUME NEW t \in Thread, hardclock(t)
      PROVE  Counts'
  <2>1. Live' = Live
    BY <1>14, SameLive DEF hardclock, Leave, Types, Running
  <2> QED BY <1>14, <2>1 DEF hardclock, Counts
<1>15. ASSUME NEW a \in Addr, device_interrupt(a)
      PROVE  Counts'
  <2>1. Live' = Live
    BY <1>15, SameLive DEF device_interrupt
  <2> QED BY <1>15, <2>1 DEF device_interrupt, Counts
<1>16. ASSUME Halted
      PROVE  Counts'
  <2>1. Live' = Live
    BY <1>16, SameLive DEF Halted, vars
  <2> QED BY <1>16, <2>1 DEF Halted, vars, Counts
<1>17. ASSUME NEW t \in Thread, thread_fork_nomem(t)
      PROVE  Counts'
  <2>1. Live' = Live
    BY <1>17, SameLive DEF thread_fork_nomem, Filling, Types, Children
  <2> QED BY <1>17, <2>1 DEF thread_fork_nomem, Counts
<1>18. ASSUME NEW t \in Thread, thread_exit_zombie(t)
      PROVE  Counts'
  <2>1. Live' = Live \ {t} /\ t \in Live
    BY <1>18 DEF thread_exit_zombie, Exit, InFunc, Runs, Leave, Types, Live
  <2>2. Cardinality(Live') = Cardinality(Live) - 1
    BY <2>1, LiveFinite, FS_RemoveElement
  <2>3. t \in t_cwd => Cardinality(t_cwd \ {t}) = Cardinality(t_cwd) - 1
    BY ThreadFinite, FS_Subset, FS_RemoveElement DEF Types
  <2> QED BY <1>18, <2>2, <2>3 DEF thread_exit_zombie, Exit, Counts
<1> QED
  BY <1>1, <1>2, <1>3, <1>4, <1>5, <1>6, <1>7, <1>8, <1>9, <1>10, <1>11, <1>12,
     <1>13, <1>14, <1>15, <1>16, <1>17, <1>18
  DEF Next, FuncStep, ForkStep, Clock, WakeLoop

\* Every step keeps in_interrupt what the running thread's nesting makes it.
LEMMA FlagsStep ==
    ASSUME Types, Running, Places, Zombies, Children, Cwds, Counts, Flags, Next
    PROVE  Flags'
<1>1. ASSUME NEW t \in Thread, NEW u \in Thread, thread_fork_prepare(t, u)
      PROVE  Flags'
  BY <1>1, NullNotThread, AddrAssumption
  DEF thread_fork_prepare, InFunc, Runs, schedVars, Types, Running, Flags
<1>2. ASSUME NEW t \in Thread, thread_fork_commit(t)
      PROVE  Flags'
  BY <1>2, NullNotThread
  DEF thread_fork_commit, Filling, InFunc, Runs, Types, Running, Children, Flags
<1>3. ASSUME NEW t \in Thread, thread_fork_fail(t)
      PROVE  Flags'
  BY <1>3, NullNotThread
  DEF thread_fork_fail, Filling, InFunc, Runs, schedVars, Types, Running, Children, Flags
<1>4. ASSUME NEW t \in Thread, thread_yield(t)
      PROVE  Flags'
  BY <1>4, NullNotThread, AddrAssumption
  DEF thread_yield, InFunc, Runs, SwitchReady, Leave, Types, Running, Flags
<1>5. ASSUME NEW t \in Thread, thread_exit(t)
      PROVE  Flags'
  BY <1>5, NullNotThread, AddrAssumption
  DEF thread_exit, InFunc, Runs, Types, Running, Flags
<1>6. ASSUME NEW t \in Thread, NEW a \in Addr, thread_sleep(t, a)
      PROVE  Flags'
  BY <1>6, NullNotThread, AddrAssumption
  DEF thread_sleep, InFunc, Runs, Leave, Types, Running, Flags
<1>7. ASSUME NEW t \in Thread, NEW a \in Addr, thread_wakeup(t, a)
      PROVE  Flags'
  BY <1>7, NullNotThread, AddrAssumption
  DEF thread_wakeup, InFunc, Runs, StartWake, Types, Running, Flags
<1>8. ASSUME NEW t \in Thread, NEW a \in Addr, thread_wakeone(t, a)
      PROVE  Flags'
  BY <1>8, NullNotThread, AddrAssumption
  DEF thread_wakeone, InFunc, Runs, WakeNext, schedVars, threadVars, Types, Running, Flags
<1>9. ASSUME NEW t \in Thread, thread_panic(t)
      PROVE  Flags'
  BY <1>9, NullNotThread, AddrAssumption
  DEF thread_panic, InFunc, Runs, Types, Running, Flags
<1>10. ASSUME mi_switch
      PROVE  Flags'
  <2> DEFINE next == Head(runqueue)
  <2>1. /\ next \in Thread /\ next # NULL
        /\ stat[next] \in {"new", "yield", "intr", "sleep"}
    BY <1>10, DispatchLists, NullNotThread DEF mi_switch, Places
  <2>2. ~asserts'
    <3>1. next \notin ToSet(zombies) /\ t_cwd \cap ToSet(zombies) = {}
      BY <2>1 DEF Types, Zombies, Cwds
    <3> QED BY <1>10, <3>1 DEF mi_switch, exorcise, Flags
  <2>3. ~in_interrupt'
    BY <1>10, <2>1 DEF mi_switch, Dispatch, Types, Flags
  <2>4. curthread' = next /\ last' = next
    BY <1>10 DEF mi_switch, Dispatch
  <2>5. ASSUME NEW t \in Thread, stat'[t] \in {"new", "yield", "sleep"}, t # next
        PROVE  ~pcb_ininterrupt'[t]
    <3>1. stat[t] = stat'[t]
      BY <1>10, <2>1, <2>5 DEF mi_switch, exorcise, Types
    <3> QED BY <1>10, <2>5, <3>1 DEF mi_switch, Dispatch, Types, Flags
  <2> QED BY <2>1, <2>2, <2>3, <2>4, <2>5 DEF Flags
<1>11. ASSUME wakeup_iteration
      PROVE  Flags'
  BY <1>11, NullNotThread, AddrAssumption
  DEF wakeup_iteration, WakeNext, threadVars, Types, Running, Flags
<1>12. ASSUME wakeup_done
      PROVE  Flags'
  BY <1>12, NullNotThread, AddrAssumption
  DEF wakeup_done, Leave, Types, Running, Flags
<1>13. ASSUME hardclock_idle
      PROVE  Flags'
  BY <1>13, NullNotThread, AddrAssumption
  DEF hardclock_idle, CanInterrupt, Idle, InterruptsOn, StartWake, schedVars, Types,
      Running, Flags
<1>14. ASSUME NEW t \in Thread, hardclock(t)
      PROVE  Flags'
  BY <1>14, NullNotThread, AddrAssumption
  DEF hardclock, CanInterrupt, InterruptsOn, StartWake, SwitchReady, Leave, Types,
      Running, Flags
<1>15. ASSUME NEW a \in Addr, device_interrupt(a)
      PROVE  Flags'
  BY <1>15, NullNotThread, AddrAssumption
  DEF device_interrupt, CanInterrupt, StartWake, Types, Running, Flags
<1>16. ASSUME Halted
      PROVE  Flags'
  BY <1>16, NullNotThread, AddrAssumption
  DEF Halted, vars, Types, Running, Flags
<1>17. ASSUME NEW t \in Thread, thread_fork_nomem(t)
      PROVE  Flags'
  BY <1>17, NullNotThread, AddrAssumption
  DEF thread_fork_nomem, Filling, InFunc, Runs, schedVars, Types, Running, Children, Flags
<1>18. ASSUME NEW t \in Thread, thread_exit_zombie(t)
      PROVE  Flags'
  <2>1. t \in Live
    BY <1>18 DEF thread_exit_zombie, Exit, InFunc, Runs, Live
  <2>2. numthreads > 0
    BY <2>1, LiveFinite, FS_EmptySet DEF Counts
  <2> QED BY <1>18, <2>2, NullNotThread
      DEF thread_exit_zombie, Exit, InFunc, Runs, Leave, Types, Running, Flags
<1> QED
  BY <1>1, <1>2, <1>3, <1>4, <1>5, <1>6, <1>7, <1>8, <1>9, <1>10, <1>11, <1>12,
     <1>13, <1>14, <1>15, <1>16, <1>17, <1>18
  DEF Next, FuncStep, ForkStep, Clock, WakeLoop

----------------------------------------------------------------------------
(* The theorems *)

\* After thread_bootstrap and scheduler_bootstrap.
LEMMA ThreadsInvInit == Init => ThreadsInv
<1> SUFFICES ASSUME Init PROVE ThreadsInv
  OBVIOUS
<1>1. Types
  <2>1. runqueue \in Seq(Thread) /\ sleepers \in Seq(Thread) /\ zombies \in Seq(Thread)
    BY EmptySet DEF Init
  <2>2. pcb_ininterrupt \in [Thread -> BOOLEAN] /\ in_interrupt \in BOOLEAN
        /\ halted \in BOOLEAN /\ asserts \in BOOLEAN
    BY DEF Init
  <2>3. lbolt_counter \in 0..(HZ - 1)
    BY AddrAssumption DEF Init
  <2>4. stat \in [Thread -> Stats]
    BY DEF Init, Stats
  <2> QED BY <2>1, <2>2, <2>3, <2>4, BootIsThread DEF Init, Types
<1>2. Running
  BY BootIsThread, NullNotThread DEF Init, Running
<1>3. Places /\ Zombies
  BY EmptySet DEF Init, Places, Zombies
<1>4. Children /\ Cwds
  BY BootIsThread DEF Init, Children, Cwds
<1>5. Counts
  <2>1. Live = {Boot}
    BY BootIsThread DEF Init, Live
  <2> QED BY <2>1, FS_Singleton DEF Init, Counts
<1>6. Flags
  BY DEF Init, Flags
<1> QED BY <1>1, <1>2, <1>3, <1>4, <1>5, <1>6 DEF ThreadsInv

\* Every step keeps the invariant.
LEMMA ThreadsInvNext == ThreadsInv /\ [Next]_vars => ThreadsInv'
<1> SUFFICES ASSUME ThreadsInv, [Next]_vars PROVE ThreadsInv'
  OBVIOUS
<1>1. CASE Next
  BY <1>1, TypesStep, RunningStep, PlacesStep, ZombiesStep, ChildrenStep, CwdsStep,
     CountsStep, FlagsStep
  DEF ThreadsInv
<1>2. CASE UNCHANGED vars
  BY <1>2 DEF vars, ThreadsInv, Types, Running, Places, Zombies, Children, Cwds,
              Counts, Flags, Live
<1> QED BY <1>1, <1>2

\* The inductive invariant holds in every reachable state of the thread system:
\* every created thread stands on the one list its state allows, the zombies are
\* the exited threads, a structure being filled in belongs to one thread_fork, the
\* counts count what they should, and in_interrupt follows the switches.
THEOREM ThreadsInvariant == Spec => []ThreadsInv
  BY ThreadsInvInit, ThreadsInvNext, PTL DEF Spec

\* No thread is lost, on two lists, twice on one, or on a list after it was freed,
\* through any interleaving of forks, exits, sleeps, wakeup loops and interrupts.
THEOREM ThreadsOnOneList == Spec => []OneList
<1>1. ThreadsInv => OneList
  <2> SUFFICES ASSUME ThreadsInv, ~halted PROVE OneList
    BY DEF OneList
  <2> SUFFICES ASSUME NEW t \in Thread
      PROVE LET inr == {i \in DOMAIN runqueue : runqueue[i] = t}
                ins == {i \in DOMAIN sleepers : sleepers[i] = t}
                inz == {i \in DOMAIN zombies : zombies[i] = t}
                places == Cardinality(inr) + Cardinality(ins) + Cardinality(inz)
                          + (IF curthread = t THEN 1 ELSE 0)
            IN CASE stat[t] \in {"none", "freed", "fork", "fail"} -> places = 0
                 [] stat[t] = "func" -> curthread = t /\ places = 1
                 [] stat[t] \in {"new", "yield", "intr"} -> places = 1 /\ inr # {}
                 [] stat[t] = "sleep" -> places = 1 /\ inr \cup ins # {}
                 [] stat[t] = "exit" -> places = 1 /\ inz # {}
    BY DEF OneList
  <2> DEFINE inr == {i \in DOMAIN runqueue : runqueue[i] = t}
             ins == {i \in DOMAIN sleepers : sleepers[i] = t}
             inz == {i \in DOMAIN zombies : zombies[i] = t}
  <2>1. /\ t \in ToSet(runqueue) => Cardinality(inr) = 1 /\ inr # {}
        /\ t \notin ToSet(runqueue) => Cardinality(inr) = 0 /\ inr = {}
    BY CountInList DEF ThreadsInv, Types, Places
  <2>2. /\ t \in ToSet(sleepers) => Cardinality(ins) = 1 /\ ins # {}
        /\ t \notin ToSet(sleepers) => Cardinality(ins) = 0 /\ ins = {}
    BY CountInList DEF ThreadsInv, Types, Places
  <2>3. /\ t \in ToSet(zombies) => Cardinality(inz) = 1 /\ inz # {}
        /\ t \notin ToSet(zombies) => Cardinality(inz) = 0 /\ inz = {}
    BY CountInList DEF ThreadsInv, Types, Zombies
  <2> HIDE DEF inr, ins, inz
  <2>4. stat[t] \in Stats
    BY DEF ThreadsInv, Types
  <2>5. (curthread = t <=> stat[t] = "func") /\ (t \in ToSet(zombies) <=> stat[t] = "exit")
    BY DEF ThreadsInv, Running, Zombies
  <2>6. /\ t \in ToSet(runqueue) =>
              stat[t] \in {"new", "yield", "intr", "sleep"} /\ t \notin ToSet(sleepers)
        /\ t \in ToSet(sleepers) => stat[t] = "sleep"
        /\ stat[t] \in {"new", "yield", "intr"} => t \in ToSet(runqueue)
        /\ stat[t] = "sleep" => t \in ToSet(runqueue) \cup ToSet(sleepers)
    BY DEF ThreadsInv, Places
  <2>7. CASE stat[t] \in {"none", "freed", "fork", "fail"}
    <3>1. Cardinality(inr) = 0 /\ Cardinality(ins) = 0 /\ Cardinality(inz) = 0 /\ curthread # t
      BY <2>1, <2>2, <2>3, <2>5, <2>6, <2>7
    <3>2. CASE stat[t] = "none"
      BY <3>1, <3>2 DEF inr, ins, inz
    <3>3. CASE stat[t] = "freed"
      BY <3>1, <3>3 DEF inr, ins, inz
    <3>4. CASE stat[t] = "fork"
      BY <3>1, <3>4 DEF inr, ins, inz
    <3>5. CASE stat[t] = "fail"
      BY <3>1, <3>5 DEF inr, ins, inz
    <3> QED BY <2>7, <3>2, <3>3, <3>4, <3>5
  <2>8. CASE stat[t] = "func"
    <3>1. Cardinality(inr) = 0 /\ Cardinality(ins) = 0 /\ Cardinality(inz) = 0 /\ curthread = t
      BY <2>1, <2>2, <2>3, <2>5, <2>6, <2>8
    <3> QED BY <2>8, <3>1 DEF inr, ins, inz
  <2>9. CASE stat[t] \in {"new", "yield", "intr"}
    <3>1. Cardinality(inr) = 1 /\ Cardinality(ins) = 0 /\ Cardinality(inz) = 0 /\ curthread # t
          /\ inr # {}
      BY <2>1, <2>2, <2>3, <2>5, <2>6, <2>9
    <3>2. CASE stat[t] = "new"
      BY <3>1, <3>2 DEF inr, ins, inz
    <3>3. CASE stat[t] = "yield"
      BY <3>1, <3>3 DEF inr, ins, inz
    <3>4. CASE stat[t] = "intr"
      BY <3>1, <3>4 DEF inr, ins, inz
    <3> QED BY <2>9, <3>2, <3>3, <3>4
  <2>10. CASE stat[t] = "sleep"
    <3>1. Cardinality(inz) = 0 /\ curthread # t
      BY <2>3, <2>5, <2>10
    <3>2. CASE t \in ToSet(runqueue)
      <4>1. Cardinality(inr) = 1 /\ Cardinality(ins) = 0 /\ inr # {}
        BY <2>1, <2>2, <2>6, <3>2
      <4> QED BY <2>10, <3>1, <4>1 DEF inr, ins, inz
    <3>3. CASE t \notin ToSet(runqueue)
      <4>1. Cardinality(inr) = 0 /\ Cardinality(ins) = 1 /\ ins # {}
        BY <2>1, <2>2, <2>6, <2>10, <3>3
      <4> QED BY <2>10, <3>1, <4>1 DEF inr, ins, inz
    <3> QED BY <3>2, <3>3
  <2>11. CASE stat[t] = "exit"
    <3>1. Cardinality(inr) = 0 /\ Cardinality(ins) = 0 /\ Cardinality(inz) = 1 /\ curthread # t
          /\ inz # {}
      BY <2>1, <2>2, <2>3, <2>5, <2>6, <2>11
    <3> QED BY <2>11, <3>1 DEF inr, ins, inz
  <2> QED BY <2>4, <2>7, <2>8, <2>9, <2>10, <2>11 DEF Stats
<1> QED BY <1>1, ThreadsInvariant, PTL

\* exorcise never frees the stack that code runs on: a thread that exits becomes a
\* zombie before mi_switch leaves its stack, and is freed by another thread.
THEOREM StackNeverFreed == Spec => []StackInUse
<1>1. ThreadsInv => StackInUse
  BY DEF ThreadsInv, Running, StackInUse
<1> QED BY <1>1, ThreadsInvariant, PTL

\* numthreads and the references of the current directory count what they should,
\* through forks that fail half way, exits that sleep in the VOP_DECREF of
\* thread_exit before numthreads--, and reaping.
THEOREM ThreadCounts == Spec => []CountsOK
<1>1. ThreadsInv => CountsOK
  <2> SUFFICES ASSUME ThreadsInv PROVE CountsOK
    OBVIOUS
  <2>1. numthreads \in Nat
    BY LiveFinite DEF ThreadsInv, Counts
  <2>2. cwdrefs \in Nat
    BY ThreadFinite, FS_Subset, FS_CardinalityType DEF ThreadsInv, Types, Counts
  <2>3. t_cwd \cap ToSet(zombies) = {}
    BY DEF ThreadsInv, Types, Zombies, Cwds
  <2> QED BY <2>1, <2>2, <2>3 DEF ThreadsInv, Types, TypeOK, Counts, CountsOK
<1> QED BY <1>1, ThreadsInvariant, PTL

\* No assert of thread_sleep, thread_exit or exorcise fails, and in_interrupt is
\* clear whenever a thread runs its function, whatever handler it was switched out
\* in.
THEOREM InterruptFlagFollows == Spec => []InterruptFlagOK
<1>1. ThreadsInv => InterruptFlagOK
  BY DEF ThreadsInv, Flags, InterruptFlagOK
<1> QED BY <1>1, ThreadsInvariant, PTL
=============================================================================
