---------------------------- MODULE SynchProofs ----------------------------
(***************************************************************************)
(* Machine-checked proofs about Synch, for any number of threads,          *)
(* semaphores, locks and condition variables.                              *)
(***************************************************************************)
EXTENDS Synch, ListLemmas

\* The threads can be put in the run queue in some order, each once.
LEMMA InitialQueue ==
    ASSUME NEW q \in Bijection(1..Cardinality(Thread), Thread)
    PROVE  /\ q \in Seq(Thread)
           /\ \A i, j \in DOMAIN q : q[i] = q[j] => i = j
           /\ \A t \in Thread : \E i \in DOMAIN q : q[i] = t
  BY ThreadFinite, FS_CardinalityType
  DEF Bijection, Injection, Surjection, IsInjective
----------------------------------------------------------------------------

USE DEF SPL_HIGH

Frames == \A t \in Thread : FrameOK(t)

\* Every step leaves the local variables of every thread as FrameOK says.
LEMMA FrameStep ==
    ASSUME TypeOK, Frames, SplOK, Next
    PROVE  Frames'
<1> SUFFICES ASSUME NEW u \in Thread PROVE FrameOK(u)'
  BY DEF Frames
<1>1. ASSUME NEW t \in Thread, NEW s \in Sem, P_enter(t, s)
      PROVE  FrameOK(u)'
  BY <1>1, ObjectsDistinct
  DEF P_enter, At, splhigh, Goto, TypeOK, Frames, FrameOK, SplOK, Spl
<1>2. ASSUME NEW t \in Thread, P_sleep(t)
      PROVE  FrameOK(u)'
  BY <1>2, ObjectsDistinct
  DEF P_sleep, At, thread_sleep, SwitchSleep, TypeOK, Frames, FrameOK, SplOK,
      Spl
<1>3. ASSUME NEW t \in Thread, P_take(t)
      PROVE  FrameOK(u)'
  BY <1>3, ObjectsDistinct
  DEF P_take, At, splx, Goto, TypeOK, Frames, FrameOK, SplOK, Spl
<1>4. ASSUME NEW t \in Thread, NEW s \in Sem, V_enter(t, s)
      PROVE  FrameOK(u)'
  BY <1>4, ObjectsDistinct
  DEF V_enter, At, splhigh, Goto, TypeOK, Frames, FrameOK, SplOK, Spl
<1>5. ASSUME NEW t \in Thread, V_exit(t)
      PROVE  FrameOK(u)'
  BY <1>5, ObjectsDistinct
  DEF V_exit, At, splx, Goto, TypeOK, Frames, FrameOK, SplOK, Spl
<1>6. ASSUME NEW t \in Thread, NEW l \in Lock, acquire_enter(t, l)
      PROVE  FrameOK(u)'
  BY <1>6, ObjectsDistinct
  DEF acquire_enter, At, EnterAcquire, splhigh, Goto, TypeOK, Frames, FrameOK,
      SplOK, Spl
<1>7. ASSUME NEW t \in Thread, acquire_sleep(t)
      PROVE  FrameOK(u)'
  BY <1>7, ObjectsDistinct
  DEF acquire_sleep, At, thread_sleep, SwitchSleep, TypeOK, Frames, FrameOK,
      SplOK, Spl
<1>8. ASSUME NEW t \in Thread, acquire_take(t)
      PROVE  FrameOK(u)'
  BY <1>8, ObjectsDistinct
  DEF acquire_take, At, splx, Goto, TypeOK, Frames, FrameOK, SplOK, Spl
<1>9. ASSUME NEW t \in Thread, NEW l \in Lock, release_check(t, l)
      PROVE  FrameOK(u)'
  BY <1>9, ObjectsDistinct
  DEF release_check, At, ReleaseCheck, Goto, TypeOK, Frames, FrameOK, SplOK, Spl
<1>10. ASSUME NEW t \in Thread, release_do(t)
      PROVE  FrameOK(u)'
  BY <1>10, ObjectsDistinct
  DEF release_do, At, splhigh, Goto, TypeOK, Frames, FrameOK, SplOK, Spl
<1>11. ASSUME NEW t \in Thread, release_exit(t)
      PROVE  FrameOK(u)'
  BY <1>11, ObjectsDistinct
  DEF release_exit, At, splx, Goto, TypeOK, Frames, FrameOK, SplOK, Spl
<1>12. ASSUME NEW t \in Thread, NEW c \in CV, NEW l \in Lock, cv_wait_enter(t, c, l)
      PROVE  FrameOK(u)'
  BY <1>12, ObjectsDistinct
  DEF cv_wait_enter, At, splhigh, ReleaseCheck, Goto, TypeOK, Frames, FrameOK,
      SplOK, Spl
<1>13. ASSUME NEW t \in Thread, cv_wait_sleep(t)
      PROVE  FrameOK(u)'
  BY <1>13, ObjectsDistinct
  DEF cv_wait_sleep, At, thread_sleep, SwitchSleep, Goto, TypeOK, Frames,
      FrameOK, SplOK, Spl
<1>14. ASSUME NEW t \in Thread, cv_wait_reacquire(t)
      PROVE  FrameOK(u)'
  BY <1>14, ObjectsDistinct
  DEF cv_wait_reacquire, At, EnterAcquire, splhigh, Goto, TypeOK, Frames,
      FrameOK, SplOK, Spl
<1>15. ASSUME NEW t \in Thread, cv_wait_exit(t)
      PROVE  FrameOK(u)'
  BY <1>15, ObjectsDistinct
  DEF cv_wait_exit, At, splx, Goto, TypeOK, Frames, FrameOK, SplOK, Spl
<1>16. ASSUME NEW t \in Thread, NEW c \in CV, NEW l \in Lock, cv_signal_enter(t, c, l)
      PROVE  FrameOK(u)'
  BY <1>16, ObjectsDistinct
  DEF cv_signal_enter, NotifyEnter, At, splhigh, Goto, TypeOK, Frames, FrameOK,
      SplOK, Spl
<1>17. ASSUME NEW t \in Thread, NEW c \in CV, NEW l \in Lock, cv_broadcast_enter(t, c, l)
      PROVE  FrameOK(u)'
  BY <1>17, ObjectsDistinct
  DEF cv_broadcast_enter, NotifyEnter, At, splhigh, Goto, TypeOK, Frames,
      FrameOK, SplOK, Spl
<1>18. ASSUME NEW t \in Thread, cv_signal_wake(t)
      PROVE  FrameOK(u)'
  BY <1>18, ObjectsDistinct
  DEF cv_signal_wake, At, NotifyExit, splx, Goto, FirstSleeper, TypeOK, Frames,
      FrameOK, SplOK, Spl
<1>19. ASSUME NEW t \in Thread, cv_notify_exit(t)
      PROVE  FrameOK(u)'
  BY <1>19, ObjectsDistinct
  DEF cv_notify_exit, At, NotifyExit, splx, Goto, TypeOK, Frames, FrameOK,
      SplOK, Spl
<1>20. ASSUME NEW t \in Thread, thread_wakeup(t)
      PROVE  FrameOK(u)'
  BY <1>20, ObjectsDistinct
  DEF thread_wakeup, WakeNext, TypeOK, Frames, FrameOK, SplOK, Spl
<1>21. ASSUME Preempt
      PROVE  FrameOK(u)'
  BY <1>21, ObjectsDistinct
  DEF Preempt, SwitchReady, TypeOK, Frames, FrameOK, SplOK, Spl
<1>22. ASSUME IdleTick
      PROVE  FrameOK(u)'
  BY <1>22, ObjectsDistinct
  DEF IdleTick, vars, TypeOK, Frames, FrameOK, SplOK, Spl
<1>23. ASSUME Schedule
      PROVE  FrameOK(u)'
  BY <1>23, ObjectsDistinct
  DEF Schedule, Dispatch, TypeOK, Frames, FrameOK, SplOK, Spl
<1>24. ASSUME NEW s \in Sem, IntrV_enter(s)
      PROVE  FrameOK(u)'
  BY <1>24, ObjectsDistinct
  DEF IntrV_enter, InterruptsOn, Idle, TypeOK, Frames, FrameOK, SplOK, Spl
<1>25. ASSUME IntrV_wake
      PROVE  FrameOK(u)'
  BY <1>25, ObjectsDistinct
  DEF IntrV_wake, WakeNext, TypeOK, Frames, FrameOK, SplOK, Spl
<1>26. ASSUME IntrV_exit
      PROVE  FrameOK(u)'
  BY <1>26, ObjectsDistinct DEF IntrV_exit, TypeOK, Frames, FrameOK, SplOK, Spl
<1> QED
  BY <1>1, <1>2, <1>3, <1>4, <1>5, <1>6, <1>7, <1>8, <1>9,
     <1>10, <1>11, <1>12, <1>13, <1>14, <1>15, <1>16, <1>17, <1>18,
     <1>19, <1>20, <1>21, <1>22, <1>23, <1>24, <1>25, <1>26
  DEF Next, Call, Continue, Interrupt

\* Every step leaves interrupts off where the code relies on it.
LEMMA SplStep ==
    ASSUME TypeOK, Frames, SplOK, OnePlace, Next
    PROVE  SplOK'
<1>1. ASSUME NEW t \in Thread, NEW s \in Sem, P_enter(t, s)
      PROVE  SplOK'
  BY <1>1, NullNotThread, ObjectsDistinct
  DEF P_enter, At, splhigh, Goto, ListsUnchanged, TypeOK, Frames, FrameOK,
      SplOK, Spl
<1>2. ASSUME NEW t \in Thread, P_sleep(t)
      PROVE  SplOK'
  BY <1>2, NullNotThread, ObjectsDistinct
  DEF P_sleep, At, thread_sleep, SwitchSleep, TypeOK, Frames, FrameOK, SplOK,
      Spl
<1>3. ASSUME NEW t \in Thread, P_take(t)
      PROVE  SplOK'
  BY <1>3, NullNotThread, ObjectsDistinct
  DEF P_take, At, splx, Goto, ListsUnchanged, TypeOK, Frames, FrameOK, SplOK,
      Spl
<1>4. ASSUME NEW t \in Thread, NEW s \in Sem, V_enter(t, s)
      PROVE  SplOK'
  BY <1>4, NullNotThread, ObjectsDistinct
  DEF V_enter, At, splhigh, Goto, ListsUnchanged, TypeOK, Frames, FrameOK,
      SplOK, Spl
<1>5. ASSUME NEW t \in Thread, V_exit(t)
      PROVE  SplOK'
  BY <1>5, NullNotThread, ObjectsDistinct
  DEF V_exit, At, splx, Goto, ListsUnchanged, TypeOK, Frames, FrameOK, SplOK,
      Spl
<1>6. ASSUME NEW t \in Thread, NEW l \in Lock, acquire_enter(t, l)
      PROVE  SplOK'
  BY <1>6, NullNotThread, ObjectsDistinct
  DEF acquire_enter, At, EnterAcquire, splhigh, Goto, ListsUnchanged, TypeOK,
      Frames, FrameOK, SplOK, Spl
<1>7. ASSUME NEW t \in Thread, acquire_sleep(t)
      PROVE  SplOK'
  BY <1>7, NullNotThread, ObjectsDistinct
  DEF acquire_sleep, At, thread_sleep, SwitchSleep, TypeOK, Frames, FrameOK,
      SplOK, Spl
<1>8. ASSUME NEW t \in Thread, acquire_take(t)
      PROVE  SplOK'
  BY <1>8, NullNotThread, ObjectsDistinct
  DEF acquire_take, At, splx, Goto, ListsUnchanged, TypeOK, Frames, FrameOK,
      SplOK, Spl
<1>9. ASSUME NEW t \in Thread, NEW l \in Lock, release_check(t, l)
      PROVE  SplOK'
  BY <1>9, NullNotThread, ObjectsDistinct
  DEF release_check, At, ReleaseCheck, Goto, ListsUnchanged, TypeOK, Frames,
      FrameOK, SplOK, Spl
<1>10. ASSUME NEW t \in Thread, release_do(t)
      PROVE  SplOK'
  BY <1>10, NullNotThread, ObjectsDistinct
  DEF release_do, At, splhigh, Goto, ListsUnchanged, TypeOK, Frames, FrameOK,
      SplOK, Spl
<1>11. ASSUME NEW t \in Thread, release_exit(t)
      PROVE  SplOK'
  BY <1>11, NullNotThread, ObjectsDistinct
  DEF release_exit, At, splx, Goto, ListsUnchanged, TypeOK, Frames, FrameOK,
      SplOK, Spl
<1>12. ASSUME NEW t \in Thread, NEW c \in CV, NEW l \in Lock, cv_wait_enter(t, c, l)
      PROVE  SplOK'
  BY <1>12, NullNotThread, ObjectsDistinct
  DEF cv_wait_enter, At, splhigh, ReleaseCheck, Goto, ListsUnchanged, TypeOK,
      Frames, FrameOK, SplOK, Spl
<1>13. ASSUME NEW t \in Thread, cv_wait_sleep(t)
      PROVE  SplOK'
  BY <1>13, NullNotThread, ObjectsDistinct
  DEF cv_wait_sleep, At, thread_sleep, SwitchSleep, Goto, TypeOK, Frames,
      FrameOK, SplOK, Spl
<1>14. ASSUME NEW t \in Thread, cv_wait_reacquire(t)
      PROVE  SplOK'
  BY <1>14, NullNotThread, ObjectsDistinct
  DEF cv_wait_reacquire, At, EnterAcquire, splhigh, Goto, ListsUnchanged,
      TypeOK, Frames, FrameOK, SplOK, Spl
<1>15. ASSUME NEW t \in Thread, cv_wait_exit(t)
      PROVE  SplOK'
  BY <1>15, NullNotThread, ObjectsDistinct
  DEF cv_wait_exit, At, splx, Goto, ListsUnchanged, TypeOK, Frames, FrameOK,
      SplOK, Spl
<1>16. ASSUME NEW t \in Thread, NEW c \in CV, NEW l \in Lock, cv_signal_enter(t, c, l)
      PROVE  SplOK'
  BY <1>16, NullNotThread, ObjectsDistinct
  DEF cv_signal_enter, NotifyEnter, At, splhigh, Goto, ListsUnchanged, TypeOK,
      Frames, FrameOK, SplOK, Spl
<1>17. ASSUME NEW t \in Thread, NEW c \in CV, NEW l \in Lock, cv_broadcast_enter(t, c, l)
      PROVE  SplOK'
  BY <1>17, NullNotThread, ObjectsDistinct
  DEF cv_broadcast_enter, NotifyEnter, At, splhigh, Goto, ListsUnchanged,
      TypeOK, Frames, FrameOK, SplOK, Spl
<1>18. ASSUME NEW t \in Thread, cv_signal_wake(t)
      PROVE  SplOK'
  BY <1>18, NullNotThread, ObjectsDistinct
  DEF cv_signal_wake, At, NotifyExit, splx, Goto, FirstSleeper, TypeOK, Frames,
      FrameOK, SplOK, Spl
<1>19. ASSUME NEW t \in Thread, cv_notify_exit(t)
      PROVE  SplOK'
  BY <1>19, NullNotThread, ObjectsDistinct
  DEF cv_notify_exit, At, NotifyExit, splx, Goto, ListsUnchanged, TypeOK,
      Frames, FrameOK, SplOK, Spl
<1>20. ASSUME NEW t \in Thread, thread_wakeup(t)
      PROVE  SplOK'
  BY <1>20, NullNotThread, ObjectsDistinct
  DEF thread_wakeup, WakeNext, TypeOK, Frames, FrameOK, SplOK, Spl
<1>21. ASSUME Preempt
      PROVE  SplOK'
  BY <1>21, NullNotThread, ObjectsDistinct
  DEF Preempt, SwitchReady, TypeOK, Frames, FrameOK, SplOK, Spl
<1>22. ASSUME IdleTick
      PROVE  SplOK'
  BY <1>22, NullNotThread, ObjectsDistinct
  DEF IdleTick, vars, TypeOK, Frames, FrameOK, SplOK, Spl
<1>23. ASSUME Schedule
      PROVE  SplOK'
  BY <1>23, NullNotThread, ObjectsDistinct
  DEF Schedule, Dispatch, TypeOK, Frames, FrameOK, SplOK, Spl
<1>24. ASSUME NEW s \in Sem, IntrV_enter(s)
      PROVE  SplOK'
  BY <1>24, NullNotThread, ObjectsDistinct
  DEF IntrV_enter, InterruptsOn, Idle, ListsUnchanged, TypeOK, Frames, FrameOK,
      SplOK, Spl
<1>25. ASSUME IntrV_wake
      PROVE  SplOK'
  BY <1>25, NullNotThread, ObjectsDistinct
  DEF IntrV_wake, WakeNext, TypeOK, Frames, FrameOK, SplOK, Spl
<1>26. ASSUME IntrV_exit
      PROVE  SplOK'
  BY <1>26, NullNotThread, ObjectsDistinct
  DEF IntrV_exit, ListsUnchanged, TypeOK, Frames, FrameOK, SplOK, Spl
<1> QED
  BY <1>1, <1>2, <1>3, <1>4, <1>5, <1>6, <1>7, <1>8, <1>9,
     <1>10, <1>11, <1>12, <1>13, <1>14, <1>15, <1>16, <1>17, <1>18,
     <1>19, <1>20, <1>21, <1>22, <1>23, <1>24, <1>25, <1>26
  DEF Next, Call, Continue, Interrupt

\* The owner of every lock stays the thread that holds it.
LEMMA OwnerStep ==
    ASSUME TypeOK, Frames, OwnerOK, Next
    PROVE  OwnerOK'
<1>1. ASSUME NEW t \in Thread, NEW s \in Sem, P_enter(t, s)
      PROVE  OwnerOK'
  BY <1>1, NullNotThread, ObjectsDistinct
  DEF P_enter, At, splhigh, Goto, TypeOK, Frames, FrameOK, OwnerOK
<1>2. ASSUME NEW t \in Thread, P_sleep(t)
      PROVE  OwnerOK'
  BY <1>2, NullNotThread, ObjectsDistinct
  DEF P_sleep, At, thread_sleep, SwitchSleep, TypeOK, Frames, FrameOK, OwnerOK
<1>3. ASSUME NEW t \in Thread, P_take(t)
      PROVE  OwnerOK'
  BY <1>3, NullNotThread, ObjectsDistinct
  DEF P_take, At, splx, Goto, TypeOK, Frames, FrameOK, OwnerOK
<1>4. ASSUME NEW t \in Thread, NEW s \in Sem, V_enter(t, s)
      PROVE  OwnerOK'
  BY <1>4, NullNotThread, ObjectsDistinct
  DEF V_enter, At, splhigh, Goto, TypeOK, Frames, FrameOK, OwnerOK
<1>5. ASSUME NEW t \in Thread, V_exit(t)
      PROVE  OwnerOK'
  BY <1>5, NullNotThread, ObjectsDistinct
  DEF V_exit, At, splx, Goto, TypeOK, Frames, FrameOK, OwnerOK
<1>6. ASSUME NEW t \in Thread, NEW l \in Lock, acquire_enter(t, l)
      PROVE  OwnerOK'
  BY <1>6, NullNotThread, ObjectsDistinct
  DEF acquire_enter, At, EnterAcquire, splhigh, Goto, TypeOK, Frames, FrameOK,
      OwnerOK
<1>7. ASSUME NEW t \in Thread, acquire_sleep(t)
      PROVE  OwnerOK'
  BY <1>7, NullNotThread, ObjectsDistinct
  DEF acquire_sleep, At, thread_sleep, SwitchSleep, TypeOK, Frames, FrameOK,
      OwnerOK
<1>8. ASSUME NEW t \in Thread, acquire_take(t)
      PROVE  OwnerOK'
  BY <1>8, NullNotThread, ObjectsDistinct
  DEF acquire_take, At, splx, Goto, TypeOK, Frames, FrameOK, OwnerOK
<1>9. ASSUME NEW t \in Thread, NEW l \in Lock, release_check(t, l)
      PROVE  OwnerOK'
  BY <1>9, NullNotThread, ObjectsDistinct
  DEF release_check, At, ReleaseCheck, Goto, TypeOK, Frames, FrameOK, OwnerOK
<1>10. ASSUME NEW t \in Thread, release_do(t)
      PROVE  OwnerOK'
  BY <1>10, NullNotThread, ObjectsDistinct
  DEF release_do, At, splhigh, Goto, TypeOK, Frames, FrameOK, OwnerOK
<1>11. ASSUME NEW t \in Thread, release_exit(t)
      PROVE  OwnerOK'
  <2>1. CASE obj[t] \in CV
    BY <1>11, <2>1, NullNotThread
    DEF release_exit, At, splx, Goto, TypeOK, OwnerOK
  <2>2. CASE obj[t] \notin CV
    <3>1. /\ lk' = [lk EXCEPT ![t] = NULL] /\ pc' = [pc EXCEPT ![t] = "run"]
          /\ UNCHANGED <<lock_owner, held>>
      BY <1>11, <2>2 DEF release_exit, Goto
    <3>2. NULL \notin held[t]
      BY ObjectsDistinct DEF TypeOK
    <3>3. pc[t] = "rel_wake"
      BY <1>11 DEF release_exit, At
    <3> QED BY <3>1, <3>2, <3>3 DEF TypeOK, OwnerOK
  <2> QED BY <2>1, <2>2
<1>12. ASSUME NEW t \in Thread, NEW c \in CV, NEW l \in Lock, cv_wait_enter(t, c, l)
      PROVE  OwnerOK'
  BY <1>12, NullNotThread, ObjectsDistinct
  DEF cv_wait_enter, At, splhigh, ReleaseCheck, Goto, TypeOK, Frames, FrameOK,
      OwnerOK
<1>13. ASSUME NEW t \in Thread, cv_wait_sleep(t)
      PROVE  OwnerOK'
  BY <1>13, NullNotThread, ObjectsDistinct
  DEF cv_wait_sleep, At, thread_sleep, SwitchSleep, Goto, TypeOK, Frames,
      FrameOK, OwnerOK
<1>14. ASSUME NEW t \in Thread, cv_wait_reacquire(t)
      PROVE  OwnerOK'
  BY <1>14, NullNotThread, ObjectsDistinct
  DEF cv_wait_reacquire, At, EnterAcquire, splhigh, Goto, TypeOK, Frames,
      FrameOK, OwnerOK
<1>15. ASSUME NEW t \in Thread, cv_wait_exit(t)
      PROVE  OwnerOK'
  BY <1>15, NullNotThread, ObjectsDistinct
  DEF cv_wait_exit, At, splx, Goto, TypeOK, Frames, FrameOK, OwnerOK
<1>16. ASSUME NEW t \in Thread, NEW c \in CV, NEW l \in Lock, cv_signal_enter(t, c, l)
      PROVE  OwnerOK'
  BY <1>16, NullNotThread, ObjectsDistinct
  DEF cv_signal_enter, NotifyEnter, At, splhigh, Goto, TypeOK, Frames, FrameOK,
      OwnerOK
<1>17. ASSUME NEW t \in Thread, NEW c \in CV, NEW l \in Lock, cv_broadcast_enter(t, c, l)
      PROVE  OwnerOK'
  BY <1>17, NullNotThread, ObjectsDistinct
  DEF cv_broadcast_enter, NotifyEnter, At, splhigh, Goto, TypeOK, Frames,
      FrameOK, OwnerOK
<1>18. ASSUME NEW t \in Thread, cv_signal_wake(t)
      PROVE  OwnerOK'
  BY <1>18, NullNotThread, ObjectsDistinct
  DEF cv_signal_wake, At, NotifyExit, splx, Goto, FirstSleeper, TypeOK, Frames,
      FrameOK, OwnerOK
<1>19. ASSUME NEW t \in Thread, cv_notify_exit(t)
      PROVE  OwnerOK'
  BY <1>19, NullNotThread, ObjectsDistinct
  DEF cv_notify_exit, At, NotifyExit, splx, Goto, TypeOK, Frames, FrameOK,
      OwnerOK
<1>20. ASSUME NEW t \in Thread, thread_wakeup(t)
      PROVE  OwnerOK'
  BY <1>20, NullNotThread, ObjectsDistinct
  DEF thread_wakeup, WakeNext, TypeOK, Frames, FrameOK, OwnerOK
<1>21. ASSUME Preempt
      PROVE  OwnerOK'
  BY <1>21, NullNotThread, ObjectsDistinct
  DEF Preempt, SwitchReady, TypeOK, Frames, FrameOK, OwnerOK
<1>22. ASSUME IdleTick
      PROVE  OwnerOK'
  BY <1>22, NullNotThread, ObjectsDistinct
  DEF IdleTick, vars, TypeOK, Frames, FrameOK, OwnerOK
<1>23. ASSUME Schedule
      PROVE  OwnerOK'
  BY <1>23, NullNotThread, ObjectsDistinct
  DEF Schedule, Dispatch, TypeOK, Frames, FrameOK, OwnerOK
<1>24. ASSUME NEW s \in Sem, IntrV_enter(s)
      PROVE  OwnerOK'
  BY <1>24, NullNotThread, ObjectsDistinct
  DEF IntrV_enter, InterruptsOn, Idle, TypeOK, Frames, FrameOK, OwnerOK
<1>25. ASSUME IntrV_wake
      PROVE  OwnerOK'
  BY <1>25, NullNotThread, ObjectsDistinct
  DEF IntrV_wake, WakeNext, TypeOK, Frames, FrameOK, OwnerOK
<1>26. ASSUME IntrV_exit
      PROVE  OwnerOK'
  BY <1>26, NullNotThread, ObjectsDistinct
  DEF IntrV_exit, TypeOK, Frames, FrameOK, OwnerOK
<1> QED
  BY <1>1, <1>2, <1>3, <1>4, <1>5, <1>6, <1>7, <1>8, <1>9,
     <1>10, <1>11, <1>12, <1>13, <1>14, <1>15, <1>16, <1>17, <1>18,
     <1>19, <1>20, <1>21, <1>22, <1>23, <1>24, <1>25, <1>26
  DEF Next, Call, Continue, Interrupt

\* No step reaches a panic or a failing assert.
LEMMA PanicStep ==
    ASSUME TypeOK, Frames, SplOK, OwnerOK, NoPanic, Next
    PROVE  NoPanic'
<1>1. ASSUME NEW t \in Thread, NEW s \in Sem, P_enter(t, s)
      PROVE  NoPanic'
  BY <1>1, NullNotThread, ObjectsDistinct
  DEF P_enter, At, splhigh, Goto, TypeOK, Frames, FrameOK, SplOK, Spl, OwnerOK,
      NoPanic
<1>2. ASSUME NEW t \in Thread, P_sleep(t)
      PROVE  NoPanic'
  BY <1>2, NullNotThread, ObjectsDistinct
  DEF P_sleep, At, thread_sleep, SwitchSleep, TypeOK, Frames, FrameOK, SplOK,
      Spl, OwnerOK, NoPanic
<1>3. ASSUME NEW t \in Thread, P_take(t)
      PROVE  NoPanic'
  BY <1>3, NullNotThread, ObjectsDistinct
  DEF P_take, At, splx, Goto, TypeOK, Frames, FrameOK, SplOK, Spl, OwnerOK,
      NoPanic
<1>4. ASSUME NEW t \in Thread, NEW s \in Sem, V_enter(t, s)
      PROVE  NoPanic'
  BY <1>4, NullNotThread, ObjectsDistinct
  DEF V_enter, At, splhigh, Goto, TypeOK, Frames, FrameOK, SplOK, Spl, OwnerOK,
      NoPanic
<1>5. ASSUME NEW t \in Thread, V_exit(t)
      PROVE  NoPanic'
  BY <1>5, NullNotThread, ObjectsDistinct
  DEF V_exit, At, splx, Goto, TypeOK, Frames, FrameOK, SplOK, Spl, OwnerOK,
      NoPanic
<1>6. ASSUME NEW t \in Thread, NEW l \in Lock, acquire_enter(t, l)
      PROVE  NoPanic'
  BY <1>6, NullNotThread, ObjectsDistinct
  DEF acquire_enter, At, EnterAcquire, splhigh, Goto, TypeOK, Frames, FrameOK,
      SplOK, Spl, OwnerOK, NoPanic
<1>7. ASSUME NEW t \in Thread, acquire_sleep(t)
      PROVE  NoPanic'
  BY <1>7, NullNotThread, ObjectsDistinct
  DEF acquire_sleep, At, thread_sleep, SwitchSleep, TypeOK, Frames, FrameOK,
      SplOK, Spl, OwnerOK, NoPanic
<1>8. ASSUME NEW t \in Thread, acquire_take(t)
      PROVE  NoPanic'
  BY <1>8, NullNotThread, ObjectsDistinct
  DEF acquire_take, At, splx, Goto, TypeOK, Frames, FrameOK, SplOK, Spl,
      OwnerOK, NoPanic
<1>9. ASSUME NEW t \in Thread, NEW l \in Lock, release_check(t, l)
      PROVE  NoPanic'
  BY <1>9, NullNotThread, ObjectsDistinct
  DEF release_check, At, ReleaseCheck, Goto, TypeOK, Frames, FrameOK, SplOK,
      Spl, OwnerOK, NoPanic
<1>10. ASSUME NEW t \in Thread, release_do(t)
      PROVE  NoPanic'
  BY <1>10, NullNotThread, ObjectsDistinct
  DEF release_do, At, splhigh, Goto, TypeOK, Frames, FrameOK, SplOK, Spl,
      OwnerOK, NoPanic
<1>11. ASSUME NEW t \in Thread, release_exit(t)
      PROVE  NoPanic'
  BY <1>11, NullNotThread, ObjectsDistinct
  DEF release_exit, At, splx, Goto, TypeOK, Frames, FrameOK, SplOK, Spl,
      OwnerOK, NoPanic
<1>12. ASSUME NEW t \in Thread, NEW c \in CV, NEW l \in Lock, cv_wait_enter(t, c, l)
      PROVE  NoPanic'
  BY <1>12, NullNotThread, ObjectsDistinct
  DEF cv_wait_enter, At, splhigh, ReleaseCheck, Goto, TypeOK, Frames, FrameOK,
      SplOK, Spl, OwnerOK, NoPanic
<1>13. ASSUME NEW t \in Thread, cv_wait_sleep(t)
      PROVE  NoPanic'
  BY <1>13, NullNotThread, ObjectsDistinct
  DEF cv_wait_sleep, At, thread_sleep, SwitchSleep, Goto, TypeOK, Frames,
      FrameOK, SplOK, Spl, OwnerOK, NoPanic
<1>14. ASSUME NEW t \in Thread, cv_wait_reacquire(t)
      PROVE  NoPanic'
  BY <1>14, NullNotThread, ObjectsDistinct
  DEF cv_wait_reacquire, At, EnterAcquire, splhigh, Goto, TypeOK, Frames,
      FrameOK, SplOK, Spl, OwnerOK, NoPanic
<1>15. ASSUME NEW t \in Thread, cv_wait_exit(t)
      PROVE  NoPanic'
  BY <1>15, NullNotThread, ObjectsDistinct
  DEF cv_wait_exit, At, splx, Goto, TypeOK, Frames, FrameOK, SplOK, Spl,
      OwnerOK, NoPanic
<1>16. ASSUME NEW t \in Thread, NEW c \in CV, NEW l \in Lock, cv_signal_enter(t, c, l)
      PROVE  NoPanic'
  BY <1>16, NullNotThread, ObjectsDistinct
  DEF cv_signal_enter, NotifyEnter, At, splhigh, Goto, TypeOK, Frames, FrameOK,
      SplOK, Spl, OwnerOK, NoPanic
<1>17. ASSUME NEW t \in Thread, NEW c \in CV, NEW l \in Lock, cv_broadcast_enter(t, c, l)
      PROVE  NoPanic'
  BY <1>17, NullNotThread, ObjectsDistinct
  DEF cv_broadcast_enter, NotifyEnter, At, splhigh, Goto, TypeOK, Frames,
      FrameOK, SplOK, Spl, OwnerOK, NoPanic
<1>18. ASSUME NEW t \in Thread, cv_signal_wake(t)
      PROVE  NoPanic'
  BY <1>18, NullNotThread, ObjectsDistinct
  DEF cv_signal_wake, At, NotifyExit, splx, Goto, FirstSleeper, TypeOK, Frames,
      FrameOK, SplOK, Spl, OwnerOK, NoPanic
<1>19. ASSUME NEW t \in Thread, cv_notify_exit(t)
      PROVE  NoPanic'
  BY <1>19, NullNotThread, ObjectsDistinct
  DEF cv_notify_exit, At, NotifyExit, splx, Goto, TypeOK, Frames, FrameOK,
      SplOK, Spl, OwnerOK, NoPanic
<1>20. ASSUME NEW t \in Thread, thread_wakeup(t)
      PROVE  NoPanic'
  BY <1>20, NullNotThread, ObjectsDistinct
  DEF thread_wakeup, WakeNext, TypeOK, Frames, FrameOK, SplOK, Spl, OwnerOK,
      NoPanic
<1>21. ASSUME Preempt
      PROVE  NoPanic'
  BY <1>21, NullNotThread, ObjectsDistinct
  DEF Preempt, SwitchReady, TypeOK, Frames, FrameOK, SplOK, Spl, OwnerOK,
      NoPanic
<1>22. ASSUME IdleTick
      PROVE  NoPanic'
  BY <1>22, NullNotThread, ObjectsDistinct
  DEF IdleTick, vars, TypeOK, Frames, FrameOK, SplOK, Spl, OwnerOK, NoPanic
<1>23. ASSUME Schedule
      PROVE  NoPanic'
  BY <1>23, NullNotThread, ObjectsDistinct
  DEF Schedule, Dispatch, TypeOK, Frames, FrameOK, SplOK, Spl, OwnerOK, NoPanic
<1>24. ASSUME NEW s \in Sem, IntrV_enter(s)
      PROVE  NoPanic'
  BY <1>24, NullNotThread, ObjectsDistinct
  DEF IntrV_enter, InterruptsOn, Idle, TypeOK, Frames, FrameOK, SplOK, Spl,
      OwnerOK, NoPanic
<1>25. ASSUME IntrV_wake
      PROVE  NoPanic'
  BY <1>25, NullNotThread, ObjectsDistinct
  DEF IntrV_wake, WakeNext, TypeOK, Frames, FrameOK, SplOK, Spl, OwnerOK,
      NoPanic
<1>26. ASSUME IntrV_exit
      PROVE  NoPanic'
  BY <1>26, NullNotThread, ObjectsDistinct
  DEF IntrV_exit, TypeOK, Frames, FrameOK, SplOK, Spl, OwnerOK, NoPanic
<1> QED
  BY <1>1, <1>2, <1>3, <1>4, <1>5, <1>6, <1>7, <1>8, <1>9,
     <1>10, <1>11, <1>12, <1>13, <1>14, <1>15, <1>16, <1>17, <1>18,
     <1>19, <1>20, <1>21, <1>22, <1>23, <1>24, <1>25, <1>26
  DEF Next, Call, Continue, Interrupt


----------------------------------------------------------------------------
(* The thread lists *)

\* A thread that goes to sleep leaves the CPU for the end of sleepers.
LEMMA SleepPlace ==
    ASSUME TypeOK, OnePlace, NEW t \in Thread, curthread = t,
           NEW a, SwitchSleep(t, a),
           pc'[t] \in {"P_loop", "acq_loop", "cvw_woken"},
           a = IF pc'[t] = "acq_loop" THEN lk[t] ELSE obj[t],
           UNCHANGED <<lk, obj>>, \A u \in Thread \ {t} : pc'[u] = pc[u]
    PROVE  OnePlace'
<1>1. /\ sleepers' \in Seq(Thread) /\ Len(sleepers') = Len(sleepers) + 1
      /\ \A j \in 1..Len(sleepers) : sleepers'[j] = sleepers[j]
      /\ sleepers'[Len(sleepers) + 1] = t
  BY DEF SwitchSleep, TypeOK
<1>2. DOMAIN sleepers = 1..Len(sleepers) /\ Len(sleepers) \in Nat
      /\ DOMAIN sleepers' = 1..(Len(sleepers) + 1)
  BY <1>1 DEF TypeOK
<1>3. \A j \in DOMAIN sleepers : sleepers[j] \in Thread /\ sleepers[j] # t
  BY DEF OnePlace, TypeOK
<1>4. \A i \in DOMAIN runqueue : runqueue[i] # t /\ runqueue[i] \in Thread
  BY DEF OnePlace, TypeOK
<1>5. runqueue' = runqueue /\ curthread' = NULL
      /\ t_sleepaddr' = [t_sleepaddr EXCEPT ![t] = a]
  BY DEF SwitchSleep
<1>6. \A i, j \in DOMAIN sleepers' : sleepers'[i] = sleepers'[j] => i = j
  BY <1>1, <1>2, <1>3 DEF OnePlace
<1>7. \A i \in DOMAIN runqueue', j \in DOMAIN sleepers' : runqueue'[i] # sleepers'[j]
  BY <1>1, <1>2, <1>4, <1>5 DEF OnePlace
<1>8. \A j \in DOMAIN sleepers' :
        /\ sleepers'[j] # curthread'
        /\ pc'[sleepers'[j]] \in {"P_loop", "acq_loop", "cvw_woken"}
        /\ t_sleepaddr'[sleepers'[j]] =
              IF pc'[sleepers'[j]] = "acq_loop" THEN lk'[sleepers'[j]]
                                                ELSE obj'[sleepers'[j]]
  <2> TAKE j \in DOMAIN sleepers'
  <2>1. CASE j \in DOMAIN sleepers
    BY <2>1, <1>1, <1>2, <1>3, <1>5, NullNotThread DEF OnePlace, TypeOK
  <2>2. CASE j = Len(sleepers) + 1
    BY <2>2, <1>1, <1>5, NullNotThread DEF TypeOK
  <2> QED BY <2>1, <2>2, <1>2
<1>9. \A u \in Thread : curthread' = u \/ Ready(u)' \/ Asleep(u)'
  <2> TAKE u \in Thread
  <2>1. CASE u = t
    BY <2>1, <1>1, <1>2 DEF Asleep
  <2>2. CASE u # t
    BY <2>2, <1>1, <1>2, <1>5 DEF OnePlace, Asleep, Ready
  <2> QED BY <2>1, <2>2
<1>10. \A i \in DOMAIN runqueue' : runqueue'[i] # curthread'
  BY <1>4, <1>5, NullNotThread
<1> QED BY <1>5, <1>6, <1>7, <1>8, <1>9, <1>10 DEF OnePlace

\* thread_wakeup moves one sleeper to the end of the run queue.
LEMMA WakePlace ==
    ASSUME TypeOK, OnePlace, NEW k \in DOMAIN sleepers,
           sleepers' = RemoveAt(sleepers, k),
           runqueue' = Append(runqueue, sleepers[k]),
           UNCHANGED <<curthread, t_sleepaddr, lk>>,
           \A u \in Thread \ {curthread} : pc'[u] = pc[u] /\ obj'[u] = obj[u]
    PROVE  OnePlace'
<1>1. /\ k \in 1..Len(sleepers) /\ Len(sleepers) \in Nat
      /\ DOMAIN sleepers = 1..Len(sleepers)
  BY DEF TypeOK
<1>2. /\ DOMAIN sleepers' = 1..(Len(sleepers) - 1)
      /\ \A j \in 1..(Len(sleepers) - 1) :
            sleepers'[j] = IF j < k THEN sleepers[j] ELSE sleepers[j + 1]
  BY <1>1, RemoveAtProperties DEF TypeOK
<1>3. /\ DOMAIN runqueue' = 1..(Len(runqueue) + 1)
      /\ DOMAIN runqueue = 1..Len(runqueue) /\ Len(runqueue) \in Nat
      /\ \A i \in 1..Len(runqueue) : runqueue'[i] = runqueue[i]
      /\ runqueue'[Len(runqueue) + 1] = sleepers[k]
  BY DEF TypeOK
<1> DEFINE up(j) == IF j < k THEN j ELSE j + 1
<1>4. \A j \in DOMAIN sleepers' :
         up(j) \in DOMAIN sleepers /\ up(j) # k /\ sleepers'[j] = sleepers[up(j)]
  BY <1>1, <1>2
<1>5. \A i, j \in DOMAIN sleepers' : up(i) = up(j) => i = j
  BY <1>1, <1>2
<1>6. \A j \in DOMAIN sleepers : j # k => \E i \in DOMAIN sleepers' : up(i) = j
  <2> TAKE j \in DOMAIN sleepers
  <2>1. CASE j < k
    BY <2>1, <1>1, <1>2
  <2>2. CASE j > k
    <3>1. j - 1 \in DOMAIN sleepers' /\ up(j - 1) = j
      BY <2>2, <1>1, <1>2
    <3> QED BY <3>1
  <2> QED BY <2>1, <2>2, <1>1
<1> HIDE DEF up
<1>7. \A i, j \in DOMAIN runqueue' : runqueue'[i] = runqueue'[j] => i = j
  BY <1>3 DEF OnePlace
<1>8. \A i, j \in DOMAIN sleepers' : sleepers'[i] = sleepers'[j] => i = j
  BY <1>4, <1>5 DEF OnePlace
<1>9. \A i \in DOMAIN runqueue', j \in DOMAIN sleepers' : runqueue'[i] # sleepers'[j]
  BY <1>3, <1>4 DEF OnePlace
<1>10. \A i \in DOMAIN runqueue' : runqueue'[i] # curthread'
  BY <1>3 DEF OnePlace
<1>11. \A j \in DOMAIN sleepers' :
        /\ sleepers'[j] # curthread'
        /\ pc'[sleepers'[j]] \in {"P_loop", "acq_loop", "cvw_woken"}
        /\ t_sleepaddr'[sleepers'[j]] =
              IF pc'[sleepers'[j]] = "acq_loop" THEN lk'[sleepers'[j]]
                                                ELSE obj'[sleepers'[j]]
  <2>1. \A j \in DOMAIN sleepers : sleepers[j] \in Thread \ {curthread}
    BY DEF OnePlace, TypeOK
  <2> QED BY <1>4, <2>1 DEF OnePlace
<1>12. \A u \in Thread : curthread' = u \/ Ready(u)' \/ Asleep(u)'
  <2> TAKE u \in Thread
  <2>1. CASE u = sleepers[k]
    BY <2>1, <1>3 DEF Ready
  <2>2. CASE u # sleepers[k] /\ Asleep(u)
    BY <2>2, <1>4, <1>6 DEF Asleep
  <2>3. CASE Ready(u)
    BY <2>3, <1>3 DEF Ready
  <2> QED BY <2>1, <2>2, <2>3 DEF OnePlace
<1> QED BY <1>7, <1>8, <1>9, <1>10, <1>11, <1>12 DEF OnePlace

\* The running thread goes to the end of the run queue when it is preempted.
LEMMA PreemptPlace ==
    ASSUME TypeOK, OnePlace, Preempt
    PROVE  OnePlace'
<1>1. /\ DOMAIN runqueue' = 1..(Len(runqueue) + 1)
      /\ DOMAIN runqueue = 1..Len(runqueue) /\ Len(runqueue) \in Nat
      /\ \A i \in 1..Len(runqueue) : runqueue'[i] = runqueue[i]
      /\ runqueue'[Len(runqueue) + 1] = curthread
      /\ curthread \in Thread
  BY DEF Preempt, SwitchReady, TypeOK
<1>2. UNCHANGED <<sleepers, t_sleepaddr, pc, obj, lk>> /\ curthread' = NULL
  BY DEF Preempt, SwitchReady
<1>3. \A i, j \in DOMAIN runqueue' : runqueue'[i] = runqueue'[j] => i = j
  BY <1>1 DEF OnePlace
<1>4. \A i \in DOMAIN runqueue', j \in DOMAIN sleepers' : runqueue'[i] # sleepers'[j]
  BY <1>1, <1>2 DEF OnePlace
<1>5. \A i \in DOMAIN runqueue' : runqueue'[i] # curthread'
  BY <1>1, <1>2, NullNotThread DEF TypeOK
<1>6. \A j \in DOMAIN sleepers' : sleepers'[j] # curthread'
  BY <1>2, NullNotThread DEF TypeOK
<1>7. \A u \in Thread : Ready(u)' \/ Asleep(u)'
  <2> TAKE u \in Thread
  <2>1. CASE u = curthread
    BY <2>1, <1>1 DEF Ready
  <2>2. CASE Ready(u)
    BY <2>2, <1>1 DEF Ready
  <2>3. CASE Asleep(u)
    BY <2>3, <1>2 DEF Asleep
  <2> QED BY <2>1, <2>2, <2>3 DEF OnePlace
<1> QED BY <1>2, <1>3, <1>4, <1>5, <1>6, <1>7 DEF OnePlace

\* The scheduler takes the head of the run queue.
LEMMA DispatchPlace ==
    ASSUME TypeOK, OnePlace, Schedule
    PROVE  OnePlace'
<1>1. /\ runqueue # << >> /\ curthread = NULL
      /\ curthread' = runqueue[1] /\ runqueue[1] \in Thread
      /\ DOMAIN runqueue = 1..Len(runqueue) /\ Len(runqueue) \in Nat \ {0}
      /\ DOMAIN runqueue' = 1..(Len(runqueue) - 1)
      /\ \A i \in 1..(Len(runqueue) - 1) : runqueue'[i] = runqueue[i + 1]
  BY DEF Schedule, Dispatch, TypeOK
<1>2. UNCHANGED <<sleepers, pc, obj, lk>>
      /\ t_sleepaddr' = [t_sleepaddr EXCEPT ![runqueue[1]] = NULL]
  BY DEF Schedule, Dispatch, TypeOK
<1>3. \A i \in DOMAIN runqueue' : i + 1 \in DOMAIN runqueue
  BY <1>1
<1>4. \A i, j \in DOMAIN runqueue' : runqueue'[i] = runqueue'[j] => i = j
  BY <1>1, <1>3 DEF OnePlace
<1>5. \A i \in DOMAIN runqueue' : runqueue'[i] # curthread'
  BY <1>1, <1>3 DEF OnePlace
<1>6. \A i \in DOMAIN runqueue', j \in DOMAIN sleepers' : runqueue'[i] # sleepers'[j]
  BY <1>1, <1>2, <1>3 DEF OnePlace
<1>7. \A j \in DOMAIN sleepers : sleepers[j] # runqueue[1] /\ sleepers[j] \in Thread
  <2>1. 1 \in DOMAIN runqueue
    BY <1>1
  <2>2. \A j \in DOMAIN sleepers : sleepers[j] \in Thread
    BY DEF TypeOK
  <2> QED BY <2>1, <2>2 DEF OnePlace
<1>8. \A u \in Thread : curthread' = u \/ Ready(u)' \/ Asleep(u)'
  <2> TAKE u \in Thread
  <2>1. CASE Asleep(u)
    BY <2>1, <1>2 DEF Asleep
  <2>2. CASE Ready(u)
    <3>1. PICK i \in DOMAIN runqueue : runqueue[i] = u
      BY <2>2 DEF Ready
    <3>2. CASE i = 1
      BY <3>1, <3>2, <1>1
    <3>3. CASE i # 1
      <4>1. i - 1 \in DOMAIN runqueue' /\ runqueue'[i - 1] = u
        BY <3>1, <3>3, <1>1
      <4> QED BY <4>1 DEF Ready
    <3> QED BY <3>2, <3>3
  <2> QED BY <2>1, <2>2, <1>1, NullNotThread DEF OnePlace
<1> QED BY <1>1, <1>2, <1>4, <1>5, <1>6, <1>7, <1>8 DEF OnePlace, TypeOK

\* A step that moves no thread keeps every thread in its one place: the sleeping
\* threads are not running, so nothing changes at them.
LEMMA SamePlace ==
    ASSUME TypeOK, OnePlace, UNCHANGED <<curthread, runqueue, sleepers, t_sleepaddr>>,
           \A u \in Thread \ {curthread} :
              pc'[u] = pc[u] /\ obj'[u] = obj[u] /\ lk'[u] = lk[u]
    PROVE  OnePlace'
<1>1. \A j \in DOMAIN sleepers : sleepers[j] \in Thread \ {curthread}
  BY DEF OnePlace, TypeOK
<1> QED BY <1>1 DEF OnePlace, Ready, Asleep

\* Every step keeps every thread in exactly one place.
LEMMA PlaceStep ==
    ASSUME TypeOK, Frames, OnePlace, Next
    PROVE  OnePlace'
<1>1. ASSUME NEW t \in Thread, NEW s \in Sem, P_enter(t, s)
      PROVE  OnePlace'
  BY <1>1, SamePlace DEF P_enter, At, splhigh, Goto, ListsUnchanged, TypeOK
<1>2. ASSUME NEW t \in Thread, P_sleep(t)
      PROVE  OnePlace'
  BY <1>2, SleepPlace, NullNotThread
  DEF P_sleep, At, thread_sleep, Frames, FrameOK, TypeOK
<1>3. ASSUME NEW t \in Thread, P_take(t)
      PROVE  OnePlace'
  BY <1>3, SamePlace DEF P_take, At, splx, Goto, ListsUnchanged, TypeOK
<1>4. ASSUME NEW t \in Thread, NEW s \in Sem, V_enter(t, s)
      PROVE  OnePlace'
  BY <1>4, SamePlace DEF V_enter, At, splhigh, Goto, ListsUnchanged, TypeOK
<1>5. ASSUME NEW t \in Thread, V_exit(t)
      PROVE  OnePlace'
  BY <1>5, SamePlace DEF V_exit, At, splx, Goto, ListsUnchanged, TypeOK
<1>6. ASSUME NEW t \in Thread, NEW l \in Lock, acquire_enter(t, l)
      PROVE  OnePlace'
  BY <1>6, SamePlace
  DEF acquire_enter, At, EnterAcquire, splhigh, Goto, ListsUnchanged, TypeOK
<1>7. ASSUME NEW t \in Thread, acquire_sleep(t)
      PROVE  OnePlace'
  BY <1>7, SleepPlace, NullNotThread
  DEF acquire_sleep, At, thread_sleep, Frames, FrameOK, TypeOK
<1>8. ASSUME NEW t \in Thread, acquire_take(t)
      PROVE  OnePlace'
  BY <1>8, SamePlace DEF acquire_take, At, splx, Goto, ListsUnchanged, TypeOK
<1>9. ASSUME NEW t \in Thread, NEW l \in Lock, release_check(t, l)
      PROVE  OnePlace'
  BY <1>9, SamePlace
  DEF release_check, At, ReleaseCheck, Goto, ListsUnchanged, TypeOK
<1>10. ASSUME NEW t \in Thread, release_do(t)
      PROVE  OnePlace'
  BY <1>10, SamePlace DEF release_do, At, splhigh, Goto, ListsUnchanged, TypeOK
<1>11. ASSUME NEW t \in Thread, release_exit(t)
      PROVE  OnePlace'
  BY <1>11, SamePlace DEF release_exit, At, splx, Goto, ListsUnchanged, TypeOK
<1>12. ASSUME NEW t \in Thread, NEW c \in CV, NEW l \in Lock, cv_wait_enter(t, c, l)
      PROVE  OnePlace'
  BY <1>12, SamePlace
  DEF cv_wait_enter, At, splhigh, ReleaseCheck, Goto, ListsUnchanged, TypeOK
<1>13. ASSUME NEW t \in Thread, cv_wait_sleep(t)
      PROVE  OnePlace'
  BY <1>13, SleepPlace, NullNotThread
  DEF cv_wait_sleep, Goto, At, thread_sleep, Frames, FrameOK, TypeOK
<1>14. ASSUME NEW t \in Thread, cv_wait_reacquire(t)
      PROVE  OnePlace'
  BY <1>14, SamePlace
  DEF cv_wait_reacquire, At, EnterAcquire, splhigh, Goto, ListsUnchanged, TypeOK
<1>15. ASSUME NEW t \in Thread, cv_wait_exit(t)
      PROVE  OnePlace'
  BY <1>15, SamePlace DEF cv_wait_exit, At, splx, Goto, ListsUnchanged, TypeOK
<1>16. ASSUME NEW t \in Thread, NEW c \in CV, NEW l \in Lock, cv_signal_enter(t, c, l)
      PROVE  OnePlace'
  BY <1>16, SamePlace
  DEF cv_signal_enter, NotifyEnter, At, splhigh, Goto, ListsUnchanged, TypeOK
<1>17. ASSUME NEW t \in Thread, NEW c \in CV, NEW l \in Lock, cv_broadcast_enter(t, c, l)
      PROVE  OnePlace'
  BY <1>17, SamePlace
  DEF cv_broadcast_enter, NotifyEnter, At, splhigh, Goto, ListsUnchanged, TypeOK
<1>18. ASSUME NEW t \in Thread, cv_signal_wake(t)
      PROVE  OnePlace'
  <2>1. PICK k \in DOMAIN sleepers :
           sleepers' = RemoveAt(sleepers, k) /\ runqueue' = Append(runqueue, sleepers[k])
    BY <1>18 DEF cv_signal_wake
  <2> QED BY <1>18, <2>1, WakePlace DEF cv_signal_wake, At, NotifyExit, Goto, TypeOK
<1>19. ASSUME NEW t \in Thread, cv_notify_exit(t)
      PROVE  OnePlace'
  BY <1>19, SamePlace
  DEF cv_notify_exit, At, NotifyExit, splx, Goto, ListsUnchanged, TypeOK
<1>20. ASSUME NEW t \in Thread, thread_wakeup(t)
      PROVE  OnePlace'
  <2>1. PICK k \in DOMAIN sleepers :
           sleepers' = RemoveAt(sleepers, k) /\ runqueue' = Append(runqueue, sleepers[k])
    BY <1>20 DEF thread_wakeup, WakeNext
  <2> QED BY <1>20, <2>1, WakePlace DEF thread_wakeup, WakeNext
<1>21. ASSUME Preempt
      PROVE  OnePlace'
  BY <1>21, PreemptPlace
<1>22. ASSUME IdleTick
      PROVE  OnePlace'
  BY <1>22, SamePlace DEF IdleTick, vars, TypeOK
<1>23. ASSUME Schedule
      PROVE  OnePlace'
  BY <1>23, DispatchPlace
<1>24. ASSUME NEW s \in Sem, IntrV_enter(s)
      PROVE  OnePlace'
  BY <1>24, SamePlace DEF IntrV_enter, InterruptsOn, Idle, ListsUnchanged, TypeOK
<1>25. ASSUME IntrV_wake
      PROVE  OnePlace'
  <2>1. PICK k \in DOMAIN sleepers :
           sleepers' = RemoveAt(sleepers, k) /\ runqueue' = Append(runqueue, sleepers[k])
    BY <1>25 DEF IntrV_wake, WakeNext
  <2> QED BY <1>25, <2>1, WakePlace DEF IntrV_wake, WakeNext
<1>26. ASSUME IntrV_exit
      PROVE  OnePlace'
  BY <1>26, SamePlace DEF IntrV_exit, ListsUnchanged, TypeOK
<1> QED
  BY <1>1, <1>2, <1>3, <1>4, <1>5, <1>6, <1>7, <1>8, <1>9,
     <1>10, <1>11, <1>12, <1>13, <1>14, <1>15, <1>16, <1>17, <1>18,
     <1>19, <1>20, <1>21, <1>22, <1>23, <1>24, <1>25, <1>26
  DEF Next, Call, Continue, Interrupt

\* Waking a sleeper leaves two lists of threads.
LEMMA WakeTypes ==
    ASSUME TypeOK, NEW k \in DOMAIN sleepers
    PROVE  /\ RemoveAt(sleepers, k) \in Seq(Thread)
           /\ Append(runqueue, sleepers[k]) \in Seq(Thread)
<1>1. sleepers \in Seq(Thread) /\ runqueue \in Seq(Thread)
  BY DEF TypeOK
<1>2. k \in 1..Len(sleepers) /\ sleepers[k] \in Thread
  BY <1>1
<1>3. RemoveAt(sleepers, k) \in Seq(Thread)
  BY <1>1, <1>2, RemoveAtProperties
<1>4. Append(runqueue, sleepers[k]) \in Seq(Thread)
  BY <1>1, <1>2, AppendProperties
<1> QED BY <1>3, <1>4

\* Every step keeps the types of the variables.
LEMMA TypeStep ==
    ASSUME TypeOK, Frames, Next
    PROVE  TypeOK'
<1>1. ASSUME NEW t \in Thread, NEW s \in Sem, P_enter(t, s)
      PROVE  TypeOK'
  BY <1>1, CountsAreNat
  DEF P_enter, At, splhigh, Goto, ListsUnchanged, TypeOK, Frames, FrameOK,
      Labels
<1>2. ASSUME NEW t \in Thread, P_sleep(t)
      PROVE  TypeOK'
  BY <1>2, CountsAreNat
  DEF P_sleep, At, thread_sleep, SwitchSleep, TypeOK, Frames, FrameOK, Labels
<1>3. ASSUME NEW t \in Thread, P_take(t)
      PROVE  TypeOK'
  BY <1>3, CountsAreNat
  DEF P_take, At, splx, Goto, ListsUnchanged, TypeOK, Frames, FrameOK, Labels
<1>4. ASSUME NEW t \in Thread, NEW s \in Sem, V_enter(t, s)
      PROVE  TypeOK'
  BY <1>4, CountsAreNat
  DEF V_enter, At, splhigh, Goto, ListsUnchanged, TypeOK, Frames, FrameOK,
      Labels
<1>5. ASSUME NEW t \in Thread, V_exit(t)
      PROVE  TypeOK'
  BY <1>5, CountsAreNat
  DEF V_exit, At, splx, Goto, ListsUnchanged, TypeOK, Frames, FrameOK, Labels
<1>6. ASSUME NEW t \in Thread, NEW l \in Lock, acquire_enter(t, l)
      PROVE  TypeOK'
  BY <1>6, CountsAreNat
  DEF acquire_enter, At, EnterAcquire, splhigh, Goto, ListsUnchanged, TypeOK,
      Frames, FrameOK, Labels
<1>7. ASSUME NEW t \in Thread, acquire_sleep(t)
      PROVE  TypeOK'
  BY <1>7, CountsAreNat
  DEF acquire_sleep, At, thread_sleep, SwitchSleep, TypeOK, Frames, FrameOK,
      Labels
<1>8. ASSUME NEW t \in Thread, acquire_take(t)
      PROVE  TypeOK'
  <2>1. lk[t] \in Lock
    BY <1>8 DEF acquire_take, At, Frames, FrameOK
  <2>2. CASE obj[t] \in CV
    BY <1>8, <2>1, <2>2
    DEF acquire_take, splx, Goto, ListsUnchanged, TypeOK, Labels
  <2>3. CASE obj[t] \notin CV
    <3>0. /\ held' = [held EXCEPT ![t] = held[t] \cup {lk[t]}]
          /\ lk' = [lk EXCEPT ![t] = NULL]
      BY <1>8, <2>3 DEF acquire_take
    <3>1. held' \in [Thread -> SUBSET Lock] /\ lk' \in [Thread -> Lock \cup {NULL}]
      <4>1. held[t] \cup {lk[t]} \in SUBSET Lock
        BY <2>1 DEF TypeOK
      <4> QED BY <3>0, <4>1 DEF TypeOK
    <3>2. lock_owner' \in [Lock -> Thread \cup {NULL}]
      BY <1>8, <2>1 DEF acquire_take, TypeOK
    <3> QED BY <1>8, <2>3, <3>1, <3>2
         DEF acquire_take, splx, Goto, ListsUnchanged, TypeOK, Labels
  <2> QED BY <2>2, <2>3
<1>9. ASSUME NEW t \in Thread, NEW l \in Lock, release_check(t, l)
      PROVE  TypeOK'
  BY <1>9, CountsAreNat
  DEF release_check, At, ReleaseCheck, Goto, ListsUnchanged, TypeOK, Frames,
      FrameOK, Labels
<1>10. ASSUME NEW t \in Thread, release_do(t)
      PROVE  TypeOK'
  BY <1>10, CountsAreNat
  DEF release_do, At, splhigh, Goto, ListsUnchanged, TypeOK, Frames, FrameOK,
      Labels
<1>11. ASSUME NEW t \in Thread, release_exit(t)
      PROVE  TypeOK'
  <2>2. CASE obj[t] \in CV
    BY <1>11, <2>2 DEF release_exit, splx, Goto, ListsUnchanged, TypeOK, Labels
  <2>3. CASE obj[t] \notin CV
    BY <1>11, <2>3 DEF release_exit, splx, Goto, ListsUnchanged, TypeOK, Labels
  <2> QED BY <2>2, <2>3
<1>12. ASSUME NEW t \in Thread, NEW c \in CV, NEW l \in Lock, cv_wait_enter(t, c, l)
      PROVE  TypeOK'
  BY <1>12, CountsAreNat
  DEF cv_wait_enter, At, splhigh, ReleaseCheck, Goto, ListsUnchanged, TypeOK,
      Frames, FrameOK, Labels
<1>13. ASSUME NEW t \in Thread, cv_wait_sleep(t)
      PROVE  TypeOK'
  BY <1>13, CountsAreNat
  DEF cv_wait_sleep, At, thread_sleep, SwitchSleep, Goto, TypeOK, Frames,
      FrameOK, Labels
<1>14. ASSUME NEW t \in Thread, cv_wait_reacquire(t)
      PROVE  TypeOK'
  BY <1>14, CountsAreNat
  DEF cv_wait_reacquire, At, EnterAcquire, splhigh, Goto, ListsUnchanged,
      TypeOK, Frames, FrameOK, Labels
<1>15. ASSUME NEW t \in Thread, cv_wait_exit(t)
      PROVE  TypeOK'
  BY <1>15, CountsAreNat
  DEF cv_wait_exit, At, splx, Goto, ListsUnchanged, TypeOK, Frames, FrameOK,
      Labels
<1>16. ASSUME NEW t \in Thread, NEW c \in CV, NEW l \in Lock, cv_signal_enter(t, c, l)
      PROVE  TypeOK'
  BY <1>16, CountsAreNat
  DEF cv_signal_enter, NotifyEnter, At, splhigh, Goto, ListsUnchanged, TypeOK,
      Frames, FrameOK, Labels
<1>17. ASSUME NEW t \in Thread, NEW c \in CV, NEW l \in Lock, cv_broadcast_enter(t, c, l)
      PROVE  TypeOK'
  BY <1>17, CountsAreNat
  DEF cv_broadcast_enter, NotifyEnter, At, splhigh, Goto, ListsUnchanged,
      TypeOK, Frames, FrameOK, Labels
<1>18. ASSUME NEW t \in Thread, cv_signal_wake(t)
      PROVE  TypeOK'
  <2>1. PICK k \in DOMAIN sleepers :
           sleepers' = RemoveAt(sleepers, k) /\ runqueue' = Append(runqueue, sleepers[k])
    BY <1>18 DEF cv_signal_wake
  <2>2. sleepers' \in Seq(Thread) /\ runqueue' \in Seq(Thread)
    BY <2>1, WakeTypes
  <2> QED BY <1>18, <2>2 DEF cv_signal_wake, At, NotifyExit, splx, Goto, TypeOK, Labels
<1>19. ASSUME NEW t \in Thread, cv_notify_exit(t)
      PROVE  TypeOK'
  BY <1>19, CountsAreNat
  DEF cv_notify_exit, At, NotifyExit, splx, Goto, ListsUnchanged, TypeOK,
      Frames, FrameOK, Labels
<1>20. ASSUME NEW t \in Thread, thread_wakeup(t)
      PROVE  TypeOK'
  <2>1. PICK k \in DOMAIN sleepers :
           sleepers' = RemoveAt(sleepers, k) /\ runqueue' = Append(runqueue, sleepers[k])
    BY <1>20 DEF thread_wakeup, WakeNext
  <2>2. sleepers' \in Seq(Thread) /\ runqueue' \in Seq(Thread)
    BY <2>1, WakeTypes
  <2> QED BY <1>20, <2>2 DEF thread_wakeup, WakeNext, TypeOK, Labels
<1>21. ASSUME Preempt
      PROVE  TypeOK'
  BY <1>21, CountsAreNat DEF Preempt, SwitchReady, TypeOK, Frames, FrameOK, Labels
<1>22. ASSUME IdleTick
      PROVE  TypeOK'
  BY <1>22, CountsAreNat DEF IdleTick, vars, TypeOK, Frames, FrameOK, Labels
<1>23. ASSUME Schedule
      PROVE  TypeOK'
  BY <1>23, CountsAreNat DEF Schedule, Dispatch, TypeOK, Frames, FrameOK, Labels
<1>24. ASSUME NEW s \in Sem, IntrV_enter(s)
      PROVE  TypeOK'
  BY <1>24, CountsAreNat
  DEF IntrV_enter, InterruptsOn, Idle, ListsUnchanged, TypeOK, Frames, FrameOK,
      Labels
<1>25. ASSUME IntrV_wake
      PROVE  TypeOK'
  <2>1. PICK k \in DOMAIN sleepers :
           sleepers' = RemoveAt(sleepers, k) /\ runqueue' = Append(runqueue, sleepers[k])
    BY <1>25 DEF IntrV_wake, WakeNext
  <2>2. sleepers' \in Seq(Thread) /\ runqueue' \in Seq(Thread)
    BY <2>1, WakeTypes
  <2> QED BY <1>25, <2>2 DEF IntrV_wake, WakeNext, TypeOK, Labels
<1>26. ASSUME IntrV_exit
      PROVE  TypeOK'
  BY <1>26, CountsAreNat
  DEF IntrV_exit, ListsUnchanged, TypeOK, Frames, FrameOK, Labels
<1> QED
  BY <1>1, <1>2, <1>3, <1>4, <1>5, <1>6, <1>7, <1>8, <1>9,
     <1>10, <1>11, <1>12, <1>13, <1>14, <1>15, <1>16, <1>17, <1>18,
     <1>19, <1>20, <1>21, <1>22, <1>23, <1>24, <1>25, <1>26
  DEF Next, Call, Continue, Interrupt

\* Every step keeps the promise of a wakeup to every sleeper.
LEMMA WakeupStep ==
    ASSUME TypeOK, Frames, SplOK, OnePlace, NoLostWakeup, Next
    PROVE  NoLostWakeup'
<1>1. ASSUME NEW t \in Thread, NEW s \in Sem, P_enter(t, s)
      PROVE  NoLostWakeup'
  BY <1>1, ObjectsDistinct, NullNotThread
  DEF P_enter, At, splhigh, Goto, ListsUnchanged, TypeOK, Frames, FrameOK,
      SplOK, Spl, OnePlace, NoLostWakeup, WakeAddr, HasSleepers
<1>2. ASSUME NEW t \in Thread, P_sleep(t)
      PROVE  NoLostWakeup'
  BY <1>2, ObjectsDistinct, NullNotThread
  DEF P_sleep, At, thread_sleep, SwitchSleep, TypeOK, Frames, FrameOK, SplOK,
      Spl, OnePlace, NoLostWakeup, WakeAddr, HasSleepers
<1>3. ASSUME NEW t \in Thread, P_take(t)
      PROVE  NoLostWakeup'
  BY <1>3, ObjectsDistinct, NullNotThread
  DEF P_take, At, splx, Goto, ListsUnchanged, TypeOK, Frames, FrameOK, SplOK,
      Spl, OnePlace, NoLostWakeup, WakeAddr, HasSleepers
<1>4. ASSUME NEW t \in Thread, NEW s \in Sem, V_enter(t, s)
      PROVE  NoLostWakeup'
  BY <1>4, ObjectsDistinct, NullNotThread
  DEF V_enter, At, splhigh, Goto, ListsUnchanged, TypeOK, Frames, FrameOK,
      SplOK, Spl, OnePlace, NoLostWakeup, WakeAddr, HasSleepers
<1>5. ASSUME NEW t \in Thread, V_exit(t)
      PROVE  NoLostWakeup'
  BY <1>5, ObjectsDistinct, NullNotThread
  DEF V_exit, At, splx, Goto, ListsUnchanged, TypeOK, Frames, FrameOK, SplOK,
      Spl, OnePlace, NoLostWakeup, WakeAddr, HasSleepers
<1>6. ASSUME NEW t \in Thread, NEW l \in Lock, acquire_enter(t, l)
      PROVE  NoLostWakeup'
  BY <1>6, ObjectsDistinct, NullNotThread
  DEF acquire_enter, At, EnterAcquire, splhigh, Goto, ListsUnchanged, TypeOK,
      Frames, FrameOK, SplOK, Spl, OnePlace, NoLostWakeup, WakeAddr, HasSleepers
<1>7. ASSUME NEW t \in Thread, acquire_sleep(t)
      PROVE  NoLostWakeup'
  BY <1>7, ObjectsDistinct, NullNotThread
  DEF acquire_sleep, At, thread_sleep, SwitchSleep, TypeOK, Frames, FrameOK,
      SplOK, Spl, OnePlace, NoLostWakeup, WakeAddr, HasSleepers
<1>8. ASSUME NEW t \in Thread, acquire_take(t)
      PROVE  NoLostWakeup'
  BY <1>8, ObjectsDistinct, NullNotThread
  DEF acquire_take, At, splx, Goto, ListsUnchanged, TypeOK, Frames, FrameOK,
      SplOK, Spl, OnePlace, NoLostWakeup, WakeAddr, HasSleepers
<1>9. ASSUME NEW t \in Thread, NEW l \in Lock, release_check(t, l)
      PROVE  NoLostWakeup'
  BY <1>9, ObjectsDistinct, NullNotThread
  DEF release_check, At, ReleaseCheck, Goto, ListsUnchanged, TypeOK, Frames,
      FrameOK, SplOK, Spl, OnePlace, NoLostWakeup, WakeAddr, HasSleepers
<1>10. ASSUME NEW t \in Thread, release_do(t)
      PROVE  NoLostWakeup'
  BY <1>10, ObjectsDistinct, NullNotThread
  DEF release_do, At, splhigh, Goto, ListsUnchanged, TypeOK, Frames, FrameOK,
      SplOK, Spl, OnePlace, NoLostWakeup, WakeAddr, HasSleepers
<1>11. ASSUME NEW t \in Thread, release_exit(t)
      PROVE  NoLostWakeup'
  BY <1>11, ObjectsDistinct, NullNotThread
  DEF release_exit, At, splx, Goto, ListsUnchanged, TypeOK, Frames, FrameOK,
      SplOK, Spl, OnePlace, NoLostWakeup, WakeAddr, HasSleepers
<1>12. ASSUME NEW t \in Thread, NEW c \in CV, NEW l \in Lock, cv_wait_enter(t, c, l)
      PROVE  NoLostWakeup'
  BY <1>12, ObjectsDistinct, NullNotThread
  DEF cv_wait_enter, At, splhigh, ReleaseCheck, Goto, ListsUnchanged, TypeOK,
      Frames, FrameOK, SplOK, Spl, OnePlace, NoLostWakeup, WakeAddr, HasSleepers
<1>13. ASSUME NEW t \in Thread, cv_wait_sleep(t)
      PROVE  NoLostWakeup'
  BY <1>13, ObjectsDistinct, NullNotThread
  DEF cv_wait_sleep, At, thread_sleep, SwitchSleep, Goto, TypeOK, Frames,
      FrameOK, SplOK, Spl, OnePlace, NoLostWakeup, WakeAddr, HasSleepers
<1>14. ASSUME NEW t \in Thread, cv_wait_reacquire(t)
      PROVE  NoLostWakeup'
  BY <1>14, ObjectsDistinct, NullNotThread
  DEF cv_wait_reacquire, At, EnterAcquire, splhigh, Goto, ListsUnchanged,
      TypeOK, Frames, FrameOK, SplOK, Spl, OnePlace, NoLostWakeup, WakeAddr,
      HasSleepers
<1>15. ASSUME NEW t \in Thread, cv_wait_exit(t)
      PROVE  NoLostWakeup'
  BY <1>15, ObjectsDistinct, NullNotThread
  DEF cv_wait_exit, At, splx, Goto, ListsUnchanged, TypeOK, Frames, FrameOK,
      SplOK, Spl, OnePlace, NoLostWakeup, WakeAddr, HasSleepers
<1>16. ASSUME NEW t \in Thread, NEW c \in CV, NEW l \in Lock, cv_signal_enter(t, c, l)
      PROVE  NoLostWakeup'
  BY <1>16, ObjectsDistinct, NullNotThread
  DEF cv_signal_enter, NotifyEnter, At, splhigh, Goto, ListsUnchanged, TypeOK,
      Frames, FrameOK, SplOK, Spl, OnePlace, NoLostWakeup, WakeAddr, HasSleepers
<1>17. ASSUME NEW t \in Thread, NEW c \in CV, NEW l \in Lock, cv_broadcast_enter(t, c, l)
      PROVE  NoLostWakeup'
  BY <1>17, ObjectsDistinct, NullNotThread
  DEF cv_broadcast_enter, NotifyEnter, At, splhigh, Goto, ListsUnchanged,
      TypeOK, Frames, FrameOK, SplOK, Spl, OnePlace, NoLostWakeup, WakeAddr,
      HasSleepers
<1>18. ASSUME NEW t \in Thread, cv_signal_wake(t)
      PROVE  NoLostWakeup'
  <2>1. PICK k \in DOMAIN sleepers : sleepers' = RemoveAt(sleepers, k)
    BY <1>18 DEF cv_signal_wake
  <2>2. \A j \in DOMAIN sleepers' : \E i \in DOMAIN sleepers : sleepers'[j] = sleepers[i]
    BY <2>1, RemoveAtElements DEF TypeOK
  <2> QED BY <1>18, <2>2, ObjectsDistinct, NullNotThread
       DEF cv_signal_wake, At, NotifyExit, Goto, WakeAddr, NoLostWakeup, OnePlace, TypeOK, Frames, FrameOK
<1>19. ASSUME NEW t \in Thread, cv_notify_exit(t)
      PROVE  NoLostWakeup'
  BY <1>19, ObjectsDistinct, NullNotThread
  DEF cv_notify_exit, At, NotifyExit, splx, Goto, ListsUnchanged, TypeOK,
      Frames, FrameOK, SplOK, Spl, OnePlace, NoLostWakeup, WakeAddr, HasSleepers
<1>20. ASSUME NEW t \in Thread, thread_wakeup(t)
      PROVE  NoLostWakeup'
  <2>1. PICK k \in DOMAIN sleepers : sleepers' = RemoveAt(sleepers, k)
    BY <1>20 DEF thread_wakeup, WakeNext
  <2>2. \A j \in DOMAIN sleepers' : \E i \in DOMAIN sleepers : sleepers'[j] = sleepers[i]
    BY <2>1, RemoveAtElements DEF TypeOK
  <2> QED BY <1>20, <2>2, ObjectsDistinct, NullNotThread
       DEF thread_wakeup, WakeNext, WakeAddr, NoLostWakeup, OnePlace, TypeOK, Frames, FrameOK
<1>21. ASSUME Preempt
      PROVE  NoLostWakeup'
  BY <1>21, ObjectsDistinct, NullNotThread
  DEF Preempt, SwitchReady, TypeOK, Frames, FrameOK, SplOK, Spl, OnePlace,
      NoLostWakeup, WakeAddr, HasSleepers
<1>22. ASSUME IdleTick
      PROVE  NoLostWakeup'
  BY <1>22, ObjectsDistinct, NullNotThread
  DEF IdleTick, vars, TypeOK, Frames, FrameOK, SplOK, Spl, OnePlace,
      NoLostWakeup, WakeAddr, HasSleepers
<1>23. ASSUME Schedule
      PROVE  NoLostWakeup'
  BY <1>23, ObjectsDistinct, NullNotThread
  DEF Schedule, Dispatch, TypeOK, Frames, FrameOK, SplOK, Spl, OnePlace,
      NoLostWakeup, WakeAddr, HasSleepers
<1>24. ASSUME NEW s \in Sem, IntrV_enter(s)
      PROVE  NoLostWakeup'
  BY <1>24, ObjectsDistinct, NullNotThread
  DEF IntrV_enter, InterruptsOn, Idle, ListsUnchanged, TypeOK, Frames, FrameOK,
      SplOK, Spl, OnePlace, NoLostWakeup, WakeAddr, HasSleepers
<1>25. ASSUME IntrV_wake
      PROVE  NoLostWakeup'
  <2>1. PICK k \in DOMAIN sleepers : sleepers' = RemoveAt(sleepers, k)
    BY <1>25 DEF IntrV_wake, WakeNext
  <2>2. \A j \in DOMAIN sleepers' : \E i \in DOMAIN sleepers : sleepers'[j] = sleepers[i]
    BY <2>1, RemoveAtElements DEF TypeOK
  <2> QED BY <1>25, <2>2, ObjectsDistinct, NullNotThread
       DEF IntrV_wake, WakeNext, WakeAddr, NoLostWakeup, OnePlace, TypeOK, Frames, FrameOK
<1>26. ASSUME IntrV_exit
      PROVE  NoLostWakeup'
  BY <1>26, ObjectsDistinct, NullNotThread
  DEF IntrV_exit, ListsUnchanged, TypeOK, Frames, FrameOK, SplOK, Spl, OnePlace,
      NoLostWakeup, WakeAddr, HasSleepers
<1> QED
  BY <1>1, <1>2, <1>3, <1>4, <1>5, <1>6, <1>7, <1>8, <1>9,
     <1>10, <1>11, <1>12, <1>13, <1>14, <1>15, <1>16, <1>17, <1>18,
     <1>19, <1>20, <1>21, <1>22, <1>23, <1>24, <1>25, <1>26
  DEF Next, Call, Continue, Interrupt


----------------------------------------------------------------------------
(* The theorems *)

\* The initial state satisfies the inductive invariant.
LEMMA InitInv == Init => SynchInv
<1> SUFFICES ASSUME Init PROVE SynchInv
  OBVIOUS
<1>1. /\ runqueue \in Seq(Thread)
      /\ \A i, j \in DOMAIN runqueue : runqueue[i] = runqueue[j] => i = j
      /\ \A t \in Thread : \E i \in DOMAIN runqueue : runqueue[i] = t
  BY InitialQueue DEF Init
<1>2. TypeOK
  <2>1. count \in [Sem -> 0..MaxCount]
    BY CountsAreNat DEF Init
  <2>2. lock_owner \in [Lock -> Thread \cup {NULL}] /\ held \in [Thread -> SUBSET Lock]
    BY DEF Init
  <2>3. sleepers \in Seq(Thread)
    BY DEF Init
  <2>4. pc \in [Thread -> Labels]
    BY DEF Init, Labels
  <2>5. /\ t_sleepaddr \in [Thread -> Sem \cup Lock \cup CV \cup {NULL}]
        /\ obj \in [Thread -> Sem \cup CV \cup {NULL}]
        /\ lk \in [Thread -> Lock \cup {NULL}]
    BY DEF Init
  <2>6. /\ backspl \in [Thread -> {0, SPL_HIGH}] /\ curspl \in {0, SPL_HIGH}
        /\ spl \in [Thread -> {0, SPL_HIGH}] /\ cvspl \in [Thread -> {0, SPL_HIGH}]
    BY DEF Init
  <2>7. irqsem \in Sem \cup {NULL} /\ panicked \in BOOLEAN
        /\ curthread \in Thread \cup {NULL}
    BY DEF Init
  <2> QED BY <1>1, <2>1, <2>2, <2>3, <2>4, <2>5, <2>6, <2>7 DEF TypeOK
<1>3. \A t \in Thread : FrameOK(t)
  BY ObjectsDistinct DEF Init, FrameOK
<1>4. SplOK
  BY NullNotThread DEF Init, SplOK, Spl
<1>5. OwnerOK
  BY NullNotThread DEF Init, OwnerOK
<1>6. OnePlace
  <2>1. sleepers = << >> /\ curthread = NULL /\ DOMAIN sleepers = {}
    BY DEF Init
  <2>2. \A i \in DOMAIN runqueue : runqueue[i] \in Thread
    BY <1>1
  <2> QED BY <1>1, <2>1, <2>2, NullNotThread DEF OnePlace, Ready
<1>7. NoLostWakeup
  BY DEF Init, NoLostWakeup
<1>8. NoPanic
  BY DEF Init, NoPanic
<1> QED BY <1>2, <1>3, <1>4, <1>5, <1>6, <1>7, <1>8 DEF SynchInv

\* Every step, of a thread or an interrupt, preserves the inductive invariant.
LEMMA NextInv == SynchInv /\ [Next]_vars => SynchInv'
<1> SUFFICES ASSUME SynchInv, [Next]_vars PROVE SynchInv'
  OBVIOUS
<1>1. CASE Next
  <2>1. TypeOK /\ Frames /\ SplOK /\ OwnerOK /\ OnePlace /\ NoLostWakeup /\ NoPanic
    BY DEF SynchInv, Frames
  <2>2. TypeOK' /\ Frames'
    BY <1>1, <2>1, TypeStep, FrameStep
  <2>3. SplOK' /\ OwnerOK' /\ OnePlace'
    BY <1>1, <2>1, SplStep, OwnerStep, PlaceStep
  <2>4. NoLostWakeup' /\ NoPanic'
    BY <1>1, <2>1, WakeupStep, PanicStep
  <2> QED BY <2>2, <2>3, <2>4 DEF SynchInv, Frames
<1>2. CASE UNCHANGED vars
  BY <1>2
  DEF vars, SynchInv, TypeOK, FrameOK, SplOK, Spl, OwnerOK, OnePlace, Ready,
     Asleep, NoLostWakeup, WakeAddr, NoPanic
<1> QED BY <1>1, <1>2

\* The inductive invariant (types, the local variables of every call, where
\* interrupts are off, who owns each lock, one place per thread, no lost wakeup,
\* no panic) holds in every reachable state of synch.c's primitives.
THEOREM SynchInvariant == Spec => []SynchInv
  BY InitInv, NextInv, PTL DEF Spec

\* synch.h's promise for locks: a thread whose lock_acquire or cv_wait returned is
\* the one owner of the lock until it gives it up.
THEOREM LockMutualExclusion == Spec => []MutualExclusion
<1>1. SynchInv => MutualExclusion
  BY DEF SynchInv, OwnerOK, MutualExclusion, TypeOK
<1> QED BY <1>1, SynchInvariant, PTL

\* A thread asleep on a lock or a semaphore that has become available is being
\* woken, so no wakeup of lock_release or V is lost.
THEOREM WakeupsNotLost == Spec => []NoLostWakeup
<1>1. SynchInv => NoLostWakeup
  BY DEF SynchInv
<1> QED BY <1>1, SynchInvariant, PTL

\* cv_wait releases the lock and sleeps atomically with respect to every thread
\* that could signal.
THEOREM SignalsNotMissed == Spec => []NoMissedSignal
<1>1. SynchInv => NoMissedSignal
  <2> SUFFICES ASSUME SynchInv, NEW t \in Thread, NEW u \in Thread, t # u,
                      curthread = u,
                      pc[t] \in {"rel_do", "rel_wake", "cvw_sleep"}, obj[t] \in CV
               PROVE  FALSE
    BY DEF NoMissedSignal
  <2>1. Spl(t) = SPL_HIGH
    BY ObjectsDistinct DEF Spl
  <2>2. Spl(t) = 0 \/ pc[t] \in {"P_loop", "acq_loop", "cvw_woken"}
    BY DEF SynchInv, SplOK
  <2> QED BY <2>1, <2>2
<1> QED BY <1>1, SynchInvariant, PTL

----------------------------------------------------------------------------
(* Refinement of the atomic operations *)

Waiting == [t \in Thread |-> WaitingOn(t)]

\* A thread that calls cv_signal holds a lock while it does.
Signallers == \A t \in Thread : pc[t] = "sig_wake" => held[t] # {}

AbstractStep == Atomic!SpecNext \/ UNCHANGED <<count, lock_owner, Waiting>>

\* Only t itself changes the locks its client code holds.
LEMMA SignallerStep ==
    ASSUME TypeOK, Signallers, Next
    PROVE  Signallers'
<1>1. ASSUME NEW t \in Thread, NEW s \in Sem, P_enter(t, s)
      PROVE  Signallers'
  BY <1>1, NullNotThread
  DEF P_enter, At, splhigh, Goto, ListsUnchanged, TypeOK, Signallers
<1>2. ASSUME NEW t \in Thread, P_sleep(t)
      PROVE  Signallers'
  BY <1>2, NullNotThread
  DEF P_sleep, At, thread_sleep, SwitchSleep, TypeOK, Signallers
<1>3. ASSUME NEW t \in Thread, P_take(t)
      PROVE  Signallers'
  BY <1>3, NullNotThread
  DEF P_take, At, splx, Goto, ListsUnchanged, TypeOK, Signallers
<1>4. ASSUME NEW t \in Thread, NEW s \in Sem, V_enter(t, s)
      PROVE  Signallers'
  BY <1>4, NullNotThread
  DEF V_enter, At, splhigh, Goto, ListsUnchanged, TypeOK, Signallers
<1>5. ASSUME NEW t \in Thread, V_exit(t)
      PROVE  Signallers'
  BY <1>5, NullNotThread
  DEF V_exit, At, splx, Goto, ListsUnchanged, TypeOK, Signallers
<1>6. ASSUME NEW t \in Thread, NEW l \in Lock, acquire_enter(t, l)
      PROVE  Signallers'
  BY <1>6, NullNotThread
  DEF acquire_enter, At, EnterAcquire, splhigh, Goto, ListsUnchanged, TypeOK,
      Signallers
<1>7. ASSUME NEW t \in Thread, acquire_sleep(t)
      PROVE  Signallers'
  BY <1>7, NullNotThread
  DEF acquire_sleep, At, thread_sleep, SwitchSleep, TypeOK, Signallers
<1>8. ASSUME NEW t \in Thread, acquire_take(t)
      PROVE  Signallers'
  BY <1>8, NullNotThread
  DEF acquire_take, At, splx, Goto, ListsUnchanged, TypeOK, Signallers
<1>9. ASSUME NEW t \in Thread, NEW l \in Lock, release_check(t, l)
      PROVE  Signallers'
  BY <1>9, NullNotThread
  DEF release_check, At, ReleaseCheck, Goto, ListsUnchanged, TypeOK, Signallers
<1>10. ASSUME NEW t \in Thread, release_do(t)
      PROVE  Signallers'
  BY <1>10, NullNotThread
  DEF release_do, At, splhigh, Goto, ListsUnchanged, TypeOK, Signallers
<1>11. ASSUME NEW t \in Thread, release_exit(t)
      PROVE  Signallers'
  BY <1>11, NullNotThread
  DEF release_exit, At, splx, Goto, ListsUnchanged, TypeOK, Signallers
<1>12. ASSUME NEW t \in Thread, NEW c \in CV, NEW l \in Lock, cv_wait_enter(t, c, l)
      PROVE  Signallers'
  BY <1>12, NullNotThread
  DEF cv_wait_enter, At, ReleaseCheck, Goto, ListsUnchanged, TypeOK, Signallers
<1>13. ASSUME NEW t \in Thread, cv_wait_sleep(t)
      PROVE  Signallers'
  BY <1>13, NullNotThread
  DEF cv_wait_sleep, At, thread_sleep, SwitchSleep, Goto, TypeOK, Signallers
<1>14. ASSUME NEW t \in Thread, cv_wait_reacquire(t)
      PROVE  Signallers'
  BY <1>14, NullNotThread
  DEF cv_wait_reacquire, At, EnterAcquire, splhigh, Goto, ListsUnchanged, TypeOK,
      Signallers
<1>15. ASSUME NEW t \in Thread, cv_wait_exit(t)
      PROVE  Signallers'
  BY <1>15, NullNotThread
  DEF cv_wait_exit, At, Goto, ListsUnchanged, TypeOK, Signallers
<1>16. ASSUME NEW t \in Thread, NEW c \in CV, NEW l \in Lock, cv_signal_enter(t, c, l)
      PROVE  Signallers'
  BY <1>16, NullNotThread
  DEF cv_signal_enter, NotifyEnter, At, splhigh, Goto, ListsUnchanged, TypeOK,
      Signallers
<1>17. ASSUME NEW t \in Thread, NEW c \in CV, NEW l \in Lock, cv_broadcast_enter(t, c, l)
      PROVE  Signallers'
  BY <1>17, NullNotThread
  DEF cv_broadcast_enter, NotifyEnter, At, splhigh, Goto, ListsUnchanged, TypeOK,
      Signallers
<1>18. ASSUME NEW t \in Thread, cv_signal_wake(t)
      PROVE  Signallers'
  BY <1>18, NullNotThread
  DEF cv_signal_wake, At, NotifyExit, splx, Goto, TypeOK, Signallers
<1>19. ASSUME NEW t \in Thread, cv_notify_exit(t)
      PROVE  Signallers'
  BY <1>19, NullNotThread
  DEF cv_notify_exit, At, NotifyExit, splx, Goto, ListsUnchanged, TypeOK, Signallers
<1>20. ASSUME NEW t \in Thread, thread_wakeup(t)
      PROVE  Signallers'
  BY <1>20, NullNotThread
  DEF thread_wakeup, WakeNext, TypeOK, Signallers
<1>21. ASSUME Preempt
      PROVE  Signallers'
  BY <1>21, NullNotThread
  DEF Preempt, TypeOK, Signallers
<1>22. ASSUME IdleTick
      PROVE  Signallers'
  BY <1>22, NullNotThread
  DEF IdleTick, vars, TypeOK, Signallers
<1>23. ASSUME Schedule
      PROVE  Signallers'
  BY <1>23, NullNotThread
  DEF Schedule, TypeOK, Signallers
<1>24. ASSUME NEW s \in Sem, IntrV_enter(s)
      PROVE  Signallers'
  BY <1>24, NullNotThread
  DEF IntrV_enter, ListsUnchanged, TypeOK, Signallers
<1>25. ASSUME IntrV_wake
      PROVE  Signallers'
  BY <1>25, NullNotThread
  DEF IntrV_wake, WakeNext, TypeOK, Signallers
<1>26. ASSUME IntrV_exit
      PROVE  Signallers'
  BY <1>26, NullNotThread
  DEF IntrV_exit, ListsUnchanged, TypeOK, Signallers
<1> QED
  BY <1>1, <1>2, <1>3, <1>4, <1>5, <1>6, <1>7, <1>8, <1>9, <1>10, <1>11, <1>12,
     <1>13, <1>14, <1>15, <1>16, <1>17, <1>18, <1>19, <1>20, <1>21, <1>22, <1>23,
     <1>24, <1>25, <1>26
  DEF Next, Call, Continue, Interrupt

\* What t waits on depends on its own place, on whether it is asleep and on
\* whether its condition variable is being broadcast.
LEMMA WaitsSame ==
    ASSUME NEW u \in Thread, pc'[u] = pc[u], obj'[u] = obj[u],
           pc[u] = "cvw_woken" => (Asleep(u)' <=> Asleep(u)),
           pc[u] = "cvw_woken" /\ Asleep(u) =>
               (Broadcasting(obj[u])' <=> Broadcasting(obj[u]))
    PROVE  WaitingOn(u)' = WaitingOn(u)
<1> DEFINE A == Asleep(u)  B == Broadcasting(obj[u])
<1>1. WaitingOn(u) = IF \/ pc[u] \in {"rel_wake", "cvw_sleep"} /\ obj[u] \in CV
                        \/ pc[u] = "cvw_woken" /\ A /\ ~B
                     THEN obj[u] ELSE NULL
  BY DEF WaitingOn
<1>2. WaitingOn(u)' = IF \/ pc[u] \in {"rel_wake", "cvw_sleep"} /\ obj[u] \in CV
                         \/ pc[u] = "cvw_woken" /\ A' /\ ~B'
                      THEN obj[u] ELSE NULL
  BY Zenon DEF WaitingOn, Broadcasting, Asleep
<1>3. pc[u] = "cvw_woken" => (A' <=> A) /\ (A => (B' <=> B))
  BY DEF Broadcasting
<1> QED BY <1>1, <1>2, <1>3

\* The thread that goes to sleep is the only one that becomes asleep.
LEMMA SleepsOne ==
    ASSUME TypeOK, NEW t \in Thread, NEW a, SwitchSleep(t, a), NEW u
    PROVE  Asleep(u)' <=> Asleep(u) \/ u = t
<1>1. sleepers \in Seq(Thread) /\ sleepers' = Append(sleepers, t)
  BY DEF TypeOK, SwitchSleep
<1>2. ToSet(sleepers') = ToSet(sleepers) \cup {t}
  BY <1>1, AppendSet
<1> QED BY <1>2 DEF ToSet, Asleep

\* The thread that is woken from address a is the only one that is no longer
\* asleep, and it slept on a.
LEMMA WakesOne ==
    ASSUME TypeOK, Frames, OnePlace, NEW a, a # NULL,
           NEW i \in DOMAIN sleepers, FirstSleeper(a, i), sleepers' = RemoveAt(sleepers, i)
    PROVE  /\ sleepers[i] \in Thread /\ sleepers[i] # curthread /\ Asleep(sleepers[i])
           /\ pc[sleepers[i]] \in {"P_loop", "acq_loop", "cvw_woken"}
           /\ pc[sleepers[i]] = "cvw_woken" => obj[sleepers[i]] = a
           /\ a \in CV => pc[sleepers[i]] = "cvw_woken"
           /\ \A u : Asleep(u)' <=> Asleep(u) /\ u # sleepers[i]
<1>1. sleepers \in Seq(Thread) /\ IsInjective(sleepers)
  BY DEF TypeOK, OnePlace, IsInjective
<1>2. sleepers[i] \in Thread /\ ToSet(sleepers') = ToSet(sleepers) \ {sleepers[i]}
  BY <1>1, RemoveAtSet
<1>3. \A u : Asleep(u)' <=> Asleep(u) /\ u # sleepers[i]
  BY <1>2 DEF ToSet, Asleep
<1>4. /\ sleepers[i] # curthread /\ t_sleepaddr[sleepers[i]] = a
      /\ pc[sleepers[i]] \in {"P_loop", "acq_loop", "cvw_woken"}
      /\ t_sleepaddr[sleepers[i]] =
           IF pc[sleepers[i]] = "acq_loop" THEN lk[sleepers[i]] ELSE obj[sleepers[i]]
  BY DEF OnePlace, FirstSleeper
<1>5. Asleep(sleepers[i])
  BY DEF Asleep
<1>6. /\ pc[sleepers[i]] = "P_loop" => obj[sleepers[i]] \in Sem
      /\ pc[sleepers[i]] = "acq_loop" => lk[sleepers[i]] \in Lock
  BY <1>2 DEF Frames, FrameOK
<1> QED BY <1>2, <1>3, <1>4, <1>5, <1>6, ObjectsDistinct

\* Where a thread that is not running can be.
LEMMA Elsewhere ==
    ASSUME SplOK, NEW u \in Thread, u # curthread
    PROVE  pc[u] \notin {"rel_wake", "cvw_sleep", "bcast_wake", "sig_wake"}
  BY DEF SplOK, Spl

\* Every step is a step of SynchSpec or leaves its state as it is.
LEMMA StepRefines ==
    ASSUME TypeOK, Frames, SplOK, OwnerOK, OnePlace, NoPanic, Signallers, Next
    PROVE  AbstractStep
<1>1. ASSUME NEW t \in Thread, NEW s \in Sem, P_enter(t, s)
      PROVE  AbstractStep
  <2>1. ASSUME NEW u \in Thread PROVE WaitingOn(u)' = WaitingOn(u)
    BY <1>1, NullNotThread, ObjectsDistinct
    DEF P_enter, At, Goto, ListsUnchanged, TypeOK, Frames, FrameOK, SplOK, Spl,
        OnePlace, WaitingOn, Broadcasting, Asleep
  <2> QED BY <1>1, <2>1 DEF P_enter, ListsUnchanged, AbstractStep, Waiting
<1>2. ASSUME NEW t \in Thread, P_sleep(t)
      PROVE  AbstractStep
  <2>1. SwitchSleep(t, obj[t]) /\ curthread = t /\ pc' = pc /\ obj' = obj /\ curthread' = NULL
    BY <1>2 DEF P_sleep, At, thread_sleep, SwitchSleep
  <2>2. pc[t] \in {"P_loop", "acq_loop"}
    BY <1>2 DEF P_sleep, At
  <2>3. ASSUME NEW u \in Thread PROVE WaitingOn(u)' = WaitingOn(u)
    <3>1. pc[u] = "cvw_woken" => (Asleep(u)' <=> Asleep(u))
      BY <2>1, <2>2, SleepsOne
    <3>2. ~Broadcasting(obj[u]) /\ ~Broadcasting(obj[u])'
      BY <2>1, <2>2 DEF Broadcasting
    <3> QED BY <2>1, <3>1, <3>2, WaitsSame
  <2> QED BY <1>2, <2>3 DEF P_sleep, AbstractStep, Waiting
<1>3. ASSUME NEW t \in Thread, P_take(t)
      PROVE  AbstractStep
  <2>1. ASSUME NEW u \in Thread PROVE WaitingOn(u)' = WaitingOn(u)
    BY <1>3, NullNotThread, ObjectsDistinct
    DEF P_take, At, Goto, ListsUnchanged, TypeOK, Frames, FrameOK, SplOK, Spl, OnePlace, WaitingOn,
        Broadcasting, Asleep
  <2>2. obj[t] \in Sem /\ count[obj[t]] > 0
    BY <1>3 DEF P_take, At, TypeOK, Frames, FrameOK
  <2>3. Atomic!Down(obj[t])
    BY <1>3, <2>1, <2>2 DEF P_take, Atomic!Down
  <2> QED BY <2>2, <2>3 DEF AbstractStep, Atomic!SpecNext
<1>4. ASSUME NEW t \in Thread, NEW s \in Sem, V_enter(t, s)
      PROVE  AbstractStep
  <2>1. ASSUME NEW u \in Thread PROVE WaitingOn(u)' = WaitingOn(u)
    BY <1>4, NullNotThread, ObjectsDistinct
    DEF V_enter, At, Goto, ListsUnchanged, TypeOK, Frames, FrameOK, SplOK, Spl, OnePlace, WaitingOn,
        Broadcasting, Asleep
  <2>2. Atomic!Up(s)
    BY <1>4, <2>1 DEF V_enter, Atomic!Up
  <2> QED BY <2>2 DEF AbstractStep, Atomic!SpecNext
<1>5. ASSUME NEW t \in Thread, V_exit(t)
      PROVE  AbstractStep
  <2>1. ASSUME NEW u \in Thread PROVE WaitingOn(u)' = WaitingOn(u)
    BY <1>5, NullNotThread, ObjectsDistinct
    DEF V_exit, At, Goto, ListsUnchanged, TypeOK, Frames, FrameOK, SplOK, Spl,
        OnePlace, WaitingOn, Broadcasting, Asleep
  <2> QED BY <1>5, <2>1 DEF V_exit, AbstractStep, Waiting
<1>6. ASSUME NEW t \in Thread, NEW l \in Lock, acquire_enter(t, l)
      PROVE  AbstractStep
  <2>1. ASSUME NEW u \in Thread PROVE WaitingOn(u)' = WaitingOn(u)
    BY <1>6, NullNotThread, ObjectsDistinct
    DEF acquire_enter, At, EnterAcquire, Goto, ListsUnchanged, TypeOK, Frames,
        FrameOK, SplOK, Spl, OnePlace, WaitingOn, Broadcasting, Asleep
  <2> QED BY <1>6, <2>1 DEF acquire_enter, EnterAcquire, AbstractStep, Waiting
<1>7. ASSUME NEW t \in Thread, acquire_sleep(t)
      PROVE  AbstractStep
  <2>1. SwitchSleep(t, lk[t]) /\ curthread = t /\ pc' = pc /\ obj' = obj /\ curthread' = NULL
    BY <1>7 DEF acquire_sleep, At, thread_sleep, SwitchSleep
  <2>2. pc[t] \in {"P_loop", "acq_loop"}
    BY <1>7 DEF acquire_sleep, At
  <2>3. ASSUME NEW u \in Thread PROVE WaitingOn(u)' = WaitingOn(u)
    <3>1. pc[u] = "cvw_woken" => (Asleep(u)' <=> Asleep(u))
      BY <2>1, <2>2, SleepsOne
    <3>2. ~Broadcasting(obj[u]) /\ ~Broadcasting(obj[u])'
      BY <2>1, <2>2 DEF Broadcasting
    <3> QED BY <2>1, <3>1, <3>2, WaitsSame
  <2> QED BY <1>7, <2>3 DEF acquire_sleep, AbstractStep, Waiting
<1>8. ASSUME NEW t \in Thread, acquire_take(t)
      PROVE  AbstractStep
  <2>1. ASSUME NEW u \in Thread PROVE WaitingOn(u)' = WaitingOn(u)
    BY <1>8, NullNotThread, ObjectsDistinct
    DEF acquire_take, At, Goto, ListsUnchanged, TypeOK, Frames, FrameOK, SplOK, Spl, OnePlace, WaitingOn,
        Broadcasting, Asleep
  <2>2. lk[t] \in Lock /\ WaitingOn(t) = NULL
    BY <1>8 DEF acquire_take, At, TypeOK, Frames, FrameOK, WaitingOn
  <2>3. Atomic!Acquire(t, lk[t])
    BY <1>8, <2>1, <2>2 DEF acquire_take, Atomic!Acquire
  <2> QED BY <2>2, <2>3 DEF AbstractStep, Atomic!SpecNext
<1>9. ASSUME NEW t \in Thread, NEW l \in Lock, release_check(t, l)
      PROVE  AbstractStep
  <2>1. ASSUME NEW u \in Thread PROVE WaitingOn(u)' = WaitingOn(u)
    BY <1>9, NullNotThread, ObjectsDistinct
    DEF release_check, At, ReleaseCheck, Goto, ListsUnchanged, TypeOK, Frames,
        FrameOK, SplOK, Spl, OnePlace, WaitingOn, Broadcasting, Asleep
  <2> QED BY <1>9, <2>1 DEF release_check, ReleaseCheck, AbstractStep, Waiting
<1>10. ASSUME NEW t \in Thread, release_do(t)
      PROVE  AbstractStep
  <2>1. lk[t] \in Lock /\ lock_owner[lk[t]] = t /\ pc[t] = "rel_do" /\ WaitingOn(t) = NULL
    BY <1>10 DEF release_do, At, TypeOK, Frames, FrameOK, OwnerOK, WaitingOn
  <2>2. ASSUME NEW u \in Thread \ {t} PROVE WaitingOn(u)' = WaitingOn(u)
    BY <1>10, NullNotThread
    DEF release_do, At, Goto, ListsUnchanged, TypeOK, WaitingOn, Broadcasting, Asleep
  <2>3. CASE obj[t] \in CV
    <3>1. WaitingOn(t)' = obj[t]
      BY <1>10, <2>3 DEF release_do, Goto, TypeOK, WaitingOn
    <3>2. Waiting' = [Waiting EXCEPT ![t] = obj[t]]
      BY <2>2, <3>1 DEF Waiting
    <3>3. Atomic!Wait(t, obj[t], lk[t])
      BY <1>10, <2>1, <3>2 DEF release_do, Atomic!Wait, Waiting
    <3> QED BY <2>1, <2>3, <3>3 DEF AbstractStep, Atomic!SpecNext
  <2>4. CASE obj[t] \notin CV
    <3>1. WaitingOn(t)' = NULL
      BY <1>10, <2>4 DEF release_do, Goto, TypeOK, WaitingOn
    <3>2. Atomic!Release(t, lk[t])
      BY <1>10, <2>1, <2>2, <3>1 DEF release_do, Atomic!Release
    <3> QED BY <2>1, <3>2 DEF AbstractStep, Atomic!SpecNext
  <2> QED BY <2>3, <2>4
<1>11. ASSUME NEW t \in Thread, release_exit(t)
      PROVE  AbstractStep
  <2>1. ASSUME NEW u \in Thread PROVE WaitingOn(u)' = WaitingOn(u)
    BY <1>11, NullNotThread, ObjectsDistinct
    DEF release_exit, At, Goto, ListsUnchanged, TypeOK, Frames, FrameOK, SplOK, Spl,
        OnePlace, WaitingOn, Broadcasting, Asleep
  <2> QED BY <1>11, <2>1 DEF release_exit, AbstractStep, Waiting
<1>12. ASSUME NEW t \in Thread, NEW c \in CV, NEW l \in Lock, cv_wait_enter(t, c, l)
      PROVE  AbstractStep
  <2>1. ASSUME NEW u \in Thread PROVE WaitingOn(u)' = WaitingOn(u)
    BY <1>12, NullNotThread, ObjectsDistinct
    DEF cv_wait_enter, At, ReleaseCheck, Goto, ListsUnchanged, TypeOK, Frames,
        FrameOK, SplOK, Spl, OnePlace, WaitingOn, Broadcasting, Asleep
  <2> QED BY <1>12, <2>1 DEF cv_wait_enter, ReleaseCheck, AbstractStep, Waiting
<1>13. ASSUME NEW t \in Thread, cv_wait_sleep(t)
      PROVE  AbstractStep
  <2>1. /\ SwitchSleep(t, obj[t]) /\ curthread = t /\ curthread' = NULL
        /\ pc[t] = "cvw_sleep" /\ pc' = [pc EXCEPT ![t] = "cvw_woken"] /\ obj' = obj
    BY <1>13 DEF cv_wait_sleep, At, thread_sleep, SwitchSleep, Goto
  <2>2. ASSUME NEW u \in Thread PROVE WaitingOn(u)' = WaitingOn(u)
    <3>1. ~Broadcasting(obj[u]) /\ ~Broadcasting(obj[u])'
      BY <2>1 DEF Broadcasting
    <3>2. CASE u = t
      <4>1. pc'[t] = "cvw_woken" /\ Asleep(t)' /\ obj[t] \in CV
        BY <2>1, SleepsOne DEF TypeOK, Frames, FrameOK
      <4> QED BY <2>1, <3>1, <3>2, <4>1 DEF WaitingOn
    <3>3. CASE u # t
      <4>1. pc'[u] = pc[u] /\ (Asleep(u)' <=> Asleep(u))
        BY <2>1, <3>3, SleepsOne DEF TypeOK
      <4> QED BY <2>1, <3>1, <4>1, WaitsSame
    <3> QED BY <3>2, <3>3
  <2> QED BY <1>13, <2>2 DEF cv_wait_sleep, AbstractStep, Waiting
<1>14. ASSUME NEW t \in Thread, cv_wait_reacquire(t)
      PROVE  AbstractStep
  <2>1. ASSUME NEW u \in Thread PROVE WaitingOn(u)' = WaitingOn(u)
    BY <1>14, NullNotThread, ObjectsDistinct
    DEF cv_wait_reacquire, At, EnterAcquire, Goto, ListsUnchanged, TypeOK, Frames,
        FrameOK, SplOK, Spl, OnePlace, WaitingOn, Broadcasting, Asleep
  <2> QED BY <1>14, <2>1 DEF cv_wait_reacquire, EnterAcquire, AbstractStep, Waiting
<1>15. ASSUME NEW t \in Thread, cv_wait_exit(t)
      PROVE  AbstractStep
  <2>1. ASSUME NEW u \in Thread PROVE WaitingOn(u)' = WaitingOn(u)
    BY <1>15, NullNotThread, ObjectsDistinct
    DEF cv_wait_exit, At, Goto, ListsUnchanged, TypeOK, Frames, FrameOK, SplOK, Spl,
        OnePlace, WaitingOn, Broadcasting, Asleep
  <2> QED BY <1>15, <2>1 DEF cv_wait_exit, AbstractStep, Waiting
<1>16. ASSUME NEW t \in Thread, NEW c \in CV, NEW l \in Lock, cv_signal_enter(t, c, l)
      PROVE  AbstractStep
  <2>1. ASSUME NEW u \in Thread PROVE WaitingOn(u)' = WaitingOn(u)
    BY <1>16, NullNotThread, ObjectsDistinct
    DEF cv_signal_enter, NotifyEnter, At, Goto, ListsUnchanged, TypeOK, Frames,
        FrameOK, SplOK, Spl, OnePlace, WaitingOn, Broadcasting, Asleep
  <2> QED BY <1>16, <2>1 DEF cv_signal_enter, NotifyEnter, AbstractStep, Waiting
<1>17. ASSUME NEW t \in Thread, NEW c \in CV, NEW l \in Lock, cv_broadcast_enter(t, c, l)
      PROVE  AbstractStep
  <2>1. /\ curthread = t /\ pc[t] = "run" /\ l \in held[t] /\ lock_owner[l] = t
        /\ curthread' = curthread /\ sleepers' = sleepers
        /\ pc' = [pc EXCEPT ![t] = "bcast_wake"] /\ obj' = [obj EXCEPT ![t] = c]
    BY <1>17 DEF cv_broadcast_enter, NotifyEnter, At, Goto, ListsUnchanged, OwnerOK
  <2>2. /\ \A x : ~Broadcasting(x)
        /\ \A u : Asleep(u)' <=> Asleep(u)
    BY <2>1 DEF Broadcasting, Asleep
  <2>3. ASSUME NEW u \in Thread
        PROVE  WaitingOn(u)' = IF WaitingOn(u) = c THEN NULL ELSE WaitingOn(u)
    <3>1. CASE u = t
      <4>1. WaitingOn(t) = NULL /\ WaitingOn(t)' = NULL
        BY <2>1 DEF WaitingOn, TypeOK
      <4> QED BY <3>1, <4>1
    <3>2. CASE u # t
      <4>1. pc'[u] = pc[u] /\ obj'[u] = obj[u] /\ pc[u] \notin {"rel_wake", "cvw_sleep"}
        BY <2>1, <3>2, Elsewhere DEF TypeOK
      <4>2. WaitingOn(u) = IF pc[u] = "cvw_woken" /\ Asleep(u) THEN obj[u] ELSE NULL
        BY <2>2, <4>1 DEF WaitingOn
      <4>3. WaitingOn(u)' = IF pc[u] = "cvw_woken" /\ Asleep(u) /\ obj[u] # c
                            THEN obj[u] ELSE NULL
        <5>1. Broadcasting(obj[u])' <=> obj[u] = c
          BY <2>1, <4>1, NullNotThread DEF Broadcasting, TypeOK
        <5> QED BY <2>2, <4>1, <5>1 DEF WaitingOn
      <4> QED BY <4>2, <4>3, ObjectsDistinct
    <3> QED BY <3>1, <3>2
  <2>4. Atomic!Broadcast(t, c)
    BY <1>17, <2>1, <2>3 DEF cv_broadcast_enter, NotifyEnter, Atomic!Broadcast
  <2> QED BY <2>4 DEF AbstractStep, Atomic!SpecNext
<1>18. ASSUME NEW t \in Thread, cv_signal_wake(t)
      PROVE  AbstractStep
  <2>1. /\ curthread = t /\ pc[t] = "sig_wake" /\ curthread' = curthread
        /\ pc' = [pc EXCEPT ![t] = "run"] /\ obj' = [obj EXCEPT ![t] = NULL]
        /\ obj[t] \in CV /\ obj[t] # NULL
    BY <1>18, ObjectsDistinct DEF cv_signal_wake, At, NotifyExit, Goto, Frames, FrameOK
  <2>2. PICK i \in DOMAIN sleepers :
            FirstSleeper(obj[t], i) /\ sleepers' = RemoveAt(sleepers, i)
    BY <1>18 DEF cv_signal_wake
  <2>3. PICK w \in Thread :
        /\ w # t /\ Asleep(w) /\ pc[w] = "cvw_woken" /\ obj[w] = obj[t]
        /\ \A u : Asleep(u)' <=> Asleep(u) /\ u # w
    BY <2>1, <2>2, WakesOne
  <2>4. \A u \in Thread : ~Broadcasting(obj[u]) /\ ~Broadcasting(obj[u])'
    BY <2>1 DEF Broadcasting, TypeOK
  <2>5. WaitingOn(w) = obj[t] /\ WaitingOn(w)' = NULL
    <3>1. pc'[w] = "cvw_woken" /\ ~Asleep(w)'
      BY <2>1, <2>3 DEF TypeOK
    <3> QED BY <2>3, <2>4, <3>1 DEF WaitingOn
  <2>6. ASSUME NEW u \in Thread, u # w PROVE WaitingOn(u)' = WaitingOn(u)
    <3>1. CASE u = t
      BY <2>1, <3>1 DEF WaitingOn, TypeOK
    <3>2. CASE u # t
      <4>1. pc'[u] = pc[u] /\ obj'[u] = obj[u] /\ (Asleep(u)' <=> Asleep(u))
        BY <2>1, <2>3, <2>6, <3>2 DEF TypeOK
      <4> QED BY <2>4, <4>1, WaitsSame
    <3> QED BY <3>1, <3>2
  <2>7. Waiting' = [Waiting EXCEPT ![w] = NULL]
    BY <2>5, <2>6 DEF Waiting
  <2>8. \E l \in Lock : lock_owner[l] = t
    BY <2>1 DEF Signallers, OwnerOK, TypeOK
  <2>9. Atomic!Signal(t, obj[t])
    BY <1>18, <2>3, <2>5, <2>7, <2>8 DEF cv_signal_wake, NotifyExit, Atomic!Signal, Waiting
  <2> QED BY <2>1, <2>9 DEF AbstractStep, Atomic!SpecNext
<1>19. ASSUME NEW t \in Thread, cv_notify_exit(t)
      PROVE  AbstractStep
  <2>1. /\ curthread = t /\ pc[t] \in {"sig_wake", "bcast_wake"} /\ curthread' = curthread
        /\ pc' = [pc EXCEPT ![t] = "run"] /\ obj' = [obj EXCEPT ![t] = NULL]
        /\ sleepers' = sleepers /\ ~HasSleepers(obj[t])
    BY <1>19 DEF cv_notify_exit, At, NotifyExit, Goto, ListsUnchanged
  <2>2. ASSUME NEW u \in Thread PROVE WaitingOn(u)' = WaitingOn(u)
    <3>1. CASE u = t
      BY <2>1, <3>1 DEF WaitingOn, TypeOK
    <3>2. CASE u # t
      <4>1. pc'[u] = pc[u] /\ obj'[u] = obj[u] /\ (Asleep(u)' <=> Asleep(u))
        BY <2>1, <3>2 DEF TypeOK, Asleep
      <4>2. pc[u] = "cvw_woken" /\ Asleep(u) => ~Broadcasting(obj[u]) /\ ~Broadcasting(obj[u])'
        BY <2>1, <4>1 DEF Broadcasting, Asleep, OnePlace, HasSleepers, TypeOK
      <4> QED BY <4>1, <4>2, WaitsSame
    <3> QED BY <3>1, <3>2
  <2> QED BY <1>19, <2>2 DEF cv_notify_exit, NotifyExit, AbstractStep, Waiting
<1>20. ASSUME NEW t \in Thread, thread_wakeup(t)
      PROVE  AbstractStep
  <2>1. /\ WakeNext(WakeAddr(t)) /\ curthread = t /\ curthread' = curthread
        /\ pc' = pc /\ obj' = obj /\ WakeAddr(t) # NULL
        /\ WakeAddr(t) \in CV => Broadcasting(WakeAddr(t))
    BY <1>20, NullNotThread, ObjectsDistinct
    DEF thread_wakeup, WakeNext, WakeAddr, Frames, FrameOK, Broadcasting
  <2>2. PICK i \in DOMAIN sleepers :
            FirstSleeper(WakeAddr(t), i) /\ sleepers' = RemoveAt(sleepers, i)
    BY <2>1 DEF WakeNext
  <2>3. PICK w \in Thread :
        /\ (pc[w] = "cvw_woken" => obj[w] = WakeAddr(t))
        /\ \A u : Asleep(u)' <=> Asleep(u) /\ u # w
    BY <2>1, <2>2, WakesOne
  <2>4. ASSUME NEW u \in Thread PROVE WaitingOn(u)' = WaitingOn(u)
    <3>1. Broadcasting(obj[u])' <=> Broadcasting(obj[u])
      BY <2>1 DEF Broadcasting
    <3>2. CASE u # w
      BY <2>1, <2>3, <3>1, <3>2, WaitsSame
    <3>3. CASE u = w /\ pc[u] = "cvw_woken"
      <4>1. Broadcasting(obj[u]) /\ Broadcasting(obj[u])'
        BY <2>1, <2>3, <3>1, <3>3 DEF Frames, FrameOK
      <4> QED BY <2>1, <3>3, <4>1 DEF WaitingOn
    <3>4. CASE u = w /\ pc[u] # "cvw_woken"
      BY <2>1, <3>4, WaitsSame
    <3> QED BY <3>2, <3>3, <3>4
  <2> QED BY <1>20, <2>4 DEF thread_wakeup, AbstractStep, Waiting
<1>21. ASSUME Preempt
      PROVE  AbstractStep
  <2>1. /\ curthread # NULL /\ curthread \in Thread /\ pc[curthread] # "bcast_wake"
        /\ curthread' = NULL /\ pc' = pc /\ obj' = obj /\ sleepers' = sleepers
    BY <1>21 DEF Preempt, SwitchReady, SplOK, Spl, TypeOK
  <2>2. ASSUME NEW u \in Thread PROVE WaitingOn(u)' = WaitingOn(u)
    <3>1. ~Broadcasting(obj[u]) /\ ~Broadcasting(obj[u])' /\ (Asleep(u)' <=> Asleep(u))
      BY <2>1 DEF Broadcasting, Asleep
    <3> QED BY <2>1, <3>1, WaitsSame
  <2> QED BY <1>21, <2>2 DEF Preempt, AbstractStep, Waiting
<1>22. ASSUME IdleTick
      PROVE  AbstractStep
  <2>1. ASSUME NEW u \in Thread PROVE WaitingOn(u)' = WaitingOn(u)
    BY <1>22, NullNotThread, ObjectsDistinct
    DEF IdleTick, vars, TypeOK, Frames, FrameOK, SplOK, Spl, OnePlace, WaitingOn,
        Broadcasting, Asleep
  <2> QED BY <1>22, <2>1 DEF IdleTick, vars, AbstractStep, Waiting
<1>23. ASSUME Schedule
      PROVE  AbstractStep
  <2>1. /\ curthread = NULL /\ pc' = pc /\ obj' = obj /\ sleepers' = sleepers
        /\ curthread' \in Thread
    BY <1>23, TailSet DEF Schedule, Dispatch, TypeOK
  <2>2. pc[curthread'] # "bcast_wake"
    BY <2>1, NullNotThread, Elsewhere
  <2>3. ASSUME NEW u \in Thread PROVE WaitingOn(u)' = WaitingOn(u)
    <3>1. ~Broadcasting(obj[u]) /\ ~Broadcasting(obj[u])' /\ (Asleep(u)' <=> Asleep(u))
      BY <2>1, <2>2 DEF Broadcasting, Asleep
    <3> QED BY <2>1, <3>1, WaitsSame
  <2> QED BY <1>23, <2>3 DEF Schedule, AbstractStep, Waiting
<1>24. ASSUME NEW s \in Sem, IntrV_enter(s)
      PROVE  AbstractStep
  <2>1. ASSUME NEW u \in Thread PROVE WaitingOn(u)' = WaitingOn(u)
    BY <1>24, NullNotThread, ObjectsDistinct
    DEF IntrV_enter, InterruptsOn, Idle, ListsUnchanged, TypeOK, Frames, FrameOK, SplOK, Spl, OnePlace, WaitingOn,
        Broadcasting, Asleep
  <2>2. Atomic!Up(s)
    BY <1>24, <2>1 DEF IntrV_enter, Atomic!Up
  <2> QED BY <2>2 DEF AbstractStep, Atomic!SpecNext
<1>25. ASSUME IntrV_wake
      PROVE  AbstractStep
  <2>1. /\ WakeNext(irqsem) /\ curthread' = curthread /\ pc' = pc /\ obj' = obj
        /\ irqsem \in Sem /\ irqsem # NULL
    BY <1>25 DEF IntrV_wake, WakeNext, TypeOK
  <2>2. PICK i \in DOMAIN sleepers :
            FirstSleeper(irqsem, i) /\ sleepers' = RemoveAt(sleepers, i)
    BY <2>1 DEF WakeNext
  <2>3. PICK w \in Thread :
        /\ (pc[w] = "cvw_woken" => obj[w] = irqsem)
        /\ \A u : Asleep(u)' <=> Asleep(u) /\ u # w
    BY <2>1, <2>2, WakesOne
  <2>4. ASSUME NEW u \in Thread PROVE WaitingOn(u)' = WaitingOn(u)
    <3>1. Broadcasting(obj[u])' <=> Broadcasting(obj[u])
      BY <2>1 DEF Broadcasting
    <3>2. pc[u] = "cvw_woken" => u # w
      BY <2>1, <2>3, ObjectsDistinct DEF Frames, FrameOK
    <3> QED BY <2>1, <2>3, <3>1, <3>2, WaitsSame
  <2> QED BY <1>25, <2>4 DEF IntrV_wake, AbstractStep, Waiting
<1>26. ASSUME IntrV_exit
      PROVE  AbstractStep
  <2>1. ASSUME NEW u \in Thread PROVE WaitingOn(u)' = WaitingOn(u)
    BY <1>26, NullNotThread, ObjectsDistinct
    DEF IntrV_exit, ListsUnchanged, TypeOK, Frames, FrameOK, SplOK, Spl, OnePlace,
        WaitingOn, Broadcasting, Asleep
  <2> QED BY <1>26, <2>1 DEF IntrV_exit, AbstractStep, Waiting
<1> QED
  BY <1>1, <1>2, <1>3, <1>4, <1>5, <1>6, <1>7, <1>8, <1>9, <1>10, <1>11, <1>12,
     <1>13, <1>14, <1>15, <1>16, <1>17, <1>18, <1>19, <1>20, <1>21, <1>22, <1>23,
     <1>24, <1>25, <1>26
  DEF Next, Call, Continue, Interrupt

\* synch.h: "These operations must be atomic".  The primitives as coded, with
\* interrupts and other threads between their steps, implement SynchSpec, whose
\* operations each take effect at one moment; cv_wait's release and sleep are one.
THEOREM SynchImplementsSpec == Spec => AtomicOperations
<1>1. Init => Atomic!SpecInit /\ Signallers
  <2> SUFFICES ASSUME Init PROVE Atomic!SpecInit /\ Signallers
    OBVIOUS
  <2>1. ASSUME NEW t \in Thread PROVE WaitingOn(t) = NULL
    BY DEF Init, WaitingOn
  <2>2. Signallers
    BY DEF Init, Signallers
  <2> QED BY <2>1, <2>2 DEF Init, Atomic!SpecInit
<1>2. SynchInv /\ Signallers /\ [Next]_vars => Signallers' /\ AbstractStep
  <2> SUFFICES ASSUME SynchInv, Signallers, [Next]_vars PROVE Signallers' /\ AbstractStep
    OBVIOUS
  <2>1. CASE Next
    BY <2>1, SignallerStep, StepRefines DEF SynchInv, Frames
  <2>2. CASE UNCHANGED vars
    <3>1. ASSUME NEW u \in Thread PROVE WaitingOn(u)' = WaitingOn(u)
      BY <2>2 DEF vars, WaitingOn, Broadcasting, Asleep
    <3> QED BY <2>2, <3>1 DEF vars, Signallers, AbstractStep, Waiting
  <2> QED BY <2>1, <2>2
<1>3. AbstractStep => [Atomic!SpecNext]_(Atomic!specVars)
  BY DEF AbstractStep, Atomic!specVars, Waiting
<1> QED BY <1>1, <1>2, <1>3, SynchInvariant, PTL
        DEF Spec, AtomicOperations, Atomic!SynchSpecification
=============================================================================
