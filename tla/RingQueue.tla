----------------------------- MODULE RingQueue -----------------------------
(***************************************************************************)
(* kern/lib/queue.c: a growable queue of pointers in a ring, which is the  *)
(* scheduler's run queue.  nextwrite = nextread means empty, so one slot   *)
(* stays free.  kmalloc may fail in every growth.                          *)
(***************************************************************************)
EXTENDS Kernel, Integers, Sequences

CONSTANTS Elem,     \* the pointers put in the queue
          InitSize, \* q_create's argument
          MaxSize   \* bound: no growth beyond it is tried

ASSUME SizesAreNat == InitSize \in Nat \ {0} /\ MaxSize \in Nat
ASSUME ElemAssumption == NULL \notin Elem

VARIABLES size, nextread, nextwrite, data,
          result    \* what the last call returned

ring_vars == <<size, nextread, nextwrite, data, result>>

\* q_create
RingInit ==
    /\ size = InitSize
    /\ nextread = 0 /\ nextwrite = 0
    /\ data = [i \in 0..(InitSize - 1) |-> NULL]
    /\ result = NULL

----------------------------------------------------------------------------

q_empty == nextwrite = nextread

\* The number of elements between nextread and nextwrite.
Count == (nextwrite - nextread + size) % size

\* The elements, oldest first: the walk of print_run_queue and of q_grow's copy.
Contents == [i \in 1..Count |-> data[(nextread + i - 1) % size]]

\* The size q_grow's doubling reaches.
NewSize(n, target) ==
    LET grown[m \in Nat \ {0}] == IF target <= m THEN m ELSE grown[m * 2]
    IN grown[n]

\* Mutant of Grown: the vector is extended in place, without unrolling the ring.
Grown_inplace(nsize) ==
    [size |-> nsize, nextread |-> nextread, nextwrite |-> nextwrite,
     data |-> [i \in 0..(nsize - 1) |-> IF i < size THEN data[i] ELSE NULL]]

\* q_grow: a vector of nsize slots with the elements copied to its front.
Grown(nsize) ==
    [size |-> nsize, nextread |-> 0, nextwrite |-> Count,
     data |-> [i \in 0..(nsize - 1) |-> IF i < Count THEN Contents[i + 1] ELSE NULL]]

\* Store ptr at nextwrite of the ring q and advance.
Stored(q, ptr) ==
    [q EXCEPT !.data = [@ EXCEPT ![q.nextwrite] = ptr],
              !.nextwrite = (@ + 1) % q.size]

Ring == [size |-> size, nextread |-> nextread, nextwrite |-> nextwrite, data |-> data]

Become(q) == /\ size' = q.size /\ nextread' = q.nextread
             /\ nextwrite' = q.nextwrite /\ data' = q.data

Unmoved == UNCHANGED <<size, nextread, nextwrite, data>>

----------------------------------------------------------------------------

\* q_addtail with a free slot.
q_addtail(ptr) ==
    /\ (nextwrite + 1) % size # nextread
    /\ Become(Stored(Ring, ptr))
    /\ result' = "ok"

\* q_addtail when the ring is full: it grows, or fails and keeps the queue.
q_addtail_grow(ptr) ==
    /\ (nextwrite + 1) % size = nextread
    /\ size + 1 <= MaxSize
    /\ \/ Become(Stored(Grown(NewSize(size, size + 1)), ptr)) /\ result' = "ok"
       \/ Unmoved /\ result' = "ENOMEM"

\* q_remhead; its callers make sure that the queue is not empty.
q_remhead ==
    /\ ~q_empty
    /\ result' = data[nextread]
    /\ nextread' = (nextread + 1) % size
    /\ UNCHANGED <<size, nextwrite, data>>

q_preallocate(n) ==
    \/ n > size /\ Become(Grown(NewSize(size, n))) /\ result' = "ok"
    \/ n > size /\ Unmoved /\ result' = "ENOMEM"
    \/ n <= size /\ Unmoved /\ result' = "ok"

RingNext == \/ \E ptr \in Elem : q_addtail(ptr) \/ q_addtail_grow(ptr)
            \/ q_remhead
            \/ \E n \in 1..MaxSize : q_preallocate(n)

RingBehaviour == RingInit /\ [][RingNext]_ring_vars

----------------------------------------------------------------------------
(* Properties *)

\* The indices stay inside the vector, and every slot between them was written.
RingOK ==
    /\ size \in Nat \ {0}
    /\ nextread \in 0..(size - 1) /\ nextwrite \in 0..(size - 1)
    /\ DOMAIN data = 0..(size - 1)
    /\ \A i \in 1..Count : Contents[i] \in Elem

Queue == INSTANCE Fifo WITH items <- Contents

\* The ring is a first-in first-out queue, whatever wraps around, grows while
\* wrapped, or fails to grow, and its indices never leave the vector.
IsFifo == Queue!FifoSpec /\ []RingOK
=============================================================================
