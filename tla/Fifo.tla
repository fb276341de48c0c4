-------------------------------- MODULE Fifo --------------------------------
(***************************************************************************)
(* The queue that kern/include/queue.h describes: first in, first out.     *)
(* An insertion may fail for want of memory and then changes nothing.      *)
(***************************************************************************)
EXTENDS Sequences

CONSTANTS Elem, NULL

VARIABLES items,   \* the queue, oldest first
          result   \* what the last operation returned

fifoVars == <<items, result>>

FifoInit == items = << >> /\ result = NULL

Put(e) == items' = Append(items, e) /\ result' = "ok"
Take == items # << >> /\ result' = Head(items) /\ items' = Tail(items)
Same == result' \in {"ok", "ENOMEM"} /\ UNCHANGED items

FifoNext == (\E e \in Elem : Put(e)) \/ Take \/ Same

FifoSpec == FifoInit /\ [][FifoNext]_fifoVars
=============================================================================
