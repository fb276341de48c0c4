------------------------------ MODULE MCSynch ------------------------------
(* Instances of Synch for TLC. *)
EXTENDS Synch

CONSTANTS InitialCount   \* the same initial_count for every semaphore

MCInitCount == [s \in Sem |-> InitialCount]

=============================================================================
