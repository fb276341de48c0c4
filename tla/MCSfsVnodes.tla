---------------------------- MODULE MCSfsVnodes ----------------------------
(* Instances of SfsVnodes for TLC. *)
EXTENDS SfsVnodes, TLC

CONSTANTS t1, t2, a, b

Symmetry == Permutations(Name) \cup Permutations(Thread)
=============================================================================
