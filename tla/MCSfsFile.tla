----------------------------- MODULE MCSfsFile -----------------------------
(* Instances of SfsFile for TLC. *)
EXTENDS SfsFile, TLC

CONSTANTS f, g

\* last only describes the step that was taken: no action reads it, so states are
\* told apart without it.
StateView == <<freemap, disk, inode, fault>>

Symmetry == Permutations(File)
=============================================================================
