------------------------------- MODULE Kernel -------------------------------
(* What the models of drivers, file systems and system calls share: the    *)
(* threads that call them, and a value that is none of theirs.  They share *)
(* no state, so a behaviour exercises one of them, and a property of a     *)
(* component is about the behaviours whose subject it is.                  *)
EXTENDS FiniteSets

CONSTANTS Thread, NULL

VARIABLE subject   \* the component a behaviour exercises

ASSUME NullIsNoThread == NULL \notin Thread
ASSUME ThreadsFinite == IsFiniteSet(Thread)
=============================================================================
