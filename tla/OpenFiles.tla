----------------------------- MODULE OpenFiles -----------------------------
(***************************************************************************)
(* src/assignment3/ownSolution/file.c: the open file table shared by all   *)
(* processes and the descriptor table of each.  System calls run with      *)
(* interrupts on, so processes interleave between any two accesses of      *)
(* shared data, and they sleep in every call of the VFS.  A vnode is the   *)
(* file it was opened for.  No system call shares an entry between two     *)
(* descriptors, so counts are 1.                                           *)
(***************************************************************************)
EXTENDS Kernel, Integers, FiniteSets

CONSTANTS Path,           \* files that can be opened
          Access,         \* the modes of opens, of RDONLY, WRONLY and RDWR
          MAX_OPEN_FILES,
          MAX_FD,
          MaxFp,          \* bound: file positions
          MaxOpens        \* bound: no more opens while a file has more than these

ASSUME TableSizes == {MAX_OPEN_FILES, MAX_FD, MaxFp, MaxOpens} \subseteq Nat \ {0}
ASSUME AccessAssumption == Access \subseteq {"RDONLY", "WRONLY", "RDWR"}
ASSUME PathAssumption == NULL \notin Path /\ "BUSY" \notin Path
ASSUME NullIsNoEntry == NULL \notin 1..MAX_OPEN_FILES /\ NULL # "BUSY"

VARIABLES oft,       \* the open file table
          pathname,  \* sys_open's static buffer
          fdt,       \* process -> descriptor -> index in oft, or NULL
          of,        \* process -> its place in a system call
          opens,     \* file -> vfs_opens not yet closed
          leaked,    \* entries of processes that exited
          twice,     \* two processes claimed one entry
          of_panic   \* a NULL descriptor was dereferenced

of_vars == <<oft, pathname, fdt, of, opens, leaked, twice, of_panic>>

Entry == 1..MAX_OPEN_FILES
Fd == 0..(MAX_FD - 1)

Free == [vn |-> NULL, count |-> 0, fp |-> 0, flags |-> NULL, for |-> NULL]
User == [pc |-> "user", fd |-> 0, i |-> 0, path |-> NULL, flags |-> NULL, fp |-> 0]

\* oft_bootstrap, and the empty table that thread_fork gives every process.
OpenFilesInit ==
    /\ oft = [i \in Entry |-> Free]
    /\ pathname = NULL
    /\ fdt = [t \in Thread |-> [k \in Fd |-> NULL]]
    /\ of = [t \in Thread |-> User]
    /\ opens = [f \in Path |-> 0]
    /\ leaked = {} /\ twice = FALSE /\ of_panic = FALSE

InCall(t, pc) == of[t].pc = pc /\ ~of_panic
Local(t, r) == of' = [of EXCEPT ![t] = r]
Back(t) == Local(t, User)

----------------------------------------------------------------------------
(* sys_open; sys_kopen is the same from oft_alloc on, with a given fd. *)

\* copyinstr into the static buffer, and the first free descriptor.
sys_open(t, f, flags) ==
    /\ InCall(t, "user") /\ opens[f] <= MaxOpens
    /\ pathname' = f
    /\ LET free == {k \in Fd : fdt[t][k] = NULL} IN
       IF free = {} THEN Back(t)
       ELSE Local(t, [User EXCEPT !.pc = "alloc", !.path = f, !.flags = flags,
                                  !.fd = CHOOSE k \in free : \A l \in free : k <= l])
    /\ UNCHANGED <<oft, fdt, opens, leaked, twice, of_panic>>

\* oft_alloc's search, up to the test that finds an entry free ...
oft_alloc_test(t) ==
    /\ InCall(t, "alloc")
    /\ LET free == {i \in Entry : oft[i].vn = NULL} IN
       IF free = {} THEN Back(t)
       ELSE Local(t, [of[t] EXCEPT !.pc = "claim", !.i = CHOOSE i \in free : \A j \in free : i <= j])
    /\ UNCHANGED <<oft, pathname, fdt, opens, leaked, twice, of_panic>>

\* Mutant of oft_alloc_claim: the entry is not marked while vfs_open runs.
oft_alloc_claim_free(t) ==
    /\ InCall(t, "claim")
    /\ oft' = [oft EXCEPT ![of[t].i].count = 1]
    /\ Local(t, [of[t] EXCEPT !.pc = "vfs_open"])
    /\ UNCHANGED <<pathname, fdt, opens, leaked, twice, of_panic>>

\* ... and its claim, before which the timer may run another process.
oft_alloc_claim(t) ==
    /\ InCall(t, "claim")
    /\ twice' = (twice \/ oft[of[t].i].vn # NULL)
    /\ oft' = [oft EXCEPT ![of[t].i] = [@ EXCEPT !.vn = "BUSY", !.count = 1]]
    /\ Local(t, [of[t] EXCEPT !.pc = "vfs_open"])
    /\ UNCHANGED <<pathname, fdt, opens, leaked, of_panic>>

\* oft_free
Freed(i) ==
    [oft EXCEPT ![i] = IF oft[i].count = 1 THEN Free ELSE [oft[i] EXCEPT !.count = @ - 1]]

\* vfs_open, which sleeps before it is done with the path: it fails, or the
\* entry and the descriptor are filled in.
open_finish(t) ==
    /\ InCall(t, "vfs_open")
    /\ \/ /\ oft' = Freed(of[t].i)
          /\ fdt' = [fdt EXCEPT ![t][of[t].fd] = NULL]
          /\ UNCHANGED opens
       \/ /\ fdt' = [fdt EXCEPT ![t][of[t].fd] = of[t].i]
          /\ oft' = [oft EXCEPT ![of[t].i] = [@ EXCEPT !.vn = pathname, !.fp = 0,
                                                       !.flags = of[t].flags, !.for = of[t].path]]
          /\ opens' = [opens EXCEPT ![pathname] = @ + 1]
    /\ Back(t)
    /\ UNCHANGED <<pathname, leaked, twice, of_panic>>

----------------------------------------------------------------------------
(* Calls on a descriptor. *)

\* check_fd_access for a use that the flags must not be.
Accessible(t, k, not) == k \in Fd /\ fdt[t][k] # NULL /\ oft[fdt[t][k]].flags # not

\* sys_read and sys_write up to the transfer, with the position it starts at.
sys_io(t, k, not) ==
    /\ InCall(t, "user") /\ Accessible(t, k, not)
    /\ Local(t, [User EXCEPT !.pc = "transfer", !.fd = k, !.fp = oft[fdt[t][k]].fp])
    /\ UNCHANGED <<oft, pathname, fdt, opens, leaked, twice, of_panic>>

\* Its end: an error, or the position moved by what was transferred.
io_move(t) ==
    /\ InCall(t, "transfer")
    /\ \/ UNCHANGED oft
       \/ \E n \in 0..(MaxFp - of[t].fp) : oft' = [oft EXCEPT ![fdt[t][of[t].fd]].fp = of[t].fp + n]
    /\ Back(t)
    /\ UNCHANGED <<pathname, fdt, opens, leaked, twice, of_panic>>

\* sys_lseek: errors of VOP_TRYSEEK are positive and the code tests r < 0, so
\* every position that is not negative is accepted.
sys_lseek(t, k, newfp) ==
    /\ InCall(t, "user") /\ Accessible(t, k, "none") /\ newfp >= 0
    /\ oft' = [oft EXCEPT ![fdt[t][k]].fp = newfp]
    /\ UNCHANGED <<pathname, fdt, of, opens, leaked, twice, of_panic>>

\* sys_fstat has no check of the descriptor.
sys_fstat(t, k) ==
    /\ InCall(t, "user")
    /\ of_panic' = (fdt[t][k] = NULL)
    /\ UNCHANGED <<oft, pathname, fdt, of, opens, leaked, twice>>

\* sys_close: the entry is free before vfs_close, which sleeps ...
sys_close(t, k) ==
    /\ InCall(t, "user") /\ Accessible(t, k, "none")
    /\ oft' = Freed(fdt[t][k])
    /\ IF oft[fdt[t][k]].count = 1
       THEN Local(t, [User EXCEPT !.pc = "vfs_close", !.fd = k, !.path = oft[fdt[t][k]].vn])
            /\ UNCHANGED fdt
       ELSE fdt' = [fdt EXCEPT ![t][k] = NULL] /\ UNCHANGED of
    /\ UNCHANGED <<pathname, opens, leaked, twice, of_panic>>

\* ... and the descriptor after it.
close_finish(t) ==
    /\ InCall(t, "vfs_close")
    /\ of[t].path \in Path
    /\ opens' = [opens EXCEPT ![of[t].path] = @ - 1]
    /\ fdt' = [fdt EXCEPT ![t][of[t].fd] = NULL]
    /\ Back(t)
    /\ UNCHANGED <<oft, pathname, leaked, twice, of_panic>>

\* thread_exit and exorcise: the descriptor table is freed and its entries
\* are not; thread_fork gives the next process an empty table.
exit_process(t) ==
    /\ InCall(t, "user")
    /\ leaked' = leaked \cup {fdt[t][k] : k \in {l \in Fd : fdt[t][l] # NULL}}
    /\ fdt' = [fdt EXCEPT ![t] = [k \in Fd |-> NULL]]
    /\ UNCHANGED <<oft, pathname, of, opens, twice, of_panic>>

----------------------------------------------------------------------------

OpenFilesNext == \E t \in Thread :
    \/ \E f \in Path, flags \in Access : sys_open(t, f, flags)
    \/ oft_alloc_test(t) \/ oft_alloc_claim(t) \/ open_finish(t)
    \/ \E k \in Fd : \/ sys_io(t, k, "WRONLY") \/ sys_io(t, k, "RDONLY")
                     \/ sys_close(t, k) \/ sys_fstat(t, k)
                     \/ \E fp \in 0..MaxFp : sys_lseek(t, k, fp)
    \/ io_move(t) \/ close_finish(t) \/ exit_process(t)

OpenFilesBehaviour == OpenFilesInit /\ [][OpenFilesNext]_of_vars

----------------------------------------------------------------------------
(* Properties *)

\* The descriptors in use, without the one that its process is closing.
InUse == {x \in Thread \X Fd : /\ fdt[x[1]][x[2]] # NULL
                                /\ ~(of[x[1]].pc = "vfs_close" /\ of[x[1]].fd = x[2])}

\* As long as the timer never lets two processes claim the same entry (see
\* oft_alloc), opens and closes that sleep in the file system at the same time
\* keep the tables right: a descriptor has an entry of its own, with an open
\* file; every file is closed as often as it was opened; and an entry is in
\* use only if a descriptor, or an open under way, or a dead process has it.
EntriesOwned ==
    subject = "openfiles" /\ ~twice =>
        /\ \A x, y \in InUse : fdt[x[1]][x[2]] = fdt[y[1]][y[2]] => x = y
        /\ \A x \in InUse : oft[fdt[x[1]][x[2]]].vn \in Path /\ oft[fdt[x[1]][x[2]]].count = 1
        /\ \A f \in Path :
             opens[f] = Cardinality({i \in Entry : oft[i].vn = f})
                        + Cardinality({t \in Thread : of[t].pc = "vfs_close" /\ of[t].path = f})
        /\ \A i \in Entry : oft[i].vn # NULL =>
             \/ \E x \in InUse : fdt[x[1]][x[2]] = i
             \/ \E t \in Thread : of[t].pc = "vfs_open" /\ of[t].i = i
             \/ i \in leaked

\* "copy the pathname into a local buffer": a process gets the file it named.
OpensWhatItNamed ==
    \A x \in InUse : oft[fdt[x[1]][x[2]]].vn = oft[fdt[x[1]][x[2]]].for
=============================================================================
