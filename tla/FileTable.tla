----------------------------- MODULE FileTable -----------------------------
(***************************************************************************)
(* src/assignment2/ownSolution/file.c: the file table of assignment 2, one *)
(* for the one process it runs.  Duplicates made by dup2 are linked in a   *)
(* ring (filetable_dup) through the descriptor they were made from         *)
(* (filetable_parent), so that a transfer can move the offsets of all.     *)
(* Memory that is not the table's is read as any value: an index beyond    *)
(* the arrays, the vnode of a failed open, a vnode that was closed.        *)
(***************************************************************************)
EXTENDS Kernel, Integers

CONSTANTS OpenFile,       \* vnodes that vfs_open returns
          FILETABLESIZE,
          Named,          \* the descriptors the process uses in its calls
          MaxOffset,      \* bound: offsets in a file
          MaxOpened       \* bound: opens of one vnode at a time

ASSUME FileTableSizes == FILETABLESIZE \in Nat /\ FILETABLESIZE > 3
                         /\ {MaxOffset, MaxOpened} \subseteq Nat
ASSUME NamedAssumption == Named \subseteq 0..(FILETABLESIZE - 1)
ASSUME OpenFileAssumption == {NULL, "con", "garbage"} \cap OpenFile = {}

VARIABLES filetable,  \* the arrays of file.h: the vnode, the offset, the next of the
                      \* ring, whether it is a duplicate and of what, per descriptor
          ft_open,     \* vnode -> vfs_opens not yet closed
          mixed,      \* dup2 was called on a duplicate, or on descriptor 0
          stopped     \* why the kernel no longer runs as the code says

table_vars == <<filetable, ft_open, mixed, stopped>>

FtSlot == 0..(FILETABLESIZE - 1)

\* Zeroed arrays, with the console that runprogram attaches.
FileTableInit ==
    /\ filetable = [vnode  |-> [i \in FtSlot |-> IF i \in {1, 2} THEN "con" ELSE NULL],
                    offset |-> [i \in FtSlot |-> 0],     dup    |-> [i \in FtSlot |-> 0],
                    isdup  |-> [i \in FtSlot |-> FALSE], parent |-> [i \in FtSlot |-> 0]]
    /\ ft_open = [v \in OpenFile |-> 0]
    /\ mixed = FALSE /\ stopped = "no"

Runs == stopped = "no"
Stop(why) == stopped' = why /\ UNCHANGED <<filetable, ft_open, mixed>>

\* The vnode of fd can be called.
Live(fd) == LET v == filetable.vnode[fd] IN v = "con" \/ (v \in OpenFile /\ ft_open[v] > 0)

\* Where the walk along filetable_dup from fd ends, as the list does, or before
\* it would return to fd; where the walk is after k steps.
Ends(ft, fd, i) == ft.dup[i] <= 0 \/ ft.dup[i] = fd
Walk(ft, fd) == LET at[k \in 0..FILETABLESIZE] ==
                      IF k = 0 THEN fd
                      ELSE IF Ends(ft, fd, at[k - 1]) THEN at[k - 1] ELSE ft.dup[at[k - 1]]
                IN at
LastDup(ft, fd) == Walk(ft, fd)[FILETABLESIZE]
Endless(ft, fd) == ~Ends(ft, fd, LastDup(ft, fd))
Passed(ft, fd) == {Walk(ft, fd)[k] : k \in 0..FILETABLESIZE}

----------------------------------------------------------------------------
(* open and close *)

\* The first free slot, kept when vfs_open fails; the scan of a full table goes
\* one beyond the arrays.
open ==
    /\ Runs
    /\ LET free == {i \in FtSlot : i >= 3 /\ filetable.vnode[i] = NULL /\ ~filetable.isdup[i]}
           i == CHOOSE k \in free : \A l \in free : k <= l
           with(v) == filetable' = [filetable EXCEPT !.vnode[i] = v, !.offset[i] = 0,
                                                     !.dup[i] = -1, !.parent[i] = 0] IN
       \/ free = {} /\ UNCHANGED table_vars
       \/ free = {} /\ Stop("beyond")
       \/ free # {} /\ with("garbage") /\ UNCHANGED <<ft_open, mixed, stopped>>
       \/ /\ free # {}
          /\ \E v \in OpenFile : /\ ft_open[v] < MaxOpened
                                 /\ with(v)
                                 /\ ft_open' = [ft_open EXCEPT ![v] = @ + 1]
          /\ UNCHANGED <<mixed, stopped>>

\* What close refuses.
Refused(fd) == fd \in {0, 1, 2} \/ filetable.vnode[fd] = NULL \/ filetable.isdup[fd]

\* The slots that close's scan finds to be duplicates of fd.
DupsOf(fd) == {i \in FtSlot : filetable.parent[i] = fd}

\* Mutant of Closed: the duplicates keep the vnode.
Closed_alone(fd) ==
    [filetable EXCEPT !.vnode[fd] = NULL, !.offset[fd] = -1, !.dup[fd] = -1]

\* The table after close(fd).
Closed(fd) ==
    LET gone == DupsOf(fd) IN
    [vnode  |-> [i \in FtSlot |-> IF i \in gone \cup {fd} THEN NULL ELSE filetable.vnode[i]],
     offset |-> [filetable.offset EXCEPT ![fd] = -1],
     dup    |-> [filetable.dup EXCEPT ![fd] = -1],
     isdup  |-> [i \in FtSlot |-> i \notin gone /\ filetable.isdup[i]],
     parent |-> [i \in FtSlot |-> IF i \in gone THEN 0 ELSE filetable.parent[i]]]
vfs_closed(fd) == ft_open' = [ft_open EXCEPT ![filetable.vnode[fd]] = @ - 1]

\* close of a descriptor it does not refuse; beyond the arrays its scan may
\* find anything.
close(fd) ==
    /\ Runs /\ ~Refused(fd)
    /\ \/ Live(fd) /\ filetable' = Closed(fd) /\ vfs_closed(fd) /\ UNCHANGED <<mixed, stopped>>
       \/ Stop(IF Live(fd) THEN "beyond" ELSE "garbage")

----------------------------------------------------------------------------
(* Transfers and seeks *)

\* Mutant of updateoffset: only the next duplicate follows.
updateoffset_next(fd, off) ==
    [filetable.offset EXCEPT ![fd] = off,
                             ![IF filetable.dup[fd] > 0 THEN filetable.dup[fd] ELSE fd] = off]

\* updateoffset(fd), after the offset of fd became off.
updateoffset(fd, off) ==
    [i \in FtSlot |-> IF i \in Passed(filetable, fd) THEN off ELSE filetable.offset[i]]

\* read and write, which may fail: on success the offset moves by what was
\* transferred, in fd and then around its ring.
transfer(fd) ==
    /\ Runs /\ filetable.vnode[fd] # NULL
    /\ \/ ~Live(fd) /\ Stop("garbage")
       \/ Live(fd) /\ Endless(filetable, fd) /\ Stop("endless")
       \/ /\ Live(fd) /\ ~Endless(filetable, fd)
          /\ \E off \in (filetable.offset[fd] + 1)..MaxOffset :
                filetable' = [filetable EXCEPT !.offset = updateoffset(fd, off)]
          /\ UNCHANGED <<ft_open, mixed, stopped>>

write(fd) == fd # 0 /\ transfer(fd)
\* read stops at the size that VOP_STAT gives, which is 0 for the console.
read(fd) == fd \notin {1, 2} /\ filetable.vnode[fd] # "con" /\ transfer(fd)

\* lseek: an illegal position, any on the console, is undone; duplicates are not told.
lseek(fd) ==
    /\ Runs /\ fd \notin {0, 1, 2} /\ filetable.vnode[fd] \notin {NULL, "con"}
    /\ \/ ~Live(fd) /\ Stop("garbage")
       \/ /\ Live(fd)
          /\ \E off \in 0..MaxOffset : filetable' = [filetable EXCEPT !.offset[fd] = off]
          /\ UNCHANGED <<ft_open, mixed, stopped>>

----------------------------------------------------------------------------
(* dup2 *)

\* newfd put into the ring of oldfd, after its last member.
Linked(ft, oldfd, newfd) ==
    LET last == LastDup(ft, oldfd) IN
    [ft EXCEPT !.vnode[newfd] = ft.vnode[last], !.dup = [@ EXCEPT ![newfd] = oldfd, ![last] = newfd],
               !.isdup[newfd] = TRUE, !.parent[newfd] = oldfd]

\* dup2 onto a descriptor that is not in use, or that is closed first; closing
\* it may close oldfd too.
dup2(oldfd, newfd) ==
    /\ Runs
    /\ LET used == filetable.vnode[newfd] # NULL
           ft == IF used THEN Closed(newfd) ELSE filetable IN
       /\ used => ~Refused(newfd)
       /\ \/ used /\ ~Live(newfd) /\ Stop("garbage")
          \/ /\ used => Live(newfd)
             /\ ft.vnode[oldfd] # NULL /\ Endless(ft, oldfd) /\ Stop("endless")
          \/ /\ used => Live(newfd)
             /\ ft.vnode[oldfd] = NULL \/ ~Endless(ft, oldfd)
             /\ filetable' = IF ft.vnode[oldfd] = NULL THEN ft ELSE Linked(ft, oldfd, newfd)
             /\ IF used THEN vfs_closed(newfd) ELSE UNCHANGED ft_open
             /\ mixed' = (mixed \/ (ft.vnode[oldfd] # NULL /\ (ft.isdup[oldfd] \/ 0 \in {oldfd, newfd})))
             /\ UNCHANGED stopped

\* dup2 accepts descriptors one beyond the arrays.
dup2_beyond == Runs /\ Stop("beyond")

----------------------------------------------------------------------------

FileTableNext ==
    \/ open \/ dup2_beyond
    \/ \E fd \in Named : close(fd) \/ write(fd) \/ read(fd) \/ lseek(fd)
    \/ \E oldfd, newfd \in Named : dup2(oldfd, newfd)

FileTableBehaviour == FileTableInit /\ [][FileTableNext]_table_vars

----------------------------------------------------------------------------
(* Properties *)

\* Whatever is opened, duplicated, written and closed in whatever order, as long
\* as dup2 is given originals other than descriptor 0: the ring of an original
\* passes all of its duplicates and nothing else, all have its vnode, and no
\* descriptor is left with the vnode of a file that was closed.
RingsOK ==
    subject = "filetable" /\ ~mixed =>
        /\ \A fd \in FtSlot \ {0} : filetable.vnode[fd] # NULL /\ ~filetable.isdup[fd] =>
             /\ ~Endless(filetable, fd)
             /\ Passed(filetable, fd) \ {fd} = DupsOf(fd)
             /\ \A i \in DupsOf(fd) : filetable.vnode[i] = filetable.vnode[fd]
        /\ \A i \in FtSlot : filetable.isdup[i] => ~filetable.isdup[filetable.parent[i]]
        /\ \A i \in FtSlot : filetable.vnode[i] \in OpenFile => ft_open[filetable.vnode[i]] > 0

\* "update offset for all duplicates": a transfer that moves one descriptor's
\* offset leaves the original and all its duplicates at the same offset.
OffsetsFollow ==
    [][subject = "filetable" => \A fd \in FtSlot :
          ~mixed /\ transfer(fd) /\ stopped' = "no" =>
            LET first == IF filetable.isdup[fd] THEN filetable.parent[fd] ELSE fd IN
            \A i \in DupsOf(first) \cup {first} : filetable.offset'[i] = filetable.offset'[fd]]_table_vars

\* man/syscall/close.html: "Other file handles are not affected in any way, even if
\* they are attached to the same file."  close drops all duplicates of what it closes.
OthersUnaffected ==
    [][subject = "filetable" => \A fd, other \in Named :
          close(fd) /\ other # fd => filetable.vnode'[other] = filetable.vnode[other]]_table_vars

\* "have to prevent inifinte passage...": no walk along the duplicates goes on
\* for ever.
WalksEnd == stopped # "endless"
=============================================================================
