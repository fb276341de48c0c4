------------------------------- MODULE Mounts -------------------------------
(***************************************************************************)
(* kern/fs/vfs/vfslist.c, the table of devices and what is mounted on      *)
(* them, with the volume operations of kern/fs/sfs/sfs_fs.c below it:      *)
(* mounting, syncing and unmounting under knowndevs_lock, while files of   *)
(* mounted volumes, which take no lock, are opened, changed and closed.    *)
(* Every transfer sleeps and may fail.  A write that the disk refuses is    *)
(* retried by sfs_rwblock with a buffer that is already used up, so that    *)
(* lhd_io has nothing left to do and returns 0: the caller takes a block    *)
(* for written that is not.  Only another error of a device's d_io is       *)
(* reported.  Nothing in SFS sets sfs_superdirty, so the superblock is      *)
(* never written.                                                           *)
(***************************************************************************)
EXTENDS Kernel, Integers, FiniteSets

CONSTANTS NDev,       \* mountable devices, in the table's order
          MapBlocks,  \* blocks of a volume's free map
          MaxVnodes   \* bound: vnodes of one volume in memory

ASSUME MountSizes == {NDev, MapBlocks, MaxVnodes} \subseteq Nat \ {0}

VARIABLES knowndevs_lock,  \* the owner
          kd_fs,           \* device -> a volume is mounted
          unsaved,         \* device -> blocks of its free map that differ from disk
          miswritten,      \* device -> the blocks of it whose last write was lost
          dirty,           \* device -> sfs_freemapdirty
          vnodes,          \* device -> the number of sfs_vnodes
          mt,              \* per thread: its place in a table operation
          lost,            \* devices unmounted with a block unsaved that was not miswritten
          raced,           \* devices whose map changed while it was written
          vol_panic        \* the assert or panic that stopped the system

file_vars == <<kd_fs, unsaved, miswritten, dirty, vnodes>>
mount_vars == <<knowndevs_lock, file_vars, mt, lost, raced, vol_panic>>

Dev == 1..NDev

Out == [pc |-> "idle", op |-> "none", d |-> 0, j |-> 0, num |-> 0, again |-> FALSE]

\* vfs_bootstrap and vfs_adddev: every device known, nothing mounted.
MountsInit ==
    /\ knowndevs_lock = NULL
    /\ kd_fs = [d \in Dev |-> FALSE] /\ dirty = [d \in Dev |-> FALSE]
    /\ unsaved = [d \in Dev |-> {}] /\ miswritten = [d \in Dev |-> {}]
    /\ vnodes = [d \in Dev |-> 0]
    /\ mt = [t \in Thread |-> Out]
    /\ lost = {} /\ raced = {} /\ vol_panic = "none"

Enter(t, r) == mt' = [mt EXCEPT ![t] = r]
Where(t, pc) == mt[t].pc = pc /\ vol_panic = "none"
Panic(why) == vol_panic' = why

----------------------------------------------------------------------------
(* The operations on the table, each under the lock. *)

\* vfs_mount, vfs_unmount and vfs_getroot name a device; vfs_sync and
\* vfs_unmountall go through all of them.
table_call(t, op, d) ==
    /\ Where(t, "idle") /\ knowndevs_lock = NULL
    /\ knowndevs_lock' = t
    /\ Enter(t, [Out EXCEPT !.pc = IF op \in {"sync", "unmountall"} THEN "next" ELSE op,
                            !.op = op, !.d = d])
    /\ UNCHANGED <<file_vars, lost, raced, vol_panic>>

Unlock(t) == knowndevs_lock' = NULL /\ Enter(t, Out)

\* The next mounted device of vfs_sync and vfs_unmountall.
vfs_next(t) ==
    /\ Where(t, "next")
    /\ LET rest == {d \in Dev : d > mt[t].d /\ kd_fs[d]} IN
       IF rest = {} THEN Unlock(t)
       ELSE /\ Enter(t, [mt[t] EXCEPT !.pc = "sync", !.again = FALSE,
                                      !.d = CHOOSE d \in rest : \A e \in rest : d <= e])
            /\ UNCHANGED knowndevs_lock
    /\ UNCHANGED <<file_vars, lost, raced, vol_panic>>

\* vfs_mount: busy, or sfs_domount reads the superblock.
vfs_mount(t) ==
    /\ Where(t, "mount")
    /\ \/ Unlock(t)
       \/ /\ ~kd_fs[mt[t].d]
          /\ Enter(t, [mt[t] EXCEPT !.pc = "mapread", !.j = 1])
          /\ UNCHANGED knowndevs_lock
    /\ UNCHANGED <<file_vars, lost, raced, vol_panic>>

\* sfs_mapio reading block j, and the volume in the table after the last one.
sfs_domount(t) ==
    /\ Where(t, "mapread")
    /\ \/ Unlock(t) /\ UNCHANGED file_vars
       \/ /\ mt[t].j < MapBlocks
          /\ Enter(t, [mt[t] EXCEPT !.j = @ + 1])
          /\ UNCHANGED <<knowndevs_lock, file_vars>>
       \/ /\ mt[t].j = MapBlocks
          /\ kd_fs' = [kd_fs EXCEPT ![mt[t].d] = TRUE]
          /\ unsaved' = [unsaved EXCEPT ![mt[t].d] = {}]
          /\ miswritten' = [miswritten EXCEPT ![mt[t].d] = {}]
          /\ dirty' = [dirty EXCEPT ![mt[t].d] = FALSE]
          /\ Unlock(t) /\ UNCHANGED vnodes
    /\ UNCHANGED <<lost, raced, vol_panic>>

\* vfs_unmount: not mounted, or sync first.
vfs_unmount(t) ==
    /\ Where(t, "unmount")
    /\ IF ~kd_fs[mt[t].d] THEN Unlock(t)
       ELSE Enter(t, [mt[t] EXCEPT !.pc = "sync"]) /\ UNCHANGED knowndevs_lock
    /\ UNCHANGED <<file_vars, lost, raced, vol_panic>>

\* Mutant of vfs_getroot: the volume is found, and used after the lock is
\* released.
vfs_getroot_late(t) ==
    /\ Where(t, "getroot") \/ Where(t, "late")
    /\ IF mt[t].pc = "getroot"
       THEN /\ knowndevs_lock' = NULL
            /\ Enter(t, IF ~kd_fs[mt[t].d] THEN Out ELSE [mt[t] EXCEPT !.pc = "late"])
            /\ UNCHANGED <<file_vars, vol_panic>>
       ELSE /\ vnodes[mt[t].d] < MaxVnodes
            /\ vnodes' = [vnodes EXCEPT ![mt[t].d] = @ + 1]
            /\ Enter(t, Out)
            /\ UNCHANGED <<knowndevs_lock, kd_fs, unsaved, miswritten, dirty, vol_panic>>
    /\ UNCHANGED <<lost, raced>>

\* vfs_getroot of a volume: sfs_getroot loads the root vnode, or panics.
vfs_getroot(t) ==
    /\ Where(t, "getroot")
    /\ \/ Unlock(t) /\ UNCHANGED <<file_vars, vol_panic>>
       \/ /\ kd_fs[mt[t].d] /\ vnodes[mt[t].d] < MaxVnodes
          /\ vnodes' = [vnodes EXCEPT ![mt[t].d] = @ + 1]
          /\ Unlock(t) /\ UNCHANGED <<kd_fs, unsaved, miswritten, dirty, vol_panic>>
       \/ /\ kd_fs[mt[t].d]
          /\ Panic("getroot")
          /\ UNCHANGED <<knowndevs_lock, file_vars, mt>>
    /\ UNCHANGED <<lost, raced>>

----------------------------------------------------------------------------
(* sfs_sync, and what its callers do with the result. *)

\* It reads the number of vnodes once, then syncs each (and sleeps in it).
sync_begin(t) ==
    /\ Where(t, "sync")
    /\ Enter(t, [mt[t] EXCEPT !.pc = "fsync", !.j = 0, !.num = vnodes[mt[t].d]])
    /\ UNCHANGED <<knowndevs_lock, file_vars, lost, raced, vol_panic>>

sync_vnodes(t) ==
    /\ Where(t, "fsync")
    /\ \/ /\ mt[t].j < mt[t].num /\ mt[t].j < vnodes[mt[t].d]
          /\ Enter(t, [mt[t] EXCEPT !.j = @ + 1]) /\ UNCHANGED vol_panic
       \/ /\ mt[t].j < mt[t].num /\ mt[t].j >= vnodes[mt[t].d]
          /\ Panic("array_getguy") /\ UNCHANGED mt
       \/ /\ mt[t].j = mt[t].num
          /\ Enter(t, [mt[t] EXCEPT !.pc = IF dirty[mt[t].d] THEN "mapwrite" ELSE "synced", !.j = 1])
          /\ UNCHANGED vol_panic
    /\ UNCHANGED <<knowndevs_lock, file_vars, lost, raced>>

\* sfs_mapio writing block j: it is on disk, or lost and taken for written, or the
\* error is reported.
sync_map(t) ==
    /\ Where(t, "mapwrite")
    /\ LET d == mt[t].d  j == mt[t].j IN
       \/ /\ \/ /\ unsaved' = [unsaved EXCEPT ![d] = @ \ {j}]
                /\ miswritten' = [miswritten EXCEPT ![d] = @ \ {j}]
             \/ /\ miswritten' = [miswritten EXCEPT ![d] = @ \cup {j}]
                /\ UNCHANGED unsaved
          /\ Enter(t, [mt[t] EXCEPT !.j = @ + 1, !.pc = IF j = MapBlocks THEN "clean" ELSE "mapwrite"])
       \/ Enter(t, [mt[t] EXCEPT !.pc = "failed"]) /\ UNCHANGED <<unsaved, miswritten>>
    /\ UNCHANGED <<knowndevs_lock, kd_fs, dirty, vnodes, lost, raced, vol_panic>>

\* sfs_freemapdirty = 0, after the last block.
sync_clean(t) ==
    /\ Where(t, "clean")
    /\ dirty' = [dirty EXCEPT ![mt[t].d] = FALSE]
    /\ Enter(t, [mt[t] EXCEPT !.pc = "synced"])
    /\ UNCHANGED <<knowndevs_lock, kd_fs, unsaved, miswritten, vnodes, lost, raced, vol_panic>>

\* A failed sync: vfs_sync ignores it, vfs_unmount gives up, vfs_unmountall
\* tries once more.
sync_failed(t) ==
    /\ Where(t, "failed")
    /\ \/ /\ mt[t].op = "sync" \/ (mt[t].op = "unmountall" /\ mt[t].again)
          /\ Enter(t, [mt[t] EXCEPT !.pc = "next"]) /\ UNCHANGED knowndevs_lock
       \/ /\ mt[t].op = "unmountall" /\ ~mt[t].again
          /\ Enter(t, [mt[t] EXCEPT !.pc = "sync", !.again = TRUE]) /\ UNCHANGED knowndevs_lock
       \/ mt[t].op = "unmount" /\ Unlock(t)
    /\ UNCHANGED <<file_vars, lost, raced, vol_panic>>

\* Where the caller goes on after device d: back to its loop, or out.
Onward(t) == IF mt[t].op = "unmount" THEN Unlock(t)
             ELSE Enter(t, [mt[t] EXCEPT !.pc = "next"]) /\ UNCHANGED knowndevs_lock

\* A sync that succeeded; for the unmounting callers sfs_unmount follows: busy,
\* or its asserts, or the volume is dropped from the table.
sfs_unmount(t) ==
    /\ Where(t, "synced")
    /\ LET d == mt[t].d IN
       \/ /\ mt[t].op = "sync" \/ vnodes[d] > 0
          /\ Onward(t) /\ UNCHANGED <<kd_fs, lost, vol_panic>>
       \/ /\ mt[t].op # "sync" /\ vnodes[d] = 0 /\ dirty[d]
          /\ Panic("unmount") /\ UNCHANGED <<knowndevs_lock, mt, kd_fs, lost>>
       \/ /\ mt[t].op # "sync" /\ vnodes[d] = 0 /\ ~dirty[d]
          /\ kd_fs' = [kd_fs EXCEPT ![d] = FALSE]
          /\ lost' = IF unsaved[d] \subseteq miswritten[d] THEN lost ELSE lost \cup {d}
          /\ Onward(t) /\ UNCHANGED vol_panic
    /\ UNCHANGED <<unsaved, miswritten, dirty, vnodes, raced>>

----------------------------------------------------------------------------
(* Files in use, whose threads hold none of these locks. *)

Changed(d) ==
    /\ \E j \in 1..MapBlocks : unsaved' = [unsaved EXCEPT ![d] = @ \cup {j}]
    /\ dirty' = [dirty EXCEPT ![d] = TRUE]
    /\ raced' = IF \E t \in Thread : mt[t].d = d /\ mt[t].pc \in {"mapwrite", "clean"}
                THEN raced \cup {d} ELSE raced

open_file(d) ==
    /\ vol_panic = "none" /\ vnodes[d] \in 1..(MaxVnodes - 1)
    /\ vnodes' = [vnodes EXCEPT ![d] = @ + 1]
    /\ UNCHANGED <<knowndevs_lock, kd_fs, unsaved, miswritten, dirty, mt, lost, raced, vol_panic>>

\* sfs_balloc or sfs_bfree by an operation on an open file.
sfs_balloc(d) ==
    /\ vol_panic = "none" /\ vnodes[d] > 0
    /\ Changed(d)
    /\ UNCHANGED <<knowndevs_lock, kd_fs, miswritten, vnodes, mt, lost, vol_panic>>

\* sfs_reclaim: the blocks of a file without names are freed, and the vnode.
close_file(d) ==
    /\ vol_panic = "none" /\ vnodes[d] > 0
    /\ vnodes' = [vnodes EXCEPT ![d] = @ - 1]
    /\ Changed(d) \/ UNCHANGED <<unsaved, dirty, raced>>
    /\ UNCHANGED <<knowndevs_lock, kd_fs, miswritten, mt, lost, vol_panic>>

----------------------------------------------------------------------------

MountsNext ==
    \/ \E t \in Thread :
          \/ \E d \in Dev, op \in {"mount", "unmount", "getroot"} : table_call(t, op, d)
          \/ \E op \in {"sync", "unmountall"} : table_call(t, op, 0)
          \/ vfs_next(t) \/ vfs_mount(t) \/ sfs_domount(t) \/ vfs_unmount(t) \/ vfs_getroot(t)
          \/ sync_begin(t) \/ sync_vnodes(t) \/ sync_map(t) \/ sync_clean(t) \/ sync_failed(t)
          \/ sfs_unmount(t)
    \/ \E d \in Dev : open_file(d) \/ sfs_balloc(d) \/ close_file(d)

MountsBehaviour == MountsInit /\ [][MountsNext]_mount_vars

----------------------------------------------------------------------------
(* Properties *)

\* No vnode outlives its volume.
VnodesMounted == \A d \in Dev : vnodes[d] > 0 => kd_fs[d]

\* A free map that counts as clean is on disk, and an unmounted volume's is: all
\* but the blocks whose last write was lost and reported as done, and unless the map
\* was changed while sfs_sync was writing it.
CleanIsSaved ==
    \A d \in Dev \ raced :
        /\ kd_fs[d] /\ ~dirty[d] => unsaved[d] \subseteq miswritten[d]
        /\ d \notin lost

\* A volume is dropped only while nobody has, or can still get, a file on it,
\* and with its free map on disk, also after transfers whose failure was reported in
\* the middle of writing it; what sfs_rwblock reports as written although the disk
\* refused it is missing on disk, and nothing else is.
VolumesOK == subject = "mounts" => VnodesMounted /\ CleanIsSaved

\* sfs_unmount: "We should have just had sfs_sync called."
SyncedBeforeUnmount == vol_panic # "unmount"
=============================================================================
