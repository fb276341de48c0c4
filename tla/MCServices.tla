----------------------------- MODULE MCServices -----------------------------
(* The file systems above the devices, the tables of open files, the kernel *)
(* heap, the kernel's library and user programs, for TLC; subject says      *)
(* which of them a behaviour exercises, and the others stay as they begin.  *)
EXTENDS EmuFs, Mounts, OpenFiles, FileTable, KHeap, Bitmap, UserProg, RingQueue, ThreadSpace

CONSTANTS Subjects, t1, t2, a, b, dir, f, v1, v2, v3, p1, p2, p3

MCBlocksOf == <<3, 2>>

\* A program of two segments, after one at page 0 that does not count; and one whose
\* segment wraps ram_stealmem's sum once two frames are used, with an empty second one.
MCProgram == {<<<<0, 1>>, <<1, 1>>, <<2, 1>>>>, <<<<1, 5>>, <<2, 0>>>>}

fs_vars == <<emu_vars, mount_vars, of_vars, table_vars>>
lib_vars == <<heap_vars, bitmap_vars, vm_vars, ring_vars, space_vars>>

Init ==
    /\ subject \in Subjects
    /\ EmuInit /\ MountsInit /\ OpenFilesInit /\ FileTableInit
    /\ KHeapInit /\ BitmapInit /\ UserProgInit /\ RingInit /\ SpaceInit
    /\ subject # "bitmap" => nbits = 1
    /\ subject # "userprog" => cpu = t1

\* A step of component s, with what is not its own unchanged.
Of(s, Does, others) == subject = s /\ Does /\ UNCHANGED <<others, subject>>

Next ==
    \/ Of("emufs", EmuNext, <<mount_vars, of_vars, table_vars, lib_vars>>)
    \/ Of("mounts", MountsNext, <<emu_vars, of_vars, table_vars, lib_vars>>)
    \/ Of("openfiles", OpenFilesNext, <<emu_vars, mount_vars, table_vars, lib_vars>>)
    \/ Of("filetable", FileTableNext, <<emu_vars, mount_vars, of_vars, lib_vars>>)
    \/ Of("kheap", KHeapNext, <<fs_vars, bitmap_vars, vm_vars, ring_vars, space_vars>>)
    \/ Of("bitmap", BitmapNext, <<fs_vars, heap_vars, vm_vars, ring_vars, space_vars>>)
    \/ Of("userprog", UserProgNext, <<fs_vars, heap_vars, bitmap_vars, ring_vars, space_vars>>)
    \/ Of("ringqueue", RingNext, <<fs_vars, heap_vars, bitmap_vars, vm_vars, space_vars>>)
    \/ Of("threadspace", SpaceNext, <<fs_vars, heap_vars, bitmap_vars, vm_vars, ring_vars>>)

Spec == Init /\ [][Next]_<<fs_vars, lib_vars, subject>>
=============================================================================
