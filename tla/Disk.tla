-------------------------------- MODULE Disk --------------------------------
(***************************************************************************)
(* kern/dev/lamebus/lhd.c, the disk driver with its completion interrupt,  *)
(* and the retrying block transfers of kern/fs/sfs/sfs_io.c above it.      *)
(* Threads reach lhd_io through SFS (one aligned sector, kernel memory)    *)
(* or as a raw device (device.c; any offset and length, user memory, on    *)
(* which uiomove may fault).  The card has one buffer and one set of       *)
(* registers, shared by all requests under the semaphore lh_clear.         *)
(***************************************************************************)
EXTENDS Kernel, Integers, Sequences, FiniteSets

CONSTANTS Data,       \* what a sector can hold
          NSect,      \* d_blocks
          SectSize,   \* LHD_SECTSIZE
          MaxTries,   \* the retries of sfs_rwblock (10)
          RawRequest  \* bound: the <<offset, length>> of raw requests

ASSUME DiskSizes == /\ NSect \in Nat \ {0} /\ SectSize \in Nat \ {0}
                    /\ MaxTries \in Nat /\ RawRequest \subseteq Nat \X Nat
ASSUME DataAssumption == NULL \notin Data
ASSUME NullIsNoTransfer ==
    /\ NULL \notin [st : {"asked"}, rw : {"read", "write"}, sector : 0..(NSect - 1),
                    data : Data \cup {NULL}]
    /\ NULL \notin [st : {"served", "taken"}, rw : {"read", "write"},
                    res : {"ok", "EIO", "EINVAL", "EFAULT"}, data : Data \cup {NULL}]

VARIABLES medium,     \* what the disk holds
          lh_stat,    \* the status register
          lh_sect,    \* the sector register
          lh_buf,     \* the on-card buffer
          lh_clear, lh_done, lh_result,
          io,         \* per thread: its place in lhd_io, its uio and locals
          stored,     \* threads whose present transfer reached the disk
          disk_panic  \* sfs_rwblock panicked

lhd_vars == <<lh_stat, lh_sect, lh_buf, lh_clear, lh_done, lh_result>>
disk_vars == <<medium, lhd_vars, io, stored, disk_panic>>

Sector == 0..(NSect - 1)
Idle == [pc |-> "idle", kind |-> "sfs", rw |-> "read", off |-> 0, resid |-> 0,
         data |-> <<>>, sector |-> 0, len |-> 0, i |-> 0, tries |-> 0, result |-> "ok"]

Card(working, write) == [state |-> working, write |-> write]

\* config_lhd
DiskInit ==
    /\ medium \in [Sector -> Data]
    /\ lh_stat = Card("IDLE", FALSE) /\ lh_sect = 0 /\ lh_buf = NULL
    /\ lh_clear = 1 /\ lh_done = 0 /\ lh_result = "ok"
    /\ io = [t \in Thread |-> Idle]
    /\ stored = {} /\ disk_panic = FALSE

----------------------------------------------------------------------------
(* The calls. *)

Call(t, kind, rw, off, resid, data) ==
    /\ io[t].pc = "idle" /\ ~disk_panic
    /\ io' = [io EXCEPT ![t] = [Idle EXCEPT !.pc = "io", !.kind = kind, !.rw = rw,
                                            !.off = off, !.resid = resid, !.data = data]]
    /\ UNCHANGED <<medium, lhd_vars, stored, disk_panic>>

sfs_rblock(t, block) == Call(t, "sfs", "read", block * SectSize, SectSize, <<>>)

sfs_wblock(t, block, d) == Call(t, "sfs", "write", block * SectSize, SectSize, <<d>>)

dev_read(t, off, resid) == Call(t, "raw", "read", off, resid, <<>>)

dev_write(t, off, resid, data) ==
    /\ Len(data) = resid \div SectSize
    /\ Call(t, "raw", "write", off, resid, data)

Set(t, r) == io' = [io EXCEPT ![t] = r]

Return(t, r) == Set(t, [io[t] EXCEPT !.pc = "ret", !.result = r])

\* uiomove of one sector: d is appended to, or the head taken from, the data.
Moved(u, d) == [u EXCEPT !.off = @ + SectSize, !.resid = @ - SectSize,
                         !.data = IF u.rw = "write" THEN Tail(@) ELSE Append(@, d)]

Faults(u) == u.kind = "raw"

----------------------------------------------------------------------------
(* lhd_io *)

\* Mutant of lhd_io: the sector after the last one passes the test.
lhd_io_long(t) ==
    /\ io[t].pc = "io"
    /\ LET u == io[t]  sector == u.off \div SectSize  len == u.resid \div SectSize IN
       IF u.off % SectSize # 0 \/ u.resid % SectSize # 0 \/ sector + len > NSect + 1
       THEN Return(t, "EINVAL")
       ELSE IF len = 0 THEN Return(t, "ok")
       ELSE Set(t, [u EXCEPT !.pc = "clear", !.sector = sector, !.len = len, !.i = 0])
    /\ UNCHANGED <<medium, lhd_vars, stored, disk_panic>>

lhd_io(t) ==
    /\ io[t].pc = "io"
    /\ LET u == io[t]  sector == u.off \div SectSize  len == u.resid \div SectSize IN
       IF u.off % SectSize # 0 \/ u.resid % SectSize # 0 \/ sector + len > NSect
       THEN Return(t, "EINVAL")
       ELSE IF len = 0 THEN Return(t, "ok")
       ELSE Set(t, [u EXCEPT !.pc = "clear", !.sector = sector, !.len = len, !.i = 0])
    /\ UNCHANGED <<medium, lhd_vars, stored, disk_panic>>

\* P(lh_clear)
io_clear(t) ==
    /\ io[t].pc = "clear" /\ lh_clear > 0
    /\ lh_clear' = lh_clear - 1
    /\ Set(t, [io[t] EXCEPT !.pc = IF io[t].rw = "write" THEN "fill" ELSE "start"])
    /\ UNCHANGED <<medium, lh_stat, lh_sect, lh_buf, lh_done, lh_result, stored, disk_panic>>

\* Mutant of io_fill: a fault on the user's buffer leaves the device taken.
io_fill_keep(t) ==
    /\ io[t].pc = "fill"
    /\ \/ /\ lh_buf' = Head(io[t].data)
          /\ Set(t, [Moved(io[t], NULL) EXCEPT !.pc = "start"])
       \/ /\ Faults(io[t])
          /\ Return(t, "EFAULT")
          /\ UNCHANGED lh_buf
    /\ UNCHANGED <<medium, lh_stat, lh_sect, lh_clear, lh_done, lh_result, stored, disk_panic>>

\* A write moves its data to the card first; a fault gives the device back.
io_fill(t) ==
    /\ io[t].pc = "fill"
    /\ \/ /\ lh_buf' = Head(io[t].data)
          /\ Set(t, [Moved(io[t], NULL) EXCEPT !.pc = "start"])
          /\ UNCHANGED lh_clear
       \/ /\ Faults(io[t])
          /\ lh_clear' = lh_clear + 1
          /\ Return(t, "EFAULT")
          /\ UNCHANGED lh_buf
    /\ UNCHANGED <<medium, lh_stat, lh_sect, lh_done, lh_result, stored, disk_panic>>

\* The two register writes that start the operation.
io_start(t) ==
    /\ io[t].pc = "start"
    /\ lh_sect' = io[t].sector + io[t].i
    /\ lh_stat' = Card("WORKING", io[t].rw = "write")
    /\ Set(t, [io[t] EXCEPT !.pc = "done"])
    /\ UNCHANGED <<medium, lh_buf, lh_clear, lh_done, lh_result, stored, disk_panic>>

\* P(lh_done)
io_done(t) ==
    /\ io[t].pc = "done" /\ lh_done > 0
    /\ lh_done' = lh_done - 1
    /\ Set(t, [io[t] EXCEPT !.pc = "finish"])
    /\ UNCHANGED <<medium, lh_stat, lh_sect, lh_buf, lh_clear, lh_result, stored, disk_panic>>

\* The saved result, and a read's data out of the card.
io_finish(t) ==
    /\ io[t].pc = "finish"
    /\ LET u == [io[t] EXCEPT !.pc = "release", !.result = lh_result] IN
       IF lh_result = "ok" /\ u.rw = "read"
       THEN \/ Set(t, Moved(u, lh_buf))
            \/ Faults(u) /\ Set(t, [u EXCEPT !.result = "EFAULT"])
       ELSE Set(t, u)
    /\ UNCHANGED <<medium, lhd_vars, stored, disk_panic>>

\* V(lh_clear), and the next sector.
io_release(t) ==
    /\ io[t].pc = "release"
    /\ lh_clear' = lh_clear + 1
    /\ IF io[t].result # "ok" THEN Return(t, io[t].result)
       ELSE IF io[t].i + 1 < io[t].len THEN Set(t, [io[t] EXCEPT !.pc = "clear", !.i = @ + 1])
       ELSE Return(t, "ok")
    /\ UNCHANGED <<medium, lh_stat, lh_sect, lh_buf, lh_done, lh_result, stored, disk_panic>>

\* The answer of d_io: SFS panics, retries or accepts it; a raw caller gets it.
sfs_rwblock(t) ==
    /\ io[t].pc = "ret"
    /\ LET retry == io[t].kind = "sfs" /\ io[t].result = "EIO" /\ io[t].tries < MaxTries IN
       Set(t, IF retry THEN [io[t] EXCEPT !.pc = "io", !.tries = @ + 1]
                       ELSE Idle)
    /\ disk_panic' = (disk_panic \/ (io[t].kind = "sfs" /\ io[t].result = "EINVAL"))
    /\ stored' = stored \ {t}
    /\ UNCHANGED <<medium, lhd_vars>>

----------------------------------------------------------------------------
(* The card, and its interrupt. *)

\* The operation ends: the sector is transferred, or there is a media error.
hardware ==
    /\ lh_stat.state = "WORKING"
    /\ LET ends(code) == lh_stat' = Card(code, lh_stat.write) IN
       \/ /\ lh_sect \in Sector /\ lh_stat.write
          /\ medium' = [medium EXCEPT ![lh_sect] = lh_buf]
          /\ stored' = stored \cup {t \in Thread : io[t].pc = "done"}
          /\ ends("OK") /\ UNCHANGED lh_buf
       \/ /\ lh_sect \in Sector /\ ~lh_stat.write
          /\ lh_buf' = medium[lh_sect]
          /\ ends("OK") /\ UNCHANGED <<medium, stored>>
       \/ /\ ends(IF lh_sect \in Sector THEN "MEDIA" ELSE "INVSECT")
          /\ UNCHANGED <<medium, lh_buf, stored>>
    /\ UNCHANGED <<lh_sect, lh_clear, lh_done, lh_result, io, disk_panic>>

lhd_code_to_errno(code) ==
    CASE code = "OK" -> "ok" [] code = "INVSECT" -> "EINVAL" [] code = "MEDIA" -> "EIO"

\* Mutant of lhd_irq: the completion is signalled before the result is saved,
\* so the result a thread reads is that of an earlier transfer.
lhd_irq_stale ==
    /\ lh_stat.state \in {"OK", "INVSECT", "MEDIA"}
    /\ lh_stat' = Card("IDLE", FALSE)
    /\ lh_done' = lh_done + 1
    /\ UNCHANGED <<medium, lh_sect, lh_buf, lh_clear, lh_result, io, stored, disk_panic>>

\* lhd_irq and lhd_iodone; an interrupt with nothing finished does nothing.
lhd_irq ==
    /\ lh_stat.state \in {"OK", "INVSECT", "MEDIA"}
    /\ lh_stat' = Card("IDLE", FALSE)
    /\ lh_result' = lhd_code_to_errno(lh_stat.state)
    /\ lh_done' = lh_done + 1
    /\ UNCHANGED <<medium, lh_sect, lh_buf, lh_clear, io, stored, disk_panic>>

----------------------------------------------------------------------------

DiskStep(t) ==
    \/ lhd_io(t) \/ io_clear(t) \/ io_fill(t) \/ io_start(t) \/ io_done(t)
    \/ io_finish(t) \/ io_release(t) \/ sfs_rwblock(t)

\* Bound: the sectors of one raw write hold the same data.
RawData(n) == {[i \in 1..n |-> d] : d \in Data}

DiskCall(t) ==
    \/ \E b \in Sector : sfs_rblock(t, b) \/ \E d \in Data : sfs_wblock(t, b, d)
    \/ \E r \in RawRequest :
          \/ dev_read(t, r[1], r[2])
          \/ \E d \in RawData(r[2] \div SectSize) : dev_write(t, r[1], r[2], d)

DiskNext == \/ \E t \in Thread : DiskCall(t) \/ DiskStep(t)
            \/ hardware \/ lhd_irq

DiskBehaviour == DiskInit /\ [][DiskNext]_disk_vars

----------------------------------------------------------------------------
(* Properties *)

\* The threads between P(lh_clear) and V(lh_clear).
InDevice == {t \in Thread : io[t].pc \in {"fill", "start", "done", "finish", "release"}}

DiskTypeOK ==
    /\ medium \in [Sector -> Data]
    /\ lh_stat.state \in {"IDLE", "WORKING", "OK", "INVSECT", "MEDIA"}
    /\ lh_buf \in Data \cup {NULL}
    /\ lh_clear \in {0, 1} /\ lh_done \in {0, 1}
    /\ lh_result \in {"ok", "EIO", "EINVAL"}
    /\ \A t \in Thread : /\ io[t].off \in Nat /\ io[t].resid \in Nat
                         /\ io[t].tries \in 0..MaxTries

\* lh_clear keeps everyone but one thread out of the card's registers and
\* buffer; the card is at work, finished or has signalled only for the thread
\* that waits for it; the card never sees a sector that does not exist and SFS
\* never panics, raw requests past the end and retries after errors included.
DiskInv ==
    subject = "disk" =>
      /\ DiskTypeOK
      /\ Cardinality(InDevice) + lh_clear = 1
      /\ (IF lh_stat.state # "IDLE" THEN 1 ELSE 0) + lh_done
           = Cardinality({t \in Thread : io[t].pc = "done"})
      /\ lh_stat.state # "INVSECT"
      /\ ~disk_panic

\* The transfer that thread t is in, as its callers see it.
AbstractOp(t) ==
    LET u == io[t]
        asked == [st |-> "asked", rw |-> u.rw, sector |-> u.sector + u.i,
                  data |-> IF u.rw = "write" THEN lh_buf ELSE NULL]
        answer(st, res, d) == [st |-> st, rw |-> u.rw, res |-> res,
                               data |-> IF u.rw = "read" /\ res = "ok" THEN d ELSE NULL]
    IN CASE u.pc = "start" -> asked
         [] u.pc = "done" /\ lh_stat.state = "WORKING" -> asked
         [] u.pc = "done" /\ lh_stat.state \notin {"WORKING", "IDLE"} ->
               answer("served", lhd_code_to_errno(lh_stat.state), lh_buf)
         [] u.pc = "finish" \/ (u.pc = "done" /\ lh_stat.state = "IDLE") ->
               answer("served", lh_result, lh_buf)
         [] u.pc = "release" ->
               answer("taken", u.result, IF u.data = <<>> THEN NULL ELSE u.data[Len(u.data)])
         [] OTHER -> NULL

AtomicDisk == INSTANCE DiskSpec WITH op <- [t \in Thread |-> AbstractOp(t)]

\* However requests and interrupts interleave, each sector is transferred at
\* one moment and the thread that asked gets that transfer's result and data.
DiskAtomic == AtomicDisk!Spec

\* The device is given back after every request, whichever way it ended: its
\* buffer faulted, the card reported an error, or it succeeded.
DiskFreed == (subject = "disk" /\ lh_clear = 0) ~> (lh_clear = 1)

\* What sfs_rwblock's retries are for: a block write that returns 0 put its data on
\* the disk.  man/syscall/write.html: EIO is "A hardware I/O error occurred writing
\* the data."  A retry with the uio that the first try consumed writes nothing.
WrittenIsStored ==
    [][\A t \in Thread :
         /\ io[t].pc = "ret" /\ io'[t].pc = "idle"
         /\ io[t].kind = "sfs" /\ io[t].rw = "write" /\ io[t].result = "ok"
         => t \in stored]_disk_vars
=============================================================================
