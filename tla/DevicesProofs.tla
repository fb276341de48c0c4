---------------------------- MODULE DevicesProofs ----------------------------
(***************************************************************************)
(* Machine-checked proofs about the device drivers.  Disk: its invariant,  *)
(* and that the driver with its card and interrupts implements DiskSpec,   *)
(* for any number of threads, sectors and retries, any sector size and any *)
(* raw requests.  Console: what reaches the screen is what was asked for,  *)
(* and keys are read in order, for any number of threads and calls.        *)
(***************************************************************************)
EXTENDS Disk, Console, ListLemmas, TLAPS

----------------------------------------------------------------------------
(* The disk: the inductive invariant *)

InLoop == {"clear", "fill", "start", "done", "finish", "release"}
Holding == {"fill", "start", "done", "finish", "release"}

Io == [pc : {"idle", "io", "ret"} \cup InLoop, kind : {"sfs", "raw"},
       rw : {"read", "write"}, off : Nat, resid : Nat, data : Seq(Data),
       sector : Nat, len : Nat, i : Nat, tries : 0..MaxTries,
       result : {"ok", "EIO", "EINVAL", "EFAULT"}]

DiskTypes ==
    /\ medium \in [Sector -> Data]
    /\ lh_stat \in [state : {"IDLE", "WORKING", "OK", "INVSECT", "MEDIA"}, write : BOOLEAN]
    /\ lh_buf \in Data \cup {NULL}
    /\ lh_clear \in {0, 1} /\ lh_done \in {0, 1}
    /\ lh_result \in {"ok", "EIO"}
    /\ io \in [Thread -> Io]
    /\ disk_panic = FALSE

\* The uio of u has been consumed up to sector i, or with it.
Moved1(u) == \/ u.rw = "write" /\ u.pc \in {"start", "done", "finish", "release"}
             \/ u.rw = "read" /\ u.pc = "release" /\ u.result = "ok"

\* The locals of lhd_io and its uio agree: what is left to move is what the loop
\* has left to do.
UioOK(u) ==
    /\ u.pc = "fill" => u.rw = "write"
    /\ u.pc \in InLoop => u.i < u.len /\ u.sector + u.len <= NSect
    /\ u.pc \in {"clear", "fill", "start", "done", "finish"} \/ Moved1(u) =>
         LET left == IF Moved1(u) THEN u.len - (u.i + 1) ELSE u.len - u.i
         IN u.resid = left * SectSize /\ (u.rw = "write" => Len(u.data) = left)
    /\ u.pc = "io" /\ u.rw = "write" => Len(u.data) = u.resid \div SectSize

\* A block transfer of SFS is one aligned sector of the disk, or what is left of
\* one after a write has moved its data.
SfsOK(u) ==
    u.kind = "sfs" =>
      /\ u.result # "EINVAL"
      /\ u.pc # "idle" =>
           \E b \in 0..NSect : /\ u.off = b * SectSize
                               /\ u.resid = 0 \/ (u.resid = SectSize /\ b < NSect)
      /\ u.pc # "idle" /\ u.rw = "write" => Len(u.data) = IF u.resid = 0 THEN 0 ELSE 1
      /\ u.pc \in InLoop => u.len = 1 /\ u.i = 0

Frames == \A t \in Thread : UioOK(io[t]) /\ SfsOK(io[t])

\* One thread holds the card: the semaphore is 0 exactly while one does.
DeviceExclusive ==
    /\ \A t, u \in Thread : io[t].pc \in Holding /\ io[u].pc \in Holding => t = u
    /\ \A t \in Thread : io[t].pc \in Holding => lh_clear = 0
    /\ lh_clear = 0 => \E t \in Thread : io[t].pc \in Holding

\* The card works, has finished or has signalled for the thread that waits, on the
\* sector and the buffer of that thread.
CardOK ==
    /\ lh_stat.state # "INVSECT"
    /\ lh_stat.state # "IDLE" \/ lh_done = 1 => \E t \in Thread : io[t].pc = "done"
    /\ \A t \in Thread :
         /\ io[t].pc = "done" => (lh_stat.state # "IDLE" <=> lh_done = 0)
         /\ io[t].pc = "done" /\ lh_stat.state # "IDLE" =>
              /\ lh_sect = io[t].sector + io[t].i
              /\ lh_stat.write <=> io[t].rw = "write"
         /\ io[t].rw = "write" /\ io[t].pc \in {"start", "done"} => lh_buf \in Data
         /\ io[t].rw = "read" /\ io[t].pc = "done" /\ lh_stat.state = "OK" => lh_buf \in Data
         /\ io[t].rw = "read" /\ lh_result = "ok"
            /\ (io[t].pc = "finish" \/ (io[t].pc = "done" /\ lh_done = 1)) => lh_buf \in Data

DiskSafe == DiskTypes /\ Frames /\ DeviceExclusive /\ CardOK

----------------------------------------------------------------------------
(* Arithmetic of sectors *)

\* A whole number of sectors is the quotient times the sector size.
LEMMA DivMod ==
    ASSUME NEW n \in Nat, NEW d \in Nat \ {0}
    PROVE  /\ n \div d \in Nat
           /\ n % d = 0 => n = (n \div d) * d
  OBVIOUS

\* An offset that lhd_io computes from a sector number gives the number back.
LEMMA MultipleDiv ==
    ASSUME NEW b \in Nat, NEW d \in Nat \ {0}
    PROVE  (b * d) \div d = b /\ (b * d) % d = 0 /\ b * d \in Nat
  OBVIOUS

\* One sector, and none.
LEMMA UnitDiv ==
    ASSUME NEW d \in Nat \ {0}
    PROVE  d \div d = 1 /\ d % d = 0 /\ 0 \div d = 0 /\ 0 % d = 0
  OBVIOUS

\* What is left of the uio after one sector more.
LEMMA OneLess ==
    ASSUME NEW n \in Nat, NEW i \in Nat, NEW d \in Nat, i < n
    PROVE  /\ (n - i) * d - d = (n - (i + 1)) * d
           /\ (n - (i + 1)) * d \in Nat
  OBVIOUS

----------------------------------------------------------------------------
(* The calls of the threads *)

\* A step that replaces the record of one thread.
LEMMA SetFrame ==
    ASSUME io \in [Thread -> Io], Frames, NEW t \in Thread, NEW r \in Io, Set(t, r),
           UioOK(r), SfsOK(r)
    PROVE  /\ io' \in [Thread -> Io] /\ Frames'
           /\ io'[t] = r /\ \A u \in Thread \ {t} : io'[u] = io[u]
<1>1. io' = [io EXCEPT ![t] = r]
  BY DEF Set
<1>2. io' \in [Thread -> Io] /\ io'[t] = r /\ \A u \in Thread \ {t} : io'[u] = io[u]
  BY <1>1
<1>3. Frames'
  BY <1>2 DEF Frames
<1> QED BY <1>2, <1>3

\* The idle record is one of them.
LEMMA IdleFrame == Idle \in Io /\ UioOK(Idle) /\ SfsOK(Idle)
  BY DiskSizes DEF Idle, Io, InLoop, UioOK, SfsOK, Moved1

\* A call that sets up a uio which agrees with what is left to move.
LEMMA CallFrame ==
    ASSUME DiskTypes, Frames, NEW t \in Thread, NEW kind \in {"sfs", "raw"},
           NEW rw \in {"read", "write"}, NEW off \in Nat, NEW resid \in Nat,
           NEW data \in Seq(Data), Call(t, kind, rw, off, resid, data),
           rw = "write" => Len(data) = resid \div SectSize,
           kind = "sfs" => resid = SectSize /\ \E b \in Sector : off = b * SectSize
    PROVE  io' \in [Thread -> Io] /\ Frames'
           /\ io'[t].pc = "io" /\ \A u \in Thread \ {t} : io'[u] = io[u]
<1> DEFINE r == [Idle EXCEPT !.pc = "io", !.kind = kind, !.rw = rw,
                             !.off = off, !.resid = resid, !.data = data]
<1>1. r \in Io
  BY IdleFrame DEF Idle, Io, InLoop
<1>2. /\ r.pc = "io" /\ r.kind = kind /\ r.rw = rw /\ r.off = off /\ r.resid = resid
      /\ r.data = data /\ r.result = "ok"
  BY DEF Idle
<1>3. Set(t, r)
  BY DEF Call, Set
<1> HIDE DEF r
<1>4. UioOK(r)
  BY <1>2 DEF UioOK, Moved1, InLoop
<1>5. SfsOK(r)
  <2> SUFFICES ASSUME kind = "sfs" PROVE SfsOK(r)
    BY <1>2 DEF SfsOK
  <2>1. PICK b \in Sector : off = b * SectSize
    OBVIOUS
  <2>2. b \in 0..NSect /\ b < NSect
    BY DiskSizes DEF Sector
  <2>3. rw = "write" => Len(data) = 1
    BY UnitDiv, DiskSizes
  <2> QED BY <1>2, <2>1, <2>2, <2>3, DiskSizes DEF SfsOK, InLoop
<1> QED BY <1>1, <1>2, <1>3, <1>4, <1>5, SetFrame DEF DiskTypes

\* lhd_io checks its request and returns, or enters its loop.
LEMMA LhdIoFrame ==
    ASSUME DiskTypes, Frames, NEW t \in Thread, lhd_io(t)
    PROVE  io' \in [Thread -> Io] /\ Frames'
           /\ io'[t].pc \in {"ret", "clear"} /\ \A u \in Thread \ {t} : io'[u] = io[u]
<1> DEFINE u == io[t]
           sector == u.off \div SectSize
           len == u.resid \div SectSize
           e == [u EXCEPT !.pc = "ret", !.result = "EINVAL"]
           o == [u EXCEPT !.pc = "ret", !.result = "ok"]
           r == [u EXCEPT !.pc = "clear", !.sector = sector, !.len = len, !.i = 0]
<1>1. u \in Io /\ u.pc = "io" /\ UioOK(u) /\ SfsOK(u)
  BY DEF DiskTypes, Frames, lhd_io
<1>2. u.off \in Nat /\ u.resid \in Nat /\ sector \in Nat /\ len \in Nat
      /\ (u.resid % SectSize = 0 => u.resid = len * SectSize)
  BY <1>1, DivMod, DiskSizes DEF Io
<1>3. CASE u.off % SectSize # 0 \/ u.resid % SectSize # 0 \/ sector + len > NSect
  <2>1. Set(t, e)
    BY <1>3 DEF lhd_io, Return
  <2>2. e \in Io /\ e.pc = "ret" /\ e.kind = u.kind
    BY <1>1 DEF Io, InLoop
  <2>3. u.kind # "sfs"
    <3> SUFFICES ASSUME u.kind = "sfs" PROVE FALSE
      OBVIOUS
    <3>1. PICK b \in 0..NSect : /\ u.off = b * SectSize
                                /\ u.resid = 0 \/ (u.resid = SectSize /\ b < NSect)
      BY <1>1 DEF SfsOK
    <3>2. u.off % SectSize = 0 /\ sector = b
      BY <3>1, MultipleDiv, DiskSizes
    <3>3. u.resid % SectSize = 0 /\ sector + len <= NSect
      BY <3>1, <3>2, UnitDiv, DiskSizes
    <3> QED BY <1>2, <1>3, <3>2, <3>3, DiskSizes
  <2> HIDE DEF e
  <2>4. UioOK(e) /\ SfsOK(e)
    BY <2>2, <2>3 DEF UioOK, SfsOK, Moved1, InLoop
  <2> QED BY <2>1, <2>2, <2>4, SetFrame DEF DiskTypes
<1>4. CASE /\ ~(u.off % SectSize # 0 \/ u.resid % SectSize # 0 \/ sector + len > NSect)
           /\ len = 0
  <2>1. Set(t, o)
    BY <1>4 DEF lhd_io, Return
  <2>2. /\ o \in Io /\ o.pc = "ret" /\ o.kind = u.kind /\ o.result = "ok"
        /\ o.off = u.off /\ o.resid = u.resid /\ o.data = u.data /\ o.rw = u.rw
    BY <1>1 DEF Io, InLoop
  <2> HIDE DEF o
  <2>3. UioOK(o) /\ SfsOK(o)
    BY <1>1, <2>2 DEF UioOK, SfsOK, Moved1, InLoop
  <2> QED BY <2>1, <2>2, <2>3, SetFrame DEF DiskTypes
<1>5. CASE /\ ~(u.off % SectSize # 0 \/ u.resid % SectSize # 0 \/ sector + len > NSect)
           /\ len # 0
  <2>1. Set(t, r)
    BY <1>5 DEF lhd_io
  <2>2. /\ r \in Io /\ r.pc = "clear" /\ r.kind = u.kind /\ r.result = u.result
        /\ r.off = u.off /\ r.resid = u.resid /\ r.data = u.data /\ r.rw = u.rw
        /\ r.i = 0 /\ r.len = len /\ r.sector = sector
    BY <1>1, <1>2 DEF Io, InLoop
  <2>3. /\ u.resid = len * SectSize /\ sector + len <= NSect /\ 0 < len
        /\ u.rw = "write" => Len(u.data) = len
    BY <1>1, <1>2, <1>5, DiskSizes DEF UioOK
  <2>4. u.kind = "sfs" => len = 1
    BY <1>1, <1>2, <1>5, UnitDiv, DiskSizes DEF SfsOK
  <2> HIDE DEF r
  <2>5. UioOK(r)
    <3>1. ~Moved1(r)
      BY <2>2 DEF Moved1
    <3>2. r.len - r.i = len
      BY <1>2, <2>2
    <3> QED BY <1>2, <2>2, <2>3, <3>1, <3>2 DEF UioOK
  <2>6. SfsOK(r)
    BY <1>1, <2>2, <2>4 DEF SfsOK
  <2> QED BY <2>1, <2>2, <2>5, <2>6, SetFrame DEF DiskTypes
<1> QED BY <1>3, <1>4, <1>5

\* P(lh_clear).
LEMMA ClearFrame ==
    ASSUME DiskTypes, Frames, NEW t \in Thread, io_clear(t)
    PROVE  io' \in [Thread -> Io] /\ Frames'
           /\ io'[t] = [io[t] EXCEPT !.pc = IF io[t].rw = "write" THEN "fill" ELSE "start"]
           /\ \A u \in Thread \ {t} : io'[u] = io[u]
<1> DEFINE u == io[t]
           r == [u EXCEPT !.pc = IF u.rw = "write" THEN "fill" ELSE "start"]
<1>1. u \in Io /\ u.pc = "clear" /\ UioOK(u) /\ SfsOK(u)
  BY DEF DiskTypes, Frames, io_clear
<1>2. Set(t, r)
  BY DEF io_clear
<1>3. /\ r \in Io /\ r.pc = (IF u.rw = "write" THEN "fill" ELSE "start") /\ r.kind = u.kind
      /\ r.result = u.result /\ r.off = u.off /\ r.resid = u.resid /\ r.data = u.data
      /\ r.rw = u.rw /\ r.i = u.i /\ r.len = u.len /\ r.sector = u.sector
      /\ u.rw \in {"read", "write"}
  BY <1>1 DEF Io, InLoop
<1>4. UioOK(r) /\ SfsOK(r)
  <2> HIDE DEF r, u
  <2>1. ~Moved1(u) /\ ~Moved1(r)
    BY <1>1, <1>3 DEF Moved1
  <2> QED BY <1>1, <1>3, <2>1 DEF UioOK, SfsOK, InLoop
<1> QED BY <1>1, <1>2, <1>3, <1>4, SetFrame DEF DiskTypes

\* uiomove of one sector of a uio that agrees with the loop.
LEMMA MovedFrame ==
    ASSUME NEW u \in Io, UioOK(u), SfsOK(u), NEW d,
           \/ u.pc = "fill"
           \/ u.pc = "finish" /\ u.rw = "read" /\ d \in Data,
           NEW pc \in {"start", "release"}, u.rw = "write" <=> pc = "start",
           NEW result \in {"ok", "EIO", "EINVAL", "EFAULT"},
           u.rw = "read" => result = "ok", u.rw = "write" => result = u.result,
           NEW r, r = [u EXCEPT !.result = result, !.pc = pc,
                                !.off = u.off + SectSize, !.resid = u.resid - SectSize,
                                !.data = IF u.rw = "write" THEN Tail(u.data)
                                         ELSE Append(u.data, d)]
    PROVE  r \in Io /\ UioOK(r) /\ SfsOK(r)
<1> DEFINE data == IF u.rw = "write" THEN Tail(u.data) ELSE Append(u.data, d)
<1>2. /\ u.i \in Nat /\ u.len \in Nat /\ u.i < u.len /\ u.sector + u.len <= NSect
      /\ u.off \in Nat /\ u.resid \in Nat /\ u.data \in Seq(Data)
      /\ u.rw \in {"read", "write"}
  BY DEF UioOK, Io, InLoop
<1>3. ~Moved1(u) /\ u.resid = (u.len - u.i) * SectSize
      /\ (u.rw = "write" => Len(u.data) = u.len - u.i)
  <2>1. ~Moved1(u)
    BY DEF Moved1
  <2> QED BY <2>1 DEF UioOK
<1>4. /\ u.resid - SectSize = (u.len - (u.i + 1)) * SectSize
      /\ u.resid - SectSize \in Nat
  BY <1>2, <1>3, OneLess, DiskSizes
<1>5. data \in Seq(Data) /\ (u.rw = "write" => Len(data) = u.len - (u.i + 1))
  <2>1. CASE u.rw = "write"
    <3>1. Len(u.data) \in Nat \ {0}
      BY <1>2, <1>3, <2>1
    <3>2. Tail(u.data) \in Seq(Data) /\ Len(Tail(u.data)) = Len(u.data) - 1
      BY <1>2, <3>1
    <3> QED BY <1>2, <1>3, <2>1, <3>2
  <2>2. CASE u.rw = "read"
    <3>1. d \in Data
      BY <2>2 DEF UioOK
    <3> QED BY <1>2, <2>2, <3>1
  <2> QED BY <1>2, <2>1, <2>2
<1>6. u.off + SectSize \in Nat
  BY <1>2, DiskSizes
<1>7. r \in Io
  BY <1>4, <1>5, <1>6 DEF Io, InLoop
<1>8. /\ r.pc = pc /\ r.kind = u.kind /\ r.result = result /\ r.off = u.off + SectSize
      /\ r.resid = u.resid - SectSize /\ r.data = data /\ r.rw = u.rw /\ r.i = u.i
      /\ r.len = u.len /\ r.sector = u.sector
  BY <1>2 DEF Io
<1> HIDE DEF data
<1>9. UioOK(r)
  <2>1. Moved1(r)
    BY <1>2, <1>8 DEF Moved1
  <2> QED BY <1>2, <1>4, <1>5, <1>8, <2>1 DEF UioOK, InLoop
<1>10. SfsOK(r)
  <2> SUFFICES ASSUME u.kind = "sfs" PROVE SfsOK(r)
    BY <1>8 DEF SfsOK
  <2>1. result # "EINVAL"
    BY <1>2 DEF SfsOK
  <2>2. u.len = 1 /\ u.i = 0
    BY DEF SfsOK, InLoop
  <2>3. u.resid = SectSize /\ u.resid - SectSize = 0
    BY <1>3, <2>2, DiskSizes
  <2>4. PICK b \in 0..NSect : u.off = b * SectSize /\ b < NSect
    BY <2>3, DiskSizes DEF SfsOK, InLoop
  <2>5. b + 1 \in 0..NSect /\ u.off + SectSize = (b + 1) * SectSize
    BY <2>4, DiskSizes
  <2>6. u.rw = "write" => Len(data) = 0
    BY <1>5, <2>2
  <2> QED BY <1>8, <2>1, <2>2, <2>3, <2>5, <2>6 DEF SfsOK
<1> QED BY <1>7, <1>9, <1>10

\* A write fills the card's buffer, or its uiomove faults.
LEMMA FillFrame ==
    ASSUME DiskTypes, Frames, NEW t \in Thread, io_fill(t)
    PROVE  /\ io' \in [Thread -> Io] /\ Frames' /\ \A u \in Thread \ {t} : io'[u] = io[u]
           /\ io[t].rw = "write"
           /\ \/ /\ io'[t].pc = "start" /\ lh_buf' \in Data /\ lh_clear' = lh_clear
                 /\ io'[t].rw = "write" /\ io'[t].sector = io[t].sector
                 /\ io'[t].i = io[t].i
              \/ /\ io'[t].pc = "ret" /\ lh_buf' = lh_buf /\ lh_clear' = lh_clear + 1
<1> DEFINE u == io[t]
           r == [Moved(u, NULL) EXCEPT !.pc = "start"]
           e == [u EXCEPT !.pc = "ret", !.result = "EFAULT"]
<1>1. u \in Io /\ u.pc = "fill" /\ u.rw = "write" /\ UioOK(u) /\ SfsOK(u)
  BY DEF DiskTypes, Frames, io_fill, UioOK
<1>2. CASE Set(t, r) /\ lh_buf' = Head(u.data) /\ UNCHANGED lh_clear
  <2>1. u.result \in {"ok", "EIO", "EINVAL", "EFAULT"} /\ [u EXCEPT !.result = u.result] = u
    BY <1>1 DEF Io
  <2>2. /\ r \in Io /\ UioOK(r) /\ SfsOK(r)
        /\ r = [u EXCEPT !.result = u.result, !.pc = "start",
                         !.off = u.off + SectSize, !.resid = u.resid - SectSize,
                         !.data = IF u.rw = "write" THEN Tail(u.data)
                                  ELSE Append(u.data, NULL)]
    <3>1. r = [u EXCEPT !.result = u.result, !.pc = "start",
                        !.off = u.off + SectSize, !.resid = u.resid - SectSize,
                        !.data = IF u.rw = "write" THEN Tail(u.data)
                                 ELSE Append(u.data, NULL)]
      BY <1>1 DEF Moved, Io
    <3> HIDE DEF r, u
    <3> QED BY <1>1, <2>1, <3>1, MovedFrame
  <2>3. r.pc = "start" /\ r.rw = "write" /\ r.sector = u.sector /\ r.i = u.i
    BY <1>1, <2>2 DEF Io
  <2>4. Head(u.data) \in Data
    <3>1. ~Moved1(u)
      BY <1>1 DEF Moved1
    <3>2. u.data \in Seq(Data) /\ Len(u.data) = u.len - u.i /\ u.i < u.len
          /\ u.i \in Nat /\ u.len \in Nat
      BY <1>1, <3>1 DEF UioOK, Io, InLoop
    <3>3. u.data # << >>
      BY <3>2
    <3> QED BY <3>2, <3>3
  <2> HIDE DEF r
  <2> QED BY <1>1, <1>2, <2>2, <2>3, <2>4, SetFrame DEF DiskTypes
<1>3. CASE Faults(u) /\ Set(t, e) /\ lh_clear' = lh_clear + 1 /\ UNCHANGED lh_buf
  <2>1. e \in Io /\ e.pc = "ret" /\ e.kind = "raw"
    BY <1>1, <1>3 DEF Io, InLoop, Faults
  <2> HIDE DEF e
  <2>2. UioOK(e) /\ SfsOK(e)
    BY <2>1 DEF UioOK, SfsOK, Moved1, InLoop
  <2> QED BY <1>1, <1>3, <2>1, <2>2, SetFrame DEF DiskTypes
<1> QED BY <1>2, <1>3 DEF io_fill, Return

\* A step that only moves on inside the loop, before or after the transfer.
LEMMA GotoFrame ==
    ASSUME DiskTypes, Frames, NEW t \in Thread, NEW p \in {"done", "finish"},
           io[t].pc = IF p = "done" THEN "start" ELSE "done",
           Set(t, [io[t] EXCEPT !.pc = p])
    PROVE  io' \in [Thread -> Io] /\ Frames' /\ io'[t] = [io[t] EXCEPT !.pc = p]
           /\ \A u \in Thread \ {t} : io'[u] = io[u]
<1> DEFINE u == io[t]
           r == [u EXCEPT !.pc = p]
<1>1. u \in Io /\ u.pc \in {"start", "done"} /\ UioOK(u) /\ SfsOK(u)
  BY DEF DiskTypes, Frames
<1>2. /\ r \in Io /\ r.pc = p /\ r.kind = u.kind /\ r.rw = u.rw
      /\ r.result = u.result /\ r.off = u.off /\ r.resid = u.resid /\ r.data = u.data
      /\ r.i = u.i /\ r.len = u.len /\ r.sector = u.sector /\ u.rw \in {"read", "write"}
  BY <1>1 DEF Io, InLoop
<1>3. UioOK(r) /\ SfsOK(r)
  <2> HIDE DEF r, u
  <2>1. Moved1(u) <=> Moved1(r)
    BY <1>1, <1>2 DEF Moved1
  <2> QED BY <1>1, <1>2, <2>1 DEF UioOK, SfsOK, InLoop
<1> QED BY <1>1, <1>2, <1>3, SetFrame DEF DiskTypes

\* The result, and a read's data.
LEMMA FinishFrame ==
    ASSUME DiskTypes, Frames, CardOK, NEW t \in Thread, io_finish(t)
    PROVE  /\ io' \in [Thread -> Io] /\ Frames' /\ \A u \in Thread \ {t} : io'[u] = io[u]
           /\ io'[t].pc = "release" /\ io'[t].rw = io[t].rw
           /\ \/ /\ io'[t].result = lh_result
                 /\ lh_result = "ok" /\ io[t].rw = "read" =>
                      io'[t].data = Append(io[t].data, lh_buf) /\ io[t].data \in Seq(Data)
                      /\ lh_buf \in Data
              \/ io'[t].result = "EFAULT" /\ lh_result = "ok" /\ io[t].rw = "read"
<1> DEFINE v == io[t]
           u == [v EXCEPT !.pc = "release", !.result = lh_result]
           e == [v EXCEPT !.pc = "release", !.result = "EFAULT"]
<1>1. v \in Io /\ v.pc = "finish" /\ UioOK(v) /\ SfsOK(v) /\ v.rw \in {"read", "write"}
      /\ lh_result \in {"ok", "EIO"}
  BY DEF DiskTypes, Frames, io_finish, Io
<1>2. /\ u \in Io /\ u.pc = "release" /\ u.kind = v.kind /\ u.rw = v.rw
      /\ u.result = lh_result /\ u.off = v.off /\ u.resid = v.resid /\ u.data = v.data
      /\ u.i = v.i /\ u.len = v.len /\ u.sector = v.sector
  BY <1>1 DEF Io, InLoop
<1>3. CASE lh_result = "ok" /\ v.rw = "read"
  <2>1. lh_buf \in Data
    BY <1>1, <1>3 DEF CardOK
  <2>2. CASE Set(t, Moved(u, lh_buf))
    <3> DEFINE r == Moved(u, lh_buf)
    <3>1. r = [v EXCEPT !.result = "ok", !.pc = "release",
                        !.off = v.off + SectSize, !.resid = v.resid - SectSize,
                        !.data = IF v.rw = "write" THEN Tail(v.data)
                                 ELSE Append(v.data, lh_buf)]
      BY <1>1, <1>3 DEF Moved, Io
    <3>2. r \in Io /\ UioOK(r) /\ SfsOK(r)
      <4> HIDE DEF r, v, u
      <4> QED BY <1>1, <1>3, <2>1, <3>1, MovedFrame
    <3>3. r.pc = "release" /\ r.rw = v.rw /\ r.result = "ok" /\ r.data = Append(v.data, lh_buf)
      BY <1>1, <1>3, <3>1 DEF Io
    <3>4. v.data \in Seq(Data)
      BY <1>1 DEF Io
    <3> HIDE DEF r
    <3>5. Set(t, r) /\ io \in [Thread -> Io]
      BY <2>2 DEF DiskTypes, r
    <3>6. io' \in [Thread -> Io] /\ Frames' /\ io'[t] = r
          /\ \A q \in Thread \ {t} : io'[q] = io[q]
      BY <3>2, <3>5, SetFrame
    <3> QED BY <1>3, <2>1, <3>3, <3>4, <3>6
  <2>3. CASE Faults(u) /\ Set(t, [u EXCEPT !.result = "EFAULT"])
    <3>1. [u EXCEPT !.result = "EFAULT"] = e
      BY <1>1 DEF Io
    <3>2. e \in Io /\ e.pc = "release" /\ e.rw = v.rw /\ e.kind = "raw" /\ e.result = "EFAULT"
          /\ e.i = v.i /\ e.len = v.len /\ e.sector = v.sector
      BY <1>1, <1>2, <2>3 DEF Io, InLoop, Faults
    <3> HIDE DEF e
    <3>3. UioOK(e) /\ SfsOK(e)
      BY <1>1, <1>3, <3>2 DEF UioOK, SfsOK, Moved1, InLoop
    <3> QED BY <1>3, <2>3, <3>1, <3>2, <3>3, SetFrame DEF DiskTypes
  <2> QED BY <1>2, <1>3, <2>2, <2>3 DEF io_finish
<1>4. CASE ~(lh_result = "ok" /\ v.rw = "read")
  <2>1. Set(t, u)
    BY <1>2, <1>4 DEF io_finish
  <2> HIDE DEF u, v
  <2>2. Moved1(u) <=> Moved1(v)
    BY <1>1, <1>2, <1>4 DEF Moved1
  <2>3. UioOK(u) /\ SfsOK(u)
    BY <1>1, <1>2, <1>4, <2>2 DEF UioOK, SfsOK, InLoop, Moved1
  <2> QED BY <1>1, <1>2, <1>4, <2>1, <2>3, SetFrame DEF DiskTypes, u, v
<1> QED BY <1>3, <1>4

\* V(lh_clear), and the next sector or the end.
LEMMA ReleaseFrame ==
    ASSUME DiskTypes, Frames, NEW t \in Thread, io_release(t)
    PROVE  io' \in [Thread -> Io] /\ Frames' /\ io'[t].pc \in {"ret", "clear"}
           /\ \A u \in Thread \ {t} : io'[u] = io[u]
<1> DEFINE u == io[t]
           r == [u EXCEPT !.pc = "clear", !.i = u.i + 1]
           e == [u EXCEPT !.pc = "ret", !.result = u.result]
<1>1. u \in Io /\ u.pc = "release" /\ UioOK(u) /\ SfsOK(u)
      /\ u.i \in Nat /\ u.len \in Nat /\ u.sector \in Nat /\ u.rw \in {"read", "write"}
  BY DEF DiskTypes, Frames, io_release, Io
<1>2. CASE u.result = "ok" /\ u.i + 1 < u.len
  <2>1. Set(t, r)
    BY <1>2 DEF io_release
  <2>2. /\ r \in Io /\ r.pc = "clear" /\ r.kind = u.kind /\ r.rw = u.rw
        /\ r.result = u.result /\ r.off = u.off /\ r.resid = u.resid /\ r.data = u.data
        /\ r.i = u.i + 1 /\ r.len = u.len /\ r.sector = u.sector
    <3>1. u.i + 1 \in Nat
      BY <1>1
    <3> QED BY <1>1, <3>1 DEF Io, InLoop
  <2>3. UioOK(r) /\ SfsOK(r)
    <3> HIDE DEF r, u
    <3>1. Moved1(u) /\ ~Moved1(r)
      BY <1>1, <1>2, <2>2 DEF Moved1
    <3>2. UioOK(r)
      BY <1>1, <1>2, <2>2, <3>1 DEF UioOK, InLoop
    <3>3. u.kind # "sfs"
      BY <1>1, <1>2 DEF SfsOK, InLoop
    <3> QED BY <2>2, <3>2, <3>3 DEF SfsOK
  <2> QED BY <2>1, <2>2, <2>3, SetFrame DEF DiskTypes
<1>3. CASE ~(u.result = "ok" /\ u.i + 1 < u.len)
  <2>1. Set(t, e)
    BY <1>3 DEF io_release, Return
  <2>2. /\ e \in Io /\ e.pc = "ret" /\ e.kind = u.kind /\ e.result = u.result
        /\ e.off = u.off /\ e.resid = u.resid /\ e.data = u.data /\ e.rw = u.rw
    BY <1>1 DEF Io, InLoop
  <2> HIDE DEF e
  <2>3. UioOK(e) /\ SfsOK(e)
    BY <1>1, <2>2 DEF UioOK, SfsOK, InLoop, Moved1
  <2> QED BY <2>1, <2>2, <2>3, SetFrame DEF DiskTypes
<1> QED BY <1>2, <1>3

\* sfs_rwblock retries, with the uio as the failed transfer left it, or is done.
LEMMA RwblockFrame ==
    ASSUME DiskTypes, Frames, NEW t \in Thread, sfs_rwblock(t)
    PROVE  io' \in [Thread -> Io] /\ Frames' /\ io'[t].pc \in {"idle", "io"}
           /\ disk_panic' = FALSE /\ \A u \in Thread \ {t} : io'[u] = io[u]
<1> DEFINE u == io[t]
           r == [u EXCEPT !.pc = "io", !.tries = u.tries + 1]
           retry == u.kind = "sfs" /\ u.result = "EIO" /\ u.tries < MaxTries
<1>1. u \in Io /\ u.pc = "ret" /\ UioOK(u) /\ SfsOK(u)
  BY DEF DiskTypes, Frames, sfs_rwblock
<1>2. disk_panic' = FALSE
  BY <1>1 DEF sfs_rwblock, DiskTypes, SfsOK
<1>3. CASE retry
  <2>1. Set(t, r)
    BY <1>3 DEF sfs_rwblock
  <2>2. /\ r \in Io /\ r.pc = "io" /\ r.kind = u.kind /\ r.rw = u.rw
        /\ r.result = u.result /\ r.off = u.off /\ r.resid = u.resid /\ r.data = u.data
    <3>1. u.tries + 1 \in 0..MaxTries
      BY <1>1, <1>3, DiskSizes DEF Io
    <3> QED BY <1>1, <3>1 DEF Io, InLoop
  <2>3. UioOK(r) /\ SfsOK(r)
    <3> HIDE DEF r, u
    <3>1. u.rw = "write" => Len(u.data) = u.resid \div SectSize
      BY <1>1, <1>3, UnitDiv, DiskSizes DEF SfsOK
    <3> QED BY <1>1, <2>2, <3>1 DEF UioOK, SfsOK, InLoop, Moved1
  <2> QED BY <1>2, <2>1, <2>2, <2>3, SetFrame DEF DiskTypes
<1>4. CASE ~retry
  <2>1. Set(t, Idle)
    BY <1>4 DEF sfs_rwblock
  <2>2. Idle.pc = "idle"
    BY DEF Idle
  <2> QED BY <1>2, <2>1, <2>2, IdleFrame, SetFrame DEF DiskTypes
<1> QED BY <1>3, <1>4

----------------------------------------------------------------------------
(* The card and who holds it *)

\* A step of a thread that does not hold the card leaves the card alone.
LEMMA OutsideStep ==
    ASSUME DiskSafe, NEW t \in Thread, UNCHANGED <<medium, lhd_vars>>,
           disk_panic' = FALSE, io' \in [Thread -> Io], Frames',
           io[t].pc \notin Holding, io'[t].pc \notin Holding,
           \A u \in Thread \ {t} : io'[u] = io[u]
    PROVE  DiskSafe'
<1>1. DiskTypes'
  BY DEF DiskSafe, DiskTypes, lhd_vars
<1>2. DeviceExclusive'
  BY DEF DiskSafe, DeviceExclusive, lhd_vars
<1>3. CardOK'
  BY DEF DiskSafe, CardOK, Holding, lhd_vars
<1> QED BY <1>1, <1>2, <1>3 DEF DiskSafe

\* A step of the thread that holds the card and goes on holding it.
LEMMA InsideStep ==
    ASSUME DiskSafe, NEW t \in Thread, UNCHANGED lh_clear,
           io[t].pc \in Holding, io'[t].pc \in Holding,
           \A u \in Thread \ {t} : io'[u] = io[u]
    PROVE  DeviceExclusive' /\ \A u \in Thread \ {t} : io'[u].pc \notin Holding
<1>1. \A u \in Thread \ {t} : io[u].pc \notin Holding
  BY DEF DiskSafe, DeviceExclusive
<1> QED BY <1>1 DEF DiskSafe, DeviceExclusive

\* A step with which the holder gives the card back.
LEMMA LeaveStep ==
    ASSUME DiskSafe, NEW t \in Thread, lh_clear' = lh_clear + 1,
           io[t].pc \in Holding \ {"done"}, io'[t].pc \notin Holding,
           UNCHANGED <<lh_stat, lh_done>>,
           \A u \in Thread \ {t} : io'[u] = io[u]
    PROVE  DeviceExclusive' /\ CardOK' /\ lh_clear' = 1
<1>1. \A u \in Thread \ {t} : io[u].pc \notin Holding
  BY DEF DiskSafe, DeviceExclusive
<1>2. lh_clear = 0 /\ lh_clear' = 1
  BY DEF DiskSafe, DeviceExclusive
<1>3. DeviceExclusive'
  BY <1>1, <1>2 DEF DeviceExclusive
<1>4. CardOK'
  BY <1>1 DEF DiskSafe, CardOK, Holding
<1> QED BY <1>2, <1>3, <1>4

\* Every step keeps the invariant.
LEMMA DiskSafeStep ==
    ASSUME DiskSafe, DiskNext
    PROVE  DiskSafe'
<1> USE DEF DiskSafe
<1>1. ASSUME NEW t \in Thread, NEW b \in Sector, sfs_rblock(t, b)
      PROVE  DiskSafe'
  <2>1. b * SectSize \in Nat /\ SectSize \in Nat /\ << >> \in Seq(Data)
    BY MultipleDiv, DiskSizes DEF Sector
  <2>2. io' \in [Thread -> Io] /\ Frames' /\ io'[t].pc = "io"
        /\ \A u \in Thread \ {t} : io'[u] = io[u]
    BY <1>1, <2>1, CallFrame DEF sfs_rblock
  <2> QED BY <1>1, <2>2, OutsideStep DEF sfs_rblock, Call, DiskTypes, Holding
<1>2. ASSUME NEW t \in Thread, NEW b \in Sector, NEW d \in Data, sfs_wblock(t, b, d)
      PROVE  DiskSafe'
  <2>1. b * SectSize \in Nat /\ SectSize \in Nat /\ <<d>> \in Seq(Data) /\ Len(<<d>>) = 1
    BY MultipleDiv, DiskSizes DEF Sector
  <2>2. SectSize \div SectSize = 1
    BY UnitDiv, DiskSizes
  <2>3. io' \in [Thread -> Io] /\ Frames' /\ io'[t].pc = "io"
        /\ \A u \in Thread \ {t} : io'[u] = io[u]
    BY <1>2, <2>1, <2>2, CallFrame DEF sfs_wblock
  <2> QED BY <1>2, <2>3, OutsideStep DEF sfs_wblock, Call, DiskTypes, Holding
<1>3. ASSUME NEW t \in Thread, NEW r \in RawRequest, dev_read(t, r[1], r[2])
      PROVE  DiskSafe'
  <2>1. r[1] \in Nat /\ r[2] \in Nat /\ << >> \in Seq(Data)
    BY DiskSizes
  <2>2. io' \in [Thread -> Io] /\ Frames' /\ io'[t].pc = "io"
        /\ \A u \in Thread \ {t} : io'[u] = io[u]
    BY <1>3, <2>1, CallFrame DEF dev_read
  <2> QED BY <1>3, <2>2, OutsideStep DEF dev_read, Call, DiskTypes, Holding
<1>4. ASSUME NEW t \in Thread, NEW r \in RawRequest,
             NEW d \in RawData(r[2] \div SectSize), dev_write(t, r[1], r[2], d)
      PROVE  DiskSafe'
  <2>1. r[1] \in Nat /\ r[2] \in Nat /\ r[2] \div SectSize \in Nat
    BY DivMod, DiskSizes
  <2>2. d \in Seq(Data)
    BY <2>1 DEF RawData
  <2>3. io' \in [Thread -> Io] /\ Frames' /\ io'[t].pc = "io"
        /\ \A u \in Thread \ {t} : io'[u] = io[u]
    BY <1>4, <2>1, <2>2, CallFrame DEF dev_write
  <2> QED BY <1>4, <2>3, OutsideStep DEF dev_write, Call, DiskTypes, Holding
<1>5. ASSUME NEW t \in Thread, lhd_io(t)
      PROVE  DiskSafe'
  <2>1. io' \in [Thread -> Io] /\ Frames' /\ io'[t].pc \in {"ret", "clear"}
        /\ \A u \in Thread \ {t} : io'[u] = io[u]
    BY <1>5, LhdIoFrame
  <2> QED BY <1>5, <2>1, OutsideStep DEF lhd_io, DiskTypes, Holding
<1>6. ASSUME NEW t \in Thread, io_clear(t)
      PROVE  DiskSafe'
  <2>1. io' \in [Thread -> Io] /\ Frames'
        /\ io'[t] = [io[t] EXCEPT !.pc = IF io[t].rw = "write" THEN "fill" ELSE "start"]
        /\ \A u \in Thread \ {t} : io'[u] = io[u]
    BY <1>6, ClearFrame
  <2>2. lh_clear = 1 /\ lh_clear' = 0 /\ \A u \in Thread : io[u].pc \notin Holding
    BY <1>6 DEF io_clear, DiskTypes, DeviceExclusive
  <2>3. /\ io'[t].pc \in {"fill", "start"} /\ (io'[t].pc = "start" => io'[t].rw # "write")
        /\ \A u \in Thread \ {t} : io'[u].pc \notin Holding
    <3>1. io[t] \in Io
      BY DEF DiskTypes
    <3> QED BY <2>1, <2>2, <3>1 DEF Io
  <2>4. DiskTypes'
    BY <1>6, <2>1, <2>2 DEF io_clear, DiskTypes
  <2>5. DeviceExclusive'
    BY <2>2, <2>3 DEF DeviceExclusive, Holding
  <2>6. CardOK'
    <3>1. lh_stat.state = "IDLE" /\ lh_done # 1 /\ UNCHANGED <<lh_stat, lh_done>>
      BY <1>6, <2>2 DEF io_clear, CardOK, Holding
    <3> QED BY <2>3, <3>1 DEF CardOK, Holding
  <2> QED BY <2>1, <2>4, <2>5, <2>6
<1>7. ASSUME NEW t \in Thread, io_fill(t)
      PROVE  DiskSafe'
  <2>1. /\ io' \in [Thread -> Io] /\ Frames' /\ \A u \in Thread \ {t} : io'[u] = io[u]
        /\ io[t].rw = "write"
        /\ \/ /\ io'[t].pc = "start" /\ lh_buf' \in Data /\ lh_clear' = lh_clear
              /\ io'[t].rw = "write"
           \/ /\ io'[t].pc = "ret" /\ lh_buf' = lh_buf /\ lh_clear' = lh_clear + 1
    BY <1>7, FillFrame
  <2>2. io[t].pc = "fill" /\ UNCHANGED <<medium, lh_stat, lh_sect, lh_done, lh_result, disk_panic>>
    BY <1>7 DEF io_fill
  <2>3. CASE io'[t].pc = "start" /\ lh_buf' \in Data /\ lh_clear' = lh_clear
             /\ io'[t].rw = "write"
    <3>1. DeviceExclusive' /\ \A u \in Thread \ {t} : io'[u].pc \notin Holding
      BY <2>1, <2>2, <2>3, InsideStep DEF Holding
    <3>2. DiskTypes'
      BY <2>1, <2>2, <2>3 DEF DiskTypes
    <3>3. CardOK'
      BY <2>1, <2>2, <2>3, <3>1 DEF CardOK, Holding
    <3> QED BY <2>1, <3>1, <3>2, <3>3
  <2>4. CASE io'[t].pc = "ret" /\ lh_buf' = lh_buf /\ lh_clear' = lh_clear + 1
    <3>1. DeviceExclusive' /\ CardOK' /\ lh_clear' = 1
      BY <2>1, <2>2, <2>4, LeaveStep DEF Holding
    <3>2. DiskTypes'
      BY <2>1, <2>2, <2>4, <3>1 DEF DiskTypes
    <3> QED BY <2>1, <3>1, <3>2
  <2> QED BY <2>1, <2>3, <2>4
<1>8. ASSUME NEW t \in Thread, io_start(t)
      PROVE  DiskSafe'
  <2>1. io' \in [Thread -> Io] /\ Frames' /\ io'[t] = [io[t] EXCEPT !.pc = "done"]
        /\ \A u \in Thread \ {t} : io'[u] = io[u]
    BY <1>8, GotoFrame DEF io_start
  <2>2. /\ io'[t].pc = "done" /\ io'[t].rw = io[t].rw /\ io'[t].sector = io[t].sector
        /\ io'[t].i = io[t].i /\ io[t].pc = "start"
    BY <1>8, <2>1 DEF DiskTypes, Io, io_start
  <2>3. DeviceExclusive' /\ \A u \in Thread \ {t} : io'[u].pc \notin Holding
    BY <1>8, <2>1, <2>2, InsideStep DEF io_start, Holding
  <2>4. lh_stat.state = "IDLE" /\ lh_done = 0
    <3>1. \A u \in Thread : io[u].pc # "done"
      BY <2>1, <2>2, <2>3 DEF Holding
    <3> QED BY <3>1 DEF CardOK, DiskTypes
  <2>5. lh_stat' = Card("WORKING", io[t].rw = "write")
        /\ lh_stat'.state = "WORKING" /\ (lh_stat'.write <=> io[t].rw = "write")
        /\ lh_stat' \in [state : {"IDLE", "WORKING", "OK", "INVSECT", "MEDIA"},
                         write : BOOLEAN]
    BY <1>8 DEF io_start, Card
  <2>6. DiskTypes'
    BY <1>8, <2>1, <2>5 DEF io_start, DiskTypes
  <2>7. CardOK'
    BY <1>8, <2>1, <2>2, <2>3, <2>4, <2>5 DEF io_start, CardOK, Holding
  <2> QED BY <2>1, <2>3, <2>6, <2>7
<1>9. ASSUME NEW t \in Thread, io_done(t)
      PROVE  DiskSafe'
  <2>1. io' \in [Thread -> Io] /\ Frames' /\ io'[t] = [io[t] EXCEPT !.pc = "finish"]
        /\ \A u \in Thread \ {t} : io'[u] = io[u]
    BY <1>9, GotoFrame DEF io_done
  <2>2. io'[t].pc = "finish" /\ io'[t].rw = io[t].rw /\ io[t].pc = "done"
    BY <1>9, <2>1 DEF DiskTypes, Io, io_done
  <2>3. DeviceExclusive' /\ \A u \in Thread \ {t} : io'[u].pc \notin Holding
    BY <1>9, <2>1, <2>2, InsideStep DEF io_done, Holding
  <2>4. lh_done = 1 /\ lh_done' = 0 /\ lh_stat.state = "IDLE"
    BY <1>9, <2>2 DEF io_done, CardOK, DiskTypes
  <2>5. DiskTypes'
    BY <1>9, <2>1, <2>4 DEF io_done, DiskTypes
  <2>6. CardOK'
    BY <1>9, <2>1, <2>2, <2>3, <2>4 DEF io_done, CardOK, Holding
  <2> QED BY <2>1, <2>3, <2>5, <2>6
<1>10. ASSUME NEW t \in Thread, io_finish(t)
      PROVE  DiskSafe'
  <2>1. /\ io' \in [Thread -> Io] /\ Frames' /\ \A u \in Thread \ {t} : io'[u] = io[u]
        /\ io'[t].pc = "release"
    BY <1>10, FinishFrame
  <2>2. io[t].pc = "finish" /\ UNCHANGED <<medium, lhd_vars, disk_panic>>
    BY <1>10 DEF io_finish
  <2>3. DeviceExclusive' /\ \A u \in Thread \ {t} : io'[u].pc \notin Holding
    BY <2>1, <2>2, InsideStep DEF lhd_vars, Holding
  <2>4. DiskTypes'
    BY <2>1, <2>2 DEF lhd_vars, DiskTypes
  <2>5. CardOK'
    BY <2>1, <2>2, <2>3 DEF lhd_vars, CardOK, Holding
  <2> QED BY <2>1, <2>3, <2>4, <2>5
<1>11. ASSUME NEW t \in Thread, io_release(t)
      PROVE  DiskSafe'
  <2>1. io' \in [Thread -> Io] /\ Frames' /\ io'[t].pc \in {"ret", "clear"}
        /\ \A u \in Thread \ {t} : io'[u] = io[u]
    BY <1>11, ReleaseFrame
  <2>2. io[t].pc = "release" /\ lh_clear' = lh_clear + 1
        /\ UNCHANGED <<medium, lh_stat, lh_sect, lh_buf, lh_done, lh_result, disk_panic>>
    BY <1>11 DEF io_release
  <2>3. DeviceExclusive' /\ CardOK' /\ lh_clear' = 1
    BY <2>1, <2>2, LeaveStep DEF Holding
  <2>4. DiskTypes'
    BY <2>1, <2>2, <2>3 DEF DiskTypes
  <2> QED BY <2>1, <2>3, <2>4
<1>12. ASSUME NEW t \in Thread, sfs_rwblock(t)
      PROVE  DiskSafe'
  <2>1. io' \in [Thread -> Io] /\ Frames' /\ io'[t].pc \in {"idle", "io"}
        /\ disk_panic' = FALSE /\ \A u \in Thread \ {t} : io'[u] = io[u]
    BY <1>12, RwblockFrame
  <2> QED BY <1>12, <2>1, OutsideStep DEF sfs_rwblock, Holding
<1>13. ASSUME hardware
      PROVE  DiskSafe'
  <2>1. io' = io /\ UNCHANGED <<lh_sect, lh_clear, lh_done, lh_result, disk_panic>>
        /\ lh_stat.state = "WORKING"
    BY <1>13 DEF hardware
  <2>2. PICK t \in Thread : io[t].pc = "done" /\ \A u \in Thread \ {t} : io[u].pc \notin Holding
    BY <2>1 DEF CardOK, DeviceExclusive, Holding
  <2>3. lh_done = 0 /\ lh_sect = io[t].sector + io[t].i /\ (lh_stat.write <=> io[t].rw = "write")
        /\ (io[t].rw = "write" => lh_buf \in Data)
    BY <2>1, <2>2 DEF CardOK, DiskTypes
  <2>4. lh_sect \in Sector
    BY <2>2, <2>3, DiskSizes DEF Frames, UioOK, InLoop, Sector, DiskTypes, Io
  <2>5. PICK code \in {"OK", "MEDIA"} :
           /\ lh_stat' = Card(code, lh_stat.write)
           /\ medium' \in [Sector -> Data] /\ lh_buf' \in Data \cup {NULL}
           /\ code = "OK" /\ io[t].rw = "read" => lh_buf' \in Data
           /\ io[t].rw = "write" => lh_buf' = lh_buf
    BY <1>13, <2>3, <2>4 DEF hardware, DiskTypes
  <2>6. lh_stat'.state = code /\ lh_stat'.write = lh_stat.write
        /\ lh_stat' \in [state : {"IDLE", "WORKING", "OK", "INVSECT", "MEDIA"}, write : BOOLEAN]
    BY <2>5 DEF Card, DiskTypes
  <2>7. DiskTypes'
    BY <2>1, <2>5, <2>6 DEF DiskTypes
  <2>8. CardOK'
    BY <2>1, <2>2, <2>3, <2>5, <2>6 DEF CardOK, Holding
  <2> QED BY <2>1, <2>7, <2>8 DEF Frames, DeviceExclusive
<1>14. ASSUME lhd_irq
      PROVE  DiskSafe'
  <2>1. io' = io /\ UNCHANGED <<medium, lh_sect, lh_buf, lh_clear, disk_panic>>
        /\ lh_stat.state \in {"OK", "MEDIA"} /\ lh_done' = lh_done + 1
        /\ lh_stat' = Card("IDLE", FALSE) /\ lh_result' = lhd_code_to_errno(lh_stat.state)
    BY <1>14 DEF lhd_irq, CardOK
  <2>2. PICK t \in Thread : io[t].pc = "done" /\ \A u \in Thread \ {t} : io[u].pc \notin Holding
    BY <2>1 DEF CardOK, DeviceExclusive, Holding
  <2>3. lh_done = 0 /\ lh_done' = 1
    BY <2>1, <2>2 DEF CardOK, DiskTypes
  <2>4. lh_stat'.state = "IDLE"
        /\ lh_stat' \in [state : {"IDLE", "WORKING", "OK", "INVSECT", "MEDIA"}, write : BOOLEAN]
    BY <2>1 DEF Card
  <2>5. lh_result' \in {"ok", "EIO"} /\ (lh_result' = "ok" => lh_stat.state = "OK")
    BY <2>1 DEF lhd_code_to_errno
  <2>6. DiskTypes'
    BY <2>1, <2>3, <2>4, <2>5 DEF DiskTypes
  <2>7. CardOK'
    <3>1. /\ io[t].rw = "write" => lh_buf' \in Data
          /\ io[t].rw = "read" /\ lh_result' = "ok" => lh_buf' \in Data
      BY <2>1, <2>2, <2>5 DEF CardOK
    <3>2. \A q \in Thread \ {t} : io'[q].pc \notin Holding
      BY <2>1, <2>2
    <3>3. io'[t].pc = "done" /\ io'[t].rw = io[t].rw
      BY <2>1, <2>2
    <3> HIDE DEF DiskSafe
    <3> QED BY <2>3, <2>4, <3>1, <3>2, <3>3 DEF CardOK, Holding
  <2> QED BY <2>1, <2>6, <2>7 DEF Frames, DeviceExclusive
<1> QED
  BY <1>1, <1>2, <1>3, <1>4, <1>5, <1>6, <1>7, <1>8, <1>9, <1>10, <1>11, <1>12,
     <1>13, <1>14
  DEF DiskNext, DiskCall, DiskStep

\* The initial state.
LEMMA DiskSafeInit == DiskInit => DiskSafe
<1> SUFFICES ASSUME DiskInit PROVE DiskSafe
  OBVIOUS
<1>1. io \in [Thread -> Io] /\ \A t \in Thread : io[t] = Idle /\ io[t].pc = "idle"
  BY IdleFrame DEF DiskInit, Idle
<1>2. DiskTypes
  BY <1>1 DEF DiskInit, DiskTypes, Card
<1>3. Frames
  BY <1>1, IdleFrame DEF Frames
<1>4. DeviceExclusive /\ CardOK
  BY <1>1 DEF DiskInit, DeviceExclusive, CardOK, Holding, Card
<1> QED BY <1>2, <1>3, <1>4 DEF DiskSafe

\* The inductive invariant of the driver: the locals of every lhd_io agree with its
\* uio, one thread holds the card, and the card works for that thread.
THEOREM DiskInvariant == DiskBehaviour => []DiskSafe
<1>1. DiskSafe /\ [DiskNext]_disk_vars => DiskSafe'
  <2> SUFFICES ASSUME DiskSafe, [DiskNext]_disk_vars PROVE DiskSafe'
    OBVIOUS
  <2>1. CASE UNCHANGED disk_vars
    BY <2>1 DEF disk_vars, lhd_vars, DiskSafe, DiskTypes, Frames, DeviceExclusive, CardOK
  <2> QED BY <2>1, DiskSafeStep
<1> QED BY <1>1, DiskSafeInit, PTL DEF DiskBehaviour

\* lh_clear keeps all threads but one out of the card, the card is at work for the
\* thread that waits and never sees a sector that does not exist, and SFS never
\* panics, whatever raw requests, faults, media errors and retries there are.
THEOREM DiskIsSafe == DiskBehaviour => []DiskInv
<1>1. DiskSafe => DiskInv
  <2> SUFFICES ASSUME DiskSafe PROVE DiskInv
    OBVIOUS
  <2> DEFINE D == {t \in Thread : io[t].pc = "done"}
  <2>1. DiskTypeOK
    BY DEF DiskSafe, DiskTypes, Io, DiskTypeOK
  <2>2. Cardinality(InDevice) + lh_clear = 1
    <3>1. CASE lh_clear = 0
      <4>1. PICK t \in Thread : io[t].pc \in Holding
        BY <3>1 DEF DiskSafe, DeviceExclusive
      <4>2. InDevice = {t}
        BY <4>1 DEF DiskSafe, DeviceExclusive, InDevice, Holding
      <4>3. Cardinality(InDevice) = 1
        BY <4>2, FS_Singleton
      <4> QED BY <3>1, <4>3
    <3>2. CASE lh_clear = 1
      <4>1. InDevice = {}
        BY <3>2 DEF DiskSafe, DeviceExclusive, InDevice, Holding
      <4> QED BY <3>2, <4>1, FS_EmptySet
    <3> QED BY <3>1, <3>2 DEF DiskSafe, DiskTypes
  <2>3. (IF lh_stat.state # "IDLE" THEN 1 ELSE 0) + lh_done = Cardinality(D)
    <3>1. CASE D = {}
      <4>1. lh_stat.state = "IDLE" /\ lh_done = 0
        BY <3>1 DEF DiskSafe, CardOK, DiskTypes
      <4> QED BY <3>1, <4>1, FS_EmptySet
    <3>2. CASE D # {}
      <4>1. PICK t \in D : TRUE
        BY <3>2
      <4>2. D = {t}
        BY <4>1 DEF DiskSafe, DeviceExclusive, Holding
      <4>3. lh_stat.state # "IDLE" <=> lh_done = 0
        BY <4>1 DEF DiskSafe, CardOK
      <4>4. Cardinality(D) = 1
        BY <4>2, FS_Singleton
      <4> QED BY <4>3, <4>4 DEF DiskSafe, DiskTypes
    <3> QED BY <3>1, <3>2
  <2>4. lh_stat.state # "INVSECT" /\ ~disk_panic
    BY DEF DiskSafe, DiskTypes, CardOK
  <2> QED BY <2>1, <2>2, <2>3, <2>4 DEF DiskInv
<1> QED BY <1>1, DiskInvariant, PTL

----------------------------------------------------------------------------
(* Refinement of DiskSpec *)

Op == [t \in Thread |-> AbstractOp(t)]

Asked(u, d) == [st |-> "asked", rw |-> u.rw, sector |-> u.sector + u.i,
                data |-> IF u.rw = "write" THEN d ELSE NULL]
Answered(st, u, res, d) == [st |-> st, rw |-> u.rw, res |-> res,
                            data |-> IF u.rw = "read" /\ res = "ok" THEN d ELSE NULL]

\* What a transfer in the driver is to its caller, by the driver's place in it.
LEMMA AbstractOps ==
    ASSUME NEW t \in Thread
    PROVE  /\ io[t].pc \notin {"start", "done", "finish", "release"} => AbstractOp(t) = NULL
           /\ io[t].pc = "start" => AbstractOp(t) = Asked(io[t], lh_buf)
           /\ io[t].pc = "done" /\ lh_stat.state = "WORKING" =>
                AbstractOp(t) = Asked(io[t], lh_buf)
           /\ io[t].pc = "done" /\ lh_stat.state \notin {"WORKING", "IDLE"} =>
                AbstractOp(t) = Answered("served", io[t], lhd_code_to_errno(lh_stat.state),
                                         lh_buf)
           /\ io[t].pc = "finish" \/ (io[t].pc = "done" /\ lh_stat.state = "IDLE") =>
                AbstractOp(t) = Answered("served", io[t], lh_result, lh_buf)
           /\ io[t].pc = "release" =>
                AbstractOp(t) = Answered("taken", io[t], io[t].result,
                    IF io[t].data = << >> THEN NULL ELSE io[t].data[Len(io[t].data)])
  BY DEF AbstractOp, Asked, Answered

\* The same of the state after a step.
LEMMA AbstractOpsAfter ==
    ASSUME NEW t \in Thread
    PROVE  /\ io'[t].pc \notin {"start", "done", "finish", "release"} => AbstractOp(t)' = NULL
           /\ io'[t].pc = "start" => AbstractOp(t)' = Asked(io'[t], lh_buf')
           /\ io'[t].pc = "done" /\ lh_stat'.state = "WORKING" =>
                AbstractOp(t)' = Asked(io'[t], lh_buf')
           /\ io'[t].pc = "done" /\ lh_stat'.state \notin {"WORKING", "IDLE"} =>
                AbstractOp(t)' = Answered("served", io'[t],
                                          lhd_code_to_errno(lh_stat'.state), lh_buf')
           /\ io'[t].pc = "finish" \/ (io'[t].pc = "done" /\ lh_stat'.state = "IDLE") =>
                AbstractOp(t)' = Answered("served", io'[t], lh_result', lh_buf')
           /\ io'[t].pc = "release" =>
                AbstractOp(t)' = Answered("taken", io'[t], io'[t].result,
                    IF io'[t].data = << >> THEN NULL ELSE io'[t].data[Len(io'[t].data)])
  BY DEF AbstractOp, Asked, Answered

\* Only the thread that holds the card is in a transfer.
LEMMA OneTransfer ==
    ASSUME NEW t \in Thread, DiskSafe, DiskSafe', io[t].pc \in Holding \/ io'[t].pc \in Holding,
           \A u \in Thread \ {t} : io'[u] = io[u]
    PROVE  Op' = [Op EXCEPT ![t] = AbstractOp(t)']
<1>1. ASSUME NEW u \in Thread \ {t} PROVE AbstractOp(u)' = AbstractOp(u)
  <2>1. io[u].pc \notin Holding /\ io'[u].pc \notin Holding
    BY DEF DiskSafe, DeviceExclusive
  <2> QED BY <2>1, AbstractOps, AbstractOpsAfter DEF Holding
<1> QED BY <1>1 DEF Op

\* A step of a thread that is in no transfer before and after it.
LEMMA NoTransfer ==
    ASSUME NEW t \in Thread, UNCHANGED <<medium, lhd_vars>>,
           io[t].pc \notin Holding, io'[t].pc \notin Holding,
           \A u \in Thread \ {t} : io'[u] = io[u]
    PROVE  UNCHANGED <<medium, Op>>
<1>1. AbstractOp(t)' = AbstractOp(t)
  BY AbstractOps, AbstractOpsAfter DEF Holding
<1>2. ASSUME NEW u \in Thread \ {t} PROVE AbstractOp(u)' = AbstractOp(u)
  BY <1>2 DEF AbstractOp, lhd_vars
<1> QED BY <1>1, <1>2 DEF Op

\* A step of the holder that leaves its transfer as it was.
LEMMA SameTransfer ==
    ASSUME NEW t \in Thread, DiskSafe, DiskSafe', io[t].pc \in Holding \/ io'[t].pc \in Holding,
           \A u \in Thread \ {t} : io'[u] = io[u],
           UNCHANGED medium, AbstractOp(t)' = AbstractOp(t)
    PROVE  UNCHANGED <<medium, Op>>
<1>1. Op' = [Op EXCEPT ![t] = AbstractOp(t)]
  BY OneTransfer
<1>2. Op' = Op
  BY <1>1 DEF Op
<1> QED BY <1>2

\* A transfer of DiskSpec is a record, so it is not the absence of one.
LEMMA TransferNotNull ==
    /\ \A rw \in {"read", "write"}, s \in Sector, d \in Data \cup {NULL} :
         [st |-> "asked", rw |-> rw, sector |-> s, data |-> d] # NULL
    /\ \A st \in {"served", "taken"}, rw \in {"read", "write"}, d \in Data \cup {NULL},
          res \in {"ok", "EIO", "EINVAL", "EFAULT"} :
         [st |-> st, rw |-> rw, res |-> res, data |-> d] # NULL
  BY NullIsNoTransfer DEF Sector

AbstractNext == [AtomicDisk!Next]_<<medium, Op>>

\* Every step of the driver, the card or the interrupt is a step of DiskSpec or
\* leaves its state as it is.
LEMMA DiskStepRefines ==
    ASSUME DiskSafe, DiskNext
    PROVE  AbstractNext
<1> USE DiskSafeStep
<1>1. ASSUME NEW t \in Thread, DiskCall(t)
      PROVE  AbstractNext
  <2>1. PICK kind, rw, off, resid, data : Call(t, kind, rw, off, resid, data)
    BY <1>1 DEF DiskCall, sfs_rblock, sfs_wblock, dev_read, dev_write
  <2>2. io[t].pc = "idle" /\ io'[t].pc = "io" /\ \A u \in Thread \ {t} : io'[u] = io[u]
    BY <2>1 DEF Call, Idle, DiskSafe, DiskTypes
  <2> QED BY <2>1, <2>2, NoTransfer DEF Call, Holding, AbstractNext
<1>2. ASSUME NEW t \in Thread, lhd_io(t)
      PROVE  AbstractNext
  <2>1. io[t].pc = "io" /\ io'[t].pc \in {"ret", "clear"} /\ \A u \in Thread \ {t} : io'[u] = io[u]
    BY <1>2, LhdIoFrame DEF DiskSafe, lhd_io
  <2> QED BY <1>2, <2>1, NoTransfer DEF lhd_io, Holding, AbstractNext
<1>3. ASSUME NEW t \in Thread, io_clear(t)
      PROVE  AbstractNext
  <2> DEFINE u == io[t]
  <2>1. /\ io'[t] = [u EXCEPT !.pc = IF u.rw = "write" THEN "fill" ELSE "start"]
        /\ \A q \in Thread \ {t} : io'[q] = io[q]
    BY <1>3, ClearFrame DEF DiskSafe
  <2>2. u \in Io /\ u.pc = "clear" /\ UioOK(u)
    BY <1>3 DEF DiskSafe, DiskTypes, Frames, io_clear
  <2>3. /\ io'[t].pc = (IF u.rw = "write" THEN "fill" ELSE "start") /\ io'[t].rw = u.rw
        /\ io'[t].sector = u.sector /\ io'[t].i = u.i /\ u.rw \in {"read", "write"}
    BY <2>1, <2>2 DEF Io
  <2>4. AbstractOp(t) = NULL
    BY <2>2, AbstractOps
  <2>5. UNCHANGED medium
    BY <1>3 DEF io_clear
  <2>6. CASE u.rw = "write"
    <3>1. AbstractOp(t)' = AbstractOp(t)
      BY <2>3, <2>4, <2>6, AbstractOpsAfter
    <3> QED BY <2>1, <2>3, <2>5, <2>6, <3>1, SameTransfer DEF Holding, AbstractNext
  <2>7. CASE u.rw = "read"
    <3>1. AbstractOp(t)' = [st |-> "asked", rw |-> "read", sector |-> u.sector + u.i, data |-> NULL]
      BY <2>3, <2>7, AbstractOpsAfter DEF Asked
    <3>2. u.sector + u.i \in Sector
      <4>1. u.sector \in Nat /\ u.i \in Nat /\ u.len \in Nat
        BY <2>2 DEF Io
      <4>2. u.i < u.len /\ u.sector + u.len <= NSect
        BY <2>2 DEF UioOK, InLoop
      <4> QED BY <4>1, <4>2, DiskSizes DEF Sector
    <3>3. AbstractOp(t)' \in AtomicDisk!Request
      BY <3>1, <3>2 DEF AtomicDisk!Request
    <3>4. Op' = [Op EXCEPT ![t] = AbstractOp(t)'] /\ Op[t] = NULL
      BY <2>1, <2>3, <2>4, <2>7, OneTransfer DEF Holding, Op
    <3>5. AtomicDisk!Ask(t)
      BY <2>5, <3>3, <3>4 DEF AtomicDisk!Ask, Op
    <3> QED BY <3>5 DEF AtomicDisk!Next, AbstractNext
  <2> QED BY <2>3, <2>6, <2>7
<1>4. ASSUME NEW t \in Thread, io_fill(t)
      PROVE  AbstractNext
  <2> DEFINE u == io[t]
  <2>1. /\ \A q \in Thread \ {t} : io'[q] = io[q] /\ u.rw = "write"
        /\ \/ /\ io'[t].pc = "start" /\ lh_buf' \in Data
              /\ io'[t].rw = "write" /\ io'[t].sector = u.sector /\ io'[t].i = u.i
           \/ io'[t].pc = "ret"
    BY <1>4, FillFrame DEF DiskSafe
  <2>2. u \in Io /\ u.pc = "fill" /\ UioOK(u) /\ UNCHANGED medium
    BY <1>4 DEF DiskSafe, DiskTypes, Frames, io_fill
  <2>3. AbstractOp(t) = NULL
    BY <2>2, AbstractOps
  <2>4. CASE io'[t].pc = "ret"
    <3>1. AbstractOp(t)' = AbstractOp(t)
      BY <2>3, <2>4, AbstractOpsAfter
    <3> QED BY <2>1, <2>2, <3>1, SameTransfer DEF Holding, AbstractNext
  <2>5. CASE /\ io'[t].pc = "start" /\ lh_buf' \in Data
             /\ io'[t].rw = "write" /\ io'[t].sector = u.sector /\ io'[t].i = u.i
    <3>1. AbstractOp(t)' = [st |-> "asked", rw |-> "write", sector |-> u.sector + u.i,
                            data |-> lh_buf']
      BY <2>5, AbstractOpsAfter DEF Asked
    <3>2. u.sector + u.i \in Sector
      <4>1. u.sector \in Nat /\ u.i \in Nat /\ u.len \in Nat
        BY <2>2 DEF Io
      <4>2. u.i < u.len /\ u.sector + u.len <= NSect
        BY <2>2 DEF UioOK, InLoop
      <4> QED BY <4>1, <4>2, DiskSizes DEF Sector
    <3>3. AbstractOp(t)' \in AtomicDisk!Request
      BY <2>5, <3>1, <3>2 DEF AtomicDisk!Request
    <3>4. Op' = [Op EXCEPT ![t] = AbstractOp(t)'] /\ Op[t] = NULL
      BY <2>1, <2>2, <2>3, OneTransfer DEF Holding, Op
    <3>5. AtomicDisk!Ask(t)
      BY <2>2, <3>3, <3>4 DEF AtomicDisk!Ask, Op
    <3> QED BY <3>5 DEF AtomicDisk!Next, AbstractNext
  <2> QED BY <2>1, <2>4, <2>5
<1>5. ASSUME NEW t \in Thread, io_start(t)
      PROVE  AbstractNext
  <2>1. /\ io'[t] = [io[t] EXCEPT !.pc = "done"] /\ io[t].pc = "start"
        /\ \A q \in Thread \ {t} : io'[q] = io[q]
    BY <1>5, GotoFrame DEF DiskSafe, io_start
  <2>2. /\ io'[t].pc = "done" /\ io'[t].rw = io[t].rw /\ io'[t].sector = io[t].sector
        /\ io'[t].i = io[t].i
    BY <2>1 DEF DiskSafe, DiskTypes, Io
  <2>3. lh_stat'.state = "WORKING" /\ UNCHANGED <<medium, lh_buf>>
    BY <1>5 DEF io_start, Card
  <2>4. AbstractOp(t)' = AbstractOp(t)
    <3>1. AbstractOp(t) = Asked(io[t], lh_buf) /\ AbstractOp(t)' = Asked(io'[t], lh_buf')
      BY <2>1, <2>2, <2>3, AbstractOps, AbstractOpsAfter
    <3> QED BY <2>2, <2>3, <3>1 DEF Asked
  <2>5. io[t].pc \in Holding /\ UNCHANGED medium
    BY <2>1, <2>3 DEF Holding
  <2>6. UNCHANGED <<medium, Op>>
    BY <2>1, <2>4, <2>5, SameTransfer
  <2> QED BY <2>6 DEF AbstractNext
<1>6. ASSUME NEW t \in Thread, io_done(t)
      PROVE  AbstractNext
  <2>1. /\ io'[t] = [io[t] EXCEPT !.pc = "finish"] /\ io[t].pc = "done"
        /\ \A q \in Thread \ {t} : io'[q] = io[q]
    BY <1>6, GotoFrame DEF DiskSafe, io_done
  <2>2. io'[t].pc = "finish" /\ io'[t].rw = io[t].rw
    BY <2>1 DEF DiskSafe, DiskTypes, Io
  <2>3. lh_stat.state = "IDLE" /\ UNCHANGED <<medium, lh_buf, lh_result>>
    BY <1>6, <2>1 DEF io_done, DiskSafe, CardOK
  <2>4. AbstractOp(t)' = AbstractOp(t)
    <3>1. /\ AbstractOp(t) = Answered("served", io[t], lh_result, lh_buf)
          /\ AbstractOp(t)' = Answered("served", io'[t], lh_result', lh_buf')
      BY <2>1, <2>2, <2>3, AbstractOps, AbstractOpsAfter
    <3> QED BY <2>2, <2>3, <3>1 DEF Answered
  <2>5. io[t].pc \in Holding /\ UNCHANGED medium
    BY <2>1, <2>3 DEF Holding
  <2>6. UNCHANGED <<medium, Op>>
    BY <2>1, <2>4, <2>5, SameTransfer
  <2> QED BY <2>6 DEF AbstractNext
<1>7. ASSUME NEW t \in Thread, io_finish(t)
      PROVE  AbstractNext
  <2> DEFINE u == io[t]
  <2>1. /\ \A q \in Thread \ {t} : io'[q] = io[q]
        /\ io'[t].pc = "release" /\ io'[t].rw = u.rw
        /\ \/ /\ io'[t].result = lh_result
              /\ lh_result = "ok" /\ u.rw = "read" =>
                   io'[t].data = Append(u.data, lh_buf) /\ u.data \in Seq(Data)
                   /\ lh_buf \in Data
           \/ io'[t].result = "EFAULT" /\ lh_result = "ok" /\ u.rw = "read"
    BY <1>7, FinishFrame DEF DiskSafe
  <2>2. u.pc = "finish" /\ UNCHANGED medium /\ u.rw \in {"read", "write"}
        /\ lh_result \in {"ok", "EIO"} /\ lh_buf \in Data \cup {NULL}
    BY <1>7 DEF io_finish, DiskSafe, DiskTypes, Io
  <2> DEFINE d == IF u.rw = "read" /\ lh_result = "ok" THEN lh_buf ELSE NULL
             before == [st |-> "served", rw |-> u.rw, res |-> lh_result, data |-> d]
  <2>3. AbstractOp(t) = before /\ d \in Data \cup {NULL}
    BY <2>2, AbstractOps DEF Answered
  <2>4. Op[t] = before /\ before # NULL /\ before.st = "served"
        /\ Op' = [Op EXCEPT ![t] = AbstractOp(t)']
    BY <2>1, <2>2, <2>3, OneTransfer, TransferNotNull DEF Op, Holding
  <2>5. CASE /\ io'[t].result = lh_result
             /\ lh_result = "ok" /\ u.rw = "read" =>
                   io'[t].data = Append(u.data, lh_buf) /\ u.data \in Seq(Data)
                   /\ lh_buf \in Data
    <3>1. AbstractOp(t)' = [st |-> "taken", rw |-> u.rw, res |-> lh_result, data |-> d]
      <4>1. CASE lh_result = "ok" /\ u.rw = "read"
        <5>1. io'[t].data # << >> /\ io'[t].data[Len(io'[t].data)] = lh_buf
          BY <2>5, <4>1
        <5> QED BY <2>1, <2>5, <4>1, <5>1, AbstractOpsAfter DEF Answered
      <4>2. CASE ~(lh_result = "ok" /\ u.rw = "read")
        BY <2>1, <2>5, <4>2, AbstractOpsAfter DEF Answered
      <4> QED BY <4>1, <4>2
    <3>2. AbstractOp(t)' = [before EXCEPT !.st = "taken"]
      BY <3>1
    <3> HIDE DEF before, d
    <3>3. AtomicDisk!Take(t)
      BY <2>2, <2>4, <3>2 DEF AtomicDisk!Take, Op
    <3> QED BY <3>3 DEF AtomicDisk!Next, AbstractNext
  <2>6. CASE io'[t].result = "EFAULT" /\ lh_result = "ok" /\ u.rw = "read"
    <3>1. AbstractOp(t)' = [st |-> "taken", rw |-> u.rw, res |-> "EFAULT", data |-> NULL]
      BY <2>1, <2>6, AbstractOpsAfter DEF Answered
    <3>2. AbstractOp(t)' = [st |-> "taken", rw |-> "read", res |-> "EFAULT", data |-> NULL]
      BY <2>6, <3>1
    <3>3. before.rw = "read" /\ before.res = "ok"
      BY <2>6
    <3> HIDE DEF before, d
    <3>4. AtomicDisk!Take(t)
      BY <2>2, <2>4, <3>2, <3>3 DEF AtomicDisk!Take, Op
    <3> QED BY <3>4 DEF AtomicDisk!Next, AbstractNext
  <2> QED BY <2>1, <2>5, <2>6
<1>8. ASSUME NEW t \in Thread, io_release(t)
      PROVE  AbstractNext
  <2> DEFINE u == io[t]
             d == IF u.data = << >> THEN NULL ELSE u.data[Len(u.data)]
             e == IF u.rw = "read" /\ u.result = "ok" THEN d ELSE NULL
             before == [st |-> "taken", rw |-> u.rw, res |-> u.result, data |-> e]
  <2>1. io'[t].pc \in {"ret", "clear"} /\ \A q \in Thread \ {t} : io'[q] = io[q]
    BY <1>8, ReleaseFrame DEF DiskSafe
  <2>2. /\ u.pc = "release" /\ UNCHANGED medium /\ u.rw \in {"read", "write"}
        /\ u.data \in Seq(Data) /\ u.result \in {"ok", "EIO", "EINVAL", "EFAULT"}
    BY <1>8 DEF io_release, DiskSafe, DiskTypes, Io
  <2>3. e \in Data \cup {NULL}
    BY <2>2
  <2>4. AbstractOp(t) = before
    BY <2>2, AbstractOps DEF Answered
  <2> HIDE DEF e, d
  <2>5. before # NULL /\ before.st = "taken"
    BY <2>2, <2>3, TransferNotNull
  <2>6. Op[t] = before /\ Op' = [Op EXCEPT ![t] = NULL]
    BY <2>1, <2>2, <2>4, OneTransfer, AbstractOpsAfter DEF Op, Holding
  <2> HIDE DEF before
  <2>7. AtomicDisk!Finish(t)
    BY <2>2, <2>5, <2>6 DEF AtomicDisk!Finish, Op
  <2> QED BY <2>7 DEF AtomicDisk!Next, AbstractNext
<1>9. ASSUME NEW t \in Thread, sfs_rwblock(t)
      PROVE  AbstractNext
  <2>1. io[t].pc = "ret" /\ io'[t].pc \in {"idle", "io"} /\ \A u \in Thread \ {t} : io'[u] = io[u]
    BY <1>9, RwblockFrame DEF DiskSafe, sfs_rwblock
  <2> QED BY <1>9, <2>1, NoTransfer DEF sfs_rwblock, Holding, AbstractNext
<1>10. ASSUME hardware
      PROVE  AbstractNext
  <2>1. io' = io /\ lh_stat.state = "WORKING"
    BY <1>10 DEF hardware
  <2>2. PICK t \in Thread : io[t].pc = "done"
    BY <2>1 DEF DiskSafe, CardOK
  <2> DEFINE u == io[t]
             before == [st |-> "asked", rw |-> u.rw, sector |-> lh_sect,
                        data |-> IF u.rw = "write" THEN lh_buf ELSE NULL]
  <2>3. /\ lh_sect = u.sector + u.i /\ (lh_stat.write <=> u.rw = "write")
        /\ u.rw = "write" => lh_buf \in Data
    BY <2>1, <2>2 DEF DiskSafe, CardOK
  <2>4. lh_sect \in Sector /\ u.rw \in {"read", "write"}
    BY <2>2, <2>3, DiskSizes DEF DiskSafe, Frames, UioOK, InLoop, Sector, DiskTypes, Io
  <2>5. AbstractOp(t) = before
    BY <2>1, <2>2, <2>3, AbstractOps DEF Asked
  <2>6. before # NULL /\ before.st = "asked" /\ before.rw = u.rw /\ before.sector = lh_sect
        /\ (u.rw = "write" => before.data = lh_buf)
    BY <2>3, <2>4, TransferNotNull
  <2>7. Op[t] = before /\ Op' = [Op EXCEPT ![t] = AbstractOp(t)']
    BY <2>1, <2>2, <2>5, OneTransfer DEF Op, Holding
  <2> HIDE DEF before
  <2>8. CASE /\ u.rw = "write" /\ medium' = [medium EXCEPT ![lh_sect] = lh_buf]
             /\ lh_stat' = Card("OK", lh_stat.write)
    <3>1. AbstractOp(t)' = [st |-> "served", rw |-> u.rw, res |-> "ok", data |-> NULL]
      BY <2>1, <2>2, <2>8, AbstractOpsAfter DEF Answered, Card, lhd_code_to_errno
    <3>2. AtomicDisk!Serve(t)
      BY <2>6, <2>7, <2>8, <3>1 DEF AtomicDisk!Serve, AtomicDisk!Answer, Op
    <3> QED BY <3>2 DEF AtomicDisk!Next, AbstractNext
  <2>9. CASE /\ u.rw = "read" /\ lh_buf' = medium[lh_sect] /\ UNCHANGED medium
             /\ lh_stat' = Card("OK", lh_stat.write)
    <3>1. AbstractOp(t)' = [st |-> "served", rw |-> u.rw, res |-> "ok", data |-> medium[lh_sect]]
      BY <2>1, <2>2, <2>9, AbstractOpsAfter DEF Answered, Card, lhd_code_to_errno
    <3>2. AtomicDisk!Serve(t)
      BY <2>6, <2>7, <2>9, <3>1 DEF AtomicDisk!Serve, AtomicDisk!Answer, Op
    <3> QED BY <3>2 DEF AtomicDisk!Next, AbstractNext
  <2>10. CASE UNCHANGED medium /\ lh_stat' = Card("MEDIA", lh_stat.write)
    <3>1. AbstractOp(t)' = [st |-> "served", rw |-> u.rw, res |-> "EIO", data |-> NULL]
      BY <2>1, <2>2, <2>10, AbstractOpsAfter DEF Answered, Card, lhd_code_to_errno
    <3>2. AtomicDisk!Serve(t)
      BY <2>6, <2>7, <2>10, <3>1 DEF AtomicDisk!Serve, AtomicDisk!Answer, Op
    <3> QED BY <3>2 DEF AtomicDisk!Next, AbstractNext
  <2> QED BY <1>10, <2>3, <2>4, <2>8, <2>9, <2>10 DEF hardware
<1>11. ASSUME lhd_irq
      PROVE  AbstractNext
  <2>1. /\ io' = io /\ UNCHANGED <<medium, lh_buf>> /\ lh_stat.state \in {"OK", "MEDIA"}
        /\ lh_stat'.state = "IDLE" /\ lh_result' = lhd_code_to_errno(lh_stat.state)
    BY <1>11 DEF lhd_irq, Card, DiskSafe, CardOK
  <2>2. PICK t \in Thread : io[t].pc = "done"
    BY <2>1 DEF DiskSafe, CardOK
  <2>3. AbstractOp(t)' = AbstractOp(t)
    BY <2>1, <2>2, AbstractOps, AbstractOpsAfter DEF Answered
  <2> QED BY <2>1, <2>2, <2>3, SameTransfer DEF Holding, AbstractNext
<1> QED
  BY <1>1, <1>2, <1>3, <1>4, <1>5, <1>6, <1>7, <1>8, <1>9, <1>10, <1>11
  DEF DiskNext, DiskStep

\* The driver, the card and the completion interrupt implement DiskSpec: each
\* sector is transferred at one moment, and its outcome and data go to the thread
\* that asked, however requests and interrupts interleave.
THEOREM DiskImplementsSpec == DiskBehaviour => DiskAtomic
<1>1. DiskInit => AtomicDisk!Init
  <2> SUFFICES ASSUME DiskInit PROVE AtomicDisk!Init
    OBVIOUS
  <2>1. ASSUME NEW t \in Thread PROVE AbstractOp(t) = NULL
    <3>1. io[t].pc = "idle"
      BY DEF DiskInit, Idle
    <3> QED BY <3>1, AbstractOps
  <2> QED BY <2>1 DEF DiskInit, AtomicDisk!Init
<1>2. DiskSafe /\ [DiskNext]_disk_vars => AbstractNext
  <2> SUFFICES ASSUME DiskSafe, [DiskNext]_disk_vars PROVE AbstractNext
    OBVIOUS
  <2>1. CASE UNCHANGED disk_vars
    <3>1. ASSUME NEW t \in Thread PROVE AbstractOp(t)' = AbstractOp(t)
      BY <2>1 DEF disk_vars, lhd_vars, AbstractOp
    <3>2. UNCHANGED <<medium, Op>>
      BY <2>1, <3>1 DEF disk_vars, Op
    <3> QED BY <3>2 DEF AbstractNext
  <2> QED BY <2>1, DiskStepRefines
<1> QED BY <1>1, <1>2, DiskInvariant, PTL
        DEF DiskBehaviour, DiskAtomic, AtomicDisk!Spec, AbstractNext, Op

----------------------------------------------------------------------------
(* The console *)

ConLabels == {"idle", "put", "send", "wlock", "wnext", "wrelease", "rlock", "rnext", "get", "fetch",
              "rrelease"}
ConRecord == [pc : ConLabels, user : BOOLEAN, text : Seq(Char), chars : Seq(Char), n : Int, call : Nat]

ConTypes ==
    /\ attached \in BOOLEAN /\ delayed \in Seq(Char)
    /\ ls_wbusy \in BOOLEAN /\ wirq \in BOOLEAN /\ rirq \in BOOLEAN
    /\ tx \in PortChar \cup {NULL} /\ screen \in Seq(PortChar)
    /\ cs_wsem \in {0, 1} /\ cs_rsem \in Nat /\ cs_gotchar \in Nat
    /\ rlock \in Thread \cup {NULL} /\ wlock \in Thread \cup {NULL}
    /\ con \in [Thread -> ConRecord] /\ poll \in PollState \cup {NULL}
    /\ asked \in [Thread -> Seq(Char)]
    /\ keys \in Nat /\ got \in Seq(Nat) /\ rushed \in BOOLEAN

\* Before config_con nothing has happened but delayed output.
Unattached ==
    ~attached => /\ screen = <<>> /\ tx = NULL /\ poll = NULL /\ ~wirq /\ ~rirq /\ cs_rsem = 0
                 /\ wlock = NULL /\ keys = 0 /\ got = <<>>
                 /\ \A t \in Thread : con[t] = Quiet /\ asked[t] = <<>>

\* The port transmits or reports a character: the interrupt-driven one that makes the
\* driver busy, or the polled one, which gives that one's interrupt back.
PortOK ==
    /\ ~con_bad /\ (wirq => tx = NULL)
    /\ poll = NULL => (ls_wbusy <=> tx # NULL \/ wirq)
    /\ poll # NULL => /\ poll.irqpending = ls_wbusy
                      /\ poll.pc = "wait" => ls_wbusy /\ (tx # NULL \/ wirq)
                      /\ poll.pc = "send" => tx = NULL /\ ~wirq
                      /\ poll.pc = "spin" => tx # NULL \/ wirq

\* cs_wsem is a baton: the semaphore has it, one thread has it, or the port.
Sends(t) == con[t].pc = "send"
Baton ==
    /\ \A t, u \in Thread : Sends(t) /\ Sends(u) => t = u
    /\ \A t \in Thread : Sends(t) => cs_wsem = 0 /\ ~ls_wbusy
    /\ ls_wbusy => cs_wsem = 0
    /\ cs_wsem = 0 => ls_wbusy \/ \E t \in Thread : Sends(t)

\* A thread in putch has something to print, and a user's write has the lock.
Prints(t) == con[t].pc \in {"put", "send"}
Writes(t) == con[t].pc \in {"wnext", "wrelease"} \/ (Prints(t) /\ con[t].user)
ThreadsPrint ==
    \A t \in Thread : /\ Prints(t) <=> con[t].chars # <<>>
                      /\ Writes(t) <=> wlock = t
                      /\ con[t].pc \in {"wlock", "wnext"} => con[t].user

\* What reached the port is what was asked for, less what is still to be printed.
All == IF tx = NULL THEN screen ELSE Append(screen, tx)
UpTo(s, t, j) == {k \in 1..j : s[k].t = t}
Of(s, t) == {j \in DOMAIN s : s[j].t = t}
IsNth(s, t, i, j) == j \in DOMAIN s /\ s[j].t = t /\ Cardinality(UpTo(s, t, j)) = i
Numbered(s, t) == \A i \in 1..Cardinality(Of(s, t)) : \E j \in DOMAIN s : IsNth(s, t, i, j)
ShownOK == \A t \in Thread : Numbered(All, t) /\ Shown(t) \o con[t].chars = asked[t]

\* A user's call that has printed is over once another user has printed after it.
UserCall(e) ==
    /\ e.t \in Thread /\ e.call <= con[e.t].call
    /\ e.call = con[e.t].call => con[e.t].pc # "wlock" /\ (Prints(e.t) => con[e.t].user)
Over(e) == e.call < con[e.t].call \/ wlock # e.t
Together(s) ==
    \A i, j, k \in DOMAIN s :
        /\ i < j /\ j < k /\ s[i].t = s[k].t
        /\ s[i].by = "user" /\ s[j].by = "user" /\ s[i].call = s[k].call
        => s[j].t = s[i].t
UsersApart ==
    /\ \A i \in DOMAIN All : All[i].by = "user" => UserCall(All[i])
    /\ \A i, j \in DOMAIN All : i < j /\ All[i].by = "user" /\ All[j].by = "user" /\ All[i].t # All[j].t
                                   => Over(All[i])
    /\ Together(All)

\* Keys typed are read, about to be, counted by cs_rsem, in the port, or overwritten.
Fetchers == {t \in Thread : con[t].pc = "fetch"}
Unread == Cardinality(Fetchers) + cs_rsem + Ind(rirq)
KeysOK ==
    /\ rirq => rx = keys /\ keys >= 1
    /\ cs_gotchar <= keys /\ Len(got) + Unread <= keys
    /\ Fetchers # {} \/ cs_rsem > 0 => cs_gotchar >= 1
    /\ \A i \in DOMAIN got : 1 <= got[i] /\ got[i] <= cs_gotchar
    /\ \A i, j \in DOMAIN got : i < j => got[i] <= got[j]
    /\ ~rushed => /\ Len(got) + Unread = keys /\ Unread <= 1
                  /\ Fetchers # {} \/ cs_rsem > 0 => cs_gotchar = keys
                  /\ \A i \in DOMAIN got : got[i] = i

ConInv == ConTypes /\ Unattached /\ PortOK /\ Baton /\ ThreadsPrint /\ ShownOK /\ UsersApart /\ KeysOK

----------------------------------------------------------------------------
(* The characters of one thread among those of all *)

\* What a thread shows of a sequence of characters: Shown, of that sequence.
ShownOf(s, t) ==
    [i \in 1..Cardinality({j \in DOMAIN s : s[j].t = t}) |->
        LET nth == CHOOSE j \in DOMAIN s :
                     /\ s[j].t = t
                     /\ Cardinality({k \in 1..j : s[k].t = t}) = i
        IN s[nth].ch]

\* The positions of a thread are finitely many.
LEMMA PositionsFinite ==
    ASSUME NEW s \in Seq(PortChar), NEW t
    PROVE  /\ IsFiniteSet(Of(s, t)) /\ Cardinality(Of(s, t)) \in Nat
           /\ \A j \in DOMAIN s : IsFiniteSet(UpTo(s, t, j)) /\ Cardinality(UpTo(s, t, j)) \in Nat
<1>1. Len(s) \in Nat /\ DOMAIN s = 1..Len(s)
  OBVIOUS
<1>2. \A n \in Nat : IsFiniteSet(1..n)
  BY FS_Interval, 1 \in Int
<1>3. IsFiniteSet(Of(s, t))
  BY <1>1, <1>2, FS_Subset DEF Of
<1>4. \A j \in DOMAIN s : IsFiniteSet(UpTo(s, t, j))
  BY <1>1, <1>2, FS_Subset DEF UpTo
<1> QED BY <1>3, <1>4, FS_CardinalityType

\* A thread has one i-th character.
LEMMA NthUnique ==
    ASSUME NEW s \in Seq(PortChar), NEW t, NEW i, NEW j, NEW k, IsNth(s, t, i, j), IsNth(s, t, i, k)
    PROVE  j = k
<1>1. j \in DOMAIN s /\ k \in DOMAIN s /\ DOMAIN s = 1..Len(s) /\ Len(s) \in Nat
  BY DEF IsNth
<1>2. ASSUME NEW x \in DOMAIN s, NEW y \in DOMAIN s, x < y, s[y].t = t
      PROVE  Cardinality(UpTo(s, t, x)) # Cardinality(UpTo(s, t, y))
  <2>1. UpTo(s, t, x) \subseteq UpTo(s, t, y) /\ y \in UpTo(s, t, y) /\ y \notin UpTo(s, t, x)
    BY <1>1, <1>2 DEF UpTo
  <2>2. IsFiniteSet(UpTo(s, t, y))
    BY PositionsFinite
  <2>3. UpTo(s, t, x) # UpTo(s, t, y)
    BY <2>1
  <2> QED BY <2>1, <2>2, <2>3, FS_Subset
<1>3. CASE j < k
  BY <1>1, <1>2, <1>3 DEF IsNth
<1>4. CASE k < j
  BY <1>1, <1>2, <1>4 DEF IsNth
<1> QED BY <1>1, <1>3, <1>4

\* The i-th character that a thread shows.
LEMMA ShownIs ==
    ASSUME NEW s \in Seq(PortChar), NEW t, NEW i \in 1..Cardinality(Of(s, t)), NEW j, IsNth(s, t, i, j)
    PROVE  ShownOf(s, t)[i] = s[j].ch
<1>1. PICK nth : nth = CHOOSE k \in DOMAIN s : /\ s[k].t = t
                                               /\ Cardinality({l \in 1..k : s[l].t = t}) = i
  OBVIOUS
<1>2. IsNth(s, t, i, nth)
  BY <1>1 DEF IsNth, UpTo
<1>3. nth = j
  BY <1>2, NthUnique
<1> QED BY <1>1, <1>3 DEF ShownOf, Of

\* The type of what a thread shows.
LEMMA ShownType ==
    ASSUME NEW s \in Seq(PortChar), NEW t, Numbered(s, t)
    PROVE  /\ ShownOf(s, t) \in Seq(Char) /\ Len(ShownOf(s, t)) = Cardinality(Of(s, t))
           /\ DOMAIN ShownOf(s, t) = 1..Cardinality(Of(s, t))
<1>1. Cardinality(Of(s, t)) \in Nat
  BY PositionsFinite
<1>2. DOMAIN ShownOf(s, t) = 1..Cardinality(Of(s, t))
  BY DEF ShownOf, Of
<1>3. ASSUME NEW i \in 1..Cardinality(Of(s, t)) PROVE ShownOf(s, t)[i] \in Char
  <2>1. PICK j \in DOMAIN s : IsNth(s, t, i, j)
    BY DEF Numbered
  <2>2. ShownOf(s, t)[i] = s[j].ch
    BY <2>1, ShownIs
  <2>3. s[j] \in PortChar
    OBVIOUS
  <2> QED BY <2>2, <2>3 DEF PortChar
<1>4. PICK f : f = ShownOf(s, t)
  OBVIOUS
<1>5. f = [i \in 1..Cardinality(Of(s, t)) |-> f[i]]
  BY <1>4 DEF ShownOf, Of
<1>6. f \in [1..Cardinality(Of(s, t)) -> Char]
  BY <1>3, <1>4, <1>5
<1> QED BY <1>1, <1>2, <1>4, <1>6

\* One more character: its thread shows it last, the others show nothing more.
LEMMA ShownAppend ==
    ASSUME NEW s \in Seq(PortChar), NEW e \in PortChar, NEW t, Numbered(s, t)
    PROVE  /\ Numbered(Append(s, e), t)
           /\ ShownOf(Append(s, e), t) =
                 IF e.t = t THEN Append(ShownOf(s, t), e.ch) ELSE ShownOf(s, t)
<1>1. PICK q : q = Append(s, e)
  OBVIOUS
<1>2. /\ q \in Seq(PortChar) /\ Len(s) \in Nat /\ Len(q) = Len(s) + 1
      /\ DOMAIN s = 1..Len(s) /\ DOMAIN q = 1..(Len(s) + 1) /\ q[Len(s) + 1] = e
      /\ \A j \in 1..Len(s) : q[j] = s[j]
  BY <1>1
<1>3. \A j \in 1..Len(s) : UpTo(q, t, j) = UpTo(s, t, j)
  <2>1. TAKE j \in 1..Len(s)
  <2>2. 1..j \subseteq 1..Len(s)
    BY <1>2
  <2> QED BY <1>2, <2>2 DEF UpTo
<1>4. Of(q, t) = IF e.t = t THEN Of(s, t) \cup {Len(s) + 1} ELSE Of(s, t)
  BY <1>2 DEF Of
<1>5. Len(s) + 1 \notin Of(s, t) /\ IsFiniteSet(Of(s, t)) /\ Cardinality(Of(s, t)) \in Nat
  <2>1. Len(s) + 1 \notin Of(s, t)
    BY <1>2 DEF Of
  <2> QED BY <2>1, PositionsFinite
<1>6. Cardinality(Of(q, t)) = IF e.t = t THEN Cardinality(Of(s, t)) + 1 ELSE Cardinality(Of(s, t))
  BY <1>4, <1>5, FS_AddElement
<1>7. \A i, j : IsNth(s, t, i, j) => IsNth(q, t, i, j)
  BY <1>2, <1>3 DEF IsNth
<1>8. e.t = t => IsNth(q, t, Cardinality(Of(s, t)) + 1, Len(s) + 1)
  <2>1. UpTo(q, t, Len(s) + 1) = Of(q, t)
    BY <1>2 DEF UpTo, Of
  <2> QED BY <1>2, <1>6, <2>1 DEF IsNth
<1>9. Numbered(q, t)
  <2>1. ASSUME NEW i \in 1..Cardinality(Of(q, t)) PROVE \E j \in DOMAIN q : IsNth(q, t, i, j)
    <3>1. CASE i \in 1..Cardinality(Of(s, t))
      <4>1. PICK j \in DOMAIN s : IsNth(s, t, i, j)
        BY <3>1 DEF Numbered
      <4>2. j \in DOMAIN q
        BY <1>2
      <4> QED BY <1>7, <4>1, <4>2
    <3>2. CASE i \notin 1..Cardinality(Of(s, t))
      <4>1. e.t = t /\ i = Cardinality(Of(s, t)) + 1
        BY <1>5, <1>6, <3>2
      <4>2. Len(s) + 1 \in DOMAIN q
        BY <1>2
      <4> QED BY <1>8, <4>1, <4>2
    <3> QED BY <3>1, <3>2
  <2> QED BY <2>1 DEF Numbered
<1>10. \A i \in 1..Cardinality(Of(s, t)) : ShownOf(q, t)[i] = ShownOf(s, t)[i]
  <2>1. TAKE i \in 1..Cardinality(Of(s, t))
  <2>2. PICK j \in DOMAIN s : IsNth(s, t, i, j)
    BY DEF Numbered
  <2>3. ShownOf(s, t)[i] = s[j].ch
    BY <2>2, ShownIs
  <2>4. i \in 1..Cardinality(Of(q, t))
    BY <1>5, <1>6
  <2>5. ShownOf(q, t)[i] = q[j].ch
    BY <1>2, <1>7, <2>2, <2>4, ShownIs
  <2> QED BY <1>2, <2>3, <2>5
<1>11. /\ ShownOf(s, t) \in Seq(Char) /\ Len(ShownOf(s, t)) = Cardinality(Of(s, t))
       /\ DOMAIN ShownOf(s, t) = 1..Cardinality(Of(s, t))
       /\ ShownOf(q, t) \in Seq(Char) /\ Len(ShownOf(q, t)) = Cardinality(Of(q, t))
       /\ DOMAIN ShownOf(q, t) = 1..Cardinality(Of(q, t))
  BY <1>2, <1>9, ShownType
<1>12. PICK f \in Seq(Char), g \in Seq(Char) : f = ShownOf(s, t) /\ g = ShownOf(q, t)
  BY <1>11
<1>13. CASE e.t = t
  <2>1. g[Cardinality(Of(s, t)) + 1] = e.ch
    <3>1. Cardinality(Of(s, t)) + 1 \in 1..Cardinality(Of(q, t))
      BY <1>5, <1>6, <1>13
    <3> QED BY <1>2, <1>8, <1>12, <1>13, <3>1, ShownIs
  <2>2. Len(g) = Len(f) + 1 /\ (\A i \in 1..Len(f) : g[i] = f[i]) /\ g[Len(f) + 1] = e.ch
    BY <1>6, <1>10, <1>11, <1>12, <1>13, <2>1
  <2>3. e.ch \in Char
    BY DEF PortChar
  <2>4. g = Append(f, e.ch)
    BY <2>2, <2>3
  <2> QED BY <1>1, <1>9, <1>12, <1>13, <2>4
<1>14. CASE e.t # t
  <2>1. Len(g) = Len(f) /\ \A i \in 1..Len(f) : g[i] = f[i]
    BY <1>6, <1>10, <1>11, <1>12, <1>14
  <2>2. g = f
    BY <2>1
  <2> QED BY <1>1, <1>9, <1>12, <1>14, <2>2
<1> QED BY <1>13, <1>14

\* Nothing is shown at the beginning.
LEMMA ShownEmpty ==
    ASSUME NEW t
    PROVE  Numbered(<< >>, t) /\ ShownOf(<< >>, t) = << >>
<1>1. Of(<< >>, t) = {} /\ Cardinality({}) = 0
  BY FS_EmptySet DEF Of
<1>2. Cardinality(Of(<< >>, t)) = 0
  BY <1>1
<1>3. 1..Cardinality(Of(<< >>, t)) = {}
  BY <1>2
<1>4. ShownOf(<< >>, t) = << >>
  BY <1>3 DEF ShownOf, Of
<1> QED BY <1>3, <1>4 DEF Numbered

----------------------------------------------------------------------------
(* What the steps share *)

\* The constants, and a thread that does nothing.
LEMMA ConConstants ==
    /\ NULL \notin Thread /\ NULL \notin PortChar /\ NULL \notin PollState /\ Boot \in Thread
    /\ Quiet \in ConRecord /\ Quiet.pc = "idle" /\ Quiet.user = FALSE /\ Quiet.chars = << >>
    /\ Quiet.text = << >> /\ Quiet.call = 0 /\ Quiet.n = 0
<1>1. Quiet \in ConRecord
  BY DEF Quiet, ConRecord, ConLabels
<1> QED BY <1>1, NullIsNoThread, NullIsNoOutput, BootIsThread DEF Quiet

\* The characters that reached the port.
LEMMA AllShown ==
    ASSUME ConTypes
    PROVE  All \in Seq(PortChar) /\ \A t : Shown(t) = ShownOf(All, t)
<1>1. All \in Seq(PortChar)
  BY DEF All, ConTypes
<1>2. \A t : Shown(t) = ShownOf(All, t)
  BY DEF Shown, ShownOf, All
<1> QED BY <1>1, <1>2

\* One thread's step.
LEMMA ConStep ==
    ASSUME ConTypes, NEW t \in Thread, NEW r \in ConRecord, con' = [con EXCEPT ![t] = r]
    PROVE  /\ con' \in [Thread -> ConRecord] /\ con'[t] = r
           /\ \A u \in Thread \ {t} : con'[u] = con[u]
  BY DEF ConTypes

\* Keys are left alone by a step that leaves alone where they are.
LEMMA KeysFrame ==
    ASSUME KeysOK, UNCHANGED <<rirq, rx, keys, cs_gotchar, got, rushed, cs_rsem>>,
           \A u \in Thread : con'[u].pc = "fetch" <=> con[u].pc = "fetch"
    PROVE  KeysOK'
<1>1. Fetchers' = Fetchers
  BY DEF Fetchers
<1>2. Unread' = Unread
  BY <1>1 DEF Unread
<1> QED BY <1>1, <1>2 DEF KeysOK

\* The baton stays where it is.
LEMMA BatonFrame ==
    ASSUME Baton, UNCHANGED <<cs_wsem, ls_wbusy>>,
           \A u \in Thread : con'[u].pc = "send" <=> con[u].pc = "send"
    PROVE  Baton'
  BY DEF Baton, Sends

\* Nothing reaches the port: what a thread asks for is what it has to print.
LEMMA ShownFrame ==
    ASSUME ConTypes, ConTypes', ShownOK, All' = All,
           \A u \in Thread : \/ con'[u].chars = con[u].chars /\ asked'[u] = asked[u]
                             \/ con[u].chars = << >> /\ asked'[u] = asked[u] \o con'[u].chars
    PROVE  ShownOK'
<1> SUFFICES ASSUME NEW u \in Thread
             PROVE  Numbered(All, u)' /\ Shown(u)' \o con'[u].chars = asked'[u]
  BY DEF ShownOK
<1>2. Numbered(All, u) /\ Shown(u) \o con[u].chars = asked[u]
  BY DEF ShownOK
<1>3. Shown(u)' = Shown(u) /\ Shown(u) = ShownOf(All, u) /\ All \in Seq(PortChar)
  <2>1. Shown(u) = ShownOf(All, u) /\ All \in Seq(PortChar)
    BY AllShown
  <2>2. Shown(u)' = ShownOf(All, u)'
    BY DEF Shown, ShownOf, All
  <2> QED BY <2>1, <2>2 DEF ShownOf
<1>4. Numbered(All, u)'
  BY <1>2 DEF Numbered, Of, IsNth, UpTo
<1>5. Shown(u) \in Seq(Char) /\ con[u].chars \in Seq(Char) /\ con'[u].chars \in Seq(Char)
  BY <1>2, <1>3, ShownType DEF ConTypes, ConRecord
<1>6. CASE con'[u].chars = con[u].chars /\ asked'[u] = asked[u]
  BY <1>2, <1>3, <1>4, <1>6
<1>7. CASE con[u].chars = << >> /\ asked'[u] = asked[u] \o con'[u].chars
  <2>1. PICK f \in Seq(Char) : f = Shown(u)
    BY <1>5
  <2>2. f \o << >> = f
    OBVIOUS
  <2>3. asked[u] = f
    BY <1>2, <1>7, <2>1, <2>2
  <2> QED BY <1>3, <1>4, <1>7, <2>1, <2>3
<1> QED BY <1>6, <1>7

\* What a step does to the calls, whether or not a character reaches the port.
CallsGoOn ==
    \A u \in Thread :
       /\ con'[u].call >= con[u].call
       /\ con'[u].call = con[u].call =>
            /\ con'[u].pc = "wlock" => con[u].pc = "wlock"
            /\ con'[u].pc \in {"put", "send"} /\ ~con'[u].user =>
                  con[u].pc \in {"put", "send"} /\ ~con[u].user
       /\ wlock' = u => wlock = u \/ con'[u].call > con[u].call \/ con[u].pc = "wlock"

\* A user's call that has printed goes on, and one that is over stays so.
LEMMA EntryKept ==
    ASSUME ConTypes, ConTypes', CallsGoOn, NEW e \in PortChar, UserCall(e)
    PROVE  UserCall(e)' /\ (Over(e) => Over(e)')
<1>1. e.t \in Thread /\ e.call \in Nat
  BY DEF UserCall, PortChar
<1>2. con[e.t].call \in Nat /\ con'[e.t].call \in Nat
  BY <1>1 DEF ConTypes, ConRecord
<1>3. con[e.t].user \in BOOLEAN /\ con'[e.t].user \in BOOLEAN
  BY <1>1 DEF ConTypes, ConRecord
<1>4. e.call <= con[e.t].call /\ con[e.t].call <= con'[e.t].call
  BY <1>1, <1>2 DEF UserCall, CallsGoOn
<1>5. e.call <= con'[e.t].call /\ (e.call = con'[e.t].call => e.call = con[e.t].call)
  BY <1>1, <1>2, <1>4
<1>6. e.call = con'[e.t].call =>
         con'[e.t].pc # "wlock" /\ (con'[e.t].pc \in {"put", "send"} => con'[e.t].user)
  BY <1>1, <1>3, <1>5 DEF UserCall, Prints, CallsGoOn
<1>7. Over(e) => e.call < con'[e.t].call \/ wlock' # e.t
  <2>1. ASSUME e.call < con[e.t].call PROVE e.call < con'[e.t].call
    BY <1>1, <1>2, <1>4, <2>1
  <2>2. ASSUME wlock' = e.t, wlock # e.t PROVE e.call < con'[e.t].call
    <3>1. CASE con'[e.t].call > con[e.t].call
      BY <1>1, <1>2, <1>4, <3>1
    <3>2. CASE con[e.t].pc = "wlock"
      <4>1. e.call # con[e.t].call
        BY <3>2 DEF UserCall
      <4> QED BY <1>1, <1>2, <1>4, <4>1
    <3> QED BY <1>1, <2>2, <3>1, <3>2 DEF CallsGoOn
  <2> QED BY <2>1, <2>2 DEF Over
<1> QED BY <1>1, <1>5, <1>6, <1>7 DEF UserCall, Over, Prints

\* Nothing reaches the port: calls go on to be over.
LEMMA UsersFrame ==
    ASSUME ConTypes, ConTypes', UsersApart, All' = All, CallsGoOn
    PROVE  UsersApart'
<1>1. All \in Seq(PortChar)
  BY AllShown
<1>2. ASSUME NEW i \in DOMAIN All, All[i].by = "user"
      PROVE  UserCall(All[i])' /\ (Over(All[i]) => Over(All[i])')
  <2>1. PICK e \in PortChar : e = All[i]
    BY <1>1
  <2>2. UserCall(e)
    BY <1>2, <2>1 DEF UsersApart
  <2>3. UserCall(e)' /\ (Over(e) => Over(e)')
    BY <2>2, EntryKept
  <2>4. All'[i] = e
    BY <2>1
  <2> QED BY <2>1, <2>3, <2>4 DEF UserCall, Over, Prints
<1>3. \A i \in DOMAIN All' : All'[i].by = "user" => UserCall(All[i])'
  BY <1>2
<1>4. \A i, j \in DOMAIN All' : i < j /\ All'[i].by = "user" /\ All'[j].by = "user" /\ All'[i].t # All'[j].t
                                   => Over(All[i])'
  BY <1>2 DEF UsersApart
<1>5. Together(All)'
  BY DEF UsersApart, Together
<1> QED BY <1>3, <1>4, <1>5 DEF UsersApart

\* A step of t that has nothing to do with the port or with keys: it asks for output,
\* takes or releases a lock, or goes from one part of a call to the next.
LEMMA CallStep ==
    ASSUME ConInv, attached, NEW t \in Thread, NEW r \in ConRecord, con' = [con EXCEPT ![t] = r],
           UNCHANGED <<attached, delayed, port_vars, poll, key_vars, con_bad>>,
           rlock' \in Thread \cup {NULL}, wlock' \in Thread \cup {NULL},
           con[t].pc \notin {"put", "send", "fetch"}, r.pc \notin {"send", "fetch"},
           asked' = [asked EXCEPT ![t] = @ \o r.chars],
           r.pc = "put" <=> r.chars # << >>, r.pc \in {"wlock", "wnext"} => r.user,
           r.pc \in {"wnext", "wrelease"} \/ (r.pc = "put" /\ r.user) <=> wlock' = t,
           \A u \in Thread \ {t} : wlock' = u <=> wlock = u,
           \/ r.call > con[t].call
           \/ /\ r.call = con[t].call /\ r.pc # "wlock" /\ (r.pc = "put" => r.user)
              /\ wlock' = t => wlock = t \/ con[t].pc = "wlock"
    PROVE  ConInv'
<1>1. /\ ConTypes /\ Unattached /\ PortOK /\ Baton /\ ThreadsPrint /\ ShownOK /\ UsersApart /\ KeysOK
      /\ UNCHANGED <<ls_wbusy, wirq, rirq, tx, rx, screen, cs_wsem, cs_rsem, cs_gotchar, keys, got, rushed>>
  BY DEF ConInv, port_vars, key_vars
<1>2. /\ con' \in [Thread -> ConRecord] /\ con'[t] = r
      /\ \A u \in Thread \ {t} : con'[u] = con[u]
  BY <1>1, ConStep
<1>3. /\ asked' \in [Thread -> Seq(Char)] /\ asked'[t] = asked[t] \o r.chars
      /\ \A u \in Thread \ {t} : asked'[u] = asked[u]
  <2>1. asked[t] \in Seq(Char) /\ r.chars \in Seq(Char) /\ asked \in [Thread -> Seq(Char)]
    BY <1>1 DEF ConTypes, ConRecord
  <2>2. asked[t] \o r.chars \in Seq(Char)
    BY <2>1
  <2> QED BY <2>1, <2>2
<1>4. ConTypes'
  BY <1>1, <1>2, <1>3 DEF ConTypes
<1>5. Unattached'
  BY DEF Unattached
<1>6. PortOK'
  BY <1>1 DEF PortOK
<1>7. Baton'
  BY <1>1, <1>2, BatonFrame
<1>8. ThreadsPrint'
  <2>1. ASSUME NEW u \in Thread \ {t}
        PROVE  /\ (Prints(u)' <=> con'[u].chars # << >>) /\ (Writes(u)' <=> wlock' = u)
               /\ con'[u].pc \in {"wlock", "wnext"} => con'[u].user
    BY <1>1, <1>2, <2>1 DEF ThreadsPrint, Prints, Writes
  <2>2. /\ (Prints(t)' <=> con'[t].chars # << >>) /\ (Writes(t)' <=> wlock' = t)
        /\ con'[t].pc \in {"wlock", "wnext"} => con'[t].user
    BY <1>2 DEF Prints, Writes
  <2> QED BY <2>1, <2>2 DEF ThreadsPrint
<1>9. All' = All
  BY <1>1 DEF All
<1>10. con[t].chars = << >>
  BY <1>1 DEF ThreadsPrint, Prints
<1>11. ShownOK'
  BY <1>1, <1>2, <1>3, <1>4, <1>9, <1>10, ShownFrame
<1>12. UsersApart'
  <2>1. ASSUME NEW u \in Thread
        PROVE  /\ con'[u].call >= con[u].call
               /\ con'[u].call = con[u].call =>
                    /\ con'[u].pc = "wlock" => con[u].pc = "wlock"
                    /\ con'[u].pc \in {"put", "send"} /\ ~con'[u].user =>
                          con[u].pc \in {"put", "send"} /\ ~con[u].user
               /\ wlock' = u => wlock = u \/ con'[u].call > con[u].call \/ con[u].pc = "wlock"
    <3>1. con[u].call \in Nat /\ con'[u].call \in Nat
      BY <1>1, <1>2 DEF ConTypes, ConRecord
    <3>2. CASE u # t
      BY <1>2, <3>1, <3>2
    <3>3. CASE u = t /\ r.call > con[t].call
      BY <1>2, <3>1, <3>3
    <3>4. CASE u = t /\ ~(r.call > con[t].call)
      BY <1>2, <3>1, <3>4
    <3> QED BY <3>2, <3>3, <3>4
  <2>2. CallsGoOn
    BY <2>1 DEF CallsGoOn
  <2> QED BY <1>1, <1>4, <1>9, <2>2, UsersFrame
<1>13. KeysOK'
  BY <1>1, <1>2, KeysFrame
<1> QED BY <1>4, <1>5, <1>6, <1>7, <1>8, <1>11, <1>12, <1>13 DEF ConInv

----------------------------------------------------------------------------
(* The calls of threads *)

\* The characters that the console is given at once.
LEMMA CharLists ==
    /\ \A ch \in Char : <<ch>> \in Seq(Char) /\ <<ch>> # << >>
    /\ <<"cr", "lf">> \in Seq(Char) /\ <<"cr", "lf">> # << >>
<1>1. "cr" \in Char /\ "lf" \in Char
  BY DEF Char
<1>2. \A x, y \in Char : <<x, y>> \in Seq(Char) /\ <<x, y>> # << >>
  OBVIOUS
<1>3. \A x \in Char : <<x>> \in Seq(Char) /\ <<x>> # << >>
  OBVIOUS
<1> QED BY <1>1, <1>2, <1>3

\* A step that asks for nothing.
LEMMA AskedSame ==
    ASSUME ConTypes, NEW t \in Thread, asked' = asked
    PROVE  asked' = [asked EXCEPT ![t] = @ \o << >>]
<1>1. asked \in [Thread -> Seq(Char)] /\ asked[t] \in Seq(Char)
  BY DEF ConTypes
<1>2. asked[t] \o << >> = asked[t]
  BY <1>1
<1> QED BY <1>1, <1>2

\* A new call: putch, getch, con_io.
LEMMA CallsInv ==
    ASSUME ConInv, NEW t \in Thread, NEW q \in ConRecord, Calls(t, q),
           UNCHANGED <<attached, delayed, port_vars, rlock, wlock, poll, key_vars, con_bad>>,
           asked' = [asked EXCEPT ![t] = @ \o q.chars],
           q.pc \in {"put", "wlock", "rlock", "get"}, q.pc = "put" <=> q.chars # << >>,
           q.pc = "put" => ~q.user, q.pc = "wlock" => q.user
    PROVE  ConInv'
<1>1. /\ ConTypes /\ ThreadsPrint /\ attached /\ con[t].pc = "idle" /\ con[t] \in ConRecord
      /\ con' = [con EXCEPT ![t] = [q EXCEPT !.call = con[t].call + 1]]
  BY DEF ConInv, Calls, Go, ConTypes
<1>2. PICK r : r = [q EXCEPT !.call = con[t].call + 1]
  OBVIOUS
<1>3. con[t].call \in Nat /\ con[t].call + 1 \in Nat
  BY <1>1 DEF ConRecord
<1>4. /\ r \in ConRecord /\ r.pc = q.pc /\ r.user = q.user /\ r.chars = q.chars
      /\ r.call = con[t].call + 1
  BY <1>2, <1>3 DEF ConRecord
<1>5. r.call > con[t].call
  BY <1>3, <1>4
<1>6. wlock # t
  BY <1>1 DEF ThreadsPrint, Writes, Prints
<1>7. rlock' \in Thread \cup {NULL} /\ wlock' \in Thread \cup {NULL} /\ wlock' = wlock
  BY <1>1 DEF ConTypes
<1>8. con' = [con EXCEPT ![t] = r]
  BY <1>1, <1>2
<1>9. /\ r.pc \notin {"send", "fetch"} /\ (r.pc = "put" <=> r.chars # << >>)
      /\ (r.pc \in {"wlock", "wnext"} => r.user)
      /\ ~(r.pc \in {"wnext", "wrelease"} \/ (r.pc = "put" /\ r.user))
      /\ con[t].pc \notin {"put", "send", "fetch"}
  BY <1>1, <1>4
<1>10. asked' = [asked EXCEPT ![t] = @ \o r.chars]
  BY <1>4
<1>11. /\ UNCHANGED <<attached, delayed, port_vars, poll, key_vars, con_bad>>
       /\ (r.pc \in {"wnext", "wrelease"} \/ (r.pc = "put" /\ r.user) <=> wlock' = t)
       /\ \A u \in Thread \ {t} : wlock' = u <=> wlock = u
  BY <1>6, <1>7, <1>9
<1> QED BY <1>1, <1>4, <1>5, <1>7, <1>8, <1>9, <1>10, <1>11, CallStep

\* putch, con_io and getch begin.
LEMMA ConsoleCallInv ==
    ASSUME ConInv, NEW t \in Thread, ConsoleCall(t)
    PROVE  ConInv'
<1>1. ConTypes
  BY DEF ConInv
<1>2. CASE putch(t, "k")
  <2>1. PICK q : q = [Quiet EXCEPT !.pc = "put", !.chars = <<"k">>]
    OBVIOUS
  <2>2. q \in ConRecord /\ q.pc = "put" /\ q.user = FALSE /\ q.chars = <<"k">>
    <3>1. q = [pc |-> "put", user |-> FALSE, text |-> << >>, chars |-> <<"k">>, n |-> 0, call |-> 0]
      BY <2>1 DEF Quiet
    <3>2. <<"k">> \in Seq(Char)
      BY CharLists DEF Char
    <3> QED BY <3>1, <3>2 DEF ConRecord, ConLabels
  <2>3. asked' = [asked EXCEPT ![t] = @ \o <<"k">>]
    <3>1. asked[t] \in Seq(Char) /\ "k" \in Char
      BY <1>1 DEF ConTypes, Char
    <3>2. Append(asked[t], "k") = asked[t] \o <<"k">>
      BY <3>1
    <3> QED BY <1>2, <3>2 DEF putch
  <2>4. <<"k">> # << >>
    OBVIOUS
  <2>5. /\ Calls(t, q)
        /\ UNCHANGED <<attached, delayed, port_vars, rlock, wlock, poll, key_vars, con_bad>>
    BY <1>2, <2>1 DEF putch
  <2> QED BY <2>2, <2>3, <2>4, <2>5, CallsInv
<1>3. CASE getch(t)
  <2>1. PICK q : q = [Quiet EXCEPT !.pc = "get"]
    OBVIOUS
  <2>2. q \in ConRecord /\ q.pc = "get" /\ q.chars = << >>
    BY <2>1, ConConstants DEF ConRecord, ConLabels
  <2>3. /\ Calls(t, q) /\ asked' = asked
        /\ UNCHANGED <<attached, delayed, port_vars, rlock, wlock, poll, key_vars, con_bad>>
    BY <1>3, <2>1 DEF getch
  <2>4. asked' = [asked EXCEPT ![t] = @ \o q.chars]
    BY <1>1, <2>2, <2>3, AskedSame
  <2> QED BY <2>2, <2>3, <2>4, CallsInv
<1>4. ASSUME NEW text \in Text, con_write(t, text) PROVE ConInv'
  <2>1. PICK q : q = [Quiet EXCEPT !.pc = "wlock", !.user = TRUE, !.text = text]
    OBVIOUS
  <2>2. q \in ConRecord /\ q.pc = "wlock" /\ q.chars = << >> /\ q.user
    <3>1. text \in Seq(Char)
      BY <1>4, UserRequests
    <3>2. q = [pc |-> "wlock", user |-> TRUE, text |-> text, chars |-> << >>, n |-> 0, call |-> 0]
      BY <2>1 DEF Quiet
    <3> QED BY <3>1, <3>2 DEF ConRecord, ConLabels
  <2>3. /\ Calls(t, q) /\ asked' = asked
        /\ UNCHANGED <<attached, delayed, port_vars, rlock, wlock, poll, key_vars, con_bad>>
    BY <1>4, <2>1 DEF con_write
  <2>4. asked' = [asked EXCEPT ![t] = @ \o q.chars]
    BY <1>1, <2>2, <2>3, AskedSame
  <2> QED BY <2>2, <2>3, <2>4, CallsInv
<1>5. ASSUME NEW n \in ReadSize, con_read(t, n) PROVE ConInv'
  <2>1. PICK q : q = [Quiet EXCEPT !.pc = "rlock", !.user = TRUE, !.n = n]
    OBVIOUS
  <2>2. q \in ConRecord /\ q.pc = "rlock" /\ q.chars = << >>
    <3>1. q = [pc |-> "rlock", user |-> TRUE, text |-> << >>, chars |-> << >>, n |-> n, call |-> 0]
      BY <2>1 DEF Quiet
    <3>2. n \in Int
      BY <1>5, UserRequests
    <3> QED BY <3>1, <3>2 DEF ConRecord, ConLabels
  <2>3. /\ Calls(t, q) /\ asked' = asked
        /\ UNCHANGED <<attached, delayed, port_vars, rlock, wlock, poll, key_vars, con_bad>>
    BY <1>5, <2>1 DEF con_read
  <2>4. asked' = [asked EXCEPT ![t] = @ \o q.chars]
    BY <1>1, <2>2, <2>3, AskedSame
  <2> QED BY <2>2, <2>3, <2>4, CallsInv
<1> QED BY <1>2, <1>3, <1>4, <1>5 DEF ConsoleCall

\* A thread in a call shows that the console is there.
LEMMA InCall ==
    ASSUME ConInv, NEW t \in Thread, con[t].pc # "idle"
    PROVE  attached
  BY ConConstants DEF ConInv, Unattached

\* lock_acquire in con_io.
LEMMA ConAcquireInv ==
    ASSUME ConInv, NEW t \in Thread, con_acquire(t)
    PROVE  ConInv'
<1>1. /\ ConTypes /\ ThreadsPrint /\ con[t] \in ConRecord /\ con[t].pc \in {"wlock", "rlock"}
      /\ asked' = asked /\ UNCHANGED <<attached, delayed, port_vars, poll, key_vars, con_bad>>
  BY DEF ConInv, con_acquire, ConTypes
<1>2. attached /\ con[t].chars = << >> /\ wlock # t
  BY <1>1, InCall DEF ThreadsPrint, Prints, Writes
<1>3. asked' = [asked EXCEPT ![t] = @ \o << >>]
  BY <1>1, AskedSame
<1>4. CASE /\ con[t].pc = "wlock" /\ wlock = NULL /\ wlock' = t /\ rlock' = rlock
           /\ Go(t, [con[t] EXCEPT !.pc = "wnext"])
  <2>1. PICK r : r = [con[t] EXCEPT !.pc = "wnext"]
    OBVIOUS
  <2>2. /\ r \in ConRecord /\ r.pc = "wnext" /\ r.call = con[t].call /\ r.chars = << >>
        /\ r.user = con[t].user
    BY <1>1, <1>2, <2>1 DEF ConRecord, ConLabels
  <2>3. con' = [con EXCEPT ![t] = r] /\ rlock' \in Thread \cup {NULL}
    BY <1>1, <1>4, <2>1 DEF Go, ConTypes
  <2>4. \A u \in Thread \ {t} : wlock' = u <=> wlock = u
    BY <1>4, ConConstants
  <2>5. con[t].user
    BY <1>1, <1>4 DEF ThreadsPrint
  <2> QED BY <1>1, <1>2, <1>3, <1>4, <2>2, <2>3, <2>4, <2>5, CallStep
<1>5. CASE /\ con[t].pc = "rlock" /\ rlock' = t /\ wlock' = wlock
           /\ Go(t, [con[t] EXCEPT !.pc = "rnext"])
  <2>1. PICK r : r = [con[t] EXCEPT !.pc = "rnext"]
    OBVIOUS
  <2>2. r \in ConRecord /\ r.pc = "rnext" /\ r.call = con[t].call /\ r.chars = << >>
    BY <1>1, <1>2, <2>1 DEF ConRecord, ConLabels
  <2>3. con' = [con EXCEPT ![t] = r] /\ wlock' \in Thread \cup {NULL}
    BY <1>1, <1>5, <2>1 DEF Go, ConTypes
  <2> QED BY <1>1, <1>2, <1>3, <1>5, <2>2, <2>3, CallStep
<1> QED BY <1>4, <1>5 DEF con_acquire

\* A user's next character.
LEMMA ConWnextInv ==
    ASSUME ConInv, NEW t \in Thread, con_wnext(t)
    PROVE  ConInv'
<1>1. /\ ConTypes /\ ThreadsPrint /\ con[t] \in ConRecord /\ con[t].pc = "wnext"
      /\ UNCHANGED <<attached, delayed, port_vars, rlock, wlock, poll, key_vars, con_bad>>
      /\ rlock' \in Thread \cup {NULL} /\ wlock' \in Thread \cup {NULL} /\ wlock' = wlock
  BY DEF ConInv, con_wnext, ConTypes
<1>2. attached /\ con[t].chars = << >> /\ wlock = t
  BY <1>1, InCall DEF ThreadsPrint, Prints, Writes
<1>3. CASE Go(t, [con[t] EXCEPT !.pc = "wrelease", !.text = <<>>]) /\ asked' = asked
  <2>1. PICK r : r = [con[t] EXCEPT !.pc = "wrelease", !.text = <<>>]
    OBVIOUS
  <2>2. r \in ConRecord /\ r.pc = "wrelease" /\ r.call = con[t].call /\ r.chars = << >>
    BY <1>1, <1>2, <2>1 DEF ConRecord, ConLabels
  <2>3. con' = [con EXCEPT ![t] = r] /\ asked' = [asked EXCEPT ![t] = @ \o << >>]
    BY <1>1, <1>3, <2>1, AskedSame DEF Go
  <2> QED BY <1>1, <1>2, <2>2, <2>3, CallStep
<1>4. ASSUME NEW chars, con[t].text # <<>>,
             chars = IF Head(con[t].text) = "lf" THEN <<"cr", "lf">> ELSE <<Head(con[t].text)>>,
             Go(t, [con[t] EXCEPT !.pc = "put", !.text = Tail(@), !.chars = chars]),
             asked' = [asked EXCEPT ![t] = @ \o chars]
      PROVE  ConInv'
  <2>1. con[t].text \in Seq(Char)
    BY <1>1 DEF ConRecord
  <2>2. Head(con[t].text) \in Char /\ Tail(con[t].text) \in Seq(Char)
    BY <1>4, <2>1
  <2>3. chars \in Seq(Char) /\ chars # << >>
    BY <1>4, <2>2, CharLists
  <2>4. PICK r : r = [con[t] EXCEPT !.pc = "put", !.text = Tail(@), !.chars = chars]
    OBVIOUS
  <2>5. /\ r \in ConRecord /\ r.pc = "put" /\ r.call = con[t].call /\ r.chars = chars
        /\ r.user = con[t].user
    BY <1>1, <2>2, <2>3, <2>4 DEF ConRecord, ConLabels
  <2>6. con' = [con EXCEPT ![t] = r]
    BY <1>4, <2>4 DEF Go
  <2>7. con[t].user
    BY <1>1 DEF ThreadsPrint
  <2> QED BY <1>1, <1>2, <1>4, <2>3, <2>5, <2>6, <2>7, CallStep
<1> QED BY <1>3, <1>4 DEF con_wnext

\* lock_release in con_io.
LEMMA ConReleaseInv ==
    ASSUME ConInv, NEW t \in Thread, con_release(t)
    PROVE  ConInv'
<1>1. /\ ConTypes /\ ThreadsPrint /\ con[t] \in ConRecord /\ con[t].pc \in {"wrelease", "rrelease"}
      /\ asked' = asked /\ UNCHANGED <<attached, delayed, port_vars, poll, key_vars, con_bad>>
      /\ con' = [con EXCEPT ![t] = [Quiet EXCEPT !.call = con[t].call]]
  BY DEF ConInv, con_release, ConTypes, Go
<1>2. attached /\ (wlock = t <=> con[t].pc = "wrelease")
  BY <1>1, InCall DEF ThreadsPrint, Prints, Writes
<1>3. PICK r : r = [Quiet EXCEPT !.call = con[t].call]
  OBVIOUS
<1>4. r \in ConRecord /\ r.pc = "idle" /\ r.call = con[t].call /\ r.chars = << >>
  <2>1. con[t].call \in Nat
    BY <1>1 DEF ConRecord
  <2> QED BY <1>3, <2>1, ConConstants DEF ConRecord
<1>5. con' = [con EXCEPT ![t] = r] /\ asked' = [asked EXCEPT ![t] = @ \o << >>]
  BY <1>1, <1>3, AskedSame
<1>6. /\ rlock' \in Thread \cup {NULL} /\ wlock' \in Thread \cup {NULL}
      /\ wlock' # t /\ \A u \in Thread \ {t} : wlock' = u <=> wlock = u
  BY <1>1, <1>2, ConConstants DEF con_release, ConTypes
<1> QED BY <1>1, <1>2, <1>4, <1>5, <1>6, CallStep

\* A user's read goes on or ends.
LEMMA ConRnextInv ==
    ASSUME ConInv, NEW t \in Thread, con_rnext(t)
    PROVE  ConInv'
<1>1. /\ ConTypes /\ ThreadsPrint /\ con[t] \in ConRecord /\ con[t].pc = "rnext"
      /\ asked' = asked
      /\ UNCHANGED <<attached, delayed, port_vars, rlock, wlock, poll, key_vars, con_bad>>
      /\ rlock' \in Thread \cup {NULL} /\ wlock' \in Thread \cup {NULL} /\ wlock' = wlock
  BY DEF ConInv, con_rnext, ConTypes
<1>2. attached /\ con[t].chars = << >> /\ wlock # t
  BY <1>1, InCall DEF ThreadsPrint, Prints, Writes
<1>3. PICK p \in {"get", "rrelease"} : con' = [con EXCEPT ![t] = [con[t] EXCEPT !.pc = p]]
  BY DEF con_rnext, Go
<1>4. PICK r : r = [con[t] EXCEPT !.pc = p]
  OBVIOUS
<1>5. r \in ConRecord /\ r.pc = p /\ r.call = con[t].call /\ r.chars = << >>
  BY <1>1, <1>2, <1>3, <1>4 DEF ConRecord, ConLabels
<1>6. con' = [con EXCEPT ![t] = r] /\ asked' = [asked EXCEPT ![t] = @ \o << >>]
  BY <1>1, <1>3, <1>4, AskedSame
<1> QED BY <1>1, <1>2, <1>5, <1>6, CallStep

\* A step of t in the middle of putch or getch.
LEMMA MidCallStep ==
    ASSUME ConInv, ConTypes', NEW t \in Thread, NEW r \in ConRecord, con' = [con EXCEPT ![t] = r],
           UNCHANGED <<tx, screen, wlock, asked>>,
           r.chars = con[t].chars, r.user = con[t].user, r.call = con[t].call,
           r.pc \in {"put", "send"} <=> con[t].pc \in {"put", "send"},
           r.pc \notin {"wnext", "wrelease", "wlock"}, con[t].pc \notin {"wnext", "wrelease"}
    PROVE  ThreadsPrint' /\ ShownOK' /\ UsersApart'
<1>1. ConTypes /\ ThreadsPrint /\ ShownOK /\ UsersApart
  BY DEF ConInv
<1>2. /\ con'[t] = r /\ \A u \in Thread \ {t} : con'[u] = con[u]
  BY <1>1, ConStep
<1>3. All' = All
  BY DEF All
<1>4. ThreadsPrint'
  BY <1>1, <1>2 DEF ThreadsPrint, Prints, Writes
<1>5. ShownOK'
  BY <1>1, <1>2, <1>3, ShownFrame
<1>6. CallsGoOn
  <2>1. \A u \in Thread : con[u].call \in Nat /\ con'[u].call = con[u].call
    BY <1>1, <1>2 DEF ConTypes, ConRecord
  <2> QED BY <1>2, <2>1 DEF CallsGoOn
<1>7. UsersApart'
  BY <1>1, <1>3, <1>6, UsersFrame
<1> QED BY <1>4, <1>5, <1>7

\* P(cs_wsem): the thread takes the baton.
LEMMA PutchIntrInv ==
    ASSUME ConInv, NEW t \in Thread, putch_intr(t)
    PROVE  ConInv'
<1>1. /\ ConTypes /\ Unattached /\ PortOK /\ Baton /\ ThreadsPrint /\ KeysOK /\ con[t] \in ConRecord
      /\ con[t].pc = "put" /\ cs_wsem > 0 /\ cs_wsem' = cs_wsem - 1
      /\ con' = [con EXCEPT ![t] = [con[t] EXCEPT !.pc = "send"]]
      /\ UNCHANGED <<attached, delayed, ls_wbusy, wirq, rirq, tx, rx, screen, cs_rsem, cs_gotchar,
                     rlock, wlock, poll, asked, keys, got, rushed, con_bad>>
  BY DEF ConInv, putch_intr, ConTypes, Go, key_vars
<1>2. attached
  BY <1>1, InCall
<1>3. PICK r : r = [con[t] EXCEPT !.pc = "send"]
  OBVIOUS
<1>4. /\ r \in ConRecord /\ r.pc = "send" /\ r.user = con[t].user /\ r.chars = con[t].chars
      /\ r.call = con[t].call
  BY <1>1, <1>3 DEF ConRecord, ConLabels
<1>5. con' = [con EXCEPT ![t] = r]
  BY <1>1, <1>3
<1>6. /\ con' \in [Thread -> ConRecord] /\ con'[t] = r
      /\ \A u \in Thread \ {t} : con'[u] = con[u]
  BY <1>1, <1>4, <1>5, ConStep
<1>7. cs_wsem = 1 /\ cs_wsem' = 0
  BY <1>1 DEF ConTypes
<1>8. ConTypes'
  BY <1>1, <1>6, <1>7 DEF ConTypes
<1>9. ThreadsPrint' /\ ShownOK' /\ UsersApart'
  BY <1>1, <1>4, <1>5, <1>8, MidCallStep
<1>10. Unattached' /\ PortOK'
  BY <1>1, <1>2 DEF Unattached, PortOK
<1>11. Baton'
  BY <1>1, <1>4, <1>6, <1>7 DEF Baton, Sends
<1>12. KeysOK'
  BY <1>1, <1>4, <1>6, KeysFrame
<1> QED BY <1>8, <1>9, <1>10, <1>11, <1>12 DEF ConInv

\* Where the unread keys are counted.
LEMMA UnreadNat ==
    ASSUME ConTypes
    PROVE  /\ IsFiniteSet(Fetchers) /\ Cardinality(Fetchers) \in Nat /\ Ind(rirq) \in {0, 1}
           /\ Unread \in Nat /\ cs_rsem \in Nat /\ Len(got) \in Nat
           /\ Fetchers = {} <=> Cardinality(Fetchers) = 0
<1>1. IsFiniteSet(Fetchers) /\ Cardinality(Fetchers) \in Nat
  BY ThreadsFinite, FS_Subset, FS_CardinalityType DEF Fetchers
<1>2. Ind(rirq) \in {0, 1}
  BY DEF Ind
<1>3. cs_rsem \in Nat /\ Len(got) \in Nat
  BY DEF ConTypes
<1> QED BY <1>1, <1>2, <1>3, FS_EmptySet DEF Unread

\* P(cs_rsem): a key that was counted is now about to be read.
LEMMA GetchIntrInv ==
    ASSUME ConInv, NEW t \in Thread, getch_intr(t)
    PROVE  ConInv'
<1>1. /\ ConTypes /\ Unattached /\ PortOK /\ Baton /\ ThreadsPrint /\ KeysOK /\ con[t] \in ConRecord
      /\ con[t].pc = "get" /\ cs_rsem > 0 /\ cs_rsem' = cs_rsem - 1
      /\ con' = [con EXCEPT ![t] = [con[t] EXCEPT !.pc = "fetch"]]
      /\ UNCHANGED <<attached, delayed, ls_wbusy, wirq, rirq, tx, rx, screen, cs_wsem, cs_gotchar,
                     rlock, wlock, poll, asked, keys, got, rushed, con_bad>>
  BY DEF ConInv, getch_intr, ConTypes, Go, key_vars
<1>2. attached
  BY <1>1, InCall
<1>3. PICK r : r = [con[t] EXCEPT !.pc = "fetch"]
  OBVIOUS
<1>4. /\ r \in ConRecord /\ r.pc = "fetch" /\ r.user = con[t].user /\ r.chars = con[t].chars
      /\ r.call = con[t].call
  BY <1>1, <1>3 DEF ConRecord, ConLabels
<1>5. con' = [con EXCEPT ![t] = r]
  BY <1>1, <1>3
<1>6. /\ con' \in [Thread -> ConRecord] /\ con'[t] = r
      /\ \A u \in Thread \ {t} : con'[u] = con[u]
  BY <1>1, <1>4, <1>5, ConStep
<1>7. cs_rsem \in Nat /\ cs_rsem' \in Nat
  BY <1>1 DEF ConTypes
<1>8. ConTypes'
  BY <1>1, <1>6, <1>7 DEF ConTypes
<1>9. ThreadsPrint' /\ ShownOK' /\ UsersApart'
  BY <1>1, <1>4, <1>5, <1>8, MidCallStep
<1>10. Unattached' /\ PortOK'
  BY <1>1, <1>2 DEF Unattached, PortOK
<1>11. Baton'
  BY <1>1, <1>4, <1>6, BatonFrame
<1>12. KeysOK'
  <2>1. Fetchers' = Fetchers \cup {t} /\ t \notin Fetchers
    BY <1>1, <1>4, <1>6 DEF Fetchers
  <2>2. Cardinality(Fetchers') = Cardinality(Fetchers) + 1
    BY <1>1, <2>1, UnreadNat, FS_AddElement
  <2>3. Unread' = Unread
    BY <1>1, <1>7, <2>2, UnreadNat DEF Unread
  <2> QED BY <1>1, <1>7, <2>3 DEF KeysOK
<1> QED BY <1>8, <1>9, <1>10, <1>11, <1>12 DEF ConInv

\* What a step of t that reads a key does to the keys.
LEMMA KeyRead ==
    ASSUME ConTypes, KeysOK, NEW t \in Thread, con[t].pc = "fetch", con'[t].pc # "fetch",
           \A u \in Thread \ {t} : con'[u] = con[u], got' = Append(got, cs_gotchar),
           UNCHANGED <<rirq, rx, keys, cs_gotchar, rushed, cs_rsem>>
    PROVE  KeysOK'
<1>1. Fetchers' = Fetchers \ {t} /\ t \in Fetchers
  BY DEF Fetchers
<1>2. Cardinality(Fetchers') = Cardinality(Fetchers) - 1
  BY <1>1, UnreadNat, FS_RemoveElement
<1>3. Unread' = Unread - 1 /\ Unread \in Nat
  BY <1>2, UnreadNat DEF Unread
<1>4. /\ got \in Seq(Nat) /\ cs_gotchar \in Nat /\ keys \in Nat /\ Len(got) \in Nat
      /\ DOMAIN got = 1..Len(got)
  BY DEF ConTypes
<1>5. /\ Len(got') = Len(got) + 1 /\ DOMAIN got' = 1..(Len(got) + 1) /\ got'[Len(got) + 1] = cs_gotchar
      /\ \A i \in 1..Len(got) : got'[i] = got[i]
  BY <1>4
<1>6. cs_gotchar >= 1 /\ cs_gotchar <= keys /\ Len(got) + Unread <= keys
  BY <1>1 DEF KeysOK
<1>7. (rirq => rx = keys /\ keys >= 1) /\ Len(got') + Unread' <= keys
  BY <1>3, <1>4, <1>5, <1>6 DEF KeysOK
<1>8. \A i \in DOMAIN got' : 1 <= got'[i] /\ got'[i] <= cs_gotchar
  BY <1>4, <1>5, <1>6 DEF KeysOK
<1>9. \A i, j \in DOMAIN got' : i < j => got'[i] <= got'[j]
  <2>1. SUFFICES ASSUME NEW i \in DOMAIN got', NEW j \in DOMAIN got', i < j PROVE got'[i] <= got'[j]
    OBVIOUS
  <2>2. i \in DOMAIN got
    BY <1>4, <1>5, <2>1
  <2>3. CASE j \in DOMAIN got
    BY <1>4, <1>5, <2>1, <2>2, <2>3 DEF KeysOK
  <2>4. CASE j = Len(got) + 1
    BY <1>4, <1>5, <2>2, <2>4 DEF KeysOK
  <2> QED BY <1>4, <1>5, <2>3, <2>4
<1>10. ASSUME ~rushed
       PROVE  /\ Len(got') + Unread' = keys /\ Unread' <= 1 /\ cs_gotchar = keys
              /\ \A i \in DOMAIN got' : got'[i] = i
  <2>1. /\ Len(got) + Unread = keys /\ Unread <= 1 /\ cs_gotchar = keys
        /\ \A i \in DOMAIN got : got[i] = i
    BY <1>1, <1>10 DEF KeysOK
  <2>2. Unread >= 1
    <3>1. Cardinality(Fetchers) >= 1
      BY <1>1, UnreadNat
    <3> QED BY <3>1, UnreadNat DEF Unread
  <2>3. cs_gotchar = Len(got) + 1
    BY <1>3, <1>4, <2>1, <2>2
  <2> QED BY <1>3, <1>4, <1>5, <2>1, <2>3
<1> QED BY <1>6, <1>7, <1>8, <1>9, <1>10 DEF KeysOK

\* A thread in getch reads the key.
LEMMA GetchFetchInv ==
    ASSUME ConInv, NEW t \in Thread, getch_fetch(t)
    PROVE  ConInv'
<1>1. /\ ConTypes /\ Unattached /\ PortOK /\ Baton /\ ThreadsPrint /\ KeysOK /\ con[t] \in ConRecord
      /\ con[t].pc = "fetch" /\ got' = Append(got, cs_gotchar)
      /\ UNCHANGED <<attached, delayed, ls_wbusy, wirq, rirq, tx, rx, screen, cs_wsem, cs_rsem,
                     cs_gotchar, rlock, wlock, poll, asked, keys, rushed, con_bad>>
  BY DEF ConInv, getch_fetch, ConTypes, port_vars
<1>2. attached /\ con[t].chars = << >>
  BY <1>1, InCall DEF ThreadsPrint, Prints
<1>3. \E r \in ConRecord : /\ con' = [con EXCEPT ![t] = r]
                           /\ r.pc \in {"idle", "rnext", "rrelease"} /\ r.user = con[t].user
                           /\ r.chars = << >> /\ r.call = con[t].call
  <2>1. CASE ~con[t].user /\ Go(t, [Quiet EXCEPT !.call = con[t].call])
    <3>1. PICK r : r = [Quiet EXCEPT !.call = con[t].call]
      OBVIOUS
    <3>2. r = [pc |-> "idle", user |-> FALSE, text |-> << >>, chars |-> << >>, n |-> 0,
               call |-> con[t].call]
      BY <3>1 DEF Quiet
    <3>3. con[t].call \in Nat /\ con[t].user \in BOOLEAN
      BY <1>1 DEF ConRecord
    <3>4. r \in ConRecord /\ r.pc = "idle" /\ r.chars = << >> /\ r.call = con[t].call
      BY <3>2, <3>3 DEF ConRecord, ConLabels
    <3>5. r.user = con[t].user
      <4>1. con[t].user = FALSE
        BY <2>1, <3>3
      <4>2. r.user = FALSE
        BY <3>2
      <4> QED BY <4>1, <4>2
    <3> QED BY <2>1, <3>1, <3>4, <3>5 DEF Go
  <2>2. CASE Go(t, [con[t] EXCEPT !.pc = "rnext", !.n = @ - 1])
    <3>1. PICK r : r = [con[t] EXCEPT !.pc = "rnext", !.n = @ - 1]
      OBVIOUS
    <3>2. con[t].n - 1 \in Int
      BY <1>1 DEF ConRecord
    <3>3. r \in ConRecord /\ r.pc = "rnext" /\ r.chars = << >> /\ r.call = con[t].call /\ r.user = con[t].user
      BY <1>1, <1>2, <3>1, <3>2 DEF ConRecord, ConLabels
    <3> QED BY <2>2, <3>1, <3>3 DEF Go
  <2>3. CASE Go(t, [con[t] EXCEPT !.pc = "rrelease"])
    <3>1. PICK r : r = [con[t] EXCEPT !.pc = "rrelease"]
      OBVIOUS
    <3>2. /\ r \in ConRecord /\ r.pc = "rrelease" /\ r.chars = << >> /\ r.call = con[t].call
          /\ r.user = con[t].user
      BY <1>1, <1>2, <3>1 DEF ConRecord, ConLabels
    <3> QED BY <2>3, <3>1, <3>2 DEF Go
  <2> QED BY <2>1, <2>2, <2>3 DEF getch_fetch
<1>4. PICK r \in ConRecord : /\ con' = [con EXCEPT ![t] = r]
                             /\ r.pc \in {"idle", "rnext", "rrelease"} /\ r.user = con[t].user
                             /\ r.chars = << >> /\ r.call = con[t].call
  BY <1>3
<1>5. /\ con' \in [Thread -> ConRecord] /\ con'[t] = r
      /\ \A u \in Thread \ {t} : con'[u] = con[u]
  BY <1>1, <1>4, ConStep
<1>6. got' \in Seq(Nat)
  BY <1>1 DEF ConTypes
<1>7. ConTypes'
  BY <1>1, <1>5, <1>6 DEF ConTypes
<1>8. ThreadsPrint' /\ ShownOK' /\ UsersApart'
  BY <1>1, <1>2, <1>4, <1>7, MidCallStep
<1>9. Unattached' /\ PortOK'
  BY <1>1, <1>2 DEF Unattached, PortOK
<1>10. Baton'
  BY <1>1, <1>4, <1>5, BatonFrame
<1>11. KeysOK'
  BY <1>1, <1>4, <1>5, KeyRead
<1> QED BY <1>7, <1>8, <1>9, <1>10, <1>11 DEF ConInv

----------------------------------------------------------------------------
(* Characters reach the port *)

\* One more character: its thread has one less to print, the others as many as before.
LEMMA ShownStep ==
    ASSUME ConTypes, ConTypes', ShownOK, NEW e \in PortChar, All' = Append(All, e), asked' = asked,
           \A u \in Thread : IF u = e.t
                             THEN /\ con[u].chars # << >> /\ e.ch = Head(con[u].chars)
                                  /\ con'[u].chars = Tail(con[u].chars)
                             ELSE con'[u].chars = con[u].chars
    PROVE  ShownOK'
<1> SUFFICES ASSUME NEW u \in Thread
             PROVE  Numbered(All, u)' /\ Shown(u)' \o con'[u].chars = asked'[u]
  BY DEF ShownOK
<1>1. Numbered(All, u) /\ Shown(u) \o con[u].chars = asked[u]
  BY DEF ShownOK
<1>2. PICK s \in Seq(PortChar) : s = All
  BY AllShown
<1>3. PICK f : f = ShownOf(s, u)
  OBVIOUS
<1>4. Shown(u) = f /\ Numbered(s, u)
  BY <1>1, <1>2, <1>3, AllShown
<1>5. f \in Seq(Char)
  BY <1>3, <1>4, ShownType
<1>6. /\ Numbered(Append(s, e), u)
      /\ ShownOf(Append(s, e), u) = IF e.t = u THEN Append(f, e.ch) ELSE f
  BY <1>3, <1>4, ShownAppend
<1>7. Numbered(All, u)'
  <2>1. PICK q : q = Append(s, e)
    OBVIOUS
  <2>2. Numbered(q, u) /\ All' = q
    BY <1>2, <1>6, <2>1
  <2>3. Of(All, u)' = Of(q, u)
    BY <2>2 DEF Of
  <2>4. \A i, j : IsNth(q, u, i, j) => IsNth(All, u, i, j)'
    <3>1. ASSUME NEW i, NEW j, IsNth(q, u, i, j) PROVE IsNth(All, u, i, j)'
      <4>1. UpTo(All, u, j)' = UpTo(q, u, j)
        BY <2>2 DEF UpTo
      <4> QED BY <2>2, <3>1, <4>1 DEF IsNth
    <3> QED BY <3>1
  <2> QED BY <2>2, <2>3, <2>4 DEF Numbered
<1>8. Shown(u)' = ShownOf(Append(s, e), u)
  <2>1. Shown(u)' = ShownOf(All, u)'
    BY DEF Shown, ShownOf, All
  <2> QED BY <1>2, <2>1 DEF ShownOf
<1>9. con[u].chars \in Seq(Char) /\ e.ch \in Char
  BY DEF ConTypes, ConRecord, PortChar
<1>10. CASE u = e.t
  <2>1. PICK c \in Seq(Char) : c = con[u].chars
    BY <1>9
  <2>2. c # << >> /\ e.ch = Head(c) /\ con'[u].chars = Tail(c)
    BY <1>10, <2>1
  <2>3. Append(f, Head(c)) \o Tail(c) = f \o c
    BY <1>5, <2>2
  <2> QED BY <1>1, <1>4, <1>6, <1>7, <1>8, <1>10, <2>1, <2>2, <2>3
<1>11. CASE u # e.t
  BY <1>1, <1>4, <1>6, <1>7, <1>8, <1>11
<1> QED BY <1>10, <1>11

\* One more character: a user's, who has the lock, or one that is in no user's call.
LEMMA UsersAppend ==
    ASSUME ConTypes, ConTypes', UsersApart, CallsGoOn, wlock' = wlock,
           NEW e \in PortChar, All' = Append(All, e),
           e.by = "user" => /\ e.t \in Thread /\ wlock = e.t
                            /\ e.call = con[e.t].call /\ e.call = con'[e.t].call
                            /\ con'[e.t].pc # "wlock" /\ (con'[e.t].pc \in {"put", "send"} => con'[e.t].user),
           e.by # "user" /\ e.t \in Thread => e.call = con[e.t].call /\ Prints(e.t) /\ ~con[e.t].user
    PROVE  UsersApart'
<1>1. PICK s \in Seq(PortChar) : s = All
  BY AllShown
<1>2. PICK q : q = Append(s, e)
  OBVIOUS
<1>3. /\ q = All' /\ Len(s) \in Nat /\ DOMAIN s = 1..Len(s) /\ DOMAIN q = 1..(Len(s) + 1)
      /\ q[Len(s) + 1] = e /\ \A i \in 1..Len(s) : q[i] = s[i]
  BY <1>1, <1>2
<1>4. ASSUME NEW i \in DOMAIN s, s[i].by = "user"
      PROVE  UserCall(s[i]) /\ UserCall(s[i])' /\ (Over(s[i]) => Over(s[i])')
  <2>1. PICK d \in PortChar : d = s[i]
    BY <1>1
  <2>2. UserCall(d)
    BY <1>1, <1>4, <2>1 DEF UsersApart
  <2>3. UserCall(d)' /\ (Over(d) => Over(d)')
    BY <2>2, EntryKept
  <2> QED BY <2>1, <2>2, <2>3
<1>5. e.call \in Nat
  BY DEF PortChar
<1>6. \A i \in DOMAIN q : q[i].by = "user" => UserCall(q[i])'
  <2>1. e.by = "user" => UserCall(e)'
    BY <1>5 DEF UserCall, Prints
  <2>2. SUFFICES ASSUME NEW i \in DOMAIN q, q[i].by = "user" PROVE UserCall(q[i])'
    OBVIOUS
  <2>3. CASE i \in DOMAIN s
    <3>1. q[i] = s[i]
      BY <1>3, <2>3
    <3> QED BY <1>4, <2>2, <2>3, <3>1 DEF UserCall, Prints
  <2>4. CASE i = Len(s) + 1
    <3>1. q[i] = e
      BY <1>3, <2>4
    <3> QED BY <2>1, <2>2, <3>1 DEF UserCall, Prints
  <2> QED BY <1>3, <2>3, <2>4
<1>7. ASSUME NEW i \in DOMAIN q, NEW j \in DOMAIN q, i < j,
             q[i].by = "user", q[j].by = "user", q[i].t # q[j].t
      PROVE  Over(q[i])'
  <2>1. i \in DOMAIN s /\ q[i] = s[i]
    BY <1>3, <1>7
  <2>2. CASE j \in DOMAIN s
    <3>1. Over(s[i])
      BY <1>1, <1>3, <1>7, <2>1, <2>2 DEF UsersApart
    <3> QED BY <1>4, <1>7, <2>1, <3>1 DEF Over
  <2>3. CASE j = Len(s) + 1
    <3>1. e.by = "user" /\ q[i].t # e.t
      BY <1>3, <1>7, <2>3
    <3>2. wlock' # q[i].t
      BY <3>1
    <3> QED BY <3>2 DEF Over
  <2> QED BY <1>3, <2>2, <2>3
<1>8. ASSUME NEW i \in DOMAIN q, NEW j \in DOMAIN q, NEW k \in DOMAIN q, i < j, j < k, q[i].t = q[k].t,
             q[i].by = "user", q[j].by = "user", q[i].call = q[k].call
      PROVE  q[j].t = q[i].t
  <2>1. i \in DOMAIN s /\ j \in DOMAIN s /\ q[i] = s[i] /\ q[j] = s[j]
    BY <1>3, <1>8
  <2>2. CASE k \in DOMAIN s
    <3>1. q[k] = s[k]
      BY <1>3, <2>2
    <3> QED BY <1>1, <1>8, <2>1, <2>2, <3>1 DEF UsersApart, Together
  <2>3. CASE k = Len(s) + 1
    <3>1. s[i].t = e.t /\ s[i].call = e.call /\ s[i].by = "user" /\ s[j].by = "user"
      BY <1>3, <1>8, <2>1, <2>3
    <3>2. e.t \in Thread /\ (e.call = con[e.t].call => (Prints(e.t) => con[e.t].user))
      BY <1>4, <2>1, <3>1 DEF UserCall
    <3>3. e.by = "user"
      BY <3>2
    <3>4. ~Over(s[i])
      BY <1>5, <3>1, <3>3 DEF Over
    <3> QED BY <1>1, <1>8, <2>1, <3>1, <3>4 DEF UsersApart
  <2> QED BY <1>3, <2>2, <2>3
<1>9. Together(All)'
  BY <1>3, <1>8 DEF Together
<1>10. \A i \in DOMAIN All' : All'[i].by = "user" => UserCall(All[i])'
  BY <1>3, <1>6 DEF UserCall, Prints
<1>11. \A i, j \in DOMAIN All' : i < j /\ All'[i].by = "user" /\ All'[j].by = "user" /\ All'[i].t # All'[j].t
                                   => Over(All[i])'
  BY <1>3, <1>7 DEF Over
<1> QED BY <1>9, <1>10, <1>11 DEF UsersApart

\* What a thread gives to the port.
LEMMA LserWriteInv ==
    ASSUME ConInv, NEW t \in Thread, lser_write(t)
    PROVE  ConInv'
<1>1. /\ ConTypes /\ Unattached /\ PortOK /\ Baton /\ ThreadsPrint /\ ShownOK /\ UsersApart /\ KeysOK
      /\ con[t] \in ConRecord /\ con[t].pc = "send" /\ poll = NULL /\ ls_wbusy' = TRUE
      /\ UNCHANGED <<attached, delayed, wirq, rirq, rx, screen, cs_wsem, cs_rsem, cs_gotchar,
                     rlock, wlock, poll, asked, keys, got, rushed>>
  BY DEF ConInv, lser_write, ConTypes, Running, key_vars
<1>2. /\ con[t].chars \in Seq(Char) /\ con[t].chars # << >> /\ con[t].call \in Nat
      /\ con[t].user \in BOOLEAN
  BY <1>1 DEF ThreadsPrint, Prints, ConRecord
<1>3. Head(con[t].chars) \in Char /\ Tail(con[t].chars) \in Seq(Char)
  BY <1>2
<1>4. /\ ~ls_wbusy /\ cs_wsem = 0 /\ tx = NULL /\ ~wirq /\ ~con_bad /\ attached
      /\ \A u \in Thread : Sends(u) => u = t
  BY <1>1, InCall DEF Baton, Sends, PortOK
<1>5. PICK e : e = [t |-> t, by |-> IF con[t].user THEN "user" ELSE "kernel", call |-> con[t].call,
                    ch |-> Head(con[t].chars)]
  OBVIOUS
<1>6. /\ e \in PortChar /\ e.t = t /\ e.call = con[t].call /\ e.ch = Head(con[t].chars)
      /\ e.by = IF con[t].user THEN "user" ELSE "kernel"
  BY <1>2, <1>3, <1>5 DEF PortChar
<1>7. tx' = e /\ ~con_bad' /\ e # NULL
  <2>1. tx' = e /\ con_bad' = (con_bad \/ tx # NULL
                                 \/ ((IF con[t].user THEN "user" ELSE "kernel") # "polled" /\ ls_wbusy))
    BY <1>5 DEF lser_write, ToPort
  <2> QED BY <1>4, <1>6, <2>1, ConConstants
<1>8. PICK p : p = IF Tail(con[t].chars) = << >> THEN (IF con[t].user THEN "wnext" ELSE "idle") ELSE "put"
  OBVIOUS
<1>9. PICK r : r = [con[t] EXCEPT !.chars = Tail(con[t].chars), !.pc = p]
  OBVIOUS
<1>10. con' = [con EXCEPT ![t] = r]
  BY <1>8, <1>9 DEF lser_write, Go
<1>11. p \in {"wnext", "idle", "put"}
  BY <1>8
<1>12. /\ r \in ConRecord /\ r.pc = p /\ r.chars = Tail(con[t].chars) /\ r.user = con[t].user
       /\ r.call = con[t].call
  BY <1>1, <1>3, <1>9, <1>11 DEF ConRecord, ConLabels
<1>13. /\ con' \in [Thread -> ConRecord] /\ con'[t] = r
       /\ \A u \in Thread \ {t} : con'[u] = con[u]
  BY <1>1, <1>10, <1>12, ConStep
<1>14. ConTypes'
  BY <1>1, <1>6, <1>7, <1>13 DEF ConTypes
<1>15. Unattached'
  BY <1>1, <1>4 DEF Unattached
<1>16. PortOK'
  BY <1>1, <1>4, <1>7 DEF PortOK
<1>17. Baton'
  <2>1. \A u \in Thread : ~Sends(u)'
    BY <1>4, <1>11, <1>12, <1>13 DEF Sends
  <2> QED BY <1>1, <1>4, <2>1 DEF Baton
<1>18. ThreadsPrint'
  <2>1. ASSUME NEW u \in Thread \ {t}
        PROVE  /\ (Prints(u)' <=> con'[u].chars # << >>) /\ (Writes(u)' <=> wlock' = u)
               /\ con'[u].pc \in {"wlock", "wnext"} => con'[u].user
    BY <1>1, <1>13 DEF ThreadsPrint, Prints, Writes
  <2>2. con[t].user <=> wlock = t
    BY <1>1 DEF ThreadsPrint, Prints, Writes
  <2>3. Prints(t)' <=> con'[t].chars # << >>
    BY <1>2, <1>8, <1>12, <1>13 DEF Prints
  <2>4. Writes(t)' <=> wlock' = t
    BY <1>1, <1>2, <1>8, <1>12, <1>13, <2>2 DEF Prints, Writes
  <2>5. con'[t].pc \in {"wlock", "wnext"} => con'[t].user
    BY <1>2, <1>8, <1>12, <1>13
  <2> QED BY <2>1, <2>3, <2>4, <2>5 DEF ThreadsPrint
<1>19. All' = Append(All, e)
  BY <1>1, <1>4, <1>7 DEF All
<1>20. ShownOK'
  BY <1>1, <1>2, <1>6, <1>12, <1>13, <1>14, <1>19, ShownStep
<1>21. CallsGoOn
  <2>1. \A u \in Thread : con[u].call \in Nat /\ con'[u].call = con[u].call
    BY <1>1, <1>12, <1>13 DEF ConTypes, ConRecord
  <2> QED BY <1>1, <1>11, <1>12, <1>13, <2>1 DEF CallsGoOn
<1>22. UsersApart'
  <2>1. e.by = "user" => /\ e.t \in Thread /\ wlock = e.t
                         /\ e.call = con[e.t].call /\ e.call = con'[e.t].call
                         /\ con'[e.t].pc # "wlock" /\ (con'[e.t].pc \in {"put", "send"} => con'[e.t].user)
    BY <1>1, <1>2, <1>6, <1>11, <1>12, <1>13 DEF ThreadsPrint, Prints, Writes
  <2>2. e.by # "user" => e.call = con[e.t].call /\ Prints(e.t) /\ ~con[e.t].user
    BY <1>1, <1>2, <1>6 DEF Prints
  <2> QED BY <1>1, <1>6, <1>14, <1>19, <1>21, <2>1, <2>2, UsersAppend
<1>23. KeysOK'
  BY <1>1, <1>11, <1>12, <1>13, KeysFrame
<1> QED BY <1>14, <1>15, <1>16, <1>17, <1>18, <1>20, <1>22, <1>23 DEF ConInv

\* A step of the port, or of the polled write, that leaves the threads alone.
LEMMA PortStep ==
    ASSUME ConInv, ConTypes', UNCHANGED <<wlock, con, asked>>
    PROVE  /\ ThreadsPrint' /\ CallsGoOn
           /\ UNCHANGED <<cs_wsem, ls_wbusy>> => Baton'
           /\ UNCHANGED <<rirq, rx, keys, cs_gotchar, got, rushed, cs_rsem>> => KeysOK'
           /\ All' = All => ShownOK' /\ UsersApart'
<1>1. ConTypes /\ Baton /\ ThreadsPrint /\ ShownOK /\ UsersApart /\ KeysOK
  BY DEF ConInv
<1>2. ThreadsPrint'
  BY <1>1 DEF ThreadsPrint, Prints, Writes
<1>3. CallsGoOn
  <2>1. \A u \in Thread : con[u].call \in Nat
    BY <1>1 DEF ConTypes, ConRecord
  <2> QED BY <2>1 DEF CallsGoOn
<1>4. UNCHANGED <<cs_wsem, ls_wbusy>> => Baton'
  BY <1>1, BatonFrame
<1>5. UNCHANGED <<rirq, rx, keys, cs_gotchar, got, rushed, cs_rsem>> => KeysOK'
  BY <1>1, KeysFrame
<1>6. ASSUME All' = All PROVE ShownOK' /\ UsersApart'
  <2>1. ShownOK'
    BY <1>1, <1>6, ShownFrame
  <2>2. UsersApart'
    BY <1>1, <1>3, <1>6, UsersFrame
  <2> QED BY <2>1, <2>2
<1> QED BY <1>2, <1>3, <1>4, <1>5, <1>6

\* putch with interrupts off begins.
LEMMA WritepolledInv ==
    ASSUME ConInv, lser_writepolled
    PROVE  ConInv'
<1>1. /\ ConTypes /\ Unattached /\ PortOK /\ attached /\ poll = NULL
      /\ poll' = [pc |-> IF ls_wbusy THEN "wait" ELSE "send", irqpending |-> ls_wbusy]
      /\ UNCHANGED <<attached, delayed, ls_wbusy, wirq, rirq, tx, rx, screen, cs_wsem, cs_rsem, cs_gotchar,
                     rlock, wlock, con, asked, keys, got, rushed, con_bad>>
  BY DEF ConInv, lser_writepolled, Running, port_vars, key_vars
<1>2. poll' \in PollState /\ poll' # NULL
  BY <1>1, ConConstants DEF ConTypes, PollState
<1>3. ConTypes'
  BY <1>1, <1>2 DEF ConTypes
<1>4. All' = All
  BY <1>1 DEF All
<1>5. Unattached'
  BY <1>1 DEF Unattached
<1>6. PortOK'
  <2>1. poll'.irqpending = ls_wbusy /\ poll'.pc = IF ls_wbusy THEN "wait" ELSE "send"
    BY <1>1
  <2> QED BY <1>1, <1>2, <2>1 DEF PortOK
<1> QED BY <1>1, <1>3, <1>4, <1>5, <1>6, PortStep DEF ConInv

\* The polled write has waited for the character before it.
LEMMA PollWaitInv ==
    ASSUME ConInv, poll_wait
    PROVE  ConInv'
<1>1. /\ ConTypes /\ Unattached /\ PortOK /\ poll # NULL /\ poll.pc = "wait" /\ wirq /\ wirq' = FALSE
      /\ poll' = [poll EXCEPT !.pc = "send"]
      /\ UNCHANGED <<attached, delayed, ls_wbusy, rirq, tx, rx, screen, cs_wsem, cs_rsem, cs_gotchar,
                     rlock, wlock, con, asked, keys, got, rushed, con_bad>>
  BY DEF ConInv, poll_wait, key_vars
<1>2. /\ poll' \in PollState /\ poll' # NULL /\ poll'.pc = "send" /\ poll'.irqpending = poll.irqpending
  <2>1. poll \in PollState
    BY <1>1 DEF ConTypes
  <2>2. poll' \in PollState /\ poll'.pc = "send" /\ poll'.irqpending = poll.irqpending
    BY <1>1, <2>1 DEF PollState
  <2> QED BY <2>2, ConConstants
<1>3. ConTypes'
  BY <1>1, <1>2 DEF ConTypes
<1>4. All' = All
  BY <1>1 DEF All
<1>5. Unattached'
  BY <1>1 DEF Unattached
<1>6. PortOK'
  BY <1>1, <1>2 DEF PortOK
<1> QED BY <1>1, <1>3, <1>4, <1>5, <1>6, PortStep DEF ConInv

\* The polled character goes to the port.
LEMMA PollSendInv ==
    ASSUME ConInv, poll_send
    PROVE  ConInv'
<1>1. /\ ConTypes /\ Unattached /\ PortOK /\ ShownOK /\ UsersApart /\ poll # NULL /\ poll.pc = "send"
      /\ poll' = [poll EXCEPT !.pc = "spin"]
      /\ UNCHANGED <<attached, delayed, ls_wbusy, wirq, rirq, rx, screen, cs_wsem, cs_rsem, cs_gotchar,
                     rlock, wlock, con, asked, keys, got, rushed>>
  BY DEF ConInv, poll_send, key_vars
<1>2. /\ poll' \in PollState /\ poll' # NULL /\ poll'.pc = "spin" /\ poll'.irqpending = poll.irqpending
  <2>1. poll \in PollState
    BY <1>1 DEF ConTypes
  <2>2. poll' \in PollState /\ poll'.pc = "spin" /\ poll'.irqpending = poll.irqpending
    BY <1>1, <2>1 DEF PollState
  <2> QED BY <2>2, ConConstants
<1>3. tx = NULL /\ ~wirq /\ ~con_bad /\ attached
  BY <1>1 DEF PortOK, Unattached
<1>4. PICK e : e = [t |-> NULL, by |-> "polled", call |-> 0, ch |-> "k"]
  OBVIOUS
<1>5. e \in PortChar /\ e.t = NULL /\ e.by = "polled" /\ e # NULL
  <2>1. e \in PortChar /\ e.t = NULL /\ e.by = "polled"
    BY <1>4 DEF PortChar, Char
  <2> QED BY <2>1, ConConstants
<1>6. tx' = e /\ ~con_bad'
  <2>1. tx' = e /\ con_bad' = (con_bad \/ tx # NULL \/ ("polled" # "polled" /\ ls_wbusy))
    BY <1>4 DEF poll_send, ToPort
  <2> QED BY <1>3, <2>1
<1>7. ConTypes'
  BY <1>1, <1>2, <1>5, <1>6 DEF ConTypes
<1>8. Unattached'
  BY <1>1, <1>3 DEF Unattached
<1>9. PortOK'
  BY <1>1, <1>2, <1>3, <1>5, <1>6 DEF PortOK
<1>10. All' = Append(All, e)
  BY <1>1, <1>3, <1>5, <1>6 DEF All
<1>11. ThreadsPrint' /\ CallsGoOn /\ Baton' /\ KeysOK'
  BY <1>1, <1>7, PortStep
<1>12. \A u \in Thread : u # e.t
  BY <1>5, ConConstants
<1>13. ShownOK'
  BY <1>1, <1>5, <1>7, <1>10, <1>12, ShownStep
<1>14. UsersApart'
  BY <1>1, <1>5, <1>7, <1>10, <1>11, <1>12, UsersAppend
<1> QED BY <1>7, <1>8, <1>9, <1>11, <1>13, <1>14 DEF ConInv

\* The polled write ends and gives the interrupt back.
LEMMA PollSpinInv ==
    ASSUME ConInv, poll_spin
    PROVE  ConInv'
<1>1. /\ ConTypes /\ Unattached /\ PortOK /\ poll # NULL /\ poll.pc = "spin" /\ wirq
      /\ wirq' = poll.irqpending /\ poll' = NULL
      /\ UNCHANGED <<attached, delayed, ls_wbusy, rirq, tx, rx, screen, cs_wsem, cs_rsem, cs_gotchar,
                     rlock, wlock, con, asked, keys, got, rushed, con_bad>>
  BY DEF ConInv, poll_spin, key_vars
<1>2. poll.irqpending = ls_wbusy /\ tx = NULL /\ attached /\ ls_wbusy \in BOOLEAN
  BY <1>1 DEF PortOK, Unattached, ConTypes
<1>3. ConTypes'
  BY <1>1, <1>2 DEF ConTypes
<1>4. All' = All
  BY <1>1 DEF All
<1>5. Unattached'
  BY <1>1, <1>2 DEF Unattached
<1>6. PortOK'
  BY <1>1, <1>2 DEF PortOK
<1> QED BY <1>1, <1>3, <1>4, <1>5, <1>6, PortStep DEF ConInv

\* The port puts its character on the screen.
LEMMA TransmitInv ==
    ASSUME ConInv, transmit
    PROVE  ConInv'
<1>1. /\ ConTypes /\ Unattached /\ PortOK /\ tx # NULL /\ screen' = Append(screen, tx) /\ tx' = NULL /\ wirq' = TRUE
      /\ UNCHANGED <<attached, delayed, ls_wbusy, rirq, rx, cs_wsem, cs_rsem, cs_gotchar,
                     rlock, wlock, con, poll, asked, keys, got, rushed, con_bad>>
  BY DEF ConInv, transmit, key_vars
<1>2. screen' \in Seq(PortChar) /\ attached
  BY <1>1 DEF ConTypes, Unattached
<1>3. ConTypes'
  BY <1>1, <1>2 DEF ConTypes
<1>4. All' = All
  BY <1>1 DEF All
<1>5. Unattached'
  BY <1>1, <1>2 DEF Unattached
<1>6. PortOK'
  BY <1>1 DEF PortOK
<1> QED BY <1>1, <1>3, <1>4, <1>5, <1>6, PortStep DEF ConInv

\* A key is typed.
LEMMA TypeKeyInv ==
    ASSUME ConInv, type_key
    PROVE  ConInv'
<1>1. /\ ConTypes /\ Unattached /\ PortOK /\ KeysOK /\ attached /\ keys' = keys + 1 /\ rx' = keys + 1
      /\ rirq' = TRUE /\ rushed' = (rushed \/ Len(got) # keys)
      /\ UNCHANGED <<attached, delayed, ls_wbusy, wirq, tx, screen, cs_wsem, cs_rsem, cs_gotchar,
                     rlock, wlock, con, poll, asked, got, con_bad>>
  BY DEF ConInv, type_key
<1>2. keys \in Nat /\ keys' \in Nat /\ rushed' \in BOOLEAN /\ cs_gotchar \in Nat
  BY <1>1 DEF ConTypes
<1>3. ConTypes'
  BY <1>1, <1>2 DEF ConTypes
<1>4. All' = All
  BY <1>1 DEF All
<1>5. Unattached' /\ PortOK'
  BY <1>1 DEF Unattached, PortOK
<1>6. KeysOK'
  <2>1. Fetchers' = Fetchers
    BY <1>1 DEF Fetchers
  <2>2. Unread' = Unread - Ind(rirq) + 1
    <3>1. Ind(rirq)' = 1
      BY <1>1 DEF Ind
    <3> QED BY <1>1, <2>1, <3>1, UnreadNat DEF Unread
  <2>3. /\ cs_gotchar' <= keys' /\ Len(got') + Unread' <= keys' /\ keys' >= 1
    BY <1>1, <1>2, <2>2, UnreadNat DEF KeysOK
  <2>4. ASSUME ~rushed'
        PROVE  /\ Len(got') + Unread' = keys' /\ Unread' <= 1 /\ Fetchers = {} /\ cs_rsem = 0
               /\ \A i \in DOMAIN got' : got'[i] = i
    <3>1. ~rushed /\ Len(got) = keys
      BY <1>1, <2>4
    <3>2. Unread = 0 /\ \A i \in DOMAIN got : got[i] = i
      BY <1>1, <1>2, <3>1, UnreadNat DEF KeysOK
    <3>3. Cardinality(Fetchers) = 0 /\ cs_rsem = 0 /\ Ind(rirq) = 0
      BY <1>1, <3>2, UnreadNat DEF Unread
    <3> QED BY <1>1, <1>2, <2>2, <3>1, <3>2, <3>3, UnreadNat
  <2> QED BY <1>1, <2>1, <2>3, <2>4 DEF KeysOK
<1> QED BY <1>1, <1>3, <1>4, <1>5, <1>6, PortStep DEF ConInv

\* The port's interrupt, for either direction.
LEMMA LserIrqInv ==
    ASSUME ConInv, lser_irq
    PROVE  ConInv'
<1>1. /\ ConTypes /\ Unattached /\ PortOK /\ Baton /\ KeysOK /\ attached /\ poll = NULL
      /\ wirq' = FALSE /\ rirq' = FALSE /\ ls_wbusy' = (ls_wbusy /\ ~wirq)
      /\ cs_wsem' = cs_wsem + (IF wirq THEN 1 ELSE 0)
      /\ cs_gotchar' = (IF rirq THEN rx ELSE cs_gotchar)
      /\ cs_rsem' = cs_rsem + (IF rirq THEN 1 ELSE 0)
      /\ UNCHANGED <<attached, delayed, tx, rx, screen, rlock, wlock, con, poll, asked,
                     keys, got, rushed, con_bad>>
  BY DEF ConInv, lser_irq, Running, key_vars
<1>2. wirq => ls_wbusy /\ cs_wsem = 0 /\ tx = NULL /\ \A u \in Thread : ~Sends(u)
  BY <1>1 DEF PortOK, Baton
<1>3. /\ keys \in Nat /\ cs_gotchar \in Nat /\ cs_rsem \in Nat /\ cs_wsem \in {0, 1}
      /\ wirq \in BOOLEAN /\ rirq \in BOOLEAN /\ ls_wbusy \in BOOLEAN
  BY <1>1 DEF ConTypes
<1>4. cs_gotchar' \in Nat /\ cs_rsem' \in Nat /\ cs_wsem' \in {0, 1}
  <2>1. cs_gotchar' \in Nat
    BY <1>1, <1>3 DEF KeysOK
  <2>2. cs_rsem' \in Nat
    BY <1>1, <1>3
  <2>3. cs_wsem' \in {0, 1}
    BY <1>1, <1>2, <1>3
  <2> QED BY <2>1, <2>2, <2>3
<1>5. ConTypes'
  BY <1>1, <1>3, <1>4 DEF ConTypes
<1>6. All' = All
  BY <1>1 DEF All
<1>7. Unattached'
  BY <1>1 DEF Unattached
<1>8. PortOK'
  BY <1>1, <1>3 DEF PortOK
<1>9. Baton'
  <2>1. CASE wirq
    <3>1. cs_wsem' = 1
      BY <1>1, <1>2, <2>1
    <3>2. ~ls_wbusy'
      BY <1>1, <2>1
    <3>3. \A u \in Thread : ~Sends(u)'
      BY <1>1, <1>2, <2>1 DEF Sends
    <3> QED BY <3>1, <3>2, <3>3 DEF Baton
  <2>2. CASE ~wirq
    <3>1. UNCHANGED <<cs_wsem, ls_wbusy, con>>
      BY <1>1, <1>3, <2>2
    <3> QED BY <1>1, <3>1, BatonFrame
  <2> QED BY <2>1, <2>2
<1>10. KeysOK'
  <2>1. Fetchers' = Fetchers
    BY <1>1 DEF Fetchers
  <2>2. Unread' = Unread
    <3>1. Ind(rirq)' = 0 /\ cs_rsem' = cs_rsem + Ind(rirq)
      BY <1>1 DEF Ind
    <3> QED BY <1>1, <2>1, <3>1, UnreadNat DEF Unread
  <2>3. got \in Seq(Nat)
    BY <1>1 DEF ConTypes
  <2>4. CASE rirq
    <3>1. cs_gotchar' = keys /\ keys >= 1
      BY <1>1, <2>4 DEF KeysOK
    <3>2. \A i \in DOMAIN got : 1 <= got[i] /\ got[i] <= keys
      BY <1>1, <1>3, <2>3 DEF KeysOK
    <3> QED BY <1>1, <1>3, <2>1, <2>2, <3>1, <3>2 DEF KeysOK
  <2>5. CASE ~rirq
    <3>1. cs_gotchar' = cs_gotchar /\ cs_rsem' = cs_rsem
      BY <1>1, <1>3, <2>5
    <3> QED BY <1>1, <2>1, <2>2, <3>1 DEF KeysOK
  <2> QED BY <2>4, <2>5
<1> QED BY <1>1, <1>5, <1>6, <1>7, <1>8, <1>9, <1>10, PortStep DEF ConInv

----------------------------------------------------------------------------
(* Booting *)

\* Output before the console exists.
LEMMA PutchDelayedInv ==
    ASSUME ConInv, putch_delayed("d")
    PROVE  ConInv'
<1>1. /\ ConTypes /\ Unattached /\ PortOK /\ delayed' = Append(delayed, "d")
      /\ UNCHANGED <<attached, ls_wbusy, wirq, rirq, tx, rx, screen, cs_wsem, cs_rsem, cs_gotchar,
                     rlock, wlock, con, poll, asked, keys, got, rushed, con_bad>>
  BY DEF ConInv, putch_delayed, port_vars, key_vars
<1>2. delayed' \in Seq(Char)
  BY <1>1 DEF ConTypes, Char
<1>3. ConTypes'
  BY <1>1, <1>2 DEF ConTypes
<1>4. All' = All
  BY <1>1 DEF All
<1>5. Unattached' /\ PortOK'
  BY <1>1 DEF Unattached, PortOK
<1> QED BY <1>1, <1>3, <1>4, <1>5, PortStep DEF ConInv

\* The console is attached and the delayed output becomes the boot thread's.
LEMMA ConfigConInv ==
    ASSUME ConInv, config_con
    PROVE  ConInv'
<1>1. /\ ConTypes /\ Unattached /\ PortOK /\ Baton /\ ShownOK /\ KeysOK /\ ~attached /\ attached' = TRUE
      /\ delayed' = << >> /\ asked' = [asked EXCEPT ![Boot] = delayed]
      /\ con' = [con EXCEPT ![Boot] = [Quiet EXCEPT !.pc = IF delayed = <<>> THEN "idle" ELSE "put",
                                                    !.chars = delayed]]
      /\ UNCHANGED <<ls_wbusy, wirq, rirq, tx, rx, screen, cs_wsem, cs_rsem, cs_gotchar,
                     rlock, wlock, poll, keys, got, rushed, con_bad>>
  BY DEF ConInv, config_con, port_vars, key_vars, Go
<1>2. /\ screen = << >> /\ tx = NULL /\ wlock = NULL
      /\ \A u \in Thread : con[u] = Quiet /\ asked[u] = << >>
  BY <1>1 DEF Unattached
<1>3. delayed \in Seq(Char) /\ Boot \in Thread /\ asked \in [Thread -> Seq(Char)]
  BY <1>1, ConConstants DEF ConTypes
<1>4. PICK p : p = IF delayed = <<>> THEN "idle" ELSE "put"
  OBVIOUS
<1>5. PICK r : r = [Quiet EXCEPT !.pc = p, !.chars = delayed]
  OBVIOUS
<1>6. r = [pc |-> p, user |-> FALSE, text |-> << >>, chars |-> delayed, n |-> 0, call |-> 0]
  BY <1>5 DEF Quiet
<1>7. /\ r \in ConRecord /\ r.pc = p /\ r.chars = delayed /\ p \in {"idle", "put"}
      /\ p = "put" <=> delayed # << >>
  BY <1>3, <1>4, <1>6 DEF ConRecord, ConLabels
<1>8. ~r.user
  BY <1>6
<1>9. con' = [con EXCEPT ![Boot] = r]
  BY <1>1, <1>4, <1>5
<1>10. /\ con' \in [Thread -> ConRecord] /\ con'[Boot] = r
       /\ \A u \in Thread \ {Boot} : con'[u] = con[u]
  BY <1>1, <1>3, <1>7, <1>9, ConStep
<1>11. /\ asked' \in [Thread -> Seq(Char)] /\ asked'[Boot] = delayed
       /\ \A u \in Thread \ {Boot} : asked'[u] = asked[u]
  BY <1>1, <1>3
<1>12. ConTypes'
  BY <1>1, <1>10, <1>11 DEF ConTypes
<1>13. Unattached' /\ PortOK'
  BY <1>1 DEF Unattached, PortOK
<1>14. \A u \in Thread : con[u].pc = "idle" /\ ~con[u].user /\ con[u].chars = << >>
  BY <1>2, ConConstants
<1>15. Baton'
  BY <1>1, <1>7, <1>10, <1>14, BatonFrame
<1>16. ThreadsPrint'
  <2>1. \A u \in Thread : wlock' # u
    BY <1>1, <1>2, ConConstants
  <2>2. ASSUME NEW u \in Thread
        PROVE  /\ Prints(u)' <=> con'[u].chars # << >> 
               /\ ~Writes(u)' /\ con'[u].pc \notin {"wlock", "wnext"}
    <3>1. CASE u = Boot
      BY <1>7, <1>8, <1>10, <3>1 DEF Prints, Writes
    <3>2. CASE u # Boot
      BY <1>10, <1>14, <3>2 DEF Prints, Writes
    <3> QED BY <3>1, <3>2
  <2> QED BY <2>1, <2>2 DEF ThreadsPrint
<1>17. All = << >> /\ All' = << >>
  BY <1>1, <1>2 DEF All
<1>18. ShownOK'
  <2>1. << >> \o delayed = delayed
    BY <1>3
  <2>2. \A u \in Thread : \/ con'[u].chars = con[u].chars /\ asked'[u] = asked[u]
                          \/ con[u].chars = << >> /\ asked'[u] = asked[u] \o con'[u].chars
    BY <1>2, <1>7, <1>10, <1>11, <1>14, <2>1
  <2> QED BY <1>1, <1>12, <1>17, <2>2, ShownFrame
<1>19. UsersApart'
  BY <1>17 DEF UsersApart, Together
<1>20. KeysOK'
  BY <1>1, <1>7, <1>10, <1>14, KeysFrame
<1> QED BY <1>12, <1>13, <1>15, <1>16, <1>18, <1>19, <1>20 DEF ConInv

----------------------------------------------------------------------------
(* The invariant *)

LEMMA ConInitInv ==
    ASSUME ConsoleInit
    PROVE  ConInv
<1>1. /\ attached = FALSE /\ delayed = << >> /\ ls_wbusy = FALSE /\ wirq = FALSE /\ rirq = FALSE
      /\ tx = NULL /\ rx = NULL /\ screen = << >> /\ cs_wsem = 1 /\ cs_rsem = 0 /\ cs_gotchar = 0
      /\ rlock = NULL /\ wlock = NULL /\ poll = NULL /\ keys = 0 /\ got = << >>
      /\ rushed = FALSE /\ con_bad = FALSE
      /\ con = [t \in Thread |-> Quiet] /\ asked = [t \in Thread |-> << >>]
  BY DEF ConsoleInit
<1>2. \A t \in Thread : con[t] = Quiet /\ asked[t] = << >>
  BY <1>1
<1>3. \A t \in Thread : con[t].pc = "idle" /\ ~con[t].user /\ con[t].chars = << >>
  BY <1>2, ConConstants
<1>4. ConTypes
  <2>1. << >> \in Seq(Char) /\ << >> \in Seq(PortChar) /\ << >> \in Seq(Nat)
    OBVIOUS
  <2>2. con \in [Thread -> ConRecord] /\ asked \in [Thread -> Seq(Char)]
    BY <1>1, <2>1, ConConstants
  <2> QED BY <1>1, <2>1, <2>2 DEF ConTypes
<1>5. Unattached /\ PortOK
  BY <1>1, <1>2 DEF Unattached, PortOK
<1>6. Baton
  BY <1>1, <1>3 DEF Baton, Sends
<1>7. ThreadsPrint
  <2>1. \A t \in Thread : wlock # t
    BY <1>1, ConConstants
  <2> QED BY <1>3, <2>1 DEF ThreadsPrint, Prints, Writes
<1>8. All = << >>
  BY <1>1 DEF All
<1>9. ShownOK
  <2>1. SUFFICES ASSUME NEW t \in Thread PROVE Numbered(All, t) /\ Shown(t) \o con[t].chars = asked[t]
    BY DEF ShownOK
  <2>2. Numbered(<< >>, t) /\ ShownOf(<< >>, t) = << >>
    BY ShownEmpty
  <2>3. Shown(t) = << >>
    BY <1>4, <1>8, <2>2, AllShown
  <2>4. << >> \o << >> = << >>
    OBVIOUS
  <2> QED BY <1>2, <1>3, <1>8, <2>2, <2>3, <2>4
<1>10. UsersApart
  BY <1>8 DEF UsersApart, Together
<1>11. KeysOK
  <2>1. Fetchers = {}
    BY <1>3 DEF Fetchers
  <2>2. Unread = 0
    BY <1>1, <2>1, FS_EmptySet DEF Unread, Ind
  <2> QED BY <1>1, <2>1, <2>2 DEF KeysOK
<1> QED BY <1>4, <1>5, <1>6, <1>7, <1>9, <1>10, <1>11 DEF ConInv

LEMMA ConNextInv ==
    ASSUME ConInv, [ConsoleNext]_con_vars
    PROVE  ConInv'
<1>1. ASSUME NEW t \in Thread, ConsoleStep(t) PROVE ConInv'
  BY <1>1, ConAcquireInv, ConWnextInv, ConReleaseInv, PutchIntrInv, LserWriteInv, ConRnextInv,
     GetchIntrInv, GetchFetchInv DEF ConsoleStep
<1>2. CASE Polling
  BY <1>2, PollWaitInv, PollSendInv, PollSpinInv DEF Polling
<1>3. CASE UNCHANGED con_vars
  <2>1. UNCHANGED <<attached, delayed, ls_wbusy, wirq, rirq, tx, rx, screen, cs_wsem, cs_rsem, cs_gotchar,
                    rlock, wlock, con, poll, asked, keys, got, rushed, con_bad>>
    BY <1>3 DEF con_vars, port_vars, key_vars
  <2>2. ConTypes /\ Unattached /\ PortOK
    BY DEF ConInv
  <2>3. ConTypes'
    BY <2>1, <2>2 DEF ConTypes
  <2>4. Unattached' /\ PortOK' /\ All' = All
    BY <2>1, <2>2 DEF Unattached, PortOK, All
  <2> QED BY <2>1, <2>3, <2>4, PortStep DEF ConInv
<1> QED BY <1>1, <1>2, <1>3, ConsoleCallInv, PutchDelayedInv, ConfigConInv, WritepolledInv,
           TransmitInv, TypeKeyInv, LserIrqInv DEF ConsoleNext

\* The console's invariant holds in every behaviour, for any number of threads and any bounds.
THEOREM ConsoleInvariant == ConsoleBehaviour => []ConInv
<1>1. ConsoleInit => ConInv
  BY ConInitInv
<1>2. ConInv /\ [ConsoleNext]_con_vars => ConInv'
  BY ConNextInv
<1> QED BY <1>1, <1>2, PTL DEF ConsoleBehaviour

\* console.c and lser.c print exactly what putch was given: the "Not clear to write" panic is
\* not reached, one character is under way at a time, every character is shown once and in
\* order, and a user's write is not broken by another user's, whatever is polled in between.
THEOREM ConsoleOutput == ConsoleBehaviour => []OutputExact
<1>1. ASSUME ConInv PROVE OutputExact
  <2>1. ConTypes /\ PortOK /\ Baton /\ ShownOK /\ UsersApart
    BY <1>1 DEF ConInv
  <2>2. PICK S : S = {t \in Thread : con[t].pc = "send"}
    OBVIOUS
  <2>3. cs_wsem + Cardinality(S) + (IF ls_wbusy THEN 1 ELSE 0) = 1
    <3>1. CASE S = {}
      <4>1. Cardinality(S) = 0
        BY <3>1, FS_EmptySet
      <4>2. \A t \in Thread : ~Sends(t)
        BY <2>2, <3>1 DEF Sends
      <4>3. cs_wsem = IF ls_wbusy THEN 0 ELSE 1
        BY <2>1, <4>2 DEF Baton, ConTypes
      <4> QED BY <4>1, <4>3
    <3>2. CASE S # {}
      <4>1. PICK t \in Thread : Sends(t)
        BY <2>2, <3>2 DEF Sends
      <4>2. S = {t} /\ cs_wsem = 0 /\ ~ls_wbusy
        BY <2>1, <2>2, <4>1 DEF Baton, Sends
      <4>3. Cardinality(S) = 1
        BY <4>2, FS_Singleton
      <4> QED BY <4>2, <4>3
    <3> QED BY <3>1, <3>2
  <2>4. Together(screen)
    <3>1. screen \in Seq(PortChar) /\ All \in Seq(PortChar) /\ Len(screen) \in Nat
      BY <2>1, AllShown DEF ConTypes
    <3>2. \A i \in DOMAIN screen : i \in DOMAIN All /\ All[i] = screen[i]
      BY <2>1, <3>1 DEF All, ConTypes
    <3>3. Together(All)
      BY <2>1 DEF UsersApart
    <3> QED BY <3>2, <3>3 DEF Together
  <2>5. ~con_bad /\ \A t \in Thread : Shown(t) \o con[t].chars = asked[t]
    BY <2>1 DEF PortOK, ShownOK
  <2> QED BY <2>2, <2>3, <2>4, <2>5 DEF OutputExact, Together
<1> QED BY <1>1, ConsoleInvariant, PTL

\* con_input and getch: keys are read in the order typed and never before, and none is lost or
\* read twice as long as each is read before the next is typed.
THEOREM ConsoleInput == ConsoleBehaviour => []InputOrder
<1>1. ASSUME ConInv PROVE InputOrder
  <2>1. ConTypes /\ KeysOK
    BY <1>1 DEF ConInv
  <2>2. got \in Seq(Nat) /\ cs_gotchar \in Nat /\ keys \in Nat /\ Len(got) \in Nat /\ Unread \in Nat
    BY <2>1, UnreadNat DEF ConTypes
  <2>3. \A i \in DOMAIN got : got[i] \in Nat
    BY <2>2
  <2>4. \A i \in DOMAIN got : got[i] \in 1..keys
    BY <2>1, <2>2, <2>3 DEF KeysOK
  <2>5. Len(got) <= keys
    BY <2>1, <2>2 DEF KeysOK
  <2> QED BY <2>1, <2>4, <2>5 DEF InputOrder, KeysOK
<1> QED BY <1>1, ConsoleInvariant, PTL
=============================================================================
