---------------------------- MODULE FilesProofs ----------------------------
(***************************************************************************)
(* Machine-checked proofs about open files and mounted volumes.  The open  *)
(* file table that all processes share: as long as the timer does not let  *)
(* two processes claim one entry, no descriptor shares an entry with       *)
(* another and no open is forgotten.  The emulator file system: a vnode in *)
(* use stands for the open handle of its file.  The table of mounted       *)
(* volumes: what sync has written of a free map is on disk when it is      *)
(* dropped.  The file table of assignment 3: a descriptor and its          *)
(* duplicates form a ring and keep one offset.  For any number of          *)
(* processes, files, descriptors, entries, handles, vnodes, devices, free  *)
(* map blocks and slots of a table.                                        *)
(***************************************************************************)
EXTENDS OpenFiles, EmuFs, Mounts, FileTable, ListLemmas

----------------------------------------------------------------------------
(* The inductive invariant *)

\* Where a process is opening a file, with a descriptor that it has not yet set.
OpenPlaces == {"alloc", "claim", "vfs_open"}
OfLabels == OpenPlaces \cup {"user", "transfer", "vfs_close"}

EntryRecord == [vn : Path \cup {NULL, "BUSY"}, count : Int, fp : 0..MaxFp, flags : Access \cup {NULL},
                for : Path \cup {NULL}]
CallRecord == [pc : OfLabels, fd : Fd, i : Entry \cup {0}, path : Path \cup {NULL, "BUSY"},
               flags : Access \cup {NULL}, fp : 0..MaxFp]

\* What holds whether or not an entry was claimed twice.
OfTypes ==
    /\ oft \in [Entry -> EntryRecord]
    /\ fdt \in [Thread -> [Fd -> Entry \cup {NULL}]]
    /\ of \in [Thread -> CallRecord]
    /\ opens \in [Path -> Int]
    /\ leaked \subseteq Entry /\ twice \in BOOLEAN
    /\ \A t \in Thread :
         /\ of[t].pc \in OpenPlaces =>
               pathname \in Path /\ fdt[t][of[t].fd] = NULL /\ of[t].path \in Path
         /\ of[t].pc \in {"claim", "vfs_open"} => of[t].i \in Entry
         /\ of[t].pc = "transfer" => fdt[t][of[t].fd] # NULL

\* Descriptor k of t has entry i, and t is not closing it.
Uses(t, k, i) == fdt[t][k] = i /\ ~(of[t].pc = "vfs_close" /\ of[t].fd = k)

\* An entry that is in use is in one pair of hands: a descriptor's, those of an
\* open under way (which has marked it "BUSY"), or a dead process's.
OfOwned ==
    /\ \A t, u \in Thread, k, l \in Fd, i \in Entry : Uses(t, k, i) /\ Uses(u, l, i) => t = u /\ k = l
    /\ \A t \in Thread, k \in Fd, i \in Entry : Uses(t, k, i) => oft[i].vn \in Path /\ i \notin leaked
    /\ \A t \in Thread : of[t].pc = "vfs_open" => oft[of[t].i].vn = "BUSY"
    /\ \A t, u \in Thread : of[t].pc = "vfs_open" /\ of[u].pc = "vfs_open" /\ of[t].i = of[u].i => t = u
    /\ \A t \in Thread : of[t].pc = "vfs_close" => of[t].path \in Path
    /\ \A i \in leaked : oft[i].vn \in Path
    /\ \A i \in Entry : oft[i].vn # NULL =>
         /\ oft[i].count = 1
         /\ \/ \E t \in Thread, k \in Fd : Uses(t, k, i)
            \/ \E t \in Thread : of[t].pc = "vfs_open" /\ of[t].i = i
            \/ i \in leaked

\* The entries of file g, and the processes that are closing it.
EntriesOf(g) == {i \in Entry : oft[i].vn = g}
Closing(g) == {t \in Thread : of[t].pc = "vfs_close" /\ of[t].path = g}

\* Every open that was not closed is in an entry, or being closed.
OfOpens == \A g \in Path : opens[g] = Cardinality(EntriesOf(g)) + Cardinality(Closing(g))

OfInv == OfTypes /\ (~twice => OfOwned /\ OfOpens)

----------------------------------------------------------------------------
(* Facts that the steps share *)

\* The tables' sizes, and the values that are none of their entries.
LEMMA OfSizes ==
    /\ IsFiniteSet(Entry) /\ Entry \subseteq Nat /\ Fd \subseteq Nat /\ 0 \in Fd /\ 0 \notin Entry
    /\ NULL \notin Entry /\ NULL \notin Path /\ "BUSY" \notin Path /\ NULL # "BUSY"
    /\ 0 \in 0..MaxFp /\ 0..MaxFp \subseteq Nat
    /\ Free \in EntryRecord /\ User \in CallRecord
<1>1. MAX_OPEN_FILES \in Nat \ {0} /\ MAX_FD \in Nat \ {0} /\ MaxFp \in Nat \ {0}
  BY TableSizes
<1>2. IsFiniteSet(Entry)
  BY <1>1, FS_Interval DEF Entry
<1>3. Entry \subseteq Nat /\ Fd \subseteq Nat /\ 0 \in Fd /\ 0 \notin Entry
      /\ 0 \in 0..MaxFp /\ 0..MaxFp \subseteq Nat
  BY <1>1 DEF Entry, Fd
<1>4. NULL \notin Entry /\ NULL \notin Path /\ "BUSY" \notin Path /\ NULL # "BUSY"
  BY NullIsNoEntry, PathAssumption DEF Entry
<1>5. Free \in EntryRecord
  <2>1. 0 \in 0..MaxFp /\ 0 \in Int
    BY <1>3
  <2> QED BY <2>1 DEF Free, EntryRecord
<1>6. User \in CallRecord
  BY <1>3 DEF User, CallRecord, OfLabels
<1> QED BY <1>2, <1>3, <1>4, <1>5, <1>6

\* A step that leaves every entry its file and its count, and no process at an
\* open or a close that was not there before.
LEMMA QuietStep ==
    ASSUME OfInv, OfTypes', NEW t \in Thread, UNCHANGED <<fdt, opens, leaked, twice>>,
           \A i \in Entry : oft'[i].vn = oft[i].vn /\ oft'[i].count = oft[i].count,
           \A u \in Thread \ {t} : of'[u] = of[u],
           of[t].pc \notin {"vfs_open", "vfs_close"}, of'[t].pc \notin {"vfs_open", "vfs_close"}
    PROVE  OfInv'
<1> SUFFICES ASSUME ~twice PROVE OfOwned' /\ OfOpens'
  BY DEF OfInv
<1>1. OfOwned /\ OfOpens /\ OfTypes
  BY DEF OfInv
<1>2. \A u \in Thread : /\ of'[u].pc \in {"vfs_open", "vfs_close"} <=> of[u].pc \in {"vfs_open", "vfs_close"}
                        /\ of[u].pc \in {"vfs_open", "vfs_close"} => of'[u] = of[u]
  OBVIOUS
<1>3. \A u \in Thread, k \in Fd : \A i : Uses(u, k, i)' <=> Uses(u, k, i)
  BY <1>2 DEF Uses
<1>4. OfOwned'
  <2>1. \A i \in leaked : i \in Entry
    BY <1>1 DEF OfTypes
  <2>2. \A u \in Thread : of[u].pc = "vfs_open" => of[u].i \in Entry
    BY <1>1 DEF OfTypes
  <2> QED BY <1>1, <1>2, <1>3, <2>1, <2>2 DEF OfOwned
<1>5. \A g \in Path : EntriesOf(g)' = EntriesOf(g) /\ Closing(g)' = Closing(g)
  BY <1>2 DEF EntriesOf, Closing
<1>6. OfOpens'
  BY <1>1, <1>5 DEF OfOpens
<1> QED BY <1>4, <1>6

\* A step of t alone, for the types: its place in the call, and what it knows there.
LEMMA TypesStep ==
    ASSUME OfTypes, NEW t \in Thread, NEW r \in CallRecord, of' = [of EXCEPT ![t] = r],
           oft' \in [Entry -> EntryRecord], opens' \in [Path -> Int],
           fdt' \in [Thread -> [Fd -> Entry \cup {NULL}]], leaked' \subseteq Entry, twice' \in BOOLEAN,
           \A u \in Thread \ {t} : fdt'[u] = fdt[u],
           pathname' = pathname \/ pathname' \in Path,
           r.pc \in OpenPlaces =>
               pathname' \in Path /\ fdt'[t][r.fd] = NULL /\ r.path \in Path,
           r.pc \in {"claim", "vfs_open"} => r.i \in Entry,
           r.pc = "transfer" => fdt'[t][r.fd] # NULL
    PROVE  OfTypes' /\ of'[t] = r /\ \A u \in Thread \ {t} : of'[u] = of[u]
<1>1. of \in [Thread -> CallRecord]
  BY DEF OfTypes
<1>2. of' \in [Thread -> CallRecord] /\ of'[t] = r /\ \A u \in Thread \ {t} : of'[u] = of[u]
  BY <1>1
<1>3. \A u \in Thread :
         /\ of'[u].pc \in OpenPlaces =>
               pathname' \in Path /\ fdt'[u][of'[u].fd] = NULL /\ of'[u].path \in Path
         /\ of'[u].pc \in {"claim", "vfs_open"} => of'[u].i \in Entry
         /\ of'[u].pc = "transfer" => fdt'[u][of'[u].fd] # NULL
  <2> TAKE u \in Thread
  <2>1. CASE u = t
    BY <1>2, <2>1
  <2>2. CASE u # t
    BY <1>2, <2>2 DEF OfTypes
  <2> QED BY <2>1, <2>2
<1> QED BY <1>2, <1>3 DEF OfTypes

\* What oft_free leaves of entry i.
LEMMA FreedEntry ==
    ASSUME OfTypes, NEW i \in Entry
    PROVE  /\ Freed(i) \in [Entry -> EntryRecord]
           /\ \A j \in Entry \ {i} : Freed(i)[j] = oft[j]
           /\ oft[i].count = 1 => Freed(i)[i].vn = NULL
<1>1. oft \in [Entry -> EntryRecord]
  BY DEF OfTypes
<1>2. PICK e : e = IF oft[i].count = 1 THEN Free ELSE [oft[i] EXCEPT !.count = oft[i].count - 1]
  OBVIOUS
<1>3. e \in EntryRecord /\ (oft[i].count = 1 => e.vn = NULL)
  <2>1. CASE oft[i].count = 1
    BY <1>2, <2>1, OfSizes DEF Free
  <2>2. CASE oft[i].count # 1
    <3>1. oft[i] \in EntryRecord
      BY <1>1
    <3>2. oft[i].count - 1 \in Int
      BY <3>1 DEF EntryRecord
    <3> QED BY <1>2, <2>2, <3>1, <3>2 DEF EntryRecord
  <2> QED BY <2>1, <2>2
<1>4. Freed(i) = [oft EXCEPT ![i] = e]
  BY <1>2 DEF Freed
<1> QED BY <1>1, <1>3, <1>4

----------------------------------------------------------------------------
(* Every step preserves the invariant *)

\* sys_open: the path is copied, and the first free descriptor found.
LEMMA SysOpenInv ==
    ASSUME OfInv, NEW t \in Thread, NEW f \in Path, NEW flags \in Access, sys_open(t, f, flags)
    PROVE  OfInv'
<1>1. OfTypes
  BY DEF OfInv
<1> DEFINE free == {k \in Fd : fdt[t][k] = NULL}
<1>2. PICK r \in CallRecord : /\ of' = [of EXCEPT ![t] = r] /\ r.pc \in {"user", "alloc"}
                              /\ r.pc = "alloc" => fdt[t][r.fd] = NULL /\ r.path \in Path
  <2>1. CASE free = {}
    <3>1. of' = [of EXCEPT ![t] = User] /\ User.pc = "user"
      BY <2>1 DEF sys_open, Back, Local, User
    <3> QED BY <3>1, OfSizes
  <2>2. CASE free # {}
    <3>1. PICK k \in free : k = CHOOSE x \in free : \A l \in free : x <= l
      <4>1. free \in SUBSET Nat
        BY OfSizes
      <4> QED BY <2>2, <4>1, LeastNatural
    <3>2. PICK r : r = [User EXCEPT !.pc = "alloc", !.path = f, !.flags = flags, !.fd = k]
      OBVIOUS
    <3>3. r \in CallRecord /\ r.pc = "alloc" /\ r.fd = k /\ r.path = f
      BY <3>1, <3>2, OfSizes DEF CallRecord, OfLabels, OpenPlaces
    <3>4. of' = [of EXCEPT ![t] = r]
      BY <2>2, <3>1, <3>2 DEF sys_open, Local
    <3> QED BY <3>1, <3>3, <3>4
  <2> QED BY <2>1, <2>2
<1>3. /\ UNCHANGED <<oft, fdt, opens, leaked, twice>> /\ pathname' = f /\ of[t].pc = "user"
  BY DEF sys_open, InCall
<1>4. OfTypes' /\ of'[t] = r /\ \A u \in Thread \ {t} : of'[u] = of[u]
  <2>1. /\ oft' \in [Entry -> EntryRecord] /\ opens' \in [Path -> Int]
        /\ fdt' \in [Thread -> [Fd -> Entry \cup {NULL}]] /\ leaked' \subseteq Entry /\ twice' \in BOOLEAN
    BY <1>1, <1>3 DEF OfTypes
  <2> QED BY <1>1, <1>2, <1>3, <2>1, TypesStep DEF OpenPlaces
<1> QED BY <1>2, <1>3, <1>4, QuietStep

\* oft_alloc: the search for a free entry.
LEMMA AllocTestInv ==
    ASSUME OfInv, NEW t \in Thread, oft_alloc_test(t)
    PROVE  OfInv'
<1>1. OfTypes /\ of[t].pc = "alloc" /\ of[t] \in CallRecord
  BY DEF OfInv, OfTypes, oft_alloc_test, InCall
<1> DEFINE free == {i \in Entry : oft[i].vn = NULL}
<1>2. PICK r \in CallRecord : /\ of' = [of EXCEPT ![t] = r] /\ r.pc \in {"user", "claim"}
                              /\ r.pc = "claim" => r.i \in Entry /\ r.fd = of[t].fd /\ r.path = of[t].path
  <2>1. CASE free = {}
    <3>1. of' = [of EXCEPT ![t] = User] /\ User.pc = "user"
      BY <2>1 DEF oft_alloc_test, Back, Local, User
    <3> QED BY <3>1, OfSizes
  <2>2. CASE free # {}
    <3>1. PICK k \in free : k = CHOOSE x \in free : \A l \in free : x <= l
      <4>1. free \in SUBSET Nat
        BY OfSizes
      <4> QED BY <2>2, <4>1, LeastNatural
    <3>2. PICK r : r = [of[t] EXCEPT !.pc = "claim", !.i = k]
      OBVIOUS
    <3>3. r \in CallRecord /\ r.pc = "claim" /\ r.i = k /\ r.fd = of[t].fd /\ r.path = of[t].path
      BY <1>1, <3>1, <3>2 DEF CallRecord, OfLabels, OpenPlaces
    <3>4. of' = [of EXCEPT ![t] = r]
      BY <2>2, <3>1, <3>2 DEF oft_alloc_test, Local
    <3> QED BY <3>1, <3>3, <3>4
  <2> QED BY <2>1, <2>2
<1>3. UNCHANGED <<oft, fdt, opens, leaked, twice, pathname>>
  BY DEF oft_alloc_test
<1>4. OfTypes' /\ of'[t] = r /\ \A u \in Thread \ {t} : of'[u] = of[u]
  <2>1. /\ oft' \in [Entry -> EntryRecord] /\ opens' \in [Path -> Int]
        /\ fdt' \in [Thread -> [Fd -> Entry \cup {NULL}]] /\ leaked' \subseteq Entry /\ twice' \in BOOLEAN
    BY <1>1, <1>3 DEF OfTypes
  <2>2. pathname \in Path /\ fdt[t][of[t].fd] = NULL /\ of[t].path \in Path
    BY <1>1 DEF OfTypes, OpenPlaces
  <2> QED BY <1>1, <1>2, <1>3, <2>1, <2>2, TypesStep DEF OpenPlaces
<1> QED BY <1>1, <1>2, <1>3, <1>4, QuietStep

\* oft_alloc: the entry is claimed; when another process has it, twice is set.
LEMMA AllocClaimInv ==
    ASSUME OfInv, NEW t \in Thread, oft_alloc_claim(t)
    PROVE  OfInv'
<1>1. /\ OfTypes /\ of[t].pc = "claim" /\ of[t] \in CallRecord
  BY DEF OfInv, OfTypes, oft_alloc_claim, InCall
<1>2. PICK i \in Entry : i = of[t].i
  BY <1>1 DEF OfTypes
<1>3. PICK r : r = [of[t] EXCEPT !.pc = "vfs_open"]
  OBVIOUS
<1>4. r \in CallRecord /\ r.pc = "vfs_open" /\ r.i = i /\ r.fd = of[t].fd /\ r.path = of[t].path
  BY <1>1, <1>2, <1>3 DEF CallRecord, OfLabels, OpenPlaces
<1>5. PICK e : e = [oft[i] EXCEPT !.vn = "BUSY", !.count = 1]
  OBVIOUS
<1>6. e \in EntryRecord /\ e.vn = "BUSY" /\ e.count = 1
  <2>1. oft[i] \in EntryRecord
    BY <1>1 DEF OfTypes
  <2>2. 1 \in Int
    OBVIOUS
  <2> QED BY <1>5, <2>1, <2>2 DEF EntryRecord
<1>7. /\ of' = [of EXCEPT ![t] = r] /\ oft' = [oft EXCEPT ![i] = e]
      /\ twice' = (twice \/ oft[i].vn # NULL)
      /\ UNCHANGED <<fdt, opens, leaked, pathname>>
  BY <1>2, <1>3, <1>5 DEF oft_alloc_claim, Local
<1>8. /\ oft' \in [Entry -> EntryRecord] /\ oft'[i] = e /\ \A j \in Entry \ {i} : oft'[j] = oft[j]
  BY <1>1, <1>6, <1>7 DEF OfTypes
<1>9. OfTypes' /\ of'[t] = r /\ \A u \in Thread \ {t} : of'[u] = of[u]
  <2>1. /\ opens' \in [Path -> Int] /\ twice' \in BOOLEAN
        /\ fdt' \in [Thread -> [Fd -> Entry \cup {NULL}]] /\ leaked' \subseteq Entry
    BY <1>1, <1>7 DEF OfTypes
  <2>2. pathname \in Path /\ fdt[t][of[t].fd] = NULL /\ of[t].path \in Path
    BY <1>1 DEF OfTypes, OpenPlaces
  <2> QED BY <1>1, <1>4, <1>7, <1>8, <2>1, <2>2, TypesStep
<1>10. ASSUME ~twice' PROVE OfOwned' /\ OfOpens'
  <2>1. OfOwned /\ OfOpens /\ oft[i].vn = NULL
    BY <1>7, <1>10 DEF OfInv
  <2>2. \A u \in Thread, k \in Fd : \A j : Uses(u, k, j)' <=> Uses(u, k, j)
    BY <1>1, <1>4, <1>7, <1>9 DEF Uses
  <2>3. /\ \A u \in Thread, k \in Fd : ~Uses(u, k, i)
        /\ i \notin leaked /\ \A u \in Thread : of[u].pc = "vfs_open" => of[u].i # i
    BY <2>1, OfSizes DEF OfOwned
  <2>4. leaked \subseteq Entry /\ \A u \in Thread : of[u].pc = "vfs_open" => of[u].i \in Entry
    BY <1>1 DEF OfTypes
  <2>5. \A u \in Thread : /\ of'[u].pc = "vfs_open" <=> of[u].pc = "vfs_open" \/ u = t
                          /\ of'[u].pc = "vfs_close" <=> of[u].pc = "vfs_close"
                          /\ of'[u].i = of[u].i /\ of'[u].path = of[u].path
    BY <1>1, <1>2, <1>4, <1>9
  <2>6. OfOwned'
    <3>1. /\ \A u, w \in Thread, k, l \in Fd, j \in Entry : Uses(u, k, j)' /\ Uses(w, l, j)' => u = w /\ k = l
          /\ \A u \in Thread, k \in Fd, j \in Entry : Uses(u, k, j)' => oft'[j].vn \in Path /\ j \notin leaked'
      BY <1>7, <1>8, <2>1, <2>2, <2>3 DEF OfOwned
    <3>2. /\ \A u \in Thread : of'[u].pc = "vfs_open" => oft'[of'[u].i].vn = "BUSY"
          /\ \A u, w \in Thread :
                of'[u].pc = "vfs_open" /\ of'[w].pc = "vfs_open" /\ of'[u].i = of'[w].i => u = w
      BY <1>2, <1>6, <1>8, <2>1, <2>3, <2>4, <2>5 DEF OfOwned
    <3>3. \A u \in Thread : of'[u].pc = "vfs_close" => of'[u].path \in Path
      BY <2>1, <2>5 DEF OfOwned
    <3>4. \A j \in leaked' : oft'[j].vn \in Path
      BY <1>7, <1>8, <2>1, <2>3, <2>4 DEF OfOwned
    <3>5. \A j \in Entry : oft'[j].vn # NULL =>
             /\ oft'[j].count = 1
             /\ \/ \E u \in Thread, k \in Fd : Uses(u, k, j)'
                \/ \E u \in Thread : of'[u].pc = "vfs_open" /\ of'[u].i = j
                \/ j \in leaked'
      <4> SUFFICES ASSUME NEW j \in Entry, oft'[j].vn # NULL
                   PROVE  /\ oft'[j].count = 1
                          /\ \/ \E u \in Thread, k \in Fd : Uses(u, k, j)'
                             \/ \E u \in Thread : of'[u].pc = "vfs_open" /\ of'[u].i = j
                             \/ j \in leaked'
        OBVIOUS
      <4>1. CASE j = i
        BY <1>2, <1>6, <1>8, <2>5, <4>1
      <4>2. CASE j # i
        BY <1>7, <1>8, <2>1, <2>2, <2>5, <4>2 DEF OfOwned
      <4> QED BY <4>1, <4>2
    <3> QED BY <3>1, <3>2, <3>3, <3>4, <3>5 DEF OfOwned
  <2>7. \A g \in Path : EntriesOf(g)' = EntriesOf(g) /\ Closing(g)' = Closing(g)
    BY <1>6, <1>8, <2>1, <2>5, OfSizes DEF EntriesOf, Closing
  <2> QED BY <1>7, <2>1, <2>6, <2>7 DEF OfOpens
<1> QED BY <1>9, <1>10 DEF OfInv

\* vfs_open fails, and the entry is free again: nothing but the entry and the
\* process's place changes, its descriptor was free anyway.
LEMMA OpenFailInv ==
    ASSUME OfInv, NEW t \in Thread, of[t].pc = "vfs_open", oft' = Freed(of[t].i),
           fdt' = [fdt EXCEPT ![t][of[t].fd] = NULL], of' = [of EXCEPT ![t] = User],
           UNCHANGED <<opens, pathname, leaked, twice>>
    PROVE  OfInv'
<1>1. OfTypes
  BY DEF OfInv
<1>2. PICK i \in Entry : i = of[t].i
  BY <1>1 DEF OfTypes
<1>3. /\ oft' \in [Entry -> EntryRecord] /\ \A j \in Entry \ {i} : oft'[j] = oft[j]
      /\ oft[i].count = 1 => oft'[i].vn = NULL
  BY <1>1, <1>2, FreedEntry
<1>4. fdt' = fdt
  <2>1. of[t].fd \in Fd /\ fdt \in [Thread -> [Fd -> Entry \cup {NULL}]]
    BY <1>1 DEF OfTypes, CallRecord
  <2>2. fdt[t][of[t].fd] = NULL
    BY <1>1 DEF OfTypes, OpenPlaces
  <2>3. [fdt[t] EXCEPT ![of[t].fd] = NULL] = fdt[t]
    BY <2>1, <2>2
  <2> QED BY <2>1, <2>3
<1>5. OfTypes' /\ of'[t] = User /\ \A u \in Thread \ {t} : of'[u] = of[u]
  <2>1. /\ opens' \in [Path -> Int] /\ twice' \in BOOLEAN
        /\ fdt' \in [Thread -> [Fd -> Entry \cup {NULL}]] /\ leaked' \subseteq Entry
    BY <1>1, <1>4 DEF OfTypes
  <2>2. User.pc = "user"
    BY DEF User
  <2> QED BY <1>1, <1>3, <1>4, <2>1, <2>2, OfSizes, TypesStep DEF OpenPlaces
<1>6. ASSUME ~twice PROVE OfOwned' /\ OfOpens'
  <2>1. OfOwned /\ OfOpens /\ oft[i].vn = "BUSY" /\ oft[i].count = 1 /\ oft'[i].vn = NULL
    BY <1>2, <1>3, <1>6, OfSizes DEF OfInv, OfOwned
  <2>2. of'[t].pc = "user"
    BY <1>5 DEF User
  <2>3. \A u \in Thread, k \in Fd : \A j : Uses(u, k, j)' <=> Uses(u, k, j)
    BY <1>4, <1>5, <2>2 DEF Uses
  <2>4. /\ \A u \in Thread, k \in Fd : ~Uses(u, k, i)
        /\ i \notin leaked /\ \A u \in Thread \ {t} : of[u].pc = "vfs_open" => of[u].i # i
    BY <1>2, <2>1, OfSizes DEF OfOwned
  <2>5. leaked \subseteq Entry /\ \A u \in Thread : of[u].pc = "vfs_open" => of[u].i \in Entry
    BY <1>1 DEF OfTypes
  <2>6. OfOwned'
    <3>1. /\ \A u, w \in Thread, k, l \in Fd, j \in Entry : Uses(u, k, j)' /\ Uses(w, l, j)' => u = w /\ k = l
          /\ \A u \in Thread, k \in Fd, j \in Entry : Uses(u, k, j)' => oft'[j].vn \in Path /\ j \notin leaked'
      BY <1>3, <2>1, <2>3, <2>4 DEF OfOwned
    <3>2. /\ \A u \in Thread : of'[u].pc = "vfs_open" => oft'[of'[u].i].vn = "BUSY"
          /\ \A u, w \in Thread :
                of'[u].pc = "vfs_open" /\ of'[w].pc = "vfs_open" /\ of'[u].i = of'[w].i => u = w
          /\ \A u \in Thread : of'[u].pc = "vfs_close" => of'[u].path \in Path
      BY <1>3, <1>5, <2>1, <2>2, <2>4, <2>5 DEF OfOwned
    <3>3. \A j \in leaked' : oft'[j].vn \in Path
      BY <1>3, <2>1, <2>4, <2>5 DEF OfOwned
    <3>4. \A j \in Entry : oft'[j].vn # NULL =>
             /\ oft'[j].count = 1
             /\ \/ \E u \in Thread, k \in Fd : Uses(u, k, j)'
                \/ \E u \in Thread : of'[u].pc = "vfs_open" /\ of'[u].i = j
                \/ j \in leaked'
      BY <1>2, <1>3, <1>5, <2>1, <2>3 DEF OfOwned
    <3> QED BY <3>1, <3>2, <3>3, <3>4 DEF OfOwned
  <2>7. \A g \in Path : EntriesOf(g)' = EntriesOf(g) /\ Closing(g)' = Closing(g)
    BY <1>3, <1>5, <2>1, <2>2, OfSizes DEF EntriesOf, Closing
  <2> QED BY <2>1, <2>6, <2>7 DEF OfOpens
<1> QED BY <1>5, <1>6 DEF OfInv

\* vfs_open succeeds: the entry has the file that the shared buffer names, and the
\* descriptor has the entry.
LEMMA OpenDoneInv ==
    ASSUME OfInv, NEW t \in Thread, of[t].pc = "vfs_open",
           oft' = [oft EXCEPT ![of[t].i] = [@ EXCEPT !.vn = pathname, !.fp = 0,
                                              !.flags = of[t].flags, !.for = of[t].path]],
           fdt' = [fdt EXCEPT ![t][of[t].fd] = of[t].i], of' = [of EXCEPT ![t] = User],
           opens' = [opens EXCEPT ![pathname] = @ + 1],
           UNCHANGED <<pathname, leaked, twice>>
    PROVE  OfInv'
<1>1. OfTypes /\ of[t] \in CallRecord
  BY DEF OfInv, OfTypes
<1>2. PICK i \in Entry : i = of[t].i
  BY <1>1 DEF OfTypes
<1>3. PICK p \in Path : p = pathname
  BY <1>1 DEF OfTypes, OpenPlaces
<1>4. PICK n \in Fd : n = of[t].fd
  BY <1>1 DEF CallRecord
<1>5. PICK e : e = [oft[i] EXCEPT !.vn = p, !.fp = 0, !.flags = of[t].flags, !.for = of[t].path]
  OBVIOUS
<1>6. e \in EntryRecord /\ e.vn = p /\ e.count = oft[i].count
  <2>1. oft[i] \in EntryRecord /\ 0 \in 0..MaxFp
    BY <1>1, OfSizes DEF OfTypes
  <2>2. of[t].path \in Path /\ of[t].flags \in Access \cup {NULL}
    BY <1>1 DEF OfTypes, OpenPlaces, CallRecord
  <2> QED BY <1>5, <2>1, <2>2 DEF EntryRecord
<1>7. /\ oft' = [oft EXCEPT ![i] = e]
  BY <1>2, <1>3, <1>5
<1>8. /\ oft' \in [Entry -> EntryRecord] /\ oft'[i] = e /\ \A j \in Entry \ {i} : oft'[j] = oft[j]
  BY <1>1, <1>6, <1>7 DEF OfTypes
<1>9. /\ fdt' \in [Thread -> [Fd -> Entry \cup {NULL}]] /\ fdt[t][n] = NULL /\ fdt'[t][n] = i
      /\ \A u \in Thread \ {t} : fdt'[u] = fdt[u]
      /\ \A k \in Fd \ {n} : fdt'[t][k] = fdt[t][k]
  BY <1>1, <1>2, <1>4 DEF OfTypes, OpenPlaces
<1>10. /\ opens' \in [Path -> Int] /\ opens'[p] = opens[p] + 1 /\ \A g \in Path \ {p} : opens'[g] = opens[g]
  BY <1>1, <1>3 DEF OfTypes
<1>11. OfTypes' /\ of'[t] = User /\ \A u \in Thread \ {t} : of'[u] = of[u]
  <2>1. twice' \in BOOLEAN /\ leaked' \subseteq Entry
    BY <1>1 DEF OfTypes
  <2>2. User.pc = "user"
    BY DEF User
  <2> QED BY <1>1, <1>8, <1>9, <1>10, <2>1, <2>2, OfSizes, TypesStep DEF OpenPlaces
<1>12. ASSUME ~twice PROVE OfOwned' /\ OfOpens'
  <2>1. OfOwned /\ OfOpens /\ oft[i].vn = "BUSY" /\ oft[i].count = 1
    BY <1>2, <1>12, OfSizes DEF OfInv, OfOwned
  <2>2. of'[t].pc = "user"
    BY <1>11 DEF User
  <2>3. \A u \in Thread, k \in Fd, j \in Entry :
           Uses(u, k, j)' <=> Uses(u, k, j) \/ (u = t /\ k = n /\ j = i)
    BY <1>9, <1>11, <2>2, OfSizes DEF Uses
  <2>4. /\ \A u \in Thread, k \in Fd : ~Uses(u, k, i)
        /\ i \notin leaked /\ \A u \in Thread \ {t} : of[u].pc = "vfs_open" => of[u].i # i
    BY <1>2, <2>1, OfSizes DEF OfOwned
  <2>5. leaked \subseteq Entry /\ \A u \in Thread : of[u].pc = "vfs_open" => of[u].i \in Entry
    BY <1>1 DEF OfTypes
  <2>6. OfOwned'
    <3>1. /\ \A u, w \in Thread, k, l \in Fd, j \in Entry : Uses(u, k, j)' /\ Uses(w, l, j)' => u = w /\ k = l
          /\ \A u \in Thread, k \in Fd, j \in Entry : Uses(u, k, j)' => oft'[j].vn \in Path /\ j \notin leaked'
      <4>1. \A u, w \in Thread, k, l \in Fd, j \in Entry : Uses(u, k, j)' /\ Uses(w, l, j)' => u = w /\ k = l
        BY <2>1, <2>3, <2>4 DEF OfOwned
      <4>2. ASSUME NEW u \in Thread, NEW k \in Fd, NEW j \in Entry, Uses(u, k, j)'
            PROVE  oft'[j].vn \in Path /\ j \notin leaked'
        <5>1. CASE j = i
          BY <1>6, <1>8, <2>4, <5>1
        <5>2. CASE j # i
          <6>1. Uses(u, k, j)
            BY <2>3, <4>2, <5>2
          <6>2. oft[j].vn \in Path /\ j \notin leaked
            BY <2>1, <6>1 DEF OfOwned
          <6> QED BY <1>8, <5>2, <6>2
        <5> QED BY <5>1, <5>2
      <4> QED BY <4>1, <4>2
    <3>2. /\ \A u \in Thread : of'[u].pc = "vfs_open" => oft'[of'[u].i].vn = "BUSY"
          /\ \A u, w \in Thread :
                of'[u].pc = "vfs_open" /\ of'[w].pc = "vfs_open" /\ of'[u].i = of'[w].i => u = w
          /\ \A u \in Thread : of'[u].pc = "vfs_close" => of'[u].path \in Path
      BY <1>8, <1>11, <2>1, <2>2, <2>4, <2>5 DEF OfOwned
    <3>3. \A j \in leaked' : oft'[j].vn \in Path
      BY <1>8, <2>1, <2>4, <2>5 DEF OfOwned
    <3>4. \A j \in Entry : oft'[j].vn # NULL =>
             /\ oft'[j].count = 1
             /\ \/ \E u \in Thread, k \in Fd : Uses(u, k, j)'
                \/ \E u \in Thread : of'[u].pc = "vfs_open" /\ of'[u].i = j
                \/ j \in leaked'
      BY <1>2, <1>6, <1>8, <1>11, <2>1, <2>3 DEF OfOwned
    <3> QED BY <3>1, <3>2, <3>3, <3>4 DEF OfOwned
  <2>7. \A g \in Path : Closing(g)' = Closing(g)
    BY <1>11, <2>2 DEF Closing
  <2>8. ASSUME NEW g \in Path PROVE opens'[g] = Cardinality(EntriesOf(g))' + Cardinality(Closing(g))'
    <3>1. EntriesOf(g)' \ {i} = EntriesOf(g) \ {i} /\ (i \in EntriesOf(g)' <=> g = p)
          /\ i \notin EntriesOf(g)
      BY <1>6, <1>8, <2>1, OfSizes DEF EntriesOf
    <3>2. IsFiniteSet(EntriesOf(g))
      <4>1. EntriesOf(g) \in SUBSET Entry
        BY DEF EntriesOf
      <4> QED BY <4>1, OfSizes, FS_Subset
    <3>3. /\ Cardinality(EntriesOf(g)) \in Nat
          /\ Cardinality(EntriesOf(g)') = Cardinality(EntriesOf(g)) + Ind(i \in EntriesOf(g)') - Ind(i \in EntriesOf(g))
      BY <3>1, <3>2, SetStep
    <3>4. Cardinality(Closing(g)) \in Nat
      <4>1. Closing(g) \in SUBSET Thread
        BY DEF Closing
      <4> QED BY <4>1, ThreadsFinite, FS_Subset, FS_CardinalityType
    <3>5. opens[g] = Cardinality(EntriesOf(g)) + Cardinality(Closing(g))
      BY <2>1 DEF OfOpens
    <3>6. opens'[g] = opens[g] + Ind(g = p)
      BY <1>1, <1>10 DEF Ind, OfTypes
    <3> QED BY <2>7, <3>1, <3>3, <3>4, <3>5, <3>6 DEF Ind
  <2> QED BY <2>6, <2>8 DEF OfOpens
<1> QED BY <1>11, <1>12 DEF OfInv

\* vfs_open's end, either way.
LEMMA OpenFinishInv ==
    ASSUME OfInv, NEW t \in Thread, open_finish(t)
    PROVE  OfInv'
<1>1. of[t].pc = "vfs_open" /\ of' = [of EXCEPT ![t] = User] /\ UNCHANGED <<pathname, leaked, twice>>
  BY DEF open_finish, InCall, Back, Local
<1>2. CASE oft' = Freed(of[t].i) /\ fdt' = [fdt EXCEPT ![t][of[t].fd] = NULL] /\ UNCHANGED opens
  BY <1>1, <1>2, OpenFailInv
<1>3. CASE /\ fdt' = [fdt EXCEPT ![t][of[t].fd] = of[t].i]
           /\ oft' = [oft EXCEPT ![of[t].i] = [@ EXCEPT !.vn = pathname, !.fp = 0,
                                                 !.flags = of[t].flags, !.for = of[t].path]]
           /\ opens' = [opens EXCEPT ![pathname] = @ + 1]
  BY <1>1, <1>3, OpenDoneInv
<1> QED BY <1>2, <1>3 DEF open_finish

\* sys_read, sys_write and their end, sys_lseek and sys_fstat: the position of one
\* entry at most.
LEMMA TransferInv ==
    ASSUME OfInv, NEW t \in Thread,
           \/ \E k \in Fd : \/ sys_io(t, k, "WRONLY") \/ sys_io(t, k, "RDONLY") \/ sys_fstat(t, k)
                            \/ \E fp \in 0..MaxFp : sys_lseek(t, k, fp)
           \/ io_move(t)
    PROVE  OfInv'
<1>1. OfTypes /\ of[t] \in CallRecord /\ of \in [Thread -> CallRecord]
  BY DEF OfInv, OfTypes
<1>2. /\ UNCHANGED <<fdt, opens, leaked, twice, pathname>>
      /\ of[t].pc \in {"user", "transfer"}
  BY DEF sys_io, sys_fstat, sys_lseek, io_move, InCall
<1>3. PICK r \in CallRecord : /\ of' = [of EXCEPT ![t] = r] /\ r.pc \in {"user", "transfer"}
                              /\ r.pc = "transfer" => fdt[t][r.fd] # NULL
  <2>1. ASSUME NEW k \in Fd, NEW not, sys_io(t, k, not)
        PROVE  \E r \in CallRecord : /\ of' = [of EXCEPT ![t] = r] /\ r.pc \in {"user", "transfer"}
                                     /\ r.pc = "transfer" => fdt[t][r.fd] # NULL
    <3>1. PICK x : x = oft[fdt[t][k]].fp
      OBVIOUS
    <3>2. PICK r : r = [User EXCEPT !.pc = "transfer", !.fd = k, !.fp = x]
      OBVIOUS
    <3>3. x \in 0..MaxFp
      <4>1. fdt[t][k] # NULL
        BY <2>1 DEF sys_io, Accessible
      <4>2. fdt[t][k] \in Entry
        <5>1. fdt[t] \in [Fd -> Entry \cup {NULL}]
          BY <1>1 DEF OfTypes
        <5> QED BY <4>1, <5>1
      <4>3. oft[fdt[t][k]] \in EntryRecord
        BY <1>1, <4>2 DEF OfTypes
      <4> QED BY <3>1, <4>3 DEF EntryRecord
    <3>4. r \in CallRecord /\ r.pc = "transfer" /\ r.fd = k
      BY <3>2, <3>3, OfSizes DEF CallRecord, OfLabels
    <3>5. of' = [of EXCEPT ![t] = r] /\ fdt[t][k] # NULL
      BY <2>1, <3>1, <3>2 DEF sys_io, Local, Accessible
    <3> QED BY <3>4, <3>5
  <2>2. CASE io_move(t)
    <3>1. of' = [of EXCEPT ![t] = User] /\ User.pc = "user"
      BY <2>2 DEF io_move, Back, Local, User
    <3> QED BY <3>1, OfSizes
  <2>3. CASE of' = of
    <3>1. of' = [of EXCEPT ![t] = of[t]]
      BY <1>1, <2>3
    <3>2. of[t].pc = "transfer" => fdt[t][of[t].fd] # NULL
      BY <1>1 DEF OfTypes
    <3> QED BY <1>1, <1>2, <3>1, <3>2
  <2>4. \/ \E k \in Fd, not \in {"WRONLY", "RDONLY"} : sys_io(t, k, not)
        \/ io_move(t) \/ of' = of
    BY DEF sys_fstat, sys_lseek
  <2> QED BY <2>1, <2>2, <2>3, <2>4
<1>4. /\ oft' \in [Entry -> EntryRecord]
      /\ \A i \in Entry : oft'[i].vn = oft[i].vn /\ oft'[i].count = oft[i].count
  <2>1. ASSUME NEW i \in Entry, NEW x \in 0..MaxFp, oft' = [oft EXCEPT ![i].fp = x]
        PROVE  /\ oft' \in [Entry -> EntryRecord]
               /\ \A j \in Entry : oft'[j].vn = oft[j].vn /\ oft'[j].count = oft[j].count
    <3>1. PICK e : e = [oft[i] EXCEPT !.fp = x]
      OBVIOUS
    <3>2. oft[i] \in EntryRecord /\ oft \in [Entry -> EntryRecord] /\ x \in Nat
      BY <1>1, OfSizes DEF OfTypes
    <3>3. e \in EntryRecord /\ e.vn = oft[i].vn /\ e.count = oft[i].count
      BY <3>1, <3>2 DEF EntryRecord
    <3>4. oft' = [oft EXCEPT ![i] = e]
      BY <2>1, <3>1
    <3> QED BY <3>2, <3>3, <3>4
  <2>2. CASE oft' = oft
    BY <1>1, <2>2 DEF OfTypes
  <2>3. ASSUME NEW k \in Fd, NEW x \in 0..MaxFp, sys_lseek(t, k, x)
        PROVE  fdt[t][k] \in Entry /\ oft' = [oft EXCEPT ![fdt[t][k]].fp = x]
    BY <1>1, <2>3 DEF sys_lseek, Accessible, OfTypes
  <2>4. ASSUME io_move(t)
        PROVE  oft' = oft \/ \E i \in Entry, x \in 0..MaxFp : oft' = [oft EXCEPT ![i].fp = x]
    <3>1. of[t].pc = "transfer"
      BY <2>4 DEF io_move, InCall
    <3>2. fdt[t][of[t].fd] \in Entry
      <4>1. of[t].fd \in Fd
        BY <1>1 DEF CallRecord
      <4> QED BY <1>1, <3>1, <4>1 DEF OfTypes
    <3>3. of[t].fp \in 0..MaxFp /\ MaxFp \in Nat
      BY <1>1, TableSizes DEF CallRecord
    <3>4. ASSUME NEW n \in 0..(MaxFp - of[t].fp) PROVE of[t].fp + n \in 0..MaxFp
      BY <3>3
    <3> QED BY <2>4, <3>2, <3>4 DEF io_move
  <2>5. \/ oft' = oft \/ io_move(t) \/ \E k \in Fd, x \in 0..MaxFp : sys_lseek(t, k, x)
    BY DEF sys_io, sys_fstat
  <2> QED BY <2>1, <2>2, <2>3, <2>4, <2>5
<1>5. OfTypes' /\ of'[t] = r /\ \A u \in Thread \ {t} : of'[u] = of[u]
  <2>1. /\ opens' \in [Path -> Int] /\ twice' \in BOOLEAN
        /\ fdt' \in [Thread -> [Fd -> Entry \cup {NULL}]] /\ leaked' \subseteq Entry
    BY <1>1, <1>2 DEF OfTypes
  <2> QED BY <1>1, <1>2, <1>3, <1>4, <2>1, TypesStep DEF OpenPlaces
<1> QED BY <1>2, <1>3, <1>4, <1>5, QuietStep

\* sys_close: the entry is free before vfs_close; a descriptor of a process that
\* is closing it does not count.
LEMMA CloseInv ==
    ASSUME OfInv, NEW t \in Thread, NEW n \in Fd, sys_close(t, n)
    PROVE  OfInv'
<1>1. OfTypes /\ of[t].pc = "user" /\ UNCHANGED <<pathname, opens, leaked, twice>>
  BY DEF OfInv, sys_close, InCall
<1>2. PICK i \in Entry : i = fdt[t][n]
  BY <1>1 DEF OfTypes, sys_close, Accessible
<1>3. /\ oft' \in [Entry -> EntryRecord] /\ \A j \in Entry \ {i} : oft'[j] = oft[j]
      /\ oft[i].count = 1 => oft'[i].vn = NULL
  BY <1>1, <1>2, FreedEntry DEF sys_close
<1>4. CASE oft[i].count = 1
  <2>1. PICK r : r = [User EXCEPT !.pc = "vfs_close", !.fd = n, !.path = oft[i].vn]
    OBVIOUS
  <2>2. r \in CallRecord /\ r.pc = "vfs_close" /\ r.fd = n /\ r.path = oft[i].vn
    <3>1. oft[i].vn \in Path \cup {NULL, "BUSY"}
      BY <1>1 DEF OfTypes, EntryRecord
    <3> QED BY <2>1, <3>1, OfSizes DEF CallRecord, OfLabels
  <2>3. of' = [of EXCEPT ![t] = r] /\ fdt' = fdt
    BY <1>2, <1>4, <2>1 DEF sys_close, Local
  <2>4. OfTypes' /\ of'[t] = r /\ \A u \in Thread \ {t} : of'[u] = of[u]
    <3>1. /\ opens' \in [Path -> Int] /\ twice' \in BOOLEAN
          /\ fdt' \in [Thread -> [Fd -> Entry \cup {NULL}]] /\ leaked' \subseteq Entry
      BY <1>1, <2>3 DEF OfTypes
    <3> QED BY <1>1, <1>3, <2>2, <2>3, <3>1, TypesStep DEF OpenPlaces
  <2>5. ASSUME ~twice PROVE OfOwned' /\ OfOpens'
    <3>1. Uses(t, n, i) /\ oft'[i].vn = NULL
      BY <1>1, <1>2, <1>3, <1>4 DEF Uses
    <3>2. OfOwned /\ OfOpens /\ oft[i].vn \in Path /\ i \notin leaked
      BY <2>5, <3>1 DEF OfInv, OfOwned
    <3>3. \A u \in Thread, k \in Fd, j \in Entry :
             Uses(u, k, j)' <=> Uses(u, k, j) /\ ~(u = t /\ k = n)
      BY <1>1, <2>2, <2>3, <2>4 DEF Uses
    <3>4. /\ \A u \in Thread, k \in Fd : Uses(u, k, i) => u = t /\ k = n
          /\ \A u \in Thread : of[u].pc = "vfs_open" => of[u].i # i
      BY <3>1, <3>2, OfSizes DEF OfOwned
    <3>5. leaked \subseteq Entry /\ \A u \in Thread : of[u].pc = "vfs_open" => of[u].i \in Entry
      BY <1>1 DEF OfTypes
    <3>6. OfOwned'
      <4>1. \A u, w \in Thread, k, l \in Fd, j \in Entry : Uses(u, k, j)' /\ Uses(w, l, j)' => u = w /\ k = l
        BY <3>2, <3>3 DEF OfOwned
      <4>2. ASSUME NEW u \in Thread, NEW k \in Fd, NEW j \in Entry, Uses(u, k, j)'
            PROVE  oft'[j].vn \in Path /\ j \notin leaked'
        <5>1. Uses(u, k, j) /\ j # i
          BY <3>3, <3>4, <4>2
        <5>2. oft[j].vn \in Path /\ j \notin leaked
          BY <3>2, <5>1 DEF OfOwned
        <5> QED BY <1>1, <1>3, <5>1, <5>2
      <4>3. /\ \A u \in Thread : of'[u].pc = "vfs_open" => oft'[of'[u].i].vn = "BUSY"
            /\ \A u, w \in Thread :
                  of'[u].pc = "vfs_open" /\ of'[w].pc = "vfs_open" /\ of'[u].i = of'[w].i => u = w
            /\ \A u \in Thread : of'[u].pc = "vfs_close" => of'[u].path \in Path
        BY <1>3, <2>2, <2>4, <3>2, <3>4, <3>5 DEF OfOwned
      <4>4. \A j \in leaked' : oft'[j].vn \in Path
        BY <1>1, <1>3, <3>2, <3>5 DEF OfOwned
      <4>5. \A j \in Entry : oft'[j].vn # NULL =>
               /\ oft'[j].count = 1
               /\ \/ \E u \in Thread, k \in Fd : Uses(u, k, j)'
                  \/ \E u \in Thread : of'[u].pc = "vfs_open" /\ of'[u].i = j
                  \/ j \in leaked'
        <5> SUFFICES ASSUME NEW j \in Entry, oft'[j].vn # NULL
                     PROVE  /\ oft'[j].count = 1
                            /\ \/ \E u \in Thread, k \in Fd : Uses(u, k, j)'
                               \/ \E u \in Thread : of'[u].pc = "vfs_open" /\ of'[u].i = j
                               \/ j \in leaked'
          OBVIOUS
        <5>1. j # i /\ oft'[j] = oft[j]
          BY <1>3, <3>1
        <5>2. \A k \in Fd : Uses(t, k, j) => k # n
          BY <1>2, <5>1 DEF Uses
        <5> QED BY <1>1, <2>4, <3>2, <3>3, <5>1, <5>2 DEF OfOwned
      <4> QED BY <4>1, <4>2, <4>3, <4>4, <4>5 DEF OfOwned
    <3>7. ASSUME NEW g \in Path PROVE opens'[g] = Cardinality(EntriesOf(g))' + Cardinality(Closing(g))'
      <4>1. /\ EntriesOf(g)' \ {i} = EntriesOf(g) \ {i} /\ i \notin EntriesOf(g)'
            /\ i \in EntriesOf(g) <=> g = oft[i].vn
        BY <1>3, <3>1, OfSizes DEF EntriesOf
      <4>2. /\ Closing(g)' \ {t} = Closing(g) \ {t} /\ t \notin Closing(g)
            /\ t \in Closing(g)' <=> g = oft[i].vn
        BY <1>1, <2>2, <2>4 DEF Closing
      <4>3. IsFiniteSet(EntriesOf(g)) /\ IsFiniteSet(Closing(g))
        <5>1. EntriesOf(g) \in SUBSET Entry /\ Closing(g) \in SUBSET Thread
          BY DEF EntriesOf, Closing
        <5> QED BY <5>1, OfSizes, ThreadsFinite, FS_Subset
      <4>4. /\ Cardinality(EntriesOf(g)) \in Nat
            /\ Cardinality(EntriesOf(g)') = Cardinality(EntriesOf(g)) + Ind(i \in EntriesOf(g)') - Ind(i \in EntriesOf(g))
        BY <4>1, <4>3, SetStep
      <4>5. /\ Cardinality(Closing(g)) \in Nat
            /\ Cardinality(Closing(g)') = Cardinality(Closing(g)) + Ind(t \in Closing(g)') - Ind(t \in Closing(g))
        BY <4>2, <4>3, SetStep
      <4>6. opens'[g] = Cardinality(EntriesOf(g)) + Cardinality(Closing(g))
        BY <1>1, <3>2 DEF OfOpens
      <4> QED BY <4>1, <4>2, <4>4, <4>5, <4>6 DEF Ind
    <3> QED BY <3>6, <3>7 DEF OfOpens
  <2> QED BY <1>1, <2>4, <2>5 DEF OfInv
<1>5. CASE oft[i].count # 1
  <2>1. fdt' = [fdt EXCEPT ![t][n] = NULL] /\ of' = of
    BY <1>2, <1>5 DEF sys_close
  <2>2. twice
    <3>1. SUFFICES ASSUME ~twice PROVE FALSE
      BY <1>1 DEF OfTypes
    <3>2. OfOwned /\ Uses(t, n, i)
      BY <1>1, <1>2, <3>1 DEF OfInv, Uses
    <3>3. oft[i].vn # NULL
      BY <3>2, OfSizes DEF OfOwned
    <3> QED BY <1>5, <3>2, <3>3 DEF OfOwned
  <2>3. OfTypes'
    <3>1. /\ fdt' \in [Thread -> [Fd -> Entry \cup {NULL}]] /\ \A u \in Thread \ {t} : fdt'[u] = fdt[u]
      BY <1>1, <2>1 DEF OfTypes
    <3>2. of[t] \in CallRecord /\ of' = [of EXCEPT ![t] = of[t]]
      BY <1>1, <2>1 DEF OfTypes
    <3>3. opens' \in [Path -> Int] /\ leaked' \subseteq Entry /\ twice' \in BOOLEAN
      BY <1>1 DEF OfTypes
    <3> QED BY <1>1, <1>3, <3>1, <3>2, <3>3, TypesStep DEF OpenPlaces
  <2> QED BY <1>1, <2>2, <2>3 DEF OfInv
<1> QED BY <1>4, <1>5

\* vfs_close is done, and the descriptor is free.
LEMMA CloseFinishInv ==
    ASSUME OfInv, NEW t \in Thread, close_finish(t)
    PROVE  OfInv'
<1>1. /\ OfTypes /\ of[t].pc = "vfs_close" /\ of[t] \in CallRecord
      /\ UNCHANGED <<oft, pathname, leaked, twice>> /\ of' = [of EXCEPT ![t] = User]
  BY DEF OfInv, OfTypes, close_finish, InCall, Back, Local
<1>2. PICK p \in Path : p = of[t].path
  BY DEF close_finish
<1>3. PICK n \in Fd : n = of[t].fd
  BY <1>1 DEF CallRecord
<1>4. /\ fdt' \in [Thread -> [Fd -> Entry \cup {NULL}]] /\ fdt'[t][n] = NULL
      /\ \A u \in Thread \ {t} : fdt'[u] = fdt[u]
      /\ \A k \in Fd \ {n} : fdt'[t][k] = fdt[t][k]
  BY <1>1, <1>3 DEF OfTypes, close_finish
<1>5. /\ opens' \in [Path -> Int] /\ opens'[p] = opens[p] - 1 /\ \A g \in Path \ {p} : opens'[g] = opens[g]
  BY <1>1, <1>2 DEF OfTypes, close_finish
<1>6. User.pc = "user"
  BY DEF User
<1>7. OfTypes' /\ of'[t] = User /\ \A u \in Thread \ {t} : of'[u] = of[u]
  <2>1. twice' \in BOOLEAN /\ leaked' \subseteq Entry /\ oft' \in [Entry -> EntryRecord]
    BY <1>1 DEF OfTypes
  <2> QED BY <1>1, <1>4, <1>5, <1>6, <2>1, OfSizes, TypesStep DEF OpenPlaces
<1>8. ASSUME ~twice PROVE OfOwned' /\ OfOpens'
  <2>1. OfOwned /\ OfOpens
    BY <1>8 DEF OfInv
  <2>2. \A u \in Thread, k \in Fd, j \in Entry : Uses(u, k, j)' <=> Uses(u, k, j)
    BY <1>1, <1>3, <1>4, <1>6, <1>7, OfSizes DEF Uses
  <2>3. \A u \in Thread : of'[u].pc = "vfs_open" <=> of[u].pc = "vfs_open"
    BY <1>1, <1>6, <1>7
  <2>4. \A u \in Thread \ {t} : of'[u] = of[u]
    BY <1>7
  <2>5. OfOwned'
    <3>1. leaked \subseteq Entry
      BY <1>1 DEF OfTypes
    <3>2. \A u \in Thread : of'[u].pc \in {"vfs_open", "vfs_close"} => u # t /\ of'[u] = of[u]
      BY <1>6, <1>7
    <3>3. \A u \in Thread : of[u].pc = "vfs_open" => u # t
      BY <1>1
    <3> QED BY <1>1, <2>1, <2>2, <2>3, <2>4, <3>1, <3>2, <3>3 DEF OfOwned
  <2>6. ASSUME NEW g \in Path PROVE opens'[g] = Cardinality(EntriesOf(g))' + Cardinality(Closing(g))'
    <3>1. EntriesOf(g)' = EntriesOf(g)
      BY <1>1 DEF EntriesOf
    <3>2. /\ Closing(g)' \ {t} = Closing(g) \ {t} /\ t \notin Closing(g)'
          /\ t \in Closing(g) <=> g = p
      BY <1>1, <1>2, <1>6, <1>7 DEF Closing
    <3>3. IsFiniteSet(EntriesOf(g)) /\ IsFiniteSet(Closing(g))
      <4>1. EntriesOf(g) \in SUBSET Entry /\ Closing(g) \in SUBSET Thread
        BY DEF EntriesOf, Closing
      <4> QED BY <4>1, OfSizes, ThreadsFinite, FS_Subset
    <3>4. /\ Cardinality(Closing(g)) \in Nat
          /\ Cardinality(Closing(g)') = Cardinality(Closing(g)) + Ind(t \in Closing(g)') - Ind(t \in Closing(g))
      BY <3>2, <3>3, SetStep
    <3>5. Cardinality(EntriesOf(g)) \in Nat
      BY <3>3, FS_CardinalityType
    <3>6. opens[g] = Cardinality(EntriesOf(g)) + Cardinality(Closing(g))
      BY <2>1 DEF OfOpens
    <3>7. opens'[g] = opens[g] - Ind(g = p)
      BY <1>1, <1>5 DEF Ind, OfTypes
    <3> QED BY <3>1, <3>2, <3>4, <3>5, <3>6, <3>7 DEF Ind
  <2> QED BY <2>5, <2>6 DEF OfOpens
<1> QED BY <1>1, <1>7, <1>8 DEF OfInv

\* A process exits: its entries are nobody's from now on.
LEMMA ExitInv ==
    ASSUME OfInv, NEW t \in Thread, exit_process(t)
    PROVE  OfInv'
<1>1. /\ OfTypes /\ of[t].pc = "user" /\ UNCHANGED <<oft, pathname, of, opens, twice>>
  BY DEF OfInv, exit_process, InCall
<1>2. /\ fdt' \in [Thread -> [Fd -> Entry \cup {NULL}]]
      /\ \A u \in Thread \ {t} : fdt'[u] = fdt[u]
      /\ \A k \in Fd : fdt'[t][k] = NULL
  <2>1. [k \in Fd |-> NULL] \in [Fd -> Entry \cup {NULL}]
    OBVIOUS
  <2> QED BY <1>1, <2>1 DEF OfTypes, exit_process
<1>3. \A j : j \in leaked' <=> j \in leaked \/ \E k \in Fd : fdt[t][k] = j /\ j # NULL
  BY DEF exit_process
<1>4. leaked' \subseteq Entry
  BY <1>1, <1>3 DEF OfTypes
<1>5. OfTypes'
  <2>1. of[t] \in CallRecord /\ of' = [of EXCEPT ![t] = of[t]]
    BY <1>1 DEF OfTypes
  <2>2. opens' \in [Path -> Int] /\ twice' \in BOOLEAN /\ oft' \in [Entry -> EntryRecord]
    BY <1>1 DEF OfTypes
  <2> QED BY <1>1, <1>2, <1>4, <2>1, <2>2, TypesStep DEF OpenPlaces
<1>6. ASSUME ~twice PROVE OfOwned' /\ OfOpens'
  <2>1. OfOwned /\ OfOpens
    BY <1>6 DEF OfInv
  <2>2. \A u \in Thread, k \in Fd, j \in Entry : Uses(u, k, j)' <=> Uses(u, k, j) /\ u # t
    BY <1>1, <1>2, OfSizes DEF Uses
  <2>3. \A j \in Entry : j \in leaked' <=> j \in leaked \/ \E k \in Fd : Uses(t, k, j)
    BY <1>1, <1>3, OfSizes DEF Uses
  <2>4. OfOwned'
    <3>1. /\ \A u, w \in Thread, k, l \in Fd, j \in Entry : Uses(u, k, j)' /\ Uses(w, l, j)' => u = w /\ k = l
          /\ \A u \in Thread, k \in Fd, j \in Entry : Uses(u, k, j)' => oft'[j].vn \in Path /\ j \notin leaked'
      BY <1>1, <2>1, <2>2, <2>3 DEF OfOwned
    <3>2. \A j \in leaked' : oft'[j].vn \in Path
      BY <1>1, <1>4, <2>1, <2>3 DEF OfOwned
    <3>3. \A j \in Entry : oft'[j].vn # NULL =>
             /\ oft'[j].count = 1
             /\ \/ \E u \in Thread, k \in Fd : Uses(u, k, j)'
                \/ \E u \in Thread : of'[u].pc = "vfs_open" /\ of'[u].i = j
                \/ j \in leaked'
      BY <1>1, <2>1, <2>2, <2>3 DEF OfOwned
    <3> QED BY <1>1, <2>1, <3>1, <3>2, <3>3 DEF OfOwned
  <2>5. \A g \in Path : EntriesOf(g)' = EntriesOf(g) /\ Closing(g)' = Closing(g)
    BY <1>1 DEF EntriesOf, Closing
  <2> QED BY <1>1, <2>1, <2>4, <2>5 DEF OfOpens
<1> QED BY <1>1, <1>5, <1>6 DEF OfInv

\* oft_bootstrap: no entry is in use.
LEMMA OpenFilesInitInv == OpenFilesInit => OfInv
<1> SUFFICES ASSUME OpenFilesInit PROVE OfInv
  OBVIOUS
<1>1. User.pc = "user" /\ Free.vn = NULL
  BY DEF User, Free
<1>2. OfTypes
  <2>1. \A t \in Thread : of[t].pc = "user"
    BY <1>1 DEF OpenFilesInit
  <2>2. /\ oft \in [Entry -> EntryRecord] /\ of \in [Thread -> CallRecord]
    BY OfSizes DEF OpenFilesInit
  <2>3. /\ fdt \in [Thread -> [Fd -> Entry \cup {NULL}]] /\ opens \in [Path -> Int]
        /\ leaked \subseteq Entry /\ twice \in BOOLEAN
    <3>1. fdt \in [Thread -> [Fd -> Entry \cup {NULL}]]
      BY DEF OpenFilesInit
    <3>2. opens \in [Path -> Int] /\ leaked \subseteq Entry
      BY DEF OpenFilesInit
    <3>3. twice \in BOOLEAN
      BY DEF OpenFilesInit
    <3> QED BY <3>1, <3>2, <3>3
  <2>4. \A t \in Thread : /\ of[t].pc \notin OpenPlaces /\ of[t].pc \notin {"claim", "vfs_open"}
                          /\ of[t].pc # "transfer"
    BY <2>1 DEF OpenPlaces
  <2> QED BY <2>2, <2>3, <2>4 DEF OfTypes
<1>3. OfOwned
  BY <1>1, OfSizes DEF OpenFilesInit, OfOwned, Uses
<1>4. OfOpens
  <2>1. \A g \in Path : EntriesOf(g) = {} /\ Closing(g) = {} /\ opens[g] = 0
    BY <1>1, OfSizes DEF OpenFilesInit, EntriesOf, Closing
  <2> QED BY <2>1, FS_EmptySet DEF OfOpens
<1> QED BY <1>2, <1>3, <1>4 DEF OfInv

\* Every step of the system calls preserves the invariant.
LEMMA OpenFilesNextInv == OfInv /\ [OpenFilesNext]_of_vars => OfInv'
<1> SUFFICES ASSUME OfInv, [OpenFilesNext]_of_vars PROVE OfInv'
  OBVIOUS
<1>1. CASE UNCHANGED of_vars
  BY <1>1 DEF of_vars, OfInv, OfTypes, OfOwned, Uses, OfOpens, EntriesOf, Closing
<1>2. CASE OpenFilesNext
  <2>1. PICK t \in Thread :
          \/ \E f \in Path, flags \in Access : sys_open(t, f, flags)
          \/ oft_alloc_test(t) \/ oft_alloc_claim(t) \/ open_finish(t)
          \/ \E k \in Fd : \/ sys_io(t, k, "WRONLY") \/ sys_io(t, k, "RDONLY")
                           \/ sys_close(t, k) \/ sys_fstat(t, k)
                           \/ \E fp \in 0..MaxFp : sys_lseek(t, k, fp)
          \/ io_move(t) \/ close_finish(t) \/ exit_process(t)
    BY <1>2 DEF OpenFilesNext
  <2> QED BY <2>1, SysOpenInv, AllocTestInv, AllocClaimInv, OpenFinishInv, TransferInv,
             CloseInv, CloseFinishInv, ExitInv
<1> QED BY <1>1, <1>2

\* The invariant of the shared open file table holds throughout: an entry in use has
\* one descriptor or one process that opens, reads or closes it, and a vfs_open for
\* each, unless two processes claimed an entry between the test and the claim of
\* oft_alloc.
THEOREM OpenFilesInvariant == OpenFilesBehaviour => []OfInv
  BY OpenFilesInitInv, OpenFilesNextInv, PTL DEF OpenFilesBehaviour

\* EntriesOwned: opens and closes that sleep in the file system at the same time
\* keep every descriptor an entry of its own with an open file, close a file as
\* often as it was opened, and leave no entry in use that nobody has, for as long
\* as no entry was claimed twice.
THEOREM DescriptorsOwnEntries == OpenFilesBehaviour => []EntriesOwned
<1>1. OfInv => EntriesOwned
  <2> SUFFICES ASSUME OfInv, ~twice
               PROVE  /\ \A x, y \in InUse : fdt[x[1]][x[2]] = fdt[y[1]][y[2]] => x = y
                      /\ \A x \in InUse : oft[fdt[x[1]][x[2]]].vn \in Path
                                          /\ oft[fdt[x[1]][x[2]]].count = 1
                      /\ \A f \in Path :
                           opens[f] = Cardinality({i \in Entry : oft[i].vn = f})
                             + Cardinality({t \in Thread : of[t].pc = "vfs_close" /\ of[t].path = f})
                      /\ \A i \in Entry : oft[i].vn # NULL =>
                           \/ \E x \in InUse : fdt[x[1]][x[2]] = i
                           \/ \E t \in Thread : of[t].pc = "vfs_open" /\ of[t].i = i
                           \/ i \in leaked
    BY DEF EntriesOwned
  <2>1. OfTypes /\ OfOwned /\ OfOpens
    BY DEF OfInv
  <2>2. \A x \in InUse : /\ x[1] \in Thread /\ x[2] \in Fd /\ x = <<x[1], x[2]>>
                         /\ fdt[x[1]][x[2]] \in Entry /\ Uses(x[1], x[2], fdt[x[1]][x[2]])
    BY <2>1 DEF InUse, OfTypes, Uses
  <2>3. \A x, y \in InUse : fdt[x[1]][x[2]] = fdt[y[1]][y[2]] => x = y
    BY <2>1, <2>2 DEF OfOwned
  <2>4. \A x \in InUse : oft[fdt[x[1]][x[2]]].vn \in Path /\ oft[fdt[x[1]][x[2]]].count = 1
    <3> TAKE x \in InUse
    <3>1. PICK i \in Entry : i = fdt[x[1]][x[2]]
      BY <2>2
    <3>2. oft[i].vn \in Path
      BY <2>1, <2>2, <3>1 DEF OfOwned
    <3>3. oft[i].count = 1
      BY <2>1, <3>2, OfSizes DEF OfOwned
    <3> QED BY <3>1, <3>2, <3>3
  <2>5. ASSUME NEW i \in Entry, oft[i].vn # NULL
        PROVE  \/ \E x \in InUse : fdt[x[1]][x[2]] = i
               \/ \E t \in Thread : of[t].pc = "vfs_open" /\ of[t].i = i
               \/ i \in leaked
    <3>1. ASSUME NEW t \in Thread, NEW k \in Fd, Uses(t, k, i)
          PROVE  \E x \in InUse : fdt[x[1]][x[2]] = i
      <4>1. <<t, k>> \in InUse
        BY <3>1, OfSizes DEF InUse, Uses
      <4> QED BY <3>1, <4>1 DEF Uses
    <3> QED BY <2>1, <2>5, <3>1 DEF OfOwned
  <2> QED BY <2>1, <2>3, <2>4, <2>5 DEF OfOpens, EntriesOf, Closing
<1> QED BY <1>1, OpenFilesInvariant, PTL

----------------------------------------------------------------------------
(* The emulator file system *)

EmuResults == {"ok", "EIO", "ENOENT", "BADHANDLE"}
EmuOps == {"none", "open", "io", "close"}
EmuPlaces == {"idle", "request", "wait", "done", "load", "reclaim", "forget"}
OperRecord == [op : EmuOps, h : Handle, file : File \cup {NULL}]
ReplyRecord == [res : EmuResults \cup {"none"}, h : Handle, file : File \cup {NULL}]
VnodeRecord == [h : Handle, refcount : Int]
TaskRecord == [pc : EmuPlaces, op : EmuOps, v : Vnode \cup {NULL}, file : File \cup {NULL},
               h : Handle, tries : Int, res : EmuResults]

EmuTypes ==
    /\ e_lock \in Thread \cup {NULL} /\ e_sem \in {0, 1} /\ e_result \in EmuResults
    /\ reg \in OperRecord /\ reply \in ReplyRecord \cup {NULL}
    /\ opened \in [Handle -> File \cup {NULL}] /\ ev \in [Vnode -> VnodeRecord \cup {NULL}]
    /\ names \in [Vnode -> File \cup {NULL}] /\ refs \in [Vnode -> Int]
    /\ em \in [Thread -> TaskRecord]

\* Where a thread may be in each operation.
TaskOK(t) ==
    /\ em[t].op = "none" <=> em[t].pc = "idle"
    /\ em[t].op = "open" => /\ em[t].pc \in {"request", "wait", "done", "load"}
                            /\ em[t].file \in File
    /\ em[t].op = "io" => em[t].pc \in {"request", "wait", "done"} /\ em[t].v \in Vnode
    /\ em[t].op = "close" => /\ em[t].pc \in {"request", "wait", "done", "reclaim", "forget"}
                             /\ em[t].file = NULL
                             /\ em[t].pc = "request" => em[t].v = NULL
                             /\ em[t].pc \in {"reclaim", "forget"} => em[t].v \in Vnode

\* The lock's owner has one request with the device, in one of its stages: asked,
\* answered, signalled, or done with.
LockOK(t) ==
    \/ /\ em[t].pc = "wait" /\ reg = [op |-> em[t].op, h |-> em[t].h, file |-> em[t].file]
       /\ reply = NULL /\ e_sem = 0
    \/ em[t].pc = "wait" /\ reg = NoOp /\ reply # NULL /\ reply.res # "none" /\ e_sem = 0
    \/ em[t].pc = "wait" /\ reg = NoOp /\ reply # NULL /\ reply.res = "none" /\ e_sem = 1
    \/ em[t].pc = "done" /\ reg = NoOp /\ reply # NULL /\ reply.res = "none" /\ e_sem = 0
    \/ em[t].pc = "forget" /\ reg = NoOp /\ reply = NULL /\ e_sem = 0 /\ em[t].res = "ok"

EmuLock ==
    /\ ~emu_panic
    /\ \A t \in Thread : TaskOK(t) /\ (em[t].pc \in {"wait", "done", "forget"} <=> e_lock = t)
    /\ \A t \in Thread : e_lock = t => LockOK(t)
    /\ e_lock = NULL => reg = NoOp /\ reply = NULL /\ e_sem = 0

\* The result of the operation of t as far as it is known, wherever it is.
Result(t) ==
    IF em[t].pc \in {"done", "forget"} THEN em[t].res
    ELSE IF em[t].pc = "wait" /\ e_sem = 1 THEN e_result
    ELSE IF em[t].pc = "wait" /\ reply # NULL THEN reply.res
    ELSE "none"

\* The result is what the device did.
AnswerOK(t) ==
    /\ Result(t) # "BADHANDLE"
    /\ em[t].op = "open" /\ Result(t) = "ok" => opened[reply.h] = em[t].file
    /\ em[t].op = "io" /\ Result(t) = "ok" => reply.file = names[em[t].v]
    /\ em[t].op = "close" => (Result(t) = "ok" <=> opened[em[t].h] = NULL)
    /\ em[t].pc = "load" => opened[em[t].h] = em[t].file

EmuAnswers == \A t \in Thread : AnswerOK(t)

\* t has an open handle that no vnode stands for yet, or that is to be closed.
Owns(t) == \/ em[t].pc = "load"
           \/ em[t].op = "open" /\ Result(t) = "ok"
           \/ em[t].op = "close" /\ em[t].v = NULL /\ Result(t) # "ok"
HandleOf(t) == IF em[t].op = "open" /\ em[t].pc # "load" THEN reply.h ELSE em[t].h

\* t is taking the vnode w out of the pool.
Reclaims(t, w) == em[t].op = "close" /\ em[t].v = w

\* Every open handle has one owner, a vnode or a thread.
EmuHandles ==
    /\ \A t, u \in Thread : Owns(t) /\ Owns(u) /\ HandleOf(t) = HandleOf(u) => t = u
    /\ \A t \in Thread, w \in Vnode : Owns(t) /\ ev[w] # NULL => ev[w].h # HandleOf(t)
    /\ \A w, x \in Vnode : ev[w] # NULL /\ ev[x] # NULL /\ ev[w].h = ev[x].h => w = x
    /\ \A w \in Vnode : ev[w] # NULL =>
         \/ opened[ev[w].h] = names[w] /\ names[w] \in File
         \/ \E t \in Thread : Reclaims(t, w) /\ Result(t) = "ok"

\* An operation on a vnode has a reference to it, and a thread that reclaims one
\* knows that there is none.
CallerOK(t) ==
    /\ em[t].op = "io" => refs[em[t].v] > 0 /\ em[t].h = ev[em[t].v].h
    /\ \A w \in Vnode : Reclaims(t, w) => ev[w] # NULL /\ refs[w] = 0 /\ em[t].h = ev[w].h

\* A vnode's count is that of its references, and one thread at most reclaims it.
CountOK(w) ==
    /\ refs[w] >= 0 /\ (ev[w] = NULL => refs[w] = 0)
    /\ ev[w] # NULL => ev[w].refcount = IF refs[w] > 0 THEN refs[w] ELSE 1
EmuRefs ==
    /\ \A w \in Vnode : CountOK(w)
    /\ \A t \in Thread : CallerOK(t)
    /\ \A t, u \in Thread, w \in Vnode : Reclaims(t, w) /\ Reclaims(u, w) => t = u

EmuInv == EmuTypes /\ EmuLock /\ EmuAnswers /\ EmuHandles /\ EmuRefs

----------------------------------------------------------------------------

\* What a step that is not u's leaves alone of u.
Keeps(u) ==
    /\ em'[u] = em[u] /\ Result(u)' = Result(u)
    /\ Owns(u)' = Owns(u) /\ (Owns(u) => HandleOf(u)' = HandleOf(u))
    /\ Result(u) = "ok" => reply' = reply

\* The constants, and the values a thread and the device rest at.
LEMMA EmuConstants ==
    /\ 0 \in Handle /\ Root \in File /\ NULL \notin File /\ NULL \notin Vnode /\ NULL \notin Thread
    /\ NULL \notin VnodeRecord /\ NULL \notin ReplyRecord /\ CloseTries \in Nat
    /\ Rest \in TaskRecord /\ Rest.pc = "idle" /\ Rest.op = "none" /\ Rest.v = NULL /\ Rest.file = NULL
    /\ NoOp \in OperRecord /\ NoOp.op = "none"
<1>1. /\ 0 \in Handle /\ Root \in File /\ NULL \notin File /\ NULL \notin Vnode /\ NULL \notin Thread
      /\ CloseTries \in Nat
  BY EmuAssumption, NullIsNoThread
<1>2. NULL \notin VnodeRecord
  BY NullIsNoRecord DEF VnodeRecord
<1>3. NULL \notin ReplyRecord
  <2>1. EmuResults \cup {"none"} = {"ok", "EIO", "ENOENT", "BADHANDLE", "none"}
    BY DEF EmuResults
  <2> QED BY <2>1, NullIsNoRecord DEF ReplyRecord
<1>4. Rest \in TaskRecord /\ Rest.pc = "idle" /\ Rest.op = "none" /\ Rest.v = NULL /\ Rest.file = NULL
  BY <1>1 DEF Rest, TaskRecord, EmuPlaces, EmuOps, EmuResults
<1>5. NoOp \in OperRecord /\ NoOp.op = "none"
  BY <1>1 DEF NoOp, OperRecord, EmuOps
<1> QED BY <1>1, <1>2, <1>3, <1>4, <1>5

\* A thread that has not the lock has no request with the device.
LEMMA NotOwner ==
    ASSUME EmuLock, NEW u \in Thread, e_lock # u
    PROVE  em[u].pc \notin {"wait", "done", "forget"} /\ Result(u) = "none"
  BY DEF EmuLock, Result

\* A step that needs the lock is invisible to other threads.
LEMMA OthersKeep ==
    ASSUME EmuLock, NEW t \in Thread, NEW u \in Thread, u # t, e_lock \in {t, NULL}, em'[u] = em[u]
    PROVE  Keeps(u)
<1>1. TaskOK(u) /\ e_lock # u
  BY EmuConstants DEF EmuLock
<1>2. em[u].pc \notin {"wait", "done", "forget"} /\ Result(u) = "none"
  BY <1>1, NotOwner
<1>3. Result(u)' = "none"
  BY <1>2 DEF Result
<1>4. Owns(u)' = Owns(u)
  BY <1>2, <1>3 DEF Owns
<1>5. Owns(u) => em[u].pc = "load" \/ em[u].op # "open"
  BY <1>2 DEF Owns
<1>6. Owns(u) => HandleOf(u)' = HandleOf(u)
  BY <1>5 DEF HandleOf
<1> QED BY <1>2, <1>3, <1>4, <1>6 DEF Keeps

\* Nor is one that leaves the device's answer as it is.
LEMMA OthersSame ==
    ASSUME NEW u \in Thread, em'[u] = em[u], UNCHANGED <<e_sem, e_result, reply>>
    PROVE  Keeps(u)
<1>1. Result(u)' = Result(u)
  BY DEF Result
<1>2. Owns(u)' = Owns(u) /\ HandleOf(u)' = HandleOf(u)
  BY <1>1 DEF Owns, HandleOf
<1> QED BY <1>1, <1>2 DEF Keeps

\* The lock after a step of t that has it before or after.
LEMMA LockStep ==
    ASSUME EmuTypes, EmuLock, NEW t \in Thread, NEW r \in TaskRecord, em' = [em EXCEPT ![t] = r],
           e_lock \in {t, NULL}, e_lock' \in {t, NULL}, ~emu_panic', TaskOK(t)',
           r.pc \in {"wait", "done", "forget"} <=> e_lock' = t,
           e_lock' = t => LockOK(t)',
           e_lock' = NULL => reg' = NoOp /\ reply' = NULL /\ e_sem' = 0
    PROVE  EmuLock'
<1>1. /\ em'[t] = r /\ \A u \in Thread \ {t} : em'[u] = em[u]
  BY DEF EmuTypes
<1>2. ASSUME NEW u \in Thread, u # t
      PROVE  TaskOK(u)' /\ em'[u].pc \notin {"wait", "done", "forget"} /\ e_lock' # u
  <2>1. TaskOK(u) /\ em'[u] = em[u] /\ e_lock # u /\ e_lock' # u
    BY <1>1, <1>2, EmuConstants DEF EmuLock
  <2>2. em[u].pc \notin {"wait", "done", "forget"}
    BY <2>1, NotOwner
  <2>3. TaskOK(u)'
    BY <2>1 DEF TaskOK
  <2> QED BY <2>1, <2>2, <2>3
<1>3. \A u \in Thread : TaskOK(u)' /\ (em'[u].pc \in {"wait", "done", "forget"} <=> e_lock' = u)
  BY <1>1, <1>2
<1>4. \A u \in Thread : e_lock' = u => LockOK(u)'
  BY <1>2
<1> QED BY <1>3, <1>4 DEF EmuLock

\* A step of t that has nothing to do with the lock.
LEMMA LockIdle ==
    ASSUME EmuTypes, EmuLock, NEW t \in Thread, NEW r \in TaskRecord, em' = [em EXCEPT ![t] = r],
           em[t].pc \notin {"wait", "done", "forget"}, r.pc \notin {"wait", "done", "forget"},
           TaskOK(t)', UNCHANGED <<e_lock, e_sem, reg, reply, emu_panic>>
    PROVE  EmuLock'
<1>1. /\ em'[t] = r /\ \A u \in Thread \ {t} : em'[u] = em[u]
  BY DEF EmuTypes
<1>2. e_lock # t
  BY DEF EmuLock
<1>3. ASSUME NEW u \in Thread \ {t}
      PROVE  /\ TaskOK(u)' /\ (em'[u].pc \in {"wait", "done", "forget"} <=> e_lock' = u)
             /\ e_lock' = u => LockOK(u)'
  <2>1. /\ TaskOK(u) /\ (em[u].pc \in {"wait", "done", "forget"} <=> e_lock = u)
        /\ e_lock = u => LockOK(u)
    BY DEF EmuLock
  <2>2. em'[u] = em[u]
    BY <1>1
  <2>3. TaskOK(u)'
    BY <2>1, <2>2 DEF TaskOK
  <2>4. e_lock' = u => LockOK(u)'
    BY <2>1, <2>2 DEF LockOK
  <2> QED BY <2>1, <2>2, <2>3, <2>4
<1>4. \A u \in Thread : TaskOK(u)' /\ (em'[u].pc \in {"wait", "done", "forget"} <=> e_lock' = u)
  BY <1>1, <1>2, <1>3
<1>5. \A u \in Thread : e_lock' = u => LockOK(u)'
  BY <1>2, <1>3
<1>6. ~emu_panic' /\ (e_lock' = NULL => reg' = NoOp /\ reply' = NULL /\ e_sem' = 0)
  BY DEF EmuLock
<1> QED BY <1>4, <1>5, <1>6 DEF EmuLock

\* A step of t that leaves vnodes, handles and references alone: others see
\* nothing of it, and t gets no handle and no vnode that it had not.
LEMMA EmuFrame ==
    ASSUME EmuInv, EmuTypes', EmuLock', NEW t \in Thread, UNCHANGED <<opened, ev, names, refs>>,
           \A u \in Thread \ {t} : Keeps(u),
           AnswerOK(t)', CallerOK(t)',
           Owns(t)' => Owns(t) /\ HandleOf(t)' = HandleOf(t),
           \A w \in Vnode : Reclaims(t, w)' => Reclaims(t, w),
           \A w \in Vnode : Reclaims(t, w) /\ Result(t) = "ok" => Reclaims(t, w)' /\ Result(t)' = "ok"
    PROVE  EmuInv'
<1>1. EmuAnswers /\ EmuHandles /\ EmuRefs
  BY DEF EmuInv
<1>2. \A u \in Thread : Owns(u)' => Owns(u) /\ HandleOf(u)' = HandleOf(u)
  BY DEF Keeps
<1>3. \A u \in Thread, w \in Vnode : Reclaims(u, w)' => Reclaims(u, w)
  BY DEF Keeps, Reclaims
<1>4. \A u \in Thread, w \in Vnode : Reclaims(u, w) /\ Result(u) = "ok" => Reclaims(u, w)' /\ Result(u)' = "ok"
  BY DEF Keeps, Reclaims
<1>5. EmuAnswers'
  <2>1. ASSUME NEW u \in Thread \ {t} PROVE AnswerOK(u)'
    <3>1. AnswerOK(u)
      BY <1>1 DEF EmuAnswers
    <3> QED BY <2>1, <3>1 DEF AnswerOK, Keeps
  <2> QED BY <2>1 DEF EmuAnswers
<1>6. EmuHandles'
  <2>1. \A u, x \in Thread : Owns(u)' /\ Owns(x)' /\ HandleOf(u)' = HandleOf(x)' => u = x
    BY <1>1, <1>2 DEF EmuHandles
  <2>2. \A u \in Thread, w \in Vnode : Owns(u)' /\ ev'[w] # NULL => ev'[w].h # HandleOf(u)'
    BY <1>1, <1>2 DEF EmuHandles
  <2>3. \A w \in Vnode : ev'[w] # NULL =>
         \/ opened'[ev'[w].h] = names'[w] /\ names'[w] \in File
         \/ \E u \in Thread : Reclaims(u, w)' /\ Result(u)' = "ok"
    BY <1>1, <1>4 DEF EmuHandles
  <2> QED BY <1>1, <2>1, <2>2, <2>3 DEF EmuHandles
<1>7. EmuRefs'
  <2>1. \A w \in Vnode : CountOK(w)'
    BY <1>1 DEF EmuRefs, CountOK
  <2>2. ASSUME NEW u \in Thread \ {t} PROVE CallerOK(u)'
    <3>1. CallerOK(u) /\ em'[u] = em[u]
      BY <1>1 DEF EmuRefs, Keeps
    <3> QED BY <3>1 DEF CallerOK, Reclaims
  <2>3. \A u, x \in Thread, w \in Vnode : Reclaims(u, w)' /\ Reclaims(x, w)' => u = x
    BY <1>1, <1>3 DEF EmuRefs
  <2> QED BY <2>1, <2>2, <2>3 DEF EmuRefs
<1> QED BY <1>5, <1>6, <1>7 DEF EmuInv

\* The types after a step of t that leaves vnodes alone.
LEMMA TaskStep ==
    ASSUME EmuTypes, NEW t \in Thread, NEW r \in TaskRecord, em' = [em EXCEPT ![t] = r]
    PROVE  /\ em' \in [Thread -> TaskRecord] /\ em'[t] = r
           /\ \A u \in Thread \ {t} : em'[u] = em[u]
  BY DEF EmuTypes

\* emufs_lookup and the transfers begin.
LEMMA StartsInv ==
    ASSUME EmuInv, NEW t \in Thread, NEW r \in TaskRecord, Starts(t, r), r.pc = "request",
           \/ r.op = "open" /\ r.file \in File
           \/ r.op = "io" /\ r.v \in Vnode /\ refs[r.v] > 0 /\ r.h = ev[r.v].h
    PROVE  EmuInv'
<1>1. EmuTypes /\ EmuLock /\ em' = [em EXCEPT ![t] = r] /\ em[t].pc = "idle"
  BY DEF EmuInv, Starts, At, Step
<1>2. /\ em' \in [Thread -> TaskRecord] /\ em'[t] = r
      /\ \A u \in Thread \ {t} : em'[u] = em[u]
  BY <1>1, TaskStep
<1>3. UNCHANGED <<e_lock, e_sem, e_result, reg, reply, opened, ev, names, refs, emu_panic>>
  BY DEF Starts, hw_vars
<1>4. EmuTypes'
  BY <1>1, <1>2, <1>3 DEF EmuTypes
<1>5. TaskOK(t)'
  BY <1>2 DEF TaskOK
<1>6. EmuLock'
  BY <1>1, <1>3, <1>5, LockIdle
<1>7. \A u \in Thread \ {t} : Keeps(u)
  BY <1>2, <1>3, OthersSame
<1>8. Result(t)' = "none"
  BY <1>2 DEF Result
<1>9. AnswerOK(t)' /\ ~Owns(t)' /\ \A w : ~Reclaims(t, w)'
  BY <1>2, <1>8 DEF AnswerOK, Owns, Reclaims
<1>10. CallerOK(t)'
  BY <1>2, <1>3, <1>9 DEF CallerOK
<1>11. \A w \in Vnode : ~Reclaims(t, w)
  BY <1>1 DEF EmuLock, TaskOK, Reclaims
<1> QED BY <1>3, <1>4, <1>6, <1>7, <1>9, <1>10, <1>11, EmuFrame

\* lock_acquire and the request, or the fault of a write.
LEMMA RequestInv ==
    ASSUME EmuInv, NEW t \in Thread, request(t)
    PROVE  EmuInv'
<1>1. /\ EmuTypes /\ EmuLock /\ em[t].pc = "request" /\ e_lock = NULL
      /\ UNCHANGED <<e_sem, e_result, reply, opened, ev, names, refs, emu_panic>>
      /\ AnswerOK(t) /\ CallerOK(t) /\ TaskOK(t) /\ em[t] \in TaskRecord
  BY DEF EmuInv, request, At, EmuAnswers, EmuRefs, EmuLock, EmuTypes
<1>2. /\ em[t].op # "none" /\ e_sem = 0 /\ reply = NULL /\ reg = NoOp /\ Result(t) = "none"
      /\ em[t].op = "close" => em[t].v = NULL
  BY <1>1, EmuConstants DEF EmuLock, TaskOK, Result
<1>3. CASE /\ e_lock' = t /\ reg' = [op |-> em[t].op, h |-> em[t].h, file |-> em[t].file]
           /\ Step(t, [em[t] EXCEPT !.pc = "wait"])
  <2>1. PICK r : r = [em[t] EXCEPT !.pc = "wait"]
    OBVIOUS
  <2>2. /\ r \in TaskRecord /\ r.pc = "wait" /\ r.op = em[t].op /\ r.v = em[t].v /\ r.h = em[t].h
        /\ r.file = em[t].file
    BY <1>1, <2>1 DEF TaskRecord, EmuPlaces
  <2>3. em' = [em EXCEPT ![t] = r]
    BY <1>3, <2>1 DEF Step
  <2>4. /\ em' \in [Thread -> TaskRecord] /\ em'[t] = r
        /\ \A u \in Thread \ {t} : em'[u] = em[u]
    BY <1>1, <2>2, <2>3, TaskStep
  <2>5. reg' \in OperRecord
    BY <1>1, <1>3 DEF TaskRecord, OperRecord
  <2>6. EmuTypes'
    BY <1>1, <1>3, <2>4, <2>5 DEF EmuTypes
  <2>7. TaskOK(t)' /\ LockOK(t)'
    BY <1>1, <1>2, <1>3, <2>2, <2>4 DEF TaskOK, LockOK
  <2>8. EmuLock'
    <3>1. e_lock' # NULL /\ ~emu_panic'
      BY <1>1, <1>3, EmuConstants DEF EmuLock
    <3> QED BY <1>1, <1>3, <2>2, <2>3, <2>7, <3>1, LockStep
  <2>9. \A u \in Thread \ {t} : Keeps(u)
    BY <1>1, <2>4, OthersKeep
  <2>10. Result(t)' = "none"
    BY <1>1, <1>2, <2>2, <2>4 DEF Result
  <2>11. AnswerOK(t)' /\ CallerOK(t)'
    BY <1>1, <1>2, <2>2, <2>4, <2>10 DEF AnswerOK, CallerOK, Reclaims
  <2>12. Owns(t)' => Owns(t) /\ HandleOf(t)' = HandleOf(t)
    BY <1>1, <1>2, <2>2, <2>4, <2>10 DEF Owns, HandleOf
  <2>13. \A w \in Vnode : Reclaims(t, w)' => Reclaims(t, w)
    BY <2>2, <2>4 DEF Reclaims
  <2> QED BY <1>1, <1>2, <2>6, <2>8, <2>9, <2>11, <2>12, <2>13, EmuFrame
<1>4. CASE em[t].op = "io" /\ Step(t, Rest) /\ UNCHANGED <<e_lock, reg>>
  <2>1. em' = [em EXCEPT ![t] = Rest] /\ Rest \in TaskRecord
    BY <1>4, EmuConstants DEF Step
  <2>2. /\ em' \in [Thread -> TaskRecord] /\ em'[t] = Rest
        /\ \A u \in Thread \ {t} : em'[u] = em[u]
    BY <1>1, <2>1, TaskStep
  <2>3. EmuTypes'
    BY <1>1, <1>4, <2>2 DEF EmuTypes
  <2>4. TaskOK(t)'
    BY <2>2, EmuConstants DEF TaskOK
  <2>5. EmuLock'
    BY <1>1, <1>4, <2>1, <2>4, EmuConstants, LockIdle
  <2>6. \A u \in Thread \ {t} : Keeps(u)
    BY <1>1, <2>2, OthersKeep
  <2>7. Result(t)' = "none"
    BY <2>2, EmuConstants DEF Result
  <2>8. AnswerOK(t)' /\ CallerOK(t)' /\ ~Owns(t)' /\ \A w : ~Reclaims(t, w)' /\ ~Reclaims(t, w)
    BY <1>4, <2>2, <2>7, EmuConstants DEF AnswerOK, CallerOK, Owns, Reclaims
  <2> QED BY <1>1, <2>3, <2>5, <2>6, <2>8, EmuFrame
<1> QED BY <1>3, <1>4 DEF request

\* emu_waitdone: the result moves from the softc to the thread.
LEMMA WaitdoneInv ==
    ASSUME EmuInv, NEW t \in Thread, emu_waitdone(t)
    PROVE  EmuInv'
<1>1. /\ EmuTypes /\ EmuLock /\ em[t].pc = "wait" /\ e_sem > 0
      /\ AnswerOK(t) /\ CallerOK(t) /\ TaskOK(t) /\ em[t] \in TaskRecord
      /\ UNCHANGED <<e_lock, e_result, reg, reply, opened, ev, names, refs>>
  BY DEF EmuInv, emu_waitdone, At, EmuAnswers, EmuRefs, EmuLock, EmuTypes, hw_vars
<1>2. e_lock = t /\ e_lock # NULL
  BY <1>1, EmuConstants DEF EmuLock
<1>3. e_sem = 1 /\ reg = NoOp /\ reply # NULL /\ reply.res = "none"
  <2>1. LockOK(t)
    BY <1>1, <1>2 DEF EmuLock
  <2> QED BY <1>1, <2>1 DEF LockOK
<1>4. Result(t) = e_result /\ e_result # "BADHANDLE" /\ e_result \in EmuResults
  <2>1. Result(t) = e_result
    BY <1>1, <1>3 DEF Result
  <2> QED BY <1>1, <2>1 DEF AnswerOK, EmuTypes
<1>5. PICK r : r = [em[t] EXCEPT !.pc = "done", !.res = e_result]
  OBVIOUS
<1>6. /\ r \in TaskRecord /\ r.pc = "done" /\ r.op = em[t].op /\ r.v = em[t].v /\ r.h = em[t].h
      /\ r.file = em[t].file /\ r.res = e_result
  BY <1>1, <1>4, <1>5 DEF TaskRecord, EmuPlaces
<1>7. em' = [em EXCEPT ![t] = r] /\ e_sem' = 0 /\ ~emu_panic'
  <2>1. em' = [em EXCEPT ![t] = r] /\ e_sem' = e_sem - 1
    BY <1>5 DEF emu_waitdone, Step
  <2>2. emu_panic' = (e_result = "BADHANDLE")
    BY DEF emu_waitdone
  <2>3. ~emu_panic'
    BY <1>4, <2>2
  <2>4. e_sem' = 0
    BY <1>3, <2>1
  <2> QED BY <2>1, <2>3, <2>4
<1>8. /\ em' \in [Thread -> TaskRecord] /\ em'[t] = r
      /\ \A u \in Thread \ {t} : em'[u] = em[u]
  BY <1>1, <1>6, <1>7, TaskStep
<1>9. EmuTypes'
  BY <1>1, <1>7, <1>8 DEF EmuTypes
<1>10. TaskOK(t)' /\ LockOK(t)'
  BY <1>1, <1>3, <1>6, <1>7, <1>8 DEF TaskOK, LockOK
<1>11. EmuLock'
  BY <1>1, <1>2, <1>6, <1>7, <1>10, LockStep
<1>12. \A u \in Thread \ {t} : Keeps(u)
  BY <1>1, <1>2, <1>8, OthersKeep
<1>13. Result(t)' = Result(t)
  BY <1>4, <1>6, <1>8 DEF Result
<1>14. AnswerOK(t)' /\ CallerOK(t)'
  BY <1>1, <1>6, <1>8, <1>13 DEF AnswerOK, CallerOK, Reclaims
<1>15. Owns(t)' = Owns(t) /\ HandleOf(t)' = HandleOf(t)
  BY <1>1, <1>6, <1>8, <1>13 DEF Owns, HandleOf
<1>16. \A w \in Vnode : Reclaims(t, w)' = Reclaims(t, w)
  BY <1>6, <1>8 DEF Reclaims
<1> QED BY <1>1, <1>9, <1>11, <1>12, <1>13, <1>14, <1>15, <1>16, EmuFrame

\* The thread returns with nothing to do for the device.
LEMMA ReturnInv ==
    ASSUME EmuInv, NEW t \in Thread, em' = [em EXCEPT ![t] = Rest], e_lock = t, e_lock' = NULL,
           reg' = NoOp, reply' = NULL, e_sem' = 0, ~emu_panic',
           UNCHANGED <<e_result, opened, ev, names, refs>>,
           \A w \in Vnode : ~(Reclaims(t, w) /\ Result(t) = "ok")
    PROVE  EmuInv'
<1>1. EmuTypes /\ EmuLock /\ Rest \in TaskRecord
  BY EmuConstants DEF EmuInv
<1>2. /\ em' \in [Thread -> TaskRecord] /\ em'[t] = Rest
      /\ \A u \in Thread \ {t} : em'[u] = em[u]
  BY <1>1, TaskStep
<1>3. EmuTypes'
  BY <1>1, <1>2, EmuConstants DEF EmuTypes
<1>4. TaskOK(t)'
  BY <1>2, EmuConstants DEF TaskOK
<1>5. EmuLock'
  <2>1. ~(Rest.pc \in {"wait", "done", "forget"}) /\ e_lock' # t
    BY EmuConstants
  <2> QED BY <1>1, <1>4, <2>1, LockStep
<1>6. \A u \in Thread \ {t} : Keeps(u)
  BY <1>1, <1>2, OthersKeep
<1>7. Result(t)' = "none"
  BY <1>2, EmuConstants DEF Result
<1>8. AnswerOK(t)' /\ CallerOK(t)' /\ ~Owns(t)' /\ \A w : ~Reclaims(t, w)'
  BY <1>2, <1>7, EmuConstants DEF AnswerOK, CallerOK, Owns, Reclaims
<1> QED BY <1>3, <1>5, <1>6, <1>8, EmuFrame

\* The end of an operation: the lock is released, or the close tried again, or the
\* vnode is about to go.
LEMMA DoneInv ==
    ASSUME EmuInv, NEW t \in Thread, done(t)
    PROVE  EmuInv'
<1>1. /\ EmuTypes /\ EmuLock /\ em[t].pc = "done" /\ ~emu_panic'
      /\ AnswerOK(t) /\ CallerOK(t) /\ TaskOK(t) /\ em[t] \in TaskRecord
      /\ UNCHANGED <<e_sem, e_result, opened, ev, names, refs, emu_panic>> /\ reply' = NULL
  BY DEF EmuInv, done, At, EmuAnswers, EmuRefs, EmuLock, EmuTypes
<1>2. e_lock = t /\ e_lock # NULL /\ Result(t) = em[t].res
  BY <1>1, EmuConstants DEF EmuLock, Result
<1>3. e_sem = 0 /\ reg = NoOp /\ reply # NULL /\ reply.res = "none" /\ reply \in ReplyRecord
  <2>1. LockOK(t)
    BY <1>1, <1>2 DEF EmuLock
  <2> QED BY <1>1, <2>1 DEF LockOK, EmuTypes
<1>4. CASE /\ em[t].op = "open" /\ em[t].res = "ok" /\ e_lock' = NULL /\ UNCHANGED reg
           /\ Step(t, [em[t] EXCEPT !.pc = "load", !.h = reply.h])
  <2>1. PICK r : r = [em[t] EXCEPT !.pc = "load", !.h = reply.h]
    OBVIOUS
  <2>2. /\ r \in TaskRecord /\ r.pc = "load" /\ r.op = "open" /\ r.v = em[t].v /\ r.h = reply.h
        /\ r.file = em[t].file
    <3>1. reply.h \in Handle
      BY <1>3 DEF ReplyRecord
    <3> QED BY <1>1, <1>4, <2>1, <3>1 DEF TaskRecord, EmuPlaces
  <2>3. em' = [em EXCEPT ![t] = r]
    BY <1>4, <2>1 DEF Step
  <2>4. /\ em' \in [Thread -> TaskRecord] /\ em'[t] = r
        /\ \A u \in Thread \ {t} : em'[u] = em[u]
    BY <1>1, <2>2, <2>3, TaskStep
  <2>5. EmuTypes'
    BY <1>1, <1>4, <2>4 DEF EmuTypes
  <2>6. TaskOK(t)'
    BY <1>1, <1>4, <2>2, <2>4 DEF TaskOK
  <2>7. EmuLock'
    <3>1. e_lock' # t
      BY <1>4, EmuConstants
    <3> QED BY <1>1, <1>2, <1>3, <1>4, <2>2, <2>3, <2>6, <3>1, LockStep
  <2>8. \A u \in Thread \ {t} : Keeps(u)
    BY <1>1, <1>2, <2>4, OthersKeep
  <2>9. Result(t)' = "none"
    BY <2>2, <2>4 DEF Result
  <2>10. AnswerOK(t)' /\ CallerOK(t)'
    BY <1>1, <1>2, <1>4, <2>2, <2>4, <2>9 DEF AnswerOK, CallerOK, Reclaims
  <2>11. Owns(t) /\ HandleOf(t) = reply.h /\ HandleOf(t)' = reply.h
    BY <1>1, <1>2, <1>4, <2>2, <2>4 DEF Owns, HandleOf
  <2>12. \A w : ~Reclaims(t, w) /\ ~Reclaims(t, w)'
    BY <1>4, <2>2, <2>4 DEF Reclaims
  <2> QED BY <1>1, <2>5, <2>7, <2>8, <2>10, <2>11, <2>12, EmuFrame
<1>5. CASE Step(t, Rest) /\ e_lock' = NULL /\ UNCHANGED reg /\ em[t].op \in {"open", "io"}
  <2>1. \A w \in Vnode : ~Reclaims(t, w)
    BY <1>5 DEF Reclaims
  <2> QED BY <1>1, <1>2, <1>3, <1>5, <2>1, ReturnInv DEF Step
<1>6. CASE /\ em[t].op = "close" /\ em[t].res = "EIO" /\ UNCHANGED e_lock
           /\ reg' = [op |-> "close", h |-> em[t].h, file |-> NULL]
           /\ Step(t, [em[t] EXCEPT !.pc = "wait", !.tries = @ + 1])
  <2>1. PICK r : r = [em[t] EXCEPT !.pc = "wait", !.tries = @ + 1]
    OBVIOUS
  <2>2. /\ r \in TaskRecord /\ r.pc = "wait" /\ r.op = "close" /\ r.v = em[t].v /\ r.h = em[t].h
        /\ r.file = em[t].file
    BY <1>1, <1>6, <2>1, em[t].tries + 1 \in Int DEF TaskRecord, EmuPlaces
  <2>3. em' = [em EXCEPT ![t] = r]
    BY <1>6, <2>1 DEF Step
  <2>4. /\ em' \in [Thread -> TaskRecord] /\ em'[t] = r
        /\ \A u \in Thread \ {t} : em'[u] = em[u]
    BY <1>1, <2>2, <2>3, TaskStep
  <2>5. reg' \in OperRecord
    BY <1>1, <1>6 DEF TaskRecord, OperRecord, EmuOps
  <2>6. EmuTypes'
    BY <1>1, <1>6, <2>4, <2>5 DEF EmuTypes
  <2>7. TaskOK(t)' /\ LockOK(t)'
    BY <1>1, <1>3, <1>6, <2>2, <2>4 DEF TaskOK, LockOK
  <2>8. EmuLock'
    BY <1>1, <1>2, <1>6, <2>2, <2>3, <2>7, LockStep
  <2>9. \A u \in Thread \ {t} : Keeps(u)
    BY <1>1, <1>2, <2>4, OthersKeep
  <2>10. Result(t)' = "none" /\ Result(t) = "EIO"
    BY <1>1, <1>2, <1>3, <1>6, <2>2, <2>4 DEF Result
  <2>11. AnswerOK(t)' /\ CallerOK(t)'
    BY <1>1, <1>6, <2>2, <2>4, <2>10 DEF AnswerOK, CallerOK, Reclaims
  <2>12. Owns(t)' = Owns(t) /\ HandleOf(t)' = HandleOf(t)
    BY <1>1, <1>6, <2>2, <2>4, <2>10 DEF Owns, HandleOf
  <2>13. \A w \in Vnode : Reclaims(t, w)' => Reclaims(t, w)
    BY <1>6, <2>2, <2>4 DEF Reclaims
  <2> QED BY <1>1, <2>6, <2>8, <2>9, <2>10, <2>11, <2>12, <2>13, EmuFrame
<1>7. CASE /\ em[t].op = "close" /\ em[t].v # NULL /\ em[t].res = "ok" /\ UNCHANGED <<e_lock, reg>>
           /\ Step(t, [em[t] EXCEPT !.pc = "forget"])
  <2>1. PICK r : r = [em[t] EXCEPT !.pc = "forget"]
    OBVIOUS
  <2>2. /\ r \in TaskRecord /\ r.pc = "forget" /\ r.op = "close" /\ r.v = em[t].v /\ r.h = em[t].h
        /\ r.file = em[t].file /\ r.res = "ok" /\ r.v \in Vnode
    BY <1>1, <1>7, <2>1 DEF TaskRecord, EmuPlaces
  <2>3. em' = [em EXCEPT ![t] = r]
    BY <1>7, <2>1 DEF Step
  <2>4. /\ em' \in [Thread -> TaskRecord] /\ em'[t] = r
        /\ \A u \in Thread \ {t} : em'[u] = em[u]
    BY <1>1, <2>2, <2>3, TaskStep
  <2>5. EmuTypes'
    BY <1>1, <1>7, <2>4 DEF EmuTypes
  <2>6. TaskOK(t)' /\ LockOK(t)'
    BY <1>1, <1>3, <1>7, <2>2, <2>4 DEF TaskOK, LockOK
  <2>7. EmuLock'
    BY <1>1, <1>2, <1>7, <2>2, <2>3, <2>6, LockStep
  <2>8. \A u \in Thread \ {t} : Keeps(u)
    BY <1>1, <1>2, <2>4, OthersKeep
  <2>9. Result(t)' = "ok" /\ Result(t) = "ok"
    BY <1>2, <1>7, <2>2, <2>4 DEF Result
  <2>10. AnswerOK(t)' /\ CallerOK(t)'
    BY <1>1, <1>7, <2>2, <2>4, <2>9 DEF AnswerOK, CallerOK, Reclaims
  <2>11. ~Owns(t)'
    BY <2>2, <2>4, <2>9 DEF Owns
  <2>12. \A w \in Vnode : Reclaims(t, w)' = Reclaims(t, w)
    BY <1>7, <2>2, <2>4 DEF Reclaims
  <2> QED BY <1>1, <2>5, <2>7, <2>8, <2>9, <2>10, <2>11, <2>12, EmuFrame
<1>8. CASE /\ em[t].op = "close" /\ ~(em[t].v # NULL /\ em[t].res = "ok")
           /\ Step(t, Rest) /\ e_lock' = NULL /\ UNCHANGED reg
  <2>1. \A w \in Vnode : ~(Reclaims(t, w) /\ Result(t) = "ok")
    BY <1>2, <1>8, EmuConstants DEF Reclaims
  <2> QED BY <1>1, <1>2, <1>3, <1>8, <2>1, ReturnInv DEF Step
<1> QED BY <1>4, <1>5, <1>6, <1>7, <1>8 DEF done

\* emufs_reclaim: EBUSY, or the close of the vnode's handle is asked for.
LEMMA ReclaimInv ==
    ASSUME EmuInv, NEW t \in Thread, emufs_reclaim(t)
    PROVE  EmuInv'
<1>1. /\ EmuTypes /\ EmuLock /\ em[t].pc = "reclaim" /\ e_lock = NULL
      /\ UNCHANGED <<e_sem, e_result, reply, opened, ev, names, refs, emu_panic>>
      /\ AnswerOK(t) /\ CallerOK(t) /\ TaskOK(t) /\ em[t] \in TaskRecord
  BY DEF EmuInv, emufs_reclaim, At, EmuAnswers, EmuRefs, EmuLock, EmuTypes
<1>2. /\ em[t].op = "close" /\ em[t].v \in Vnode /\ em[t].file = NULL
      /\ e_sem = 0 /\ reply = NULL /\ reg = NoOp /\ Result(t) = "none" /\ ~emu_panic
  <2>1. em[t].op \in EmuOps
    BY <1>1 DEF TaskRecord
  <2>2. em[t].op = "close"
    BY <1>1, <2>1 DEF TaskOK, EmuOps
  <2> QED BY <1>1, <2>2 DEF EmuLock, TaskOK, Result
<1>3. CASE Step(t, Rest) /\ UNCHANGED <<e_lock, reg>>
  <2>1. em' = [em EXCEPT ![t] = Rest] /\ Rest \in TaskRecord
    BY <1>3, EmuConstants DEF Step
  <2>2. /\ em' \in [Thread -> TaskRecord] /\ em'[t] = Rest
        /\ \A u \in Thread \ {t} : em'[u] = em[u]
    BY <1>1, <2>1, TaskStep
  <2>3. EmuTypes'
    BY <1>1, <1>3, <2>2 DEF EmuTypes
  <2>4. TaskOK(t)'
    BY <2>2, EmuConstants DEF TaskOK
  <2>5. EmuLock'
    BY <1>1, <1>3, <2>1, <2>4, EmuConstants, LockIdle
  <2>6. \A u \in Thread \ {t} : Keeps(u)
    BY <1>1, <2>2, OthersKeep
  <2>7. Result(t)' = "none"
    BY <2>2, EmuConstants DEF Result
  <2>8. AnswerOK(t)' /\ CallerOK(t)' /\ ~Owns(t)' /\ \A w : ~Reclaims(t, w)'
    BY <2>2, <2>7, EmuConstants DEF AnswerOK, CallerOK, Owns, Reclaims
  <2> QED BY <1>1, <1>2, <2>3, <2>5, <2>6, <2>8, EmuFrame
<1>4. CASE /\ e_lock' = t /\ reg' = [op |-> "close", h |-> em[t].h, file |-> NULL]
           /\ Step(t, [em[t] EXCEPT !.pc = "wait"])
  <2>1. PICK r : r = [em[t] EXCEPT !.pc = "wait"]
    OBVIOUS
  <2>2. /\ r \in TaskRecord /\ r.pc = "wait" /\ r.op = "close" /\ r.v = em[t].v /\ r.h = em[t].h
        /\ r.file = NULL
    BY <1>1, <1>2, <2>1 DEF TaskRecord, EmuPlaces
  <2>3. em' = [em EXCEPT ![t] = r]
    BY <1>4, <2>1 DEF Step
  <2>4. /\ em' \in [Thread -> TaskRecord] /\ em'[t] = r
        /\ \A u \in Thread \ {t} : em'[u] = em[u]
    BY <1>1, <2>2, <2>3, TaskStep
  <2>5. reg' \in OperRecord
    BY <1>1, <1>4 DEF TaskRecord, OperRecord, EmuOps
  <2>6. EmuTypes'
    BY <1>1, <1>4, <2>4, <2>5 DEF EmuTypes
  <2>7. TaskOK(t)' /\ LockOK(t)'
    BY <1>1, <1>2, <1>4, <2>2, <2>4 DEF TaskOK, LockOK
  <2>8. EmuLock'
    <3>1. e_lock' # NULL /\ ~emu_panic'
      BY <1>1, <1>2, <1>4, EmuConstants
    <3> QED BY <1>1, <1>4, <2>2, <2>3, <2>7, <3>1, LockStep
  <2>9. \A u \in Thread \ {t} : Keeps(u)
    BY <1>1, <2>4, OthersKeep
  <2>10. Result(t)' = "none"
    BY <1>1, <1>2, <2>2, <2>4 DEF Result
  <2>11. AnswerOK(t)' /\ CallerOK(t)' /\ ~Owns(t)'
    BY <1>1, <1>2, <2>2, <2>4, <2>10, EmuConstants DEF AnswerOK, CallerOK, Owns, Reclaims
  <2>12. \A w \in Vnode : Reclaims(t, w)' => Reclaims(t, w)
    BY <1>2, <2>2, <2>4 DEF Reclaims
  <2> QED BY <1>1, <1>2, <2>6, <2>8, <2>9, <2>11, <2>12, EmuFrame
<1> QED BY <1>3, <1>4 DEF emufs_reclaim

\* emu_irq: the result moves from the device to the softc.
LEMMA IrqInv ==
    ASSUME EmuInv, emu_irq
    PROVE  EmuInv'
<1>1. /\ EmuTypes /\ EmuLock /\ reply # NULL /\ reply.res # "none" /\ reply \in ReplyRecord
      /\ e_result' = reply.res /\ e_sem' = e_sem + 1 /\ reply' = [reply EXCEPT !.res = "none"]
      /\ UNCHANGED <<e_lock, reg, opened, ev, names, refs, em, emu_panic>>
  BY DEF EmuInv, EmuTypes, emu_irq
<1>2. PICK t \in Thread : e_lock = t
  BY <1>1 DEF EmuLock, EmuTypes
<1>3. /\ em[t].pc = "wait" /\ reg = NoOp /\ e_sem = 0 /\ ~emu_panic
  <2>1. LockOK(t)
    BY <1>1, <1>2 DEF EmuLock
  <2> QED BY <1>1, <2>1 DEF LockOK, EmuLock
<1>4. reply' # NULL /\ reply'.res = "none" /\ reply'.h = reply.h /\ reply'.file = reply.file
      /\ reply' \in ReplyRecord
  <2>1. reply' \in ReplyRecord /\ reply'.res = "none" /\ reply'.h = reply.h /\ reply'.file = reply.file
    BY <1>1 DEF ReplyRecord
  <2> QED BY <2>1, EmuConstants
<1>5. e_sem' = 1 /\ e_result' \in EmuResults
  BY <1>1, <1>3 DEF ReplyRecord
<1>6. EmuTypes'
  BY <1>1, <1>4, <1>5 DEF EmuTypes
<1>7. EmuLock'
  <2>1. \A u \in Thread : TaskOK(u)'
    BY <1>1 DEF EmuLock, TaskOK
  <2>2. LockOK(t)'
    BY <1>1, <1>3, <1>4, <1>5 DEF LockOK
  <2>3. e_lock' # NULL /\ \A u \in Thread : e_lock' = u => u = t
    BY <1>1, <1>2, EmuConstants
  <2> QED BY <1>1, <1>3, <2>1, <2>2, <2>3 DEF EmuLock
<1>8. \A u \in Thread \ {t} : Keeps(u)
  BY <1>1, <1>2, OthersKeep
<1>9. Result(t)' = Result(t)
  BY <1>1, <1>3, <1>5 DEF Result
<1>10. AnswerOK(t) /\ CallerOK(t)
  BY DEF EmuInv, EmuAnswers, EmuRefs
<1>11. AnswerOK(t)' /\ CallerOK(t)'
  BY <1>1, <1>4, <1>9, <1>10 DEF AnswerOK, CallerOK, Reclaims
<1>12. Owns(t)' = Owns(t) /\ HandleOf(t)' = HandleOf(t)
  BY <1>1, <1>4, <1>9 DEF Owns, HandleOf
<1>13. \A w \in Vnode : Reclaims(t, w)' = Reclaims(t, w)
  BY <1>1 DEF Reclaims
<1> QED BY <1>1, <1>6, <1>7, <1>8, <1>9, <1>11, <1>12, <1>13, EmuFrame

\* A vnode that someone has a reference to stands for the open file it is named for.
LEMMA UsedOpen ==
    ASSUME EmuInv, NEW w \in Vnode, refs[w] > 0
    PROVE  /\ ev[w] # NULL /\ opened[ev[w].h] = names[w] /\ names[w] \in File
           /\ \A t \in Thread : ~Reclaims(t, w)
<1>1. CountOK(w) /\ \A t \in Thread : CallerOK(t)
  BY DEF EmuInv, EmuRefs
<1>2. refs[w] # 0
  OBVIOUS
<1>3. ev[w] # NULL /\ \A t \in Thread : ~Reclaims(t, w)
  BY <1>1, <1>2 DEF CountOK, CallerOK
<1> QED BY <1>3 DEF EmuInv, EmuHandles

\* A handle that a thread owns is open.
LEMMA OwnedOpen ==
    ASSUME EmuInv, NEW t \in Thread, Owns(t)
    PROVE  opened[HandleOf(t)] # NULL
<1>1. AnswerOK(t) /\ TaskOK(t)
  BY DEF EmuInv, EmuAnswers, EmuLock
<1>2. em[t].pc = "load" => em[t].op = "open"
  <2>1. em[t].op \in EmuOps
    BY DEF EmuInv, EmuTypes, TaskRecord
  <2> QED BY <1>1, <2>1 DEF TaskOK, EmuOps
<1>3. CASE em[t].pc = "load"
  BY <1>1, <1>2, <1>3, EmuConstants DEF AnswerOK, TaskOK, HandleOf
<1>4. CASE em[t].pc # "load" /\ em[t].op = "open"
  BY <1>1, <1>4, EmuConstants DEF AnswerOK, TaskOK, HandleOf, Owns
<1>5. CASE em[t].pc # "load" /\ em[t].op # "open"
  BY <1>1, <1>5 DEF AnswerOK, HandleOf, Owns
<1> QED BY <1>3, <1>4, <1>5

\* A step that changes counts only.
LEMMA CountsStep ==
    ASSUME EmuInv, UNCHANGED <<e_lock, e_sem, e_result, reg, reply, opened, names, em, emu_panic>>,
           ev' \in [Vnode -> VnodeRecord \cup {NULL}], refs' \in [Vnode -> Int],
           \A w \in Vnode : (ev'[w] = NULL <=> ev[w] = NULL) /\ (ev[w] # NULL => ev'[w].h = ev[w].h),
           \A w \in Vnode : CountOK(w)' /\ (refs[w] > 0 <=> refs'[w] > 0)
    PROVE  EmuInv'
<1>1. EmuTypes /\ EmuLock /\ EmuAnswers /\ EmuHandles /\ EmuRefs
  BY DEF EmuInv
<1>2. EmuTypes'
  BY <1>1 DEF EmuTypes
<1>3. EmuLock'
  BY <1>1 DEF EmuLock, TaskOK, LockOK
<1>4. \A t \in Thread : /\ Result(t)' = Result(t) /\ Owns(t)' = Owns(t) /\ HandleOf(t)' = HandleOf(t)
                        /\ \A w : Reclaims(t, w)' = Reclaims(t, w)
  BY DEF Result, Owns, HandleOf, Reclaims
<1>5. EmuAnswers'
  BY <1>1, <1>4 DEF EmuAnswers, AnswerOK
<1>6. EmuHandles'
  BY <1>1, <1>4 DEF EmuHandles
<1>7. ASSUME NEW t \in Thread PROVE CallerOK(t)'
  <2>1. CallerOK(t) /\ TaskOK(t)
    BY <1>1 DEF EmuRefs, EmuLock
  <2>2. ASSUME em[t].op = "io" PROVE refs'[em[t].v] > 0 /\ em[t].h = ev'[em[t].v].h
    <3>1. em[t].v \in Vnode /\ refs[em[t].v] > 0 /\ em[t].h = ev[em[t].v].h
      BY <2>1, <2>2 DEF CallerOK, TaskOK
    <3>2. ev[em[t].v] # NULL
      BY <3>1, UsedOpen
    <3> QED BY <3>1, <3>2
  <2>3. ASSUME NEW w \in Vnode, Reclaims(t, w) PROVE ev'[w] # NULL /\ refs'[w] = 0 /\ em[t].h = ev'[w].h
    <3>1. ev[w] # NULL /\ refs[w] = 0 /\ em[t].h = ev[w].h
      BY <2>1, <2>3 DEF CallerOK
    <3>2. refs'[w] \in Int /\ refs'[w] >= 0 /\ ~(refs'[w] > 0)
      BY <3>1 DEF CountOK
    <3>3. refs'[w] = 0
      BY <3>2
    <3> QED BY <3>1, <3>3
  <2> QED BY <1>4, <2>2, <2>3 DEF CallerOK
<1>8. EmuRefs'
  BY <1>1, <1>4, <1>7 DEF EmuRefs
<1> QED BY <1>2, <1>3, <1>5, <1>6, <1>8 DEF EmuInv

\* VOP_INCREF
LEMMA EmuIncrefInv ==
    ASSUME EmuInv, NEW t \in Thread, NEW w \in InTable, emu_incref(t, w)
    PROVE  EmuInv'
<1>1. /\ w \in Vnode /\ refs[w] > 0 /\ ev' = [ev EXCEPT ![w].refcount = @ + 1]
      /\ refs' = [refs EXCEPT ![w] = @ + 1] /\ CountOK(w)
      /\ UNCHANGED <<e_lock, e_sem, e_result, reg, reply, opened, names, em, emu_panic>>
  BY DEF emu_incref, InTable, hw_vars, EmuInv, EmuRefs
<1>2. ev \in [Vnode -> VnodeRecord \cup {NULL}] /\ refs \in [Vnode -> Int] /\ ev[w] # NULL
  BY DEF EmuInv, EmuTypes, InTable
<1>3. PICK x \in VnodeRecord : x = ev[w]
  BY <1>1, <1>2
<1>4. x.refcount \in Int /\ x.h \in Handle /\ x.refcount = refs[w] /\ x.refcount + 1 \in Int
  BY <1>1, <1>2, <1>3 DEF VnodeRecord, CountOK
<1>5. PICK y : y = [x EXCEPT !.refcount = @ + 1]
  OBVIOUS
<1>6. y \in VnodeRecord /\ y.h = x.h /\ y.refcount = x.refcount + 1
  BY <1>3, <1>4, <1>5 DEF VnodeRecord
<1>7. ev' = [ev EXCEPT ![w] = y]
  BY <1>1, <1>3, <1>5
<1>8. /\ ev' \in [Vnode -> VnodeRecord \cup {NULL}] /\ ev'[w] = y
      /\ \A z \in Vnode \ {w} : ev'[z] = ev[z]
  BY <1>1, <1>2, <1>6, <1>7
<1>9. /\ refs' \in [Vnode -> Int] /\ refs'[w] = refs[w] + 1
      /\ \A z \in Vnode \ {w} : refs'[z] = refs[z]
  BY <1>1, <1>2
<1>10. \A z \in Vnode : (ev'[z] = NULL <=> ev[z] = NULL) /\ (ev[z] # NULL => ev'[z].h = ev[z].h)
  BY <1>2, <1>3, <1>6, <1>8, EmuConstants
<1>11. \A z \in Vnode : CountOK(z)' /\ (refs[z] > 0 <=> refs'[z] > 0)
  <2>1. CountOK(w)' /\ refs'[w] > 0
    <3>1. refs[w] \in Int /\ refs'[w] > 0 /\ refs'[w] >= 0 /\ y.refcount = refs'[w]
      BY <1>1, <1>2, <1>4, <1>6, <1>9
    <3> QED BY <1>2, <1>8, <1>10, <3>1 DEF CountOK
  <2>2. ASSUME NEW z \in Vnode \ {w} PROVE CountOK(z)' /\ refs'[z] = refs[z]
    <3>1. CountOK(z)
      BY DEF EmuInv, EmuRefs
    <3> QED BY <1>8, <1>9, <3>1 DEF CountOK
  <2> QED BY <1>1, <2>1, <2>2
<1> QED BY <1>1, <1>8, <1>9, <1>10, <1>11, CountsStep

\* vnode_decref: the count goes down, or the thread goes to reclaim the vnode, which
\* then nobody uses.
LEMMA EmuDecrefInv ==
    ASSUME EmuInv, NEW t \in Thread, NEW w \in InTable, emu_decref(t, w)
    PROVE  EmuInv'
<1>1. /\ w \in Vnode /\ ev[w] # NULL /\ EmuTypes /\ EmuLock /\ EmuAnswers /\ EmuHandles /\ EmuRefs
      /\ CountOK(w) /\ em[t].pc = "idle" /\ ~emu_panic
      /\ refs' = [refs EXCEPT ![w] = @ - 1]
      /\ UNCHANGED <<e_lock, e_sem, e_result, reg, reply, opened, names, emu_panic>>
  BY DEF emu_decref, At, InTable, hw_vars, EmuInv, EmuRefs
<1>2. /\ ev \in [Vnode -> VnodeRecord \cup {NULL}] /\ refs \in [Vnode -> Int]
      /\ em \in [Thread -> TaskRecord]
  BY <1>1 DEF EmuTypes
<1>3. /\ refs' \in [Vnode -> Int] /\ refs'[w] = refs[w] - 1
      /\ \A z \in Vnode \ {w} : refs'[z] = refs[z]
  BY <1>1, <1>2
<1>4. IsFiniteSet({u \in Thread : em[u].v = w /\ em[u].op = "io"}) /\ Used(w) \in Nat
  <2>1. IsFiniteSet({u \in Thread : em[u].v = w /\ em[u].op = "io"})
    BY ThreadsFinite, FS_Subset
  <2> QED BY <2>1, FS_CardinalityType DEF Used
<1>5. refs[w] > Used(w) /\ refs[w] > 0
  <2>1. refs[w] > Used(w) + (IF ev[w].h = 0 THEN 1 ELSE 0)
    BY DEF emu_decref
  <2> QED BY <1>1, <1>2, <1>4, <2>1
<1>6. PICK x \in VnodeRecord : x = ev[w]
  BY <1>1, <1>2
<1>7. x.refcount \in Int /\ x.h \in Handle /\ x.refcount = refs[w]
  BY <1>1, <1>5, <1>6 DEF VnodeRecord, CountOK
<1>8. /\ opened[ev[w].h] = names[w] /\ names[w] \in File /\ \A u \in Thread : ~Reclaims(u, w)
  BY <1>1, <1>5, UsedOpen
<1>9. CASE ev[w].refcount > 1
  <2>1. ev' = [ev EXCEPT ![w].refcount = @ - 1] /\ em' = em
    BY <1>9 DEF emu_decref
  <2>2. PICK y : y = [x EXCEPT !.refcount = @ - 1]
    OBVIOUS
  <2>3. y \in VnodeRecord /\ y.h = x.h /\ y.refcount = x.refcount - 1
    BY <1>6, <1>7, <2>2, x.refcount - 1 \in Int DEF VnodeRecord
  <2>4. ev' = [ev EXCEPT ![w] = y]
    BY <1>6, <2>1, <2>2
  <2>5. /\ ev' \in [Vnode -> VnodeRecord \cup {NULL}] /\ ev'[w] = y
        /\ \A z \in Vnode \ {w} : ev'[z] = ev[z]
    BY <1>1, <1>2, <2>3, <2>4
  <2>6. \A z \in Vnode : (ev'[z] = NULL <=> ev[z] = NULL) /\ (ev[z] # NULL => ev'[z].h = ev[z].h)
    BY <1>1, <1>2, <1>6, <2>3, <2>5, EmuConstants
  <2>7. \A z \in Vnode : CountOK(z)' /\ (refs[z] > 0 <=> refs'[z] > 0)
    <3>1. CountOK(w)' /\ refs'[w] > 0
      <4>1. refs[w] \in Int /\ refs'[w] > 0 /\ refs'[w] >= 0 /\ y.refcount = refs'[w]
        BY <1>1, <1>2, <1>3, <1>6, <1>7, <1>9, <2>3
      <4> QED BY <1>1, <2>5, <2>6, <4>1 DEF CountOK
    <3>2. ASSUME NEW z \in Vnode \ {w} PROVE CountOK(z)' /\ refs'[z] = refs[z]
      <4>1. CountOK(z)
        BY <1>1 DEF EmuRefs
      <4> QED BY <1>3, <2>5, <4>1 DEF CountOK
    <3> QED BY <1>5, <3>1, <3>2
  <2> QED BY <1>1, <1>3, <2>1, <2>5, <2>6, <2>7, CountsStep
<1>10. CASE ~(ev[w].refcount > 1)
  <2>1. refs[w] = 1 /\ refs'[w] = 0 /\ Used(w) = 0
    BY <1>2, <1>3, <1>4, <1>5, <1>6, <1>7, <1>10
  <2>2. \A u \in Thread : ~(em[u].v = w /\ em[u].op = "io")
    BY <1>4, <2>1, FS_EmptySet DEF Used
  <2>3. PICK r : r = [Rest EXCEPT !.pc = "reclaim", !.op = "close", !.v = w, !.h = ev[w].h]
    OBVIOUS
  <2>4. /\ r \in TaskRecord /\ r.pc = "reclaim" /\ r.op = "close" /\ r.v = w /\ r.h = ev[w].h
        /\ r.file = NULL
    BY <1>1, <1>6, <1>7, <2>3, EmuConstants DEF TaskRecord, EmuPlaces, EmuOps
  <2>5. em' = [em EXCEPT ![t] = r] /\ ev' = ev
    BY <1>10, <2>3 DEF emu_decref, Step
  <2>6. /\ em' \in [Thread -> TaskRecord] /\ em'[t] = r
        /\ \A u \in Thread \ {t} : em'[u] = em[u]
    BY <1>1, <2>4, <2>5, TaskStep
  <2>7. EmuTypes'
    BY <1>1, <1>3, <2>5, <2>6 DEF EmuTypes
  <2>8. TaskOK(t)'
    BY <1>1, <2>4, <2>6 DEF TaskOK
  <2>9. EmuLock'
    BY <1>1, <2>4, <2>5, <2>8, LockIdle
  <2>10. \A u \in Thread \ {t} : Keeps(u)
    BY <1>1, <2>6, OthersSame
  <2>11. /\ Result(t)' = "none" /\ ~Owns(t)' /\ \A z : Reclaims(t, z)' <=> z = w
    BY <1>1, <2>4, <2>6, EmuConstants DEF Result, Owns, Reclaims
  <2>12. \A z : ~Reclaims(t, z)
    BY <1>1 DEF EmuLock, TaskOK, Reclaims
  <2>13. \A u \in Thread \ {t}, z \in Vnode : Reclaims(u, z)' = Reclaims(u, z)
    BY <2>6 DEF Reclaims
  <2>14. EmuAnswers'
    <3>1. AnswerOK(t)'
      BY <1>1, <1>8, <2>4, <2>6, <2>11, EmuConstants DEF AnswerOK
    <3>2. ASSUME NEW u \in Thread \ {t} PROVE AnswerOK(u)'
      <4>1. AnswerOK(u)
        BY <1>1 DEF EmuAnswers
      <4> QED BY <1>1, <2>10, <4>1 DEF AnswerOK, Keeps
    <3> QED BY <3>1, <3>2 DEF EmuAnswers
  <2>15. EmuHandles'
    <3>1. \A u \in Thread : Owns(u)' => Owns(u) /\ HandleOf(u)' = HandleOf(u)
      BY <2>10, <2>11 DEF Keeps
    <3>2. \A u, z \in Thread : Owns(u)' /\ Owns(z)' /\ HandleOf(u)' = HandleOf(z)' => u = z
      BY <1>1, <3>1 DEF EmuHandles
    <3>3. \A u \in Thread, z \in Vnode : Owns(u)' /\ ev'[z] # NULL => ev'[z].h # HandleOf(u)'
      BY <1>1, <2>5, <3>1 DEF EmuHandles
    <3>4. \A z \in Vnode : ev'[z] # NULL =>
           \/ opened'[ev'[z].h] = names'[z] /\ names'[z] \in File
           \/ \E u \in Thread : Reclaims(u, z)' /\ Result(u)' = "ok"
      <4>1. TAKE z \in Vnode
      <4>2. ASSUME NEW u \in Thread, Reclaims(u, z), Result(u) = "ok"
            PROVE  Reclaims(u, z)' /\ Result(u)' = "ok"
        BY <2>10, <2>12, <2>13, <4>2 DEF Keeps
      <4> QED BY <1>1, <2>5, <4>2 DEF EmuHandles
    <3> QED BY <1>1, <2>5, <3>2, <3>3, <3>4 DEF EmuHandles
  <2>16. EmuRefs'
    <3>1. \A z \in Vnode : CountOK(z)'
      <4>1. CountOK(w)'
        BY <1>1, <1>6, <1>7, <2>1, <2>5 DEF CountOK
      <4>2. ASSUME NEW z \in Vnode \ {w} PROVE CountOK(z)'
        <5>1. CountOK(z)
          BY <1>1 DEF EmuRefs
        <5> QED BY <1>3, <2>5, <5>1 DEF CountOK
      <4> QED BY <4>1, <4>2
    <3>2. CallerOK(t)'
      BY <1>1, <2>1, <2>4, <2>5, <2>6, <2>11 DEF CallerOK
    <3>3. ASSUME NEW u \in Thread \ {t} PROVE CallerOK(u)'
      <4>1. CallerOK(u) /\ TaskOK(u) /\ em'[u] = em[u]
        BY <1>1, <2>6 DEF EmuRefs, EmuLock
      <4>2. em[u].op = "io" => refs'[em[u].v] > 0 /\ em[u].h = ev'[em[u].v].h
        BY <1>3, <2>2, <2>5, <4>1 DEF CallerOK, TaskOK
      <4>3. \A z \in Vnode : Reclaims(u, z) => ev'[z] # NULL /\ refs'[z] = 0 /\ em[u].h = ev'[z].h
        BY <1>3, <1>8, <2>5, <4>1 DEF CallerOK
      <4> QED BY <2>13, <4>1, <4>2, <4>3 DEF CallerOK
    <3>4. \A u, y \in Thread, z \in Vnode : Reclaims(u, z)' /\ Reclaims(y, z)' => u = y
      BY <1>1, <1>8, <2>11, <2>13 DEF EmuRefs
    <3> QED BY <3>1, <3>2, <3>3, <3>4 DEF EmuRefs
  <2> QED BY <2>7, <2>9, <2>14, <2>15, <2>16 DEF EmuInv
<1> QED BY <1>9, <1>10

\* A thread that has opened a file and has no vnode for it yet.
LEMMA LoadsOpen ==
    ASSUME EmuInv, NEW t \in Thread, em[t].pc = "load"
    PROVE  /\ em[t].op = "open" /\ em[t].file \in File /\ Owns(t) /\ HandleOf(t) = em[t].h
           /\ opened[em[t].h] = em[t].file /\ em[t].h \in Handle
<1>1. AnswerOK(t) /\ TaskOK(t) /\ em[t] \in TaskRecord
  BY DEF EmuInv, EmuAnswers, EmuLock, EmuTypes
<1>2. em[t].op = "open" /\ em[t].h \in Handle
  BY <1>1 DEF TaskRecord, TaskOK, EmuOps
<1> QED BY <1>1, <1>2 DEF TaskOK, AnswerOK, Owns, HandleOf

\* emufs_loadvnode: no vnode has the handle, so it gets one of its own or is closed.
LEMMA LoadInv ==
    ASSUME EmuInv, NEW t \in Thread, emufs_loadvnode(t)
    PROVE  EmuInv'
<1>1. /\ EmuTypes /\ EmuLock /\ EmuAnswers /\ EmuHandles /\ EmuRefs
      /\ em[t].pc = "load" /\ e_lock = NULL /\ ~emu_panic
      /\ UNCHANGED <<e_lock, e_sem, e_result, reg, reply, opened, emu_panic>>
  BY DEF EmuInv, emufs_loadvnode, At, hw_vars
<1>2. /\ em[t].op = "open" /\ em[t].file \in File /\ Owns(t) /\ HandleOf(t) = em[t].h
      /\ opened[em[t].h] = em[t].file /\ em[t].h \in Handle
  BY <1>1, LoadsOpen
<1>3. \A w \in Vnode : ev[w] # NULL => ev[w].h # em[t].h
  BY <1>1, <1>2 DEF EmuHandles
<1>4. \A w : ~Reclaims(t, w)
  BY <1>2 DEF Reclaims
<1>5. ASSUME NEW w \in Vnode, ev[w] = NULL, ev' = [ev EXCEPT ![w] = [h |-> em[t].h, refcount |-> 1]],
             names' = [names EXCEPT ![w] = em[t].file], refs' = [refs EXCEPT ![w] = 1],
             em' = [em EXCEPT ![t] = Rest]
      PROVE  EmuInv'
  <2>1. PICK y : y = [h |-> em[t].h, refcount |-> 1]
    OBVIOUS
  <2>2. y \in VnodeRecord /\ y.h = em[t].h /\ y.refcount = 1 /\ y # NULL
    <3>1. y \in VnodeRecord /\ y.h = em[t].h /\ y.refcount = 1
      BY <1>2, <2>1 DEF VnodeRecord
    <3> QED BY <3>1, EmuConstants
  <2>3. /\ ev' \in [Vnode -> VnodeRecord \cup {NULL}] /\ ev'[w] = y
        /\ \A z \in Vnode \ {w} : ev'[z] = ev[z]
    BY <1>1, <1>5, <2>1, <2>2 DEF EmuTypes
  <2>4. /\ names' \in [Vnode -> File \cup {NULL}] /\ names'[w] = em[t].file
        /\ \A z \in Vnode \ {w} : names'[z] = names[z]
    BY <1>1, <1>2, <1>5 DEF EmuTypes
  <2>5. /\ refs' \in [Vnode -> Int] /\ refs'[w] = 1 /\ \A z \in Vnode \ {w} : refs'[z] = refs[z]
    BY <1>1, <1>5 DEF EmuTypes
  <2>6. /\ em' \in [Thread -> TaskRecord] /\ em'[t] = Rest
        /\ \A u \in Thread \ {t} : em'[u] = em[u]
    BY <1>1, <1>5, EmuConstants, TaskStep
  <2>7. EmuTypes'
    BY <1>1, <2>3, <2>4, <2>5, <2>6 DEF EmuTypes
  <2>8. TaskOK(t)'
    BY <2>6, EmuConstants DEF TaskOK
  <2>9. EmuLock'
    BY <1>1, <1>5, <2>8, EmuConstants, LockIdle
  <2>10. \A u \in Thread \ {t} : Keeps(u)
    BY <1>1, <2>6, OthersSame
  <2>11. Result(t)' = "none" /\ ~Owns(t)' /\ (\A z : ~Reclaims(t, z)') /\ AnswerOK(t)' /\ CallerOK(t)'
    <3>1. Result(t)' = "none"
      BY <2>6, EmuConstants DEF Result
    <3> QED BY <2>6, <3>1, EmuConstants DEF Owns, Reclaims, AnswerOK, CallerOK
  <2>12. refs[w] = 0
    BY <1>1, <1>5 DEF EmuRefs, CountOK
  <2>13. ASSUME NEW u \in Thread \ {t}
         PROVE  /\ CallerOK(u) /\ TaskOK(u) /\ AnswerOK(u) /\ em'[u] = em[u]
                /\ em[u].op = "io" => em[u].v # w /\ em[u].v \in Vnode
                /\ ~Reclaims(u, w)
    <3>1. CallerOK(u) /\ TaskOK(u) /\ AnswerOK(u) /\ em'[u] = em[u]
      BY <1>1, <2>6 DEF EmuRefs, EmuLock, EmuAnswers
    <3>2. em[u].op = "io" => em[u].v # w /\ em[u].v \in Vnode
      BY <2>12, <3>1 DEF CallerOK, TaskOK
    <3>3. ~Reclaims(u, w)
      BY <1>5, <3>1 DEF CallerOK
    <3> QED BY <3>1, <3>2, <3>3
  <2>14. EmuAnswers'
    <3>1. ASSUME NEW u \in Thread \ {t} PROVE AnswerOK(u)'
      BY <1>1, <2>4, <2>10, <2>13 DEF AnswerOK, Keeps
    <3> QED BY <2>11, <3>1 DEF EmuAnswers
  <2>15. EmuHandles'
    <3>1. \A u \in Thread : Owns(u)' => Owns(u) /\ HandleOf(u)' = HandleOf(u) /\ u # t
      BY <2>10, <2>11 DEF Keeps
    <3>2. \A u, z \in Thread : Owns(u)' /\ Owns(z)' /\ HandleOf(u)' = HandleOf(z)' => u = z
      BY <1>1, <3>1 DEF EmuHandles
    <3>3. \A u \in Thread : Owns(u)' => HandleOf(u)' # em[t].h
      BY <1>1, <1>2, <3>1 DEF EmuHandles
    <3>4. \A u \in Thread, z \in Vnode : Owns(u)' /\ ev'[z] # NULL => ev'[z].h # HandleOf(u)'
      BY <1>1, <2>2, <2>3, <3>1, <3>3 DEF EmuHandles
    <3>5. \A x, z \in Vnode : ev'[x] # NULL /\ ev'[z] # NULL /\ ev'[x].h = ev'[z].h => x = z
      BY <1>1, <1>3, <2>2, <2>3 DEF EmuHandles
    <3>6. \A z \in Vnode : ev'[z] # NULL =>
           \/ opened'[ev'[z].h] = names'[z] /\ names'[z] \in File
           \/ \E u \in Thread : Reclaims(u, z)' /\ Result(u)' = "ok"
      <4>1. opened'[ev'[w].h] = names'[w] /\ names'[w] \in File
        BY <1>1, <1>2, <2>2, <2>3, <2>4
      <4>2. ASSUME NEW z \in Vnode \ {w}, NEW u \in Thread, Reclaims(u, z), Result(u) = "ok"
            PROVE  Reclaims(u, z)' /\ Result(u)' = "ok"
        BY <1>4, <2>10, <4>2 DEF Keeps, Reclaims
      <4>3. ASSUME NEW z \in Vnode \ {w}, ev'[z] # NULL
            PROVE  \/ opened'[ev'[z].h] = names'[z] /\ names'[z] \in File
                   \/ \E u \in Thread : Reclaims(u, z)' /\ Result(u)' = "ok"
        <5>1. ev[z] # NULL /\ ev'[z] = ev[z] /\ names'[z] = names[z]
          BY <2>3, <2>4, <4>3
        <5>2. \/ opened[ev[z].h] = names[z] /\ names[z] \in File
              \/ \E u \in Thread : Reclaims(u, z) /\ Result(u) = "ok"
          BY <1>1, <5>1 DEF EmuHandles
        <5> QED BY <1>1, <4>2, <5>1, <5>2
      <4> QED BY <4>1, <4>3
    <3> QED BY <3>2, <3>4, <3>5, <3>6 DEF EmuHandles
  <2>16. EmuRefs'
    <3>1. \A z \in Vnode : CountOK(z)'
      <4>1. CountOK(w)'
        BY <2>2, <2>3, <2>5 DEF CountOK
      <4>2. ASSUME NEW z \in Vnode \ {w} PROVE CountOK(z)'
        <5>1. CountOK(z)
          BY <1>1 DEF EmuRefs
        <5> QED BY <2>3, <2>5, <5>1 DEF CountOK
      <4> QED BY <4>1, <4>2
    <3>2. ASSUME NEW u \in Thread \ {t} PROVE CallerOK(u)'
      <4>1. em[u].op = "io" => refs'[em[u].v] > 0 /\ em[u].h = ev'[em[u].v].h
        BY <2>3, <2>5, <2>13 DEF CallerOK
      <4>2. \A z \in Vnode : Reclaims(u, z) => ev'[z] # NULL /\ refs'[z] = 0 /\ em[u].h = ev'[z].h
        BY <2>3, <2>5, <2>13 DEF CallerOK
      <4> QED BY <2>13, <4>1, <4>2 DEF CallerOK, Reclaims
    <3>3. \A u \in Thread, z \in Vnode : Reclaims(u, z)' => Reclaims(u, z)
      BY <2>6, <2>11 DEF Reclaims
    <3>4. \A u, y2 \in Thread, z \in Vnode : Reclaims(u, z)' /\ Reclaims(y2, z)' => u = y2
      BY <1>1, <3>3 DEF EmuRefs
    <3> QED BY <2>11, <3>1, <3>2, <3>4 DEF EmuRefs
  <2> QED BY <2>7, <2>9, <2>14, <2>15, <2>16 DEF EmuInv
<1>6. ASSUME Step(t, [Rest EXCEPT !.pc = "request", !.op = "close", !.h = em[t].h]),
             UNCHANGED <<ev, names, refs>>
      PROVE  EmuInv'
  <2>1. PICK r : r = [Rest EXCEPT !.pc = "request", !.op = "close", !.h = em[t].h]
    OBVIOUS
  <2>2. /\ r \in TaskRecord /\ r.pc = "request" /\ r.op = "close" /\ r.v = NULL /\ r.h = em[t].h
        /\ r.file = NULL
    BY <1>2, <2>1, EmuConstants DEF TaskRecord, EmuPlaces, EmuOps
  <2>3. em' = [em EXCEPT ![t] = r]
    BY <1>6, <2>1 DEF Step
  <2>4. /\ em' \in [Thread -> TaskRecord] /\ em'[t] = r
        /\ \A u \in Thread \ {t} : em'[u] = em[u]
    BY <1>1, <2>2, <2>3, TaskStep
  <2>5. EmuTypes'
    BY <1>1, <1>6, <2>4 DEF EmuTypes
  <2>6. TaskOK(t)'
    BY <2>2, <2>4 DEF TaskOK
  <2>7. EmuLock'
    BY <1>1, <2>2, <2>3, <2>6, LockIdle
  <2>8. \A u \in Thread \ {t} : Keeps(u)
    BY <1>1, <2>4, OthersSame
  <2>9. Result(t)' = "none" /\ HandleOf(t)' = em[t].h
    BY <2>2, <2>4 DEF Result, HandleOf
  <2>10. \A w \in Vnode : ~Reclaims(t, w)'
    BY <2>2, <2>4, EmuConstants DEF Reclaims
  <2>11. AnswerOK(t)' /\ CallerOK(t)'
    BY <1>1, <1>2, <2>2, <2>4, <2>9, <2>10, EmuConstants DEF AnswerOK, CallerOK
  <2> QED BY <1>1, <1>2, <1>4, <1>6, <2>5, <2>7, <2>8, <2>9, <2>10, <2>11, EmuFrame
<1>7. {w \in InTable : ev[w].h = em[t].h} = {}
  BY <1>3 DEF InTable
<1>8. CASE /\ {w \in Vnode : ev[w] = NULL} # {}
           /\ LET w == CHOOSE z \in {x \in Vnode : ev[x] = NULL} : TRUE IN
                 /\ ev' = [ev EXCEPT ![w] = [h |-> em[t].h, refcount |-> 1]]
                 /\ names' = [names EXCEPT ![w] = em[t].file]
                 /\ refs' = [refs EXCEPT ![w] = 1]
           /\ Step(t, Rest)
  <2>1. PICK w : w = CHOOSE z \in {x \in Vnode : ev[x] = NULL} : TRUE
    OBVIOUS
  <2>2. w \in Vnode /\ ev[w] = NULL
    BY <1>8, <2>1
  <2> QED BY <1>5, <1>8, <2>1, <2>2 DEF Step
<1> QED BY <1>6, <1>7, <1>8 DEF emufs_loadvnode

\* The end of emufs_reclaim: the vnode of the closed handle leaves the pool.
LEMMA ForgetInv ==
    ASSUME EmuInv, NEW t \in Thread, reclaim_forget(t)
    PROVE  EmuInv'
<1>1. /\ EmuTypes /\ EmuLock /\ EmuAnswers /\ EmuHandles /\ EmuRefs
      /\ em[t].pc = "forget" /\ e_lock' = NULL /\ em' = [em EXCEPT ![t] = Rest]
      /\ TaskOK(t) /\ CallerOK(t) /\ em[t] \in TaskRecord
      /\ UNCHANGED <<e_sem, e_result, reg, reply, opened, refs, emu_panic>>
  BY DEF EmuInv, reclaim_forget, At, Step, hw_vars, EmuLock, EmuRefs, EmuTypes
<1>2. e_lock = t /\ e_lock # NULL /\ reg = NoOp /\ reply = NULL /\ e_sem = 0 /\ ~emu_panic'
  <2>1. e_lock = t /\ e_lock # NULL /\ ~emu_panic
    BY <1>1, EmuConstants DEF EmuLock
  <2>2. LockOK(t)
    BY <1>1, <2>1 DEF EmuLock
  <2> QED BY <1>1, <2>1, <2>2 DEF LockOK
<1>3. PICK w \in Vnode : w = em[t].v /\ Reclaims(t, w)
  <2>1. em[t].op \in EmuOps
    BY <1>1 DEF TaskRecord
  <2> QED BY <1>1, <2>1 DEF TaskOK, Reclaims, EmuOps
<1>4. ev[w] # NULL /\ refs[w] = 0 /\ \A u \in Thread : Reclaims(u, w) => u = t
  BY <1>1, <1>3 DEF CallerOK, EmuRefs
<1>5. ev' = [ev EXCEPT ![w] = NULL] /\ names' = [names EXCEPT ![w] = NULL]
  BY <1>3 DEF reclaim_forget
<1>6. /\ ev' \in [Vnode -> VnodeRecord \cup {NULL}] /\ ev'[w] = NULL
      /\ \A z \in Vnode \ {w} : ev'[z] = ev[z]
  BY <1>1, <1>5 DEF EmuTypes
<1>7. /\ names' \in [Vnode -> File \cup {NULL}] /\ \A z \in Vnode \ {w} : names'[z] = names[z]
  BY <1>1, <1>5 DEF EmuTypes
<1>8. /\ em' \in [Thread -> TaskRecord] /\ em'[t] = Rest
      /\ \A u \in Thread \ {t} : em'[u] = em[u]
  BY <1>1, EmuConstants, TaskStep
<1>9. EmuTypes'
  BY <1>1, <1>6, <1>7, <1>8 DEF EmuTypes
<1>10. TaskOK(t)'
  BY <1>8, EmuConstants DEF TaskOK
<1>11. EmuLock'
  <2>1. ~(Rest.pc \in {"wait", "done", "forget"}) /\ e_lock' # t /\ Rest \in TaskRecord
    BY <1>1, EmuConstants
  <2> QED BY <1>1, <1>2, <1>10, <2>1, LockStep
<1>12. \A u \in Thread \ {t} : Keeps(u)
  BY <1>1, <1>8, OthersSame
<1>13. ~Owns(t)' /\ (\A z : ~Reclaims(t, z)') /\ AnswerOK(t)' /\ CallerOK(t)'
  <2>1. Result(t)' = "none"
    BY <1>8, EmuConstants DEF Result
  <2> QED BY <1>8, <2>1, EmuConstants DEF Owns, Reclaims, AnswerOK, CallerOK
<1>14. ASSUME NEW u \in Thread \ {t}
       PROVE  /\ CallerOK(u) /\ TaskOK(u) /\ AnswerOK(u) /\ em'[u] = em[u]
              /\ em[u].op = "io" => em[u].v # w /\ em[u].v \in Vnode
              /\ ~Reclaims(u, w)
  <2>1. CallerOK(u) /\ TaskOK(u) /\ AnswerOK(u) /\ em'[u] = em[u]
    BY <1>1, <1>8 DEF EmuRefs, EmuLock, EmuAnswers
  <2>2. em[u].op = "io" => em[u].v # w /\ em[u].v \in Vnode
    BY <1>4, <2>1 DEF CallerOK, TaskOK
  <2> QED BY <1>4, <2>1, <2>2
<1>15. EmuAnswers'
  <2>1. ASSUME NEW u \in Thread \ {t} PROVE AnswerOK(u)'
    BY <1>1, <1>7, <1>12, <1>14 DEF AnswerOK, Keeps
  <2> QED BY <1>13, <2>1 DEF EmuAnswers
<1>16. EmuHandles'
  <2>1. \A u \in Thread : Owns(u)' => Owns(u) /\ HandleOf(u)' = HandleOf(u)
    BY <1>12, <1>13 DEF Keeps
  <2>2. \A u, z \in Thread : Owns(u)' /\ Owns(z)' /\ HandleOf(u)' = HandleOf(z)' => u = z
    BY <1>1, <2>1 DEF EmuHandles
  <2>3. \A u \in Thread, z \in Vnode : Owns(u)' /\ ev'[z] # NULL => ev'[z].h # HandleOf(u)'
    BY <1>1, <1>6, <2>1 DEF EmuHandles
  <2>4. \A x, z \in Vnode : ev'[x] # NULL /\ ev'[z] # NULL /\ ev'[x].h = ev'[z].h => x = z
    BY <1>1, <1>6 DEF EmuHandles
  <2>5. ASSUME NEW z \in Vnode, ev'[z] # NULL
        PROVE  \/ opened'[ev'[z].h] = names'[z] /\ names'[z] \in File
               \/ \E u \in Thread : Reclaims(u, z)' /\ Result(u)' = "ok"
    <3>1. z # w /\ ev[z] # NULL /\ ev'[z] = ev[z] /\ names'[z] = names[z]
      BY <1>6, <1>7, <2>5
    <3>2. ASSUME NEW u \in Thread, Reclaims(u, z), Result(u) = "ok"
          PROVE  Reclaims(u, z)' /\ Result(u)' = "ok"
      <4>1. u # t
        BY <1>3, <3>1, <3>2 DEF Reclaims
      <4> QED BY <1>12, <3>2, <4>1 DEF Keeps, Reclaims
    <3>3. \/ opened[ev[z].h] = names[z] /\ names[z] \in File
          \/ \E u \in Thread : Reclaims(u, z) /\ Result(u) = "ok"
      BY <1>1, <3>1 DEF EmuHandles
    <3> QED BY <1>1, <3>1, <3>2, <3>3
  <2> QED BY <2>2, <2>3, <2>4, <2>5 DEF EmuHandles
<1>17. EmuRefs'
  <2>1. \A z \in Vnode : CountOK(z)'
    <3>1. CountOK(w)'
      BY <1>1, <1>4, <1>6 DEF CountOK
    <3>2. ASSUME NEW z \in Vnode \ {w} PROVE CountOK(z)'
      <4>1. CountOK(z)
        BY <1>1 DEF EmuRefs
      <4> QED BY <1>1, <1>6, <4>1 DEF CountOK
    <3> QED BY <3>1, <3>2
  <2>2. ASSUME NEW u \in Thread \ {t} PROVE CallerOK(u)'
    <3>1. em[u].op = "io" => refs'[em[u].v] > 0 /\ em[u].h = ev'[em[u].v].h
      BY <1>1, <1>6, <1>14 DEF CallerOK
    <3>2. \A z \in Vnode : Reclaims(u, z) => ev'[z] # NULL /\ refs'[z] = 0 /\ em[u].h = ev'[z].h
      BY <1>1, <1>6, <1>14 DEF CallerOK
    <3> QED BY <1>14, <3>1, <3>2 DEF CallerOK, Reclaims
  <2>3. \A u \in Thread, z \in Vnode : Reclaims(u, z)' => Reclaims(u, z)
    BY <1>8, <1>13 DEF Reclaims
  <2>4. \A u, y \in Thread, z \in Vnode : Reclaims(u, z)' /\ Reclaims(y, z)' => u = y
    BY <1>1, <2>3 DEF EmuRefs
  <2> QED BY <1>13, <2>1, <2>2, <2>4 DEF EmuRefs
<1> QED BY <1>9, <1>11, <1>15, <1>16, <1>17 DEF EmuInv

\* A thread that wants to close a handle and has no result yet.
AwaitsClose(u) == em[u].op = "close" /\ Result(u) = "none"

\* The device answers the request of t and changes what the handle k is open on, which
\* nobody else knows of.
LEMMA HandleChanged ==
    ASSUME EmuInv, EmuTypes', EmuLock', NEW t \in Thread, NEW k \in Handle,
           UNCHANGED <<e_lock, ev, names, refs, em>>, e_lock = t,
           \A h \in Handle \ {k} : opened'[h] = opened[h],
           \A u \in Thread \ {t} : Keeps(u),
           \A u \in Thread \ {t} : Owns(u) \/ AwaitsClose(u) => HandleOf(u) # k,
           AnswerOK(t)', Result(t) # "ok",
           Owns(t)' => /\ HandleOf(t)' = k
                       /\ \A w \in Vnode : ev[w] # NULL => ev[w].h # k,
           \A w \in Vnode : ev[w] # NULL /\ ev[w].h = k => Reclaims(t, w) /\ Result(t)' = "ok"
    PROVE  EmuInv'
<1>1. /\ EmuTypes /\ EmuLock /\ EmuAnswers /\ EmuHandles /\ EmuRefs
  BY DEF EmuInv
<1>2. ASSUME NEW u \in Thread \ {t} PROVE AnswerOK(u)'
  <2>1. AnswerOK(u) /\ TaskOK(u) /\ em[u] \in TaskRecord /\ Result(u) = "none" /\ em' = em
    BY <1>1, NotOwner DEF EmuAnswers, EmuLock, EmuTypes
  <2>2. Result(u)' = "none"
    BY <2>1 DEF Keeps
  <2>3. em[u].op = "close" => opened'[em[u].h] = opened[em[u].h]
    <3>1. em[u].op = "close" => em[u].h # k
      BY <2>1 DEF AwaitsClose, HandleOf
    <3> QED BY <2>1, <3>1 DEF TaskRecord
  <2>4. em[u].pc = "load" => opened'[em[u].h] = opened[em[u].h]
    <3>1. em[u].pc = "load" => em[u].h # k /\ em[u].h \in Handle
      BY LoadsOpen
    <3> QED BY <2>1, <3>1
  <2> QED BY <2>1, <2>2, <2>3, <2>4 DEF AnswerOK
<1>3. \A u \in Thread \ {t} : Owns(u)' => Owns(u) /\ HandleOf(u)' = HandleOf(u) /\ HandleOf(u)' # k
  BY DEF Keeps
<1>4. \A u, x \in Thread : Owns(u)' /\ Owns(x)' /\ HandleOf(u)' = HandleOf(x)' => u = x
  BY <1>1, <1>3 DEF EmuHandles
<1>5. \A u \in Thread, w \in Vnode : Owns(u)' /\ ev'[w] # NULL => ev'[w].h # HandleOf(u)'
  BY <1>1, <1>3 DEF EmuHandles
<1>6. ASSUME NEW z \in Vnode, ev'[z] # NULL
      PROVE  \/ opened'[ev'[z].h] = names'[z] /\ names'[z] \in File
             \/ \E u \in Thread : Reclaims(u, z)' /\ Result(u)' = "ok"
  <2>1. CASE ev[z].h = k
    BY <1>6, <2>1 DEF Reclaims
  <2>2. CASE ev[z].h # k
    <3>1. ev[z].h \in Handle
      BY <1>1, <1>6 DEF EmuTypes, VnodeRecord
    <3>2. opened'[ev[z].h] = opened[ev[z].h]
      BY <2>2, <3>1
    <3>3. ASSUME NEW u \in Thread, Reclaims(u, z), Result(u) = "ok" PROVE FALSE
      <4>1. u = t
        BY <1>1, <3>3, NotOwner
      <4> QED BY <3>3, <4>1
    <3> QED BY <1>1, <1>6, <3>2, <3>3 DEF EmuHandles
  <2> QED BY <2>1, <2>2
<1>7. EmuHandles'
  BY <1>1, <1>4, <1>5, <1>6 DEF EmuHandles
<1>8. EmuRefs'
  BY <1>1 DEF EmuRefs, CountOK, CallerOK, Reclaims
<1>9. EmuAnswers'
  BY <1>2 DEF EmuAnswers
<1> QED BY <1>7, <1>8, <1>9 DEF EmuInv

\* The device answers t: what the answer does not depend on.
LEMMA RepliesStep ==
    ASSUME EmuInv, NEW t \in Thread, NEW r \in ReplyRecord, r.res # "none", Replies(r),
           e_lock = t, em[t].pc = "wait", e_sem = 0, reply = NULL,
           opened' \in [Handle -> File \cup {NULL}],
           UNCHANGED <<e_lock, e_sem, e_result, ev, names, refs, em, emu_panic>>
    PROVE  /\ EmuTypes' /\ EmuLock' /\ \A u \in Thread \ {t} : Keeps(u)
           /\ Result(t) = "none" /\ Result(t)' = r.res /\ reply' = r
<1>1. reply' = r /\ reg' = NoOp /\ EmuTypes /\ EmuLock /\ r # NULL
  BY EmuConstants DEF Replies, EmuInv
<1>2. EmuTypes'
  BY <1>1, EmuConstants DEF EmuTypes
<1>3. EmuLock'
  <2>1. \A u \in Thread : TaskOK(u)'
    BY <1>1 DEF EmuLock, TaskOK
  <2>2. LockOK(t)'
    BY <1>1 DEF LockOK
  <2>3. e_lock' # NULL /\ \A u \in Thread : e_lock' = u => u = t
    BY EmuConstants
  <2> QED BY <1>1, <2>1, <2>2, <2>3 DEF EmuLock
<1>4. \A u \in Thread \ {t} : Keeps(u)
  BY <1>1, OthersKeep
<1>5. Result(t) = "none" /\ Result(t)' = r.res
  BY <1>1 DEF Result
<1> QED BY <1>1, <1>2, <1>3, <1>4, <1>5

\* The device: it opens a handle that is nobody's, closes the one it is asked to, and
\* is never asked about one that is closed.
LEMMA HardwareInv ==
    ASSUME EmuInv, emu_hardware
    PROVE  EmuInv'
<1>1. /\ EmuTypes /\ EmuLock /\ EmuAnswers /\ EmuHandles /\ EmuRefs /\ reg # NoOp
      /\ UNCHANGED <<e_lock, e_sem, e_result, ev, names, refs, em, emu_panic>>
  BY DEF EmuInv, emu_hardware
<1>2. PICK t \in Thread : e_lock = t
  BY <1>1 DEF EmuLock, EmuTypes
<1>3. /\ AnswerOK(t) /\ CallerOK(t) /\ TaskOK(t) /\ em[t] \in TaskRecord
      /\ opened \in [Handle -> File \cup {NULL}]
  BY <1>1 DEF EmuAnswers, EmuRefs, EmuLock, EmuTypes
<1>4. /\ em[t].pc = "wait" /\ e_sem = 0 /\ reply = NULL
      /\ reg = [op |-> em[t].op, h |-> em[t].h, file |-> em[t].file]
  <2>1. LockOK(t)
    BY <1>1, <1>2 DEF EmuLock
  <2> QED BY <1>1, <2>1 DEF LockOK
<1>5. /\ reg.op = em[t].op /\ reg.h = em[t].h /\ reg.file = em[t].file /\ em[t].h \in Handle
      /\ em[t].file \in File \cup {NULL} /\ em[t].op \in {"open", "io", "close"}
      /\ em[t].v \in Vnode \cup {NULL}
  BY <1>3, <1>4 DEF TaskRecord, TaskOK, EmuOps
<1>6. Result(t) = "none"
  BY <1>4 DEF Result
<1>7. ASSUME NEW r \in ReplyRecord, Replies(r), UNCHANGED opened,
             \/ r.res = "EIO"
             \/ r.res = "ENOENT" /\ em[t].op = "open"
             \/ r.res = "ok" /\ em[t].op = "io" /\ r.file = opened[em[t].h]
      PROVE  EmuInv'
  <2>1. /\ EmuTypes' /\ EmuLock' /\ \A u \in Thread \ {t} : Keeps(u)
        /\ Result(t)' = r.res /\ reply' = r
    BY <1>1, <1>2, <1>3, <1>4, <1>7, RepliesStep
  <2>2. em[t].op = "io" => names[em[t].v] = opened[em[t].h]
    <3>1. em[t].op = "io" => em[t].v \in Vnode /\ refs[em[t].v] > 0 /\ em[t].h = ev[em[t].v].h
      BY <1>3 DEF TaskOK, CallerOK
    <3> QED BY <3>1, UsedOpen
  <2>3. AnswerOK(t)'
    BY <1>1, <1>3, <1>4, <1>5, <1>6, <1>7, <2>1, <2>2 DEF AnswerOK
  <2>4. CallerOK(t)' /\ \A w \in Vnode : Reclaims(t, w)' = Reclaims(t, w)
    BY <1>1, <1>3 DEF CallerOK, Reclaims
  <2>5. Owns(t)' => Owns(t) /\ HandleOf(t)' = HandleOf(t)
    BY <1>1, <1>4, <1>6, <1>7, <2>1 DEF Owns, HandleOf
  <2> QED BY <1>1, <1>6, <1>7, <2>1, <2>3, <2>4, <2>5, EmuFrame
<1>8. \A res \in EmuResults, h \in Handle, f \in File \cup {NULL} :
         Reply(res, h, f) \in ReplyRecord /\ Reply(res, h, f).res = res
         /\ Reply(res, h, f).h = h /\ Reply(res, h, f).file = f
  BY DEF Reply, ReplyRecord
<1>9. CASE Replies(Reply("EIO", reg.h, NULL)) /\ UNCHANGED opened
  BY <1>5, <1>7, <1>8, <1>9 DEF EmuResults
<1>10. CASE reg.op = "open" /\ Replies(Reply("ENOENT", 0, NULL)) /\ UNCHANGED opened
  BY <1>5, <1>7, <1>8, <1>10, EmuConstants DEF EmuResults
<1>11. CASE /\ reg.op = "io" /\ opened[reg.h] # NULL
            /\ Replies(Reply("ok", reg.h, opened[reg.h])) /\ UNCHANGED opened
  <2>1. opened[reg.h] \in File \cup {NULL}
    BY <1>3, <1>5
  <2> QED BY <1>5, <1>7, <1>8, <1>11, <2>1 DEF EmuResults
<1>12. CASE reg.op # "open" /\ opened[reg.h] = NULL
  <2>1. CASE em[t].op = "io"
    <3>1. em[t].v \in Vnode /\ refs[em[t].v] > 0 /\ em[t].h = ev[em[t].v].h
      BY <1>3, <2>1 DEF TaskOK, CallerOK
    <3>2. opened[em[t].h] \in File
      BY <3>1, UsedOpen
    <3> QED BY <1>5, <1>12, <3>2, EmuConstants
  <2>2. CASE em[t].op = "close"
    BY <1>3, <1>5, <1>6, <1>12, <2>2 DEF AnswerOK
  <2> QED BY <1>5, <1>12, <2>1, <2>2
<1>13. ASSUME reg.op = "open", NEW h \in Handle, opened[h] = NULL,
              opened' = [opened EXCEPT ![h] = reg.file], Replies(Reply("ok", h, reg.file))
       PROVE  EmuInv'
  <2>1. PICK r \in ReplyRecord : r = Reply("ok", h, reg.file) /\ r.res = "ok" /\ r.h = h /\ r.file = reg.file
    BY <1>5, <1>8 DEF EmuResults
  <2>2. opened' \in [Handle -> File \cup {NULL}] /\ opened'[h] = em[t].file
        /\ \A g \in Handle \ {h} : opened'[g] = opened[g]
    BY <1>3, <1>5, <1>13
  <2>3. /\ EmuTypes' /\ EmuLock' /\ \A u \in Thread \ {t} : Keeps(u)
        /\ Result(t)' = "ok" /\ reply' = r
    BY <1>1, <1>2, <1>4, <1>13, <2>1, <2>2, RepliesStep
  <2>4. AnswerOK(t)'
    BY <1>1, <1>4, <1>5, <1>13, <2>1, <2>2, <2>3 DEF AnswerOK
  <2>5. ASSUME NEW u \in Thread \ {t}, Owns(u) \/ AwaitsClose(u) PROVE HandleOf(u) # h
    <3>1. CASE Owns(u)
      BY <1>13, <3>1, OwnedOpen
    <3>2. CASE AwaitsClose(u)
      <4>1. AnswerOK(u)
        BY <1>1 DEF EmuAnswers
      <4> QED BY <1>13, <3>2, <4>1 DEF AnswerOK, AwaitsClose, HandleOf
    <3> QED BY <2>5, <3>1, <3>2
  <2>6. ASSUME NEW w \in Vnode, ev[w] # NULL PROVE ev[w].h # h
    <3>1. ASSUME NEW u \in Thread, Reclaims(u, w), Result(u) = "ok" PROVE FALSE
      <4>1. u = t
        BY <1>1, <1>2, <3>1, NotOwner
      <4> QED BY <1>6, <3>1, <4>1
    <3>2. opened[ev[w].h] \in File
      BY <1>1, <2>6, <3>1 DEF EmuHandles
    <3> QED BY <1>13, <3>2, EmuConstants
  <2>7. HandleOf(t)' = h
    BY <1>1, <1>4, <1>5, <1>13, <2>1, <2>3 DEF HandleOf
  <2> QED BY <1>1, <1>2, <1>6, <2>2, <2>3, <2>4, <2>5, <2>6, <2>7, HandleChanged
<1>14. CASE /\ reg.op = "close" /\ opened[reg.h] # NULL
            /\ opened' = [opened EXCEPT ![reg.h] = NULL]
            /\ Replies(Reply("ok", reg.h, opened[reg.h]))
  <2>1. PICK r \in ReplyRecord : r = Reply("ok", reg.h, opened[reg.h]) /\ r.res = "ok"
    <3>1. opened[reg.h] \in File \cup {NULL}
      BY <1>3, <1>5
    <3> QED BY <1>5, <1>8, <3>1 DEF EmuResults
  <2>2. opened' \in [Handle -> File \cup {NULL}] /\ opened'[em[t].h] = NULL
        /\ \A g \in Handle \ {em[t].h} : opened'[g] = opened[g]
    BY <1>3, <1>5, <1>14
  <2>3. /\ EmuTypes' /\ EmuLock' /\ \A u \in Thread \ {t} : Keeps(u)
        /\ Result(t)' = "ok" /\ reply' = r
    BY <1>1, <1>2, <1>4, <1>14, <2>1, <2>2, RepliesStep
  <2>4. AnswerOK(t)' /\ ~Owns(t)'
    BY <1>1, <1>4, <1>5, <1>14, <2>2, <2>3 DEF AnswerOK, Owns
  <2>5. em[t].v = NULL => Owns(t) /\ HandleOf(t) = em[t].h
    BY <1>5, <1>6, <1>14 DEF Owns, HandleOf
  <2>6. em[t].v # NULL => /\ em[t].v \in Vnode /\ ev[em[t].v] # NULL /\ ev[em[t].v].h = em[t].h
                          /\ Reclaims(t, em[t].v)
    BY <1>3, <1>5, <1>14 DEF CallerOK, Reclaims
  <2>7. ASSUME NEW u \in Thread \ {t}, Owns(u) \/ AwaitsClose(u) PROVE HandleOf(u) # em[t].h
    <3>1. CASE Owns(u)
      BY <1>1, <2>5, <2>6, <3>1 DEF EmuHandles
    <3>2. CASE AwaitsClose(u) /\ ~Owns(u)
      <4>1. em[u].op = "close" /\ em[u].v # NULL /\ HandleOf(u) = em[u].h /\ CallerOK(u)
        BY <1>1, <3>2 DEF Owns, AwaitsClose, HandleOf, EmuRefs
      <4>2. PICK x \in Vnode : x = em[u].v /\ Reclaims(u, x)
        BY <1>1, <4>1 DEF Reclaims, EmuTypes, TaskRecord
      <4>3. ev[x] # NULL /\ em[u].h = ev[x].h
        BY <4>1, <4>2 DEF CallerOK
      <4>4. em[t].v # NULL => em[t].v # x
        BY <1>1, <2>6, <4>2 DEF EmuRefs
      <4> QED BY <1>1, <2>5, <2>6, <4>1, <4>3, <4>4 DEF EmuHandles
    <3> QED BY <2>7, <3>1, <3>2
  <2>8. \A w \in Vnode : ev[w] # NULL /\ ev[w].h = em[t].h => Reclaims(t, w)
    BY <1>1, <2>5, <2>6 DEF EmuHandles
  <2> QED BY <1>1, <1>2, <1>5, <1>6, <2>2, <2>3, <2>4, <2>7, <2>8, HandleChanged
<1> QED BY <1>9, <1>10, <1>11, <1>12, <1>13, <1>14 DEF emu_hardware

\* config_emu: the root's vnode stands for the root's handle.
LEMMA EmuInitInv == EmuInit => EmuInv
<1> SUFFICES ASSUME EmuInit PROVE EmuInv
  OBVIOUS
<1>1. PICK root : /\ ev = [v1 \in Vnode |-> IF v1 = root THEN [h |-> 0, refcount |-> 1] ELSE NULL]
                  /\ names = [v1 \in Vnode |-> IF v1 = root THEN Root ELSE NULL]
                  /\ refs = [v1 \in Vnode |-> IF v1 = root THEN 1 ELSE 0]
  BY DEF EmuInit
<1>2. /\ e_lock = NULL /\ e_sem = 0 /\ e_result = "ok" /\ reg = NoOp /\ reply = NULL /\ ~emu_panic
      /\ opened = [h \in Handle |-> IF h = 0 THEN Root ELSE NULL]
      /\ em = [t \in Thread |-> Rest]
  BY DEF EmuInit
<1>3. PICK y : y = [h |-> 0, refcount |-> 1]
  OBVIOUS
<1>4. y \in VnodeRecord /\ y.h = 0 /\ y.refcount = 1 /\ y # NULL
  <2>1. y \in VnodeRecord /\ y.h = 0 /\ y.refcount = 1
    BY <1>3, EmuConstants DEF VnodeRecord
  <2> QED BY <2>1, EmuConstants
<1>5. /\ ev \in [Vnode -> VnodeRecord \cup {NULL}]
      /\ \A w \in Vnode : IF w = root THEN ev[w] = y /\ names[w] = Root /\ refs[w] = 1
                                     ELSE ev[w] = NULL /\ names[w] = NULL /\ refs[w] = 0
  BY <1>1, <1>3, <1>4
<1>6. EmuTypes
  <2>1. names \in [Vnode -> File \cup {NULL}] /\ refs \in [Vnode -> Int]
    BY <1>1, EmuConstants
  <2>2. opened \in [Handle -> File \cup {NULL}] /\ em \in [Thread -> TaskRecord]
    BY <1>2, EmuConstants
  <2> QED BY <1>2, <1>5, <2>1, <2>2, EmuConstants DEF EmuTypes, EmuResults
<1>7. \A t \in Thread : em[t] = Rest /\ Result(t) = "none" /\ ~Owns(t) /\ \A w : ~Reclaims(t, w)
  BY <1>2, EmuConstants DEF Result, Owns, Reclaims
<1>8. EmuLock
  BY <1>2, <1>7, EmuConstants DEF EmuLock, TaskOK
<1>9. EmuAnswers
  BY <1>7, EmuConstants DEF EmuAnswers, AnswerOK
<1>10. EmuHandles
  <2>1. opened[0] = Root
    BY <1>2, EmuConstants
  <2> QED BY <1>4, <1>5, <1>7, <2>1, EmuConstants DEF EmuHandles
<1>11. EmuRefs
  <2>1. \A w \in Vnode : CountOK(w)
    BY <1>4, <1>5 DEF CountOK
  <2> QED BY <1>7, <2>1, EmuConstants DEF EmuRefs, CallerOK
<1> QED BY <1>6, <1>8, <1>9, <1>10, <1>11 DEF EmuInv

\* Every step keeps the invariant.
LEMMA EmuNextInv == EmuInv /\ [EmuNext]_emu_vars => EmuInv'
<1> SUFFICES ASSUME EmuInv, [EmuNext]_emu_vars PROVE EmuInv'
  OBVIOUS
<1>1. ASSUME NEW t \in Thread, NEW f \in File, emufs_lookup(t, f) PROVE EmuInv'
  <2>1. PICK r : r = [Rest EXCEPT !.pc = "request", !.op = "open", !.file = f]
    OBVIOUS
  <2>2. r \in TaskRecord /\ r.pc = "request" /\ r.op = "open" /\ r.file = f
    BY <2>1, EmuConstants DEF TaskRecord, EmuPlaces, EmuOps
  <2>3. Starts(t, r)
    BY <1>1, <2>1 DEF emufs_lookup
  <2> QED BY <2>2, <2>3, StartsInv
<1>2. ASSUME NEW t \in Thread, NEW w \in InTable, emu_io(t, w) PROVE EmuInv'
  <2>1. PICK r : r = [Rest EXCEPT !.pc = "request", !.op = "io", !.v = w, !.h = ev[w].h]
    OBVIOUS
  <2>2. w \in Vnode /\ ev[w].h \in Handle /\ refs[w] > 0
    BY <1>2 DEF emu_io, InTable, EmuInv, EmuTypes, VnodeRecord
  <2>3. r \in TaskRecord /\ r.pc = "request" /\ r.op = "io" /\ r.v = w /\ r.h = ev[w].h
    BY <2>1, <2>2, EmuConstants DEF TaskRecord, EmuPlaces, EmuOps
  <2>4. Starts(t, r)
    BY <1>2, <2>1 DEF emu_io
  <2> QED BY <2>2, <2>3, <2>4, StartsInv
<1>3. CASE UNCHANGED emu_vars
  <2>1. UNCHANGED <<e_lock, e_sem, e_result, reg, reply, opened, ev, names, refs, em, emu_panic>>
    BY <1>3 DEF emu_vars, hw_vars
  <2>2. /\ ev' \in [Vnode -> VnodeRecord \cup {NULL}] /\ refs' \in [Vnode -> Int]
        /\ \A w \in Vnode : CountOK(w)'
    BY <2>1 DEF EmuInv, EmuTypes, EmuRefs, CountOK
  <2> QED BY <2>1, <2>2, CountsStep
<1>4. CASE EmuNext
  BY <1>1, <1>2, <1>4, EmuIncrefInv, EmuDecrefInv, RequestInv, WaitdoneInv, DoneInv, LoadInv,
     ReclaimInv, ForgetInv, HardwareInv, IrqInv DEF EmuNext
<1> QED BY <1>3, <1>4

\* What the invariant is for.
LEMMA EmuInvOK == EmuInv => HandlesOK
<1> SUFFICES ASSUME EmuInv PROVE HandlesOK
  OBVIOUS
<1>1. EmuTypes /\ EmuLock /\ EmuAnswers /\ EmuHandles /\ EmuRefs
  BY DEF EmuInv
<1>2. ~emu_panic
  BY <1>1 DEF EmuLock
<1>3. ASSUME NEW w \in Vnode, refs[w] > 0
      PROVE  w \in InTable /\ opened[ev[w].h] = names[w] /\ ev[w].refcount >= refs[w]
  <2>1. ev[w] # NULL /\ opened[ev[w].h] = names[w]
    BY <1>3, UsedOpen
  <2>2. ev[w].refcount = refs[w] /\ refs[w] \in Int
    BY <1>1, <1>3, <2>1 DEF EmuRefs, CountOK, EmuTypes
  <2> QED BY <2>1, <2>2 DEF InTable
<1>4. \A w, x \in InTable : w # x => ev[w].h # ev[x].h
  BY <1>1 DEF EmuHandles, InTable
<1>5. ASSUME NEW t \in Thread
      PROVE  /\ em[t].pc \in {"wait", "done", "forget"} => e_lock = t
             /\ em[t].pc = "done" /\ em[t].op = "io" /\ em[t].res = "ok"
                   => reply.file = names[em[t].v]
             /\ em[t].pc = "load" => opened[em[t].h] = em[t].file
  <2>1. AnswerOK(t) /\ (em[t].pc \in {"wait", "done", "forget"} <=> e_lock = t)
    BY <1>1 DEF EmuAnswers, EmuLock
  <2>2. em[t].pc = "done" => Result(t) = em[t].res
    BY DEF Result
  <2> QED BY <2>1, <2>2 DEF AnswerOK
<1>6. e_sem + (IF reg # NoOp THEN 1 ELSE 0) + (IF reply # NULL /\ reply.res # "none" THEN 1 ELSE 0)
           = Cardinality({t \in Thread : em[t].pc = "wait"})
  <2>1. CASE e_lock = NULL
    <3>1. \A t \in Thread : em[t].pc # "wait"
      BY <1>1, <2>1, EmuConstants DEF EmuLock
    <3>2. {t \in Thread : em[t].pc = "wait"} = {}
      BY <3>1
    <3>3. Cardinality({t \in Thread : em[t].pc = "wait"}) = 0
      BY <3>2, FS_EmptySet
    <3> QED BY <1>1, <2>1, <3>3 DEF EmuLock
  <2>2. ASSUME NEW t \in Thread, e_lock = t
        PROVE  e_sem + (IF reg # NoOp THEN 1 ELSE 0) + (IF reply # NULL /\ reply.res # "none" THEN 1 ELSE 0)
                 = Cardinality({u \in Thread : em[u].pc = "wait"})
    <3>1. LockOK(t) /\ \A u \in Thread : em[u].pc = "wait" => u = t
      BY <1>1, <2>2 DEF EmuLock
    <3>2. CASE em[t].pc = "wait"
      <4>1. {u \in Thread : em[u].pc = "wait"} = {t}
        BY <3>1, <3>2
      <4>2. Cardinality({u \in Thread : em[u].pc = "wait"}) = 1
        BY <4>1, FS_Singleton
      <4>3. em[t].op # "none"
        BY <1>1, <3>2 DEF EmuLock, TaskOK
      <4>4. reg = [op |-> em[t].op, h |-> em[t].h, file |-> em[t].file] => reg # NoOp
        BY <4>3 DEF NoOp
      <4> QED BY <3>1, <3>2, <4>2, <4>4 DEF LockOK
    <3>3. CASE em[t].pc # "wait"
      <4>1. {u \in Thread : em[u].pc = "wait"} = {}
        BY <3>1, <3>3
      <4>2. Cardinality({u \in Thread : em[u].pc = "wait"}) = 0
        BY <4>1, FS_EmptySet
      <4> QED BY <3>1, <3>3, <4>2 DEF LockOK
    <3> QED BY <3>2, <3>3
  <2> QED BY <1>1, <2>1, <2>2 DEF EmuTypes
<1> QED BY <1>2, <1>3, <1>4, <1>5, <1>6 DEF HandlesOK

\* The lock's owner has one request with the device, its result is what the device did,
\* every open handle has one owner, a vnode or a thread between emu_open and
\* emufs_loadvnode, and a vnode that is reclaimed is nobody's: this holds whatever the
\* threads, the device and its interrupts do.
THEOREM EmuInvariant == EmuBehaviour => []EmuInv
<1>1. EmuInit => EmuInv
  BY EmuInitInv
<1>2. EmuInv /\ [EmuNext]_emu_vars => EmuInv'
  BY EmuNextInv
<1> QED BY <1>1, <1>2, PTL DEF EmuBehaviour

\* emu.c never asks the device about a closed handle, so translate_err does not panic; a
\* vnode in use stands for the open handle of the file it was looked up for; and an
\* answer reaches the operation it is about.  For every number of threads, files,
\* handles and vnodes.
THEOREM HandlesStandForFiles == EmuBehaviour => []HandlesOK
<1>1. EmuInv => HandlesOK
  BY EmuInvOK
<1> QED BY <1>1, EmuInvariant, PTL

----------------------------------------------------------------------------
(* Mounted volumes *)

MountRecord == [pc : {"idle", "next", "mount", "mapread", "unmount", "getroot", "sync", "fsync",
                      "mapwrite", "clean", "failed", "synced"},
                op : {"none", "mount", "unmount", "getroot", "sync", "unmountall"},
                d : 0..NDev, j : Nat, num : Nat, again : BOOLEAN]

MountTypes ==
    /\ knowndevs_lock \in Thread \cup {NULL}
    /\ kd_fs \in [Dev -> BOOLEAN] /\ dirty \in [Dev -> BOOLEAN]
    /\ unsaved \in [Dev -> SUBSET (1..MapBlocks)] /\ vnodes \in [Dev -> Nat]
    /\ miswritten \in [Dev -> SUBSET (1..MapBlocks)]
    /\ mt \in [Thread -> MountRecord]
    /\ lost \subseteq Dev /\ raced \subseteq Dev

\* Who is in an operation on the table holds its lock.
Locked == \A t \in Thread : mt[t].pc # "idle" => knowndevs_lock = t

\* What is being synced is mounted, and the map is written from its first block.
Places ==
    \A t \in Thread :
        /\ mt[t].pc \notin {"idle", "next"} => mt[t].d \in Dev
        /\ mt[t].pc \in {"sync", "fsync", "mapwrite", "clean", "failed", "synced"} =>
              kd_fs[mt[t].d]
        /\ mt[t].pc = "mapwrite" => mt[t].j \in 1..MapBlocks

\* The blocks that differ from disk although no write of theirs was lost.
Missing(d) == unsaved[d] \ miswritten[d]

\* What sync has written of a map that nobody changes meanwhile is on disk or lost.
Written ==
    \A t \in Thread : mt[t].d \in Dev \ raced =>
        /\ mt[t].pc = "mapwrite" => Missing(mt[t].d) \subseteq mt[t].j..MapBlocks
        /\ mt[t].pc = "clean" => Missing(mt[t].d) = {}

MountsInv == MountTypes /\ Locked /\ Places /\ VnodesMounted /\ CleanIsSaved /\ Written

\* The device that vfs_sync and vfs_unmountall go on with is a mounted one.
LEMMA NextDevice ==
    ASSUME NEW t \in Thread, NEW rest, rest = {d \in Dev : d > mt[t].d /\ kd_fs[d]}, rest # {}
    PROVE  (CHOOSE d \in rest : \A e \in rest : d <= e) \in rest
<1>1. rest \in SUBSET Nat
  BY MountSizes DEF Dev
<1>2. \E m \in rest : \A k \in rest : m <= k
  BY <1>1, LeastNatural
<1> QED BY <1>2


Syncing == {"sync", "fsync", "mapwrite", "clean", "failed", "synced"}

\* How a step of t moves it from its place in an operation to another.
Moves(t, r) ==
    /\ r \in MountRecord /\ mt' = [mt EXCEPT ![t] = r]
    /\ IF mt[t].pc = "idle" THEN knowndevs_lock = NULL /\ knowndevs_lock' = t
       ELSE knowndevs_lock' = IF r.pc = "idle" THEN NULL ELSE knowndevs_lock
    /\ r.pc \notin {"idle", "next"} => r.d \in Dev
    /\ r.pc \in Syncing => kd_fs[r.d]
    /\ r.pc = "mapwrite" => r.j \in 1..MapBlocks
    /\ r.pc = "mapwrite" => \/ mt[t].pc = "fsync" /\ r.j = 1
                            \/ mt[t].pc = "mapwrite" /\ r.d = mt[t].d /\ r.j = mt[t].j + 1
    /\ r.pc = "clean" => mt[t].pc = "mapwrite" /\ r.d = mt[t].d /\ mt[t].j = MapBlocks

\* A step of an operation on the table.
ThreadStep(t) ==
    \/ \E d \in Dev, op \in {"mount", "unmount", "getroot"} : table_call(t, op, d)
    \/ \E op \in {"sync", "unmountall"} : table_call(t, op, 0)
    \/ vfs_next(t) \/ vfs_mount(t) \/ sfs_domount(t) \/ vfs_unmount(t) \/ vfs_getroot(t)
    \/ sync_begin(t) \/ sync_vnodes(t) \/ sync_map(t) \/ sync_clean(t) \/ sync_failed(t)
    \/ sfs_unmount(t)

\* Every step of an operation moves its thread as Moves says.
LEMMA MovesStep ==
    ASSUME MountTypes, Places, NEW t \in Thread, ThreadStep(t)
    PROVE  \E r : Moves(t, r)
<1>0. /\ mt[t] \in MountRecord /\ mt[t].j \in Nat /\ mt[t].j + 1 \in Nat
      /\ Out \in MountRecord /\ Out.pc = "idle" /\ NDev \in Nat /\ 0 \in 0..NDev
      /\ MapBlocks \in Nat /\ 1 \in 1..MapBlocks /\ \A d \in Dev : d \in 0..NDev
  BY MountSizes DEF MountTypes, MountRecord, Out, Dev
<1>1. ASSUME NEW d \in Dev, NEW op \in {"mount", "unmount", "getroot"}, table_call(t, op, d)
      PROVE  \E r : Moves(t, r)
  <2>1. /\ mt[t].pc = "idle" /\ knowndevs_lock = NULL /\ knowndevs_lock' = t
        /\ mt' = [mt EXCEPT ![t] = [Out EXCEPT !.pc = op, !.op = op, !.d = d]]
    BY <1>1 DEF table_call, Where, Enter
  <2>2. PICK r : r = [Out EXCEPT !.pc = op, !.op = op, !.d = d]
    OBVIOUS
  <2>3. r \in MountRecord /\ r.pc = op /\ r.d = d
    BY <1>0, <2>2 DEF Out, MountRecord
  <2> QED BY <2>1, <2>2, <2>3 DEF Moves, Syncing
<1>2. ASSUME NEW op \in {"sync", "unmountall"}, table_call(t, op, 0)
      PROVE  \E r : Moves(t, r)
  <2>1. /\ mt[t].pc = "idle" /\ knowndevs_lock = NULL /\ knowndevs_lock' = t
        /\ mt' = [mt EXCEPT ![t] = [Out EXCEPT !.pc = "next", !.op = op, !.d = 0]]
    BY <1>2 DEF table_call, Where, Enter
  <2>2. PICK r : r = [Out EXCEPT !.pc = "next", !.op = op, !.d = 0]
    OBVIOUS
  <2>3. r \in MountRecord /\ r.pc = "next" /\ r.d = 0
    BY <1>0, <2>2 DEF Out, MountRecord
  <2> QED BY <2>1, <2>2, <2>3 DEF Moves, Syncing
<1>3. ASSUME vfs_next(t)
      PROVE  \E r : Moves(t, r)
  <2> DEFINE rest == {d \in Dev : d > mt[t].d /\ kd_fs[d]}
             dev == CHOOSE d \in rest : \A e \in rest : d <= e
  <2>1. CASE rest = {}
    <3>1. mt[t].pc = "next" /\ mt' = [mt EXCEPT ![t] = Out] /\ knowndevs_lock' = NULL
      BY <1>3, <2>1 DEF vfs_next, Where, Unlock, Enter
    <3> QED BY <1>0, <3>1 DEF Moves, Syncing
  <2>2. CASE rest # {}
    <3>1. dev \in rest
      BY <2>2, NextDevice
    <3>2. PICK r : r = [mt[t] EXCEPT !.pc = "sync", !.again = FALSE, !.d = dev]
      OBVIOUS
    <3>3. /\ dev \in Dev /\ kd_fs[dev] /\ mt[t].pc = "next"
          /\ mt' = [mt EXCEPT ![t] = r] /\ knowndevs_lock' = knowndevs_lock
      BY <1>3, <2>2, <3>1, <3>2 DEF vfs_next, Where, Enter
    <3> HIDE DEF dev
    <3>4. r \in MountRecord /\ r.pc = "sync" /\ r.d = dev
      BY <1>0, <3>2, <3>3 DEF MountRecord
    <3> QED BY <3>3, <3>4 DEF Moves, Syncing
  <2> QED BY <2>1, <2>2
<1>4. ASSUME vfs_mount(t)
      PROVE  \E r : Moves(t, r)
  <2>1. /\ mt[t].pc = "mount"
        /\ \/ /\ mt' = [mt EXCEPT ![t] = Out]
              /\ knowndevs_lock' = NULL
           \/ /\ mt' = [mt EXCEPT ![t] = [mt[t] EXCEPT !.pc = "mapread", !.j = 1]]
              /\ knowndevs_lock' = knowndevs_lock
    BY <1>4, MountSizes DEF vfs_mount, Where, Enter, Unlock, MountTypes
  <2>2. CASE /\ mt' = [mt EXCEPT ![t] = Out]
            /\ knowndevs_lock' = NULL
    BY <2>1, <2>2, <1>0 DEF Moves, Syncing
  <2>3. CASE /\ mt' = [mt EXCEPT ![t] = [mt[t] EXCEPT !.pc = "mapread", !.j = 1]]
            /\ knowndevs_lock' = knowndevs_lock
    <3>1. PICK r : r = [mt[t] EXCEPT !.pc = "mapread", !.j = 1]
      OBVIOUS
    <3>2. r \in MountRecord /\ r.pc = "mapread" /\ r.d = mt[t].d /\ r.j = 1
      BY <3>1, <1>0, <2>1 DEF MountRecord, Places, MountTypes
    <3>3. mt' = [mt EXCEPT ![t] = r]
      BY <2>3, <3>1
    <3> QED BY <1>0, <2>1, <2>3, <3>2, <3>3 DEF Moves, Places, Syncing
  <2> QED BY <2>1, <2>2, <2>3
<1>5. ASSUME sfs_domount(t)
      PROVE  \E r : Moves(t, r)
  <2>1. /\ mt[t].pc = "mapread"
        /\ \/ /\ mt' = [mt EXCEPT ![t] = Out]
              /\ knowndevs_lock' = NULL
           \/ /\ mt' = [mt EXCEPT ![t] = [mt[t] EXCEPT !.j = mt[t].j + 1]]
              /\ knowndevs_lock' = knowndevs_lock
    BY <1>5, MountSizes DEF sfs_domount, Where, Enter, Unlock, MountTypes
  <2>2. CASE /\ mt' = [mt EXCEPT ![t] = Out]
            /\ knowndevs_lock' = NULL
    BY <2>1, <2>2, <1>0 DEF Moves, Syncing
  <2>3. CASE /\ mt' = [mt EXCEPT ![t] = [mt[t] EXCEPT !.j = mt[t].j + 1]]
            /\ knowndevs_lock' = knowndevs_lock
    <3>1. PICK r : r = [mt[t] EXCEPT !.j = mt[t].j + 1]
      OBVIOUS
    <3>2. r \in MountRecord /\ r.pc = "mapread" /\ r.d = mt[t].d /\ r.j = mt[t].j + 1
      BY <3>1, <1>0, <2>1 DEF MountRecord, Places, MountTypes
    <3>3. mt' = [mt EXCEPT ![t] = r]
      BY <2>3, <3>1
    <3> QED BY <1>0, <2>1, <2>3, <3>2, <3>3 DEF Moves, Places, Syncing
  <2> QED BY <2>1, <2>2, <2>3
<1>6. ASSUME vfs_unmount(t)
      PROVE  \E r : Moves(t, r)
  <2>1. /\ mt[t].pc = "unmount"
        /\ \/ /\ mt' = [mt EXCEPT ![t] = Out]
              /\ knowndevs_lock' = NULL
           \/ /\ mt' = [mt EXCEPT ![t] = [mt[t] EXCEPT !.pc = "sync"]]
              /\ knowndevs_lock' = knowndevs_lock /\ kd_fs[mt[t].d]
    BY <1>6, MountSizes DEF vfs_unmount, Where, Enter, Unlock, MountTypes
  <2>2. CASE /\ mt' = [mt EXCEPT ![t] = Out]
            /\ knowndevs_lock' = NULL
    BY <2>1, <2>2, <1>0 DEF Moves, Syncing
  <2>3. CASE /\ mt' = [mt EXCEPT ![t] = [mt[t] EXCEPT !.pc = "sync"]]
            /\ knowndevs_lock' = knowndevs_lock /\ kd_fs[mt[t].d]
    <3>1. PICK r : r = [mt[t] EXCEPT !.pc = "sync"]
      OBVIOUS
    <3>2. r \in MountRecord /\ r.pc = "sync" /\ r.d = mt[t].d /\ r.j = mt[t].j
      BY <3>1, <1>0, <2>1 DEF MountRecord, Places, MountTypes
    <3>3. mt' = [mt EXCEPT ![t] = r]
      BY <2>3, <3>1
    <3> QED BY <1>0, <2>1, <2>3, <3>2, <3>3 DEF Moves, Places, Syncing
  <2> QED BY <2>1, <2>2, <2>3
<1>7. ASSUME vfs_getroot(t)
      PROVE  \E r : Moves(t, r)
  <2>1. /\ mt[t].pc = "getroot"
        /\ \/ /\ mt' = [mt EXCEPT ![t] = Out]
              /\ knowndevs_lock' = NULL
           \/ /\ mt' = [mt EXCEPT ![t] = mt[t]]
              /\ knowndevs_lock' = knowndevs_lock
    BY <1>7, MountSizes DEF vfs_getroot, Where, Enter, Unlock, MountTypes
  <2>2. CASE /\ mt' = [mt EXCEPT ![t] = Out]
            /\ knowndevs_lock' = NULL
    BY <2>1, <2>2, <1>0 DEF Moves, Syncing
  <2>3. CASE /\ mt' = [mt EXCEPT ![t] = mt[t]]
            /\ knowndevs_lock' = knowndevs_lock
    BY <2>1, <2>3, <1>0 DEF Moves, Places, Syncing
  <2> QED BY <2>1, <2>2, <2>3
<1>8. ASSUME sync_begin(t)
      PROVE  \E r : Moves(t, r)
  <2>1. /\ mt[t].pc = "sync"
        /\ \/ /\ mt' = [mt EXCEPT ![t] = [mt[t] EXCEPT !.pc = "fsync", !.j = 0, !.num = vnodes[mt[t].d]]]
              /\ knowndevs_lock' = knowndevs_lock
    BY <1>8, MountSizes DEF sync_begin, Where, Enter, MountTypes
  <2>2. CASE /\ mt' = [mt EXCEPT ![t] = [mt[t] EXCEPT !.pc = "fsync", !.j = 0, !.num = vnodes[mt[t].d]]]
            /\ knowndevs_lock' = knowndevs_lock
    <3>1. PICK r : r = [mt[t] EXCEPT !.pc = "fsync", !.j = 0, !.num = vnodes[mt[t].d]]
      OBVIOUS
    <3>2. r \in MountRecord /\ r.pc = "fsync" /\ r.d = mt[t].d /\ r.j = 0
      BY <3>1, <1>0, <2>1 DEF MountRecord, Places, MountTypes
    <3>3. mt' = [mt EXCEPT ![t] = r]
      BY <2>2, <3>1
    <3> QED BY <1>0, <2>1, <2>2, <3>2, <3>3 DEF Moves, Places, Syncing
  <2> QED BY <2>1, <2>2
<1>9. ASSUME sync_vnodes(t)
      PROVE  \E r : Moves(t, r)
  <2>1. /\ mt[t].pc = "fsync"
        /\ \/ /\ mt' = [mt EXCEPT ![t] = [mt[t] EXCEPT !.j = mt[t].j + 1]]
              /\ knowndevs_lock' = knowndevs_lock
           \/ /\ mt' = [mt EXCEPT ![t] = mt[t]]
              /\ knowndevs_lock' = knowndevs_lock
           \/ /\ mt' = [mt EXCEPT ![t] = [mt[t] EXCEPT !.pc = "mapwrite", !.j = 1]]
              /\ knowndevs_lock' = knowndevs_lock
           \/ /\ mt' = [mt EXCEPT ![t] = [mt[t] EXCEPT !.pc = "synced", !.j = 1]]
              /\ knowndevs_lock' = knowndevs_lock
    BY <1>9, MountSizes DEF sync_vnodes, Where, Enter, MountTypes
  <2>2. CASE /\ mt' = [mt EXCEPT ![t] = [mt[t] EXCEPT !.j = mt[t].j + 1]]
            /\ knowndevs_lock' = knowndevs_lock
    <3>1. PICK r : r = [mt[t] EXCEPT !.j = mt[t].j + 1]
      OBVIOUS
    <3>2. r \in MountRecord /\ r.pc = "fsync" /\ r.d = mt[t].d /\ r.j = mt[t].j + 1
      BY <3>1, <1>0, <2>1 DEF MountRecord, Places, MountTypes
    <3>3. mt' = [mt EXCEPT ![t] = r]
      BY <2>2, <3>1
    <3> QED BY <1>0, <2>1, <2>2, <3>2, <3>3 DEF Moves, Places, Syncing
  <2>3. CASE /\ mt' = [mt EXCEPT ![t] = mt[t]]
            /\ knowndevs_lock' = knowndevs_lock
    BY <2>1, <2>3, <1>0 DEF Moves, Places, Syncing
  <2>4. CASE /\ mt' = [mt EXCEPT ![t] = [mt[t] EXCEPT !.pc = "mapwrite", !.j = 1]]
            /\ knowndevs_lock' = knowndevs_lock
    <3>1. PICK r : r = [mt[t] EXCEPT !.pc = "mapwrite", !.j = 1]
      OBVIOUS
    <3>2. r \in MountRecord /\ r.pc = "mapwrite" /\ r.d = mt[t].d /\ r.j = 1
      BY <3>1, <1>0, <2>1 DEF MountRecord, Places, MountTypes
    <3>3. mt' = [mt EXCEPT ![t] = r]
      BY <2>4, <3>1
    <3> QED BY <1>0, <2>1, <2>4, <3>2, <3>3 DEF Moves, Places, Syncing
  <2>5. CASE /\ mt' = [mt EXCEPT ![t] = [mt[t] EXCEPT !.pc = "synced", !.j = 1]]
            /\ knowndevs_lock' = knowndevs_lock
    <3>1. PICK r : r = [mt[t] EXCEPT !.pc = "synced", !.j = 1]
      OBVIOUS
    <3>2. r \in MountRecord /\ r.pc = "synced" /\ r.d = mt[t].d /\ r.j = 1
      BY <3>1, <1>0, <2>1 DEF MountRecord, Places, MountTypes
    <3>3. mt' = [mt EXCEPT ![t] = r]
      BY <2>5, <3>1
    <3> QED BY <1>0, <2>1, <2>5, <3>2, <3>3 DEF Moves, Places, Syncing
  <2> QED BY <2>1, <2>2, <2>3, <2>4, <2>5
<1>10. ASSUME sync_map(t)
      PROVE  \E r : Moves(t, r)
  <2>1. /\ mt[t].pc = "mapwrite"
        /\ \/ /\ mt' = [mt EXCEPT ![t] = [mt[t] EXCEPT !.j = mt[t].j + 1, !.pc = "clean"]]
              /\ knowndevs_lock' = knowndevs_lock /\ mt[t].j = MapBlocks
           \/ /\ mt' = [mt EXCEPT ![t] = [mt[t] EXCEPT !.j = mt[t].j + 1, !.pc = "mapwrite"]]
              /\ knowndevs_lock' = knowndevs_lock /\ mt[t].j # MapBlocks
           \/ /\ mt' = [mt EXCEPT ![t] = [mt[t] EXCEPT !.pc = "failed"]]
              /\ knowndevs_lock' = knowndevs_lock
    BY <1>10, MountSizes DEF sync_map, Where, Enter, MountTypes
  <2>2. CASE /\ mt' = [mt EXCEPT ![t] = [mt[t] EXCEPT !.j = mt[t].j + 1, !.pc = "clean"]]
            /\ knowndevs_lock' = knowndevs_lock /\ mt[t].j = MapBlocks
    <3>1. PICK r : r = [mt[t] EXCEPT !.j = mt[t].j + 1, !.pc = "clean"]
      OBVIOUS
    <3>2. r \in MountRecord /\ r.pc = "clean" /\ r.d = mt[t].d /\ r.j = mt[t].j + 1
      BY <3>1, <1>0, <2>1 DEF MountRecord, Places, MountTypes
    <3>3. mt' = [mt EXCEPT ![t] = r]
      BY <2>2, <3>1
    <3> QED BY <1>0, <2>1, <2>2, <3>2, <3>3 DEF Moves, Places, Syncing
  <2>3. CASE /\ mt' = [mt EXCEPT ![t] = [mt[t] EXCEPT !.j = mt[t].j + 1, !.pc = "mapwrite"]]
            /\ knowndevs_lock' = knowndevs_lock /\ mt[t].j # MapBlocks
    <3>1. PICK r : r = [mt[t] EXCEPT !.j = mt[t].j + 1, !.pc = "mapwrite"]
      OBVIOUS
    <3>2. r \in MountRecord /\ r.pc = "mapwrite" /\ r.d = mt[t].d /\ r.j = mt[t].j + 1
      BY <3>1, <1>0, <2>1 DEF MountRecord, Places, MountTypes
    <3>3. mt' = [mt EXCEPT ![t] = r]
      BY <2>3, <3>1
    <3>4. mt[t].j + 1 \in 1..MapBlocks
      BY <1>0, <2>1, <2>3 DEF Places
    <3> QED BY <1>0, <2>1, <2>3, <3>2, <3>3, <3>4 DEF Moves, Places, Syncing
  <2>4. CASE /\ mt' = [mt EXCEPT ![t] = [mt[t] EXCEPT !.pc = "failed"]]
            /\ knowndevs_lock' = knowndevs_lock
    <3>1. PICK r : r = [mt[t] EXCEPT !.pc = "failed"]
      OBVIOUS
    <3>2. r \in MountRecord /\ r.pc = "failed" /\ r.d = mt[t].d /\ r.j = mt[t].j
      BY <3>1, <1>0, <2>1 DEF MountRecord, Places, MountTypes
    <3>3. mt' = [mt EXCEPT ![t] = r]
      BY <2>4, <3>1
    <3> QED BY <1>0, <2>1, <2>4, <3>2, <3>3 DEF Moves, Places, Syncing
  <2> QED BY <2>1, <2>2, <2>3, <2>4
<1>11. ASSUME sync_clean(t)
      PROVE  \E r : Moves(t, r)
  <2>1. /\ mt[t].pc = "clean"
        /\ \/ /\ mt' = [mt EXCEPT ![t] = [mt[t] EXCEPT !.pc = "synced"]]
              /\ knowndevs_lock' = knowndevs_lock
    BY <1>11, MountSizes DEF sync_clean, Where, Enter, MountTypes
  <2>2. CASE /\ mt' = [mt EXCEPT ![t] = [mt[t] EXCEPT !.pc = "synced"]]
            /\ knowndevs_lock' = knowndevs_lock
    <3>1. PICK r : r = [mt[t] EXCEPT !.pc = "synced"]
      OBVIOUS
    <3>2. r \in MountRecord /\ r.pc = "synced" /\ r.d = mt[t].d /\ r.j = mt[t].j
      BY <3>1, <1>0, <2>1 DEF MountRecord, Places, MountTypes
    <3>3. mt' = [mt EXCEPT ![t] = r]
      BY <2>2, <3>1
    <3> QED BY <1>0, <2>1, <2>2, <3>2, <3>3 DEF Moves, Places, Syncing
  <2> QED BY <2>1, <2>2
<1>12. ASSUME sync_failed(t)
      PROVE  \E r : Moves(t, r)
  <2>1. /\ mt[t].pc = "failed"
        /\ \/ /\ mt' = [mt EXCEPT ![t] = Out]
              /\ knowndevs_lock' = NULL
           \/ /\ mt' = [mt EXCEPT ![t] = [mt[t] EXCEPT !.pc = "next"]]
              /\ knowndevs_lock' = knowndevs_lock
           \/ /\ mt' = [mt EXCEPT ![t] = [mt[t] EXCEPT !.pc = "sync", !.again = TRUE]]
              /\ knowndevs_lock' = knowndevs_lock
    BY <1>12, MountSizes DEF sync_failed, Where, Enter, Unlock, MountTypes
  <2>2. CASE /\ mt' = [mt EXCEPT ![t] = Out]
            /\ knowndevs_lock' = NULL
    BY <2>1, <2>2, <1>0 DEF Moves, Syncing
  <2>3. CASE /\ mt' = [mt EXCEPT ![t] = [mt[t] EXCEPT !.pc = "next"]]
            /\ knowndevs_lock' = knowndevs_lock
    <3>1. PICK r : r = [mt[t] EXCEPT !.pc = "next"]
      OBVIOUS
    <3>2. r \in MountRecord /\ r.pc = "next" /\ r.d = mt[t].d /\ r.j = mt[t].j
      BY <3>1, <1>0, <2>1 DEF MountRecord, Places, MountTypes
    <3>3. mt' = [mt EXCEPT ![t] = r]
      BY <2>3, <3>1
    <3> QED BY <1>0, <2>1, <2>3, <3>2, <3>3 DEF Moves, Places, Syncing
  <2>4. CASE /\ mt' = [mt EXCEPT ![t] = [mt[t] EXCEPT !.pc = "sync", !.again = TRUE]]
            /\ knowndevs_lock' = knowndevs_lock
    <3>1. PICK r : r = [mt[t] EXCEPT !.pc = "sync", !.again = TRUE]
      OBVIOUS
    <3>2. r \in MountRecord /\ r.pc = "sync" /\ r.d = mt[t].d /\ r.j = mt[t].j
      BY <3>1, <1>0, <2>1 DEF MountRecord, Places, MountTypes
    <3>3. mt' = [mt EXCEPT ![t] = r]
      BY <2>4, <3>1
    <3> QED BY <1>0, <2>1, <2>4, <3>2, <3>3 DEF Moves, Places, Syncing
  <2> QED BY <2>1, <2>2, <2>3, <2>4
<1>13. ASSUME sfs_unmount(t)
      PROVE  \E r : Moves(t, r)
  <2>1. /\ mt[t].pc = "synced"
        /\ \/ /\ mt' = [mt EXCEPT ![t] = Out]
              /\ knowndevs_lock' = NULL
           \/ /\ mt' = [mt EXCEPT ![t] = [mt[t] EXCEPT !.pc = "next"]]
              /\ knowndevs_lock' = knowndevs_lock
           \/ /\ mt' = [mt EXCEPT ![t] = mt[t]]
              /\ knowndevs_lock' = knowndevs_lock
    BY <1>13, MountSizes DEF sfs_unmount, Where, Enter, Onward, Unlock, MountTypes
  <2>2. CASE /\ mt' = [mt EXCEPT ![t] = Out]
            /\ knowndevs_lock' = NULL
    BY <2>1, <2>2, <1>0 DEF Moves, Syncing
  <2>3. CASE /\ mt' = [mt EXCEPT ![t] = [mt[t] EXCEPT !.pc = "next"]]
            /\ knowndevs_lock' = knowndevs_lock
    <3>1. PICK r : r = [mt[t] EXCEPT !.pc = "next"]
      OBVIOUS
    <3>2. r \in MountRecord /\ r.pc = "next" /\ r.d = mt[t].d /\ r.j = mt[t].j
      BY <3>1, <1>0, <2>1 DEF MountRecord, Places, MountTypes
    <3>3. mt' = [mt EXCEPT ![t] = r]
      BY <2>3, <3>1
    <3> QED BY <1>0, <2>1, <2>3, <3>2, <3>3 DEF Moves, Places, Syncing
  <2>4. CASE /\ mt' = [mt EXCEPT ![t] = mt[t]]
            /\ knowndevs_lock' = knowndevs_lock
    BY <2>1, <2>4, <1>0 DEF Moves, Places, Syncing
  <2> QED BY <2>1, <2>2, <2>3, <2>4
<1> QED
  BY <1>1, <1>2, <1>3, <1>4, <1>5, <1>6, <1>7, <1>8, <1>9, <1>10, <1>11, <1>12,
     <1>13
  DEF ThreadStep

\* What such a step does to the volumes.
Volumes(t) ==
    LET d == mt[t].d IN
    /\ lost' \subseteq lost \cup {d} /\ raced' = raced
    /\ \/ /\ UNCHANGED <<kd_fs, unsaved, miswritten, dirty, vnodes, lost>>
          /\ mt[t].pc = "mapwrite" => mt'[t].pc = "failed"
       \/ /\ mt[t].pc = "mapread" /\ mt'[t].pc = "idle" /\ kd_fs' = [kd_fs EXCEPT ![d] = TRUE]
          /\ unsaved' = [unsaved EXCEPT ![d] = {}] /\ dirty' = [dirty EXCEPT ![d] = FALSE]
          /\ miswritten' = [miswritten EXCEPT ![d] = {}]
          /\ UNCHANGED <<vnodes, lost>>
       \/ /\ mt[t].pc = "getroot" /\ kd_fs[d] /\ vnodes' = [vnodes EXCEPT ![d] = @ + 1]
          /\ UNCHANGED <<kd_fs, unsaved, miswritten, dirty, lost>>
       \/ /\ mt[t].pc = "mapwrite"
          /\ \/ /\ unsaved' = [unsaved EXCEPT ![d] = @ \ {mt[t].j}]
                /\ miswritten' = [miswritten EXCEPT ![d] = @ \ {mt[t].j}]
             \/ /\ miswritten' = [miswritten EXCEPT ![d] = @ \cup {mt[t].j}]
                /\ UNCHANGED unsaved
          /\ UNCHANGED <<kd_fs, dirty, vnodes, lost>>
       \/ /\ mt[t].pc = "clean" /\ dirty' = [dirty EXCEPT ![d] = FALSE]
          /\ UNCHANGED <<kd_fs, unsaved, miswritten, vnodes, lost>>
       \/ /\ mt[t].pc = "synced" /\ mt'[t].pc \in {"idle", "next"} /\ kd_fs' = [kd_fs EXCEPT ![d] = FALSE]
          /\ vnodes[d] = 0 /\ ~dirty[d] /\ (Missing(d) = {} => lost' = lost)
          /\ UNCHANGED <<unsaved, miswritten, dirty, vnodes>>

\* Every step of an operation changes the volumes as Volumes says.
LEMMA VolumesStep ==
    ASSUME MountTypes, NEW t \in Thread, ThreadStep(t)
    PROVE  Volumes(t)
<1>1. ASSUME NEW d \in Dev, NEW op \in {"mount", "unmount", "getroot"}, table_call(t, op, d)
      PROVE  Volumes(t)
  BY <1>1 DEF table_call, Where, file_vars, Volumes, MountTypes
<1>2. ASSUME NEW op \in {"sync", "unmountall"}, table_call(t, op, 0)
      PROVE  Volumes(t)
  BY <1>2 DEF table_call, Where, file_vars, Volumes, MountTypes
<1>3. ASSUME vfs_next(t)
      PROVE  Volumes(t)
  BY <1>3 DEF vfs_next, Where, file_vars, Volumes, MountTypes
<1>4. ASSUME vfs_mount(t)
      PROVE  Volumes(t)
  BY <1>4 DEF vfs_mount, Where, file_vars, Volumes, MountTypes
<1>5. ASSUME sfs_domount(t)
      PROVE  Volumes(t)
  BY <1>5 DEF sfs_domount, Where, file_vars, Volumes, MountTypes, Unlock, Enter, Out
<1>6. ASSUME vfs_unmount(t)
      PROVE  Volumes(t)
  BY <1>6 DEF vfs_unmount, Where, file_vars, Volumes, MountTypes
<1>7. ASSUME vfs_getroot(t)
      PROVE  Volumes(t)
  BY <1>7 DEF vfs_getroot, Where, file_vars, Volumes, MountTypes
<1>8. ASSUME sync_begin(t)
      PROVE  Volumes(t)
  BY <1>8 DEF sync_begin, Where, file_vars, Volumes, MountTypes
<1>9. ASSUME sync_vnodes(t)
      PROVE  Volumes(t)
  BY <1>9 DEF sync_vnodes, Where, file_vars, Volumes, MountTypes
<1>10. ASSUME sync_map(t)
      PROVE  Volumes(t)
  BY <1>10 DEF sync_map, Where, file_vars, Volumes, MountTypes, Enter, MountRecord
<1>11. ASSUME sync_clean(t)
      PROVE  Volumes(t)
  BY <1>11 DEF sync_clean, Where, file_vars, Volumes, MountTypes
<1>12. ASSUME sync_failed(t)
      PROVE  Volumes(t)
  BY <1>12 DEF sync_failed, Where, file_vars, Volumes, MountTypes
<1>13. ASSUME sfs_unmount(t)
      PROVE  Volumes(t)
  BY <1>13 DEF sfs_unmount, Where, file_vars, Volumes, MountTypes, Onward, Unlock, Enter, Out, MountRecord,
                  Missing
<1> QED
  BY <1>1, <1>2, <1>3, <1>4, <1>5, <1>6, <1>7, <1>8, <1>9, <1>10, <1>11, <1>12,
     <1>13
  DEF ThreadStep

\* A step of a file in use: at most one block of its volume's map becomes unsaved.
FileStep(d) ==
    /\ UNCHANGED <<knowndevs_lock, kd_fs, miswritten, mt, lost>>
    /\ vnodes[d] > 0 /\ vnodes' \in [Dev -> Nat] /\ \A e \in Dev \ {d} : vnodes'[e] = vnodes[e]
    /\ UNCHANGED <<unsaved, dirty, raced>> \/ Changed(d)

\* Opening, changing and closing a file are such steps.
LEMMA FileSteps ==
    ASSUME MountTypes, NEW d \in Dev, open_file(d) \/ sfs_balloc(d) \/ close_file(d)
    PROVE  FileStep(d)
<1>1. CASE open_file(d)
  BY <1>1 DEF open_file, FileStep, MountTypes
<1>2. CASE sfs_balloc(d)
  BY <1>2 DEF sfs_balloc, FileStep, MountTypes
<1>3. CASE close_file(d)
  <2>1. vnodes[d] > 0 /\ vnodes' = [vnodes EXCEPT ![d] = @ - 1]
    BY <1>3 DEF close_file
  <2>2. vnodes' \in [Dev -> Nat] /\ \A e \in Dev \ {d} : vnodes'[e] = vnodes[e]
    BY <2>1 DEF MountTypes
  <2>3. Changed(d) \/ UNCHANGED <<unsaved, dirty, raced>>
    BY <1>3 DEF close_file
  <2>4. UNCHANGED <<knowndevs_lock, kd_fs, miswritten, mt, lost>>
    BY <1>3 DEF close_file
  <2> QED BY <2>1, <2>2, <2>3, <2>4 DEF FileStep
<1> QED BY <1>1, <1>2, <1>3

\* A step of an operation on the table preserves the invariant.
LEMMA ThreadStepInv ==
    ASSUME MountsInv, NEW t \in Thread, ThreadStep(t)
    PROVE  MountsInv'
<1>1. MountTypes /\ Locked /\ Places /\ VnodesMounted /\ CleanIsSaved /\ Written
  BY DEF MountsInv
<1>2. PICK r : Moves(t, r)
  BY <1>1, MovesStep
<1>3. Volumes(t)
  BY <1>1, VolumesStep
<1>4. /\ mt[t] \in MountRecord /\ r \in MountRecord /\ mt' = [mt EXCEPT ![t] = r]
      /\ mt'[t] = r /\ \A u \in Thread \ {t} : mt'[u] = mt[u]
      /\ \A u \in Thread : mt[u] \in MountRecord
  BY <1>1, <1>2 DEF Moves, MountTypes
<1>5. mt[t].pc \notin {"idle", "next"} => mt[t].d \in Dev
  BY <1>1 DEF Places
<1>6. ASSUME NEW u \in Thread \ {t}, mt[u].pc # "idle" PROVE mt[t].pc = "idle" /\ Volumes(t)
                /\ knowndevs_lock = u
  BY <1>1, <1>3, <1>6 DEF Locked
<1>7. ASSUME NEW u \in Thread \ {t} PROVE mt[u].pc = "idle"
  <2>1. SUFFICES ASSUME mt[u].pc # "idle" PROVE FALSE
    OBVIOUS
  <2>2. mt[t].pc = "idle" /\ knowndevs_lock = u
    BY <1>6, <2>1
  <2> QED BY <1>2, <2>2, NullIsNoThread DEF Moves
<1>8. MountTypes'
  <2>1. mt' \in [Thread -> MountRecord]
    BY <1>1, <1>4 DEF MountTypes
  <2>2. knowndevs_lock' \in Thread \cup {NULL}
    BY <1>1, <1>2 DEF Moves, MountTypes
  <2>3. /\ kd_fs' \in [Dev -> BOOLEAN] /\ dirty' \in [Dev -> BOOLEAN]
        /\ unsaved' \in [Dev -> SUBSET (1..MapBlocks)] /\ raced' \subseteq Dev
    <3>1. kd_fs' \in [Dev -> BOOLEAN] /\ raced' \subseteq Dev
      BY <1>1, <1>3, <1>5 DEF Volumes, MountTypes
    <3>2. dirty' \in [Dev -> BOOLEAN]
      BY <1>1, <1>3, <1>5 DEF Volumes, MountTypes
    <3>3. unsaved' \in [Dev -> SUBSET (1..MapBlocks)]
      BY <1>1, <1>3, <1>5 DEF Volumes, MountTypes
    <3> QED BY <3>1, <3>2, <3>3
  <2>5. miswritten' \in [Dev -> SUBSET (1..MapBlocks)]
    <3>1. mt[t].pc = "mapwrite" => mt[t].j \in 1..MapBlocks
      BY <1>1 DEF Places
    <3> QED BY <1>1, <1>3, <1>5, <3>1 DEF Volumes, MountTypes
  <2>4. vnodes' \in [Dev -> Nat] /\ lost' \subseteq Dev
    BY <1>1, <1>3, <1>5 DEF Volumes, MountTypes
  <2> QED BY <2>1, <2>2, <2>3, <2>4, <2>5 DEF MountTypes
<1>9. Locked'
  <2>1. r.pc # "idle" => knowndevs_lock' = t
    BY <1>1, <1>2 DEF Moves, Locked
  <2> QED BY <1>4, <1>7, <2>1 DEF Locked
<1>10. Places'
  <2>1. r.pc \in Syncing => kd_fs'[r.d]
    <3>1. CASE mt[t].pc \in {"mapread", "synced"} /\ kd_fs' # kd_fs
      BY <1>3, <1>4, <3>1 DEF Volumes, Syncing
    <3>2. CASE mt[t].pc \notin {"mapread", "synced"} \/ kd_fs' = kd_fs
      BY <1>2, <1>3, <3>2 DEF Moves, Volumes
    <3> QED BY <3>1, <3>2
  <2>2. /\ r.pc \notin {"idle", "next"} => r.d \in Dev
        /\ r.pc = "mapwrite" => r.j \in 1..MapBlocks
    BY <1>2 DEF Moves
  <2> QED BY <1>4, <1>7, <2>1, <2>2 DEF Places, Syncing
<1>11. VnodesMounted'
  BY <1>1, <1>3, <1>5 DEF Volumes, VnodesMounted, MountTypes
<1>12. CleanIsSaved'
  <2> SUFFICES ASSUME NEW d \in Dev, d \notin raced
               PROVE  /\ kd_fs'[d] /\ ~dirty'[d] => unsaved'[d] \subseteq miswritten'[d]
                      /\ d \notin lost'
    BY <1>3 DEF CleanIsSaved, Volumes
  <2>1. /\ kd_fs[d] /\ ~dirty[d] => Missing(d) = {}
        /\ d \notin lost
    BY <1>1 DEF CleanIsSaved, Missing
  <2>2. mt[t].pc = "clean" /\ mt[t].d = d => Missing(d) = {}
    BY <1>1 DEF Written
  <2>3. mt[t].pc = "synced" => kd_fs[mt[t].d]
    BY <1>1 DEF Places
  <2> QED BY <1>1, <1>3, <1>5, <2>1, <2>2, <2>3 DEF Volumes, MountTypes, Missing
<1>13. Written'
  <2> SUFFICES ASSUME r.d \in Dev, r.d \notin raced
               PROVE  /\ r.pc = "mapwrite" => unsaved'[r.d] \ miswritten'[r.d] \subseteq r.j..MapBlocks
                      /\ r.pc = "clean" => unsaved'[r.d] \ miswritten'[r.d] = {}
    BY <1>3, <1>4, <1>7 DEF Written, Volumes, Missing
  <2>1. CASE r.pc = "mapwrite" /\ mt[t].pc = "fsync"
    <3>1. r.j = 1 /\ unsaved' = unsaved
      BY <1>2, <1>3, <2>1 DEF Moves, Volumes
    <3> QED BY <1>1, <2>1, <3>1 DEF MountTypes
  <2>2. CASE mt[t].pc = "mapwrite" /\ r.pc \in {"mapwrite", "clean"}
    <3>1. r.d = mt[t].d /\ mt[t].j \in 1..MapBlocks
      BY <1>1, <1>2, <2>2 DEF Moves, Places
    <3>2. unsaved[r.d] \ miswritten[r.d] \subseteq mt[t].j..MapBlocks
      BY <1>1, <2>2, <3>1 DEF Written, Missing
    <3>3. \/ /\ unsaved' = [unsaved EXCEPT ![r.d] = @ \ {mt[t].j}]
             /\ miswritten' = [miswritten EXCEPT ![r.d] = @ \ {mt[t].j}]
          \/ unsaved' = unsaved /\ miswritten' = [miswritten EXCEPT ![r.d] = @ \cup {mt[t].j}]
      BY <1>3, <1>4, <2>2, <3>1 DEF Volumes
    <3>4. r.pc = "mapwrite" => r.j = mt[t].j + 1
      BY <1>2, <2>2 DEF Moves
    <3>5. r.pc = "clean" => mt[t].j = MapBlocks
      BY <1>2, <2>2 DEF Moves
    <3>6. unsaved'[r.d] \ miswritten'[r.d] \subseteq (unsaved[r.d] \ miswritten[r.d]) \ {mt[t].j}
      BY <1>1, <3>3 DEF MountTypes
    <3>7. (mt[t].j..MapBlocks) \ {mt[t].j} = (mt[t].j + 1)..MapBlocks
      BY <3>1, MountSizes
    <3>8. unsaved'[r.d] \ miswritten'[r.d] \subseteq (mt[t].j + 1)..MapBlocks
      BY <3>2, <3>6, <3>7
    <3>9. (MapBlocks + 1)..MapBlocks = {}
      BY MountSizes
    <3> QED BY <2>2, <3>4, <3>5, <3>8, <3>9
  <2> QED BY <1>2, <2>1, <2>2 DEF Moves
<1> QED BY <1>8, <1>9, <1>10, <1>11, <1>12, <1>13 DEF MountsInv

\* A step of a file in use preserves the invariant: a change that meets a sync of
\* the map marks its device.
LEMMA FileStepInv ==
    ASSUME MountsInv, NEW d \in Dev, FileStep(d)
    PROVE  MountsInv'
<1>1. MountTypes /\ Locked /\ Places /\ VnodesMounted /\ CleanIsSaved /\ Written
  BY DEF MountsInv
<1>2. /\ UNCHANGED <<knowndevs_lock, kd_fs, miswritten, mt, lost>>
      /\ kd_fs[d] /\ vnodes' \in [Dev -> Nat]
      /\ \A e \in Dev \ {d} : vnodes'[e] = vnodes[e]
  BY <1>1 DEF FileStep, VnodesMounted
<1>3. Locked' /\ Places' /\ VnodesMounted'
  BY <1>1, <1>2 DEF Locked, Places, VnodesMounted
<1>4. CASE UNCHANGED <<unsaved, dirty, raced>>
  <2>1. MountTypes' /\ CleanIsSaved' /\ Written'
    BY <1>1, <1>2, <1>4 DEF MountTypes, CleanIsSaved, Written, Missing
  <2> QED BY <1>3, <2>1 DEF MountsInv
<1>5. CASE Changed(d)
  <2>1. PICK j \in 1..MapBlocks : unsaved' = [unsaved EXCEPT ![d] = @ \cup {j}]
    BY <1>5 DEF Changed
  <2>2. dirty' = [dirty EXCEPT ![d] = TRUE]
    BY <1>5 DEF Changed
  <2>3. /\ raced \subseteq raced' /\ raced' \subseteq raced \cup {d}
        /\ \A t \in Thread : mt[t].d = d /\ mt[t].pc \in {"mapwrite", "clean"} => d \in raced'
    BY <1>5 DEF Changed
  <2>4. MountTypes'
    BY <1>1, <1>2, <2>1, <2>2, <2>3 DEF MountTypes
  <2>5. CleanIsSaved'
    BY <1>1, <1>2, <2>1, <2>2, <2>3 DEF CleanIsSaved, MountTypes
  <2>6. Written'
    BY <1>1, <1>2, <2>1, <2>3 DEF Written, MountTypes, Missing
  <2> QED BY <1>3, <2>4, <2>5, <2>6 DEF MountsInv
<1> QED BY <1>4, <1>5 DEF FileStep

----------------------------------------------------------------------------
(* The theorems *)

\* The invariant of the table of devices: only the owner of knowndevs_lock is in an
\* operation on the table, what it syncs stays mounted, no vnode is on an unmounted
\* volume, and what sfs_sync has written of an unchanged free map is on disk, but for
\* the blocks whose write was lost and reported as done.
THEOREM MountsInvariant == MountsBehaviour => []MountsInv
<1>1. MountsInit => MountsInv
  <2> SUFFICES ASSUME MountsInit PROVE MountsInv
    OBVIOUS
  <2>1. Out \in MountRecord /\ Out.pc = "idle"
    BY MountSizes DEF Out, MountRecord
  <2>2. MountTypes
    BY <2>1 DEF MountsInit, MountTypes
  <2> QED BY <2>1, <2>2
          DEF MountsInit, MountsInv, Locked, Places, VnodesMounted, CleanIsSaved, Written, Missing
<1>2. MountsInv /\ [MountsNext]_mount_vars => MountsInv'
  <2> SUFFICES ASSUME MountsInv, [MountsNext]_mount_vars PROVE MountsInv'
    OBVIOUS
  <2>1. ASSUME NEW t \in Thread, ThreadStep(t) PROVE MountsInv'
    BY <2>1, ThreadStepInv
  <2>2. ASSUME NEW d \in Dev, open_file(d) \/ sfs_balloc(d) \/ close_file(d) PROVE MountsInv'
    BY <2>2, FileSteps, FileStepInv DEF MountsInv
  <2>3. CASE UNCHANGED mount_vars
    BY <2>3
    DEF mount_vars, file_vars, MountsInv, MountTypes, Locked, Places, VnodesMounted,
        CleanIsSaved, Written, Missing
  <2> QED BY <2>1, <2>2, <2>3 DEF MountsNext, ThreadStep
<1> QED BY <1>1, <1>2, PTL DEF MountsBehaviour

\* A volume is dropped from the table only with no vnode on it, and its free map then
\* misses on disk only blocks whose write was lost and reported as done, if the map
\* did not change while sfs_sync was writing it.
THEOREM VolumesDroppedClean == MountsBehaviour => []VolumesOK
<1>1. MountsInv => VolumesOK
  BY DEF MountsInv, VolumesOK
<1> QED BY <1>1, MountsInvariant, PTL

----------------------------------------------------------------------------
(* FileTable: rings of duplicates.  The invariant names the ring: the list q *)
(* of its n members, from the original s on, each with the next in dup.     *)

TableValue == OpenFile \cup {NULL, "con", "garbage"}
TableRec == [vnode : [FtSlot -> TableValue], offset : [FtSlot -> Int], dup : [FtSlot -> Int],
             isdup : [FtSlot -> BOOLEAN], parent : [FtSlot -> FtSlot]]

Ring(dup, S, s, q, n) ==
    /\ n \in Nat /\ n > 0 /\ q \in [0..(n - 1) -> S] /\ q[0] = s
    /\ S \subseteq FtSlot \ {0} /\ S = {q[k] : k \in 0..(n - 1)}
    /\ \A k, l \in 0..(n - 1) : q[k] = q[l] => k = l
    /\ \A k \in 0..(n - 1) : k + 1 \in 0..(n - 1) => dup[q[k]] = q[k + 1]
    /\ dup[q[n - 1]] = s \/ (n = 1 /\ dup[q[n - 1]] <= 0)

Orig(ft, fd) == fd \in FtSlot /\ ft.vnode[fd] # NULL /\ ~ft.isdup[fd]
Members(ft, fd) == {fd} \cup {i \in FtSlot : ft.parent[i] = fd}

\* A table whose duplicates are duplicates of originals, in their rings.
Rings(ft) ==
    /\ ft \in TableRec /\ ft.vnode[0] = NULL
    /\ \A i \in FtSlot : ~ft.isdup[i] => ft.parent[i] = 0
    /\ \A i \in FtSlot : ft.isdup[i] => /\ Orig(ft, ft.parent[i])
                                        /\ ft.vnode[i] = ft.vnode[ft.parent[i]]
    /\ \A fd \in FtSlot : Orig(ft, fd) => \E n, q : Ring(ft.dup, Members(ft, fd), fd, q, n)

\* Every vfs_open is for one original.
OpenedAs(ft, v) == {i \in FtSlot : ft.vnode[i] = v /\ ~ft.isdup[i]}
OpensCounted(ft, times) ==
    times \in [OpenFile -> Nat] /\ \A v \in OpenFile : times[v] = Cardinality(OpenedAs(ft, v))

\* The inductive invariant, until dup2 has mixed the rings up.
TableInv == mixed \in BOOLEAN /\ (~mixed => Rings(filetable) /\ OpensCounted(filetable, ft_open))

\* Where the walk along a ring is.
WalkStep(ft, s, at) ==
    at = [k \in 0..FILETABLESIZE |->
            IF k = 0 THEN s
            ELSE IF Ends(ft, s, at[k - 1]) THEN at[k - 1] ELSE ft.dup[at[k - 1]]]

RingIn(ft, S, s, q, n) == Ring(ft.dup, S, s, q, n)
Along(ft, s, q, n) ==
    \A k \in 0..FILETABLESIZE : Walk(ft, s)[k] = IF k < n THEN q[k] ELSE q[n - 1]

LEMMA RingSize ==
    ASSUME NEW dup, NEW S, NEW s, NEW q, NEW n, Ring(dup, S, s, q, n)
    PROVE  n <= FILETABLESIZE
<1>1. /\ n \in Nat /\ n > 0 /\ q \in [0..(n - 1) -> S] /\ S \subseteq FtSlot \ {0}
      /\ \A k, l \in 0..(n - 1) : q[k] = q[l] => k = l /\ FILETABLESIZE \in Nat
  BY FileTableSizes DEF Ring
<1>2. PICK N : N = 0..(n - 1)
  OBVIOUS
<1>3. IsFiniteSet(FtSlot) /\ Cardinality(FtSlot) = FILETABLESIZE
  <2>1. FILETABLESIZE \in Nat /\ FILETABLESIZE > 0
    BY FileTableSizes
  <2>2. 0 \in Int /\ FILETABLESIZE - 1 \in Int
    BY <2>1
  <2>3. /\ IsFiniteSet(0..(FILETABLESIZE - 1))
        /\ Cardinality(0..(FILETABLESIZE - 1)) = IF 0 > FILETABLESIZE - 1 THEN 0
                                                 ELSE FILETABLESIZE - 1 - 0 + 1
    BY <2>2, FS_Interval
  <2> QED BY <2>1, <2>3 DEF FtSlot
<1>4. Cardinality(N) = n
  <2>1. 0 \in Int /\ n - 1 \in Int
    BY <1>1
  <2>2. Cardinality(0..(n - 1)) = IF 0 > n - 1 THEN 0 ELSE n - 1 - 0 + 1
    BY <2>1, FS_Interval
  <2> QED BY <1>1, <1>2, <2>2
<1>5. q \in Injection(N, FtSlot)
  <2>1. q \in [N -> FtSlot]
    BY <1>1, <1>2
  <2>2. \A k, l \in N : q[k] = q[l] => k = l
    BY <1>1, <1>2
  <2> QED BY <2>1, <2>2 DEF Injection, IsInjective
<1>6. Cardinality(N) <= Cardinality(FtSlot)
  BY <1>3, <1>5, FS_Injection
<1> QED BY <1>3, <1>4, <1>6

\* The walk goes through the list and stays at its last member.
LEMMA WalkIs ==
    ASSUME NEW ft, NEW S, NEW s, NEW q, NEW n, RingIn(ft, S, s, q, n)
    PROVE  Along(ft, s, q, n)
<1>1. PICK dup : dup = ft.dup
  OBVIOUS
<1>2. /\ n \in Nat /\ n > 0 /\ n - 1 \in 0..(n - 1) /\ 0 \in 0..(n - 1)
      /\ q \in [0..(n - 1) -> S] /\ q[0] = s
      /\ S \subseteq FtSlot \ {0}
      /\ \A k, l \in 0..(n - 1) : q[k] = q[l] => k = l
      /\ \A k \in 0..(n - 1) : k + 1 \in 0..(n - 1) => dup[q[k]] = q[k + 1]
      /\ dup[q[n - 1]] = s \/ (n = 1 /\ dup[q[n - 1]] <= 0)
  BY <1>1 DEF RingIn, Ring
<1>3. FILETABLESIZE \in Nat
  BY FileTableSizes
<1>4. Ends(ft, s, q[n - 1])
  BY <1>1, <1>2 DEF Ends
<1>5. ASSUME NEW k \in 0..(n - 1), k + 1 \in 0..(n - 1)
      PROVE  ~Ends(ft, s, q[k]) /\ ft.dup[q[k]] = q[k + 1]
  <2>1. dup[q[k]] = q[k + 1]
    BY <1>2, <1>5
  <2>2. q[k + 1] # q[0]
    BY <1>2, <1>5
  <2>3. q[k + 1] \in FtSlot \ {0}
    BY <1>2, <1>5
  <2>4. q[k + 1] \in Nat /\ q[k + 1] > 0
    BY <2>3, FileTableSizes DEF FtSlot
  <2> QED BY <1>1, <1>2, <2>1, <2>2, <2>4 DEF Ends
<1>6. PICK w : w = [k \in 0..FILETABLESIZE |-> IF k < n THEN q[k] ELSE q[n - 1]]
  OBVIOUS
<1>7. \A k \in 0..FILETABLESIZE : w[k] = IF k < n THEN q[k] ELSE q[n - 1]
  BY <1>6
<1>8. ASSUME NEW k \in 0..FILETABLESIZE, k # 0
      PROVE  /\ k - 1 \in 0..FILETABLESIZE
             /\ w[k] = IF Ends(ft, s, w[k - 1]) THEN w[k - 1] ELSE ft.dup[w[k - 1]]
  <2>1. k - 1 \in 0..FILETABLESIZE /\ k \in Nat /\ k > 0
    BY <1>3, <1>8
  <2>2. CASE k < n
    <3>1. k - 1 \in 0..(n - 1) /\ (k - 1) + 1 \in 0..(n - 1) /\ (k - 1) + 1 = k /\ k - 1 < n
      BY <1>2, <2>1, <2>2
    <3>2. w[k - 1] = q[k - 1] /\ w[k] = q[k]
      BY <1>7, <2>1, <2>2, <3>1
    <3>3. ~Ends(ft, s, q[k - 1]) /\ ft.dup[q[k - 1]] = q[(k - 1) + 1]
      BY <1>5, <3>1
    <3> QED BY <2>1, <3>1, <3>2, <3>3
  <2>3. CASE ~(k < n)
    <3>1. w[k - 1] = q[n - 1] /\ w[k] = q[n - 1]
      <4>1. k - 1 < n => k - 1 = n - 1
        BY <1>2, <2>1, <2>3
      <4> QED BY <1>7, <2>1, <2>3, <4>1
    <3> QED BY <1>4, <2>1, <3>1
  <2> QED BY <2>2, <2>3
<1>9. w[0] = s
  BY <1>2, <1>3, <1>7
<1>10. PICK K : K = 0..FILETABLESIZE
  OBVIOUS
<1>11. WalkStep(ft, s, w)
  <2>1. PICK g : g = [k \in K |-> IF k = 0 THEN s
                        ELSE IF Ends(ft, s, w[k - 1]) THEN w[k - 1] ELSE ft.dup[w[k - 1]]]
    OBVIOUS
  <2>2. \A k \in K : g[k] = w[k]
    BY <1>8, <1>9, <1>10, <2>1
  <2>3. g = w
    BY <1>6, <1>10, <2>1, <2>2
  <2> QED BY <1>10, <2>1, <2>3 DEF WalkStep
<1>12. PICK at : at = Walk(ft, s)
  OBVIOUS
<1>13. WalkStep(ft, s, at)
  <2>1. at = CHOOSE f : WalkStep(ft, s, f)
    BY <1>12 DEF Walk, WalkStep
  <2> QED BY <1>11, <2>1
<1>14. /\ at[0] = s
       /\ \A k \in K : k # 0 => at[k] = IF Ends(ft, s, at[k - 1]) THEN at[k - 1]
                                        ELSE ft.dup[at[k - 1]]
  <2>1. at = [k \in K |-> IF k = 0 THEN s
                ELSE IF Ends(ft, s, at[k - 1]) THEN at[k - 1] ELSE ft.dup[at[k - 1]]]
    BY <1>10, <1>13 DEF WalkStep
  <2>2. 0 \in K
    BY <1>3, <1>10
  <2> QED BY <2>1, <2>2
<1>15. \A k \in K : at[k] = w[k]
  <2> SUFFICES ASSUME {k \in K : at[k] # w[k]} # {} PROVE FALSE
    OBVIOUS
  <2>1. PICK D : D = {k \in K : at[k] # w[k]}
    OBVIOUS
  <2>2. D \in SUBSET Nat /\ D # {}
    BY <1>3, <1>10, <2>1
  <2>3. PICK k \in D : \A l \in D : k <= l
    BY <2>2, LeastNatural
  <2>4. k \in K /\ k \in Nat /\ k # 0
    BY <1>9, <1>14, <2>1, <2>2
  <2>5. k - 1 \in K /\ k - 1 \notin D
    BY <1>8, <1>10, <2>2, <2>3, <2>4
  <2>6. at[k - 1] = w[k - 1]
    BY <2>1, <2>5
  <2>7. at[k] = w[k]
    BY <1>8, <1>10, <1>14, <2>4, <2>6
  <2> QED BY <2>1, <2>7
<1> QED BY <1>7, <1>10, <1>12, <1>15 DEF Along

\* The members of a ring are what a walk along it passes.
LEMMA RingWalk ==
    ASSUME NEW ft, NEW S, NEW s, NEW q, NEW n, RingIn(ft, S, s, q, n)
    PROVE  ~Endless(ft, s) /\ Passed(ft, s) = S /\ LastDup(ft, s) = q[n - 1]
<1>1. PICK at : at = Walk(ft, s)
  OBVIOUS
<1>2. \A k \in 0..FILETABLESIZE : at[k] = IF k < n THEN q[k] ELSE q[n - 1]
  <2>1. Along(ft, s, q, n)
    BY WalkIs
  <2> QED BY <1>1, <2>1 DEF Along
<1>3. /\ n \in Nat /\ n > 0 /\ n <= FILETABLESIZE /\ FILETABLESIZE \in Nat
      /\ n - 1 \in 0..(n - 1) /\ S = {q[k] : k \in 0..(n - 1)}
      /\ ft.dup[q[n - 1]] = s \/ ft.dup[q[n - 1]] <= 0
  <2>1. PICK dup : dup = ft.dup
    OBVIOUS
  <2>2. Ring(dup, S, s, q, n)
    BY <2>1 DEF RingIn
  <2>3. n <= FILETABLESIZE
    BY <2>2, RingSize
  <2>4. /\ n \in Nat /\ n > 0 /\ S = {q[k] : k \in 0..(n - 1)}
        /\ dup[q[n - 1]] = s \/ dup[q[n - 1]] <= 0
    BY <2>2 DEF Ring
  <2>5. n - 1 \in 0..(n - 1) /\ FILETABLESIZE \in Nat
    BY <2>4, FileTableSizes
  <2> QED BY <2>1, <2>3, <2>4, <2>5
<1>4. at[FILETABLESIZE] = q[n - 1]
  BY <1>2, <1>3
<1>5. {at[k] : k \in 0..FILETABLESIZE} = {q[k] : k \in 0..(n - 1)}
  <2>1. ASSUME NEW k \in 0..FILETABLESIZE PROVE \E l \in 0..(n - 1) : at[k] = q[l]
    <3>1. CASE k < n
      <4>1. k \in 0..(n - 1)
        BY <1>3, <3>1
      <4> QED BY <1>2, <3>1, <4>1
    <3>2. CASE ~(k < n)
      BY <1>2, <1>3, <3>2
    <3> QED BY <3>1, <3>2
  <2>2. ASSUME NEW l \in 0..(n - 1) PROVE \E k \in 0..FILETABLESIZE : q[l] = at[k]
    <3>1. l \in 0..FILETABLESIZE /\ l < n
      BY <1>3
    <3> QED BY <1>2, <3>1
  <2> QED BY <2>1, <2>2
<1>6. Passed(ft, s) = S
  BY <1>1, <1>3, <1>5 DEF Passed
<1>7. LastDup(ft, s) = q[n - 1]
  BY <1>1, <1>4 DEF LastDup
<1> QED BY <1>3, <1>6, <1>7 DEF Endless, Ends

\* The same ring, from another of its members on.
LEMMA RingFrom ==
    ASSUME NEW dup, NEW S, NEW s, NEW q, NEW n, Ring(dup, S, s, q, n), NEW t \in S, n > 1
    PROVE  \E p : Ring(dup, S, t, p, n)
<1>1. /\ n \in Nat /\ n > 0 /\ q \in [0..(n - 1) -> S] /\ q[0] = s
      /\ S \subseteq FtSlot \ {0} /\ S = {q[k] : k \in 0..(n - 1)}
      /\ \A k, l \in 0..(n - 1) : q[k] = q[l] => k = l
      /\ \A k \in 0..(n - 1) : k + 1 \in 0..(n - 1) => dup[q[k]] = q[k + 1]
      /\ dup[q[n - 1]] = s
  BY DEF Ring
<1>2. PICK N : N = 0..(n - 1)
  OBVIOUS
<1>3. PICK m \in N : t = q[m]
  BY <1>1, <1>2
<1>4. m \in Nat /\ m < n
  BY <1>1, <1>2
<1>5. PICK r : r = [k \in N |-> IF k + m < n THEN k + m ELSE k + m - n]
  OBVIOUS
<1>6. ASSUME NEW k \in N
      PROVE  r[k] \in N /\ r[k] = IF k + m < n THEN k + m ELSE k + m - n
  <2>1. k \in Nat /\ k < n
    BY <1>1, <1>2
  <2>2. r[k] = IF k + m < n THEN k + m ELSE k + m - n
    BY <1>5
  <2> QED BY <1>1, <1>2, <1>4, <2>1, <2>2
<1>7. \A k, l \in N : r[k] = r[l] => k = l
  <2> SUFFICES ASSUME NEW k \in N, NEW l \in N, r[k] = r[l] PROVE k = l
    OBVIOUS
  <2>1. k \in Nat /\ k < n /\ l \in Nat /\ l < n
    BY <1>1, <1>2
  <2> QED BY <1>1, <1>4, <1>6, <2>1
<1>8. ASSUME NEW x \in N PROVE \E k \in N : r[k] = x
  <2>1. x \in Nat /\ x < n
    BY <1>1, <1>2
  <2>2. PICK k : k = IF x >= m THEN x - m ELSE x - m + n
    OBVIOUS
  <2>3. k \in N
    BY <1>1, <1>2, <1>4, <2>1, <2>2
  <2>4. r[k] = x
    BY <1>1, <1>4, <1>6, <2>1, <2>2, <2>3
  <2> QED BY <2>3, <2>4
<1>9. PICK p : p = [k \in N |-> q[r[k]]]
  OBVIOUS
<1>10. \A k \in N : p[k] = q[r[k]] /\ q[r[k]] \in S
  BY <1>1, <1>2, <1>6, <1>9
<1>11. p \in [N -> S]
  BY <1>9, <1>10
<1>12. p[0] = t /\ 0 \in N /\ n - 1 \in N
  <2>1. 0 \in N /\ n - 1 \in N
    BY <1>1, <1>2
  <2>2. r[0] = m
    BY <1>4, <1>6, <2>1
  <2> QED BY <1>3, <1>10, <2>1, <2>2
<1>13. S = {p[k] : k \in N}
  <2>1. ASSUME NEW x \in S PROVE \E k \in N : x = p[k]
    <3>1. PICK y \in N : x = q[y]
      BY <1>1, <1>2
    <3>2. PICK k \in N : r[k] = y
      BY <1>8
    <3> QED BY <1>10, <3>1, <3>2
  <2> QED BY <1>10, <2>1
<1>14. \A k, l \in N : p[k] = p[l] => k = l
  <2> SUFFICES ASSUME NEW k \in N, NEW l \in N, p[k] = p[l] PROVE k = l
    OBVIOUS
  <2>1. q[r[k]] = q[r[l]] /\ r[k] \in N /\ r[l] \in N
    BY <1>6, <1>10
  <2>2. r[k] = r[l]
    BY <1>1, <1>2, <2>1
  <2> QED BY <1>7, <2>2
\* The next member is the next place, and the first after the last.
<1>15. ASSUME NEW x \in N PROVE dup[q[x]] = IF x = n - 1 THEN q[0] ELSE q[x + 1]
  <2>1. x # n - 1 => x + 1 \in N
    BY <1>1, <1>2
  <2> QED BY <1>1, <1>2, <2>1
<1>16. ASSUME NEW k \in N, k + 1 \in N PROVE dup[p[k]] = p[k + 1]
  <2>1. n \in Nat /\ m \in Nat /\ m < n /\ k \in Nat /\ k + 1 < n
    <3>1. n \in Nat /\ k \in 0..(n - 1) /\ k + 1 \in 0..(n - 1)
      BY <1>1, <1>2, <1>16
    <3> QED BY <1>4, <3>1
  <2>2. r[k + 1] = IF r[k] = n - 1 THEN 0 ELSE r[k] + 1
    <3>1. r[k] = IF k + m < n THEN k + m ELSE k + m - n
      BY <1>6
    <3>2. r[k + 1] = IF (k + 1) + m < n THEN (k + 1) + m ELSE (k + 1) + m - n
      BY <1>6, <1>16
    <3> QED BY <2>1, <3>1, <3>2
  <2>3. dup[q[r[k]]] = q[r[k + 1]]
    BY <1>6, <1>15, <2>2
  <2> QED BY <1>10, <1>16, <2>3
<1>17. dup[p[n - 1]] = t
  <2>1. r[n - 1] = IF m = 0 THEN n - 1 ELSE m - 1
    BY <1>1, <1>4, <1>6, <1>12
  <2>2. dup[q[r[n - 1]]] = q[m]
    <3>1. CASE m = 0
      BY <1>12, <1>15, <2>1, <3>1
    <3>2. CASE m # 0
      <4>1. m - 1 \in N /\ m - 1 # n - 1 /\ (m - 1) + 1 = m
        BY <1>1, <1>2, <1>4, <3>2
      <4> QED BY <1>15, <2>1, <3>2, <4>1
    <3> QED BY <3>1, <3>2
  <2> QED BY <1>3, <1>10, <1>12, <2>2
<1>18. Ring(dup, S, t, p, n)
  BY <1>1, <1>2, <1>11, <1>12, <1>13, <1>14, <1>16, <1>17 DEF Ring
<1> QED BY <1>18

\* A new member after the last one.
LEMMA RingGrows ==
    ASSUME NEW dup, NEW S, NEW s, NEW q, NEW n, Ring(dup, S, s, q, n), NEW x, x \notin S,
           x \in FtSlot \ {0}, NEW e, e[x] = s, e[q[n - 1]] = x,
           \A y \in S : y # q[n - 1] => e[y] = dup[y]
    PROVE  \E p : Ring(e, S \cup {x}, s, p, n + 1)
<1>1. /\ n \in Nat /\ n > 0 /\ q \in [0..(n - 1) -> S] /\ q[0] = s
      /\ S \subseteq FtSlot \ {0} /\ S = {q[k] : k \in 0..(n - 1)}
      /\ \A k, l \in 0..(n - 1) : q[k] = q[l] => k = l
      /\ \A k \in 0..(n - 1) : k + 1 \in 0..(n - 1) => dup[q[k]] = q[k + 1]
  BY DEF Ring
<1>2. PICK N : N = 0..(n - 1)
  OBVIOUS
<1>3. PICK M : M = 0..n
  OBVIOUS
<1>4. PICK T : T = S \cup {x}
  OBVIOUS
<1>5. PICK p : p = [k \in M |-> IF k < n THEN q[k] ELSE x]
  OBVIOUS
<1>6. /\ \A k \in N : k \in M /\ k < n /\ k \in Nat
      /\ \A k \in M : k \in N \/ k = n
      /\ n \in M /\ 0 \in N /\ n - 1 \in N /\ n + 1 \in Nat /\ n + 1 > 0
  BY <1>1, <1>2, <1>3
<1>7. (\A k \in N : p[k] = q[k] /\ q[k] \in S) /\ p[n] = x
  BY <1>1, <1>2, <1>5, <1>6
<1>8. p \in [M -> T]
  BY <1>4, <1>5, <1>6, <1>7
<1>9. T = {p[k] : k \in M}
  <2>1. ASSUME NEW y \in T PROVE \E k \in M : y = p[k]
    <3>1. CASE y \in S
      <4>1. PICK k \in N : y = q[k]
        BY <1>1, <1>2, <3>1
      <4> QED BY <1>6, <1>7, <4>1
    <3>2. CASE y = x
      BY <1>6, <1>7, <3>2
    <3> QED BY <1>4, <3>1, <3>2
  <2> QED BY <1>8, <2>1
<1>10. \A k, l \in M : p[k] = p[l] => k = l
  <2> SUFFICES ASSUME NEW k \in M, NEW l \in M, p[k] = p[l] PROVE k = l
    OBVIOUS
  <2>1. CASE k \in N /\ l \in N
    BY <1>1, <1>2, <1>7, <2>1
  <2>2. CASE k = n /\ l = n
    BY <2>2
  <2>3. CASE k = n /\ l \in N
    BY <1>7, <2>3
  <2>4. CASE k \in N /\ l = n
    BY <1>7, <2>4
  <2> QED BY <1>6, <2>1, <2>2, <2>3, <2>4
<1>11. ASSUME NEW k \in M, k + 1 \in M PROVE e[p[k]] = p[k + 1]
  <2>1. k \in N /\ k \in Nat
    BY <1>1, <1>2, <1>3, <1>11
  <2>2. CASE k = n - 1
    <3>1. p[k] = q[n - 1] /\ k + 1 = n
      BY <1>1, <1>7, <2>1, <2>2
    <3> QED BY <1>7, <3>1
  <2>3. CASE k # n - 1
    <3>1. k + 1 \in N
      BY <1>1, <1>2, <1>3, <1>11, <2>1, <2>3
    <3>2. q[k] # q[n - 1] /\ q[k] \in S
      BY <1>1, <1>2, <1>6, <1>7, <2>1, <2>3
    <3>3. e[q[k]] = q[k + 1]
      BY <1>1, <1>2, <2>1, <3>1, <3>2
    <3> QED BY <1>7, <2>1, <3>1, <3>3
  <2> QED BY <2>2, <2>3
<1>12. p[0] = s /\ e[p[n]] = s
  BY <1>1, <1>6, <1>7
<1>13. T \subseteq FtSlot \ {0}
  BY <1>1, <1>4
<1>14. M = 0..((n + 1) - 1) /\ (n + 1) - 1 = n
  BY <1>1, <1>3
<1>15. Ring(e, T, s, p, n + 1)
  BY <1>6, <1>8, <1>9, <1>10, <1>11, <1>12, <1>13, <1>14 DEF Ring
<1> QED BY <1>4, <1>15

\* What is not in it may change.
LEMMA RingStays ==
    ASSUME NEW dup, NEW S, NEW s, NEW q, NEW n, Ring(dup, S, s, q, n), NEW e,
           \A y \in S : e[y] = dup[y]
    PROVE  Ring(e, S, s, q, n)
<1>1. /\ n \in Nat /\ n > 0 /\ n - 1 \in 0..(n - 1)
      /\ \A k \in 0..(n - 1) : q[k] \in S
  BY DEF Ring
<1>2. \A k \in 0..(n - 1) : e[q[k]] = dup[q[k]]
  BY <1>1
<1> QED BY <1>1, <1>2 DEF Ring

\* What every table has, with rings or without.
LEMMA TableFacts ==
    ASSUME NEW ft, Rings(ft)
    PROVE  /\ ft \in TableRec /\ ft.vnode \in [FtSlot -> TableValue] /\ ft.dup \in [FtSlot -> Int]
           /\ ft.offset \in [FtSlot -> Int] /\ ft.isdup \in [FtSlot -> BOOLEAN]
           /\ ft.parent \in [FtSlot -> FtSlot] /\ 0 \in FtSlot /\ ft.vnode[0] = NULL
           /\ \A i \in FtSlot : ~ft.isdup[i] => ft.parent[i] = 0
           /\ \A i \in FtSlot : ft.isdup[i] => /\ Orig(ft, ft.parent[i])
                                               /\ ft.vnode[i] = ft.vnode[ft.parent[i]]
           /\ \A i \in FtSlot : ft.isdup[i] => /\ ft.parent[i] # 0 /\ ft.vnode[i] # NULL
           /\ \A i, j \in FtSlot : ft.parent[i] = j /\ j # 0 => ft.isdup[i] /\ Orig(ft, j)
           /\ \A i : Orig(ft, i) => i \in FtSlot /\ i # 0 /\ ft.parent[i] = 0
<1>1. 0 \in FtSlot
  BY FileTableSizes DEF FtSlot
<1>2. /\ ft.vnode \in [FtSlot -> TableValue] /\ ft.dup \in [FtSlot -> Int]
      /\ ft.offset \in [FtSlot -> Int] /\ ft.isdup \in [FtSlot -> BOOLEAN]
      /\ ft.parent \in [FtSlot -> FtSlot]
  BY DEF Rings, TableRec
<1>3. /\ ft \in TableRec /\ ft.vnode[0] = NULL
      /\ \A i \in FtSlot : ~ft.isdup[i] => ft.parent[i] = 0
      /\ \A i \in FtSlot : ft.isdup[i] => /\ Orig(ft, ft.parent[i])
                                          /\ ft.vnode[i] = ft.vnode[ft.parent[i]]
  BY DEF Rings
<1>4. \A i : Orig(ft, i) => i \in FtSlot /\ i # 0 /\ ft.parent[i] = 0
  BY <1>3 DEF Orig
<1>5. \A i \in FtSlot : ft.isdup[i] => ft.parent[i] # 0 /\ ft.vnode[i] # NULL
  BY <1>3, <1>4 DEF Orig
<1>6. \A i, j \in FtSlot : ft.parent[i] = j /\ j # 0 => ft.isdup[i] /\ Orig(ft, j)
  BY <1>3
<1> QED BY <1>1, <1>2, <1>3, <1>4, <1>5, <1>6

\* A ring that a change of the table leaves alone.
LeftAlone(ft, x, ft2) ==
    /\ Rings(ft) /\ Orig(ft, x) /\ Members(ft2, x) = Members(ft, x)
    /\ \A y \in Members(ft, x) : ft2.dup[y] = ft.dup[y]

LEMMA AloneRing ==
    ASSUME NEW ft, NEW x, NEW ft2, LeftAlone(ft, x, ft2)
    PROVE  \E n, q : Ring(ft2.dup, Members(ft2, x), x, q, n)
<1>1. PICK d : d = ft.dup
  OBVIOUS
<1>2. PICK e : e = ft2.dup
  OBVIOUS
<1>3. PICK S : S = Members(ft, x)
  OBVIOUS
<1>4. \A y \in S : e[y] = d[y]
  BY <1>1, <1>2, <1>3 DEF LeftAlone
<1>5. PICK n, q : Ring(d, S, x, q, n)
  BY <1>1, <1>3 DEF LeftAlone, Rings, Orig
<1>6. Ring(e, S, x, q, n)
  BY <1>4, <1>5, RingStays
<1> QED BY <1>2, <1>3, <1>6 DEF LeftAlone

\* open takes a slot that is free.
Opening(ft, i, v, ft2) ==
    /\ Rings(ft) /\ i \in FtSlot /\ i # 0 /\ ft.vnode[i] = NULL /\ ~ft.isdup[i]
    /\ ft2 \in TableRec /\ ft2.vnode[i] = v /\ ft2.dup[i] = -1 /\ ft2.parent[i] = 0
    /\ \A j \in FtSlot : /\ ft2.isdup[j] = ft.isdup[j]
                         /\ j # i => /\ ft2.vnode[j] = ft.vnode[j] /\ ft2.dup[j] = ft.dup[j]
                                     /\ ft2.parent[j] = ft.parent[j]

LEMMA OpeningRings ==
    ASSUME NEW ft, NEW i, NEW v, NEW ft2, Opening(ft, i, v, ft2)
    PROVE  Rings(ft2)
<1>1. /\ Rings(ft) /\ i \in FtSlot /\ i # 0 /\ ft.vnode[i] = NULL /\ ~ft.isdup[i]
      /\ ft2 \in TableRec /\ ft2.vnode[i] = v /\ ft2.dup[i] = -1 /\ ft2.parent[i] = 0
      /\ \A j \in FtSlot : /\ ft2.isdup[j] = ft.isdup[j]
                           /\ j # i => /\ ft2.vnode[j] = ft.vnode[j] /\ ft2.dup[j] = ft.dup[j]
                                       /\ ft2.parent[j] = ft.parent[j]
  BY DEF Opening
<1>2. /\ 0 \in FtSlot /\ ft.vnode[0] = NULL /\ ft.parent \in [FtSlot -> FtSlot]
      /\ \A j \in FtSlot : ~ft.isdup[j] => ft.parent[j] = 0
      /\ \A j \in FtSlot : ft.isdup[j] => /\ Orig(ft, ft.parent[j])
                                          /\ ft.vnode[j] = ft.vnode[ft.parent[j]]
      /\ \A j, k \in FtSlot : ft.parent[j] = k /\ k # 0 => ft.isdup[j] /\ Orig(ft, k)
      /\ \A j : Orig(ft, j) => j \in FtSlot /\ j # 0 /\ ft.parent[j] = 0
  BY <1>1, TableFacts
<1>3. \A j \in FtSlot : ft2.parent[j] = ft.parent[j] /\ ft.parent[j] # i
  BY <1>1, <1>2 DEF Orig
<1>4. \A j : Orig(ft, j) => j # i /\ Orig(ft2, j) /\ ft2.vnode[j] = ft.vnode[j]
  BY <1>1 DEF Orig
<1>5. \A j : Orig(ft2, j) /\ j # i => Orig(ft, j)
  BY <1>1 DEF Orig
<1>6. \A j \in FtSlot : ft2.isdup[j] => /\ Orig(ft2, ft2.parent[j])
                                        /\ ft2.vnode[j] = ft2.vnode[ft2.parent[j]]
  BY <1>1, <1>2, <1>3, <1>4
<1>7. ASSUME NEW x \in FtSlot, Orig(ft2, x) PROVE \E n, q : Ring(ft2.dup, Members(ft2, x), x, q, n)
  <2>1. CASE x = i
    <3>1. Members(ft2, x) = {i}
      BY <1>3, <2>1 DEF Members
    <3>2. PICK q : q = [k \in {0} |-> i]
      OBVIOUS
    <3>3. 0..(1 - 1) = {0} /\ 1 - 1 = 0
      OBVIOUS
    <3>4. q \in [{0} -> {i}] /\ q[0] = i /\ {q[k] : k \in {0}} = {i}
      BY <3>2
    <3>5. Ring(ft2.dup, {i}, i, q, 1)
      BY <1>1, <3>3, <3>4 DEF Ring
    <3> QED BY <2>1, <3>1, <3>5
  <2>2. CASE x # i
    <3>1. Orig(ft, x)
      BY <1>5, <1>7, <2>2
    <3>2. Members(ft2, x) = Members(ft, x)
      BY <1>3 DEF Members
    <3>3. i \notin Members(ft, x) /\ Members(ft, x) \subseteq FtSlot
      BY <1>1, <1>2, <2>2, <3>1 DEF Members
    <3>4. \A y \in Members(ft, x) : ft2.dup[y] = ft.dup[y]
      BY <1>1, <3>3
    <3> QED BY <1>1, <3>1, <3>2, <3>4, AloneRing DEF LeftAlone
  <2> QED BY <2>1, <2>2
<1>8. ft2.vnode[0] = NULL /\ \A j \in FtSlot : ~ft2.isdup[j] => ft2.parent[j] = 0
  BY <1>1, <1>2, <1>3
<1> QED BY <1>1, <1>6, <1>7, <1>8 DEF Rings

\* close takes an original, and its duplicates with it.
ClosingOriginal(ft, fd, ft2) ==
    /\ Rings(ft) /\ Orig(ft, fd) /\ ft2 \in TableRec
    /\ \A j \in FtSlot :
          IF j = fd \/ ft.parent[j] = fd
          THEN ft2.vnode[j] = NULL /\ ~ft2.isdup[j] /\ ft2.parent[j] = 0
          ELSE /\ ft2.vnode[j] = ft.vnode[j] /\ ft2.isdup[j] = ft.isdup[j]
               /\ ft2.parent[j] = ft.parent[j] /\ ft2.dup[j] = ft.dup[j]
    /\ \A j \in FtSlot : j # fd => ft2.dup[j] = ft.dup[j]

LEMMA ClosingRings ==
    ASSUME NEW ft, NEW fd, NEW ft2, ClosingOriginal(ft, fd, ft2)
    PROVE  Rings(ft2)
<1>1. /\ Rings(ft) /\ Orig(ft, fd) /\ ft2 \in TableRec
      /\ \A j \in FtSlot :
            IF j = fd \/ ft.parent[j] = fd
            THEN ft2.vnode[j] = NULL /\ ~ft2.isdup[j] /\ ft2.parent[j] = 0
            ELSE /\ ft2.vnode[j] = ft.vnode[j] /\ ft2.isdup[j] = ft.isdup[j]
                 /\ ft2.parent[j] = ft.parent[j] /\ ft2.dup[j] = ft.dup[j]
  BY DEF ClosingOriginal
<1>2. /\ 0 \in FtSlot /\ ft.vnode[0] = NULL /\ ft.parent \in [FtSlot -> FtSlot]
      /\ \A j \in FtSlot : ~ft.isdup[j] => ft.parent[j] = 0
      /\ \A j \in FtSlot : ft.isdup[j] => /\ Orig(ft, ft.parent[j])
                                          /\ ft.vnode[j] = ft.vnode[ft.parent[j]]
      /\ \A j, k \in FtSlot : ft.parent[j] = k /\ k # 0 => ft.isdup[j] /\ Orig(ft, k)
      /\ \A j : Orig(ft, j) => j \in FtSlot /\ j # 0 /\ ft.parent[j] = 0
  BY <1>1, TableFacts
<1>3. \A j : Orig(ft2, j) => Orig(ft, j) /\ j # fd
  BY <1>1 DEF Orig
<1>4. \A j : Orig(ft, j) /\ j # fd => Orig(ft2, j) /\ ft2.vnode[j] = ft.vnode[j]
  BY <1>1, <1>2 DEF Orig
<1>5. ASSUME NEW j \in FtSlot, ft2.isdup[j]
      PROVE  Orig(ft2, ft2.parent[j]) /\ ft2.vnode[j] = ft2.vnode[ft2.parent[j]]
  <2>1. /\ j # fd /\ ft.parent[j] # fd /\ ft.isdup[j] /\ ft2.vnode[j] = ft.vnode[j]
        /\ ft2.parent[j] = ft.parent[j]
    BY <1>1, <1>5
  <2>2. Orig(ft, ft.parent[j]) /\ ft.vnode[j] = ft.vnode[ft.parent[j]]
    BY <1>2, <2>1
  <2> QED BY <1>4, <2>1, <2>2
<1>6. ASSUME NEW x \in FtSlot, Orig(ft2, x) PROVE \E n, q : Ring(ft2.dup, Members(ft2, x), x, q, n)
  <2>1. Orig(ft, x) /\ x # fd /\ x # 0
    BY <1>2, <1>3, <1>6
  <2>2. \A j \in FtSlot : ft2.parent[j] = x <=> ft.parent[j] = x
    BY <1>1, <1>2, <2>1
  <2>3. Members(ft2, x) = Members(ft, x)
    BY <2>2 DEF Members
  <2>4. fd \notin Members(ft, x) /\ Members(ft, x) \subseteq FtSlot
    BY <1>1, <1>2, <2>1 DEF Members
  <2>5. \A y \in Members(ft, x) : ft2.dup[y] = ft.dup[y]
    BY <2>4 DEF ClosingOriginal
  <2> QED BY <1>1, <2>1, <2>3, <2>5, AloneRing DEF LeftAlone
<1>7. ft2.vnode[0] = NULL /\ \A j \in FtSlot : ~ft2.isdup[j] => ft2.parent[j] = 0
  BY <1>1, <1>2
<1> QED BY <1>1, <1>5, <1>6, <1>7 DEF Rings

\* dup2 puts a free descriptor into the ring of an original.
Linking(ft, old, new, last, ft2) ==
    /\ Rings(ft) /\ Orig(ft, old) /\ last = LastDup(ft, old)
    /\ new \in FtSlot /\ new # 0 /\ ft.vnode[new] = NULL /\ ft2 \in TableRec
    /\ ft2.vnode[new] = ft.vnode[last] /\ ft2.isdup[new] /\ ft2.parent[new] = old
    /\ ft2.dup[new] = old /\ ft2.dup[last] = new
    /\ \A j \in FtSlot : j # new => /\ ft2.vnode[j] = ft.vnode[j] /\ ft2.isdup[j] = ft.isdup[j]
                                    /\ ft2.parent[j] = ft.parent[j]
                                    /\ j # last => ft2.dup[j] = ft.dup[j]

LEMMA LinkingRings ==
    ASSUME NEW ft, NEW old, NEW new, NEW last, NEW ft2, Linking(ft, old, new, last, ft2)
    PROVE  Rings(ft2) /\ last \in Members(ft, old)
<1>1. /\ Rings(ft) /\ Orig(ft, old) /\ last = LastDup(ft, old)
      /\ new \in FtSlot /\ new # 0 /\ ft.vnode[new] = NULL /\ ft2 \in TableRec
      /\ ft2.vnode[new] = ft.vnode[last] /\ ft2.isdup[new] /\ ft2.parent[new] = old
      /\ ft2.dup[new] = old /\ ft2.dup[last] = new
      /\ \A j \in FtSlot : j # new => /\ ft2.vnode[j] = ft.vnode[j] /\ ft2.isdup[j] = ft.isdup[j]
                                      /\ ft2.parent[j] = ft.parent[j]
                                      /\ j # last => ft2.dup[j] = ft.dup[j]
  BY DEF Linking
<1>2. /\ 0 \in FtSlot /\ ft.vnode[0] = NULL /\ ft.parent \in [FtSlot -> FtSlot]
      /\ \A j \in FtSlot : ~ft.isdup[j] => ft.parent[j] = 0
      /\ \A j \in FtSlot : ft.isdup[j] => /\ Orig(ft, ft.parent[j])
                                          /\ ft.vnode[j] = ft.vnode[ft.parent[j]]
      /\ \A j \in FtSlot : ft.isdup[j] => ft.vnode[j] # NULL
      /\ \A j, k \in FtSlot : ft.parent[j] = k /\ k # 0 => ft.isdup[j] /\ Orig(ft, k)
      /\ \A j : Orig(ft, j) => j \in FtSlot /\ j # 0 /\ ft.parent[j] = 0
  BY <1>1, TableFacts
<1>3. old \in FtSlot /\ old # 0 /\ old # new /\ ft.parent[new] = 0 /\ ~ft.isdup[new]
  BY <1>1, <1>2 DEF Orig
<1>4. PICK S : S = Members(ft, old)
  OBVIOUS
<1>5. PICK n, q : Ring(ft.dup, S, old, q, n)
  BY <1>1, <1>4 DEF Rings, Orig
<1>6. last = q[n - 1] /\ last \in S
  <2>1. RingIn(ft, S, old, q, n)
    BY <1>5 DEF RingIn
  <2>2. LastDup(ft, old) = q[n - 1]
    BY <2>1, RingWalk
  <2>3. n - 1 \in 0..(n - 1) /\ q \in [0..(n - 1) -> S]
    BY <1>5 DEF Ring
  <2> QED BY <1>1, <2>2, <2>3
<1>7. S \subseteq FtSlot /\ new \notin S
  BY <1>2, <1>3, <1>4 DEF Members
<1>8. ft.vnode[last] = ft.vnode[old] /\ ft.vnode[old] # NULL /\ last # new /\ last \in FtSlot
  <2>1. CASE last = old
    BY <1>1, <1>3, <2>1 DEF Orig
  <2>2. CASE last # old
    <3>1. last \in FtSlot /\ ft.parent[last] = old
      BY <1>4, <1>6, <2>2 DEF Members
    <3>2. ft.isdup[last]
      BY <1>2, <1>3, <3>1
    <3> QED BY <1>1, <1>2, <1>6, <1>7, <3>1, <3>2 DEF Orig
  <2> QED BY <2>1, <2>2
<1>9. \A j : Orig(ft, j) => Orig(ft2, j) /\ j # new /\ ft2.vnode[j] = ft.vnode[j]
  BY <1>1 DEF Orig
<1>10. \A j : Orig(ft2, j) => Orig(ft, j)
  BY <1>1 DEF Orig
<1>11. ASSUME NEW j \in FtSlot, ft2.isdup[j]
       PROVE  Orig(ft2, ft2.parent[j]) /\ ft2.vnode[j] = ft2.vnode[ft2.parent[j]]
  <2>1. CASE j = new
    BY <1>1, <1>3, <1>8, <1>9, <2>1
  <2>2. CASE j # new
    <3>1. ft.isdup[j] /\ ft2.vnode[j] = ft.vnode[j] /\ ft2.parent[j] = ft.parent[j]
      BY <1>1, <1>11, <2>2
    <3>2. Orig(ft, ft.parent[j]) /\ ft.vnode[j] = ft.vnode[ft.parent[j]]
      BY <1>2, <3>1
    <3> QED BY <1>9, <3>1, <3>2
  <2> QED BY <2>1, <2>2
<1>12. ASSUME NEW x \in FtSlot, Orig(ft2, x)
       PROVE  \E m, p : Ring(ft2.dup, Members(ft2, x), x, p, m)
  <2>1. Orig(ft, x) /\ x # new /\ x # 0
    BY <1>2, <1>9, <1>10, <1>12
  <2>2. CASE x = old
    <3>1. Members(ft2, x) = S \cup {new}
      <4>1. \A j \in FtSlot : ft2.parent[j] = x <=> ft.parent[j] = x \/ j = new
        BY <1>1, <2>2
      <4> QED BY <1>1, <1>4, <2>2, <4>1 DEF Members
    <3>2. PICK e : e = ft2.dup
      OBVIOUS
    <3>3. PICK d : d = ft.dup
      OBVIOUS
    <3>4. \A y \in S : y # q[n - 1] => e[y] = d[y]
      BY <1>1, <1>6, <1>7, <3>2, <3>3
    <3>5. e[new] = old /\ e[q[n - 1]] = new /\ new \in FtSlot \ {0}
      BY <1>1, <1>6, <3>2
    <3>6. Ring(d, S, old, q, n)
      BY <1>5, <3>3
    <3>7. \E p : Ring(e, S \cup {new}, old, p, n + 1)
      BY <1>7, <3>4, <3>5, <3>6, RingGrows
    <3> QED BY <2>2, <3>1, <3>2, <3>7
  <2>3. CASE x # old
    <3>1. \A j \in FtSlot : ft2.parent[j] = x <=> ft.parent[j] = x
      BY <1>1, <1>3, <2>1, <2>3
    <3>2. Members(ft2, x) = Members(ft, x)
      BY <3>1 DEF Members
    <3>3. Members(ft, x) \subseteq FtSlot /\ new \notin Members(ft, x)
      BY <1>3, <2>1 DEF Members
    <3>4. last \notin Members(ft, x)
      <4>1. last = old \/ ft.parent[last] = old
        BY <1>4, <1>6 DEF Members
      <4> QED BY <1>1, <1>2, <1>3, <2>1, <2>3, <4>1 DEF Members
    <3>5. \A y \in Members(ft, x) : ft2.dup[y] = ft.dup[y]
      BY <1>1, <3>3, <3>4
    <3> QED BY <1>1, <2>1, <3>2, <3>5, AloneRing DEF LeftAlone
  <2> QED BY <2>2, <2>3
<1>13. ft2.vnode[0] = NULL /\ \A j \in FtSlot : ~ft2.isdup[j] => ft2.parent[j] = 0
  BY <1>1, <1>2
<1> QED BY <1>1, <1>4, <1>6, <1>11, <1>12, <1>13 DEF Rings

\* The opens that are counted, under the same changes.
Counting(ft, times, ft2, opens2, x) ==
    /\ OpensCounted(ft, times) /\ opens2 \in [OpenFile -> Int]
    /\ \A v \in OpenFile : /\ OpenedAs(ft2, v) \ {x} = OpenedAs(ft, v) \ {x}
                           /\ opens2[v] = times[v] + Ind(x \in OpenedAs(ft2, v))
                                          - Ind(x \in OpenedAs(ft, v))

LEMMA CountingOpens ==
    ASSUME NEW ft, NEW times, NEW ft2, NEW opens2, NEW x, Counting(ft, times, ft2, opens2, x)
    PROVE  OpensCounted(ft2, opens2)
<1>1. IsFiniteSet(FtSlot)
  <2>1. 0 \in Int /\ FILETABLESIZE - 1 \in Int
    BY FileTableSizes
  <2> QED BY <2>1, FS_Interval DEF FtSlot
<1>2. ASSUME NEW v \in OpenFile
      PROVE  opens2[v] = Cardinality(OpenedAs(ft2, v)) /\ opens2[v] \in Nat
  <2>1. PICK A : A = OpenedAs(ft, v)
    OBVIOUS
  <2>2. PICK B : B = OpenedAs(ft2, v)
    OBVIOUS
  <2>3. IsFiniteSet(A)
    BY <1>1, <2>1, FS_Subset DEF OpenedAs
  <2>4. B \ {x} = A \ {x}
    BY <2>1, <2>2 DEF Counting
  <2>5. /\ Cardinality(A) \in Nat /\ Cardinality(B) \in Nat
        /\ Cardinality(B) = Cardinality(A) + Ind(x \in B) - Ind(x \in A)
    BY <2>3, <2>4, SetStep
  <2>6. times[v] = Cardinality(A) /\ opens2[v] = times[v] + Ind(x \in B) - Ind(x \in A)
    BY <2>1, <2>2 DEF Counting, OpensCounted
  <2> QED BY <2>2, <2>5, <2>6
<1>3. opens2 \in [OpenFile -> Nat]
  <2>1. opens2 \in [OpenFile -> Int]
    BY DEF Counting
  <2> QED BY <1>2, <2>1
<1> QED BY <1>2, <1>3 DEF OpensCounted

LEMMA OpeningCounts ==
    ASSUME NEW ft, NEW i, NEW v, NEW ft2, Opening(ft, i, v, ft2), NEW times,
           OpensCounted(ft, times), NEW opens2,
           opens2 = IF v \in OpenFile THEN [times EXCEPT ![v] = @ + 1] ELSE times
    PROVE  OpensCounted(ft2, opens2)
<1>1. /\ i \in FtSlot /\ ft.vnode[i] = NULL /\ ~ft.isdup[i] /\ ft2.vnode[i] = v /\ ~ft2.isdup[i]
      /\ \A j \in FtSlot : j # i => ft2.vnode[j] = ft.vnode[j] /\ ft2.isdup[j] = ft.isdup[j]
  BY DEF Opening
<1>2. times \in [OpenFile -> Nat] /\ NULL \notin OpenFile
  BY OpenFileAssumption DEF OpensCounted
<1>3. opens2 \in [OpenFile -> Int] /\ \A w \in OpenFile : opens2[w] = times[w] + Ind(w = v)
  <2>1. CASE v \in OpenFile
    BY <1>2, <2>1 DEF Ind
  <2>2. CASE v \notin OpenFile
    BY <1>2, <2>2 DEF Ind
  <2> QED BY <2>1, <2>2
<1>4. ASSUME NEW w \in OpenFile
      PROVE  /\ OpenedAs(ft2, w) \ {i} = OpenedAs(ft, w) \ {i}
             /\ i \in OpenedAs(ft2, w) <=> w = v
             /\ i \notin OpenedAs(ft, w)
  BY <1>1, <1>2 DEF OpenedAs
<1>5. ASSUME NEW w \in OpenFile
      PROVE  opens2[w] = times[w] + Ind(i \in OpenedAs(ft2, w)) - Ind(i \in OpenedAs(ft, w))
  BY <1>2, <1>3, <1>4 DEF Ind
<1>6. Counting(ft, times, ft2, opens2, i)
  BY <1>3, <1>4, <1>5 DEF Counting
<1> QED BY <1>6, CountingOpens

LEMMA ClosingCounts ==
    ASSUME NEW ft, NEW fd, NEW ft2, ClosingOriginal(ft, fd, ft2), NEW times, OpensCounted(ft, times),
           NEW opens2, opens2 = [times EXCEPT ![ft.vnode[fd]] = @ - 1]
    PROVE  OpensCounted(ft2, opens2)
<1>1. /\ Rings(ft) /\ fd \in FtSlot /\ ~ft.isdup[fd]
      /\ \A j \in FtSlot :
            IF j = fd \/ ft.parent[j] = fd
            THEN ft2.vnode[j] = NULL
            ELSE ft2.vnode[j] = ft.vnode[j] /\ ft2.isdup[j] = ft.isdup[j]
  BY DEF ClosingOriginal, Orig
<1>2. times \in [OpenFile -> Nat] /\ NULL \notin OpenFile
  BY OpenFileAssumption DEF OpensCounted
<1>3. opens2 \in [OpenFile -> Int]
      /\ \A w \in OpenFile : opens2[w] = times[w] - Ind(w = ft.vnode[fd])
  <2>1. CASE ft.vnode[fd] \in OpenFile
    BY <1>2, <2>1 DEF Ind
  <2>2. CASE ft.vnode[fd] \notin OpenFile
    <3>1. opens2 = times
      BY <1>2, <2>2
    <3>2. \A w \in OpenFile : Ind(w = ft.vnode[fd]) = 0
      BY <2>2 DEF Ind
    <3>3. \A w \in OpenFile : times[w] \in Nat /\ times[w] - 0 = times[w]
      BY <1>2
    <3>4. \A w \in OpenFile : opens2[w] = times[w] - Ind(w = ft.vnode[fd])
      BY <3>1, <3>2, <3>3
    <3>5. opens2 \in [OpenFile -> Int]
      <4>1. \A g \in [OpenFile -> Nat] : g \in [OpenFile -> Int]
        OBVIOUS
      <4>2. times \in [OpenFile -> Int]
        BY <1>2, <4>1
      <4> QED BY <3>1, <4>2
    <3> QED BY <3>4, <3>5
  <2> QED BY <2>1, <2>2
<1>4. \A j \in FtSlot : ft.parent[j] = fd => ft.isdup[j]
  <2>1. fd # 0
    BY <1>1, TableFacts DEF ClosingOriginal
  <2> QED BY <1>1, <2>1, TableFacts
<1>5. ASSUME NEW w \in OpenFile
      PROVE  /\ OpenedAs(ft2, w) \ {fd} = OpenedAs(ft, w) \ {fd}
             /\ fd \notin OpenedAs(ft2, w)
             /\ fd \in OpenedAs(ft, w) <=> w = ft.vnode[fd]
  <2>1. \A j \in FtSlot : j # fd =>
           (ft2.vnode[j] = w /\ ~ft2.isdup[j] <=> ft.vnode[j] = w /\ ~ft.isdup[j])
    BY <1>1, <1>2, <1>4
  <2> QED BY <1>1, <1>2, <2>1 DEF OpenedAs
<1>6. ASSUME NEW w \in OpenFile
      PROVE  opens2[w] = times[w] + Ind(fd \in OpenedAs(ft2, w)) - Ind(fd \in OpenedAs(ft, w))
  BY <1>2, <1>3, <1>5 DEF Ind
<1>7. Counting(ft, times, ft2, opens2, fd)
  BY <1>3, <1>5, <1>6 DEF Counting
<1> QED BY <1>7, CountingOpens

\* A change of the table that leaves the originals and their vnodes alone.
LEMMA SameCounts ==
    ASSUME NEW ft, NEW ft2, NEW times, OpensCounted(ft, times),
           \A j \in FtSlot, v \in OpenFile :
              ft2.vnode[j] = v /\ ~ft2.isdup[j] <=> ft.vnode[j] = v /\ ~ft.isdup[j]
    PROVE  OpensCounted(ft2, times)
<1>1. \A v \in OpenFile : OpenedAs(ft2, v) = OpenedAs(ft, v)
  BY DEF OpenedAs
<1> QED BY <1>1 DEF OpensCounted

\* Offsets are no part of it.
LEMMA OffsetsOnly ==
    ASSUME NEW ft, NEW ft2, Rings(ft), ft2 \in TableRec, ft2.vnode = ft.vnode, ft2.dup = ft.dup,
           ft2.isdup = ft.isdup, ft2.parent = ft.parent, NEW times, OpensCounted(ft, times)
    PROVE  Rings(ft2) /\ OpensCounted(ft2, times)
<1>1. \A x : (Orig(ft2, x) <=> Orig(ft, x)) /\ Members(ft2, x) = Members(ft, x)
  BY DEF Orig, Members
<1>2. Rings(ft2)
  BY <1>1 DEF Rings
<1>3. OpensCounted(ft2, times)
  BY SameCounts
<1> QED BY <1>2, <1>3

----------------------------------------------------------------------------
(* FileTable: the steps *)

TableOK == Rings(filetable) /\ OpensCounted(filetable, ft_open)

LEMMA TableInit ==
    ASSUME FileTableInit PROVE TableInv
<1>1. PICK ft : ft = filetable
  OBVIOUS
<1>2. ft = [vnode  |-> [i \in FtSlot |-> IF i \in {1, 2} THEN "con" ELSE NULL],
            offset |-> [i \in FtSlot |-> 0],     dup    |-> [i \in FtSlot |-> 0],
            isdup  |-> [i \in FtSlot |-> FALSE], parent |-> [i \in FtSlot |-> 0]]
  BY <1>1 DEF FileTableInit
<1>3. 0 \in FtSlot
  BY FileTableSizes DEF FtSlot
<1>4. /\ ft.vnode \in [FtSlot -> TableValue] /\ ft.offset \in [FtSlot -> Int]
      /\ ft.dup \in [FtSlot -> Int] /\ ft.isdup \in [FtSlot -> BOOLEAN]
      /\ ft.parent \in [FtSlot -> FtSlot]
  BY <1>2, <1>3 DEF TableValue
<1>5. ft \in TableRec
  BY <1>2, <1>4 DEF TableRec
<1>6. \A i \in FtSlot : /\ ft.vnode[i] = IF i \in {1, 2} THEN "con" ELSE NULL
                        /\ ft.dup[i] = 0 /\ ~ft.isdup[i] /\ ft.parent[i] = 0
  BY <1>2
<1>7. ASSUME NEW x \in FtSlot, Orig(ft, x) PROVE \E n, q : Ring(ft.dup, Members(ft, x), x, q, n)
  <2>1. x # 0
    BY <1>6, <1>7 DEF Orig
  <2>2. Members(ft, x) = {x}
    BY <1>6, <2>1 DEF Members
  <2>3. PICK q : q = [k \in {0} |-> x]
    OBVIOUS
  <2>4. 0..(1 - 1) = {0} /\ 1 - 1 = 0
    OBVIOUS
  <2>5. q \in [{0} -> {x}] /\ q[0] = x /\ {q[k] : k \in {0}} = {x}
    BY <2>3
  <2>6. Ring(ft.dup, {x}, x, q, 1)
    BY <1>6, <2>1, <2>4, <2>5 DEF Ring
  <2> QED BY <2>2, <2>6
<1>8. ft.vnode[0] = NULL
  BY <1>3, <1>6
<1>9. Rings(ft)
  BY <1>5, <1>6, <1>7, <1>8 DEF Rings
<1>10. OpensCounted(ft, ft_open)
  <2>1. ft_open = [v \in OpenFile |-> 0]
    BY DEF FileTableInit
  <2>2. \A v \in OpenFile : v # "con" /\ v # NULL
    BY OpenFileAssumption
  <2>3. \A v \in OpenFile : OpenedAs(ft, v) = {}
    BY <1>6, <2>2 DEF OpenedAs
  <2>4. \A v \in OpenFile : Cardinality(OpenedAs(ft, v)) = 0
    BY <2>3, FS_EmptySet
  <2> QED BY <2>1, <2>4 DEF OpensCounted
<1> QED BY <1>1, <1>9, <1>10 DEF TableInv, FileTableInit

LEMMA OpenStep ==
    ASSUME TableOK, open PROVE TableOK'
<1>1. PICK free : free = {k \in FtSlot : k >= 3 /\ filetable.vnode[k] = NULL /\ ~filetable.isdup[k]}
  OBVIOUS
<1>2. PICK i : i = CHOOSE k \in free : \A l \in free : k <= l
  OBVIOUS
<1>3. \/ UNCHANGED <<filetable, ft_open>>
      \/ /\ free # {}
         /\ \E v \in OpenFile \cup {"garbage"} :
               /\ filetable' = [filetable EXCEPT !.vnode[i] = v, !.offset[i] = 0,
                                                 !.dup[i] = -1, !.parent[i] = 0]
               /\ ft_open' = IF v \in OpenFile THEN [ft_open EXCEPT ![v] = @ + 1] ELSE ft_open
  <2>1. "garbage" \notin OpenFile
    BY OpenFileAssumption
  <2> QED BY <1>1, <1>2, <2>1 DEF open, Stop, table_vars
<1>4. CASE UNCHANGED <<filetable, ft_open>>
  BY <1>4 DEF TableOK
<1>5. ASSUME free # {}, NEW v \in OpenFile \cup {"garbage"},
             filetable' = [filetable EXCEPT !.vnode[i] = v, !.offset[i] = 0,
                                            !.dup[i] = -1, !.parent[i] = 0],
             ft_open' = IF v \in OpenFile THEN [ft_open EXCEPT ![v] = @ + 1] ELSE ft_open
      PROVE  TableOK'
  <2>1. PICK ft : ft = filetable
    OBVIOUS
  <2>2. PICK ft2 : ft2 = filetable'
    OBVIOUS
  <2>3. PICK o : o = ft_open
    OBVIOUS
  <2>4. PICK o2 : o2 = ft_open'
    OBVIOUS
  <2>5. Rings(ft) /\ OpensCounted(ft, o)
    BY <2>1, <2>3 DEF TableOK
  <2>6. i \in free
    <3>1. free \in SUBSET Nat
      BY <1>1, FileTableSizes DEF FtSlot
    <3>2. \E k \in free : \A l \in free : k <= l
      BY <1>5, <3>1, LeastNatural
    <3> QED BY <1>2, <3>2
  <2>7. i \in FtSlot /\ i # 0 /\ ft.vnode[i] = NULL /\ ~ft.isdup[i]
    BY <1>1, <2>1, <2>6
  <2>8. /\ ft \in TableRec /\ ft.vnode \in [FtSlot -> TableValue] /\ ft.dup \in [FtSlot -> Int]
        /\ ft.offset \in [FtSlot -> Int] /\ ft.isdup \in [FtSlot -> BOOLEAN]
        /\ ft.parent \in [FtSlot -> FtSlot] /\ 0 \in FtSlot
    BY <2>5, TableFacts
  <2>9. ft2 = [vnode |-> [ft.vnode EXCEPT ![i] = v], offset |-> [ft.offset EXCEPT ![i] = 0],
               dup |-> [ft.dup EXCEPT ![i] = -1], isdup |-> ft.isdup,
               parent |-> [ft.parent EXCEPT ![i] = 0]]
    BY <1>5, <2>1, <2>2, <2>8 DEF TableRec
  <2>10. /\ ft2.vnode \in [FtSlot -> TableValue] /\ ft2.offset \in [FtSlot -> Int]
         /\ ft2.dup \in [FtSlot -> Int] /\ ft2.isdup \in [FtSlot -> BOOLEAN]
         /\ ft2.parent \in [FtSlot -> FtSlot]
    <3>1. v \in TableValue /\ -1 \in Int /\ 0 \in Int
      BY DEF TableValue
    <3> QED BY <2>8, <2>9, <3>1
  <2>11. ft2 \in TableRec
    BY <2>9, <2>10 DEF TableRec
  <2>12. Opening(ft, i, v, ft2)
    BY <2>5, <2>7, <2>8, <2>9, <2>11 DEF Opening
  <2>13. Rings(ft2)
    BY <2>12, OpeningRings
  <2>14. o2 = IF v \in OpenFile THEN [o EXCEPT ![v] = @ + 1] ELSE o
    BY <1>5, <2>3, <2>4
  <2>15. OpensCounted(ft2, o2)
    BY <2>5, <2>12, <2>14, OpeningCounts
  <2> QED BY <2>2, <2>4, <2>13, <2>15 DEF TableOK
<1> QED BY <1>3, <1>4, <1>5

\* The table after a close.
LEMMA ClosedTable ==
    ASSUME Rings(filetable), NEW fd \in FtSlot, ~Refused(fd)
    PROVE  ClosingOriginal(filetable, fd, Closed(fd))
<1>1. PICK ft : ft = filetable
  OBVIOUS
<1>2. PICK ft2 : ft2 = Closed(fd)
  OBVIOUS
<1>3. PICK gone : gone = {j \in FtSlot : ft.parent[j] = fd}
  OBVIOUS
<1>4. /\ ft \in TableRec /\ ft.vnode \in [FtSlot -> TableValue] /\ ft.dup \in [FtSlot -> Int]
      /\ ft.offset \in [FtSlot -> Int] /\ ft.isdup \in [FtSlot -> BOOLEAN]
      /\ ft.parent \in [FtSlot -> FtSlot] /\ 0 \in FtSlot
      /\ \A i \in FtSlot : ~ft.isdup[i] => ft.parent[i] = 0
  BY <1>1, TableFacts
<1>5. Orig(ft, fd) /\ fd # 0 /\ ft.parent[fd] = 0 /\ ~ft.isdup[fd]
  BY <1>1, <1>4 DEF Refused, Orig
<1>6. ft2 = [vnode  |-> [i \in FtSlot |-> IF i \in gone \cup {fd} THEN NULL ELSE ft.vnode[i]],
             offset |-> [ft.offset EXCEPT ![fd] = -1],
             dup    |-> [ft.dup EXCEPT ![fd] = -1],
             isdup  |-> [i \in FtSlot |-> i \notin gone /\ ft.isdup[i]],
             parent |-> [i \in FtSlot |-> IF i \in gone THEN 0 ELSE ft.parent[i]]]
  BY <1>1, <1>2, <1>3 DEF Closed, DupsOf
<1>7. /\ ft2.vnode \in [FtSlot -> TableValue] /\ ft2.offset \in [FtSlot -> Int]
      /\ ft2.dup \in [FtSlot -> Int] /\ ft2.isdup \in [FtSlot -> BOOLEAN]
      /\ ft2.parent \in [FtSlot -> FtSlot]
  <2>1. NULL \in TableValue /\ -1 \in Int
    BY DEF TableValue
  <2> QED BY <1>4, <1>6, <2>1
<1>8. ft2 \in TableRec
  BY <1>6, <1>7 DEF TableRec
<1>9. \A j \in FtSlot : j \in gone <=> ft.parent[j] = fd
  BY <1>3
<1>10. \A j \in FtSlot : /\ ft2.vnode[j] = IF j \in gone \cup {fd} THEN NULL ELSE ft.vnode[j]
                         /\ ft2.dup[j] = IF j = fd THEN -1 ELSE ft.dup[j]
                         /\ ft2.isdup[j] = (j \notin gone /\ ft.isdup[j])
                         /\ ft2.parent[j] = IF j \in gone THEN 0 ELSE ft.parent[j]
  BY <1>4, <1>6
<1>11. ClosingOriginal(ft, fd, ft2)
  BY <1>1, <1>4, <1>5, <1>8, <1>9, <1>10 DEF ClosingOriginal
<1> QED BY <1>1, <1>2, <1>11

LEMMA CloseStep ==
    ASSUME TableOK, NEW fd \in FtSlot, close(fd) PROVE TableOK'
<1>1. CASE UNCHANGED <<filetable, ft_open>>
  BY <1>1 DEF TableOK
<1>2. CASE filetable' = Closed(fd) /\ vfs_closed(fd)
  <2>1. PICK ft : ft = filetable
    OBVIOUS
  <2>2. PICK ft2 : ft2 = Closed(fd)
    OBVIOUS
  <2>3. PICK o : o = ft_open
    OBVIOUS
  <2>4. PICK o2 : o2 = ft_open'
    OBVIOUS
  <2>5. Rings(ft) /\ OpensCounted(ft, o)
    BY <2>1, <2>3 DEF TableOK
  <2>6. ClosingOriginal(ft, fd, ft2)
    BY <2>1, <2>2, <2>5, ClosedTable DEF close
  <2>7. o2 = [o EXCEPT ![ft.vnode[fd]] = @ - 1]
    BY <1>2, <2>1, <2>3, <2>4 DEF vfs_closed
  <2>8. Rings(ft2) /\ OpensCounted(ft2, o2)
    BY <2>5, <2>6, <2>7, ClosingRings, ClosingCounts
  <2> QED BY <1>2, <2>2, <2>4, <2>8 DEF TableOK
<1> QED BY <1>1, <1>2 DEF close, Stop

LEMMA TransferStep ==
    ASSUME TableOK, NEW fd \in FtSlot, transfer(fd) \/ lseek(fd) PROVE TableOK'
<1>1. PICK ft : ft = filetable
  OBVIOUS
<1>2. PICK o : o = ft_open
  OBVIOUS
<1>3. Rings(ft) /\ OpensCounted(ft, o)
  BY <1>1, <1>2 DEF TableOK
<1>4. /\ ft \in TableRec /\ ft.vnode \in [FtSlot -> TableValue] /\ ft.dup \in [FtSlot -> Int]
      /\ ft.offset \in [FtSlot -> Int] /\ ft.isdup \in [FtSlot -> BOOLEAN]
      /\ ft.parent \in [FtSlot -> FtSlot]
  BY <1>3, TableFacts
<1>5. CASE UNCHANGED <<filetable, ft_open>>
  BY <1>5 DEF TableOK
<1>6. ASSUME NEW offs \in [FtSlot -> Int], filetable' = [filetable EXCEPT !.offset = offs],
             ft_open' = ft_open
      PROVE  TableOK'
  <2>1. PICK ft2 : ft2 = filetable'
    OBVIOUS
  <2>2. ft2 = [vnode |-> ft.vnode, offset |-> offs, dup |-> ft.dup, isdup |-> ft.isdup,
               parent |-> ft.parent]
    BY <1>1, <1>4, <1>6, <2>1 DEF TableRec
  <2>3. /\ ft2 \in TableRec /\ ft2.vnode = ft.vnode /\ ft2.dup = ft.dup
        /\ ft2.isdup = ft.isdup /\ ft2.parent = ft.parent
    BY <1>4, <2>2 DEF TableRec
  <2>4. Rings(ft2) /\ OpensCounted(ft2, o)
    BY <1>3, <2>3, OffsetsOnly
  <2> QED BY <1>2, <1>6, <2>1, <2>4 DEF TableOK
<1>7. MaxOffset \in Nat
  BY FileTableSizes
<1>8. ASSUME NEW off \in (filetable.offset[fd] + 1)..MaxOffset,
             filetable' = [filetable EXCEPT !.offset = updateoffset(fd, off)], ft_open' = ft_open
      PROVE  TableOK'
  <2>1. off \in Int
    OBVIOUS
  <2>2. updateoffset(fd, off) \in [FtSlot -> Int]
    BY <1>1, <1>4, <2>1 DEF updateoffset
  <2> QED BY <1>6, <1>8, <2>2
<1>9. ASSUME NEW off \in 0..MaxOffset, filetable' = [filetable EXCEPT !.offset[fd] = off],
             ft_open' = ft_open
      PROVE  TableOK'
  <2>1. off \in Int
    OBVIOUS
  <2>2. [ft.offset EXCEPT ![fd] = off] \in [FtSlot -> Int]
    BY <1>4, <2>1
  <2>3. filetable' = [filetable EXCEPT !.offset = [ft.offset EXCEPT ![fd] = off]]
    BY <1>1, <1>9
  <2> QED BY <1>6, <1>9, <2>2, <2>3
<1> QED BY <1>5, <1>8, <1>9 DEF transfer, lseek, Stop

\* dup2 of an original, or of nothing.
LEMMA Dup2Step ==
    ASSUME TableOK, NEW oldfd \in FtSlot, NEW newfd \in FtSlot, dup2(oldfd, newfd), ~mixed'
    PROVE  TableOK'
<1>1. PICK used : used = (filetable.vnode[newfd] # NULL)
  OBVIOUS
<1>2. PICK ft : ft = IF used THEN Closed(newfd) ELSE filetable
  OBVIOUS
<1>3. PICK o : o = IF used THEN [ft_open EXCEPT ![filetable.vnode[newfd]] = @ - 1] ELSE ft_open
  OBVIOUS
<1>4. \/ UNCHANGED <<filetable, ft_open>>
      \/ /\ used => ~Refused(newfd)
         /\ filetable' = IF ft.vnode[oldfd] = NULL THEN ft ELSE Linked(ft, oldfd, newfd)
         /\ ft_open' = o
         /\ ~(ft.vnode[oldfd] # NULL /\ (ft.isdup[oldfd] \/ 0 \in {oldfd, newfd}))
  BY <1>1, <1>2, <1>3 DEF dup2, Stop, vfs_closed
<1>5. CASE UNCHANGED <<filetable, ft_open>>
  BY <1>5 DEF TableOK
<1>6. ASSUME used => ~Refused(newfd),
             filetable' = IF ft.vnode[oldfd] = NULL THEN ft ELSE Linked(ft, oldfd, newfd),
             ft_open' = o,
             ~(ft.vnode[oldfd] # NULL /\ (ft.isdup[oldfd] \/ 0 \in {oldfd, newfd}))
      PROVE  TableOK'
  <2>1. Rings(ft) /\ OpensCounted(ft, o) /\ ft.vnode[newfd] = NULL
    <3>1. PICK f0 : f0 = filetable
      OBVIOUS
    <3>2. PICK o0 : o0 = ft_open
      OBVIOUS
    <3>3. Rings(f0) /\ OpensCounted(f0, o0)
      BY <3>1, <3>2 DEF TableOK
    <3>4. CASE ~used
      BY <1>1, <1>2, <1>3, <3>1, <3>2, <3>3, <3>4
    <3>5. CASE used
      <4>1. ft = Closed(newfd)
        BY <1>2, <3>5
      <4>2. ClosingOriginal(f0, newfd, ft)
        BY <1>6, <3>1, <3>3, <3>5, <4>1, ClosedTable
      <4>3. o = [o0 EXCEPT ![f0.vnode[newfd]] = @ - 1]
        BY <1>3, <3>1, <3>2, <3>5
      <4>4. Rings(ft) /\ OpensCounted(ft, o)
        BY <3>3, <4>2, <4>3, ClosingRings, ClosingCounts
      <4>5. ft.vnode[newfd] = NULL
        BY <4>2 DEF ClosingOriginal
      <4> QED BY <4>4, <4>5
    <3> QED BY <1>1, <3>4, <3>5
  <2>2. CASE ft.vnode[oldfd] = NULL
    BY <1>6, <2>1, <2>2 DEF TableOK
  <2>3. CASE ft.vnode[oldfd] # NULL
    <3>1. Orig(ft, oldfd) /\ oldfd # 0 /\ newfd # 0 /\ oldfd # newfd
      BY <1>6, <2>1, <2>3 DEF Orig
    <3>2. PICK last : last = LastDup(ft, oldfd)
      OBVIOUS
    <3>3. PICK ft2 : ft2 = Linked(ft, oldfd, newfd)
      OBVIOUS
    <3>4. /\ ft \in TableRec /\ ft.vnode \in [FtSlot -> TableValue] /\ ft.dup \in [FtSlot -> Int]
          /\ ft.offset \in [FtSlot -> Int] /\ ft.isdup \in [FtSlot -> BOOLEAN]
          /\ ft.parent \in [FtSlot -> FtSlot]
          /\ \A i, j \in FtSlot : ft.parent[i] = j /\ j # 0 => ft.isdup[i] /\ Orig(ft, j)
      BY <2>1, TableFacts
    <3>5. last \in FtSlot /\ last # newfd
      <4>1. PICK S : S = Members(ft, oldfd)
        OBVIOUS
      <4>2. PICK n, q : Ring(ft.dup, S, oldfd, q, n)
        BY <2>1, <3>1, <4>1 DEF Rings
      <4>3. RingIn(ft, S, oldfd, q, n)
        BY <4>2 DEF RingIn
      <4>4. LastDup(ft, oldfd) = q[n - 1]
        BY <4>3, RingWalk
      <4>5. n - 1 \in 0..(n - 1) /\ q \in [0..(n - 1) -> S] /\ S \subseteq FtSlot
        BY <4>2 DEF Ring
      <4>6. last \in S /\ last \in FtSlot
        BY <3>2, <4>4, <4>5
      <4>7. last = oldfd \/ ft.isdup[last]
        BY <3>1, <3>4, <4>1, <4>6 DEF Members
      <4>8. ft.isdup[last] => ft.vnode[last] # NULL
        BY <2>1, <4>6, TableFacts
      <4> QED BY <2>1, <3>1, <4>6, <4>7, <4>8
    <3>6. ft2 = [ft EXCEPT !.vnode[newfd] = ft.vnode[last],
                           !.dup = [@ EXCEPT ![newfd] = oldfd, ![last] = newfd],
                           !.isdup[newfd] = TRUE, !.parent[newfd] = oldfd]
      BY <3>2, <3>3 DEF Linked
    <3>7. ft2 = [vnode |-> [ft.vnode EXCEPT ![newfd] = ft.vnode[last]], offset |-> ft.offset,
                 dup |-> [ft.dup EXCEPT ![newfd] = oldfd, ![last] = newfd],
                 isdup |-> [ft.isdup EXCEPT ![newfd] = TRUE],
                 parent |-> [ft.parent EXCEPT ![newfd] = oldfd]]
      BY <3>4, <3>6 DEF TableRec
    <3>8. /\ ft2.vnode \in [FtSlot -> TableValue] /\ ft2.offset \in [FtSlot -> Int]
          /\ ft2.dup \in [FtSlot -> Int] /\ ft2.isdup \in [FtSlot -> BOOLEAN]
          /\ ft2.parent \in [FtSlot -> FtSlot]
      <4>1. oldfd \in Int /\ newfd \in Int
        BY FileTableSizes DEF FtSlot
      <4> QED BY <3>4, <3>5, <3>7, <4>1
    <3>9. ft2 \in TableRec
      BY <3>7, <3>8 DEF TableRec
    <3>10. Linking(ft, oldfd, newfd, last, ft2)
      BY <2>1, <3>1, <3>2, <3>4, <3>5, <3>7, <3>9 DEF Linking
    <3>11. Rings(ft2)
      BY <3>10, LinkingRings
    <3>12. OpensCounted(ft2, o)
      <4>1. NULL \notin OpenFile
        BY OpenFileAssumption
      <4>2. \A j \in FtSlot, v \in OpenFile :
               ft2.vnode[j] = v /\ ~ft2.isdup[j] <=> ft.vnode[j] = v /\ ~ft.isdup[j]
        BY <2>1, <3>10, <4>1 DEF Linking
      <4> QED BY <2>1, <4>2, SameCounts
    <3>13. filetable' = ft2 /\ ft_open' = o
      BY <1>6, <2>3, <3>3
    <3> QED BY <3>11, <3>12, <3>13 DEF TableOK
  <2> QED BY <2>2, <2>3
<1> QED BY <1>4, <1>5, <1>6

LEMMA TableStep ==
    ASSUME TableInv, [FileTableNext]_table_vars PROVE TableInv'
<1>1. mixed \in BOOLEAN /\ (~mixed => TableOK) /\ Named \subseteq FtSlot
  BY NamedAssumption DEF TableInv, TableOK, FtSlot
<1>2. mixed' \in BOOLEAN /\ (mixed => mixed')
  BY <1>1 DEF FileTableNext, table_vars, open, dup2_beyond, close, write, read, lseek, transfer,
              dup2, Stop
<1>3. ASSUME ~mixed' PROVE TableOK'
  <2>1. TableOK
    BY <1>1, <1>2, <1>3
  <2>2. CASE UNCHANGED table_vars
    BY <2>1, <2>2 DEF TableOK, table_vars
  <2>3. CASE open
    BY <2>1, <2>3, OpenStep
  <2>4. CASE dup2_beyond
    BY <2>1, <2>4 DEF dup2_beyond, Stop, TableOK
  <2>5. ASSUME NEW fd \in Named, close(fd) PROVE TableOK'
    BY <1>1, <2>1, <2>5, CloseStep
  <2>6. ASSUME NEW fd \in Named, write(fd) \/ read(fd) \/ lseek(fd) PROVE TableOK'
    BY <1>1, <2>1, <2>6, TransferStep DEF write, read
  <2>7. ASSUME NEW oldfd \in Named, NEW newfd \in Named, dup2(oldfd, newfd) PROVE TableOK'
    BY <1>1, <1>3, <2>1, <2>7, Dup2Step
  <2> QED BY <2>2, <2>3, <2>4, <2>5, <2>6, <2>7 DEF FileTableNext
<1> QED BY <1>2, <1>3 DEF TableInv, TableOK

\* What the rings of a table mean.
LEMMA RingsShow ==
    ASSUME TableOK PROVE RingsOK
<1>1. PICK ft : ft = filetable
  OBVIOUS
<1>2. PICK o : o = ft_open
  OBVIOUS
<1>3. Rings(ft) /\ OpensCounted(ft, o)
  BY <1>1, <1>2 DEF TableOK
<1>4. /\ \A i \in FtSlot : ft.isdup[i] => /\ Orig(ft, ft.parent[i])
                                          /\ ft.vnode[i] = ft.vnode[ft.parent[i]]
      /\ \A i, j \in FtSlot : ft.parent[i] = j /\ j # 0 => ft.isdup[i] /\ Orig(ft, j)
      /\ \A i : Orig(ft, i) => i \in FtSlot /\ i # 0 /\ ft.parent[i] = 0
  BY <1>3, TableFacts
<1>5. ASSUME NEW fd \in FtSlot \ {0}, ft.vnode[fd] # NULL, ~ft.isdup[fd]
      PROVE  /\ ~Endless(ft, fd)
             /\ Passed(ft, fd) \ {fd} = {i \in FtSlot : ft.parent[i] = fd}
             /\ \A i \in {i \in FtSlot : ft.parent[i] = fd} : ft.vnode[i] = ft.vnode[fd]
  <2>1. Orig(ft, fd) /\ fd # 0 /\ fd \in FtSlot
    BY <1>5 DEF Orig
  <2>2. PICK S : S = Members(ft, fd)
    OBVIOUS
  <2>3. PICK n, q : Ring(ft.dup, S, fd, q, n)
    BY <1>3, <2>1, <2>2 DEF Rings
  <2>4. RingIn(ft, S, fd, q, n)
    BY <2>3 DEF RingIn
  <2>5. ~Endless(ft, fd) /\ Passed(ft, fd) = S
    BY <2>4, RingWalk
  <2>6. ft.parent[fd] # fd
    BY <1>4, <2>1
  <2>7. S \ {fd} = {i \in FtSlot : ft.parent[i] = fd}
    BY <2>2, <2>6 DEF Members
  <2>8. \A i \in FtSlot : ft.parent[i] = fd => ft.vnode[i] = ft.vnode[fd]
    BY <1>4, <2>1
  <2> QED BY <2>5, <2>7, <2>8
<1>6. \A i \in FtSlot : ft.isdup[i] => ~ft.isdup[ft.parent[i]]
  BY <1>4 DEF Orig
<1>7. ASSUME NEW i \in FtSlot, ft.vnode[i] \in OpenFile PROVE o[ft.vnode[i]] > 0
  <2>1. PICK v : v = ft.vnode[i]
    OBVIOUS
  <2>2. PICK x \in FtSlot : ft.vnode[x] = v /\ ~ft.isdup[x]
    <3>1. CASE ft.isdup[i]
      BY <1>4, <2>1, <3>1 DEF Orig
    <3>2. CASE ~ft.isdup[i]
      BY <2>1, <3>2
    <3> QED BY <3>1, <3>2
  <2>3. PICK A : A = OpenedAs(ft, v)
    OBVIOUS
  <2>4. x \in A /\ A \subseteq FtSlot
    BY <2>2, <2>3 DEF OpenedAs
  <2>5. IsFiniteSet(A)
    <3>1. 0 \in Int /\ FILETABLESIZE - 1 \in Int
      BY FileTableSizes
    <3>2. IsFiniteSet(FtSlot)
      BY <3>1, FS_Interval DEF FtSlot
    <3> QED BY <2>4, <3>2, FS_Subset
  <2>6. Cardinality(A) # 0 /\ Cardinality(A) \in Nat
    BY <2>4, <2>5, FS_EmptySet, FS_CardinalityType
  <2>7. o[v] = Cardinality(A)
    BY <1>3, <1>7, <2>1, <2>3 DEF OpensCounted
  <2> QED BY <2>1, <2>6, <2>7
<1> QED BY <1>1, <1>2, <1>5, <1>6, <1>7 DEF RingsOK, DupsOf

\* A transfer reaches the whole ring, from an original or from a duplicate.
LEMMA RingReached ==
    ASSUME TableOK, NEW fd \in FtSlot, filetable.vnode[fd] # NULL,
           NEW first, first = IF filetable.isdup[fd] THEN filetable.parent[fd] ELSE fd
    PROVE  /\ DupsOf(first) \cup {first} \subseteq Passed(filetable, fd) \cap FtSlot
           /\ fd \in Passed(filetable, fd)
<1>1. PICK ft : ft = filetable
  OBVIOUS
<1>2. Rings(ft)
  BY <1>1 DEF TableOK
<1>3. /\ \A i \in FtSlot : ft.isdup[i] => /\ Orig(ft, ft.parent[i])
                                          /\ ft.vnode[i] = ft.vnode[ft.parent[i]]
      /\ \A i : Orig(ft, i) => i \in FtSlot /\ i # 0 /\ ft.parent[i] = 0
  BY <1>2, TableFacts
<1>4. Orig(ft, first)
  BY <1>1, <1>3 DEF Orig
<1>5. PICK S : S = Members(ft, first)
  OBVIOUS
<1>6. S = DupsOf(first) \cup {first} /\ fd \in S /\ S \subseteq FtSlot
  BY <1>1, <1>3, <1>4, <1>5 DEF Members, DupsOf
<1>7. PICK n, q : Ring(ft.dup, S, first, q, n)
  BY <1>2, <1>3, <1>4, <1>5 DEF Rings
<1>8. \E p : RingIn(ft, S, fd, p, n)
  <2>1. CASE fd = first
    BY <1>7, <2>1 DEF RingIn
  <2>2. CASE fd # first
    <3>1. PICK d : d = ft.dup
      OBVIOUS
    <3>2. Ring(d, S, first, q, n)
      BY <1>7, <3>1
    <3>3. n > 1
      <4>1. /\ n \in Nat /\ n > 0 /\ S = {q[k] : k \in 0..(n - 1)} /\ q[0] = first
        BY <3>2 DEF Ring
      <4>2. PICK k \in 0..(n - 1) : fd = q[k]
        BY <1>6, <4>1
      <4>3. k # 0
        BY <2>2, <4>1, <4>2
      <4> QED BY <4>1, <4>2, <4>3
    <3>4. \E p : Ring(d, S, fd, p, n)
      BY <1>6, <3>2, <3>3, RingFrom
    <3> QED BY <3>1, <3>4 DEF RingIn
  <2> QED BY <2>1, <2>2
<1>9. Passed(ft, fd) = S
  BY <1>8, RingWalk
<1> QED BY <1>1, <1>6, <1>9

\* The table of descriptors keeps its rings: the strengthening that the two theorems
\* below rest on.
THEOREM TableRings == FileTableBehaviour => []TableInv
<1>1. FileTableInit => TableInv
  BY TableInit
<1>2. TableInv /\ [FileTableNext]_table_vars => TableInv'
  BY TableStep
<1> QED BY <1>1, <1>2, PTL DEF FileTableBehaviour

\* open, close, dup2 and transfers in any order: every ring passes the duplicates of
\* its original and ends, and no descriptor keeps the vnode of a closed file.
THEOREM TableRingsOK == FileTableBehaviour => []RingsOK
<1>1. TableInv => RingsOK
  <2>1. CASE mixed
    BY <2>1 DEF RingsOK
  <2>2. CASE ~mixed
    BY <2>2, RingsShow DEF TableInv, TableOK
  <2> QED BY <2>1, <2>2
<1> QED BY <1>1, TableRings, PTL

\* updateoffset: a transfer leaves the original and all of its duplicates at the same
\* offset, whichever of them it was called on.
THEOREM TableOffsetsFollow == FileTableBehaviour => OffsetsFollow
<1> DEFINE Follow == subject = "filetable" => \A fd \in FtSlot :
              ~mixed /\ transfer(fd) /\ stopped' = "no" =>
                LET first == IF filetable.isdup[fd] THEN filetable.parent[fd] ELSE fd IN
                \A i \in DupsOf(first) \cup {first} : filetable.offset'[i] = filetable.offset'[fd]
<1>1. TableInv => Follow
  <2> SUFFICES ASSUME TableInv, NEW fd \in FtSlot, ~mixed, transfer(fd), stopped' = "no",
                      NEW first, first = IF filetable.isdup[fd] THEN filetable.parent[fd] ELSE fd,
                      NEW i \in DupsOf(first) \cup {first}
               PROVE  filetable'.offset[i] = filetable'.offset[fd]
    OBVIOUS
  <2>1. TableOK
    BY DEF TableInv, TableOK
  <2>2. PICK off : filetable' = [filetable EXCEPT !.offset = updateoffset(fd, off)]
    BY DEF transfer, Stop
  <2>3. filetable \in TableRec
    BY <2>1, TableFacts DEF TableOK
  <2>4. filetable'.offset = updateoffset(fd, off)
    BY <2>2, <2>3 DEF TableRec
  <2>5. i \in Passed(filetable, fd) /\ i \in FtSlot
    BY <2>1, RingReached DEF transfer
  <2>6. fd \in Passed(filetable, fd)
    BY <2>1, RingReached DEF transfer
  <2> QED BY <2>4, <2>5, <2>6 DEF updateoffset
<1> HIDE DEF Follow
<1>2. FileTableBehaviour => [][Follow]_table_vars
  BY <1>1, TableRings, PTL DEF FileTableBehaviour
<1> QED BY <1>2 DEF OffsetsFollow, Follow
=============================================================================
