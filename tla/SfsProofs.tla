----------------------------- MODULE SfsProofs -----------------------------
(***************************************************************************)
(* Machine-checked proofs about SfsVnodes when one thread at a time uses   *)
(* the file system: for any number of names, inodes, slots and vnodes, and *)
(* whatever transfers fail.  What the disk and the directory say is known  *)
(* as long as no write is lost; the counts and the table stay right even   *)
(* then.  With two threads the invariant does not hold: they may load one  *)
(* inode twice, as the run of MCSfsTwoVnodes.cfg shows.                    *)
(***************************************************************************)
EXTENDS SfsVnodes, ListLemmas

\* What is proved of SFS holds as long as one thread at a time uses it.
OneThread == \E t : Thread = {t}

Searches == {"lookup", "creat", "remove", "rename"}
Unloaded == {"idle", "find", "balloc", "scan", "load"}
Reclaims == {"reclaim", "sync", "bfree", "untable"}
Labels == Unloaded \cup Reclaims \cup {"incref", "add", "got", "unlink_old", "decref"}

DirEntry == [name : Name \cup {NoName}, ino : 0..NInodes]
VnodeRecord == [ino : 0..NInodes, refcount : Nat, links : Nat, dirty : BOOLEAN,
                state : {"none", "live", "freed"}]

SharedTypes ==
    /\ dir \in Seq(DirEntry) /\ freemap \subseteq Ino /\ disklinks \in [Ino -> Nat]
    /\ made \subseteq Ino /\ lost \in BOOLEAN
    /\ vnodes \in Seq(Vnode) /\ IsInjective(vnodes)
    /\ sv \in [Vnode -> VnodeRecord] /\ used \in 0..NVnodes
    /\ held \in [Thread -> Seq(Vnode)]

LocalTypes ==
    /\ pc \in [Thread -> Labels] /\ op \in [Thread -> Searches \cup {"none", "make", "close"}]
    /\ name \in [Thread -> Name \cup {NoName}] /\ name2 \in [Thread -> Name \cup {NoName}]
    /\ ino \in [Thread -> 0..NInodes] /\ v \in [Thread -> 0..NVnodes]
    /\ slot \in [Thread -> Nat] /\ slot2 \in [Thread -> Nat]

Live(x) == sv[x].state = "live"
Resident(i) == \E x \in Vnode : Live(x) /\ sv[x].ino = i

\* Where t has a vnode that is not in the table yet, and one whose inode may be
\* free already.
Adding(t, x) == pc[t] = "add" /\ v[t] = x
Killing(t, x) == pc[t] = "untable" /\ v[t] = x

\* The vnodes that exist are in the table, one for an inode.  Unless a write was lost, each
\* knows at least as many links as its inode has names, and the disk knows what it knows
\* when it is not dirty.
VnodeOK(t, x) ==
    /\ x > used => ~Live(x)
    /\ ~Live(x) => sv[x].refcount = 0
    /\ x \in ToSet(vnodes) <=> Live(x) /\ ~Adding(t, x)
    /\ Live(x) => /\ sv[x].refcount >= 1 /\ sv[x].ino \in Ino
                  /\ sv[x].ino \in freemap \/ Killing(t, x)
                  /\ \/ lost \/ sv[x].dirty
                     \/ disklinks[sv[x].ino] = sv[x].links /\ sv[x].ino \in made
                  /\ lost \/ sv[x].links >= Links(sv[x].ino)
OneEach == \A x, y \in Vnode : Live(x) /\ Live(y) /\ sv[x].ino = sv[y].ino => x = y
VnodesOK(t) == OneEach /\ \A x \in Vnode : VnodeOK(t, x)

\* A name is there once.  Unless a write was lost, it is of an inode in use, which is on disk
\* and counts it there when the inode is not resident.
OnDisk(i) == Links(i) = 0 \/ (i \in made /\ disklinks[i] >= Links(i))

NamesOK ==
    /\ \A s \in DOMAIN dir : dir[s].ino # NOINO => lost \/ dir[s].ino \in freemap
    /\ \A r, s \in DOMAIN dir :
         dir[r].ino # NOINO /\ dir[s].ino # NOINO /\ dir[r].name = dir[s].name => r = s
    /\ \A i \in Ino : lost \/ Resident(i) \/ OnDisk(i)

\* The reference counts cover the files t has open and the vnode it works on.
Kept(t, x) == {i \in DOMAIN held[t] : held[t][i] = x}
Using(t, x) == v[t] = x /\ pc[t] \notin {"incref", "idle"}
RefsOK(t) ==
    /\ ToSet(held[t]) \subseteq ToSet(vnodes)
    /\ \A x \in Vnode : Cardinality(Kept(t, x)) + Ind(Using(t, x)) <= sv[x].refcount

\* What t knows at each point of an operation.
SlotIs(t, s) == s \in DOMAIN dir /\ dir[s].ino = ino[t]

WorkOK(t) ==
    /\ pc[t] \in Unloaded => v[t] = 0
    /\ pc[t] \notin Unloaded => v[t] \in Vnode /\ Live(v[t])
    /\ pc[t] = "find" => op[t] \in Searches
    /\ pc[t] = "balloc" => op[t] = "make"
    /\ pc[t] \in {"scan", "load", "incref", "add", "got", "unlink_old"} =>
         /\ op[t] \in Searches \cup {"make"} /\ ino[t] \in Ino /\ (lost \/ ino[t] \in freemap)
         /\ op[t] # "make" => SlotIs(t, slot[t])
    /\ pc[t] = "scan" /\ op[t] = "make" => ~Resident(ino[t])
    /\ pc[t] = "load" => ~Resident(ino[t])
    /\ pc[t] \in {"scan", "load"} /\ op[t] = "make" => lost \/ ino[t] \notin made
    /\ pc[t] \in {"scan", "load", "add"} /\ op[t] = "make" => lost \/ Links(ino[t]) = 0
    /\ pc[t] \in {"incref", "add", "got", "unlink_old"} => sv[v[t]].ino = ino[t]
    /\ pc[t] = "incref" => op[t] # "make"
    /\ pc[t] = "add" => sv[v[t]].refcount = 1 /\ (sv[v[t]].dirty => op[t] = "make")
    /\ pc[t] = "unlink_old" =>
         /\ op[t] = "rename" /\ sv[v[t]].links # 0 /\ slot[t] # slot2[t]
         /\ slot2[t] \in DOMAIN dir /\ dir[slot2[t]].ino \in {NOINO, ino[t]}
         /\ lost \/ SlotIs(t, slot2[t])
    /\ pc[t] \in Reclaims => sv[v[t]].refcount = 1
    /\ pc[t] \in {"bfree", "untable"} => ~sv[v[t]].dirty

Inv(t) == SharedTypes /\ LocalTypes /\ NamesOK /\ VnodesOK(t) /\ RefsOK(t) /\ WorkOK(t)

VnInv == /\ panicked \in {"no", "assert", "cannot_recover"} /\ (panicked = "assert" => lost)
         /\ \A t \in Thread : Inv(t)

----------------------------------------------------------------------------
(* The directory *)

NamesOf(i) == {s \in DOMAIN dir : dir[s].ino = i}

\* The names of an inode are finitely many.
LEMMA LinksNat ==
    ASSUME SharedTypes
    PROVE  \A i : /\ IsFiniteSet(NamesOf(i)) /\ Links(i) = Cardinality(NamesOf(i)) /\ Links(i) \in Nat
                  /\ NamesOf(i) = {} <=> Links(i) = 0
<1>1. TAKE i
<1>2. Len(dir) \in Nat /\ DOMAIN dir = 1..Len(dir)
  BY DEF SharedTypes
<1>3. IsFiniteSet(1..Len(dir)) /\ NamesOf(i) \subseteq 1..Len(dir)
  BY <1>2, FS_Interval DEF NamesOf
<1>4. IsFiniteSet(NamesOf(i))
  BY <1>3, FS_Subset
<1>5. Links(i) = Cardinality(NamesOf(i))
  BY DEF Links, NamesOf
<1> QED BY <1>4, <1>5, FS_CardinalityType, FS_EmptySet

\* sfs_writedir changes one slot, and the names of an inode by that slot.
LEMMA PutSlot ==
    ASSUME SharedTypes, NEW s \in 1..(Len(dir) + 1), NEW e \in DirEntry, Put(s, e)
    PROVE  /\ dir' \in Seq(DirEntry) /\ DOMAIN dir' = DOMAIN dir \cup {s} /\ dir'[s] = e
           /\ \A r \in DOMAIN dir : r # s => dir'[r] = dir[r]
           /\ \A i : Links(i)' = Links(i) + Ind(e.ino = i) - Ind(s \in NamesOf(i))
           /\ \A i : Links(i)' \in Nat
<1>1. dir \in Seq(DirEntry) /\ Len(dir) \in Nat /\ DOMAIN dir = 1..Len(dir)
  BY DEF SharedTypes
<1>2. /\ dir' \in Seq(DirEntry) /\ DOMAIN dir' = DOMAIN dir \cup {s} /\ dir'[s] = e
      /\ \A r \in DOMAIN dir : r # s => dir'[r] = dir[r]
  <2>1. CASE s > Len(dir)
    <3>1. s = Len(dir) + 1 /\ dir' = Append(dir, e)
      BY <1>1, <2>1 DEF Put
    <3>2. dir' \in Seq(DirEntry) /\ Len(dir') = Len(dir) + 1
      BY <1>1, <3>1
    <3>3. DOMAIN dir' = 1..(Len(dir) + 1)
      BY <3>2
    <3> QED BY <1>1, <3>1, <3>2, <3>3
  <2>2. CASE ~(s > Len(dir))
    <3>1. s \in DOMAIN dir /\ dir' = [dir EXCEPT ![s] = e]
      BY <1>1, <2>2 DEF Put
    <3> QED BY <1>1, <3>1
  <2> QED BY <2>1, <2>2
<1>3. ASSUME NEW i PROVE Links(i)' = Links(i) + Ind(e.ino = i) - Ind(s \in NamesOf(i)) /\ Links(i)' \in Nat
  <2>1. PICK B : B = {r \in DOMAIN dir' : dir'[r].ino = i}
    OBVIOUS
  <2>2. Links(i)' = Cardinality(B)
    BY <2>1 DEF Links
  <2>3. B \ {s} = NamesOf(i) \ {s}
    BY <1>2, <2>1 DEF NamesOf
  <2>4. s \in B <=> e.ino = i
    BY <1>2, <2>1
  <2>5. Cardinality(B) \in Nat /\ Cardinality(B) = Cardinality(NamesOf(i)) + Ind(s \in B) - Ind(s \in NamesOf(i))
    BY <2>3, LinksNat, SetStep
  <2>6. Ind(s \in B) = Ind(e.ino = i)
    BY <2>4 DEF Ind
  <2> QED BY <2>2, <2>5, <2>6, LinksNat
<1> QED BY <1>2, <1>3

\* sfs_dir_link takes a slot that holds no name.
LEMMA LinkSlotFree ==
    ASSUME SharedTypes
    PROVE  /\ LinkSlot \in 1..(Len(dir) + 1)
           /\ LinkSlot \in DOMAIN dir => dir[LinkSlot].ino = NOINO
<1>1. Len(dir) \in Nat /\ DOMAIN dir = 1..Len(dir)
  BY DEF SharedTypes
<1>2. CASE EmptySlots # {}
  <2>1. PICK S : S = {k \in Nat : \E s \in EmptySlots : k = Len(dir) - s}
    OBVIOUS
  <2>2. EmptySlots \subseteq 1..Len(dir)
    BY <1>1 DEF EmptySlots
  <2>0. ASSUME NEW r \in EmptySlots PROVE Len(dir) - r \in S
    <3>1. Len(dir) - r \in Nat
      BY <1>1, <2>2
    <3> QED BY <2>1, <3>1
  <2>3. S \in SUBSET Nat /\ S # {}
    BY <1>2, <2>0, <2>1
  <2>4. PICK m \in S : \A k \in S : m <= k
    BY <2>3, LeastNatural
  <2>5. PICK s \in EmptySlots : m = Len(dir) - s
    BY <2>1
  <2>6. \A r \in EmptySlots : r <= s
    <3>1. TAKE r \in EmptySlots
    <3>2. Len(dir) - r \in S
      BY <2>0
    <3> QED BY <1>1, <2>2, <2>4, <2>5, <3>2
  <2>7. Max(EmptySlots) \in EmptySlots
    <3>1. \E x \in EmptySlots : \A y \in EmptySlots : x >= y
      BY <1>1, <2>2, <2>6
    <3> QED BY <3>1 DEF Max
  <2>8. LinkSlot \in EmptySlots
    BY <1>2, <2>7 DEF LinkSlot
  <2> QED BY <1>1, <2>2, <2>8 DEF EmptySlots
<1>3. CASE EmptySlots = {}
  BY <1>1, <1>3 DEF LinkSlot
<1> QED BY <1>2, <1>3

----------------------------------------------------------------------------
(* The references that a thread keeps *)

\* A thread keeps finitely many references.
LEMMA KeptFinite ==
    ASSUME NEW t, Thread = {t}, SharedTypes
    PROVE  \A x : IsFiniteSet(Kept(t, x)) /\ Cardinality(Kept(t, x)) \in Nat
<1>1. TAKE x
<1>2. Len(held[t]) \in Nat /\ DOMAIN held[t] = 1..Len(held[t])
  BY DEF SharedTypes
<1>3. IsFiniteSet(1..Len(held[t])) /\ Kept(t, x) \subseteq 1..Len(held[t])
  BY <1>2, FS_Interval DEF Kept
<1> QED BY <1>3, FS_Subset, FS_CardinalityType

\* A reference more.
LEMMA KeptMore ==
    ASSUME NEW t, Thread = {t}, SharedTypes, NEW y \in Vnode, held' = [held EXCEPT ![t] = Append(@, y)]
    PROVE  /\ held' \in [Thread -> Seq(Vnode)] /\ ToSet(held'[t]) = ToSet(held[t]) \cup {y}
           /\ \A x : Cardinality(Kept(t, x)') = Cardinality(Kept(t, x)) + Ind(x = y)
<1>1. PICK s : s = held[t]
  OBVIOUS
<1>2. s \in Seq(Vnode) /\ Len(s) \in Nat /\ DOMAIN s = 1..Len(s)
  BY <1>1 DEF SharedTypes
<1>3. held' \in [Thread -> Seq(Vnode)] /\ held'[t] = Append(s, y)
  BY <1>1, <1>2 DEF SharedTypes
<1>4. ToSet(held'[t]) = ToSet(held[t]) \cup {y}
  BY <1>1, <1>2, <1>3, AppendSet
<1>5. ASSUME NEW x PROVE Cardinality(Kept(t, x)') = Cardinality(Kept(t, x)) + Ind(x = y)
  <2>1. PICK n \in Nat : n = Len(s)
    BY <1>2
  <2>2. PICK q : q = Append(s, y)
    OBVIOUS
  <2>3. DOMAIN q = 1..(n + 1) /\ DOMAIN s = 1..n /\ q[n + 1] = y /\ \A i \in 1..n : q[i] = s[i]
    BY <1>2, <2>1, <2>2
  <2>4. n + 1 \notin 1..n /\ 1..(n + 1) = (1..n) \cup {n + 1}
    BY <2>1
  <2>5. PICK A, B : A = {i \in DOMAIN s : s[i] = x} /\ B = {i \in DOMAIN q : q[i] = x}
    OBVIOUS
  <2>6. A = Kept(t, x) /\ B = Kept(t, x)'
    BY <1>1, <1>3, <2>2, <2>5 DEF Kept
  <2>7. B \ {n + 1} = A \ {n + 1} /\ n + 1 \notin A /\ (n + 1 \in B <=> x = y)
    BY <2>3, <2>4, <2>5
  <2>8. Cardinality(B) = Cardinality(A) + Ind(n + 1 \in B) - Ind(n + 1 \in A) /\ Cardinality(A) \in Nat
    BY <2>6, <2>7, KeptFinite, SetStep
  <2>9. Ind(n + 1 \in A) = 0 /\ Ind(n + 1 \in B) = Ind(x = y) /\ Ind(x = y) \in Nat
    BY <2>7 DEF Ind
  <2> QED BY <2>6, <2>8, <2>9
<1> QED BY <1>3, <1>4, <1>5

\* A reference less: the later ones move down by one.
LEMMA KeptLess ==
    ASSUME NEW t, Thread = {t}, SharedTypes, NEW k \in DOMAIN held[t],
           held' = [held EXCEPT ![t] = RemoveAt(@, k)]
    PROVE  /\ held' \in [Thread -> Seq(Vnode)] /\ ToSet(held'[t]) \subseteq ToSet(held[t])
           /\ held[t][k] \in Vnode /\ held[t][k] \in ToSet(held[t])
           /\ \A x : Cardinality(Kept(t, x)) = Cardinality(Kept(t, x)') + Ind(x = held[t][k])
           /\ \A x : Cardinality(Kept(t, x)') \in Nat
<1>1. PICK s : s = held[t]
  OBVIOUS
<1>2. s \in Seq(Vnode) /\ Len(s) \in Nat /\ DOMAIN s = 1..Len(s) /\ k \in 1..Len(s)
  BY <1>1 DEF SharedTypes
<1>3. PICK q : q = RemoveAt(s, k)
  OBVIOUS
<1>4. PICK n \in Nat : n = Len(s)
  BY <1>2
<1>5. /\ q \in Seq(Vnode) /\ DOMAIN q = 1..(n - 1) /\ k \in 1..n /\ DOMAIN s = 1..n
      /\ \A j \in 1..(n - 1) : q[j] = IF j < k THEN s[j] ELSE s[j + 1]
  BY <1>2, <1>3, <1>4, RemoveAtProperties
<1>6. held' \in [Thread -> Seq(Vnode)] /\ held'[t] = q
  BY <1>1, <1>3, <1>5 DEF SharedTypes
<1>7. ToSet(q) \subseteq ToSet(s) /\ s[k] \in ToSet(s) /\ s[k] \in Vnode
  <2>1. \A j \in 1..(n - 1) : j \in 1..n /\ j + 1 \in 1..n
    BY <1>4
  <2>2. \A j \in DOMAIN q : \E i \in DOMAIN s : q[j] = s[i]
    BY <1>5, <2>1
  <2> QED BY <1>2, <2>2 DEF ToSet
<1>8. ASSUME NEW x
      PROVE  Cardinality(Kept(t, x)) = Cardinality(Kept(t, x)') + Ind(x = s[k]) /\ Cardinality(Kept(t, x)') \in Nat
  <2>1. PICK A, B : A = {i \in DOMAIN s : s[i] = x} /\ B = {i \in DOMAIN q : q[i] = x}
    OBVIOUS
  <2>2. A = Kept(t, x) /\ B = Kept(t, x)' /\ IsFiniteSet(A)
    <3>1. A = Kept(t, x)
      BY <1>1, <2>1 DEF Kept
    <3>2. B = Kept(t, x)'
      BY <1>6, <2>1 DEF Kept
    <3> QED BY <3>1, <3>2, KeptFinite
  <2>3. PICK C : C = A \ {k}
    OBVIOUS
  <2>4. PICK f : f = [j \in B |-> IF j < k THEN j ELSE j + 1]
    OBVIOUS
  <2>5. ASSUME NEW j \in B PROVE f[j] \in C
    <3>1. j \in 1..(n - 1) /\ q[j] = x
      BY <1>5, <2>1
    <3>2. f[j] \in 1..n /\ f[j] # k
      BY <1>4, <1>5, <2>4, <3>1
    <3>3. s[f[j]] = x
      BY <1>5, <2>4, <3>1
    <3> QED BY <1>5, <2>1, <2>3, <3>2, <3>3
  <2>6. ASSUME NEW i \in B, NEW j \in B, f[i] = f[j] PROVE i = j
    <3>1. i \in 1..(n - 1) /\ j \in 1..(n - 1)
      BY <1>5, <2>1
    <3> QED BY <1>4, <1>5, <2>4, <2>6, <3>1
  <2>7. ASSUME NEW i \in C PROVE \E j \in B : f[j] = i
    <3>1. i \in 1..n /\ i # k /\ s[i] = x
      BY <1>5, <2>1, <2>3
    <3>2. PICK j : j = IF i < k THEN i ELSE i - 1
      OBVIOUS
    <3>3. j \in 1..(n - 1) /\ i = (IF j < k THEN j ELSE j + 1)
      BY <1>4, <1>5, <3>1, <3>2
    <3>4. q[j] = x
      BY <1>5, <3>1, <3>3
    <3>5. j \in B
      BY <1>5, <2>1, <3>3, <3>4
    <3> QED BY <2>4, <3>3, <3>5
  <2>8. f \in Bijection(B, C)
    <3>1. f \in [B -> C]
      BY <2>4, <2>5
    <3> QED BY <2>6, <2>7, <3>1 DEF Bijection, Injection, Surjection, IsInjective
  <2>9. IsFiniteSet(C) /\ Cardinality(C) = Cardinality(A) - Ind(k \in A) /\ Cardinality(A) \in Nat /\ Cardinality(C) \in Nat
    <3>1. C \ {k} = A \ {k} /\ k \notin C
      BY <2>3
    <3>2. /\ IsFiniteSet(C) /\ Cardinality(A) \in Nat /\ Cardinality(C) \in Nat
          /\ Cardinality(C) = Cardinality(A) + Ind(k \in C) - Ind(k \in A)
      BY <2>2, <3>1, SetStep
    <3>3. Ind(k \in C) = 0 /\ Ind(k \in A) \in Nat
      BY <3>1 DEF Ind
    <3> QED BY <3>2, <3>3
  <2>10. Cardinality(B) = Cardinality(C)
    <3>1. ExistsBijection(B, C)
      BY <2>8 DEF ExistsBijection
    <3>2. n - 1 \in Int /\ B \subseteq 1..(n - 1)
      BY <1>4, <1>5, <2>1
    <3>3. IsFiniteSet(1..(n - 1))
      BY <3>2, FS_Interval
    <3>4. IsFiniteSet(B)
      BY <3>2, <3>3, FS_Subset
    <3> QED BY <3>1, <3>4, FS_Bijection
  <2>11. (k \in A <=> x = s[k]) /\ Ind(x = s[k]) \in Nat
    BY <1>2, <2>1 DEF Ind
  <2>12. Ind(k \in A) = Ind(x = s[k])
    BY <2>11 DEF Ind
  <2> QED BY <2>2, <2>9, <2>10, <2>11, <2>12
<1> QED BY <1>1, <1>6, <1>7, <1>8

----------------------------------------------------------------------------
(* What the steps of the thread share *)

\* The table as a set.
LEMMA InTableIs == \A x : InTable(x) <=> x \in ToSet(vnodes)
  BY DEF InTable, ToSet

\* A step to another place.
LEMMA GotoLabel ==
    ASSUME NEW t, Thread = {t}, LocalTypes, NEW label \in Labels, Goto(t, label)
    PROVE  pc' \in [Thread -> Labels] /\ pc'[t] = label
  BY DEF LocalTypes, Goto

\* The end of an operation.
LEMMA Returned ==
    ASSUME NEW t, Thread = {t}, LocalTypes, Return(t)
    PROVE  LocalTypes' /\ WorkOK(t)' /\ pc'[t] = "idle" /\ v'[t] = 0
<1>1. pc' \in [Thread -> Labels] /\ pc'[t] = "idle"
  BY GotoLabel DEF Return, Labels, Unloaded
<1>2. v' \in [Thread -> 0..NVnodes] /\ v'[t] = 0
  BY SfsVnodesAssumption DEF Return, LocalTypes
<1>3. LocalTypes'
  <2>1. ino' \in [Thread -> 0..NInodes] /\ slot' \in [Thread -> Nat] /\ slot2' \in [Thread -> Nat]
    BY SfsVnodesAssumption DEF Return, LocalTypes, NOINO
  <2>2. /\ op' \in [Thread -> Searches \cup {"none", "make", "close"}]
        /\ name' \in [Thread -> Name \cup {NoName}] /\ name2' \in [Thread -> Name \cup {NoName}]
    BY DEF Return, LocalTypes
  <2> QED BY <1>1, <1>2, <2>1, <2>2 DEF LocalTypes
<1>4. WorkOK(t)'
  BY <1>1, <1>2 DEF WorkOK, Unloaded, Reclaims
<1> QED BY <1>1, <1>2, <1>3, <1>4

\* The counts still cover the references when a count loses no more than the thread does.
LEMMA RefsStep ==
    ASSUME NEW t, Thread = {t}, SharedTypes, SharedTypes', RefsOK(t), held' = held,
           ToSet(held[t]) \subseteq ToSet(vnodes'),
           \A x \in Vnode : sv'[x].refcount - Ind(Using(t, x)') >= sv[x].refcount - Ind(Using(t, x))
    PROVE  RefsOK(t)'
<1>1. ToSet(held'[t]) \subseteq ToSet(vnodes')
  OBVIOUS
<1>2. ASSUME NEW x \in Vnode PROVE Cardinality(Kept(t, x)') + Ind(Using(t, x)') <= sv'[x].refcount
  <2>1. Kept(t, x)' = Kept(t, x) /\ Cardinality(Kept(t, x)) \in Nat
    BY KeptFinite DEF Kept
  <2>2. sv[x].refcount \in Nat /\ sv'[x].refcount \in Nat
    BY DEF SharedTypes, VnodeRecord
  <2>3. Cardinality(Kept(t, x)) + Ind(Using(t, x)) <= sv[x].refcount
    BY DEF RefsOK
  <2>4. Ind(Using(t, x)') \in Nat /\ Ind(Using(t, x)) \in Nat
    BY DEF Ind
  <2>5. sv'[x].refcount - Ind(Using(t, x)') >= sv[x].refcount - Ind(Using(t, x))
    OBVIOUS
  <2> QED BY <2>1, <2>2, <2>3, <2>4, <2>5
<1> QED BY <1>1, <1>2 DEF RefsOK

\* A step that changes no shared state, and neither enters nor leaves the steps in which a
\* vnode is not in the table or its inode not in the map, keeps what holds of that state.
LEMMA Still ==
    ASSUME NEW t, Thread = {t}, Inv(t), UNCHANGED <<disk, vnodes, sv, used>>,
           pc[t] \notin {"add", "untable"}, pc'[t] # "add"
    PROVE  NamesOK' /\ VnodesOK(t)'
<1>1. /\ dir' = dir /\ freemap' = freemap /\ disklinks' = disklinks /\ made' = made /\ lost' = lost
      /\ vnodes' = vnodes /\ sv' = sv /\ used' = used
  BY DEF disk
<1>2. NamesOK'
  BY <1>1 DEF Inv, NamesOK, OnDisk, Resident, Live, Links
<1>3. VnodesOK(t)'
  BY <1>1 DEF Inv, VnodesOK, VnodeOK, OneEach, Live, Adding, Killing, Links
<1> QED BY <1>2, <1>3

\* When it changes no reference either, it keeps the counts right.
LEMMA Quiet ==
    ASSUME NEW t, Thread = {t}, Inv(t), UNCHANGED <<disk, vnodes, sv, used, held>>,
           pc[t] \notin {"add", "untable"}, pc'[t] # "add",
           \A x \in Vnode : Using(t, x)' => Using(t, x)
    PROVE  SharedTypes' /\ NamesOK' /\ VnodesOK(t)' /\ RefsOK(t)'
<1>1. /\ dir' = dir /\ freemap' = freemap /\ disklinks' = disklinks /\ made' = made /\ lost' = lost
      /\ vnodes' = vnodes /\ sv' = sv /\ used' = used /\ held' = held
  BY DEF disk
<1>2. SharedTypes'
  BY <1>1 DEF Inv, SharedTypes
<1>3. NamesOK' /\ VnodesOK(t)'
  BY Still
<1>4. RefsOK(t)'
  <2>1. ASSUME NEW x \in Vnode PROVE sv'[x].refcount - Ind(Using(t, x)') >= sv[x].refcount - Ind(Using(t, x))
    <3>1. sv'[x] = sv[x] /\ sv[x].refcount \in Nat
      BY <1>1 DEF Inv, SharedTypes, VnodeRecord
    <3>2. Ind(Using(t, x)') <= Ind(Using(t, x)) /\ Ind(Using(t, x)') \in Nat /\ Ind(Using(t, x)) \in Nat
      BY DEF Ind
    <3> QED BY <3>1, <3>2
  <2> QED BY <1>1, <1>2, <2>1, RefsStep DEF Inv, RefsOK
<1> QED BY <1>2, <1>3, <1>4


\* The vnodes after a change of the links of x.
Relinked(x) ==
    /\ sv' \in [Vnode -> VnodeRecord]
    /\ \A y \in Vnode : /\ sv'[y].ino = sv[y].ino /\ sv'[y].refcount = sv[y].refcount
                        /\ sv'[y].state = sv[y].state /\ (y # x => sv'[y] = sv[y])
    /\ sv'[x] = sv[x] \/ sv'[x].dirty

\* Entry e may take slot s of the directory as a name of inode i or none.
Fits(s, e, i) ==
    /\ e.ino \in {NOINO, i} /\ (s \in DOMAIN dir => dir[s].ino \in {NOINO, i})
    /\ e.ino # NOINO => \A r \in DOMAIN dir : r # s /\ dir[r].ino # NOINO => dir[r].name # e.name

\* A change of the names and the links of one inode.
LEMMA NamesChange ==
    ASSUME NEW t, Thread = {t}, Inv(t), pc[t] \notin {"add", "untable"}, pc'[t] # "add",
           UNCHANGED <<freemap, disklinks, made, vnodes, used>>, lost => lost',
           NEW s \in 1..(Len(dir) + 1), NEW e \in DirEntry, Put(s, e),
           NEW x \in Vnode, Live(x), NEW i, i = sv[x].ino, Relinked(x), Fits(s, e, i),
           lost' \/ sv'[x].links >= Links(i)'
    PROVE  VnodesOK(t)' /\ NamesOK' /\ dir' \in Seq(DirEntry)
<1>1. SharedTypes /\ VnodesOK(t) /\ NamesOK /\ i \in Ino /\ i \in freemap
  BY DEF Inv, VnodesOK, VnodeOK, OneEach, Killing
<1>2. i # NOINO
  BY <1>1 DEF Ino, NOINO
<1>3. /\ dir' \in Seq(DirEntry) /\ DOMAIN dir' = DOMAIN dir \cup {s} /\ dir'[s] = e
      /\ \A r \in DOMAIN dir : r # s => dir'[r] = dir[r]
      /\ \A j : Links(j)' = Links(j) + Ind(e.ino = j) - Ind(s \in NamesOf(j))
  BY <1>1, PutSlot
<1>4. ASSUME NEW j \in Ino, j # i PROVE Links(j)' = Links(j)
  <2>1. e.ino # j /\ s \notin NamesOf(j)
    BY <1>4 DEF Fits, Ino, NOINO, NamesOf
  <2>2. Ind(e.ino = j) = 0 /\ Ind(s \in NamesOf(j)) = 0
    BY <2>1 DEF Ind
  <2> QED BY <1>1, <1>3, <2>2, LinksNat
<1>5. \A y \in Vnode : (Live(y)' <=> Live(y)) /\ (Adding(t, y)' <=> Adding(t, y)) /\ ~Killing(t, y)
  BY DEF Live, Adding, Killing, Relinked
<1>6. VnodesOK(t)'
  <2>1. ASSUME NEW y \in Vnode, Live(y)
        PROVE  /\ sv'[y].refcount >= 1 /\ sv'[y].ino \in Ino /\ sv'[y].ino \in freemap'
               /\ \/ lost' \/ sv'[y].dirty
                  \/ disklinks'[sv'[y].ino] = sv'[y].links /\ sv'[y].ino \in made'
               /\ lost' \/ sv'[y].links >= Links(sv[y].ino)'
    <3>1. /\ sv[y].refcount >= 1 /\ sv[y].ino \in Ino /\ sv[y].ino \in freemap
          /\ lost \/ sv[y].dirty \/ (disklinks[sv[y].ino] = sv[y].links /\ sv[y].ino \in made)
          /\ lost \/ sv[y].links >= Links(sv[y].ino)
      BY <1>1, <1>5, <2>1 DEF VnodesOK, VnodeOK, OneEach
    <3>2. PICK j : j = sv[y].ino
      OBVIOUS
    <3>3. sv'[y].ino = j /\ sv'[y].refcount = sv[y].refcount
      BY <3>2 DEF Relinked
    <3>4. Links(sv[y].ino)' = Links(j)'
      BY <3>3 DEF Links
    <3>5. /\ lost' \/ sv'[y].links >= Links(j)'
          /\ lost' \/ sv'[y].dirty \/ (disklinks[j] = sv'[y].links /\ j \in made)
      <4>1. CASE y = x
        BY <3>1, <3>2, <4>1 DEF Relinked
      <4>2. CASE y # x
        <5>1. sv'[y] = sv[y] /\ j # i /\ j \in Ino
          BY <1>1, <2>1, <3>1, <3>2, <4>2 DEF VnodesOK, VnodeOK, OneEach, Relinked
        <5> QED BY <1>4, <3>1, <3>2, <5>1
      <4> QED BY <4>1, <4>2
    <3> QED BY <3>1, <3>2, <3>3, <3>4, <3>5
  <2>2. ASSUME NEW y \in Vnode
        PROVE  VnodeOK(t, y)'
    <3>1. /\ y > used => ~Live(y) 
          /\ ~Live(y) => sv'[y].refcount = 0
          /\ y \in ToSet(vnodes) <=> Live(y) /\ ~Adding(t, y)
      BY <1>1 DEF VnodesOK, VnodeOK, Relinked
    <3> QED BY <1>5, <2>1, <3>1 DEF VnodeOK
  <2>3. OneEach'
    BY <1>1, <1>5 DEF VnodesOK, OneEach, Relinked
  <2> QED BY <2>2, <2>3 DEF VnodesOK
<1>7. NamesOK'
  <2>1. ASSUME NEW r \in DOMAIN dir', dir'[r].ino # NOINO PROVE lost' \/ dir'[r].ino \in freemap'
    BY <1>1, <1>3, <2>1 DEF NamesOK, Fits
  <2>2. ASSUME NEW q \in DOMAIN dir', NEW r \in DOMAIN dir', dir'[q].ino # NOINO, dir'[r].ino # NOINO,
               dir'[q].name = dir'[r].name
        PROVE  q = r
    BY <1>1, <1>3, <2>2 DEF NamesOK, Fits
  <2>3. ASSUME NEW j \in Ino PROVE lost' \/ Resident(j)' \/ OnDisk(j)'
    <3>1. CASE j = i
      BY <1>5, <3>1 DEF Resident, Relinked
    <3>2. CASE j # i
      <4>1. lost \/ Resident(j) \/ Links(j) = 0 \/ (j \in made /\ disklinks[j] >= Links(j))
        BY <1>1 DEF NamesOK, OnDisk
      <4>2. Resident(j) => Resident(j)'
        BY <1>5 DEF Resident, Relinked
      <4>3. OnDisk(j)' <=> OnDisk(j)
        BY <1>4, <3>2 DEF OnDisk
      <4>4. lost \/ Resident(j) \/ OnDisk(j)
        BY <4>1 DEF OnDisk
      <4> QED BY <4>2, <4>3, <4>4
    <3> QED BY <3>1, <3>2
  <2> QED BY <2>1, <2>2, <2>3 DEF NamesOK
<1> QED BY <1>3, <1>6, <1>7

\* What a change of the link count leaves of the vnode.
LEMMA AddLinksIs ==
    ASSUME SharedTypes, NEW x \in Vnode, NEW d \in Int, sv[x].links + d \in Nat, AddLinks(x, d)
    PROVE  Relinked(x) /\ sv'[x].links = sv[x].links + d
<1>1. PICK q : q = [sv[x] EXCEPT !.links = @ + d, !.dirty = TRUE]
  OBVIOUS
<1>2. sv \in [Vnode -> VnodeRecord] /\ sv[x] \in VnodeRecord
  BY DEF SharedTypes
<1>3. /\ q.links = sv[x].links + d /\ q.dirty = TRUE /\ q.ino = sv[x].ino
      /\ q.refcount = sv[x].refcount /\ q.state = sv[x].state
  BY <1>1, <1>2 DEF VnodeRecord
<1>4. q \in VnodeRecord
  BY <1>1, <1>2 DEF VnodeRecord
<1>5. sv' = [sv EXCEPT ![x] = q]
  BY <1>1, <1>2 DEF AddLinks
<1> QED BY <1>2, <1>3, <1>4, <1>5 DEF Relinked

\* A name more, and a link more; the name is not there when its write was lost.
LEMMA LinkStep ==
    ASSUME NEW t, Thread = {t}, Inv(t), pc[t] \notin {"add", "untable"}, pc'[t] # "add",
           UNCHANGED <<freemap, disklinks, made, vnodes, used>>, NEW n \in Name \cup {NoName},
           NEW x \in Vnode, Live(x), CanLink(n), Link(n, sv[x].ino), AddLinks(x, 1)
    PROVE  /\ VnodesOK(t)' /\ NamesOK' /\ dir' \in Seq(DirEntry) /\ Relinked(x)
           /\ \A r \in DOMAIN dir : dir[r].ino # NOINO => r \in DOMAIN dir' /\ dir'[r] = dir[r] /\ r # LinkSlot
           /\ LinkSlot \in DOMAIN dir' /\ dir'[LinkSlot].ino \in {NOINO, sv[x].ino}
           /\ lost' \/ dir'[LinkSlot].ino = sv[x].ino
           /\ LinkSlot \in Nat /\ \A i \in Ino : Links(i)' >= Links(i)
           /\ lost' \in BOOLEAN /\ (lost => lost') /\ sv'[x].links # 0
<1>1. /\ SharedTypes /\ sv[x].ino \in Ino /\ sv[x] \in VnodeRecord
      /\ lost \/ sv[x].links >= Links(sv[x].ino)
  BY DEF Inv, VnodesOK, VnodeOK, OneEach, SharedTypes
<1>2. PICK i : i = sv[x].ino
  OBVIOUS
<1>3. PICK s : s = LinkSlot
  OBVIOUS
<1>4. s \in 1..(Len(dir) + 1) /\ (s \in DOMAIN dir => dir[s].ino = NOINO)
  BY <1>1, <1>3, LinkSlotFree
<1>0. lost' \in BOOLEAN /\ (lost => lost') /\ (lost' \/ ~lost)
  BY <1>1 DEF SharedTypes, Link, Write
<1>5. PICK e \in DirEntry : /\ Put(s, e) /\ e.ino \in {NOINO, i} /\ (e.ino # NOINO => e.name = n)
                            /\ lost' \/ e.ino = i
  <2>1. CASE Put(s, [name |-> n, ino |-> i])
    <3>1. PICK e : e = [name |-> n, ino |-> i]
      OBVIOUS
    <3>2. e \in DirEntry /\ e.ino = i /\ e.name = n
      BY <1>1, <1>2, <3>1 DEF DirEntry, VnodeRecord
    <3> QED BY <2>1, <3>1, <3>2
  <2>2. CASE Put(s, NoEntry) /\ lost'
    <3>1. NoEntry \in DirEntry /\ NoEntry.ino = NOINO
      BY SfsVnodesAssumption DEF NoEntry, DirEntry, NOINO
    <3> QED BY <2>2, <3>1
  <2> QED BY <1>2, <1>3, <2>1, <2>2 DEF Link, Write
<1>6. lost' \in BOOLEAN /\ (lost => lost') /\ (lost' \/ (~lost /\ e.ino = i))
  BY <1>0, <1>5
<1>7. /\ dir' \in Seq(DirEntry) /\ DOMAIN dir' = DOMAIN dir \cup {s} /\ dir'[s] = e
      /\ \A r \in DOMAIN dir : r # s => dir'[r] = dir[r]
      /\ \A j : Links(j)' = Links(j) + Ind(e.ino = j) - Ind(s \in NamesOf(j))
  BY <1>1, <1>4, <1>5, PutSlot
<1>8. i \in Ino /\ \A j \in Ino : s \notin NamesOf(j)
  BY <1>1, <1>2, <1>4 DEF NamesOf, Ino, NOINO
<1>9. Links(i)' <= Links(i) + 1 /\ \A j \in Ino : Links(j)' >= Links(j)
  <2>1. ASSUME NEW j \in Ino
        PROVE  Links(j)' = Links(j) + Ind(e.ino = j) /\ Links(j) \in Nat /\ Ind(e.ino = j) \in 0..1
    <3>1. Ind(s \in NamesOf(j)) = 0 /\ Ind(e.ino = j) \in 0..1
      BY <1>8 DEF Ind
    <3> QED BY <1>1, <1>7, <3>1, LinksNat
  <2> QED BY <1>8, <2>1
<1>10. sv[x].links + 1 \in Nat /\ sv[x].links \in Nat /\ Links(i) \in Nat /\ Links(i)' \in Nat
  <2>1. Links(i)' \in Nat
    BY <1>1, <1>4, <1>5, PutSlot
  <2> QED BY <1>1, <2>1, LinksNat DEF VnodeRecord
<1>11. Relinked(x) /\ sv'[x].links = sv[x].links + 1
  BY <1>1, <1>10, AddLinksIs
<1>12. lost' \/ sv'[x].links >= Links(i)'
  <2>1. SUFFICES ASSUME ~lost PROVE sv'[x].links >= Links(i)'
    BY <1>6
  <2>2. sv[x].links >= Links(i)
    BY <1>1, <1>2, <2>1
  <2> QED BY <1>9, <1>10, <1>11, <2>2
<1>13. Fits(s, e, i)
  BY <1>4, <1>5 DEF CanLink, Entries, Fits
<1>14. VnodesOK(t)' /\ NamesOK'
  BY <1>2, <1>4, <1>5, <1>6, <1>11, <1>12, <1>13, NamesChange
<1>15. /\ LinkSlot \in DOMAIN dir' /\ dir'[LinkSlot].ino \in {NOINO, sv[x].ino}
       /\ lost' \/ dir'[LinkSlot].ino = sv[x].ino
       /\ LinkSlot \in Nat /\ sv'[x].links # 0
  <2>1. s \in Nat
    BY <1>1, <1>4 DEF SharedTypes
  <2> QED BY <1>2, <1>3, <1>5, <1>6, <1>7, <1>10, <1>11, <2>1
<1>16. \A r \in DOMAIN dir : dir[r].ino # NOINO => r \in DOMAIN dir' /\ dir'[r] = dir[r] /\ r # LinkSlot
  BY <1>3, <1>4, <1>7
<1> QED BY <1>6, <1>7, <1>9, <1>11, <1>14, <1>15, <1>16

\* A name less, and a link less; or the links as they were.  The name is still there when the
\* write that erases it was lost.
LEMMA UnlinkStep ==
    ASSUME NEW t, Thread = {t}, Inv(t), pc[t] \notin {"add", "untable"}, pc'[t] # "add",
           UNCHANGED <<freemap, disklinks, made, vnodes, used>>,
           NEW x \in Vnode, Live(x), NEW s \in DOMAIN dir, dir[s].ino \in {NOINO, sv[x].ino},
           lost \/ dir[s].ino = sv[x].ino, Unlink(s),
           (sv[x].links # 0 /\ AddLinks(x, -1)) \/ UNCHANGED sv
    PROVE  /\ VnodesOK(t)' /\ NamesOK' /\ dir' \in Seq(DirEntry) /\ Relinked(x)
           /\ \A r \in DOMAIN dir : r # s => r \in DOMAIN dir' /\ dir'[r] = dir[r]
           /\ \A j \in Ino : j # sv[x].ino => Links(j)' = Links(j)
           /\ lost' \in BOOLEAN /\ (lost => lost')
<1>1. /\ SharedTypes /\ NamesOK /\ sv[x].ino \in Ino /\ sv[x] \in VnodeRecord
      /\ lost \/ sv[x].links >= Links(sv[x].ino)
  BY DEF Inv, VnodesOK, VnodeOK, OneEach, SharedTypes
<1>2. PICK i : i = sv[x].ino
  OBVIOUS
<1>3. dir \in Seq(DirEntry) /\ Len(dir) \in Nat /\ DOMAIN dir = 1..Len(dir) /\ s \in 1..(Len(dir) + 1)
  BY <1>1 DEF SharedTypes
<1>0. lost' \in BOOLEAN /\ (lost => lost') /\ (lost' \/ ~lost)
  BY <1>1 DEF SharedTypes, Unlink, Write
<1>4. PICK e \in DirEntry : Put(s, e) /\ (e.ino = NOINO \/ e = dir[s]) /\ (lost' \/ e.ino = NOINO)
  <2>1. CASE Put(s, NoEntry)
    <3>1. NoEntry \in DirEntry /\ NoEntry.ino = NOINO
      BY SfsVnodesAssumption DEF NoEntry, DirEntry, NOINO
    <3> QED BY <2>1, <3>1
  <2>2. CASE UNCHANGED dir /\ lost'
    <3>1. dir[s] \in DirEntry /\ ~(s > Len(dir))
      BY <1>3
    <3>2. Put(s, dir[s])
      BY <1>3, <2>2, <3>1 DEF Put
    <3> QED BY <2>2, <3>1, <3>2
  <2> QED BY <2>1, <2>2 DEF Unlink, Write
<1>5. lost' \in BOOLEAN /\ (lost => lost') /\ (lost' \/ (~lost /\ e.ino = NOINO /\ dir[s].ino = i))
  BY <1>0, <1>2, <1>4
<1>6. /\ dir' \in Seq(DirEntry) /\ DOMAIN dir' = DOMAIN dir \cup {s}
      /\ \A r \in DOMAIN dir : r # s => dir'[r] = dir[r]
      /\ \A j : Links(j)' = Links(j) + Ind(e.ino = j) - Ind(s \in NamesOf(j))
  BY <1>1, <1>3, <1>4, PutSlot
<1>7. sv[x].links \in Nat /\ (sv[x].links # 0 => sv[x].links + (-1) \in Nat)
  BY <1>1 DEF VnodeRecord
<1>8. Relinked(x) /\ (sv'[x].links = sv[x].links \/ sv'[x].links = sv[x].links + (-1))
  <2>1. CASE sv[x].links # 0 /\ AddLinks(x, -1)
    BY <1>1, <1>7, <2>1, AddLinksIs
  <2>2. CASE UNCHANGED sv
    BY <1>1, <2>2 DEF SharedTypes, Relinked
  <2> QED BY <2>1, <2>2
<1>9. lost' \/ sv'[x].links >= Links(i)'
  <2>1. SUFFICES ASSUME ~lost, e.ino = NOINO, dir[s].ino = i PROVE sv'[x].links >= Links(i)'
    BY <1>5
  <2>2. s \in NamesOf(i) /\ e.ino # i
    BY <1>1, <1>2, <2>1 DEF NamesOf, Ino, NOINO
  <2>3. Ind(s \in NamesOf(i)) = 1 /\ Ind(e.ino = i) = 0
    BY <2>2 DEF Ind
  <2>4. Links(i)' = Links(i) - 1 /\ Links(i) \in Nat /\ sv[x].links >= Links(i)
    BY <1>1, <1>2, <1>6, <2>1, <2>3, LinksNat
  <2> QED BY <1>7, <1>8, <2>4
<1>10. VnodesOK(t)' /\ NamesOK'
  <2>1. \A r \in DOMAIN dir : r # s /\ dir[r].ino # NOINO /\ dir[s].ino # NOINO => dir[r].name # dir[s].name
    BY <1>1 DEF NamesOK
  <2>2. Fits(s, e, i)
    BY <1>2, <1>4, <2>1 DEF Fits
  <2> QED BY <1>2, <1>3, <1>4, <1>5, <1>8, <1>9, <2>2, NamesChange
<1>11. ASSUME NEW j \in Ino, j # i PROVE Links(j)' = Links(j)
  <2>1. s \notin NamesOf(j) /\ e.ino # j
    BY <1>2, <1>4, <1>11 DEF NamesOf, Ino, NOINO
  <2>2. Ind(s \in NamesOf(j)) = 0 /\ Ind(e.ino = j) = 0
    BY <2>1 DEF Ind
  <2> QED BY <1>1, <1>6, <2>2, LinksNat
<1> QED BY <1>2, <1>5, <1>6, <1>8, <1>10, <1>11

----------------------------------------------------------------------------
(* Each step keeps the invariant *)

\* No vnode is in use while v is 0.
LEMMA NoVnode == 0 \notin Vnode
  BY DEF Vnode

\* A call that begins with a search of the directory.
LEMMA BeginStep ==
    ASSUME NEW t, Thread = {t}, Inv(t), NEW o \in Searches, NEW n \in Name \cup {NoName},
           NEW n2 \in Name \cup {NoName}, Begin(t, o, n, n2)
    PROVE  Inv(t)' /\ panicked' = "no"
<1>1. SharedTypes /\ LocalTypes /\ WorkOK(t) /\ pc[t] = "idle" /\ v[t] = 0
  BY DEF Inv, WorkOK, Unloaded, Begin, At
<1>2. pc' \in [Thread -> Labels] /\ pc'[t] = "find"
  BY <1>1, GotoLabel DEF Begin, Labels, Unloaded
<1>3. /\ op' \in [Thread -> Searches \cup {"none", "make", "close"}] /\ op'[t] = o
      /\ name' \in [Thread -> Name \cup {NoName}] /\ name2' \in [Thread -> Name \cup {NoName}]
  BY <1>1 DEF Begin, LocalTypes
<1>4. UNCHANGED <<disk, vnodes, sv, used, held, ino, v, slot, slot2, panicked>> /\ panicked = "no"
  BY DEF Begin, At
<1>5. LocalTypes'
  BY <1>1, <1>2, <1>3, <1>4 DEF LocalTypes
<1>6. SharedTypes' /\ NamesOK' /\ VnodesOK(t)' /\ RefsOK(t)'
  <2>1. \A x \in Vnode : ~Using(t, x)'
    BY <1>1, <1>4, NoVnode DEF Using
  <2> QED BY <1>1, <1>2, <1>4, <2>1, Quiet
<1>7. WorkOK(t)'
  BY <1>1, <1>2, <1>3, <1>4 DEF WorkOK, Unloaded, Reclaims
<1> QED BY <1>4, <1>5, <1>6, <1>7 DEF Inv

\* The name is searched for.
LEMMA FindStep ==
    ASSUME NEW t, Thread = {t}, Inv(t), find(t)
    PROVE  Inv(t)' /\ panicked' = "no"
<1>1. SharedTypes /\ LocalTypes /\ WorkOK(t) /\ pc[t] = "find" /\ v[t] = 0 /\ op[t] \in Searches /\ panicked = "no"
  BY DEF Inv, WorkOK, Unloaded, find, At
<1>2. UNCHANGED <<disk, vnodes, sv, used, held>>
  BY DEF find
<1>3. ASSUME NEW s \in Entries(name[t]), Found(t, s) PROVE Inv(t)' /\ panicked' = "no"
  <2>1. s \in DOMAIN dir /\ dir[s].ino # NOINO /\ (lost \/ dir[s].ino \in freemap)
    BY DEF Entries, Inv, NamesOK
  <2>2. Entries(name[t]) = {s}
    BY DEF Entries, Inv, NamesOK
  <2>3. panicked' = "no"
    <3>1. Cardinality(Entries(name[t])) = 1
      BY <2>2, FS_Singleton
    <3> QED BY <1>1, <1>3, <3>1 DEF Found, PanicIf
  <2>4. pc' \in [Thread -> Labels] /\ pc'[t] = "scan"
    BY <1>1, <1>3, GotoLabel DEF Found, Labels, Unloaded
  <2>5. dir[s].ino \in Ino /\ dir[s].ino \in 0..NInodes /\ s \in Nat
    <3>1. DOMAIN dir = 1..Len(dir) /\ Len(dir) \in Nat /\ dir \in Seq(DirEntry)
      BY <1>1 DEF SharedTypes
    <3>2. dir[s] \in DirEntry
      BY <2>1, <3>1
    <3>3. dir[s].ino \in 0..NInodes
      BY <3>2 DEF DirEntry
    <3> QED BY <2>1, <3>1, <3>3 DEF Ino, NOINO
  <2>6. /\ ino' \in [Thread -> 0..NInodes] /\ slot' \in [Thread -> Nat]
        /\ ino'[t] = dir[s].ino /\ slot'[t] = s /\ UNCHANGED <<op, name, name2, v, slot2>>
    BY <1>1, <1>3, <2>5 DEF Found, LocalTypes
  <2>7. LocalTypes'
    BY <1>1, <2>4, <2>6 DEF LocalTypes
  <2>8. SharedTypes' /\ NamesOK' /\ VnodesOK(t)' /\ RefsOK(t)'
    <3>1. \A x \in Vnode : ~Using(t, x)'
      BY <1>1, <2>6, NoVnode DEF Using
    <3> QED BY <1>1, <1>2, <2>4, <3>1, Quiet
  <2>9. WorkOK(t)'
    <3>1. dir' = dir /\ freemap' = freemap /\ lost' = lost
      BY <1>2 DEF disk
    <3>2. v'[t] = 0 /\ op'[t] \in Searches /\ op'[t] # "make"
      BY <1>1, <2>6 DEF Searches
    <3>3. SlotIs(t, slot[t])'
      BY <2>1, <2>6, <3>1 DEF SlotIs
    <3> QED BY <2>1, <2>4, <2>5, <2>6, <3>1, <3>2, <3>3 DEF WorkOK, Unloaded, Reclaims
  <2> QED BY <2>3, <2>7, <2>8, <2>9 DEF Inv
<1>4. ASSUME op' = [op EXCEPT ![t] = "make"], Goto(t, "balloc"), UNCHANGED <<locals, panicked>>
      PROVE  Inv(t)' /\ panicked' = "no"
  <2>1. pc' \in [Thread -> Labels] /\ pc'[t] = "balloc"
    BY <1>1, <1>4, GotoLabel DEF Labels, Unloaded
  <2>2. op' \in [Thread -> Searches \cup {"none", "make", "close"}] /\ op'[t] = "make"
    BY <1>1, <1>4 DEF LocalTypes
  <2>3. UNCHANGED <<name, name2, ino, v, slot, slot2>>
    BY <1>4 DEF locals
  <2>4. LocalTypes'
    BY <1>1, <2>1, <2>2, <2>3 DEF LocalTypes
  <2>5. SharedTypes' /\ NamesOK' /\ VnodesOK(t)' /\ RefsOK(t)'
    <3>1. \A x \in Vnode : ~Using(t, x)'
      BY <1>1, <2>3, NoVnode DEF Using
    <3> QED BY <1>1, <1>2, <2>1, <3>1, Quiet
  <2>6. WorkOK(t)'
    BY <1>1, <2>1, <2>2, <2>3 DEF WorkOK, Unloaded, Reclaims
  <2> QED BY <1>1, <1>4, <2>4, <2>5, <2>6 DEF Inv
<1>5. ASSUME Return(t), UNCHANGED panicked PROVE Inv(t)' /\ panicked' = "no"
  <2>1. LocalTypes' /\ WorkOK(t)' /\ pc'[t] = "idle"
    BY <1>1, <1>5, Returned
  <2>2. SharedTypes' /\ NamesOK' /\ VnodesOK(t)' /\ RefsOK(t)'
    <3>1. \A x \in Vnode : ~Using(t, x)'
      BY <2>1 DEF Using
    <3> QED BY <1>1, <1>2, <2>1, <3>1, Quiet
  <2> QED BY <1>1, <1>5, <2>1, <2>2 DEF Inv
<1> QED BY <1>3, <1>4, <1>5 DEF find

\* Returning without a change of shared state.
LEMMA ReturnStep ==
    ASSUME NEW t, Thread = {t}, Inv(t), UNCHANGED <<disk, vnodes, sv, used, held>>,
           pc[t] \notin {"add", "untable"}, Return(t)
    PROVE  Inv(t)'
<1>1. LocalTypes' /\ WorkOK(t)' /\ pc'[t] = "idle"
  BY Returned DEF Inv
<1>2. \A x \in Vnode : ~Using(t, x)'
  BY <1>1 DEF Using
<1>3. SharedTypes' /\ NamesOK' /\ VnodesOK(t)' /\ RefsOK(t)'
  BY <1>1, <1>2, Quiet
<1> QED BY <1>1, <1>3 DEF Inv

\* A block for a new inode.
LEMMA BallocStep ==
    ASSUME NEW t, Thread = {t}, Inv(t), balloc(t)
    PROVE  Inv(t)' /\ panicked' = "no"
<1>1. /\ SharedTypes /\ LocalTypes /\ WorkOK(t) /\ NamesOK /\ VnodesOK(t) /\ RefsOK(t)
      /\ pc[t] = "balloc" /\ v[t] = 0 /\ op[t] = "make" /\ panicked = "no"
  BY DEF Inv, WorkOK, Unloaded, balloc, At
<1>2. panicked' = "no" /\ UNCHANGED <<dir, vnodes, sv, used, held>>
  BY <1>1 DEF balloc
<1>3. CASE Ino \ freemap = {}
  BY <1>1, <1>2, <1>3, ReturnStep DEF balloc, disk
<1>4. CASE Ino \ freemap # {}
  <2>1. PICK i : i = Min(Ino \ freemap)
    OBVIOUS
  <2>2. i \in Ino /\ i \notin freemap
    <3>1. Ino \ freemap \in SUBSET Nat
      BY DEF Ino
    <3>2. \E m \in Ino \ freemap : \A k \in Ino \ freemap : m <= k
      BY <1>4, <3>1, LeastNatural
    <3>3. Min(Ino \ freemap) \in Ino \ freemap
      BY <3>2 DEF Min
    <3> QED BY <2>1, <3>3
  <2>3. /\ freemap' = freemap \cup {i}
        /\ \/ /\ \/ /\ disklinks' = [disklinks EXCEPT ![i] = 0] /\ made' = made \ {i}
                    /\ UNCHANGED lost
                 \/ UNCHANGED <<disklinks, made>> /\ lost' = TRUE
              /\ ino' = [ino EXCEPT ![t] = i]
              /\ Goto(t, "scan") /\ UNCHANGED <<op, name, name2, v, slot, slot2>>
           \/ Return(t) /\ UNCHANGED <<disklinks, made, lost>>
    BY <1>4, <2>1 DEF balloc, Write
  <2>4. /\ disklinks' \in [Ino -> Nat] /\ \A j \in Ino : j # i => disklinks'[j] = disklinks[j]
        /\ made' \subseteq Ino /\ \A j : j # i => (j \in made' <=> j \in made)
        /\ lost' \in BOOLEAN /\ (lost => lost')
    <3>1. disklinks' \in [Ino -> Nat] /\ \A j \in Ino : j # i => disklinks'[j] = disklinks[j]
      BY <1>1, <2>2, <2>3 DEF SharedTypes
    <3>2. made' \subseteq Ino /\ \A j : j # i => (j \in made' <=> j \in made)
      BY <1>1, <2>3 DEF SharedTypes
    <3>3. lost' \in BOOLEAN /\ (lost => lost')
      BY <1>1, <2>3 DEF SharedTypes
    <3> QED BY <3>1, <3>2, <3>3
  <2>5. ~Resident(i) /\ (lost \/ \A s \in DOMAIN dir : dir[s].ino # i)
    <3>1. \A x \in Vnode : Live(x) => sv[x].ino \in freemap
      BY <1>1 DEF VnodesOK, VnodeOK, Killing
    <3> QED BY <1>1, <2>2, <3>1 DEF Resident, NamesOK, Ino, NOINO
  <2>6. (lost \/ Links(i) = 0) /\ \A j : Links(j)' = Links(j)
    <3>1. lost \/ NamesOf(i) = {}
      BY <2>5 DEF NamesOf
    <3>2. lost \/ Links(i) = 0
      BY <1>1, <3>1, LinksNat
    <3> QED BY <1>2, <3>2 DEF Links
  <2>7. pc'[t] \in {"scan", "idle"} /\ v'[t] = 0
    BY <1>1, <2>3, Returned, GotoLabel DEF Labels, Unloaded
  <2>8. SharedTypes'
    BY <1>1, <1>2, <2>2, <2>3, <2>4 DEF SharedTypes
  <2>9. NamesOK'
    <3>1. ASSUME NEW j \in Ino PROVE lost' \/ Resident(j)' \/ OnDisk(j)'
      <4>1. Resident(j)' <=> Resident(j)
        BY <1>2 DEF Resident, Live
      <4>2. lost \/ Resident(j) \/ Links(j) = 0 \/ (j \in made /\ disklinks[j] >= Links(j))
        BY <1>1 DEF NamesOK, OnDisk
      <4>3. CASE j = i
        BY <2>4, <2>6, <4>3 DEF OnDisk
      <4>4. CASE j # i
        BY <2>4, <2>6, <4>1, <4>2, <4>4 DEF OnDisk
      <4> QED BY <4>3, <4>4
    <3> QED BY <1>1, <1>2, <2>3, <2>4, <3>1 DEF NamesOK
  <2>10. VnodesOK(t)'
    <3>1. \A x \in Vnode : Live(x)' <=> Live(x)
      BY <1>2 DEF Live
    <3>2. OneEach'
      BY <1>1, <1>2, <3>1 DEF VnodesOK, OneEach
    <3>3. ASSUME NEW x \in Vnode PROVE VnodeOK(t, x)'
      <4>1. VnodeOK(t, x) /\ ~Adding(t, x) /\ ~Adding(t, x)' /\ ~Killing(t, x)
        BY <1>1, <2>7 DEF VnodesOK, Adding, Killing
      <4>2. Live(x) => /\ disklinks'[sv[x].ino] = disklinks[sv[x].ino] /\ Links(sv[x].ino)' = Links(sv[x].ino)
                       /\ sv[x].ino \in made' <=> sv[x].ino \in made
        <5>1. SUFFICES ASSUME Live(x)
                       PROVE  /\ disklinks'[sv[x].ino] = disklinks[sv[x].ino] /\ Links(sv[x].ino)' = Links(sv[x].ino)
                              /\ sv[x].ino \in made' <=> sv[x].ino \in made
          OBVIOUS
        <5>2. sv[x].ino \in Ino /\ sv[x].ino # i
          BY <2>5, <4>1, <5>1 DEF VnodeOK, Resident
        <5> QED BY <1>2, <2>4, <5>2 DEF Links
      <4> QED BY <1>2, <2>3, <2>4, <3>1, <4>1, <4>2 DEF VnodeOK
    <3> QED BY <3>2, <3>3 DEF VnodesOK
  <2>11. RefsOK(t)'
    <3>1. \A x \in Vnode : ~Using(t, x)' /\ ~Using(t, x)
      BY <1>1, <2>7, NoVnode DEF Using
    <3>2. \A x \in Vnode : sv'[x].refcount - Ind(Using(t, x)') >= sv[x].refcount - Ind(Using(t, x))
      <4>1. TAKE x \in Vnode
      <4>2. sv'[x] = sv[x] /\ sv[x].refcount \in Nat
        BY <1>1, <1>2 DEF SharedTypes, VnodeRecord
      <4>3. Ind(Using(t, x)') = 0 /\ Ind(Using(t, x)) = 0
        BY <3>1 DEF Ind
      <4> QED BY <4>2, <4>3
    <3> QED BY <1>1, <1>2, <2>8, <3>2, RefsStep DEF RefsOK
  <2>12. LocalTypes' /\ WorkOK(t)'
    <3>1. CASE Return(t)
      BY <1>1, <3>1, Returned
    <3>2. CASE /\ \/ /\ disklinks' = [disklinks EXCEPT ![i] = 0] /\ made' = made \ {i}
                     /\ UNCHANGED lost
                  \/ UNCHANGED <<disklinks, made>> /\ lost' = TRUE
               /\ ino' = [ino EXCEPT ![t] = i]
               /\ Goto(t, "scan") /\ UNCHANGED <<op, name, name2, v, slot, slot2>>
      <4>1. pc' \in [Thread -> Labels] /\ pc'[t] = "scan"
        BY <1>1, <3>2, GotoLabel DEF Labels, Unloaded
      <4>2. ino' \in [Thread -> 0..NInodes] /\ ino'[t] = i
        BY <1>1, <2>2, <3>2 DEF LocalTypes, Ino
      <4>3. LocalTypes'
        BY <1>1, <3>2, <4>1, <4>2 DEF LocalTypes
      <4>4. op'[t] = "make" /\ ino'[t] \in freemap' /\ ino'[t] \in Ino /\ ~Resident(ino[t])'
        BY <1>1, <1>2, <2>2, <2>3, <2>5, <3>2, <4>2 DEF Resident, Live
      <4>5. lost' \/ ino'[t] \notin made'
        BY <3>2, <4>2
      <4>6. Links(ino[t])' = Links(i)'
        BY <4>2 DEF Links
      <4>7. lost' \/ Links(ino[t])' = 0
        BY <2>4, <2>6, <4>6
      <4> QED BY <2>7, <4>1, <4>3, <4>4, <4>5, <4>7 DEF WorkOK, Unloaded, Reclaims
    <3> QED BY <2>3, <3>1, <3>2
  <2> QED BY <1>2, <2>8, <2>9, <2>10, <2>11, <2>12 DEF Inv
<1> QED BY <1>3, <1>4

\* The vnode in hand is given up: what is known of it is that it is there.
LEMMA AtDecref ==
    ASSUME NEW t, pc'[t] \in {"decref", "reclaim", "sync"}, v'[t] \in Vnode, Live(v[t])',
           pc'[t] # "decref" => sv'[v'[t]].refcount = 1
    PROVE  WorkOK(t)'
  BY DEF WorkOK, Unloaded, Reclaims

\* The vnode in hand exists, its inode is in use, and the table has it.
LEMMA InHand ==
    ASSUME NEW t, Thread = {t}, Inv(t), pc[t] \notin Unloaded
    PROVE  /\ v[t] \in Vnode /\ Live(v[t]) /\ sv[v[t]] \in VnodeRecord /\ sv[v[t]].ino \in Ino
           /\ VnodeOK(t, v[t]) /\ (pc[t] # "add" => v[t] \in ToSet(vnodes))
  BY DEF Inv, WorkOK, VnodesOK, VnodeOK, SharedTypes, Adding

\* A file found in the directory has links, unless a write was lost.
LEMMA HasLinks ==
    ASSUME NEW t, Thread = {t}, Inv(t), pc[t] \in {"got", "unlink_old"}, op[t] # "make"
    PROVE  (lost \/ sv[v[t]].links # 0) /\ slot[t] \in DOMAIN dir /\ dir[slot[t]].ino = sv[v[t]].ino
           /\ sv[v[t]].ino = ino[t] /\ ino[t] \in Ino
<1>1. SlotIs(t, slot[t]) /\ sv[v[t]].ino = ino[t]
  BY DEF Inv, WorkOK
<1>2. (lost \/ sv[v[t]].links >= Links(sv[v[t]].ino)) /\ sv[v[t]].links \in Nat /\ sv[v[t]].ino \in Ino
  BY InHand DEF VnodeOK, VnodeRecord, Unloaded
<1>3. slot[t] \in NamesOf(ino[t])
  BY <1>1 DEF SlotIs, NamesOf
<1>4. Links(ino[t]) \in Nat /\ Links(ino[t]) # 0
  BY <1>3, LinksNat DEF Inv
<1> QED BY <1>1, <1>2, <1>4 DEF SlotIs

\* A record of a vnode is changed, or written to disk, and its links are not.
LEMMA Rewritten ==
    ASSUME NEW t, Thread = {t}, Inv(t), NEW x \in Vnode, Live(x), NEW q \in VnodeRecord,
           sv' = [sv EXCEPT ![x] = q], q.ino = sv[x].ino, q.links = sv[x].links, q.state = "live",
           q.refcount >= 1, UNCHANGED <<dir, freemap, vnodes, used, held>>,
           \/ q.dirty = sv[x].dirty /\ UNCHANGED <<disklinks, made, lost>>
           \/ /\ disklinks' = [disklinks EXCEPT ![sv[x].ino] = sv[x].links]
              /\ made' = made \cup {sv[x].ino} /\ UNCHANGED lost
           \/ UNCHANGED <<disklinks, made>> /\ lost' = TRUE,
           \A y \in Vnode : (Adding(t, y)' <=> Adding(t, y)) /\ (Killing(t, y) => Killing(t, y)')
    PROVE  SharedTypes' /\ NamesOK' /\ VnodesOK(t)'
<1>1. SharedTypes /\ NamesOK /\ VnodesOK(t) /\ sv \in [Vnode -> VnodeRecord]
  BY DEF Inv, SharedTypes
<1>2. PICK i : i = sv[x].ino
  OBVIOUS
<1>3. /\ i \in Ino /\ sv[x].links \in Nat /\ (lost \/ sv[x].links >= Links(i))
      /\ lost \/ sv[x].dirty \/ (disklinks[i] = sv[x].links /\ i \in made)
  BY <1>1, <1>2 DEF VnodesOK, VnodeOK, VnodeRecord
<1>4. /\ disklinks' \in [Ino -> Nat] /\ \A j \in Ino : j # i => disklinks'[j] = disklinks[j]
      /\ made' \subseteq Ino /\ \A j \in Ino : j # i => (j \in made' <=> j \in made)
      /\ lost' \in BOOLEAN /\ (lost => lost')
      /\ lost' \/ q.dirty \/ (disklinks'[i] = sv[x].links /\ i \in made')
  <2>1. disklinks \in [Ino -> Nat] /\ made \subseteq Ino /\ lost \in BOOLEAN
    BY <1>1 DEF SharedTypes
  <2>2. CASE q.dirty = sv[x].dirty /\ UNCHANGED <<disklinks, made, lost>>
    BY <1>3, <2>1, <2>2
  <2>3. CASE /\ disklinks' = [disklinks EXCEPT ![sv[x].ino] = sv[x].links]
             /\ made' = made \cup {sv[x].ino} /\ UNCHANGED lost
    BY <1>2, <1>3, <2>1, <2>3
  <2>4. CASE UNCHANGED <<disklinks, made>> /\ lost' = TRUE
    BY <2>1, <2>4
  <2> QED BY <2>2, <2>3, <2>4
<1>5. sv' \in [Vnode -> VnodeRecord] /\ sv'[x] = q /\ \A y \in Vnode : y # x => sv'[y] = sv[y]
  BY <1>1
<1>6. SharedTypes'
  BY <1>1, <1>4, <1>5 DEF SharedTypes
<1>7. \A y \in Vnode : (Live(y)' <=> Live(y)) /\ sv'[y].ino = sv[y].ino /\ sv'[y].links = sv[y].links
  BY <1>5 DEF Live
<1>8. NamesOK'
  <2>1. ASSUME NEW j \in Ino PROVE lost' \/ Resident(j)' \/ OnDisk(j)'
    <3>1. Links(j)' = Links(j) /\ (Resident(j)' <=> Resident(j))
      BY <1>7 DEF Links, Resident
    <3>2. lost \/ Resident(j) \/ Links(j) = 0 \/ (j \in made /\ disklinks[j] >= Links(j))
      BY <1>1 DEF NamesOK, OnDisk
    <3>3. j = i => Resident(j)
      BY <1>2 DEF Resident
    <3> QED BY <1>4, <3>1, <3>2, <3>3 DEF OnDisk
  <2> QED BY <1>1, <1>4, <2>1 DEF NamesOK
<1>9. VnodesOK(t)'
  <2>1. OneEach'
    BY <1>1, <1>7 DEF VnodesOK, OneEach
  <2>2. ASSUME NEW y \in Vnode PROVE VnodeOK(t, y)'
    <3>1. VnodeOK(t, y)
      BY <1>1 DEF VnodesOK
    <3>2. Links(sv[y].ino)' = Links(sv[y].ino)
      BY <1>7 DEF Links
    <3>3. CASE y = x
      BY <1>2, <1>4, <1>5, <1>7, <3>1, <3>2, <3>3 DEF VnodeOK
    <3>4. CASE y # x
      <4>1. Live(y) => sv[y].ino \in Ino /\ sv[y].ino # i
        BY <1>1, <1>2, <3>1, <3>4 DEF VnodesOK, VnodeOK, OneEach
      <4>2. Live(y) => /\ disklinks'[sv[y].ino] = disklinks[sv[y].ino]
                       /\ sv[y].ino \in made' <=> sv[y].ino \in made
        BY <1>4, <4>1
      <4> QED BY <1>4, <1>5, <1>7, <3>1, <3>2, <3>4, <4>2 DEF VnodeOK
    <3> QED BY <3>3, <3>4
  <2> QED BY <2>1, <2>2 DEF VnodesOK
<1> QED BY <1>6, <1>8, <1>9

\* The counts still cover the references when only the count of one vnode changes.
LEMMA RefsOfOne ==
    ASSUME NEW t, Thread = {t}, Inv(t), SharedTypes', NEW x \in Vnode, NEW q \in VnodeRecord,
           sv' = [sv EXCEPT ![x] = q], UNCHANGED held, ToSet(held[t]) \subseteq ToSet(vnodes'),
           q.refcount - Ind(Using(t, x)') >= sv[x].refcount - Ind(Using(t, x)),
           \A y \in Vnode : y # x => ~Using(t, y)'
    PROVE  RefsOK(t)'
<1>1. sv'[x] = q /\ \A y \in Vnode : y # x => sv'[y] = sv[y]
  BY DEF Inv, SharedTypes
<1>2. ASSUME NEW y \in Vnode PROVE sv'[y].refcount - Ind(Using(t, y)') >= sv[y].refcount - Ind(Using(t, y))
  <2>1. CASE y = x
    BY <1>1, <2>1
  <2>2. CASE y # x
    <3>1. sv'[y] = sv[y] /\ sv[y].refcount \in Nat
      BY <1>1, <2>2 DEF Inv, SharedTypes, VnodeRecord
    <3>2. Ind(Using(t, y)') = 0 /\ Ind(Using(t, y)) \in Nat
      BY <2>2 DEF Ind
    <3> QED BY <3>1, <3>2
  <2> QED BY <2>1, <2>2
<1> QED BY <1>2, RefsStep DEF Inv

\* Nothing changes.
LEMMA StutterStep ==
    ASSUME NEW t, Thread = {t}, Inv(t), UNCHANGED <<disk, vnodes, sv, used, held, pc, op, locals>>
    PROVE  Inv(t)'
<1>1. /\ dir' = dir /\ freemap' = freemap /\ disklinks' = disklinks /\ held' = held
      /\ made' = made /\ lost' = lost
      /\ vnodes' = vnodes /\ sv' = sv /\ used' = used /\ pc' = pc /\ op' = op
      /\ name' = name /\ name2' = name2 /\ ino' = ino /\ v' = v /\ slot' = slot /\ slot2' = slot2
  BY DEF disk, locals
<1>2. SharedTypes' /\ LocalTypes' /\ NamesOK'
  BY <1>1 DEF Inv, SharedTypes, LocalTypes, NamesOK, OnDisk, Resident, Live, Links
<1>3. VnodesOK(t)' /\ RefsOK(t)'
  BY <1>1 DEF Inv, VnodesOK, VnodeOK, OneEach, Live, Adding, Killing, Links, RefsOK, Kept, Using
<1>4. WorkOK(t)'
  BY <1>1 DEF Inv, WorkOK, Live, Resident, SlotIs, Links
<1> QED BY <1>2, <1>3, <1>4 DEF Inv

\* The types of the shared state, and the references, after a change of names and links.
LEMMA RelinkedRefs ==
    ASSUME NEW t, Thread = {t}, Inv(t), NEW x \in Vnode, Relinked(x), dir' \in Seq(DirEntry),
           lost' \in BOOLEAN, UNCHANGED <<freemap, disklinks, made, vnodes, used, held>>,
           \A y \in Vnode : Using(t, y)' => Using(t, y)
    PROVE  SharedTypes' /\ RefsOK(t)' /\ \A y \in Vnode : Live(y)' <=> Live(y)
<1>1. SharedTypes'
  BY DEF Inv, SharedTypes, Relinked
<1>2. ASSUME NEW y \in Vnode PROVE sv'[y].refcount - Ind(Using(t, y)') >= sv[y].refcount - Ind(Using(t, y))
  <2>1. sv'[y].refcount = sv[y].refcount /\ sv[y].refcount \in Nat
    BY DEF Inv, SharedTypes, VnodeRecord, Relinked
  <2>2. Ind(Using(t, y)') <= Ind(Using(t, y)) /\ Ind(Using(t, y)') \in Nat /\ Ind(Using(t, y)) \in Nat
    BY DEF Ind
  <2> QED BY <2>1, <2>2
<1>3. RefsOK(t)'
  BY <1>1, <1>2, RefsStep DEF Inv, RefsOK
<1> QED BY <1>1, <1>3 DEF Live, Relinked

\* A new name for a file that t has open.
LEMMA LinkCallStep ==
    ASSUME NEW t, Thread = {t}, Inv(t), NEW n \in Name, NEW i \in DOMAIN held[t], sfs_link(t, n, i)
    PROVE  Inv(t)' /\ panicked' = "no"
<1>1. pc[t] = "idle" /\ panicked = "no" /\ v[t] = 0 /\ LocalTypes
  BY DEF sfs_link, At, Inv, WorkOK, Unloaded
<1>2. UNCHANGED <<freemap, disklinks, made, vnodes, used, held, pc, op, locals, panicked>>
  BY DEF sfs_link
<1>3. PICK x : x = held[t][i]
  OBVIOUS
<1>4. x \in Vnode /\ Live(x)
  <2>1. x \in ToSet(held[t]) /\ x \in Vnode
    BY <1>3 DEF Inv, SharedTypes, ToSet
  <2> QED BY <2>1 DEF Inv, RefsOK, VnodesOK, VnodeOK
<1>5. CASE Link(n, sv[x].ino) /\ AddLinks(x, 1)
  <2>1. VnodesOK(t)' /\ NamesOK' /\ dir' \in Seq(DirEntry) /\ Relinked(x) /\ lost' \in BOOLEAN
    BY <1>1, <1>2, <1>4, <1>5, LinkStep DEF sfs_link
  <2>2. \A y \in Vnode : Using(t, y)' => Using(t, y)
    BY <1>2 DEF Using, locals
  <2>3. SharedTypes' /\ RefsOK(t)'
    BY <1>2, <1>4, <2>1, <2>2, RelinkedRefs
  <2>4. LocalTypes' /\ WorkOK(t)'
    BY <1>1, <1>2 DEF LocalTypes, WorkOK, locals, Unloaded, Reclaims
  <2> QED BY <1>1, <1>2, <2>1, <2>3, <2>4 DEF Inv
<1>6. CASE UNCHANGED <<dir, lost, sv>>
  BY <1>1, <1>2, <1>6, StutterStep DEF disk
<1> QED BY <1>3, <1>5, <1>6 DEF sfs_link

\* A file that t has open is closed: its reference is in hand.
LEMMA CloseStep ==
    ASSUME NEW t, Thread = {t}, Inv(t), NEW i \in DOMAIN held[t], close(t, i)
    PROVE  Inv(t)' /\ panicked' = "no"
<1>1. pc[t] = "idle" /\ panicked = "no" /\ v[t] = 0 /\ LocalTypes /\ SharedTypes /\ RefsOK(t)
  BY DEF close, At, Inv, WorkOK, Unloaded
<1>2. UNCHANGED <<disk, vnodes, sv, used, name, name2, ino, slot, slot2, panicked>>
  BY DEF close
<1>3. held' = [held EXCEPT ![t] = RemoveAt(@, i)]
  BY DEF close
<1>4. PICK x : x = held[t][i]
  OBVIOUS
<1>5. /\ held' \in [Thread -> Seq(Vnode)] /\ ToSet(held'[t]) \subseteq ToSet(held[t])
      /\ x \in Vnode /\ x \in ToSet(held[t])
      /\ \A y : Cardinality(Kept(t, y)) = Cardinality(Kept(t, y)') + Ind(y = x)
      /\ \A y : Cardinality(Kept(t, y)') \in Nat
  <2>1. /\ held' \in [Thread -> Seq(Vnode)] /\ ToSet(held'[t]) \subseteq ToSet(held[t])
        /\ held[t][i] \in Vnode /\ held[t][i] \in ToSet(held[t])
        /\ \A y : Cardinality(Kept(t, y)) = Cardinality(Kept(t, y)') + Ind(y = held[t][i])
        /\ \A y : Cardinality(Kept(t, y)') \in Nat
    BY <1>1, <1>3, KeptLess
  <2> QED BY <1>4, <2>1
<1>6. pc' \in [Thread -> Labels] /\ pc'[t] = "decref"
  BY <1>1, GotoLabel DEF close, Labels
<1>7. /\ v' \in [Thread -> 0..NVnodes] /\ v'[t] = x
      /\ op' \in [Thread -> Searches \cup {"none", "make", "close"}]
  BY <1>1, <1>4, <1>5 DEF close, LocalTypes, Vnode
<1>8. LocalTypes'
  BY <1>1, <1>2, <1>6, <1>7 DEF LocalTypes
<1>9. NamesOK' /\ VnodesOK(t)'
  BY <1>1, <1>2, <1>6, Still
<1>10. SharedTypes'
  BY <1>1, <1>2, <1>5 DEF SharedTypes, disk
<1>11. RefsOK(t)'
  <2>1. ToSet(held'[t]) \subseteq ToSet(vnodes')
    BY <1>1, <1>2, <1>5 DEF RefsOK
  <2>2. ASSUME NEW y \in Vnode PROVE Cardinality(Kept(t, y)') + Ind(Using(t, y)') <= sv'[y].refcount
    <3>1. Cardinality(Kept(t, y)) + Ind(Using(t, y)) <= sv[y].refcount /\ sv'[y] = sv[y] /\ sv[y].refcount \in Nat
      BY <1>1, <1>2 DEF RefsOK, SharedTypes, VnodeRecord
    <3>2. Using(t, y)' <=> y = x
      BY <1>6, <1>7 DEF Using
    <3>3. Ind(Using(t, y)') = Ind(y = x) /\ Ind(Using(t, y)) \in Nat /\ Ind(y = x) \in Nat
      BY <3>2 DEF Ind
    <3>4. Cardinality(Kept(t, y)) = Cardinality(Kept(t, y)') + Ind(y = x) /\ Cardinality(Kept(t, y)') \in Nat
      BY <1>5
    <3> QED BY <3>1, <3>3, <3>4
  <2> QED BY <2>1, <2>2 DEF RefsOK
<1>12. WorkOK(t)'
  <2>1. Live(x)'
    BY <1>1, <1>2, <1>5 DEF Inv, RefsOK, VnodesOK, VnodeOK, Live
  <2> QED BY <1>5, <1>6, <1>7, <2>1, AtDecref DEF Live
<1> QED BY <1>1, <1>2, <1>8, <1>9, <1>10, <1>11, <1>12 DEF Inv

\* The table is searched for the inode.
LEMMA ScanStep ==
    ASSUME NEW t, Thread = {t}, Inv(t), scan(t)
    PROVE  Inv(t)' /\ panicked' = "no"
<1>1. pc[t] = "scan" /\ panicked = "no" /\ v[t] = 0 /\ LocalTypes /\ SharedTypes /\ VnodesOK(t) /\ WorkOK(t)
  BY DEF scan, At, Inv, WorkOK, Unloaded
<1>2. UNCHANGED <<disk, vnodes, sv, used, held, op, name, name2, ino, slot, slot2>>
  BY DEF scan
<1>3. \A x \in Vnode : InTable(x) <=> Live(x)
  BY <1>1, InTableIs DEF VnodesOK, VnodeOK, Adding
<1>4. \A x \in Vnode : Live(x) => sv[x].ino \in freemap
  BY <1>1 DEF VnodesOK, VnodeOK, Killing
<1>5. Loaded(ino[t]) # {} <=> Resident(ino[t])
  BY <1>3 DEF Loaded, Resident
<1>6. op[t] = "make" => ~Resident(ino[t])
  BY <1>1 DEF WorkOK
<1>7. panicked' = "no"
  BY <1>1, <1>3, <1>4, <1>5, <1>6 DEF scan, PanicIf
<1>8. /\ op[t] \in Searches \cup {"make"} /\ ino[t] \in Ino /\ (lost \/ ino[t] \in freemap)
      /\ op[t] # "make" => SlotIs(t, slot[t])
      /\ op[t] = "make" => lost \/ (ino[t] \notin made /\ Links(ino[t]) = 0)
  BY <1>1 DEF WorkOK
<1>9. /\ op'[t] \in Searches \cup {"make"} /\ ino'[t] \in Ino /\ (lost' \/ ino'[t] \in freemap')
      /\ op'[t] # "make" => SlotIs(t, slot[t])'
      /\ op'[t] = "make" => lost' \/ (ino'[t] \notin made' /\ Links(ino[t])' = 0)
  BY <1>2, <1>8 DEF SlotIs, Links, disk
<1>10. CASE Loaded(ino[t]) # {}
  <2>1. PICK S : S = {i \in DOMAIN vnodes : sv[vnodes[i]].ino = ino[t]}
    OBVIOUS
  <2>2. S # {}
    BY <1>10, <2>1 DEF Loaded, InTable
  <2>3. S \in SUBSET Nat
    BY <1>1, <2>1 DEF SharedTypes
  <2>4. \E m \in S : \A k \in S : m <= k
    BY <2>2, <2>3, LeastNatural
  <2>5. PICK m \in S : m = Min(S)
    BY <2>4 DEF Min
  <2>6. PICK x : x = vnodes[m]
    OBVIOUS
  <2>7. x \in Vnode /\ Live(x) /\ sv[x].ino = ino[t]
    <3>1. m \in DOMAIN vnodes /\ sv[x].ino = ino[t]
      BY <2>1, <2>6
    <3>2. x \in Vnode /\ x \in ToSet(vnodes)
      BY <1>1, <2>6, <3>1 DEF SharedTypes, ToSet
    <3> QED BY <1>1, <3>1, <3>2 DEF VnodesOK, VnodeOK
  <2>8. v' = [v EXCEPT ![t] = x] /\ Goto(t, "incref")
    BY <1>10, <2>1, <2>5, <2>6 DEF scan
  <2>9. pc' \in [Thread -> Labels] /\ pc'[t] = "incref" /\ v' \in [Thread -> 0..NVnodes] /\ v'[t] = x
    <3>1. pc' \in [Thread -> Labels] /\ pc'[t] = "incref"
      BY <1>1, <2>8, GotoLabel DEF Labels
    <3> QED BY <1>1, <2>7, <2>8, <3>1 DEF LocalTypes, Vnode
  <2>10. LocalTypes'
    BY <1>1, <1>2, <2>9 DEF LocalTypes
  <2>11. SharedTypes' /\ NamesOK' /\ VnodesOK(t)' /\ RefsOK(t)'
    <3>1. \A y \in Vnode : ~Using(t, y)'
      BY <2>9 DEF Using
    <3> QED BY <1>1, <1>2, <2>9, <3>1, Quiet
  <2>12. WorkOK(t)'
    <3>1. v'[t] \in Vnode /\ Live(v[t])' /\ sv'[v'[t]].ino = ino'[t]
      BY <1>2, <2>7, <2>9 DEF Live
    <3>2. op'[t] # "make"
      BY <1>2, <1>5, <1>6, <1>10
    <3> QED BY <1>9, <2>9, <3>1, <3>2 DEF WorkOK, Unloaded, Reclaims
  <2> QED BY <1>7, <2>10, <2>11, <2>12 DEF Inv
<1>11. CASE Loaded(ino[t]) = {}
  <2>1. Goto(t, "load") /\ v' = v
    BY <1>11 DEF scan
  <2>2. pc' \in [Thread -> Labels] /\ pc'[t] = "load"
    BY <1>1, <2>1, GotoLabel DEF Labels, Unloaded
  <2>3. LocalTypes'
    BY <1>1, <1>2, <2>1, <2>2 DEF LocalTypes
  <2>4. SharedTypes' /\ NamesOK' /\ VnodesOK(t)' /\ RefsOK(t)'
    <3>1. \A y \in Vnode : ~Using(t, y)'
      BY <1>1, <2>1, NoVnode DEF Using
    <3> QED BY <1>1, <1>2, <2>2, <3>1, Quiet
  <2>5. WorkOK(t)'
    <3>1. ~Resident(ino[t])'
      BY <1>2, <1>5, <1>11 DEF Resident, Live
    <3> QED BY <1>1, <1>9, <2>1, <2>2, <3>1 DEF WorkOK, Unloaded, Reclaims
  <2> QED BY <1>7, <2>3, <2>4, <2>5 DEF Inv
<1> QED BY <1>10, <1>11

\* A resident inode gets one more reference.
LEMMA IncrefStep ==
    ASSUME NEW t, Thread = {t}, Inv(t), incref(t)
    PROVE  Inv(t)' /\ panicked' = "no"
<1>1. pc[t] = "incref" /\ panicked = "no" /\ LocalTypes /\ SharedTypes /\ VnodesOK(t) /\ WorkOK(t) /\ RefsOK(t)
  BY DEF incref, At, Inv
<1>2. UNCHANGED <<disk, vnodes, used, held, op, locals>>
  BY DEF incref
<1>3. PICK x : x = v[t]
  OBVIOUS
<1>4. x \in Vnode /\ Live(x) /\ sv[x] \in VnodeRecord /\ VnodeOK(t, x)
  BY <1>1, <1>3, InHand DEF Unloaded
<1>5. PICK q : q = [sv[x] EXCEPT !.refcount = @ + 1]
  OBVIOUS
<1>6. /\ q \in VnodeRecord /\ q.ino = sv[x].ino /\ q.links = sv[x].links /\ q.state = "live"
      /\ q.dirty = sv[x].dirty /\ q.refcount = sv[x].refcount + 1 /\ q.refcount >= 1 /\ sv[x].refcount \in Nat
  BY <1>4, <1>5 DEF VnodeRecord, Live
<1>7. sv' = [sv EXCEPT ![x] = q]
  BY <1>1, <1>3, <1>5 DEF incref
<1>8. panicked' = "no"
  BY <1>1, <1>3, <1>4 DEF incref, PanicIf, Live
<1>9. pc' \in [Thread -> Labels] /\ pc'[t] = "got"
  BY <1>1, GotoLabel DEF incref, Labels
<1>10. LocalTypes'
  BY <1>1, <1>2, <1>9 DEF LocalTypes, locals
<1>11. SharedTypes' /\ NamesOK' /\ VnodesOK(t)'
  <2>1. \A y \in Vnode : (Adding(t, y)' <=> Adding(t, y)) /\ (Killing(t, y) => Killing(t, y)')
    BY <1>1, <1>9 DEF Adding, Killing
  <2>2. UNCHANGED <<dir, freemap, vnodes, used, held>> /\ UNCHANGED <<disklinks, made, lost>>
    BY <1>2 DEF disk
  <2> QED BY <1>4, <1>6, <1>7, <2>1, <2>2, Rewritten
<1>12. RefsOK(t)'
  <2>1. Ind(Using(t, x)') = 1 /\ Ind(Using(t, x)) = 0
    BY <1>1, <1>2, <1>3, <1>9 DEF Ind, Using, locals
  <2>2. \A y \in Vnode : y # x => ~Using(t, y)'
    BY <1>2, <1>3 DEF Using, locals
  <2>3. q.refcount - Ind(Using(t, x)') >= sv[x].refcount - Ind(Using(t, x))
    BY <1>6, <2>1
  <2>4. ToSet(held[t]) \subseteq ToSet(vnodes')
    BY <1>1, <1>2 DEF RefsOK
  <2> QED BY <1>2, <1>4, <1>6, <1>7, <1>11, <2>2, <2>3, <2>4, RefsOfOne
<1>13. WorkOK(t)'
  <2>1. /\ v' = v /\ ino' = ino /\ op' = op /\ slot' = slot
        /\ dir' = dir /\ freemap' = freemap /\ lost' = lost
    BY <1>2 DEF disk, locals
  <2>2. sv'[x] = q /\ Live(v[t])'
    BY <1>1, <1>3, <1>4, <1>6, <1>7, <2>1 DEF SharedTypes, Live
  <2>3. /\ op[t] \in Searches \cup {"make"} /\ ino[t] \in Ino /\ (lost \/ ino[t] \in freemap)
        /\ sv[x].ino = ino[t]
        /\ op[t] # "make" => SlotIs(t, slot[t])
    BY <1>1, <1>3 DEF WorkOK
  <2>4. SlotIs(t, slot[t])' <=> SlotIs(t, slot[t])
    BY <2>1 DEF SlotIs
  <2>5. v'[t] \in Vnode /\ sv'[v'[t]].ino = ino'[t]
    BY <1>3, <1>4, <1>6, <2>1, <2>2, <2>3
  <2> QED BY <1>9, <2>1, <2>2, <2>3, <2>4, <2>5 DEF WorkOK, Unloaded, Reclaims
<1> QED BY <1>8, <1>10, <1>11, <1>12, <1>13 DEF Inv

\* The inode is read from disk into a new vnode; it may not be there when a write was lost.
LEMMA LoadStep ==
    ASSUME NEW t, Thread = {t}, Inv(t), load(t)
    PROVE  Inv(t)' /\ panicked' \in {"no", "assert"} /\ (panicked' = "assert" => lost')
<1>1. /\ pc[t] = "load" /\ panicked = "no" /\ v[t] = 0 /\ used < NVnodes
      /\ LocalTypes /\ SharedTypes /\ VnodesOK(t) /\ WorkOK(t) /\ RefsOK(t) /\ NamesOK
  BY DEF load, At, Inv, WorkOK, Unloaded
<1>2. UNCHANGED <<disk, vnodes, held>>
  BY DEF load
<1>3. /\ op[t] \in Searches \cup {"make"} /\ ino[t] \in Ino /\ (lost \/ ino[t] \in freemap)
      /\ ~Resident(ino[t]) /\ (op[t] # "make" => SlotIs(t, slot[t]))
      /\ op[t] = "make" => lost \/ (ino[t] \notin made /\ Links(ino[t]) = 0)
  BY <1>1 DEF WorkOK
<1>4. CASE ~Loadable(t) /\ panicked' = "assert" /\ UNCHANGED <<used, sv, pc, op, locals>>
  <2>1. Inv(t)' /\ lost' = lost
    BY <1>2, <1>4, StutterStep DEF disk
  <2>2. CASE op[t] = "make"
    BY <1>3, <1>4, <2>1, <2>2 DEF Loadable
  <2>3. CASE op[t] # "make"
    <3>1. slot[t] \in NamesOf(ino[t])
      BY <1>3, <2>3 DEF SlotIs, NamesOf
    <3>2. Links(ino[t]) # 0
      BY <1>1, <3>1, LinksNat
    <3>3. lost \/ ino[t] \in made
      BY <1>1, <1>3, <3>2 DEF NamesOK, OnDisk
    <3> QED BY <1>3, <1>4, <2>1, <2>3, <3>3 DEF Loadable
  <2> QED BY <2>2, <2>3
<1>5. CASE Return(t) /\ UNCHANGED <<used, sv, panicked>>
  BY <1>1, <1>2, <1>5, ReturnStep
<1>6. ASSUME /\ Loadable(t) /\ used' = used + 1
             /\ sv' = [sv EXCEPT ![used + 1] = [ino |-> ino[t], refcount |-> 1,
                                                links |-> disklinks[ino[t]],
                                                dirty |-> op[t] = "make", state |-> "live"]]
             /\ v' = [v EXCEPT ![t] = used + 1]
             /\ Goto(t, "add")
             /\ UNCHANGED <<op, name, name2, ino, slot, slot2>>
      PROVE  Inv(t)'
  <2>1. PICK x : x = used + 1
    OBVIOUS
  <2>2. PICK i : i = ino[t]
    OBVIOUS
  <2>3. PICK q : q = [ino |-> i, refcount |-> 1, links |-> disklinks[i],
                      dirty |-> op[t] = "make", state |-> "live"]
    OBVIOUS
  <2>4. x \in Vnode /\ x \in 0..NVnodes /\ x > used /\ used' = x /\ used \in Nat
    BY <1>1, <1>6, <2>1, SfsVnodesAssumption DEF SharedTypes, Vnode
  <2>5. i \in Ino /\ i \in freemap /\ i \in 0..NInodes /\ disklinks[i] \in Nat
    <3>1. i \in Ino /\ i \in freemap
      BY <1>3, <1>6, <2>2 DEF Loadable
    <3>2. disklinks[i] \in Nat
      BY <1>1, <3>1 DEF SharedTypes
    <3> QED BY <3>1, <3>2 DEF Ino
  <2>6. /\ q.ino = i /\ q.refcount = 1 /\ q.links = disklinks[i] /\ q.state = "live"
        /\ q.dirty <=> op[t] = "make"
    BY <2>3
  <2>7. q \in VnodeRecord
    <3>1. (op[t] = "make") \in BOOLEAN
      OBVIOUS
    <3> QED BY <2>3, <2>5, <3>1 DEF VnodeRecord
  <2>8. sv' = [sv EXCEPT ![x] = q] /\ v' = [v EXCEPT ![t] = x]
    BY <1>6, <2>1, <2>2, <2>3
  <2>9. sv' \in [Vnode -> VnodeRecord] /\ sv'[x] = q /\ \A y \in Vnode : y # x => sv'[y] = sv[y]
    BY <1>1, <2>4, <2>7, <2>8 DEF SharedTypes
  <2>10. SharedTypes'
    <3>1. used' \in 0..NVnodes
      BY <2>4
    <3> QED BY <1>1, <1>2, <2>9, <3>1 DEF SharedTypes, disk
  <2>11. pc' \in [Thread -> Labels] /\ pc'[t] = "add"
    BY <1>1, <1>6, GotoLabel DEF Labels
  <2>12. v' \in [Thread -> 0..NVnodes] /\ v'[t] = x
    BY <1>1, <2>4, <2>8 DEF LocalTypes
  <2>13. LocalTypes'
    BY <1>1, <1>6, <2>11, <2>12 DEF LocalTypes
  <2>14. ~Live(x) /\ sv[x].refcount = 0 /\ x \notin ToSet(vnodes)
    BY <1>1, <2>4 DEF VnodesOK, VnodeOK
  <2>15. Live(x)' /\ \A y \in Vnode : y # x => (Live(y)' <=> Live(y))
    BY <2>6, <2>9 DEF Live
  <2>16. (lost \/ disklinks[i] >= Links(i)) /\ (q.dirty \/ i \in made)
    <3>1. CASE Links(i) = 0
      BY <1>6, <2>2, <2>5, <2>6, <3>1 DEF Loadable
    <3>2. CASE Links(i) # 0
      BY <1>1, <1>3, <1>6, <2>2, <2>5, <2>6, <3>2 DEF NamesOK, OnDisk, Loadable
    <3> QED BY <3>1, <3>2
  <2>17. /\ dir' = dir /\ freemap' = freemap /\ disklinks' = disklinks /\ made' = made /\ lost' = lost
         /\ \A j : Links(j)' = Links(j)
    BY <1>2 DEF disk, Links
  <2>18. \A j : Resident(j) => Resident(j)'
    BY <2>9, <2>14, <2>15 DEF Resident
  <2>19. NamesOK'
    BY <1>1, <2>17, <2>18 DEF NamesOK, OnDisk
  <2>20. VnodesOK(t)'
    <3>1. OneEach'
      <4>1. \A y \in Vnode : Live(y) => sv[y].ino # i
        BY <1>3, <2>2 DEF Resident
      <4> QED BY <1>1, <2>6, <2>9, <2>15, <4>1 DEF VnodesOK, OneEach
    <3>2. ASSUME NEW y \in Vnode PROVE VnodeOK(t, y)'
      <4>1. Links(sv[y].ino)' = Links(sv'[y].ino)
        BY <2>17 DEF Links
      <4>2. CASE y = x
        <5>1. Adding(t, y)' /\ y \notin ToSet(vnodes')
          BY <1>2, <2>11, <2>12, <2>14, <4>2 DEF Adding
        <5>2. ~(y > used')
          BY <2>4, <4>2
        <5>3. /\ sv'[y].refcount >= 1 /\ sv'[y].ino \in Ino /\ sv'[y].ino \in freemap'
              /\ disklinks'[sv'[y].ino] = sv'[y].links /\ (sv'[y].dirty \/ sv'[y].ino \in made')
              /\ lost' \/ sv'[y].links >= Links(sv[y].ino)'
          BY <2>5, <2>6, <2>9, <2>16, <2>17, <4>1, <4>2
        <5> QED BY <2>15, <4>2, <5>1, <5>2, <5>3 DEF VnodeOK
      <4>3. CASE y # x
        <5>1. VnodeOK(t, y) /\ ~Adding(t, y) /\ ~Adding(t, y)' /\ ~Killing(t, y)
          BY <1>1, <2>12, <4>3 DEF VnodesOK, Adding, Killing
        <5>2. sv'[y] = sv[y] /\ (Live(y)' <=> Live(y))
          BY <2>9, <2>15, <4>3
        <5>3. y > used' => y > used
          BY <2>1, <2>4, <4>3 DEF Vnode
        <5> QED BY <1>2, <2>17, <4>1, <5>1, <5>2, <5>3 DEF VnodeOK
      <4> QED BY <4>2, <4>3
    <3> QED BY <3>1, <3>2 DEF VnodesOK
  <2>21. RefsOK(t)'
    <3>1. ~Using(t, x) /\ Using(t, x)' /\ \A y \in Vnode : y # x => ~Using(t, y)'
      BY <1>1, <2>4, <2>11, <2>12, NoVnode DEF Using
    <3>2. Ind(Using(t, x)') = 1 /\ Ind(Using(t, x)) = 0
      BY <3>1 DEF Ind
    <3>3. q.refcount - Ind(Using(t, x)') >= sv[x].refcount - Ind(Using(t, x))
      BY <2>6, <2>14, <3>2
    <3>4. ToSet(held[t]) \subseteq ToSet(vnodes')
      BY <1>1, <1>2 DEF RefsOK
    <3> QED BY <1>2, <2>4, <2>7, <2>8, <2>10, <3>1, <3>3, <3>4, RefsOfOne
  <2>22. WorkOK(t)'
    <3>1. SlotIs(t, slot[t])' <=> SlotIs(t, slot[t])
      BY <1>6, <2>17 DEF SlotIs
    <3>2. v'[t] \in Vnode /\ Live(v[t])' /\ op'[t] = op[t] /\ ino'[t] = i
      BY <1>6, <2>2, <2>4, <2>12, <2>15 DEF Live
    <3>3. /\ sv'[v'[t]].ino = i /\ sv'[v'[t]].refcount = 1
          /\ sv'[v'[t]].dirty => op[t] = "make"
      BY <2>6, <2>9, <2>12
    <3>4. op[t] = "make" => lost' \/ Links(ino[t])' = 0
      <4>1. Links(ino[t])' = Links(i)'
        BY <3>2 DEF Links
      <4> QED BY <1>3, <2>2, <2>17, <4>1
    <3> QED BY <1>3, <2>2, <2>5, <2>11, <2>17, <3>1, <3>2, <3>3, <3>4 DEF WorkOK, Unloaded, Reclaims
  <2> QED BY <2>10, <2>13, <2>19, <2>20, <2>21, <2>22 DEF Inv
<1> QED BY <1>1, <1>4, <1>5, <1>6 DEF load

\* The vnode in hand is freed: no other reference to it is left.
LEMMA KillStep ==
    ASSUME NEW t, Thread = {t}, Inv(t), pc[t] \in {"add", "untable"}, Return(t),
           sv' = [sv EXCEPT ![v[t]] = Freed], UNCHANGED <<disk, used, held>>,
           vnodes' \in Seq(Vnode), IsInjective(vnodes'), ToSet(vnodes') = ToSet(vnodes) \ {v[t]}
    PROVE  Inv(t)'
<1>1. LocalTypes /\ SharedTypes /\ VnodesOK(t) /\ WorkOK(t) /\ RefsOK(t) /\ NamesOK
  BY DEF Inv
<1>2. PICK x : x = v[t]
  OBVIOUS
<1>3. x \in Vnode /\ Live(x) /\ sv[x] \in VnodeRecord /\ VnodeOK(t, x) /\ sv[x].ino \in Ino
  BY <1>2, InHand DEF Unloaded
<1>4. sv[x].refcount = 1 /\ (lost \/ OnDisk(sv[x].ino))
  <2>1. CASE sv[x].dirty
    <3>1. pc[t] = "add" /\ op[t] = "make" /\ sv[x].refcount = 1 /\ sv[x].ino = ino[t]
      BY <1>1, <1>2, <2>1 DEF WorkOK
    <3> QED BY <1>1, <3>1 DEF WorkOK, OnDisk
  <2>2. CASE ~sv[x].dirty
    <3>1. sv[x].refcount = 1
      BY <1>1, <1>2 DEF WorkOK, Reclaims
    <3> QED BY <1>3, <2>2, <3>1 DEF VnodeOK, OnDisk
  <2> QED BY <2>1, <2>2
<1>5. Freed \in VnodeRecord /\ Freed.state = "freed" /\ Freed.refcount = 0
  BY SfsVnodesAssumption DEF Freed, VnodeRecord, NOINO
<1>6. sv' = [sv EXCEPT ![x] = Freed]
  BY <1>2
<1>7. sv' \in [Vnode -> VnodeRecord] /\ sv'[x] = Freed /\ \A y \in Vnode : y # x => sv'[y] = sv[y]
  BY <1>1, <1>3, <1>5, <1>6 DEF SharedTypes
<1>8. SharedTypes'
  BY <1>1, <1>7 DEF SharedTypes, disk
<1>9. LocalTypes' /\ WorkOK(t)' /\ pc'[t] = "idle"
  BY <1>1, Returned
<1>10. ~Live(x)' /\ \A y \in Vnode : y # x => (Live(y)' <=> Live(y))
  BY <1>5, <1>7 DEF Live
<1>11. /\ dir' = dir /\ freemap' = freemap /\ disklinks' = disklinks /\ made' = made /\ lost' = lost
       /\ used' = used /\ \A j : Links(j)' = Links(j)
  BY DEF disk, Links
<1>12. NamesOK'
  <2>1. ASSUME NEW j \in Ino PROVE lost' \/ Resident(j)' \/ OnDisk(j)'
    <3>1. CASE j = sv[x].ino
      BY <1>4, <1>11, <3>1 DEF OnDisk
    <3>2. CASE j # sv[x].ino
      <4>1. Resident(j) => Resident(j)'
        BY <1>7, <1>10, <3>2 DEF Resident
      <4> QED BY <1>1, <1>11, <4>1 DEF NamesOK, OnDisk
    <3> QED BY <3>1, <3>2
  <2> QED BY <1>1, <1>11, <2>1 DEF NamesOK
<1>13. VnodesOK(t)'
  <2>1. OneEach'
    BY <1>1, <1>7, <1>10 DEF VnodesOK, OneEach
  <2>2. ASSUME NEW y \in Vnode PROVE VnodeOK(t, y)'
    <3>1. Links(sv[y].ino)' = Links(sv'[y].ino)
      BY <1>11 DEF Links
    <3>2. CASE y = x
      BY <1>2, <1>5, <1>7, <1>10, <3>2 DEF VnodeOK
    <3>3. CASE y # x
      <4>1. VnodeOK(t, y) /\ ~Adding(t, y) /\ ~Adding(t, y)' /\ ~Killing(t, y)
        BY <1>1, <1>2, <1>9, <3>3 DEF VnodesOK, Adding, Killing
      <4>2. sv'[y] = sv[y] /\ (Live(y)' <=> Live(y)) /\ (y \in ToSet(vnodes') <=> y \in ToSet(vnodes))
        BY <1>2, <1>7, <1>10, <3>3
      <4> QED BY <1>11, <3>1, <4>1, <4>2 DEF VnodeOK
    <3> QED BY <3>2, <3>3
  <2> QED BY <2>1, <2>2 DEF VnodesOK
<1>14. RefsOK(t)'
  <2>1. Using(t, x) /\ \A y \in Vnode : ~Using(t, y)'
    BY <1>2, <1>9 DEF Using
  <2>2. Ind(Using(t, x)) = 1 /\ Ind(Using(t, x)') = 0
    BY <1>3, <2>1 DEF Ind
  <2>3. Freed.refcount - Ind(Using(t, x)') >= sv[x].refcount - Ind(Using(t, x))
    BY <1>4, <1>5, <2>2
  <2>4. x \notin ToSet(held[t])
    <3>1. Cardinality(Kept(t, x)) + Ind(Using(t, x)) <= sv[x].refcount /\ Cardinality(Kept(t, x)) \in Nat
      BY <1>1, <1>3, KeptFinite DEF RefsOK
    <3>2. Cardinality(Kept(t, x)) = 0
      BY <1>4, <2>2, <3>1
    <3>3. Kept(t, x) = {}
      BY <1>1, <3>2, KeptFinite, FS_EmptySet
    <3> QED BY <3>3 DEF Kept, ToSet
  <2>5. ToSet(held[t]) \subseteq ToSet(vnodes')
    BY <1>1, <1>2, <2>4 DEF RefsOK
  <2> QED BY <1>3, <1>5, <1>6, <1>8, <2>1, <2>3, <2>5, RefsOfOne
<1> QED BY <1>8, <1>9, <1>12, <1>13, <1>14 DEF Inv

\* The new vnode is put in the table, or freed again.
LEMMA AddStep ==
    ASSUME NEW t, Thread = {t}, Inv(t), add(t)
    PROVE  Inv(t)' /\ panicked' = "no"
<1>1. /\ pc[t] = "add" /\ panicked = "no" /\ LocalTypes /\ SharedTypes /\ VnodesOK(t)
      /\ WorkOK(t) /\ RefsOK(t) /\ NamesOK
  BY DEF add, At, Inv
<1>2. PICK x : x = v[t]
  OBVIOUS
<1>3. x \in Vnode /\ Live(x) /\ VnodeOK(t, x) /\ sv[x].refcount = 1 /\ x \notin ToSet(vnodes)
  <2>1. x \in Vnode /\ Live(x) /\ VnodeOK(t, x) /\ sv[x].refcount = 1
    BY <1>1, <1>2, InHand DEF Unloaded, WorkOK
  <2> QED BY <1>1, <1>2, <2>1 DEF VnodeOK, Adding
<1>4. UNCHANGED <<disk, used, held>>
  BY DEF add
<1>5. ASSUME PanicIf(sv[v[t]].refcount # 1), sv' = [sv EXCEPT ![v[t]] = Freed], Return(t), UNCHANGED vnodes
      PROVE  Inv(t)' /\ panicked' = "no"
  <2>1. panicked' = "no"
    BY <1>1, <1>2, <1>3, <1>5 DEF PanicIf
  <2>2. vnodes' \in Seq(Vnode) /\ IsInjective(vnodes') /\ ToSet(vnodes') = ToSet(vnodes) \ {v[t]}
    BY <1>1, <1>2, <1>3, <1>5 DEF SharedTypes
  <2> QED BY <1>1, <1>4, <1>5, <2>1, <2>2, KillStep
<1>6. ASSUME vnodes' = Append(vnodes, v[t]), Goto(t, "got"), UNCHANGED <<sv, op, locals, panicked>>
      PROVE  Inv(t)' /\ panicked' = "no"
  <2>1. vnodes' \in Seq(Vnode) /\ IsInjective(vnodes') /\ ToSet(vnodes') = ToSet(vnodes) \cup {x}
    BY <1>1, <1>2, <1>3, <1>6, AppendSet DEF SharedTypes
  <2>2. SharedTypes'
    BY <1>1, <1>4, <1>6, <2>1 DEF SharedTypes, disk
  <2>3. pc' \in [Thread -> Labels] /\ pc'[t] = "got"
    BY <1>1, <1>6, GotoLabel DEF Labels
  <2>4. LocalTypes'
    BY <1>1, <1>6, <2>3 DEF LocalTypes, locals
  <2>5. /\ dir' = dir /\ freemap' = freemap /\ disklinks' = disklinks /\ made' = made /\ lost' = lost
        /\ used' = used /\ sv' = sv /\ v' = v
    BY <1>4, <1>6 DEF disk, locals
  <2>6. NamesOK' /\ OneEach'
    BY <1>1, <2>5 DEF NamesOK, OnDisk, VnodesOK, OneEach, Resident, Live, Links
  <2>7. VnodesOK(t)'
    <3>1. ASSUME NEW y \in Vnode PROVE VnodeOK(t, y)'
      <4>1. VnodeOK(t, y) /\ (Live(y)' <=> Live(y)) /\ Links(sv[y].ino)' = Links(sv[y].ino)
        BY <1>1, <2>5 DEF VnodesOK, Live, Links
      <4>2. ~Adding(t, y)' /\ ~Killing(t, y) /\ (Adding(t, y) <=> y = x)
        BY <1>1, <1>2, <2>3 DEF Adding, Killing
      <4>3. y \in ToSet(vnodes') <=> y \in ToSet(vnodes) \/ y = x
        BY <2>1
      <4> QED BY <1>3, <2>5, <4>1, <4>2, <4>3 DEF VnodeOK
    <3> QED BY <2>6, <3>1 DEF VnodesOK
  <2>8. RefsOK(t)'
    <3>1. ASSUME NEW y \in Vnode PROVE sv'[y].refcount - Ind(Using(t, y)') >= sv[y].refcount - Ind(Using(t, y))
      <4>1. Using(t, y)' <=> Using(t, y)
        BY <1>1, <2>3, <2>5 DEF Using
      <4>2. Ind(Using(t, y)') = Ind(Using(t, y)) /\ Ind(Using(t, y)) \in Nat /\ sv[y].refcount \in Nat
        BY <1>1, <4>1 DEF Ind, SharedTypes, VnodeRecord
      <4> QED BY <2>5, <4>2
    <3>2. ToSet(held[t]) \subseteq ToSet(vnodes')
      BY <1>1, <2>1 DEF RefsOK
    <3> QED BY <1>1, <1>4, <2>2, <3>1, <3>2, RefsStep
  <2>9. WorkOK(t)'
    <3>1. op' = op /\ ino' = ino /\ slot' = slot
      BY <1>6 DEF locals
    <3>2. Live(v[t])' /\ (SlotIs(t, slot[t])' <=> SlotIs(t, slot[t]))
      BY <1>2, <1>3, <2>5, <3>1 DEF Live, SlotIs
    <3> QED BY <1>1, <1>2, <1>3, <2>3, <2>5, <3>1, <3>2 DEF WorkOK, Unloaded, Reclaims
  <2> QED BY <1>1, <1>6, <2>2, <2>4, <2>6, <2>7, <2>8, <2>9 DEF Inv
<1> QED BY <1>5, <1>6 DEF add

\* The vnode is taken out of the table and freed.
LEMMA ReclaimKillStep ==
    ASSUME NEW t, Thread = {t}, Inv(t), reclaim_kill(t)
    PROVE  Inv(t)' /\ panicked' = "no"
<1>1. pc[t] = "untable" /\ panicked = "no" /\ SharedTypes /\ WorkOK(t)
  BY DEF reclaim_kill, At, Inv
<1>2. v[t] \in ToSet(vnodes) /\ sv[v[t]].refcount = 1
  BY <1>1, InHand DEF WorkOK, Reclaims, Unloaded
<1>3. InTable(v[t])
  BY <1>2, InTableIs
<1>4. panicked' = "no"
  BY <1>1, <1>2, <1>3 DEF reclaim_kill, PanicIf
<1>5. vnodes' = RemoveFirst(vnodes, v[t])
  BY DEF reclaim_kill
<1>6. vnodes' \in Seq(Vnode) /\ IsInjective(vnodes') /\ ToSet(vnodes') = ToSet(vnodes) \ {v[t]}
  BY <1>1, <1>5, RemoveFirstSet DEF SharedTypes
<1> QED BY <1>1, <1>4, <1>6, KillStep DEF reclaim_kill

\* The vnode in hand is handed to the caller, who keeps the reference.
LEMMA GiveRefs ==
    ASSUME NEW t, Thread = {t}, Inv(t), pc[t] = "got", Give(t), pc'[t] = "idle", UNCHANGED vnodes,
           \A y \in Vnode : sv'[y].refcount = sv[y].refcount
    PROVE  held' \in [Thread -> Seq(Vnode)] /\ RefsOK(t)'
<1>1. PICK x : x = v[t]
  OBVIOUS
<1>2. x \in Vnode /\ x \in ToSet(vnodes) /\ SharedTypes /\ RefsOK(t)
  BY <1>1, InHand DEF Unloaded, Inv
<1>3. held' = [held EXCEPT ![t] = Append(@, x)]
  BY <1>1 DEF Give
<1>4. /\ held' \in [Thread -> Seq(Vnode)] /\ ToSet(held'[t]) = ToSet(held[t]) \cup {x}
      /\ \A y : Cardinality(Kept(t, y)') = Cardinality(Kept(t, y)) + Ind(y = x)
  BY <1>2, <1>3, KeptMore
<1>5. ASSUME NEW y \in Vnode PROVE Cardinality(Kept(t, y)') + Ind(Using(t, y)') <= sv'[y].refcount
  <2>1. Cardinality(Kept(t, y)) + Ind(Using(t, y)) <= sv[y].refcount /\ sv[y].refcount \in Nat
    BY <1>2 DEF RefsOK, SharedTypes, VnodeRecord
  <2>2. (Using(t, y) <=> y = x) /\ ~Using(t, y)'
    BY <1>1 DEF Using
  <2>3. Ind(Using(t, y)) = Ind(y = x) /\ Ind(Using(t, y)') = 0 /\ Ind(y = x) \in Nat
    BY <2>2 DEF Ind
  <2>4. Cardinality(Kept(t, y)) \in Nat /\ Cardinality(Kept(t, y)') = Cardinality(Kept(t, y)) + Ind(y = x)
    BY <1>2, <1>4, KeptFinite
  <2> QED BY <2>1, <2>3, <2>4
<1>6. ToSet(held'[t]) \subseteq ToSet(vnodes')
  BY <1>2, <1>4 DEF RefsOK
<1> QED BY <1>4, <1>5, <1>6 DEF RefsOK

\* A file found without links is a panic: a write was lost.
LEMMA LookonceStep ==
    ASSUME NEW t, Thread = {t}, Inv(t), lookonce_panic(t)
    PROVE  Inv(t)' /\ panicked' = "assert" /\ lost'
<1>1. pc[t] = "got" /\ op[t] # "make" /\ sv[v[t]].links = 0 /\ panicked' = "assert"
  BY DEF lookonce_panic, At
<1>2. UNCHANGED <<disk, vnodes, sv, used, held, pc, op, locals>>
  BY DEF lookonce_panic
<1>3. lost /\ lost' = lost
  BY <1>1, <1>2, HasLinks DEF disk
<1> QED BY <1>1, <1>2, <1>3, StutterStep

\* A file that was there is opened.
LEMMA OpenStep ==
    ASSUME NEW t, Thread = {t}, Inv(t), got_open(t)
    PROVE  Inv(t)' /\ panicked' = "no"
<1>1. pc[t] = "got" /\ panicked = "no" /\ op[t] \in {"lookup", "creat"} /\ LocalTypes /\ SharedTypes
  BY DEF got_open, Got, At, Inv
<1>2. UNCHANGED <<disk, vnodes, sv, used>> /\ Return(t) /\ Give(t)
  BY DEF got_open
<1>3. panicked' = "no"
  BY <1>1 DEF got_open
<1>4. LocalTypes' /\ WorkOK(t)' /\ pc'[t] = "idle"
  BY <1>1, <1>2, Returned
<1>5. NamesOK' /\ VnodesOK(t)'
  BY <1>1, <1>2, <1>4, Still
<1>6. held' \in [Thread -> Seq(Vnode)] /\ RefsOK(t)'
  BY <1>1, <1>2, <1>4, GiveRefs
<1>7. SharedTypes'
  BY <1>1, <1>2, <1>6 DEF SharedTypes, disk
<1> QED BY <1>3, <1>4, <1>5, <1>6, <1>7 DEF Inv

\* The vnode in hand is given up without a change of shared state.
LEMMA GiveUpStep ==
    ASSUME NEW t, Thread = {t}, Inv(t), pc[t] \in {"got", "unlink_old"}, Goto(t, "decref"),
           UNCHANGED <<disk, vnodes, sv, used, held, op, locals>>
    PROVE  Inv(t)'
<1>1. pc' \in [Thread -> Labels] /\ pc'[t] = "decref"
  BY GotoLabel DEF Inv, Labels
<1>2. LocalTypes'
  BY <1>1 DEF Inv, LocalTypes, locals
<1>3. SharedTypes' /\ NamesOK' /\ VnodesOK(t)' /\ RefsOK(t)'
  <2>1. \A x \in Vnode : Using(t, x)' => Using(t, x)
    BY <1>1 DEF Using, locals
  <2> QED BY <1>1, <2>1, Quiet
<1>4. WorkOK(t)'
  <2>1. v'[t] \in Vnode /\ Live(v[t])'
    BY InHand DEF Unloaded, Live, locals
  <2> QED BY <1>1, <2>1, AtDecref
<1> QED BY <1>2, <1>3, <1>4 DEF Inv

\* A new file gets its first name, or is given up.
LEMMA MakeStep ==
    ASSUME NEW t, Thread = {t}, Inv(t), got_make(t)
    PROVE  Inv(t)' /\ panicked' = "no"
<1>1. pc[t] = "got" /\ panicked = "no" /\ LocalTypes /\ SharedTypes /\ WorkOK(t)
  BY DEF got_make, At, Inv
<1>2. UNCHANGED <<freemap, disklinks, made, vnodes, used>> /\ panicked' = "no"
  BY <1>1 DEF got_make
<1>3. CASE Goto(t, "decref") /\ UNCHANGED <<dir, lost, sv, held, op, locals>>
  BY <1>1, <1>2, <1>3, GiveUpStep DEF disk
<1>4. ASSUME CanLink(name[t]), Link(name[t], ino[t]), AddLinks(v[t], 1), Give(t), Return(t)
      PROVE  Inv(t)'
  <2>1. PICK x : x = v[t]
    OBVIOUS
  <2>2. x \in Vnode /\ Live(x) /\ sv[x].ino = ino[t]
    BY <1>1, <2>1, InHand DEF Unloaded, WorkOK
  <2>3. LocalTypes' /\ WorkOK(t)' /\ pc'[t] = "idle"
    BY <1>1, <1>4, Returned
  <2>4. PICK n \in Name \cup {NoName} : n = name[t]
    BY <1>1 DEF LocalTypes
  <2>5. CanLink(n) /\ Link(n, sv[x].ino) /\ AddLinks(x, 1)
    BY <1>4, <2>1, <2>2, <2>4
  <2>6. VnodesOK(t)' /\ NamesOK' /\ dir' \in Seq(DirEntry) /\ Relinked(x) /\ lost' \in BOOLEAN
    BY <1>1, <1>2, <2>2, <2>3, <2>5, LinkStep
  <2>7. held' \in [Thread -> Seq(Vnode)] /\ RefsOK(t)'
    BY <1>1, <1>2, <1>4, <2>3, <2>6, GiveRefs DEF Relinked
  <2>8. SharedTypes'
    BY <1>1, <1>2, <2>6, <2>7 DEF SharedTypes, Relinked
  <2> QED BY <2>3, <2>6, <2>7, <2>8 DEF Inv
<1> QED BY <1>2, <1>3, <1>4 DEF got_make

\* After a change of the names of the vnode in hand, it is given up.
LEMMA RelinkedStep ==
    ASSUME NEW t, Thread = {t}, Inv(t), pc[t] \in {"got", "unlink_old"}, Goto(t, "decref"),
           UNCHANGED <<freemap, disklinks, made, vnodes, used, held, op, locals>>,
           NEW s \in DOMAIN dir, dir[s].ino \in {NOINO, sv[v[t]].ino},
           lost \/ dir[s].ino = sv[v[t]].ino, Unlink(s),
           (sv[v[t]].links # 0 /\ AddLinks(v[t], -1)) \/ UNCHANGED sv
    PROVE  Inv(t)'
<1>1. pc' \in [Thread -> Labels] /\ pc'[t] = "decref"
  BY GotoLabel DEF Inv, Labels
<1>2. LocalTypes'
  BY <1>1 DEF Inv, LocalTypes, locals
<1>3. PICK x : x = v[t]
  OBVIOUS
<1>4. x \in Vnode /\ Live(x)
  BY <1>3, InHand DEF Unloaded
<1>5. /\ dir[s].ino \in {NOINO, sv[x].ino} /\ (lost \/ dir[s].ino = sv[x].ino)
      /\ (sv[x].links # 0 /\ AddLinks(x, -1)) \/ UNCHANGED sv
  BY <1>3
<1>6. VnodesOK(t)' /\ NamesOK' /\ dir' \in Seq(DirEntry) /\ Relinked(x) /\ lost' \in BOOLEAN
  BY <1>1, <1>4, <1>5, UnlinkStep
<1>7. \A y \in Vnode : Using(t, y)' => Using(t, y)
  BY <1>1 DEF Using, locals
<1>8. SharedTypes' /\ RefsOK(t)' /\ Live(x)'
  BY <1>4, <1>6, <1>7, RelinkedRefs
<1>9. WorkOK(t)'
  <2>1. v'[t] \in Vnode /\ Live(v[t])'
    BY <1>3, <1>4, <1>8 DEF Live, locals
  <2> QED BY <1>1, <2>1, AtDecref
<1> QED BY <1>2, <1>6, <1>8, <1>9 DEF Inv

\* A name is removed.
LEMMA RemoveStep ==
    ASSUME NEW t, Thread = {t}, Inv(t), got_remove(t)
    PROVE  Inv(t)' /\ panicked' = "no"
<1>1. pc[t] = "got" /\ panicked = "no" /\ op[t] = "remove" /\ Goto(t, "decref") /\ sv[v[t]].links # 0
  BY DEF got_remove, Got, At
<1>2. UNCHANGED <<freemap, disklinks, made, vnodes, used, held, op, locals>>
  BY DEF got_remove
<1>3. slot[t] \in DOMAIN dir /\ dir[slot[t]].ino = sv[v[t]].ino
  BY <1>1, HasLinks
<1>4. panicked' = "no"
  BY <1>1 DEF got_remove
<1>5. CASE Unlink(slot[t]) /\ AddLinks(v[t], -1)
  BY <1>1, <1>2, <1>3, <1>4, <1>5, RelinkedStep
<1>6. CASE UNCHANGED <<dir, lost, sv>>
  BY <1>1, <1>2, <1>4, <1>6, GiveUpStep DEF disk
<1> QED BY <1>5, <1>6 DEF got_remove

\* A file gets its new name, or is given up.
LEMMA RenameStep ==
    ASSUME NEW t, Thread = {t}, Inv(t), got_rename(t)
    PROVE  Inv(t)' /\ panicked' = "no"
<1>1. pc[t] = "got" /\ panicked = "no" /\ op[t] = "rename" /\ LocalTypes /\ SharedTypes /\ WorkOK(t)
  BY DEF got_rename, Got, At, Inv
<1>2. UNCHANGED <<freemap, disklinks, made, vnodes, used, held, op, name, name2, ino, v, slot>>
  BY DEF got_rename
<1>3. /\ slot[t] \in DOMAIN dir /\ dir[slot[t]].ino = ino[t]
      /\ sv[v[t]].ino = ino[t] /\ ino[t] \in Ino
  BY <1>1, HasLinks
<1>4. panicked' = "no"
  BY <1>1 DEF got_rename
<1>5. CASE Goto(t, "decref") /\ UNCHANGED <<dir, lost, sv, slot2>>
  BY <1>1, <1>2, <1>4, <1>5, GiveUpStep DEF disk, locals
<1>6. ASSUME CanLink(name2[t]), Link(name2[t], ino[t]), AddLinks(v[t], 1),
             slot2' = [slot2 EXCEPT ![t] = LinkSlot], Goto(t, "unlink_old")
      PROVE  Inv(t)'
  <2>1. PICK x : x = v[t]
    OBVIOUS
  <2>2. x \in Vnode /\ Live(x) /\ sv[x].ino = ino[t]
    BY <1>1, <1>3, <2>1, InHand DEF Unloaded
  <2>3. pc' \in [Thread -> Labels] /\ pc'[t] = "unlink_old"
    BY <1>1, <1>6, GotoLabel DEF Labels
  <2>4. PICK n \in Name \cup {NoName} : n = name2[t]
    BY <1>1 DEF LocalTypes
  <2>5. CanLink(n) /\ Link(n, sv[x].ino) /\ AddLinks(x, 1)
    BY <1>6, <2>1, <2>2, <2>4
  <2>6. /\ VnodesOK(t)' /\ NamesOK' /\ dir' \in Seq(DirEntry) /\ Relinked(x)
        /\ \A r \in DOMAIN dir : dir[r].ino # NOINO => r \in DOMAIN dir' /\ dir'[r] = dir[r] /\ r # LinkSlot
        /\ LinkSlot \in DOMAIN dir' /\ dir'[LinkSlot].ino \in {NOINO, sv[x].ino} /\ LinkSlot \in Nat
        /\ lost' \/ dir'[LinkSlot].ino = sv[x].ino
        /\ lost' \in BOOLEAN /\ (lost => lost') /\ sv'[x].links # 0
    BY <1>1, <1>2, <2>2, <2>3, <2>5, LinkStep
  <2>7. slot2' \in [Thread -> Nat] /\ slot2'[t] = LinkSlot
    BY <1>1, <1>6, <2>6 DEF LocalTypes
  <2>8. LocalTypes'
    BY <1>1, <1>2, <2>3, <2>7 DEF LocalTypes
  <2>9. \A y \in Vnode : Using(t, y)' => Using(t, y)
    BY <1>1, <1>2 DEF Using
  <2>10. SharedTypes' /\ RefsOK(t)' /\ Live(x)'
    BY <1>2, <2>2, <2>6, <2>9, RelinkedRefs
  <2>11. WorkOK(t)'
    <3>1. dir[slot[t]].ino # NOINO
      BY <1>3 DEF Ino, NOINO
    <3>2. SlotIs(t, slot[t])' /\ slot'[t] # slot2'[t]
      BY <1>2, <1>3, <2>6, <2>7, <3>1 DEF SlotIs
    <3>3. /\ slot2'[t] \in DOMAIN dir' /\ dir'[slot2'[t]].ino \in {NOINO, ino'[t]}
          /\ lost' \/ SlotIs(t, slot2[t])'
      BY <1>2, <2>2, <2>6, <2>7 DEF SlotIs
    <3>4. v'[t] \in Vnode /\ Live(v[t])' /\ sv'[v'[t]].ino = ino'[t] /\ sv'[v'[t]].links # 0
      BY <1>2, <2>1, <2>2, <2>6, <2>10 DEF Live, Relinked
    <3>5. op'[t] = "rename" /\ ino'[t] \in Ino /\ (lost' \/ ino'[t] \in freemap')
      BY <1>1, <1>2, <2>6 DEF WorkOK
    <3> QED BY <2>3, <3>2, <3>3, <3>4, <3>5 DEF WorkOK, Unloaded, Reclaims, Searches
  <2> QED BY <2>6, <2>8, <2>10, <2>11 DEF Inv
<1> QED BY <1>4, <1>5, <1>6 DEF got_rename

\* The old name of a renamed file is removed, or the new one.
LEMMA RenameUnlinkStep ==
    ASSUME NEW t, Thread = {t}, Inv(t), rename_unlink(t)
    PROVE  Inv(t)' /\ panicked' \in {"no", "cannot_recover"}
<1>1. pc[t] = "unlink_old" /\ panicked = "no" /\ WorkOK(t) /\ Goto(t, "decref")
  BY DEF rename_unlink, At, Inv
<1>2. UNCHANGED <<freemap, disklinks, made, vnodes, used, held, op, locals>>
  BY DEF rename_unlink
<1>3. /\ slot[t] \in DOMAIN dir /\ dir[slot[t]].ino = sv[v[t]].ino /\ sv[v[t]].links # 0
      /\ slot2[t] \in DOMAIN dir /\ dir[slot2[t]].ino \in {NOINO, sv[v[t]].ino}
      /\ lost \/ dir[slot2[t]].ino = sv[v[t]].ino
  BY <1>1 DEF WorkOK, SlotIs
<1>4. CASE Unlink(slot[t]) /\ AddLinks(v[t], -1) /\ UNCHANGED panicked
  BY <1>1, <1>2, <1>3, <1>4, RelinkedStep
<1>5. CASE Unlink(slot2[t]) /\ UNCHANGED <<sv, panicked>>
  BY <1>1, <1>2, <1>3, <1>5, RelinkedStep
<1>6. CASE panicked' = "cannot_recover" /\ UNCHANGED <<dir, lost, sv>>
  BY <1>1, <1>2, <1>6, GiveUpStep DEF disk
<1> QED BY <1>4, <1>5, <1>6 DEF rename_unlink

\* A reference is given up, or it is the last one.
LEMMA DecrefStep ==
    ASSUME NEW t, Thread = {t}, Inv(t), decref(t)
    PROVE  Inv(t)' /\ panicked' = "no"
<1>1. pc[t] = "decref" /\ panicked = "no" /\ LocalTypes /\ SharedTypes /\ RefsOK(t)
  BY DEF decref, At, Inv
<1>2. UNCHANGED <<disk, vnodes, used, held>>
  BY DEF decref
<1>3. PICK x : x = v[t]
  OBVIOUS
<1>4. x \in Vnode /\ Live(x) /\ sv[x] \in VnodeRecord /\ VnodeOK(t, x)
  BY <1>1, <1>3, InHand DEF Unloaded
<1>5. sv[x].refcount \in Nat /\ sv[x].refcount >= 1
  BY <1>4 DEF VnodeOK, VnodeRecord
<1>6. panicked' = "no"
  <2>1. sv[x].state = "live" /\ sv[x].refcount > 0
    BY <1>4, <1>5 DEF Live
  <2> QED BY <1>1, <1>3, <2>1 DEF decref, PanicIf
<1>7. CASE sv[x].refcount > 1
  <2>1. PICK q : q = [sv[x] EXCEPT !.refcount = @ - 1]
    OBVIOUS
  <2>2. sv' = [sv EXCEPT ![x] = q] /\ Return(t)
    BY <1>1, <1>3, <1>7, <2>1 DEF decref
  <2>3. sv[x].refcount - 1 \in Nat /\ sv[x].refcount - 1 >= 1
    BY <1>5, <1>7
  <2>4. /\ q \in VnodeRecord /\ q.ino = sv[x].ino /\ q.links = sv[x].links /\ q.state = "live"
        /\ q.dirty = sv[x].dirty /\ q.refcount = sv[x].refcount - 1
    BY <1>4, <2>1, <2>3 DEF VnodeRecord, Live
  <2>5. LocalTypes' /\ WorkOK(t)' /\ pc'[t] = "idle"
    BY <1>1, <2>2, Returned
  <2>6. SharedTypes' /\ NamesOK' /\ VnodesOK(t)'
    <3>1. \A y \in Vnode : (Adding(t, y)' <=> Adding(t, y)) /\ (Killing(t, y) => Killing(t, y)')
      BY <1>1, <2>5 DEF Adding, Killing
    <3>2. UNCHANGED <<dir, freemap, vnodes, used, held>> /\ UNCHANGED <<disklinks, made, lost>>
      BY <1>2 DEF disk
    <3> QED BY <1>4, <2>2, <2>3, <2>4, <3>1, <3>2, Rewritten
  <2>7. RefsOK(t)'
    <3>1. Using(t, x) /\ \A y \in Vnode : ~Using(t, y)'
      BY <1>1, <1>3, <2>5 DEF Using
    <3>2. Ind(Using(t, x)) = 1 /\ Ind(Using(t, x)') = 0
      BY <1>4, <3>1 DEF Ind
    <3>3. q.refcount - Ind(Using(t, x)') >= sv[x].refcount - Ind(Using(t, x))
      BY <1>5, <2>4, <3>2
    <3>4. ToSet(held[t]) \subseteq ToSet(vnodes')
      BY <1>1, <1>2 DEF RefsOK
    <3> QED BY <1>2, <1>4, <2>2, <2>4, <2>6, <3>1, <3>3, <3>4, RefsOfOne
  <2> QED BY <1>6, <2>5, <2>6, <2>7 DEF Inv
<1>8. CASE ~(sv[x].refcount > 1)
  <2>1. Goto(t, "reclaim") /\ UNCHANGED <<sv, op, locals>>
    BY <1>3, <1>8 DEF decref
  <2>2. pc' \in [Thread -> Labels] /\ pc'[t] = "reclaim"
    BY <1>1, <2>1, GotoLabel DEF Labels, Reclaims
  <2>3. LocalTypes'
    BY <1>1, <2>1, <2>2 DEF LocalTypes, locals
  <2>4. SharedTypes' /\ NamesOK' /\ VnodesOK(t)' /\ RefsOK(t)'
    <3>1. \A y \in Vnode : Using(t, y)' => Using(t, y)
      BY <1>1, <2>1 DEF Using, locals
    <3> QED BY <1>1, <1>2, <2>1, <2>2, <3>1, Quiet
  <2>5. WorkOK(t)'
    <3>1. v'[t] \in Vnode /\ Live(v[t])' /\ sv'[v'[t]].refcount = 1
      BY <1>3, <1>4, <1>5, <1>8, <2>1 DEF Live, locals
    <3> QED BY <2>2, <3>1, AtDecref
  <2> QED BY <1>6, <2>3, <2>4, <2>5 DEF Inv
<1> QED BY <1>7, <1>8

\* Nobody has picked the vnode up since.
LEMMA ReclaimStep ==
    ASSUME NEW t, Thread = {t}, Inv(t), reclaim(t)
    PROVE  Inv(t)' /\ panicked' = "no"
<1>1. pc[t] = "reclaim" /\ panicked = "no" /\ LocalTypes
  BY DEF reclaim, At, Inv
<1>2. v[t] \in Vnode /\ Live(v[t]) /\ sv[v[t]].refcount = 1
  BY <1>1, InHand DEF Unloaded, Inv, WorkOK, Reclaims
<1>3. panicked' = "no" /\ Goto(t, "sync") /\ UNCHANGED <<disk, vnodes, sv, used, held, op, locals>>
  BY <1>1, <1>2 DEF reclaim, PanicIf, Live
<1>4. pc' \in [Thread -> Labels] /\ pc'[t] = "sync"
  BY <1>1, <1>3, GotoLabel DEF Labels, Reclaims
<1>5. LocalTypes'
  BY <1>1, <1>3, <1>4 DEF LocalTypes, locals
<1>6. SharedTypes' /\ NamesOK' /\ VnodesOK(t)' /\ RefsOK(t)'
  <2>1. \A y \in Vnode : Using(t, y)' => Using(t, y)
    BY <1>1, <1>3 DEF Using, locals
  <2> QED BY <1>1, <1>3, <1>4, <2>1, Quiet
<1>7. WorkOK(t)'
  <2>1. v'[t] \in Vnode /\ Live(v[t])' /\ sv'[v'[t]].refcount = 1
    BY <1>2, <1>3 DEF Live, locals
  <2> QED BY <1>4, <2>1, AtDecref
<1> QED BY <1>3, <1>5, <1>6, <1>7 DEF Inv

\* An inode is written to disk.
LEMMA Synced ==
    ASSUME NEW t, Thread = {t}, Inv(t), NEW x \in Vnode, Live(x),
           WriteInode(x), UNCHANGED <<dir, freemap, vnodes, used, held, v>>,
           \A y \in Vnode : (Adding(t, y)' <=> Adding(t, y)) /\ (Killing(t, y) => Killing(t, y)'),
           \A y \in Vnode : Using(t, y)' <=> Using(t, y)
    PROVE  /\ SharedTypes' /\ NamesOK' /\ VnodesOK(t)' /\ RefsOK(t)'
           /\ \A y \in Vnode : /\ Live(y)' <=> Live(y)
                               /\ sv'[y].ino = sv[y].ino /\ sv'[y].refcount = sv[y].refcount
                               /\ sv'[y].links = sv[y].links /\ (sv'[y].dirty => sv[y].dirty)
           /\ ~sv'[x].dirty /\ (lost => lost') /\ \A y \in Vnode : y # x => sv'[y] = sv[y]
           /\ \A j \in Ino : j # sv[x].ino => (j \in made' <=> j \in made)
<1>1. SharedTypes /\ RefsOK(t) /\ sv \in [Vnode -> VnodeRecord] /\ sv[x] \in VnodeRecord /\ VnodeOK(t, x)
  BY DEF Inv, SharedTypes, VnodesOK
<1>2. PICK q : q = [sv[x] EXCEPT !.dirty = FALSE]
  OBVIOUS
<1>3. /\ q \in VnodeRecord /\ q.ino = sv[x].ino /\ q.links = sv[x].links /\ q.state = "live"
      /\ q.dirty = FALSE /\ q.refcount = sv[x].refcount /\ q.refcount >= 1
  BY <1>1, <1>2 DEF VnodeRecord, VnodeOK, Live
<1>4. /\ sv' = [sv EXCEPT ![x] = q]
      /\ \/ /\ disklinks' = [disklinks EXCEPT ![sv[x].ino] = sv[x].links]
            /\ made' = made \cup {sv[x].ino} /\ UNCHANGED lost
         \/ UNCHANGED <<disklinks, made>> /\ lost' = TRUE
  BY <1>1, <1>2 DEF WriteInode, Write
<1>5. SharedTypes' /\ NamesOK' /\ VnodesOK(t)'
  BY <1>3, <1>4, Rewritten
<1>6. sv'[x] = q /\ \A y \in Vnode : y # x => sv'[y] = sv[y]
  BY <1>1, <1>4
<1>7. \A y \in Vnode : /\ Live(y)' <=> Live(y)
                       /\ sv'[y].ino = sv[y].ino /\ sv'[y].refcount = sv[y].refcount
                       /\ sv'[y].links = sv[y].links /\ (sv'[y].dirty => sv[y].dirty)
  BY <1>3, <1>6 DEF Live
<1>8. RefsOK(t)'
  <2>1. ASSUME NEW y \in Vnode PROVE sv'[y].refcount - Ind(Using(t, y)') >= sv[y].refcount - Ind(Using(t, y))
    <3>1. Ind(Using(t, y)') = Ind(Using(t, y)) /\ Ind(Using(t, y)) \in Nat
      BY DEF Ind
    <3>2. sv'[y].refcount = sv[y].refcount /\ sv[y].refcount \in Nat
      BY <1>1, <1>7 DEF VnodeRecord
    <3> QED BY <3>1, <3>2
  <2>2. ToSet(held[t]) \subseteq ToSet(vnodes')
    BY <1>1 DEF RefsOK
  <2> QED BY <1>1, <1>5, <2>1, <2>2, RefsStep
<1>9. (lost => lost') /\ \A j \in Ino : j # sv[x].ino => (j \in made' <=> j \in made)
  BY <1>4
<1> QED BY <1>3, <1>5, <1>6, <1>7, <1>8, <1>9

\* The inode of the vnode that is reclaimed is written, or the vnode stays.
LEMMA ReclaimSyncStep ==
    ASSUME NEW t, Thread = {t}, Inv(t), reclaim_sync(t)
    PROVE  Inv(t)' /\ panicked' = "no"
<1>1. pc[t] = "sync" /\ panicked = "no" /\ LocalTypes /\ WorkOK(t)
  BY DEF reclaim_sync, At, Inv
<1>2. UNCHANGED <<dir, freemap, vnodes, used, held>> /\ panicked' = "no"
  BY <1>1 DEF reclaim_sync
<1>3. PICK x : x = v[t]
  OBVIOUS
<1>4. x \in Vnode /\ Live(x) /\ sv[x].refcount = 1 /\ sv[x] \in VnodeRecord
  BY <1>1, <1>3, InHand DEF Unloaded, WorkOK, Reclaims
<1>5. CASE Return(t) /\ UNCHANGED <<disklinks, made, lost, sv>>
  BY <1>1, <1>2, <1>5, ReturnStep DEF disk
<1>6. ASSUME Goto(t, "bfree"), UNCHANGED <<op, locals>>,
             IF sv[v[t]].dirty \/ sv[v[t]].links = 0
             THEN WriteInode(v[t]) ELSE UNCHANGED <<disklinks, made, lost, sv>>
      PROVE  Inv(t)'
  <2>1. pc' \in [Thread -> Labels] /\ pc'[t] = "bfree" /\ v' = v
    BY <1>1, <1>6, GotoLabel DEF Labels, Reclaims, locals
  <2>2. LocalTypes'
    BY <1>1, <1>6, <2>1 DEF LocalTypes, locals
  <2>3. \A y \in Vnode : Using(t, y)' <=> Using(t, y)
    BY <1>1, <2>1 DEF Using
  <2>4. SharedTypes' /\ NamesOK' /\ VnodesOK(t)' /\ RefsOK(t)' /\ Live(x)' /\ sv'[x].refcount = 1 /\ ~sv'[x].dirty
    <3>1. CASE sv[x].dirty \/ sv[x].links = 0
      <4>1. WriteInode(x)
        BY <1>3, <1>6, <3>1
      <4>2. \A y \in Vnode : (Adding(t, y)' <=> Adding(t, y)) /\ (Killing(t, y) => Killing(t, y)')
        BY <1>1, <2>1 DEF Adding, Killing
      <4> QED BY <1>2, <1>4, <2>1, <2>3, <4>1, <4>2, Synced
    <3>2. CASE ~(sv[x].dirty \/ sv[x].links = 0)
      <4>1. UNCHANGED <<disk, vnodes, sv, used, held>>
        BY <1>2, <1>3, <1>6, <3>2 DEF disk
      <4>2. SharedTypes' /\ NamesOK' /\ VnodesOK(t)' /\ RefsOK(t)'
        BY <1>1, <2>1, <2>3, <4>1, Quiet
      <4> QED BY <1>4, <3>2, <4>1, <4>2 DEF Live
    <3> QED BY <3>1, <3>2
  <2>5. WorkOK(t)'
    <3>1. v'[t] \in Vnode /\ Live(v[t])' /\ sv'[v'[t]].refcount = 1 /\ ~sv'[v'[t]].dirty
      BY <1>3, <1>4, <2>1, <2>4 DEF Live
    <3> QED BY <2>1, <3>1 DEF WorkOK, Unloaded, Reclaims
  <2> QED BY <2>2, <2>4, <2>5 DEF Inv
<1> QED BY <1>2, <1>5, <1>6 DEF reclaim_sync

\* An inode without links is discarded.
LEMMA ReclaimBfreeStep ==
    ASSUME NEW t, Thread = {t}, Inv(t), reclaim_bfree(t)
    PROVE  Inv(t)' /\ panicked' = "no"
<1>1. /\ pc[t] = "bfree" /\ panicked = "no" /\ LocalTypes /\ WorkOK(t) /\ SharedTypes
      /\ VnodesOK(t) /\ RefsOK(t) /\ NamesOK
  BY DEF reclaim_bfree, At, Inv
<1>2. UNCHANGED <<dir, disklinks, made, lost, vnodes, sv, used, held, op, locals>> /\ panicked' = "no"
  BY <1>1 DEF reclaim_bfree
<1>3. PICK x : x = v[t]
  OBVIOUS
<1>4. x \in Vnode /\ Live(x) /\ VnodeOK(t, x) /\ sv[x].ino \in Ino /\ sv[x] \in VnodeRecord
  BY <1>1, <1>3, InHand DEF Unloaded
<1>5. PICK i : i = sv[x].ino
  OBVIOUS
<1>6. freemap' = IF sv[x].links = 0 THEN freemap \ {i} ELSE freemap
  BY <1>3, <1>5 DEF reclaim_bfree
<1>7. pc' \in [Thread -> Labels] /\ pc'[t] = "untable" /\ v' = v
  BY <1>1, <1>2, GotoLabel DEF reclaim_bfree, Labels, Reclaims, locals
<1>8. LocalTypes' /\ SharedTypes'
  BY <1>1, <1>2, <1>6, <1>7 DEF LocalTypes, SharedTypes, locals
<1>9. sv[x].links = 0 => lost \/ \A s \in DOMAIN dir : dir[s].ino # i
  <2>1. (lost \/ sv[x].links >= Links(i)) /\ Links(i) \in Nat
    BY <1>1, <1>4, <1>5, LinksNat DEF VnodeOK
  <2>2. sv[x].links = 0 => lost \/ NamesOf(i) = {}
    BY <1>1, <2>1, LinksNat
  <2> QED BY <2>2 DEF NamesOf
<1>10. NamesOK'
  <2>1. \A s \in DOMAIN dir : dir[s].ino # NOINO => lost \/ dir[s].ino \in freemap'
    BY <1>1, <1>6, <1>9 DEF NamesOK
  <2> QED BY <1>1, <1>2, <2>1 DEF NamesOK, OnDisk, Resident, Live, Links
<1>11. VnodesOK(t)'
  <2>1. OneEach'
    BY <1>1, <1>2 DEF VnodesOK, OneEach, Live
  <2>2. ASSUME NEW y \in Vnode PROVE VnodeOK(t, y)'
    <3>1. VnodeOK(t, y) /\ ~Adding(t, y) /\ ~Adding(t, y)' /\ ~Killing(t, y) /\ (Killing(t, y)' <=> y = x)
      BY <1>1, <1>3, <1>7 DEF VnodesOK, Adding, Killing
    <3>2. Live(y) /\ y # x => sv[y].ino # i
      BY <1>1, <1>4, <1>5 DEF VnodesOK, OneEach
    <3>3. (Live(y)' <=> Live(y)) /\ Links(sv[y].ino)' = Links(sv[y].ino) /\ sv'[y] = sv[y]
      BY <1>2 DEF Live, Links
    <3>4. Live(y) => sv[y].ino \in freemap' \/ Killing(t, y)'
      BY <1>6, <3>1, <3>2 DEF VnodeOK
    <3> QED BY <1>2, <3>1, <3>3, <3>4 DEF VnodeOK
  <2> QED BY <2>1, <2>2 DEF VnodesOK
<1>12. RefsOK(t)'
  <2>1. ASSUME NEW y \in Vnode PROVE sv'[y].refcount - Ind(Using(t, y)') >= sv[y].refcount - Ind(Using(t, y))
    <3>1. Using(t, y)' <=> Using(t, y)
      BY <1>1, <1>7 DEF Using
    <3>2. Ind(Using(t, y)') = Ind(Using(t, y)) /\ Ind(Using(t, y)) \in Nat
      BY <3>1 DEF Ind
    <3>3. sv'[y].refcount = sv[y].refcount /\ sv[y].refcount \in Nat
      BY <1>1, <1>2 DEF SharedTypes, VnodeRecord
    <3> QED BY <3>2, <3>3
  <2>2. ToSet(held[t]) \subseteq ToSet(vnodes')
    BY <1>1, <1>2 DEF RefsOK
  <2> QED BY <1>1, <1>2, <1>8, <2>1, <2>2, RefsStep
<1>13. WorkOK(t)'
  <2>1. v'[t] \in Vnode /\ Live(v[t])' /\ sv'[v'[t]].refcount = 1 /\ ~sv'[v'[t]].dirty
    BY <1>1, <1>2, <1>3, <1>4, <1>7 DEF Live, WorkOK, Reclaims
  <2> QED BY <1>7, <2>1 DEF WorkOK, Unloaded, Reclaims
<1> QED BY <1>2, <1>8, <1>10, <1>11, <1>12, <1>13 DEF Inv

\* A loaded inode is written by sfs_fsync.
LEMMA FsyncStep ==
    ASSUME NEW t, Thread = {t}, Inv(t), NEW x \in Vnode, sfs_fsync(x)
    PROVE  Inv(t)' /\ panicked' = "no"
<1>1. /\ panicked = "no" /\ LocalTypes /\ WorkOK(t) /\ SharedTypes /\ VnodesOK(t)
      /\ x \in ToSet(vnodes) /\ sv[x].dirty
  BY InTableIs DEF sfs_fsync, Inv
<1>2. /\ UNCHANGED <<dir, freemap, vnodes, used, held>> /\ pc' = pc /\ op' = op /\ name' = name /\ name2' = name2
      /\ ino' = ino /\ v' = v /\ slot' = slot /\ slot2' = slot2 /\ panicked' = "no"
  BY <1>1 DEF sfs_fsync, locals
<1>3. Live(x) /\ ~Adding(t, x)
  BY <1>1 DEF VnodesOK, VnodeOK
<1>4. /\ \A y \in Vnode : (Adding(t, y)' <=> Adding(t, y)) /\ (Killing(t, y) => Killing(t, y)')
      /\ \A y \in Vnode : Using(t, y)' <=> Using(t, y)
  BY <1>2 DEF Adding, Killing, Using
<1>5. /\ SharedTypes' /\ NamesOK' /\ VnodesOK(t)' /\ RefsOK(t)'
      /\ \A y \in Vnode : /\ Live(y)' <=> Live(y)
                          /\ sv'[y].ino = sv[y].ino /\ sv'[y].refcount = sv[y].refcount
                          /\ sv'[y].links = sv[y].links /\ (sv'[y].dirty => sv[y].dirty)
      /\ (lost => lost') /\ \A j \in Ino : j # sv[x].ino => (j \in made' <=> j \in made)
  BY <1>2, <1>3, <1>4, Synced DEF sfs_fsync
<1>6. LocalTypes'
  BY <1>1, <1>2 DEF LocalTypes
<1>7. WorkOK(t)'
  <2>1. /\ SlotIs(t, slot[t])' <=> SlotIs(t, slot[t])
        /\ SlotIs(t, slot2[t])' <=> SlotIs(t, slot2[t])
        /\ Resident(ino[t])' <=> Resident(ino[t])
    BY <1>2, <1>5 DEF SlotIs, Resident
  <2>2. pc[t] \notin Unloaded =>
          /\ v'[t] \in Vnode /\ Live(v[t])' /\ sv'[v'[t]].ino = sv[v[t]].ino
          /\ sv'[v'[t]].refcount = sv[v[t]].refcount /\ sv'[v'[t]].links = sv[v[t]].links
          /\ sv'[v'[t]].dirty => sv[v[t]].dirty
    BY <1>1, <1>2, <1>5 DEF WorkOK, Live
  <2>3. pc[t] \in {"scan", "load"} /\ op[t] = "make" => lost' \/ ino[t] \notin made'
    <3>1. SUFFICES ASSUME pc[t] \in {"scan", "load"}, op[t] = "make", ~lost PROVE ino[t] \notin made'
      BY <1>5
    <3>2. ino[t] \in Ino /\ ino[t] \notin made /\ ~Resident(ino[t])
      BY <1>1, <3>1 DEF WorkOK
    <3> QED BY <1>3, <1>5, <3>2 DEF Resident
  <2>4. /\ pc'[t] = pc[t] /\ op'[t] = op[t] /\ ino'[t] = ino[t] /\ v'[t] = v[t] /\ slot'[t] = slot[t]
        /\ slot2'[t] = slot2[t] /\ freemap' = freemap /\ dir' = dir /\ Links(ino[t])' = Links(ino[t])
    BY <1>2 DEF Links
  <2> QED BY <1>1, <1>5, <2>1, <2>2, <2>3, <2>4 DEF WorkOK, Unloaded, Reclaims
<1> QED BY <1>2, <1>5, <1>6, <1>7 DEF Inv

\* A file system just mounted satisfies the invariant.
LEMMA InitInv ==
    ASSUME OneThread, Init
    PROVE  VnInv
<1>1. ASSUME NEW t, Thread = {t} PROVE Inv(t)
  <2>1. /\ dir = << >> /\ vnodes = << >> /\ freemap = {} /\ used = 0 /\ held[t] = << >>
        /\ made = {} /\ lost = FALSE /\ pc[t] = "idle" /\ v[t] = 0
    BY <1>1 DEF Init
  <2>2. SharedTypes
    <3>1. \A S : << >> \in Seq(S)
      BY EmptySet
    <3>2. IsInjective(vnodes)
      BY <2>1, EmptySet
    <3>3. disklinks \in [Ino -> Nat] /\ held \in [Thread -> Seq(Vnode)]
      BY <3>1 DEF Init
    <3>4. sv \in [Vnode -> VnodeRecord]
      BY SfsVnodesAssumption DEF Init, VnodeRecord, NOINO
    <3>5. /\ dir \in Seq(DirEntry) /\ vnodes \in Seq(Vnode) /\ freemap \subseteq Ino /\ used \in 0..NVnodes
          /\ made \subseteq Ino
      BY <2>1, <3>1, SfsVnodesAssumption
    <3>6. lost \in BOOLEAN
      BY DEF Init
    <3> QED BY <3>2, <3>3, <3>4, <3>5, <3>6 DEF SharedTypes
  <2>3. LocalTypes
    <3>1. /\ pc \in [Thread -> Labels] /\ op \in [Thread -> Searches \cup {"none", "make", "close"}]
          /\ name \in [Thread -> Name \cup {NoName}] /\ name2 \in [Thread -> Name \cup {NoName}]
      BY DEF Init, Labels, Unloaded
    <3>2. /\ ino \in [Thread -> 0..NInodes] /\ v \in [Thread -> 0..NVnodes]
          /\ slot \in [Thread -> Nat] /\ slot2 \in [Thread -> Nat]
      BY SfsVnodesAssumption DEF Init, NOINO
    <3> QED BY <3>1, <3>2 DEF LocalTypes
  <2>4. DOMAIN dir = {} /\ \A i : Links(i) = 0
    <3>1. DOMAIN dir = {}
      BY <2>1
    <3>2. \A i : NamesOf(i) = {}
      BY <3>1 DEF NamesOf
    <3> QED BY <2>2, <3>1, <3>2, LinksNat
  <2>5. NamesOK
    <3>1. \A i \in Ino : OnDisk(i)
      BY <2>4 DEF OnDisk
    <3> QED BY <2>4, <3>1 DEF NamesOK
  <2>6. VnodesOK(t)
    <3>1. \A x \in Vnode : ~Live(x) /\ sv[x].refcount = 0
      BY DEF Init, Live
    <3>2. ToSet(vnodes) = {}
      BY <2>1, EmptySet
    <3> QED BY <3>1, <3>2 DEF VnodesOK, VnodeOK, OneEach
  <2>7. RefsOK(t)
    <3>1. ToSet(held[t]) = {} /\ DOMAIN held[t] = {}
      BY <2>1, EmptySet
    <3>2. ASSUME NEW x \in Vnode PROVE Cardinality(Kept(t, x)) + Ind(Using(t, x)) <= sv[x].refcount
      <4>1. Kept(t, x) = {} /\ ~Using(t, x) /\ sv[x].refcount = 0
        BY <2>1, <3>1 DEF Kept, Using, Init
      <4>2. Cardinality(Kept(t, x)) = 0 /\ Ind(Using(t, x)) = 0
        BY <4>1, FS_EmptySet DEF Ind
      <4> QED BY <4>1, <4>2
    <3> QED BY <3>1, <3>2 DEF RefsOK
  <2>8. WorkOK(t)
    BY <2>1 DEF WorkOK, Unloaded, Reclaims
  <2> QED BY <2>2, <2>3, <2>5, <2>6, <2>7, <2>8 DEF Inv
<1>2. panicked = "no"
  BY DEF Init
<1> QED BY <1>1, <1>2 DEF OneThread, VnInv

\* Each call a thread may make keeps the invariant.
LEMMA CallStep ==
    ASSUME NEW t, Thread = {t}, Inv(t), Call(t)
    PROVE  Inv(t)' /\ panicked' = "no"
<1>1. ASSUME NEW n \in Name, sfs_lookup(t, n) \/ sfs_creat(t, n) \/ sfs_remove(t, n)
      PROVE  Inv(t)' /\ panicked' = "no"
  <2>1. PICK o \in Searches : Begin(t, o, n, NoName)
    BY <1>1 DEF sfs_lookup, sfs_creat, sfs_remove, Searches
  <2> QED BY <2>1, BeginStep
<1>2. ASSUME NEW n \in Name, NEW n2 \in Name, sfs_rename(t, n, n2)
      PROVE  Inv(t)' /\ panicked' = "no"
  BY <1>2, BeginStep DEF sfs_rename, Searches
<1>3. ASSUME NEW i \in DOMAIN held[t], close(t, i)
      PROVE  Inv(t)' /\ panicked' = "no"
  BY <1>3, CloseStep
<1>4. ASSUME NEW i \in DOMAIN held[t], NEW n \in Name, sfs_link(t, n, i)
      PROVE  Inv(t)' /\ panicked' = "no"
  BY <1>4, LinkCallStep
<1> QED BY <1>1, <1>2, <1>3, <1>4 DEF Call

\* So does each step of a call under way.
LEMMA StepStep ==
    ASSUME NEW t, Thread = {t}, Inv(t), Step(t)
    PROVE  Inv(t)' /\ panicked' \in {"no", "assert", "cannot_recover"} /\ (panicked' = "assert" => lost')
  BY FindStep, BallocStep, ScanStep, IncrefStep, LoadStep, AddStep, LookonceStep, OpenStep, MakeStep, RemoveStep,
     RenameStep, RenameUnlinkStep, DecrefStep, ReclaimStep, ReclaimSyncStep, ReclaimBfreeStep,
     ReclaimKillStep DEF Step

\* So does every step of the system.
LEMMA NextInv ==
    ASSUME OneThread, VnInv, [Next]_vars
    PROVE  VnInv'
<1>1. PICK t : Thread = {t}
  BY DEF OneThread
<1>2. Inv(t) /\ panicked \in {"no", "assert", "cannot_recover"} /\ (panicked = "assert" => lost)
  BY <1>1 DEF VnInv
<1>3. SUFFICES Inv(t)' /\ panicked' \in {"no", "assert", "cannot_recover"} /\ (panicked' = "assert" => lost')
  BY <1>1 DEF VnInv
<1>4. CASE Call(t)
  BY <1>1, <1>2, <1>4, CallStep
<1>5. CASE Step(t)
  BY <1>1, <1>2, <1>5, StepStep
<1>6. ASSUME NEW x \in Vnode, sfs_fsync(x) PROVE Inv(t)' /\ panicked' = "no"
  BY <1>1, <1>2, <1>6, FsyncStep
<1>7. CASE UNCHANGED vars
  BY <1>1, <1>2, <1>7, StutterStep DEF vars, disk, locals
<1> QED BY <1>1, <1>4, <1>5, <1>6, <1>7 DEF Next

----------------------------------------------------------------------------
(* What follows from the invariant *)

\* With one thread in the file system, the reference counts, the table and the names agree at
\* every step, whatever transfers fail and whatever writes are lost; until a write is lost the
\* link counts, in memory and on disk, and the free map agree with them too.
THEOREM VnodesInvariant ==
    ASSUME OneThread
    PROVE  Spec => []VnInv
<1>1. Init => VnInv
  BY InitInv
<1>2. VnInv /\ [Next]_vars => VnInv'
  BY NextInv
<1> QED BY <1>1, <1>2, PTL DEF Spec

\* With one thread no panic and no assert of sfs_vnode.c and vnode.c is reached, and no
\* freed vnode is used, until a write is lost; but for the panic that sfs_rename asks for.
THEOREM VnodesNoPanic ==
    ASSUME OneThread
    PROVE  Spec => []NoPanic
<1>1. VnInv => NoPanic
  <2>1. SUFFICES ASSUME VnInv PROVE NoPanic
    OBVIOUS
  <2>2. SharedTypes /\ (panicked = "assert" => lost)
    BY <2>1 DEF OneThread, VnInv, Inv
  <2>3. \A i, j \in DOMAIN vnodes : vnodes[i] = vnodes[j] => i = j
    BY <2>2 DEF SharedTypes, IsInjective
  <2> QED BY <2>2, <2>3 DEF NoPanic, TypeOK, SharedTypes, VnodeRecord
<1> QED BY <1>1, VnodesInvariant, PTL

\* With one thread a vnode is never freed while something refers to it.
THEOREM VnodesRefcount ==
    ASSUME OneThread
    PROVE  Spec => []RefcountCovers
<1>1. VnInv => RefcountCovers
  <2>1. SUFFICES ASSUME VnInv, NEW x \in Vnode PROVE References(x) <= sv[x].refcount
    BY DEF RefcountCovers
  <2>2. PICK t : Thread = {t}
    BY DEF OneThread
  <2>3. SharedTypes /\ RefsOK(t)
    BY <2>1, <2>2 DEF VnInv, Inv
  <2>4. PICK kept : kept = {r \in Thread \X (1..MaxHeld) : r[2] \in DOMAIN held[r[1]] /\ held[r[1]][r[2]] = x}
    OBVIOUS
  <2>5. PICK using : using = {u \in Thread : v[u] = x /\ pc[u] \notin {"incref", "idle"}}
    OBVIOUS
  <2>6. References(x) = Cardinality(kept) + Cardinality(using)
    BY <2>4, <2>5 DEF References
  <2>7. Cardinality(kept) <= Cardinality(Kept(t, x)) /\ Cardinality(kept) \in Nat
    <3>1. PICK f : f = [r \in kept |-> r[2]]
      OBVIOUS
    <3>2. ASSUME NEW r \in kept PROVE r[1] = t /\ r[2] \in Kept(t, x) /\ r = <<r[1], r[2]>>
      BY <2>2, <2>4 DEF Kept
    <3>3. f \in [kept -> Kept(t, x)]
      BY <3>1, <3>2
    <3>4. ASSUME NEW q \in kept, NEW r \in kept, f[q] = f[r] PROVE q = r
      <4>1. q[2] = r[2] /\ q[1] = r[1]
        BY <3>1, <3>2, <3>4
      <4> QED BY <3>2, <4>1
    <3>5. f \in Injection(kept, Kept(t, x))
      BY <3>3, <3>4 DEF Injection, IsInjective
    <3>6. IsFiniteSet(Kept(t, x))
      BY <2>2, <2>3, KeptFinite
    <3> QED BY <3>5, <3>6, FS_Injection, FS_CardinalityType
  <2>8. Cardinality(using) = Ind(Using(t, x))
    <3>1. CASE Using(t, x)
      <4>1. using = {t}
        BY <2>2, <2>5, <3>1 DEF Using
      <4> QED BY <3>1, <4>1, FS_Singleton DEF Ind
    <3>2. CASE ~Using(t, x)
      <4>1. using = {}
        BY <2>2, <2>5, <3>2 DEF Using
      <4> QED BY <3>2, <4>1, FS_EmptySet DEF Ind
    <3> QED BY <3>1, <3>2
  <2>9. Cardinality(Kept(t, x)) + Ind(Using(t, x)) <= sv[x].refcount /\ Cardinality(Kept(t, x)) \in Nat
    BY <2>2, <2>3, KeptFinite DEF RefsOK
  <2>10. Ind(Using(t, x)) \in Nat /\ sv[x].refcount \in Nat
    BY <2>3 DEF Ind, SharedTypes, VnodeRecord
  <2> QED BY <2>6, <2>7, <2>8, <2>9, <2>10
<1> QED BY <1>1, VnodesInvariant, PTL

\* With one thread a file that has a name keeps its inode, and between operations its link
\* count is at least the number of its names, until a write is lost.
THEOREM VnodesNames ==
    ASSUME OneThread
    PROVE  Spec => []NamesKeepFiles
<1>1. VnInv => NamesKeepFiles
  <2>1. SUFFICES ASSUME VnInv, ~lost, NEW s \in DOMAIN dir, dir[s].ino # NOINO
                 PROVE  /\ dir[s].ino \in freemap
                        /\ AllIdle => IF Loaded(dir[s].ino) # {}
                                      THEN \A x \in Loaded(dir[s].ino) : sv[x].links >= Links(dir[s].ino)
                                      ELSE disklinks[dir[s].ino] >= Links(dir[s].ino)
    BY DEF NamesKeepFiles
  <2>2. PICK t : Thread = {t}
    BY DEF OneThread
  <2>3. SharedTypes /\ NamesOK /\ VnodesOK(t)
    BY <2>1, <2>2 DEF VnInv, Inv
  <2>4. dir[s].ino \in freemap
    BY <2>1, <2>3 DEF NamesOK
  <2>5. PICK i : i = dir[s].ino
    OBVIOUS
  <2>6. i \in Ino
    BY <2>3, <2>4, <2>5 DEF SharedTypes
  <2>7. SUFFICES ASSUME AllIdle
                 PROVE  IF Loaded(i) # {} THEN \A x \in Loaded(i) : sv[x].links >= Links(i)
                                          ELSE disklinks[i] >= Links(i)
    BY <2>4, <2>5
  <2>8. \A x \in Vnode : InTable(x) <=> Live(x)
    BY <2>2, <2>3, <2>7, InTableIs DEF VnodesOK, VnodeOK, Adding, AllIdle
  <2>9. \A x \in Loaded(i) : sv[x].links >= Links(i)
    BY <2>1, <2>3, <2>8 DEF Loaded, VnodesOK, VnodeOK
  <2>10. Loaded(i) = {} => ~Resident(i)
    BY <2>8 DEF Loaded, Resident
  <2>11. Resident(i) \/ disklinks[i] >= Links(i)
    <3>1. s \in NamesOf(i)
      BY <2>5 DEF NamesOf
    <3>2. Links(i) # 0
      BY <2>3, <3>1, LinksNat
    <3> QED BY <2>1, <2>3, <2>6, <3>2 DEF NamesOK, OnDisk
  <2> QED BY <2>9, <2>10, <2>11
<1> QED BY <1>1, VnodesInvariant, PTL

\* With one thread a file loses its last name only to sfs_remove, until a write is lost.
THEOREM VnodesLastName ==
    ASSUME OneThread
    PROVE  Spec => LastNameRemoved
<1> DEFINE Removed(i) == \E t \in Thread : op[t] = "remove" /\ ino[t] = i /\ pc[t] # pc'[t]
<1>1. ASSUME VnInv, VnInv', [Next]_vars, NEW i \in Ino, Links(i) > 0, Links(i)' = 0, ~lost'
      PROVE  Removed(i)
  <2>1. PICK t : Thread = {t}
    BY DEF OneThread
  <2>2. Inv(t) /\ SharedTypes /\ SharedTypes' /\ LocalTypes
    BY <1>1, <2>1 DEF VnInv, Inv
  <2>3. Links(i) \in Nat /\ NamesOf(i)' = {}
    <3>1. PICK B : B = {s \in DOMAIN dir' : dir'[s].ino = i}
      OBVIOUS
    <3>2. B = NamesOf(i)' /\ Links(i)' = Cardinality(B)
      BY <3>1 DEF NamesOf, Links
    <3>3. Len(dir') \in Nat /\ DOMAIN dir' = 1..Len(dir')
      BY <2>2 DEF SharedTypes
    <3>4. IsFiniteSet(1..Len(dir')) /\ B \subseteq 1..Len(dir')
      BY <3>1, <3>3, FS_Interval
    <3>5. IsFiniteSet(B)
      BY <3>4, FS_Subset
    <3>6. B = {}
      BY <1>1, <3>2, <3>5, FS_EmptySet
    <3> QED BY <2>2, <3>2, <3>6, LinksNat
  <2>4. CASE UNCHANGED dir
    BY <1>1, <2>3, <2>4 DEF Links
  <2>5. ASSUME NEW x \in Vnode, Live(x), NEW n \in Name \cup {NoName}, CanLink(n),
               Link(n, sv[x].ino), AddLinks(x, 1), pc[t] \in {"idle", "got"}, pc'[t] # "add",
               UNCHANGED <<freemap, disklinks, made, vnodes, used>>
        PROVE  FALSE
    <3>1. Links(i)' >= Links(i)
      BY <2>1, <2>2, <2>5, LinkStep
    <3> QED BY <1>1, <2>3, <3>1
  <2>6. CASE got_make(t)
    <3>1. pc[t] = "got" /\ v[t] \in Vnode /\ Live(v[t]) /\ sv[v[t]].ino = ino[t] /\ name[t] \in Name \cup {NoName}
      BY <2>1, <2>2, <2>6, InHand DEF got_make, At, Unloaded, LocalTypes, Inv, WorkOK
    <3>2. CASE UNCHANGED dir
      BY <2>4, <3>2
    <3>3. CASE CanLink(name[t]) /\ Link(name[t], ino[t]) /\ AddLinks(v[t], 1) /\ Return(t)
      <4>1. pc'[t] = "idle" /\ UNCHANGED <<freemap, disklinks, made, vnodes, used>>
        BY <2>1, <2>2, <2>6, <3>3, Returned DEF got_make
      <4> QED BY <2>5, <3>1, <3>3, <4>1
    <3> QED BY <2>6, <3>2, <3>3 DEF got_make
  <2>7. CASE got_rename(t)
    <3>1. pc[t] = "got" /\ v[t] \in Vnode /\ Live(v[t]) /\ sv[v[t]].ino = ino[t] /\ name2[t] \in Name \cup {NoName}
      BY <2>1, <2>2, <2>7, InHand DEF got_rename, Got, At, Unloaded, LocalTypes, Inv, WorkOK
    <3>2. CASE UNCHANGED dir
      BY <2>4, <3>2
    <3>3. CASE CanLink(name2[t]) /\ Link(name2[t], ino[t]) /\ AddLinks(v[t], 1) /\ Goto(t, "unlink_old")
      <4>1. pc'[t] = "unlink_old" /\ UNCHANGED <<freemap, disklinks, made, vnodes, used>>
        BY <2>1, <2>2, <2>7, <3>3, GotoLabel DEF got_rename, Labels
      <4> QED BY <2>5, <3>1, <3>3, <4>1
    <3> QED BY <2>7, <3>2, <3>3 DEF got_rename
  <2>8. ASSUME NEW k \in DOMAIN held[t], NEW n \in Name, sfs_link(t, n, k) PROVE Removed(i)
    <3>1. PICK x : x = held[t][k]
      OBVIOUS
    <3>2. x \in Vnode /\ Live(x)
      <4>1. x \in ToSet(held[t]) /\ x \in Vnode
        BY <2>1, <2>2, <3>1 DEF SharedTypes, ToSet
      <4> QED BY <2>2, <4>1 DEF Inv, RefsOK, VnodesOK, VnodeOK
    <3>3. CASE UNCHANGED dir
      BY <2>4, <3>3
    <3>4. CASE Link(n, sv[x].ino) /\ AddLinks(x, 1)
      BY <2>5, <2>8, <3>2, <3>4 DEF sfs_link, At
    <3> QED BY <2>8, <3>1, <3>3, <3>4 DEF sfs_link
  <2>9. CASE got_remove(t)
    <3>1. /\ pc[t] = "got" /\ op[t] = "remove" /\ pc'[t] = "decref" /\ sv[v[t]].links # 0
          /\ UNCHANGED <<freemap, disklinks, made, vnodes, used>>
      BY <2>1, <2>2, <2>9, GotoLabel DEF got_remove, Got, At, Labels
    <3>2. /\ slot[t] \in DOMAIN dir /\ dir[slot[t]].ino = sv[v[t]].ino /\ sv[v[t]].ino = ino[t]
          /\ v[t] \in Vnode /\ Live(v[t])
      BY <2>1, <2>2, <3>1, HasLinks, InHand DEF Unloaded
    <3>3. CASE UNCHANGED dir
      BY <2>4, <3>3
    <3>4. CASE Unlink(slot[t]) /\ AddLinks(v[t], -1)
      <4>1. \A j \in Ino : j # sv[v[t]].ino => Links(j)' = Links(j)
        BY <2>1, <2>2, <3>1, <3>2, <3>4, UnlinkStep
      <4>2. i = ino[t]
        BY <1>1, <2>3, <3>2, <4>1
      <4> QED BY <2>1, <3>1, <4>2
    <3> QED BY <2>9, <3>3, <3>4 DEF got_remove
  <2>10. CASE rename_unlink(t)
    <3>1. pc[t] = "unlink_old" /\ pc'[t] = "decref" /\ UNCHANGED <<freemap, disklinks, made, vnodes, used>>
      BY <2>1, <2>2, <2>10, GotoLabel DEF rename_unlink, At, Labels
    <3>2. /\ v[t] \in Vnode /\ Live(v[t]) /\ sv[v[t]].ino = ino[t] /\ slot[t] # slot2[t]
          /\ slot[t] \in DOMAIN dir /\ dir[slot[t]].ino = ino[t]
          /\ slot2[t] \in DOMAIN dir /\ dir[slot2[t]].ino \in {NOINO, ino[t]}
          /\ lost \/ dir[slot2[t]].ino = ino[t]
          /\ sv[v[t]].links # 0
      BY <2>1, <2>2, <3>1, InHand DEF Unloaded, Inv, WorkOK, SlotIs
    <3>3. ASSUME NEW r \in DOMAIN dir, NEW s \in DOMAIN dir, r # s, dir[r].ino = ino[t], dir[s].ino = ino[t],
                 Unlink(s), AddLinks(v[t], -1) \/ UNCHANGED sv
          PROVE  FALSE
      <4>1. dir[s].ino = sv[v[t]].ino
        BY <3>2, <3>3
      <4>2. /\ r \in DOMAIN dir' /\ dir'[r] = dir[r]
            /\ \A j \in Ino : j # sv[v[t]].ino => Links(j)' = Links(j)
        BY <2>1, <2>2, <3>1, <3>2, <3>3, <4>1, UnlinkStep
      <4>3. i = ino[t]
        BY <1>1, <2>3, <3>2, <4>2
      <4>4. r \in NamesOf(i)'
        BY <3>3, <4>2, <4>3 DEF NamesOf
      <4> QED BY <2>3, <4>4
    <3>0. ~lost \/ (~Unlink(slot[t]) /\ ~Unlink(slot2[t]))
      BY <1>1 DEF Unlink, Write
    <3>4. CASE Unlink(slot[t]) /\ AddLinks(v[t], -1)
      BY <3>0, <3>2, <3>3, <3>4
    <3>5. CASE Unlink(slot2[t]) /\ UNCHANGED sv
      BY <3>0, <3>2, <3>3, <3>5
    <3>6. CASE UNCHANGED dir
      BY <2>4, <3>6
    <3> QED BY <2>10, <3>4, <3>5, <3>6 DEF rename_unlink
  <2>11. \/ UNCHANGED dir \/ got_make(t) \/ got_rename(t) \/ got_remove(t) \/ rename_unlink(t)
         \/ \E k \in DOMAIN held[t] : \E n \in Name : sfs_link(t, n, k)
    <3>1. CASE Call(t)
      BY <3>1 DEF Call, sfs_lookup, sfs_creat, sfs_remove, sfs_rename, Begin, close, disk
    <3>2. CASE Step(t)
      BY <3>2 DEF Step, find, balloc, scan, incref, load, add, lookonce_panic, got_open, decref, reclaim, reclaim_sync,
                  reclaim_bfree, reclaim_kill, disk
    <3>3. CASE \E x \in Vnode : sfs_fsync(x)
      BY <3>3 DEF sfs_fsync
    <3>4. CASE UNCHANGED vars
      BY <3>4 DEF vars
    <3> QED BY <1>1, <2>1, <3>1, <3>2, <3>3, <3>4 DEF Next
  <2> QED BY <2>4, <2>6, <2>7, <2>8, <2>9, <2>10, <2>11
<1>2. VnInv /\ VnInv' /\ [Next]_vars
        => [\A i \in Ino : Links(i) > 0 /\ Links(i)' = 0 /\ ~lost' => Removed(i)]_vars
  BY <1>1
<1> QED BY <1>2, VnodesInvariant, PTL DEF Spec, LastNameRemoved
=============================================================================
