----------------------------- MODULE SfsVnodes -----------------------------
(***************************************************************************)
(* The vnodes, inodes and directory of an SFS file system: vnode.c's       *)
(* reference counts, and sfs_loadvnode, sfs_reclaim, sfs_creat, sfs_link,  *)
(* sfs_remove, sfs_rename and sfs_lookup of the assignment 3 sfs_vnode.c.  *)
(*                                                                         *)
(* SFS has no lock of its own, and a thread may lose the CPU anywhere and  *)
(* sleeps in every disk transfer, so an operation is a sequence of steps   *)
(* that other threads' steps may come between; a step is what runs between *)
(* two accesses to state shared with them.  A file's data blocks are in    *)
(* SfsFile.  The root directory's vnode is always loaded and left out.     *)
(* A vnode structure, once freed, is not used again for another vnode, so  *)
(* that a stale pointer to it can be told.                                 *)
(*                                                                         *)
(* A transfer that fails is reported, or, when it is a write and the disk  *)
(* reports EIO, lost: sfs_rwblock tries again with a uio that the first    *)
(* attempt has used up, writes nothing, and reports success.               *)
(***************************************************************************)
EXTENDS Integers, FiniteSets, FiniteSetsExt, SequencesExt

CONSTANTS Thread, Name,
          NInodes,   \* blocks that inodes can be allocated in
          NSlots,    \* bound on the slots of the directory
          NVnodes,   \* bound on the vnodes ever loaded
          MaxHeld,   \* bound on the references a thread keeps
          MaxLinks,  \* bound on the link count of a file
          IOFails,   \* whether disk transfers and kmalloc may fail
          NoName     \* the name of an unused slot

ASSUME SfsVnodesAssumption ==
    /\ NInodes \in Nat \ {0} /\ NSlots \in Nat \ {0} /\ NVnodes \in Nat \ {0}
    /\ MaxHeld \in Nat \ {0} /\ MaxLinks \in Nat \ {0} /\ IOFails \in BOOLEAN
    /\ NoName \notin Name

Ino == 1..NInodes
Vnode == 1..NVnodes
NOINO == 0   \* SFS_NOINO

VARIABLES dir,        \* the directory: [name, ino] of each slot, a sequence
          freemap,    \* the inode blocks in use
          disklinks,  \* sfi_linkcount on disk
          made,       \* the blocks that hold an inode on disk, with its sfi_type
          lost,       \* history: a write to the disk has been lost
          vnodes,     \* sfs_vnodes, the table of loaded vnodes
          sv,         \* every vnode: [ino, refcount, links, dirty, state]
          used,       \* vnode structures allocated so far
          held,       \* the references each thread keeps, as files it has open
          pc, op,     \* where a thread is, and in which operation
          name, name2, \* its arguments
          ino, v,     \* locals: the inode number and the vnode it works on
          slot, slot2, \* locals: the slot of the name, and of the new name
          panicked    \* "assert": a panic, a failed assert, or a freed vnode used;
                      \* "cannot_recover": that of sfs_rename

disk == <<dir, freemap, disklinks, made, lost>>
locals == <<name, name2, ino, v, slot, slot2>>
vars == <<dir, freemap, disklinks, made, lost, vnodes, sv, used, held, pc, op, name, name2,
          ino, v, slot, slot2, panicked>>

\* A file system just made by mksfs and mounted.
Init ==
    /\ dir = << >>
    /\ freemap = {} /\ disklinks = [i \in Ino |-> 0] /\ made = {} /\ lost = FALSE
    /\ vnodes = << >>
    /\ sv = [x \in Vnode |-> [ino |-> NOINO, refcount |-> 0, links |-> 0,
                         dirty |-> FALSE, state |-> "none"]]
    /\ used = 0
    /\ held = [t \in Thread |-> << >>]
    /\ pc = [t \in Thread |-> "idle"] /\ op = [t \in Thread |-> "none"]
    /\ name = [t \in Thread |-> NoName] /\ name2 = [t \in Thread |-> NoName]
    /\ ino = [t \in Thread |-> NOINO] /\ v = [t \in Thread |-> 0]
    /\ slot = [t \in Thread |-> 0] /\ slot2 = [t \in Thread |-> 0]
    /\ panicked = "no"

----------------------------------------------------------------------------

At(t, label) == pc[t] = label /\ panicked = "no"

\* A panic or failed assert, or a use of freed memory, when bad.
PanicIf(bad) == panicked' = IF bad THEN "assert" ELSE panicked

Goto(t, label) == pc' = [pc EXCEPT ![t] = label]

\* The operation returns: its locals are dead.
Return(t) ==
    /\ Goto(t, "idle")
    /\ op' = [op EXCEPT ![t] = "none"]
    /\ name' = [name EXCEPT ![t] = NoName] /\ name2' = [name2 EXCEPT ![t] = NoName]
    /\ ino' = [ino EXCEPT ![t] = NOINO] /\ v' = [v EXCEPT ![t] = 0]
    /\ slot' = [slot EXCEPT ![t] = 0] /\ slot2' = [slot2 EXCEPT ![t] = 0]

\* A vnode structure after kfree.
Freed == [ino |-> NOINO, refcount |-> 0, links |-> 0, dirty |-> FALSE, state |-> "freed"]

\* sfs_wblock, whose effect on the disk is done, or is lost.
Write(done, undone) == \/ done /\ UNCHANGED lost
                       \/ IOFails /\ undone /\ lost' = TRUE

InTable(x) == \E i \in DOMAIN vnodes : vnodes[i] = x

----------------------------------------------------------------------------
(* The directory *)

\* sfs_dir_findname.
Entries(n) == {s \in DOMAIN dir : dir[s].ino # NOINO /\ dir[s].name = n}
EmptySlots == {s \in DOMAIN dir : dir[s].ino = NOINO}

\* Mutant of LinkSlot: sfs_dir_nentries one short.
LinkSlot_short == IF EmptySlots # {} THEN Max(EmptySlots) ELSE Max({1, Len(dir)})

\* sfs_dir_link's slot: the last empty one that sfs_dir_findname sees, or the end.
LinkSlot == IF EmptySlots # {} THEN Max(EmptySlots) ELSE Len(dir) + 1

\* Mutant of CanLink: an existing name is not looked for.
CanLink_any(n) == LinkSlot <= NSlots

\* sfs_dir_link's conditions: the name must not exist; the directory can grow.
CanLink(n) == Entries(n) = {} /\ LinkSlot <= NSlots

\* An entry that sfs_dir_unlink has erased, or that was never written.
NoEntry == [name |-> NoName, ino |-> NOINO]

\* sfs_writedir.  Past the end the directory grows, even when the write is lost.
Put(s, entry) == dir' = IF s > Len(dir) THEN Append(dir, entry) ELSE [dir EXCEPT ![s] = entry]
Link(n, i) == Write(Put(LinkSlot, [name |-> n, ino |-> i]), Put(LinkSlot, NoEntry))
Unlink(s) == Write(Put(s, NoEntry), UNCHANGED dir)

\* sfs_sync_inode of x.
WriteInode(x) ==
    /\ Write(/\ disklinks' = [disklinks EXCEPT ![sv[x].ino] = sv[x].links]
             /\ made' = made \cup {sv[x].ino},
             UNCHANGED <<disklinks, made>>)
    /\ sv' = [sv EXCEPT ![x].dirty = FALSE]

\* A change of the link count of x, which marks its inode dirty.
AddLinks(x, d) == sv' = [sv EXCEPT ![x].links = @ + d, ![x].dirty = TRUE]

----------------------------------------------------------------------------
(* Starting an operation *)

Begin(t, o, n, n2) ==
    /\ At(t, "idle")
    /\ op' = [op EXCEPT ![t] = o]
    /\ name' = [name EXCEPT ![t] = n] /\ name2' = [name2 EXCEPT ![t] = n2]
    /\ Goto(t, "find")
    /\ UNCHANGED <<disk, vnodes, sv, used, held, ino, v, slot, slot2, panicked>>

sfs_lookup(t, n) == Len(held[t]) < MaxHeld /\ Begin(t, "lookup", n, NoName)
sfs_creat(t, n) == Len(held[t]) < MaxHeld /\ Begin(t, "creat", n, NoName)
sfs_remove(t, n) == Begin(t, "remove", n, NoName)
sfs_rename(t, n, n2) == Begin(t, "rename", n, n2)

\* sfs_link(file, n) for a file t has open: no lookup, the link is made at once.
sfs_link(t, n, i) ==
    /\ At(t, "idle") /\ CanLink(n)
    /\ LET x == held[t][i]
       IN \/ sv[x].links < MaxLinks /\ Link(n, sv[x].ino) /\ AddLinks(x, 1)
          \/ IOFails /\ UNCHANGED <<dir, lost, sv>>
    /\ UNCHANGED <<freemap, disklinks, made, vnodes, used, held, pc, op, locals, panicked>>

\* vfs_close, or the last use of a vnode: VOP_DECREF of a reference t keeps.
close(t, i) ==
    /\ At(t, "idle")
    /\ op' = [op EXCEPT ![t] = "close"]
    /\ v' = [v EXCEPT ![t] = held[t][i]]
    /\ held' = [held EXCEPT ![t] = RemoveAt(@, i)]
    /\ Goto(t, "decref")
    /\ UNCHANGED <<disk, vnodes, sv, used, name, name2, ino, slot, slot2, panicked>>

\* The name was found in slot s.  Each name may appear only once.
Found(t, s) ==
    /\ ino' = [ino EXCEPT ![t] = dir[s].ino]
    /\ slot' = [slot EXCEPT ![t] = s]
    /\ Goto(t, "scan")
    /\ PanicIf(Cardinality(Entries(name[t])) > 1)
    /\ UNCHANGED <<op, name, name2, v, slot2>>

\* sfs_dir_findname for the name, and what the operation does with the answer:
\* sfs_creat goes on to make the file when there is none, or fails when there is
\* one and excl is set; the others need one.
find(t) ==
    /\ At(t, "find")
    /\ LET found == Entries(name[t])
       IN \/ \E s \in found : Found(t, s)
          \/ /\ found = {} /\ op[t] = "creat"
             /\ op' = [op EXCEPT ![t] = "make"]
             /\ Goto(t, "balloc")
             /\ UNCHANGED <<locals, panicked>>
          \/ /\ IOFails \/ (found = {} <=> op[t] # "creat")
             /\ Return(t) /\ UNCHANGED panicked
    /\ UNCHANGED <<disk, vnodes, sv, used, held>>

\* sfs_makeobj: a block for the inode, marked in the free map and then cleared on
\* disk; it stays marked when that fails.  When the clearing is lost, what was there
\* stays.
balloc(t) ==
    /\ At(t, "balloc")
    /\ IF Ino \ freemap = {}
       THEN Return(t) /\ UNCHANGED <<freemap, disklinks, made, lost>>
       ELSE LET i == Min(Ino \ freemap)
            IN /\ freemap' = freemap \cup {i}
               /\ \/ /\ Write(disklinks' = [disklinks EXCEPT ![i] = 0] /\ made' = made \ {i},
                              UNCHANGED <<disklinks, made>>)
                     /\ ino' = [ino EXCEPT ![t] = i]
                     /\ Goto(t, "scan")
                     /\ UNCHANGED <<op, name, name2, v, slot, slot2>>
                  \/ IOFails /\ Return(t) /\ UNCHANGED <<disklinks, made, lost>>
    /\ UNCHANGED <<dir, vnodes, sv, used, held, panicked>>

----------------------------------------------------------------------------
(* sfs_loadvnode *)

Loaded(i) == {x \in Vnode : InTable(x) /\ sv[x].ino = i}

\* The search of the table.  Every vnode in it must be in an allocated block, and
\* a new object's inode must not be found.
scan(t) ==
    /\ At(t, "scan")
    /\ PanicIf(\/ \E x \in Vnode : InTable(x) /\ sv[x].ino \notin freemap
               \/ op[t] = "make" /\ Loaded(ino[t]) # {})
    /\ IF Loaded(ino[t]) # {}
       THEN /\ v' = [v EXCEPT ![t] = vnodes[Min({i \in DOMAIN vnodes : sv[vnodes[i]].ino = ino[t]})]]
            /\ Goto(t, "incref")
       ELSE Goto(t, "load") /\ UNCHANGED v
    /\ UNCHANGED <<disk, vnodes, sv, used, held, op, name, name2, ino, slot, slot2>>

\* VOP_INCREF of the vnode found.
incref(t) ==
    /\ At(t, "incref")
    /\ sv' = [sv EXCEPT ![v[t]].refcount = @ + 1]
    /\ PanicIf(sv[v[t]].state # "live")
    /\ Goto(t, "got")
    /\ UNCHANGED <<disk, vnodes, used, held, op, locals>>

\* The inode of t is in an allocated block, and has a type unless it is a new one.
Loadable(t) == ino[t] \in freemap /\ (ino[t] \in made <=> op[t] # "make")

\* Not found: the inode is read from disk (the thread sleeps) ...
load(t) ==
    /\ At(t, "load") /\ used < NVnodes
    /\ \/ /\ Loadable(t)
          /\ used' = used + 1
          /\ sv' = [sv EXCEPT ![used + 1] = [ino |-> ino[t], refcount |-> 1,
                                             links |-> disklinks[ino[t]],
                                             dirty |-> op[t] = "make", state |-> "live"]]
          /\ v' = [v EXCEPT ![t] = used + 1]
          /\ Goto(t, "add")
          /\ UNCHANGED <<op, name, name2, ino, slot, slot2, panicked>>
       \/ IOFails /\ Return(t) /\ UNCHANGED <<used, sv, panicked>>
       \/ ~Loadable(t) /\ panicked' = "assert" /\ UNCHANGED <<used, sv, pc, op, locals>>
    /\ UNCHANGED <<disk, vnodes, held>>

\* ... and the new vnode is added to the table, or killed and freed again.
add(t) ==
    /\ At(t, "add")
    /\ \/ /\ vnodes' = Append(vnodes, v[t])
          /\ Goto(t, "got")
          /\ UNCHANGED <<sv, op, locals, panicked>>
       \/ /\ IOFails
          /\ PanicIf(sv[v[t]].refcount # 1)
          /\ sv' = [sv EXCEPT ![v[t]] = Freed]
          /\ Return(t) /\ UNCHANGED vnodes
    /\ UNCHANGED <<disk, used, held>>

----------------------------------------------------------------------------
(* What each operation does with the vnode it has a reference to *)

Give(t) == held' = [held EXCEPT ![t] = Append(@, v[t])]

\* sfs_lookonce panics when a file found in the directory has no links.
lookonce_panic(t) ==
    /\ At(t, "got") /\ op[t] \in {"lookup", "remove", "rename"} /\ sv[v[t]].links = 0
    /\ panicked' = "assert"
    /\ UNCHANGED <<disk, vnodes, sv, used, held, pc, op, locals>>

\* t has what it looked for.
Got(t, o) == At(t, "got") /\ op[t] = o /\ sv[v[t]].links # 0

\* sfs_lookup and sfs_creat hand the vnode back.
got_open(t) ==
    /\ Got(t, "lookup") \/ (At(t, "got") /\ op[t] = "creat")
    /\ Give(t)
    /\ Return(t)
    /\ UNCHANGED <<disk, vnodes, sv, used, panicked>>

\* sfs_creat of a new file: link it, or give the vnode up again, which erases it.
got_make(t) ==
    /\ At(t, "got") /\ op[t] = "make"
    /\ \/ /\ CanLink(name[t])
          /\ Link(name[t], ino[t])
          /\ AddLinks(v[t], 1)
          /\ Give(t)
          /\ Return(t)
       \/ /\ IOFails \/ ~CanLink(name[t])
          /\ Goto(t, "decref")
          /\ UNCHANGED <<dir, lost, sv, held, op, locals>>
    /\ UNCHANGED <<freemap, disklinks, made, vnodes, used, panicked>>

\* sfs_remove: the directory entry is erased, and the link count goes down.
got_remove(t) ==
    /\ Got(t, "remove")
    /\ \/ Unlink(slot[t]) /\ AddLinks(v[t], -1)
       \/ IOFails /\ UNCHANGED <<dir, lost, sv>>
    /\ Goto(t, "decref")
    /\ UNCHANGED <<freemap, disklinks, made, vnodes, used, held, op, locals, panicked>>

\* sfs_rename: the new name is linked, and then the old one removed.
got_rename(t) ==
    /\ Got(t, "rename")
    /\ \/ /\ CanLink(name2[t])
          /\ sv[v[t]].links < MaxLinks
          /\ Link(name2[t], ino[t])
          /\ AddLinks(v[t], 1)
          /\ slot2' = [slot2 EXCEPT ![t] = LinkSlot]
          /\ Goto(t, "unlink_old")
       \/ /\ IOFails \/ ~CanLink(name2[t])
          /\ Goto(t, "decref")
          /\ UNCHANGED <<dir, lost, sv, slot2>>
    /\ UNCHANGED <<freemap, disklinks, made, vnodes, used, held, op, name, name2, ino, v, slot,
                   panicked>>

\* When the old name cannot be removed ("puke_harder") the new one is, or else the
\* system panics.
rename_unlink(t) ==
    /\ At(t, "unlink_old")
    /\ \/ Unlink(slot[t]) /\ AddLinks(v[t], -1) /\ UNCHANGED panicked
       \/ IOFails /\ Unlink(slot2[t]) /\ UNCHANGED <<sv, panicked>>
       \/ IOFails /\ panicked' = "cannot_recover" /\ UNCHANGED <<dir, lost, sv>>
    /\ Goto(t, "decref")
    /\ UNCHANGED <<freemap, disklinks, made, vnodes, used, held, op, locals>>

----------------------------------------------------------------------------
(* vnode_decref and sfs_reclaim *)

\* Mutant of decref: the test is off by one.
decref_two(t) ==
    /\ At(t, "decref")
    /\ IF sv[v[t]].refcount > 2
       THEN sv' = [sv EXCEPT ![v[t]].refcount = @ - 1] /\ Return(t)
       ELSE sv' = [sv EXCEPT ![v[t]].refcount = 1]
            /\ Goto(t, "reclaim") /\ UNCHANGED <<op, locals>>
    /\ UNCHANGED <<disk, vnodes, used, held, panicked>>

\* The last reference is not counted down but reclaimed.
decref(t) ==
    /\ At(t, "decref")
    /\ PanicIf(sv[v[t]].state # "live" \/ ~(sv[v[t]].refcount > 0))
    /\ IF sv[v[t]].refcount > 1
       THEN sv' = [sv EXCEPT ![v[t]].refcount = @ - 1] /\ Return(t)
       ELSE Goto(t, "reclaim") /\ UNCHANGED <<sv, op, locals>>
    /\ UNCHANGED <<disk, vnodes, used, held>>

\* sfs_reclaim: someone may have picked the vnode up since: EBUSY, and vnode_decref
\* returns.
reclaim(t) ==
    /\ At(t, "reclaim")
    /\ PanicIf(sv[v[t]].state # "live")
    /\ IF sv[v[t]].refcount # 1 THEN Return(t)
       ELSE Goto(t, "sync") /\ UNCHANGED <<op, locals>>
    /\ UNCHANGED <<disk, vnodes, sv, used, held>>

\* The file is truncated when it has no links, and the inode is written to disk
\* (the thread sleeps); on an error the vnode stays loaded.
reclaim_sync(t) ==
    /\ At(t, "sync")
    /\ \/ /\ IF sv[v[t]].dirty \/ sv[v[t]].links = 0
             THEN WriteInode(v[t]) ELSE UNCHANGED <<disklinks, made, lost, sv>>
          /\ Goto(t, "bfree")
          /\ UNCHANGED <<op, locals>>
       \/ IOFails /\ Return(t) /\ UNCHANGED <<disklinks, made, lost, sv>>
    /\ UNCHANGED <<dir, freemap, vnodes, used, held, panicked>>

\* Mutant of reclaim_bfree: the inode is discarded whatever links it has.
reclaim_bfree_always(t) ==
    /\ At(t, "bfree")
    /\ freemap' = freemap \ {sv[v[t]].ino}
    /\ Goto(t, "untable")
    /\ UNCHANGED <<dir, disklinks, made, lost, vnodes, sv, used, held, op, locals, panicked>>

\* Without links the inode is discarded.
reclaim_bfree(t) ==
    /\ At(t, "bfree")
    /\ freemap' = IF sv[v[t]].links = 0 THEN freemap \ {sv[v[t]].ino} ELSE freemap
    /\ Goto(t, "untable")
    /\ UNCHANGED <<dir, disklinks, made, lost, vnodes, sv, used, held, op, locals, panicked>>

\* The vnode is taken out of the table, killed (which asserts that this is the
\* last reference) and freed.
reclaim_kill(t) ==
    /\ At(t, "untable")
    /\ PanicIf(~InTable(v[t]) \/ sv[v[t]].refcount # 1)
    /\ vnodes' = RemoveFirst(vnodes, v[t])
    /\ sv' = [sv EXCEPT ![v[t]] = Freed]
    /\ Return(t)
    /\ UNCHANGED <<disk, used, held>>

\* sfs_fsync of a loaded vnode, by sfs_sync or the last close of a file.
sfs_fsync(x) ==
    /\ panicked = "no" /\ InTable(x) /\ sv[x].dirty
    /\ WriteInode(x)
    /\ UNCHANGED <<dir, freemap, vnodes, used, held, pc, op, locals, panicked>>

----------------------------------------------------------------------------

Step(t) ==
    \/ find(t) \/ balloc(t) \/ scan(t) \/ incref(t) \/ load(t) \/ add(t)
    \/ lookonce_panic(t) \/ got_open(t) \/ got_make(t) \/ got_remove(t)
    \/ got_rename(t) \/ rename_unlink(t)
    \/ decref(t) \/ reclaim(t) \/ reclaim_sync(t) \/ reclaim_bfree(t) \/ reclaim_kill(t)

Call(t) ==
    \/ \E n \in Name : sfs_lookup(t, n) \/ sfs_creat(t, n) \/ sfs_remove(t, n)
    \/ \E n, n2 \in Name : sfs_rename(t, n, n2)
    \/ \E i \in DOMAIN held[t] : close(t, i) \/ \E n \in Name : sfs_link(t, n, i)

Next == (\E t \in Thread : Call(t) \/ Step(t))
        \/ \E x \in Vnode : sfs_fsync(x)

Spec == Init /\ [][Next]_vars

----------------------------------------------------------------------------
(* Properties *)

\* The references to x: kept by threads, or being used in an operation.
References(x) ==
    LET kept == {r \in Thread \X (1..MaxHeld) : r[2] \in DOMAIN held[r[1]] /\ held[r[1]][r[2]] = x}
        using == {t \in Thread : v[t] = x /\ pc[t] \notin {"incref", "idle"}}
    IN Cardinality(kept) + Cardinality(using)

Links(i) == Cardinality({s \in DOMAIN dir : dir[s].ino = i})

AllIdle == \A t \in Thread : pc[t] = "idle"

TypeOK ==
    /\ freemap \subseteq Ino
    /\ \A x \in Vnode : sv[x].refcount \in Nat /\ sv[x].links \in Nat
    /\ \A i, j \in DOMAIN vnodes : vnodes[i] = vnodes[j] => i = j

\* No panic or assert of sfs_vnode.c and vnode.c is reached, and no freed vnode is
\* used, as long as no write is lost; transfers that fail, and no memory, are no
\* excuse.  Left out is the panic that sfs_rename itself asks for when it can take back
\* neither of its names.  The table has each vnode once, and no count goes below 0,
\* lost writes or not.
NoPanic == TypeOK /\ (panicked = "assert" => lost)

\* A vnode is not freed while something still refers to it: references are never
\* more than the count, whatever the disk has lost.
RefcountCovers == \A x \in Vnode : References(x) <= sv[x].refcount

\* A file with a name is never erased: its inode is allocated, and its link count
\* is at least the number of its names when no operation is under way; unless a write
\* has been lost, which leaves a count on disk too low, or a name that is counted away.
NamesKeepFiles ==
    ~lost => \A s \in DOMAIN dir : dir[s].ino # NOINO =>
        /\ dir[s].ino \in freemap
        /\ AllIdle => IF Loaded(dir[s].ino) # {}
                      THEN \A x \in Loaded(dir[s].ino) : sv[x].links >= Links(dir[s].ino)
                      ELSE disklinks[dir[s].ino] >= Links(dir[s].ino)

\* Only sfs_remove takes the last name of a file away: linking a name overwrites no
\* other entry, and sfs_rename, reporting a failure or not, never leaves the file
\* without one, unless a write is lost (that of the new name, say).
LastNameRemoved ==
    [][\A i \in Ino : Links(i) > 0 /\ Links(i)' = 0 /\ ~lost'
            => \E t \in Thread : op[t] = "remove" /\ ino[t] = i /\ pc[t] # pc'[t]]_vars

\* sfs_loadvnode: "load a inode into memory as a vnode, or dig up one that's
\* already resident".
OneVnodePerInode == \A i \in Ino : Cardinality(Loaded(i)) <= 1
=============================================================================
