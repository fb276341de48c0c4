------------------------------ MODULE SfsFile ------------------------------
(***************************************************************************)
(* The blocks of SFS files, as the assignment 3 solution of                *)
(* kern/fs/sfs/sfs_vnode.c keeps them: sfs_bmap with its direct, indirect, *)
(* double and triple indirect blocks, block allocation in the free map,    *)
(* reading and writing a block of a file, and sfs_truncate.                *)
(*                                                                         *)
(* One thread is in the file system at a time.  Data is in whole blocks;   *)
(* a disk block is an array of DBPERIDB words, which an indirect block     *)
(* uses for block numbers (0 = no block) and a data block for its data,    *)
(* kept in word 0.  blockbuf always equals the block it was loaded from.   *)
(* What fails here is the allocation of blocks; the device does not (it     *)
(* does in Disk, SfsVnodes and Mounts).                                     *)
(***************************************************************************)
EXTENDS Integers, FiniteSets, FiniteSetsExt, SequencesExt

CONSTANTS File,       \* the files
          NDIRECT,    \* SFS_NDIRECT (15 in the code)
          DBPERIDB,   \* SFS_DBPERIDB (128)
          NBlocks,    \* blocks on the disk for data and indirect blocks
          FileBlock,  \* the block offsets at which files are read and written
          Lengths,    \* the lengths, in blocks, files are truncated to
          Data        \* what is written into a block

ASSUME SfsFileAssumption ==
    /\ NDIRECT \in Nat \ {0} /\ DBPERIDB \in Nat \ {0, 1} /\ NBlocks \in Nat
    /\ FileBlock \subseteq Nat /\ Lengths \subseteq Nat /\ Data \subseteq Nat \ {0}

Block == 1..NBlocks
Word == 0..(DBPERIDB - 1)
Zeros == [j \in Word |-> 0]

VARIABLES freemap,   \* the blocks marked in use
          disk,      \* the contents of each block
          inode,     \* sv_i of each file
          fault,     \* blockbuf was indexed out of its bounds
          last       \* the last operation: what, where, and its error

vars == <<freemap, disk, inode, fault, last>>

EmptyInode == [direct |-> [i \in 0..(NDIRECT - 1) |-> 0],
               indirect |-> 0, doubleindirect |-> 0, tripleindirect |-> 0,
               size |-> 0, blocks |-> 0]

Init ==
    /\ freemap = {}
    /\ disk = [b \in Block |-> Zeros]
    /\ inode = [f \in File |-> EmptyInode]
    /\ fault = FALSE
    /\ last = [op |-> "none"]

----------------------------------------------------------------------------
(* Where a file block is found *)

NDouble == DBPERIDB * DBPERIDB
NTriple == DBPERIDB * DBPERIDB * DBPERIDB

\* idblevel: 0 for the direct blocks.
Level(fb) == LET off == fb - NDIRECT
             IN CASE fb < NDIRECT -> 0
                  [] fb >= NDIRECT /\ off < DBPERIDB -> 1
                  [] off >= DBPERIDB /\ off < NDouble + DBPERIDB -> 2
                  [] OTHER -> 3

\* sfs_bmap returns EINVAL for what even triple indirection does not reach.
TooBig(fb) == fb - NDIRECT >= DBPERIDB + NDouble + NTriple

\* The indices sfs_bmap uses into the indirect blocks of each level, the outermost
\* first.  For triple indirect blocks the code subtracts DB*DB - DB, and the
\* second index is the quotient as it is.
IndexPath(fb) ==
    LET off == fb - NDIRECT
        level == Level(fb)
    IN CASE level = 1 -> <<off % DBPERIDB>>
         [] level = 2 -> LET o == off - DBPERIDB
                         IN <<o \div DBPERIDB, o % DBPERIDB>>
         [] level = 3 -> LET o == off - (NDouble - DBPERIDB)
                         IN <<o \div NDouble, o \div DBPERIDB, o % DBPERIDB>>
         [] OTHER -> << >>

----------------------------------------------------------------------------
(* sfs_bmap, as a computation on [map, disk, ino, id, block, err]: the free *)
(* map, the disk and the inode, the indirect block the buffer holds, the    *)
(* block found, and the error ("fault": blockbuf indexed out of bounds).    *)

Start(f) == [map |-> freemap, disk |-> disk, ino |-> inode[f],
             id |-> 0, block |-> 0, err |-> "ok"]

\* Mutant of sfs_balloc: the block is not cleared.
sfs_balloc_dirty(s) ==
    IF Block \subseteq s.map
    THEN [s EXCEPT !.err = "ENOSPC"]
    ELSE LET b == Min(Block \ s.map)
         IN [s EXCEPT !.map = @ \cup {b}, !.block = b, !.ino.blocks = @ + 1]

\* sfs_balloc: the first free block, marked and cleared, and sfi_blocks++.
sfs_balloc(s) ==
    IF Block \subseteq s.map
    THEN [s EXCEPT !.err = "ENOSPC"]
    ELSE LET b == Min(Block \ s.map)
         IN [s EXCEPT !.map = @ \cup {b}, !.disk[b] = Zeros,
                      !.block = b, !.ino.blocks = @ + 1]

\* The level 0 block of each indirection level.
Root(ino, level) == CASE level = 1 -> ino.indirect
                      [] level = 2 -> ino.doubleindirect
                      [] level = 3 -> ino.tripleindirect

SetRoot(ino, level, b) == CASE level = 1 -> [ino EXCEPT !.indirect = b]
                            [] level = 2 -> [ino EXCEPT !.doubleindirect = b]
                            [] level = 3 -> [ino EXCEPT !.tripleindirect = b]

\* loadbuffer(b, 0): without a block one is allocated and put in the inode.
LoadRoot(s, level) ==
    IF Root(s.ino, level) # 0 THEN [s EXCEPT !.id = Root(s.ino, level)]
    ELSE LET a == sfs_balloc(s)
         IN IF a.err # "ok" THEN a
            ELSE [a EXCEPT !.id = a.block, !.ino = SetRoot(@, level, a.block)]

\* loadbuffer(b, 1): without a block one is allocated, and not linked to anything.
LoadInner(s) ==
    IF s.block # 0 THEN [s EXCEPT !.id = s.block]
    ELSE LET a == sfs_balloc(s)
         IN IF a.err # "ok" THEN a ELSE [a EXCEPT !.id = a.block]

\* Mutant of get_block: the indirect block is not written back.
get_block_lost(s, k, doalloc) ==
    IF k \notin Word THEN [s EXCEPT !.err = "fault"]
    ELSE IF s.disk[s.id][k] # 0 \/ ~doalloc THEN [s EXCEPT !.block = s.disk[s.id][k]]
    ELSE sfs_balloc(s)

\* get_block(k): the entry of the block in the buffer, allocated and written back
\* when it is 0 and doalloc is set.
get_block(s, k, doalloc) ==
    IF k \notin Word THEN [s EXCEPT !.err = "fault"]
    ELSE IF s.disk[s.id][k] # 0 \/ ~doalloc THEN [s EXCEPT !.block = s.disk[s.id][k]]
    ELSE LET a == sfs_balloc(s)
         IN IF a.err # "ok" THEN a ELSE [a EXCEPT !.disk[s.id][k] = a.block]

\* One more level: the block found becomes the one in the buffer.
Deeper(s, k, doalloc) ==
    LET l == LoadInner(s)
    IN IF s.err # "ok" THEN s ELSE IF l.err # "ok" THEN l ELSE get_block(l, k, doalloc)

Descend(s, path, doalloc) ==
    LET one == get_block(s, path[1], doalloc)
        two == Deeper(one, path[2], doalloc)
        three == Deeper(two, path[3], doalloc)
    IN CASE Len(path) = 1 -> one [] Len(path) = 2 -> two [] Len(path) = 3 -> three

bmap_direct(s, fb, doalloc) ==
    IF s.ino.direct[fb] # 0 \/ ~doalloc
    THEN [s EXCEPT !.block = s.ino.direct[fb]]
    ELSE LET a == sfs_balloc(s)
         IN IF a.err # "ok" THEN a ELSE [a EXCEPT !.ino.direct[fb] = a.block]

sfs_bmap(f, fb, doalloc) ==
    LET s == Start(f)
        level == Level(fb)
    IN IF level = 0 THEN bmap_direct(s, fb, doalloc)
       ELSE IF TooBig(fb) THEN [s EXCEPT !.err = "EINVAL"]
       ELSE IF Root(s.ino, level) = 0 /\ ~doalloc THEN s
       ELSE LET r == LoadRoot(s, level)
            IN IF r.err # "ok" THEN r ELSE Descend(r, IndexPath(fb), doalloc)

----------------------------------------------------------------------------
(* Operations *)

\* sfs_write of a block: sfs_io, sfs_blockio.  What sfs_bmap did stays done if it
\* fails, and sfs_io then still makes the file as long as the place it was to write
\* at: "out:" looks at uio_offset, whatever the result.
write(f, fb, v) ==
    /\ ~fault
    /\ LET r == sfs_bmap(f, fb, TRUE)
       IN /\ freemap' = r.map
          /\ disk' = IF r.err = "ok" THEN [r.disk EXCEPT ![r.block] = [Zeros EXCEPT ![0] = v]]
                     ELSE r.disk
          /\ inode' = [inode EXCEPT ![f] = [r.ino EXCEPT
                         !.size = Max({@, IF r.err = "ok" THEN fb + 1 ELSE fb})]]
          /\ fault' = (r.err = "fault")
          /\ last' = [op |-> "write", file |-> f, at |-> fb, data |-> v, err |-> r.err]

\* sfs_read of a block: nothing past the end; a hole is zeros.
read(f, fb) ==
    /\ ~fault
    /\ fb < inode[f].size
    /\ LET r == sfs_bmap(f, fb, FALSE)
       IN /\ freemap' = r.map
          /\ disk' = r.disk
          /\ inode' = [inode EXCEPT ![f] = r.ino]
          /\ fault' = (r.err = "fault")
          /\ last' = [op |-> "read", file |-> f, at |-> fb, err |-> r.err]

\* Mutant of PastEnd: one block too many is discarded.
PastEnd_early(fb, len) == fb >= len - 1

\* sfs_truncate's test for the blocks of the indirect block.
PastEnd(fb, len) == len < fb

\* sfs_truncate: the direct blocks past the new end are freed, then those of the
\* indirect block and, when it is empty, the indirect block itself; the double
\* and triple indirect blocks are then only forgotten.
sfs_truncate(f, len) ==
    /\ ~fault
    /\ LET i == inode[f]
           dead == {k \in 0..(NDIRECT - 1) : k >= len /\ i.direct[k] # 0}
           opens == len < NDIRECT + DBPERIDB - 1 /\ i.indirect # 0
           id == disk[i.indirect]
           gone == IF opens THEN {j \in Word : PastEnd(NDIRECT + j, len) /\ id[j] # 0} ELSE {}
           empties == opens /\ \A j \in Word : id[j] = 0 \/ j \in gone
           forgotten == Cardinality({l \in {2, 3} : Root(i, l) # 0})
       IN /\ freemap' = freemap \ ({i.direct[k] : k \in dead} \cup {id[j] : j \in gone}
                                   \cup (IF empties THEN {i.indirect} ELSE {}))
          /\ disk' = IF gone # {} /\ ~empties
                     THEN [disk EXCEPT ![i.indirect] =
                             [j \in Word |-> IF j \in gone THEN 0 ELSE id[j]]]
                     ELSE disk
          /\ inode' = [inode EXCEPT ![f] =
                [direct |-> [k \in 0..(NDIRECT - 1) |-> IF k \in dead THEN 0 ELSE i.direct[k]],
                 indirect |-> IF empties THEN 0 ELSE i.indirect,
                 doubleindirect |-> IF empties THEN 0 ELSE i.doubleindirect,
                 tripleindirect |-> IF empties THEN 0 ELSE i.tripleindirect,
                 size |-> len,
                 blocks |-> i.blocks - Cardinality(dead) - Cardinality(gone)
                            - (IF empties THEN 1 + forgotten ELSE 0)]]
    /\ last' = [op |-> "truncate", file |-> f, at |-> len]
    /\ UNCHANGED fault

Next == \E f \in File :
          \/ \E fb \in FileBlock : read(f, fb) \/ \E v \in Data : write(f, fb, v)
          \/ \E len \in Lengths : sfs_truncate(f, len)

Spec == Init /\ [][Next]_vars

----------------------------------------------------------------------------
(* Properties *)

\* The pointers of a file, each as <<where it is stored, the block>>; the inode's
\* own are stored in "block 0".
Nodes(d, entries) == {<<<<e[2], j>>, d[e[2]][j]>> : e \in entries, j \in Word}
Real(entries) == {e \in entries : e[2] # 0}
Pointers(d, ino) ==
    LET direct == Real({<<<<0, k>>, ino.direct[k]>> : k \in DOMAIN ino.direct})
        one == Real({<<<<0, NDIRECT + 1>>, ino.indirect>>})
        two == Real({<<<<0, NDIRECT + 2>>, ino.doubleindirect>>})
        three == Real({<<<<0, NDIRECT + 3>>, ino.tripleindirect>>})
        two1 == Real(Nodes(d, two))
        three1 == Real(Nodes(d, three))
        three2 == Real(Nodes(d, three1))
    IN direct \cup one \cup two \cup three \cup two1 \cup three1 \cup three2
       \cup Real(Nodes(d, one)) \cup Real(Nodes(d, two1)) \cup Real(Nodes(d, three2))

FilePointers(f) == Pointers(disk, inode[f])
FileBlocksOf(f) == {e[2] : e \in FilePointers(f)}

TypeOK == /\ freemap \subseteq Block
          /\ disk \in [Block -> [Word -> Nat]]
          /\ \A f \in File : inode[f].size \in Nat /\ inode[f].blocks \in Nat

\* No block is in two places: not in two files, not twice in one, and not as data
\* and indirect block at once, however files grow, shrink and run out of space.
NoBlockShared ==
    /\ \A f, g \in File : f # g => FileBlocksOf(f) \cap FileBlocksOf(g) = {}
    /\ \A f \in File : Cardinality(FilePointers(f)) = Cardinality(FileBlocksOf(f))

\* Every block a file leads to is marked in use, so that sfs_bmap's panic
\* "marked free" is never reached and no block is given out twice.
ReachableInUse == \A f \in File : FileBlocksOf(f) \subseteq freemap

\* Through growing, truncating and a disk that fills up half way through a
\* write, no block is in two places and none is both in a file and free.
BlocksOK == TypeOK /\ NoBlockShared /\ ReachableInUse

\* The block that is file block fb of f, and what a reader of it gets: the pointers
\* followed, without sfs_bmap.
Path == [fb \in FileBlock |-> IndexPath(fb)]
Entry(b, k) == IF b = 0 \/ k \notin Word THEN 0 ELSE disk[b][k]
Mapped(f, fb) ==
    LET path == Path[fb]
        depth == Len(path)
        root == Root(inode[f], depth)
    IN IF depth = 0 THEN inode[f].direct[fb]
       ELSE IF depth = 1 THEN Entry(root, path[1])
       ELSE IF depth = 2 THEN Entry(Entry(root, path[1]), path[2])
       ELSE Entry(Entry(Entry(root, path[1]), path[2]), path[3])
View(f, fb) == LET b == Mapped(f, fb) IN IF b = 0 THEN 0 ELSE disk[b][0]

\* What sfs_read of file block fb gives: nothing from the end of the file on.
EOF == -1
Reads(f, fb) == IF fb < inode[f].size THEN View(f, fb) ELSE EOF

\* What a write of v at block at of file f makes of what block fb of g reads as.  A
\* write that fails past the end has made the file as long as the place it was to
\* write at, so that blocks before it that were past the end can now be read.
AfterWrite(f, at, v, err, g, fb) ==
    CASE g = f /\ fb = at /\ err = "ok" -> v
      [] g = f /\ fb < at -> View(g, fb)
      [] OTHER -> Reads(g, fb)

\* A write changes what the block written reads as, to the data written, and what no
\* other block of any file holds, however many indirect blocks it had to allocate;
\* when the disk is full it changes nothing but where the file ends.
WriteExact ==
    [][ last'.op = "write" =>
          \A f \in File, fb \in FileBlock :
             Reads(f, fb)' = AfterWrite(last'.file, last'.at, last'.data, last'.err, f, fb) ]_vars

\* sfs_truncate leaves every block before the new end, and other files, alone.
TruncateKeeps ==
    [][ last'.op = "truncate" =>
          \A g \in File, fb \in FileBlock :
             g # last'.file \/ fb < last'.at => View(g, fb)' = View(g, fb) ]_vars

\* sfs_truncate: "Discard any blocks that are past the new EOF".
TruncateDiscards ==
    [][ last'.op = "truncate" =>
          \A f \in File, fb \in FileBlock :
             f = last'.file /\ fb >= last'.at => Mapped(f, fb)' = 0 ]_vars
=============================================================================
