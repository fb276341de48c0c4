------------------------------- MODULE KHeap -------------------------------
(***************************************************************************)
(* kern/lib/kheap.c: the kernel's allocator.  Small requests are served    *)
(* from pages cut into blocks of one size; a page's blocks that are free   *)
(* are chained in the page, its pageref keeps their number and the head,   *)
(* and is on the list of its size and on the list of all.  Each call runs  *)
(* with interrupts off.  alloc_kpages is taken at its promise, a page that *)
(* nobody has or none; dumbvm.c never gives a page a second time.          *)
(***************************************************************************)
EXTENDS Kernel, Integers, SequencesExt

CONSTANTS NSIZES,
          BlocksOf,     \* block size -> blocks of that size in a page
          NPAGEREFS,
          HeapPage      \* pages of alloc_kpages

ASSUME HeapSizes == {NSIZES, NPAGEREFS} \subseteq Nat \ {0}
ASSUME BlocksAssumption == BlocksOf \in [1..NSIZES -> Nat \ {0, 1}]

VARIABLES pagerefs,        \* pageref -> page, block size, free list and count
          pagerefs_inuse,
          sizebases,       \* block size -> its pagerefs
          allbase,
          held,            \* blocks handed out: <<page, block>>
          big              \* pages handed out whole

heap_vars == <<pagerefs, pagerefs_inuse, sizebases, allbase, held, big>>

BlockType == 1..NSIZES
PageRef == 1..NPAGEREFS

KHeapInit ==
    /\ pagerefs = [r \in PageRef |-> [page |-> 0, type |-> 0, free |-> <<>>, nfree |-> 0]]
    /\ pagerefs_inuse = {}
    /\ sizebases = [b \in BlockType |-> <<>>] /\ allbase = <<>>
    /\ held = {} /\ big = {}

\* Pages that alloc_kpages has given out.
Given == {pagerefs[r].page : r \in pagerefs_inuse} \cup big

\* doalloc: the first free block of pageref r, whose page is as p says.
doalloc(r, p) ==
    /\ pagerefs' = [pagerefs EXCEPT ![r] = [p EXCEPT !.free = Tail(@), !.nfree = @ - 1]]
    /\ held' = held \cup {<<p.page, Head(p.free)>>}
    /\ UNCHANGED big

\* subpage_kmalloc from a page that has a free block ...
subpage_kmalloc(b) ==
    /\ \E i \in DOMAIN sizebases[b] :
          /\ pagerefs[sizebases[b][i]].nfree > 0
          /\ \A j \in 1..(i - 1) : pagerefs[sizebases[b][j]].nfree = 0
          /\ doalloc(sizebases[b][i], pagerefs[sizebases[b][i]])
    /\ UNCHANGED <<pagerefs_inuse, sizebases, allbase>>

\* ... or from a new one, with its blocks chained from the last to the first;
\* without a pageref or a page it fails and changes nothing.
subpage_kmalloc_page(b) ==
    /\ \A i \in DOMAIN sizebases[b] : pagerefs[sizebases[b][i]].nfree = 0
    /\ PageRef \ pagerefs_inuse # {}
    /\ LET r == CHOOSE q \in PageRef \ pagerefs_inuse : \A s \in PageRef \ pagerefs_inuse : q <= s
           n == BlocksOf[b] IN
       \E a \in HeapPage \ Given :
          /\ pagerefs_inuse' = pagerefs_inuse \cup {r}
          /\ sizebases' = [sizebases EXCEPT ![b] = <<r>> \o @]
          /\ allbase' = <<r>> \o allbase
          /\ doalloc(r, [page |-> a, type |-> b, free |-> [k \in 1..n |-> n - k], nfree |-> n])

\* kmalloc of a page or more.
kmalloc_big ==
    /\ \E a \in HeapPage \ Given : big' = big \cup {a}
    /\ UNCHANGED <<pagerefs, pagerefs_inuse, sizebases, allbase, held>>

\* Mutant of remove_lists: the pageref stays on the list of its size.
remove_lists_all(r, b) ==
    sizebases' = sizebases /\ allbase' = RemoveFirst(allbase, r)

remove_lists(r, b) ==
    /\ sizebases' = [sizebases EXCEPT ![b] = RemoveFirst(@, r)]
    /\ allbase' = RemoveFirst(allbase, r)

\* subpage_kfree of a block that was handed out: the page is looked for on the
\* list of all, and given back when all of it is free.
subpage_kfree(a, k) ==
    /\ <<a, k>> \in held
    /\ \E i \in DOMAIN allbase :
          /\ pagerefs[allbase[i]].page = a
          /\ \A j \in 1..(i - 1) : pagerefs[allbase[j]].page # a
          /\ LET r == allbase[i]
                 p == [pagerefs[r] EXCEPT !.free = <<k>> \o @, !.nfree = @ + 1] IN
             /\ pagerefs' = [pagerefs EXCEPT ![r] = p]
             /\ IF p.nfree = BlocksOf[p.type]
                THEN remove_lists(r, p.type) /\ pagerefs_inuse' = pagerefs_inuse \ {r}
                ELSE UNCHANGED <<pagerefs_inuse, sizebases, allbase>>
    /\ held' = held \ {<<a, k>>}
    /\ UNCHANGED big

\* kfree of a page that is no pageref's.
kfree_big(a) ==
    /\ a \in big /\ \A i \in DOMAIN allbase : pagerefs[allbase[i]].page # a
    /\ big' = big \ {a}
    /\ UNCHANGED <<pagerefs, pagerefs_inuse, sizebases, allbase, held>>

KHeapNext ==
    \/ \E b \in BlockType : subpage_kmalloc(b) \/ subpage_kmalloc_page(b)
    \/ kmalloc_big
    \/ \E x \in held : subpage_kfree(x[1], x[2])
    \/ \E a \in big : kfree_big(a)

KHeapBehaviour == KHeapInit /\ [][KHeapNext]_heap_vars

----------------------------------------------------------------------------
(* Properties *)

\* Whatever sequence of kmalloc and kfree: every block of a page is either free
\* or handed out, once; the count that decides when the page is given back is
\* the length of the chain; a page that is wholly free is no longer held; and
\* the two lists have the same pagerefs, each once, and they are the ones in use.
HeapOK ==
    subject = "kheap" =>
      /\ \A r \in pagerefs_inuse :
           LET p == pagerefs[r] IN
           /\ p.nfree = Len(p.free) /\ IsInjective(p.free) /\ p.nfree < BlocksOf[p.type]
           /\ \A k \in 0..(BlocksOf[p.type] - 1) : <<p.page, k>> \in held <=> k \notin ToSet(p.free)
           /\ r \in ToSet(sizebases[p.type]) /\ p.page \notin big
           /\ \A q \in pagerefs_inuse : pagerefs[q].page = p.page => q = r
      /\ \A x \in held : \E r \in pagerefs_inuse : pagerefs[r].page = x[1]
      /\ \A b \in BlockType : IsInjective(sizebases[b])
                              /\ \A r \in ToSet(sizebases[b]) : pagerefs[r].type = b
      /\ IsInjective(allbase) /\ ToSet(allbase) = pagerefs_inuse
      /\ UNION {ToSet(sizebases[b]) : b \in BlockType} = pagerefs_inuse
=============================================================================
