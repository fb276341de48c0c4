---------------------------- MODULE StorageProofs ---------------------------
(***************************************************************************)
(* Machine-checked proofs about memory and about the blocks of files: what *)
(* is given out belongs to one owner.  What user programs reach (UserProg),*)
(* the kernel heap (KHeap), the bitmap (Bitmap), the memory behind the     *)
(* thread lists (ThreadSpace) and the growing ring of the run queue        *)
(* (RingQueue); then the block trees of SFS files (SfsFile).  For any      *)
(* number of threads, any programs, any sizes of memory, TLB, pages,       *)
(* blocks, words, arrays and rings, any files and any sizes of an inode    *)
(* and of an indirect block.                                               *)
(***************************************************************************)
EXTENDS UserProg, KHeap, Bitmap, ThreadSpace, RingQueue, SfsFile, ListLemmas

----------------------------------------------------------------------------
(* User programs *)

Segment == PageNumber \X PageNumber

Before == {"activate", "define", "region1"}
Loaded == {"load", "user", "loadfault", "userfault"}
Labels == Before \cup Loaded \cup {"kernel", "region2", "stack", "exit"}

UpRecord == [pc : Labels, prog : Seq(Segment), i : Nat \ {0}, va : Nat]

VmTypes ==
    /\ cpu \in Thread /\ up \in [Thread -> UpRecord]
    /\ t_vmspace \in [Thread -> AddrSpace \cup {NULL}]
    /\ DOMAIN tlb = TlbSlot
    /\ firstpaddr \in PageNumber /\ wrapped \in BOOLEAN

\* The frames that may have been given out: those below the next free one, or any once
\* the sum has wrapped.
Taken == IF wrapped THEN PageNumber ELSE 0..(firstpaddr - 1)

\* The frames of a block.
FrameRange(p, n) == IF p = 0 THEN {} ELSE {(p + k) % AddrPages : k \in 0..(n - 1)}

\* A block of frames is among those that have been given out.
Below(p, n, known) == FrameRange(p, n) \subseteq known

\* What a thread's address space has at each point of runprogram.
SpaceOf(as, pc, known) ==
    /\ pc = "kernel" <=> as = NULL
    /\ pc # "kernel" =>
         /\ Below(as.pbase1, as.npages1, known) /\ Below(as.pbase2, as.npages2, known)
         /\ Below(as.stackpbase, STACKPAGES, known)
         /\ pc \in Before => as.pbase1 = 0
         /\ pc \in Before \cup {"region2"} => as.pbase2 = 0
         /\ pc \in Before \cup {"region2", "stack"} => as.stackpbase = 0
         /\ pc \in Loaded \cup {"region2", "stack"} => as.pbase1 # 0
         /\ pc \in Loaded \cup {"stack"} => as.pbase2 # 0
         /\ pc \in Loaded => as.stackpbase # 0

Spaces == \A t \in Thread : SpaceOf(t_vmspace[t], up[t].pc, Taken)

Apart == wrapped \/ Disjoint

\* The TLB is the running thread's, once its address space is active; it is empty
\* as long as the address space is being laid out, and a page that is faulting is
\* not in it.
TlbOK ==
    up[cpu].pc \notin {"kernel", "activate"} =>
      /\ \A i \in TlbSlot : tlb[i] # <<>> =>
           /\ tlb[i][2] = Frame(t_vmspace[cpu], tlb[i][1]) /\ tlb[i][2] \in Frames(cpu)
           /\ \A j \in TlbSlot : tlb[j] # <<>> /\ tlb[j][1] = tlb[i][1] => i = j
           /\ up[cpu].pc \in {"loadfault", "userfault"} => tlb[i][1] # up[cpu].va
      /\ up[cpu].pc \in {"define", "region1", "region2", "stack"} => tlb = Invalid

VmInv == VmTypes /\ Spaces /\ Apart /\ TlbOK

----------------------------------------------------------------------------
(* Facts about address spaces *)

FramesOf(as) == FrameRange(as.pbase1, as.npages1) \cup FrameRange(as.pbase2, as.npages2)
                \cup FrameRange(as.stackpbase, STACKPAGES)

\* The frames of a thread depend on its address space alone.
LEMMA FramesDef ==
    /\ \A t \in Thread : Frames(t) = IF t_vmspace[t] = NULL THEN {} ELSE FramesOf(t_vmspace[t])
    /\ \A t \in Thread : Frames(t)' = IF t_vmspace'[t] = NULL THEN {} ELSE FramesOf(t_vmspace'[t])
  BY DEF Frames, FramesOf, FrameRange

\* The type of each field of an address space.
LEMMA AddrSpaceFields ==
    ASSUME NEW as \in AddrSpace
    PROVE  /\ as.vbase1 \in Nat /\ as.npages1 \in Nat /\ as.pbase1 \in Nat
           /\ as.vbase2 \in Nat /\ as.npages2 \in Nat /\ as.pbase2 \in Nat
           /\ as.stackpbase \in Nat /\ as # NULL
  BY NullIsNoAddrSpace DEF AddrSpace

\* The frames of a block are page numbers, and without a wrap they are its p..p+n-1.
LEMMA BlockFrames ==
    ASSUME NEW p \in Nat, NEW n \in Nat
    PROVE  /\ FrameRange(p, n) \subseteq PageNumber
           /\ p + n < AddrPages => FrameRange(p, n) \subseteq p..(p + n - 1)
<1>1. AddrPages \in Nat /\ AddrPages > 0
  BY VmSizes
<1>2. \A x \in Nat : x % AddrPages \in PageNumber /\ (x < AddrPages => x % AddrPages = x)
  BY <1>1 DEF PageNumber
<1> QED BY <1>1, <1>2 DEF FrameRange

\* What ram_stealmem gives: frames that nobody has had, unless its sum has wrapped.
LEMMA Stolen ==
    ASSUME VmTypes, NEW n \in Nat, NEW p \in 0..(RamPages + 1), getppages(n, p)
    PROVE  /\ firstpaddr' \in PageNumber /\ wrapped' \in BOOLEAN /\ (wrapped => wrapped')
           /\ Taken \subseteq Taken' /\ FrameRange(p, n) \subseteq Taken'
           /\ ~wrapped' => FrameRange(p, n) \cap Taken = {}
<1>1. AddrPages \in Nat /\ RamPages \in Nat /\ RamPages + 1 < AddrPages /\ p \in Nat
  BY VmSizes
<1>2. firstpaddr \in Nat /\ firstpaddr < AddrPages /\ wrapped \in BOOLEAN
  BY <1>1 DEF VmTypes, PageNumber
<1>3. FrameRange(p, n) \subseteq PageNumber
  BY <1>1, BlockFrames
<1>4. CASE p = 0 /\ UNCHANGED ram_vars
  <2>1. FrameRange(p, n) = {}
    BY <1>4 DEF FrameRange
  <2>2. Taken' = Taken /\ UNCHANGED <<firstpaddr, wrapped>>
    BY <1>4 DEF ram_vars, Taken, PageNumber
  <2> QED BY <2>1, <2>2 DEF VmTypes
<1>5. ASSUME NEW end, end = (firstpaddr + n) % AddrPages, p = firstpaddr, firstpaddr' = end,
             wrapped' = (wrapped \/ firstpaddr + n >= AddrPages)
      PROVE  /\ firstpaddr' \in PageNumber /\ wrapped' \in BOOLEAN /\ (wrapped => wrapped')
             /\ Taken \subseteq Taken' /\ FrameRange(p, n) \subseteq Taken'
             /\ ~wrapped' => FrameRange(p, n) \cap Taken = {}
  <2>1. /\ end \in PageNumber
        /\ firstpaddr + n < AddrPages => end = firstpaddr + n
    BY <1>1, <1>2, <1>5 DEF PageNumber
  <2>2. wrapped' \in BOOLEAN /\ (wrapped => wrapped')
    BY <1>2, <1>5
  <2>3. CASE wrapped'
    <3>1. Taken' = PageNumber
      BY <2>3 DEF Taken, PageNumber
    <3>2. Taken \subseteq PageNumber
      BY <1>1, <1>2 DEF Taken, PageNumber
    <3> QED BY <1>3, <1>5, <2>1, <2>2, <2>3, <3>1, <3>2
  <2>4. CASE ~wrapped'
    <3>1. ~wrapped /\ firstpaddr + n < AddrPages
      <4>1. ~(wrapped \/ firstpaddr + n >= AddrPages)
        BY <1>5, <2>4
      <4>2. ~(firstpaddr + n >= AddrPages) => firstpaddr + n < AddrPages
        BY <1>1, <1>2
      <4> QED BY <4>1, <4>2
    <3>2. Taken = 0..(firstpaddr - 1) /\ Taken' = 0..(firstpaddr' - 1)
      BY <2>4, <3>1 DEF Taken
    <3>3. FrameRange(p, n) \subseteq p..(p + n - 1)
      BY <1>1, <1>5, <3>1, BlockFrames
    <3>4. firstpaddr' = firstpaddr + n /\ p = firstpaddr
      BY <1>5, <2>1, <3>1
    <3>5. \A x \in p..(p + n - 1) : x \in Taken' /\ x \notin Taken
      BY <1>2, <3>2, <3>4
    <3>6. Taken \subseteq Taken'
      BY <1>2, <3>2, <3>4
    <3> QED BY <1>5, <2>1, <2>2, <3>3, <3>5, <3>6
  <2> QED BY <2>3, <2>4
<1> QED BY <1>4, <1>5 DEF getppages

\* Whatever an address space has is among the frames given out.
LEMMA FramesBelow ==
    ASSUME VmTypes, Spaces, NEW t \in Thread
    PROVE  Frames(t) \subseteq Taken
<1>1. CASE t_vmspace[t] = NULL
  BY <1>1, FramesDef
<1>2. CASE t_vmspace[t] # NULL
  <2>1. /\ Below(t_vmspace[t].pbase1, t_vmspace[t].npages1, Taken)
        /\ Below(t_vmspace[t].pbase2, t_vmspace[t].npages2, Taken)
        /\ Below(t_vmspace[t].stackpbase, STACKPAGES, Taken)
    BY <1>2 DEF Spaces, SpaceOf
  <2> QED BY <1>2, <2>1, FramesDef DEF FramesOf, Below
<1> QED BY <1>1, <1>2

\* What holds of an address space holds when more frames have been given out.
LEMMA SpaceGrows ==
    ASSUME NEW as, NEW pc, NEW known, NEW next, known \subseteq next, SpaceOf(as, pc, known)
    PROVE  SpaceOf(as, pc, next)
<1>1. \A p, n : Below(p, n, known) => Below(p, n, next)
  BY DEF Below
<1> QED BY <1>1 DEF SpaceOf

----------------------------------------------------------------------------
(* Steps of the running thread and context switches *)

\* A step that takes no frames.
LEMMA RamSame ==
    ASSUME VmTypes, UNCHANGED ram_vars
    PROVE  /\ Taken' = Taken /\ wrapped' = wrapped
           /\ firstpaddr' \in PageNumber /\ wrapped' \in BOOLEAN
  BY DEF VmTypes, ram_vars, Taken, PageNumber

\* A step of the running thread that changes only its own address space and place,
\* and gives it only frames that nobody has had.
LEMMA OwnStep ==
    ASSUME VmInv, NEW t \in Thread, cpu = t, NEW as \in AddrSpace, NEW r \in UpRecord,
           t_vmspace' = [t_vmspace EXCEPT ![t] = as], up' = [up EXCEPT ![t] = r],
           cpu' = cpu, DOMAIN tlb' = TlbSlot, firstpaddr' \in PageNumber, wrapped' \in BOOLEAN,
           wrapped => wrapped', Taken \subseteq Taken', SpaceOf(as, r.pc, Taken'),
           ~wrapped' => \A x \in FramesOf(as) : x \in Frames(t) \/ x \notin Taken
    PROVE  VmTypes' /\ Spaces' /\ Apart'
<1>1. VmTypes /\ Spaces /\ Apart
  BY DEF VmInv
<1>2. VmTypes'
  <2>1. cpu' \in Thread /\ up' \in [Thread -> UpRecord]
    BY <1>1 DEF VmTypes
  <2>2. t_vmspace' \in [Thread -> AddrSpace \cup {NULL}]
    BY <1>1 DEF VmTypes
  <2> QED BY <2>1, <2>2 DEF VmTypes, TlbSlot, PageNumber
<1>3. ASSUME NEW u \in Thread, u # t
      PROVE  up'[u] = up[u] /\ t_vmspace'[u] = t_vmspace[u] /\ Frames(u)' = Frames(u)
  <2>1. up'[u] = up[u] /\ t_vmspace'[u] = t_vmspace[u]
    BY <1>1, <1>3 DEF VmTypes
  <2> QED BY <2>1, FramesDef
<1>4. up'[t] = r /\ t_vmspace'[t] = as /\ Frames(t)' = FramesOf(as)
  <2>1. up'[t] = r /\ t_vmspace'[t] = as
    BY <1>1 DEF VmTypes
  <2> QED BY <2>1, FramesDef, AddrSpaceFields
<1>5. Spaces'
  <2>1. ASSUME NEW u \in Thread, u # t
        PROVE  SpaceOf(t_vmspace[u], up[u].pc, Taken')
    BY <1>1, SpaceGrows DEF Spaces
  <2> QED BY <1>3, <1>4, <2>1 DEF Spaces
<1>6. Apart'
  <2> SUFFICES ASSUME ~wrapped', NEW u \in Thread, NEW w \in Thread, u # w
               PROVE  Frames(u)' \cap Frames(w)' = {}
    BY DEF Apart, Disjoint
  <2>1. ASSUME NEW z \in Thread, z # t PROVE Frames(z) \cap FramesOf(as) = {}
    <3>1. Frames(z) \subseteq Taken
      BY <1>1, FramesBelow
    <3>2. Frames(z) \cap Frames(t) = {}
      BY <1>1, <2>1 DEF Apart, Disjoint
    <3> QED BY <3>1, <3>2
  <2>2. CASE u = t
    BY <1>3, <1>4, <2>1, <2>2
  <2>3. CASE w = t
    BY <1>3, <1>4, <2>1, <2>3
  <2>4. CASE u # t /\ w # t
    BY <1>1, <1>3, <2>4 DEF Apart, Disjoint
  <2> QED BY <2>2, <2>3, <2>4
<1> QED BY <1>2, <1>5, <1>6

\* A step that changes nothing but whether the kernel has panicked.
LEMMA SameInv ==
    ASSUME VmInv, UNCHANGED <<cpu, t_vmspace, up, tlb, ram_vars>>
    PROVE  VmInv'
<1>1. VmTypes /\ Taken' = Taken /\ wrapped' = wrapped /\ firstpaddr' \in PageNumber
  BY RamSame DEF VmInv
<1>2. \A t \in Thread : Frames(t)' = Frames(t)
  BY FramesDef
<1>3. VmTypes' /\ Spaces' /\ Apart'
  BY <1>1, <1>2 DEF VmInv, VmTypes, Spaces, Apart, Disjoint, TlbSlot, PageNumber
<1>4. TlbOK'
  BY <1>1, <1>2 DEF VmInv, VmTypes, TlbOK, TlbSlot, Frame, InRegion, Invalid
<1> QED BY <1>3, <1>4 DEF VmInv

\* An empty TLB is right for whoever runs.
LEMMA InvalidTlb ==
    ASSUME tlb' = Invalid
    PROVE  TlbOK'
<1>1. \A i \in TlbSlot : tlb'[i] = <<>>
  BY DEF Invalid
<1> QED BY <1>1 DEF TlbOK, TlbSlot, Invalid

\* The TLB stays right while a loaded program goes on.
LEMMA SameTlb ==
    ASSUME VmTypes, TlbOK, cpu' = cpu, tlb' = tlb, t_vmspace'[cpu] = t_vmspace[cpu],
           up[cpu].pc \in Loaded, up'[cpu].pc \in Loaded \cup {"exit"},
           up'[cpu].pc \in {"loadfault", "userfault"} =>
              \A i \in TlbSlot : tlb[i] # <<>> => tlb[i][1] # up'[cpu].va
    PROVE  TlbOK'
<1>1. Frames(cpu)' = Frames(cpu)
  BY FramesDef DEF VmTypes
<1>2. \A i \in TlbSlot : tlb[i] # <<>> =>
           /\ tlb[i][2] = Frame(t_vmspace[cpu], tlb[i][1]) /\ tlb[i][2] \in Frames(cpu)
           /\ \A j \in TlbSlot : tlb[j] # <<>> /\ tlb[j][1] = tlb[i][1] => i = j
  BY DEF TlbOK, Loaded
<1> QED BY <1>1, <1>2 DEF TlbOK, Loaded, TlbSlot, Frame, InRegion

\* A context switch leaves the TLB empty, or goes to a thread that has no address space.
LEMMA SwitchTlb ==
    ASSUME NEW t \in Thread, mi_switch(t), Spaces, up'[t] = up[t]
    PROVE  TlbOK'
<1>1. CASE t_vmspace[t] # NULL
  BY <1>1, InvalidTlb DEF mi_switch
<1>2. CASE t_vmspace[t] = NULL
  <2>1. up'[cpu'].pc = "kernel"
    BY <1>2 DEF mi_switch, Spaces, SpaceOf
  <2> QED BY <2>1 DEF TlbOK
<1> QED BY <1>1, <1>2

----------------------------------------------------------------------------
(* Every step preserves the invariant *)

\* A thread that runs no program.
LEMMA AtMenuType == AtMenu \in UpRecord /\ AtMenu.pc = "kernel"
<1>1. <<>> \in Seq(Segment)
  OBVIOUS
<1> QED BY <1>1 DEF AtMenu, UpRecord, Labels

\* preempt
LEMMA PreemptInv ==
    ASSUME VmInv, NEW t \in Thread, preempt(t)
    PROVE  VmInv'
<1>1. /\ VmTypes /\ Spaces /\ Apart /\ mi_switch(t) /\ cpu' = t
      /\ UNCHANGED <<t_vmspace, up, ram_vars>>
  BY DEF VmInv, preempt, mi_switch
<1>2. DOMAIN tlb' = TlbSlot
  BY <1>1 DEF VmTypes, mi_switch, Invalid
<1>3. VmTypes' /\ Spaces' /\ Apart'
  BY <1>1, <1>2, RamSame, FramesDef DEF VmTypes, Spaces, Apart, Disjoint, TlbSlot
<1>4. TlbOK'
  BY <1>1, SwitchTlb
<1> QED BY <1>3, <1>4 DEF VmInv

\* thread_exits
LEMMA ExitInv ==
    ASSUME VmInv, NEW t \in Thread, thread_exits(t)
    PROVE  VmInv'
<1>1. /\ VmTypes /\ Spaces /\ Apart
      /\ t_vmspace' = [t_vmspace EXCEPT ![t] = NULL] /\ up' = [up EXCEPT ![t] = AtMenu]
      /\ UNCHANGED ram_vars
  BY DEF VmInv, thread_exits
<1>2. PICK u \in Thread \ {t} : mi_switch(u)
  BY DEF thread_exits
<1>3. cpu' = u /\ DOMAIN tlb' = TlbSlot
  BY <1>1, <1>2 DEF VmTypes, mi_switch, Invalid
<1>4. /\ \A w \in Thread \ {t} : up'[w] = up[w] /\ t_vmspace'[w] = t_vmspace[w]
      /\ up'[t] = AtMenu /\ t_vmspace'[t] = NULL
  BY <1>1 DEF VmTypes
<1>5. VmTypes'
  <2>1. firstpaddr' \in PageNumber /\ wrapped' \in BOOLEAN
    BY <1>1, RamSame
  <2> QED BY <1>1, <1>3, <2>1, AtMenuType DEF VmTypes, TlbSlot, PageNumber
<1>6. Spaces'
  <2>1. Taken' = Taken
    BY <1>1, RamSame
  <2> QED BY <1>1, <1>4, <2>1, AtMenuType DEF Spaces, SpaceOf
<1>7. Apart'
  <2>1. Frames(t)' = {} /\ \A w \in Thread \ {t} : Frames(w)' = Frames(w)
    BY <1>4, FramesDef
  <2>2. wrapped' = wrapped
    BY <1>1, RamSame
  <2> QED BY <1>1, <2>1, <2>2 DEF Apart, Disjoint
<1>8. TlbOK'
  BY <1>1, <1>2, <1>4, SwitchTlb
<1> QED BY <1>5, <1>6, <1>7, <1>8 DEF VmInv

\* runprogram
LEMMA RunprogramInv ==
    ASSUME VmInv, NEW t \in Thread, NEW p \in Program, runprogram(t, p)
    PROVE  VmInv'
<1>1. PICK r : r = [AtMenu EXCEPT !.pc = "activate", !.prog = p]
  OBVIOUS
<1>2. /\ cpu = t /\ t_vmspace' = [t_vmspace EXCEPT ![t] = NewAs]
      /\ up' = [up EXCEPT ![t] = r] /\ UNCHANGED <<cpu, tlb, ram_vars>>
  BY <1>1 DEF runprogram, OnCpu
<1>3. NewAs \in AddrSpace /\ FramesOf(NewAs) = {}
  <2>1. NewAs \in AddrSpace
    BY DEF NewAs, AddrSpace
  <2>2. NewAs.pbase1 = 0 /\ NewAs.pbase2 = 0 /\ NewAs.stackpbase = 0
    BY DEF NewAs
  <2> QED BY <2>1, <2>2 DEF FramesOf, FrameRange
<1>4. r \in UpRecord /\ r.pc = "activate"
  <2>1. p \in Seq(Segment)
    BY ProgramAssumption DEF Segment
  <2> QED BY <1>1, <2>1, AtMenuType DEF UpRecord, Labels, Before
<1>5. SpaceOf(NewAs, r.pc, Taken')
  <2>1. NewAs.pbase1 = 0 /\ NewAs.pbase2 = 0 /\ NewAs.stackpbase = 0 /\ NewAs # NULL
    BY <1>3, AddrSpaceFields DEF NewAs
  <2> QED BY <1>4, <2>1 DEF SpaceOf, Below, FrameRange, Loaded
<1>6. /\ firstpaddr' \in PageNumber /\ wrapped' \in BOOLEAN /\ (wrapped => wrapped')
      /\ Taken \subseteq Taken' /\ DOMAIN tlb' = TlbSlot
  BY <1>2, RamSame DEF VmInv, VmTypes
<1>7. VmTypes' /\ Spaces' /\ Apart'
  BY <1>2, <1>3, <1>4, <1>5, <1>6, OwnStep
<1>8. TlbOK'
  <2>1. up'[cpu'].pc = "activate"
    BY <1>2, <1>4 DEF VmInv, VmTypes
  <2> QED BY <2>1 DEF TlbOK
<1> QED BY <1>7, <1>8 DEF VmInv

\* A step of the running thread to another point, with its address space as it is.
LEMMA MoveOn ==
    ASSUME VmInv, NEW t \in Thread, cpu = t, up[t].pc # "kernel", NEW r \in UpRecord,
           up' = [up EXCEPT ![t] = r], UNCHANGED <<cpu, t_vmspace, ram_vars>>,
           DOMAIN tlb' = TlbSlot, SpaceOf(t_vmspace[t], r.pc, Taken)
    PROVE  VmTypes' /\ Spaces' /\ Apart'
<1>1. t_vmspace[t] # NULL /\ t_vmspace[t] \in AddrSpace
  BY DEF VmInv, Spaces, SpaceOf, VmTypes
<1>2. t_vmspace' = [t_vmspace EXCEPT ![t] = t_vmspace[t]]
  BY DEF VmInv, VmTypes
<1>3. /\ firstpaddr' \in PageNumber /\ wrapped' \in BOOLEAN /\ (wrapped => wrapped')
      /\ Taken' = Taken
  BY RamSame DEF VmInv
<1>4. FramesOf(t_vmspace[t]) = Frames(t)
  BY <1>1, FramesDef
<1> QED BY <1>1, <1>2, <1>3, <1>4, OwnStep

\* The place of a thread after a step that changes its label.
LEMMA GoOnRecord ==
    ASSUME VmTypes, NEW t \in Thread, NEW to \in Labels, GoOn(t, to), NEW r,
           r = [up[t] EXCEPT !.pc = to]
    PROVE  r \in UpRecord /\ r.pc = to /\ up' = [up EXCEPT ![t] = r]
<1>1. up[t] \in UpRecord /\ up' = [up EXCEPT ![t].pc = to]
  BY DEF VmTypes, GoOn
<1>2. r \in UpRecord /\ r.pc = to
  BY <1>1 DEF UpRecord
<1> QED BY <1>1, <1>2

\* as_activate
LEMMA ActivateInv ==
    ASSUME VmInv, NEW t \in Thread, as_activate(t)
    PROVE  VmInv'
<1>1. /\ cpu = t /\ up[t].pc = "activate" /\ tlb' = Invalid /\ GoOn(t, "define")
      /\ UNCHANGED <<cpu, t_vmspace, ram_vars>>
  BY DEF as_activate, OnCpu
<1>2. PICK r : r = [up[t] EXCEPT !.pc = "define"]
  OBVIOUS
<1>3. r \in UpRecord /\ r.pc = "define" /\ up' = [up EXCEPT ![t] = r]
  BY <1>1, <1>2, GoOnRecord DEF VmInv, Labels, Before
<1>4. SpaceOf(t_vmspace[t], r.pc, Taken)
  BY <1>1, <1>3 DEF VmInv, Spaces, SpaceOf, Before, Loaded
<1>5. DOMAIN tlb' = TlbSlot
  BY <1>1 DEF Invalid
<1>6. VmTypes' /\ Spaces' /\ Apart'
  BY <1>1, <1>3, <1>4, <1>5, MoveOn
<1> QED BY <1>1, <1>6, InvalidTlb DEF VmInv

\* as_define_region
LEMMA DefineInv ==
    ASSUME VmInv, NEW t \in Thread, as_define_region(t)
    PROVE  VmInv'
<1> DEFINE as == t_vmspace[t]  p == up[t].prog  i == up[t].i
<1>1. /\ VmTypes /\ Spaces /\ cpu = t /\ up[t].pc = "define"
      /\ UNCHANGED <<cpu, tlb, ram_vars>>
      /\ up[t] \in UpRecord /\ p \in Seq(Segment) /\ i \in Nat \ {0}
  BY DEF VmInv, VmTypes, as_define_region, OnCpu, UpRecord
<1>2. tlb' = Invalid /\ DOMAIN tlb' = TlbSlot
  BY <1>1 DEF VmInv, TlbOK, VmTypes
<1>3. as \in AddrSpace /\ as.pbase1 = 0 /\ as.pbase2 = 0 /\ as.stackpbase = 0
  BY <1>1 DEF Spaces, SpaceOf, VmTypes, Before
<1>4. ASSUME NEW to \in {"exit", "region1"}, GoOn(t, to), UNCHANGED t_vmspace
      PROVE  VmInv'
  <2>1. PICK r : r = [up[t] EXCEPT !.pc = to]
    OBVIOUS
  <2>2. r \in UpRecord /\ r.pc = to /\ up' = [up EXCEPT ![t] = r]
    BY <1>1, <1>4, <2>1, GoOnRecord DEF Labels, Before
  <2>3. SpaceOf(t_vmspace[t], r.pc, Taken)
    BY <1>1, <1>3, <2>2 DEF Spaces, SpaceOf, Before, Loaded
  <2>4. VmTypes' /\ Spaces' /\ Apart'
    BY <1>1, <1>2, <1>4, <2>2, <2>3, MoveOn
  <2> QED BY <1>2, <2>4, InvalidTlb DEF VmInv
<1>5. ASSUME i <= Len(p), NEW a,
             \/ a = [as EXCEPT !.vbase1 = p[i][1], !.npages1 = p[i][2]]
             \/ a = [as EXCEPT !.vbase2 = p[i][1], !.npages2 = p[i][2]],
             t_vmspace' = [t_vmspace EXCEPT ![t] = a], up' = [up EXCEPT ![t].i = i + 1]
      PROVE  VmInv'
  <2>1. p[i] \in Segment
    BY <1>1, <1>5
  <2>2. p[i][1] \in Nat /\ p[i][2] \in Nat
    BY <2>1, VmSizes DEF Segment, PageNumber
  <2>3. a \in AddrSpace
    BY <1>3, <1>5, <2>2 DEF AddrSpace
  <2>4. a.pbase1 = 0 /\ a.pbase2 = 0 /\ a.stackpbase = 0
    BY <1>3, <1>5 DEF AddrSpace
  <2>5. PICK r : r = [up[t] EXCEPT !.i = i + 1]
    OBVIOUS
  <2>6. up' = [up EXCEPT ![t] = r]
    BY <1>1, <1>5, <2>5 DEF VmTypes
  <2>7. r \in UpRecord /\ r.pc = "define"
    BY <1>1, <2>5 DEF UpRecord
  <2>8. SpaceOf(a, r.pc, Taken') /\ FramesOf(a) = {}
    <3>1. a # NULL
      BY <2>3, AddrSpaceFields
    <3> QED BY <2>4, <2>7, <3>1 DEF SpaceOf, Below, Loaded, FramesOf, FrameRange
  <2>9. /\ firstpaddr' \in PageNumber /\ wrapped' \in BOOLEAN /\ (wrapped => wrapped')
        /\ Taken \subseteq Taken'
    BY <1>1, RamSame
  <2>10. VmTypes' /\ Spaces' /\ Apart'
    BY <1>1, <1>2, <1>5, <2>3, <2>6, <2>7, <2>8, <2>9, OwnStep
  <2> QED BY <1>2, <2>10, InvalidTlb DEF VmInv
<1>6. \/ \E to \in {"exit", "region1"} : GoOn(t, to) /\ UNCHANGED t_vmspace
      \/ /\ i <= Len(p) /\ up' = [up EXCEPT ![t].i = i + 1]
         /\ t_vmspace' = [t_vmspace EXCEPT ![t] =
                IF as.vbase1 = 0 THEN [as EXCEPT !.vbase1 = p[i][1], !.npages1 = p[i][2]]
                                 ELSE [as EXCEPT !.vbase2 = p[i][1], !.npages2 = p[i][2]]]
  BY DEF as_define_region
<1> HIDE DEF as, p, i
<1> QED BY <1>4, <1>5, <1>6

\* as_prepare_load: each of its three blocks is of frames nobody has had,
\* unless the sum has wrapped.
LEMMA PrepareInv ==
    ASSUME VmInv, NEW t \in Thread, as_prepare_load(t)
    PROVE  VmInv'
<1> DEFINE as == t_vmspace[t]
<1>1. /\ VmTypes /\ Spaces /\ cpu = t /\ up[t].pc \in {"region1", "region2", "stack"}
      /\ as \in AddrSpace /\ as # NULL /\ UNCHANGED <<cpu, tlb>> /\ DOMAIN tlb' = TlbSlot
  BY DEF VmInv, Spaces, SpaceOf, VmTypes, as_prepare_load, OnCpu
<1>2. ASSUME NEW p \in 0..(RamPages + 1), up[t].pc = "region1", getppages(as.npages1, p),
             t_vmspace' = [t_vmspace EXCEPT ![t].pbase1 = p],
             GoOn(t, IF p = 0 THEN "exit" ELSE "region2")
      PROVE  VmInv'
  <2>1. PICK a : a = [as EXCEPT !.pbase1 = p]
    OBVIOUS
  <2>2. t_vmspace' = [t_vmspace EXCEPT ![t] = a]
    BY <1>1, <1>2, <2>1 DEF VmTypes
  <2>3. a \in AddrSpace /\ a # NULL
    BY <1>1, <1>2, <2>1, AddrSpaceFields DEF AddrSpace
  <2>4. /\ a.pbase1 = p /\ a.npages1 = as.npages1 /\ a.npages2 = as.npages2
        /\ a.pbase2 = as.pbase2 /\ a.stackpbase = as.stackpbase
    BY <1>1, <2>1 DEF AddrSpace
  <2>5. PICK to \in Labels : to = IF p = 0 THEN "exit" ELSE "region2"
    BY DEF Labels, Loaded
  <2>6. PICK r : r = [up[t] EXCEPT !.pc = to]
    OBVIOUS
  <2>7. r \in UpRecord /\ r.pc = to /\ up' = [up EXCEPT ![t] = r]
    BY <1>1, <1>2, <2>5, <2>6, GoOnRecord
  <2>8. as.npages1 \in Nat
    BY <1>1, AddrSpaceFields, VmSizes
  <2>9. /\ firstpaddr' \in PageNumber /\ wrapped' \in BOOLEAN /\ (wrapped => wrapped')
        /\ Taken \subseteq Taken' /\ FrameRange(p, as.npages1) \subseteq Taken'
        /\ ~wrapped' => FrameRange(p, as.npages1) \cap Taken = {}
    BY <1>1, <1>2, <2>8, Stolen
  <2>10. SpaceOf(as, "region1", Taken')
    BY <1>1, <1>2, <2>9, SpaceGrows DEF Spaces
  <2>11. SpaceOf(a, r.pc, Taken')
    <3>1. Below(p, as.npages1, Taken')
      BY <2>8, <2>9 DEF Below
    <3> QED BY <2>3, <2>4, <2>5, <2>7, <2>10, <3>1, <1>1 DEF SpaceOf, Before, Loaded
  <2>12. ASSUME ~wrapped', NEW x \in FramesOf(a) PROVE x \in Frames(t) \/ x \notin Taken
    <3>1. Frames(t) = FramesOf(as)
      BY <1>1, FramesDef
    <3>2. x \in FrameRange(p, as.npages1) \/ x \in FramesOf(as)
      BY <2>4, <2>12 DEF FramesOf
    <3> QED BY <2>9, <2>12, <3>1, <3>2
  <2>13. VmTypes' /\ Spaces' /\ Apart'
    BY <1>1, <1>2, <2>2, <2>3, <2>7, <2>9, <2>11, <2>12, OwnStep
  <2>14. tlb' = Invalid
    BY <1>1, <1>2 DEF VmInv, TlbOK
  <2> QED BY <2>13, <2>14, InvalidTlb DEF VmInv
<1>3. ASSUME NEW p \in 0..(RamPages + 1), up[t].pc = "region2", getppages(as.npages2, p),
             t_vmspace' = [t_vmspace EXCEPT ![t].pbase2 = p],
             GoOn(t, IF p = 0 THEN "exit" ELSE "stack")
      PROVE  VmInv'
  <2>1. PICK a : a = [as EXCEPT !.pbase2 = p]
    OBVIOUS
  <2>2. t_vmspace' = [t_vmspace EXCEPT ![t] = a]
    BY <1>1, <1>3, <2>1 DEF VmTypes
  <2>3. a \in AddrSpace /\ a # NULL
    BY <1>1, <1>3, <2>1, AddrSpaceFields DEF AddrSpace
  <2>4. /\ a.pbase2 = p /\ a.npages1 = as.npages1 /\ a.npages2 = as.npages2
        /\ a.pbase1 = as.pbase1 /\ a.stackpbase = as.stackpbase
    BY <1>1, <2>1 DEF AddrSpace
  <2>5. PICK to \in Labels : to = IF p = 0 THEN "exit" ELSE "stack"
    BY DEF Labels, Loaded
  <2>6. PICK r : r = [up[t] EXCEPT !.pc = to]
    OBVIOUS
  <2>7. r \in UpRecord /\ r.pc = to /\ up' = [up EXCEPT ![t] = r]
    BY <1>1, <1>3, <2>5, <2>6, GoOnRecord
  <2>8. as.npages2 \in Nat
    BY <1>1, AddrSpaceFields, VmSizes
  <2>9. /\ firstpaddr' \in PageNumber /\ wrapped' \in BOOLEAN /\ (wrapped => wrapped')
        /\ Taken \subseteq Taken' /\ FrameRange(p, as.npages2) \subseteq Taken'
        /\ ~wrapped' => FrameRange(p, as.npages2) \cap Taken = {}
    BY <1>1, <1>3, <2>8, Stolen
  <2>10. SpaceOf(as, "region2", Taken')
    BY <1>1, <1>3, <2>9, SpaceGrows DEF Spaces
  <2>11. SpaceOf(a, r.pc, Taken')
    <3>1. Below(p, as.npages2, Taken')
      BY <2>8, <2>9 DEF Below
    <3> QED BY <2>3, <2>4, <2>5, <2>7, <2>10, <3>1, <1>1 DEF SpaceOf, Before, Loaded
  <2>12. ASSUME ~wrapped', NEW x \in FramesOf(a) PROVE x \in Frames(t) \/ x \notin Taken
    <3>1. Frames(t) = FramesOf(as)
      BY <1>1, FramesDef
    <3>2. x \in FrameRange(p, as.npages2) \/ x \in FramesOf(as)
      BY <2>4, <2>12 DEF FramesOf
    <3> QED BY <2>9, <2>12, <3>1, <3>2
  <2>13. VmTypes' /\ Spaces' /\ Apart'
    BY <1>1, <1>3, <2>2, <2>3, <2>7, <2>9, <2>11, <2>12, OwnStep
  <2>14. tlb' = Invalid
    BY <1>1, <1>3 DEF VmInv, TlbOK
  <2> QED BY <2>13, <2>14, InvalidTlb DEF VmInv
<1>4. ASSUME NEW p \in 0..(RamPages + 1), up[t].pc = "stack", getppages(STACKPAGES, p),
             t_vmspace' = [t_vmspace EXCEPT ![t].stackpbase = p],
             GoOn(t, IF p = 0 THEN "exit" ELSE "load")
      PROVE  VmInv'
  <2>1. PICK a : a = [as EXCEPT !.stackpbase = p]
    OBVIOUS
  <2>2. t_vmspace' = [t_vmspace EXCEPT ![t] = a]
    BY <1>1, <1>4, <2>1 DEF VmTypes
  <2>3. a \in AddrSpace /\ a # NULL
    BY <1>1, <1>4, <2>1, AddrSpaceFields DEF AddrSpace
  <2>4. /\ a.stackpbase = p /\ a.npages1 = as.npages1 /\ a.npages2 = as.npages2
        /\ a.pbase1 = as.pbase1 /\ a.pbase2 = as.pbase2
    BY <1>1, <2>1 DEF AddrSpace
  <2>5. PICK to \in Labels : to = IF p = 0 THEN "exit" ELSE "load"
    BY DEF Labels, Loaded
  <2>6. PICK r : r = [up[t] EXCEPT !.pc = to]
    OBVIOUS
  <2>7. r \in UpRecord /\ r.pc = to /\ up' = [up EXCEPT ![t] = r]
    BY <1>1, <1>4, <2>5, <2>6, GoOnRecord
  <2>8. STACKPAGES \in Nat
    BY <1>1, AddrSpaceFields, VmSizes
  <2>9. /\ firstpaddr' \in PageNumber /\ wrapped' \in BOOLEAN /\ (wrapped => wrapped')
        /\ Taken \subseteq Taken' /\ FrameRange(p, STACKPAGES) \subseteq Taken'
        /\ ~wrapped' => FrameRange(p, STACKPAGES) \cap Taken = {}
    BY <1>1, <1>4, <2>8, Stolen
  <2>10. SpaceOf(as, "stack", Taken')
    BY <1>1, <1>4, <2>9, SpaceGrows DEF Spaces
  <2>11. SpaceOf(a, r.pc, Taken')
    <3>1. Below(p, STACKPAGES, Taken')
      BY <2>8, <2>9 DEF Below
    <3> QED BY <2>3, <2>4, <2>5, <2>7, <2>10, <3>1, <1>1 DEF SpaceOf, Before, Loaded
  <2>12. ASSUME ~wrapped', NEW x \in FramesOf(a) PROVE x \in Frames(t) \/ x \notin Taken
    <3>1. Frames(t) = FramesOf(as)
      BY <1>1, FramesDef
    <3>2. x \in FrameRange(p, STACKPAGES) \/ x \in FramesOf(as)
      BY <2>4, <2>12 DEF FramesOf
    <3> QED BY <2>9, <2>12, <3>1, <3>2
  <2>13. VmTypes' /\ Spaces' /\ Apart'
    BY <1>1, <1>4, <2>2, <2>3, <2>7, <2>9, <2>11, <2>12, OwnStep
  <2>14. tlb' = Invalid
    BY <1>1, <1>4 DEF VmInv, TlbOK
  <2> QED BY <2>13, <2>14, InvalidTlb DEF VmInv
<1> QED BY <1>2, <1>3, <1>4 DEF as_prepare_load, OnCpu

\* load_elf
LEMMA LoadInv ==
    ASSUME VmInv, NEW t \in Thread, load_elf(t)
    PROVE  VmInv'
<1>1. PICK to \in {"user", "exit"} : GoOn(t, to)
  BY DEF load_elf
<1>2. /\ VmTypes /\ cpu = t /\ up[t].pc = "load"
      /\ UNCHANGED <<cpu, t_vmspace, tlb, ram_vars>>
  BY DEF VmInv, load_elf, OnCpu
<1>3. PICK r : r = [up[t] EXCEPT !.pc = to]
  OBVIOUS
<1>4. r \in UpRecord /\ r.pc = to /\ up' = [up EXCEPT ![t] = r]
  BY <1>1, <1>2, <1>3, GoOnRecord DEF Labels, Loaded
<1>5. SpaceOf(t_vmspace[t], r.pc, Taken)
  BY <1>2, <1>4 DEF VmInv, Spaces, SpaceOf, Before, Loaded
<1>6. VmTypes' /\ Spaces' /\ Apart'
  BY <1>2, <1>4, <1>5, MoveOn DEF VmTypes
<1>7. TlbOK'
  <2>1. up'[cpu].pc = to
    BY <1>2, <1>4 DEF VmTypes
  <2> QED BY <1>2, <2>1, SameTlb DEF VmInv, Loaded
<1> QED BY <1>6, <1>7 DEF VmInv

\* mips_trap: the page that faults has no entry.
LEMMA TrapInv ==
    ASSUME VmInv, NEW t \in Thread, NEW va \in 0..(STACKBASE + STACKPAGES - 1), mips_trap(t, va)
    PROVE  VmInv'
<1>1. /\ VmTypes /\ cpu = t /\ up[t].pc \in {"load", "user"} /\ up[t] \in UpRecord
      /\ \A i \in TlbSlot : tlb[i] # <<>> => tlb[i][1] # va
      /\ UNCHANGED <<cpu, t_vmspace, tlb, ram_vars>>
  BY DEF VmInv, VmTypes, mips_trap, OnCpu
<1>2. va \in Nat
  BY VmSizes
<1>3. PICK to \in {"loadfault", "userfault"} :
          to = IF up[t].pc = "load" THEN "loadfault" ELSE "userfault"
  OBVIOUS
<1>4. PICK r : r = [up[t] EXCEPT !.pc = to, !.va = va]
  OBVIOUS
<1>5. up' = [up EXCEPT ![t] = r]
  BY <1>1, <1>3, <1>4 DEF mips_trap, VmTypes
<1>6. r \in UpRecord /\ r.pc = to /\ r.va = va
  BY <1>1, <1>2, <1>4 DEF UpRecord, Labels, Loaded
<1>7. SpaceOf(t_vmspace[t], r.pc, Taken)
  BY <1>1, <1>6 DEF VmInv, Spaces, SpaceOf, Before, Loaded
<1>8. VmTypes' /\ Spaces' /\ Apart'
  BY <1>1, <1>5, <1>6, <1>7, MoveOn DEF VmTypes
<1>9. TlbOK'
  <2>1. up'[cpu].pc = to /\ up'[cpu].va = va
    BY <1>1, <1>5, <1>6 DEF VmTypes
  <2> QED BY <1>1, <2>1, SameTlb DEF VmInv, Loaded
<1> QED BY <1>8, <1>9 DEF VmInv

\* The frame of a page of a loaded program is one of its own.
LEMMA FrameIsOwn ==
    ASSUME NEW as \in AddrSpace, as.pbase1 # 0, as.pbase2 # 0, as.stackpbase # 0,
           NEW va \in Nat, HasFrame(as, va)
    PROVE  Frame(as, va) \in FramesOf(as)
<1>1. STACKBASE \in Nat /\ STACKPAGES \in Nat
  BY VmSizes
<1>2. \A base, n, p \in Nat : p # 0 /\ va >= base /\ va < base + n =>
                                 ((va - base) + p) % AddrPages \in FrameRange(p, n)
  <2> SUFFICES ASSUME NEW base \in Nat, NEW n \in Nat, NEW p \in Nat,
                      p # 0, va >= base, va < base + n
               PROVE  ((va - base) + p) % AddrPages \in FrameRange(p, n)
    OBVIOUS
  <2>1. va - base \in 0..(n - 1) /\ (va - base) + p = p + (va - base)
    OBVIOUS
  <2> QED BY <2>1 DEF FrameRange
<1>3. ASSUME NEW base \in Nat, NEW n \in Nat, InRegion(va, base, n)
      PROVE  va >= base /\ va < base + n
  <2>1. AddrPages \in Nat /\ AddrPages > 0 /\ base + n \in Nat
    BY VmSizes
  <2>2. (base + n) % AddrPages <= base + n /\ (base + n) % AddrPages \in Nat
    BY <2>1
  <2>3. va >= base /\ va < (base + n) % AddrPages
    BY <1>3 DEF InRegion
  <2> QED BY <2>1, <2>2, <2>3
<1>4. CASE InRegion(va, as.vbase1, as.npages1)
  BY <1>2, <1>3, <1>4, AddrSpaceFields DEF Frame, FramesOf
<1>5. CASE ~InRegion(va, as.vbase1, as.npages1) /\ InRegion(va, as.vbase2, as.npages2)
  BY <1>2, <1>3, <1>5, AddrSpaceFields DEF Frame, FramesOf
<1>6. CASE /\ ~InRegion(va, as.vbase1, as.npages1) /\ ~InRegion(va, as.vbase2, as.npages2)
           /\ InStack(va)
  BY <1>1, <1>2, <1>6, AddrSpaceFields DEF Frame, FramesOf, InStack
<1> QED BY <1>4, <1>5, <1>6 DEF HasFrame

\* vm_fault: the page gets the first slot that is not valid.
LEMMA FaultInv ==
    ASSUME VmInv, NEW t \in Thread, vm_fault(t)
    PROVE  VmInv'
<1> DEFINE as == t_vmspace[t]  va == up[t].va
           free == {i \in TlbSlot : tlb[i] = <<>>}
           slot == CHOOSE i \in free : \A j \in free : i <= j
<1>1. /\ VmTypes /\ Spaces /\ TlbOK /\ cpu = t /\ up[t].pc \in {"loadfault", "userfault"}
      /\ up[t] \in UpRecord /\ va \in Nat /\ as \in AddrSpace /\ as # NULL
      /\ as.pbase1 # 0 /\ as.pbase2 # 0 /\ as.stackpbase # 0
  BY DEF VmInv, VmTypes, vm_fault, OnCpu, Spaces, SpaceOf, UpRecord, Loaded
<1>2. CASE VmPanic
  BY <1>2, SameInv DEF VmPanic
<1>3. ASSUME NEW to \in {"load", "user", "exit"}, up' = [up EXCEPT ![t].pc = to, ![t].va = 0],
             UNCHANGED <<cpu, t_vmspace, ram_vars>>, DOMAIN tlb' = TlbSlot
      PROVE  VmTypes' /\ Spaces' /\ Apart' /\ up'[t].pc = to
  <2>1. PICK r : r = [up[t] EXCEPT !.pc = to, !.va = 0]
    OBVIOUS
  <2>2. up' = [up EXCEPT ![t] = r]
    BY <1>1, <1>3, <2>1 DEF VmTypes
  <2>3. r \in UpRecord /\ r.pc = to
    BY <1>1, <2>1 DEF UpRecord, Labels, Loaded
  <2>4. SpaceOf(t_vmspace[t], r.pc, Taken)
    BY <1>1, <2>3 DEF Spaces, SpaceOf, Before, Loaded
  <2>5. up'[t].pc = to
    BY <1>1, <2>2, <2>3 DEF VmTypes
  <2> QED BY <1>1, <1>3, <2>2, <2>3, <2>4, <2>5, MoveOn
<1>4. CASE /\ HasFrame(as, va) /\ free # {}
           /\ tlb' = [tlb EXCEPT ![slot] = <<va, Frame(as, va)>>]
           /\ \E to \in {"load", "user"} : up' = [up EXCEPT ![t].pc = to, ![t].va = 0]
           /\ UNCHANGED <<cpu, t_vmspace, ram_vars>>
  <2>1. slot \in free
    <3>1. free \in SUBSET Nat
      BY VmSizes DEF TlbSlot
    <3>2. \E m \in free : \A k \in free : m <= k
      BY <1>4, <3>1, LeastNatural
    <3> QED BY <3>2
  <2>2. PICK s \in TlbSlot : s = slot /\ tlb[s] = <<>>
    BY <2>1
  <2>3. PICK f : f = Frame(as, va)
    OBVIOUS
  <2>4. /\ tlb' = [tlb EXCEPT ![s] = <<va, f>>] /\ DOMAIN tlb' = TlbSlot
        /\ tlb'[s] = <<va, f>> /\ \A i \in TlbSlot \ {s} : tlb'[i] = tlb[i]
    BY <1>1, <1>4, <2>2, <2>3 DEF VmTypes
  <2>5. PICK to \in {"load", "user"} : up' = [up EXCEPT ![t].pc = to, ![t].va = 0]
    BY <1>4
  <2>6. VmTypes' /\ Spaces' /\ Apart' /\ up'[t].pc = to
    BY <1>3, <1>4, <2>4, <2>5
  <2>7. f \in Frames(t) /\ Frames(t)' = Frames(t)
    BY <1>1, <1>4, <2>3, FrameIsOwn, FramesDef
  <2>8. \A i \in TlbSlot : tlb[i] # <<>> =>
           /\ tlb[i][2] = Frame(as, tlb[i][1]) /\ tlb[i][2] \in Frames(t)
           /\ \A j \in TlbSlot : tlb[j] # <<>> /\ tlb[j][1] = tlb[i][1] => i = j
           /\ tlb[i][1] # va
    BY <1>1 DEF TlbOK
  <2>9. <<va, f>>[1] = va /\ <<va, f>>[2] = f
    OBVIOUS
  <2>10. ASSUME NEW i \in TlbSlot, tlb'[i] # <<>>
         PROVE  /\ tlb'[i][2] = Frame(as, tlb'[i][1]) /\ tlb'[i][2] \in Frames(t)
                /\ \A j \in TlbSlot : tlb'[j] # <<>> /\ tlb'[j][1] = tlb'[i][1] => i = j
    <3>1. CASE i = s
      BY <2>3, <2>4, <2>7, <2>8, <2>9, <3>1
    <3>2. CASE i # s
      BY <2>4, <2>8, <2>9, <2>10, <3>2
    <3> QED BY <3>1, <3>2
  <2>11. TlbOK'
    <3>1. cpu' = t /\ t_vmspace'[t] = as /\ up'[cpu'].pc \notin {"define", "region1", "region2", "stack"}
          /\ up'[cpu'].pc \notin {"loadfault", "userfault"} /\ Frames(cpu)' = Frames(t)
      BY <1>1, <1>4, <2>6, <2>7
    <3>2. \A i \in TlbSlot : tlb'[i] # <<>> =>
            /\ tlb'[i][2] = Frame(t_vmspace'[cpu'], tlb'[i][1]) /\ tlb'[i][2] \in Frames(cpu)'
            /\ \A j \in TlbSlot : tlb'[j] # <<>> /\ tlb'[j][1] = tlb'[i][1] => i = j
      BY <2>10, <3>1
    <3> QED BY <3>1, <3>2 DEF TlbOK, TlbSlot, Frame, InRegion
  <2> QED BY <2>6, <2>11 DEF VmInv
<1>5. CASE up' = [up EXCEPT ![t].pc = "exit", ![t].va = 0]
           /\ UNCHANGED <<cpu, t_vmspace, tlb, ram_vars>>
  <2>1. VmTypes' /\ Spaces' /\ Apart' /\ up'[t].pc = "exit"
    BY <1>1, <1>3, <1>5 DEF VmTypes
  <2>2. TlbOK'
    BY <1>1, <1>5, <2>1, SameTlb DEF Loaded
  <2> QED BY <2>1, <2>2 DEF VmInv
<1> QED BY <1>2, <1>4, <1>5 DEF vm_fault

----------------------------------------------------------------------------
(* The theorems *)

\* The invariant of address spaces, frames and the TLB: frames are given out once,
\* in one direction, until the sum of ram_stealmem wraps; an address space has frames only after it asked for them; and
\* the TLB is empty or the running program's.
THEOREM UserProgInvariant == UserProgBehaviour => []VmInv
<1>1. UserProgInit => VmInv
  <2> SUFFICES ASSUME UserProgInit PROVE VmInv
    OBVIOUS
  <2>1. VmTypes
    <3>1. 1 \in PageNumber
      BY VmSizes DEF PageNumber
    <3>2. firstpaddr \in PageNumber /\ wrapped \in BOOLEAN
      BY <3>1 DEF UserProgInit
    <3> QED BY <3>2, AtMenuType DEF UserProgInit, VmTypes, Invalid
  <2>2. Spaces
    BY AtMenuType DEF UserProgInit, Spaces, SpaceOf
  <2>3. Apart
    BY FramesDef DEF UserProgInit, Apart, Disjoint
  <2>4. TlbOK
    BY AtMenuType DEF UserProgInit, TlbOK
  <2> QED BY <2>1, <2>2, <2>3, <2>4 DEF VmInv
<1>2. VmInv /\ [UserProgNext]_vm_vars => VmInv'
  <2> SUFFICES ASSUME VmInv, [UserProgNext]_vm_vars PROVE VmInv'
    OBVIOUS
  <2>1. CASE UNCHANGED vm_vars
    BY <2>1, SameInv DEF vm_vars
  <2> QED BY <2>1, PreemptInv, ExitInv, RunprogramInv, ActivateInv, DefineInv, PrepareInv,
             LoadInv, TrapInv, FaultInv DEF UserProgNext
<1> QED BY <1>1, <1>2, PTL DEF UserProgBehaviour

\* A program only ever reaches its own memory: the TLB's entries are pages of the
\* running program, once each, in frames it was given, and until a segment was so large
\* that ram_stealmem's sum wrapped no frame is in two address spaces, whatever the order
\* of context switches, faults, and programs that die while loading.
THEOREM ProgramsReachOwnMemory == UserProgBehaviour => []OwnMemory
<1>1. VmInv => OwnMemory
  <2> SUFFICES ASSUME VmInv PROVE OwnMemory
    OBVIOUS
  <2>1. up[cpu].pc = "kernel" => t_vmspace[cpu] = NULL
    BY DEF VmInv, VmTypes, Spaces, SpaceOf
  <2> QED BY <2>1 DEF VmInv, OwnMemory, Apart, Disjoint, TlbOK
<1> QED BY <1>1, UserProgInvariant, PTL

----------------------------------------------------------------------------
(* The kernel heap *)

HeapRecord == [page : HeapPage \cup {0}, type : 0..NSIZES, free : Seq(Nat), nfree : Nat]

\* A page's chain has blocks of the page, each once, and they are the ones that
\* nobody has.
PageState(p) ==
    /\ p.page \in HeapPage /\ p.type \in BlockType
    /\ p.free \in Seq(0..(BlocksOf[p.type] - 1)) /\ IsInjective(p.free) /\ p.nfree = Len(p.free)
    /\ \A k \in 0..(BlocksOf[p.type] - 1) : <<p.page, k>> \in held <=> k \notin ToSet(p.free)

HeapTypes ==
    /\ pagerefs \in [PageRef -> HeapRecord] /\ pagerefs_inuse \subseteq PageRef
    /\ sizebases \in [BlockType -> Seq(PageRef)] /\ allbase \in Seq(PageRef)
    /\ big \subseteq HeapPage

\* Pages in use are different, and a block that someone has is a block of one.
HeapPages ==
    /\ \A r \in pagerefs_inuse : /\ PageState(pagerefs[r]) /\ pagerefs[r].page \notin big
                                 /\ pagerefs[r].nfree < BlocksOf[pagerefs[r].type]
    /\ \A r, q \in pagerefs_inuse : pagerefs[r].page = pagerefs[q].page => q = r
    /\ \A x \in held : \E r \in pagerefs_inuse : \E k \in 0..(BlocksOf[pagerefs[r].type] - 1) :
                          x = <<pagerefs[r].page, k>>

HeapLists ==
    /\ \A b \in BlockType : /\ IsInjective(sizebases[b])
                            /\ ToSet(sizebases[b]) = {r \in pagerefs_inuse : pagerefs[r].type = b}
    /\ IsInjective(allbase) /\ ToSet(allbase) = pagerefs_inuse

HeapInv == HeapTypes /\ HeapPages /\ HeapLists

\* The block sizes have at least two blocks in a page.
LEMMA BlockSizes ==
    /\ NSIZES \in Nat /\ NPAGEREFS \in Nat /\ BlockType \subseteq 0..NSIZES
    /\ \A b \in BlockType : BlocksOf[b] \in Nat /\ BlocksOf[b] > 1
  BY HeapSizes, BlocksAssumption DEF BlockType

\* doalloc of a page that has a free block.
LEMMA DoallocPage ==
    ASSUME pagerefs \in [PageRef -> HeapRecord], NEW r \in PageRef, NEW p \in HeapRecord,
           PageState(p), p.nfree > 0, doalloc(r, p)
    PROVE  /\ pagerefs' \in [PageRef -> HeapRecord]
           /\ \A q \in PageRef \ {r} : pagerefs'[q] = pagerefs[q]
           /\ pagerefs'[r].page = p.page /\ pagerefs'[r].type = p.type
           /\ pagerefs'[r].nfree = p.nfree - 1 /\ PageState(pagerefs[r])'
           /\ \E k \in 0..(BlocksOf[p.type] - 1) : held' = held \cup {<<p.page, k>>}
<1>1. p.type \in BlockType /\ BlocksOf[p.type] \in Nat
  BY BlockSizes DEF PageState
<1>2. PICK S : S = 0..(BlocksOf[p.type] - 1)
  OBVIOUS
<1>3. PICK s \in Seq(S) : s = p.free /\ IsInjective(s) /\ p.nfree = Len(s)
  BY <1>2 DEF PageState
<1>4. s # << >>
  BY <1>3
<1>5. /\ Head(s) \in S /\ Head(s) \in ToSet(s) /\ Tail(s) \in Seq(S) /\ IsInjective(Tail(s))
      /\ ToSet(Tail(s)) = ToSet(s) \ {Head(s)}
  BY <1>3, <1>4, TailSet
<1>6. Len(Tail(s)) = Len(s) - 1 /\ Len(s) \in Nat /\ Len(s) - 1 \in Nat
  BY <1>3, <1>4
<1>7. S \subseteq Nat
  BY <1>1, <1>2
<1>8. Tail(s) \in Seq(Nat)
  BY <1>5, <1>7, SeqOfLarger
<1>9. PICK q : q = [p EXCEPT !.free = Tail(@), !.nfree = @ - 1]
  OBVIOUS
<1>10. /\ q.page = p.page /\ q.type = p.type /\ q.free = Tail(s) /\ q.nfree = Len(s) - 1
       /\ q \in HeapRecord
  BY <1>3, <1>6, <1>8, <1>9 DEF HeapRecord
<1>11. pagerefs' = [pagerefs EXCEPT ![r] = q] /\ held' = held \cup {<<p.page, Head(s)>>}
  BY <1>3, <1>9 DEF doalloc
<1>12. /\ pagerefs' \in [PageRef -> HeapRecord] /\ pagerefs'[r] = q
       /\ \A x \in PageRef \ {r} : pagerefs'[x] = pagerefs[x]
  BY <1>10, <1>11
<1>13. \A k \in S : <<p.page, k>> \in held' <=> k \notin ToSet(Tail(s))
  <2>1. \A k \in S : <<p.page, k>> \in held <=> k \notin ToSet(s)
    BY <1>2, <1>3 DEF PageState
  <2> QED BY <1>5, <1>11, <2>1
<1>14. PageState(pagerefs[r])'
  <2>1. q.page \in HeapPage
    BY <1>10 DEF PageState
  <2> QED BY <1>1, <1>2, <1>5, <1>6, <1>10, <1>12, <1>13, <2>1 DEF PageState
<1> QED BY <1>2, <1>3, <1>5, <1>10, <1>11, <1>12, <1>14

\* A page whose blocks nobody takes or gives back stays as it is.
LEMMA OtherPage ==
    ASSUME NEW q, PageState(pagerefs[q]), pagerefs'[q] = pagerefs[q],
           \A k : <<pagerefs[q].page, k>> \in held' <=> <<pagerefs[q].page, k>> \in held
    PROVE  PageState(pagerefs[q])'
  BY DEF PageState

\* A block of page r is handed out, of a page in use or of a new one.
LEMMA AllocPages ==
    ASSUME HeapTypes, HeapPages, NEW r \in PageRef, NEW p \in HeapRecord, doalloc(r, p),
           PageState(p), p.nfree > 0, p.nfree <= BlocksOf[p.type], p.page \notin big,
           \A q \in pagerefs_inuse \ {r} : pagerefs[q].page # p.page,
           r \in pagerefs_inuse => p = pagerefs[r],
           pagerefs_inuse' = pagerefs_inuse \cup {r}
    PROVE  /\ HeapPages' /\ pagerefs' \in [PageRef -> HeapRecord] /\ big' = big
           /\ pagerefs'[r].type = p.type
           /\ \A q \in pagerefs_inuse \ {r} : pagerefs'[q].type = pagerefs[q].type
<1>1. /\ pagerefs \in [PageRef -> HeapRecord] /\ pagerefs_inuse \subseteq PageRef
  BY DEF HeapTypes
<1>2. /\ pagerefs' \in [PageRef -> HeapRecord]
      /\ \A q \in PageRef \ {r} : pagerefs'[q] = pagerefs[q]
      /\ pagerefs'[r].page = p.page /\ pagerefs'[r].type = p.type
      /\ pagerefs'[r].nfree = p.nfree - 1 /\ PageState(pagerefs[r])'
  BY <1>1, DoallocPage
<1>3. PICK k \in 0..(BlocksOf[p.type] - 1) : held' = held \cup {<<p.page, k>>}
  BY <1>1, DoallocPage
<1>4. big' = big
  BY DEF doalloc
<1>5. ASSUME NEW q \in pagerefs_inuse'
      PROVE  /\ PageState(pagerefs[q])' /\ pagerefs'[q].page \notin big'
             /\ pagerefs'[q].nfree < BlocksOf[pagerefs'[q].type]
  <2>1. CASE q = r
    <3>1. p.nfree \in Nat /\ BlocksOf[p.type] \in Nat
      BY BlockSizes DEF HeapRecord, PageState
    <3>2. p.nfree - 1 < BlocksOf[p.type]
      BY <3>1
    <3> QED BY <1>2, <1>4, <2>1, <3>2
  <2>2. CASE q # r
    <3>1. q \in pagerefs_inuse \ {r} /\ pagerefs'[q] = pagerefs[q] /\ pagerefs[q].page # p.page
      BY <1>1, <1>2, <2>2
    <3>2. \A l : <<pagerefs[q].page, l>> \in held' <=> <<pagerefs[q].page, l>> \in held
      BY <1>3, <3>1
    <3>3. /\ PageState(pagerefs[q]) /\ pagerefs[q].page \notin big
          /\ pagerefs[q].nfree < BlocksOf[pagerefs[q].type]
      BY <3>1 DEF HeapPages
    <3> QED BY <1>4, <3>1, <3>2, <3>3, OtherPage
  <2> QED BY <2>1, <2>2
<1>6. ASSUME NEW x \in pagerefs_inuse', NEW q \in pagerefs_inuse', pagerefs'[x].page = pagerefs'[q].page
      PROVE  q = x
  <2>1. CASE x # r /\ q # r
    <3>1. /\ x \in pagerefs_inuse /\ q \in pagerefs_inuse
          /\ pagerefs'[x] = pagerefs[x] /\ pagerefs'[q] = pagerefs[q]
      BY <1>1, <1>2, <2>1
    <3> QED BY <1>6, <3>1 DEF HeapPages
  <2>2. \A y \in pagerefs_inuse' : y # r => pagerefs'[y].page # pagerefs'[r].page
    BY <1>1, <1>2
  <2> QED BY <1>6, <2>1, <2>2
<1>7. ASSUME NEW x \in held'
      PROVE  \E q \in pagerefs_inuse' : \E l \in 0..(BlocksOf[pagerefs'[q].type] - 1) :
                x = <<pagerefs'[q].page, l>>
  <2>1. CASE x = <<p.page, k>>
    BY <1>2, <2>1
  <2>2. CASE x \in held
    <3>1. PICK q \in pagerefs_inuse : \E l \in 0..(BlocksOf[pagerefs[q].type] - 1) :
                x = <<pagerefs[q].page, l>>
      BY <2>2 DEF HeapPages
    <3>2. pagerefs'[q].page = pagerefs[q].page /\ pagerefs'[q].type = pagerefs[q].type
      BY <1>1, <1>2
    <3> QED BY <3>1, <3>2
  <2> QED BY <1>3, <2>1, <2>2
<1>8. HeapPages'
  BY <1>5, <1>6, <1>7 DEF HeapPages
<1> QED BY <1>1, <1>2, <1>4, <1>8

\* subpage_kmalloc from a page of the right size.
LEMMA KmallocInv ==
    ASSUME HeapInv, NEW b \in BlockType, subpage_kmalloc(b)
    PROVE  HeapInv'
<1>1. HeapTypes /\ HeapPages /\ HeapLists
  BY DEF HeapInv
<1>2. /\ pagerefs \in [PageRef -> HeapRecord] /\ pagerefs_inuse \subseteq PageRef
      /\ sizebases[b] \in Seq(PageRef)
  BY <1>1 DEF HeapTypes
<1>3. PICK i \in DOMAIN sizebases[b] : /\ pagerefs[sizebases[b][i]].nfree > 0
                                      /\ doalloc(sizebases[b][i], pagerefs[sizebases[b][i]])
  BY DEF subpage_kmalloc
<1>4. PICK r : r = sizebases[b][i]
  OBVIOUS
<1>5. r \in pagerefs_inuse
  BY <1>1, <1>3, <1>4 DEF HeapLists, ToSet
<1>6. PICK p \in HeapRecord : p = pagerefs[r]
  BY <1>2, <1>5
<1>7. UNCHANGED <<pagerefs_inuse, sizebases, allbase>>
  BY DEF subpage_kmalloc
<1>8. /\ PageState(p) /\ p.page \notin big /\ p.nfree < BlocksOf[p.type] /\ p.nfree > 0
      /\ \A q \in pagerefs_inuse \ {r} : pagerefs[q].page # p.page
  BY <1>1, <1>3, <1>4, <1>5, <1>6 DEF HeapPages
<1>9. p.nfree <= BlocksOf[p.type]
  BY <1>8, BlockSizes DEF HeapRecord, PageState
<1>10. /\ HeapPages' /\ pagerefs' \in [PageRef -> HeapRecord] /\ big' = big
       /\ pagerefs'[r].type = p.type
       /\ \A q \in pagerefs_inuse \ {r} : pagerefs'[q].type = pagerefs[q].type
  <2>1. doalloc(r, p) /\ r \in PageRef /\ pagerefs_inuse' = pagerefs_inuse \cup {r}
    BY <1>2, <1>3, <1>4, <1>5, <1>6, <1>7
  <2> QED BY <1>1, <1>6, <1>8, <1>9, <2>1, AllocPages
<1>11. \A q \in pagerefs_inuse : pagerefs'[q].type = pagerefs[q].type
  BY <1>6, <1>10
<1>12. HeapLists'
  BY <1>1, <1>7, <1>11 DEF HeapLists
<1>13. HeapTypes'
  BY <1>1, <1>7, <1>10 DEF HeapTypes
<1> QED BY <1>10, <1>12, <1>13 DEF HeapInv

\* subpage_kmalloc with a new page: all of its blocks are in the chain, once.
LEMMA NewPageInv ==
    ASSUME HeapInv, NEW b \in BlockType, subpage_kmalloc_page(b)
    PROVE  HeapInv'
<1>1. HeapTypes /\ HeapPages /\ HeapLists
  BY DEF HeapInv
<1>2. PICK F : F = PageRef \ pagerefs_inuse
  OBVIOUS
<1>3. PICK r : r = CHOOSE q \in F : \A s \in F : q <= s
  OBVIOUS
<1>4. r \in PageRef /\ r \notin pagerefs_inuse
  <2>1. F # {} /\ F \in SUBSET Nat
    BY <1>2, BlockSizes DEF subpage_kmalloc_page, PageRef
  <2>2. \E q \in F : \A s \in F : q <= s
    BY <2>1, LeastNatural
  <2> QED BY <1>2, <1>3, <2>2
<1>5. PICK n \in Nat : n = BlocksOf[b] /\ n > 1
  BY BlockSizes
<1>6. PICK c : c = [k \in 1..n |-> n - k]
  OBVIOUS
<1>7. PICK a \in HeapPage \ Given :
          /\ pagerefs_inuse' = pagerefs_inuse \cup {r}
          /\ sizebases' = [sizebases EXCEPT ![b] = <<r>> \o @]
          /\ allbase' = <<r>> \o allbase
          /\ doalloc(r, [page |-> a, type |-> b, free |-> c, nfree |-> n])
  BY <1>2, <1>3, <1>5, <1>6 DEF subpage_kmalloc_page
<1>8. PICK p : p = [page |-> a, type |-> b, free |-> c, nfree |-> n]
  OBVIOUS
<1>9. p.page = a /\ p.type = b /\ p.free = c /\ p.nfree = n
  BY <1>8
<1>10. c \in Seq(0..(n - 1)) /\ Len(c) = n /\ IsInjective(c)
  <2>1. c \in [1..n -> 0..(n - 1)]
    BY <1>6
  <2>2. c \in Seq(0..(n - 1)) /\ Len(c) = n
    BY <2>1
  <2>3. \A i, j \in 1..n : c[i] = c[j] => i = j
    BY <1>6
  <2> QED BY <2>1, <2>2, <2>3 DEF IsInjective
<1>11. ToSet(c) = 0..(n - 1)
  BY <1>10, FullList
<1>12. c \in Seq(Nat)
  BY <1>10
<1>13. p \in HeapRecord
  BY <1>7, <1>8, <1>12, BlockSizes DEF HeapRecord
<1>14. a \in HeapPage /\ a \notin big /\ \A q \in pagerefs_inuse : pagerefs[q].page # a
  BY <1>7 DEF Given
<1>15. \A k : <<a, k>> \notin held
  BY <1>1, <1>14 DEF HeapPages
<1>16. PageState(p)
  BY <1>5, <1>9, <1>10, <1>11, <1>14, <1>15 DEF PageState
<1>17. /\ HeapPages' /\ pagerefs' \in [PageRef -> HeapRecord] /\ big' = big
       /\ pagerefs'[r].type = b
       /\ \A q \in pagerefs_inuse : pagerefs'[q].type = pagerefs[q].type
  <2>1. /\ doalloc(r, p) /\ p.nfree > 0 /\ p.nfree <= BlocksOf[p.type] /\ p.page \notin big
        /\ \A q \in pagerefs_inuse \ {r} : pagerefs[q].page # p.page
    BY <1>5, <1>7, <1>8, <1>9, <1>14
  <2> QED BY <1>1, <1>4, <1>7, <1>9, <1>13, <1>16, <2>1, AllocPages
<1>18. /\ sizebases \in [BlockType -> Seq(PageRef)] /\ allbase \in Seq(PageRef)
       /\ pagerefs_inuse \subseteq PageRef
  BY <1>1 DEF HeapTypes
<1>19. /\ r \notin ToSet(sizebases[b]) /\ r \notin ToSet(allbase) /\ sizebases[b] \in Seq(PageRef)
       /\ IsInjective(sizebases[b]) /\ IsInjective(allbase)
  BY <1>1, <1>4, <1>18 DEF HeapLists
<1>20. /\ <<r>> \o sizebases[b] \in Seq(PageRef) /\ IsInjective(<<r>> \o sizebases[b])
       /\ ToSet(<<r>> \o sizebases[b]) = ToSet(sizebases[b]) \cup {r}
  BY <1>4, <1>19, PrependSet
<1>21. /\ <<r>> \o allbase \in Seq(PageRef) /\ IsInjective(<<r>> \o allbase)
       /\ ToSet(<<r>> \o allbase) = ToSet(allbase) \cup {r}
  BY <1>4, <1>18, <1>19, PrependSet
<1>22. /\ sizebases' \in [BlockType -> Seq(PageRef)] /\ sizebases'[b] = <<r>> \o sizebases[b]
       /\ \A d \in BlockType \ {b} : sizebases'[d] = sizebases[d]
  BY <1>7, <1>18, <1>20
<1>23. HeapTypes'
  BY <1>1, <1>4, <1>7, <1>17, <1>18, <1>21, <1>22 DEF HeapTypes
<1>24. HeapLists'
  <2>1. ASSUME NEW d \in BlockType
        PROVE  /\ IsInjective(sizebases'[d])
               /\ ToSet(sizebases'[d]) = {q \in pagerefs_inuse' : pagerefs'[q].type = d}
    <3>1. /\ IsInjective(sizebases[d])
          /\ ToSet(sizebases[d]) = {q \in pagerefs_inuse : pagerefs[q].type = d}
      BY <1>1 DEF HeapLists
    <3>2. \A q \in pagerefs_inuse : q \in PageRef /\ pagerefs'[q].type = pagerefs[q].type
      BY <1>17, <1>18
    <3>3. CASE d = b
      <4>1. sizebases'[d] = <<r>> \o sizebases[b]
        BY <1>22, <3>3
      <4>2. ToSet(sizebases'[d]) = {q \in pagerefs_inuse : pagerefs[q].type = d} \cup {r}
        BY <1>20, <3>1, <3>3, <4>1
      <4>3. {q \in pagerefs_inuse' : pagerefs'[q].type = d}
               = {q \in pagerefs_inuse : pagerefs[q].type = d} \cup {r}
        BY <1>7, <1>17, <3>2, <3>3
      <4> QED BY <1>20, <4>1, <4>2, <4>3
    <3>4. CASE d # b
      <4>1. {q \in pagerefs_inuse' : pagerefs'[q].type = d}
               = {q \in pagerefs_inuse : pagerefs[q].type = d}
        BY <1>7, <1>17, <3>2, <3>4
      <4> QED BY <1>22, <3>1, <3>4, <4>1
    <3> QED BY <3>3, <3>4
  <2>2. IsInjective(allbase') /\ ToSet(allbase') = pagerefs_inuse'
    BY <1>1, <1>7, <1>21 DEF HeapLists
  <2> QED BY <2>1, <2>2 DEF HeapLists
<1> QED BY <1>17, <1>23, <1>24 DEF HeapInv

\* subpage_kfree: the block goes back to its page's chain, and a page that is
\* wholly free has no block left with anybody when it is given back.
LEMMA KfreeInv ==
    ASSUME HeapInv, NEW a, NEW k, subpage_kfree(a, k)
    PROVE  HeapInv'
<1>1. HeapTypes /\ HeapPages /\ HeapLists
  BY DEF HeapInv
<1>2. /\ pagerefs \in [PageRef -> HeapRecord] /\ pagerefs_inuse \subseteq PageRef
      /\ sizebases \in [BlockType -> Seq(PageRef)] /\ allbase \in Seq(PageRef)
  BY <1>1 DEF HeapTypes
<1>3. /\ <<a, k>> \in held /\ held' = held \ {<<a, k>>} /\ big' = big
  BY DEF subpage_kfree
<1>4. PICK i \in DOMAIN allbase :
          /\ pagerefs[allbase[i]].page = a
          /\ LET r == allbase[i]
                 p == [pagerefs[r] EXCEPT !.free = <<k>> \o @, !.nfree = @ + 1] IN
             /\ pagerefs' = [pagerefs EXCEPT ![r] = p]
             /\ IF p.nfree = BlocksOf[p.type]
                THEN remove_lists(r, p.type) /\ pagerefs_inuse' = pagerefs_inuse \ {r}
                ELSE UNCHANGED <<pagerefs_inuse, sizebases, allbase>>
  BY DEF subpage_kfree
<1>5. PICK r : r = allbase[i]
  OBVIOUS
<1>6. r \in pagerefs_inuse /\ r \in PageRef /\ pagerefs[r].page = a
  BY <1>1, <1>2, <1>4, <1>5 DEF HeapLists, ToSet
<1>7. PICK o \in HeapRecord : o = pagerefs[r]
  BY <1>2, <1>6
<1>8. PageState(o) /\ o.page = a /\ a \notin big /\ o.nfree < BlocksOf[o.type]
  BY <1>1, <1>6, <1>7 DEF HeapPages
<1>9. PICK n \in Nat : n = BlocksOf[o.type]
  BY <1>8, BlockSizes DEF PageState
<1>10. PICK S : S = 0..(n - 1)
  OBVIOUS
<1>11. k \in S
  <2>1. PICK q \in pagerefs_inuse : \E l \in 0..(BlocksOf[pagerefs[q].type] - 1) :
                <<a, k>> = <<pagerefs[q].page, l>>
    BY <1>1, <1>3 DEF HeapPages
  <2>2. q = r
    BY <1>1, <1>6, <2>1 DEF HeapPages
  <2> QED BY <1>7, <1>9, <1>10, <2>1, <2>2
<1>12. PICK s \in Seq(S) : s = o.free /\ IsInjective(s) /\ o.nfree = Len(s)
  BY <1>8, <1>9, <1>10 DEF PageState
<1>13. k \notin ToSet(s)
  BY <1>3, <1>8, <1>9, <1>10, <1>11, <1>12 DEF PageState
<1>14. /\ <<k>> \o s \in Seq(S) /\ Len(<<k>> \o s) = Len(s) + 1 /\ IsInjective(<<k>> \o s)
       /\ ToSet(<<k>> \o s) = ToSet(s) \cup {k}
  BY <1>11, <1>12, <1>13, PrependSet
<1>15. <<k>> \o s \in Seq(Nat) /\ Len(s) + 1 \in Nat /\ S \subseteq Nat
  BY <1>9, <1>10, <1>12, <1>14
<1>16. PICK p : p = [o EXCEPT !.free = <<k>> \o @, !.nfree = @ + 1]
  OBVIOUS
<1>17. /\ p.page = a /\ p.type = o.type /\ p.free = <<k>> \o s /\ p.nfree = Len(s) + 1
       /\ p \in HeapRecord
  BY <1>8, <1>12, <1>15, <1>16 DEF HeapRecord
<1>18. /\ pagerefs' = [pagerefs EXCEPT ![r] = p]
       /\ IF p.nfree = BlocksOf[p.type]
          THEN remove_lists(r, p.type) /\ pagerefs_inuse' = pagerefs_inuse \ {r}
          ELSE UNCHANGED <<pagerefs_inuse, sizebases, allbase>>
  BY <1>4, <1>5, <1>7, <1>16
<1>19. /\ pagerefs' \in [PageRef -> HeapRecord] /\ pagerefs'[r] = p
       /\ \A q \in PageRef \ {r} : pagerefs'[q] = pagerefs[q]
  BY <1>2, <1>6, <1>17, <1>18
<1>20. \A l \in S : <<a, l>> \in held' <=> l \notin ToSet(p.free)
  <2>1. \A l \in S : <<a, l>> \in held <=> l \notin ToSet(s)
    BY <1>8, <1>9, <1>10, <1>12 DEF PageState
  <2> QED BY <1>3, <1>14, <1>17, <2>1
<1>21. PageState(pagerefs[r])'
  <2>1. p.page \in HeapPage /\ p.type \in BlockType
    BY <1>8, <1>17 DEF PageState
  <2> QED BY <1>9, <1>10, <1>14, <1>17, <1>19, <1>20, <2>1 DEF PageState
<1>22. ASSUME NEW q \in pagerefs_inuse \ {r}
       PROVE  /\ PageState(pagerefs[q])' /\ pagerefs'[q].page \notin big' /\ pagerefs'[q] = pagerefs[q]
              /\ pagerefs'[q].nfree < BlocksOf[pagerefs'[q].type] /\ pagerefs[q].page # a
  <2>1. pagerefs'[q] = pagerefs[q] /\ pagerefs[q].page # a
    BY <1>1, <1>2, <1>6, <1>19 DEF HeapPages
  <2>2. \A l : <<pagerefs[q].page, l>> \in held' <=> <<pagerefs[q].page, l>> \in held
    BY <1>3, <2>1
  <2>3. /\ PageState(pagerefs[q]) /\ pagerefs[q].page \notin big
        /\ pagerefs[q].nfree < BlocksOf[pagerefs[q].type]
    BY <1>1 DEF HeapPages
  <2> QED BY <1>3, <2>1, <2>2, <2>3, OtherPage
<1>23. \A q \in pagerefs_inuse : /\ pagerefs'[q].page = pagerefs[q].page
                                /\ pagerefs'[q].type = pagerefs[q].type
  BY <1>7, <1>8, <1>17, <1>19, <1>22
<1>24. ASSUME NEW x \in held'
       PROVE  \E q \in pagerefs_inuse : \E l \in 0..(BlocksOf[pagerefs'[q].type] - 1) :
                 x = <<pagerefs'[q].page, l>>
  BY <1>1, <1>3, <1>23 DEF HeapPages
<1>25. \A x, q \in pagerefs_inuse : pagerefs'[x].page = pagerefs'[q].page => q = x
  BY <1>1, <1>23 DEF HeapPages
<1>26. CASE p.nfree # BlocksOf[p.type]
  <2>1. UNCHANGED <<pagerefs_inuse, sizebases, allbase>>
    BY <1>18, <1>26
  <2>2. pagerefs'[r].nfree < BlocksOf[pagerefs'[r].type] /\ pagerefs'[r].page \notin big'
    <3>1. Len(s) \in Nat /\ Len(s) < n /\ Len(s) + 1 # n
      BY <1>8, <1>9, <1>12, <1>17, <1>26
    <3>2. Len(s) + 1 < n
      BY <3>1
    <3> QED BY <1>3, <1>8, <1>9, <1>17, <1>19, <3>2
  <2>3. HeapPages'
    BY <1>21, <1>22, <1>24, <1>25, <2>1, <2>2 DEF HeapPages
  <2>4. HeapLists'
    BY <1>1, <1>23, <2>1 DEF HeapLists
  <2>5. HeapTypes'
    BY <1>1, <1>3, <1>19, <2>1 DEF HeapTypes
  <2> QED BY <2>3, <2>4, <2>5 DEF HeapInv
<1>27. CASE p.nfree = BlocksOf[p.type]
  <2>1. pagerefs_inuse' = pagerefs_inuse \ {r} /\ remove_lists(r, o.type)
    BY <1>17, <1>18, <1>27
  <2>2. ToSet(p.free) = S
    BY <1>9, <1>10, <1>14, <1>17, <1>27, FullList
  <2>3. \A x \in held' : x[1] # a
    <3>1. ASSUME NEW l, <<a, l>> \in held' PROVE FALSE
      <4>1. PICK q \in pagerefs_inuse : \E m \in 0..(BlocksOf[pagerefs[q].type] - 1) :
                <<a, l>> = <<pagerefs[q].page, m>>
        BY <1>1, <1>3, <3>1 DEF HeapPages
      <4>2. q = r
        BY <1>1, <1>6, <4>1 DEF HeapPages
      <4>3. l \in S
        BY <1>7, <1>9, <1>10, <4>1, <4>2
      <4> QED BY <1>20, <2>2, <3>1, <4>3
    <3>2. \A x \in held' : \E b, l : x = <<b, l>>
      BY <1>24
    <3> QED BY <3>1, <3>2
  <2>4. HeapPages'
    <3>1. ASSUME NEW x \in held'
          PROVE  \E q \in pagerefs_inuse' : \E l \in 0..(BlocksOf[pagerefs'[q].type] - 1) :
                    x = <<pagerefs'[q].page, l>>
      <4>1. PICK q \in pagerefs_inuse : \E l \in 0..(BlocksOf[pagerefs'[q].type] - 1) :
                    x = <<pagerefs'[q].page, l>>
        BY <1>24
      <4>2. q # r
        BY <1>17, <1>19, <2>3, <4>1
      <4> QED BY <2>1, <4>1, <4>2
    <3> QED BY <1>22, <1>25, <2>1, <3>1 DEF HeapPages
  <2>5. PICK b \in BlockType : b = o.type
    BY <1>8 DEF PageState
  <2>6. /\ sizebases' = [sizebases EXCEPT ![b] = RemoveFirst(sizebases[b], r)]
        /\ allbase' = RemoveFirst(allbase, r)
    BY <2>1, <2>5 DEF remove_lists
  <2>7. /\ IsInjective(sizebases[b]) /\ sizebases[b] \in Seq(PageRef) /\ IsInjective(allbase)
    BY <1>1, <1>2 DEF HeapLists
  <2>8. /\ RemoveFirst(sizebases[b], r) \in Seq(PageRef) /\ IsInjective(RemoveFirst(sizebases[b], r))
        /\ ToSet(RemoveFirst(sizebases[b], r)) = ToSet(sizebases[b]) \ {r}
    BY <2>7, RemoveFirstSet
  <2>9. /\ allbase' \in Seq(PageRef) /\ IsInjective(allbase') /\ ToSet(allbase') = ToSet(allbase) \ {r}
    BY <1>2, <2>6, <2>7, RemoveFirstSet
  <2>10. /\ sizebases' \in [BlockType -> Seq(PageRef)] /\ sizebases'[b] = RemoveFirst(sizebases[b], r)
         /\ \A d \in BlockType \ {b} : sizebases'[d] = sizebases[d]
    BY <1>2, <2>6, <2>8
  <2>11. HeapTypes'
    BY <1>1, <1>2, <1>3, <1>19, <2>1, <2>9, <2>10 DEF HeapTypes
  <2>12. HeapLists'
    <3>1. ASSUME NEW d \in BlockType
          PROVE  /\ IsInjective(sizebases'[d])
                 /\ ToSet(sizebases'[d]) = {q \in pagerefs_inuse' : pagerefs'[q].type = d}
      <4>1. /\ IsInjective(sizebases[d])
            /\ ToSet(sizebases[d]) = {q \in pagerefs_inuse : pagerefs[q].type = d}
        BY <1>1 DEF HeapLists
      <4>2. CASE d = b
        BY <1>23, <2>1, <2>8, <2>10, <4>1, <4>2
      <4>3. CASE d # b
        <5>1. pagerefs[r].type # d
          BY <1>7, <2>5, <4>3
        <5> QED BY <1>23, <2>1, <2>10, <4>1, <4>3, <5>1
      <4> QED BY <4>2, <4>3
    <3>2. IsInjective(allbase') /\ ToSet(allbase') = pagerefs_inuse'
      BY <1>1, <2>1, <2>9 DEF HeapLists
    <3> QED BY <3>1, <3>2 DEF HeapLists
  <2> QED BY <2>4, <2>11, <2>12 DEF HeapInv
<1> QED BY <1>26, <1>27

\* kmalloc and kfree of whole pages.
LEMMA BigInv ==
    ASSUME HeapInv, kmalloc_big \/ \E a \in big : kfree_big(a)
    PROVE  HeapInv'
<1>1. /\ UNCHANGED <<pagerefs, pagerefs_inuse, sizebases, allbase, held>> /\ big' \subseteq HeapPage
      /\ \A r \in pagerefs_inuse : pagerefs[r].page \notin big => pagerefs[r].page \notin big'
  BY DEF kmalloc_big, kfree_big, HeapInv, HeapTypes, Given
<1>2. HeapTypes'
  BY <1>1 DEF HeapInv, HeapTypes
<1>3. HeapPages'
  BY <1>1 DEF HeapInv, HeapPages, PageState
<1>4. HeapLists'
  BY <1>1 DEF HeapInv, HeapLists
<1> QED BY <1>2, <1>3, <1>4 DEF HeapInv

\* At first no page is in use.
LEMMA HeapInitInv == KHeapInit => HeapInv
<1> SUFFICES ASSUME KHeapInit PROVE HeapInv
  OBVIOUS
<1>1. << >> \in Seq(PageRef) /\ << >> \in Seq(Nat) /\ ToSet(<< >>) = {} /\ IsInjective(<< >>)
  BY EmptySet
<1>2. PICK p : p = [page |-> 0, type |-> 0, free |-> << >>, nfree |-> 0]
  OBVIOUS
<1>3. p \in HeapRecord
  BY <1>1, <1>2, BlockSizes, 0 \in Nat, 0 \in 0..NSIZES DEF HeapRecord
<1>4. HeapTypes
  BY <1>1, <1>2, <1>3 DEF KHeapInit, HeapTypes
<1>5. HeapPages
  BY DEF KHeapInit, HeapPages
<1>6. HeapLists
  BY <1>1 DEF KHeapInit, HeapLists
<1> QED BY <1>4, <1>5, <1>6 DEF HeapInv

\* No step breaks the invariant.
LEMMA HeapNextInv == HeapInv /\ [KHeapNext]_heap_vars => HeapInv'
<1> SUFFICES ASSUME HeapInv, [KHeapNext]_heap_vars PROVE HeapInv'
  OBVIOUS
<1>1. CASE KHeapNext
  BY <1>1, KmallocInv, NewPageInv, KfreeInv, BigInv DEF KHeapNext
<1>2. CASE UNCHANGED heap_vars
  BY <1>2 DEF heap_vars, HeapInv, HeapTypes, HeapPages, HeapLists, PageState
<1> QED BY <1>1, <1>2

\* The invariant says what HeapOK does.
LEMMA HeapInvOK == HeapInv => HeapOK
<1> SUFFICES ASSUME HeapInv PROVE HeapOK
  OBVIOUS
<1>1. HeapTypes /\ HeapPages /\ HeapLists
  BY DEF HeapInv
<1>2. ASSUME NEW r \in pagerefs_inuse
      PROVE  LET p == pagerefs[r] IN
             /\ p.nfree = Len(p.free) /\ IsInjective(p.free) /\ p.nfree < BlocksOf[p.type]
             /\ \A k \in 0..(BlocksOf[p.type] - 1) : <<p.page, k>> \in held <=> k \notin ToSet(p.free)
             /\ r \in ToSet(sizebases[p.type]) /\ p.page \notin big
             /\ \A q \in pagerefs_inuse : pagerefs[q].page = p.page => q = r
  <2>1. PageState(pagerefs[r])
    BY <1>1 DEF HeapPages
  <2>2. r \in ToSet(sizebases[pagerefs[r].type])
    BY <1>1, <2>1 DEF HeapLists, PageState
  <2> QED BY <1>1, <2>1, <2>2 DEF HeapPages, PageState
<1>3. \A x \in held : \E r \in pagerefs_inuse : pagerefs[r].page = x[1]
  BY <1>1 DEF HeapPages
<1>4. \A b \in BlockType : IsInjective(sizebases[b]) /\ \A r \in ToSet(sizebases[b]) : pagerefs[r].type = b
  BY <1>1 DEF HeapLists
<1>5. UNION {ToSet(sizebases[b]) : b \in BlockType} = pagerefs_inuse
  <2>1. \A b \in BlockType : ToSet(sizebases[b]) \subseteq pagerefs_inuse
    BY <1>1 DEF HeapLists
  <2>2. \A r \in pagerefs_inuse : pagerefs[r].type \in BlockType /\ r \in ToSet(sizebases[pagerefs[r].type])
    BY <1>1, <1>2 DEF HeapPages, PageState
  <2> QED BY <2>1, <2>2
<1>6. IsInjective(allbase) /\ ToSet(allbase) = pagerefs_inuse
  BY <1>1 DEF HeapLists
<1> QED BY <1>2, <1>3, <1>4, <1>5, <1>6 DEF HeapOK

\* Whatever sequence of kmalloc and kfree, a page's chain has the blocks of the page
\* that nobody has, each once, its count is the chain's length, pages in use are
\* different, and both lists have exactly the pagerefs in use.
THEOREM HeapInvariant == KHeapBehaviour => []HeapInv
  BY HeapInitInv, HeapNextInv, PTL DEF KHeapBehaviour

\* HeapOK for any number of pages, pagerefs and block sizes: kmalloc hands out no block
\* twice, kfree loses none, and a page goes back exactly when nobody has a block of it.
THEOREM BlocksHandedOutOnce == KHeapBehaviour => []HeapOK
  BY HeapInvariant, HeapInvOK, PTL

----------------------------------------------------------------------------
(* The bitmap *)

\* A number is its word's first number and its offset in the word.
LEMMA WordAndOffset ==
    ASSUME NEW B \in Nat, B > 0, NEW index \in Nat
    PROVE  /\ index \div B \in Nat /\ index % B \in 0..(B - 1)
           /\ index = (index \div B) * B + (index % B)
  OBVIOUS

\* A product grows with its first factor.
LEMMA ProductGrows ==
    ASSUME NEW B \in Nat, NEW a \in Int, NEW b \in Int, a <= b
    PROVE  a * B \in Int /\ b * B \in Int /\ a * B <= b * B /\ (b + 1) * B = b * B + B
<1>1. PICK d \in Nat : b = a + d
  BY b - a \in Nat, b = a + (b - a)
<1>2. d * B \in Nat
  OBVIOUS
<1>3. b * B = a * B + d * B
  BY <1>1
<1>4. a * B \in Int /\ b * B \in Int
  OBVIOUS
<1> QED BY <1>2, <1>3, <1>4

\* Word and offset are found again from the number.
LEMMA WordOfNumber ==
    ASSUME NEW B \in Nat, B > 0, NEW ix \in Nat, NEW o \in 0..(B - 1)
    PROVE  /\ ix * B + o \in Nat
           /\ (ix * B + o) \div B = ix /\ (ix * B + o) % B = o
<1>1. PICK n \in Nat : n = ix * B + o
  OBVIOUS
<1>2. PICK q \in Nat : q = n \div B
  BY WordAndOffset
<1>3. PICK m \in 0..(B - 1) : m = n % B
  BY WordAndOffset
<1>4. n = q * B + m
  BY <1>2, <1>3, WordAndOffset
<1>5. q = ix
  <2>1. CASE q < ix
    <3>1. (q + 1) * B <= ix * B /\ (q + 1) * B = q * B + B /\ q * B \in Int /\ ix * B \in Int
      BY <2>1, ProductGrows, q + 1 <= ix, q <= q
    <3> QED BY <1>1, <1>4, <3>1
  <2>2. CASE ix < q
    <3>1. (ix + 1) * B <= q * B /\ (ix + 1) * B = ix * B + B /\ q * B \in Int /\ ix * B \in Int
      BY <2>2, ProductGrows, ix + 1 <= q, ix <= ix
    <3> QED BY <1>1, <1>4, <3>1
  <2> QED BY <2>1, <2>2
<1>6. m = o
  BY <1>1, <1>4, <1>5
<1> QED BY <1>1, <1>2, <1>3, <1>5, <1>6

\* The words cover all numbers, and the last word has one at least.
LEMMA WordsCover ==
    ASSUME nbits \in 1..MaxBits
    PROVE  /\ BITS_PER_WORD \in Nat /\ BITS_PER_WORD > 0 /\ MaxBits \in Nat /\ nbits \in Nat
           /\ words \in Nat /\ words > 0
           /\ words * BITS_PER_WORD \in Nat /\ (words - 1) * BITS_PER_WORD \in Nat
           /\ words * BITS_PER_WORD = (words - 1) * BITS_PER_WORD + BITS_PER_WORD
           /\ nbits <= words * BITS_PER_WORD /\ (words - 1) * BITS_PER_WORD < nbits
<1>1. BITS_PER_WORD \in Nat /\ BITS_PER_WORD > 0 /\ MaxBits \in Nat /\ nbits \in Nat /\ nbits > 0
  BY BitmapSizes
<1>2. PICK n \in Nat : n = nbits + BITS_PER_WORD - 1
  BY <1>1
<1>3. PICK m \in 0..(BITS_PER_WORD - 1) : m = n % BITS_PER_WORD
  BY <1>1, WordAndOffset
<1>4. words \in Nat /\ n = words * BITS_PER_WORD + m
  BY <1>1, <1>2, <1>3, WordAndOffset DEF words, DIVROUNDUP
<1>5. PICK w \in Nat : w = words
  BY <1>4
<1>6. w > 0
  <2>1. w = 0 => w * BITS_PER_WORD = 0
    BY <1>1
  <2> QED BY <1>1, <1>2, <1>4, <1>5, <2>1
<1>7. /\ w * BITS_PER_WORD \in Int /\ (w - 1) * BITS_PER_WORD \in Int
      /\ w * BITS_PER_WORD = (w - 1) * BITS_PER_WORD + BITS_PER_WORD
  <2>1. w - 1 \in Int /\ w - 1 <= w - 1 /\ (w - 1) + 1 = w
    OBVIOUS
  <2> QED BY <1>1, <2>1, ProductGrows
<1>8. w - 1 \in Nat
  BY <1>6
<1>9. (w - 1) * BITS_PER_WORD \in Nat /\ w * BITS_PER_WORD \in Nat
  BY <1>1, <1>8
<1>10. /\ nbits <= w * BITS_PER_WORD /\ (w - 1) * BITS_PER_WORD < nbits
  BY <1>1, <1>2, <1>4, <1>5, <1>7
<1> QED BY <1>1, <1>5, <1>6, <1>7, <1>9, <1>10

\* Every number below the end of the words has a word and an offset, and back.
LEMMA WordsAndNumbers ==
    ASSUME nbits \in 1..MaxBits
    PROVE  /\ \A index \in 0..(words * BITS_PER_WORD - 1) :
                 /\ ix_of(index) \in 0..(words - 1) /\ mask_of(index) \in WORD_ALLBITS
                 /\ index = ix_of(index) * BITS_PER_WORD + mask_of(index)
           /\ \A ix \in 0..(words - 1), o \in WORD_ALLBITS :
                 /\ ix * BITS_PER_WORD + o \in 0..(words * BITS_PER_WORD - 1)
                 /\ ix_of(ix * BITS_PER_WORD + o) = ix /\ mask_of(ix * BITS_PER_WORD + o) = o
<1>1. /\ BITS_PER_WORD \in Nat /\ BITS_PER_WORD > 0 /\ words \in Nat /\ words > 0
      /\ words * BITS_PER_WORD \in Nat
  BY WordsCover
<1>2. PICK w \in Nat : w = words
  BY <1>1
<1>3. ASSUME NEW index \in 0..(words * BITS_PER_WORD - 1)
      PROVE  /\ ix_of(index) \in 0..(words - 1) /\ mask_of(index) \in WORD_ALLBITS
             /\ index = ix_of(index) * BITS_PER_WORD + mask_of(index)
  <2>1. index \in Nat /\ index < w * BITS_PER_WORD
    BY <1>1, <1>2
  <2>2. PICK q \in Nat : q = ix_of(index)
    BY <1>1, <2>1, WordAndOffset DEF ix_of
  <2>3. PICK m \in 0..(BITS_PER_WORD - 1) : m = mask_of(index)
    BY <1>1, <2>1, WordAndOffset DEF mask_of
  <2>4. index = q * BITS_PER_WORD + m
    BY <1>1, <2>1, <2>2, <2>3, WordAndOffset DEF ix_of, mask_of
  <2>5. q < w
    <3>1. w <= q => w * BITS_PER_WORD <= q * BITS_PER_WORD /\ q * BITS_PER_WORD \in Int
      BY <1>1, ProductGrows
    <3>2. q * BITS_PER_WORD \in Nat /\ w * BITS_PER_WORD \in Nat
      BY <1>1
    <3> QED BY <1>1, <2>1, <2>4, <3>1, <3>2
  <2> QED BY <1>2, <2>2, <2>3, <2>4, <2>5 DEF WORD_ALLBITS
<1>4. ASSUME NEW ix \in 0..(words - 1), NEW o \in WORD_ALLBITS
      PROVE  /\ ix * BITS_PER_WORD + o \in 0..(words * BITS_PER_WORD - 1)
             /\ ix_of(ix * BITS_PER_WORD + o) = ix /\ mask_of(ix * BITS_PER_WORD + o) = o
  <2>1. ix \in Nat /\ o \in 0..(BITS_PER_WORD - 1) /\ ix + 1 <= w /\ ix <= ix
    BY <1>2 DEF WORD_ALLBITS
  <2>2. (ix + 1) * BITS_PER_WORD <= w * BITS_PER_WORD
    BY <1>1, <2>1, ProductGrows
  <2>3. (ix + 1) * BITS_PER_WORD = ix * BITS_PER_WORD + BITS_PER_WORD /\ ix * BITS_PER_WORD \in Nat
    BY <1>1, <2>1, ProductGrows
  <2>4. w * BITS_PER_WORD \in Nat
    BY <1>1, <1>2
  <2>5. ix * BITS_PER_WORD + o \in 0..(w * BITS_PER_WORD - 1)
    BY <1>1, <2>1, <2>2, <2>3, <2>4
  <2> QED BY <1>1, <1>2, <2>1, <2>5, WordOfNumber DEF ix_of, mask_of
<1> QED BY <1>3, <1>4

----------------------------------------------------------------------------
(* The inductive invariant *)

\* A bit is 1 exactly for a number that was given out or that is none.
BitmapInv ==
    /\ nbits \in 1..MaxBits
    /\ v \in [0..(words - 1) -> SUBSET WORD_ALLBITS]
    /\ given \subseteq 0..(nbits - 1)
    /\ \A index \in 0..(words * BITS_PER_WORD - 1) :
          bitmap_isset(index) <=> index \in given \/ index >= nbits

\* A bit that is 0 is set and its number given out: it was one, and free.
LEMMA MarkInv ==
    ASSUME BitmapInv, NEW ix \in 0..(words - 1), NEW o \in WORD_ALLBITS, o \notin v[ix],
           v' = [v EXCEPT ![ix] = @ \cup {o}], UNCHANGED nbits,
           given' = given \cup {ix * BITS_PER_WORD + o}
    PROVE  BitmapInv'
<1>1. nbits \in 1..MaxBits /\ words' = words /\ nbits \in Nat
  BY BitmapSizes DEF BitmapInv, words
<1>2. PICK x \in 0..(words * BITS_PER_WORD - 1) :
         x = ix * BITS_PER_WORD + o /\ ix_of(x) = ix /\ mask_of(x) = o
  BY <1>1, WordsAndNumbers
<1>3. ~bitmap_isset(x)
  BY <1>2 DEF bitmap_isset
<1>4. x \in 0..(nbits - 1)
  <2>1. x \in Nat /\ ~(x >= nbits)
    BY <1>1, <1>2, <1>3, WordsCover DEF BitmapInv
  <2> QED BY <1>1, <2>1
<1>5. v' \in [0..(words - 1) -> SUBSET WORD_ALLBITS]
  BY DEF BitmapInv
<1>6. ASSUME NEW index \in 0..(words * BITS_PER_WORD - 1)
      PROVE  bitmap_isset(index)' <=> index \in given' \/ index >= nbits
  <2>1. /\ ix_of(index) \in 0..(words - 1) /\ index = ix_of(index) * BITS_PER_WORD + mask_of(index)
    BY <1>1, WordsAndNumbers
  <2>2. v'[ix_of(index)] = IF ix_of(index) = ix THEN v[ix] \cup {o} ELSE v[ix_of(index)]
    BY <2>1 DEF BitmapInv
  <2>3. mask_of(index) \in v'[ix_of(index)] <=> mask_of(index) \in v[ix_of(index)] \/ index = x
    BY <1>2, <2>1, <2>2
  <2>4. bitmap_isset(index) <=> index \in given \/ index >= nbits
    BY DEF BitmapInv
  <2> QED BY <1>2, <2>3, <2>4 DEF bitmap_isset, ix_of, mask_of
<1>7. given' \subseteq 0..(nbits - 1)
  BY <1>2, <1>4 DEF BitmapInv
<1> QED BY <1>1, <1>5, <1>6, <1>7 DEF BitmapInv

\* bitmap_unmark of a number that was given out.
LEMMA UnmarkInv ==
    ASSUME BitmapInv, NEW x \in given, bitmap_unmark(x)
    PROVE  BitmapInv'
<1>1. /\ nbits \in 1..MaxBits /\ nbits' = nbits /\ words' = words /\ nbits \in Nat
      /\ x \in 0..(nbits - 1)
  BY BitmapSizes DEF BitmapInv, bitmap_unmark, words
<1>2. x \in 0..(words * BITS_PER_WORD - 1)
  BY <1>1, WordsCover
<1>3. v' = [v EXCEPT ![ix_of(x)] = @ \ {mask_of(x)}] /\ given' = given \ {x}
  BY DEF bitmap_unmark
<1>4. v' \in [0..(words - 1) -> SUBSET WORD_ALLBITS]
  BY <1>3 DEF BitmapInv
<1>5. ASSUME NEW index \in 0..(words * BITS_PER_WORD - 1)
      PROVE  bitmap_isset(index)' <=> index \in given' \/ index >= nbits
  <2>1. /\ ix_of(index) \in 0..(words - 1) /\ index = ix_of(index) * BITS_PER_WORD + mask_of(index)
        /\ ix_of(x) \in 0..(words - 1) /\ x = ix_of(x) * BITS_PER_WORD + mask_of(x)
    BY <1>1, <1>2, WordsAndNumbers
  <2>2. v'[ix_of(index)] = IF ix_of(index) = ix_of(x) THEN v[ix_of(x)] \ {mask_of(x)} ELSE v[ix_of(index)]
    BY <1>3, <2>1 DEF BitmapInv
  <2>3. mask_of(index) \in v'[ix_of(index)] <=> mask_of(index) \in v[ix_of(index)] /\ index # x
    BY <2>1, <2>2
  <2>4. bitmap_isset(index) <=> index \in given \/ index >= nbits
    BY DEF BitmapInv
  <2>5. ~(x >= nbits)
    BY <1>1
  <2> QED BY <1>3, <2>3, <2>4, <2>5 DEF bitmap_isset, ix_of, mask_of
<1>6. given' \subseteq 0..(nbits - 1)
  BY <1>3 DEF BitmapInv
<1> QED BY <1>1, <1>4, <1>5, <1>6 DEF BitmapInv

\* bitmap_create: the bits of the last word beyond the last number are set.
LEMMA BitmapInitInv == BitmapInit => BitmapInv
<1> SUFFICES ASSUME BitmapInit PROVE BitmapInv
  OBVIOUS
<1>1. nbits \in 1..MaxBits /\ given = {}
  BY DEF BitmapInit
<1>2. /\ BITS_PER_WORD \in Nat /\ BITS_PER_WORD > 0 /\ nbits \in Nat /\ words \in Nat /\ words > 0
      /\ words * BITS_PER_WORD \in Nat /\ (words - 1) * BITS_PER_WORD \in Nat
      /\ words * BITS_PER_WORD = (words - 1) * BITS_PER_WORD + BITS_PER_WORD
      /\ nbits <= words * BITS_PER_WORD /\ (words - 1) * BITS_PER_WORD < nbits
  BY <1>1, WordsCover
<1>3. overbits(nbits) = nbits - (words - 1) * BITS_PER_WORD
  BY DEF overbits, words
<1>4. v \in [0..(words - 1) -> SUBSET WORD_ALLBITS]
  BY DEF BitmapInit
<1>5. ASSUME NEW index \in 0..(words * BITS_PER_WORD - 1)
      PROVE  bitmap_isset(index) <=> index >= nbits
  <2>1. PICK q \in 0..(words - 1) : q = ix_of(index)
    BY <1>1, WordsAndNumbers
  <2>2. PICK m \in 0..(BITS_PER_WORD - 1) : m = mask_of(index)
    BY <1>1, WordsAndNumbers DEF WORD_ALLBITS
  <2>3. index = q * BITS_PER_WORD + m
    BY <1>1, <2>1, <2>2, WordsAndNumbers
  <2>4. CASE q = words - 1 /\ nbits \div BITS_PER_WORD < words
    <3>1. v[q] = {j \in WORD_ALLBITS : j >= nbits - (words - 1) * BITS_PER_WORD}
      BY <1>3, <2>4 DEF BitmapInit
    <3>2. m \in v[q] <=> m >= nbits - (words - 1) * BITS_PER_WORD
      BY <3>1 DEF WORD_ALLBITS
    <3>3. index = (words - 1) * BITS_PER_WORD + m
      BY <2>3, <2>4
    <3> QED BY <1>2, <2>1, <2>2, <3>2, <3>3 DEF bitmap_isset
  <2>5. CASE ~(q = words - 1 /\ nbits \div BITS_PER_WORD < words)
    <3>1. v[q] = {}
      BY <2>5 DEF BitmapInit
    <3>2. CASE q # words - 1
      <4>1. q + 1 \in Int /\ words - 1 \in Int /\ q + 1 <= words - 1 /\ q \in Int /\ q <= q
        BY <1>2, <3>2
      <4>2. (q + 1) * BITS_PER_WORD <= (words - 1) * BITS_PER_WORD
        BY <1>2, <4>1, ProductGrows
      <4>3. (q + 1) * BITS_PER_WORD = q * BITS_PER_WORD + BITS_PER_WORD /\ q * BITS_PER_WORD \in Int
        BY <1>2, <4>1, ProductGrows
      <4>4. index < nbits
        BY <1>2, <2>3, <4>2, <4>3
      <4> QED BY <1>2, <2>1, <2>2, <3>1, <4>4 DEF bitmap_isset
    <3>3. CASE ~(nbits \div BITS_PER_WORD < words)
      <4>1. PICK d \in Nat : d = nbits \div BITS_PER_WORD
        BY <1>2, WordAndOffset
      <4>2. words <= d
        BY <1>2, <3>3, <4>1
      <4>3. words * BITS_PER_WORD <= d * BITS_PER_WORD /\ d * BITS_PER_WORD \in Int
        BY <1>2, <4>2, ProductGrows
      <4>4. d * BITS_PER_WORD <= nbits
        <5>1. PICK e \in 0..(BITS_PER_WORD - 1) : e = nbits % BITS_PER_WORD
          BY <1>2, WordAndOffset
        <5>2. nbits = d * BITS_PER_WORD + e
          BY <1>2, <4>1, <5>1, WordAndOffset
        <5> QED BY <4>3, <5>2
      <4>5. index < nbits
        BY <1>2, <4>3, <4>4
      <4> QED BY <1>2, <2>1, <2>2, <3>1, <4>5 DEF bitmap_isset
    <3> QED BY <2>5, <3>2, <3>3
  <2> QED BY <2>4, <2>5
<1> QED BY <1>1, <1>4, <1>5 DEF BitmapInv

\* No step breaks the invariant.
LEMMA BitmapNextInv == BitmapInv /\ [BitmapNext]_bitmap_vars => BitmapInv'
<1> SUFFICES ASSUME BitmapInv, [BitmapNext]_bitmap_vars PROVE BitmapInv'
  OBVIOUS
<1>1. CASE bitmap_alloc
  <2>1. PICK ix \in DOMAIN v, offset \in WORD_ALLBITS :
           /\ offset \notin v[ix] /\ v' = [v EXCEPT ![ix] = @ \cup {offset}]
           /\ given' = given \cup {ix * BITS_PER_WORD + offset} /\ UNCHANGED nbits
    BY <1>1 DEF bitmap_alloc
  <2>2. ix \in 0..(words - 1)
    BY DEF BitmapInv
  <2> QED BY <2>1, <2>2, MarkInv
<1>2. ASSUME NEW index \in 0..(nbits - 1), bitmap_mark(index) PROVE BitmapInv'
  <2>1. nbits \in 1..MaxBits /\ index \in 0..(words * BITS_PER_WORD - 1)
    <3>1. nbits \in 1..MaxBits
      BY DEF BitmapInv
    <3> QED BY <3>1, WordsCover
  <2>2. PICK ix \in 0..(words - 1) : ix = ix_of(index)
    BY <2>1, WordsAndNumbers
  <2>3. PICK o \in WORD_ALLBITS : o = mask_of(index)
    BY <2>1, WordsAndNumbers
  <2>4. index = ix * BITS_PER_WORD + o
    BY <2>1, <2>2, <2>3, WordsAndNumbers
  <2>5. /\ o \notin v[ix] /\ v' = [v EXCEPT ![ix] = @ \cup {o}]
        /\ given' = given \cup {ix * BITS_PER_WORD + o} /\ UNCHANGED nbits
    BY <1>2, <2>2, <2>3, <2>4 DEF bitmap_mark, bitmap_isset
  <2> QED BY <2>5, MarkInv
<1>3. ASSUME NEW index \in given, bitmap_unmark(index) PROVE BitmapInv'
  BY <1>3, UnmarkInv
<1>4. CASE UNCHANGED bitmap_vars
  BY <1>4 DEF BitmapInv, bitmap_vars, words, DIVROUNDUP, bitmap_isset, ix_of, mask_of
<1> QED BY <1>1, <1>2, <1>3, <1>4 DEF BitmapNext

\* The invariant says what BitmapOK does; all words are full when all is given.
LEMMA BitmapInvOK == BitmapInv => BitmapOK
<1> SUFFICES ASSUME BitmapInv PROVE BitmapOK
  OBVIOUS
<1>1. nbits \in 1..MaxBits /\ nbits \in Nat
  BY BitmapSizes DEF BitmapInv
<1>2. words * BITS_PER_WORD \in Nat /\ nbits <= words * BITS_PER_WORD
  BY <1>1, WordsCover
<1>3. \A index \in 0..(nbits - 1) : bitmap_isset(index) <=> index \in given
  BY <1>1, <1>2 DEF BitmapInv
<1>4. \A index \in nbits..(words * BITS_PER_WORD - 1) : bitmap_isset(index)
  BY <1>1, <1>2 DEF BitmapInv
<1>5. ASSUME \A ix \in DOMAIN v : v[ix] = WORD_ALLBITS PROVE given = 0..(nbits - 1)
  <2>1. ASSUME NEW index \in 0..(nbits - 1) PROVE index \in given
    <3>1. index \in 0..(words * BITS_PER_WORD - 1)
      BY <1>1, <1>2
    <3>2. ix_of(index) \in DOMAIN v /\ mask_of(index) \in WORD_ALLBITS
      BY <1>1, <3>1, WordsAndNumbers DEF BitmapInv
    <3> QED BY <1>3, <1>5, <3>2 DEF bitmap_isset
  <2> QED BY <2>1 DEF BitmapInv
<1>6. ASSUME given = 0..(nbits - 1) PROVE \A ix \in DOMAIN v : v[ix] = WORD_ALLBITS
  <2>1. ASSUME NEW ix \in 0..(words - 1), NEW o \in WORD_ALLBITS PROVE o \in v[ix]
    <3>1. PICK x \in 0..(words * BITS_PER_WORD - 1) : ix_of(x) = ix /\ mask_of(x) = o
      BY <1>1, WordsAndNumbers
    <3>2. x \in given \/ x >= nbits
      BY <1>1, <1>2, <1>6
    <3> QED BY <3>1, <3>2 DEF BitmapInv, bitmap_isset
  <2> QED BY <2>1 DEF BitmapInv
<1> QED BY <1>3, <1>4, <1>5, <1>6 DEF BitmapOK, BitmapInv

\* A bit is 1 exactly for a number given out or beyond the end, in every state.
THEOREM BitmapInvariant == BitmapBehaviour => []BitmapInv
  BY BitmapInitInv, BitmapNextInv, PTL DEF BitmapBehaviour

\* BitmapOK for every size of bitmap and of word: bitmap_alloc gives a number that
\* is below the end and that nobody has, as long as there is one.
THEOREM NumbersGivenOnce == BitmapBehaviour => []BitmapOK
  BY BitmapInvariant, BitmapInvOK, PTL

----------------------------------------------------------------------------
(* Loops that grow a size until it is large enough *)

\* What the loop that begins with m can reach.
Reach(D, step, m) ==
    {k \in D : \A C \in SUBSET D : m \in C /\ (\A x \in C : step[x] \in C) => k \in C}

\* It reaches m, and what it can reach from the next size.
LEMMA ReachStep ==
    ASSUME NEW D \in SUBSET Nat, NEW step \in [D -> D], NEW m \in D
    PROVE  /\ Reach(D, step, m) = {m} \cup Reach(D, step, step[m])
           /\ \A k \in Reach(D, step, m) : step[k] \in Reach(D, step, m)
<1>1. \A x \in D : x \in Reach(D, step, x) /\ \A k \in Reach(D, step, x) : step[k] \in Reach(D, step, x)
  BY DEF Reach
<1>2. {m} \cup Reach(D, step, step[m]) \subseteq Reach(D, step, m)
  BY DEF Reach
<1>3. ASSUME NEW k \in Reach(D, step, m) PROVE k \in {m} \cup Reach(D, step, step[m])
  <2>1. PICK C : C = {m} \cup Reach(D, step, step[m])
    OBVIOUS
  <2>2. step[m] \in D
    OBVIOUS
  <2>3. C \in SUBSET D /\ m \in C /\ \A x \in C : step[x] \in C
    BY <1>1, <2>1, <2>2 DEF Reach
  <2>4. k \in C
    BY <2>3 DEF Reach
  <2> QED BY <2>1, <2>4
<1> QED BY <1>1, <1>2, <1>3

\* Nothing that it reaches is smaller.
LEMMA ReachLarger ==
    ASSUME NEW D \in SUBSET Nat, NEW step \in [D -> D], \A x \in D : step[x] > x,
           NEW m \in D, NEW k \in Reach(D, step, m)
    PROVE  k \in D /\ k >= m
<1>1. PICK C : C = {x \in D : x >= m}
  OBVIOUS
<1>2. C \in SUBSET D /\ m \in C
  BY <1>1
<1>3. \A x \in C : step[x] \in C
  <2>1. TAKE x \in C
  <2>2. x \in Nat /\ m \in Nat /\ x \in D /\ x >= m /\ step[x] \in D /\ step[x] \in Nat /\ step[x] > x
    BY <1>1
  <2> QED BY <1>1, <2>2
<1>4. k \in D /\ k \in C
  BY <1>2, <1>3 DEF Reach
<1> QED BY <1>1, <1>4

\* It reaches something large enough.
LEMMA ReachEnough ==
    ASSUME NEW D \in SUBSET Nat, NEW step \in [D -> D], \A x \in D : step[x] > x,
           NEW m \in D, NEW n \in Nat
    PROVE  \E k \in Reach(D, step, m) : k >= n
<1>1. SUFFICES ASSUME \A k \in Reach(D, step, m) : k < n PROVE FALSE
  <2>1. \A k \in Reach(D, step, m) : k \in Nat
    BY DEF Reach
  <2> QED BY <2>1
<1>2. PICK S : S = {d \in Nat : \E k \in Reach(D, step, m) : d = n - k}
  OBVIOUS
<1>3. m \in Reach(D, step, m) /\ \A k \in Reach(D, step, m) : k \in D /\ k \in Nat
  BY ReachStep DEF Reach
<1>4. S \in SUBSET Nat /\ n - m \in S
  BY <1>1, <1>2, <1>3
<1>5. PICK d \in S : \A e \in S : d <= e
  BY <1>4, LeastNatural
<1>6. PICK k \in Reach(D, step, m) : d = n - k
  BY <1>2
<1>7. /\ step[k] \in Reach(D, step, m) /\ step[k] > k /\ step[k] \in Nat /\ k \in Nat /\ step[k] < n
  BY <1>1, <1>3, ReachStep
<1>8. n - step[k] \in S
  BY <1>2, <1>7
<1> QED BY <1>5, <1>6, <1>7, <1>8

\* What it ends with: the first size that is large enough.
EndOf(D, step, n, m) ==
    CHOOSE k \in Reach(D, step, m) : k >= n /\ \A j \in Reach(D, step, m) : j >= n => k <= j

LEMMA EndIs ==
    ASSUME NEW D \in SUBSET Nat, NEW step \in [D -> D], \A x \in D : step[x] > x,
           NEW n \in Nat, NEW m \in D
    PROVE  EndOf(D, step, n, m) = IF n <= m THEN m ELSE EndOf(D, step, n, step[m])
<1>1. PICK S : S = {k \in Reach(D, step, m) : k >= n}
  OBVIOUS
<1>2. S \in SUBSET Nat /\ S # {}
  <2>1. \A k \in Reach(D, step, m) : k \in Nat
    BY DEF Reach
  <2>2. \E k \in Reach(D, step, m) : k >= n
    BY ReachEnough
  <2> QED BY <1>1, <2>1, <2>2
<1>3. \E k \in S : \A j \in S : k <= j
  BY <1>2, LeastNatural
<1>4. \E k \in Reach(D, step, m) : k >= n /\ \A j \in Reach(D, step, m) : j >= n => k <= j
  BY <1>1, <1>3
<1>5. PICK end : end = EndOf(D, step, n, m)
  OBVIOUS
<1>6. /\ end \in Reach(D, step, m) /\ end >= n
      /\ \A j \in Reach(D, step, m) : j >= n => end <= j
  BY <1>4, <1>5 DEF EndOf
<1>7. CASE n <= m
  <2>1. m \in Reach(D, step, m) /\ m \in Nat /\ end \in Nat /\ end >= m
    <3>1. m \in Reach(D, step, m)
      BY ReachStep
    <3>2. end \in D /\ end >= m
      BY <1>6, ReachLarger
    <3> QED BY <3>1, <3>2
  <2>2. end <= m
    BY <1>6, <1>7, <2>1
  <2>3. end = m
    BY <2>1, <2>2
  <2> QED BY <1>5, <1>7, <2>3
<1>8. CASE ~(n <= m)
  <2>1. \A k : k \in Reach(D, step, m) /\ k >= n <=> k \in Reach(D, step, step[m]) /\ k >= n
    BY <1>8, ReachStep
  <2>2. EndOf(D, step, n, step[m]) = EndOf(D, step, n, m)
    <3>1. \A k : (k \in Reach(D, step, m) /\ (k >= n /\ \A j \in Reach(D, step, m) : j >= n => k <= j))
              <=> (k \in Reach(D, step, step[m])
                     /\ (k >= n /\ \A j \in Reach(D, step, step[m]) : j >= n => k <= j))
      BY <2>1
    <3> QED BY <3>1, Zenon DEF EndOf
  <2> QED BY <1>8, <2>2
<1> QED BY <1>7, <1>8

\* So the recursive function that stands for the loop exists ...
LEMMA GrowthExists ==
    ASSUME NEW D \in SUBSET Nat, NEW step \in [D -> D], \A x \in D : step[x] > x, NEW n \in Nat
    PROVE  \E f : f = [m \in D |-> IF n <= m THEN m ELSE f[step[m]]]
<1>1. PICK f : f = [m \in D |-> EndOf(D, step, n, m)]
  OBVIOUS
<1>2. \A m \in D : EndOf(D, step, n, m) = IF n <= m THEN m ELSE f[step[m]]
  BY <1>1, EndIs
<1>3. f = [m \in D |-> IF n <= m THEN m ELSE f[step[m]]]
  BY <1>1, <1>2
<1> QED BY <1>3

\* ... and what it computes is large enough.
LEMMA GrowthEnough ==
    ASSUME NEW D \in SUBSET Nat, NEW step \in [D -> D], \A x \in D : step[x] > x, NEW n \in Nat,
           NEW f, f = [m \in D |-> IF n <= m THEN m ELSE f[step[m]]]
    PROVE  \A m \in D : f[m] \in D /\ f[m] >= n /\ f[m] >= m
<1> DEFINE Good(m) == f[m] \in D /\ f[m] >= n /\ f[m] >= m
<1>1. SUFFICES ASSUME NEW m \in D, ~Good(m) PROVE FALSE
  OBVIOUS
<1>2. \A x \in D : f[x] = IF n <= x THEN x ELSE f[step[x]]
  OBVIOUS
<1>3. \A x \in D : ~Good(x) => x < n /\ ~Good(step[x]) /\ step[x] \in D /\ step[x] > x
  <2>1. TAKE x \in D
  <2>2. x \in Nat /\ step[x] \in D /\ step[x] \in Nat /\ step[x] > x
    OBVIOUS
  <2>3. CASE n <= x
    <3>1. f[x] = x
      BY <1>2, <2>3
    <3> QED BY <2>2, <2>3, <3>1
  <2>4. CASE x < n
    <3>1. f[x] = f[step[x]]
      BY <1>2, <2>2, <2>4
    <3>2. Good(step[x]) => Good(x)
      <4>1. SUFFICES ASSUME Good(step[x]) PROVE Good(x)
        OBVIOUS
      <4>2. f[x] \in D /\ f[x] \in Nat /\ f[x] >= n /\ f[x] >= step[x]
        BY <3>1, <4>1
      <4> QED BY <2>2, <4>2
    <3> QED BY <2>2, <2>4, <3>2
  <2> QED BY <2>2, <2>3, <2>4
<1>4. PICK S : S = {d \in Nat : \E x \in D : ~Good(x) /\ d = n - x}
  OBVIOUS
<1>5. n - m \in S /\ S \in SUBSET Nat
  <2>1. m \in Nat /\ m < n
    BY <1>1, <1>3
  <2> QED BY <1>1, <1>4, <2>1
<1>6. PICK d \in S : \A e \in S : d <= e
  BY <1>5, LeastNatural
<1>7. PICK x \in D : ~Good(x) /\ d = n - x
  BY <1>4
<1>8. ~Good(step[x]) /\ step[x] \in D /\ step[x] > x /\ step[x] < n
  BY <1>3, <1>7
<1>9. n - step[x] \in S
  <2>1. step[x] \in Nat
    BY <1>8
  <2> QED BY <1>4, <1>8, <2>1
<1>10. x \in Nat /\ step[x] \in Nat
  BY <1>7, <1>8
<1> QED BY <1>6, <1>7, <1>8, <1>9, <1>10

\* q_grow's loop: it doubles.
LEMMA Doubling ==
    ASSUME NEW n \in Nat, NEW m \in Nat \ {0}
    PROVE  LET grown[k \in Nat \ {0}] == IF n <= k THEN k ELSE grown[k * 2]
           IN grown[m] \in Nat \ {0} /\ grown[m] >= n /\ grown[m] >= m
<1> DEFINE grown[k \in Nat \ {0}] == IF n <= k THEN k ELSE grown[k * 2]
<1>1. PICK D : D = Nat \ {0}
  OBVIOUS
<1>2. PICK step : step = [k \in D |-> k * 2]
  OBVIOUS
<1>3. D \in SUBSET Nat /\ step \in [D -> D] /\ (\A x \in D : step[x] > x) /\ m \in D
  BY <1>1, <1>2
<1>4. PICK f : f = [k \in D |-> IF n <= k THEN k ELSE f[step[k]]]
  BY <1>3, GrowthExists
<1>5. f = [k \in Nat \ {0} |-> IF n <= k THEN k ELSE f[k * 2]]
  BY <1>1, <1>2, <1>4
<1>6. grown = [k \in Nat \ {0} |-> IF n <= k THEN k ELSE grown[k * 2]]
  BY <1>5, Zenon
<1>7. grown = [k \in D |-> IF n <= k THEN k ELSE grown[step[k]]]
  BY <1>1, <1>2, <1>6
<1> HIDE DEF grown
<1>8. grown[m] \in D /\ grown[m] >= n /\ grown[m] >= m
  BY <1>3, <1>7, GrowthEnough
<1> QED BY <1>1, <1>8 DEF grown

\* array_preallocate's loop.
LEMMA ArrayGrows ==
    ASSUME NEW m \in Nat, NEW n \in Nat
    PROVE  GrowArray(m, n) \in Nat /\ GrowArray(m, n) >= n /\ GrowArray(m, n) >= m
<1> DEFINE grown[k \in Nat] == IF n <= k THEN k ELSE grown[(k + 1) * 2]
<1>1. PICK step : step = [k \in Nat |-> (k + 1) * 2]
  OBVIOUS
<1>2. Nat \in SUBSET Nat /\ step \in [Nat -> Nat] /\ \A x \in Nat : step[x] > x
  BY <1>1
<1>3. PICK f : f = [k \in Nat |-> IF n <= k THEN k ELSE f[step[k]]]
  BY <1>2, GrowthExists
<1>4. f = [k \in Nat |-> IF n <= k THEN k ELSE f[(k + 1) * 2]]
  BY <1>1, <1>3
<1>5. grown = [k \in Nat |-> IF n <= k THEN k ELSE grown[(k + 1) * 2]]
  BY <1>4, Zenon
<1>6. grown = [k \in Nat |-> IF n <= k THEN k ELSE grown[step[k]]]
  BY <1>1, <1>5
<1> HIDE DEF grown
<1>7. grown[m] \in Nat /\ grown[m] >= n /\ grown[m] >= m
  BY <1>2, <1>6, GrowthEnough
<1> QED BY <1>7 DEF grown, GrowArray

LEMMA QueueGrows ==
    ASSUME NEW m \in Nat \ {0}, NEW n \in Nat
    PROVE  GrowQueue(m, n) \in Nat \ {0} /\ GrowQueue(m, n) >= n /\ GrowQueue(m, n) >= m
  BY Doubling DEF GrowQueue

----------------------------------------------------------------------------
(* The memory behind the thread lists *)

SpaceTypes ==
    /\ numthreads \in Nat \ {0} /\ running \in {"boot", "old", "none"}
    /\ queue \in Seq({"new", "old", "boot"}) /\ q_size \in Nat \ {0}
    /\ nsleep \in Nat /\ sleep_max \in Nat /\ nzomb \in Nat /\ zomb_max \in Nat
    /\ bootsleeps \in BOOLEAN

\* The threads are where they are counted, the boot thread among them, and with more
\* than it there is space for all of them to sleep.
AllCounted ==
    Ok => /\ numthreads = Len(queue) + nsleep + (IF running = "none" THEN 0 ELSE 1)
          /\ running = "boot" \/ "boot" \in ToSet(queue) \/ (bootsleeps /\ nsleep > 0)
          /\ numthreads <= sleep_max \/ numthreads = 1

ListsFit == /\ "sleepers" \in failed => sleep_max = 0 /\ numthreads = 1
            /\ Len(queue) < q_size /\ nsleep <= sleep_max /\ nzomb <= zomb_max

SpaceInv == SpaceTypes /\ AllCounted /\ ListsFit

LEMMA SpaceInitInv ==
    ASSUME SpaceInit
    PROVE  SpaceInv
<1>1. << >> \in Seq({"new", "old", "boot"}) /\ Len(<< >>) = 0
  OBVIOUS
<1>2. QInit \in Nat \ {0}
  BY SpaceAssumption
<1>3. /\ numthreads = 1 /\ running = "boot" /\ queue = << >> /\ q_size = QInit /\ nsleep = 0
      /\ sleep_max = 0 /\ bootsleeps = FALSE /\ nzomb = 0 /\ zomb_max = 0 /\ failed = {}
  BY DEF SpaceInit
<1>4. SpaceTypes /\ ListsFit
  <2>1. queue \in Seq({"new", "old", "boot"}) /\ Len(queue) = 0
    BY <1>1, <1>3
  <2>2. SpaceTypes
    <3>1. bootsleeps \in BOOLEAN /\ running \in {"boot", "old", "none"}
      BY <1>3
    <3>2. numthreads \in Nat \ {0} /\ nsleep \in Nat /\ sleep_max \in Nat /\ nzomb \in Nat /\ zomb_max \in Nat
      BY <1>3
    <3> QED BY <1>2, <1>3, <2>1, <3>1, <3>2 DEF SpaceTypes
  <2>3. ListsFit
    BY <1>2, <1>3, <2>1 DEF ListsFit
  <2> QED BY <2>2, <2>3
<1>5. AllCounted
  BY <1>1, <1>3 DEF AllCounted
<1> QED BY <1>4, <1>5 DEF SpaceInv

\* The run queue with one thread more.
LEMMA OneMoreReady ==
    ASSUME NEW q \in Seq({"new", "old", "boot"}), NEW kind \in {"new", "old", "boot"}
    PROVE  /\ Append(q, kind) \in Seq({"new", "old", "boot"}) /\ Len(q) \in Nat
           /\ Len(Append(q, kind)) = Len(q) + 1
           /\ ToSet(Append(q, kind)) = ToSet(q) \cup {kind}
<1>1. ToSet(Append(q, kind)) = ToSet(q) \cup {kind}
  BY AppendSet
<1> QED BY <1>1

\* make_runnable, in a step in which everything is well before.
LEMMA MakeRunnable ==
    ASSUME SpaceTypes, ListsFit, Ok, NEW kind \in {"old", "boot"}, make_runnable(queue, kind)
    PROVE  /\ queue' \in Seq({"new", "old", "boot"}) /\ q_size' \in Nat \ {0} /\ Len(queue') < q_size'
           /\ "sleepers" \notin failed'
           /\ Ok' => /\ Len(queue') = Len(queue) + 1 /\ ToSet(queue') = ToSet(queue) \cup {kind}
<1>1. /\ queue \in Seq({"new", "old", "boot"}) /\ q_size \in Nat \ {0} /\ Len(queue) < q_size
      /\ Len(queue) \in Nat /\ failed = {}
  BY DEF SpaceTypes, ListsFit, Ok
<1>2. PICK q : q = Append(queue, kind)
  OBVIOUS
<1>3. /\ q \in Seq({"new", "old", "boot"}) /\ Len(q) = Len(queue) + 1
      /\ ToSet(q) = ToSet(queue) \cup {kind}
  BY <1>1, <1>2, OneMoreReady
<1>4. CASE ~q_full(Len(queue)) /\ queue' = q /\ UNCHANGED <<q_size, failed>>
  BY <1>1, <1>3, <1>4 DEF q_full, Ok
<1>5. CASE queue' = q /\ q_size' = GrowQueue(q_size, q_size + 1) /\ failed' = failed
  <2>1. q_size' \in Nat \ {0} /\ q_size' >= q_size + 1
    BY <1>1, <1>5, QueueGrows
  <2> QED BY <1>1, <1>3, <1>5, <2>1 DEF Ok
<1>6. CASE failed' = failed \cup {"runqueue"} /\ UNCHANGED <<queue, q_size>>
  BY <1>1, <1>6 DEF Ok
<1> QED BY <1>2, <1>4, <1>5, <1>6 DEF make_runnable

LEMMA SpaceNextInv ==
    ASSUME SpaceInv, [SpaceNext]_space_vars
    PROVE  SpaceInv'
<1>1. SpaceTypes /\ AllCounted /\ ListsFit /\ Len(queue) \in Nat
  BY DEF SpaceInv, SpaceTypes
<1>2. CASE thread_fork
  <2>1. /\ Ok /\ running # "none" /\ sleep_max' = GrowArray(sleep_max, numthreads + 1)
        /\ zomb_max' = GrowArray(zomb_max, numthreads + 1) /\ q_size' = GrowQueue(q_size, numthreads + 1)
        /\ queue' = Append(queue, "new") /\ numthreads' = numthreads + 1
        /\ UNCHANGED <<running, nsleep, bootsleeps, nzomb, failed>>
    BY <1>2 DEF thread_fork, array_preallocate, scheduler_preallocate
  <2>2. /\ sleep_max' \in Nat /\ sleep_max' >= numthreads + 1 /\ sleep_max' >= sleep_max
        /\ zomb_max' \in Nat /\ zomb_max' >= zomb_max
        /\ q_size' \in Nat \ {0} /\ q_size' >= numthreads + 1
    BY <1>1, <2>1, ArrayGrows, QueueGrows DEF SpaceTypes
  <2>3. /\ queue' \in Seq({"new", "old", "boot"}) /\ Len(queue') = Len(queue) + 1
        /\ ToSet(queue') = ToSet(queue) \cup {"new"}
    BY <1>1, <2>1, OneMoreReady DEF SpaceTypes
  <2>4. SpaceTypes'
    BY <1>1, <2>1, <2>2, <2>3 DEF SpaceTypes
  <2>5. AllCounted'
    BY <1>1, <2>1, <2>2, <2>3 DEF SpaceTypes, AllCounted, Ok
  <2>6. ListsFit'
    BY <1>1, <2>1, <2>2, <2>3 DEF SpaceTypes, AllCounted, ListsFit, Ok
  <2> QED BY <2>4, <2>5, <2>6 DEF SpaceInv
<1>3. CASE thread_yield
  <2>1. /\ Ok /\ running \in {"old", "boot"} /\ running' = "none" /\ make_runnable(queue, running)
        /\ UNCHANGED <<numthreads, nsleep, sleep_max, bootsleeps, nzomb, zomb_max>>
    BY <1>1, <1>3 DEF thread_yield, SpaceTypes
  <2>2. /\ queue' \in Seq({"new", "old", "boot"}) /\ q_size' \in Nat \ {0} /\ Len(queue') < q_size'
        /\ "sleepers" \notin failed'
        /\ Ok' => /\ Len(queue') = Len(queue) + 1 /\ ToSet(queue') = ToSet(queue) \cup {running}
    BY <1>1, <2>1, MakeRunnable
  <2>3. SpaceTypes' /\ ListsFit'
    BY <1>1, <2>1, <2>2 DEF SpaceTypes, ListsFit
  <2>4. AllCounted'
    BY <1>1, <2>1, <2>2 DEF SpaceTypes, AllCounted
  <2> QED BY <2>3, <2>4 DEF SpaceInv
<1>4. CASE thread_sleep
  <2>1. /\ Ok /\ running \in {"old", "boot"} /\ running' = "none" /\ failed = {}
        /\ bootsleeps' = (bootsleeps \/ running = "boot")
        /\ UNCHANGED <<numthreads, queue, q_size, nzomb, zomb_max>>
    BY <1>1, <1>4 DEF thread_sleep, SpaceTypes, Ok
  <2>2. CASE nsleep' = nsleep + 1 /\ sleep_max' = GrowArray(sleep_max, nsleep + 1) /\ failed' = failed
    <3>1. sleep_max' \in Nat /\ sleep_max' >= nsleep + 1 /\ sleep_max' >= sleep_max
      BY <1>1, <2>2, ArrayGrows DEF SpaceTypes
    <3>2. SpaceTypes' /\ ListsFit'
      BY <1>1, <2>1, <2>2, <3>1 DEF SpaceTypes, ListsFit
    <3>3. numthreads' = Len(queue') + nsleep' + (IF running' = "none" THEN 0 ELSE 1)
      BY <1>1, <2>1, <2>2 DEF SpaceTypes, AllCounted
    <3>4. nsleep' > 0 /\ (numthreads' <= sleep_max' \/ numthreads' = 1)
      BY <1>1, <2>1, <2>2, <3>1 DEF SpaceTypes, AllCounted
    <3>5. "boot" \in ToSet(queue') \/ bootsleeps'
      BY <1>1, <2>1 DEF AllCounted
    <3>6. AllCounted'
      BY <3>3, <3>4, <3>5 DEF AllCounted
    <3> QED BY <3>2, <3>6 DEF SpaceInv
  <2>3. CASE ~CanAdd(nsleep, sleep_max) /\ failed' = failed \cup {"sleepers"} /\ UNCHANGED <<nsleep, sleep_max>>
    <3>1. ~Ok'
      BY <2>3 DEF Ok
    <3>2. sleep_max = 0 /\ numthreads = 1
      BY <1>1, <2>1, <2>3 DEF SpaceTypes, AllCounted, CanAdd
    <3>3. SpaceTypes' /\ ListsFit'
      BY <1>1, <2>1, <2>3, <3>2 DEF SpaceTypes, ListsFit
    <3> QED BY <3>1, <3>3 DEF SpaceInv, AllCounted
  <2> QED BY <1>4, <2>2, <2>3 DEF thread_sleep, Added, array_preallocate
<1>5. CASE thread_exit
  <2>1. /\ Ok /\ running = "old" /\ running' = "none" /\ failed = {} /\ numthreads' = numthreads - 1
        /\ UNCHANGED <<queue, q_size, nsleep, sleep_max, bootsleeps>>
    BY <1>5 DEF thread_exit, Ok
  <2>2. numthreads' \in Nat \ {0} /\ numthreads' <= sleep_max
    <3>1. "boot" \in ToSet(queue) => Len(queue) > 0
      <4>1. queue = << >> => ToSet(queue) = {}
        BY EmptySet
      <4> QED BY <1>1, <4>1 DEF SpaceTypes
    <3>2. numthreads > 1
      BY <1>1, <2>1, <3>1 DEF SpaceTypes, AllCounted
    <3> QED BY <1>1, <2>1, <3>2 DEF SpaceTypes, AllCounted
  <2>3. CASE nzomb' = nzomb + 1 /\ zomb_max' = GrowArray(zomb_max, nzomb + 1) /\ failed' = failed
    <3>1. zomb_max' \in Nat /\ zomb_max' >= nzomb + 1
      BY <1>1, <2>3, ArrayGrows DEF SpaceTypes
    <3>2. SpaceTypes' /\ ListsFit'
      BY <1>1, <2>1, <2>2, <2>3, <3>1 DEF SpaceTypes, ListsFit
    <3>3. AllCounted'
      BY <1>1, <2>1, <2>2, <2>3 DEF SpaceTypes, AllCounted, Ok
    <3> QED BY <3>2, <3>3 DEF SpaceInv
  <2>4. CASE failed' = failed \cup {"zombies"} /\ UNCHANGED <<nzomb, zomb_max>>
    <3>1. ~Ok'
      BY <2>4 DEF Ok
    <3>2. SpaceTypes' /\ ListsFit'
      BY <1>1, <2>1, <2>2, <2>4 DEF SpaceTypes, ListsFit
    <3> QED BY <3>1, <3>2 DEF SpaceInv, AllCounted
  <2> QED BY <1>5, <2>3, <2>4 DEF thread_exit, Added, array_preallocate
<1>6. CASE scheduler
  <2>1. /\ Ok /\ running = "none" /\ queue # << >> /\ queue' = Tail(queue)
        /\ running' = IF Head(queue) = "boot" THEN "boot" ELSE "old"
        /\ UNCHANGED <<numthreads, q_size, nsleep, sleep_max, bootsleeps, failed>>
    BY <1>6 DEF scheduler
  <2>2. nzomb' \in Nat /\ zomb_max' \in Nat /\ nzomb' <= zomb_max'
    <3>1. CASE UNCHANGED <<nzomb, zomb_max>>
      BY <1>1, <3>1 DEF SpaceTypes, ListsFit
    <3>2. CASE nzomb' = 0 /\ zomb_max' = array_setsize(zomb_max, 0)
      BY <1>1, <3>2 DEF SpaceTypes, array_setsize
    <3> QED BY <1>6, <3>1, <3>2 DEF scheduler
  <2>3. /\ queue' \in Seq({"new", "old", "boot"}) /\ Len(queue') = Len(queue) - 1
        /\ "boot" \in ToSet(queue) => Head(queue) = "boot" \/ "boot" \in ToSet(queue')
    <3>1. queue \in Seq({"new", "old", "boot"}) /\ queue' = Tail(queue) /\ queue # << >>
      BY <1>1, <2>1 DEF SpaceTypes
    <3>2. queue' \in Seq({"new", "old", "boot"}) /\ Len(queue') = Len(queue) - 1
      BY <3>1
    <3>3. ASSUME NEW i \in DOMAIN queue, i # 1 PROVE i - 1 \in DOMAIN queue' /\ queue'[i - 1] = queue[i]
      BY <3>1, <3>3
    <3>4. queue[1] = Head(queue)
      BY <3>1
    <3> QED BY <3>2, <3>3, <3>4 DEF ToSet
  <2>4. SpaceTypes' /\ ListsFit'
    BY <1>1, <2>1, <2>2, <2>3 DEF SpaceTypes, ListsFit
  <2>5. AllCounted'
    BY <1>1, <2>1, <2>3 DEF SpaceTypes, AllCounted, Ok
  <2> QED BY <2>4, <2>5 DEF SpaceInv
<1>7. CASE thread_wakeup
  <2>1. /\ Ok /\ nsleep > 0 /\ nsleep' = nsleep - 1
        /\ UNCHANGED <<numthreads, running, sleep_max, nzomb, zomb_max>>
    BY <1>7 DEF thread_wakeup
  <2>2. ASSUME NEW kind \in {"old", "boot"}, make_runnable(queue, kind), bootsleeps' \in BOOLEAN,
               \/ kind = "boot"
               \/ bootsleeps' = bootsleeps /\ nsleep > (IF bootsleeps THEN 1 ELSE 0)
        PROVE  SpaceInv'
    <3>1. /\ queue' \in Seq({"new", "old", "boot"}) /\ q_size' \in Nat \ {0} /\ Len(queue') < q_size'
          /\ "sleepers" \notin failed'
          /\ Ok' => /\ Len(queue') = Len(queue) + 1 /\ ToSet(queue') = ToSet(queue) \cup {kind}
      BY <1>1, <2>1, <2>2, MakeRunnable
    <3>2. SpaceTypes' /\ ListsFit'
      BY <1>1, <2>1, <2>2, <3>1 DEF SpaceTypes, ListsFit
    <3>3. AllCounted'
      BY <1>1, <2>1, <2>2, <3>1 DEF SpaceTypes, AllCounted
    <3> QED BY <3>2, <3>3 DEF SpaceInv
  <2>3. CASE bootsleeps' = FALSE /\ make_runnable(queue, "boot")
    BY <2>2, <2>3
  <2>4. CASE nsleep > (IF bootsleeps THEN 1 ELSE 0) /\ make_runnable(queue, "old") /\ bootsleeps' = bootsleeps
    BY <1>1, <2>2, <2>4 DEF SpaceTypes
  <2> QED BY <1>7, <2>3, <2>4 DEF thread_wakeup
<1>8. CASE UNCHANGED space_vars
  BY <1>1, <1>8 DEF space_vars, SpaceInv, SpaceTypes, AllCounted, ListsFit, Ok
<1> QED BY <1>2, <1>3, <1>4, <1>5, <1>6, <1>7, <1>8 DEF SpaceNext, Wait

\* The lists of the thread system, for any number of threads and any sizes to begin with.
THEOREM SpaceInvariant == SpaceBehaviour => []SpaceInv
<1>1. SpaceInit => SpaceInv
  BY SpaceInitInv
<1>2. SpaceInv /\ [SpaceNext]_space_vars => SpaceInv'
  BY SpaceNextInv
<1> QED BY <1>1, <1>2, PTL DEF SpaceBehaviour

\* mi_switch: "Because we preallocate sleepers[] during thread_fork, this should never fail":
\* it does not, except for the boot thread before it has forked.
THEOREM SleepHasRoom == SpaceBehaviour => []SleepersNeverFail
<1>1. SpaceInv => SleepersNeverFail
  BY DEF SpaceInv, AllCounted, ListsFit, SleepersNeverFail
<1> QED BY <1>1, SpaceInvariant, PTL

----------------------------------------------------------------------------
(* The ring of queue.c *)

\* An index that has been increased once is brought back into the vector.
LEMMA Wraps ==
    ASSUME NEW n \in Nat \ {0}, NEW x \in Nat, x < 2 * n
    PROVE  x % n = IF x < n THEN x ELSE x - n
  OBVIOUS

\* The elements of a ring, as Count and Contents give them.
CountOf(n, r, w) == (w - r + n) % n
ItemsOf(n, r, w, d) == [i \in 1..CountOf(n, r, w) |-> d[(r + i - 1) % n]]

LEMMA CountIs ==
    ASSUME NEW n \in Nat \ {0}, NEW r \in 0..(n - 1), NEW w \in 0..(n - 1)
    PROVE  /\ CountOf(n, r, w) = IF w >= r THEN w - r ELSE w - r + n
           /\ CountOf(n, r, w) \in 0..(n - 1)
<1>1. PICK x : x = w - r + n
  OBVIOUS
<1>2. x \in Nat /\ x < 2 * n
  BY <1>1
<1>3. x % n = IF x < n THEN x ELSE x - n
  BY <1>2, Wraps
<1>4. CountOf(n, r, w) = x % n
  BY <1>1 DEF CountOf
<1> QED BY <1>1, <1>2, <1>3, <1>4

\* The index of the i-th element.
LEMMA IndexIs ==
    ASSUME NEW n \in Nat \ {0}, NEW r \in 0..(n - 1), NEW i \in 1..n
    PROVE  /\ (r + i - 1) % n = IF r + i - 1 < n THEN r + i - 1 ELSE r + i - 1 - n
           /\ (r + i - 1) % n \in 0..(n - 1)
<1>1. PICK x : x = r + i - 1
  OBVIOUS
<1>2. x \in Nat /\ x < 2 * n
  BY <1>1
<1>3. x % n = IF x < n THEN x ELSE x - n
  BY <1>2, Wraps
<1>4. x % n \in 0..(n - 1)
  BY <1>2, <1>3
<1> QED BY <1>1, <1>3, <1>4

LEMMA NextIs ==
    ASSUME NEW n \in Nat \ {0}, NEW w \in 0..(n - 1)
    PROVE  /\ (w + 1) % n = IF w + 1 = n THEN 0 ELSE w + 1
           /\ (w + 1) % n \in 0..(n - 1)
<1>1. PICK x : x = w + 1
  OBVIOUS
<1>2. x \in Nat /\ x < 2 * n /\ x <= n
  BY <1>1
<1>3. x % n = IF x < n THEN x ELSE x - n
  BY <1>2, Wraps
<1>4. x % n = (IF x = n THEN 0 ELSE x) /\ x % n \in 0..(n - 1)
  BY <1>2, <1>3
<1> QED BY <1>1, <1>4

\* A ring whose elements are pointers.
RingIs(n, r, w, d) ==
    /\ n \in Nat \ {0} /\ r \in 0..(n - 1) /\ w \in 0..(n - 1)
    /\ d \in [0..(n - 1) -> Elem \cup {NULL}]
    /\ ItemsOf(n, r, w, d) \in Seq(Elem) /\ Len(ItemsOf(n, r, w, d)) = CountOf(n, r, w)

\* It is one when each slot between the indices holds a pointer.
LEMMA RingWritten ==
    ASSUME NEW n \in Nat \ {0}, NEW r \in 0..(n - 1), NEW w \in 0..(n - 1),
           NEW d \in [0..(n - 1) -> Elem \cup {NULL}],
           \A i \in 1..CountOf(n, r, w) : d[(r + i - 1) % n] \in Elem
    PROVE  RingIs(n, r, w, d)
<1>1. CountOf(n, r, w) \in Nat
  BY CountIs
<1>2. PICK c \in Nat : c = CountOf(n, r, w)
  BY <1>1
<1>3. PICK s : s = ItemsOf(n, r, w, d)
  OBVIOUS
<1>4. s \in [1..c -> Elem]
  BY <1>2, <1>3 DEF ItemsOf
<1>5. s \in Seq(Elem) /\ Len(s) = c
  BY <1>4
<1> QED BY <1>2, <1>3, <1>5 DEF RingIs

LEMMA RingItem ==
    ASSUME NEW n, NEW r, NEW w, NEW d, RingIs(n, r, w, d)
    PROVE  \A i \in 1..CountOf(n, r, w) : /\ ItemsOf(n, r, w, d)[i] = d[(r + i - 1) % n]
                                          /\ d[(r + i - 1) % n] \in Elem
<1>1. TAKE i \in 1..CountOf(n, r, w)
<1>2. ItemsOf(n, r, w, d)[i] = d[(r + i - 1) % n]
  BY DEF ItemsOf
<1>3. ItemsOf(n, r, w, d)[i] \in Elem
  BY DEF RingIs
<1> QED BY <1>2, <1>3

\* The new nextwrite z and vector e after storing p where a slot is free.
Stores(n, r, w, d, p, z, e) == z = (w + 1) % n /\ z # r /\ e = [d EXCEPT ![w] = p]

\* Storing at nextwrite appends.
LEMMA RingStore ==
    ASSUME NEW n, NEW r, NEW w, NEW d, RingIs(n, r, w, d), NEW p \in Elem,
           NEW z, NEW e, Stores(n, r, w, d, p, z, e)
    PROVE  /\ RingIs(n, r, z, e)
           /\ ItemsOf(n, r, z, e) = Append(ItemsOf(n, r, w, d), p)
<1>1. /\ n \in Nat \ {0} /\ r \in 0..(n - 1) /\ w \in 0..(n - 1)
      /\ d \in [0..(n - 1) -> Elem \cup {NULL}]
  BY DEF RingIs
<1>3. z \in 0..(n - 1) /\ z = (IF w + 1 = n THEN 0 ELSE w + 1) /\ z # r
  BY <1>1, NextIs DEF Stores
<1>4. PICK c : c = CountOf(n, r, w)
  OBVIOUS
<1>5. c \in 0..(n - 1) /\ c = IF w >= r THEN w - r ELSE w - r + n
  BY <1>1, <1>4, CountIs
<1>6. CountOf(n, r, z) = c + 1 /\ c + 1 <= n - 1
  <2>1. CountOf(n, r, z) = IF z >= r THEN z - r ELSE z - r + n
    BY <1>1, <1>3, CountIs
  <2> QED BY <1>1, <1>3, <1>5, <2>1
<1>8. e \in [0..(n - 1) -> Elem \cup {NULL}] /\ e[w] = p /\ \A k \in 0..(n - 1) : k # w => e[k] = d[k]
  BY <1>1 DEF Stores
<1>9. ASSUME NEW i \in 1..c PROVE e[(r + i - 1) % n] = d[(r + i - 1) % n] /\ d[(r + i - 1) % n] \in Elem
  <2>1. i \in 1..n
    BY <1>1, <1>5
  <2>2. /\ (r + i - 1) % n = (IF r + i - 1 < n THEN r + i - 1 ELSE r + i - 1 - n)
        /\ (r + i - 1) % n \in 0..(n - 1)
    BY <1>1, <2>1, IndexIs
  <2>3. (r + i - 1) % n # w
    BY <1>1, <1>5, <2>1, <2>2
  <2> QED BY <1>4, <1>8, <2>2, <2>3, RingItem
<1>10. (r + (c + 1) - 1) % n = w
  <2>1. c + 1 \in 1..n
    BY <1>1, <1>5
  <2>2. (r + (c + 1) - 1) % n = IF r + (c + 1) - 1 < n THEN r + (c + 1) - 1 ELSE r + (c + 1) - 1 - n
    BY <1>1, <2>1, IndexIs
  <2> QED BY <1>1, <1>5, <2>2
<1>11. \A i \in 1..(c + 1) : e[(r + i - 1) % n] = IF i = c + 1 THEN p ELSE d[(r + i - 1) % n]
  BY <1>5, <1>8, <1>9, <1>10
<1>12. \A i \in 1..CountOf(n, r, z) : e[(r + i - 1) % n] \in Elem
  BY <1>5, <1>6, <1>9, <1>11
<1>13. RingIs(n, r, z, e)
  BY <1>1, <1>3, <1>8, <1>12, RingWritten
<1>14. PICK s, q : s = ItemsOf(n, r, w, d) /\ q = ItemsOf(n, r, z, e)
  OBVIOUS
<1>15. s \in Seq(Elem) /\ Len(s) = c /\ q \in Seq(Elem) /\ Len(q) = c + 1
  BY <1>4, <1>6, <1>13, <1>14 DEF RingIs
<1>16. /\ \A i \in 1..c : q[i] = s[i]
       /\ q[c + 1] = p
  <2>1. \A i \in 1..c : s[i] = d[(r + i - 1) % n]
    BY <1>4, <1>14, RingItem
  <2>2. \A i \in 1..CountOf(n, r, z) : q[i] = e[(r + i - 1) % n]
    BY <1>13, <1>14, RingItem
  <2>3. \A i \in 1..(c + 1) : q[i] = e[(r + i - 1) % n]
    BY <1>6, <2>2
  <2>4. c + 1 \in 1..(c + 1) /\ \A i \in 1..c : i \in 1..(c + 1) /\ i # c + 1
    BY <1>5
  <2>5. q[c + 1] = p
    BY <1>11, <2>3, <2>4
  <2>6. ASSUME NEW i \in 1..c PROVE q[i] = s[i]
    <3>1. i \in 1..(c + 1) /\ i # c + 1
      BY <2>4
    <3>2. q[i] = d[(r + i - 1) % n]
      BY <1>11, <2>3, <3>1
    <3> QED BY <2>1, <3>2
  <2> QED BY <2>5, <2>6
<1>17. q = Append(s, p)
  BY <1>15, <1>16
<1> QED BY <1>13, <1>14, <1>17

\* Advancing nextread takes the first.
LEMMA RingTake ==
    ASSUME NEW n, NEW r, NEW w, NEW d, RingIs(n, r, w, d), w # r
    PROVE  /\ RingIs(n, (r + 1) % n, w, d) /\ ItemsOf(n, r, w, d) # << >>
           /\ d[r] = Head(ItemsOf(n, r, w, d))
           /\ ItemsOf(n, (r + 1) % n, w, d) = Tail(ItemsOf(n, r, w, d))
<1>1. /\ n \in Nat \ {0} /\ r \in 0..(n - 1) /\ w \in 0..(n - 1)
      /\ d \in [0..(n - 1) -> Elem \cup {NULL}]
  BY DEF RingIs
<1>2. PICK z : z = (r + 1) % n
  OBVIOUS
<1>3. z \in 0..(n - 1) /\ z = (IF r + 1 = n THEN 0 ELSE r + 1)
  BY <1>1, <1>2, NextIs
<1>4. PICK c : c = CountOf(n, r, w)
  OBVIOUS
<1>5. c \in 1..(n - 1) /\ c = IF w >= r THEN w - r ELSE w - r + n
  <2>1. c \in 0..(n - 1) /\ c = IF w >= r THEN w - r ELSE w - r + n
    BY <1>1, <1>4, CountIs
  <2>2. c # 0
    BY <1>1, <2>1
  <2> QED BY <1>1, <2>1, <2>2
<1>6. CountOf(n, z, w) = c - 1
  <2>1. CountOf(n, z, w) = IF w >= z THEN w - z ELSE w - z + n
    BY <1>1, <1>3, CountIs
  <2> QED BY <1>1, <1>3, <1>5, <2>1
<1>7. ASSUME NEW i \in 1..(c - 1) PROVE (z + i - 1) % n = (r + (i + 1) - 1) % n
  <2>1. i \in 1..n /\ i + 1 \in 1..n
    BY <1>1, <1>5
  <2>2. (z + i - 1) % n = IF z + i - 1 < n THEN z + i - 1 ELSE z + i - 1 - n
    BY <1>1, <1>3, <2>1, IndexIs
  <2>3. (r + (i + 1) - 1) % n = IF r + (i + 1) - 1 < n THEN r + (i + 1) - 1 ELSE r + (i + 1) - 1 - n
    BY <1>1, <2>1, IndexIs
  <2> QED BY <1>1, <1>3, <1>5, <2>1, <2>2, <2>3
<1>8. \A i \in 1..CountOf(n, z, w) : d[(z + i - 1) % n] \in Elem
  <2>1. SUFFICES ASSUME NEW i \in 1..(c - 1) PROVE d[(z + i - 1) % n] \in Elem
    BY <1>6
  <2>2. i + 1 \in 1..c
    BY <1>5
  <2> QED BY <1>4, <1>7, <2>2, RingItem
<1>9. RingIs(n, z, w, d)
  BY <1>1, <1>3, <1>8, RingWritten
<1>10. PICK s, q : s = ItemsOf(n, r, w, d) /\ q = ItemsOf(n, z, w, d)
  OBVIOUS
<1>11. s \in Seq(Elem) /\ Len(s) = c /\ q \in Seq(Elem) /\ Len(q) = c - 1
  BY <1>4, <1>6, <1>9, <1>10 DEF RingIs
<1>12. \A i \in 1..c : s[i] = d[(r + i - 1) % n]
  BY <1>4, <1>10, RingItem
<1>13. \A i \in 1..(c - 1) : q[i] = s[i + 1]
  <2>1. TAKE i \in 1..(c - 1)
  <2>2. q[i] = d[(z + i - 1) % n]
    BY <1>6, <1>9, <1>10, RingItem
  <2>3. i + 1 \in 1..c
    BY <1>5
  <2> QED BY <1>7, <1>12, <2>2, <2>3
<1>14. s # << >> /\ s[1] = d[r]
  <2>1. 1 \in 1..c /\ r + 1 - 1 = r /\ 1 \in 1..n
    BY <1>1, <1>5
  <2>2. (r + 1 - 1) % n = r
    BY <1>1, <2>1, IndexIs
  <2> QED BY <1>5, <1>11, <1>12, <2>1, <2>2
<1>15. Head(s) = d[r] /\ q = Tail(s)
  BY <1>5, <1>11, <1>13, <1>14
<1> QED BY <1>2, <1>9, <1>10, <1>14, <1>15

\* Copying the elements to the front of a larger vector keeps them.
LEMMA RingGrow ==
    ASSUME NEW n, NEW r, NEW w, NEW d, RingIs(n, r, w, d), NEW m \in Nat, m >= n,
           NEW e, e = [i \in 0..(m - 1) |-> IF i < CountOf(n, r, w) THEN ItemsOf(n, r, w, d)[i + 1] ELSE NULL]
    PROVE  /\ RingIs(m, 0, CountOf(n, r, w), e)
           /\ ItemsOf(m, 0, CountOf(n, r, w), e) = ItemsOf(n, r, w, d)
<1>1. n \in Nat \ {0} /\ r \in 0..(n - 1) /\ w \in 0..(n - 1)
  BY DEF RingIs
<1>2. PICK c : c = CountOf(n, r, w)
  OBVIOUS
<1>3. c \in 0..(n - 1) /\ m \in Nat \ {0} /\ c \in 0..(m - 1) /\ 0 \in 0..(m - 1)
  <2>1. c \in 0..(n - 1)
    BY <1>1, <1>2, CountIs
  <2> QED BY <1>1, <2>1
<1>4. CountOf(m, 0, c) = c
  BY <1>3, CountIs
<1>5. PICK s : s = ItemsOf(n, r, w, d)
  OBVIOUS
<1>6. s \in Seq(Elem) /\ Len(s) = c
  BY <1>2, <1>5 DEF RingIs
<1>7. e = [i \in 0..(m - 1) |-> IF i < c THEN s[i + 1] ELSE NULL]
  BY <1>2, <1>5
<1>8. e \in [0..(m - 1) -> Elem \cup {NULL}]
  <2>1. \A i \in 0..(m - 1) : i < c => s[i + 1] \in Elem
    BY <1>3, <1>6
  <2> QED BY <1>7, <2>1
<1>9. ASSUME NEW i \in 1..c PROVE e[(0 + i - 1) % m] = s[i] /\ s[i] \in Elem
  <2>1. i \in 1..m /\ i - 1 \in 0..(m - 1) /\ i - 1 < c /\ (i - 1) + 1 = i
    BY <1>3
  <2>2. (0 + i - 1) % m = i - 1
    BY <1>3, <2>1, IndexIs
  <2> QED BY <1>6, <1>7, <2>1, <2>2
<1>10. RingIs(m, 0, c, e)
  <2>1. \A i \in 1..CountOf(m, 0, c) : e[(0 + i - 1) % m] \in Elem
    BY <1>4, <1>9
  <2> QED BY <1>3, <1>8, <2>1, RingWritten
<1>11. PICK q : q = ItemsOf(m, 0, c, e)
  OBVIOUS
<1>12. q \in Seq(Elem) /\ Len(q) = c /\ \A i \in 1..c : q[i] = e[(0 + i - 1) % m]
  <2>1. q \in Seq(Elem) /\ Len(q) = c
    BY <1>4, <1>10, <1>11 DEF RingIs
  <2>2. \A i \in 1..CountOf(m, 0, c) : q[i] = e[(0 + i - 1) % m]
    BY <1>10, <1>11, RingItem
  <2> QED BY <1>4, <2>1, <2>2
<1>13. q = s
  <2>1. \A i \in 1..c : q[i] = s[i]
    BY <1>9, <1>12
  <2> QED BY <1>6, <1>12, <2>1
<1> QED BY <1>2, <1>5, <1>10, <1>11, <1>13

\* The ring between calls.
RingInv == RingIs(size, nextread, nextwrite, data)

LEMMA ContentsIs ==
    /\ Count = CountOf(size, nextread, nextwrite)
    /\ Contents = ItemsOf(size, nextread, nextwrite, data)
  BY DEF Count, Contents, CountOf, ItemsOf

LEMMA RingInitInv ==
    ASSUME RingInit PROVE RingInv /\ Contents = << >> /\ result = NULL
<1>1. size \in Nat \ {0} /\ nextread \in 0..(size - 1) /\ nextwrite \in 0..(size - 1)
      /\ nextread = 0 /\ nextwrite = 0
  BY SizesAreNat DEF RingInit
<1>2. data \in [0..(size - 1) -> Elem \cup {NULL}]
  BY DEF RingInit
<1>3. CountOf(size, nextread, nextwrite) = 0
  BY <1>1, CountIs
<1>4. \A i \in 1..CountOf(size, nextread, nextwrite) : data[(nextread + i - 1) % size] \in Elem
  BY <1>3
<1>5. RingInv
  BY <1>1, <1>2, <1>4, RingWritten DEF RingInv
<1>6. Contents \in Seq(Elem) /\ Len(Contents) = 0
  BY <1>3, <1>5, ContentsIs DEF RingInv, RingIs
<1>7. Contents = << >>
  BY <1>6
<1> QED BY <1>5, <1>7 DEF RingInit

\* What holds of the ring that a call leaves.
LEMMA RingBecomes ==
    ASSUME NEW q, Become(q), RingIs(q.size, q.nextread, q.nextwrite, q.data)
    PROVE  RingInv' /\ Contents' = ItemsOf(q.size, q.nextread, q.nextwrite, q.data)
<1>1. size' = q.size /\ nextread' = q.nextread /\ nextwrite' = q.nextwrite /\ data' = q.data
  BY DEF Become
<1>2. RingInv' /\ Contents' = ItemsOf(size', nextread', nextwrite', data')
  BY <1>1 DEF RingInv, Contents, Count, ItemsOf, CountOf
<1> QED BY <1>1, <1>2

LEMMA RingStays ==
    ASSUME RingInv, Unmoved PROVE RingInv' /\ Contents' = Contents
  BY DEF Unmoved, RingInv, Contents, Count

\* q_grow unrolls the ring at the front of the new vector.
LEMMA GrownRing ==
    ASSUME RingInv, NEW m \in Nat, m >= size
    PROVE  /\ RingIs(Grown(m).size, Grown(m).nextread, Grown(m).nextwrite, Grown(m).data)
           /\ ItemsOf(Grown(m).size, Grown(m).nextread, Grown(m).nextwrite, Grown(m).data) = Contents
           /\ Grown(m).size = m /\ Grown(m).nextread = 0 /\ Grown(m).nextwrite = Count
<1>1. PICK e : e = [i \in 0..(m - 1) |-> IF i < CountOf(size, nextread, nextwrite)
                                         THEN ItemsOf(size, nextread, nextwrite, data)[i + 1] ELSE NULL]
  OBVIOUS
<1>2. /\ Grown(m).size = m /\ Grown(m).nextread = 0 /\ Grown(m).nextwrite = Count
      /\ Grown(m).data = e
  BY <1>1, ContentsIs DEF Grown
<1>3. /\ RingIs(m, 0, CountOf(size, nextread, nextwrite), e)
      /\ ItemsOf(m, 0, CountOf(size, nextread, nextwrite), e) = ItemsOf(size, nextread, nextwrite, data)
  BY <1>1, RingGrow DEF RingInv
<1> QED BY <1>2, <1>3, ContentsIs

\* The step of q_addtail that a free slot allows, on any ring.
LEMMA StoredRing ==
    ASSUME NEW n, NEW r, NEW w, NEW d, RingIs(n, r, w, d), (w + 1) % n # r, NEW ptr \in Elem,
           Become(Stored([size |-> n, nextread |-> r, nextwrite |-> w, data |-> d], ptr))
    PROVE  RingInv' /\ Contents' = Append(ItemsOf(n, r, w, d), ptr)
<1>1. PICK q : q = Stored([size |-> n, nextread |-> r, nextwrite |-> w, data |-> d], ptr)
  OBVIOUS
<1>2. PICK z, e : z = (w + 1) % n /\ e = [d EXCEPT ![w] = ptr]
  OBVIOUS
<1>3. q.size = n /\ q.nextread = r /\ q.nextwrite = z /\ q.data = e
  BY <1>1, <1>2 DEF Stored
<1>4. RingIs(n, r, z, e) /\ ItemsOf(n, r, z, e) = Append(ItemsOf(n, r, w, d), ptr)
  <2>1. Stores(n, r, w, d, ptr, z, e)
    BY <1>2 DEF Stores
  <2> QED BY <2>1, RingStore
<1>5. /\ RingIs(q.size, q.nextread, q.nextwrite, q.data)
      /\ ItemsOf(q.size, q.nextread, q.nextwrite, q.data) = Append(ItemsOf(n, r, w, d), ptr)
  BY <1>3, <1>4
<1> QED BY <1>1, <1>5, RingBecomes

LEMMA NewSizeIs ==
    ASSUME NEW n \in Nat \ {0}, NEW target \in Nat
    PROVE  NewSize(n, target) \in Nat /\ NewSize(n, target) >= target /\ NewSize(n, target) >= n
  BY Doubling DEF NewSize

\* Each call keeps the ring, and is a step of the queue that queue.h describes.
LEMMA RingStep ==
    ASSUME RingInv, [RingNext]_ring_vars
    PROVE  RingInv' /\ [Queue!FifoNext]_Queue!fifoVars
<1> USE DEF Queue!FifoNext, Queue!fifoVars, Queue!Put, Queue!Take, Queue!Same
<1>0. size \in Nat \ {0} /\ nextread \in 0..(size - 1) /\ nextwrite \in 0..(size - 1)
  BY DEF RingInv, RingIs
<1>1. ASSUME NEW ptr \in Elem, q_addtail(ptr) PROVE RingInv' /\ Contents' = Append(Contents, ptr) /\ result' = "ok"
  BY <1>1, StoredRing, ContentsIs DEF q_addtail, Ring, RingInv
<1>2. ASSUME NEW ptr \in Elem, q_addtail_grow(ptr)
      PROVE  RingInv' /\ ((Contents' = Append(Contents, ptr) /\ result' = "ok")
                          \/ (Contents' = Contents /\ result' = "ENOMEM"))
  <2>1. CASE Become(Stored(Grown(NewSize(size, size + 1)), ptr)) /\ result' = "ok"
    <3>1. PICK m : m = NewSize(size, size + 1)
      OBVIOUS
    <3>2. m \in Nat /\ m >= size + 1 /\ m >= size
      BY <1>0, <3>1, NewSizeIs
    <3>3. PICK q : q = Grown(m)
      OBVIOUS
    <3>4. /\ RingIs(q.size, q.nextread, q.nextwrite, q.data)
          /\ ItemsOf(q.size, q.nextread, q.nextwrite, q.data) = Contents
          /\ q.size = m /\ q.nextread = 0 /\ q.nextwrite = Count
      BY <3>2, <3>3, GrownRing
    <3>5. q = [size |-> q.size, nextread |-> q.nextread, nextwrite |-> q.nextwrite, data |-> q.data]
      BY <3>3 DEF Grown
    <3>6. Count \in 0..(size - 1)
      BY <1>0, CountIs, ContentsIs
    <3>7. (q.nextwrite + 1) % q.size # q.nextread
      <4>1. Count \in 0..(m - 1) /\ m \in Nat \ {0} /\ Count + 1 # m
        BY <1>0, <3>2, <3>6
      <4>2. (Count + 1) % m = Count + 1
        BY <4>1, NextIs
      <4> QED BY <3>4, <3>6, <4>2
    <3>8. Become(Stored([size |-> q.size, nextread |-> q.nextread, nextwrite |-> q.nextwrite, data |-> q.data], ptr))
      BY <2>1, <3>1, <3>3, <3>5
    <3> QED BY <2>1, <3>4, <3>7, <3>8, StoredRing
  <2>2. CASE Unmoved /\ result' = "ENOMEM"
    BY <2>2, RingStays
  <2> QED BY <1>2, <2>1, <2>2 DEF q_addtail_grow
<1>3. ASSUME q_remhead PROVE RingInv' /\ Contents # << >> /\ result' = Head(Contents) /\ Contents' = Tail(Contents)
  <2>1. /\ RingIs(size, (nextread + 1) % size, nextwrite, data) /\ Contents # << >>
        /\ data[nextread] = Head(Contents)
        /\ ItemsOf(size, (nextread + 1) % size, nextwrite, data) = Tail(Contents)
    BY <1>3, RingTake, ContentsIs DEF q_remhead, q_empty, RingInv
  <2>2. /\ size' = size /\ nextwrite' = nextwrite /\ data' = data
        /\ nextread' = (nextread + 1) % size /\ result' = data[nextread]
    BY <1>3 DEF q_remhead
  <2>3. Contents' = ItemsOf(size', nextread', nextwrite', data')
    BY DEF Contents, Count, ItemsOf, CountOf
  <2> QED BY <2>1, <2>2, <2>3 DEF RingInv
<1>4. ASSUME NEW n \in 1..MaxSize, q_preallocate(n)
      PROVE  RingInv' /\ Contents' = Contents /\ result' \in {"ok", "ENOMEM"}
  <2>1. CASE n > size /\ Become(Grown(NewSize(size, n))) /\ result' = "ok"
    <3>1. PICK m : m = NewSize(size, n)
      OBVIOUS
    <3>2. m \in Nat /\ m >= size
      BY <1>0, <3>1, SizesAreNat, NewSizeIs
    <3> QED BY <2>1, <3>1, <3>2, GrownRing, RingBecomes
  <2>2. CASE Unmoved /\ result' \in {"ok", "ENOMEM"}
    BY <2>2, RingStays
  <2> QED BY <1>4, <2>1, <2>2 DEF q_preallocate
<1>5. ASSUME UNCHANGED ring_vars PROVE RingInv' /\ Contents' = Contents /\ result' = result
  BY <1>5, RingStays DEF ring_vars, Unmoved
<1> QED BY <1>1, <1>2, <1>3, <1>4, <1>5 DEF RingNext

LEMMA RingSafe ==
    ASSUME RingInv PROVE RingOK
  BY ContentsIs, RingItem DEF RingInv, RingIs, RingOK

\* queue.c is a first-in first-out queue: however the ring wraps, grows while it
\* is wrapped, or fails to grow, its calls are those of queue.h, and the indices
\* stay inside the vector.
THEOREM RingIsFifo == RingBehaviour => IsFifo
<1>1. RingInit => RingInv /\ Queue!FifoInit
  BY RingInitInv DEF Queue!FifoInit
<1>2. RingInv /\ [RingNext]_ring_vars => RingInv' /\ [Queue!FifoNext]_Queue!fifoVars
  BY RingStep
<1>3. RingInv => RingOK
  BY RingSafe
<1> QED BY <1>1, <1>2, <1>3, PTL DEF RingBehaviour, IsFifo, Queue!FifoSpec

----------------------------------------------------------------------------
(* The blocks of files (SfsFile), for any number of files, blocks, direct   *)
(* blocks and entries of an indirect block: the blocks of the files form a  *)
(* forest, a write changes what it says and nothing else, and truncating    *)
(* leaves what is before the new end alone.                                 *)

(* What a pointer is: a place that holds the number of a block.  The places *)
(* of a file are those of its inode, <<0, y>>, and the words <<x, y>> of    *)
(* its indirect blocks x.                                                   *)

Index0 == 0..(NDIRECT - 1) \cup {NDIRECT + 1, NDIRECT + 2, NDIRECT + 3}
Index == Index0 \cup Word
Place == {0} \cup Block

InodeRec == [direct : [0..(NDIRECT - 1) -> Nat], indirect : Nat,
             doubleindirect : Nat, tripleindirect : Nat, size : Nat, blocks : Nat]

At(d, i, x, y) == IF x # 0 THEN d[x][y]
                  ELSE IF y < NDIRECT THEN i.direct[y]
                  ELSE IF y = NDIRECT + 1 THEN i.indirect
                  ELSE IF y = NDIRECT + 2 THEN i.doubleindirect
                  ELSE i.tripleindirect

\* The places of a file that holds the blocks O, of heights h (0 is a data block,
\* 1 a block that leads to data blocks, and so on), and the height of what a place
\* leads to.
IsPlace(O, h, x, y) == IF x = 0 THEN y \in Index0
                       ELSE x \in O /\ h[x] > 0 /\ y \in Word
HeightAt(h, x, y) == IF x # 0 THEN h[x] - 1 ELSE IF y < NDIRECT THEN 0 ELSE y - NDIRECT

\* The blocks of a file form a tree: what is pointed to is held by the file, one
\* level down, and pointed to once.
Held(d, i, O, h) ==
    \A x \in Place, y \in Index :
       IsPlace(O, h, x, y) /\ At(d, i, x, y) # 0
          => At(d, i, x, y) \in O /\ h[At(d, i, x, y)] = HeightAt(h, x, y)
Once(d, i, O, h) ==
    \A x, x2 \in Place, y, y2 \in Index :
       /\ IsPlace(O, h, x, y) /\ IsPlace(O, h, x2, y2)
       /\ At(d, i, x, y) # 0 /\ At(d, i, x, y) = At(d, i, x2, y2)
       => x = x2 /\ y = y2
TreeTypes(d, i, O, h) ==
    /\ d \in [Block -> [Word -> Nat]] /\ i \in InodeRec
    /\ O \in SUBSET Block /\ h \in [Block -> 0..3]
    /\ Cardinality(O) <= i.blocks
Tree(d, i, O, h) == TreeTypes(d, i, O, h) /\ Held(d, i, O, h) /\ Once(d, i, O, h)

\* The inductive invariant: every file has a tree, of blocks that are marked in
\* use and that no other file has.
Forest(map, d, ino, own, h) ==
    /\ map \in SUBSET Block /\ d \in [Block -> [Word -> Nat]] /\ ino \in [File -> InodeRec]
    /\ own \in [File -> SUBSET Block] /\ h \in [File -> [Block -> 0..3]]
    /\ \A f \in File : own[f] \subseteq map /\ Tree(d, ino[f], own[f], h[f])
    /\ \A f, g \in File : f # g => own[f] \cap own[g] = {}
FileInv == \E own, h : Forest(freemap, disk, inode, own, h)

----------------------------------------------------------------------------
(* Trees under the changes that sfs_balloc and its callers make *)

\* Sizes and ranges of the places.
LEMMA PlaceFacts ==
    /\ NDIRECT \in Nat /\ NDIRECT > 0 /\ DBPERIDB \in Nat /\ DBPERIDB > 1 /\ NBlocks \in Nat
    /\ \A b \in Block : b \in Nat /\ b # 0 /\ b \in Place
    /\ Index0 \subseteq Index /\ Word \subseteq Index /\ Index \subseteq Nat /\ 0 \in Place
    /\ 0 \in Word /\ IsFiniteSet(Block)
    /\ Zeros \in [Word -> Nat] /\ \A j \in Word : Zeros[j] = 0
<1>1. NDIRECT \in Nat /\ NDIRECT > 0 /\ DBPERIDB \in Nat /\ DBPERIDB > 1 /\ NBlocks \in Nat
  BY SfsFileAssumption
<1>2. IsFiniteSet(1..NBlocks)
  BY <1>1, FS_Interval, 1 \in Int
<1> QED BY <1>1, <1>2 DEF Block, Word, Index, Index0, Place, Zeros

\* The blocks a place of a tree leads to are of the tree.
LEMMA HeldBlock ==
    ASSUME NEW d, NEW i, NEW O, NEW h, Tree(d, i, O, h),
           NEW x, NEW y, IsPlace(O, h, x, y), At(d, i, x, y) # 0
    PROVE  /\ At(d, i, x, y) \in O /\ At(d, i, x, y) \in Block
           /\ h[At(d, i, x, y)] = HeightAt(h, x, y)
<1>1. x \in Place /\ y \in Index
  BY PlaceFacts DEF IsPlace, Tree, TreeTypes, Place
<1> QED BY <1>1 DEF Tree, TreeTypes, Held

\* What is not in its blocks may change without a tree noticing; so may, of its
\* blocks, the data blocks.
LEMMA TreeOther ==
    ASSUME NEW d, NEW i, NEW O, NEW h, Tree(d, i, O, h),
           NEW e \in [Block -> [Word -> Nat]],
           \A b \in O : h[b] > 0 => e[b] = d[b]
    PROVE  Tree(e, i, O, h)
<1>1. \A x, y : IsPlace(O, h, x, y) => At(e, i, x, y) = At(d, i, x, y)
  BY DEF IsPlace, At
<1>2. Held(d, i, O, h) /\ Once(d, i, O, h) /\ TreeTypes(d, i, O, h)
  BY DEF Tree
<1>3. Held(e, i, O, h)
  BY <1>1, <1>2 DEF Held
<1>4. Once(e, i, O, h)
  BY <1>1, <1>2 DEF Once
<1>5. TreeTypes(e, i, O, h)
  BY <1>2 DEF TreeTypes
<1> QED BY <1>3, <1>4, <1>5 DEF Tree

\* The pointers of two inodes are the same.
SamePointers(i, j) ==
    /\ j.direct = i.direct /\ j.indirect = i.indirect
    /\ j.doubleindirect = i.doubleindirect /\ j.tripleindirect = i.tripleindirect

\* The size and the count of blocks are no places.
LEMMA TreeCounts ==
    ASSUME NEW d, NEW i, NEW O, NEW h, Tree(d, i, O, h),
           NEW j \in InodeRec, SamePointers(i, j), Cardinality(O) <= j.blocks
    PROVE  Tree(d, j, O, h)
<1>1. \A x, y : At(d, j, x, y) = At(d, i, x, y)
  BY DEF At, SamePointers
<1>2. Held(d, i, O, h) /\ Once(d, i, O, h) /\ TreeTypes(d, i, O, h)
  BY DEF Tree
<1>3. Held(d, j, O, h)
  BY <1>1, <1>2 DEF Held
<1>4. Once(d, j, O, h)
  BY <1>1, <1>2 DEF Once
<1>5. TreeTypes(d, j, O, h)
  BY <1>2 DEF TreeTypes
<1> QED BY <1>3, <1>4, <1>5 DEF Tree

\* A new block b, all zeros, of height t, counted in the inode.
Adding(d, i, O, h, t, b, e, j, k) ==
    /\ Tree(d, i, O, h) /\ t \in 0..3 /\ b \in Block /\ b \notin O
    /\ j \in InodeRec /\ SamePointers(i, j) /\ j.blocks = i.blocks + 1
    /\ e \in [Block -> [Word -> Nat]] /\ e[b] = Zeros
    /\ \A c \in Block : c # b => e[c] = d[c]
    /\ k \in [Block -> 0..3] /\ k[b] = t /\ \A c \in Block : c # b => k[c] = h[c]

\* Nothing points to it yet.
LEMMA NewBlock ==
    ASSUME NEW d, NEW i, NEW O, NEW h, NEW t, NEW b, NEW e, NEW j, NEW k,
           Adding(d, i, O, h, t, b, e, j, k)
    PROVE  /\ Tree(e, j, O \cup {b}, k)
           /\ \A x, y : IsPlace(O \cup {b}, k, x, y) => At(e, j, x, y) # b
<1>0. /\ Tree(d, i, O, h) /\ t \in 0..3 /\ b \in Block /\ b \notin O
      /\ j \in InodeRec /\ SamePointers(i, j) /\ j.blocks = i.blocks + 1
      /\ e \in [Block -> [Word -> Nat]] /\ e[b] = Zeros
      /\ \A c \in Block : c # b => e[c] = d[c]
      /\ k \in [Block -> 0..3] /\ k[b] = t /\ \A c \in Block : c # b => k[c] = h[c]
  BY DEF Adding
<1>1. /\ d \in [Block -> [Word -> Nat]] /\ i \in InodeRec /\ O \in SUBSET Block
      /\ h \in [Block -> 0..3] /\ Cardinality(O) <= i.blocks
      /\ Held(d, i, O, h) /\ Once(d, i, O, h)
  BY <1>0 DEF Tree, TreeTypes
<1>3. IsFiniteSet(O) /\ Cardinality(O) \in Nat /\ Cardinality(O \cup {b}) = Cardinality(O) + 1
  BY <1>0, <1>1, PlaceFacts, FS_Subset, FS_AddElement, FS_CardinalityType
<1>4. TreeTypes(e, j, O \cup {b}, k)
  <2>1. i.blocks \in Nat
    BY <1>1 DEF InodeRec
  <2> QED BY <1>0, <1>1, <1>3, <2>1 DEF TreeTypes
<1>5. \A x, y : IsPlace(O \cup {b}, k, x, y) =>
         \/ x = b /\ At(e, j, x, y) = 0
         \/ x # b /\ IsPlace(O, h, x, y) /\ At(e, j, x, y) = At(d, i, x, y)
            /\ HeightAt(k, x, y) = HeightAt(h, x, y)
  <2> SUFFICES ASSUME NEW x, NEW y, IsPlace(O \cup {b}, k, x, y)
               PROVE  \/ x = b /\ At(e, j, x, y) = 0
                      \/ x # b /\ IsPlace(O, h, x, y) /\ At(e, j, x, y) = At(d, i, x, y)
                         /\ HeightAt(k, x, y) = HeightAt(h, x, y)
    OBVIOUS
  <2>1. CASE x = b
    <3>1. b # 0 /\ y \in Word
      BY <1>0, <2>1, PlaceFacts DEF IsPlace
    <3>2. e[b] = Zeros
      BY <1>0
    <3> QED BY <2>1, <3>1, <3>2, PlaceFacts DEF At
  <2>2. CASE x = 0
    <3>1. b # 0
      BY <1>0, PlaceFacts
    <3>2. j.direct = i.direct /\ j.indirect = i.indirect
          /\ j.doubleindirect = i.doubleindirect /\ j.tripleindirect = i.tripleindirect
      BY <1>0 DEF SamePointers
    <3> QED BY <2>2, <3>1, <3>2 DEF IsPlace, At, HeightAt
  <2>3. CASE x # 0 /\ x # b
    <3>1. x \in O /\ x \in Block /\ k[x] = h[x] /\ e[x] = d[x] /\ h[x] > 0 /\ y \in Word
      BY <1>0, <1>1, <2>3 DEF IsPlace
    <3> QED BY <2>3, <3>1 DEF IsPlace, At, HeightAt
  <2> QED BY <2>1, <2>2, <2>3
<1>6. \A x, y : IsPlace(O, h, x, y) /\ At(d, i, x, y) # 0 =>
         At(d, i, x, y) # b /\ At(d, i, x, y) \in O
         /\ k[At(d, i, x, y)] = HeightAt(h, x, y)
  <2> SUFFICES ASSUME NEW x, NEW y, IsPlace(O, h, x, y), At(d, i, x, y) # 0
               PROVE  At(d, i, x, y) # b /\ At(d, i, x, y) \in O
                      /\ k[At(d, i, x, y)] = HeightAt(h, x, y)
    OBVIOUS
  <2>1. At(d, i, x, y) \in O /\ At(d, i, x, y) \in Block /\ h[At(d, i, x, y)] = HeightAt(h, x, y)
    BY <1>0, HeldBlock
  <2> QED BY <1>0, <1>1, <2>1
<1>7. b # 0
  BY <1>0, PlaceFacts
<1>8. Held(e, j, O \cup {b}, k)
  <2> SUFFICES ASSUME NEW x \in Place, NEW y \in Index,
                      IsPlace(O \cup {b}, k, x, y), At(e, j, x, y) # 0
               PROVE  At(e, j, x, y) \in O /\ k[At(e, j, x, y)] = HeightAt(k, x, y)
    BY DEF Held
  <2>1. /\ IsPlace(O, h, x, y) /\ At(e, j, x, y) = At(d, i, x, y)
        /\ HeightAt(k, x, y) = HeightAt(h, x, y)
    BY <1>5
  <2> QED BY <1>6, <2>1
<1>9. Once(e, j, O \cup {b}, k)
  <2> SUFFICES ASSUME NEW x \in Place, NEW x2 \in Place, NEW y \in Index, NEW y2 \in Index,
                      IsPlace(O \cup {b}, k, x, y), IsPlace(O \cup {b}, k, x2, y2),
                      At(e, j, x, y) # 0, At(e, j, x, y) = At(e, j, x2, y2)
               PROVE  x = x2 /\ y = y2
    BY DEF Once
  <2>1. IsPlace(O, h, x, y) /\ At(e, j, x, y) = At(d, i, x, y)
    BY <1>5
  <2>2. IsPlace(O, h, x2, y2) /\ At(e, j, x2, y2) = At(d, i, x2, y2)
    BY <1>5
  <2> QED BY <1>1, <2>1, <2>2 DEF Once
<1>10. ASSUME NEW x, NEW y, IsPlace(O \cup {b}, k, x, y) PROVE At(e, j, x, y) # b
  <2>1. CASE At(e, j, x, y) = 0
    BY <1>7, <2>1
  <2>2. CASE At(e, j, x, y) # 0
    <3>1. IsPlace(O, h, x, y) /\ At(e, j, x, y) = At(d, i, x, y)
      BY <1>5, <1>10, <2>2
    <3> QED BY <1>6, <2>2, <3>1
  <2> QED BY <2>1, <2>2
<1> QED BY <1>4, <1>8, <1>9, <1>10 DEF Tree

\* A block nothing points to is put into an empty place one level above it.
LEMMA LinkBlock ==
    ASSUME NEW d, NEW i, NEW O, NEW h, Tree(d, i, O, h), NEW b \in O,
           \A x, y : IsPlace(O, h, x, y) => At(d, i, x, y) # b,
           NEW X, NEW Y, IsPlace(O, h, X, Y), At(d, i, X, Y) = 0, h[b] = HeightAt(h, X, Y),
           NEW e, NEW j, TreeTypes(e, j, O, h),
           \A x, y : IsPlace(O, h, x, y) =>
              At(e, j, x, y) = IF x = X /\ y = Y THEN b ELSE At(d, i, x, y)
    PROVE  Tree(e, j, O, h)
<1>1. Held(d, i, O, h) /\ Once(d, i, O, h)
  BY DEF Tree
<1>2. Held(e, j, O, h)
  BY <1>1 DEF Held
<1>3. Once(e, j, O, h)
  <2> SUFFICES ASSUME NEW x \in Place, NEW x2 \in Place, NEW y \in Index, NEW y2 \in Index,
                      IsPlace(O, h, x, y), IsPlace(O, h, x2, y2),
                      At(e, j, x, y) # 0, At(e, j, x, y) = At(e, j, x2, y2)
               PROVE  x = x2 /\ y = y2
    BY DEF Once
  <2>1. CASE x = X /\ y = Y
    BY <2>1
  <2>2. CASE x2 = X /\ y2 = Y
    BY <2>2
  <2>3. CASE ~(x = X /\ y = Y) /\ ~(x2 = X /\ y2 = Y)
    <3>1. At(e, j, x, y) = At(d, i, x, y)
      BY <2>3
    <3>2. At(e, j, x2, y2) = At(d, i, x2, y2)
      BY <2>3
    <3>3. At(d, i, x, y) # 0 /\ At(d, i, x, y) = At(d, i, x2, y2)
      BY <3>1, <3>2
    <3> QED BY <1>1, <3>3 DEF Once
  <2> QED BY <2>1, <2>2, <2>3
<1> QED BY <1>2, <1>3 DEF Tree

----------------------------------------------------------------------------
(* Where a file block is found, in a tree *)

\* Entry, Mapped and View for any disk and inode.
En(d, b, k) == IF b = 0 \/ k \notin Word THEN 0 ELSE d[b][k]
Mp(d, i, fb) ==
    LET path == IndexPath(fb)
        depth == Len(path)
        root == Root(i, depth)
    IN IF depth = 0 THEN i.direct[fb]
       ELSE IF depth = 1 THEN En(d, root, path[1])
       ELSE IF depth = 2 THEN En(d, En(d, root, path[1]), path[2])
       ELSE En(d, En(d, En(d, root, path[1]), path[2]), path[3])
Vw(d, i, fb) == IF Mp(d, i, fb) = 0 THEN 0 ELSE d[Mp(d, i, fb)][0]

\* The blocks on the path p from the root of level l, after n steps.
Way(d, i, l, p, n) ==
    IF n = 0 THEN Root(i, l)
    ELSE IF n = 1 THEN En(d, Root(i, l), p[1])
    ELSE IF n = 2 THEN En(d, En(d, Root(i, l), p[1]), p[2])
    ELSE En(d, En(d, En(d, Root(i, l), p[1]), p[2]), p[3])

\* The level of a file block and the length of its path.
LEMMA PathLevel ==
    ASSUME NEW fb \in Nat
    PROVE  /\ Level(fb) \in 0..3 /\ Len(IndexPath(fb)) = Level(fb)
           /\ Level(fb) = 0 <=> fb < NDIRECT
<1>1. NDIRECT \in Nat /\ DBPERIDB \in Nat /\ NDouble \in Nat /\ DBPERIDB > 1 /\ NTriple \in Nat
  BY PlaceFacts DEF NDouble, NTriple
<1>2. PICK off : off = fb - NDIRECT
  OBVIOUS
<1>3. CASE fb < NDIRECT
  <2>1. Level(fb) = 0
    BY <1>1, <1>2, <1>3 DEF Level
  <2>2. IndexPath(fb) = << >>
    BY <2>1 DEF IndexPath
  <2> QED BY <1>3, <2>1, <2>2
<1>4. CASE fb >= NDIRECT /\ off < DBPERIDB
  <2>1. Level(fb) = 1
    BY <1>1, <1>2, <1>4 DEF Level
  <2>2. IndexPath(fb) = <<off % DBPERIDB>>
    BY <1>2, <2>1 DEF IndexPath
  <2> QED BY <1>1, <1>4, <2>1, <2>2
<1>5. CASE off >= DBPERIDB /\ off < NDouble + DBPERIDB
  <2>1. Level(fb) = 2 /\ ~(fb < NDIRECT)
    BY <1>1, <1>2, <1>5 DEF Level
  <2>2. IndexPath(fb) = <<(off - DBPERIDB) \div DBPERIDB, (off - DBPERIDB) % DBPERIDB>>
    BY <1>2, <2>1 DEF IndexPath
  <2> QED BY <2>1, <2>2
<1>6. CASE off >= DBPERIDB /\ ~(off < NDouble + DBPERIDB)
  <2>1. Level(fb) = 3 /\ ~(fb < NDIRECT)
    BY <1>1, <1>2, <1>6 DEF Level
  <2>2. PICK o : o = off - (NDouble - DBPERIDB)
    OBVIOUS
  <2>3. IndexPath(fb) = <<o \div NDouble, o \div DBPERIDB, o % DBPERIDB>>
    BY <1>2, <2>1, <2>2 DEF IndexPath
  <2> QED BY <2>1, <2>3
<1>7. fb < NDIRECT \/ (fb >= NDIRECT /\ off < DBPERIDB) \/ off >= DBPERIDB
  BY <1>1, <1>2
<1> QED BY <1>3, <1>4, <1>5, <1>6, <1>7

\* Mapped, along the way.
LEMMA MpWay ==
    ASSUME NEW fb \in Nat, NEW d, NEW i
    PROVE  Mp(d, i, fb) = IF Level(fb) = 0 THEN i.direct[fb]
                          ELSE Way(d, i, Level(fb), IndexPath(fb), Level(fb))
<1>1. Level(fb) \in 0..3 /\ Len(IndexPath(fb)) = Level(fb)
  BY PathLevel
<1>2. Level(fb) = 0 \/ Level(fb) = 1 \/ Level(fb) = 2 \/ Level(fb) = 3
  BY <1>1
<1> QED BY <1>1, <1>2 DEF Mp, Way

\* One step more, and the places it reads.
LEMMA WayStep ==
    ASSUME NEW d, NEW i, NEW l \in 1..3, NEW p, NEW n \in 1..3
    PROVE  Way(d, i, l, p, n) = En(d, Way(d, i, l, p, n - 1), p[n])
  BY DEF Way

LEMMA RootPlace ==
    ASSUME NEW d, NEW i, NEW O, NEW h, NEW l \in 1..3
    PROVE  /\ IsPlace(O, h, 0, NDIRECT + l) /\ At(d, i, 0, NDIRECT + l) = Root(i, l)
           /\ HeightAt(h, 0, NDIRECT + l) = l
<1>1. l = 1 \/ l = 2 \/ l = 3
  OBVIOUS
<1> QED BY <1>1, PlaceFacts DEF IsPlace, At, Root, HeightAt, Index0

LEMMA DirectPlace ==
    ASSUME NEW d, NEW i, NEW O, NEW h, NEW fb \in Nat, fb < NDIRECT
    PROVE  /\ IsPlace(O, h, 0, fb) /\ At(d, i, 0, fb) = i.direct[fb]
           /\ HeightAt(h, 0, fb) = 0 /\ fb \in 0..(NDIRECT - 1)
  BY PlaceFacts DEF IsPlace, At, HeightAt, Index0

LEMMA EntryPlace ==
    ASSUME NEW d, NEW i, NEW O, NEW h, TreeTypes(d, i, O, h),
           NEW b \in O, h[b] > 0, NEW k \in Word
    PROVE  /\ IsPlace(O, h, b, k) /\ At(d, i, b, k) = En(d, b, k) /\ b # 0
           /\ HeightAt(h, b, k) = h[b] - 1 /\ En(d, b, k) = d[b][k]
  BY PlaceFacts DEF IsPlace, At, HeightAt, En, TreeTypes

\* Every step of the way goes one level down the tree, or nowhere.
LEMMA WayInTree ==
    ASSUME NEW d, NEW i, NEW O, NEW h, Tree(d, i, O, h), NEW l \in 1..3, NEW p
    PROVE  \A n \in 0..l : LET w == Way(d, i, l, p, n)
                           IN w = 0 \/ (w \in O /\ w \in Block /\ h[w] = l - n)
<1>1. TreeTypes(d, i, O, h)
  BY DEF Tree
<1>2. LET w == Way(d, i, l, p, 0) IN w = 0 \/ (w \in O /\ w \in Block /\ h[w] = l)
  <2>1. Way(d, i, l, p, 0) = At(d, i, 0, NDIRECT + l)
    BY RootPlace DEF Way
  <2> QED BY <2>1, RootPlace, HeldBlock
<1>3. ASSUME NEW n \in 1..l, LET w == Way(d, i, l, p, n - 1)
                             IN w = 0 \/ (w \in O /\ w \in Block /\ h[w] = l - (n - 1))
      PROVE  LET w == Way(d, i, l, p, n)
             IN w = 0 \/ (w \in O /\ w \in Block /\ h[w] = l - n)
  <2>1. PICK u : u = Way(d, i, l, p, n - 1)
    OBVIOUS
  <2>2. PICK w : w = Way(d, i, l, p, n)
    OBVIOUS
  <2>3. w = En(d, u, p[n])
    BY <2>1, <2>2, WayStep
  <2>4. CASE u = 0 \/ p[n] \notin Word
    BY <2>2, <2>3, <2>4 DEF En
  <2>5. CASE u # 0 /\ p[n] \in Word
    <3>1. u \in O /\ h[u] = l - (n - 1) /\ h[u] > 0
      BY <1>3, <2>1, <2>5
    <3>2. IsPlace(O, h, u, p[n]) /\ At(d, i, u, p[n]) = w /\ HeightAt(h, u, p[n]) = h[u] - 1
      BY <1>1, <2>3, <2>5, <3>1, EntryPlace
    <3>3. w = 0 \/ (w \in O /\ w \in Block /\ h[w] = h[u] - 1)
      BY <3>2, HeldBlock
    <3>4. h[u] - 1 = l - n
      BY <3>1
    <3> QED BY <2>2, <3>3, <3>4
  <2> QED BY <2>4, <2>5
<1>4. CASE l = 1
  BY <1>2, <1>3, <1>4
<1>5. CASE l = 2
  <2>1. LET w == Way(d, i, l, p, 1) IN w = 0 \/ (w \in O /\ w \in Block /\ h[w] = l - 1)
    BY <1>2, <1>3, <1>5
  <2>2. LET w == Way(d, i, l, p, 2) IN w = 0 \/ (w \in O /\ w \in Block /\ h[w] = l - 2)
    BY <2>1, <1>3, <1>5
  <2> QED BY <1>2, <1>5, <2>1, <2>2
<1>6. CASE l = 3
  <2>1. LET w == Way(d, i, l, p, 1) IN w = 0 \/ (w \in O /\ w \in Block /\ h[w] = l - 1)
    BY <1>2, <1>3, <1>6
  <2>2. LET w == Way(d, i, l, p, 2) IN w = 0 \/ (w \in O /\ w \in Block /\ h[w] = l - 2)
    BY <2>1, <1>3, <1>6
  <2>3. LET w == Way(d, i, l, p, 3) IN w = 0 \/ (w \in O /\ w \in Block /\ h[w] = l - 3)
    BY <2>2, <1>3, <1>6
  <2> QED BY <1>2, <1>6, <2>1, <2>2, <2>3
<1> QED BY <1>4, <1>5, <1>6

\* What a file block is mapped to is a data block of the file.
LEMMA MpInTree ==
    ASSUME NEW d, NEW i, NEW O, NEW h, Tree(d, i, O, h), NEW fb \in Nat
    PROVE  LET m == Mp(d, i, fb) IN m = 0 \/ (m \in O /\ m \in Block /\ h[m] = 0)
<1>1. CASE Level(fb) = 0
  <2>1. fb < NDIRECT
    BY <1>1, PathLevel
  <2>2. Mp(d, i, fb) = At(d, i, 0, fb)
    BY <1>1, <2>1, MpWay, DirectPlace
  <2> QED BY <2>1, <2>2, DirectPlace, HeldBlock
<1>2. CASE Level(fb) # 0
  <2>1. PICK l : l = Level(fb)
    OBVIOUS
  <2>2. l \in 1..3 /\ l \in 0..l /\ l - l = 0
    BY <1>2, <2>1, PathLevel
  <2>3. Mp(d, i, fb) = Way(d, i, l, IndexPath(fb), l)
    BY <1>2, <2>1, MpWay
  <2> QED BY <2>2, <2>3, WayInTree
<1> QED BY <1>1, <1>2

\* Where the indirect blocks of a tree stay what they are, everything is found
\* where it was.
LEMMA WaySame ==
    ASSUME NEW d, NEW i, NEW O, NEW h, Tree(d, i, O, h), NEW e, NEW j, SamePointers(i, j),
           \A b \in O : h[b] > 0 => e[b] = d[b], NEW l \in 1..3, NEW p
    PROVE  \A n \in 0..l : Way(e, j, l, p, n) = Way(d, i, l, p, n)
<1>1. Way(e, j, l, p, 0) = Way(d, i, l, p, 0)
  <2>1. l = 1 \/ l = 2 \/ l = 3
    OBVIOUS
  <2> QED BY <2>1 DEF Way, Root, SamePointers
<1>2. ASSUME NEW n \in 1..l, Way(e, j, l, p, n - 1) = Way(d, i, l, p, n - 1)
      PROVE  Way(e, j, l, p, n) = Way(d, i, l, p, n)
  <2>1. PICK u : u = Way(d, i, l, p, n - 1)
    OBVIOUS
  <2>2. Way(d, i, l, p, n) = En(d, u, p[n]) /\ Way(e, j, l, p, n) = En(e, u, p[n])
    BY <1>2, <2>1, WayStep
  <2>3. u = 0 \/ (u \in O /\ h[u] = l - (n - 1))
    <3>1. n - 1 \in 0..l
      OBVIOUS
    <3> QED BY <2>1, <3>1, WayInTree
  <2>4. CASE u = 0
    BY <2>2, <2>4 DEF En
  <2>5. CASE u \in O /\ h[u] = l - (n - 1)
    <3>1. e[u] = d[u]
      BY <2>5
    <3> QED BY <2>2, <3>1 DEF En
  <2> QED BY <2>3, <2>4, <2>5
<1>3. CASE l = 1
  BY <1>1, <1>2, <1>3
<1>4. CASE l = 2
  <2>1. Way(e, j, l, p, 1) = Way(d, i, l, p, 1)
    BY <1>1, <1>2, <1>4
  <2>2. Way(e, j, l, p, 2) = Way(d, i, l, p, 2)
    BY <2>1, <1>2, <1>4
  <2> QED BY <1>1, <1>4, <2>1, <2>2
<1>5. CASE l = 3
  <2>1. Way(e, j, l, p, 1) = Way(d, i, l, p, 1)
    BY <1>1, <1>2, <1>5
  <2>2. Way(e, j, l, p, 2) = Way(d, i, l, p, 2)
    BY <2>1, <1>2, <1>5
  <2>3. Way(e, j, l, p, 3) = Way(d, i, l, p, 3)
    BY <2>2, <1>2, <1>5
  <2> QED BY <1>1, <1>5, <2>1, <2>2, <2>3
<1> QED BY <1>3, <1>4, <1>5

LEMMA MpSame ==
    ASSUME NEW d, NEW i, NEW O, NEW h, Tree(d, i, O, h), NEW e, NEW j, SamePointers(i, j),
           \A b \in O : h[b] > 0 => e[b] = d[b], NEW fb \in Nat
    PROVE  Mp(e, j, fb) = Mp(d, i, fb)
<1>1. CASE Level(fb) = 0
  BY <1>1, MpWay DEF SamePointers
<1>2. CASE Level(fb) # 0
  <2>1. PICK l : l = Level(fb)
    OBVIOUS
  <2>2. l \in 1..3 /\ l \in 0..l
    BY <1>2, <2>1, PathLevel
  <2>3. Way(e, j, l, IndexPath(fb), l) = Way(d, i, l, IndexPath(fb), l)
    BY <2>2, WaySame
  <2> QED BY <1>2, <2>1, <2>3, MpWay
<1> QED BY <1>1, <1>2

LEMMA VwSame ==
    ASSUME NEW d, NEW i, NEW O, NEW h, Tree(d, i, O, h), NEW e, NEW j, SamePointers(i, j),
           \A b \in O : e[b] = d[b], NEW fb \in Nat
    PROVE  Vw(e, j, fb) = Vw(d, i, fb) /\ Mp(e, j, fb) = Mp(d, i, fb)
<1>1. Mp(e, j, fb) = Mp(d, i, fb)
  BY MpSame
<1>2. Mp(d, i, fb) = 0 \/ Mp(d, i, fb) \in O
  BY MpInTree
<1> QED BY <1>1, <1>2 DEF Vw

\* A block that was linked in at X, Y: the hypotheses of LinkBlock, and that the
\* block was zeros and data blocks stay.
Linking(d, i, O, h, b, X, Y, e, j) ==
    /\ b \in O /\ IsPlace(O, h, X, Y) /\ At(d, i, X, Y) = 0 /\ h[b] = HeightAt(h, X, Y)
    /\ TreeTypes(e, j, O, h)
    /\ \A x, y : IsPlace(O, h, x, y) => At(d, i, x, y) # b
    /\ \A x, y : IsPlace(O, h, x, y) =>
          At(e, j, x, y) = IF x = X /\ y = Y THEN b ELSE At(d, i, x, y)
    /\ \A k \in Word : d[b][k] = 0
    /\ \A m \in O : h[m] = 0 => e[m] = d[m]

\* It is found where nothing was, and nothing is found through it.
PlaceSet(u, w, b) == w = u \/ (u = 0 /\ w = b)

LEMMA WayLinked ==
    ASSUME NEW d, NEW i, NEW O, NEW h, Tree(d, i, O, h), NEW b, NEW X, NEW Y, NEW e, NEW j,
           Linking(d, i, O, h, b, X, Y, e, j), NEW l \in 1..3, NEW p
    PROVE  \A n \in 0..l : PlaceSet(Way(d, i, l, p, n), Way(e, j, l, p, n), b)
<1>1. TreeTypes(d, i, O, h) /\ TreeTypes(e, j, O, h) /\ b \in O /\ \A k \in Word : d[b][k] = 0
  BY DEF Tree, Linking
<1>2. \A x, y : IsPlace(O, h, x, y) =>
         At(e, j, x, y) = IF x = X /\ y = Y THEN b ELSE At(d, i, x, y)
  BY DEF Linking
<1>3. At(d, i, X, Y) = 0 /\ h[b] = HeightAt(h, X, Y) /\ IsPlace(O, h, X, Y)
  BY DEF Linking
<1>4. Tree(e, j, O, h)
  BY LinkBlock DEF Linking
<1>5. PlaceSet(Way(d, i, l, p, 0), Way(e, j, l, p, 0), b)
  <2>1. /\ IsPlace(O, h, 0, NDIRECT + l)
        /\ Way(d, i, l, p, 0) = At(d, i, 0, NDIRECT + l)
        /\ Way(e, j, l, p, 0) = At(e, j, 0, NDIRECT + l)
    BY RootPlace DEF Way
  <2> QED BY <1>2, <1>3, <2>1 DEF PlaceSet
<1>6. ASSUME NEW n \in 1..l, PlaceSet(Way(d, i, l, p, n - 1), Way(e, j, l, p, n - 1), b)
      PROVE  PlaceSet(Way(d, i, l, p, n), Way(e, j, l, p, n), b)
  <2>1. PICK u : u = Way(d, i, l, p, n - 1)
    OBVIOUS
  <2>2. PICK w : w = Way(e, j, l, p, n - 1)
    OBVIOUS
  <2>3. Way(d, i, l, p, n) = En(d, u, p[n]) /\ Way(e, j, l, p, n) = En(e, w, p[n])
    BY <2>1, <2>2, WayStep
  <2>4. n - 1 \in 0..l /\ l - (n - 1) > 0
    OBVIOUS
  <2>5. u = 0 \/ (u \in O /\ h[u] > 0)
    BY <2>1, <2>4, WayInTree
  <2>6. w = 0 \/ (w \in O /\ h[w] > 0)
    BY <1>4, <2>2, <2>4, WayInTree
  <2>7. CASE w = 0 \/ p[n] \notin Word
    <3>1. w = 0 => u = 0
      BY <1>1, <1>6, <2>1, <2>2, PlaceFacts DEF PlaceSet, TreeTypes
    <3> QED BY <2>3, <2>7, <3>1 DEF En, PlaceSet
  <2>8. CASE w # 0 /\ p[n] \in Word /\ w = u
    <3>1. u \in O /\ h[u] > 0
      BY <2>5, <2>8
    <3>2. IsPlace(O, h, u, p[n]) /\ At(d, i, u, p[n]) = En(d, u, p[n])
      BY <1>1, <2>8, <3>1, EntryPlace
    <3>3. At(e, j, u, p[n]) = En(e, u, p[n])
      BY <1>1, <2>8, <3>1, EntryPlace
    <3> QED BY <1>2, <1>3, <2>3, <2>8, <3>2, <3>3 DEF PlaceSet
  <2>9. CASE w # 0 /\ p[n] \in Word /\ u = 0 /\ w = b
    <3>1. w \in O /\ h[w] > 0
      BY <2>6, <2>9
    <3>2. IsPlace(O, h, b, p[n]) /\ At(d, i, b, p[n]) = d[b][p[n]]
      BY <1>1, <2>9, <3>1, EntryPlace
    <3>3. At(e, j, b, p[n]) = En(e, b, p[n])
      BY <1>1, <2>9, <3>1, EntryPlace
    <3>4. b # X
      BY <1>1, <1>3, PlaceFacts DEF HeightAt, TreeTypes
    <3>5. En(e, b, p[n]) = 0
      BY <1>1, <1>2, <2>9, <3>2, <3>3, <3>4
    <3> QED BY <2>3, <2>9, <3>5 DEF PlaceSet, En
  <2> QED BY <1>6, <2>1, <2>2, <2>7, <2>8, <2>9 DEF PlaceSet
<1>7. CASE l = 1
  BY <1>5, <1>6, <1>7
<1>8. CASE l = 2
  <2>1. PlaceSet(Way(d, i, l, p, 1), Way(e, j, l, p, 1), b)
    BY <1>5, <1>6, <1>8
  <2>2. PlaceSet(Way(d, i, l, p, 2), Way(e, j, l, p, 2), b)
    BY <2>1, <1>6, <1>8
  <2> QED BY <1>5, <1>8, <2>1, <2>2
<1>9. CASE l = 3
  <2>1. PlaceSet(Way(d, i, l, p, 1), Way(e, j, l, p, 1), b)
    BY <1>5, <1>6, <1>9
  <2>2. PlaceSet(Way(d, i, l, p, 2), Way(e, j, l, p, 2), b)
    BY <2>1, <1>6, <1>9
  <2>3. PlaceSet(Way(d, i, l, p, 3), Way(e, j, l, p, 3), b)
    BY <2>2, <1>6, <1>9
  <2> QED BY <1>5, <1>9, <2>1, <2>2, <2>3
<1> QED BY <1>7, <1>8, <1>9

\* Linking a block shows nobody anything else.
LEMMA VwLinked ==
    ASSUME NEW d, NEW i, NEW O, NEW h, Tree(d, i, O, h), NEW b, NEW X, NEW Y, NEW e, NEW j,
           Linking(d, i, O, h, b, X, Y, e, j), NEW fb \in Nat
    PROVE  Vw(e, j, fb) = Vw(d, i, fb)
<1>1. Tree(e, j, O, h)
  BY LinkBlock DEF Linking
<1>2. PlaceSet(Mp(d, i, fb), Mp(e, j, fb), b)
  <2>1. CASE Level(fb) = 0
    <3>1. fb < NDIRECT
      BY <2>1, PathLevel
    <3>2. /\ IsPlace(O, h, 0, fb) /\ Mp(d, i, fb) = At(d, i, 0, fb)
          /\ Mp(e, j, fb) = At(e, j, 0, fb)
      BY <2>1, <3>1, DirectPlace, MpWay
    <3> QED BY <3>2 DEF Linking, PlaceSet
  <2>2. CASE Level(fb) # 0
    <3>1. PICK l : l = Level(fb)
      OBVIOUS
    <3>2. l \in 1..3 /\ l \in 0..l
      BY <2>2, <3>1, PathLevel
    <3>3. PlaceSet(Way(d, i, l, IndexPath(fb), l), Way(e, j, l, IndexPath(fb), l), b)
      BY <3>2, WayLinked
    <3> QED BY <2>2, <3>1, <3>3, MpWay
  <2> QED BY <2>1, <2>2
<1>3. PICK u : u = Mp(d, i, fb)
  OBVIOUS
<1>4. PICK w : w = Mp(e, j, fb)
  OBVIOUS
<1>5. w = 0 \/ (w \in O /\ h[w] = 0)
  BY <1>1, <1>4, MpInTree
<1>6. w # 0 => e[w] = d[w]
  BY <1>5 DEF Linking
<1>7. d[b][0] = 0 /\ b # 0
  BY PlaceFacts DEF Linking, TreeTypes
<1>8. w = u \/ (u = 0 /\ w = b)
  BY <1>2, <1>3, <1>4 DEF PlaceSet
<1> QED BY <1>3, <1>4, <1>6, <1>7, <1>8 DEF Vw

----------------------------------------------------------------------------
(* sfs_bmap, step by step *)

CompRec == [map : SUBSET Block, disk : [Block -> [Word -> Nat]], ino : InodeRec,
            id : Nat, block : Nat, err : {"ok", "ENOSPC", "EINVAL", "fault"}]

\* A computation that started on the disk d0 has kept the blocks K of others, and
\* all that its file held, V, with its size, at EOF; its file is a tree.
Holds(d, i) == [fb \in FileBlock \cup {EOF} |-> IF fb = EOF THEN i.size ELSE Vw(d, i, fb)]
Sound(s, O, h, K, d0, V) ==
    /\ s \in CompRec /\ O \subseteq s.map /\ Tree(s.disk, s.ino, O, h)
    /\ K \subseteq s.map /\ K \cap O = {} /\ \A b \in K : s.disk[b] = d0[b]
    /\ \A fb \in FileBlock : Vw(s.disk, s.ino, fb) = V[fb]
    /\ s.ino.size = V[EOF]

\* The first free block, if there is one.
LEMMA FirstFree ==
    ASSUME NEW map, ~(Block \subseteq map)
    PROVE  Min(Block \ map) \in Block \ map
<1>1. Block \ map \in SUBSET Nat /\ Block \ map # {}
  BY PlaceFacts
<1>2. PICK m \in Block \ map : \A k \in Block \ map : m <= k
  BY <1>1, LeastNatural
<1> QED BY <1>2 DEF Min

\* sfs_balloc, field by field.
LEMMA BallocFields ==
    ASSUME NEW s \in CompRec, NEW a, a = sfs_balloc(s)
    PROVE  /\ a \in CompRec
           /\ Block \subseteq s.map =>
                /\ a.map = s.map /\ a.disk = s.disk /\ a.ino = s.ino /\ a.id = s.id
                /\ a.block = s.block /\ a.err = "ENOSPC"
           /\ ~(Block \subseteq s.map) =>
                /\ a.block \in Block \ s.map /\ a.map = s.map \cup {a.block}
                /\ a.disk = [s.disk EXCEPT ![a.block] = Zeros]
                /\ a.ino = [s.ino EXCEPT !.blocks = @ + 1] /\ a.ino.size = s.ino.size
                /\ a.id = s.id /\ a.err = s.err
<1>1. CASE Block \subseteq s.map
  <2>1. a = [s EXCEPT !.err = "ENOSPC"]
    BY <1>1 DEF sfs_balloc
  <2>2. a = [map |-> s.map, disk |-> s.disk, ino |-> s.ino, id |-> s.id, block |-> s.block,
             err |-> "ENOSPC"]
    BY <2>1 DEF CompRec
  <2>3. a \in CompRec
    BY <2>2 DEF CompRec
  <2> QED BY <1>1, <2>2, <2>3
<1>2. CASE ~(Block \subseteq s.map)
  <2>1. PICK b : b = Min(Block \ s.map)
    OBVIOUS
  <2>2. b \in Block \ s.map
    BY <1>2, <2>1, FirstFree
  <2>3. a = [s EXCEPT !.map = @ \cup {b}, !.disk[b] = Zeros,
                      !.block = b, !.ino.blocks = @ + 1]
    BY <1>2, <2>1 DEF sfs_balloc
  <2>4. /\ s.map \in SUBSET Block /\ s.disk \in [Block -> [Word -> Nat]] /\ s.ino \in InodeRec
        /\ s.id \in Nat /\ s.err \in {"ok", "ENOSPC", "EINVAL", "fault"}
    BY DEF CompRec
  <2>5. /\ a = [map |-> s.map \cup {b}, disk |-> [s.disk EXCEPT ![b] = Zeros],
                ino |-> [s.ino EXCEPT !.blocks = @ + 1], id |-> s.id, block |-> b,
                err |-> s.err]
    BY <2>3 DEF CompRec
  <2>6. s.map \cup {b} \in SUBSET Block /\ b \in Nat
    BY <2>2, <2>4, PlaceFacts
  <2>7. [s.disk EXCEPT ![b] = Zeros] \in [Block -> [Word -> Nat]]
    BY <2>4, PlaceFacts
  <2>8. s.ino.blocks + 1 \in Nat
    BY <2>4 DEF InodeRec
  <2>9. /\ [s.ino EXCEPT !.blocks = @ + 1] \in InodeRec
        /\ [s.ino EXCEPT !.blocks = @ + 1].size = s.ino.size
    BY <2>4, <2>8 DEF InodeRec
  <2>10. a \in CompRec
    BY <2>4, <2>5, <2>6, <2>7, <2>9 DEF CompRec
  <2>11. a.ino = [s.ino EXCEPT !.blocks = @ + 1]
    BY <2>5
  <2>12. a.ino.size = s.ino.size
    BY <2>9, <2>11
  <2> QED BY <1>2, <2>2, <2>5, <2>10, <2>12
<1> QED BY <1>1, <1>2

\* The computation a is s with a new block of height t, that nothing leads to.
SubtreeAdded(s, O, h, K, d0, V, t, a, Q, k) ==
    /\ Sound(a, Q, k, K, d0, V) /\ Q = O \cup {a.block}
    /\ a.block \in Block /\ a.block \notin O
    /\ k[a.block] = t /\ a.id = s.id /\ a.disk[a.block] = Zeros
    /\ \A b \in O : k[b] = h[b] /\ a.disk[b] = s.disk[b]
    /\ \A x, y : IsPlace(Q, k, x, y) => At(a.disk, a.ino, x, y) # a.block
    /\ SamePointers(s.ino, a.ino)
    /\ \A l \in 1..3 : \A p : \A n \in 0..l :
          Way(a.disk, a.ino, l, p, n) = Way(s.disk, s.ino, l, p, n)

\* A failed allocation leaves all as it was; one that does not fail adds a block of
\* any height to the tree.
LEMMA BallocSound ==
    ASSUME NEW s, NEW O, NEW h, NEW K, NEW d0, NEW V, Sound(s, O, h, K, d0, V),
           s.err = "ok", NEW t \in 0..3, NEW a, a = sfs_balloc(s)
    PROVE  /\ a.err = "ok" \/ a.err = "ENOSPC"
           /\ a.err = "ENOSPC" => Sound(a, O, h, K, d0, V)
           /\ a.err = "ok" => \E Q, k : SubtreeAdded(s, O, h, K, d0, V, t, a, Q, k)
<1>a. PICK Q : Q = O \cup {a.block}
  OBVIOUS
<1>b. PICK k : k = [h EXCEPT ![a.block] = t]
  OBVIOUS
<1>1. /\ s \in CompRec /\ O \subseteq s.map /\ Tree(s.disk, s.ino, O, h) /\ K \subseteq s.map
      /\ K \cap O = {} /\ \A b \in K : s.disk[b] = d0[b]
      /\ \A fb \in FileBlock : Vw(s.disk, s.ino, fb) = V[fb]
      /\ s.ino.size = V[EOF]
  BY DEF Sound
<1>2. a \in CompRec
  BY <1>1, BallocFields
<1>3. CASE Block \subseteq s.map
  <2>1. /\ a.map = s.map /\ a.disk = s.disk /\ a.ino = s.ino /\ a.err = "ENOSPC"
    BY <1>1, <1>3, BallocFields
  <2> QED BY <1>1, <1>2, <2>1 DEF Sound
<1>4. CASE ~(Block \subseteq s.map)
  <2>1. PICK b : b = a.block
    OBVIOUS
  <2>2. /\ b \in Block \ s.map /\ a.map = s.map \cup {b}
        /\ a.disk = [s.disk EXCEPT ![b] = Zeros] /\ a.ino = [s.ino EXCEPT !.blocks = @ + 1]
        /\ a.id = s.id /\ a.err = "ok" /\ a.ino.size = s.ino.size
    BY <1>1, <1>4, <2>1, BallocFields
  <2>3. TreeTypes(s.disk, s.ino, O, h) /\ s.disk \in [Block -> [Word -> Nat]]
        /\ s.ino \in InodeRec /\ h \in [Block -> 0..3] /\ O \subseteq Block
    BY <1>1 DEF Tree, TreeTypes
  <2>4. b \notin O /\ b \notin K /\ b \in Block
    BY <1>1, <2>2
  <2>5. /\ Tree(a.disk, a.ino, Q, k)
        /\ \A x, y : IsPlace(Q, k, x, y) => At(a.disk, a.ino, x, y) # b
    <3>1. /\ a.ino \in InodeRec /\ SamePointers(s.ino, a.ino) /\ a.ino.blocks = s.ino.blocks + 1
      BY <1>2, <2>2, <2>3 DEF CompRec, InodeRec, SamePointers
    <3>2. /\ a.disk \in [Block -> [Word -> Nat]] /\ a.disk[b] = Zeros
          /\ \A c \in Block : c # b => a.disk[c] = s.disk[c]
      BY <1>2, <2>2, <2>3 DEF CompRec
    <3>3. /\ k \in [Block -> 0..3] /\ k[b] = t /\ \A c \in Block : c # b => k[c] = h[c]
      BY <1>b, <2>1, <2>3, <2>4
    <3>4. /\ Tree(a.disk, a.ino, O \cup {b}, k)
          /\ \A x, y : IsPlace(O \cup {b}, k, x, y) => At(a.disk, a.ino, x, y) # b
      <4>1. PICK e : e = a.disk
        OBVIOUS
      <4>2. PICK j : j = a.ino
        OBVIOUS
      <4>3. PICK z : z = k
        OBVIOUS
      <4>4. Adding(s.disk, s.ino, O, h, t, b, e, j, z)
        BY <1>1, <2>4, <3>1, <3>2, <3>3, <4>1, <4>2, <4>3 DEF Adding
      <4>5. /\ Tree(e, j, O \cup {b}, z)
            /\ \A x, y : IsPlace(O \cup {b}, z, x, y) => At(e, j, x, y) # b
        BY <4>4, NewBlock
      <4> QED BY <4>1, <4>2, <4>3, <4>5
    <3> QED BY <1>a, <2>1, <3>4
  <2>6. a.disk[b] = Zeros /\ k[b] = t /\ \A c \in O : k[c] = h[c] /\ a.disk[c] = s.disk[c]
    BY <1>b, <2>1, <2>2, <2>3, <2>4
  <2>7. SamePointers(s.ino, a.ino)
    BY <2>2, <2>3 DEF SamePointers, InodeRec
  <2>8. \A l \in 1..3 : \A p : \A n \in 0..l :
           Way(a.disk, a.ino, l, p, n) = Way(s.disk, s.ino, l, p, n)
    BY <1>1, <2>6, <2>7, WaySame
  <2>9. \A fb \in FileBlock : Vw(a.disk, a.ino, fb) = V[fb]
    <3>1. FileBlock \subseteq Nat
      BY SfsFileAssumption
    <3>2. \A fb \in FileBlock : Vw(a.disk, a.ino, fb) = Vw(s.disk, s.ino, fb)
      <4>1. TAKE fb \in FileBlock
      <4>2. fb \in Nat /\ \A c \in O : a.disk[c] = s.disk[c]
        BY <2>6, <3>1, <4>1
      <4> QED BY <1>1, <2>7, <4>2, VwSame
    <3> QED BY <1>1, <3>2
  <2>10. \A c \in K : a.disk[c] = d0[c]
    <3>1. K \subseteq Block
      BY <1>1 DEF CompRec
    <3> QED BY <1>1, <2>2, <2>3, <2>4, <3>1
  <2>11. Q \subseteq a.map /\ K \subseteq a.map /\ K \cap Q = {}
    BY <1>1, <1>a, <2>1, <2>2, <2>4
  <2>12. Sound(a, Q, k, K, d0, V)
    BY <1>1, <1>2, <2>2, <2>5, <2>9, <2>10, <2>11 DEF Sound
  <2>13. SubtreeAdded(s, O, h, K, d0, V, t, a, Q, k)
    BY <1>a, <2>1, <2>2, <2>4, <2>5, <2>6, <2>7, <2>8, <2>12 DEF SubtreeAdded
  <2> QED BY <2>2, <2>13
<1> QED BY <1>3, <1>4

\* g is s with a new block put into the empty place X, Y.
Filling(s, O, h, K, d0, V, X, Y, a, g) ==
    /\ Sound(s, O, h, K, d0, V) /\ s.err = "ok"
    /\ IsPlace(O, h, X, Y) /\ At(s.disk, s.ino, X, Y) = 0
    /\ a = sfs_balloc(s) /\ a.err = "ok"
    /\ g \in CompRec /\ g.map = a.map /\ g.ino.blocks = a.ino.blocks
    /\ g.ino.size = a.ino.size
    /\ \A x \in Place, y \in Index : (IF x = 0 THEN y \in Index0 ELSE y \in Word) =>
          At(g.disk, g.ino, x, y) = IF x = X /\ y = Y THEN a.block ELSE At(a.disk, a.ino, x, y)
    /\ \A m \in Block : m # X => g.disk[m] = a.disk[m]

\* What is known of the computation afterwards.
Filled(s, O, h, K, d0, V, X, Y, a, g, Q, k) ==
    /\ Sound(g, Q, k, K, d0, V) /\ O \subseteq Q /\ \A b \in O : k[b] = h[b]
    /\ At(g.disk, g.ino, X, Y) = a.block /\ a.block \in Q /\ a.block \in Block
    /\ k[a.block] = HeightAt(h, X, Y)
    /\ \A l \in 1..3 : \A p : \A n \in 0..l :
          Way(s.disk, s.ino, l, p, n) # 0
             => Way(g.disk, g.ino, l, p, n) = Way(s.disk, s.ino, l, p, n)

LEMMA FillSound ==
    ASSUME NEW s, NEW O, NEW h, NEW K, NEW d0, NEW V, NEW X, NEW Y, NEW a, NEW g,
           Filling(s, O, h, K, d0, V, X, Y, a, g)
    PROVE  \E Q, k : Filled(s, O, h, K, d0, V, X, Y, a, g, Q, k)
<1>1. /\ Sound(s, O, h, K, d0, V) /\ s.err = "ok"
      /\ IsPlace(O, h, X, Y) /\ At(s.disk, s.ino, X, Y) = 0
      /\ a = sfs_balloc(s) /\ a.err = "ok"
      /\ g \in CompRec /\ g.map = a.map /\ g.ino.blocks = a.ino.blocks
      /\ g.ino.size = a.ino.size
  BY DEF Filling
<1>2. \A x \in Place, y \in Index : (IF x = 0 THEN y \in Index0 ELSE y \in Word) =>
         At(g.disk, g.ino, x, y) = IF x = X /\ y = Y THEN a.block ELSE At(a.disk, a.ino, x, y)
  BY DEF Filling
<1>3. \A m \in Block : m # X => g.disk[m] = a.disk[m]
  BY DEF Filling
<1>4. TreeTypes(s.disk, s.ino, O, h) /\ O \in SUBSET Block /\ h \in [Block -> 0..3]
      /\ Tree(s.disk, s.ino, O, h) /\ K \cap O = {}
  BY <1>1 DEF Sound, Tree, TreeTypes
<1>5. PICK t : t = HeightAt(h, X, Y)
  OBVIOUS
<1>6. t \in 0..3
  <2>1. CASE X = 0
    BY <1>1, <1>5, <2>1, PlaceFacts DEF IsPlace, HeightAt, Index0
  <2>2. CASE X # 0
    <3>1. X \in Block /\ h[X] \in 0..3 /\ h[X] > 0
      BY <1>1, <1>4, <2>2 DEF IsPlace
    <3> QED BY <1>5, <2>2, <3>1 DEF HeightAt
  <2> QED BY <2>1, <2>2
<1>7. PICK b : b = a.block
  OBVIOUS
<1>8. \E Q, k : SubtreeAdded(s, O, h, K, d0, V, t, a, Q, k)
  BY <1>1, <1>6, BallocSound
<1>9. PICK Q, k : SubtreeAdded(s, O, h, K, d0, V, t, a, Q, k)
  BY <1>8
<1>10. /\ Sound(a, Q, k, K, d0, V) /\ Q = O \cup {b} /\ b \in Block /\ b \notin O
       /\ k[b] = t /\ a.disk[b] = Zeros
       /\ \A c \in O : k[c] = h[c] /\ a.disk[c] = s.disk[c]
       /\ \A x, y : IsPlace(Q, k, x, y) => At(a.disk, a.ino, x, y) # b
       /\ SamePointers(s.ino, a.ino)
       /\ \A l \in 1..3 : \A p : \A n \in 0..l :
             Way(a.disk, a.ino, l, p, n) = Way(s.disk, s.ino, l, p, n)
  BY <1>7, <1>9 DEF SubtreeAdded
<1>11. /\ a \in CompRec /\ Q \subseteq a.map /\ Tree(a.disk, a.ino, Q, k)
       /\ K \subseteq a.map /\ K \cap Q = {} /\ \A c \in K : a.disk[c] = d0[c]
       /\ \A fb \in FileBlock : Vw(a.disk, a.ino, fb) = V[fb]
       /\ a.ino.size = V[EOF]
  BY <1>10 DEF Sound
<1>12. TreeTypes(a.disk, a.ino, Q, k) /\ Q \subseteq Block /\ k \in [Block -> 0..3]
  BY <1>11 DEF Tree, TreeTypes
<1>13. TreeTypes(g.disk, g.ino, Q, k)
  BY <1>1, <1>12 DEF TreeTypes, CompRec
<1>14. X \in Place /\ Y \in Index /\ (IF X = 0 THEN Y \in Index0 ELSE Y \in Word)
       /\ X # b /\ (X # 0 => X \in O /\ h[X] > 0)
  BY <1>1, <1>4, <1>10, PlaceFacts DEF IsPlace, Place
<1>15. IsPlace(Q, k, X, Y) /\ HeightAt(k, X, Y) = t
  BY <1>1, <1>5, <1>10, <1>14 DEF IsPlace, HeightAt
<1>16. At(a.disk, a.ino, X, Y) = 0
  <2>1. CASE X = 0
    BY <1>1, <1>10, <2>1 DEF At, SamePointers
  <2>2. CASE X # 0
    BY <1>1, <1>10, <1>14, <2>2 DEF At
  <2> QED BY <2>1, <2>2
<1>17. \A x, y : IsPlace(Q, k, x, y) =>
          At(g.disk, g.ino, x, y) = IF x = X /\ y = Y THEN b ELSE At(a.disk, a.ino, x, y)
  <2> SUFFICES ASSUME NEW x, NEW y, IsPlace(Q, k, x, y)
               PROVE  At(g.disk, g.ino, x, y) = IF x = X /\ y = Y THEN b
                                                ELSE At(a.disk, a.ino, x, y)
    OBVIOUS
  <2>1. x \in Place /\ y \in Index /\ (IF x = 0 THEN y \in Index0 ELSE y \in Word)
    BY <1>12, PlaceFacts DEF IsPlace, Place
  <2> QED BY <1>2, <1>7, <2>1
<1>18. \A m \in Q : k[m] = 0 => g.disk[m] = a.disk[m]
  <2> SUFFICES ASSUME NEW m \in Q, k[m] = 0 PROVE m # X /\ m \in Block
    BY <1>3
  <2>1. X # 0 => k[X] > 0
    BY <1>10, <1>14
  <2> QED BY <1>12, <2>1, PlaceFacts
<1>19. Linking(a.disk, a.ino, Q, k, b, X, Y, g.disk, g.ino)
  BY <1>10, <1>13, <1>15, <1>16, <1>17, <1>18, PlaceFacts DEF Linking
<1>20. PICK d : d = a.disk
  OBVIOUS
<1>21. PICK i : i = a.ino
  OBVIOUS
<1>22. PICK e : e = g.disk
  OBVIOUS
<1>23. PICK j : j = g.ino
  OBVIOUS
<1>24. Linking(d, i, Q, k, b, X, Y, e, j) /\ Tree(d, i, Q, k)
  BY <1>11, <1>19, <1>20, <1>21, <1>22, <1>23
<1>25. Tree(e, j, Q, k)
  BY <1>24, LinkBlock DEF Linking
<1>26. \A fb \in Nat : Vw(e, j, fb) = Vw(d, i, fb)
  BY <1>24, VwLinked
<1>27. \A l \in 1..3 : \A p : \A n \in 0..l : PlaceSet(Way(d, i, l, p, n), Way(e, j, l, p, n), b)
  BY <1>24, WayLinked
<1>28. \A c \in K : g.disk[c] = d0[c]
  <2>1. K \subseteq Block /\ X \notin K
    BY <1>4, <1>11, <1>14, PlaceFacts DEF CompRec
  <2> QED BY <1>3, <1>11, <2>1
<1>29. \A fb \in FileBlock : Vw(g.disk, g.ino, fb) = V[fb]
  <2>1. FileBlock \subseteq Nat
    BY SfsFileAssumption
  <2> QED BY <1>11, <1>20, <1>21, <1>22, <1>23, <1>26, <2>1
<1>30. Sound(g, Q, k, K, d0, V)
  BY <1>1, <1>11, <1>22, <1>23, <1>25, <1>28, <1>29 DEF Sound
<1>31. \A l \in 1..3 : \A p : \A n \in 0..l :
          Way(s.disk, s.ino, l, p, n) # 0
             => Way(g.disk, g.ino, l, p, n) = Way(s.disk, s.ino, l, p, n)
  BY <1>10, <1>20, <1>21, <1>22, <1>23, <1>27 DEF PlaceSet
<1>32. At(g.disk, g.ino, X, Y) = b
  BY <1>15, <1>17
<1>33. O \subseteq Q /\ b \in Q
  BY <1>10
<1>34. Filled(s, O, h, K, d0, V, X, Y, a, g, Q, k)
  BY <1>5, <1>7, <1>10, <1>30, <1>31, <1>32, <1>33 DEF Filled
<1> QED BY <1>34

\* The block in the buffer, and the block found, n steps down the path p from the
\* root of level l; with alloc they are those of the tree.
BlockLoaded(s, O, h, l, p, n, alloc) ==
    /\ s.id \in O /\ h[s.id] = l - n
    /\ alloc => s.id = Way(s.disk, s.ino, l, p, n)
Stage(s, O, h, l, p, n, alloc) ==
    /\ s.block = 0 \/ (s.block \in O /\ h[s.block] = l - n)
    /\ alloc => s.block # 0 /\ s.block = Way(s.disk, s.ino, l, p, n)

LoadedTo(s, K, d0, V, l, p, n, alloc) ==
    \E O, h : Sound(s, O, h, K, d0, V) /\ (s.err = "ok" => BlockLoaded(s, O, h, l, p, n, alloc))
FoundTo(s, K, d0, V, l, p, n, alloc) ==
    \E O, h : Sound(s, O, h, K, d0, V) /\ (s.err = "ok" => Stage(s, O, h, l, p, n, alloc))

\* The buffer, the block found and the error are nothing to the disk.
LEMMA SoundOther ==
    ASSUME NEW s, NEW O, NEW h, NEW K, NEW d0, NEW V, Sound(s, O, h, K, d0, V),
           NEW g \in CompRec, g.map = s.map, g.disk = s.disk, g.ino = s.ino
    PROVE  Sound(g, O, h, K, d0, V)
  BY DEF Sound

\* loadbuffer(b, 0).
LEMMA RootSound ==
    ASSUME NEW s, NEW O, NEW h, NEW K, NEW d0, NEW V, Sound(s, O, h, K, d0, V), s.err = "ok",
           NEW l \in 1..3, NEW p, NEW alloc, NEW r, r = LoadRoot(s, l)
    PROVE  LoadedTo(r, K, d0, V, l, p, 0, alloc)
<1>1. s \in CompRec /\ Tree(s.disk, s.ino, O, h) /\ s.ino \in InodeRec
  BY DEF Sound, CompRec
<1>2. PICK b : b = Root(s.ino, l)
  OBVIOUS
<1>3. b = At(s.disk, s.ino, 0, NDIRECT + l) /\ HeightAt(h, 0, NDIRECT + l) = l
      /\ IsPlace(O, h, 0, NDIRECT + l)
  BY <1>2, RootPlace
<1>4. CASE b # 0
  <2>1. b \in O /\ b \in Block /\ h[b] = l
    BY <1>1, <1>3, <1>4, HeldBlock
  <2>2. r = [s EXCEPT !.id = b]
    BY <1>2, <1>4 DEF LoadRoot
  <2>3. r \in CompRec /\ r.map = s.map /\ r.disk = s.disk /\ r.ino = s.ino /\ r.id = b
    BY <1>1, <2>1, <2>2, PlaceFacts DEF CompRec
  <2>4. Sound(r, O, h, K, d0, V)
    BY <2>3, SoundOther
  <2>5. BlockLoaded(r, O, h, l, p, 0, alloc)
    BY <1>2, <2>1, <2>3 DEF BlockLoaded, Way
  <2> QED BY <2>4, <2>5 DEF LoadedTo
<1>5. CASE b = 0
  <2>1. PICK a : a = sfs_balloc(s)
    OBVIOUS
  <2>2. a \in CompRec /\ (a.err = "ok" \/ a.err = "ENOSPC")
    <3>1. a.err = "ok" \/ a.err = "ENOSPC"
      <4>1. 0 \in 0..3
        OBVIOUS
      <4> QED BY <2>1, <4>1, BallocSound
    <3> QED BY <1>1, <2>1, <3>1, BallocFields
  <2>3. CASE a.err = "ENOSPC"
    <3>1. r = a
      BY <1>2, <1>5, <2>1, <2>3 DEF LoadRoot
    <3>2. Sound(a, O, h, K, d0, V)
      <4>1. 0 \in 0..3
        OBVIOUS
      <4> QED BY <2>1, <2>3, <4>1, BallocSound
    <3>3. r.err # "ok"
      BY <2>3, <3>1
    <3> QED BY <3>1, <3>2, <3>3 DEF LoadedTo
  <2>4. CASE a.err = "ok"
    <3>1. r = [a EXCEPT !.id = a.block, !.ino = SetRoot(@, l, a.block)]
      BY <1>2, <1>5, <2>1, <2>4 DEF LoadRoot
    <3>2. PICK j : j = SetRoot(a.ino, l, a.block)
      OBVIOUS
    <3>3. a.ino \in InodeRec /\ a.block \in Nat
      BY <2>2 DEF CompRec
    <3>4. /\ j \in InodeRec /\ j.blocks = a.ino.blocks /\ j.size = a.ino.size
          /\ \A x \in Place, y \in Index : (IF x = 0 THEN y \in Index0 ELSE y \in Word) =>
                At(a.disk, j, x, y) = IF x = 0 /\ y = NDIRECT + l THEN a.block
                                      ELSE At(a.disk, a.ino, x, y)
      <4>1. CASE l = 1
        <5>1. j = [a.ino EXCEPT !.indirect = a.block]
          BY <3>2, <4>1 DEF SetRoot
        <5>2. /\ j \in InodeRec /\ j.indirect = a.block
              /\ j.direct = a.ino.direct /\ j.doubleindirect = a.ino.doubleindirect
              /\ j.tripleindirect = a.ino.tripleindirect /\ j.blocks = a.ino.blocks /\ j.size = a.ino.size
          BY <3>3, <5>1 DEF InodeRec
        <5> QED BY <4>1, <5>2, PlaceFacts DEF At, Index0
      <4>2. CASE l = 2
        <5>1. j = [a.ino EXCEPT !.doubleindirect = a.block]
          BY <3>2, <4>2 DEF SetRoot
        <5>2. /\ j \in InodeRec /\ j.doubleindirect = a.block
              /\ j.direct = a.ino.direct /\ j.indirect = a.ino.indirect
              /\ j.tripleindirect = a.ino.tripleindirect /\ j.blocks = a.ino.blocks /\ j.size = a.ino.size
          BY <3>3, <5>1 DEF InodeRec
        <5> QED BY <4>2, <5>2, PlaceFacts DEF At, Index0
      <4>3. CASE l = 3
        <5>1. j = [a.ino EXCEPT !.tripleindirect = a.block]
          BY <3>2, <4>3 DEF SetRoot
        <5>2. /\ j \in InodeRec /\ j.tripleindirect = a.block
              /\ j.direct = a.ino.direct /\ j.indirect = a.ino.indirect
              /\ j.doubleindirect = a.ino.doubleindirect /\ j.blocks = a.ino.blocks /\ j.size = a.ino.size
          BY <3>3, <5>1 DEF InodeRec
        <5> QED BY <4>3, <5>2, PlaceFacts DEF At, Index0
      <4> QED BY <4>1, <4>2, <4>3
    <3>5. /\ r \in CompRec /\ r.map = a.map /\ r.disk = a.disk /\ r.ino = j /\ r.id = a.block
          /\ r.err = "ok"
      BY <2>2, <2>4, <3>1, <3>2, <3>3, <3>4 DEF CompRec
    <3>6. Filling(s, O, h, K, d0, V, 0, NDIRECT + l, a, r)
      BY <1>3, <1>5, <2>1, <2>4, <3>4, <3>5 DEF Filling
    <3>7. PICK Q, k : Filled(s, O, h, K, d0, V, 0, NDIRECT + l, a, r, Q, k)
      BY <3>6, FillSound
    <3>8. Sound(r, Q, k, K, d0, V) /\ a.block \in Q /\ k[a.block] = l
          /\ At(r.disk, r.ino, 0, NDIRECT + l) = a.block
      BY <1>3, <3>7 DEF Filled
    <3>9. Root(r.ino, l) = a.block
      BY <3>8, RootPlace
    <3>10. BlockLoaded(r, Q, k, l, p, 0, alloc)
      BY <3>5, <3>8, <3>9 DEF BlockLoaded, Way
    <3> QED BY <3>8, <3>10 DEF LoadedTo
  <2> QED BY <2>2, <2>3, <2>4
<1> QED BY <1>4, <1>5

\* loadbuffer(b, 1): the block it allocates without a place to put it into is
\* counted by the file all the same.
LEMMA InnerSound ==
    ASSUME NEW s, NEW O, NEW h, NEW K, NEW d0, NEW V, Sound(s, O, h, K, d0, V), s.err = "ok",
           NEW l \in 1..3, NEW p, NEW n \in 1..(l - 1), NEW alloc,
           Stage(s, O, h, l, p, n, alloc), NEW r, r = LoadInner(s)
    PROVE  LoadedTo(r, K, d0, V, l, p, n, alloc)
<1>1. s \in CompRec /\ Tree(s.disk, s.ino, O, h)
  BY DEF Sound
<1>2. PICK b : b = s.block
  OBVIOUS
<1>3. CASE b # 0
  <2>1. b \in O /\ h[b] = l - n /\ (alloc => b = Way(s.disk, s.ino, l, p, n)) /\ b \in Nat
    BY <1>1, <1>2, <1>3 DEF Stage, CompRec
  <2>2. r = [s EXCEPT !.id = b]
    BY <1>2, <1>3 DEF LoadInner
  <2>3. r \in CompRec /\ r.map = s.map /\ r.disk = s.disk /\ r.ino = s.ino /\ r.id = b
    BY <1>1, <2>1, <2>2 DEF CompRec
  <2>4. Sound(r, O, h, K, d0, V)
    BY <2>3, SoundOther
  <2>5. BlockLoaded(r, O, h, l, p, n, alloc)
    BY <2>1, <2>3 DEF BlockLoaded
  <2> QED BY <2>4, <2>5 DEF LoadedTo
<1>4. CASE b = 0
  <2>1. PICK a : a = sfs_balloc(s)
    OBVIOUS
  <2>2. PICK t : t = l - n
    OBVIOUS
  <2>3. t \in 0..3
    BY <2>2
  <2>4. /\ a.err = "ok" \/ a.err = "ENOSPC"
        /\ a.err = "ENOSPC" => Sound(a, O, h, K, d0, V)
        /\ a.err = "ok" => \E Q, k : SubtreeAdded(s, O, h, K, d0, V, t, a, Q, k)
    BY <2>1, <2>3, BallocSound
  <2>5. a \in CompRec /\ ~alloc
    BY <1>1, <1>2, <1>4, <2>1, BallocFields DEF Stage
  <2>6. CASE a.err = "ENOSPC"
    <3>1. r = a
      BY <1>2, <1>4, <2>1, <2>6 DEF LoadInner
    <3>2. r.err # "ok"
      BY <2>6, <3>1
    <3> QED BY <2>4, <2>6, <3>1, <3>2 DEF LoadedTo
  <2>7. CASE a.err = "ok"
    <3>1. PICK Q, k : SubtreeAdded(s, O, h, K, d0, V, t, a, Q, k)
      BY <2>4, <2>7
    <3>2. Sound(a, Q, k, K, d0, V) /\ a.block \in Q /\ k[a.block] = t /\ a.block \in Nat
      BY <2>5, <3>1 DEF SubtreeAdded, CompRec
    <3>3. r = [a EXCEPT !.id = a.block]
      BY <1>2, <1>4, <2>1, <2>7 DEF LoadInner
    <3>4. r \in CompRec /\ r.map = a.map /\ r.disk = a.disk /\ r.ino = a.ino /\ r.id = a.block
      BY <2>5, <3>2, <3>3 DEF CompRec
    <3>5. Sound(r, Q, k, K, d0, V)
      BY <3>2, <3>4, SoundOther
    <3>6. BlockLoaded(r, Q, k, l, p, n, alloc)
      BY <2>2, <2>5, <3>2, <3>4 DEF BlockLoaded
    <3> QED BY <3>5, <3>6 DEF LoadedTo
  <2> QED BY <2>4, <2>6, <2>7
<1> QED BY <1>3, <1>4

\* get_block.
LEMMA GetSound ==
    ASSUME NEW s, NEW O, NEW h, NEW K, NEW d0, NEW V, Sound(s, O, h, K, d0, V), s.err = "ok",
           NEW l \in 1..3, NEW p, NEW n \in 1..l, NEW alloc,
           BlockLoaded(s, O, h, l, p, n - 1, alloc), NEW r, r = get_block(s, p[n], alloc)
    PROVE  FoundTo(r, K, d0, V, l, p, n, alloc)
<1>1. s \in CompRec /\ Tree(s.disk, s.ino, O, h) /\ TreeTypes(s.disk, s.ino, O, h)
      /\ O \subseteq Block /\ s.disk \in [Block -> [Word -> Nat]]
  BY DEF Sound, Tree, TreeTypes
<1>2. PICK b : b = s.id
  OBVIOUS
<1>3. b \in O /\ b \in Block /\ h[b] = l - (n - 1) /\ h[b] > 0
      /\ (alloc => b = Way(s.disk, s.ino, l, p, n - 1))
  BY <1>1, <1>2 DEF BlockLoaded
<1>4. CASE p[n] \notin Word
  <2>1. r = [s EXCEPT !.err = "fault"]
    BY <1>4 DEF get_block
  <2>2. r \in CompRec /\ r.map = s.map /\ r.disk = s.disk /\ r.ino = s.ino /\ r.err # "ok"
    BY <1>1, <2>1 DEF CompRec
  <2> QED BY <2>2, SoundOther DEF FoundTo
<1>5. CASE p[n] \in Word
  <2>1. PICK y : y = p[n]
    OBVIOUS
  <2>2. PICK m : m = s.disk[b][y]
    OBVIOUS
  <2>3. /\ IsPlace(O, h, b, y) /\ At(s.disk, s.ino, b, y) = m /\ b # 0
        /\ HeightAt(h, b, y) = h[b] - 1 /\ En(s.disk, b, y) = m /\ y \in Word /\ y \in Index
    <3>1. y \in Word /\ y \in Index
      BY <1>5, <2>1, PlaceFacts
    <3>2. /\ IsPlace(O, h, b, y) /\ At(s.disk, s.ino, b, y) = En(s.disk, b, y) /\ b # 0
          /\ HeightAt(h, b, y) = h[b] - 1 /\ En(s.disk, b, y) = s.disk[b][y]
      BY <1>1, <1>3, <3>1, EntryPlace
    <3> QED BY <2>2, <3>1, <3>2
  <2>4. alloc => Way(s.disk, s.ino, l, p, n) = m
    BY <1>3, <2>1, <2>3, WayStep
  <2>5. m # 0 => m \in O /\ h[m] = l - n
    <3>1. m # 0 => m \in O /\ h[m] = h[b] - 1
      BY <1>1, <2>3, HeldBlock
    <3> QED BY <1>3, <3>1
  <2>6. m \in Nat
    BY <1>1, <1>3, <2>2, <2>3
  <2>7. CASE m # 0 \/ ~alloc
    <3>1. r = [s EXCEPT !.block = m]
      BY <1>2, <1>5, <2>1, <2>2, <2>7 DEF get_block
    <3>2. r \in CompRec /\ r.map = s.map /\ r.disk = s.disk /\ r.ino = s.ino /\ r.block = m
      BY <1>1, <2>6, <3>1 DEF CompRec
    <3>3. Sound(r, O, h, K, d0, V)
      BY <3>2, SoundOther
    <3>4. Stage(r, O, h, l, p, n, alloc)
      BY <2>4, <2>5, <2>7, <3>2 DEF Stage
    <3> QED BY <3>3, <3>4 DEF FoundTo
  <2>8. CASE m = 0 /\ alloc
    <3>1. PICK a : a = sfs_balloc(s)
      OBVIOUS
    <3>2. PICK t : t = 0 /\ t \in 0..3
      OBVIOUS
    <3>3. /\ a.err = "ok" \/ a.err = "ENOSPC"
          /\ a.err = "ENOSPC" => Sound(a, O, h, K, d0, V)
      BY <3>1, <3>2, BallocSound
    <3>4. a \in CompRec
      BY <1>1, <3>1, BallocFields
    <3>5. CASE a.err = "ENOSPC"
      <4>1. r = a
        BY <1>2, <1>5, <2>1, <2>2, <2>8, <3>1, <3>5 DEF get_block
      <4>2. r.err # "ok"
        BY <3>5, <4>1
      <4> QED BY <3>3, <3>5, <4>1, <4>2 DEF FoundTo
    <3>6. CASE a.err = "ok"
      <4>1. r = [a EXCEPT !.disk[b][y] = a.block]
        BY <1>2, <1>5, <2>1, <2>2, <2>8, <3>1, <3>6 DEF get_block
      <4>2. a.disk \in [Block -> [Word -> Nat]] /\ a.block \in Nat
        BY <3>4 DEF CompRec
      <4>3. PICK e : e = [a.disk EXCEPT ![b][y] = a.block]
        OBVIOUS
      <4>4. /\ e \in [Block -> [Word -> Nat]] /\ \A x \in Block : x # b => e[x] = a.disk[x]
            /\ \A z \in Word : e[b][z] = IF z = y THEN a.block ELSE a.disk[b][z]
        BY <1>3, <2>3, <4>2, <4>3
      <4>5. r = [map |-> a.map, disk |-> e, ino |-> a.ino, id |-> a.id, block |-> a.block,
                 err |-> a.err]
        BY <3>4, <4>1, <4>3 DEF CompRec
      <4>6. /\ r \in CompRec /\ r.map = a.map /\ r.disk = e /\ r.ino = a.ino
            /\ r.block = a.block
        BY <3>4, <4>4, <4>5 DEF CompRec
      <4>7. \A x \in Place, z \in Index : (IF x = 0 THEN z \in Index0 ELSE z \in Word) =>
               At(e, a.ino, x, z) = IF x = b /\ z = y THEN a.block ELSE At(a.disk, a.ino, x, z)
        BY <1>3, <2>3, <4>4, PlaceFacts DEF At, Place
      <4>8. Filling(s, O, h, K, d0, V, b, y, a, r)
        <5>1. \A x \in Place, z \in Index : (IF x = 0 THEN z \in Index0 ELSE z \in Word) =>
                 At(r.disk, r.ino, x, z) = IF x = b /\ z = y THEN a.block
                                           ELSE At(a.disk, a.ino, x, z)
          BY <4>6, <4>7
        <5>2. \A x \in Block : x # b => r.disk[x] = a.disk[x]
          BY <4>4, <4>6
        <5>3. r.ino.blocks = a.ino.blocks /\ r.ino.size = a.ino.size /\ At(s.disk, s.ino, b, y) = 0
          BY <2>3, <2>8, <4>6
        <5> QED BY <2>3, <3>1, <3>6, <4>6, <5>1, <5>2, <5>3 DEF Filling
      <4>9. PICK Q, k : Filled(s, O, h, K, d0, V, b, y, a, r, Q, k)
        BY <4>8, FillSound
      <4>10. /\ Sound(r, Q, k, K, d0, V) /\ a.block \in Q /\ a.block \in Block
             /\ k[a.block] = HeightAt(h, b, y) /\ At(r.disk, r.ino, b, y) = a.block
             /\ \A q : \A c \in 0..l : Way(s.disk, s.ino, l, q, c) # 0
                   => Way(r.disk, r.ino, l, q, c) = Way(s.disk, s.ino, l, q, c)
        BY <4>9 DEF Filled
      <4>11. Way(r.disk, r.ino, l, p, n - 1) = b
        <5>1. n - 1 \in 0..l /\ b = Way(s.disk, s.ino, l, p, n - 1)
          BY <1>3, <2>8
        <5> QED BY <2>3, <4>10, <5>1
      <4>12. Way(r.disk, r.ino, l, p, n) = a.block
        <5>1. Way(r.disk, r.ino, l, p, n) = En(r.disk, b, y)
          <6>1. n \in 1..3
            OBVIOUS
          <6>2. Way(r.disk, r.ino, l, p, n) = En(r.disk, Way(r.disk, r.ino, l, p, n - 1), p[n])
            BY <6>1, WayStep
          <6> QED BY <2>1, <4>11, <6>2
        <5>2. En(r.disk, b, y) = At(r.disk, r.ino, b, y)
          BY <2>3 DEF En, At
        <5> QED BY <4>10, <5>1, <5>2
      <4>13. k[a.block] = l - n /\ a.block # 0
        BY <1>3, <2>3, <4>10, PlaceFacts
      <4>14. Stage(r, Q, k, l, p, n, alloc)
        BY <4>6, <4>10, <4>12, <4>13 DEF Stage
      <4> QED BY <4>10, <4>14 DEF FoundTo
    <3> QED BY <3>3, <3>5, <3>6
  <2> QED BY <2>7, <2>8
<1> QED BY <1>4, <1>5

\* One level more of the descent.
LEMMA DeeperSound ==
    ASSUME NEW s, NEW K, NEW d0, NEW V, NEW l \in 1..3, NEW p, NEW n \in 1..(l - 1), NEW alloc,
           FoundTo(s, K, d0, V, l, p, n, alloc), NEW r, r = Deeper(s, p[n + 1], alloc)
    PROVE  FoundTo(r, K, d0, V, l, p, n + 1, alloc)
<1>1. PICK O, h : Sound(s, O, h, K, d0, V) /\ (s.err = "ok" => Stage(s, O, h, l, p, n, alloc))
  BY DEF FoundTo
<1>2. PICK L : L = LoadInner(s)
  OBVIOUS
<1>3. CASE s.err # "ok"
  <2>1. r = s
    BY <1>3 DEF Deeper
  <2> QED BY <1>1, <1>3, <2>1 DEF FoundTo
<1>4. CASE s.err = "ok"
  <2>1. LoadedTo(L, K, d0, V, l, p, n, alloc)
    BY <1>1, <1>2, <1>4, InnerSound
  <2>2. PICK P, k : Sound(L, P, k, K, d0, V)
                    /\ (L.err = "ok" => BlockLoaded(L, P, k, l, p, n, alloc))
    BY <2>1 DEF LoadedTo
  <2>3. CASE L.err # "ok"
    <3>1. r = L
      BY <1>2, <1>4, <2>3 DEF Deeper
    <3> QED BY <2>2, <2>3, <3>1 DEF FoundTo
  <2>4. CASE L.err = "ok"
    <3>1. PICK m : m = n + 1
      OBVIOUS
    <3>2. m \in 1..l /\ m - 1 = n
      BY <3>1
    <3>3. r = get_block(L, p[m], alloc)
      BY <1>2, <1>4, <2>4, <3>1 DEF Deeper
    <3>4. BlockLoaded(L, P, k, l, p, m - 1, alloc)
      BY <2>2, <2>4, <3>2
    <3>5. FoundTo(r, K, d0, V, l, p, m, alloc)
      BY <2>2, <2>4, <3>2, <3>3, <3>4, GetSound
    <3> QED BY <3>1, <3>5
  <2> QED BY <2>3, <2>4
<1> QED BY <1>3, <1>4

LEMMA DescendSound ==
    ASSUME NEW s, NEW K, NEW d0, NEW V, NEW l \in 1..3, NEW p, Len(p) = l, NEW alloc,
           LoadedTo(s, K, d0, V, l, p, 0, alloc), s.err = "ok", NEW r, r = Descend(s, p, alloc)
    PROVE  FoundTo(r, K, d0, V, l, p, l, alloc)
<1>1. PICK one : one = get_block(s, p[1], alloc)
  OBVIOUS
<1>2. PICK two : two = Deeper(one, p[2], alloc)
  OBVIOUS
<1>3. PICK three : three = Deeper(two, p[3], alloc)
  OBVIOUS
<1>4. r = IF l = 1 THEN one ELSE IF l = 2 THEN two ELSE three
  <2>1. l = 1 \/ l = 2 \/ l = 3
    OBVIOUS
  <2> QED BY <1>1, <1>2, <1>3, <2>1 DEF Descend
<1>5. PICK O, h : Sound(s, O, h, K, d0, V) /\ BlockLoaded(s, O, h, l, p, 0, alloc)
  BY DEF LoadedTo
<1>6. FoundTo(one, K, d0, V, l, p, 1, alloc)
  <2>1. 1 \in 1..l /\ 1 - 1 = 0
    OBVIOUS
  <2>2. BlockLoaded(s, O, h, l, p, 1 - 1, alloc)
    BY <1>5, <2>1
  <2> QED BY <1>1, <1>5, <2>1, <2>2, GetSound
<1>7. l > 1 => FoundTo(two, K, d0, V, l, p, 2, alloc)
  <2> SUFFICES ASSUME l > 1 PROVE FoundTo(two, K, d0, V, l, p, 1 + 1, alloc)
    OBVIOUS
  <2>1. 1 \in 1..(l - 1) /\ two = Deeper(one, p[1 + 1], alloc)
    BY <1>2
  <2> QED BY <1>6, <2>1, DeeperSound
<1>8. l > 2 => FoundTo(three, K, d0, V, l, p, 3, alloc)
  <2> SUFFICES ASSUME l > 2 PROVE FoundTo(three, K, d0, V, l, p, 2 + 1, alloc)
    OBVIOUS
  <2>1. 2 \in 1..(l - 1) /\ three = Deeper(two, p[2 + 1], alloc)
    BY <1>3
  <2> QED BY <1>7, <2>1, DeeperSound
<1>9. l = 1 \/ l = 2 \/ l = 3
  OBVIOUS
<1> QED BY <1>4, <1>6, <1>7, <1>8, <1>9

\* sfs_bmap keeps the tree, the blocks of others and all that can be read; when it
\* allocates and does not fail, it finds the block that the file block is mapped to.
Mapping(r, K, d0, V, fb, alloc) ==
    \E O, h : /\ Sound(r, O, h, K, d0, V)
              /\ r.err = "ok" /\ alloc => r.block # 0 /\ r.block = Mp(r.disk, r.ino, fb)

LEMMA DirectSound ==
    ASSUME NEW s, NEW O, NEW h, NEW K, NEW d0, NEW V, Sound(s, O, h, K, d0, V), s.err = "ok",
           NEW fb \in Nat, fb < NDIRECT, NEW alloc, NEW r, r = bmap_direct(s, fb, alloc)
    PROVE  Mapping(r, K, d0, V, fb, alloc)
<1>1. s \in CompRec /\ s.ino \in InodeRec /\ fb \in 0..(NDIRECT - 1) /\ fb \in Index
  BY DirectPlace, PlaceFacts DEF Sound, CompRec, Index, Index0
<1>2. \A d, i : Mp(d, i, fb) = i.direct[fb]
  <2>1. Level(fb) = 0
    BY PathLevel
  <2> QED BY <2>1, MpWay
<1>3. PICK b : b = s.ino.direct[fb]
  OBVIOUS
<1>4. b \in Nat
  BY <1>1, <1>3 DEF InodeRec
<1>5. CASE b # 0 \/ ~alloc
  <2>1. r = [s EXCEPT !.block = b]
    BY <1>3, <1>5 DEF bmap_direct
  <2>2. r \in CompRec /\ r.map = s.map /\ r.disk = s.disk /\ r.ino = s.ino /\ r.block = b
    BY <1>1, <1>4, <2>1 DEF CompRec
  <2>3. Sound(r, O, h, K, d0, V)
    BY <2>2, SoundOther
  <2> QED BY <1>2, <1>3, <1>5, <2>2, <2>3 DEF Mapping
<1>6. CASE b = 0 /\ alloc
  <2>1. PICK a : a = sfs_balloc(s)
    OBVIOUS
  <2>2. PICK t : t = 0 /\ t \in 0..3
    OBVIOUS
  <2>3. /\ a.err = "ok" \/ a.err = "ENOSPC"
        /\ a.err = "ENOSPC" => Sound(a, O, h, K, d0, V)
    BY <2>1, <2>2, BallocSound
  <2>4. a \in CompRec
    BY <1>1, <2>1, BallocFields
  <2>5. CASE a.err = "ENOSPC"
    <3>1. r = a
      BY <1>3, <1>6, <2>1, <2>5 DEF bmap_direct
    <3>2. r.err # "ok"
      BY <2>5, <3>1
    <3> QED BY <2>3, <2>5, <3>1, <3>2 DEF Mapping
  <2>6. CASE a.err = "ok"
    <3>1. r = [a EXCEPT !.ino.direct[fb] = a.block]
      BY <1>3, <1>6, <2>1, <2>6 DEF bmap_direct
    <3>2. a.ino \in InodeRec /\ a.block \in Nat
      BY <2>4 DEF CompRec
    <3>3. PICK j : j = [a.ino EXCEPT !.direct[fb] = a.block]
      OBVIOUS
    <3>4. /\ j \in InodeRec /\ j.blocks = a.ino.blocks /\ j.size = a.ino.size /\ j.indirect = a.ino.indirect
          /\ j.doubleindirect = a.ino.doubleindirect /\ j.tripleindirect = a.ino.tripleindirect
          /\ \A y \in 0..(NDIRECT - 1) :
                j.direct[y] = IF y = fb THEN a.block ELSE a.ino.direct[y]
      BY <1>1, <3>2, <3>3 DEF InodeRec
    <3>5. r = [map |-> a.map, disk |-> a.disk, ino |-> j, id |-> a.id, block |-> a.block,
               err |-> a.err]
      BY <2>4, <3>1, <3>3 DEF CompRec
    <3>6. /\ r \in CompRec /\ r.map = a.map /\ r.disk = a.disk /\ r.ino = j
          /\ r.block = a.block
      BY <2>4, <3>4, <3>5 DEF CompRec
    <3>7. \A x \in Place, z \in Index : (IF x = 0 THEN z \in Index0 ELSE z \in Word) =>
             At(a.disk, j, x, z) = IF x = 0 /\ z = fb THEN a.block ELSE At(a.disk, a.ino, x, z)
      BY <1>1, <3>4, PlaceFacts DEF At, Index0
    <3>8. /\ IsPlace(O, h, 0, fb) /\ At(s.disk, s.ino, 0, fb) = 0
      BY <1>3, <1>6, DirectPlace
    <3>9. Filling(s, O, h, K, d0, V, 0, fb, a, r)
      <4>1. \A x \in Place, z \in Index : (IF x = 0 THEN z \in Index0 ELSE z \in Word) =>
               At(r.disk, r.ino, x, z) = IF x = 0 /\ z = fb THEN a.block
                                         ELSE At(a.disk, a.ino, x, z)
        BY <3>6, <3>7
      <4>2. r.ino.blocks = a.ino.blocks /\ r.ino.size = a.ino.size /\ \A m \in Block : r.disk[m] = a.disk[m]
        BY <3>4, <3>6
      <4> QED BY <2>1, <2>6, <3>6, <3>8, <4>1, <4>2 DEF Filling
    <3>10. PICK Q, k : Filled(s, O, h, K, d0, V, 0, fb, a, r, Q, k)
      BY <3>9, FillSound
    <3>11. Sound(r, Q, k, K, d0, V) /\ a.block # 0
      BY <3>10, PlaceFacts DEF Filled
    <3>12. r.ino.direct[fb] = a.block
      BY <1>1, <3>4, <3>6
    <3> QED BY <1>2, <3>6, <3>11, <3>12 DEF Mapping
  <2> QED BY <2>3, <2>5, <2>6
<1> QED BY <1>5, <1>6

LEMMA BmapSound ==
    ASSUME NEW f, NEW O, NEW h, NEW K, NEW d0, NEW V, Sound(Start(f), O, h, K, d0, V),
           NEW fb \in Nat, NEW alloc, NEW r, r = sfs_bmap(f, fb, alloc)
    PROVE  Mapping(r, K, d0, V, fb, alloc)
<1>1. PICK s : s = Start(f)
  OBVIOUS
<1>2. PICK l : l = Level(fb)
  OBVIOUS
<1>3. s.err = "ok" /\ Sound(s, O, h, K, d0, V) /\ s \in CompRec
  BY <1>1 DEF Start, Sound
<1>4. l \in 0..3 /\ Len(IndexPath(fb)) = l /\ (l = 0 <=> fb < NDIRECT)
  BY <1>2, PathLevel
<1>5. CASE l = 0
  <2>1. r = bmap_direct(s, fb, alloc)
    BY <1>1, <1>2, <1>5 DEF sfs_bmap
  <2> QED BY <1>3, <1>4, <1>5, <2>1, DirectSound
<1>6. CASE l # 0 /\ TooBig(fb)
  <2>1. r = [s EXCEPT !.err = "EINVAL"]
    BY <1>1, <1>2, <1>6 DEF sfs_bmap
  <2>2. r \in CompRec /\ r.map = s.map /\ r.disk = s.disk /\ r.ino = s.ino /\ r.err # "ok"
    BY <1>3, <2>1 DEF CompRec
  <2> QED BY <1>3, <2>2, SoundOther DEF Mapping
<1>7. CASE l # 0 /\ ~TooBig(fb) /\ Root(s.ino, l) = 0 /\ ~alloc
  <2>1. r = s
    BY <1>1, <1>2, <1>7 DEF sfs_bmap
  <2> QED BY <1>3, <1>7, <2>1 DEF Mapping
<1>8. CASE l # 0 /\ ~TooBig(fb) /\ ~(Root(s.ino, l) = 0 /\ ~alloc)
  <2>1. PICK q : q = LoadRoot(s, l)
    OBVIOUS
  <2>2. PICK p : p = IndexPath(fb)
    OBVIOUS
  <2>3. l \in 1..3 /\ Len(p) = l
    BY <1>4, <1>8, <2>2
  <2>4. LoadedTo(q, K, d0, V, l, p, 0, alloc)
    BY <1>3, <2>1, <2>3, RootSound
  <2>5. r = IF q.err # "ok" THEN q ELSE Descend(q, p, alloc)
    BY <1>1, <1>2, <1>8, <2>1, <2>2 DEF sfs_bmap
  <2>6. CASE q.err # "ok"
    BY <2>4, <2>5, <2>6 DEF LoadedTo, Mapping
  <2>7. CASE q.err = "ok"
    <3>1. FoundTo(r, K, d0, V, l, p, l, alloc)
      BY <2>3, <2>4, <2>5, <2>7, DescendSound
    <3>2. PICK Q, k : Sound(r, Q, k, K, d0, V)
                      /\ (r.err = "ok" => Stage(r, Q, k, l, p, l, alloc))
      BY <3>1 DEF FoundTo
    <3>3. \A d, i : Mp(d, i, fb) = Way(d, i, l, p, l)
      BY <1>2, <1>8, <2>2, MpWay
    <3>4. r.err = "ok" /\ alloc => r.block # 0 /\ r.block = Mp(r.disk, r.ino, fb)
      BY <3>2, <3>3 DEF Stage
    <3> QED BY <3>2, <3>4 DEF Mapping
  <2> QED BY <2>6, <2>7
<1> QED BY <1>5, <1>6, <1>7, <1>8

----------------------------------------------------------------------------
(* No block is found for two file blocks *)

\* The last step of a way that leads somewhere.
LEMMA WayLast ==
    ASSUME NEW d, NEW i, NEW O, NEW h, Tree(d, i, O, h), NEW l \in 1..3, NEW p,
           NEW n \in 1..l, Way(d, i, l, p, n) # 0
    PROVE  LET u == Way(d, i, l, p, n - 1)
           IN u # 0 /\ u \in Place /\ p[n] \in Index /\ IsPlace(O, h, u, p[n])
              /\ At(d, i, u, p[n]) = Way(d, i, l, p, n)
<1>1. PICK u : u = Way(d, i, l, p, n - 1)
  OBVIOUS
<1>2. Way(d, i, l, p, n) = En(d, u, p[n])
  BY <1>1, WayStep
<1>3. u # 0 /\ p[n] \in Word
  BY <1>2 DEF En
<1>4. n - 1 \in 0..l /\ l - (n - 1) > 0
  OBVIOUS
<1>5. u \in O /\ u \in Block /\ h[u] > 0
  BY <1>1, <1>3, <1>4, WayInTree
<1>6. TreeTypes(d, i, O, h)
  BY DEF Tree
<1>7. IsPlace(O, h, u, p[n]) /\ At(d, i, u, p[n]) = En(d, u, p[n])
  BY <1>3, <1>5, <1>6, EntryPlace
<1> QED BY <1>1, <1>2, <1>3, <1>5, <1>7, PlaceFacts

\* Two ways that lead to the same block are the same.
SameWay(d, i, l, p, l2, q, n) ==
    \A m \in 0..l2 : Way(d, i, l, p, n) # 0 /\ Way(d, i, l, p, n) = Way(d, i, l2, q, m)
        => l = l2 /\ n = m /\ \A k \in 1..n : p[k] = q[k]

LEMMA WayOnce ==
    ASSUME NEW d, NEW i, NEW O, NEW h, Tree(d, i, O, h),
           NEW l \in 1..3, NEW p, NEW l2 \in 1..3, NEW q
    PROVE  \A n \in 0..l : SameWay(d, i, l, p, l2, q, n)
<1>1. \A x, x2 \in Place, y, y2 \in Index :
         /\ IsPlace(O, h, x, y) /\ IsPlace(O, h, x2, y2)
         /\ At(d, i, x, y) # 0 /\ At(d, i, x, y) = At(d, i, x2, y2)
         => x = x2 /\ y = y2
  BY DEF Tree, Once
<1>2. \A t \in 1..3 : NDIRECT + t \in Index /\ 0 \in Place
  BY PlaceFacts DEF Index, Index0
<1>3. SameWay(d, i, l, p, l2, q, 0)
  <2> SUFFICES ASSUME NEW m \in 0..l2, Way(d, i, l, p, 0) # 0,
                      Way(d, i, l, p, 0) = Way(d, i, l2, q, m)
               PROVE  l = l2 /\ m = 0
    BY DEF SameWay
  <2>1. /\ IsPlace(O, h, 0, NDIRECT + l)
        /\ At(d, i, 0, NDIRECT + l) = Way(d, i, l, p, 0)
    BY RootPlace DEF Way
  <2>2. CASE m = 0
    <3>1. /\ IsPlace(O, h, 0, NDIRECT + l2)
          /\ At(d, i, 0, NDIRECT + l2) = Way(d, i, l2, q, 0)
      BY RootPlace DEF Way
    <3>2. NDIRECT + l = NDIRECT + l2
      BY <1>1, <1>2, <2>1, <2>2, <3>1
    <3> QED BY <2>2, <3>2, PlaceFacts
  <2>3. CASE m # 0
    <3>1. m \in 1..l2
      BY <2>3
    <3>2. PICK u : u = Way(d, i, l2, q, m - 1)
      OBVIOUS
    <3>3. u # 0 /\ u \in Place /\ q[m] \in Index /\ IsPlace(O, h, u, q[m])
          /\ At(d, i, u, q[m]) = Way(d, i, l2, q, m)
      BY <3>1, <3>2, WayLast
    <3>4. 0 = u
      BY <1>1, <1>2, <2>1, <3>3
    <3> QED BY <3>3, <3>4
  <2> QED BY <2>2, <2>3
<1>4. ASSUME NEW n \in 1..l, SameWay(d, i, l, p, l2, q, n - 1)
      PROVE  SameWay(d, i, l, p, l2, q, n)
  <2> SUFFICES ASSUME NEW m \in 0..l2, Way(d, i, l, p, n) # 0,
                      Way(d, i, l, p, n) = Way(d, i, l2, q, m)
               PROVE  l = l2 /\ n = m /\ \A k \in 1..n : p[k] = q[k]
    BY DEF SameWay
  <2>1. PICK u : u = Way(d, i, l, p, n - 1)
    OBVIOUS
  <2>2. u # 0 /\ u \in Place /\ p[n] \in Index /\ IsPlace(O, h, u, p[n])
        /\ At(d, i, u, p[n]) = Way(d, i, l, p, n)
    BY <2>1, WayLast
  <2>3. CASE m = 0
    <3>1. /\ IsPlace(O, h, 0, NDIRECT + l2)
          /\ At(d, i, 0, NDIRECT + l2) = Way(d, i, l2, q, 0)
      BY RootPlace DEF Way
    <3>2. 0 = u
      BY <1>1, <1>2, <2>2, <2>3, <3>1
    <3> QED BY <2>2, <3>2
  <2>4. CASE m # 0
    <3>1. m \in 1..l2 /\ m - 1 \in 0..l2
      BY <2>4
    <3>2. PICK w : w = Way(d, i, l2, q, m - 1)
      OBVIOUS
    <3>3. w # 0 /\ w \in Place /\ q[m] \in Index /\ IsPlace(O, h, w, q[m])
          /\ At(d, i, w, q[m]) = Way(d, i, l2, q, m)
      BY <3>1, <3>2, WayLast
    <3>4. u = w /\ p[n] = q[m]
      BY <1>1, <2>2, <3>3
    <3>5. l = l2 /\ n - 1 = m - 1 /\ \A k \in 1..(n - 1) : p[k] = q[k]
      BY <1>4, <2>1, <2>2, <3>1, <3>2, <3>4 DEF SameWay
    <3> QED BY <3>4, <3>5
  <2> QED BY <2>3, <2>4
<1>5. CASE l = 1
  BY <1>3, <1>4, <1>5
<1>6. CASE l = 2
  <2>1. SameWay(d, i, l, p, l2, q, 1)
    BY <1>3, <1>4, <1>6
  <2>2. SameWay(d, i, l, p, l2, q, 2)
    BY <2>1, <1>4, <1>6
  <2> QED BY <1>3, <1>6, <2>1, <2>2
<1>7. CASE l = 3
  <2>1. SameWay(d, i, l, p, l2, q, 1)
    BY <1>3, <1>4, <1>7
  <2>2. SameWay(d, i, l, p, l2, q, 2)
    BY <2>1, <1>4, <1>7
  <2>3. SameWay(d, i, l, p, l2, q, 3)
    BY <2>2, <1>4, <1>7
  <2> QED BY <1>3, <1>7, <2>1, <2>2, <2>3
<1> QED BY <1>5, <1>6, <1>7

\* A quotient and a remainder give the number.
LEMMA DivMod ==
    ASSUME NEW n \in Nat, n > 0, NEW a \in Int, NEW b \in Int,
           a \div n = b \div n, a % n = b % n
    PROVE  a = b
<1>1. a = n * (a \div n) + (a % n)
  OBVIOUS
<1>2. b = n * (b \div n) + (b % n)
  OBVIOUS
<1> QED BY <1>1, <1>2

\* The indices tell the file block.
LEMMA PathOnce ==
    ASSUME NEW fb \in Nat, NEW gb \in Nat, Level(fb) = Level(gb), Level(fb) # 0,
           \A k \in 1..Level(fb) : IndexPath(fb)[k] = IndexPath(gb)[k]
    PROVE  fb = gb
<1>1. NDIRECT \in Nat /\ DBPERIDB \in Nat /\ DBPERIDB > 0 /\ NDouble \in Nat
  BY PlaceFacts DEF NDouble
<1>2. Level(fb) = 1 \/ Level(fb) = 2 \/ Level(fb) = 3
  BY PathLevel
<1>3. PICK a : a = fb - NDIRECT
  OBVIOUS
<1>4. PICK b : b = gb - NDIRECT
  OBVIOUS
<1>5. a \in Int /\ b \in Int /\ (a = b => fb = gb)
  BY <1>1, <1>3, <1>4
<1>6. CASE Level(fb) = 1
  <2>1. \A c \in Nat : Level(c) = 1 => c >= NDIRECT /\ c - NDIRECT < DBPERIDB
    <3> SUFFICES ASSUME NEW c \in Nat, ~(c >= NDIRECT /\ c - NDIRECT < DBPERIDB) PROVE Level(c) # 1
      OBVIOUS
    <3>1. CASE c < NDIRECT
      BY <1>1, <3>1 DEF Level
    <3>2. CASE c >= NDIRECT /\ c - NDIRECT >= DBPERIDB
      BY <1>1, <3>2 DEF Level
    <3> QED BY <1>1, <3>1, <3>2
  <2>2. a \in 0..(DBPERIDB - 1) /\ b \in 0..(DBPERIDB - 1)
    <3>1. fb >= NDIRECT /\ fb - NDIRECT < DBPERIDB
      BY <1>6, <2>1
    <3>2. gb >= NDIRECT /\ gb - NDIRECT < DBPERIDB
      BY <1>6, <2>1
    <3> QED BY <1>1, <1>3, <1>4, <3>1, <3>2
  <2>3. IndexPath(fb) = <<a % DBPERIDB>> /\ IndexPath(gb) = <<b % DBPERIDB>>
    BY <1>3, <1>4, <1>6 DEF IndexPath
  <2>4. a % DBPERIDB = b % DBPERIDB
    BY <1>6, <2>3
  <2>5. a % DBPERIDB = a /\ b % DBPERIDB = b
    BY <1>1, <2>2
  <2> QED BY <1>5, <2>4, <2>5
<1>7. CASE Level(fb) = 2
  <2>1. PICK o : o = a - DBPERIDB
    OBVIOUS
  <2>2. PICK u : u = b - DBPERIDB
    OBVIOUS
  <2>3. /\ IndexPath(fb) = <<o \div DBPERIDB, o % DBPERIDB>>
        /\ IndexPath(gb) = <<u \div DBPERIDB, u % DBPERIDB>>
    BY <1>3, <1>4, <1>7, <2>1, <2>2 DEF IndexPath
  <2>4. IndexPath(fb)[1] = IndexPath(gb)[1] /\ IndexPath(fb)[2] = IndexPath(gb)[2]
    BY <1>7
  <2>5. o \div DBPERIDB = u \div DBPERIDB /\ o % DBPERIDB = u % DBPERIDB
    BY <2>3, <2>4
  <2>6. o = u
    BY <1>1, <1>5, <2>1, <2>2, <2>5, DivMod
  <2> QED BY <1>1, <1>5, <2>1, <2>2, <2>6
<1>8. CASE Level(fb) = 3
  <2>1. PICK o : o = a - (NDouble - DBPERIDB)
    OBVIOUS
  <2>2. PICK u : u = b - (NDouble - DBPERIDB)
    OBVIOUS
  <2>3. /\ IndexPath(fb) = <<o \div NDouble, o \div DBPERIDB, o % DBPERIDB>>
        /\ IndexPath(gb) = <<u \div NDouble, u \div DBPERIDB, u % DBPERIDB>>
    BY <1>3, <1>4, <1>8, <2>1, <2>2 DEF IndexPath
  <2>4. IndexPath(fb)[2] = IndexPath(gb)[2] /\ IndexPath(fb)[3] = IndexPath(gb)[3]
    BY <1>8
  <2>5. o \div DBPERIDB = u \div DBPERIDB /\ o % DBPERIDB = u % DBPERIDB
    BY <2>3, <2>4
  <2>6. o \in Int /\ u \in Int
    BY <1>1, <1>5, <2>1, <2>2
  <2>7. o = u
    BY <1>1, <2>5, <2>6, DivMod
  <2> QED BY <1>1, <1>5, <2>1, <2>2, <2>7
<1> QED BY <1>2, <1>6, <1>7, <1>8

LEMMA MpOnce ==
    ASSUME NEW d, NEW i, NEW O, NEW h, Tree(d, i, O, h), NEW fb \in Nat, NEW gb \in Nat,
           Mp(d, i, fb) # 0, Mp(d, i, fb) = Mp(d, i, gb)
    PROVE  fb = gb
<1>1. PICK l : l = Level(fb)
  OBVIOUS
<1>2. PICK m : m = Level(gb)
  OBVIOUS
<1>3. l \in 0..3 /\ m \in 0..3 /\ (l = 0 <=> fb < NDIRECT) /\ (m = 0 <=> gb < NDIRECT)
  BY <1>1, <1>2, PathLevel
<1>4. \A x, x2 \in Place, y, y2 \in Index :
         /\ IsPlace(O, h, x, y) /\ IsPlace(O, h, x2, y2)
         /\ At(d, i, x, y) # 0 /\ At(d, i, x, y) = At(d, i, x2, y2)
         => x = x2 /\ y = y2
  BY DEF Tree, Once
<1>5. \A c \in Nat : c < NDIRECT =>
         c \in Index /\ 0 \in Place /\ IsPlace(O, h, 0, c) /\ At(d, i, 0, c) = Mp(d, i, c)
  <2> SUFFICES ASSUME NEW c \in Nat, c < NDIRECT
               PROVE  c \in Index /\ 0 \in Place /\ IsPlace(O, h, 0, c)
                      /\ At(d, i, 0, c) = Mp(d, i, c)
    OBVIOUS
  <2>1. Mp(d, i, c) = i.direct[c]
    BY PathLevel, MpWay
  <2>2. IsPlace(O, h, 0, c) /\ At(d, i, 0, c) = i.direct[c]
    BY DirectPlace
  <2>3. c \in Index /\ 0 \in Place
    BY PlaceFacts DEF Index, Index0
  <2> QED BY <2>1, <2>2, <2>3
<1>6. \A c \in Nat : Level(c) # 0 /\ Mp(d, i, c) # 0 =>
         \E x \in Place, y \in Index : x # 0 /\ IsPlace(O, h, x, y) /\ At(d, i, x, y) = Mp(d, i, c)
  <2> SUFFICES ASSUME NEW c \in Nat, Level(c) # 0, Mp(d, i, c) # 0
               PROVE  \E x \in Place, y \in Index :
                         x # 0 /\ IsPlace(O, h, x, y) /\ At(d, i, x, y) = Mp(d, i, c)
    OBVIOUS
  <2>1. PICK n : n = Level(c)
    OBVIOUS
  <2>2. n \in 1..3 /\ n \in 1..n /\ Mp(d, i, c) = Way(d, i, n, IndexPath(c), n)
    <3>1. n \in 0..3 /\ n # 0
      BY <2>1, PathLevel
    <3>2. Mp(d, i, c) = Way(d, i, n, IndexPath(c), n)
      BY <2>1, MpWay
    <3> QED BY <3>1, <3>2
  <2>3. PICK u : u = Way(d, i, n, IndexPath(c), n - 1)
    OBVIOUS
  <2>4. PICK y : y = IndexPath(c)[n]
    OBVIOUS
  <2>5. u # 0 /\ u \in Place /\ y \in Index /\ IsPlace(O, h, u, y)
        /\ At(d, i, u, y) = Way(d, i, n, IndexPath(c), n)
    BY <2>2, <2>3, <2>4, WayLast
  <2> QED BY <2>2, <2>5
<1>7. CASE l = 0 /\ m = 0
  BY <1>3, <1>4, <1>5, <1>7
<1>8. CASE l = 0 /\ m # 0
  <2>1. PICK x \in Place, y \in Index : x # 0 /\ IsPlace(O, h, x, y) /\ At(d, i, x, y) = Mp(d, i, gb)
    BY <1>2, <1>6, <1>8
  <2>2. 0 = x
    BY <1>3, <1>4, <1>5, <1>8, <2>1
  <2> QED BY <2>1, <2>2
<1>9. CASE l # 0 /\ m = 0
  <2>1. PICK x \in Place, y \in Index : x # 0 /\ IsPlace(O, h, x, y) /\ At(d, i, x, y) = Mp(d, i, fb)
    BY <1>1, <1>6, <1>9
  <2>2. 0 = x
    BY <1>3, <1>4, <1>5, <1>9, <2>1
  <2> QED BY <2>1, <2>2
<1>10. CASE l # 0 /\ m # 0
  <2>1. l \in 1..3 /\ m \in 1..3 /\ l \in 0..l /\ m \in 0..m
    BY <1>3, <1>10
  <2>2. /\ Mp(d, i, fb) = Way(d, i, l, IndexPath(fb), l)
        /\ Mp(d, i, gb) = Way(d, i, m, IndexPath(gb), m)
    BY <1>1, <1>2, <1>10, MpWay
  <2>3. SameWay(d, i, l, IndexPath(fb), m, IndexPath(gb), l)
    BY <2>1, WayOnce
  <2>4. l = m /\ \A k \in 1..l : IndexPath(fb)[k] = IndexPath(gb)[k]
    BY <2>1, <2>2, <2>3 DEF SameWay
  <2> QED BY <1>1, <1>2, <1>10, <2>4, PathOnce
<1> QED BY <1>7, <1>8, <1>9, <1>10

----------------------------------------------------------------------------
(* The files next to the one that an operation works on *)

\* A new tree for f, of its old blocks and of blocks that were free, with the blocks
\* of others as they were.
Replaces(map, d, ino, own, h, f, map2, d2, ino2, Q, k) ==
    /\ Forest(map, d, ino, own, h) /\ f \in File
    /\ map2 \in SUBSET Block /\ ino2 \in [File -> InodeRec]
    /\ \A g \in File : g # f => ino2[g] = ino[g]
    /\ Tree(d2, ino2[f], Q, k) /\ Q \subseteq map2 /\ map \ own[f] \subseteq map2
    /\ (map \ own[f]) \cap Q = {} /\ \A b \in map \ own[f] : d2[b] = d[b]

LEMMA ForestStep ==
    ASSUME NEW map, NEW d, NEW ino, NEW own, NEW h, NEW f, NEW map2, NEW d2, NEW ino2,
           NEW Q, NEW k, Replaces(map, d, ino, own, h, f, map2, d2, ino2, Q, k)
    PROVE  /\ \E own2, h2 : Forest(map2, d2, ino2, own2, h2)
           /\ \A g \in File, fb \in Nat :
                 g # f => Vw(d2, ino2[g], fb) = Vw(d, ino[g], fb)
<1>1. /\ Forest(map, d, ino, own, h) /\ f \in File
      /\ map2 \in SUBSET Block /\ ino2 \in [File -> InodeRec]
      /\ \A g \in File : g # f => ino2[g] = ino[g]
      /\ Tree(d2, ino2[f], Q, k) /\ Q \subseteq map2 /\ map \ own[f] \subseteq map2
      /\ (map \ own[f]) \cap Q = {} /\ \A b \in map \ own[f] : d2[b] = d[b]
  BY DEF Replaces
<1>2. /\ own \in [File -> SUBSET Block] /\ h \in [File -> [Block -> 0..3]]
      /\ \A g \in File : own[g] \subseteq map /\ Tree(d, ino[g], own[g], h[g])
      /\ \A g, g2 \in File : g # g2 => own[g] \cap own[g2] = {}
  BY <1>1 DEF Forest
<1>3. d2 \in [Block -> [Word -> Nat]] /\ Q \in SUBSET Block /\ k \in [Block -> 0..3]
  BY <1>1 DEF Tree, TreeTypes
<1>4. PICK own2 : own2 = [own EXCEPT ![f] = Q]
  OBVIOUS
<1>5. PICK h2 : h2 = [h EXCEPT ![f] = k]
  OBVIOUS
<1>6. /\ own2 \in [File -> SUBSET Block] /\ h2 \in [File -> [Block -> 0..3]]
      /\ own2[f] = Q /\ h2[f] = k
      /\ \A g \in File : g # f => own2[g] = own[g] /\ h2[g] = h[g]
  BY <1>1, <1>2, <1>3, <1>4, <1>5
<1>7. ASSUME NEW g \in File, g # f
      PROVE  own[g] \subseteq map \ own[f] /\ \A b \in own[g] : d2[b] = d[b]
  <2>1. own[g] \subseteq map \ own[f]
    BY <1>1, <1>2, <1>7
  <2> QED BY <1>1, <2>1
<1>8. ASSUME NEW g \in File, g # f PROVE Tree(d2, ino2[g], own2[g], h2[g])
  <2>1. Tree(d, ino[g], own[g], h[g])
    BY <1>2
  <2>2. \A b \in own[g] : d2[b] = d[b]
    BY <1>7, <1>8
  <2>3. Tree(d2, ino[g], own[g], h[g])
    BY <1>3, <2>1, <2>2, TreeOther
  <2> QED BY <1>1, <1>6, <1>8, <2>3
<1>9. \A g \in File : own2[g] \subseteq map2 /\ Tree(d2, ino2[g], own2[g], h2[g])
  <2>1. TAKE g \in File
  <2>2. CASE g = f
    BY <1>1, <1>6, <2>2
  <2>3. CASE g # f
    BY <1>1, <1>6, <1>7, <1>8, <2>3
  <2> QED BY <2>2, <2>3
<1>10. \A g, g2 \in File : g # g2 => own2[g] \cap own2[g2] = {}
  <2> SUFFICES ASSUME NEW g \in File, NEW g2 \in File, g # g2 PROVE own2[g] \cap own2[g2] = {}
    OBVIOUS
  <2>1. CASE g = f
    BY <1>1, <1>6, <1>7, <2>1
  <2>2. CASE g2 = f
    BY <1>1, <1>6, <1>7, <2>2
  <2>3. CASE g # f /\ g2 # f
    BY <1>2, <1>6, <2>3
  <2> QED BY <2>1, <2>2, <2>3
<1>11. Forest(map2, d2, ino2, own2, h2)
  BY <1>1, <1>3, <1>6, <1>9, <1>10 DEF Forest
<1>12. ASSUME NEW g \in File, NEW fb \in Nat, g # f
       PROVE  Vw(d2, ino2[g], fb) = Vw(d, ino[g], fb)
  <2>1. Tree(d, ino[g], own[g], h[g]) /\ \A b \in own[g] : d2[b] = d[b]
    BY <1>2, <1>7, <1>12
  <2>2. SamePointers(ino[g], ino2[g])
    BY <1>1, <1>12 DEF SamePointers
  <2> QED BY <2>1, <2>2, VwSame
<1> QED BY <1>11, <1>12

\* View, of the current state and of the next.
LEMMA ViewIs ==
    ASSUME NEW f \in File, NEW fb \in FileBlock
    PROVE  /\ View(f, fb) = Vw(disk, inode[f], fb)
           /\ View(f, fb)' = Vw(disk', inode'[f], fb)
<1>1. Path[fb] = IndexPath(fb)
  BY DEF Path
<1>2. Mapped(f, fb) = Mp(disk, inode[f], fb)
  BY <1>1 DEF Mapped, Mp, Entry, En
<1>3. Mapped(f, fb)' = Mp(disk', inode'[f], fb)
  BY <1>1 DEF Mapped, Mp, Entry, En
<1> QED BY <1>2, <1>3 DEF View, Vw

\* An operation starts in a sound state.
LEMMA StartSound ==
    ASSUME NEW own, NEW h, Forest(freemap, disk, inode, own, h), NEW f \in File
    PROVE  Sound(Start(f), own[f], h[f], freemap \ own[f], disk,
                 Holds(disk, inode[f]))
<1>1. /\ freemap \in SUBSET Block /\ disk \in [Block -> [Word -> Nat]]
      /\ inode[f] \in InodeRec /\ own[f] \subseteq freemap /\ Tree(disk, inode[f], own[f], h[f])
  BY DEF Forest
<1>2. PICK s : s = Start(f)
  OBVIOUS
<1>3. s \in CompRec /\ s.map = freemap /\ s.disk = disk /\ s.ino = inode[f]
  BY <1>1, <1>2 DEF Start, CompRec
<1>4. PICK V : V = Holds(disk, inode[f])
  OBVIOUS
<1>5. EOF \notin Nat /\ FileBlock \subseteq Nat
  BY SfsFileAssumption DEF EOF
<1>6. V[EOF] = inode[f].size /\ \A fb \in FileBlock : V[fb] = Vw(disk, inode[f], fb)
  BY <1>4, <1>5 DEF Holds
<1> QED BY <1>1, <1>2, <1>3, <1>4, <1>6 DEF Sound

----------------------------------------------------------------------------
(* Writing and reading *)

\* The larger of two.
LEMMA MaxPair ==
    ASSUME NEW a \in Nat, NEW b \in Nat
    PROVE  Max({a, b}) \in {a, b} /\ Max({a, b}) \in Nat /\ Max({a, b}) >= a /\ Max({a, b}) >= b
<1>1. \E m \in {a, b} : \A k \in {a, b} : m >= k
  OBVIOUS
<1>2. Max({a, b}) \in {a, b} /\ \A k \in {a, b} : Max({a, b}) >= k
  BY <1>1 DEF Max
<1> QED BY <1>2

\* The data that is written goes into the block found, and what else can be read of
\* the file stays.
DataPut(d, i, O, h, fb, dat, m, e, j) ==
    /\ Tree(d, i, O, h) /\ m = Mp(d, i, fb) /\ m # 0
    /\ e \in [Block -> [Word -> Nat]] /\ e[m][0] = dat /\ \A b \in Block : b # m => e[b] = d[b]
    /\ j \in InodeRec /\ SamePointers(i, j) /\ j.blocks = i.blocks

LEMMA DataWritten ==
    ASSUME NEW d, NEW i, NEW O, NEW h, NEW fb \in Nat, NEW dat \in Nat, NEW m, NEW e, NEW j,
           dat # 0, DataPut(d, i, O, h, fb, dat, m, e, j)
    PROVE  /\ Tree(e, j, O, h) /\ Vw(e, j, fb) = dat /\ m \in O
           /\ \A gb \in Nat : gb # fb => Vw(e, j, gb) = Vw(d, i, gb)
<1>1. /\ Tree(d, i, O, h) /\ m = Mp(d, i, fb) /\ m # 0
      /\ e \in [Block -> [Word -> Nat]] /\ e[m][0] = dat /\ \A b \in Block : b # m => e[b] = d[b]
      /\ j \in InodeRec /\ SamePointers(i, j) /\ j.blocks = i.blocks
  BY DEF DataPut
<1>2. m \in O /\ m \in Block /\ h[m] = 0
  BY <1>1, MpInTree
<1>3. Cardinality(O) <= i.blocks /\ O \subseteq Block
  BY <1>1 DEF Tree, TreeTypes
<1>4. \A b \in O : h[b] > 0 => e[b] = d[b]
  BY <1>1, <1>2, <1>3
<1>5. Tree(e, i, O, h)
  BY <1>1, <1>4, TreeOther
<1>6. Tree(e, j, O, h)
  BY <1>1, <1>3, <1>5, TreeCounts
<1>7. ASSUME NEW gb \in Nat PROVE Mp(e, j, gb) = Mp(d, i, gb)
  BY <1>1, <1>4, <1>7, MpSame
<1>8. Vw(e, j, fb) = dat
  BY <1>1, <1>7 DEF Vw
<1>9. ASSUME NEW gb \in Nat, gb # fb PROVE Vw(e, j, gb) = Vw(d, i, gb)
  <2>1. PICK n : n = Mp(d, i, gb)
    OBVIOUS
  <2>2. n # m
    BY <1>1, <1>9, <2>1, MpOnce
  <2>3. n = 0 \/ n \in Block
    BY <1>1, <2>1, MpInTree
  <2> QED BY <1>1, <1>7, <2>1, <2>2, <2>3 DEF Vw
<1> QED BY <1>2, <1>6, <1>8, <1>9

\* What a write does to what the files hold, and to where they end.
WriteEnd(fb, err) == IF err = "ok" THEN fb + 1 ELSE fb
WriteShows(f, fb, dat, err) ==
    /\ \A g \in File, gb \in FileBlock :
          View(g, gb)' = IF err = "ok" /\ g = f /\ gb = fb THEN dat ELSE View(g, gb)
    /\ \A g \in File : g # f => inode'[g].size = inode[g].size
    /\ inode[f].size \in Nat /\ inode'[f].size = Max({inode[f].size, WriteEnd(fb, err)})

\* What a file holds does not depend on its size.
LEMMA ViewPointers ==
    ASSUME NEW d, NEW i, NEW j, SamePointers(i, j), NEW gb \in Nat
    PROVE  Vw(d, j, gb) = Vw(d, i, gb)
  BY DEF Vw, Mp, Root, SamePointers

LEMMA WriteStep ==
    ASSUME FileInv, NEW f \in File, NEW fb \in FileBlock, NEW dat \in Data, write(f, fb, dat)
    PROVE  FileInv' /\ WriteShows(f, fb, dat, last'.err) /\ last'.file = f /\ last'.at = fb
           /\ last'.data = dat
<1>1. PICK own, h : Forest(freemap, disk, inode, own, h)
  BY DEF FileInv
<1>2. PICK K : K = freemap \ own[f]
  OBVIOUS
<1>3. PICK V : V = Holds(disk, inode[f])
  OBVIOUS
<1>4. PICK r : r = sfs_bmap(f, fb, TRUE)
  OBVIOUS
<1>5. fb \in Nat /\ dat \in Nat /\ dat # 0 /\ FileBlock \subseteq Nat
  BY SfsFileAssumption
<1>6. Sound(Start(f), own[f], h[f], K, disk, V)
  BY <1>1, <1>2, <1>3, StartSound
<1>7. Mapping(r, K, disk, V, fb, TRUE)
  BY <1>4, <1>5, <1>6, BmapSound
<1>8. PICK Q, k : /\ Sound(r, Q, k, K, disk, V)
                  /\ r.err = "ok" => r.block # 0 /\ r.block = Mp(r.disk, r.ino, fb)
  BY <1>7 DEF Mapping
<1>9. /\ r \in CompRec /\ Q \subseteq r.map /\ Tree(r.disk, r.ino, Q, k)
      /\ K \subseteq r.map /\ K \cap Q = {} /\ \A b \in K : r.disk[b] = disk[b]
      /\ \A gb \in FileBlock : Vw(r.disk, r.ino, gb) = V[gb]
      /\ r.ino.size = V[EOF]
  BY <1>8 DEF Sound
<1>23. V[EOF] = inode[f].size /\ \A gb \in FileBlock : V[gb] = Vw(disk, inode[f], gb)
  <2>1. EOF \notin FileBlock
    BY <1>5 DEF EOF
  <2> QED BY <1>3, <2>1 DEF Holds
<1>10. /\ r.map \in SUBSET Block /\ r.disk \in [Block -> [Word -> Nat]] /\ r.ino \in InodeRec
  BY <1>9 DEF CompRec
<1>11. inode \in [File -> InodeRec] /\ freemap \in SUBSET Block
  BY <1>1 DEF Forest
<1>12. PICK e : e = IF r.err = "ok" THEN [r.disk EXCEPT ![r.block] = [Zeros EXCEPT ![0] = dat]]
                    ELSE r.disk
  OBVIOUS
<1>13. PICK j : j = [r.ino EXCEPT !.size = Max({r.ino.size, WriteEnd(fb, r.err)})]
  OBVIOUS
<1>14. /\ freemap' = r.map /\ disk' = e /\ inode' = [inode EXCEPT ![f] = j]
       /\ last' = [op |-> "write", file |-> f, at |-> fb, data |-> dat, err |-> r.err]
  BY <1>4, <1>12, <1>13 DEF write, WriteEnd
<1>22. /\ r.ino.size \in Nat /\ WriteEnd(fb, r.err) \in Nat
       /\ j \in InodeRec /\ SamePointers(r.ino, j) /\ j.blocks = r.ino.blocks
       /\ j.size = Max({r.ino.size, WriteEnd(fb, r.err)})
  <2>1. r.ino.size \in Nat /\ WriteEnd(fb, r.err) \in Nat
    BY <1>5, <1>10 DEF InodeRec, WriteEnd
  <2>2. Max({r.ino.size, WriteEnd(fb, r.err)}) \in Nat
    BY <2>1, MaxPair
  <2> QED BY <1>10, <1>13, <2>1, <2>2 DEF InodeRec, SamePointers
<1>15. /\ Tree(e, j, Q, k) /\ \A b \in K : e[b] = disk[b]
       /\ \A gb \in FileBlock : Vw(e, j, gb) = IF r.err = "ok" /\ gb = fb THEN dat ELSE V[gb]
  <2>1. CASE r.err # "ok"
    <3>1. e = r.disk
      BY <1>12, <2>1
    <3>2. Cardinality(Q) <= j.blocks
      BY <1>9, <1>22 DEF Tree, TreeTypes
    <3>3. Tree(r.disk, j, Q, k)
      BY <1>9, <1>22, <3>2, TreeCounts
    <3>4. \A gb \in Nat : Vw(r.disk, j, gb) = Vw(r.disk, r.ino, gb)
      BY <1>5, <1>22, ViewPointers
    <3> QED BY <1>5, <1>9, <2>1, <3>1, <3>3, <3>4
  <2>2. CASE r.err = "ok"
    <3>1. PICK m : m = Mp(r.disk, r.ino, fb)
      OBVIOUS
    <3>2. m # 0 /\ e = [r.disk EXCEPT ![m] = [Zeros EXCEPT ![0] = dat]]
      BY <1>8, <1>12, <2>2, <3>1
    <3>3. DataPut(r.disk, r.ino, Q, k, fb, dat, m, e, j)
      <4>1. m \in Block
        BY <1>5, <1>9, <3>1, <3>2, MpInTree
      <4>2. [Zeros EXCEPT ![0] = dat] \in [Word -> Nat] /\ [Zeros EXCEPT ![0] = dat][0] = dat
        BY <1>5, PlaceFacts
      <4>3. /\ e \in [Block -> [Word -> Nat]] /\ e[m][0] = dat
            /\ \A b \in Block : b # m => e[b] = r.disk[b]
        BY <1>10, <3>2, <4>1, <4>2
      <4> QED BY <1>9, <1>22, <3>1, <3>2, <4>3 DEF DataPut
    <3>4. /\ Tree(e, j, Q, k) /\ Vw(e, j, fb) = dat /\ m \in Q
          /\ \A gb \in Nat : gb # fb => Vw(e, j, gb) = Vw(r.disk, r.ino, gb)
      BY <1>5, <3>3, DataWritten
    <3>6. \A b \in K : e[b] = disk[b]
      BY <1>9, <1>10, <3>3, <3>4 DEF DataPut
    <3>5. \A gb \in FileBlock : Vw(e, j, gb) = IF gb = fb THEN dat ELSE V[gb]
      BY <1>5, <1>9, <3>4
    <3> QED BY <2>2, <3>4, <3>5, <3>6
  <2> QED BY <2>1, <2>2
<1>16. /\ inode' \in [File -> InodeRec] /\ inode'[f] = j
       /\ \A g \in File : g # f => inode'[g] = inode[g]
  <2>1. j \in InodeRec
    BY <1>15 DEF Tree, TreeTypes
  <2> QED BY <1>11, <1>14, <2>1
<1>17. Replaces(freemap, disk, inode, own, h, f, freemap', disk', inode', Q, k)
  BY <1>1, <1>2, <1>9, <1>10, <1>14, <1>15, <1>16 DEF Replaces
<1>18. /\ \E own2, h2 : Forest(freemap', disk', inode', own2, h2)
       /\ \A g \in File, gb \in Nat :
             g # f => Vw(disk', inode'[g], gb) = Vw(disk, inode[g], gb)
  BY <1>17, ForestStep
<1>19. FileInv'
  BY <1>18 DEF FileInv
<1>20. WriteShows(f, fb, dat, r.err)
  <2>4. /\ \A g \in File : g # f => inode'[g].size = inode[g].size
        /\ inode[f].size \in Nat /\ inode'[f].size = Max({inode[f].size, WriteEnd(fb, r.err)})
    BY <1>9, <1>16, <1>22, <1>23
  <2> SUFFICES ASSUME NEW g \in File, NEW gb \in FileBlock
               PROVE  View(g, gb)' = IF r.err = "ok" /\ g = f /\ gb = fb THEN dat ELSE View(g, gb)
    BY <2>4 DEF WriteShows
  <2>1. View(g, gb) = Vw(disk, inode[g], gb) /\ View(g, gb)' = Vw(disk', inode'[g], gb)
    BY ViewIs
  <2>2. CASE g = f
    <3>1. View(g, gb)' = Vw(e, j, gb)
      BY <1>14, <1>16, <2>1, <2>2
    <3>2. View(g, gb) = V[gb]
      BY <1>23, <2>1, <2>2
    <3> QED BY <1>15, <2>2, <3>1, <3>2
  <2>3. CASE g # f
    BY <1>5, <1>18, <2>1, <2>3
  <2> QED BY <2>2, <2>3
<1>21. last'.err = r.err /\ last'.file = f /\ last'.at = fb /\ last'.data = dat
  BY <1>14
<1> QED BY <1>19, <1>20, <1>21

\* What can be read after a write.
LEMMA ReadsAfterWrite ==
    ASSUME NEW f \in File, NEW fb \in FileBlock, NEW dat, NEW err, WriteShows(f, fb, dat, err),
           NEW g \in File, NEW gb \in FileBlock
    PROVE  Reads(g, gb)' = AfterWrite(f, fb, dat, err, g, gb)
<1>1. fb \in Nat /\ gb \in Nat
  BY SfsFileAssumption
<1>2. View(g, gb)' = IF err = "ok" /\ g = f /\ gb = fb THEN dat ELSE View(g, gb)
  BY DEF WriteShows
<1>3. Reads(g, gb)' = IF gb < inode'[g].size THEN View(g, gb)' ELSE EOF
  BY DEF Reads
<1>4. CASE g # f
  <2>1. inode'[g].size = inode[g].size
    BY <1>4 DEF WriteShows
  <2> QED BY <1>2, <1>3, <1>4, <2>1 DEF AfterWrite, Reads
<1>5. CASE g = f
  <2>1. PICK z : z = inode[f].size
    OBVIOUS
  <2>2. PICK y : y = inode'[f].size
    OBVIOUS
  <2>3. PICK w : w = WriteEnd(fb, err)
    OBVIOUS
  <2>4. z \in Nat /\ w \in Nat /\ y = Max({z, w})
    BY <1>1, <2>1, <2>2, <2>3 DEF WriteShows, WriteEnd
  <2>5. y \in {z, w} /\ y >= z /\ y >= w
    BY <2>4, MaxPair
  <2>6. CASE gb = fb /\ err = "ok"
    BY <1>1, <1>2, <1>3, <1>5, <2>2, <2>3, <2>4, <2>5, <2>6 DEF AfterWrite, WriteEnd
  <2>7. CASE gb < fb
    BY <1>1, <1>2, <1>3, <1>5, <2>2, <2>3, <2>4, <2>5, <2>7 DEF AfterWrite, WriteEnd
  <2>8. CASE ~(gb = fb /\ err = "ok") /\ ~(gb < fb)
    <3>1. gb < y <=> gb < z
      BY <1>1, <2>3, <2>4, <2>5, <2>8 DEF WriteEnd
    <3> QED BY <1>2, <1>3, <1>5, <2>1, <2>2, <2>8, <3>1 DEF AfterWrite, Reads
  <2> QED BY <2>6, <2>7, <2>8
<1> QED BY <1>4, <1>5

\* Reading may lose blocks, and keeps what there is.
LEMMA ReadStep ==
    ASSUME FileInv, NEW f \in File, NEW fb \in FileBlock, read(f, fb)
    PROVE  FileInv' /\ last'.op = "read"
<1>1. PICK own, h : Forest(freemap, disk, inode, own, h)
  BY DEF FileInv
<1>2. PICK K : K = freemap \ own[f]
  OBVIOUS
<1>3. PICK V : V = Holds(disk, inode[f])
  OBVIOUS
<1>4. PICK r : r = sfs_bmap(f, fb, FALSE)
  OBVIOUS
<1>5. fb \in Nat
  BY SfsFileAssumption
<1>6. Sound(Start(f), own[f], h[f], K, disk, V)
  BY <1>1, <1>2, <1>3, StartSound
<1>7. Mapping(r, K, disk, V, fb, FALSE)
  BY <1>4, <1>5, <1>6, BmapSound
<1>8. PICK Q, k : Sound(r, Q, k, K, disk, V)
  BY <1>7 DEF Mapping
<1>9. /\ r \in CompRec /\ Q \subseteq r.map /\ Tree(r.disk, r.ino, Q, k)
      /\ K \subseteq r.map /\ K \cap Q = {} /\ \A b \in K : r.disk[b] = disk[b]
  BY <1>8 DEF Sound
<1>10. r.map \in SUBSET Block /\ r.ino \in InodeRec
  BY <1>9 DEF CompRec
<1>11. inode \in [File -> InodeRec]
  BY <1>1 DEF Forest
<1>12. /\ freemap' = r.map /\ disk' = r.disk /\ inode' = [inode EXCEPT ![f] = r.ino]
       /\ last' = [op |-> "read", file |-> f, at |-> fb, err |-> r.err]
  BY <1>4 DEF read
<1>13. /\ inode' \in [File -> InodeRec] /\ inode'[f] = r.ino
       /\ \A g \in File : g # f => inode'[g] = inode[g]
  BY <1>10, <1>11, <1>12
<1>14. Replaces(freemap, disk, inode, own, h, f, freemap', disk', inode', Q, k)
  BY <1>1, <1>2, <1>9, <1>10, <1>12, <1>13 DEF Replaces
<1>15. \E own2, h2 : Forest(freemap', disk', inode', own2, h2)
  BY <1>14, ForestStep
<1> QED BY <1>12, <1>15 DEF FileInv

----------------------------------------------------------------------------
(* Truncating *)

\* A tree without what the places in C lead to, when those places are emptied.
Cutting(d, i, O, h, C, Q, e, j) ==
    /\ Tree(d, i, O, h) /\ \A x, y : <<x, y>> \in C => IsPlace(O, h, x, y)
    /\ Q = {b \in O : \A x \in Place, y \in Index : <<x, y>> \in C => At(d, i, x, y) # b}
    /\ TreeTypes(e, j, Q, h)
    /\ \A x, y : IsPlace(Q, h, x, y) =>
          At(e, j, x, y) = IF <<x, y>> \in C THEN 0 ELSE At(d, i, x, y)

LEMMA CutTree ==
    ASSUME NEW d, NEW i, NEW O, NEW h, NEW C, NEW Q, NEW e, NEW j,
           Cutting(d, i, O, h, C, Q, e, j)
    PROVE  Tree(e, j, Q, h)
<1>1. /\ Held(d, i, O, h) /\ Once(d, i, O, h) /\ TreeTypes(e, j, Q, h) /\ TreeTypes(d, i, O, h)
      /\ \A x, y : <<x, y>> \in C => IsPlace(O, h, x, y)
      /\ Q = {b \in O : \A x \in Place, y \in Index : <<x, y>> \in C => At(d, i, x, y) # b}
  BY DEF Cutting, Tree
<1>2. \A x, y : IsPlace(Q, h, x, y) => IsPlace(O, h, x, y)
  BY <1>1 DEF IsPlace
<1>3. \A x, y : IsPlace(Q, h, x, y) /\ At(e, j, x, y) # 0 =>
         IsPlace(O, h, x, y) /\ <<x, y>> \notin C /\ At(e, j, x, y) = At(d, i, x, y)
  BY <1>2 DEF Cutting
<1>4. Once(e, j, Q, h)
  <2> SUFFICES ASSUME NEW x \in Place, NEW x2 \in Place, NEW y \in Index, NEW y2 \in Index,
                      IsPlace(Q, h, x, y), IsPlace(Q, h, x2, y2),
                      At(e, j, x, y) # 0, At(e, j, x, y) = At(e, j, x2, y2)
               PROVE  x = x2 /\ y = y2
    BY DEF Once
  <2>1. IsPlace(O, h, x, y) /\ At(e, j, x, y) = At(d, i, x, y)
    BY <1>3
  <2>2. IsPlace(O, h, x2, y2) /\ At(e, j, x2, y2) = At(d, i, x2, y2)
    BY <1>3
  <2>3. At(d, i, x, y) # 0 /\ At(d, i, x, y) = At(d, i, x2, y2)
    BY <2>1, <2>2
  <2> QED BY <1>1, <2>1, <2>2, <2>3 DEF Once
<1>5. Held(e, j, Q, h)
  <2> SUFFICES ASSUME NEW x \in Place, NEW y \in Index, IsPlace(Q, h, x, y), At(e, j, x, y) # 0
               PROVE  At(e, j, x, y) \in Q /\ h[At(e, j, x, y)] = HeightAt(h, x, y)
    BY DEF Held
  <2>1. PICK b : b = At(d, i, x, y)
    OBVIOUS
  <2>2. IsPlace(O, h, x, y) /\ <<x, y>> \notin C /\ At(e, j, x, y) = b /\ b # 0
    BY <1>3, <2>1
  <2>3. b \in O /\ h[b] = HeightAt(h, x, y)
    BY <1>1, <2>1, <2>2 DEF Held
  <2>4. ASSUME NEW x2 \in Place, NEW y2 \in Index, <<x2, y2>> \in C, At(d, i, x2, y2) = b
        PROVE  FALSE
    <3>1. IsPlace(O, h, x2, y2)
      BY <1>1, <2>4
    <3>2. x = x2 /\ y = y2
      BY <1>1, <2>1, <2>2, <2>4, <3>1 DEF Once
    <3> QED BY <2>2, <2>4, <3>2
  <2>5. b \in Q
    BY <1>1, <2>3, <2>4
  <2> QED BY <2>2, <2>3, <2>5
<1> QED BY <1>1, <1>4, <1>5 DEF Tree

\* As many blocks as places that lead to them.
LEMMA ImageCount ==
    ASSUME NEW S, IsFiniteSet(S), NEW F, \A x, y \in S : F[x] = F[y] => x = y,
           NEW T, T = {F[x] : x \in S}
    PROVE  IsFiniteSet(T) /\ Cardinality(T) = Cardinality(S)
<1>1. PICK G : G = [x \in S |-> F[x]]
  OBVIOUS
<1>2. G \in [S -> T] /\ \A x \in S : G[x] = F[x]
  BY <1>1
<1>3. G \in Bijection(S, T)
  BY <1>2 DEF Bijection, Injection, Surjection, IsInjective
<1> QED BY <1>3, FS_Bijection DEF ExistsBijection

\* Three sets of blocks that are taken from a set.
Taking(O, A, B, C, Q) ==
    /\ IsFiniteSet(O) /\ A \subseteq O /\ B \subseteq O /\ C \subseteq O
    /\ A \cap B = {} /\ A \cap C = {} /\ B \cap C = {} /\ Q = O \ (A \cup B \cup C)

LEMMA TakenAway ==
    ASSUME NEW O, NEW A, NEW B, NEW C, NEW Q, Taking(O, A, B, C, Q)
    PROVE  /\ Cardinality(Q) = Cardinality(O) - Cardinality(A) - Cardinality(B) - Cardinality(C)
           /\ Cardinality(A) \in Nat /\ Cardinality(B) \in Nat /\ Cardinality(C) \in Nat
           /\ Cardinality(O) \in Nat /\ Cardinality(Q) \in Nat
<1>0. /\ IsFiniteSet(O) /\ A \subseteq O /\ B \subseteq O /\ C \subseteq O
      /\ A \cap B = {} /\ A \cap C = {} /\ B \cap C = {} /\ Q = O \ (A \cup B \cup C)
  BY DEF Taking
<1>1. IsFiniteSet(A) /\ IsFiniteSet(B) /\ IsFiniteSet(C) /\ IsFiniteSet(Q)
  BY <1>0, FS_Subset
<1>2. /\ Cardinality({}) = 0 /\ Cardinality(A) \in Nat /\ Cardinality(B) \in Nat
      /\ Cardinality(C) \in Nat
  BY <1>1, FS_EmptySet, FS_CardinalityType
<1>3. IsFiniteSet(A \cup B) /\ Cardinality(A \cup B) = Cardinality(A) + Cardinality(B)
  <2>1. IsFiniteSet(A \cup B)
        /\ Cardinality(A \cup B) = Cardinality(A) + Cardinality(B) - Cardinality(A \cap B)
    BY <1>1, FS_Union
  <2>2. Cardinality(A \cap B) = 0
    BY <1>0, <1>2
  <2> QED BY <1>2, <2>1, <2>2
<1>4. PICK D : D = A \cup B \cup C
  OBVIOUS
<1>5. IsFiniteSet(D) /\ Cardinality(D) = Cardinality(A) + Cardinality(B) + Cardinality(C)
  <2>1. (A \cup B) \cap C = {} /\ D = (A \cup B) \cup C
    BY <1>0, <1>4
  <2>2. IsFiniteSet(D)
        /\ Cardinality(D) = Cardinality(A \cup B) + Cardinality(C) - Cardinality((A \cup B) \cap C)
    BY <1>1, <1>3, <2>1, FS_Union
  <2>3. Cardinality((A \cup B) \cap C) = 0
    BY <1>2, <2>1
  <2> QED BY <1>2, <1>3, <2>1, <2>2, <2>3
<1>6. Cardinality(Q) = Cardinality(O) - Cardinality(D)
  <2>1. Q = O \ D /\ O \cap D = D
    BY <1>0, <1>4
  <2>2. Cardinality(O \ D) = Cardinality(O) - Cardinality(O \cap D)
    BY <1>0, FS_Difference
  <2> QED BY <2>1, <2>2
<1> QED BY <1>0, <1>1, <1>2, <1>5, <1>6, FS_CardinalityType

\* What sfs_truncate does to the disk and to the inode.
Shortens(d, i, O, h, len, dead, gone, empties, e, j) ==
    /\ Tree(d, i, O, h) /\ len \in Nat /\ empties \in BOOLEAN
    /\ dead = {y \in 0..(NDIRECT - 1) : y >= len /\ i.direct[y] # 0}
    /\ gone \subseteq Word
    /\ \A y \in gone : len < NDIRECT + y /\ i.indirect # 0 /\ d[i.indirect][y] # 0
    /\ empties => /\ i.indirect # 0 /\ len < NDIRECT + DBPERIDB - 1
                  /\ \A y \in Word : d[i.indirect][y] = 0 \/ y \in gone
    /\ e \in [Block -> [Word -> Nat]] /\ \A b \in Block : b # i.indirect => e[b] = d[b]
    /\ i.indirect # 0 /\ ~empties =>
          \A y \in Word : e[i.indirect][y] = IF y \in gone THEN 0 ELSE d[i.indirect][y]
    /\ j.direct \in [0..(NDIRECT - 1) -> Nat]
    /\ \A y \in 0..(NDIRECT - 1) : j.direct[y] = IF y \in dead THEN 0 ELSE i.direct[y]
    /\ j.indirect = IF empties THEN 0 ELSE i.indirect
    /\ j.doubleindirect = IF empties THEN 0 ELSE i.doubleindirect
    /\ j.tripleindirect = IF empties THEN 0 ELSE i.tripleindirect
    /\ j.blocks = i.blocks - Cardinality(dead) - Cardinality(gone)
                  - (IF empties THEN 1 + Cardinality({l \in {2, 3} : Root(i, l) # 0}) ELSE 0)
    /\ \A n \in Nat : j.blocks = n => j \in InodeRec

\* The blocks that go, by where the pointers to them are.
DeadBlocks(i, dead) == {i.direct[y] : y \in dead}
GoneBlocks(d, i, gone) == {d[i.indirect][y] : y \in gone}
RootBlocks(i, empties) == IF empties THEN {Root(i, l) : l \in {n \in 1..3 : Root(i, n) # 0}} ELSE {}
Remain(d, i, O, dead, gone, empties) ==
    O \ (DeadBlocks(i, dead) \cup GoneBlocks(d, i, gone) \cup RootBlocks(i, empties))

\* The places that are emptied.
CutPlaces(i, dead, gone, empties) ==
    {<<0, y>> : y \in dead} \cup {<<i.indirect, y>> : y \in gone}
    \cup (IF empties THEN {<<0, NDIRECT + 1>>, <<0, NDIRECT + 2>>, <<0, NDIRECT + 3>>} ELSE {})

LEMMA ShortPlaces ==
    ASSUME NEW d, NEW i, NEW O, NEW h, NEW len, NEW dead, NEW gone, NEW empties, NEW e, NEW j,
           Shortens(d, i, O, h, len, dead, gone, empties, e, j)
    PROVE  /\ \A y \in dead : y \in Index /\ IsPlace(O, h, 0, y) /\ At(d, i, 0, y) = i.direct[y]
                              /\ At(d, i, 0, y) # 0
           /\ \A y \in gone : /\ y \in Index /\ i.indirect \in Block
                              /\ IsPlace(O, h, i.indirect, y)
                              /\ At(d, i, i.indirect, y) = d[i.indirect][y]
                              /\ At(d, i, i.indirect, y) # 0
           /\ \A l \in 1..3 : /\ NDIRECT + l \in Index /\ IsPlace(O, h, 0, NDIRECT + l)
                              /\ At(d, i, 0, NDIRECT + l) = Root(i, l)
           /\ i.indirect # 0 => i.indirect \in O /\ i.indirect \in Block /\ h[i.indirect] = 1
<1>1. Tree(d, i, O, h) /\ TreeTypes(d, i, O, h)
  BY DEF Shortens, Tree
<1>2. ASSUME NEW y \in dead
      PROVE  y \in Index /\ IsPlace(O, h, 0, y) /\ At(d, i, 0, y) = i.direct[y]
             /\ At(d, i, 0, y) # 0
  <2>1. y \in Nat /\ y < NDIRECT /\ i.direct[y] # 0
    BY PlaceFacts DEF Shortens
  <2>2. y \in Index
    BY <2>1, PlaceFacts DEF Index, Index0
  <2> QED BY <2>1, <2>2, DirectPlace
<1>3. ASSUME NEW l \in 1..3
      PROVE  /\ NDIRECT + l \in Index /\ IsPlace(O, h, 0, NDIRECT + l)
             /\ At(d, i, 0, NDIRECT + l) = Root(i, l) /\ HeightAt(h, 0, NDIRECT + l) = l
  <2>1. NDIRECT + l \in Index
    BY PlaceFacts DEF Index, Index0
  <2> QED BY <2>1, RootPlace
<1>4. i.indirect # 0 => i.indirect \in O /\ i.indirect \in Block /\ h[i.indirect] = 1
  <2>1. 1 \in 1..3 /\ Root(i, 1) = i.indirect
    BY DEF Root
  <2>2. /\ IsPlace(O, h, 0, NDIRECT + 1) /\ At(d, i, 0, NDIRECT + 1) = i.indirect
        /\ HeightAt(h, 0, NDIRECT + 1) = 1
    BY <1>3, <2>1
  <2> QED BY <1>1, <2>2, HeldBlock
<1>5. ASSUME NEW y \in gone
      PROVE  /\ y \in Index /\ i.indirect \in Block /\ IsPlace(O, h, i.indirect, y)
             /\ At(d, i, i.indirect, y) = d[i.indirect][y] /\ At(d, i, i.indirect, y) # 0
  <2>1. y \in Word /\ i.indirect # 0 /\ d[i.indirect][y] # 0
    BY DEF Shortens
  <2>2. y \in Index
    BY <2>1, PlaceFacts
  <2>3. i.indirect \in O /\ h[i.indirect] > 0
    BY <1>4, <2>1
  <2>4. /\ IsPlace(O, h, i.indirect, y) /\ At(d, i, i.indirect, y) = En(d, i.indirect, y)
        /\ En(d, i.indirect, y) = d[i.indirect][y]
    BY <1>1, <2>1, <2>3, EntryPlace
  <2> QED BY <1>4, <2>1, <2>2, <2>4
<1> QED BY <1>2, <1>3, <1>4, <1>5

\* The blocks that go are of the file, and none is counted twice.
LEMMA ShortBlocks ==
    ASSUME NEW d, NEW i, NEW O, NEW h, NEW len, NEW dead, NEW gone, NEW empties, NEW e, NEW j,
           Shortens(d, i, O, h, len, dead, gone, empties, e, j)
    PROVE  LET A == DeadBlocks(i, dead)
               B == GoneBlocks(d, i, gone)
               R == RootBlocks(i, empties)
           IN /\ A \subseteq O /\ B \subseteq O /\ R \subseteq O
              /\ A \cap B = {} /\ A \cap R = {} /\ B \cap R = {}
              /\ \A y, z \in dead : i.direct[y] = i.direct[z] => y = z
              /\ \A y, z \in gone : d[i.indirect][y] = d[i.indirect][z] => y = z
              /\ \A l, m \in 1..3 : Root(i, l) # 0 /\ Root(i, l) = Root(i, m) => l = m
<1> DEFINE A == DeadBlocks(i, dead)
           B == GoneBlocks(d, i, gone)
           R == RootBlocks(i, empties)
<1>1. Tree(d, i, O, h) /\ dead \subseteq 0..(NDIRECT - 1)
  BY DEF Shortens
<1>2. \A x, x2 \in Place, y, y2 \in Index :
         /\ IsPlace(O, h, x, y) /\ IsPlace(O, h, x2, y2)
         /\ At(d, i, x, y) # 0 /\ At(d, i, x, y) = At(d, i, x2, y2)
         => x = x2 /\ y = y2
  BY <1>1 DEF Tree, Once
<1>3. /\ \A y \in dead : y \in Index /\ IsPlace(O, h, 0, y) /\ At(d, i, 0, y) = i.direct[y]
                         /\ At(d, i, 0, y) # 0
      /\ \A y \in gone : /\ y \in Index /\ i.indirect \in Block
                         /\ IsPlace(O, h, i.indirect, y)
                         /\ At(d, i, i.indirect, y) = d[i.indirect][y]
                         /\ At(d, i, i.indirect, y) # 0
      /\ \A l \in 1..3 : /\ NDIRECT + l \in Index /\ IsPlace(O, h, 0, NDIRECT + l)
                         /\ At(d, i, 0, NDIRECT + l) = Root(i, l)
  BY ShortPlaces
<1>4. 0 \in Place /\ \A b \in Block : b \in Place /\ b # 0
  BY PlaceFacts
<1>5. \A b \in A : \E y \in dead : b = At(d, i, 0, y)
  BY <1>3 DEF DeadBlocks
<1>6. \A b \in B : \E y \in gone : b = At(d, i, i.indirect, y)
  BY <1>3 DEF GoneBlocks
<1>7. \A b \in R : b # 0 /\ \E l \in 1..3 : b = At(d, i, 0, NDIRECT + l)
  <2> SUFFICES ASSUME NEW b \in R PROVE b # 0 /\ \E l \in 1..3 : b = At(d, i, 0, NDIRECT + l)
    OBVIOUS
  <2>1. PICK l \in 1..3 : Root(i, l) # 0 /\ b = Root(i, l)
    BY DEF RootBlocks
  <2> QED BY <1>3, <2>1
<1> HIDE DEF A, B, R
<1>8. A \subseteq O
  <2> SUFFICES ASSUME NEW b \in A PROVE b \in O
    OBVIOUS
  <2>2. PICK y \in dead : b = At(d, i, 0, y)
    BY <1>5
  <2> QED BY <1>1, <1>3, <2>2, HeldBlock
<1>9. B \subseteq O
  <2> SUFFICES ASSUME NEW b \in B PROVE b \in O
    OBVIOUS
  <2>2. PICK y \in gone : b = At(d, i, i.indirect, y)
    BY <1>6
  <2> QED BY <1>1, <1>3, <2>2, HeldBlock
<1>10. R \subseteq O
  <2> SUFFICES ASSUME NEW b \in R PROVE b \in O
    OBVIOUS
  <2>2. PICK l \in 1..3 : b # 0 /\ b = At(d, i, 0, NDIRECT + l)
    BY <1>7
  <2> QED BY <1>1, <1>3, <2>2, HeldBlock
<1>11. A \cap B = {}
  <2> SUFFICES ASSUME NEW b \in A, b \in B PROVE FALSE
    OBVIOUS
  <2>1. PICK y \in dead : b = At(d, i, 0, y)
    BY <1>5
  <2>2. PICK z \in gone : b = At(d, i, i.indirect, z)
    BY <1>6
  <2>3. 0 = i.indirect
    BY <1>2, <1>3, <1>4, <2>1, <2>2
  <2> QED BY <1>3, <1>4, <2>3
<1>12. A \cap R = {}
  <2> SUFFICES ASSUME NEW b \in A, b \in R PROVE FALSE
    OBVIOUS
  <2>1. PICK y \in dead : b = At(d, i, 0, y)
    BY <1>5
  <2>2. PICK l \in 1..3 : b = At(d, i, 0, NDIRECT + l)
    BY <1>7
  <2>3. y = NDIRECT + l
    BY <1>2, <1>3, <1>4, <2>1, <2>2
  <2> QED BY <1>1, <2>3, PlaceFacts
<1>13. B \cap R = {}
  <2> SUFFICES ASSUME NEW b \in B, b \in R PROVE FALSE
    OBVIOUS
  <2>1. PICK z \in gone : b = At(d, i, i.indirect, z)
    BY <1>6
  <2>2. PICK l \in 1..3 : b = At(d, i, 0, NDIRECT + l)
    BY <1>7
  <2>3. i.indirect = 0
    BY <1>2, <1>3, <1>4, <2>1, <2>2
  <2> QED BY <1>3, <1>4, <2>3
<1>14. \A y, z \in dead : i.direct[y] = i.direct[z] => y = z
  BY <1>2, <1>3, <1>4
<1>15. \A y, z \in gone : d[i.indirect][y] = d[i.indirect][z] => y = z
  BY <1>2, <1>3, <1>4
<1>16. ASSUME NEW l \in 1..3, NEW m \in 1..3, Root(i, l) # 0, Root(i, l) = Root(i, m) PROVE l = m
  <2>1. NDIRECT + l = NDIRECT + m
    BY <1>2, <1>3, <1>4, <1>16
  <2> QED BY <2>1, PlaceFacts
<1> QED BY <1>8, <1>9, <1>10, <1>11, <1>12, <1>13, <1>14, <1>15, <1>16 DEF A, B, R

\* The count of blocks in the inode still covers those that remain.
LEMMA ShortCount ==
    ASSUME NEW d, NEW i, NEW O, NEW h, NEW len, NEW dead, NEW gone, NEW empties, NEW e, NEW j,
           Shortens(d, i, O, h, len, dead, gone, empties, e, j)
    PROVE  TreeTypes(e, j, Remain(d, i, O, dead, gone, empties), h)
<1>1. PICK A : A = DeadBlocks(i, dead)
  OBVIOUS
<1>2. PICK B : B = GoneBlocks(d, i, gone)
  OBVIOUS
<1>3. PICK R : R = RootBlocks(i, empties)
  OBVIOUS
<1>4. PICK Q : Q = Remain(d, i, O, dead, gone, empties)
  OBVIOUS
<1>5. /\ A \subseteq O /\ B \subseteq O /\ R \subseteq O
      /\ A \cap B = {} /\ A \cap R = {} /\ B \cap R = {}
      /\ \A y, z \in dead : i.direct[y] = i.direct[z] => y = z
      /\ \A y, z \in gone : d[i.indirect][y] = d[i.indirect][z] => y = z
      /\ \A l, m \in 1..3 : Root(i, l) # 0 /\ Root(i, l) = Root(i, m) => l = m
  BY <1>1, <1>2, <1>3, ShortBlocks
<1>6. /\ O \in SUBSET Block /\ Cardinality(O) <= i.blocks /\ i.blocks \in Nat /\ IsFiniteSet(O)
      /\ h \in [Block -> 0..3]
  BY PlaceFacts, FS_Subset DEF Shortens, Tree, TreeTypes, InodeRec
<1>7. dead \subseteq 0..(NDIRECT - 1) /\ gone \subseteq 0..(DBPERIDB - 1) /\ empties \in BOOLEAN
  BY DEF Shortens, Word
<1>8. IsFiniteSet(dead) /\ IsFiniteSet(gone)
  <2>1. IsFiniteSet(0..(NDIRECT - 1)) /\ IsFiniteSet(0..(DBPERIDB - 1))
    BY PlaceFacts, FS_Interval, 0 \in Int, NDIRECT - 1 \in Int, DBPERIDB - 1 \in Int
  <2> QED BY <1>7, <2>1, FS_Subset
<1>9. Cardinality(A) = Cardinality(dead)
  <2>1. A = {i.direct[y] : y \in dead}
    BY <1>1 DEF DeadBlocks
  <2> QED BY <1>5, <1>8, <2>1, ImageCount
<1>10. Cardinality(B) = Cardinality(gone)
  <2>1. B = {d[i.indirect][y] : y \in gone}
    BY <1>2 DEF GoneBlocks
  <2> QED BY <1>5, <1>8, <2>1, ImageCount
<1>11. Cardinality(R) = IF empties THEN 1 + Cardinality({l \in {2, 3} : Root(i, l) # 0}) ELSE 0
  <2>1. CASE ~empties
    <3>1. R = {}
      BY <1>3, <2>1 DEF RootBlocks
    <3> QED BY <2>1, <3>1, FS_EmptySet
  <2>2. CASE empties
    <3>1. PICK L : L = {l \in 1..3 : Root(i, l) # 0}
      OBVIOUS
    <3>2. PICK M : M = {l \in {2, 3} : Root(i, l) # 0}
      OBVIOUS
    <3>3. PICK F : F = [l \in 1..3 |-> Root(i, l)]
      OBVIOUS
    <3>4. L \subseteq 1..3 /\ R = {F[l] : l \in L} /\ \A l, m \in L : F[l] = F[m] => l = m
      BY <1>3, <1>5, <2>2, <3>1, <3>3 DEF RootBlocks
    <3>41. \A l, m \in L : F[l] = F[m] => l = m
      BY <3>4
    <3>42. R = {F[l] : l \in L}
      BY <3>4
    <3>5. IsFiniteSet(1..3)
      BY FS_Interval, 1 \in Int, 3 \in Int
    <3>6. IsFiniteSet(L) /\ IsFiniteSet(M)
      <4>1. M \subseteq 1..3
        BY <3>2
      <4> QED BY <3>4, <3>5, <4>1, FS_Subset
    <3>7. Cardinality(R) = Cardinality(L)
      BY <3>41, <3>42, <3>6, ImageCount
    <3>8. Root(i, 1) # 0
      BY <2>2 DEF Root, Shortens
    <3>9. L = M \cup {1} /\ 1 \notin M
      BY <3>1, <3>2, <3>8
    <3>10. Cardinality(L) = Cardinality(M) + 1 /\ Cardinality(M) \in Nat
      BY <3>6, <3>9, FS_AddElement, FS_CardinalityType
    <3> QED BY <2>2, <3>2, <3>7, <3>10
  <2> QED BY <2>1, <2>2
<1>12. Q = O \ (A \cup B \cup R)
  BY <1>1, <1>2, <1>3, <1>4 DEF Remain
<1>13. /\ Cardinality(Q) = Cardinality(O) - Cardinality(A) - Cardinality(B) - Cardinality(R)
       /\ Cardinality(A) \in Nat /\ Cardinality(B) \in Nat /\ Cardinality(R) \in Nat
       /\ Cardinality(O) \in Nat /\ Cardinality(Q) \in Nat
  <2>1. Taking(O, A, B, R, Q)
    BY <1>5, <1>6, <1>12 DEF Taking
  <2> QED BY <2>1, TakenAway
<1>14. j.blocks = i.blocks - Cardinality(A) - Cardinality(B) - Cardinality(R)
  <2>1. j.blocks = i.blocks - Cardinality(dead) - Cardinality(gone)
                   - (IF empties THEN 1 + Cardinality({l \in {2, 3} : Root(i, l) # 0}) ELSE 0)
    BY DEF Shortens
  <2> QED BY <1>9, <1>10, <1>11, <2>1
<1>15. j.blocks \in Nat /\ Cardinality(Q) <= j.blocks
  BY <1>6, <1>13, <1>14
<1>16. j \in InodeRec /\ e \in [Block -> [Word -> Nat]]
  BY <1>15 DEF Shortens
<1>17. Q \in SUBSET Block
  BY <1>6, <1>12
<1> QED BY <1>4, <1>6, <1>15, <1>16, <1>17 DEF TreeTypes


\* The places that are emptied, one by one.
Emptied(i, dead, gone, empties, x, y) ==
    \/ x = 0 /\ y \in dead
    \/ x = i.indirect /\ y \in gone
    \/ empties /\ x = 0 /\ \E l \in 1..3 : y = NDIRECT + l

LEMMA InCut ==
    ASSUME NEW i, NEW dead, NEW gone, NEW empties \in BOOLEAN, NEW x, NEW y
    PROVE  <<x, y>> \in CutPlaces(i, dead, gone, empties)
           <=> Emptied(i, dead, gone, empties, x, y)
<1>1. \A l : l \in 1..3 <=> l = 1 \/ l = 2 \/ l = 3
  OBVIOUS
<1>2. CASE empties
  BY <1>1, <1>2 DEF CutPlaces, Emptied
<1>3. CASE ~empties
  BY <1>3 DEF CutPlaces, Emptied
<1> QED BY <1>2, <1>3

\* What is left is the tree without the places that are emptied.
LEMMA ShortTree ==
    ASSUME NEW d, NEW i, NEW O, NEW h, NEW len, NEW dead, NEW gone, NEW empties, NEW e, NEW j,
           Shortens(d, i, O, h, len, dead, gone, empties, e, j)
    PROVE  Tree(e, j, Remain(d, i, O, dead, gone, empties), h)
<1>1. PICK A : A = DeadBlocks(i, dead)
  OBVIOUS
<1>2. PICK B : B = GoneBlocks(d, i, gone)
  OBVIOUS
<1>3. PICK R : R = RootBlocks(i, empties)
  OBVIOUS
<1>4. PICK Q : Q = Remain(d, i, O, dead, gone, empties)
  OBVIOUS
<1>5. PICK C : C = CutPlaces(i, dead, gone, empties)
  OBVIOUS
<1>6. Q = O \ (A \cup B \cup R)
  BY <1>1, <1>2, <1>3, <1>4 DEF Remain
<1>7. /\ Tree(d, i, O, h) /\ empties \in BOOLEAN /\ O \subseteq Block
      /\ dead \subseteq 0..(NDIRECT - 1) /\ gone \subseteq Word
  BY DEF Shortens, Tree, TreeTypes
<1>7a. \A x, y : <<x, y>> \in C <=> Emptied(i, dead, gone, empties, x, y)
  BY <1>5, <1>7, InCut
<1>8. \A x, y : <<x, y>> \in C <=> \/ x = 0 /\ y \in dead
                                   \/ x = i.indirect /\ y \in gone
                                   \/ empties /\ x = 0 /\ \E l \in 1..3 : y = NDIRECT + l
  BY <1>7a DEF Emptied
<1>9. /\ \A y \in dead : y \in Index /\ IsPlace(O, h, 0, y) /\ At(d, i, 0, y) = i.direct[y]
                         /\ At(d, i, 0, y) # 0
      /\ \A y \in gone : /\ y \in Index /\ i.indirect \in Block
                         /\ IsPlace(O, h, i.indirect, y)
                         /\ At(d, i, i.indirect, y) = d[i.indirect][y]
                         /\ At(d, i, i.indirect, y) # 0
      /\ \A l \in 1..3 : /\ NDIRECT + l \in Index /\ IsPlace(O, h, 0, NDIRECT + l)
                         /\ At(d, i, 0, NDIRECT + l) = Root(i, l)
  BY ShortPlaces
<1>10. 0 \in Place /\ \A b \in Block : b \in Place /\ b # 0
  BY PlaceFacts
<1>11. \A x, y : <<x, y>> \in C => IsPlace(O, h, x, y)
  BY <1>8, <1>9
<1>12. \A b : b \in A <=> \E y \in dead : b = At(d, i, 0, y)
  BY <1>1, <1>9 DEF DeadBlocks
<1>13. \A b : b \in B <=> \E y \in gone : b = At(d, i, i.indirect, y)
  BY <1>2, <1>9 DEF GoneBlocks
<1>14. \A b : b # 0 => (b \in R <=> empties /\ \E l \in 1..3 : b = At(d, i, 0, NDIRECT + l))
  <2>1. CASE ~empties
    BY <1>3, <2>1 DEF RootBlocks
  <2>2. CASE empties
    <3>1. \A b : b \in R <=> \E l \in 1..3 : Root(i, l) # 0 /\ b = Root(i, l)
      BY <1>3, <2>2 DEF RootBlocks
    <3> QED BY <1>9, <2>2, <3>1
  <2> QED BY <1>7, <2>1, <2>2
<1>15. ASSUME NEW b \in O
       PROVE  b \in Q <=> \A x \in Place, y \in Index : <<x, y>> \in C => At(d, i, x, y) # b
  <2>1. b # 0
    BY <1>7, <1>10
  <2>2. ASSUME b \in Q, NEW x \in Place, NEW y \in Index, <<x, y>> \in C PROVE At(d, i, x, y) # b
    <3>1. b \notin A /\ b \notin B /\ b \notin R
      BY <1>6, <2>2
    <3>2. CASE x = 0 /\ y \in dead
      BY <1>12, <3>1, <3>2
    <3>3. CASE x = i.indirect /\ y \in gone
      BY <1>13, <3>1, <3>3
    <3>4. CASE empties /\ x = 0 /\ \E l \in 1..3 : y = NDIRECT + l
      BY <1>14, <2>1, <3>1, <3>4
    <3> QED BY <1>8, <2>2, <3>2, <3>3, <3>4
  <2>3. ASSUME \A x \in Place, y \in Index : <<x, y>> \in C => At(d, i, x, y) # b
        PROVE  b \in Q
    <3>1. b \notin A
      <4> SUFFICES ASSUME b \in A PROVE FALSE
        OBVIOUS
      <4>1. PICK y \in dead : b = At(d, i, 0, y)
        BY <1>12
      <4>2. <<0, y>> \in C
        BY <1>8
      <4> QED BY <1>9, <1>10, <2>3, <4>1, <4>2
    <3>2. b \notin B
      <4> SUFFICES ASSUME b \in B PROVE FALSE
        OBVIOUS
      <4>1. PICK y \in gone : b = At(d, i, i.indirect, y)
        BY <1>13
      <4>2. <<i.indirect, y>> \in C
        BY <1>8
      <4> QED BY <1>9, <1>10, <2>3, <4>1, <4>2
    <3>3. b \notin R
      <4> SUFFICES ASSUME b \in R PROVE FALSE
        OBVIOUS
      <4>1. empties
        BY <1>14, <2>1
      <4>2. PICK l \in 1..3 : b = At(d, i, 0, NDIRECT + l)
        BY <1>14, <2>1
      <4>3. <<0, NDIRECT + l>> \in C
        BY <1>8, <4>1
      <4> QED BY <1>9, <1>10, <2>3, <4>2, <4>3
    <3> QED BY <1>6, <3>1, <3>2, <3>3
  <2> QED BY <2>2, <2>3
<1>16. Q = {b \in O : \A x \in Place, y \in Index : <<x, y>> \in C => At(d, i, x, y) # b}
  BY <1>6, <1>15
<1>17. TreeTypes(e, j, Q, h)
  BY <1>4, ShortCount
<1>18. ASSUME NEW x, NEW y, IsPlace(Q, h, x, y)
       PROVE  At(e, j, x, y) = IF <<x, y>> \in C THEN 0 ELSE At(d, i, x, y)
  <2>1. CASE x = 0 /\ y \in 0..(NDIRECT - 1)
    <3>1. y \in Nat /\ y < NDIRECT /\ NDIRECT \in Nat
      BY <2>1, PlaceFacts
    <3>2. <<x, y>> \in C <=> y \in dead
      <4>1. \A l \in 1..3 : y # NDIRECT + l
        BY <3>1
      <4>2. i.indirect = 0 => gone = {}
        BY <1>9, <1>10
      <4> QED BY <1>8, <2>1, <4>1, <4>2
    <3>3. j.direct[y] = IF y \in dead THEN 0 ELSE i.direct[y]
      BY <2>1 DEF Shortens
    <3>4. At(e, j, x, y) = j.direct[y] /\ At(d, i, x, y) = i.direct[y]
      BY <2>1, <3>1 DEF At
    <3> QED BY <3>2, <3>3, <3>4
  <2>2. CASE x = 0 /\ y \in {NDIRECT + 1, NDIRECT + 2, NDIRECT + 3}
    <3>1. PICK l \in 1..3 : y = NDIRECT + l
      BY <2>2
    <3>2. At(e, j, x, y) = Root(j, l) /\ At(d, i, x, y) = Root(i, l)
      BY <2>2, <3>1, RootPlace
    <3>3. y \notin dead
      BY <1>7, <3>1, PlaceFacts
    <3>4. i.indirect = 0 => gone = {}
      BY <1>9, <1>10
    <3>5. <<x, y>> \in C <=> empties
      BY <1>8, <2>2, <3>1, <3>3, <3>4
    <3>6. l = 1 \/ l = 2 \/ l = 3
      OBVIOUS
    <3>7. Root(j, l) = IF empties THEN 0 ELSE Root(i, l)
      BY <3>6 DEF Shortens, Root
    <3> QED BY <3>2, <3>5, <3>7
  <2>3. CASE x # 0
    <3>1. x \in Q /\ x \in Block /\ y \in Word
      BY <1>6, <1>7, <1>18, <2>3 DEF IsPlace
    <3>2. At(e, j, x, y) = e[x][y] /\ At(d, i, x, y) = d[x][y]
      BY <2>3 DEF At
    <3>3. CASE x # i.indirect
      <4>1. e[x] = d[x]
        BY <3>1, <3>3 DEF Shortens
      <4>2. <<x, y>> \notin C
        BY <1>8, <2>3, <3>3
      <4> QED BY <3>2, <4>1, <4>2
    <3>4. CASE x = i.indirect
      <4>1. ~empties
        <5>1. 1 \in 1..3 /\ At(d, i, 0, NDIRECT + 1) = x
          BY <1>9, <3>4 DEF Root
        <5> QED BY <1>6, <1>14, <2>3, <3>1, <5>1
      <4>2. e[x][y] = IF y \in gone THEN 0 ELSE d[x][y]
        BY <2>3, <3>1, <3>4, <4>1 DEF Shortens
      <4>3. <<x, y>> \in C <=> y \in gone
        BY <1>8, <2>3, <3>4
      <4> QED BY <3>2, <4>2, <4>3
    <3> QED BY <3>3, <3>4
  <2> QED BY <1>18, <2>1, <2>2, <2>3 DEF IsPlace, Index0
<1>19. Cutting(d, i, O, h, C, Q, e, j)
  BY <1>7, <1>11, <1>16, <1>17, <1>18 DEF Cutting
<1> QED BY <1>4, <1>19, CutTree

\* What is before the new end can be read as before.
LEMMA ShortViews ==
    ASSUME NEW d, NEW i, NEW O, NEW h, NEW len, NEW dead, NEW gone, NEW empties, NEW e, NEW j,
           Shortens(d, i, O, h, len, dead, gone, empties, e, j), NEW fb \in Nat, fb < len
    PROVE  Vw(e, j, fb) = Vw(d, i, fb)
<1>1. /\ Tree(d, i, O, h) /\ len \in Nat /\ empties \in BOOLEAN /\ i \in InodeRec
      /\ gone \subseteq Word
  BY DEF Shortens, Tree, TreeTypes
<1>2. NDIRECT \in Nat /\ NDIRECT > 0 /\ DBPERIDB \in Nat /\ DBPERIDB > 1
  BY PlaceFacts
<1>3. Mp(e, j, fb) = Mp(d, i, fb) => Vw(e, j, fb) = Vw(d, i, fb)
  <2> SUFFICES ASSUME Mp(e, j, fb) = Mp(d, i, fb) PROVE Vw(e, j, fb) = Vw(d, i, fb)
    OBVIOUS
  <2>1. PICK m : m = Mp(d, i, fb)
    OBVIOUS
  <2>2. m = 0 \/ (m \in O /\ m \in Block /\ h[m] = 0)
    BY <1>1, <2>1, MpInTree
  <2>3. m # 0 => m # i.indirect
    BY <2>2, ShortPlaces
  <2>4. m # 0 => e[m] = d[m]
    BY <2>2, <2>3 DEF Shortens
  <2> QED BY <2>1, <2>4 DEF Vw
<1>4. CASE fb < NDIRECT
  <2>1. Level(fb) = 0
    BY <1>4, PathLevel
  <2>2. Mp(e, j, fb) = j.direct[fb] /\ Mp(d, i, fb) = i.direct[fb]
    BY <2>1, MpWay
  <2>3. fb \in 0..(NDIRECT - 1)
    BY <1>2, <1>4
  <2>4. fb \notin dead
    BY <1>1 DEF Shortens
  <2>5. j.direct[fb] = i.direct[fb]
    BY <2>3, <2>4 DEF Shortens
  <2> QED BY <1>3, <2>2, <2>5
<1>5. CASE ~(fb < NDIRECT) /\ (gone # {} \/ empties)
  <2>1. fb - NDIRECT \in Word
    <3>1. CASE gone # {}
      <4>1. PICK y \in Word : len < NDIRECT + y
        BY <1>1, <3>1 DEF Shortens
      <4>2. y \in Nat /\ y < DBPERIDB
        BY <1>2 DEF Word
      <4> QED BY <1>1, <1>2, <1>5, <4>1, <4>2 DEF Word
    <3>2. CASE empties
      <4>1. len < NDIRECT + DBPERIDB - 1
        BY <3>2 DEF Shortens
      <4> QED BY <1>1, <1>2, <1>5, <4>1 DEF Word
    <3> QED BY <1>5, <3>1, <3>2
  <2>2. PICK y : y = fb - NDIRECT
    OBVIOUS
  <2>3. y \in Word /\ y \in Nat /\ y < DBPERIDB /\ NDIRECT + y = fb
    BY <1>2, <2>1, <2>2 DEF Word
  <2>4. Level(fb) = 1
    BY <1>2, <1>5, <2>2, <2>3 DEF Level
  <2>5. y % DBPERIDB = y
    BY <1>2, <2>3
  <2>6. IndexPath(fb) = <<y>>
    BY <2>2, <2>4, <2>5 DEF IndexPath
  <2>7. Mp(e, j, fb) = En(e, j.indirect, y) /\ Mp(d, i, fb) = En(d, i.indirect, y)
    BY <2>6 DEF Mp, Root
  <2>8. y \notin gone
    <3>1. \A z \in gone : len < NDIRECT + z
      BY DEF Shortens
    <3> QED BY <1>1, <1>2, <2>3, <3>1
  <2>9. CASE empties
    <3>1. j.indirect = 0 /\ d[i.indirect][y] = 0
      BY <2>3, <2>8, <2>9 DEF Shortens
    <3> QED BY <1>3, <2>7, <3>1 DEF En
  <2>10. CASE ~empties
    <3>1. /\ j.indirect = i.indirect
          /\ i.indirect # 0 => e[i.indirect][y] = d[i.indirect][y]
      BY <2>3, <2>8, <2>10 DEF Shortens
    <3> QED BY <1>3, <2>7, <3>1 DEF En
  <2> QED BY <1>1, <2>9, <2>10
<1>6. CASE ~(fb < NDIRECT) /\ gone = {} /\ ~empties
  <2>1. dead = {}
    <3>1. \A y \in 0..(NDIRECT - 1) : ~(y >= len)
      BY <1>1, <1>2, <1>6
    <3> QED BY <3>1 DEF Shortens
  <2>2. j.direct = i.direct
    <3>1. \A y \in 0..(NDIRECT - 1) : j.direct[y] = i.direct[y]
      BY <2>1 DEF Shortens
    <3>2. PICK N : N = 0..(NDIRECT - 1)
      OBVIOUS
    <3>3. i.direct \in [N -> Nat] /\ j.direct \in [N -> Nat]
      BY <1>1, <3>2 DEF Shortens, InodeRec
    <3>4. \A y \in N : j.direct[y] = i.direct[y]
      BY <3>1, <3>2
    <3> QED BY <3>3, <3>4
  <2>3. SamePointers(i, j)
    BY <1>6, <2>2 DEF Shortens, SamePointers
  <2>4. /\ e \in [Block -> [Word -> Nat]] /\ d \in [Block -> [Word -> Nat]]
        /\ \A b \in Block : b # i.indirect => e[b] = d[b]
        /\ i.indirect # 0 => \A y \in Word : e[i.indirect][y] = d[i.indirect][y]
    BY <1>6 DEF Shortens, Tree, TreeTypes
  <2>5. ASSUME NEW b \in O PROVE e[b] = d[b]
    <3>1. b \in Block /\ b # 0
      BY <1>1, PlaceFacts DEF Tree, TreeTypes
    <3>2. CASE b = i.indirect
      <4>1. e[b] \in [Word -> Nat] /\ d[b] \in [Word -> Nat]
        BY <2>4, <3>1
      <4>2. \A y \in Word : e[b][y] = d[b][y]
        BY <2>4, <3>1, <3>2
      <4> QED BY <4>1, <4>2
    <3> QED BY <2>4, <3>1, <3>2
  <2>6. \A b \in O : e[b] = d[b]
    BY <2>5
  <2> QED BY <1>1, <2>3, <2>6, VwSame
<1> QED BY <1>4, <1>5, <1>6

\* What truncating does to what can be read.
TruncateShows(f, len) ==
    \A g \in File, fb \in FileBlock : g # f \/ fb < len => View(g, fb)' = View(g, fb)

LEMMA TruncateStep ==
    ASSUME FileInv, NEW f \in File, NEW len \in Lengths, sfs_truncate(f, len)
    PROVE  FileInv' /\ TruncateShows(f, len) /\ last'.op = "truncate" /\ last'.file = f
           /\ last'.at = len
<1>1. PICK own, h : Forest(freemap, disk, inode, own, h)
  BY DEF FileInv
<1>2. PICK O : O = own[f]
  OBVIOUS
<1>3. PICK k : k = h[f]
  OBVIOUS
<1>4. PICK i : i = inode[f]
  OBVIOUS
<1>5. /\ freemap \in SUBSET Block /\ disk \in [Block -> [Word -> Nat]]
      /\ inode \in [File -> InodeRec] /\ O \subseteq freemap /\ Tree(disk, i, O, k)
  BY <1>1, <1>2, <1>3, <1>4 DEF Forest
<1>6. i \in InodeRec /\ TreeTypes(disk, i, O, k)
  BY <1>5 DEF Tree, TreeTypes
<1>7. len \in Nat /\ NDIRECT \in Nat /\ DBPERIDB \in Nat
  BY SfsFileAssumption
<1>8. i.indirect # 0 => i.indirect \in Block /\ i.indirect \in O
  <2>1. 1 \in 1..3 /\ Root(i, 1) = i.indirect
    BY DEF Root
  <2> QED BY <1>5, <2>1, RootPlace, HeldBlock
<1>9. PICK dead : dead = {y \in 0..(NDIRECT - 1) : y >= len /\ i.direct[y] # 0}
  OBVIOUS
<1>10. PICK opens : opens = (len < NDIRECT + DBPERIDB - 1 /\ i.indirect # 0)
  OBVIOUS
<1>11. PICK id : id = disk[i.indirect]
  OBVIOUS
<1>12. PICK gone : gone = IF opens THEN {y \in Word : PastEnd(NDIRECT + y, len) /\ id[y] # 0}
                          ELSE {}
  OBVIOUS
<1>13. PICK empties : empties = (opens /\ \A y \in Word : id[y] = 0 \/ y \in gone)
  OBVIOUS
<1>14. PICK e : e = IF gone # {} /\ ~empties
                    THEN [disk EXCEPT ![i.indirect] =
                            [y \in Word |-> IF y \in gone THEN 0 ELSE id[y]]]
                    ELSE disk
  OBVIOUS
<1>15. PICK j : j = [direct |-> [y \in 0..(NDIRECT - 1) |-> IF y \in dead THEN 0 ELSE i.direct[y]],
                     indirect |-> IF empties THEN 0 ELSE i.indirect,
                     doubleindirect |-> IF empties THEN 0 ELSE i.doubleindirect,
                     tripleindirect |-> IF empties THEN 0 ELSE i.tripleindirect,
                     size |-> len,
                     blocks |-> i.blocks - Cardinality(dead) - Cardinality(gone)
                                - (IF empties
                                   THEN 1 + Cardinality({l \in {2, 3} : Root(i, l) # 0})
                                   ELSE 0)]
  OBVIOUS
<1>16. /\ freemap' = freemap \ ({i.direct[y] : y \in dead} \cup {id[y] : y \in gone}
                                \cup (IF empties THEN {i.indirect} ELSE {}))
       /\ disk' = e /\ inode' = [inode EXCEPT ![f] = j]
       /\ last' = [op |-> "truncate", file |-> f, at |-> len]
  BY <1>4, <1>9, <1>10, <1>11, <1>12, <1>13, <1>14, <1>15 DEF sfs_truncate
<1>17. Shortens(disk, i, O, k, len, dead, gone, empties, e, j)
  <2>1. opens \in BOOLEAN /\ empties \in BOOLEAN
    BY <1>10, <1>13
  <2>2. gone \subseteq Word
    BY <1>12
  <2>3. ASSUME NEW y \in gone
        PROVE  len < NDIRECT + y /\ i.indirect # 0 /\ disk[i.indirect][y] # 0
    BY <1>10, <1>11, <1>12 DEF PastEnd
  <2>4. empties => /\ i.indirect # 0 /\ len < NDIRECT + DBPERIDB - 1
                   /\ \A y \in Word : disk[i.indirect][y] = 0 \/ y \in gone
    BY <1>10, <1>11, <1>13
  <2>5. /\ e \in [Block -> [Word -> Nat]] /\ \A b \in Block : b # i.indirect => e[b] = disk[b]
        /\ i.indirect # 0 /\ ~empties =>
              \A y \in Word : e[i.indirect][y] = IF y \in gone THEN 0 ELSE disk[i.indirect][y]
    <3>1. CASE gone # {} /\ ~empties
      <4>1. i.indirect \in Block
        BY <1>8, <2>3, <3>1
      <4>2. PICK w : w = [y \in Word |-> IF y \in gone THEN 0 ELSE id[y]]
        OBVIOUS
      <4>3. w \in [Word -> Nat] /\ \A y \in Word : w[y] = IF y \in gone THEN 0 ELSE id[y]
        <5>1. id \in [Word -> Nat]
          BY <1>5, <1>11, <4>1
        <5> QED BY <4>2, <5>1
      <4>4. e = [disk EXCEPT ![i.indirect] = w]
        BY <1>14, <3>1, <4>2
      <4> QED BY <1>5, <1>11, <4>1, <4>3, <4>4
    <3>2. CASE ~(gone # {} /\ ~empties)
      <4>1. e = disk
        BY <1>14, <3>2
      <4>2. ~empties => gone = {}
        BY <3>2
      <4> QED BY <1>5, <4>1, <4>2
    <3> QED BY <3>1, <3>2
  <2>6. /\ j.direct \in [0..(NDIRECT - 1) -> Nat]
        /\ \A y \in 0..(NDIRECT - 1) : j.direct[y] = IF y \in dead THEN 0 ELSE i.direct[y]
    <3>1. PICK N : N = 0..(NDIRECT - 1)
      OBVIOUS
    <3>2. i.direct \in [N -> Nat]
      BY <1>6, <3>1 DEF InodeRec
    <3>3. j.direct = [y \in N |-> IF y \in dead THEN 0 ELSE i.direct[y]]
      BY <1>15, <3>1
    <3>4. /\ j.direct \in [N -> Nat]
          /\ \A y \in N : j.direct[y] = IF y \in dead THEN 0 ELSE i.direct[y]
      BY <3>2, <3>3
    <3> QED BY <3>1, <3>4
  <2>7. /\ j.indirect = IF empties THEN 0 ELSE i.indirect
        /\ j.doubleindirect = IF empties THEN 0 ELSE i.doubleindirect
        /\ j.tripleindirect = IF empties THEN 0 ELSE i.tripleindirect
        /\ j.blocks = i.blocks - Cardinality(dead) - Cardinality(gone)
                      - (IF empties THEN 1 + Cardinality({l \in {2, 3} : Root(i, l) # 0}) ELSE 0)
        /\ j.size = len
    BY <1>15
  <2>8. ASSUME NEW n \in Nat, j.blocks = n PROVE j \in InodeRec
    <3>1. j = [direct |-> j.direct, indirect |-> j.indirect,
               doubleindirect |-> j.doubleindirect, tripleindirect |-> j.tripleindirect,
               size |-> j.size, blocks |-> j.blocks]
      BY <1>15
    <3>2. i.indirect \in Nat /\ i.doubleindirect \in Nat /\ i.tripleindirect \in Nat
      BY <1>6 DEF InodeRec
    <3>3. j.indirect \in Nat /\ j.doubleindirect \in Nat /\ j.tripleindirect \in Nat
      BY <2>7, <3>2
    <3>4. j.size \in Nat /\ j.blocks \in Nat
      BY <1>7, <2>7, <2>8
    <3> QED BY <2>6, <3>1, <3>3, <3>4 DEF InodeRec
  <2>9. \A y \in gone : len < NDIRECT + y /\ i.indirect # 0 /\ disk[i.indirect][y] # 0
    BY <2>3
  <2> QED BY <1>5, <1>7, <1>9, <2>1, <2>2, <2>9, <2>4, <2>5, <2>6, <2>7, <2>8 DEF Shortens
<1>18. PICK Q : Q = Remain(disk, i, O, dead, gone, empties)
  OBVIOUS
<1>19. Tree(e, j, Q, k)
  BY <1>17, <1>18, ShortTree
<1>20. PICK A : A = DeadBlocks(i, dead)
  OBVIOUS
<1>21. PICK B : B = GoneBlocks(disk, i, gone)
  OBVIOUS
<1>22. PICK R : R = RootBlocks(i, empties)
  OBVIOUS
<1>23. A \subseteq O /\ B \subseteq O /\ R \subseteq O /\ Q = O \ (A \cup B \cup R)
  BY <1>17, <1>18, <1>20, <1>21, <1>22, ShortBlocks DEF Remain
<1>24. PICK F : F = IF empties THEN {i.indirect} ELSE {}
  OBVIOUS
<1>25. F \subseteq R
  <2>1. CASE empties
    <3>1. 1 \in 1..3 /\ Root(i, 1) = i.indirect
      BY DEF Root
    <3>2. i.indirect # 0
      BY <1>10, <1>13, <2>1
    <3>3. i.indirect \in R
      BY <1>22, <2>1, <3>1, <3>2 DEF RootBlocks
    <3> QED BY <1>24, <2>1, <3>3
  <2>2. CASE ~empties
    BY <1>24, <2>2
  <2> QED BY <2>1, <2>2
<1>26. freemap' = freemap \ (A \cup B \cup F)
  BY <1>11, <1>16, <1>20, <1>21, <1>24 DEF DeadBlocks, GoneBlocks
<1>27. /\ freemap' \in SUBSET Block /\ Q \subseteq freemap' /\ freemap \ O \subseteq freemap'
       /\ (freemap \ O) \cap Q = {}
  BY <1>5, <1>23, <1>25, <1>26
<1>28. ASSUME NEW b \in freemap \ O PROVE e[b] = disk[b]
  <2>1. b \in Block /\ b # 0
    BY <1>5, PlaceFacts
  <2>2. b # i.indirect
    BY <1>8, <2>1
  <2> QED BY <1>17, <2>1, <2>2 DEF Shortens
<1>29. /\ inode' \in [File -> InodeRec] /\ inode'[f] = j
       /\ \A g \in File : g # f => inode'[g] = inode[g]
  <2>1. j \in InodeRec
    BY <1>19 DEF Tree, TreeTypes
  <2> QED BY <1>5, <1>16, <2>1
<1>30. Replaces(freemap, disk, inode, own, h, f, freemap', disk', inode', Q, k)
  <2>1. \A b \in freemap \ own[f] : disk'[b] = disk[b]
    BY <1>2, <1>16, <1>28
  <2> QED BY <1>1, <1>2, <1>16, <1>19, <1>27, <1>29, <2>1 DEF Replaces
<1>31. /\ \E own2, h2 : Forest(freemap', disk', inode', own2, h2)
       /\ \A g \in File, gb \in Nat :
             g # f => Vw(disk', inode'[g], gb) = Vw(disk, inode[g], gb)
  BY <1>30, ForestStep
<1>32. FileInv'
  BY <1>31 DEF FileInv
<1>33. TruncateShows(f, len)
  <2> SUFFICES ASSUME NEW g \in File, NEW fb \in FileBlock, g # f \/ fb < len
               PROVE  View(g, fb)' = View(g, fb)
    BY DEF TruncateShows
  <2>1. View(g, fb) = Vw(disk, inode[g], fb) /\ View(g, fb)' = Vw(disk', inode'[g], fb)
    BY ViewIs
  <2>2. fb \in Nat
    BY SfsFileAssumption
  <2>3. CASE g # f
    BY <1>31, <2>1, <2>2, <2>3
  <2>4. CASE g = f
    <3>1. Vw(e, j, fb) = Vw(disk, i, fb)
      BY <1>17, <2>2, <2>4, ShortViews
    <3> QED BY <1>4, <1>16, <1>29, <2>1, <2>4, <3>1
  <2> QED BY <2>3, <2>4
<1> QED BY <1>16, <1>32, <1>33

----------------------------------------------------------------------------
(* The invariant, and what follows from it *)

LEMMA FileInit ==
    ASSUME Init PROVE FileInv
<1>1. PICK O : O = {}
  OBVIOUS
<1>2. PICK k : k = [b \in Block |-> 0]
  OBVIOUS
<1>3. k \in [Block -> 0..3] /\ O \in SUBSET Block /\ IsFiniteSet(O) /\ Cardinality(O) = 0
  BY <1>1, <1>2, FS_EmptySet
<1>4. /\ freemap \in SUBSET Block /\ disk \in [Block -> [Word -> Nat]]
      /\ inode = [f \in File |-> EmptyInode]
  BY PlaceFacts DEF Init
<1>5. EmptyInode \in InodeRec /\ EmptyInode.blocks = 0
  BY DEF EmptyInode, InodeRec
<1>6. ASSUME NEW x, NEW y, IsPlace(O, k, x, y) PROVE At(disk, EmptyInode, x, y) = 0
  <2>1. x = 0 /\ y \in Index0
    BY <1>1, <1>6 DEF IsPlace
  <2>2. y < NDIRECT => y \in 0..(NDIRECT - 1)
    BY <2>1, PlaceFacts DEF Index0
  <2>3. \A z \in 0..(NDIRECT - 1) : EmptyInode.direct[z] = 0
    BY DEF EmptyInode
  <2>4. EmptyInode.indirect = 0 /\ EmptyInode.doubleindirect = 0 /\ EmptyInode.tripleindirect = 0
    BY DEF EmptyInode
  <2> QED BY <2>1, <2>2, <2>3, <2>4 DEF At
<1>7. Tree(disk, EmptyInode, O, k)
  <2>1. TreeTypes(disk, EmptyInode, O, k)
    BY <1>3, <1>4, <1>5 DEF TreeTypes
  <2> QED BY <1>6, <2>1 DEF Tree, Held, Once
<1>8. PICK own : own = [f \in File |-> O]
  OBVIOUS
<1>9. PICK h : h = [f \in File |-> k]
  OBVIOUS
<1>10. /\ own \in [File -> SUBSET Block] /\ h \in [File -> [Block -> 0..3]]
       /\ inode \in [File -> InodeRec]
       /\ \A f \in File : own[f] = O /\ h[f] = k /\ inode[f] = EmptyInode
  BY <1>3, <1>4, <1>5, <1>8, <1>9
<1>11. \A f \in File : own[f] \subseteq freemap /\ Tree(disk, inode[f], own[f], h[f])
  BY <1>1, <1>7, <1>10
<1>12. \A f, g \in File : f # g => own[f] \cap own[g] = {}
  BY <1>1, <1>10
<1>13. Forest(freemap, disk, inode, own, h)
  BY <1>4, <1>10, <1>11, <1>12 DEF Forest
<1> QED BY <1>13 DEF FileInv

LEMMA FileStep ==
    ASSUME FileInv, [Next]_vars PROVE FileInv'
<1>1. CASE UNCHANGED vars
  BY <1>1 DEF FileInv, vars
<1>2. ASSUME NEW f \in File, NEW fb \in FileBlock, read(f, fb) PROVE FileInv'
  BY <1>2, ReadStep
<1>3. ASSUME NEW f \in File, NEW fb \in FileBlock, NEW dat \in Data, write(f, fb, dat) PROVE FileInv'
  BY <1>3, WriteStep
<1>4. ASSUME NEW f \in File, NEW len \in Lengths, sfs_truncate(f, len) PROVE FileInv'
  BY <1>4, TruncateStep
<1> QED BY <1>1, <1>2, <1>3, <1>4 DEF Next

\* Pointers that are places of the tree, leading to blocks of height t.
PointersTo(d, i, O, h, S, t) ==
    \A p \in S : \E x \in Place, y \in Index :
       /\ IsPlace(O, h, x, y) /\ HeightAt(h, x, y) = t
       /\ p = <<<<x, y>>, At(d, i, x, y)>> /\ At(d, i, x, y) # 0

LEMMA OneRoot ==
    ASSUME NEW d, NEW i, NEW O, NEW h, NEW l \in 1..3, NEW S,
           S = Real({<<<<0, NDIRECT + l>>, Root(i, l)>>})
    PROVE  PointersTo(d, i, O, h, S, l)
<1> SUFFICES ASSUME NEW p \in S
             PROVE  \E x \in Place, y \in Index :
                       /\ IsPlace(O, h, x, y) /\ HeightAt(h, x, y) = l
                       /\ p = <<<<x, y>>, At(d, i, x, y)>> /\ At(d, i, x, y) # 0
  BY DEF PointersTo
<1>1. p = <<<<0, NDIRECT + l>>, Root(i, l)>> /\ p[2] # 0
  BY DEF Real
<1>2. Root(i, l) # 0
  BY <1>1
<1>3. 0 \in Place /\ NDIRECT + l \in Index
  BY PlaceFacts DEF Index, Index0
<1> QED BY <1>1, <1>2, <1>3, RootPlace

LEMMA OneDown ==
    ASSUME NEW d, NEW i, NEW O, NEW h, Tree(d, i, O, h), NEW t \in 1..3, NEW S,
           PointersTo(d, i, O, h, S, t), NEW T, T = Real(Nodes(d, S))
    PROVE  PointersTo(d, i, O, h, T, t - 1)
<1> SUFFICES ASSUME NEW p \in T
             PROVE  \E x \in Place, y \in Index :
                       /\ IsPlace(O, h, x, y) /\ HeightAt(h, x, y) = t - 1
                       /\ p = <<<<x, y>>, At(d, i, x, y)>> /\ At(d, i, x, y) # 0
  BY DEF PointersTo
<1>1. p \in Nodes(d, S) /\ p[2] # 0
  BY DEF Real
<1>2. PICK q \in S, k \in Word : p = <<<<q[2], k>>, d[q[2]][k]>>
  BY <1>1 DEF Nodes
<1>3. PICK x \in Place, y \in Index :
         /\ IsPlace(O, h, x, y) /\ HeightAt(h, x, y) = t
         /\ q = <<<<x, y>>, At(d, i, x, y)>> /\ At(d, i, x, y) # 0
  BY DEF PointersTo
<1>4. PICK b : b = q[2]
  OBVIOUS
<1>5. b = At(d, i, x, y) /\ b # 0
  BY <1>3, <1>4
<1>6. b \in O /\ b \in Block /\ h[b] = t
  BY <1>3, <1>5, HeldBlock
<1>7. /\ IsPlace(O, h, b, k) /\ At(d, i, b, k) = d[b][k] /\ HeightAt(h, b, k) = t - 1
  <2>1. h[b] > 0 /\ TreeTypes(d, i, O, h)
    BY <1>6 DEF Tree
  <2> QED BY <1>6, <2>1, EntryPlace
<1>8. b \in Place /\ k \in Index
  BY <1>6, PlaceFacts
<1>9. p = <<<<b, k>>, At(d, i, b, k)>>
  BY <1>2, <1>4, <1>7
<1>10. At(d, i, b, k) # 0
  BY <1>1, <1>9
<1> QED BY <1>7, <1>8, <1>9, <1>10

\* All that Pointers collects are places of the tree.
LEMMA PointersInTree ==
    ASSUME NEW d, NEW i, NEW O, NEW h, Tree(d, i, O, h), NEW p \in Pointers(d, i)
    PROVE  \E x \in Place, y \in Index :
              IsPlace(O, h, x, y) /\ p = <<<<x, y>>, At(d, i, x, y)>> /\ At(d, i, x, y) # 0
<1>1. PICK S : S = [direct |-> Real({<<<<0, k>>, i.direct[k]>> : k \in DOMAIN i.direct}),
                    one |-> Real({<<<<0, NDIRECT + 1>>, i.indirect>>}),
                    two |-> Real({<<<<0, NDIRECT + 2>>, i.doubleindirect>>}),
                    three |-> Real({<<<<0, NDIRECT + 3>>, i.tripleindirect>>})]
  OBVIOUS
<1>2. PICK two1 : two1 = Real(Nodes(d, S.two))
  OBVIOUS
<1>3. PICK three1 : three1 = Real(Nodes(d, S.three))
  OBVIOUS
<1>4. PICK three2 : three2 = Real(Nodes(d, three1))
  OBVIOUS
<1>5. PICK one0 : one0 = Real(Nodes(d, S.one))
  OBVIOUS
<1>6. PICK two0 : two0 = Real(Nodes(d, two1))
  OBVIOUS
<1>7. PICK three0 : three0 = Real(Nodes(d, three2))
  OBVIOUS
<1>8. Pointers(d, i) = S.direct \cup S.one \cup S.two \cup S.three \cup two1 \cup three1
                       \cup three2 \cup one0 \cup two0 \cup three0
  BY <1>1, <1>2, <1>3, <1>4, <1>5, <1>6, <1>7 DEF Pointers
<1>9. PointersTo(d, i, O, h, S.direct, 0)
  <2> SUFFICES ASSUME NEW q \in S.direct
               PROVE  \E x \in Place, y \in Index :
                         /\ IsPlace(O, h, x, y) /\ HeightAt(h, x, y) = 0
                         /\ q = <<<<x, y>>, At(d, i, x, y)>> /\ At(d, i, x, y) # 0
    BY DEF PointersTo
  <2>1. PICK k \in DOMAIN i.direct : q = <<<<0, k>>, i.direct[k]>> /\ q[2] # 0
    BY <1>1 DEF Real
  <2>2. i.direct \in [0..(NDIRECT - 1) -> Nat]
    BY DEF Tree, TreeTypes, InodeRec
  <2>3. k \in 0..(NDIRECT - 1)
    BY <2>1, <2>2
  <2>4. k \in Nat /\ k < NDIRECT /\ 0 \in Place /\ k \in Index
    BY <2>3, PlaceFacts DEF Index, Index0
  <2>5. IsPlace(O, h, 0, k) /\ At(d, i, 0, k) = i.direct[k] /\ HeightAt(h, 0, k) = 0
    BY <2>4, DirectPlace
  <2>6. At(d, i, 0, k) # 0
    BY <2>1, <2>5
  <2> QED BY <2>1, <2>4, <2>5, <2>6
<1>10. /\ PointersTo(d, i, O, h, S.one, 1) /\ PointersTo(d, i, O, h, S.two, 2)
       /\ PointersTo(d, i, O, h, S.three, 3)
  <2>1. /\ Root(i, 1) = i.indirect /\ Root(i, 2) = i.doubleindirect
        /\ Root(i, 3) = i.tripleindirect /\ 1 \in 1..3 /\ 2 \in 1..3 /\ 3 \in 1..3
    BY DEF Root
  <2>2. /\ S.one = Real({<<<<0, NDIRECT + 1>>, Root(i, 1)>>})
        /\ S.two = Real({<<<<0, NDIRECT + 2>>, Root(i, 2)>>})
        /\ S.three = Real({<<<<0, NDIRECT + 3>>, Root(i, 3)>>})
    BY <1>1, <2>1
  <2> QED BY <2>1, <2>2, OneRoot
<1>11. PointersTo(d, i, O, h, one0, 0)
  <2>1. 1 \in 1..3 /\ 1 - 1 = 0
    OBVIOUS
  <2>2. PointersTo(d, i, O, h, one0, 1 - 1)
    BY <1>5, <1>10, <2>1, OneDown
  <2> QED BY <2>1, <2>2
<1>12. PointersTo(d, i, O, h, two1, 1) /\ PointersTo(d, i, O, h, two0, 0)
  <2>1. 1 \in 1..3 /\ 1 - 1 = 0 /\ 2 \in 1..3 /\ 2 - 1 = 1
    OBVIOUS
  <2>2. PointersTo(d, i, O, h, two1, 2 - 1)
    BY <1>2, <1>10, <2>1, OneDown
  <2>3. PointersTo(d, i, O, h, two0, 1 - 1)
    BY <1>6, <2>1, <2>2, OneDown
  <2> QED BY <2>1, <2>2, <2>3
<1>13. /\ PointersTo(d, i, O, h, three1, 2) /\ PointersTo(d, i, O, h, three2, 1)
       /\ PointersTo(d, i, O, h, three0, 0)
  <2>1. 1 \in 1..3 /\ 1 - 1 = 0 /\ 2 \in 1..3 /\ 2 - 1 = 1 /\ 3 \in 1..3 /\ 3 - 1 = 2
    OBVIOUS
  <2>2. PointersTo(d, i, O, h, three1, 3 - 1)
    BY <1>3, <1>10, <2>1, OneDown
  <2>3. PointersTo(d, i, O, h, three2, 2 - 1)
    BY <1>4, <2>1, <2>2, OneDown
  <2>4. PointersTo(d, i, O, h, three0, 1 - 1)
    BY <1>7, <2>1, <2>3, OneDown
  <2> QED BY <2>1, <2>2, <2>3, <2>4
<1> QED BY <1>8, <1>9, <1>10, <1>11, <1>12, <1>13 DEF PointersTo

\* The pointers of a file lead to its blocks, each to one of its own.
LEMMA PointersCount ==
    ASSUME NEW d, NEW i, NEW O, NEW h, Tree(d, i, O, h), NEW P, P = Pointers(d, i),
           NEW B, B = {p[2] : p \in P}
    PROVE  B \subseteq O /\ Cardinality(P) = Cardinality(B)
<1>1. \A p \in P : \E x \in Place, y \in Index :
         IsPlace(O, h, x, y) /\ p = <<<<x, y>>, At(d, i, x, y)>> /\ At(d, i, x, y) # 0
  BY PointersInTree
<1>2. ASSUME NEW p \in P PROVE p[2] \in O
  <2>1. PICK x \in Place, y \in Index :
           IsPlace(O, h, x, y) /\ p = <<<<x, y>>, At(d, i, x, y)>> /\ At(d, i, x, y) # 0
    BY <1>1
  <2>2. p[2] = At(d, i, x, y)
    BY <2>1
  <2> QED BY <2>1, <2>2, HeldBlock
<1>3. ASSUME NEW p \in P, NEW q \in P, p[2] = q[2] PROVE p = q
  <2>1. PICK x \in Place, y \in Index :
           IsPlace(O, h, x, y) /\ p = <<<<x, y>>, At(d, i, x, y)>> /\ At(d, i, x, y) # 0
    BY <1>1
  <2>2. PICK x2 \in Place, y2 \in Index :
           IsPlace(O, h, x2, y2) /\ q = <<<<x2, y2>>, At(d, i, x2, y2)>>
    BY <1>1
  <2>3. p[2] = At(d, i, x, y) /\ q[2] = At(d, i, x2, y2)
    BY <2>1, <2>2
  <2>4. x = x2 /\ y = y2
    BY <1>3, <2>1, <2>2, <2>3 DEF Tree, Once
  <2> QED BY <2>1, <2>2, <2>4
<1>4. B \subseteq O
  BY <1>2
<1>5. IsFiniteSet(B)
  <2>1. O \subseteq Block
    BY DEF Tree, TreeTypes
  <2> QED BY <1>4, <2>1, PlaceFacts, FS_Subset
<1>6. PICK G : G = [b \in B |-> CHOOSE p \in P : p[2] = b]
  OBVIOUS
<1>7. ASSUME NEW b \in B PROVE G[b] \in P /\ G[b][2] = b
  <2>1. \E p \in P : p[2] = b
    OBVIOUS
  <2> QED BY <1>6, <2>1
<1>8. \A b, c \in B : G[b] = G[c] => b = c
  BY <1>7
<1>9. P = {G[b] : b \in B}
  <2>1. ASSUME NEW p \in P PROVE p[2] \in B /\ p = G[p[2]]
    BY <1>3, <1>7
  <2>2. \A p \in P : \E b \in B : p = G[b]
    BY <2>1
  <2>3. \A b \in B : G[b] \in P
    BY <1>7
  <2> QED BY <2>2, <2>3
<1>10. Cardinality(P) = Cardinality(B)
  <2>1. PICK S : S = B
    OBVIOUS
  <2>2. PICK T : T = P
    OBVIOUS
  <2>3. IsFiniteSet(S) /\ T = {G[b] : b \in S}
    BY <1>5, <1>9, <2>1, <2>2
  <2>4. \A b, c \in S : G[b] = G[c] => b = c
    BY <1>8, <2>1
  <2>5. Cardinality(T) = Cardinality(S)
    BY <2>3, <2>4, ImageCount
  <2> QED BY <2>1, <2>2, <2>5
<1> QED BY <1>4, <1>10

LEMMA FileInvBlocks ==
    ASSUME FileInv PROVE BlocksOK
<1>1. PICK own, h : Forest(freemap, disk, inode, own, h)
  BY DEF FileInv
<1>2. /\ freemap \in SUBSET Block /\ disk \in [Block -> [Word -> Nat]]
      /\ inode \in [File -> InodeRec]
      /\ \A f \in File : own[f] \subseteq freemap /\ Tree(disk, inode[f], own[f], h[f])
      /\ \A f, g \in File : f # g => own[f] \cap own[g] = {}
  BY <1>1 DEF Forest
<1>3. ASSUME NEW f \in File
      PROVE  /\ FileBlocksOf(f) \subseteq own[f]
             /\ Cardinality(FilePointers(f)) = Cardinality(FileBlocksOf(f))
  <2>1. Tree(disk, inode[f], own[f], h[f])
    BY <1>2
  <2> QED BY <2>1, PointersCount DEF FileBlocksOf, FilePointers
<1>4. \A f, g \in File : f # g => FileBlocksOf(f) \cap FileBlocksOf(g) = {}
  <2> SUFFICES ASSUME NEW f \in File, NEW g \in File, f # g
               PROVE  FileBlocksOf(f) \cap FileBlocksOf(g) = {}
    OBVIOUS
  <2>1. own[f] \cap own[g] = {} /\ FileBlocksOf(f) \subseteq own[f] /\ FileBlocksOf(g) \subseteq own[g]
    BY <1>2, <1>3
  <2> QED BY <2>1
<1>5. NoBlockShared
  BY <1>3, <1>4 DEF NoBlockShared
<1>6. ReachableInUse
  <2>1. \A f \in File : FileBlocksOf(f) \subseteq own[f] /\ own[f] \subseteq freemap
    BY <1>2, <1>3
  <2> QED BY <2>1 DEF ReachableInUse
<1>7. TypeOK
  BY <1>2 DEF TypeOK, InodeRec
<1> QED BY <1>5, <1>6, <1>7 DEF BlocksOK

\* The blocks of the files form a forest, whatever is written, truncated and runs
\* out of space: the strengthening that the theorems below rest on.
THEOREM FilesForest == Spec => []FileInv
<1>1. Init => FileInv
  BY FileInit
<1>2. FileInv /\ [Next]_vars => FileInv'
  BY FileStep
<1> QED BY <1>1, <1>2, PTL DEF Spec

\* sfs_bmap and sfs_truncate never put a block in two places, nor leave one that a
\* file leads to free, however files grow and shrink.
THEOREM FilesBlocks == Spec => []BlocksOK
<1>1. FileInv => BlocksOK
  BY FileInvBlocks
<1> QED BY <1>1, FilesForest, PTL

\* sfs_write changes the block it writes and nothing else that the files hold, also
\* when the disk fills up half way through the indirect blocks; where the file ends
\* it sets as AfterWrite says, when it fails as well.
THEOREM WritesExact == Spec => WriteExact
<1> DEFINE Exact == last'.op = "write" =>
              \A f \in File, fb \in FileBlock :
                 Reads(f, fb)' = AfterWrite(last'.file, last'.at, last'.data, last'.err, f, fb)
<1>1. FileInv /\ [Next]_vars => [Exact]_vars
  <2> SUFFICES ASSUME FileInv, Next PROVE Exact
    OBVIOUS
  <2>1. ASSUME NEW f \in File, NEW fb \in FileBlock, read(f, fb) PROVE Exact
    <3>1. last'.op = "read"
      BY <2>1, ReadStep
    <3> QED BY <3>1
  <2>2. ASSUME NEW f \in File, NEW fb \in FileBlock, NEW dat \in Data, write(f, fb, dat) PROVE Exact
    <3>1. WriteShows(f, fb, dat, last'.err) /\ last'.file = f /\ last'.at = fb /\ last'.data = dat
      BY <2>2, WriteStep
    <3>2. PICK err : err = last'.err
      OBVIOUS
    <3>3. ASSUME NEW g \in File, NEW gb \in FileBlock
          PROVE  Reads(g, gb)' = AfterWrite(f, fb, dat, err, g, gb)
      BY <3>1, <3>2, ReadsAfterWrite
    <3> QED BY <3>1, <3>2, <3>3
  <2>3. ASSUME NEW f \in File, NEW len \in Lengths, sfs_truncate(f, len) PROVE Exact
    <3>1. last'.op = "truncate"
      BY <2>3, TruncateStep
    <3> QED BY <3>1
  <2> HIDE DEF Exact
  <2> QED BY <2>1, <2>2, <2>3 DEF Next
<1> HIDE DEF Exact
<1>2. Spec => [][Exact]_vars
  BY <1>1, FilesForest, PTL DEF Spec
<1> QED BY <1>2 DEF WriteExact, Exact

\* sfs_truncate leaves what is before the new end, and every other file, as it was.
THEOREM TruncatesKeep == Spec => TruncateKeeps
<1> DEFINE Keeps == last'.op = "truncate" =>
              \A g \in File, fb \in FileBlock :
                 g # last'.file \/ fb < last'.at => View(g, fb)' = View(g, fb)
<1>1. FileInv /\ [Next]_vars => [Keeps]_vars
  <2> SUFFICES ASSUME FileInv, Next PROVE Keeps
    OBVIOUS
  <2>1. ASSUME NEW f \in File, NEW fb \in FileBlock, read(f, fb) PROVE Keeps
    <3>1. last'.op = "read"
      BY <2>1, ReadStep
    <3> QED BY <3>1
  <2>2. ASSUME NEW f \in File, NEW fb \in FileBlock, NEW dat \in Data, write(f, fb, dat) PROVE Keeps
    <3>1. last'.op = "write"
      BY <2>2 DEF write
    <3> QED BY <3>1
  <2>3. ASSUME NEW f \in File, NEW len \in Lengths, sfs_truncate(f, len) PROVE Keeps
    <3>1. TruncateShows(f, len) /\ last'.file = f /\ last'.at = len
      BY <2>3, TruncateStep
    <3> QED BY <3>1 DEF TruncateShows
  <2> HIDE DEF Keeps
  <2> QED BY <2>1, <2>2, <2>3 DEF Next
<1> HIDE DEF Keeps
<1>2. Spec => [][Keeps]_vars
  BY <1>1, FilesForest, PTL DEF Spec
<1> QED BY <1>2 DEF TruncateKeeps, Keeps
=============================================================================
