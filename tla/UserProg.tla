------------------------------ MODULE UserProg ------------------------------
(***************************************************************************)
(* Running a user program: kern/userprog/runprogram.c and loadelf.c, the   *)
(* address spaces and page faults of kern/arch/mips/mips/dumbvm.c, memory  *)
(* from ram.c, and the context switches of thread.c that change the        *)
(* address space in the TLB.  Interrupts are on from the fault to          *)
(* vm_fault's splhigh, and between any two calls of the loader, so another *)
(* thread can run there.  Pages and frames are numbers, and addresses wrap *)
(* after AddrPages pages, as u_int32_t does.  What an ELF file says of a    *)
(* segment nobody checks: it may be at page 0, have no page, or be larger   *)
(* than the memory.  as_copy has no caller: there is no fork.               *)
(***************************************************************************)
EXTENDS Kernel, Integers, Sequences

CONSTANTS Program,     \* programs: sequences of segments <<vaddr, npages>>
          STACKBASE, STACKPAGES,
          NUM_TLB,
          RamPages,    \* frames from 1 on
          AddrPages    \* pages of the 32-bit address space

ASSUME VmSizes == /\ {STACKBASE, STACKPAGES, NUM_TLB, RamPages, AddrPages} \subseteq Nat \ {0}
                  /\ STACKBASE + STACKPAGES <= AddrPages /\ RamPages + 1 < AddrPages

PageNumber == 0..(AddrPages - 1)

ASSUME ProgramAssumption == \A p \in Program : p \in Seq(PageNumber \X PageNumber)

\* The page numbers of an address space's two regions and its stack.
AddrSpace == [vbase1 : Nat, npages1 : Nat, pbase1 : Nat,
              vbase2 : Nat, npages2 : Nat, pbase2 : Nat, stackpbase : Nat]

ASSUME NullIsNoAddrSpace == NULL \notin AddrSpace

VARIABLES cpu,         \* curthread
          t_vmspace,   \* thread -> address space, or NULL
          up,          \* thread -> its place in runprogram
          tlb,         \* slot -> <<page, frame>>, or <<>> when not valid
          firstpaddr,
          wrapped,     \* ram_stealmem's sum has wrapped, and firstpaddr gone back
          vm_panic     \* the kernel panicked, or failed an assert

ram_vars == <<firstpaddr, wrapped>>
vm_vars == <<cpu, t_vmspace, up, tlb, ram_vars, vm_panic>>

TlbSlot == 1..NUM_TLB
Invalid == [i \in TlbSlot |-> <<>>]
NewAs == [vbase1 |-> 0, npages1 |-> 0, pbase1 |-> 0,
          vbase2 |-> 0, npages2 |-> 0, pbase2 |-> 0, stackpbase |-> 0]
AtMenu == [pc |-> "kernel", prog |-> <<>>, i |-> 1, va |-> 0]

UserProgInit ==
    /\ cpu \in Thread
    /\ t_vmspace = [t \in Thread |-> NULL] /\ up = [t \in Thread |-> AtMenu]
    /\ tlb = Invalid /\ firstpaddr = 1 /\ wrapped = FALSE /\ vm_panic = FALSE

OnCpu(t, pc) == cpu = t /\ up[t].pc = pc /\ ~vm_panic
GoOn(t, pc) == up' = [up EXCEPT ![t].pc = pc]
VmPanic == vm_panic' = TRUE /\ UNCHANGED <<cpu, t_vmspace, up, tlb, ram_vars>>

----------------------------------------------------------------------------
(* Context switches *)

\* Mutant of mi_switch: the address space is not activated.
mi_switch_plain(t) == cpu' = t /\ tlb' = tlb

\* mi_switch to t, which activates t's address space if it has one.
mi_switch(t) == cpu' = t /\ tlb' = IF t_vmspace[t] # NULL THEN Invalid ELSE tlb

preempt(t) ==
    /\ ~vm_panic /\ t # cpu
    /\ mi_switch(t)
    /\ UNCHANGED <<t_vmspace, up, ram_vars, vm_panic>>

\* runprogram returned an error: the thread exits, and its memory is lost.
thread_exits(t) ==
    /\ OnCpu(t, "exit")
    /\ t_vmspace' = [t_vmspace EXCEPT ![t] = NULL]
    /\ up' = [up EXCEPT ![t] = AtMenu]
    /\ \E u \in Thread \ {t} : mi_switch(u)
    /\ UNCHANGED <<ram_vars, vm_panic>>

----------------------------------------------------------------------------
(* runprogram and load_elf *)

runprogram(t, p) ==
    /\ OnCpu(t, "kernel")
    /\ t_vmspace' = [t_vmspace EXCEPT ![t] = NewAs]
    /\ up' = [up EXCEPT ![t] = [AtMenu EXCEPT !.pc = "activate", !.prog = p]]
    /\ UNCHANGED <<cpu, tlb, ram_vars, vm_panic>>

as_activate(t) ==
    /\ OnCpu(t, "activate")
    /\ tlb' = Invalid
    /\ GoOn(t, "define")
    /\ UNCHANGED <<cpu, t_vmspace, ram_vars, vm_panic>>

\* load_elf's first pass: a header that cannot be read, the next segment, or
\* the end.  There is room for two regions; one at page 0 counts as free.
as_define_region(t) ==
    /\ OnCpu(t, "define")
    /\ LET as == t_vmspace[t]  p == up[t].prog  i == up[t].i IN
       \/ GoOn(t, "exit") /\ UNCHANGED t_vmspace
       \/ i > Len(p) /\ GoOn(t, "region1") /\ UNCHANGED t_vmspace
       \/ /\ i <= Len(p) /\ 0 \in {as.vbase1, as.vbase2}
          /\ t_vmspace' = [t_vmspace EXCEPT ![t] =
                IF as.vbase1 = 0 THEN [as EXCEPT !.vbase1 = p[i][1], !.npages1 = p[i][2]]
                                 ELSE [as EXCEPT !.vbase2 = p[i][1], !.npages2 = p[i][2]]]
          /\ up' = [up EXCEPT ![t].i = i + 1]
       \/ /\ i <= Len(p) /\ 0 \notin {as.vbase1, as.vbase2}
          /\ GoOn(t, "exit") /\ UNCHANGED t_vmspace
    /\ UNCHANGED <<cpu, tlb, ram_vars, vm_panic>>

\* ram_stealmem: n frames, p the first of them, or 0 when there are not as many left.
\* The end is computed in u_int32_t.
getppages(n, p) ==
    LET end == (firstpaddr + n) % AddrPages IN
    \/ end > RamPages + 1 /\ p = 0 /\ UNCHANGED ram_vars
    \/ /\ end <= RamPages + 1
       /\ p = firstpaddr /\ firstpaddr' = end
       /\ wrapped' = (wrapped \/ firstpaddr + n >= AddrPages)

\* The three steps of as_prepare_load; without memory the load fails.
as_prepare_load(t) ==
    /\ \E p \in 0..(RamPages + 1) :
          LET Then(next) == GoOn(t, IF p = 0 THEN "exit" ELSE next) IN
          \/ /\ OnCpu(t, "region1") /\ getppages(t_vmspace[t].npages1, p)
             /\ t_vmspace' = [t_vmspace EXCEPT ![t].pbase1 = p] /\ Then("region2")
          \/ /\ OnCpu(t, "region2") /\ getppages(t_vmspace[t].npages2, p)
             /\ t_vmspace' = [t_vmspace EXCEPT ![t].pbase2 = p] /\ Then("stack")
          \/ /\ OnCpu(t, "stack") /\ getppages(STACKPAGES, p)
             /\ t_vmspace' = [t_vmspace EXCEPT ![t].stackpbase = p] /\ Then("load")
    /\ UNCHANGED <<cpu, tlb, vm_panic>>

\* The end of load_segment's transfers: an error, or user mode.
load_elf(t) ==
    /\ OnCpu(t, "load")
    /\ GoOn(t, "user") \/ GoOn(t, "exit")
    /\ UNCHANGED <<cpu, t_vmspace, tlb, ram_vars, vm_panic>>

----------------------------------------------------------------------------
(* Faults *)

\* A page that is not in the TLB, touched by load_segment or by the program.
mips_trap(t, va) ==
    /\ OnCpu(t, "load") \/ OnCpu(t, "user")
    /\ \A i \in TlbSlot : tlb[i] # <<>> => tlb[i][1] # va
    /\ up' = [up EXCEPT ![t].pc = IF @ = "load" THEN "loadfault" ELSE "userfault", ![t].va = va]
    /\ UNCHANGED <<cpu, t_vmspace, tlb, ram_vars, vm_panic>>

\* The tests of vm_fault, in u_int32_t: a region whose end wraps has no page.
InRegion(va, vbase, npages) == va >= vbase /\ va < (vbase + npages) % AddrPages
InStack(va) == va >= STACKBASE /\ va < STACKBASE + STACKPAGES

HasFrame(as, va) ==
    InRegion(va, as.vbase1, as.npages1) \/ InRegion(va, as.vbase2, as.npages2) \/ InStack(va)

\* The frame of a page that has one.
Frame(as, va) ==
    (IF InRegion(va, as.vbase1, as.npages1) THEN (va - as.vbase1) + as.pbase1
     ELSE IF InRegion(va, as.vbase2, as.npages2) THEN (va - as.vbase2) + as.pbase2
     ELSE (va - STACKBASE) + as.stackpbase) % AddrPages

\* What vm_fault asserts of an address space.
SetUp(as) == 0 \notin {as.vbase1, as.pbase1, as.npages1, as.vbase2, as.pbase2, as.npages2,
                       as.stackpbase}

\* vm_fault, with interrupts off: a TLB slot that is not valid takes the page.
\* Without a frame or a slot the load fails, and a program's fault is fatal.
vm_fault(t) ==
    /\ OnCpu(t, "loadfault") \/ OnCpu(t, "userfault")
    /\ LET as == t_vmspace[t]  va == up[t].va  load == up[t].pc = "loadfault"
           free == {i \in TlbSlot : tlb[i] = <<>>} IN
       \/ ~SetUp(as) /\ VmPanic
       \/ /\ SetUp(as) /\ HasFrame(as, va) /\ free # {}
          /\ tlb' = [tlb EXCEPT ![CHOOSE i \in free : \A j \in free : i <= j] = <<va, Frame(as, va)>>]
          /\ up' = [up EXCEPT ![t].pc = IF load THEN "load" ELSE "user", ![t].va = 0]
          /\ UNCHANGED <<cpu, t_vmspace, ram_vars, vm_panic>>
       \/ /\ SetUp(as) /\ (~HasFrame(as, va) \/ free = {})
          /\ IF load THEN /\ up' = [up EXCEPT ![t].pc = "exit", ![t].va = 0]
                          /\ UNCHANGED <<cpu, t_vmspace, tlb, ram_vars, vm_panic>>
                     ELSE VmPanic

----------------------------------------------------------------------------

UserProgNext ==
    \/ \E t \in Thread :
          \/ preempt(t) \/ thread_exits(t)
          \/ \E p \in Program : runprogram(t, p)
          \/ as_activate(t) \/ as_define_region(t) \/ as_prepare_load(t) \/ load_elf(t)
          \/ \E va \in 0..(STACKBASE + STACKPAGES - 1) : mips_trap(t, va)
          \/ vm_fault(t)

UserProgBehaviour == UserProgInit /\ [][UserProgNext]_vm_vars

----------------------------------------------------------------------------
(* Properties *)

\* The frames a thread's address space has been given.
Frames(t) ==
    LET as == t_vmspace[t]
        block(p, n) == IF p = 0 THEN {} ELSE {(p + k) % AddrPages : k \in 0..(n - 1)} IN
    IF as = NULL THEN {}
    ELSE block(as.pbase1, as.npages1) \cup block(as.pbase2, as.npages2)
         \cup block(as.stackpbase, STACKPAGES)

\* No frame is in two address spaces.
Disjoint == \A t, u \in Thread : t # u => Frames(t) \cap Frames(u) = {}

\* A program only ever reaches its own memory: while a thread that uses its
\* address space runs, through faults that were interrupted by other programs
\* and after programs that died while loading, every valid TLB entry is a page
\* of its address space, once, in a frame it was given; and no frame is in two
\* address spaces, until a segment so large that ram_stealmem's sum wraps has
\* moved firstpaddr back.
OwnMemory ==
    subject = "userprog" =>
      /\ t_vmspace[cpu] # NULL /\ up[cpu].pc # "activate" =>
           \A i \in TlbSlot : tlb[i] # <<>> =>
              /\ tlb[i][2] = Frame(t_vmspace[cpu], tlb[i][1]) /\ tlb[i][2] \in Frames(cpu)
              /\ \A j \in TlbSlot : tlb[j] # <<>> /\ tlb[j][1] = tlb[i][1] => i = j
      /\ wrapped \/ Disjoint

\* What vm.h:68 says of ram_stealmem, that it allocates "memory that cannot be freed
\* later": a frame that an address space was given is never given to another.  A
\* segment so large that the end computed in u_int32_t wraps moves firstpaddr back.
FramesGivenOnce == Disjoint
=============================================================================
