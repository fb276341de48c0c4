------------------------------- MODULE EmuFs -------------------------------
(***************************************************************************)
(* kern/dev/lamebus/emu.c: the file system on the host that the emulator   *)
(* exports.  Every operation is a request to the device, one at a time     *)
(* under e_lock; the interrupt saves the result and signals e_sem.  A      *)
(* vnode stands for a file handle that is open in the device.  The device  *)
(* gives every open a fresh handle, and may use a closed one again.        *)
(***************************************************************************)
EXTENDS Kernel, Integers, FiniteSets

CONSTANTS File,      \* files on the host, the root directory among them
          Root,      \* the root directory
          Handle,    \* the device's handles, EMU_ROOTHANDLE = 0 among them
          Vnode,     \* bound: vnode structures in memory
          RefMax,    \* bound: references to one vnode
          CloseTries \* the retries of emu_close (10)

ASSUME EmuAssumption == /\ 0 \in Handle /\ Root \in File /\ NULL \notin File \cup Vnode
                        /\ RefMax \in Nat \ {0} /\ CloseTries \in Nat
ASSUME NullIsNoRecord ==
    /\ NULL \notin [h : Handle, refcount : Int]
    /\ NULL \notin [res : {"ok", "EIO", "ENOENT", "BADHANDLE", "none"}, h : Handle,
                    file : File \cup {NULL}]

VARIABLES e_lock,    \* the owner
          e_sem, e_result,
          reg,       \* REG_OPER and REG_HANDLE of the operation under way
          reply,     \* REG_RESULT, REG_HANDLE and the file it was done on
          opened,    \* the device: handle -> the file it is open on
          ev,        \* vnode -> its handle and reference count, or NULL
          names,     \* vnode -> the file it was looked up for
          refs,      \* vnode -> references that callers hold
          em,        \* per thread: its place in an operation
          emu_panic

hw_vars == <<reg, reply, opened>>
emu_vars == <<e_lock, e_sem, e_result, hw_vars, ev, names, refs, em, emu_panic>>

Rest == [pc |-> "idle", op |-> "none", v |-> NULL, file |-> NULL, h |-> 0, tries |-> 0, res |-> "ok"]

NoOp == [op |-> "none", h |-> 0, file |-> NULL]

InTable == {v \in Vnode : ev[v] # NULL}

\* config_emu and emufs_addtovfs: the root's vnode, held by ef_root.
EmuInit ==
    /\ e_lock = NULL /\ e_sem = 0 /\ e_result = "ok"
    /\ reg = NoOp /\ reply = NULL
    /\ opened = [h \in Handle |-> IF h = 0 THEN Root ELSE NULL]
    /\ LET root == CHOOSE v \in Vnode : TRUE IN
       /\ ev = [v \in Vnode |-> IF v = root THEN [h |-> 0, refcount |-> 1] ELSE NULL]
       /\ names = [v \in Vnode |-> IF v = root THEN Root ELSE NULL]
       /\ refs = [v \in Vnode |-> IF v = root THEN 1 ELSE 0]
    /\ em = [t \in Thread |-> Rest] /\ emu_panic = FALSE

Step(t, r) == em' = [em EXCEPT ![t] = r]

At(t, pc) == em[t].pc = pc /\ ~emu_panic

----------------------------------------------------------------------------
(* The operations that callers start. *)

Starts(t, r) == /\ At(t, "idle") /\ Step(t, r)
                /\ UNCHANGED <<e_lock, e_sem, e_result, hw_vars, ev, names, refs, emu_panic>>

\* emufs_lookup and emufs_creat, under the root directory.
emufs_lookup(t, f) ==
    /\ \E v \in InTable : ev[v].h = 0 /\ refs[v] > 0
    /\ Starts(t, [Rest EXCEPT !.pc = "request", !.op = "open", !.file = f])

\* emu_read, emu_readdir, emu_write, emu_getsize, emu_trunc on a vnode in use.
\* The caller's reference stays with the operation.
emu_io(t, v) ==
    /\ refs[v] > 0
    /\ Starts(t, [Rest EXCEPT !.pc = "request", !.op = "io", !.v = v, !.h = ev[v].h])

\* VOP_INCREF by someone who holds a reference (emufs_getroot, a copied cwd).
emu_incref(t, v) ==
    /\ At(t, "idle") /\ refs[v] > 0 /\ ev[v].refcount < RefMax
    /\ ev' = [ev EXCEPT ![v].refcount = @ + 1]
    /\ refs' = [refs EXCEPT ![v] = @ + 1]
    /\ UNCHANGED <<e_lock, e_sem, e_result, hw_vars, names, em, emu_panic>>

\* The references that operations under way rely on.
Used(v) == Cardinality({t \in Thread : em[t].v = v /\ em[t].op = "io"})

\* vnode_decref; the root keeps the reference of ef_root.
emu_decref(t, v) ==
    /\ At(t, "idle") /\ refs[v] > Used(v) + (IF ev[v].h = 0 THEN 1 ELSE 0)
    /\ refs' = [refs EXCEPT ![v] = @ - 1]
    /\ IF ev[v].refcount > 1
       THEN ev' = [ev EXCEPT ![v].refcount = @ - 1] /\ UNCHANGED em
       ELSE Step(t, [Rest EXCEPT !.pc = "reclaim", !.op = "close", !.v = v, !.h = ev[v].h])
            /\ UNCHANGED ev
    /\ UNCHANGED <<e_lock, e_sem, e_result, hw_vars, names, emu_panic>>

----------------------------------------------------------------------------
(* One request to the device: emu_open, emu_close, emu_doread, emu_write,  *)
(* emu_getsize and emu_trunc share this shape.                             *)

\* Mutant of request: the lock is not taken.
request_nolock(t) ==
    /\ At(t, "request") /\ reg = NoOp
    /\ reg' = [op |-> em[t].op, h |-> em[t].h, file |-> em[t].file]
    /\ Step(t, [em[t] EXCEPT !.pc = "wait"])
    /\ UNCHANGED <<e_lock, e_sem, e_result, reply, opened, ev, names, refs, emu_panic>>

\* lock_acquire and the register writes; the uiomove of a write may fault.
request(t) ==
    /\ At(t, "request") /\ e_lock = NULL
    /\ \/ /\ e_lock' = t
          /\ reg' = [op |-> em[t].op, h |-> em[t].h, file |-> em[t].file]
          /\ Step(t, [em[t] EXCEPT !.pc = "wait"])
       \/ em[t].op = "io" /\ Step(t, Rest) /\ UNCHANGED <<e_lock, reg>>
    /\ UNCHANGED <<e_sem, e_result, reply, opened, ev, names, refs, emu_panic>>

\* emu_waitdone and translate_err.
emu_waitdone(t) ==
    /\ At(t, "wait") /\ e_sem > 0
    /\ e_sem' = e_sem - 1
    /\ emu_panic' = (e_result = "BADHANDLE")
    /\ Step(t, [em[t] EXCEPT !.pc = "done", !.res = e_result])
    /\ UNCHANGED <<e_lock, e_result, hw_vars, ev, names, refs>>

\* The operation's end, under the lock: the new handle is read from the
\* device, or a failed close is tried again, and the lock is released.
done(t) ==
    /\ At(t, "done")
    /\ \/ /\ em[t].op = "open" /\ em[t].res = "ok"
          /\ Step(t, [em[t] EXCEPT !.pc = "load", !.h = reply.h])
          /\ e_lock' = NULL /\ reply' = NULL /\ UNCHANGED reg
       \/ /\ em[t].op = "open" /\ em[t].res # "ok"
          /\ Step(t, Rest) /\ e_lock' = NULL /\ reply' = NULL /\ UNCHANGED reg
       \/ /\ em[t].op = "io"
          /\ Step(t, Rest) /\ e_lock' = NULL /\ reply' = NULL /\ UNCHANGED reg
       \/ /\ em[t].op = "close" /\ em[t].res = "EIO" /\ em[t].tries < CloseTries
          /\ reg' = [op |-> "close", h |-> em[t].h, file |-> NULL]
          /\ Step(t, [em[t] EXCEPT !.pc = "wait", !.tries = @ + 1])
          /\ reply' = NULL /\ UNCHANGED e_lock
       \/ /\ em[t].op = "close" /\ (em[t].res # "EIO" \/ em[t].tries = CloseTries)
          /\ IF em[t].v # NULL /\ em[t].res = "ok"
             THEN Step(t, [em[t] EXCEPT !.pc = "forget"]) /\ UNCHANGED e_lock
             ELSE Step(t, Rest) /\ e_lock' = NULL
          /\ reply' = NULL /\ UNCHANGED reg
    /\ UNCHANGED <<e_sem, e_result, opened, ev, names, refs, emu_panic>>

----------------------------------------------------------------------------
(* Vnodes *)

\* emufs_loadvnode: an old vnode of that handle, a new one, or no memory, in
\* which case the caller closes the handle.
emufs_loadvnode(t) ==
    /\ At(t, "load") /\ e_lock = NULL
    /\ LET old == {v \in InTable : ev[v].h = em[t].h} IN
       \/ \E v \in old : /\ ev' = [ev EXCEPT ![v].refcount = @ + 1]
                         /\ refs' = [refs EXCEPT ![v] = @ + 1]
                         /\ Step(t, Rest) /\ UNCHANGED names
       \/ /\ old = {}
          /\ LET free == {v \in Vnode : ev[v] = NULL} IN
             \/ /\ free # {}
                /\ LET v == CHOOSE v \in free : TRUE IN
                   /\ ev' = [ev EXCEPT ![v] = [h |-> em[t].h, refcount |-> 1]]
                   /\ names' = [names EXCEPT ![v] = em[t].file]
                   /\ refs' = [refs EXCEPT ![v] = 1]
                /\ Step(t, Rest)
             \/ /\ Step(t, [Rest EXCEPT !.pc = "request", !.op = "close", !.h = em[t].h])
                /\ UNCHANGED <<ev, names, refs>>
    /\ UNCHANGED <<e_lock, e_sem, e_result, hw_vars, emu_panic>>

\* emufs_reclaim up to the close: EBUSY if someone has a reference again.
emufs_reclaim(t) ==
    /\ At(t, "reclaim") /\ e_lock = NULL
    /\ IF ev[em[t].v].refcount # 1
       THEN Step(t, Rest) /\ UNCHANGED <<e_lock, reg>>
       ELSE /\ e_lock' = t
            /\ reg' = [op |-> "close", h |-> em[t].h, file |-> NULL]
            /\ Step(t, [em[t] EXCEPT !.pc = "wait"])
    /\ UNCHANGED <<e_sem, e_result, reply, opened, ev, names, refs, emu_panic>>

\* Its end: the vnode leaves the pool under the same lock, and is freed.
reclaim_forget(t) ==
    /\ At(t, "forget")
    /\ ev' = [ev EXCEPT ![em[t].v] = NULL]
    /\ names' = [names EXCEPT ![em[t].v] = NULL]
    /\ e_lock' = NULL /\ Step(t, Rest)
    /\ UNCHANGED <<e_sem, e_result, hw_vars, refs, emu_panic>>

----------------------------------------------------------------------------
(* The device *)

Replies(r) == reply' = r /\ reg' = NoOp

Reply(res, h, f) == [res |-> res, h |-> h, file |-> f]

emu_hardware ==
    /\ reg # NoOp
    /\ \/ Replies(Reply("EIO", reg.h, NULL)) /\ UNCHANGED opened
       \/ /\ reg.op = "open"
          /\ \/ \E h \in Handle : /\ opened[h] = NULL
                                  /\ opened' = [opened EXCEPT ![h] = reg.file]
                                  /\ Replies(Reply("ok", h, reg.file))
             \/ Replies(Reply("ENOENT", 0, NULL)) /\ UNCHANGED opened
       \/ /\ reg.op # "open" /\ opened[reg.h] = NULL
          /\ Replies(Reply("BADHANDLE", reg.h, NULL)) /\ UNCHANGED opened
       \/ /\ reg.op = "close" /\ opened[reg.h] # NULL
          /\ opened' = [opened EXCEPT ![reg.h] = NULL]
          /\ Replies(Reply("ok", reg.h, opened[reg.h]))
       \/ /\ reg.op = "io" /\ opened[reg.h] # NULL
          /\ Replies(Reply("ok", reg.h, opened[reg.h])) /\ UNCHANGED opened
    /\ UNCHANGED <<e_lock, e_sem, e_result, ev, names, refs, em, emu_panic>>

\* emu_irq; the reply's other registers stay readable.
emu_irq ==
    /\ reply # NULL /\ reply.res # "none"
    /\ e_result' = reply.res
    /\ reply' = [reply EXCEPT !.res = "none"]
    /\ e_sem' = e_sem + 1
    /\ UNCHANGED <<e_lock, reg, opened, ev, names, refs, em, emu_panic>>

----------------------------------------------------------------------------

EmuNext ==
    \/ \E t \in Thread :
          \/ \E f \in File \ {Root} : emufs_lookup(t, f)
          \/ \E v \in InTable : emu_io(t, v) \/ emu_incref(t, v) \/ emu_decref(t, v)
          \/ request(t) \/ emu_waitdone(t) \/ done(t)
          \/ emufs_loadvnode(t) \/ emufs_reclaim(t) \/ reclaim_forget(t)
    \/ emu_hardware \/ emu_irq

EmuBehaviour == EmuInit /\ [][EmuNext]_emu_vars

----------------------------------------------------------------------------
(* Properties *)

\* A vnode that someone uses stands for the open handle of the file it was
\* looked up for, no two vnodes for the same handle, and an operation that is
\* answered was done on that file: lookups, transfers and reclaims interleave
\* and handles are used again, and still no request is made on a closed handle
\* (the fatal result code of translate_err) and no answer goes astray.
HandlesOK ==
    subject = "emufs" =>
      /\ ~emu_panic
      /\ \A v \in Vnode : refs[v] > 0 =>
            /\ v \in InTable /\ opened[ev[v].h] = names[v]
            /\ ev[v].refcount >= refs[v]
      /\ \A v, w \in InTable : v # w => ev[v].h # ev[w].h
      /\ \A t \in Thread : /\ em[t].pc \in {"wait", "done", "forget"} => e_lock = t
                           /\ em[t].pc = "done" /\ em[t].op = "io" /\ em[t].res = "ok"
                                 => reply.file = names[em[t].v]
                           /\ em[t].pc = "load" => opened[em[t].h] = em[t].file
      /\ e_sem + (IF reg # NoOp THEN 1 ELSE 0) + (IF reply # NULL /\ reply.res # "none" THEN 1 ELSE 0)
           = Cardinality({t \in Thread : em[t].pc = "wait"})
=============================================================================
