------------------------------ MODULE Console ------------------------------
(***************************************************************************)
(* kern/dev/generic/console.c on the serial port of kern/dev/lamebus/      *)
(* lser.c.  Threads print with interrupts (one character at a time, paced  *)
(* by cs_wsem and the write-done interrupt) or, with interrupts off, by    *)
(* polling the same port; user transfers hold a lock for a whole call.     *)
(* Input is one character of storage and a semaphore that counts.          *)
(* A character is a key's number, so that order and loss can be seen.      *)
(***************************************************************************)
EXTENDS Kernel, Integers, Sequences, FiniteSets

CONSTANTS Boot,        \* the thread that runs config_con
          DelayMax,    \* bound: characters printed before the console exists
          MaxCalls,    \* bound: calls of each thread
          MaxPolled,   \* bound: characters printed with interrupts off
          MaxKeys,     \* bound: keys typed
          Text,        \* bound: what users write
          ReadSize     \* bound: how much users read

ASSUME BootIsThread == Boot \in Thread
ASSUME ConsoleBounds == {DelayMax, MaxCalls, MaxPolled, MaxKeys} \subseteq Nat

\* Characters: of kernel messages, of delayed ones, of users, and the line's end.
Char == {"k", "d", "u", "cr", "lf"}

\* A character in the port, with the thread and call that it is from.
PortChar == [t : Thread \cup {NULL}, by : {"user", "kernel", "polled"}, call : Nat, ch : Char]

PollState == [pc : {"wait", "send", "spin"}, irqpending : BOOLEAN]

ASSUME UserRequests == Text \subseteq Seq(Char) /\ ReadSize \subseteq Nat
ASSUME NullIsNoOutput == NULL \notin PortChar /\ NULL \notin PollState

VARIABLES attached,    \* the_console # NULL
          delayed,     \* delayed_outbuf
          ls_wbusy,    \* of the serial driver
          wirq, rirq,  \* the ACTIVE bits of the port's two interrupt registers
          tx,          \* the character the port is transmitting
          rx,          \* the character the port has received
          screen,      \* what the port has put on the screen
          cs_wsem, cs_rsem, cs_gotchar,
          rlock, wlock,\* con_userlock_read, con_userlock_write: the owner
          con,         \* per thread: its place in putch, getch or con_io
          poll,        \* the polled write in progress, interrupts off
          asked,       \* per thread: the characters it has given to putch
          keys,        \* keys typed so far
          got,         \* the characters getch returned, in order
          rushed,      \* a key was typed before the last one was read
          con_bad      \* "Not clear to write" panic, or a character overrun

port_vars == <<ls_wbusy, wirq, rirq, tx, rx, screen, cs_wsem, cs_rsem, cs_gotchar>>
key_vars == <<keys, got, rushed>>
con_vars == <<attached, delayed, port_vars, rlock, wlock, con, poll, asked, key_vars, con_bad>>

Quiet == [pc |-> "idle", user |-> FALSE, text |-> <<>>, chars |-> <<>>, n |-> 0, call |-> 0]

ConsoleInit ==
    /\ attached = FALSE /\ delayed = <<>>
    /\ ls_wbusy = FALSE /\ wirq = FALSE /\ rirq = FALSE /\ tx = NULL /\ rx = NULL
    /\ screen = <<>>
    /\ cs_wsem = 1 /\ cs_rsem = 0 /\ cs_gotchar = 0
    /\ rlock = NULL /\ wlock = NULL
    /\ con = [t \in Thread |-> Quiet] /\ poll = NULL
    /\ asked = [t \in Thread |-> <<>>]
    /\ keys = 0 /\ got = <<>> /\ rushed = FALSE /\ con_bad = FALSE

\* Threads and interrupts run only while nobody polls with interrupts off.
Running == poll = NULL

Go(t, r) == con' = [con EXCEPT ![t] = r]

\* The code written to LSER_REG_CHAR; a character still going out is lost.
ToPort(t, by, call, ch) ==
    /\ tx' = [t |-> t, by |-> by, call |-> call, ch |-> ch]
    /\ con_bad' = (con_bad \/ tx # NULL \/ (by # "polled" /\ ls_wbusy))

----------------------------------------------------------------------------
(* Booting *)

putch_delayed(ch) ==
    /\ ~attached /\ Len(delayed) < DelayMax
    /\ delayed' = Append(delayed, ch)
    /\ UNCHANGED <<attached, port_vars, rlock, wlock, con, poll, asked, key_vars, con_bad>>

\* config_con, with flush_delay_buf as the boot thread's first output.
config_con ==
    /\ ~attached /\ attached' = TRUE
    /\ delayed' = <<>>
    /\ asked' = [asked EXCEPT ![Boot] = delayed]
    /\ Go(Boot, [Quiet EXCEPT !.pc = IF delayed = <<>> THEN "idle" ELSE "put", !.chars = delayed])
    /\ UNCHANGED <<port_vars, rlock, wlock, poll, key_vars, con_bad>>

----------------------------------------------------------------------------
(* Output *)

Calls(t, r) == /\ attached /\ Running /\ con[t].pc = "idle" /\ con[t].call < MaxCalls
               /\ Go(t, [r EXCEPT !.call = con[t].call + 1])

\* putch by kernel code of thread t, interrupts on.
putch(t, ch) ==
    /\ Calls(t, [Quiet EXCEPT !.pc = "put", !.chars = <<ch>>])
    /\ asked' = [asked EXCEPT ![t] = Append(@, ch)]
    /\ UNCHANGED <<attached, delayed, port_vars, rlock, wlock, poll, key_vars, con_bad>>

\* con_io of a user's write, up to lock_acquire.
con_write(t, text) ==
    /\ Calls(t, [Quiet EXCEPT !.pc = "wlock", !.user = TRUE, !.text = text])
    /\ UNCHANGED <<attached, delayed, port_vars, rlock, wlock, poll, asked, key_vars, con_bad>>

con_acquire(t) ==
    /\ Running
    /\ \/ /\ con[t].pc = "wlock" /\ wlock = NULL
          /\ wlock' = t /\ Go(t, [con[t] EXCEPT !.pc = "wnext"]) /\ UNCHANGED rlock
       \/ /\ con[t].pc = "rlock" /\ rlock = NULL
          /\ rlock' = t /\ Go(t, [con[t] EXCEPT !.pc = "rnext"]) /\ UNCHANGED wlock
    /\ UNCHANGED <<attached, delayed, port_vars, poll, asked, key_vars, con_bad>>

\* The next character of a user's write: it ends, faults, or is printed, a
\* newline as carriage return and newline.
con_wnext(t) ==
    /\ Running /\ con[t].pc = "wnext"
    /\ \/ /\ Go(t, [con[t] EXCEPT !.pc = "wrelease", !.text = <<>>])
          /\ UNCHANGED asked
       \/ /\ con[t].text # <<>>
          /\ LET ch == Head(con[t].text)
                 chars == IF ch = "lf" THEN <<"cr", "lf">> ELSE <<ch>> IN
             /\ Go(t, [con[t] EXCEPT !.pc = "put", !.text = Tail(@), !.chars = chars])
             /\ asked' = [asked EXCEPT ![t] = @ \o chars]
    /\ UNCHANGED <<attached, delayed, port_vars, rlock, wlock, poll, key_vars, con_bad>>

con_release(t) ==
    /\ Running
    /\ \/ con[t].pc = "wrelease" /\ wlock' = NULL /\ UNCHANGED rlock
       \/ con[t].pc = "rrelease" /\ rlock' = NULL /\ UNCHANGED wlock
    /\ Go(t, [Quiet EXCEPT !.call = con[t].call])
    /\ UNCHANGED <<attached, delayed, port_vars, poll, asked, key_vars, con_bad>>

\* Mutant of putch_intr: it does not wait for the port.
putch_intr_nowait(t) ==
    /\ Running /\ con[t].pc = "put"
    /\ Go(t, [con[t] EXCEPT !.pc = "send"])
    /\ UNCHANGED <<attached, delayed, port_vars, rlock, wlock, poll, asked, key_vars, con_bad>>

\* putch_intr: P(cs_wsem).
putch_intr(t) ==
    /\ Running /\ con[t].pc = "put" /\ cs_wsem > 0
    /\ cs_wsem' = cs_wsem - 1
    /\ Go(t, [con[t] EXCEPT !.pc = "send"])
    /\ UNCHANGED <<attached, delayed, ls_wbusy, wirq, rirq, tx, rx, screen, cs_rsem, cs_gotchar,
                   rlock, wlock, poll, asked, key_vars, con_bad>>

\* lser_write, interrupts off for its duration.
lser_write(t) ==
    /\ Running /\ con[t].pc = "send"
    /\ LET rest == Tail(con[t].chars)
           after == IF con[t].user THEN "wnext" ELSE "idle" IN
       Go(t, [con[t] EXCEPT !.chars = rest, !.pc = IF rest = <<>> THEN after ELSE "put"])
    /\ ls_wbusy' = TRUE
    /\ ToPort(t, IF con[t].user THEN "user" ELSE "kernel", con[t].call, Head(con[t].chars))
    /\ UNCHANGED <<attached, delayed, wirq, rirq, rx, screen, cs_wsem, cs_rsem, cs_gotchar,
                   rlock, wlock, poll, asked, key_vars>>

\* putch with interrupts off or in a handler: lser_writepolled takes the CPU.
lser_writepolled ==
    /\ attached /\ Running
    /\ Cardinality({i \in DOMAIN screen : screen[i].t = NULL}) < MaxPolled
    /\ poll' = [pc |-> IF ls_wbusy THEN "wait" ELSE "send", irqpending |-> ls_wbusy]
    /\ UNCHANGED <<attached, delayed, port_vars, rlock, wlock, con, asked, key_vars, con_bad>>

\* lser_spin_until_write for the interrupt-driven character, then clear it.
poll_wait ==
    /\ poll # NULL /\ poll.pc = "wait" /\ wirq
    /\ wirq' = FALSE
    /\ poll' = [poll EXCEPT !.pc = "send"]
    /\ UNCHANGED <<attached, delayed, ls_wbusy, rirq, tx, rx, screen, cs_wsem, cs_rsem, cs_gotchar,
                   rlock, wlock, con, asked, key_vars, con_bad>>

poll_send ==
    /\ poll # NULL /\ poll.pc = "send"
    /\ ToPort(NULL, "polled", 0, "k")
    /\ poll' = [poll EXCEPT !.pc = "spin"]
    /\ UNCHANGED <<attached, delayed, ls_wbusy, wirq, rirq, rx, screen, cs_wsem, cs_rsem, cs_gotchar,
                   rlock, wlock, con, asked, key_vars>>

\* Mutant of poll_spin: the ready condition is cleared in every case.
poll_spin_clear ==
    /\ poll # NULL /\ poll.pc = "spin" /\ wirq
    /\ wirq' = FALSE
    /\ poll' = NULL
    /\ UNCHANGED <<attached, delayed, ls_wbusy, rirq, tx, rx, screen, cs_wsem, cs_rsem, cs_gotchar,
                   rlock, wlock, con, asked, key_vars, con_bad>>

\* Wait until it is out; a pending interrupt is left pending.
poll_spin ==
    /\ poll # NULL /\ poll.pc = "spin" /\ wirq
    /\ wirq' = poll.irqpending
    /\ poll' = NULL
    /\ UNCHANGED <<attached, delayed, ls_wbusy, rirq, tx, rx, screen, cs_wsem, cs_rsem, cs_gotchar,
                   rlock, wlock, con, asked, key_vars, con_bad>>

----------------------------------------------------------------------------
(* Input *)

\* con_io of a user's read of n characters, and getch by kernel code.
con_read(t, n) ==
    /\ Calls(t, [Quiet EXCEPT !.pc = "rlock", !.user = TRUE, !.n = n])
    /\ UNCHANGED <<attached, delayed, port_vars, rlock, wlock, poll, asked, key_vars, con_bad>>

getch(t) ==
    /\ Calls(t, [Quiet EXCEPT !.pc = "get"])
    /\ UNCHANGED <<attached, delayed, port_vars, rlock, wlock, poll, asked, key_vars, con_bad>>

con_rnext(t) ==
    /\ Running /\ con[t].pc = "rnext"
    /\ Go(t, [con[t] EXCEPT !.pc = IF con[t].n > 0 THEN "get" ELSE "rrelease"])
    /\ UNCHANGED <<attached, delayed, port_vars, rlock, wlock, poll, asked, key_vars, con_bad>>

\* Mutant of getch_intr: the character is taken without waiting for one.
getch_intr_nowait(t) ==
    /\ Running /\ con[t].pc = "get" /\ keys > 0
    /\ Go(t, [con[t] EXCEPT !.pc = "fetch"])
    /\ UNCHANGED <<attached, delayed, port_vars, rlock, wlock, poll, asked, key_vars, con_bad>>

\* getch_intr: P(cs_rsem) ...
getch_intr(t) ==
    /\ Running /\ con[t].pc = "get" /\ cs_rsem > 0
    /\ cs_rsem' = cs_rsem - 1
    /\ Go(t, [con[t] EXCEPT !.pc = "fetch"])
    /\ UNCHANGED <<attached, delayed, ls_wbusy, wirq, rirq, tx, rx, screen, cs_wsem, cs_gotchar,
                   rlock, wlock, poll, asked, key_vars, con_bad>>

\* ... and the character.  A user's read ends at its count, at a newline (the
\* last key typed is one) or with a fault.
getch_fetch(t) ==
    /\ Running /\ con[t].pc = "fetch"
    /\ got' = Append(got, cs_gotchar)
    /\ \/ ~con[t].user /\ Go(t, [Quiet EXCEPT !.call = con[t].call])
       \/ con[t].user /\ cs_gotchar # MaxKeys
            /\ Go(t, [con[t] EXCEPT !.pc = "rnext", !.n = @ - 1])
       \/ con[t].user /\ Go(t, [con[t] EXCEPT !.pc = "rrelease"])
    /\ UNCHANGED <<attached, delayed, port_vars, rlock, wlock, poll, asked, keys, rushed, con_bad>>

----------------------------------------------------------------------------
(* The port *)

\* The port has put its character on the screen.
transmit ==
    /\ tx # NULL
    /\ screen' = Append(screen, tx)
    /\ tx' = NULL /\ wirq' = TRUE
    /\ UNCHANGED <<attached, delayed, ls_wbusy, rirq, rx, cs_wsem, cs_rsem, cs_gotchar,
                   rlock, wlock, con, poll, asked, key_vars, con_bad>>

\* A key is typed; the port keeps one character.
type_key ==
    /\ attached /\ keys < MaxKeys
    /\ keys' = keys + 1
    /\ rx' = keys + 1 /\ rirq' = TRUE
    /\ rushed' = (rushed \/ Len(got) # keys)
    /\ UNCHANGED <<attached, delayed, ls_wbusy, wirq, tx, screen, cs_wsem, cs_rsem, cs_gotchar,
                   rlock, wlock, con, poll, asked, got, con_bad>>

\* lser_irq with con_start and con_input.
lser_irq ==
    /\ attached /\ Running /\ (wirq \/ rirq)
    /\ wirq' = FALSE /\ rirq' = FALSE
    /\ ls_wbusy' = (ls_wbusy /\ ~wirq)
    /\ cs_wsem' = cs_wsem + (IF wirq THEN 1 ELSE 0)
    /\ cs_gotchar' = IF rirq THEN rx ELSE cs_gotchar
    /\ cs_rsem' = cs_rsem + (IF rirq THEN 1 ELSE 0)
    /\ UNCHANGED <<attached, delayed, tx, rx, screen, rlock, wlock, con, poll, asked,
                   key_vars, con_bad>>

----------------------------------------------------------------------------

ConsoleStep(t) ==
    \/ con_acquire(t) \/ con_wnext(t) \/ con_release(t) \/ putch_intr(t) \/ lser_write(t)
    \/ con_rnext(t) \/ getch_intr(t) \/ getch_fetch(t)

ConsoleCall(t) ==
    \/ putch(t, "k") \/ getch(t)
    \/ \E text \in Text : con_write(t, text)
    \/ \E n \in ReadSize : con_read(t, n)

Polling == poll_wait \/ poll_send \/ poll_spin

ConsoleNext == \/ \E t \in Thread : ConsoleCall(t) \/ ConsoleStep(t)
               \/ putch_delayed("d") \/ config_con
               \/ lser_writepolled \/ Polling
               \/ transmit \/ type_key \/ lser_irq

ConsoleBehaviour == ConsoleInit /\ [][ConsoleNext]_con_vars

----------------------------------------------------------------------------
(* Properties *)

\* What of the output of t has reached the port.
Shown(t) == LET all == IF tx = NULL THEN screen ELSE Append(screen, tx)
            IN [i \in 1..Cardinality({j \in DOMAIN all : all[j].t = t}) |->
                  LET nth == CHOOSE j \in DOMAIN all :
                               /\ all[j].t = t
                               /\ Cardinality({k \in 1..j : all[k].t = t}) = i
                  IN all[nth].ch]

\* At any moment exactly one of: a thread may print, one thread is about to,
\* the port is at work on, or reports, an interrupt-driven character; polled
\* output in between loses nothing.  So the "Not clear to write" panic is
\* never reached, every character given to putch is shown once and in order,
\* and nothing of another user's call appears inside a user's write.
OutputExact ==
    subject = "console" =>
      /\ ~con_bad
      /\ cs_wsem + Cardinality({t \in Thread : con[t].pc = "send"}) + (IF ls_wbusy THEN 1 ELSE 0) = 1
      /\ \A t \in Thread : Shown(t) \o con[t].chars = asked[t]
      /\ \A i, j, k \in DOMAIN screen :
            /\ i < j /\ j < k /\ screen[i].t = screen[k].t
            /\ screen[i].by = "user" /\ screen[j].by = "user"
            /\ screen[i].call = screen[k].call
            => screen[j].t = screen[i].t

\* Keys are never read out of order nor before they are typed, and as long as
\* each is read before the next is typed none is lost or read twice.
InputOrder ==
    subject = "console" =>
      /\ \A i \in DOMAIN got : got[i] \in 1..keys
      /\ \A i, j \in DOMAIN got : i < j => got[i] <= got[j]
      /\ Len(got) <= keys
      /\ ~rushed => \A i \in DOMAIN got : got[i] = i

\* The console becomes free again after every character: polled output never
\* swallows the interrupt that the character before it will raise.
ConsoleWritable == (subject = "console" /\ attached /\ cs_wsem = 0) ~> (cs_wsem = 1)
=============================================================================
