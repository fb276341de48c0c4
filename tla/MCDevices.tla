------------------------------ MODULE MCDevices ------------------------------
(* The disk and the console, for TLC; subject says which of the two a       *)
(* behaviour exercises, and the other stays as it begins.                   *)
EXTENDS Disk, Console

CONSTANTS Subjects, t1, t2, a, b

MCRawRequest == {<<0, 4>>, <<1, 2>>, <<2, 4>>}
MCText == {<<"u", "lf">>}

vars == <<disk_vars, con_vars, subject>>

Init ==
    /\ subject \in Subjects
    /\ DiskInit /\ medium = [s \in Sector |-> a]
    /\ ConsoleInit

Next ==
    \/ subject = "disk" /\ DiskNext /\ UNCHANGED <<con_vars, subject>>
    \/ subject = "console" /\ ConsoleNext /\ UNCHANGED <<disk_vars, subject>>

\* A thread that can go on eventually does, for the scheduler is round robin;
\* the disk and the port finish what they were given, and their interrupts are
\* taken.
Fairness ==
    /\ \A t \in Thread : /\ WF_disk_vars(subject = "disk" /\ DiskStep(t))
                         /\ WF_con_vars(subject = "console" /\ ConsoleStep(t))
    /\ WF_disk_vars(subject = "disk" /\ hardware)
    /\ WF_disk_vars(subject = "disk" /\ lhd_irq)
    /\ WF_con_vars(subject = "console" /\ Polling)
    /\ WF_con_vars(subject = "console" /\ transmit)
    /\ WF_con_vars(subject = "console" /\ lser_irq)

FairSpec == Init /\ [][Next]_vars /\ Fairness
=============================================================================
