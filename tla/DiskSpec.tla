------------------------------ MODULE DiskSpec ------------------------------
(***************************************************************************)
(* What the callers of lhd_io rely on: a transfer of one sector happens    *)
(* at one moment, completely or not at all, and its outcome goes to the    *)
(* thread that asked for it.                                               *)
(***************************************************************************)
CONSTANTS Thread, NULL, Sector, Data

VARIABLES medium,  \* sector -> data
          op       \* thread -> the transfer it is in, or NULL

Request == [st : {"asked"}, rw : {"read"}, sector : Sector, data : {NULL}]
           \cup [st : {"asked"}, rw : {"write"}, sector : Sector, data : Data]

Init == medium \in [Sector -> Data] /\ op = [t \in Thread |-> NULL]

Ask(t) == /\ op[t] = NULL
          /\ \E r \in Request : op' = [op EXCEPT ![t] = r]
          /\ UNCHANGED medium

Answer(t, res, d) ==
    op' = [op EXCEPT ![t] = [st |-> "served", rw |-> op[t].rw, res |-> res, data |-> d]]

\* The transfer itself, or a media error that changes nothing.
Serve(t) ==
    /\ op[t] # NULL /\ op[t].st = "asked"
    /\ \/ /\ op[t].rw = "write"
          /\ medium' = [medium EXCEPT ![op[t].sector] = op[t].data]
          /\ Answer(t, "ok", NULL)
       \/ /\ op[t].rw = "read"
          /\ Answer(t, "ok", medium[op[t].sector])
          /\ UNCHANGED medium
       \/ Answer(t, "EIO", NULL) /\ UNCHANGED medium

\* The thread learns the outcome; copying what was read to it may fault.
Take(t) ==
    /\ op[t] # NULL /\ op[t].st = "served"
    /\ \/ op' = [op EXCEPT ![t] = [@ EXCEPT !.st = "taken"]]
       \/ /\ op[t].rw = "read" /\ op[t].res = "ok"
          /\ op' = [op EXCEPT ![t] = [st |-> "taken", rw |-> "read", res |-> "EFAULT",
                                      data |-> NULL]]
    /\ UNCHANGED medium

Finish(t) == /\ op[t] # NULL /\ op[t].st = "taken"
             /\ op' = [op EXCEPT ![t] = NULL]
             /\ UNCHANGED medium

Next == \E t \in Thread : Ask(t) \/ Serve(t) \/ Take(t) \/ Finish(t)

Spec == Init /\ [][Next]_<<medium, op>>
=============================================================================
