---------------------------- MODULE VcmdService -----------------------------
(***************************************************************************)
(* What one vcmd core promises its clients, with no list, no links and no  *)
(* interrupts: a queue of submitted command buffers, executed one at a     *)
(* time in queue order and each exactly once between its submission and    *)
(* its report, and completions that are reported in queue order, several   *)
(* at a time if interrupts coalesce.                                       *)
(*                                                                         *)
(* A high-priority buffer enters in front of all normal ones that have not *)
(* been executed, or at the end.  No more is promised of it: which of the  *)
(* two is the driver's guess whether the core has anything left to do.     *)
(***************************************************************************)
EXTENDS Naturals, Sequences

CONSTANT Ids

VARIABLES
    queue,   \* submitted and not reported done, in order: [id, prio]
    runs     \* how often each was executed since its slot was reserved

vars == <<queue, runs>>

Queued == {queue[i].id : i \in DOMAIN queue}
Entry(n, p) == [id |-> n, prio |-> p]

Init == queue = <<>> /\ runs \in [Ids -> {0, 1}]

(* The entries before position i, then the new one, then the rest.         *)
Insert(i, e) == SubSeq(queue, 1, i - 1) \o <<e>> \o SubSeq(queue, i, Len(queue))

FirstWaitingNormal(i) ==
    LET Waits(j) == queue[j].prio = "normal" /\ runs[queue[j].id] = 0
    IN  Waits(i) /\ \A j \in 1..(i - 1) : ~Waits(j)

Reserve(n) ==
    /\ n \notin Queued
    /\ runs' = [runs EXCEPT ![n] = 0]
    /\ UNCHANGED queue

SubmitLast(n, p) ==
    /\ n \notin Queued /\ runs[n] = 0
    /\ queue' = Append(queue, Entry(n, p))
    /\ UNCHANGED runs

SubmitAhead(n) ==
    /\ n \notin Queued /\ runs[n] = 0
    /\ \E i \in DOMAIN queue :
        FirstWaitingNormal(i) /\ queue' = Insert(i, Entry(n, "high"))
    /\ UNCHANGED runs

Execute ==
    /\ \E i \in DOMAIN queue :
        /\ runs[queue[i].id] = 0
        /\ \A j \in 1..(i - 1) : runs[queue[j].id] = 1
        /\ runs' = [runs EXCEPT ![queue[i].id] = @ + 1]
    /\ UNCHANGED queue

Report(k) ==
    /\ \A i \in 1..k : runs[queue[i].id] = 1
    /\ queue' = SubSeq(queue, k + 1, Len(queue))
    /\ UNCHANGED runs

Next ==
    \/ \E n \in Ids : Reserve(n)
    \/ \E n \in Ids, p \in {"normal", "high"} : SubmitLast(n, p)
    \/ \E n \in Ids : SubmitAhead(n)
    \/ Execute
    \/ \E k \in DOMAIN queue : Report(k)

Spec == Init /\ [][Next]_vars
=============================================================================
