------------------------------ MODULE VcmdRuns ------------------------------
(***************************************************************************)
(* VcmdQueue without signals and errors, with a history variable: how      *)
(* often the hardware has finished each command buffer since its slot was  *)
(* reserved.  The set ran of VcmdQueue cannot tell a second execution from *)
(* none; the count can, and with it the core is compared with VcmdService. *)
(***************************************************************************)
EXTENDS VcmdQueue

VARIABLE runs    \* history only: no action reads it

countedVars == <<vars, runs>>

(* The kernel's cmdbuf has run at probe.                                   *)
CountedInit == Init /\ runs = [n \in Bufs |-> IF n = KernelBuf THEN 1 ELSE 0]

(* An execution counts; a reservation starts again from zero.              *)
Counts ==
    runs' = [n \in Bufs |-> IF HwFinish /\ n = hw.cur THEN runs[n] + 1
                            ELSE IF n \in ran' THEN runs[n] ELSE 0]

CountedSpec == CountedInit /\ [][CalmNext /\ Counts]_countedVars /\ Fairness

-----------------------------------------------------------------------------
(* The service's queue: the list without what is reported done.            *)
Undone == Picked(list, {j \in DOMAIN list : ~run_done[list[j]]})
Service == INSTANCE VcmdService
           WITH Ids <- Bufs,
                queue <- [i \in DOMAIN Undone |->
                            [id |-> Undone[i], prio |-> prio[Undone[i]]]]

(* Seen from its clients the core is the service of VcmdService: every     *)
(* buffer is executed once, never again after an abort, in queue order,    *)
(* and reported after it; a slot is reserved again only when its buffer is *)
(* out of the queue.                                                       *)
ServiceSpec == Service!Spec
=============================================================================
