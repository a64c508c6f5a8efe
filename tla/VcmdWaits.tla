------------------------------ MODULE VcmdWaits ------------------------------
(***************************************************************************)
(* wait_cmdbuf_ready of src/hantro/hantro_vcmd.c: a thread that waits for  *)
(* one buffer sleeps on the wait_queue of the core, one that waits for any *)
(* buffer of its file on the mc_wait_queue of the device.  The handler     *)
(* wakes the first only if it has reported something, the second whenever  *)
(* it has found the buffer of its interrupt; the close of another file     *)
(* wakes the first alone, and only if it has aborted the core and does not *)
(* restart it.                                                             *)
(*                                                                         *)
(* On top of VcmdExit: one file is being closed, and the threads of one    *)
(* other file wait in one of the two ways.  The calls of the closed file   *)
(* are over when its close begins; its waits are those of VcmdQueue.       *)
(***************************************************************************)
EXTENDS VcmdExit

CONSTANT Ways    \* the ways the other file may wait in

ASSUME WaitsAssumption == Ways \subseteq {"one", "any"}

VARIABLES
    way,       \* how the threads of the other file wait
    asleep,    \* ids whose threads sleep on wait_queue
    anyCall    \* the thread that waits for any buffer, on mc_wait_queue

waitVars == <<way, asleep, anyCall>>
allWaitVars == <<allExitVars, waitVars>>

WaitsTypeOK ==
    /\ way \in Ways
    /\ asleep \subseteq {n \in Ids : stage[n] = "submitted"}
    /\ anyCall \in {"away", "asleep", "awake"}

WaitsInit ==
    /\ ExitInit
    /\ way \in Ways
    /\ asleep = {}
    /\ anyCall = "away"

Others == Ids \ mine
Submitted == {n \in Others : stage[n] = "submitted"}
Reported == {n \in Submitted : run_done[n]}

-----------------------------------------------------------------------------
(* Waiting.  The condition is tested before the first sleep and after      *)
(* every wake-up; between test and sleep no wake-up is lost.               *)
SleepForOne(n) ==
    /\ way = "one" /\ n \in Submitted \ (Reported \cup asleep)
    /\ asleep' = asleep \cup {n}
    /\ UNCHANGED <<allExitVars, way, anyCall>>

ReturnWithOne(n) ==
    /\ way = "one" /\ n \in Reported \ asleep
    /\ Wait(n)
    /\ UNCHANGED <<exitVars, waitVars>>

(* check_mc_cmdbuf_irq looks through the file's buffers by id, and passes  *)
(* over those it has returned before.                                      *)
SleepForAny ==
    /\ way = "any" /\ anyCall # "asleep"
    /\ Submitted # {} /\ Reported = {}
    /\ anyCall' = "asleep"
    /\ UNCHANGED <<allExitVars, way, asleep>>

ReturnWithAny ==
    /\ way = "any" /\ anyCall # "asleep"
    /\ Reported # {} /\ Wait(Min(Reported))
    /\ anyCall' = "away"
    /\ UNCHANGED <<exitVars, way, asleep>>

(* Everything else the threads do.                                         *)
Otherwise(n) ==
    /\ n \notin Submitted
    /\ ClientRuns(n)
    /\ UNCHANGED waitVars

-----------------------------------------------------------------------------
(* Waking.                                                                 *)
WakeAny == anyCall' = IF anyCall = "asleep" THEN "awake" ELSE anyCall

(* The handler has found a node for the id it was given.  After a reset it *)
(* wakes nobody.                                                           *)
FoundNode == InTable(IF irq = {"JMP"} THEN ddr_id ELSE hw.cur) /\ ~IsrReset

InterruptWakes ==
    /\ InterruptRuns
    /\ asleep' = IF run_done' # run_done THEN {} ELSE asleep
    /\ IF FoundNode THEN WakeAny ELSE UNCHANGED anyCall
    /\ UNCHANGED way

(* A plausible slip: a close that restarts the core is taken to be told.   *)
WakesIfRestarted == exit'.aborted /\ exit'.restart # None

(* "VCMD aborted but not restarted, need to wake up"                       *)
WakesAtClose == exit'.aborted /\ exit'.restart = None

CloseWakes ==
    /\ CloseWalk \/ CloseStopped
    /\ asleep' = IF WakesAtClose THEN {} ELSE asleep
    /\ UNCHANGED <<way, anyCall>>

CloseGoesOn == (CloseAbort \/ CloseDeclaresIdle \/ CloseSweep) /\ UNCHANGED waitVars

WaitsNext ==
    \/ \E n \in Ids, p \in Prios : ReserveFor(n, p) /\ UNCHANGED waitVars
    \/ \E n \in Ids : SleepForOne(n) \/ ReturnWithOne(n) \/ Otherwise(n)
    \/ SleepForAny \/ ReturnWithAny
    \/ HardwareRuns /\ UNCHANGED waitVars
    \/ InterruptWakes
    \/ (CloseBegin \/ CloseInterrupted \/ CloseGivesUp) /\ UNCHANGED waitVars
    \/ CloseWakes \/ CloseGoesOn

WaitsSpec == WaitsInit /\ [][WaitsNext]_allWaitVars

-----------------------------------------------------------------------------
(* A buffer that the hardware has still to report, on a core that runs.    *)
ReportToCome == working /\ \E n \in Ids : InList(n) /\ linked[n] /\ ~run_done[n]

(* A pending interrupt whose buffer the handler will find.                 *)
InterruptToCome == irq # {} /\ InTable(ddr_id)

(* The close has wakened only the wait_queue.                              *)
AbortedForGood == exit.pc \in {"sweep", "closed"} /\ exit.aborted /\ exit.restart = None

(* Nobody sleeps for ever: whatever the close has aborted, restarted and   *)
(* declared done, who sleeps beside a finished buffer of its own has been  *)
(* woken, or the report of a later buffer will wake it; and nobody waits   *)
(* for what no longer runs.  The exceptions are a close that gives up and, *)
(* for who waits for any buffer, one that aborts the core for good: it     *)
(* takes the last interrupt's buffer away and wakes the wait_queue alone.  *)
SleepersAreWoken ==
    Unlocked /\ timeouts = 0 =>
        /\ asleep # {} => ReportToCome
        /\ anyCall = "asleep" /\ Submitted # {} =>
              ReportToCome \/ InterruptToCome \/ AbortedForGood
=============================================================================
