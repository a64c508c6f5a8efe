------------------------------- MODULE VcmdPM -------------------------------
(***************************************************************************)
(* Suspending and resuming a vcmd core with command buffers in flight:     *)
(* vcmd_abort, vcmd_pm_suspend and vcmd_pm_resume of hantro_vcmd.c, and    *)
(* hantro_pm_suspend and hantro_pm_resume of hantro_drv.c, which call them.*)
(*                                                                         *)
(* Decoder and encoder are two PCI functions whose drivers share the same  *)
(* callbacks.  Each callback walks the cores of both and then switches off *)
(* its own function, and the two may run at the same time.  The core of    *)
(* VcmdQueue is one of the two; the other shows only when it does not stop *)
(* and so makes a callback fail.                                           *)
(*                                                                         *)
(* User processes are frozen meanwhile.  The PM core freezes them in user  *)
(* mode, so nobody is inside select_vcmd or link_and_run_cmdbuf; that a    *)
(* freeze ends interruptible waits is a signal of VcmdQueue.               *)
(***************************************************************************)
EXTENDS VcmdQueue

CONSTANTS
    MaxCycles,    \* bound: suspensions
    Abandons      \* another device may make the suspension fail

ASSUME PMAssumption == MaxCycles \in Nat /\ Abandons \in BOOLEAN

Callbacks == {"HANTRO_DECODER", "HANTRO_ENCODER"}  \* the PCI functions

VARIABLES
    system,   \* what the PM core is doing
    pm,       \* how far the callback of each PCI function is
    power,    \* the PCI functions that are in D0
    aborted,  \* aborted_cmdbuf_id
    stuck,    \* history: a suspension failed, and its cores were not resumed
    cycles

pmVars == <<system, pm, power, aborted, stuck, cycles>>
queueVars == vars
allVars == <<vars, pmVars>>

Phases == {"idle", "trigger", "look", "asleep", "stopped", "off", "failed"}

PMTypeOK ==
    /\ system \in {"up", "suspend", "resume"}
    /\ pm \in [Callbacks -> Phases]
    /\ power \subseteq Callbacks
    /\ aborted \in Bufs \cup {None}
    /\ stuck \in BOOLEAN
    /\ cycles \in 0..MaxCycles

PMInit ==
    /\ Init
    /\ system = "up"
    /\ pm = [c \in Callbacks |-> "idle"]
    /\ power = Callbacks
    /\ aborted = None
    /\ stuck = FALSE
    /\ cycles = 0

-----------------------------------------------------------------------------
(* The PM core.                                                            *)
Failed == \E c \in Callbacks : pm[c] = "failed"
InFlight == \E c \in Callbacks : pm[c] \notin {"idle", "off", "failed"}
SystemStep == UNCHANGED <<queueVars, aborted>>
CoreStep == UNCHANGED <<system, power, aborted, stuck, cycles>>
NoClientStep == UNCHANGED <<listVars, stage, doneVars, patched, sem, ddrVars, bounds>>

(* User processes are frozen, no ioctl is in a critical section.           *)
Freeze ==
    /\ system = "up" /\ sem = None /\ cycles < MaxCycles
    /\ system' = "suspend"
    /\ cycles' = cycles + 1
    /\ UNCHANGED <<pm, power, stuck>> /\ SystemStep

(* All devices sleep.  On the way back the PCI core powers every function  *)
(* before it calls the first driver.                                       *)
Sleep ==
    /\ system = "suspend" /\ \A c \in Callbacks : pm[c] = "off"
    /\ system' = "resume"
    /\ power' = Callbacks
    /\ UNCHANGED <<pm, stuck, cycles>> /\ SystemStep

(* A device did not suspend: the PM core turns back, and resumes only the  *)
(* devices whose callback had succeeded.                                   *)
TurnBack ==
    /\ system = "suspend" /\ ~InFlight /\ (Failed \/ Abandons)
    /\ system' = "resume"
    /\ pm' = [c \in Callbacks |-> IF pm[c] = "off" THEN "off" ELSE "idle"]
    /\ stuck' = (stuck \/ \A c \in Callbacks : pm[c] # "off")
    /\ UNCHANGED <<power, cycles>> /\ SystemStep

Thaw ==
    /\ system = "resume" /\ \A c \in Callbacks : pm[c] = "idle"
    /\ system' = "up"
    /\ UNCHANGED <<pm, power, stuck, cycles>> /\ SystemStep

-----------------------------------------------------------------------------
Begins(c) == system = "suspend" /\ ~Failed /\ pm[c] = "idle"

(* vcmd_pm_suspend for this core, called by the callback of function c.    *)
SuspendCheck(c) ==
    /\ Begins(c)
    /\ sw_abort' = (sw_abort \/ working)
    /\ pm' = [pm EXCEPT ![c] = IF working THEN "trigger" ELSE "stopped"]
    /\ CoreStep /\ NoClientStep /\ UNCHANGED <<linkVars, working, hw, irq>>

vcmd_abort(c) ==
    /\ pm[c] = "trigger"
    /\ hw' = [hw EXCEPT !.abort = hw.phase # "off"]
    /\ pm' = [pm EXCEPT ![c] = "look"]
    /\ CoreStep /\ NoClientStep /\ UNCHANGED <<linkVars, working, sw_abort, irq>>

(* A plausible slip: what the wait returns is taken for success.           *)
SuspendGoesOn(c) ==
    /\ sw_abort' = FALSE
    /\ pm' = [pm EXCEPT ![c] = "stopped"]
    /\ CoreStep /\ NoClientStep /\ UNCHANGED <<linkVars, working, hw, irq>>

SuspendEnds(c) ==
    /\ sw_abort' = FALSE
    /\ pm' = [pm EXCEPT ![c] = IF working THEN "failed" ELSE "stopped"]
    /\ CoreStep /\ NoClientStep /\ UNCHANGED <<linkVars, working, hw, irq>>

(* wait_event_timeout looks once and sleeps, uninterruptibly: the handler  *)
(* wakes only interruptible sleepers of wait_abort_queue.                  *)
AbortSeen(c) == pm[c] = "look" /\ ~working /\ SuspendEnds(c)

AbortSleep(c) ==
    /\ pm[c] = "look" /\ working
    /\ pm' = [pm EXCEPT ![c] = "asleep"]
    /\ CoreStep /\ UNCHANGED queueVars

AbortTimeout(c) == pm[c] = "asleep" /\ SuspendEnds(c)

(* The other core does not stop, so that hantro_pm_suspend fails.  As it   *)
(* takes the decoder first, an encoder has not been stopped by then.       *)
OtherFails(c) ==
    /\ IF type = "HANTRO_DECODER" THEN pm[c] = "stopped" ELSE Begins(c)
    /\ pm' = [pm EXCEPT ![c] = "failed"]
    /\ CoreStep /\ UNCHANGED queueVars

(* hantro_pm_pci_switch for function c: a core without power is silent.    *)
SwitchOff(c) ==
    /\ pm[c] = "stopped"
    /\ pm' = [pm EXCEPT ![c] = "off"]
    /\ power' = power \ {c}
    /\ IF type \notin power'
       THEN hw' = [hw EXCEPT !.phase = "off", !.abort = FALSE] /\ irq' = {}
       ELSE UNCHANGED <<hw, irq>>
    /\ NoClientStep
    /\ UNCHANGED <<linkVars, working, sw_abort, system, aborted, stuck, cycles>>

-----------------------------------------------------------------------------
(* A plausible slip: the aborted buffer is started, not the first undone.  *)
StartAborted(k) == IF k \in DOMAIN list THEN list[k] ELSE aborted

(* Where vcmd_pm_resume starts: at the first buffer from the aborted one   *)
(* on that is not done.                                                    *)
ResumeAt(k) ==
    LET ready == {j \in k..Len(list) : ~run_done[list[j]]}
    IN  IF k \notin DOMAIN list THEN aborted
        ELSE IF ready = {} THEN None ELSE list[Min(ready)]

(* vcmd_start, on a function that may have no power.                       *)
Start(n, rdy) ==
    IF n = None \/ rdy = 0 THEN UNCHANGED <<working, hw>>
    ELSE /\ working' = TRUE
         /\ hw' = IF type \in power'
                  THEN [phase |-> "exec", cur |-> n, exe |-> 0, rdy |-> rdy,
                        abort |-> FALSE]
                  ELSE hw

(* The callback switches its function on, and vcmd_pm_resume links what is *)
(* behind the aborted buffer again.  The aborted id may by now be that of  *)
(* a buffer that is in no list: nothing follows it.                        *)
ResumeCore(c) ==
    /\ system = "resume" /\ pm[c] = "off"
    /\ pm' = [pm EXCEPT ![c] = "idle"]
    /\ power' = power \cup {c}
    /\ IF ~working /\ aborted # None /\ InTable(aborted)
       THEN LET k == IF InList(aborted) THEN Position(aborted) ELSE Len(list) + 1
            IN  /\ vcmd_link_cmdbuf(k + 1)
                /\ Start(ResumeAt(k), sw_rdy')
       ELSE UNCHANGED <<linkVars, working, hw>>
    /\ NoClientStep
    /\ UNCHANGED <<sw_abort, irq, system, aborted, stuck, cycles>>

-----------------------------------------------------------------------------
(* A plausible slip: an abort that stops the core is not noted.            *)
NoteUnlessStopped ==
    IF type = "HANTRO_ENCODER" /\ ~sw_abort THEN hw.cur ELSE aborted

(* The handler notes the id of an aborted buffer before it looks it up.    *)
AbortedId == hw.cur

PMInterrupt ==
    /\ \/ IsrAbort /\ aborted' = AbortedId
       \/ (IsrJmp \/ IsrReset \/ IsrError \/ IsrTimeout) /\ UNCHANGED aborted
    /\ UNCHANGED <<system, pm, power, stuck, cycles>>

UserStep ==
    /\ system = "up"
    /\ \E n \in Ids : Client(n) \/ \E p \in Prios : Reserve(n, p)
    /\ UNCHANGED pmVars

HwStep == Hardware /\ UNCHANGED pmVars

Suspend(c) ==
    \/ SuspendCheck(c) \/ vcmd_abort(c) \/ AbortSeen(c)
    \/ AbortSleep(c) \/ AbortTimeout(c) \/ SwitchOff(c)

PMNext ==
    \/ UserStep \/ HwStep \/ PMInterrupt
    \/ Freeze \/ Sleep \/ TurnBack \/ Thaw
    \/ \E c \in Callbacks : Suspend(c) \/ OtherFails(c) \/ ResumeCore(c)

PMSpec == PMInit /\ [][PMNext]_allVars
-----------------------------------------------------------------------------

(* working_state is not left behind by the hardware: a core taken for      *)
(* running runs, waits at a JMP or has an interrupt to deliver.            *)
WorkingIsAlive == working => hw.phase # "off" \/ irq # {}

(* After resume nothing waits for a later submission: every buffer that    *)
(* was not done when the core was stopped is linked on a running core.     *)
ResumedQueueRuns ==
    system = "up" /\ ~stuck /\ signals = 0 => NoStrandedWork

(* Neither resume nor a restart by the handler runs a buffer again that    *)
(* its client has been told of.                                            *)
DoneNeverRunsAgain == [][HwFinish => ~run_done[hw.cur]]_allVars

=============================================================================
