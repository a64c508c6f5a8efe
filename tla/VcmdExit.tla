------------------------------ MODULE VcmdExit ------------------------------
(***************************************************************************)
(* hantrovcmd_release of src/hantro/hantro_vcmd.c: a file is closed while  *)
(* its command buffers, and those of other files, are in the list of a     *)
(* core, in the hardware, or reserved and never submitted.                 *)
(*                                                                         *)
(* The function visits the encoder's device and then the decoder's.  This  *)
(* module is its visit to one device, on top of that device's VcmdQueue.   *)
(* It holds the semaphore for the whole visit and the core's spinlock for  *)
(* the walk over the list.  The walk stops once: at the first linked       *)
(* buffer of the file on a working core it aborts the core and polls, with *)
(* interrupts off, until the hardware has stopped.  Whom it wakes at its   *)
(* end is in VcmdWaits.                                                    *)
(***************************************************************************)
EXTENDS VcmdQueue

CONSTANTS
    Carried,     \* what the visit to the encoder may leave: [aborted, restart]
    MaxTimeouts, \* bound: closes that give up after three seconds
    QuickReuse   \* a slot may be given out again before an interrupt that
                 \* names its last buffer is handled

Closer == NumIds + 2    \* the closing thread, as holder of the semaphore
Foreign == NumIds + 3   \* a command buffer of the other device

ASSUME ExitAssumption ==
    /\ Carried \subseteq [aborted : BOOLEAN, restart : {None, Foreign}]
    /\ MaxTimeouts \in Nat
    /\ QuickReuse \in BOOLEAN

VARIABLES
    mine,     \* the slots reserved through the file that is closed
    exit,     \* the close: [pc, aborted, restart, at]
    timeouts

exitVars == <<mine, exit, timeouts>>
allExitVars == <<vars, exitVars>>

ExitPhases == {"open", "begin", "stopping", "sweep", "closed",
               "gaveup", "abandoned"}    \* the visit ends early

ExitTypeOK ==
    /\ mine \subseteq Ids
    /\ exit \in [pc : ExitPhases, aborted : BOOLEAN,
                 restart : Bufs \cup {None, Foreign}, at : Bufs \cup {None}]
    /\ timeouts \in 0..MaxTimeouts
    /\ sem = Closer <=> exit.pc \in {"begin", "stopping", "sweep"}
    /\ sem # Closer => TypeOK

ExitInit ==
    /\ Init
    /\ mine = {}
    /\ \E c \in Carried :
        exit = [pc |-> "open", aborted |-> c.aborted, restart |-> c.restart,
                at |-> None]
    /\ timeouts = 0

-----------------------------------------------------------------------------
(* The walk.                                                               *)
Own(j) == list[j] \in mine
OwnLinked == {j \in DOMAIN list : Own(j) /\ linked[list[j]] /\ ~run_done[list[j]]}

(* After an abort the buffers of others that have still to run are counted *)
(* again; the first of them is where the core restarts.                    *)
Counted(S) ==
    IF exit.aborted THEN {j \in S : ~Own(j) /\ ~run_done[list[j]]} ELSE {}
RestartAfter(S) ==
    IF exit.restart = None /\ Counted(S) # {} THEN list[Min(Counted(S))]
    ELSE exit.restart

(* vcmd_delink_rm_cmdbuf makes the JMP of a removed buffer's predecessor   *)
(* lead to what follows it, or clears its RDY bit.                         *)
Successor(left, n) ==
    LET i == CHOOSE i \in DOMAIN left : left[i] = n
    IN  IF i = Len(left) THEN None ELSE left[i + 1]

(* What the walk does to the file's buffers at positions S, over the done  *)
(* and link flags dn, lk.  One that has run, or was never linked, leaves   *)
(* the list unless it is the last: then a later release collects it.  Any  *)
(* other is taken out of the chain, its predecessor's JMP made to skip it. *)
RemoveOwn(S, delinked, dn, lk) ==
    LET own == {j \in S : Own(j)}
        kept == {list[j] : j \in {i \in own \ delinked : i = Len(list)}}
        gone == {list[j] : j \in own} \ kept
        left == Picked(list, {j \in DOMAIN list : list[j] \notin gone})
    IN  /\ list' = left
        /\ stage' = [n \in Bufs |-> IF n \in gone THEN "free"
                                    ELSE IF n \in kept THEN "released"
                                    ELSE stage[n]]
        /\ need_remove' = [n \in Bufs |-> need_remove[n] \/ n \in kept]
        /\ run_done' = [n \in Bufs |-> dn[n] \/ n \in kept]
        /\ linked' = [n \in Bufs |-> lk[n] \/ (n \in kept /\ ~dn[n])]
        /\ jmp' = [n \in Bufs |->
                    IF \E j \in delinked : j > 1 /\ list[j - 1] = n /\ n \notin gone
                    THEN Successor(left, n) ELSE jmp[n]]

(* The end of the walk: the interrupts raised so far are dropped and the   *)
(* core is started at a buffer.                                            *)
RestartCore(n, rdy) ==
    /\ irq' = {}
    /\ vcmd_start(n, rdy)

Stopped == hw.phase = "off"

(* A plausible slip: all that was linked counts as executed.               *)
ExecutedAll == {n \in Range(list) : linked[n]}

(* Every buffer up to the one the hardware names.                          *)
Executed ==
    {list[j] : j \in 1..(IF InList(hw.cur) THEN Position(hw.cur) ELSE Len(list))}

(* A plausible slip: those between the two are forgotten.                  *)
RemainingBehind(a, dn) == {j \in DOMAIN list : j > a /\ ~Own(j) /\ ~dn[list[j]]}

(* What the core has still to run: between the aborted buffer and the      *)
(* file's, at position a, and behind that.                                 *)
Remaining(a, dn) == {j \in DOMAIN list : ~Own(j) /\ ~dn[list[j]]}

-----------------------------------------------------------------------------
(* The semaphore; a signal ends the close before it has done anything.     *)
CloseBegin ==
    /\ exit.pc = "open" /\ sem = None
    /\ sem' = Closer
    /\ exit' = [exit EXCEPT !.pc = "begin"]
    /\ UNCHANGED <<listVars, stage, linkVars, doneVars, patched, working, sw_abort,
                   ddrVars, hw, irq, bounds, mine, timeouts>>

CloseInterrupted ==
    /\ exit.pc = "open" /\ sem # None /\ sem \notin mine /\ signals < MaxSignals
    /\ signals' = signals + 1
    /\ exit' = [exit EXCEPT !.pc = "abandoned"]
    /\ UNCHANGED <<listVars, stage, linkVars, doneVars, patched, sem, working,
                   sw_abort, ddrVars, hw, irq, cursor, submits, faults, mine,
                   timeouts>>

(* No buffer of the file is in the hardware's chain: one pass.             *)
CloseWalk ==
    /\ exit.pc = "begin" /\ ~(working /\ OwnLinked # {})
    /\ RemoveOwn(DOMAIN list, OwnLinked, run_done, linked)
    /\ sw_rdy' = sw_rdy + Cardinality(Counted(DOMAIN list))
    /\ LET restart == RestartAfter(DOMAIN list)
       IN  /\ IF restart # None THEN RestartCore(restart, sw_rdy')
              ELSE UNCHANGED <<working, hw, irq>>
           /\ exit' = [exit EXCEPT !.pc = "sweep", !.restart = restart]
    /\ sw_abort' = (sw_abort /\ \A j \in DOMAIN list : ~Own(j))
    /\ UNCHANGED <<type, prio, status, patched, sem, ddrVars, bounds, mine, timeouts>>

(* The walk up to the first linked buffer of the file, and the abort.      *)
CloseAbort ==
    /\ exit.pc = "begin" /\ working /\ OwnLinked # {}
    /\ LET before == 1..(Min(OwnLinked) - 1)
       IN  /\ RemoveOwn(before, {}, run_done, linked)
           /\ sw_rdy' = sw_rdy + Cardinality(Counted(before))
           /\ exit' = [pc |-> "stopping", aborted |-> TRUE,
                       restart |-> RestartAfter(before),
                       at |-> list[Min(OwnLinked)]]
    /\ hw' = [hw EXCEPT !.abort = hw.phase # "off"]
    /\ sw_abort' = TRUE
    /\ UNCHANGED <<type, prio, status, patched, sem, working, ddrVars, irq, bounds,
                   mine, timeouts>>

(* The hardware has stopped: what it has executed is done, the rest of the *)
(* walk removes the file's buffers, and the core runs the others.  A       *)
(* restart drops the interrupts that are pending; without one only the     *)
(* abort's is cleared.                                                     *)
CloseStopped ==
    /\ exit.pc = "stopping" /\ Stopped
    /\ LET a == Position(exit.at)
           dn == [n \in Bufs |-> run_done[n] \/ n \in Executed]
           lk == [n \in Bufs |-> linked[n] /\ ~(n \in Executed /\ ~run_done[n])]
           own == {j \in a..Len(list) : Own(j)}
           left == Remaining(a, dn)
           restart == IF left # {} /\ (exit.restart = None \/ dn[exit.at]
                                        \/ Min(left) < a)
                      THEN list[Min(left)]
                      ELSE IF dn[exit.at] /\ Last(list) \notin Executed THEN None
                      ELSE exit.restart
       IN  /\ RemoveOwn(own, {a} \cup {j \in own : ~dn[list[j]] /\ lk[list[j]]},
                        dn, lk)
           /\ sw_rdy' = Cardinality(left)
           /\ IF restart # None THEN RestartCore(restart, sw_rdy')
              ELSE /\ irq' = irq \ {"ABORT"}
                   /\ working' = FALSE
                   /\ hw' = [hw EXCEPT !.exe = 0, !.rdy = 0]
           /\ exit' = [exit EXCEPT !.pc = "sweep", !.restart = restart, !.at = None]
    /\ sw_abort' = FALSE
    /\ UNCHANGED <<type, prio, status, patched, sem, ddrVars, bounds, mine, timeouts>>

(* Three seconds were not enough: nothing more is removed, and the core is *)
(* declared idle after the locks are given back.                           *)
CloseGivesUp ==
    /\ exit.pc = "stopping" /\ hw.phase # "off" /\ timeouts < MaxTimeouts
    /\ timeouts' = timeouts + 1
    /\ sem' = None
    /\ exit' = [exit EXCEPT !.pc = "gaveup"]
    /\ UNCHANGED <<listVars, stage, linkVars, doneVars, patched, working, sw_abort,
                   ddrVars, hw, irq, bounds, mine>>

CloseDeclaresIdle ==
    /\ exit.pc = "gaveup"
    /\ working' = FALSE
    /\ exit' = [exit EXCEPT !.pc = "abandoned"]
    /\ UNCHANGED <<listVars, stage, linkVars, doneVars, patched, sem, sw_abort,
                   ddrVars, hw, irq, bounds, mine, timeouts>>

(* A plausible slip: only what has run is swept.                           *)
UnsubmittedButRun == {n \in mine : ~linked[n] /\ run_done[n]}

(* The sweep over the pool: the file's buffers that were never submitted.  *)
Unsubmitted == {n \in mine : ~linked[n] /\ ~run_done[n]}

release_cmdbuf_notlinked(S) ==
    stage' = [n \in Bufs |-> IF n \in S THEN "free" ELSE stage[n]]

CloseSweep ==
    /\ exit.pc = "sweep"
    /\ release_cmdbuf_notlinked(Unsubmitted)
    /\ sem' = None
    /\ exit' = [exit EXCEPT !.pc = "closed"]
    /\ UNCHANGED <<listVars, linkVars, doneVars, patched, working, sw_abort,
                   ddrVars, hw, irq, bounds, mine, timeouts>>

Close ==
    \/ CloseWalk \/ CloseAbort \/ CloseStopped
    \/ CloseDeclaresIdle \/ CloseSweep

-----------------------------------------------------------------------------
(* The threads of the file are gone when it is closed.  The search for a    *)
(* slot goes round the pool, so one comes up again after all the others.   *)
ReserveFor(n, p) ==
    /\ Reserve(n, p)
    /\ QuickReuse \/ irq = {} \/ ddr_id # n
    /\ mine' \in {mine \ {n}} \cup (IF exit.pc = "open" THEN {mine \cup {n}} ELSE {})
    /\ UNCHANGED <<exit, timeouts>>

ClientRuns(n) ==
    /\ n \in mine => exit.pc = "open"
    /\ Client(n)
    /\ UNCHANGED exitVars

(* The walk holds the spinlock, with interrupts off.                       *)
Unlocked == exit.pc # "stopping"
InterruptRuns == Unlocked /\ Interrupt /\ UNCHANGED exitVars
HardwareRuns == Hardware /\ UNCHANGED exitVars

ExitNext ==
    \/ \E n \in Ids, p \in Prios : ReserveFor(n, p)
    \/ \E n \in Ids : ClientRuns(n)
    \/ HardwareRuns
    \/ InterruptRuns
    \/ CloseBegin \/ CloseInterrupted \/ CloseGivesUp \/ Close

ExitSpec == ExitInit /\ [][ExitNext]_allExitVars

-----------------------------------------------------------------------------
(* A close that runs to its end leaves nothing of the file behind, except  *)
(* possibly its last buffer: done, marked, and collected by the next       *)
(* release behind it.                                                      *)
NothingOfTheFileLeft ==
    exit.pc = "closed" =>
        LET left == {n \in mine : InTable(n)}
        IN  /\ Cardinality(left) <= 1
            /\ \A n \in left : InList(n) /\ run_done[n] /\ need_remove[n]

(* The other files lose nothing: what they submitted and has not run is in *)
(* the list, linked, on a working core, and the core's ready count is that *)
(* of the chain, whatever the close has cut out of it.                     *)
OthersKeepRunning ==
    timeouts = 0 =>
        /\ ChainMatchesCount
        /\ NoStrandedWork
        /\ \A n \in Ids \ mine :
            stage[n] = "submitted" /\ ~run_done[n] => InList(n)

(* "Mark cmdbuf_run_done to 1 for all the cmd buf executed": what the      *)
(* close declares done of the other files has been executed.               *)
OthersOkMeansRan ==
    timeouts = 0 =>
        \A n \in Bufs \ mine : run_done[n] /\ status[n] = "OK" => n \in ran
=============================================================================
