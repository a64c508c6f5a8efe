----------------------------- MODULE VcmdQueue ------------------------------
(***************************************************************************)
(* One vcmd core of src/hantro/hantro_vcmd.c: the list of command buffers, *)
(* select_vcmd, vcmd_link_cmdbuf, link_and_run_cmdbuf, release_cmdbuf, the *)
(* interrupt handler hantrovcmd_isr, and the hardware they drive.          *)
(*                                                                         *)
(* Every cmdbuf id has a thread of its own that reserves, submits, waits   *)
(* and releases it, so all orders of calls on different ids occur.         *)
(* Submission is not one step: select_vcmd puts the node in the list, then *)
(* the semaphore is kept while addresses are patched into the buffer, and  *)
(* only then is it linked.  The handler may run between any two steps.     *)
(*                                                                         *)
(* The hardware is known from how the driver uses it.  It runs the buffers *)
(* of the chain that the JMP words make, stops at a JMP when the ready     *)
(* count is used up, takes a newly written count at once, and aborts at    *)
(* the end of a buffer.                                                    *)
(***************************************************************************)
EXTENDS Integers, FiniteSets, Sequences, SequencesExt

CONSTANTS
    NumIds,      \* the slots clients can reserve
    Types,       \* the kinds of device: subsys_dev->type
    Silent,      \* ids whose JMP does not ask for an interrupt
    Prios,       \* the priorities clients use
    Faults,      \* the error interrupts the hardware may raise
    MaxSubmits,  \* bound: reservations
    MaxFaults,   \* bound: hardware errors
    MaxSignals   \* bound: waits cut short by a signal

ASSUME QueueAssumption ==
    /\ NumIds \in Nat \ {0}
    /\ Types \subseteq {"HANTRO_DECODER", "HANTRO_ENCODER"}
    /\ Silent \subseteq Nat
    /\ Prios \subseteq {"normal", "high"}
    /\ Faults \subseteq {"BUSERR", "CMDERR", "TIMEOUT", "RESET"}
    /\ MaxSubmits \in Nat /\ MaxFaults \in Nat /\ MaxSignals \in Nat

(* Id 0 is not used, id 1 reads the registers at probe and stays for good. *)
None == 0
KernelBuf == 1
Ids == 2..(NumIds + 1)
Bufs == Ids \cup {KernelBuf}

VARIABLES
    type,        \* the kind of this device
    list,        \* list_manager of the core, head first
    stage,       \* what the thread of each id has reached
    prio,        \* cmdbuf_obj->priority
    linked,      \* cmdbuf_data_linked
    run_done,    \* cmdbuf_run_done
    status,      \* executing_status
    need_remove, \* cmdbuf_need_remove
    jmp,         \* the id in the JMP word of the buffer, None while RDY = 0
    patched,     \* the buffer stores the registers at this core's address
    sem,         \* holder of vcmd_reserve_cmdbuf_sem
    working,     \* working_state = WORKING_STATE_WORKING
    sw_rdy,      \* sw_cmdbuf_rdy_num
    sw_abort,    \* software_triger_abort
    ddr_id,      \* vcmd_reg_mem: the id the last buffer stored
    ddr_exe,     \* vcmd_reg_mem: the executed count it stored
    hw,          \* the hardware: phase, current buffer, counts, abort request
    irq,         \* VCMD_REGISTER_INT_STATUS
    ran,         \* ids the hardware has finished since they were reserved
    cursor,      \* cmdbuf_used_pos: where the next search for a slot starts
    submits, faults, signals

listVars == <<type, list, prio, need_remove>>
linkVars == <<linked, jmp, sw_rdy>>
doneVars == <<run_done, status>>
ddrVars == <<ddr_id, ddr_exe, ran>>
bounds == <<cursor, submits, faults, signals>>
vars == <<type, list, stage, prio, linked, run_done, status, need_remove, jmp,
          patched, sem, working, sw_rdy, sw_abort, ddr_id, ddr_exe, hw, irq,
          ran, cursor, submits, faults, signals>>

Stages == {"free", "reserved",             \* not submitted
           "busy", "abort", "aborting", "signalled",                \* holds sem
           "inserted", "patched",                                   \* holds sem
           "submitted", "waited", "released",
           "lost", "leaked"}               \* a signal ended the ioctl
Sections == {"busy", "abort", "aborting", "signalled", "inserted", "patched"}

TypeOK ==
    /\ type \in Types
    /\ list \in Seq(Bufs) /\ IsInjective(list)
    /\ stage \in [Bufs -> Stages]
    /\ prio \in [Bufs -> {"normal", "high"}]
    /\ linked \in [Bufs -> BOOLEAN] /\ run_done \in [Bufs -> BOOLEAN]
    /\ status \in [Bufs -> {"OK", "BUSERR", "CMDERR"}]
    /\ need_remove \in [Bufs -> BOOLEAN] /\ patched \in [Bufs -> BOOLEAN]
    /\ jmp \in [Bufs -> Bufs \cup {None}]
    /\ sem \in Ids \cup {None}
    /\ working \in BOOLEAN /\ sw_abort \in BOOLEAN /\ sw_rdy \in Nat
    /\ ddr_id \in Bufs /\ ddr_exe \in Nat
    /\ hw \in [phase : {"off", "exec", "pend"}, cur : Bufs, exe : Nat, rdy : Nat,
               abort : BOOLEAN]
    /\ irq \subseteq Faults \cup {"JMP", "ABORT"}
    /\ ran \subseteq Bufs
    /\ cursor \in Ids
    /\ submits \in 0..MaxSubmits /\ faults \in 0..MaxFaults
    /\ signals \in 0..MaxSignals

-----------------------------------------------------------------------------
(* After probe: the kernel's cmdbuf has run and waits at its JMP.          *)
Init ==
    /\ type \in Types
    /\ list = <<KernelBuf>>
    /\ stage = [n \in Bufs |-> IF n = KernelBuf THEN "waited" ELSE "free"]
    /\ prio = [n \in Bufs |-> "normal"]
    /\ linked = [n \in Bufs |-> n = KernelBuf]
    /\ run_done = [n \in Bufs |-> n = KernelBuf]
    /\ status = [n \in Bufs |-> "OK"]
    /\ need_remove = [n \in Bufs |-> FALSE]
    /\ jmp = [n \in Bufs |-> None]
    /\ patched = [n \in Bufs |-> n = KernelBuf]
    /\ sem = None
    /\ working = TRUE
    /\ sw_rdy = 1
    /\ sw_abort = FALSE
    /\ ddr_id = KernelBuf /\ ddr_exe = 0
    /\ hw = [phase |-> "pend", cur |-> KernelBuf, exe |-> 1, rdy |-> 1,
             abort |-> FALSE]
    /\ irq = {}
    /\ ran = {KernelBuf}
    /\ cursor = 2
    /\ submits = 0 /\ faults = 0 /\ signals = 0

-----------------------------------------------------------------------------
(* Positions in the list.                                                  *)
InList(n) == n \in Range(list)
Position(n) == CHOOSE i \in DOMAIN list : list[i] = n

(* The elements of s at the positions S, in their order.                   *)
Picked(s, S) ==
    [i \in 1..Cardinality(S) |->
        s[CHOOSE j \in S : Cardinality({k \in S : k <= j}) = i]]

(* Hardware: writing the ready count, with the JMP words the driver left.  *)
WriteReady(rdy, jump) ==
    hw' = IF hw.phase = "pend" /\ hw.exe < rdy /\ jump[hw.cur] # None
          THEN [hw EXCEPT !.phase = "exec", !.cur = jump[hw.cur], !.rdy = rdy]
          ELSE [hw EXCEPT !.rdy = rdy]

(* vcmd_start: the executed count starts again, an abort is forgotten.     *)
vcmd_start(n, rdy) ==
    /\ working' = TRUE
    /\ hw' = [phase |-> "exec", cur |-> n, exe |-> 0, rdy |-> rdy, abort |-> FALSE]

(* A plausible slip: only the next buffer is joined, not the rest.         *)
JoinedNext(k, lk, dn) ==
    {j \in DOMAIN list : (j = k /\ ~lk[list[j]]) \/ (j = k + 1 /\ ~dn[list[j]])}

(* vcmd_link_cmdbuf from position k, over the link and done flags lk, dn:  *)
(* position k is linked if it was not; every later buffer that is not done *)
(* gets the JMP of its predecessor and is counted, linked before or not.   *)
Joined(k, lk, dn) ==
    {j \in DOMAIN list : (j = k /\ ~lk[list[j]]) \/ (j > k /\ ~dn[list[j]])}
LinkedFrom(k, lk, dn) ==
    [n \in Bufs |-> lk[n] \/ \E j \in Joined(k, lk, dn) : list[j] = n]
JumpsFrom(k, dn) ==
    [n \in Bufs |->
        IF InList(n) /\ Position(n) \in k..(Len(list) - 1)
                     /\ ~dn[list[Position(n) + 1]]
        THEN list[Position(n) + 1] ELSE jmp[n]]

(* vcmd_delink_cmdbuf from position k: the run of linked buffers there.    *)
DelinkedFrom(k, lk) ==
    [n \in Bufs |->
        /\ lk[n]
        /\ ~\E j \in DOMAIN list :
                list[j] = n /\ j >= k /\ \A i \in k..j : lk[list[i]]]

-----------------------------------------------------------------------------
(* Clients.  Slots are handed out in cyclic order (module CmdbufPool).      *)
Distance(n) == IF n >= cursor THEN n - cursor ELSE n + NumIds - cursor

Reserve(n, p) ==
    /\ stage[n] = "free" /\ submits < MaxSubmits
    /\ \A m \in Ids : stage[m] = "free" => Distance(n) <= Distance(m)
    /\ cursor' = IF n = NumIds + 1 THEN 2 ELSE n + 1
    /\ stage' = [stage EXCEPT ![n] = "reserved"]
    /\ prio' = [prio EXCEPT ![n] = p]
    /\ linked' = [linked EXCEPT ![n] = FALSE]
    /\ run_done' = [run_done EXCEPT ![n] = FALSE]
    /\ status' = [status EXCEPT ![n] = "OK"]
    /\ need_remove' = [need_remove EXCEPT ![n] = FALSE]
    /\ jmp' = [jmp EXCEPT ![n] = None]
    /\ patched' = [patched EXCEPT ![n] = FALSE]
    /\ ran' = ran \ {n}
    /\ submits' = submits + 1
    /\ UNCHANGED <<type, list, sem, working, sw_rdy, sw_abort, ddr_id, ddr_exe, hw,
                   irq, faults, signals>>

(* select_vcmd on one core.  The kernel's cmdbuf never leaves the list, so *)
(* the list is not empty.  The core has nothing to do when its tail is     *)
(* done, or when the counts say that the last ready buffer was the one     *)
(* that stored its registers last.  The count in memory can be that of a   *)
(* chain before the last abort: then this is a guess.                      *)
NothingToDo ==
    \/ run_done[Last(list)]
    \/ sw_rdy \in {ddr_exe, ddr_exe + 1}

SelectTail(n) ==
    /\ stage[n] = "reserved" /\ sem = None
    /\ NothingToDo \/ prio[n] = "normal"
    /\ sem' = n
    /\ list' = Append(list, n)
    /\ stage' = [stage EXCEPT ![n] = "inserted"]
    /\ UNCHANGED <<type, prio, need_remove, linkVars, doneVars, patched, working,
                   sw_abort, ddrVars, hw, irq, bounds>>

(* A high-priority buffer on a busy core stops the hardware, which may     *)
(* have gone on since the test: START_TRIGGER is cleared first,            *)
(* software_triger_abort is set after it.                                  *)
SelectBusy(n) ==
    /\ stage[n] = "reserved" /\ sem = None
    /\ ~NothingToDo /\ prio[n] = "high"
    /\ sem' = n
    /\ stage' = [stage EXCEPT ![n] = "busy"]
    /\ UNCHANGED <<listVars, linkVars, doneVars, patched, working, sw_abort,
                   ddrVars, hw, irq, bounds>>

AbortTrigger(n) ==
    /\ stage[n] = "busy"
    /\ hw' = [hw EXCEPT !.abort = hw.phase # "off"]
    /\ stage' = [stage EXCEPT ![n] = "abort"]
    /\ UNCHANGED <<listVars, linkVars, doneVars, patched, sem, working, sw_abort,
                   ddrVars, irq, bounds>>

(* A plausible slip: the core is taken for idle as soon as it is told to   *)
(* abort.                                                                  *)
AbortAssumesIdle(n) ==
    /\ stage[n] = "abort"
    /\ sw_abort' = (type = "HANTRO_ENCODER")
    /\ working' = FALSE
    /\ stage' = [stage EXCEPT ![n] = "aborting"]
    /\ UNCHANGED <<listVars, linkVars, doneVars, patched, sem, ddrVars, hw, irq,
                   bounds>>

AbortFlag(n) ==
    /\ stage[n] = "abort"
    /\ sw_abort' = (type = "HANTRO_ENCODER")
    /\ stage' = [stage EXCEPT ![n] = "aborting"]
    /\ UNCHANGED <<listVars, linkVars, doneVars, patched, sem, working, ddrVars,
                   hw, irq, bounds>>

wait_abort_rdy == ~working

(* The place of a high-priority buffer: before the first normal one that   *)
(* is not done.                                                            *)
InsertPosition ==
    LET waiting == {j \in DOMAIN list :
                        prio[list[j]] = "normal" /\ ~run_done[list[j]]}
    IN  IF waiting = {} THEN Len(list) + 1 ELSE Min(waiting)

AbortWake(n) ==
    /\ stage[n] = "aborting"
    /\ wait_abort_rdy
    /\ sw_abort' = FALSE
    /\ list' = InsertAt(list, InsertPosition, n)
    /\ stage' = [stage EXCEPT ![n] = "inserted"]
    /\ UNCHANGED <<type, prio, need_remove, linkVars, doneVars, patched, sem, working,
                   ddrVars, hw, irq, bounds>>

(* link_and_run_cmdbuf fills in where the buffer stores the registers.     *)
PatchAddresses(n) ==
    /\ stage[n] = "inserted"
    /\ patched' = [patched EXCEPT ![n] = TRUE]
    /\ stage' = [stage EXCEPT ![n] = "patched"]
    /\ UNCHANGED <<listVars, linkVars, doneVars, sem, working, sw_abort, ddrVars,
                   hw, irq, bounds>>

find_last_linked_cmdbuf(n) ==
    LET before == {j \in 1..(Position(n) - 1) : linked[list[j]]}
    IN  IF before = {} THEN 1 ELSE Max(before)

(* The locked end of link_and_run_cmdbuf, from the last linked buffer.     *)
vcmd_link_cmdbuf(k) ==
    /\ linked' = LinkedFrom(k, linked, run_done)
    /\ jmp' = JumpsFrom(k, run_done)
    /\ sw_rdy' = sw_rdy + Cardinality(Joined(k, linked, run_done))

LeaveSection(n) ==
    /\ sem' = None
    /\ stage' = [stage EXCEPT ![n] = "submitted"]
    /\ UNCHANGED <<listVars, doneVars, patched, sw_abort, ddrVars, irq, bounds>>

(* A plausible slip: the new ready count is not written to the register.   *)
LinkUnannounced(n) ==
    /\ stage[n] = "patched" /\ working
    /\ vcmd_link_cmdbuf(find_last_linked_cmdbuf(n))
    /\ UNCHANGED <<working, hw>>
    /\ LeaveSection(n)

LinkToRunning(n) ==
    /\ stage[n] = "patched" /\ working
    /\ vcmd_link_cmdbuf(find_last_linked_cmdbuf(n))
    /\ IF sw_rdy' = sw_rdy THEN UNCHANGED hw ELSE WriteReady(sw_rdy', jmp')
    /\ UNCHANGED working
    /\ LeaveSection(n)

LinkAndStart(n) ==
    /\ stage[n] = "patched" /\ ~working
    /\ vcmd_link_cmdbuf(find_last_linked_cmdbuf(n))
    /\ LET ready == {j \in find_last_linked_cmdbuf(n)..Len(list) :
                        ~run_done[list[j]]}
       IN  IF ready # {} /\ sw_rdy' # 0
           THEN vcmd_start(list[Min(ready)], sw_rdy')
           ELSE UNCHANGED <<working, hw>>
    /\ LeaveSection(n)

(* A wait ends when its condition holds.  That the thread sleeps until it  *)
(* is woken, on which queue and by whom, is in VcmdWaits.                  *)
Wait(n) ==
    /\ stage[n] = "submitted"
    /\ run_done[n]
    /\ stage' = [stage EXCEPT ![n] = "waited"]
    /\ UNCHANGED <<listVars, linkVars, doneVars, patched, sem, working, sw_abort,
                   ddrVars, hw, irq, bounds>>

ReleaseOf(n, candidates) ==
    /\ stage[n] = "waited" /\ n # KernelBuf /\ sem = None
    /\ need_remove' = [need_remove EXCEPT ![n] = TRUE]
    /\ LET gone == {list[j] : j \in {i \in candidates : need_remove'[list[i]]}}
       IN  /\ list' = Picked(list, {j \in DOMAIN list : list[j] \notin gone})
           /\ stage' = [m \in Bufs |-> IF m \in gone THEN "free"
                                       ELSE IF m = n THEN "released"
                                       ELSE stage[m]]
    /\ UNCHANGED <<type, prio, linkVars, doneVars, patched, sem, working,
                   sw_abort, ddrVars, hw, irq, bounds>>

(* A plausible slip: only the node itself is tried, not those released     *)
(* before it.                                                              *)
ReleaseAlone(n) == ReleaseOf(n, {Position(n)} \ {Len(list)})

(* release_cmdbuf marks its node and walks back to the head, freeing every *)
(* marked node that has a successor.                                       *)
release_cmdbuf(n) ==
    /\ stage[n] = "waited" /\ n # KernelBuf /\ sem = None
    /\ need_remove' = [need_remove EXCEPT ![n] = TRUE]
    /\ LET gone == {list[j] : j \in {i \in 1..Position(n) :
                                need_remove'[list[i]] /\ i # Len(list)}}
       IN  /\ list' = Picked(list, {j \in DOMAIN list : list[j] \notin gone})
           /\ stage' = [m \in Bufs |-> IF m \in gone THEN "free"
                                       ELSE IF m = n THEN "released"
                                       ELSE stage[m]]
    /\ UNCHANGED <<type, prio, linkVars, doneVars, patched, sem, working, sw_abort,
                   ddrVars, hw, irq, bounds>>

(* A signal ends a wait.  The LINK_RUN ioctl then still returns success,   *)
(* and RELEASE always does: the cmdbuf is lost, or never given back.       *)
SemInterrupted(n) ==
    /\ stage[n] \in {"reserved", "waited"} /\ n # KernelBuf
    /\ sem # None /\ signals < MaxSignals
    /\ signals' = signals + 1
    /\ stage' = [stage EXCEPT ![n] = IF @ = "reserved" THEN "lost" ELSE "leaked"]
    /\ UNCHANGED <<listVars, linkVars, doneVars, patched, sem, working, sw_abort,
                   ddrVars, hw, irq, cursor, submits, faults>>

AbortInterrupted(n) ==
    /\ stage[n] = "aborting" /\ ~wait_abort_rdy
    /\ signals < MaxSignals
    /\ signals' = signals + 1
    /\ stage' = [stage EXCEPT ![n] = "signalled"]
    /\ UNCHANGED <<listVars, linkVars, doneVars, patched, sem, working, sw_abort,
                   ddrVars, hw, irq, cursor, submits, faults>>

AbortGivenUp(n) ==
    /\ stage[n] = "signalled"
    /\ sw_abort' = FALSE
    /\ sem' = None
    /\ stage' = [stage EXCEPT ![n] = "lost"]
    /\ UNCHANGED <<listVars, linkVars, doneVars, patched, working, ddrVars, hw,
                   irq, bounds>>

-----------------------------------------------------------------------------
(* Hardware.                                                               *)
HwFinish ==
    /\ hw.phase = "exec"
    /\ ran' = ran \cup {hw.cur}
    /\ IF patched[hw.cur] THEN ddr_id' = hw.cur /\ ddr_exe' = hw.exe
                          ELSE UNCHANGED <<ddr_id, ddr_exe>>
    /\ \E raised \in {{"JMP"}} \cup (IF hw.cur \in Silent THEN {{}} ELSE {}) :
        irq' = irq \cup raised \cup (IF hw.abort THEN {"ABORT"} ELSE {})
    /\ hw' = IF hw.abort
             THEN [hw EXCEPT !.phase = "off", !.exe = @ + 1, !.abort = FALSE]
             ELSE IF hw.exe + 1 < hw.rdy /\ jmp[hw.cur] # None
             THEN [hw EXCEPT !.cur = jmp[hw.cur], !.exe = @ + 1]
             ELSE [hw EXCEPT !.phase = "pend", !.exe = @ + 1]
    /\ UNCHANGED <<listVars, stage, linkVars, doneVars, patched, sem, working,
                   sw_abort, bounds>>

HwAbort ==
    /\ hw.phase = "pend" /\ hw.abort
    /\ hw' = [hw EXCEPT !.phase = "off", !.abort = FALSE]
    /\ irq' = irq \cup {"ABORT"}
    /\ UNCHANGED <<listVars, stage, linkVars, doneVars, patched, sem, working,
                   sw_abort, ddrVars, bounds>>

HwFault(kind) ==
    /\ hw.phase = "exec" /\ faults < MaxFaults
    /\ hw' = [hw EXCEPT !.phase = "off", !.abort = FALSE]
    /\ irq' = irq \cup {kind}
    /\ faults' = faults + 1
    /\ UNCHANGED <<listVars, stage, linkVars, doneVars, patched, sem, working,
                   sw_abort, ddrVars, cursor, submits, signals>>

-----------------------------------------------------------------------------
(* hantrovcmd_isr, under the core's spinlock.                              *)

(* A plausible slip: only the buffer that interrupted is done.             *)
CompletedAlone(n) == IF run_done[n] THEN {} ELSE {n}

(* The buffer and those before it, back to the first that is done.         *)
Completed(n) ==
    IF run_done[n] THEN {}
    ELSE IF ~InList(n) THEN {n}
    ELSE {list[j] : j \in {i \in 1..Position(n) :
                              \A m \in i..Position(n) : ~run_done[list[m]]}}

MarkDone(S, failed, code) ==
    /\ run_done' = [n \in Bufs |-> run_done[n] \/ n \in S]
    /\ status' = [n \in Bufs |-> IF n \in failed THEN code
                                 ELSE IF n \in S THEN "OK" ELSE status[n]]

Stop(k) ==
    /\ linked' = DelinkedFrom(k, linked)
    /\ sw_rdy' = 0
    /\ working' = FALSE
    /\ UNCHANGED <<jmp, hw>>

Restart(k) ==
    LET lk == DelinkedFrom(k, linked)
        joined == Joined(k, lk, run_done')
    IN  /\ linked' = LinkedFrom(k, lk, run_done')
        /\ jmp' = JumpsFrom(k, run_done')
        /\ sw_rdy' = Cardinality(joined)
        /\ IF joined # {} THEN vcmd_start(list[k], Cardinality(joined))
           ELSE working' = FALSE /\ UNCHANGED hw

IsrCommon ==
    /\ irq' = {}
    /\ UNCHANGED <<listVars, stage, patched, sem, sw_abort, ddrVars, bounds>>

InTable(n) == stage[n] # "free"

(* The id of a JMP interrupt is what the last buffer stored in memory.     *)
IsrJmp ==
    /\ irq = {"JMP"}
    /\ MarkDone(IF InTable(ddr_id) THEN Completed(ddr_id) ELSE {}, {}, "OK")
    /\ UNCHANGED <<linkVars, working, hw>>
    /\ IsrCommon

(* All that is not done runs again.                                        *)
IsrReset ==
    /\ "RESET" \in irq
    /\ UNCHANGED doneVars
    /\ LET undone == {j \in DOMAIN list : ~run_done[list[j]]}
       IN  Restart(IF undone = {} THEN Len(list) + 1 ELSE Min(undone))
    /\ IsrCommon

(* The other interrupts take the id from the register: hw.cur.             *)
Current == Position(hw.cur)

(* A plausible slip: the queue is started again with the buffer itself,    *)
(* which has run.                                                          *)
AtStop == IF InList(hw.cur) THEN Current ELSE Len(list) + 1

(* The place after it.  A node in no list (its buffer was released and the *)
(* id reserved again) has no next node.                                    *)
Following == IF InList(hw.cur) THEN Current + 1 ELSE Len(list) + 1

NotFound ==
    /\ working' = FALSE
    /\ UNCHANGED <<linkVars, doneVars, hw>>

IsrAbort ==
    /\ "ABORT" \in irq
    /\ IF InTable(hw.cur)
       THEN /\ MarkDone(Completed(hw.cur), {}, "OK")
            /\ IF type = "HANTRO_ENCODER" /\ ~sw_abort THEN Restart(Following)
               ELSE Stop(Following)
       ELSE NotFound
    /\ IsrCommon

(* A plausible slip: the rest of the queue is not started again.           *)
ErrorStops ==
    /\ \E code \in irq \cap {"BUSERR", "CMDERR"} :
        IF InTable(hw.cur)
        THEN /\ MarkDone(Completed(hw.cur), {hw.cur}, code)
             /\ Stop(Following)
        ELSE NotFound
    /\ IsrCommon

IsrError ==
    /\ \E code \in irq \cap {"BUSERR", "CMDERR"} :
        IF InTable(hw.cur)
        THEN /\ MarkDone(Completed(hw.cur), {hw.cur}, code)
             /\ Restart(Following)
        ELSE NotFound
    /\ IsrCommon

(* A plausible slip: the buffer that timed out is reported done.           *)
TimeoutReports ==
    /\ "TIMEOUT" \in irq
    /\ IF InTable(hw.cur)
       THEN MarkDone(Completed(hw.cur), {}, "OK") /\ Restart(Current)
       ELSE NotFound
    /\ IsrCommon

(* A timeout spares the current buffer: the core is reset and runs it      *)
(* again.                                                                  *)
IsrTimeout ==
    /\ "TIMEOUT" \in irq
    /\ IF InTable(hw.cur)
       THEN /\ MarkDone(IF Current = 1 THEN {} ELSE Completed(list[Current - 1]),
                        {}, "OK")
            /\ Restart(Current)
       ELSE NotFound
    /\ IsrCommon

-----------------------------------------------------------------------------
Submission(n) ==
    \/ AbortTrigger(n) \/ AbortFlag(n) \/ AbortWake(n) \/ PatchAddresses(n)
    \/ LinkToRunning(n) \/ LinkAndStart(n)

Client(n) ==
    \/ SelectTail(n) \/ SelectBusy(n) \/ Submission(n)
    \/ Wait(n) \/ release_cmdbuf(n)
    \/ SemInterrupted(n) \/ AbortInterrupted(n) \/ AbortGivenUp(n)

Hardware == HwFinish \/ HwAbort \/ \E kind \in Faults : HwFault(kind)

Interrupt == IsrJmp \/ IsrReset \/ IsrAbort \/ IsrError \/ IsrTimeout

(* What happens without signals and errors, and what they add.             *)
CalmNext ==
    \/ \E n \in Ids, p \in Prios : Reserve(n, p)
    \/ \E n \in Ids :
          \/ SelectTail(n) \/ SelectBusy(n) \/ Submission(n)
          \/ Wait(n) \/ release_cmdbuf(n)
    \/ HwFinish \/ HwAbort
    \/ IsrJmp \/ IsrAbort

Disturbance ==
    \/ \E n \in Ids : SemInterrupted(n) \/ AbortInterrupted(n) \/ AbortGivenUp(n)
    \/ \E kind \in Faults : HwFault(kind)
    \/ IsrReset \/ IsrError \/ IsrTimeout

Next == CalmNext \/ Disturbance

Spec == Init /\ [][Next]_vars

-----------------------------------------------------------------------------
(* Completion is reported in list order: the done buffers of the list are  *)
(* a prefix of it, wherever high-priority buffers were inserted.           *)
DonePrefix ==
    \A i, j \in DOMAIN list : i < j /\ run_done[list[j]] => run_done[list[i]]

(* A client is told OK only of a buffer the hardware has finished.         *)
OkMeansRan == \A n \in Bufs : run_done[n] /\ status[n] = "OK" => n \in ran

(* What a walk back from the interrupting buffer to the first done one     *)
(* (2494) rests on, and what it reports: reports come in list order, and   *)
(* OK is reported of what has run, through aborts, errors and suspensions. *)
ReportedInOrder == DonePrefix /\ OkMeansRan

(* Whenever the handler will look up a cmdbuf id, from memory or from the  *)
(* register, the node is still in global_cmdbuf_node[]: no release frees a *)
(* buffer the hardware is at.                                              *)
InterruptFindsNode ==
    irq # {} => InTable(IF irq = {"JMP"} THEN ddr_id ELSE hw.cur)

(* The driver takes a core for idle, and may start it, only when the       *)
(* hardware has stopped and has nothing more to say.                       *)
IdleMeansStopped == ~working => hw.phase = "off" /\ irq = {}

(* The hardware's ready count, less what it has executed, is the number of *)
(* linked buffers it has not passed: it neither runs past the chain nor    *)
(* stops short of its end.  And the chain is the list: each of those is    *)
(* where the JMP of its predecessor leads.                                 *)
Ahead ==
    {j \in DOMAIN list : linked[list[j]] /\
        \/ j > Position(hw.cur)
        \/ j = Position(hw.cur) /\ hw.phase = "exec"}

ChainMatchesCount ==
    hw.phase # "off" =>
        /\ InList(hw.cur)
        /\ sw_rdy = hw.rdy
        /\ hw.rdy - hw.exe = Cardinality(Ahead)
        /\ \A j \in Ahead : j > Position(hw.cur) => jmp[list[j - 1]] = list[j]

(* Between submissions nothing is left behind: every buffer of the list    *)
(* that is not done is linked, on a core that is working.                  *)
NoStrandedWork ==
    sem = None =>
        \A j \in DOMAIN list : ~run_done[list[j]] => working /\ linked[list[j]]

(* Without signals and errors all three hold throughout: the list the      *)
(* driver keeps and the chain the hardware walks stay one queue, that runs *)
(* to its end.                                                             *)
ChainIsQueue == InterruptFindsNode /\ ChainMatchesCount /\ NoStrandedWork

(* release_cmdbuf cannot free the last node of the list; the next release  *)
(* behind it does, so at most one released buffer keeps its slot.          *)
OneReleasedNode ==
    Cardinality({j \in DOMAIN list : need_remove[list[j]]}) <= 1

(* After a JMP interrupt every buffer that has run is done, the silent     *)
(* ones before the one that interrupted included.                          *)
JmpReportsAll ==
    [][IsrJmp => \A j \in DOMAIN list : list[j] \in ran => run_done'[list[j]]]_vars

-----------------------------------------------------------------------------
(* Scheduling: interrupts are delivered, the hardware runs, and a thread   *)
(* inside link_and_run_cmdbuf or woken from a wait goes on.  The semaphore *)
(* is first come first served.                                             *)
Fairness ==
    /\ WF_vars(Interrupt) /\ WF_vars(HwFinish) /\ WF_vars(HwAbort)
    /\ \A n \in Ids :
        /\ SF_vars(SelectTail(n) \/ SelectBusy(n))
        /\ WF_vars(Submission(n)) /\ WF_vars(Wait(n))

(* Without signals and errors (MaxSignals = 0, Faults = {}) Next has no    *)
(* step that CalmNext has not.                                             *)
FairSpec == Init /\ [][CalmNext]_vars /\ Fairness

(* A submitted buffer completes, and the condition its waiter tests comes  *)
(* true.  (On an encoder the wait of HighPriorityInserted can be for ever.)*)
Completes ==
    \A n \in Ids \ Silent :
        stage[n] = "reserved" /\ type = "HANTRO_DECODER" ~> stage[n] = "waited"

(* The abort interrupt wakes wait_abort_queue "to let high priority cmdbuf *)
(* be inserted": a thread that waits for the abort gets its buffer in.     *)
HighPriorityInserted ==
    \A n \in Ids : stage[n] = "aborting" ~> stage[n] # "aborting"
=============================================================================
