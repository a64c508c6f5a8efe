------------------------------ MODULE EncCores ------------------------------
(***************************************************************************)
(* The encoder cores of a slice when no vcmd stands before them            *)
(* (src/hantro/hx280enc.c): ReserveEncoder, ReleaseEncoder, the start and  *)
(* the wait for its end, the interrupt handler, and hantroenc_release.     *)
(*                                                                         *)
(* A request may be for several cores.  It takes them one by one, in one   *)
(* critical section each, and keeps what it has while it sleeps for the    *)
(* rest.  No semaphore counts the cores (resource_shared is 0); that of    *)
(* the first core, core_suspend_sem, is down while a frame is encoded.     *)
(***************************************************************************)
EXTENDS Integers, FiniteSets

CONSTANTS
    NumCores,   \* the slice's encoder cores
    Procs,      \* the processes
    Threads,    \* the threads that make calls
    ProcOf,     \* the process of each
    Amounts,    \* how many cores a request may ask for
    None,       \* no process, no thread
    MaxSignals, \* bound: calls that a signal ends
    MaxFaults   \* bound: runs that end without a frame

Cores == 0..(NumCores - 1)
Actors == Threads \cup Procs    \* a process acts when it closes its file

ASSUME CoresAssumption ==
    /\ NumCores \in Nat \ {0}
    /\ IsFiniteSet(Threads) /\ Threads \cap Procs = {}
    /\ ProcOf \in [Threads -> Procs]
    /\ Amounts \subseteq 1..NumCores
    /\ None \notin Actors
    /\ MaxSignals \in Nat /\ MaxFaults \in Nat

VARIABLES
    pid,         \* the process of a core with is_reserved, otherwise None
    irq_received,\* of each core: None, or the thread whose run set it
    run,         \* the thread whose run is in the core
    raised,      \* its status register: the thread whose run has ended
    ready,       \* ... and whether with FRAME_READY
    isr,         \* the handler has seen the core reserved and let go the lock
    suspend_sem, \* core_suspend_sem of the first core
    pc, want, got,   \* a call's progress, the cores it still needs, and has
    scan, awake,     \* the next core of its look; wait_event: look again
    pending,     \* a thread has started a run and not been told of its end
    leaked,      \* cores that interrupted requests have left reserved
    lostPermits, \* ends of runs for which suspend_sem was not raised
    signals, faults

coreVars == <<pid, irq_received>>
hwVars == <<run, raised, ready>>
lookVars == <<want, scan, awake>>
bounds == <<signals, faults>>
vars == <<coreVars, hwVars, isr, suspend_sem, pc, lookVars, got, pending,
          leaked, lostPermits, bounds>>

ThreadPhases == {"idle", "looking", "owner", "wait", "releasing", "gone"}
ProcPhases == {"open", "closing", "closed"}

TypeOK ==
    /\ pid \in [Cores -> Procs \cup {None}]
    /\ irq_received \in [Cores -> Threads \cup {None}]
    /\ run \in [Cores -> Threads \cup {None}]
    /\ raised \in [Cores -> Threads \cup {None}]
    /\ ready \in [Cores -> BOOLEAN]
    /\ isr \in [Cores -> BOOLEAN]
    /\ suspend_sem \in {0, 1}
    /\ pc \in [Actors -> ThreadPhases \cup ProcPhases]
    /\ want \in [Threads -> 0..NumCores]
    /\ got \in [Threads -> SUBSET Cores]
    /\ scan \in [Threads -> 0..NumCores]
    /\ awake \in [Threads -> BOOLEAN]
    /\ pending \in [Threads -> BOOLEAN]
    /\ leaked \in SUBSET Cores
    /\ lostPermits \in {0, 1}
    /\ signals \in 0..MaxSignals
    /\ faults \in 0..MaxFaults

Init ==
    /\ pid = [c \in Cores |-> None]
    /\ irq_received = [c \in Cores |-> None]
    /\ run = [c \in Cores |-> None]
    /\ raised = [c \in Cores |-> None]
    /\ ready = [c \in Cores |-> FALSE]
    /\ isr = [c \in Cores |-> FALSE]
    /\ suspend_sem = 1
    /\ pc = [a \in Actors |-> IF a \in Procs THEN "open" ELSE "idle"]
    /\ want = [t \in Threads |-> 0]
    /\ got = [t \in Threads |-> {}]
    /\ scan = [t \in Threads |-> 0]
    /\ awake = [t \in Threads |-> FALSE]
    /\ pending = [t \in Threads |-> FALSE]
    /\ leaked = {}
    /\ lostPermits = 0
    /\ signals = 0
    /\ faults = 0

Free(c) == pid[c] = None

(* The core whose end a call waits for: the lowest of its mask.            *)
Lowest(t) == CHOOSE c \in got[t] : \A d \in got[t] : c <= d

(* The locals of ReserveEncoder are gone when it returns.                  *)
LeaveLook(t) ==
    /\ want' = [want EXCEPT ![t] = 0]
    /\ scan' = [scan EXCEPT ![t] = 0]
    /\ awake' = [awake EXCEPT ![t] = FALSE]

-----------------------------------------------------------------------------
(* Reservation.  Nothing is waited for before the first look.              *)
ReserveEncoder(t, n) ==
    /\ pc[t] = "idle"
    /\ pc' = [pc EXCEPT ![t] = "looking"]
    /\ want' = [want EXCEPT ![t] = n]
    /\ awake' = [awake EXCEPT ![t] = TRUE]
    /\ UNCHANGED <<coreVars, hwVars, isr, suspend_sem, scan, got, pending,
                   leaked, lostPermits, bounds>>

(* A plausible slip: is_reserved is set without having been tested.        *)
TakeUntested(t) == pc[t] = "looking" /\ scan[t] < NumCores
CanTake(t) == pc[t] = "looking" /\ scan[t] < NumCores /\ Free(scan[t])

(* CheckCoreOccupation takes a core; the last one ends the call.           *)
TakeCore(t) ==
    /\ CanTake(t)
    /\ pid' = [pid EXCEPT ![scan[t]] = ProcOf[t]]
    /\ got' = [got EXCEPT ![t] = @ \cup {scan[t]}]
    /\ IF want[t] = 1
       THEN /\ pc' = [pc EXCEPT ![t] = "owner"]
            /\ LeaveLook(t)
       ELSE /\ want' = [want EXCEPT ![t] = @ - 1]
            /\ scan' = [scan EXCEPT ![t] = @ + 1]
            /\ UNCHANGED <<pc, awake>>
    /\ UNCHANGED <<irq_received, hwVars, isr, suspend_sem, pending, leaked,
                   lostPermits, bounds>>

NextCore(t) ==
    /\ pc[t] = "looking" /\ scan[t] < NumCores /\ ~CanTake(t)
    /\ scan' = [scan EXCEPT ![t] = @ + 1]
    /\ UNCHANGED <<coreVars, hwVars, isr, suspend_sem, pc, want, awake, got,
                   pending, leaked, lostPermits, bounds>>

(* A plausible slip: the thread goes on the queue after it has looked, and *)
(* what was woken meanwhile is forgotten.                                  *)
LookThenQueue(t) ==
    /\ pc[t] = "looking" /\ scan[t] = NumCores
    /\ awake' = [awake EXCEPT ![t] = FALSE]
    /\ UNCHANGED <<coreVars, hwVars, isr, suspend_sem, pc, want, scan, got,
                   pending, leaked, lostPermits, bounds>>

(* wait_event_interruptible is on the queue before it looks again.         *)
LookAgain(t) ==
    /\ pc[t] = "looking" /\ scan[t] = NumCores /\ awake[t]
    /\ awake' = [awake EXCEPT ![t] = FALSE]
    /\ scan' = [scan EXCEPT ![t] = 0]
    /\ UNCHANGED <<coreVars, hwVars, isr, suspend_sem, pc, want, got, pending,
                   leaked, lostPermits, bounds>>

(* A signal ends the request: what it has taken stays reserved, and nobody *)
(* knows of it.                                                            *)
LookInterrupted(t) ==
    /\ pc[t] = "looking" /\ scan[t] = NumCores /\ signals < MaxSignals
    /\ signals' = signals + 1
    /\ pc' = [pc EXCEPT ![t] = "idle"]
    /\ leaked' = leaked \cup got[t]
    /\ got' = [got EXCEPT ![t] = {}]
    /\ LeaveLook(t)
    /\ UNCHANGED <<coreVars, hwVars, isr, suspend_sem, pending, lostPermits, faults>>

-----------------------------------------------------------------------------
(* A client starts the lowest of its cores: the first one by               *)
(* HANTRO_IOCG_ENABLE_CORE, which waits for the semaphore, another through *)
(* its mapped registers.                                                   *)
MayStart(t) == pc[t] = "owner" /\ ~pending[t] /\ run[Lowest(t)] = None

StartRun(t) ==
    /\ run' = [run EXCEPT ![Lowest(t)] = t]
    /\ pending' = [pending EXCEPT ![t] = TRUE]
    /\ UNCHANGED <<coreVars, raised, ready, isr, pc, lookVars, got, leaked,
                   lostPermits, bounds>>

EnableCore(t) ==
    /\ MayStart(t) /\ Lowest(t) = 0 /\ suspend_sem > 0
    /\ suspend_sem' = suspend_sem - 1
    /\ StartRun(t)

StartMapped(t) ==
    /\ MayStart(t) /\ Lowest(t) # 0
    /\ StartRun(t) /\ UNCHANGED suspend_sem

HwEnds(c, frame) ==
    /\ run[c] # None
    /\ run' = [run EXCEPT ![c] = None]
    /\ raised' = [raised EXCEPT ![c] = run[c]]
    /\ ready' = [ready EXCEPT ![c] = frame]
    /\ UNCHANGED <<coreVars, isr, suspend_sem, pc, lookVars, got, pending,
                   leaked, signals>>

HwFinish(c) == HwEnds(c, TRUE) /\ UNCHANGED <<lostPermits, faults>>

(* An error or a time-out of the hardware: the handler will not raise the  *)
(* semaphore for it.                                                       *)
HwFault(c) ==
    /\ faults < MaxFaults
    /\ faults' = faults + 1
    /\ lostPermits' = IF c = 0 THEN lostPermits + 1 ELSE lostPermits
    /\ HwEnds(c, FALSE)

(* hantroenc_isr, in two critical sections.  A core that is free has its   *)
(* interrupt cleared and forgotten.                                        *)
IgnoreIrq(c) ==
    /\ raised[c] # None /\ ~isr[c] /\ Free(c)
    /\ raised' = [raised EXCEPT ![c] = None]
    /\ ready' = [ready EXCEPT ![c] = FALSE]
    /\ lostPermits' = IF c = 0 /\ ready[c] THEN lostPermits + 1 ELSE lostPermits
    /\ UNCHANGED <<coreVars, run, isr, suspend_sem, pc, lookVars, got,
                   pending, leaked, bounds>>

SeeReserved(c) ==
    /\ raised[c] # None /\ ~isr[c] /\ ~Free(c)
    /\ isr' = [isr EXCEPT ![c] = TRUE]
    /\ UNCHANGED <<coreVars, hwVars, suspend_sem, pc, lookVars, got, pending,
                   leaked, lostPermits, bounds>>

(* A plausible slip: the semaphore is raised for every interrupt.          *)
UpAlways(c) == IF c = 0 THEN suspend_sem + 1 ELSE suspend_sem
UpIfReady(c) == IF c = 0 /\ ready[c] THEN suspend_sem + 1 ELSE suspend_sem

ReportIrq(c) ==
    /\ isr[c]
    /\ irq_received' = [irq_received EXCEPT ![c] = raised[c]]
    /\ raised' = [raised EXCEPT ![c] = None]
    /\ ready' = [ready EXCEPT ![c] = FALSE]
    /\ suspend_sem' = UpIfReady(c)
    /\ isr' = [isr EXCEPT ![c] = FALSE]
    /\ UNCHANGED <<pid, run, pc, lookVars, got, pending, leaked,
                   lostPermits, bounds>>

WaitEncReady(t) ==
    /\ pc[t] = "owner"
    /\ pc' = [pc EXCEPT ![t] = "wait"]
    /\ UNCHANGED <<coreVars, hwVars, isr, suspend_sem, lookVars, got, pending,
                   leaked, lostPermits, bounds>>

(* A plausible slip: the flags of all the cores are reset.                 *)
ResetAllIrqs(c) == [d \in Cores |-> None]
ResetIrq(c) == [irq_received EXCEPT ![c] = None]

CheckEncIrq(t) ==
    /\ pc[t] = "wait" /\ irq_received[Lowest(t)] # None
    /\ irq_received' = ResetIrq(Lowest(t))
    /\ pending' = [pending EXCEPT ![t] = FALSE]
    /\ pc' = [pc EXCEPT ![t] = "owner"]
    /\ UNCHANGED <<pid, hwVars, isr, suspend_sem, lookVars, got, leaked,
                   lostPermits, bounds>>

-----------------------------------------------------------------------------
(* ReleaseEncoder, called for or, when a signal ends its wait, on behalf   *)
(* of the client.  The cores are not stopped.                              *)
ReleaseEncoder(t) ==
    /\ pc[t] = "owner"
    /\ pc' = [pc EXCEPT ![t] = "releasing"]
    /\ pending' = [pending EXCEPT ![t] = FALSE]
    /\ UNCHANGED <<coreVars, hwVars, isr, suspend_sem, lookVars, got, leaked,
                   lostPermits, bounds>>

WaitInterrupted(t) ==
    /\ pc[t] = "wait" /\ signals < MaxSignals
    /\ signals' = signals + 1
    /\ pc' = [pc EXCEPT ![t] = "releasing"]
    /\ pending' = [pending EXCEPT ![t] = FALSE]
    /\ UNCHANGED <<coreVars, hwVars, isr, suspend_sem, lookVars, got, leaked,
                   lostPermits, faults>>

(* A core that is not reserved is left alone.                              *)
FreeCore(c) ==
    IF Free(c) THEN UNCHANGED coreVars
    ELSE /\ pid' = [pid EXCEPT ![c] = None]
         /\ irq_received' = [irq_received EXCEPT ![c] = None]

ReleaseCore(t) ==
    /\ pc[t] = "releasing" /\ got[t] # {}
    /\ FreeCore(Lowest(t))
    /\ got' = [got EXCEPT ![t] = @ \ {Lowest(t)}]
    /\ UNCHANGED <<hwVars, isr, suspend_sem, pc, lookVars, pending, leaked,
                   lostPermits, bounds>>

WakeQueue == awake' = [t \in Threads |-> awake[t] \/ pc[t] = "looking"]

ReleaseEnds(t) ==
    /\ pc[t] = "releasing" /\ got[t] = {}
    /\ WakeQueue
    /\ pc' = [pc EXCEPT ![t] = "idle"]
    /\ UNCHANGED <<coreVars, hwVars, isr, suspend_sem, want, scan, got, pending,
                   leaked, lostPermits, bounds>>

-----------------------------------------------------------------------------
(* hantroenc_release, at the end of a process: its cores are known by its  *)
(* tgid.                                                                   *)
CloseBegin(p) ==
    LET users == {t \in Threads : ProcOf[t] = p}
    IN  /\ pc[p] = "open" /\ \A t \in users : pc[t] \in {"idle", "owner"}
        /\ pc' = [a \in Actors |-> IF a = p THEN "closing"
                                   ELSE IF a \in users THEN "gone" ELSE pc[a]]
        /\ got' = [t \in Threads |-> IF t \in users THEN {} ELSE got[t]]
        /\ pending' = [t \in Threads |-> t \notin users /\ pending[t]]
        /\ UNCHANGED <<coreVars, hwVars, isr, suspend_sem, lookVars, leaked,
                       lostPermits, bounds>>

(* A plausible slip: the core that the close looks at is freed, whoever's  *)
(* it is.                                                                  *)
CloseAnyCore(p) ==
    /\ pc[p] = "closing"
    /\ \E c \in Cores : ~Free(c) /\ FreeCore(c) /\ leaked' = leaked \ {c}
    /\ UNCHANGED <<hwVars, isr, suspend_sem, pc, lookVars, got, pending,
                   lostPermits, bounds>>

CloseCore(p) ==
    /\ pc[p] = "closing"
    /\ \E c \in Cores :
        /\ pid[c] = p /\ \A d \in Cores : pid[d] = p => c <= d
        /\ FreeCore(c) /\ leaked' = leaked \ {c}
    /\ UNCHANGED <<hwVars, isr, suspend_sem, pc, lookVars, got, pending,
                   lostPermits, bounds>>

CloseEnd(p) ==
    /\ pc[p] = "closing" /\ \A c \in Cores : pid[c] # p
    /\ WakeQueue
    /\ pc' = [pc EXCEPT ![p] = "closed"]
    /\ UNCHANGED <<coreVars, hwVars, isr, suspend_sem, want, scan, got, pending,
                   leaked, lostPermits, bounds>>

-----------------------------------------------------------------------------
Handler(c) == IgnoreIrq(c) \/ SeeReserved(c) \/ ReportIrq(c)

Next ==
    \/ \E t \in Threads :
        \/ \E n \in Amounts : ReserveEncoder(t, n)
        \/ TakeCore(t) \/ NextCore(t) \/ LookAgain(t) \/ LookInterrupted(t)
        \/ EnableCore(t) \/ StartMapped(t)
        \/ WaitEncReady(t) \/ CheckEncIrq(t) \/ WaitInterrupted(t)
        \/ ReleaseEncoder(t) \/ ReleaseCore(t) \/ ReleaseEnds(t)
    \/ \E c \in Cores : HwFinish(c) \/ HwFault(c) \/ Handler(c)
    \/ \E p \in Procs : CloseBegin(p) \/ CloseCore(p) \/ CloseEnd(p)

Spec == Init /\ [][Next]_vars

-----------------------------------------------------------------------------
(* A core in a request's hands is reserved for its process, and in nobody  *)
(* else's hands, nor among those that interrupted requests have left.      *)
OneHolder ==
    \A t \in Threads : \A c \in got[t] :
        /\ pid[c] = ProcOf[t] /\ c \notin leaked
        /\ \A u \in Threads \ {t} : c \notin got[u]

(* A request leaves a core behind in its look, or sleeps on enc_hw_queue   *)
(* beside it, only if the core is reserved, or it will look again, or the  *)
(* release that freed the core is still to wake the queue.                 *)
NoMissedWake ==
    \A t \in Threads : pc[t] = "looking" /\ ~awake[t] =>
        \/ \A c \in Cores : c < scan[t] => ~Free(c)
        \/ \E a \in Actors : pc[a] \in {"releasing", "closing"}

(* The end of a run is not lost before the thread that started it has been *)
(* told: the core runs it, shows it, or has it in irq_received.            *)
CompletionKept ==
    \A t \in Threads : pending[t] =>
        t \in {run[Lowest(t)], raised[Lowest(t)], irq_received[Lowest(t)]}

(* From one holder to the next a core passes with neither the core, nor    *)
(* its wake-up, nor the end of its run lost, though a request takes its    *)
(* cores one by one and the handler lets go the lock halfway.              *)
HandoverSafe == OneHolder /\ NoMissedWake /\ CompletionKept

(* core_suspend_sem is one permit: it is there, or a frame is being        *)
(* encoded, or its interrupt is not yet handled, or it is lost for good to *)
(* a run that failed or ended after its core was released.                 *)
SuspendPermit ==
    suspend_sem + lostPermits
        + (IF run[0] # None THEN 1 ELSE 0)
        + (IF raised[0] # None /\ ready[0] THEN 1 ELSE 0) = 1

=============================================================================
