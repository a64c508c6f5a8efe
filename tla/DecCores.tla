------------------------------ MODULE DecCores ------------------------------
(***************************************************************************)
(* The decoder cores of a slice when no vcmd stands before them            *)
(* (src/hantro/hantrodec.c): ReserveDecoder, ReleaseDecoder, the interrupt *)
(* handler, the waits for a run to end, and hantrodec_release.             *)
(*                                                                         *)
(* A reservation takes a permit of dec_core_sem and then looks for a core  *)
(* of its mask, one core per critical section, inside a                    *)
(* wait_event_interruptible: a scan that has found nothing sleeps until a  *)
(* release wakes hw_queue.  The permit is for any core, the mask need not  *)
(* be.                                                                     *)
(***************************************************************************)
EXTENDS Integers, FiniteSets

CONSTANTS
    NumCores,   \* deccore_num
    Files,      \* the open files
    Threads,    \* the threads that make calls
    FileOf,     \* the file of each
    MasksOf,    \* the core masks that the reservations of each ask for
    None,       \* dec_owner == NULL, no bit in dec_irq
    MaxSignals  \* bound: signals that end a reservation

Cores == 0..(NumCores - 1)
Actors == Threads \cup Files    \* a file acts when it is closed

ASSUME CoresAssumption ==
    /\ NumCores \in Nat \ {0}
    /\ IsFiniteSet(Threads) /\ IsFiniteSet(Files) /\ Threads \cap Files = {}
    /\ FileOf \in [Threads -> Files]
    /\ MasksOf \in [Threads -> SUBSET SUBSET Cores]
    /\ None \notin Actors
    /\ MaxSignals \in Nat

VARIABLES
    sem,      \* dec_core_sem
    owner,    \* dec_owner of each core
    dec_irq,  \* the bit of each core: None, or the thread whose run set it
    hw,       \* each core: "idle", "running", "irq" (an interrupt is pending)
    job,      \* the thread whose run is in the core
    pc,       \* where each thread, and each close, is
    mask,     \* core_mask of a thread's reservation
    scan,     \* the core that the condition of its wait looks at next
    awake,    \* its wait_event: the condition is to be evaluated again
    core,     \* the core it has been given
    pending,  \* it has started a run and not been told of its end
    lost      \* permits lost to interrupted reservations

coreVars == <<owner, dec_irq, hw, job>>
lookVars == <<mask, scan, awake>>
vars == <<sem, coreVars, pc, lookVars, core, pending, lost>>

ThreadPhases == {"idle", "looking", "owner", "wait", "corewait", "up", "wake", "gone"}
FilePhases == {"open", "closing", "up", "wake", "closed"}

TypeOK ==
    /\ sem \in 0..NumCores
    /\ owner \in [Cores -> Files \cup {None}]
    /\ dec_irq \in [Cores -> Threads \cup {None}]
    /\ hw \in [Cores -> {"idle", "running", "irq"}]
    /\ job \in [Cores -> Threads \cup {None}]
    /\ pc \in [Actors -> ThreadPhases \cup FilePhases]
    /\ \A t \in Threads : pc[t] \in ThreadPhases
    /\ \A f \in Files : pc[f] \in FilePhases
    /\ mask \in [Threads -> SUBSET Cores]
    /\ scan \in [Threads -> 0..NumCores]
    /\ awake \in [Threads -> BOOLEAN]
    /\ core \in [Threads -> Cores \cup {None}]
    /\ pending \in [Threads -> BOOLEAN]
    /\ lost \in 0..MaxSignals

Init ==
    /\ sem = NumCores
    /\ owner = [c \in Cores |-> None]
    /\ dec_irq = [c \in Cores |-> None]
    /\ hw = [c \in Cores |-> "idle"]
    /\ job = [c \in Cores |-> None]
    /\ pc = [a \in Actors |-> IF a \in Files THEN "open" ELSE "idle"]
    /\ mask = [t \in Threads |-> {}]
    /\ scan = [t \in Threads |-> 0]
    /\ awake = [t \in Threads |-> FALSE]
    /\ core = [t \in Threads |-> None]
    /\ pending = [t \in Threads |-> FALSE]
    /\ lost = 0

Holding(t) == pc[t] \in {"owner", "wait", "corewait"}

(* The locals of a call are gone when it returns.                          *)
LeaveLook(t) ==
    /\ mask' = [mask EXCEPT ![t] = {}]
    /\ scan' = [scan EXCEPT ![t] = 0]
    /\ awake' = [awake EXCEPT ![t] = FALSE]

-----------------------------------------------------------------------------
(* Reservation.  down_interruptible, and the first look, which comes before *)
(* the thread is on the wait queue and is repeated when it fails.           *)
ReserveDecoder(t, m) ==
    /\ pc[t] = "idle" /\ sem > 0
    /\ sem' = sem - 1
    /\ pc' = [pc EXCEPT ![t] = "looking"]
    /\ mask' = [mask EXCEPT ![t] = m]
    /\ scan' = [scan EXCEPT ![t] = 0]
    /\ awake' = [awake EXCEPT ![t] = TRUE]
    /\ UNCHANGED <<coreVars, core, pending, lost>>

IsValideCore(c, m) == c \in m

(* A plausible slip: a core is handed out while another file owns it.      *)
FreeOrNot(t) == pc[t] = "looking" /\ scan[t] < NumCores /\ IsValideCore(scan[t], mask[t])

CanTake(t) ==
    /\ pc[t] = "looking" /\ scan[t] < NumCores
    /\ IsValideCore(scan[t], mask[t]) /\ owner[scan[t]] = None

(* A plausible slip: all bits are cleared, not the core's alone.           *)
ClearAllIrqs(c) == [d \in Cores |-> None]
ClearIrq(c) == [dec_irq EXCEPT ![c] = None]

GetDecCore(t) ==
    /\ CanTake(t)
    /\ dec_irq' = ClearIrq(scan[t])
    /\ owner' = [owner EXCEPT ![scan[t]] = FileOf[t]]
    /\ core' = [core EXCEPT ![t] = scan[t]]
    /\ pc' = [pc EXCEPT ![t] = "owner"]
    /\ LeaveLook(t)
    /\ UNCHANGED <<sem, hw, job, pending, lost>>

NextCore(t) ==
    /\ pc[t] = "looking" /\ scan[t] < NumCores /\ ~CanTake(t)
    /\ scan' = [scan EXCEPT ![t] = @ + 1]
    /\ UNCHANGED <<sem, coreVars, pc, mask, awake, core, pending, lost>>

(* A plausible slip: the thread goes on the queue after it has looked, and *)
(* what was woken meanwhile is forgotten.                                  *)
LookThenQueue(t) ==
    /\ pc[t] \in {"looking", "corewait"} /\ scan[t] = NumCores
    /\ awake' = [awake EXCEPT ![t] = FALSE]
    /\ UNCHANGED <<sem, coreVars, pc, mask, scan, core, pending, lost>>

(* wait_event_interruptible puts the thread on the queue before it looks   *)
(* again, so that a release in between is not missed.                      *)
LookAgain(t) ==
    /\ pc[t] \in {"looking", "corewait"} /\ scan[t] = NumCores /\ awake[t]
    /\ awake' = [awake EXCEPT ![t] = FALSE]
    /\ scan' = [scan EXCEPT ![t] = 0]
    /\ UNCHANGED <<sem, coreVars, pc, mask, core, pending, lost>>

(* A signal ends the wait; nothing gives the permit back.                  *)
LookInterrupted(t) ==
    /\ pc[t] = "looking" /\ scan[t] = NumCores /\ lost < MaxSignals
    /\ lost' = lost + 1
    /\ pc' = [pc EXCEPT ![t] = "idle"]
    /\ LeaveLook(t)
    /\ UNCHANGED <<sem, coreVars, core, pending>>

-----------------------------------------------------------------------------
(* DecFlushRegs: the status register is cleared, and its last write starts *)
(* the core.                                                               *)
DecFlushRegs(t) ==
    /\ pc[t] = "owner"
    /\ hw' = [hw EXCEPT ![core[t]] = "running"]
    /\ job' = [job EXCEPT ![core[t]] = t]
    /\ pending' = [pending EXCEPT ![t] = TRUE]
    /\ UNCHANGED <<sem, owner, dec_irq, pc, lookVars, core, lost>>

HwFinish(c) ==
    /\ hw[c] = "running"
    /\ hw' = [hw EXCEPT ![c] = "irq"]
    /\ UNCHANGED <<sem, owner, dec_irq, job, pc, lookVars, core, pending, lost>>

(* The handler looks at every core of the slice, owned or not.             *)
hantrodec_isr ==
    LET raised == {c \in Cores : hw[c] = "irq"}
    IN  /\ raised # {}
        /\ dec_irq' = [c \in Cores |-> IF c \in raised THEN job[c] ELSE dec_irq[c]]
        /\ hw' = [c \in Cores |-> IF c \in raised THEN "idle" ELSE hw[c]]
        /\ job' = [c \in Cores |-> IF c \in raised THEN None ELSE job[c]]
        /\ awake' = [t \in Threads |-> awake[t] \/ pc[t] = "corewait"]
        /\ UNCHANGED <<sem, owner, pc, mask, scan, core, pending, lost>>

(* The two waits: for the bit of the core, at most 10 ms, and without      *)
(* limit in a walk over all the cores.                                     *)
WaitDecReady(t) ==
    /\ pc[t] = "owner"
    /\ pc' = [pc EXCEPT ![t] = "wait"]
    /\ UNCHANGED <<sem, coreVars, lookVars, core, pending, lost>>

WaitCoreReady(t) ==
    /\ pc[t] = "owner"
    /\ pc' = [pc EXCEPT ![t] = "corewait"]
    /\ awake' = [awake EXCEPT ![t] = TRUE]
    /\ UNCHANGED <<sem, coreVars, mask, scan, core, pending, lost>>

CheckDecIrq(t) ==
    /\ pc[t] = "wait" /\ dec_irq[core[t]] # None
    /\ dec_irq' = ClearIrq(core[t])
    /\ pending' = [pending EXCEPT ![t] = FALSE]
    /\ pc' = [pc EXCEPT ![t] = "owner"]
    /\ UNCHANGED <<sem, owner, hw, job, lookVars, core, lost>>

(* Its time is over, or a signal has come.                                 *)
WaitEnds(t) ==
    /\ \/ pc[t] = "wait"
       \/ pc[t] = "corewait" /\ scan[t] = NumCores
    /\ pc' = [pc EXCEPT ![t] = "owner"]
    /\ LeaveLook(t)
    /\ UNCHANGED <<sem, coreVars, core, pending, lost>>

OwnIrq(t) == pc[t] = "corewait" /\ scan[t] = core[t] /\ dec_irq[core[t]] # None

(* A plausible slip: a bit is taken for a zombie because it is another's.  *)
NotMine(t, c) == c # core[t] /\ dec_irq[c] # None

(* An interrupt of a core that nobody owns.                                *)
Zombie(t, c) == c # core[t] /\ dec_irq[c] # None /\ owner[c] = None

(* CheckCoreIrq, one core per critical section: it ends at its own core    *)
(* when that has its bit, and drops zombies on its way.                    *)
CheckCoreIrq(t) ==
    /\ OwnIrq(t)
    /\ dec_irq' = ClearIrq(core[t])
    /\ pending' = [pending EXCEPT ![t] = FALSE]
    /\ pc' = [pc EXCEPT ![t] = "owner"]
    /\ LeaveLook(t)
    /\ UNCHANGED <<sem, owner, hw, job, core, lost>>

PassCore(t) ==
    /\ pc[t] = "corewait" /\ scan[t] < NumCores /\ ~OwnIrq(t)
    /\ dec_irq' = IF Zombie(t, scan[t]) THEN ClearIrq(scan[t]) ELSE dec_irq
    /\ scan' = [scan EXCEPT ![t] = @ + 1]
    /\ UNCHANGED <<sem, owner, hw, job, pc, mask, awake, core, pending, lost>>

-----------------------------------------------------------------------------
(* ReleaseDecoder: a core that still runs is aborted, its interrupt off;   *)
(* then the owner is cleared, the permit returned, and the queue woken.    *)
FreeCore(c) ==
    /\ hw' = [hw EXCEPT ![c] = IF @ = "running" THEN "idle" ELSE @]
    /\ job' = [job EXCEPT ![c] = IF hw[c] = "running" THEN None ELSE @]
    /\ owner' = [owner EXCEPT ![c] = None]

ReleaseDecoder(t) ==
    /\ pc[t] = "owner" /\ owner[core[t]] = FileOf[t]
    /\ FreeCore(core[t])
    /\ core' = [core EXCEPT ![t] = None]
    /\ pending' = [pending EXCEPT ![t] = FALSE]
    /\ pc' = [pc EXCEPT ![t] = "up"]
    /\ UNCHANGED <<sem, dec_irq, lookVars, lost>>

Up(a) ==
    /\ pc[a] = "up"
    /\ sem' = sem + 1
    /\ pc' = [pc EXCEPT ![a] = "wake"]
    /\ UNCHANGED <<coreVars, lookVars, core, pending, lost>>

WakeQueue(a) ==
    /\ pc[a] = "wake"
    /\ awake' = [t \in Threads |-> awake[t] \/ pc[t] = "looking"]
    /\ pc' = [pc EXCEPT ![a] = IF a \in Files THEN "closing" ELSE "idle"]
    /\ UNCHANGED <<sem, coreVars, mask, scan, core, pending, lost>>

-----------------------------------------------------------------------------
(* hantrodec_release.  A file is closed when no thread is in a call.       *)
OwnedBy(f) == {c \in Cores : owner[c] = f}
FirstOf(f, c) == c \in OwnedBy(f) /\ \A d \in OwnedBy(f) : c <= d

CloseBegin(f) ==
    LET users == {t \in Threads : FileOf[t] = f}
    IN  /\ pc[f] = "open" /\ \A t \in users : pc[t] \in {"idle", "owner"}
        /\ pc' = [a \in Actors |-> IF a = f THEN "closing"
                                   ELSE IF a \in users THEN "gone" ELSE pc[a]]
        /\ core' = [t \in Threads |-> IF t \in users THEN None ELSE core[t]]
        /\ pending' = [t \in Threads |-> t \notin users /\ pending[t]]
        /\ UNCHANGED <<sem, coreVars, lookVars, lost>>

(* A plausible slip: the core is freed and its permit forgotten, as the    *)
(* encoder's close does.                                                   *)
CloseCoreOnly(f) ==
    /\ pc[f] = "closing"
    /\ \E c \in Cores : FirstOf(f, c) /\ FreeCore(c)
    /\ pc' = [pc EXCEPT ![f] = "wake"]
    /\ UNCHANGED <<sem, dec_irq, lookVars, core, pending, lost>>

CloseCore(f) ==
    /\ pc[f] = "closing"
    /\ \E c \in Cores : FirstOf(f, c) /\ FreeCore(c)
    /\ pc' = [pc EXCEPT ![f] = "up"]
    /\ UNCHANGED <<sem, dec_irq, lookVars, core, pending, lost>>

CloseEnd(f) ==
    /\ pc[f] = "closing" /\ OwnedBy(f) = {}
    /\ pc' = [pc EXCEPT ![f] = "closed"]
    /\ UNCHANGED <<sem, coreVars, lookVars, core, pending, lost>>

-----------------------------------------------------------------------------
Look(t) == GetDecCore(t) \/ NextCore(t) \/ LookAgain(t)
Waited(t) == CheckDecIrq(t) \/ CheckCoreIrq(t) \/ PassCore(t)

Close(f) == CloseCore(f) \/ CloseEnd(f)

Next ==
    \/ \E t \in Threads :
        \/ \E m \in MasksOf[t] : ReserveDecoder(t, m)
        \/ Look(t) \/ LookInterrupted(t)
        \/ DecFlushRegs(t)
        \/ WaitDecReady(t) \/ WaitCoreReady(t) \/ Waited(t) \/ WaitEnds(t)
        \/ ReleaseDecoder(t)
    \/ \E a \in Actors : Up(a) \/ WakeQueue(a)
    \/ \E f \in Files : CloseBegin(f) \/ Close(f)
    \/ \E c \in Cores : HwFinish(c)
    \/ hantrodec_isr

Spec == Init /\ [][Next]_vars

(* The scheduler runs a thread that is in a call and not asleep, a close   *)
(* goes on, cores finish and their interrupts are handled.  No client is   *)
(* assumed to call anything, and no wait to be cut short.                  *)
Fairness ==
    /\ \A t \in Threads : WF_vars(Look(t)) /\ WF_vars(Waited(t))
    /\ \A a \in Actors : WF_vars(Up(a)) /\ WF_vars(WakeQueue(a))
    /\ \A f \in Files : WF_vars(Close(f))
    /\ \A c \in Cores : WF_vars(HwFinish(c))
    /\ WF_vars(hantrodec_isr)

FairSpec == Spec /\ Fairness

-----------------------------------------------------------------------------
(* No two threads have been given the same core, and the core's dec_owner  *)
(* is the file of the one that has it, whatever masks they asked for.      *)
OneHolder ==
    \A t \in Threads : Holding(t) =>
        /\ core[t] \in Cores /\ owner[core[t]] = FileOf[t]
        /\ \A u \in Threads \ {t} : Holding(u) => core[u] # core[t]

(* A permit of dec_core_sem stands for a free core: those not taken, those *)
(* taken by threads that still look, those on their way back, and those    *)
(* that signals have lost add up to the cores without owner.  So a thread  *)
(* that has its permit will find a core if its mask allows any.            *)
Looking == {t \in Threads : pc[t] = "looking"}
Returning == {a \in Actors : pc[a] = "up"}
FreeCores == {c \in Cores : owner[c] = None}

PermitsMatchCores ==
    sem + lost + Cardinality(Looking) + Cardinality(Returning) = Cardinality(FreeCores)

(* A thread leaves a core of its mask behind in its scan, or sleeps on     *)
(* hw_queue beside it, only if the core is owned, or the scan will be      *)
(* repeated, or the release that freed it is still to wake the queue.      *)
NoMissedWake ==
    \A t \in Looking : ~awake[t] =>
        \/ \A c \in mask[t] : c < scan[t] => owner[c] # None
        \/ \E a \in Actors : pc[a] \in {"up", "wake"}

(* The end of a run is not lost before the thread that started it has been *)
(* told: the core runs it, or its interrupt is pending, or the core stands *)
(* and its bit is set, however other threads reserve cores or drop zombies *)
(* meanwhile.                                                              *)
CompletionKept ==
    \A t \in Threads : Holding(t) /\ pending[t] =>
        \/ hw[core[t]] # "idle" /\ job[core[t]] = t
        \/ hw[core[t]] = "idle" /\ dec_irq[core[t]] = t

(* A wait without limit for a run that has been started ends.              *)
CoreWaitEnds ==
    \A t \in Threads : pc[t] = "corewait" /\ pending[t] ~> pc[t] # "corewait"
=============================================================================
