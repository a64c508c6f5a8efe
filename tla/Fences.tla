------------------------------- MODULE Fences -------------------------------
(***************************************************************************)
(* The fences of src/hantro/hantro_fence.c and src/vgem/vgem_fence.c.      *)
(*                                                                         *)
(* A client that is about to use a buffer waits for the fences others have *)
(* put on it, puts one of its own on it, and gets a handle; releasing the  *)
(* handle signals the fence.  The two drivers run the same steps.  Hantro  *)
(* keeps the handles of all clients in one idr, which a suspension empties;*)
(* vgem has an idr for each file, which the close of the file empties.     *)
(*                                                                         *)
(* Handles are ids of the idr, so they are reused; fences are numbered for *)
(* the properties.  Reservation objects are the kernel's: up to 5.18 a new *)
(* write fence replaces all others ("excl"), later they are added; for     *)
(* these kernels the read branch of the driver adds no fence at all.       *)
(***************************************************************************)
EXTENDS Naturals, FiniteSets, FiniteSetsExt

CONSTANTS
    Clients,      \* open files, with a thread each
    Buffers,
    Drivers,      \* "hantro", "vgem"
    StaleHandles, \* clients release handles that are older than a suspension
    MaxFences,    \* bound: fences created
    MaxSuspends,  \* bound: suspensions
    MaxFailures   \* bound: failed allocations, signals and time-outs

ASSUME FencesAssumption ==
    /\ IsFiniteSet(Clients) /\ IsFiniteSet(Buffers) /\ 0 \notin Clients
    /\ Drivers \subseteq {"hantro", "vgem"} /\ StaleHandles \in BOOLEAN
    /\ MaxFences \in Nat /\ MaxSuspends \in Nat /\ MaxFailures \in Nat

None == 0
Taken == MaxFences + 1     \* an id that is allocated and holds no pointer
Fences == 1..MaxFences
Ids == 1..MaxFences
Modes == {"read", "write"}

VARIABLES
    driver, kernel,  \* which driver, and how its kernel keeps fences
    fence,     \* the fences created: owner, buffer, mode, signalled, references
    idr,       \* fence_idr of the client's file, or the one of all files
    resv,      \* the reservation object of each buffer: fences added
    thread,    \* of each client: where it is, its request, its fence and its id
    held,      \* handles returned to the client
    suspends, failures

vars == <<driver, kernel, fence, idr, resv, thread, held, suspends, failures>>

Domain(c) == IF driver = "hantro" THEN "all" ELSE c
NoFence == [owner |-> None, buf |-> None, mode |-> "read", signalled |-> FALSE,
            refs |-> 0]
Created == {f \in Fences : fence[f] # NoFence}
Out(place) == [pc |-> place, buf |-> None, mode |-> "read", hand |-> None,
               handle |-> None]
At(place) == {c \in Clients : thread[c].pc = place}

FencesTypeOK ==
    /\ \A f \in Created : fence[f].owner \in Clients /\ fence[f].refs \in Nat
    /\ \A d \in DOMAIN idr : \A i \in Ids : idr[d][i] \in Fences \cup {None, Taken}
    /\ resv \in [Buffers -> SUBSET Fences]
    /\ \A c \in Clients :
        thread[c].hand # None <=> thread[c].pc \in {"publish", "attach", "undo", "signal"}

Init ==
    /\ driver \in Drivers
    /\ kernel \in IF driver = "vgem" THEN {"excl"} ELSE {"excl", "usage"}
    /\ fence = [f \in Fences |-> NoFence]
    /\ idr = [d \in Clients \cup {"all"} |-> [i \in Ids |-> None]]
    /\ resv = [b \in Buffers |-> {}]
    /\ thread = [c \in Clients |-> Out("idle")]
    /\ held = [c \in Clients |-> {}]
    /\ suspends = 0 /\ failures = 0

-----------------------------------------------------------------------------
Goto(c, place) == thread' = [thread EXCEPT ![c].pc = place]
Return(c) == thread' = [thread EXCEPT ![c] = Out("idle")]
Fails == failures < MaxFailures /\ failures' = failures + 1
Build == UNCHANGED <<driver, kernel, suspends>>

Pending(b) == {f \in resv[b] : ~fence[f].signalled}

(* What a request waits for: a writer for every fence, a reader for those  *)
(* of writers.                                                             *)
Conflicts(b, mode) ==
    IF mode = "write" THEN Pending(b)
    ELSE {f \in Pending(b) : fence[f].mode = "write"}

Blocked(c) == Conflicts(thread[c].buf, thread[c].mode) # {}

Acquire(c, b, mode) ==
    /\ thread[c].pc = "idle"
    /\ Cardinality(Created) + Cardinality(At("waiting")) < MaxFences
    /\ thread' = [thread EXCEPT ![c] = [Out("waiting") EXCEPT !.buf = b, !.mode = mode]]
    /\ UNCHANGED <<fence, idr, resv, held, failures>> /\ Build

alloc_fence(c) ==
    \E f \in Fences :
        /\ f = Cardinality(Created) + 1
        /\ fence' = [fence EXCEPT ![f] =
                        [owner |-> c, buf |-> thread[c].buf, mode |-> thread[c].mode,
                         signalled |-> FALSE, refs |-> 1]]
        /\ thread' = [thread EXCEPT ![c].pc = "publish", ![c].hand = f]

WaitEnds(c) ==
    /\ thread[c].pc = "waiting" /\ ~Blocked(c)
    /\ alloc_fence(c)
    /\ UNCHANGED <<idr, resv, held, failures>> /\ Build

(* The wait is interrupted or timed out, or no fence can be allocated.     *)
AcquireFails(c) ==
    /\ thread[c].pc = "waiting" /\ Fails
    /\ Return(c)
    /\ UNCHANGED <<fence, idr, resv, held>> /\ Build

(* vgem takes the error of an interrupted wait for time that was left.     *)
InterruptedGoesOn(c) ==
    /\ driver = "vgem" /\ thread[c].pc = "waiting" /\ Blocked(c) /\ Fails
    /\ alloc_fence(c)
    /\ UNCHANGED <<idr, resv, held>> /\ Build

(* A plausible slip: an id without a pointer is taken for free.            *)
NullIsFree(table) == {i \in Ids : table[i] \in {None, Taken}}

FreeIds(table) == {i \in Ids : table[i] = None}

idr_alloc(c) ==
    /\ thread[c].pc = "publish"
    /\ LET i == Min(FreeIds(idr[Domain(c)]))
       IN  /\ idr' = [idr EXCEPT ![Domain(c)][i] = thread[c].hand]
           /\ thread' = [thread EXCEPT ![c].pc = "attach", ![c].handle = i]
    /\ UNCHANGED <<fence, resv, held, failures>> /\ Build

IdrFails(c) ==
    /\ thread[c].pc = "publish" /\ Fails
    /\ Goto(c, "undo")
    /\ UNCHANGED <<fence, idr, resv, held>> /\ Build

(* What the kernel keeps when f is added, and the fences it lets go.       *)
Added(b, f) ==
    IF fence[f].mode = "write"
    THEN IF kernel = "excl" THEN {f} ELSE resv[b] \cup {f}
    ELSE IF kernel = "excl" THEN resv[b] \cup {f} ELSE resv[b]

Put(S, T) ==   \* one reference less for S, one more for T
    [f \in Fences |-> [fence[f] EXCEPT !.refs =
        @ + (IF f \in T THEN 1 ELSE 0) - (IF f \in S THEN 1 ELSE 0)]]

Attach(c) ==
    /\ thread[c].pc = "attach"
    /\ LET b == thread[c].buf
           after == Added(b, thread[c].hand)
       IN  /\ resv' = [resv EXCEPT ![b] = after]
           /\ fence' = Put(resv[b] \ after, after \ resv[b])
    /\ held' = [held EXCEPT ![c] = @ \cup {thread[c].handle}]
    /\ Return(c)
    /\ UNCHANGED <<idr, failures>> /\ Build

ReserveFails(c) ==
    /\ thread[c].pc = "attach" /\ Fails
    /\ thread[c].mode = "read" \/ kernel = "usage"
    /\ Goto(c, "undo")
    /\ UNCHANGED <<fence, idr, resv, held>> /\ Build

(* A plausible slip: the reference is dropped, the fence not signalled.    *)
DropOnly(f) == [fence EXCEPT ![f].refs = @ - 1]

SignalAndPut(f) == [fence EXCEPT ![f].signalled = TRUE, ![f].refs = @ - 1]

(* A plausible slip: the error path drops the fence and keeps its id.      *)
UndoKeepsId(c) ==
    /\ thread[c].pc = "undo"
    /\ fence' = SignalAndPut(thread[c].hand)
    /\ Return(c)
    /\ UNCHANGED <<idr, resv, held, failures>> /\ Build

(* The error path: the id is removed, the fence signalled and dropped.     *)
Undo(c) ==
    /\ thread[c].pc = "undo"
    /\ idr' = IF thread[c].handle = None THEN idr
              ELSE [idr EXCEPT ![Domain(c)][thread[c].handle] = None]
    /\ fence' = SignalAndPut(thread[c].hand)
    /\ Return(c)
    /\ UNCHANGED <<resv, held, failures>> /\ Build

-----------------------------------------------------------------------------
(* hantro_releasebuf, vgem_fence_signal_ioctl: the id keeps its place      *)
(* until the fence is signalled.                                           *)
ReleaseFence(c, h) ==
    /\ thread[c].pc = "idle"
    /\ held' = [held EXCEPT ![c] = @ \ {h}]
    /\ LET f == idr[Domain(c)][h]
       IN  IF f \in Fences
           THEN /\ idr' = [idr EXCEPT ![Domain(c)][h] = Taken]
                /\ thread' = [thread EXCEPT ![c] =
                                 [Out("signal") EXCEPT !.hand = f, !.handle = h]]
           ELSE UNCHANGED <<idr, thread>>
    /\ UNCHANGED <<fence, resv, failures>> /\ Build

ReleaseSignal(c) ==
    /\ thread[c].pc = "signal"
    /\ fence' = SignalAndPut(thread[c].hand)
    /\ thread' = [thread EXCEPT ![c].pc = "remove", ![c].hand = None]
    /\ UNCHANGED <<idr, resv, held, failures>> /\ Build

ReleaseRemove(c) ==
    /\ thread[c].pc = "remove"
    /\ idr' = [idr EXCEPT ![Domain(c)][thread[c].handle] = None]
    /\ Return(c)
    /\ UNCHANGED <<fence, resv, held, failures>> /\ Build

-----------------------------------------------------------------------------
(* A plausible slip: the idr is emptied and its fences are only dropped.   *)
EmptiedQuietly(d) ==
    LET gone == {idr[d][i] : i \in Ids} \cap Fences
    IN  /\ fence' = Put(gone, {})
        /\ idr' = [idr EXCEPT ![d] = [i \in Ids |-> None]]

(* Every fence of the idr is signalled and dropped, and the ids start over.*)
Emptied(d) ==
    LET gone == {idr[d][i] : i \in Ids} \cap Fences
    IN  /\ fence' = [f \in Fences |-> IF f \in gone
                                      THEN [fence[f] EXCEPT !.signalled = TRUE, !.refs = @ - 1]
                                      ELSE fence[f]]
        /\ idr' = [idr EXCEPT ![d] = [i \in Ids |-> None]]

(* hantro_pm_signal_all_fences: user processes are frozen, outside of      *)
(* these calls or at a wait that the freeze has ended.                     *)
hantro_pm_signal_all_fences ==
    /\ driver = "hantro" /\ suspends < MaxSuspends
    /\ At("idle") = Clients
    /\ Emptied("all")
    /\ suspends' = suspends + 1
    /\ held' = IF StaleHandles THEN held ELSE [c \in Clients |-> {}]
    /\ UNCHANGED <<driver, kernel, resv, thread, failures>>

vgem_fence_close(c) ==
    /\ driver = "vgem" /\ thread[c].pc = "idle"
    /\ Emptied(c)
    /\ held' = [held EXCEPT ![c] = {}]
    /\ thread' = [thread EXCEPT ![c] = Out("closed")]
    /\ UNCHANGED <<resv, failures>> /\ Build

-----------------------------------------------------------------------------
Step(c) ==
    \/ WaitEnds(c) \/ idr_alloc(c) \/ Attach(c) \/ Undo(c)
    \/ ReleaseSignal(c) \/ ReleaseRemove(c)

Next ==
    \/ \E c \in Clients :
        \/ \E b \in Buffers, mode \in Modes : Acquire(c, b, mode)
        \/ \E h \in held[c] : ReleaseFence(c, h)
        \/ Step(c)
        \/ AcquireFails(c) \/ InterruptedGoesOn(c) \/ IdrFails(c) \/ ReserveFails(c)
        \/ vgem_fence_close(c)
    \/ hantro_pm_signal_all_fences

(* Threads run on, a wait ends when it can, and a client that is not in a  *)
(* call gives back what it holds; time-outs and signals are not relied on. *)
GivesBack(c) == \E h \in held[c] : ReleaseFence(c, h)

Spec ==
    /\ Init /\ [][Next]_vars
    /\ \A c \in Clients : WF_vars(Step(c)) /\ SF_vars(GivesBack(c))

-----------------------------------------------------------------------------
Reachable(f) ==
    \/ \E c \in Clients : thread[c].hand = f
    \/ \E d \in DOMAIN idr : \E i \in Ids : idr[d][i] = f

(* A client that holds a handle finds its own fence under it, not yet      *)
(* signalled: nobody else's release, failed acquisition, suspension or     *)
(* close takes the id away or reuses it (hantro_fence.c:346,               *)
(* vgem_fence.c:231).  With StaleHandles this fails.                       *)
HandleIsMine ==
    \A c \in Clients : \A h \in held[c] :
        LET f == idr[Domain(c)][h]
        IN  f \in Fences /\ fence[f].owner = c /\ ~fence[f].signalled

(* The references of a fence are one for its idr entry or the thread that  *)
(* works on it, and one for the buffer it is on: none is freed while it    *)
(* can be reached, and none leaks, through every error path                *)
(* (hantro_fence.c:288-299, vgem_fence.c:195-205).                         *)
RefsExact ==
    \A f \in Created : fence[f].refs =
        (IF Reachable(f) THEN 1 ELSE 0) + Cardinality({b \in Buffers : f \in resv[b]})

(* A fence that others wait for can still be signalled: it has an id, or a *)
(* thread is about to signal it, also after suspensions and the close of   *)
(* files.  An unsignalled fence on a buffer that nobody can reach would    *)
(* block every later user of the buffer (its 10 s timer only prints,       *)
(* vgem_fence.c:86-91).                                                    *)
WaitedForIsReachable ==
    \A b \in Buffers : \A f \in Pending(b) : Reachable(f)

(* If clients hold nothing while they wait, every wait ends without its    *)
(* time-out (hantro_fence.c:213-238).                                      *)
WaitsEnd ==
    [](\A c \in Clients : thread[c].pc = "waiting" => held[c] = {})
        => \A c \in Clients : thread[c].pc = "waiting" ~> thread[c].pc # "waiting"

=============================================================================
