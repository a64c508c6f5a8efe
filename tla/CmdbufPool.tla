----------------------------- MODULE CmdbufPool -----------------------------
(***************************************************************************)
(* The pool of command-buffer slots of one vcmd device and the budget of   *)
(* execution time each open file may have in flight: allocate_cmdbuf,      *)
(* free_cmdbuf_mem, create_cmdbuf_node, reserve_cmdbuf and the part of     *)
(* release_cmdbuf that gives a slot back (src/hantro/hantro_vcmd.c).       *)
(*                                                                         *)
(* A slot is an index of cmdbuf_used[] and global_cmdbuf_node[].  The two  *)
(* arrays are written under different locks and in different steps, so a   *)
(* slot that is neither free nor published is a state of its own here:     *)
(* "allocated, its node not yet in the table" and "out of the table, its   *)
(* memory not yet returned".                                               *)
(*                                                                         *)
(* Several threads share an open file, hence its budget.  A thread is in   *)
(* reserve_cmdbuf at most once; a release may run beside it at any time.   *)
(***************************************************************************)
EXTENDS Integers, FiniteSets, FiniteSetsExt

CONSTANTS
    N,           \* TOTAL_DISCRETE_CMDBUF_NUM
    Procs,       \* the open files (struct file *filp)
    Threads,     \* the threads that reserve
    FilpOf,      \* the open file each thread uses
    Kernel,      \* the kernel's own process manager (filp == NULL)
    NoNode,      \* a NULL entry of global_cmdbuf_node[]
    MaxSum,      \* PROCESS_MAX_SUM_OF_IMAGE_SIZE
    Costs,       \* the execution times a request asks for (interrupt_ctrl)
    MaxFailures  \* bound: waits cut short by a signal and failed vmallocs

ASSUME PoolAssumption ==
    /\ N \in Nat /\ N > 2
    /\ IsFiniteSet(Threads) /\ FilpOf \in [Threads -> Procs]
    /\ MaxSum \in Nat /\ Costs \subseteq 1..MaxSum
    /\ MaxFailures \in Nat
    /\ Kernel \notin Procs /\ NoNode \notin Procs \cup {Kernel}

Slots == 0..(N - 1)

VARIABLES
    used,       \* cmdbuf_used[]: TRUE where the code stores 1
    pos,        \* cmdbuf_used_pos: where the next search starts
    residual,   \* cmdbuf_used_residual: what allocate_cmdbuf tests for 0
    node,       \* global_cmdbuf_node[]: the owner of the node, NoNode if NULL
    exe_time,   \* executing_time of the node in a slot
    total,      \* pmo->total_exe_time of each open file
    pc,         \* where each thread is in reserve_cmdbuf
    request,    \* interrupt_ctrl of the request it is serving
    held,       \* the slot allocate_cmdbuf gave it, not yet in the table
    freeing,    \* slots out of the table whose memory is not yet returned
    failures    \* how many waits and allocations have failed so far

vars == <<used, pos, residual, node, exe_time, total, pc, request, held,
          freeing, failures>>

slotVars == <<used, pos, residual, node, exe_time, freeing>>
budgetVars == <<total, request>>

NoSlot == N

TypeOK ==
    /\ used \in [Slots -> BOOLEAN]
    /\ pos \in Slots
    /\ residual \in Int
    /\ node \in [Slots -> Procs \cup {Kernel, NoNode}]
    /\ exe_time \in [Slots -> Nat]
    /\ total \in [Procs -> Int]
    /\ pc \in [Threads -> {"idle", "budget", "slot", "create"}]
    /\ request \in [Threads -> Nat]
    /\ held \in [Threads -> Slots \cup {NoSlot}]
    /\ freeing \subseteq Slots
    /\ failures \in 0..MaxFailures

-----------------------------------------------------------------------------
(* Probe.  Slot 0 is never handed out: a cmdbuf id is an interrupt vector  *)
(* and must not be zero.  The kernel then reserves slot 1 for the cmdbuf   *)
(* that reads the hardware's registers, and keeps it.                      *)
Init ==
    /\ used = [s \in Slots |-> s \in {0, 1}]
    /\ pos = 2
    /\ residual = N - 2
    /\ node = [s \in Slots |-> IF s = 1 THEN Kernel ELSE NoNode]
    /\ exe_time = [s \in Slots |-> 0]
    /\ total = [f \in Procs |-> 0]
    /\ pc = [t \in Threads |-> "idle"]
    /\ request = [t \in Threads |-> 0]
    /\ held = [t \in Threads |-> NoSlot]
    /\ freeing = {}
    /\ failures = 0

-----------------------------------------------------------------------------
(* reserve_cmdbuf charges the process before it waits for the charge to    *)
(* fit: several threads may add first and test later.                      *)
ReserveEnter(t, cost) ==
    /\ pc[t] = "idle"
    /\ total' = [total EXCEPT ![FilpOf[t]] = @ + cost]
    /\ request' = [request EXCEPT ![t] = cost]
    /\ pc' = [pc EXCEPT ![t] = "budget"]
    /\ UNCHANGED <<slotVars, held, failures>>

wait_process_resource_rdy(f) == total[f] <= MaxSum

BudgetReady(t) ==
    /\ pc[t] = "budget"
    /\ wait_process_resource_rdy(FilpOf[t])
    /\ pc' = [pc EXCEPT ![t] = "slot"]
    /\ UNCHANGED <<slotVars, budgetVars, held, failures>>

(* What the allocation loop looks for: a word of 0 and no node.            *)
FreeSlots == {s \in Slots : ~used[s] /\ node[s] = NoNode}

(* The search of allocate_cmdbuf: from pos upwards, wrapping at N.         *)
Distance(s) == IF s >= pos THEN s - pos ELSE s + N - pos

FirstFree(s) == s \in FreeSlots /\ \A t \in FreeSlots : Distance(s) <= Distance(t)

Successor(s) == IF s + 1 = N THEN 0 ELSE s + 1

allocate_cmdbuf(t) ==
    /\ pc[t] = "slot"
    /\ residual # 0
    /\ \E s \in Slots :
        /\ FirstFree(s)
        /\ used' = [used EXCEPT ![s] = TRUE]
        /\ held' = [held EXCEPT ![t] = s]
        /\ pos' = Successor(s)
    /\ residual' = residual - 1
    /\ pc' = [pc EXCEPT ![t] = "create"]
    /\ UNCHANGED <<node, exe_time, freeing, budgetVars, failures>>

(* A signal ends either wait: the charge of the request stays.             *)
WaitInterrupted(t) ==
    /\ pc[t] \in {"budget", "slot"}
    /\ failures < MaxFailures
    /\ failures' = failures + 1
    /\ pc' = [pc EXCEPT ![t] = "idle"]
    /\ UNCHANGED <<slotVars, budgetVars, held>>

(* A plausible slip: the error path counts the slot free but leaves its    *)
(* word in cmdbuf_used[] set.                                              *)
create_cmdbuf_node_keeps_slot(t) ==
    /\ pc[t] = "create"
    /\ failures < MaxFailures
    /\ failures' = failures + 1
    /\ residual' = residual + 1
    /\ held' = [held EXCEPT ![t] = NoSlot]
    /\ pc' = [pc EXCEPT ![t] = "idle"]
    /\ UNCHANGED <<used, pos, node, exe_time, freeing, budgetVars>>

(* vmalloc of the cmdbuf_obj or of the list node fails: the slot goes      *)
(* back, the charge stays.                                                 *)
create_cmdbuf_node_fails(t) ==
    /\ pc[t] = "create"
    /\ failures < MaxFailures
    /\ failures' = failures + 1
    /\ used' = [used EXCEPT ![held[t]] = FALSE]
    /\ residual' = residual + 1
    /\ held' = [held EXCEPT ![t] = NoSlot]
    /\ pc' = [pc EXCEPT ![t] = "idle"]
    /\ UNCHANGED <<pos, node, exe_time, freeing, budgetVars>>

(* The rest of reserve_cmdbuf: the node becomes visible in the table.      *)
PublishNode(t) ==
    /\ pc[t] = "create"
    /\ node' = [node EXCEPT ![held[t]] = FilpOf[t]]
    /\ exe_time' = [exe_time EXCEPT ![held[t]] = request[t]]
    /\ held' = [held EXCEPT ![t] = NoSlot]
    /\ pc' = [pc EXCEPT ![t] = "idle"]
    /\ UNCHANGED <<used, pos, residual, freeing, budgetVars, failures>>

(* Plausible slips: the table entry is not cleared, so a second release    *)
(* finds the node again; the charge is returned twice, as                  *)
(* release_cmdbuf_notlinked does.                                          *)
UnpublishKeepsEntry(f, s) ==
    /\ node[s] = f
    /\ total' = [total EXCEPT ![f] = @ - exe_time[s]]
    /\ exe_time' = [exe_time EXCEPT ![s] = 0]
    /\ freeing' = freeing \cup {s}
    /\ UNCHANGED <<used, pos, residual, node, pc, request, held, failures>>

UnpublishCharging(f, s, refund) ==
    /\ node[s] = f
    /\ node' = [node EXCEPT ![s] = NoNode]
    /\ total' = [total EXCEPT ![f] = @ - refund]
    /\ exe_time' = [exe_time EXCEPT ![s] = 0]
    /\ freeing' = freeing \cup {s}
    /\ UNCHANGED <<used, pos, residual, pc, request, held, failures>>

UnpublishRefundsTwice(f, s) == UnpublishCharging(f, s, 2 * exe_time[s])

(* release_cmdbuf takes the node out of the table and returns the charge;  *)
(* only then does free_cmdbuf_node give the memory back.                   *)
UnpublishNode(f, s) ==
    /\ node[s] = f
    /\ node' = [node EXCEPT ![s] = NoNode]
    /\ total' = [total EXCEPT ![f] = @ - exe_time[s]]
    /\ exe_time' = [exe_time EXCEPT ![s] = 0]
    /\ freeing' = freeing \cup {s}
    /\ UNCHANGED <<used, pos, residual, pc, request, held, failures>>

free_cmdbuf_mem(s) ==
    /\ s \in freeing
    /\ used' = [used EXCEPT ![s] = FALSE]
    /\ residual' = residual + 1
    /\ freeing' = freeing \ {s}
    /\ UNCHANGED <<pos, node, exe_time, budgetVars, pc, held, failures>>

Next ==
    \/ \E t \in Threads :
        \/ \E cost \in Costs : ReserveEnter(t, cost)
        \/ BudgetReady(t)
        \/ allocate_cmdbuf(t)
        \/ WaitInterrupted(t)
        \/ create_cmdbuf_node_fails(t)
        \/ PublishNode(t)
    \/ \E f \in Procs, s \in Slots : UnpublishNode(f, s)
    \/ \E s \in Slots : free_cmdbuf_mem(s)

Spec == Init /\ [][Next]_vars

-----------------------------------------------------------------------------
(* cmdbuf_used_residual counts exactly the words that are 0, through every *)
(* interleaving of reservations, failed creations and releases.            *)
ResidualExact == residual = Cardinality({s \in Slots : ~used[s]})

(* A slot has one holder: it is free, or allocated to one thread, or in    *)
(* the table, or on its way back.  No window between the two arrays lets a *)
(* second reserve_cmdbuf take it, and ids 0 and 1 are never handed out.    *)
FreeMeansUnused ==
    \A s \in Slots : ~used[s] => node[s] = NoNode /\ s \notin freeing
HeldIsPrivate ==
    \A t \in Threads :
        /\ (held[t] = NoSlot) <=> (pc[t] # "create")
        /\ held[t] # NoSlot =>
            /\ used[held[t]] /\ node[held[t]] = NoNode /\ held[t] \notin freeing
            /\ \A u \in Threads \ {t} : held[u] # held[t]
FreeingIsUnpublished == \A s \in freeing : used[s] /\ node[s] = NoNode
Reserved ==
    /\ used[0] /\ used[1] /\ node[0] = NoNode /\ node[1] = Kernel
    /\ 0 \notin freeing /\ 1 \notin freeing
    /\ \A t \in Threads : held[t] \notin {0, 1}

SlotLifecycle ==
    FreeMeansUnused /\ HeldIsPrivate /\ FreeingIsUnpublished /\ Reserved

(* The search loop of allocate_cmdbuf runs with interrupts off and has no  *)
(* exit but a free slot: whenever the counter lets a thread in, there is   *)
(* one to find.                                                            *)
AllocatorTerminates == residual # 0 => FreeSlots # {}

Live(f) == {s \in Slots : node[s] = f}
Within(f, stages) == {t \in Threads : FilpOf[t] = f /\ pc[t] \in stages}
LiveCost(f) == SumFunctionOnSet(exe_time, Live(f))
CostWithin(f, stages) == SumFunctionOnSet(request, Within(f, stages))

(* total_exe_time never falls below what the file really has in flight,    *)
(* and equals it until a wait or an allocation fails: an interrupted or    *)
(* failed reservation keeps its charge for the life of the file.           *)
BudgetCovers ==
    \A f \in Procs :
        LET spent == LiveCost(f) + CostWithin(f, {"budget", "slot", "create"})
        IN  total[f] >= spent /\ (failures = 0 => total[f] = spent)

=============================================================================
