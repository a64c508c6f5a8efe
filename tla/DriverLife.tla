----------------------------- MODULE DriverLife -----------------------------
(***************************************************************************)
(* Loading and unloading the driver in the PCIE build with vcmd            *)
(* (hantro_init and hantro_cleanup of src/hantro/hantro_drv.c with what    *)
(* they call): one thread goes through a long row of registrations, any of *)
(* which may fail, and goes back through it when the module is removed.    *)
(*                                                                         *)
(* The row is not undone when it breaks, and it is not private either: the *)
(* DRM device is published in its middle, and hantro_vcmd_init sleeps for  *)
(* a second per core afterwards, so that clients open the device while the *)
(* lists their files are entered in are still being set up.                *)
(***************************************************************************)
EXTENDS Integers

CONSTANTS
    CoresOf,     \* cores in vcmd_core_array of each function
    Blocks,      \* entries of mem_table
    FewBlocks,   \* those used in a small machine
    Files        \* files clients may have open

Fns == {"dec", "enc"}

ASSUME DriverAssumption ==
    /\ CoresOf \in [Fns -> Nat \ {0}] /\ Blocks \in Nat /\ FewBlocks \in 1..Blocks

VARIABLES
    pc,        \* where the loading or unloading thread stands
    fn, core,  \* the function and the core it is at
    useirq,    \* the module parameter
    pci,       \* per function: driver registered, device bound, enabled, base known
    drm,       \* "none", "allocated", "registered"
    fences,    \* the idr of fences exists
    blocks,    \* blocks of the reserved-memory pool held
    dev,       \* per function: the vcmd_dev
    hw,        \* per function and core: the vcmd_core
    nodes,     \* hantrodec_t and hantroenc_t made for the other tables
    config,    \* functions announced in hantro_dev.config
    vcmdsup,   \* hantro_slice_head[0].vcmd_en
    file       \* how each file was opened

vars == <<pc, fn, core, useirq, pci, drm, fences, blocks, dev, hw, nodes, config, vcmdsup, file>>

Cores(f) == 1..CoresOf[f]
NoDevice == [driver |-> FALSE, bound |-> FALSE, enabled |-> FALSE, base |-> FALSE]
NoDev == [num |-> 0, mem |-> FALSE, ready |-> FALSE, managers |-> {}, used |-> 0]
NoCore == [alive |-> FALSE, region |-> FALSE, irq |-> FALSE, line |-> FALSE, status |-> 0]

Init ==
    /\ pc = "out" /\ fn = "dec" /\ core = 1 /\ useirq \in BOOLEAN
    /\ pci = [f \in Fns |-> NoDevice]
    /\ drm = "none" /\ fences = FALSE /\ blocks = {}
    /\ dev = [f \in Fns |-> NoDev]
    /\ hw = [f \in Fns |-> [c \in Cores(f) |-> NoCore]]
    /\ nodes = [f \in Fns |-> 0] /\ config = {} /\ vcmdsup = FALSE
    /\ file = [x \in Files |-> "closed"]

Loading == {"out", "drivers", "drm", "publish", "reserve", "probe", "init", "io", "irq", "read"}
Unloading == {"nodes", "stop", "release", "slices", "fences", "unpublish", "unregister", "blocks"}
Ended == {"gone", "failed", "oops"}

Go(p) == pc' = p
Stay == UNCHANGED <<fn, core>>
Restart == fn' = "dec" /\ core' = 1
Outer == <<useirq, pci, drm, fences, blocks>>
Inner == <<dev, hw, nodes, config, vcmdsup>>

-----------------------------------------------------------------------------
(* hantro_init up to the published device *)

CheckMemory ==
    /\ pc = "out"
    /\ \/ Go("failed")          \* less than MAX_VPU_POOL_LIMIT pages free
       \/ Go("drivers")
    /\ UNCHANGED <<fn, core, Outer, Inner, file>>

\* what the probe functions leave: whether the device could be enabled and
\* whether its DMA masks could be set decide differently for the two
Found(enables) == [NoDevice EXCEPT !.driver = TRUE, !.enabled = enables, !.base = enables]
Probed(f, enables, masks) ==
    [Found(enables) EXCEPT !.bound = masks /\ (f = "enc" => enables)]

\* a driver registers whether or not a device is there; a driver that has
\* registered stays when the second does not
RegisterDriver ==
    /\ pc = "drivers"
    /\ \/ Go("failed") /\ Stay /\ UNCHANGED pci
       \/ /\ \/ pci' = [pci EXCEPT ![fn].driver = TRUE]
             \/ \E e, m \in BOOLEAN : pci' = [pci EXCEPT ![fn] = Probed(fn, e, m)]
          /\ IF fn = "dec" THEN fn' = "enc" /\ UNCHANGED <<pc, core>> ELSE Go("drm") /\ Restart
    /\ UNCHANGED <<useirq, drm, fences, blocks, Inner, file>>

\* the parent of the DRM device is the decoder's PCI device
AllocDrm ==
    /\ pc = "drm"
    /\ \/ ~pci["dec"].base /\ Go("oops") /\ UNCHANGED drm
       \/ pci["dec"].base /\ Go("publish") /\ drm' = "allocated"
       \/ pci["dec"].base /\ Go("failed") /\ UNCHANGED drm
    /\ UNCHANGED <<fn, core, useirq, pci, fences, blocks, Inner, file>>

RegisterDrm ==
    /\ pc = "publish"
    /\ \/ Go("failed") /\ drm' = "none" /\ UNCHANGED fences
       \/ Go("reserve") /\ drm' = "registered" /\ fences' = TRUE
    /\ UNCHANGED <<fn, core, useirq, pci, blocks, Inner, file>>

\* all blocks, in a small machine the first ones
PoolBlocks == {1..Blocks, 1..FewBlocks}

\* a block that cannot be had gives the ones before it back
ReservePool ==
    /\ pc = "reserve"
    /\ \/ Go("failed") /\ UNCHANGED blocks
       \/ Go("probe") /\ blocks' \in PoolBlocks
    /\ UNCHANGED <<fn, core, useirq, pci, drm, fences, Inner, file>>

-----------------------------------------------------------------------------
(* the vcmd devices *)

Announced == {f \in Fns : pci[f].base}

CoreAdded(h) == [h EXCEPT !.alive = TRUE, !.line = TRUE]
CoresAdded(f) == [dev[f] EXCEPT !.num = CoresOf[f]]

\* the nodes for the other tables, as far as vmalloc goes
NodesMade == {n \in [Fns -> 0..(CoresOf["dec"] + CoresOf["enc"])] :
                \A f \in Fns : n[f] <= CoresOf[f]}

\* the slice, its cores and their nodes
VcmdProbe ==
    /\ pc = "probe"
    /\ dev' = [f \in Fns |-> CoresAdded(f)]
    /\ hw' = [f \in Fns |-> [c \in Cores(f) |-> CoreAdded(hw[f][c])]]
    /\ nodes' \in NodesMade
    /\ config' = Announced /\ vcmdsup' = TRUE
    /\ Go("init") /\ Stay
    /\ UNCHANGED <<Outer, file>>

NextFunction == IF fn = "dec" THEN Go("init") /\ fn' = "enc" /\ core' = 1
                              ELSE Go("loaded") /\ Restart

\* hantro_vcmd_init: a function without registers is taken out of the device
SkipsFunction(f) == ~pci[f].base
MemTaken(d) == [d EXCEPT !.mem = TRUE]      \* one allocation for the three pools

InitFunction ==
    /\ pc = "init"
    /\ \/ /\ SkipsFunction(fn)
          /\ dev' = [dev EXCEPT ![fn].num = 0]
          /\ NextFunction
       \/ /\ ~SkipsFunction(fn)
          /\ \/ Go("failed") /\ UNCHANGED dev
             \/ Go("io") /\ dev' = [dev EXCEPT ![fn] = MemTaken(@)]
          /\ Stay
    /\ UNCHANGED <<Outer, hw, nodes, config, vcmdsup, file>>

\* lists, locks and queues start anew, whoever has entered the lists so far
Prepared(d) == [d EXCEPT !.ready = TRUE, !.managers = {}]
WithRegions(f, S) == [hw EXCEPT ![f] = [c \in Cores(f) |-> [hw[f][c] EXCEPT !.region = c \in S]]]

\* a core that does not answer is passed over; a region taken by another
\* stops the walk with the regions so far held
ReserveIO ==
    /\ pc = "io"
    /\ dev' = [dev EXCEPT ![fn] = Prepared(@)]
    /\ \E answer \in SUBSET Cores(fn) :
         \/ hw' = WithRegions(fn, answer) /\ Go(IF answer = {} THEN "failed" ELSE "irq")
         \/ \E stop \in Cores(fn) :
              /\ hw' = WithRegions(fn, {c \in answer : c <= stop})
              /\ Go("failed")
    /\ core' = 1 /\ UNCHANGED <<fn, Outer, nodes, config, vcmdsup, file>>

\* the pool of buffers; slot 0 is never handed out
PoolReset(d) == [d EXCEPT !.used = 1]

LastCore == core = CoresOf[fn]

\* the walk does not move on from a core without registers
RequestIrq ==
    /\ pc = "irq"
    /\ LET h == hw[fn][core]
           After(g) == /\ hw' = [hw EXCEPT ![fn][core] = g]
                       /\ IF LastCore
                            THEN /\ Go("read") /\ core' = 1
                                 /\ dev' = [dev EXCEPT ![fn] = PoolReset(@)]
                            ELSE core' = core + 1 /\ UNCHANGED <<pc, dev>>
       IN \/ /\ ~h.region
             /\ Go("read") /\ core' = 1
             /\ dev' = [dev EXCEPT ![fn] = PoolReset(@)] /\ UNCHANGED hw
          \/ h.region /\ ~useirq /\ After([h EXCEPT !.line = FALSE])
          \/ h.region /\ useirq /\ After([h EXCEPT !.irq = TRUE])
          \/ h.region /\ useirq /\ After(h)             \* refused for want of memory
          \/ /\ h.region /\ useirq                      \* -EINVAL, -EBUSY
             /\ hw' = WithRegions(fn, {}) /\ Go("failed") /\ UNCHANGED <<core, dev>>
    /\ UNCHANGED <<fn, Outer, nodes, config, vcmdsup, file>>

ReadStops(h) == ~h.region

\* each core reads the registers behind it into a buffer that is never
\* released; the caller looks at the core itself, a signal ends the wait
ReadRegisters ==
    /\ pc = "read"
    /\ \/ /\ ReadStops(hw[fn][core]) /\ Go("oops") /\ Stay /\ UNCHANGED <<dev, hw>>
       \/ /\ ~ReadStops(hw[fn][core])
          /\ hw' = [hw EXCEPT ![fn][core].status = dev[fn].used]
          /\ dev' = [dev EXCEPT ![fn].used = @ + 1]
          /\ IF LastCore THEN NextFunction ELSE core' = core + 1 /\ UNCHANGED <<pc, fn>>
    /\ UNCHANGED <<Outer, nodes, config, vcmdsup, file>>

-----------------------------------------------------------------------------
(* clients *)

\* mutant: the loop over the devices ends after the encoder's
EnteredOnce(x, b) == [dev EXCEPT !["enc"].managers =
                        IF b /\ dev["enc"].num > 0 THEN @ \cup {x} ELSE @ \ {x}]

Entered(x, b) == [f \in Fns |-> [dev[f] EXCEPT
                    !.managers = IF b /\ dev[f].num > 0 THEN @ \cup {x} ELSE @ \ {x}]]

\* the device can be opened as soon as it is published; which of the two
\* open functions runs depends on vcmd_en
Open(x) ==
    /\ drm = "registered" /\ pc \in Loading \cup {"loaded"} /\ file[x] = "closed"
    /\ file' = [file EXCEPT ![x] = IF ~vcmdsup THEN "legacy" ELSE IF pc = "loaded" THEN "late" ELSE "early"]
    /\ dev' = IF vcmdsup THEN Entered(x, TRUE) ELSE dev
    /\ UNCHANGED <<pc, fn, core, Outer, hw, nodes, config, vcmdsup>>

Close(x) ==
    /\ file[x] # "closed" /\ pc \in Loading \cup {"loaded"}
    /\ file' = [file EXCEPT ![x] = "closed"]
    /\ dev' = IF vcmdsup THEN Entered(x, FALSE) ELSE dev
    /\ UNCHANGED <<pc, fn, core, Outer, hw, nodes, config, vcmdsup>>

\* a reservation on a function whose queues do not exist yet sleeps on a
\* wait queue that is all zeroes
ReserveTooEarly(x) ==
    /\ pc \in Loading
    /\ \E f \in Fns : x \in dev[f].managers /\ ~dev[f].ready
    /\ Go("oops")
    /\ UNCHANGED <<fn, core, Outer, Inner, file>>

-----------------------------------------------------------------------------
(* hantro_cleanup; an open file keeps the module in *)

Unload ==
    /\ pc = "loaded" /\ \A x \in Files : file[x] = "closed"
    /\ Go("nodes") /\ Restart
    /\ UNCHANGED <<Outer, Inner, file>>

\* the decoder's nodes are left
release_norslice_node ==
    /\ pc = "nodes"
    /\ nodes' = [nodes EXCEPT !["enc"] = 0] /\ config' = {}
    /\ Go("stop") /\ Stay
    /\ UNCHANGED <<Outer, dev, hw, vcmdsup, file>>

AfterFirst == Go("slices") /\ Stay             \* mutant: the second device is forgotten

AfterFunction == IF fn = "dec" THEN Go("stop") /\ fn' = "enc" /\ core' = 1
                               ELSE Go("slices") /\ Stay

StoppedOnly(h) == [h EXCEPT !.status = 0]       \* mutant: the handler stays
Stopped(h) == [h EXCEPT !.irq = FALSE, !.status = 0]

\* one core: its registers are written, its handler and its list go
StopCore ==
    /\ pc = "stop"
    /\ IF dev[fn].num = 0 THEN AfterFunction /\ UNCHANGED <<dev, hw>>
       ELSE IF ~hw[fn][core].region THEN Go("oops") /\ Stay /\ UNCHANGED <<dev, hw>>
       ELSE /\ hw' = [hw EXCEPT ![fn][core] = Stopped(@)]
            /\ dev' = [dev EXCEPT ![fn].used = @ - 1]
            /\ IF LastCore THEN Go("release") /\ Stay ELSE core' = core + 1 /\ UNCHANGED <<pc, fn>>
    /\ UNCHANGED <<Outer, nodes, config, vcmdsup, file>>

MemReleased(d) == [NoDev EXCEPT !.used = d.used]
Freed(h) == [h EXCEPT !.region = FALSE, !.alive = FALSE]

\* the files' entries, the registers, the cores, then the memory
ReleaseFunction ==
    /\ pc = "release"
    /\ hw' = [hw EXCEPT ![fn] = [c \in Cores(fn) |-> Freed(hw[fn][c])]]
    /\ dev' = [dev EXCEPT ![fn] = MemReleased(@)]
    /\ AfterFunction
    /\ UNCHANGED <<Outer, nodes, config, vcmdsup, file>>

FreeSlices ==
    /\ pc = "slices" /\ Go("fences") /\ dev' = [f \in Fns |-> NoDev]
    /\ UNCHANGED <<fn, core, Outer, hw, nodes, config, vcmdsup, file>>

releaseFenceData ==
    /\ pc = "fences" /\ Go("unpublish") /\ fences' = FALSE
    /\ UNCHANGED <<fn, core, useirq, pci, drm, blocks, Inner, file>>

UnregisterDrm ==
    /\ pc = "unpublish" /\ Go("unregister") /\ drm' = "none"
    /\ UNCHANGED <<fn, core, useirq, pci, fences, blocks, Inner, file>>

\* the remove function runs for a bound device
Removed(d) == [d EXCEPT !.driver = FALSE, !.bound = FALSE, !.enabled = @ /\ ~d.bound]

UnregisterDrivers ==
    /\ pc = "unregister" /\ Go("blocks")
    /\ pci' = [f \in Fns |-> Removed(pci[f])]
    /\ UNCHANGED <<fn, core, useirq, drm, fences, blocks, Inner, file>>

hantro_memory_pool_remove ==
    /\ pc = "blocks" /\ Go("gone") /\ blocks' = {}
    /\ UNCHANGED <<fn, core, useirq, pci, drm, fences, Inner, file>>

Next ==
    \/ CheckMemory \/ RegisterDriver \/ AllocDrm \/ RegisterDrm \/ ReservePool
    \/ VcmdProbe \/ InitFunction \/ ReserveIO \/ RequestIrq \/ ReadRegisters
    \/ \E x \in Files : Open(x) \/ Close(x) \/ ReserveTooEarly(x)
    \/ Unload \/ release_norslice_node \/ StopCore \/ ReleaseFunction \/ FreeSlices
    \/ releaseFenceData \/ UnregisterDrm \/ UnregisterDrivers \/ hantro_memory_pool_remove

Spec == Init /\ [][Next]_vars

-----------------------------------------------------------------------------
(* Properties *)

DriverTypeOK ==
    /\ pc \in Loading \cup Unloading \cup Ended \cup {"loaded"}
    /\ fn \in Fns /\ core \in 1..CoresOf[fn] /\ useirq \in BOOLEAN
    /\ pci \in [Fns -> [driver : BOOLEAN, bound : BOOLEAN, enabled : BOOLEAN, base : BOOLEAN]]
    /\ drm \in {"none", "allocated", "registered"} /\ fences \in BOOLEAN /\ vcmdsup \in BOOLEAN
    /\ blocks \subseteq 1..Blocks /\ config \subseteq Fns /\ nodes \in [Fns -> Nat]
    /\ \A f \in Fns : dev[f] \in [num : {0, CoresOf[f]}, mem : BOOLEAN, ready : BOOLEAN,
                                  managers : SUBSET Files, used : 0..CoresOf[f] + 1]
    /\ file \in [Files -> {"closed", "legacy", "early", "late"}]

\* Unless the load has failed, an interrupt handler that is registered finds
\* its core, the core's registers, its lists and the buffers' memory:
\* nothing is released before its handler, nothing comes after it.
\* (A failed load breaks this: vcmd_release_IO runs under the handlers of
\* the cores before the refused one, hantro_vcmd.c 3025-3034.)
HandlerHasItsCore ==
    pc # "failed" => \A f \in Fns : \A c \in Cores(f) : hw[f][c].irq =>
        hw[f][c].alive /\ hw[f][c].region /\ dev[f].mem /\ dev[f].ready

\* What was registered, mapped and allocated is returned by the removal,
\* whichever function is missing, but for the decoder's nodes and the cores
\* of a function that was taken out of its device.
UnloadReturnsAll ==
    pc = "gone" =>
        /\ drm = "none" /\ ~fences /\ blocks = {} /\ nodes["enc"] = 0
        /\ \A f \in Fns :
             /\ ~pci[f].driver /\ ~dev[f].mem /\ ~dev[f].ready /\ dev[f].managers = {}
             /\ \A c \in Cores(f) :
                  /\ ~hw[f][c].region /\ ~hw[f][c].irq
                  /\ hw[f][c].alive => ~pci[f].base

\* A file opened once the load is over is entered with every device until it
\* is closed.  (One opened earlier may be in no list, or in one of the two.)
LateFilesEntered ==
    \A x \in Files : file[x] = "late" =>
        \A f \in Fns : dev[f].num > 0 => x \in dev[f].managers

=============================================================================
