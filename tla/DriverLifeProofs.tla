--------------------------- MODULE DriverLifeProofs ---------------------------
(***************************************************************************)
(* Proofs, for every number of cores and files, about loading and          *)
(* unloading the driver: a registered interrupt handler finds what it      *)
(* uses, the removal returns what was taken, and a file opened after the   *)
(* load is entered with every device.                                      *)
(*                                                                         *)
(* One thread loads and unloads, so the inductive invariant follows its    *)
(* place in the row: what of each function is untouched, set up, absent    *)
(* or returned when the thread stands there.  Clients come in from the     *)
(* side; they only move the lists of files and, too early, end the load.   *)
(***************************************************************************)
EXTENDS DriverLife, TLAPS

CoreRecords == [alive : BOOLEAN, region : BOOLEAN, irq : BOOLEAN, line : BOOLEAN, status : Nat]
DevRecords(f) == [num : {0, CoresOf[f]}, mem : BOOLEAN, ready : BOOLEAN,
                  managers : SUBSET Files, used : 0..CoresOf[f] + 1]

(* the tables of the functions and of their cores *)
DevTypes ==
    /\ dev = [f \in Fns |-> dev[f]]
    /\ \A f \in Fns : dev[f] \in DevRecords(f)
HwTypes ==
    /\ hw = [f \in Fns |-> hw[f]]
    /\ \A f \in Fns : hw[f] \in [Cores(f) -> CoreRecords]
SmallTypes ==
    /\ pc \in Loading \cup Unloading \cup Ended \cup {"loaded"}
    /\ fn \in Fns /\ core \in 1..CoresOf[fn] /\ useirq \in BOOLEAN
    /\ pci \in [Fns -> [driver : BOOLEAN, bound : BOOLEAN, enabled : BOOLEAN, base : BOOLEAN]]
    /\ drm \in {"none", "allocated", "registered"} /\ fences \in BOOLEAN /\ vcmdsup \in BOOLEAN
    /\ blocks \subseteq 1..Blocks /\ config \subseteq Fns /\ nodes \in [Fns -> Nat]
    /\ file \in [Files -> {"closed", "legacy", "early", "late"}]
Types == SmallTypes /\ DevTypes /\ HwTypes

(* what the thread has behind it and before it, function by function *)
Before == {"out", "drivers", "drm", "publish", "reserve", "probe"}
Setup == {"init", "io", "irq", "read"}
Afterwards == {"slices", "fences", "unpublish", "unregister", "blocks", "gone"}
Ahead(f) == fn = "dec" /\ f = "enc"
Behind(f) == fn = "enc" /\ f = "dec"

Quiet(f) == \A c \in Cores(f) : ~hw[f][c].region /\ ~hw[f][c].irq
Alive(f) == \A c \in Cores(f) : hw[f][c].alive
Absent(f) == dev[f].num = 0 => ~pci[f].base /\ Quiet(f)
Full(f) == dev[f].num # 0 => dev[f].used = CoresOf[f] + 1
Returned(f) == Quiet(f) /\ \A c \in Cores(f) : hw[f][c].alive => ~pci[f].base

LoadInv ==
    /\ pc \in Before => core = 1 /\ \A f \in Fns : Quiet(f)
    /\ pc \in Before \ {"drivers"} => fn = "dec"
    /\ pc \in Setup => \A f \in Fns :
         /\ Alive(f) /\ Absent(f)
         /\ Ahead(f) => Quiet(f) /\ dev[f].num # 0
         /\ f = fn => dev[f].num # 0
         /\ Behind(f) => Full(f)
    /\ pc \in {"init", "io"} => Quiet(fn)
    /\ pc \in {"io", "irq"} => dev[fn].mem
    /\ pc = "irq" => dev[fn].ready
    /\ pc = "read" => dev[fn].used = core
    /\ pc \in {"loaded", "nodes"} => \A f \in Fns : Alive(f) /\ Absent(f) /\ Full(f)

StopInv ==
    /\ pc = "nodes" => fn = "dec" /\ core = 1
    /\ pc = "stop" =>
         /\ \A c \in 1..(core - 1) : ~hw[fn][c].irq
         /\ Absent(fn)
         /\ dev[fn].num # 0 => dev[fn].used = CoresOf[fn] + 2 - core
         /\ dev[fn].num = 0 => core = 1
    /\ pc = "release" => \A c \in Cores(fn) : ~hw[fn][c].irq
    /\ pc \in {"stop", "release"} => \A f \in Fns :
         /\ Ahead(f) => Absent(f) /\ Full(f)
         /\ Behind(f) => Returned(f)
    /\ pc \in Afterwards => \A f \in Fns : Returned(f)

UndoInv ==
    /\ pc \in {"stop", "release"} \cup Afterwards => nodes["enc"] = 0
    /\ pc \in Afterwards \ {"slices"} => \A f \in Fns : dev[f] = NoDev
    /\ pc \in Afterwards \ {"slices", "fences"} => ~fences
    /\ pc \in {"unregister", "blocks", "gone"} => drm = "none"
    /\ pc \in {"blocks", "gone"} => \A f \in Fns : ~pci[f].driver
    /\ pc = "gone" => blocks = {}

FileInv ==
    /\ \A x \in Files : file[x] = "late" => pc = "loaded"
    /\ pc \in Unloading \cup {"gone"} => \A x \in Files : file[x] = "closed"

DriverInv ==
    /\ Types /\ HandlerHasItsCore /\ LateFilesEntered
    /\ LoadInv /\ StopInv /\ UndoInv /\ FileInv

-----------------------------------------------------------------------------
(* One entry of a table is written and the others stay.                    *)
LEMMA DevOne ==
  ASSUME DevTypes, NEW f \in Fns, NEW d, dev' = [dev EXCEPT ![f] = d]
  PROVE  /\ dev' = [g \in Fns |-> dev'[g]] /\ dev'[f] = d
         /\ \A g \in Fns : g # f => dev'[g] = dev[g]
         /\ d \in DevRecords(f) => DevTypes'
  <1>1. dev' = [g \in Fns |-> dev'[g]] /\ dev'[f] = d /\ \A g \in Fns : g # f => dev'[g] = dev[g]
    BY DEF DevTypes
  <1> QED
    BY <1>1 DEF DevTypes, DevRecords

(* The same for the cores of one function.                                 *)
LEMMA HwOne ==
  ASSUME HwTypes, NEW f \in Fns, NEW t, hw' = [hw EXCEPT ![f] = t]
  PROVE  /\ hw' = [g \in Fns |-> hw'[g]] /\ hw'[f] = t
         /\ \A g \in Fns : g # f => hw'[g] = hw[g]
         /\ t \in [Cores(f) -> CoreRecords] => HwTypes'
  <1>1. hw' = [g \in Fns |-> hw'[g]] /\ hw'[f] = t /\ \A g \in Fns : g # f => hw'[g] = hw[g]
    BY DEF HwTypes
  <1> QED
    BY <1>1 DEF HwTypes, Cores

(* And for one core.                                                       *)
LEMMA HwCore ==
  ASSUME HwTypes, NEW f \in Fns, NEW c \in Cores(f), NEW r \in CoreRecords,
         hw' = [hw EXCEPT ![f][c] = r]
  PROVE  /\ HwTypes' /\ hw'[f][c] = r
         /\ \A e \in Cores(f) : e # c => hw'[f][e] = hw[f][e]
         /\ \A g \in Fns : g # f => hw'[g] = hw[g]
  <1> DEFINE t == [hw[f] EXCEPT ![c] = r]
  <1>1. hw[f] \in [Cores(f) -> CoreRecords]
    BY DEF HwTypes
  <1>2. t \in [Cores(f) -> CoreRecords] /\ t[c] = r /\ \A e \in Cores(f) : e # c => t[e] = hw[f][e]
    BY <1>1
  <1>3. hw' = [hw EXCEPT ![f] = t]
    OBVIOUS
  <1> HIDE DEF t
  <1>4. HwTypes' /\ hw'[f] = t /\ \A g \in Fns : g # f => hw'[g] = hw[g]
    BY <1>2, <1>3, HwOne
  <1> QED
    BY <1>2, <1>4

(* The thread's place and what has no table stay in their types.           *)
LEMMA SmallStep ==
  Types /\ LoadInv /\ [Next]_vars => SmallTypes'
  <1> SUFFICES ASSUME Types, LoadInv, [Next]_vars PROVE SmallTypes'
    OBVIOUS
  <1> USE DriverAssumption DEF Go, Stay, Restart, Outer, Inner, Fns, Loading, Unloading, Ended
  <1>1. CASE CheckMemory
    BY <1>1 DEF CheckMemory, Types, SmallTypes
  <1>2. CASE RegisterDriver
    <2> DEFINE R == [driver : BOOLEAN, bound : BOOLEAN, enabled : BOOLEAN, base : BOOLEAN]
    <2>1. ASSUME NEW e \in BOOLEAN, NEW m \in BOOLEAN PROVE Probed(fn, e, m) \in R
      BY DEF Probed, Found, NoDevice
    <2>2. [pci EXCEPT ![fn].driver = TRUE] \in [Fns -> R]
      BY DEF Types, SmallTypes
    <2>3. ASSUME NEW r \in R PROVE [pci EXCEPT ![fn] = r] \in [Fns -> R]
      BY DEF Types, SmallTypes
    <2>4. pci \in [Fns -> R]
      BY DEF Types, SmallTypes
    <2> HIDE DEF R
    <2>5. pci' \in [Fns -> R]
      <3>1. \/ pci' = pci \/ pci' = [pci EXCEPT ![fn].driver = TRUE]
            \/ \E e, m \in BOOLEAN : pci' = [pci EXCEPT ![fn] = Probed(fn, e, m)]
        BY <1>2 DEF RegisterDriver
      <3> QED
        BY <2>1, <2>2, <2>3, <2>4, <3>1
    <2>6. /\ pc' \in {pc, "failed", "drm"} /\ fn' \in Fns /\ core' \in {core, 1}
          /\ core' = 1 \/ fn' = fn
      BY <1>2 DEF RegisterDriver, Types, SmallTypes, LoadInv, Before
    <2>7. UNCHANGED <<useirq, drm, fences, blocks, nodes, config, vcmdsup, file>>
      BY <1>2 DEF RegisterDriver
    <2>8. pc' \in Loading \cup Unloading \cup Ended \cup {"loaded"} /\ core' \in 1..CoresOf[fn']
      BY <2>6 DEF Types, SmallTypes
    <2> QED
      BY <2>5, <2>6, <2>7, <2>8 DEF Types, SmallTypes, R
  <1>3. CASE AllocDrm
    BY <1>3 DEF AllocDrm, Types, SmallTypes
  <1>4. CASE RegisterDrm
    BY <1>4 DEF RegisterDrm, Types, SmallTypes
  <1>5. CASE ReservePool
    <2>1. 1..Blocks \subseteq 1..Blocks /\ 1..FewBlocks \subseteq 1..Blocks
      OBVIOUS
    <2>2. blocks' \subseteq 1..Blocks
      BY <1>5, <2>1 DEF ReservePool, PoolBlocks, Types, SmallTypes
    <2> QED
      BY <1>5, <2>2 DEF ReservePool, Types, SmallTypes
  <1>6. CASE VcmdProbe
    <2>1. nodes' \in [Fns -> Nat]
      BY <1>6 DEF VcmdProbe, NodesMade
    <2> QED
      BY <1>6, <2>1 DEF VcmdProbe, Announced, Types, SmallTypes
  <1>7. CASE InitFunction
    BY <1>7 DEF InitFunction, Types, SmallTypes, NextFunction
  <1>8. CASE ReserveIO
    <2>1. pc' \in {"failed", "irq"}
      BY <1>8 DEF ReserveIO
    <2> QED
      BY <1>8, <2>1 DEF ReserveIO, Types, SmallTypes
  <1>9. CASE RequestIrq
    BY <1>9 DEF RequestIrq, Types, SmallTypes, LastCore
  <1>10. CASE ReadRegisters
    BY <1>10 DEF ReadRegisters, Types, SmallTypes, NextFunction, LastCore
  <1>11. ASSUME NEW x \in Files, Open(x) PROVE SmallTypes'
    BY <1>11 DEF Open, Types, SmallTypes
  <1>12. ASSUME NEW x \in Files, Close(x) PROVE SmallTypes'
    BY <1>12 DEF Close, Types, SmallTypes
  <1>13. ASSUME NEW x \in Files, ReserveTooEarly(x) PROVE SmallTypes'
    BY <1>13 DEF ReserveTooEarly, Types, SmallTypes
  <1>14. CASE Unload
    BY <1>14 DEF Unload, Types, SmallTypes
  <1>15. CASE release_norslice_node
    BY <1>15 DEF release_norslice_node, Types, SmallTypes
  <1>16. CASE StopCore
    BY <1>16 DEF StopCore, Types, SmallTypes, AfterFunction, LastCore
  <1>17. CASE ReleaseFunction
    BY <1>17 DEF ReleaseFunction, Types, SmallTypes, AfterFunction
  <1>18. CASE FreeSlices
    BY <1>18 DEF FreeSlices, Types, SmallTypes
  <1>19. CASE releaseFenceData
    BY <1>19 DEF releaseFenceData, Types, SmallTypes
  <1>20. CASE UnregisterDrm
    BY <1>20 DEF UnregisterDrm, Types, SmallTypes
  <1>21. CASE UnregisterDrivers
    <2>1. \A f \in Fns : Removed(pci[f]) \in [driver : BOOLEAN, bound : BOOLEAN, enabled : BOOLEAN, base : BOOLEAN]
      BY DEF Removed, Types, SmallTypes
    <2> QED
      BY <1>21, <2>1 DEF UnregisterDrivers, Types, SmallTypes
  <1>22. CASE hantro_memory_pool_remove
    BY <1>22 DEF hantro_memory_pool_remove, Types, SmallTypes
  <1>23. CASE UNCHANGED vars
    BY <1>23 DEF vars, Types, SmallTypes
  <1> QED
    BY <1>1, <1>2, <1>3, <1>4, <1>5, <1>6, <1>7, <1>8, <1>9, <1>10, <1>11,
       <1>12, <1>13, <1>14, <1>15, <1>16, <1>17, <1>18, <1>19, <1>20, <1>21,
       <1>22, <1>23
    DEF Next

(* The devices stay in their types: the index of the next buffer stays      *)
(* within the pool.                                                        *)
LEMMA DevStep ==
  Types /\ LoadInv /\ StopInv /\ [Next]_vars => DevTypes'
  <1> SUFFICES ASSUME Types, LoadInv, StopInv, [Next]_vars PROVE DevTypes'
    OBVIOUS
  <1> USE DriverAssumption DEF Go, Stay, Restart, Outer, Inner, Fns
  <1>1. CASE CheckMemory
    BY <1>1 DEF CheckMemory, Types, DevTypes, DevRecords
  <1>2. CASE RegisterDriver
    BY <1>2 DEF RegisterDriver, Types, DevTypes, DevRecords
  <1>3. CASE AllocDrm
    BY <1>3 DEF AllocDrm, Types, DevTypes, DevRecords
  <1>4. CASE RegisterDrm
    BY <1>4 DEF RegisterDrm, Types, DevTypes, DevRecords
  <1>5. CASE ReservePool
    BY <1>5 DEF ReservePool, Types, DevTypes, DevRecords
  <1>6. CASE VcmdProbe
    <2>1. ASSUME NEW f \in Fns PROVE CoresAdded(f) \in DevRecords(f)
      BY DEF CoresAdded, Types, DevTypes, DevRecords
    <2>2. dev' = [f \in Fns |-> CoresAdded(f)]
      BY <1>6 DEF VcmdProbe
    <2> QED
      BY <2>1, <2>2 DEF DevTypes, DevRecords
  <1>7. CASE InitFunction
    <2>1. fn \in Fns /\ dev[fn] \in DevRecords(fn)
      BY DEF Types, SmallTypes, DevTypes
    <2>2. [dev[fn] EXCEPT !.num = 0] \in DevRecords(fn) /\ MemTaken(dev[fn]) \in DevRecords(fn)
      BY <2>1 DEF MemTaken, DevRecords
    <2>3. \/ UNCHANGED dev
          \/ dev' = [dev EXCEPT ![fn] = [dev[fn] EXCEPT !.num = 0]]
          \/ dev' = [dev EXCEPT ![fn] = MemTaken(dev[fn])]
      BY <1>7 DEF InitFunction
    <2> HIDE DEF Fns
    <2> QED
      BY <2>1, <2>2, <2>3, DevOne DEF Types, DevTypes, DevRecords
  <1>8. CASE ReserveIO
    <2>1. fn \in Fns /\ dev[fn] \in DevRecords(fn)
      BY DEF Types, SmallTypes, DevTypes
    <2>2. Prepared(dev[fn]) \in DevRecords(fn)
      BY <2>1 DEF Prepared, DevRecords
    <2>3. dev' = [dev EXCEPT ![fn] = Prepared(dev[fn])]
      BY <1>8 DEF ReserveIO
    <2> HIDE DEF Fns
    <2> QED
      BY <2>1, <2>2, <2>3, DevOne DEF Types
  <1>9. CASE RequestIrq
    <2>1. fn \in Fns /\ dev[fn] \in DevRecords(fn)
      BY DEF Types, SmallTypes, DevTypes
    <2>2. PoolReset(dev[fn]) \in DevRecords(fn)
      BY <2>1 DEF PoolReset, DevRecords
    <2>3. UNCHANGED dev \/ dev' = [dev EXCEPT ![fn] = PoolReset(dev[fn])]
      BY <1>9 DEF RequestIrq
    <2> HIDE DEF Fns
    <2> QED
      BY <2>1, <2>2, <2>3, DevOne DEF Types, DevTypes, DevRecords
  <1>10. CASE ReadRegisters
    <2>1. fn \in Fns /\ dev[fn] \in DevRecords(fn) /\ core \in 1..CoresOf[fn]
      BY DEF Types, SmallTypes, DevTypes
    <2>2. dev[fn].used = core
      BY <1>10 DEF ReadRegisters, LoadInv
    <2>3. [dev[fn] EXCEPT !.used = dev[fn].used + 1] \in DevRecords(fn)
      BY <2>1, <2>2 DEF DevRecords
    <2>4. UNCHANGED dev \/ dev' = [dev EXCEPT ![fn] = [dev[fn] EXCEPT !.used = dev[fn].used + 1]]
      BY <1>10 DEF ReadRegisters
    <2> HIDE DEF Fns
    <2> QED
      BY <2>1, <2>3, <2>4, DevOne DEF Types, DevTypes, DevRecords
  <1>11. ASSUME NEW x \in Files, Open(x) PROVE DevTypes'
    <2>1. \A f \in Fns : Entered(x, TRUE)[f] \in DevRecords(f)
      BY <1>11 DEF Entered, Types, DevTypes, DevRecords
    <2>2. UNCHANGED dev \/ dev' = Entered(x, TRUE)
      BY <1>11 DEF Open
    <2>3. Entered(x, TRUE) = [f \in Fns |-> Entered(x, TRUE)[f]]
      BY DEF Entered
    <2> HIDE DEF Fns
    <2> QED
      BY <2>1, <2>2, <2>3 DEF Types, DevTypes, DevRecords
  <1>12. ASSUME NEW x \in Files, Close(x) PROVE DevTypes'
    <2>1. \A f \in Fns : Entered(x, FALSE)[f] \in DevRecords(f)
      BY <1>12 DEF Entered, Types, DevTypes, DevRecords
    <2>2. UNCHANGED dev \/ dev' = Entered(x, FALSE)
      BY <1>12 DEF Close
    <2>3. Entered(x, FALSE) = [f \in Fns |-> Entered(x, FALSE)[f]]
      BY DEF Entered
    <2> HIDE DEF Fns
    <2> QED
      BY <2>1, <2>2, <2>3 DEF Types, DevTypes, DevRecords
  <1>13. ASSUME NEW x \in Files, ReserveTooEarly(x) PROVE DevTypes'
    BY <1>13 DEF ReserveTooEarly, Types, DevTypes, DevRecords
  <1>14. CASE Unload
    BY <1>14 DEF Unload, Types, DevTypes, DevRecords
  <1>15. CASE release_norslice_node
    BY <1>15 DEF release_norslice_node, Types, DevTypes, DevRecords
  <1>16. CASE StopCore
    <2>1. fn \in Fns /\ dev[fn] \in DevRecords(fn) /\ core \in 1..CoresOf[fn]
      BY DEF Types, SmallTypes, DevTypes
    <2>2. dev[fn].num # 0 => dev[fn].used = CoresOf[fn] + 2 - core
      BY <1>16 DEF StopCore, StopInv
    <2>3. dev[fn].num # 0 => [dev[fn] EXCEPT !.used = dev[fn].used - 1] \in DevRecords(fn)
      BY <2>1, <2>2 DEF DevRecords
    <2>4. \/ UNCHANGED dev
          \/ dev[fn].num # 0 /\ dev' = [dev EXCEPT ![fn] = [dev[fn] EXCEPT !.used = dev[fn].used - 1]]
      BY <1>16 DEF StopCore
    <2> HIDE DEF Fns
    <2> QED
      BY <2>1, <2>3, <2>4, DevOne DEF Types, DevTypes, DevRecords
  <1>17. CASE ReleaseFunction
    <2>1. fn \in Fns /\ dev[fn] \in DevRecords(fn)
      BY DEF Types, SmallTypes, DevTypes
    <2>2. MemReleased(dev[fn]) \in DevRecords(fn)
      BY <2>1 DEF MemReleased, NoDev, DevRecords
    <2>3. dev' = [dev EXCEPT ![fn] = MemReleased(dev[fn])]
      BY <1>17 DEF ReleaseFunction
    <2> HIDE DEF Fns
    <2> QED
      BY <2>1, <2>2, <2>3, DevOne DEF Types
  <1>18. CASE FreeSlices
    <2>1. ASSUME NEW f \in Fns PROVE NoDev \in DevRecords(f)
      BY DEF NoDev, DevRecords
    <2>2. dev' = [f \in Fns |-> NoDev]
      BY <1>18 DEF FreeSlices
    <2> QED
      BY <2>1, <2>2 DEF DevTypes, DevRecords
  <1>19. CASE releaseFenceData
    BY <1>19 DEF releaseFenceData, Types, DevTypes, DevRecords
  <1>20. CASE UnregisterDrm
    BY <1>20 DEF UnregisterDrm, Types, DevTypes, DevRecords
  <1>21. CASE UnregisterDrivers
    BY <1>21 DEF UnregisterDrivers, Types, DevTypes, DevRecords
  <1>22. CASE hantro_memory_pool_remove
    BY <1>22 DEF hantro_memory_pool_remove, Types, DevTypes, DevRecords
  <1>23. CASE UNCHANGED vars
    BY <1>23 DEF vars, Types, DevTypes, DevRecords
  <1> QED
    BY <1>1, <1>2, <1>3, <1>4, <1>5, <1>6, <1>7, <1>8, <1>9, <1>10, <1>11,
       <1>12, <1>13, <1>14, <1>15, <1>16, <1>17, <1>18, <1>19, <1>20, <1>21,
       <1>22, <1>23
    DEF Next

(* The regions of one function are written, nothing else of its cores.     *)
LEMMA RegionsSet ==
  ASSUME HwTypes, NEW f \in Fns, NEW S, hw' = WithRegions(f, S)
  PROVE  /\ HwTypes'
         /\ \A c \in Cores(f) : hw'[f][c] = [hw[f][c] EXCEPT !.region = c \in S]
         /\ \A g \in Fns : g # f => hw'[g] = hw[g]
  <1> DEFINE t == [c \in Cores(f) |-> [hw[f][c] EXCEPT !.region = c \in S]]
  <1>1. hw' = [hw EXCEPT ![f] = t]
    BY DEF WithRegions
  <1>2. t \in [Cores(f) -> CoreRecords]
    <2>1. \A c \in Cores(f) : [hw[f][c] EXCEPT !.region = c \in S] \in CoreRecords
      <3> TAKE c \in Cores(f)
      <3>1. hw[f][c] \in CoreRecords
        BY DEF HwTypes
      <3>2. (c \in S) \in BOOLEAN
        OBVIOUS
      <3> QED
        BY <3>1, <3>2 DEF CoreRecords
    <2> QED
      BY <2>1
  <1>3. \A c \in Cores(f) : t[c] = [hw[f][c] EXCEPT !.region = c \in S]
    OBVIOUS
  <1> HIDE DEF t
  <1> QED
    BY <1>1, <1>2, <1>3, HwOne

(* The cores stay in their types.                                          *)
LEMMA HwStep ==
  Types /\ [Next]_vars => HwTypes'
  <1> SUFFICES ASSUME Types, [Next]_vars PROVE HwTypes'
    OBVIOUS
  <1> USE DriverAssumption DEF Go, Stay, Restart, Outer, Inner, Fns
  <1>1. CASE CheckMemory
    BY <1>1 DEF CheckMemory, Types, HwTypes
  <1>2. CASE RegisterDriver
    BY <1>2 DEF RegisterDriver, Types, HwTypes
  <1>3. CASE AllocDrm
    BY <1>3 DEF AllocDrm, Types, HwTypes
  <1>4. CASE RegisterDrm
    BY <1>4 DEF RegisterDrm, Types, HwTypes
  <1>5. CASE ReservePool
    BY <1>5 DEF ReservePool, Types, HwTypes
  <1>6. CASE VcmdProbe
    <2>1. ASSUME NEW f \in Fns, NEW c \in Cores(f)
          PROVE  CoreAdded(hw[f][c]) \in CoreRecords
      <3>1. hw[f][c] \in CoreRecords
        BY DEF Types, HwTypes
      <3> QED
        BY <3>1 DEF CoreAdded, CoreRecords
    <2>2. hw' = [f \in Fns |-> [c \in Cores(f) |-> CoreAdded(hw[f][c])]]
      BY <1>6 DEF VcmdProbe
    <2> QED
      BY <2>1, <2>2 DEF HwTypes
  <1>7. CASE InitFunction
    BY <1>7 DEF InitFunction, Types, HwTypes
  <1>8. CASE ReserveIO
    <2>1. fn \in Fns
      BY DEF Types, SmallTypes
    <2>2. PICK S \in SUBSET Cores(fn) : hw' = WithRegions(fn, S)
      BY <1>8 DEF ReserveIO
    <2>3. HwTypes'
      BY <2>1, <2>2, RegionsSet DEF Types
    <2> QED
      BY <2>3
  <1>9. CASE RequestIrq
    <2>1. fn \in Fns /\ core \in Cores(fn) /\ hw[fn][core] \in CoreRecords
      BY DEF Types, SmallTypes, HwTypes, Cores
    <2>2. /\ [hw[fn][core] EXCEPT !.line = FALSE] \in CoreRecords
          /\ [hw[fn][core] EXCEPT !.irq = TRUE] \in CoreRecords
      BY <2>1 DEF CoreRecords
    <2>3. \/ UNCHANGED hw \/ hw' = WithRegions(fn, {})
          \/ \E r \in CoreRecords : hw' = [hw EXCEPT ![fn][core] = r]
      BY <1>9, <2>1, <2>2 DEF RequestIrq
    <2> QED
      BY <2>1, <2>3, RegionsSet, HwCore DEF Types, HwTypes
  <1>10. CASE ReadRegisters
    <2>1. fn \in Fns /\ core \in Cores(fn) /\ hw[fn][core] \in CoreRecords /\ dev[fn].used \in Nat
      BY DEF Types, SmallTypes, HwTypes, DevTypes, DevRecords, Cores
    <2>2. [hw[fn][core] EXCEPT !.status = dev[fn].used] \in CoreRecords
      BY <2>1 DEF CoreRecords
    <2>3. UNCHANGED hw \/ \E r \in CoreRecords : hw' = [hw EXCEPT ![fn][core] = r]
      BY <1>10, <2>1, <2>2 DEF ReadRegisters
    <2> QED
      BY <2>1, <2>3, HwCore DEF Types, HwTypes
  <1>11. ASSUME NEW x \in Files, Open(x) PROVE HwTypes'
    BY <1>11 DEF Open, Types, HwTypes
  <1>12. ASSUME NEW x \in Files, Close(x) PROVE HwTypes'
    BY <1>12 DEF Close, Types, HwTypes
  <1>13. ASSUME NEW x \in Files, ReserveTooEarly(x) PROVE HwTypes'
    BY <1>13 DEF ReserveTooEarly, Types, HwTypes
  <1>14. CASE Unload
    BY <1>14 DEF Unload, Types, HwTypes
  <1>15. CASE release_norslice_node
    BY <1>15 DEF release_norslice_node, Types, HwTypes
  <1>16. CASE StopCore
    <2>1. fn \in Fns /\ core \in Cores(fn) /\ hw[fn][core] \in CoreRecords
      BY DEF Types, SmallTypes, HwTypes, Cores
    <2>2. Stopped(hw[fn][core]) \in CoreRecords
      BY <2>1 DEF CoreRecords, Stopped
    <2>3. UNCHANGED hw \/ hw' = [hw EXCEPT ![fn][core] = Stopped(hw[fn][core])]
      BY <1>16 DEF StopCore
    <2> QED
      BY <2>1, <2>2, <2>3, HwCore DEF Types, HwTypes
  <1>17. CASE ReleaseFunction
    <2>1. fn \in Fns /\ hw[fn] \in [Cores(fn) -> CoreRecords]
      BY DEF Types, SmallTypes, HwTypes
    <2>2. \A c \in Cores(fn) : Freed(hw[fn][c]) \in CoreRecords
      BY <2>1 DEF CoreRecords, Freed
    <2>3. hw' = [hw EXCEPT ![fn] = [c \in Cores(fn) |-> Freed(hw[fn][c])]]
      BY <1>17 DEF ReleaseFunction
    <2> HIDE DEF Fns
    <2> QED
      BY <2>1, <2>2, <2>3, HwOne DEF Types
  <1>18. CASE FreeSlices
    BY <1>18 DEF FreeSlices, Types, HwTypes
  <1>19. CASE releaseFenceData
    BY <1>19 DEF releaseFenceData, Types, HwTypes
  <1>20. CASE UnregisterDrm
    BY <1>20 DEF UnregisterDrm, Types, HwTypes
  <1>21. CASE UnregisterDrivers
    BY <1>21 DEF UnregisterDrivers, Types, HwTypes
  <1>22. CASE hantro_memory_pool_remove
    BY <1>22 DEF hantro_memory_pool_remove, Types, HwTypes
  <1>23. CASE UNCHANGED vars
    BY <1>23 DEF vars, Types, HwTypes
  <1> QED
    BY <1>1, <1>2, <1>3, <1>4, <1>5, <1>6, <1>7, <1>8, <1>9, <1>10, <1>11,
       <1>12, <1>13, <1>14, <1>15, <1>16, <1>17, <1>18, <1>19, <1>20, <1>21,
       <1>22, <1>23
    DEF Next
-----------------------------------------------------------------------------
(* What the steps that touch a function's device and cores do to them.     *)

(* Every step leaves the function it is not at alone.                      *)
Elsewhere == \A f \in Fns : f # fn => hw'[f] = hw[f] /\ dev'[f] = dev[f]

(* hantro_vcmd_probe enters all the cores, none of which is used yet.      *)
LEMMA ProbeDoes ==
  ASSUME Types, VcmdProbe
  PROVE  /\ pc = "probe" /\ pc' = "init" /\ UNCHANGED <<fn, core, pci, drm, fences, blocks, file>>
         /\ \A f \in Fns : dev'[f].num # 0 /\ dev'[f].mem = dev[f].mem /\ dev'[f].ready = dev[f].ready
         /\ \A f \in Fns : \A c \in Cores(f) :
              /\ hw'[f][c].alive /\ hw'[f][c].region = hw[f][c].region
              /\ hw'[f][c].irq = hw[f][c].irq
  <1>1. ASSUME NEW f \in Fns
        PROVE  dev'[f].num # 0 /\ dev'[f].mem = dev[f].mem /\ dev'[f].ready = dev[f].ready
    <2>1. dev'[f] = CoresAdded(f) /\ dev[f] \in DevRecords(f) /\ CoresOf[f] # 0
      BY <1>1, DriverAssumption DEF VcmdProbe, Types, DevTypes
    <2> QED
      BY <2>1 DEF CoresAdded, DevRecords
  <1>2. ASSUME NEW f \in Fns, NEW c \in Cores(f)
        PROVE  /\ hw'[f][c].alive /\ hw'[f][c].region = hw[f][c].region
               /\ hw'[f][c].irq = hw[f][c].irq
    <2>1. hw'[f][c] = CoreAdded(hw[f][c]) /\ hw[f][c] \in CoreRecords
      BY <1>2 DEF VcmdProbe, Types, HwTypes
    <2> QED
      BY <2>1 DEF CoreAdded, CoreRecords
  <1> QED
    BY <1>1, <1>2 DEF VcmdProbe, Go, Stay, Outer

(* hantro_vcmd_init takes the memory of a function or takes the function   *)
(* out of its device.                                                      *)
LEMMA InitDoes ==
  ASSUME Types, InitFunction
  PROVE  /\ pc = "init" /\ Elsewhere /\ UNCHANGED <<hw, pci, file>>
         /\ \/ /\ pc' = "failed" /\ UNCHANGED <<fn, core, dev>>
            \/ /\ pc' = "io" /\ UNCHANGED <<fn, core>> /\ dev'[fn].mem
               /\ dev'[fn].num = dev[fn].num /\ dev'[fn].ready = dev[fn].ready
               /\ dev'[fn].used = dev[fn].used
            \/ /\ ~pci[fn].base /\ dev'[fn].num = 0 /\ NextFunction
               /\ dev'[fn].mem = dev[fn].mem /\ dev'[fn].ready = dev[fn].ready
  <1>1. fn \in Fns /\ dev[fn] \in DevRecords(fn)
    BY DEF Types, SmallTypes, DevTypes
  <1>2. CASE SkipsFunction(fn) /\ dev' = [dev EXCEPT ![fn].num = 0] /\ NextFunction
    <2> DEFINE d == [dev[fn] EXCEPT !.num = 0]
    <2>1. dev' = [dev EXCEPT ![fn] = d] /\ d.num = 0 /\ d.mem = dev[fn].mem /\ d.ready = dev[fn].ready
      BY <1>1, <1>2 DEF DevRecords
    <2> HIDE DEF d
    <2>2. dev'[fn] = d /\ \A f \in Fns : f # fn => dev'[f] = dev[f]
      BY <1>1, <2>1, DevOne DEF Types
    <2> QED
      BY <1>2, <2>1, <2>2 DEF InitFunction, SkipsFunction, Elsewhere, Outer
  <1>3. CASE dev' = [dev EXCEPT ![fn] = MemTaken(dev[fn])] /\ pc' = "io" /\ UNCHANGED <<fn, core>>
    <2> DEFINE d == MemTaken(dev[fn])
    <2>1. /\ d.mem /\ d.num = dev[fn].num /\ d.ready = dev[fn].ready /\ d.used = dev[fn].used
      BY <1>1 DEF DevRecords, MemTaken
    <2> HIDE DEF d
    <2>2. dev'[fn] = d /\ \A f \in Fns : f # fn => dev'[f] = dev[f]
      BY <1>1, <1>3, DevOne DEF Types, d
    <2> QED
      BY <1>3, <2>1, <2>2 DEF InitFunction, Elsewhere, Outer
  <1>4. CASE pc' = "failed" /\ UNCHANGED <<fn, core, dev>>
    BY <1>4 DEF InitFunction, Elsewhere, Outer
  <1> QED
    BY <1>2, <1>3, <1>4 DEF InitFunction, Go, Stay

(* vcmd_reserve_IO makes the lists and queues ready and takes the regions  *)
(* of cores that answer.                                                   *)
LEMMA IoDoes ==
  ASSUME Types, ReserveIO
  PROVE  /\ pc = "io" /\ pc' \in {"failed", "irq"} /\ core' = 1 /\ fn' = fn /\ Elsewhere
         /\ UNCHANGED <<pci, file>>
         /\ dev'[fn].ready /\ dev'[fn].num = dev[fn].num /\ dev'[fn].mem = dev[fn].mem
         /\ \A c \in Cores(fn) : hw'[fn][c].alive = hw[fn][c].alive /\ hw'[fn][c].irq = hw[fn][c].irq
  <1>1. fn \in Fns /\ dev[fn] \in DevRecords(fn) /\ hw[fn] \in [Cores(fn) -> CoreRecords]
    BY DEF Types, SmallTypes, DevTypes, HwTypes
  <1>2. dev' = [dev EXCEPT ![fn] = Prepared(dev[fn])]
    BY DEF ReserveIO
  <1>3. dev'[fn] = Prepared(dev[fn]) /\ \A f \in Fns : f # fn => dev'[f] = dev[f]
    BY <1>1, <1>2, DevOne DEF Types
  <1>4. dev'[fn].ready /\ dev'[fn].num = dev[fn].num /\ dev'[fn].mem = dev[fn].mem
    BY <1>1, <1>3 DEF Prepared, DevRecords
  <1>5. PICK S : hw' = WithRegions(fn, S)
    BY DEF ReserveIO
  <1>6. /\ \A c \in Cores(fn) : hw'[fn][c] = [hw[fn][c] EXCEPT !.region = c \in S]
        /\ \A f \in Fns : f # fn => hw'[f] = hw[f]
    BY <1>1, <1>5, RegionsSet DEF Types
  <1>7. ASSUME NEW c \in Cores(fn)
        PROVE  hw'[fn][c].alive = hw[fn][c].alive /\ hw'[fn][c].irq = hw[fn][c].irq
    <2>1. PICK r \in CoreRecords : r = hw[fn][c]
      BY <1>1
    <2>2. hw'[fn][c] = [r EXCEPT !.region = c \in S]
      BY <1>6, <2>1
    <2>3. [r EXCEPT !.region = c \in S].alive = r.alive /\ [r EXCEPT !.region = c \in S].irq = r.irq
      BY DEF CoreRecords
    <2> QED
      BY <2>1, <2>2, <2>3
  <1> QED
    BY <1>3, <1>4, <1>6, <1>7 DEF ReserveIO, Elsewhere, Go, Outer

(* The walk over the interrupts registers a handler for a core that has    *)
(* its region, and otherwise changes neither regions nor cores; a refused  *)
(* line gives the regions back.                                            *)
LEMMA IrqDoes ==
  ASSUME Types, RequestIrq
  PROVE  /\ pc = "irq" /\ pc' \in {"failed", "irq", "read"} /\ fn' = fn /\ Elsewhere
         /\ UNCHANGED <<pci, file>>
         /\ dev'[fn].ready = dev[fn].ready /\ dev'[fn].num = dev[fn].num
         /\ dev'[fn].mem = dev[fn].mem
         /\ pc' = "read" => dev'[fn].used = 1 /\ core' = 1
         /\ \A c \in Cores(fn) : hw'[fn][c].alive = hw[fn][c].alive
         /\ pc' # "failed" => \A c \in Cores(fn) :
              /\ hw'[fn][c].region = hw[fn][c].region
              /\ hw'[fn][c].irq => hw[fn][c].irq \/ hw[fn][c].region
  <1>1. /\ fn \in Fns /\ dev[fn] \in DevRecords(fn) /\ hw[fn] \in [Cores(fn) -> CoreRecords]
        /\ core \in Cores(fn)
    BY DEF Types, SmallTypes, DevTypes, HwTypes, Cores
  <1>2. \/ UNCHANGED dev /\ pc' # "read"
        \/ dev' = [dev EXCEPT ![fn] = PoolReset(dev[fn])] /\ core' = 1
    BY DEF RequestIrq, Go
  <1>3. /\ dev'[fn].ready = dev[fn].ready /\ dev'[fn].num = dev[fn].num
        /\ dev'[fn].mem = dev[fn].mem /\ \A f \in Fns : f # fn => dev'[f] = dev[f]
        /\ pc' = "read" => dev'[fn].used = 1 /\ core' = 1
    <2>1. CASE UNCHANGED dev /\ pc' # "read"
      BY <2>1
    <2>2. CASE dev' = [dev EXCEPT ![fn] = PoolReset(dev[fn])] /\ core' = 1
      <3>1. dev'[fn] = PoolReset(dev[fn]) /\ \A f \in Fns : f # fn => dev'[f] = dev[f]
        BY <1>1, <2>2, DevOne DEF Types
      <3>2. PoolReset(dev[fn]).ready = dev[fn].ready /\ PoolReset(dev[fn]).num = dev[fn].num
            /\ PoolReset(dev[fn]).mem = dev[fn].mem /\ PoolReset(dev[fn]).used = 1
        BY <1>1 DEF PoolReset, DevRecords
      <3> QED
        BY <2>2, <3>1, <3>2
    <2> QED
      BY <1>2, <2>1, <2>2
  <1> DEFINE Handled(r) == /\ r \in CoreRecords /\ r.alive = hw[fn][core].alive
                           /\ r.region = hw[fn][core].region
                           /\ r.irq => hw[fn][core].irq \/ hw[fn][core].region
  <1>4. \/ UNCHANGED hw
        \/ pc' = "failed" /\ hw' = WithRegions(fn, {})
        \/ \E r : Handled(r) /\ hw' = [hw EXCEPT ![fn][core] = r]
    <2>1. hw[fn][core] \in CoreRecords
      BY <1>1
    <2>2. /\ Handled([hw[fn][core] EXCEPT !.line = FALSE])
          /\ hw[fn][core].region => Handled([hw[fn][core] EXCEPT !.irq = TRUE])
          /\ Handled(hw[fn][core])
      BY <2>1 DEF CoreRecords
    <2> HIDE DEF Handled
    <2> QED
      BY <2>2 DEF RequestIrq, Go
  <1>5. CASE UNCHANGED hw
    BY <1>3, <1>5 DEF RequestIrq, Elsewhere, Go, Outer
  <1>6. CASE pc' = "failed" /\ hw' = WithRegions(fn, {})
    <2>1. /\ \A c \in Cores(fn) : hw'[fn][c] = [hw[fn][c] EXCEPT !.region = c \in {}]
          /\ \A f \in Fns : f # fn => hw'[f] = hw[f]
      BY <1>1, <1>6, RegionsSet DEF Types
    <2>2. ASSUME NEW c \in Cores(fn) PROVE hw'[fn][c].alive = hw[fn][c].alive
      <3>1. PICK r \in CoreRecords : r = hw[fn][c]
        BY <1>1
      <3>2. hw'[fn][c] = [r EXCEPT !.region = c \in {}]
        BY <2>1, <3>1
      <3>3. [r EXCEPT !.region = c \in {}].alive = r.alive
        BY DEF CoreRecords
      <3> QED
        BY <3>1, <3>2, <3>3
    <2> QED
      BY <1>3, <1>6, <2>1, <2>2 DEF RequestIrq, Elsewhere, Outer
  <1>7. ASSUME NEW r, Handled(r), hw' = [hw EXCEPT ![fn][core] = r]
        PROVE  /\ Elsewhere
               /\ \A c \in Cores(fn) :
                    /\ hw'[fn][c].alive = hw[fn][c].alive /\ hw'[fn][c].region = hw[fn][c].region
                    /\ hw'[fn][c].irq => hw[fn][c].irq \/ hw[fn][c].region
    <2>1. /\ hw'[fn][core] = r /\ \A e \in Cores(fn) : e # core => hw'[fn][e] = hw[fn][e]
          /\ \A f \in Fns : f # fn => hw'[f] = hw[f]
      BY <1>1, <1>7, HwCore DEF Types
    <2> QED
      BY <1>3, <1>7, <2>1 DEF Elsewhere
  <1>8. /\ pc = "irq" /\ pc' \in {"failed", "irq", "read"} /\ fn' = fn /\ UNCHANGED <<pci, file>>
    BY DEF RequestIrq, Go, Outer
  <1> HIDE DEF Handled
  <1> QED
    BY <1>3, <1>4, <1>5, <1>6, <1>7, <1>8

(* Reading the registers of a core uses one buffer; the load moves on      *)
(* after the last.                                                         *)
LEMMA ReadDoes ==
  ASSUME Types, ReadRegisters
  PROVE  /\ pc = "read" /\ Elsewhere /\ UNCHANGED <<pci, file>>
         /\ dev'[fn].ready = dev[fn].ready /\ dev'[fn].num = dev[fn].num
         /\ dev'[fn].mem = dev[fn].mem
         /\ \A c \in Cores(fn) : /\ hw'[fn][c].alive = hw[fn][c].alive
                                 /\ hw'[fn][c].region = hw[fn][c].region
                                 /\ hw'[fn][c].irq = hw[fn][c].irq
         /\ \/ pc' = "oops"
            \/ /\ dev'[fn].used = dev[fn].used + 1
               /\ \/ core = CoresOf[fn] /\ NextFunction
                  \/ core # CoresOf[fn] /\ core' = core + 1 /\ fn' = fn /\ pc' = "read"
  <1>1. /\ fn \in Fns /\ dev[fn] \in DevRecords(fn) /\ hw[fn] \in [Cores(fn) -> CoreRecords]
        /\ core \in Cores(fn)
    BY DEF Types, SmallTypes, DevTypes, HwTypes, Cores
  <1>2. CASE pc' = "oops" /\ UNCHANGED <<dev, hw>>
    BY <1>2 DEF ReadRegisters, Elsewhere, Outer
  <1>3. CASE /\ hw' = [hw EXCEPT ![fn][core].status = dev[fn].used]
             /\ dev' = [dev EXCEPT ![fn].used = @ + 1]
             /\ IF LastCore THEN NextFunction ELSE core' = core + 1 /\ UNCHANGED <<pc, fn>>
    <2> DEFINE d == [dev[fn] EXCEPT !.used = dev[fn].used + 1]
    <2> DEFINE r == [hw[fn][core] EXCEPT !.status = dev[fn].used]
    <2>1. dev' = [dev EXCEPT ![fn] = d] /\ hw' = [hw EXCEPT ![fn][core] = r]
      BY <1>3
    <2>2. d.ready = dev[fn].ready /\ d.num = dev[fn].num /\ d.mem = dev[fn].mem /\ d.used = dev[fn].used + 1
      BY <1>1 DEF DevRecords
    <2>3. hw[fn][core] \in CoreRecords /\ dev[fn].used \in Nat
      BY <1>1 DEF DevRecords, DriverAssumption
    <2>4. /\ r \in CoreRecords /\ r.alive = hw[fn][core].alive /\ r.region = hw[fn][core].region
          /\ r.irq = hw[fn][core].irq
      BY <2>3 DEF CoreRecords
    <2> HIDE DEF d, r
    <2>5. dev'[fn] = d /\ \A f \in Fns : f # fn => dev'[f] = dev[f]
      BY <1>1, <2>1, DevOne DEF Types
    <2>6. /\ hw'[fn][core] = r /\ \A e \in Cores(fn) : e # core => hw'[fn][e] = hw[fn][e]
          /\ \A f \in Fns : f # fn => hw'[f] = hw[f]
      BY <1>1, <2>1, <2>4, HwCore DEF Types
    <2>7. \A c \in Cores(fn) : /\ hw'[fn][c].alive = hw[fn][c].alive
                               /\ hw'[fn][c].region = hw[fn][c].region
                               /\ hw'[fn][c].irq = hw[fn][c].irq
      BY <2>4, <2>6
    <2> QED
      BY <1>3, <2>2, <2>5, <2>6, <2>7
      DEF ReadRegisters, Elsewhere, Outer, LastCore
  <1> QED
    BY <1>2, <1>3 DEF ReadRegisters, Go, Stay

(* Stopping takes one core's handler; a function that is absent is passed  *)
(* over.                                                                   *)
LEMMA StopDoes ==
  ASSUME Types, StopCore
  PROVE  /\ pc = "stop" /\ Elsewhere /\ UNCHANGED <<pci, file, nodes>>
         /\ dev'[fn].ready = dev[fn].ready /\ dev'[fn].num = dev[fn].num
         /\ dev'[fn].mem = dev[fn].mem
         /\ \A c \in Cores(fn) : /\ hw'[fn][c].alive = hw[fn][c].alive
                                 /\ hw'[fn][c].region = hw[fn][c].region
                                 /\ hw'[fn][c].irq => hw[fn][c].irq
         /\ \/ dev[fn].num = 0 /\ AfterFunction /\ UNCHANGED <<dev, hw>>
            \/ pc' = "oops" /\ UNCHANGED <<dev, hw>>
            \/ /\ dev[fn].num # 0 /\ dev'[fn].used = dev[fn].used - 1
               /\ ~hw'[fn][core].irq
               /\ fn' = fn
               /\ \/ core = CoresOf[fn] /\ pc' = "release" /\ core' = core
                  \/ core # CoresOf[fn] /\ core' = core + 1 /\ pc' = "stop"
  <1>1. /\ fn \in Fns /\ dev[fn] \in DevRecords(fn) /\ hw[fn] \in [Cores(fn) -> CoreRecords]
        /\ core \in Cores(fn)
    BY DEF Types, SmallTypes, DevTypes, HwTypes, Cores
  <1>2. CASE dev[fn].num = 0 /\ AfterFunction /\ UNCHANGED <<dev, hw>>
    BY <1>2 DEF StopCore, Elsewhere, Outer
  <1>3. CASE pc' = "oops" /\ UNCHANGED <<dev, hw>>
    BY <1>3 DEF StopCore, Elsewhere, Outer
  <1>4. CASE /\ dev[fn].num # 0
             /\ hw' = [hw EXCEPT ![fn][core] = Stopped(@)]
             /\ dev' = [dev EXCEPT ![fn].used = @ - 1]
             /\ IF LastCore THEN Go("release") /\ Stay ELSE core' = core + 1 /\ UNCHANGED <<pc, fn>>
    <2> DEFINE d == [dev[fn] EXCEPT !.used = dev[fn].used - 1]
    <2> DEFINE r == Stopped(hw[fn][core])
    <2>1. dev' = [dev EXCEPT ![fn] = d] /\ hw' = [hw EXCEPT ![fn][core] = r]
      BY <1>4
    <2>2. d.ready = dev[fn].ready /\ d.num = dev[fn].num /\ d.mem = dev[fn].mem /\ d.used = dev[fn].used - 1
      BY <1>1 DEF DevRecords
    <2>3. hw[fn][core] \in CoreRecords
      BY <1>1
    <2>4. /\ r \in CoreRecords /\ r.alive = hw[fn][core].alive /\ r.region = hw[fn][core].region
          /\ ~r.irq
      BY <2>3 DEF CoreRecords, Stopped
    <2> HIDE DEF d, r
    <2>5. dev'[fn] = d /\ \A f \in Fns : f # fn => dev'[f] = dev[f]
      BY <1>1, <2>1, DevOne DEF Types
    <2>6. /\ hw'[fn][core] = r /\ \A e \in Cores(fn) : e # core => hw'[fn][e] = hw[fn][e]
          /\ \A f \in Fns : f # fn => hw'[f] = hw[f]
      <3>1. fn \in Fns /\ core \in Cores(fn) /\ HwTypes /\ r \in CoreRecords
        BY <1>1, <2>4 DEF Types
      <3> QED
        BY <2>1, <3>1, HwCore
    <2>7. \A c \in Cores(fn) : /\ hw'[fn][c].alive = hw[fn][c].alive
                               /\ hw'[fn][c].region = hw[fn][c].region
                               /\ hw'[fn][c].irq => hw[fn][c].irq
      BY <2>4, <2>6
    <2> QED
      BY <1>4, <2>2, <2>4, <2>5, <2>6, <2>7
      DEF StopCore, Elsewhere, Outer, LastCore, Go, Stay
  <1> QED
    BY <1>2, <1>3, <1>4 DEF StopCore, Go

(* The release of a function clears its device and its cores.              *)
LEMMA ReleaseDoes ==
  ASSUME Types, ReleaseFunction
  PROVE  /\ pc = "release" /\ Elsewhere /\ UNCHANGED <<pci, file, nodes>> /\ AfterFunction
         /\ dev'[fn].num = 0 /\ dev'[fn].managers = {}
         /\ \A c \in Cores(fn) : /\ ~hw'[fn][c].alive /\ ~hw'[fn][c].region
                                 /\ hw'[fn][c].irq = hw[fn][c].irq
  <1>1. fn \in Fns /\ dev[fn] \in DevRecords(fn) /\ hw[fn] \in [Cores(fn) -> CoreRecords]
    BY DEF Types, SmallTypes, DevTypes, HwTypes
  <1> DEFINE t == [c \in Cores(fn) |-> Freed(hw[fn][c])]
  <1>2. hw' = [hw EXCEPT ![fn] = t] /\ dev' = [dev EXCEPT ![fn] = MemReleased(dev[fn])]
    BY DEF ReleaseFunction
  <1>3. \A c \in Cores(fn) : ~t[c].alive /\ ~t[c].region /\ t[c].irq = hw[fn][c].irq
    BY <1>1 DEF Freed, CoreRecords
  <1> HIDE DEF t
  <1>4. hw'[fn] = t /\ \A f \in Fns : f # fn => hw'[f] = hw[f]
    BY <1>1, <1>2, HwOne DEF Types
  <1>5. dev'[fn] = MemReleased(dev[fn]) /\ \A f \in Fns : f # fn => dev'[f] = dev[f]
    BY <1>1, <1>2, DevOne DEF Types
  <1>6. dev'[fn].num = 0 /\ dev'[fn].managers = {}
    BY <1>5 DEF MemReleased, NoDev
  <1> QED
    BY <1>3, <1>4, <1>5, <1>6 DEF ReleaseFunction, Elsewhere, Outer

(* Opening or closing a file moves the files' lists alone.                 *)
LEMMA FilesDo ==
  ASSUME Types, NEW x \in Files, Open(x) \/ Close(x)
  PROVE  /\ UNCHANGED <<pc, fn, core, hw, pci, drm, fences, blocks, nodes>>
         /\ pc \in Loading \cup {"loaded"}
         /\ \A f \in Fns : /\ dev'[f].num = dev[f].num /\ dev'[f].mem = dev[f].mem
                           /\ dev'[f].ready = dev[f].ready /\ dev'[f].used = dev[f].used
  <1>1. UNCHANGED dev \/ \E b \in BOOLEAN : dev' = Entered(x, b)
    BY DEF Open, Close
  <1>2. \A f \in Fns : dev[f] \in DevRecords(f)
    BY DEF Types, DevTypes
  <1>3. ASSUME NEW b \in BOOLEAN, NEW f \in Fns
        PROVE  LET e == Entered(x, b)[f]
               IN  e.num = dev[f].num /\ e.mem = dev[f].mem /\ e.ready = dev[f].ready /\ e.used = dev[f].used
    BY <1>2, <1>3 DEF Entered, DevRecords
  <1>4. \A f \in Fns : /\ dev'[f].num = dev[f].num /\ dev'[f].mem = dev[f].mem
                       /\ dev'[f].ready = dev[f].ready /\ dev'[f].used = dev[f].used
    BY <1>1, <1>3
  <1> QED
    BY <1>4 DEF Open, Close, Outer

-----------------------------------------------------------------------------
(* Handlers come after what they need and go before it: a core has its      *)
(* region when its handler is registered, and loses it once all handlers of *)
(* its function are gone.                                                   *)
LEMMA HandlerStep ==
  Types /\ HandlerHasItsCore /\ LoadInv /\ StopInv /\ [Next]_vars => HandlerHasItsCore'
  <1> SUFFICES ASSUME Types, HandlerHasItsCore, LoadInv, StopInv, [Next]_vars PROVE HandlerHasItsCore'
    OBVIOUS
  <1> USE DriverAssumption DEF Go, Stay, Restart, Outer, Inner, Fns
  <1>1. CASE CheckMemory
    BY <1>1 DEF CheckMemory, HandlerHasItsCore
  <1>2. CASE RegisterDriver
    BY <1>2 DEF RegisterDriver, HandlerHasItsCore
  <1>3. CASE AllocDrm
    BY <1>3 DEF AllocDrm, HandlerHasItsCore
  <1>4. CASE RegisterDrm
    BY <1>4 DEF RegisterDrm, HandlerHasItsCore
  <1>5. CASE ReservePool
    BY <1>5 DEF ReservePool, HandlerHasItsCore
  <1>6. CASE VcmdProbe
    BY <1>6, ProbeDoes DEF HandlerHasItsCore
  <1>7. CASE InitFunction
    BY <1>7, InitDoes DEF HandlerHasItsCore, Elsewhere
  <1>8. CASE ReserveIO
    BY <1>8, IoDoes DEF HandlerHasItsCore, Elsewhere, LoadInv, Quiet
  <1>9. CASE RequestIrq
    BY <1>9, IrqDoes DEF HandlerHasItsCore, Elsewhere, LoadInv, Setup, Alive
  <1>10. CASE ReadRegisters
    BY <1>10, ReadDoes DEF HandlerHasItsCore, Elsewhere
  <1>11. ASSUME NEW x \in Files, Open(x) PROVE HandlerHasItsCore'
    BY <1>11, FilesDo DEF HandlerHasItsCore
  <1>12. ASSUME NEW x \in Files, Close(x) PROVE HandlerHasItsCore'
    BY <1>12, FilesDo DEF HandlerHasItsCore
  <1>13. ASSUME NEW x \in Files, ReserveTooEarly(x) PROVE HandlerHasItsCore'
    BY <1>13 DEF ReserveTooEarly, HandlerHasItsCore, Loading
  <1>14. CASE Unload
    BY <1>14 DEF Unload, HandlerHasItsCore
  <1>15. CASE release_norslice_node
    BY <1>15 DEF release_norslice_node, HandlerHasItsCore
  <1>16. CASE StopCore
    BY <1>16, StopDoes DEF HandlerHasItsCore, Elsewhere
  <1>17. CASE ReleaseFunction
    BY <1>17, ReleaseDoes DEF HandlerHasItsCore, Elsewhere, StopInv
  <1>18. CASE FreeSlices
    BY <1>18
    DEF FreeSlices, StopInv, Afterwards, Returned, Quiet, HandlerHasItsCore
  <1>19. CASE releaseFenceData
    BY <1>19 DEF releaseFenceData, HandlerHasItsCore
  <1>20. CASE UnregisterDrm
    BY <1>20 DEF UnregisterDrm, HandlerHasItsCore
  <1>21. CASE UnregisterDrivers
    BY <1>21 DEF UnregisterDrivers, HandlerHasItsCore
  <1>22. CASE hantro_memory_pool_remove
    BY <1>22 DEF hantro_memory_pool_remove, HandlerHasItsCore
  <1>23. CASE UNCHANGED vars
    BY <1>23 DEF vars, HandlerHasItsCore
  <1> QED
    BY <1>1, <1>2, <1>3, <1>4, <1>5, <1>6, <1>7, <1>8, <1>9, <1>10, <1>11,
       <1>12, <1>13, <1>14, <1>15, <1>16, <1>17, <1>18, <1>19, <1>20, <1>21,
       <1>22, <1>23
    DEF Next

(* Files are late only while the driver is loaded, and closed when it goes.  *)
LEMMA FileStep ==
  Types /\ FileInv /\ [Next]_vars => FileInv'
  <1> SUFFICES ASSUME Types, FileInv, [Next]_vars PROVE FileInv'
    OBVIOUS
  <1> USE DriverAssumption DEF Go, Stay, Restart, Outer, Inner, Fns
  <1>1. CASE CheckMemory
    BY <1>1 DEF CheckMemory, FileInv, Unloading
  <1>2. CASE RegisterDriver
    BY <1>2 DEF RegisterDriver, FileInv, Unloading
  <1>3. CASE AllocDrm
    BY <1>3 DEF AllocDrm, FileInv, Unloading
  <1>4. CASE RegisterDrm
    BY <1>4 DEF RegisterDrm, FileInv, Unloading
  <1>5. CASE ReservePool
    BY <1>5 DEF ReservePool, FileInv, Unloading
  <1>6. CASE VcmdProbe
    BY <1>6 DEF VcmdProbe, FileInv, Unloading
  <1>7. CASE InitFunction
    BY <1>7 DEF InitFunction, FileInv, Unloading, NextFunction
  <1>8. CASE ReserveIO
    BY <1>8 DEF ReserveIO, FileInv, Unloading
  <1>9. CASE RequestIrq
    BY <1>9 DEF RequestIrq, FileInv, Unloading
  <1>10. CASE ReadRegisters
    BY <1>10 DEF ReadRegisters, FileInv, Unloading, NextFunction
  <1>11. ASSUME NEW x \in Files, Open(x) PROVE FileInv'
    BY <1>11 DEF Open, FileInv, Loading, Unloading
  <1>12. ASSUME NEW x \in Files, Close(x) PROVE FileInv'
    BY <1>12 DEF Close, FileInv
  <1>13. ASSUME NEW x \in Files, ReserveTooEarly(x) PROVE FileInv'
    BY <1>13 DEF ReserveTooEarly, FileInv, Loading, Unloading
  <1>14. CASE Unload
    BY <1>14 DEF Unload, FileInv
  <1>15. CASE release_norslice_node
    BY <1>15 DEF release_norslice_node, FileInv, Unloading
  <1>16. CASE StopCore
    BY <1>16 DEF StopCore, FileInv, Unloading
  <1>17. CASE ReleaseFunction
    BY <1>17 DEF ReleaseFunction, FileInv, Unloading
  <1>18. CASE FreeSlices
    BY <1>18 DEF FreeSlices, FileInv, Unloading
  <1>19. CASE releaseFenceData
    BY <1>19 DEF releaseFenceData, FileInv, Unloading
  <1>20. CASE UnregisterDrm
    BY <1>20 DEF UnregisterDrm, FileInv, Unloading
  <1>21. CASE UnregisterDrivers
    BY <1>21 DEF UnregisterDrivers, FileInv, Unloading
  <1>22. CASE hantro_memory_pool_remove
    BY <1>22 DEF hantro_memory_pool_remove, FileInv, Unloading
  <1>23. CASE UNCHANGED vars
    BY <1>23 DEF vars, FileInv
  <1> QED
    BY <1>1, <1>2, <1>3, <1>4, <1>5, <1>6, <1>7, <1>8, <1>9, <1>10, <1>11,
       <1>12, <1>13, <1>14, <1>15, <1>16, <1>17, <1>18, <1>19, <1>20, <1>21,
       <1>22, <1>23
    DEF Next

(* Each step of the removal leaves what the steps before it returned.        *)
LEMMA UndoStep ==
  Types /\ UndoInv /\ [Next]_vars => UndoInv'
  <1> SUFFICES ASSUME Types, UndoInv, [Next]_vars PROVE UndoInv'
    OBVIOUS
  <1> USE DriverAssumption DEF Go, Stay, Restart, Outer, Inner, Fns
  <1>1. CASE CheckMemory
    BY <1>1 DEF CheckMemory, UndoInv, Afterwards
  <1>2. CASE RegisterDriver
    BY <1>2 DEF RegisterDriver, UndoInv, Afterwards
  <1>3. CASE AllocDrm
    BY <1>3 DEF AllocDrm, UndoInv, Afterwards
  <1>4. CASE RegisterDrm
    BY <1>4 DEF RegisterDrm, UndoInv, Afterwards
  <1>5. CASE ReservePool
    BY <1>5 DEF ReservePool, UndoInv, Afterwards
  <1>6. CASE VcmdProbe
    BY <1>6 DEF VcmdProbe, UndoInv, Afterwards
  <1>7. CASE InitFunction
    BY <1>7 DEF InitFunction, UndoInv, Afterwards, NextFunction
  <1>8. CASE ReserveIO
    BY <1>8 DEF ReserveIO, UndoInv, Afterwards
  <1>9. CASE RequestIrq
    BY <1>9 DEF RequestIrq, UndoInv, Afterwards
  <1>10. CASE ReadRegisters
    BY <1>10 DEF ReadRegisters, UndoInv, Afterwards, NextFunction
  <1>11. ASSUME NEW x \in Files, Open(x) PROVE UndoInv'
    BY <1>11 DEF Open, UndoInv, Loading, Afterwards
  <1>12. ASSUME NEW x \in Files, Close(x) PROVE UndoInv'
    BY <1>12 DEF Close, UndoInv, Loading, Afterwards
  <1>13. ASSUME NEW x \in Files, ReserveTooEarly(x) PROVE UndoInv'
    BY <1>13 DEF ReserveTooEarly, UndoInv, Afterwards
  <1>14. CASE Unload
    BY <1>14 DEF Unload, UndoInv, Afterwards
  <1>15. CASE release_norslice_node
    BY <1>15 DEF release_norslice_node, UndoInv, Afterwards, Types, SmallTypes
  <1>16. CASE StopCore
    BY <1>16 DEF StopCore, UndoInv, Afterwards, AfterFunction
  <1>17. CASE ReleaseFunction
    BY <1>17 DEF ReleaseFunction, UndoInv, Afterwards, AfterFunction
  <1>18. CASE FreeSlices
    BY <1>18 DEF FreeSlices, UndoInv, Afterwards
  <1>19. CASE releaseFenceData
    BY <1>19 DEF releaseFenceData, UndoInv, Afterwards
  <1>20. CASE UnregisterDrm
    BY <1>20 DEF UnregisterDrm, UndoInv, Afterwards
  <1>21. CASE UnregisterDrivers
    <2>1. \A f \in Fns : pci'[f] = Removed(pci[f]) /\ ~Removed(pci[f]).driver
      BY <1>21 DEF UnregisterDrivers, Removed
    <2> QED
      BY <1>21, <2>1 DEF UnregisterDrivers, UndoInv, Afterwards
  <1>22. CASE hantro_memory_pool_remove
    BY <1>22 DEF hantro_memory_pool_remove, UndoInv, Afterwards
  <1>23. CASE UNCHANGED vars
    BY <1>23 DEF vars, UndoInv
  <1> QED
    BY <1>1, <1>2, <1>3, <1>4, <1>5, <1>6, <1>7, <1>8, <1>9, <1>10, <1>11,
       <1>12, <1>13, <1>14, <1>15, <1>16, <1>17, <1>18, <1>19, <1>20, <1>21,
       <1>22, <1>23
    DEF
        Next

-----------------------------------------------------------------------------
(* A late file enters with every device and leaves with its close; no other *)
(* step finds one.                                                          *)
LEMMA LateStep ==
  Types /\ FileInv /\ LateFilesEntered /\ [Next]_vars => LateFilesEntered'
  <1> SUFFICES ASSUME Types, FileInv, LateFilesEntered, [Next]_vars PROVE LateFilesEntered'
    OBVIOUS
  <1> USE DriverAssumption DEF Go, Stay, Restart, Outer, Inner, Fns
  <1>1. CASE CheckMemory
    BY <1>1 DEF CheckMemory, LateFilesEntered, FileInv
  <1>2. CASE RegisterDriver
    BY <1>2 DEF RegisterDriver, LateFilesEntered, FileInv
  <1>3. CASE AllocDrm
    BY <1>3 DEF AllocDrm, LateFilesEntered, FileInv
  <1>4. CASE RegisterDrm
    BY <1>4 DEF RegisterDrm, LateFilesEntered, FileInv
  <1>5. CASE ReservePool
    BY <1>5 DEF ReservePool, LateFilesEntered, FileInv
  <1>6. CASE VcmdProbe
    BY <1>6 DEF VcmdProbe, LateFilesEntered, FileInv
  <1>7. CASE InitFunction
    BY <1>7 DEF InitFunction, LateFilesEntered, FileInv
  <1>8. CASE ReserveIO
    BY <1>8 DEF ReserveIO, LateFilesEntered, FileInv
  <1>9. CASE RequestIrq
    BY <1>9 DEF RequestIrq, LateFilesEntered, FileInv
  <1>10. CASE ReadRegisters
    BY <1>10 DEF ReadRegisters, LateFilesEntered, FileInv
  <1>11. ASSUME NEW x \in Files, Open(x) PROVE LateFilesEntered'
    <2> SUFFICES ASSUME NEW y \in Files, file'[y] = "late", NEW f \in Fns, dev'[f].num > 0
                 PROVE  y \in dev'[f].managers
      BY DEF LateFilesEntered
    <2>1. dev[f] \in DevRecords(f) /\ file \in [Files -> {"closed", "legacy", "early", "late"}]
      BY DEF Types, SmallTypes, DevTypes
    <2>2. dev'[f].num = dev[f].num
      BY <1>11, FilesDo
    <2>3. y # x => y \in dev[f].managers
      BY <1>11, <2>1, <2>2 DEF Open, LateFilesEntered
    <2>4. y = x => vcmdsup
      BY <1>11, <2>1 DEF Open
    <2>5. CASE vcmdsup
      <3>1. dev'[f] = [dev[f] EXCEPT !.managers = dev[f].managers \cup {x}]
        BY <1>11, <2>2, <2>5 DEF Open, Entered
      <3>2. dev'[f].managers = dev[f].managers \cup {x}
        BY <2>1, <3>1 DEF DevRecords
      <3> QED
        BY <2>3, <3>2
    <2>6. CASE ~vcmdsup
      BY <1>11, <2>3, <2>4, <2>6 DEF Open
    <2> QED
      BY <2>5, <2>6
  <1>12. ASSUME NEW x \in Files, Close(x) PROVE LateFilesEntered'
    <2> SUFFICES ASSUME NEW y \in Files, file'[y] = "late", NEW f \in Fns, dev'[f].num > 0
                 PROVE  y \in dev'[f].managers
      BY DEF LateFilesEntered
    <2>1. dev[f] \in DevRecords(f) /\ file \in [Files -> {"closed", "legacy", "early", "late"}]
      BY DEF Types, SmallTypes, DevTypes
    <2>2. dev'[f].num = dev[f].num
      BY <1>12, FilesDo
    <2>3. y # x /\ y \in dev[f].managers
      BY <1>12, <2>1, <2>2 DEF Close, LateFilesEntered
    <2>4. \/ dev' = dev
          \/ dev'[f] = [dev[f] EXCEPT !.managers = dev[f].managers \ {x}]
      BY <1>12 DEF Close, Entered
    <2>5. dev'[f].managers = dev[f].managers \/ dev'[f].managers = dev[f].managers \ {x}
      BY <2>1, <2>4 DEF DevRecords
    <2> QED
      BY <2>3, <2>5
  <1>13. ASSUME NEW x \in Files, ReserveTooEarly(x) PROVE LateFilesEntered'
    BY <1>13 DEF ReserveTooEarly, LateFilesEntered, FileInv
  <1>14. CASE Unload
    BY <1>14 DEF Unload, LateFilesEntered, FileInv
  <1>15. CASE release_norslice_node
    BY <1>15 DEF release_norslice_node, LateFilesEntered, FileInv
  <1>16. CASE StopCore
    BY <1>16 DEF StopCore, LateFilesEntered, FileInv
  <1>17. CASE ReleaseFunction
    BY <1>17 DEF ReleaseFunction, LateFilesEntered, FileInv
  <1>18. CASE FreeSlices
    BY <1>18 DEF FreeSlices, LateFilesEntered, FileInv
  <1>19. CASE releaseFenceData
    BY <1>19 DEF releaseFenceData, LateFilesEntered, FileInv
  <1>20. CASE UnregisterDrm
    BY <1>20 DEF UnregisterDrm, LateFilesEntered, FileInv
  <1>21. CASE UnregisterDrivers
    BY <1>21 DEF UnregisterDrivers, LateFilesEntered, FileInv
  <1>22. CASE hantro_memory_pool_remove
    BY <1>22 DEF hantro_memory_pool_remove, LateFilesEntered, FileInv
  <1>23. CASE UNCHANGED vars
    BY <1>23 DEF vars, LateFilesEntered, FileInv
  <1> QED
    BY <1>1, <1>2, <1>3, <1>4, <1>5, <1>6, <1>7, <1>8, <1>9, <1>10, <1>11,
       <1>12, <1>13, <1>14, <1>15, <1>16, <1>17, <1>18, <1>19, <1>20, <1>21,
       <1>22, <1>23
    DEF Next

(* The load takes one function after the other from untouched to set up.    *)
LEMMA LoadStep ==
  Types /\ LoadInv /\ [Next]_vars => LoadInv'
  <1> SUFFICES ASSUME Types, LoadInv, [Next]_vars PROVE LoadInv'
    OBVIOUS
  <1> USE DriverAssumption DEF Go, Stay, Restart, Outer, Inner, Fns
  <1>1. CASE CheckMemory
    BY <1>1 DEF CheckMemory, LoadInv, Before, Setup, Quiet
  <1>2. CASE RegisterDriver
    BY <1>2 DEF RegisterDriver, LoadInv, Before, Setup, Quiet
  <1>3. CASE AllocDrm
    BY <1>3 DEF AllocDrm, LoadInv, Before, Setup, Quiet
  <1>4. CASE RegisterDrm
    BY <1>4 DEF RegisterDrm, LoadInv, Before, Setup, Quiet
  <1>5. CASE ReservePool
    BY <1>5 DEF ReservePool, LoadInv, Before, Setup, Quiet
  <1>6. CASE VcmdProbe
    BY <1>6, ProbeDoes DEF LoadInv, Before, Alive, Absent, Quiet, Behind
  <1>7. CASE InitFunction
    BY <1>7, InitDoes
    DEF LoadInv, Before, Setup, Alive, Absent, Full, Quiet, Ahead, Behind,
        Elsewhere, Types, SmallTypes, NextFunction
  <1>8. CASE ReserveIO
    BY <1>8, IoDoes
    DEF LoadInv, Before, Setup, Alive, Absent, Full, Quiet, Ahead, Behind,
        Elsewhere
  <1>9. CASE RequestIrq
    BY <1>9, IrqDoes
    DEF LoadInv, Before, Setup, Alive, Absent, Full, Quiet, Ahead, Behind,
        Elsewhere
  <1>10. CASE ReadRegisters
    BY <1>10, ReadDoes
    DEF LoadInv, Before, Setup, Alive, Absent, Full, Quiet, Ahead, Behind,
        Elsewhere, Types, SmallTypes, NextFunction
  <1>11. ASSUME NEW x \in Files, Open(x) PROVE LoadInv'
    BY <1>11, FilesDo
    DEF LoadInv, Alive, Absent, Full, Quiet, Ahead, Behind, Types, SmallTypes
  <1>12. ASSUME NEW x \in Files, Close(x) PROVE LoadInv'
    BY <1>12, FilesDo
    DEF LoadInv, Alive, Absent, Full, Quiet, Ahead, Behind, Types, SmallTypes
  <1>13. ASSUME NEW x \in Files, ReserveTooEarly(x) PROVE LoadInv'
    BY <1>13 DEF ReserveTooEarly, LoadInv, Before, Setup
  <1>14. CASE Unload
    BY <1>14 DEF Unload, LoadInv, Before, Setup, Alive, Absent, Full, Quiet
  <1>15. CASE release_norslice_node
    BY <1>15 DEF release_norslice_node, LoadInv, Before, Setup
  <1>16. CASE StopCore
    BY <1>16, StopDoes DEF LoadInv, Before, Setup, AfterFunction
  <1>17. CASE ReleaseFunction
    BY <1>17, ReleaseDoes DEF LoadInv, Before, Setup, AfterFunction
  <1>18. CASE FreeSlices
    BY <1>18 DEF FreeSlices, LoadInv, Before, Setup
  <1>19. CASE releaseFenceData
    BY <1>19 DEF releaseFenceData, LoadInv, Before, Setup
  <1>20. CASE UnregisterDrm
    BY <1>20 DEF UnregisterDrm, LoadInv, Before, Setup
  <1>21. CASE UnregisterDrivers
    BY <1>21 DEF UnregisterDrivers, LoadInv, Before, Setup
  <1>22. CASE hantro_memory_pool_remove
    BY <1>22 DEF hantro_memory_pool_remove, LoadInv, Before, Setup
  <1>23. CASE UNCHANGED vars
    BY <1>23 DEF vars, LoadInv, Alive, Absent, Full, Quiet, Ahead, Behind
  <1> QED
    BY <1>1, <1>2, <1>3, <1>4, <1>5, <1>6, <1>7, <1>8, <1>9, <1>10, <1>11,
       <1>12, <1>13, <1>14, <1>15, <1>16, <1>17, <1>18, <1>19, <1>20, <1>21,
       <1>22, <1>23
    DEF Next

(* The removal takes one function after the other from set up to returned.  *)
LEMMA StopStep ==
  Types /\ LoadInv /\ StopInv /\ [Next]_vars => StopInv'
  <1> SUFFICES ASSUME Types, LoadInv, StopInv, [Next]_vars PROVE StopInv'
    OBVIOUS
  <1> USE DriverAssumption DEF Go, Stay, Restart, Outer, Inner, Fns
  <1>1. CASE CheckMemory
    BY <1>1 DEF CheckMemory, StopInv, Afterwards
  <1>2. CASE RegisterDriver
    BY <1>2 DEF RegisterDriver, StopInv, Afterwards
  <1>3. CASE AllocDrm
    BY <1>3 DEF AllocDrm, StopInv, Afterwards
  <1>4. CASE RegisterDrm
    BY <1>4 DEF RegisterDrm, StopInv, Afterwards
  <1>5. CASE ReservePool
    BY <1>5 DEF ReservePool, StopInv, Afterwards
  <1>6. CASE VcmdProbe
    BY <1>6, ProbeDoes DEF StopInv, Afterwards
  <1>7. CASE InitFunction
    BY <1>7, InitDoes DEF StopInv, Afterwards, NextFunction
  <1>8. CASE ReserveIO
    BY <1>8, IoDoes DEF StopInv, Afterwards
  <1>9. CASE RequestIrq
    BY <1>9, IrqDoes DEF StopInv, Afterwards
  <1>10. CASE ReadRegisters
    BY <1>10, ReadDoes DEF StopInv, Afterwards, NextFunction
  <1>11. ASSUME NEW x \in Files, Open(x) PROVE StopInv'
    BY <1>11, FilesDo
    DEF StopInv, Returned, Absent, Full, Quiet, Ahead, Behind, Types, SmallTypes
  <1>12. ASSUME NEW x \in Files, Close(x) PROVE StopInv'
    BY <1>12, FilesDo
    DEF StopInv, Returned, Absent, Full, Quiet, Ahead, Behind, Types, SmallTypes
  <1>13. ASSUME NEW x \in Files, ReserveTooEarly(x) PROVE StopInv'
    BY <1>13 DEF ReserveTooEarly, StopInv, Afterwards
  <1>14. CASE Unload
    BY <1>14 DEF Unload, StopInv, Afterwards
  <1>15. CASE release_norslice_node
    BY <1>15
    DEF release_norslice_node, StopInv, LoadInv, Afterwards, Absent, Full,
        Quiet, Behind
  <1>16. CASE StopCore
    BY <1>16, StopDoes
    DEF StopInv, Afterwards, Returned, Absent, Full, Quiet, Ahead, Behind,
        Elsewhere, Types, SmallTypes, Cores, AfterFunction
  <1>17. CASE ReleaseFunction
    BY <1>17, ReleaseDoes
    DEF StopInv, Afterwards, Returned, Absent, Full, Quiet, Ahead, Behind,
        Elsewhere, Types, SmallTypes, AfterFunction
  <1>18. CASE FreeSlices
    BY <1>18 DEF FreeSlices, StopInv, Afterwards, Returned, Quiet
  <1>19. CASE releaseFenceData
    BY <1>19 DEF releaseFenceData, StopInv, Afterwards, Returned, Quiet
  <1>20. CASE UnregisterDrm
    BY <1>20 DEF UnregisterDrm, StopInv, Afterwards, Returned, Quiet
  <1>21. CASE UnregisterDrivers
    <2>1. ASSUME NEW f \in Fns PROVE pci'[f].base = pci[f].base
      <3>1. pci'[f] = Removed(pci[f])
        BY <1>21 DEF UnregisterDrivers
      <3>2. pci[f] \in [driver : BOOLEAN, bound : BOOLEAN, enabled : BOOLEAN, base : BOOLEAN]
        BY DEF Types, SmallTypes
      <3> QED
        BY <3>1, <3>2 DEF Removed
    <2>2. pc = "unregister" /\ pc' = "blocks" /\ UNCHANGED <<dev, hw, fn, core>>
      BY <1>21 DEF UnregisterDrivers
    <2>3. \A f \in Fns : Returned(f)
      BY <2>2 DEF StopInv, Afterwards
    <2>4. \A f \in Fns : Returned(f)'
      BY <2>1, <2>2, <2>3 DEF Returned, Quiet
    <2> QED
      BY <2>2, <2>4 DEF StopInv
  <1>22. CASE hantro_memory_pool_remove
    BY <1>22 DEF hantro_memory_pool_remove, StopInv, Afterwards, Returned, Quiet
  <1>23. CASE UNCHANGED vars
    BY <1>23 DEF vars, StopInv, Returned, Absent, Full, Quiet, Ahead, Behind
  <1> QED
    BY <1>1, <1>2, <1>3, <1>4, <1>5, <1>6, <1>7, <1>8, <1>9, <1>10, <1>11,
       <1>12, <1>13, <1>14, <1>15, <1>16, <1>17, <1>18, <1>19, <1>20, <1>21,
       <1>22, <1>23
    DEF Next

(* The module before hantro_init.                                          *)
LEMMA DriverInit ==
  Init => DriverInv
  <1> SUFFICES ASSUME Init PROVE DriverInv
    OBVIOUS
  <1> USE DriverAssumption DEF Init, Fns
  <1>1. SmallTypes
    <2>1. NoDevice \in [driver : BOOLEAN, bound : BOOLEAN, enabled : BOOLEAN, base : BOOLEAN]
      BY DEF NoDevice
    <2>2. pci \in [Fns -> [driver : BOOLEAN, bound : BOOLEAN, enabled : BOOLEAN, base : BOOLEAN]]
      BY <2>1
    <2>3. fn \in Fns /\ core \in 1..CoresOf[fn] /\ nodes \in [Fns -> Nat]
      OBVIOUS
    <2> QED
      BY <2>2, <2>3 DEF SmallTypes, Loading
  <1>2. DevTypes
    BY DEF DevTypes, DevRecords, NoDev
  <1>3. HwTypes
    BY DEF HwTypes, CoreRecords, NoCore
  <1>4. \A f \in Fns : \A c \in Cores(f) : hw[f][c] = NoCore
    BY DEF Cores
  <1>5. HandlerHasItsCore
    BY <1>4 DEF HandlerHasItsCore, NoCore
  <1>6. LateFilesEntered
    BY DEF LateFilesEntered
  <1>7. LoadInv
    BY <1>4 DEF LoadInv, Setup, Quiet, NoCore
  <1>8. StopInv /\ UndoInv /\ FileInv
    BY DEF StopInv, UndoInv, FileInv, Afterwards
  <1> QED
    BY <1>1, <1>2, <1>3, <1>5, <1>6, <1>7, <1>8 DEF DriverInv, Types

(* The invariant that follows the loading and unloading thread through     *)
(* hantro_init and hantro_cleanup: at each place, which of the functions   *)
(* have registers, handlers, buffers and memory, and which have given them *)
(* back.                                                                   *)
THEOREM DriverInvariant == Spec => []DriverInv
  <1>1. Init => DriverInv
    BY DriverInit
  <1>2. DriverInv /\ [Next]_vars => DriverInv'
    <2> SUFFICES ASSUME DriverInv, [Next]_vars PROVE DriverInv'
      OBVIOUS
    <2>1. Types /\ HandlerHasItsCore /\ LateFilesEntered /\ LoadInv /\ StopInv /\ UndoInv /\ FileInv
      BY DEF DriverInv
    <2>2. Types'
      BY <2>1, SmallStep, DevStep, HwStep DEF Types
    <2>3. HandlerHasItsCore'
      BY <2>1, HandlerStep
    <2>4. LateFilesEntered' /\ FileInv'
      BY <2>1, LateStep, FileStep
    <2>5. LoadInv' /\ StopInv' /\ UndoInv'
      BY <2>1, LoadStep, StopStep, UndoStep
    <2> QED
      BY <2>2, <2>3, <2>4, <2>5 DEF DriverInv
  <1> QED
    BY <1>1, <1>2, PTL DEF Spec

(* Type correctness; the index of the next buffer of a device's pool stays *)
(* within the pool however often the module is loaded and unloaded.        *)
THEOREM DriverTypeCorrect == Spec => []DriverTypeOK
  <1>1. DriverInv => DriverTypeOK
    BY DEF DriverInv, Types, SmallTypes, DevTypes, DevRecords, DriverTypeOK
  <1> QED
    BY <1>1, DriverInvariant, PTL

(* For every number of cores, every subset of them that answers and every  *)
(* failure: while the load has not failed, a registered hantrovcmd_isr     *)
(* finds its core, its registers, its lists and the buffers' memory.       *)
THEOREM HandlersHaveTheirCore == Spec => []HandlerHasItsCore
  <1>1. DriverInv => HandlerHasItsCore
    BY DEF DriverInv
  <1> QED
    BY <1>1, DriverInvariant, PTL

(* A removal that has ended has given back what the load took, but for the *)
(* decoder's nodes, the cores of a function without registers and a device *)
(* that was enabled and never bound.                                       *)
THEOREM UnloadReturnsEverything == Spec => []UnloadReturnsAll
  <1>1. DriverInv => UnloadReturnsAll
    <2> SUFFICES ASSUME DriverInv, pc = "gone" PROVE UnloadReturnsAll
      BY DEF UnloadReturnsAll
    <2>1. /\ drm = "none" /\ ~fences /\ blocks = {} /\ nodes["enc"] = 0
          /\ \A f \in Fns : ~pci[f].driver /\ dev[f] = NoDev
      BY DEF DriverInv, UndoInv, Afterwards
    <2>2. ~NoDev.mem /\ ~NoDev.ready /\ NoDev.managers = {}
      BY DEF NoDev
    <2>3. \A f \in Fns : Returned(f)
      BY DEF DriverInv, StopInv, Afterwards
    <2> QED
      BY <2>1, <2>2, <2>3 DEF UnloadReturnsAll, Returned, Quiet
  <1> QED
    BY <1>1, DriverInvariant, PTL

(* A file opened once the module is loaded is in the list of each device   *)
(* that exists, for as long as it is open.                                 *)
THEOREM LateFilesAreEntered == Spec => []LateFilesEntered
  <1>1. DriverInv => LateFilesEntered
    BY DEF DriverInv
  <1> QED
    BY <1>1, DriverInvariant, PTL
=============================================================================
