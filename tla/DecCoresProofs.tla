--------------------------- MODULE DecCoresProofs ---------------------------
(***************************************************************************)
(* Proofs, for every number of cores, files and threads, every assignment  *)
(* of threads to files and every choice of masks, of the safety properties *)
(* of DecCores.                                                            *)
(*                                                                         *)
(* One inductive invariant carries them all.  That a core has one holder   *)
(* needs that a closed file's threads are gone, since a close frees cores  *)
(* by file; that a completion is kept needs that a core has one holder;    *)
(* and that the semaphore stays within its range needs that its permits    *)
(* match the free cores.                                                   *)
(***************************************************************************)
EXTENDS DecCores, FiniteSetTheorems, TLAPS

(* A file of which a close has begun has no thread left in the driver.     *)
ClosedIsQuiet == \A t \in Threads : pc[FileOf[t]] # "open" => pc[t] = "gone"

(* A thread has a run to be told of only while it holds a core.            *)
PendingHolds == \A t \in Threads : pending[t] => Holding(t)

CoresInv ==
    /\ TypeOK
    /\ ClosedIsQuiet
    /\ PendingHolds
    /\ OneHolder
    /\ PermitsMatchCores
    /\ NoMissedWake
    /\ CompletionKept

(* The sets that PermitsMatchCores counts are finite.                      *)
LEMMA CountedSetsFinite ==
  /\ IsFiniteSet(Looking) /\ IsFiniteSet(Returning) /\ IsFiniteSet(FreeCores)
  /\ Cardinality(FreeCores) <= NumCores
  <1>1. IsFiniteSet(Cores) /\ Cardinality(Cores) = NumCores
    BY FS_Interval, CoresAssumption DEF Cores
  <1>2. IsFiniteSet(Actors)
    BY FS_Union, CoresAssumption DEF Actors
  <1>3. /\ Looking \in SUBSET Threads
        /\ Returning \in SUBSET Actors
        /\ FreeCores \in SUBSET Cores
    BY DEF Looking, Returning, FreeCores
  <1> QED
    BY <1>1, <1>2, <1>3, FS_Subset, CoresAssumption

(* So their sizes are natural numbers.                                     *)
LEMMA CountsAreNat ==
  /\ Cardinality(Looking) \in Nat
  /\ Cardinality(Returning) \in Nat
  /\ Cardinality(FreeCores) \in Nat
  BY CountedSetsFinite, FS_CardinalityType
-----------------------------------------------------------------------------
(* Types: no step stores a value outside its variable's domain.  Returning *)
(* a permit keeps the semaphore in range because the permit that is on its *)
(* way back stands for a free core of its own.                             *)
LEMMA TypeInit == Init => TypeOK
  BY CoresAssumption
  DEF Init, TypeOK, Cores, Actors, ThreadPhases, FilePhases

(* Every action keeps the types.                                           *)
LEMMA TypeStep == CoresInv /\ [Next]_vars => TypeOK'
  <1> SUFFICES ASSUME TypeOK, OneHolder, PermitsMatchCores, [Next]_vars
               PROVE  TypeOK'
    BY DEF CoresInv
  <1> USE CoresAssumption DEF ThreadPhases, FilePhases
  <1>1. ASSUME NEW t \in Threads, NEW m \in MasksOf[t], ReserveDecoder(t, m)
        PROVE  TypeOK'
    BY <1>1 DEF TypeOK, ReserveDecoder, coreVars, Cores, Actors
  <1>2. ASSUME NEW t \in Threads, GetDecCore(t) PROVE TypeOK'
    BY <1>2 DEF TypeOK, GetDecCore, CanTake, LeaveLook, ClearIrq, Cores, Actors
  <1>3. ASSUME NEW t \in Threads, NextCore(t) PROVE TypeOK'
    BY <1>3 DEF TypeOK, NextCore, coreVars, Cores
  <1>4. ASSUME NEW t \in Threads, LookAgain(t) PROVE TypeOK'
    BY <1>4 DEF TypeOK, LookAgain, coreVars
  <1>5. ASSUME NEW t \in Threads, LookInterrupted(t) PROVE TypeOK'
    BY <1>5 DEF TypeOK, LookInterrupted, LeaveLook, coreVars, Actors
  <1>6. ASSUME NEW t \in Threads, DecFlushRegs(t) PROVE TypeOK'
    BY <1>6 DEF TypeOK, DecFlushRegs, lookVars
  <1>7. ASSUME NEW t \in Threads, WaitDecReady(t) PROVE TypeOK'
    BY <1>7 DEF TypeOK, WaitDecReady, coreVars, lookVars, Actors
  <1>8. ASSUME NEW t \in Threads, WaitCoreReady(t) PROVE TypeOK'
    BY <1>8 DEF TypeOK, WaitCoreReady, coreVars, Actors
  <1>9. ASSUME NEW t \in Threads, CheckDecIrq(t) PROVE TypeOK'
    BY <1>9 DEF TypeOK, CheckDecIrq, ClearIrq, lookVars, Actors
  <1>10. ASSUME NEW t \in Threads, CheckCoreIrq(t) PROVE TypeOK'
    <2>1. dec_irq' \in [Cores -> Threads \cup {None}]
      BY <1>10 DEF TypeOK, CheckCoreIrq, ClearIrq
    <2>2. pc' \in [Actors -> ThreadPhases \cup FilePhases]
      BY <1>10 DEF TypeOK, CheckCoreIrq
    <2> QED
      BY <1>10, <2>1, <2>2 DEF TypeOK, CheckCoreIrq, LeaveLook, Cores, Actors
  <1>11. ASSUME NEW t \in Threads, PassCore(t) PROVE TypeOK'
    <2>1. dec_irq' \in [Cores -> Threads \cup {None}]
      BY <1>11 DEF TypeOK, PassCore, ClearIrq
    <2>2. scan' \in [Threads -> 0..NumCores]
      BY <1>11 DEF TypeOK, PassCore
    <2> QED
      BY <1>11, <2>1, <2>2 DEF TypeOK, PassCore
  <1>12. ASSUME NEW t \in Threads, WaitEnds(t) PROVE TypeOK'
    BY <1>12 DEF TypeOK, WaitEnds, LeaveLook, coreVars, Actors
  <1>13. ASSUME NEW t \in Threads, ReleaseDecoder(t) PROVE TypeOK'
    BY <1>13 DEF TypeOK, ReleaseDecoder, FreeCore, lookVars, Actors
  <1>14. ASSUME NEW a \in Actors, Up(a) PROVE TypeOK'
    <2>1. Cardinality(Returning) # 0
      <3>1. a \in Returning
        BY <1>14 DEF Up, Returning
      <3> QED
        BY <3>1, CountedSetsFinite, FS_EmptySet
    <2>2. sem + 1 \in 0..NumCores
      BY <2>1, CountsAreNat, CountedSetsFinite DEF PermitsMatchCores, TypeOK
    <2> QED
      BY <1>14, <2>2 DEF TypeOK, Up, coreVars, lookVars, Actors
  <1>15. ASSUME NEW a \in Actors, WakeQueue(a) PROVE TypeOK'
    BY <1>15 DEF TypeOK, WakeQueue, coreVars, Actors
  <1>16. ASSUME NEW f \in Files, CloseBegin(f) PROVE TypeOK'
    BY <1>16 DEF TypeOK, CloseBegin, coreVars, lookVars, Actors
  <1>17. ASSUME NEW f \in Files, CloseCore(f) PROVE TypeOK'
    BY <1>17 DEF TypeOK, CloseCore, FreeCore, lookVars, Actors
  <1>18. ASSUME NEW f \in Files, CloseEnd(f) PROVE TypeOK'
    BY <1>18 DEF TypeOK, CloseEnd, coreVars, lookVars, Actors
  <1>19. ASSUME NEW c \in Cores, HwFinish(c) PROVE TypeOK'
    BY <1>19 DEF TypeOK, HwFinish, lookVars
  <1>20. ASSUME hantrodec_isr PROVE TypeOK'
    BY <1>20 DEF TypeOK, hantrodec_isr
  <1>21. CASE UNCHANGED vars
    BY <1>21 DEF TypeOK, vars, coreVars, lookVars
  <1> QED
    BY <1>1, <1>2, <1>3, <1>4, <1>5, <1>6, <1>7, <1>8, <1>9, <1>10, <1>11,
       <1>12, <1>13, <1>14, <1>15, <1>16, <1>17, <1>18, <1>19, <1>20, <1>21
    DEF Next, Look, Waited, Close
-----------------------------------------------------------------------------
(* A thread that is in the driver has its file open, whatever it does next. *)
LEMMA ThreadStepIsQuiet ==
  ASSUME TypeOK, ClosedIsQuiet, NEW t \in Threads, pc[t] # "gone",
         NEW phase, pc' = [pc EXCEPT ![t] = phase]
  PROVE  ClosedIsQuiet'
  <1>1. \A u \in Threads : pc'[FileOf[u]] = pc[FileOf[u]]
    BY CoresAssumption DEF TypeOK, Actors
  <1>2. pc[FileOf[t]] = "open"
    BY DEF ClosedIsQuiet
  <1>3. \A u \in Threads \ {t} : pc'[u] = pc[u]
    BY DEF TypeOK, Actors
  <1> QED
    BY <1>1, <1>2, <1>3 DEF ClosedIsQuiet

(* A close that goes on reopens nothing and starts no thread.              *)
LEMMA FileStepIsQuiet ==
  ASSUME TypeOK, ClosedIsQuiet, NEW f \in Files, pc[f] # "open",
         NEW phase, pc' = [pc EXCEPT ![f] = phase]
  PROVE  ClosedIsQuiet'
  <1>1. \A u \in Threads : pc'[u] = pc[u]
    BY CoresAssumption DEF TypeOK, Actors
  <1>2. \A u \in Threads : FileOf[u] # f => pc'[FileOf[u]] = pc[FileOf[u]]
    BY CoresAssumption DEF TypeOK, Actors
  <1> QED
    BY <1>1, <1>2 DEF ClosedIsQuiet

(* Every action leaves the threads of a closed file where they are: out.   *)
LEMMA QuietStep == TypeOK /\ ClosedIsQuiet /\ [Next]_vars => ClosedIsQuiet'
  <1> SUFFICES ASSUME TypeOK, ClosedIsQuiet, [Next]_vars PROVE ClosedIsQuiet'
    OBVIOUS
  <1>1. ASSUME NEW t \in Threads, NEW m \in MasksOf[t], ReserveDecoder(t, m)
        PROVE  ClosedIsQuiet'
    BY <1>1, ThreadStepIsQuiet DEF ReserveDecoder
  <1>2. ASSUME NEW t \in Threads, GetDecCore(t) PROVE ClosedIsQuiet'
    BY <1>2, ThreadStepIsQuiet DEF GetDecCore, CanTake
  <1>3. ASSUME NEW t \in Threads, LookInterrupted(t) PROVE ClosedIsQuiet'
    BY <1>3, ThreadStepIsQuiet DEF LookInterrupted
  <1>4. ASSUME NEW t \in Threads, WaitDecReady(t) \/ WaitCoreReady(t)
        PROVE  ClosedIsQuiet'
    BY <1>4, ThreadStepIsQuiet DEF WaitDecReady, WaitCoreReady
  <1>5. ASSUME NEW t \in Threads, CheckDecIrq(t) \/ CheckCoreIrq(t) \/ WaitEnds(t)
        PROVE  ClosedIsQuiet'
    BY <1>5, ThreadStepIsQuiet DEF CheckDecIrq, CheckCoreIrq, OwnIrq, WaitEnds
  <1>6. ASSUME NEW t \in Threads, ReleaseDecoder(t) PROVE ClosedIsQuiet'
    BY <1>6, ThreadStepIsQuiet DEF ReleaseDecoder
  <1>7. ASSUME NEW a \in Actors, Up(a) \/ WakeQueue(a) PROVE ClosedIsQuiet'
    BY <1>7, ThreadStepIsQuiet, FileStepIsQuiet DEF Up, WakeQueue, Actors
  <1>8. ASSUME NEW f \in Files, CloseBegin(f) PROVE ClosedIsQuiet'
    <2>1. \A u \in Threads : FileOf[u] = f => pc'[u] = "gone"
      BY <1>8, CoresAssumption DEF CloseBegin, Actors
    <2>2. \A u \in Threads : FileOf[u] # f =>
            pc'[u] = pc[u] /\ pc'[FileOf[u]] = pc[FileOf[u]]
      BY <1>8, CoresAssumption DEF CloseBegin, Actors
    <2> QED
      BY <2>1, <2>2 DEF ClosedIsQuiet
  <1>9. ASSUME NEW f \in Files, CloseCore(f) \/ CloseEnd(f) PROVE ClosedIsQuiet'
    BY <1>9, FileStepIsQuiet DEF CloseCore, CloseEnd
  <1>10. ASSUME pc' = pc PROVE ClosedIsQuiet'
    BY <1>10 DEF ClosedIsQuiet
  <1>11. ASSUME NEW t \in Threads,
                NextCore(t) \/ LookAgain(t) \/ PassCore(t) \/ DecFlushRegs(t)
         PROVE  pc' = pc
    BY <1>11 DEF NextCore, LookAgain, PassCore, DecFlushRegs
  <1>12. ASSUME NEW c \in Cores, HwFinish(c) PROVE pc' = pc
    BY <1>12 DEF HwFinish
  <1>13. hantrodec_isr \/ UNCHANGED vars => pc' = pc
    BY DEF hantrodec_isr, vars
  <1> QED
    BY <1>1, <1>2, <1>3, <1>4, <1>5, <1>6, <1>7, <1>8, <1>9, <1>10, <1>11,
       <1>12, <1>13
    DEF Next, Look, Waited, Close
-----------------------------------------------------------------------------
(* A step after which no other thread holds a core, and no core has        *)
(* another owner.                                                          *)
HoldersStay ==
    /\ owner' = owner /\ core' = core
    /\ \A u \in Threads : Holding(u)' => Holding(u)

(* Cores change hands in four actions only.                                *)
LEMMA OtherStepsKeepHolders ==
  ASSUME TypeOK, [Next]_vars,
         ~ \E t \in Threads : GetDecCore(t) \/ ReleaseDecoder(t),
         ~ \E f \in Files : CloseBegin(f) \/ CloseCore(f)
  PROVE  HoldersStay
  <1>1. ASSUME NEW t \in Threads, NEW m \in MasksOf[t], ReserveDecoder(t, m)
        PROVE  HoldersStay
    BY <1>1 DEF HoldersStay, Holding, TypeOK, Actors, ReserveDecoder, coreVars
  <1>2. ASSUME NEW t \in Threads, LookInterrupted(t) PROVE HoldersStay
    BY <1>2 DEF HoldersStay, Holding, TypeOK, Actors, LookInterrupted, coreVars
  <1>3. ASSUME NEW t \in Threads, WaitDecReady(t) \/ WaitCoreReady(t)
        PROVE  HoldersStay
    BY <1>3 DEF HoldersStay, Holding, TypeOK, Actors,
                WaitDecReady, WaitCoreReady, coreVars
  <1>4. ASSUME NEW t \in Threads, CheckDecIrq(t) \/ CheckCoreIrq(t) \/ WaitEnds(t)
        PROVE  HoldersStay
    BY <1>4 DEF HoldersStay, Holding, TypeOK, Actors,
                CheckDecIrq, CheckCoreIrq, OwnIrq, WaitEnds, coreVars
  <1>5. ASSUME NEW t \in Threads,
               NextCore(t) \/ LookAgain(t) \/ PassCore(t) \/ DecFlushRegs(t)
        PROVE  HoldersStay
    BY <1>5 DEF HoldersStay, Holding,
                NextCore, LookAgain, PassCore, DecFlushRegs, coreVars
  <1>6. ASSUME NEW a \in Actors, Up(a) \/ WakeQueue(a) PROVE HoldersStay
    BY <1>6 DEF HoldersStay, Holding, TypeOK, Actors, Up, WakeQueue, coreVars
  <1>7. ASSUME NEW f \in Files, CloseEnd(f) PROVE HoldersStay
    BY <1>7, CoresAssumption
    DEF HoldersStay, Holding, TypeOK, Actors, CloseEnd, coreVars
  <1>8. ASSUME NEW c \in Cores, HwFinish(c) PROVE HoldersStay
    BY <1>8 DEF HoldersStay, Holding, HwFinish
  <1>9. hantrodec_isr => HoldersStay
    BY DEF HoldersStay, Holding, hantrodec_isr
  <1>10. UNCHANGED vars => HoldersStay
    BY DEF HoldersStay, Holding, vars, coreVars
  <1> QED
    BY <1>1, <1>2, <1>3, <1>4, <1>5, <1>6, <1>7, <1>8, <1>9, <1>10
    DEF Next, Look, Waited, Close

(* A close frees cores of its own file, and nobody holds those any more.   *)
LEMMA CloseFreesNobody ==
  ASSUME TypeOK, ClosedIsQuiet, OneHolder,
         NEW f \in Files, pc[f] = "closing", NEW c \in Cores, FirstOf(f, c),
         NEW t \in Threads, Holding(t)
  PROVE  core[t] # c
  BY DEF ClosedIsQuiet, OneHolder, FirstOf, OwnedBy, Holding

(* A core that is given out had no owner, and so no holder.                *)
LEMMA HolderStep ==
  TypeOK /\ ClosedIsQuiet /\ OneHolder /\ [Next]_vars => OneHolder'
  <1> SUFFICES ASSUME TypeOK, ClosedIsQuiet, OneHolder, [Next]_vars
               PROVE  OneHolder'
    OBVIOUS
  <1>1. ASSUME NEW t \in Threads, GetDecCore(t) PROVE OneHolder'
    <2>1. scan[t] \in Cores /\ owner[scan[t]] = None
      BY <1>1, CoresAssumption DEF GetDecCore, CanTake, TypeOK, Cores
    <2>2. core'[t] = scan[t] /\ owner'[scan[t]] = FileOf[t]
      BY <1>1, <2>1 DEF GetDecCore, TypeOK
    <2>3. ASSUME NEW u \in Threads \ {t}, Holding(u)'
          PROVE  /\ Holding(u) /\ core'[u] = core[u] /\ core[u] # scan[t]
                 /\ owner'[core[u]] = FileOf[u]
      <3>1. Holding(u) /\ core'[u] = core[u]
        BY <1>1, <2>3 DEF GetDecCore, Holding, TypeOK, Actors
      <3>2. core[u] \in Cores /\ owner[core[u]] = FileOf[u]
        BY <3>1 DEF OneHolder
      <3>3. core[u] # scan[t]
        BY <2>1, <3>2, CoresAssumption DEF Actors
      <3> QED
        BY <1>1, <3>1, <3>2, <3>3 DEF GetDecCore, TypeOK
    <2> QED
      BY <2>1, <2>2, <2>3 DEF OneHolder
  <1>2. ASSUME NEW t \in Threads, ReleaseDecoder(t) PROVE OneHolder'
    <2>1. Holding(t) /\ ~Holding(t)'
      BY <1>2 DEF ReleaseDecoder, Holding, TypeOK, Actors
    <2>2. ASSUME NEW u \in Threads \ {t}, Holding(u)'
          PROVE  Holding(u) /\ core'[u] = core[u] /\ owner'[core[u]] = owner[core[u]]
      <3>1. Holding(u) /\ core'[u] = core[u]
        BY <1>2, <2>2 DEF ReleaseDecoder, Holding, TypeOK, Actors
      <3>2. core[u] # core[t] /\ core[u] \in Cores
        BY <2>1, <3>1 DEF OneHolder
      <3> QED
        BY <1>2, <3>1, <3>2 DEF ReleaseDecoder, FreeCore, TypeOK
    <2> QED
      BY <2>1, <2>2 DEF OneHolder
  <1>3. ASSUME NEW f \in Files, CloseBegin(f) PROVE OneHolder'
    <2>1. ASSUME NEW u \in Threads, Holding(u)'
          PROVE  Holding(u) /\ core'[u] = core[u]
      BY <1>3, <2>1, CoresAssumption DEF CloseBegin, Holding, TypeOK, Actors
    <2>2. owner' = owner
      BY <1>3 DEF CloseBegin, coreVars
    <2> QED
      BY <2>1, <2>2 DEF OneHolder
  <1>4. ASSUME NEW f \in Files, CloseCore(f) PROVE OneHolder'
    <2>1. PICK c \in Cores : FirstOf(f, c) /\ FreeCore(c)
      BY <1>4 DEF CloseCore
    <2>2. ASSUME NEW u \in Threads, Holding(u)'
          PROVE  Holding(u) /\ core'[u] = core[u] /\ owner'[core[u]] = owner[core[u]]
      <3>1. Holding(u) /\ core'[u] = core[u]
        BY <1>4, <2>2, CoresAssumption DEF CloseCore, Holding, TypeOK, Actors
      <3>2. core[u] # c /\ core[u] \in Cores
        BY <1>4, <2>1, <3>1, CloseFreesNobody DEF CloseCore, OneHolder
      <3> QED
        BY <2>1, <3>1, <3>2 DEF FreeCore, TypeOK
    <2> QED
      BY <2>2 DEF OneHolder
  <1>5. HoldersStay => OneHolder'
    BY DEF HoldersStay, OneHolder
  <1> QED
    BY <1>1, <1>2, <1>3, <1>4, <1>5, OtherStepsKeepHolders
-----------------------------------------------------------------------------
(* Whoever stops holding a core also stops waiting for its run.            *)
LEMMA PendingStep == TypeOK /\ PendingHolds /\ [Next]_vars => PendingHolds'
  <1> SUFFICES ASSUME TypeOK, PendingHolds, [Next]_vars PROVE PendingHolds'
    OBVIOUS
  <1>1. ASSUME NEW t \in Threads, NEW m \in MasksOf[t], ReserveDecoder(t, m)
        PROVE  PendingHolds'
    BY <1>1 DEF PendingHolds, Holding, TypeOK, Actors, ReserveDecoder
  <1>2. ASSUME NEW t \in Threads, GetDecCore(t) PROVE PendingHolds'
    BY <1>2 DEF PendingHolds, Holding, TypeOK, Actors, GetDecCore, CanTake
  <1>3. ASSUME NEW t \in Threads, LookInterrupted(t) PROVE PendingHolds'
    BY <1>3 DEF PendingHolds, Holding, TypeOK, Actors, LookInterrupted
  <1>4. ASSUME NEW t \in Threads, WaitDecReady(t) \/ WaitCoreReady(t)
        PROVE  PendingHolds'
    BY <1>4 DEF PendingHolds, Holding, TypeOK, Actors, WaitDecReady, WaitCoreReady
  <1>5. ASSUME NEW t \in Threads, CheckDecIrq(t) \/ CheckCoreIrq(t) \/ WaitEnds(t)
        PROVE  PendingHolds'
    BY <1>5 DEF PendingHolds, Holding, TypeOK, Actors,
                CheckDecIrq, CheckCoreIrq, OwnIrq, WaitEnds
  <1>6. ASSUME NEW t \in Threads, NextCore(t) \/ LookAgain(t) \/ PassCore(t)
        PROVE  PendingHolds'
    BY <1>6 DEF PendingHolds, Holding, NextCore, LookAgain, PassCore
  <1>7. ASSUME NEW t \in Threads, DecFlushRegs(t) PROVE PendingHolds'
    BY <1>7 DEF PendingHolds, Holding, TypeOK, DecFlushRegs
  <1>8. ASSUME NEW t \in Threads, ReleaseDecoder(t) PROVE PendingHolds'
    BY <1>8 DEF PendingHolds, Holding, TypeOK, Actors, ReleaseDecoder
  <1>9. ASSUME NEW a \in Actors, Up(a) \/ WakeQueue(a) PROVE PendingHolds'
    BY <1>9 DEF PendingHolds, Holding, TypeOK, Actors, Up, WakeQueue
  <1>10. ASSUME NEW f \in Files, CloseBegin(f) PROVE PendingHolds'
    BY <1>10, CoresAssumption
    DEF PendingHolds, Holding, TypeOK, Actors, CloseBegin
  <1>11. ASSUME NEW f \in Files, CloseCore(f) \/ CloseEnd(f) PROVE PendingHolds'
    BY <1>11, CoresAssumption
    DEF PendingHolds, Holding, TypeOK, Actors, CloseCore, CloseEnd
  <1>12. ASSUME NEW c \in Cores, HwFinish(c) PROVE PendingHolds'
    BY <1>12 DEF PendingHolds, Holding, HwFinish
  <1>13. hantrodec_isr \/ UNCHANGED vars => PendingHolds'
    BY DEF PendingHolds, Holding, hantrodec_isr, vars
  <1> QED
    BY <1>1, <1>2, <1>3, <1>4, <1>5, <1>6, <1>7, <1>8, <1>9, <1>10, <1>11,
       <1>12, <1>13
    DEF Next, Look, Waited, Close

(* Where the end of t's run is: in the core, at its interrupt, or in       *)
(* dec_irq.                                                                *)
RunOf(t) ==
    \/ hw[core[t]] # "idle" /\ job[core[t]] = t
    \/ hw[core[t]] = "idle" /\ dec_irq[core[t]] = t

(* A step that leaves a core and its bit alone leaves the run in it.       *)
LEMMA RunStays ==
  ASSUME NEW t \in Threads, RunOf(t), core'[t] = core[t],
         hw'[core[t]] = hw[core[t]], job'[core[t]] = job[core[t]],
         dec_irq'[core[t]] = dec_irq[core[t]]
  PROVE  RunOf(t)'
  BY DEF RunOf

(* One thread's reservation, wait or release, and one file's close, touch  *)
(* only cores that no other thread holds.                                  *)
LEMMA CompletionStep ==
  TypeOK /\ ClosedIsQuiet /\ PendingHolds /\ OneHolder /\ CompletionKept /\ [Next]_vars
    => CompletionKept'
  <1> SUFFICES ASSUME TypeOK, ClosedIsQuiet, PendingHolds, OneHolder,
                      CompletionKept, [Next]_vars, NEW t \in Threads,
                      Holding(t)', pending'[t]
               PROVE  RunOf(t)'
    BY DEF CompletionKept, RunOf
  <1>1. ASSUME Holding(t), pending[t]
        PROVE  /\ RunOf(t)
               /\ core[t] \in Cores /\ owner[core[t]] = FileOf[t]
               /\ owner[core[t]] # None
               /\ \A u \in Threads \ {t} : Holding(u) => core[u] # core[t]
    <2>1. RunOf(t)
      BY <1>1 DEF CompletionKept, RunOf
    <2>2. FileOf[t] # None
      BY CoresAssumption DEF Actors
    <2> QED
      BY <1>1, <2>1, <2>2 DEF OneHolder
  <1>2. ASSUME pending' = pending, core' = core,
               hw' = hw, job' = job, dec_irq' = dec_irq
        PROVE  RunOf(t)'
    BY <1>1, <1>2, RunStays DEF PendingHolds
  <1>3. ASSUME NEW u \in Threads, NEW m \in MasksOf[u], ReserveDecoder(u, m)
        PROVE  RunOf(t)'
    BY <1>2, <1>3 DEF ReserveDecoder, coreVars
  <1>4. ASSUME NEW u \in Threads, GetDecCore(u) PROVE RunOf(t)'
    <2>1. pending[t] /\ Holding(t) /\ t # u
      BY <1>4 DEF GetDecCore, CanTake, PendingHolds, Holding
    <2>2. scan[u] # core[t]
      BY <1>1, <1>4, <2>1 DEF GetDecCore, CanTake
    <2>3. core'[t] = core[t] /\ dec_irq'[core[t]] = dec_irq[core[t]]
      BY <1>1, <1>4, <2>1, <2>2 DEF GetDecCore, ClearIrq, TypeOK
    <2> QED
      BY <1>1, <1>4, <2>1, <2>3, RunStays DEF GetDecCore
  <1>5. ASSUME NEW u \in Threads, NextCore(u) \/ LookAgain(u) \/ LookInterrupted(u)
        PROVE  RunOf(t)'
    BY <1>2, <1>5 DEF NextCore, LookAgain, LookInterrupted, coreVars
  <1>6. ASSUME NEW u \in Threads, DecFlushRegs(u) PROVE RunOf(t)'
    <2>1. CASE t = u
      <3>1. core[t] \in Cores /\ core'[t] = core[t]
        BY <1>6, <2>1 DEF DecFlushRegs, OneHolder, Holding
      <3>2. hw'[core[t]] = "running" /\ job'[core[t]] = t
        BY <1>6, <2>1, <3>1 DEF DecFlushRegs, TypeOK
      <3> QED
        BY <3>1, <3>2 DEF RunOf
    <2>2. CASE t # u
      <3>1. pending[t] /\ Holding(t) /\ Holding(u) /\ core' = core
        BY <1>6, <2>2 DEF DecFlushRegs, TypeOK, PendingHolds, Holding
      <3>2. core[u] # core[t]
        BY <1>1, <2>2, <3>1
      <3>3. /\ hw'[core[t]] = hw[core[t]] /\ job'[core[t]] = job[core[t]]
            /\ dec_irq' = dec_irq
        BY <1>1, <1>6, <3>1, <3>2 DEF DecFlushRegs, TypeOK
      <3> QED
        BY <1>1, <3>1, <3>3, RunStays
    <2> QED
      BY <2>1, <2>2
  <1>7. ASSUME NEW u \in Threads,
               WaitDecReady(u) \/ WaitCoreReady(u) \/ WaitEnds(u)
        PROVE  RunOf(t)'
    BY <1>2, <1>7 DEF WaitDecReady, WaitCoreReady, WaitEnds, coreVars
  <1>8. ASSUME NEW u \in Threads, CheckDecIrq(u) \/ CheckCoreIrq(u)
        PROVE  RunOf(t)'
    <2>1. /\ Holding(u) /\ ~pending'[u] /\ core' = core /\ hw' = hw /\ job' = job
          /\ dec_irq' = ClearIrq(core[u])
      BY <1>8 DEF CheckDecIrq, CheckCoreIrq, OwnIrq, Holding, TypeOK
    <2>2. t # u /\ pending[t] /\ Holding(t)
      BY <1>8, <2>1 DEF CheckDecIrq, CheckCoreIrq, TypeOK, PendingHolds
    <2>3. core[u] # core[t]
      BY <1>1, <2>1, <2>2
    <2>4. dec_irq'[core[t]] = dec_irq[core[t]]
      BY <1>1, <2>1, <2>2, <2>3 DEF ClearIrq, TypeOK
    <2> QED
      BY <1>1, <2>1, <2>2, <2>4, RunStays
  <1>9. ASSUME NEW u \in Threads, PassCore(u) PROVE RunOf(t)'
    <2>1. pending[t] /\ Holding(t) /\ core' = core /\ hw' = hw /\ job' = job
      BY <1>9 DEF PassCore, PendingHolds
    <2>2. dec_irq'[core[t]] = dec_irq[core[t]]
      BY <1>1, <1>9, <2>1 DEF PassCore, Zombie, ClearIrq, TypeOK
    <2> QED
      BY <1>1, <2>1, <2>2, RunStays
  <1>10. ASSUME NEW u \in Threads, ReleaseDecoder(u) PROVE RunOf(t)'
    <2>1. t # u /\ pending[t] /\ Holding(t) /\ Holding(u)
      BY <1>10 DEF ReleaseDecoder, Holding, TypeOK, PendingHolds
    <2>2. core[u] # core[t]
      BY <1>1, <2>1
    <2>3. /\ core'[t] = core[t] /\ dec_irq' = dec_irq
          /\ hw'[core[t]] = hw[core[t]] /\ job'[core[t]] = job[core[t]]
      BY <1>1, <1>10, <2>1, <2>2 DEF ReleaseDecoder, FreeCore, TypeOK
    <2> QED
      BY <1>1, <2>1, <2>3, RunStays
  <1>11. ASSUME NEW a \in Actors, Up(a) \/ WakeQueue(a) PROVE RunOf(t)'
    BY <1>2, <1>11 DEF Up, WakeQueue, coreVars
  <1>12. ASSUME NEW f \in Files, CloseBegin(f) PROVE RunOf(t)'
    <2>1. pending[t] /\ Holding(t) /\ core'[t] = core[t]
      BY <1>12 DEF CloseBegin, PendingHolds
    <2> QED
      BY <1>1, <1>12, <2>1, RunStays DEF CloseBegin, coreVars
  <1>13. ASSUME NEW f \in Files, CloseCore(f) PROVE RunOf(t)'
    <2>1. PICK c \in Cores : FirstOf(f, c) /\ FreeCore(c)
      BY <1>13 DEF CloseCore
    <2>2. pending[t] /\ Holding(t) /\ core' = core /\ dec_irq' = dec_irq
      BY <1>13 DEF CloseCore, PendingHolds
    <2>3. core[t] # c
      BY <1>13, <2>1, <2>2, CloseFreesNobody DEF CloseCore
    <2>4. hw'[core[t]] = hw[core[t]] /\ job'[core[t]] = job[core[t]]
      BY <1>1, <2>1, <2>2, <2>3 DEF FreeCore, TypeOK
    <2> QED
      BY <1>1, <2>2, <2>4, RunStays
  <1>14. ASSUME NEW f \in Files, CloseEnd(f) PROVE RunOf(t)'
    BY <1>2, <1>14 DEF CloseEnd, coreVars
  <1>15. ASSUME NEW c \in Cores, HwFinish(c) PROVE RunOf(t)'
    <2>1. pending[t] /\ Holding(t) /\ core' = core /\ dec_irq' = dec_irq /\ job' = job
      BY <1>15 DEF HwFinish, PendingHolds
    <2>2. hw[core[t]] # "idle" <=> hw'[core[t]] # "idle"
      BY <1>1, <1>15, <2>1 DEF HwFinish, TypeOK
    <2> QED
      BY <1>1, <2>1, <2>2 DEF RunOf
  <1>16. ASSUME hantrodec_isr PROVE RunOf(t)'
    <2>1. pending[t] /\ Holding(t) /\ core' = core
      BY <1>16 DEF hantrodec_isr, PendingHolds
    <2>2. CASE hw[core[t]] = "irq"
      <3>1. dec_irq'[core[t]] = job[core[t]] /\ hw'[core[t]] = "idle"
        BY <1>1, <1>16, <2>1, <2>2 DEF hantrodec_isr
      <3>2. job[core[t]] = t
        BY <1>1, <2>1, <2>2 DEF RunOf
      <3> QED
        BY <1>1, <2>1, <2>2, <3>1, <3>2 DEF RunOf
    <2>3. CASE hw[core[t]] # "irq"
      <3>1. /\ hw'[core[t]] = hw[core[t]] /\ job'[core[t]] = job[core[t]]
            /\ dec_irq'[core[t]] = dec_irq[core[t]]
        BY <1>1, <1>16, <2>1, <2>3 DEF hantrodec_isr
      <3> QED
        BY <1>1, <2>1, <3>1, RunStays
    <2> QED
      BY <2>2, <2>3
  <1>17. UNCHANGED vars => RunOf(t)'
    BY <1>2 DEF vars, coreVars
  <1> QED
    BY <1>3, <1>4, <1>5, <1>6, <1>7, <1>8, <1>9, <1>10, <1>11, <1>12, <1>13,
       <1>14, <1>15, <1>16, <1>17
    DEF Next, Look, Waited, Close
-----------------------------------------------------------------------------
(* The alternatives of NoMissedWake: the cores of the mask that the scan   *)
(* has passed are owned, or a release is still to wake the queue.          *)
BehindOwned(t) == \A c \in mask[t] : c < scan[t] => owner[c] # None
WakeToCome == \E a \in Actors : pc[a] \in {"up", "wake"}

(* They outlast a step that frees no core, moves no cursor and takes no    *)
(* release out of its way to the queue.                                    *)
LEMMA WakeStays ==
  ASSUME TypeOK, NoMissedWake, NEW t \in Threads, pc[t] = "looking", ~awake[t],
         mask'[t] = mask[t], scan'[t] = scan[t],
         \A c \in Cores : owner[c] # None => owner'[c] # None,
         \A a \in Actors : pc[a] \in {"up", "wake"} => pc'[a] \in {"up", "wake"}
  PROVE  (BehindOwned(t) \/ WakeToCome)'
  <1>1. BehindOwned(t) \/ WakeToCome
    BY DEF NoMissedWake, Looking, BehindOwned, WakeToCome
  <1>2. BehindOwned(t) => BehindOwned(t)'
    BY DEF BehindOwned, TypeOK
  <1>3. WakeToCome => WakeToCome'
    BY DEF WakeToCome
  <1> QED
    BY <1>1, <1>2, <1>3

(* A release announces itself in the step that frees the core, and         *)
(* whoever is woken will look again.                                       *)
LEMMA WakeStep == TypeOK /\ NoMissedWake /\ [Next]_vars => NoMissedWake'
  <1> SUFFICES ASSUME TypeOK, NoMissedWake, [Next]_vars, NEW t \in Threads,
                      pc'[t] = "looking", ~awake'[t]
               PROVE  (BehindOwned(t) \/ WakeToCome)'
    BY DEF NoMissedWake, Looking, BehindOwned, WakeToCome
  <1> DEFINE Goal == (BehindOwned(t) \/ WakeToCome)'
  <1>1. ASSUME pc' = pc, mask' = mask, scan' = scan, owner' = owner,
               ~awake[t]
        PROVE  Goal
    BY <1>1, WakeStays
  <1>2. ASSUME NEW u \in Threads, NEW m \in MasksOf[u], ReserveDecoder(u, m)
        PROVE  Goal
    <2>1. t # u /\ pc[t] = "looking" /\ ~awake[t]
      BY <1>2 DEF ReserveDecoder, TypeOK, Actors
    <2>2. mask'[t] = mask[t] /\ scan'[t] = scan[t] /\ owner' = owner
      BY <1>2, <2>1 DEF ReserveDecoder, TypeOK, coreVars
    <2>3. \A a \in Actors : pc[a] \in {"up", "wake"} => pc'[a] = pc[a]
      BY <1>2 DEF ReserveDecoder, TypeOK
    <2> QED
      BY <2>1, <2>2, <2>3, WakeStays
  <1>3. ASSUME NEW u \in Threads, GetDecCore(u) PROVE Goal
    <2>1. t # u /\ pc[t] = "looking"
      BY <1>3 DEF GetDecCore, TypeOK, Actors
    <2>2. mask'[t] = mask[t] /\ scan'[t] = scan[t] /\ ~awake[t]
      BY <1>3, <2>1 DEF GetDecCore, LeaveLook, TypeOK
    <2>3. \A c \in Cores : owner[c] # None => owner'[c] # None
      BY <1>3 DEF GetDecCore, CanTake, TypeOK
    <2>4. \A a \in Actors : pc[a] \in {"up", "wake"} => pc'[a] = pc[a]
      BY <1>3 DEF GetDecCore, CanTake, TypeOK
    <2> QED
      BY <2>1, <2>2, <2>3, <2>4, WakeStays
  <1>4. ASSUME NEW u \in Threads, NextCore(u) PROVE Goal
    <2>1. pc' = pc /\ awake' = awake /\ mask' = mask /\ owner' = owner
      BY <1>4 DEF NextCore, coreVars
    <2>2. CASE t = u
      <3>1. scan[t] \notin mask[t] \/ owner[scan[t]] # None
        BY <1>4, <2>2 DEF NextCore, CanTake, IsValideCore
      <3>2. scan'[t] = scan[t] + 1 /\ scan[t] \in Int
        BY <1>4, <2>2 DEF NextCore, TypeOK
      <3>3. \A c \in mask[t] : c \in Int /\ (c < scan'[t] => c < scan[t] \/ c = scan[t])
        BY <3>2 DEF TypeOK, Cores
      <3>4. BehindOwned(t) \/ WakeToCome
        BY <2>1 DEF NoMissedWake, Looking, BehindOwned, WakeToCome
      <3>5. BehindOwned(t) => BehindOwned(t)'
        BY <2>1, <3>1, <3>3 DEF BehindOwned
      <3> QED
        BY <2>1, <3>4, <3>5 DEF WakeToCome
    <2>3. CASE t # u
      <3>1. scan'[t] = scan[t]
        BY <1>4, <2>3 DEF NextCore, TypeOK
      <3> QED
        BY <2>1, <3>1, WakeStays
    <2> QED
      BY <2>2, <2>3
  <1>5. ASSUME NEW u \in Threads, LookAgain(u) PROVE Goal
    <2>1. pc' = pc /\ mask' = mask /\ owner' = owner
      BY <1>5 DEF LookAgain, coreVars
    <2>2. CASE t = u
      <3>1. scan'[t] = 0
        BY <1>5, <2>2 DEF LookAgain, TypeOK
      <3>2. \A c \in mask'[t] : ~(c < 0)
        BY <2>1, CoresAssumption DEF TypeOK, Cores
      <3> QED
        BY <3>1, <3>2 DEF BehindOwned
    <2>3. CASE t # u
      <3>1. scan'[t] = scan[t] /\ ~awake[t]
        BY <1>5, <2>3 DEF LookAgain, TypeOK
      <3> QED
        BY <2>1, <3>1, WakeStays
    <2> QED
      BY <2>2, <2>3
  <1>6. ASSUME NEW u \in Threads,
               \/ LookInterrupted(u) \/ WaitDecReady(u) \/ WaitCoreReady(u)
               \/ CheckDecIrq(u) \/ CheckCoreIrq(u) \/ WaitEnds(u)
        PROVE  Goal
    <2>1. t # u /\ pc[t] = "looking"
      BY <1>6 DEF LookInterrupted, WaitDecReady, WaitCoreReady, CheckDecIrq,
                  CheckCoreIrq, WaitEnds, TypeOK, Actors
    <2>2. mask'[t] = mask[t] /\ scan'[t] = scan[t] /\ ~awake[t]
      BY <1>6, <2>1 DEF LookInterrupted, WaitDecReady, WaitCoreReady, CheckDecIrq,
                        CheckCoreIrq, WaitEnds, LeaveLook, TypeOK, lookVars
    <2>3. owner' = owner
      BY <1>6 DEF LookInterrupted, WaitDecReady, WaitCoreReady, CheckDecIrq,
                  CheckCoreIrq, WaitEnds, coreVars
    <2>4. \A a \in Actors : pc[a] \in {"up", "wake"} => pc'[a] = pc[a]
      BY <1>6 DEF LookInterrupted, WaitDecReady, WaitCoreReady, CheckDecIrq,
                  CheckCoreIrq, OwnIrq, WaitEnds, TypeOK
    <2> QED
      BY <2>1, <2>2, <2>3, <2>4, WakeStays
  <1>7. ASSUME NEW u \in Threads, PassCore(u) PROVE Goal
    <2>1. pc' = pc /\ mask' = mask /\ owner' = owner /\ awake' = awake /\ t # u
      BY <1>7 DEF PassCore
    <2>2. scan'[t] = scan[t]
      BY <1>7, <2>1 DEF PassCore, TypeOK
    <2> QED
      BY <2>1, <2>2, WakeStays
  <1>8. ASSUME NEW u \in Threads, DecFlushRegs(u) PROVE Goal
    BY <1>1, <1>8 DEF DecFlushRegs, lookVars
  <1>9. ASSUME NEW u \in Threads, ReleaseDecoder(u) PROVE Goal
    BY <1>9 DEF ReleaseDecoder, WakeToCome, TypeOK, Actors
  <1>10. ASSUME NEW a \in Actors, Up(a) PROVE Goal
    BY <1>10 DEF Up, WakeToCome, TypeOK
  <1>11. ASSUME NEW a \in Actors, WakeQueue(a) PROVE Goal
    BY <1>11 DEF WakeQueue, TypeOK, Actors
  <1>12. ASSUME NEW f \in Files, CloseBegin(f) PROVE Goal
    <2>1. \A a \in Actors : pc[a] \in {"up", "wake"} => pc'[a] = pc[a]
      BY <1>12 DEF CloseBegin
    <2>2. pc[t] = "looking"
      BY <1>12, CoresAssumption DEF CloseBegin, Actors
    <2> QED
      BY <1>12, <2>1, <2>2, WakeStays DEF CloseBegin, coreVars, lookVars
  <1>13. ASSUME NEW f \in Files, CloseCore(f) PROVE Goal
    BY <1>13 DEF CloseCore, WakeToCome, TypeOK, Actors
  <1>14. ASSUME NEW f \in Files, CloseEnd(f) PROVE Goal
    <2>1. \A a \in Actors : pc[a] \in {"up", "wake"} => pc'[a] = pc[a]
      BY <1>14 DEF CloseEnd, TypeOK
    <2>2. pc[t] = "looking"
      BY <1>14, CoresAssumption DEF CloseEnd, TypeOK, Actors
    <2> QED
      BY <1>14, <2>1, <2>2, WakeStays DEF CloseEnd, coreVars, lookVars
  <1>15. ASSUME NEW c \in Cores, HwFinish(c) PROVE Goal
    BY <1>1, <1>15 DEF HwFinish, lookVars
  <1>16. hantrodec_isr => Goal
    BY <1>1 DEF hantrodec_isr, TypeOK
  <1>17. UNCHANGED vars => Goal
    BY <1>1 DEF vars, coreVars, lookVars
  <1> QED
    BY <1>2, <1>3, <1>4, <1>5, <1>6, <1>7, <1>8, <1>9, <1>10, <1>11, <1>12,
       <1>13, <1>14, <1>15, <1>16, <1>17
    DEF Next, Look, Waited, Close
-----------------------------------------------------------------------------
(* Adding to or taking from a counted set moves its count by one.          *)
LEMMA CountMoves ==
  ASSUME NEW S, IsFiniteSet(S), NEW x
  PROVE  /\ x \notin S => Cardinality(S \cup {x}) = Cardinality(S) + 1
         /\ x \in S => Cardinality(S \ {x}) = Cardinality(S) - 1
  BY FS_AddElement, FS_RemoveElement

(* A step that moves no permit changes none of the five numbers.           *)
LEMMA PermitsStay ==
  ASSUME PermitsMatchCores, sem' = sem, lost' = lost, owner' = owner,
         \A a \in Actors : pc'[a] = "up" <=> pc[a] = "up",
         \A t \in Threads : pc'[t] = "looking" <=> pc[t] = "looking"
  PROVE  PermitsMatchCores'
  <1>1. Looking' = Looking /\ Returning' = Returning /\ FreeCores' = FreeCores
    BY DEF Looking, Returning, FreeCores
  <1> QED
    BY <1>1 DEF PermitsMatchCores

(* Freeing a core puts one actor on its way back with the permit.          *)
LEMMA PermitsAfterFree ==
  ASSUME TypeOK, PermitsMatchCores, sem' = sem, lost' = lost,
         NEW c \in Cores, owner[c] # None, FreeCore(c),
         NEW a \in Actors, pc[a] \notin {"up", "looking"},
         pc' = [pc EXCEPT ![a] = "up"]
  PROVE  PermitsMatchCores'
  <1>1. Looking' = Looking
    BY DEF Looking, TypeOK, Actors
  <1>2. Returning' = Returning \cup {a} /\ a \notin Returning
    BY DEF Returning, TypeOK
  <1>3. FreeCores' = FreeCores \cup {c} /\ c \notin FreeCores
    BY DEF FreeCores, FreeCore, TypeOK
  <1>4. /\ Cardinality(Returning') = Cardinality(Returning) + 1
        /\ Cardinality(FreeCores') = Cardinality(FreeCores) + 1
    BY <1>2, <1>3, CountMoves, CountedSetsFinite
  <1> QED
    BY <1>1, <1>4, CountsAreNat DEF PermitsMatchCores, TypeOK

(* At the start all permits are there and all cores free.                  *)
LEMMA PermitsInit == Init => PermitsMatchCores
  <1> SUFFICES ASSUME Init PROVE PermitsMatchCores
    OBVIOUS
  <1>1. Looking = {} /\ Returning = {}
    BY CoresAssumption DEF Init, Looking, Returning, Actors
  <1>2. FreeCores = Cores
    BY DEF Init, FreeCores
  <1>3. Cardinality(Cores) = NumCores
    BY FS_Interval, CoresAssumption DEF Cores
  <1>4. Cardinality(Looking) = 0 /\ Cardinality(Returning) = 0
    BY <1>1, FS_EmptySet
  <1> QED
    BY <1>2, <1>3, <1>4, CoresAssumption DEF Init, PermitsMatchCores

(* Every permit that is taken, lost or returned has its core.              *)
LEMMA PermitsStep ==
  TypeOK /\ OneHolder /\ PermitsMatchCores /\ [Next]_vars => PermitsMatchCores'
  <1> SUFFICES ASSUME TypeOK, OneHolder, PermitsMatchCores, [Next]_vars
               PROVE  PermitsMatchCores'
    OBVIOUS
  <1> USE CountsAreNat, CoresAssumption
  <1>1. ASSUME NEW t \in Threads, NEW m \in MasksOf[t], ReserveDecoder(t, m)
        PROVE  PermitsMatchCores'
    <2>1. Looking' = Looking \cup {t} /\ t \notin Looking
      BY <1>1 DEF ReserveDecoder, Looking, TypeOK, Actors
    <2>2. Returning' = Returning /\ FreeCores' = FreeCores
      BY <1>1 DEF ReserveDecoder, Returning, FreeCores, TypeOK, coreVars
    <2>3. Cardinality(Looking') = Cardinality(Looking) + 1
      BY <2>1, CountMoves, CountedSetsFinite
    <2>4. sem' = sem - 1 /\ lost' = lost
      BY <1>1 DEF ReserveDecoder
    <2> QED
      BY <2>2, <2>3, <2>4 DEF PermitsMatchCores, TypeOK
  <1>2. ASSUME NEW t \in Threads, GetDecCore(t) PROVE PermitsMatchCores'
    <2>1. Looking' = Looking \ {t} /\ t \in Looking
      BY <1>2 DEF GetDecCore, CanTake, Looking, TypeOK, Actors
    <2>2. Returning' = Returning
      BY <1>2 DEF GetDecCore, CanTake, Returning, TypeOK
    <2>3. FreeCores' = FreeCores \ {scan[t]} /\ scan[t] \in FreeCores
      <3>1. scan[t] \in Cores /\ owner[scan[t]] = None
        BY <1>2 DEF GetDecCore, CanTake, TypeOK, Cores
      <3>2. FileOf[t] # None
        BY DEF Actors
      <3> QED
        BY <1>2, <3>1, <3>2 DEF GetDecCore, FreeCores, TypeOK
    <2>4. /\ Cardinality(Looking') = Cardinality(Looking) - 1
          /\ Cardinality(FreeCores') = Cardinality(FreeCores) - 1
      BY <2>1, <2>3, CountMoves, CountedSetsFinite
    <2>5. sem' = sem /\ lost' = lost
      BY <1>2 DEF GetDecCore
    <2> QED
      BY <2>2, <2>4, <2>5 DEF PermitsMatchCores, TypeOK
  <1>3. ASSUME NEW t \in Threads, LookInterrupted(t) PROVE PermitsMatchCores'
    <2>1. Looking' = Looking \ {t} /\ t \in Looking
      BY <1>3 DEF LookInterrupted, Looking, TypeOK, Actors
    <2>2. Returning' = Returning /\ FreeCores' = FreeCores
      BY <1>3 DEF LookInterrupted, Returning, FreeCores, TypeOK, coreVars
    <2>3. Cardinality(Looking') = Cardinality(Looking) - 1
      BY <2>1, CountMoves, CountedSetsFinite
    <2>4. sem' = sem /\ lost' = lost + 1
      BY <1>3 DEF LookInterrupted, coreVars
    <2> QED
      BY <2>2, <2>3, <2>4 DEF PermitsMatchCores, TypeOK
  <1>4. ASSUME NEW t \in Threads, ReleaseDecoder(t) PROVE PermitsMatchCores'
    <2>1. core[t] \in Cores /\ owner[core[t]] # None
      BY <1>4 DEF ReleaseDecoder, OneHolder, Holding, Actors
    <2>2. /\ sem' = sem /\ lost' = lost /\ FreeCore(core[t])
          /\ pc[t] \notin {"up", "looking"} /\ pc' = [pc EXCEPT ![t] = "up"]
      BY <1>4 DEF ReleaseDecoder
    <2> QED
      BY <2>1, <2>2, PermitsAfterFree DEF Actors
  <1>5. ASSUME NEW a \in Actors, Up(a) PROVE PermitsMatchCores'
    <2>1. Returning' = Returning \ {a} /\ a \in Returning
      BY <1>5 DEF Up, Returning, TypeOK
    <2>2. Looking' = Looking /\ FreeCores' = FreeCores
      BY <1>5 DEF Up, Looking, FreeCores, TypeOK, Actors, coreVars
    <2>3. Cardinality(Returning') = Cardinality(Returning) - 1
      BY <2>1, CountMoves, CountedSetsFinite
    <2>4. sem' = sem + 1 /\ lost' = lost
      BY <1>5 DEF Up
    <2> QED
      BY <2>2, <2>3, <2>4 DEF PermitsMatchCores, TypeOK
  <1>6. ASSUME NEW f \in Files, CloseCore(f) PROVE PermitsMatchCores'
    <2>1. PICK c \in Cores : FirstOf(f, c) /\ FreeCore(c)
      BY <1>6 DEF CloseCore
    <2>2. owner[c] # None
      BY <2>1 DEF FirstOf, OwnedBy, Actors
    <2>3. /\ sem' = sem /\ lost' = lost
          /\ pc[f] \notin {"up", "looking"} /\ pc' = [pc EXCEPT ![f] = "up"]
      BY <1>6 DEF CloseCore
    <2> QED
      BY <2>1, <2>2, <2>3, PermitsAfterFree DEF Actors
  <1>7. ASSUME NEW a \in Actors, WakeQueue(a) PROVE PermitsMatchCores'
    BY <1>7, PermitsStay DEF WakeQueue, TypeOK, Actors, coreVars
  <1>8. ASSUME NEW t \in Threads,
               NextCore(t) \/ LookAgain(t) \/ PassCore(t) \/ DecFlushRegs(t)
        PROVE  PermitsMatchCores'
    BY <1>8, PermitsStay DEF NextCore, LookAgain, PassCore, DecFlushRegs, coreVars
  <1>9. ASSUME NEW t \in Threads,
               \/ WaitDecReady(t) \/ WaitCoreReady(t) \/ WaitEnds(t)
               \/ CheckDecIrq(t) \/ CheckCoreIrq(t)
        PROVE  PermitsMatchCores'
    BY <1>9, PermitsStay
    DEF WaitDecReady, WaitCoreReady, WaitEnds, CheckDecIrq, CheckCoreIrq, OwnIrq,
        TypeOK, Actors, coreVars
  <1>10. ASSUME NEW f \in Files, CloseBegin(f) PROVE PermitsMatchCores'
    BY <1>10, PermitsStay DEF CloseBegin, Actors, coreVars
  <1>11. ASSUME NEW f \in Files, CloseEnd(f) PROVE PermitsMatchCores'
    BY <1>11, PermitsStay DEF CloseEnd, TypeOK, Actors, coreVars
  <1>12. ASSUME NEW c \in Cores, HwFinish(c) PROVE PermitsMatchCores'
    BY <1>12, PermitsStay DEF HwFinish
  <1>13. hantrodec_isr \/ UNCHANGED vars => PermitsMatchCores'
    BY PermitsStay DEF hantrodec_isr, vars, coreVars
  <1> QED
    BY <1>1, <1>2, <1>3, <1>4, <1>5, <1>6, <1>7, <1>8, <1>9, <1>10, <1>11,
       <1>12, <1>13
    DEF Next, Look, Waited, Close
-----------------------------------------------------------------------------
(* The inductive invariant: types, quiet closed files, one holder for each *)
(* core, permits that match the free cores, and no wake-up or completion   *)
(* lost.                                                                   *)
THEOREM CoresInvariant == Spec => []CoresInv
  <1>1. Init => CoresInv
    <2> SUFFICES ASSUME Init PROVE CoresInv
      OBVIOUS
    <2>1. \A t \in Threads : pc[t] = "idle" /\ pc[FileOf[t]] = "open" /\ ~pending[t]
      BY CoresAssumption DEF Init, Actors
    <2>2. ClosedIsQuiet /\ PendingHolds /\ OneHolder /\ NoMissedWake /\ CompletionKept
      BY <2>1
      DEF ClosedIsQuiet, PendingHolds, OneHolder, NoMissedWake, CompletionKept,
          Holding, Looking
    <2> QED
      BY <2>2, TypeInit, PermitsInit DEF CoresInv
  <1>2. CoresInv /\ [Next]_vars => CoresInv'
    BY TypeStep, QuietStep, PendingStep, HolderStep, PermitsStep, WakeStep,
       CompletionStep
    DEF CoresInv
  <1> QED
    BY <1>1, <1>2, PTL DEF Spec

(* ReserveDecoder, ReleaseDecoder and hantrodec_release keep every type:   *)
(* in particular dec_core_sem never holds more permits than there are      *)
(* cores.                                                                  *)
THEOREM CoresTypeCorrect == Spec => []TypeOK
  BY CoresInvariant, PTL DEF CoresInv

(* GetDecCore gives no core to two threads, whatever masks they ask for,   *)
(* and no release or close takes a core from under its holder.             *)
THEOREM NoSharedCore == Spec => []OneHolder
  BY CoresInvariant, PTL DEF CoresInv

(* Whatever calls are interrupted and whatever files closed, dec_core_sem  *)
(* falls short of the free cores by exactly the permits on their way and   *)
(* those that interrupted reservations have lost.                          *)
THEOREM PermitsAreCores == Spec => []PermitsMatchCores
  BY CoresInvariant, PTL DEF CoresInv

(* A thread sleeps on hw_queue beside a free core of its mask only while   *)
(* the release that freed it has still to wake the queue.                  *)
THEOREM WakeUpsReachSleepers == Spec => []NoMissedWake
  BY CoresInvariant, PTL DEF CoresInv

(* The bit in dec_irq that reports a run stays until its thread has seen   *)
(* it, through all reservations and zombie sweeps of other threads.        *)
THEOREM CompletionsReachTheirThread == Spec => []CompletionKept
  BY CoresInvariant, PTL DEF CoresInv
=============================================================================
