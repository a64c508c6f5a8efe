--------------------------- MODULE EncCoresProofs ---------------------------
(***************************************************************************)
(* Proofs, for every number of cores, processes, threads and requests, of  *)
(* the safety properties of EncCores.                                      *)
(*                                                                         *)
(* The end of a run is kept because each core is in a definite phase for   *)
(* the thread that waits for it (RunIsSomewhere): a later interrupt of an  *)
(* earlier holder cannot follow the one it waits for.  The semaphore's     *)
(* equation needs no more than that the handler, between its two critical  *)
(* sections, still has the interrupt that it has seen (IsrHasIrq).         *)
(***************************************************************************)
EXTENDS EncCores, FiniteSetTheorems, TLAPS

(* A process whose close has begun has no thread left in the driver.       *)
ClosedIsQuiet == \A t \in Threads : pc[ProcOf[t]] # "open" => pc[t] = "gone"

(* A thread has cores only inside its calls; with all it asked for, some.  *)
GotInPhase ==
    \A t \in Threads :
        /\ pc[t] \in {"idle", "gone"} => got[t] = {}
        /\ pc[t] \in {"owner", "wait"} => got[t] # {}
        /\ pc[t] = "looking" => want[t] > 0
        /\ pending[t] => pc[t] \in {"owner", "wait"}

(* What an interrupted request has left behind stays reserved.             *)
LeakedIsReserved == \A c \in leaked : pid[c] # None

(* The handler has seen an interrupt, and nothing clears it meanwhile.     *)
IsrHasIrq == \A c \in Cores : isr[c] => raised[c] # None

(* Where the run is that t has not been told of: in the core, or at its    *)
(* interrupt when the core has stopped, or in irq_received when no         *)
(* interrupt is left.                                                      *)
RunOf(t, c) ==
    \/ run[c] = t
    \/ run[c] = None /\ raised[c] = t
    \/ run[c] = None /\ raised[c] = None /\ irq_received[c] = t

RunIsSomewhere == \A t \in Threads : pending[t] => RunOf(t, Lowest(t))

EncInv ==
    /\ TypeOK
    /\ ClosedIsQuiet
    /\ GotInPhase
    /\ IsrHasIrq
    /\ LeakedIsReserved
    /\ OneHolder
    /\ RunIsSomewhere
    /\ NoMissedWake
    /\ SuspendPermit

(* The least-number principle: the first core that qualifies is a minimum. *)
LEMMA NatSetHasMin ==
  ASSUME NEW S \in SUBSET Nat, S # {}
  PROVE  \E m \in S : \A n \in S : m <= n
  <1> DEFINE Less == {ss \in Nat \X Nat : ss[1] < ss[2]}
  <1>1. IsWellFoundedOn(Less, Nat)
    BY NatLessThanWellFounded DEF OpToRel
  <1>2. \A m, n \in Nat : n < m => <<n, m>> \in Less
    OBVIOUS
  <1> HIDE DEF Less
  <1>3. PICK m \in S : \A n \in S : <<n, m>> \notin Less
    BY <1>1, WFMin
  <1>4. \A n \in S : n \in Nat /\ m \in Nat /\ ~(n < m)
    BY <1>2, <1>3
  <1>5. ASSUME NEW n \in S PROVE m <= n
    <2>1. n \in Nat /\ m \in Nat /\ ~(n < m)
      BY <1>4
    <2> QED
      BY <2>1
  <1> QED
    BY <1>5

(* A request that has cores has a lowest one.                              *)
LEMMA LowestIsGot ==
  ASSUME TypeOK, NEW t \in Threads, got[t] # {}
  PROVE  Lowest(t) \in got[t] /\ Lowest(t) \in Cores
  <1>1. got[t] \in SUBSET Nat /\ got[t] \subseteq Cores
    BY CoresAssumption DEF TypeOK, Cores
  <1>2. \E c \in got[t] : \A d \in got[t] : c <= d
    BY <1>1, NatSetHasMin
  <1> QED
    BY <1>1, <1>2 DEF Lowest
-----------------------------------------------------------------------------
(* Types.  That a lost permit is lost once only is the semaphore's equation *)
(* already, and that the handler reports an interrupt, IsrHasIrq.           *)
LEMMA TypeStep ==
  TypeOK /\ GotInPhase /\ IsrHasIrq /\ SuspendPermit /\ [Next]_vars => TypeOK'
  <1> SUFFICES ASSUME TypeOK, GotInPhase, IsrHasIrq, SuspendPermit, [Next]_vars
               PROVE  TypeOK'
    OBVIOUS
  <1> USE CoresAssumption DEF coreVars, hwVars, lookVars, bounds
  <1>1. ASSUME NEW t \in Threads, NEW n \in Amounts, ReserveEncoder(t, n)
        PROVE  TypeOK'
    BY <1>1 DEF TypeOK, Cores, Actors, ThreadPhases, ProcPhases, ReserveEncoder
  <1>2. ASSUME NEW t \in Threads, TakeCore(t) PROVE TypeOK'
    <2>1. scan[t] \in Cores /\ ProcOf[t] \in Procs
      BY <1>2 DEF TypeOK, TakeCore, CanTake, Cores
    <2>2. want[t] \in 1..NumCores
      BY <1>2 DEF TypeOK, GotInPhase, TakeCore, CanTake
    <2>3. pid' \in [Cores -> Procs \cup {None}] /\ got' \in [Threads -> SUBSET Cores]
      BY <1>2, <2>1 DEF TypeOK, TakeCore
    <2>4. /\ pc' \in [Actors -> ThreadPhases \cup ProcPhases]
          /\ want' \in [Threads -> 0..NumCores]
          /\ scan' \in [Threads -> 0..NumCores]
          /\ awake' \in [Threads -> BOOLEAN]
      <3>1. /\ pc \in [Actors -> ThreadPhases \cup ProcPhases]
            /\ want \in [Threads -> 0..NumCores]
            /\ scan \in [Threads -> 0..NumCores]
            /\ awake \in [Threads -> BOOLEAN]
            /\ NumCores \in Nat
        BY DEF TypeOK
      <3>2. CASE want[t] = 1
        <4>1. pc' = [pc EXCEPT ![t] = "owner"] /\ LeaveLook(t)
          BY <1>2, <3>2 DEF TakeCore
        <4>2. pc' \in [Actors -> ThreadPhases \cup ProcPhases]
          BY <3>1, <4>1 DEF ThreadPhases
        <4>3. want' \in [Threads -> 0..NumCores] /\ scan' \in [Threads -> 0..NumCores]
          BY <3>1, <4>1 DEF LeaveLook
        <4>4. awake' \in [Threads -> BOOLEAN]
          BY <3>1, <4>1 DEF LeaveLook
        <4> QED
          BY <4>2, <4>3, <4>4
      <3>3. CASE want[t] # 1
        <4>1. /\ want' = [want EXCEPT ![t] = @ - 1]
              /\ scan' = [scan EXCEPT ![t] = @ + 1]
              /\ UNCHANGED <<pc, awake>>
          BY <1>2, <3>3 DEF TakeCore
        <4>2. want[t] - 1 \in 0..NumCores /\ scan[t] + 1 \in 0..NumCores
          BY <2>1, <2>2, <3>1 DEF Cores
        <4> QED
          BY <3>1, <4>1, <4>2
      <3> QED
        BY <3>2, <3>3
    <2> QED
      BY <1>2, <2>3, <2>4 DEF TypeOK, TakeCore
  <1>3. ASSUME NEW t \in Threads, NextCore(t) PROVE TypeOK'
    BY <1>3 DEF TypeOK, Cores, Actors, ThreadPhases, ProcPhases, NextCore, CanTake
  <1>4. ASSUME NEW t \in Threads, LookAgain(t) PROVE TypeOK'
    BY <1>4 DEF TypeOK, Cores, Actors, ThreadPhases, ProcPhases, LookAgain
  <1>5. ASSUME NEW t \in Threads, LookInterrupted(t) PROVE TypeOK'
    <2>1. leaked' \in SUBSET Cores /\ got' \in [Threads -> SUBSET Cores]
      BY <1>5 DEF TypeOK, LookInterrupted
    <2>2. /\ pc' \in [Actors -> ThreadPhases \cup ProcPhases]
          /\ want' \in [Threads -> 0..NumCores]
          /\ scan' \in [Threads -> 0..NumCores]
          /\ awake' \in [Threads -> BOOLEAN]
          /\ signals' \in 0..MaxSignals
      BY <1>5 DEF TypeOK, LookInterrupted, LeaveLook, Actors, ThreadPhases
    <2> QED
      BY <1>5, <2>1, <2>2 DEF TypeOK, LookInterrupted
  <1>6. ASSUME NEW t \in Threads, EnableCore(t) PROVE TypeOK'
    BY <1>6
    DEF TypeOK, Cores, Actors, ThreadPhases, ProcPhases, EnableCore, MayStart,
        StartRun
  <1>7. ASSUME NEW t \in Threads, StartMapped(t) PROVE TypeOK'
    BY <1>7
    DEF TypeOK, Cores, Actors, ThreadPhases, ProcPhases, StartMapped, MayStart,
        StartRun
  <1>8. ASSUME NEW t \in Threads, WaitEncReady(t) PROVE TypeOK'
    BY <1>8 DEF TypeOK, Cores, Actors, ThreadPhases, ProcPhases, WaitEncReady
  <1>9. ASSUME NEW t \in Threads, CheckEncIrq(t) PROVE TypeOK'
    BY <1>9
    DEF TypeOK, Cores, Actors, ThreadPhases, ProcPhases, CheckEncIrq, ResetIrq
  <1>10. ASSUME NEW t \in Threads, WaitInterrupted(t) PROVE TypeOK'
    BY <1>10 DEF TypeOK, Cores, Actors, ThreadPhases, ProcPhases, WaitInterrupted
  <1>11. ASSUME NEW t \in Threads, ReleaseEncoder(t) PROVE TypeOK'
    BY <1>11 DEF TypeOK, Cores, Actors, ThreadPhases, ProcPhases, ReleaseEncoder
  <1>12. ASSUME NEW t \in Threads, ReleaseCore(t) PROVE TypeOK'
    BY <1>12
    DEF TypeOK, Cores, Actors, ThreadPhases, ProcPhases, ReleaseCore, FreeCore
  <1>13. ASSUME NEW t \in Threads, ReleaseEnds(t) PROVE TypeOK'
    BY <1>13
    DEF TypeOK, Cores, Actors, ThreadPhases, ProcPhases, ReleaseEnds, WakeQueue
  <1>14. ASSUME NEW c \in Cores, HwFinish(c) PROVE TypeOK'
    BY <1>14 DEF TypeOK, Cores, Actors, ThreadPhases, ProcPhases, HwFinish, HwEnds
  <1>15. ASSUME NEW c \in Cores, HwFault(c) PROVE TypeOK'
    <2>1. c = 0 => lostPermits = 0
      BY <1>15 DEF TypeOK, HwFault, HwEnds, SuspendPermit
    <2>2. lostPermits' \in {0, 1} /\ faults' \in 0..MaxFaults
      BY <1>15, <2>1 DEF TypeOK, HwFault
    <2> QED
      BY <1>15, <2>2 DEF TypeOK, HwFault, HwEnds
  <1>16. ASSUME NEW c \in Cores, IgnoreIrq(c) PROVE TypeOK'
    <2>1. c = 0 /\ ready[c] => lostPermits = 0
      BY <1>16 DEF TypeOK, IgnoreIrq, SuspendPermit
    <2>2. lostPermits' \in {0, 1}
      BY <1>16, <2>1 DEF TypeOK, IgnoreIrq
    <2> QED
      BY <1>16, <2>2 DEF TypeOK, IgnoreIrq
  <1>17. ASSUME NEW c \in Cores, SeeReserved(c) PROVE TypeOK'
    BY <1>17 DEF TypeOK, Cores, Actors, ThreadPhases, ProcPhases, SeeReserved
  <1>18. ASSUME NEW c \in Cores, ReportIrq(c) PROVE TypeOK'
    <2>1. c = 0 /\ ready[c] => suspend_sem = 0
      BY <1>18 DEF TypeOK, ReportIrq, IsrHasIrq, SuspendPermit
    <2>2. suspend_sem' \in {0, 1}
      BY <1>18, <2>1 DEF TypeOK, ReportIrq, UpIfReady
    <2> QED
      BY <1>18, <2>2 DEF TypeOK, ReportIrq
  <1>19. ASSUME NEW p \in Procs, CloseBegin(p) PROVE TypeOK'
    BY <1>19 DEF TypeOK, Cores, Actors, ThreadPhases, ProcPhases, CloseBegin
  <1>20. ASSUME NEW p \in Procs, CloseCore(p) PROVE TypeOK'
    <2>1. PICK c \in Cores : FreeCore(c) /\ leaked' = leaked \ {c}
      BY <1>20 DEF CloseCore
    <2>2. /\ pid' \in [Cores -> Procs \cup {None}]
          /\ irq_received' \in [Cores -> Threads \cup {None}]
      BY <2>1 DEF TypeOK, FreeCore
    <2>3. leaked' \in SUBSET Cores
      BY <2>1 DEF TypeOK
    <2> QED
      BY <1>20, <2>2, <2>3 DEF TypeOK, CloseCore
  <1>21. ASSUME NEW p \in Procs, CloseEnd(p) PROVE TypeOK'
    BY <1>21
    DEF TypeOK, Cores, Actors, ThreadPhases, ProcPhases, CloseEnd, WakeQueue
  <1>22. CASE UNCHANGED vars
    BY <1>22 DEF TypeOK, Cores, Actors, ThreadPhases, ProcPhases, vars
  <1> QED
    BY <1>1, <1>2, <1>3, <1>4, <1>5, <1>6, <1>7, <1>8, <1>9, <1>10, <1>11,
       <1>12, <1>13, <1>14, <1>15, <1>16, <1>17, <1>18, <1>19, <1>20, <1>21,
       <1>22
    DEF Next, Handler

(* A close begins when the process's threads are outside of the driver,    *)
(* and ends them; those of the others have their process open.             *)
LEMMA QuietStep ==
  TypeOK /\ ClosedIsQuiet /\ [Next]_vars => ClosedIsQuiet'
  <1> SUFFICES ASSUME TypeOK, ClosedIsQuiet, [Next]_vars
               PROVE  ClosedIsQuiet'
    OBVIOUS
  <1> USE CoresAssumption DEF coreVars, hwVars, lookVars, bounds
  <1>1. ASSUME NEW t \in Threads, NEW n \in Amounts, ReserveEncoder(t, n)
        PROVE  ClosedIsQuiet'
    BY <1>1 DEF TypeOK, ClosedIsQuiet, Actors, ReserveEncoder
  <1>2. ASSUME NEW t \in Threads, TakeCore(t) PROVE ClosedIsQuiet'
    BY <1>2 DEF TypeOK, ClosedIsQuiet, Actors, TakeCore, CanTake, LeaveLook
  <1>3. ASSUME NEW t \in Threads, LookInterrupted(t) PROVE ClosedIsQuiet'
    BY <1>3 DEF TypeOK, ClosedIsQuiet, Actors, LookInterrupted, LeaveLook
  <1>4. ASSUME NEW t \in Threads, WaitEncReady(t) PROVE ClosedIsQuiet'
    BY <1>4 DEF TypeOK, ClosedIsQuiet, Actors, WaitEncReady
  <1>5. ASSUME NEW t \in Threads, CheckEncIrq(t) PROVE ClosedIsQuiet'
    BY <1>5 DEF TypeOK, ClosedIsQuiet, Actors, CheckEncIrq, ResetIrq
  <1>6. ASSUME NEW t \in Threads, WaitInterrupted(t) PROVE ClosedIsQuiet'
    BY <1>6 DEF TypeOK, ClosedIsQuiet, Actors, WaitInterrupted
  <1>7. ASSUME NEW t \in Threads, ReleaseEncoder(t) PROVE ClosedIsQuiet'
    BY <1>7 DEF TypeOK, ClosedIsQuiet, Actors, ReleaseEncoder
  <1>8. ASSUME NEW t \in Threads, ReleaseEnds(t) PROVE ClosedIsQuiet'
    BY <1>8 DEF TypeOK, ClosedIsQuiet, Actors, ReleaseEnds, WakeQueue
  <1>9. ASSUME NEW p \in Procs, CloseBegin(p) PROVE ClosedIsQuiet'
    BY <1>9 DEF TypeOK, ClosedIsQuiet, Actors, CloseBegin
  <1>10. ASSUME NEW p \in Procs, CloseEnd(p) PROVE ClosedIsQuiet'
    BY <1>10 DEF TypeOK, ClosedIsQuiet, Actors, CloseEnd, WakeQueue
  <1>11. ASSUME UNCHANGED <<pc>> PROVE ClosedIsQuiet'
    BY <1>11 DEF ClosedIsQuiet
  <1>12. ASSUME NEW t \in Threads,
               NextCore(t) \/ LookAgain(t) \/ EnableCore(t) \/ StartMapped(t) \/
               ReleaseCore(t)
         PROVE  UNCHANGED <<pc>>
    BY <1>12
    DEF NextCore, CanTake, LookAgain, EnableCore, MayStart, StartRun, StartMapped,
        ReleaseCore, FreeCore
  <1>13. ASSUME NEW c \in Cores,
               HwFinish(c) \/ HwFault(c) \/ IgnoreIrq(c) \/ SeeReserved(c) \/
               ReportIrq(c)
         PROVE  UNCHANGED <<pc>>
    BY <1>13
    DEF HwFinish, HwEnds, HwFault, IgnoreIrq, SeeReserved, ReportIrq, UpIfReady
  <1>14. ASSUME NEW p \in Procs,
               CloseCore(p)
         PROVE  UNCHANGED <<pc>>
    BY <1>14 DEF CloseCore, FreeCore
  <1>15. UNCHANGED vars => UNCHANGED <<pc>>
    BY DEF vars
  <1> QED
    BY <1>1, <1>2, <1>3, <1>4, <1>5, <1>6, <1>7, <1>8, <1>9, <1>10, <1>11, <1>12,
       <1>13, <1>14, <1>15
    DEF Next, Handler

(* Every action that ends a phase of a call leaves cores, wish and run to  *)
(* be told of as the next phase has them.                                  *)
LEMMA PhaseStep ==
  TypeOK /\ GotInPhase /\ [Next]_vars => GotInPhase'
  <1> SUFFICES ASSUME TypeOK, GotInPhase, [Next]_vars
               PROVE  GotInPhase'
    OBVIOUS
  <1> USE CoresAssumption DEF coreVars, hwVars, lookVars, bounds
  <1>1. ASSUME NEW t \in Threads, NEW n \in Amounts, ReserveEncoder(t, n)
        PROVE  GotInPhase'
    BY <1>1 DEF TypeOK, GotInPhase, Actors, ReserveEncoder
  <1>2. ASSUME NEW t \in Threads, TakeCore(t) PROVE GotInPhase'
    BY <1>2 DEF TypeOK, GotInPhase, Actors, TakeCore, CanTake, LeaveLook
  <1>3. ASSUME NEW t \in Threads, LookInterrupted(t) PROVE GotInPhase'
    BY <1>3 DEF TypeOK, GotInPhase, Actors, LookInterrupted, LeaveLook
  <1>4. ASSUME NEW t \in Threads, EnableCore(t) PROVE GotInPhase'
    BY <1>4 DEF TypeOK, GotInPhase, Actors, EnableCore, MayStart, StartRun
  <1>5. ASSUME NEW t \in Threads, StartMapped(t) PROVE GotInPhase'
    BY <1>5 DEF TypeOK, GotInPhase, Actors, StartMapped, MayStart, StartRun
  <1>6. ASSUME NEW t \in Threads, WaitEncReady(t) PROVE GotInPhase'
    BY <1>6 DEF TypeOK, GotInPhase, Actors, WaitEncReady
  <1>7. ASSUME NEW t \in Threads, CheckEncIrq(t) PROVE GotInPhase'
    BY <1>7 DEF TypeOK, GotInPhase, Actors, CheckEncIrq, ResetIrq
  <1>8. ASSUME NEW t \in Threads, WaitInterrupted(t) PROVE GotInPhase'
    BY <1>8 DEF TypeOK, GotInPhase, Actors, WaitInterrupted
  <1>9. ASSUME NEW t \in Threads, ReleaseEncoder(t) PROVE GotInPhase'
    BY <1>9 DEF TypeOK, GotInPhase, Actors, ReleaseEncoder
  <1>10. ASSUME NEW t \in Threads, ReleaseCore(t) PROVE GotInPhase'
    BY <1>10 DEF TypeOK, GotInPhase, Actors, ReleaseCore, FreeCore
  <1>11. ASSUME NEW t \in Threads, ReleaseEnds(t) PROVE GotInPhase'
    BY <1>11 DEF TypeOK, GotInPhase, Actors, ReleaseEnds, WakeQueue
  <1>12. ASSUME NEW p \in Procs, CloseBegin(p) PROVE GotInPhase'
    BY <1>12 DEF TypeOK, GotInPhase, Actors, CloseBegin
  <1>13. ASSUME NEW p \in Procs, CloseEnd(p) PROVE GotInPhase'
    BY <1>13 DEF TypeOK, GotInPhase, Actors, CloseEnd, WakeQueue
  <1>14. ASSUME UNCHANGED <<pc, got, want, pending>> PROVE GotInPhase'
    BY <1>14 DEF GotInPhase
  <1>15. ASSUME NEW t \in Threads,
               NextCore(t) \/ LookAgain(t)
         PROVE  UNCHANGED <<pc, got, want, pending>>
    BY <1>15 DEF NextCore, CanTake, LookAgain
  <1>16. ASSUME NEW c \in Cores,
               HwFinish(c) \/ HwFault(c) \/ IgnoreIrq(c) \/ SeeReserved(c) \/
               ReportIrq(c)
         PROVE  UNCHANGED <<pc, got, want, pending>>
    BY <1>16
    DEF HwFinish, HwEnds, HwFault, IgnoreIrq, SeeReserved, ReportIrq, UpIfReady
  <1>17. ASSUME NEW p \in Procs,
               CloseCore(p)
         PROVE  UNCHANGED <<pc, got, want, pending>>
    BY <1>17 DEF CloseCore, FreeCore
  <1>18. UNCHANGED vars => UNCHANGED <<pc, got, want, pending>>
    BY DEF vars
  <1> QED
    BY <1>1, <1>2, <1>3, <1>4, <1>5, <1>6, <1>7, <1>8, <1>9, <1>10, <1>11, <1>12,
       <1>13, <1>14, <1>15, <1>16, <1>17, <1>18
    DEF Next, Handler

(* Only the handler clears an interrupt, and not between its two sections. *)
LEMMA IrqStep ==
  TypeOK /\ IsrHasIrq /\ [Next]_vars => IsrHasIrq'
  <1> SUFFICES ASSUME TypeOK, IsrHasIrq, [Next]_vars
               PROVE  IsrHasIrq'
    OBVIOUS
  <1> USE CoresAssumption DEF coreVars, hwVars, lookVars, bounds
  <1>1. ASSUME NEW c \in Cores, HwFinish(c) PROVE IsrHasIrq'
    BY <1>1 DEF TypeOK, IsrHasIrq, HwFinish, HwEnds
  <1>2. ASSUME NEW c \in Cores, HwFault(c) PROVE IsrHasIrq'
    BY <1>2 DEF TypeOK, IsrHasIrq, HwFault, HwEnds
  <1>3. ASSUME NEW c \in Cores, IgnoreIrq(c) PROVE IsrHasIrq'
    BY <1>3 DEF TypeOK, IsrHasIrq, IgnoreIrq
  <1>4. ASSUME NEW c \in Cores, SeeReserved(c) PROVE IsrHasIrq'
    BY <1>4 DEF TypeOK, IsrHasIrq, SeeReserved
  <1>5. ASSUME NEW c \in Cores, ReportIrq(c) PROVE IsrHasIrq'
    BY <1>5 DEF TypeOK, IsrHasIrq, ReportIrq, UpIfReady
  <1>6. ASSUME UNCHANGED <<isr, raised>> PROVE IsrHasIrq'
    BY <1>6 DEF IsrHasIrq
  <1>7. ASSUME NEW t \in Threads, NEW n \in Amounts,
               ReserveEncoder(t, n)
         PROVE  UNCHANGED <<isr, raised>>
    BY <1>7 DEF ReserveEncoder
  <1>8. ASSUME NEW t \in Threads,
               TakeCore(t) \/ NextCore(t) \/ LookAgain(t) \/ LookInterrupted(t)
               \/ EnableCore(t)
         PROVE  UNCHANGED <<isr, raised>>
    BY <1>8
    DEF TakeCore, CanTake, LeaveLook, NextCore, LookAgain, LookInterrupted,
        EnableCore, MayStart, StartRun
  <1>9. ASSUME NEW t \in Threads,
               StartMapped(t) \/ WaitEncReady(t) \/ CheckEncIrq(t) \/
               WaitInterrupted(t) \/ ReleaseEncoder(t)
         PROVE  UNCHANGED <<isr, raised>>
    BY <1>9
    DEF StartMapped, MayStart, StartRun, WaitEncReady, CheckEncIrq, ResetIrq,
        WaitInterrupted, ReleaseEncoder
  <1>10. ASSUME NEW t \in Threads,
               ReleaseCore(t) \/ ReleaseEnds(t)
         PROVE  UNCHANGED <<isr, raised>>
    BY <1>10 DEF ReleaseCore, FreeCore, ReleaseEnds, WakeQueue
  <1>11. ASSUME NEW p \in Procs,
               CloseBegin(p) \/ CloseCore(p) \/ CloseEnd(p)
         PROVE  UNCHANGED <<isr, raised>>
    BY <1>11 DEF CloseBegin, CloseCore, FreeCore, CloseEnd, WakeQueue
  <1>12. UNCHANGED vars => UNCHANGED <<isr, raised>>
    BY DEF vars
  <1> QED
    BY <1>1, <1>2, <1>3, <1>4, <1>5, <1>6, <1>7, <1>8, <1>9, <1>10, <1>11, <1>12
    DEF Next, Handler

(* A core that was left behind is in no request's hands, so only the close *)
(* of its process frees it.                                                *)
LEMMA LeakedStep ==
  TypeOK /\ OneHolder /\ LeakedIsReserved /\ [Next]_vars => LeakedIsReserved'
  <1> SUFFICES ASSUME TypeOK, OneHolder, LeakedIsReserved, [Next]_vars
               PROVE  LeakedIsReserved'
    OBVIOUS
  <1> USE CoresAssumption DEF coreVars, hwVars, lookVars, bounds
  <1>1. ASSUME NEW t \in Threads, TakeCore(t) PROVE LeakedIsReserved'
    BY <1>1
    DEF TypeOK, LeakedIsReserved, OneHolder, Actors, TakeCore, CanTake, LeaveLook
  <1>2. ASSUME NEW t \in Threads, LookInterrupted(t) PROVE LeakedIsReserved'
    BY <1>2
    DEF TypeOK, LeakedIsReserved, OneHolder, Actors, LookInterrupted, LeaveLook
  <1>3. ASSUME NEW t \in Threads, ReleaseCore(t) PROVE LeakedIsReserved'
    BY <1>3, LowestIsGot
    DEF TypeOK, LeakedIsReserved, OneHolder, ReleaseCore, FreeCore
  <1>4. ASSUME NEW p \in Procs, CloseCore(p) PROVE LeakedIsReserved'
    BY <1>4 DEF TypeOK, LeakedIsReserved, OneHolder, Actors, CloseCore, FreeCore
  <1>5. ASSUME UNCHANGED <<pid, leaked>> PROVE LeakedIsReserved'
    BY <1>5 DEF LeakedIsReserved
  <1>6. ASSUME NEW t \in Threads, NEW n \in Amounts,
               ReserveEncoder(t, n)
         PROVE  UNCHANGED <<pid, leaked>>
    BY <1>6 DEF ReserveEncoder
  <1>7. ASSUME NEW t \in Threads,
               NextCore(t) \/ LookAgain(t) \/ EnableCore(t) \/ StartMapped(t) \/
               WaitEncReady(t)
         PROVE  UNCHANGED <<pid, leaked>>
    BY <1>7
    DEF NextCore, CanTake, LookAgain, EnableCore, MayStart, StartRun, StartMapped,
        WaitEncReady
  <1>8. ASSUME NEW t \in Threads,
               CheckEncIrq(t) \/ WaitInterrupted(t) \/ ReleaseEncoder(t) \/
               ReleaseEnds(t)
         PROVE  UNCHANGED <<pid, leaked>>
    BY <1>8
    DEF CheckEncIrq, ResetIrq, WaitInterrupted, ReleaseEncoder, ReleaseEnds,
        WakeQueue
  <1>9. ASSUME NEW c \in Cores,
               HwFinish(c) \/ HwFault(c) \/ IgnoreIrq(c) \/ SeeReserved(c) \/
               ReportIrq(c)
         PROVE  UNCHANGED <<pid, leaked>>
    BY <1>9
    DEF HwFinish, HwEnds, HwFault, IgnoreIrq, SeeReserved, ReportIrq, UpIfReady
  <1>10. ASSUME NEW p \in Procs,
               CloseBegin(p) \/ CloseEnd(p)
         PROVE  UNCHANGED <<pid, leaked>>
    BY <1>10 DEF CloseBegin, CloseEnd, WakeQueue
  <1>11. UNCHANGED vars => UNCHANGED <<pid, leaked>>
    BY DEF vars
  <1> QED
    BY <1>1, <1>2, <1>3, <1>4, <1>5, <1>6, <1>7, <1>8, <1>9, <1>10, <1>11
    DEF Next, Handler

(* A core that is taken was free, so in nobody's hands; one that is freed  *)
(* is in the hands of the request that lets it go, or of none.             *)
LEMMA HolderStep ==
  TypeOK /\ ClosedIsQuiet /\ GotInPhase /\ LeakedIsReserved /\ OneHolder /\
    [Next]_vars => OneHolder'
  <1> SUFFICES ASSUME TypeOK, ClosedIsQuiet, GotInPhase, LeakedIsReserved,
                      OneHolder, [Next]_vars
               PROVE  OneHolder'
    OBVIOUS
  <1> USE CoresAssumption DEF coreVars, hwVars, lookVars, bounds
  <1>1. ASSUME NEW t \in Threads, TakeCore(t) PROVE OneHolder'
    <2> DEFINE c == scan[t]
    <2>1. c \in Cores /\ pid[c] = None /\ ProcOf[t] # None
      BY <1>1 DEF TypeOK, TakeCore, CanTake, Free, Cores, Actors
    <2>2. c \notin leaked /\ \A u \in Threads : c \notin got[u]
      BY <2>1 DEF OneHolder, LeakedIsReserved, Actors
    <2>3. /\ pid' = [pid EXCEPT ![c] = ProcOf[t]] /\ leaked' = leaked
          /\ got' = [got EXCEPT ![t] = @ \cup {c}]
      BY <1>1 DEF TakeCore
    <2> HIDE DEF c
    <2>4. got'[t] = got[t] \cup {c} /\ \A u \in Threads \ {t} : got'[u] = got[u]
      BY <2>3 DEF TypeOK
    <2>5. /\ pid'[c] = ProcOf[t]
          /\ \A d \in Cores \ {c} : pid'[d] = pid[d]
      BY <2>1, <2>3 DEF TypeOK
    <2>6. \A u \in Threads : got[u] \subseteq Cores
      BY DEF TypeOK
    <2> QED
      BY <2>1, <2>2, <2>3, <2>4, <2>5, <2>6 DEF OneHolder
  <1>2. ASSUME NEW t \in Threads, LookInterrupted(t) PROVE OneHolder'
    BY <1>2 DEF TypeOK, OneHolder, LookInterrupted, LeaveLook
  <1>3. ASSUME NEW t \in Threads, ReleaseCore(t) PROVE OneHolder'
    <2> DEFINE c == Lowest(t)
    <2>1. c \in got[t] /\ c \in Cores
      BY <1>3, LowestIsGot DEF ReleaseCore
    <2>2. pid' = [pid EXCEPT ![c] = None]
      BY <1>3, <2>1 DEF ReleaseCore, FreeCore, Free, TypeOK
    <2> QED
      BY <1>3, <2>1, <2>2 DEF TypeOK, OneHolder, ReleaseCore
  <1>4. ASSUME NEW p \in Procs, CloseBegin(p) PROVE OneHolder'
    BY <1>4 DEF TypeOK, OneHolder, CloseBegin
  <1>5. ASSUME NEW p \in Procs, CloseCore(p) PROVE OneHolder'
    <2>1. PICK c \in Cores : pid[c] = p /\ FreeCore(c) /\ leaked' = leaked \ {c}
      BY <1>5 DEF CloseCore
    <2>2. \A t \in Threads : c \notin got[t]
      BY <1>5, <2>1 DEF OneHolder, ClosedIsQuiet, GotInPhase, CloseCore
    <2>3. pid' = [pid EXCEPT ![c] = None] /\ got' = got
      BY <1>5, <2>1 DEF CloseCore, FreeCore, Free, Actors
    <2> QED
      BY <2>1, <2>2, <2>3 DEF TypeOK, OneHolder
  <1>6. ASSUME UNCHANGED <<pid, got, leaked>> PROVE OneHolder'
    BY <1>6 DEF OneHolder
  <1>7. ASSUME NEW t \in Threads, NEW n \in Amounts,
               ReserveEncoder(t, n)
         PROVE  UNCHANGED <<pid, got, leaked>>
    BY <1>7 DEF ReserveEncoder
  <1>8. ASSUME NEW t \in Threads,
               NextCore(t) \/ LookAgain(t) \/ EnableCore(t) \/ StartMapped(t) \/
               WaitEncReady(t)
         PROVE  UNCHANGED <<pid, got, leaked>>
    BY <1>8
    DEF NextCore, CanTake, LookAgain, EnableCore, MayStart, StartRun, StartMapped,
        WaitEncReady
  <1>9. ASSUME NEW t \in Threads,
               CheckEncIrq(t) \/ WaitInterrupted(t) \/ ReleaseEncoder(t) \/
               ReleaseEnds(t)
         PROVE  UNCHANGED <<pid, got, leaked>>
    BY <1>9
    DEF CheckEncIrq, ResetIrq, WaitInterrupted, ReleaseEncoder, ReleaseEnds,
        WakeQueue
  <1>10. ASSUME NEW c \in Cores,
               HwFinish(c) \/ HwFault(c) \/ IgnoreIrq(c) \/ SeeReserved(c) \/
               ReportIrq(c)
         PROVE  UNCHANGED <<pid, got, leaked>>
    BY <1>10
    DEF HwFinish, HwEnds, HwFault, IgnoreIrq, SeeReserved, ReportIrq, UpIfReady
  <1>11. ASSUME NEW p \in Procs,
               CloseEnd(p)
         PROVE  UNCHANGED <<pid, got, leaked>>
    BY <1>11 DEF CloseEnd, WakeQueue
  <1>12. UNCHANGED vars => UNCHANGED <<pid, got, leaked>>
    BY DEF vars
  <1> QED
    BY <1>1, <1>2, <1>3, <1>4, <1>5, <1>6, <1>7, <1>8, <1>9, <1>10, <1>11, <1>12
    DEF Next, Handler

(* A core becomes free only in a release or a close, which then is still   *)
(* to wake the queue; who passes a core has found it reserved.             *)
LEMMA WakeStep ==
  TypeOK /\ GotInPhase /\ NoMissedWake /\ [Next]_vars => NoMissedWake'
  <1> SUFFICES ASSUME TypeOK, GotInPhase, NoMissedWake, [Next]_vars
               PROVE  NoMissedWake'
    OBVIOUS
  <1> USE CoresAssumption DEF coreVars, hwVars, lookVars, bounds
  <1>1. ASSUME NEW t \in Threads, NEW n \in Amounts, ReserveEncoder(t, n)
        PROVE  NoMissedWake'
    BY <1>1 DEF TypeOK, NoMissedWake, Free, Actors, Cores, ReserveEncoder
  <1>2. ASSUME NEW t \in Threads, TakeCore(t) PROVE NoMissedWake'
    <2>1. scan[t] \in Cores /\ ProcOf[t] # None
      BY <1>2 DEF TypeOK, TakeCore, CanTake, Cores, Actors
    <2>2. \A c \in Cores : Free(c)' => Free(c) /\ c # scan[t]
      BY <1>2, <2>1 DEF TypeOK, TakeCore, Free
    <2>3. /\ pc[t] = "looking"
          /\ \A a \in Actors \ {t} : pc'[a] = pc[a]
          /\ \A u \in Threads \ {t} : awake'[u] = awake[u] /\ scan'[u] = scan[u]
      BY <1>2 DEF TypeOK, TakeCore, CanTake, LeaveLook
    <2>4. \/ pc'[t] = "owner"
          \/ pc'[t] = "looking" /\ awake'[t] = awake[t] /\ scan'[t] = scan[t] + 1
      BY <1>2 DEF TypeOK, TakeCore, CanTake, LeaveLook, Actors
    <2>5. /\ t \in Actors /\ \A u \in Threads : scan[u] \in Nat
          /\ \A c \in Cores : c \in Nat
      BY DEF TypeOK, Actors, Cores
    <2> SUFFICES ASSUME NEW u \in Threads, pc'[u] = "looking", ~awake'[u]
                 PROVE  \/ \A c \in Cores : c < scan'[u] => ~Free(c)'
                        \/ \E a \in Actors : pc'[a] \in {"releasing", "closing"}
      BY DEF NoMissedWake
    <2>6. pc[u] = "looking" /\ ~awake[u]
      BY <2>3, <2>4 DEF Actors
    <2>7. CASE \E a \in Actors : pc[a] \in {"releasing", "closing"}
      BY <2>3, <2>7
    <2>8. CASE \A c \in Cores : c < scan[u] => ~Free(c)
      <3>1. ASSUME NEW c \in Cores, c < scan'[u] PROVE ~Free(c)'
        <4>1. c < scan[u] \/ c = scan[t]
          BY <2>1, <2>3, <2>4, <2>5, <3>1 DEF Cores
        <4> QED
          BY <2>2, <2>8, <4>1
      <3> QED
        BY <3>1
    <2> QED
      BY <2>6, <2>7, <2>8 DEF NoMissedWake
  <1>3. ASSUME NEW t \in Threads, NextCore(t) PROVE NoMissedWake'
    BY <1>3 DEF TypeOK, NoMissedWake, Free, Actors, Cores, NextCore, CanTake
  <1>4. ASSUME NEW t \in Threads, LookAgain(t) PROVE NoMissedWake'
    BY <1>4 DEF TypeOK, NoMissedWake, Free, Actors, Cores, LookAgain
  <1>5. ASSUME NEW t \in Threads, LookInterrupted(t) PROVE NoMissedWake'
    <2>1. /\ pc' = [pc EXCEPT ![t] = "idle"] /\ pc[t] = "looking"
          /\ scan' = [scan EXCEPT ![t] = 0] /\ awake' = [awake EXCEPT ![t] = FALSE]
          /\ UNCHANGED pid
      BY <1>5 DEF LookInterrupted, LeaveLook
    <2>2. \A a \in Actors : a # t => pc'[a] = pc[a]
      BY <2>1 DEF TypeOK
    <2>3. \A u \in Threads : u # t => scan'[u] = scan[u] /\ awake'[u] = awake[u]
      BY <2>1 DEF TypeOK
    <2>4. t \in Actors /\ pc'[t] = "idle" /\ Threads \subseteq Actors
      BY <2>1 DEF TypeOK, Actors
    <2>5. \A c \in Cores : Free(c)' = Free(c)
      BY <2>1 DEF Free
    <2> QED
      BY <2>1, <2>2, <2>3, <2>4, <2>5 DEF NoMissedWake
  <1>6. ASSUME NEW t \in Threads, WaitEncReady(t) PROVE NoMissedWake'
    BY <1>6 DEF TypeOK, NoMissedWake, Free, Actors, Cores, WaitEncReady
  <1>7. ASSUME NEW t \in Threads, CheckEncIrq(t) PROVE NoMissedWake'
    BY <1>7 DEF TypeOK, NoMissedWake, Free, Actors, Cores, CheckEncIrq, ResetIrq
  <1>8. ASSUME NEW t \in Threads, WaitInterrupted(t) PROVE NoMissedWake'
    BY <1>8 DEF TypeOK, NoMissedWake, Free, Actors, Cores, WaitInterrupted
  <1>9. ASSUME NEW t \in Threads, ReleaseEncoder(t) PROVE NoMissedWake'
    BY <1>9 DEF TypeOK, NoMissedWake, Free, Actors, Cores, ReleaseEncoder
  <1>10. ASSUME NEW t \in Threads, ReleaseCore(t) PROVE NoMissedWake'
    BY <1>10 DEF TypeOK, NoMissedWake, Free, Actors, Cores, ReleaseCore, FreeCore
  <1>11. ASSUME NEW t \in Threads, ReleaseEnds(t) PROVE NoMissedWake'
    BY <1>11 DEF TypeOK, NoMissedWake, Free, Actors, Cores, ReleaseEnds, WakeQueue
  <1>12. ASSUME NEW p \in Procs, CloseBegin(p) PROVE NoMissedWake'
    BY <1>12 DEF TypeOK, NoMissedWake, Free, Actors, Cores, CloseBegin
  <1>13. ASSUME NEW p \in Procs, CloseCore(p) PROVE NoMissedWake'
    BY <1>13 DEF TypeOK, NoMissedWake, Free, Actors, Cores, CloseCore, FreeCore
  <1>14. ASSUME NEW p \in Procs, CloseEnd(p) PROVE NoMissedWake'
    BY <1>14 DEF TypeOK, NoMissedWake, Free, Actors, Cores, CloseEnd, WakeQueue
  <1>15. ASSUME UNCHANGED <<pid, pc, awake, scan>> PROVE NoMissedWake'
    BY <1>15 DEF NoMissedWake, Free
  <1>16. ASSUME NEW t \in Threads,
               EnableCore(t) \/ StartMapped(t)
         PROVE  UNCHANGED <<pid, pc, awake, scan>>
    BY <1>16 DEF EnableCore, MayStart, StartRun, StartMapped
  <1>17. ASSUME NEW c \in Cores,
               HwFinish(c) \/ HwFault(c) \/ IgnoreIrq(c) \/ SeeReserved(c) \/
               ReportIrq(c)
         PROVE  UNCHANGED <<pid, pc, awake, scan>>
    BY <1>17
    DEF HwFinish, HwEnds, HwFault, IgnoreIrq, SeeReserved, ReportIrq, UpIfReady
  <1>18. UNCHANGED vars => UNCHANGED <<pid, pc, awake, scan>>
    BY DEF vars
  <1> QED
    BY <1>1, <1>2, <1>3, <1>4, <1>5, <1>6, <1>7, <1>8, <1>9, <1>10, <1>11, <1>12,
       <1>13, <1>14, <1>15, <1>16, <1>17, <1>18
    DEF Next, Handler

-----------------------------------------------------------------------------
(* A step that leaves a thread's lowest core alone leaves its run there.   *)
LEMMA RunStays ==
  ASSUME NEW t \in Threads, RunOf(t, Lowest(t)), got'[t] = got[t],
         run'[Lowest(t)] = run[Lowest(t)],
         raised'[Lowest(t)] = raised[Lowest(t)],
         irq_received'[Lowest(t)] = irq_received[Lowest(t)]
  PROVE  RunOf(t, Lowest(t))'
  BY DEF RunOf, Lowest

(* What a thread with a run to be told of can rely on.                     *)
LEMMA PendingFacts ==
  ASSUME TypeOK, GotInPhase, OneHolder, RunIsSomewhere,
         NEW t \in Threads, pending[t]
  PROVE  /\ pc[t] \in {"owner", "wait"}
         /\ Lowest(t) \in Cores /\ ~Free(Lowest(t))
         /\ RunOf(t, Lowest(t))
         /\ \A u \in Threads \ {t} : got[u] # {} => Lowest(u) # Lowest(t)
  <1>1. pc[t] \in {"owner", "wait"} /\ got[t] # {} /\ RunOf(t, Lowest(t))
    BY DEF GotInPhase, RunIsSomewhere
  <1>2. Lowest(t) \in Cores /\ Lowest(t) \in got[t]
    BY <1>1, LowestIsGot
  <1>3. ~Free(Lowest(t))
    BY <1>2, CoresAssumption DEF OneHolder, Free, Actors
  <1>4. ASSUME NEW u \in Threads \ {t}, got[u] # {} PROVE Lowest(u) # Lowest(t)
    BY <1>2, <1>4, LowestIsGot DEF OneHolder
  <1> QED
    BY <1>1, <1>2, <1>3, <1>4

(* The run goes from the core to its interrupt and to irq_received, and is *)
(* nowhere overtaken: other threads work on other cores, and what an       *)
(* earlier run of the core has left is gone when its interrupt is raised.  *)
LEMMA RunStep ==
  TypeOK /\ ClosedIsQuiet /\ GotInPhase /\ IsrHasIrq /\ OneHolder
    /\ RunIsSomewhere /\ [Next]_vars => RunIsSomewhere'
  <1> SUFFICES ASSUME TypeOK, ClosedIsQuiet, GotInPhase, IsrHasIrq, OneHolder,
                      RunIsSomewhere, [Next]_vars, NEW u \in Threads, pending'[u]
               PROVE  RunOf(u, Lowest(u))'
    BY DEF RunIsSomewhere
  <1> USE CoresAssumption DEF coreVars, hwVars, lookVars, bounds
  <1>1. ASSUME NEW t \in Threads, TakeCore(t) PROVE RunOf(u, Lowest(u))'
    <2>1. pending[u] /\ pc[t] = "looking"
      BY <1>1 DEF TakeCore, CanTake
    <2>2. u # t /\ got'[u] = got[u]
      BY <1>1, <2>1, PendingFacts DEF TakeCore, TypeOK
    <2> QED
      BY <1>1, <2>1, <2>2, PendingFacts, RunStays DEF TakeCore
  <1>2. ASSUME NEW t \in Threads, LookInterrupted(t) PROVE RunOf(u, Lowest(u))'
    <2>1. pending[u] /\ pc[t] = "looking"
      BY <1>2 DEF LookInterrupted
    <2>2. u # t /\ got'[u] = got[u]
      BY <1>2, <2>1, PendingFacts DEF LookInterrupted, TypeOK
    <2> QED
      BY <1>2, <2>1, <2>2, PendingFacts, RunStays DEF LookInterrupted
  <1>3. ASSUME NEW t \in Threads, EnableCore(t) \/ StartMapped(t)
        PROVE  RunOf(u, Lowest(u))'
    <2> DEFINE c == Lowest(t)
    <2>1. MayStart(t) /\ StartRun(t)
      BY <1>3 DEF EnableCore, StartMapped
    <2>2. got[t] # {} /\ c \in Cores
      BY <2>1, LowestIsGot DEF MayStart, GotInPhase
    <2>3. run' = [run EXCEPT ![c] = t] /\ UNCHANGED <<raised, irq_received, got>>
      BY <2>1 DEF StartRun
    <2>4. CASE u = t
      <3>1. run'[c] = t
        BY <2>2, <2>3 DEF TypeOK
      <3> QED
        BY <2>3, <2>4, <3>1 DEF RunOf, Lowest
    <2>5. CASE u # t
      <3>1. pending[u]
        BY <2>1, <2>5 DEF StartRun, TypeOK
      <3>2. Lowest(u) # c /\ Lowest(u) \in Cores /\ RunOf(u, Lowest(u))
        BY <2>2, <2>5, <3>1, PendingFacts
      <3>3. run'[Lowest(u)] = run[Lowest(u)]
        BY <2>3, <3>2 DEF TypeOK
      <3> QED
        BY <2>3, <3>2, <3>3, RunStays
    <2> QED
      BY <2>4, <2>5
  <1>4. ASSUME NEW t \in Threads, CheckEncIrq(t) PROVE RunOf(u, Lowest(u))'
    <2> DEFINE c == Lowest(t)
    <2>1. pending[u] /\ u # t
      BY <1>4 DEF CheckEncIrq, TypeOK
    <2>2. Lowest(u) # c /\ Lowest(u) \in Cores /\ RunOf(u, Lowest(u))
      BY <1>4, <2>1, PendingFacts DEF CheckEncIrq, GotInPhase
    <2>3. irq_received' = [irq_received EXCEPT ![c] = None]
      BY <1>4 DEF CheckEncIrq, ResetIrq
    <2>4. irq_received'[Lowest(u)] = irq_received[Lowest(u)]
      BY <2>2, <2>3 DEF TypeOK
    <2> QED
      BY <1>4, <2>2, <2>4, RunStays DEF CheckEncIrq
  <1>5. ASSUME NEW t \in Threads, ReleaseEncoder(t) \/ WaitInterrupted(t)
        PROVE  RunOf(u, Lowest(u))'
    <2>1. pending[u] /\ UNCHANGED <<got, run, raised, irq_received>>
      BY <1>5 DEF ReleaseEncoder, WaitInterrupted, TypeOK
    <2> QED
      BY <2>1, PendingFacts, RunStays
  <1>6. ASSUME NEW t \in Threads, ReleaseCore(t) PROVE RunOf(u, Lowest(u))'
    <2> DEFINE c == Lowest(t)
    <2>1. pending[u] /\ u # t
      BY <1>6, PendingFacts DEF ReleaseCore
    <2>2. Lowest(u) # c /\ Lowest(u) \in Cores /\ RunOf(u, Lowest(u))
      BY <1>6, <2>1, PendingFacts DEF ReleaseCore
    <2>3. got'[u] = got[u] /\ irq_received'[Lowest(u)] = irq_received[Lowest(u)]
      BY <1>6, <2>1, <2>2 DEF ReleaseCore, FreeCore, TypeOK
    <2> QED
      BY <1>6, <2>2, <2>3, RunStays DEF ReleaseCore
  <1>7. ASSUME NEW c \in Cores, HwFinish(c) \/ HwFault(c)
        PROVE  RunOf(u, Lowest(u))'
    <2>1. /\ run[c] # None /\ pending[u] /\ UNCHANGED <<got, irq_received>>
          /\ run' = [run EXCEPT ![c] = None] /\ raised' = [raised EXCEPT ![c] = run[c]]
      BY <1>7 DEF HwFinish, HwFault, HwEnds
    <2>2. Lowest(u) \in Cores /\ RunOf(u, Lowest(u))
      BY <2>1, PendingFacts
    <2>3. CASE Lowest(u) = c
      <3>1. run[c] = u
        BY <2>1, <2>2, <2>3 DEF RunOf
      <3>2. run'[c] = None /\ raised'[c] = u
        BY <2>1, <3>1 DEF TypeOK
      <3> QED
        BY <2>1, <2>3, <3>2 DEF RunOf, Lowest
    <2>4. CASE Lowest(u) # c
      <3>1. run'[Lowest(u)] = run[Lowest(u)] /\ raised'[Lowest(u)] = raised[Lowest(u)]
        BY <2>1, <2>2, <2>4 DEF TypeOK
      <3> QED
        BY <2>1, <2>2, <3>1, RunStays
    <2> QED
      BY <2>3, <2>4
  <1>8. ASSUME NEW c \in Cores, IgnoreIrq(c) PROVE RunOf(u, Lowest(u))'
    <2>1. pending[u] /\ Free(c) /\ UNCHANGED <<got, run, irq_received>>
      BY <1>8 DEF IgnoreIrq
    <2>2. Lowest(u) # c /\ Lowest(u) \in Cores /\ RunOf(u, Lowest(u))
      BY <2>1, PendingFacts
    <2>3. raised'[Lowest(u)] = raised[Lowest(u)]
      BY <1>8, <2>2 DEF IgnoreIrq, TypeOK
    <2> QED
      BY <2>1, <2>2, <2>3, RunStays
  <1>9. ASSUME NEW c \in Cores, ReportIrq(c) PROVE RunOf(u, Lowest(u))'
    <2>1. /\ pending[u] /\ UNCHANGED <<got, run>> /\ raised[c] # None
          /\ irq_received' = [irq_received EXCEPT ![c] = raised[c]]
          /\ raised' = [raised EXCEPT ![c] = None]
      BY <1>9 DEF ReportIrq, IsrHasIrq
    <2>2. Lowest(u) \in Cores /\ RunOf(u, Lowest(u))
      BY <2>1, PendingFacts
    <2>3. CASE Lowest(u) = c
      <3>1. irq_received'[c] = raised[c] /\ raised'[c] = None
        BY <2>1 DEF TypeOK
      <3>2. run[c] = u \/ (run[c] = None /\ raised[c] = u)
        <4>1. RunOf(u, c) /\ raised[c] # None
          BY <2>1, <2>2, <2>3
        <4> QED
          BY <4>1 DEF RunOf
      <3>3. Lowest(u)' = c /\ run'[c] = run[c]
        BY <2>1, <2>3 DEF Lowest
      <3>4. RunOf(u, c)'
        BY <3>1, <3>2, <3>3 DEF RunOf
      <3> QED
        BY <3>3, <3>4 DEF RunOf
    <2>4. CASE Lowest(u) # c
      <3>1. /\ irq_received'[Lowest(u)] = irq_received[Lowest(u)]
            /\ raised'[Lowest(u)] = raised[Lowest(u)]
        BY <2>1, <2>2, <2>4 DEF TypeOK
      <3> QED
        BY <2>1, <2>2, <3>1, RunStays
    <2> QED
      BY <2>3, <2>4
  <1>10. ASSUME NEW p \in Procs, CloseBegin(p) PROVE RunOf(u, Lowest(u))'
    <2>1. pending[u] /\ got'[u] = got[u] /\ UNCHANGED <<run, raised, irq_received>>
      BY <1>10 DEF CloseBegin, TypeOK
    <2> QED
      BY <2>1, PendingFacts, RunStays
  <1>11. ASSUME NEW p \in Procs, CloseCore(p) PROVE RunOf(u, Lowest(u))'
    <2>1. PICK c \in Cores : pid[c] = p /\ FreeCore(c)
      BY <1>11 DEF CloseCore
    <2>2. pending[u] /\ pc[p] = "closing" /\ UNCHANGED <<got, run, raised>>
      BY <1>11 DEF CloseCore
    <2>3. Lowest(u) # c /\ Lowest(u) \in Cores /\ RunOf(u, Lowest(u))
      <3>1. pc[ProcOf[u]] = "open"
        BY <2>2, PendingFacts DEF ClosedIsQuiet
      <3>2. Lowest(u) \in got[u]
        BY <2>2, LowestIsGot DEF GotInPhase
      <3> QED
        BY <2>1, <2>2, <3>1, <3>2, PendingFacts DEF OneHolder
    <2>4. irq_received'[Lowest(u)] = irq_received[Lowest(u)]
      BY <2>1, <2>3 DEF FreeCore, TypeOK
    <2> QED
      BY <2>2, <2>3, <2>4, RunStays
  <1>12. ASSUME UNCHANGED <<pending, got, run, raised, irq_received>>
         PROVE  RunOf(u, Lowest(u))'
    BY <1>12, PendingFacts, RunStays
  <1>13. ASSUME NEW t \in Threads,
                NextCore(t) \/ LookAgain(t) \/ WaitEncReady(t) \/ ReleaseEnds(t)
                  \/ \E n \in Amounts : ReserveEncoder(t, n)
         PROVE  UNCHANGED <<pending, got, run, raised, irq_received>>
    BY <1>13 DEF NextCore, LookAgain, WaitEncReady, ReleaseEnds, ReserveEncoder
  <1>14. ASSUME NEW c \in Cores, SeeReserved(c)
         PROVE  UNCHANGED <<pending, got, run, raised, irq_received>>
    BY <1>14 DEF SeeReserved
  <1>15. ASSUME NEW p \in Procs, CloseEnd(p)
         PROVE  UNCHANGED <<pending, got, run, raised, irq_received>>
    BY <1>15 DEF CloseEnd
  <1>16. UNCHANGED vars => UNCHANGED <<pending, got, run, raised, irq_received>>
    BY DEF vars
  <1> QED
    BY <1>1, <1>2, <1>3, <1>4, <1>5, <1>6, <1>7, <1>8, <1>9, <1>10, <1>11, <1>12,
       <1>13, <1>14, <1>15, <1>16
    DEF Next, Handler

(* The permit goes from the semaphore to the run, to its interrupt, and    *)
(* back or for good: each step moves it on by one place.                   *)
LEMMA PermitStep ==
  TypeOK /\ IsrHasIrq /\ SuspendPermit /\ [Next]_vars => SuspendPermit'
  <1> SUFFICES ASSUME TypeOK, IsrHasIrq, SuspendPermit, [Next]_vars
               PROVE  SuspendPermit'
    OBVIOUS
  <1> USE CoresAssumption DEF coreVars, hwVars, lookVars, bounds
  <1>1. ASSUME NEW t \in Threads, EnableCore(t) PROVE SuspendPermit'
    <2>1. /\ Lowest(t) = 0 /\ run[0] = None /\ suspend_sem' = suspend_sem - 1
          /\ run' = [run EXCEPT ![0] = t]
          /\ UNCHANGED <<raised, ready, lostPermits>>
      BY <1>1 DEF EnableCore, MayStart, StartRun
    <2>2. run'[0] = t /\ t # None
      BY <2>1 DEF TypeOK, Cores, Actors
    <2> QED
      BY <2>1, <2>2 DEF TypeOK, SuspendPermit
  <1>2. ASSUME NEW t \in Threads, StartMapped(t) PROVE SuspendPermit'
    <2>1. Lowest(t) # 0
      BY <1>2 DEF StartMapped
    <2>2. run'[0] = run[0]
      BY <1>2, <2>1 DEF TypeOK, StartMapped, StartRun, Cores
    <2> QED
      BY <1>2, <2>2 DEF SuspendPermit, StartMapped, StartRun
  <1>3. ASSUME NEW c \in Cores, HwFinish(c) PROVE SuspendPermit'
    BY <1>3 DEF TypeOK, IsrHasIrq, SuspendPermit, Cores, HwFinish, HwEnds
  <1>4. ASSUME NEW c \in Cores, HwFault(c) PROVE SuspendPermit'
    BY <1>4 DEF TypeOK, IsrHasIrq, SuspendPermit, Cores, HwFault, HwEnds
  <1>5. ASSUME NEW c \in Cores, IgnoreIrq(c) PROVE SuspendPermit'
    BY <1>5 DEF TypeOK, IsrHasIrq, SuspendPermit, Cores, IgnoreIrq
  <1>6. ASSUME NEW c \in Cores, ReportIrq(c) PROVE SuspendPermit'
    BY <1>6 DEF TypeOK, IsrHasIrq, SuspendPermit, Cores, ReportIrq, UpIfReady
  <1>7. ASSUME UNCHANGED <<suspend_sem, lostPermits, run, raised, ready>>
        PROVE  SuspendPermit'
    BY <1>7 DEF SuspendPermit
  <1>8. ASSUME NEW t \in Threads, NEW n \in Amounts,
               ReserveEncoder(t, n)
         PROVE  UNCHANGED <<suspend_sem, lostPermits, run, raised, ready>>
    BY <1>8 DEF ReserveEncoder
  <1>9. ASSUME NEW t \in Threads,
               TakeCore(t) \/ NextCore(t) \/ LookAgain(t) \/ LookInterrupted(t)
               \/ WaitEncReady(t)
         PROVE  UNCHANGED <<suspend_sem, lostPermits, run, raised, ready>>
    BY <1>9
    DEF TakeCore, CanTake, LeaveLook, NextCore, LookAgain, LookInterrupted,
        WaitEncReady
  <1>10. ASSUME NEW t \in Threads,
               CheckEncIrq(t) \/ WaitInterrupted(t) \/ ReleaseEncoder(t) \/
               ReleaseCore(t) \/ ReleaseEnds(t)
         PROVE  UNCHANGED <<suspend_sem, lostPermits, run, raised, ready>>
    BY <1>10
    DEF CheckEncIrq, ResetIrq, WaitInterrupted, ReleaseEncoder, ReleaseCore,
        FreeCore, ReleaseEnds, WakeQueue
  <1>11. ASSUME NEW c \in Cores,
               SeeReserved(c)
         PROVE  UNCHANGED <<suspend_sem, lostPermits, run, raised, ready>>
    BY <1>11 DEF SeeReserved
  <1>12. ASSUME NEW p \in Procs,
               CloseBegin(p) \/ CloseCore(p) \/ CloseEnd(p)
         PROVE  UNCHANGED <<suspend_sem, lostPermits, run, raised, ready>>
    BY <1>12 DEF CloseBegin, CloseCore, FreeCore, CloseEnd, WakeQueue
  <1>13. UNCHANGED vars => UNCHANGED <<suspend_sem, lostPermits, run, raised, ready>>
    BY DEF vars
  <1> QED
    BY <1>1, <1>2, <1>3, <1>4, <1>5, <1>6, <1>7, <1>8, <1>9, <1>10, <1>11, <1>12,
       <1>13
    DEF Next, Handler

-----------------------------------------------------------------------------
(* Before the first call no core is reserved and no thread holds or waits. *)
LEMMA EncInit == Init => EncInv
  <1> SUFFICES ASSUME Init PROVE EncInv
    OBVIOUS
  <1> USE CoresAssumption DEF Init, Actors, Cores
  <1>1. TypeOK
    BY DEF TypeOK, ThreadPhases, ProcPhases
  <1>2. ClosedIsQuiet /\ GotInPhase /\ LeakedIsReserved /\ IsrHasIrq
    BY DEF ClosedIsQuiet, GotInPhase, LeakedIsReserved, IsrHasIrq
  <1>3. OneHolder /\ RunIsSomewhere /\ NoMissedWake
    BY DEF OneHolder, RunIsSomewhere, NoMissedWake, Free
  <1>4. SuspendPermit
    BY DEF SuspendPermit
  <1> QED
    BY <1>1, <1>2, <1>3, <1>4 DEF EncInv

(* Every step keeps the whole invariant.                                   *)
LEMMA EncStep == EncInv /\ [Next]_vars => EncInv'
  BY TypeStep, QuietStep, PhaseStep, IrqStep, LeakedStep, HolderStep, RunStep,
     WakeStep, PermitStep
  DEF EncInv

(* The inductive invariant holds of every reachable state.                 *)
THEOREM EncInvariant == Spec => []EncInv
  BY EncInit, EncStep, PTL DEF Spec

(* The types of the variables, the semaphore's value 0 or 1 among them.    *)
THEOREM EncTypeCorrect == Spec => []TypeOK
  <1>1. EncInv => TypeOK
    BY DEF EncInv
  <1> QED
    BY <1>1, EncInvariant, PTL

(* Whatever the interleaving of requests for several cores, releases,      *)
(* interrupts and closes: no core is in two hands, no wake-up is missed,   *)
(* and no end of a run is lost.                                            *)
THEOREM HandoverIsSafe == Spec => []HandoverSafe
  <1>1. EncInv => HandoverSafe
    <2> SUFFICES ASSUME EncInv PROVE CompletionKept
      BY DEF EncInv, HandoverSafe
    <2> QED
      BY DEF EncInv, RunIsSomewhere, RunOf, CompletionKept
  <1> QED
    BY <1>1, EncInvariant, PTL

(* core_suspend_sem is down exactly while a frame is encoded or its        *)
(* interrupt is to be handled, or for good after a run that failed or      *)
(* ended too late.                                                         *)
THEOREM SuspendPermitExact == Spec => []SuspendPermit
  <1>1. EncInv => SuspendPermit
    BY DEF EncInv
  <1> QED
    BY <1>1, EncInvariant, PTL
=============================================================================
