----------------------------- MODULE VcmdProofs ------------------------------
(***************************************************************************)
(* Proofs about VcmdQueue, VcmdRuns, VcmdPM and VcmdExit, for any number   *)
(* of buffers, any device types and any bound.                             *)
(*                                                                         *)
(* With signals and errors: a core taken for idle has stopped (IdleInv),   *)
(* and the list holds each buffer once, at the stages that say so          *)
(* (ListInv).  Without them: three positions cut the list into what is     *)
(* reported, what the hardware has passed and what is linked (ChainInv),   *)
(* and the core, seen through the part behind the first of them, is the    *)
(* service of VcmdService.  With suspensions: a core taken for running is  *)
(* alive (AliveInv).  With a file being closed, and signals: the three     *)
(* positions again, through each step of the close (CloseInv).             *)
(***************************************************************************)
EXTENDS VcmdPM, VcmdWaits, VcmdRuns, FiniteSetTheorems, FunctionTheorems, SequenceTheorems, TLAPS

-----------------------------------------------------------------------------
(* With signals and errors: an idle core is a stopped one.                 *)

IdleInv ==
    /\ "phase" \in DOMAIN hw
    /\ IdleMeansStopped
    /\ irq \ {"JMP"} # {} => hw.phase = "off"

(* No step makes the driver take a running core for idle: the handler does *)
(* so only on an interrupt other than JMP, and those stop the hardware.    *)
LEMMA IdleStep ==
  ASSUME IdleInv, [Next]_vars
  PROVE  IdleInv'
  <1> USE DEF IdleInv, IdleMeansStopped
  <1>1. CASE UNCHANGED vars
    BY <1>1 DEF vars
  <1>2. ASSUME UNCHANGED <<working, hw, irq>> PROVE IdleInv'
    BY <1>2
  <1>3. ASSUME NEW n \in Ids, NEW p \in Prios, Reserve(n, p) PROVE IdleInv'
    BY <1>2, <1>3 DEF Reserve
  <1>4. ASSUME NEW n \in Ids,
               \/ SelectTail(n) \/ SelectBusy(n) \/ AbortFlag(n) \/ AbortWake(n)
               \/ PatchAddresses(n) \/ Wait(n) \/ release_cmdbuf(n)
               \/ SemInterrupted(n) \/ AbortInterrupted(n) \/ AbortGivenUp(n)
        PROVE IdleInv'
    BY <1>2, <1>4 DEF SelectTail, SelectBusy, AbortFlag, AbortWake, PatchAddresses,
       Wait, release_cmdbuf, SemInterrupted, AbortInterrupted, AbortGivenUp
  <1>5. ASSUME NEW n \in Ids, AbortTrigger(n) PROVE IdleInv'
    BY <1>5 DEF AbortTrigger
  <1>6. ASSUME NEW n \in Ids, LinkToRunning(n) PROVE IdleInv'
    <2>1. UNCHANGED <<working, irq>> /\ working
      BY <1>6 DEF LinkToRunning, LeaveSection
    <2>2. /\ "phase" \in DOMAIN hw'
          /\ hw.phase = "off" => hw'.phase = "off"
      <3>1. CASE UNCHANGED hw
        BY <3>1
      <3>2. CASE WriteReady(sw_rdy', jmp')
        BY <3>2 DEF WriteReady
      <3> QED
        BY <1>6, <3>1, <3>2 DEF LinkToRunning
    <2> QED
      BY <2>1, <2>2
  <1>7. ASSUME NEW n \in Ids, LinkAndStart(n) PROVE IdleInv'
    <2>1. irq' = irq /\ ~working
      BY <1>7 DEF LinkAndStart, LeaveSection
    <2>2. \/ UNCHANGED <<working, hw>>
          \/ working' /\ hw'.phase = "exec" /\ "phase" \in DOMAIN hw'
      BY <1>7 DEF LinkAndStart, vcmd_start
    <2> QED
      BY <2>1, <2>2
  <1>8. CASE HwFinish
    <2>1. working /\ working' = working /\ irq \ {"JMP"} = {} /\ "phase" \in DOMAIN hw'
      BY <1>8 DEF HwFinish
    <2>2. hw'.phase = "off" \/ irq' \ {"JMP"} = {}
      <3>1. CASE hw.abort
        BY <1>8, <3>1 DEF HwFinish
      <3>2. CASE ~hw.abort
        BY <1>8, <2>1, <3>2 DEF HwFinish
      <3> QED
        BY <3>1, <3>2
    <2> QED
      BY <2>1, <2>2
  <1>9. CASE HwAbort
    BY <1>9 DEF HwAbort
  <1>10. ASSUME NEW kind \in Faults, HwFault(kind) PROVE IdleInv'
    BY <1>10 DEF HwFault
  <1>11. ASSUME NEW k, Stop(k), irq # {"JMP"}, irq # {}, irq' = {} PROVE IdleInv'
    BY <1>11 DEF Stop
  <1>12. ASSUME NEW k, Restart(k), irq # {"JMP"}, irq # {}, irq' = {} PROVE IdleInv'
    <2>1. hw.phase = "off"
      BY <1>12
    <2>2. \/ working' = FALSE /\ UNCHANGED hw
          \/ working' /\ hw'.phase = "exec" /\ "phase" \in DOMAIN hw'
      BY <1>12 DEF Restart, vcmd_start
    <2> QED
      BY <1>12, <2>1, <2>2
  <1>13. ASSUME NotFound, irq # {"JMP"}, irq # {}, irq' = {} PROVE IdleInv'
    BY <1>13 DEF NotFound
  <1>14. CASE IsrJmp
    BY <1>14 DEF IsrJmp, IsrCommon
  <1>15. CASE IsrReset
    BY <1>12, <1>15 DEF IsrReset, IsrCommon
  <1>16. CASE IsrAbort
    BY <1>11, <1>12, <1>13, <1>16 DEF IsrAbort, IsrCommon
  <1>17. CASE IsrError
    BY <1>12, <1>13, <1>17 DEF IsrError, IsrCommon
  <1>18. CASE IsrTimeout
    BY <1>12, <1>13, <1>18 DEF IsrTimeout, IsrCommon
  <1> QED
    BY <1>1, <1>3, <1>4, <1>5, <1>6, <1>7, <1>8, <1>9, <1>10, <1>14, <1>15, <1>16,
       <1>17, <1>18
    DEF Next, CalmNext, Disturbance, Submission

(* IdleMeansStopped: the driver takes a core for idle, and may start it,   *)
(* only when the hardware has stopped and has raised nothing that is not   *)
(* handled yet, through signals, aborts, faults and timeouts.              *)
THEOREM IdleCoreHasStopped == Spec => []IdleMeansStopped
  <1>1. Init => IdleInv
    BY DEF Init, IdleInv, IdleMeansStopped
  <1>2. IdleInv => IdleMeansStopped
    BY DEF IdleInv
  <1> QED
    BY <1>1, <1>2, IdleStep, PTL DEF Spec

-----------------------------------------------------------------------------
(* Taking positions out of a list.                                         *)

Rank(S, j) == Cardinality({k \in S : k <= j})
Place(S, i) == CHOOSE j \in S : Rank(S, j) = i

(* The ranks of the members of a finite set of numbers are the numbers up  *)
(* to its size, in the same order.                                         *)
LEMMA RanksAreNumbers ==
  ASSUME NEW N \in Nat, NEW S \in SUBSET (1..N)
  PROVE  /\ IsFiniteSet(S) /\ Cardinality(S) \in 0..N
         /\ \A j \in S : Rank(S, j) \in 1..Cardinality(S)
         /\ \A i, j \in S : i < j => Rank(S, i) < Rank(S, j)
         /\ \A i \in 1..Cardinality(S) : \E j \in S : Rank(S, j) = i
  <1>1. IsFiniteSet(1..N) /\ Cardinality(1..N) = N
    BY FS_Interval
  <1>2. IsFiniteSet(S) /\ Cardinality(S) \in 0..N
    <2>1. IsFiniteSet(S) /\ Cardinality(S) <= N
      BY <1>1, FS_Subset
    <2>2. Cardinality(S) \in Nat
      BY <2>1, FS_CardinalityType
    <2> QED
      BY <2>1, <2>2
  <1>3. \A j \in S : IsFiniteSet({k \in S : k <= j}) /\ Rank(S, j) \in 1..Cardinality(S)
    <2> TAKE j \in S
    <2> DEFINE D == {k \in S : k <= j}
    <2>1. D \in SUBSET S /\ j \in D
      OBVIOUS
    <2> HIDE DEF D
    <2>2. IsFiniteSet(D) /\ Cardinality(D) <= Cardinality(S) /\ Cardinality(D) \in Nat
      BY <1>2, <2>1, FS_Subset, FS_CardinalityType
    <2>3. Cardinality(D) # 0
      BY <2>1, <2>2, FS_EmptySet
    <2> QED
      BY <1>2, <2>2, <2>3 DEF Rank, D
  <1>4. \A i, j \in S : i < j => Rank(S, i) < Rank(S, j)
    <2> SUFFICES ASSUME NEW i \in S, NEW j \in S, i < j
                 PROVE  Rank(S, i) < Rank(S, j)
      OBVIOUS
    <2> DEFINE C == {k \in S : k <= i}
               D == {k \in S : k <= j}
    <2>1. C \in SUBSET D /\ C # D
      <3>1. j \in D /\ j \notin C
        OBVIOUS
      <3>2. \A k \in C : k \in D
        OBVIOUS
      <3> HIDE DEF C, D
      <3> QED
        BY <3>1, <3>2
    <2>2. Cardinality(C) <= Cardinality(D) /\ Cardinality(C) # Cardinality(D)
      BY <1>3, <2>1, FS_Subset
    <2>3. Cardinality(C) \in Nat /\ Cardinality(D) \in Nat
      BY <1>3, FS_CardinalityType
    <2> QED
      BY <2>2, <2>3 DEF Rank
  <1>5. \A i \in 1..Cardinality(S) : \E j \in S : Rank(S, j) = i
    <2> DEFINE T == 1..Cardinality(S)
               f == [j \in S |-> Rank(S, j)]
    <2>1. f \in [S -> T]
      <3>1. \A j \in S : Rank(S, j) \in T
        BY <1>3
      <3> QED
        BY <3>1
    <2>2. \A i, j \in S : f[i] = f[j] => i = j
      <3> SUFFICES ASSUME NEW i \in S, NEW j \in S, f[i] = f[j], i # j PROVE FALSE
        OBVIOUS
      <3>1. i < j \/ j < i
        OBVIOUS
      <3>2. \A q \in S : Rank(S, q) \in Int
        <4> HIDE DEF f
        <4>1. \A q \in S : Rank(S, q) \in 1..Cardinality(S)
          BY <1>3
        <4>2. Cardinality(S) \in Int
          BY <1>2
        <4> QED
          BY <4>1, <4>2
      <3>3. Rank(S, i) = Rank(S, j)
        OBVIOUS
      <3> QED
        BY <1>4, <3>1, <3>2, <3>3
    <2>3. f \in Injection(S, T)
      BY <2>1, <2>2 DEF Injection, IsInjective
    <2>4. IsFiniteSet(T) /\ Cardinality(T) = Cardinality(S)
      BY <1>2, FS_Interval
    <2>5. f \in Surjection(S, T)
      BY <2>3, <2>4, FS_Injection
    <2> QED
      BY <2>5 DEF Surjection
  <1> QED
    BY <1>2, <1>3, <1>4, <1>5

(* The i-th member of a set of numbers.                                    *)
LEMMA PlacesAreOrdered ==
  ASSUME NEW N \in Nat, NEW S \in SUBSET (1..N)
  PROVE  /\ Cardinality(S) \in 0..N
         /\ \A i \in 1..Cardinality(S) : Place(S, i) \in S
         /\ \A i, k \in 1..Cardinality(S) : Place(S, i) < Place(S, k) <=> i < k
         /\ \A j \in S : /\ Rank(S, j) \in 1..Cardinality(S)
                         /\ Place(S, Rank(S, j)) = j
  <1>1. Cardinality(S) \in 0..N
    BY RanksAreNumbers
  <1>2. \A i \in 1..Cardinality(S) : Place(S, i) \in S /\ Rank(S, Place(S, i)) = i
    BY RanksAreNumbers DEF Place
  <1>3. \A j \in S : Rank(S, j) \in 1..Cardinality(S)
    BY RanksAreNumbers
  <1>4. \A j \in S : Place(S, Rank(S, j)) = j
    <2> TAKE j \in S
    <2>1. Place(S, Rank(S, j)) \in S /\ Rank(S, Place(S, Rank(S, j))) = Rank(S, j)
      BY <1>2, <1>3
    <2> DEFINE p == Place(S, Rank(S, j))
    <2>2. Rank(S, p) = Rank(S, j) /\ p \in S
      BY <2>1
    <2> HIDE DEF p
    <2>3. p < j \/ j < p \/ p = j
      BY <2>2
    <2>4. Rank(S, p) \in Int /\ Rank(S, j) \in Int
      BY <1>3, <2>2
    <2>5. ~(p < j) /\ ~(j < p)
      <3>1. p < j => Rank(S, p) < Rank(S, j)
        BY <2>2, RanksAreNumbers
      <3>2. j < p => Rank(S, j) < Rank(S, p)
        BY <2>2, RanksAreNumbers
      <3> QED
        BY <2>2, <2>4, <3>1, <3>2
    <2>6. p = j
      BY <2>3, <2>5
    <2> QED
      BY <2>6 DEF p
  <1>5. \A i, k \in 1..Cardinality(S) : Place(S, i) < Place(S, k) <=> i < k
    <2> SUFFICES ASSUME NEW i \in 1..Cardinality(S), NEW k \in 1..Cardinality(S)
                 PROVE  Place(S, i) < Place(S, k) <=> i < k
      OBVIOUS
    <2>1. PICK p \in S : p = Place(S, i) /\ Rank(S, p) = i
      BY <1>2
    <2>2. PICK q \in S : q = Place(S, k) /\ Rank(S, q) = k
      BY <1>2
    <2>3. p < q => i < k
      BY <2>1, <2>2, RanksAreNumbers
    <2>4. q < p => k < i
      BY <2>1, <2>2, RanksAreNumbers
    <2>5. i = k => p = q
      BY <2>1, <2>2
    <2> QED
      BY <1>1, <2>1, <2>2, <2>3, <2>4, <2>5
  <1> QED
    BY <1>1, <1>2, <1>3, <1>4, <1>5

(* When all that is missing from S lies up to t, what follows only moves   *)
(* down by the number of the missing.                                      *)
LEMMA PlacesAfterGaps ==
  ASSUME NEW N \in Nat, NEW S \in SUBSET (1..N), NEW t \in 0..N,
         \A j \in 1..N : t < j => j \in S
  PROVE  /\ N - Cardinality(S) \in 0..t
         /\ \A i \in 1..Cardinality(S) :
              /\ t < i + (N - Cardinality(S)) => Place(S, i) = i + (N - Cardinality(S))
              /\ i + (N - Cardinality(S)) <= t => Place(S, i) <= t
  <1>1. IsFiniteSet(S) /\ Cardinality(S) \in 0..N
    BY RanksAreNumbers
  <1>2. \A j \in t..N : Cardinality({k \in S : k <= j}) = Cardinality(S) - (N - j)
    <2> TAKE j \in t..N
    <2> DEFINE D == {k \in S : k <= j}
               U == (j + 1)..N
    <2>2. D \in SUBSET S /\ D \cup U = S /\ D \cap U = {}
      <3>1. D \subseteq S
        OBVIOUS
      <3>2. U \subseteq S
        OBVIOUS
      <3>3. \A k \in S : k \in D \/ k \in U
        OBVIOUS
      <3>4. \A k \in U : k \notin D
        OBVIOUS
      <3> HIDE DEF U, D
      <3> QED
        BY <3>1, <3>2, <3>3, <3>4
    <2>3. IsFiniteSet(U) /\ Cardinality(U) = N - j
      <3>1. j + 1 \in Int /\ (j + 1 > N <=> j = N)
        OBVIOUS
      <3> QED
        BY <3>1, FS_Interval
    <2> HIDE DEF U
    <2>1. IsFiniteSet(D)
      BY <1>1, <2>2, FS_Subset
    <2>4. Cardinality(S) = Cardinality(D) + Cardinality(U) - Cardinality({})
      BY <2>1, <2>2, <2>3, FS_Union
    <2>5. Cardinality(D) \in Nat /\ Cardinality({}) = 0
      BY <2>1, FS_CardinalityType, FS_EmptySet
    <2> QED
      BY <1>1, <2>3, <2>4, <2>5
  <1>3. N - Cardinality(S) \in 0..t
    <2> DEFINE D == {k \in S : k <= t}
    <2>1. IsFiniteSet(D)
      BY <1>1, FS_Subset
    <2>2. Cardinality(D) \in Nat /\ Cardinality(D) = Cardinality(S) - (N - t)
      BY <1>2, <2>1, FS_CardinalityType
    <2> QED
      BY <1>1, <2>2
  <1>4. \A j \in S : t < j => Rank(S, j) = j - (N - Cardinality(S))
    BY <1>1, <1>2 DEF Rank
  <1>5. ASSUME NEW i \in 1..Cardinality(S), t < i + (N - Cardinality(S))
        PROVE  Place(S, i) = i + (N - Cardinality(S))
    <2> DEFINE j == i + (N - Cardinality(S))
    <2>1. j \in S /\ j - (N - Cardinality(S)) = i
      BY <1>1, <1>3, <1>5
    <2>2. Rank(S, j) = i
      BY <1>4, <1>5, <2>1
    <2> HIDE DEF j
    <2>3. Place(S, i) = j
      BY <2>1, <2>2, PlacesAreOrdered
    <2> QED
      BY <2>3 DEF j
  <1>6. ASSUME NEW i \in 1..Cardinality(S), i + (N - Cardinality(S)) <= t
        PROVE  Place(S, i) <= t
    <2>1. PICK p \in S : p = Place(S, i)
      BY PlacesAreOrdered
    <2>2. ASSUME t < p PROVE FALSE
      <3>1. Rank(S, p) = p - (N - Cardinality(S)) /\ Rank(S, p) \in 1..Cardinality(S)
        BY <1>4, <2>2, PlacesAreOrdered
      <3>2. Place(S, Rank(S, p)) = p
        BY PlacesAreOrdered
      <3>3. i < Rank(S, p)
        BY <1>1, <1>6, <2>2, <3>1
      <3>4. Place(S, i) < Place(S, Rank(S, p))
        BY <3>1, <3>3, PlacesAreOrdered
      <3> QED
        BY <2>1, <3>2, <3>4
    <2> QED
      BY <2>1, <2>2
  <1> QED
    BY <1>3, <1>5, <1>6

(* What Picked returns.                                                    *)
LEMMA PickedElements ==
  ASSUME NEW T, NEW s \in Seq(T), NEW S \in SUBSET DOMAIN s
  PROVE  /\ Picked(s, S) \in Seq(T)
         /\ Len(Picked(s, S)) = Cardinality(S)
         /\ \A i \in 1..Cardinality(S) :
              Place(S, i) \in S /\ Picked(s, S)[i] = s[Place(S, i)]
  <1>1. Len(s) \in Nat /\ DOMAIN s = 1..Len(s) /\ s \in [1..Len(s) -> T]
    BY LenProperties
  <1>2. Cardinality(S) \in Nat /\ \A i \in 1..Cardinality(S) : Place(S, i) \in S
    BY <1>1, PlacesAreOrdered
  <1>3. Picked(s, S) = [i \in 1..Cardinality(S) |-> s[Place(S, i)]]
    BY DEF Picked, Place, Rank
  <1>4. \A i \in 1..Cardinality(S) : s[Place(S, i)] \in T
    BY <1>1, <1>2
  <1>5. [i \in 1..Cardinality(S) |-> s[Place(S, i)]] \in Seq(T)
    BY <1>2, <1>4
  <1> QED
    BY <1>2, <1>3, <1>5

(* t is s with e at position p.                                            *)
HasInserted(t, s, p, e) ==
    \A i \in 1..(Len(s) + 1) :
        t[i] = IF i < p THEN s[i] ELSE IF i = p THEN e ELSE s[i - 1]

(* What InsertAt returns.                                                  *)
LEMMA InsertedElements ==
  ASSUME NEW T, NEW s \in Seq(T), NEW p \in 1..(Len(s) + 1), NEW e \in T
  PROVE  /\ InsertAt(s, p, e) \in Seq(T)
         /\ Len(InsertAt(s, p, e)) = Len(s) + 1
         /\ HasInserted(InsertAt(s, p, e), s, p, e)
  <1> DEFINE a == SubSeq(s, 1, p - 1)
             b == SubSeq(s, p, Len(s))
             m == a \o <<e>>
  <1>1. Len(s) \in Nat /\ \A i \in 1..Len(s) : s[i] \in T
    BY LenProperties
  <1>2. a \in Seq(T) /\ Len(a) = p - 1 /\ \A i \in 1..(p - 1) : a[i] = s[i]
    BY <1>1, SubSeqProperties
  <1>3. b \in Seq(T) /\ Len(b) = Len(s) - p + 1
        /\ \A i \in 1..(Len(s) - p + 1) : b[i] = s[p + i - 1]
    BY <1>1, SubSeqProperties
  <1>4. <<e>> \in Seq(T) /\ Len(<<e>>) = 1 /\ <<e>>[1] = e
    OBVIOUS
  <1> HIDE DEF a, b
  <1>5. m \in Seq(T) /\ Len(m) = p
        /\ \A i \in 1..p : m[i] = IF i < p THEN s[i] ELSE e
    BY <1>2, <1>4, ConcatProperties
  <1>6. InsertAt(s, p, e) = m \o b
    BY DEF InsertAt, a, b
  <1> HIDE DEF m
  <1>7. PICK w : w = m \o b
    OBVIOUS
  <1>8. w \in Seq(T) /\ Len(w) = Len(s) + 1
        /\ \A i \in 1..(Len(s) + 1) : w[i] = IF i <= p THEN m[i] ELSE b[i - p]
    <2>1. /\ w \in Seq(T) /\ Len(w) = Len(m) + Len(b)
          /\ \A i \in 1..(Len(m) + Len(b)) :
                w[i] = IF i <= Len(m) THEN m[i] ELSE b[i - Len(m)]
      BY <1>3, <1>5, <1>7, ConcatProperties
    <2>2. Len(m) = p /\ Len(m) + Len(b) = Len(s) + 1
      BY <1>1, <1>3, <1>5
    <2> QED
      BY <2>1, <2>2
  <1>9. \A i \in 1..(Len(s) + 1) :
          w[i] = IF i < p THEN s[i] ELSE IF i = p THEN e ELSE s[i - 1]
    <2> TAKE i \in 1..(Len(s) + 1)
    <2>1. CASE i <= p
      BY <1>5, <1>8, <2>1
    <2>2. CASE p < i
      <3>1. i - p \in 1..(Len(s) - p + 1) /\ p + (i - p) - 1 = i - 1
        BY <1>1, <2>2
      <3>2. b[i - p] = s[i - 1]
        BY <1>3, <3>1
      <3>3. w[i] = b[i - p]
        BY <1>1, <1>8, <2>2
      <3> QED
        BY <1>1, <2>2, <3>2, <3>3
    <2> QED
      BY <1>1, <2>1, <2>2
  <1> QED
    BY <1>6, <1>7, <1>8, <1>9 DEF HasInserted
-----------------------------------------------------------------------------
(* The list, with signals and errors.                                      *)

(* The stages of a buffer that is in the list.                             *)
Listed == {"inserted", "patched", "submitted", "waited", "released", "leaked"}

ListTypes ==
    /\ list \in Seq(Bufs) /\ Len(list) # 0
    /\ stage \in [Bufs -> Stages]
    /\ run_done \in [Bufs -> BOOLEAN] /\ need_remove \in [Bufs -> BOOLEAN]
    /\ sem \in Ids \cup {None}

(* A buffer is in the list once, and the probe's buffer heads it.          *)
ListOnce == \A i, j \in DOMAIN list : list[i] = list[j] => i = j
KernelFirst ==
    /\ list[1] = KernelBuf /\ stage[KernelBuf] = "waited"
    /\ run_done[KernelBuf] /\ ~need_remove[KernelBuf]
ListedByStage ==
    \A n \in Ids : (\E j \in DOMAIN list : list[j] = n) <=> stage[n] \in Listed

OneMarked ==
    /\ \A n \in Ids : need_remove[n] => stage[n] \in {"released", "free"}
    /\ \A i, j \in DOMAIN list : need_remove[list[i]] /\ need_remove[list[j]] => i = j

(* The thread inside select_vcmd or link_and_run_cmdbuf holds the          *)
(* semaphore, and no other.                                                *)
OneInSection == \A n \in Ids : stage[n] \in Sections <=> sem = n

ListInv ==
    ListTypes /\ ListOnce /\ KernelFirst /\ ListedByStage /\ OneMarked /\ OneInSection

(* The positions of the list, and that no id is the probe's.               *)
LEMMA ListPositions ==
  ASSUME ListInv
  PROVE  /\ Len(list) \in Nat \ {0} /\ DOMAIN list = 1..Len(list)
         /\ \A j \in DOMAIN list : list[j] \in Bufs
         /\ KernelBuf \notin Ids /\ None \notin Bufs
  BY LenProperties DEF ListInv, ListTypes, KernelBuf, Ids, None, Bufs

(* A thread goes from one stage to another, the list stays as it is.       *)
LEMMA StageMoves ==
  ASSUME ListInv, NEW n \in Ids, NEW t \in Stages,
         list' = list, run_done' = run_done,
         stage' = [stage EXCEPT ![n] = t],
         need_remove' \in [Bufs -> BOOLEAN], ~need_remove'[n],
         \A m \in Bufs : m # n => (need_remove'[m] <=> need_remove[m]),
         stage[n] \in Listed <=> t \in Listed,
         sem' \in Ids \cup {None}, t \in Sections <=> sem' = n,
         \A m \in Ids : m # n => (sem' = m <=> sem = m)
  PROVE  ListInv'
  <1>1. n \in Bufs /\ KernelBuf \in Bufs /\ n # KernelBuf
    BY DEF Bufs, Ids, KernelBuf
  <1>2. \A m \in Bufs : stage'[m] = IF m = n THEN t ELSE stage[m]
    BY DEF ListInv, ListTypes
  <1>3. ListTypes'
    BY <1>2 DEF ListInv, ListTypes
  <1>4. ListOnce' /\ KernelFirst'
    BY <1>1, <1>2 DEF ListInv, ListOnce, KernelFirst
  <1>5. ListedByStage'
    BY <1>1, <1>2 DEF ListInv, ListedByStage, Bufs
  <1>6. OneMarked'
    BY <1>1, <1>2, ListPositions DEF ListInv, OneMarked, Bufs
  <1>7. OneInSection'
    BY <1>1, <1>2 DEF ListInv, OneInSection, Bufs
  <1> QED
    BY <1>3, <1>4, <1>5, <1>6, <1>7 DEF ListInv

(* A buffer that is in no list is put behind the head of this one.         *)
LEMMA InsertKeepsList ==
  ASSUME ListInv, NEW n \in Ids, NEW p \in 2..(Len(list) + 1),
         list' \in Seq(Bufs), Len(list') = Len(list) + 1,
         HasInserted(list', list, p, n),
         stage[n] \in {"reserved", "aborting"}, stage' = [stage EXCEPT ![n] = "inserted"],
         UNCHANGED <<run_done, need_remove>>,
         sem \in {None, n}, sem' = n
  PROVE  ListInv'
  <1>1. /\ n \in Bufs /\ KernelBuf \in Bufs /\ n # KernelBuf /\ None \notin Ids
        /\ Len(list) \in Nat \ {0} /\ DOMAIN list = 1..Len(list)
    BY ListPositions DEF Bufs, Ids, KernelBuf, None
  <1>2. \A m \in Bufs : stage'[m] = IF m = n THEN "inserted" ELSE stage[m]
    BY DEF ListInv, ListTypes
  <1>3. /\ DOMAIN list' = 1..(Len(list) + 1)
        /\ \A i \in 1..(Len(list) + 1) :
              list'[i] = IF i < p THEN list[i] ELSE IF i = p THEN n ELSE list[i - 1]
    BY LenProperties DEF HasInserted
  <1>4. \A j \in DOMAIN list : list[j] # n
    BY <1>1 DEF ListInv, ListedByStage, Listed
  <1>5. ~need_remove[n]
    BY DEF ListInv, OneMarked
  <1>6. \A i \in DOMAIN list' :
          IF i = p THEN list'[i] = n
          ELSE \E j \in DOMAIN list : /\ list'[i] = list[j]
                                      /\ j = IF i < p THEN i ELSE i - 1
    <2> TAKE i \in DOMAIN list'
    <2>1. CASE i < p
      BY <1>1, <1>3, <2>1
    <2>2. CASE i = p
      BY <1>1, <1>3, <2>2
    <2>3. CASE i > p
      <3>1. i - 1 \in DOMAIN list
        BY <1>1, <1>3, <2>3
      <3> QED
        BY <1>1, <1>3, <2>3, <3>1
    <2> QED
      BY <1>1, <1>3, <2>1, <2>2, <2>3
  <1>7. ListTypes'
    BY <1>1, <1>2 DEF ListInv, ListTypes, Stages
  <1>8. ListOnce'
    <2> SUFFICES ASSUME NEW i \in DOMAIN list', NEW k \in DOMAIN list',
                        list'[i] = list'[k]
                 PROVE  i = k
      BY DEF ListOnce
    <2>1. CASE i = p \/ k = p
      BY <1>4, <1>6, <2>1
    <2>2. CASE i # p /\ k # p
      <3>1. PICK j \in DOMAIN list : list'[i] = list[j] /\ j = IF i < p THEN i ELSE i - 1
        BY <1>6, <2>2
      <3>2. PICK h \in DOMAIN list : list'[k] = list[h] /\ h = IF k < p THEN k ELSE k - 1
        BY <1>6, <2>2
      <3>3. j = h
        BY <3>1, <3>2 DEF ListInv, ListOnce
      <3> QED
        BY <1>1, <1>3, <2>2, <3>1, <3>2, <3>3
    <2> QED
      BY <2>1, <2>2
  <1>9. KernelFirst'
    BY <1>1, <1>2, <1>3 DEF ListInv, KernelFirst
  <1>10. ListedByStage'
    <2> SUFFICES ASSUME NEW m \in Ids
                 PROVE  (\E i \in DOMAIN list' : list'[i] = m) <=> stage'[m] \in Listed
      BY DEF ListedByStage
    <2>1. CASE m = n
      <3>1. p \in DOMAIN list' /\ list'[p] = n
        BY <1>1, <1>3
      <3> QED
        BY <1>1, <1>2, <2>1, <3>1 DEF Listed
    <2>2. CASE m # n
      <3>1. ASSUME NEW i \in DOMAIN list', list'[i] = m
            PROVE  \E j \in DOMAIN list : list[j] = m
        BY <1>6, <2>2, <3>1
      <3>2. ASSUME NEW j \in DOMAIN list, list[j] = m
            PROVE  \E i \in DOMAIN list' : list'[i] = m
        <4>1. CASE j < p
          <5>1. j \in DOMAIN list' /\ list'[j] = list[j]
            BY <1>1, <1>3, <4>1
          <5> QED
            BY <3>2, <5>1
        <4>2. CASE p <= j
          <5>1. j + 1 \in DOMAIN list' /\ list'[j + 1] = list[j + 1 - 1] /\ j + 1 - 1 = j
            BY <1>1, <1>3, <4>2
          <5> QED
            BY <3>2, <5>1
        <4> QED
          BY <1>1, <4>1, <4>2
      <3>3. stage'[m] = stage[m]
        BY <1>2, <2>2 DEF Bufs
      <3> QED
        BY <3>1, <3>2, <3>3 DEF ListInv, ListedByStage
    <2> QED
      BY <2>1, <2>2
  <1>11. OneMarked'
    <2>1. \A m \in Ids : need_remove[m] => stage'[m] \in {"released", "free"}
      BY <1>2, <1>5 DEF ListInv, OneMarked, Bufs
    <2>2. ASSUME NEW i \in DOMAIN list', NEW k \in DOMAIN list',
                 need_remove[list'[i]], need_remove[list'[k]]
          PROVE  i = k
      <3>1. i # p /\ k # p
        BY <1>5, <1>6, <2>2
      <3>2. PICK j \in DOMAIN list : list'[i] = list[j] /\ j = IF i < p THEN i ELSE i - 1
        BY <1>6, <3>1
      <3>3. PICK h \in DOMAIN list : list'[k] = list[h] /\ h = IF k < p THEN k ELSE k - 1
        BY <1>6, <3>1
      <3>4. j = h
        BY <2>2, <3>2, <3>3 DEF ListInv, OneMarked
      <3> QED
        BY <1>1, <1>3, <3>1, <3>2, <3>3, <3>4
    <2> QED
      BY <2>1, <2>2 DEF OneMarked
  <1>12. OneInSection'
    <2> SUFFICES ASSUME NEW m \in Ids PROVE stage'[m] \in Sections <=> sem' = m
      BY DEF OneInSection
    <2>1. CASE m = n
      BY <1>1, <1>2, <2>1 DEF Sections
    <2>2. CASE m # n
      BY <1>1, <1>2, <2>2 DEF ListInv, OneInSection, Bufs
    <2> QED
      BY <2>1, <2>2
  <1> QED
    BY <1>7, <1>8, <1>9, <1>10, <1>11, <1>12 DEF ListInv

(* A release keeps the positions S: all but the marked ones up to its own  *)
(* that have a successor.                                                  *)
ReleaseKeeps(n, q, S) ==
    /\ list[q] = n /\ q \in DOMAIN list
    /\ S \in SUBSET DOMAIN list
    /\ \A j \in DOMAIN list :
          j \notin S <=> j <= q /\ j # Len(list) /\ (need_remove[list[j]] \/ j = q)
    /\ list' = Picked(list, S)
    /\ \A m \in Bufs :
          stage'[m] = IF \E j \in DOMAIN list : j \notin S /\ list[j] = m THEN "free"
                      ELSE IF m = n THEN "released" ELSE stage[m]
    /\ need_remove' \in [Bufs -> BOOLEAN]
    /\ \A m \in Bufs : need_remove'[m] <=> m = n \/ need_remove[m]

(* Every release keeps the list but for its own node and a marked one.     *)
LEMMA ReleaseKeepsTheRest ==
  ASSUME ListInv, NEW n \in Ids, release_cmdbuf(n)
  PROVE  \E q, S : ReleaseKeeps(n, q, S)
  <1>1. /\ n \in Bufs /\ Len(list) \in Nat \ {0} /\ DOMAIN list = 1..Len(list)
        /\ \A j \in DOMAIN list : list[j] \in Bufs
    BY ListPositions DEF Bufs
  <1>2. PICK q \in DOMAIN list : list[q] = n
    BY DEF ListInv, ListedByStage, Listed, release_cmdbuf
  <1>3. Position(n) = q
    BY <1>2 DEF Position, ListInv, ListOnce
  <1>4. /\ need_remove' \in [Bufs -> BOOLEAN]
        /\ \A m \in Bufs : need_remove'[m] <=> m = n \/ need_remove[m]
    BY <1>1 DEF ListInv, ListTypes, release_cmdbuf
  <1> DEFINE gone == {list[j] : j \in {i \in 1..Position(n) :
                                  need_remove'[list[i]] /\ i # Len(list)}}
             S == {j \in DOMAIN list : list[j] \notin gone}
  <1>5. /\ list' = Picked(list, S)
        /\ stage' = [m \in Bufs |-> IF m \in gone THEN "free"
                                    ELSE IF m = n THEN "released" ELSE stage[m]]
    BY DEF release_cmdbuf
  <1>a. \A m : m \in gone <=> \E i \in 1..q : /\ need_remove'[list[i]] /\ i # Len(list)
                                              /\ m = list[i]
    <2>1. \A m : m \in gone <=> \E i \in 1..Position(n) :
                /\ need_remove'[list[i]] /\ i # Len(list)
                /\ m = list[i]
      OBVIOUS
    <2> HIDE DEF gone
    <2> QED
      BY <1>3, <2>1
  <1> HIDE DEF gone
  <1>6. \A j \in DOMAIN list :
          list[j] \in gone
            <=> j <= q /\ j # Len(list) /\ (need_remove[list[j]] \/ j = q)
    <2> TAKE j \in DOMAIN list
    <2>1. list[j] \in gone <=> j \in 1..q /\ need_remove'[list[j]] /\ j # Len(list)
      <3>1. \A i \in 1..q : i \in DOMAIN list
        BY <1>1, <1>2
      <3>2. \A i \in 1..q : list[j] = list[i] => i = j
        BY <3>1 DEF ListInv, ListOnce
      <3> QED
        BY <1>a, <3>2
    <2>2. need_remove'[list[j]] <=> j = q \/ need_remove[list[j]]
      BY <1>1, <1>2, <1>4 DEF ListInv, ListOnce
    <2>3. j \in 1..q <=> j <= q
      BY <1>1, <1>2
    <2> QED
      BY <2>1, <2>2, <2>3
  <1>7. \A m \in Bufs : m \in gone <=> \E j \in DOMAIN list : j \notin S /\ list[j] = m
    <2>1. \A m \in gone : \E j \in DOMAIN list : list[j] = m
      <3>1. \A i \in 1..q : i \in DOMAIN list
        BY <1>1, <1>2
      <3> HIDE DEF S
      <3> QED
        BY <1>a, <3>1
    <2> QED
      BY <2>1
  <1>8. /\ S \in SUBSET DOMAIN list
        /\ \A j \in DOMAIN list : j \notin S <=> list[j] \in gone
    OBVIOUS
  <1> HIDE DEF S
  <1>9. \A m \in Bufs :
          stage'[m] = IF \E j \in DOMAIN list : j \notin S /\ list[j] = m THEN "free"
                      ELSE IF m = n THEN "released" ELSE stage[m]
    BY <1>5, <1>7
  <1>10. ReleaseKeeps(n, q, S)
    BY <1>2, <1>4, <1>5, <1>6, <1>8, <1>9 DEF ReleaseKeeps
  <1> QED
    BY <1>10

(* The list after a release: what is kept, in its order.                   *)
LEMMA ListAfterRelease ==
  ASSUME ListInv, NEW n \in Ids, NEW q, NEW S, ReleaseKeeps(n, q, S)
  PROVE  /\ list' \in Seq(Bufs) /\ Len(list') = Cardinality(S)
         /\ Cardinality(S) \in 1..Len(list) /\ 1 \in S /\ Len(list) \in S
         /\ DOMAIN list' = 1..Cardinality(S)
         /\ \A i \in DOMAIN list' : Place(S, i) \in S /\ list'[i] = list[Place(S, i)]
         /\ \A j \in S : \E i \in DOMAIN list' : Place(S, i) = j
         /\ \A i, k \in DOMAIN list' : Place(S, i) < Place(S, k) <=> i < k
         /\ Place(S, 1) = 1
  <1>1. /\ Len(list) \in Nat \ {0} /\ DOMAIN list = 1..Len(list) /\ KernelBuf \notin Ids
        /\ list \in Seq(Bufs) /\ S \in SUBSET (1..Len(list))
    BY ListPositions DEF ListInv, ListTypes, ReleaseKeeps
  <1>2. 1 \in S /\ Len(list) \in S
    BY <1>1 DEF ReleaseKeeps, ListInv, KernelFirst
  <1>3. /\ list' \in Seq(Bufs) /\ Len(list') = Cardinality(S)
        /\ \A i \in 1..Cardinality(S) :
              Place(S, i) \in S /\ list'[i] = list[Place(S, i)]
    BY <1>1, PickedElements DEF ReleaseKeeps
  <1>4. /\ Cardinality(S) \in 0..Len(list)
        /\ \A i, k \in 1..Cardinality(S) : Place(S, i) < Place(S, k) <=> i < k
        /\ \A j \in S : Rank(S, j) \in 1..Cardinality(S) /\ Place(S, Rank(S, j)) = j
    BY <1>1, PlacesAreOrdered
  <1>5. DOMAIN list' = 1..Cardinality(S)
    BY <1>3, LenProperties
  <1>6. Cardinality(S) \in 1..Len(list)
    BY <1>2, <1>4
  <1>7. \A j \in S : \E i \in DOMAIN list' : Place(S, i) = j
    BY <1>4, <1>5
  <1>8. Place(S, 1) = 1
    <2>1. PICK i \in 1..Cardinality(S) : Place(S, i) = 1
      BY <1>2, <1>5, <1>7
    <2>2. 1 \in 1..Cardinality(S) /\ Place(S, 1) \in 1..Len(list)
      <3>1. 1 \in 1..Cardinality(S)
        BY <1>6
      <3>2. Place(S, 1) \in S
        BY <1>3, <3>1
      <3> QED
        BY <1>1, <3>1, <3>2
    <2>3. ~(1 < i)
      BY <1>4, <2>1, <2>2
    <2> QED
      BY <2>1, <2>3
  <1> QED
    BY <1>2, <1>3, <1>4, <1>5, <1>6, <1>7, <1>8

(* A release keeps the list's invariant.                                   *)
LEMMA ReleaseKeepsList ==
  ASSUME ListInv, NEW n \in Ids, release_cmdbuf(n)
  PROVE  ListInv'
  <1>1. PICK q, S : ReleaseKeeps(n, q, S)
    BY ReleaseKeepsTheRest
  <1>2. /\ Len(list) \in Nat \ {0} /\ DOMAIN list = 1..Len(list) /\ KernelBuf \notin Ids
        /\ n \in Bufs /\ KernelBuf \in Bufs /\ S \in SUBSET (1..Len(list)) /\ q \in Int
        /\ \A j \in DOMAIN list : list[j] \in Bufs
    BY <1>1, ListPositions DEF ReleaseKeeps, Bufs
  <1>3. /\ list' \in Seq(Bufs) /\ Len(list') # 0 /\ list'[1] = list[1]
        /\ \A i \in DOMAIN list' : Place(S, i) \in S /\ list'[i] = list[Place(S, i)]
        /\ \A j \in S : \E i \in DOMAIN list' : Place(S, i) = j
        /\ DOMAIN list' \subseteq Nat
        /\ \A i, k \in DOMAIN list' : Place(S, i) = Place(S, k) => i = k
    <2>1. DOMAIN list' = 1..Cardinality(S) /\ Cardinality(S) \in 1..Len(list)
      BY <1>1, ListAfterRelease
    <2>2. \A i, k \in DOMAIN list' : Place(S, i) = Place(S, k) => i = k
      <3> SUFFICES ASSUME NEW i \in DOMAIN list', NEW k \in DOMAIN list',
                          Place(S, i) = Place(S, k)
                   PROVE  i = k
        OBVIOUS
      <3>1. ~(Place(S, i) < Place(S, k)) /\ ~(Place(S, k) < Place(S, i))
        <4>1. Place(S, i) \in Int /\ Place(S, k) \in Int
          <5>1. Place(S, i) \in S /\ Place(S, k) \in S
            BY <1>1, ListAfterRelease
          <5>2. \A x \in S : x \in Int
            BY <1>2
          <5> QED
            BY <5>1, <5>2
        <4> QED
          BY <4>1
      <3>2. ~(i < k) /\ ~(k < i)
        BY <1>1, <3>1, ListAfterRelease
      <3> QED
        BY <2>1, <3>2
    <2> QED
      BY <1>1, <1>2, <2>1, <2>2, ListAfterRelease
  <1>4. /\ stage[n] = "waited" /\ sem = None /\ UNCHANGED <<run_done, sem>>
        /\ stage' \in [Bufs -> Stages]
    <2>1. stage[n] = "waited" /\ sem = None /\ UNCHANGED <<run_done, sem>>
      BY DEF release_cmdbuf, doneVars
    <2>2. stage' \in [Bufs -> Stages]
      <3> DEFINE gone == {list[j] : j \in {i \in 1..Position(n) :
                                      need_remove'[list[i]] /\ i # Len(list)}}
      <3>1. stage' = [m \in Bufs |-> IF m \in gone THEN "free"
                                     ELSE IF m = n THEN "released" ELSE stage[m]]
        BY DEF release_cmdbuf
      <3> HIDE DEF gone
      <3> QED
        BY <3>1 DEF ListInv, ListTypes, Stages
    <2> QED
      BY <2>1, <2>2
  <1>5. /\ \A j \in DOMAIN list :
             j \notin S <=> j <= q /\ j # Len(list) /\ (need_remove[list[j]] \/ j = q)
        /\ list[q] = n /\ q \in DOMAIN list
        /\ \A m \in Bufs :
             stage'[m] = IF \E j \in DOMAIN list : j \notin S /\ list[j] = m THEN "free"
                         ELSE IF m = n THEN "released" ELSE stage[m]
        /\ need_remove' \in [Bufs -> BOOLEAN]
        /\ \A m \in Bufs : need_remove'[m] <=> m = n \/ need_remove[m]
    BY <1>1 DEF ReleaseKeeps
  <1>6. ListTypes'
    BY <1>3, <1>4, <1>5 DEF ListInv, ListTypes
  <1>7. ListOnce'
    <2> SUFFICES ASSUME NEW i \in DOMAIN list', NEW k \in DOMAIN list', list'[i] = list'[k]
                 PROVE  i = k
      BY Zenon DEF ListOnce
    <2>1. /\ Place(S, i) \in DOMAIN list /\ list'[i] = list[Place(S, i)]
          /\ Place(S, k) \in DOMAIN list /\ list'[k] = list[Place(S, k)]
      BY <1>2, <1>3
    <2>2. Place(S, i) = Place(S, k)
      BY <2>1 DEF ListInv, ListOnce
    <2> QED
      BY <1>3, <2>2
  <1>8. KernelFirst'
    <2>1. ~\E j \in DOMAIN list : j \notin S /\ list[j] = KernelBuf
      BY <1>1, <1>2, ListAfterRelease DEF ListInv, KernelFirst, ListOnce
    <2>2. stage'[KernelBuf] = stage[KernelBuf]
      BY <1>2, <1>5, <2>1
    <2> QED
      BY <1>2, <1>3, <1>4, <1>5, <2>2 DEF ListInv, KernelFirst
  <1>9. ListedByStage'
    <2> SUFFICES ASSUME NEW m \in Ids
                 PROVE  (\E i \in DOMAIN list' : list'[i] = m) <=> stage'[m] \in Listed
      BY DEF ListedByStage
    <2>1. CASE \E j \in DOMAIN list : j \notin S /\ list[j] = m
      <3>1. stage'[m] = "free"
        BY <1>5, <2>1 DEF Bufs
      <3>2. ~\E i \in DOMAIN list' : list'[i] = m
        <4>1. PICK j \in DOMAIN list : j \notin S /\ list[j] = m
          BY <2>1
        <4>2. ASSUME NEW i \in DOMAIN list', list'[i] = m PROVE FALSE
          <5>1. PICK k \in S : k \in DOMAIN list /\ list[k] = m
            BY <1>2, <1>3, <4>2
          <5> QED
            BY <4>1, <5>1 DEF ListInv, ListOnce
        <4> QED
          BY <4>2
      <3> QED
        BY <3>1, <3>2 DEF Listed
    <2>2. CASE ~\E j \in DOMAIN list : j \notin S /\ list[j] = m
      <3>1. stage'[m] \in Listed <=> stage[m] \in Listed
        BY <1>4, <1>5, <2>2 DEF Bufs, Listed
      <3>2. (\E i \in DOMAIN list' : list'[i] = m) <=> \E j \in DOMAIN list : list[j] = m
        <4>1. ASSUME NEW i \in DOMAIN list', list'[i] = m
              PROVE  \E j \in DOMAIN list : list[j] = m
          <5>1. Place(S, i) \in DOMAIN list /\ list[Place(S, i)] = m
            BY <1>2, <1>3, <4>1
          <5> QED
            BY <5>1
        <4>2. ASSUME NEW j \in DOMAIN list, list[j] = m
              PROVE  \E i \in DOMAIN list' : list'[i] = m
          <5>1. j \in S
            BY <2>2, <4>2
          <5>2. PICK i \in DOMAIN list' : Place(S, i) = j
            BY <1>3, <5>1
          <5> QED
            BY <1>3, <4>2, <5>2
        <4> QED
          BY <4>1, <4>2
      <3> QED
        BY <3>1, <3>2 DEF ListInv, ListedByStage
    <2> QED
      BY <2>1, <2>2
  <1>10. OneMarked'
    <2>1. \A m \in Ids : need_remove'[m] => stage'[m] \in {"released", "free"}
      BY <1>4, <1>5 DEF ListInv, OneMarked, Bufs
    <2>2. ASSUME NEW j \in S, NEW k \in S, need_remove'[list[j]], need_remove'[list[k]]
          PROVE  j = k
      <3>a. /\ j \in DOMAIN list /\ k \in DOMAIN list /\ q \in DOMAIN list
            /\ j \in Int /\ k \in Int /\ q \in Int /\ Len(list) \in Int
            /\ j <= Len(list) /\ k <= Len(list)
        BY <1>2, <1>5
      <3>b. /\ j <= q /\ (need_remove[list[j]] \/ j = q) => j = Len(list)
            /\ k <= q /\ (need_remove[list[k]] \/ k = q) => k = Len(list)
        BY <1>5, <3>a
      <3>1. /\ j = q \/ need_remove[list[j]]
            /\ k = q \/ need_remove[list[k]]
        BY <1>2, <1>5, <2>2, <3>a DEF ListInv, ListOnce
      <3>2. CASE j = q /\ k # q
        <4>1. q = Len(list)
          BY <3>a, <3>b, <3>2
        <4> QED
          BY <3>a, <3>b, <3>1, <3>2, <4>1
      <3>3. CASE j # q /\ k = q
        <4>1. q = Len(list)
          BY <3>a, <3>b, <3>3
        <4> QED
          BY <3>a, <3>b, <3>1, <3>3, <4>1
      <3>4. CASE j # q /\ k # q
        BY <3>a, <3>1, <3>4 DEF ListInv, OneMarked
      <3> QED
        BY <3>2, <3>3, <3>4
    <2>3. \A i, k \in DOMAIN list' :
            need_remove'[list'[i]] /\ need_remove'[list'[k]] => i = k
      BY <1>3, <2>2
    <2> QED
      BY <2>1, <2>3 DEF OneMarked
  <1>11. OneInSection'
    <2> SUFFICES ASSUME NEW m \in Ids PROVE stage'[m] \in Sections <=> sem' = m
      BY DEF OneInSection
    <2>1. stage'[m] \in {"free", "released"} \/ stage'[m] = stage[m]
      BY <1>5 DEF Bufs
    <2>2. stage[m] \notin Sections /\ sem' # m
      BY <1>4 DEF ListInv, OneInSection, Ids, None
    <2> QED
      BY <2>1, <2>2 DEF Sections
  <1> QED
    BY <1>6, <1>7, <1>8, <1>9, <1>10, <1>11 DEF ListInv

(* The least-number principle: the first element that waits is a minimum.  *)
LEMMA NatSetHasMin ==
  ASSUME NEW S \in SUBSET Nat, S # {}
  PROVE  \E m \in S : \A n \in S : m <= n
  <1> DEFINE Less == {ss \in Nat \X Nat : ss[1] < ss[2]}
  <1>1. IsWellFoundedOn(Less, Nat)
    BY NatLessThanWellFounded DEF OpToRel
  <1>2. \A m, n \in Nat : n < m => <<n, m>> \in Less
    OBVIOUS
  <1> HIDE DEF Less
  <1>3. PICK m \in S : \A n \in S : <<n, m>> \notin Less
    BY <1>1, WFMin
  <1>4. \A n \in S : n \in Nat /\ m \in Nat /\ ~(n < m)
    BY <1>2, <1>3
  <1>5. ASSUME NEW n \in S PROVE m <= n
    <2>1. n \in Nat /\ m \in Nat /\ ~(n < m)
      BY <1>4
    <2> QED
      BY <2>1
  <1> QED
    BY <1>5

(* The place a high-priority buffer gets is behind the head.               *)
LEMMA InsertPositionInList ==
  ASSUME ListInv
  PROVE  /\ InsertPosition \in 2..(Len(list) + 1)
         /\ \A j \in DOMAIN list :
              j < InsertPosition => prio[list[j]] # "normal" \/ run_done[list[j]]
         /\ InsertPosition \in DOMAIN list =>
              prio[list[InsertPosition]] = "normal" /\ ~run_done[list[InsertPosition]]
  <1>1. Len(list) \in Nat \ {0} /\ DOMAIN list = 1..Len(list)
    BY ListPositions
  <1> DEFINE waiting == {j \in DOMAIN list :
                           prio[list[j]] = "normal" /\ ~run_done[list[j]]}
  <1>2. InsertPosition = IF waiting = {} THEN Len(list) + 1 ELSE Min(waiting)
    BY DEF InsertPosition
  <1>3. 1 \notin waiting
    BY DEF ListInv, KernelFirst
  <1>4. CASE waiting = {}
    BY <1>1, <1>2, <1>4
  <1>5. CASE waiting # {}
    <2>1. waiting \in SUBSET Nat
      BY <1>1
    <2>2. \E m \in waiting : \A k \in waiting : m <= k
      <3> HIDE DEF waiting
      <3> QED
        BY <1>5, <2>1, NatSetHasMin
    <2>3. Min(waiting) \in waiting /\ \A k \in waiting : Min(waiting) <= k
      <3> HIDE DEF waiting
      <3> QED
        BY <2>2 DEF Min
    <2>4. InsertPosition \in waiting /\ \A k \in waiting : InsertPosition <= k
      BY <1>2, <1>5, <2>3
    <2> QED
      BY <1>1, <1>3, <2>4
  <1> QED
    BY <1>4, <1>5

(* The hardware and the handler change neither the list nor a stage.       *)
LEMMA OthersKeepList ==
  ASSUME ListInv, UNCHANGED <<list, stage, need_remove, sem>>,
         run_done' \in [Bufs -> BOOLEAN], \A n \in Bufs : run_done[n] => run_done'[n]
  PROVE  ListInv'
  BY DEF ListInv, ListTypes, ListOnce, KernelFirst, ListedByStage, OneMarked, OneInSection,
     Bufs

(* The handler changes neither the list nor the stages of its buffers.     *)
LEMMA HandlerKeepsList ==
  ASSUME ListInv, Interrupt
  PROVE  ListInv'
  <1>1. UNCHANGED <<list, stage, need_remove, sem>>
    BY DEF Interrupt, IsrJmp, IsrReset, IsrAbort, IsrError, IsrTimeout, IsrCommon, listVars
  <1>2. ASSUME run_done' = run_done PROVE ListInv'
    BY <1>1, <1>2, OthersKeepList DEF ListInv, ListTypes
  <1>3. ASSUME NEW S, NEW F, NEW c, MarkDone(S, F, c) PROVE ListInv'
    <2>1. run_done' = [n \in Bufs |-> run_done[n] \/ n \in S]
      BY <1>3 DEF MarkDone
    <2>2. run_done' \in [Bufs -> BOOLEAN]
      BY <2>1 DEF ListInv, ListTypes
    <2>3. \A n \in Bufs : run_done[n] => run_done'[n]
      BY <2>1
    <2> QED
      BY <1>1, <2>2, <2>3, OthersKeepList
  <1>4. \/ run_done' = run_done
        \/ \E S, F, c : MarkDone(S, F, c)
    <2>1. CASE IsrJmp
      BY <2>1 DEF IsrJmp
    <2>2. CASE IsrReset
      BY <2>2 DEF IsrReset, doneVars
    <2>3. CASE IsrAbort
      BY <2>3 DEF IsrAbort, NotFound, doneVars
    <2>4. CASE IsrError
      BY <2>4 DEF IsrError, NotFound, doneVars
    <2>5. CASE IsrTimeout
      BY <2>5 DEF IsrTimeout, NotFound, doneVars
    <2> QED
      BY <2>1, <2>2, <2>3, <2>4, <2>5 DEF Interrupt
  <1> QED
    BY <1>2, <1>3, <1>4

(* Every step of a client moves one thread, and the list as it says.       *)
LEMMA ClientKeepsList ==
  ASSUME ListInv, NEW n \in Ids,
         (\E p \in Prios : Reserve(n, p)) \/ Client(n)
  PROVE  ListInv'
  <1>1. /\ n \in Bufs /\ KernelBuf \notin Ids /\ None \notin Ids
        /\ Len(list) \in Nat \ {0} /\ DOMAIN list = 1..Len(list)
        /\ list \in Seq(Bufs) /\ stage \in [Bufs -> Stages]
        /\ need_remove \in [Bufs -> BOOLEAN] /\ sem \in Ids \cup {None}
        /\ stage[n] \in Sections <=> sem = n
        /\ stage[n] \notin {"released", "free"} => ~need_remove[n]
    BY ListPositions
    DEF Bufs, Ids, KernelBuf, None, ListInv, ListTypes, OneInSection, OneMarked
  <1>2. ASSUME NEW p \in Prios, Reserve(n, p) PROVE ListInv'
    <2>1. /\ stage[n] = "free" /\ stage' = [stage EXCEPT ![n] = "reserved"]
          /\ need_remove' = [need_remove EXCEPT ![n] = FALSE]
          /\ run_done' = [run_done EXCEPT ![n] = FALSE]
          /\ UNCHANGED <<list, sem>>
      BY <1>2 DEF Reserve
    <2>2. \A m \in Bufs : /\ stage'[m] = IF m = n THEN "reserved" ELSE stage[m]
                          /\ need_remove'[m] <=> m # n /\ need_remove[m]
                          /\ m # n => (run_done'[m] <=> run_done[m])
      BY <1>1, <2>1 DEF ListInv, ListTypes
    <2>3. ListTypes'
      BY <1>1, <2>1 DEF ListInv, ListTypes, Stages
    <2>4. ListOnce' /\ KernelFirst'
      BY <1>1, <2>1, <2>2 DEF ListInv, ListOnce, KernelFirst, Bufs
    <2>5. ListedByStage'
      BY <2>1, <2>2 DEF ListInv, ListedByStage, Listed, Bufs
    <2>6. OneMarked'
      BY <1>1, <2>1, <2>2, ListPositions DEF ListInv, OneMarked, Bufs
    <2>7. OneInSection'
      BY <1>1, <2>1, <2>2 DEF ListInv, OneInSection, Sections, Bufs
    <2> QED
      BY <2>3, <2>4, <2>5, <2>6, <2>7 DEF ListInv
  <1>3. CASE SelectTail(n)
    <2>1. /\ stage[n] = "reserved" /\ sem = None /\ sem' = n
          /\ list' = Append(list, n) /\ stage' = [stage EXCEPT ![n] = "inserted"]
          /\ UNCHANGED <<run_done, need_remove>>
      BY <1>3 DEF SelectTail, doneVars
    <2>2. /\ list' \in Seq(Bufs) /\ Len(list') = Len(list) + 1
          /\ \A i \in 1..(Len(list) + 1) : list'[i] = IF i <= Len(list) THEN list[i] ELSE n
      BY <1>1, <2>1, AppendProperties
    <2>3. Len(list) + 1 \in 2..(Len(list) + 1)
          /\ HasInserted(list', list, Len(list) + 1, n)
      BY <1>1, <2>2 DEF HasInserted
    <2> QED
      BY <2>1, <2>2, <2>3, InsertKeepsList
  <1>4. CASE AbortWake(n)
    <2>1. /\ stage[n] = "aborting" /\ sem' = sem
          /\ list' = InsertAt(list, InsertPosition, n)
          /\ stage' = [stage EXCEPT ![n] = "inserted"]
          /\ UNCHANGED <<run_done, need_remove>>
      BY <1>4 DEF AbortWake, doneVars
    <2>2. PICK p : p = InsertPosition
      OBVIOUS
    <2>3. p \in 2..(Len(list) + 1) /\ p \in 1..(Len(list) + 1)
      BY <1>1, <2>2, InsertPositionInList
    <2>4. /\ list' \in Seq(Bufs) /\ Len(list') = Len(list) + 1
          /\ HasInserted(list', list, p, n)
      <3>1. list' = InsertAt(list, p, n)
        BY <2>1, <2>2
      <3>2. /\ InsertAt(list, p, n) \in Seq(Bufs)
            /\ Len(InsertAt(list, p, n)) = Len(list) + 1
            /\ HasInserted(InsertAt(list, p, n), list, p, n)
        BY <1>1, <2>3, InsertedElements
      <3> QED
        BY <3>1, <3>2
    <2>5. sem = n
      BY <1>1, <2>1 DEF Sections
    <2> QED
      BY <2>1, <2>3, <2>4, <2>5, InsertKeepsList
  <1>5. CASE SelectBusy(n)
    <2>1. /\ stage[n] = "reserved" /\ sem = None /\ sem' = n
          /\ stage' = [stage EXCEPT ![n] = "busy"]
          /\ UNCHANGED <<list, run_done, need_remove>>
      BY <1>5 DEF SelectBusy, listVars, doneVars
    <2>2. "busy" \in Stages /\ "busy" \in Sections /\ stage[n] \notin Listed /\ "busy" \notin Listed
      BY <2>1 DEF Listed, Sections, Stages
    <2>3. ~need_remove[n] /\ \A m \in Ids : m # n => (sem' = m <=> sem = m)
      BY <1>1, <2>1
    <2> QED
      BY <1>1, <2>1, <2>2, <2>3, StageMoves
  <1>6. ASSUME NEW t \in Stages, t \in Sections, stage[n] \in Sections,
               stage[n] \in Listed <=> t \in Listed,
               stage' = [stage EXCEPT ![n] = t],
               UNCHANGED <<list, run_done, need_remove, sem>>
        PROVE  ListInv'
    <2>1. stage[n] \notin {"released", "free"} /\ sem = n
      BY <1>1, <1>6 DEF Sections
    <2> QED
      BY <1>1, <1>6, <2>1, StageMoves
  <1>7. CASE AbortTrigger(n)
    <2>1. /\ stage[n] = "busy" /\ stage' = [stage EXCEPT ![n] = "abort"]
          /\ UNCHANGED <<list, run_done, need_remove, sem>>
      BY <1>7 DEF AbortTrigger, listVars, doneVars
    <2> QED
      BY <1>6, <2>1 DEF Listed, Sections, Stages
  <1>8. CASE AbortFlag(n)
    <2>1. /\ stage[n] = "abort" /\ stage' = [stage EXCEPT ![n] = "aborting"]
          /\ UNCHANGED <<list, run_done, need_remove, sem>>
      BY <1>8 DEF AbortFlag, listVars, doneVars
    <2> QED
      BY <1>6, <2>1 DEF Listed, Sections, Stages
  <1>9. CASE AbortInterrupted(n)
    <2>1. /\ stage[n] = "aborting" /\ stage' = [stage EXCEPT ![n] = "signalled"]
          /\ UNCHANGED <<list, run_done, need_remove, sem>>
      BY <1>9 DEF AbortInterrupted, listVars, doneVars
    <2> QED
      BY <1>6, <2>1 DEF Listed, Sections, Stages
  <1>10. CASE PatchAddresses(n)
    <2>1. /\ stage[n] = "inserted" /\ stage' = [stage EXCEPT ![n] = "patched"]
          /\ UNCHANGED <<list, run_done, need_remove, sem>>
      BY <1>10 DEF PatchAddresses, listVars, doneVars
    <2> QED
      BY <1>6, <2>1 DEF Listed, Sections, Stages
  <1>11. CASE LinkToRunning(n) \/ LinkAndStart(n)
    <2>1. /\ stage[n] = "patched" /\ stage' = [stage EXCEPT ![n] = "submitted"]
          /\ sem' = None /\ UNCHANGED <<list, run_done, need_remove>>
      BY <1>11 DEF LinkToRunning, LinkAndStart, LeaveSection, listVars, doneVars
    <2> QED
      BY <1>1, <2>1, StageMoves DEF Listed, Sections, Stages
  <1>12. CASE AbortGivenUp(n)
    <2>1. /\ stage[n] = "signalled" /\ stage' = [stage EXCEPT ![n] = "lost"]
          /\ sem' = None /\ UNCHANGED <<list, run_done, need_remove>>
      BY <1>12 DEF AbortGivenUp, listVars, doneVars
    <2> QED
      BY <1>1, <2>1, StageMoves DEF Listed, Sections, Stages
  <1>13. CASE Wait(n)
    <2>1. /\ stage[n] = "submitted" /\ stage' = [stage EXCEPT ![n] = "waited"]
          /\ UNCHANGED <<list, run_done, need_remove, sem>>
      BY <1>13 DEF Wait, listVars, doneVars
    <2> QED
      BY <1>1, <2>1, StageMoves DEF Listed, Sections, Stages
  <1>14. CASE SemInterrupted(n)
    <2>1. /\ stage[n] \in {"reserved", "waited"}
          /\ stage' = [stage EXCEPT ![n] = IF stage[n] = "reserved" THEN "lost" ELSE "leaked"]
          /\ UNCHANGED <<list, run_done, need_remove, sem>>
      BY <1>1, <1>14 DEF SemInterrupted, listVars, doneVars
    <2>2. PICK t \in {"lost", "leaked"} :
            stage' = [stage EXCEPT ![n] = t] /\ (t = "lost" <=> stage[n] = "reserved")
      BY <2>1
    <2>3. t \in Stages /\ t \notin Sections /\ (stage[n] \in Listed <=> t \in Listed)
          /\ stage[n] \notin Sections /\ ~need_remove[n]
      BY <1>1, <2>1, <2>2 DEF Listed, Sections, Stages
    <2> QED
      BY <1>1, <2>1, <2>2, <2>3, StageMoves
  <1>15. CASE release_cmdbuf(n)
    BY <1>15, ReleaseKeepsList
  <1> QED
    BY <1>2, <1>3, <1>4, <1>5, <1>7, <1>8, <1>9, <1>10, <1>11, <1>12, <1>13, <1>14, <1>15
    DEF Client, Submission

(* Each step, errors and signals included, keeps the list's invariant.     *)
LEMMA ListStep ==
  ASSUME ListInv, [Next]_vars
  PROVE  ListInv'
  <1>1. CASE UNCHANGED vars
    BY <1>1, OthersKeepList DEF vars, ListInv, ListTypes
  <1>2. CASE Hardware
    <2>1. UNCHANGED <<list, stage, need_remove, sem, run_done>>
      BY <1>2 DEF Hardware, HwFinish, HwAbort, HwFault, listVars, doneVars
    <2> QED
      BY <2>1, OthersKeepList DEF ListInv, ListTypes
  <1>3. CASE Interrupt
    BY <1>3, HandlerKeepsList
  <1>4. ASSUME NEW n \in Ids, (\E p \in Prios : Reserve(n, p)) \/ Client(n)
        PROVE  ListInv'
    BY <1>4, ClientKeepsList
  <1>5. Next => \/ Hardware \/ Interrupt
                \/ \E n \in Ids : (\E p \in Prios : Reserve(n, p)) \/ Client(n)
    BY DEF Next, CalmNext, Disturbance, Hardware, Interrupt, Client
  <1> QED
    BY <1>1, <1>2, <1>3, <1>4, <1>5

(* At first the list is the probe's buffer.                                *)
LEMMA ListInit == Init => ListInv
  <1> SUFFICES ASSUME Init PROVE ListInv
    OBVIOUS
  <1>1. KernelBuf \in Bufs /\ KernelBuf \notin Ids /\ None \notin Ids
    BY DEF KernelBuf, Bufs, Ids, None
  <1>2. /\ list \in Seq(Bufs) /\ Len(list) = 1 /\ DOMAIN list = {1} /\ list[1] = KernelBuf
    BY <1>1 DEF Init
  <1>3. \A n \in Bufs : /\ stage[n] = IF n = KernelBuf THEN "waited" ELSE "free"
                        /\ ~need_remove[n] /\ (run_done[n] <=> n = KernelBuf)
    BY DEF Init
  <1>4. ListTypes
    BY <1>2 DEF Init, ListTypes, Stages
  <1>5. ListOnce /\ KernelFirst
    BY <1>1, <1>2, <1>3 DEF ListOnce, KernelFirst
  <1>6. ListedByStage
    BY <1>1, <1>2, <1>3 DEF ListedByStage, Listed, Bufs
  <1>7. OneMarked
    BY <1>2, <1>3 DEF OneMarked, Bufs
  <1>8. OneInSection
    <2>1. sem = None
      BY DEF Init
    <2> QED
      BY <1>1, <1>3, <2>1 DEF OneInSection, Sections, Bufs
  <1> QED
    BY <1>4, <1>5, <1>6, <1>7, <1>8 DEF ListInv

(* The list is sound whatever happens to a core: signals, aborts, errors,  *)
(* timeouts and resets.                                                    *)
THEOREM ListInvariant == Spec => []ListInv
  BY ListInit, ListStep, PTL DEF Spec

(* OneReleasedNode: release_cmdbuf cannot free the last node of the list;  *)
(* the next release behind it does, so a core keeps at most one slot whose *)
(* buffer is released.                                                     *)
THEOREM OneSlotKept == Spec => []OneReleasedNode
  <1>1. ASSUME ListInv PROVE OneReleasedNode
    <2> DEFINE M == {j \in DOMAIN list : need_remove[list[j]]}
    <2>1. \A i, j \in M : i = j
      BY <1>1 DEF ListInv, OneMarked
    <2>2. M = {} \/ \E j : M = {j}
      <3> HIDE DEF M
      <3> QED
        BY <2>1
    <2>3. Cardinality(M) \in {0, 1}
      <3> HIDE DEF M
      <3> QED
        BY <2>2, FS_EmptySet, FS_Singleton
    <2> QED
      BY <2>3 DEF OneReleasedNode
  <1> QED
    BY <1>1, ListInvariant, PTL
-----------------------------------------------------------------------------
(* The chain, without signals and errors.                                  *)

HwStates == [phase : {"off", "exec", "pend"}, cur : Bufs, exe : Nat, rdy : Nat,
             abort : BOOLEAN]

ChainTypes ==
    /\ prio \in [Bufs -> {"normal", "high"}]
    /\ status = [n \in Bufs |-> "OK"]
    /\ linked \in [Bufs -> BOOLEAN] /\ patched \in [Bufs -> BOOLEAN]
    /\ jmp \in [Bufs -> Bufs \cup {None}]
    /\ working \in BOOLEAN /\ sw_abort \in BOOLEAN /\ sw_rdy \in Nat
    /\ ddr_id \in Bufs /\ ddr_exe \in Nat
    /\ hw \in HwStates
    /\ irq \subseteq {"JMP", "ABORT"}
    /\ ran \subseteq Bufs

(* What the stage of a buffer says of it.                                  *)
Unlinked == {"reserved", "busy", "abort", "aborting", "inserted", "patched"}
StageTells(n) ==
    /\ run_done[n] => n \in ran
    /\ stage[n] \in Unlinked => ~linked[n] /\ ~run_done[n] /\ n \notin ran
    /\ stage[n] \in {"waited", "released"} => run_done[n]
    /\ stage[n] \in {"patched", "submitted", "waited", "released"} => patched[n]
    /\ stage[n] \in {"busy", "abort", "aborting"} => prio[n] = "high"
    /\ stage[n] \notin {"signalled", "lost", "leaked"}
Buffers == \A n \in Bufs : StageTells(n)

(* The handler has an abort to handle exactly when the hardware has        *)
(* stopped under a driver that takes it for working.                       *)
Idle ==
    /\ "ABORT" \in irq <=> hw.phase = "off" /\ working
    /\ hw.phase = "off" => ~hw.abort
    /\ ~working => hw.phase = "off" /\ irq = {}

(* Three positions cut the list: the hardware is at c, what is done ends   *)
(* at d, what is linked ends at l.                                         *)
Passed(c) == IF hw.phase = "exec" THEN c - 1 ELSE c

InOrder(c, d, l) ==
    /\ c \in DOMAIN list /\ d \in DOMAIN list /\ l \in DOMAIN list
    /\ d <= Passed(c) /\ c <= l
    /\ hw.cur = list[c]

Cut(c, d, l) ==
    \A j \in DOMAIN list :
        /\ linked[list[j]] <=> j <= l
        /\ list[j] \in ran <=> j <= Passed(c)
        /\ run_done[list[j]] <=> j <= d
        /\ j <= l => patched[list[j]]

Chained(c, l) ==
    hw.phase # "off" =>
        /\ sw_rdy = hw.rdy /\ hw.rdy - hw.exe = l - Passed(c)
        /\ \A j \in DOMAIN list : c < j /\ j <= l => jmp[list[j - 1]] = list[j]
        /\ hw.phase = "pend" => l = c

Told(c, d) == "JMP" \in irq => ddr_id = list[Passed(c)] /\ d < Passed(c)

Rested(c, d, l) == ~working => sw_rdy = 0 /\ c = l /\ d = l

(* What the holder of the semaphore, or its absence, says of the core.     *)
Held(l) ==
    /\ sem = None \/ stage[sem] = "busy" =>
            /\ l = Len(list)
            /\ working /\ hw.phase # "off" /\ ~hw.abort
    /\ sem # None /\ stage[sem] \in {"abort", "aborting"} => (working => l = Len(list))
    /\ sem # None /\ stage[sem] \in {"inserted", "patched"} =>
            /\ ~hw.abort /\ l < Len(list)
            /\ working => /\ hw.phase # "off" /\ l = Len(list) - 1
                          /\ list[Len(list)] = sem

Core(c, d, l) ==
    InOrder(c, d, l) /\ Cut(c, d, l) /\ Chained(c, l) /\ Told(c, d) /\ Rested(c, d, l)
Shape == \E c, d, l : Core(c, d, l) /\ Held(l)

ChainInv == ListInv /\ ChainTypes /\ Buffers /\ Idle /\ Shape

(* What the steps of the proof look up again and again.                    *)
LEMMA ChainFacts ==
  ASSUME ChainInv
  PROVE  /\ Len(list) \in Nat \ {0} /\ DOMAIN list = 1..Len(list) /\ list \in Seq(Bufs)
         /\ \A j \in DOMAIN list : list[j] \in Bufs
         /\ \A i, j \in DOMAIN list : list[i] = list[j] => i = j
         /\ KernelBuf \notin Ids /\ None \notin Bufs /\ None \notin Ids /\ Ids \subseteq Bufs
         /\ KernelBuf \in Bufs /\ Bufs = Ids \cup {KernelBuf}
         /\ list[1] = KernelBuf /\ stage[KernelBuf] = "waited"
         /\ \A n \in Ids : (\E j \in DOMAIN list : list[j] = n) <=> stage[n] \in Listed
         /\ stage \in [Bufs -> Stages] /\ run_done \in [Bufs -> BOOLEAN]
         /\ sem \in Ids \cup {None} /\ \A n \in Ids : stage[n] \in Sections <=> sem = n
         /\ hw.phase \in {"off", "exec", "pend"} /\ hw.cur \in Bufs
         /\ hw.exe \in Nat /\ hw.rdy \in Nat /\ hw.abort \in BOOLEAN
  BY ListPositions DEF ChainInv, ListInv, ListTypes, ListOnce, KernelFirst, ListedByStage,
     OneInSection, ChainTypes, HwStates, Bufs, Ids, None, KernelBuf

(* A step that leaves the core alone.                                      *)
LEMMA CoreKept ==
  ASSUME NEW c, NEW d, NEW l, Core(c, d, l),
         UNCHANGED <<list, linked, run_done, ran, jmp, sw_rdy, working, ddr_id, hw, irq>>,
         \A j \in DOMAIN list : patched[list[j]] => patched'[list[j]]
  PROVE  Core(c, d, l)'
  BY DEF Core, InOrder, Cut, Chained, Told, Rested, Passed

(* select_vcmd waits, patches and sleeps: the core is as it was.           *)
LEMMA StageStep ==
  ASSUME ChainInv, ListInv', NEW n \in Ids,
         SelectBusy(n) \/ AbortFlag(n) \/ PatchAddresses(n) \/ Wait(n)
  PROVE  ChainInv'
  <1>1. PICK c, d, l : Core(c, d, l) /\ Held(l)
    BY DEF ChainInv, Shape
  <1>2. UNCHANGED <<type, list, prio, linked, run_done, status, ran, jmp, sw_rdy, working,
                    ddr_id, ddr_exe, hw, irq>>
    BY DEF SelectBusy, AbortFlag, PatchAddresses, Wait, listVars, linkVars, doneVars,
           ddrVars
  <1>3. /\ sw_abort' \in BOOLEAN /\ patched' \in [Bufs -> BOOLEAN]
        /\ \A m \in Bufs : patched[m] => patched'[m]
    BY DEF SelectBusy, AbortFlag, PatchAddresses, Wait, ChainInv, ChainTypes
  <1>4. ChainTypes'
    BY <1>2, <1>3 DEF ChainInv, ChainTypes
  <1>5. Idle'
    BY <1>2 DEF ChainInv, Idle
  <1>6. Core(c, d, l)'
    BY <1>1, <1>2, <1>3, ChainFacts, CoreKept
  <1>7. ASSUME NEW t \in Stages, stage' = [stage EXCEPT ![n] = t],
               t \in Unlinked => stage[n] \in Unlinked,
               t \in {"waited", "released"} => run_done[n],
               t \in {"patched", "submitted", "waited", "released"} => patched'[n],
               t \in {"busy", "abort", "aborting"} => prio[n] = "high",
               t \notin {"signalled", "lost", "leaked"}
        PROVE  Buffers'
    <2> SUFFICES ASSUME NEW m \in Bufs PROVE StageTells(m)'
      BY DEF Buffers
    <2>1. StageTells(m)
      BY DEF ChainInv, Buffers
    <2>2. stage'[m] = IF m = n THEN t ELSE stage[m]
      BY <1>7, ChainFacts
    <2>3. CASE m = n
      BY <1>2, <1>7, <2>1, <2>2, <2>3 DEF StageTells
    <2>4. CASE m # n
      BY <1>2, <1>3, <2>1, <2>2, <2>4 DEF StageTells
    <2> QED
      BY <2>3, <2>4
  <1>8. CASE SelectBusy(n)
    <2>1. /\ stage[n] = "reserved" /\ sem = None /\ sem' = n /\ prio[n] = "high"
          /\ stage' = [stage EXCEPT ![n] = "busy"]
      BY <1>8 DEF SelectBusy
    <2>2. Buffers'
      BY <1>7, <2>1 DEF Unlinked, Stages
    <2>3. stage'[n] = "busy"
      BY <2>1, ChainFacts
    <2>4. Held(l)'
      BY <1>1, <1>2, <2>1, <2>3, ChainFacts DEF Held
    <2> QED
      BY <1>4, <1>5, <1>6, <2>2, <2>4 DEF ChainInv, Shape
  <1>9. CASE AbortFlag(n)
    <2>1. /\ stage[n] = "abort" /\ sem' = sem /\ stage' = [stage EXCEPT ![n] = "aborting"]
      BY <1>9 DEF AbortFlag
    <2>2. StageTells(n) /\ sem = n
      BY <2>1, ChainFacts DEF ChainInv, Buffers, Sections
    <2>3. Buffers'
      BY <1>7, <2>1, <2>2 DEF Unlinked, Stages, StageTells
    <2>4. stage'[n] = "aborting"
      BY <2>1, ChainFacts
    <2>5. Held(l)'
      BY <1>1, <1>2, <2>1, <2>2, <2>4, ChainFacts DEF Held
    <2> QED
      BY <1>4, <1>5, <1>6, <2>3, <2>5 DEF ChainInv, Shape
  <1>10. CASE PatchAddresses(n)
    <2>1. /\ stage[n] = "inserted" /\ sem' = sem /\ stage' = [stage EXCEPT ![n] = "patched"]
          /\ patched' = [patched EXCEPT ![n] = TRUE]
      BY <1>10 DEF PatchAddresses
    <2>2. sem = n /\ patched'[n]
      BY <2>1, ChainFacts DEF ChainInv, ChainTypes, Sections
    <2>3. Buffers'
      BY <1>7, <2>1, <2>2 DEF Unlinked, Stages
    <2>4. stage'[n] = "patched"
      BY <2>1, ChainFacts
    <2>5. Held(l)'
      BY <1>1, <1>2, <2>1, <2>2, <2>4, ChainFacts DEF Held
    <2> QED
      BY <1>4, <1>5, <1>6, <2>3, <2>5 DEF ChainInv, Shape
  <1>11. CASE Wait(n)
    <2>1. /\ stage[n] = "submitted" /\ sem' = sem /\ run_done[n]
          /\ stage' = [stage EXCEPT ![n] = "waited"]
      BY <1>11 DEF Wait
    <2>2. sem # n
      BY <2>1, ChainFacts DEF Sections
    <2>a. patched'[n]
      BY <1>3, <2>1, ChainFacts DEF ChainInv, Buffers, StageTells
    <2>3. Buffers'
      BY <1>7, <2>1, <2>a DEF Unlinked, Stages
    <2>4. sem # None => stage'[sem] = stage[sem]
      BY <2>1, <2>2, ChainFacts
    <2>5. Held(l)'
      BY <1>1, <1>2, <2>1, <2>4, ChainFacts DEF Held
    <2> QED
      BY <1>4, <1>5, <1>6, <2>3, <2>5 DEF ChainInv, Shape
  <1> QED
    BY <1>8, <1>9, <1>10, <1>11

(* A slot that is handed out is in no list.                                *)
LEMMA ReserveStep ==
  ASSUME ChainInv, ListInv', NEW n \in Ids, NEW p \in Prios, Reserve(n, p)
  PROVE  ChainInv'
  <1>1. PICK c, d, l : Core(c, d, l) /\ Held(l)
    BY DEF ChainInv, Shape
  <1>2. /\ stage[n] = "free" /\ stage' = [stage EXCEPT ![n] = "reserved"]
        /\ prio' = [prio EXCEPT ![n] = p] /\ linked' = [linked EXCEPT ![n] = FALSE]
        /\ run_done' = [run_done EXCEPT ![n] = FALSE]
        /\ status' = [status EXCEPT ![n] = "OK"]
        /\ jmp' = [jmp EXCEPT ![n] = None] /\ patched' = [patched EXCEPT ![n] = FALSE]
        /\ ran' = ran \ {n}
        /\ UNCHANGED <<list, sem, working, sw_rdy, sw_abort, ddr_id, ddr_exe, hw, irq>>
    BY DEF Reserve
  <1>3. n \in Bufs /\ \A j \in DOMAIN list : list[j] # n /\ list[j] \in Bufs
    BY <1>2, ChainFacts DEF Listed
  <1>4. \A m \in Bufs :
          /\ stage'[m] = IF m = n THEN "reserved" ELSE stage[m]
          /\ linked'[m] <=> m # n /\ linked[m]
          /\ run_done'[m] <=> m # n /\ run_done[m]
          /\ patched'[m] <=> m # n /\ patched[m]
          /\ m # n => jmp'[m] = jmp[m] /\ prio'[m] = prio[m]
    BY <1>2, ChainFacts DEF ChainInv, ChainTypes
  <1>5. ChainTypes'
    <2>1. /\ prio' \in [Bufs -> {"normal", "high"}]
          /\ linked' \in [Bufs -> BOOLEAN] /\ patched' \in [Bufs -> BOOLEAN]
          /\ jmp' \in [Bufs -> Bufs \cup {None}]
      BY <1>2, QueueAssumption DEF ChainInv, ChainTypes
    <2>2. status' = [m \in Bufs |-> "OK"]
      BY <1>2 DEF ChainInv, ChainTypes
    <2> QED
      BY <1>2, <2>1, <2>2 DEF ChainInv, ChainTypes
  <1>6. Buffers'
    <2> SUFFICES ASSUME NEW m \in Bufs PROVE StageTells(m)'
      BY DEF Buffers
    <2>1. StageTells(m)
      BY DEF ChainInv, Buffers
    <2>2. CASE m = n
      BY <1>2, <1>4, <2>2 DEF StageTells
    <2>3. CASE m # n
      BY <1>2, <1>4, <2>1, <2>3 DEF StageTells
    <2> QED
      BY <2>2, <2>3
  <1>7. Idle'
    BY <1>2 DEF ChainInv, Idle
  <1>8. InOrder(c, d, l)'
    BY <1>1, <1>2 DEF Core, InOrder, Passed
  <1>9. Cut(c, d, l)'
    BY <1>1, <1>2, <1>3, <1>4 DEF Core, Cut, Passed
  <1>10. Chained(c, l)'
    <2>1. c \in DOMAIN list
      BY <1>1 DEF Core, InOrder
    <2>2. \A j \in DOMAIN list : c < j => j - 1 \in DOMAIN list
      BY <2>1, ChainFacts
    <2>3. \A j \in DOMAIN list : c < j => jmp'[list[j - 1]] = jmp[list[j - 1]]
      BY <1>3, <1>4, <2>2
    <2> QED
      BY <1>1, <1>2, <2>3 DEF Core, Chained, Passed
  <1>11. Told(c, d)' /\ Rested(c, d, l)'
    BY <1>1, <1>2 DEF Core, Told, Rested, Passed
  <1>12. Held(l)'
    <2>1. sem # n
      BY <1>2, ChainFacts DEF Sections
    <2>2. sem # None => stage'[sem] = stage[sem]
      BY <1>2, <2>1, ChainFacts
    <2> QED
      BY <1>1, <1>2, <2>2, ChainFacts DEF Held
  <1> QED
    BY <1>5, <1>6, <1>7, <1>8, <1>9, <1>10, <1>11, <1>12 DEF ChainInv, Core, Shape

(* The hardware is told to abort: it runs, or waits at a JMP.              *)
LEMMA AbortTriggerStep ==
  ASSUME ChainInv, ListInv', NEW n \in Ids, AbortTrigger(n)
  PROVE  ChainInv'
  <1>1. PICK c, d, l : Core(c, d, l) /\ Held(l)
    BY DEF ChainInv, Shape
  <1>2. /\ stage[n] = "busy" /\ stage' = [stage EXCEPT ![n] = "abort"]
        /\ hw' = [hw EXCEPT !.abort = (hw.phase # "off")]
        /\ UNCHANGED <<list, sem, prio, linked, run_done, status, jmp, patched, ran, working,
                       sw_rdy, sw_abort, ddr_id, ddr_exe, irq>>
    BY DEF AbortTrigger, listVars, linkVars, doneVars, ddrVars
  <1>3. sem = n
    BY <1>2, ChainFacts DEF Sections
  <1>4. working /\ hw.phase # "off" /\ l = Len(list)
    BY <1>1, <1>2, <1>3 DEF Held
  <1>5. /\ hw' \in HwStates /\ hw'.phase = hw.phase /\ hw'.cur = hw.cur
        /\ hw'.exe = hw.exe /\ hw'.rdy = hw.rdy
    BY <1>2, <1>4 DEF ChainInv, ChainTypes, HwStates
  <1>6. \A m \in Bufs : stage'[m] = IF m = n THEN "abort" ELSE stage[m]
    BY <1>2, ChainFacts
  <1>7. ChainTypes'
    BY <1>2, <1>5 DEF ChainInv, ChainTypes
  <1>8. Buffers'
    <2> SUFFICES ASSUME NEW m \in Bufs PROVE StageTells(m)'
      BY DEF Buffers
    <2>1. StageTells(m)
      BY DEF ChainInv, Buffers
    <2> QED
      BY <1>2, <1>6, <2>1 DEF StageTells, Unlinked
  <1>9. Idle'
    BY <1>2, <1>4, <1>5 DEF ChainInv, Idle
  <1>10. Core(c, d, l)'
    BY <1>1, <1>2, <1>4, <1>5 DEF Core, InOrder, Cut, Chained, Told, Rested, Passed
  <1>11. Held(l)'
    BY <1>2, <1>3, <1>4, <1>6, ChainFacts DEF Held
  <1> QED
    BY <1>7, <1>8, <1>9, <1>10, <1>11 DEF ChainInv, Shape
-----------------------------------------------------------------------------
(* The hardware and the handler, without signals and errors.               *)

LEMMA PositionOf ==
  ASSUME ChainInv, NEW j \in DOMAIN list
  PROVE  /\ InList(list[j]) /\ Position(list[j]) = j
         /\ InTable(list[j])
  <1>1. Position(list[j]) = j
    BY ChainFacts DEF Position
  <1>2. InList(list[j])
    BY DEF InList, Range
  <1>3. InTable(list[j])
    <2>1. CASE list[j] \in Ids
      BY <2>1, ChainFacts DEF InTable, Listed
    <2>2. CASE list[j] = KernelBuf
      BY <2>2, ChainFacts DEF InTable
    <2> QED
      BY <2>1, <2>2, ChainFacts
  <1> QED
    BY <1>1, <1>2, <1>3

(* A walk back from position q reports what lies behind d.                 *)
LEMMA CompletedBehind ==
  ASSUME ChainInv, NEW c, NEW d, NEW l, Core(c, d, l), NEW q \in DOMAIN list, d <= q
  PROVE  /\ \A j \in DOMAIN list : list[j] \in Completed(list[q]) <=> d < j /\ j <= q
         /\ \A n \in Completed(list[q]) : \E j \in DOMAIN list : list[j] = n
  <1>1. /\ d \in DOMAIN list /\ DOMAIN list = 1..Len(list) /\ Len(list) \in Nat
        /\ \A j \in DOMAIN list : run_done[list[j]] <=> j <= d
    BY ChainFacts DEF Core, InOrder, Cut
  <1>2. CASE run_done[list[q]]
    <2>1. Completed(list[q]) = {}
      BY <1>2 DEF Completed
    <2>2. q <= d
      BY <1>1, <1>2
    <2> QED
      BY <1>1, <2>1, <2>2
  <1>3. CASE ~run_done[list[q]]
    <2>1. Completed(list[q]) = {list[j] : j \in {i \in 1..q :
                                  \A m \in i..q : ~run_done[list[m]]}}
      BY <1>3, PositionOf DEF Completed
    <2>2. d < q
      BY <1>1, <1>3
    <2>3. \A i \in 1..q : (\A m \in i..q : ~run_done[list[m]]) <=> d < i
      <3> TAKE i \in 1..q
      <3>1. ASSUME d < i, NEW m \in i..q PROVE ~run_done[list[m]]
        <4>1. m \in DOMAIN list /\ ~(m <= d)
          BY <1>1, <3>1
        <4> QED
          BY <1>1, <4>1
      <3>2. ASSUME ~(d < i) PROVE \E m \in i..q : run_done[list[m]]
        <4>1. d \in i..q /\ d <= d
          BY <1>1, <2>2, <3>2
        <4> QED
          BY <1>1, <4>1
      <3> QED
        BY <3>1, <3>2
    <2>4. \A n : n \in Completed(list[q]) <=> \E i \in 1..q : d < i /\ n = list[i]
      <3>1. \A n : n \in Completed(list[q]) <=>
                \E i \in 1..q : (\A m \in i..q : ~run_done[list[m]]) /\ n = list[i]
        BY <2>1
      <3> QED
        BY <2>3, <3>1
    <2>5. \A i \in 1..q : i \in DOMAIN list
      BY <1>1
    <2>6. ASSUME NEW j \in DOMAIN list
          PROVE  list[j] \in Completed(list[q]) <=> d < j /\ j <= q
      <3>1. \A i \in 1..q : list[j] = list[i] => i = j
        BY <2>5, ChainFacts
      <3>2. j \in 1..q <=> j <= q
        BY <1>1
      <3> QED
        BY <2>4, <3>1, <3>2
    <2> QED
      BY <2>4, <2>5, <2>6
  <1> QED
    BY <1>2, <1>3

(* The flags after such a walk, from where the hardware has passed.        *)
LEMMA MarkedBehind ==
  ASSUME ChainInv, NEW c, NEW d, NEW l, Core(c, d, l), NEW q \in DOMAIN list, d <= q,
         q <= Passed(c), UNCHANGED <<list, stage, ran, patched, prio>>,
         \A n \in Bufs : linked'[n] => linked[n] \/ stage[n] \notin Unlinked,
         MarkDone(Completed(list[q]), {}, "OK")
  PROVE  /\ status' = [n \in Bufs |-> "OK"] /\ run_done' \in [Bufs -> BOOLEAN]
         /\ \A j \in DOMAIN list : run_done'[list[j]] <=> j <= q
         /\ Buffers'
  <1>1. /\ run_done' = [n \in Bufs |-> run_done[n] \/ n \in Completed(list[q])]
        /\ status' = [n \in Bufs |-> "OK"]
    <2>1. status' = [n \in Bufs |-> IF n \in {} THEN "OK"
                                    ELSE IF n \in Completed(list[q]) THEN "OK"
                                    ELSE status[n]]
      BY DEF MarkDone
    <2>2. \A n \in Bufs : status[n] = "OK"
      BY DEF ChainInv, ChainTypes
    <2> QED
      BY <2>1, <2>2 DEF MarkDone
  <1>2. run_done' \in [Bufs -> BOOLEAN]
        /\ \A n \in Bufs : run_done'[n] <=> run_done[n] \/ n \in Completed(list[q])
    BY <1>1, ChainFacts
  <1>3. /\ d \in DOMAIN list /\ DOMAIN list = 1..Len(list) /\ Len(list) \in Nat
        /\ \A j \in DOMAIN list : /\ run_done[list[j]] <=> j <= d
                                  /\ linked[list[j]] <=> j <= l
                                  /\ list[j] \in ran <=> j <= Passed(c)
                                  /\ list[j] \in Bufs
        /\ Passed(c) <= l /\ Passed(c) \in Int /\ l \in Int
    <2>1. /\ c \in DOMAIN list /\ l \in DOMAIN list /\ c <= l
      BY DEF Core, InOrder
    <2> QED
      BY <2>1, ChainFacts DEF Core, InOrder, Cut, Passed
  <1>4. \A j \in DOMAIN list : run_done'[list[j]] <=> j <= q
    <2> TAKE j \in DOMAIN list
    <2>1. list[j] \in Completed(list[q]) <=> d < j /\ j <= q
      BY CompletedBehind
    <2> QED
      BY <1>2, <1>3, <2>1
  <1>5. Buffers'
    <2> SUFFICES ASSUME NEW n \in Bufs PROVE StageTells(n)'
      BY DEF Buffers
    <2>1. StageTells(n)
      BY DEF ChainInv, Buffers
    <2>2. CASE n \notin Completed(list[q])
      BY <1>2, <2>1, <2>2 DEF StageTells
    <2>3. CASE n \in Completed(list[q])
      <3>1. PICK j \in DOMAIN list : list[j] = n
        BY <2>3, CompletedBehind
      <3>2. d < j /\ j <= q
        BY <2>3, <3>1, CompletedBehind
      <3>3. linked[n] /\ n \in ran
        BY <1>3, <3>1, <3>2
      <3> QED
        BY <1>2, <2>1, <3>3 DEF StageTells
    <2> QED
      BY <2>2, <2>3
  <1> QED
    BY <1>1, <1>2, <1>4, <1>5

(* The id a JMP interrupt finds in memory is that of the last buffer the   *)
(* hardware has passed.                                                    *)
LEMMA JmpReports ==
  ASSUME ChainInv, IsrJmp
  PROVE  \E c, d, l : /\ Core(c, d, l) /\ Held(l)
                      /\ Passed(c) \in DOMAIN list /\ d < Passed(c)
                      /\ ddr_id = list[Passed(c)]
                      /\ MarkDone(Completed(list[Passed(c)]), {}, "OK")
  <1>1. PICK c, d, l : Core(c, d, l) /\ Held(l)
    BY DEF ChainInv, Shape
  <1>2. ddr_id = list[Passed(c)] /\ d < Passed(c)
    BY <1>1 DEF Core, Told, IsrJmp
  <1>3. Passed(c) \in DOMAIN list
    BY <1>1, <1>2, ChainFacts DEF Core, InOrder, Passed
  <1>4. MarkDone(Completed(list[Passed(c)]), {}, "OK")
    BY <1>2, <1>3, PositionOf DEF IsrJmp
  <1> QED
    BY <1>1, <1>2, <1>3, <1>4

(* What an interrupt reports moves d up to what the hardware has passed.   *)
LEMMA JmpStep ==
  ASSUME ChainInv, ListInv', IsrJmp
  PROVE  ChainInv'
  <1>1. PICK c, d, l :
          /\ Core(c, d, l) /\ Held(l)
          /\ Passed(c) \in DOMAIN list /\ d < Passed(c)
          /\ MarkDone(Completed(list[Passed(c)]), {}, "OK")
    BY JmpReports
  <1>2. /\ irq = {"JMP"} /\ irq' = {}
        /\ UNCHANGED <<list, stage, prio, linked, jmp, patched, sem, working, sw_rdy,
                       sw_abort, ddr_id, ddr_exe, hw, ran>>
    BY DEF IsrJmp, IsrCommon, listVars, linkVars, ddrVars
  <1>3. PICK q : q = Passed(c)
    OBVIOUS
  <1>4. /\ q \in DOMAIN list /\ q <= q /\ d <= q /\ d \in Int /\ q \in Int
    BY <1>1, <1>3, ChainFacts DEF Core, InOrder
  <1>5. /\ status' = [n \in Bufs |-> "OK"] /\ run_done' \in [Bufs -> BOOLEAN]
        /\ \A j \in DOMAIN list : run_done'[list[j]] <=> j <= q
        /\ Buffers'
    BY <1>1, <1>2, <1>3, <1>4, MarkedBehind
  <1>6. ChainTypes'
    BY <1>2, <1>5 DEF ChainInv, ChainTypes
  <1>7. working
    BY <1>2 DEF ChainInv, Idle
  <1>8. Idle'
    BY <1>2, <1>7 DEF ChainInv, Idle
  <1>9. Core(c, q, l)'
    BY <1>1, <1>2, <1>3, <1>4, <1>5, <1>7
    DEF Core, InOrder, Cut, Chained, Told, Rested, Passed
  <1>10. Held(l)'
    BY <1>1, <1>2 DEF Held
  <1> QED
    BY <1>5, <1>6, <1>8, <1>9, <1>10 DEF ChainInv, Shape

(* The hardware stops at c and has an abort to tell of.                    *)
LEMMA HwAbortStep ==
  ASSUME ChainInv, ListInv', HwAbort
  PROVE  ChainInv'
  <1>1. PICK c, d, l : Core(c, d, l) /\ Held(l)
    BY DEF ChainInv, Shape
  <1>2. /\ hw.phase = "pend" /\ hw.abort /\ irq' = irq \cup {"ABORT"}
        /\ hw' = [hw EXCEPT !.phase = "off", !.abort = FALSE]
        /\ UNCHANGED <<list, stage, prio, linked, jmp, patched, sem, working, sw_rdy,
                       sw_abort, ddr_id, ddr_exe, ran, run_done, status>>
    BY DEF HwAbort, listVars, linkVars, ddrVars, doneVars
  <1>3. /\ hw' \in HwStates /\ hw'.phase = "off" /\ hw'.cur = hw.cur /\ ~hw'.abort
    BY <1>2 DEF ChainInv, ChainTypes, HwStates
  <1>4. working
    BY <1>2 DEF ChainInv, Idle
  <1>5. ChainTypes'
    BY <1>2, <1>3 DEF ChainInv, ChainTypes
  <1>6. Buffers'
    BY <1>2 DEF ChainInv, Buffers, StageTells
  <1>7. Idle'
    BY <1>2, <1>3, <1>4 DEF ChainInv, Idle
  <1>8. Core(c, d, l)'
    BY <1>1, <1>2, <1>3, <1>4 DEF Core, InOrder, Cut, Chained, Told, Rested, Passed
  <1>9. Held(l)'
    BY <1>1, <1>2, <1>3 DEF Held
  <1> QED
    BY <1>5, <1>6, <1>7, <1>8, <1>9 DEF ChainInv, Shape

(* The hardware ends a buffer, and stops, goes on, or waits at its JMP.    *)
LEMMA HwFinishStep ==
  ASSUME ChainInv, ListInv', HwFinish
  PROVE  ChainInv'
  <1>1. PICK c, d, l : Core(c, d, l) /\ Held(l)
    BY DEF ChainInv, Shape
  <1>2. /\ hw.phase = "exec" /\ ran' = ran \cup {hw.cur}
        /\ UNCHANGED <<list, stage, prio, linked, jmp, patched, sem, working, sw_rdy,
                       sw_abort, run_done, status>>
    BY DEF HwFinish, listVars, linkVars, doneVars
  <1>3. /\ c \in DOMAIN list /\ d \in DOMAIN list /\ l \in DOMAIN list
        /\ c \in Nat /\ d \in Nat /\ l \in Nat /\ 1 <= d /\ d <= c - 1 /\ c <= l
        /\ hw.cur = list[c] /\ l <= Len(list) /\ Passed(c) = c - 1
    BY <1>1, <1>2, ChainFacts DEF Core, InOrder, Passed
  <1>4. \A j \in DOMAIN list :
          /\ linked[list[j]] <=> j <= l
          /\ list[j] \in ran <=> j <= c - 1
          /\ run_done[list[j]] <=> j <= d
          /\ j <= l => patched[list[j]]
    BY <1>1, <1>2 DEF Core, Cut, Passed
  <1>5. /\ sw_rdy = hw.rdy /\ hw.rdy - hw.exe = l - (c - 1)
        /\ \A j \in DOMAIN list : c < j /\ j <= l => jmp[list[j - 1]] = list[j]
    BY <1>1, <1>2, <1>3 DEF Core, Chained
  <1>6. working
    BY <1>2 DEF ChainInv, Idle
  <1>7. ddr_id' = list[c] /\ ddr_exe' = hw.exe
    BY <1>3, <1>4 DEF HwFinish
  <1>8. \A j \in DOMAIN list : list[j] \in ran' <=> j <= c
    BY <1>2, <1>3, <1>4, ChainFacts
  <1>9. Buffers'
    <2> SUFFICES ASSUME NEW n \in Bufs PROVE StageTells(n)'
      BY DEF Buffers
    <2>1. StageTells(n) /\ linked[hw.cur]
      BY <1>3, <1>4 DEF ChainInv, Buffers
    <2> QED
      BY <1>2, <2>1 DEF StageTells
  <1>10. irq' \subseteq {"JMP", "ABORT"} /\ ("ABORT" \in irq' <=> hw.abort)
    <2>1. PICK raised \in {{"JMP"}, {}} :
            irq' = irq \cup raised \cup (IF hw.abort THEN {"ABORT"} ELSE {})
      BY DEF HwFinish
    <2>2. "ABORT" \notin irq /\ irq \subseteq {"JMP", "ABORT"}
      BY <1>2 DEF ChainInv, Idle, ChainTypes
    <2> QED
      BY <2>1, <2>2
  <1>11. ASSUME hw' \in HwStates, NEW e \in {c, c + 1}, e \in DOMAIN list,
                e <= l, hw'.cur = list[e], hw'.phase = "exec" <=> e = c + 1,
                hw'.phase # "off" => /\ ~hw.abort
                                     /\ hw'.rdy = hw.rdy /\ hw'.exe = hw.exe + 1
                                     /\ hw'.phase = "pend" => l = c,
                hw'.phase = "off" <=> hw.abort, ~hw'.abort
         PROVE  ChainInv'
    <2>1. Passed(e)' = c
      BY <1>3, <1>11 DEF Passed
    <2>2. PICK P : P = Passed(e)' /\ P = c
      BY <2>1
    <2>3. ChainTypes'
      <3>1. ddr_id' \in Bufs /\ ddr_exe' \in Nat /\ ran' \subseteq Bufs
        BY <1>2, <1>3, <1>7, ChainFacts DEF ChainInv, ChainTypes
      <3> QED
        BY <1>2, <1>10, <1>11, <3>1 DEF ChainInv, ChainTypes
    <2>4. Idle'
      BY <1>2, <1>6, <1>10, <1>11 DEF ChainInv, Idle
    <2>5. InOrder(e, d, l)'
      BY <1>2, <1>3, <1>11, <2>2 DEF InOrder
    <2>6. Cut(e, d, l)'
      BY <1>2, <1>4, <1>8, <2>2 DEF Cut
    <2>7. Chained(e, l)'
      <3>1. hw'.phase # "off" => hw'.rdy - hw'.exe = l - P
        BY <1>3, <1>5, <1>11, <2>2, ChainFacts
      <3>2. \A j \in DOMAIN list : e < j => c < j
        BY <1>3, <1>11, ChainFacts
      <3> QED
        BY <1>2, <1>5, <1>11, <2>2, <3>1, <3>2 DEF Chained
    <2>8. Told(e, d)'
      BY <1>2, <1>3, <1>7, <2>2 DEF Told
    <2>9. Rested(e, d, l)'
      BY <1>2, <1>6 DEF Rested
    <2>10. Held(l)'
      BY <1>1, <1>2, <1>6, <1>11 DEF Held
    <2> QED
      BY <1>9, <2>3, <2>4, <2>5, <2>6, <2>7, <2>8, <2>9, <2>10 DEF ChainInv, Core, Shape
  <1>12. hw \in HwStates
    BY DEF ChainInv, ChainTypes
  <1>13. CASE hw.abort
    <2>1. hw' = [hw EXCEPT !.phase = "off", !.exe = hw.exe + 1, !.abort = FALSE]
      BY <1>13 DEF HwFinish
    <2>2. hw.exe + 1 \in Nat
      BY ChainFacts
    <2>3. hw' \in HwStates /\ hw'.cur = hw.cur /\ hw'.phase = "off" /\ ~hw'.abort
      BY <1>12, <2>1, <2>2 DEF HwStates
    <2> QED
      BY <1>3, <1>11, <1>13, <2>3
  <1>14. CASE ~hw.abort /\ c < l
    <2>1. c + 1 \in DOMAIN list /\ c + 1 <= l
      BY <1>3, <1>14, ChainFacts
    <2>2. jmp[list[c]] = list[c + 1]
      <3>1. PICK k \in DOMAIN list : k = c + 1 /\ c < k /\ k <= l /\ k - 1 = c
        BY <1>3, <2>1
      <3>2. jmp[list[k - 1]] = list[k]
        BY <1>5, <3>1
      <3> QED
        BY <3>1, <3>2
    <2>3. list[c + 1] \in Bufs /\ list[c + 1] # None
      BY <2>1, ChainFacts
    <2>4. hw.exe + 1 < hw.rdy
      BY <1>3, <1>5, <1>14, ChainFacts
    <2>5. hw' = [hw EXCEPT !.cur = list[c + 1], !.exe = hw.exe + 1]
      BY <1>3, <1>14, <2>2, <2>3, <2>4 DEF HwFinish
    <2>6. hw.exe + 1 \in Nat
      BY ChainFacts
    <2>7. /\ hw' \in HwStates /\ hw'.cur = list[c + 1] /\ hw'.phase = "exec"
          /\ hw'.rdy = hw.rdy /\ hw'.exe = hw.exe + 1 /\ ~hw'.abort
      BY <1>2, <1>12, <1>14, <2>3, <2>5, <2>6 DEF HwStates
    <2> QED
      BY <1>11, <1>14, <2>1, <2>7
  <1>15. CASE ~hw.abort /\ ~(c < l)
    <2>1. c = l /\ ~(hw.exe + 1 < hw.rdy)
      BY <1>3, <1>5, <1>15, ChainFacts
    <2>2. hw' = [hw EXCEPT !.phase = "pend", !.exe = hw.exe + 1]
      BY <1>15, <2>1 DEF HwFinish
    <2>3. hw.exe + 1 \in Nat
      BY ChainFacts
    <2>4. /\ hw' \in HwStates /\ hw'.cur = hw.cur /\ hw'.phase = "pend"
          /\ hw'.rdy = hw.rdy /\ hw'.exe = hw.exe + 1 /\ ~hw'.abort
      BY <1>12, <1>15, <2>2, <2>3 DEF HwStates
    <2> QED
      BY <1>3, <1>11, <1>15, <2>1, <2>4
  <1> QED
    BY <1>13, <1>14, <1>15
-----------------------------------------------------------------------------
(* Linking.  The flags lk end at position a, the flags dn at b or before.  *)

EndsAt(f, a) == \A j \in DOMAIN list : f[list[j]] <=> j <= a

(* What vcmd_link_cmdbuf does when it joins all behind position a.          *)
JoinsRest(k, lk, dn, a) ==
    /\ Joined(k, lk, dn) = (a + 1)..Len(list)
    /\ Cardinality(Joined(k, lk, dn)) = Len(list) - a
    /\ \A j \in DOMAIN list : LinkedFrom(k, lk, dn)[list[j]]
    /\ \A n \in Bufs : LinkedFrom(k, lk, dn)[n] <=>
                         lk[n] \/ \E j \in DOMAIN list : a < j /\ list[j] = n
    /\ JumpsFrom(k, dn) \in [Bufs -> Bufs \cup {None}]
    /\ \A j \in DOMAIN list : k <= j /\ j < Len(list) =>
           JumpsFrom(k, dn)[list[j]] = list[j + 1]
    /\ \A j \in DOMAIN list : j < k => JumpsFrom(k, dn)[list[j]] = jmp[list[j]]

(* vcmd_link_cmdbuf joins all that follows the last linked buffer.         *)
LEMMA JoinedIsRest ==
  ASSUME ChainInv, NEW lk, NEW dn, NEW a \in Nat, NEW b \in Nat,
         EndsAt(lk, a), EndsAt(dn, b),
         b <= a, a <= Len(list), NEW k \in {a, a + 1}
  PROVE  JoinsRest(k, lk, dn, a)
  <1>1. /\ Len(list) \in Nat /\ DOMAIN list = 1..Len(list)
        /\ \A j \in DOMAIN list : list[j] \in Bufs
        /\ jmp \in [Bufs -> Bufs \cup {None}]
    BY ChainFacts DEF ChainInv, ChainTypes
  <1>2. Joined(k, lk, dn) = (a + 1)..Len(list)
    <2>1. \A j \in DOMAIN list :
            (j = k /\ ~lk[list[j]]) \/ (j > k /\ ~dn[list[j]]) <=> a < j
      <3> TAKE j \in DOMAIN list
      <3>1. (lk[list[j]] <=> j <= a) /\ (dn[list[j]] <=> j <= b) /\ j \in Nat
        BY <1>1 DEF EndsAt
      <3> QED
        BY <3>1
    <2>2. Joined(k, lk, dn) = {j \in DOMAIN list : a < j}
      BY <2>1 DEF Joined
    <2> QED
      BY <1>1, <2>2
  <1>3. Cardinality(Joined(k, lk, dn)) = Len(list) - a
    <2>1. a + 1 \in Int /\ Len(list) \in Int
      BY <1>1
    <2>2. Cardinality((a + 1)..Len(list)) =
            IF a + 1 > Len(list) THEN 0 ELSE Len(list) - (a + 1) + 1
      BY <2>1, FS_Interval
    <2> QED
      BY <1>1, <1>2, <2>2
  <1>4. \A n \in Bufs : LinkedFrom(k, lk, dn)[n] <=>
                              \/ lk[n]
                              \/ \E j \in DOMAIN list : a < j /\ list[j] = n
    <2>1. \A j : j \in Joined(k, lk, dn) <=> j \in DOMAIN list /\ a < j
      BY <1>1, <1>2
    <2> QED
      BY <2>1 DEF LinkedFrom
  <1>5. \A j \in DOMAIN list : LinkedFrom(k, lk, dn)[list[j]]
    <2> TAKE j \in DOMAIN list
    <2>1. (lk[list[j]] <=> j <= a) /\ j \in Nat
      BY <1>1 DEF EndsAt
    <2>2. j <= a \/ a < j
      BY <2>1
    <2> QED
      BY <1>1, <1>4, <2>1, <2>2
  <1> DEFINE jump(n) == InList(n) /\ Position(n) \in k..(Len(list) - 1)
                        /\ ~dn[list[Position(n) + 1]]
  <1>6. JumpsFrom(k, dn) = [n \in Bufs |-> IF jump(n) THEN list[Position(n) + 1] ELSE jmp[n]]
    BY DEF JumpsFrom
  <1>7. \A n : InList(n) => \E j \in DOMAIN list : n = list[j]
    BY DEF InList, Range
  <1>8. \A n : jump(n) => list[Position(n) + 1] \in Bufs
    <2> SUFFICES ASSUME NEW n, jump(n) PROVE list[Position(n) + 1] \in Bufs
      OBVIOUS
    <2>1. PICK j \in DOMAIN list : n = list[j]
      BY <1>7
    <2>2. Position(n) = j
      BY <2>1, PositionOf
    <2>3. j + 1 \in DOMAIN list
      BY <1>1, <2>2
    <2> QED
      BY <1>1, <2>2, <2>3
  <1>9. \A j \in DOMAIN list : /\ k <= j /\ j < Len(list) => jump(list[j])
                               /\ j < k => ~jump(list[j])
    <2> TAKE j \in DOMAIN list
    <2>1. InList(list[j]) /\ Position(list[j]) = j
      BY PositionOf
    <2>2. k <= j /\ j < Len(list) => ~dn[list[j + 1]]
      <3>1. k <= j /\ j < Len(list) => j + 1 \in DOMAIN list /\ ~(j + 1 <= b)
        BY <1>1
      <3> QED
        BY <3>1 DEF EndsAt
    <2> QED
      BY <1>1, <2>1, <2>2
  <1> HIDE DEF jump
  <1>10. JumpsFrom(k, dn) \in [Bufs -> Bufs \cup {None}]
    BY <1>1, <1>6, <1>8
  <1>11. \A j \in DOMAIN list : k <= j /\ j < Len(list) =>
                JumpsFrom(k, dn)[list[j]] = list[j + 1]
    BY <1>1, <1>6, <1>9, PositionOf
  <1>12. \A j \in DOMAIN list : j < k => JumpsFrom(k, dn)[list[j]] = jmp[list[j]]
    BY <1>1, <1>6, <1>9
  <1> QED
    BY <1>2, <1>3, <1>4, <1>5, <1>10, <1>11, <1>12 DEF JoinsRest

(* vcmd_delink_cmdbuf from k cuts the linked buffers there.                *)
LEMMA DelinkedIsCut ==
  ASSUME ChainInv, NEW lk \in [Bufs -> BOOLEAN], NEW a \in Nat, EndsAt(lk, a),
         NEW k \in Nat, 1 <= k, k <= a + 1
  PROVE  /\ DelinkedFrom(k, lk) \in [Bufs -> BOOLEAN]
         /\ EndsAt(DelinkedFrom(k, lk), k - 1)
         /\ \A n \in Bufs : DelinkedFrom(k, lk)[n] => lk[n]
  <1>1. /\ Len(list) \in Nat /\ DOMAIN list = 1..Len(list)
        /\ \A j \in DOMAIN list : list[j] \in Bufs
        /\ \A i, j \in DOMAIN list : list[i] = list[j] => i = j
    BY ChainFacts
  <1> DEFINE cut(n) == \E j \in DOMAIN list :
                          list[j] = n /\ j >= k /\ \A i \in k..j : lk[list[i]]
  <1>2. DelinkedFrom(k, lk) = [n \in Bufs |-> lk[n] /\ ~cut(n)]
    BY DEF DelinkedFrom
  <1>3. \A j \in DOMAIN list : j <= a => (cut(list[j]) <=> k <= j)
    <2> SUFFICES ASSUME NEW j \in DOMAIN list, j <= a PROVE cut(list[j]) <=> k <= j
      OBVIOUS
    <2>1. cut(list[j]) <=> j >= k /\ \A i \in k..j : lk[list[i]]
      BY <1>1
    <2>2. \A i \in k..j : i \in DOMAIN list /\ i <= a
      BY <1>1
    <2>3. \A i \in k..j : lk[list[i]]
      BY <2>2 DEF EndsAt
    <2> HIDE DEF cut
    <2> QED
      BY <1>1, <2>1, <2>3
  <1> HIDE DEF cut
  <1>4. DelinkedFrom(k, lk) \in [Bufs -> BOOLEAN]
        /\ \A n \in Bufs : DelinkedFrom(k, lk)[n] <=> lk[n] /\ ~cut(n)
    BY <1>2
  <1>5. EndsAt(DelinkedFrom(k, lk), k - 1)
    <2> SUFFICES ASSUME NEW j \in DOMAIN list
                 PROVE  DelinkedFrom(k, lk)[list[j]] <=> j <= k - 1
      BY DEF EndsAt
    <2>1. lk[list[j]] <=> j <= a
      BY DEF EndsAt
    <2>2. j \in Nat
      BY <1>1
    <2> QED
      BY <1>1, <1>3, <1>4, <2>1, <2>2
  <1> QED
    BY <1>4, <1>5

(* After an abort nothing runs: what follows the buffer it stopped at is   *)
(* cut off, and on an encoder that nobody told to stop it is linked again. *)
LEMMA AbortStep ==
  ASSUME ChainInv, ListInv', IsrAbort
  PROVE  ChainInv'
  <1>1. PICK c, d, l : Core(c, d, l) /\ Held(l)
    BY DEF ChainInv, Shape
  <1>2. /\ "ABORT" \in irq /\ irq' = {}
        /\ UNCHANGED <<list, stage, prio, patched, sem, sw_abort, ddr_id, ddr_exe, ran>>
    BY DEF IsrAbort, IsrCommon, listVars, ddrVars
  <1>3. hw.phase = "off" /\ working /\ ~hw.abort
    BY <1>2 DEF ChainInv, Idle
  <1>4. /\ c \in DOMAIN list /\ d \in DOMAIN list /\ l \in DOMAIN list
        /\ c \in Nat /\ d \in Nat /\ l \in Nat /\ 1 <= d /\ d <= c /\ c <= l
        /\ hw.cur = list[c] /\ l <= Len(list) /\ Passed(c) = c
    BY <1>1, <1>3, ChainFacts DEF Core, InOrder, Passed
  <1>5. \A j \in DOMAIN list :
          /\ linked[list[j]] <=> j <= l
          /\ list[j] \in ran <=> j <= c
          /\ run_done[list[j]] <=> j <= d
          /\ j <= l => patched[list[j]]
    BY <1>1, <1>4 DEF Core, Cut
  <1>6. InTable(hw.cur) /\ Following = c + 1
    BY <1>4, PositionOf DEF Following, Current
  <1>7. MarkDone(Completed(list[c]), {}, "OK") /\ (Restart(c + 1) \/ Stop(c + 1))
    BY <1>4, <1>6 DEF IsrAbort
  <1>8. /\ DelinkedFrom(c + 1, linked) \in [Bufs -> BOOLEAN]
        /\ EndsAt(DelinkedFrom(c + 1, linked), c)
        /\ \A n \in Bufs : DelinkedFrom(c + 1, linked)[n] => linked[n]
    <2>1. linked \in [Bufs -> BOOLEAN] /\ EndsAt(linked, l)
      BY <1>5 DEF EndsAt, ChainInv, ChainTypes
    <2>2. c + 1 \in Nat /\ 1 <= c + 1 /\ c + 1 <= l + 1 /\ c + 1 - 1 = c
      BY <1>4
    <2> QED
      BY <1>4, <2>1, <2>2, DelinkedIsCut
  <1>9. sem # None /\ stage[sem] \in {"abort", "aborting"}
    <2>1. sem # None /\ stage[sem] # "busy"
      BY <1>1, <1>3 DEF Held
    <2>2. stage[sem] \notin {"inserted", "patched"}
      BY <1>1, <1>3, <2>1 DEF Held
    <2>3. stage[sem] \in Sections /\ stage[sem] # "signalled"
      BY <2>1, ChainFacts DEF ChainInv, Buffers, StageTells
    <2> QED
      BY <2>1, <2>2, <2>3 DEF Sections
  <1>10. \A j \in DOMAIN list : stage[list[j]] \notin Unlinked
    <2> SUFFICES ASSUME NEW j \in DOMAIN list, stage[list[j]] \in Unlinked PROVE FALSE
      OBVIOUS
    <2>1. list[j] \in Ids
      BY ChainFacts DEF Unlinked
    <2>2. stage[list[j]] \in {"inserted", "patched"}
      BY <2>1, ChainFacts DEF Listed, Unlinked
    <2>3. sem = list[j]
      BY <2>1, <2>2, ChainFacts DEF Sections
    <2> QED
      BY <1>9, <2>2, <2>3
  <1>11. ASSUME \A n \in Bufs : linked'[n] => linked[n] \/ stage[n] \notin Unlinked
         PROVE  /\ status' = [n \in Bufs |-> "OK"] /\ run_done' \in [Bufs -> BOOLEAN]
                /\ EndsAt(run_done', c)
                /\ Buffers'
    <2>1. d <= c /\ c <= Passed(c)
      BY <1>4
    <2> QED
      BY <1>1, <1>2, <1>4, <1>7, <1>11, <2>1, MarkedBehind DEF EndsAt
  <1>12. run_done' \in [Bufs -> BOOLEAN] /\ EndsAt(run_done', c)
    <2>1. run_done' = [n \in Bufs |-> run_done[n] \/ n \in Completed(list[c])]
      BY <1>7 DEF MarkDone
    <2>2. \A j \in DOMAIN list : list[j] \in Completed(list[c]) <=> d < j /\ j <= c
      BY <1>1, <1>4, CompletedBehind
    <2>3. \A j \in DOMAIN list : run_done'[list[j]] <=> run_done[list[j]] \/ (d < j /\ j <= c)
      BY <2>1, <2>2, ChainFacts
    <2>4. \A j \in DOMAIN list : run_done'[list[j]] <=> j <= c
      BY <1>4, <1>5, <2>3, ChainFacts
    <2> QED
      BY <2>1, <2>4, ChainFacts DEF EndsAt
  <1>13. ASSUME linked' \in [Bufs -> BOOLEAN], EndsAt(linked', c), sw_rdy' = 0,
                \A n \in Bufs : linked'[n] => linked[n],
                working' = FALSE, hw' = hw, jmp' \in [Bufs -> Bufs \cup {None}]
         PROVE  ChainInv'
    <2>1. /\ status' = [n \in Bufs |-> "OK"] /\ Buffers'
      BY <1>11, <1>13
    <2>2. ChainTypes'
      BY <1>2, <1>13, <2>1 DEF ChainInv, ChainTypes
    <2>3. Idle'
      BY <1>2, <1>3, <1>13 DEF Idle
    <2>4. InOrder(c, c, c)'
      BY <1>2, <1>3, <1>4, <1>13 DEF InOrder, Passed
    <2>5. Cut(c, c, c)'
      BY <1>2, <1>3, <1>4, <1>5, <1>12, <1>13 DEF Cut, Passed, EndsAt
    <2>6. Chained(c, c)' /\ Told(c, c)' /\ Rested(c, c, c)'
      BY <1>2, <1>3, <1>13 DEF Chained, Told, Rested
    <2>7. Held(c)'
      BY <1>2, <1>9, <1>13 DEF Held
    <2> QED
      BY <2>2, <2>3, <2>4, <2>5, <2>6, <2>7, <2>1 DEF ChainInv, Core, Shape
  <1>14. CASE Stop(c + 1)
    <2>1. linked' = DelinkedFrom(c + 1, linked) /\ sw_rdy' = 0 /\ working' = FALSE
          /\ jmp' = jmp /\ hw' = hw
      BY <1>14 DEF Stop
    <2> QED
      BY <1>8, <1>13, <2>1 DEF ChainInv, ChainTypes
  <1>15. CASE Restart(c + 1)
    <2> DEFINE lk == DelinkedFrom(c + 1, linked)
               joined == Joined(c + 1, lk, run_done')
    <2>1. /\ linked' = LinkedFrom(c + 1, lk, run_done')
          /\ jmp' = JumpsFrom(c + 1, run_done')
          /\ sw_rdy' = Cardinality(joined)
          /\ IF joined # {} THEN vcmd_start(list[c + 1], Cardinality(joined))
             ELSE working' = FALSE /\ UNCHANGED hw
      BY <1>15 DEF Restart
    <2>2. PICK rd : rd = run_done'
      OBVIOUS
    <2>3. EndsAt(lk, c) /\ EndsAt(rd, c) /\ c \in Nat /\ c <= c /\ c <= Len(list)
          /\ lk \in [Bufs -> BOOLEAN]
      BY <1>4, <1>8, <1>12, <2>2 DEF EndsAt
    <2> HIDE DEF lk
    <2>k. PICK k \in {c, c + 1} : k = c + 1
      OBVIOUS
    <2>r. JoinsRest(k, lk, rd, c)
      BY <2>3, JoinedIsRest
    <2>4. /\ Joined(k, lk, rd) = (c + 1)..Len(list)
          /\ Cardinality(Joined(k, lk, rd)) = Len(list) - c
          /\ \A j \in DOMAIN list : LinkedFrom(k, lk, rd)[list[j]]
          /\ \A n \in Bufs : LinkedFrom(k, lk, rd)[n] <=>
                              \/ lk[n]
                              \/ \E j \in DOMAIN list : c < j /\ list[j] = n
          /\ JumpsFrom(k, rd) \in [Bufs -> Bufs \cup {None}]
          /\ \A j \in DOMAIN list : k <= j /\ j < Len(list) =>
                JumpsFrom(k, rd)[list[j]] = list[j + 1]
      BY <2>r DEF JoinsRest
    <2>5. /\ linked' \in [Bufs -> BOOLEAN] /\ sw_rdy' = Len(list) - c
          /\ \A j \in DOMAIN list : linked'[list[j]]
          /\ jmp' \in [Bufs -> Bufs \cup {None}]
          /\ \A j \in DOMAIN list : c + 1 <= j /\ j < Len(list) => jmp'[list[j]] = list[j + 1]
          /\ \A n \in Bufs : linked'[n] => linked[n] \/ \E j \in DOMAIN list : list[j] = n
      <3>1. linked' = LinkedFrom(c + 1, lk, rd) /\ jmp' = JumpsFrom(c + 1, rd)
            /\ sw_rdy' = Cardinality(Joined(c + 1, lk, rd))
        BY <2>1, <2>2
      <3>2. lk \in [Bufs -> BOOLEAN] /\ \A n \in Bufs : lk[n] => linked[n]
        BY <1>8 DEF lk
      <3>3. LinkedFrom(c + 1, lk, rd) \in [Bufs -> BOOLEAN]
        BY <3>2 DEF LinkedFrom
      <3> QED
        BY <2>4, <2>k, <3>1, <3>2, <3>3
    <2>6. /\ status' = [n \in Bufs |-> "OK"] /\ Buffers'
      <3>1. \A n \in Bufs : linked'[n] => linked[n] \/ stage[n] \notin Unlinked
        BY <1>10, <2>5
      <3> QED
        BY <1>11, <3>1
    <2>7. CASE c = Len(list)
      <3>1. Joined(c + 1, lk, rd) = {}
        BY <1>4, <2>4, <2>k, <2>7
      <3>2. working' = FALSE /\ hw' = hw
        BY <2>1, <2>2, <3>1
      <3>3. EndsAt(linked', c) /\ \A n \in Bufs : linked'[n] => linked[n]
        <4>1. \A j \in DOMAIN list : j <= c /\ j <= l
          BY <1>4, <2>7, ChainFacts
        <4> QED
          BY <1>5, <2>5, <4>1 DEF EndsAt
      <3>4. sw_rdy' = 0
        BY <1>4, <2>5, <2>7
      <3> QED
        BY <1>13, <2>5, <3>2, <3>3, <3>4
    <2>8. CASE c < Len(list)
      <3>1. c + 1 \in Joined(c + 1, lk, rd) /\ c + 1 \in DOMAIN list
            /\ Len(list) \in DOMAIN list /\ Len(list) \in Nat
        BY <1>4, <2>4, <2>k, <2>8, ChainFacts
      <3>2. vcmd_start(list[c + 1], Len(list) - c)
        BY <2>1, <2>2, <2>4, <2>k, <3>1
      <3>3. list[c + 1] \in Bufs /\ Len(list) - c \in Nat
        BY <1>4, <2>8, <3>1, ChainFacts
      <3>4. /\ working' = TRUE /\ hw' \in HwStates /\ hw'.phase = "exec"
            /\ hw'.cur = list[c + 1] /\ hw'.exe = 0 /\ hw'.rdy = Len(list) - c
            /\ ~hw'.abort
        BY <3>2, <3>3 DEF vcmd_start, HwStates
      <3>5. PICK e \in DOMAIN list : e = c + 1
        BY <3>1
      <3>6. PICK N \in DOMAIN list : N = Len(list)
        BY <3>1
      <3>7. Passed(e)' = c
        BY <1>4, <3>4, <3>5 DEF Passed
      <3>8. PICK P : P = Passed(e)' /\ P = c
        BY <3>7
      <3>9. ChainTypes'
        BY <1>2, <2>5, <2>6, <3>3, <3>4 DEF ChainInv, ChainTypes
      <3>10. Idle'
        BY <1>2, <3>4 DEF Idle
      <3>11. InOrder(e, c, N)'
        BY <1>2, <1>4, <2>8, <3>4, <3>5, <3>6, <3>8 DEF InOrder
      <3>12. Cut(e, c, N)'
        <4>1. \A j \in DOMAIN list : j <= N
          BY <3>6, ChainFacts
        <4>2. \A j \in DOMAIN list : patched[list[j]]
          <5> TAKE j \in DOMAIN list
          <5>1. l = Len(list)
            BY <1>1, <1>3, <1>9 DEF Held
          <5> QED
            BY <1>5, <3>6, <4>1, <5>1
        <4> QED
          BY <1>2, <1>5, <1>12, <2>5, <3>8, <4>1, <4>2 DEF Cut, EndsAt
      <3>13. Chained(e, N)'
        <4>1. sw_rdy' = hw'.rdy /\ hw'.rdy - hw'.exe = N - P
          BY <1>4, <2>5, <3>4, <3>6, <3>8
        <4>2. \A j \in DOMAIN list : e < j /\ j <= N => jmp'[list[j - 1]] = list[j]
          <5> SUFFICES ASSUME NEW j \in DOMAIN list, e < j, j <= N
                       PROVE  jmp'[list[j - 1]] = list[j]
            OBVIOUS
          <5>1. PICK i \in DOMAIN list : i = j - 1 /\ c + 1 <= i /\ i < Len(list)
                                         /\ i + 1 = j
            BY <1>4, <3>5, <3>6, ChainFacts
          <5>2. jmp'[list[i]] = list[i + 1]
            BY <2>5, <5>1
          <5> QED
            BY <5>1, <5>2
        <4> QED
          BY <1>2, <3>4, <3>8, <4>1, <4>2 DEF Chained
      <3>14. Told(e, c)' /\ Rested(e, c, N)'
        BY <1>2, <3>4 DEF Told, Rested
      <3>15. Held(N)'
        BY <1>2, <1>9, <3>6 DEF Held
      <3> QED
        BY <2>6, <3>9, <3>10, <3>11, <3>12, <3>13, <3>14, <3>15 DEF ChainInv, Core, Shape
    <2> QED
      BY <1>4, <2>7, <2>8, ChainFacts
  <1> QED
    BY <1>7, <1>14, <1>15-----------------------------------------------------------------------------

(* A new buffer is linked.                                                 *)

LEMMA FindsLastLinked ==
  ASSUME ChainInv, NEW c, NEW d, NEW l, Core(c, d, l), NEW p \in DOMAIN list, l < p
  PROVE  find_last_linked_cmdbuf(list[p]) = l
  <1>1. /\ l \in DOMAIN list /\ DOMAIN list = 1..Len(list) /\ Len(list) \in Nat
        /\ \A j \in DOMAIN list : linked[list[j]] <=> j <= l
    BY ChainFacts DEF Core, InOrder, Cut
  <1>2. PICK B : B = {j \in 1..(p - 1) : linked[list[j]]}
    OBVIOUS
  <1>3. l \in B /\ \A j \in B : j \in Int /\ l >= j
    BY <1>1, <1>2
  <1>4. Max(B) = l
    <2>1. \A x \in B : (\A y \in B : x >= y) => x = l
      BY <1>1, <1>3
    <2> QED
      BY <1>3, <2>1 DEF Max
  <1>5. Position(list[p]) = p
    BY PositionOf
  <1> QED
    BY <1>2, <1>3, <1>4, <1>5 DEF find_last_linked_cmdbuf

(* What vcmd_link_cmdbuf finds to join begins behind l.                    *)
LEMMA LinksRest ==
  ASSUME ChainInv, NEW c, NEW d, NEW l, Core(c, d, l)
  PROVE  JoinsRest(l, linked, run_done, l)
  <1>1. /\ c \in DOMAIN list /\ d \in DOMAIN list /\ l \in DOMAIN list
        /\ d \in Nat /\ l \in Nat /\ d <= l /\ l <= Len(list)
    BY ChainFacts DEF Core, InOrder, Passed
  <1>2. EndsAt(linked, l) /\ EndsAt(run_done, d)
    BY DEF Core, Cut, EndsAt
  <1>3. PICK k \in {l, l + 1} : k = l
    OBVIOUS
  <1>4. JoinsRest(k, linked, run_done, l)
    BY <1>1, <1>2, JoinedIsRest
  <1> QED
    BY <1>3, <1>4

(* All of the list is linked, and the hardware runs or is at its end.      *)
LEMMA LinkedStep ==
  ASSUME ChainInv, ListInv', NEW n \in Ids, stage[n] = "patched", LeaveSection(n),
         NEW c, NEW d, NEW l, Core(c, d, l), vcmd_link_cmdbuf(l),
         NEW e \in DOMAIN list, e \in {c, c + 1}, e - 1 = Passed(c),
         working', "ABORT" \notin irq,
         hw' \in HwStates, hw'.phase = "exec", hw'.cur = list[e], ~hw'.abort,
         hw'.rdy = sw_rdy', hw'.rdy - hw'.exe = Len(list) - Passed(c)
  PROVE  ChainInv'
  <1>1. /\ c \in DOMAIN list /\ d \in DOMAIN list /\ l \in DOMAIN list
        /\ c \in Nat /\ d \in Nat /\ l \in Nat /\ e \in Nat
        /\ d <= e - 1 /\ c <= l /\ l <= Len(list)
        /\ Len(list) \in Nat \ {0} /\ DOMAIN list = 1..Len(list)
    BY ChainFacts DEF Core, InOrder
  <1>2. \A j \in DOMAIN list :
          /\ linked[list[j]] <=> j <= l
          /\ list[j] \in ran <=> j <= e - 1
          /\ run_done[list[j]] <=> j <= d
    BY DEF Core, Cut
  <1>3. /\ UNCHANGED <<list, prio, run_done, status, patched, sw_abort, ddr_id, ddr_exe,
                       ran, irq>>
        /\ sem' = None /\ stage' = [stage EXCEPT ![n] = "submitted"]
    BY DEF LeaveSection, listVars, doneVars, ddrVars
  <1>4. \A m \in Bufs : stage'[m] = IF m = n THEN "submitted" ELSE stage[m]
    BY <1>3, ChainFacts
  <1>5. \A j \in DOMAIN list : list[j] = n \/ stage[list[j]] \notin Unlinked
    <2> SUFFICES ASSUME NEW j \in DOMAIN list, stage[list[j]] \in Unlinked
                 PROVE  list[j] = n
      OBVIOUS
    <2>1. list[j] \in Ids
      BY ChainFacts DEF Unlinked
    <2>2. stage[list[j]] \in {"inserted", "patched"}
      BY <2>1, ChainFacts DEF Listed, Unlinked
    <2> QED
      BY <2>1, <2>2, ChainFacts DEF Sections
  <1>6. JoinsRest(l, linked, run_done, l)
    BY LinksRest
  <1>7. /\ linked' = LinkedFrom(l, linked, run_done)
        /\ jmp' = JumpsFrom(l, run_done)
    BY DEF vcmd_link_cmdbuf
  <1>8. /\ \A j \in DOMAIN list : linked'[list[j]]
        /\ \A m \in Bufs : linked'[m] => linked[m] \/ \E j \in DOMAIN list : list[j] = m
        /\ jmp' \in [Bufs -> Bufs \cup {None}]
        /\ \A j \in DOMAIN list : l <= j /\ j < Len(list) => jmp'[list[j]] = list[j + 1]
        /\ \A j \in DOMAIN list : j < l => jmp'[list[j]] = jmp[list[j]]
    BY <1>6, <1>7 DEF JoinsRest
  <1>9. linked' \in [Bufs -> BOOLEAN]
    BY <1>7 DEF LinkedFrom, ChainInv, ChainTypes
  <1>10. ChainTypes'
    BY <1>3, <1>8, <1>9 DEF ChainInv, ChainTypes, HwStates
  <1>11. Buffers'
    <2> SUFFICES ASSUME NEW m \in Bufs PROVE StageTells(m)'
      BY DEF Buffers
    <2>1. StageTells(m)
      BY DEF ChainInv, Buffers
    <2>2. CASE m = n
      BY <1>3, <1>4, <2>1, <2>2 DEF StageTells, Unlinked
    <2>3. CASE m # n
      <3>1. stage[m] \in Unlinked => ~linked'[m]
        BY <1>5, <1>8, <2>1, <2>3 DEF StageTells
      <3> QED
        BY <1>3, <1>4, <2>1, <2>3, <3>1 DEF StageTells
    <2> QED
      BY <2>2, <2>3
  <1>12. Idle'
    BY <1>3 DEF Idle
  <1>13. PICK N \in DOMAIN list : N = Len(list) /\ \A j \in DOMAIN list : j <= N
    BY <1>1
  <1>14. PICK P : P = e - 1 /\ P = Passed(e)' /\ P = Passed(c)
    BY DEF Passed
  <1>15. InOrder(e, d, N)'
    BY <1>1, <1>3, <1>13, <1>14 DEF InOrder
  <1>16. Cut(e, d, N)'
    <2>1. \A j \in DOMAIN list : patched[list[j]]
      <3> TAKE j \in DOMAIN list
      <3>1. list[j] \in Bufs /\ StageTells(list[j])
        BY ChainFacts DEF ChainInv, Buffers
      <3>2. list[j] = KernelBuf \/ stage[list[j]] \in Listed
        BY <3>1, ChainFacts
      <3>3. stage[list[j]] # "leaked" /\ stage[list[j]] # "inserted"
        BY <1>5, <3>1 DEF StageTells, Unlinked
      <3> QED
        BY <3>1, <3>2, <3>3, ChainFacts DEF StageTells, Listed
    <2> QED
      BY <1>2, <1>3, <1>8, <1>13, <1>14, <2>1 DEF Cut
  <1>17. Chained(e, N)'
    <2>1. \A j \in DOMAIN list : e < j => jmp'[list[j - 1]] = list[j]
      <3> SUFFICES ASSUME NEW j \in DOMAIN list, e < j
                   PROVE  jmp'[list[j - 1]] = list[j]
        OBVIOUS
      <3>1. PICK i \in DOMAIN list : i = j - 1 /\ i < Len(list) /\ i + 1 = j /\ c < j
        BY <1>1
      <3>2. CASE l <= i
        BY <1>8, <3>1, <3>2
      <3>3. CASE i < l
        <4>1. hw.phase # "off"
          <5>1. c <= i
            BY <1>1, <3>1
          <5>2. c < l
            BY <1>1, <3>1, <3>3, <5>1
          <5>3. working
            BY <1>1, <5>2 DEF Core, Rested
          <5> QED
            BY <5>3 DEF ChainInv, Idle
        <4>2. jmp[list[j - 1]] = list[j]
          <5>1. j <= l
            BY <1>1, <3>1, <3>3
          <5> QED
            BY <3>1, <4>1, <5>1 DEF Core, Chained
        <4> QED
          BY <1>8, <3>1, <3>3, <4>2
      <3> QED
        BY <1>1, <3>1, <3>2, <3>3
    <2> QED
      BY <1>3, <1>13, <1>14, <2>1 DEF Chained
  <1>18. Told(e, d)' /\ Rested(e, d, N)'
    BY <1>3, <1>14 DEF Core, Told, Rested
  <1>19. Held(N)'
    BY <1>3, <1>13 DEF Held
  <1> QED
    BY <1>10, <1>11, <1>12, <1>15, <1>16, <1>17, <1>18, <1>19 DEF ChainInv, Core, Shape

(* A new tail on a running core: l moves to the end of the list.           *)
LEMMA LinkToRunningStep ==
  ASSUME ChainInv, ListInv', NEW n \in Ids, LinkToRunning(n)
  PROVE  ChainInv'
  <1>1. PICK c, d, l : Core(c, d, l) /\ Held(l)
    BY DEF ChainInv, Shape
  <1>2. stage[n] = "patched" /\ working /\ working' /\ LeaveSection(n) /\ sem = n
    BY ChainFacts DEF LinkToRunning, Sections
  <1>3. /\ hw.phase \in {"exec", "pend"} /\ ~hw.abort /\ "ABORT" \notin irq
        /\ l = Len(list) - 1 /\ list[Len(list)] = n
    BY <1>1, <1>2, ChainFacts DEF Held, ChainInv, Idle
  <1>4. /\ c \in DOMAIN list /\ l \in DOMAIN list /\ c \in Nat /\ l \in Nat /\ c <= l
        /\ l + 1 \in DOMAIN list /\ l + 1 = Len(list) /\ hw.cur = list[c]
        /\ DOMAIN list = 1..Len(list) /\ Len(list) \in Nat
    BY <1>1, <1>3, ChainFacts DEF Core, InOrder
  <1>5. find_last_linked_cmdbuf(n) = l
    <2>1. PICK p \in DOMAIN list : l < p /\ list[p] = n
      BY <1>3, <1>4
    <2> QED
      BY <1>1, <2>1, FindsLastLinked
  <1>6. vcmd_link_cmdbuf(l)
    BY <1>5 DEF LinkToRunning
  <1>7. JoinsRest(l, linked, run_done, l)
    BY <1>1, LinksRest
  <1>8. sw_rdy' = sw_rdy + 1 /\ sw_rdy \in Nat /\ jmp'[list[l]] = list[l + 1]
    <2>1. Cardinality(Joined(l, linked, run_done)) = 1
      BY <1>3, <1>4, <1>7 DEF JoinsRest
    <2>2. jmp'[list[l]] = list[l + 1]
      BY <1>4, <1>6, <1>7 DEF JoinsRest, vcmd_link_cmdbuf
    <2> QED
      BY <1>6, <2>1, <2>2 DEF vcmd_link_cmdbuf, ChainInv, ChainTypes
  <1>9. /\ hw' = IF hw.phase = "pend" /\ hw.exe < hw'.rdy /\ jmp'[hw.cur] # None
                 THEN [hw EXCEPT !.phase = "exec", !.cur = jmp'[hw.cur], !.rdy = sw_rdy']
                 ELSE [hw EXCEPT !.rdy = sw_rdy']
        /\ hw'.rdy = sw_rdy' /\ hw \in HwStates
    <2>1. WriteReady(sw_rdy', jmp')
      BY <1>8 DEF LinkToRunning
    <2> QED
      BY <2>1 DEF WriteReady, ChainInv, ChainTypes, HwStates
  <1>10. sw_rdy = hw.rdy /\ hw.rdy - hw.exe = l - Passed(c) /\ (hw.phase = "pend" => l = c)
    BY <1>1, <1>3 DEF Core, Chained
  <1>11. CASE hw.phase = "pend"
    <2>1. c = l /\ Passed(c) = c /\ hw.exe < hw'.rdy
      BY <1>4, <1>8, <1>9, <1>10, <1>11, ChainFacts DEF Passed
    <2>2. jmp'[hw.cur] = list[l + 1] /\ list[l + 1] \in Bufs /\ list[l + 1] # None
      BY <1>4, <1>8, <2>1, ChainFacts
    <2>3. hw' = [hw EXCEPT !.phase = "exec", !.cur = list[l + 1], !.rdy = sw_rdy']
      BY <1>9, <1>11, <2>1, <2>2
    <2>4. sw_rdy' \in Nat
      BY <1>8
    <2>5. /\ hw' \in HwStates /\ hw'.phase = "exec" /\ hw'.cur = list[l + 1] /\ ~hw'.abort
          /\ hw'.exe = hw.exe
      BY <1>3, <1>9, <2>2, <2>3, <2>4 DEF HwStates
    <2>6. hw'.rdy - hw'.exe = Len(list) - Passed(c)
      BY <1>4, <1>8, <1>9, <1>10, <2>1, <2>5, ChainFacts
    <2>7. PICK e \in DOMAIN list : e \in {c, c + 1} /\ e - 1 = Passed(c) /\ e = l + 1
      BY <1>4, <2>1
    <2> QED
      BY <1>1, <1>2, <1>3, <1>6, <1>9, <2>5, <2>6, <2>7, LinkedStep
  <1>12. CASE hw.phase = "exec"
    <2>1. hw' = [hw EXCEPT !.rdy = sw_rdy'] /\ sw_rdy' \in Nat
      BY <1>8, <1>9, <1>12
    <2>2. /\ hw' \in HwStates /\ hw'.phase = "exec" /\ hw'.cur = list[c] /\ ~hw'.abort
          /\ hw'.exe = hw.exe
      BY <1>3, <1>4, <1>9, <1>12, <2>1 DEF HwStates
    <2>3. Passed(c) = c - 1
      BY <1>12 DEF Passed
    <2>4. hw'.rdy - hw'.exe = Len(list) - Passed(c)
      BY <1>4, <1>8, <1>9, <1>10, <2>2, <2>3, ChainFacts
    <2> QED
      BY <1>1, <1>2, <1>3, <1>4, <1>6, <1>9, <2>2, <2>3, <2>4, LinkedStep
  <1> QED
    BY <1>3, <1>11, <1>12

(* A core that stood is started at the first buffer behind c, and l moves  *)
(* to the end.                                                             *)
LEMMA LinkAndStartStep ==
  ASSUME ChainInv, ListInv', NEW n \in Ids, LinkAndStart(n)
  PROVE  ChainInv'
  <1>1. PICK c, d, l : Core(c, d, l) /\ Held(l)
    BY DEF ChainInv, Shape
  <1>2. stage[n] = "patched" /\ ~working /\ LeaveSection(n) /\ sem = n
    BY ChainFacts DEF LinkAndStart, Sections
  <1>3. /\ hw.phase = "off" /\ "ABORT" \notin irq /\ l < Len(list)
        /\ sw_rdy = 0 /\ c = l /\ d = l /\ Passed(c) = c
    BY <1>1, <1>2, ChainFacts DEF Core, Rested, Held, ChainInv, Idle, Passed
  <1>4. /\ l \in DOMAIN list /\ l \in Nat /\ l + 1 \in DOMAIN list /\ l + 1 \in Nat
        /\ DOMAIN list = 1..Len(list) /\ Len(list) \in Nat
        /\ \A j \in DOMAIN list : (linked[list[j]] <=> j <= l) /\ (run_done[list[j]] <=> j <= l)
    BY <1>1, <1>3, ChainFacts DEF Core, InOrder, Cut
  <1>5. find_last_linked_cmdbuf(n) = l
    <2>1. PICK p \in DOMAIN list : list[p] = n
      BY <1>2, ChainFacts DEF Listed
    <2>2. ~linked[n]
      BY <1>2, ChainFacts DEF ChainInv, Buffers, StageTells, Unlinked
    <2>3. l < p
      BY <1>4, <2>1, <2>2
    <2> QED
      BY <1>1, <2>1, <2>3, FindsLastLinked
  <1>6. vcmd_link_cmdbuf(l)
    BY <1>5 DEF LinkAndStart
  <1>7. sw_rdy' = Len(list) - l /\ sw_rdy' \in Nat /\ sw_rdy' # 0
    <2>1. Cardinality(Joined(l, linked, run_done)) = Len(list) - l
      BY <1>1, LinksRest DEF JoinsRest
    <2> QED
      BY <1>3, <1>4, <1>6, <2>1 DEF vcmd_link_cmdbuf
  <1>8. vcmd_start(list[l + 1], sw_rdy')
    <2> DEFINE ready == {j \in l..Len(list) : ~run_done[list[j]]}
    <2>1. \A j \in ready : j \in Int /\ l + 1 <= j
      BY <1>4
    <2>2. l + 1 \in ready
      BY <1>4
    <2>3. IF ready # {} /\ sw_rdy' # 0
          THEN vcmd_start(list[Min(ready)], sw_rdy')
          ELSE UNCHANGED <<working, hw>>
      BY <1>5 DEF LinkAndStart
    <2> HIDE DEF ready
    <2>4. Min(ready) = l + 1
      <3>1. \A x \in ready : (\A y \in ready : x <= y) => x = l + 1
        BY <1>4, <2>1, <2>2
      <3> QED
        BY <1>4, <2>1, <2>2, <3>1 DEF Min
    <2> QED
      BY <1>7, <2>2, <2>3, <2>4
  <1>9. /\ working' /\ hw' \in HwStates /\ hw'.phase = "exec" /\ hw'.cur = list[l + 1]
        /\ hw'.exe = 0 /\ hw'.rdy = sw_rdy' /\ ~hw'.abort
    <2>1. list[l + 1] \in Bufs
      BY <1>4, ChainFacts
    <2> QED
      BY <1>7, <1>8, <2>1 DEF vcmd_start, HwStates
  <1>10. hw'.rdy - hw'.exe = Len(list) - Passed(c)
    BY <1>3, <1>4, <1>7, <1>9
  <1>11. PICK e \in DOMAIN list : e \in {c, c + 1} /\ e - 1 = Passed(c) /\ e = l + 1
    BY <1>3, <1>4
  <1> QED
    BY <1>1, <1>2, <1>3, <1>6, <1>9, <1>10, <1>11, LinkedStep

(* A buffer put into the list behind what is linked.                       *)
LEMMA InsertStep ==
  ASSUME ChainInv, ListInv', NEW n \in Ids, NEW c, NEW d, NEW l, Core(c, d, l),
         NEW p \in 1..(Len(list) + 1), l < p,
         HasInserted(list', list, p, n), Len(list') = Len(list) + 1,
         stage[n] \in {"reserved", "aborting"},
         stage' = [stage EXCEPT ![n] = "inserted"], sem' = n,
         sw_abort' \in BOOLEAN,
         UNCHANGED <<prio, linked, run_done, status, jmp, patched, working, sw_rdy,
                     ddr_id, ddr_exe, ran, hw, irq>>,
         ~hw.abort, working => /\ hw.phase # "off" /\ l = Len(list) /\ p = Len(list) + 1
  PROVE  ChainInv'
  <1>1. /\ c \in DOMAIN list /\ d \in DOMAIN list /\ l \in DOMAIN list
        /\ c \in Nat /\ d \in Nat /\ l \in Nat /\ c <= l /\ d <= l /\ l <= Len(list)
        /\ Len(list) \in Nat \ {0} /\ DOMAIN list = 1..Len(list)
        /\ Passed(c) <= c /\ Passed(c) \in Int
    BY ChainFacts DEF Core, InOrder, Passed
  <1>2. \A j \in DOMAIN list :
          /\ linked[list[j]] <=> j <= l
          /\ list[j] \in ran <=> j <= Passed(c)
          /\ run_done[list[j]] <=> j <= d
          /\ j <= l => patched[list[j]]
    BY DEF Core, Cut
  <1>3. DOMAIN list' = 1..(Len(list) + 1)
    <2>1. list' \in Seq(Bufs)
      BY DEF ListInv, ListTypes
    <2>2. DOMAIN list' = 1..Len(list')
      BY <2>1, LenProperties
    <2> QED
      BY <2>2
  <1>4. ~linked[n] /\ ~run_done[n] /\ n \notin ran
    BY ChainFacts DEF ChainInv, Buffers, StageTells, Unlinked
  <1>5. \A j \in DOMAIN list' :
          /\ j < p => j \in DOMAIN list /\ list'[j] = list[j]
          /\ p <= j => \/ list'[j] = n
                       \/ \E i \in DOMAIN list : l < i /\ list'[j] = list[i]
    <2> TAKE j \in DOMAIN list'
    <2>1. list'[j] = IF j < p THEN list[j] ELSE IF j = p THEN n ELSE list[j - 1]
      BY <1>3 DEF HasInserted
    <2>2. p < j => j - 1 \in DOMAIN list /\ l < j - 1
      BY <1>1, <1>3
    <2>3. j < p => j \in DOMAIN list
      BY <1>1, <1>3
    <2> QED
      BY <1>1, <1>3, <2>1, <2>2, <2>3
  <1>6. \A m \in Bufs : stage'[m] = IF m = n THEN "inserted" ELSE stage[m]
    BY ChainFacts
  <1>7. ChainTypes'
    BY DEF ChainInv, ChainTypes
  <1>8. Buffers'
    <2> SUFFICES ASSUME NEW m \in Bufs PROVE StageTells(m)'
      BY DEF Buffers
    <2>1. StageTells(m)
      BY DEF ChainInv, Buffers
    <2> QED
      BY <1>6, <2>1 DEF StageTells, Unlinked
  <1>9. Idle'
    BY DEF ChainInv, Idle
  <1>10. PICK P : P = Passed(c) /\ P = Passed(c)'
    BY DEF Passed
  <1>11. /\ c \in DOMAIN list' /\ d \in DOMAIN list' /\ l \in DOMAIN list'
         /\ list'[c] = list[c]
    <2>1. /\ c \in DOMAIN list' /\ d \in DOMAIN list' /\ l \in DOMAIN list' /\ c < p
      BY <1>1, <1>3
    <2> QED
      BY <1>5, <2>1
  <1>12. InOrder(c, d, l)'
    BY <1>10, <1>11 DEF Core, InOrder
  <1>13. Cut(c, d, l)'
    <2> SUFFICES ASSUME NEW j \in DOMAIN list'
                 PROVE  /\ linked[list'[j]] <=> j <= l
                        /\ list'[j] \in ran <=> j <= P
                        /\ run_done[list'[j]] <=> j <= d
                        /\ j <= l => patched[list'[j]]
      BY <1>10 DEF Cut
    <2>1. CASE j < p
      BY <1>2, <1>5, <1>10, <2>1
    <2>2. CASE p <= j
      <3>1. ~(j <= l) /\ ~(j <= P) /\ ~(j <= d)
        BY <1>1, <1>3, <1>10, <2>2
      <3>2. ~linked[list'[j]] /\ ~run_done[list'[j]] /\ list'[j] \notin ran
        <4>1. CASE list'[j] = n
          BY <1>4, <4>1
        <4>2. CASE \E i \in DOMAIN list : l < i /\ list'[j] = list[i]
          <5>1. PICK i \in DOMAIN list : l < i /\ list'[j] = list[i]
            BY <4>2
          <5>2. ~(i <= l) /\ ~(i <= Passed(c)) /\ ~(i <= d)
            BY <1>1, <5>1
          <5> QED
            BY <1>2, <5>1, <5>2
        <4> QED
          BY <1>5, <2>2, <4>1, <4>2
      <3> QED
        BY <3>1, <3>2
    <2> QED
      BY <1>3, <2>1, <2>2
  <1>14. Chained(c, l)'
    <2>1. \A j \in DOMAIN list' : c < j /\ j <= l =>
              /\ j \in DOMAIN list /\ list'[j] = list[j] /\ list'[j - 1] = list[j - 1]
      <3> SUFFICES ASSUME NEW j \in DOMAIN list', c < j, j <= l
                   PROVE  /\ j \in DOMAIN list /\ list'[j] = list[j]
                          /\ list'[j - 1] = list[j - 1]
        OBVIOUS
      <3>1. j - 1 \in DOMAIN list' /\ j - 1 < p /\ j < p
        BY <1>1, <1>3
      <3> QED
        BY <1>5, <3>1
    <2> QED
      BY <1>10, <2>1 DEF Core, Chained
  <1>15. Told(c, d)'
    <2>1. "JMP" \in irq => list'[P] = list[P]
      <3>1. "JMP" \in irq => P \in DOMAIN list' /\ P < p
        BY <1>1, <1>3, <1>10 DEF Core, Told
      <3> QED
        BY <1>5, <3>1
    <2> QED
      BY <1>10, <2>1 DEF Core, Told
  <1>16. Rested(c, d, l)'
    BY DEF Core, Rested
  <1>17. Held(l)'
    <2>1. n # None /\ stage'[n] = "inserted"
      BY <1>6, ChainFacts
    <2>2. l < Len(list) + 1
      BY <1>1
    <2>3. working => l = Len(list') - 1 /\ list'[Len(list')] = n
      <3>1. working => Len(list) + 1 \in DOMAIN list' /\ p = Len(list) + 1
        BY <1>1, <1>3
      <3>2. working => list'[Len(list) + 1] = n
        BY <1>1, <1>3, <3>1 DEF HasInserted
      <3> QED
        BY <1>1, <3>2
    <2> QED
      BY <2>1, <2>2, <2>3 DEF Held
  <1> QED
    BY <1>7, <1>8, <1>9, <1>12, <1>13, <1>14, <1>15, <1>16, <1>17 DEF ChainInv, Core, Shape

(* A buffer that goes to the tail moves none of the three positions.       *)
LEMMA SelectTailStep ==
  ASSUME ChainInv, ListInv', NEW n \in Ids, SelectTail(n)
  PROVE  ChainInv'
  <1>1. PICK c, d, l : Core(c, d, l) /\ Held(l)
    BY DEF ChainInv, Shape
  <1>2. l = Len(list) /\ working /\ hw.phase # "off" /\ ~hw.abort
    BY <1>1 DEF SelectTail, Held
  <1>3. /\ stage[n] = "reserved" /\ stage' = [stage EXCEPT ![n] = "inserted"] /\ sem' = n
        /\ list' = Append(list, n)
        /\ UNCHANGED <<prio, linked, run_done, status, jmp, patched, working, sw_rdy,
                       sw_abort, ddr_id, ddr_exe, ran, hw, irq>>
    BY DEF SelectTail, linkVars, doneVars, ddrVars
  <1>4. Len(list) + 1 \in 1..(Len(list) + 1) /\ l < Len(list) + 1
    BY <1>2, ChainFacts
  <1>5. HasInserted(list', list, Len(list) + 1, n) /\ Len(list') = Len(list) + 1
    <2>1. list \in Seq(Bufs) /\ n \in Bufs /\ Len(list) \in Nat
      BY ChainFacts
    <2>2. /\ Len(Append(list, n)) = Len(list) + 1
          /\ \A i \in 1..Len(list) : Append(list, n)[i] = list[i]
          /\ Append(list, n)[Len(list) + 1] = n
      BY <2>1, AppendProperties
    <2> QED
      BY <1>3, <2>1, <2>2 DEF HasInserted
  <1>6. PICK p \in 1..(Len(list) + 1) : p = Len(list) + 1 /\ l < p
    BY <1>4
  <1>7. sw_abort' \in BOOLEAN
    BY <1>3 DEF ChainInv, ChainTypes
  <1> QED
    BY <1>1, <1>2, <1>3, <1>5, <1>6, <1>7, InsertStep

(* The woken thread inserts before the first normal buffer left, behind l. *)
LEMMA AbortWakeStep ==
  ASSUME ChainInv, ListInv', NEW n \in Ids, AbortWake(n)
  PROVE  ChainInv'
  <1>1. PICK c, d, l : Core(c, d, l) /\ Held(l)
    BY DEF ChainInv, Shape
  <1>2. ~working /\ ~hw.abort /\ d = l
    BY <1>1 DEF AbortWake, wait_abort_rdy, ChainInv, Idle, Core, Rested
  <1>3. /\ stage[n] = "aborting" /\ stage' = [stage EXCEPT ![n] = "inserted"]
        /\ sw_abort' = FALSE
        /\ list' = InsertAt(list, InsertPosition, n)
        /\ UNCHANGED <<prio, sem, linked, run_done, status, jmp, patched, working, sw_rdy,
                       ddr_id, ddr_exe, ran, hw, irq>>
    BY DEF AbortWake, linkVars, doneVars, ddrVars
  <1>4. sem' = n
    BY <1>3, ChainFacts DEF Sections
  <1>5. PICK p \in 1..(Len(list) + 1) : p = InsertPosition /\ l < p
    <2>1. ListInv /\ Len(list) \in Nat
      BY ChainFacts DEF ChainInv
    <2>2. /\ InsertPosition \in 2..(Len(list) + 1)
          /\ InsertPosition \in DOMAIN list => ~run_done[list[InsertPosition]]
      BY <2>1, InsertPositionInList
    <2>3. InsertPosition \in DOMAIN list => ~(InsertPosition <= d)
      BY <1>1, <2>2 DEF Core, Cut
    <2>4. l \in DOMAIN list /\ DOMAIN list = 1..Len(list)
      BY <1>1, ChainFacts DEF Core, InOrder
    <2> QED
      BY <1>2, <2>1, <2>2, <2>3, <2>4
  <1>6. HasInserted(list', list, p, n) /\ Len(list') = Len(list) + 1
    <2>1. list \in Seq(Bufs) /\ n \in Bufs
      BY ChainFacts
    <2> QED
      BY <1>3, <1>5, <2>1, InsertedElements
  <1> QED
    BY <1>1, <1>2, <1>3, <1>4, <1>5, <1>6, InsertStep

(* A release takes out positions up to t, and the rest moves down by g.    *)
MovesDown(t, g) ==
    /\ t \in Nat /\ g \in Nat /\ (g = 0 \/ g < t)
    /\ Len(list') = Len(list) - g /\ DOMAIN list' = 1..(Len(list) - g)
    /\ g < Len(list)
    /\ \A i \in DOMAIN list' :
          \E j \in DOMAIN list :
             list'[i] = list[j] /\ (t < i + g => j = i + g) /\ (i + g <= t => j <= t)

(* A release of buffers up to position t moves the ones behind it down.    *)
LEMMA ReleaseMovesDown ==
  ASSUME ListInv, NEW n \in Ids, NEW q, NEW S, ReleaseKeeps(n, q, S),
         NEW t \in Nat, t <= Len(list), \A j \in DOMAIN list : j \notin S => j <= t
  PROVE  \E g : MovesDown(t, g)
  <1>1. /\ Len(list) \in Nat \ {0} /\ DOMAIN list = 1..Len(list)
        /\ S \in SUBSET (1..Len(list))
    BY ListPositions DEF ReleaseKeeps
  <1>2. /\ Cardinality(S) \in 1..Len(list) /\ Len(list') = Cardinality(S)
        /\ DOMAIN list' = 1..Cardinality(S)
        /\ \A i \in DOMAIN list' : Place(S, i) \in S /\ list'[i] = list[Place(S, i)]
        /\ Place(S, 1) = 1
    BY ListAfterRelease
  <1>3. PICK N \in Nat : N = Len(list)
    BY <1>1
  <1>4. PICK C \in 1..N : C = Cardinality(S)
    BY <1>2, <1>3
  <1>5. PICK g : g = N - C
    OBVIOUS
  <1>6. \A i \in 1..C : /\ t < i + g => Place(S, i) = i + g
                        /\ i + g <= t => Place(S, i) <= t
    <2>1. t \in 0..N /\ S \in SUBSET (1..N) /\ \A j \in 1..N : t < j => j \in S
      BY <1>1, <1>3
    <2>2. \A i \in 1..Cardinality(S) :
              /\ t < i + (N - Cardinality(S)) => Place(S, i) = i + (N - Cardinality(S))
              /\ i + (N - Cardinality(S)) <= t => Place(S, i) <= t
      BY <2>1, PlacesAfterGaps
    <2> QED
      BY <1>4, <1>5, <2>2
  <1>7. g \in Nat /\ g < N /\ Len(list') = N - g /\ DOMAIN list' = 1..(N - g)
    BY <1>2, <1>4, <1>5
  <1>8. g = 0 \/ g < t
    <2>1. 1 \in 1..C
      BY <1>4
    <2>2. t < 1 + g => g = 0
      BY <1>2, <1>6, <1>7, <2>1
    <2> QED
      BY <1>7, <2>2
  <1>9. \A i \in DOMAIN list' :
          \E j \in DOMAIN list :
             list'[i] = list[j] /\ (t < i + g => j = i + g) /\ (i + g <= t => j <= t)
    <2> TAKE i \in DOMAIN list'
    <2>1. Place(S, i) \in DOMAIN list /\ list'[i] = list[Place(S, i)]
      BY <1>1, <1>2
    <2>2. i \in 1..C
      BY <1>2, <1>4
    <2> QED
      BY <1>6, <2>1, <2>2
  <1> QED
    BY <1>3, <1>7, <1>8, <1>9 DEF MovesDown

(* A release frees no buffer the hardware is at.                           *)
LEMMA ReleaseStep ==
  ASSUME ChainInv, ListInv', NEW n \in Ids, release_cmdbuf(n)
  PROVE  ChainInv'
  <1>1. PICK c, d, l : Core(c, d, l) /\ Held(l)
    BY DEF ChainInv, Shape
  <1>2. /\ stage[n] = "waited" /\ sem = None
        /\ UNCHANGED <<prio, linked, run_done, status, jmp, patched, sem, working, sw_rdy,
                       sw_abort, ddr_id, ddr_exe, ran, hw, irq>>
    BY DEF release_cmdbuf, linkVars, doneVars, ddrVars
  <1>3. l = Len(list) /\ working /\ hw.phase \in {"exec", "pend"} /\ ~hw.abort
    BY <1>1, <1>2, ChainFacts DEF Held
  <1>4. PICK P : P = Passed(c)
    OBVIOUS
  <1>5. /\ c \in DOMAIN list /\ d \in DOMAIN list /\ l \in DOMAIN list
        /\ c \in Nat /\ d \in Nat /\ l \in Nat /\ P \in Nat /\ 1 <= d
        /\ d <= P /\ c <= l /\ P <= c /\ hw.cur = list[c]
        /\ DOMAIN list = 1..Len(list) /\ Len(list) \in Nat
        /\ hw.phase = "exec" => P = c - 1
        /\ hw.phase # "exec" => P = c
    BY <1>1, <1>4, ChainFacts DEF Core, InOrder, Passed
  <1>6. \A j \in DOMAIN list :
          /\ linked[list[j]] <=> j <= l
          /\ list[j] \in ran <=> j <= P
          /\ run_done[list[j]] <=> j <= d
          /\ j <= l => patched[list[j]]
    BY <1>1, <1>4 DEF Core, Cut
  <1>7. /\ sw_rdy = hw.rdy /\ hw.rdy - hw.exe = l - P
        /\ \A j \in DOMAIN list : c < j /\ j <= l => jmp[list[j - 1]] = list[j]
        /\ hw.phase = "pend" => l = c
    BY <1>1, <1>3, <1>4 DEF Core, Chained
  <1>8. PICK q, S : ReleaseKeeps(n, q, S)
    BY ReleaseKeepsTheRest DEF ChainInv
  <1>9. PICK t \in Nat : t <= d /\ t < c /\ \A j \in DOMAIN list : j \notin S => j <= t
    <2>1. q \in DOMAIN list /\ q <= d
      <3>1. run_done[n]
        BY <1>2, ChainFacts DEF ChainInv, Buffers, StageTells
      <3> QED
        BY <1>6, <1>8, <3>1 DEF ReleaseKeeps
    <2>2. \A j \in DOMAIN list : j \notin S => j <= q /\ j # Len(list)
      BY <1>8 DEF ReleaseKeeps
    <2>3. CASE d < c
      BY <1>5, <2>1, <2>2, <2>3
    <2>4. CASE d = c
      <3>1. c = Len(list)
        BY <1>3, <1>5, <1>7, <2>4
      <3>2. c - 1 \in Nat /\ c - 1 <= d /\ c - 1 < c
        BY <1>5, <2>4
      <3>3. \A j \in DOMAIN list : j \notin S => j <= c - 1
        <4> SUFFICES ASSUME NEW j \in DOMAIN list, j \notin S PROVE j <= c - 1
          OBVIOUS
        <4>1. j \in Nat /\ q \in Nat
          BY <1>5, <2>1
        <4>2. j <= q /\ j # Len(list)
          BY <2>2
        <4>3. q <= c /\ j # c
          BY <2>1, <2>4, <3>1, <4>2
        <4> QED
          BY <1>5, <4>1, <4>2, <4>3
      <3> QED
        BY <3>2, <3>3
    <2> QED
      BY <1>5, <2>3, <2>4
  <1>10. PICK g : MovesDown(t, g)
    BY <1>3, <1>5, <1>8, <1>9, ReleaseMovesDown DEF ChainInv
  <1>11. /\ g \in Nat /\ (g = 0 \/ g < d) /\ g < Len(list)
         /\ Len(list') = Len(list) - g /\ DOMAIN list' = 1..(Len(list) - g)
    BY <1>5, <1>9, <1>10 DEF MovesDown
  <1>12. \A i \in DOMAIN list' :
           \E j \in DOMAIN list :
             list'[i] = list[j] /\ (t < i + g => j = i + g) /\ (i + g <= t => j <= t)
    BY <1>10 DEF MovesDown
  <1>13. \A i \in DOMAIN list' : t < i + g => list'[i] = list[i + g] /\ i + g \in DOMAIN list
    BY <1>12
  <1>14. PICK cc, dd, ll : cc = c - g /\ dd = d - g /\ ll = l - g
    OBVIOUS
  <1>15. PICK PP : PP = P - g /\ PP = Passed(cc)'
    <2>1. c - g - 1 = c - 1 - g
      BY <1>5, <1>11
    <2>2. Passed(cc)' = P - g
      BY <1>2, <1>5, <1>14, <2>1 DEF Passed
    <2> QED
      BY <2>2
  <1>16. /\ cc \in DOMAIN list' /\ dd \in DOMAIN list' /\ ll \in DOMAIN list'
         /\ dd <= PP /\ cc <= ll /\ ll = Len(list')
    BY <1>3, <1>5, <1>11, <1>14, <1>15
  <1>17. hw.cur = list'[cc]
    BY <1>5, <1>9, <1>11, <1>13, <1>14, <1>16, SMTT(20)
  <1>18. InOrder(cc, dd, ll)'
    BY <1>2, <1>15, <1>16, <1>17 DEF InOrder
  <1>19. Cut(cc, dd, ll)'
    <2> SUFFICES ASSUME NEW i \in DOMAIN list'
                 PROVE  /\ linked[list'[i]] <=> i <= ll
                        /\ list'[i] \in ran <=> i <= PP
                        /\ run_done[list'[i]] <=> i <= dd
                        /\ i <= ll => patched[list'[i]]
      BY <1>2, <1>15 DEF Cut
    <2>1. PICK j \in DOMAIN list :
            list'[i] = list[j] /\ (t < i + g => j = i + g) /\ (i + g <= t => j <= t)
      BY <1>12
    <2>2. i \in Nat /\ j \in Nat /\ i <= ll /\ j <= l
      BY <1>3, <1>5, <1>11, <1>14, <1>16
    <2>3. (j <= P <=> i <= PP) /\ (j <= d <=> i <= dd)
      <3>1. t \in Nat /\ t <= d /\ d <= P /\ P \in Nat /\ d \in Nat /\ g \in Nat
        BY <1>5, <1>9, <1>11
      <3>2. CASE t < i + g
        BY <1>14, <1>15, <2>1, <2>2, <3>1, <3>2
      <3>3. CASE i + g <= t
        BY <1>14, <1>15, <2>1, <2>2, <3>1, <3>3
      <3> QED
        BY <2>2, <3>1, <3>2, <3>3
    <2> QED
      BY <1>6, <2>1, <2>2, <2>3
  <1>20. Chained(cc, ll)'
    <2>1. hw.rdy - hw.exe = ll - PP
      BY <1>5, <1>7, <1>11, <1>14, <1>15, ChainFacts, SMTT(20)
    <2>2. ASSUME NEW i \in DOMAIN list', cc < i, i <= ll
          PROVE  jmp[list'[i - 1]] = list'[i]
      <3>1. i - 1 \in DOMAIN list' /\ t < (i - 1) + g /\ t < i + g /\ (i - 1) + g = (i + g) - 1
        <4>1. /\ i \in Nat /\ c \in Nat /\ g \in Nat /\ t \in Nat /\ t < c /\ g < c
              /\ c - g < i /\ i <= Len(list) - g /\ Len(list) \in Nat
          BY <1>5, <1>9, <1>11, <1>14, <2>2, SMTT(20)
        <4> QED
          BY <1>11, <4>1
      <3>2. PICK k \in DOMAIN list : k = i + g /\ list'[i] = list[k]
        BY <1>13, <3>1
      <3>3. PICK h \in DOMAIN list' : h = i - 1 /\ t < h + g /\ h + g = k - 1
        BY <3>1, <3>2
      <3>4. list'[i - 1] = list[k - 1]
        BY <1>13, <3>3
      <3>5. c < k /\ k <= l
        BY <1>3, <1>5, <1>11, <1>14, <2>2, <3>2
      <3> QED
        BY <1>7, <3>2, <3>4, <3>5
    <2>3. hw.phase = "pend" => ll = cc
      BY <1>7, <1>14
    <2> QED
      BY <1>2, <1>7, <1>15, <2>1, <2>2, <2>3 DEF Chained
  <1>21. Told(cc, dd)'
    <2>1. "JMP" \in irq => ddr_id = list[P] /\ d < P
      BY <1>1, <1>4 DEF Core, Told
    <2>2. "JMP" \in irq => PP \in DOMAIN list' /\ t < PP + g /\ PP + g = P /\ dd < PP
      BY <1>3, <1>5, <1>9, <1>11, <1>14, <1>15, <2>1, SMTT(20)
    <2> QED
      BY <1>2, <1>13, <1>15, <2>1, <2>2 DEF Told
  <1>22. Rested(cc, dd, ll)' /\ Idle'
    BY <1>2, <1>3 DEF Rested, Idle, ChainInv
  <1>23. Held(ll)'
    BY <1>2, <1>3, <1>16 DEF Held
  <1>24. ChainTypes'
    BY <1>2 DEF ChainInv, ChainTypes
  <1>25. Buffers'
    <2> SUFFICES ASSUME NEW m \in Bufs PROVE StageTells(m)'
      BY DEF Buffers
    <2>1. StageTells(m)
      BY DEF ChainInv, Buffers
    <2>2. stage'[m] = "free" \/ stage'[m] = stage[m] \/ (m = n /\ stage'[m] = "released")
      BY <1>8 DEF ReleaseKeeps
    <2> QED
      BY <1>2, <2>1, <2>2 DEF StageTells, Unlinked
  <1> QED
    BY <1>18, <1>19, <1>20, <1>21, <1>22, <1>23, <1>24, <1>25 DEF ChainInv, Core, Shape-----------------------------------------------------------------------------

(* What follows.                                                           *)

LEMMA ChainInit == Init => ChainInv
  <1> SUFFICES ASSUME Init PROVE ChainInv
    OBVIOUS
  <1>1. KernelBuf \in Bufs /\ KernelBuf \notin Ids /\ KernelBuf = 1 /\ sem = None
    BY DEF KernelBuf, Bufs, Ids, Init
  <1>2. list = <<KernelBuf>> /\ Len(list) = 1 /\ DOMAIN list = {1} /\ list[1] = KernelBuf
    BY <1>1 DEF Init
  <1>3. ChainTypes
    <2>1. hw \in HwStates
      BY <1>1 DEF Init, HwStates
    <2> QED
      BY <1>1, <2>1 DEF Init, ChainTypes
  <1>4. Buffers
    <2> SUFFICES ASSUME NEW n \in Bufs PROVE StageTells(n)
      BY DEF Buffers
    <2>1. /\ stage[n] = IF n = KernelBuf THEN "waited" ELSE "free"
          /\ linked[n] <=> n = KernelBuf
          /\ run_done[n] <=> n = KernelBuf
          /\ patched[n] <=> n = KernelBuf
          /\ n \in ran <=> n = KernelBuf
      BY DEF Init
    <2> QED
      BY <2>1 DEF StageTells, Unlinked
  <1>5. Idle
    BY DEF Init, Idle
  <1>6. hw.phase = "pend" /\ hw.cur = KernelBuf /\ hw.exe = 1 /\ hw.rdy = 1 /\ ~hw.abort
    BY DEF Init
  <1>7. Core(1, 1, 1)
    <2>1. Passed(1) = 1
      BY <1>6 DEF Passed
    <2>2. InOrder(1, 1, 1)
      BY <1>2, <1>6, <2>1 DEF InOrder
    <2>3. Cut(1, 1, 1)
      <3>1. /\ linked[KernelBuf] /\ run_done[KernelBuf] /\ patched[KernelBuf]
            /\ KernelBuf \in ran
        BY <1>1 DEF Init
      <3>2. \A j \in DOMAIN list : j = 1 /\ j <= 1 /\ list[j] = KernelBuf
        BY <1>2
      <3> QED
        BY <2>1, <3>1, <3>2 DEF Cut
    <2>4. Chained(1, 1)
      BY <1>2, <1>6, <2>1 DEF Init, Chained
    <2>5. Told(1, 1) /\ Rested(1, 1, 1)
      BY DEF Init, Told, Rested
    <2> QED
      BY <2>2, <2>3, <2>4, <2>5 DEF Core
  <1>8. Held(1)
    BY <1>1, <1>2, <1>6 DEF Init, Held
  <1> QED
    BY <1>3, <1>4, <1>5, <1>7, <1>8, ListInit DEF ChainInv, Shape

(* Each calm step keeps the chain's invariant.                             *)
LEMMA ChainStep ==
  ASSUME ChainInv, [CalmNext]_vars
  PROVE  ChainInv'
  <1>1. ListInv'
    BY ListStep DEF ChainInv, Next
  <1>2. CASE UNCHANGED vars
    <2>1. PICK c, d, l : Core(c, d, l) /\ Held(l)
      BY DEF ChainInv, Shape
    <2>2. Core(c, d, l)' /\ Held(l)'
      BY <1>2, <2>1 DEF vars, Core, InOrder, Cut, Chained, Told, Rested, Passed, Held
    <2>3. ChainTypes' /\ Buffers' /\ Idle'
      BY <1>2 DEF vars, ChainInv, ChainTypes, Buffers, StageTells, Idle
    <2> QED
      BY <1>1, <2>2, <2>3 DEF ChainInv, Shape
  <1>3. CASE \E n \in Ids, p \in Prios : Reserve(n, p)
    BY <1>1, <1>3, ReserveStep
  <1>4. ASSUME NEW n \in Ids,
               SelectTail(n) \/ SelectBusy(n) \/ Submission(n) \/ Wait(n) \/ release_cmdbuf(n)
        PROVE  ChainInv'
    <2>1. CASE SelectTail(n)
      BY <1>1, <2>1, SelectTailStep
    <2>2. CASE SelectBusy(n) \/ AbortFlag(n) \/ PatchAddresses(n) \/ Wait(n)
      BY <1>1, <2>2, StageStep
    <2>3. CASE AbortTrigger(n)
      BY <1>1, <2>3, AbortTriggerStep
    <2>4. CASE AbortWake(n)
      BY <1>1, <2>4, AbortWakeStep
    <2>5. CASE LinkToRunning(n)
      BY <1>1, <2>5, LinkToRunningStep
    <2>6. CASE LinkAndStart(n)
      BY <1>1, <2>6, LinkAndStartStep
    <2>7. CASE release_cmdbuf(n)
      BY <1>1, <2>7, ReleaseStep
    <2> QED
      BY <1>4, <2>1, <2>2, <2>3, <2>4, <2>5, <2>6, <2>7 DEF Submission
  <1>5. CASE HwFinish
    BY <1>1, <1>5, HwFinishStep
  <1>6. CASE HwAbort
    BY <1>1, <1>6, HwAbortStep
  <1>7. CASE IsrJmp
    BY <1>1, <1>7, JmpStep
  <1>8. CASE IsrAbort
    BY <1>1, <1>8, AbortStep
  <1> QED
    BY <1>2, <1>3, <1>4, <1>5, <1>6, <1>7, <1>8 DEF CalmNext

(* Without signals and errors the list is cut in three.                    *)
THEOREM ChainInvariant == FairSpec => []ChainInv
  BY ChainInit, ChainStep, PTL DEF FairSpec

(* The ready count is that of the linked buffers behind the hardware.      *)
LEMMA CountsAhead ==
  ASSUME ChainInv
  PROVE  ChainMatchesCount
  <1>1. PICK c, d, l : Core(c, d, l)
    BY DEF ChainInv, Shape
  <1>2. PICK P : P = Passed(c)
    OBVIOUS
  <1>3. /\ c \in DOMAIN list /\ l \in DOMAIN list /\ c <= l /\ hw.cur = list[c]
        /\ DOMAIN list = 1..Len(list) /\ Len(list) \in Nat
        /\ c \in Nat /\ l \in Nat /\ P \in Int /\ P >= 0 /\ P <= l
        /\ hw.phase = "exec" => P = c - 1
        /\ hw.phase # "exec" => P = c
    BY <1>1, <1>2, ChainFacts DEF Core, InOrder, Passed
  <1>4. InList(hw.cur) /\ Position(hw.cur) = c
    BY <1>3, PositionOf
  <1>5. Ahead = (P + 1)..l
    <2>1. \A j \in DOMAIN list :
            /\ linked[list[j]]
            /\ j > Position(hw.cur) \/ (j = Position(hw.cur) /\ hw.phase = "exec")
            <=> P + 1 <= j /\ j <= l
      <3> TAKE j \in DOMAIN list
      <3>1. linked[list[j]] <=> j <= l
        BY <1>1 DEF Core, Cut
      <3>2. j > c \/ (j = c /\ hw.phase = "exec") <=> P + 1 <= j
        BY <1>3
      <3> QED
        BY <1>4, <3>1, <3>2
    <2>2. Ahead = {j \in DOMAIN list : P + 1 <= j /\ j <= l}
      BY <2>1 DEF Ahead
    <2>3. \A j \in (P + 1)..l : j \in DOMAIN list
      BY <1>3
    <2> QED
      BY <1>3, <2>2, <2>3
  <1>6. Cardinality(Ahead) = l - P
    <2>1. P + 1 \in Int /\ l \in Int
      BY <1>3
    <2>2. Cardinality((P + 1)..l) = IF P + 1 > l THEN 0 ELSE l - (P + 1) + 1
      BY <2>1, FS_Interval
    <2> QED
      BY <1>3, <1>5, <2>2
  <1>7. \A j \in Ahead : j > Position(hw.cur) => j \in DOMAIN list /\ c < j /\ j <= l
    BY <1>3, <1>4, <1>5
  <1> QED
    BY <1>1, <1>2, <1>4, <1>6, <1>7 DEF ChainMatchesCount, Core, Chained

(* ChainIsQueue: the chain of JMP words the hardware walks is the rest of  *)
(* the driver's list, as long as the ready count says, and it is never     *)
(* left unlinked or unstarted.                                             *)
THEOREM ChainStaysQueue == FairSpec => []ChainIsQueue
  <1>1. ASSUME ChainInv PROVE ChainIsQueue
    <2>1. PICK c, d, l : Core(c, d, l) /\ Held(l)
      BY <1>1 DEF ChainInv, Shape
    <2>2. InterruptFindsNode
      <3>1. irq = {"JMP"} => InTable(ddr_id)
        <4>1. ASSUME irq = {"JMP"} PROVE InTable(ddr_id)
          <5>1. ddr_id = list[Passed(c)] /\ d < Passed(c)
            BY <2>1, <4>1 DEF Core, Told
          <5>2. PICK j \in DOMAIN list : j = Passed(c)
            BY <1>1, <2>1, <5>1, ChainFacts DEF Core, InOrder, Passed
          <5> QED
            BY <1>1, <5>1, <5>2, PositionOf
        <4> QED
          BY <4>1
      <3>2. InTable(hw.cur)
        BY <1>1, <2>1, PositionOf DEF Core, InOrder
      <3> QED
        BY <3>1, <3>2 DEF InterruptFindsNode
    <2>3. NoStrandedWork
      <3>1. sem = None => working /\ \A j \in DOMAIN list : linked[list[j]]
        BY <1>1, <2>1, ChainFacts DEF Core, Cut, Held
      <3> QED
        BY <3>1 DEF NoStrandedWork
    <2> QED
      BY <1>1, <2>2, <2>3, CountsAhead DEF ChainIsQueue
  <1> QED
    BY <1>1, ChainInvariant, PTL

(* ReportedInOrder: whatever is reported done has run, and everything      *)
(* before it in the list is reported too.                                  *)
THEOREM ReportsAreInOrder == FairSpec => []ReportedInOrder
  <1>1. ASSUME ChainInv PROVE ReportedInOrder
    <2>1. PICK c, d, l : Core(c, d, l)
      BY <1>1 DEF ChainInv, Shape
    <2>2. DonePrefix
      <3>1. \A j \in DOMAIN list : run_done[list[j]] <=> j <= d
        BY <2>1 DEF Core, Cut
      <3>2. \A i, j \in DOMAIN list : i < j /\ j <= d => i <= d
        BY <1>1, <2>1, ChainFacts DEF Core, InOrder
      <3> QED
        BY <3>1, <3>2 DEF DonePrefix
    <2>3. OkMeansRan
      BY <1>1 DEF ChainInv, Buffers, StageTells, OkMeansRan
    <2> QED
      BY <2>2, <2>3 DEF ReportedInOrder
  <1> QED
    BY <1>1, ChainInvariant, PTL

(* JmpReportsAll: a JMP interrupt reports every buffer that has run, also  *)
(* those before the one that raised it which raised none.                  *)
THEOREM JmpLeavesNoneBehind == FairSpec => JmpReportsAll
  <1>1. ASSUME ChainInv, IsrJmp
        PROVE  \A j \in DOMAIN list : list[j] \in ran => run_done'[list[j]]
    <2>1. PICK c, d, l :
            /\ Core(c, d, l) /\ Passed(c) \in DOMAIN list /\ d < Passed(c)
            /\ MarkDone(Completed(list[Passed(c)]), {}, "OK")
      BY <1>1, JmpReports
    <2>2. UNCHANGED <<list, stage, ran, patched, prio, linked>>
      BY <1>1 DEF IsrJmp, IsrCommon, listVars, linkVars, ddrVars
    <2>3. PICK q : q = Passed(c)
      OBVIOUS
    <2>4. q \in DOMAIN list /\ d <= q /\ q <= Passed(c)
      BY <1>1, <2>1, <2>3, ChainFacts DEF Core, InOrder
    <2>5. \A j \in DOMAIN list : run_done'[list[j]] <=> j <= q
      BY <1>1, <2>1, <2>2, <2>3, <2>4, MarkedBehind
    <2> QED
      BY <2>1, <2>3, <2>5 DEF Core, Cut
  <1>2. ChainInv /\ [CalmNext]_vars =>
          [IsrJmp => \A j \in DOMAIN list : list[j] \in ran => run_done'[list[j]]]_vars
    BY <1>1
  <1>3. FairSpec => [][CalmNext]_vars
    BY PTL DEF FairSpec
  <1> QED
    BY <1>2, <1>3, ChainInvariant, PTL DEF JmpReportsAll

-----------------------------------------------------------------------------

(* The core is the service of VcmdService: every step is one of its steps, *)
(* or changes neither its queue nor a count.  The counts are 0 and 1.      *)

ServiceQueue ==
    [i \in DOMAIN Undone |-> [id |-> Undone[i], prio |-> prio[Undone[i]]]]

Once == runs = [n \in Bufs |-> IF n \in ran THEN 1 ELSE 0]

(* Nothing is executed twice: what the hardware finishes has not run.      *)
LEMMA OnceStep ==
  ASSUME ChainInv, Once, [CalmNext /\ Counts]_countedVars
  PROVE  Once'
  <1>1. CASE UNCHANGED countedVars
    BY <1>1 DEF countedVars, vars, Once
  <1>2. CASE Counts /\ HwFinish
    <2>1. PICK c, d, l : Core(c, d, l)
      BY DEF ChainInv, Shape
    <2>2. /\ hw.phase = "exec" /\ ran' = ran \cup {hw.cur} /\ hw.cur = list[c]
          /\ c \in DOMAIN list /\ Passed(c) = c - 1
      BY <1>2, <2>1 DEF HwFinish, Core, InOrder, Passed
    <2>3. hw.cur \notin ran /\ hw.cur \in Bufs
      <3>1. ~(c <= Passed(c)) /\ list[c] \in Bufs
        BY <2>2, ChainFacts
      <3> QED
        BY <2>1, <2>2, <3>1 DEF Core, Cut
    <2> QED
      BY <1>2, <2>2, <2>3 DEF Once, Counts
  <1>3. CASE CalmNext /\ Counts /\ ~HwFinish
    <2>1. ran' \subseteq ran
      <3>1. ASSUME NEW n \in Ids, NEW p \in Prios, Reserve(n, p) PROVE ran' \subseteq ran
        BY <3>1 DEF Reserve
      <3>2. ASSUME NEW n \in Ids,
                   \/ SelectTail(n) \/ SelectBusy(n) \/ AbortTrigger(n) \/ AbortFlag(n)
                   \/ AbortWake(n) \/ PatchAddresses(n) \/ LinkToRunning(n)
                   \/ LinkAndStart(n) \/ Wait(n) \/ release_cmdbuf(n)
            PROVE  ran' \subseteq ran
        BY <3>2 DEF SelectTail, SelectBusy, AbortTrigger, AbortFlag, AbortWake,
           PatchAddresses, LinkToRunning, LinkAndStart, LeaveSection, Wait,
           release_cmdbuf, ddrVars
      <3>3. CASE HwAbort \/ IsrJmp \/ IsrAbort
        BY <3>3 DEF HwAbort, IsrJmp, IsrAbort, IsrCommon, ddrVars
      <3> QED
        BY <1>3, <3>1, <3>2, <3>3 DEF CalmNext, Submission
    <2> QED
      BY <1>3, <2>1 DEF Once, Counts
  <1> QED
    BY <1>1, <1>2, <1>3

LEMMA RunsTell ==
  ASSUME Once, NEW n \in Bufs
  PROVE  runs[n] = IF n \in ran THEN 1 ELSE 0
  BY DEF Once

(* The queue that the list s with the priorities pr is behind position d.  *)
QueueOf(s, pr, d) ==
    [i \in 1..(Len(s) - d) |-> [id |-> s[i + d], prio |-> pr[s[i + d]]]]

(* When the done buffers are a prefix, the others are what is behind it.   *)
LEMMA PickedRest ==
  ASSUME NEW s \in Seq(Bufs), NEW f, NEW d \in 0..Len(s),
         \A j \in DOMAIN s : f[s[j]] <=> j <= d
  PROVE  Picked(s, {j \in DOMAIN s : ~f[s[j]]}) = [i \in 1..(Len(s) - d) |-> s[i + d]]
  <1>1. PICK N \in Nat : N = Len(s) /\ DOMAIN s = 1..N
    BY LenProperties
  <1>2. PICK S \in SUBSET (1..N) :
          /\ S = {j \in DOMAIN s : ~f[s[j]]}
          /\ S = (d + 1)..N
    <2>1. \A j \in 1..N : ~f[s[j]] <=> d < j
      BY <1>1
    <2>2. {j \in DOMAIN s : ~f[s[j]]} = {j \in 1..N : d < j}
      BY <1>1, <2>1
    <2>3. {j \in 1..N : d < j} = (d + 1)..N
      BY <1>1
    <2> QED
      BY <2>2, <2>3
  <1>3. Cardinality(S) = N - d
    <2>1. d \in Int /\ d + 1 \in Int /\ N \in Int /\ d <= N
      BY <1>1
    <2>2. Cardinality((d + 1)..N) = IF d + 1 > N THEN 0 ELSE N - (d + 1) + 1
      BY <2>1, FS_Interval
    <2>3. (IF d + 1 > N THEN 0 ELSE N - (d + 1) + 1) = N - d
      BY <2>1
    <2> QED
      BY <1>2, <2>2, <2>3
  <1>4. \A i \in 1..(N - d) : Place(S, i) = i + d
    <2>1. d \in 0..N /\ \A j \in 1..N : d < j => j \in S
      BY <1>1, <1>2
    <2>2. N - Cardinality(S) = d
      BY <1>1, <1>3
    <2>3. \A i \in 1..Cardinality(S) :
            d < i + (N - Cardinality(S)) => Place(S, i) = i + (N - Cardinality(S))
      BY <2>1, PlacesAfterGaps
    <2> QED
      BY <1>1, <1>3, <2>2, <2>3
  <1>5. Picked(s, S) = [i \in 1..Cardinality(S) |-> s[Place(S, i)]]
    BY DEF Picked, Place, Rank
  <1> QED
    BY <1>1, <1>2, <1>3, <1>4, <1>5

(* So they form the queue that the service sees,                           *)
LEMMA QueueFrom ==
  ASSUME NEW s \in Seq(Bufs), NEW f, NEW pr, NEW d \in 0..Len(s),
         \A j \in DOMAIN s : f[s[j]] <=> j <= d,
         NEW u, u = Picked(s, {j \in DOMAIN s : ~f[s[j]]})
  PROVE  [i \in DOMAIN u |-> [id |-> u[i], prio |-> pr[u[i]]]] = QueueOf(s, pr, d)
  <1>1. u = [i \in 1..(Len(s) - d) |-> s[i + d]]
    BY PickedRest
  <1> QED
    BY <1>1 DEF QueueOf

(* The service's queue now and after a step, where run_done ends at d.     *)
LEMMA QueueNow ==
  ASSUME list \in Seq(Bufs), NEW d \in 0..Len(list), EndsAt(run_done, d)
  PROVE  ServiceQueue = QueueOf(list, prio, d)
  <1>1. PICK u : u = Undone
    OBVIOUS
  <1>2. u = Picked(list, {j \in DOMAIN list : ~run_done[list[j]]})
    BY <1>1 DEF Undone
  <1>3. [i \in DOMAIN u |-> [id |-> u[i], prio |-> prio[u[i]]]] = QueueOf(list, prio, d)
    BY <1>2, QueueFrom DEF EndsAt
  <1> QED
    BY <1>1, <1>3 DEF ServiceQueue

(* after a step as before it.                                              *)
LEMMA QueueThen ==
  ASSUME list' \in Seq(Bufs), NEW d \in 0..Len(list'),
         \A j \in DOMAIN list' : run_done'[list'[j]] <=> j <= d
  PROVE  ServiceQueue' = QueueOf(list', prio', d)
  <1>1. PICK u, s, f, pr : u = Undone' /\ s = list' /\ f = run_done' /\ pr = prio'
    OBVIOUS
  <1>2. u = Picked(s, {j \in DOMAIN s : ~f[s[j]]})
    BY <1>1 DEF Undone
  <1>3. s \in Seq(Bufs) /\ d \in 0..Len(s) /\ \A j \in DOMAIN s : f[s[j]] <=> j <= d
    BY <1>1
  <1>4. [i \in DOMAIN u |-> [id |-> u[i], prio |-> pr[u[i]]]] = QueueOf(s, pr, d)
    BY <1>2, <1>3, QueueFrom
  <1> QED
    BY <1>1, <1>4 DEF ServiceQueue

(* Where the service's queue is in the list, and which of it has run.      *)
LEMMA ServiceFacts ==
  ASSUME ChainInv, NEW c, NEW d, NEW l, Core(c, d, l)
  PROVE  /\ d \in Nat /\ d \in DOMAIN list /\ d <= Len(list) /\ c \in DOMAIN list
         /\ l \in DOMAIN list /\ Passed(c) \in Nat /\ d <= Passed(c) /\ Passed(c) <= l
         /\ ServiceQueue = QueueOf(list, prio, d)
         /\ DOMAIN ServiceQueue = 1..(Len(list) - d)
         /\ ServiceQueue \in Seq([id : Bufs, prio : {"normal", "high"}])
         /\ Len(ServiceQueue) = Len(list) - d
         /\ \A i \in DOMAIN ServiceQueue :
              /\ i + d \in DOMAIN list
              /\ ServiceQueue[i].id = list[i + d] /\ ServiceQueue[i].prio = prio[list[i + d]]
         /\ Once => \A j \in DOMAIN list : runs[list[j]] = IF j <= Passed(c) THEN 1 ELSE 0
  <1>1. /\ d \in Nat /\ d \in DOMAIN list /\ d <= Len(list) /\ c \in DOMAIN list
        /\ l \in DOMAIN list /\ Passed(c) \in Nat /\ d <= Passed(c) /\ Passed(c) <= l
        /\ DOMAIN list = 1..Len(list) /\ Len(list) \in Nat /\ list \in Seq(Bufs)
    BY ChainFacts DEF Core, InOrder, Passed
  <1>2. ServiceQueue = QueueOf(list, prio, d)
    <2>1. EndsAt(run_done, d) /\ d \in 0..Len(list)
      BY <1>1 DEF Core, Cut, EndsAt
    <2> QED
      BY <1>1, <2>1, QueueNow
  <1>3. \A i \in 1..(Len(list) - d) : i + d \in DOMAIN list
    BY <1>1
  <1>4. \A j \in DOMAIN list : list[j] \in Bufs /\ prio[list[j]] \in {"normal", "high"}
    BY ChainFacts DEF ChainInv, ChainTypes
  <1>5. /\ DOMAIN ServiceQueue = 1..(Len(list) - d)
        /\ \A i \in DOMAIN ServiceQueue :
              ServiceQueue[i] = [id |-> list[i + d], prio |-> prio[list[i + d]]]
    BY <1>2 DEF QueueOf
  <1>6. /\ ServiceQueue \in Seq([id : Bufs, prio : {"normal", "high"}])
        /\ Len(ServiceQueue) = Len(list) - d
    <2> DEFINE T == [id : Bufs, prio : {"normal", "high"}]
    <2>1. Len(list) - d \in Nat
      BY <1>1
    <2>2. \A i \in 1..(Len(list) - d) :
            [id |-> list[i + d], prio |-> prio[list[i + d]]] \in T
      BY <1>3, <1>4
    <2> HIDE DEF T
    <2>3. ServiceQueue \in [1..(Len(list) - d) -> T]
      BY <1>2, <2>2 DEF QueueOf
    <2>4. ServiceQueue \in Seq(T)
      BY <2>1, <2>3, SeqDef
    <2>5. Len(ServiceQueue) = Len(list) - d
      BY <1>5, <2>1, <2>4, LenProperties
    <2> QED
      BY <2>4, <2>5 DEF T
  <1>7. ASSUME Once, NEW j \in DOMAIN list
        PROVE  runs[list[j]] = IF j <= Passed(c) THEN 1 ELSE 0
    BY <1>4, <1>7, RunsTell DEF Core, Cut
  <1> QED
    BY <1>1, <1>2, <1>3, <1>5, <1>6, <1>7

(* The service begins with an empty queue.                                 *)
LEMMA ServiceInit ==
  ASSUME CountedInit
  PROVE  Service!Init /\ Once
  <1>0. Init /\ runs = [n \in Bufs |-> IF n = KernelBuf THEN 1 ELSE 0]
    BY DEF CountedInit
  <1>1. ChainInv
    BY <1>0, ChainInit
  <1>2. PICK c, d, l : Core(c, d, l)
    BY <1>1 DEF ChainInv, Shape
  <1>3. Len(list) = 1 /\ ran = {KernelBuf} /\ run_done[KernelBuf]
    BY <1>0 DEF Init, Bufs
  <1>4. Len(ServiceQueue) = 0 /\ ServiceQueue \in Seq([id : Bufs, prio : {"normal", "high"}])
    <2>1. /\ d \in Nat /\ d \in DOMAIN list /\ Len(ServiceQueue) = Len(list) - d
          /\ ServiceQueue \in Seq([id : Bufs, prio : {"normal", "high"}])
      BY <1>1, <1>2, ServiceFacts
    <2>2. d = 1
      BY <1>1, <1>3, <2>1, ChainFacts
    <2> QED
      BY <1>3, <2>1, <2>2
  <1>5. ServiceQueue = <<>>
    BY <1>4, EmptySeq
  <1>6. Once /\ runs \in [Bufs -> {0, 1}]
    BY <1>0, <1>3 DEF Once
  <1> QED
    BY <1>5, <1>6 DEF Service!Init, ServiceQueue

(* What the service does not see.                                          *)
LEMMA UnseenStep ==
  ASSUME Once, Once', UNCHANGED <<list, prio, run_done, ran>>
  PROVE  UNCHANGED <<ServiceQueue, runs>>
  BY DEF ServiceQueue, Undone, Once

(* A reservation is of a slot that is not in the queue.                    *)
LEMMA ReserveServes ==
  ASSUME ChainInv, Once, Once', NEW n \in Ids, NEW p \in Prios, Reserve(n, p)
  PROVE  Service!Next
  <1>1. PICK c, d, l : Core(c, d, l)
    BY DEF ChainInv, Shape
  <1>2. /\ stage[n] = "free" /\ prio' = [prio EXCEPT ![n] = p]
        /\ run_done' = [run_done EXCEPT ![n] = FALSE]
        /\ ran' = ran \ {n} /\ list' = list
    BY DEF Reserve
  <1>3. \A j \in DOMAIN list : list[j] # n /\ list[j] \in Bufs
    BY <1>2, ChainFacts DEF Listed
  <1>4. \A j \in DOMAIN list : /\ run_done'[list[j]] <=> run_done[list[j]]
                               /\ prio'[list[j]] = prio[list[j]]
    BY <1>2, <1>3, ChainFacts DEF ChainInv, ChainTypes
  <1>5. d \in 0..Len(list) /\ ServiceQueue = QueueOf(list, prio, d) /\ list \in Seq(Bufs)
    BY <1>1, ServiceFacts, ChainFacts
  <1>6. ServiceQueue' = QueueOf(list', prio', d)
    <2>1. \A j \in DOMAIN list' : run_done'[list'[j]] <=> j <= d
      BY <1>1, <1>2, <1>4 DEF Core, Cut
    <2> QED
      BY <1>2, <1>5, <2>1, QueueThen
  <1>7. QueueOf(list', prio', d) = QueueOf(list, prio, d)
    <2>1. \A i \in 1..(Len(list) - d) : i + d \in DOMAIN list
      BY <1>5, ChainFacts
    <2> QED
      BY <1>2, <1>4, <2>1 DEF QueueOf
  <1>8. n \notin Service!Queued
    <2>1. \A i \in DOMAIN ServiceQueue : ServiceQueue[i].id # n
      BY <1>1, <1>3, ServiceFacts
    <2> QED
      BY <2>1 DEF Service!Queued, ServiceQueue
  <1>9. n \in Bufs /\ runs' = [runs EXCEPT ![n] = 0]
    BY <1>2 DEF Once, Bufs
  <1>10. Service!Reserve(n)
    BY <1>5, <1>6, <1>7, <1>8, <1>9 DEF Service!Reserve, ServiceQueue
  <1> QED
    BY <1>9, <1>10 DEF Service!Next

(* A release takes away nothing but what is done.                          *)
LEMMA ReleaseUnseen ==
  ASSUME ChainInv, ListInv', Once, Once', NEW n \in Ids, release_cmdbuf(n)
  PROVE  UNCHANGED <<ServiceQueue, runs>>
  <1>1. PICK c, d, l : Core(c, d, l)
    BY DEF ChainInv, Shape
  <1>2. stage[n] = "waited" /\ UNCHANGED <<prio, run_done, ran>>
    BY DEF release_cmdbuf, doneVars, ddrVars
  <1>3. /\ d \in Nat /\ d \in DOMAIN list /\ d <= Len(list) /\ Len(list) \in Nat
        /\ DOMAIN list = 1..Len(list) /\ list \in Seq(Bufs)
        /\ ServiceQueue = QueueOf(list, prio, d)
    BY <1>1, ServiceFacts, ChainFacts
  <1>4. \A j \in DOMAIN list : run_done[list[j]] <=> j <= d
    BY <1>1 DEF Core, Cut
  <1>5. PICK q, S : ReleaseKeeps(n, q, S)
    BY ReleaseKeepsTheRest DEF ChainInv
  <1>6. \A j \in DOMAIN list : j \notin S => j <= d
    <2>1. run_done[n]
      BY <1>2, ChainFacts DEF ChainInv, Buffers, StageTells
    <2>2. q \in DOMAIN list /\ q <= d
      BY <1>4, <1>5, <2>1 DEF ReleaseKeeps
    <2>3. \A j \in DOMAIN list : j \notin S => j <= q
      BY <1>5 DEF ReleaseKeeps
    <2> QED
      BY <1>3, <2>2, <2>3
  <1>7. PICK g : MovesDown(d, g)
    BY <1>3, <1>5, <1>6, ReleaseMovesDown DEF ChainInv
  <1>8. /\ g \in Nat /\ (g = 0 \/ g < d)
        /\ Len(list') = Len(list) - g /\ DOMAIN list' = 1..(Len(list) - g)
        /\ \A i \in DOMAIN list' :
              \E j \in DOMAIN list :
                 list'[i] = list[j] /\ (d < i + g => j = i + g) /\ (i + g <= d => j <= d)
    BY <1>7 DEF MovesDown
  <1>9. \A i \in DOMAIN list' : d < i + g => list'[i] = list[i + g]
    BY <1>8
  <1>10. PICK e : e = d - g
    OBVIOUS
  <1>11. e \in 0..Len(list') /\ Len(list') - e = Len(list) - d
    BY <1>3, <1>8, <1>10
  <1>12. \A i \in DOMAIN list' : run_done'[list'[i]] <=> i <= e
    <2> TAKE i \in DOMAIN list'
    <2>1. PICK j \in DOMAIN list :
            list'[i] = list[j] /\ (d < i + g => j = i + g) /\ (i + g <= d => j <= d)
      BY <1>8
    <2>2. j <= d <=> i <= e
      BY <1>3, <1>8, <1>10, <2>1
    <2> QED
      BY <1>2, <1>4, <2>1, <2>2
  <1>13. ServiceQueue' = QueueOf(list', prio', e)
    <2>1. list' \in Seq(Bufs)
      BY DEF ListInv, ListTypes
    <2> QED
      BY <1>11, <1>12, <2>1, QueueThen
  <1>14. QueueOf(list', prio', e) = QueueOf(list, prio, d)
    <2>1. \A i \in 1..(Len(list) - d) : list'[i + e] = list[i + d]
      <3> TAKE i \in 1..(Len(list) - d)
      <3>1. i + e \in DOMAIN list' /\ d < (i + e) + g /\ (i + e) + g = i + d
        BY <1>3, <1>8, <1>10
      <3> QED
        BY <1>9, <3>1
    <2> QED
      BY <1>2, <1>11, <2>1 DEF QueueOf
  <1>15. runs' = runs
    BY <1>2 DEF Once
  <1> QED
    BY <1>3, <1>13, <1>14, <1>15

Entries == [id : Bufs, prio : {"normal", "high"}]

(* A submission puts its buffer into the service's queue.                  *)
LEMMA SubmissionServes ==
  ASSUME ChainInv, ListInv', Once, Once',
         NEW n \in Ids, NEW c, NEW d, NEW l, Core(c, d, l),
         NEW p \in 1..(Len(list) + 1), l < p,
         HasInserted(list', list, p, n), Len(list') = Len(list) + 1,
         stage[n] \in {"reserved", "aborting"},
         UNCHANGED <<prio, run_done, ran>>,
         NEW e, e = [id |-> n, prio |-> prio[n]]
  PROVE  /\ runs' = runs /\ runs[n] = 0 /\ n \in Bufs
         /\ \A i \in DOMAIN ServiceQueue : ServiceQueue[i].id # n
         /\ p - d \in 1..(Len(ServiceQueue) + 1)
         /\ p = Len(list) + 1 => ServiceQueue' = Append(ServiceQueue, e)
         /\ ServiceQueue' = InsertAt(ServiceQueue, p - d, e)
  <1>1. /\ d \in Nat /\ l \in Nat /\ d <= l /\ l <= Len(list) /\ Len(list) \in Nat
        /\ DOMAIN list = 1..Len(list) /\ list \in Seq(Bufs)
        /\ n \in Bufs /\ \A j \in DOMAIN list : list[j] # n /\ list[j] \in Bufs
        /\ ServiceQueue \in Seq(Entries) /\ Len(ServiceQueue) = Len(list) - d
        /\ DOMAIN ServiceQueue = 1..(Len(list) - d)
        /\ \A i \in 1..(Len(list) - d) :
              ServiceQueue[i] = [id |-> list[i + d], prio |-> prio[list[i + d]]]
    <2>1. /\ d \in Nat /\ l \in DOMAIN list /\ d <= Passed(c) /\ Passed(c) <= l
          /\ Passed(c) \in Nat
          /\ ServiceQueue = QueueOf(list, prio, d) /\ Len(ServiceQueue) = Len(list) - d
          /\ DOMAIN ServiceQueue = 1..(Len(list) - d)
          /\ ServiceQueue \in Seq(Entries)
      BY ServiceFacts DEF Entries
    <2>2. \A j \in DOMAIN list : list[j] # n
      BY ChainFacts DEF Listed
    <2>3. \A i \in 1..(Len(list) - d) :
            ServiceQueue[i] = [id |-> list[i + d], prio |-> prio[list[i + d]]]
      BY <2>1 DEF QueueOf
    <2>4. d <= l /\ l <= Len(list)
      BY <2>1, ChainFacts
    <2> QED
      BY <2>1, <2>2, <2>3, <2>4, ChainFacts
  <1>2. list' \in Seq(Bufs) /\ DOMAIN list' = 1..(Len(list) + 1)
    <2>1. list' \in Seq(Bufs)
      BY DEF ListInv, ListTypes
    <2>2. DOMAIN list' = 1..Len(list')
      BY <2>1, LenProperties
    <2> QED
      BY <2>1, <2>2
  <1>3. ~run_done[n] /\ n \notin ran /\ prio \in [Bufs -> {"normal", "high"}]
    BY <1>1 DEF ChainInv, ChainTypes, Buffers, StageTells, Unlinked
  <1>4. \A j \in DOMAIN list' :
          list'[j] = IF j < p THEN list[j] ELSE IF j = p THEN n ELSE list[j - 1]
    BY <1>2 DEF HasInserted
  <1>5. \A j \in DOMAIN list' : run_done'[list'[j]] <=> j <= d
    <2> TAKE j \in DOMAIN list'
    <2>1. \A k \in DOMAIN list : run_done[list[k]] <=> k <= d
      BY DEF Core, Cut
    <2>2. CASE j < p
      <3>1. j \in DOMAIN list
        BY <1>1, <1>2, <2>2
      <3> QED
        BY <1>4, <2>1, <2>2, <3>1
    <2>3. CASE j = p
      BY <1>1, <1>3, <1>4, <2>3
    <2>4. CASE p < j
      <3>1. PICK k \in DOMAIN list : k = j - 1 /\ ~(k <= d)
        BY <1>1, <1>2, <2>4
      <3>2. list'[j] = list[k] /\ ~(j <= d)
        BY <1>1, <1>2, <1>4, <2>4, <3>1
      <3> QED
        BY <2>1, <3>1, <3>2
    <2> QED
      BY <1>2, <2>2, <2>3, <2>4
  <1>6. ServiceQueue' = QueueOf(list', prio', d)
    <2>1. d \in 0..Len(list')
      BY <1>1
    <2> QED
      BY <1>2, <1>5, <2>1, QueueThen
  <1>7. PICK Q, Q2, k, M :
          Q = ServiceQueue /\ Q2 = ServiceQueue' /\ k = p - d /\ M = Len(list) - d
    OBVIOUS
  <1>8. k \in 1..(M + 1) /\ M \in Nat /\ Q \in Seq(Entries) /\ Len(Q) = M /\ e \in Entries
    <2>1. p \in Nat /\ d < p /\ p <= Len(list) + 1
      BY <1>1
    <2>2. k \in 1..(M + 1) /\ M \in Nat
      BY <1>1, <1>7, <2>1
    <2>3. e \in Entries
      BY <1>1, <1>3 DEF Entries
    <2> QED
      BY <1>1, <1>7, <2>2, <2>3
  <1>t. p \in Nat /\ d < p
    BY <1>1
  <1>9. Q2 = [i \in 1..(M + 1) |-> [id |-> list'[i + d], prio |-> prio[list'[i + d]]]]
    <2>1. Len(list') - d = M + 1
      BY <1>1, <1>7
    <2>2. prio' = prio
      OBVIOUS
    <2> QED
      BY <1>6, <1>7, <2>1, <2>2 DEF QueueOf
  <1>10. \A i \in 1..(M + 1) :
            Q2[i] = IF i < k THEN Q[i] ELSE IF i = k THEN e ELSE Q[i - 1]
    <2> TAKE i \in 1..(M + 1)
    <2>1. PICK j \in DOMAIN list' : j = i + d
      BY <1>1, <1>2, <1>7
    <2>2. Q2[i] = [id |-> list'[j], prio |-> prio[list'[j]]]
      BY <1>9, <2>1
    <2>3. CASE i < k
      <3>1. j < p /\ i \in 1..(Len(list) - d)
        BY <1>1, <1>7, <2>1, <2>3
      <3>2. list'[j] = list[i + d]
        BY <1>4, <2>1, <3>1
      <3> QED
        BY <1>1, <1>7, <2>2, <2>3, <3>1, <3>2
    <2>4. CASE i = k
      <3>1. j = p
        BY <1>1, <1>7, <2>1, <2>4
      <3>2. list'[j] = n
        BY <1>1, <1>4, <3>1
      <3> QED
        BY <1>8, <2>2, <2>4, <3>2
    <2>5. CASE k < i
      <3>1. p < j /\ i - 1 \in 1..(Len(list) - d) /\ j - 1 = (i - 1) + d
        BY <1>1, <1>7, <2>1, <2>5
      <3>2. list'[j] = list[(i - 1) + d]
        <4>1. ~(j < p) /\ j # p
          BY <1>1, <1>t, <2>1, <3>1
        <4> QED
          BY <1>4, <3>1, <4>1
      <3>3. Q[i - 1] = [id |-> list[(i - 1) + d], prio |-> prio[list[(i - 1) + d]]]
        BY <1>1, <1>7, <3>1
      <3>4. ~(i < k) /\ i # k
        BY <1>8, <2>5
      <3> QED
        BY <2>2, <3>2, <3>3, <3>4
    <2> QED
      BY <1>8, <2>3, <2>4, <2>5
  <1>11. ASSUME NEW R \in Seq(Entries), Len(R) = M + 1,
                \A i \in 1..(M + 1) :
                   R[i] = IF i < k THEN Q[i] ELSE IF i = k THEN e ELSE Q[i - 1]
         PROVE  Q2 = R
    <2>1. R = [i \in 1..(M + 1) |-> R[i]]
      <3>1. R \in [1..Len(R) -> Entries]
        BY LenProperties
      <3> QED
        BY <1>11, <3>1
    <2>2. \A i \in 1..(M + 1) : Q2[i] = R[i]
      BY <1>10, <1>11
    <2>3. Q2 = [i \in 1..(M + 1) |-> Q2[i]]
      BY <1>9
    <2> QED
      BY <2>1, <2>2, <2>3
  <1>12. Q2 = InsertAt(Q, k, e)
    <2>1. PICK R : R = InsertAt(Q, k, e)
      OBVIOUS
    <2>2. R \in Seq(Entries) /\ Len(R) = M + 1 /\ HasInserted(R, Q, k, e)
      BY <1>8, <2>1, InsertedElements
    <2>3. \A i \in 1..(M + 1) :
            R[i] = IF i < k THEN Q[i] ELSE IF i = k THEN e ELSE Q[i - 1]
      BY <1>8, <2>2 DEF HasInserted
    <2>4. Q2 = R
      BY <1>11, <2>2, <2>3
    <2> QED
      BY <2>1, <2>4
  <1>13. ASSUME p = Len(list) + 1 PROVE Q2 = Append(Q, e)
    <2>1. k = M + 1
      BY <1>1, <1>7, <1>13
    <2>2. PICK R : R = Append(Q, e)
      OBVIOUS
    <2>3. /\ R \in Seq(Entries) /\ Len(R) = M + 1
          /\ \A i \in 1..M : R[i] = Q[i]
          /\ R[M + 1] = e
      BY <1>8, <2>2, AppendProperties
    <2>4. \A i \in 1..(M + 1) :
            R[i] = IF i < k THEN Q[i] ELSE IF i = k THEN e ELSE Q[i - 1]
      BY <1>8, <2>1, <2>3
    <2>5. Q2 = R
      BY <1>11, <2>3, <2>4
    <2> QED
      BY <2>2, <2>5
  <1>14. runs' = runs /\ runs[n] = 0
    BY <1>1, <1>3, RunsTell DEF Once
  <1>15. \A i \in DOMAIN ServiceQueue : ServiceQueue[i].id # n
    <2> TAKE i \in DOMAIN ServiceQueue
    <2>1. i \in 1..(Len(list) - d)
      BY <1>1
    <2>2. i + d \in DOMAIN list
      BY <1>1, <2>1
    <2>3. ServiceQueue[i].id = list[i + d]
      BY <1>1, <2>1
    <2> QED
      BY <1>1, <2>2, <2>3
  <1> QED
    BY <1>1, <1>7, <1>8, <1>12, <1>13, <1>14, <1>15

(* A buffer at the tail is a submission behind all others.                 *)
LEMMA SelectTailServes ==
  ASSUME ChainInv, ListInv', Once, Once', NEW n \in Ids, SelectTail(n)
  PROVE  Service!Next
  <1>1. PICK c, d, l : Core(c, d, l) /\ Held(l)
    BY DEF ChainInv, Shape
  <1>2. /\ stage[n] = "reserved" /\ list' = Append(list, n)
        /\ UNCHANGED <<prio, run_done, ran>> /\ l = Len(list)
    BY <1>1 DEF SelectTail, doneVars, ddrVars, Held
  <1>3. PICK p \in 1..(Len(list) + 1) : p = Len(list) + 1 /\ l < p
    BY <1>2, ChainFacts
  <1>4. HasInserted(list', list, p, n) /\ Len(list') = Len(list) + 1
    <2>1. list \in Seq(Bufs) /\ n \in Bufs /\ Len(list) \in Nat
      BY ChainFacts
    <2>2. /\ Len(Append(list, n)) = Len(list) + 1
          /\ \A i \in 1..Len(list) : Append(list, n)[i] = list[i]
          /\ Append(list, n)[Len(list) + 1] = n
      BY <2>1, AppendProperties
    <2> QED
      BY <1>2, <1>3, <2>1, <2>2 DEF HasInserted
  <1>5. PICK e : e = [id |-> n, prio |-> prio[n]]
    OBVIOUS
  <1>6. /\ runs' = runs /\ runs[n] = 0 /\ n \in Bufs
        /\ ServiceQueue' = Append(ServiceQueue, e)
        /\ \A i \in DOMAIN ServiceQueue : ServiceQueue[i].id # n
    BY <1>1, <1>2, <1>3, <1>4, <1>5, SubmissionServes
  <1>7. PICK h \in {"normal", "high"} : h = prio[n]
    BY ChainFacts DEF ChainInv, ChainTypes
  <1>8. n \notin Service!Queued
    BY <1>6 DEF Service!Queued, ServiceQueue
  <1>9. Service!SubmitLast(n, h)
    BY <1>5, <1>6, <1>7, <1>8 DEF Service!SubmitLast, Service!Entry, ServiceQueue
  <1> QED
    BY <1>6, <1>9 DEF Service!Next

(* A high-priority buffer passes the normal ones that have not run, and no *)
(* other.                                                                  *)
LEMMA AbortWakeServes ==
  ASSUME ChainInv, ListInv', Once, Once', NEW n \in Ids, AbortWake(n)
  PROVE  Service!Next
  <1>1. PICK c, d, l : Core(c, d, l)
    BY DEF ChainInv, Shape
  <1>2. /\ stage[n] = "aborting" /\ prio[n] = "high" /\ ~working
        /\ list' = InsertAt(list, InsertPosition, n)
        /\ UNCHANGED <<prio, run_done, ran>>
    <2>1. stage[n] = "aborting"
      BY DEF AbortWake
    <2>2. prio[n] = "high"
      BY <2>1, ChainFacts DEF ChainInv, Buffers, StageTells
    <2> QED
      BY <2>1, <2>2 DEF AbortWake, wait_abort_rdy, doneVars, ddrVars
  <1>3. d = l /\ c = l /\ Passed(c) = d
    BY <1>1, <1>2 DEF Core, Rested, Passed, ChainInv, Idle
  <1>4. /\ l \in Nat /\ l \in DOMAIN list /\ DOMAIN list = 1..Len(list)
        /\ Len(list) \in Nat /\ l <= Len(list)
        /\ \A j \in DOMAIN list : run_done[list[j]] <=> j <= l
    BY <1>1, <1>3, ChainFacts DEF Core, InOrder, Cut
  <1>5. PICK p \in 1..(Len(list) + 1) :
          /\ p = InsertPosition /\ l < p
          /\ \A j \in DOMAIN list : j < p => prio[list[j]] # "normal" \/ run_done[list[j]]
          /\ p \in DOMAIN list => prio[list[p]] = "normal"
    <2>1. /\ InsertPosition \in 2..(Len(list) + 1)
          /\ InsertPosition \in DOMAIN list =>
                prio[list[InsertPosition]] = "normal" /\ ~run_done[list[InsertPosition]]
          /\ \A j \in DOMAIN list :
                j < InsertPosition => prio[list[j]] # "normal" \/ run_done[list[j]]
      BY InsertPositionInList DEF ChainInv
    <2>2. l < InsertPosition
      BY <1>4, <2>1
    <2> QED
      BY <1>4, <2>1, <2>2
  <1>6. HasInserted(list', list, p, n) /\ Len(list') = Len(list) + 1
    <2>1. list \in Seq(Bufs) /\ n \in Bufs
      BY ChainFacts
    <2> QED
      BY <1>2, <1>5, <2>1, InsertedElements
  <1>7. PICK e : e = [id |-> n, prio |-> prio[n]]
    OBVIOUS
  <1>8. /\ runs' = runs /\ runs[n] = 0 /\ n \in Bufs
        /\ \A i \in DOMAIN ServiceQueue : ServiceQueue[i].id # n
        /\ p - d \in 1..(Len(ServiceQueue) + 1)
        /\ p = Len(list) + 1 => ServiceQueue' = Append(ServiceQueue, e)
        /\ ServiceQueue' = InsertAt(ServiceQueue, p - d, e)
    BY <1>1, <1>2, <1>5, <1>6, <1>7, SubmissionServes
  <1>9. n \notin Service!Queued /\ e = Service!Entry(n, "high")
    BY <1>2, <1>7, <1>8 DEF Service!Queued, Service!Entry, ServiceQueue
  <1>10. CASE p = Len(list) + 1
    <2>1. Service!SubmitLast(n, "high")
      BY <1>8, <1>9, <1>10 DEF Service!SubmitLast, ServiceQueue
    <2> QED
      BY <1>8, <2>1 DEF Service!Next
  <1>11. CASE p # Len(list) + 1
    <2>1. /\ DOMAIN ServiceQueue = 1..(Len(list) - d)
          /\ \A i \in DOMAIN ServiceQueue :
                /\ i + d \in DOMAIN list
                /\ ServiceQueue[i].id = list[i + d]
                /\ ServiceQueue[i].prio = prio[list[i + d]]
          /\ \A j \in DOMAIN list : l < j => runs[list[j]] = 0
      <3>1. \A j \in DOMAIN list : l < j => ~(j <= Passed(c))
        BY <1>3, <1>4
      <3> QED
        BY <1>1, <3>1, ServiceFacts
    <2>2. PICK k : k = p - d
      OBVIOUS
    <2>3. k \in DOMAIN ServiceQueue /\ k + d = p /\ p \in DOMAIN list
      BY <1>3, <1>4, <1>5, <1>11, <2>1, <2>2
    <2>4. ServiceQueue[k].prio = "normal" /\ runs[ServiceQueue[k].id] = 0
      BY <1>5, <2>1, <2>3
    <2>5. \A i \in 1..(k - 1) : ServiceQueue[i].prio # "normal"
      <3> TAKE i \in 1..(k - 1)
      <3>1. i \in DOMAIN ServiceQueue
        BY <1>3, <1>4, <2>1, <2>3
      <3>2. PICK j \in DOMAIN list : j = i + d /\ j < p /\ ~(j <= l)
        BY <1>3, <1>4, <2>1, <2>3, <3>1
      <3> QED
        BY <1>4, <1>5, <2>1, <3>1, <3>2
    <2>6. Service!FirstWaitingNormal(k)
      BY <2>4, <2>5 DEF Service!FirstWaitingNormal, ServiceQueue
    <2>7. ServiceQueue' = Service!Insert(k, e)
      BY <1>8, <2>2 DEF Service!Insert, InsertAt, ServiceQueue
    <2>8. Service!SubmitAhead(n)
      BY <1>8, <1>9, <2>3, <2>6, <2>7 DEF Service!SubmitAhead, ServiceQueue
    <2> QED
      BY <1>8, <2>8 DEF Service!Next
  <1> QED
    BY <1>10, <1>11

(* The hardware ends the first buffer of the queue that has not run.       *)
LEMMA HwFinishServes ==
  ASSUME ChainInv, Once, Once', HwFinish
  PROVE  Service!Next
  <1>1. PICK c, d, l : Core(c, d, l)
    BY DEF ChainInv, Shape
  <1>2. /\ hw.phase = "exec" /\ ran' = ran \cup {hw.cur} /\ hw.cur = list[c]
        /\ UNCHANGED <<list, prio, run_done>> /\ Passed(c) = c - 1
    BY <1>1 DEF HwFinish, listVars, doneVars, Core, InOrder, Passed
  <1>3. /\ d \in Nat /\ c \in DOMAIN list /\ Passed(c) \in Nat /\ d <= Passed(c)
        /\ DOMAIN ServiceQueue = 1..(Len(list) - d)
        /\ \A i \in DOMAIN ServiceQueue :
              i + d \in DOMAIN list /\ ServiceQueue[i].id = list[i + d]
        /\ \A j \in DOMAIN list : runs[list[j]] = IF j <= Passed(c) THEN 1 ELSE 0
    BY <1>1, ServiceFacts
  <1>4. DOMAIN list = 1..Len(list) /\ Len(list) \in Nat
    BY ChainFacts
  <1>5. PICK k : k = c - d
    OBVIOUS
  <1>6. k \in DOMAIN ServiceQueue /\ k + d = c
    BY <1>2, <1>3, <1>4, <1>5
  <1>7. ServiceQueue[k].id = list[c] /\ runs[list[c]] = 0
    BY <1>2, <1>3, <1>4, <1>6
  <1>8. \A i \in 1..(k - 1) : runs[ServiceQueue[i].id] = 1
    <2> TAKE i \in 1..(k - 1)
    <2>1. i \in DOMAIN ServiceQueue
      BY <1>3, <1>6
    <2>2. PICK j \in DOMAIN list : j = i + d /\ d < j /\ j <= Passed(c)
      BY <1>2, <1>3, <1>4, <1>6, <2>1
    <2> QED
      BY <1>3, <2>1, <2>2
  <1>9. ServiceQueue' = ServiceQueue /\ runs' = [runs EXCEPT ![ServiceQueue[k].id] = @ + 1]
    <2>1. ServiceQueue' = ServiceQueue
      BY <1>2 DEF ServiceQueue, Undone
    <2>2. list[c] \in Bufs /\ ran' = ran \cup {list[c]}
      BY <1>2, <1>3, ChainFacts
    <2>3. runs' = [runs EXCEPT ![list[c]] = 1]
      BY <2>2 DEF Once
    <2> QED
      BY <1>7, <2>1, <2>3
  <1>10. Service!Execute
    BY <1>6, <1>7, <1>8, <1>9 DEF Service!Execute, ServiceQueue
  <1> QED
    BY <1>10 DEF Service!Next

(* What the handler reports is the front of the queue, all of it executed. *)
LEMMA HandlerServes ==
  ASSUME ChainInv, Once, Once', NEW c, NEW d, NEW l, Core(c, d, l),
         NEW q \in DOMAIN list, q = Passed(c),
         MarkDone(Completed(list[q]), {}, "OK"), UNCHANGED <<list, prio, ran>>
  PROVE  Service!Next \/ UNCHANGED <<ServiceQueue, runs>>
  <1>1. /\ d \in Nat /\ d <= q /\ d \in DOMAIN list
        /\ ServiceQueue \in Seq(Entries) /\ Len(ServiceQueue) = Len(list) - d
        /\ DOMAIN ServiceQueue = 1..(Len(list) - d)
        /\ \A i \in DOMAIN ServiceQueue :
              i + d \in DOMAIN list /\ ServiceQueue[i].id = list[i + d]
        /\ \A j \in DOMAIN list : j <= q => runs[list[j]] = 1
        /\ ServiceQueue = QueueOf(list, prio, d)
    BY ServiceFacts DEF Entries
  <1>2. DOMAIN list = 1..Len(list) /\ Len(list) \in Nat /\ list \in Seq(Bufs)
    BY ChainFacts
  <1>3. \A j \in DOMAIN list : run_done'[list[j]] <=> j <= q
    <2> TAKE j \in DOMAIN list
    <2>1. run_done'[list[j]] <=> run_done[list[j]] \/ list[j] \in Completed(list[q])
      BY ChainFacts DEF MarkDone
    <2>2. list[j] \in Completed(list[q]) <=> d < j /\ j <= q
      BY <1>1, CompletedBehind
    <2>3. run_done[list[j]] <=> j <= d
      BY DEF Core, Cut
    <2> QED
      BY <1>1, <1>2, <2>1, <2>2, <2>3
  <1>4. ServiceQueue' = QueueOf(list, prio, q)
    <2>1. q \in 0..Len(list') /\ list' \in Seq(Bufs)
      BY <1>2
    <2>2. \A j \in DOMAIN list' : run_done'[list'[j]] <=> j <= q
      BY <1>3
    <2>3. ServiceQueue' = QueueOf(list', prio', q)
      BY <2>1, <2>2, QueueThen
    <2> QED
      BY <2>3
  <1>5. runs' = runs
    BY DEF Once
  <1>6. CASE d = q
    BY <1>1, <1>4, <1>5, <1>6
  <1>7. CASE d < q
    <2>1. PICK k : k = q - d
      OBVIOUS
    <2>2. k \in DOMAIN ServiceQueue /\ k \in Nat /\ k + d = q /\ 1 <= k
      <3>1. q \in Nat /\ q <= Len(list) /\ d \in Nat /\ Len(list) \in Nat
        BY <1>1, <1>2
      <3>2. k \in 1..(Len(list) - d)
        BY <1>7, <2>1, <3>1
      <3> QED
        BY <1>1, <1>7, <2>1, <3>1, <3>2
    <2>3. \A i \in 1..k : i \in DOMAIN ServiceQueue /\ d < i + d /\ i + d <= q
      BY <1>1, <1>2, <2>2
    <2>4. \A i \in 1..k : runs[ServiceQueue[i].id] = 1
      BY <1>1, <2>3
    <2>5. ServiceQueue' = SubSeq(ServiceQueue, k + 1, Len(ServiceQueue))
      <3>1. PICK Q, M : Q = ServiceQueue /\ M = Len(list) - d
        OBVIOUS
      <3>2. Q \in Seq(Entries) /\ Len(Q) = M /\ M \in Nat /\ k <= M
        BY <1>1, <1>2, <2>2, <3>1
      <3>3. PICK R : R = SubSeq(Q, k + 1, M)
        OBVIOUS
      <3>4. R \in Seq(Entries) /\ Len(R) = M - k /\ \A i \in 1..(M - k) : R[i] = Q[i + k]
        <4>1. PICK h \in 1..(M + 1) : h = k + 1
          BY <2>2, <3>2
        <4>2. h \in 1..(Len(Q) + 1) /\ M \in (h - 1)..Len(Q)
          BY <2>2, <3>2, <4>1
        <4>3. /\ SubSeq(Q, h, M) \in Seq(Entries)
              /\ Len(SubSeq(Q, h, M)) = M - h + 1
              /\ \A i \in 1..(M - h + 1) : SubSeq(Q, h, M)[i] = Q[h + i - 1]
          BY <3>2, <4>2, SubSeqProperties
        <4>4. M - h + 1 = M - k /\ \A i \in 1..(M - k) : h + i - 1 = i + k
          BY <2>2, <3>2, <4>1
        <4> QED
          BY <3>3, <4>1, <4>3, <4>4
      <3>5. ServiceQueue' = [i \in 1..(M - k) |-> R[i]]
        <4>1. Len(list) - q = M - k
          BY <1>1, <1>2, <2>1, <2>2, <3>1
        <4>2. \A i \in 1..(M - k) : [id |-> list[i + q], prio |-> prio[list[i + q]]] = R[i]
          <5> TAKE i \in 1..(M - k)
          <5>1. PICK h \in 1..M : h = i + k /\ h + d = i + q
            <6>1. /\ d \in Nat /\ k \in Nat /\ M \in Nat /\ k <= M /\ k + d = q
                  /\ i \in Nat /\ 1 <= i /\ i <= M - k
              BY <1>1, <2>2, <3>2
            <6>2. i + k \in 1..M /\ (i + k) + d = i + q
              BY <6>1
            <6> QED
              BY <6>2
          <5>2. Q[h] = [id |-> list[h + d], prio |-> prio[list[h + d]]]
            BY <1>1, <3>1, <5>1 DEF QueueOf
          <5> QED
            BY <3>4, <5>1, <5>2
        <4>3. ServiceQueue' =
                [i \in 1..(Len(list) - q) |-> [id |-> list[i + q], prio |-> prio[list[i + q]]]]
          BY <1>4 DEF QueueOf
        <4> QED
          BY <4>1, <4>2, <4>3
      <3>6. R = [i \in 1..(M - k) |-> R[i]]
        <4>1. R \in [1..Len(R) -> Entries]
          BY <3>4, LenProperties
        <4> QED
          BY <3>4, <4>1
      <3> QED
        BY <3>1, <3>2, <3>3, <3>5, <3>6
    <2>6. Service!Report(k)
      BY <1>5, <2>4, <2>5 DEF Service!Report, ServiceQueue
    <2> QED
      BY <2>2, <2>6 DEF Service!Next, ServiceQueue
  <1> QED
    BY <1>1, <1>2, <1>6, <1>7

(* ServiceSpec: seen from its clients the core executes each buffer once,  *)
(* and never again, in queue order, and reports it after that, in the same *)
(* order.                                                                  *)
THEOREM CoreIsTheService == CountedSpec => ServiceSpec
  <1>1. ASSUME ChainInv, ChainInv', Once, Once', [CalmNext]_vars
        PROVE  Service!Next \/ UNCHANGED <<ServiceQueue, runs>>
    <2>0. ListInv'
      BY <1>1 DEF ChainInv
    <2>1. CASE UNCHANGED <<list, prio, run_done, ran>>
      BY <1>1, <2>1, UnseenStep
    <2>2. CASE \E n \in Ids, p \in Prios : Reserve(n, p)
      BY <1>1, <2>2, ReserveServes
    <2>3. ASSUME NEW n \in Ids, SelectTail(n)
          PROVE  Service!Next \/ UNCHANGED <<ServiceQueue, runs>>
      BY <1>1, <2>0, <2>3, SelectTailServes
    <2>4. ASSUME NEW n \in Ids, AbortWake(n)
          PROVE  Service!Next \/ UNCHANGED <<ServiceQueue, runs>>
      BY <1>1, <2>0, <2>4, AbortWakeServes
    <2>5. ASSUME NEW n \in Ids, release_cmdbuf(n)
          PROVE  Service!Next \/ UNCHANGED <<ServiceQueue, runs>>
      BY <1>1, <2>0, <2>5, ReleaseUnseen
    <2>6. CASE HwFinish
      BY <1>1, <2>6, HwFinishServes
    <2>7. CASE IsrJmp
      <3>1. UNCHANGED <<list, prio, ran>>
        BY <2>7 DEF IsrJmp, IsrCommon, listVars, ddrVars
      <3>2. PICK c, d, l : /\ Core(c, d, l) /\ Passed(c) \in DOMAIN list
                           /\ MarkDone(Completed(list[Passed(c)]), {}, "OK")
        BY <1>1, <2>7, JmpReports
      <3>3. PICK q \in DOMAIN list : q = Passed(c)
        BY <3>2
      <3> QED
        BY <1>1, <3>1, <3>2, <3>3, HandlerServes
    <2>8. CASE IsrAbort
      <3>1. UNCHANGED <<list, prio, ran>> /\ "ABORT" \in irq
        BY <2>8 DEF IsrAbort, IsrCommon, listVars, ddrVars
      <3>2. PICK c, d, l : Core(c, d, l)
        BY <1>1 DEF ChainInv, Shape
      <3>3. PICK q \in DOMAIN list : q = Passed(c) /\ q = c /\ hw.cur = list[q]
        BY <1>1, <3>1, <3>2 DEF Core, InOrder, Passed, ChainInv, Idle
      <3>4. MarkDone(Completed(list[q]), {}, "OK")
        BY <1>1, <2>8, <3>3, PositionOf DEF IsrAbort
      <3> QED
        BY <1>1, <3>1, <3>2, <3>3, <3>4, HandlerServes
    <2>9. ASSUME NEW n \in Ids,
                 \/ SelectBusy(n) \/ AbortTrigger(n) \/ AbortFlag(n) \/ PatchAddresses(n)
                 \/ LinkToRunning(n) \/ LinkAndStart(n) \/ Wait(n)
          PROVE  UNCHANGED <<list, prio, run_done, ran>>
      BY <2>9 DEF SelectBusy, AbortTrigger, AbortFlag, PatchAddresses, LinkToRunning,
         LinkAndStart, Wait, LeaveSection, listVars, doneVars, ddrVars
    <2>10. CASE HwAbort
      <3>1. UNCHANGED <<list, prio, run_done, ran>>
        BY <2>10 DEF HwAbort, listVars, doneVars, ddrVars
      <3> QED
        BY <2>1, <3>1
    <2>11. CASE UNCHANGED vars
      BY <2>1, <2>11 DEF vars
    <2> QED
      BY <1>1, <2>1, <2>2, <2>3, <2>4, <2>5, <2>6, <2>7, <2>8, <2>9, <2>10, <2>11
      DEF CalmNext, Submission
  <1>2. ASSUME ChainInv, ChainInv', Once, Once', [CalmNext /\ Counts]_countedVars
        PROVE  [Service!Next]_(Service!vars)
    <2>1. [CalmNext]_vars
      BY <1>2 DEF countedVars
    <2>2. Service!Next \/ UNCHANGED <<ServiceQueue, runs>>
      BY <1>1, <1>2, <2>1
    <2> QED
      BY <2>2 DEF Service!vars, ServiceQueue
  <1>3. CountedInit => Init /\ Service!Init /\ Once
    BY ServiceInit DEF CountedInit
  <1>4. [CalmNext /\ Counts]_countedVars => [CalmNext]_vars
    BY DEF countedVars
  <1>5. CountedSpec => []ChainInv
    <2>1. CountedSpec => FairSpec
      BY <1>3, <1>4, PTL DEF CountedSpec, FairSpec
    <2> QED
      BY <2>1, ChainInvariant, PTL
  <1>6. ChainInv /\ Once /\ [CalmNext /\ Counts]_countedVars => Once'
    BY OnceStep
  <1>7. CountedSpec => []Once
    BY <1>3, <1>5, <1>6, PTL DEF CountedSpec
  <1> QED
    BY <1>2, <1>3, <1>5, <1>7, PTL DEF CountedSpec, ServiceSpec, Service!Spec

-----------------------------------------------------------------------------
(* Suspension: a core taken for running is alive.                          *)

(* More than WorkingIsAlive: on a stopped core a JMP interrupt alone would *)
(* not do, as its handler leaves working_state alone.                      *)
Alive == working => hw.phase # "off" \/ irq \ {"JMP"} # {}

(* A function without power is suspended.  Behind SuspendEnds of either    *)
(* callback the core is idle; on the way back at most one function is      *)
(* still without power, and it is the next to be resumed.                  *)
Quiet == {"stopped", "off"}

CallbackInv ==
    /\ type \in Callbacks
    /\ system \in {"up", "suspend", "resume"}
    /\ pm \in [Callbacks -> Phases]
    /\ \A c \in Callbacks \ power : pm[c] = "off"
    /\ system = "up" => \A c \in Callbacks : pm[c] = "idle"
    /\ system = "suspend" /\ (\E c \in Callbacks : pm[c] \in Quiet) => ~working
    /\ system = "resume" =>
         /\ \A c \in Callbacks : pm[c] \in {"idle", "off"}
         /\ \A c \in Callbacks \ power, o \in Callbacks : pm[o] = "off" => o = c

AliveInv == IdleInv /\ Alive /\ CallbackInv

(* No step of the queue leaves a core that is taken for running dead: the  *)
(* hardware stops with an interrupt, and the handler that takes it either  *)
(* starts the core or declares it idle.                                    *)
LEMMA AliveQueueStep ==
  ASSUME IdleInv, Alive, Next
  PROVE  IdleInv' /\ Alive' /\ type' = type
  <1>1. IdleInv'
    BY IdleStep
  <1> USE DEF Alive
  <1>2. ASSUME UNCHANGED <<working, hw, irq, type>> PROVE Alive' /\ type' = type
    BY <1>2
  <1>3. ASSUME NEW n \in Ids, NEW p \in Prios, Reserve(n, p)
        PROVE  Alive' /\ type' = type
    BY <1>2, <1>3 DEF Reserve
  <1>4. ASSUME NEW n \in Ids,
               \/ SelectTail(n) \/ SelectBusy(n) \/ AbortFlag(n) \/ AbortWake(n)
               \/ PatchAddresses(n) \/ Wait(n) \/ release_cmdbuf(n)
               \/ SemInterrupted(n) \/ AbortInterrupted(n) \/ AbortGivenUp(n)
        PROVE  Alive' /\ type' = type
    BY <1>2, <1>4 DEF SelectTail, SelectBusy, AbortFlag, AbortWake, PatchAddresses,
       Wait, release_cmdbuf, SemInterrupted, AbortInterrupted, AbortGivenUp, listVars
  <1>5. ASSUME NEW n \in Ids, AbortTrigger(n) PROVE Alive' /\ type' = type
    BY <1>5 DEF AbortTrigger, listVars, IdleInv
  <1>6. ASSUME NEW n \in Ids, LinkToRunning(n) PROVE Alive' /\ type' = type
    <2>1. UNCHANGED <<working, irq, type>>
      BY <1>6 DEF LinkToRunning, LeaveSection, listVars
    <2>2. hw.phase # "off" => hw'.phase # "off"
      <3>1. CASE UNCHANGED hw
        BY <3>1
      <3>2. CASE WriteReady(sw_rdy', jmp')
        BY <3>2 DEF WriteReady, IdleInv
      <3> QED
        BY <1>6, <3>1, <3>2 DEF LinkToRunning
    <2> QED
      BY <2>1, <2>2
  <1>7. ASSUME NEW n \in Ids, LinkAndStart(n) PROVE Alive' /\ type' = type
    <2>1. irq' = irq /\ ~working /\ type' = type
      BY <1>7 DEF LinkAndStart, LeaveSection, listVars
    <2>2. UNCHANGED <<working, hw>> \/ hw'.phase = "exec"
      BY <1>7 DEF LinkAndStart, vcmd_start
    <2> QED
      BY <2>1, <2>2
  <1>8. CASE HwFinish
    <2>1. type' = type /\ working' = working /\ "phase" \in DOMAIN hw
      BY <1>8 DEF HwFinish, listVars, IdleInv
    <2>2. CASE hw.abort
      <3>1. "ABORT" \in irq'
        BY <1>8, <2>2 DEF HwFinish
      <3> QED
        BY <1>1, <2>1, <3>1
    <2>3. CASE ~hw.abort
      <3>1. hw'.phase # "off"
        BY <1>8, <2>1, <2>3 DEF HwFinish
      <3> QED
        BY <1>1, <2>1, <3>1
    <2> QED
      BY <2>2, <2>3
  <1>9. CASE HwAbort
    <2>1. "ABORT" \in irq' /\ type' = type
      BY <1>9 DEF HwAbort, listVars
    <2> QED
      BY <1>1, <2>1
  <1>10. ASSUME NEW kind \in Faults, HwFault(kind) PROVE Alive' /\ type' = type
    <2>1. kind # "JMP"
      BY QueueAssumption
    <2> QED
      BY <1>10, <2>1 DEF HwFault, listVars
  <1>11. ASSUME NEW k, Stop(k) PROVE Alive'
    BY <1>11 DEF Stop
  <1>12. ASSUME NEW k, Restart(k) PROVE Alive'
    BY <1>12 DEF Restart, vcmd_start
  <1>13. ASSUME NotFound PROVE Alive'
    BY <1>13 DEF NotFound
  <1>19. IsrCommon => type' = type
    BY DEF IsrCommon, listVars
  <1>14. CASE IsrJmp
    <2>1. working => hw.phase # "off"
      BY <1>14 DEF IsrJmp
    <2> QED
      BY <1>1, <1>14, <1>19, <2>1 DEF IsrJmp
  <1>15. CASE IsrReset
    BY <1>1, <1>19, <1>12, <1>15 DEF IsrReset
  <1>16. CASE IsrAbort
    BY <1>1, <1>19, <1>11, <1>12, <1>13, <1>16 DEF IsrAbort
  <1>17. CASE IsrError
    BY <1>1, <1>19, <1>12, <1>13, <1>17 DEF IsrError
  <1>18. CASE IsrTimeout
    BY <1>1, <1>19, <1>12, <1>13, <1>18 DEF IsrTimeout
  <1> QED
    BY <1>1, <1>3, <1>4, <1>5, <1>6, <1>7, <1>8, <1>9, <1>10, <1>14, <1>15, <1>16,
       <1>17, <1>18
    DEF Next, CalmNext, Disturbance, Submission

(* While clients are frozen an idle core stays idle: nothing runs and      *)
(* nothing interrupts.                                                     *)
LEMMA IdleStaysIdle ==
  ASSUME IdleInv, ~working PROVE ~Hardware /\ ~Interrupt
  <1>1. hw.phase = "off" /\ irq = {}
    BY DEF IdleInv, IdleMeansStopped
  <1> QED
    BY <1>1 DEF Hardware, HwFinish, HwAbort, HwFault, Interrupt, IsrJmp, IsrReset,
       IsrAbort, IsrError, IsrTimeout

(* The steps of the PM core.                                               *)
LEMMA SystemKeepsAlive ==
  ASSUME AliveInv, ~Abandons, Freeze \/ Sleep \/ TurnBack \/ Thaw
  PROVE  AliveInv'
  <1>1. IdleInv' /\ Alive' /\ UNCHANGED <<type, working>>
    BY DEF Freeze, Sleep, TurnBack, Thaw, SystemStep, queueVars, vars, AliveInv,
       IdleInv, IdleMeansStopped, Alive
  <1>2. CASE Freeze
    BY <1>1, <1>2 DEF Freeze, AliveInv, CallbackInv, Quiet
  <1>3. CASE Sleep
    BY <1>1, <1>3 DEF Sleep, AliveInv, CallbackInv, Quiet
  <1>4. CASE TurnBack
    <2>1. PICK f \in Callbacks : pm[f] = "failed"
      BY <1>4 DEF TurnBack, Failed
    <2>2. pm' \in [Callbacks -> Phases]
      BY <1>4 DEF TurnBack, Phases
    <2>3. \A c \in Callbacks : /\ pm'[c] \in {"idle", "off"}
                               /\ pm'[c] = "off" <=> pm[c] = "off"
      BY <1>4 DEF TurnBack
    <2>4. pm'[f] = "idle"
      BY <2>1, <2>3
    <2>5. \A c \in Callbacks \ power, o \in Callbacks : pm'[o] = "off" => o = c
      BY <2>1, <2>3, <2>4 DEF Callbacks, AliveInv, CallbackInv
    <2> QED
      BY <1>1, <1>4, <2>2, <2>3, <2>5 DEF TurnBack, AliveInv, CallbackInv, Quiet
  <1>5. CASE Thaw
    BY <1>1, <1>5 DEF Thaw, AliveInv, CallbackInv, Quiet
  <1> QED
    BY <1>2, <1>3, <1>4, <1>5

(* The steps of a suspending callback.  What it does not do is start the   *)
(* core; power goes when the core is idle.                                 *)
LEMMA SuspendKeepsAlive ==
  ASSUME AliveInv, NEW c \in Callbacks, Suspend(c) \/ OtherFails(c)
  PROVE  AliveInv'
  <1> USE DEF AliveInv
  <1>1. ASSUME UNCHANGED <<working, hw, irq>> PROVE IdleInv' /\ Alive'
    BY <1>1 DEF IdleInv, IdleMeansStopped, Alive
  <1>2. ASSUME UNCHANGED <<system, power, type, working>>, system = "suspend",
               NEW x \in Phases, pm' = [pm EXCEPT ![c] = x],
               c \in power, x \in Quiet => ~working
        PROVE  CallbackInv'
    <2>1. pm' \in [Callbacks -> Phases] /\ pm'[c] = x
          /\ \A o \in Callbacks \ {c} : pm'[o] = pm[o]
      BY <1>2 DEF CallbackInv
    <2> QED
      BY <1>2, <2>1 DEF CallbackInv, Quiet
  <1>3. pm[c] \notin {"idle", "off"} => system = "suspend"
    BY DEF CallbackInv
  <1>4. pm[c] # "off" => c \in power
    <2>1. \A x \in Callbacks \ power : pm[x] = "off"
      BY DEF CallbackInv
    <2> QED
      BY <2>1
  <1>5. CASE SuspendCheck(c)
    BY <1>1, <1>2, <1>4, <1>5
    DEF SuspendCheck, Begins, CoreStep, NoClientStep, listVars, Phases, Quiet
  <1>6. CASE vcmd_abort(c)
    <2>1. IdleInv' /\ Alive'
      BY <1>6 DEF vcmd_abort, IdleInv, IdleMeansStopped, Alive
    <2> QED
      BY <2>1, <1>2, <1>3, <1>4, <1>6
      DEF vcmd_abort, CoreStep, NoClientStep, listVars, Phases, Quiet
  <1>7. CASE AbortSeen(c) \/ AbortTimeout(c)
    BY <1>1, <1>2, <1>3, <1>4, <1>7 DEF AbortSeen, AbortTimeout, SuspendEnds,
       CoreStep, NoClientStep, listVars, Phases, Quiet
  <1>8. CASE AbortSleep(c)
    BY <1>1, <1>2, <1>3, <1>4, <1>8
    DEF AbortSleep, CoreStep, queueVars, vars, Phases, Quiet
  <1>9. CASE OtherFails(c)
    BY <1>1, <1>2, <1>3, <1>4, <1>9
    DEF OtherFails, Begins, CoreStep, queueVars, vars, Phases, Quiet
  <1>10. CASE SwitchOff(c)
    <2>1. ~working /\ system = "suspend"
      BY <1>3, <1>10 DEF SwitchOff, CallbackInv, Quiet
    <2>2. UNCHANGED <<working, system, type>> /\ power' = power \ {c}
      BY <1>10 DEF SwitchOff, NoClientStep, listVars
    <2>3. pm' \in [Callbacks -> Phases] /\ pm'[c] = "off"
          /\ \A o \in Callbacks \ {c} : pm'[o] = pm[o]
      BY <1>10 DEF SwitchOff, CallbackInv, Phases
    <2>4. CallbackInv'
      BY <2>1, <2>2, <2>3 DEF CallbackInv, Quiet
    <2>5. IdleInv' /\ Alive'
      BY <2>1, <1>10 DEF SwitchOff, IdleInv, IdleMeansStopped, Alive
    <2> QED
      BY <2>4, <2>5
  <1> QED
    BY <1>5, <1>6, <1>7, <1>8, <1>9, <1>10 DEF Suspend

(* A resuming callback starts the core only with its power on: either it   *)
(* is the core's own function, which it has switched on, or the other one, *)
(* and then the core's own has power already.                              *)
LEMMA ResumeKeepsAlive ==
  ASSUME AliveInv, NEW c \in Callbacks, ResumeCore(c)
  PROVE  AliveInv'
  <1> USE DEF AliveInv
  <1>1. /\ system = "resume" /\ system' = "resume" /\ pm[c] = "off"
        /\ type' = type /\ power' = power \cup {c} /\ irq' = irq
      BY DEF ResumeCore, NoClientStep, listVars
  <1>2. pm' \in [Callbacks -> Phases] /\ pm'[c] = "idle"
        /\ \A o \in Callbacks \ {c} : pm'[o] = pm[o]
    BY DEF ResumeCore, CallbackInv, Phases
  <1>3. CallbackInv'
    BY <1>1, <1>2 DEF CallbackInv, Quiet
  <1>4. type \in power'
    BY <1>1 DEF CallbackInv
  <1>5. \A n, rdy : Start(n, rdy) =>
          \/ UNCHANGED <<working, hw>>
          \/ working' /\ hw'.phase = "exec" /\ "phase" \in DOMAIN hw'
    BY <1>4 DEF Start
  <1>6. CASE UNCHANGED <<working, hw>>
    BY <1>1, <1>3, <1>6 DEF IdleInv, IdleMeansStopped, Alive
  <1>7. CASE working' /\ hw'.phase = "exec" /\ "phase" \in DOMAIN hw' /\ ~working
    BY <1>1, <1>3, <1>7 DEF IdleInv, IdleMeansStopped, Alive
  <1>8. UNCHANGED <<working, hw>> \/ (~working /\ \E n, rdy : Start(n, rdy))
    BY DEF ResumeCore
  <1> QED
    BY <1>5, <1>6, <1>7, <1>8

(* One lemma for each part of PMNext.                                      *)
LEMMA AliveStep ==
  ASSUME AliveInv, ~Abandons, [PMNext]_allVars
  PROVE  AliveInv'
  <1>1. CASE UserStep
    <2>1. Next
      BY <1>1 DEF UserStep, Client, Next, CalmNext, Disturbance
    <2>2. IdleInv' /\ Alive' /\ type' = type
      BY <2>1, AliveQueueStep DEF AliveInv
    <2> QED
      BY <1>1, <2>2 DEF UserStep, pmVars, AliveInv, CallbackInv, Quiet
  <1>2. CASE HwStep \/ PMInterrupt
    <2>1. Next /\ working
      BY <1>2, IdleStaysIdle DEF HwStep, PMInterrupt, Hardware, Interrupt, Next,
         CalmNext, Disturbance, AliveInv
    <2>2. IdleInv' /\ Alive' /\ type' = type
      BY <2>1, AliveQueueStep DEF AliveInv
    <2>3. UNCHANGED <<system, pm, power>>
      BY <1>2 DEF HwStep, PMInterrupt, pmVars
    <2> QED
      BY <2>1, <2>2, <2>3 DEF AliveInv, CallbackInv, Quiet
  <1>3. CASE UNCHANGED allVars
    BY <1>3 DEF allVars, vars, pmVars, AliveInv, IdleInv, IdleMeansStopped, Alive,
       CallbackInv, Quiet
  <1> QED
    BY <1>1, <1>2, <1>3, SystemKeepsAlive, SuspendKeepsAlive, ResumeKeepsAlive
    DEF PMNext

(* WorkingIsAlive: a core that the driver takes for running executes,      *)
(* waits at a JMP or has an interrupt to deliver, through suspensions that *)
(* succeed, fail or race with each other's callbacks, and the resumption   *)
(* of either function first.  That no third device turns the suspension    *)
(* back is a condition of the code's: with Abandons TLC finds the core     *)
(* started while its function has no power.                                *)
THEOREM WorkingStaysAlive == ~Abandons => (PMSpec => []WorkingIsAlive)
  <1> SUFFICES ASSUME ~Abandons PROVE PMSpec => []WorkingIsAlive
    OBVIOUS
  <1>1. PMInit => AliveInv
    BY QueueAssumption DEF PMInit, Init, AliveInv, IdleInv, IdleMeansStopped, Alive,
       CallbackInv, Callbacks, Phases, Quiet
  <1>2. AliveInv /\ [PMNext]_allVars => AliveInv'
    BY AliveStep
  <1>3. AliveInv => WorkingIsAlive
    BY DEF AliveInv, Alive, WorkingIsAlive
  <1> QED
    BY <1>1, <1>2, <1>3, PTL DEF PMSpec

-----------------------------------------------------------------------------
(* Closing a file.                                                         *)

(* One visit to a device, with signals, without the abort of a suspension, *)
(* a high-priority buffer or an error; slots are not given out again at    *)
(* once.                                                                   *)
PlainClose ==
    /\ Prios \subseteq {"normal"} /\ Faults = {} /\ ~QuickReuse
    /\ Carried \subseteq {[aborted |-> FALSE, restart |-> None]}

CloseTypes ==
    /\ list \in Seq(Bufs) /\ Len(list) # 0
    /\ stage \in [Bufs -> Stages]
    /\ run_done \in [Bufs -> BOOLEAN] /\ need_remove \in [Bufs -> BOOLEAN]
    /\ linked \in [Bufs -> BOOLEAN] /\ patched \in [Bufs -> BOOLEAN]
    /\ prio \in [Bufs -> {"normal"}] /\ status \in [Bufs -> {"OK"}]
    /\ jmp \in [Bufs -> Bufs \cup {None}]
    /\ sem \in Ids \cup {None, Closer}
    /\ working \in BOOLEAN /\ sw_rdy \in Nat /\ ddr_id \in Bufs
    /\ hw \in HwStates
    /\ irq \subseteq {"JMP", "ABORT"} /\ ran \subseteq Bufs
    /\ mine \subseteq Ids
    /\ exit \in [pc : ExitPhases, aborted : BOOLEAN,
                 restart : Bufs \cup {None, Foreign}, at : Bufs \cup {None}]

(* What the stage of a buffer says of it, now that a signal may end its    *)
(* submission or its release.                                              *)
BufferTells(n) ==
    /\ run_done[n] => n \in ran
    /\ stage[n] \in {"reserved", "lost", "inserted", "patched"} =>
            ~linked[n] /\ ~run_done[n] /\ n \notin ran
    /\ stage[n] \in {"waited", "released", "leaked"} => run_done[n]
    /\ stage[n] \in {"patched", "submitted", "waited", "released", "leaked"} => patched[n]
    /\ stage[n] \notin {"busy", "abort", "aborting", "signalled"}
    /\ need_remove[n] => stage[n] \in {"released", "free"}

(* The close holds the semaphore from its first step to its last.  When it *)
(* has stopped at a buffer, those of the file before it are gone; when it  *)
(* has been through the list, all are but one that only waits for the next *)
(* release behind it.                                                      *)
CloseTells ==
    /\ exit.pc # "gaveup"
    /\ sem = Closer <=> exit.pc \in {"begin", "stopping", "sweep"}
    /\ exit.pc \in {"open", "begin", "stopping"} => exit.restart = None
    /\ exit.pc \in {"open", "begin"} => ~exit.aborted
    /\ sem \in mine => exit.pc = "open"
    /\ exit.pc = "stopping" =>
            \E a \in DOMAIN list :
                /\ exit.at = list[a] /\ Own(a) /\ ~run_done[list[a]]
                /\ \A j \in DOMAIN list : Own(j) => a <= j
    /\ exit.pc \in {"sweep", "closed"} =>
            /\ \A i, j \in DOMAIN list : Own(i) /\ Own(j) => i = j
            /\ \A j \in DOMAIN list : Own(j) => run_done[list[j]] /\ need_remove[list[j]]
    /\ exit.pc = "closed" =>
            \A n \in mine : stage[n] # "free" => \E j \in DOMAIN list : list[j] = n

(* The hardware stops under a working core only for the close, which has   *)
(* told it to abort.                                                       *)
CoreTells ==
    /\ "ABORT" \in irq <=> hw.phase = "off" /\ working
    /\ hw.abort <=> exit.pc = "stopping" /\ hw.phase # "off"
    /\ working /\ exit.pc # "stopping" => hw.phase # "off"
    /\ ~working => hw.phase = "off" /\ exit.pc # "stopping"

(* The positions of ChainInv.  A buffer that the close has marked done is  *)
(* not linked any more, so links count only behind d.  An interrupt may be *)
(* left of a buffer that the close has found done.                         *)
QueueCut(c, d, l) ==
    /\ d <= Passed(c) /\ c <= l
    /\ working => hw.cur = list[c]
    /\ ~working => c = d /\ d = l /\ sw_rdy = 0
    /\ \A j \in DOMAIN list :
            /\ run_done[list[j]] <=> j <= d
            /\ list[j] \in ran <=> j <= Passed(c)
            /\ d < j => (linked[list[j]] <=> j <= l)
QueueChained(c, l) ==
    /\ \A j \in DOMAIN list : c < j /\ j <= l => jmp[list[j - 1]] = list[j]
    /\ hw.phase # "off" => sw_rdy = hw.rdy /\ hw.rdy - hw.exe = l - Passed(c)
    /\ hw.phase = "pend" => l = c
QueueTold(c) ==
    "JMP" \in irq /\ stage[ddr_id] # "free" =>
        run_done[ddr_id] \/ ddr_id = list[Passed(c)]
QueueHeld(l) ==
    /\ sem \in Ids => l = Len(list) - 1 /\ list[Len(list)] = sem
    /\ sem \notin Ids => l = Len(list)
QueueAt(c, d, l) ==
    QueueCut(c, d, l) /\ QueueChained(c, l) /\ QueueTold(c) /\ QueueHeld(l)
Queue == \E c, d, l \in DOMAIN list : QueueAt(c, d, l)

CloseInv ==
    /\ CloseTypes /\ ListOnce /\ KernelFirst /\ linked[KernelBuf] /\ ListedByStage
    /\ OneInSection /\ (\A n \in Bufs : BufferTells(n))
    /\ CloseTells /\ CoreTells /\ Queue

(* After a close that has given up nothing of this is claimed.             *)
TimelyInv ==
    IF timeouts = 0 THEN CloseInv ELSE exit.pc \in {"gaveup", "abandoned"}

(* How many members of S lie up to x tells which places of S do.           *)
LEMMA RanksCutPlaces ==
  ASSUME NEW N \in Nat, NEW S \in SUBSET (1..N), NEW x \in 0..N
  PROVE  /\ Rank(S, x) \in 0..Cardinality(S)
         /\ \A i \in 1..Cardinality(S) : Place(S, i) <= x <=> i <= Rank(S, x)
  <1> DEFINE T == {k \in S : k <= x}
  <1>1. /\ IsFiniteSet(S) /\ Cardinality(S) \in 0..N
        /\ \A i \in 1..Cardinality(S) : Place(S, i) \in S
    BY RanksAreNumbers, PlacesAreOrdered
  <1>2. /\ Cardinality(T) <= Cardinality(S) /\ Cardinality(T) \in Nat
        /\ (T = {} => Cardinality(T) = 0)
    BY <1>1, FS_Subset, FS_CardinalityType, FS_EmptySet
  <1>3. Rank(S, x) \in 0..Cardinality(S)
    BY <1>1, <1>2 DEF Rank
  <1>4. CASE T = {}
    <2>1. Rank(S, x) = 0
      BY <1>2, <1>4 DEF Rank
    <2>2. ASSUME NEW i \in 1..Cardinality(S) PROVE ~(Place(S, i) <= x) /\ ~(i <= 0)
      BY <1>1, <1>4
    <2> QED
      BY <1>3, <2>1, <2>2
  <1>5. CASE T # {}
    <2> DEFINE U == {y \in Nat : \A k \in T : k <= y}
    <2>1. x \in U
      OBVIOUS
    <2>2. PICK m \in U : \A y \in U : m <= y
      BY <2>1, NatSetHasMin
    <2>3. m \in T
      <3> SUFFICES ASSUME m \notin T PROVE FALSE
        OBVIOUS
      <3>1. \A k \in T : k <= m /\ k # m /\ k \in Nat
        BY <2>2
      <3>2. m # 0
        <4>1. PICK k : k \in T
          BY <1>5
        <4>2. k <= m /\ k # m /\ k \in Nat
          BY <3>1, <4>1
        <4> QED
          BY <4>2
      <3>3. m - 1 \in Nat /\ \A k \in T : k <= m - 1
        BY <2>2, <3>1, <3>2
      <3> HIDE DEF T
      <3>4. m - 1 \in U
        BY <3>3
      <3> QED
        BY <2>2, <3>4
    <2>4. m \in S /\ m <= x /\ \A k \in S : k <= x <=> k <= m
      BY <2>2, <2>3
    <2>5. Rank(S, x) = Rank(S, m)
      <3>1. {k \in S : k <= x} = {k \in S : k <= m}
        BY <2>4
      <3> QED
        BY <3>1 DEF Rank
    <2>6. Rank(S, m) \in 1..Cardinality(S) /\ Place(S, Rank(S, m)) = m
      BY <2>4, PlacesAreOrdered
    <2>7. \A i \in 1..Cardinality(S) : Place(S, i) <= x <=> i <= Rank(S, x)
      <3> TAKE i \in 1..Cardinality(S)
      <3>1. Place(S, i) <= x <=> Place(S, i) <= m
        BY <1>1, <2>4
      <3>2. PICK r \in 1..Cardinality(S) : r = Rank(S, m)
        BY <2>6
      <3>3. Place(S, i) < Place(S, r) <=> i < r
        BY PlacesAreOrdered
      <3>4. Place(S, r) < Place(S, i) <=> r < i
        BY PlacesAreOrdered
      <3>5. PICK q \in S : q = Place(S, i)
        BY <1>1
      <3>6. q <= m <=> i <= r
        BY <2>4, <2>6, <3>2, <3>3, <3>4, <3>5
      <3> QED
        BY <2>5, <3>1, <3>2, <3>5, <3>6
    <2> QED
      BY <1>3, <2>7
  <1> QED
    BY <1>4, <1>5

(* Between two positions nothing is missing: the ranks differ as they do.  *)
LEMMA RanksOfRun ==
  ASSUME NEW N \in Nat, NEW S \in SUBSET (1..N), NEW x \in 0..N, NEW y \in x..N,
         \A j \in 1..N : x < j /\ j <= y => j \in S
  PROVE  Rank(S, y) - Rank(S, x) = y - x
  <1> DEFINE D == {k \in S : k <= x}
             E == {k \in S : k <= y}
             U == (x + 1)..y
  <1>1. IsFiniteSet(S)
    BY RanksAreNumbers
  <1>2. D \in SUBSET S /\ D \cup U = E /\ D \cap U = {}
    <2>1. D \subseteq S /\ U \subseteq S
      OBVIOUS
    <2>2. \A k \in S : k \in E <=> k \in D \/ k \in U
      OBVIOUS
    <2>3. \A k \in U : k \notin D
      OBVIOUS
    <2>4. E \subseteq S
      OBVIOUS
    <2> HIDE DEF D, E, U
    <2> QED
      BY <2>1, <2>2, <2>3, <2>4
  <1>3. IsFiniteSet(U) /\ Cardinality(U) = y - x
    <2>1. x + 1 \in Int /\ y \in Int /\ (x + 1 > y <=> y = x)
      OBVIOUS
    <2> QED
      BY <2>1, FS_Interval
  <1> HIDE DEF U
  <1>4. IsFiniteSet(D)
    BY <1>1, <1>2, FS_Subset
  <1>5. Cardinality(E) = Cardinality(D) + Cardinality(U) - Cardinality({})
    BY <1>2, <1>3, <1>4, FS_Union
  <1>6. Cardinality(D) \in Nat /\ Cardinality({}) = 0
    BY <1>4, FS_CardinalityType, FS_EmptySet
  <1> QED
    BY <1>3, <1>5, <1>6 DEF Rank

(* What the steps below look up again and again.                           *)
LEMMA CloseFacts ==
  ASSUME CloseInv
  PROVE  /\ Len(list) \in Nat \ {0} /\ DOMAIN list = 1..Len(list) /\ list \in Seq(Bufs)
         /\ \A j \in DOMAIN list : list[j] \in Bufs
         /\ \A i, j \in DOMAIN list : list[i] = list[j] => i = j
         /\ KernelBuf \notin Ids /\ None \notin Bufs /\ None \notin Ids /\ Ids \subseteq Bufs
         /\ KernelBuf \in Bufs /\ Bufs = Ids \cup {KernelBuf}
         /\ Closer \notin Bufs /\ Closer # None
         /\ list[1] = KernelBuf /\ stage[KernelBuf] = "waited"
         /\ \A n \in Ids : (\E j \in DOMAIN list : list[j] = n) <=> stage[n] \in Listed
         /\ stage \in [Bufs -> Stages] /\ run_done \in [Bufs -> BOOLEAN]
         /\ sem \in Ids \cup {None, Closer}
         /\ \A n \in Ids : stage[n] \in Sections <=> sem = n
         /\ hw.phase \in {"off", "exec", "pend"} /\ hw.cur \in Bufs
         /\ hw.exe \in Nat /\ hw.rdy \in Nat /\ hw.abort \in BOOLEAN
  <1>1. NumIds \in Nat \ {0}
    BY QueueAssumption
  <1>2. /\ KernelBuf \notin Ids /\ None \notin Bufs /\ None \notin Ids /\ Ids \subseteq Bufs
        /\ KernelBuf \in Bufs /\ Bufs = Ids \cup {KernelBuf}
        /\ Closer \notin Bufs /\ Closer # None
    BY <1>1 DEF KernelBuf, Ids, None, Bufs, Closer
  <1>3. Len(list) \in Nat \ {0} /\ DOMAIN list = 1..Len(list) /\ list \in Seq(Bufs)
        /\ \A j \in DOMAIN list : list[j] \in Bufs
    BY LenProperties DEF CloseInv, CloseTypes
  <1>4. /\ hw.phase \in {"off", "exec", "pend"} /\ hw.cur \in Bufs
        /\ hw.exe \in Nat /\ hw.rdy \in Nat /\ hw.abort \in BOOLEAN
    BY DEF CloseInv, CloseTypes, HwStates
  <1> QED
    BY <1>2, <1>3, <1>4
    DEF CloseInv, CloseTypes, ListOnce, KernelFirst, ListedByStage, OneInSection

(* The list stays as it is, and so do the stages of a buffer in it.        *)
LEMMA ListStays ==
  ASSUME CloseInv, list' = list, stage' \in [Bufs -> Stages],
         \A n \in Ids : stage'[n] \in Listed <=> stage[n] \in Listed,
         stage'[KernelBuf] = "waited", run_done'[KernelBuf], ~need_remove'[KernelBuf],
         linked'[KernelBuf]
  PROVE  ListOnce' /\ KernelFirst' /\ linked'[KernelBuf] /\ ListedByStage'
  BY DEF CloseInv, ListOnce, KernelFirst, ListedByStage

(* Nothing happens to the hardware and to what the driver knows of the     *)
(* buffers in the list.                                                    *)
LEMMA QueueStays ==
  ASSUME CloseInv, UNCHANGED <<list, working, hw, irq, sw_rdy, ddr_id>>,
         \A j \in DOMAIN list : /\ run_done'[list[j]] <=> run_done[list[j]]
                                /\ linked'[list[j]] <=> linked[list[j]]
                                /\ list[j] \in ran' <=> list[j] \in ran
                                /\ jmp'[list[j]] = jmp[list[j]],
         "JMP" \in irq /\ stage'[ddr_id] # "free" =>
            stage[ddr_id] # "free" /\ (run_done'[ddr_id] <=> run_done[ddr_id]),
         IF sem \in Ids THEN sem' = sem ELSE sem' \notin Ids
  PROVE  Queue'
  <1>1. PICK c \in DOMAIN list, d \in DOMAIN list, l \in DOMAIN list : QueueAt(c, d, l)
    BY DEF CloseInv, Queue
  <1>2. Passed(c)' = Passed(c)
    BY DEF Passed
  <1>3. QueueCut(c, d, l)'
    BY <1>1, <1>2 DEF QueueAt, QueueCut
  <1>4. QueueChained(c, l)'
    <2>1. ASSUME NEW j \in DOMAIN list, c < j, j <= l PROVE jmp'[list[j - 1]] = list[j]
      <3>1. j - 1 \in DOMAIN list
        BY <2>1, CloseFacts
      <3> QED
        BY <1>1, <2>1, <3>1 DEF QueueAt, QueueChained
    <2> QED
      BY <1>1, <1>2, <2>1 DEF QueueAt, QueueChained
  <1>5. QueueTold(c)'
    BY <1>1, <1>2 DEF QueueAt, QueueTold
  <1>6. QueueHeld(l)'
    BY <1>1 DEF QueueAt, QueueHeld
  <1> QED
    BY <1>1, <1>3, <1>4, <1>5, <1>6 DEF Queue, QueueAt

(* The thread of a buffer that the close leaves alone moves on.            *)
LEMMA ThreadMoves ==
  ASSUME CloseInv, NEW n \in Ids, NEW t \in Stages,
         stage' = [stage EXCEPT ![n] = t], patched' \in [Bufs -> BOOLEAN],
         \A m \in Bufs : m # n => (patched'[m] <=> patched[m]),
         UNCHANGED <<listVars, linkVars, doneVars, sem, working, hw, irq, ddr_id, ran,
                     exitVars>>,
         stage[n] \in Listed <=> t \in Listed,
         stage[n] \in Sections <=> t \in Sections,
         stage[n] # "free", BufferTells(n)', n \in mine => exit.pc = "open"
  PROVE  CloseInv'
  <1> USE CloseFacts
  <1>1. \A m \in Bufs : stage'[m] = IF m = n THEN t ELSE stage[m]
    OBVIOUS
  <1>2. CloseTypes'
    <2>1. stage' \in [Bufs -> Stages] /\ patched' \in [Bufs -> BOOLEAN]
      OBVIOUS
    <2>2. /\ UNCHANGED <<list, run_done, need_remove, linked, prio, status, jmp>>
          /\ UNCHANGED <<sem, working, sw_rdy, ddr_id, hw, irq, ran, mine, exit>>
      BY DEF listVars, linkVars, doneVars, exitVars
    <2> QED
      BY <2>1, <2>2 DEF CloseInv, CloseTypes
  <1>3. (ListOnce /\ KernelFirst /\ linked[KernelBuf] /\ ListedByStage)'
    BY <1>1, ListStays
    DEF CloseInv, KernelFirst, listVars, linkVars, doneVars
  <1>4. OneInSection'
    BY <1>1 DEF OneInSection
  <1>5. \A m \in Bufs : BufferTells(m)'
    <2> TAKE m \in Bufs
    <2>1. CASE m # n
      BY <1>1, <2>1 DEF CloseInv, BufferTells, listVars, linkVars, doneVars
    <2> QED
      BY <2>1
  <1>6. CloseTells'
    <2>1. \A m \in mine : exit.pc = "closed" => stage'[m] = stage[m]
      BY <1>1 DEF CloseInv, CloseTypes
    <2>2. /\ exit' = exit /\ mine' = mine /\ list' = list /\ sem' = sem
          /\ run_done' = run_done /\ need_remove' = need_remove
      BY DEF listVars, doneVars, exitVars
    <2> QED
      BY <2>1, <2>2 DEF CloseInv, CloseTells, Own
  <1>7. CoreTells'
    BY DEF CloseInv, CoreTells, exitVars
  <1>8. Queue'
    <2>1. \A m \in Bufs : stage'[m] # "free" => stage[m] # "free"
      BY <1>1
    <2>2. ddr_id \in Bufs
      BY DEF CloseInv, CloseTypes
    <2> QED
      BY <2>1, <2>2, QueueStays DEF listVars, linkVars, doneVars
  <1> QED
    BY <1>2, <1>3, <1>4, <1>5, <1>6, <1>7, <1>8 DEF CloseInv

(* A wait ends, by the completion or a signal, or a buffer gets its        *)
(* addresses.                                                              *)
LEMMA ThreadStep ==
  ASSUME CloseInv, NEW n \in Ids,
         PatchAddresses(n) \/ Wait(n) \/ SemInterrupted(n),
         n \in mine => exit.pc = "open", UNCHANGED exitVars
  PROVE  CloseInv'
  <1> USE CloseFacts
  <1>0. BufferTells(n) /\ n \in Bufs /\ patched \in [Bufs -> BOOLEAN]
    BY DEF CloseInv, CloseTypes
  <1>1. CASE PatchAddresses(n)
    <2>1. /\ stage[n] = "inserted" /\ stage' = [stage EXCEPT ![n] = "patched"]
          /\ patched' = [patched EXCEPT ![n] = TRUE]
          /\ UNCHANGED <<listVars, linkVars, doneVars, sem, working, hw, irq, ddr_id, ran>>
      BY <1>1 DEF PatchAddresses, ddrVars
    <2>2. BufferTells(n)'
      BY <1>0, <2>1 DEF BufferTells, listVars, linkVars, doneVars
    <2> QED
      BY <1>0, <2>1, <2>2, ThreadMoves DEF Listed, Sections, Stages
  <1>2. CASE Wait(n)
    <2>1. /\ stage[n] = "submitted" /\ run_done[n] /\ stage' = [stage EXCEPT ![n] = "waited"]
          /\ UNCHANGED <<listVars, linkVars, doneVars, patched, sem, working, hw, irq,
                         ddr_id, ran>>
      BY <1>2 DEF Wait, ddrVars
    <2>2. BufferTells(n)'
      BY <1>0, <2>1 DEF BufferTells, listVars, linkVars, doneVars
    <2> QED
      BY <1>0, <2>1, <2>2, ThreadMoves DEF Listed, Sections, Stages
  <1>3. CASE SemInterrupted(n)
    <2>1. /\ stage[n] \in {"reserved", "waited"}
          /\ stage' = [stage EXCEPT ![n] = IF stage[n] = "reserved" THEN "lost" ELSE "leaked"]
          /\ UNCHANGED <<listVars, linkVars, doneVars, patched, sem, working, hw, irq,
                         ddr_id, ran>>
      BY <1>3 DEF SemInterrupted, ddrVars
    <2>2. PICK t \in {"lost", "leaked"} :
            stage' = [stage EXCEPT ![n] = t] /\ (t = "lost" <=> stage[n] = "reserved")
      BY <2>1
    <2>3. BufferTells(n)'
      BY <1>0, <2>1, <2>2 DEF BufferTells, listVars, linkVars, doneVars
    <2>4. /\ t \in Stages /\ (stage[n] \in Listed <=> t \in Listed)
          /\ stage[n] \notin Sections /\ t \notin Sections /\ stage[n] # "free"
      BY <2>1, <2>2 DEF Listed, Sections, Stages
    <2> QED
      BY <1>0, <2>1, <2>2, <2>3, <2>4, ThreadMoves
  <1> QED
    BY <1>1, <1>2, <1>3

(* A slot is given out, and not one an interrupt still names.              *)
LEMMA CloseReserveStep ==
  ASSUME PlainClose, CloseInv, NEW n \in Ids, NEW p \in Prios, ReserveFor(n, p)
  PROVE  CloseInv'
  <1> USE CloseFacts
  <1>1. /\ stage[n] = "free" /\ stage' = [stage EXCEPT ![n] = "reserved"]
        /\ prio' = [prio EXCEPT ![n] = p] /\ p = "normal"
        /\ linked' = [linked EXCEPT ![n] = FALSE]
        /\ run_done' = [run_done EXCEPT ![n] = FALSE]
        /\ status' = [status EXCEPT ![n] = "OK"]
        /\ need_remove' = [need_remove EXCEPT ![n] = FALSE]
        /\ jmp' = [jmp EXCEPT ![n] = None]
        /\ patched' = [patched EXCEPT ![n] = FALSE]
        /\ ran' = ran \ {n}
        /\ UNCHANGED <<list, sem, working, sw_rdy, ddr_id, hw, irq, exit>>
        /\ irq = {} \/ ddr_id # n
        /\ mine' \in {mine \ {n}} \cup (IF exit.pc = "open" THEN {mine \cup {n}} ELSE {})
    BY DEF PlainClose, ReserveFor, Reserve
  <1>2. n \in Bufs /\ n # KernelBuf /\ \A j \in DOMAIN list : list[j] # n
    BY <1>1 DEF Listed
  <1>3. \A m \in Bufs : stage'[m] = IF m = n THEN "reserved" ELSE stage[m]
    BY <1>1
  <1>4. \A m \in Bufs : m # n =>
          /\ run_done'[m] = run_done[m] /\ linked'[m] = linked[m]
          /\ need_remove'[m] = need_remove[m] /\ patched'[m] = patched[m]
          /\ jmp'[m] = jmp[m] /\ (m \in ran' <=> m \in ran)
    BY <1>1 DEF CloseInv, CloseTypes
  <1>5. CloseTypes'
    <2>1. /\ stage' \in [Bufs -> Stages] /\ prio' \in [Bufs -> {"normal"}]
          /\ linked' \in [Bufs -> BOOLEAN] /\ run_done' \in [Bufs -> BOOLEAN]
          /\ need_remove' \in [Bufs -> BOOLEAN] /\ patched' \in [Bufs -> BOOLEAN]
          /\ status' \in [Bufs -> {"OK"}] /\ jmp' \in [Bufs -> Bufs \cup {None}]
      BY <1>1, <1>2 DEF CloseInv, CloseTypes, Stages
    <2>2. ran' \subseteq Bufs /\ mine' \subseteq Ids
      BY <1>1 DEF CloseInv, CloseTypes
    <2> QED
      BY <1>1, <2>1, <2>2 DEF CloseInv, CloseTypes
  <1>6. (ListOnce /\ KernelFirst /\ linked[KernelBuf] /\ ListedByStage)'
    <2>1. \A m \in Ids : stage'[m] \in Listed <=> stage[m] \in Listed
      BY <1>1, <1>3 DEF Listed
    <2>2. run_done[KernelBuf] /\ ~need_remove[KernelBuf] /\ linked[KernelBuf]
      BY DEF CloseInv, KernelFirst
    <2> QED
      BY <1>1, <1>2, <1>3, <1>4, <1>5, <2>1, <2>2, ListStays DEF CloseTypes
  <1>7. OneInSection'
    BY <1>1, <1>3 DEF OneInSection, Sections
  <1>8. \A m \in Bufs : BufferTells(m)'
    <2> TAKE m \in Bufs
    <2>1. CASE m # n
      BY <1>3, <1>4, <2>1 DEF CloseInv, BufferTells
    <2>2. CASE m = n
      <3>1. /\ ~linked'[n] /\ ~run_done'[n] /\ ~need_remove'[n] /\ n \notin ran'
            /\ stage'[n] = "reserved"
        BY <1>1, <1>2, <1>3 DEF CloseInv, CloseTypes
      <3> QED
        BY <2>2, <3>1 DEF BufferTells
    <2> QED
      BY <2>1, <2>2
  <1>9. CloseTells'
    <2>1. \A m : m # n => (m \in mine' <=> m \in mine)
      BY <1>1
    <2>2. \A j \in DOMAIN list : Own(j)' <=> Own(j)
      BY <1>1, <1>2, <2>1 DEF Own
    <2>3. \A j \in DOMAIN list : /\ run_done'[list[j]] = run_done[list[j]]
                                 /\ need_remove'[list[j]] = need_remove[list[j]]
      BY <1>2, <1>4
    <2>4. exit.pc # "open" => \A m \in mine' : m \in mine /\ m # n
      BY <1>1
    <2>5. sem \in mine' => exit.pc = "open"
      BY <2>4 DEF CloseInv, CloseTells
    <2>6. exit.pc = "stopping" =>
            \E a \in DOMAIN list :
                /\ exit.at = list[a] /\ Own(a)' /\ ~run_done'[list[a]]
                /\ \A j \in DOMAIN list : Own(j)' => a <= j
      BY <2>2, <2>3 DEF CloseInv, CloseTells
    <2>7. exit.pc \in {"sweep", "closed"} =>
            /\ \A i, j \in DOMAIN list : Own(i)' /\ Own(j)' => i = j
            /\ \A j \in DOMAIN list : Own(j)' => run_done'[list[j]] /\ need_remove'[list[j]]
      BY <2>2, <2>3 DEF CloseInv, CloseTells
    <2>8. exit.pc = "closed" =>
            \A m \in mine' : stage'[m] # "free" => \E j \in DOMAIN list : list[j] = m
      <3>1. mine' \subseteq Bufs
        BY <1>5 DEF CloseTypes
      <3> QED
        BY <1>3, <2>4, <3>1 DEF CloseInv, CloseTells
    <2> QED
      BY <1>1, <2>5, <2>6, <2>7, <2>8 DEF CloseInv, CloseTells
  <1>10. CoreTells'
    BY <1>1 DEF CloseInv, CoreTells
  <1>11. Queue'
    <2>1. "JMP" \in irq => ddr_id # n /\ ddr_id \in Bufs
      BY <1>1 DEF CloseInv, CloseTypes
    <2> QED
      BY <1>1, <1>2, <1>3, <1>4, <2>1, QueueStays
  <1> QED
    BY <1>5, <1>6, <1>7, <1>8, <1>9, <1>10, <1>11 DEF CloseInv

(* The close takes the semaphore, or a signal ends it while it waits.      *)
LEMMA CloseBeginStep ==
  ASSUME CloseInv, CloseBegin \/ CloseInterrupted
  PROVE  CloseInv'
  <1> USE CloseFacts
  <1>1. /\ exit.pc = "open" /\ ~exit.aborted /\ exit.restart = None
        /\ UNCHANGED <<listVars, stage, linkVars, doneVars, patched, working, hw, irq,
                       ddr_id, ran, mine>>
        /\ \/ sem = None /\ sem' = Closer /\ exit' = [exit EXCEPT !.pc = "begin"]
           \/ /\ sem # None /\ sem \notin mine /\ sem' = sem
              /\ exit' = [exit EXCEPT !.pc = "abandoned"]
    BY DEF CloseBegin, CloseInterrupted, ddrVars, CloseInv, CloseTells
  <1>2. /\ exit'.pc \in {"begin", "abandoned"} /\ ~exit'.aborted /\ exit'.restart = None
        /\ exit'.pc = "begin" <=> sem' = Closer
        /\ exit' \in [pc : ExitPhases, aborted : BOOLEAN,
                      restart : Bufs \cup {None, Foreign}, at : Bufs \cup {None}]
    BY <1>1 DEF CloseInv, CloseTypes, CloseTells, ExitPhases
  <1>3. CloseTypes'
    <2>1. UNCHANGED <<list, stage, run_done, need_remove, linked, patched, prio, status,
                      jmp, working, sw_rdy, ddr_id, hw, irq, ran, mine>>
      BY <1>1 DEF listVars, linkVars, doneVars
    <2>2. sem' \in Ids \cup {None, Closer}
      BY <1>1
    <2> QED
      BY <1>2, <2>1, <2>2 DEF CloseInv, CloseTypes
  <1>4. (ListOnce /\ KernelFirst /\ linked[KernelBuf] /\ ListedByStage)'
    BY <1>1, ListStays DEF CloseInv, KernelFirst, listVars, linkVars, doneVars
  <1>5. OneInSection'
    BY <1>1 DEF OneInSection
  <1>6. \A m \in Bufs : BufferTells(m)'
    BY <1>1 DEF CloseInv, BufferTells, listVars, linkVars, doneVars
  <1>7. CloseTells'
    <2>1. mine' = mine /\ mine \subseteq Ids
      BY <1>1 DEF CloseInv, CloseTypes
    <2> QED
      BY <1>1, <1>2, <2>1 DEF CloseTells
  <1>8. CoreTells'
    BY <1>1, <1>2 DEF CloseInv, CoreTells
  <1>9. Queue'
    BY <1>1, QueueStays DEF listVars, linkVars, doneVars
  <1> QED
    BY <1>3, <1>4, <1>5, <1>6, <1>7, <1>8, <1>9 DEF CloseInv

(* The sweep frees the file's buffers that were never submitted: after the *)
(* walk these are all it has outside the list.                             *)
LEMMA CloseSweepStep ==
  ASSUME CloseInv, CloseSweep
  PROVE  CloseInv'
  <1> USE CloseFacts
  <1>1. /\ exit.pc = "sweep" /\ exit' = [exit EXCEPT !.pc = "closed"] /\ sem' = None
        /\ UNCHANGED <<listVars, linkVars, doneVars, patched, working, hw, irq, ddr_id,
                       ran, mine>>
        /\ sem = Closer
    BY DEF CloseSweep, ddrVars, CloseInv, CloseTells
  <1>2. \A m \in Bufs : stage'[m] = IF m \in mine /\ ~linked[m] /\ ~run_done[m]
                                    THEN "free" ELSE stage[m]
    BY DEF CloseSweep, release_cmdbuf_notlinked, Unsubmitted
  <1>3. stage' \in [Bufs -> Stages]
    <2>1. stage' = [m \in Bufs |-> IF m \in Unsubmitted THEN "free" ELSE stage[m]]
      BY DEF CloseSweep, release_cmdbuf_notlinked
    <2> QED
      BY <2>1 DEF Stages
  <1>4. \A j \in DOMAIN list : stage'[list[j]] = stage[list[j]]
    BY <1>1, <1>2 DEF CloseInv, CloseTells, Own
  <1>5. exit'.pc = "closed"
        /\ exit' \in [pc : ExitPhases, aborted : BOOLEAN,
                      restart : Bufs \cup {None, Foreign}, at : Bufs \cup {None}]
    BY <1>1 DEF CloseInv, CloseTypes, ExitPhases
  <1>6. \A m \in mine : \/ \E j \in DOMAIN list : list[j] = m
                        \/ stage'[m] = "free"
    <2> TAKE m \in mine
    <2>1. m \in Ids /\ m \in Bufs /\ BufferTells(m) /\ sem # m
      BY <1>1 DEF CloseInv, CloseTypes
    <2>2. ASSUME stage[m] \notin Listed, stage[m] # "free" PROVE stage'[m] = "free"
      <3>1. stage[m] \in Stages /\ stage[m] \notin Sections
        BY <2>1
      <3>2. stage[m] \in {"reserved", "lost"}
        BY <2>2, <3>1 DEF Stages, Listed, Sections
      <3> QED
        BY <1>2, <2>1, <3>2 DEF BufferTells
    <2> QED
      BY <1>2, <2>1, <2>2
  <1>7. CloseTypes'
    <2>1. UNCHANGED <<list, run_done, need_remove, linked, patched, prio, status,
                      jmp, working, sw_rdy, ddr_id, hw, irq, ran, mine>>
      BY <1>1 DEF listVars, linkVars, doneVars
    <2> QED
      BY <1>1, <1>3, <1>5, <2>1 DEF CloseInv, CloseTypes
  <1>8. \A m \in Ids : stage'[m] \in Listed <=> stage[m] \in Listed
    <2> TAKE m \in Ids
    <2>1. CASE \E j \in DOMAIN list : list[j] = m
      BY <1>4, <2>1
    <2>2. CASE stage[m] \notin Listed
      BY <1>2, <2>2 DEF Listed
    <2> QED
      BY <2>1, <2>2
  <1>9. (ListOnce /\ KernelFirst /\ linked[KernelBuf] /\ ListedByStage)'
    <2>1. run_done[KernelBuf] /\ ~need_remove[KernelBuf] /\ linked[KernelBuf]
      BY DEF CloseInv, KernelFirst
    <2> QED
      BY <1>1, <1>2, <1>3, <1>8, <2>1, ListStays DEF listVars, linkVars, doneVars
  <1>10. OneInSection'
    BY <1>1, <1>2 DEF OneInSection, Sections
  <1>11. \A m \in Bufs : BufferTells(m)'
    <2> TAKE m \in Bufs
    <2>1. UNCHANGED <<run_done, ran, linked, patched, need_remove>>
      BY <1>1 DEF listVars, linkVars, doneVars
    <2> QED
      BY <1>2, <2>1 DEF CloseInv, BufferTells
  <1>12. CloseTells'
    <2>1. mine' = mine /\ mine \subseteq Ids /\ list' = list
          /\ run_done' = run_done /\ need_remove' = need_remove
      BY <1>1 DEF CloseInv, CloseTypes, listVars, doneVars
    <2> QED
      BY <1>1, <1>5, <1>6, <2>1 DEF CloseInv, CloseTells, Own
  <1>13. CoreTells'
    BY <1>1, <1>5 DEF CloseInv, CoreTells
  <1>14. Queue'
    <2>1. ddr_id \in Bufs
      BY DEF CloseInv, CloseTypes
    <2>2. stage'[ddr_id] # "free" => stage[ddr_id] # "free"
      BY <1>2, <2>1
    <2> QED
      BY <1>1, <2>2, QueueStays DEF listVars, linkVars, doneVars
  <1> QED
    BY <1>7, <1>9, <1>10, <1>11, <1>12, <1>13, <1>14 DEF CloseInv

(* A position, and its buffer's slot.                                      *)
LEMMA PlaceInQueue ==
  ASSUME CloseInv, NEW j \in DOMAIN list
  PROVE  /\ InList(list[j]) /\ Position(list[j]) = j
         /\ InTable(list[j])
  <1>1. Position(list[j]) = j
    BY CloseFacts DEF Position
  <1>2. InList(list[j])
    BY DEF InList, Range
  <1>3. InTable(list[j])
    <2>1. CASE list[j] \in Ids
      BY <2>1, CloseFacts DEF InTable, Listed
    <2>2. CASE list[j] = KernelBuf
      BY <2>2, CloseFacts DEF InTable
    <2> QED
      BY <2>1, <2>2, CloseFacts
  <1> QED
    BY <1>1, <1>2, <1>3

(* What lies between d and what the hardware has passed has been submitted.*)
LEMMA LinkedIsSubmitted ==
  ASSUME CloseInv, NEW c \in DOMAIN list, NEW d \in DOMAIN list, NEW l \in DOMAIN list,
         QueueCut(c, d, l), NEW j \in DOMAIN list, d < j, j <= l
  PROVE  stage[list[j]] = "submitted"
  <1> USE CloseFacts
  <1>1. linked[list[j]] /\ ~run_done[list[j]] /\ list[j] \in Bufs
    BY DEF QueueCut
  <1>2. list[j] \in Ids
    BY <1>1 DEF CloseInv, KernelFirst
  <1>3. stage[list[j]] \in Listed /\ BufferTells(list[j])
    BY <1>2 DEF CloseInv
  <1> QED
    BY <1>1, <1>3 DEF BufferTells, Listed

(* The hardware and the handler leave the list and the stages alone.       *)
LEMMA DriverStays ==
  ASSUME CloseInv, UNCHANGED <<list, stage, need_remove, linked, sem, exitVars>>,
         run_done' \in [Bufs -> BOOLEAN], exit.pc # "stopping" \/ run_done' = run_done,
         \A n \in Bufs : run_done[n] => run_done'[n]
  PROVE  /\ (ListOnce /\ KernelFirst /\ linked[KernelBuf] /\ ListedByStage)'
         /\ OneInSection' /\ CloseTells'
  <1> USE CloseFacts
  <1>1. (ListOnce /\ KernelFirst /\ linked[KernelBuf] /\ ListedByStage)'
    BY ListStays DEF CloseInv, KernelFirst
  <1>2. OneInSection'
    BY DEF OneInSection
  <1>3. CloseTells'
    BY DEF CloseInv, CloseTells, Own, exitVars
  <1> QED
    BY <1>1, <1>2, <1>3

(* The hardware ends a buffer: it stops if the close has told it to, goes  *)
(* on to where the JMP leads, or waits there.                              *)
LEMMA CloseHwFinishStep ==
  ASSUME CloseInv, HwFinish, UNCHANGED exitVars
  PROVE  CloseInv'
  <1> USE CloseFacts
  <1>1. PICK c \in DOMAIN list, d \in DOMAIN list, l \in DOMAIN list : QueueAt(c, d, l)
    BY DEF CloseInv, Queue
  <1>2. /\ hw.phase = "exec" /\ ran' = ran \cup {hw.cur}
        /\ UNCHANGED <<list, stage, prio, need_remove, linked, jmp, patched, sem,
                       working, sw_rdy, run_done, status>>
    BY DEF HwFinish, listVars, linkVars, doneVars
  <1>3. working /\ "ABORT" \notin irq /\ (hw.abort <=> exit.pc = "stopping")
    BY <1>2 DEF CloseInv, CoreTells
  <1>4. /\ c \in Nat /\ d \in Nat /\ l \in Nat /\ 1 <= d /\ d <= c - 1 /\ c <= l
        /\ hw.cur = list[c] /\ l <= Len(list) /\ Passed(c) = c - 1
    BY <1>1, <1>2, <1>3 DEF QueueAt, QueueCut, Passed
  <1>5. \A j \in DOMAIN list :
          /\ d < j => (linked[list[j]] <=> j <= l)
          /\ list[j] \in ran <=> j <= c - 1
          /\ run_done[list[j]] <=> j <= d
    BY <1>1, <1>4 DEF QueueAt, QueueCut
  <1>6. /\ sw_rdy = hw.rdy /\ hw.rdy - hw.exe = l - (c - 1)
        /\ \A j \in DOMAIN list : c < j /\ j <= l => jmp[list[j - 1]] = list[j]
    BY <1>1, <1>2, <1>4 DEF QueueAt, QueueChained
  <1>7. stage[list[c]] = "submitted" /\ patched[list[c]] /\ list[c] \in Bufs
    <2>1. stage[list[c]] = "submitted"
      BY <1>1, <1>4, LinkedIsSubmitted DEF QueueAt
    <2> QED
      BY <2>1 DEF CloseInv, BufferTells
  <1>8. ddr_id' = list[c]
    BY <1>4, <1>7 DEF HwFinish
  <1>9. \A j \in DOMAIN list : list[j] \in ran' <=> j <= c
    BY <1>2, <1>4, <1>5
  <1>10. \A n \in Bufs : BufferTells(n)'
    <2> TAKE n \in Bufs
    <2>1. BufferTells(n) /\ stage[hw.cur] = "submitted"
      BY <1>4, <1>7 DEF CloseInv
    <2> QED
      BY <1>2, <2>1 DEF BufferTells
  <1>11. irq' \subseteq {"JMP", "ABORT"} /\ ("ABORT" \in irq' <=> hw.abort)
    <2>1. PICK raised \in {{"JMP"}, {}} :
            irq' = irq \cup raised \cup (IF hw.abort THEN {"ABORT"} ELSE {})
      BY DEF HwFinish
    <2>2. irq \subseteq {"JMP", "ABORT"}
      BY DEF CloseInv, CloseTypes
    <2> QED
      BY <1>3, <2>1, <2>2
  <1>12. /\ (ListOnce /\ KernelFirst /\ linked[KernelBuf] /\ ListedByStage)'
         /\ OneInSection' /\ CloseTells'
    BY <1>2, DriverStays
  <1>13. ASSUME hw' \in HwStates, NEW e \in {c, c + 1}, e \in DOMAIN list,
                e <= l, hw'.cur = list[e], hw'.phase = "exec" <=> e = c + 1,
                hw'.phase # "off" => /\ ~hw.abort
                                     /\ hw'.rdy = hw.rdy /\ hw'.exe = hw.exe + 1
                                     /\ hw'.phase = "pend" => l = c,
                hw'.phase = "off" <=> hw.abort, ~hw'.abort
         PROVE  CloseInv'
    <2>1. PICK P : P = Passed(e)' /\ P = c
      BY <1>4, <1>13 DEF Passed
    <2>2. CloseTypes'
      <3>1. ddr_id' \in Bufs /\ ran' \subseteq Bufs
        BY <1>2, <1>7, <1>8 DEF CloseInv, CloseTypes
      <3> QED
        BY <1>2, <1>11, <1>13, <3>1 DEF CloseInv, CloseTypes, exitVars
    <2>3. CoreTells'
      BY <1>2, <1>3, <1>11, <1>13 DEF CoreTells, exitVars
    <2>4. QueueCut(e, d, l)'
      BY <1>2, <1>3, <1>4, <1>5, <1>9, <1>13, <2>1 DEF QueueCut
    <2>5. QueueChained(e, l)'
      <3>1. hw'.phase # "off" => hw'.rdy - hw'.exe = l - P
        BY <1>4, <1>6, <1>13, <2>1
      <3>2. \A j \in DOMAIN list : e < j => c < j
        BY <1>4, <1>13
      <3> QED
        BY <1>2, <1>6, <1>13, <2>1, <3>1, <3>2 DEF QueueChained
    <2>6. QueueTold(e)'
      BY <1>2, <1>8, <2>1 DEF QueueTold
    <2>7. QueueHeld(l)'
      BY <1>1, <1>2 DEF QueueAt, QueueHeld
    <2>8. Queue'
      BY <1>2, <1>13, <2>4, <2>5, <2>6, <2>7 DEF Queue, QueueAt
    <2> QED
      BY <1>10, <1>12, <2>2, <2>3, <2>8 DEF CloseInv
  <1>14. hw \in HwStates /\ hw.exe + 1 \in Nat
    BY DEF CloseInv, CloseTypes
  <1>15. CASE hw.abort
    <2>1. hw' = [hw EXCEPT !.phase = "off", !.exe = hw.exe + 1, !.abort = FALSE]
      BY <1>15 DEF HwFinish
    <2>2. hw' \in HwStates /\ hw'.cur = hw.cur /\ hw'.phase = "off" /\ ~hw'.abort
      BY <1>14, <2>1 DEF HwStates
    <2> QED
      BY <1>4, <1>13, <1>15, <2>2
  <1>16. CASE ~hw.abort /\ c < l
    <2>1. c + 1 \in DOMAIN list /\ c + 1 <= l
      BY <1>4, <1>16
    <2>2. jmp[list[c]] = list[c + 1]
      <3>1. PICK k \in DOMAIN list : k = c + 1 /\ c < k /\ k <= l /\ k - 1 = c
        BY <1>4, <2>1
      <3>2. jmp[list[k - 1]] = list[k]
        BY <1>6, <3>1
      <3> QED
        BY <3>1, <3>2
    <2>3. list[c + 1] \in Bufs /\ list[c + 1] # None
      BY <2>1
    <2>4. hw.exe + 1 < hw.rdy
      BY <1>4, <1>6, <1>16
    <2>5. hw' = [hw EXCEPT !.cur = list[c + 1], !.exe = hw.exe + 1]
      BY <1>4, <1>16, <2>2, <2>3, <2>4 DEF HwFinish
    <2>6. /\ hw' \in HwStates /\ hw'.cur = list[c + 1] /\ hw'.phase = "exec"
          /\ hw'.rdy = hw.rdy /\ hw'.exe = hw.exe + 1 /\ ~hw'.abort
      BY <1>2, <1>14, <1>16, <2>3, <2>5 DEF HwStates
    <2> QED
      BY <1>13, <1>16, <2>1, <2>6
  <1>17. CASE ~hw.abort /\ ~(c < l)
    <2>1. c = l /\ ~(hw.exe + 1 < hw.rdy)
      BY <1>4, <1>6, <1>17
    <2>2. hw' = [hw EXCEPT !.phase = "pend", !.exe = hw.exe + 1]
      BY <1>17, <2>1 DEF HwFinish
    <2>3. /\ hw' \in HwStates /\ hw'.cur = hw.cur /\ hw'.phase = "pend"
          /\ hw'.rdy = hw.rdy /\ hw'.exe = hw.exe + 1 /\ ~hw'.abort
      BY <1>14, <1>17, <2>2 DEF HwStates
    <2> QED
      BY <1>4, <1>13, <1>17, <2>1, <2>3
  <1> QED
    BY <1>15, <1>16, <1>17

(* The hardware that waits at a JMP aborts there.                          *)
LEMMA CloseHwAbortStep ==
  ASSUME CloseInv, HwAbort, UNCHANGED exitVars
  PROVE  CloseInv'
  <1> USE CloseFacts
  <1>1. PICK c \in DOMAIN list, d \in DOMAIN list, l \in DOMAIN list : QueueAt(c, d, l)
    BY DEF CloseInv, Queue
  <1>2. /\ hw.phase = "pend" /\ hw.abort /\ irq' = irq \cup {"ABORT"}
        /\ hw' = [hw EXCEPT !.phase = "off", !.abort = FALSE]
        /\ UNCHANGED <<list, stage, prio, need_remove, linked, jmp, patched, sem,
                       working, sw_rdy, ddr_id, ran, run_done, status>>
    BY DEF HwAbort, listVars, linkVars, ddrVars, doneVars
  <1>3. /\ hw' \in HwStates /\ hw'.phase = "off" /\ hw'.cur = hw.cur /\ ~hw'.abort
    BY <1>2 DEF CloseInv, CloseTypes, HwStates
  <1>4. working
    BY <1>2 DEF CloseInv, CoreTells
  <1>5. CloseTypes'
    BY <1>2, <1>3 DEF CloseInv, CloseTypes, exitVars
  <1>6. /\ (ListOnce /\ KernelFirst /\ linked[KernelBuf] /\ ListedByStage)'
        /\ OneInSection' /\ CloseTells'
    BY <1>2, DriverStays
  <1>7. \A n \in Bufs : BufferTells(n)'
    BY <1>2 DEF CloseInv, BufferTells
  <1>8. CoreTells'
    BY <1>2, <1>3, <1>4 DEF CloseInv, CoreTells, exitVars
  <1>9. Passed(c)' = Passed(c)
    BY <1>2, <1>3 DEF Passed
  <1>10. QueueCut(c, d, l)'
    BY <1>1, <1>2, <1>3, <1>4, <1>9 DEF QueueAt, QueueCut
  <1>11. QueueChained(c, l)'
    BY <1>1, <1>2, <1>3, <1>9 DEF QueueAt, QueueChained
  <1>12. QueueTold(c)'
    BY <1>1, <1>2, <1>9 DEF QueueAt, QueueTold
  <1>13. QueueHeld(l)'
    BY <1>1, <1>2 DEF QueueAt, QueueHeld
  <1>14. Queue'
    BY <1>1, <1>2, <1>10, <1>11, <1>12, <1>13 DEF Queue, QueueAt
  <1> QED
    BY <1>5, <1>6, <1>7, <1>8, <1>14 DEF CloseInv

(* A walk back from what the hardware has passed reports what lies behind  *)
(* d.                                                                      *)
LEMMA WalkReports ==
  ASSUME CloseInv, NEW d \in DOMAIN list, NEW q \in DOMAIN list, d < q,
         \A j \in DOMAIN list : run_done[list[j]] <=> j <= d
  PROVE  \A n : n \in Completed(list[q]) <=> \E j \in DOMAIN list : d < j /\ j <= q /\ n = list[j]
  <1> USE CloseFacts
  <1>1. Completed(list[q]) = {list[j] : j \in {i \in 1..q :
                                \A m \in i..q : ~run_done[list[m]]}}
    BY PlaceInQueue DEF Completed
  <1>2. \A i \in 1..q : (\A m \in i..q : ~run_done[list[m]]) <=> d < i
    <2> TAKE i \in 1..q
    <2>1. ASSUME d < i, NEW m \in i..q PROVE ~run_done[list[m]]
      <3>1. m \in DOMAIN list /\ ~(m <= d)
        BY <2>1
      <3> QED
        BY <3>1
    <2>2. ASSUME ~(d < i) PROVE \E m \in i..q : run_done[list[m]]
      <3>1. d \in i..q /\ d <= d
        BY <2>2
      <3> QED
        BY <3>1
    <2> QED
      BY <2>1, <2>2
  <1>3. \A n : n \in Completed(list[q]) <=> \E i \in 1..q : d < i /\ n = list[i]
    <2>1. \A n : n \in Completed(list[q]) <=>
              \E i \in 1..q : (\A m \in i..q : ~run_done[list[m]]) /\ n = list[i]
      BY <1>1
    <2> QED
      BY <1>2, <2>1
  <1>4. \A i : i \in 1..q <=> i \in DOMAIN list /\ i <= q
    OBVIOUS
  <1> QED
    BY <1>3, <1>4

(* A JMP interrupt reports what the hardware has passed, or finds nothing  *)
(* to report.                                                              *)
LEMMA CloseJmpStep ==
  ASSUME CloseInv, Unlocked, IsrJmp, UNCHANGED exitVars
  PROVE  CloseInv'
  <1> USE CloseFacts
  <1>1. PICK c \in DOMAIN list, d \in DOMAIN list, l \in DOMAIN list : QueueAt(c, d, l)
    BY DEF CloseInv, Queue
  <1>2. /\ irq = {"JMP"} /\ irq' = {} /\ exit.pc # "stopping"
        /\ UNCHANGED <<list, stage, prio, need_remove, linked, jmp, patched, sem,
                       working, sw_rdy, ddr_id, hw, ran>>
    BY DEF IsrJmp, IsrCommon, listVars, linkVars, ddrVars, Unlocked
  <1> DEFINE reported == IF InTable(ddr_id) THEN Completed(ddr_id) ELSE {}
  <1>3. /\ run_done' = [n \in Bufs |-> run_done[n] \/ n \in reported]
        /\ status' \in [Bufs -> {"OK"}]
    BY DEF IsrJmp, MarkDone, CloseInv, CloseTypes
  <1>4. /\ Passed(c) \in 0..Len(list) /\ d <= Passed(c) /\ Passed(c) <= l
        /\ \A j \in DOMAIN list : /\ run_done[list[j]] <=> j <= d
                                  /\ list[j] \in ran <=> j <= Passed(c)
    BY <1>1 DEF QueueAt, QueueCut, Passed
  <1>5. PICK q \in d..Len(list) :
          /\ q <= Passed(c) /\ q \in DOMAIN list
          /\ \A n : n \in reported <=> \E j \in DOMAIN list : d < j /\ j <= q /\ n = list[j]
    <2>1. CASE InTable(ddr_id) /\ ~run_done[ddr_id]
      <3>1. ddr_id = list[Passed(c)]
        BY <1>1, <1>2, <2>1 DEF QueueAt, QueueTold, InTable
      <3>2. PICK q \in DOMAIN list : q = Passed(c)
        BY <1>4
      <3>3. d < q
        BY <1>4, <2>1, <3>1, <3>2
      <3>4. q \in d..Len(list) /\ q <= Passed(c)
        BY <3>2, <3>3
      <3> QED
        BY <1>4, <2>1, <3>1, <3>2, <3>3, <3>4, WalkReports
    <2>2. CASE ~InTable(ddr_id) \/ run_done[ddr_id]
      <3>1. reported = {}
        BY <2>2 DEF Completed
      <3>2. d \in d..Len(list) /\ \A j \in DOMAIN list : ~(d < j /\ j <= d)
        OBVIOUS
      <3> HIDE DEF reported
      <3> QED
        BY <1>4, <3>1, <3>2
    <2> QED
      BY <2>1, <2>2
  <1> HIDE DEF reported
  <1>6. /\ run_done' \in [Bufs -> BOOLEAN]
        /\ \A n \in Bufs : run_done'[n] <=> run_done[n] \/ n \in reported
    BY <1>3
  <1>7. \A j \in DOMAIN list : run_done'[list[j]] <=> j <= q
    BY <1>4, <1>5, <1>6
  <1>8. CloseTypes'
    BY <1>2, <1>3, <1>6 DEF CloseInv, CloseTypes, exitVars
  <1>9. /\ (ListOnce /\ KernelFirst /\ linked[KernelBuf] /\ ListedByStage)'
        /\ OneInSection' /\ CloseTells'
    BY <1>2, <1>6, DriverStays
  <1>10. \A n \in Bufs : BufferTells(n)'
    <2> TAKE n \in Bufs
    <2>1. BufferTells(n)
      BY DEF CloseInv
    <2>2. CASE n \notin reported
      BY <1>2, <1>6, <2>1, <2>2 DEF BufferTells
    <2>3. CASE n \in reported
      <3>1. PICK j \in DOMAIN list : d < j /\ j <= q /\ n = list[j]
        BY <1>5, <2>3
      <3>2. n \in ran /\ j <= l
        BY <1>4, <1>5, <3>1
      <3>3. stage[n] = "submitted"
        BY <1>1, <3>1, <3>2, LinkedIsSubmitted DEF QueueAt
      <3> QED
        BY <1>2, <1>6, <2>1, <3>2, <3>3 DEF BufferTells
    <2> QED
      BY <2>2, <2>3
  <1>11. CoreTells'
    BY <1>2 DEF CloseInv, CoreTells, exitVars
  <1>12. Passed(c)' = Passed(c)
    BY <1>2 DEF Passed
  <1>13. QueueCut(c, q, l)'
    <2>1. ~working => q = d
      BY <1>1, <1>2, <1>5 DEF QueueAt, QueueCut, CloseInv, CoreTells, Passed
    <2>2. \A j \in DOMAIN list : q < j => d < j
      BY <1>5
    <2> QED
      BY <1>1, <1>2, <1>5, <1>7, <1>12, <2>1, <2>2 DEF QueueAt, QueueCut
  <1>14. QueueChained(c, l)'
    BY <1>1, <1>2, <1>12 DEF QueueAt, QueueChained
  <1>15. QueueTold(c)' /\ QueueHeld(l)'
    BY <1>1, <1>2 DEF QueueAt, QueueTold, QueueHeld
  <1>16. Queue'
    BY <1>2, <1>5, <1>13, <1>14, <1>15 DEF Queue, QueueAt
  <1> QED
    BY <1>8, <1>9, <1>10, <1>11, <1>16 DEF CloseInv

(* The handler sees no other interrupt: the abort's is dropped by the      *)
(* close that has asked for it.                                            *)
LEMMA OnlyJmpInterrupts ==
  ASSUME CloseInv, Unlocked, Interrupt
  PROVE  IsrJmp
  <1>1. irq \subseteq {"JMP"}
    BY DEF CloseInv, CloseTypes, CoreTells, Unlocked
  <1> QED
    BY <1>1 DEF Interrupt, IsrJmp, IsrReset, IsrAbort, IsrError, IsrTimeout

-----------------------------------------------------------------------------
(* A buffer is put behind the list.                                        *)
LEMMA CloseSelectStep ==
  ASSUME CloseInv, NEW n \in Ids, SelectTail(n), n \in mine => exit.pc = "open",
         UNCHANGED exitVars
  PROVE  CloseInv'
  <1> USE CloseFacts
  <1>1. /\ stage[n] = "reserved" /\ stage' = [stage EXCEPT ![n] = "inserted"]
        /\ sem = None /\ sem' = n /\ list' = Append(list, n)
        /\ UNCHANGED <<prio, need_remove, linked, run_done, status, jmp, patched, working,
                       sw_rdy, ddr_id, ran, hw, irq, mine, exit>>
    BY DEF SelectTail, linkVars, doneVars, ddrVars, exitVars
  <1>2. PICK N \in Nat : N = Len(list) /\ N # 0
    OBVIOUS
  <1>3. /\ n \in Bufs /\ n # KernelBuf /\ \A j \in DOMAIN list : list[j] # n
        /\ BufferTells(n) /\ ~linked[n] /\ ~run_done[n] /\ n \notin ran
    BY <1>1 DEF CloseInv, Listed, BufferTells
  <1>4. /\ list' \in Seq(Bufs) /\ Len(list') = N + 1 /\ DOMAIN list' = 1..(N + 1)
        /\ \A j \in DOMAIN list : j \in DOMAIN list' /\ list'[j] = list[j]
        /\ list'[N + 1] = n
    <2>1. /\ Append(list, n) \in Seq(Bufs) /\ Len(Append(list, n)) = N + 1
          /\ \A j \in 1..N : Append(list, n)[j] = list[j]
          /\ Append(list, n)[N + 1] = n
      BY <1>2, <1>3, AppendProperties
    <2>2. DOMAIN list' = 1..(N + 1)
      BY <1>1, <2>1, LenProperties
    <2> QED
      BY <1>1, <1>2, <2>1, <2>2
  <1>5. \A j \in DOMAIN list' : j \in DOMAIN list \/ j = N + 1
    BY <1>2, <1>4
  <1>6. \A m \in Bufs : stage'[m] = IF m = n THEN "inserted" ELSE stage[m]
    BY <1>1
  <1>7. CloseTypes'
    <2>1. stage' \in [Bufs -> Stages] /\ Len(list') # 0 /\ sem' \in Ids
      BY <1>1, <1>2, <1>3, <1>4 DEF Stages
    <2> QED
      BY <1>1, <1>4, <2>1 DEF CloseInv, CloseTypes
  <1>8. ListOnce'
    BY <1>3, <1>4, <1>5 DEF CloseInv, ListOnce
  <1>9. KernelFirst' /\ linked'[KernelBuf]
    BY <1>1, <1>3, <1>4, <1>6 DEF CloseInv, KernelFirst
  <1>10. ListedByStage'
    <2> SUFFICES ASSUME NEW m \in Ids
                 PROVE  (\E j \in DOMAIN list' : list'[j] = m) <=> stage'[m] \in Listed
      BY DEF ListedByStage
    <2>1. CASE m = n
      <3>1. N + 1 \in DOMAIN list'
        BY <1>2, <1>4
      <3> QED
        BY <1>3, <1>4, <1>6, <2>1, <3>1 DEF Listed
    <2>2. CASE m # n
      <3>1. (\E j \in DOMAIN list' : list'[j] = m) <=> (\E j \in DOMAIN list : list[j] = m)
        BY <1>4, <1>5, <2>2
      <3> QED
        BY <1>6, <2>2, <3>1
    <2> QED
      BY <2>1, <2>2
  <1>11. OneInSection'
    BY <1>1, <1>6 DEF OneInSection, Sections
  <1>12. \A m \in Bufs : BufferTells(m)'
    <2> TAKE m \in Bufs
    <2>1. CASE m # n
      BY <1>1, <1>6, <2>1 DEF CloseInv, BufferTells
    <2>2. CASE m = n
      BY <1>1, <1>3, <1>6, <2>2 DEF BufferTells
    <2> QED
      BY <2>1, <2>2
  <1>13. CloseTells'
    <2>1. exit.pc \notin {"gaveup", "begin", "stopping", "sweep"}
      BY <1>1 DEF CloseInv, CloseTells
    <2>2. exit.pc # "open" => n \notin mine
      OBVIOUS
    <2>3. exit.pc = "closed" => \A j \in DOMAIN list' : Own(j)' => j \in DOMAIN list /\ Own(j)
      BY <1>1, <1>4, <1>5, <2>2 DEF Own
    <2>4. exit.pc = "closed" =>
            \A m \in mine : stage'[m] # "free" => \E j \in DOMAIN list' : list'[j] = m
      <3>1. mine \subseteq Bufs
        BY DEF CloseInv, CloseTypes
      <3> QED
        BY <1>4, <1>6, <2>2, <3>1 DEF CloseInv, CloseTells
    <2>5. exit.pc = "closed" =>
            /\ \A i, j \in DOMAIN list' : Own(i)' /\ Own(j)' => i = j
            /\ \A j \in DOMAIN list' : Own(j)' => run_done[list'[j]] /\ need_remove[list'[j]]
      BY <1>4, <2>3 DEF CloseInv, CloseTells
    <2>6. sem' # Closer /\ (exit.pc \in {"open", "begin"} => ~exit.aborted)
          /\ (exit.pc \in {"open", "begin", "stopping"} => exit.restart = None)
      BY <1>1, <1>3 DEF CloseInv, CloseTells
    <2> QED
      BY <1>1, <2>1, <2>2, <2>4, <2>5, <2>6 DEF CloseTells
  <1>14. CoreTells'
    BY <1>1 DEF CloseInv, CoreTells
  <1>15. Queue'
    <2>1. PICK c \in DOMAIN list, d \in DOMAIN list, l \in DOMAIN list : QueueAt(c, d, l)
      BY DEF CloseInv, Queue
    <2>2. l = N /\ c \in 1..N /\ d \in 1..N
      BY <1>1, <1>2, <2>1 DEF QueueAt, QueueHeld
    <2>3. PICK P : P = Passed(c) /\ P = Passed(c)' /\ P \in 0..N /\ d <= P /\ P <= c
      BY <1>1, <2>1, <2>2 DEF Passed, QueueAt, QueueCut
    <2>4. QueueCut(c, d, l)'
      <3> SUFFICES ASSUME NEW j \in DOMAIN list'
                   PROVE  /\ run_done[list'[j]] <=> j <= d
                          /\ list'[j] \in ran <=> j <= P
                          /\ d < j => (linked[list'[j]] <=> j <= l)
        BY <1>1, <1>4, <2>1, <2>2, <2>3 DEF QueueAt, QueueCut
      <3>1. CASE j \in DOMAIN list
        BY <1>4, <2>1, <2>3, <3>1 DEF QueueAt, QueueCut
      <3>2. CASE j = N + 1
        BY <1>3, <1>4, <2>2, <2>3, <3>2
      <3> QED
        BY <1>5, <3>1, <3>2
    <2>5. QueueChained(c, l)'
      <3>1. ASSUME NEW j \in DOMAIN list', c < j, j <= l
            PROVE  jmp[list'[j - 1]] = list'[j]
        <4>1. j \in DOMAIN list /\ j - 1 \in DOMAIN list
          BY <1>2, <1>4, <2>2, <3>1
        <4> QED
          BY <1>4, <2>1, <3>1, <4>1 DEF QueueAt, QueueChained
      <3> QED
        BY <1>1, <2>1, <2>3, <3>1 DEF QueueAt, QueueChained
    <2>6. QueueTold(c)'
      <3>1. ddr_id # n => ("JMP" \in irq /\ stage'[ddr_id] # "free" =>
                                run_done[ddr_id] \/ ddr_id = list[P])
        BY <1>6, <2>1, <2>3 DEF QueueAt, QueueTold, CloseInv, CloseTypes
      <3>2. ddr_id = n => ("JMP" \in irq => run_done[ddr_id] \/ ddr_id = list[P])
        BY <1>1, <2>1, <2>3 DEF QueueAt, QueueTold
      <3>3. CASE P = 0
        BY <2>2, <2>3, <3>3
      <3>4. CASE P # 0
        <4>1. list'[P] = list[P]
          BY <1>2, <1>4, <2>3, <3>4
        <4> QED
          BY <1>1, <2>3, <3>1, <3>2, <4>1 DEF QueueTold
      <3> QED
        BY <3>3, <3>4
    <2>7. QueueHeld(l)'
      <3>1. sem' \in Ids /\ Len(list') - 1 = l /\ list'[Len(list')] = sem'
        BY <1>1, <1>4, <2>2
      <3> QED
        BY <3>1 DEF QueueHeld
    <2>8. c \in DOMAIN list' /\ d \in DOMAIN list' /\ l \in DOMAIN list'
      BY <1>4
    <2> QED
      BY <2>4, <2>5, <2>6, <2>7, <2>8 DEF Queue, QueueAt
  <1> QED
    BY <1>7, <1>8, <1>9, <1>10, <1>11, <1>12, <1>13, <1>14, <1>15 DEF CloseInv

(* vcmd_link_cmdbuf joins the tail, and nothing before it: what the close  *)
(* has marked done and unlinked stays as it is.                            *)
LEMMA LinkJoinsTail ==
  ASSUME CloseInv, NEW n \in Ids, stage[n] = "patched",
         NEW c \in DOMAIN list, NEW d \in DOMAIN list, NEW l \in DOMAIN list,
         QueueAt(c, d, l), vcmd_link_cmdbuf(find_last_linked_cmdbuf(n))
  PROVE  /\ sem = n /\ l = Len(list) - 1 /\ l + 1 = Len(list) /\ list[l + 1] = n
         /\ Passed(c) \in 0..l /\ d \in 1..l /\ c \in 1..l
         /\ linked' \in [Bufs -> BOOLEAN]
         /\ \A m \in Bufs : linked'[m] <=> linked[m] \/ m = n
         /\ jmp' \in [Bufs -> Bufs \cup {None}]
         /\ \A m \in Bufs : jmp'[m] = IF m = list[l] THEN n ELSE jmp[m]
         /\ sw_rdy' = sw_rdy + 1
         /\ \E k \in 1..l : /\ k = find_last_linked_cmdbuf(n)
                            /\ \A j \in k..Len(list) : ~run_done[list[j]] /\ d = l => j = l + 1
  <1> USE CloseFacts
  <1>1. sem = n /\ l = Len(list) - 1 /\ l + 1 = Len(list) /\ list[l + 1] = n
    BY DEF QueueAt, QueueHeld, Sections
  <1>2. /\ d \in 1..l /\ c \in 1..l /\ Passed(c) \in 0..l /\ l + 1 \in DOMAIN list
        /\ \A j \in DOMAIN list :
              /\ run_done[list[j]] <=> j <= d
              /\ d < j => (linked[list[j]] <=> j <= l)
    <2>1. /\ d <= Passed(c) /\ c <= l /\ c \in Nat /\ d \in Nat /\ l \in Nat
          /\ \A j \in DOMAIN list :
              /\ run_done[list[j]] <=> j <= d
              /\ d < j => (linked[list[j]] <=> j <= l)
      BY DEF QueueAt, QueueCut
    <2>2. Passed(c) \in 0..c
      BY <2>1 DEF Passed
    <2>3. 1 <= d /\ l + 1 \in DOMAIN list /\ 1 <= c
      BY <1>1, <2>1
    <2> QED
      BY <2>1, <2>2, <2>3
  <1>3. PICK k : k = find_last_linked_cmdbuf(n)
    OBVIOUS
  <1>4. k \in 1..l /\ linked[list[k]] /\ \A j \in 1..l : linked[list[j]] => j <= k
    <2> DEFINE B == {j \in 1..(Position(n) - 1) : linked[list[j]]}
    <2>1. Position(n) - 1 = l
      BY <1>1, <1>2, PlaceInQueue
    <2>2. B = {j \in 1..l : linked[list[j]]}
      BY <2>1
    <2>3. k = IF B = {} THEN 1 ELSE Max(B)
      BY <1>3 DEF find_last_linked_cmdbuf
    <2>4. 1 \in B
      BY <1>2, <2>2 DEF CloseInv
    <2>5. \E x \in B : \A y \in B : x >= y
      <3>1. IsFiniteSet(1..l)
        BY <1>2, FS_Interval
      <3>2. IsFiniteSet(B)
        BY <2>2, <3>1, FS_Subset
      <3> DEFINE U == {y \in Nat : \A j \in B : j <= y}
      <3>3. l \in U
        BY <1>2, <2>2
      <3>4. PICK m \in U : \A y \in U : m <= y
        <4>1. U \in SUBSET Nat /\ U # {}
          BY <3>3
        <4> HIDE DEF U
        <4> QED
          BY <4>1, NatSetHasMin
      <3>5. m \in B
        <4> SUFFICES ASSUME m \notin B PROVE FALSE
          OBVIOUS
        <4>1. \A j \in B : j <= m /\ j # m /\ j \in Nat
          BY <2>2, <3>4
        <4>2. m # 0
          BY <2>4, <3>4, <4>1
        <4>3. m - 1 \in Nat /\ \A j \in B : j <= m - 1
          BY <3>4, <4>1, <4>2
        <4> HIDE DEF B
        <4>4. m - 1 \in U
          BY <4>3
        <4> QED
          BY <3>4, <4>4
      <3> HIDE DEF B
      <3> QED
        BY <2>2, <3>4, <3>5
    <2> HIDE DEF B
    <2>6. k \in B /\ \A y \in B : k >= y
      BY <2>3, <2>4, <2>5 DEF Max
    <2> QED
      BY <1>2, <2>2, <2>6
  <1>5. \A j \in DOMAIN list : k < j /\ ~run_done[list[j]] <=> j = l + 1
    <2> TAKE j \in DOMAIN list
    <2>1. ASSUME k < j, ~run_done[list[j]], j # l + 1 PROVE FALSE
      <3>1. j \in 1..l /\ d < j
        BY <1>1, <1>2, <2>1
      <3> QED
        BY <1>2, <1>4, <2>1, <3>1
    <2>2. j = l + 1 => k < j /\ ~run_done[list[j]]
      BY <1>2, <1>4
    <2> QED
      BY <2>1, <2>2
  <1>6. Joined(k, linked, run_done) = {l + 1}
    BY <1>2, <1>4, <1>5 DEF Joined
  <1>7. sw_rdy' = sw_rdy + 1
    <2>1. Cardinality({l + 1}) = 1
      BY FS_Singleton
    <2>2. sw_rdy' = sw_rdy + Cardinality(Joined(k, linked, run_done))
      BY <1>3 DEF vcmd_link_cmdbuf
    <2> QED
      BY <1>6, <2>1, <2>2
  <1>8. /\ linked' \in [Bufs -> BOOLEAN]
        /\ \A m \in Bufs : linked'[m] <=> linked[m] \/ m = n
    <2>1. linked' = [m \in Bufs |-> linked[m] \/ \E j \in {l + 1} : list[j] = m]
      BY <1>3, <1>6 DEF vcmd_link_cmdbuf, LinkedFrom
    <2>2. linked \in [Bufs -> BOOLEAN]
      BY DEF CloseInv, CloseTypes
    <2> QED
      BY <1>1, <2>1, <2>2
  <1>9. \A m \in Bufs : jmp'[m] = IF m = list[l] THEN n ELSE jmp[m]
    <2> TAKE m \in Bufs
    <2>1. jmp'[m] = IF InList(m) /\ Position(m) \in k..(Len(list) - 1)
                        /\ ~run_done[list[Position(m) + 1]]
                    THEN list[Position(m) + 1] ELSE jmp[m]
      BY <1>3 DEF vcmd_link_cmdbuf, JumpsFrom
    <2>2. CASE InList(m)
      <3>1. PICK j \in DOMAIN list : m = list[j]
        BY <2>2 DEF InList, Range
      <3>2. Position(m) = j /\ (m = list[l] <=> j = l)
        BY <3>1, PlaceInQueue
      <3>3. CASE j \in k..l
        <4>1. PICK i \in DOMAIN list : i = j + 1
          BY <1>1, <1>2, <1>4, <3>3
        <4>2. ~run_done[list[i]] <=> i = l + 1
          BY <1>4, <1>5, <3>3, <4>1
        <4>3. i = l + 1 <=> j = l
          BY <1>2, <4>1
        <4>4. jmp'[m] = IF ~run_done[list[i]] THEN list[i] ELSE jmp[m]
          BY <1>1, <2>1, <2>2, <3>2, <3>3, <4>1
        <4> QED
          BY <1>1, <3>2, <4>2, <4>3, <4>4
      <3>4. CASE j \notin k..l
        BY <1>1, <1>2, <1>4, <2>1, <3>2, <3>4
      <3> QED
        BY <3>3, <3>4
    <2>3. CASE ~InList(m)
      BY <2>1, <2>3, PlaceInQueue
    <2> QED
      BY <2>2, <2>3
  <1>10. jmp' \in [Bufs -> Bufs \cup {None}]
    <2>1. jmp' = [m \in Bufs |-> jmp'[m]]
      BY DEF vcmd_link_cmdbuf, JumpsFrom
    <2>2. \A m \in Bufs : jmp'[m] \in Bufs \cup {None}
      BY <1>9 DEF CloseInv, CloseTypes
    <2> QED
      BY <2>1, <2>2
  <1>11. \A j \in k..Len(list) : ~run_done[list[j]] /\ d = l => j = l + 1
    <2> SUFFICES ASSUME NEW j \in k..Len(list), ~run_done[list[j]], d = l PROVE j = l + 1
      OBVIOUS
    <2>1. j \in DOMAIN list
      BY <1>4
    <2>2. ~(j <= l)
      BY <1>2, <2>1
    <2> QED
      BY <1>1, <1>2, <2>1, <2>2
  <1> QED
    BY <1>1, <1>2, <1>3, <1>4, <1>7, <1>8, <1>9, <1>10, <1>11

(* The tail is linked, and the hardware runs on to it.                     *)
LEMMA CloseLinkedStep ==
  ASSUME CloseInv, NEW n \in Ids, stage[n] = "patched", LeaveSection(n),
         NEW c \in DOMAIN list, NEW d \in DOMAIN list, NEW l \in DOMAIN list,
         QueueAt(c, d, l), vcmd_link_cmdbuf(find_last_linked_cmdbuf(n)),
         UNCHANGED exitVars, n \in mine => exit.pc = "open",
         working', hw' \in HwStates, hw'.phase = "exec", ~hw'.abort, hw'.rdy = sw_rdy',
         NEW e \in 1..(l + 1), e - 1 = Passed(c), hw'.cur = list[e],
         hw'.rdy - hw'.exe = l + 1 - Passed(c)
  PROVE  CloseInv'
  <1> USE CloseFacts
  <1>1. /\ sem = n /\ l = Len(list) - 1 /\ l + 1 = Len(list) /\ list[l + 1] = n
        /\ Passed(c) \in 0..l /\ d \in 1..l /\ c \in 1..l
        /\ linked' \in [Bufs -> BOOLEAN]
        /\ \A m \in Bufs : linked'[m] <=> linked[m] \/ m = n
        /\ jmp' \in [Bufs -> Bufs \cup {None}]
        /\ \A m \in Bufs : jmp'[m] = IF m = list[l] THEN n ELSE jmp[m]
    BY LinkJoinsTail
  <1>2. /\ UNCHANGED <<list, prio, need_remove, run_done, status, patched, ddr_id, ran, irq,
                       mine, exit>>
        /\ sem' = None /\ stage' = [stage EXCEPT ![n] = "submitted"]
    BY DEF LeaveSection, listVars, doneVars, ddrVars, exitVars
  <1>3. \A m \in Bufs : stage'[m] = IF m = n THEN "submitted" ELSE stage[m]
    BY <1>2
  <1>4. /\ exit.pc \notin {"gaveup", "begin", "stopping", "sweep"}
        /\ "ABORT" \notin irq
    <2>1. exit.pc \notin {"gaveup", "begin", "stopping", "sweep"}
      BY <1>1 DEF CloseInv, CloseTells
    <2> QED
      BY <2>1 DEF CloseInv, CoreTells
  <1>5. CloseTypes'
    <2>1. stage' \in [Bufs -> Stages] /\ sw_rdy' \in Nat
      BY <1>2 DEF Stages, HwStates
    <2> QED
      BY <1>1, <1>2, <2>1 DEF CloseInv, CloseTypes
  <1>6. (ListOnce /\ KernelFirst /\ linked[KernelBuf] /\ ListedByStage)'
    <2>1. \A m \in Ids : stage'[m] \in Listed <=> stage[m] \in Listed
      BY <1>3 DEF Listed
    <2>2. linked'[KernelBuf]
      BY <1>1 DEF CloseInv
    <2> QED
      BY <1>2, <1>3, <1>5, <2>1, <2>2, ListStays DEF CloseInv, CloseTypes, KernelFirst
  <1>7. OneInSection'
    BY <1>1, <1>2, <1>3 DEF OneInSection, Sections
  <1>8. \A m \in Bufs : BufferTells(m)'
    <2> TAKE m \in Bufs
    <2>1. BufferTells(m)
      BY DEF CloseInv
    <2>2. CASE m = n
      BY <1>2, <1>3, <2>1, <2>2 DEF BufferTells
    <2>3. CASE m # n
      BY <1>1, <1>2, <1>3, <2>1, <2>3 DEF BufferTells
    <2> QED
      BY <2>2, <2>3
  <1>9. CloseTells'
    <2>1. exit.pc = "closed" => \A m \in mine : stage'[m] = stage[m]
      BY <1>3 DEF CloseInv, CloseTypes
    <2>2. sem' # Closer /\ sem' \notin mine
      BY <1>2 DEF CloseInv, CloseTypes
    <2> QED
      BY <1>2, <1>4, <2>1, <2>2 DEF CloseInv, CloseTells, Own
  <1>10. CoreTells'
    BY <1>2, <1>4 DEF CoreTells
  <1>11. Passed(e)' = Passed(c)
    BY DEF Passed
  <1>12. QueueCut(e, d, l + 1)'
    <2>1. d <= Passed(c) /\ e <= l + 1
      BY DEF QueueAt, QueueCut
    <2>2. ASSUME NEW j \in DOMAIN list
          PROVE  /\ run_done[list[j]] <=> j <= d
                 /\ list[j] \in ran <=> j <= Passed(c)
                 /\ d < j => (linked'[list[j]] <=> j <= l + 1)
      <3>1. /\ run_done[list[j]] <=> j <= d
            /\ list[j] \in ran <=> j <= Passed(c)
            /\ d < j => (linked[list[j]] <=> j <= l)
        BY DEF QueueAt, QueueCut
      <3>2. list[j] = n <=> j = l + 1
        <4>1. list[l + 1] = n /\ l + 1 \in DOMAIN list
          <5>1. list[l + 1] = n /\ l + 1 = Len(list)
            BY <1>1
          <5>2. Len(list) \in DOMAIN list
            OBVIOUS
          <5> QED
            BY <5>1, <5>2
        <4>2. \A i, k \in DOMAIN list : list[i] = list[k] => i = k
          OBVIOUS
        <4> HIDE CloseFacts
        <4> QED
          BY <4>1, <4>2
      <3> QED
        BY <1>1, <3>1, <3>2
    <2> QED
      BY <1>2, <1>11, <2>1, <2>2 DEF QueueCut
  <1>13. QueueChained(e, l + 1)'
    <2>1. ASSUME NEW j \in DOMAIN list, e < j, j <= l + 1
          PROVE  jmp'[list[j - 1]] = list[j]
      <3>1. PICK i \in DOMAIN list : i = j - 1
        BY <2>1
      <3>2. CASE j = l + 1
        BY <1>1, <3>1, <3>2
      <3>3. CASE j <= l
        <4>1. c < j /\ i # l
          <5>1. PICK P : P = Passed(c)
            OBVIOUS
          <5>2. P = c - 1 \/ P = c
            BY <5>1 DEF Passed
          <5>3. c <= e /\ e \in Nat /\ c \in Nat
            BY <5>1, <5>2
          <5> QED
            BY <2>1, <3>1, <3>3, <5>3
        <4>2. jmp[list[i]] = list[j]
          BY <3>1, <3>3, <4>1 DEF QueueAt, QueueChained
        <4>3. list[i] # list[l] /\ list[i] \in Bufs
          BY <4>1
        <4> QED
          BY <1>1, <3>1, <4>2, <4>3
      <3> QED
        BY <2>1, <3>2, <3>3
    <2> QED
      BY <1>2, <1>11, <2>1 DEF QueueChained
  <1>14. QueueTold(e)' /\ QueueHeld(l + 1)'
    <2>1. ddr_id \in Bufs
      BY DEF CloseInv, CloseTypes
    <2> QED
      BY <1>1, <1>2, <1>3, <1>11, <2>1 DEF QueueAt, QueueTold, QueueHeld
  <1>15. e \in DOMAIN list /\ l + 1 \in DOMAIN list
    BY <1>1
  <1>16. Queue'
    BY <1>2, <1>12, <1>13, <1>14, <1>15 DEF Queue, QueueAt
  <1> QED
    BY <1>5, <1>6, <1>7, <1>8, <1>9, <1>10, <1>16 DEF CloseInv

(* On a working core the new buffer joins the chain the hardware is in.    *)
LEMMA CloseLinkToRunningStep ==
  ASSUME CloseInv, NEW n \in Ids, LinkToRunning(n), n \in mine => exit.pc = "open",
         UNCHANGED exitVars
  PROVE  CloseInv'
  <1> USE CloseFacts
  <1>1. PICK c \in DOMAIN list, d \in DOMAIN list, l \in DOMAIN list : QueueAt(c, d, l)
    BY DEF CloseInv, Queue
  <1>2. /\ stage[n] = "patched" /\ working /\ working' /\ LeaveSection(n)
        /\ vcmd_link_cmdbuf(find_last_linked_cmdbuf(n))
    BY DEF LinkToRunning
  <1>3. /\ sem = n /\ l + 1 = Len(list) /\ list[l + 1] = n
        /\ Passed(c) \in 0..l /\ c \in 1..l
        /\ jmp'[list[l]] = n
        /\ sw_rdy' = sw_rdy + 1 /\ sw_rdy \in Nat
    BY <1>1, <1>2, LinkJoinsTail DEF CloseInv, CloseTypes
  <1>4. hw.phase \in {"exec", "pend"} /\ ~hw.abort
    <2>1. exit.pc # "stopping"
      BY <1>3 DEF CloseInv, CloseTells
    <2> QED
      BY <1>2, <2>1 DEF CloseInv, CoreTells
  <1>5. /\ sw_rdy = hw.rdy /\ hw.rdy - hw.exe = l - Passed(c) /\ (hw.phase = "pend" => l = c)
        /\ hw.cur = list[c]
    BY <1>1, <1>2, <1>4 DEF QueueAt, QueueChained, QueueCut
  <1>6. hw' = IF hw.phase = "pend" /\ hw.exe < sw_rdy' /\ jmp'[hw.cur] # None
              THEN [hw EXCEPT !.phase = "exec", !.cur = jmp'[hw.cur], !.rdy = sw_rdy']
              ELSE [hw EXCEPT !.rdy = sw_rdy']
    <2>1. WriteReady(sw_rdy', jmp')
      BY <1>3 DEF LinkToRunning
    <2> QED
      BY <2>1 DEF WriteReady
  <1>7. hw \in HwStates /\ sw_rdy' \in Nat
    BY <1>3 DEF CloseInv, CloseTypes
  <1>8. CASE hw.phase = "pend"
    <2>1. Passed(c) = c /\ c = l
      BY <1>5, <1>8 DEF Passed
    <2>2. jmp'[hw.cur] = n /\ n # None /\ n \in Bufs /\ hw.exe < sw_rdy'
      BY <1>3, <1>5, <2>1
    <2>3. hw' = [hw EXCEPT !.phase = "exec", !.cur = n, !.rdy = sw_rdy']
      BY <1>6, <1>8, <2>2
    <2>4. /\ hw' \in HwStates /\ hw'.phase = "exec" /\ hw'.cur = n /\ ~hw'.abort
          /\ hw'.exe = hw.exe /\ hw'.rdy = sw_rdy'
      BY <1>4, <1>7, <2>2, <2>3 DEF HwStates
    <2>5. PICK e \in 1..(l + 1) : list[e] = n /\ e - 1 = Passed(c)
      BY <1>3, <2>1
    <2>6. hw'.rdy - hw'.exe = l + 1 - Passed(c)
      <3>1. hw.exe \in Nat /\ hw.rdy \in Nat /\ l \in Nat
        OBVIOUS
      <3> QED
        BY <1>3, <1>5, <2>1, <2>4, <3>1
    <2>7. hw'.cur = list[e]
      BY <1>3, <2>4, <2>5
    <2> QED
      BY <1>1, <1>2, <2>4, <2>5, <2>6, <2>7, CloseLinkedStep
  <1>9. CASE hw.phase = "exec"
    <2>1. Passed(c) = c - 1
      BY <1>9 DEF Passed
    <2>2. hw' = [hw EXCEPT !.rdy = sw_rdy']
      BY <1>6, <1>9
    <2>3. /\ hw' \in HwStates /\ hw'.phase = "exec" /\ hw'.cur = list[c] /\ ~hw'.abort
          /\ hw'.exe = hw.exe /\ hw'.rdy = sw_rdy'
      BY <1>4, <1>5, <1>7, <1>9, <2>2 DEF HwStates
    <2>4. hw'.rdy - hw'.exe = l + 1 - Passed(c)
      <3>1. hw.exe \in Nat /\ hw.rdy \in Nat /\ l \in Nat /\ c \in Nat
        OBVIOUS
      <3>2. hw'.rdy = hw.rdy + 1 /\ hw'.exe = hw.exe
        BY <1>3, <1>5, <2>3
      <3>3. hw.rdy - hw.exe = l - (c - 1)
        BY <1>5, <2>1
      <3> QED
        BY <2>1, <3>1, <3>2, <3>3
    <2>5. PICK e \in 1..(l + 1) : e = c /\ e - 1 = Passed(c)
      BY <1>3, <2>1
    <2> QED
      BY <1>1, <1>2, <2>3, <2>4, <2>5, CloseLinkedStep
  <1> QED
    BY <1>4, <1>8, <1>9

(* An idle core has run all there was: it starts at the new buffer.        *)
LEMMA CloseLinkAndStartStep ==
  ASSUME CloseInv, NEW n \in Ids, LinkAndStart(n), n \in mine => exit.pc = "open",
         UNCHANGED exitVars
  PROVE  CloseInv'
  <1> USE CloseFacts
  <1>1. PICK c \in DOMAIN list, d \in DOMAIN list, l \in DOMAIN list : QueueAt(c, d, l)
    BY DEF CloseInv, Queue
  <1>2. /\ stage[n] = "patched" /\ ~working /\ LeaveSection(n)
        /\ vcmd_link_cmdbuf(find_last_linked_cmdbuf(n))
    BY DEF LinkAndStart
  <1>3. c = d /\ d = l /\ sw_rdy = 0 /\ Passed(c) = l
    BY <1>1, <1>2 DEF QueueAt, QueueCut, CloseInv, CoreTells, Passed
  <1>4. l + 1 = Len(list) /\ list[l + 1] = n /\ sw_rdy' = 1 /\ l \in 1..l
    BY <1>1, <1>2, <1>3, LinkJoinsTail
  <1>5. PICK k \in 1..l : /\ k = find_last_linked_cmdbuf(n)
                          /\ \A j \in k..Len(list) : ~run_done[list[j]] => j = l + 1
    BY <1>1, <1>2, <1>3, LinkJoinsTail
  <1>6. ~run_done[list[l + 1]] /\ l + 1 \in k..Len(list)
    BY <1>1, <1>3, <1>4, <1>5 DEF QueueAt, QueueCut
  <1>7. vcmd_start(n, 1)
    <2> DEFINE ready == {j \in k..Len(list) : ~run_done[list[j]]}
    <2>1. ready = {l + 1}
      BY <1>5, <1>6
    <2>2. Min(ready) = l + 1
      BY <2>1 DEF Min
    <2>3. IF ready # {} /\ sw_rdy' # 0
          THEN vcmd_start(list[Min(ready)], sw_rdy')
          ELSE UNCHANGED <<working, hw>>
      BY <1>5 DEF LinkAndStart
    <2> HIDE DEF ready
    <2>4. ready # {}
      BY <2>1
    <2> QED
      BY <1>4, <2>2, <2>3, <2>4
  <1>8. /\ working' /\ hw' \in HwStates /\ hw'.phase = "exec" /\ hw'.cur = n /\ hw'.exe = 0
        /\ hw'.rdy = sw_rdy' /\ ~hw'.abort
    BY <1>4, <1>7 DEF vcmd_start, HwStates
  <1>9. hw'.rdy - hw'.exe = l + 1 - Passed(c)
    BY <1>3, <1>4, <1>8
  <1>10. PICK e \in 1..(l + 1) : list[e] = n /\ e - 1 = Passed(c)
    BY <1>3, <1>4
  <1>11. hw'.cur = list[e]
    BY <1>4, <1>8, <1>10
  <1> QED
    BY <1>1, <1>2, <1>8, <1>9, <1>10, <1>11, CloseLinkedStep

-----------------------------------------------------------------------------
(* Buffers leave the list, those at S stay.                                *)

(* Where what stays is found again.                                        *)
LEMMA RemovedList ==
  ASSUME CloseInv, NEW S \in SUBSET DOMAIN list, 1 \in S,
         list' = Picked(list, S)
  PROVE  /\ list' \in Seq(Bufs) /\ Len(list') = Cardinality(S)
         /\ Cardinality(S) \in 1..Len(list) /\ DOMAIN list' = 1..Cardinality(S)
         /\ \A i \in DOMAIN list' : Place(S, i) \in S /\ list'[i] = list[Place(S, i)]
         /\ \A j \in S : /\ Rank(S, j) \in DOMAIN list' /\ Place(S, Rank(S, j)) = j
                         /\ list'[Rank(S, j)] = list[j]
         /\ \A i, k \in DOMAIN list' : Place(S, i) < Place(S, k) <=> i < k
         /\ list'[1] = list[1] /\ ListOnce'
         /\ \A x \in 0..Len(list) :
              /\ Rank(S, x) \in 0..Cardinality(S)
              /\ \A i \in DOMAIN list' : Place(S, i) <= x <=> i <= Rank(S, x)
         /\ Rank(S, Len(list)) = Cardinality(S)
  <1> USE CloseFacts
  <1>1. PICK N \in Nat : N = Len(list) /\ N # 0
    OBVIOUS
  <1>2. S \in SUBSET (1..N) /\ list \in Seq(Bufs)
    BY <1>1
  <1>3. PICK C : C = Cardinality(S)
    OBVIOUS
  <1>4. /\ list' \in Seq(Bufs) /\ Len(list') = C
        /\ \A i \in 1..C : Place(S, i) \in S /\ list'[i] = list[Place(S, i)]
    BY <1>2, <1>3, PickedElements
  <1>5. /\ C \in 0..N
        /\ \A i, k \in 1..C : Place(S, i) < Place(S, k) <=> i < k
        /\ \A j \in S : Rank(S, j) \in 1..C /\ Place(S, Rank(S, j)) = j
    BY <1>2, <1>3, PlacesAreOrdered
  <1>6. C \in 1..N /\ DOMAIN list' = 1..C
    <2>1. DOMAIN list' = 1..C
      BY <1>4, LenProperties
    <2>2. Rank(S, 1) \in 1..C
      BY <1>5
    <2> QED
      BY <1>5, <2>1, <2>2
  <1>7. \A x \in 0..N : /\ Rank(S, x) \in 0..C
                        /\ \A i \in 1..C : Place(S, i) <= x <=> i <= Rank(S, x)
    BY <1>2, <1>3, RanksCutPlaces
  <1>8. Place(S, 1) = 1
    <2>1. PICK i \in 1..C : Place(S, i) = 1
      BY <1>5
    <2>2. 1 \in 1..C /\ Place(S, 1) \in 1..N
      BY <1>2, <1>4, <1>6
    <2>3. ~(1 < i)
      <3>1. 1 < i => Place(S, 1) < Place(S, i)
        BY <1>5, <2>2
      <3> QED
        BY <2>1, <2>2, <3>1
    <2> QED
      BY <2>1, <2>3
  <1>9. Rank(S, N) = C
    <2>1. N \in 0..N /\ C \in 1..C
      BY <1>6
    <2>2. Place(S, C) \in 1..N
      BY <1>2, <1>4, <2>1
    <2>3. C <= Rank(S, N) /\ Rank(S, N) \in 0..C
      BY <1>7, <2>1, <2>2
    <2> QED
      BY <1>6, <2>3
  <1>10. ListOnce'
    <2> SUFFICES ASSUME NEW i \in 1..C, NEW k \in 1..C, list'[i] = list'[k] PROVE i = k
      BY <1>6 DEF ListOnce
    <2>1. Place(S, i) = Place(S, k)
      BY <1>4
    <2>2. PICK p \in S : p = Place(S, i) /\ p \in 1..N
      BY <1>2, <1>4
    <2>3. ~(i < k) /\ ~(k < i)
      BY <1>5, <2>1, <2>2
    <2> QED
      BY <1>5, <2>3
  <1> QED
    BY <1>1, <1>3, <1>4, <1>5, <1>6, <1>7, <1>8, <1>9, <1>10

(* What leaves the list is free, and no more than that.                    *)
LEMMA RemovedShape ==
  ASSUME CloseInv, NEW S \in SUBSET DOMAIN list, 1 \in S,
         list' = Picked(list, S), sem \notin Ids, sem' \notin Ids,
         NEW K, \A m \in K : \E j \in S : list[j] = m, KernelBuf \notin K,
         \A m \in Bufs :
            stage'[m] = IF \E j \in DOMAIN list : j \notin S /\ list[j] = m THEN "free"
                        ELSE IF m \in K THEN "released" ELSE stage[m],
         run_done'[KernelBuf], ~need_remove'[KernelBuf], linked'[KernelBuf]
  PROVE  ListOnce' /\ KernelFirst' /\ linked'[KernelBuf] /\ ListedByStage' /\ OneInSection'
  <1> USE CloseFacts
  <1>1. /\ \A i \in DOMAIN list' : Place(S, i) \in S /\ list'[i] = list[Place(S, i)]
        /\ \A j \in S : Rank(S, j) \in DOMAIN list' /\ list'[Rank(S, j)] = list[j]
        /\ list'[1] = list[1] /\ ListOnce'
    BY RemovedList
  <1>2. \A j \in DOMAIN list : list[j] = KernelBuf => j \in S
    OBVIOUS
  <1>3. KernelFirst'
    BY <1>1, <1>2 DEF KernelFirst
  <1>4. ListedByStage'
    <2> SUFFICES ASSUME NEW m \in Ids
                 PROVE  (\E i \in DOMAIN list' : list'[i] = m) <=> stage'[m] \in Listed
      BY DEF ListedByStage
    <2>1. (\E i \in DOMAIN list' : list'[i] = m) <=> (\E j \in S : list[j] = m)
      BY <1>1
    <2>2. CASE \E j \in S : list[j] = m
      <3>1. PICK j \in S : list[j] = m
        BY <2>2
      <3>2. ~\E i \in DOMAIN list : i \notin S /\ list[i] = m
        BY <3>1
      <3>3. stage[m] \in Listed
        BY <3>1
      <3> QED
        BY <2>1, <3>1, <3>2, <3>3 DEF Listed
    <2>3. CASE ~\E j \in S : list[j] = m
      <3>1. m \notin K
        BY <2>3
      <3>2. CASE \E i \in DOMAIN list : i \notin S /\ list[i] = m
        BY <2>1, <2>3, <3>2 DEF Listed
      <3>3. CASE ~\E i \in DOMAIN list : i \notin S /\ list[i] = m
        <4>1. ~\E i \in DOMAIN list : list[i] = m
          BY <2>3, <3>3
        <4>2. stage[m] \notin Listed /\ stage'[m] = stage[m]
          BY <3>1, <3>3, <4>1
        <4> QED
          BY <2>1, <2>3, <4>2
      <3> QED
        BY <3>2, <3>3
    <2> QED
      BY <2>2, <2>3
  <1>5. OneInSection'
    BY DEF OneInSection, Sections
  <1> QED
    BY <1>1, <1>3, <1>4, <1>5

(* A core at rest, or at the end of all that is done, is at the end of the *)
(* list.                                                                   *)
LEMMA DoneMeansEnd ==
  ASSUME CloseInv, NEW c \in DOMAIN list, NEW d \in DOMAIN list, NEW l \in DOMAIN list,
         QueueAt(c, d, l), sem \notin Ids, exit.pc # "stopping", d = c
  PROVE  c = Len(list)
  <1> USE CloseFacts
  <1>1. l = Len(list)
    BY DEF QueueAt, QueueHeld
  <1>2. CASE ~working
    BY <1>1, <1>2 DEF QueueAt, QueueCut
  <1>3. CASE working
    <2>1. hw.phase # "off"
      BY <1>3 DEF CloseInv, CoreTells
    <2>2. hw.phase # "exec"
      BY <2>1 DEF QueueAt, QueueCut, Passed
    <2>3. hw.phase = "pend"
      BY <2>1, <2>2
    <2> QED
      BY <1>1, <2>3 DEF QueueAt, QueueChained
  <1> QED
    BY <1>2, <1>3

(* Only what is done has left: the chain behind d is what it was.          *)
LEMMA RemovedQueue ==
  ASSUME CloseInv, NEW S \in SUBSET DOMAIN list, 1 \in S, Len(list) \in S,
         list' = Picked(list, S), sem \notin Ids, sem' \notin Ids,
         exit.pc # "stopping",
         \A j \in DOMAIN list : j \notin S => run_done[list[j]],
         UNCHANGED <<working, irq, ddr_id, ran, sw_rdy>>,
         hw'.phase = hw.phase, hw'.cur = hw.cur, hw'.exe = hw.exe, hw'.rdy = hw.rdy,
         \A j \in S : /\ run_done'[list[j]] <=> run_done[list[j]]
                      /\ linked[list[j]] => linked'[list[j]]
                      /\ jmp'[list[j]] = jmp[list[j]],
         stage'[ddr_id] # "free" => stage[ddr_id] # "free",
         run_done[ddr_id] => run_done'[ddr_id]
  PROVE  Queue'
  <1>0. /\ Len(list) \in Nat \ {0} /\ DOMAIN list = 1..Len(list)
        /\ hw.exe \in Nat /\ hw.rdy \in Nat
    BY CloseFacts
  <1>1. PICK c \in DOMAIN list, d \in DOMAIN list, l \in DOMAIN list : QueueAt(c, d, l)
    BY DEF CloseInv, Queue
  <1>2. PICK N \in Nat : N = Len(list) /\ l = N /\ N # 0 /\ DOMAIN list = 1..N
    BY <1>0, <1>1 DEF QueueAt, QueueHeld
  <1>3. PICK P : P = Passed(c)
    OBVIOUS
  <1>4. /\ c \in 1..N /\ d \in 1..N /\ P \in 1..N /\ d <= P /\ P <= c
        /\ hw.phase = "exec" => P = c - 1
        /\ hw.phase # "exec" => P = c
        /\ working => hw.cur = list[c]
        /\ ~working => c = d /\ d = l /\ sw_rdy = 0
        /\ \A j \in DOMAIN list :
              /\ run_done[list[j]] <=> j <= d
              /\ list[j] \in ran <=> j <= P
              /\ d < j => linked[list[j]]
    <2>1. /\ hw.phase = "exec" => P = c - 1
          /\ hw.phase # "exec" => P = c
      BY <1>3 DEF Passed
    <2>2. d <= P
      BY <1>1, <1>3 DEF QueueAt, QueueCut
    <2>3. c \in 1..N /\ d \in 1..N
      BY <1>2
    <2>4. P \in 1..N /\ P <= c
      BY <2>1, <2>2, <2>3
    <2> QED
      BY <1>1, <1>2, <1>3, <2>1, <2>2, <2>3, <2>4 DEF QueueAt, QueueCut
  <1>5. c \in S /\ (P # d => P \in S) /\ \A j \in DOMAIN list : d < j => j \in S
    <2>1. \A j \in DOMAIN list : d < j => j \in S
      BY <1>4
    <2>2. CASE d < c
      BY <1>2, <1>4, <2>1, <2>2
    <2>3. CASE ~(d < c)
      <3>1. d = c
        BY <1>4, <2>3
      <3> QED
        BY <1>1, <1>2, <1>4, <2>1, <3>1, DoneMeansEnd
    <2> QED
      BY <2>2, <2>3
  <1>6. PICK C \in 1..N : C = Cardinality(S) /\ DOMAIN list' = 1..C /\ Len(list') = C
    BY <1>2, RemovedList
  <1>7. /\ \A i \in 1..C : Place(S, i) \in S /\ list'[i] = list[Place(S, i)]
        /\ \A j \in S : /\ Rank(S, j) \in 1..C /\ Place(S, Rank(S, j)) = j
                        /\ list'[Rank(S, j)] = list[j]
        /\ \A x \in 0..N : /\ Rank(S, x) \in 0..C
                           /\ \A i \in 1..C : Place(S, i) <= x <=> i <= Rank(S, x)
        /\ Rank(S, N) = C
    <2>1. N \in S
      BY <1>2
    <2>2. /\ \A i \in DOMAIN list' : Place(S, i) \in S /\ list'[i] = list[Place(S, i)]
          /\ \A j \in S : /\ Rank(S, j) \in DOMAIN list' /\ Place(S, Rank(S, j)) = j
                          /\ list'[Rank(S, j)] = list[j]
          /\ \A x \in 0..Len(list) :
               /\ Rank(S, x) \in 0..Cardinality(S)
               /\ \A i \in DOMAIN list' : Place(S, i) <= x <=> i <= Rank(S, x)
          /\ Rank(S, Len(list)) = Cardinality(S)
      BY RemovedList
    <2> QED
      BY <1>2, <1>6, <2>2
  <1>8. \A x \in d..N, y \in d..N : x <= y => Rank(S, y) - Rank(S, x) = y - x
    <2> SUFFICES ASSUME NEW x \in d..N, NEW y \in d..N, x <= y
                 PROVE  Rank(S, y) - Rank(S, x) = y - x
      OBVIOUS
    <2>1. x \in 0..N /\ y \in x..N /\ S \in SUBSET (1..N)
      BY <1>2, <1>4
    <2>2. ASSUME NEW j \in 1..N, x < j, j <= y PROVE j \in S
      BY <1>2, <1>4, <1>5, <2>2
    <2> QED
      BY <2>1, <2>2, RanksOfRun
  <1>9. PICK cc \in 1..C : cc = Rank(S, c) /\ list'[cc] = list[c] /\ Place(S, cc) = c
    <2>1. c \in S
      BY <1>5
    <2> QED
      BY <1>7, <2>1
  <1>10. PICK dd \in 1..C : dd = Rank(S, d)
    <2>1. 1 <= Rank(S, d) /\ Rank(S, d) \in 0..C
      <3>1. Rank(S, 1) \in 1..C /\ Place(S, Rank(S, 1)) = 1 /\ d \in 0..N /\ 1 <= d
        BY <1>4, <1>7
      <3>2. Rank(S, 1) <= Rank(S, d) /\ Rank(S, d) \in 0..C
        BY <1>7, <3>1
      <3> QED
        BY <3>1, <3>2
    <2> QED
      BY <2>1
  <1>11. PICK PP \in 0..C : PP = Rank(S, P) /\ (P \in S => PP \in 1..C /\ list'[PP] = list[P])
    <2>1. P \in 0..N
      BY <1>4
    <2>2. Rank(S, P) \in 0..C /\ (P \in S => Rank(S, P) \in 1..C /\ list'[Rank(S, P)] = list[P])
      BY <1>7, <2>1
    <2> QED
      BY <2>2
  <1>12. /\ P - d = PP - dd /\ c - P = cc - PP /\ N - P = C - PP /\ N - c = C - cc
    <2>1. /\ d \in d..N /\ P \in d..N /\ c \in d..N /\ N \in d..N
          /\ d <= P /\ P <= c /\ c <= N
      BY <1>4
    <2>2. Rank(S, P) - Rank(S, d) = P - d
      BY <1>8, <2>1
    <2>3. Rank(S, c) - Rank(S, P) = c - P
      BY <1>8, <2>1
    <2>4. Rank(S, N) - Rank(S, P) = N - P
      BY <1>4, <1>8, <2>1
    <2>5. Rank(S, N) - Rank(S, c) = N - c
      BY <1>8, <2>1
    <2> QED
      BY <1>7, <1>9, <1>10, <1>11, <2>2, <2>3, <2>4, <2>5
  <1>13. PP = Passed(cc)'
    <2>1. c - P = cc - PP /\ cc \in Int /\ PP \in Int /\ c \in Int /\ P \in Int
      BY <1>4, <1>12
    <2>2. hw.phase = "exec" => PP = cc - 1
      <3> SUFFICES ASSUME hw.phase = "exec" PROVE PP = cc - 1
        OBVIOUS
      <3>1. P = c - 1
        BY <1>4
      <3>2. \A v, w, x, y \in Int : v - w = x - y /\ w = v - 1 => y = x - 1
        OBVIOUS
      <3> QED
        BY <2>1, <3>1, <3>2
    <2>3. hw.phase # "exec" => PP = cc
      BY <1>4, <2>1
    <2> QED
      BY <2>2, <2>3 DEF Passed
  <1>14. \A i \in 1..C : \E j \in S : /\ j = Place(S, i) /\ list'[i] = list[j]
                                      /\ j <= d <=> i <= dd
                                      /\ j <= P <=> i <= PP
    <2>1. d \in 0..N /\ P \in 0..N
      BY <1>4
    <2> QED
      BY <1>7, <1>10, <1>11, <2>1
  <1>15. QueueCut(cc, dd, C)'
    <2>1. dd <= PP /\ cc <= C
      BY <1>4, <1>12
    <2>2. working => hw'.cur = list'[cc]
      BY <1>4, <1>9
    <2>3. ~working => cc = dd /\ dd = C /\ sw_rdy = 0
      BY <1>2, <1>4, <1>7, <1>9, <1>10
    <2>4. ASSUME NEW i \in 1..C
          PROVE  /\ run_done'[list'[i]] <=> i <= dd
                 /\ list'[i] \in ran <=> i <= PP
                 /\ dd < i => linked'[list'[i]]
      <3>1. PICK j \in S : /\ list'[i] = list[j]
                           /\ j <= d <=> i <= dd
                           /\ j <= P <=> i <= PP
        BY <1>14
      <3>2. d < j <=> dd < i
        BY <1>2, <1>4, <3>1
      <3> QED
        BY <1>4, <3>1, <3>2
    <2> QED
      BY <1>6, <1>13, <2>1, <2>2, <2>3, <2>4 DEF QueueCut
  <1>16. QueueChained(cc, C)'
    <2>1. \A j \in DOMAIN list : c < j => jmp[list[j - 1]] = list[j]
      BY <1>1, <1>2 DEF QueueAt, QueueChained
    <2>2. /\ hw.phase # "off" => sw_rdy = hw.rdy /\ hw.rdy - hw.exe = N - P
          /\ hw.phase = "pend" => N = c
      BY <1>1, <1>2, <1>3 DEF QueueAt, QueueChained
    <2>3. ASSUME NEW i \in 1..C, cc < i PROVE jmp'[list'[i - 1]] = list'[i]
      <3>1. PICK j \in S : j = Place(S, i) /\ list'[i] = list[j]
        BY <1>7
      <3>2. c < j
        <4>1. c \in 0..N
          BY <1>4
        <4>2. ~(i <= Rank(S, c))
          BY <1>9, <2>3
        <4>3. ~(Place(S, i) <= c)
          BY <1>7, <4>1, <4>2
        <4> QED
          BY <1>2, <1>4, <3>1, <4>3
      <3>3. j - 1 \in S /\ j - 1 \in DOMAIN list /\ j - 1 \in d..N /\ j \in d..N /\ j \in Nat
        <4>1. j \in 1..N
          BY <1>2
        <4>2. CASE j - 1 = c
          BY <1>2, <1>4, <1>5, <3>2, <4>1, <4>2
        <4>3. CASE j - 1 # c
          <5>1. c < j - 1 /\ j - 1 \in 1..N /\ d < j - 1
            BY <1>4, <3>2, <4>1, <4>3
          <5> QED
            BY <1>2, <1>4, <1>5, <4>1, <5>1
        <4> QED
          BY <4>2, <4>3
      <3>4. Rank(S, j) = i
        <4>1. Place(S, Rank(S, j)) = Place(S, i) /\ Rank(S, j) \in 1..C
          BY <1>7, <3>1
        <4>2. PICK q \in 1..C : q = Rank(S, j) /\ Place(S, q) = j
          BY <3>1, <4>1
        <4>3. \A h, k \in 1..C : Place(S, h) < Place(S, k) <=> h < k
          BY <1>6, RemovedList
        <4>4. ~(q < i) /\ ~(i < q)
          BY <3>1, <3>3, <4>2, <4>3
        <4> QED
          BY <4>2, <4>4
      <3>5. Rank(S, j - 1) = i - 1
        <4>1. Rank(S, j) - Rank(S, j - 1) = j - (j - 1)
          BY <1>8, <3>3
        <4>2. PICK r \in 1..C : r = Rank(S, j - 1)
          BY <1>7, <3>3
        <4>3. i - r = 1
          BY <3>3, <3>4, <4>1, <4>2
        <4> QED
          BY <4>2, <4>3
      <3>6. list'[i - 1] = list[j - 1]
        BY <1>7, <3>3, <3>5
      <3> QED
        BY <2>1, <3>1, <3>2, <3>3, <3>6
    <2>4. hw.phase # "off" => hw'.rdy - hw'.exe = C - PP
      BY <1>12, <2>2
    <2>5. hw.phase = "pend" => C = cc
      BY <1>12, <2>2
    <2> QED
      BY <1>6, <1>13, <2>2, <2>3, <2>4, <2>5 DEF QueueChained
  <1>17. QueueTold(cc)'
    <2>1. "JMP" \in irq /\ stage[ddr_id] # "free" => run_done[ddr_id] \/ ddr_id = list[P]
      BY <1>1, <1>3 DEF QueueAt, QueueTold
    <2>2. ddr_id = list[P] /\ ~run_done[ddr_id] => P \in S
      <3>1. P \in DOMAIN list
        BY <1>2, <1>4
      <3> QED
        BY <1>4, <1>5, <3>1
    <2> QED
      BY <1>11, <1>13, <2>1, <2>2 DEF QueueTold
  <1>18. QueueHeld(C)'
    BY <1>6 DEF QueueHeld
  <1>19. cc \in DOMAIN list' /\ dd \in DOMAIN list' /\ C \in DOMAIN list'
    BY <1>6
  <1> QED
    BY <1>15, <1>16, <1>17, <1>18, <1>19 DEF Queue, QueueAt

-----------------------------------------------------------------------------
(* S stays of the list, K is marked for the next release behind it.        *)
Removes(S, K) ==
    /\ S \in SUBSET DOMAIN list /\ 1 \in S
    /\ \A m \in K : \E j \in S : list[j] = m
    /\ list' = Picked(list, S)
    /\ stage' \in [Bufs -> Stages]
    /\ \A m \in Bufs :
          stage'[m] = IF \E j \in DOMAIN list : j \notin S /\ list[j] = m THEN "free"
                      ELSE IF m \in K THEN "released" ELSE stage[m]
    /\ need_remove' \in [Bufs -> BOOLEAN]
    /\ \A m \in Bufs :
          /\ need_remove[m] \/ m \in K => need_remove'[m]
          /\ need_remove'[m] => need_remove[m] \/ stage'[m] \in {"released", "free"}

(* The walk over the positions W, with D taken out of the chain.           *)
WalkRemoves(W, D, dn, lk, S, K) ==
    /\ Removes(S, K)
    /\ \A j \in DOMAIN list :
          j \notin S <=> j \in W /\ Own(j) /\ (j = Len(list) => j \in D)
    /\ \A m : m \in K <=> /\ Len(list) \in W /\ Own(Len(list)) /\ Len(list) \notin D
                          /\ m = list[Len(list)]
    /\ run_done' = [m \in Bufs |-> dn[m] \/ m \in K]
    /\ linked' = [m \in Bufs |-> lk[m] \/ (m \in K /\ ~dn[m])]
    /\ jmp' = [m \in Bufs |-> IF \E j \in D : j > 1 /\ list[j - 1] = m /\ j - 1 \in S
                              THEN Successor(list', m) ELSE jmp[m]]

(* RemoveOwn is a walk in these terms: which positions stay, and which     *)
(* buffer is kept for a later release.                                     *)
LEMMA RemoveOwnKeeps ==
  ASSUME CloseInv, NEW W \in SUBSET DOMAIN list, NEW D \in SUBSET W, NEW dn, NEW lk,
         RemoveOwn(W, D, dn, lk)
  PROVE  \E S, K : WalkRemoves(W, D, dn, lk, S, K)
  <1> USE CloseFacts
  <1>1. PICK N \in Nat : N = Len(list) /\ N # 0 /\ DOMAIN list = 1..N
    OBVIOUS
  <1>2. mine \subseteq Ids /\ need_remove \in [Bufs -> BOOLEAN]
    BY DEF CloseInv, CloseTypes
  <1> DEFINE own == {j \in W : Own(j)}
             kept == {list[j] : j \in {i \in own \ D : i = Len(list)}}
             gone == {list[j] : j \in own} \ kept
             S == {j \in DOMAIN list : list[j] \notin gone}
  <1>3. /\ list' = Picked(list, S)
        /\ stage' = [n \in Bufs |-> IF n \in gone THEN "free"
                                    ELSE IF n \in kept THEN "released" ELSE stage[n]]
        /\ need_remove' = [n \in Bufs |-> need_remove[n] \/ n \in kept]
        /\ run_done' = [n \in Bufs |-> dn[n] \/ n \in kept]
        /\ linked' = [n \in Bufs |-> lk[n] \/ (n \in kept /\ ~dn[n])]
        /\ jmp' = [n \in Bufs |->
                    IF \E j \in D : j > 1 /\ list[j - 1] = n /\ n \notin gone
                    THEN Successor(list', n) ELSE jmp[n]]
    BY DEF RemoveOwn
  <1>4. \A m : m \in kept <=> N \in W /\ Own(N) /\ N \notin D /\ m = list[N]
    BY <1>1
  <1>5. \A m : m \in gone <=> (\E j \in W : Own(j) /\ m = list[j]) /\ m \notin kept
    <2>1. \A m : m \in gone <=> m \in {list[j] : j \in own} /\ m \notin kept
      OBVIOUS
    <2> HIDE DEF kept
    <2> QED
      BY <2>1
  <1> HIDE DEF kept, gone
  <1>6. \A j \in DOMAIN list : list[j] \in gone <=> j \in W /\ Own(j) /\ (j = N => j \in D)
    <2> TAKE j \in DOMAIN list
    <2>1. list[j] \in kept <=> N \in W /\ Own(N) /\ N \notin D /\ j = N
      BY <1>1, <1>4
    <2>2. (\E i \in W : Own(i) /\ list[j] = list[i]) <=> j \in W /\ Own(j)
      OBVIOUS
    <2> QED
      BY <1>5, <2>1, <2>2
  <1>7. S \in SUBSET DOMAIN list /\ \A j \in DOMAIN list : j \in S <=> list[j] \notin gone
    OBVIOUS
  <1> HIDE DEF S
  <1>8. 1 \in S
    BY <1>1, <1>2, <1>6, <1>7 DEF Own
  <1>9. \A m \in kept : \E j \in S : list[j] = m
    <2> SUFFICES ASSUME NEW m \in kept PROVE \E j \in S : list[j] = m
      OBVIOUS
    <2>1. N \in DOMAIN list /\ m = list[N]
      BY <1>1, <1>4
    <2> QED
      BY <1>4, <1>6, <1>7, <2>1
  <1>10. \A m \in Bufs : m \in gone <=> \E j \in DOMAIN list : j \notin S /\ list[j] = m
    BY <1>5, <1>7
  <1>11. /\ \A m \in Bufs :
              stage'[m] = IF \E j \in DOMAIN list : j \notin S /\ list[j] = m THEN "free"
                          ELSE IF m \in kept THEN "released" ELSE stage[m]
         /\ stage' \in [Bufs -> Stages]
    <2>1. stage' \in [Bufs -> Stages]
      BY <1>3 DEF Stages
    <2>2. \A m \in Bufs : stage'[m] = IF m \in gone THEN "free"
                                      ELSE IF m \in kept THEN "released" ELSE stage[m]
      BY <1>3
    <2> QED
      BY <1>10, <2>1, <2>2
  <1>12. /\ need_remove' \in [Bufs -> BOOLEAN]
         /\ \A m \in Bufs : need_remove'[m] <=> need_remove[m] \/ m \in kept
    BY <1>2, <1>3
  <1>13. Removes(S, kept)
    <2>1. \A m \in Bufs : m \in kept => stage'[m] \in {"released", "free"}
      BY <1>11
    <2> QED
      BY <2>1, <1>3, <1>7, <1>8, <1>9, <1>11, <1>12 DEF Removes
  <1>14. jmp' = [m \in Bufs |-> IF \E j \in D : j > 1 /\ list[j - 1] = m /\ j - 1 \in S
                                THEN Successor(list', m) ELSE jmp[m]]
    <2>1. ASSUME NEW j \in D, j > 1, NEW m, list[j - 1] = m
          PROVE  m \notin gone <=> j - 1 \in S
      <3>1. j - 1 \in DOMAIN list
        BY <1>1, <2>1
      <3> QED
        BY <1>7, <2>1, <3>1
    <2>2. \A m : (\E j \in D : j > 1 /\ list[j - 1] = m /\ m \notin gone)
                    <=> \E j \in D : j > 1 /\ list[j - 1] = m /\ j - 1 \in S
      BY <2>1
    <2> QED
      BY <1>3, <2>2
  <1>15. \A j \in DOMAIN list :
           j \notin S <=> j \in W /\ Own(j) /\ (j = Len(list) => j \in D)
    BY <1>1, <1>6, <1>7
  <1>16. \A m : m \in kept <=> /\ Len(list) \in W /\ Own(Len(list)) /\ Len(list) \notin D
                               /\ m = list[Len(list)]
    BY <1>1, <1>4
  <1>17. /\ run_done' = [m \in Bufs |-> dn[m] \/ m \in kept]
         /\ linked' = [m \in Bufs |-> lk[m] \/ (m \in kept /\ ~dn[m])]
    BY <1>3
  <1> QED
    BY <1>13, <1>14, <1>15, <1>16, <1>17 DEF WalkRemoves

(* What has left and what is marked has run.                               *)
LEMMA RemovedDone ==
  ASSUME CloseInv, NEW S, NEW K, Removes(S, K), Len(list) \in S,
         sem \notin Ids, sem' \notin Ids, exit.pc # "stopping",
         \A j \in DOMAIN list : j \notin S => run_done[list[j]],
         \A m \in K : run_done[m], KernelBuf \notin K,
         UNCHANGED <<working, irq, ddr_id, ran, sw_rdy, run_done, linked, jmp, patched,
                     prio, status, mine>>,
         hw' \in HwStates,
         hw'.phase = hw.phase, hw'.cur = hw.cur, hw'.exe = hw.exe, hw'.rdy = hw.rdy,
         sem' \in Ids \cup {None, Closer},
         exit' \in [pc : ExitPhases, aborted : BOOLEAN,
                    restart : Bufs \cup {None, Foreign}, at : Bufs \cup {None}]
  PROVE  /\ CloseTypes' /\ ListOnce' /\ KernelFirst' /\ linked'[KernelBuf]
         /\ ListedByStage' /\ OneInSection' /\ \A n \in Bufs : BufferTells(n)'
         /\ Queue'
  <1> USE CloseFacts
  <1>1. list' \in Seq(Bufs) /\ Len(list') # 0
    <2>1. Len(list') = Cardinality(S) /\ Cardinality(S) \in 1..Len(list)
          /\ list' \in Seq(Bufs)
      BY RemovedList DEF Removes
    <2> QED
      BY <2>1
  <1>2. CloseTypes'
    BY <1>1 DEF Removes, CloseInv, CloseTypes
  <1>3. ListOnce' /\ KernelFirst' /\ linked'[KernelBuf] /\ ListedByStage' /\ OneInSection'
    <2>1. run_done[KernelBuf] /\ ~need_remove[KernelBuf] /\ linked[KernelBuf]
      BY DEF CloseInv, KernelFirst
    <2>2. stage'[KernelBuf] = "waited"
      <3>1. \A j \in DOMAIN list : list[j] = KernelBuf => j \in S
        BY DEF Removes
      <3> QED
        BY <3>1 DEF Removes
    <2>3. ~need_remove'[KernelBuf]
      BY <2>1, <2>2 DEF Removes
    <2> QED
      BY <2>1, <2>3, RemovedShape DEF Removes
  <1>4. \A n \in Bufs : BufferTells(n)'
    <2> TAKE n \in Bufs
    <2>1. BufferTells(n)
      BY DEF CloseInv
    <2>2. n \in K => stage[n] \in Listed
      <3>1. n \in K => n \in Ids
        OBVIOUS
      <3> QED
        BY <3>1 DEF Removes
    <2>3. n \in K => patched[n]
      BY <2>1, <2>2 DEF BufferTells, Listed
    <2>4. stage'[n] \in {"free", "released", stage[n]}
          /\ (stage'[n] = "released" => n \in K \/ stage[n] = "released")
          /\ (n \in K => stage'[n] \in {"free", "released"})
      BY DEF Removes
    <2>5. need_remove'[n] => need_remove[n] \/ stage'[n] \in {"released", "free"}
      BY DEF Removes
    <2> QED
      BY <2>1, <2>3, <2>4, <2>5 DEF BufferTells
  <1>5. Queue'
    <2>1. ddr_id \in Bufs
      BY DEF CloseInv, CloseTypes
    <2>2. stage'[ddr_id] # "free" => stage[ddr_id] # "free"
      <3>1. ddr_id \in K => stage[ddr_id] \in Listed
        BY <2>1 DEF Removes
      <3> QED
        BY <2>1, <3>1 DEF Removes, Listed
    <2> QED
      BY <2>2, RemovedQueue DEF Removes
  <1> QED
    BY <1>2, <1>3, <1>4, <1>5

(* While the close holds the semaphore all of the list is linked or done.  *)
LEMMA LinkedWhileClosing ==
  ASSUME CloseInv, sem = Closer, NEW j \in DOMAIN list, ~run_done[list[j]]
  PROVE  linked[list[j]] /\ working
  <1> USE CloseFacts
  <1>1. PICK c \in DOMAIN list, d \in DOMAIN list, l \in DOMAIN list : QueueAt(c, d, l)
    BY DEF CloseInv, Queue
  <1>2. l = Len(list)
    BY <1>1 DEF QueueAt, QueueHeld
  <1>3. ~(j <= d) /\ j <= l
    BY <1>1, <1>2 DEF QueueAt, QueueCut
  <1> QED
    BY <1>1, <1>3 DEF QueueAt, QueueCut

(* One pass: what the file has in the list is done.                        *)
LEMMA CloseWalkStep ==
  ASSUME CloseInv, CloseWalk
  PROVE  CloseInv'
  <1> USE CloseFacts
  <1>1. exit.pc = "begin" /\ sem = Closer /\ ~exit.aborted /\ exit.restart = None
    BY DEF CloseWalk, CloseInv, CloseTells
  <1>2. OwnLinked = {} /\ \A j \in DOMAIN list : Own(j) => run_done[list[j]]
    <2>1. ~(working /\ OwnLinked # {})
      BY DEF CloseWalk
    <2>2. \A j \in DOMAIN list : Own(j) => run_done[list[j]]
      BY <1>1, <2>1, LinkedWhileClosing DEF OwnLinked
    <2> QED
      BY <2>2 DEF OwnLinked
  <1>3. Counted(DOMAIN list) = {} /\ RestartAfter(DOMAIN list) = None
    BY <1>1 DEF Counted, RestartAfter
  <1>4. /\ sw_rdy' = sw_rdy
        /\ UNCHANGED <<working, hw, irq, prio, status, patched, sem, ddr_id, ran, mine>>
        /\ exit' = [exit EXCEPT !.pc = "sweep", !.restart = None]
    <2>1. sw_rdy \in Nat /\ Cardinality({}) = 0
      BY FS_EmptySet DEF CloseInv, CloseTypes
    <2>2. sw_rdy' = sw_rdy
      <3>1. sw_rdy' = sw_rdy + Cardinality(Counted(DOMAIN list))
        BY DEF CloseWalk
      <3>2. Cardinality(Counted(DOMAIN list)) = 0
        BY <1>3, <2>1, Zenon
      <3> QED
        BY <2>1, <3>1, <3>2
    <2>3. /\ UNCHANGED <<working, hw, irq>>
          /\ exit' = [exit EXCEPT !.pc = "sweep", !.restart = None]
      BY <1>3 DEF CloseWalk
    <2> QED
      BY <2>2, <2>3 DEF CloseWalk, ddrVars
  <1>6. PICK S, K : WalkRemoves(DOMAIN list, OwnLinked, run_done, linked, S, K)
    <2>1. RemoveOwn(DOMAIN list, OwnLinked, run_done, linked)
      BY DEF CloseWalk
    <2>2. DOMAIN list \in SUBSET DOMAIN list /\ OwnLinked \in SUBSET DOMAIN list
      BY DEF OwnLinked
    <2> QED
      BY <2>1, <2>2, RemoveOwnKeeps
  <1>7. /\ Len(list) \in DOMAIN list /\ Len(list) \in S
        /\ \A j \in DOMAIN list : j \notin S => Own(j) /\ j # Len(list)
        /\ \A j \in S : j \in DOMAIN list /\ (Own(j) => j = Len(list))
        /\ \A m \in K : m = list[Len(list)] /\ Own(Len(list))
        /\ Own(Len(list)) => list[Len(list)] \in K
    <2>1. Len(list) \in DOMAIN list
      OBVIOUS
    <2>2. S \subseteq DOMAIN list
      BY <1>6 DEF WalkRemoves, Removes
    <2> QED
      BY <1>2, <1>6, <2>1, <2>2 DEF WalkRemoves
  <1>8. mine \subseteq Ids
    BY DEF CloseInv, CloseTypes
  <1>9. (\A m \in K : run_done[m]) /\ KernelBuf \notin K
    BY <1>2, <1>7, <1>8 DEF Own
  <1>10. run_done' = run_done /\ linked' = linked /\ jmp' = jmp
    <2>1. /\ run_done \in [Bufs -> BOOLEAN] /\ linked \in [Bufs -> BOOLEAN]
          /\ jmp \in [Bufs -> Bufs \cup {None}]
      BY DEF CloseInv, CloseTypes
    <2>2. run_done' = run_done
      BY <1>6, <1>9, <2>1 DEF WalkRemoves
    <2>3. linked' = linked
      BY <1>6, <1>9, <2>1 DEF WalkRemoves
    <2>4. jmp' = jmp
      BY <1>2, <1>6, <2>1 DEF WalkRemoves
    <2> QED
      BY <2>2, <2>3, <2>4
  <1>11. /\ exit'.pc = "sweep" /\ exit'.restart = None
         /\ exit' \in [pc : ExitPhases, aborted : BOOLEAN,
                       restart : Bufs \cup {None, Foreign}, at : Bufs \cup {None}]
    BY <1>1, <1>4 DEF CloseInv, CloseTypes, ExitPhases
  <1>12. /\ CloseTypes' /\ ListOnce' /\ KernelFirst' /\ linked'[KernelBuf]
         /\ ListedByStage' /\ OneInSection' /\ (\A n \in Bufs : BufferTells(n)')
         /\ Queue'
    <2>1. hw \in HwStates
      BY DEF CloseInv, CloseTypes
    <2>2. \A j \in DOMAIN list : j \notin S => run_done[list[j]]
      BY <1>2, <1>7
    <2>3. sem \notin Ids /\ sem' \notin Ids /\ sem' \in Ids \cup {None, Closer}
      BY <1>1, <1>4
    <2>4. Removes(S, K)
      BY <1>6 DEF WalkRemoves
    <2> QED
      BY <1>1, <1>4, <1>7, <1>9, <1>10, <1>11, <2>1, <2>2, <2>3, <2>4, RemovedDone
  <1>13. CloseTells'
    <2>1. /\ \A i \in DOMAIN list' : Place(S, i) \in S /\ list'[i] = list[Place(S, i)]
          /\ \A i, k \in DOMAIN list' : Place(S, i) < Place(S, k) <=> i < k
          /\ DOMAIN list' \subseteq Int
      <3>1. S \in SUBSET DOMAIN list /\ 1 \in S /\ list' = Picked(list, S)
        BY <1>6 DEF WalkRemoves, Removes
      <3> QED
        BY <1>7, <3>1, RemovedList
    <2>2. \A i \in DOMAIN list' : Own(i)' => Place(S, i) = Len(list) /\ list'[i] \in K
      BY <1>4, <1>7, <2>1 DEF Own
    <2>3. \A i, k \in DOMAIN list' : Own(i)' /\ Own(k)' => i = k
      <3> SUFFICES ASSUME NEW i \in DOMAIN list', NEW k \in DOMAIN list', Own(i)', Own(k)'
                   PROVE  i = k
        OBVIOUS
      <3>1. Place(S, i) = Len(list) /\ Place(S, k) = Len(list)
        BY <2>2
      <3>2. ~(i < k) /\ ~(k < i)
        BY <2>1, <3>1
      <3> QED
        BY <2>1, <3>2
    <2>4. \A m \in K : need_remove'[m] /\ run_done[m]
      BY <1>6, <1>7, <1>9 DEF WalkRemoves, Removes
    <2>5. sem' = Closer /\ Closer \notin mine
      BY <1>1, <1>4, <1>8
    <2> QED
      BY <1>4, <1>10, <1>11, <2>2, <2>3, <2>4, <2>5 DEF CloseTells
  <1>14. CoreTells'
    BY <1>1, <1>4, <1>11 DEF CloseInv, CoreTells
  <1> QED
    BY <1>12, <1>13, <1>14 DEF CloseInv

(* The walk up to the first linked buffer of the file, and the abort.      *)
LEMMA CloseAbortStep ==
  ASSUME CloseInv, CloseAbort
  PROVE  CloseInv'
  <1> USE CloseFacts
  <1>1. exit.pc = "begin" /\ sem = Closer /\ ~exit.aborted /\ exit.restart = None
        /\ working /\ OwnLinked # {}
    BY DEF CloseAbort, CloseInv, CloseTells
  <1>2. PICK a \in OwnLinked : a = Min(OwnLinked) /\ \A j \in OwnLinked : a <= j
    <2>1. OwnLinked \in SUBSET Nat
      BY DEF OwnLinked
    <2>2. PICK m \in OwnLinked : \A j \in OwnLinked : m <= j
      BY <1>1, <2>1, NatSetHasMin
    <2>3. Min(OwnLinked) \in OwnLinked /\ \A j \in OwnLinked : Min(OwnLinked) <= j
      BY <2>2 DEF Min
    <2> QED
      BY <2>3
  <1>3. /\ a \in DOMAIN list /\ Own(a) /\ ~run_done[list[a]]
        /\ \A j \in DOMAIN list : Own(j) /\ j < a => run_done[list[j]]
    <2>1. a \in DOMAIN list /\ Own(a) /\ ~run_done[list[a]]
      BY DEF OwnLinked
    <2>2. ASSUME NEW j \in DOMAIN list, Own(j), j < a PROVE run_done[list[j]]
      <3>1. j \notin OwnLinked
        BY <1>2, <2>1, <2>2
      <3> QED
        BY <1>1, <2>2, <3>1, LinkedWhileClosing DEF OwnLinked
    <2> QED
      BY <2>1, <2>2
  <1> DEFINE W == 1..(a - 1)
  <1>4. W \in SUBSET DOMAIN list /\ Len(list) \notin W /\ \A j \in DOMAIN list : j \in W <=> j < a
    BY <1>3
  <1>5. /\ RemoveOwn(W, {}, run_done, linked)
        /\ sw_rdy' = sw_rdy + Cardinality(Counted(W))
        /\ exit' = [pc |-> "stopping", aborted |-> TRUE, restart |-> RestartAfter(W),
                    at |-> list[a]]
        /\ hw' = [hw EXCEPT !.abort = hw.phase # "off"]
        /\ UNCHANGED <<working, irq, prio, status, patched, sem, ddr_id, ran, mine>>
    BY <1>2 DEF CloseAbort, ddrVars
  <1> HIDE DEF W
  <1>6. Counted(W) = {} /\ RestartAfter(W) = None
    BY <1>1 DEF Counted, RestartAfter
  <1>7. sw_rdy' = sw_rdy
    <2>1. sw_rdy \in Nat /\ Cardinality({}) = 0
      BY FS_EmptySet DEF CloseInv, CloseTypes
    <2> QED
      BY <1>5, <1>6, <2>1
  <1>8. PICK S, K : WalkRemoves(W, {}, run_done, linked, S, K)
    <2>1. {} \in SUBSET W
      OBVIOUS
    <2> QED
      BY <1>4, <1>5, <2>1, RemoveOwnKeeps
  <1>9. /\ Removes(S, K) /\ \A m : m \notin K
        /\ Len(list) \in S /\ a \in S /\ S \subseteq DOMAIN list
        /\ \A j \in DOMAIN list : j \notin S <=> Own(j) /\ j < a
    <2>1. Len(list) \in DOMAIN list
      OBVIOUS
    <2> QED
      BY <1>3, <1>4, <1>8, <2>1 DEF WalkRemoves, Removes
  <1>10. run_done' = run_done /\ linked' = linked /\ jmp' = jmp
    <2>1. /\ run_done \in [Bufs -> BOOLEAN] /\ linked \in [Bufs -> BOOLEAN]
          /\ jmp \in [Bufs -> Bufs \cup {None}]
      BY DEF CloseInv, CloseTypes
    <2>2. run_done' = run_done
      BY <1>8, <1>9, <2>1 DEF WalkRemoves
    <2>3. linked' = linked
      BY <1>8, <1>9, <2>1 DEF WalkRemoves
    <2>4. jmp' = jmp
      BY <1>8, <2>1 DEF WalkRemoves
    <2> QED
      BY <2>2, <2>3, <2>4
  <1>11. /\ exit'.pc = "stopping" /\ exit'.restart = None /\ exit'.at = list[a]
         /\ exit' \in [pc : ExitPhases, aborted : BOOLEAN,
                       restart : Bufs \cup {None, Foreign}, at : Bufs \cup {None}]
    BY <1>3, <1>5, <1>6 DEF ExitPhases
  <1>12. /\ hw.phase # "off" /\ hw' \in HwStates /\ hw'.phase = hw.phase
         /\ hw'.cur = hw.cur /\ hw'.exe = hw.exe /\ hw'.rdy = hw.rdy /\ hw'.abort
    BY <1>1, <1>5 DEF CloseInv, CloseTypes, CoreTells, HwStates
  <1>13. /\ CloseTypes' /\ ListOnce' /\ KernelFirst' /\ linked'[KernelBuf]
         /\ ListedByStage' /\ OneInSection' /\ (\A n \in Bufs : BufferTells(n)')
         /\ Queue'
    <2>1. \A j \in DOMAIN list : j \notin S => run_done[list[j]]
      BY <1>3, <1>9
    <2>2. sem \notin Ids /\ sem' \notin Ids /\ sem' \in Ids \cup {None, Closer}
      BY <1>1, <1>5
    <2>3. (\A m \in K : run_done[m]) /\ KernelBuf \notin K
      BY <1>9
    <2> QED
      BY <1>1, <1>5, <1>7, <1>9, <1>10, <1>11, <1>12, <2>1, <2>2, <2>3, RemovedDone
  <1>14. CloseTells'
    <2>1. /\ \A i \in DOMAIN list' : Place(S, i) \in S /\ list'[i] = list[Place(S, i)]
          /\ \A j \in S : Rank(S, j) \in DOMAIN list' /\ Place(S, Rank(S, j)) = j
                          /\ list'[Rank(S, j)] = list[j]
          /\ \A i, k \in DOMAIN list' : Place(S, i) < Place(S, k) <=> i < k
          /\ DOMAIN list' \subseteq Int
      <3>1. S \in SUBSET DOMAIN list /\ 1 \in S /\ list' = Picked(list, S)
        BY <1>9 DEF Removes
      <3> QED
        BY <1>9, <3>1, RemovedList
    <2>2. PICK b \in DOMAIN list' : b = Rank(S, a) /\ Place(S, b) = a /\ list'[b] = list[a]
      BY <1>9, <2>1
    <2>3. \A i \in DOMAIN list' : Own(i)' => b <= i
      <3> SUFFICES ASSUME NEW i \in DOMAIN list', Own(i)' PROVE b <= i
        OBVIOUS
      <3>1. PICK j \in DOMAIN list : j \in S /\ j = Place(S, i) /\ list'[i] = list[j]
        BY <1>9, <2>1
      <3>2. Own(j)
        BY <1>5, <3>1 DEF Own
      <3>3. ~(j < a)
        BY <1>9, <3>1, <3>2
      <3>4. ~(i < b)
        BY <2>1, <2>2, <3>1, <3>3
      <3> QED
        BY <2>1, <3>4
    <2>4. Own(b)' /\ exit'.at = list'[b] /\ ~run_done'[list'[b]]
      BY <1>3, <1>5, <1>10, <1>11, <2>2 DEF Own
    <2>5. sem' = Closer /\ sem' \notin mine'
      <3>1. mine \subseteq Ids
        BY DEF CloseInv, CloseTypes
      <3> QED
        BY <1>1, <1>5, <3>1
    <2> QED
      BY <1>11, <2>3, <2>4, <2>5 DEF CloseTells
  <1>15. CoreTells'
    BY <1>1, <1>5, <1>11, <1>12 DEF CloseInv, CoreTells
  <1> QED
    BY <1>13, <1>14, <1>15 DEF CloseInv

(* A release takes out the marked buffers up to its own.                   *)
LEMMA CloseReleaseStep ==
  ASSUME CloseInv, NEW n \in Ids, release_cmdbuf(n), n \in mine => exit.pc = "open",
         UNCHANGED exitVars
  PROVE  CloseInv'
  <1> USE CloseFacts
  <1>1. /\ stage[n] = "waited" /\ sem = None /\ n \in Bufs /\ n # KernelBuf
        /\ need_remove' = [need_remove EXCEPT ![n] = TRUE]
        /\ UNCHANGED <<prio, linked, run_done, status, jmp, patched, sem, working, sw_rdy,
                       ddr_id, hw, irq, ran, mine, exit>>
    BY DEF release_cmdbuf, linkVars, doneVars, ddrVars, exitVars
  <1>2. need_remove \in [Bufs -> BOOLEAN]
    BY DEF CloseInv, CloseTypes
  <1>3. /\ need_remove' \in [Bufs -> BOOLEAN]
        /\ \A m \in Bufs : need_remove'[m] <=> m = n \/ need_remove[m]
    BY <1>1, <1>2
  <1>4. exit.pc \in {"open", "closed", "abandoned"}
    BY <1>1 DEF CloseInv, CloseTells, CloseTypes, ExitPhases
  <1>5. PICK q \in DOMAIN list : list[q] = n /\ Position(n) = q
    <2>1. PICK q \in DOMAIN list : list[q] = n
      BY <1>1 DEF Listed
    <2> QED
      BY <2>1, PlaceInQueue
  <1> DEFINE gone == {list[j] : j \in {i \in 1..q :
                                  need_remove'[list[i]] /\ i # Len(list)}}
             S == {j \in DOMAIN list : list[j] \notin gone}
             K == {m \in {n} : \E j \in S : list[j] = m}
  <1>6. /\ list' = Picked(list, S)
        /\ stage' = [m \in Bufs |-> IF m \in gone THEN "free"
                                    ELSE IF m = n THEN "released" ELSE stage[m]]
    <2> DEFINE g == {list[j] : j \in {i \in 1..Position(n) :
                                         need_remove'[list[i]] /\ i # Len(list)}}
    <2>1. /\ list' = Picked(list, {j \in DOMAIN list : list[j] \notin g})
          /\ stage' = [m \in Bufs |-> IF m \in g THEN "free"
                                      ELSE IF m = n THEN "released" ELSE stage[m]]
      BY Zenon DEF release_cmdbuf
    <2>2. Position(n) = q
      BY <1>5
    <2>3. ASSUME NEW k, k = Position(n)
          PROVE  k = q => {list[j] : j \in {i \in 1..k : need_remove'[list[i]] /\ i # Len(list)}}
                            = {list[j] : j \in {i \in 1..q :
                                 need_remove'[list[i]] /\ i # Len(list)}}
      OBVIOUS
    <2>4. g = gone
      BY <2>2, <2>3
    <2> HIDE DEF gone, g
    <2>5. {j \in DOMAIN list : list[j] \notin g} = S
      BY <2>4, Zenon
    <2>6. [m \in Bufs |-> IF m \in g THEN "free"
                          ELSE IF m = n THEN "released" ELSE stage[m]]
            = [m \in Bufs |-> IF m \in gone THEN "free"
                              ELSE IF m = n THEN "released" ELSE stage[m]]
      BY <2>4, Zenon
    <2> HIDE DEF S
    <2> QED
      BY <2>1, <2>5, <2>6, Zenon
  <1>7. \A m : m \in gone <=> \E i \in 1..q : /\ need_remove'[list[i]] /\ i # Len(list)
                                              /\ m = list[i]
    OBVIOUS
  <1> HIDE DEF gone
  <1>8. \A j \in DOMAIN list : list[j] \in gone
                                 <=> j <= q /\ j # Len(list) /\ need_remove'[list[j]]
    <2> TAKE j \in DOMAIN list
    <2>1. \A i \in 1..q : i \in DOMAIN list /\ (list[j] = list[i] => i = j)
      OBVIOUS
    <2>2. j \in 1..q <=> j <= q
      OBVIOUS
    <2>3. ASSUME list[j] \in gone
          PROVE  j \in 1..q /\ j # Len(list) /\ need_remove'[list[j]]
      <3>1. PICK i \in 1..q : /\ need_remove'[list[i]] /\ i # Len(list)
                              /\ list[j] = list[i]
        BY <1>7, <2>3
      <3>2. i = j
        BY <2>1, <3>1
      <3> QED
        BY <3>1, <3>2
    <2>4. j \in 1..q /\ j # Len(list) /\ need_remove'[list[j]] => list[j] \in gone
      BY <1>7
    <2> QED
      BY <2>2, <2>3, <2>4
  <1>9. S \in SUBSET DOMAIN list /\ \A j \in DOMAIN list : j \in S <=> list[j] \notin gone
    OBVIOUS
  <1>10. \A m \in Bufs : m \in gone <=> \E j \in DOMAIN list : j \notin S /\ list[j] = m
    <2>1. \A i \in 1..q : i \in DOMAIN list
      OBVIOUS
    <2>2. ASSUME NEW m, m \in gone PROVE \E j \in DOMAIN list : list[j] = m
      <3>1. \E i \in 1..q : m = list[i]
        <4>1. \E i \in 1..q : need_remove'[list[i]] /\ i # Len(list) /\ m = list[i]
          BY <1>7, <2>2
        <4> QED
          BY <4>1, Zenon
      <3> QED
        BY <3>1, <2>1, Zenon
    <2> QED
      BY <2>2
  <1>11. /\ \A m : m \in K <=> m = n /\ \E j \in S : list[j] = m
         /\ n \notin gone => n \in K
    BY <1>5
  <1> HIDE DEF S, K
  <1>12. \A j \in DOMAIN list : need_remove'[list[j]] => run_done[list[j]] /\ list[j] \in Ids
    <2> SUFFICES ASSUME NEW j \in DOMAIN list, need_remove'[list[j]]
                 PROVE  run_done[list[j]] /\ list[j] \in Ids
      OBVIOUS
    <2>1. list[j] \in Bufs /\ BufferTells(list[j])
      BY DEF CloseInv
    <2>2. CASE list[j] = n
      BY <1>1, <2>1, <2>2 DEF BufferTells
    <2>3. CASE list[j] # n
      <3>1. need_remove[list[j]]
        BY <1>3, <2>1, <2>3
      <3>2. list[j] \in Ids
        BY <3>1 DEF CloseInv, KernelFirst
      <3>3. stage[list[j]] = "released"
        BY <2>1, <3>1, <3>2 DEF BufferTells, Listed
      <3> QED
        BY <2>1, <3>2, <3>3 DEF BufferTells
    <2> QED
      BY <2>2, <2>3
  <1>13. 1 \in S /\ Len(list) \in S
    BY <1>8, <1>9, <1>12
  <1>14. Removes(S, K)
    <2>1. stage' \in [Bufs -> Stages]
      BY <1>6 DEF Stages
    <2>2. \A m \in Bufs :
            stage'[m] = IF \E j \in DOMAIN list : j \notin S /\ list[j] = m THEN "free"
                        ELSE IF m \in K THEN "released" ELSE stage[m]
      BY <1>6, <1>10, <1>11
    <2>3. \A m \in Bufs :
            /\ need_remove[m] \/ m \in K => need_remove'[m]
            /\ need_remove'[m] => need_remove[m] \/ stage'[m] \in {"released", "free"}
      <3>1. stage'[n] \in {"released", "free"}
        BY <1>1, <1>6
      <3> QED
        BY <1>3, <1>11, <3>1
    <2>4. S \in SUBSET DOMAIN list /\ 1 \in S /\ \A m \in K : \E j \in S : list[j] = m
      BY <1>9, <1>11, <1>13
    <2> QED
      BY <1>3, <1>6, <2>1, <2>2, <2>3, <2>4 DEF Removes
  <1>15. \A j \in DOMAIN list : j \notin S => run_done[list[j]]
    BY <1>8, <1>9, <1>12
  <1>16. (\A m \in K : run_done[m]) /\ KernelBuf \notin K
    <2>1. run_done[n]
      BY <1>1 DEF CloseInv, BufferTells
    <2> QED
      BY <1>1, <1>11, <2>1
  <1>17. /\ CloseTypes' /\ ListOnce' /\ KernelFirst' /\ linked'[KernelBuf]
         /\ ListedByStage' /\ OneInSection' /\ (\A m \in Bufs : BufferTells(m)')
         /\ Queue'
    <2>1. hw \in HwStates /\ exit' \in [pc : ExitPhases, aborted : BOOLEAN,
                                 restart : Bufs \cup {None, Foreign}, at : Bufs \cup {None}]
      BY <1>1 DEF CloseInv, CloseTypes
    <2>2. sem \notin Ids /\ sem' \notin Ids /\ sem' \in Ids \cup {None, Closer}
      BY <1>1
    <2> QED
      BY <1>1, <1>4, <1>13, <1>14, <1>15, <1>16, <2>1, <2>2, RemovedDone
  <1>18. CloseTells'
    <2>1. /\ \A i \in DOMAIN list' : Place(S, i) \in S /\ list'[i] = list[Place(S, i)]
          /\ \A j \in S : Rank(S, j) \in DOMAIN list' /\ list'[Rank(S, j)] = list[j]
          /\ \A i, k \in DOMAIN list' : Place(S, i) < Place(S, k) <=> i < k
          /\ DOMAIN list' \subseteq Int
      BY <1>9, <1>13, <1>6, RemovedList
    <2>2. exit.pc = "closed" =>
            /\ \A i, k \in DOMAIN list' : Own(i)' /\ Own(k)' => i = k
            /\ \A i \in DOMAIN list' : Own(i)' => run_done'[list'[i]] /\ need_remove'[list'[i]]
      <3> SUFFICES ASSUME exit.pc = "closed", NEW i \in DOMAIN list', Own(i)'
                   PROVE  /\ \A k \in DOMAIN list' : Own(k)' => i = k
                          /\ run_done'[list'[i]] /\ need_remove'[list'[i]]
        OBVIOUS
      <3>1. PICK x \in DOMAIN list : x = Place(S, i) /\ list'[i] = list[x] /\ Own(x)
        BY <1>1, <1>9, <2>1 DEF Own
      <3>2. run_done[list[x]] /\ need_remove[list[x]] /\ list[x] \in Bufs
        BY <3>1 DEF CloseInv, CloseTells
      <3>3. ASSUME NEW k \in DOMAIN list', Own(k)' PROVE i = k
        <4>1. PICK y \in DOMAIN list : y = Place(S, k) /\ Own(y)
          BY <1>1, <1>9, <2>1, <3>3 DEF Own
        <4>2. x = y
          BY <3>1, <4>1 DEF CloseInv, CloseTells
        <4>3. Place(S, i) = Place(S, k) /\ Place(S, i) \in Int
          BY <3>1, <4>1, <4>2
        <4>4. ~(i < k) /\ ~(k < i)
          BY <2>1, <4>3
        <4> QED
          BY <2>1, <4>4
      <3> QED
        BY <1>1, <1>3, <3>1, <3>2, <3>3
    <2>3. exit.pc = "closed" =>
            \A m \in mine : stage'[m] # "free" => \E i \in DOMAIN list' : list'[i] = m
      <3> SUFFICES ASSUME exit.pc = "closed", NEW m \in mine, stage'[m] # "free"
                   PROVE  \E i \in DOMAIN list' : list'[i] = m
        OBVIOUS
      <3>1. m \in Bufs /\ m # n
        BY DEF CloseInv, CloseTypes
      <3>2. m \notin gone /\ stage[m] # "free"
        BY <1>6, <3>1
      <3>3. PICK j \in DOMAIN list : list[j] = m
        BY <3>2 DEF CloseInv, CloseTells
      <3> QED
        BY <1>9, <2>1, <3>2, <3>3
    <2> QED
      BY <1>1, <1>4, <2>2, <2>3 DEF CloseInv, CloseTells
  <1>19. CoreTells'
    BY <1>1 DEF CloseInv, CoreTells
  <1> QED
    BY <1>17, <1>18, <1>19 DEF CloseInv

-----------------------------------------------------------------------------
(* The hardware has stopped at position c for the close, which stands at   *)
(* position a: S stays of the list, K is marked.                           *)
StoppedAt(a, c, S, K) ==
    /\ a \in DOMAIN list /\ c \in DOMAIN list /\ Removes(S, K)
    /\ Own(a) /\ \A j \in DOMAIN list : Own(j) => a <= j
    /\ hw.phase = "off" /\ ~hw.abort /\ exit.pc = "stopping" /\ sem = Closer
    /\ exit.restart = None
    /\ \A j \in DOMAIN list : /\ list[j] \in ran <=> j <= c
                              /\ run_done[list[j]] => j <= c
                              /\ c < j => jmp[list[j - 1]] = list[j]
    /\ QueueTold(c)
    /\ run_done' \in [Bufs -> BOOLEAN] /\ linked' \in [Bufs -> BOOLEAN]
    /\ \A m \in Bufs : /\ run_done[m] => run_done'[m]
                       /\ run_done'[m] => run_done[m] \/ m \in ran
                       /\ linked'[m] => linked[m]
    /\ \A j \in DOMAIN list : /\ run_done'[list[j]] <=> j <= c
                              /\ c < j => linked'[list[j]]
                              /\ c < j => (j \in S <=> ~Own(j))
    /\ \A j \in S : Own(j) => j = Len(list) /\ list[j] \in K
    /\ \A m \in K : m = list[Len(list)] /\ m \in mine /\ Len(list) = c
    /\ linked'[KernelBuf]
    /\ \E D \in SUBSET DOMAIN list :
         /\ \A j \in D : Own(j)
         /\ \A j \in DOMAIN list : c < j /\ Own(j) => j \in D
         /\ jmp' = [m \in Bufs |-> IF \E j \in D : j > 1 /\ list[j - 1] = m /\ j - 1 \in S
                                   THEN Successor(list', m) ELSE jmp[m]]

(* CloseStopped brings this about, and restarts the core at the first      *)
(* buffer of others behind c, or leaves it idle.                           *)
LEMMA StoppedShape ==
  ASSUME CloseInv, CloseStopped
  PROVE  \E a, c \in DOMAIN list : \E S, K :
            /\ StoppedAt(a, c, S, K)
            /\ LET left == {j \in DOMAIN list : ~Own(j) /\ c < j}
               IN  /\ sw_rdy' = Cardinality(left)
                   /\ left # {} => /\ RestartCore(list[Min(left)], sw_rdy')
                                   /\ exit' = [exit EXCEPT !.pc = "sweep", !.at = None,
                                                           !.restart = list[Min(left)]]
                   /\ left = {} => /\ irq' = irq \ {"ABORT"} /\ working' = FALSE
                                   /\ hw' = [hw EXCEPT !.exe = 0, !.rdy = 0]
                                   /\ exit' = [exit EXCEPT !.pc = "sweep", !.at = None,
                                                           !.restart = None]
  <1> USE CloseFacts
  <1>1. exit.pc = "stopping" /\ hw.phase = "off" /\ sem = Closer /\ exit.restart = None
    BY DEF CloseStopped, Stopped, CloseInv, CloseTells
  <1>2. working /\ ~hw.abort
    BY <1>1 DEF CloseInv, CoreTells
  <1>3. PICK c \in DOMAIN list, d \in DOMAIN list, l \in DOMAIN list : QueueAt(c, d, l)
    BY DEF CloseInv, Queue
  <1>4. /\ l = Len(list) /\ Passed(c) = c /\ d <= c /\ hw.cur = list[c]
        /\ \A j \in DOMAIN list :
              /\ run_done[list[j]] <=> j <= d
              /\ list[j] \in ran <=> j <= c
              /\ d < j => linked[list[j]]
              /\ c < j => jmp[list[j - 1]] = list[j]
        /\ QueueTold(c)
    <2>1. l = Len(list) /\ Passed(c) = c
      BY <1>1, <1>3 DEF QueueAt, QueueHeld, Passed
    <2> QED
      BY <1>2, <1>3, <2>1 DEF QueueAt, QueueCut, QueueChained
  <1>5. PICK a \in DOMAIN list : /\ exit.at = list[a] /\ Own(a) /\ ~run_done[list[a]]
                                 /\ \A j \in DOMAIN list : Own(j) => a <= j
    BY <1>1 DEF CloseInv, CloseTells
  <1>6. Position(exit.at) = a /\ Position(hw.cur) = c /\ InList(hw.cur)
    BY <1>4, <1>5, PlaceInQueue
  <1>7. \A m : m \in Executed <=> \E j \in 1..c : list[j] = m
    <2>1. Executed = {list[j] : j \in 1..c}
      BY <1>6 DEF Executed
    <2> QED
      BY <2>1
  <1>8. \A j \in DOMAIN list : list[j] \in Executed <=> j <= c
    BY <1>7
  <1> DEFINE dn == [n \in Bufs |-> run_done[n] \/ n \in Executed]
             lk == [n \in Bufs |-> linked[n] /\ ~(n \in Executed /\ ~run_done[n])]
             own == {j \in a..Len(list) : Own(j)}
             D == {a} \cup {j \in own : ~dn[list[j]] /\ lk[list[j]]}
             left == {j \in DOMAIN list : ~Own(j) /\ c < j}
  <1>9. /\ dn \in [Bufs -> BOOLEAN] /\ lk \in [Bufs -> BOOLEAN]
        /\ \A m \in Bufs : /\ dn[m] <=> run_done[m] \/ m \in Executed
                           /\ lk[m] => linked[m]
        /\ \A j \in DOMAIN list : /\ dn[list[j]] <=> j <= c
                                  /\ c < j => lk[list[j]]
    <2>1. linked \in [Bufs -> BOOLEAN]
      BY DEF CloseInv, CloseTypes
    <2> QED
      BY <1>4, <1>8, <2>1
  <1>10. Remaining(a, dn) = left
    <2> HIDE DEF dn, lk
    <2>1. \A j \in DOMAIN list : c < j <=> ~(j <= c)
      OBVIOUS
    <2>2. \A j \in DOMAIN list : dn[list[j]] <=> j <= c
      BY <1>9
    <2>3. \A j \in DOMAIN list : ~dn[list[j]] <=> c < j
      BY <2>1, <2>2, Zenon
    <2> QED
      BY <2>3 DEF Remaining
  <1> DEFINE restart == IF left # {} /\ (exit.restart = None \/ dn[exit.at] \/ Min(left) < a)
                        THEN list[Min(left)]
                        ELSE IF dn[exit.at] /\ Last(list) \notin Executed THEN None
                        ELSE exit.restart
  <1>11. /\ RemoveOwn(own, D, dn, lk)
         /\ sw_rdy' = Cardinality(left)
         /\ IF restart # None THEN RestartCore(restart, sw_rdy')
            ELSE /\ irq' = irq \ {"ABORT"}
                 /\ working' = FALSE
                 /\ hw' = [hw EXCEPT !.exe = 0, !.rdy = 0]
         /\ exit' = [exit EXCEPT !.pc = "sweep", !.restart = restart, !.at = None]
         /\ UNCHANGED <<prio, status, patched, sem, ddr_id, ran, mine>>
    <2>1. /\ RemoveOwn(own, {Position(exit.at)} \cup {j \in own : ~dn[list[j]] /\ lk[list[j]]},
                       dn, lk)
          /\ sw_rdy' = Cardinality(Remaining(Position(exit.at), dn))
      BY <1>6, Zenon DEF CloseStopped
    <2> QED
      BY <1>6, <1>10 DEF CloseStopped, ddrVars
  <1> HIDE DEF dn, lk, own, D, left
  <1>12. left # {} => Min(left) \in left /\ list[Min(left)] \in Bufs
    <2> SUFFICES ASSUME left # {} PROVE Min(left) \in left /\ list[Min(left)] \in Bufs
      OBVIOUS
    <2>1. left \in SUBSET Nat /\ left \subseteq DOMAIN list
      BY DEF left
    <2>2. PICK m \in left : \A j \in left : m <= j
      BY <2>1, NatSetHasMin
    <2>3. Min(left) \in left
      BY <2>2 DEF Min
    <2> QED
      BY <2>1, <2>3
  <1>13. /\ left # {} => restart = list[Min(left)] /\ restart # None
         /\ left = {} => restart = None
    BY <1>1, <1>12
  <1>14. /\ left # {} => /\ RestartCore(list[Min(left)], sw_rdy')
                         /\ exit' = [exit EXCEPT !.pc = "sweep", !.at = None,
                                                 !.restart = list[Min(left)]]
         /\ left = {} => /\ irq' = irq \ {"ABORT"} /\ working' = FALSE
                         /\ hw' = [hw EXCEPT !.exe = 0, !.rdy = 0]
                         /\ exit' = [exit EXCEPT !.pc = "sweep", !.at = None,
                                                 !.restart = None]
    <2> HIDE DEF restart
    <2>1. exit' = [exit EXCEPT !.pc = "sweep", !.at = None, !.restart = restart]
      BY <1>11
    <2> QED
      BY <1>11, <1>13, <2>1 DEF RestartCore, vcmd_start
  <1>15. PICK S, K : WalkRemoves(own, D, dn, lk, S, K)
    <2>1. own \in SUBSET DOMAIN list /\ D \in SUBSET own
      BY <1>5 DEF own, D
    <2> QED
      BY <1>11, <2>1, RemoveOwnKeeps
  <1> DEFINE N == Len(list)
  <1>16. /\ N \in DOMAIN list /\ S \subseteq DOMAIN list /\ Removes(S, K) /\ D \subseteq own
         /\ \A j \in DOMAIN list : j \in own <=> Own(j)
         /\ \A j \in DOMAIN list : c < j /\ Own(j) => j \in D
         /\ \A j \in DOMAIN list : j \notin S <=> Own(j) /\ (j = N => j \in D)
         /\ \A m : m \in K <=> Own(N) /\ N \notin D /\ m = list[N]
    <2>1. \A j \in DOMAIN list : j \in own <=> Own(j)
      BY <1>5 DEF own
    <2>2. D \subseteq own /\ \A j \in DOMAIN list : c < j /\ Own(j) => j \in D
      BY <1>5, <1>9, <2>1 DEF D
    <2>3. N \in DOMAIN list
      OBVIOUS
    <2> QED
      BY <1>15, <2>1, <2>2, <2>3 DEF WalkRemoves, Removes
  <1> HIDE DEF N
  <1>17. \A m \in K : m = list[N] /\ m \in mine /\ N = c
    BY <1>16 DEF Own, N
  <1>18. \A m \in K : m \in Bufs /\ dn[m]
    <2>1. c <= c
      OBVIOUS
    <2> QED
      BY <1>9, <1>16, <1>17, <2>1
  <1>19. run_done' = dn /\ linked' = lk
    BY <1>9, <1>15, <1>18 DEF WalkRemoves
  <1>20. \A m \in Bufs : run_done'[m] => run_done[m] \/ m \in ran
    BY <1>4, <1>7, <1>9, <1>19
  <1>21. linked'[KernelBuf]
    <2>1. run_done[KernelBuf] /\ linked[KernelBuf]
      BY DEF CloseInv, KernelFirst
    <2> QED
      BY <1>9, <1>19, <2>1 DEF lk
  <1>22. \A j \in DOMAIN list : c < j => (j \in S <=> ~Own(j))
    BY <1>16
  <1>23. /\ D \in SUBSET DOMAIN list /\ \A j \in D : Own(j)
         /\ jmp' = [m \in Bufs |-> IF \E j \in D : j > 1 /\ list[j - 1] = m /\ j - 1 \in S
                                   THEN Successor(list', m) ELSE jmp[m]]
    <2>1. own \subseteq DOMAIN list
      BY <1>5 DEF own
    <2> QED
      BY <1>15, <1>16, <2>1 DEF WalkRemoves
  <1>24. StoppedAt(a, c, S, K)
    <2>1. \A j \in S : Own(j) => j = Len(list) /\ list[j] \in K
      BY <1>16 DEF N
    <2>2. \A j \in DOMAIN list : run_done[list[j]] => j <= c
      BY <1>4
    <2>3. \A m \in Bufs : run_done[m] => run_done'[m]
      BY <1>9, <1>19
    <2>4. \A m \in Bufs : linked'[m] => linked[m]
      BY <1>9, <1>19
    <2>5. \A j \in DOMAIN list : /\ run_done'[list[j]] <=> j <= c
                                 /\ c < j => linked'[list[j]]
                                 /\ c < j => (j \in S <=> ~Own(j))
      BY <1>9, <1>19, <1>22
    <2>6. \A m \in K : m = list[Len(list)] /\ m \in mine /\ Len(list) = c
      BY <1>17 DEF N
    <2>7. \A j \in DOMAIN list : /\ list[j] \in ran <=> j <= c
                                 /\ run_done[list[j]] => j <= c
                                 /\ c < j => jmp[list[j - 1]] = list[j]
      BY <1>4, <2>2
    <2>8. run_done' \in [Bufs -> BOOLEAN] /\ linked' \in [Bufs -> BOOLEAN]
      BY <1>9, <1>19
    <2>9. \E DD \in SUBSET DOMAIN list :
            /\ \A j \in DD : Own(j)
            /\ \A j \in DOMAIN list : c < j /\ Own(j) => j \in DD
            /\ jmp' = [m \in Bufs |-> IF \E j \in DD : j > 1 /\ list[j - 1] = m /\ j - 1 \in S
                                      THEN Successor(list', m) ELSE jmp[m]]
      BY <1>16, <1>23, Zenon
    <2> QED
      BY <1>1, <1>2, <1>4, <1>5, <1>16, <1>20, <1>21,
         <2>1, <2>3, <2>4, <2>5, <2>6, <2>7, <2>8, <2>9, Zenon
      DEF StoppedAt
  <1> QED
    BY <1>11, <1>14, <1>24 DEF left

(* Nothing of others is left to run: the core is idle.                     *)
LEMMA StoppedIdle ==
  ASSUME CloseInv, NEW a \in DOMAIN list, NEW c \in DOMAIN list, NEW S, NEW K,
         StoppedAt(a, c, S, K), UNCHANGED <<sem, ddr_id, ran>>,
         {j \in DOMAIN list : ~Own(j) /\ c < j} = {}, sw_rdy' = 0,
         irq' = irq \ {"ABORT"}, working' = FALSE, hw'.phase = "off"
  PROVE  Queue'
  <1>0. /\ Len(list) \in Nat \ {0} /\ DOMAIN list = 1..Len(list)
        /\ \A j \in DOMAIN list : list[j] \in Bufs
        /\ Closer \notin Ids /\ ddr_id \in Bufs
        /\ \A n \in Ids : (\E j \in DOMAIN list : list[j] = n) <=> stage[n] \in Listed
        /\ KernelBuf \notin Ids /\ Bufs = Ids \cup {KernelBuf}
        /\ stage[KernelBuf] = "waited"
    BY CloseFacts DEF CloseInv, CloseTypes
  <1>1. /\ S \in SUBSET DOMAIN list /\ 1 \in S /\ list' = Picked(list, S)
        /\ \A j \in S : j <= c
    <2>1. S \in SUBSET DOMAIN list /\ 1 \in S /\ list' = Picked(list, S)
      BY DEF StoppedAt, Removes
    <2>2. ASSUME NEW j \in S, c < j PROVE FALSE
      <3>1. j \in DOMAIN list /\ ~Own(j)
        BY <2>1, <2>2 DEF StoppedAt
      <3> QED
        BY <2>2, <3>1
    <2>3. \A j \in DOMAIN list : ~(c < j) => j <= c
      BY <1>0
    <2> QED
      BY <2>1, <2>2, <2>3
  <1>2. PICK C \in Nat \ {0} : C = Len(list') /\ DOMAIN list' = 1..C /\ C \in DOMAIN list'
    <2>1. /\ Len(list') = Cardinality(S) /\ DOMAIN list' = 1..Cardinality(S)
          /\ Cardinality(S) \in 1..Len(list)
      BY <1>1, RemovedList
    <2>2. Cardinality(S) \in Nat \ {0} /\ Cardinality(S) \in DOMAIN list'
      BY <1>0, <2>1
    <2> QED
      BY <2>1, <2>2
  <1>3. \A i \in 1..C : \E j \in DOMAIN list : list'[i] = list[j] /\ j <= c
    <2>1. \A i \in DOMAIN list' : Place(S, i) \in S /\ list'[i] = list[Place(S, i)]
      BY <1>1, RemovedList
    <2> QED
      BY <1>1, <1>2, <2>1
  <1>4. \A i \in 1..C : run_done'[list'[i]] /\ list'[i] \in ran'
    BY <1>3 DEF StoppedAt
  <1>5. Passed(C)' = C
    BY DEF Passed
  <1>6. QueueCut(C, C, C)'
    BY <1>2, <1>4, <1>5 DEF QueueCut
  <1>7. QueueChained(C, C)'
    <2>1. ~\E i \in 1..C : C < i
      OBVIOUS
    <2> QED
      BY <1>2, <2>1 DEF QueueChained
  <1>8. QueueTold(C)'
    <2> SUFFICES ASSUME "JMP" \in irq', stage'[ddr_id] # "free" PROVE run_done'[ddr_id]
      BY DEF QueueTold
    <2>1. "JMP" \in irq
      OBVIOUS
    <2>2. stage[ddr_id] # "free"
      <3>1. ASSUME ddr_id \in K PROVE \E j \in DOMAIN list : list[j] = ddr_id
        BY <3>1, <1>1 DEF StoppedAt, Removes
      <3>2. ddr_id \in K => stage[ddr_id] # "free"
        BY <1>0, <3>1 DEF Listed
      <3> QED
        BY <1>0, <3>2 DEF StoppedAt, Removes
    <2>3. run_done[ddr_id] \/ ddr_id = list[c]
      BY <2>1, <2>2 DEF StoppedAt, QueueTold, Passed
    <2>4. run_done'[list[c]]
      BY <1>0 DEF StoppedAt
    <2> QED
      BY <1>0, <2>3, <2>4 DEF StoppedAt
  <1>9. QueueHeld(C)'
    BY <1>0, <1>2 DEF QueueHeld, StoppedAt
  <1> QED
    BY <1>2, <1>6, <1>7, <1>8, <1>9 DEF Queue, QueueAt

(* What stays behind the stop, in its new places: done up to the stop, the *)
(* others one after another behind it.                                     *)
SettledAt(left, c, S, C, cut, b) ==
    /\ DOMAIN list' = 1..C /\ Len(list') = C /\ b = cut + 1
    /\ Cardinality(left) = C - cut
    /\ Place(S, b) = Min(left) /\ list'[b] = list[Min(left)]
    /\ \A i \in 1..C : /\ Place(S, i) \in S
                       /\ list'[i] = list[Place(S, i)]
                       /\ Place(S, i) <= c <=> i <= cut

(* Such places exist.                                                      *)
LEMMA StoppedPlaces ==
  ASSUME CloseInv, NEW a \in DOMAIN list, NEW c \in DOMAIN list, NEW S, NEW K,
         StoppedAt(a, c, S, K), NEW left,
         left = {j \in DOMAIN list : ~Own(j) /\ c < j}, left # {}
  PROVE  \E C \in Nat : \E cut, b \in 1..C : SettledAt(left, c, S, C, cut, b)
  <1>0. Len(list) \in Nat \ {0} /\ DOMAIN list = 1..Len(list) /\ Len(list) \in Nat
    BY CloseFacts
  <1>1. /\ S \in SUBSET DOMAIN list /\ 1 \in S /\ list' = Picked(list, S)
        /\ \A j \in DOMAIN list : c < j => (j \in S <=> j \in left)
        /\ left \subseteq S
    BY DEF StoppedAt, Removes
  <1>2. PICK C : C = Cardinality(S)
    OBVIOUS
  <1>3. /\ C \in 1..Len(list) /\ DOMAIN list' = 1..C /\ Len(list') = C
        /\ \A i \in 1..C : Place(S, i) \in S /\ list'[i] = list[Place(S, i)]
        /\ \A j \in S : /\ Rank(S, j) \in 1..C /\ Place(S, Rank(S, j)) = j
                        /\ list'[Rank(S, j)] = list[j]
        /\ \A i, k \in 1..C : Place(S, i) < Place(S, k) <=> i < k
        /\ \A x \in 0..Len(list) :
              /\ Rank(S, x) \in 0..C
              /\ \A i \in 1..C : Place(S, i) <= x <=> i <= Rank(S, x)
    BY <1>1, <1>2, RemovedList
  <1>4. PICK cut \in 0..C : /\ cut = Rank(S, c)
                            /\ \A i \in 1..C : Place(S, i) <= c <=> i <= cut
    <2>1. c \in 0..Len(list)
      BY <1>0
    <2> QED
      BY <1>3, <2>1
  <1>5. PICK m \in left : m = Min(left) /\ \A j \in left : m <= j
    <2>1. left \in SUBSET Nat
      BY <1>0
    <2>2. PICK m \in left : \A j \in left : m <= j
      BY <2>1, NatSetHasMin
    <2>3. Min(left) \in left /\ \A j \in left : Min(left) <= j
      BY <2>2 DEF Min
    <2> QED
      BY <2>3
  <1>6. m \in S /\ c < m /\ m \in DOMAIN list
    BY <1>1, <1>5
  <1>7. PICK b \in 1..C : Place(S, b) = m /\ list'[b] = list[m]
    BY <1>3, <1>6
  <1>8. cut >= 1
    <2>1. PICK f \in 1..C : Place(S, f) = 1
      BY <1>1, <1>3
    <2>2. f <= cut
      BY <1>0, <1>4, <2>1
    <2> QED
      BY <1>3, <2>2
  <1>9. b = cut + 1
    <2>1. cut < b
      BY <1>0, <1>3, <1>4, <1>6, <1>7
    <2>2. ASSUME cut + 1 < b PROVE FALSE
      <3>1. PICK i \in 1..C : i = cut + 1 /\ i < b /\ ~(i <= cut)
        BY <1>3, <1>8, <2>2
      <3>2. PICK q \in S : q = Place(S, i) /\ q < m /\ ~(q <= c) /\ q \in DOMAIN list
        BY <1>1, <1>3, <1>4, <1>7, <3>1
      <3>3. q \in left
        BY <1>0, <1>1, <3>2
      <3> QED
        <4>1. m <= q /\ q < m
          BY <1>5, <3>2, <3>3
        <4>2. m \in Int /\ q \in Int
          BY <1>0, <1>6, <3>2
        <4> QED
          BY <4>1, <4>2
    <2> QED
      BY <1>3, <2>1, <2>2
  <1>10. Cardinality(left) = C - cut
    <2> DEFINE E == {k \in S : k <= c}
    <2>1. IsFiniteSet(S)
      BY <1>0, <1>1, RanksAreNumbers
    <2>2. E \subseteq S /\ E \cup left = S /\ E \cap left = {}
      BY <1>0, <1>1
    <2>3. IsFiniteSet(E) /\ IsFiniteSet(left)
      BY <1>1, <2>1, <2>2, FS_Subset
    <2>4. Cardinality(S) = Cardinality(E) + Cardinality(left) - Cardinality({})
      BY <2>2, <2>3, FS_Union
    <2>5. Cardinality(left) \in Nat /\ Cardinality({}) = 0
      BY <2>3, FS_CardinalityType, FS_EmptySet
    <2>6. Cardinality(E) = cut
      BY <1>4 DEF Rank
    <2> QED
      BY <1>2, <1>3, <2>4, <2>5, <2>6
  <1>11. C \in Nat /\ cut \in 1..C
    BY <1>3, <1>8
  <1> QED
    BY <1>3, <1>4, <1>5, <1>7, <1>9, <1>10, <1>11 DEF SettledAt

(* What others have left to run is chained from the restarted buffer on,   *)
(* and as much of it as the core is told.                                  *)
LEMMA StoppedRestart ==
  ASSUME CloseInv, NEW a \in DOMAIN list, NEW c \in DOMAIN list, NEW S, NEW K,
         StoppedAt(a, c, S, K), UNCHANGED <<sem, ddr_id, ran>>,
         NEW left, left = {j \in DOMAIN list : ~Own(j) /\ c < j}, left # {},
         sw_rdy' = Cardinality(left), RestartCore(list[Min(left)], sw_rdy')
  PROVE  Queue' /\ sw_rdy' \in Nat
  <1>0. /\ Len(list) \in Nat \ {0} /\ DOMAIN list = 1..Len(list) /\ Len(list) \in Nat
        /\ \A j \in DOMAIN list : list[j] \in Bufs
        /\ \A i, j \in DOMAIN list : list[i] = list[j] => i = j
        /\ Closer \notin Ids
    BY CloseFacts
  <1>1. PICK C \in Nat : \E cut, b \in 1..C : SettledAt(left, c, S, C, cut, b)
    BY StoppedPlaces
  <1>2. PICK cut \in 1..C, b \in 1..C :
            /\ DOMAIN list' = 1..C /\ Len(list') = C /\ b = cut + 1
            /\ Cardinality(left) = C - cut
            /\ Place(S, b) = Min(left) /\ list'[b] = list[Min(left)]
            /\ \A i \in 1..C : /\ Place(S, i) \in S
                               /\ list'[i] = list[Place(S, i)]
                               /\ Place(S, i) <= c <=> i <= cut
    BY <1>1 DEF SettledAt
  <1>3. /\ S \in SUBSET DOMAIN list /\ 1 \in S /\ list' = Picked(list, S)
        /\ \A j \in DOMAIN list : c < j => (j \in S <=> ~Own(j))
    BY DEF StoppedAt, Removes
  <1>4. /\ irq' = {} /\ working' /\ hw'.phase = "exec" /\ hw'.cur = list'[b]
        /\ hw'.exe = 0 /\ hw'.rdy = C - cut /\ sw_rdy' = C - cut /\ sw_rdy' \in Nat
    <2>1. C - cut \in Nat
      OBVIOUS
    <2> QED
      BY <1>2, <2>1 DEF RestartCore, vcmd_start
  <1>5. Passed(b)' = cut
    BY <1>2, <1>4 DEF Passed
  <1>6. QueueCut(b, cut, C)'
    <2>1. ASSUME NEW i \in 1..C
          PROVE  /\ run_done'[list'[i]] <=> i <= cut
                 /\ list'[i] \in ran' <=> i <= cut
                 /\ cut < i => linked'[list'[i]]
      <3>1. PICK j \in DOMAIN list : list'[i] = list[j] /\ (j <= c <=> i <= cut)
        BY <1>2, <1>3
      <3>2. cut < i => c < j
        BY <1>0, <3>1
      <3> QED
        BY <3>1, <3>2 DEF StoppedAt
    <2>2. cut <= cut /\ b <= C
      OBVIOUS
    <2> QED
      BY <1>2, <1>4, <1>5, <2>1, <2>2 DEF QueueCut
  <1>7. ASSUME NEW i \in 1..C, b < i PROVE jmp'[list'[i - 1]] = list'[i]
    <2>1. i - 1 \in 1..C /\ i \in 1..C /\ ~(i - 1 <= cut) /\ ~(i <= cut)
      BY <1>2, <1>7
    <2>2. PICK p \in S : /\ p = Place(S, i - 1) /\ list'[i - 1] = list[p]
                         /\ p \in DOMAIN list /\ ~(p <= c)
      BY <1>2, <1>3, <2>1
    <2>3. PICK j \in S : /\ j = Place(S, i) /\ list'[i] = list[j]
                         /\ j \in DOMAIN list /\ ~(j <= c)
      BY <1>2, <1>3, <2>1
    <2>4. PICK D \in SUBSET DOMAIN list :
            /\ \A k \in D : Own(k)
            /\ \A k \in DOMAIN list : c < k /\ Own(k) => k \in D
            /\ jmp' = [m \in Bufs |-> IF \E k \in D : k > 1 /\ list[k - 1] = m /\ k - 1 \in S
                                      THEN Successor(list', m) ELSE jmp[m]]
      BY Zenon DEF StoppedAt
    <2>5. p < j /\ p + 1 \in DOMAIN list /\ c < p + 1 /\ p + 1 <= j
      <3>1. Place(S, i - 1) < Place(S, i) <=> i - 1 < i
        BY <1>2, <1>3, <2>1, RemovedList
      <3>2. p < j
        BY <2>1, <2>2, <2>3, <3>1
      <3> QED
        BY <1>0, <2>2, <2>3, <3>2
    <2>6. CASE p + 1 \in D
      <3>1. jmp'[list[p]] = Successor(list', list[p])
        <4>1. p + 1 > 1 /\ (p + 1) - 1 = p /\ list[p] \in Bufs
          BY <1>0, <2>2
        <4> QED
          BY <2>2, <2>4, <2>6, <4>1
      <3>2. \A h, k \in DOMAIN list' : list'[h] = list'[k] => h = k
        <4>1. ListOnce'
          BY <1>3, RemovedList
        <4> QED
          BY <4>1 DEF ListOnce
      <3>3. (CHOOSE k \in DOMAIN list' : list'[k] = list[p]) = i - 1
        BY <1>2, <2>1, <2>2, <3>2
      <3>4. i - 1 # Len(list') /\ (i - 1) + 1 = i
        BY <1>2, <2>1
      <3> QED
        BY <2>2, <3>1, <3>3, <3>4 DEF Successor
    <2>7. CASE p + 1 \notin D
      <3>1. p + 1 \in S
        BY <1>3, <2>4, <2>5, <2>7
      <3>2. p + 1 = j
        <4>1. PICK k \in 1..C : Place(S, k) = p + 1
          <5>1. /\ Rank(S, p + 1) \in DOMAIN list' /\ Place(S, Rank(S, p + 1)) = p + 1
            BY <1>3, <3>1, RemovedList
          <5> QED
            BY <1>2, <5>1
        <4>2. \A g, h \in 1..C : Place(S, g) < Place(S, h) <=> g < h
          BY <1>2, <1>3, RemovedList
        <4>3. i - 1 < k
          <5>1. Place(S, i - 1) < Place(S, k)
            BY <1>0, <2>2, <4>1
          <5> QED
            BY <2>1, <4>2, <5>1
        <4>4. ~(i < k)
          <5>1. ~(Place(S, i) < Place(S, k))
            BY <1>0, <2>2, <2>3, <2>5, <4>1
          <5> QED
            BY <4>2, <5>1
        <4>5. k = i
          BY <4>3, <4>4
        <4> QED
          BY <2>3, <4>1, <4>5
      <3>3. jmp'[list[p]] = jmp[list[p]]
        <4>1. ~\E k \in D : k > 1 /\ list[k - 1] = list[p] /\ k - 1 \in S
          <5> SUFFICES ASSUME NEW k \in D, list[k - 1] = list[p], k - 1 \in S PROVE FALSE
            OBVIOUS
          <5>1. k - 1 = p
            BY <1>0, <1>3, <2>2
          <5>2. k = p + 1
            BY <1>0, <2>2, <5>1
          <5> QED
            BY <2>7, <5>2
        <4> QED
          BY <1>0, <2>2, <2>4, <4>1
      <3>4. jmp[list[j - 1]] = list[j] /\ j - 1 = p
        <4>1. c < j
          BY <1>0, <2>3
        <4> QED
          BY <1>0, <2>2, <2>3, <3>2, <4>1 DEF StoppedAt
      <3> QED
        BY <2>2, <2>3, <3>3, <3>4
    <2> QED
      BY <2>6, <2>7
  <1>8. QueueChained(b, C)'
    <2>1. hw'.rdy - hw'.exe = C - cut
      BY <1>2, <1>4
    <2> QED
      BY <1>2, <1>4, <1>5, <1>7, <2>1 DEF QueueChained
  <1>9. QueueTold(b)' /\ QueueHeld(C)'
    BY <1>0, <1>2, <1>4 DEF QueueTold, QueueHeld, StoppedAt
  <1>10. cut \in DOMAIN list' /\ b \in DOMAIN list' /\ C \in DOMAIN list'
    BY <1>2
  <1> QED
    BY <1>4, <1>6, <1>8, <1>9, <1>10 DEF Queue, QueueAt

(* What the walk leaves of the stopped core's list and of the flags.       *)
LEMMA StoppedKeeps ==
  ASSUME CloseInv, NEW a \in DOMAIN list, NEW c \in DOMAIN list, NEW S, NEW K,
         StoppedAt(a, c, S, K),
         UNCHANGED <<sem, ddr_id, ran, prio, status, patched, mine>>,
         sw_rdy' \in Nat, working' \in BOOLEAN, hw' \in HwStates,
         irq' \subseteq {"JMP", "ABORT"}, exit'.pc = "sweep",
         exit' \in [pc : ExitPhases, aborted : BOOLEAN,
                    restart : Bufs \cup {None, Foreign}, at : Bufs \cup {None}]
  PROVE  /\ CloseTypes' /\ ListOnce' /\ KernelFirst' /\ linked'[KernelBuf]
         /\ ListedByStage' /\ OneInSection' /\ (\A n \in Bufs : BufferTells(n)')
         /\ CloseTells'
  <1> USE CloseFacts
  <1>1. /\ S \in SUBSET DOMAIN list /\ 1 \in S /\ list' = Picked(list, S)
        /\ Removes(S, K) /\ sem = Closer /\ mine \subseteq Ids
    BY DEF StoppedAt, Removes, CloseInv, CloseTypes
  <1>2. /\ list' \in Seq(Bufs) /\ Len(list') # 0 /\ ListOnce'
        /\ \A i \in DOMAIN list' : Place(S, i) \in S /\ list'[i] = list[Place(S, i)]
        /\ \A i \in DOMAIN list' : list'[i] \in Bufs
    <2>1. Len(list') = Cardinality(S) /\ Cardinality(S) \in 1..Len(list)
          /\ list' \in Seq(Bufs) /\ ListOnce'
      BY <1>1, RemovedList
    <2>2. \A i \in DOMAIN list' : Place(S, i) \in S /\ list'[i] = list[Place(S, i)]
      BY <1>1, RemovedList
    <2> QED
      BY <1>1, <2>1, <2>2
  <1>3. jmp' \in [Bufs -> Bufs \cup {None}]
    <2>1. PICK D \in SUBSET DOMAIN list :
            jmp' = [m \in Bufs |-> IF \E k \in D : k > 1 /\ list[k - 1] = m /\ k - 1 \in S
                                   THEN Successor(list', m) ELSE jmp[m]]
      BY Zenon DEF StoppedAt
    <2>2. jmp \in [Bufs -> Bufs \cup {None}]
      BY DEF CloseInv, CloseTypes
    <2>3. ASSUME NEW k \in S PROVE Successor(list', list[k]) \in Bufs \cup {None}
      <3>1. \E i \in DOMAIN list' : list'[i] = list[k]
        BY <1>1, RemovedList
      <3>2. PICK i \in DOMAIN list' : i = CHOOSE h \in DOMAIN list' : list'[h] = list[k]
        BY <3>1
      <3>3. i # Len(list') => i + 1 \in DOMAIN list'
        <4>1. DOMAIN list' = 1..Len(list') /\ Len(list') \in Nat
          BY <1>2, LenProperties
        <4> QED
          BY <4>1
      <3> QED
        BY <1>2, <3>2, <3>3 DEF Successor
    <2>4. \A m \in Bufs :
            (IF \E k \in D : k > 1 /\ list[k - 1] = m /\ k - 1 \in S
             THEN Successor(list', m) ELSE jmp[m]) \in Bufs \cup {None}
      BY <2>2, <2>3
    <2> QED
      BY <2>1, <2>4
  <1>4. CloseTypes'
    BY <1>1, <1>2, <1>3 DEF StoppedAt, Removes, CloseInv, CloseTypes
  <1>5. \A m \in K : /\ m \in Ids /\ m = list[Len(list)] /\ run_done'[m]
                     /\ stage[m] \in Listed /\ m \in ran
    <2> SUFFICES ASSUME NEW m \in K
                 PROVE  /\ m \in Ids /\ m = list[Len(list)] /\ run_done'[m]
                        /\ stage[m] \in Listed /\ m \in ran
      OBVIOUS
    <2>1. m = list[Len(list)] /\ m \in mine /\ Len(list) = c
      BY DEF StoppedAt
    <2>2. run_done'[m] /\ m \in ran
      <3>1. c <= c
        OBVIOUS
      <3> QED
        BY <2>1, <3>1 DEF StoppedAt
    <2> QED
      BY <1>1, <2>1, <2>2
  <1>6. KernelFirst' /\ linked'[KernelBuf] /\ ListedByStage' /\ OneInSection'
    <2>1. run_done'[KernelBuf] /\ ~need_remove[KernelBuf] /\ linked'[KernelBuf]
      BY DEF CloseInv, KernelFirst, StoppedAt
    <2>2. stage'[KernelBuf] = "waited"
      <3>1. \A j \in DOMAIN list : list[j] = KernelBuf => j \in S
        BY <1>1
      <3> QED
        BY <1>5, <3>1 DEF StoppedAt, Removes
    <2>3. ~need_remove'[KernelBuf]
      BY <2>1, <2>2, <1>1 DEF Removes
    <2>4. sem \notin Ids /\ sem' \notin Ids
      BY <1>1
    <2>5. KernelBuf \notin K
      BY <1>5
    <2> QED
      BY <1>1, <2>1, <2>3, <2>4, <2>5, RemovedShape DEF Removes
  <1>7. \A n \in Bufs : BufferTells(n)'
    <2> TAKE n \in Bufs
    <2>1. BufferTells(n)
      BY DEF CloseInv
    <2>2. n \in K => patched[n]
      BY <1>5, <2>1 DEF BufferTells, Listed
    <2>3. stage'[n] \in {"free", "released", stage[n]}
          /\ (stage'[n] = "released" => n \in K \/ stage[n] = "released")
      BY <1>1 DEF Removes
    <2>4. need_remove'[n] => need_remove[n] \/ stage'[n] \in {"released", "free"}
      BY <1>1 DEF Removes
    <2>5. n \in K => stage'[n] \in {"free", "released"}
      BY <1>1 DEF Removes
    <2>6. /\ run_done[n] => run_done'[n]
          /\ run_done'[n] => run_done[n] \/ n \in ran
          /\ linked'[n] => linked[n]
          /\ n \in K => run_done'[n]
      BY <1>5 DEF StoppedAt
    <2> QED
      BY <2>1, <2>2, <2>3, <2>4, <2>5, <2>6 DEF BufferTells
  <1>8. CloseTells'
    <2>1. \A i \in DOMAIN list' : Own(i)' => /\ Place(S, i) = Len(list)
                                             /\ list'[i] = list[Len(list)] /\ list'[i] \in K
      <3> SUFFICES ASSUME NEW i \in DOMAIN list', Own(i)'
                   PROVE  /\ Place(S, i) = Len(list)
                          /\ list'[i] = list[Len(list)] /\ list'[i] \in K
        OBVIOUS
      <3>1. PICK j \in S : j = Place(S, i) /\ list'[i] = list[j]
        BY <1>2
      <3>2. Own(j)
        BY <3>1 DEF Own
      <3> QED
        BY <3>1, <3>2 DEF StoppedAt
    <2>2. \A i, k \in DOMAIN list' : Own(i)' /\ Own(k)' => i = k
      BY <1>2, <2>1 DEF ListOnce
    <2>3. \A m \in K : need_remove'[m]
      BY <1>1, <1>5 DEF Removes
    <2>4. \A i \in DOMAIN list' : Own(i)' => run_done'[list'[i]] /\ need_remove'[list'[i]]
      BY <1>5, <2>1, <2>3
    <2>5. sem' = Closer /\ sem' \notin mine'
      BY <1>1
    <2> QED
      BY <2>2, <2>4, <2>5 DEF CloseTells
  <1> QED
    BY <1>2, <1>4, <1>6, <1>7, <1>8

(* The hardware has stopped for the close, which cuts the file's buffers   *)
(* out of the chain and restarts the core behind the last that has run.    *)
LEMMA CloseStoppedStep ==
  ASSUME CloseInv, CloseStopped
  PROVE  CloseInv'
  <1>1. PICK a, c, S, K, left :
          /\ a \in DOMAIN list /\ c \in DOMAIN list /\ StoppedAt(a, c, S, K)
          /\ left = {j \in DOMAIN list : ~Own(j) /\ c < j}
          /\ sw_rdy' = Cardinality(left)
          /\ left # {} => /\ RestartCore(list[Min(left)], sw_rdy')
                          /\ exit' = [exit EXCEPT !.pc = "sweep", !.at = None,
                                                  !.restart = list[Min(left)]]
          /\ left = {} => /\ irq' = irq \ {"ABORT"} /\ working' = FALSE
                          /\ hw' = [hw EXCEPT !.exe = 0, !.rdy = 0]
                          /\ exit' = [exit EXCEPT !.pc = "sweep", !.at = None,
                                                  !.restart = None]
    BY StoppedShape, Zenon
  <1>2. UNCHANGED <<sem, ddr_id, ran, prio, status, patched, mine>>
    BY DEF CloseStopped, RemoveOwn, ddrVars
  <1>3. /\ hw.phase = "off" /\ ~hw.abort /\ hw \in HwStates /\ exit \in [pc : ExitPhases,
             aborted : BOOLEAN, restart : Bufs \cup {None, Foreign}, at : Bufs \cup {None}]
        /\ irq \subseteq {"JMP", "ABORT"} /\ left \subseteq Nat
    BY <1>1, CloseFacts DEF StoppedAt, CloseInv, CloseTypes
  <1>4. CASE left = {}
    <2>1. /\ irq' = irq \ {"ABORT"} /\ working' = FALSE
          /\ hw' = [hw EXCEPT !.exe = 0, !.rdy = 0]
          /\ exit' = [exit EXCEPT !.pc = "sweep", !.at = None, !.restart = None]
      BY <1>1, <1>4
    <2>2. sw_rdy' = 0
      BY <1>1, <1>4, FS_EmptySet
    <2>3. hw' \in HwStates /\ hw'.phase = "off" /\ ~hw'.abort
      BY <1>3, <2>1 DEF HwStates
    <2>4. Queue'
      BY <1>1, <1>2, <1>4, <2>1, <2>2, <2>3, StoppedIdle
    <2>5. exit'.pc = "sweep"
          /\ exit' \in [pc : ExitPhases, aborted : BOOLEAN,
                        restart : Bufs \cup {None, Foreign}, at : Bufs \cup {None}]
      BY <1>3, <2>1 DEF ExitPhases
    <2>6. sw_rdy' \in Nat /\ working' \in BOOLEAN /\ irq' \subseteq {"JMP", "ABORT"}
      BY <1>3, <2>1, <2>2
    <2>7. CoreTells'
      BY <2>1, <2>3, <2>5 DEF CoreTells
    <2> QED
      BY <1>1, <1>2, <2>3, <2>4, <2>5, <2>6, <2>7, StoppedKeeps DEF CloseInv
  <1>5. CASE left # {}
    <2>1. /\ RestartCore(list[Min(left)], sw_rdy')
          /\ exit' = [exit EXCEPT !.pc = "sweep", !.at = None, !.restart = list[Min(left)]]
      BY <1>1, <1>5
    <2>2. Queue' /\ sw_rdy' \in Nat
      BY <1>1, <1>2, <1>5, <2>1, StoppedRestart
    <2>3. list[Min(left)] \in Bufs
      <3>1. PICK m \in left : \A j \in left : m <= j
        BY <1>3, <1>5, NatSetHasMin
      <3>2. Min(left) \in left
        BY <3>1 DEF Min
      <3> QED
        BY <1>1, <3>2, CloseFacts
    <2>4. /\ irq' = {} /\ working' /\ working' \in BOOLEAN
          /\ hw' = [phase |-> "exec", cur |-> list[Min(left)], exe |-> 0, rdy |-> sw_rdy',
                    abort |-> FALSE]
      BY <2>1 DEF RestartCore, vcmd_start
    <2>5. hw' \in HwStates /\ hw'.phase = "exec" /\ ~hw'.abort
      BY <2>2, <2>3, <2>4 DEF HwStates
    <2>6. exit'.pc = "sweep"
          /\ exit' \in [pc : ExitPhases, aborted : BOOLEAN,
                        restart : Bufs \cup {None, Foreign}, at : Bufs \cup {None}]
      BY <1>3, <2>1, <2>3 DEF ExitPhases
    <2>7. CoreTells'
      BY <2>4, <2>5, <2>6 DEF CoreTells
    <2> QED
      BY <1>1, <1>2, <2>2, <2>4, <2>5, <2>6, <2>7, StoppedKeeps DEF CloseInv
  <1> QED
    BY <1>4, <1>5

-----------------------------------------------------------------------------
(* All steps together.                                                     *)
LEMMA CloseInit ==
  ASSUME PlainClose, ExitInit
  PROVE  TimelyInv
  <1>0. /\ KernelBuf \notin Ids /\ None \notin Ids /\ Bufs = Ids \cup {KernelBuf}
        /\ None \notin Bufs /\ KernelBuf # None /\ Closer # None /\ Closer \notin Bufs
    BY QueueAssumption DEF KernelBuf, Ids, None, Bufs, Closer
  <1>1. /\ list = <<KernelBuf>> /\ Len(list) = 1 /\ DOMAIN list = {1}
        /\ list[1] = KernelBuf /\ list \in Seq(Bufs)
    BY <1>0 DEF ExitInit, Init
  <1>2. /\ stage = [n \in Bufs |-> IF n = KernelBuf THEN "waited" ELSE "free"]
        /\ prio = [n \in Bufs |-> "normal"]
        /\ linked = [n \in Bufs |-> n = KernelBuf]
        /\ run_done = [n \in Bufs |-> n = KernelBuf]
        /\ status = [n \in Bufs |-> "OK"]
        /\ need_remove = [n \in Bufs |-> FALSE]
        /\ jmp = [n \in Bufs |-> None]
        /\ patched = [n \in Bufs |-> n = KernelBuf]
        /\ sem = None /\ working = TRUE /\ sw_rdy = 1
        /\ ddr_id = KernelBuf /\ irq = {} /\ ran = {KernelBuf}
        /\ hw = [phase |-> "pend", cur |-> KernelBuf, exe |-> 1, rdy |-> 1,
                 abort |-> FALSE]
        /\ mine = {} /\ timeouts = 0
    BY DEF ExitInit, Init
  <1>3. exit = [pc |-> "open", aborted |-> FALSE, restart |-> None, at |-> None]
    <2>1. PICK k \in Carried : exit = [pc |-> "open", aborted |-> k.aborted,
                                      restart |-> k.restart, at |-> None]
      BY DEF ExitInit
    <2>2. k = [aborted |-> FALSE, restart |-> None]
      BY DEF PlainClose
    <2> QED
      BY <2>1, <2>2
  <1>4. CloseTypes
    BY <1>0, <1>1, <1>2, <1>3 DEF CloseTypes, Stages, HwStates, ExitPhases
  <1>5. ListOnce /\ KernelFirst /\ linked[KernelBuf] /\ ListedByStage /\ OneInSection
    BY <1>0, <1>1, <1>2
    DEF ListOnce, KernelFirst, ListedByStage, OneInSection, Listed, Sections
  <1>6. \A n \in Bufs : BufferTells(n)
    BY <1>0, <1>2 DEF BufferTells
  <1>7. CloseTells /\ CoreTells
    BY <1>0, <1>1, <1>2, <1>3 DEF CloseTells, CoreTells, Own
  <1>8. Queue
    <2>1. Passed(1) = 1
      BY <1>2 DEF Passed
    <2>2. \A j \in DOMAIN list : j = 1
      BY <1>1
    <2>3. QueueCut(1, 1, 1)
      <3>1. run_done[KernelBuf] /\ KernelBuf \in ran /\ linked[KernelBuf]
            /\ working /\ hw.cur = KernelBuf
        BY <1>0, <1>2
      <3>2. \A j \in DOMAIN list : /\ run_done[list[j]] <=> j <= 1
                                   /\ list[j] \in ran <=> j <= Passed(1)
                                   /\ 1 < j => (linked[list[j]] <=> j <= 1)
        BY <1>1, <2>1, <2>2, <3>1
      <3> QED
        BY <1>1, <2>1, <3>1, <3>2 DEF QueueCut
    <2>4. QueueChained(1, 1)
      <3>1. hw.phase = "pend" /\ sw_rdy = hw.rdy /\ hw.rdy - hw.exe = 0
        BY <1>2
      <3> QED
        BY <2>1, <2>2, <3>1 DEF QueueChained
    <2>5. QueueTold(1) /\ QueueHeld(1)
      BY <1>0, <1>1, <1>2 DEF QueueTold, QueueHeld
    <2>6. QueueAt(1, 1, 1)
      BY <2>3, <2>4, <2>5 DEF QueueAt
    <2> QED
      BY <1>1, <2>6 DEF Queue
  <1> QED
    BY <1>2, <1>4, <1>5, <1>6, <1>7, <1>8 DEF TimelyInv, CloseInv

(* No client is ever in the abort of a suspension: only the others count.  *)
LEMMA CloseClientStep ==
  ASSUME CloseInv, NEW n \in Ids, ClientRuns(n)
  PROVE  CloseInv'
  <1>1. (n \in mine => exit.pc = "open") /\ UNCHANGED exitVars
    BY DEF ClientRuns
  <1>2. n \in Bufs /\ BufferTells(n) /\ prio[n] = "normal"
    BY CloseFacts DEF CloseInv, CloseTypes
  <1>3. ~(AbortTrigger(n) \/ AbortFlag(n) \/ AbortWake(n) \/ SelectBusy(n))
    BY <1>2 DEF BufferTells, AbortTrigger, AbortFlag, AbortWake, SelectBusy
  <1>4. ~(AbortInterrupted(n) \/ AbortGivenUp(n))
    BY <1>2 DEF BufferTells, AbortInterrupted, AbortGivenUp
  <1>5. CASE SelectTail(n)
    BY <1>1, <1>5, CloseSelectStep
  <1>6. CASE PatchAddresses(n) \/ Wait(n) \/ SemInterrupted(n)
    BY <1>1, <1>6, ThreadStep
  <1>7. CASE LinkToRunning(n)
    BY <1>1, <1>7, CloseLinkToRunningStep
  <1>8. CASE LinkAndStart(n)
    BY <1>1, <1>8, CloseLinkAndStartStep
  <1>9. CASE release_cmdbuf(n)
    BY <1>1, <1>9, CloseReleaseStep
  <1> QED
    BY <1>3, <1>4, <1>5, <1>6, <1>7, <1>8, <1>9 DEF ClientRuns, Client, Submission

(* The hardware finishes, or stops for the close.                          *)
LEMMA CloseHardwareStep ==
  ASSUME PlainClose, CloseInv, HardwareRuns
  PROVE  CloseInv'
  <1>1. Faults = {} /\ UNCHANGED exitVars
    BY DEF PlainClose, HardwareRuns
  <1>2. HwFinish \/ HwAbort
    BY <1>1 DEF HardwareRuns, Hardware
  <1> QED
    BY <1>1, <1>2, CloseHwFinishStep, CloseHwAbortStep

(* The handler runs only when the close is not polling.                    *)
LEMMA CloseInterruptStep ==
  ASSUME CloseInv, InterruptRuns
  PROVE  CloseInv'
  <1>1. Unlocked /\ Interrupt /\ UNCHANGED exitVars
    BY DEF InterruptRuns
  <1>2. IsrJmp
    BY <1>1, OnlyJmpInterrupts
  <1> QED
    BY <1>1, <1>2, CloseJmpStep

(* A step that changes nothing.                                            *)
LEMMA CloseStutter ==
  ASSUME CloseInv, UNCHANGED allExitVars
  PROVE  CloseInv'
  <1>1. UNCHANGED <<list, stage, prio, linked, run_done, status, need_remove, jmp, patched,
                    sem, working, sw_rdy, ddr_id, hw, irq, ran, mine, exit>>
    BY DEF allExitVars, vars, exitVars
  <1>2. CloseTypes' /\ ListOnce' /\ KernelFirst' /\ linked'[KernelBuf] /\ ListedByStage'
        /\ OneInSection' /\ \A n \in Bufs : BufferTells(n)'
    BY <1>1
    DEF CloseInv, CloseTypes, ListOnce, KernelFirst, ListedByStage, OneInSection, BufferTells
  <1>3. CloseTells' /\ CoreTells'
    BY <1>1 DEF CloseInv, CloseTells, CoreTells, Own
  <1>4. Queue'
    BY <1>1, QueueStays DEF CloseInv
  <1> QED
    BY <1>2, <1>3, <1>4 DEF CloseInv

(* Until a close gives up, CloseInv holds; after that there is no other.   *)
LEMMA CloseStep ==
  ASSUME PlainClose, TimelyInv, [ExitNext]_allExitVars
  PROVE  TimelyInv'
  <1>1. CASE timeouts = 0
    <2>0. CloseInv
      BY <1>1 DEF TimelyInv
    <2>1. CASE \E n \in Ids, p \in Prios : ReserveFor(n, p)
      <3>1. CloseInv'
        BY <2>0, <2>1, CloseReserveStep
      <3>2. timeouts' = timeouts
        BY <2>1 DEF ReserveFor
      <3> QED
        BY <1>1, <3>1, <3>2 DEF TimelyInv
    <2>2. CASE \E n \in Ids : ClientRuns(n)
      <3>1. CloseInv'
        BY <2>0, <2>2, CloseClientStep
      <3>2. timeouts' = timeouts
        BY <2>2 DEF ClientRuns, exitVars
      <3> QED
        BY <1>1, <3>1, <3>2 DEF TimelyInv
    <2>3. CASE HardwareRuns \/ InterruptRuns
      <3>1. CloseInv'
        BY <2>0, <2>3, CloseHardwareStep, CloseInterruptStep
      <3>2. timeouts' = timeouts
        BY <2>3 DEF HardwareRuns, InterruptRuns, exitVars
      <3> QED
        BY <1>1, <3>1, <3>2 DEF TimelyInv
    <2>4. CASE CloseBegin \/ CloseInterrupted
      <3>1. CloseInv'
        BY <2>0, <2>4, CloseBeginStep
      <3>2. timeouts' = timeouts
        BY <2>4 DEF CloseBegin, CloseInterrupted
      <3> QED
        BY <1>1, <3>1, <3>2 DEF TimelyInv
    <2>5. CASE CloseGivesUp
      <3>1. timeouts' # 0 /\ exit'.pc = "gaveup"
        <4>1. exit \in [pc : ExitPhases, aborted : BOOLEAN,
                        restart : Bufs \cup {None, Foreign}, at : Bufs \cup {None}]
          BY <2>0 DEF CloseInv, CloseTypes
        <4> QED
          BY <1>1, <2>5, <4>1 DEF CloseGivesUp
      <3> QED
        BY <3>1 DEF TimelyInv
    <2>6. CASE CloseWalk \/ CloseAbort \/ CloseStopped \/ CloseSweep
      <3>1. CloseInv'
        BY <2>0, <2>6, CloseWalkStep, CloseAbortStep, CloseStoppedStep, CloseSweepStep
      <3>2. timeouts' = timeouts
        BY <2>6 DEF CloseWalk, CloseAbort, CloseStopped, CloseSweep
      <3> QED
        BY <1>1, <3>1, <3>2 DEF TimelyInv
    <2>7. ~CloseDeclaresIdle
      BY <2>0 DEF CloseInv, CloseTells, CloseDeclaresIdle
    <2>8. CASE UNCHANGED allExitVars
      <3>1. CloseInv'
        BY <2>0, <2>8, CloseStutter
      <3>2. timeouts' = timeouts
        BY <2>8 DEF allExitVars, exitVars
      <3> QED
        BY <1>1, <3>1, <3>2 DEF TimelyInv
    <2> QED
      BY <2>1, <2>2, <2>3, <2>4, <2>5, <2>6, <2>7, <2>8 DEF ExitNext, Close
  <1>2. CASE timeouts # 0
    <2>0. exit.pc \in {"gaveup", "abandoned"}
      BY <1>2 DEF TimelyInv
    <2>1. ~(CloseBegin \/ CloseInterrupted \/ CloseGivesUp \/ CloseWalk \/ CloseAbort
              \/ CloseStopped \/ CloseSweep)
      BY <2>0 DEF CloseBegin, CloseInterrupted, CloseGivesUp, CloseWalk, CloseAbort,
                  CloseStopped, CloseSweep
    <2>2. timeouts' = timeouts /\ exit'.pc \in {"gaveup", "abandoned"}
      <3>1. CASE CloseDeclaresIdle
        <4>1. exit' = [exit EXCEPT !.pc = "abandoned"] /\ timeouts' = timeouts
          BY <3>1 DEF CloseDeclaresIdle
        <4> QED
          BY <2>0, <4>1
      <3>2. CASE ~CloseDeclaresIdle
        <4>1. exit' = exit /\ timeouts' = timeouts
          BY <2>1, <3>2 DEF ExitNext, Close, ReserveFor, ClientRuns, HardwareRuns,
                            InterruptRuns, allExitVars, exitVars
        <4> QED
          BY <2>0, <4>1
      <3> QED
        BY <3>1, <3>2
    <2> QED
      BY <1>2, <2>2 DEF TimelyInv
  <1> QED
    BY <1>1, <1>2

(* A close that is not cut short by its three seconds keeps the driver's   *)
(* list, the chain and the close's own progress in step.                   *)
THEOREM CloseInvariant ==
  ASSUME PlainClose
  PROVE  ExitSpec => []TimelyInv
  BY CloseInit, CloseStep, PTL DEF ExitSpec

(* NothingOfTheFileLeft: hantrovcmd_release leaves of the closed file at   *)
(* most one buffer, done and marked for the next release_cmdbuf behind it. *)
THEOREM ClosedFileIsGone ==
  ASSUME PlainClose
  PROVE  ExitSpec => []NothingOfTheFileLeft
  <1>1. ASSUME TimelyInv PROVE NothingOfTheFileLeft
    <2> SUFFICES ASSUME exit.pc = "closed"
                 PROVE  LET left == {n \in mine : InTable(n)}
                        IN  /\ Cardinality(left) <= 1
                            /\ \A n \in left : InList(n) /\ run_done[n] /\ need_remove[n]
      BY DEF NothingOfTheFileLeft
    <2>1. CloseInv
      BY <1>1 DEF TimelyInv
    <2> DEFINE left == {n \in mine : InTable(n)}
    <2>2. \A n \in left : \E j \in DOMAIN list : list[j] = n /\ Own(j)
      BY <2>1 DEF CloseInv, CloseTells, InTable, Own
    <2>3. \A i, j \in DOMAIN list : Own(i) /\ Own(j) => i = j
      BY <2>1 DEF CloseInv, CloseTells
    <2>4. \A j \in DOMAIN list : Own(j) => run_done[list[j]] /\ need_remove[list[j]]
      BY <2>1 DEF CloseInv, CloseTells
    <2> HIDE DEF left
    <2>5. \A n \in left : InList(n) /\ run_done[n] /\ need_remove[n]
      BY <2>1, <2>2, <2>4, PlaceInQueue
    <2>6. Cardinality(left) <= 1
      <3>1. CASE left = {}
        BY <3>1, FS_EmptySet
      <3>2. CASE left # {}
        <4>1. PICK n : n \in left
          BY <3>2
        <4>2. left = {n}
          BY <2>2, <2>3, <4>1
        <4> QED
          BY <4>2, FS_Singleton
      <3> QED
        BY <3>1, <3>2
    <2> QED
      BY <2>5, <2>6 DEF left
  <1> QED
    BY <1>1, CloseInvariant, PTL

(* OthersKeepRunning: whatever hantrovcmd_release cuts out of the list,    *)
(* the other files' buffers stay in it, linked, on a working core that is  *)
(* told exactly how many there are.                                        *)
THEOREM OthersStayQueued ==
  ASSUME PlainClose
  PROVE  ExitSpec => []OthersKeepRunning
  <1>1. ASSUME TimelyInv PROVE OthersKeepRunning
    <2> SUFFICES ASSUME timeouts = 0
                 PROVE  /\ ChainMatchesCount
                        /\ NoStrandedWork
                        /\ \A n \in Ids \ mine :
                              stage[n] = "submitted" /\ ~run_done[n] => InList(n)
      BY DEF OthersKeepRunning
    <2>1. CloseInv
      BY <1>1 DEF TimelyInv
    <2>2. PICK c \in DOMAIN list, d \in DOMAIN list, l \in DOMAIN list : QueueAt(c, d, l)
      BY <2>1 DEF CloseInv, Queue
    <2>3. ChainMatchesCount
      <3> SUFFICES ASSUME hw.phase # "off"
                   PROVE  /\ InList(hw.cur)
                          /\ sw_rdy = hw.rdy
                          /\ hw.rdy - hw.exe = Cardinality(Ahead)
                          /\ \A j \in Ahead :
                                j > Position(hw.cur) => jmp[list[j - 1]] = list[j]
        BY DEF ChainMatchesCount
      <3>1. working /\ hw.cur = list[c]
        BY <2>1, <2>2 DEF CloseInv, CoreTells, QueueAt, QueueCut
      <3>2. InList(hw.cur) /\ Position(hw.cur) = c
        BY <2>1, <3>1, PlaceInQueue
      <3>3. PICK P : P = Passed(c)
        OBVIOUS
      <3>4. /\ DOMAIN list = 1..Len(list) /\ Len(list) \in Nat
            /\ c \in Nat /\ l \in Nat /\ d \in Nat /\ 1 <= d
            /\ hw.phase = "exec" => P = c - 1
            /\ hw.phase # "exec" => P = c
        BY <2>1, <3>3, CloseFacts DEF Passed
      <3>5. /\ d <= P /\ c <= l /\ P \in Int
            /\ \A j \in DOMAIN list : d < j => (linked[list[j]] <=> j <= l)
            /\ sw_rdy = hw.rdy /\ hw.rdy - hw.exe = l - P
            /\ \A j \in DOMAIN list : c < j /\ j <= l => jmp[list[j - 1]] = list[j]
        BY <2>2, <3>3, <3>4 DEF QueueAt, QueueCut, QueueChained
      <3>6. Ahead = (P + 1)..l
        <4>1. \A j \in DOMAIN list :
                /\ linked[list[j]]
                /\ j > Position(hw.cur) \/ (j = Position(hw.cur) /\ hw.phase = "exec")
                <=> P + 1 <= j /\ j <= l
          <5> TAKE j \in DOMAIN list
          <5>1. j > c \/ (j = c /\ hw.phase = "exec") <=> P + 1 <= j
            BY <3>4, <3>5
          <5>2. P + 1 <= j => (linked[list[j]] <=> j <= l)
            BY <3>4, <3>5
          <5> QED
            BY <3>2, <5>1, <5>2
        <4>2. Ahead = {j \in DOMAIN list : P + 1 <= j /\ j <= l}
          BY <4>1 DEF Ahead
        <4>3. \A j \in (P + 1)..l : j \in DOMAIN list
          BY <3>4, <3>5
        <4> QED
          BY <3>4, <3>5, <4>2, <4>3
      <3>7. Cardinality(Ahead) = l - P
        <4>1. P + 1 \in Int /\ l \in Int /\ P <= l
          BY <3>4, <3>5
        <4>2. Cardinality((P + 1)..l) = IF P + 1 > l THEN 0 ELSE l - (P + 1) + 1
          BY <4>1, FS_Interval
        <4> QED
          BY <3>4, <3>6, <4>1, <4>2
      <3>8. \A j \in Ahead : j > Position(hw.cur) => j \in DOMAIN list /\ c < j /\ j <= l
        BY <3>2, <3>4, <3>6
      <3> QED
        BY <3>2, <3>5, <3>7, <3>8
    <2>4. NoStrandedWork
      <3> SUFFICES ASSUME sem = None, NEW j \in DOMAIN list, ~run_done[list[j]]
                   PROVE  working /\ linked[list[j]]
        BY DEF NoStrandedWork
      <3>1. l = Len(list) /\ DOMAIN list = 1..Len(list) /\ Len(list) \in Nat
        BY <2>1, <2>2, CloseFacts DEF QueueAt, QueueHeld
      <3>2. d < j /\ j <= l
        BY <2>2, <3>1 DEF QueueAt, QueueCut
      <3> QED
        BY <2>2, <3>1, <3>2 DEF QueueAt, QueueCut
    <2>5. \A n \in Ids : stage[n] = "submitted" => InList(n)
      <3> SUFFICES ASSUME NEW n \in Ids, stage[n] = "submitted" PROVE InList(n)
        OBVIOUS
      <3>1. PICK j \in DOMAIN list : list[j] = n
        BY <2>1, CloseFacts DEF Listed
      <3> QED
        BY <2>1, <3>1, PlaceInQueue
    <2> QED
      BY <2>3, <2>4, <2>5
  <1> QED
    BY <1>1, CloseInvariant, PTL

(* OthersOkMeansRan: "Mark cmdbuf_run_done to 1 for all the cmd buf        *)
(* executed" marks nothing of another file that has not been executed.     *)
THEOREM CloseReportsTruly ==
  ASSUME PlainClose
  PROVE  ExitSpec => []OthersOkMeansRan
  <1>1. ASSUME TimelyInv PROVE OthersOkMeansRan
    BY <1>1 DEF TimelyInv, CloseInv, BufferTells, OthersOkMeansRan
  <1> QED
    BY <1>1, CloseInvariant, PTL

-----------------------------------------------------------------------------

(* Sleeping and waking only delay what the threads and the close do: every *)
(* step of VcmdWaits is one of VcmdExit, or none, so that what is proved   *)
(* of a close holds while others wait for it.                              *)
THEOREM WaitersOnlyWatch == WaitsSpec => ExitSpec
  <1>1. WaitsInit => ExitInit
    BY DEF WaitsInit
  <1>2. [WaitsNext]_allWaitVars => [ExitNext]_allExitVars
    <2> SUFFICES ASSUME WaitsNext PROVE ExitNext \/ UNCHANGED allExitVars
      BY DEF allWaitVars
    <2>1. CASE \E n \in Ids, p \in Prios : ReserveFor(n, p) /\ UNCHANGED waitVars
      BY <2>1 DEF ExitNext
    <2>2. ASSUME NEW n \in Ids, SleepForOne(n) PROVE UNCHANGED allExitVars
      BY <2>2 DEF SleepForOne
    <2>3. ASSUME NEW n \in Ids, n \in Others, Wait(n), UNCHANGED exitVars PROVE ExitNext
      BY <2>3 DEF Others, ClientRuns, Client, ExitNext
    <2>4. ASSUME NEW n \in Ids, ReturnWithOne(n) PROVE ExitNext
      BY <2>3, <2>4 DEF ReturnWithOne, Reported, Submitted
    <2>5. ASSUME NEW n \in Ids, Otherwise(n) PROVE ExitNext
      BY <2>5 DEF Otherwise, ExitNext
    <2>6. CASE SleepForAny
      BY <2>6 DEF SleepForAny
    <2>7. CASE ReturnWithAny
      <3>1. Reported \subseteq Ids /\ Ids \subseteq Nat /\ Reported # {}
        BY <2>7, QueueAssumption DEF Ids, Reported, Submitted, Others, ReturnWithAny
      <3>2. PICK m \in Reported : \A n \in Reported : m <= n
        BY <3>1, NatSetHasMin
      <3>3. Min(Reported) \in Reported
        BY <3>2 DEF Min
      <3> QED
        BY <2>3, <2>7, <3>1, <3>3 DEF ReturnWithAny, Reported, Submitted
    <2>8. CASE HardwareRuns /\ UNCHANGED waitVars
      BY <2>8 DEF ExitNext
    <2>9. CASE InterruptWakes
      BY <2>9 DEF InterruptWakes, ExitNext
    <2>10. CASE \/ (CloseBegin \/ CloseInterrupted \/ CloseGivesUp) /\ UNCHANGED waitVars
                \/ CloseWakes \/ CloseGoesOn
      BY <2>10 DEF CloseWakes, CloseGoesOn, Close, ExitNext
    <2> QED
      BY <2>1, <2>2, <2>4, <2>5, <2>6, <2>7, <2>8, <2>9, <2>10 DEF WaitsNext
  <1> QED
    BY <1>1, <1>2, PTL DEF WaitsSpec, ExitSpec
=============================================================================
