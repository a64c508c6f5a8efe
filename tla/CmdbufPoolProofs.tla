-------------------------- MODULE CmdbufPoolProofs --------------------------
(***************************************************************************)
(* Proofs, for every number of slots, files and threads, that the cmdbuf   *)
(* pool never gives a slot to two holders, that its counter is exact, and  *)
(* hence that the search loop of allocate_cmdbuf always finds a slot.      *)
(*                                                                         *)
(* The inductive invariant is the conjunction of the type invariant, the   *)
(* life cycle of a slot and the exactness of the counter: the counter      *)
(* moves by one in the same step as one word of cmdbuf_used[], which needs *)
(* the life cycle to know the word's old value.                            *)
(***************************************************************************)
EXTENDS CmdbufPool, FiniteSetTheorems, TLAPS

-----------------------------------------------------------------------------
(* A set of natural numbers that is not empty has a least element.         *)
LEMMA NatSetHasMin ==
  ASSUME NEW S \in SUBSET Nat, S # {}
  PROVE  \E m \in S : \A n \in S : m <= n
  <1> DEFINE Less == {ss \in Nat \X Nat : ss[1] < ss[2]}
  <1>1. IsWellFoundedOn(Less, Nat)
    BY NatLessThanWellFounded DEF OpToRel
  <1>2. \A m, n \in Nat : n < m => <<n, m>> \in Less
    OBVIOUS
  <1> HIDE DEF Less
  <1>3. PICK m \in S : \A n \in S : <<n, m>> \notin Less
    BY <1>1, WFMin
  <1>4. \A n \in S : n \in Nat /\ m \in Nat /\ ~(n < m)
    BY <1>2, <1>3
  <1>5. ASSUME NEW n \in S PROVE m <= n
    <2>1. n \in Nat /\ m \in Nat /\ ~(n < m)
      BY <1>4
    <2> QED
      BY <2>1
  <1> QED
    BY <1>5

-----------------------------------------------------------------------------
(* Sums.  The operator folds a recursive function over the subsets of the  *)
(* set.  That it exists, that the order of the elements does not matter    *)
(* and that only their weights do is shown by taking a smallest set for    *)
(* which it fails.                                                         *)

(* the element the fold takes next *)
Chosen(T) == CHOOSE x \in T : TRUE

(* what the recursion says of its function, and says of small subsets *)
IsFold(g, w, S) ==
  g = [T \in SUBSET S |-> IF T = {} THEN 0 ELSE w[Chosen(T)] + g[T \ {Chosen(T)}]]

IsFoldUpTo(g, w, S, n) ==
  \A T \in SUBSET S : Cardinality(T) <= n =>
    g[T] = IF T = {} THEN 0 ELSE w[Chosen(T)] + g[T \ {Chosen(T)}]

(* The sum of the community modules is the value of such a function.       *)
LEMMA SumIsFold ==
  ASSUME NEW w, NEW S
  PROVE SumFunctionOnSet(w, S) = (CHOOSE g : IsFold(g, w, S))[S]
  BY DEF SumFunctionOnSet, FoldFunctionOnSet, MapThenFoldSet, IsFold, Chosen

(* A set without its first element has one element less.                   *)
LEMMA OneLess ==
  ASSUME NEW T, IsFiniteSet(T), NEW x \in T
  PROVE  /\ IsFiniteSet(T \ {x})
         /\ Cardinality(T) \in Nat /\ Cardinality(T \ {x}) \in Nat
         /\ Cardinality(T \ {x}) = Cardinality(T) - 1
  BY FS_RemoveElement, FS_CardinalityType

(* The first element of a set that is not empty is one of its elements.    *)
LEMMA ChosenIn == \A T : T # {} => Chosen(T) \in T
  BY DEF Chosen

(* The function exists on the subsets of any finite set: built from those  *)
(* with few elements to those with more.                                   *)
LEMMA FoldExists ==
  ASSUME NEW S, IsFiniteSet(S), NEW w
  PROVE  \E g : IsFold(g, w, S)
  <1> DEFINE Bad == {n \in Nat : ~\E g : IsFoldUpTo(g, w, S, n)}
  <1> DEFINE Grown(g) == [T \in SUBSET S |->
                    IF T = {} THEN 0 ELSE w[Chosen(T)] + g[T \ {Chosen(T)}]]
  <1>0. \A T \in SUBSET S : IsFiniteSet(T) /\ Cardinality(T) \in Nat
    BY FS_Subset, FS_CardinalityType
  <1>1. Bad = {}
    <2> SUFFICES ASSUME Bad # {} PROVE FALSE
      OBVIOUS
    <2>1. PICK m \in Bad : \A n \in Bad : m <= n
      <3>1. Bad \in SUBSET Nat
        OBVIOUS
      <3> HIDE DEF Bad
      <3> QED
        BY <3>1, NatSetHasMin
    <2>2. m \in Nat /\ ~\E g : IsFoldUpTo(g, w, S, m)
      OBVIOUS
    <2>3. CASE m = 0
      <3>1. \A T \in SUBSET S : Cardinality(T) <= 0 => T = {}
        BY <1>0, FS_EmptySet
      <3>2. IsFoldUpTo([T \in SUBSET S |-> 0], w, S, m)
        BY <2>3, <3>1 DEF IsFoldUpTo
      <3> QED
        BY <2>2, <3>2
    <2>4. CASE m # 0
      <3>1. m - 1 \in Nat /\ m - 1 \notin Bad
        BY <2>1, <2>2, <2>4
      <3>2. PICK g : IsFoldUpTo(g, w, S, m - 1)
        BY <3>1
      <3>3. ASSUME NEW T \in SUBSET S, Cardinality(T) <= m, T # {}
            PROVE  Grown(g)[T] = w[Chosen(T)] + Grown(g)[T \ {Chosen(T)}]
        <4> DEFINE R == T \ {Chosen(T)}
        <4>1. R \in SUBSET S /\ Cardinality(R) <= m - 1
          BY <1>0, <2>2, <3>3, ChosenIn, OneLess
        <4>2. Grown(g)[R] = g[R]
          BY <3>2, <4>1 DEF IsFoldUpTo
        <4> QED
          BY <3>3, <4>2
      <3>4. \A T \in SUBSET S : T = {} => Grown(g)[T] = 0
        OBVIOUS
      <3>5. IsFoldUpTo(Grown(g), w, S, m)
        <4> HIDE DEF Grown
        <4> QED
          BY <3>3, <3>4 DEF IsFoldUpTo
      <3> QED
        BY <2>2, <3>5
    <2> QED
      BY <2>3, <2>4
  <1>2. PICK g : IsFoldUpTo(g, w, S, Cardinality(S))
    BY <1>0, <1>1
  <1>3. \A T \in SUBSET S : Cardinality(T) <= Cardinality(S)
    BY FS_Subset
  <1>4. \A T \in SUBSET S : g[T] = Grown(g)[T]
    BY <1>2, <1>3 DEF IsFoldUpTo
  <1>5. IsFold(Grown(g), w, S)
    <2>1. \A T \in SUBSET S : T \ {Chosen(T)} \in SUBSET S
      OBVIOUS
    <2> HIDE <1>4
    <2>2. \A T \in SUBSET S : Grown(g)[T \ {Chosen(T)}] = g[T \ {Chosen(T)}]
      BY <1>4, <2>1
    <2> QED
      BY <2>2 DEF IsFold
  <1> QED
    BY <1>5

(* Two such functions agree on a set their weights agree on.               *)
LEMMA FoldsAgree ==
  ASSUME NEW S, NEW R, NEW v, NEW w, NEW g, NEW h,
         IsFold(g, v, S), IsFold(h, w, R),
         NEW T, IsFiniteSet(T), T \subseteq S, T \subseteq R,
         \A x \in T : v[x] = w[x]
  PROVE  g[T] = h[T]
  <1> DEFINE Bad == {n \in Nat : \E Q \in SUBSET T : Cardinality(Q) = n /\ g[Q] # h[Q]}
  <1>0. \A Q \in SUBSET T : IsFiniteSet(Q) /\ Cardinality(Q) \in Nat
    BY FS_Subset, FS_CardinalityType
  <1>1. Bad = {}
    <2> SUFFICES ASSUME Bad # {} PROVE FALSE
      OBVIOUS
    <2>1. PICK m \in Bad : \A n \in Bad : m <= n
      <3>1. Bad \in SUBSET Nat
        OBVIOUS
      <3> HIDE DEF Bad
      <3> QED
        BY <3>1, NatSetHasMin
    <2>2. PICK Q \in SUBSET T : Cardinality(Q) = m /\ g[Q] # h[Q]
      OBVIOUS
    <2>3. Q \in SUBSET S /\ Q \in SUBSET R
      OBVIOUS
    <2>4. CASE Q = {}
      BY <2>2, <2>3, <2>4 DEF IsFold
    <2>5. CASE Q # {}
      <3>1. PICK x \in Q : x = Chosen(Q)
        BY <2>5, ChosenIn
      <3>2. Q \ {x} \in SUBSET T /\ Cardinality(Q \ {x}) \in Nat /\ ~(m <= Cardinality(Q \ {x}))
        BY <1>0, <2>2, <3>1, OneLess
      <3>3. g[Q \ {x}] = h[Q \ {x}]
        BY <2>1, <3>2
      <3>4. g[Q] = v[x] + g[Q \ {x}]
        BY <2>3, <2>5, <3>1 DEF IsFold
      <3>5. h[Q] = w[x] + h[Q \ {x}]
        BY <2>3, <2>5, <3>1 DEF IsFold
      <3> QED
        BY <2>2, <3>1, <3>3, <3>4, <3>5
    <2> QED
      BY <2>4, <2>5
  <1>2. Cardinality(T) \notin Bad
    BY <1>1
  <1> QED
    BY <1>0, <1>2

(* A sum depends on the summands alone.                                    *)
LEMMA SumAgrees ==
  ASSUME NEW S, IsFiniteSet(S), NEW v, NEW w, \A x \in S : v[x] = w[x]
  PROVE  SumFunctionOnSet(v, S) = SumFunctionOnSet(w, S)
  <1>1. IsFold(CHOOSE g : IsFold(g, v, S), v, S)
    BY FoldExists
  <1>2. IsFold(CHOOSE g : IsFold(g, w, S), w, S)
    BY FoldExists
  <1> QED
    BY <1>1, <1>2, FoldsAgree, SumIsFold

(* The empty sum is zero.                                                  *)
LEMMA SumEmpty == \A w : SumFunctionOnSet(w, {}) = 0
  <1> TAKE w
  <1>1. IsFiniteSet({})
    BY FS_EmptySet
  <1>2. PICK g : g = (CHOOSE f : IsFold(f, w, {})) /\ IsFold(g, w, {})
    BY <1>1, FoldExists
  <1>3. g[{}] = 0
    BY <1>2 DEF IsFold
  <1> QED
    BY <1>2, <1>3, SumIsFold

(* The sum of a set is its first element's weight and the sum of the rest. *)
LEMMA SumUnfold ==
  ASSUME NEW S, IsFiniteSet(S), S # {}, NEW w
  PROVE  SumFunctionOnSet(w, S) = w[Chosen(S)] + SumFunctionOnSet(w, S \ {Chosen(S)})
  <1>1. PICK x \in S : x = Chosen(S)
    BY ChosenIn
  <1>2. PICK g : g = (CHOOSE f : IsFold(f, w, S)) /\ IsFold(g, w, S)
    BY FoldExists
  <1>3. IsFiniteSet(S \ {x})
    BY FS_RemoveElement
  <1>4. PICK h : h = (CHOOSE f : IsFold(f, w, S \ {x})) /\ IsFold(h, w, S \ {x})
    BY <1>3, FoldExists
  <1>5. g[S \ {x}] = h[S \ {x}]
    BY <1>2, <1>3, <1>4, FoldsAgree
  <1>6. g[S] = w[x] + g[S \ {x}]
    BY <1>1, <1>2 DEF IsFold
  <1> QED
    BY <1>1, <1>2, <1>4, <1>5, <1>6, SumIsFold

(* The sum of integers is an integer, and any element can be taken out.    *)
LEMMA SumSplit ==
  ASSUME NEW S, IsFiniteSet(S), NEW w, \A x \in S : w[x] \in Int
  PROVE  /\ SumFunctionOnSet(w, S) \in Int
         /\ \A x \in S : SumFunctionOnSet(w, S) = w[x] + SumFunctionOnSet(w, S \ {x})
  <1> DEFINE Good(T) ==
        /\ SumFunctionOnSet(w, T) \in Int
        /\ \A x \in T : SumFunctionOnSet(w, T) = w[x] + SumFunctionOnSet(w, T \ {x})
  <1> DEFINE Bad == {n \in Nat : \E Q \in SUBSET S : Cardinality(Q) = n /\ ~Good(Q)}
  <1>0. \A Q \in SUBSET S : IsFiniteSet(Q) /\ Cardinality(Q) \in Nat
    BY FS_Subset, FS_CardinalityType
  <1>1. Bad = {}
    <2> SUFFICES ASSUME Bad # {} PROVE FALSE
      OBVIOUS
    <2>1. PICK m \in Bad : \A n \in Bad : m <= n
      <3>1. Bad \in SUBSET Nat
        OBVIOUS
      <3> HIDE DEF Bad
      <3> QED
        BY <3>1, NatSetHasMin
    <2>2. PICK Q \in SUBSET S : Cardinality(Q) = m /\ ~Good(Q)
      OBVIOUS
    <2>3. ASSUME NEW x \in Q PROVE Good(Q \ {x})
      <3>1. Q \ {x} \in SUBSET S /\ Cardinality(Q \ {x}) \in Nat /\ ~(m <= Cardinality(Q \ {x}))
        BY <1>0, <2>2, OneLess
      <3> QED
        BY <2>1, <3>1
    <2>4. CASE Q = {}
      BY <2>2, <2>4, SumEmpty
    <2>5. CASE Q # {}
      <3>1. PICK c \in Q : c = Chosen(Q)
        BY <2>5, ChosenIn
      <3>2. SumFunctionOnSet(w, Q) = w[c] + SumFunctionOnSet(w, Q \ {c})
        BY <1>0, <2>5, <3>1, SumUnfold
      <3>3. w[c] \in Int /\ SumFunctionOnSet(w, Q \ {c}) \in Int
        BY <2>3
      <3>4. ASSUME NEW x \in Q, x # c
            PROVE  SumFunctionOnSet(w, Q) = w[x] + SumFunctionOnSet(w, Q \ {x})
        <4> DEFINE B == (Q \ {c}) \ {x}
        <4>1. SumFunctionOnSet(w, Q \ {c}) = w[x] + SumFunctionOnSet(w, B)
          BY <2>3, <3>4
        <4>2. Good(Q \ {x}) /\ Good(Q \ {c}) /\ c \in Q \ {x}
          BY <2>3, <3>4
        <4>3. (Q \ {x}) \ {c} = B
          OBVIOUS
        <4>4. SumFunctionOnSet(w, Q \ {x}) = w[c] + SumFunctionOnSet(w, B)
          BY <4>2, <4>3
        <4>5. Good(B)
          <5>1. B \in SUBSET S /\ Cardinality(B) \in Nat /\ ~(m <= Cardinality(B))
            <6>1. Q \ {c} \in SUBSET S /\ x \in Q \ {c}
              BY <3>4
            <6>2. Cardinality(Q \ {c}) = m - 1 /\ m \in Nat
              BY <1>0, <2>2, OneLess
            <6>3. Cardinality(B) = Cardinality(Q \ {c}) - 1 /\ Cardinality(B) \in Nat
              BY <1>0, <6>1, OneLess
            <6> QED
              BY <6>1, <6>2, <6>3
          <5> QED
            BY <2>1, <5>1
        <4>6. SumFunctionOnSet(w, B) \in Int /\ w[x] \in Int
          BY <4>5, <3>4
        <4> HIDE DEF B, Good
        <4> QED
          BY <3>2, <3>3, <4>1, <4>4, <4>6
      <3>5. SumFunctionOnSet(w, Q) \in Int
        BY <3>2, <3>3
      <3>6. Good(Q)
        BY <3>2, <3>4, <3>5
      <3> QED
        BY <2>2, <3>6
    <2> QED
      BY <2>4, <2>5
  <1>2. Cardinality(S) \notin Bad
    BY <1>1
  <1> QED
    BY <1>0, <1>2

-----------------------------------------------------------------------------
(* The slots.                                                              *)
Unused(u) == {s \in Slots : ~u[s]}

(* Every set of slots is finite.                                           *)
LEMMA SlotsFinite ==
  /\ IsFiniteSet(Slots)
  /\ \A S \in SUBSET Slots : IsFiniteSet(S)
  <1>1. IsFiniteSet(Slots)
    BY FS_Interval, PoolAssumption DEF Slots
  <1> QED
    BY <1>1, FS_Subset

(* Taking a free slot removes one word of 0, whatever the others hold.     *)
LEMMA UnusedAfterTake ==
  ASSUME NEW u \in [Slots -> BOOLEAN], NEW s \in Slots, ~u[s]
  PROVE  Cardinality(Unused([u EXCEPT ![s] = TRUE])) = Cardinality(Unused(u)) - 1
  <1>1. Unused([u EXCEPT ![s] = TRUE]) = Unused(u) \ {s}
    BY DEF Unused
  <1>2. IsFiniteSet(Unused(u)) /\ s \in Unused(u)
    BY SlotsFinite DEF Unused
  <1> QED
    BY <1>1, <1>2, FS_RemoveElement

(* Returning a used slot adds one word of 0.                               *)
LEMMA UnusedAfterReturn ==
  ASSUME NEW u \in [Slots -> BOOLEAN], NEW s \in Slots, u[s]
  PROVE  Cardinality(Unused([u EXCEPT ![s] = FALSE])) = Cardinality(Unused(u)) + 1
  <1>1. Unused([u EXCEPT ![s] = FALSE]) = Unused(u) \cup {s}
    BY DEF Unused
  <1>2. IsFiniteSet(Unused(u)) /\ s \notin Unused(u)
    BY SlotsFinite DEF Unused
  <1> QED
    BY <1>1, <1>2, FS_AddElement
-----------------------------------------------------------------------------
(* Types: no step stores a value outside its variable's domain; the cursor *)
(* stays an index of the arrays.                                           *)
LEMMA TypeInit == Init => TypeOK
  BY PoolAssumption DEF Init, TypeOK, Slots, NoSlot

(* Every action keeps the types; the error path of create_cmdbuf_node also *)
(* needs that the thread holds a slot.                                     *)
LEMMA TypeStep == TypeOK /\ SlotLifecycle /\ [Next]_vars => TypeOK'
  <1> SUFFICES ASSUME TypeOK, SlotLifecycle, [Next]_vars PROVE TypeOK'
    OBVIOUS
  <1> USE PoolAssumption
  <1>1. ASSUME NEW t \in Threads, NEW cost \in Costs, ReserveEnter(t, cost)
        PROVE  TypeOK'
    BY <1>1 DEF TypeOK, ReserveEnter, slotVars
  <1>2. ASSUME NEW t \in Threads, BudgetReady(t) PROVE TypeOK'
    BY <1>2 DEF TypeOK, BudgetReady, slotVars, budgetVars
  <1>3. ASSUME NEW t \in Threads, allocate_cmdbuf(t) PROVE TypeOK'
    BY <1>3 DEF TypeOK, allocate_cmdbuf, budgetVars, Successor, Slots, NoSlot
  <1>4. ASSUME NEW t \in Threads, WaitInterrupted(t) PROVE TypeOK'
    BY <1>4 DEF TypeOK, WaitInterrupted, slotVars, budgetVars
  <1>5. ASSUME NEW t \in Threads, create_cmdbuf_node_fails(t) PROVE TypeOK'
    <2>1. used' \in [Slots -> BOOLEAN]
      BY <1>5 DEF TypeOK, create_cmdbuf_node_fails
    <2>2. /\ residual' \in Int
          /\ held' \in [Threads -> Slots \cup {NoSlot}]
          /\ pc' \in [Threads -> {"idle", "budget", "slot", "create"}]
          /\ failures' \in 0..MaxFailures
      BY <1>5 DEF TypeOK, create_cmdbuf_node_fails
    <2> QED
      BY <1>5, <2>1, <2>2 DEF TypeOK, create_cmdbuf_node_fails, budgetVars
  <1>6. ASSUME NEW t \in Threads, PublishNode(t) PROVE TypeOK'
    BY <1>6 DEF TypeOK, PublishNode, budgetVars
  <1>7. ASSUME NEW f \in Procs, NEW s \in Slots, UnpublishNode(f, s)
        PROVE  TypeOK'
    BY <1>7 DEF TypeOK, UnpublishNode
  <1>8. ASSUME NEW s \in Slots, free_cmdbuf_mem(s) PROVE TypeOK'
    BY <1>8 DEF TypeOK, free_cmdbuf_mem, budgetVars
  <1>9. CASE UNCHANGED vars
    BY <1>9 DEF TypeOK, vars
  <1> QED
    BY <1>1, <1>2, <1>3, <1>4, <1>5, <1>6, <1>7, <1>8, <1>9 DEF Next
-----------------------------------------------------------------------------
(* After probe ids 0 and 1 are taken and every other slot is free.         *)
LEMMA LifecycleInit == Init => SlotLifecycle
  <1> SUFFICES ASSUME Init PROVE SlotLifecycle
    OBVIOUS
  <1> USE PoolAssumption
  <1>1. \A s \in Slots : used[s] <=> s \in {0, 1}
    BY DEF Init
  <1>2. 0 \in Slots /\ 1 \in Slots /\ NoSlot \notin {0, 1}
    BY DEF Slots, NoSlot
  <1>3. FreeMeansUnused /\ FreeingIsUnpublished
    BY <1>1 DEF Init, FreeMeansUnused, FreeingIsUnpublished
  <1>4. HeldIsPrivate
    BY DEF Init, HeldIsPrivate
  <1>5. Reserved
    BY <1>1, <1>2 DEF Init, Reserved
  <1> QED
    BY <1>3, <1>4, <1>5 DEF SlotLifecycle

(* No action gives a slot a second holder: allocate_cmdbuf takes one that  *)
(* nobody holds, and free_cmdbuf_mem returns one that is out of the table. *)
LEMMA LifecycleStep == TypeOK /\ SlotLifecycle /\ [Next]_vars => SlotLifecycle'
  <1> SUFFICES ASSUME TypeOK, SlotLifecycle, [Next]_vars PROVE SlotLifecycle'
    OBVIOUS
  <1> USE PoolAssumption DEF SlotLifecycle
  <1>1. ASSUME NEW t \in Threads, NEW cost \in Costs, ReserveEnter(t, cost)
        PROVE  SlotLifecycle'
    BY <1>1 DEF TypeOK, ReserveEnter, slotVars, FreeMeansUnused, HeldIsPrivate,
                FreeingIsUnpublished, Reserved
  <1>2. ASSUME NEW t \in Threads, BudgetReady(t) PROVE SlotLifecycle'
    BY <1>2 DEF TypeOK, BudgetReady, slotVars, FreeMeansUnused, HeldIsPrivate,
                FreeingIsUnpublished, Reserved
  <1>3. ASSUME NEW t \in Threads, allocate_cmdbuf(t) PROVE SlotLifecycle'
    <2> PICK s \in Slots : /\ FirstFree(s)
                           /\ used' = [used EXCEPT ![s] = TRUE]
                           /\ held' = [held EXCEPT ![t] = s]
      BY <1>3 DEF allocate_cmdbuf
    <2>1. ~used[s] /\ node[s] = NoNode /\ s \notin freeing /\ s # NoSlot
      BY DEF FirstFree, FreeSlots, FreeMeansUnused, Slots, NoSlot
    <2>2. s \notin {0, 1}
      BY <2>1 DEF Reserved
    <2>3. UNCHANGED <<node, freeing>> /\ pc' = [pc EXCEPT ![t] = "create"]
      BY <1>3 DEF allocate_cmdbuf
    <2>4. \A u \in Threads : held[u] # s
      BY <2>1 DEF HeldIsPrivate
    <2>5. FreeMeansUnused'
      BY <2>1, <2>3 DEF TypeOK, FreeMeansUnused
    <2>6. HeldIsPrivate'
      BY <2>1, <2>3, <2>4 DEF TypeOK, HeldIsPrivate, NoSlot
    <2>7. FreeingIsUnpublished'
      BY <2>1, <2>3 DEF TypeOK, FreeingIsUnpublished
    <2>8. Reserved'
      BY <2>1, <2>2, <2>3 DEF TypeOK, Reserved, Slots
    <2> QED
      BY <2>5, <2>6, <2>7, <2>8
  <1>4. ASSUME NEW t \in Threads, WaitInterrupted(t) PROVE SlotLifecycle'
    BY <1>4 DEF TypeOK, WaitInterrupted, slotVars, FreeMeansUnused, HeldIsPrivate,
                FreeingIsUnpublished, Reserved
  <1>5. ASSUME NEW t \in Threads, create_cmdbuf_node_fails(t) PROVE SlotLifecycle'
    BY <1>5 DEF TypeOK, create_cmdbuf_node_fails, FreeMeansUnused, HeldIsPrivate,
                FreeingIsUnpublished, Reserved, Slots, NoSlot
  <1>6. ASSUME NEW t \in Threads, PublishNode(t) PROVE SlotLifecycle'
    BY <1>6 DEF TypeOK, PublishNode, FreeMeansUnused, HeldIsPrivate,
                FreeingIsUnpublished, Reserved, Slots, NoSlot
  <1>7. ASSUME NEW f \in Procs, NEW s \in Slots, UnpublishNode(f, s)
        PROVE  SlotLifecycle'
    BY <1>7 DEF TypeOK, UnpublishNode, FreeMeansUnused, HeldIsPrivate,
                FreeingIsUnpublished, Reserved, Slots, NoSlot
  <1>8. ASSUME NEW s \in Slots, free_cmdbuf_mem(s) PROVE SlotLifecycle'
    <2>1. s \notin {0, 1} /\ node[s] = NoNode /\ \A t \in Threads : held[t] # s
      <3>1. s \in freeing /\ s # NoSlot
        BY <1>8 DEF free_cmdbuf_mem, Slots, NoSlot
      <3>2. s \notin {0, 1}
        BY <3>1 DEF Reserved
      <3>3. node[s] = NoNode
        BY <3>1 DEF FreeingIsUnpublished
      <3>4. \A t \in Threads : held[t] # s
        BY <3>1 DEF HeldIsPrivate
      <3> QED
        BY <3>2, <3>3, <3>4
    <2>2. used' = [used EXCEPT ![s] = FALSE] /\ freeing' = freeing \ {s}
      BY <1>8 DEF free_cmdbuf_mem
    <2>3. UNCHANGED <<node, pc, held>>
      BY <1>8 DEF free_cmdbuf_mem, budgetVars
    <2>4. FreeMeansUnused'
      BY <2>1, <2>2, <2>3 DEF TypeOK, FreeMeansUnused
    <2>5. HeldIsPrivate'
      BY <2>1, <2>2, <2>3 DEF TypeOK, HeldIsPrivate
    <2>6. FreeingIsUnpublished'
      BY <2>2, <2>3 DEF TypeOK, FreeingIsUnpublished
    <2>7. Reserved'
      BY <2>1, <2>2, <2>3 DEF TypeOK, Reserved, Slots
    <2> QED
      BY <2>4, <2>5, <2>6, <2>7
  <1>9. CASE UNCHANGED vars
    BY <1>9 DEF vars, FreeMeansUnused, HeldIsPrivate, FreeingIsUnpublished, Reserved
  <1> QED
    BY <1>1, <1>2, <1>3, <1>4, <1>5, <1>6, <1>7, <1>8, <1>9 DEF Next
-----------------------------------------------------------------------------
(* After probe the counter is N - 2: all slots but 0 and 1.                *)
LEMMA ResidualInit == Init => ResidualExact
  <1> SUFFICES ASSUME Init PROVE ResidualExact
    OBVIOUS
  <1>1. {s \in Slots : ~used[s]} = 2..(N - 1)
    <2>1. \A s \in Slots : used[s] <=> s \in {0, 1}
      BY DEF Init
    <2>2. {s \in Slots : ~used[s]} = {s \in Slots : s \notin {0, 1}}
      BY <2>1, Zenon
    <2>3. {s \in Slots : s \notin {0, 1}} = 2..(N - 1)
      BY PoolAssumption DEF Slots
    <2> QED
      BY <2>2, <2>3
  <1>2. Cardinality(2..(N - 1)) = N - 2
    BY FS_Interval, PoolAssumption
  <1> QED
    BY <1>1, <1>2 DEF Init, ResidualExact

(* The counter moves with the word it counts, in the same step.            *)
LEMMA ResidualStep ==
  TypeOK /\ SlotLifecycle /\ ResidualExact /\ [Next]_vars => ResidualExact'
  <1> SUFFICES ASSUME TypeOK, SlotLifecycle, ResidualExact, [Next]_vars
               PROVE  ResidualExact'
    OBVIOUS
  <1> USE DEF ResidualExact
  <1>1. ASSUME UNCHANGED <<used, residual>> PROVE ResidualExact'
    BY <1>1
  <1>2. ASSUME NEW t \in Threads, allocate_cmdbuf(t) PROVE ResidualExact'
    <2> PICK s \in Slots : FirstFree(s) /\ used' = [used EXCEPT ![s] = TRUE]
      BY <1>2 DEF allocate_cmdbuf
    <2>1. ~used[s] /\ used \in [Slots -> BOOLEAN]
      BY DEF FirstFree, FreeSlots, TypeOK
    <2>2. Cardinality(Unused(used')) = Cardinality(Unused(used)) - 1
      BY <2>1, UnusedAfterTake
    <2> QED
      BY <1>2, <2>2 DEF allocate_cmdbuf, Unused
  <1>3. ASSUME NEW s \in Slots, used[s], used' = [used EXCEPT ![s] = FALSE],
               residual' = residual + 1
        PROVE  ResidualExact'
    <2>1. Cardinality(Unused(used')) = Cardinality(Unused(used)) + 1
      BY <1>3, UnusedAfterReturn DEF TypeOK
    <2> QED
      BY <1>3, <2>1 DEF Unused
  <1>4. ASSUME NEW t \in Threads, create_cmdbuf_node_fails(t) PROVE ResidualExact'
    <2>1. held[t] \in Slots /\ used[held[t]]
      BY <1>4 DEF TypeOK, SlotLifecycle, HeldIsPrivate, create_cmdbuf_node_fails
    <2> QED
      BY <1>3, <1>4, <2>1 DEF create_cmdbuf_node_fails
  <1>5. ASSUME NEW s \in Slots, free_cmdbuf_mem(s) PROVE ResidualExact'
    <2>1. used[s]
      BY <1>5 DEF SlotLifecycle, FreeingIsUnpublished, free_cmdbuf_mem
    <2> QED
      BY <1>3, <1>5, <2>1 DEF free_cmdbuf_mem
  <1>6. CASE UNCHANGED vars
    BY <1>1, <1>6 DEF vars
  <1> QED
    BY <1>1, <1>2, <1>4, <1>5, <1>6
    DEF Next, ReserveEnter, BudgetReady, WaitInterrupted, PublishNode,
        UnpublishNode, slotVars
-----------------------------------------------------------------------------
(* The sums of the budget: what one change of a weight or of the set does. *)
Waiting == {"budget", "slot", "create"}

(* A sum that one new element enters.                                      *)
LEMMA SumGains ==
  ASSUME NEW S, IsFiniteSet(S), NEW x, x \notin S, NEW v, NEW w,
         \A y \in S : v[y] = w[y], \A y \in S : w[y] \in Int, v[x] \in Int
  PROVE  SumFunctionOnSet(v, S \cup {x}) = SumFunctionOnSet(w, S) + v[x]
  <1>1. IsFiniteSet(S \cup {x}) /\ (S \cup {x}) \ {x} = S
    BY FS_AddElement
  <1>2. SumFunctionOnSet(v, S \cup {x}) = v[x] + SumFunctionOnSet(v, S)
    BY <1>1, SumSplit
  <1>3. SumFunctionOnSet(v, S) = SumFunctionOnSet(w, S)
    BY SumAgrees
  <1>4. SumFunctionOnSet(w, S) \in Int
    BY SumSplit
  <1> QED
    BY <1>2, <1>3, <1>4

(* A sum that one element leaves, whatever becomes of its weight.          *)
LEMMA SumLoses ==
  ASSUME NEW S, IsFiniteSet(S), NEW x \in S, NEW v, NEW w,
         \A y \in S \ {x} : v[y] = w[y], \A y \in S : w[y] \in Int
  PROVE  SumFunctionOnSet(v, S \ {x}) = SumFunctionOnSet(w, S) - w[x]
  <1>1. IsFiniteSet(S \ {x})
    BY FS_RemoveElement
  <1>2. SumFunctionOnSet(w, S) = w[x] + SumFunctionOnSet(w, S \ {x})
    BY SumSplit
  <1>3. SumFunctionOnSet(v, S \ {x}) = SumFunctionOnSet(w, S \ {x})
    BY <1>1, SumAgrees
  <1>4. SumFunctionOnSet(w, S \ {x}) \in Int /\ w[x] \in Int
    BY <1>1, SumSplit
  <1> QED
    BY <1>2, <1>3, <1>4

(* The sets summed over are finite and the sums are integers.              *)
LEMMA BudgetSets ==
  ASSUME TypeOK, NEW f \in Procs
  PROVE  /\ IsFiniteSet(Live(f)) /\ IsFiniteSet(Within(f, Waiting))
         /\ \A s \in Live(f) : exe_time[s] \in Int
         /\ \A t \in Within(f, Waiting) : request[t] \in Int
         /\ LiveCost(f) \in Int /\ CostWithin(f, Waiting) \in Int /\ total[f] \in Int
  <1>1. IsFiniteSet(Live(f)) /\ IsFiniteSet(Within(f, Waiting))
    BY SlotsFinite, PoolAssumption, FS_Subset DEF Live, Within
  <1>2. /\ \A s \in Live(f) : exe_time[s] \in Int
        /\ \A t \in Within(f, Waiting) : request[t] \in Int
    BY DEF TypeOK, Live, Within
  <1> QED
    BY <1>1, <1>2, SumSplit DEF LiveCost, CostWithin, TypeOK

(* A file is charged nothing before it reserves.                           *)
LEMMA BudgetInit == Init => BudgetCovers
  <1> SUFFICES ASSUME Init, NEW f \in Procs
               PROVE  total[f] = 0 /\ LiveCost(f) = 0 /\ CostWithin(f, Waiting) = 0
    BY DEF BudgetCovers, Waiting
  <1>1. Live(f) = {}
    BY PoolAssumption DEF Init, Live
  <1>2. Within(f, Waiting) = {}
    BY DEF Init, Within, Waiting
  <1> QED
    BY <1>1, <1>2, SumEmpty DEF Init, LiveCost, CostWithin

(* What a step must do for a file's budget to stay right.                  *)
BudgetOf(f) ==
    LET spent == LiveCost(f) + CostWithin(f, Waiting)
    IN  total[f] >= spent /\ (failures = 0 => total[f] = spent)

(* The charge of one thread's request leaves the sum while the total       *)
(* keeps it: this is what an interrupted wait or a failed vmalloc does.    *)
LEMMA ChargeKept ==
  ASSUME TypeOK, BudgetCovers, NEW t \in Threads, pc[t] \in Waiting,
         failures' = failures + 1, pc' = [pc EXCEPT ![t] = "idle"],
         UNCHANGED <<node, exe_time, total, request>>,
         NEW f \in Procs
  PROVE  BudgetOf(f)'
  <1>1. LiveCost(f)' = LiveCost(f)
    BY DEF LiveCost, Live
  <1>2. CostWithin(f, Waiting)' = CostWithin(f, Waiting) - (IF FilpOf[t] = f THEN request[t] ELSE 0)
    <2>1. CASE FilpOf[t] = f
      <3>1. Within(f, Waiting)' = Within(f, Waiting) \ {t} /\ t \in Within(f, Waiting)
        BY <2>1 DEF Within, Waiting, TypeOK
      <3>2. IsFiniteSet(Within(f, Waiting)) /\ \A u \in Within(f, Waiting) : request[u] \in Int
        BY BudgetSets
      <3>3. SumFunctionOnSet(request, Within(f, Waiting) \ {t})
              = SumFunctionOnSet(request, Within(f, Waiting)) - request[t]
        BY <3>1, <3>2, SumLoses
      <3> QED
        BY <2>1, <3>1, <3>3 DEF CostWithin
    <2>2. CASE FilpOf[t] # f
      <3>1. Within(f, Waiting)' = Within(f, Waiting)
        BY <2>2 DEF Within, TypeOK
      <3> QED
        BY <2>2, <3>1, BudgetSets DEF CostWithin
    <2> QED
      BY <2>1, <2>2
  <1>3. total[f] >= LiveCost(f) + CostWithin(f, Waiting)
    BY DEF BudgetCovers, Waiting
  <1>4. failures \in Nat /\ request[t] \in Nat
    BY PoolAssumption DEF TypeOK
  <1>5. LiveCost(f) \in Int /\ CostWithin(f, Waiting) \in Int /\ total[f] \in Int
    BY BudgetSets
  <1> QED
    BY <1>1, <1>2, <1>3, <1>4, <1>5 DEF BudgetOf

(* A request is charged with the step that adds it to those under way.     *)
LEMMA ChargeEnters ==
  ASSUME TypeOK, BudgetCovers, NEW t \in Threads, NEW cost \in Costs,
         ReserveEnter(t, cost), NEW f \in Procs
  PROVE  BudgetOf(f)'
  <1>1. LiveCost(f)' = LiveCost(f) /\ failures' = failures
    BY DEF LiveCost, Live, ReserveEnter, slotVars
  <1>2. /\ total' = [total EXCEPT ![FilpOf[t]] = @ + cost]
        /\ request' = [request EXCEPT ![t] = cost]
        /\ pc' = [pc EXCEPT ![t] = "budget"] /\ pc[t] = "idle"
    BY DEF ReserveEnter
  <1>3. request \in [Threads -> Nat] /\ total \in [Procs -> Int] /\ cost \in Nat
        /\ pc \in [Threads -> {"idle", "budget", "slot", "create"}]
    BY PoolAssumption DEF TypeOK
  <1>4. LiveCost(f) \in Int /\ CostWithin(f, Waiting) \in Int /\ total[f] \in Int
    BY BudgetSets
  <1>5. total[f] >= LiveCost(f) + CostWithin(f, Waiting)
        /\ (failures = 0 => total[f] = LiveCost(f) + CostWithin(f, Waiting))
    BY DEF BudgetCovers, Waiting
  <1>6. CASE FilpOf[t] = f
    <2>1. Within(f, Waiting)' = Within(f, Waiting) \cup {t} /\ t \notin Within(f, Waiting)
      BY <1>2, <1>3, <1>6 DEF Within, Waiting
    <2>2. /\ \A u \in Within(f, Waiting) : request'[u] = request[u]
          /\ request'[t] = cost /\ cost \in Int
      BY <1>2, <1>3, <2>1 DEF Within
    <2>3. IsFiniteSet(Within(f, Waiting)) /\ \A u \in Within(f, Waiting) : request[u] \in Int
      BY BudgetSets
    <2>4. CostWithin(f, Waiting)' = CostWithin(f, Waiting) + cost
      BY <2>1, <2>2, <2>3, SumGains DEF CostWithin
    <2>5. total'[f] = total[f] + cost
      BY <1>2, <1>3, <1>6
    <2> QED
      BY <1>1, <1>3, <1>4, <1>5, <2>4, <2>5 DEF BudgetOf
  <1>7. CASE FilpOf[t] # f
    <2>1. Within(f, Waiting)' = Within(f, Waiting) /\ t \notin Within(f, Waiting)
      BY <1>2, <1>3, <1>7 DEF Within, Waiting
    <2>2. \A u \in Within(f, Waiting) : request'[u] = request[u]
      BY <1>2, <1>3, <2>1 DEF Within
    <2>3. CostWithin(f, Waiting)' = CostWithin(f, Waiting)
      BY <2>1, <2>2, BudgetSets, SumAgrees DEF CostWithin
    <2>4. total'[f] = total[f]
      BY <1>2, <1>3, <1>7
    <2> QED
      BY <1>1, <1>5, <2>3, <2>4 DEF BudgetOf
  <1> QED
    BY <1>6, <1>7

(* A published node takes over the charge of its request.                  *)
LEMMA ChargeMoves ==
  ASSUME TypeOK, SlotLifecycle, BudgetCovers, NEW t \in Threads, PublishNode(t),
         NEW f \in Procs
  PROVE  BudgetOf(f)'
  <1>1. PICK s \in Slots : s = held[t] /\ node[s] = NoNode
    BY DEF PublishNode, TypeOK, SlotLifecycle, HeldIsPrivate
  <1>2. /\ node' = [node EXCEPT ![s] = FilpOf[t]]
        /\ exe_time' = [exe_time EXCEPT ![s] = request[t]]
        /\ pc' = [pc EXCEPT ![t] = "idle"] /\ pc[t] = "create"
        /\ UNCHANGED <<total, request, failures>>
    BY <1>1 DEF PublishNode, budgetVars
  <1>3. /\ request \in [Threads -> Nat] /\ exe_time \in [Slots -> Nat]
        /\ node \in [Slots -> Procs \cup {Kernel, NoNode}]
        /\ pc \in [Threads -> {"idle", "budget", "slot", "create"}]
    BY DEF TypeOK
  <1>4. LiveCost(f) \in Int /\ CostWithin(f, Waiting) \in Int /\ total[f] \in Int
    BY BudgetSets
  <1>5. total[f] >= LiveCost(f) + CostWithin(f, Waiting)
        /\ (failures = 0 => total[f] = LiveCost(f) + CostWithin(f, Waiting))
    BY DEF BudgetCovers, Waiting
  <1>6. s \notin Live(f) /\ FilpOf[t] \in Procs /\ f # NoNode
    BY <1>1, PoolAssumption DEF Live
  <1>7. CASE FilpOf[t] = f
    <2>1. Live(f)' = Live(f) \cup {s}
      BY <1>2, <1>3, <1>7 DEF Live
    <2>2. /\ \A x \in Live(f) : exe_time'[x] = exe_time[x]
          /\ exe_time'[s] = request[t] /\ request[t] \in Int
      BY <1>2, <1>3, <1>6 DEF Live
    <2>3. LiveCost(f)' = LiveCost(f) + request[t]
      <3>1. IsFiniteSet(Live(f)) /\ \A x \in Live(f) : exe_time[x] \in Int
        BY BudgetSets
      <3>2. SumFunctionOnSet(exe_time', Live(f) \cup {s})
              = SumFunctionOnSet(exe_time, Live(f)) + exe_time'[s]
        BY <1>6, <2>2, <3>1, SumGains
      <3> QED
        BY <2>1, <2>2, <3>2 DEF LiveCost
    <2>4. Within(f, Waiting)' = Within(f, Waiting) \ {t} /\ t \in Within(f, Waiting)
      BY <1>2, <1>3, <1>7 DEF Within, Waiting
    <2>5. CostWithin(f, Waiting)' = CostWithin(f, Waiting) - request[t]
      BY <1>2, <2>4, BudgetSets, SumLoses DEF CostWithin
    <2> QED
      BY <1>2, <1>4, <1>5, <2>2, <2>3, <2>5 DEF BudgetOf
  <1>8. CASE FilpOf[t] # f
    <2>1. Live(f)' = Live(f)
      BY <1>1, <1>2, <1>3, <1>6, <1>8 DEF Live
    <2>2. \A x \in Live(f) : exe_time'[x] = exe_time[x]
      BY <1>2, <1>3, <1>6 DEF Live
    <2>3. LiveCost(f)' = LiveCost(f)
      BY <2>1, <2>2, BudgetSets, SumAgrees DEF LiveCost
    <2>4. Within(f, Waiting)' = Within(f, Waiting)
      BY <1>2, <1>3, <1>8 DEF Within
    <2>5. CostWithin(f, Waiting)' = CostWithin(f, Waiting)
      BY <1>2, <2>4 DEF CostWithin
    <2> QED
      BY <1>2, <1>5, <2>3, <2>5 DEF BudgetOf
  <1> QED
    BY <1>7, <1>8

(* A release returns what the node it takes out of the table was charged.  *)
LEMMA ChargeReturned ==
  ASSUME TypeOK, BudgetCovers, NEW g \in Procs, NEW s \in Slots, UnpublishNode(g, s),
         NEW f \in Procs
  PROVE  BudgetOf(f)'
  <1>2. /\ node' = [node EXCEPT ![s] = NoNode] /\ node[s] = g
        /\ total' = [total EXCEPT ![g] = @ - exe_time[s]]
        /\ exe_time' = [exe_time EXCEPT ![s] = 0]
        /\ UNCHANGED <<pc, request, failures>>
    BY DEF UnpublishNode
  <1>3. /\ exe_time \in [Slots -> Nat] /\ total \in [Procs -> Int]
        /\ node \in [Slots -> Procs \cup {Kernel, NoNode}]
    BY DEF TypeOK
  <1>4. LiveCost(f) \in Int /\ CostWithin(f, Waiting) \in Int /\ total[f] \in Int
    BY BudgetSets
  <1>5. total[f] >= LiveCost(f) + CostWithin(f, Waiting)
        /\ (failures = 0 => total[f] = LiveCost(f) + CostWithin(f, Waiting))
    BY DEF BudgetCovers, Waiting
  <1>6. CostWithin(f, Waiting)' = CostWithin(f, Waiting)
    BY <1>2 DEF CostWithin, Within
  <1>7. CASE g = f
    <2>1. Live(f)' = Live(f) \ {s} /\ s \in Live(f)
      BY <1>2, <1>3, <1>7, PoolAssumption DEF Live
    <2>2. \A x \in Live(f) \ {s} : exe_time'[x] = exe_time[x]
      BY <1>2, <1>3 DEF Live
    <2>3. LiveCost(f)' = LiveCost(f) - exe_time[s]
      <3>1. IsFiniteSet(Live(f)) /\ \A x \in Live(f) : exe_time[x] \in Int
        BY BudgetSets
      <3>2. SumFunctionOnSet(exe_time', Live(f) \ {s})
              = SumFunctionOnSet(exe_time, Live(f)) - exe_time[s]
        <4>1. s \in Live(f)
          BY <2>1
        <4>2. \A S, v, w : /\ IsFiniteSet(S) /\ s \in S
                           /\ \A y \in S \ {s} : v[y] = w[y]
                           /\ \A y \in S : w[y] \in Int
                 => SumFunctionOnSet(v, S \ {s}) = SumFunctionOnSet(w, S) - w[s]
          BY SumLoses
        <4> QED
          BY <2>2, <3>1, <4>1, <4>2, Zenon
      <3> QED
        BY <2>1, <3>2 DEF LiveCost
    <2>4. total'[f] = total[f] - exe_time[s] /\ exe_time[s] \in Int
      BY <1>2, <1>3, <1>7
    <2> QED
      BY <1>2, <1>4, <1>5, <1>6, <2>3, <2>4 DEF BudgetOf
  <1>8. CASE g # f
    <2>1. Live(f)' = Live(f) /\ s \notin Live(f)
      BY <1>2, <1>3, <1>8, PoolAssumption DEF Live
    <2>2. \A x \in Live(f) : exe_time'[x] = exe_time[x]
      BY <1>2, <1>3, <2>1 DEF Live
    <2>3. LiveCost(f)' = LiveCost(f)
      BY <2>1, <2>2, BudgetSets, SumAgrees DEF LiveCost
    <2>4. total'[f] = total[f]
      BY <1>2, <1>3, <1>8
    <2> QED
      BY <1>2, <1>5, <1>6, <2>3, <2>4 DEF BudgetOf
  <1> QED
    BY <1>7, <1>8

(* Threads that move on inside reserve_cmdbuf, and the last step of a      *)
(* release, leave what was charged and what it was charged for alone.      *)
LEMMA ChargeUntouched ==
  ASSUME TypeOK, BudgetCovers, UNCHANGED <<node, exe_time, total, request, failures>>,
         \A f \in Procs : Within(f, Waiting)' = Within(f, Waiting),
         NEW f \in Procs
  PROVE  BudgetOf(f)'
  BY DEF BudgetCovers, BudgetOf, Waiting, LiveCost, CostWithin, Live

(* The four ways a charge can move, and the steps that move none.          *)
LEMMA BudgetStep ==
  TypeOK /\ SlotLifecycle /\ BudgetCovers /\ [Next]_vars => BudgetCovers'
  <1> SUFFICES ASSUME TypeOK, SlotLifecycle, BudgetCovers, [Next]_vars, NEW f \in Procs
               PROVE  BudgetOf(f)'
    BY DEF BudgetCovers, BudgetOf, Waiting
  <1>1. ASSUME NEW t \in Threads, NEW cost \in Costs, ReserveEnter(t, cost)
        PROVE  BudgetOf(f)'
    BY <1>1, ChargeEnters
  <1>2. ASSUME NEW t \in Threads, BudgetReady(t) PROVE BudgetOf(f)'
    <2>1. \A g \in Procs : Within(g, Waiting)' = Within(g, Waiting)
      BY <1>2 DEF BudgetReady, Within, Waiting, TypeOK
    <2> QED
      BY <1>2, <2>1, ChargeUntouched DEF BudgetReady, slotVars, budgetVars
  <1>3. ASSUME NEW t \in Threads, allocate_cmdbuf(t) PROVE BudgetOf(f)'
    <2>1. pc[t] = "slot" /\ pc' = [pc EXCEPT ![t] = "create"]
      BY <1>3 DEF allocate_cmdbuf
    <2>2. \A g \in Procs : Within(g, Waiting)' = Within(g, Waiting)
      BY <2>1 DEF Within, Waiting, TypeOK
    <2> QED
      BY <1>3, <2>2, ChargeUntouched DEF allocate_cmdbuf, budgetVars
  <1>4. ASSUME NEW t \in Threads, WaitInterrupted(t) PROVE BudgetOf(f)'
    BY <1>4, ChargeKept DEF WaitInterrupted, slotVars, budgetVars, Waiting
  <1>5. ASSUME NEW t \in Threads, create_cmdbuf_node_fails(t) PROVE BudgetOf(f)'
    BY <1>5, ChargeKept DEF create_cmdbuf_node_fails, budgetVars, Waiting
  <1>6. ASSUME NEW t \in Threads, PublishNode(t) PROVE BudgetOf(f)'
    BY <1>6, ChargeMoves
  <1>7. ASSUME NEW g \in Procs, NEW s \in Slots, UnpublishNode(g, s) PROVE BudgetOf(f)'
    BY <1>7, ChargeReturned
  <1>8. ASSUME NEW s \in Slots, free_cmdbuf_mem(s) PROVE BudgetOf(f)'
    BY <1>8, ChargeUntouched DEF free_cmdbuf_mem, budgetVars, Within
  <1>9. CASE UNCHANGED vars
    BY <1>9, ChargeUntouched DEF vars, Within
  <1> QED
    BY <1>1, <1>2, <1>3, <1>4, <1>5, <1>6, <1>7, <1>8, <1>9 DEF Next
-----------------------------------------------------------------------------
PoolInv == TypeOK /\ SlotLifecycle /\ ResidualExact /\ BudgetCovers

(* The inductive invariant holds in every reachable state.                 *)
THEOREM PoolInvariant == Spec => []PoolInv
  <1>1. Init => PoolInv
    BY TypeInit, LifecycleInit, ResidualInit, BudgetInit DEF PoolInv
  <1>2. PoolInv /\ [Next]_vars => PoolInv'
    BY TypeStep, LifecycleStep, ResidualStep, BudgetStep DEF PoolInv
  <1> QED
    BY <1>1, <1>2, PTL DEF Spec

(* reserve_cmdbuf and release_cmdbuf keep every variable in its domain.    *)
THEOREM TypeCorrect == Spec => []TypeOK
  <1>1. PoolInv => TypeOK
    BY DEF PoolInv
  <1> QED
    BY <1>1, PoolInvariant, PTL

(* A slot of the pool never has two holders: allocate_cmdbuf cannot hand   *)
(* out a slot that another thread holds, that is in global_cmdbuf_node[],  *)
(* or that a release has not finished with.                                *)
THEOREM NoSharedSlot == Spec => []SlotLifecycle
  <1>1. PoolInv => SlotLifecycle
    BY DEF PoolInv
  <1> QED
    BY <1>1, PoolInvariant, PTL

(* cmdbuf_used_residual is the number of zero words of cmdbuf_used[].      *)
THEOREM CounterExact == Spec => []ResidualExact
  <1>1. PoolInv => ResidualExact
    BY DEF PoolInv
  <1> QED
    BY <1>1, PoolInvariant, PTL

(* What a file is charged covers the buffers it has in the table and the   *)
(* reservations of its threads; while no wait was cut short and no         *)
(* allocation failed it is exactly that.                                   *)
THEOREM BudgetIsCovered == Spec => []BudgetCovers
  <1>1. PoolInv => BudgetCovers
    BY DEF PoolInv
  <1> QED
    BY <1>1, PoolInvariant, PTL

(* The while (1) of allocate_cmdbuf, entered with the counter not 0 and    *)
(* interrupts off, always has a slot to find.                              *)
THEOREM SearchSucceeds == Spec => []AllocatorTerminates
  <1>1. PoolInv => AllocatorTerminates
    <2> SUFFICES ASSUME PoolInv, residual # 0 PROVE FreeSlots # {}
      BY DEF AllocatorTerminates
    <2>1. {s \in Slots : ~used[s]} # {}
      BY FS_EmptySet DEF PoolInv, ResidualExact
    <2> QED
      BY <2>1 DEF PoolInv, SlotLifecycle, FreeMeansUnused, FreeSlots
  <1> QED
    BY <1>1, PoolInvariant, PTL
=============================================================================
