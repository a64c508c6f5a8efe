---------------------------- MODULE FencesProofs ----------------------------
(***************************************************************************)
(* Proofs, for every number of clients, buffers and fences, of the safety  *)
(* properties of Fences, for clients that forget their handles when the    *)
(* system is suspended.                                                    *)
(*                                                                         *)
(* A fence that is not signalled has exactly one owner: an entry of an     *)
(* idr, or a thread that works on it, and an entry with a thread that      *)
(* works on the entry is that thread's (OneOwner, Unsignalled).  From this *)
(* follow both the handle that stays its holder's and the references.      *)
(***************************************************************************)
EXTENDS Fences, FiniteSetTheorems, TLAPS

Domains == Clients \cup {"all"}
FenceRec == [owner : Clients \cup {None}, buf : Buffers \cup {None}, mode : Modes,
             signalled : BOOLEAN, refs : Nat]
ThreadRec == [pc : {"idle", "waiting", "publish", "attach", "undo", "signal",
                    "remove", "closed"},
              buf : Buffers \cup {None}, mode : Modes, hand : Fences \cup {None},
              handle : Ids \cup {None}]

Types ==
    /\ driver \in {"hantro", "vgem"}
    /\ fence \in [Fences -> FenceRec]
    /\ idr \in [Domains -> [Ids -> Fences \cup {None, Taken}]]
    /\ resv \in [Buffers -> SUBSET Fences]
    /\ thread \in [Clients -> ThreadRec]
    /\ held \in [Clients -> SUBSET Ids]

(* The fences created so far are the first ones.                           *)
InOrder ==
    /\ \E n \in 0..MaxFences : Created = 1..n
    /\ \A f \in Fences : f \in Created <=> fence[f].owner # None

Making(c) == thread[c].pc \in {"publish", "attach", "undo"}

(* A client in a call: the fence and the entry that it works on.           *)
CallOK(c) ==
    LET f == thread[c].hand   h == thread[c].handle   table == idr[Domain(c)]
    IN  /\ f # None <=> thread[c].pc \in {"publish", "attach", "undo", "signal"}
        /\ thread[c].pc \in {"idle", "waiting", "publish", "closed"} => h = None
        /\ thread[c].pc \in {"attach", "signal", "remove"} => h # None
        /\ thread[c].pc \in {"signal", "remove"} => table[h] = Taken
        /\ Making(c) /\ h # None => table[h] = f
        /\ Making(c) => /\ fence[f].owner = c /\ fence[f].buf = thread[c].buf
                        /\ fence[f].mode = thread[c].mode
                        /\ thread[c].buf \in Buffers
        /\ thread[c].pc = "waiting" => thread[c].buf \in Buffers
        /\ Making(c) => \A b \in Buffers : f \notin resv[b]

CallsOK == \A c \in Clients : CallOK(c)

(* No two threads work on one fence or on one entry; a fence has at most   *)
(* one entry, and with it no thread but one that has that entry's id.      *)
OneOwner ==
    /\ \A c, e \in Clients : c # e =>
          /\ thread[c].hand # None => thread[c].hand # thread[e].hand
          /\ thread[c].handle # None /\ Domain(c) = Domain(e) =>
                thread[c].handle # thread[e].handle
    /\ \A d, g \in Domains : \A i, k \in Ids :
          idr[d][i] \in Fences /\ idr[d][i] = idr[g][k] => d = g /\ i = k
    /\ \A c \in Clients : \A d \in Domains : \A i \in Ids :
          idr[d][i] \in Fences /\ idr[d][i] = thread[c].hand =>
             d = Domain(c) /\ i = thread[c].handle

(* A handle that a client has is its own, and no thread works on it.       *)
HeldOK ==
    \A c \in Clients : \A h \in held[c] :
        /\ idr[Domain(c)][h] \in Fences
        /\ fence[idr[Domain(c)][h]].owner = c
        /\ \A e \in Clients : Domain(e) = Domain(c) => thread[e].handle # h

(* A fence is unsignalled exactly as long as somebody can reach it.        *)
Unsignalled ==
    \A f \in Fences : Reachable(f) <=> f \in Created /\ ~fence[f].signalled

OnBuffer(f) == \E b \in Buffers : f \in resv[b]

(* A fence is on no buffer but its own, and has its references.            *)
RefsOK ==
    /\ \A b \in Buffers : \A f \in resv[b] : f \in Created /\ fence[f].buf = b
    /\ \A f \in Created : fence[f].refs = (IF Reachable(f) THEN 1 ELSE 0)
                                          + (IF OnBuffer(f) THEN 1 ELSE 0)

UsedIds(d) == {i \in Ids : idr[d][i] # None}
Publishers(d) == {c \in Clients : thread[c].pc = "publish" /\ Domain(c) = d}

(* An id is left for every fence that waits for one.                       *)
IdsLeft ==
    \A d \in Domains :
        Cardinality(UsedIds(d)) + Cardinality(Publishers(d)) <= Cardinality(Created)

FencesInv ==
    /\ Types
    /\ InOrder
    /\ CallsOK
    /\ OneOwner
    /\ HeldOK
    /\ Unsignalled
    /\ RefsOK
    /\ IdsLeft
-----------------------------------------------------------------------------
(* The idr of a client's files is one of the idrs, and only hantro shares. *)
LEMMA DomainFacts ==
  ASSUME Types, NEW c \in Clients
  PROVE  /\ Domain(c) \in Domains
         /\ driver = "hantro" => Domain(c) = "all"
         /\ driver = "vgem" => Domain(c) = c
  BY DEF Types, Domain, Domains

(* Reading the parts of the invariant about one client.                    *)
LEMMA ClientFacts ==
  ASSUME FencesInv, NEW c \in Clients
  PROVE  /\ thread[c] \in ThreadRec /\ CallOK(c) /\ Domain(c) \in Domains
         /\ held[c] \subseteq Ids
         /\ thread[c].hand # None => /\ thread[c].hand \in Created
                                     /\ ~fence[thread[c].hand].signalled
  <1>1. thread[c] \in ThreadRec /\ CallOK(c) /\ Domain(c) \in Domains
        /\ held[c] \subseteq Ids
    BY DomainFacts DEF FencesInv, Types, CallsOK
  <1>2. ASSUME thread[c].hand # None
        PROVE  thread[c].hand \in Created /\ ~fence[thread[c].hand].signalled
    <2>1. thread[c].hand \in Fences
      BY <1>1, <1>2 DEF ThreadRec
    <2>2. Reachable(thread[c].hand)
      BY DEF Reachable
    <2> QED
      BY <2>1, <2>2 DEF FencesInv, Unsignalled
  <1> QED
    BY <1>1, <1>2

(* The id that a client works on has its entry.                            *)
LEMMA HandleInUse ==
  ASSUME FencesInv, NEW c \in Clients, thread[c].handle # None
  PROVE  idr[Domain(c)][thread[c].handle] # None
  <1>1. thread[c] \in ThreadRec /\ CallOK(c)
    BY ClientFacts
  <1>2. Taken # None
    BY FencesAssumption DEF Taken, None
  <1>3. CASE thread[c].pc \in {"signal", "remove"}
    BY <1>1, <1>2, <1>3 DEF CallOK
  <1>4. CASE thread[c].pc \in {"attach", "undo"}
    BY <1>1, <1>4 DEF CallOK, Making
  <1> QED
    BY <1>1, <1>3, <1>4 DEF CallOK, ThreadRec

(* The sets that IdsLeft counts are finite.                                *)
LEMMA CountsAreNat ==
  /\ IsFiniteSet(Fences) /\ Cardinality(Fences) = MaxFences
  /\ IsFiniteSet(Created) /\ Cardinality(Created) \in Nat
  /\ \A d : IsFiniteSet(UsedIds(d)) /\ Cardinality(UsedIds(d)) \in Nat
  /\ \A d : IsFiniteSet(Publishers(d)) /\ Cardinality(Publishers(d)) \in Nat
  <1>1. IsFiniteSet(Fences) /\ Cardinality(Fences) = MaxFences
    BY FencesAssumption, FS_Interval DEF Fences
  <1>2. IsFiniteSet(Created) /\ Cardinality(Created) \in Nat
    BY <1>1, FS_Subset, FS_CardinalityType DEF Created
  <1>3. ASSUME NEW d
        PROVE  IsFiniteSet(UsedIds(d)) /\ Cardinality(UsedIds(d)) \in Nat
    <2>1. UsedIds(d) \subseteq Fences
      BY DEF UsedIds, Ids, Fences
    <2> QED
      BY <1>1, <2>1, FS_Subset, FS_CardinalityType
  <1>4. ASSUME NEW d
        PROVE  IsFiniteSet(Publishers(d)) /\ Cardinality(Publishers(d)) \in Nat
    <2>1. Publishers(d) \subseteq Clients
      BY DEF Publishers
    <2> QED
      BY <2>1, FencesAssumption, FS_Subset, FS_CardinalityType
  <1> QED
    BY <1>1, <1>2, <1>3, <1>4

(* No more ids in use, no more publishers, and no fewer fences: enough.    *)
LEMMA IdsLeftKept ==
  ASSUME FencesInv, NEW d \in Domains,
         UsedIds(d)' \subseteq UsedIds(d), Publishers(d)' \subseteq Publishers(d),
         Cardinality(Created) <= Cardinality(Created'), Cardinality(Created') \in Nat
  PROVE  Cardinality(UsedIds(d)') + Cardinality(Publishers(d)') <= Cardinality(Created')
  <1> DEFINE U == UsedIds(d)
             V == UsedIds(d)'
             P == Publishers(d)
             Q == Publishers(d)'
  <1>1. IsFiniteSet(U) /\ IsFiniteSet(P) /\ Cardinality(Created) \in Nat
        /\ Cardinality(U) \in Nat /\ Cardinality(P) \in Nat
    BY CountsAreNat
  <1>2. V \in SUBSET U /\ Q \in SUBSET P
    OBVIOUS
  <1>3. Cardinality(U) + Cardinality(P) <= Cardinality(Created)
    BY DEF FencesInv, IdsLeft
  <1> HIDE DEF U, V, P, Q
  <1>4. /\ Cardinality(V) <= Cardinality(U) /\ Cardinality(V) \in Nat
        /\ Cardinality(Q) <= Cardinality(P) /\ Cardinality(Q) \in Nat
    BY <1>1, <1>2, FS_Subset, FS_CardinalityType
  <1>5. Cardinality(V) + Cardinality(Q) <= Cardinality(Created')
    BY <1>1, <1>3, <1>4
  <1> QED
    BY <1>5 DEF V, Q

(* The least-number principle: the first free id is a minimum.             *)
LEMMA NatSetHasMin ==
  ASSUME NEW S \in SUBSET Nat, S # {}
  PROVE  \E m \in S : \A n \in S : m <= n
  <1> DEFINE Less == {ss \in Nat \X Nat : ss[1] < ss[2]}
  <1>1. IsWellFoundedOn(Less, Nat)
    BY NatLessThanWellFounded DEF OpToRel
  <1>2. \A m, n \in Nat : n < m => <<n, m>> \in Less
    OBVIOUS
  <1> HIDE DEF Less
  <1>3. PICK m \in S : \A n \in S : <<n, m>> \notin Less
    BY <1>1, WFMin
  <1>4. \A n \in S : n \in Nat /\ m \in Nat /\ ~(n < m)
    BY <1>2, <1>3
  <1>5. ASSUME NEW n \in S PROVE m <= n
    <2>1. n \in Nat /\ m \in Nat /\ ~(n < m)
      BY <1>4
    <2> QED
      BY <2>1
  <1> QED
    BY <1>5

(* The first free id of a table that has one.                              *)
LEMMA FirstFreeId ==
  ASSUME NEW table, FreeIds(table) # {}
  PROVE  Min(FreeIds(table)) \in FreeIds(table)
  <1>1. FreeIds(table) \in SUBSET Nat
    BY FencesAssumption DEF FreeIds, Ids
  <1> QED
    BY <1>1, NatSetHasMin DEF Min

-----------------------------------------------------------------------------
(* A step of one client that changes neither its fence nor its id.         *)
LEMMA MoveStep ==
  ASSUME FencesInv, NEW c \in Clients, NEW r \in ThreadRec,
         thread' = [thread EXCEPT ![c] = r],
         UNCHANGED <<driver, fence, idr, resv, held>>,
         r.hand = thread[c].hand, r.handle = thread[c].handle,
         r.pc # "publish", CallOK(c)'
  PROVE  FencesInv'
  <1>1. /\ \A e \in Clients : Domain(e)' = Domain(e)
        /\ \A e \in Clients : thread'[e].hand = thread[e].hand
                              /\ thread'[e].handle = thread[e].handle
        /\ \A e \in Clients \ {c} : thread'[e] = thread[e]
        /\ thread'[c] = r /\ thread' \in [Clients -> ThreadRec]
    BY DEF FencesInv, Types, Domain
  <1>2. Types'
    BY <1>1 DEF FencesInv, Types
  <1>3. Created' = Created /\ InOrder'
    BY DEF FencesInv, InOrder, Created
  <1>4. CallsOK'
    <2> SUFFICES ASSUME NEW e \in Clients, e # c PROVE CallOK(e)'
      BY DEF CallsOK
    <2>1. CallOK(e)
      BY DEF FencesInv, CallsOK
    <2> QED
      BY <1>1, <2>1 DEF CallOK, Making
  <1>5. OneOwner'
    BY <1>1 DEF FencesInv, OneOwner
  <1>6. HeldOK'
    BY <1>1 DEF FencesInv, HeldOK
  <1>7. \A f \in Fences : Reachable(f)' <=> Reachable(f)
    BY <1>1 DEF Reachable
  <1>8. Unsignalled'
    BY <1>3, <1>7 DEF FencesInv, Unsignalled
  <1>9. RefsOK'
    <2>1. \A f : OnBuffer(f)' <=> OnBuffer(f)
      BY DEF OnBuffer
    <2>2. Created \subseteq Fences
      BY DEF Created
    <2> QED
      BY <1>3, <1>7, <2>1, <2>2 DEF FencesInv, RefsOK
  <1>10. IdsLeft'
    <2> SUFFICES ASSUME NEW d \in Domains
                 PROVE  Cardinality(UsedIds(d)') + Cardinality(Publishers(d)')
                          <= Cardinality(Created')
      BY DEF IdsLeft
    <2>1. UsedIds(d)' = UsedIds(d) /\ Publishers(d)' \subseteq Publishers(d)
      BY <1>1 DEF UsedIds, Publishers
    <2> QED
      BY <1>3, <2>1, IdsLeftKept, CountsAreNat
  <1> QED
    BY <1>2, <1>3, <1>4, <1>5, <1>6, <1>8, <1>9, <1>10 DEF FencesInv

(* The calls that fail, and the one that begins to wait.                   *)
LEMMA WaitsAndFailures ==
  ASSUME FencesInv, NEW c \in Clients,
         \/ \E b \in Buffers, mode \in Modes : Acquire(c, b, mode)
         \/ AcquireFails(c) \/ IdrFails(c) \/ ReserveFails(c)
  PROVE  FencesInv'
  <1>1. thread[c] \in ThreadRec /\ CallOK(c) /\ thread \in [Clients -> ThreadRec]
    BY ClientFacts DEF FencesInv, Types
  <1>2. ASSUME NEW b \in Buffers, NEW mode \in Modes, Acquire(c, b, mode)
        PROVE  FencesInv'
    <2> DEFINE r == [Out("waiting") EXCEPT !.buf = b, !.mode = mode]
    <2>1. /\ r \in ThreadRec /\ r.pc = "waiting" /\ r.buf = b /\ r.hand = None
          /\ r.handle = None
      BY DEF Out, ThreadRec, Modes
    <2> HIDE DEF r
    <2>2. /\ thread' = [thread EXCEPT ![c] = r] /\ thread[c].pc = "idle"
          /\ UNCHANGED <<driver, kernel, fence, idr, resv, held>>
      BY <1>2 DEF Acquire, Build, r
    <2>3. thread[c].hand = None /\ thread[c].handle = None /\ thread'[c] = r
      BY <1>1, <2>2 DEF CallOK, ThreadRec
    <2>4. CallOK(c)'
      BY <2>1, <2>3 DEF CallOK, Making
    <2> QED
      BY <2>1, <2>2, <2>3, <2>4, MoveStep
  <1>3. CASE AcquireFails(c)
    <2> DEFINE r == Out("idle")
    <2>1. /\ r \in ThreadRec /\ r.pc = "idle" /\ r.hand = None /\ r.handle = None
      BY DEF Out, ThreadRec, Modes
    <2> HIDE DEF r
    <2>2. /\ thread' = [thread EXCEPT ![c] = r] /\ thread[c].pc = "waiting"
          /\ UNCHANGED <<driver, kernel, fence, idr, resv, held>>
      BY <1>3 DEF AcquireFails, Return, Build, r
    <2>3. thread[c].hand = None /\ thread[c].handle = None /\ thread'[c] = r
      BY <1>1, <2>2 DEF CallOK, ThreadRec
    <2>4. CallOK(c)'
      BY <2>1, <2>3 DEF CallOK, Making
    <2> QED
      BY <2>1, <2>2, <2>3, <2>4, MoveStep
  <1>4. CASE IdrFails(c) \/ ReserveFails(c)
    <2> DEFINE r == [thread[c] EXCEPT !.pc = "undo"]
    <2>1. /\ r \in ThreadRec /\ r.pc = "undo" /\ r.hand = thread[c].hand
          /\ r.handle = thread[c].handle /\ r.buf = thread[c].buf
          /\ r.mode = thread[c].mode
      BY <1>1 DEF ThreadRec
    <2> HIDE DEF r
    <2>2. /\ thread' = [thread EXCEPT ![c] = r] /\ thread[c].pc \in {"publish", "attach"}
          /\ UNCHANGED <<driver, kernel, fence, idr, resv, held>>
      BY <1>1, <1>4 DEF IdrFails, ReserveFails, Goto, Build, r
    <2>3. thread'[c] = r /\ Domain(c)' = Domain(c)
      BY <1>1, <2>2 DEF Domain
    <2>4. CallOK(c)'
      BY <1>1, <2>1, <2>2, <2>3 DEF CallOK, Making
    <2> QED
      BY <2>1, <2>2, <2>3, <2>4, MoveStep
  <1> QED
    BY <1>2, <1>3, <1>4

(* A new fence: nothing knows it but the thread that creates it.           *)
LEMMA AllocStep ==
  ASSUME FencesInv, NEW c \in Clients, thread[c].pc = "waiting", alloc_fence(c),
         UNCHANGED <<driver, idr, resv, held>>
  PROVE  FencesInv'
  <1>1. PICK f \in Fences :
          /\ f = Cardinality(Created) + 1
          /\ fence' = [fence EXCEPT ![f] =
                          [owner |-> c, buf |-> thread[c].buf, mode |-> thread[c].mode,
                           signalled |-> FALSE, refs |-> 1]]
          /\ thread' = [thread EXCEPT ![c].pc = "publish", ![c].hand = f]
    BY DEF alloc_fence
  <1>2. /\ thread[c] \in ThreadRec /\ thread[c].hand = None /\ thread[c].handle = None
        /\ thread[c].buf \in Buffers /\ Domain(c) \in Domains
    BY ClientFacts DEF CallOK, ThreadRec
  <1> DEFINE new == [owner |-> c, buf |-> thread[c].buf, mode |-> thread[c].mode,
                     signalled |-> FALSE, refs |-> 1]
             r == [thread[c] EXCEPT !.pc = "publish", !.hand = f]
  <1>3. /\ r \in ThreadRec /\ r.pc = "publish" /\ r.hand = f /\ r.handle = None
        /\ r.buf = thread[c].buf /\ r.mode = thread[c].mode
    BY <1>2 DEF ThreadRec
  <1>4. /\ new \in FenceRec /\ new.owner = c /\ new.buf = thread[c].buf
        /\ new.mode = thread[c].mode /\ ~new.signalled /\ new.refs = 1
        /\ c # None
    BY <1>2, FencesAssumption DEF FenceRec, ThreadRec, None
  <1>5. /\ fence' = [fence EXCEPT ![f] = new] /\ thread' = [thread EXCEPT ![c] = r]
    BY <1>1
  <1> HIDE DEF new, r
  <1>6. /\ \A g \in Fences \ {f} : fence'[g] = fence[g]
        /\ fence'[f] = new /\ fence' \in [Fences -> FenceRec]
        /\ \A e \in Clients \ {c} : thread'[e] = thread[e]
        /\ thread'[c] = r /\ thread' \in [Clients -> ThreadRec]
        /\ \A e \in Clients : Domain(e)' = Domain(e)
    BY <1>3, <1>4, <1>5 DEF FencesInv, Types, Domain
  <1>7. Types'
    BY <1>6 DEF FencesInv, Types
  <1>8. PICK n \in 0..MaxFences : Created = 1..n
    BY DEF FencesInv, InOrder
  <1>9. f = n + 1 /\ f \notin Created /\ n \in Nat /\ Cardinality(Created) = n
    BY <1>1, <1>8, FS_Interval
  <1>10. Created' = 1..f /\ Created' = Created \cup {f}
    <2>1. \A g \in Fences \ {f} : g \in Created' <=> g \in Created
      BY <1>6 DEF Created
    <2>2. f \in Created'
      BY <1>4, <1>6 DEF Created, NoFence
    <2>3. Created \subseteq Fences /\ Created' \subseteq Fences
      BY DEF Created
    <2>4. Created' = Created \cup {f}
      BY <2>1, <2>2, <2>3
    <2>5. 1..f = 1..n \cup {f}
      BY <1>9
    <2> QED
      BY <1>8, <2>4, <2>5
  <1>11. InOrder'
    <2>1. f \in 0..MaxFences
      BY DEF Fences
    <2>2. \E k \in 0..MaxFences : Created' = 1..k
      BY <1>10, <2>1
    <2>3. \A g \in Fences : g \in Created' <=> fence'[g].owner # None
      BY <1>4, <1>6, <1>10 DEF FencesInv, InOrder
    <2> QED
      BY <2>2, <2>3 DEF InOrder
  <1>12. ~Reachable(f) /\ \A b \in Buffers : f \notin resv[b]
    BY <1>9 DEF FencesInv, Unsignalled, RefsOK
  <1>13. /\ \A d \in Domains : \A i \in Ids : idr[d][i] # f
         /\ \A e \in Clients : thread[e].hand # f
    BY <1>12 DEF Reachable, FencesInv, Types
  <1>14. CallsOK'
    <2> SUFFICES ASSUME NEW e \in Clients PROVE CallOK(e)'
      BY DEF CallsOK
    <2>1. CallOK(e) /\ thread[e] \in ThreadRec
      BY ClientFacts
    <2>2. CASE e = c
      BY <1>2, <1>3, <1>4, <1>6, <1>12, <2>2 DEF CallOK, Making, None, Fences
    <2>3. CASE e # c
      <3>1. thread[e].hand # None => fence'[thread[e].hand] = fence[thread[e].hand]
        BY <1>6, <1>13, <2>1 DEF ThreadRec
      <3> QED
        BY <1>6, <2>1, <2>3, <3>1 DEF CallOK, Making
    <2> QED
      BY <2>2, <2>3
  <1>15. OneOwner'
    <2>1. \A e \in Clients : thread'[e].handle = thread[e].handle
      BY <1>2, <1>3, <1>6
    <2>2. \A d, e \in Clients : d # e =>
             /\ thread'[d].hand # None => thread'[d].hand # thread'[e].hand
             /\ thread'[d].handle # None /\ Domain(d)' = Domain(e)' =>
                   thread'[d].handle # thread'[e].handle
      BY <1>2, <1>3, <1>6, <1>13, <2>1 DEF FencesInv, OneOwner
    <2>3. \A e \in Clients : \A d \in Domains : \A i \in Ids :
             idr[d][i] \in Fences /\ idr[d][i] = thread'[e].hand =>
                d = Domain(e)' /\ i = thread'[e].handle
      BY <1>3, <1>6, <1>13, <2>1 DEF FencesInv, OneOwner
    <2> QED
      BY <2>2, <2>3 DEF FencesInv, OneOwner
  <1>16. HeldOK'
    <2> SUFFICES ASSUME NEW e \in Clients, NEW h \in held[e]
                 PROVE  /\ idr[Domain(e)][h] \in Fences
                        /\ fence'[idr[Domain(e)][h]].owner = e
                        /\ \A d \in Clients : Domain(d) = Domain(e) =>
                              thread'[d].handle # h
      BY <1>6 DEF HeldOK
    <2>1. h \in Ids /\ Domain(e) \in Domains
      BY ClientFacts
    <2>2. /\ idr[Domain(e)][h] \in Fences /\ fence[idr[Domain(e)][h]].owner = e
          /\ \A d \in Clients : Domain(d) = Domain(e) => thread[d].handle # h
      BY DEF FencesInv, HeldOK
    <2> QED
      BY <1>2, <1>3, <1>6, <1>13, <2>1, <2>2
  <1>17. \A g \in Fences : Reachable(g)' <=> Reachable(g) \/ g = f
    <2>1. Reachable(f)'
      BY <1>3, <1>6 DEF Reachable
    <2>2. \A g \in Fences \ {f} : \A e \in Clients :
             thread'[e].hand = g <=> thread[e].hand = g
      BY <1>2, <1>3, <1>6 DEF Fences, None
    <2> QED
      BY <2>1, <2>2 DEF Reachable
  <1>18. Unsignalled'
    BY <1>4, <1>6, <1>10, <1>17 DEF FencesInv, Unsignalled
  <1>19. RefsOK'
    <2>1. \A g : OnBuffer(g)' <=> OnBuffer(g)
      BY DEF OnBuffer
    <2>2. \A b \in Buffers : \A g \in resv[b] : g \in Created' /\ fence'[g].buf = b
      BY <1>6, <1>9, <1>10 DEF FencesInv, RefsOK, Created
    <2>3. \A g \in Created' : fence'[g].refs = (IF Reachable(g)' THEN 1 ELSE 0)
                                               + (IF OnBuffer(g)' THEN 1 ELSE 0)
      <3> SUFFICES ASSUME NEW g \in Created'
                   PROVE  fence'[g].refs = (IF Reachable(g)' THEN 1 ELSE 0)
                                               + (IF OnBuffer(g)' THEN 1 ELSE 0)
        OBVIOUS
      <3>1. CASE g = f
        <4>1. ~OnBuffer(f)
          BY <1>12 DEF OnBuffer
        <4> QED
          BY <1>4, <1>6, <1>17, <2>1, <3>1, <4>1
      <3>2. CASE g # f
        <4>1. g \in Created /\ g \in Fences
          BY <1>10, <3>2 DEF Created
        <4>2. fence[g].refs = (IF Reachable(g) THEN 1 ELSE 0)
                              + (IF OnBuffer(g) THEN 1 ELSE 0)
          BY <4>1 DEF FencesInv, RefsOK
        <4> QED
          BY <1>6, <1>17, <2>1, <3>2, <4>1, <4>2
      <3> QED
        BY <3>1, <3>2
    <2> QED
      BY <2>2, <2>3 DEF RefsOK
  <1>20. IdsLeft'
    <2> SUFFICES ASSUME NEW d \in Domains
                 PROVE  Cardinality(UsedIds(d)') + Cardinality(Publishers(d)')
                          <= Cardinality(Created')
      BY DEF IdsLeft
    <2>1. UsedIds(d)' = UsedIds(d)
      BY DEF UsedIds
    <2>2. Publishers(d)' \subseteq Publishers(d) \cup {c}
      BY <1>6 DEF Publishers
    <2>3. Cardinality(Created') = n + 1
      BY <1>9, <1>10, FS_Interval
    <2>4. /\ IsFiniteSet(Publishers(d)) /\ Cardinality(Publishers(d)) \in Nat
          /\ Cardinality(UsedIds(d)) \in Nat
      BY CountsAreNat
    <2>5. /\ Cardinality(Publishers(d)') \in Nat
          /\ Cardinality(Publishers(d)') <= Cardinality(Publishers(d)) + 1
      <3> DEFINE P == Publishers(d)
                 Q == Publishers(d)'
      <3>1. IsFiniteSet(P) /\ Cardinality(P) \in Nat /\ Q \in SUBSET (P \cup {c})
        BY <2>2, <2>4
      <3> HIDE DEF P, Q
      <3>2. IsFiniteSet(P \cup {c}) /\ Cardinality(P \cup {c}) <= Cardinality(P) + 1
            /\ Cardinality(P \cup {c}) \in Nat
        BY <3>1, FS_AddElement
      <3>3. Cardinality(Q) \in Nat /\ Cardinality(Q) <= Cardinality(P \cup {c})
        BY <3>1, <3>2, FS_Subset, FS_CardinalityType
      <3>4. Cardinality(Q) \in Nat /\ Cardinality(Q) <= Cardinality(P) + 1
        BY <3>1, <3>2, <3>3
      <3> QED
        BY <3>4 DEF P, Q
    <2>6. Cardinality(UsedIds(d)) + Cardinality(Publishers(d)) <= n
      BY <1>9 DEF FencesInv, IdsLeft
    <2> QED
      BY <1>9, <2>1, <2>3, <2>4, <2>5, <2>6
  <1> QED
    BY <1>7, <1>11, <1>14, <1>15, <1>16, <1>18, <1>19, <1>20 DEF FencesInv
-----------------------------------------------------------------------------
(* As long as no fence is created, those of Created and their order stay.  *)
LEMMA CreatedStays ==
  ASSUME FencesInv, fence' \in [Fences -> FenceRec],
         \A f \in Fences : /\ fence'[f].owner = fence[f].owner
                           /\ f \notin Created => fence'[f] = fence[f]
  PROVE  Created' = Created /\ InOrder'
  <1>1. ASSUME NEW f \in Fences PROVE f \in Created' <=> f \in Created
    <2>1. CASE f \in Created
      <3>1. fence[f].owner # None
        BY <2>1 DEF FencesInv, InOrder
      <3> QED
        BY <2>1, <3>1 DEF Created, NoFence
    <2>2. CASE f \notin Created
      <3>1. fence[f] = NoFence /\ fence'[f] = fence[f]
        BY <2>2 DEF Created
      <3> QED
        BY <2>2, <3>1 DEF Created
    <2> QED
      BY <2>1, <2>2
  <1>2. Created' = Created
    BY <1>1 DEF Created
  <1>3. InOrder'
    BY <1>2 DEF FencesInv, InOrder
  <1> QED
    BY <1>2, <1>3

(* The fence gets its entry in the idr.                                    *)
LEMMA IdrAllocStep ==
  ASSUME FencesInv, NEW c \in Clients, idr_alloc(c)
  PROVE  FencesInv'
  <1> DEFINE d == Domain(c)
             i == Min(FreeIds(idr[d]))
             f == thread[c].hand
             r == [thread[c] EXCEPT !.pc = "attach", !.handle = i]
  <1>1. /\ thread[c].pc = "publish"
        /\ idr' = [idr EXCEPT ![d][i] = f] /\ thread' = [thread EXCEPT ![c] = r]
        /\ UNCHANGED <<driver, kernel, fence, resv, held>>
    BY DEF idr_alloc, Build
  <1>2. /\ thread[c] \in ThreadRec /\ CallOK(c) /\ d \in Domains
        /\ f \in Created /\ f \in Fences /\ ~fence[f].signalled
    BY <1>1, ClientFacts DEF CallOK, ThreadRec
  <1>3. thread[c].handle = None
    BY <1>1, <1>2 DEF CallOK
  <1>4. i \in Ids /\ idr[d][i] = None
    <2>1. FreeIds(idr[d]) # {}
      <3> SUFFICES ASSUME FreeIds(idr[d]) = {} PROVE FALSE
        OBVIOUS
      <3>1. UsedIds(d) = Fences
        BY <1>2 DEF FreeIds, UsedIds, Ids, Fences
      <3>2. Cardinality(UsedIds(d)) = MaxFences
        BY <3>1, CountsAreNat
      <3>3. Cardinality(Publishers(d)) # 0
        <4>1. c \in Publishers(d)
          BY <1>1 DEF Publishers
        <4> QED
          BY <4>1, CountsAreNat, FS_EmptySet
      <3>4. Cardinality(Created) <= MaxFences
        <4>1. Created \in SUBSET Fences
          BY DEF Created
        <4> QED
          BY <4>1, CountsAreNat, FS_Subset
      <3>5. /\ Cardinality(UsedIds(d)) + Cardinality(Publishers(d))
                  <= Cardinality(Created)
            /\ Cardinality(Publishers(d)) \in Nat /\ Cardinality(Created) \in Nat
        BY <1>2, CountsAreNat DEF FencesInv, IdsLeft
      <3> QED
        BY <3>2, <3>3, <3>4, <3>5, FencesAssumption
    <2> QED
      BY <2>1, FirstFreeId DEF FreeIds
  <1> HIDE DEF d, i, f
  <1>5. /\ r \in ThreadRec /\ r.pc = "attach" /\ r.handle = i
        /\ r.hand = f /\ r.buf = thread[c].buf /\ r.mode = thread[c].mode
    BY <1>2, <1>4 DEF ThreadRec, f
  <1> HIDE DEF r
  <1>6. /\ \A e \in Clients \ {c} : thread'[e] = thread[e]
        /\ thread'[c] = r /\ thread' \in [Clients -> ThreadRec]
        /\ \A e \in Clients : Domain(e)' = Domain(e)
        /\ i # None
    BY <1>1, <1>4, <1>5 DEF FencesInv, Types, Domain, Ids, None
  <1>7. /\ idr' \in [Domains -> [Ids -> Fences \cup {None, Taken}]]
        /\ idr'[d][i] = f
        /\ \A g \in Domains, k \in Ids :
              ~(g = d /\ k = i) => idr'[g][k] = idr[g][k]
    BY <1>1, <1>2, <1>4 DEF FencesInv, Types
  <1>8. /\ \A g \in Domains : \A k \in Ids : idr[g][k] # f
        /\ \A e \in Clients \ {c} : thread[e].hand # f
    <2>1. thread[c].hand = f /\ f # None
      BY <1>2 DEF f, Fences, None
    <2> QED
      BY <1>2, <1>3, <2>1 DEF FencesInv, OneOwner, Ids, None
  <1>9. \A e \in Clients \ {c} : Domain(e) = d => thread[e].handle # i
    <2> SUFFICES ASSUME NEW e \in Clients, e # c, Domain(e) = d, thread[e].handle = i
                 PROVE  FALSE
      OBVIOUS
    <2>1. idr[d][i] # None
      BY <1>6, HandleInUse
    <2> QED
      BY <1>4, <2>1
  <1>10. Types'
    BY <1>1, <1>6, <1>7 DEF FencesInv, Types
  <1>11. Created' = Created /\ InOrder'
    BY <1>1 DEF FencesInv, InOrder, Created
  <1>12. CallsOK'
    <2> SUFFICES ASSUME NEW e \in Clients PROVE CallOK(e)'
      BY DEF CallsOK
    <2>1. CallOK(e) /\ thread[e] \in ThreadRec /\ Domain(e) \in Domains
      BY ClientFacts
    <2>2. CASE e = c
      <3>1. Domain(c) = d
        BY DEF d
      <3>2. f # None /\ f = thread[c].hand
        BY <1>2 DEF f, Fences, None
      <3> QED
        BY <1>1, <1>5, <1>6, <1>7, <2>1, <2>2, <3>1, <3>2 DEF CallOK, Making
    <2>3. CASE e # c
      <3>1. thread[e].handle # None =>
               idr'[Domain(e)][thread[e].handle] = idr[Domain(e)][thread[e].handle]
        BY <1>7, <1>9, <2>1, <2>3 DEF ThreadRec
      <3> QED
        BY <1>1, <1>6, <2>1, <2>3, <3>1 DEF CallOK, Making
    <2> QED
      BY <2>2, <2>3
  <1>13. OneOwner'
    <2>1. \A p, e \in Clients : p # e =>
             /\ thread'[p].hand # None => thread'[p].hand # thread'[e].hand
             /\ thread'[p].handle # None /\ Domain(p)' = Domain(e)' =>
                   thread'[p].handle # thread'[e].handle
      <3>1. \A e \in Clients : thread'[e].hand = thread[e].hand
        BY <1>5, <1>6 DEF f
      <3>2. Domain(c) = d
        BY DEF d
      <3> QED
        BY <1>5, <1>6, <1>9, <3>1, <3>2 DEF FencesInv, OneOwner
    <2>2. \A p, g \in Domains : \A k, l \in Ids :
             idr'[p][k] \in Fences /\ idr'[p][k] = idr'[g][l] => p = g /\ k = l
      BY <1>2, <1>4, <1>7, <1>8 DEF FencesInv, OneOwner
    <2>3. \A e \in Clients : \A p \in Domains : \A k \in Ids :
             idr'[p][k] \in Fences /\ idr'[p][k] = thread'[e].hand =>
                p = Domain(e)' /\ k = thread'[e].handle
      <3> SUFFICES ASSUME NEW e \in Clients, NEW p \in Domains, NEW k \in Ids,
                          idr'[p][k] \in Fences, idr'[p][k] = thread'[e].hand
                   PROVE  p = Domain(e) /\ k = thread'[e].handle
        BY <1>6
      <3>1. CASE p = d /\ k = i
        <4>1. e = c
          BY <1>6, <1>7, <1>8, <3>1
        <4> QED
          BY <1>5, <1>6, <3>1, <4>1 DEF d
      <3>2. CASE ~(p = d /\ k = i)
        <4>1. idr[p][k] \in Fences /\ idr[p][k] = thread'[e].hand
          BY <1>7, <3>2
        <4>2. e # c
          BY <1>5, <1>6, <1>8, <4>1
        <4> QED
          BY <1>6, <4>1, <4>2 DEF FencesInv, OneOwner
      <3> QED
        BY <3>1, <3>2
    <2> QED
      BY <2>1, <2>2, <2>3 DEF OneOwner
  <1>14. HeldOK'
    <2> SUFFICES ASSUME NEW e \in Clients, NEW h \in held[e]
                 PROVE  /\ idr'[Domain(e)][h] \in Fences
                        /\ fence[idr'[Domain(e)][h]].owner = e
                        /\ \A p \in Clients : Domain(p) = Domain(e) =>
                              thread'[p].handle # h
      BY <1>1, <1>6 DEF HeldOK
    <2>1. h \in Ids /\ Domain(e) \in Domains
      BY ClientFacts
    <2>2. /\ idr[Domain(e)][h] \in Fences /\ fence[idr[Domain(e)][h]].owner = e
          /\ \A p \in Clients : Domain(p) = Domain(e) => thread[p].handle # h
      BY DEF FencesInv, HeldOK
    <2>3. ~(Domain(e) = d /\ h = i)
      BY <1>4, <2>2 DEF Fences, None
    <2>4. Domain(c) = d
      BY DEF d
    <2> QED
      BY <1>5, <1>6, <1>7, <2>1, <2>2, <2>3, <2>4
  <1>15. \A g \in Fences : Reachable(g)' <=> Reachable(g)
    <2>1. \A e \in Clients : thread'[e].hand = thread[e].hand
      BY <1>5, <1>6 DEF f
    <2>2. DOMAIN idr' = Domains /\ DOMAIN idr = Domains
      BY <1>7 DEF FencesInv, Types
    <2>3. thread[c].hand = f
      BY DEF f
    <2> QED
      BY <1>2, <1>4, <1>7, <2>1, <2>2, <2>3 DEF Reachable, Fences, None
  <1>16. Unsignalled'
    BY <1>1, <1>11, <1>15 DEF FencesInv, Unsignalled
  <1>17. RefsOK'
    <2>1. \A g : OnBuffer(g)' <=> OnBuffer(g)
      BY <1>1 DEF OnBuffer
    <2>2. Created \subseteq Fences
      BY DEF Created
    <2> QED
      BY <1>1, <1>11, <1>15, <2>1, <2>2 DEF FencesInv, RefsOK
  <1>18. IdsLeft'
    <2> SUFFICES ASSUME NEW g \in Domains
                 PROVE  Cardinality(UsedIds(g)') + Cardinality(Publishers(g)')
                          <= Cardinality(Created')
      BY DEF IdsLeft
    <2>1. CASE g # d
      <3>1. UsedIds(g)' \subseteq UsedIds(g) /\ Publishers(g)' \subseteq Publishers(g)
        BY <1>5, <1>6, <1>7, <2>1 DEF UsedIds, Publishers
      <3> QED
        BY <1>11, <3>1, IdsLeftKept, CountsAreNat
    <2>2. CASE g = d
      <3>1. UsedIds(g)' = UsedIds(g) \cup {i} /\ i \notin UsedIds(g)
        BY <1>2, <1>4, <1>7, <2>2 DEF UsedIds, Fences, None
      <3>2. Publishers(g)' = Publishers(g) \ {c} /\ c \in Publishers(g)
        BY <1>1, <1>5, <1>6, <2>2 DEF Publishers, d
      <3>3. /\ Cardinality(UsedIds(g)') = Cardinality(UsedIds(g)) + 1
            /\ Cardinality(Publishers(g)') = Cardinality(Publishers(g)) - 1
        <4>1. IsFiniteSet(UsedIds(g)) /\ IsFiniteSet(Publishers(g))
          BY CountsAreNat
        <4>2. Cardinality(UsedIds(g) \cup {i}) = Cardinality(UsedIds(g)) + 1
          BY <3>1, <4>1, FS_AddElement
        <4>3. Cardinality(Publishers(g) \ {c}) = Cardinality(Publishers(g)) - 1
          BY <3>2, <4>1, FS_RemoveElement
        <4> QED
          BY <3>1, <3>2, <4>2, <4>3
      <3>4. /\ Cardinality(UsedIds(g)) + Cardinality(Publishers(g))
                 <= Cardinality(Created)
            /\ Cardinality(UsedIds(g)) \in Nat /\ Cardinality(Publishers(g)) \in Nat
            /\ Cardinality(Created) \in Nat
        BY CountsAreNat DEF FencesInv, IdsLeft
      <3> QED
        BY <1>11, <3>3, <3>4
    <2> QED
      BY <2>1, <2>2
  <1> QED
    BY <1>10, <1>11, <1>12, <1>13, <1>14, <1>16, <1>17, <1>18 DEF FencesInv

(* A client that is done with its fence signals it: nobody reaches it any  *)
(* more.  The entry goes with it when an acquisition is undone, and stays  *)
(* for a moment, without the fence, when a handle is released.             *)
LEMMA SignalStep ==
  ASSUME FencesInv, NEW c \in Clients, Undo(c) \/ ReleaseSignal(c)
  PROVE  FencesInv'
  <1> DEFINE d == Domain(c)
             i == thread[c].handle
             f == thread[c].hand
             r == IF thread[c].pc = "undo" THEN Out("idle")
                  ELSE [thread[c] EXCEPT !.pc = "remove", !.hand = None]
  <1>1. /\ thread[c].pc \in {"undo", "signal"}
        /\ fence' = SignalAndPut(f) /\ thread' = [thread EXCEPT ![c] = r]
        /\ idr' = IF thread[c].pc = "undo" /\ i # None
                  THEN [idr EXCEPT ![d][i] = None] ELSE idr
        /\ UNCHANGED <<driver, kernel, resv, held>>
    <2>1. CASE Undo(c)
      BY <2>1 DEF Undo, Return, Build
    <2>2. CASE ReleaseSignal(c)
      BY <2>2 DEF ReleaseSignal, Build
    <2> QED
      BY <2>1, <2>2
  <1>2. /\ thread[c] \in ThreadRec /\ CallOK(c) /\ d \in Domains
        /\ f \in Created /\ f \in Fences /\ ~fence[f].signalled /\ i \in Ids \cup {None}
    BY <1>1, ClientFacts DEF CallOK, ThreadRec
  <1> HIDE DEF d, i, f
  <1>3. /\ r \in ThreadRec /\ r.hand = None
        /\ thread[c].pc = "undo" => r.pc = "idle" /\ r.handle = None
        /\ thread[c].pc # "undo" => r.pc = "remove" /\ r.handle = i
    BY <1>2 DEF ThreadRec, Out, Modes, i
  <1> HIDE DEF r
  <1>4. /\ \A e \in Clients \ {c} : thread'[e] = thread[e]
        /\ thread'[c] = r /\ thread' \in [Clients -> ThreadRec]
        /\ \A e \in Clients : Domain(e)' = Domain(e)
    BY <1>1, <1>3 DEF FencesInv, Types, Domain
  <1>5. Reachable(f) /\ fence[f].refs > 0
    <2>1. Reachable(f)
      BY DEF Reachable, f
    <2>2. fence[f].refs = 1 + (IF OnBuffer(f) THEN 1 ELSE 0)
      BY <1>2, <2>1 DEF FencesInv, RefsOK
    <2> QED
      BY <2>1, <2>2
  <1>6. /\ fence' \in [Fences -> FenceRec]
        /\ \A g \in Fences \ {f} : fence'[g] = fence[g]
        /\ fence'[f].owner = fence[f].owner /\ fence'[f].buf = fence[f].buf
        /\ fence'[f].mode = fence[f].mode
        /\ fence'[f].signalled /\ fence'[f].refs = fence[f].refs - 1
    <2> DEFINE q == [fence[f] EXCEPT !.signalled = TRUE, !.refs = @ - 1]
    <2>1. fence[f] \in FenceRec
      BY <1>2 DEF FencesInv, Types
    <2>2. fence[f].refs - 1 \in Nat
      BY <1>5, <2>1 DEF FenceRec
    <2>3. /\ q \in FenceRec /\ q.owner = fence[f].owner /\ q.buf = fence[f].buf
          /\ q.mode = fence[f].mode /\ q.signalled /\ q.refs = fence[f].refs - 1
      BY <2>1, <2>2 DEF FenceRec
    <2>4. fence' = [fence EXCEPT ![f] = q]
      BY <1>1 DEF SignalAndPut
    <2> HIDE DEF q
    <2> QED
      BY <1>2, <2>3, <2>4 DEF FencesInv, Types
  <1>7. i # None => i \in Ids /\ idr[d][i] # None
    BY <1>2, HandleInUse DEF i, d
  <1>8. \A e \in Clients \ {c} :
           /\ thread[e].hand # f
           /\ Domain(e) = d /\ i # None => thread[e].handle # i
    <2>1. thread[c].hand # None /\ f = thread[c].hand /\ i = thread[c].handle
      BY <1>2 DEF f, i, Fences, None
    <2> QED
      BY <2>1 DEF FencesInv, OneOwner, d
  <1>9. /\ idr' \in [Domains -> [Ids -> Fences \cup {None, Taken}]]
        /\ \A g \in Domains, k \in Ids :
              ~(g = d /\ k = i) => idr'[g][k] = idr[g][k]
        /\ \A g \in Domains, k \in Ids : idr'[g][k] \in {idr[g][k], None}
        /\ \A g \in Domains, k \in Ids : idr'[g][k] # f
    <2>1. \A g \in Domains, k \in Ids : idr[g][k] = f => g = d /\ k = i
      BY <1>2 DEF FencesInv, OneOwner, d, i, f
    <2>2. CASE thread[c].pc = "undo" /\ i # None
      <3>1. /\ idr' = [idr EXCEPT ![d][i] = None] /\ i \in Ids
        BY <1>1, <1>7, <2>2
      <3>2. /\ idr' \in [Domains -> [Ids -> Fences \cup {None, Taken}]]
            /\ idr'[d][i] = None
            /\ \A g \in Domains, k \in Ids :
                  ~(g = d /\ k = i) => idr'[g][k] = idr[g][k]
        BY <1>2, <3>1 DEF FencesInv, Types
      <3> QED
        BY <1>2, <2>1, <3>2 DEF Fences, None
    <2>3. CASE ~(thread[c].pc = "undo" /\ i # None)
      <3>1. idr' = idr
        BY <1>1, <2>3
      <3>2. \A g \in Domains, k \in Ids : idr[g][k] # f
        <4>1. CASE thread[c].pc = "undo"
          BY <2>1, <2>3, <4>1 DEF Ids, None
        <4>2. CASE thread[c].pc = "signal"
          <5>1. idr[d][i] = Taken
            BY <1>2, <4>2 DEF CallOK, d, i
          <5>2. Taken # f
            BY <1>2, FencesAssumption DEF Taken, Fences
          <5> QED
            BY <2>1, <5>1, <5>2
        <4> QED
          BY <1>1, <4>1, <4>2
      <3> QED
        BY <3>1, <3>2 DEF FencesInv, Types
    <2> QED
      BY <2>2, <2>3
  <1>10. Types'
    BY <1>1, <1>4, <1>6, <1>9 DEF FencesInv, Types
  <1>11. Created' = Created /\ InOrder'
    BY <1>2, <1>6, CreatedStays
  <1>12. CallsOK'
    <2> SUFFICES ASSUME NEW e \in Clients PROVE CallOK(e)'
      BY DEF CallsOK
    <2>1. CASE e = c
      <3>1. CASE thread[c].pc = "undo"
        BY <1>3, <1>4, <2>1, <3>1 DEF CallOK, Making
      <3>2. CASE thread[c].pc = "signal"
        <4>1. i # None /\ idr[d][i] = Taken /\ idr' = idr
          BY <1>1, <1>2, <3>2 DEF CallOK, d, i
        <4> QED
          BY <1>3, <1>4, <2>1, <3>2, <4>1 DEF CallOK, Making, d
      <3> QED
        BY <1>1, <3>1, <3>2
    <2>2. CASE e # c
      <3>1. CallOK(e) /\ thread[e] \in ThreadRec /\ Domain(e) \in Domains
        BY ClientFacts
      <3>2. thread[e].handle # None =>
               idr'[Domain(e)][thread[e].handle] = idr[Domain(e)][thread[e].handle]
        BY <1>7, <1>8, <1>9, <2>2, <3>1 DEF ThreadRec
      <3>3. thread[e].hand # None => fence'[thread[e].hand] = fence[thread[e].hand]
        BY <1>6, <1>8, <2>2, <3>1 DEF ThreadRec
      <3> QED
        BY <1>1, <1>4, <2>2, <3>1, <3>2, <3>3 DEF CallOK, Making
    <2> QED
      BY <2>1, <2>2
  <1>13. OneOwner'
    <2>1. \A p, e \in Clients : p # e =>
             /\ thread'[p].hand # None => thread'[p].hand # thread'[e].hand
             /\ thread'[p].handle # None /\ Domain(p)' = Domain(e)' =>
                   thread'[p].handle # thread'[e].handle
      <3>1. thread'[c].hand = None /\ thread'[c].handle \in {i, None}
        BY <1>1, <1>3, <1>4
      <3>2. Domain(c) = d
        BY DEF d
      <3> QED
        BY <1>4, <1>8, <3>1, <3>2 DEF FencesInv, OneOwner
    <2>2. \A p, g \in Domains : \A k, l \in Ids :
             idr'[p][k] \in Fences /\ idr'[p][k] = idr'[g][l] => p = g /\ k = l
      BY <1>9 DEF FencesInv, OneOwner, Fences, None
    <2>3. \A e \in Clients : \A p \in Domains : \A k \in Ids :
             idr'[p][k] \in Fences /\ idr'[p][k] = thread'[e].hand =>
                p = Domain(e)' /\ k = thread'[e].handle
      <3> SUFFICES ASSUME NEW e \in Clients, NEW p \in Domains, NEW k \in Ids,
                          idr'[p][k] \in Fences, idr'[p][k] = thread'[e].hand
                   PROVE  p = Domain(e) /\ k = thread'[e].handle
        BY <1>4
      <3>1. idr[p][k] = idr'[p][k]
        BY <1>9 DEF Fences, None
      <3>2. e # c
        BY <1>3, <1>4 DEF Fences, None
      <3> QED
        BY <1>4, <3>1, <3>2 DEF FencesInv, OneOwner
    <2> QED
      BY <2>1, <2>2, <2>3 DEF OneOwner
  <1>14. HeldOK'
    <2> SUFFICES ASSUME NEW e \in Clients, NEW h \in held[e]
                 PROVE  /\ idr'[Domain(e)][h] \in Fences
                        /\ fence'[idr'[Domain(e)][h]].owner = e
                        /\ \A p \in Clients : Domain(p) = Domain(e) =>
                              thread'[p].handle # h
      BY <1>1, <1>4 DEF HeldOK
    <2>1. h \in Ids /\ Domain(e) \in Domains
      BY ClientFacts
    <2>2. /\ idr[Domain(e)][h] \in Fences /\ fence[idr[Domain(e)][h]].owner = e
          /\ \A p \in Clients : Domain(p) = Domain(e) => thread[p].handle # h
      BY DEF FencesInv, HeldOK
    <2>3. ~(Domain(e) = d /\ h = i)
      BY <2>2 DEF d, i
    <2>4. idr'[Domain(e)][h] = idr[Domain(e)][h]
      BY <1>9, <2>1, <2>3
    <2>5. fence'[idr[Domain(e)][h]].owner = fence[idr[Domain(e)][h]].owner
      BY <1>6, <2>2
    <2>6. \A p \in Clients : Domain(p) = Domain(e) => thread'[p].handle # h
      <3>1. thread'[c].handle \in {i, None} /\ h # None /\ i = thread[c].handle
        BY <1>1, <1>3, <1>4, <2>1 DEF Ids, None, i
      <3> QED
        BY <1>4, <2>2, <3>1
    <2> QED
      BY <2>2, <2>4, <2>5, <2>6
  <1>15. \A g \in Fences : Reachable(g)' <=> Reachable(g) /\ g # f
    <2>1. DOMAIN idr' = Domains /\ DOMAIN idr = Domains
      BY <1>9 DEF FencesInv, Types
    <2>2. \A g \in Fences \ {f} : \A p \in Domains, k \in Ids :
             idr'[p][k] = g <=> idr[p][k] = g
      <3> SUFFICES ASSUME NEW g \in Fences, g # f, NEW p \in Domains, NEW k \in Ids,
                          idr[p][k] = g, idr'[p][k] # g
                   PROVE  FALSE
        BY <1>9 DEF Fences, None
      <3>1. p = d /\ k = i /\ i # None
        BY <1>9 DEF Ids, None
      <3>2. thread[c].pc = "undo"
        BY <1>1
      <3>3. idr[d][i] = f
        BY <1>2, <3>1, <3>2 DEF CallOK, Making, d, i, f
      <3> QED
        BY <3>1, <3>3
    <2>3. \A g \in Fences \ {f} : \A e \in Clients :
             thread'[e].hand = g <=> thread[e].hand = g
      BY <1>3, <1>4 DEF f, Fences, None
    <2>4. \A e \in Clients : thread'[e].hand # f
      BY <1>2, <1>3, <1>4, <1>8 DEF Fences, None
    <2> QED
      BY <1>9, <2>1, <2>2, <2>3, <2>4 DEF Reachable
  <1>16. Unsignalled'
    BY <1>6, <1>11, <1>15 DEF FencesInv, Unsignalled
  <1>17. RefsOK'
    <2>1. \A g : OnBuffer(g)' <=> OnBuffer(g)
      BY <1>1 DEF OnBuffer
    <2>2. Created \subseteq Fences
      BY DEF Created
    <2>3. \A b \in Buffers : \A g \in resv[b] : fence'[g].buf = b
      <3>1. \A b \in Buffers : \A g \in resv[b] : g \in Fences /\ fence[g].buf = b
        BY <2>2 DEF FencesInv, RefsOK
      <3> QED
        BY <1>6, <3>1
    <2>4. ASSUME NEW g \in Created
          PROVE  fence'[g].refs = (IF Reachable(g)' THEN 1 ELSE 0)
                                  + (IF OnBuffer(g)' THEN 1 ELSE 0)
      <3>1. fence[g].refs = (IF Reachable(g) THEN 1 ELSE 0)
                            + (IF OnBuffer(g) THEN 1 ELSE 0)
        BY DEF FencesInv, RefsOK
      <3> QED
        BY <1>5, <1>6, <1>15, <2>1, <2>2, <3>1
    <2> QED
      BY <1>1, <1>11, <2>3, <2>4 DEF FencesInv, RefsOK
  <1>18. IdsLeft'
    <2> SUFFICES ASSUME NEW g \in Domains
                 PROVE  Cardinality(UsedIds(g)') + Cardinality(Publishers(g)')
                          <= Cardinality(Created')
      BY DEF IdsLeft
    <2>1. UsedIds(g)' \subseteq UsedIds(g)
      BY <1>9 DEF UsedIds
    <2>2. Publishers(g)' \subseteq Publishers(g)
      BY <1>1, <1>3, <1>4 DEF Publishers
    <2> QED
      BY <1>11, <2>1, <2>2, IdsLeftKept, CountsAreNat
  <1> QED
    BY <1>10, <1>11, <1>12, <1>13, <1>14, <1>16, <1>17, <1>18 DEF FencesInv

(* The released id is given back.                                          *)
LEMMA ReleaseRemoveStep ==
  ASSUME FencesInv, NEW c \in Clients, ReleaseRemove(c)
  PROVE  FencesInv'
  <1> DEFINE d == Domain(c)
             i == thread[c].handle
             r == Out("idle")
  <1>1. /\ thread[c].pc = "remove" /\ thread' = [thread EXCEPT ![c] = r]
        /\ idr' = [idr EXCEPT ![d][i] = None]
        /\ UNCHANGED <<driver, kernel, fence, resv, held>>
    BY DEF ReleaseRemove, Return, Build
  <1>2. /\ thread[c] \in ThreadRec /\ d \in Domains
        /\ i \in Ids /\ idr[d][i] = Taken /\ thread[c].hand = None
    BY <1>1, ClientFacts DEF CallOK, ThreadRec
  <1> HIDE DEF d, i
  <1>3. /\ r \in ThreadRec /\ r.hand = None /\ r.handle = None /\ r.pc = "idle"
    BY DEF ThreadRec, Out, Modes
  <1> HIDE DEF r
  <1>4. /\ \A e \in Clients \ {c} : thread'[e] = thread[e]
        /\ thread'[c] = r /\ thread' \in [Clients -> ThreadRec]
        /\ \A e \in Clients : Domain(e)' = Domain(e)
        /\ \A e \in Clients : thread'[e].hand = thread[e].hand
    BY <1>1, <1>2, <1>3 DEF FencesInv, Types, Domain
  <1>5. /\ idr' \in [Domains -> [Ids -> Fences \cup {None, Taken}]]
        /\ idr'[d][i] = None
        /\ \A g \in Domains, k \in Ids :
              ~(g = d /\ k = i) => idr'[g][k] = idr[g][k]
    BY <1>1, <1>2 DEF FencesInv, Types
  <1>6. i # None /\ Taken \notin Fences /\ None \notin Fences
    BY <1>2, FencesAssumption DEF Ids, None, Taken, Fences
  <1>7. \A e \in Clients \ {c} : Domain(e) = d => thread[e].handle # i
    <2>1. thread[c].handle = i
      BY DEF i
    <2> QED
      BY <1>6, <2>1 DEF FencesInv, OneOwner, d
  <1>8. Types'
    BY <1>1, <1>4, <1>5 DEF FencesInv, Types
  <1>9. Created' = Created /\ InOrder'
    BY <1>1 DEF FencesInv, InOrder, Created
  <1>10. CallsOK'
    <2> SUFFICES ASSUME NEW e \in Clients PROVE CallOK(e)'
      BY DEF CallsOK
    <2>1. CASE e = c
      BY <1>3, <1>4, <2>1 DEF CallOK, Making
    <2>2. CASE e # c
      <3>1. CallOK(e) /\ thread[e] \in ThreadRec /\ Domain(e) \in Domains
        BY ClientFacts
      <3>2. thread[e].handle # None =>
               idr'[Domain(e)][thread[e].handle] = idr[Domain(e)][thread[e].handle]
        BY <1>5, <1>7, <2>2, <3>1 DEF ThreadRec
      <3> QED
        BY <1>1, <1>4, <2>2, <3>1, <3>2 DEF CallOK, Making
    <2> QED
      BY <2>1, <2>2
  <1>11. \A g \in Domains, k \in Ids : idr'[g][k] \in Fences => idr'[g][k] = idr[g][k]
    BY <1>5, <1>6
  <1>12. \A g \in Domains, k \in Ids : idr[g][k] \in Fences => idr'[g][k] = idr[g][k]
    BY <1>2, <1>5, <1>6
  <1>13. OneOwner'
    <2>1. \A e \in Clients : thread'[e].handle \in {thread[e].handle, None}
      BY <1>3, <1>4
    <2>2. \A e, p \in Clients :
             e # p /\ Domain(e)' = Domain(p)' /\ thread'[e].handle # None =>
                thread'[e].handle # thread'[p].handle
      BY <1>4, <2>1 DEF FencesInv, OneOwner
    <2>3. \A e \in Clients : \A p \in Domains : \A k \in Ids :
             idr'[p][k] \in Fences /\ idr'[p][k] = thread'[e].hand =>
                p = Domain(e)' /\ k = thread'[e].handle
      <3> SUFFICES ASSUME NEW e \in Clients, NEW p \in Domains, NEW k \in Ids,
                          idr'[p][k] \in Fences, idr'[p][k] = thread'[e].hand
                   PROVE  p = Domain(e) /\ k = thread'[e].handle
        BY <1>4
      <3>1. e # c
        BY <1>3, <1>4, <1>6
      <3> QED
        BY <1>4, <1>11, <3>1 DEF FencesInv, OneOwner
    <2>4. \A p, g \in Domains : \A k, l \in Ids :
             idr'[p][k] \in Fences /\ idr'[p][k] = idr'[g][l] => p = g /\ k = l
      BY <1>11 DEF FencesInv, OneOwner
    <2>5. \A e, p \in Clients : e # p /\ thread'[e].hand # None =>
             thread'[e].hand # thread'[p].hand
      BY <1>4 DEF FencesInv, OneOwner
    <2> QED
      BY <2>2, <2>3, <2>4, <2>5 DEF OneOwner
  <1>14. HeldOK'
    <2> SUFFICES ASSUME NEW e \in Clients, NEW h \in held[e]
                 PROVE  /\ idr'[Domain(e)][h] \in Fences
                        /\ fence[idr'[Domain(e)][h]].owner = e
                        /\ \A p \in Clients : Domain(p) = Domain(e) =>
                              thread'[p].handle # h
      BY <1>1, <1>4 DEF HeldOK
    <2>1. h \in Ids /\ Domain(e) \in Domains /\ h # None
      BY ClientFacts DEF Ids, None
    <2>2. /\ idr[Domain(e)][h] \in Fences /\ fence[idr[Domain(e)][h]].owner = e
          /\ \A p \in Clients : Domain(p) = Domain(e) => thread[p].handle # h
      BY DEF FencesInv, HeldOK
    <2> QED
      BY <1>3, <1>4, <1>12, <2>1, <2>2
  <1>15. \A g \in Fences : Reachable(g)' <=> Reachable(g)
    <2>1. DOMAIN idr' = Domains /\ DOMAIN idr = Domains
      BY <1>5 DEF FencesInv, Types
    <2> QED
      BY <1>4, <1>11, <1>12, <2>1 DEF Reachable
  <1>16. Unsignalled'
    BY <1>1, <1>9, <1>15 DEF FencesInv, Unsignalled
  <1>17. RefsOK'
    <2>1. \A g : OnBuffer(g)' <=> OnBuffer(g)
      BY <1>1 DEF OnBuffer
    <2>2. Created \subseteq Fences
      BY DEF Created
    <2> QED
      BY <1>1, <1>9, <1>15, <2>1, <2>2 DEF FencesInv, RefsOK
  <1>18. IdsLeft'
    <2> SUFFICES ASSUME NEW g \in Domains
                 PROVE  Cardinality(UsedIds(g)') + Cardinality(Publishers(g)')
                          <= Cardinality(Created')
      BY DEF IdsLeft
    <2>1. UsedIds(g)' \subseteq UsedIds(g)
      BY <1>5 DEF UsedIds
    <2>2. Publishers(g)' \subseteq Publishers(g)
      BY <1>3, <1>4 DEF Publishers
    <2> QED
      BY <1>9, <2>1, <2>2, IdsLeftKept, CountsAreNat
  <1> QED
    BY <1>8, <1>9, <1>10, <1>13, <1>14, <1>16, <1>17, <1>18 DEF FencesInv

(* A handle is released: from now on its entry is the releasing thread's.  *)
LEMMA ReleaseFenceStep ==
  ASSUME FencesInv, NEW c \in Clients, NEW i \in held[c], ReleaseFence(c, i)
  PROVE  FencesInv'
  <1> DEFINE d == Domain(c)
             f == idr[d][i]
             r == [Out("signal") EXCEPT !.hand = f, !.handle = i]
  <1>1. i \in Ids /\ d \in Domains /\ thread[c] \in ThreadRec
    BY ClientFacts
  <1>2. /\ f \in Fences /\ fence[f].owner = c
        /\ \A e \in Clients : Domain(e) = d => thread[e].handle # i
    BY DEF FencesInv, HeldOK
  <1>3. /\ thread[c].pc = "idle" /\ thread' = [thread EXCEPT ![c] = r]
        /\ held' = [held EXCEPT ![c] = @ \ {i}]
        /\ idr' = [idr EXCEPT ![d][i] = Taken]
        /\ UNCHANGED <<driver, kernel, fence, resv>>
    BY <1>2 DEF ReleaseFence, Build
  <1>4. thread[c].hand = None /\ thread[c].handle = None
    BY <1>3, ClientFacts DEF CallOK
  <1> HIDE DEF d, f
  <1>5. /\ r \in ThreadRec /\ r.hand = f /\ r.handle = i /\ r.pc = "signal"
    BY <1>1, <1>2 DEF ThreadRec, Out, Modes
  <1> HIDE DEF r
  <1>6. /\ \A e \in Clients \ {c} : thread'[e] = thread[e]
        /\ thread'[c] = r /\ thread' \in [Clients -> ThreadRec]
        /\ \A e \in Clients : Domain(e)' = Domain(e)
    BY <1>3, <1>5 DEF FencesInv, Types, Domain
  <1>7. /\ idr' \in [Domains -> [Ids -> Fences \cup {None, Taken}]]
        /\ idr'[d][i] = Taken
        /\ \A g \in Domains, k \in Ids :
              ~(g = d /\ k = i) => idr'[g][k] = idr[g][k]
    BY <1>1, <1>3 DEF FencesInv, Types
  <1>8. i # None /\ Taken \notin Fences /\ None \notin Fences /\ Taken # None
    BY <1>1, FencesAssumption DEF Ids, None, Taken, Fences
  <1>9. \A g \in Domains, k \in Ids : idr'[g][k] \in Fences =>
           idr'[g][k] = idr[g][k] /\ idr[g][k] # f
    <2>1. idr[d][i] = f
      BY DEF f
    <2> QED
      BY <1>1, <1>2, <1>7, <1>8, <2>1 DEF FencesInv, OneOwner
  <1>10. \A e \in Clients : thread[e].hand # f
    <2> SUFFICES ASSUME NEW e \in Clients, thread[e].hand = f PROVE FALSE
      OBVIOUS
    <2>1. d = Domain(e) /\ i = thread[e].handle
      BY <1>1, <1>2 DEF FencesInv, OneOwner, f
    <2> QED
      BY <1>2, <2>1
  <1>11. Types'
    <2>1. held' \in [Clients -> SUBSET Ids]
      BY <1>3 DEF FencesInv, Types
    <2> QED
      BY <1>3, <1>6, <1>7, <2>1 DEF FencesInv, Types
  <1>12. Created' = Created /\ InOrder'
    BY <1>3 DEF FencesInv, InOrder, Created
  <1>13. CallsOK'
    <2> SUFFICES ASSUME NEW e \in Clients PROVE CallOK(e)'
      BY DEF CallsOK
    <2>1. CASE e = c
      <3>1. Domain(c)' = d
        BY <1>6 DEF d
      <3> QED
        BY <1>2, <1>5, <1>6, <1>7, <1>8, <2>1, <3>1 DEF CallOK, Making
    <2>2. CASE e # c
      <3>1. CallOK(e) /\ thread[e] \in ThreadRec /\ Domain(e) \in Domains
        BY ClientFacts
      <3>2. thread[e].handle # None =>
               idr'[Domain(e)][thread[e].handle] = idr[Domain(e)][thread[e].handle]
        BY <1>2, <1>7, <2>2, <3>1 DEF ThreadRec
      <3> QED
        BY <1>3, <1>6, <2>2, <3>1, <3>2 DEF CallOK, Making
    <2> QED
      BY <2>1, <2>2
  <1>14. OneOwner'
    <2>1. \A e, p \in Clients : e # p =>
             /\ thread'[e].hand # None => thread'[e].hand # thread'[p].hand
             /\ thread'[e].handle # None /\ Domain(e)' = Domain(p)' =>
                   thread'[e].handle # thread'[p].handle
      <3>1. Domain(c) = d
        BY DEF d
      <3> QED
        BY <1>2, <1>5, <1>6, <1>10, <3>1 DEF FencesInv, OneOwner
    <2>2. \A p, g \in Domains : \A k, l \in Ids :
             idr'[p][k] \in Fences /\ idr'[p][k] = idr'[g][l] => p = g /\ k = l
      BY <1>9 DEF FencesInv, OneOwner
    <2>3. \A e \in Clients : \A p \in Domains : \A k \in Ids :
             idr'[p][k] \in Fences /\ idr'[p][k] = thread'[e].hand =>
                p = Domain(e)' /\ k = thread'[e].handle
      BY <1>5, <1>6, <1>9 DEF FencesInv, OneOwner
    <2> QED
      BY <2>1, <2>2, <2>3 DEF OneOwner
  <1>15. HeldOK'
    <2> SUFFICES ASSUME NEW e \in Clients, NEW h \in held'[e]
                 PROVE  /\ idr'[Domain(e)][h] \in Fences
                        /\ fence[idr'[Domain(e)][h]].owner = e
                        /\ \A p \in Clients : Domain(p) = Domain(e) =>
                              thread'[p].handle # h
      BY <1>3, <1>6 DEF HeldOK
    <2>1. h \in held[e] /\ (e = c => h # i)
      BY <1>3 DEF FencesInv, Types
    <2>2. h \in Ids /\ Domain(e) \in Domains
      BY <2>1, ClientFacts
    <2>3. /\ idr[Domain(e)][h] \in Fences /\ fence[idr[Domain(e)][h]].owner = e
          /\ \A p \in Clients : Domain(p) = Domain(e) => thread[p].handle # h
      BY <2>1 DEF FencesInv, HeldOK
    <2>4. ~(Domain(e) = d /\ h = i)
      BY <1>2, <2>1, <2>3 DEF f
    <2>5. \A p \in Clients : Domain(p) = Domain(e) => thread'[p].handle # h
      <3>1. Domain(c) = d
        BY DEF d
      <3> QED
        BY <1>5, <1>6, <2>3, <2>4, <3>1
    <2> QED
      BY <1>7, <2>2, <2>3, <2>4, <2>5
  <1>16. \A g \in Fences : Reachable(g)' <=> Reachable(g)
    <2>1. DOMAIN idr' = Domains /\ DOMAIN idr = Domains
      BY <1>7 DEF FencesInv, Types
    <2>2. \A g \in Fences \ {f} : \A p \in Domains, k \in Ids :
             idr'[p][k] = g <=> idr[p][k] = g
      BY <1>7, <1>8 DEF f
    <2>3. \A g \in Fences \ {f} : \A e \in Clients :
             thread'[e].hand = g <=> thread[e].hand = g
      BY <1>4, <1>5, <1>6, <1>8
    <2>4. \A g \in Fences : g = f => Reachable(g)' /\ Reachable(g)
      BY <1>1, <1>5, <1>6, <2>1 DEF Reachable, f
    <2> QED
      BY <2>1, <2>2, <2>3, <2>4 DEF Reachable
  <1>17. Unsignalled'
    BY <1>3, <1>12, <1>16 DEF FencesInv, Unsignalled
  <1>18. RefsOK'
    <2>1. \A g : OnBuffer(g)' <=> OnBuffer(g)
      BY <1>3 DEF OnBuffer
    <2>2. Created \subseteq Fences
      BY DEF Created
    <2> QED
      BY <1>3, <1>12, <1>16, <2>1, <2>2 DEF FencesInv, RefsOK
  <1>19. IdsLeft'
    <2> SUFFICES ASSUME NEW g \in Domains
                 PROVE  Cardinality(UsedIds(g)') + Cardinality(Publishers(g)')
                          <= Cardinality(Created')
      BY DEF IdsLeft
    <2>1. UsedIds(g)' \subseteq UsedIds(g)
      <3>1. idr[d][i] # None
        BY <1>2, <1>8 DEF f
      <3> QED
        BY <1>7, <3>1 DEF UsedIds
    <2>2. Publishers(g)' \subseteq Publishers(g)
      BY <1>5, <1>6 DEF Publishers
    <2> QED
      BY <1>12, <2>1, <2>2, IdsLeftKept, CountsAreNat
  <1> QED
    BY <1>11, <1>12, <1>13, <1>14, <1>15, <1>17, <1>18, <1>19 DEF FencesInv

(* The fence is put on its buffer, and its id is returned: the entry alone *)
(* has it now.  Fences that the kernel lets go lose their reference.       *)
LEMMA AttachStep ==
  ASSUME FencesInv, NEW c \in Clients, Attach(c)
  PROVE  FencesInv'
  <1>1. PICK f, b, i, d, after :
           /\ f = thread[c].hand /\ b = thread[c].buf /\ i = thread[c].handle
           /\ d = Domain(c) /\ after = Added(b, f)
    OBVIOUS
  <1> DEFINE r == Out("idle")
  <1>2. /\ thread[c].pc = "attach" /\ thread' = [thread EXCEPT ![c] = r]
        /\ resv' = [resv EXCEPT ![b] = after]
        /\ fence' = Put(resv[b] \ after, after \ resv[b])
        /\ held' = [held EXCEPT ![c] = @ \cup {i}]
        /\ UNCHANGED <<driver, kernel, idr>>
    BY <1>1 DEF Attach, Return, Build
  <1>3. /\ thread[c] \in ThreadRec /\ d \in Domains
        /\ f \in Created /\ f \in Fences /\ ~fence[f].signalled
        /\ i \in Ids /\ idr[d][i] = f /\ b \in Buffers
        /\ fence[f].owner = c /\ fence[f].buf = b /\ \A p \in Buffers : f \notin resv[p]
    BY <1>1, <1>2, ClientFacts DEF CallOK, Making, ThreadRec
  <1>4. /\ r \in ThreadRec /\ r.hand = None /\ r.handle = None /\ r.pc = "idle"
    BY DEF ThreadRec, Out, Modes
  <1> HIDE DEF r
  <1>5. /\ \A e \in Clients \ {c} : thread'[e] = thread[e]
        /\ thread'[c] = r /\ thread' \in [Clients -> ThreadRec]
        /\ \A e \in Clients : Domain(e)' = Domain(e)
    BY <1>2, <1>4 DEF FencesInv, Types, Domain
  <1>6. /\ resv[b] \subseteq Created /\ resv[b] \subseteq Fences
        /\ after \subseteq resv[b] \cup {f}
    BY <1>1, <1>3 DEF FencesInv, Types, RefsOK, Added
  <1>7. /\ resv' \in [Buffers -> SUBSET Fences] /\ resv'[b] = after
        /\ \A p \in Buffers \ {b} : resv'[p] = resv[p]
    BY <1>2, <1>3, <1>6 DEF FencesInv, Types
  <1>8. \A g \in Fences : \A p \in Buffers : g \in resv[p] => p = fence[g].buf
    BY DEF FencesInv, RefsOK
  <1>9. \A g \in Fences :
           /\ OnBuffer(g) <=> \E p \in Buffers : p = fence[g].buf /\ g \in resv[p]
           /\ OnBuffer(g)' <=> IF g \in after \/ g \in resv[b] THEN g \in after
                               ELSE OnBuffer(g)
    <2> SUFFICES ASSUME NEW g \in Fences
                 PROVE  /\ OnBuffer(g) <=> \E p \in Buffers : p = fence[g].buf /\ g \in resv[p]
                        /\ OnBuffer(g)' <=> IF g \in after \/ g \in resv[b] THEN g \in after
                                            ELSE OnBuffer(g)
      OBVIOUS
    <2>1. OnBuffer(g) <=> \E p \in Buffers : p = fence[g].buf /\ g \in resv[p]
      BY <1>8 DEF OnBuffer
    <2>2. CASE g \in after
      <3>1. OnBuffer(g)'
        BY <1>3, <1>7, <2>2 DEF OnBuffer
      <3> QED
        BY <2>1, <2>2, <3>1
    <2>3. CASE g \notin after /\ g \in resv[b]
      <3>1. \A p \in Buffers : g \in resv[p] => p = b
        BY <1>3, <1>8, <2>3
      <3>2. ~OnBuffer(g)'
        BY <1>7, <2>3, <3>1 DEF OnBuffer
      <3> QED
        BY <2>1, <2>3, <3>2
    <2>4. CASE g \notin after /\ g \notin resv[b]
      <3>1. OnBuffer(g)' <=> OnBuffer(g)
        BY <1>3, <1>7, <2>4 DEF OnBuffer
      <3> QED
        BY <2>1, <2>4, <3>1
    <2> QED
      BY <2>2, <2>3, <2>4
  <1>10. \A g \in Fences :
            /\ fence'[g] \in FenceRec
            /\ fence'[g].owner = fence[g].owner /\ fence'[g].buf = fence[g].buf
            /\ fence'[g].mode = fence[g].mode
            /\ fence'[g].signalled <=> fence[g].signalled
            /\ g \in after \ resv[b] => fence'[g].refs = fence[g].refs + 1
            /\ g \in resv[b] \ after => fence'[g].refs = fence[g].refs - 1
            /\ g \notin after /\ g \notin resv[b] => fence'[g] = fence[g]
            /\ g \in after /\ g \in resv[b] => fence'[g].refs = fence[g].refs
    <2> SUFFICES ASSUME NEW g \in Fences
                 PROVE
            /\ fence'[g] \in FenceRec
            /\ fence'[g].owner = fence[g].owner /\ fence'[g].buf = fence[g].buf
            /\ fence'[g].mode = fence[g].mode
            /\ fence'[g].signalled <=> fence[g].signalled
            /\ g \in after \ resv[b] => fence'[g].refs = fence[g].refs + 1
            /\ g \in resv[b] \ after => fence'[g].refs = fence[g].refs - 1
            /\ g \notin after /\ g \notin resv[b] => fence'[g] = fence[g]
            /\ g \in after /\ g \in resv[b] => fence'[g].refs = fence[g].refs
      OBVIOUS
    <2>1. PICK n : n = fence[g].refs + (IF g \in after \ resv[b] THEN 1 ELSE 0)
                         - (IF g \in resv[b] \ after THEN 1 ELSE 0)
      OBVIOUS
    <2>2. fence'[g] = [fence[g] EXCEPT !.refs = n]
      BY <1>2, <2>1 DEF Put
    <2>3. fence[g] \in FenceRec /\ fence[g].refs \in Nat
      BY DEF FencesInv, Types, FenceRec
    <2>4. g \in resv[b] => fence[g].refs > 0
      <3> SUFFICES ASSUME g \in resv[b] PROVE fence[g].refs > 0
        OBVIOUS
      <3>1. g \in Created /\ OnBuffer(g)
        BY <1>3, <1>6 DEF OnBuffer
      <3>2. fence[g].refs = (IF Reachable(g) THEN 1 ELSE 0) + 1
        BY <3>1 DEF FencesInv, RefsOK
      <3> QED
        BY <3>2
    <2>5. /\ n \in Nat
          /\ g \in after \ resv[b] => n = fence[g].refs + 1
          /\ g \in resv[b] \ after => n = fence[g].refs - 1
          /\ ~(g \in after \ resv[b]) /\ ~(g \in resv[b] \ after) => n = fence[g].refs
      BY <2>1, <2>3, <2>4
    <2>6. /\ fence'[g] \in FenceRec
          /\ fence'[g].owner = fence[g].owner /\ fence'[g].buf = fence[g].buf
          /\ fence'[g].mode = fence[g].mode
          /\ fence'[g].signalled <=> fence[g].signalled
          /\ fence'[g].refs = n
          /\ n = fence[g].refs => fence'[g] = fence[g]
      BY <2>2, <2>3, <2>5 DEF FenceRec
    <2> QED
      BY <2>5, <2>6
  <1>11. fence' \in [Fences -> FenceRec]
    <2>1. fence' = [g \in Fences |-> fence'[g]]
      BY <1>2 DEF Put
    <2> QED
      BY <1>10, <2>1
  <1>12. Types'
    <2>1. held' \in [Clients -> SUBSET Ids]
      BY <1>2, <1>3 DEF FencesInv, Types
    <2> QED
      BY <1>2, <1>5, <1>7, <1>11, <2>1 DEF FencesInv, Types
  <1>13. Created' = Created /\ InOrder'
    <2>1. \A g \in Fences : g \notin Created => fence'[g] = fence[g]
      BY <1>3, <1>6, <1>10
    <2> QED
      BY <1>10, <1>11, <2>1, CreatedStays
  <1>14. \A e \in Clients \ {c} : /\ thread[e].hand # f
                                  /\ Domain(e) = d => thread[e].handle # i
    <2>1. f # None /\ i # None
      BY <1>3 DEF Fences, Ids, None
    <2> QED
      BY <1>1, <2>1 DEF FencesInv, OneOwner
  <1>15. CallsOK'
    <2> SUFFICES ASSUME NEW e \in Clients PROVE CallOK(e)'
      BY DEF CallsOK
    <2>1. CASE e = c
      BY <1>4, <1>5, <2>1 DEF CallOK, Making
    <2>2. CASE e # c
      <3>1. CallOK(e) /\ thread[e] \in ThreadRec
        BY ClientFacts
      <3>2. ASSUME Making(e)
            PROVE  \A p \in Buffers : thread[e].hand \notin resv'[p]
        BY <1>6, <1>7, <1>14, <2>2, <3>1, <3>2 DEF CallOK
      <3>3. thread[e].hand # None => thread[e].hand \in Fences
        BY <3>1 DEF ThreadRec
      <3> QED
        BY <1>2, <1>5, <1>10, <2>2, <3>1, <3>2, <3>3 DEF CallOK, Making
    <2> QED
      BY <2>1, <2>2
  <1>16. OneOwner'
    <2>1. \A e \in Clients : /\ thread'[e].hand \in {thread[e].hand, None}
                             /\ thread'[e].handle \in {thread[e].handle, None}
      BY <1>4, <1>5
    <2>2. \A e \in Clients : \A p \in Domains : \A k \in Ids :
             idr[p][k] \in Fences /\ idr[p][k] = thread'[e].hand =>
                p = Domain(e)' /\ k = thread'[e].handle
      <3> SUFFICES ASSUME NEW e \in Clients, NEW p \in Domains, NEW k \in Ids,
                          idr[p][k] \in Fences, idr[p][k] = thread'[e].hand
                   PROVE  p = Domain(e) /\ k = thread'[e].handle
        BY <1>5
      <3>1. e # c
        BY <1>4, <1>5 DEF Fences, None
      <3> QED
        BY <1>5, <3>1 DEF FencesInv, OneOwner
    <2>3. \A p, e \in Clients : p # e =>
             /\ thread'[p].hand # None => thread'[p].hand # thread'[e].hand
             /\ thread'[p].handle # None /\ Domain(p)' = Domain(e)' =>
                   thread'[p].handle # thread'[e].handle
      BY <1>5, <2>1 DEF FencesInv, OneOwner
    <2> QED
      BY <1>2, <2>2, <2>3 DEF FencesInv, OneOwner
  <1>17. HeldOK'
    <2>0. idr' = idr
      BY <1>2
    <2> SUFFICES ASSUME NEW e \in Clients, NEW h \in held'[e]
                 PROVE  /\ idr[Domain(e)][h] \in Fences
                        /\ fence'[idr[Domain(e)][h]].owner = e
                        /\ \A p \in Clients : Domain(p) = Domain(e) =>
                              thread'[p].handle # h
      BY <1>5, <2>0 DEF HeldOK
    <2>1. CASE h \in held[e]
      <3>1. h \in Ids /\ h # None
        BY <2>1, ClientFacts DEF Ids, None
      <3>2. /\ idr[Domain(e)][h] \in Fences /\ fence[idr[Domain(e)][h]].owner = e
            /\ \A p \in Clients : Domain(p) = Domain(e) => thread[p].handle # h
        BY <2>1 DEF FencesInv, HeldOK
      <3> QED
        BY <1>4, <1>5, <1>10, <3>1, <3>2
    <2>2. CASE h \notin held[e]
      <3>1. e = c /\ h = i
        BY <1>2, <2>2 DEF FencesInv, Types
      <3>2. i # None
        BY <1>3 DEF Ids, None
      <3> QED
        BY <1>1, <1>3, <1>4, <1>5, <1>10, <1>14, <3>1, <3>2
    <2> QED
      BY <2>1, <2>2
  <1>18. \A g \in Fences : Reachable(g)' <=> Reachable(g)
    <2>1. DOMAIN idr = Domains
      BY DEF FencesInv, Types
    <2>2. \A g \in Fences \ {f} : \A e \in Clients :
             thread'[e].hand = g <=> thread[e].hand = g
      BY <1>1, <1>4, <1>5 DEF Fences, None
    <2>3. \E p \in DOMAIN idr : \E k \in Ids : idr[p][k] = f
      BY <1>3, <2>1
    <2> QED
      BY <1>2, <2>2, <2>3 DEF Reachable
  <1>19. Unsignalled'
    BY <1>10, <1>13, <1>18 DEF FencesInv, Unsignalled
  <1>20. RefsOK'
    <2>1. Created \subseteq Fences
      BY DEF Created
    <2>2. \A p \in Buffers : \A g \in resv'[p] : g \in Created /\ fence'[g].buf = p
      <3>1. \A p \in Buffers : \A g \in resv[p] : g \in Created /\ fence[g].buf = p
        BY DEF FencesInv, RefsOK
      <3> QED
        BY <1>3, <1>6, <1>7, <1>10, <2>1, <3>1
    <2>3. ASSUME NEW g \in Created
          PROVE  fence'[g].refs = (IF Reachable(g)' THEN 1 ELSE 0)
                                  + (IF OnBuffer(g)' THEN 1 ELSE 0)
      <3>1. g \in Fences /\ fence[g].refs \in Nat
        BY <2>1 DEF FencesInv, Types, FenceRec
      <3>2. fence[g].refs = (IF Reachable(g) THEN 1 ELSE 0)
                            + (IF OnBuffer(g) THEN 1 ELSE 0)
        BY DEF FencesInv, RefsOK
      <3>3. g \in resv[b] => OnBuffer(g)
        BY <1>3 DEF OnBuffer
      <3>4. g \in after \ resv[b] => ~OnBuffer(g)
        BY <1>3, <1>6 DEF OnBuffer
      <3> QED
        BY <1>9, <1>10, <1>18, <3>1, <3>2, <3>3, <3>4
    <2> QED
      BY <1>13, <2>2, <2>3 DEF RefsOK
  <1>21. IdsLeft'
    <2> SUFFICES ASSUME NEW g \in Domains
                 PROVE  Cardinality(UsedIds(g)') + Cardinality(Publishers(g)')
                          <= Cardinality(Created')
      BY DEF IdsLeft
    <2>1. UsedIds(g)' = UsedIds(g)
      BY <1>2 DEF UsedIds
    <2>2. Publishers(g)' \subseteq Publishers(g)
      BY <1>4, <1>5 DEF Publishers
    <2> QED
      BY <1>13, <2>1, <2>2, IdsLeftKept, CountsAreNat
  <1> QED
    BY <1>12, <1>13, <1>15, <1>16, <1>17, <1>19, <1>20, <1>21 DEF FencesInv

(* An idr is emptied, by a suspension or the close of its file: everyone   *)
(* who uses it is outside of a call, so its fences have no other owner.    *)
LEMMA EmptiedStep ==
  ASSUME FencesInv, NEW d \in Domains, Emptied(d),
         \A e \in Clients : Domain(e) = d => thread[e].pc = "idle" /\ held'[e] = {},
         \A e \in Clients : Domain(e) # d => thread'[e] = thread[e] /\ held'[e] = held[e],
         \A e \in Clients : thread'[e] \in {thread[e], Out("closed")},
         thread' \in [Clients -> ThreadRec], held' \in [Clients -> SUBSET Ids],
         UNCHANGED <<driver, resv>>
  PROVE  FencesInv'
  <1> DEFINE gone == {idr[d][i] : i \in Ids} \cap Fences
  <1>1. /\ fence' = [f \in Fences |-> IF f \in gone
                                      THEN [fence[f] EXCEPT !.signalled = TRUE, !.refs = @ - 1]
                                      ELSE fence[f]]
        /\ idr' = [idr EXCEPT ![d] = [i \in Ids |-> None]]
    BY DEF Emptied
  <1>2. \A f \in Fences : f \in gone <=> \E i \in Ids : idr[d][i] = f
    OBVIOUS
  <1> HIDE DEF gone
  <1>3. /\ idr' \in [Domains -> [Ids -> Fences \cup {None, Taken}]]
        /\ \A i \in Ids : idr'[d][i] = None
        /\ \A g \in Domains \ {d} : idr'[g] = idr[g]
        /\ \A e \in Clients : Domain(e)' = Domain(e)
        /\ DOMAIN idr' = Domains /\ DOMAIN idr = Domains
    BY <1>1 DEF FencesInv, Types, Domain
  <1>4. \A e \in Clients : /\ Domain(e) = d => /\ thread[e].hand = None
                                               /\ thread[e].handle = None
                           /\ thread'[e].hand = thread[e].hand
                           /\ thread'[e].handle = thread[e].handle
                           /\ thread'[e].pc = "publish" => thread[e].pc = "publish"
    <2> SUFFICES ASSUME NEW e \in Clients
                 PROVE  /\ Domain(e) = d => /\ thread[e].hand = None
                                            /\ thread[e].handle = None
                        /\ thread'[e].hand = thread[e].hand
                        /\ thread'[e].handle = thread[e].handle
                        /\ thread'[e].pc = "publish" => thread[e].pc = "publish"
      OBVIOUS
    <2>1. CASE Domain(e) = d
      <3>1. thread[e].pc = "idle" /\ CallOK(e)
        BY <2>1, ClientFacts
      <3>2. thread[e].hand = None /\ thread[e].handle = None
        BY <3>1 DEF CallOK
      <3> QED
        BY <2>1, <3>2 DEF Out
    <2> QED
      BY <2>1
  <1>5. \A f \in gone : f \in Fences /\ f \in Created /\ ~fence[f].signalled
                        /\ fence[f].refs > 0 /\ Reachable(f)
    <2> SUFFICES ASSUME NEW f \in gone
                 PROVE  f \in Fences /\ f \in Created /\ ~fence[f].signalled
                        /\ fence[f].refs > 0 /\ Reachable(f)
      OBVIOUS
    <2>1. f \in Fences /\ Reachable(f)
      BY <1>2, <1>3 DEF gone, Reachable
    <2>2. f \in Created /\ ~fence[f].signalled
      BY <2>1 DEF FencesInv, Unsignalled
    <2>3. fence[f].refs = 1 + (IF OnBuffer(f) THEN 1 ELSE 0)
      BY <2>1, <2>2 DEF FencesInv, RefsOK
    <2> QED
      BY <2>1, <2>2, <2>3
  <1>6. \A f \in Fences :
           /\ fence'[f] \in FenceRec
           /\ fence'[f].owner = fence[f].owner /\ fence'[f].buf = fence[f].buf
           /\ fence'[f].mode = fence[f].mode
           /\ f \notin gone => fence'[f] = fence[f]
           /\ f \in gone => fence'[f].signalled /\ fence'[f].refs = fence[f].refs - 1
    <2> SUFFICES ASSUME NEW f \in Fences
                 PROVE
           /\ fence'[f] \in FenceRec
           /\ fence'[f].owner = fence[f].owner /\ fence'[f].buf = fence[f].buf
           /\ fence'[f].mode = fence[f].mode
           /\ f \notin gone => fence'[f] = fence[f]
           /\ f \in gone => fence'[f].signalled /\ fence'[f].refs = fence[f].refs - 1
      OBVIOUS
    <2>1. fence[f] \in FenceRec
      BY DEF FencesInv, Types
    <2>2. CASE f \notin gone
      BY <1>1, <2>1, <2>2
    <2>3. CASE f \in gone
      <3>1. fence[f].refs - 1 \in Nat
        BY <1>5, <2>1, <2>3 DEF FenceRec
      <3>2. fence'[f] = [fence[f] EXCEPT !.signalled = TRUE, !.refs = fence[f].refs - 1]
        BY <1>1, <2>3
      <3> QED
        BY <2>1, <2>3, <3>1, <3>2 DEF FenceRec
    <2> QED
      BY <2>2, <2>3
  <1>7. fence' \in [Fences -> FenceRec]
    <2>1. fence' = [f \in Fences |-> fence'[f]]
      BY <1>1
    <2> QED
      BY <1>6, <2>1
  <1>8. Types'
    BY <1>3, <1>7 DEF FencesInv, Types
  <1>9. Created' = Created /\ InOrder'
    BY <1>5, <1>6, <1>7, CreatedStays
  <1>10. CallsOK'
    <2> SUFFICES ASSUME NEW e \in Clients PROVE CallOK(e)'
      BY DEF CallsOK
    <2>1. CallOK(e) /\ thread[e] \in ThreadRec /\ Domain(e) \in Domains
      BY ClientFacts
    <2>2. CASE Domain(e) = d
      <3>1. thread[e].pc = "idle" /\ thread'[e].pc \in {"idle", "closed"}
        BY <2>2 DEF Out
      <3> QED
        BY <1>4, <2>2, <3>1 DEF CallOK, Making
    <2>3. CASE Domain(e) # d
      <3>1. thread[e].hand # None => thread[e].hand \in Fences
        BY <2>1 DEF ThreadRec
      <3> QED
        BY <1>3, <1>6, <2>1, <2>3, <3>1 DEF CallOK, Making
    <2> QED
      BY <2>2, <2>3
  <1>11. \A g \in Domains, k \in Ids : idr'[g][k] \in Fences =>
            g # d /\ idr'[g][k] = idr[g][k]
    BY <1>3 DEF Fences, None
  <1>12. OneOwner'
    <2>1. \A p, e \in Clients : p # e =>
             /\ thread'[p].hand # None => thread'[p].hand # thread'[e].hand
             /\ thread'[p].handle # None /\ Domain(p)' = Domain(e)' =>
                   thread'[p].handle # thread'[e].handle
      BY <1>3, <1>4 DEF FencesInv, OneOwner
    <2>2. \A p, g \in Domains : \A k, l \in Ids :
             idr'[p][k] \in Fences /\ idr'[p][k] = idr'[g][l] => p = g /\ k = l
      BY <1>11 DEF FencesInv, OneOwner
    <2>3. \A e \in Clients : \A p \in Domains : \A k \in Ids :
             idr'[p][k] \in Fences /\ idr'[p][k] = thread'[e].hand =>
                p = Domain(e)' /\ k = thread'[e].handle
      BY <1>3, <1>4, <1>11 DEF FencesInv, OneOwner
    <2> QED
      BY <2>1, <2>2, <2>3 DEF OneOwner
  <1>13. HeldOK'
    <2> SUFFICES ASSUME NEW e \in Clients, NEW h \in held'[e]
                 PROVE  /\ idr'[Domain(e)][h] \in Fences
                        /\ fence'[idr'[Domain(e)][h]].owner = e
                        /\ \A p \in Clients : Domain(p) = Domain(e) =>
                              thread'[p].handle # h
      BY <1>3 DEF HeldOK
    <2>1. Domain(e) # d /\ h \in held[e] /\ Domain(e) \in Domains
      BY ClientFacts
    <2>2. /\ idr[Domain(e)][h] \in Fences /\ fence[idr[Domain(e)][h]].owner = e
          /\ \A p \in Clients : Domain(p) = Domain(e) => thread[p].handle # h
      BY <2>1 DEF FencesInv, HeldOK
    <2> QED
      BY <1>3, <1>4, <1>6, <2>1, <2>2
  <1>14. \A f \in Fences : Reachable(f)' <=> Reachable(f) /\ f \notin gone
    <2> SUFFICES ASSUME NEW f \in Fences
                 PROVE  Reachable(f)' <=> Reachable(f) /\ f \notin gone
      OBVIOUS
    <2>1. CASE f \in gone
      <3>1. PICK i \in Ids : idr[d][i] = f
        BY <1>2, <2>1
      <3>2. \A e \in Clients : thread'[e].hand # f
        <4> SUFFICES ASSUME NEW e \in Clients, thread[e].hand = f PROVE FALSE
          BY <1>4
        <4>1. Domain(e) = d
          BY <3>1 DEF FencesInv, OneOwner
        <4> QED
          BY <1>4, <4>1 DEF Fences, None
      <3>3. \A g \in Domains, k \in Ids : idr'[g][k] # f
        BY <1>11, <3>1 DEF FencesInv, OneOwner
      <3> QED
        BY <1>3, <2>1, <3>2, <3>3 DEF Reachable
    <2>2. CASE f \notin gone
      <3>1. \A g \in Domains, k \in Ids : idr'[g][k] = f <=> idr[g][k] = f
        BY <1>2, <1>3, <1>11, <2>2
      <3> QED
        BY <1>3, <1>4, <2>2, <3>1 DEF Reachable
    <2> QED
      BY <2>1, <2>2
  <1>15. Unsignalled'
    BY <1>6, <1>9, <1>14 DEF FencesInv, Unsignalled
  <1>16. RefsOK'
    <2>1. Created \subseteq Fences
      BY DEF Created
    <2>2. \A g : OnBuffer(g)' <=> OnBuffer(g)
      BY DEF OnBuffer
    <2>3. \A p \in Buffers : \A g \in resv[p] : g \in Created /\ fence'[g].buf = p
      <3>1. \A p \in Buffers : \A g \in resv[p] : g \in Created /\ fence[g].buf = p
        BY DEF FencesInv, RefsOK
      <3> QED
        BY <1>6, <2>1, <3>1
    <2>4. ASSUME NEW g \in Created
          PROVE  fence'[g].refs = (IF Reachable(g)' THEN 1 ELSE 0)
                                  + (IF OnBuffer(g)' THEN 1 ELSE 0)
      <3>1. g \in Fences
        BY <2>1
      <3>2. fence[g].refs = (IF Reachable(g) THEN 1 ELSE 0)
                            + (IF OnBuffer(g) THEN 1 ELSE 0)
        BY DEF FencesInv, RefsOK
      <3> QED
        BY <1>5, <1>6, <1>14, <2>2, <3>1, <3>2
    <2> QED
      BY <1>9, <2>3, <2>4 DEF RefsOK
  <1>17. IdsLeft'
    <2> SUFFICES ASSUME NEW g \in Domains
                 PROVE  Cardinality(UsedIds(g)') + Cardinality(Publishers(g)')
                          <= Cardinality(Created')
      BY DEF IdsLeft
    <2>1. UsedIds(g)' \subseteq UsedIds(g)
      BY <1>3 DEF UsedIds
    <2>2. Publishers(g)' \subseteq Publishers(g)
      BY <1>3, <1>4 DEF Publishers
    <2> QED
      BY <1>9, <2>1, <2>2, IdsLeftKept, CountsAreNat
  <1> QED
    BY <1>8, <1>9, <1>10, <1>12, <1>13, <1>15, <1>16, <1>17 DEF FencesInv

-----------------------------------------------------------------------------
(* At the beginning there are no fences.                                   *)
LEMMA FencesInit == Init => FencesInv
  <1> SUFFICES ASSUME Init PROVE FencesInv
    OBVIOUS
  <1>1. /\ NoFence \in FenceRec /\ NoFence.owner = None
        /\ Out("idle") \in ThreadRec /\ Out("idle").hand = None
        /\ Out("idle").handle = None /\ Out("idle").pc = "idle"
    BY DEF NoFence, FenceRec, Out, ThreadRec, Modes
  <1>2. \A c \in Clients : thread[c] = Out("idle") /\ held[c] = {}
    BY DEF Init
  <1>3. /\ \A f \in Fences : fence[f] = NoFence
        /\ \A d \in Domains, i \in Ids : idr[d][i] = None
        /\ \A b \in Buffers : resv[b] = {}
        /\ DOMAIN idr = Domains
    BY DEF Init, Domains
  <1>4. Types
    BY <1>1, FencesAssumption DEF Init, Types, Domains
  <1>5. Created = {}
    BY <1>3 DEF Created
  <1>6. InOrder
    <2>1. 0 \in 0..MaxFences /\ 1..0 = {}
      BY FencesAssumption
    <2> QED
      BY <1>1, <1>3, <1>5, <2>1 DEF InOrder
  <1>7. CallsOK
    BY <1>1, <1>2 DEF CallsOK, CallOK, Making
  <1>8. OneOwner
    BY <1>1, <1>2, <1>3 DEF OneOwner, Fences, None
  <1>9. HeldOK
    BY <1>2 DEF HeldOK
  <1>10. Unsignalled
    BY <1>1, <1>2, <1>3, <1>5 DEF Unsignalled, Reachable, Fences, None
  <1>11. RefsOK
    BY <1>3, <1>5 DEF RefsOK
  <1>12. IdsLeft
    <2>1. \A d \in Domains : UsedIds(d) = {} /\ Publishers(d) = {}
      BY <1>1, <1>2, <1>3 DEF UsedIds, Publishers
    <2>2. Cardinality({}) = 0
      BY FS_EmptySet
    <2> QED
      BY <1>5, <2>1, <2>2 DEF IdsLeft
  <1> QED
    BY <1>4, <1>6, <1>7, <1>8, <1>9, <1>10, <1>11, <1>12 DEF FencesInv

(* Every step preserves the invariant, if handles do not outlive a         *)
(* suspension.                                                             *)
LEMMA FencesStep ==
  ASSUME ~StaleHandles, FencesInv, [Next]_vars
  PROVE  FencesInv'
  <1>1. ASSUME NEW c \in Clients, WaitEnds(c) \/ InterruptedGoesOn(c)
        PROVE  FencesInv'
    BY <1>1, AllocStep DEF WaitEnds, InterruptedGoesOn, Build
  <1>2. ASSUME NEW c \in Clients, vgem_fence_close(c) PROVE FencesInv'
    <2>1. /\ driver = "vgem" /\ thread[c].pc = "idle" /\ Emptied(c)
          /\ held' = [held EXCEPT ![c] = {}]
          /\ thread' = [thread EXCEPT ![c] = Out("closed")]
          /\ UNCHANGED <<driver, resv>>
      BY <1>2 DEF vgem_fence_close, Build
    <2>2. c \in Domains /\ \A e \in Clients : Domain(e) = e
      BY <2>1 DEF Domains, Domain
    <2>3. Out("closed") \in ThreadRec
      BY DEF Out, ThreadRec, Modes
    <2>4. /\ thread' \in [Clients -> ThreadRec] /\ held' \in [Clients -> SUBSET Ids]
          /\ held'[c] = {} /\ thread'[c] = Out("closed")
          /\ \A e \in Clients \ {c} : thread'[e] = thread[e] /\ held'[e] = held[e]
      BY <2>1, <2>3 DEF FencesInv, Types
    <2> QED
      BY <2>1, <2>2, <2>4, EmptiedStep
  <1>3. ASSUME hantro_pm_signal_all_fences PROVE FencesInv'
    <2>1. /\ driver = "hantro" /\ At("idle") = Clients /\ Emptied("all")
          /\ held' = [c \in Clients |-> {}]
          /\ UNCHANGED <<driver, resv, thread>>
      BY <1>3 DEF hantro_pm_signal_all_fences
    <2>2. "all" \in Domains /\ \A e \in Clients : Domain(e) = "all"
      BY <2>1 DEF Domains, Domain
    <2>3. \A e \in Clients : thread[e].pc = "idle"
      BY <2>1 DEF At
    <2>4. /\ thread' \in [Clients -> ThreadRec] /\ held' \in [Clients -> SUBSET Ids]
      BY <2>1 DEF FencesInv, Types
    <2> QED
      BY <2>1, <2>2, <2>3, <2>4, EmptiedStep
  <1>4. ASSUME UNCHANGED vars PROVE FencesInv'
    <2>1. /\ Created' = Created /\ \A f : Reachable(f)' <=> Reachable(f)
          /\ \A f : OnBuffer(f)' <=> OnBuffer(f)
          /\ \A d : UsedIds(d)' = UsedIds(d) /\ Publishers(d)' = Publishers(d)
      BY <1>4 DEF vars, Created, Reachable, OnBuffer, UsedIds, Publishers, Domain
    <2> QED
      BY <1>4, <2>1 DEF vars, FencesInv, Types, InOrder, CallsOK, CallOK, Making,
                        OneOwner, HeldOK, Unsignalled, RefsOK, IdsLeft, Domain
  <1> QED
    BY <1>1, <1>2, <1>3, <1>4, WaitsAndFailures, IdrAllocStep, AttachStep,
       SignalStep,
       ReleaseFenceStep, ReleaseRemoveStep DEF Next, Step

(* The invariant holds in every reachable state.                           *)
THEOREM FencesInvariant == ASSUME ~StaleHandles PROVE Spec => []FencesInv
  <1>1. Init => FencesInv
    BY FencesInit
  <1>2. FencesInv /\ [Next]_vars => FencesInv'
    BY FencesStep
  <1> QED
    BY <1>1, <1>2, PTL DEF Spec

(* A client that holds a handle finds its own, unsignalled fence under it, *)
(* though ids are reused and every client of hantro shares one idr: for    *)
(* clients that forget their handles when the system is suspended.         *)
THEOREM HandlesStayMine == ASSUME ~StaleHandles PROVE Spec => []HandleIsMine
  <1>1. FencesInv => HandleIsMine
    <2> SUFFICES ASSUME FencesInv, NEW c \in Clients, NEW h \in held[c]
                 PROVE  LET f == idr[Domain(c)][h]
                        IN  f \in Fences /\ fence[f].owner = c /\ ~fence[f].signalled
      BY DEF HandleIsMine
    <2>1. h \in Ids /\ Domain(c) \in Domains /\ DOMAIN idr = Domains
      BY ClientFacts DEF FencesInv, Types
    <2>2. idr[Domain(c)][h] \in Fences /\ fence[idr[Domain(c)][h]].owner = c
      BY DEF FencesInv, HeldOK
    <2>3. Reachable(idr[Domain(c)][h])
      BY <2>1 DEF Reachable
    <2> QED
      BY <2>2, <2>3 DEF FencesInv, Unsignalled
  <1> QED
    BY <1>1, FencesInvariant, PTL

(* Through every path, the failing ones too, a fence has one reference for *)
(* its entry or the thread that works on it, and one for its buffer: none  *)
(* is freed while it is reached, and none leaks.                           *)
THEOREM FenceRefsAreExact == ASSUME ~StaleHandles PROVE Spec => []RefsExact
  <1>1. FencesInv => RefsExact
    <2> SUFFICES ASSUME FencesInv, NEW f \in Created
                 PROVE  fence[f].refs = (IF Reachable(f) THEN 1 ELSE 0)
                                        + Cardinality({b \in Buffers : f \in resv[b]})
      BY DEF RefsExact
    <2>1. Cardinality({b \in Buffers : f \in resv[b]}) = IF OnBuffer(f) THEN 1 ELSE 0
      <3>1. CASE OnBuffer(f)
        <4>1. PICK b \in Buffers : f \in resv[b]
          BY <3>1 DEF OnBuffer
        <4>2. \A p \in Buffers : f \in resv[p] <=> p = b
          BY <4>1 DEF FencesInv, RefsOK
        <4>3. {p \in Buffers : f \in resv[p]} = {b}
          BY <4>2
        <4> QED
          BY <3>1, <4>3, FS_Singleton
      <3>2. CASE ~OnBuffer(f)
        <4>1. {p \in Buffers : f \in resv[p]} = {}
          BY <3>2 DEF OnBuffer
        <4> QED
          BY <3>2, <4>1, FS_EmptySet
      <3> QED
        BY <3>1, <3>2
    <2>2. fence[f].refs = (IF Reachable(f) THEN 1 ELSE 0)
                          + (IF OnBuffer(f) THEN 1 ELSE 0)
      BY DEF FencesInv, RefsOK
    <2> QED
      BY <2>1, <2>2
  <1> QED
    BY <1>1, FencesInvariant, PTL

(* Whoever waits for a fence waits for one that somebody can still signal: *)
(* neither a failed acquisition nor a suspension nor the close of a file   *)
(* leaves an unsignalled fence on a buffer without an owner.               *)
THEOREM WaitsAreForReachableFences ==
  ASSUME ~StaleHandles PROVE Spec => []WaitedForIsReachable
  <1>1. FencesInv => WaitedForIsReachable
    <2> SUFFICES ASSUME FencesInv, NEW b \in Buffers, NEW f \in Pending(b)
                 PROVE  Reachable(f)
      BY DEF WaitedForIsReachable
    <2>1. f \in resv[b] /\ ~fence[f].signalled
      BY DEF Pending
    <2>2. f \in Created /\ f \in Fences
      BY <2>1 DEF FencesInv, RefsOK, Created
    <2> QED
      BY <2>1, <2>2 DEF FencesInv, Unsignalled
  <1> QED
    BY <1>1, FencesInvariant, PTL
=============================================================================
