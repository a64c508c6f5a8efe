-------------------------- MODULE SliceCoresProofs --------------------------
(***************************************************************************)
(* Proofs, for every number of slices and every hardware table, of the     *)
(* safety properties of SliceCores.                                        *)
(*                                                                         *)
(* A node stands in the list of its slice and type where its id says       *)
(* (Placed), through the removals and entries that the walk of the probe   *)
(* meets.  What the walk has passed is mapped as long as nothing failed    *)
(* (Mapped), and so the module unloads without touching what is not.       *)
(***************************************************************************)
EXTENDS SliceCores, SequenceTheorems, WellFoundedInduction, TLAPS

(* The types of the rows, those that can make a slice, and the nodes.      *)
TypeNames == {"dec", "enc", "cache", "dec400", "axife", "mmu"}
Makers == {"dec", "enc", "mmu"}
NodeRec == [life : {"none", "listed", "freed"}, id : Nat, parent : 0..Len(table), pid : Nat,
            window : Nat, region : BOOLEAN, map : BOOLEAN, probes : Nat]

SliceVars ==
    /\ table \in Tables
    /\ phase \in {"add", "probe", "running", "cleanup", "gone", "oops"}
    /\ row \in 1..(Len(table) + 1)
    /\ at \in [slice : 0..MaxSlice, type : 1..6, pos : Nat, coren : Nat]
    /\ slices \in 0..(MaxSlice + 1)
    /\ list \in [0..MaxSlice -> [TypeNames -> Seq(Nodes)]]
    /\ node \in [Nodes -> NodeRec]
    /\ sem \in [0..MaxSlice -> Nat]
    /\ failed \subseteq Nodes

(* A node stands in the list of its slice and type, where its id says.     *)
Stands(s, t, k) ==
    LET n == list[s][t][k]
    IN  /\ RowOf(n).type = t /\ RowOf(n).slice = s /\ s < slices
        /\ node[n].life = "listed" /\ node[n].id = k - 1

Placed == \A s \in 0..MaxSlice, t \in TypeNames : \A k \in DOMAIN list[s][t] : Stands(s, t, k)

(* A listed node is in a list.                                             *)
Found ==
    \A n \in Nodes : node[n].life = "listed" =>
        \E k \in DOMAIN list[RowOf(n).slice][RowOf(n).type] :
            list[RowOf(n).slice][RowOf(n).type][k] = n

(* What will be entered is in no list yet: rows and auxiliary cores.       *)
Unentered ==
    \A n \in Rows :
        /\ n >= row => node[n].life = "none"
        /\ node[n].probes = 0 => node[Aux(n)].life = "none"

(* The place of a type in the walk of the probe.                           *)
Idx == [dec |-> 1, enc |-> 2, cache |-> 3, dec400 |-> 4, axife |-> 5, mmu |-> 6]

(* The walk comes to this place after the one where it is.                 *)
Ahead(s, t, k) ==
    \/ s > at.slice
    \/ s = at.slice /\ (Idx[t] > at.type \/ (Idx[t] = at.type /\ k > at.pos))

(* Nothing ahead of the walk has been probed.                              *)
Unvisited ==
    /\ phase = "add" => /\ at.slice = 0 /\ at.type = 1 /\ at.pos = 0
                        /\ \A n \in Nodes : node[n].probes = 0
    /\ phase = "probe" =>
         /\ at.slice < slices
         /\ \A s \in 0..MaxSlice, t \in TypeNames : \A k \in DOMAIN list[s][t] :
              Ahead(s, t, k) => node[list[s][t][k]].probes = 0

(* Where the nodes are, without what the probe has done to them.           *)
Structure == SliceVars /\ Placed /\ Found /\ Unentered /\ Unvisited

(* The walk has still to visit what stands here.                           *)
ToVisit(s, t, k) ==
    /\ phase = "probe"
    /\ \/ s > at.slice
       \/ s = at.slice /\ (Idx[t] > at.type \/ (Idx[t] = at.type /\ k \in (at.pos + 1)..at.coren))

(* As long as nothing has failed, what was visited is mapped.              *)
Mapped ==
    failed = {} /\ phase \in {"probe", "running", "cleanup"} =>
        \A s \in 0..MaxSlice, t \in TypeNames : \A k \in DOMAIN list[s][t] :
            ToVisit(s, t, k) \/ node[list[s][t][k]].map

(* What left the lists has given back its region and its mapping.          *)
Returned ==
    /\ failed = {} => \A n \in Nodes :
         /\ node[n].region => node[n].life = "listed"
         /\ node[n].map => node[n].life = "listed" \/ RowOf(n).type = "axife"
    /\ phase = "cleanup" => \A s \in 0..MaxSlice, i \in 1..(at.type - 1) :
         list[s][CleanupOrder[i]] = <<>>
    /\ phase = "gone" => \A s \in 0..MaxSlice, t \in TypeNames : list[s][t] = <<>>

(* Every slice named so far by a type that makes slices exists.            *)
SlicesMade ==
    phase = "add" =>
        \A m \in 1..(row - 1) : table[m].type \in Makers => table[m].slice < slices

(* What is attached to a core has the position of that core.               *)
AttachedWell ==
    failed = {} /\ phase \in {"add", "probe", "running"} =>
        \A s \in 0..MaxSlice, t \in Attached : \A k \in DOMAIN list[s][t] :
            LET c == node[list[s][t][k]]
            IN  c.parent # 0 =>
                  \E pt \in Parents : \E j \in DOMAIN list[s][pt] :
                      list[s][pt][j] = c.parent /\ c.pid = j - 1

(* A table names slices in the order of the rows that make them.           *)
InOrder(tbl) ==
    \A n \in DOMAIN tbl : tbl[n].type \in Makers /\ tbl[n].slice > 0 =>
        \E m \in 1..(n - 1) : tbl[m].type \in Makers /\ tbl[m].slice = tbl[n].slice - 1

(* The inductive invariant.                                                *)
SliceInv == Structure /\ Mapped /\ Returned /\ AttachedWell /\ PermitsCoverCores

-----------------------------------------------------------------------------
(* Names, rows and sequences.                                              *)

(* The least-number principle: the first node that qualifies is a minimum. *)
LEMMA NatSetHasMin ==
  ASSUME NEW S \in SUBSET Nat, S # {}
  PROVE  \E m \in S : \A n \in S : m <= n
  <1> DEFINE Less == {ss \in Nat \X Nat : ss[1] < ss[2]}
  <1>1. IsWellFoundedOn(Less, Nat)
    BY NatLessThanWellFounded DEF OpToRel
  <1>2. \A m, n \in Nat : n < m => <<n, m>> \in Less
    OBVIOUS
  <1> HIDE DEF Less
  <1>3. PICK m \in S : \A n \in S : <<n, m>> \notin Less
    BY <1>1, WFMin
  <1>4. \A n \in S : n \in Nat /\ m \in Nat /\ ~(n < m)
    BY <1>2, <1>3
  <1>5. ASSUME NEW n \in S PROVE m <= n
    <2>1. n \in Nat /\ m \in Nat /\ ~(n < m)
      BY <1>4
    <2> QED
      BY <2>1
  <1> QED
    BY <1>5

(* The order of the walk and of the cleanup covers each type once.         *)
LEMMA TypeNamesAreTypes ==
  /\ Len(Types) = 6 /\ ToSet(Types) = TypeNames
  /\ \A i \in 1..6 : /\ Types[i] \in TypeNames /\ Idx[Types[i]] = i
                     /\ CleanupOrder[i] \in TypeNames
  /\ \A t \in TypeNames : /\ Idx[t] \in 1..6 /\ Types[Idx[t]] = t
                          /\ \E i \in 1..6 : CleanupOrder[i] = t
  <1>1. Len(Types) = 6 /\ DOMAIN Types = 1..6
    BY DEF Types
  <1>2. /\ Types[1] = "dec" /\ Types[2] = "enc" /\ Types[3] = "cache"
        /\ Types[4] = "dec400" /\ Types[5] = "axife" /\ Types[6] = "mmu"
    BY DEF Types
  <1>3. /\ CleanupOrder[1] = "dec" /\ CleanupOrder[2] = "enc"
        /\ CleanupOrder[3] = "cache" /\ CleanupOrder[4] = "dec400"
        /\ CleanupOrder[5] = "mmu" /\ CleanupOrder[6] = "axife"
    BY DEF CleanupOrder
  <1>4. \A i \in 1..6 : i \in {1, 2, 3, 4, 5, 6}
    OBVIOUS
  <1>5. \A i \in 1..6 : /\ Types[i] \in TypeNames /\ Idx[Types[i]] = i
                        /\ CleanupOrder[i] \in TypeNames
    BY <1>2, <1>3, <1>4 DEF TypeNames, Idx
  <1>6. \A t \in TypeNames : Idx[t] \in 1..6 /\ Types[Idx[t]] = t
    BY <1>2 DEF TypeNames, Idx
  <1>7. \A t \in TypeNames : \E i \in 1..6 : CleanupOrder[i] = t
    <2>1. 1 \in 1..6 /\ 2 \in 1..6 /\ 3 \in 1..6 /\ 4 \in 1..6 /\ 5 \in 1..6 /\ 6 \in 1..6
      OBVIOUS
    <2> QED
      BY <1>3, <2>1 DEF TypeNames
  <1>8. ToSet(Types) = TypeNames
    <2>1. ToSet(Types) = {Types[i] : i \in 1..6}
      BY <1>1 DEF ToSet
    <2> QED
      BY <1>5, <1>6, <2>1
  <1> QED
    BY <1>1, <1>5, <1>6, <1>7, <1>8

(* Rows and nodes: the row of a node says where it belongs.                *)
LEMMA RowFacts ==
  ASSUME SliceVars
  PROVE  /\ MaxSlice \in Nat /\ Len(table) \in Nat /\ Rows = 1..Len(table)
         /\ \A n \in Rows : /\ table[n] \in Row /\ n \in Nodes /\ Aux(n) \in Nodes
                            /\ RowOf(n) = table[n] /\ RowOf(Aux(n)) = table[n]
                            /\ Aux(n) # n /\ IsAux(Aux(n)) /\ ~IsAux(n)
         /\ \A n \in Nodes : /\ RowOf(n) \in Row /\ RowOf(n).type \in TypeNames
                             /\ RowOf(n).slice \in 0..MaxSlice /\ n \in Nat \ {0}
                             /\ ~IsAux(n) => n \in Rows
                             /\ IsAux(n) => \E m \in Rows : n = Aux(m)
  <1>1. table \in Seq(Row) /\ MaxSlice \in Nat
    BY SliceAssumption DEF SliceVars
  <1>2. Len(table) \in Nat /\ Rows = 1..Len(table) /\ \A n \in Rows : table[n] \in Row
    BY <1>1 DEF Rows
  <1>3. \A r \in Row : r.type \in TypeNames /\ r.slice \in 0..MaxSlice
    BY TypeNamesAreTypes DEF Row
  <1>4. \A n \in Nodes : /\ n \in Nat \ {0} /\ n <= 2 * Len(table)
                         /\ ~IsAux(n) => n \in Rows /\ RowOf(n) = table[n]
                         /\ IsAux(n) => /\ n - Len(table) \in Rows
                                        /\ n = Aux(n - Len(table))
                                        /\ RowOf(n) = table[n - Len(table)]
    BY <1>2 DEF Nodes, IsAux, RowOf, Aux
  <1>5. \A n \in Rows : /\ n \in Nodes /\ Aux(n) \in Nodes
                        /\ RowOf(n) = table[n] /\ RowOf(Aux(n)) = table[n]
                        /\ Aux(n) # n /\ IsAux(Aux(n)) /\ ~IsAux(n)
    BY <1>2 DEF Nodes, IsAux, RowOf, Aux
  <1>6. \A n \in Nodes : RowOf(n) \in Row /\ (IsAux(n) => \E m \in Rows : n = Aux(m))
    BY <1>2, <1>4
  <1> QED
    BY <1>1, <1>2, <1>3, <1>4, <1>5, <1>6

(* What is left of a list when one position is taken out.                  *)
LEMMA WithoutPosition ==
  ASSUME NEW S, NEW q \in Seq(S), NEW k \in 1..Len(q)
  PROVE  /\ RemoveAt(q, k) \in Seq(S)
         /\ Len(RemoveAt(q, k)) = Len(q) - 1
         /\ \A j \in 1..(Len(q) - 1) : RemoveAt(q, k)[j] = IF j < k THEN q[j] ELSE q[j + 1]
  <1> DEFINE l == SubSeq(q, 1, k - 1)
             r == SubSeq(q, k + 1, Len(q))
  <1>1. l \in Seq(S) /\ Len(l) = k - 1 /\ \A j \in 1..(k - 1) : l[j] = q[j]
    BY SubSeqProperties
  <1>2. /\ r \in Seq(S) /\ Len(r) = Len(q) - k
        /\ \A j \in 1..(Len(q) - k) : r[j] = q[k + j]
    <2>1. CASE k = Len(q)
      BY <2>1, SubSeqEmpty, EmptySeq
    <2>2. CASE k < Len(q)
      BY <2>2, SubSeqProperties
    <2> QED
      BY <2>1, <2>2
  <1> HIDE DEF l, r
  <1>3. /\ l \o r \in Seq(S) /\ Len(l \o r) = Len(q) - 1
        /\ \A j \in 1..(Len(q) - 1) : (l \o r)[j] = IF j <= k - 1 THEN l[j] ELSE r[j - (k - 1)]
    <2>1. /\ l \o r \in Seq(S) /\ Len(l \o r) = Len(l) + Len(r)
          /\ \A j \in 1..(Len(l) + Len(r)) :
               (l \o r)[j] = IF j <= Len(l) THEN l[j] ELSE r[j - Len(l)]
      BY <1>1, <1>2, ConcatProperties
    <2>2. Len(l) + Len(r) = Len(q) - 1
      BY <1>1, <1>2
    <2> QED
      BY <1>1, <2>1, <2>2
  <1>4. RemoveAt(q, k) = l \o r
    BY DEF RemoveAt, l, r
  <1>5. ASSUME NEW j \in 1..(Len(q) - 1)
        PROVE  (l \o r)[j] = IF j < k THEN q[j] ELSE q[j + 1]
    <2>1. CASE j < k
      BY <1>1, <1>3, <2>1
    <2>2. CASE ~(j < k)
      <3>1. j - (k - 1) \in 1..(Len(q) - k) /\ k + (j - (k - 1)) = j + 1
        BY <2>2
      <3>2. (l \o r)[j] = r[j - (k - 1)]
        BY <1>3, <2>2
      <3> QED
        BY <1>2, <2>2, <3>1, <3>2
    <2> QED
      BY <2>1, <2>2
  <1> QED
    BY <1>3, <1>4, <1>5

(* A node is in one place.                                                 *)
LEMMA OnePlace ==
  ASSUME SliceVars, Placed,
         NEW s \in 0..MaxSlice, NEW t \in TypeNames, NEW k \in DOMAIN list[s][t]
  PROVE  /\ list[s][t] \in Seq(Nodes) /\ k \in 1..Len(list[s][t]) /\ k \in Nat
         /\ list[s][t][k] \in Nodes /\ Stands(s, t, k)
         /\ \A u \in 0..MaxSlice, v \in TypeNames : \A j \in DOMAIN list[u][v] :
              list[u][v][j] = list[s][t][k] => u = s /\ v = t /\ j = k
  <1>0. list \in [0..MaxSlice -> [TypeNames -> Seq(Nodes)]]
    BY DEF SliceVars
  <1>1. /\ list[s][t] \in Seq(Nodes) /\ k \in 1..Len(list[s][t]) /\ k \in Nat
        /\ list[s][t][k] \in Nodes
    BY DEF SliceVars
  <1>2. Stands(s, t, k)
    BY DEF Placed
  <1>3. ASSUME NEW u \in 0..MaxSlice, NEW v \in TypeNames, NEW j \in DOMAIN list[u][v],
               list[u][v][j] = list[s][t][k]
        PROVE  u = s /\ v = t /\ j = k
    <2>1. Stands(u, v, j)
      BY DEF Placed
    <2>2. list[u][v] \in Seq(Nodes)
      BY <1>0
    <2>3. j \in Nat
      BY <2>2
    <2> QED
      BY <1>1, <1>2, <1>3, <2>1, <2>3 DEF Stands
  <1> QED
    BY <1>1, <1>2, <1>3

-----------------------------------------------------------------------------
(* What entering, removing and marking nodes does to the lists.            *)

(* Nodes and rows are those of the table, which no step changes.           *)
LEMMA SameTable ==
  ASSUME table' = table
  PROVE  /\ Nodes' = Nodes /\ Rows' = Rows
         /\ \A n : RowOf(n)' = RowOf(n)
  BY DEF Nodes, Rows, RowOf, IsAux

(* A node is entered at the end of a list.                                 *)
LEMMA EnteredList ==
  ASSUME SliceVars, Placed, Found, table' = table,
         NEW s \in 0..MaxSlice, NEW t \in TypeNames, NEW n \in Nodes,
         RowOf(n).type = t, RowOf(n).slice = s, node[n].life # "listed",
         slices' \in 0..(MaxSlice + 1), slices <= slices', s < slices',
         list' = Entered(s, t, n),
         node'[n].life = "listed", node'[n].id = Len(list[s][t]),
         \A m \in Nodes \ {n} : node'[m].life = node[m].life /\ node'[m].id = node[m].id
  PROVE  /\ list' \in [0..MaxSlice -> [TypeNames -> Seq(Nodes)]]
         /\ \A u \in 0..MaxSlice, v \in TypeNames : u # s \/ v # t => list'[u][v] = list[u][v]
         /\ Len(list'[s][t]) = Len(list[s][t]) + 1
         /\ \A k \in 1..Len(list[s][t]) : list'[s][t][k] = list[s][t][k]
         /\ list'[s][t][Len(list[s][t]) + 1] = n
         /\ Placed' /\ Found'
  <1> DEFINE l == Len(list[s][t])
  <1>1. list \in [0..MaxSlice -> [TypeNames -> Seq(Nodes)]]
    BY DEF SliceVars
  <1>2. list[s][t] \in Seq(Nodes) /\ l \in Nat /\ DOMAIN list[s][t] = 1..l
    BY <1>1
  <1>3. list' = [list EXCEPT ![s][t] = Append(list[s][t], n)]
    BY <1>1 DEF Entered
  <1>4. /\ list'[s][t] = Append(list[s][t], n)
        /\ \A u \in 0..MaxSlice, v \in TypeNames : u # s \/ v # t => list'[u][v] = list[u][v]
    BY <1>1, <1>3
  <1>5. /\ list'[s][t] \in Seq(Nodes) /\ Len(list'[s][t]) = l + 1
        /\ \A k \in 1..l : list'[s][t][k] = list[s][t][k]
        /\ list'[s][t][l + 1] = n
    BY <1>2, <1>4, AppendProperties
  <1>6. list' \in [0..MaxSlice -> [TypeNames -> Seq(Nodes)]]
    BY <1>1, <1>2, <1>3, AppendProperties
  <1>7. ASSUME NEW u \in 0..MaxSlice, NEW v \in TypeNames, NEW k \in DOMAIN list'[u][v]
        PROVE  Stands(u, v, k)'
    <2>1. CASE k \in DOMAIN list[u][v] /\ list'[u][v][k] = list[u][v][k]
      <3>1. Stands(u, v, k) /\ list[u][v][k] \in Nodes
        BY <1>1, <2>1 DEF Placed
      <3>2. list[u][v][k] # n
        BY <3>1 DEF Stands
      <3>3. RowOf(list[u][v][k])' = RowOf(list[u][v][k])
        BY <2>1 DEF RowOf, IsAux
      <3>4. slices' \in Int /\ slices \in Int /\ u \in Int
        BY DEF SliceVars
      <3> QED
        BY <1>1, <2>1, <3>1, <3>3, <3>4 DEF Stands
    <2>2. CASE u = s /\ v = t /\ k = l + 1
      <3>1. s < slices' /\ l = (l + 1) - 1
        BY <1>2
      <3> QED
        BY <1>5, <2>2, <3>1 DEF Stands, RowOf, IsAux
    <2>3. \/ k \in DOMAIN list[u][v] /\ list'[u][v][k] = list[u][v][k]
          \/ u = s /\ v = t /\ k = l + 1
      <3>1. CASE u = s /\ v = t
        <4>1. k \in 1..(l + 1)
          BY <1>2, <1>5, <3>1
        <4>2. CASE k = l + 1
          BY <3>1, <4>2
        <4>3. CASE k # l + 1
          <5>1. k \in 1..l
            BY <1>2, <4>1, <4>3, SMTT(20)
          <5> QED
            BY <1>2, <1>5, <3>1, <5>1
        <4> QED
          BY <4>2, <4>3
      <3>2. CASE u # s \/ v # t
        BY <1>4, <3>2
      <3> QED
        BY <3>1, <3>2
    <2> QED
      BY <2>1, <2>2, <2>3
  <1>8. ASSUME NEW m \in Nodes, node'[m].life = "listed"
        PROVE  \E k \in DOMAIN list'[RowOf(m).slice][RowOf(m).type] :
                 list'[RowOf(m).slice][RowOf(m).type][k] = m
    <2>1. CASE m = n
      <3>1. l + 1 \in DOMAIN list'[s][t]
        BY <1>2, <1>5
      <3> QED
        BY <1>5, <2>1, <3>1
    <2>2. CASE m # n
      <3>1. PICK k \in DOMAIN list[RowOf(m).slice][RowOf(m).type] :
                   list[RowOf(m).slice][RowOf(m).type][k] = m
        BY <1>8, <2>2 DEF Found
      <3>2. RowOf(m).slice \in 0..MaxSlice /\ RowOf(m).type \in TypeNames
        BY RowFacts
      <3>3. CASE RowOf(m).slice = s /\ RowOf(m).type = t
        <4>1. k \in 1..l /\ list[s][t][k] = m
          BY <1>2, <3>1, <3>3
        <4>2. list'[s][t][k] = m
          BY <1>5, <4>1
        <4>3. k \in 1..(l + 1)
          BY <1>2, <4>1
        <4>4. DOMAIN list'[s][t] = 1..(l + 1)
          BY <1>2, <1>5
        <4> QED
          BY <3>3, <4>2, <4>3, <4>4
      <3>4. CASE RowOf(m).slice # s \/ RowOf(m).type # t
        BY <1>4, <3>1, <3>2, <3>4
      <3> QED
        BY <3>3, <3>4
    <2> QED
      BY <2>1, <2>2
  <1>9. Found'
    BY <1>8, SameTable DEF Found
  <1> QED
    BY <1>4, <1>5, <1>6, <1>7, <1>9 DEF Placed

(* The node that the walk is at leaves its list, those behind move up.     *)
LEMMA RemovedList ==
  ASSUME SliceVars, Placed, Found, UNCHANGED <<table, slices>>,
         AtNode, NEW n, n = Current[at.pos + 1],
         list' = Left,
         node'[n].life = "freed",
         \A m \in Nodes \ {n} :
            /\ node'[m].life = node[m].life
            /\ node'[m].id = IF m \in ToSet(Current) /\ node[m].id > node[n].id
                             THEN node[m].id - 1 ELSE node[m].id
  PROVE  LET s == at.slice  t == Type  p == at.pos + 1
         IN  /\ list' \in [0..MaxSlice -> [TypeNames -> Seq(Nodes)]]
             /\ \A u \in 0..MaxSlice, v \in TypeNames : u # s \/ v # t => list'[u][v] = list[u][v]
             /\ Len(list'[s][t]) = Len(list[s][t]) - 1
             /\ \A k \in 1..(Len(list[s][t]) - 1) :
                  list'[s][t][k] = IF k < p THEN list[s][t][k] ELSE list[s][t][k + 1]
             /\ Placed' /\ Found'
  <1> DEFINE s == at.slice
             t == Type
             p == at.pos + 1
             l == Len(list[s][t])
  <1>1. list \in [0..MaxSlice -> [TypeNames -> Seq(Nodes)]]
        /\ s \in 0..MaxSlice /\ t \in TypeNames
    BY TypeNamesAreTypes DEF SliceVars, Type
  <1>2. list[s][t] \in Seq(Nodes) /\ l \in Nat /\ DOMAIN list[s][t] = 1..l /\ Current = list[s][t]
    BY <1>1 DEF Current, List
  <1>3. p \in 1..l /\ n = list[s][t][p] /\ n \in Nodes
    BY <1>2 DEF AtNode, SliceVars
  <1>4. /\ RemoveAt(list[s][t], p) \in Seq(Nodes)
        /\ Len(RemoveAt(list[s][t], p)) = l - 1
        /\ \A j \in 1..(l - 1) : RemoveAt(list[s][t], p)[j] =
              IF j < p THEN list[s][t][j] ELSE list[s][t][j + 1]
    BY <1>2, <1>3, WithoutPosition
  <1>5. list' = [list EXCEPT ![s][t] = RemoveAt(list[s][t], p)]
    BY <1>1 DEF Left
  <1> HIDE DEF t
  <1>6. /\ list'[s][t] = RemoveAt(list[s][t], p)
        /\ \A u \in 0..MaxSlice, v \in TypeNames : u # s \/ v # t => list'[u][v] = list[u][v]
        /\ list' \in [0..MaxSlice -> [TypeNames -> Seq(Nodes)]]
    BY <1>1, <1>4, <1>5
  <1>7. Stands(s, t, p) /\ node[n].id = p - 1
    BY <1>1, <1>2, <1>3 DEF Placed, Stands
  (* where a node of the new lists was *)
  <1>8. ASSUME NEW u \in 0..MaxSlice, NEW v \in TypeNames, NEW k \in DOMAIN list'[u][v]
        PROVE  Stands(u, v, k)'
    <2>1. CASE u # s \/ v # t
      <3>1. list'[u][v] = list[u][v] /\ k \in DOMAIN list[u][v] /\ list[u][v][k] \in Nodes
        BY <1>1, <1>6, <2>1
      <3>2. Stands(u, v, k) /\ list[u][v][k] # n
        BY <1>1, <1>2, <1>3, <2>1, <3>1, OnePlace
      <3>3. list[u][v][k] \notin ToSet(Current)
        BY <1>1, <1>2, <2>1, <3>1, OnePlace DEF ToSet
      <3> QED
        BY <3>1, <3>2, <3>3 DEF Stands, RowOf, IsAux
    <2>2. CASE u = s /\ v = t
      <3>1. k \in 1..(l - 1)
        BY <1>4, <1>6, <2>2
      <3>2. CASE k < p
        <4>1. list'[s][t][k] = list[s][t][k] /\ k \in DOMAIN list[s][t]
          <5>1. list'[s][t][k] = list[s][t][k]
            BY <1>4, <1>6, <3>1, <3>2
          <5>2. k \in 1..l
            BY <1>2, <3>1
          <5> QED
            BY <1>2, <5>1, <5>2
        <4>0. k # p /\ p \in DOMAIN list[s][t]
          BY <1>2, <1>3, <3>1, <3>2
        <4>2. Stands(s, t, k) /\ list[s][t][k] \in Nodes /\ list[s][t][k] # n
          BY <1>1, <1>3, <4>0, <4>1, OnePlace
        <4>3. node[list[s][t][k]].id = k - 1 /\ ~(k - 1 > p - 1)
          BY <1>3, <3>1, <3>2, <4>2 DEF Stands
        <4>4. node'[list[s][t][k]].id = k - 1 /\ node'[list[s][t][k]].life = "listed"
          BY <1>7, <4>2, <4>3 DEF Stands
        <4> QED
          BY <2>2, <4>1, <4>2, <4>4 DEF Stands, RowOf, IsAux
      <3>3. CASE ~(k < p)
        <4>1. list'[s][t][k] = list[s][t][k + 1] /\ k + 1 \in DOMAIN list[s][t]
          BY <1>2, <1>4, <1>6, <3>1, <3>3
        <4>0. k + 1 # p /\ p \in DOMAIN list[s][t]
          BY <1>2, <1>3, <3>1, <3>3
        <4>2. Stands(s, t, k + 1) /\ list[s][t][k + 1] \in Nodes /\ list[s][t][k + 1] # n
          BY <1>1, <1>3, <4>0, <4>1, OnePlace
        <4>3. node[list[s][t][k + 1]].id = k /\ k > p - 1 /\ list[s][t][k + 1] \in ToSet(Current)
          BY <1>2, <1>3, <3>1, <3>3, <4>1, <4>2 DEF Stands, ToSet
        <4>4. /\ node'[list[s][t][k + 1]].id = k - 1
              /\ node'[list[s][t][k + 1]].life = "listed"
          BY <1>7, <4>2, <4>3 DEF Stands
        <4> QED
          BY <2>2, <4>1, <4>2, <4>4 DEF Stands, RowOf, IsAux
      <3> QED
        BY <3>2, <3>3
    <2> QED
      BY <2>1, <2>2
  <1>9. ASSUME NEW m \in Nodes, node'[m].life = "listed"
        PROVE  \E k \in DOMAIN list'[RowOf(m).slice][RowOf(m).type] :
                 list'[RowOf(m).slice][RowOf(m).type][k] = m
    <2>1. m # n /\ node[m].life = "listed"
      BY <1>9
    <2>2. PICK k \in DOMAIN list[RowOf(m).slice][RowOf(m).type] :
                 list[RowOf(m).slice][RowOf(m).type][k] = m
      BY <2>1 DEF Found
    <2>3. RowOf(m).slice \in 0..MaxSlice /\ RowOf(m).type \in TypeNames
      BY RowFacts
    <2>4. CASE RowOf(m).slice # s \/ RowOf(m).type # t
      BY <1>6, <2>2, <2>3, <2>4
    <2>5. CASE RowOf(m).slice = s /\ RowOf(m).type = t
      <3>1. k \in 1..l /\ list[s][t][k] = m /\ k # p
        BY <1>2, <1>3, <2>1, <2>2, <2>5
      <3>2. CASE k < p
        <4>1. k \in 1..(l - 1) /\ list'[s][t][k] = m
          BY <1>2, <1>3, <1>4, <1>6, <3>1, <3>2
        <4> QED
          BY <1>4, <1>6, <2>5, <4>1
      <3>3. CASE k > p
        <4>1. k - 1 \in 1..(l - 1) /\ ~(k - 1 < p) /\ (k - 1) + 1 = k
          BY <1>2, <1>3, <3>1, <3>3
        <4>2. list'[s][t][k - 1] = m
          BY <1>4, <1>6, <3>1, <4>1
        <4> QED
          BY <1>4, <1>6, <2>5, <4>1, <4>2
      <3> QED
        BY <1>2, <1>3, <3>1, <3>2, <3>3
    <2> QED
      BY <2>4, <2>5
  <1>10. Found'
    BY <1>9, SameTable DEF Found
  <1> QED
    BY <1>4, <1>6, <1>8, <1>10 DEF Placed, t

(* Nodes are marked, none enters or leaves a list.                         *)
LEMMA SameLists ==
  ASSUME SliceVars, Placed, Found, UNCHANGED <<table, list>>,
         slices' \in 0..(MaxSlice + 1), slices <= slices',
         \A m \in Nodes : node'[m].life = node[m].life /\ node'[m].id = node[m].id
  PROVE  Placed' /\ Found'
  <1>1. ASSUME NEW u \in 0..MaxSlice, NEW v \in TypeNames, NEW k \in DOMAIN list'[u][v]
        PROVE  Stands(u, v, k)'
    <2>1. Stands(u, v, k) /\ list[u][v][k] \in Nodes
      BY OnePlace
    <2> QED
      <3>1. slices' \in Int /\ slices \in Int /\ u \in Int
        BY DEF SliceVars
      <3>2. \A m : RowOf(m)' = RowOf(m)
        BY SameTable
      <3> QED
        BY <2>1, <3>1, <3>2 DEF Stands
  <1>2. Found'
    BY SameTable DEF Found
  <1> QED
    BY <1>1, <1>2 DEF Placed

-----------------------------------------------------------------------------
(* A row is entered.                                                       *)

(* CoreAt returns a node of the list it looks through.                     *)
LEMMA CoreAtFound ==
  ASSUME SliceVars, NEW s \in 0..MaxSlice, NEW t \in TypeNames, NEW a, CoreAt(s, t, a) # 0
  PROVE  \E k \in DOMAIN list[s][t] : list[s][t][k] = CoreAt(s, t, a)
  <1> DEFINE I == {i \in 1..Len(list[s][t]) : RowOf(list[s][t][i]).base = a}
             i0 == IF I # {} THEN Min(I) ELSE 0
  <1>1. list[s][t] \in Seq(Nodes)
    BY DEF SliceVars
  <1>2. CoreAt(s, t, a) = IF i0 = 0 THEN 0 ELSE list[s][t][i0]
    BY DEF CoreAt, SelectInSeq, List
  <1>3. I # {} /\ i0 = Min(I) /\ CoreAt(s, t, a) = list[s][t][i0]
    BY <1>2
  <1>4. I \subseteq Nat
    BY <1>1
  <1> HIDE DEF I
  <1>5. Min(I) \in I
    BY <1>3, <1>4, NatSetHasMin DEF Min
  <1>6. i0 \in DOMAIN list[s][t]
    BY <1>1, <1>3, <1>5 DEF I
  <1> QED
    BY <1>3, <1>6

(* While rows are entered, the nodes in the lists are rows.                *)
LEMMA RowsFirst ==
  ASSUME Structure, phase = "add",
         NEW s \in 0..MaxSlice, NEW t \in TypeNames, NEW k \in DOMAIN list[s][t]
  PROVE  list[s][t][k] \in Rows
  <1>1. list[s][t][k] \in Nodes /\ node[list[s][t][k]].life = "listed"
    BY OnePlace DEF Structure, Stands
  <1>2. \A m \in Rows : Aux(m) \in Nodes /\ m \in Nodes
    BY RowFacts DEF Structure
  <1>3. \A m \in Rows : node[Aux(m)].life = "none"
    BY <1>2 DEF Structure, Unentered, Unvisited
  <1>4. ~IsAux(list[s][t][k])
    BY <1>1, <1>3, RowFacts DEF Structure
  <1> QED
    BY <1>1, <1>4, RowFacts DEF Structure

(* A node that enters takes the next id of its list.                       *)
LEMMA FreshNode ==
  ASSUME SliceVars, NEW s \in 0..MaxSlice, NEW t \in TypeNames, NEW p \in 0..Len(table)
  PROVE  LET f == Fresh(s, t, p)
         IN  /\ f \in NodeRec /\ f.life = "listed" /\ f.id = Len(list[s][t])
             /\ f.parent = p /\ f.pid = (IF p = 0 THEN s ELSE node[p].id)
             /\ f.probes = 0 /\ f.region = FALSE /\ f.map = FALSE
  <1>1. Len(list[s][t]) \in Nat
    BY DEF SliceVars
  <1>2. (IF p = 0 THEN s ELSE node[p].id) \in Nat
    <2>1. p # 0 => p \in Nodes
      BY RowFacts
    <2> QED
      BY <2>1, RowFacts DEF SliceVars, NodeRec
  <1> QED
    BY <1>1, <1>2 DEF Fresh, List, NoNode, NodeRec

(* Only the window of an encoder has grown.                                *)
SameButWindow(g) ==
    /\ g \in [Nodes -> NodeRec]
    /\ \A m \in Nodes : /\ g[m].life = node[m].life /\ g[m].id = node[m].id
                        /\ g[m].parent = node[m].parent /\ g[m].pid = node[m].pid
                        /\ g[m].probes = node[m].probes
                        /\ g[m].region = node[m].region /\ g[m].map = node[m].map

(* Entering a row changes no earlier node but for such a window.           *)
LEMMA OnlyWindowGrows ==
  ASSUME SliceVars, NEW p \in 0..Len(table), NEW r \in Row
  PROVE  SameButWindow(GrownBy(p, r)) /\ SameButWindow(node)
  <1>1. node \in [Nodes -> NodeRec] /\ r.end \in Nat
    BY DEF SliceVars, Row
  <1>2. CASE p # 0 /\ RowOf(p).type = "enc" /\ r.end > node[p].window
    <2> DEFINE g == GrownBy(p, r)
    <2>1. g = [node EXCEPT ![p].window = r.end]
      BY <1>2 DEF GrownBy
    <2>2. g = [m \in Nodes |-> IF m = p THEN [node[m] EXCEPT !.window = r.end] ELSE node[m]]
      BY <1>1, <2>1
    <2> HIDE DEF g
    <2>3. ASSUME NEW m \in Nodes
          PROVE  /\ g[m] \in NodeRec
                 /\ g[m].life = node[m].life /\ g[m].id = node[m].id
                 /\ g[m].parent = node[m].parent /\ g[m].pid = node[m].pid
                 /\ g[m].probes = node[m].probes
                 /\ g[m].region = node[m].region /\ g[m].map = node[m].map
      <3> DEFINE f == node[m]
      <3>1. f \in NodeRec
        BY <1>1
      <3>2. g[m] = IF m = p THEN [f EXCEPT !.window = r.end] ELSE f
        BY <2>2
      <3> HIDE DEF f
      <3>3. /\ g[m] \in NodeRec
            /\ g[m].life = f.life /\ g[m].id = f.id
            /\ g[m].parent = f.parent /\ g[m].pid = f.pid
            /\ g[m].probes = f.probes /\ g[m].region = f.region /\ g[m].map = f.map
        <4>1. CASE m = p
          <5>1. g[m] = [f EXCEPT !.window = r.end]
            BY <3>2, <4>1
          <5> QED
            BY <1>1, <3>1, <5>1 DEF NodeRec
        <4>2. CASE m # p
          BY <3>1, <3>2, <4>2
        <4> QED
          BY <4>1, <4>2
      <3> QED
        BY <3>3 DEF f
    <2>4. g \in [Nodes -> NodeRec]
      BY <2>2, <2>3
    <2>5. SameButWindow(g)
      BY <2>3, <2>4 DEF SameButWindow
    <2> QED
      BY <1>1, <2>5 DEF SameButWindow, g
  <1>3. CASE ~(p # 0 /\ RowOf(p).type = "enc" /\ r.end > node[p].window)
    BY <1>1, <1>3 DEF GrownBy, SameButWindow
  <1> QED
    BY <1>1, <1>2, <1>3 DEF SameButWindow

(* What AddRow does with a row that has its slice.                         *)
RowEnters(n, s, t) ==
    /\ phase = "add" /\ n \in Rows /\ n = row /\ s = table[n].slice /\ t = table[n].type
    /\ row' = row + 1 /\ UNCHANGED <<table, at, failed, phase>>
    /\ slices' \in 0..(MaxSlice + 1) /\ slices <= slices' /\ s < slices'
    /\ list' = Entered(s, t, n)
    /\ node' \in [Nodes -> NodeRec]
    /\ \A m \in Nodes \ {n} :
         /\ node'[m].life = node[m].life /\ node'[m].id = node[m].id
         /\ node'[m].parent = node[m].parent /\ node'[m].pid = node[m].pid
         /\ node'[m].probes = node[m].probes
         /\ node'[m].region = node[m].region /\ node'[m].map = node[m].map
    /\ node'[n].life = "listed" /\ node'[n].id = Len(list[s][t])
    /\ node'[n].probes = 0 /\ ~node'[n].region /\ ~node'[n].map
    /\ node'[n].parent # 0 =>
         \E pt \in Parents : \E j \in DOMAIN list[s][pt] :
            list[s][pt][j] = node'[n].parent /\ node'[n].pid = j - 1
    /\ sem' = IF t = "dec" THEN [sem EXCEPT ![s] = Len(list[s][t]) + 1] ELSE sem

(* A node that is fresh, over nodes of which only windows have changed.    *)
LEMMA FreshEnters ==
  ASSUME Structure, phase = "add", NEW n \in Rows, n = row,
         NEW s \in 0..MaxSlice, NEW t \in TypeNames, NEW p \in 0..Len(table),
         NEW g, SameButWindow(g),
         p # 0 => \E pt \in Parents : \E j \in DOMAIN list[s][pt] : list[s][pt][j] = p,
         node'[n] = Fresh(s, t, p), \A m \in Nodes \ {n} : node'[m] = g[m],
         DOMAIN node' = Nodes, node' = [m \in DOMAIN node' |-> node'[m]]
  PROVE  /\ node' \in [Nodes -> NodeRec]
         /\ \A m \in Nodes \ {n} :
              /\ node'[m].life = node[m].life /\ node'[m].id = node[m].id
              /\ node'[m].parent = node[m].parent /\ node'[m].pid = node[m].pid
              /\ node'[m].probes = node[m].probes
              /\ node'[m].region = node[m].region /\ node'[m].map = node[m].map
         /\ node'[n].life = "listed" /\ node'[n].id = Len(list[s][t])
         /\ node'[n].probes = 0 /\ ~node'[n].region /\ ~node'[n].map
         /\ node'[n].parent # 0 =>
              \E pt \in Parents : \E j \in DOMAIN list[s][pt] :
                 list[s][pt][j] = node'[n].parent /\ node'[n].pid = j - 1
  <1>1. SliceVars /\ n \in Nodes /\ table[n] \in Row
    BY RowFacts DEF Structure
  <1> DEFINE f == Fresh(s, t, p)
  <1>2. /\ g \in [Nodes -> NodeRec]
        /\ \A m \in Nodes : /\ g[m].life = node[m].life /\ g[m].id = node[m].id
                            /\ g[m].parent = node[m].parent /\ g[m].pid = node[m].pid
                            /\ g[m].probes = node[m].probes
                            /\ g[m].region = node[m].region /\ g[m].map = node[m].map
    BY DEF SameButWindow
  <1>3. /\ f \in NodeRec /\ f.life = "listed" /\ f.id = Len(list[s][t])
        /\ f.parent = p /\ f.pid = (IF p = 0 THEN s ELSE node[p].id)
        /\ f.probes = 0 /\ f.region = FALSE /\ f.map = FALSE
    BY <1>1, FreshNode
  <1>4. node'[n] = f /\ \A m \in Nodes \ {n} : node'[m] = g[m]
    OBVIOUS
  <1> HIDE DEF f
  <1>5. \A m \in Nodes : node'[m] \in NodeRec
    BY <1>1, <1>2, <1>3, <1>4
  <1>6. node' \in [Nodes -> NodeRec]
    BY <1>5
  <1>7. ASSUME p # 0
        PROVE  \E pt \in Parents : \E j \in DOMAIN list[s][pt] :
                 list[s][pt][j] = p /\ node[p].id = j - 1
    <2>1. PICK pt \in Parents : \E j \in DOMAIN list[s][pt] : list[s][pt][j] = p
      BY <1>7
    <2>2. PICK j \in DOMAIN list[s][pt] : list[s][pt][j] = p
      BY <2>1
    <2>3. pt \in TypeNames
      BY DEF Parents, TypeNames
    <2>4. Stands(s, pt, j)
      BY <2>3 DEF Structure, Placed
    <2> QED
      BY <2>2, <2>4 DEF Stands
  <1> QED
    BY <1>2, <1>3, <1>4, <1>6, <1>7

(* Where the node of a row goes: the end of the list it names.             *)
LEMMA AddRowEnters ==
  ASSUME Structure, AddRow, table[row].slice < slices'
  PROVE  RowEnters(row, table[row].slice, table[row].type)
  <1> DEFINE n == row
             s == table[row].slice
             t == table[row].type
  <1>1. SliceVars /\ phase = "add" /\ row <= Len(table) /\ row' = row + 1
        /\ slices' = SliceFor(t, s) /\ UNCHANGED <<table, at, failed>>
    BY DEF Structure, AddRow
  <1>2. n \in Rows /\ table[n] \in Row /\ n \in Nodes /\ MaxSlice \in Nat /\ Len(table) \in Nat
    BY <1>1, RowFacts DEF SliceVars
  <1>3. s \in 0..MaxSlice /\ t \in TypeNames /\ table[n].parent \in Nat /\ table[n].client \in Parents
    BY <1>2, TypeNamesAreTypes DEF Row
  <1>4. slices \in 0..(MaxSlice + 1)
    BY <1>1 DEF SliceVars
  <1>5. slices' \in 0..(MaxSlice + 1) /\ slices <= slices' /\ s < slices'
    BY <1>1, <1>2, <1>3, <1>4 DEF SliceFor
  <1>6. /\ CASE t = "dec" -> AddDec(s, n)
             [] t = "enc" -> AddEnc(s, n)
             [] t = "cache" -> AddCache(s, n)
             [] t = "dec400" -> AddDec400(s, n)
             [] t = "axife" -> AddAxife(s, n)
             [] t = "mmu" -> AddMmu(s, n)
        /\ UNCHANGED phase
    <2>1. ~(s >= slices')
      BY <1>2, <1>3, <1>5
    <2> QED
      BY <2>1 DEF AddRow
  <1>7. \A a : /\ CoreAt(s, "enc", a) # 0 => \E j \in DOMAIN list[s]["enc"] :
                                               list[s]["enc"][j] = CoreAt(s, "enc", a)
               /\ CoreAt(s, "dec", a) # 0 => \E j \in DOMAIN list[s]["dec"] :
                                               list[s]["dec"][j] = CoreAt(s, "dec", a)
    BY <1>1, <1>3, CoreAtFound DEF TypeNames
  <1>8. \A a : CoreAt(s, "enc", a) \in 0..Len(table) /\ CoreAt(s, "dec", a) \in 0..Len(table)
    <2>1. \A j \in DOMAIN list[s]["enc"] : list[s]["enc"][j] \in Rows
      BY <1>1, <1>3, RowsFirst DEF TypeNames
    <2>2. \A j \in DOMAIN list[s]["dec"] : list[s]["dec"][j] \in Rows
      BY <1>1, <1>3, RowsFirst DEF TypeNames
    <2>3. Rows = 1..Len(table)
      BY <1>1, RowFacts
    <2> QED
      BY <1>2, <1>7, <2>1, <2>2, <2>3
  <1>9. "enc" \in Parents /\ "dec" \in Parents
    BY DEF Parents
  <1> DEFINE Enters(p, g) ==
        /\ p \in 0..Len(table) /\ SameButWindow(g)
        /\ p # 0 => \E pt \in Parents : \E j \in DOMAIN list[s][pt] : list[s][pt][j] = p
        /\ node' = [g EXCEPT ![n] = Fresh(s, t, p)]
        /\ list' = Entered(s, t, n)
        /\ sem' = IF t = "dec" THEN [sem EXCEPT ![s] = Len(list[s][t]) + 1] ELSE sem
  <1>10. \E p, g : Enters(p, g)
    <2>1. CASE t \in {"dec", "enc", "mmu"}
      <3>1. Enters(0, node)
        <4>1. 0 \in 0..Len(table) /\ SameButWindow(node)
          BY <1>1, <1>2, OnlyWindowGrows
        <4>2. /\ list' = Entered(s, t, n) /\ node' = [node EXCEPT ![n] = Fresh(s, t, 0)]
              /\ sem' = IF t = "dec" THEN [sem EXCEPT ![s] = Len(list[s][t]) + 1] ELSE sem
          BY <1>6, <2>1 DEF AddDec, AddEnc, AddMmu, List
        <4> QED
          BY <4>1, <4>2
      <3> QED
        BY <3>1
    <2>2. CASE t = "cache"
      <3> DEFINE p == CoreAt(s, table[n].client, table[n].parent)
      <3>1. AddCache(s, n)
        BY <1>6, <2>2
      <3>2. table[n].client = "enc" \/ table[n].client = "dec"
        BY <1>3 DEF Parents
      <3>3. /\ p \in 0..Len(table)
            /\ p # 0 => \E pt \in Parents : \E j \in DOMAIN list[s][pt] : list[s][pt][j] = p
        BY <1>7, <1>8, <1>9, <3>2
      <3>4. Enters(p, node)
        <4>1. SameButWindow(node)
          BY <1>1, <1>2, <3>3, OnlyWindowGrows
        <4> HIDE DEF p
        <4>2. list' = Entered(s, t, n) /\ sem' = sem /\ node' = [node EXCEPT ![n] = Fresh(s, t, p)]
          BY <2>2, <3>1 DEF AddCache, p
        <4> QED
          BY <2>2, <3>3, <4>1, <4>2
      <3> QED
        BY <3>4
    <2>3. CASE t \in {"dec400", "axife"}
      <3> DEFINE a == table[n].parent
                 p == IF a = SliceAddress THEN 0
                      ELSE IF CoreAt(s, "enc", a) # 0 THEN CoreAt(s, "enc", a) ELSE CoreAt(s, "dec", a)
      <3>1. AddAxife(s, n)
        BY <1>6, <2>3 DEF AddDec400
      <3>2. /\ p \in 0..Len(table)
            /\ p # 0 => \E pt \in Parents : \E j \in DOMAIN list[s][pt] : list[s][pt][j] = p
        BY <1>2, <1>7, <1>8, <1>9 DEF SliceAddress
      <3>3. Enters(p, GrownBy(p, table[n]))
        <4>1. SameButWindow(GrownBy(p, table[n]))
          BY <1>1, <1>2, <3>2, OnlyWindowGrows
        <4>2. /\ list' = Entered(s, t, n) /\ sem' = sem
              /\ node' = [GrownBy(p, table[n]) EXCEPT ![n] = Fresh(s, t, p)]
          BY <3>1 DEF AddAxife
        <4> HIDE DEF p
        <4> QED
          BY <2>3, <3>2, <4>1, <4>2
      <3> QED
        BY <3>3
    <2> QED
      BY <1>3, <2>1, <2>2, <2>3 DEF TypeNames
  <1>11. PICK p, g : Enters(p, g)
    BY <1>10
  <1>12. /\ node' \in [Nodes -> NodeRec]
         /\ \A m \in Nodes \ {n} :
              /\ node'[m].life = node[m].life /\ node'[m].id = node[m].id
              /\ node'[m].parent = node[m].parent /\ node'[m].pid = node[m].pid
              /\ node'[m].probes = node[m].probes
              /\ node'[m].region = node[m].region /\ node'[m].map = node[m].map
         /\ node'[n].life = "listed" /\ node'[n].id = Len(list[s][t])
         /\ node'[n].probes = 0 /\ ~node'[n].region /\ ~node'[n].map
         /\ node'[n].parent # 0 =>
              \E pt \in Parents : \E j \in DOMAIN list[s][pt] :
                 list[s][pt][j] = node'[n].parent /\ node'[n].pid = j - 1
    <2>1. /\ Structure /\ phase = "add" /\ n \in Rows /\ n = row /\ s \in 0..MaxSlice
          /\ t \in TypeNames /\ p \in 0..Len(table) /\ SameButWindow(g)
          /\ p # 0 => \E pt \in Parents : \E j \in DOMAIN list[s][pt] : list[s][pt][j] = p
      BY <1>1, <1>2, <1>3, <1>11
    <2>2. /\ node'[n] = Fresh(s, t, p) /\ \A m \in Nodes \ {n} : node'[m] = g[m]
          /\ DOMAIN node' = Nodes /\ node' = [m \in DOMAIN node' |-> node'[m]]
      BY <1>2, <1>11 DEF SameButWindow
    <2> HIDE DEF n, s, t, Enters
    <2> QED
      BY <2>1, <2>2, FreshEnters, SMTT(20)
  <1> QED
    BY <1>1, <1>2, <1>5, <1>6, <1>11, <1>12 DEF RowEnters

(* Where the nodes of the lists were before one was entered.               *)
LEMMA EnteredPlaces ==
  ASSUME SliceVars, NEW s \in 0..MaxSlice, NEW t \in TypeNames, NEW n \in Nodes,
         list' = Entered(s, t, n)
  PROVE  /\ \A u \in 0..MaxSlice, v \in TypeNames : \A k \in DOMAIN list[u][v] :
              k \in DOMAIN list'[u][v] /\ list'[u][v][k] = list[u][v][k]
         /\ \A u \in 0..MaxSlice, v \in TypeNames : \A k \in DOMAIN list'[u][v] :
              \/ k \in DOMAIN list[u][v] /\ list'[u][v][k] = list[u][v][k]
              \/ u = s /\ v = t /\ k = Len(list[s][t]) + 1 /\ list'[u][v][k] = n
         /\ \A u \in 0..MaxSlice, v \in TypeNames :
              Len(list'[u][v]) = IF u = s /\ v = t THEN Len(list[u][v]) + 1 ELSE Len(list[u][v])
  <1> DEFINE l == Len(list[s][t])
  <1>1. list \in [0..MaxSlice -> [TypeNames -> Seq(Nodes)]]
    BY DEF SliceVars
  <1>2. list[s][t] \in Seq(Nodes) /\ l \in Nat /\ DOMAIN list[s][t] = 1..l
    BY <1>1
  <1>3. list' = [list EXCEPT ![s][t] = Append(list[s][t], n)]
    BY <1>1 DEF Entered
  <1>4. /\ list'[s][t] = Append(list[s][t], n)
        /\ \A u \in 0..MaxSlice, v \in TypeNames : u # s \/ v # t => list'[u][v] = list[u][v]
    BY <1>1, <1>3
  <1>5. /\ list'[s][t] \in Seq(Nodes) /\ Len(list'[s][t]) = l + 1
        /\ \A k \in 1..l : list'[s][t][k] = list[s][t][k]
        /\ list'[s][t][l + 1] = n /\ DOMAIN list'[s][t] = 1..(l + 1)
    BY <1>2, <1>4, AppendProperties
  <1>6. \A k \in 1..(l + 1) : k \in 1..l \/ k = l + 1
    BY <1>2
  <1>7. \A k \in 1..l : k \in 1..(l + 1)
    BY <1>2
  <1> HIDE DEF l
  <1>8. ASSUME NEW u \in 0..MaxSlice, NEW v \in TypeNames, u = s /\ v = t
        PROVE  /\ \A k \in DOMAIN list[u][v] :
                    k \in DOMAIN list'[u][v] /\ list'[u][v][k] = list[u][v][k]
               /\ \A k \in DOMAIN list'[u][v] :
                    \/ k \in DOMAIN list[u][v] /\ list'[u][v][k] = list[u][v][k]
                    \/ u = s /\ v = t /\ k = l + 1 /\ list'[u][v][k] = n
               /\ Len(list'[u][v]) = l + 1
    BY <1>2, <1>5, <1>6, <1>7, <1>8
  <1> QED
    <2>1. ASSUME NEW u \in 0..MaxSlice, NEW v \in TypeNames
          PROVE  /\ \A k \in DOMAIN list[u][v] :
                      k \in DOMAIN list'[u][v] /\ list'[u][v][k] = list[u][v][k]
                 /\ \A k \in DOMAIN list'[u][v] :
                      \/ k \in DOMAIN list[u][v] /\ list'[u][v][k] = list[u][v][k]
                      \/ u = s /\ v = t /\ k = l + 1 /\ list'[u][v][k] = n
                 /\ Len(list'[u][v]) = IF u = s /\ v = t THEN Len(list[u][v]) + 1 ELSE Len(list[u][v])
      <3>1. CASE u = s /\ v = t
        BY <1>8, <3>1 DEF l
      <3>2. CASE u # s \/ v # t
        <4>1. list'[u][v] = list[u][v]
          BY <1>4, <3>2
        <4> QED
          BY <3>2, <4>1
      <3> QED
        BY <3>1, <3>2
    <2> QED
      BY <2>1 DEF l

(* Entering a row, or dying of it, keeps the invariant.                    *)
LEMMA AddRowKeeps ==
  ASSUME SliceInv, AddRow
  PROVE  SliceInv'
  <1>1. /\ Structure /\ SliceVars /\ Placed /\ Found /\ Unentered /\ Unvisited
        /\ Returned /\ AttachedWell /\ PermitsCoverCores
    BY DEF SliceInv, Structure
  <1>2. /\ phase = "add" /\ row \in Rows /\ UNCHANGED <<table, at, failed>>
        /\ row' = row + 1 /\ row' \in 1..(Len(table) + 1)
        /\ table[row].slice \in 0..MaxSlice /\ table[row].type \in TypeNames
        /\ slices' = SliceFor(table[row].type, table[row].slice)
    <2>1. phase = "add" /\ row <= Len(table) /\ row' = row + 1
      BY DEF AddRow
    <2>2. row \in Rows /\ row' \in 1..(Len(table) + 1)
      BY <1>1, <2>1, RowFacts DEF SliceVars
    <2> QED
      BY <1>1, <2>1, <2>2, RowFacts, TypeNamesAreTypes DEF AddRow, Row
  <1>3. MaxSlice \in Nat /\ Len(table) \in Nat
    BY <1>1, RowFacts
  <1>4. Nodes' = Nodes /\ Rows' = Rows /\ \A m : RowOf(m)' = RowOf(m) /\ Aux(m)' = Aux(m)
    BY <1>2, SameTable DEF Aux
  <1>5. /\ \A m \in Rows : m \in Nodes /\ m \in Int /\ Aux(m) \in Nodes /\ Aux(m) \notin Rows
        /\ Rows \subseteq Nodes
    BY <1>1, RowFacts DEF IsAux
  <1>6. CASE table[row].slice < slices'
    <2> DEFINE n == row
               s == table[row].slice
               t == table[row].type
    <2>1. RowEnters(n, s, t)
      BY <1>1, <1>6, AddRowEnters
    <2> HIDE DEF n, s, t
    <2>2. /\ phase' = "add" /\ n \in Rows /\ n = row /\ list' = Entered(s, t, n)
          /\ slices' \in 0..(MaxSlice + 1) /\ slices <= slices' /\ s < slices'
          /\ node' \in [Nodes -> NodeRec]
          /\ s \in 0..MaxSlice /\ t \in TypeNames /\ s = table[n].slice /\ t = table[n].type
      BY <1>2, <2>1 DEF RowEnters, n, s, t
    <2>3. /\ \A m \in Nodes \ {n} :
             /\ node'[m].life = node[m].life /\ node'[m].id = node[m].id
             /\ node'[m].parent = node[m].parent /\ node'[m].pid = node[m].pid
             /\ node'[m].probes = node[m].probes
             /\ node'[m].region = node[m].region /\ node'[m].map = node[m].map
          /\ node'[n].life = "listed" /\ node'[n].id = Len(list[s][t])
          /\ node'[n].probes = 0 /\ ~node'[n].region /\ ~node'[n].map
      BY <2>1 DEF RowEnters
    <2>4. /\ sem' = IF t = "dec" THEN [sem EXCEPT ![s] = Len(list[s][t]) + 1] ELSE sem
          /\ node'[n].parent # 0 =>
               \E pt \in Parents : \E j \in DOMAIN list[s][pt] :
                  list[s][pt][j] = node'[n].parent /\ node'[n].pid = j - 1
      BY <2>1 DEF RowEnters
    <2>5. RowOf(n) = table[n] /\ n \in Nodes /\ node[n].life = "none"
      <3>1. n >= row /\ n \in Rows
        BY <1>5, <2>2
      <3> QED
        BY <1>1, <1>5, <2>2, <3>1, RowFacts DEF Unentered
    <2>6. /\ list' \in [0..MaxSlice -> [TypeNames -> Seq(Nodes)]]
          /\ Placed' /\ Found'
      BY <1>1, <1>2, <2>2, <2>3, <2>5, EnteredList
    <2>7. /\ \A u \in 0..MaxSlice, v \in TypeNames : \A k \in DOMAIN list[u][v] :
               k \in DOMAIN list'[u][v] /\ list'[u][v][k] = list[u][v][k]
          /\ \A u \in 0..MaxSlice, v \in TypeNames : \A k \in DOMAIN list'[u][v] :
               \/ k \in DOMAIN list[u][v] /\ list'[u][v][k] = list[u][v][k]
               \/ u = s /\ v = t /\ k = Len(list[s][t]) + 1 /\ list'[u][v][k] = n
          /\ \A u \in 0..MaxSlice, v \in TypeNames :
               Len(list'[u][v]) = IF u = s /\ v = t THEN Len(list[u][v]) + 1 ELSE Len(list[u][v])
      <3>1. /\ SliceVars /\ s \in 0..MaxSlice /\ t \in TypeNames /\ n \in Nodes
            /\ list' = Entered(s, t, n)
        BY <1>1, <2>2, <2>5
      <3> QED
        BY <3>1, EnteredPlaces
    <2>8. SliceVars'
      <3>1. sem' \in [0..MaxSlice -> Nat]
        <4>1. Len(list[s][t]) + 1 \in Nat /\ sem \in [0..MaxSlice -> Nat]
          BY <1>1, <2>2, SMTT(20) DEF SliceVars
        <4> QED
          BY <2>2, <2>4, <4>1
      <3> QED
        BY <1>1, <1>2, <1>4, <2>2, <2>6, <3>1 DEF SliceVars, NodeRec
    <2>9. Unentered'
      <3>1. ASSUME NEW m \in Rows, m >= row' PROVE node'[m].life = "none"
        <4>0. m \in Int /\ row \in Int /\ m >= row + 1
          BY <1>2, <1>5, <3>1
        <4>1. m # n /\ m >= row
          BY <2>2, <4>0
        <4> QED
          BY <1>1, <1>5, <2>3, <4>1 DEF Unentered
      <3>2. ASSUME NEW m \in Rows PROVE node'[Aux(m)].life = "none"
        <4>1. Aux(m) # n /\ Aux(m) \in Nodes /\ node[m].probes = 0
          BY <1>1, <1>2, <1>5, <2>2 DEF Unvisited
        <4> QED
          BY <1>1, <2>3, <4>1 DEF Unentered
      <3> QED
        BY <1>4, <3>1, <3>2 DEF Unentered
    <2>10. Unvisited'
      <3>1. \A m \in Nodes : node'[m].probes = 0
        BY <1>1, <1>2, <2>3, <2>5 DEF Unvisited
      <3> QED
        BY <1>1, <1>2, <1>4, <2>2, <3>1 DEF Unvisited
    <2>11. Mapped'
      BY <2>2 DEF Mapped
    <2>12. Returned'
      BY <1>1, <1>2, <1>4, <2>2, <2>3, <2>5 DEF Returned
    <2>13. AttachedWell'
      <3> SUFFICES ASSUME failed = {}, NEW u \in 0..MaxSlice, NEW v \in Attached,
                          NEW k \in DOMAIN list'[u][v],
                          node'[list'[u][v][k]].parent # 0
                   PROVE  \E pt \in Parents : \E j \in DOMAIN list'[u][pt] :
                            /\ list'[u][pt][j] = node'[list'[u][v][k]].parent
                            /\ node'[list'[u][v][k]].pid = j - 1
        BY <1>2 DEF AttachedWell
      <3>1. v \in TypeNames /\ \A pt \in Parents : pt \in TypeNames
        BY DEF Attached, TypeNames, Parents
      <3>2. CASE k \in DOMAIN list[u][v] /\ list'[u][v][k] = list[u][v][k]
        <4>1. list[u][v][k] \in Nodes /\ list[u][v][k] # n
          BY <1>1, <2>5, <3>1, <3>2, OnePlace DEF Stands
        <4>2. PICK pt \in Parents : \E j \in DOMAIN list[u][pt] :
                 list[u][pt][j] = node[list[u][v][k]].parent /\ node[list[u][v][k]].pid = j - 1
          BY <1>1, <1>2, <2>3, <3>2, <4>1 DEF AttachedWell
        <4> QED
          BY <2>3, <2>7, <3>1, <3>2, <4>1, <4>2
      <3>3. CASE u = s /\ v = t /\ k = Len(list[s][t]) + 1 /\ list'[u][v][k] = n
        BY <2>4, <2>7, <3>1, <3>3
      <3> QED
        BY <2>7, <3>1, <3>2, <3>3
    <2>14. PermitsCoverCores'
      <3> SUFFICES ASSUME NEW u \in 0..MaxSlice
                   PROVE  /\ sem'[u] >= Len(list'[u]["dec"])
                          /\ sem'[u] > Len(list'[u]["dec"]) =>
                               \E m \in failed : RowOf(m).type = "dec" /\ RowOf(m).slice = u
        BY <1>2, <1>4, <2>2, <2>6 DEF PermitsCoverCores, List
      <3>1. /\ sem[u] >= Len(list[u]["dec"])
            /\ sem[u] > Len(list[u]["dec"]) =>
                 \E m \in failed : RowOf(m).type = "dec" /\ RowOf(m).slice = u
        BY <1>1, <1>2 DEF PermitsCoverCores, List, SliceVars
      <3>2. Len(list[u]["dec"]) \in Nat /\ sem \in [0..MaxSlice -> Nat] /\ "dec" \in TypeNames
        BY <1>1 DEF SliceVars, TypeNames
      <3>3. CASE t = "dec" /\ u = s
        <4>1. sem'[u] = Len(list[u]["dec"]) + 1 /\ Len(list'[u]["dec"]) = Len(list[u]["dec"]) + 1
          BY <2>4, <2>7, <3>2, <3>3
        <4> QED
          BY <3>2, <4>1
      <3>4. CASE ~(t = "dec" /\ u = s)
        <4>1. sem'[u] = sem[u] /\ Len(list'[u]["dec"]) = Len(list[u]["dec"])
          BY <2>4, <2>7, <3>2, <3>4
        <4> QED
          BY <3>1, <4>1
      <3> QED
        BY <3>3, <3>4
    <2> QED
      BY <2>6, <2>8, <2>9, <2>10, <2>11, <2>12, <2>13, <2>14 DEF SliceInv, Structure
  <1>7. CASE ~(table[row].slice < slices')
    <2>1. slices' \in 0..(MaxSlice + 1) /\ slices <= slices'
      BY <1>1, <1>2, <1>3, SMTT(20) DEF SliceFor, SliceVars
    <2>2. table[row].slice >= slices'
      BY <1>2, <1>3, <1>7, <2>1
    <2>3. /\ phase' \in {"add", "oops"} /\ UNCHANGED <<list, sem, node>>
      BY <1>2, <2>2 DEF AddRow
    <2>4. Placed' /\ Found'
      BY <1>1, <1>2, <2>1, <2>3, SameLists
    <2>5. SliceVars'
      BY <1>1, <1>2, <1>4, <2>1, <2>3 DEF SliceVars, NodeRec
    <2>6. Unentered'
      <3>1. ASSUME NEW m \in Rows, m >= row' PROVE node[m].life = "none"
        <4>0. m \in Int /\ row \in Int /\ m >= row + 1
          BY <1>2, <1>5, <3>1
        <4>1. m >= row
          BY <4>0
        <4> QED
          BY <1>1, <4>1 DEF Unentered
      <3> QED
        BY <1>1, <1>4, <2>3, <3>1 DEF Unentered
    <2>7. Unvisited' /\ Mapped' /\ Returned'
      <3>1. Unvisited'
        BY <1>1, <1>2, <1>4, <2>3 DEF Unvisited
      <3>2. Mapped'
        BY <2>3 DEF Mapped
      <3>3. Returned'
        BY <1>1, <1>2, <1>4, <2>3 DEF Returned
      <3> QED
        BY <3>1, <3>2, <3>3
    <2>8. AttachedWell'
      BY <1>1, <1>2, <2>3 DEF AttachedWell
    <2>9. PermitsCoverCores'
      BY <1>1, <1>2, <1>4, <2>3 DEF PermitsCoverCores, List
    <2> QED
      BY <2>4, <2>5, <2>6, <2>7, <2>8, <2>9 DEF SliceInv, Structure
  <1> QED
    BY <1>6, <1>7

-----------------------------------------------------------------------------
(* The walk of the probe begins and moves on to the next list.             *)

(* Nothing but the place of the walk changes.                              *)
LEMMA OnlyTheWalkMoves ==
  ASSUME Structure, UNCHANGED <<table, row, slices, list, node, sem, failed>>
  PROVE  /\ Placed' /\ Found' /\ Unentered'
         /\ Nodes' = Nodes /\ Rows' = Rows /\ \A m : RowOf(m)' = RowOf(m)
  <1>1. SliceVars /\ Placed /\ Found /\ slices' \in 0..(MaxSlice + 1) /\ slices <= slices'
    BY DEF Structure, SliceVars
  <1>2. Placed' /\ Found'
    BY <1>1, SameLists
  <1>3. Nodes' = Nodes /\ Rows' = Rows /\ \A m : RowOf(m)' = RowOf(m) /\ Aux(m)' = Aux(m)
    BY SameTable DEF Aux
  <1>4. Unentered'
    BY <1>3 DEF Structure, Unentered
  <1> QED
    BY <1>2, <1>3, <1>4

(* So does the start of the walk, before the first node of the first list. *)
LEMMA StartProbeKeeps ==
  ASSUME SliceInv, StartProbe
  PROVE  SliceInv'
  <1>1. /\ Structure /\ SliceVars /\ Placed /\ Unvisited
        /\ Returned /\ AttachedWell /\ PermitsCoverCores
    BY DEF SliceInv, Structure
  <1>2. /\ phase = "add" /\ at' = [at EXCEPT !.coren = Len(list[0]["dec"])]
        /\ phase' = IF slices = 0 THEN "running" ELSE "probe"
        /\ UNCHANGED <<table, row, slices, list, node, sem, failed>>
    BY DEF StartProbe, List
  <1>3. MaxSlice \in Nat /\ 0 \in 0..MaxSlice /\ "dec" \in TypeNames
    BY <1>1, RowFacts DEF TypeNames
  <1>4. /\ at \in [slice : 0..MaxSlice, type : 1..6, pos : Nat, coren : Nat]
        /\ Len(list[0]["dec"]) \in Nat /\ slices \in Nat
        /\ at.slice = 0 /\ at.type = 1 /\ at.pos = 0
        /\ \A n \in Nodes : node[n].probes = 0
    BY <1>1, <1>2, <1>3 DEF SliceVars, Unvisited
  <1>5. /\ at'.slice = 0 /\ at'.type = 1 /\ at'.pos = 0 /\ at'.coren = Len(list[0]["dec"])
        /\ at' \in [slice : 0..MaxSlice, type : 1..6, pos : Nat, coren : Nat]
    BY <1>2, <1>4
  <1>6. /\ Placed' /\ Found' /\ Unentered'
        /\ Nodes' = Nodes /\ Rows' = Rows /\ \A m : RowOf(m)' = RowOf(m)
    BY <1>1, <1>2, OnlyTheWalkMoves
  <1>7. SliceVars'
    BY <1>1, <1>2, <1>5, <1>6 DEF SliceVars, NodeRec
  <1>8. Unvisited'
    <2>1. \A s \in 0..MaxSlice, t \in TypeNames : \A k \in DOMAIN list[s][t] :
             node[list[s][t][k]].probes = 0
      BY <1>1, <1>4, OnePlace
    <2>2. phase' = "probe" => slices > 0
      BY <1>2, <1>4
    <2> QED
      BY <1>2, <1>5, <2>1, <2>2 DEF Unvisited
  <1>9. Mapped'
    <2> SUFFICES ASSUME NEW s \in 0..MaxSlice, NEW t \in TypeNames,
                        NEW k \in DOMAIN list[s][t]
                 PROVE  ToVisit(s, t, k)'
      BY <1>2 DEF Mapped
    <2>1. s < slices /\ s \in Nat /\ k \in 1..Len(list[s][t])
      BY <1>1, OnePlace DEF Stands
    <2>2. phase' = "probe"
      BY <1>2, <1>4, <2>1
    <2>3. CASE s = 0
      <3>1. CASE t = "dec"
        <4>1. Idx[t] = 1 /\ k \in 1..at'.coren
          BY <1>5, <2>1, <2>3, <3>1 DEF Idx
        <4> QED
          BY <1>5, <2>2, <2>3, <4>1 DEF ToVisit
      <3>2. CASE t # "dec"
        <4>1. Idx[t] > 1
          BY <3>2 DEF Idx, TypeNames
        <4> QED
          BY <1>5, <2>2, <2>3, <4>1 DEF ToVisit
      <3> QED
        BY <3>1, <3>2
    <2>4. CASE s # 0
      BY <1>5, <2>1, <2>2, <2>4 DEF ToVisit
    <2> QED
      BY <2>3, <2>4
  <1>10. Returned'
    BY <1>1, <1>2, <1>6 DEF Returned
  <1>11. AttachedWell' /\ PermitsCoverCores'
    <2>1. AttachedWell'
      BY <1>1, <1>2 DEF AttachedWell
    <2>2. PermitsCoverCores'
      BY <1>1, <1>2, <1>6 DEF PermitsCoverCores, List
    <2> QED
      BY <2>1, <2>2
  <1> QED
    BY <1>6, <1>7, <1>8, <1>9, <1>10, <1>11 DEF SliceInv, Structure

(* So does going on to the next list: what is left behind was visited.     *)
LEMMA NextListKeeps ==
  ASSUME SliceInv, NextList
  PROVE  SliceInv'
  <1>1. /\ Structure /\ SliceVars /\ Placed /\ Unvisited
        /\ Mapped /\ Returned /\ AttachedWell /\ PermitsCoverCores
    BY DEF SliceInv, Structure
  <1> DEFINE nt == IF at.type < 6 THEN at.type + 1 ELSE 1
             ns == IF at.type < 6 THEN at.slice ELSE at.slice + 1
  <1>2. /\ phase = "probe" /\ ~AtNode
        /\ \/ /\ ns < slices /\ phase' = phase
              /\ at' = [slice |-> ns, type |-> nt, pos |-> 0, coren |-> Len(list[ns][Types[nt]])]
           \/ ns >= slices /\ phase' = "running" /\ at' = at
        /\ UNCHANGED <<table, row, slices, list, node, sem, failed>>
    <2>1. ns \in Int /\ slices \in Int
      BY <1>1 DEF SliceVars
    <2> QED
      BY <2>1, TypeNamesAreTypes DEF NextList, List
  <1>3. /\ MaxSlice \in Nat /\ slices \in 0..(MaxSlice + 1)
        /\ at \in [slice : 0..MaxSlice, type : 1..6, pos : Nat, coren : Nat]
        /\ nt \in 1..6 /\ ns \in Nat /\ at.slice \in Nat /\ at.type \in 1..6
        /\ at.type < 6 => nt = at.type + 1 /\ ns = at.slice
        /\ at.type = 6 => nt = 1 /\ ns = at.slice + 1
    BY <1>1, RowFacts, SMTT(20) DEF SliceVars
  <1> HIDE DEF nt, ns
  <1>4. /\ Placed' /\ Found' /\ Unentered'
        /\ Nodes' = Nodes /\ Rows' = Rows /\ \A m : RowOf(m)' = RowOf(m)
    BY <1>1, <1>2, OnlyTheWalkMoves
  (* what the walk has left behind it, if it has not failed *)
  <1>5. ASSUME NEW s \in 0..MaxSlice, NEW t \in TypeNames, NEW k \in DOMAIN list[s][t]
        PROVE  /\ s < slices /\ s \in Nat /\ Idx[t] \in 1..6 /\ k \in 1..Len(list[s][t])
               /\ ToVisit(s, t, k) => s > at.slice \/ (s = at.slice /\ Idx[t] > at.type)
    <2>1. s < slices /\ s \in Nat /\ k \in 1..Len(list[s][t]) /\ Len(list[s][t]) \in Nat
      BY <1>1, OnePlace DEF Stands
    <2>2. Idx[t] \in 1..6 /\ Types[Idx[t]] = t
      BY TypeNamesAreTypes
    <2>3. ASSUME s = at.slice, Idx[t] = at.type, k \in (at.pos + 1)..at.coren
          PROVE  FALSE
      <3>1. Current = list[s][t]
        BY <2>2, <2>3 DEF Current, Type, List
      <3> QED
        <4>1. ~(at.pos < at.coren /\ at.pos < Len(list[s][t]))
          BY <1>2, <3>1 DEF AtNode
        <4>2. at.pos \in Nat /\ at.coren \in Nat
          BY <1>3
        <4> QED
          BY <2>1, <2>3, <4>1, <4>2
    <2>4. ToVisit(s, t, k) => s > at.slice \/ (s = at.slice /\ Idx[t] > at.type)
      BY <2>3 DEF ToVisit
    <2> QED
      BY <2>1, <2>2, <2>4
  <1>6. CASE ns < slices
    <2>1. phase' = "probe" /\ at' = [slice |-> ns, type |-> nt, pos |-> 0, coren |-> Len(list[ns][Types[nt]])]
      BY <1>2, <1>3, <1>6
    <2>2. ns \in 0..MaxSlice /\ Types[nt] \in TypeNames /\ Len(list[ns][Types[nt]]) \in Nat
      <3>1. ns \in 0..MaxSlice /\ Types[nt] \in TypeNames
        BY <1>3, <1>6, TypeNamesAreTypes
      <3> QED
        BY <1>1, <3>1 DEF SliceVars
    <2>3. /\ at'.slice = ns /\ at'.type = nt /\ at'.pos = 0 /\ at'.coren = Len(list[ns][Types[nt]])
          /\ at' \in [slice : 0..MaxSlice, type : 1..6, pos : Nat, coren : Nat]
      BY <1>3, <2>1, <2>2
    <2>4. SliceVars'
      BY <1>1, <1>2, <1>4, <2>3 DEF SliceVars, NodeRec
    <2>5. Unvisited'
      <3>1. ASSUME NEW s \in 0..MaxSlice, NEW t \in TypeNames, NEW k \in DOMAIN list[s][t],
                   Ahead(s, t, k)'
            PROVE  node[list[s][t][k]].probes = 0
        <4>1. s > ns \/ (s = ns /\ (Idx[t] > nt \/ Idx[t] = nt))
          <5>1. \/ s > at'.slice
                \/ s = at'.slice /\ (Idx[t] > at'.type \/ (Idx[t] = at'.type /\ k > at'.pos))
            BY <3>1 DEF Ahead
          <5> QED
            BY <2>3, <5>1
        <4>2. Ahead(s, t, k)
          <5>1. s \in Nat /\ Idx[t] \in 1..6
            BY <1>5
          <5>2. s > at.slice \/ (s = at.slice /\ Idx[t] > at.type)
            BY <1>3, <4>1, <5>1
          <5> QED
            BY <5>2 DEF Ahead
        <4> QED
          BY <1>1, <1>2, <4>2 DEF Unvisited
      <3> QED
        BY <1>2, <1>6, <2>1, <2>3, <3>1 DEF Unvisited
    <2>6. Mapped'
      <3> SUFFICES ASSUME failed = {}, NEW s \in 0..MaxSlice, NEW t \in TypeNames,
                          NEW k \in DOMAIN list[s][t], ToVisit(s, t, k)
                   PROVE  ToVisit(s, t, k)'
        BY <1>1, <1>2 DEF Mapped
      <3>1. s > ns \/ (s = ns /\ (Idx[t] > nt \/ Idx[t] = nt))
        <4>1. s \in Nat /\ Idx[t] \in 1..6
          BY <1>5
        <4>2. s > at.slice \/ (s = at.slice /\ Idx[t] > at.type)
          BY <1>5
        <4> QED
          BY <1>3, <4>1, <4>2
      <3>2. s = ns /\ Idx[t] = nt => k \in 1..at'.coren
        BY <1>5, <2>3, TypeNamesAreTypes
      <3> QED
        BY <2>1, <2>3, <3>1, <3>2 DEF ToVisit
    <2>7. PermitsCoverCores' /\ AttachedWell' /\ Returned'
      <3>1. PermitsCoverCores'
        BY <1>1, <1>2, <1>4, <2>1 DEF PermitsCoverCores, List
      <3>2. AttachedWell'
        BY <1>1, <1>2, <2>1 DEF AttachedWell
      <3>3. Returned'
        BY <1>1, <1>2, <1>4, <2>1 DEF Returned
      <3> QED
        BY <3>1, <3>2, <3>3
    <2> QED
      BY <1>4, <2>4, <2>5, <2>6, <2>7 DEF SliceInv, Structure
  <1>7. CASE ~(ns < slices)
    <2>1. phase' = "running" /\ at' = at
      BY <1>2, <1>7
    <2>2. SliceVars' /\ Unvisited'
      BY <1>1, <1>2, <1>4, <2>1 DEF SliceVars, NodeRec, Unvisited
    <2>3. Mapped'
      <3>1. ASSUME NEW s \in 0..MaxSlice, NEW t \in TypeNames, NEW k \in DOMAIN list[s][t]
            PROVE  ~ToVisit(s, t, k)
        <4>1. ~(s > at.slice \/ (s = at.slice /\ Idx[t] > at.type))
          <5>1. s < slices /\ s \in Nat /\ Idx[t] \in 1..6
            BY <1>5
          <5> QED
            BY <1>3, <1>7, <5>1
        <4> QED
          BY <1>5, <4>1
      <3> QED
        BY <1>1, <1>2, <2>1, <3>1 DEF Mapped
    <2>4. PermitsCoverCores' /\ AttachedWell' /\ Returned'
      <3>1. PermitsCoverCores'
        BY <1>1, <1>2, <1>4, <2>1 DEF PermitsCoverCores, List
      <3>2. AttachedWell'
        BY <1>1, <1>2, <2>1 DEF AttachedWell
      <3>3. Returned'
        BY <1>1, <1>2, <1>4, <2>1 DEF Returned
      <3> QED
        BY <3>1, <3>2, <3>3
    <2> QED
      BY <1>4, <2>2, <2>3, <2>4 DEF SliceInv, Structure
  <1> QED
    BY <1>6, <1>7

(* So does the start of an unload, with everything behind the walk.        *)
LEMMA UnloadKeeps ==
  ASSUME SliceInv, Unload
  PROVE  SliceInv'
  <1>1. /\ Structure /\ SliceVars /\ Mapped /\ Returned
    BY DEF SliceInv, Structure
  <1>2. /\ phase = "running" /\ phase' = "cleanup" /\ at' = [at EXCEPT !.type = 1]
        /\ UNCHANGED <<table, row, slices, list, node, sem, failed>>
    BY DEF Unload
  <1>3. at'.type = 1 /\ at' \in [slice : 0..MaxSlice, type : 1..6, pos : Nat, coren : Nat]
    <2>1. at \in [slice : 0..MaxSlice, type : 1..6, pos : Nat, coren : Nat] /\ 1 \in 1..6
      BY <1>1 DEF SliceVars
    <2> QED
      BY <1>2, <2>1
  <1>4. /\ Placed' /\ Found' /\ Unentered'
        /\ Nodes' = Nodes /\ Rows' = Rows /\ \A m : RowOf(m)' = RowOf(m)
    BY <1>1, <1>2, OnlyTheWalkMoves
  <1>5. SliceVars' /\ Unvisited'
    BY <1>1, <1>2, <1>3, <1>4 DEF SliceVars, NodeRec, Unvisited
  <1>6. Mapped'
    BY <1>1, <1>2 DEF Mapped, ToVisit
  <1>7. Returned'
    <2>1. 1..(at'.type - 1) = {}
      BY <1>3
    <2> QED
      BY <1>1, <1>2, <1>4, <2>1 DEF Returned
  <1>8. AttachedWell' /\ PermitsCoverCores'
    BY <1>2 DEF AttachedWell, PermitsCoverCores
  <1> QED
    BY <1>4, <1>5, <1>6, <1>7, <1>8 DEF SliceInv, Structure

-----------------------------------------------------------------------------
(* A node is probed.                                                       *)

(* probe_hantroHW calls the probe function of the node it is at.           *)
Visit(n) ==
    /\ phase = "probe" /\ AtNode /\ n = Current[at.pos + 1]
    /\ Forward /\ UNCHANGED <<table, row, slices>>

(* Where the walk is, and that it has not been there.                      *)
Here(n, s, t, p) ==
    /\ s = at.slice /\ t = Type /\ p = at.pos + 1 /\ Current = list[s][t]
    /\ s \in 0..MaxSlice /\ t \in TypeNames /\ p \in DOMAIN list[s][t] /\ p \in Nat \ {0}
    /\ n = list[s][t][p] /\ n \in Nodes /\ Stands(s, t, p) /\ Idx[t] = at.type
    /\ node[n].probes = 0 /\ node[n].life = "listed"
    /\ RowOf(n).type = t /\ RowOf(n).slice = s /\ s < slices
    /\ at'.slice = s /\ at'.type = at.type /\ at'.pos = p /\ at'.coren = at.coren
    /\ at' \in [slice : 0..MaxSlice, type : 1..6, pos : Nat, coren : Nat]
    /\ Nodes' = Nodes /\ Rows' = Rows /\ \A m : RowOf(m)' = RowOf(m) /\ Aux(m)' = Aux(m)

(* The node of a visit is the one at the position of the walk.             *)
LEMMA VisitIsHere ==
  ASSUME Structure, NEW n, Visit(n)
  PROVE  Here(n, at.slice, Type, at.pos + 1)
  <1> DEFINE s == at.slice
             t == Type
             p == at.pos + 1
  <1>1. /\ SliceVars /\ Placed /\ Unvisited
        /\ at \in [slice : 0..MaxSlice, type : 1..6, pos : Nat, coren : Nat]
    BY DEF Structure, SliceVars
  <1>2. /\ s \in 0..MaxSlice /\ t \in TypeNames /\ Idx[t] = at.type
        /\ Current = list[s][t] /\ p \in Nat \ {0}
    BY <1>1, TypeNamesAreTypes DEF Type, Current, List
  <1>3. p \in DOMAIN list[s][t] /\ n = list[s][t][p]
    <2>1. list[s][t] \in Seq(Nodes) /\ at.pos < Len(list[s][t])
      BY <1>1, <1>2 DEF SliceVars, Visit, AtNode
    <2> QED
      BY <1>1, <1>2, <2>1 DEF Visit
  <1> HIDE DEF t
  <1>4. n \in Nodes /\ Stands(s, t, p)
    BY <1>1, <1>2, <1>3, OnePlace
  <1>5. node[n].probes = 0
    <2>1. Ahead(s, t, p)
      BY <1>1, <1>2 DEF Ahead
    <2> QED
      BY <1>1, <1>2, <1>3, <2>1 DEF Unvisited, Visit
  <1>6. at' = [at EXCEPT !.pos = p]
    BY DEF Visit, Forward
  <1>7. /\ at'.slice = s /\ at'.type = at.type /\ at'.pos = p /\ at'.coren = at.coren
        /\ at' \in [slice : 0..MaxSlice, type : 1..6, pos : Nat, coren : Nat]
    BY <1>1, <1>2, <1>6
  <1>8. Nodes' = Nodes /\ Rows' = Rows /\ \A m : RowOf(m)' = RowOf(m) /\ Aux(m)' = Aux(m)
    BY SameTable DEF Visit, Aux
  <1> QED
    BY <1>2, <1>3, <1>4, <1>5, <1>7, <1>8 DEF Here, Stands, t

(* What is ahead of the walk after the step was ahead before, elsewhere.   *)
LEMMA StillAhead ==
  ASSUME Structure, NEW n, NEW s, NEW t, NEW p, Here(n, s, t, p), phase = "probe",
         NEW u \in 0..MaxSlice, NEW v \in TypeNames, NEW k \in Nat
  PROVE  /\ Ahead(u, v, k)' => Ahead(u, v, k) /\ ~(u = s /\ v = t /\ k = p)
         /\ ToVisit(u, v, k) /\ phase' = "probe" /\ ~(u = s /\ v = t /\ k = p) => ToVisit(u, v, k)'
  <1>1. /\ at \in [slice : 0..MaxSlice, type : 1..6, pos : Nat, coren : Nat]
        /\ s = at.slice /\ p = at.pos + 1 /\ Idx[t] = at.type
        /\ at'.slice = s /\ at'.type = at.type /\ at'.pos = p /\ at'.coren = at.coren
        /\ Types[at.type] = t
    BY DEF Here, Structure, SliceVars, Type
  <1>2. Idx[v] \in 1..6 /\ Types[Idx[v]] = v
    BY TypeNamesAreTypes
  <1>3. Idx[v] = at.type => v = t
    BY <1>1, <1>2
  <1>4. ASSUME Ahead(u, v, k)' PROVE Ahead(u, v, k) /\ ~(u = s /\ v = t /\ k = p)
    <2>1. \/ u > s
          \/ u = s /\ (Idx[v] > at.type \/ (Idx[v] = at.type /\ k > p))
      BY <1>1, <1>4 DEF Ahead
    <2> QED
      BY <1>1, <1>2, <2>1 DEF Ahead
  <1>5. ASSUME ToVisit(u, v, k), phase' = "probe", ~(u = s /\ v = t /\ k = p)
        PROVE  ToVisit(u, v, k)'
    <2>1. \/ u > s
          \/ u = s /\ (Idx[v] > at.type \/ (Idx[v] = at.type /\ k \in (at.pos + 1)..at.coren))
      BY <1>1, <1>5 DEF ToVisit
    <2>2. \/ u > s
          \/ u = s /\ (Idx[v] > at.type \/ (Idx[v] = at.type /\ k \in (p + 1)..at.coren))
      BY <1>1, <1>2, <1>3, <1>5, <2>1
    <2> QED
      BY <1>1, <1>5, <2>2 DEF ToVisit
  <1> QED
    BY <1>4, <1>5

(* What the probe functions write to the node they are called for.         *)
Answered(f, n) == [f EXCEPT ![n].probes = @ + 1, ![n].region = TRUE, ![n].map = TRUE]
Counted(f, n) == [f EXCEPT ![n].probes = @ + 1]

(* Marking a node leaves what the lists depend on.                         *)
LEMMA MarkedNode ==
  ASSUME NEW f \in [Nodes -> NodeRec], NEW n \in Nodes
  PROVE  /\ Answered(f, n) \in [Nodes -> NodeRec] /\ Counted(f, n) \in [Nodes -> NodeRec]
         /\ \A m \in Nodes :
              /\ Answered(f, n)[m].life = f[m].life /\ Answered(f, n)[m].id = f[m].id
              /\ Answered(f, n)[m].parent = f[m].parent /\ Answered(f, n)[m].pid = f[m].pid
              /\ Counted(f, n)[m].life = f[m].life /\ Counted(f, n)[m].id = f[m].id
              /\ m # n => Answered(f, n)[m] = f[m] /\ Counted(f, n)[m] = f[m]
         /\ Answered(f, n)[n].probes # 0 /\ Answered(f, n)[n].map
         /\ Counted(f, n)[n].probes # 0
  <1> DEFINE r == f[n]
             c == r.probes + 1
             G == [r EXCEPT !.probes = c, !.region = TRUE, !.map = TRUE]
             H == [r EXCEPT !.probes = c]
  <1>1. Answered(f, n) = [f EXCEPT ![n] = G] /\ Counted(f, n) = [f EXCEPT ![n] = H]
    BY DEF Answered, Counted
  <1>2. r \in NodeRec
    OBVIOUS
  <1>3. r.probes \in Nat
    BY <1>2 DEF NodeRec
  <1>4. c \in Nat /\ c # 0
    BY <1>3
  <1> HIDE DEF c, r
  <1>5. /\ G \in NodeRec /\ G.life = r.life /\ G.id = r.id /\ G.parent = r.parent
        /\ G.pid = r.pid /\ G.probes = c /\ G.map = TRUE
        /\ H \in NodeRec /\ H.life = r.life /\ H.id = r.id /\ H.probes = c
    BY <1>2, <1>4 DEF NodeRec
  <1> HIDE DEF G, H
  <1>6. ASSUME NEW R \in NodeRec
        PROVE  /\ [f EXCEPT ![n] = R] \in [Nodes -> NodeRec]
               /\ \A m \in Nodes : [f EXCEPT ![n] = R][m] = IF m = n THEN R ELSE f[m]
    OBVIOUS
  <1> QED
    BY <1>1, <1>4, <1>5, <1>6 DEF r

(* The registers answer.                                                   *)
LEMMA SucceedsKeeps ==
  ASSUME SliceInv, NEW n, Visit(n), Succeeds(n)
  PROVE  SliceInv'
  <1>1. /\ Structure /\ SliceVars /\ Placed /\ Found /\ Unentered /\ Unvisited
        /\ Mapped /\ Returned /\ AttachedWell /\ PermitsCoverCores
    BY DEF SliceInv, Structure
  <1>2. PICK s, t, p : Here(n, s, t, p)
    BY <1>1, VisitIsHere, SMTT(30)
  <1>3. /\ phase = "probe" /\ phase' = "probe" /\ n \in Nodes
        /\ UNCHANGED <<table, row, slices, list, sem, failed>>
    BY <1>1, <1>2 DEF Visit, Succeeds, Here
  <1>4. /\ node' \in [Nodes -> NodeRec]
        /\ \A m \in Nodes : /\ node'[m].life = node[m].life /\ node'[m].id = node[m].id
                            /\ node'[m].parent = node[m].parent /\ node'[m].pid = node[m].pid
                            /\ m # n => node'[m] = node[m]
        /\ node'[n].probes # 0 /\ node'[n].map
    <2>1. node \in [Nodes -> NodeRec] /\ node' = Answered(node, n)
      BY <1>1 DEF Succeeds, SliceVars, Answered
    <2> QED
      BY <1>3, <2>1, MarkedNode
  <1>5. Placed' /\ Found'
    <2>1. slices' \in 0..(MaxSlice + 1) /\ slices <= slices'
      BY <1>1, <1>3 DEF SliceVars
    <2> QED
      BY <1>1, <1>3, <1>4, <2>1, SameLists
  <1>6. SliceVars'
    BY <1>1, <1>2, <1>3, <1>4 DEF SliceVars, NodeRec, Here
  <1>7. Unentered'
    <2>1. \A m \in Rows : m \in Nodes /\ Aux(m) \in Nodes
      BY <1>1, RowFacts
    <2>2. \A m \in Rows : /\ m >= row => node'[m].life = "none"
                          /\ node'[m].probes = 0 => node'[Aux(m)].life = "none"
      BY <1>1, <1>4, <2>1 DEF Unentered
    <2>3. Rows' = Rows /\ \A m : Aux(m)' = Aux(m)
      BY <1>2 DEF Here
    <2> QED
      BY <1>3, <2>2, <2>3 DEF Unentered
  <1>8. ASSUME NEW u \in 0..MaxSlice, NEW v \in TypeNames, NEW k \in DOMAIN list[u][v]
        PROVE  /\ k \in Nat /\ list[u][v][k] \in Nodes
               /\ list[u][v][k] = n => u = s /\ v = t /\ k = p
    BY <1>1, <1>2, OnePlace DEF Here
  <1>9. Unvisited'
    <2>1. ASSUME NEW u \in 0..MaxSlice, NEW v \in TypeNames, NEW k \in DOMAIN list[u][v],
                 Ahead(u, v, k)'
          PROVE  node'[list[u][v][k]].probes = 0
      <3>1. Ahead(u, v, k) /\ ~(u = s /\ v = t /\ k = p)
        BY <1>1, <1>2, <1>3, <1>8, <2>1, StillAhead
      <3> QED
        BY <1>1, <1>3, <1>4, <1>8, <3>1 DEF Unvisited
    <2>2. at'.slice < slices
      BY <1>2 DEF Here
    <2> QED
      BY <1>3, <2>1, <2>2 DEF Unvisited
  <1>10. Mapped'
    <2> SUFFICES ASSUME failed = {}, NEW u \in 0..MaxSlice, NEW v \in TypeNames,
                        NEW k \in DOMAIN list[u][v], ~ToVisit(u, v, k)'
                 PROVE  node'[list[u][v][k]].map
      BY <1>3 DEF Mapped
    <2>1. CASE list[u][v][k] = n
      BY <1>4, <2>1
    <2>2. CASE list[u][v][k] # n
      <3>1. ~(u = s /\ v = t /\ k = p)
        BY <1>2, <2>2 DEF Here
      <3>2. ~ToVisit(u, v, k)
        BY <1>1, <1>2, <1>3, <1>8, <3>1, StillAhead
      <3> QED
        BY <1>1, <1>3, <1>4, <1>8, <2>2, <3>2 DEF Mapped
    <2> QED
      BY <2>1, <2>2
  <1>11. Returned'
    <2>1. /\ Nodes' = Nodes /\ \A m : RowOf(m)' = RowOf(m)
          /\ node[n].life = "listed"
      BY <1>2 DEF Here
    <2>2. failed = {} => \A m \in Nodes :
            /\ node'[m].region => node'[m].life = "listed"
            /\ node'[m].map => node'[m].life = "listed" \/ RowOf(m).type = "axife"
      BY <1>1, <1>4, <2>1 DEF Returned
    <2> QED
      BY <1>3, <2>1, <2>2 DEF Returned
  <1>12. AttachedWell'
    <2>1. \A v \in Attached : v \in TypeNames
      BY DEF Attached, TypeNames
    <2> QED
      BY <1>1, <1>3, <1>4, <1>8, <2>1 DEF AttachedWell
  <1>13. PermitsCoverCores'
    BY <1>1, <1>2, <1>3 DEF PermitsCoverCores, List, Here
  <1> QED
    BY <1>5, <1>6, <1>7, <1>9, <1>10, <1>11, <1>12, <1>13 DEF SliceInv, Structure

(* A death while a window is reserved leaves the lists as they are.        *)
LEMMA EncReserveOopsKeeps ==
  ASSUME SliceInv, NEW n, Visit(n), EncReserveOops(n)
  PROVE  SliceInv'
  <1>1. /\ Structure /\ SliceVars /\ Placed /\ Found /\ Unentered /\ Unvisited
        /\ Returned
    BY DEF SliceInv, Structure
  <1>2. PICK s, t, p : Here(n, s, t, p)
    BY <1>1, VisitIsHere, SMTT(30)
  <1>3. /\ phase' = "oops" /\ failed' = failed \cup {n} /\ n \in Nodes
        /\ UNCHANGED <<table, row, slices, list, node, sem>>
    BY <1>2 DEF Visit, EncReserveOops, Here
  <1>4. SliceVars'
    BY <1>1, <1>2, <1>3 DEF SliceVars, NodeRec, Here
  <1>5. Placed' /\ Found'
    <2>1. slices' \in 0..(MaxSlice + 1) /\ slices <= slices'
      BY <1>1, <1>3 DEF SliceVars
    <2> QED
      BY <1>1, <1>3, <2>1, SameLists
  <1>6. Unentered' /\ Unvisited'
    BY <1>1, <1>2, <1>3 DEF Unentered, Unvisited, Here
  <1>7. Mapped' /\ AttachedWell' /\ PermitsCoverCores'
    BY <1>3 DEF Mapped, AttachedWell, PermitsCoverCores
  <1>8. Returned'
    BY <1>3 DEF Returned
  <1> QED
    BY <1>4, <1>5, <1>6, <1>7, <1>8 DEF SliceInv, Structure

(* The registers answer and an auxiliary core is found and entered.        *)
LEMMA SucceedsWithAuxKeeps ==
  ASSUME SliceInv, NEW n, Visit(n), Type = "dec", ~IsAux(n), SucceedsWithAux(n)
  PROVE  SliceInv'
  <1>1. /\ Structure /\ SliceVars /\ Placed /\ Found /\ Unentered /\ Unvisited
        /\ Mapped /\ Returned /\ AttachedWell /\ PermitsCoverCores
    BY DEF SliceInv, Structure
  <1>2. PICK s, t, p : Here(n, s, t, p)
    BY <1>1, VisitIsHere, SMTT(30)
  <1> DEFINE a == Aux(n)
             l == Len(list[s][t])
  <1>3. /\ phase = "probe" /\ phase' = "probe" /\ UNCHANGED <<table, row, slices, failed>>
        /\ t = "dec" /\ list' = Entered(s, t, a) /\ sem' = [sem EXCEPT ![s] = l + 1]
    BY <1>2 DEF Visit, SucceedsWithAux, Here
  <1>4. /\ n \in Rows /\ n \in Nodes /\ a \in Nodes /\ a # n /\ a \notin Rows
        /\ RowOf(a).type = t /\ RowOf(a).slice = s /\ node[a].life = "none"
    <2>1. n \in Rows /\ n \in Nodes /\ node[n].probes = 0
      BY <1>1, <1>2, RowFacts DEF Here
    <2>2. a \in Nodes /\ a # n /\ a \notin Rows /\ RowOf(a) = table[n] /\ RowOf(n) = table[n]
      BY <1>1, <2>1, RowFacts
    <2>3. RowOf(n).type = t /\ RowOf(n).slice = s
      BY <1>2 DEF Here
    <2>4. node[a].life = "none"
      BY <1>1, <2>1 DEF Unentered
    <2> QED
      BY <2>1, <2>2, <2>3, <2>4
  <1>5. /\ l \in Nat /\ s \in 0..MaxSlice /\ t \in TypeNames
        /\ Nodes' = Nodes /\ Rows' = Rows /\ \A m : RowOf(m)' = RowOf(m) /\ Aux(m)' = Aux(m)
    BY <1>1, <1>2 DEF SliceVars, Here
  <1> DEFINE f == Fresh(s, t, 0)
             r == [f EXCEPT !.region = TRUE, !.map = TRUE]
  <1>6. /\ r \in NodeRec /\ r.life = "listed" /\ r.id = l /\ r.parent = 0
        /\ r.probes = 0 /\ r.map = TRUE
    <2>1. 0 \in 0..Len(table)
      BY <1>1, RowFacts
    <2>2. f \in NodeRec /\ f.life = "listed" /\ f.id = l /\ f.parent = 0 /\ f.probes = 0
      BY <1>1, <1>5, <2>1, FreshNode
    <2> HIDE DEF f, l
    <2> QED
      BY <2>2 DEF NodeRec
  <1>7. node' = [Answered(node, n) EXCEPT ![a] = r]
    <2>1. /\ at.slice = s /\ t = "dec"
      BY <1>2, <1>3 DEF Here
    <2> QED
      BY <2>1 DEF SucceedsWithAux, Answered
  <1> HIDE DEF a, l, f, r
  <1>8. /\ node' \in [Nodes -> NodeRec] /\ node'[a] = r
        /\ \A m \in Nodes \ {a} :
              /\ node'[m].life = node[m].life /\ node'[m].id = node[m].id
              /\ node'[m].parent = node[m].parent /\ node'[m].pid = node[m].pid
              /\ m # n => node'[m] = node[m]
        /\ node'[n].probes # 0 /\ node'[n].map
    <2>1. node \in [Nodes -> NodeRec]
      BY <1>1 DEF SliceVars
    <2>2. /\ Answered(node, n) \in [Nodes -> NodeRec]
          /\ \A m \in Nodes :
               /\ Answered(node, n)[m].life = node[m].life /\ Answered(node, n)[m].id = node[m].id
               /\ Answered(node, n)[m].parent = node[m].parent
               /\ Answered(node, n)[m].pid = node[m].pid
               /\ m # n => Answered(node, n)[m] = node[m]
          /\ Answered(node, n)[n].probes # 0 /\ Answered(node, n)[n].map
      BY <1>4, <2>1, MarkedNode
    <2>3. /\ node' \in [Nodes -> NodeRec] /\ node'[a] = r
          /\ \A m \in Nodes \ {a} : node'[m] = Answered(node, n)[m]
      BY <1>4, <1>6, <1>7, <2>2
    <2> QED
      BY <1>4, <2>2, <2>3
  <1>9. /\ list' \in [0..MaxSlice -> [TypeNames -> Seq(Nodes)]] /\ Placed' /\ Found'
    <2>1. /\ slices' \in 0..(MaxSlice + 1) /\ slices <= slices' /\ s < slices'
      BY <1>1, <1>2, <1>3 DEF SliceVars, Here
    <2>2. /\ node[a].life # "listed" /\ node'[a].life = "listed" /\ node'[a].id = l
      BY <1>4, <1>6, <1>8
    <2> QED
      BY <1>1, <1>3, <1>4, <1>5, <1>8, <2>1, <2>2, EnteredList DEF l
  <1>10. /\ \A u \in 0..MaxSlice, v \in TypeNames : \A k \in DOMAIN list[u][v] :
              k \in DOMAIN list'[u][v] /\ list'[u][v][k] = list[u][v][k]
         /\ \A u \in 0..MaxSlice, v \in TypeNames : \A k \in DOMAIN list'[u][v] :
              \/ k \in DOMAIN list[u][v] /\ list'[u][v][k] = list[u][v][k]
              \/ u = s /\ v = t /\ k = l + 1 /\ list'[u][v][k] = a
         /\ \A u \in 0..MaxSlice, v \in TypeNames :
              Len(list'[u][v]) = IF u = s /\ v = t THEN Len(list[u][v]) + 1 ELSE Len(list[u][v])
    BY <1>1, <1>3, <1>4, <1>5, EnteredPlaces DEF l
  <1>11. ASSUME NEW u \in 0..MaxSlice, NEW v \in TypeNames, NEW k \in DOMAIN list[u][v]
         PROVE  /\ k \in Nat /\ list[u][v][k] \in Nodes /\ list[u][v][k] # a
                /\ list[u][v][k] = n <=> (u = s /\ v = t /\ k = p)
    <2>1. k \in Nat /\ list[u][v][k] \in Nodes /\ Stands(u, v, k)
      BY <1>1, OnePlace
    <2>2. list[u][v][k] # a
      BY <1>4, <2>1 DEF Stands
    <2>3. list[u][v][k] = n => u = s /\ v = t /\ k = p
      BY <1>1, <1>2, OnePlace DEF Here
    <2>4. u = s /\ v = t /\ k = p => list[u][v][k] = n
      BY <1>2 DEF Here
    <2> QED
      BY <2>1, <2>2, <2>3, <2>4
  <1>12. SliceVars'
    <2>1. sem' \in [0..MaxSlice -> Nat]
      BY <1>1, <1>3, <1>5 DEF SliceVars
    <2>2. at' \in [slice : 0..MaxSlice, type : 1..6, pos : Nat, coren : Nat]
      BY <1>2 DEF Here
    <2> QED
      BY <1>1, <1>3, <1>5, <1>8, <1>9, <2>1, <2>2 DEF SliceVars, NodeRec
  <1>13. Unentered'
    <2>1. \A m \in Rows : /\ m \in Nodes /\ Aux(m) \in Nodes /\ m # a /\ Aux(m) # n
                          /\ m # n => Aux(m) # a
      BY <1>1, <1>4, RowFacts DEF a, Aux
    <2>2. \A m \in Rows : /\ m >= row => node'[m].life = "none"
                          /\ node'[m].probes = 0 => node'[Aux(m)].life = "none"
      BY <1>1, <1>8, <2>1 DEF Unentered
    <2> QED
      BY <1>3, <1>5, <2>2 DEF Unentered
  <1>14. Unvisited'
    <2>1. ASSUME NEW u \in 0..MaxSlice, NEW v \in TypeNames, NEW k \in DOMAIN list'[u][v],
                 Ahead(u, v, k)'
          PROVE  node'[list'[u][v][k]].probes = 0
      <3>1. CASE k \in DOMAIN list[u][v] /\ list'[u][v][k] = list[u][v][k]
        <4>1. Ahead(u, v, k) /\ ~(u = s /\ v = t /\ k = p)
          BY <1>1, <1>2, <1>3, <1>11, <2>1, <3>1, StillAhead
        <4> QED
          BY <1>1, <1>3, <1>8, <1>11, <3>1, <4>1 DEF Unvisited
      <3>2. CASE list'[u][v][k] = a
        BY <1>6, <1>8, <3>2
      <3> QED
        BY <1>10, <3>1, <3>2
    <2>2. at'.slice < slices
      BY <1>2 DEF Here
    <2> QED
      BY <1>3, <2>1, <2>2 DEF Unvisited
  <1>15. Mapped'
    <2> SUFFICES ASSUME failed = {}, NEW u \in 0..MaxSlice, NEW v \in TypeNames,
                        NEW k \in DOMAIN list'[u][v], ~ToVisit(u, v, k)'
                 PROVE  node'[list'[u][v][k]].map
      BY <1>3 DEF Mapped
    <2>1. CASE list'[u][v][k] = a
      BY <1>6, <1>8, <2>1
    <2>2. CASE list'[u][v][k] = n
      BY <1>8, <2>2
    <2>3. CASE list'[u][v][k] \notin {a, n}
      <3>1. k \in DOMAIN list[u][v] /\ list'[u][v][k] = list[u][v][k]
        BY <1>10, <2>3
      <3>2. ~(u = s /\ v = t /\ k = p)
        BY <1>11, <2>3, <3>1
      <3>3. ~ToVisit(u, v, k)
        BY <1>1, <1>2, <1>3, <1>11, <3>1, <3>2, StillAhead
      <3> QED
        BY <1>1, <1>3, <1>8, <1>11, <2>3, <3>1, <3>3 DEF Mapped
    <2> QED
      BY <2>1, <2>2, <2>3
  <1>16. Returned'
    <2>1. node[n].life = "listed"
      BY <1>2 DEF Here
    <2>2. failed = {} => \A m \in Nodes :
            /\ node'[m].region => node'[m].life = "listed"
            /\ node'[m].map => node'[m].life = "listed" \/ RowOf(m).type = "axife"
      BY <1>1, <1>4, <1>6, <1>8, <2>1 DEF Returned
    <2> QED
      BY <1>3, <1>5, <2>2 DEF Returned
  <1>17. AttachedWell'
    <2> SUFFICES ASSUME failed = {}, NEW u \in 0..MaxSlice, NEW v \in Attached,
                        NEW k \in DOMAIN list'[u][v],
                        node'[list'[u][v][k]].parent # 0
                 PROVE  \E pt \in Parents : \E j \in DOMAIN list'[u][pt] :
                          /\ list'[u][pt][j] = node'[list'[u][v][k]].parent
                          /\ node'[list'[u][v][k]].pid = j - 1
      BY <1>3 DEF AttachedWell
    <2>1. v \in TypeNames /\ \A pt \in Parents : pt \in TypeNames
      BY DEF Attached, TypeNames, Parents
    <2>2. list'[u][v][k] # a
      BY <1>6, <1>8
    <2>3. k \in DOMAIN list[u][v] /\ list'[u][v][k] = list[u][v][k]
      BY <1>10, <2>1, <2>2
    <2>4. list[u][v][k] \in Nodes
      BY <1>11, <2>1, <2>3
    <2>5. PICK pt \in Parents : \E j \in DOMAIN list[u][pt] :
             list[u][pt][j] = node[list[u][v][k]].parent /\ node[list[u][v][k]].pid = j - 1
      BY <1>1, <1>3, <1>8, <2>2, <2>3, <2>4 DEF AttachedWell
    <2> QED
      BY <1>8, <1>10, <2>1, <2>2, <2>3, <2>4, <2>5
  <1>18. PermitsCoverCores'
    <2> SUFFICES ASSUME NEW u \in 0..MaxSlice
                 PROVE  /\ sem'[u] >= Len(list'[u]["dec"])
                        /\ sem'[u] > Len(list'[u]["dec"]) =>
                             \E m \in failed : RowOf(m).type = "dec" /\ RowOf(m).slice = u
      BY <1>3, <1>5, <1>9 DEF PermitsCoverCores, List
    <2>1. /\ sem[u] >= Len(list[u]["dec"])
          /\ sem[u] > Len(list[u]["dec"]) =>
               \E m \in failed : RowOf(m).type = "dec" /\ RowOf(m).slice = u
      BY <1>1, <1>3 DEF PermitsCoverCores, List, SliceVars
    <2>2. Len(list[u]["dec"]) \in Nat /\ sem \in [0..MaxSlice -> Nat] /\ "dec" \in TypeNames
      BY <1>1 DEF SliceVars, TypeNames
    <2>3. CASE u = s
      <3>1. sem'[u] = l + 1 /\ Len(list'[u]["dec"]) = l + 1
        BY <1>3, <1>10, <2>2, <2>3 DEF l
      <3> QED
        BY <1>5, <3>1
    <2>4. CASE u # s
      <3>1. sem'[u] = sem[u] /\ Len(list'[u]["dec"]) = Len(list[u]["dec"])
        BY <1>3, <1>10, <2>2, <2>4
      <3> QED
        BY <2>1, <3>1
    <2> QED
      BY <2>3, <2>4
  <1> QED
    BY <1>9, <1>12, <1>13, <1>14, <1>15, <1>16, <1>17, <1>18 DEF SliceInv, Structure

(* The probe of a node fails: it leaves its list, with or without the      *)
(* region and the mapping of its registers.                                *)
LEMMA FailsKeeps ==
  ASSUME SliceInv, NEW n, Visit(n), Fails(n) \/ FailsWithoutCopy(n)
  PROVE  SliceInv'
  <1>1. /\ Structure /\ SliceVars /\ Placed /\ Found /\ Unentered /\ Unvisited
        /\ Returned /\ PermitsCoverCores
    BY DEF SliceInv, Structure
  <1>2. PICK s, t, p : Here(n, s, t, p)
    BY <1>1, VisitIsHere, SMTT(30)
  <1> DEFINE l == Len(list[s][t])
  <1>3. /\ phase = "probe" /\ phase' = "probe" /\ UNCHANGED <<table, row, slices, sem>>
        /\ AtNode /\ n = Current[at.pos + 1] /\ list' = Left /\ failed' = failed \cup {n}
        /\ node' = Counted(Without(n), n) \/ node' = Answered(Without(n), n)
    BY DEF Visit, Fails, FailsWithoutCopy, Counted, Answered
  <1>4. /\ s = at.slice /\ t = Type /\ p = at.pos + 1 /\ Current = list[s][t]
        /\ s \in 0..MaxSlice /\ t \in TypeNames /\ p \in DOMAIN list[s][t] /\ p \in Nat \ {0}
        /\ n = list[s][t][p] /\ n \in Nodes /\ node[n].life = "listed"
        /\ node[n].id = p - 1 /\ RowOf(n).type = t /\ RowOf(n).slice = s
    BY <1>2, SMTT(20) DEF Here, Stands
  <1>5. Nodes' = Nodes /\ Rows' = Rows /\ \A m : RowOf(m)' = RowOf(m) /\ Aux(m)' = Aux(m)
    BY <1>2, SMTT(20) DEF Here
  <1> HIDE DEF l
  <1> DEFINE w == Without(n)
  <1>6. /\ w \in [Nodes -> NodeRec] /\ w[n].life = "freed"
        /\ \A m \in Nodes \ {n} :
             /\ w[m].life = node[m].life /\ w[m].probes = node[m].probes
             /\ w[m].id = IF m \in ToSet(Current) /\ node[m].id > node[n].id
                          THEN node[m].id - 1 ELSE node[m].id
    <2>1. node \in [Nodes -> NodeRec]
      BY <1>1 DEF SliceVars
    <2>2. ASSUME NEW m \in Nodes
          PROVE  /\ w[m] \in NodeRec
                 /\ m = n => w[m].life = "freed"
                 /\ m # n => /\ w[m].life = node[m].life /\ w[m].probes = node[m].probes
                             /\ w[m].id = IF m \in ToSet(Current) /\ node[m].id > node[n].id
                                          THEN node[m].id - 1 ELSE node[m].id
      <3> DEFINE f == node[m]
      <3>1. f \in NodeRec
        BY <2>1
      <3>2. w[m] = IF m = n THEN [f EXCEPT !.life = "freed"]
                   ELSE IF m \in ToSet(Current) /\ f.id > node[n].id
                        THEN [f EXCEPT !.id = f.id - 1] ELSE f
        BY DEF Without
      <3> HIDE DEF f, w
      <3>3. CASE m = n
        <4>1. w[m] = [f EXCEPT !.life = "freed"]
          BY <3>2, <3>3
        <4> QED
          BY <3>1, <3>3, <4>1 DEF NodeRec
      <3>4. CASE m # n /\ m \in ToSet(Current) /\ f.id > node[n].id
        <4> DEFINE c == f.id - 1
        <4>1. c \in Nat
          <5>1. f.id \in Nat
            BY <3>1 DEF NodeRec
          <5> QED
            BY <1>4, <3>4, <5>1
        <4> HIDE DEF c
        <4>2. w[m] = [f EXCEPT !.id = c]
          BY <3>2, <3>4 DEF c
        <4>3. w[m] \in NodeRec /\ w[m].life = f.life /\ w[m].probes = f.probes /\ w[m].id = c
          BY <3>1, <4>1, <4>2 DEF NodeRec
        <4> QED
          BY <3>4, <4>3 DEF f, c
      <3>5. CASE m # n /\ ~(m \in ToSet(Current) /\ f.id > node[n].id)
        BY <3>1, <3>2, <3>5 DEF f
      <3> QED
        BY <3>3, <3>4, <3>5
    <2>3. w = [m \in Nodes |-> w[m]]
      BY DEF Without
    <2> HIDE DEF w
    <2> QED
      BY <1>4, <2>2, <2>3
  <1> HIDE DEF w
  <1>7. /\ node' \in [Nodes -> NodeRec] /\ node'[n].life = "freed" /\ node'[n].probes # 0
        /\ \A m \in Nodes \ {n} :
             /\ node'[m].life = node[m].life /\ node'[m].probes = node[m].probes
             /\ node'[m].id = IF m \in ToSet(Current) /\ node[m].id > node[n].id
                              THEN node[m].id - 1 ELSE node[m].id
    <2>1. /\ node' \in [Nodes -> NodeRec] /\ node'[n].life = w[n].life /\ node'[n].probes # 0
          /\ \A m \in Nodes \ {n} : node'[m] = w[m]
      <3>1. node' = Counted(w, n) \/ node' = Answered(w, n)
        BY <1>3 DEF w
      <3> QED
        <4>1. /\ Counted(w, n) \in [Nodes -> NodeRec] /\ Answered(w, n) \in [Nodes -> NodeRec]
              /\ Counted(w, n)[n].life = w[n].life /\ Answered(w, n)[n].life = w[n].life
              /\ Counted(w, n)[n].probes # 0 /\ Answered(w, n)[n].probes # 0
              /\ \A m \in Nodes \ {n} : Counted(w, n)[m] = w[m] /\ Answered(w, n)[m] = w[m]
          <5>1. w \in [Nodes -> NodeRec] /\ n \in Nodes
            BY <1>4, <1>6
          <5> QED
            BY <5>1, MarkedNode, SMTT(20)
        <4> QED
          BY <3>1, <4>1, SMTT(20)
    <2> QED
      BY <1>6, <2>1, SMTT(20)
  <1>8. /\ list' \in [0..MaxSlice -> [TypeNames -> Seq(Nodes)]]
        /\ \A u \in 0..MaxSlice, v \in TypeNames : u # s \/ v # t => list'[u][v] = list[u][v]
        /\ Len(list'[s][t]) = l - 1
        /\ \A k \in 1..(l - 1) :
             list'[s][t][k] = IF k < p THEN list[s][t][k] ELSE list[s][t][k + 1]
        /\ Placed' /\ Found'
    BY <1>1, <1>3, <1>4, <1>7, RemovedList, ZenonT(20) DEF l
  <1>9. l \in Nat /\ DOMAIN list[s][t] = 1..l
    BY <1>1, <1>4 DEF SliceVars, l
  (* where the nodes of the lists were *)
  <1>10. ASSUME NEW u \in 0..MaxSlice, NEW v \in TypeNames, NEW k \in DOMAIN list'[u][v]
         PROVE  /\ k \in Nat
                /\ \E j \in DOMAIN list[u][v] :
                     /\ list'[u][v][k] = list[u][v][j] /\ j \in Nat
                     /\ j = k \/ (u = s /\ v = t /\ j = k + 1 /\ k >= p)
    <2>1. CASE u # s \/ v # t
      <3>1. list'[u][v] = list[u][v] /\ list[u][v] \in Seq(Nodes)
        BY <1>1, <1>8, <2>1 DEF SliceVars
      <3> QED
        BY <3>1
    <2>2. CASE u = s /\ v = t
      <3>1. k \in 1..(l - 1)
        BY <1>8, <1>9, <2>2
      <3>2. CASE k < p
        <4>1. k \in 1..l /\ list'[s][t][k] = list[s][t][k]
          BY <1>8, <1>9, <3>1, <3>2
        <4>2. k \in DOMAIN list[u][v] /\ list'[u][v][k] = list[u][v][k]
          <5>1. list[u][v] = list[s][t] /\ list'[u][v] = list'[s][t]
            BY <2>2
          <5> QED
            BY <1>9, <4>1, <5>1
        <4>3. k \in Nat
          BY <3>1
        <4> QED
          BY <4>2, <4>3
      <3>3. CASE ~(k < p)
        <4>1. k + 1 \in 1..l /\ list'[s][t][k] = list[s][t][k + 1] /\ k >= p
          BY <1>4, <1>8, <1>9, <3>1, <3>3
        <4>2. k + 1 \in DOMAIN list[u][v] /\ list'[u][v][k] = list[u][v][k + 1]
          <5>1. list[u][v] = list[s][t] /\ list'[u][v] = list'[s][t]
            BY <2>2
          <5> QED
            BY <1>9, <4>1, <5>1
        <4>3. k \in Nat /\ k + 1 \in Nat
          BY <3>1, SMTT(20)
        <4> QED
          BY <2>2, <4>1, <4>2, <4>3
      <3> QED
        BY <3>2, <3>3
    <2> QED
      BY <2>1, <2>2
  <1>11. SliceVars'
    <2>1. at' \in [slice : 0..MaxSlice, type : 1..6, pos : Nat, coren : Nat]
      BY <1>2 DEF Here
    <2> QED
      BY <1>1, <1>3, <1>4, <1>5, <1>7, <1>8, <2>1 DEF SliceVars, NodeRec
  <1>12. Unentered'
    <2>1. \A m \in Rows : m \in Nodes /\ Aux(m) \in Nodes
      BY <1>1, RowFacts
    <2>2. ASSUME NEW m \in Rows, m >= row PROVE node'[m].life = "none"
      <3>1. node[m].life = "none"
        BY <1>1, <2>2 DEF Unentered
      <3>2. m # n
        BY <1>4, <3>1
      <3> QED
        BY <1>7, <2>1, <3>1, <3>2
    <2>3. ASSUME NEW m \in Rows, node'[m].probes = 0 PROVE node'[Aux(m)].life = "none"
      <3>1. node[m].probes = 0
        BY <1>7, <2>1, <2>3
      <3>2. node[Aux(m)].life = "none"
        BY <1>1, <3>1 DEF Unentered
      <3>3. Aux(m) # n
        BY <1>4, <3>2
      <3> QED
        BY <1>7, <2>1, <3>2, <3>3
    <2> QED
      BY <1>3, <1>5, <2>2, <2>3 DEF Unentered
  <1>13. Unvisited'
    <2>1. ASSUME NEW u \in 0..MaxSlice, NEW v \in TypeNames, NEW k \in DOMAIN list'[u][v],
                 Ahead(u, v, k)'
          PROVE  node'[list'[u][v][k]].probes = 0
      <3>1. PICK j \in DOMAIN list[u][v] :
               /\ list'[u][v][k] = list[u][v][j] /\ j \in Nat
               /\ j = k \/ (u = s /\ v = t /\ j = k + 1 /\ k >= p)
        BY <1>10
      <3>2. k \in Nat /\ Ahead(u, v, k) /\ ~(u = s /\ v = t /\ k = p)
        BY <1>1, <1>2, <1>3, <1>10, <2>1, StillAhead
      <3>3. Ahead(u, v, j)
        <4>1. CASE j = k
          BY <3>2, <4>1
        <4>2. CASE u = s /\ v = t /\ j = k + 1 /\ k >= p
          <5>1. u = at.slice /\ Idx[v] = at.type /\ j > at.pos
            <6>1. Idx[t] = at.type /\ at.pos \in Nat
              BY <1>1, <1>2 DEF Here, SliceVars
            <6> QED
              BY <1>4, <3>2, <4>2, <6>1
          <5> QED
            BY <5>1 DEF Ahead
        <4> QED
          BY <3>1, <4>1, <4>2
      <3>4. node[list[u][v][j]].probes = 0 /\ list[u][v][j] \in Nodes
        BY <1>1, <1>3, <3>3, OnePlace DEF Unvisited
      <3>5. list[u][v][j] # n
        <4>1. Stands(u, v, k)'
          BY <1>5, <1>8, <1>11 DEF Placed
        <4> QED
          BY <1>7, <3>1, <4>1 DEF Stands
      <3> QED
        BY <1>7, <3>1, <3>4, <3>5
    <2>2. at'.slice < slices
      BY <1>2 DEF Here
    <2> QED
      BY <1>3, <2>1, <2>2 DEF Unvisited
  <1>14. Mapped' /\ AttachedWell' /\ Returned'
    <2>1. failed' # {}
      BY <1>3
    <2> QED
      BY <1>3, <2>1 DEF Mapped, AttachedWell, Returned
  <1>15. PermitsCoverCores'
    <2> SUFFICES ASSUME NEW u \in 0..MaxSlice
                 PROVE  /\ sem[u] >= Len(list'[u]["dec"])
                        /\ sem[u] > Len(list'[u]["dec"]) =>
                             \E m \in failed' : RowOf(m).type = "dec" /\ RowOf(m).slice = u
      BY <1>3, <1>5, <1>8 DEF PermitsCoverCores, List
    <2>1. /\ sem[u] >= Len(list[u]["dec"])
          /\ sem[u] > Len(list[u]["dec"]) =>
               \E m \in failed : RowOf(m).type = "dec" /\ RowOf(m).slice = u
      BY <1>1, <1>3 DEF PermitsCoverCores, List, SliceVars
    <2>2. Len(list[u]["dec"]) \in Nat /\ sem[u] \in Nat /\ "dec" \in TypeNames
      <3>1. /\ list \in [0..MaxSlice -> [TypeNames -> Seq(Nodes)]] /\ sem \in [0..MaxSlice -> Nat]
            /\ "dec" \in TypeNames
        BY <1>1 DEF SliceVars, TypeNames
      <3> QED
        BY <3>1
    <2>3. CASE u = s /\ t = "dec"
      <3>1. Len(list'[u]["dec"]) = l - 1 /\ Len(list[u]["dec"]) = l
        BY <1>8, <2>3 DEF l
      <3> QED
        BY <1>3, <1>4, <2>1, <2>2, <2>3, <3>1
    <2>4. CASE ~(u = s /\ t = "dec")
      <3>1. Len(list'[u]["dec"]) = Len(list[u]["dec"])
        BY <1>8, <2>2, <2>4
      <3> QED
        BY <1>3, <2>1, <3>1
    <2> QED
      BY <2>3, <2>4
  <1> QED
    BY <1>8, <1>11, <1>12, <1>13, <1>14, <1>15 DEF SliceInv, Structure

(* The probe of an AXI front end fails: the lists stay as they are.        *)
LEMMA StaysListedKeeps ==
  ASSUME SliceInv, NEW n, Visit(n), StaysListed(n) \/ StaysWithoutCopy(n)
  PROVE  SliceInv'
  <1>1. /\ Structure /\ SliceVars /\ Placed /\ Found /\ Unentered /\ Unvisited
        /\ Returned /\ PermitsCoverCores
    BY DEF SliceInv, Structure
  <1>2. PICK s, t, p : Here(n, s, t, p)
    BY <1>1, VisitIsHere, SMTT(30)
  <1>3. /\ phase = "probe" /\ phase' = "probe" /\ n \in Nodes
        /\ UNCHANGED <<table, row, slices, list, sem>> /\ failed' = failed \cup {n}
        /\ node' = Counted(node, n) \/ node' = Answered(node, n)
    BY <1>1, <1>2 DEF Visit, StaysListed, StaysWithoutCopy, Here, Counted, Answered
  <1>4. /\ node' \in [Nodes -> NodeRec]
        /\ \A m \in Nodes : /\ node'[m].life = node[m].life /\ node'[m].id = node[m].id
                            /\ m # n => node'[m] = node[m]
        /\ node'[n].probes # 0
    <2>1. node \in [Nodes -> NodeRec]
      BY <1>1 DEF SliceVars
    <2>2. CASE node' = Counted(node, n)
      BY <1>3, <2>1, <2>2, MarkedNode
    <2>3. CASE node' = Answered(node, n)
      BY <1>3, <2>1, <2>3, MarkedNode
    <2> QED
      BY <1>3, <2>2, <2>3
  <1>5. Placed' /\ Found'
    <2>1. slices' \in 0..(MaxSlice + 1) /\ slices <= slices'
      BY <1>1, <1>3 DEF SliceVars
    <2> QED
      BY <1>1, <1>3, <1>4, <2>1, SameLists
  <1>6. SliceVars'
    BY <1>1, <1>2, <1>3, <1>4 DEF SliceVars, NodeRec, Here
  <1>7. Unentered'
    <2>1. \A m \in Rows : m \in Nodes /\ Aux(m) \in Nodes
      BY <1>1, RowFacts
    <2>2. \A m \in Rows : /\ m >= row => node'[m].life = "none"
                          /\ node'[m].probes = 0 => node'[Aux(m)].life = "none"
      BY <1>1, <1>4, <2>1 DEF Unentered
    <2>3. Rows' = Rows /\ \A m : Aux(m)' = Aux(m)
      BY <1>2 DEF Here
    <2> QED
      BY <1>3, <2>2, <2>3 DEF Unentered
  <1>8. Unvisited'
    <2>1. ASSUME NEW u \in 0..MaxSlice, NEW v \in TypeNames, NEW k \in DOMAIN list[u][v],
                 Ahead(u, v, k)'
          PROVE  node'[list[u][v][k]].probes = 0
      <3>1. /\ k \in Nat /\ list[u][v][k] \in Nodes
            /\ list[u][v][k] = n => u = s /\ v = t /\ k = p
        BY <1>1, <1>2, OnePlace DEF Here
      <3>2. Ahead(u, v, k) /\ ~(u = s /\ v = t /\ k = p)
        BY <1>1, <1>2, <1>3, <2>1, <3>1, StillAhead
      <3> QED
        BY <1>1, <1>3, <1>4, <3>1, <3>2 DEF Unvisited
    <2>2. at'.slice < slices
      BY <1>2 DEF Here
    <2> QED
      BY <1>3, <2>1, <2>2 DEF Unvisited
  <1>9. Mapped' /\ AttachedWell' /\ Returned'
    <2>1. failed' # {}
      BY <1>3
    <2> QED
      BY <1>3, <2>1 DEF Mapped, AttachedWell, Returned
  <1>10. PermitsCoverCores'
    BY <1>1, <1>2, <1>3 DEF PermitsCoverCores, List, Here
  <1> QED
    BY <1>5, <1>6, <1>7, <1>8, <1>9, <1>10 DEF SliceInv, Structure

(* probe_hantroHW calls the probe function of the next node.               *)
LEMMA ProbeKeeps ==
  ASSUME SliceInv, Probe
  PROVE  SliceInv'
  <1> DEFINE n == Current[at.pos + 1]
  <1>1. Visit(n)
    BY DEF Probe, Visit
  <1>2. \/ Succeeds(n) \/ Fails(n) \/ FailsWithoutCopy(n) \/ EncReserveOops(n)
        \/ StaysListed(n) \/ StaysWithoutCopy(n)
        \/ (Type = "dec" /\ ~IsAux(n) /\ SucceedsWithAux(n))
    BY DEF Probe, ProbeDec, ProbeEnc, ProbeCache, ProbeDec400, ProbeAxife, ProbeMmu
  <1> HIDE DEF n
  <1>3. CASE Succeeds(n)
    BY <1>1, <1>3, SucceedsKeeps
  <1>4. CASE Fails(n) \/ FailsWithoutCopy(n)
    BY <1>1, <1>4, FailsKeeps
  <1>5. CASE EncReserveOops(n)
    BY <1>1, <1>5, EncReserveOopsKeeps
  <1>6. CASE Type = "dec" /\ ~IsAux(n) /\ SucceedsWithAux(n)
    BY <1>1, <1>6, SucceedsWithAuxKeeps
  <1>7. CASE StaysListed(n) \/ StaysWithoutCopy(n)
    BY <1>1, <1>7, StaysListedKeeps
  <1> QED
    BY <1>2, <1>3, <1>4, <1>5, <1>6, <1>7

-----------------------------------------------------------------------------
(* hantro_cleanup takes down the nodes of a type.                          *)

(* The nodes of a type that the clean-up functions find are the listed.    *)
LEMMA NodesOfType ==
  ASSUME Structure, NEW t \in TypeNames, NEW n \in Nodes
  PROVE  n \in NodesOf(t) <=> node[n].life = "listed" /\ RowOf(n).type = t
  <1>1. SliceVars /\ Placed /\ Found
    BY DEF Structure
  <1>2. ASSUME n \in NodesOf(t) PROVE node[n].life = "listed" /\ RowOf(n).type = t
    <2>1. PICK s \in 0..(slices - 1) : n \in ToSet(List(s, t))
      BY <1>2 DEF NodesOf
    <2>2. s \in 0..MaxSlice
      BY <1>1, RowFacts DEF SliceVars
    <2>3. PICK k \in DOMAIN list[s][t] : list[s][t][k] = n
      BY <2>1 DEF ToSet, List
    <2> QED
      BY <1>1, <2>2, <2>3 DEF Placed, Stands
  <1>3. ASSUME node[n].life = "listed", RowOf(n).type = t PROVE n \in NodesOf(t)
    <2> DEFINE s == RowOf(n).slice
    <2>1. PICK k \in DOMAIN list[s][t] : list[s][t][k] = n
      BY <1>1, <1>3 DEF Found
    <2>2. s \in 0..MaxSlice
      BY <1>1, RowFacts
    <2>3. s < slices
      BY <1>1, <2>1, <2>2 DEF Placed, Stands
    <2>4. s \in 0..(slices - 1)
      BY <1>1, <2>2, <2>3, RowFacts DEF SliceVars
    <2>5. n \in ToSet(List(s, t))
      BY <2>1 DEF ToSet, List
    <2> QED
      BY <2>4, <2>5 DEF NodesOf
  <1> QED
    BY <1>2, <1>3

(* The cleanup takes the AXI front ends last.                              *)
LEMMA AxifesLast ==
  \A i \in 1..6 : CleanupOrder[i] = "axife" <=> i = 6
  <1>1. /\ CleanupOrder[1] = "dec" /\ CleanupOrder[2] = "enc"
        /\ CleanupOrder[3] = "cache" /\ CleanupOrder[4] = "dec400"
        /\ CleanupOrder[5] = "mmu" /\ CleanupOrder[6] = "axife"
    BY DEF CleanupOrder
  <1>2. \A i \in 1..6 : i \in {1, 2, 3, 4, 5, 6}
    OBVIOUS
  <1> QED
    BY <1>1, <1>2

(* A type has been taken down, or the kernel died of it.                   *)
TakenDown(t) ==
    /\ \/ t # "axife" /\ phase' = "cleanup" /\ node' = Released(t, {"map"})
       \/ t = "axife" /\ phase' = "gone" /\ node' = Released(t, {})
    /\ list' = [s \in DOMAIN list |-> [list[s] EXCEPT ![t] = <<>>]]

(* A step of the cleanup takes one type down, or dies of an unmapped node. *)
LEMMA CleanupCases ==
  ASSUME SliceVars, Cleanup
  PROVE  LET t == CleanupOrder[at.type]
         IN  /\ phase = "cleanup" /\ t \in TypeNames
             /\ UNCHANGED <<table, row, sem, failed>>
             /\ at' = IF phase' = "cleanup" THEN [at EXCEPT !.type = @ + 1] ELSE at
             /\ slices' = IF phase' = "gone" THEN 0 ELSE slices
             /\ \/ TakenDown(t)
                \/ /\ phase' = "oops" /\ UNCHANGED <<node, list>>
                   /\ \E n \in NodesOf(t) : ~node[n].map
  <1> DEFINE t == CleanupOrder[at.type]
  <1>1. t \in TypeNames
    BY TypeNamesAreTypes DEF SliceVars
  <1>2. /\ phase = "cleanup" /\ UNCHANGED <<table, row, sem, failed>>
        /\ at' = IF phase' = "cleanup" THEN [at EXCEPT !.type = @ + 1] ELSE at
        /\ slices' = IF phase' = "gone" THEN 0 ELSE slices
        /\ list' = IF phase' = "oops" THEN list
                   ELSE [s \in DOMAIN list |-> [list[s] EXCEPT ![t] = <<>>]]
        /\ \/ t = "dec" /\ CleanDec
           \/ t = "enc" /\ CleanEnc
           \/ t = "cache" /\ CleanCache
           \/ t = "dec400" /\ CleanDec400
           \/ t = "mmu" /\ CleanMmu
           \/ t = "axife" /\ CleanAxife
    BY DEF Cleanup
  <1> HIDE DEF t
  <1>3. \/ /\ t # "axife" /\ phase' = "cleanup" /\ node' = Released(t, {"map"})
        \/ /\ t = "axife" /\ phase' = "gone" /\ node' = Released(t, {})
        \/ /\ phase' = "oops" /\ UNCHANGED node
           /\ \E n \in NodesOf(t) : ~node[n].map
    BY <1>2 DEF CleanDec, CleanEnc, CleanCache, CleanDec400, CleanMmu, CleanAxife
  <1> QED
    BY <1>1, <1>2, <1>3 DEF TakenDown, t

(* Taking a type down empties its lists and no other.                      *)
LEMMA TakenDownKeeps ==
  ASSUME SliceInv, Cleanup, TakenDown(CleanupOrder[at.type])
  PROVE  SliceInv'
  <1> DEFINE t == CleanupOrder[at.type]
  <1>1. /\ Structure /\ SliceVars /\ Placed /\ Found /\ Unentered /\ Mapped /\ Returned
    BY DEF SliceInv, Structure
  <1>2. /\ phase = "cleanup" /\ t \in TypeNames /\ UNCHANGED <<table, row, sem, failed>>
        /\ at' = IF phase' = "cleanup" THEN [at EXCEPT !.type = @ + 1] ELSE at
        /\ slices' = IF phase' = "gone" THEN 0 ELSE slices
    BY <1>1, CleanupCases
  <1>3. /\ list \in [0..MaxSlice -> [TypeNames -> Seq(Nodes)]] /\ node \in [Nodes -> NodeRec]
        /\ at \in [slice : 0..MaxSlice, type : 1..6, pos : Nat, coren : Nat]
    BY <1>1 DEF SliceVars
  <1>4. t = "axife" <=> at.type = 6
    BY <1>3, AxifesLast
  <1>5. \/ /\ t # "axife" /\ phase' = "cleanup" /\ node' = Released(t, {"map"})
        \/ /\ t = "axife" /\ phase' = "gone" /\ node' = Released(t, {})
    BY DEF TakenDown
  <1>6. /\ list' \in [0..MaxSlice -> [TypeNames -> Seq(Nodes)]]
        /\ \A u \in 0..MaxSlice, v \in TypeNames :
             list'[u][v] = IF v = t THEN <<>> ELSE list[u][v]
    <2>1. list' = [s \in 0..MaxSlice |-> [list[s] EXCEPT ![t] = <<>>]]
      BY <1>3 DEF TakenDown
    <2>2. <<>> \in Seq(Nodes)
      OBVIOUS
    <2> HIDE DEF t
    <2> QED
      BY <1>2, <1>3, <2>1, <2>2
  <1>7. Nodes' = Nodes /\ Rows' = Rows /\ \A m : RowOf(m)' = RowOf(m) /\ Aux(m)' = Aux(m)
    BY <1>2, SameTable DEF Aux
  <1>8. /\ at' \in [slice : 0..MaxSlice, type : 1..6, pos : Nat, coren : Nat]
        /\ phase' = "cleanup" => at'.type = at.type + 1
    <2>1. CASE phase' = "cleanup"
      <3>1. at.type + 1 \in 1..6 /\ at' = [at EXCEPT !.type = at.type + 1]
        BY <1>2, <1>3, <1>4, <1>5, <2>1
      <3> QED
        BY <1>3, <3>1
    <2>2. CASE phase' # "cleanup"
      BY <1>2, <1>3, <2>2
    <2> QED
      BY <2>1, <2>2
  <1> HIDE DEF t
  (* the nodes of the type are freed, the others stay *)
  <1>9. ASSUME NEW m \in Nodes
        PROVE  /\ node'[m] \in NodeRec
               /\ ~(node[m].life = "listed" /\ RowOf(m).type = t) => node'[m] = node[m]
               /\ node[m].life = "listed" /\ RowOf(m).type = t =>
                    /\ node'[m].life = "freed" /\ ~node'[m].region
                    /\ node'[m].map => t = "axife"
               /\ node'[m].probes = node[m].probes
    <2> DEFINE f == node[m]
    <2>1. f \in NodeRec
      BY <1>3
    <2>2. m \in NodesOf(t) <=> f.life = "listed" /\ RowOf(m).type = t
      BY <1>1, <1>2, NodesOfType
    <2>3. CASE m \in NodesOf(t)
      <3>1. PICK b \in BOOLEAN : /\ node'[m] = [f EXCEPT !.life = "freed", !.region = FALSE, !.map = b]
                                 /\ b => t = "axife"
        <4>1. f.map \in BOOLEAN
          BY <2>1 DEF NodeRec
        <4>2. CASE t # "axife" /\ node' = Released(t, {"map"})
          <5>1. node'[m] = [f EXCEPT !.life = "freed", !.region = FALSE,
                                     !.map = f.map /\ ~("map" \in {"map"})]
            BY <2>3, <4>2 DEF Released
          <5>2. (f.map /\ ~("map" \in {"map"})) = FALSE
            OBVIOUS
          <5> QED
            BY <5>1, <5>2
        <4>3. CASE t = "axife" /\ node' = Released(t, {})
          <5>1. node'[m] = [f EXCEPT !.life = "freed", !.region = FALSE,
                                     !.map = f.map /\ ~("map" \in {})]
            BY <2>3, <4>3 DEF Released
          <5>2. (f.map /\ ~("map" \in {})) \in BOOLEAN
            BY <4>1
          <5> QED
            BY <4>3, <5>1, <5>2
        <4> QED
          BY <1>5, <4>2, <4>3
      <3> HIDE DEF f
      <3>2. /\ node'[m] \in NodeRec /\ node'[m].life = "freed" /\ node'[m].region = FALSE
            /\ node'[m].map = b /\ node'[m].probes = f.probes
        BY <2>1, <3>1 DEF NodeRec
      <3> QED
        BY <2>2, <2>3, <3>1, <3>2 DEF f
    <2>4. CASE m \notin NodesOf(t)
      <3>1. node'[m] = node[m]
        BY <1>5, <2>4 DEF Released
      <3> QED
        BY <2>1, <2>2, <2>4, <3>1
    <2> QED
      BY <2>3, <2>4
  <1>10. node' \in [Nodes -> NodeRec]
    <2>1. node' = [m \in Nodes |-> node'[m]]
      BY <1>5 DEF Released
    <2> QED
      BY <1>9, <2>1
  <1>11. SliceVars'
    <2>1. slices' \in 0..(MaxSlice + 1) /\ phase' \in {"cleanup", "gone"}
      BY <1>1, <1>2, <1>5, RowFacts DEF SliceVars
    <2>2. /\ table' \in Tables /\ row' \in 1..(Len(table') + 1) /\ failed' \subseteq Nodes'
          /\ sem' \in [0..MaxSlice -> Nat]
      BY <1>1, <1>2, <1>7 DEF SliceVars
    <2>3. list' \in [0..MaxSlice -> [TypeNames -> Seq(Nodes')]]
      BY <1>6, <1>7
    <2>4. node' \in [Nodes' -> NodeRec']
      BY <1>2, <1>7, <1>10 DEF NodeRec
    <2> QED
      BY <1>8, <2>1, <2>2, <2>3, <2>4 DEF SliceVars
  (* behind the AXI front ends nothing is left *)
  <1>12. ASSUME NEW u \in 0..MaxSlice, NEW v \in TypeNames, phase' = "gone"
         PROVE  list'[u][v] = <<>>
    <2>1. t = "axife" /\ at.type = 6
      BY <1>4, <1>5, <1>12
    <2>2. PICK i \in 1..6 : CleanupOrder[i] = v
      BY TypeNamesAreTypes
    <2>3. CASE i = 6
      BY <1>6, <2>1, <2>2, <2>3, AxifesLast
    <2>4. CASE i # 6
      <3>1. i \in 1..(at.type - 1)
        BY <2>1, <2>4
      <3>2. list[u][v] = <<>>
        BY <1>1, <1>2, <2>2, <3>1 DEF Returned
      <3> QED
        BY <1>6, <3>2
    <2> QED
      BY <2>3, <2>4
  <1>13. ASSUME NEW u \in 0..MaxSlice, NEW v \in TypeNames, NEW k \in DOMAIN list'[u][v]
         PROVE  /\ v # t /\ list'[u][v] = list[u][v] /\ k \in DOMAIN list[u][v]
                /\ list[u][v][k] \in Nodes /\ Stands(u, v, k)
                /\ node'[list[u][v][k]] = node[list[u][v][k]] /\ phase' = "cleanup"
    <2>1. v # t /\ list'[u][v] = list[u][v] /\ k \in DOMAIN list[u][v]
      BY <1>6
    <2>2. list[u][v][k] \in Nodes /\ Stands(u, v, k)
      BY <1>1, <2>1, OnePlace
    <2>3. node'[list[u][v][k]] = node[list[u][v][k]]
      BY <1>9, <2>1, <2>2 DEF Stands
    <2>4. phase' # "gone"
      BY <1>12
    <2> QED
      BY <1>5, <2>1, <2>2, <2>3, <2>4
  <1>14. Placed'
    <2>1. ASSUME NEW u \in 0..MaxSlice, NEW v \in TypeNames, NEW k \in DOMAIN list'[u][v]
          PROVE  Stands(u, v, k)'
      BY <1>2, <1>7, <1>13 DEF Stands
    <2> QED
      BY <2>1 DEF Placed
  <1>15. Found'
    <2>1. ASSUME NEW m \in Nodes, node'[m].life = "listed"
          PROVE  \E k \in DOMAIN list'[RowOf(m).slice][RowOf(m).type] :
                   list'[RowOf(m).slice][RowOf(m).type][k] = m
      <3>1. node[m].life = "listed" /\ RowOf(m).type # t
        BY <1>9, <2>1
      <3>2. RowOf(m).slice \in 0..MaxSlice /\ RowOf(m).type \in TypeNames
        BY <1>1, RowFacts
      <3>3. list'[RowOf(m).slice][RowOf(m).type] = list[RowOf(m).slice][RowOf(m).type]
        BY <1>6, <3>1, <3>2
      <3> QED
        BY <1>1, <3>1, <3>3 DEF Found
    <2> QED
      BY <1>7, <2>1 DEF Found
  <1>16. Unentered' /\ Unvisited'
    <2>1. \A m \in Rows : m \in Nodes /\ Aux(m) \in Nodes
      BY <1>1, RowFacts
    <2>2. \A m \in Rows : /\ m >= row => node'[m].life = "none"
                          /\ node'[m].probes = 0 => node'[Aux(m)].life = "none"
      BY <1>1, <1>9, <2>1 DEF Unentered
    <2>3. Unentered'
      BY <1>2, <1>7, <2>2 DEF Unentered
    <2>4. Unvisited'
      BY <1>5 DEF Unvisited
    <2> QED
      BY <2>3, <2>4
  <1>17. Mapped'
    <2> SUFFICES ASSUME failed = {}, NEW u \in 0..MaxSlice, NEW v \in TypeNames,
                        NEW k \in DOMAIN list'[u][v]
                 PROVE  node'[list'[u][v][k]].map
      BY <1>2 DEF Mapped
    <2>1. ~ToVisit(u, v, k)
      BY <1>2 DEF ToVisit
    <2> QED
      BY <1>1, <1>2, <1>13, <2>1 DEF Mapped
  <1>18. Returned'
    <2>1. failed = {} => \A m \in Nodes :
            /\ node'[m].region => node'[m].life = "listed"
            /\ node'[m].map => node'[m].life = "listed" \/ RowOf(m).type = "axife"
      BY <1>1, <1>9 DEF Returned
    <2>2. ASSUME phase' = "cleanup", NEW u \in 0..MaxSlice, NEW i \in 1..(at'.type - 1)
          PROVE  list'[u][CleanupOrder[i]] = <<>>
      <3>1. i \in 1..6 /\ (i = at.type \/ i \in 1..(at.type - 1))
        <4>1. at.type \in 1..6 /\ at'.type = at.type + 1
          BY <1>3, <1>8, <2>2
        <4>2. i \in 1..at.type
          BY <4>1
        <4> QED
          BY <4>1, <4>2
      <3>2. CleanupOrder[i] \in TypeNames
        BY <3>1, TypeNamesAreTypes
      <3>3. CASE i = at.type
        BY <1>6, <3>2, <3>3 DEF t
      <3>4. CASE i \in 1..(at.type - 1)
        BY <1>1, <1>2, <1>6, <3>2, <3>4 DEF Returned
      <3> QED
        BY <3>1, <3>3, <3>4
    <2> QED
      BY <1>2, <1>7, <1>12, <2>1, <2>2 DEF Returned
  <1>19. AttachedWell' /\ PermitsCoverCores'
    BY <1>5 DEF AttachedWell, PermitsCoverCores
  <1> QED
    BY <1>11, <1>14, <1>15, <1>16, <1>17, <1>18, <1>19 DEF SliceInv, Structure

(* The cleanup keeps the invariant.                                        *)
LEMMA CleanupKeeps ==
  ASSUME SliceInv, Cleanup
  PROVE  SliceInv'
  <1>1. /\ Structure /\ SliceVars /\ Placed /\ Found /\ Unentered /\ Returned
    BY DEF SliceInv, Structure
  <1>2. CASE TakenDown(CleanupOrder[at.type])
    BY <1>2, TakenDownKeeps
  <1>3. CASE phase' = "oops" /\ UNCHANGED <<node, list>>
    <2>1. UNCHANGED <<table, row, slices, list, node, sem, failed, at>>
      BY <1>1, <1>3, CleanupCases
    <2>2. /\ Placed' /\ Found' /\ Unentered'
          /\ Nodes' = Nodes /\ Rows' = Rows /\ \A m : RowOf(m)' = RowOf(m)
      BY <1>1, <2>1, OnlyTheWalkMoves
    <2>3. SliceVars'
      BY <1>1, <1>3, <2>1, <2>2 DEF SliceVars, NodeRec
    <2>4. Returned' /\ Unvisited' /\ Mapped' /\ AttachedWell' /\ PermitsCoverCores'
      <3>1. Returned'
        BY <1>1, <1>3, <2>1, <2>2 DEF Returned
      <3> QED
        BY <1>3, <3>1 DEF Unvisited, Mapped, AttachedWell, PermitsCoverCores
    <2> QED
      BY <2>2, <2>3, <2>4 DEF SliceInv, Structure
  <1> QED
    BY <1>1, <1>2, <1>3, CleanupCases

-----------------------------------------------------------------------------
(* The inductive invariant.                                                *)

(* The invariant holds before the first row.                               *)
LEMMA InitHolds == Init => SliceInv
  <1> SUFFICES ASSUME Init PROVE SliceInv
    OBVIOUS
  <1>1. /\ table \in Tables /\ phase = "add" /\ row = 1 /\ slices = 0
        /\ at = [slice |-> 0, type |-> 1, pos |-> 0, coren |-> 0]
        /\ list = [s \in 0..MaxSlice |-> Empty]
        /\ node = [n \in Nodes |-> NoNode]
        /\ sem = [s \in 0..MaxSlice |-> 0] /\ failed = {}
    BY DEF Init
  <1>2. MaxSlice \in Nat /\ Len(table) \in Nat /\ Rows = 1..Len(table)
    BY <1>1, SliceAssumption DEF Rows
  <1>3. \A s \in 0..MaxSlice, t \in TypeNames : list[s][t] = <<>>
    BY <1>1, TypeNamesAreTypes DEF Empty
  <1>4. SliceVars
    <2>1. NoNode \in NodeRec
      BY <1>2 DEF NoNode, NodeRec
    <2>2. list \in [0..MaxSlice -> [TypeNames -> Seq(Nodes)]]
      <3>1. Empty \in [TypeNames -> Seq(Nodes)]
        BY TypeNamesAreTypes DEF Empty
      <3> QED
        BY <1>1, <3>1
    <2>3. at \in [slice : 0..MaxSlice, type : 1..6, pos : Nat, coren : Nat]
      BY <1>1, <1>2
    <2>4. node \in [Nodes -> NodeRec] /\ sem \in [0..MaxSlice -> Nat]
      BY <1>1, <2>1
    <2> QED
      BY <1>1, <1>2, <2>2, <2>3, <2>4 DEF SliceVars
  <1>5. \A n \in Nodes : node[n] = NoNode
    BY <1>1
  <1>6. Placed /\ Mapped /\ AttachedWell
    <2>1. \A s \in 0..MaxSlice, t \in TypeNames : DOMAIN list[s][t] = {}
      BY <1>3
    <2>2. \A t \in Attached : t \in TypeNames
      BY DEF Attached, TypeNames
    <2> QED
      BY <2>1, <2>2 DEF Placed, Mapped, AttachedWell
  <1>7. Found /\ Returned
    BY <1>1, <1>5 DEF Found, Returned, NoNode
  <1>8. Unentered
    <2>1. \A n \in Rows : n \in Nodes /\ Aux(n) \in Nodes
      BY <1>4, RowFacts
    <2> QED
      BY <1>5, <2>1 DEF Unentered, NoNode
  <1>9. Unvisited
    BY <1>1, <1>5 DEF Unvisited, NoNode
  <1>10. PermitsCoverCores
    <2>1. DOMAIN list = 0..MaxSlice /\ "dec" \in TypeNames
      BY <1>1 DEF TypeNames
    <2>2. \A s \in DOMAIN list : sem[s] = 0 /\ Len(list[s]["dec"]) = 0
      BY <1>1, <1>3, <2>1
    <2> QED
      BY <2>2 DEF PermitsCoverCores, List
  <1> QED
    BY <1>4, <1>6, <1>7, <1>8, <1>9, <1>10 DEF SliceInv, Structure

(* Every step keeps the invariant.                                         *)
LEMMA StepKeeps == SliceInv /\ [Next]_vars => SliceInv'
  <1> SUFFICES ASSUME SliceInv, [Next]_vars PROVE SliceInv'
    OBVIOUS
  <1>1. CASE AddRow
    BY <1>1, AddRowKeeps
  <1>2. CASE StartProbe
    BY <1>2, StartProbeKeeps
  <1>3. CASE NextList
    BY <1>3, NextListKeeps
  <1>4. CASE Probe
    BY <1>4, ProbeKeeps
  <1>5. CASE Unload
    BY <1>5, UnloadKeeps
  <1>6. CASE Cleanup
    BY <1>6, CleanupKeeps
  <1>7. CASE UNCHANGED vars
    <2>1. UNCHANGED <<table, row, slices, list, node, sem, failed, at, phase>>
      BY <1>7 DEF vars
    <2>2. /\ Structure /\ SliceVars /\ Unvisited /\ Mapped /\ Returned /\ AttachedWell
          /\ PermitsCoverCores
      BY DEF SliceInv, Structure
    <2>3. /\ Placed' /\ Found' /\ Unentered'
          /\ Nodes' = Nodes /\ Rows' = Rows /\ \A m : RowOf(m)' = RowOf(m)
      BY <2>1, <2>2, OnlyTheWalkMoves
    <2>4. SliceVars' /\ Unvisited' /\ Mapped'
      <3>1. SliceVars'
        BY <2>1, <2>2, <2>3 DEF SliceVars, NodeRec
      <3>2. Unvisited' /\ Mapped'
        BY <2>1, <2>2, <2>3 DEF Unvisited, Mapped, Ahead, ToVisit
      <3> QED
        BY <3>1, <3>2
    <2>5. Returned' /\ AttachedWell' /\ PermitsCoverCores'
      <3>1. Returned'
        BY <2>1, <2>2, <2>3 DEF Returned
      <3>2. AttachedWell'
        BY <2>1, <2>2 DEF AttachedWell
      <3>3. PermitsCoverCores'
        BY <2>1, <2>2, <2>3 DEF PermitsCoverCores, List
      <3> QED
        BY <3>1, <3>2, <3>3
    <2> QED
      BY <2>3, <2>4, <2>5 DEF SliceInv, Structure
  <1> QED
    BY <1>1, <1>2, <1>3, <1>4, <1>5, <1>6, <1>7 DEF Next

(* The lists, what the walk has mapped and what is returned, jointly.      *)
THEOREM Invariance == Spec => []SliceInv
  BY InitHolds, StepKeeps, PTL DEF Spec

(* Type correctness.                                                       *)
THEOREM TypeCorrect == Spec => []SliceTypeOK
  <1>1. SliceInv => SliceTypeOK
    <2> SUFFICES ASSUME SliceInv PROVE SliceTypeOK
      OBVIOUS
    <2>1. SliceVars
      BY DEF SliceInv, Structure
    <2>2. \A n \in Nodes : node[n] \in NodeRec
      BY <2>1 DEF SliceVars
    <2>3. \A x \in 0..Len(table) : x \in {0} \cup Rows
      BY <2>1, RowFacts
    <2> QED
      BY <2>1, <2>2, <2>3 DEF SliceTypeOK, SliceVars, NodeRec
  <1> QED
    BY <1>1, Invariance, PTL

(* User space finds a core at the id it was given, and what is attached to *)
(* it by that id: remove_decnode and its like renumber what stands behind, *)
(* and the lookup functions of devicemgr.c match a copy of the number.     *)
THEOREM IdsStandForCores == Spec => []IdsStayTrue
  <1>1. SliceInv => IdsMatchPositions
    <2> SUFFICES ASSUME SliceInv PROVE IdsMatchPositions
      OBVIOUS
    <2>1. SliceVars /\ Placed /\ DOMAIN list = 0..MaxSlice
      BY DEF SliceInv, Structure, SliceVars
    <2>2. ASSUME NEW s \in 0..MaxSlice, NEW t \in TypeNames, NEW k \in DOMAIN list[s][t]
          PROVE  node[list[s][t][k]].id = k - 1
      BY <2>1 DEF Placed, Stands
    <2> QED
      BY <2>1, <2>2, TypeNamesAreTypes DEF IdsMatchPositions, List
  <1>2. SliceInv => LookupFindsOwn
    <2> SUFFICES ASSUME SliceInv, phase = "running", failed = {},
                        NEW s \in DOMAIN list, NEW t \in Attached, NEW pt \in Parents,
                        NEW k \in DOMAIN List(s, pt), NodeByType(s, t, pt, k - 1) # 0
                 PROVE  node[NodeByType(s, t, pt, k - 1)].parent = List(s, pt)[k]
      BY DEF LookupFindsOwn
    <2>1. /\ SliceVars /\ Placed /\ AttachedWell /\ s \in 0..MaxSlice
          /\ list \in [0..MaxSlice -> [TypeNames -> Seq(Nodes)]]
      <3>1. SliceVars /\ Placed /\ AttachedWell
        BY DEF SliceInv, Structure
      <3> QED
        BY <3>1 DEF SliceVars
    <2>2. t \in TypeNames /\ pt \in TypeNames /\ \A x \in Parents : x \in TypeNames
      BY DEF Attached, Parents, TypeNames
    <2> DEFINE I == {i \in 1..Len(list[s][t]) :
                       LET c == list[s][t][i]
                       IN  /\ node[c].parent # 0 /\ RowOf(node[c].parent).type = pt
                           /\ node[c].pid = k - 1}
               i0 == IF I # {} THEN Min(I) ELSE 0
    <2>3. NodeByType(s, t, pt, k - 1) = IF i0 = 0 THEN 0 ELSE list[s][t][i0]
      BY ZenonT(40) DEF NodeByType, SelectInSeq, List
    <2>4. I # {} /\ i0 = Min(I) /\ NodeByType(s, t, pt, k - 1) = list[s][t][i0]
      BY <2>3
    <2>5. I \subseteq Nat
      BY <2>1, <2>2
    <2> HIDE DEF I
    <2>6. Min(I) \in I
      BY <2>4, <2>5, NatSetHasMin DEF Min
    <2>7. /\ i0 \in DOMAIN list[s][t] /\ node[list[s][t][i0]].parent # 0
          /\ RowOf(node[list[s][t][i0]].parent).type = pt
          /\ node[list[s][t][i0]].pid = k - 1
      <3>1. i0 \in I
        BY <2>4, <2>6
      <3> HIDE DEF i0
      <3>2. /\ i0 \in 1..Len(list[s][t]) /\ node[list[s][t][i0]].parent # 0
            /\ RowOf(node[list[s][t][i0]].parent).type = pt
            /\ node[list[s][t][i0]].pid = k - 1
        BY <3>1 DEF I
      <3>3. list[s][t] \in Seq(Nodes)
        BY <2>1, <2>2
      <3> QED
        BY <3>2, <3>3
    <2> HIDE DEF i0
    <2>8. PICK q \in Parents : \E j \in DOMAIN list[s][q] :
             list[s][q][j] = node[list[s][t][i0]].parent /\ node[list[s][t][i0]].pid = j - 1
      BY <2>1, <2>7 DEF AttachedWell
    <2>9. PICK j \in DOMAIN list[s][q] :
             list[s][q][j] = node[list[s][t][i0]].parent /\ node[list[s][t][i0]].pid = j - 1
      BY <2>8
    <2>10. Stands(s, q, j) /\ j \in Nat
      BY <2>1, <2>2, OnePlace
    <2>11. q = pt
      BY <2>7, <2>9, <2>10 DEF Stands
    <2>12. k \in Nat
      BY <2>1, <2>2 DEF List
    <2>13. j = k
      BY <2>7, <2>9, <2>10, <2>12
    <2> QED
      BY <2>4, <2>9, <2>11, <2>13 DEF List
  <1> QED
    BY <1>1, <1>2, Invariance, PTL DEF IdsStayTrue

(* No client waits beside a free decoder for want of a permit: what        *)
(* add_decnode gives dec_core_sem covers the list through every removal    *)
(* and every auxiliary core.                                               *)
THEOREM PermitsSuffice == Spec => []PermitsCoverCores
  BY Invariance, PTL DEF SliceInv

-----------------------------------------------------------------------------
(* A load and an unload in which no probe fails.  AddRow dies of a table   *)
(* that names a slice for an encoder or an MMU before one that it stands   *)
(* behind, so the theorem is about tables in which the slices are named in *)
(* order by the types that make them, as those of the code are.            *)

OrderInv == SlicesMade /\ (failed = {} => phase # "oops")

(* The slices a row stands behind have been made when its turn comes.      *)
LEMMA OrderStep ==
  ASSUME \A tbl \in Tables : InOrder(tbl), SliceInv, OrderInv, [Next]_vars
  PROVE  OrderInv'
  <1>1. SliceVars /\ Mapped /\ Structure
    BY DEF SliceInv, Structure
  <1>2. table \in Tables /\ InOrder(table)
    BY <1>1 DEF SliceVars
  <1>3. CASE AddRow
    <2> DEFINE t == table[row].type
               s == table[row].slice
    <2>1. /\ phase = "add" /\ row \in Rows /\ row' = row + 1 /\ UNCHANGED <<table, failed>>
          /\ slices' = SliceFor(t, s) /\ s \in 0..MaxSlice /\ slices \in 0..(MaxSlice + 1)
          /\ MaxSlice \in Nat /\ Rows = 1..Len(table) /\ Len(table) \in Nat /\ row \in Nat
      <3>1. phase = "add" /\ row <= Len(table) /\ row \in 1..(Len(table) + 1)
        BY <1>1, <1>3 DEF AddRow, SliceVars
      <3>2. row \in Rows /\ Rows = 1..Len(table) /\ Len(table) \in Nat /\ MaxSlice \in Nat
        BY <1>1, <3>1, RowFacts
      <3> QED
        BY <1>1, <1>3, <3>1, <3>2, RowFacts DEF AddRow, Row, SliceVars
    <2>2. slices' \in Nat /\ slices <= slices'
      BY <2>1 DEF SliceFor
    <2>3. t \in Makers => s < slices'
      <3> SUFFICES ASSUME t \in Makers PROVE s < slices'
        OBVIOUS
      <3>1. s <= slices
        <4>1. CASE s = 0
          BY <2>1, <4>1
        <4>2. CASE s > 0
          <5>1. PICK m \in 1..(row - 1) : table[m].type \in Makers /\ table[m].slice = s - 1
            BY <1>2, <2>1, <4>2 DEF InOrder, Rows
          <5>2. table[m].slice < slices
            BY <2>1, <5>1 DEF OrderInv, SlicesMade
          <5> QED
            BY <2>1, <5>1, <5>2
        <4> QED
          BY <2>1, <4>1, <4>2
      <3>2. s = slices => slices' = slices + 1
        BY <2>1 DEF SliceFor, Makers, Parents
      <3> QED
        BY <2>1, <2>2, <3>1, <3>2
    <2>4. phase' = "add"
      <3>1. CASE s >= slices'
        <4>1. t \notin Makers
          BY <2>1, <2>2, <2>3, <3>1
        <4> QED
          BY <1>3, <2>1, <3>1, <4>1 DEF AddRow, Makers
      <3>2. CASE ~(s >= slices')
        BY <1>3, <2>1, <3>2 DEF AddRow
      <3> QED
        BY <3>1, <3>2
    <2>5. SlicesMade'
      <3> SUFFICES ASSUME NEW m \in 1..row, table[m].type \in Makers
                   PROVE  table[m].slice < slices'
        <4>1. row' - 1 = row
          BY <2>1
        <4> QED
          BY <2>1, <4>1 DEF SlicesMade
      <3>1. CASE m = row
        BY <2>3, <3>1
      <3>2. CASE m # row
        <4>1. m \in 1..(row - 1) /\ m \in Rows
          BY <2>1, <3>2
        <4>2. table[m].slice < slices
          BY <2>1, <4>1 DEF OrderInv, SlicesMade
        <4>3. table[m].slice \in 0..MaxSlice
          <5>1. table[m] \in Row
            BY <1>1, <4>1, RowFacts
          <5> QED
            BY <5>1 DEF Row
        <4> QED
          BY <2>1, <2>2, <4>2, <4>3
      <3> QED
        BY <3>1, <3>2
    <2> QED
      BY <2>4, <2>5 DEF OrderInv
  <1>4. CASE StartProbe \/ NextList \/ Unload
    <2>1. phase' # "oops" /\ phase' # "add" /\ failed' = failed
      BY <1>4 DEF StartProbe, NextList, Unload
    <2> QED
      BY <2>1 DEF OrderInv, SlicesMade
  <1>5. CASE Probe
    <2>1. phase = "probe" /\ (phase' = "probe" \/ failed' # {}) /\ phase' # "add"
      BY <1>5 DEF Probe, ProbeDec, ProbeEnc, ProbeCache, ProbeDec400, ProbeAxife, ProbeMmu,
                  Succeeds, Fails, FailsWithoutCopy, EncReserveOops, SucceedsWithAux,
                  StaysListed, StaysWithoutCopy
    <2> QED
      BY <2>1, SMTT(20) DEF OrderInv, SlicesMade
  <1>6. CASE Cleanup
    <2> DEFINE t == CleanupOrder[at.type]
    <2>1. /\ phase = "cleanup" /\ t \in TypeNames /\ failed' = failed
          /\ TakenDown(t) \/ (phase' = "oops" /\ \E n \in NodesOf(t) : ~node[n].map)
      BY <1>1, <1>6, CleanupCases
    <2>2. ASSUME failed = {} PROVE \A n \in NodesOf(t) : node[n].map
      <3> HIDE DEF t
      <3> SUFFICES ASSUME NEW n \in NodesOf(t) PROVE node[n].map
        OBVIOUS
      <3>1. PICK s \in 0..(slices - 1) : n \in ToSet(List(s, t))
        BY DEF NodesOf
      <3>2. s \in 0..MaxSlice
        BY <1>1, RowFacts DEF SliceVars
      <3>3. PICK k \in DOMAIN list[s][t] : list[s][t][k] = n
        BY <3>1 DEF ToSet, List
      <3>4. ~ToVisit(s, t, k)
        BY <2>1 DEF ToVisit
      <3> QED
        BY <1>1, <2>1, <2>2, <3>2, <3>3, <3>4 DEF Mapped
    <2>3. phase' # "add" /\ (failed' = {} => phase' # "oops")
      BY <2>1, <2>2 DEF TakenDown
    <2> QED
      BY <2>3 DEF OrderInv, SlicesMade
  <1>7. CASE UNCHANGED vars
    BY <1>7 DEF vars, OrderInv, SlicesMade
  <1> QED
    BY <1>3, <1>4, <1>5, <1>6, <1>7 DEF Next

(* A module whose probes have all succeeded unloads without touching what  *)
(* hantro_cleanup or the remove functions have not mapped, and leaves no   *)
(* node, region or mapping but those of the AXI front ends.                *)
THEOREM UnloadsClean ==
  (\A tbl \in Tables : InOrder(tbl)) => (Spec => []CleanUnload)
  <1> SUFFICES ASSUME \A tbl \in Tables : InOrder(tbl) PROVE Spec => []CleanUnload
    OBVIOUS
  <1>1. Init => OrderInv
    BY DEF Init, OrderInv, SlicesMade
  <1>2. SliceInv /\ OrderInv /\ [Next]_vars => OrderInv'
    BY OrderStep
  <1>3. SliceInv /\ OrderInv => CleanUnload
    <2> SUFFICES ASSUME SliceInv, OrderInv, failed = {}, phase = "gone", NEW n \in Nodes
                 PROVE  /\ node[n].life # "listed" /\ ~node[n].region
                        /\ node[n].map => RowOf(n).type = "axife"
      BY DEF CleanUnload, OrderInv
    <2>1. SliceVars /\ Found /\ Returned
      BY DEF SliceInv, Structure
    <2>2. RowOf(n).slice \in 0..MaxSlice /\ RowOf(n).type \in TypeNames
      BY <2>1, RowFacts
    <2>3. node[n].life # "listed"
      BY <2>1, <2>2 DEF Found, Returned
    <2> QED
      BY <2>1, <2>3 DEF Returned
  <1> QED
    BY <1>1, <1>2, <1>3, Invariance, PTL DEF Spec
=============================================================================
