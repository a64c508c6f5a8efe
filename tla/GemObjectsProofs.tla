-------------------------- MODULE GemObjectsProofs --------------------------
(***************************************************************************)
(* Proofs, for every number of objects, threads, blocks and chunks, of the *)
(* safety properties of GemObjects.                                        *)
(*                                                                         *)
(* The references of an object are counted exactly: one for each handle,   *)
(* mapping and call under way, one for the dma-buf, and those that failed  *)
(* mappings have left (Counted).  So the object is freed neither too early *)
(* nor too late.  The memory of two objects stays apart because a search   *)
(* of the chunk table has no chunk in use behind it that reaches over its  *)
(* position (SearchPast): frees beside the search only remove such chunks, *)
(* and struct_mutex keeps other searches out.                              *)
(***************************************************************************)
EXTENDS GemObjects, FiniteSetTheorems, TLAPS

ObjRec == [life : {"none", "making", "live"}, refs : Nat, handles : Nat,
           named : BOOLEAN, dmabuf : BOOLEAN, files : Nat, offset : BOOLEAN,
           maps : Nat, filemaps : Nat, bare : Nat, kept : Nat, imported : BOOLEAN]
MemRec == [kind : {"none", "pool", "chunks", "dma"}, at : Nat, n : Nat]
CallRec == [pc : {"idle", "search", "close", "flink", "open", "mmap"},
            obj : Objects \cup {None}, size : Nat, at : Nat]

Types ==
    /\ build \in Builds
    /\ obj \in [Objects -> ObjRec]
    /\ mem \in [Objects -> MemRec]
    /\ used \subseteq Blocks
    /\ reserved \in [0..(Chunks - 1) -> Nat]
    /\ thread \in [Threads -> CallRec]
    /\ mutex \in Threads \cup {None}
    /\ misused \in BOOLEAN
    /\ failures \in Nat

(* A thread inside a call works on an object, and the two calls that keep  *)
(* struct_mutex across steps have it.                                      *)
CallOK(t) ==
    /\ thread[t].pc # "idle" => thread[t].obj \in Objects
    /\ thread[t].pc \in {"search", "mmap"} => mutex = t
    /\ thread[t].pc = "search" => /\ obj[thread[t].obj].life = "making"
                                  /\ thread[t].size \in Sizes

CallsOK == \A t \in Threads : CallOK(t)

Bit(b) == IF b THEN 1 ELSE 0
Holders(o) == {t \in Threads : Holds(t, o)}

(* What h calls, and the rest that reaches an object, have of references.  *)
Counted(r, h) ==
    /\ r.refs = r.handles + Bit(r.dmabuf) + r.maps + r.filemaps + r.kept + h
    /\ r.files + r.filemaps > 0 => r.dmabuf
    /\ r.dmabuf => r.files + r.filemaps + r.handles > 0
    /\ r.named => r.handles > 0

RefsOK ==
    \A o \in Objects : /\ Counted(obj[o], Cardinality(Holders(o)))
                       /\ Live(o) <=> obj[o].refs > 0

(* With careful clients what has been looked up or mapped is there.        *)
BorrowedLive ==
    CarefulClients => ~misused /\ \A o \in Objects : Borrowed(o) => Live(o)

(* Only live objects have memory.                                          *)
OwnersLive ==
    \A o \in Objects : /\ mem[o].kind = "none" => mem[o] = NoMem
                       /\ mem[o].kind # "none" => Live(o)

PoolOK ==
    /\ used = {mem[o].at : o \in {p \in Objects : mem[p].kind = "pool"}}
    /\ \A o, p \in Objects :
        o # p /\ mem[o].kind = "pool" /\ mem[p].kind = "pool" => mem[o].at # mem[p].at

InChunks(o) == mem[o].kind = "chunks"
Apart(a, b) == a.at + a.n <= b.at \/ b.at + b.n <= a.at

ChunksOK ==
    /\ \A o \in Objects : InChunks(o) =>
        /\ mem[o].n > 0 /\ mem[o].at + mem[o].n <= Chunks
        /\ reserved[mem[o].at] = mem[o].n
    /\ \A i \in 0..(Chunks - 1) :
        reserved[i] > 0 => \E o \in Objects : InChunks(o) /\ mem[o].at = i
    /\ \A o, p \in Objects :
        o # p /\ InChunks(o) /\ InChunks(p) => Apart(mem[o], mem[p])

(* What begins before the position of a search ends before it.             *)
SearchPast ==
    \A t \in Threads : thread[t].pc = "search" =>
        \A o \in Objects : InChunks(o) /\ mem[o].at < thread[t].at =>
            mem[o].at + mem[o].n <= thread[t].at

GemInv ==
    /\ Types
    /\ CallsOK
    /\ RefsOK
    /\ BorrowedLive
    /\ OwnersLive
    /\ PoolOK
    /\ ChunksOK
    /\ SearchPast

-----------------------------------------------------------------------------
(* The dma-buf is dropped when no file, no mapping of one and no handle is *)
(* left, and takes its reference with it.                                  *)
LEMMA UnexportCounts ==
  ASSUME NEW r \in ObjRec, NEW h \in Nat,
         r.refs = r.handles + Bit(r.dmabuf) + r.maps + r.filemaps + r.kept + h,
         r.files + r.filemaps > 0 => r.dmabuf,
         r.named => r.handles > 0
  PROVE  /\ Unexport(r) \in ObjRec /\ Counted(Unexport(r), h)
         /\ Unexport(r).life = r.life /\ Unexport(r).bare = r.bare
  <1>1. CASE r.dmabuf /\ r.files + r.filemaps = 0 /\ r.handles = 0
    <2> DEFINE q == [r EXCEPT !.dmabuf = FALSE, !.refs = @ - 1]
    <2>1. Unexport(r) = q
      BY <1>1 DEF Unexport
    <2>2. r.refs - 1 \in Nat
      BY <1>1 DEF ObjRec, Bit
    <2>3. q \in ObjRec
      BY <2>2 DEF ObjRec
    <2>4. /\ q.refs = r.refs - 1 /\ q.dmabuf = FALSE /\ q.files = r.files
          /\ q.filemaps = r.filemaps /\ q.handles = r.handles /\ q.named = r.named
          /\ q.maps = r.maps /\ q.kept = r.kept /\ q.life = r.life /\ q.bare = r.bare
      BY DEF ObjRec
    <2> HIDE DEF q
    <2> QED
      BY <1>1, <2>1, <2>3, <2>4 DEF Counted, Bit, ObjRec
  <1>2. CASE ~(r.dmabuf /\ r.files + r.filemaps = 0 /\ r.handles = 0)
    <2>1. Unexport(r) = r
      BY <1>2 DEF Unexport
    <2>2. r.dmabuf => r.files + r.filemaps + r.handles > 0
      BY <1>2 DEF ObjRec
    <2> QED
      BY <2>1, <2>2 DEF Counted
  <1> QED
    BY <1>1, <1>2

(* Deleting a handle drops its reference, with the last one the name, and  *)
(* with the last one and no file left the dma-buf.                         *)
LEMMA HandleDeletedCounts ==
  ASSUME NEW r \in ObjRec, NEW h \in Nat, Counted(r, h), r.handles > 0
  PROVE  /\ HandleDeleted(r) \in ObjRec /\ Counted(HandleDeleted(r), h)
         /\ HandleDeleted(r).life = r.life /\ HandleDeleted(r).bare = r.bare
  <1> DEFINE q == [r EXCEPT !.handles = @ - 1, !.refs = @ - 1,
                            !.named = @ /\ r.handles > 1]
  <1>0. r.refs - 1 \in Nat /\ r.handles - 1 \in Nat
    BY DEF ObjRec, Counted, Bit
  <1>1. q \in ObjRec /\ q.refs = r.refs - 1 /\ q.handles = r.handles - 1
    BY <1>0 DEF ObjRec
  <1>2. /\ q.dmabuf = r.dmabuf /\ q.files = r.files /\ q.filemaps = r.filemaps
        /\ q.maps = r.maps /\ q.kept = r.kept /\ q.life = r.life /\ q.bare = r.bare
    BY DEF ObjRec
  <1>3. q.named => q.handles > 0
    <2>1. q.named => r.handles > 1
      BY DEF ObjRec
    <2> QED
      BY <1>1, <2>1 DEF ObjRec
  <1>4. q.refs = q.handles + Bit(q.dmabuf) + q.maps + q.filemaps + q.kept + h
    BY <1>1, <1>2 DEF Counted, Bit, ObjRec
  <1>5. q.files + q.filemaps > 0 => q.dmabuf
    BY <1>2 DEF Counted
  <1>6. HandleDeleted(r) = Unexport(q)
    BY DEF HandleDeleted
  <1> HIDE DEF q
  <1> QED
    BY <1>1, <1>2, <1>3, <1>4, <1>5, <1>6, UnexportCounts

(* A reference more or less, for a call.                                   *)
LEMMA GotCounts ==
  ASSUME NEW r \in ObjRec, NEW h \in Nat, Counted(r, h)
  PROVE  /\ Got(r) \in ObjRec /\ Counted(Got(r), h + 1) /\ Got(r).refs > 0
         /\ Got(r).life = r.life /\ Got(r).bare = r.bare
  <1> DEFINE q == Got(r)
  <1>1. /\ q \in ObjRec /\ q.refs = r.refs + 1 /\ q.handles = r.handles
        /\ q.named = r.named /\ q.dmabuf = r.dmabuf /\ q.files = r.files
        /\ q.maps = r.maps /\ q.filemaps = r.filemaps /\ q.kept = r.kept
        /\ q.life = r.life /\ q.bare = r.bare
    BY DEF Got, ObjRec
  <1> HIDE DEF q
  <1>2. Counted(q, h + 1)
    <2>1. /\ r.refs \in Nat /\ r.handles \in Nat /\ r.maps \in Nat
          /\ r.filemaps \in Nat /\ r.kept \in Nat /\ Bit(r.dmabuf) \in Nat
          /\ r.refs = r.handles + Bit(r.dmabuf) + r.maps + r.filemaps + r.kept + h
      BY DEF ObjRec, Bit, Counted
    <2>2. q.refs = q.handles + Bit(q.dmabuf) + q.maps + q.filemaps + q.kept + (h + 1)
      BY <1>1, <2>1
    <2> QED
      BY <1>1, <2>2 DEF Counted
  <1>3. q.refs > 0
    BY <1>1 DEF ObjRec
  <1> QED
    BY <1>1, <1>2, <1>3 DEF q

(* Dropping the reference of a call.                                       *)
LEMMA DroppedCounts ==
  ASSUME NEW r \in ObjRec, NEW h \in Nat, Counted(r, h), h > 0
  PROVE  /\ Dropped(r) \in ObjRec /\ Counted(Dropped(r), h - 1)
         /\ Dropped(r).life = r.life /\ Dropped(r).bare = r.bare
  <1> DEFINE q == Dropped(r)
  <1>1. r.refs - 1 \in Nat
    BY DEF Counted, Bit, ObjRec
  <1>2. /\ q \in ObjRec /\ q.refs = r.refs - 1 /\ q.handles = r.handles
        /\ q.named = r.named /\ q.dmabuf = r.dmabuf /\ q.files = r.files
        /\ q.maps = r.maps /\ q.filemaps = r.filemaps /\ q.kept = r.kept
        /\ q.life = r.life /\ q.bare = r.bare
    BY <1>1 DEF Dropped, ObjRec
  <1> HIDE DEF q
  <1>3. Counted(q, h - 1)
    BY <1>2 DEF Counted, Bit, ObjRec
  <1> QED
    BY <1>2, <1>3 DEF q

(* Counts that add up to nothing are nothing.                              *)
LEMMA SumOfZero ==
  ASSUME NEW a \in Nat, NEW b \in Nat, NEW c \in Nat, NEW d \in Nat, NEW e \in Nat,
         ~(a + b + c + d + e > 0)
  PROVE  a = 0 /\ b = 0 /\ c = 0 /\ d = 0
  OBVIOUS

(* What refers to an object is among its references.                       *)
LEMMA ReachedHasRefs ==
  ASSUME NEW r \in ObjRec, NEW h \in Nat, Counted(r, h)
  PROVE  /\ r.handles > 0 => r.refs > 0
         /\ r.files > 0 \/ r.filemaps > 0 => r.refs > 0
         /\ r.maps > 0 => r.refs > 0
         /\ r.named => r.refs > 0
         /\ h > 0 => r.refs > 0
  <1>1. /\ r.refs \in Nat /\ r.handles \in Nat /\ r.maps \in Nat
        /\ r.filemaps \in Nat /\ r.kept \in Nat /\ r.files \in Nat
        /\ Bit(r.dmabuf) \in Nat /\ (r.dmabuf => Bit(r.dmabuf) = 1)
    BY DEF ObjRec, Bit
  <1>2. r.refs = r.handles + Bit(r.dmabuf) + r.maps + r.filemaps + r.kept + h
    BY DEF Counted
  <1>3. (r.named => r.handles > 0) /\ (r.files + r.filemaps > 0 => r.dmabuf)
    BY DEF Counted
  <1>4. r.handles > 0 => r.refs > 0
    BY <1>1, <1>2
  <1>5. r.files > 0 \/ r.filemaps > 0 => r.refs > 0
    BY <1>1, <1>2, <1>3
  <1>6. r.maps > 0 => r.refs > 0
    BY <1>1, <1>2
  <1>7. h > 0 => r.refs > 0
    BY <1>1, <1>2
  <1> QED
    BY <1>3, <1>4, <1>5, <1>6, <1>7

-----------------------------------------------------------------------------
(* The object keeps its memory, or the memory goes with it and nothing     *)
(* else of the pool or of the table changes.                               *)
LEMMA MemBecomes ==
  ASSUME Types, OwnersLive, PoolOK, ChunksOK, SearchPast,
         NEW o \in Objects, Live(o), NEW r \in ObjRec, r.life = "live",
         Becomes(o, r),
         \A u \in Threads : thread'[u].pc = "search" => thread'[u] = thread[u]
  PROVE  /\ obj' \in [Objects -> ObjRec] /\ mem' \in [Objects -> MemRec]
         /\ used' \subseteq Blocks /\ reserved' \in [0..(Chunks - 1) -> Nat]
         /\ OwnersLive' /\ PoolOK' /\ ChunksOK' /\ SearchPast'
  <1>1. CASE r.refs > 0
    <2>1. obj' = [obj EXCEPT ![o] = r] /\ UNCHANGED <<mem, used, reserved>>
      BY <1>1 DEF Becomes
    <2>2. \A p \in Objects : Live(p) => Live(p)'
      BY <2>1 DEF Types, Live
    <2>3. obj' \in [Objects -> ObjRec]
      BY <2>1 DEF Types
    <2>4. PoolOK' /\ ChunksOK' /\ OwnersLive'
      BY <2>1, <2>2 DEF PoolOK, ChunksOK, OwnersLive, InChunks
    <2>5. SearchPast'
      BY <2>1 DEF SearchPast, InChunks
    <2> QED
      BY <2>1, <2>3, <2>4, <2>5 DEF Types
  <1>2. CASE ~(r.refs > 0)
    <2> DEFINE q == [r EXCEPT !.life = "none", !.offset = FALSE, !.imported = FALSE]
    <2>1. /\ obj' = [obj EXCEPT ![o] = q]
          /\ mem' = [mem EXCEPT ![o] = NoMem]
          /\ used' = BlockFreed(mem[o]) /\ reserved' = ChunksFreed(mem[o])
      BY <1>2 DEF Becomes, FreeMem
    <2>2. q \in ObjRec
      BY DEF ObjRec
    <2> HIDE DEF q
    <2>3. /\ mem' \in [Objects -> MemRec] /\ obj' \in [Objects -> ObjRec]
          /\ mem'[o] = NoMem /\ NoMem.kind = "none"
          /\ \A p \in Objects \ {o} : mem'[p] = mem[p] /\ obj'[p] = obj[p]
      BY <2>1, <2>2 DEF Types, MemRec, NoMem
    <2>4. OwnersLive'
      BY <2>3 DEF OwnersLive, Live
    <2>5. PoolOK' /\ used' \subseteq Blocks
      <3>1. \A p \in Objects : mem'[p].kind = "pool" <=> p # o /\ mem[p].kind = "pool"
        BY <2>3
      <3>2. \A p \in Objects : mem'[p].kind = "pool" => mem'[p].at = mem[p].at
        BY <2>3, <3>1
      <3>3. CASE mem[o].kind = "pool"
        <4>1. used' = used \ {mem[o].at}
          BY <2>1, <3>3 DEF BlockFreed
        <4> QED
          BY <3>1, <3>2, <3>3, <4>1 DEF PoolOK, Types
      <3>4. CASE mem[o].kind # "pool"
        <4>1. used' = used
          BY <2>1, <3>4 DEF BlockFreed
        <4> QED
          BY <3>1, <3>2, <3>4, <4>1 DEF PoolOK, Types
      <3> QED
        BY <3>3, <3>4
    <2>6. \A p \in Objects : InChunks(p)' <=> p # o /\ InChunks(p)
      BY <2>3 DEF InChunks
    <2>7. \A p \in Objects : InChunks(p)' => mem'[p] = mem[p]
      BY <2>3, <2>6
    <2>8. ChunksOK' /\ reserved' \in [0..(Chunks - 1) -> Nat]
      <3>1. CASE InChunks(o)
        <4>1. reserved' = [reserved EXCEPT ![mem[o].at] = 0]
          BY <2>1, <3>1 DEF ChunksFreed, InChunks
        <4>2. \A p \in Objects \ {o} : InChunks(p) => mem[p].at # mem[o].at
          BY <3>1, SMTT(20) DEF ChunksOK, Apart, Types, MemRec
        <4>3. \A p \in Objects \ {o} : InChunks(p) => reserved'[mem[p].at] = mem[p].n
          BY <4>1, <4>2 DEF ChunksOK, Types, MemRec
        <4>4. \A i \in 0..(Chunks - 1) : reserved'[i] > 0 => reserved[i] > 0 /\ i # mem[o].at
          BY <4>1 DEF Types
        <4>5. reserved' \in [0..(Chunks - 1) -> Nat]
          BY <4>1 DEF Types
        <4> QED
          BY <2>6, <2>7, <4>3, <4>4, <4>5 DEF ChunksOK
      <3>2. CASE ~InChunks(o)
        <4>1. reserved' = reserved
          BY <2>1, <3>2 DEF ChunksFreed, InChunks
        <4> QED
          BY <2>6, <2>7, <3>2, <4>1 DEF ChunksOK, Types
      <3> QED
        BY <3>1, <3>2
    <2>9. SearchPast'
      BY <2>6, <2>7 DEF SearchPast
    <2> QED
      BY <2>3, <2>4, <2>5, <2>8, <2>9
  <1> QED
    BY <1>1, <1>2

(* The object o becomes r, and at most one call begins or ends with it.    *)
Update(o, r) ==
    /\ Live(o) /\ r \in ObjRec /\ r.life = "live"
    /\ Counted(r, Cardinality(Holders(o)'))
    /\ Becomes(o, r)
    /\ r.bare > 0 => Borrowed(o) \/ r.refs > 0
    /\ \A p \in Objects \ {o} : Holders(p)' = Holders(p)
    /\ thread' \in [Threads -> CallRec]
    /\ \A u \in Threads : \/ thread'[u] = thread[u]
                          \/ thread'[u].pc \in {"idle", "close", "flink"}
    /\ \A u \in Threads : thread'[u].pc # "idle" => thread'[u].obj \in Objects
    /\ \A u \in Threads : thread'[u].pc \in {"search", "mmap"} => mutex' = u
    /\ mutex' \in {mutex, None}
    /\ failures' \in Nat
    /\ UNCHANGED <<build, misused>>

(* Such a change preserves the invariant.                                  *)
LEMMA UpdateStep ==
  ASSUME GemInv, NEW o \in Objects, NEW r, Update(o, r)
  PROVE  GemInv'
  <1>1. /\ Live(o) /\ r \in ObjRec /\ r.life = "live" /\ Becomes(o, r)
        /\ \A u \in Threads : thread'[u].pc = "search" => thread'[u] = thread[u]
    BY DEF Update
  <1>2. /\ obj' \in [Objects -> ObjRec] /\ mem' \in [Objects -> MemRec]
        /\ used' \subseteq Blocks /\ reserved' \in [0..(Chunks - 1) -> Nat]
        /\ OwnersLive' /\ PoolOK' /\ ChunksOK' /\ SearchPast'
    BY <1>1, MemBecomes DEF GemInv
  <1>3. Types'
    BY <1>2 DEF GemInv, Types, Update
  <1>4. \A p \in Objects \ {o} : obj'[p] = obj[p]
    BY <1>1 DEF Becomes, GemInv, Types
  <1>5. /\ obj'[o].refs = r.refs /\ obj'[o].bare = r.bare
        /\ Counted(obj'[o], Cardinality(Holders(o)'))
        /\ obj'[o].life = "live" <=> r.refs > 0
    <2>1. CASE r.refs > 0
      <3>1. obj'[o] = r
        BY <1>1, <2>1 DEF Becomes, GemInv, Types
      <3> QED
        BY <1>1, <2>1, <3>1 DEF Update
    <2>2. CASE ~(r.refs > 0)
      <3> DEFINE q == [r EXCEPT !.life = "none", !.offset = FALSE, !.imported = FALSE]
      <3>1. obj'[o] = q
        BY <1>1, <2>2 DEF Becomes, GemInv, Types
      <3>2. /\ q.refs = r.refs /\ q.handles = r.handles /\ q.named = r.named
            /\ q.dmabuf = r.dmabuf /\ q.files = r.files /\ q.maps = r.maps
            /\ q.filemaps = r.filemaps /\ q.bare = r.bare /\ q.kept = r.kept
            /\ q.life = "none"
        BY <1>1 DEF ObjRec
      <3> HIDE DEF q
      <3> QED
        BY <2>2, <3>1, <3>2 DEF Update, Counted
    <2> QED
      BY <2>1, <2>2
  <1>6. RefsOK'
    BY <1>4, <1>5 DEF GemInv, RefsOK, Update, Live
  <1>7. CallsOK'
    <2> SUFFICES ASSUME NEW u \in Threads PROVE CallOK(u)'
      BY DEF CallsOK
    <2>1. /\ thread'[u].pc # "idle" => thread'[u].obj \in Objects
          /\ thread'[u].pc \in {"search", "mmap"} => mutex' = u
      BY DEF Update
    <2>2. ASSUME thread'[u].pc = "search"
          PROVE  /\ obj'[thread'[u].obj].life = "making"
                 /\ thread'[u].size \in Sizes
      <3>1. thread'[u] = thread[u]
        BY <1>1, <2>2
      <3>2. /\ thread[u].obj \in Objects /\ thread[u].size \in Sizes
            /\ obj[thread[u].obj].life = "making"
        BY <2>2, <3>1 DEF GemInv, CallsOK, CallOK
      <3>3. thread[u].obj # o
        BY <1>1, <3>2 DEF Live
      <3> QED
        BY <1>4, <3>1, <3>2, <3>3
    <2> QED
      BY <2>1, <2>2 DEF CallOK
  <1>8. BorrowedLive'
    <2> SUFFICES ASSUME CarefulClients, NEW p \in Objects, Borrowed(p)'
                 PROVE  ~misused' /\ Live(p)'
      BY DEF BorrowedLive, GemInv, Update
    <2>1. ~misused /\ (Borrowed(p) => Live(p))
      BY DEF GemInv, BorrowedLive
    <2>2. CASE p # o
      <3>1. Borrowed(p) /\ (Live(p)' <=> Live(p))
        BY <1>4, <2>2 DEF Borrowed, Live, Update
      <3> QED
        BY <2>1, <3>1 DEF Update
    <2>3. CASE p = o
      <3>1. Borrowed(o) \/ r.refs > 0
        BY <1>5, <2>3 DEF Borrowed, Update
      <3>2. r.refs > 0
        BY <1>1, <3>1 DEF Becomes
      <3> QED
        BY <1>5, <2>1, <2>3, <3>2 DEF Live, Update
    <2> QED
      BY <2>2, <2>3
  <1> QED
    BY <1>2, <1>3, <1>6, <1>7, <1>8 DEF GemInv

-----------------------------------------------------------------------------
(* How many calls have a reference on the object: a finite number, which   *)
(* grows and shrinks by one with a call.                                   *)
LEMMA HoldersCount ==
  ASSUME Types, NEW o \in Objects
  PROVE  /\ Cardinality(Holders(o)) \in Nat
         /\ \A t \in Holders(o) : Cardinality(Holders(o)) > 0
         /\ \A t \in Holders(o) :
                Cardinality(Holders(o) \ {t}) = Cardinality(Holders(o)) - 1
         /\ \A t \in Threads \ Holders(o) :
                Cardinality(Holders(o) \cup {t}) = Cardinality(Holders(o)) + 1
  <1>1. IsFiniteSet(Holders(o))
    BY GemAssumption, FS_Subset DEF Holders
  <1>2. \A t \in Holders(o) : Cardinality(Holders(o)) > 0
    <2> SUFFICES ASSUME NEW t \in Holders(o), Cardinality(Holders(o)) = 0 PROVE FALSE
      BY <1>1, FS_CardinalityType
    <2> QED
      BY <1>1, FS_EmptySet
  <1> QED
    BY <1>1, <1>2, FS_CardinalityType, FS_RemoveElement, FS_AddElement

(* What a client can reach has references.                                 *)
LEMMA ReachedIsLive ==
  ASSUME Types, RefsOK, NEW o \in Objects,
         obj[o].handles > 0 \/ obj[o].files > 0 \/ obj[o].maps > 0
           \/ obj[o].filemaps > 0 \/ obj[o].named \/ Holders(o) # {}
  PROVE  Live(o)
  <1>1. obj[o] \in ObjRec /\ Cardinality(Holders(o)) \in Nat
    BY HoldersCount DEF Types
  <1>2. Counted(obj[o], Cardinality(Holders(o))) /\ (Live(o) <=> obj[o].refs > 0)
    BY DEF RefsOK
  <1>3. Holders(o) # {} => Cardinality(Holders(o)) > 0
    BY HoldersCount
  <1>4. obj[o].refs > 0
    BY <1>1, <1>2, <1>3, ReachedHasRefs
  <1> QED
    BY <1>2, <1>4

(* A step that only changes what refers to o, outside of any call.         *)
LEMMA StayStep ==
  ASSUME GemInv, NEW o \in Objects, Live(o), NEW r \in ObjRec,
         r.life = obj[o].life, r.bare = obj[o].bare,
         Counted(r, Cardinality(Holders(o))), Becomes(o, r),
         Stay, UNCHANGED <<build, misused>>, failures' \in Nat
  PROVE  GemInv'
  <1>1. \A p \in Objects : Holders(p)' = Holders(p)
    BY DEF Stay, Holders, Holds
  <1>2. \A u \in Threads : CallOK(u)
    BY DEF GemInv, CallsOK
  <1>3. Update(o, r)
    BY <1>1, <1>2 DEF Update, GemInv, Types, CallOK, Stay, Borrowed, Live
  <1> QED
    BY <1>3, UpdateStep

(* A call that begins with a reference of its own.                         *)
LEMMA BeginStep ==
  ASSUME GemInv, NEW t \in Threads, NEW o \in Objects, Usable(t, o),
         NEW place \in {"close", "flink"}, Becomes(o, Got(obj[o])),
         thread' = [thread EXCEPT ![t] = [Idle EXCEPT !.pc = place, !.obj = o]],
         UNCHANGED mutex, Same
  PROVE  GemInv'
  <1> DEFINE r == Got(obj[o])
             c == [Idle EXCEPT !.pc = place, !.obj = o]
  <1>1. /\ c \in CallRec /\ c.pc = place /\ c.obj = o /\ thread[t].pc = "idle"
        /\ Live(o) /\ obj[o] \in ObjRec
    BY DEF Idle, CallRec, Usable, GemInv, Types
  <1>2. /\ r \in ObjRec /\ r.life = "live" /\ r.refs > 0
        /\ Counted(r, Cardinality(Holders(o)) + 1)
    <2>1. Counted(obj[o], Cardinality(Holders(o))) /\ Cardinality(Holders(o)) \in Nat
      BY HoldersCount DEF GemInv, RefsOK
    <2> QED
      BY <1>1, <2>1, GotCounts DEF Live
  <1> HIDE DEF r, c
  <1>3. /\ thread' \in [Threads -> CallRec] /\ thread'[t] = c
        /\ \A u \in Threads \ {t} : thread'[u] = thread[u]
    BY <1>1 DEF GemInv, Types, c
  <1>4. Holders(o)' = Holders(o) \cup {t} /\ t \notin Holders(o)
    BY <1>1, <1>3 DEF Holders, Holds
  <1>5. \A p \in Objects \ {o} : Holders(p)' = Holders(p)
    BY <1>1, <1>3 DEF Holders, Holds
  <1>6. Cardinality(Holders(o)') = Cardinality(Holders(o)) + 1
    BY <1>4, HoldersCount DEF GemInv
  <1>7. Counted(r, Cardinality(Holders(o)'))
    BY <1>2, <1>6
  <1>8. \A u \in Threads : CallOK(u)
    BY DEF GemInv, CallsOK
  <1>9. Update(o, r)
    <2>1. \A u \in Threads : \/ thread'[u] = thread[u]
                             \/ thread'[u].pc \in {"close", "flink"}
      BY <1>1, <1>3
    <2>2. \A u \in Threads : thread'[u].pc # "idle" => thread'[u].obj \in Objects
      BY <1>1, <1>3, <1>8 DEF CallOK
    <2>3. \A u \in Threads : thread'[u].pc \in {"search", "mmap"} => mutex' = u
      BY <1>1, <1>3, <1>8 DEF CallOK
    <2> QED
      BY <1>1, <1>2, <1>3, <1>5, <1>7, <2>1, <2>2, <2>3
      DEF Update, GemInv, Types, Same, r
  <1> QED
    BY <1>9, UpdateStep

(* A call on o that ends.                                                  *)
LEMMA EndStep ==
  ASSUME GemInv, NEW t \in Threads, NEW o \in Objects, thread[t].obj = o,
         thread[t].pc \in {"close", "flink", "open", "mmap"},
         thread' = [thread EXCEPT ![t] = Idle],
         mutex' = mutex \/ (mutex' = None /\ mutex = t),
         Live(o), NEW r \in ObjRec, r.life = "live", Becomes(o, r),
         r.bare > 0 => Borrowed(o) \/ r.refs > 0,
         Counted(r, Cardinality(Holders(o)) - (IF Holds(t, o) THEN 1 ELSE 0)),
         UNCHANGED <<build, misused>>, failures' \in Nat
  PROVE  GemInv'
  <1>1. Idle \in CallRec /\ Idle.pc = "idle"
    BY DEF Idle, CallRec
  <1>2. /\ thread' \in [Threads -> CallRec] /\ thread'[t] = Idle
        /\ \A u \in Threads \ {t} : thread'[u] = thread[u]
    BY <1>1 DEF GemInv, Types
  <1>3. \A p \in Objects \ {o} : Holders(p)' = Holders(p)
    BY <1>1, <1>2 DEF Holders, Holds
  <1>4. Holders(o)' = Holders(o) \ {t}
    BY <1>1, <1>2 DEF Holders, Holds
  <1>5. Cardinality(Holders(o)') = Cardinality(Holders(o)) - (IF Holds(t, o) THEN 1 ELSE 0)
    <2>1. CASE Holds(t, o)
      <3>1. t \in Holders(o)
        BY <2>1 DEF Holders
      <3> QED
        BY <1>4, <2>1, <3>1, HoldersCount DEF GemInv
    <2>2. CASE ~Holds(t, o)
      <3>1. Holders(o)' = Holders(o)
        BY <1>4, <2>2 DEF Holders
      <3>2. Cardinality(Holders(o)) \in Nat
        BY HoldersCount DEF GemInv
      <3> QED
        BY <2>2, <3>1, <3>2
    <2> QED
      BY <2>1, <2>2
  <1>6. \A u \in Threads : CallOK(u)
    BY DEF GemInv, CallsOK
  <1>7. Update(o, r)
    <2>1. \A u \in Threads : thread'[u] = thread[u] \/ thread'[u].pc = "idle"
      BY <1>1, <1>2
    <2>2. \A u \in Threads : thread'[u].pc # "idle" => thread'[u].obj \in Objects
      BY <1>1, <1>2, <1>6 DEF CallOK
    <2>3. \A u \in Threads : thread'[u].pc \in {"search", "mmap"} => mutex' = u
      BY <1>1, <1>2, <1>6 DEF CallOK
    <2>4. Counted(r, Cardinality(Holders(o)'))
      BY <1>5
    <2> QED
      BY <1>2, <1>3, <2>1, <2>2, <2>3, <2>4 DEF Update
  <1> QED
    BY <1>7, UpdateStep

-----------------------------------------------------------------------------
(* Adding a handle and a reference keeps the equation.                     *)
LEMMA OneMoreHandle ==
  ASSUME NEW q, NEW r, NEW h \in Nat,
         r.refs \in Nat, r.handles \in Nat, r.maps \in Nat, r.filemaps \in Nat,
         r.kept \in Nat, Bit(r.dmabuf) \in Nat,
         r.refs = r.handles + Bit(r.dmabuf) + r.maps + r.filemaps + r.kept + h,
         q.refs = r.refs + 1, q.handles = r.handles + 1, q.maps = r.maps,
         q.filemaps = r.filemaps, q.kept = r.kept, q.dmabuf = r.dmabuf
  PROVE  q.refs = q.handles + Bit(q.dmabuf) + q.maps + q.filemaps + q.kept + h
  OBVIOUS

(* What each operation makes of the references of an object: another       *)
(* handle,                                                                 *)
LEMMA HandleCreatedCounts ==
  ASSUME NEW r \in ObjRec, NEW h \in Nat, Counted(r, h)
  PROVE  LET q == HandleCreated(r)
         IN  /\ q \in ObjRec /\ Counted(q, h) /\ q.life = r.life
             /\ q.bare = r.bare /\ q.refs > 0
  <1> DEFINE q == HandleCreated(r)
  <1>1. r.refs + 1 \in Nat /\ r.handles + 1 \in Nat
    BY DEF Counted, Bit, ObjRec
  <1>2. /\ q \in ObjRec /\ q.refs = r.refs + 1 /\ q.handles = r.handles + 1
        /\ q.named = r.named /\ q.dmabuf = r.dmabuf /\ q.files = r.files
        /\ q.maps = r.maps /\ q.filemaps = r.filemaps /\ q.kept = r.kept
        /\ q.life = r.life /\ q.bare = r.bare
    BY <1>1 DEF HandleCreated, ObjRec
  <1> HIDE DEF q
  <1>3. /\ r.refs \in Nat /\ r.handles \in Nat /\ r.files \in Nat
        /\ r.maps \in Nat /\ r.filemaps \in Nat /\ r.kept \in Nat
        /\ Bit(r.dmabuf) \in Nat
        /\ r.refs = r.handles + Bit(r.dmabuf) + r.maps + r.filemaps + r.kept + h
    BY DEF ObjRec, Bit, Counted
  <1>4. q.refs = q.handles + Bit(q.dmabuf) + q.maps + q.filemaps + q.kept + h
    BY <1>2, <1>3, OneMoreHandle
  <1>5. q.named => q.handles > 0
    BY <1>2, <1>3 DEF Counted
  <1>6. q.files + q.filemaps > 0 => q.dmabuf
    BY <1>2, <1>3 DEF Counted
  <1>7. q.dmabuf => q.files + q.filemaps + q.handles > 0
    BY <1>2, <1>3 DEF Counted
  <1> QED
    BY <1>2, <1>3, <1>4, <1>5, <1>6, <1>7 DEF Counted, q

(* a mapping of its memory,                                                *)
LEMMA MappedCounts ==
  ASSUME NEW r \in ObjRec, NEW h \in Nat, Counted(r, h)
  PROVE  LET q == MappedObj(r)
         IN  /\ q \in ObjRec /\ Counted(q, h) /\ q.life = r.life
             /\ q.bare = r.bare /\ q.refs > 0
  <1> DEFINE q == MappedObj(r)
  <1>1. r.refs + 1 \in Nat /\ r.maps + 1 \in Nat
    BY DEF Counted, Bit, ObjRec
  <1>2. /\ q \in ObjRec /\ q.refs = r.refs + 1 /\ q.handles = r.handles
        /\ q.named = r.named /\ q.dmabuf = r.dmabuf /\ q.files = r.files
        /\ q.maps = r.maps + 1 /\ q.filemaps = r.filemaps /\ q.kept = r.kept
        /\ q.life = r.life /\ q.bare = r.bare
    BY <1>1 DEF MappedObj, Got, ObjRec
  <1> HIDE DEF q
  <1>3. /\ r.refs \in Nat /\ r.handles \in Nat /\ r.files \in Nat
        /\ r.maps \in Nat /\ r.filemaps \in Nat /\ r.kept \in Nat
        /\ Bit(r.dmabuf) \in Nat
        /\ r.refs = r.handles + Bit(r.dmabuf) + r.maps + r.filemaps + r.kept + h
    BY DEF ObjRec, Bit, Counted
  <1>4. q.refs = q.handles + Bit(q.dmabuf) + q.maps + q.filemaps + q.kept + h
    BY <1>2, <1>3
  <1>5. q.named => q.handles > 0
    BY <1>2, <1>3 DEF Counted
  <1>6. q.files + q.filemaps > 0 => q.dmabuf
    BY <1>2, <1>3 DEF Counted
  <1>7. q.dmabuf => q.files + q.filemaps + q.handles > 0
    BY <1>2, <1>3 DEF Counted
  <1> QED
    BY <1>2, <1>3, <1>4, <1>5, <1>6, <1>7 DEF Counted, q

(* one that failed and keeps its reference,                                *)
LEMMA KeptCounts ==
  ASSUME NEW r \in ObjRec, NEW h \in Nat, Counted(r, h)
  PROVE  LET q == [Got(r) EXCEPT !.kept = @ + 1]
         IN  /\ q \in ObjRec /\ Counted(q, h) /\ q.life = r.life
             /\ q.bare = r.bare /\ q.refs > 0
  <1> DEFINE q == [Got(r) EXCEPT !.kept = @ + 1]
  <1>1. r.refs + 1 \in Nat /\ r.kept + 1 \in Nat
    BY DEF Counted, Bit, ObjRec
  <1>2. /\ q \in ObjRec /\ q.refs = r.refs + 1 /\ q.handles = r.handles
        /\ q.named = r.named /\ q.dmabuf = r.dmabuf /\ q.files = r.files
        /\ q.maps = r.maps /\ q.filemaps = r.filemaps /\ q.kept = r.kept + 1
        /\ q.life = r.life /\ q.bare = r.bare
    BY <1>1 DEF Got, ObjRec
  <1> HIDE DEF q
  <1>3. /\ r.refs \in Nat /\ r.handles \in Nat /\ r.files \in Nat
        /\ r.maps \in Nat /\ r.filemaps \in Nat /\ r.kept \in Nat
        /\ Bit(r.dmabuf) \in Nat
        /\ r.refs = r.handles + Bit(r.dmabuf) + r.maps + r.filemaps + r.kept + h
    BY DEF ObjRec, Bit, Counted
  <1>4. q.refs = q.handles + Bit(q.dmabuf) + q.maps + q.filemaps + q.kept + h
    BY <1>2, <1>3
  <1>5. q.named => q.handles > 0
    BY <1>2, <1>3 DEF Counted
  <1>6. q.files + q.filemaps > 0 => q.dmabuf
    BY <1>2, <1>3 DEF Counted
  <1>7. q.dmabuf => q.files + q.filemaps + q.handles > 0
    BY <1>2, <1>3 DEF Counted
  <1> QED
    BY <1>2, <1>3, <1>4, <1>5, <1>6, <1>7 DEF Counted, q

(* a mapping through a file of its dma-buf,                                *)
LEMMA FileMappedCounts ==
  ASSUME NEW r \in ObjRec, NEW h \in Nat, Counted(r, h), r.files > 0
  PROVE  LET q == [Got(r) EXCEPT !.filemaps = @ + 1]
         IN  /\ q \in ObjRec /\ Counted(q, h) /\ q.life = r.life
             /\ q.bare = r.bare /\ q.refs > 0
  <1> DEFINE q == [Got(r) EXCEPT !.filemaps = @ + 1]
  <1>1. r.refs + 1 \in Nat /\ r.filemaps + 1 \in Nat
    BY DEF Counted, Bit, ObjRec
  <1>2. /\ q \in ObjRec /\ q.refs = r.refs + 1 /\ q.handles = r.handles
        /\ q.named = r.named /\ q.dmabuf = r.dmabuf /\ q.files = r.files
        /\ q.maps = r.maps /\ q.filemaps = r.filemaps + 1 /\ q.kept = r.kept
        /\ q.life = r.life /\ q.bare = r.bare
    BY <1>1 DEF Got, ObjRec
  <1> HIDE DEF q
  <1>3. /\ r.refs \in Nat /\ r.handles \in Nat /\ r.files \in Nat
        /\ r.maps \in Nat /\ r.filemaps \in Nat /\ r.kept \in Nat
        /\ Bit(r.dmabuf) \in Nat
        /\ r.refs = r.handles + Bit(r.dmabuf) + r.maps + r.filemaps + r.kept + h
    BY DEF ObjRec, Bit, Counted
  <1>4. q.refs = q.handles + Bit(q.dmabuf) + q.maps + q.filemaps + q.kept + h
    BY <1>2, <1>3
  <1>5. q.named => q.handles > 0
    BY <1>2, <1>3 DEF Counted
  <1>6. q.files + q.filemaps > 0 => q.dmabuf
    BY <1>2, <1>3 DEF Counted
  <1>7. q.dmabuf => q.files + q.filemaps + q.handles > 0
    BY <1>2, <1>3 DEF Counted
  <1> QED
    BY <1>2, <1>3, <1>4, <1>5, <1>6, <1>7 DEF Counted, q

(* a mapping of imported memory, which has none,                           *)
LEMMA BareCounts ==
  ASSUME NEW r \in ObjRec, NEW h \in Nat, Counted(r, h)
  PROVE  LET q == [r EXCEPT !.bare = @ + 1]
         IN  /\ q \in ObjRec /\ Counted(q, h) /\ q.life = r.life
  <1> DEFINE q == [r EXCEPT !.bare = @ + 1]
  <1>2. /\ q \in ObjRec /\ q.refs = r.refs /\ q.handles = r.handles
        /\ q.named = r.named /\ q.dmabuf = r.dmabuf /\ q.files = r.files
        /\ q.maps = r.maps /\ q.filemaps = r.filemaps /\ q.kept = r.kept
        /\ q.life = r.life /\ q.bare = r.bare + 1
    BY DEF ObjRec
  <1> HIDE DEF q
  <1>3. /\ r.refs \in Nat /\ r.handles \in Nat /\ r.files \in Nat
        /\ r.maps \in Nat /\ r.filemaps \in Nat /\ r.kept \in Nat
        /\ Bit(r.dmabuf) \in Nat
        /\ r.refs = r.handles + Bit(r.dmabuf) + r.maps + r.filemaps + r.kept + h
    BY DEF ObjRec, Bit, Counted
  <1>4. q.refs = q.handles + Bit(q.dmabuf) + q.maps + q.filemaps + q.kept + h
    BY <1>2, <1>3
  <1>5. q.named => q.handles > 0
    BY <1>2, <1>3 DEF Counted
  <1>6. q.files + q.filemaps > 0 => q.dmabuf
    BY <1>2, <1>3 DEF Counted
  <1>7. q.dmabuf => q.files + q.filemaps + q.handles > 0
    BY <1>2, <1>3 DEF Counted
  <1> QED
    BY <1>2, <1>4, <1>5, <1>6, <1>7 DEF Counted, q

(* a name,                                                                 *)
LEMMA NamedCounts ==
  ASSUME NEW r \in ObjRec, NEW h \in Nat, Counted(r, h)
  PROVE  LET q == Named(r)
         IN  /\ q \in ObjRec /\ Counted(q, h) /\ q.life = r.life
             /\ q.bare = r.bare
  <1> DEFINE q == Named(r)
  <1>2. /\ q \in ObjRec /\ q.refs = r.refs /\ q.handles = r.handles
        /\ q.dmabuf = r.dmabuf /\ q.files = r.files /\ q.maps = r.maps
        /\ q.filemaps = r.filemaps /\ q.kept = r.kept /\ q.life = r.life
        /\ q.bare = r.bare /\ (q.named => r.named \/ r.handles > 0)
    BY DEF Named, ObjRec
  <1> HIDE DEF q
  <1>3. /\ r.refs \in Nat /\ r.handles \in Nat /\ r.files \in Nat
        /\ r.maps \in Nat /\ r.filemaps \in Nat /\ r.kept \in Nat
        /\ Bit(r.dmabuf) \in Nat
        /\ r.refs = r.handles + Bit(r.dmabuf) + r.maps + r.filemaps + r.kept + h
    BY DEF ObjRec, Bit, Counted
  <1>4. q.refs = q.handles + Bit(q.dmabuf) + q.maps + q.filemaps + q.kept + h
    BY <1>2, <1>3
  <1>5. q.named => q.handles > 0
    BY <1>2, <1>3 DEF Counted
  <1>6. q.files + q.filemaps > 0 => q.dmabuf
    BY <1>2, <1>3 DEF Counted
  <1>7. q.dmabuf => q.files + q.filemaps + q.handles > 0
    BY <1>2, <1>3 DEF Counted
  <1> QED
    BY <1>2, <1>4, <1>5, <1>6, <1>7 DEF Counted, q

(* the end of a mapping,                                                   *)
LEMMA UnmappedCounts ==
  ASSUME NEW r \in ObjRec, NEW h \in Nat, Counted(r, h), r.maps > 0
  PROVE  LET q == [Dropped(r) EXCEPT !.maps = @ - 1]
         IN  /\ q \in ObjRec /\ Counted(q, h) /\ q.life = r.life
             /\ q.bare = r.bare
  <1> DEFINE q == [Dropped(r) EXCEPT !.maps = @ - 1]
  <1>1. r.refs - 1 \in Nat /\ r.maps - 1 \in Nat
    BY DEF Counted, Bit, ObjRec
  <1>2. /\ q \in ObjRec /\ q.refs = r.refs - 1 /\ q.handles = r.handles
        /\ q.named = r.named /\ q.dmabuf = r.dmabuf /\ q.files = r.files
        /\ q.maps = r.maps - 1 /\ q.filemaps = r.filemaps /\ q.kept = r.kept
        /\ q.life = r.life /\ q.bare = r.bare
    BY <1>1 DEF Dropped, ObjRec
  <1> HIDE DEF q
  <1>3. /\ r.refs \in Nat /\ r.handles \in Nat /\ r.files \in Nat
        /\ r.maps \in Nat /\ r.filemaps \in Nat /\ r.kept \in Nat
        /\ Bit(r.dmabuf) \in Nat
        /\ r.refs = r.handles + Bit(r.dmabuf) + r.maps + r.filemaps + r.kept + h
    BY DEF ObjRec, Bit, Counted
  <1>4. q.refs = q.handles + Bit(q.dmabuf) + q.maps + q.filemaps + q.kept + h
    BY <1>2, <1>3
  <1>5. q.named => q.handles > 0
    BY <1>2, <1>3 DEF Counted
  <1>6. q.files + q.filemaps > 0 => q.dmabuf
    BY <1>2, <1>3 DEF Counted
  <1>7. q.dmabuf => q.files + q.filemaps + q.handles > 0
    BY <1>2, <1>3 DEF Counted
  <1> QED
    BY <1>2, <1>4, <1>5, <1>6, <1>7 DEF Counted, q

(* of a file,                                                              *)
LEMMA FileClosedCounts ==
  ASSUME NEW r \in ObjRec, NEW h \in Nat, Counted(r, h), r.files > 0
  PROVE  LET q == Unexport([r EXCEPT !.files = @ - 1])
         IN  /\ q \in ObjRec /\ Counted(q, h) /\ q.life = r.life
             /\ q.bare = r.bare
  <1> DEFINE q == [r EXCEPT !.files = @ - 1]
  <1>1. r.files - 1 \in Nat
    BY DEF Counted, Bit, ObjRec
  <1>2. /\ q \in ObjRec /\ q.refs = r.refs /\ q.handles = r.handles
        /\ q.named = r.named /\ q.dmabuf = r.dmabuf /\ q.files = r.files - 1
        /\ q.maps = r.maps /\ q.filemaps = r.filemaps /\ q.kept = r.kept
        /\ q.life = r.life /\ q.bare = r.bare
    BY <1>1 DEF ObjRec
  <1> HIDE DEF q
  <1>3. /\ r.refs \in Nat /\ r.handles \in Nat /\ r.files \in Nat
        /\ r.maps \in Nat /\ r.filemaps \in Nat /\ r.kept \in Nat
        /\ Bit(r.dmabuf) \in Nat
        /\ r.refs = r.handles + Bit(r.dmabuf) + r.maps + r.filemaps + r.kept + h
    BY DEF ObjRec, Bit, Counted
  <1>4. q.refs = q.handles + Bit(q.dmabuf) + q.maps + q.filemaps + q.kept + h
    BY <1>2, <1>3
  <1>5. q.named => q.handles > 0
    BY <1>2, <1>3 DEF Counted
  <1>6. q.files + q.filemaps > 0 => q.dmabuf
    BY <1>2, <1>3 DEF Counted
  <1> QED
    BY <1>2, <1>4, <1>5, <1>6, UnexportCounts DEF q

(* of a mapping through a file.                                            *)
LEMMA FileUnmappedCounts ==
  ASSUME NEW r \in ObjRec, NEW h \in Nat, Counted(r, h), r.filemaps > 0
  PROVE  LET q == Unexport([Dropped(r) EXCEPT !.filemaps = @ - 1])
         IN  /\ q \in ObjRec /\ Counted(q, h) /\ q.life = r.life
             /\ q.bare = r.bare
  <1> DEFINE q == [Dropped(r) EXCEPT !.filemaps = @ - 1]
  <1>1. r.refs - 1 \in Nat /\ r.filemaps - 1 \in Nat
    BY DEF Counted, Bit, ObjRec
  <1>2. /\ q \in ObjRec /\ q.refs = r.refs - 1 /\ q.handles = r.handles
        /\ q.named = r.named /\ q.dmabuf = r.dmabuf /\ q.files = r.files
        /\ q.maps = r.maps /\ q.filemaps = r.filemaps - 1 /\ q.kept = r.kept
        /\ q.life = r.life /\ q.bare = r.bare
    BY <1>1 DEF Dropped, ObjRec
  <1> HIDE DEF q
  <1>3. /\ r.refs \in Nat /\ r.handles \in Nat /\ r.files \in Nat
        /\ r.maps \in Nat /\ r.filemaps \in Nat /\ r.kept \in Nat
        /\ Bit(r.dmabuf) \in Nat
        /\ r.refs = r.handles + Bit(r.dmabuf) + r.maps + r.filemaps + r.kept + h
    BY DEF ObjRec, Bit, Counted
  <1>4. q.refs = q.handles + Bit(q.dmabuf) + q.maps + q.filemaps + q.kept + h
    BY <1>2, <1>3
  <1>5. q.named => q.handles > 0
    BY <1>2, <1>3 DEF Counted
  <1>6. q.files + q.filemaps > 0 => q.dmabuf
    BY <1>2, <1>3 DEF Counted
  <1> QED
    BY <1>2, <1>4, <1>5, <1>6, UnexportCounts DEF q

(* An export references the object once, for all the files of its dma-buf. *)
LEMMA ExportedCounts ==
  ASSUME NEW r \in ObjRec, NEW h \in Nat, Counted(r, h)
  PROVE  LET q == [Exported(r) EXCEPT !.files = @ + 1]
         IN  /\ q \in ObjRec /\ Counted(q, h) /\ q.life = r.life
             /\ q.bare = r.bare
  <1> DEFINE q == [Exported(r) EXCEPT !.files = @ + 1]
  <1>0. r.refs + 1 \in Nat /\ r.files + 1 \in Nat
    BY DEF ObjRec
  <1>1. /\ q \in ObjRec /\ q.handles = r.handles /\ q.named = r.named
        /\ q.files = r.files + 1 /\ q.maps = r.maps /\ q.filemaps = r.filemaps
        /\ q.kept = r.kept /\ q.life = r.life /\ q.bare = r.bare /\ q.dmabuf = TRUE
        /\ q.refs = r.refs + 1 - Bit(r.dmabuf)
    <2>1. CASE r.dmabuf
      BY <1>0, <2>1 DEF Exported, Bit, ObjRec
    <2>2. CASE ~r.dmabuf
      <3> DEFINE e == [Got(r) EXCEPT !.dmabuf = TRUE]
      <3>1. q = [e EXCEPT !.files = @ + 1] /\ Bit(r.dmabuf) = 0
        BY <2>2 DEF Exported, Bit
      <3>2. /\ e \in ObjRec /\ e.handles = r.handles /\ e.named = r.named
            /\ e.files = r.files /\ e.maps = r.maps /\ e.filemaps = r.filemaps
            /\ e.kept = r.kept /\ e.life = r.life /\ e.bare = r.bare
            /\ e.dmabuf = TRUE /\ e.refs = r.refs + 1
        BY <1>0 DEF Got, ObjRec
      <3> HIDE DEF e, q
      <3> QED
        BY <1>0, <3>1, <3>2 DEF ObjRec
    <2> QED
      BY <2>1, <2>2
  <1> HIDE DEF q
  <1>2. /\ r.refs \in Nat /\ r.handles \in Nat /\ r.files \in Nat /\ r.maps \in Nat
        /\ r.filemaps \in Nat /\ r.kept \in Nat /\ Bit(r.dmabuf) \in Nat
        /\ r.refs = r.handles + Bit(r.dmabuf) + r.maps + r.filemaps + r.kept + h
    BY DEF ObjRec, Bit, Counted
  <1>3. q.refs = q.handles + Bit(q.dmabuf) + q.maps + q.filemaps + q.kept + h
    BY <1>1, <1>2 DEF Bit
  <1>4. q.named => q.handles > 0
    BY <1>1, <1>2 DEF Counted
  <1>5. q.files + q.filemaps + q.handles > 0
    BY <1>1, <1>2
  <1> QED
    BY <1>1, <1>3, <1>4, <1>5 DEF Counted, q

-----------------------------------------------------------------------------
(* The count of an object's references, for the steps.                     *)
LEMMA ObjFacts ==
  ASSUME GemInv, NEW o \in Objects
  PROVE  /\ obj[o] \in ObjRec /\ Cardinality(Holders(o)) \in Nat
         /\ Counted(obj[o], Cardinality(Holders(o)))
         /\ Live(o) <=> obj[o].refs > 0
  BY HoldersCount DEF GemInv, Types, RefsOK

(* Handles, files and mappings, outside of calls that keep a reference.    *)
LEMMA ClientStep ==
  ASSUME GemInv, NEW o \in Objects,
         \/ \E t \in Threads :
               DestroyDumb(t, o) \/ HandleToFd(t, o) \/ FdToHandle(t, o)
                 \/ FdMmap(t, o) \/ FdMmapFails(t, o) \/ MapOffset(t, o)
         \/ CloseFd(o) \/ FdUnmap(o) \/ Unmap(o)
  PROVE  GemInv'
  <1> DEFINE r == obj[o]
             h == Cardinality(Holders(o))
  <1>1. r \in ObjRec /\ h \in Nat /\ Counted(r, h)
    BY ObjFacts
  <1>2. /\ r.handles > 0 \/ r.files > 0 \/ r.maps > 0 \/ r.filemaps > 0 => Live(o)
        /\ failures \in Nat /\ failures + 1 \in Nat
    BY ReachedIsLive DEF GemInv, Types
  <1> HIDE DEF r, h
  <1>3. ASSUME NEW q \in ObjRec, q.life = r.life, q.bare = r.bare, Counted(q, h),
               Live(o), Becomes(o, q), Stay, UNCHANGED <<build, misused>>,
               failures' \in Nat
        PROVE  GemInv'
    BY <1>3, StayStep DEF r, h
  <1>4. CASE \E t \in Threads : DestroyDumb(t, o)
    <2>1. /\ r.handles > 0 /\ Becomes(o, HandleDeleted(r)) /\ Stay /\ Same
      BY <1>4 DEF DestroyDumb, Usable, r
    <2> QED
      BY <1>1, <1>2, <1>3, <2>1, HandleDeletedCounts DEF Same
  <1>5. CASE \E t \in Threads : HandleToFd(t, o)
    <2>1. /\ r.handles > 0 /\ Stay /\ Same
          /\ Becomes(o, [Exported(r) EXCEPT !.files = @ + 1])
      BY <1>5 DEF HandleToFd, Usable, r
    <2> QED
      BY <1>1, <1>2, <1>3, <2>1, ExportedCounts DEF Same
  <1>6. CASE \E t \in Threads : FdToHandle(t, o)
    <2>1. r.files > 0 /\ Stay /\ Same /\ Becomes(o, HandleCreated(r))
      BY <1>6 DEF FdToHandle, r
    <2> QED
      BY <1>1, <1>2, <1>3, <2>1, HandleCreatedCounts DEF Same
  <1>7. CASE \E t \in Threads : FdMmap(t, o)
    <2>1. /\ r.files > 0 /\ Stay /\ Same
          /\ Becomes(o, [Got(r) EXCEPT !.filemaps = @ + 1])
      BY <1>7 DEF FdMmap, r
    <2> QED
      BY <1>1, <1>2, <1>3, <2>1, FileMappedCounts DEF Same
  <1>8. CASE \E t \in Threads : FdMmapFails(t, o)
    <2>1. /\ r.files > 0 /\ Stay /\ UNCHANGED <<build, misused>>
          /\ failures' = failures + 1
          /\ Becomes(o, [Got(r) EXCEPT !.kept = @ + 1])
      BY <1>8 DEF FdMmapFails, r
    <2> QED
      BY <1>1, <1>2, <1>3, <2>1, KeptCounts
  <1>9. CASE \E t \in Threads : MapOffset(t, o)
    <2> DEFINE q == [r EXCEPT !.offset = TRUE]
    <2>1. /\ Live(o) /\ Stay /\ Same /\ NoMemChange
          /\ obj' = [obj EXCEPT ![o] = q]
      BY <1>9 DEF MapOffset, Usable, r
    <2>2. /\ q \in ObjRec /\ q.refs = r.refs /\ q.handles = r.handles
          /\ q.named = r.named /\ q.dmabuf = r.dmabuf /\ q.files = r.files
          /\ q.maps = r.maps /\ q.filemaps = r.filemaps /\ q.kept = r.kept
          /\ q.life = r.life /\ q.bare = r.bare
      BY <1>1 DEF ObjRec
    <2> HIDE DEF q
    <2>3. Counted(q, h)
      BY <1>1, <2>2 DEF Counted
    <2>4. r.refs > 0
      BY <2>1, ObjFacts DEF r
    <2>5. Becomes(o, q)
      BY <2>1, <2>2, <2>4 DEF Becomes, NoMemChange
    <2> QED
      BY <1>2, <1>3, <2>1, <2>2, <2>3, <2>5 DEF Same
  <1>10. CASE CloseFd(o)
    <2>1. /\ r.files > 0 /\ Stay /\ Same
          /\ Becomes(o, Unexport([r EXCEPT !.files = @ - 1]))
      BY <1>10 DEF CloseFd, r
    <2> QED
      BY <1>1, <1>2, <1>3, <2>1, FileClosedCounts DEF Same
  <1>11. CASE FdUnmap(o)
    <2>1. /\ r.filemaps > 0 /\ Stay /\ Same
          /\ Becomes(o, Unexport([Dropped(r) EXCEPT !.filemaps = @ - 1]))
      BY <1>11 DEF FdUnmap, r
    <2> QED
      BY <1>1, <1>2, <1>3, <2>1, FileUnmappedCounts DEF Same
  <1>12. CASE Unmap(o)
    <2>1. /\ r.maps > 0 /\ Stay /\ Same
          /\ Becomes(o, [Dropped(r) EXCEPT !.maps = @ - 1])
      BY <1>12 DEF Unmap, r
    <2> QED
      BY <1>1, <1>2, <1>3, <2>1, UnmappedCounts DEF Same
  <1> QED
    BY <1>4, <1>5, <1>6, <1>7, <1>8, <1>9, <1>10, <1>11, <1>12

(* The second half of a call that keeps a reference in between.            *)
LEMMA CallEndStep ==
  ASSUME GemInv, NEW t \in Threads, GemCloseDelete(t) \/ FlinkName(t)
  PROVE  GemInv'
  <1> DEFINE o == thread[t].obj
             r == obj[o]
             h == Cardinality(Holders(o))
  <1>1. thread[t].pc \in {"close", "flink"} /\ thread' = [thread EXCEPT ![t] = Idle]
        /\ UNCHANGED mutex /\ Same
    BY DEF GemCloseDelete, FlinkName
  <1>2. o \in Objects
    BY <1>1 DEF GemInv, CallsOK, CallOK
  <1>3. t \in Holders(o) /\ Holds(t, o)
    BY <1>1 DEF Holders, Holds
  <1>4. /\ r \in ObjRec /\ h \in Nat /\ Counted(r, h) /\ h > 0
        /\ Live(o) /\ r.life = "live"
    BY <1>2, <1>3, ObjFacts, HoldersCount, ReachedIsLive DEF GemInv, Live
  <1>5. \E q \in ObjRec : /\ Counted(q, h) /\ q.life = "live" /\ q.bare = r.bare
                          /\ Becomes(o, Dropped(q))
    <2>1. CASE GemCloseDelete(t)
      <3>1. Becomes(o, Dropped(IF r.handles > 0 THEN HandleDeleted(r) ELSE r))
        BY <2>1 DEF GemCloseDelete
      <3> HIDE DEF o, r, h
      <3>2. CASE r.handles > 0
        BY <1>4, <3>1, <3>2, HandleDeletedCounts
      <3>3. CASE ~(r.handles > 0)
        BY <1>4, <3>1, <3>3
      <3> QED
        BY <3>2, <3>3
    <2>2. CASE FlinkName(t)
      <3>1. Becomes(o, Dropped(Named(r)))
        BY <2>2 DEF FlinkName
      <3> HIDE DEF o, r, h
      <3> QED
        BY <1>4, <3>1, NamedCounts
    <2> QED
      BY <2>1, <2>2
  <1>6. PICK q \in ObjRec : /\ Counted(q, h) /\ q.life = "live" /\ q.bare = r.bare
                            /\ Becomes(o, Dropped(q))
    BY <1>5
  <1>7. /\ Dropped(q) \in ObjRec /\ Counted(Dropped(q), h - 1)
        /\ Dropped(q).life = "live" /\ Dropped(q).bare = r.bare
    BY <1>4, <1>6, DroppedCounts
  <1>8. Dropped(q).bare > 0 => Borrowed(o)
    BY <1>7 DEF Borrowed
  <1>9. failures' \in Nat /\ UNCHANGED <<build, misused>>
    BY <1>1 DEF Same, GemInv, Types
  <1>10. Counted(Dropped(q), h - (IF Holds(t, o) THEN 1 ELSE 0))
    BY <1>3, <1>7
  <1> HIDE DEF r
  <1> QED
    BY <1>1, <1>2, <1>4, <1>6, <1>7, <1>8, <1>9, <1>10, EndStep

(* A step that changes no object, but where a thread is; if the thread has *)
(* met a freed object, clients are not careful.                            *)
LEMMA LookStep ==
  ASSUME GemInv, NEW t \in Threads, NEW c \in CallRec,
         UNCHANGED <<build, obj, mem, used, reserved>>,
         thread' = [thread EXCEPT ![t] = c],
         thread[t].pc \notin {"close", "flink"}, c.pc \in {"idle", "open", "mmap"},
         c.pc # "idle" => c.obj \in Objects /\ Live(c.obj),
         \/ mutex' = mutex /\ c.pc # "mmap"
         \/ mutex = None /\ mutex' = t
         \/ mutex = t /\ mutex' = None /\ c.pc = "idle",
         \/ UNCHANGED misused
         \/ misused' = TRUE /\ thread[t].pc \in {"open", "mmap"} /\ ~Live(thread[t].obj),
         failures' \in Nat
  PROVE  GemInv'
  <1>1. /\ thread' \in [Threads -> CallRec] /\ thread'[t] = c
        /\ \A u \in Threads \ {t} : thread'[u] = thread[u]
    BY DEF GemInv, Types
  <1>2. \A u \in Threads : CallOK(u)
    BY DEF GemInv, CallsOK
  <1>3. Types'
    BY <1>1 DEF GemInv, Types
  <1>4. CallsOK'
    <2> SUFFICES ASSUME NEW u \in Threads PROVE CallOK(u)'
      BY DEF CallsOK
    <2>1. CASE u = t
      BY <1>1, <2>1 DEF CallOK
    <2>2. CASE u # t
      <3>1. thread[u].pc \in {"search", "mmap"} => mutex = u
        BY <1>2 DEF CallOK
      <3>2. None # u
        BY GemAssumption
      <3> QED
        BY <1>1, <1>2, <2>2, <3>1, <3>2 DEF CallOK
    <2> QED
      BY <2>1, <2>2
  <1>5. \A p \in Objects : Holders(p)' = Holders(p)
    BY <1>1 DEF Holders, Holds
  <1>6. RefsOK'
    BY <1>5 DEF GemInv, RefsOK, Live
  <1>7. BorrowedLive'
    <2> SUFFICES ASSUME CarefulClients
                 PROVE  ~misused' /\ \A p \in Objects : Borrowed(p)' => Live(p)'
      BY DEF BorrowedLive
    <2>1. ~misused /\ \A p \in Objects : Borrowed(p) => Live(p)
      BY DEF GemInv, BorrowedLive
    <2>2. thread[t].pc \in {"open", "mmap"} => Live(thread[t].obj)
      BY <1>2, <2>1 DEF CallOK, Borrowed
    <2>3. ASSUME NEW p \in Objects, Borrowed(p)' PROVE Live(p)'
      <3>1. CASE c.pc \in {"open", "mmap"} /\ c.obj = p
        BY <3>1 DEF Live
      <3>2. CASE ~(c.pc \in {"open", "mmap"} /\ c.obj = p)
        <4>1. Borrowed(p)
          BY <1>1, <2>3, <3>2 DEF Borrowed
        <4> QED
          BY <2>1, <4>1 DEF Live
      <3> QED
        BY <3>1, <3>2
    <2> QED
      BY <2>1, <2>2, <2>3
  <1>8. OwnersLive' /\ PoolOK' /\ ChunksOK'
    BY DEF GemInv, OwnersLive, PoolOK, ChunksOK, InChunks, Live
  <1>9. SearchPast'
    BY <1>1 DEF GemInv, SearchPast, InChunks
  <1> QED
    BY <1>3, <1>4, <1>6, <1>7, <1>8, <1>9 DEF GemInv

(* A name, or a mapping offset, is looked up.                              *)
LEMMA FindStep ==
  ASSUME GemInv, NEW t \in Threads, NEW o \in Objects,
         OpenFind(t, o) \/ MmapLookup(t, o)
  PROVE  GemInv'
  <1>1. Live(o)
    BY ReachedIsLive DEF OpenFind, MmapLookup, GemInv
  <1>2. failures' \in Nat /\ thread[t].pc = "idle"
    BY DEF OpenFind, MmapLookup, Same, GemInv, Types
  <1>3. CASE OpenFind(t, o)
    <2> DEFINE c == [Idle EXCEPT !.pc = "open", !.obj = o]
    <2>1. c \in CallRec /\ c.pc = "open" /\ c.obj = o
      BY DEF Idle, CallRec
    <2>2. /\ thread' = [thread EXCEPT ![t] = c]
          /\ UNCHANGED <<build, obj, mem, used, reserved, misused, mutex>>
      BY <1>3 DEF OpenFind, NoMemChange, Same
    <2> QED
      BY <1>1, <1>2, <2>1, <2>2, LookStep
  <1>4. CASE MmapLookup(t, o)
    <2> DEFINE c == [Idle EXCEPT !.pc = "mmap", !.obj = o]
    <2>1. c \in CallRec /\ c.pc = "mmap" /\ c.obj = o
      BY DEF Idle, CallRec
    <2>2. /\ thread' = [thread EXCEPT ![t] = c] /\ mutex = None /\ mutex' = t
          /\ UNCHANGED <<build, obj, mem, used, reserved, misused>>
      BY <1>4 DEF MmapLookup, NoMemChange, Same
    <2> QED
      BY <1>1, <1>2, <2>1, <2>2, LookStep
  <1> QED
    BY <1>3, <1>4

(* What was looked up without a reference is used.                         *)
LEMMA UseStep ==
  ASSUME GemInv, NEW t \in Threads, NEW fails \in BOOLEAN,
         OpenRef(t) \/ MmapUse(t, fails)
  PROVE  GemInv'
  <1> DEFINE o == thread[t].obj
             r == obj[o]
             h == Cardinality(Holders(o))
  <1>1. thread[t].pc \in {"open", "mmap"} /\ thread' = [thread EXCEPT ![t] = Idle]
    BY DEF OpenRef, MmapUse
  <1>2. /\ o \in Objects /\ (thread[t].pc = "mmap" => mutex = t)
        /\ ~Holds(t, o) /\ failures \in Nat
    BY <1>1 DEF GemInv, CallsOK, CallOK, Holds, Types
  <1>3. r \in ObjRec /\ h \in Nat /\ Counted(r, h) /\ (Live(o) <=> r.refs > 0)
    BY <1>2, ObjFacts
  <1>4. Idle \in CallRec /\ Idle.pc = "idle"
    BY DEF Idle, CallRec
  <1>5. /\ UNCHANGED build /\ failures' \in Nat
        /\ mutex' = mutex \/ (mutex' = None /\ mutex = t)
    BY <1>1, <1>2 DEF OpenRef, MmapUse
  <1>6. CASE /\ UNCHANGED obj /\ NoMemChange
             /\ UNCHANGED misused \/ (misused' = TRUE /\ ~Live(o))
    <2> HIDE DEF r, h
    <2> QED
      BY <1>1, <1>4, <1>5, <1>6, LookStep DEF NoMemChange
  <1>7. ASSUME NEW q \in ObjRec, q.life = r.life, q.bare = r.bare \/ q.refs > 0,
               Counted(q, h), Live(o), Becomes(o, q), UNCHANGED misused
        PROVE  GemInv'
    <2>1. q.bare > 0 => Borrowed(o) \/ q.refs > 0
      BY <1>7 DEF Borrowed
    <2>2. q.life = "live" /\ h - 0 = h
      BY <1>3, <1>7 DEF Live
    <2>3. Counted(q, h - (IF Holds(t, o) THEN 1 ELSE 0))
      BY <1>2, <1>7, <2>2
    <2> HIDE DEF r
    <2> QED
      BY <1>1, <1>2, <1>5, <1>7, <2>1, <2>2, <2>3, EndStep
  <1>8. \/ /\ UNCHANGED obj /\ NoMemChange
           /\ UNCHANGED misused \/ (misused' = TRUE /\ ~Live(o))
        \/ /\ Live(o) /\ UNCHANGED misused
           /\ \/ Becomes(o, HandleCreated(r))
              \/ Becomes(o, [r EXCEPT !.bare = @ + 1])
              \/ Becomes(o, [Got(r) EXCEPT !.kept = @ + 1])
              \/ Becomes(o, MappedObj(r))
    <2>1. CASE OpenRef(t)
      BY <2>1 DEF OpenRef
    <2>2. CASE MmapUse(t, fails)
      BY <2>2 DEF MmapUse
    <2> QED
      BY <2>1, <2>2
  <1>9. CASE Live(o) /\ UNCHANGED misused /\ Becomes(o, HandleCreated(r))
    <2> HIDE DEF o, r, h
    <2> QED
      BY <1>3, <1>7, <1>9, HandleCreatedCounts
  <1>10. CASE /\ Live(o) /\ UNCHANGED misused
              /\ Becomes(o, [r EXCEPT !.bare = @ + 1])
    <2> DEFINE q == [r EXCEPT !.bare = @ + 1]
    <2> HIDE DEF o, r, h
    <2>1. /\ q \in ObjRec /\ Counted(q, h) /\ q.life = r.life
          /\ q.refs = r.refs
      BY <1>3, BareCounts DEF ObjRec
    <2> HIDE DEF q
    <2> QED
      BY <1>3, <1>7, <1>10, <2>1 DEF q
  <1>11. CASE /\ Live(o) /\ UNCHANGED misused
              /\ Becomes(o, [Got(r) EXCEPT !.kept = @ + 1])
    <2> HIDE DEF o, r, h
    <2> QED
      BY <1>3, <1>7, <1>11, KeptCounts
  <1>12. CASE Live(o) /\ UNCHANGED misused /\ Becomes(o, MappedObj(r))
    <2> HIDE DEF o, r, h
    <2> QED
      BY <1>3, <1>7, <1>12, MappedCounts
  <1> QED
    BY <1>6, <1>8, <1>9, <1>10, <1>11, <1>12

(* A mapping without a reference ends.                                     *)
LEMMA UnmapBareStep ==
  ASSUME GemInv, NEW o \in Objects, UnmapBare(o)
  PROVE  GemInv'
  <1> DEFINE r == obj[o]
             q == [r EXCEPT !.bare = @ - 1]
  <1>1. /\ r.bare > 0 /\ obj' = [obj EXCEPT ![o] = q]
        /\ NoMemChange /\ Stay /\ Same
    BY DEF UnmapBare
  <1>2. r \in ObjRec
    BY DEF GemInv, Types
  <1> HIDE DEF r
  <1>3. r.bare - 1 \in Nat
    BY <1>1, <1>2 DEF ObjRec
  <1>4. /\ q \in ObjRec /\ q.refs = r.refs /\ q.handles = r.handles
        /\ q.named = r.named /\ q.dmabuf = r.dmabuf /\ q.files = r.files
        /\ q.maps = r.maps /\ q.filemaps = r.filemaps /\ q.kept = r.kept
        /\ q.life = r.life /\ q.bare = r.bare - 1
    BY <1>2, <1>3 DEF ObjRec
  <1> HIDE DEF q
  <1>5. /\ obj' \in [Objects -> ObjRec] /\ obj'[o] = q
        /\ \A p \in Objects \ {o} : obj'[p] = obj[p]
    BY <1>1, <1>4 DEF GemInv, Types
  <1>6. \A p \in Objects : Live(p)' <=> Live(p)
    BY <1>4, <1>5 DEF Live, r
  <1>7. \A p \in Objects : Borrowed(p)' => Borrowed(p)
    BY <1>1, <1>4, <1>5 DEF Borrowed, Stay, r
  <1>8. \A p \in Objects : Holders(p)' = Holders(p)
    BY <1>1 DEF Holders, Holds, Stay
  <1>9. \A p \in Objects : /\ Counted(obj[p], Cardinality(Holders(p)))
                                => Counted(obj'[p], Cardinality(Holders(p)))
                           /\ obj'[p].refs = obj[p].refs
                           /\ obj'[p].life = obj[p].life
    BY <1>4, <1>5 DEF Counted, r
  <1>10. Types'
    BY <1>1, <1>5 DEF GemInv, Types, NoMemChange, Stay, Same
  <1>11. CallsOK'
    BY <1>1, <1>9 DEF GemInv, CallsOK, CallOK, Stay
  <1>12. RefsOK'
    BY <1>6, <1>8, <1>9 DEF GemInv, RefsOK
  <1>13. BorrowedLive'
    BY <1>1, <1>6, <1>7 DEF GemInv, BorrowedLive, Same
  <1>14. OwnersLive' /\ PoolOK' /\ ChunksOK' /\ SearchPast'
    BY <1>1, <1>6 DEF GemInv, OwnersLive, PoolOK, ChunksOK, SearchPast, InChunks,
                      NoMemChange, Stay
  <1> QED
    BY <1>10, <1>11, <1>12, <1>13, <1>14 DEF GemInv

-----------------------------------------------------------------------------
(* A set of natural numbers that is not empty has a least element.         *)
LEMMA NatSetHasMin ==
  ASSUME NEW S \in SUBSET Nat, S # {}
  PROVE  \E m \in S : \A n \in S : m <= n
  <1> DEFINE Less == {ss \in Nat \X Nat : ss[1] < ss[2]}
  <1>1. IsWellFoundedOn(Less, Nat)
    BY NatLessThanWellFounded DEF OpToRel
  <1>2. \A m, n \in Nat : n < m => <<n, m>> \in Less
    OBVIOUS
  <1> HIDE DEF Less
  <1>3. PICK m \in S : \A n \in S : <<n, m>> \notin Less
    BY <1>1, WFMin
  <1>4. \A n \in S : n \in Nat /\ m \in Nat /\ ~(n < m)
    BY <1>2, <1>3
  <1>5. ASSUME NEW n \in S PROVE m <= n
    <2>1. n \in Nat /\ m \in Nat /\ ~(n < m)
      BY <1>4
    <2> QED
      BY <2>1
  <1> QED
    BY <1>5

(* The first of a set of blocks or chunks is one of them.                  *)
LEMMA MinIsFirst ==
  ASSUME NEW S \in SUBSET Nat, S # {}
  PROVE  Min(S) \in S /\ \A n \in S : Min(S) <= n
  BY NatSetHasMin DEF Min

(* A new object: its one reference is its handle's.                        *)
LEMMA NewObject ==
  ASSUME GemInv, NEW o \in Objects, obj[o].life # "live",
         NEW r \in {Imported, [HandleCreated(Unborn) EXCEPT !.life = "live"]},
         obj' = [obj EXCEPT ![o] = r],
         \A p \in Objects : Holders(p)' = Holders(p),
         \A u \in Threads : thread'[u] = thread[u] \/ thread'[u].pc = "idle",
         \A u \in Threads : thread'[u].pc \in {"search", "mmap"} => mutex' = u,
         \A u \in Threads : thread[u].pc = "search" /\ thread[u].obj = o =>
             thread'[u].pc = "idle",
         UNCHANGED misused
  PROVE  /\ obj' \in [Objects -> ObjRec] /\ RefsOK' /\ CallsOK' /\ BorrowedLive'
         /\ Live(o)' /\ \A p \in Objects : Live(p) => Live(p)'
  <1>1. /\ r \in ObjRec /\ r.refs = 1 /\ r.handles = 1 /\ r.named = FALSE
        /\ r.dmabuf = FALSE /\ r.files = 0 /\ r.maps = 0 /\ r.filemaps = 0
        /\ r.kept = 0 /\ r.life = "live" /\ r.bare = 0
    <2> DEFINE u == HandleCreated(Unborn)
    <2>1. /\ u \in ObjRec /\ u.refs = 1 /\ u.handles = 1 /\ u.named = FALSE
          /\ u.dmabuf = FALSE /\ u.files = 0 /\ u.maps = 0 /\ u.filemaps = 0
          /\ u.kept = 0 /\ u.bare = 0
      <3> DEFINE w == Unborn
      <3>1. /\ w \in ObjRec /\ w.refs = 0 /\ w.handles = 0 /\ w.named = FALSE
            /\ w.dmabuf = FALSE /\ w.files = 0 /\ w.maps = 0 /\ w.filemaps = 0
            /\ w.kept = 0 /\ w.bare = 0
        BY DEF Unborn, ObjRec
      <3>2. u = [w EXCEPT !.handles = 1, !.refs = 1]
        BY <3>1 DEF HandleCreated
      <3> HIDE DEF w, u
      <3> QED
        BY <3>1, <3>2 DEF ObjRec
    <2>2. r = [u EXCEPT !.life = "live"] \/ r = [u EXCEPT !.life = "live", !.imported = TRUE]
      BY DEF Imported
    <2> HIDE DEF u
    <2>3. CASE r = [u EXCEPT !.life = "live"]
      BY <2>1, <2>3 DEF ObjRec
    <2>4. CASE r = [u EXCEPT !.life = "live", !.imported = TRUE]
      BY <2>1, <2>4 DEF ObjRec
    <2> QED
      BY <2>2, <2>3, <2>4
  <1>2. /\ obj' \in [Objects -> ObjRec] /\ obj'[o] = r
        /\ \A p \in Objects \ {o} : obj'[p] = obj[p]
    BY <1>1 DEF GemInv, Types
  <1>3. Cardinality(Holders(o)) = 0
    <2>1. /\ Counted(obj[o], Cardinality(Holders(o))) /\ ~(obj[o].refs > 0)
          /\ Cardinality(Holders(o)) \in Nat /\ obj[o] \in ObjRec
      BY ObjFacts DEF Live
    <2> QED
      BY <2>1, ReachedHasRefs
  <1>4. RefsOK'
    <2>1. Counted(r, 0)
      BY <1>1 DEF Counted, Bit
    <2> QED
      BY <1>1, <1>2, <1>3, <2>1 DEF GemInv, RefsOK, Live
  <1>5. Live(o)' /\ \A p \in Objects : Live(p) => Live(p)'
    BY <1>1, <1>2 DEF Live
  <1>6. CallsOK'
    BY <1>2 DEF GemInv, CallsOK, CallOK
  <1>7. BorrowedLive'
    <2> SUFFICES ASSUME CarefulClients, NEW p \in Objects, Borrowed(p)'
                 PROVE  Live(p)'
      BY DEF GemInv, BorrowedLive
    <2>1. CASE p = o
      BY <1>5, <2>1
    <2>2. CASE p # o
      <3>1. Borrowed(p)
        BY <1>2, <2>2 DEF Borrowed
      <3> QED
        BY <1>5, <3>1 DEF GemInv, BorrowedLive
    <2> QED
      BY <2>1, <2>2
  <1> QED
    BY <1>2, <1>4, <1>5, <1>6, <1>7

(* An imported object.                                                     *)
LEMMA ImportStep ==
  ASSUME GemInv, NEW t \in Threads, NEW o \in Objects, Import(t, o)
  PROVE  GemInv'
  <1>1. /\ obj' = [obj EXCEPT ![o] = Imported] /\ NoMemChange /\ Stay /\ Same
        /\ obj[o].life = "none" /\ \A u \in Threads : thread[u].obj # o
    BY DEF Import, Free
  <1>2. \A p \in Objects : Holders(p)' = Holders(p)
    BY <1>1 DEF Holders, Holds, Stay
  <1>3. \A u \in Threads : thread'[u].pc \in {"search", "mmap"} => mutex' = u
    BY <1>1 DEF GemInv, CallsOK, CallOK, Stay
  <1>4. /\ obj' \in [Objects -> ObjRec] /\ RefsOK' /\ CallsOK' /\ BorrowedLive'
        /\ \A p \in Objects : Live(p) => Live(p)'
    BY <1>1, <1>2, <1>3, NewObject DEF Stay, Same
  <1>5. OwnersLive' /\ PoolOK' /\ ChunksOK' /\ SearchPast'
    BY <1>1, <1>4 DEF GemInv, OwnersLive, PoolOK, ChunksOK, SearchPast, InChunks,
                      NoMemChange, Stay
  <1>6. Types'
    BY <1>1, <1>4 DEF GemInv, Types, NoMemChange, Stay, Same
  <1> QED
    BY <1>4, <1>5, <1>6 DEF GemInv

(* An object that is created with a block of the pool or DMA memory, or    *)
(* whose chunks are about to be searched for.                              *)
LEMMA DumbCreateStep ==
  ASSUME GemInv, NEW t \in Threads, NEW o \in Objects, NEW n \in Sizes,
         DumbCreate(t, o, n)
  PROVE  GemInv'
  <1> DEFINE new == [HandleCreated(Unborn) EXCEPT !.life = "live"]
             b == Min(PoolBlocksFor(n))
  <1>1. /\ obj[o].life = "none" /\ \A u \in Threads : thread[u].obj # o
        /\ mutex = None /\ Same /\ thread[t].pc = "idle"
    BY DEF DumbCreate, Free
  <1>2. \A u \in Threads : thread[u].pc \notin {"search", "mmap"}
    BY <1>1, GemAssumption DEF GemInv, CallsOK, CallOK
  <1>3. /\ mem[o] = NoMem /\ NoMem.kind = "none" /\ n \in Nat
        /\ Blocks \subseteq Nat
    BY <1>1, GemAssumption DEF GemInv, OwnersLive, Live, NoMem, Blocks
  <1>4. ASSUME NEW m \in MemRec, m.kind \in {"pool", "dma"},
               Created(o, m), Stay, UNCHANGED reserved,
               used' = IF m.kind = "pool" THEN used \cup {m.at} ELSE used,
               m.kind = "pool" => m.at \in Blocks \ used
        PROVE  GemInv'
    <2>1. /\ mem' = [mem EXCEPT ![o] = m] /\ obj' = [obj EXCEPT ![o] = new]
      BY <1>4 DEF Created
    <2>2. \A p \in Objects : Holders(p)' = Holders(p)
      BY <1>4 DEF Holders, Holds, Stay
    <2>3. \A u \in Threads : thread'[u].pc \in {"search", "mmap"} => mutex' = u
      BY <1>2, <1>4 DEF Stay
    <2>4. /\ obj' \in [Objects -> ObjRec] /\ RefsOK' /\ CallsOK' /\ BorrowedLive'
          /\ Live(o)' /\ \A p \in Objects : Live(p) => Live(p)'
      BY <1>1, <1>4, <2>1, <2>2, <2>3, NewObject DEF Stay, Same
    <2>5. /\ mem' \in [Objects -> MemRec] /\ mem'[o] = m
          /\ \A p \in Objects \ {o} : mem'[p] = mem[p]
      BY <2>1 DEF GemInv, Types
    <2>6. OwnersLive'
      BY <1>4, <2>4, <2>5 DEF GemInv, OwnersLive
    <2>7. PoolOK' /\ used' \subseteq Blocks
      <3>1. \A p \in Objects \ {o} : mem[p].kind = "pool" => mem[p].at \in used
        BY DEF GemInv, PoolOK
      <3>2. CASE m.kind = "pool"
        BY <1>3, <1>4, <2>5, <3>1, <3>2 DEF GemInv, PoolOK, Types
      <3>3. CASE m.kind # "pool"
        BY <1>3, <1>4, <2>5, <3>3 DEF GemInv, PoolOK, Types
      <3> QED
        BY <3>2, <3>3
    <2>8. \A p \in Objects : InChunks(p)' <=> InChunks(p) /\ p # o
      BY <1>3, <1>4, <2>5 DEF InChunks
    <2>9. ~InChunks(o)
      BY <1>3 DEF InChunks
    <2>10. ChunksOK'
      BY <1>4, <2>5, <2>8, <2>9 DEF GemInv, ChunksOK
    <2>11. SearchPast'
      BY <1>2, <1>4 DEF SearchPast, Stay
    <2>12. Types'
      BY <1>1, <1>4, <2>4, <2>5, <2>7 DEF GemInv, Types, Stay, Same
    <2> QED
      BY <2>4, <2>6, <2>7, <2>10, <2>11, <2>12 DEF GemInv
  <1>5. CASE PoolBlocksFor(n) # {}
    <2> DEFINE m == [kind |-> "pool", at |-> b, n |-> n]
    <2>1. b \in Blocks \ used
      BY <1>3, <1>5, MinIsFirst DEF PoolBlocksFor
    <2>2. Created(o, m) /\ used' = used \cup {b} /\ UNCHANGED reserved /\ Stay
      BY <1>5 DEF DumbCreate
    <2>3. m \in MemRec /\ m.kind = "pool" /\ m.at = b
      BY <1>3, <2>1 DEF MemRec
    <2> HIDE DEF b, m
    <2> QED
      BY <1>4, <2>1, <2>2, <2>3
  <1>6. CASE PoolBlocksFor(n) = {} /\ build = "dma"
    <2> DEFINE m == [kind |-> "dma", at |-> 0, n |-> n]
    <2>1. Created(o, m) /\ UNCHANGED <<used, reserved>> /\ Stay
      BY <1>6 DEF DumbCreate
    <2>2. m \in MemRec /\ m.kind = "dma"
      BY <1>3 DEF MemRec
    <2> HIDE DEF m
    <2> QED
      BY <1>4, <2>1, <2>2
  <1>7. CASE PoolBlocksFor(n) = {} /\ build # "dma"
    <2> DEFINE c == [pc |-> "search", obj |-> o, size |-> n, at |-> 0]
               r == [obj[o] EXCEPT !.life = "making"]
    <2>1. /\ thread' = [thread EXCEPT ![t] = c] /\ mutex' = t
          /\ obj' = [obj EXCEPT ![o] = r] /\ NoMemChange
      BY <1>7 DEF DumbCreate
    <2>2. c \in CallRec /\ c.pc = "search" /\ c.obj = o /\ c.size = n /\ c.at = 0
      BY <1>3 DEF CallRec
    <2> HIDE DEF c
    <2>3. obj[o] \in ObjRec
      BY DEF GemInv, Types
    <2>4. /\ r \in ObjRec /\ r.refs = obj[o].refs /\ r.handles = obj[o].handles
          /\ r.named = obj[o].named /\ r.dmabuf = obj[o].dmabuf
          /\ r.files = obj[o].files /\ r.maps = obj[o].maps
          /\ r.filemaps = obj[o].filemaps /\ r.kept = obj[o].kept
          /\ r.bare = obj[o].bare /\ r.life = "making"
      BY <2>3 DEF ObjRec
    <2> HIDE DEF r
    <2>5. /\ obj' \in [Objects -> ObjRec] /\ obj'[o] = r
          /\ \A p \in Objects \ {o} : obj'[p] = obj[p]
      BY <2>1, <2>4 DEF GemInv, Types
    <2>6. /\ thread' \in [Threads -> CallRec] /\ thread'[t] = c
          /\ \A u \in Threads \ {t} : thread'[u] = thread[u]
      BY <2>1, <2>2 DEF GemInv, Types
    <2>7. \A p \in Objects : /\ Live(p)' <=> Live(p)
                             /\ Borrowed(p)' => Borrowed(p)
                             /\ Holders(p)' = Holders(p)
      BY <1>1, <2>2, <2>4, <2>5, <2>6 DEF Live, Borrowed, Holders, Holds
    <2>8. Types'
      BY <1>1, <2>1, <2>5, <2>6 DEF GemInv, Types, NoMemChange, Same
    <2>9. CallsOK'
      BY <1>2, <2>1, <2>2, <2>4, <2>5, <2>6 DEF GemInv, CallsOK, CallOK
    <2>10. \A p \in Objects : /\ Counted(obj[p], Cardinality(Holders(p)))
                                   => Counted(obj'[p], Cardinality(Holders(p)))
                              /\ obj'[p].refs = obj[p].refs
      BY <2>4, <2>5 DEF Counted
    <2>11. RefsOK' /\ BorrowedLive'
      BY <1>1, <2>7, <2>10 DEF GemInv, RefsOK, BorrowedLive, Same
    <2>12. OwnersLive' /\ PoolOK' /\ ChunksOK'
      BY <2>1, <2>7
      DEF GemInv, OwnersLive, PoolOK, ChunksOK, InChunks, NoMemChange
    <2>13. SearchPast'
      BY <1>2, <2>1, <2>2, <2>6
      DEF GemInv, Types, MemRec, SearchPast, InChunks, NoMemChange
    <2> QED
      BY <2>8, <2>9, <2>11, <2>12, <2>13 DEF GemInv
  <1> QED
    BY <1>5, <1>6, <1>7

(* One look of the search: it takes a range no object reaches into, goes   *)
(* on behind one in use, or gives up.                                      *)
LEMMA SearchStep ==
  ASSUME GemInv, 0 \notin Sizes, NEW t \in Threads, Search(t)
  PROVE  GemInv'
  <1> DEFINE i == thread[t].at
             n == thread[t].size
             j == IF reserved[i] # 0 THEN i ELSE Min(Collision(i, n))
  <1>0. PICK o \in Objects : o = thread[t].obj
    BY DEF GemInv, CallsOK, CallOK, Search
  <1>1. /\ thread[t].pc = "search" /\ mutex = t /\ thread[t].obj = o
        /\ obj[o].life = "making" /\ i \in Nat /\ n \in Nat /\ n > 0
    <2>1. thread[t] \in CallRec /\ CallOK(t) /\ thread[t].pc = "search"
      BY DEF GemInv, Types, CallsOK, Search
    <2> QED
      BY <1>0, <2>1, GemAssumption DEF CallRec, CallOK
  <1>2. \A u \in Threads \ {t} : thread[u].pc \notin {"search", "mmap"}
    BY <1>1 DEF GemInv, CallsOK, CallOK
  <1>3. Same /\ UNCHANGED used
    BY DEF Search
  <1>4. mem[o] = NoMem /\ NoMem.kind = "none" /\ ~InChunks(o)
    BY <1>1 DEF GemInv, OwnersLive, Live, NoMem, InChunks
  <1>5. Idle \in CallRec /\ Idle.pc = "idle"
    BY DEF Idle, CallRec
  <1>6. CASE i >= Chunks \/ (reserved[i] = 0 /\ i + n > Chunks)
    <2> DEFINE r == [obj[o] EXCEPT !.life = "none"]
    <2>1. /\ thread' = [thread EXCEPT ![t] = Idle] /\ mutex' = None
          /\ obj' = [obj EXCEPT ![o] = r] /\ UNCHANGED <<mem, reserved>>
      BY <1>0, <1>6 DEF Search
    <2>2. /\ r \in ObjRec /\ r.refs = obj[o].refs /\ r.handles = obj[o].handles
          /\ r.named = obj[o].named /\ r.dmabuf = obj[o].dmabuf
          /\ r.files = obj[o].files /\ r.maps = obj[o].maps
          /\ r.filemaps = obj[o].filemaps /\ r.kept = obj[o].kept
          /\ r.bare = obj[o].bare /\ r.life = "none"
      BY <1>1 DEF GemInv, Types, ObjRec
    <2> HIDE DEF r, i, n, j
    <2>3. /\ obj' \in [Objects -> ObjRec] /\ obj'[o] = r
          /\ \A p \in Objects \ {o} : obj'[p] = obj[p]
      BY <1>1, <2>1, <2>2 DEF GemInv, Types
    <2>4. /\ thread' \in [Threads -> CallRec] /\ thread'[t] = Idle
          /\ \A u \in Threads \ {t} : thread'[u] = thread[u]
      BY <1>5, <2>1 DEF GemInv, Types
    <2>5. \A p \in Objects : /\ Live(p)' <=> Live(p)
                             /\ Borrowed(p)' => Borrowed(p)
                             /\ Holders(p)' = Holders(p)
      BY <1>1, <1>5, <2>2, <2>3, <2>4 DEF Live, Borrowed, Holders, Holds
    <2>6. Types'
      BY <1>3, <2>1, <2>3, <2>4 DEF GemInv, Types, Same
    <2>7. CallsOK'
      BY <1>2, <1>5, <2>4 DEF GemInv, CallsOK, CallOK
    <2>8. \A p \in Objects : /\ Counted(obj[p], Cardinality(Holders(p)))
                                  => Counted(obj'[p], Cardinality(Holders(p)))
                             /\ obj'[p].refs = obj[p].refs
      BY <2>2, <2>3 DEF Counted
    <2>9. RefsOK' /\ BorrowedLive'
      BY <1>3, <2>5, <2>8 DEF GemInv, RefsOK, BorrowedLive, Same
    <2>10. OwnersLive' /\ PoolOK' /\ ChunksOK'
      BY <1>3, <2>1, <2>5 DEF GemInv, OwnersLive, PoolOK, ChunksOK, InChunks
    <2>11. SearchPast'
      BY <1>2, <1>5, <2>4 DEF SearchPast
    <2> QED
      BY <2>6, <2>7, <2>9, <2>10, <2>11 DEF GemInv
  <1>7. CASE /\ ~(i >= Chunks \/ (reserved[i] = 0 /\ i + n > Chunks))
             /\ reserved[i] = 0 /\ Collision(i, n) = {}
    <2> DEFINE m == [kind |-> "chunks", at |-> i, n |-> n]
    <2>1. /\ reserved' = [reserved EXCEPT ![i] = n] /\ Created(o, m)
          /\ thread' = [thread EXCEPT ![t] = Idle] /\ mutex' = None
      BY <1>0, <1>7 DEF Search
    <2>2. m \in MemRec /\ m.kind = "chunks" /\ m.at = i /\ m.n = n
      BY <1>1 DEF MemRec
    <2>3. /\ i + n <= Chunks /\ i \in 0..(Chunks - 1)
          /\ \A k \in i..(i + n - 1) : reserved[k] = 0
      BY <1>1, <1>7, GemAssumption DEF Collision
    <2> HIDE DEF m, i, n, j
    <2>4. /\ thread' \in [Threads -> CallRec] /\ thread'[t] = Idle
          /\ \A u \in Threads \ {t} : thread'[u] = thread[u]
      BY <1>5, <2>1 DEF GemInv, Types
    <2>5. \A p \in Objects : Holders(p)' = Holders(p)
      BY <1>1, <1>5, <2>4 DEF Holders, Holds
    <2>6. /\ obj' \in [Objects -> ObjRec] /\ RefsOK' /\ CallsOK' /\ BorrowedLive'
          /\ Live(o)' /\ \A p \in Objects : Live(p) => Live(p)'
      <3>1. \A u \in Threads : thread'[u] = thread[u] \/ thread'[u].pc = "idle"
        BY <1>5, <2>4
      <3>2. \A u \in Threads : thread'[u].pc \notin {"search", "mmap"}
        BY <1>2, <1>5, <2>4
      <3>3. obj' = [obj EXCEPT ![o] = [HandleCreated(Unborn) EXCEPT !.life = "live"]]
        BY <2>1 DEF Created
      <3>4. \A u \in Threads : thread[u].pc = "search" /\ thread[u].obj = o
                                  => thread'[u].pc = "idle"
        BY <1>2, <1>5, <2>4
      <3>5. obj[o].life # "live" /\ UNCHANGED misused
        BY <1>1, <1>3 DEF Same
      <3> QED
        BY <1>1, <2>5, <3>1, <3>2, <3>3, <3>4, <3>5, NewObject
    <2>7. /\ mem' \in [Objects -> MemRec] /\ mem'[o] = m
          /\ \A p \in Objects \ {o} : mem'[p] = mem[p]
      BY <1>1, <2>1, <2>2 DEF GemInv, Types, Created
    <2>8. /\ reserved' \in [0..(Chunks - 1) -> Nat] /\ reserved'[i] = n
          /\ \A k \in (0..(Chunks - 1)) \ {i} : reserved'[k] = reserved[k]
      BY <1>1, <2>1, <2>3 DEF GemInv, Types
    <2>9. OwnersLive'
      <3> SUFFICES ASSUME NEW p \in Objects
                   PROVE  /\ mem'[p].kind = "none" => mem'[p] = NoMem
                          /\ mem'[p].kind # "none" => Live(p)'
        BY DEF OwnersLive, NoMem
      <3>1. CASE p = o
        BY <2>2, <2>6, <2>7, <3>1
      <3>2. CASE p # o
        BY <2>6, <2>7, <3>2 DEF GemInv, OwnersLive
      <3> QED
        BY <3>1, <3>2
    <2>10. PoolOK'
      BY <1>3, <1>4, <2>2, <2>7 DEF GemInv, PoolOK
    <2>11. \A p \in Objects \ {o} : InChunks(p) =>
              /\ Apart(mem[p], m) /\ Apart(m, mem[p])
              /\ mem[p].at \in 0..(Chunks - 1) /\ mem[p].at # i
      <3> SUFFICES ASSUME NEW p \in Objects \ {o}, InChunks(p)
                   PROVE  /\ Apart(mem[p], m) /\ Apart(m, mem[p])
                          /\ mem[p].at \in 0..(Chunks - 1) /\ mem[p].at # i
        OBVIOUS
      <3>1. /\ mem[p].at \in Nat /\ mem[p].n \in Nat /\ mem[p].n > 0
            /\ mem[p].at + mem[p].n <= Chunks /\ reserved[mem[p].at] = mem[p].n
        BY DEF GemInv, ChunksOK, Types, MemRec
      <3>2. mem[p].at < i => mem[p].at + mem[p].n <= i
        BY <1>1 DEF GemInv, SearchPast, i
      <3>3. mem[p].at \notin i..(i + n - 1)
        BY <2>3, <3>1
      <3>4. mem[p].at + mem[p].n <= i \/ i + n <= mem[p].at
        BY <1>1, <3>1, <3>2, <3>3
      <3> QED
        BY <1>1, <2>2, <3>1, <3>4, GemAssumption DEF Apart
    <2>12. \A p \in Objects : InChunks(p)' <=> InChunks(p) \/ p = o
      BY <1>4, <2>2, <2>7 DEF InChunks
    <2>13. ChunksOK'
      <3>1. \A p \in Objects : InChunks(p)' =>
               /\ mem'[p].n > 0 /\ mem'[p].at + mem'[p].n <= Chunks
               /\ reserved'[mem'[p].at] = mem'[p].n
        BY <1>1, <2>2, <2>3, <2>7, <2>8, <2>11, <2>12 DEF GemInv, ChunksOK
      <3>2. \A k \in 0..(Chunks - 1) :
               reserved'[k] > 0 => \E p \in Objects : InChunks(p)' /\ mem'[p].at = k
        <4> SUFFICES ASSUME NEW k \in 0..(Chunks - 1), reserved'[k] > 0
                     PROVE  \E p \in Objects : InChunks(p)' /\ mem'[p].at = k
          OBVIOUS
        <4>1. CASE k = i
          BY <1>1, <2>2, <2>7, <2>12, <4>1
        <4>2. CASE k # i
          <5>1. PICK p \in Objects : InChunks(p) /\ mem[p].at = k
            BY <2>8, <4>2 DEF GemInv, ChunksOK
          <5> QED
            BY <1>4, <2>7, <2>12, <5>1
        <4> QED
          BY <4>1, <4>2
      <3>3. \A p, q \in Objects :
               p # q /\ InChunks(p)' /\ InChunks(q)' => Apart(mem'[p], mem'[q])
        BY <2>7, <2>11, <2>12 DEF GemInv, ChunksOK
      <3> QED
        BY <3>1, <3>2, <3>3 DEF ChunksOK
    <2>14. SearchPast'
      BY <1>2, <1>5, <2>4 DEF SearchPast
    <2>15. Types'
      BY <1>3, <2>1, <2>4, <2>6, <2>7, <2>8 DEF GemInv, Types, Same
    <2> QED
      BY <2>6, <2>9, <2>10, <2>13, <2>14, <2>15 DEF GemInv
  <1>8. CASE /\ ~(i >= Chunks \/ (reserved[i] = 0 /\ i + n > Chunks))
             /\ ~(reserved[i] = 0 /\ Collision(i, n) = {})
    <2>1. /\ thread' = [thread EXCEPT ![t].at = j + reserved[j]]
          /\ UNCHANGED <<obj, mem, reserved, mutex>>
      BY <1>8 DEF Search
    <2>2. i \in 0..(Chunks - 1)
      BY <1>1, <1>8, GemAssumption
    <2>3. j \in 0..(Chunks - 1) /\ reserved[j] \in Nat /\ reserved[j] > 0
      <3>1. CASE reserved[i] # 0
        BY <2>2, <3>1 DEF GemInv, Types
      <3>2. CASE reserved[i] = 0
        <4>1. Collision(i, n) \in SUBSET Nat /\ Collision(i, n) # {}
          BY <1>1, <1>8, <3>2 DEF Collision
        <4>2. j \in Collision(i, n)
          BY <3>2, <4>1, MinIsFirst
        <4>3. j \in i..(i + n - 1) /\ reserved[j] # 0
          BY <4>2 DEF Collision
        <4>4. i + n <= Chunks
          BY <1>1, <1>8, <3>2, GemAssumption
        <4>5. j \in 0..(Chunks - 1)
          BY <1>1, <4>3, <4>4, GemAssumption
        <4> QED
          BY <4>3, <4>5 DEF GemInv, Types
      <3> QED
        BY <3>1, <3>2
    <2> DEFINE c == [thread[t] EXCEPT !.at = j + reserved[j]]
    <2> HIDE DEF j, i, n
    <2>4. /\ c \in CallRec /\ c.pc = "search" /\ c.obj = o /\ c.size = thread[t].size
          /\ c.at = j + reserved[j]
      <3>1. thread[t] \in CallRec /\ j + reserved[j] \in Nat
        BY <2>3 DEF GemInv, Types
      <3> QED
        BY <1>1, <3>1 DEF CallRec
    <2> HIDE DEF c
    <2>5. /\ thread' \in [Threads -> CallRec] /\ thread'[t] = c
          /\ \A u \in Threads \ {t} : thread'[u] = thread[u]
      BY <2>1, <2>4 DEF GemInv, Types, c
    <2>6. \A p \in Objects : /\ Live(p)' <=> Live(p)
                             /\ Borrowed(p)' => Borrowed(p)
                             /\ Holders(p)' = Holders(p)
      BY <1>1, <2>1, <2>4, <2>5 DEF Live, Borrowed, Holders, Holds
    <2>7. Types'
      BY <1>3, <2>1, <2>5 DEF GemInv, Types, Same
    <2>8. CallsOK'
      BY <1>1, <2>1, <2>4, <2>5 DEF GemInv, CallsOK, CallOK
    <2>9. RefsOK' /\ BorrowedLive'
      BY <1>3, <2>1, <2>6 DEF GemInv, RefsOK, BorrowedLive, Same
    <2>10. OwnersLive' /\ PoolOK' /\ ChunksOK'
      BY <1>3, <2>1, <2>6 DEF GemInv, OwnersLive, PoolOK, ChunksOK, InChunks
    <2>11. SearchPast'
      <3> SUFFICES ASSUME NEW p \in Objects, InChunks(p), mem[p].at < j + reserved[j]
                   PROVE  mem[p].at + mem[p].n <= j + reserved[j]
        BY <1>2, <2>1, <2>4, <2>5 DEF SearchPast, InChunks
      <3>1. PICK q \in Objects : InChunks(q) /\ mem[q].at = j
        BY <2>3 DEF GemInv, ChunksOK
      <3>2. reserved[j] = mem[q].n
        BY <3>1 DEF GemInv, ChunksOK
      <3>3. mem[p].at \in Nat /\ mem[p].n \in Nat /\ mem[q].n \in Nat
        BY DEF GemInv, Types, MemRec
      <3>4. p # q => Apart(mem[p], mem[q])
        BY <3>1 DEF GemInv, ChunksOK
      <3> QED
        BY <2>3, <3>1, <3>2, <3>3, <3>4 DEF Apart
    <2> QED
      BY <2>7, <2>8, <2>9, <2>10, <2>11 DEF GemInv
  <1> QED
    BY <1>6, <1>7, <1>8

-----------------------------------------------------------------------------
(* At the beginning there are no objects and all memory is free.           *)
LEMMA GemInit == Init => GemInv
  <1> SUFFICES ASSUME Init PROVE GemInv
    OBVIOUS
  <1>1. Idle \in CallRec /\ Idle.pc = "idle" /\ NoMem \in MemRec /\ NoMem.kind = "none"
    BY DEF Idle, CallRec, NoMem, MemRec
  <1>2. /\ Unborn \in ObjRec /\ Unborn.refs = 0 /\ Unborn.bare = 0
        /\ Unborn.life = "none"
    BY DEF Unborn, ObjRec
  <1>3. Counted(Unborn, 0)
    BY DEF Unborn, Counted, Bit
  <1>4. \A o \in Objects : obj[o] = Unborn /\ mem[o] = NoMem
    BY DEF Init
  <1>5. \A t \in Threads : thread[t] = Idle
    BY DEF Init
  <1>6. Types
    BY <1>1, <1>2 DEF Init, Types
  <1>7. CallsOK
    BY <1>1, <1>5 DEF CallsOK, CallOK
  <1>8. RefsOK
    <2>1. \A o \in Objects : Holders(o) = {}
      BY <1>1, <1>5 DEF Holders, Holds
    <2>2. Cardinality({}) = 0
      BY FS_EmptySet
    <2> QED
      BY <1>2, <1>3, <1>4, <2>1, <2>2 DEF RefsOK, Live
  <1>9. BorrowedLive
    BY <1>1, <1>2, <1>4, <1>5 DEF Init, BorrowedLive, Borrowed
  <1>10. OwnersLive /\ PoolOK
    BY <1>1, <1>4 DEF Init, OwnersLive, PoolOK
  <1>11. ChunksOK /\ SearchPast
    BY <1>1, <1>4, <1>5 DEF Init, ChunksOK, SearchPast, InChunks
  <1> QED
    BY <1>6, <1>7, <1>8, <1>9, <1>10, <1>11 DEF GemInv

(* Every step preserves the invariant, if nobody asks for an empty buffer: *)
(* its first chunk would not be marked.                                    *)
LEMMA GemStep == 0 \notin Sizes /\ GemInv /\ [Next]_vars => GemInv'
  <1> SUFFICES ASSUME 0 \notin Sizes, GemInv, [Next]_vars PROVE GemInv'
    OBVIOUS
  <1>1. ASSUME NEW t \in Threads, NEW o \in Objects, NEW n \in Sizes,
               DumbCreate(t, o, n)
        PROVE  GemInv'
    BY <1>1, DumbCreateStep
  <1>2. ASSUME NEW t \in Threads, NEW o \in Objects, Import(t, o) PROVE GemInv'
    BY <1>2, ImportStep
  <1>3. ASSUME NEW t \in Threads, NEW o \in Objects,
               DestroyDumb(t, o) \/ HandleToFd(t, o) \/ FdToHandle(t, o)
                 \/ FdMmap(t, o) \/ FdMmapFails(t, o) \/ MapOffset(t, o)
        PROVE  GemInv'
    BY <1>3, ClientStep
  <1>4. ASSUME NEW t \in Threads, NEW o \in Objects,
               GemCloseLookup(t, o) \/ FlinkLookup(t, o)
        PROVE  GemInv'
    BY <1>4, BeginStep DEF GemCloseLookup, FlinkLookup
  <1>5. ASSUME NEW t \in Threads, NEW o \in Objects,
               OpenFind(t, o) \/ MmapLookup(t, o)
        PROVE  GemInv'
    BY <1>5, FindStep
  <1>6. ASSUME NEW t \in Threads, Search(t) PROVE GemInv'
    BY <1>6, SearchStep
  <1>7. ASSUME NEW t \in Threads, GemCloseDelete(t) \/ FlinkName(t) PROVE GemInv'
    BY <1>7, CallEndStep
  <1>8. ASSUME NEW t \in Threads,
               OpenRef(t) \/ \E fails \in BOOLEAN : MmapUse(t, fails)
        PROVE  GemInv'
    BY <1>8, UseStep
  <1>9. ASSUME NEW o \in Objects, CloseFd(o) \/ FdUnmap(o) \/ Unmap(o)
        PROVE  GemInv'
    BY <1>9, ClientStep
  <1>10. ASSUME NEW o \in Objects, UnmapBare(o) PROVE GemInv'
    BY <1>10, UnmapBareStep
  <1>11. ASSUME UNCHANGED vars PROVE GemInv'
    <2>1. \A o \in Objects : Holders(o)' = Holders(o)
      BY <1>11 DEF vars, Holders, Holds
    <2> QED
      BY <1>11, <2>1
      DEF vars, GemInv, Types, CallsOK, CallOK, RefsOK, BorrowedLive, Borrowed,
          OwnersLive, PoolOK, ChunksOK, SearchPast, InChunks, Live
  <1> QED
    BY <1>1, <1>2, <1>3, <1>4, <1>5, <1>6, <1>7, <1>8, <1>9, <1>10, <1>11 DEF Next

(* The invariant holds in every reachable state.                           *)
THEOREM GemInvariant == 0 \notin Sizes /\ Spec => []GemInv
  <1> SUFFICES ASSUME 0 \notin Sizes PROVE Spec => []GemInv
    OBVIOUS
  <1>1. Init => GemInv
    BY GemInit
  <1>2. GemInv /\ [Next]_vars => GemInv'
    BY GemStep
  <1> QED
    BY <1>1, <1>2, PTL DEF Spec

(* No object is freed while a handle, a file, a mapping or a call reaches  *)
(* it, and no call touches a freed one, if clients do not drop the last    *)
(* reference of what another call has only looked up.                      *)
THEOREM NoObjectUsedAfterFree ==
  CarefulClients /\ 0 \notin Sizes /\ Spec => []NoUseAfterFree
  <1> SUFFICES ASSUME CarefulClients, 0 \notin Sizes
               PROVE  Spec => []NoUseAfterFree
    OBVIOUS
  <1>0. Spec => []GemInv
    BY GemInvariant
  <1>1. GemInv => NoUseAfterFree
    <2> SUFFICES ASSUME GemInv PROVE NoUseAfterFree
      OBVIOUS
    <2>1. ASSUME NEW o \in Objects, Reached(o) PROVE Live(o)
      <3>1. /\ obj[o].handles \in Nat /\ obj[o].files \in Nat /\ obj[o].maps \in Nat
            /\ obj[o].filemaps \in Nat /\ obj[o].bare \in Nat
        BY DEF GemInv, Types, ObjRec
      <3>2. \/ obj[o].handles > 0 \/ obj[o].files > 0 \/ obj[o].maps > 0
            \/ obj[o].filemaps > 0 \/ Holders(o) # {} \/ Borrowed(o)
        BY <2>1, <3>1 DEF Reached, Holders, Borrowed
      <3> QED
        BY <3>2, ReachedIsLive DEF GemInv, BorrowedLive
    <2> QED
      BY <2>1 DEF NoUseAfterFree, GemInv, BorrowedLive
  <1> QED
    BY <1>0, <1>1, PTL

(* An object that nothing reaches is freed, but for the references that    *)
(* failed mappings have left: through every path of creation, export,      *)
(* mapping and close the count comes down to zero, careful clients or not. *)
THEOREM UnreachedObjectsAreFreed ==
  0 \notin Sizes /\ Spec => []UnreachedIsFreed
  <1>1. GemInv => UnreachedIsFreed
    <2> SUFFICES ASSUME GemInv, NEW o \in Objects, Live(o), ~Reached(o)
                 PROVE  obj[o].kept > 0
      BY DEF UnreachedIsFreed
    <2>1. Holders(o) = {}
      BY DEF Reached, Holders
    <2>2. Cardinality(Holders(o)) = 0
      BY <2>1, FS_EmptySet
    <2>3. /\ obj[o] \in ObjRec /\ Counted(obj[o], 0) /\ obj[o].refs > 0
      BY <2>2, ObjFacts
    <2>4. /\ obj[o].handles \in Nat /\ obj[o].files \in Nat /\ obj[o].maps \in Nat
          /\ obj[o].filemaps \in Nat /\ obj[o].bare \in Nat /\ obj[o].kept \in Nat
      BY <2>3 DEF ObjRec
    <2>5. /\ obj[o].handles = 0 /\ obj[o].files = 0 /\ obj[o].maps = 0
          /\ obj[o].filemaps = 0
      <3> DEFINE a == obj[o].handles
                 b == obj[o].files
                 c == obj[o].maps
                 d == obj[o].filemaps
                 e == obj[o].bare
      <3>1. ~(a + b + c + d + e > 0)
        BY DEF Reached
      <3>2. a \in Nat /\ b \in Nat /\ c \in Nat /\ d \in Nat /\ e \in Nat
        BY <2>4
      <3> HIDE DEF a, b, c, d, e
      <3>3. a = 0 /\ b = 0 /\ c = 0 /\ d = 0
        BY <3>1, <3>2, SumOfZero
      <3> QED
        BY <3>3 DEF a, b, c, d
    <2>6. Bit(obj[o].dmabuf) = 0
      BY <2>3, <2>5 DEF Counted, Bit
    <2> QED
      BY <2>3, <2>4, <2>5, <2>6 DEF Counted
  <1> QED
    BY <1>1, GemInvariant, PTL

(* The pool's and the chunk table's entries are those of the live objects, *)
(* no two of which share a block or a chunk, careful clients or not.       *)
THEOREM MemoryIsExact == 0 \notin Sizes /\ Spec => []MemoryExact
  <1>1. GemInv => MemoryExact
    <2> SUFFICES ASSUME GemInv PROVE MemoryExact
      OBVIOUS
    <2>1. /\ DOMAIN reserved = 0..(Chunks - 1)
          /\ \A i \in DOMAIN reserved : reserved[i] \in Nat
          /\ \A o \in Objects : mem[o].at \in Nat /\ mem[o].n \in Nat
      BY DEF GemInv, Types, MemRec
    <2>2. \A o \in Objects : InChunks(o) =>
              /\ mem[o].n > 0 /\ mem[o].at + mem[o].n <= Chunks
              /\ reserved[mem[o].at] = mem[o].n
      BY DEF GemInv, ChunksOK
    <2>3. \A i \in DOMAIN reserved : reserved[i] > 0 <=>
             \E o \in Objects : mem[o].kind = "chunks" /\ mem[o].at = i
                                /\ mem[o].n = reserved[i]
      BY <2>1, <2>2 DEF GemInv, ChunksOK, InChunks
    <2>4. \A o \in Objects : mem[o] # NoMem => Live(o)
      BY DEF GemInv, OwnersLive
    <2>5. \A o, p \in Objects : o # p => ChunksOf(o) \cap ChunksOf(p) = {}
      <3> SUFFICES ASSUME NEW o \in Objects, NEW p \in Objects, o # p,
                          InChunks(o), InChunks(p),
                          NEW k \in mem[o].at..(mem[o].at + mem[o].n - 1),
                          k \in mem[p].at..(mem[p].at + mem[p].n - 1)
                   PROVE  FALSE
        BY DEF ChunksOf, InChunks
      <3>1. Apart(mem[o], mem[p])
        BY DEF GemInv, ChunksOK
      <3> QED
        <4>1. mem[o].at \in Nat /\ mem[o].n \in Nat /\ mem[p].at \in Nat /\ mem[p].n \in Nat
          BY <2>1
        <4> QED
          BY <3>1, <4>1 DEF Apart
    <2>6. \A o \in Objects : ChunksOf(o) \subseteq DOMAIN reserved
      BY <2>1, <2>2, GemAssumption DEF ChunksOf, InChunks
    <2> QED
      BY <2>3, <2>4, <2>5, <2>6 DEF GemInv, PoolOK, MemoryExact
  <1> QED
    BY <1>1, GemInvariant, PTL
=============================================================================
