----------------------------- MODULE GemObjects -----------------------------
(***************************************************************************)
(* The buffer objects of src/hantro/hantro_drm.c and hantro_dmabuf.c and   *)
(* the memory behind them (hantro_mem_pool.c, hantro_fpga_mem.c).          *)
(*                                                                         *)
(* An object lives as long as it has references: one for each handle, one  *)
(* for the dma-buf that exports it, one for each mapping of its own        *)
(* memory, and one for each call that works on it.  When the last is       *)
(* dropped hantro_gem_free_object returns its memory.  Calls of different  *)
(* threads overlap; only creation, destruction and hantro_mmap take        *)
(* struct_mutex.                                                           *)
(*                                                                         *)
(* Memory comes from the reserved pool (first block that is large enough), *)
(* else from the FPGA's chunk table, where the first chunk of a range      *)
(* carries its length, or from the DMA API in the other builds.            *)
(*                                                                         *)
(* CarefulClients says that clients do not drop the last reference of an   *)
(* object while another call has looked it up without keeping one, nor     *)
(* that of an imported object that is mapped; "misused" records that the   *)
(* code touched freed memory, as it may when they do.                      *)
(***************************************************************************)
EXTENDS Integers, FiniteSets, FiniteSetsExt, Sequences

CONSTANTS
    Objects, Threads,
    None,         \* no object, no thread
    Builds,       \* "dma", "fpga": where memory comes from when the pool has none
    PoolSizes,    \* mem_table: the sizes of the pool's blocks, a sequence
    Chunks,       \* chunks of the FPGA's table
    Sizes,        \* sizes asked for, in chunks
    CarefulClients,
    MaxHandles,   \* bound: handles when another one is asked for
    MaxFiles, MaxMaps,  \* bounds: files and mappings when another one is asked for
    MaxFailures   \* bound: mappings that fail

ASSUME GemAssumption ==
    /\ None \notin Objects \cup Threads
    /\ IsFiniteSet(Objects) /\ IsFiniteSet(Threads)
    /\ Builds \subseteq {"dma", "fpga"} /\ PoolSizes \in Seq(Nat)
    /\ Chunks \in Nat /\ Sizes \subseteq Nat
    /\ CarefulClients \in BOOLEAN
    /\ MaxHandles \in Nat /\ MaxFiles \in Nat /\ MaxMaps \in Nat
    /\ MaxFailures \in Nat

VARIABLES
    build,
    obj,       \* the objects: life, references, and what refers to them
    mem,       \* the memory of each: pool block, chunks, DMA memory or none
    used,      \* mem_blocks[].used: the blocks in use
    reserved,  \* hlina_chunks[].chunks_reserved
    thread,    \* where each thread is, and the object it works on
    mutex,     \* the thread that holds struct_mutex across steps
    misused,   \* freed memory was used, or memory was freed twice
    failures

vars == <<build, obj, mem, used, reserved, thread, mutex, misused, failures>>

Blocks == DOMAIN PoolSizes
Idle == [pc |-> "idle", obj |-> None, size |-> 0, at |-> 0]
NoMem == [kind |-> "none", at |-> 0, n |-> 0]
Unborn == [life |-> "none", refs |-> 0, handles |-> 0, named |-> FALSE,
           dmabuf |-> FALSE, files |-> 0, offset |-> FALSE, maps |-> 0,
           filemaps |-> 0, bare |-> 0, kept |-> 0, imported |-> FALSE]

Init ==
    /\ build \in Builds
    /\ obj = [o \in Objects |-> Unborn] /\ mem = [o \in Objects |-> NoMem]
    /\ used = {} /\ reserved = [i \in 0..(Chunks - 1) |-> 0]
    /\ thread = [t \in Threads |-> Idle]
    /\ mutex = None /\ misused = FALSE /\ failures = 0

Live(o) == obj[o].life = "live"

(* An identity that a new object can take.                                 *)
Free(o) ==
    obj[o].life = "none" /\ \A t \in Threads : thread[t].obj # o

-----------------------------------------------------------------------------
(* A plausible slip: the block stays marked.                               *)
BlockKept(m) == used

(* memory_pool_free and hantro_fpga_memfree: neither takes a lock.         *)
BlockFreed(m) == IF m.kind = "pool" THEN used \ {m.at} ELSE used
ChunksFreed(m) == IF m.kind = "chunks" THEN [reserved EXCEPT ![m.at] = 0] ELSE reserved

FreeMem(m) == used' = BlockFreed(m) /\ reserved' = ChunksFreed(m)

(* A call has looked o up and holds no reference, or o is mapped without.  *)
Borrowed(o) ==
    \/ obj[o].bare > 0
    \/ \E t \in Threads : thread[t].obj = o /\ thread[t].pc \in {"open", "mmap"}

(* The object becomes r; without references it is freed with its memory    *)
(* (hantro_gem_free_object; an imported one goes back to its exporter).    *)
(* Careful clients do not let that happen to a borrowed object.            *)
Becomes(o, r) ==
    IF r.refs > 0
    THEN obj' = [obj EXCEPT ![o] = r] /\ UNCHANGED <<mem, used, reserved>>
    ELSE /\ CarefulClients => ~Borrowed(o)
         /\ obj' = [obj EXCEPT ![o] =
                        [r EXCEPT !.life = "none", !.offset = FALSE, !.imported = FALSE]]
         /\ mem' = [mem EXCEPT ![o] = NoMem]
         /\ FreeMem(mem[o])

NoMemChange == UNCHANGED <<mem, used, reserved>>
Same == UNCHANGED <<build, misused, failures>>
Stay == UNCHANGED <<thread, mutex>>

(* The dma-buf goes with its last file or mapping, but not before the last *)
(* handle.                                                                 *)
Unexport(r) ==
    IF r.dmabuf /\ r.files + r.filemaps = 0 /\ r.handles = 0
    THEN [r EXCEPT !.dmabuf = FALSE, !.refs = @ - 1] ELSE r

(* drm_gem_handle_delete: the last handle takes the name with it.          *)
HandleDeleted(r) ==
    Unexport([r EXCEPT !.handles = @ - 1, !.refs = @ - 1,
                       !.named = @ /\ r.handles > 1])
Got(r) == [r EXCEPT !.refs = @ + 1]
Dropped(r) == [r EXCEPT !.refs = @ - 1]
HandleCreated(r) == [r EXCEPT !.handles = @ + 1, !.refs = @ + 1]
Total(Count(_)) == Cardinality(UNION {{o} \X (1..Count(o)) : o \in Objects})
RoomForHandle == Total(LAMBDA o : obj[o].handles) < MaxHandles
RoomForFile == Total(LAMBDA o : obj[o].files) < MaxFiles
RoomForMap == Total(LAMBDA o : obj[o].maps + obj[o].filemaps + obj[o].bare) < MaxMaps
Usable(t, o) == thread[t].pc = "idle" /\ Live(o) /\ obj[o].handles > 0

-----------------------------------------------------------------------------
(* The memory of a new object of n chunks: the first block of the pool     *)
(* that is free and large enough.                                          *)
PoolBlocksFor(n) == {b \in Blocks \ used : PoolSizes[b] >= n}

Created(o, m) ==
    /\ mem' = [mem EXCEPT ![o] = m]
    /\ obj' = [obj EXCEPT ![o] = [HandleCreated(Unborn) EXCEPT !.life = "live"]]

(* hantro_gem_dumb_create_internal, with AllocateMem.  The chunk table is  *)
(* searched step by step, for frees run beside the search.                 *)
DumbCreate(t, o, n) ==
    /\ thread[t].pc = "idle" /\ Free(o) /\ mutex = None /\ RoomForHandle
    /\ Same
    /\ CASE PoolBlocksFor(n) # {} ->
              /\ LET b == Min(PoolBlocksFor(n))
                 IN  Created(o, [kind |-> "pool", at |-> b, n |-> n])
                     /\ used' = used \cup {b}
              /\ UNCHANGED reserved /\ Stay
         [] PoolBlocksFor(n) = {} /\ build = "dma" ->
              /\ Created(o, [kind |-> "dma", at |-> 0, n |-> n])
              /\ UNCHANGED <<used, reserved>> /\ Stay
         [] OTHER ->
              /\ thread' = [thread EXCEPT ![t] =
                               [pc |-> "search", obj |-> o, size |-> n, at |-> 0]]
              /\ mutex' = t
              /\ obj' = [obj EXCEPT ![o].life = "making"] /\ NoMemChange

(* A plausible slip: only the first chunk of the range is looked at.       *)
CollisionAtStart(i, n) == {j \in i..i : reserved[j] # 0}

Collision(i, n) == {j \in i..(i + n - 1) : reserved[j] # 0}

(* One round of the loop of hantro_fpga_memalloc.                          *)
Search(t) ==
    LET i == thread[t].at   n == thread[t].size   o == thread[t].obj
    IN  /\ thread[t].pc = "search"
        /\ Same /\ UNCHANGED used
        /\ IF i >= Chunks \/ (reserved[i] = 0 /\ i + n > Chunks)
           THEN /\ thread' = [thread EXCEPT ![t] = Idle] /\ mutex' = None
                /\ obj' = [obj EXCEPT ![o].life = "none"] /\ UNCHANGED <<mem, reserved>>
           ELSE IF reserved[i] = 0 /\ Collision(i, n) = {}
           THEN /\ reserved' = [reserved EXCEPT ![i] = n]
                /\ Created(o, [kind |-> "chunks", at |-> i, n |-> n])
                /\ thread' = [thread EXCEPT ![t] = Idle] /\ mutex' = None
           ELSE /\ LET j == IF reserved[i] # 0 THEN i ELSE Min(Collision(i, n))
                   IN  thread' = [thread EXCEPT ![t].at = j + reserved[j]]
                /\ UNCHANGED <<obj, mem, reserved, mutex>>

(* hantro_fd_to_handle with the dma-buf of another driver.                 *)
Imported == [HandleCreated(Unborn) EXCEPT !.life = "live", !.imported = TRUE]

Import(t, o) ==
    /\ thread[t].pc = "idle" /\ Free(o) /\ RoomForHandle
    /\ obj' = [obj EXCEPT ![o] = Imported]
    /\ NoMemChange /\ Stay /\ Same

(* hantro_destroy_dumb drops its reference before it deletes the handle.   *)
DestroyDumb(t, o) ==
    /\ Usable(t, o) /\ mutex = None
    /\ Becomes(o, HandleDeleted(obj[o])) /\ Stay /\ Same

GemCloseLookup(t, o) ==
    /\ Usable(t, o)
    /\ Becomes(o, Got(obj[o]))
    /\ thread' = [thread EXCEPT ![t] = [Idle EXCEPT !.pc = "close", !.obj = o]]
    /\ UNCHANGED mutex /\ Same

GemCloseDelete(t) ==
    LET o == thread[t].obj
    IN  /\ thread[t].pc = "close"
        /\ Becomes(o, Dropped(IF obj[o].handles > 0 THEN HandleDeleted(obj[o]) ELSE obj[o]))
        /\ thread' = [thread EXCEPT ![t] = Idle] /\ UNCHANGED mutex /\ Same

FlinkLookup(t, o) ==
    /\ Usable(t, o)
    /\ Becomes(o, Got(obj[o]))
    /\ thread' = [thread EXCEPT ![t] = [Idle EXCEPT !.pc = "flink", !.obj = o]]
    /\ UNCHANGED mutex /\ Same

Named(r) == [r EXCEPT !.named = @ \/ r.handles > 0]

(* Under object_name_lock: no name for an object whose handles are gone.   *)
FlinkName(t) ==
    LET o == thread[t].obj
    IN  /\ thread[t].pc = "flink"
        /\ Becomes(o, Dropped(Named(obj[o])))
        /\ thread' = [thread EXCEPT ![t] = Idle] /\ UNCHANGED mutex /\ Same

(* hantro_gem_open: the name is looked up without object_name_lock, and    *)
(* the reference is taken afterwards.                                      *)
OpenFind(t, o) ==
    /\ thread[t].pc = "idle" /\ obj[o].named /\ RoomForHandle
    /\ thread' = [thread EXCEPT ![t] = [Idle EXCEPT !.pc = "open", !.obj = o]]
    /\ UNCHANGED <<obj, mutex>> /\ NoMemChange /\ Same

OpenRef(t) ==
    LET o == thread[t].obj
    IN  /\ thread[t].pc = "open"
        /\ IF Live(o) THEN Becomes(o, HandleCreated(obj[o])) /\ UNCHANGED misused
           ELSE misused' = TRUE /\ UNCHANGED obj /\ NoMemChange
        /\ thread' = [thread EXCEPT ![t] = Idle]
        /\ UNCHANGED <<mutex, build, failures>>

-----------------------------------------------------------------------------
(* A plausible slip: the export does not reference the object.             *)
ExportedOnly(r) == [r EXCEPT !.dmabuf = TRUE]

(* hantro_prime_export: the dma-buf holds a reference on the object.       *)
Exported(r) == IF r.dmabuf THEN r ELSE [Got(r) EXCEPT !.dmabuf = TRUE]

HandleToFd(t, o) ==
    /\ Usable(t, o) /\ ~obj[o].imported /\ RoomForFile
    /\ Becomes(o, [Exported(obj[o]) EXCEPT !.files = @ + 1])
    /\ Stay /\ Same

(* Importing a dma-buf of this driver: the object gets another handle.     *)
FdToHandle(t, o) ==
    /\ thread[t].pc = "idle" /\ obj[o].files > 0 /\ RoomForHandle
    /\ Becomes(o, HandleCreated(obj[o])) /\ Stay /\ Same

(* A plausible slip: a file that goes leaves the dma-buf to the handles.   *)
CloseFdOnly(o) ==
    /\ obj[o].files > 0
    /\ Becomes(o, [obj[o] EXCEPT !.files = @ - 1]) /\ Stay /\ Same

CloseFd(o) ==
    /\ obj[o].files > 0
    /\ Becomes(o, Unexport([obj[o] EXCEPT !.files = @ - 1])) /\ Stay /\ Same

(* hantro_gem_prime_mmap; the mapping holds the file as well.  If waiting  *)
(* for struct_mutex is interrupted the reference is not dropped.           *)
FdMmap(t, o) ==
    /\ thread[t].pc = "idle" /\ obj[o].files > 0
    /\ RoomForMap
    /\ Becomes(o, [Got(obj[o]) EXCEPT !.filemaps = @ + 1])
    /\ Stay /\ Same

FdMmapFails(t, o) ==
    /\ thread[t].pc = "idle" /\ obj[o].files > 0 /\ failures < MaxFailures
    /\ Becomes(o, [Got(obj[o]) EXCEPT !.kept = @ + 1])
    /\ failures' = failures + 1 /\ Stay /\ UNCHANGED <<build, misused>>

FdUnmap(o) ==
    /\ obj[o].filemaps > 0
    /\ Becomes(o, Unexport([Dropped(obj[o]) EXCEPT !.filemaps = @ - 1]))
    /\ Stay /\ Same

-----------------------------------------------------------------------------
MapOffset(t, o) ==
    /\ Usable(t, o)
    /\ obj' = [obj EXCEPT ![o].offset = TRUE] /\ NoMemChange /\ Stay /\ Same

(* hantro_mmap finds the object by its offset, and drops the reference of  *)
(* the lookup before it uses the object; closing a handle does not take    *)
(* struct_mutex.                                                           *)
MmapLookup(t, o) ==
    /\ thread[t].pc = "idle" /\ mutex = None
    /\ Live(o) /\ obj[o].offset /\ RoomForMap
    /\ thread' = [thread EXCEPT ![t] = [Idle EXCEPT !.pc = "mmap", !.obj = o]]
    /\ mutex' = t
    /\ UNCHANGED obj /\ NoMemChange /\ Same

(* hantro_drm_gem_mmap_obj: the mapping has a reference of its own.        *)
MappedObj(r) == [Got(r) EXCEPT !.maps = @ + 1]

(* A failure after mmap_obj keeps its reference; imported memory is mapped *)
(* without one.                                                            *)
MmapUse(t, fails) ==
    LET o == thread[t].obj
    IN  /\ thread[t].pc = "mmap"
        /\ failures' = failures + IF fails THEN 1 ELSE 0
        /\ failures' <= MaxFailures
        /\ IF ~Live(o) THEN misused' = TRUE /\ UNCHANGED obj /\ NoMemChange
           ELSE /\ UNCHANGED misused
                /\ CASE obj[o].imported /\ fails -> UNCHANGED obj /\ NoMemChange
                     [] obj[o].imported /\ ~fails ->
                          Becomes(o, [obj[o] EXCEPT !.bare = @ + 1])
                     [] ~obj[o].imported /\ fails ->
                          Becomes(o, [Got(obj[o]) EXCEPT !.kept = @ + 1])
                     [] OTHER -> Becomes(o, MappedObj(obj[o]))
        /\ thread' = [thread EXCEPT ![t] = Idle] /\ mutex' = None
        /\ UNCHANGED build

UnmapBare(o) ==
    /\ obj[o].bare > 0
    /\ obj' = [obj EXCEPT ![o].bare = @ - 1] /\ NoMemChange /\ Stay /\ Same

Unmap(o) ==
    /\ obj[o].maps > 0
    /\ Becomes(o, [Dropped(obj[o]) EXCEPT !.maps = @ - 1]) /\ Stay /\ Same

-----------------------------------------------------------------------------
Next ==
    \/ \E t \in Threads, o \in Objects :
          \/ \E n \in Sizes : DumbCreate(t, o, n)
          \/ Import(t, o) \/ DestroyDumb(t, o) \/ GemCloseLookup(t, o)
          \/ FlinkLookup(t, o) \/ OpenFind(t, o)
          \/ HandleToFd(t, o) \/ FdToHandle(t, o)
          \/ FdMmap(t, o) \/ FdMmapFails(t, o)
          \/ MapOffset(t, o) \/ MmapLookup(t, o)
    \/ \E t \in Threads :
          Search(t) \/ GemCloseDelete(t) \/ FlinkName(t) \/ OpenRef(t)
          \/ \E fails \in BOOLEAN : MmapUse(t, fails)
    \/ \E o \in Objects : CloseFd(o) \/ FdUnmap(o) \/ Unmap(o) \/ UnmapBare(o)

Spec == Init /\ [][Next]_vars

-----------------------------------------------------------------------------
Holds(t, o) == thread[t].obj = o /\ thread[t].pc \in {"close", "flink"}

(* What reaches the object: handles, files of its dma-buf, mappings, calls *)
(* that hold a reference.                                                  *)
Reached(o) ==
    \/ obj[o].handles + obj[o].files + obj[o].maps + obj[o].filemaps + obj[o].bare > 0
    \/ \E t \in Threads : Holds(t, o)

(* Type correctness.                                                       *)
GemTypeOK ==
    /\ build \in Builds /\ used \subseteq Blocks
    /\ \A o \in Objects : /\ obj[o].life \in {"none", "making", "live"}
                          /\ obj[o].refs \in Nat /\ obj[o].handles \in Nat
                          /\ obj[o].files \in Nat /\ obj[o].maps \in Nat

(* No object is freed while a client can reach it through a handle, a      *)
(* file, a mapping of its memory or a call under way, and no call touches  *)
(* a freed one, if clients are careful.                                    *)
NoUseAfterFree ==
    /\ ~misused
    /\ \A o \in Objects : Reached(o) => Live(o)

(* An object nobody can reach is freed, but for the references that        *)
(* mappings which failed have left.                                        *)
UnreachedIsFreed ==
    \A o \in Objects : Live(o) => Reached(o) \/ obj[o].kept > 0

ChunksOf(o) ==
    IF mem[o].kind = "chunks" THEN mem[o].at..(mem[o].at + mem[o].n - 1) ELSE {}

(* The pool's and the chunk table's entries are those of the live objects, *)
(* and no two objects share a block or a chunk, though memory is freed     *)
(* while another thread searches the table.                                *)
MemoryExact ==
    /\ used = {mem[o].at : o \in {p \in Objects : mem[p].kind = "pool"}}
    /\ \A i \in DOMAIN reserved : reserved[i] > 0 <=>
          \E o \in Objects : mem[o].kind = "chunks" /\ mem[o].at = i /\ mem[o].n = reserved[i]
    /\ \A o \in Objects : mem[o] # NoMem => Live(o)
    /\ \A o, p \in Objects : o # p =>
          /\ ChunksOf(o) \cap ChunksOf(p) = {}
          /\ mem[o].kind = "pool" /\ mem[p].kind = "pool" => mem[o].at # mem[p].at
    /\ \A o \in Objects : ChunksOf(o) \subseteq DOMAIN reserved

=============================================================================
