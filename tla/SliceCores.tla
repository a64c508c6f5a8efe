----------------------------- MODULE SliceCores -----------------------------
(***************************************************************************)
(* The tables of cores of src/hantro/devicemgr.c, as the builds without    *)
(* vcmd fill them when the module is loaded: the probe function of each    *)
(* core type enters the rows of its static table (loop = 0), then          *)
(* probe_hantroHW visits the hardware of every node and removes the nodes  *)
(* whose hardware does not answer, and hantro_cleanup takes them down.     *)
(*                                                                         *)
(* All of it runs in one thread.  What makes it hard is failure: nodes     *)
(* leave a list while it is walked by position (AXI front ends never do),  *)
(* a decoder may bring a second node (its auxiliary core), and caches,     *)
(* DEC400s and AXI front ends refer to decoders and encoders by pointer    *)
(* and by position.                                                        *)
(***************************************************************************)
EXTENDS Integers, SequencesExt

CONSTANTS
    Tables,    \* the hardware tables a build may have: rows in order of entry
    MaxSlice   \* bound: the slices these tables name

Types == <<"dec", "enc", "cache", "dec400", "axife", "mmu">>
CleanupOrder == <<"dec", "enc", "cache", "dec400", "mmu", "axife">>
Parents == {"dec", "enc"}

(* A row: type, slice, base address (decoders, encoders), address of the   *)
(* parent, end of its registers counted from there, and whether it serves  *)
(* an encoder (the others).                                                *)
Row == [type : ToSet(Types), slice : 0..MaxSlice, base : Nat, parent : Nat, end : Nat,
        client : Parents]

ASSUME SliceAssumption ==
    MaxSlice \in Nat /\ Tables \subseteq Seq(Row) /\ Tables # {}

VARIABLES
    table,
    phase,    \* "add", "probe", "running", "cleanup", "gone"; "oops": the kernel died
    row,      \* the next row to enter
    at,       \* probe_hantroHW: slice, type (index), position and coren
    slices,   \* slicenum
    list,     \* the nodes of a slice and a type, in order
    node,     \* what is known of each node
    sem,      \* dec_core_sem of each slice
    failed    \* the nodes whose probe has failed so far

vars == <<table, phase, row, at, slices, list, node, sem, failed>>

Rows == DOMAIN table
Aux(n) == n + Len(table)       \* the auxiliary core of decoder n
Nodes == 1..(2 * Len(table))
IsAux(n) == n > Len(table)
RowOf(n) == table[IF IsAux(n) THEN n - Len(table) ELSE n]
NoNode == [life |-> "none", id |-> 0, parent |-> 0, pid |-> 0, window |-> 0,
           region |-> FALSE, map |-> FALSE, probes |-> 0]
Empty == [t \in ToSet(Types) |-> <<>>]

Init ==
    /\ table \in Tables
    /\ phase = "add" /\ row = 1 /\ slices = 0
    /\ at = [slice |-> 0, type |-> 1, pos |-> 0, coren |-> 0]
    /\ list = [s \in 0..MaxSlice |-> Empty]
    /\ node = [n \in Nodes |-> NoNode]
    /\ sem = [s \in 0..MaxSlice |-> 0] /\ failed = {}

List(s, t) == list[s][t]
Entered(s, t, n) == [list EXCEPT ![s][t] = Append(@, n)]

-----------------------------------------------------------------------------
(* The slice of a new decoder, encoder or MMU is created when it is the    *)
(* next one; other types must find theirs.                                 *)
SliceFor(t, s) ==
    IF t \in Parents \cup {"mmu"} /\ s = slices THEN slices + 1 ELSE slices

(* A plausible slip: the node takes the number it will have from one.      *)
Fresh1(s, t, p) ==
    [NoNode EXCEPT !.life = "listed", !.id = Len(List(s, t)) + 1, !.parent = p,
                   !.pid = IF p = 0 THEN s ELSE node[p].id]

(* The new node of type t, which belongs to node p or to the slice itself. *)
Fresh(s, t, p) ==
    [NoNode EXCEPT !.life = "listed", !.id = Len(List(s, t)), !.parent = p,
                   !.pid = IF p = 0 THEN s ELSE node[p].id]

(* add_decnode: dec_core_sem starts again with a permit for each core.     *)
AddDec(s, n) ==
    /\ list' = Entered(s, "dec", n)
    /\ sem' = [sem EXCEPT ![s] = Len(List(s, "dec")) + 1]
    /\ node' = [node EXCEPT ![n] = Fresh(s, "dec", 0)]

AddEnc(s, n) ==
    /\ list' = Entered(s, "enc", n)
    /\ node' = [node EXCEPT ![n] = Fresh(s, "enc", 0)] /\ UNCHANGED sem

AddMmu(s, n) ==
    /\ list' = Entered(s, "mmu", n)
    /\ node' = [node EXCEPT ![n] = Fresh(s, "mmu", 0)] /\ UNCHANGED sem

(* The first decoder or encoder of a slice at address a, or 0.             *)
CoreAt(s, t, a) ==
    LET i == SelectInSeq(List(s, t), LAMBDA n : RowOf(n).base = a)
    IN  IF i = 0 THEN 0 ELSE List(s, t)[i]

(* A cache belongs to a core of the kind it is made for.                   *)
AddCache(s, n) ==
    /\ list' = Entered(s, "cache", n)
    /\ node' = [node EXCEPT ![n] = Fresh(s, "cache", CoreAt(s, table[n].client, table[n].parent))]
    /\ UNCHANGED sem

(* An encoder's register window grows with what is attached to it.         *)
GrownBy(p, r) ==
    IF p # 0 /\ RowOf(p).type = "enc" /\ r.end > node[p].window
    THEN [node EXCEPT ![p].window = r.end] ELSE node

(* rsvmem_addr of a slice that the tables have made (addslice(NULL, 0, 0)). *)
SliceAddress == 0

(* What has the address of the slice is its own; else an AXI front end     *)
(* looks through the encoders first, as does a DEC400.                     *)
AddAxife(s, n) ==
    LET a == table[n].parent
        p == IF a = SliceAddress THEN 0
             ELSE IF CoreAt(s, "enc", a) # 0 THEN CoreAt(s, "enc", a) ELSE CoreAt(s, "dec", a)
    IN  /\ list' = Entered(s, table[n].type, n)
        /\ node' = [GrownBy(p, table[n]) EXCEPT ![n] = Fresh(s, table[n].type, p)]
        /\ UNCHANGED sem

AddDec400(s, n) == AddAxife(s, n)

(* The next row.  Without its slice it is lost; the functions for encoders *)
(* and MMUs write to the slice without looking whether they have one.      *)
AddRow ==
    LET t == table[row].type  s == table[row].slice
    IN  /\ phase = "add" /\ row <= Len(table)
        /\ row' = row + 1
        /\ slices' = SliceFor(t, s)
        /\ IF s >= slices'
           THEN /\ phase' = IF t \in {"enc", "mmu"} THEN "oops" ELSE phase
                /\ UNCHANGED <<list, sem, node>>
           ELSE /\ CASE t = "dec" -> AddDec(s, row)
                     [] t = "enc" -> AddEnc(s, row)
                     [] t = "cache" -> AddCache(s, row)
                     [] t = "dec400" -> AddDec400(s, row)
                     [] t = "axife" -> AddAxife(s, row)
                     [] t = "mmu" -> AddMmu(s, row)
                /\ UNCHANGED phase
        /\ UNCHANGED <<table, at, failed>>

StartProbe ==
    /\ phase = "add" /\ row > Len(table)
    /\ phase' = IF slices = 0 THEN "running" ELSE "probe"
    /\ at' = [at EXCEPT !.coren = Len(List(0, "dec"))]
    /\ UNCHANGED <<table, row, slices, list, node, sem, failed>>

-----------------------------------------------------------------------------
Type == Types[at.type]
Current == List(at.slice, Type)
AtNode == at.pos < at.coren /\ at.pos < Len(Current)

(* probe_hantroHW goes on to the next type, or to the next slice.          *)
NextList ==
    /\ phase = "probe" /\ ~AtNode
    /\ LET t == IF at.type < Len(Types) THEN at.type + 1 ELSE 1
           s == IF at.type < Len(Types) THEN at.slice ELSE at.slice + 1
       IN  IF s < slices
           THEN /\ at' = [slice |-> s, type |-> t, pos |-> 0, coren |-> Len(List(s, Types[t]))]
                /\ UNCHANGED phase
           ELSE phase' = "running" /\ UNCHANGED at
    /\ UNCHANGED <<table, row, slices, list, node, sem, failed>>

(* A plausible slip: the nodes behind keep their ids.                      *)
WithoutQuietly(n) == [node EXCEPT ![n].life = "freed"]

(* remove_decnode and its like: the nodes behind move up by one.           *)
Without(n) ==
    [m \in Nodes |->
        IF m = n THEN [node[m] EXCEPT !.life = "freed"]
        ELSE IF /\ m \in ToSet(Current) /\ node[m].id > node[n].id
             THEN [node[m] EXCEPT !.id = @ - 1] ELSE node[m]]

Left == [list EXCEPT ![at.slice][Type] = RemoveAt(@, at.pos + 1)]

Forward == at' = [at EXCEPT !.pos = @ + 1]

(* The registers answer: the node has its region and its mapping.          *)
Succeeds(n) ==
    /\ node' = [node EXCEPT ![n].probes = @ + 1, ![n].region = TRUE, ![n].map = TRUE]
    /\ UNCHANGED <<list, sem, phase, failed>>

(* No region, no mapping, wrong hardware or no interrupt: what the probe   *)
(* had reserved is released, and remove_node removes the node.             *)
Fails(n) ==
    /\ node' = [Without(n) EXCEPT ![n].probes = @ + 1]
    /\ list' = Left /\ failed' = failed \cup {n} /\ UNCHANGED <<sem, phase>>

(* No memory for the copy of the registers: their region and mapping stay. *)
FailsWithoutCopy(n) ==
    /\ node' = [Without(n) EXCEPT ![n].probes = @ + 1, ![n].region = TRUE, ![n].map = TRUE]
    /\ list' = Left /\ failed' = failed \cup {n} /\ UNCHANGED <<sem, phase>>

(* The same of an AXI front end, which remove_node does not know: it stays *)
(* in its list, with the region and mapping if only the copy has failed.   *)
StaysListed(n) ==
    /\ node' = [node EXCEPT ![n].probes = @ + 1]
    /\ failed' = failed \cup {n} /\ UNCHANGED <<list, sem, phase>>

StaysWithoutCopy(n) ==
    /\ node' = [node EXCEPT ![n].probes = @ + 1, ![n].region = TRUE, ![n].map = TRUE]
    /\ failed' = failed \cup {n} /\ UNCHANGED <<list, sem, phase>>

(* A plausible slip: the semaphore does not count the auxiliary core.      *)
AuxUncounted(n) ==
    /\ list' = Entered(at.slice, "dec", Aux(n))
    /\ node' = [node EXCEPT ![n].probes = @ + 1, ![n].region = TRUE, ![n].map = TRUE,
                            ![Aux(n)] = [Fresh(at.slice, "dec", 0) EXCEPT
                                           !.region = TRUE, !.map = TRUE]]
    /\ UNCHANGED <<sem, phase, failed>>

(* A decoder with an auxiliary core behind it, which is entered as well.   *)
SucceedsWithAux(n) ==
    /\ list' = Entered(at.slice, "dec", Aux(n))
    /\ sem' = [sem EXCEPT ![at.slice] = Len(Current) + 1]
    /\ node' = [node EXCEPT ![n].probes = @ + 1, ![n].region = TRUE, ![n].map = TRUE,
                            ![Aux(n)] = [Fresh(at.slice, "dec", 0) EXCEPT
                                           !.region = TRUE, !.map = TRUE]]
    /\ UNCHANGED <<phase, failed>>

(* An auxiliary core that is visited itself finds its own registers taken. *)
ProbeDec(n) ==
    /\ Type = "dec"
    /\ Fails(n) \/ (~IsAux(n) /\ (Succeeds(n) \/ SucceedsWithAux(n)))

(* hantroenc_probe: the message about registers it could not reserve takes *)
(* their size from a pointer that is NULL on this path.                    *)
EncReserveOops(n) ==
    /\ phase' = "oops" /\ failed' = failed \cup {n} /\ UNCHANGED <<list, node, sem>>

ProbeEnc(n) == Type = "enc" /\ (Succeeds(n) \/ Fails(n) \/ EncReserveOops(n))
ProbeCache(n) == Type = "cache" /\ (Succeeds(n) \/ Fails(n) \/ FailsWithoutCopy(n))
ProbeDec400(n) == Type = "dec400" /\ (Succeeds(n) \/ Fails(n))
ProbeAxife(n) == Type = "axife" /\ (Succeeds(n) \/ StaysListed(n) \/ StaysWithoutCopy(n))
ProbeMmu(n) == Type = "mmu" /\ (Succeeds(n) \/ Fails(n))

Probe ==
    /\ phase = "probe" /\ AtNode
    /\ LET n == Current[at.pos + 1]
       IN  \/ ProbeDec(n) \/ ProbeEnc(n) \/ ProbeCache(n)
           \/ ProbeDec400(n) \/ ProbeAxife(n) \/ ProbeMmu(n)
    /\ Forward /\ UNCHANGED <<table, row, slices>>

-----------------------------------------------------------------------------
Unload ==
    /\ phase = "running"
    /\ phase' = "cleanup" /\ at' = [at EXCEPT !.type = 1]
    /\ UNCHANGED <<table, row, slices, list, node, sem, failed>>

(* A plausible slip: only the first slice is cleaned up.                   *)
NodesOfFirst(t) == ToSet(List(0, t))

(* All the nodes of type t, on every slice.                                *)
NodesOf(t) == UNION {ToSet(List(s, t)) : s \in 0..(slices - 1)}

Released(t, what) ==
    [n \in Nodes |-> IF n \in NodesOf(t)
                     THEN [node[n] EXCEPT !.life = "freed", !.region = FALSE,
                                          !.map = @ /\ ~("map" \in what)]
                     ELSE node[n]]

(* Every node is reset first: one that nobody has mapped is written to.    *)
CleanDec ==
    IF \A n \in NodesOf("dec") : node[n].map
    THEN node' = Released("dec", {"map"}) /\ UNCHANGED phase
    ELSE phase' = "oops" /\ UNCHANGED node

CleanEnc ==
    IF \A n \in NodesOf("enc") : node[n].map
    THEN node' = Released("enc", {"map"}) /\ UNCHANGED phase
    ELSE phase' = "oops" /\ UNCHANGED node

CleanCache ==
    IF \A n \in NodesOf("cache") : node[n].map
    THEN node' = Released("cache", {"map"}) /\ UNCHANGED phase
    ELSE phase' = "oops" /\ UNCHANGED node

(* The nodes of the other types come from vmalloc and are not cleared: the *)
(* pointer of one that was not probed is whatever the memory holds.        *)
CleanDec400 ==
    \/ node' = Released("dec400", {"map"}) /\ UNCHANGED phase
    \/ (\E n \in NodesOf("dec400") : ~node[n].map) /\ phase' = "oops" /\ UNCHANGED node

CleanMmu ==
    \/ node' = Released("mmu", {"map"}) /\ UNCHANGED phase
    \/ (\E n \in NodesOf("mmu") : ~node[n].map) /\ phase' = "oops" /\ UNCHANGED node

(* The last, and after it slice_remove.  The mappings stay; a front end    *)
(* that was not mapped, as its probe failed, may be freed through garbage. *)
CleanAxife ==
    \/ node' = Released("axife", {}) /\ phase' = "gone"
    \/ (\E n \in NodesOf("axife") : ~node[n].map) /\ phase' = "oops" /\ UNCHANGED node

Cleanup ==
    LET t == CleanupOrder[at.type]
    IN  /\ phase = "cleanup"
        /\ \/ t = "dec" /\ CleanDec
           \/ t = "enc" /\ CleanEnc
           \/ t = "cache" /\ CleanCache
           \/ t = "dec400" /\ CleanDec400
           \/ t = "mmu" /\ CleanMmu
           \/ t = "axife" /\ CleanAxife
        /\ list' = IF phase' = "oops" THEN list
                   ELSE [s \in DOMAIN list |-> [list[s] EXCEPT ![t] = <<>>]]
        /\ at' = IF phase' = "cleanup" THEN [at EXCEPT !.type = @ + 1] ELSE at
        /\ slices' = IF phase' = "gone" THEN 0 ELSE slices
        /\ UNCHANGED <<table, row, sem, failed>>

Next == AddRow \/ StartProbe \/ NextList \/ Probe \/ Unload \/ Cleanup

Spec == Init /\ [][Next]_vars

-----------------------------------------------------------------------------
Failed(n) == n \in failed
Attached == {"cache", "dec400", "axife"}

(* Type correctness.                                                       *)
SliceTypeOK ==
    /\ phase \in {"add", "probe", "running", "cleanup", "gone", "oops"}
    /\ \A n \in Nodes : /\ node[n].life \in {"none", "listed", "freed"}
                       /\ node[n].id \in Nat /\ node[n].region \in BOOLEAN
                       /\ node[n].parent \in {0} \cup Rows

(* The core_id of a node is its position in the list, which user space     *)
(* names it by, through every removal and every auxiliary core.            *)
IdsMatchPositions ==
    \A s \in DOMAIN list, t \in ToSet(Types) :
        \A k \in DOMAIN List(s, t) : node[List(s, t)[k]].id = k - 1

(* A slice has a permit for each decoder it lists: none would ever be left *)
(* waiting beside a free core.  Only a removal leaves more.                *)
PermitsCoverCores ==
    phase \in {"add", "probe", "running"} =>
        \A s \in DOMAIN list :
            /\ sem[s] >= Len(List(s, "dec"))
            /\ sem[s] > Len(List(s, "dec")) =>
                 \E n \in failed : RowOf(n).type = "dec" /\ RowOf(n).slice = s

(* If every probe has succeeded the module unloads without touching what   *)
(* is not mapped, and leaves no node and no region behind, nor a mapping   *)
(* but those of the AXI front ends.                                        *)
CleanUnload ==
    failed = {} =>
        /\ phase # "oops"
        /\ phase = "gone" => \A n \in Nodes :
              /\ node[n].life # "listed" /\ ~node[n].region
              /\ node[n].map => RowOf(n).type = "axife"

(* get_dec400nodebytype, get_axifenodebytype and get_cachenodebytype.      *)
NodeByType(s, t, pt, id) ==
    LET i == SelectInSeq(List(s, t), LAMBDA c :
                node[c].parent # 0 /\ RowOf(node[c].parent).type = pt /\ node[c].pid = id)
    IN  IF i = 0 THEN 0 ELSE List(s, t)[i]

(* While every probe succeeds, what these functions find for a core is     *)
(* attached to that core.  (A removal moves the numbers of the cores, not  *)
(* the copies of them in what is attached.)                                *)
LookupFindsOwn ==
    phase = "running" /\ failed = {} =>
        \A s \in DOMAIN list, t \in Attached, pt \in Parents :
            \A k \in DOMAIN List(s, pt) :
                LET found == NodeByType(s, t, pt, k - 1)
                IN  found # 0 => node[found].parent = List(s, pt)[k]

(* User space names a core by its id, and what is attached to a core by    *)
(* that id's copy: the one survives removals, the other their absence.     *)
IdsStayTrue == IdsMatchPositions /\ LookupFindsOwn
=============================================================================
