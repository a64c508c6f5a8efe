---------------------------- MODULE MCSliceCores ----------------------------
EXTENDS SliceCores

Core(t, s, a) == [type |-> t, slice |-> s, base |-> a, parent |-> 0, end |-> 0, client |-> "dec"]
Node(t, s, p, e, c) == [type |-> t, slice |-> s, base |-> 0, parent |-> p, end |-> e, client |-> c]

\* three decoders and two encoders with what may be attached to them; two slices
MCTables ==
    {<<Core("dec", 0, 1), Core("dec", 0, 2), Core("dec", 0, 3),
       Core("enc", 0, 4), Core("enc", 0, 5),
       Node("cache", 0, 2, 0, "dec"), Node("cache", 0, 5, 0, "enc"),
       Node("dec400", 0, 5, 3, "enc"), Node("axife", 0, 5, 2, "enc"), Node("axife", 0, 3, 2, "dec"),
       Core("mmu", 0, 0)>>,
     <<Core("dec", 0, 1), Core("dec", 1, 2), Core("dec", 1, 3), Core("enc", 1, 4),
       Node("dec400", 0, 0, 1, "dec"), Node("dec400", 0, 1, 2, "dec"), Node("axife", 1, 4, 1, "enc"),
       Node("axife", 1, 4, 2, "enc"), Node("cache", 2, 1, 0, "dec"),
       Core("mmu", 1, 0), Core("mmu", 1, 0)>>}
=============================================================================
