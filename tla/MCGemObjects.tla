---------------------------- MODULE MCGemObjects ----------------------------
EXTENDS GemObjects, TLC

MCPool == <<1>>   \* mem_table: one block of one chunk
MCSymmetry == Permutations(Objects) \cup Permutations(Threads)
=============================================================================
