---------------------------- MODULE MCDriverLife ----------------------------
EXTENDS DriverLife, TLC

CONSTANTS f1, f2

\* two decoder cores, as in the second example of vcmd_offset.h, and one encoder
MCCoresOf == "dec" :> 2 @@ "enc" :> 1
MCSymmetry == Permutations(Files)
=============================================================================
