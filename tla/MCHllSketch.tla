---------------------------- MODULE MCHllSketch ----------------------------
(* HllSketch on hashes of four bits, with two registers.                   *)
EXTENDS HllSketch, TLC

MCLinear == <<1, 0>>   \* 2 ln 2 and 2 ln 1, rounded

HandleSymmetry == Permutations(Handle)
=============================================================================
