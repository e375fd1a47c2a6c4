------------------------------- MODULE MCRing -------------------------------
(* Ring on small instances; nodes are interchangeable.                     *)
EXTENDS Ring, TLC

\* A ring that RemoveNode left with a point of nobody is not taken further.
NoGhosts == clean

NodeSymmetry == Permutations(Node)
=============================================================================
