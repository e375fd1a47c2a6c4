---------------------------- MODULE PowersOfTwo ----------------------------
(***************************************************************************)
(* The powers of two that internal/cardinality/hll shifts by and sums, as  *)
(* a function of the naturals: the prover can unfold it, which it cannot   *)
(* do with exponentiation.                                                 *)
(***************************************************************************)
EXTENDS Naturals

Pow2[n \in Nat] == IF n = 0 THEN 1 ELSE 2 * Pow2[n - 1]
=============================================================================
