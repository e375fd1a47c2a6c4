---------------------------- MODULE HllEstimate ----------------------------
(***************************************************************************)
(* sketch.Cardinality of internal/cardinality/hll: the estimate the server *)
(* answers a Query with and the collector exports.  The sums of powers of  *)
(* two and the constant alphaMM are kept as exact fractions; only the      *)
(* rounded values of numRegs*ln(numRegs/zeros) are a table, because TLA+   *)
(* has no logarithm.                                                       *)
(***************************************************************************)
EXTENDS Naturals, PowersOfTwo, FiniteSets, FiniteSetsExt

CONSTANTS
  Reg,      \* register numbers
  MaxRho,   \* largest rank
  Linear    \* zeros -> round(numRegs * ln(numRegs / zeros))

NumRegs == Cardinality(Reg)

\* sum of 2^-v, as a multiple of 2^-MaxRho
Sum(s) == MapThenSumSet(LAMBDA r : Pow2[MaxRho - s[r]], Reg)

\* Faulty variant: a register that holds 1 is taken for an empty one.
ZerosUpToOne(s) == Cardinality({r \in Reg : s[r] <= 1})

Zeros(s) == Cardinality({r \in Reg : s[r] = 0})

\* est = alphaMM / sum is Num / Den(s): alphaMM, 0.7213 / (1 + 1.079/numRegs)
\* times numRegs squared, is 7213 numRegs^3 / (10000 numRegs + 10790).
Num == 7213 * (NumRegs * NumRegs * NumRegs) * Pow2[MaxRho]
Den(s) == (10000 * NumRegs + 10790) * Sum(s)

\* math.Round
Round(n, d) == (2 * n + d) \div (2 * d)

\* Linear counting up to 2.5*numRegs, as long as a register is zero.
Estimate(s) ==
  IF 2 * Num <= 5 * NumRegs * Den(s) /\ Zeros(s) > 0
  THEN Linear[Zeros(s)]
  ELSE Round(Num, Den(s))
=============================================================================
