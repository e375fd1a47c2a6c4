------------------------------ MODULE HllHash ------------------------------
(***************************************************************************)
(* How sketch.Add of internal/cardinality/hll turns the bits of a hash     *)
(* into a register number and a rank.  The code works on HashBits = 64     *)
(* bits with p = 14; the width and the precision are parameters here.      *)
(***************************************************************************)
EXTENDS Naturals, PowersOfTwo

CONSTANTS
  HashBits,  \* width of the hash, 64 in the code
  P          \* precision: number of bits that select the register

ASSUME WidthAssumption == HashBits \in Nat /\ P \in 1 .. HashBits - 1

NumRegs == Pow2[P]
Hashes == 0 .. Pow2[HashBits] - 1

\* hash >> (64 - precision)
IdxOf(hash) == hash \div Pow2[HashBits - P]

\* hash<<precision | (1<<precision - 1).  The shift drops the top bits and
\* clears the low ones, so the disjunction is a sum.
Shifted(hash) == ((hash * Pow2[P]) % Pow2[HashBits]) + (Pow2[P] - 1)

\* bits.LeadingZeros64
LeadingZeros(w) ==
  IF w = 0 THEN HashBits
  ELSE CHOOSE z \in 0 .. HashBits - 1 :
         Pow2[HashBits - 1 - z] <= w /\ w < Pow2[HashBits - z]

RhoOf(hash) == LeadingZeros(Shifted(hash)) + 1
=============================================================================
