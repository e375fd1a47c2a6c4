------------------------------- MODULE Sketch -------------------------------
(***************************************************************************)
(* The HyperLogLog sketch of internal/cardinality/hll: an array of         *)
(* registers, each holding the largest rank seen for it.  The hash of an   *)
(* id enters only through the register it selects, Idx[id], and the rank   *)
(* it carries, Rho[id]; module HllHash derives the two from the bits of    *)
(* the hash, as the code does, and module HllEstimate computes the         *)
(* estimate from the registers.                                            *)
(***************************************************************************)
EXTENDS Naturals

CONSTANTS
  Id,          \* the ids a caller may count
  Reg,         \* register numbers, 0 .. numRegs-1 in the code
  MaxRho,      \* largest rank, 51 for 64-bit hashes and precision 14
  Precision,   \* the precision a serialised sketch carries in its header
  Idx,         \* the register an id's hash selects
  Rho          \* the rank an id's hash carries

ASSUME RhoAssumption == MaxRho \in Nat \ {0}
ASSUME PrecisionAssumption == Precision \in Nat
ASSUME IdxAssumption == Idx \in [Id -> Reg]
ASSUME RankAssumption == Rho \in [Id -> 1 .. MaxRho]

Registers == [Reg -> 0 .. MaxRho]

\* Algorithm.New: every register is zero.
New == [r \in Reg |-> 0]

\* Faulty variant: the last rank wins.
AddIdOverwrites(s, id) == [s EXCEPT ![Idx[id]] = Rho[id]]

\* sketch.Add: the selected register keeps the larger rank.
AddId(s, id) ==
  [s EXCEPT ![Idx[id]] = IF Rho[id] > @ THEN Rho[id] ELSE @]

\* Faulty variant: the ranks are added up.
MergeSketchSums(s, o) == [r \in Reg |-> s[r] + o[r]]

\* sketch.Merge: element-wise maximum.
MergeSketch(s, o) == [r \in Reg |-> IF o[r] > s[r] THEN o[r] ELSE s[r]]

\* sketch.Bytes: a precision header followed by the registers.
Bytes(s) == [prec |-> Precision, body |-> s]

\* Algorithm.Parse succeeds on a buffer with the right header and at least
\* numRegs registers; what follows them is ignored.
CanParse(b) == Reg \subseteq DOMAIN b.body /\ b.prec = Precision

\* Faulty variant: the registers are read from the header on.
ParseFromHeader(b) == [r \in Reg |-> IF r = 0 THEN b.prec ELSE b.body[r - 1]]

Parse(b) == [r \in Reg |-> b.body[r]]

Buffers == [prec : {Precision}, body : Registers]

-----------------------------------------------------------------------------
(* What a sketch stands for.                                               *)

\* The registers already account for id: adding it again changes nothing.
Absorbs(s, id) == Rho[id] <= s[Idx[id]]

\* No register of s exceeds the one of t.
Below(s, t) == \A r \in Reg : s[r] <= t[r]

\* s is exactly the sketch of the set of ids S: every id of S is accounted
\* for, and every nonzero register is explained by an id of S.
Represents(s, S) ==
  /\ \A id \in S : Absorbs(s, id)
  /\ \A r \in Reg : s[r] # 0 => \E id \in S : Idx[id] = r /\ Rho[id] = s[r]
=============================================================================
