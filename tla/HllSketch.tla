----------------------------- MODULE HllSketch -----------------------------
(***************************************************************************)
(* Sketches fed with ids: Add, Merge, Clone, the trip through Bytes and    *)
(* Parse, and Cardinality.  Every call is made on a HyperLogLog of         *)
(* internal/cardinality/hll, whose registers are computed from the bits of *)
(* each hash as the code computes them, and on a bitmap of                 *)
(* internal/cardinality/bitmap, so that the two implementations of the     *)
(* contract in sketch.go are compared.  A handle is a pointer: a clone     *)
(* that shared its registers with the original would show.                 *)
(***************************************************************************)
EXTENDS HllHash, FiniteSets

CONSTANTS
  Handle,   \* the sketches a caller holds; each starts with its own memory
  MaxIds,   \* bound: distinct hashes in play at a time
  Linear    \* zeros -> round(numRegs * ln(numRegs / zeros))

\* numRegs*ln(numRegs/zeros) is 0 for zeros = numRegs and at least 1 for less.
ASSUME LinearAssumption ==
  Linear \in [1 .. NumRegs -> Nat] /\ \A z \in 1 .. NumRegs : Linear[z] = 0 <=> z = NumRegs

VARIABLES
  ref,    \* the memory each HyperLogLog handle points to
  regs,   \* the registers in each memory
  rb,     \* the roaring64 bitmap of each handle: a set of ids
  wire,   \* a serialised HyperLogLog, or None
  rbWire  \* the serialised bitmap: roaring64's bytes stand for the set

vars == <<ref, regs, rb, wire, rbWire>>

Registers == 0 .. NumRegs - 1
TopRank == HashBits - P + 1

Regs == INSTANCE Sketch WITH
  Id <- Hashes, Reg <- Registers, MaxRho <- TopRank,
  Precision <- P, Idx <- [h \in Hashes |-> IdxOf(h)],
  Rho <- [h \in Hashes |-> RhoOf(h)]

Est == INSTANCE HllEstimate WITH Reg <- Registers, MaxRho <- TopRank

None == [prec |-> 0, body |-> <<>>]

\* The registers a handle points to.
Sk(s) == regs[ref[s]]
SetSk(s, v) == regs' = [regs EXCEPT ![ref[s]] = v]

Init ==
  /\ ref = [s \in Handle |-> s] /\ regs = [s \in Handle |-> Regs!New]
  /\ rb = [s \in Handle |-> {}] /\ wire = None /\ rbWire = {}

\* The library's Add and Or.
BitmapAdd(b, id) == b \cup {id}
BitmapMerge(b, o) == b \cup o

Add(s, hash) ==
  /\ Cardinality(UNION {rb[o] : o \in Handle} \cup rbWire \cup {hash}) <= MaxIds
  /\ SetSk(s, Regs!AddId(Sk(s), hash))
  /\ rb' = [rb EXCEPT ![s] = BitmapAdd(@, hash)]
  /\ UNCHANGED <<ref, wire, rbWire>>

Merge(s, o) ==
  /\ SetSk(s, Regs!MergeSketch(Sk(s), Sk(o)))
  /\ rb' = [rb EXCEPT ![s] = BitmapMerge(@, rb[o])]
  /\ UNCHANGED <<ref, wire, rbWire>>

\* Faulty variant: the copy points to the original's registers.
CloneShallow(s, o) ==
  /\ ref' = [ref EXCEPT ![o] = ref[s]]
  /\ rb' = [rb EXCEPT ![o] = rb[s]]
  /\ UNCHANGED <<regs, wire, rbWire>>

\* o becomes a copy of s, in memory of its own.
Clone(s, o) ==
  /\ SetSk(o, Sk(s))
  /\ rb' = [rb EXCEPT ![o] = rb[s]]
  /\ UNCHANGED <<ref, wire, rbWire>>

Serialise(s) ==
  /\ wire' = Regs!Bytes(Sk(s)) /\ rbWire' = rb[s]
  /\ UNCHANGED <<ref, regs, rb>>

\* Parse of a buffer that is long enough and has the right precision.
Deserialise(s) ==
  /\ Regs!CanParse(wire)
  /\ SetSk(s, Regs!Parse(wire))
  /\ rb' = [rb EXCEPT ![s] = rbWire]
  /\ UNCHANGED <<ref, wire, rbWire>>

Next ==
  \E s \in Handle :
    \/ \E hash \in Hashes : Add(s, hash)
    \/ \E o \in Handle \ {s} : Merge(s, o) \/ Clone(s, o)
    \/ Serialise(s) \/ Deserialise(s)

Spec == Init /\ [][Next]_vars

-----------------------------------------------------------------------------
(* The textbook: bit i of a hash, counted from the top; the first P bits   *)
(* name the register, and the rank is the position of the first 1 among    *)
(* the others, or one past the last if there is none.                      *)

Bit(hash, i) == (hash \div Pow2[HashBits - i]) % 2

Selects(hash, r) == \A i \in 1 .. P : Bit(hash, i) = (r \div Pow2[P - i]) % 2

FirstOne(hash) ==
  CHOOSE k \in 1 .. HashBits - P + 1 :
    /\ \A j \in 1 .. k - 1 : Bit(hash, P + j) = 0
    /\ k = HashBits - P + 1 \/ Bit(hash, P + k) = 1

\* Whatever adds, merges, clones and trips over the wire led to a sketch, each
\* register holds the largest textbook rank of the ids that select it among
\* those the bitmap has counted: no id is lost, invented or shared with
\* another sketch.
RegistersAreMaximalRanks ==
  \A s \in Handle : \A r \in Registers :
    LET ranks == {FirstOne(h) : h \in {x \in rb[s] : Selects(x, r)}}
    IN  /\ \A k \in ranks : k <= Sk(s)[r]
        /\ Sk(s)[r] \in ranks \cup {0}

\* The two implementations of Cardinality agree on what is empty: the
\* HyperLogLog counts zero exactly when the bitmap does, because of its
\* small-range correction.
EmptyCountsZero ==
  \A s \in Handle : Est!Estimate(Sk(s)) = 0 <=> rb[s] = {}
=============================================================================
