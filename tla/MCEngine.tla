------------------------------ MODULE MCEngine ------------------------------
(* Engine on small instances: hashes of four bits, two registers.          *)
EXTENDS Engine, TLC

CONSTANTS g1, g2

Hash == INSTANCE HllHash WITH HashBits <- 4, P <- 1

MCId == {1, 9}          \* the ids stand for their own hash
MCReg == 0 .. Hash!NumRegs - 1
MCMaxRho == 4
MCIdx == [id \in Id |-> Hash!IdxOf(id)]
MCRho == [id \in Id |-> Hash!RhoOf(id)]

MCNameRank == [g \in Group |-> IF g = g1 THEN 1 ELSE 2]

Est == INSTANCE HllEstimate WITH Linear <- <<1, 0>>   \* 2 ln 2 and 2 ln 1, rounded
MCEstimate == [s \in Registers |-> Est!Estimate(s)]

Cmd(type, payload) == [type |-> type, payload |-> payload]
Merge(algo, b) == Cmd("MERGE_SKETCH", [algo |-> algo, b |-> b])

\* One good command of each type; a batch cut after its first id and an
\* empty one; payloads that are refused.
MCCommand == {
  Cmd("ADD", <<1>>), Cmd("ADD", <<1, 9>>),
  Cmd("BATCH_ADD", <<2, 1, 9>>), Cmd("BATCH_ADD", <<2, 1, Cut>>),
  Cmd("BATCH_ADD", <<0>>), Cmd("BATCH_ADD", <<Cut>>),
  Merge("hll", Bytes(AddId(AddId(New, 1), 9))),
  Merge("bitmap", Bytes(AddId(New, 9))),
  Merge("hll", [prec |-> Precision, body |-> <<>>]),
  Cmd("NOPE", <<>>)}

OpSymmetry == Permutations(Op)
=============================================================================
