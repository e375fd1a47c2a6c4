----------------------------- MODULE MCRaftNode -----------------------------
(* RaftNode on small instances: hashes of four bits, two registers.        *)
EXTENDS RaftNode, TLC

Hash == INSTANCE HllHash WITH HashBits <- 4, P <- 1

MCId == {1, 6, 9}          \* the ids stand for their own hash
MCIdPair == {1, 9}
MCReg == 0 .. Hash!NumRegs - 1
MCMaxRho == 4
MCIdx == [id \in Id |-> Hash!IdxOf(id)]
MCRho == [id \in Id |-> Hash!RhoOf(id)]

\* Calls are interchangeable: each is made once, with arguments of its own.
CallSymmetry == Permutations(Call)
=============================================================================
