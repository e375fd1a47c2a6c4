----------------------------- MODULE MCCluster -----------------------------
(* Cluster on small instances: two servers that become three.              *)
EXTENDS Cluster

Ask(kind, ids) == [kind |-> kind, group |-> "g", ids |-> ids]

\* A group that stays with server 1 and one that moves from it to server 3.
\* Those of server 2 differ by the names of the two old servers, and whom
\* the walk meets after an owner makes no difference.
MCWalk == {<<1, 2, 3>>, <<3, 1, 2>>}
MCWalkTwo == {<<1, 2>>, <<2, 1>>}

MCGroup == {"g"}
MCCounted == {<<"g", 1>>}
MCJob == {Ask("BatchAdd", <<1, 2>>), Ask("Query", <<>>)}
MCJobOne == {Ask("Add", <<1>>), Ask("Query", <<>>)}
=============================================================================
