-------------------------------- MODULE Ring --------------------------------
(***************************************************************************)
(* The consistent-hash ring of internal/router/router.go.  The hash of a   *)
(* virtual node is an arbitrary value, chosen once: two virtual nodes may  *)
(* share it.  A group enters only through its hash, so Resolve is a        *)
(* function of points.  The ring's mutex makes each operation atomic.      *)
(***************************************************************************)
EXTENDS Naturals, Sequences, FiniteSets, Functions

CONSTANTS
  Node,        \* node addresses
  NoNode,      \* the empty address
  VNodes,      \* virtual nodes of a node, 150 in the code
  Points,      \* number of hash values, 2^32 in the code
  MaxPoints    \* bound on the points of the ring

ASSUME NodeAssumption == NoNode \notin Node
ASSUME SizeAssumption == VNodes \in Nat \ {0} /\ Points \in Nat \ {0}

VARIABLES
  pt,        \* the hash of each virtual node; never changes
  ring,      \* sorted hash points
  nodeMap,   \* hash -> node address
  members,   \* history: the nodes added and not removed
  clean      \* history: no node was removed while two points were equal

vars == <<pt, ring, nodeMap, members, clean>>

Point == 0 .. Points - 1
VNode == 0 .. VNodes - 1

PointsOf(addr) == {pt[<<addr, i>>] : i \in VNode}

Init ==
  /\ pt \in [Node \X VNode -> Point]
  /\ ring = <<>> /\ nodeMap = [h \in {} |-> NoNode]
  /\ members = {} /\ clean = TRUE

\* sort.Slice: position k takes the k-th smallest value.
Sorted(s) ==
  [k \in 1 .. Len(s) |-> CHOOSE v \in Range(s) :
     /\ Cardinality({i \in 1 .. Len(s) : s[i] < v}) < k
     /\ k <= Cardinality({i \in 1 .. Len(s) : s[i] <= v})]

\* Faulty variant: the sort is forgotten.
AddNodeUnsorted(addr) ==
  /\ Len(ring) + VNodes <= MaxPoints
  /\ ring' = ring \o [k \in 1 .. VNodes |-> pt[<<addr, k - 1>>]]
  /\ nodeMap' = [h \in DOMAIN nodeMap \cup PointsOf(addr) |->
                   IF h \in PointsOf(addr) THEN addr ELSE nodeMap[h]]
  /\ members' = members \cup {addr}
  /\ UNCHANGED <<pt, clean>>

\* AddNode: append the points, the map takes the newcomer, sort.
AddNode(addr) ==
  /\ Len(ring) + VNodes <= MaxPoints
  /\ ring' = Sorted(ring \o [k \in 1 .. VNodes |-> pt[<<addr, k - 1>>]])
  /\ nodeMap' = [h \in DOMAIN nodeMap \cup PointsOf(addr) |->
                   IF h \in PointsOf(addr) THEN addr ELSE nodeMap[h]]
  /\ members' = members \cup {addr}
  /\ UNCHANGED <<pt, clean>>

\* The map answers "" for a point it does not hold.
NodeAt(h) == IF h \in DOMAIN nodeMap THEN nodeMap[h] ELSE NoNode

NoRepeats == \A i, j \in 1 .. Len(ring) : ring[i] = ring[j] => i = j

\* The points at the positions of S, in their order.
Select(S) ==
  [k \in 1 .. Cardinality(S) |-> ring[CHOOSE i \in S : Cardinality({j \in S : j <= i}) = k]]

\* Faulty variant: the points stay on the ring.
RemoveNodeKeepsPoints(addr) ==
  /\ addr \in members
  /\ nodeMap' = [h \in {x \in DOMAIN nodeMap : nodeMap[x] # addr} |-> nodeMap[h]]
  /\ members' = members \ {addr} /\ clean' = (clean /\ NoRepeats)
  /\ UNCHANGED <<pt, ring>>

\* RemoveNode: the loop deletes a point from the map at its first occurrence,
\* so a second occurrence finds "" there and is kept.  For a node that is not
\* there it changes nothing.
RemoveNode(addr) ==
  /\ addr \in members
  /\ ring' = Select({i \in 1 .. Len(ring) :
                       NodeAt(ring[i]) # addr \/ \E j \in 1 .. i - 1 : ring[j] = ring[i]})
  /\ nodeMap' = [h \in {x \in DOMAIN nodeMap : nodeMap[x] # addr} |-> nodeMap[h]]
  /\ members' = members \ {addr} /\ clean' = (clean /\ NoRepeats)
  /\ UNCHANGED pt

Next == \E addr \in Node : AddNode(addr) \/ RemoveNode(addr)

Spec == Init /\ [][Next]_vars

\* Faulty variant: a hash beyond the last point stays there.
SearchClamped(h) ==
  CHOOSE i \in 1 .. Len(ring) :
    /\ i = Len(ring) \/ ring[i] >= h
    /\ \A j \in 1 .. i - 1 : ring[j] < h

\* Faulty variant: the point after the one found.
SearchNext(h) ==
  LET at == CHOOSE i \in 1 .. Len(ring) :
              /\ i = Len(ring) \/ ring[i] >= h
              /\ \A j \in 1 .. i - 1 : ring[j] < h
  IN  IF at = Len(ring) THEN 1 ELSE at + 1

\* sort.Search with the wrap-around: the first point at or after h, or the
\* first of all.  The library's answer is meaningful on a sorted slice only.
Search(h) ==
  IF ring[Len(ring)] < h THEN 1
  ELSE CHOOSE i \in 1 .. Len(ring) :
         ring[i] >= h /\ \A j \in 1 .. i - 1 : ring[j] < h

Resolve(h) == IF ring = <<>> THEN NoNode ELSE NodeAt(ring[Search(h)])

-----------------------------------------------------------------------------
(* Properties.                                                             *)

\* The ring is sorted, as sort.Search needs, and holds points; the map names
\* nodes.
TypeOK ==
  /\ pt \in [Node \X VNode -> Point] /\ members \subseteq Node
  /\ ring \in Seq(Point)
  /\ \A i, j \in 1 .. Len(ring) : i <= j => ring[i] <= ring[j]
  /\ DOMAIN nodeMap \subseteq Point /\ \A h \in DOMAIN nodeMap : nodeMap[h] \in Node
  /\ clean \in BOOLEAN

\* How far clockwise p lies from h.
Clockwise(h, p) == IF p >= h THEN p - h ELSE p + Points - h

\* "the closest clockwise virtual node": no virtual node of any member is
\* closer to a group than the nearest one of the node that owns it, unless a
\* node was removed while points were equal.
ResolveIsClosest ==
  clean /\ members # {} => \A h \in Point :
    /\ Resolve(h) \in members
    /\ \E p \in PointsOf(Resolve(h)) : \A n \in members : \A q \in PointsOf(n) :
         Clockwise(h, p) <= Clockwise(h, q)

\* Growing the cluster moves a group to the newcomer or not at all, even when
\* hashes collide.
GrowthMovesOnlyToNewcomer ==
  [][\A n \in members' \ members : \A h \in Point :
       Resolve(h)' \in {Resolve(h), n}]_vars

\* Shrinking it moves the groups of the node that left and no others, even
\* when hashes collide.
RemovalMovesOnlyItsGroups ==
  [][\A n \in members \ members' : \A h \in Point :
       Resolve(h) # n => Resolve(h)' = Resolve(h)]_vars

\* The ring is what its members make it, whatever joined, repeatedly, and left
\* before: every point belongs to a member, and to one it can belong to.  So
\* servers with the same members agree on every group, in whatever order they
\* learnt of them, unless two members share a point.
RingIsItsMembers ==
  clean =>
    /\ {ring[i] : i \in 1 .. Len(ring)} = UNION {PointsOf(n) : n \in members}
    /\ DOMAIN nodeMap = UNION {PointsOf(n) : n \in members}
    /\ \A h \in DOMAIN nodeMap : nodeMap[h] \in members /\ h \in PointsOf(nodeMap[h])
=============================================================================
