------------------------------- MODULE Shard -------------------------------
(***************************************************************************)
(* What a shard of the tracker promises its callers, whichever write path  *)
(* implements it (the Raft node, or AddAndPersist in standalone mode).     *)
(* A pair (group, id) that was asked for may be counted in memory, on its  *)
(* own or in a sketch with others; a group's sketch in memory may be       *)
(* saved; when the process ends the memory is lost, and a new process      *)
(* starts from exactly what was saved.  Nothing is counted that was not    *)
(* asked for, and nothing saved is ever lost.                              *)
(***************************************************************************)
EXTENDS Sketch

CONSTANT Group

VARIABLES
  on,      \* the process runs
  asked,   \* pairs some caller asked to add
  mem,     \* sketches in memory
  disk     \* sketches saved

svars == <<on, asked, mem, disk>>

NoSketches == [x \in {} |-> New]
Write(f, g, s) == [x \in DOMAIN f \cup {g} |-> IF x = g THEN s ELSE f[x]]

SInit == on = FALSE /\ asked = {} /\ mem = NoSketches /\ disk = NoSketches

Boot == ~on /\ on' = TRUE /\ mem' = disk /\ UNCHANGED <<asked, disk>>

Ask == on /\ asked \subseteq asked' /\ UNCHANGED <<on, mem, disk>>

Count(g, id) ==
  /\ on /\ <<g, id>> \in asked
  /\ mem' = Write(mem, g, AddId(IF g \in DOMAIN mem THEN mem[g] ELSE New, id))
  /\ UNCHANGED <<on, asked, disk>>

\* A sketch of pairs that were asked for is merged into their group.
Fold ==
  /\ on /\ UNCHANGED <<on, asked, disk>>
  /\ \E g \in Group, s \in Registers :
       /\ mem' = Write(mem, g, IF g \in DOMAIN mem THEN MergeSketch(mem[g], s) ELSE s)
       /\ \E S \in SUBSET {id \in Id : <<g, id>> \in asked} : Represents(s, S)

Save(g) ==
  /\ on /\ g \in DOMAIN mem
  /\ disk' = Write(disk, g, mem[g])
  /\ UNCHANGED <<on, asked, mem>>

End == on /\ on' = FALSE /\ mem' = NoSketches /\ UNCHANGED <<asked, disk>>

SNext ==
  \/ Boot \/ End \/ Ask \/ Fold
  \/ \E g \in Group : Save(g) \/ \E id \in Id : Count(g, id)

SSpec == SInit /\ [][SNext]_svars
=============================================================================
