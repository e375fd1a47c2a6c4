---------------------------- MODULE EngineState ----------------------------
(***************************************************************************)
(* The values the engine of internal/cardinality and the store of          *)
(* internal/store hold: a sketch, or its bytes, for some of the groups.    *)
(***************************************************************************)
EXTENDS Sketch

CONSTANT Group   \* group names

Pairs == Group \X Id
Engines == UNION {[D -> Registers] : D \in SUBSET Group}
Stores == UNION {[D -> Buffers] : D \in SUBSET Group}

Put(f, k, v) == [x \in DOMAIN f \cup {k} |-> IF x = k THEN v ELSE f[x]]
Empty == [x \in {} |-> New]

\* Faulty variant: an existing group is replaced by a fresh sketch.
EngineAddFresh(eng, g, id) == Put(eng, g, AddId(New, id))

\* Engine.Add: the group is created if absent.
EngineAdd(eng, g, id) ==
  Put(eng, g, AddId(IF g \in DOMAIN eng THEN eng[g] ELSE New, id))

\* st.LoadAll with Engine.Restore for every persisted group.
Restored(st) == [g \in DOMAIN st |-> Parse(st[g])]

\* Engine.Marshal
Marshal(eng) == [g \in DOMAIN eng |-> Bytes(eng[g])]

\* Engine.Unmarshal of data that parses.
Unmarshal(data) == [g \in DOMAIN data |-> Parse(data[g])]
=============================================================================
