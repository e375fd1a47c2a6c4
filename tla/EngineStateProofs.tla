------------------------- MODULE EngineStateProofs --------------------------
(***************************************************************************)
(* The register array of internal/cardinality/hll is a faithful stand-in   *)
(* for the set of ids added to it: adding and merging compute the sketch   *)
(* of the union, in any order and any number of times.  Then the facts     *)
(* about the maps from groups to sketches that the engine and the store    *)
(* hold, which the proofs about RaftNode and Engine share.                 *)
(***************************************************************************)
EXTENDS EngineState, TLAPS

\* Algorithm.New is a sketch, and represents the empty set.
LEMMA NewSketch == New \in Registers /\ Represents(New, {})
BY RhoAssumption DEF New, Registers, Represents, Absorbs

\* sketch.Add returns a sketch that accounts for the id and lowers nothing.
LEMMA AddSketch ==
  ASSUME NEW s \in Registers, NEW id \in Id
  PROVE  /\ AddId(s, id) \in Registers
         /\ Absorbs(AddId(s, id), id)
         /\ Below(s, AddId(s, id))
<1> USE RhoAssumption, IdxAssumption, RankAssumption
<1>1. Idx[id] \in Reg /\ Rho[id] \in 1 .. MaxRho /\ s[Idx[id]] \in 0 .. MaxRho
  BY DEF Registers
<1>2. QED
  BY <1>1 DEF AddId, Registers, Absorbs, Below

\* Registers only growing, an id once accounted for stays so.
LEMMA AbsorbsMonotone ==
  ASSUME NEW s \in Registers, NEW t \in Registers, NEW id \in Id,
         Below(s, t), Absorbs(s, id)
  PROVE  Absorbs(t, id)
<1>1. Idx[id] \in Reg /\ Rho[id] \in Nat
  BY IdxAssumption, RankAssumption, RhoAssumption
<1>2. QED
  BY <1>1 DEF Below, Absorbs, Registers

\* The order on sketches is reflexive and transitive.
LEMMA BelowPreorder ==
  ASSUME NEW s \in Registers, NEW t \in Registers, NEW u \in Registers
  PROVE  Below(s, s) /\ (Below(s, t) /\ Below(t, u) => Below(s, u))
BY RhoAssumption DEF Below, Registers

\* Bytes and Parse round-trip, and Bytes always parses.
LEMMA RoundTrip ==
  ASSUME NEW s \in Registers
  PROVE  Bytes(s) \in Buffers /\ CanParse(Bytes(s)) /\ Parse(Bytes(s)) = s
BY DEF Bytes, Buffers, CanParse, Parse, Registers

\* Every buffer Bytes can produce parses into a sketch.
LEMMA ParseBuffer ==
  ASSUME NEW b \in Buffers
  PROVE  CanParse(b) /\ Parse(b) \in Registers
BY DEF Buffers, CanParse, Parse, Registers

\* sketch.Add turns the sketch of S into the sketch of S with id, so ids may
\* be re-added and added in any order.
THEOREM AddRepresents ==
  ASSUME NEW s \in Registers, NEW S \in SUBSET Id, NEW id \in Id,
         Represents(s, S)
  PROVE  Represents(AddId(s, id), S \cup {id})
<1> DEFINE t == AddId(s, id)
<1>1. t \in Registers /\ Absorbs(t, id) /\ Below(s, t)
  BY AddSketch
<1>2. \A i \in S \cup {id} : Absorbs(t, i)
  BY <1>1, AbsorbsMonotone DEF Represents
<1>3. ASSUME NEW r \in Reg, t[r] # 0
      PROVE  \E i \in S \cup {id} : Idx[i] = r /\ Rho[i] = t[r]
  <2>1. CASE t[r] = s[r]
    BY <1>3, <2>1 DEF Represents
  <2>2. CASE t[r] # s[r]
    BY <1>3, <2>2, IdxAssumption DEF AddId, Registers
  <2>3. QED
    BY <2>1, <2>2
<1>4. QED
  BY <1>2, <1>3 DEF Represents

\* sketch.Merge turns the sketches of S and T into the sketch of their union.
THEOREM MergeRepresents ==
  ASSUME NEW s \in Registers, NEW o \in Registers,
         NEW S \in SUBSET Id, NEW T \in SUBSET Id,
         Represents(s, S), Represents(o, T)
  PROVE  /\ MergeSketch(s, o) \in Registers
         /\ Represents(MergeSketch(s, o), S \cup T)
<1> DEFINE t == MergeSketch(s, o)
<1>1. t \in Registers /\ Below(s, t) /\ Below(o, t)
  BY RhoAssumption DEF MergeSketch, Registers, Below
<1>2. \A i \in S \cup T : Absorbs(t, i)
  BY <1>1, AbsorbsMonotone DEF Represents
<1>3. ASSUME NEW r \in Reg, t[r] # 0
      PROVE  \E i \in S \cup T : Idx[i] = r /\ Rho[i] = t[r]
  <2>1. t[r] = s[r] \/ t[r] = o[r]
    BY DEF MergeSketch
  <2>2. QED
    BY <1>3, <2>1 DEF Represents
<1>4. QED
  BY <1>1, <1>2, <1>3 DEF Represents

\* A set of ids has one sketch: two replicas that counted the same ids, in
\* whatever order and through whatever merges, hold the same registers.
THEOREM SketchIsUnique ==
  ASSUME NEW s \in Registers, NEW t \in Registers, NEW S \in SUBSET Id,
         Represents(s, S), Represents(t, S)
  PROVE  s = t
<1> USE IdxAssumption, RankAssumption, RhoAssumption
<1>1. ASSUME NEW x \in Registers, NEW y \in Registers, NEW r \in Reg,
             Represents(x, S), Represents(y, S)
      PROVE  x[r] <= y[r]
  <2>1. CASE x[r] = 0
    BY <2>1 DEF Registers
  <2>2. CASE x[r] # 0
    <3>1. PICK id \in S : Idx[id] = r /\ Rho[id] = x[r]
      BY <1>1, <2>2 DEF Represents
    <3>2. QED
      BY <1>1, <3>1 DEF Represents, Absorbs
  <2>3. QED
    BY <2>1, <2>2
<1>2. \A r \in Reg : s[r] <= t[r] /\ t[r] <= s[r]
  BY <1>1
<1>3. \A r \in Reg : s[r] = t[r]
  BY <1>2 DEF Registers
<1>4. QED
  BY <1>3 DEF Registers

-----------------------------------------------------------------------------
(* Partial functions on groups.                                            *)

\* A command names a group and an id.
LEMMA PairParts == \A p \in Pairs : p[1] \in Group /\ p[2] \in Id
BY DEF Pairs

\* The engine of a process that has not started is an engine and a store.
LEMMA EmptyType == Empty \in Engines /\ Empty \in Stores /\ DOMAIN Empty = {}
<1>1. Empty \in [{} -> Registers] /\ Empty \in [{} -> Buffers]
  BY DEF Empty
<1>2. QED
  BY <1>1 DEF Engines, Stores

\* What an engine is: sketches for some of the groups.
LEMMA EnginesDef ==
  ASSUME NEW eng \in Engines
  PROVE  DOMAIN eng \subseteq Group /\ \A g \in DOMAIN eng : eng[g] \in Registers
BY DEF Engines

\* What a store is: serialised sketches for some of the groups.
LEMMA StoresDef ==
  ASSUME NEW st \in Stores
  PROVE  DOMAIN st \subseteq Group /\ \A g \in DOMAIN st : st[g] \in Buffers
BY DEF Stores

\* Writing a sketch under a group yields an engine (Engine.groups).
LEMMA PutEngine ==
  ASSUME NEW eng \in Engines, NEW g \in Group, NEW s \in Registers
  PROVE  Put(eng, g, s) \in Engines
<1>1. DOMAIN eng \cup {g} \in SUBSET Group
  BY EnginesDef
<1>2. Put(eng, g, s) \in [DOMAIN eng \cup {g} -> Registers]
  BY EnginesDef DEF Put
<1>3. QED
  BY <1>1, <1>2 DEF Engines

\* Store.Save of a serialised sketch yields a store.
LEMMA PutStore ==
  ASSUME NEW st \in Stores, NEW g \in Group, NEW b \in Buffers
  PROVE  Put(st, g, b) \in Stores
<1>1. DOMAIN st \cup {g} \in SUBSET Group
  BY StoresDef
<1>2. Put(st, g, b) \in [DOMAIN st \cup {g} -> Buffers]
  BY StoresDef DEF Put
<1>3. QED
  BY <1>1, <1>2 DEF Stores

\* LoadAll with Restore parses every stored group, and no other.
LEMMA RestoredType ==
  ASSUME NEW st \in Stores
  PROVE  /\ Restored(st) \in Engines /\ DOMAIN Restored(st) = DOMAIN st
         /\ \A g \in DOMAIN st : Restored(st)[g] = Parse(st[g])
<1>1. DOMAIN st \in SUBSET Group
  BY StoresDef
<1>2. Restored(st) \in [DOMAIN st -> Registers]
  BY StoresDef, ParseBuffer DEF Restored
<1>3. QED
  BY <1>1, <1>2 DEF Engines, Restored

\* Restoring what Engine.Marshal wrote gives the engine back.
LEMMA MarshalType ==
  ASSUME NEW eng \in Engines
  PROVE  Marshal(eng) \in Stores /\ Restored(Marshal(eng)) = eng
<1>1. DOMAIN eng \in SUBSET Group
  BY EnginesDef
<1>2. Marshal(eng) \in [DOMAIN eng -> Buffers]
  BY EnginesDef, RoundTrip DEF Marshal
<1>3. \A g \in DOMAIN eng : Parse(Marshal(eng)[g]) = eng[g]
  BY EnginesDef, RoundTrip DEF Marshal
<1>4. eng = [g \in DOMAIN eng |-> eng[g]]
  BY DEF Engines
<1>5. QED
  BY <1>1, <1>2, <1>3, <1>4 DEF Stores, Restored

\* Engine.Add returns an engine that holds the id and lowers nothing.
LEMMA EngineAddType ==
  ASSUME NEW eng \in Engines, NEW g \in Group, NEW id \in Id
  PROVE  /\ EngineAdd(eng, g, id) \in Engines
         /\ DOMAIN EngineAdd(eng, g, id) = DOMAIN eng \cup {g}
         /\ Absorbs(EngineAdd(eng, g, id)[g], id)
         /\ \A h \in DOMAIN eng : Below(eng[h], EngineAdd(eng, g, id)[h])
         /\ \A h \in DOMAIN eng : h # g => EngineAdd(eng, g, id)[h] = eng[h]
<1> DEFINE old == IF g \in DOMAIN eng THEN eng[g] ELSE New
           e2 == EngineAdd(eng, g, id)
<1>1. old \in Registers
  BY EnginesDef, NewSketch
<1>2. /\ AddId(old, id) \in Registers /\ Absorbs(AddId(old, id), id)
      /\ Below(old, AddId(old, id))
  BY <1>1, AddSketch
<1>3. e2 = Put(eng, g, AddId(old, id))
  BY DEF EngineAdd
<1>4. e2 \in Engines /\ DOMAIN e2 = DOMAIN eng \cup {g} /\ e2[g] = AddId(old, id)
  BY <1>2, <1>3, PutEngine DEF Put
<1>5. \A h \in DOMAIN eng : h # g => e2[h] = eng[h]
  BY <1>3 DEF Put
<1>6. \A h \in DOMAIN eng : Below(eng[h], e2[h])
  BY <1>2, <1>4, <1>5, EnginesDef, BelowPreorder
<1>7. QED
  BY <1>2, <1>4, <1>5, <1>6
=============================================================================
