---------------------------- MODULE EngineProofs ----------------------------
(***************************************************************************)
(* Proofs about Engine, for any number of goroutines, any groups, ids and  *)
(* commands, failing saves and crashes: what is in the store when a save   *)
(* returns, what a reader has read, what a capped scrape shows, and that   *)
(* the callers of the engine implement Shard.  The theorems on finite sets *)
(* come in only where the sort needs them.                                 *)
(***************************************************************************)
EXTENDS EngineControl

-----------------------------------------------------------------------------
(* What is in the engine and in the store.                                 *)

\* A goroutine's calls so far are in the engine, and the bytes it is about
\* to save are those of the engine as it is.
Did(o) ==
  /\ Working(o) => \A k \in 1 .. at[o] - 1 : Held(groups, job[o].g, job[o].prog[k])
  /\ pc[o] = "save" => /\ Held(groups, job[o].g, Arg(o))
                       /\ job[o].g \in DOMAIN groups /\ buf[o] = Bytes(groups[job[o].g])

\* An engine that serves is never behind the store, one that loads has only
\* what the store has.
Data ==
  /\ phase = "down" => groups = Empty
  /\ phase = "loading" => \A g \in DOMAIN groups : g \in DOMAIN store /\ groups[g] = Parse(store[g])
  /\ phase = "up" => \A g \in DOMAIN store : g \in DOMAIN groups /\ Below(Parse(store[g]), groups[g])
  /\ \A o \in Op : Did(o)
  /\ AckedIsPersisted

\* What a call has put into an engine stays in it while the engine grows.
LEMMA HeldGrown ==
  ASSUME NEW a \in Engines, NEW b \in Engines, Grown(a, b), NEW g \in Group, NEW c,
         c.op \in {"Add", "AddAndPersist"} => c.id \in Id,
         c.op = "MergeBytes" => Parse(c.b) \in Registers,
         Held(a, g, c)
  PROVE  Held(b, g, c)
<1>1. g \in DOMAIN a => /\ g \in DOMAIN b /\ Below(a[g], b[g])
                        /\ a[g] \in Registers /\ b[g] \in Registers
  BY EnginesDef DEF Grown
<1>2. c.op \in {"Add", "AddAndPersist"} => g \in DOMAIN b /\ Absorbs(b[g], c.id)
  BY <1>1, AbsorbsMonotone DEF Held
<1>3. c.op = "MergeBytes" => g \in DOMAIN b /\ Below(Parse(c.b), b[g])
  BY <1>1, BelowPreorder DEF Held
<1>4. QED
  BY <1>2, <1>3 DEF Held

\* So the calls a goroutine has made stay in the engine.
LEMMA CallsHeldGrown ==
  ASSUME Control, Data, NEW o \in Op, Working(o), groups' \in Engines, Grown(groups, groups')
  PROVE  \A k \in 1 .. at[o] - 1 : Held(groups', job[o].g, job[o].prog[k])
<1> SUFFICES ASSUME NEW k \in 1 .. at[o] - 1 PROVE Held(groups', job[o].g, job[o].prog[k])
  OBVIOUS
<1>1. groups \in Engines /\ Held(groups, job[o].g, job[o].prog[k])
  BY DEF Control, TypeOK, Data, Did
<1>2. job[o].g \in Group /\ at[o] \in 1 .. Len(job[o].prog) /\ Len(job[o].prog) \in Nat
      /\ CallsOk(job[o].prog)
  BY Now
<1>3. k \in 1 .. Len(job[o].prog)
  BY <1>2
<1>4. /\ job[o].prog[k].op \in {"Add", "AddAndPersist"} => job[o].prog[k].id \in Id
      /\ job[o].prog[k].op = "MergeBytes" => Parse(job[o].prog[k].b) \in Registers
  BY <1>2, <1>3, Zenon DEF CallsOk
<1>5. QED
  BY <1>1, <1>2, <1>4, HeldGrown, Zenon

\* The others, when one goroutine writes: none of them is about to save.
LEMMA OthersDid ==
  ASSUME Control, Data, NEW o \in Op, Keeps(o), groups' \in Engines, Grown(groups, groups'),
         groups' = groups \/ writer = o
  PROVE  \A q \in Op \ {o} : Did(q)'
<1> SUFFICES ASSUME NEW q \in Op \ {o} PROVE Did(q)'
  OBVIOUS
<1>1. pc'[q] = pc[q] /\ job'[q] = job[q] /\ at'[q] = at[q] /\ buf'[q] = buf[q]
  BY DEF Keeps
<1>2. Did(q) /\ CallOk(q)
  BY DEF Data, Control
<1>3. Working(q) => \A k \in 1 .. at[q] - 1 : Held(groups', job[q].g, job[q].prog[k])
  BY CallsHeldGrown
<1>4. pc[q] = "save" => groups' = groups
  <2>1. pc[q] = "save" => writer = q
    BY <1>2 DEF CallOk, Writers
  <2>2. QED
    BY <2>1
<1>5. (Working(q) => \A k \in 1 .. at[q] - 1 : Held(groups, job[q].g, job[q].prog[k]))'
  BY <1>1, <1>3, Zenon DEF Working
<1>6. (pc[q] = "save" => /\ Held(groups, job[q].g, Arg(q))
                         /\ job[q].g \in DOMAIN groups /\ buf[q] = Bytes(groups[job[q].g]))'
  BY <1>1, <1>2, <1>4, Zenon DEF Did, Arg
<1>7. QED
  BY <1>5, <1>6 DEF Did

\* The goroutine itself, when its call returns with what it was to do done.
LEMMA ReturnDid ==
  ASSUME Control, Data, NEW o \in Op, Working(o), groups' \in Engines, Grown(groups, groups'),
         Held(groups', job[o].g, Arg(o)), Return(o), job' = job
  PROVE  Did(o)'
<1>1. at \in [Op -> Nat] /\ pc \in [Op -> PcName]
  BY DEF Control, TypeOK, PcName
<1>2. at'[o] = at[o] + 1 /\ pc'[o] \in {"done", "called"} /\ at[o] \in Nat
  BY <1>1 DEF Return
<1>3. \A k \in 1 .. at[o] - 1 : Held(groups', job[o].g, job[o].prog[k])
  BY CallsHeldGrown
<1>4. Held(groups', job[o].g, job[o].prog[at[o]])
  BY DEF Arg
<1>5. \A k \in 1 .. at'[o] - 1 : k = at[o] \/ k \in 1 .. at[o] - 1
  BY <1>2
<1>6. \A k \in 1 .. at'[o] - 1 : Held(groups', job'[o].g, job'[o].prog[k])
  BY <1>3, <1>4, <1>5, Zenon
<1>7. QED
  BY <1>2, <1>6 DEF Did

\* What save leaves in the store: the engine's own sketch, so nothing stored
\* is lowered, and every id of the program is there when it succeeds.
LEMMA SaveEffect ==
  ASSUME Control, Data, NEW o \in Op, Save(o)
  PROVE  /\ \A h \in DOMAIN store : h \in DOMAIN store' /\ Below(Parse(store[h]), Parse(store'[h]))
         /\ \A h \in DOMAIN store' : h \in DOMAIN groups /\ Below(Parse(store'[h]), groups[h])
         /\ AckedIsPersisted'
<1> DEFINE g == job[o].g
           s == groups[g]
<1>0. /\ pc[o] = "save" /\ Working(o) /\ store \in Stores /\ groups \in Engines /\ acked \subseteq Pairs
      /\ CallOk(o) /\ Did(o)
  BY DEF Save, Working, Control, TypeOK, Data
<1>1. /\ phase = "up" /\ g \in Group /\ at[o] \in 1 .. Len(job[o].prog) /\ Len(job[o].prog) \in Nat
      /\ CallsOk(job[o].prog)
  BY <1>0, Now
<1>2. at[o] = Len(job[o].prog)
  <2>1. job[o].prog[at[o]].op \in Last
    BY <1>0 DEF CallOk, Doing, Last
  <2>2. QED
    BY <1>1, <2>1, Zenon DEF CallsOk
<1>3. g \in DOMAIN groups /\ buf[o] = Bytes(s) /\ s \in Registers /\ Parse(Bytes(s)) = s
  BY <1>0, EnginesDef, RoundTrip DEF Did
<1>4. \A k \in 1 .. Len(job[o].prog) : Held(groups, g, job[o].prog[k])
  <2>1. \A k \in 1 .. Len(job[o].prog) : k = at[o] \/ k \in 1 .. at[o] - 1
    BY <1>1, <1>2
  <2>2. QED
    BY <1>0, <2>1, Zenon DEF Did, Arg
<1>5. ASSUME NEW p \in PairsOf(job[o]) PROVE p[1] = g /\ p[2] \in Id /\ Absorbs(s, p[2])
  <2>1. PICK i \in Id : /\ p = <<g, i>>
                        /\ \E k \in 1 .. Len(job[o].prog) :
                             LET c == job[o].prog[k]
                             IN  \/ c.op \in {"Add", "AddAndPersist"} /\ c.id = i
                                 \/ c.op = "MergeBytes" /\ Absorbs(Parse(c.b), i)
    BY Zenon DEF PairsOf
  <2>2. PICK k \in 1 .. Len(job[o].prog) :
           LET c == job[o].prog[k]
           IN  \/ c.op \in {"Add", "AddAndPersist"} /\ c.id = i
               \/ c.op = "MergeBytes" /\ Absorbs(Parse(c.b), i)
    BY <2>1
  <2> DEFINE c == job[o].prog[k]
  <2>3. Held(groups, g, c) /\ (c.op = "MergeBytes" => Parse(c.b) \in Registers)
    BY <1>1, <1>4, Zenon DEF CallsOk
  <2>4. Absorbs(s, i)
    <3>1. CASE c.op \in {"Add", "AddAndPersist"} /\ c.id = i
      BY <2>3, <3>1, Zenon DEF Held
    <3>2. CASE c.op = "MergeBytes" /\ Absorbs(Parse(c.b), i)
      <4>1. Parse(c.b) \in Registers /\ Below(Parse(c.b), s)
        BY <2>3, <3>2, Zenon DEF Held
      <4>2. QED
        BY <1>3, <3>2, <4>1, AbsorbsMonotone, Zenon
    <3>3. QED
      BY <2>2, <3>1, <3>2
  <2>5. p[1] = g /\ p[2] = i
    BY <2>1, Zenon
  <2>6. QED
    BY <2>4, <2>5, Zenon
<1>6. \A h \in DOMAIN store : /\ h \in DOMAIN groups /\ Below(Parse(store[h]), groups[h])
                              /\ Parse(store[h]) \in Registers /\ groups[h] \in Registers
  BY <1>0, <1>1, StoresDef, ParseBuffer, EnginesDef, Zenon DEF Data
<1>7. \A p \in acked : /\ p[1] \in DOMAIN store /\ Absorbs(Parse(store[p[1]]), p[2]) /\ p[2] \in Id
  BY <1>0, PairParts DEF Data, AckedIsPersisted
<1>8. CASE UNCHANGED <<store, acked>>
  <2>1. \A h \in DOMAIN store : Below(Parse(store[h]), Parse(store[h]))
    BY <1>6, BelowPreorder
  <2>2. QED
    BY <1>6, <1>7, <1>8, <2>1 DEF AckedIsPersisted
<1>9. CASE store' = Put(store, g, buf[o]) /\ acked' = acked \cup PairsOf(job[o])
  <2>1. /\ DOMAIN store' = DOMAIN store \cup {g} /\ store'[g] = buf[o]
        /\ \A h \in DOMAIN store : h # g => store'[h] = store[h]
    BY <1>9 DEF Put
  <2>2. Parse(store'[g]) = s
    BY <1>3, <2>1
  <2>3. \A h \in DOMAIN store : h \in DOMAIN store' /\ Below(Parse(store[h]), Parse(store'[h]))
    BY <1>6, <2>1, <2>2, BelowPreorder
  <2>4. \A h \in DOMAIN store' : h \in DOMAIN groups /\ Below(Parse(store'[h]), groups[h])
    BY <1>3, <1>6, <2>1, <2>2, BelowPreorder
  <2>5. ASSUME NEW p \in acked PROVE p[1] \in DOMAIN store' /\ Absorbs(Parse(store'[p[1]]), p[2])
    <3>1. CASE p[1] = g
      <4>1. Absorbs(s, p[2])
        BY <1>3, <1>6, <1>7, <3>1, AbsorbsMonotone
      <4>2. QED
        BY <2>1, <2>2, <3>1, <4>1
    <3>2. CASE p[1] # g
      BY <1>7, <2>1, <3>2
    <3>3. QED
      BY <3>1, <3>2
  <2>6. ASSUME NEW p \in PairsOf(job[o])
        PROVE  p[1] \in DOMAIN store' /\ Absorbs(Parse(store'[p[1]]), p[2])
    BY <1>5, <2>1, <2>2, Zenon
  <2>7. \A p \in acked' : p[1] \in DOMAIN store' /\ Absorbs(Parse(store'[p[1]]), p[2])
    BY <1>9, <2>5, <2>6
  <2>8. QED
    BY <2>3, <2>4, <2>7 DEF AckedIsPersisted
<1>10. QED
  BY <1>8, <1>9, Zenon DEF Save

\* The process starts, restores, listens and dies: nobody is at work.
LEMMA ProcessData ==
  ASSUME Control, Data, Start \/ Serve \/ Crash \/ \E g \in Group : Restore(g)
  PROVE  Data'
<1>0. store \in Stores /\ groups \in Engines /\ AckedIsPersisted
  BY DEF Control, TypeOK, Data
<1>1. UNCHANGED <<store, acked>>
  BY DEF Start, Serve, Crash, Restore
<1>2. AckedIsPersisted'
  BY <1>0, <1>1 DEF AckedIsPersisted
<1>3. \A o \in Op : ~Working(o)'
  <2>1. CASE Crash
    BY <2>1 DEF Crash, Working
  <2>2. CASE phase # "up" /\ pc' = pc
    BY <2>2 DEF Control, CallOk, Working
  <2>3. QED
    BY <2>1, <2>2 DEF Start, Serve, Restore
<1>4. \A o \in Op : Did(o)'
  BY <1>3 DEF Did, Working
<1>5. CASE Start
  BY <1>1, <1>2, <1>4, <1>5, EmptyType, Zenon DEF Start, Data
<1>6. CASE Serve
  <2>1. /\ phase' = "up" /\ groups' = groups
        /\ \A g \in DOMAIN store : g \in DOMAIN groups /\ groups[g] = Parse(store[g])
    BY <1>6 DEF Serve, Data
  <2>2. \A g \in DOMAIN store : Below(Parse(store[g]), groups[g])
    BY <1>0, <2>1, EnginesDef, BelowPreorder, Zenon
  <2>3. QED
    BY <1>1, <1>2, <1>4, <2>1, <2>2 DEF Data
<1>7. CASE Crash
  BY <1>2, <1>4, <1>7, Zenon DEF Crash, Data
<1>8. ASSUME NEW g \in Group, Restore(g) PROVE Data'
  <2>1. /\ phase = "loading" /\ phase' = phase /\ g \in DOMAIN store
        /\ groups' = Put(groups, g, Parse(store[g]))
    BY <1>8 DEF Restore
  <2>2. /\ DOMAIN groups' = DOMAIN groups \cup {g} /\ groups'[g] = Parse(store[g])
        /\ \A h \in DOMAIN groups : h # g => groups'[h] = groups[h]
    BY <2>1 DEF Put
  <2>3. \A h \in DOMAIN groups' : h \in DOMAIN store' /\ groups'[h] = Parse(store'[h])
    BY <1>1, <2>1, <2>2, Zenon DEF Data
  <2>4. QED
    BY <1>2, <1>4, <2>1, <2>3 DEF Data
<1>9. QED
  BY <1>5, <1>6, <1>7, <1>8, Zenon

\* Data, for a step of one goroutine that serves.
LEMMA OneData ==
  ASSUME Control, Data, NEW o \in Op, Keeps(o), phase = "up", phase' = "up",
         groups' \in Engines, Grown(groups, groups'), groups' = groups \/ writer = o, Did(o)',
         \A h \in DOMAIN store' : h \in DOMAIN groups /\ Below(Parse(store'[h]), groups[h]),
         store' \in Stores, AckedIsPersisted'
  PROVE  Data'
<1>1. \A q \in Op : Did(q)'
  BY OthersDid, Zenon
<1>2. ASSUME NEW h \in DOMAIN store' PROVE h \in DOMAIN groups' /\ Below(Parse(store'[h]), groups'[h])
  <2>1. h \in DOMAIN groups' /\ Below(groups[h], groups'[h]) /\ Below(Parse(store'[h]), groups[h])
    BY Zenon DEF Grown
  <2>2. Parse(store'[h]) \in Registers /\ groups[h] \in Registers /\ groups'[h] \in Registers
    BY <2>1, StoresDef, ParseBuffer, EnginesDef DEF Control, TypeOK
  <2>3. QED
    BY <2>1, <2>2, BelowPreorder, Zenon
<1>3. QED
  BY <1>1, <1>2, Zenon DEF Data

\* Every step keeps the engine ahead of the store and acknowledged ids in it.
LEMMA NextData ==
  ASSUME Control, CollectOk, Data, Next
  PROVE  Data'
<1>1. ASSUME NEW o \in Op, OpStep(o) PROVE Data'
  <2>0. /\ TypeOK /\ CallOk(o) /\ Did(o) /\ groups \in Engines /\ store \in Stores /\ pc \in [Op -> PcName]
        /\ at \in [Op -> Nat]
    BY Zenon DEF Control, TypeOK, Data, PcName
  <2>1. Control' /\ TypeOK' /\ groups' \in Engines /\ store' \in Stores
    <3>1. Next
      BY <1>1 DEF Next, OpStep
    <3>2. Control'
      BY <3>1, NextControl
    <3>3. QED
      BY <3>2 DEF Control, TypeOK
  <2>2. Keeps(o)
    BY <1>1, EnterControl, WriterControl, ReaderControl DEF OpStep
  <2>3. Grown(groups, groups)
    BY <2>0, EnginesDef, BelowPreorder DEF Grown
  <2>4. phase = "up" => \A h \in DOMAIN store : h \in DOMAIN groups /\ Below(Parse(store[h]), groups[h])
    BY Zenon DEF Data
  <2>5. UNCHANGED <<store, acked>> => AckedIsPersisted'
    BY Zenon DEF Data, AckedIsPersisted
  <2>6. ASSUME Working(o) PROVE phase = "up" /\ \A h \in DOMAIN store : h \in DOMAIN groups /\ Below(Parse(store[h]), groups[h])
    BY <2>4, <2>6, Now, Zenon
  <2>7. ASSUME NEW g \in Group, NEW prog \in Programs, Begin(o, g, prog) PROVE Data'
    <3>1. /\ phase = "up" /\ pc[o] = "idle" /\ UNCHANGED <<phase, groups, store, at, acked>>
          /\ pc' = [pc EXCEPT ![o] = IF prog = <<>> THEN "done" ELSE "called"]
      BY <2>7, Zenon DEF Begin
    <3>2. at'[o] = 1 /\ pc'[o] \in {"done", "called"}
      BY <2>0, <3>1, Zenon DEF CallOk
    <3>3. Did(o)'
      BY <3>2, SMTT(30) DEF Did
    <3>4. QED
      BY <2>0, <2>2, <2>3, <2>4, <2>5, <3>1, <3>3, OneData
  <2>8. CASE Lock(o) \/ RLock(o)
    <3>1. /\ Working(o) /\ pc' = [pc EXCEPT ![o] = "in"] /\ UNCHANGED <<phase, groups, store, job, at, acked>>
      BY <2>8 DEF Lock, RLock, Working
    <3>2. pc'[o] = "in"
      BY <2>0, <3>1, Zenon
    <3>3. Did(o)'
      BY <2>0, <3>1, <3>2, Zenon DEF Did
    <3>4. QED
      BY <2>0, <2>2, <2>3, <2>5, <2>6, <3>1, <3>3, OneData
  <2>9. CASE Add(o) \/ MergeBytes(o)
    <3>1. Working(o) /\ Unlock(o) /\ UNCHANGED <<phase, store, job, acked>> /\ writer = o
      BY <2>0, <2>9 DEF Add, MergeBytes, In, Working, CallOk, Writers
    <3>2. Grown(groups, groups') /\ Held(groups', job[o].g, Arg(o))
      BY <2>9, WriteEffect, Zenon
    <3>3. Did(o)'
      BY <2>1, <3>1, <3>2, ReturnDid, Zenon DEF Unlock
    <3>4. QED
      BY <2>0, <2>1, <2>2, <2>5, <2>6, <3>1, <3>2, <3>3, OneData, Zenon
  <2>10. CASE AddAndPersist(o)
    <3>1. /\ Working(o) /\ pc' = [pc EXCEPT ![o] = "save"] /\ UNCHANGED <<phase, store, job, at, acked>>
          /\ buf' = [buf EXCEPT ![o] = Bytes(groups'[job[o].g])] /\ writer = o
      BY <2>0, <2>10 DEF AddAndPersist, In, Working, CallOk, Writers
    <3>2. /\ Grown(groups, groups') /\ Held(groups', job[o].g, Arg(o)) /\ job[o].g \in DOMAIN groups'
      BY <2>10, WriteEffect, Zenon
    <3>3. \A k \in 1 .. at[o] - 1 : Held(groups', job[o].g, job[o].prog[k])
      BY <2>1, <3>1, <3>2, CallsHeldGrown, Zenon
    <3>4. pc'[o] = "save" /\ buf'[o] = Bytes(groups'[job[o].g])
      BY <2>0, <3>1 DEF TypeOK
    <3>5. Did(o)'
      BY <3>1, <3>2, <3>3, <3>4, Zenon DEF Did, Arg
    <3>6. QED
      BY <2>0, <2>1, <2>2, <2>5, <2>6, <3>1, <3>2, <3>5, OneData, Zenon
  <2>11. CASE Persist(o)
    <3>1. Working(o) /\ UNCHANGED <<phase, groups, store, job, acked>> /\ Arg(o).op = "Persist"
      BY <2>11, Zenon DEF Persist, In, Working, Doing, Arg
    <3>2. Held(groups, job[o].g, Arg(o))
      BY <3>1, Zenon DEF Held
    <3>3. CASE job[o].g \in DOMAIN groups
      <4>1. /\ pc' = [pc EXCEPT ![o] = "save"] /\ at' = at
            /\ buf' = [buf EXCEPT ![o] = Bytes(groups[job[o].g])]
        BY <2>11, <3>3, Zenon DEF Persist
      <4>2. pc'[o] = "save" /\ buf'[o] = Bytes(groups[job[o].g])
        BY <2>0, <4>1, Zenon DEF TypeOK
      <4>3. \A k \in 1 .. at[o] - 1 : Held(groups, job[o].g, job[o].prog[k])
        BY <2>0, <3>1 DEF Did
      <4>4. Did(o)'
        BY <3>1, <3>2, <3>3, <4>1, <4>2, <4>3, Zenon DEF Did, Arg
      <4>5. QED
        BY <2>0, <2>2, <2>3, <2>5, <2>6, <3>1, <4>4, OneData, Zenon
    <3>4. CASE job[o].g \notin DOMAIN groups
      <4>1. Return(o)
        BY <2>11, <3>4 DEF Persist, Unlock
      <4>2. Did(o)'
        BY <2>0, <2>3, <3>1, <3>2, <4>1, ReturnDid, Zenon
      <4>3. QED
        BY <2>0, <2>2, <2>3, <2>5, <2>6, <3>1, <4>2, OneData
    <3>5. QED
      BY <3>3, <3>4, Zenon
  <2>12. CASE Save(o)
    <3>1. /\ Working(o) /\ UNCHANGED <<phase, groups, job>> /\ Return(o) /\ pc[o] = "save"
      BY <2>12 DEF Save, Unlock, Working
    <3>2. /\ \A h \in DOMAIN store' : h \in DOMAIN groups /\ Below(Parse(store'[h]), groups[h])
          /\ AckedIsPersisted'
      BY <2>12, SaveEffect
    <3>3. Did(o)'
      BY <2>0, <2>3, <3>1, ReturnDid, Zenon DEF Did
    <3>4. QED
      BY <2>0, <2>1, <2>2, <2>3, <2>6, <3>1, <3>2, <3>3, OneData, Zenon
  <2>13. CASE \/ ReadOne(o) \/ ReadDone(o) \/ \E g \in Group : ReadGroup(o, g)
              \/ Collect(o) \/ Sent(o)
    <3>1. UNCHANGED <<phase, groups, store, job, acked>>
      BY <2>13, ReaderControl
    <3>2. Working(o) /\ Doing(o) \in Readers \cup {"Collect"} /\ pc[o] # "save"
      BY <2>0, <2>13, Zenon DEF ReadOne, ReadDone, ReadGroup, ReadsAll, Collect, Sent, In, Working, CallOk, Readers
    <3>3. Held(groups, job[o].g, Arg(o))
      BY <3>2, Zenon DEF Held, Doing, Arg, Readers
    <3>4. CASE Return(o)
      <4>1. Did(o)'
        BY <2>0, <2>3, <3>1, <3>2, <3>3, <3>4, ReturnDid, Zenon
      <4>2. QED
        BY <2>0, <2>2, <2>3, <2>5, <2>6, <3>1, <3>2, <4>1, OneData, Zenon
    <3>5. CASE at' = at /\ pc'[o] # "save"
      <4>1. Did(o)'
        BY <2>0, <3>1, <3>2, <3>5 DEF Did
      <4>2. QED
        BY <2>0, <2>2, <2>3, <2>5, <2>6, <3>1, <3>2, <4>1, OneData, Zenon
    <3>6. Return(o) \/ (at' = at /\ pc'[o] # "save")
      <4>1. CASE Collect(o)
        BY <2>0, <4>1, Zenon DEF Collect
      <4>2. CASE \E g \in Group : ReadGroup(o, g)
        BY <3>2, <4>2 DEF ReadGroup
      <4>3. CASE ReadOne(o) \/ ReadDone(o) \/ Sent(o)
        BY <4>3, Zenon DEF ReadOne, ReadDone, RUnlock, Sent
      <4>4. QED
        BY <2>13, <4>1, <4>2, <4>3, Zenon
    <3>7. QED
      BY <3>4, <3>5, <3>6
  <2>14. QED
    BY <1>1, <2>7, <2>8, <2>9, <2>10, <2>11, <2>12, <2>13, Zenon DEF OpStep
<1>2. QED
  BY <1>1, ProcessData DEF Next, OpStep
-----------------------------------------------------------------------------
(* What the readers see.                                                   *)

\* A goroutine that has not read has nothing, one that reads has what the
\* engine holds, and a page fits what was read.
ReadOk(o) ==
  /\ (\/ pc[o] = "idle"
      \/ pc[o] \in {"called", "in"} /\ Doing(o) \in Writers
      \/ pc[o] = "called" /\ Doing(o) \in Readers) => got[o] = Empty
  /\ o \in readers => \A g \in DOMAIN got[o] : g \in DOMAIN groups /\ got[o][g] = groups[g]
  /\ pc[o] = "sending" => PageFits(got[o], page[o])

Reads == \A o \in Op : ReadOk(o)

\* A step of one goroutine: the engine changes only when nobody reads.
LEMMA OneRead ==
  ASSUME Control, Reads, NEW o \in Op, Keeps(o), groups' = groups \/ readers = {},
         readers' \subseteq readers \cup {o}, ReadOk(o)'
  PROVE  Reads'
<1> SUFFICES ASSUME NEW q \in Op, q # o PROVE ReadOk(q)'
  BY Zenon DEF Reads
<1>1. /\ pc'[q] = pc[q] /\ job'[q] = job[q] /\ at'[q] = at[q] /\ got'[q] = got[q] /\ page'[q] = page[q]
      /\ ReadOk(q)
  BY DEF Keeps, Reads
<1>2. q \in readers' => q \in readers /\ groups' = groups
  OBVIOUS
<1>3. QED
  BY <1>1, <1>2, Zenon DEF ReadOk, Doing

\* The last call of a program returns.
LEMMA LastReturns ==
  ASSUME Control, NEW o \in Op, Working(o), Doing(o) \in Last, Return(o)
  PROVE  pc'[o] = "done"
<1>1. at[o] \in 1 .. Len(job[o].prog) /\ CallsOk(job[o].prog)
  BY Now
<1>2. at[o] = Len(job[o].prog)
  BY <1>1, Zenon DEF CallsOk, Doing
<1>3. QED
  BY <1>2, Zenon DEF Return, Control, TypeOK

\* Every step keeps what was read and what is shown.
LEMMA NextReads ==
  ASSUME Control, CollectOk, Reads, Next
  PROVE  Reads'
<1>1. CASE Start \/ Serve
  BY <1>1, Zenon DEF Start, Serve, lockVars, Reads, ReadOk, Doing
<1>2. CASE Crash
  BY <1>2 DEF Crash, Reads, ReadOk
<1>3. ASSUME NEW g \in Group, Restore(g) PROVE Reads'
  <2>1. phase = "loading" /\ UNCHANGED <<writer, readers, pc, job, at, got, page>>
    BY <1>3, Zenon DEF Restore, lockVars
  <2>2. \A o \in Op : o \notin readers
    BY <2>1 DEF Control, CallOk, Working
  <2>3. QED
    BY <2>1, <2>2, Zenon DEF Reads, ReadOk, Doing
<1>4. ASSUME NEW o \in Op, OpStep(o) PROVE Reads'
  <2>0. /\ TypeOK /\ CallOk(o) /\ ReadOk(o) /\ pc \in [Op -> PcName] /\ at \in [Op -> Nat]
        /\ got \in [Op -> Engines] /\ (writer # NoOp => readers = {}) /\ o # NoOp
    BY OpAssumption DEF Control, TypeOK, PcName, Reads
  <2>1. Keeps(o)
    BY <1>4, EnterControl, WriterControl, ReaderControl DEF OpStep
  <2>2. ASSUME NEW g \in Group, NEW prog \in Programs, Begin(o, g, prog) PROVE Reads'
    <3>1. /\ pc[o] = "idle" /\ UNCHANGED <<groups, readers, got>>
          /\ pc' = [pc EXCEPT ![o] = IF prog = <<>> THEN "done" ELSE "called"]
      BY <2>2, Zenon DEF Begin, lockVars
    <3>2. pc'[o] \in {"done", "called"} /\ got'[o] = Empty /\ o \notin readers
      BY <2>0, <3>1, Zenon DEF CallOk, ReadOk
    <3>3. ReadOk(o)'
      BY <3>1, <3>2 DEF ReadOk
    <3>4. QED
      BY <2>1, <3>1, <3>3, OneRead
  <2>3. CASE Lock(o) \/ RLock(o)
    <3>1. /\ pc[o] = "called" /\ Doing(o) \in Writers \cup Readers /\ pc' = [pc EXCEPT ![o] = "in"]
          /\ UNCHANGED <<groups, got>> /\ readers' \subseteq readers \cup {o}
      BY <2>3, Zenon DEF Lock, RLock
    <3>2. pc'[o] = "in" /\ got'[o] = Empty
      BY <2>0, <3>1, Zenon DEF ReadOk
    <3>3. ReadOk(o)'
      BY <3>2, EmptyType DEF ReadOk
    <3>4. QED
      BY <2>1, <3>1, <3>3, OneRead
  <2>4. CASE Add(o) \/ AddAndPersist(o) \/ Persist(o) \/ Save(o) \/ MergeBytes(o)
    <3>1. Working(o) /\ pc[o] \in {"in", "save"} /\ Doing(o) \in Writers /\ UNCHANGED <<readers, got, job>>
      BY <2>0, <2>4, Zenon DEF Add, AddAndPersist, Persist, Save, MergeBytes, In, Unlock, lockVars, Working, CallOk, Writers
    <3>2. readers = {} /\ readers' = {}
      BY <2>0, <3>1, Zenon DEF CallOk
    <3>3. CASE pc' = [pc EXCEPT ![o] = "save"]
      <4>1. pc'[o] = "save"
        BY <2>0, <3>3
      <4>2. ReadOk(o)'
        BY <3>2, <4>1, Zenon DEF ReadOk
      <4>3. QED
        BY <2>1, <3>2, <4>2, OneRead
    <3>4. CASE Return(o) /\ Doing(o) \in Last
      <4>1. pc'[o] = "done"
        BY <3>1, <3>4, LastReturns
      <4>2. ReadOk(o)'
        BY <3>2, <4>1, Zenon DEF ReadOk
      <4>3. QED
        BY <2>1, <3>2, <4>2, OneRead
    <3>5. CASE Return(o) /\ pc[o] = "in"
      <4>1. got'[o] = Empty /\ pc'[o] \in {"done", "called"}
        BY <2>0, <3>1, <3>5, Zenon DEF ReadOk, Return
      <4>2. ReadOk(o)'
        BY <3>2, <4>1 DEF ReadOk
      <4>3. QED
        BY <2>1, <3>2, <4>2, OneRead
    <3>6. \/ pc' = [pc EXCEPT ![o] = "save"]
          \/ Return(o) /\ (Doing(o) \in Last \/ pc[o] = "in")
      <4>1. CASE Save(o)
        BY <2>0, <4>1, Zenon DEF Save, Unlock, CallOk, Last
      <4>2. CASE Add(o) \/ MergeBytes(o)
        BY <4>2, Zenon DEF Add, MergeBytes, Unlock, In
      <4>3. CASE AddAndPersist(o)
        BY <4>3, Zenon DEF AddAndPersist
      <4>4. CASE Persist(o)
        BY <4>4, Zenon DEF Persist, Unlock, In
      <4>5. QED
        BY <2>4, <4>1, <4>2, <4>3, <4>4
    <3>7. QED
      BY <3>3, <3>4, <3>5, <3>6
  <2>5. CASE ReadOne(o)
    <3>1. Working(o) /\ Doing(o) \in Last /\ Return(o) /\ readers' = readers \ {o} /\ groups' = groups
      BY <2>5 DEF ReadOne, In, Working, RUnlock, Last
    <3>2. pc'[o] = "done"
      BY <3>1, LastReturns, Zenon
    <3>3. ReadOk(o)'
      BY <3>1, <3>2 DEF ReadOk
    <3>4. QED
      BY <2>1, <3>1, <3>3, OneRead, Zenon
  <2>6. ASSUME NEW g \in Group, ReadGroup(o, g) PROVE Reads'
    <3>1. /\ pc[o] = "in" /\ Doing(o) \in Readers /\ g \in DOMAIN groups
          /\ got' = [got EXCEPT ![o] = Put(got[o], g, groups[g])]
          /\ UNCHANGED <<groups, readers, pc, job, at>>
      BY <2>0, <2>6, Zenon DEF ReadGroup, ReadsAll, In, Readers, lockVars
    <3>2. got'[o] = Put(got[o], g, groups[g]) /\ o \in readers
      BY <2>0, <3>1, Zenon DEF CallOk
    <3>3. \A h \in DOMAIN got'[o] : h \in DOMAIN groups /\ got'[o][h] = groups[h]
      BY <2>0, <3>1, <3>2, Zenon DEF ReadOk, Put
    <3>4. Doing(o)' = Doing(o) /\ Doing(o) \notin Writers /\ pc'[o] = "in"
      BY <3>1, Zenon DEF Doing, Readers, Writers
    <3>5. ReadOk(o)'
      BY <3>1, <3>3, <3>4 DEF ReadOk
    <3>6. QED
      BY <2>1, <3>1, <3>5, OneRead, Zenon
  <2>7. CASE ReadDone(o)
    <3>1. /\ pc[o] = "in" /\ Doing(o) \in {"CardinalityAll", "Marshal"} /\ Working(o) /\ Return(o)
          /\ readers' = readers \ {o} /\ UNCHANGED <<groups, job>>
      BY <2>7, Zenon DEF ReadDone, ReadsAll, In, Working, RUnlock
    <3>2. pc'[o] = "done" \/ (pc'[o] = "called" /\ Doing(o)' = "Collect")
      <4>1. CASE Doing(o) = "Marshal"
        BY <3>1, <4>1, LastReturns, Zenon DEF Last
      <4>2. CASE Doing(o) = "CardinalityAll"
        <5>1. at[o] \in 1 .. Len(job[o].prog) /\ CallsOk(job[o].prog)
          BY <3>1, Now
        <5>2. job[o].prog[at[o] + 1].op = "Collect"
          BY <4>2, <5>1, Zenon DEF CallsOk, Doing
        <5>3. at'[o] = at[o] + 1 /\ pc'[o] \in {"done", "called"}
          BY <2>0, <3>1, Zenon DEF Return
        <5>4. QED
          BY <3>1, <5>2, <5>3, Zenon DEF Doing
      <4>3. QED
        BY <3>1, <4>1, <4>2, Zenon
    <3>3. ReadOk(o)'
      BY <3>1, <3>2 DEF ReadOk, Writers, Readers
    <3>4. QED
      BY <2>1, <3>1, <3>3, OneRead, Zenon
  <2>8. CASE Collect(o)
    <3>1. /\ pc[o] = "called" /\ pc' = [pc EXCEPT ![o] = "sending"] /\ UNCHANGED <<groups, readers, got>>
      BY <2>8, Zenon DEF Collect, lockVars
    <3>2. PageFits(got[o], page'[o])
      BY <2>8, Zenon DEF CollectOk
    <3>3. pc'[o] = "sending" /\ o \notin readers'
      BY <2>0, <3>1, Zenon DEF CallOk
    <3>4. ReadOk(o)'
      BY <3>1, <3>2, <3>3 DEF ReadOk
    <3>5. QED
      BY <2>1, <3>1, <3>4, OneRead, Zenon
  <2>9. CASE Sent(o)
    <3>1. pc[o] = "sending" /\ Return(o) /\ UNCHANGED <<groups, readers>> /\ got' = [got EXCEPT ![o] = Empty]
      BY <2>9, Zenon DEF Sent, lockVars
    <3>2. got'[o] = Empty /\ pc'[o] \in {"done", "called"} /\ o \notin readers'
      BY <2>0, <3>1 DEF Return, CallOk
    <3>3. ReadOk(o)'
      BY <3>2, Zenon DEF ReadOk
    <3>4. QED
      BY <2>1, <3>1, <3>3, OneRead
  <2>10. QED
    BY <1>4, <2>2, <2>3, <2>4, <2>5, <2>6, <2>7, <2>8, <2>9, Zenon DEF OpStep
<1>5. QED
  BY <1>1, <1>2, <1>3, <1>4, Zenon DEF Next, OpStep
-----------------------------------------------------------------------------
(* All of it together.                                                     *)

\* What holds between any two steps of the callers of internal/cardinality,
\* as long as Collect does what it should.
CoreInv == Control /\ Data /\ Reads

\* It holds when the process has not started.
LEMMA InitCore == Init => CoreInv
<1> SUFFICES ASSUME Init PROVE CoreInv
  BY Zenon
<1>1. Data
  BY EmptyType, Zenon DEF Init, Data, Did, Working, AckedIsPersisted
<1>2. Reads
  BY DEF Init, Reads, ReadOk
<1>3. QED
  BY <1>1, <1>2, InitControl DEF CoreInv

\* No step breaks it.
LEMMA NextCore ==
  ASSUME CoreInv, CollectOk, [Next]_vars
  PROVE  CoreInv'
<1>1. CASE Next
  <2>1. Control /\ Data /\ Reads
    BY Zenon DEF CoreInv
  <2>2. Control'
    BY <1>1, <2>1, NextControl, Zenon
  <2>3. Data'
    BY <1>1, <2>1, NextData, Zenon
  <2>4. Reads'
    BY <1>1, <2>1, NextReads, Zenon
  <2>5. QED
    BY <2>2, <2>3, <2>4, Zenon DEF CoreInv
<1>2. CASE UNCHANGED vars
  <2>0. UNCHANGED <<phase, groups, store, writer, readers, pc, job, at, buf, got, page, acked>>
    BY <1>2, Zenon DEF vars, lockVars
  <2>1. TypeOK'
    BY <1>2, <2>0 DEF CoreInv, Control, TypeOK
  <2>2. Control'
    BY <1>2, <2>0, <2>1, Zenon DEF CoreInv, Control, CallOk, Working, Doing
  <2>4. Data'
    BY <1>2, <2>0, Zenon DEF CoreInv, Data, Did, Working, Arg, AckedIsPersisted
  <2>5. Reads'
    BY <1>2, <2>0, Zenon DEF CoreInv, Reads, ReadOk, Doing
  <2>6. QED
    BY <2>2, <2>4, <2>5 DEF CoreInv
<1>3. QED
  BY <1>1, <1>2
-----------------------------------------------------------------------------
(* The refinement mapping: phase = "up", Asked, Serving, Restored(store).  *)

\* Every sketch a command merges is the sketch of some ids.
MergesRepresent ==
  \A cmd \in Command : cmd.type = "MERGE_SKETCH" /\ CanParse(cmd.payload.b) =>
    \E S \in SUBSET Id : Represents(Parse(cmd.payload.b), S)

\* A goroutine that has not begun asks for nothing.
NotBegun == \A o \in Op : pc[o] = "idle" => job[o] = NoJob

\* So is every sketch a program merges.
LEMMA ProgramMerges ==
  ASSUME MergesRepresent, NEW prog \in Programs, NEW k \in 1 .. Len(prog), prog[k].op = "MergeBytes"
  PROVE  \E S \in SUBSET Id : Represents(Parse(prog[k].b), S)
<1>1. CASE prog \in AddPrograms
  BY <1>1 DEF AddPrograms
<1>2. ASSUME NEW cmd \in Command, prog = Applied(cmd)
      PROVE  \E S \in SUBSET Id : Represents(Parse(prog[k].b), S)
  <2> DEFINE calls == Dispatch(cmd).calls
  <2>1. /\ calls \in Seq({calls[i] : i \in 1 .. Len(calls)}) /\ Len(calls) \in Nat
        /\ \A i \in 1 .. Len(calls) : calls[i].op = "MergeBytes" =>
             cmd.type = "MERGE_SKETCH" /\ CanParse(cmd.payload.b) /\ calls[i].b = cmd.payload.b
    BY DispatchCalls, Zenon
  <2>2. prog = calls \/ prog = Append(calls, [op |-> "Persist"])
    BY <1>2, Zenon DEF Applied
  <2> HIDE DEF calls
  <2>3. k \in 1 .. Len(calls) /\ prog[k] = calls[k]
    <3>1. CASE prog = calls
      BY <3>1, Zenon
    <3>2. CASE prog = Append(calls, [op |-> "Persist"])
      BY <2>1, <3>2
    <3>3. QED
      BY <2>2, <3>1, <3>2
  <2>4. cmd.type = "MERGE_SKETCH" /\ CanParse(cmd.payload.b) /\ prog[k].b = cmd.payload.b
    BY <2>1, <2>3
  <2>5. QED
    BY <2>4, Zenon DEF MergesRepresent
<1>3. CASE prog \in {<<[op |-> "Cardinality"]>>, <<[op |-> "Marshal"]>>,
                     <<[op |-> "CardinalityAll"], [op |-> "Collect"]>>}
  BY <1>3
<1>4. QED
  BY <1>1, <1>2, <1>3, Zenon DEF Programs

\* A goroutine that has not begun asks for nothing.
LEMMA NoJobAsks == PairsOf(NoJob) = {}
BY DEF NoJob, PairsOf

\* The initial state maps to the initial state of the shard.
LEMMA ShardInit == Init => Abs!SInit
<1> SUFFICES ASSUME Init PROVE Abs!SInit
  OBVIOUS
<1>1. \A o \in Op : PairsOf(job[o]) = {}
  <2>1. \A o \in Op : job[o] = NoJob
    BY Zenon DEF Init
  <2>2. QED
    BY <2>1, NoJobAsks, Zenon
<1>2. Asked = {}
  BY <1>1, Zenon DEF Asked
<1>3. Serving = Abs!NoSketches
  BY DEF Init, Serving, Empty, Abs!NoSketches
<1>4. DOMAIN store = {}
  BY DEF Init, Empty
<1>5. Restored(store) = Abs!NoSketches
  BY <1>4, Zenon DEF Restored, Abs!NoSketches
<1>6. QED
  BY <1>2, <1>3, <1>5 DEF Init, Abs!SInit

\* A goroutine begins once.
LEMMA NextNotBegun ==
  ASSUME CoreInv, CollectOk, NotBegun, Next
  PROVE  NotBegun'
<1>1. CASE Start \/ Serve \/ \E g \in Group : Restore(g)
  BY <1>1, Zenon DEF Start, Serve, Restore, NotBegun
<1>2. CASE Crash
  BY <1>2, Zenon DEF Crash, NotBegun
<1>3. ASSUME NEW o \in Op, OpStep(o) PROVE NotBegun'
  <2>1. Keeps(o)
    BY <1>3, EnterControl, WriterControl, ReaderControl, Zenon DEF OpStep, CoreInv
  <2>2. pc \in [Op -> PcName]
    BY DEF CoreInv, Control, TypeOK, PcName
  <2>3. pc'[o] # "idle"
    <3>1. CASE Return(o)
      BY <2>2, <3>1 DEF Return
    <3>2. CASE (\E g \in Group, prog \in Programs : Begin(o, g, prog)) \/ Lock(o) \/ RLock(o) \/ Collect(o)
      BY <2>2, <3>2, Zenon DEF Begin, Lock, RLock, Collect
    <3>3. CASE (\E g \in Group : ReadGroup(o, g))
      BY <2>2, <3>3 DEF ReadGroup, ReadsAll, In
    <3>4. CASE pc' = [pc EXCEPT ![o] = "save"]
      BY <2>2, <3>4, Zenon
    <3>5. QED
      BY <1>3, <3>1, <3>2, <3>3, <3>4, Zenon
        DEF OpStep, Add, AddAndPersist, Persist, Save, MergeBytes, ReadOne, ReadDone, Sent, Unlock, RUnlock
  <2>4. QED
    BY <2>1, <2>3, Zenon DEF NotBegun, Keeps
<1>4. QED
  BY <1>1, <1>2, <1>3, Zenon DEF Next, OpStep

\* A call of a goroutine that works is among what was asked for.
LEMMA CallsAsked ==
  ASSUME CoreInv, NEW o \in Op, Working(o), NEW i \in Id,
         \/ Doing(o) \in {"Add", "AddAndPersist"} /\ Arg(o).id = i
         \/ Doing(o) = "MergeBytes" /\ Absorbs(Parse(Arg(o).b), i)
  PROVE  <<job[o].g, i>> \in Asked
<1>1. at[o] \in 1 .. Len(job[o].prog)
  BY Now DEF CoreInv
<1>2. <<job[o].g, i>> \in PairsOf(job[o])
  BY <1>1, Zenon DEF PairsOf, Doing, Arg
<1>3. QED
  BY <1>2, Zenon DEF Asked

\* What was asked for changes with the jobs only.
LEMMA SameAsked ==
  ASSUME job' = job PROVE Asked' = Asked
BY DEF Asked, PairsOf

\* A restart would restore the same sketches as long as the store stays.
LEMMA SameRestored ==
  ASSUME store' = store PROVE Restored(store)' = Restored(store)
BY DEF Restored

\* A server that is up answers from its groups.
LEMMA ServingUp ==
  /\ phase = "up" => Serving = groups
  /\ phase' = "up" => Serving' = groups'
BY DEF Serving

\* A step that moves no mapped variable is a stutter of the shard.
LEMMA ShardStutter ==
  ASSUME UNCHANGED <<job, store>>, (phase' = "up") = (phase = "up"),
         phase = "up" => groups' = groups
  PROVE  UNCHANGED Abs!svars
<1>1. Asked' = Asked
  BY SameAsked, Zenon
<1>2. Serving' = Serving
  BY DEF Serving
<1>3. Restored(store)' = Restored(store)
  BY SameRestored, Zenon
<1>4. QED
  BY <1>1, <1>2, <1>3 DEF Abs!svars

\* Every step is one of the shard or leaves it alone: Serve is Boot, a crash
\* of a server End, Begin Ask, an add Count, a merge Fold, a save Save.
LEMMA ShardStep ==
  ASSUME MergesRepresent, CoreInv, NotBegun, [Next]_vars
  PROVE  [Abs!SNext]_(Abs!svars)
<1>0. /\ Control /\ Data /\ store \in Stores /\ groups \in Engines
      /\ job \in [Op -> [g : Group, prog : Programs] \cup {NoJob}]
  BY DEF CoreInv, Control, TypeOK
<1>1. CASE Start \/ UNCHANGED vars \/ \E g \in Group : Restore(g)
  <2>1. UNCHANGED <<job, store>> /\ (phase' = "up") = (phase = "up") /\ (phase = "up" => groups' = groups)
    BY <1>1, Zenon DEF Start, Restore, vars
  <2>2. QED
    BY <2>1, ShardStutter
<1>2. CASE Serve
  <2>1. /\ phase = "loading" /\ phase' = "up" /\ UNCHANGED <<groups, store, job>>
        /\ DOMAIN store \subseteq DOMAIN groups
    BY <1>2, Zenon DEF Serve
  <2>2. DOMAIN groups = DOMAIN store /\ \A g \in DOMAIN groups : groups[g] = Parse(store[g])
    BY <1>0, <2>1 DEF Data
  <2>3. groups = [g \in DOMAIN groups |-> groups[g]]
    BY <1>0 DEF Engines
  <2>4. groups = Restored(store)
    BY <2>2, <2>3 DEF Restored
  <2>5. Serving' = Restored(store) /\ Restored(store)' = Restored(store) /\ Asked' = Asked
    BY <2>1, <2>4, SameAsked, SameRestored, ServingUp, Zenon
  <2>6. Abs!Boot
    BY <2>1, <2>5 DEF Abs!Boot
  <2>7. QED
    BY <2>6, Zenon DEF Abs!SNext
<1>3. CASE Crash
  <2>1. phase # "down" /\ phase' = "down" /\ UNCHANGED <<store, job>>
    BY <1>3 DEF Crash
  <2>2. CASE phase = "up"
    <3>1. Restored(store)' = Restored(store) /\ Asked' = Asked
      BY <2>1, SameAsked, SameRestored, Zenon
    <3>2. Serving' = Abs!NoSketches
      BY <2>1 DEF Serving, Empty, Abs!NoSketches
    <3>3. Abs!End
      BY <2>1, <2>2, <3>1, <3>2, Zenon DEF Abs!End
    <3>4. QED
      BY <3>3 DEF Abs!SNext
  <2>3. CASE phase # "up"
    BY <2>1, <2>3, ShardStutter
  <2>4. QED
    BY <2>2, <2>3
<1>4. ASSUME NEW o \in Op, NEW g \in Group, NEW prog \in Programs, Begin(o, g, prog)
      PROVE  [Abs!SNext]_(Abs!svars)
  <2>1. /\ phase = "up" /\ pc[o] = "idle" /\ UNCHANGED <<phase, groups, store>>
        /\ job' = [job EXCEPT ![o] = [g |-> g, prog |-> prog]]
    BY <1>4 DEF Begin
  <2>2. PairsOf(job[o]) = {}
    BY <2>1, NoJobAsks, Zenon DEF NotBegun
  <2>3. \A q \in Op \ {o} : job'[q] = job[q]
    BY <1>0, <2>1
  <2>4. Asked \subseteq Asked'
    <3> SUFFICES ASSUME NEW q \in Op, NEW p \in PairsOf(job[q]) PROVE p \in Asked'
      BY DEF Asked
    <3>1. q # o
      BY <2>2, Zenon
    <3>2. p \in PairsOf(job'[q])
      BY <2>3, <3>1
    <3>3. Asked' = UNION {PairsOf(job'[i]) : i \in Op}
      BY Zenon DEF Asked, PairsOf
    <3>4. QED
      BY <3>2, <3>3, Zenon
  <2>5. Serving' = Serving /\ Restored(store)' = Restored(store)
    BY <2>1, ServingUp, SameRestored, Zenon
  <2>6. Abs!Ask
    BY <2>1, <2>4, <2>5 DEF Abs!Ask
  <2>7. QED
    BY <2>6, Zenon DEF Abs!SNext
<1>5. ASSUME NEW o \in Op, Add(o) \/ AddAndPersist(o) PROVE [Abs!SNext]_(Abs!svars)
  <2> DEFINE g == job[o].g
             id == Arg(o).id
  <2>1. /\ Working(o) /\ Doing(o) \in {"Add", "AddAndPersist"} /\ groups' = EngineAdd(groups, g, id)
        /\ UNCHANGED <<phase, store, job>>
    BY <1>5, Zenon DEF Add, AddAndPersist, In, Working
  <2>2. phase = "up" /\ g \in Group /\ id \in Id
    BY <1>0, <2>1, Now, Zenon
  <2>3. <<g, id>> \in Asked
    BY <2>1, <2>2, CallsAsked
  <2>4. Serving = groups /\ Serving' = groups' /\ Restored(store)' = Restored(store) /\ Asked' = Asked
    BY <2>1, <2>2, SameAsked, SameRestored, ServingUp, Zenon
  <2> HIDE DEF g, id
  <2>5. groups' = Abs!Write(groups, g, AddId(IF g \in DOMAIN groups THEN groups[g] ELSE New, id))
    BY <2>1, SMTT(30) DEF EngineAdd, Put, Abs!Write
  <2>6. Abs!Count(g, id)
    BY <2>1, <2>2, <2>3, <2>4, <2>5, Zenon DEF Abs!Count, Abs!AddId, Abs!New, AddId, New
  <2>7. QED
    BY <2>2, <2>6 DEF Abs!SNext
<1>6. ASSUME NEW o \in Op, MergeBytes(o) PROVE [Abs!SNext]_(Abs!svars)
  <2> DEFINE g == job[o].g
             s == Parse(Arg(o).b)
  <2>1. /\ Working(o) /\ Doing(o) = "MergeBytes" /\ UNCHANGED <<phase, store, job>>
        /\ groups' = Put(groups, g, IF g \in DOMAIN groups THEN MergeSketch(groups[g], s) ELSE s)
    BY <1>6, Zenon DEF MergeBytes, In, Working
  <2>2. /\ phase = "up" /\ g \in Group /\ s \in Registers
        /\ job[o].prog \in Programs /\ at[o] \in 1 .. Len(job[o].prog)
    BY <1>0, <2>1, Now, Zenon
  <2>3. PICK S \in SUBSET Id : Represents(s, S)
    BY <2>1, <2>2, ProgramMerges, Zenon DEF Doing, Arg
  <2>4. S \in SUBSET {i \in Id : <<g, i>> \in Asked}
    <3>1. \A i \in S : i \in Id /\ Absorbs(s, i)
      BY <2>3 DEF Represents
    <3>2. QED
      BY <2>1, <3>1, CallsAsked, Zenon
  <2>5. Serving = groups /\ Serving' = groups' /\ Restored(store)' = Restored(store) /\ Asked' = Asked
    BY <2>1, <2>2, SameAsked, SameRestored, ServingUp, Zenon
  <2> HIDE DEF g, s
  <2>6. Serving' = Abs!Write(Serving, g, IF g \in DOMAIN Serving THEN MergeSketch(Serving[g], s) ELSE s)
    BY <2>1, <2>5, SMTT(30) DEF Put, Abs!Write
  <2>7. Abs!Represents(s, S) /\ s \in Abs!Registers
    BY <2>2, <2>3 DEF Abs!Represents, Represents, Abs!Absorbs, Absorbs, Abs!Registers, Registers
  <2>8. Abs!Fold
    BY <2>1, <2>2, <2>4, <2>5, <2>6, <2>7, Zenon DEF Abs!Fold, Abs!MergeSketch, MergeSketch
  <2>9. QED
    BY <2>8 DEF Abs!SNext
<1>7. ASSUME NEW o \in Op, Save(o) PROVE [Abs!SNext]_(Abs!svars)
  <2> DEFINE g == job[o].g
  <2>1. /\ Working(o) /\ pc[o] = "save" /\ UNCHANGED <<phase, groups, job>>
        /\ store' = Put(store, g, buf[o]) \/ store' = store
    BY <1>7, Zenon DEF Save, Working
  <2>2. phase = "up" /\ g \in Group
    BY <1>0, <2>1, Now
  <2>3. CASE store' = store
    BY <2>1, <2>3, ShardStutter, Zenon
  <2>4. CASE store' = Put(store, g, buf[o])
    <3>1. g \in DOMAIN groups /\ buf[o] = Bytes(groups[g])
      BY <1>0, <2>1, Zenon DEF Data, Did
    <3>2. Parse(buf[o]) = groups[g]
      BY <1>0, <3>1, EnginesDef, RoundTrip
    <3>3. Serving = groups /\ Serving' = groups /\ Asked' = Asked
      BY <2>1, <2>2, SameAsked, ServingUp, Zenon
    <3>4. /\ DOMAIN store' = DOMAIN store \cup {g} /\ Parse(store'[g]) = groups[g]
          /\ \A h \in DOMAIN store : h # g => store'[h] = store[h]
      BY <2>4, <3>2, Zenon DEF Put
    <3> HIDE DEF g
    <3>5. Restored(store)' = Abs!Write(Restored(store), g, groups[g])
      BY <3>4, SMTT(30) DEF Restored, Abs!Write
    <3>6. Abs!Save(g)
      BY <2>1, <2>2, <3>1, <3>3, <3>5, Zenon DEF Abs!Save
    <3>7. QED
      BY <2>2, <3>6 DEF Abs!SNext
  <2>5. QED
    BY <2>1, <2>3, <2>4, Zenon
<1>8. ASSUME NEW o \in Op,
             \/ Lock(o) \/ RLock(o) \/ Persist(o)
             \/ ReadOne(o) \/ ReadDone(o) \/ (\E g \in Group : ReadGroup(o, g))
             \/ Collect(o) \/ Sent(o)
      PROVE  [Abs!SNext]_(Abs!svars)
  <2>1. UNCHANGED <<phase, groups, store, job>>
    BY <1>8, Zenon DEF Lock, RLock, Persist, ReadOne, ReadDone, ReadGroup, Collect, Sent
  <2>2. QED
    BY <2>1, ShardStutter
<1>9. QED
  BY <1>1, <1>2, <1>3, <1>4, <1>5, <1>6, <1>7, <1>8, Zenon DEF Next
-----------------------------------------------------------------------------
INSTANCE FiniteSetTheorems

-----------------------------------------------------------------------------
(* The order of sort.Slice in EngineCollector.Collect.                     *)

Rank(all, g) == Cardinality({h \in DOMAIN all : Before(all, h, g)})

\* The order of the groups is strict and total: no two share a name.
LEMMA Order ==
  ASSUME NEW S \in SUBSET Group, NEW all \in [S -> Nat], NEW g \in S, NEW h \in S, NEW k \in S
  PROVE  /\ ~ Before(all, g, g)
         /\ g # h => Before(all, g, h) \/ Before(all, h, g)
         /\ Before(all, g, h) /\ Before(all, h, k) => Before(all, g, k)
<1>1. /\ all[g] \in Nat /\ all[h] \in Nat /\ all[k] \in Nat
      /\ NameRank[g] \in Nat /\ NameRank[h] \in Nat /\ NameRank[k] \in Nat
      /\ NameRank[g] = NameRank[h] => g = h
  BY NameAssumption, Zenon
<1>2. QED
  BY <1>1 DEF Before

\* A group has fewer groups before it than there are, and more than any
\* group before it.
LEMMA RankOrder ==
  ASSUME NEW S \in SUBSET Group, IsFiniteSet(S), NEW all \in [S -> Nat]
  PROVE  /\ Cardinality(S) \in Nat
         /\ \A g \in S : Rank(all, g) \in 0 .. Cardinality(S) - 1
         /\ \A g \in S, h \in S : Before(all, g, h) => Rank(all, g) < Rank(all, h)
         /\ \A g \in S, h \in S : Rank(all, g) = Rank(all, h) => g = h
<1> DEFINE P(g) == {x \in S : Before(all, x, g)}
<1>0. DOMAIN all = S /\ Cardinality(S) \in Nat
  BY FS_CardinalityType, Zenon
<1>1. \A g \in S : Rank(all, g) = Cardinality(P(g)) /\ P(g) \in SUBSET S
  BY <1>0, Zenon DEF Rank
<1>2. ASSUME NEW g \in S PROVE Rank(all, g) \in 0 .. Cardinality(S) - 1
  <2>1. g \notin P(g)
    BY Order, Zenon
  <2>2. IsFiniteSet(P(g)) /\ Cardinality(P(g)) <= Cardinality(S) /\ Cardinality(P(g)) # Cardinality(S)
    BY <1>1, <2>1, FS_Subset, Zenon
  <2>3. Cardinality(P(g)) \in Nat
    BY <2>2, FS_CardinalityType, Zenon
  <2>4. QED
    BY <1>0, <1>1, <2>2, <2>3
<1>3. ASSUME NEW g \in S, NEW h \in S, Before(all, g, h) PROVE Rank(all, g) < Rank(all, h)
  <2>1. P(g) \in SUBSET P(h) /\ g \in P(h) /\ g \notin P(g)
    BY <1>3, Order, Zenon
  <2>2. IsFiniteSet(P(h)) /\ IsFiniteSet(P(g))
    BY <1>1, FS_Subset, Zenon
  <2>3. Cardinality(P(g)) <= Cardinality(P(h)) /\ Cardinality(P(g)) # Cardinality(P(h))
    BY <2>1, <2>2, FS_Subset, Zenon
  <2>4. Cardinality(P(g)) \in Nat /\ Cardinality(P(h)) \in Nat
    BY <2>2, FS_CardinalityType, Zenon
  <2>5. Cardinality(P(g)) < Cardinality(P(h))
    BY <2>3, <2>4
  <2>6. QED
    BY <1>1, <2>5, Zenon
<1>4. ASSUME NEW g \in S, NEW h \in S, Rank(all, g) = Rank(all, h) PROVE g = h
  <2>1. Rank(all, g) \in Nat
    BY <1>0, <1>2
  <2>2. ~ Before(all, g, h) /\ ~ Before(all, h, g)
    BY <1>3, <1>4, <2>1
  <2>3. QED
    BY <2>2, Order, Zenon
<1>5. QED
  BY <1>0, <1>2, <1>3, <1>4, Zenon

\* So every place of the slice is taken, by the group with that rank.
LEMMA SliceIsSorted ==
  ASSUME NEW S \in SUBSET Group, IsFiniteSet(S), NEW all \in [S -> Nat], NEW k \in 1 .. Cardinality(S)
  PROVE  SortSlice(all)[k] \in S /\ Rank(all, SortSlice(all)[k]) = k - 1
<1> DEFINE n == Cardinality(S)
           f == [g \in S |-> Rank(all, g)]
<1>1. /\ n \in Nat /\ \A g \in S : Rank(all, g) \in 0 .. n - 1
      /\ \A g \in S, h \in S : Rank(all, g) = Rank(all, h) => g = h
  BY RankOrder, Zenon
<1>2. IsFiniteSet(0 .. n - 1) /\ Cardinality(0 .. n - 1) = n
  <2>1. 0 \in Int /\ n - 1 \in Int
    BY <1>1
  <2>2. /\ IsFiniteSet(0 .. n - 1)
        /\ Cardinality(0 .. n - 1) = IF 0 > n - 1 THEN 0 ELSE (n - 1) - 0 + 1
    BY <2>1, FS_Interval, Zenon
  <2>3. QED
    BY <1>1, <2>2
<1>3. f \in Injection(S, 0 .. n - 1)
  BY <1>1, Zenon DEF Injection, IsInjective
<1>4. f \in Surjection(S, 0 .. n - 1)
  BY <1>2, <1>3, FS_Injection
<1>5. \E g \in S : Rank(all, g) = k - 1
  <2>1. k - 1 \in 0 .. n - 1
    BY <1>1
  <2>2. QED
    BY <1>4, <2>1, Zenon DEF Surjection
<1>6. SortSlice(all)[k] = CHOOSE g \in S : Rank(all, g) = k - 1
  <2>1. DOMAIN all = S
    BY Zenon
  <2>2. QED
    BY <2>1, Zenon DEF SortSlice, Rank
<1>7. QED
  BY <1>5, <1>6, Zenon

\* The first m places hold the groups with fewer than m before them.
LEMMA SliceCut ==
  ASSUME NEW S \in SUBSET Group, IsFiniteSet(S), NEW all \in [S -> Nat], NEW m \in Nat, m <= Cardinality(S)
  PROVE  LET cut == {SortSlice(all)[i] : i \in 1 .. m}
         IN  /\ cut = {g \in S : Rank(all, g) < m}
             /\ Cardinality(cut) = m
<1> DEFINE cut == {SortSlice(all)[i] : i \in 1 .. m}
           f == [i \in 1 .. m |-> SortSlice(all)[i]]
<1>1. /\ Cardinality(S) \in Nat /\ \A g \in S : Rank(all, g) \in 0 .. Cardinality(S) - 1
      /\ \A g \in S, h \in S : Rank(all, g) = Rank(all, h) => g = h
  BY RankOrder, Zenon
<1>2. \A i \in 1 .. m : SortSlice(all)[i] \in S /\ Rank(all, SortSlice(all)[i]) = i - 1
  BY <1>1, SliceIsSorted
<1>3. cut \subseteq {g \in S : Rank(all, g) < m}
  BY <1>2
<1>4. ASSUME NEW g \in S, Rank(all, g) < m PROVE g \in cut
  <2>1. Rank(all, g) + 1 \in 1 .. m /\ (Rank(all, g) + 1) - 1 = Rank(all, g)
    BY <1>1, <1>4
  <2>2. SortSlice(all)[Rank(all, g) + 1] = g
    BY <1>1, <1>2, <2>1, Zenon
  <2>3. QED
    BY <2>1, <2>2, Zenon
<1>5. \A i \in 1 .. m, j \in 1 .. m : f[i] = f[j] => i = j
  BY <1>2
<1>6. f \in Surjection(1 .. m, cut) /\ f \in Injection(1 .. m, cut)
  BY <1>5, Zenon DEF Surjection, Injection, IsInjective
<1>7. IsFiniteSet(1 .. m) /\ Cardinality(1 .. m) = m
  <2>1. /\ IsFiniteSet(1 .. m)
        /\ Cardinality(1 .. m) = IF 1 > m THEN 0 ELSE m - 1 + 1
    BY FS_Interval
  <2>2. QED
    BY <2>1
<1>8. Cardinality(cut) = m
  BY <1>6, <1>7, FS_Surjection
<1>9. QED
  BY <1>3, <1>4, <1>8, Zenon
-----------------------------------------------------------------------------
(* What Collect shows, and the finitely many groups it needs.              *)

\* The engine has finitely many groups, and so has what was read of it.
Finite == IsFiniteSet(DOMAIN groups) /\ \A o \in Op : IsFiniteSet(DOMAIN got[o])

\* EngineCollector.Collect cuts the sorted slice after MaxGroups groups.
LEMMA CollectPage ==
  ASSUME Control, NEW o \in Op, Collect(o), IsFiniteSet(DOMAIN got[o])
  PROVE  /\ page' \in [Op -> PageType] /\ PageFits(got[o], page'[o])
         /\ \A q \in Op \ {o} : page'[q] = page[q]
<1> DEFINE S == DOMAIN got[o]
           all == [g \in S |-> CardinalityOf[got[o][g]]]
           total == Cardinality(DOMAIN all)
           capped == MaxGroups > 0 /\ total > MaxGroups
           p == [shown |-> IF capped THEN {SortSlice(all)[i] : i \in 1 .. MaxGroups} ELSE DOMAIN all,
                 dropped |-> IF capped THEN total - MaxGroups ELSE 0, total |-> total]
<1>1. page' = [page EXCEPT ![o] = p]
  BY Zenon DEF Collect
<1>2. got[o] \in Engines /\ page \in [Op -> PageType] /\ MaxGroups \in Nat
  BY CapAssumption, Zenon DEF Control, TypeOK, PageType
<1>3. S \in SUBSET Group /\ all \in [S -> Nat] /\ DOMAIN all = S /\ total = Cardinality(S)
  BY <1>2, EnginesDef, EstimateAssumption, Zenon
<1> HIDE DEF all
<1>4. /\ total \in Nat /\ \A g \in S : Rank(all, g) \in 0 .. total - 1
  <2>1. Cardinality(S) \in Nat /\ \A g \in S : Rank(all, g) \in 0 .. Cardinality(S) - 1
    BY <1>3, RankOrder
  <2>2. QED
    BY <1>3, <2>1, Zenon
<1>5. /\ p.shown \subseteq S /\ p.total = Cardinality(S) /\ p.dropped \in Nat
      /\ Cardinality(p.shown) + p.dropped = p.total
      /\ \A g \in S : g \in p.shown <=> MaxGroups = 0 \/ Rank(all, g) < MaxGroups
  <2>1. CASE capped
    <3> DEFINE cut == {SortSlice(all)[i] : i \in 1 .. MaxGroups}
    <3>1. MaxGroups <= Cardinality(S)
      BY <1>2, <1>3, <1>4, <2>1
    <3>2. cut = {g \in S : Rank(all, g) < MaxGroups} /\ Cardinality(cut) = MaxGroups
      <4>1. S \in SUBSET Group /\ IsFiniteSet(S) /\ all \in [S -> Nat] /\ MaxGroups \in Nat
        BY <1>2, <1>3, Zenon
      <4> HIDE DEF S
      <4>2. QED
        BY <3>1, <4>1, SliceCut, Zenon
    <3>3. p.shown = cut /\ p.dropped = total - MaxGroups /\ p.total = total
      BY <2>1, Zenon
    <3> HIDE DEF cut, p, total
    <3>4. /\ p.shown \subseteq S /\ p.total = Cardinality(S)
          /\ \A g \in S : g \in p.shown <=> Rank(all, g) < MaxGroups
      BY <1>3, <3>2, <3>3, Zenon
    <3>5. p.dropped \in Nat /\ Cardinality(p.shown) + p.dropped = p.total /\ MaxGroups # 0
      BY <1>2, <1>3, <1>4, <2>1, <3>1, <3>2, <3>3
    <3>6. QED
      BY <3>4, <3>5, Zenon
  <2>2. CASE ~capped
    <3>1. p.shown = S /\ p.dropped = 0 /\ p.total = total
      BY <1>3, <2>2, Zenon
    <3>2. MaxGroups = 0 \/ total <= MaxGroups
      BY <1>2, <1>4, <2>2
    <3> HIDE DEF p, total
    <3>3. /\ p.shown \subseteq S /\ p.total = Cardinality(S) /\ p.dropped \in Nat
          /\ Cardinality(p.shown) + p.dropped = p.total
      BY <1>3, <1>4, <3>1
    <3>4. ASSUME NEW g \in S PROVE MaxGroups = 0 \/ Rank(all, g) < MaxGroups
      BY <1>2, <1>4, <3>2
    <3>5. QED
      BY <3>1, <3>3, <3>4, Zenon
  <2>3. QED
    BY <2>1, <2>2, Zenon
<1>6. p \in PageType
  <2>1. p.shown \in SUBSET Group /\ p.dropped \in Nat /\ p.total \in Nat
    BY <1>3, <1>4, <1>5, Zenon
  <2>2. p = [shown |-> p.shown, dropped |-> p.dropped, total |-> p.total]
    BY Zenon
  <2> HIDE DEF p
  <2>3. QED
    BY <2>1, <2>2 DEF PageType
<1>7. \A g \in S : Rank(all, g) = Cardinality({h \in S : CardinalityOf[got[o][h]] > CardinalityOf[got[o][g]]
          \/ (CardinalityOf[got[o][h]] = CardinalityOf[got[o][g]] /\ NameRank[h] < NameRank[g])})
  <2>1. \A g \in S : all[g] = CardinalityOf[got[o][g]]
    BY Zenon DEF all
  <2>2. ASSUME NEW g \in S
        PROVE  {h \in S : Before(all, h, g)} = {h \in S : CardinalityOf[got[o][h]] > CardinalityOf[got[o][g]]
                 \/ (CardinalityOf[got[o][h]] = CardinalityOf[got[o][g]] /\ NameRank[h] < NameRank[g])}
    BY <2>1, <2>2 DEF Before
  <2>3. QED
    BY <1>3, <2>2, Zenon DEF Rank
<1>8. PageFits(got[o], p)
  <2> HIDE DEF p
  <2>1. QED
    BY <1>5, <1>7, Zenon DEF PageFits
<1>9. page'[o] = p /\ page' \in [Op -> PageType] /\ \A q \in Op \ {o} : page'[q] = page[q]
  <2> HIDE DEF p
  <2>1. QED
    BY <1>1, <1>2, <1>6
<1>10. QED
  BY <1>8, <1>9, Zenon
\* So every Collect does what the lemmas about a step suppose.
LEMMA CollectSteps ==
  ASSUME Control, Finite
  PROVE  CollectOk
<1>1. ASSUME NEW o \in Op, Collect(o)
      PROVE  /\ page' \in [Op -> PageType] /\ PageFits(got[o], page'[o])
             /\ \A q \in Op \ {o} : page'[q] = page[q]
  <2>1. IsFiniteSet(DOMAIN got[o])
    BY Zenon DEF Finite
  <2>2. QED
    BY <1>1, <2>1, CollectPage, Zenon
<1>2. QED
  BY <1>1, Zenon DEF CollectOk

\* The groups stay finitely many: a step adds at most one.
LEMMA NextFinite ==
  ASSUME Control, Finite, Next
  PROVE  Finite'
<1>0. /\ IsFiniteSet(DOMAIN groups) /\ \A o \in Op : IsFiniteSet(DOMAIN got[o])
      /\ got \in [Op -> Engines] /\ IsFiniteSet(DOMAIN Empty)
  BY EmptyType, FS_EmptySet, Zenon DEF Finite, Control, TypeOK
<1>1. CASE Start \/ Serve
  <2>1. UNCHANGED <<groups, got>>
    BY <1>1, Zenon DEF Start, Serve
  <2>2. QED
    BY <1>0, <2>1, Zenon DEF Finite
<1>2. CASE Crash
  <2>1. groups' = Empty /\ \A o \in Op : got'[o] = Empty
    BY <1>2, Zenon DEF Crash
  <2>2. QED
    BY <1>0, <2>1, Zenon DEF Finite
<1>3. ASSUME NEW g \in Group, Restore(g) PROVE Finite'
  <2>1. DOMAIN groups' = DOMAIN groups \cup {g} /\ got' = got
    BY <1>3 DEF Restore, Put
  <2>2. QED
    BY <1>0, <2>1, FS_AddElement DEF Finite
<1>4. ASSUME NEW o \in Op, OpStep(o) PROVE Finite'
  <2>1. CASE (\E g \in Group, prog \in Programs : Begin(o, g, prog)) \/ Lock(o) \/ RLock(o)
             \/ Persist(o) \/ Save(o) \/ Collect(o)
    <3>1. UNCHANGED <<groups, got>>
      BY <2>1, Zenon DEF Begin, Lock, RLock, Persist, Save, Collect
    <3>2. QED
      BY <1>0, <3>1 DEF Finite
  <2>2. CASE Add(o) \/ AddAndPersist(o) \/ MergeBytes(o)
    <3>1. DOMAIN groups' = DOMAIN groups \cup {job[o].g}
      BY <2>2, WriteEffect
    <3>2. IsFiniteSet(DOMAIN groups')
      BY <1>0, <3>1, FS_AddElement, Zenon
    <3>3. got' = got
      BY <2>2, Zenon DEF Add, AddAndPersist, MergeBytes
    <3>4. QED
      BY <1>0, <3>2, <3>3, Zenon DEF Finite
  <2>3. ASSUME NEW e, IsFiniteSet(DOMAIN e), got' = [got EXCEPT ![o] = e], groups' = groups
        PROVE  Finite'
    <3>1. \A q \in Op : got'[q] = e \/ got'[q] = got[q]
      BY <1>0, <2>3
    <3>2. QED
      BY <1>0, <2>3, <3>1, Zenon DEF Finite
  <2>4. CASE ReadOne(o)
    <3> DEFINE e == [g \in DOMAIN groups \cap {job[o].g} |-> groups[g]]
    <3>1. got' = [got EXCEPT ![o] = e] /\ groups' = groups
      BY <2>4, Zenon DEF ReadOne
    <3>2. DOMAIN e \in SUBSET DOMAIN groups
      BY Zenon
    <3>3. IsFiniteSet(DOMAIN e)
      BY <1>0, <3>2, FS_Subset, Zenon
    <3> HIDE DEF e
    <3>4. QED
      BY <2>3, <3>1, <3>3, Zenon
  <2>5. CASE ReadDone(o)
    <3>1. groups' = groups /\ (got' = [got EXCEPT ![o] = Empty] \/ got' = got)
      BY <2>5, Zenon DEF ReadDone
    <3>2. got = [got EXCEPT ![o] = got[o]]
      BY <1>0
    <3>3. QED
      BY <1>0, <2>3, <3>1, <3>2, Zenon
  <2>6. ASSUME NEW g \in Group, ReadGroup(o, g) PROVE Finite'
    <3>1. got' = [got EXCEPT ![o] = Put(got[o], g, groups[g])] /\ groups' = groups
      BY <2>6, Zenon DEF ReadGroup
    <3>2. DOMAIN Put(got[o], g, groups[g]) = DOMAIN got[o] \cup {g}
      BY Zenon DEF Put
    <3>3. IsFiniteSet(DOMAIN Put(got[o], g, groups[g]))
      BY <1>0, <3>2, FS_AddElement
    <3>4. QED
      BY <2>3, <3>1, <3>3, Zenon
  <2>7. CASE Sent(o)
    <3>1. got' = [got EXCEPT ![o] = Empty] /\ groups' = groups
      BY <2>7 DEF Sent
    <3>2. QED
      BY <1>0, <2>3, <3>1, Zenon
  <2>8. QED
    BY <1>4, <2>1, <2>2, <2>4, <2>5, <2>6, <2>7, Zenon DEF OpStep
<1>5. QED
  BY <1>1, <1>2, <1>3, <1>4, Zenon DEF Next, OpStep
-----------------------------------------------------------------------------
(* The theorems.                                                           *)


\* The inductive invariant.
EngineInv == CoreInv /\ Finite


\* It holds at first.
LEMMA InitInv == Init => EngineInv
<1>1. Init => Finite
  BY EmptyType, FS_EmptySet DEF Init, Finite
<1>2. QED
  BY <1>1, InitCore, Zenon DEF EngineInv

\* No step breaks it.
LEMMA NextInv == EngineInv /\ [Next]_vars => EngineInv'
<1> SUFFICES ASSUME EngineInv, [Next]_vars PROVE EngineInv'
  OBVIOUS
<1>0. CoreInv /\ Finite /\ Control
  BY Zenon DEF EngineInv, CoreInv
<1>1. CoreInv'
  BY <1>0, CollectSteps, NextCore, Zenon
<1>2. Finite'
  <2>1. CASE UNCHANGED vars
    BY <1>0, <2>1, Zenon DEF vars, Finite
  <2>2. QED
    BY <1>0, <2>1, NextFinite, Zenon
<1>3. QED
  BY <1>1, <1>2, Zenon DEF EngineInv

\* The invariant holds for any goroutines, groups, ids, commands, failing
\* saves and crashes.
THEOREM EngineInvariant == Spec => []EngineInv
BY InitInv, NextInv, PTL DEF Spec

\* Every variable of Engine keeps its type; the page a scrape puts together
\* is well formed because every place of the sorted slice is taken.
THEOREM TypeCorrect == Spec => []TypeOK
<1>1. EngineInv => TypeOK
  BY Zenon DEF EngineInv, CoreInv, Control
<1>2. QED
  BY <1>1, EngineInvariant, PTL

\* "Every acknowledged add is in the persisted sketch" (AddAndPersist), for
\* any number of goroutines that save the same groups, and after any crash.
THEOREM AcknowledgedIsPersisted == Spec => []AckedIsPersisted
<1>1. EngineInv => AckedIsPersisted
  BY DEF EngineInv, CoreInv, Data
<1>2. QED
  BY <1>1, EngineInvariant, PTL

\* "No older snapshot can be written after a newer one" (Persist): no save
\* lowers a stored register, across restarts too.
THEOREM SavesOnlyRaise == Spec => SavesNeverGoBack
<1> DEFINE Up == \A g \in DOMAIN store : g \in DOMAIN store' /\ Below(Parse(store[g]), Parse(store'[g]))
<1>1. ASSUME EngineInv, Next PROVE [Up]_store
  <2>1. ASSUME NEW o \in Op, Save(o) PROVE Up
    BY <1>1, <2>1, SaveEffect DEF EngineInv, CoreInv
  <2>2. (\E o \in Op : Save(o)) \/ store' = store
    BY <1>1, Zenon DEF Next, Start, Serve, Crash, Restore, Begin, Lock, RLock, Add, AddAndPersist, Persist,
                MergeBytes, ReadOne, ReadDone, ReadGroup, Collect, Sent
  <2>3. QED
    BY <2>1, <2>2, Zenon
<1>2. ASSUME EngineInv, UNCHANGED vars PROVE [Up]_store
  BY <1>2, Zenon DEF vars
<1>3. EngineInv /\ [Next]_vars => [Up]_store
  BY <1>1, <1>2, Zenon
<1>4. QED
  BY <1>3, EngineInvariant, PTL DEF Spec, SavesNeverGoBack

\* CardinalityAll and Marshal give the engine at one moment, although they
\* walk the map group by group while writers wait (Engine.mu).
THEOREM ReadsAreOneMoment == Spec => []ReadIsOneMoment
<1>1. EngineInv => ReadIsOneMoment
  BY DEF EngineInv, CoreInv, Control, TypeOK, Reads, ReadOk, ReadIsOneMoment
<1>2. QED
  BY <1>1, EngineInvariant, PTL

\* "The cap keeps the groups with the largest estimates and reports the rest"
\* (EngineCollector), for any estimates, any names and any cap.
THEOREM CapShowsLargest == Spec => []CapKeepsLargest
<1>1. EngineInv => CapKeepsLargest
  BY Zenon DEF EngineInv, CoreInv, Reads, ReadOk, PageFits, CapKeepsLargest
<1>2. QED
  BY <1>1, EngineInvariant, PTL

\* The callers of the engine implement the abstract shard, when every merged
\* sketch is one of ids: nothing is counted that was not asked for, also in
\* the middle of a batch or a failed command, and a server that listens has
\* restored exactly what was saved.
THEOREM EngineRefinement ==
  ASSUME MergesRepresent
  PROVE  Spec => ImplementsShard
<1>1. Init => NotBegun
  BY DEF Init, NotBegun
<1>2. EngineInv /\ NotBegun /\ [Next]_vars => NotBegun'
  <2>1. ASSUME EngineInv, NotBegun, UNCHANGED vars PROVE NotBegun'
    BY <2>1 DEF vars, NotBegun
  <2>2. ASSUME EngineInv, NotBegun, Next PROVE NotBegun'
    <3>1. CoreInv /\ CollectOk
      BY <2>2, CollectSteps, Zenon DEF EngineInv, CoreInv
    <3>2. QED
      BY <2>2, <3>1, NextNotBegun, Zenon
  <2>3. QED
    BY <2>1, <2>2, Zenon
<1>3. EngineInv /\ NotBegun /\ [Next]_vars => [Abs!SNext]_(Abs!svars)
  BY ShardStep DEF EngineInv
<1>4. QED
  BY <1>1, <1>2, <1>3, ShardInit, EngineInvariant, PTL DEF Spec, ImplementsShard, Abs!SSpec
=============================================================================
