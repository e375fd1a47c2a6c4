--------------------------- MODULE EngineControl ---------------------------
(***************************************************************************)
(* The control of Engine, for any number of goroutines, any groups, ids    *)
(* and commands, failing saves and crashes: which calls a program makes,   *)
(* where a goroutine is in them and who holds the lock.                    *)
(***************************************************************************)
EXTENDS Engine, EngineStateProofs

Ops == Writers \cup Readers \cup {"Collect"}
Last == {"AddAndPersist", "Persist", "Cardinality", "Marshal", "Collect"}

\* What the calls of a program are and how they follow one another: a save
\* comes last, and only a read of all groups is followed by something else
\* than a writer.
CallsOk(prog) ==
  /\ Len(prog) \in Nat /\ (Len(prog) = 0 => prog = <<>>)
  /\ \A k \in 1 .. Len(prog) :
       /\ prog[k].op \in Ops
       /\ prog[k].op \in {"Add", "AddAndPersist"} => prog[k].id \in Id
       /\ prog[k].op = "MergeBytes" => Parse(prog[k].b) \in Registers
       /\ prog[k].op \in Last => k = Len(prog)
       /\ prog[k].op \in {"Add", "MergeBytes"} /\ k < Len(prog) => prog[k + 1].op \in Writers
       /\ prog[k].op = "CardinalityAll" => k < Len(prog) /\ prog[k + 1].op = "Collect"

\* A dispatched command makes adds of ids, or one merge of a sketch.
LEMMA DispatchCalls ==
  ASSUME NEW cmd \in Command
  PROVE  LET calls == Dispatch(cmd).calls
         IN  /\ calls \in Seq({calls[k] : k \in 1 .. Len(calls)}) /\ Len(calls) \in Nat
             /\ \A k \in 1 .. Len(calls) :
                  \/ calls[k].op = "Add" /\ calls[k].id \in Id
                  \/ /\ calls[k].op = "MergeBytes" /\ Parse(calls[k].b) \in Registers
                     /\ cmd.type = "MERGE_SKETCH" /\ CanParse(cmd.payload.b)
                     /\ calls[k].b = cmd.payload.b
<1> DEFINE p == cmd.payload
           Good(calls) ==
             /\ calls \in Seq({calls[k] : k \in 1 .. Len(calls)}) /\ Len(calls) \in Nat
             /\ \A k \in 1 .. Len(calls) :
                  \/ calls[k].op = "Add" /\ calls[k].id \in Id
                  \/ /\ calls[k].op = "MergeBytes" /\ Parse(calls[k].b) \in Registers
                     /\ cmd.type = "MERGE_SKETCH" /\ CanParse(cmd.payload.b)
                     /\ calls[k].b = cmd.payload.b
<1>1. WellFormed(cmd)
  BY CommandAssumption
<1>2. Good(<<>>)
  OBVIOUS
<1>3. ASSUME NEW n \in Nat, NEW ids, DOMAIN ids = 1 .. n, Len(ids) = n, \A k \in 1 .. n : ids[k] \in Id
      PROVE  Good(Adds(ids))
  <2>1. Adds(ids) = [k \in 1 .. n |-> [op |-> "Add", id |-> ids[k]]]
    BY <1>3 DEF Adds
  <2>2. Len(Adds(ids)) = n /\ \A k \in 1 .. n : Adds(ids)[k] = [op |-> "Add", id |-> ids[k]]
    BY <2>1
  <2>3. Adds(ids) \in Seq({Adds(ids)[k] : k \in 1 .. n})
    BY <2>1, <2>2
  <2>4. QED
    BY <1>3, <2>2, <2>3
<1>4. CASE cmd.type = "ADD"
  <2>1. CASE Len(p) = 1 /\ Readable(p) = 1
    <3>1. p \in Seq(Id \cup {Cut}) /\ Len(p) = 1 /\ p[1] # Cut
      BY <1>1, <1>4, <2>1 DEF WellFormed, Readable
    <3>2. DOMAIN p = 1 .. 1 /\ \A k \in 1 .. 1 : p[k] \in Id
      BY <3>1
    <3>3. Good(Adds(p))
      BY <1>3, <3>1, <3>2, Zenon
    <3>4. QED
      BY <1>4, <2>1, <3>3 DEF Dispatch, ApplyAdd
  <2>2. CASE ~ (Len(p) = 1 /\ Readable(p) = 1)
    BY <1>2, <1>4, <2>2 DEF Dispatch, ApplyAdd, Fails
  <2>3. QED
    BY <2>1, <2>2
<1>5. CASE cmd.type = "BATCH_ADD"
  <2>1. CASE Readable(p) = 0
    BY <1>2, <1>5, <2>1, Zenon DEF Dispatch, ApplyBatchAdd, Fails
  <2>2. CASE Readable(p) # 0
    <3> DEFINE n == p[1]
               have == Readable(p) - 1
               k == IF n < have THEN n ELSE have
               ids == SubSeq(p, 2, k + 1)
    <3>1. /\ p \in Seq(Nat \cup Id \cup {Cut}) /\ Len(p) \in Nat
          /\ \A i \in 1 .. Len(p) : p[i] = Cut \/ p[i] \in IF i = 1 THEN Nat ELSE Id
          /\ \A i \in 1 .. Len(p) - 1 : p[i] # Cut
      BY <1>1, <1>5 DEF WellFormed
    <3>2. Readable(p) \in 1 .. Len(p) /\ \A i \in 1 .. Readable(p) : p[i] # Cut
      <4>2. CASE p # <<>> /\ p[Len(p)] = Cut
        <5>1. Readable(p) = Len(p) - 1
          BY <4>2, Zenon DEF Readable
        <5>2. Len(p) # 0
          BY <3>1, <4>2
        <5>3. Len(p) \in Nat
          BY <3>1, Zenon
        <5>4. Readable(p) \in 1 .. Len(p)
          <6>1. \A m \in Nat : m # 0 /\ m - 1 # 0 => m - 1 \in 1 .. m
            OBVIOUS
          <6>2. QED
            BY <2>2, <5>1, <5>2, <5>3, <6>1, Zenon
        <5>5. QED
          BY <3>1, <5>1, <5>4, Zenon
      <4>3. CASE ~ (p # <<>> /\ p[Len(p)] = Cut)
        <5>1. Readable(p) = Len(p) /\ Len(p) > 0 /\ p # <<>> /\ p[Len(p)] # Cut
          BY <2>2, <3>1, <4>3 DEF Readable
        <5>2. ASSUME NEW i \in 1 .. Len(p) PROVE p[i] # Cut
          BY <3>1, <5>1
        <5>3. QED
          BY <3>1, <5>1, <5>2
      <4>4. QED
        BY <4>2, <4>3
    <3>3. n \in Nat /\ have \in Nat /\ k \in Nat /\ k <= have
      BY <3>1, <3>2
    <3>4. ASSUME NEW i \in 2 .. k + 1 PROVE p[i] \in Id
      <4>1. i \in 1 .. Readable(p) /\ i \in 1 .. Len(p) /\ i # 1
        <5> HIDE DEF k, n
        <5>1. QED
          BY <3>1, <3>2, <3>3
      <4>2. QED
        BY <3>1, <3>2, <4>1, Zenon
    <3>5. Len(ids) = k /\ DOMAIN ids = 1 .. k /\ \A i \in 1 .. k : ids[i] = p[i + 1]
      BY <3>1, <3>2, <3>3, SMTT(30)
    <3>6. Good(Adds(ids))
      <4> HIDE DEF ids, k, Good
      <4>1. \A i \in 1 .. k : ids[i] \in Id
        BY <3>3, <3>4, <3>5
      <4>2. QED
        BY <1>3, <3>3, <3>5, <4>1
    <3>7. Dispatch(cmd).calls = Adds(ids)
      BY <1>5, <2>2 DEF Dispatch, ApplyBatchAdd
    <3>8. QED
      BY <3>6, <3>7, Zenon
  <2>3. QED
    BY <2>1, <2>2, Zenon
<1>6. CASE cmd.type = "MERGE_SKETCH"
  <2>1. CASE p.algo = "hll" /\ CanParse(p.b)
    <3>1. Dispatch(cmd).calls = <<[op |-> "MergeBytes", b |-> p.b]>>
      BY <1>6, <2>1 DEF Dispatch, ApplyMergeSketch
    <3>2. Parse(p.b) \in Registers
      BY <1>1, <1>6, <2>1 DEF WellFormed
    <3>3. Len(Dispatch(cmd).calls) = 1 /\ Dispatch(cmd).calls[1] = [op |-> "MergeBytes", b |-> p.b]
      BY <3>1
    <3>4. QED
      BY <1>6, <2>1, <3>1, <3>2, <3>3
  <2>2. CASE ~ (p.algo = "hll" /\ CanParse(p.b))
    BY <1>2, <1>6, <2>2, Zenon DEF Dispatch, ApplyMergeSketch, Fails
  <2>3. QED
    BY <2>1, <2>2, Zenon
<1>7. CASE cmd.type \notin {"ADD", "BATCH_ADD", "MERGE_SKETCH"}
  BY <1>2, <1>7 DEF Dispatch, Fails
<1>8. QED
  BY <1>4, <1>5, <1>6, <1>7

\* So is every program a goroutine can run.
LEMMA ProgramCalls == \A prog \in Programs : CallsOk(prog)
<1>1. \A prog \in AddPrograms : CallsOk(prog)
  BY DEF AddPrograms, CallsOk, Ops, Writers, Last
<1>2. ASSUME NEW cmd \in Command PROVE CallsOk(Applied(cmd))
  <2> DEFINE calls == Dispatch(cmd).calls
  <2>1. /\ calls \in Seq({calls[k] : k \in 1 .. Len(calls)}) /\ Len(calls) \in Nat
        /\ \A k \in 1 .. Len(calls) :
             \/ calls[k].op = "Add" /\ calls[k].id \in Id
             \/ calls[k].op = "MergeBytes" /\ Parse(calls[k].b) \in Registers
    BY DispatchCalls, Zenon
  <2> HIDE DEF calls
  <2>2. CASE Applied(cmd) = calls
    <3>1. Len(calls) = 0 => calls = <<>>
      BY <2>1
    <3>2. \A k \in 1 .. Len(calls) : calls[k].op \in {"Add", "MergeBytes"}
      BY <2>1
    <3>3. QED
      BY <2>1, <2>2, <3>1, <3>2, SMTT(30) DEF CallsOk, Ops, Writers, Last
  <2>3. CASE Applied(cmd) = Append(calls, [op |-> "Persist"])
    <3>1. /\ Len(Applied(cmd)) = Len(calls) + 1
          /\ \A k \in 1 .. Len(calls) : Applied(cmd)[k] = calls[k]
          /\ Applied(cmd)[Len(calls) + 1] = [op |-> "Persist"]
      BY <2>1, <2>3
    <3>2. \A k \in 1 .. Len(Applied(cmd)) :
             /\ Applied(cmd)[k].op \in {"Add", "MergeBytes", "Persist"}
             /\ Applied(cmd)[k].op = "Add" => Applied(cmd)[k].id \in Id
             /\ Applied(cmd)[k].op = "MergeBytes" => Parse(Applied(cmd)[k].b) \in Registers
             /\ Applied(cmd)[k].op = "Persist" => k = Len(Applied(cmd))
      BY <2>1, <3>1, SMTT(30)
    <3>3. QED
      BY <2>1, <3>1, <3>2, SMTT(30) DEF CallsOk, Ops, Writers, Last
  <2>4. QED
    BY <2>2, <2>3 DEF Applied, calls
<1>3. /\ CallsOk(<<[op |-> "Cardinality"]>>) /\ CallsOk(<<[op |-> "Marshal"]>>)
      /\ CallsOk(<<[op |-> "CardinalityAll"], [op |-> "Collect"]>>)
  BY DEF CallsOk, Ops, Writers, Readers, Last
<1>4. QED
  BY <1>1, <1>2, <1>3 DEF Programs
-----------------------------------------------------------------------------
(* Who holds the lock.                                                     *)

PcName == {"idle", "called", "in", "save", "sending", "done"}
Working(o) == pc[o] \in {"called", "in", "save", "sending"}

\* Where a goroutine is, and what that says of the lock.
CallOk(o) ==
  /\ Working(o) => /\ phase = "up" /\ job[o] \in [g : Group, prog : Programs]
                   /\ at[o] \in 1 .. Len(job[o].prog)
  /\ pc[o] = "idle" => at[o] = 1
  /\ pc[o] = "in" => Doing(o) \in Writers \cup Readers
  /\ pc[o] = "save" => Doing(o) \in {"AddAndPersist", "Persist"}
  /\ pc[o] = "sending" => Doing(o) = "Collect"
  /\ writer = o <=> pc[o] \in {"in", "save"} /\ Doing(o) \in Writers
  /\ o \in readers <=> pc[o] = "in" /\ Doing(o) \in Readers

Control ==
  /\ TypeOK /\ (writer # NoOp => readers = {})
  /\ \A o \in Op : CallOk(o)

\* Nothing runs in a process that starts.
LEMMA InitControl == Init => Control
<1> SUFFICES ASSUME Init PROVE Control
  OBVIOUS
<1>1. /\ NoBuf \in Buffers /\ NoPage \in [shown : SUBSET Group, dropped : Nat, total : Nat]
      /\ Empty \in Engines /\ Empty \in Stores
  BY NewSketch, RoundTrip, EmptyType DEF NoBuf, NoPage
<1>2. TypeOK
  BY <1>1 DEF Init, TypeOK
<1>3. QED
  BY <1>2, OpAssumption DEF Init, Control, CallOk, Working

\* What a goroutine that works is doing.
LEMMA Now ==
  ASSUME Control, NEW o \in Op, Working(o)
  PROVE  /\ phase = "up" /\ job[o].g \in Group /\ job[o].prog \in Programs
         /\ at[o] \in 1 .. Len(job[o].prog) /\ Len(job[o].prog) \in Nat
         /\ CallsOk(job[o].prog) /\ Doing(o) \in Ops /\ o # NoOp
         /\ Doing(o) \in {"Add", "AddAndPersist"} => Arg(o).id \in Id
         /\ Doing(o) = "MergeBytes" => Parse(Arg(o).b) \in Registers
<1>1. /\ phase = "up" /\ job[o] \in [g : Group, prog : Programs]
      /\ at[o] \in 1 .. Len(job[o].prog)
  BY DEF Control, CallOk
<1>2. job[o].g \in Group /\ job[o].prog \in Programs
  BY <1>1
<1>3. CallsOk(job[o].prog)
  BY <1>2, ProgramCalls
<1>4. QED
  BY <1>1, <1>2, <1>3, OpAssumption, Zenon DEF CallsOk, Doing, Arg

\* A step of one goroutine.
Keeps(o) ==
  \A q \in Op \ {o} : /\ pc'[q] = pc[q] /\ job'[q] = job[q] /\ at'[q] = at[q]
                      /\ buf'[q] = buf[q] /\ got'[q] = got[q] /\ page'[q] = page[q]

\* It is looked at for that goroutine alone.
LEMMA OneOp ==
  ASSUME Control, NEW o \in Op, Keeps(o), phase' = phase, TypeOK', CallOk(o)',
         \A q \in Op \ {o} : (writer' = q <=> writer = q) /\ (q \in readers' <=> q \in readers),
         writer' # NoOp => readers' = {}
  PROVE  Control'
<1>1. ASSUME NEW q \in Op, q # o PROVE CallOk(q)'
  <2>1. CallOk(q) /\ pc'[q] = pc[q] /\ job'[q] = job[q] /\ at'[q] = at[q]
    BY <1>1 DEF Control, Keeps
  <2>2. (writer' = q <=> writer = q) /\ (q \in readers' <=> q \in readers)
    BY <1>1
  <2>3. QED
    BY <2>1, <2>2, Zenon DEF CallOk, Working, Doing
<1>2. QED
  BY <1>1, Zenon DEF Control

\* A call returns: its program goes on or has ended, and it has no lock.
LEMMA Returns ==
  ASSUME Control, NEW o \in Op, Working(o), Return(o), UNCHANGED <<phase, job>>,
         writer' # o, o \notin readers'
  PROVE  /\ pc' \in [Op -> PcName] /\ at' \in [Op -> Nat] /\ CallOk(o)'
         /\ \A q \in Op \ {o} : pc'[q] = pc[q] /\ at'[q] = at[q]
         /\ at'[o] = at[o] + 1
         /\ pc'[o] = IF at[o] = Len(job[o].prog) THEN "done" ELSE "called"
<1>1. /\ pc \in [Op -> PcName] /\ at \in [Op -> Nat]
      /\ job[o] \in [g : Group, prog : Programs] /\ phase = "up"
  BY DEF Control, TypeOK, PcName, CallOk
<1>2. /\ at'[o] = at[o] + 1 /\ pc'[o] = IF at[o] = Len(job[o].prog) THEN "done" ELSE "called"
      /\ \A q \in Op \ {o} : pc'[q] = pc[q] /\ at'[q] = at[q]
      /\ pc' \in [Op -> PcName] /\ at' \in [Op -> Nat]
  BY <1>1 DEF Return, PcName
<1>3. at[o] \in 1 .. Len(job[o].prog) /\ Len(job[o].prog) \in Nat
  BY Now
<1>4. pc'[o] = "called" => at'[o] \in 1 .. Len(job[o].prog)
  BY <1>2, <1>3
<1>5. pc'[o] \in {"done", "called"}
  BY <1>2
<1>6. CallOk(o)'
  BY <1>1, <1>4, <1>5 DEF CallOk, Working
<1>7. QED
  BY <1>2, <1>6

\* The process starts, restores, listens and dies.
LEMMA ProcessControl ==
  ASSUME Control, Start \/ Serve \/ Crash \/ \E g \in Group : Restore(g)
  PROVE  Control'
<1>1. CASE Start \/ Serve
  <2>1. phase # "up" /\ phase' \in {"loading", "up"}
        /\ UNCHANGED <<groups, store, writer, readers, pc, job, at, buf, got, page, acked>>
    BY <1>1, Zenon DEF Start, Serve, lockVars
  <2>2. \A o \in Op : ~Working(o)
    BY <2>1 DEF Control, CallOk
  <2>3. TypeOK'
    BY <2>1, Zenon DEF Control, TypeOK
  <2>4. \A o \in Op : CallOk(o)'
    BY <2>1, <2>2 DEF Control, CallOk, Working, Doing
  <2>5. QED
    BY <2>1, <2>3, <2>4 DEF Control
<1>2. CASE Crash
  <2>1. /\ phase' = "down" /\ groups' = Empty /\ writer' = NoOp /\ readers' = {}
        /\ pc' = [o \in Op |-> IF pc[o] = "idle" THEN "idle" ELSE "done"]
        /\ buf' = [o \in Op |-> NoBuf] /\ got' = [o \in Op |-> Empty]
        /\ page' = [o \in Op |-> NoPage] /\ UNCHANGED <<store, job, at, acked>>
    BY <1>2 DEF Crash
  <2>2. /\ NoBuf \in Buffers /\ NoPage \in [shown : SUBSET Group, dropped : Nat, total : Nat]
        /\ Empty \in Engines
    BY NewSketch, RoundTrip, EmptyType DEF NoBuf, NoPage
  <2>3. TypeOK'
    BY <2>1, <2>2, Zenon DEF Control, TypeOK
  <2>4. \A o \in Op : CallOk(o)'
    BY <2>1, OpAssumption DEF Control, CallOk, Working
  <2>5. QED
    BY <2>1, <2>3, <2>4 DEF Control
<1>3. ASSUME NEW g \in Group, Restore(g) PROVE Control'
  <2>1. /\ g \in DOMAIN store /\ groups' = Put(groups, g, Parse(store[g]))
        /\ UNCHANGED <<phase, store, writer, readers, pc, job, at, buf, got, page, acked>>
    BY <1>3 DEF Restore, lockVars
  <2>2. groups' \in Engines
    BY <2>1, PutEngine, StoresDef, ParseBuffer DEF Control, TypeOK
  <2>3. TypeOK'
    BY <2>1, <2>2, Zenon DEF Control, TypeOK
  <2>4. \A o \in Op : CallOk(o)'
    BY <2>1 DEF Control, CallOk, Working, Doing
  <2>5. QED
    BY <2>1, <2>3, <2>4, Zenon DEF Control
<1>4. QED
  BY <1>1, <1>2, <1>3

\* A goroutine begins or takes the lock.
LEMMA EnterControl ==
  ASSUME Control, NEW o \in Op,
         \/ \E g \in Group, prog \in Programs : Begin(o, g, prog)
         \/ Lock(o) \/ RLock(o)
  PROVE  Control' /\ Keeps(o)
<1>0. TypeOK /\ CallOk(o) /\ pc \in [Op -> PcName]
  BY Zenon DEF Control, TypeOK, PcName
<1>1. ASSUME NEW g \in Group, NEW prog \in Programs, Begin(o, g, prog) PROVE Control' /\ Keeps(o)
  <2>1. /\ phase = "up" /\ pc[o] = "idle"
        /\ pc' = [pc EXCEPT ![o] = IF prog = <<>> THEN "done" ELSE "called"]
        /\ job' = [job EXCEPT ![o] = [g |-> g, prog |-> prog]]
        /\ UNCHANGED <<phase, groups, store, writer, readers, at, buf, got, page, acked>>
    BY <1>1, Zenon DEF Begin, lockVars
  <2>2. /\ pc' \in [Op -> PcName] /\ job' \in [Op -> [g : Group, prog : Programs] \cup {NoJob}]
        /\ Keeps(o)
    BY <2>1, <1>0, Zenon DEF PcName, TypeOK, Keeps
  <2>3. TypeOK'
    BY <2>1, <2>2, <1>0, Zenon DEF TypeOK, PcName
  <2>4. prog # <<>> => 1 \in 1 .. Len(prog)
    BY ProgramCalls DEF CallsOk
  <2>5. /\ job'[o] = [g |-> g, prog |-> prog] /\ at'[o] = 1
        /\ pc'[o] = IF prog = <<>> THEN "done" ELSE "called"
    BY <2>1, <1>0, Zenon DEF TypeOK, CallOk
  <2>6. CallOk(o)'
    BY <2>1, <2>4, <2>5, <1>0 DEF CallOk, Working
  <2>7. QED
    BY <2>1, <2>2, <2>3, <2>6, OneOp DEF Control
<1>2. CASE Lock(o)
  <2>1. /\ pc[o] = "called" /\ Doing(o) \in Writers /\ writer = NoOp /\ readers = {}
        /\ writer' = o /\ pc' = [pc EXCEPT ![o] = "in"]
        /\ UNCHANGED <<phase, groups, store, readers, job, at, buf, got, page, acked>>
    BY <1>2, Zenon DEF Lock
  <2>2. pc' \in [Op -> PcName] /\ Keeps(o) /\ pc'[o] = "in"
    BY <2>1, <1>0, Zenon DEF PcName, Keeps
  <2>3. TypeOK'
    BY <2>1, <2>2, <1>0 DEF TypeOK, PcName
  <2>4. CallOk(o)'
    BY <2>1, <2>2, <1>0, Zenon DEF CallOk, Working, Doing, Writers, Readers
  <2>5. \A q \in Op \ {o} : (writer' = q <=> writer = q) /\ (q \in readers' <=> q \in readers)
    BY <2>1, OpAssumption
  <2>6. QED
    BY <2>1, <2>2, <2>3, <2>4, <2>5, OneOp
<1>3. CASE RLock(o)
  <2>1. /\ pc[o] = "called" /\ Doing(o) \in Readers /\ writer = NoOp
        /\ readers' = readers \cup {o} /\ pc' = [pc EXCEPT ![o] = "in"]
        /\ UNCHANGED <<phase, groups, store, writer, job, at, buf, got, page, acked>>
    BY <1>3, Zenon DEF RLock
  <2>2. pc' \in [Op -> PcName] /\ Keeps(o) /\ pc'[o] = "in"
    BY <2>1, <1>0, Zenon DEF PcName, Keeps
  <2>3. TypeOK'
    BY <2>1, <2>2, <1>0 DEF TypeOK, PcName
  <2>4. CallOk(o)'
    BY <2>1, <2>2, <1>0, Zenon DEF CallOk, Working, Doing, Writers, Readers
  <2>5. QED
    BY <2>1, <2>2, <2>3, <2>4, OneOp
<1>4. QED
  BY <1>1, <1>2, <1>3, Zenon

\* A merge is a sketch and lowers nothing (sketch.Merge).
LEMMA MergeType ==
  ASSUME NEW s \in Registers, NEW t \in Registers
  PROVE  /\ MergeSketch(s, t) \in Registers
         /\ Below(s, MergeSketch(s, t)) /\ Below(t, MergeSketch(s, t))
BY RhoAssumption DEF MergeSketch, Registers, Below

\* What the write operations make of the engine: the group is there, the id
\* or the sketch is in it, and nothing is lowered.
Grown(a, b) == \A g \in DOMAIN a : g \in DOMAIN b /\ Below(a[g], b[g])

Held(eng, g, c) ==
  /\ c.op \in {"Add", "AddAndPersist"} => g \in DOMAIN eng /\ Absorbs(eng[g], c.id)
  /\ c.op = "MergeBytes" => g \in DOMAIN eng /\ Below(Parse(c.b), eng[g])

\* Under the write lock (Engine.Add, AddAndPersist and MergeBytes).
LEMMA WriteEffect ==
  ASSUME Control, NEW o \in Op, Add(o) \/ AddAndPersist(o) \/ MergeBytes(o)
  PROVE  /\ groups' \in Engines /\ Grown(groups, groups')
         /\ DOMAIN groups' = DOMAIN groups \cup {job[o].g}
         /\ Held(groups', job[o].g, Arg(o))
<1>0. groups \in Engines /\ Working(o)
  BY Zenon DEF Control, TypeOK, Add, AddAndPersist, MergeBytes, In, Working
<1>1. CASE Add(o) \/ AddAndPersist(o)
  <2>1. /\ Doing(o) \in {"Add", "AddAndPersist"} /\ groups' = EngineAdd(groups, job[o].g, Arg(o).id)
    BY <1>1, Zenon DEF Add, AddAndPersist, In
  <2>2. job[o].g \in Group /\ Arg(o).id \in Id
    BY <1>0, <2>1, Now, Zenon
  <2>3. /\ groups' \in Engines /\ DOMAIN groups' = DOMAIN groups \cup {job[o].g}
        /\ Absorbs(groups'[job[o].g], Arg(o).id)
        /\ \A h \in DOMAIN groups : Below(groups[h], groups'[h])
    BY <1>0, <2>1, <2>2, EngineAddType
  <2>4. Arg(o).op \in {"Add", "AddAndPersist"}
    BY <2>1, Zenon DEF Doing, Arg
  <2>5. QED
    BY <2>3, <2>4 DEF Grown, Held
<1>2. CASE MergeBytes(o)
  <2> DEFINE g == job[o].g
             remote == Parse(Arg(o).b)
             s == IF g \in DOMAIN groups THEN MergeSketch(groups[g], remote) ELSE remote
  <2>1. Doing(o) = "MergeBytes" /\ groups' = Put(groups, g, s)
    BY <1>2, Zenon DEF MergeBytes, In
  <2>2. g \in Group /\ remote \in Registers
    BY <1>0, <2>1, Now, Zenon
  <2>3. /\ s \in Registers /\ Below(remote, s)
        /\ g \in DOMAIN groups => Below(groups[g], s)
    BY <1>0, <2>2, MergeType, EnginesDef, BelowPreorder, Zenon
  <2> HIDE DEF s, remote
  <2>4. groups' \in Engines
    BY <1>0, <2>1, <2>2, <2>3, PutEngine, Zenon
  <2>5. /\ DOMAIN groups' = DOMAIN groups \cup {g} /\ groups'[g] = s
        /\ \A h \in DOMAIN groups : h # g => groups'[h] = groups[h]
    BY <2>1, Zenon DEF Put
  <2>6. \A h \in DOMAIN groups : Below(groups[h], groups'[h])
    BY <1>0, <2>3, <2>5, EnginesDef, BelowPreorder, Zenon
  <2>7. Arg(o).op = "MergeBytes"
    BY <2>1 DEF Doing, Arg
  <2>8. QED
    BY <2>3, <2>4, <2>5, <2>6, <2>7, Zenon DEF Grown, Held, remote
<1>3. QED
  BY <1>1, <1>2, Zenon

\* The write operations.
LEMMA WriterControl ==
  ASSUME Control, NEW o \in Op,
         Add(o) \/ AddAndPersist(o) \/ Persist(o) \/ Save(o) \/ MergeBytes(o)
  PROVE  Control' /\ Keeps(o)
<1>0. TypeOK /\ CallOk(o) /\ pc \in [Op -> PcName] /\ (writer # NoOp => readers = {})
  BY Zenon DEF Control, TypeOK, PcName
<1>1. Working(o)
  BY Zenon DEF Add, AddAndPersist, Persist, Save, MergeBytes, In, Working
<1>2. writer = o /\ readers = {} /\ o # NoOp /\ pc[o] \in {"in", "save"} /\ Doing(o) \in Writers
  BY <1>0, OpAssumption DEF Add, AddAndPersist, Persist, Save, MergeBytes, In, CallOk, Writers
<1>3. ASSUME Unlock(o), UNCHANGED <<phase, job, got, page>>, buf' \in [Op -> Buffers],
             \A q \in Op \ {o} : buf'[q] = buf[q],
             groups' \in Engines, store' \in Stores, acked' \subseteq Pairs
      PROVE  Control' /\ Keeps(o)
  <2>1. writer' = NoOp /\ Return(o) /\ readers' = readers
    BY <1>3 DEF Unlock
  <2>2. /\ pc' \in [Op -> PcName] /\ at' \in [Op -> Nat] /\ CallOk(o)'
        /\ \A q \in Op \ {o} : pc'[q] = pc[q] /\ at'[q] = at[q]
    BY <1>1, <1>2, <1>3, <2>1, Returns, Zenon
  <2>3. Keeps(o)
    BY <1>3, <2>2, Zenon DEF Keeps
  <2>4. TypeOK'
    BY <1>0, <1>3, <2>1, <2>2 DEF TypeOK, PcName
  <2>5. \A q \in Op \ {o} : (writer' = q <=> writer = q) /\ (q \in readers' <=> q \in readers)
    BY <1>2, <2>1, OpAssumption
  <2>6. QED
    BY <1>3, <2>1, <2>2, <2>3, <2>4, <2>5, OneOp, Zenon
<1>4. ASSUME pc[o] = "in", Doing(o) \in {"AddAndPersist", "Persist"},
             pc' = [pc EXCEPT ![o] = "save"], NEW b \in Buffers, buf' = [buf EXCEPT ![o] = b],
             groups' \in Engines,
             UNCHANGED <<phase, store, writer, readers, job, at, got, page, acked>>
      PROVE  Control' /\ Keeps(o)
  <2>1. pc' \in [Op -> PcName] /\ buf' \in [Op -> Buffers] /\ Keeps(o) /\ pc'[o] = "save"
    BY <1>0, <1>4, Zenon DEF PcName, TypeOK, Keeps
  <2>2. TypeOK'
    BY <1>0, <1>4, <2>1 DEF TypeOK, PcName
  <2>3. CallOk(o)'
    BY <1>0, <1>2, <1>4, <2>1, Zenon DEF CallOk, Working, Doing, Writers, Readers
  <2>4. QED
    BY <1>0, <1>4, <2>1, <2>2, <2>3, OneOp, Zenon
<1>5. CASE Add(o) \/ MergeBytes(o)
  <2>1. Unlock(o) /\ UNCHANGED <<phase, store, job, buf, got, page, acked>>
    BY <1>5, Zenon DEF Add, MergeBytes
  <2>2. groups' \in Engines
    BY <1>5, WriteEffect, Zenon
  <2>3. QED
    BY <1>0, <1>3, <2>1, <2>2 DEF TypeOK
<1>6. CASE AddAndPersist(o)
  <2>1. /\ pc[o] = "in" /\ Doing(o) = "AddAndPersist" /\ pc' = [pc EXCEPT ![o] = "save"]
        /\ buf' = [buf EXCEPT ![o] = Bytes(groups'[job[o].g])]
        /\ UNCHANGED <<phase, store, writer, readers, job, at, got, page, acked>>
    BY <1>6 DEF AddAndPersist, In, lockVars
  <2>2. groups' \in Engines /\ job[o].g \in DOMAIN groups'
    BY <1>6, WriteEffect, Zenon
  <2>3. Bytes(groups'[job[o].g]) \in Buffers
    BY <2>2, EnginesDef, RoundTrip
  <2>4. QED
    BY <1>4, <2>1, <2>2, <2>3, Zenon
<1>7. CASE Persist(o)
  <2>1. CASE job[o].g \in DOMAIN groups
    <3>1. /\ pc[o] = "in" /\ Doing(o) = "Persist" /\ pc' = [pc EXCEPT ![o] = "save"]
          /\ buf' = [buf EXCEPT ![o] = Bytes(groups[job[o].g])]
          /\ UNCHANGED <<phase, groups, store, writer, readers, job, at, got, page, acked>>
      BY <1>7, <2>1 DEF Persist, In, lockVars
    <3>2. Bytes(groups[job[o].g]) \in Buffers
      BY <1>0, <2>1, EnginesDef, RoundTrip, Zenon DEF TypeOK
    <3>3. QED
      BY <1>0, <1>4, <3>1, <3>2, Zenon DEF TypeOK
  <2>2. CASE job[o].g \notin DOMAIN groups
    <3>1. Unlock(o) /\ UNCHANGED <<phase, groups, store, job, buf, got, page, acked>>
      BY <1>7, <2>2, Zenon DEF Persist
    <3>2. QED
      BY <1>0, <1>3, <3>1, Zenon DEF TypeOK
  <2>3. QED
    BY <2>1, <2>2
<1>8. CASE Save(o)
  <2>1. /\ \/ store' = Put(store, job[o].g, buf[o]) /\ acked' = acked \cup PairsOf(job[o])
           \/ UNCHANGED <<store, acked>>
        /\ Unlock(o) /\ buf' = [buf EXCEPT ![o] = NoBuf]
        /\ UNCHANGED <<phase, groups, job, got, page>>
    BY <1>8, Zenon DEF Save
  <2>2. job[o].g \in Group
    BY <1>1, Now, Zenon
  <2>3. PairsOf(job[o]) \subseteq Pairs
    BY <2>2 DEF PairsOf, Pairs
  <2>4. store' \in Stores /\ acked' \subseteq Pairs
    BY <1>0, <2>1, <2>2, <2>3, PutStore DEF TypeOK
  <2>5. NoBuf \in Buffers
    BY NewSketch, RoundTrip, Zenon DEF NoBuf
  <2>6. buf' \in [Op -> Buffers] /\ \A q \in Op \ {o} : buf'[q] = buf[q]
    BY <1>0, <2>1, <2>5 DEF TypeOK
  <2>7. QED
    BY <1>0, <1>3, <2>1, <2>4, <2>6, Zenon DEF TypeOK
<1>9. QED
  BY <1>5, <1>6, <1>7, <1>8, Zenon
-----------------------------------------------------------------------------
(* What a scrape shows.                                                    *)

PageType == [shown : SUBSET Group, dropped : Nat, total : Nat]

\* The groups a scrape shows of what it has read.
PageFits(e, p) ==
  LET all == DOMAIN e
      est(g) == CardinalityOf[e[g]]
      ahead(g) == {h \in all : est(h) > est(g)
                     \/ (est(h) = est(g) /\ NameRank[h] < NameRank[g])}
  IN  /\ \A g \in all : g \in p.shown <=>
           MaxGroups = 0 \/ Cardinality(ahead(g)) < MaxGroups
      /\ p.shown \subseteq all /\ p.total = Cardinality(all)
      /\ Cardinality(p.shown) + p.dropped = p.total

\* What EngineCollector.Collect does to the pages.  It is a hypothesis of the
\* lemmas about a step, and follows from what sorting does when the groups
\* are finitely many (CollectPage).
CollectOk ==
  \A o \in Op : Collect(o) =>
    /\ page' \in [Op -> PageType] /\ PageFits(got[o], page'[o])
    /\ \A q \in Op \ {o} : page'[q] = page[q]

-----------------------------------------------------------------------------
(* The readers, and every step together.                                   *)

\* A read operation changes what its goroutine has read, and nothing else.
LEMMA ReadEffect ==
  ASSUME Control, NEW o \in Op,
         ReadOne(o) \/ ReadDone(o) \/ (\E g \in Group : ReadGroup(o, g)) \/ Sent(o)
  PROVE  \E e \in Engines : got' = [got EXCEPT ![o] = e]
<1>0. /\ groups \in Engines /\ got \in [Op -> Engines] /\ got[o] \in Engines
  BY DEF Control, TypeOK
<1>1. Empty \in Engines
  BY EmptyType
<1>2. CASE ReadOne(o)
  <2> DEFINE D == DOMAIN groups \cap {job[o].g}
             e == [g \in D |-> groups[g]]
  <2>1. got' = [got EXCEPT ![o] = e]
    BY <1>2, Zenon DEF ReadOne
  <2>2. D \in SUBSET Group /\ \A g \in D : groups[g] \in Registers
    BY <1>0, EnginesDef, Zenon
  <2>3. e \in [D -> Registers]
    BY <2>2
  <2>4. e \in Engines
    BY <2>2, <2>3, Zenon DEF Engines
  <2>5. QED
    BY <2>1, <2>4, Zenon
<1>3. CASE ReadDone(o)
  <2>1. got' = [got EXCEPT ![o] = Empty] \/ got' = got
    BY <1>3 DEF ReadDone
  <2>2. got = [got EXCEPT ![o] = got[o]]
    BY <1>0
  <2>3. QED
    BY <1>0, <1>1, <2>1, <2>2, Zenon
<1>4. ASSUME NEW g \in Group, ReadGroup(o, g)
      PROVE  \E e \in Engines : got' = [got EXCEPT ![o] = e]
  <2>1. got' = [got EXCEPT ![o] = Put(got[o], g, groups[g])] /\ g \in DOMAIN groups
    BY <1>0, <1>4, Zenon DEF ReadGroup
  <2>2. Put(got[o], g, groups[g]) \in Engines
    BY <1>0, <2>1, EnginesDef, PutEngine
  <2>3. QED
    BY <2>1, <2>2, Zenon
<1>5. CASE Sent(o)
  BY <1>1, <1>5, Zenon DEF Sent
<1>6. QED
  BY <1>2, <1>3, <1>4, <1>5

\* The read operations and the collector.
LEMMA ReaderControl ==
  ASSUME Control, CollectOk, NEW o \in Op,
         \/ ReadOne(o) \/ ReadDone(o) \/ \E g \in Group : ReadGroup(o, g)
         \/ Collect(o) \/ Sent(o)
  PROVE  Control' /\ Keeps(o) /\ UNCHANGED <<phase, groups, store, job, buf, writer, acked>>
<1>0. TypeOK /\ CallOk(o) /\ pc \in [Op -> PcName] /\ (writer # NoOp => readers = {})
  BY DEF Control, TypeOK, PcName
<1>1. Working(o)
  BY Zenon DEF ReadOne, ReadDone, ReadGroup, ReadsAll, Collect, Sent, In, Working
<1>2. UNCHANGED <<phase, groups, store, job, buf, writer, acked>>
  BY Zenon DEF ReadOne, ReadDone, ReadGroup, Collect, Sent, RUnlock, lockVars
<1>3. ASSUME NEW e \in Engines, got' = [got EXCEPT ![o] = e]
      PROVE  got' \in [Op -> Engines] /\ \A q \in Op \ {o} : got'[q] = got[q]
  BY <1>0, <1>3 DEF TypeOK
<1>4. CASE ReadOne(o) \/ ReadDone(o)
  <2>1. RUnlock(o) /\ page' = page /\ o \in readers
    BY <1>0, <1>4, Zenon DEF ReadOne, ReadDone, ReadsAll, In, CallOk, Readers
  <2>2. readers' = readers \ {o} /\ Return(o) /\ writer' = writer
    BY <2>1 DEF RUnlock
  <2>3. writer = NoOp /\ o # NoOp
    BY <1>0, <2>1, OpAssumption, Zenon
  <2>4. /\ pc' \in [Op -> PcName] /\ at' \in [Op -> Nat] /\ CallOk(o)'
        /\ \A q \in Op \ {o} : pc'[q] = pc[q] /\ at'[q] = at[q]
    BY <1>1, <1>2, <2>2, <2>3, Returns, Zenon
  <2>5. got' \in [Op -> Engines] /\ \A q \in Op \ {o} : got'[q] = got[q]
    BY <1>3, <1>4, ReadEffect, Zenon
  <2>6. Keeps(o)
    BY <1>2, <2>1, <2>4, <2>5, Zenon DEF Keeps
  <2>7. TypeOK'
    BY <1>0, <1>2, <2>1, <2>2, <2>4, <2>5 DEF TypeOK, PcName
  <2>8. \A q \in Op \ {o} : (writer' = q <=> writer = q) /\ (q \in readers' <=> q \in readers)
    BY <2>2, Zenon
  <2>9. QED
    BY <1>2, <2>2, <2>3, <2>4, <2>6, <2>7, <2>8, OneOp, Zenon
<1>5. ASSUME NEW g \in Group, ReadGroup(o, g) PROVE Control' /\ Keeps(o)
  <2>1. UNCHANGED <<readers, pc, at, page>>
    BY <1>5 DEF ReadGroup, lockVars
  <2>2. got' \in [Op -> Engines] /\ \A q \in Op \ {o} : got'[q] = got[q]
    BY <1>3, <1>5, ReadEffect, Zenon
  <2>3. Keeps(o)
    BY <1>2, <2>1, <2>2, Zenon DEF Keeps
  <2>4. TypeOK'
    BY <1>0, <1>2, <2>1, <2>2 DEF TypeOK
  <2>5. CallOk(o)'
    BY <1>0, <1>2, <2>1, Zenon DEF CallOk, Working, Doing
  <2>6. QED
    BY <1>0, <1>2, <2>1, <2>3, <2>4, <2>5, OneOp, Zenon
<1>6. CASE Collect(o)
  <2>1. /\ pc[o] = "called" /\ Doing(o) = "Collect" /\ pc' = [pc EXCEPT ![o] = "sending"]
        /\ UNCHANGED <<readers, at, got>>
    BY <1>6, Zenon DEF Collect, lockVars
  <2>2. page' \in [Op -> PageType] /\ \A q \in Op \ {o} : page'[q] = page[q]
    BY <1>6 DEF CollectOk
  <2>3. pc' \in [Op -> PcName] /\ pc'[o] = "sending" /\ Keeps(o)
    BY <1>0, <1>2, <2>1, <2>2, Zenon DEF PcName, Keeps
  <2>4. TypeOK'
    BY <1>0, <1>2, <2>1, <2>2, <2>3 DEF TypeOK, PcName, PageType
  <2>5. CallOk(o)'
    BY <1>0, <1>2, <2>1, <2>3, Zenon DEF CallOk, Working, Doing
  <2>6. QED
    BY <1>0, <1>2, <2>1, <2>3, <2>4, <2>5, OneOp, Zenon
<1>7. CASE Sent(o)
  <2>1. Return(o) /\ readers' = readers /\ page' = [page EXCEPT ![o] = NoPage] /\ pc[o] = "sending"
    BY <1>7 DEF Sent, lockVars
  <2>2. writer # o /\ o \notin readers
    BY <1>0, <2>1, Zenon DEF CallOk
  <2>3. /\ pc' \in [Op -> PcName] /\ at' \in [Op -> Nat] /\ CallOk(o)'
        /\ \A q \in Op \ {o} : pc'[q] = pc[q] /\ at'[q] = at[q]
    BY <1>1, <1>2, <2>1, <2>2, Returns, Zenon
  <2>4. got' \in [Op -> Engines] /\ \A q \in Op \ {o} : got'[q] = got[q]
    BY <1>3, <1>7, ReadEffect
  <2>5. page' \in [Op -> PageType] /\ \A q \in Op \ {o} : page'[q] = page[q]
    BY <1>0, <2>1, Zenon DEF TypeOK, PageType, NoPage
  <2>6. Keeps(o)
    BY <1>2, <2>3, <2>4, <2>5, Zenon DEF Keeps
  <2>7. TypeOK'
    BY <1>0, <1>2, <2>1, <2>3, <2>4, <2>5 DEF TypeOK, PcName, PageType
  <2>8. QED
    BY <1>0, <1>2, <2>1, <2>3, <2>6, <2>7, OneOp, Zenon
<1>8. QED
  BY <1>2, <1>4, <1>5, <1>6, <1>7, Zenon

\* The kinds of steps, each with what it leaves alone.
OpStep(o) ==
  \/ \E g \in Group, prog \in Programs : Begin(o, g, prog)
  \/ Lock(o) \/ RLock(o)
  \/ Add(o) \/ AddAndPersist(o) \/ Persist(o) \/ Save(o) \/ MergeBytes(o)
  \/ ReadOne(o) \/ ReadDone(o) \/ \E g \in Group : ReadGroup(o, g)
  \/ Collect(o) \/ Sent(o)

\* Every step keeps the discipline of the lock.
LEMMA NextControl ==
  ASSUME Control, CollectOk, Next
  PROVE  Control'
<1>1. CASE Start \/ Serve \/ Crash \/ \E g \in Group : Restore(g)
  BY <1>1, ProcessControl
<1>2. ASSUME NEW o \in Op, OpStep(o) PROVE Control'
  <2>1. CASE (\E g \in Group, prog \in Programs : Begin(o, g, prog)) \/ Lock(o) \/ RLock(o)
    BY <2>1, EnterControl
  <2>2. CASE Add(o) \/ AddAndPersist(o) \/ Persist(o) \/ Save(o) \/ MergeBytes(o)
    BY <2>2, WriterControl
  <2>3. CASE \/ ReadOne(o) \/ ReadDone(o) \/ \E g \in Group : ReadGroup(o, g)
             \/ Collect(o) \/ Sent(o)
    BY <2>3, ReaderControl
  <2>4. QED
    BY <1>2, <2>1, <2>2, <2>3, Zenon DEF OpStep
<1>3. QED
  BY <1>1, <1>2, Zenon DEF Next, OpStep
=============================================================================
