------------------------------- MODULE Engine -------------------------------
(***************************************************************************)
(* The operations of internal/cardinality/engine.go, called by any number  *)
(* of goroutines, at the grain of the engine's RWMutex: what is computed   *)
(* before the lock, what happens under it, what save does while it is      *)
(* held.  A goroutine runs a short program of engine calls:                *)
(*   Server.addID without a Raft node    AddAndPersist                     *)
(*   applyEntries, one command           what Dispatch calls, then Persist *)
(*   Server.Query, a snapshot            Cardinality, Marshal              *)
(*   EngineCollector.Collect             CardinalityAll, then the page it  *)
(*                                       makes of it without the lock      *)
(* The store of internal/store and a process that may die complete it.     *)
(***************************************************************************)
EXTENDS Handlers, FiniteSets

CONSTANTS
  Op,           \* goroutines; each runs one program
  NoOp,         \* nobody
  Command,      \* commands of the Raft log
  SaveMayFail,  \* whether store.Save may return an error
  MaxGroups,    \* cap of the collector, 0 = none
  NameRank,     \* the place of each group name in the order of strings
  CardinalityOf \* sketch.Cardinality: the estimate of every sketch

ASSUME OpAssumption == NoOp \notin Op
ASSUME SaveAssumption == SaveMayFail \in BOOLEAN
ASSUME CapAssumption == MaxGroups \in Nat
ASSUME NameAssumption ==
  /\ NameRank \in [Group -> Nat]
  /\ \A g, h \in Group : NameRank[g] = NameRank[h] => g = h
ASSUME EstimateAssumption == CardinalityOf \in [Registers -> Nat]
ASSUME CommandAssumption == \A cmd \in Command : WellFormed(cmd)

VARIABLES
  phase,     \* the process: down, loading or up
  groups,    \* Engine.groups
  store,     \* BadgerDB
  writer,    \* the goroutine that holds e.mu, or NoOp
  readers,   \* the goroutines that hold e.mu for reading
  pc,        \* where each goroutine is
  job,       \* its group and its program
  at,        \* the call of the program it has reached
  buf,       \* the bytes it hands to save
  got,       \* what it has read
  page,      \* the metrics a scrape has put together, or NoPage
  acked      \* history: pairs whose save returned nil

lockVars == <<writer, readers>>
vars == <<phase, groups, store, lockVars, pc, job, at, buf, got, page, acked>>

Writers == {"Add", "AddAndPersist", "Persist", "MergeBytes"}
Readers == {"Cardinality", "CardinalityAll", "Marshal"}

NoJob == [g |-> NoOp, prog |-> <<>>]
NoBuf == Bytes(New)
NoPage == [shown |-> {}, dropped |-> 0, total |-> 0]

\* Server.addID without a Raft node.
AddPrograms == {<<[op |-> "AddAndPersist", id |-> id]>> : id \in Id}

\* The body of applyEntries: a command whose dispatch fails is not persisted.
Applied(cmd) ==
  LET d == Dispatch(cmd) IN IF d.ok THEN Append(d.calls, [op |-> "Persist"]) ELSE d.calls

Programs ==
  AddPrograms \cup {Applied(c) : c \in Command}
    \cup {<<[op |-> "Cardinality"]>>, <<[op |-> "Marshal"]>>,
          <<[op |-> "CardinalityAll"], [op |-> "Collect"]>>}

\* The call a goroutine is making.
Doing(o) == job[o].prog[at[o]].op
Arg(o) == job[o].prog[at[o]]

\* Its next call, if the program has one.
Return(o) ==
  /\ pc' = [pc EXCEPT ![o] = IF at[o] = Len(job[o].prog) THEN "done" ELSE "called"]
  /\ at' = [at EXCEPT ![o] = @ + 1]

-----------------------------------------------------------------------------
Init ==
  /\ phase = "down" /\ groups = Empty /\ store = Empty
  /\ writer = NoOp /\ readers = {}
  /\ pc = [o \in Op |-> "idle"] /\ job = [o \in Op |-> NoJob]
  /\ at = [o \in Op |-> 1]
  /\ buf = [o \in Op |-> NoBuf] /\ got = [o \in Op |-> Empty]
  /\ page = [o \in Op |-> NoPage] /\ acked = {}

\* A process starts with a new engine.
Start ==
  /\ phase = "down"
  /\ phase' = "loading"
  /\ UNCHANGED <<groups, store, lockVars, pc, job, at, buf, got, page, acked>>

\* LoadAll hands every stored group to Restore.
Restore(g) ==
  /\ phase = "loading" /\ g \in DOMAIN store \ DOMAIN groups
  /\ CanParse(store[g])
  /\ groups' = Put(groups, g, Parse(store[g]))
  /\ UNCHANGED <<phase, store, lockVars, pc, job, at, buf, got, page, acked>>

\* Faulty variant: the server listens before everything is restored.
ServeEarly ==
  /\ phase = "loading"
  /\ phase' = "up"
  /\ UNCHANGED <<groups, store, lockVars, pc, job, at, buf, got, page, acked>>

\* LoadAll returns, and the server listens.
Serve ==
  /\ phase = "loading" /\ DOMAIN store \subseteq DOMAIN groups
  /\ phase' = "up"
  /\ UNCHANGED <<groups, store, lockVars, pc, job, at, buf, got, page, acked>>

\* The process dies, with every goroutine.
Crash ==
  /\ phase # "down"
  /\ phase' = "down" /\ groups' = Empty /\ writer' = NoOp /\ readers' = {}
  /\ pc' = [o \in Op |-> IF pc[o] = "idle" THEN "idle" ELSE "done"]
  /\ buf' = [o \in Op |-> NoBuf] /\ got' = [o \in Op |-> Empty]
  /\ page' = [o \in Op |-> NoPage]
  /\ UNCHANGED <<store, job, at, acked>>

\* A goroutine begins; an empty program is a command that was refused.
Begin(o, g, prog) ==
  /\ phase = "up" /\ pc[o] = "idle"
  /\ pc' = [pc EXCEPT ![o] = IF prog = <<>> THEN "done" ELSE "called"]
  /\ job' = [job EXCEPT ![o] = [g |-> g, prog |-> prog]]
  /\ UNCHANGED <<phase, groups, store, lockVars, at, buf, got, page, acked>>

\* Faulty variant: a writer does not wait for the readers.
LockOverReaders(o) ==
  /\ pc[o] = "called" /\ Doing(o) \in Writers
  /\ writer = NoOp
  /\ writer' = o /\ pc' = [pc EXCEPT ![o] = "in"]
  /\ UNCHANGED <<phase, groups, store, readers, job, at, buf, got, page, acked>>

\* e.mu.Lock
Lock(o) ==
  /\ pc[o] = "called" /\ Doing(o) \in Writers
  /\ writer = NoOp /\ readers = {}
  /\ writer' = o /\ pc' = [pc EXCEPT ![o] = "in"]
  /\ UNCHANGED <<phase, groups, store, readers, job, at, buf, got, page, acked>>

\* e.mu.RLock
RLock(o) ==
  /\ pc[o] = "called" /\ Doing(o) \in Readers
  /\ writer = NoOp
  /\ readers' = readers \cup {o} /\ pc' = [pc EXCEPT ![o] = "in"]
  /\ UNCHANGED <<phase, groups, store, writer, job, at, buf, got, page, acked>>

\* The deferred Unlock, with the return.
Unlock(o) == writer' = NoOp /\ Return(o) /\ UNCHANGED readers
RUnlock(o) == readers' = readers \ {o} /\ Return(o) /\ UNCHANGED writer

-----------------------------------------------------------------------------
(* Under the write lock.                                                   *)

In(o, op) == pc[o] = "in" /\ Doing(o) = op

Add(o) ==
  /\ In(o, "Add")
  /\ groups' = EngineAdd(groups, job[o].g, Arg(o).id)
  /\ Unlock(o)
  /\ UNCHANGED <<phase, store, job, buf, got, page, acked>>

\* Faulty variant: the lock is released before the save.
AddAndPersistEarlyUnlock(o) ==
  /\ In(o, "AddAndPersist")
  /\ groups' = EngineAdd(groups, job[o].g, Arg(o).id)
  /\ buf' = [buf EXCEPT ![o] = Bytes(groups'[job[o].g])]
  /\ pc' = [pc EXCEPT ![o] = "save"] /\ writer' = NoOp
  /\ UNCHANGED <<phase, store, readers, job, at, got, page, acked>>

AddAndPersist(o) ==
  /\ In(o, "AddAndPersist")
  /\ groups' = EngineAdd(groups, job[o].g, Arg(o).id)
  /\ buf' = [buf EXCEPT ![o] = Bytes(groups'[job[o].g])]
  /\ pc' = [pc EXCEPT ![o] = "save"]
  /\ UNCHANGED <<phase, store, lockVars, job, at, got, page, acked>>

\* Persist: ErrUnknownGroup, or the bytes of the sketch.
Persist(o) ==
  /\ In(o, "Persist")
  /\ \/ /\ job[o].g \in DOMAIN groups
        /\ buf' = [buf EXCEPT ![o] = Bytes(groups[job[o].g])]
        /\ pc' = [pc EXCEPT ![o] = "save"]
        /\ UNCHANGED <<lockVars, at>>
     \/ job[o].g \notin DOMAIN groups /\ Unlock(o) /\ UNCHANGED buf
  /\ UNCHANGED <<phase, groups, store, job, got, page, acked>>

\* The pairs a program adds: the ids it names and those a sketch stands for.
PairsOf(j) ==
  {<<j.g, id>> : id \in
     {i \in Id : \E k \in 1 .. Len(j.prog) :
        LET c == j.prog[k]
        IN  \/ c.op \in {"Add", "AddAndPersist"} /\ c.id = i
            \/ c.op = "MergeBytes" /\ Absorbs(Parse(c.b), i)}}

\* Faulty variant: success is reported whatever save returned.
SaveIgnoresError(o) ==
  /\ pc[o] = "save"
  /\ store' = Put(store, job[o].g, buf[o]) \/ (SaveMayFail /\ store' = store)
  /\ acked' = acked \cup PairsOf(job[o])
  /\ Unlock(o)
  /\ buf' = [buf EXCEPT ![o] = NoBuf]
  /\ UNCHANGED <<phase, groups, job, got, page>>

\* save, still under the lock; its error is the caller's.
Save(o) ==
  /\ pc[o] = "save"
  /\ \/ /\ store' = Put(store, job[o].g, buf[o])
        /\ acked' = acked \cup PairsOf(job[o])
     \/ SaveMayFail /\ UNCHANGED <<store, acked>>
  /\ Unlock(o)
  /\ buf' = [buf EXCEPT ![o] = NoBuf]
  /\ UNCHANGED <<phase, groups, job, got, page>>

\* Merge of the sketch MergeBytes parsed: a new group takes a clone of it.
MergeBytes(o) ==
  /\ In(o, "MergeBytes")
  /\ LET g == job[o].g
         remote == Parse(Arg(o).b)
     IN  groups' = Put(groups, g, IF g \in DOMAIN groups
                                  THEN MergeSketch(groups[g], remote) ELSE remote)
  /\ Unlock(o)
  /\ UNCHANGED <<phase, store, job, buf, got, page, acked>>

-----------------------------------------------------------------------------
(* Under the read lock.                                                    *)

\* Cardinality reads one sketch, or finds none.
ReadOne(o) ==
  /\ In(o, "Cardinality")
  /\ got' = [got EXCEPT ![o] = [g \in DOMAIN groups \cap {job[o].g} |-> groups[g]]]
  /\ RUnlock(o)
  /\ UNCHANGED <<phase, groups, store, job, buf, page, acked>>

ReadsAll(o) == In(o, "CardinalityAll") \/ In(o, "Marshal")

\* CardinalityAll and Marshal walk the map in any order, a group at a time.
ReadGroup(o, g) ==
  /\ ReadsAll(o) /\ g \in DOMAIN groups \ DOMAIN got[o]
  /\ got' = [got EXCEPT ![o] = Put(@, g, groups[g])]
  /\ UNCHANGED <<phase, groups, store, lockVars, pc, job, at, buf, page, acked>>

\* The map is handed over; Collect goes on with it.
ReadDone(o) ==
  /\ ReadsAll(o) /\ DOMAIN groups \subseteq DOMAIN got[o]
  /\ RUnlock(o)
  /\ got' = IF Doing(o) = "Marshal" THEN [got EXCEPT ![o] = Empty] ELSE got
  /\ UNCHANGED <<phase, groups, store, job, buf, page, acked>>

-----------------------------------------------------------------------------
(* EngineCollector.Collect, after CardinalityAll.                          *)

\* Faulty variant: the smallest estimates come first.
BeforeAscending(all, g, h) ==
  \/ all[g] < all[h]
  \/ all[g] = all[h] /\ NameRank[g] < NameRank[h]

\* The order of sort.Slice.
Before(all, g, h) ==
  \/ all[g] > all[h]
  \/ all[g] = all[h] /\ NameRank[g] < NameRank[h]

\* Its result: the k-th group comes after k - 1 others.
SortSlice(all) ==
  [k \in 1 .. Cardinality(DOMAIN all) |-> CHOOSE g \in DOMAIN all :
     Cardinality({h \in DOMAIN all : Before(all, h, g)}) = k - 1]

Collect(o) ==
  /\ pc[o] = "called" /\ Doing(o) = "Collect"
  /\ LET all == [g \in DOMAIN got[o] |-> CardinalityOf[got[o][g]]]
         total == Cardinality(DOMAIN all)
         sorted == SortSlice(all)
         capped == MaxGroups > 0 /\ total > MaxGroups
     IN  page' = [page EXCEPT ![o] =
           [shown |-> IF capped THEN {sorted[i] : i \in 1 .. MaxGroups} ELSE DOMAIN all,
            dropped |-> IF capped THEN total - MaxGroups ELSE 0, total |-> total]]
  /\ pc' = [pc EXCEPT ![o] = "sending"]
  /\ UNCHANGED <<phase, groups, store, lockVars, job, at, buf, got, acked>>

\* The registry has taken the metrics.
Sent(o) ==
  /\ pc[o] = "sending"
  /\ Return(o)
  /\ got' = [got EXCEPT ![o] = Empty] /\ page' = [page EXCEPT ![o] = NoPage]
  /\ UNCHANGED <<phase, groups, store, lockVars, job, buf, acked>>

Next ==
  \/ Start \/ Serve \/ Crash \/ \E g \in Group : Restore(g)
  \/ \E o \in Op :
       \/ \E g \in Group, prog \in Programs : Begin(o, g, prog)
       \/ Lock(o) \/ RLock(o)
       \/ Add(o) \/ AddAndPersist(o) \/ Persist(o) \/ Save(o) \/ MergeBytes(o)
       \/ ReadOne(o) \/ ReadDone(o) \/ \E g \in Group : ReadGroup(o, g)
       \/ Collect(o) \/ Sent(o)

Spec == Init /\ [][Next]_vars

-----------------------------------------------------------------------------
(* Properties.                                                             *)

\* Every variable keeps its type.
TypeOK ==
  /\ phase \in {"down", "loading", "up"}
  /\ groups \in Engines /\ store \in Stores
  /\ writer \in Op \cup {NoOp} /\ readers \subseteq Op
  /\ pc \in [Op -> {"idle", "called", "in", "save", "sending", "done"}]
  /\ job \in [Op -> [g : Group, prog : Programs] \cup {NoJob}] /\ at \in [Op -> Nat]
  /\ buf \in [Op -> Buffers] /\ got \in [Op -> Engines] /\ acked \subseteq Pairs
  /\ page \in [Op -> [shown : SUBSET Group, dropped : Nat, total : Nat]]

\* "Every acknowledged add is in the persisted sketch" (AddAndPersist), now
\* and after any crash, although other goroutines save the same group; and
\* every id of a command that applyEntries dispatched and saved.
AckedIsPersisted ==
  \A p \in acked : p[1] \in DOMAIN store /\ Absorbs(Parse(store[p[1]]), p[2])

\* "No older snapshot can be written after a newer one" (Persist): a save
\* never lowers a stored register, across restarts too.
SavesNeverGoBack ==
  [][\A g \in DOMAIN store :
       g \in DOMAIN store' /\ Below(Parse(store[g]), Parse(store'[g]))]_store

\* What CardinalityAll and Marshal have read so far is still what the engine
\* holds, so the whole map is the engine at one moment.
ReadIsOneMoment ==
  \A o \in readers : \A g \in DOMAIN got[o] :
    g \in DOMAIN groups /\ got[o][g] = groups[g]

\* "The cap keeps the groups with the largest estimates and reports the rest"
\* (EngineCollector): a scrape shows a group exactly if fewer than MaxGroups
\* groups have a larger estimate, or the same and an earlier name; what is
\* shown and what is reported dropped make up all groups of the one moment
\* that was read, although the engine has moved on since.
CapKeepsLargest ==
  \A o \in {x \in Op : pc[x] = "sending"} :
    LET all == DOMAIN got[o]
        est(g) == CardinalityOf[got[o][g]]
        ahead(g) == {h \in all : est(h) > est(g)
                       \/ (est(h) = est(g) /\ NameRank[h] < NameRank[g])}
    IN  /\ \A g \in all : g \in page[o].shown <=>
             MaxGroups = 0 \/ Cardinality(ahead(g)) < MaxGroups
        /\ page[o].shown \subseteq all /\ page[o].total = Cardinality(all)
        /\ Cardinality(page[o].shown) + page[o].dropped = page[o].total

Asked == UNION {PairsOf(job[o]) : o \in Op}
Serving == IF phase = "up" THEN groups ELSE Empty

Abs == INSTANCE Shard WITH
  on <- phase = "up", asked <- Asked, mem <- Serving, disk <- Restored(store)

\* Every step of the engine's callers is a step of the shard: each call
\* counts one asked-for pair or saves the memory as it is, also in the middle
\* of a batch or a failed command, and a server that listens has restored
\* exactly what was saved.
ImplementsShard == Abs!SSpec
=============================================================================
