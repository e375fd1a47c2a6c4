------------------------------ MODULE RaftNode ------------------------------
(***************************************************************************)
(* One shard of the tracker: the write path of internal/raft/node.go with  *)
(* the engine it applies to, the BadgerDB store it persists to, and the    *)
(* start-up and shutdown of cmd/server/main.go around it.                  *)
(*                                                                         *)
(* Three goroutines share the state: the RPC handlers inside ProposeAdd,   *)
(* the Node.Run event loop, and the goroutine of the etcd raft library.    *)
(* The library (v3.5.13) and its MemoryStorage are external; the group has *)
(* one member, so the library commits an entry as soon as it appends it.   *)
(* Log indices follow the library: 1 is the bootstrap configuration        *)
(* change, 2 the empty entry of the new leader, commands start at 3.       *)
(***************************************************************************)
EXTENDS EngineState, Sequences

CONSTANTS
  Call,               \* calls of ProposeAdd; each is made at most once
  ConfEntry,          \* the bootstrap configuration-change entry
  NoOpEntry,          \* the empty entry a new leader appends
  ProposeCap,         \* capacity of proposeC, 128 in the code
  SnapshotThreshold,  \* 10_000 in the code
  PageLimit,          \* committed entries one Ready may carry, 0 = no limit;
                      \* the library's limit is 4096 bytes (MaxSizePerMsg)
  SaveMayFail,        \* whether store.Save may return an error
  HostMayCrash        \* whether the machine, not only the process, may die

ASSUME EntryAssumption ==
  ConfEntry \notin Group \X Id /\ NoOpEntry \notin Group \X Id
ASSUME BoundAssumption ==
  /\ ProposeCap \in Nat \ {0}
  /\ SnapshotThreshold \in Nat \ {0}
  /\ PageLimit \in Nat
ASSUME FlagAssumption == SaveMayFail \in BOOLEAN /\ HostMayCrash \in BOOLEAN

Entry == Pairs \cup {ConfEntry, NoOpEntry}
NoReq == <<>>
NoReady == [last |-> 0, comm |-> 0]

VARIABLES
  phase,       \* "down", "up", "draining" (GracefulStop), "stopping" (Stop)
  call, req,   \* where each ProposeAdd call is, and its (group, id)
  proposeC,    \* the proposal channel
  flight,      \* goroutines blocked in node.Propose
  accepted,    \* calls whose resultC holds a nil error
  leader,      \* the library has elected this node
  rlog,        \* the library's log since this start
  stable,      \* last index the library knows to be in storage
  applied,     \* last index the library knows to be applied
  rd,          \* the Ready the library offers, if any
  cur,         \* the Ready the event loop is processing
  loop, next,  \* the event loop's step, and the next index it applies
  appliedIdx, snapCount,       \* fields of Node
  snapIdx, snapData, storLast, \* MemoryStorage: snapshot, last index
  groups,      \* Engine.groups
  store,       \* what a reader of BadgerDB sees
  synced,      \* what of it is on disk
  panicked,    \* history: the library panicked
  base,        \* history: the engine as restored at this start
  acked,       \* history: pairs whose ProposeAdd returned nil
  finished     \* history: pairs applyEntries counted as applied

clientVars == <<call, req, proposeC, flight, accepted, acked>>
raftVars == <<leader, rlog, stable, applied, rd>>
loopVars == <<cur, loop, next, appliedIdx, snapCount>>
storageVars == <<snapIdx, snapData, storLast>>
dataVars == <<groups, store, synced, base, finished>>
vars == <<phase, clientVars, raftVars, loopVars, storageVars, dataVars, panicked>>

-----------------------------------------------------------------------------
(* Helpers.                                                                *)

\* The calls that have not returned.
Open == {k \in Call : call[k] \in {"sending", "waiting"}}

PageEnd(lo, hi) ==
  IF PageLimit = 0 \/ hi <= lo + PageLimit THEN hi ELSE lo + PageLimit

\* The process is gone: nothing in memory survives, and a call that had not
\* returned fails at its client.
ProcessGone ==
  /\ phase' = "down"
  /\ call' = [k \in Call |-> IF k \in Open THEN "failed" ELSE call[k]]
  /\ proposeC' = <<>> /\ flight' = {} /\ accepted' = {}
  /\ leader' = FALSE /\ rlog' = <<>> /\ stable' = 0 /\ applied' = 0
  /\ rd' = NoReady /\ cur' = NoReady /\ loop' = "exited" /\ next' = 1
  /\ appliedIdx' = 0 /\ snapCount' = 0
  /\ snapIdx' = 0 /\ snapData' = Empty /\ storLast' = 0
  /\ groups' = Empty /\ base' = Empty
  /\ UNCHANGED <<req, acked, finished>>

\* A panic of the library's goroutine ends the process.
Panic ==
  /\ ProcessGone
  /\ panicked' = TRUE
  /\ UNCHANGED <<store, synced>>

-----------------------------------------------------------------------------
(* Start-up and shutdown: cmd/server/main.go.                              *)

Init ==
  /\ phase = "down"
  /\ call = [k \in Call |-> "new"] /\ req = [k \in Call |-> NoReq]
  /\ proposeC = <<>> /\ flight = {} /\ accepted = {} /\ acked = {}
  /\ leader = FALSE /\ rlog = <<>> /\ stable = 0 /\ applied = 0
  /\ rd = NoReady /\ cur = NoReady /\ loop = "exited" /\ next = 1
  /\ appliedIdx = 0 /\ snapCount = 0
  /\ snapIdx = 0 /\ snapData = Empty /\ storLast = 0
  /\ groups = Empty /\ store = Empty /\ synced = Empty /\ base = Empty
  /\ finished = {} /\ panicked = FALSE

\* Faulty variant: the engine starts empty over a store that is not.
StartWithoutRestore ==
  /\ phase = "down"
  /\ phase' = "up"
  /\ rlog' = <<ConfEntry>>
  /\ loop' = "select"
  /\ UNCHANGED <<clientVars, leader, stable, applied, rd, cur, next, appliedIdx,
                 snapCount, storageVars, dataVars, panicked>>

\* run: restore the engine from the store, then NewNode with an empty
\* MemoryStorage and the bootstrap entry.  A group that does not parse
\* aborts the start.
Start ==
  /\ phase = "down"
  /\ \A g \in DOMAIN store : CanParse(store[g])
  /\ phase' = "up"
  /\ groups' = Restored(store) /\ base' = Restored(store)
  /\ rlog' = <<ConfEntry>>
  /\ loop' = "select"
  /\ UNCHANGED <<clientVars, leader, stable, applied, rd, cur, next, appliedIdx,
                 snapCount, storageVars, store, synced, finished, panicked>>

\* SIGTERM: gs.GracefulStop refuses new calls ...
Signal ==
  /\ phase = "up"
  /\ phase' = "draining"
  /\ UNCHANGED <<clientVars, raftVars, loopVars, storageVars, dataVars, panicked>>

\* ... and returns when the running ones have; then the deferred node.Stop
\* closes stopC.
Drained ==
  /\ phase = "draining" /\ Open = {}
  /\ phase' = "stopping"
  /\ UNCHANGED <<clientVars, raftVars, loopVars, storageVars, dataVars, panicked>>

\* Run takes stopC, the library stops, st.Close flushes, the process exits.
LoopStop ==
  /\ phase = "stopping" /\ loop = "select"
  /\ ProcessGone
  /\ synced' = store
  /\ UNCHANGED <<store, panicked>>

\* The process is killed: the store keeps every write it had accepted.
Crash ==
  /\ phase # "down"
  /\ ProcessGone
  /\ UNCHANGED <<store, synced, panicked>>

\* The machine dies: with SyncWrites(false) only the flushed writes remain.
HostCrash ==
  /\ HostMayCrash /\ phase # "down"
  /\ ProcessGone
  /\ store' = synced
  /\ UNCHANGED <<synced, panicked>>

\* The operating system writes BadgerDB's files back.
Sync ==
  /\ HostMayCrash /\ phase # "down" /\ synced # store
  /\ synced' = store
  /\ UNCHANGED <<phase, clientVars, raftVars, loopVars, storageVars, groups,
                 store, base, finished, panicked>>

-----------------------------------------------------------------------------
(* ProposeAdd, in an RPC handler.                                          *)

Invoke(k, g, id) ==
  /\ phase = "up" /\ call[k] = "new"
  /\ call' = [call EXCEPT ![k] = "sending"]
  /\ req' = [req EXCEPT ![k] = <<g, id>>]
  /\ UNCHANGED <<phase, proposeC, flight, accepted, acked, raftVars, loopVars,
                 storageVars, dataVars, panicked>>

\* Faulty variant: proposeC has no capacity.
SendUnbounded(k) ==
  /\ call[k] = "sending"
  /\ proposeC' = Append(proposeC, k)
  /\ call' = [call EXCEPT ![k] = "waiting"]
  /\ UNCHANGED <<phase, req, flight, accepted, acked, raftVars, loopVars,
                 storageVars, dataVars, panicked>>

\* n.proposeC <- propose{...}: blocks while the channel is full.
Send(k) ==
  /\ call[k] = "sending" /\ Len(proposeC) < ProposeCap
  /\ proposeC' = Append(proposeC, k)
  /\ call' = [call EXCEPT ![k] = "waiting"]
  /\ UNCHANGED <<phase, req, flight, accepted, acked, raftVars, loopVars,
                 storageVars, dataVars, panicked>>

\* ctx.Done in either select: the call fails, the proposal lives on.
CtxDone(k) ==
  /\ k \in Open
  /\ call' = [call EXCEPT ![k] = "failed"]
  /\ UNCHANGED <<phase, req, proposeC, flight, accepted, acked, raftVars,
                 loopVars, storageVars, dataVars, panicked>>

\* <-resultC: nil, because the library accepted the proposal.
Return(k) ==
  /\ call[k] = "waiting" /\ k \in accepted
  /\ call' = [call EXCEPT ![k] = "acked"]
  /\ acked' = acked \cup {req[k]}
  /\ UNCHANGED <<phase, req, proposeC, flight, accepted, raftVars, loopVars,
                 storageVars, dataVars, panicked>>

-----------------------------------------------------------------------------
(* The goroutine of the raft library (external).                           *)

Running == phase # "down"
\* A Ready was taken and Advance not yet called.
ReadyTaken == loop \in {"apply", "persist"}

\* The election timeout fires.  The bootstrap entry must have been applied.
RaftElect ==
  /\ Running /\ ~leader /\ applied >= 1
  /\ leader' = TRUE
  /\ rlog' = Append(rlog, NoOpEntry)
  /\ rd' = NoReady
  /\ UNCHANGED <<phase, clientVars, stable, applied, loopVars, storageVars,
                 dataVars, panicked>>

\* A tick that elects nobody: the library's loop prepares its Ready afresh.
RaftTick ==
  /\ Running /\ rd # NoReady
  /\ rd' = NoReady
  /\ UNCHANGED <<phase, clientVars, leader, rlog, stable, applied, loopVars,
                 storageVars, dataVars, panicked>>

\* The log the library sees ends before an index it has committed.
LogShort == stable = Len(rlog) /\ storLast < Len(rlog)

\* node.Propose: without a leader it blocks; the leader appends, commits and
\* answers.  Appending below the committed index panics.
RaftPropose(k) ==
  /\ Running /\ leader /\ k \in flight
  /\ \/ LogShort /\ Panic
     \/ /\ ~LogShort
        /\ rlog' = Append(rlog, req[k])
        /\ flight' = flight \ {k} /\ accepted' = accepted \cup {k}
        /\ rd' = NoReady
        /\ UNCHANGED <<phase, call, req, proposeC, acked, leader, stable,
                       applied, loopVars, storageVars, dataVars, panicked>>

HasReady == stable < Len(rlog) \/ applied < Len(rlog)

\* newReady: the unstable entries, and a page of the committed entries not
\* yet applied.  The stable ones among them are read back from MemoryStorage;
\* reading past its end panics.
RaftReady ==
  /\ Running /\ ~ReadyTaken /\ rd = NoReady /\ HasReady
  /\ \/ applied < stable /\ storLast < stable /\ Panic
     \/ /\ ~(applied < stable /\ storLast < stable)
        /\ rd' = [last |-> Len(rlog), comm |-> PageEnd(applied, Len(rlog))]
        /\ UNCHANGED <<phase, clientVars, leader, rlog, stable, applied,
                       loopVars, storageVars, dataVars, panicked>>

-----------------------------------------------------------------------------
(* Node.Run.                                                               *)

\* Faulty variant: a proposal is received and forgotten.
LoopProposeDrops ==
  /\ loop = "select" /\ proposeC # <<>>
  /\ proposeC' = Tail(proposeC)
  /\ UNCHANGED <<phase, call, req, flight, accepted, acked, raftVars, loopVars,
                 storageVars, dataVars, panicked>>

\* case p := <-n.proposeC: a goroutine per proposal calls node.Propose.
LoopPropose ==
  /\ loop = "select" /\ proposeC # <<>>
  /\ flight' = flight \cup {Head(proposeC)}
  /\ proposeC' = Tail(proposeC)
  /\ UNCHANGED <<phase, call, req, accepted, acked, raftVars, loopVars,
                 storageVars, dataVars, panicked>>

\* case rd := <-n.node.Ready(): storage.Append(rd.Entries), which panics when
\* the entries do not follow the last one stored.
LoopReady ==
  /\ loop = "select" /\ rd # NoReady
  /\ \/ stable < rd.last /\ storLast < stable /\ Panic
     \/ /\ ~(stable < rd.last /\ storLast < stable)
        /\ storLast' = IF stable < rd.last THEN rd.last ELSE storLast
        /\ cur' = rd /\ rd' = NoReady
        /\ next' = applied + 1
        /\ loop' = "apply"
        /\ UNCHANGED <<phase, clientVars, leader, rlog, stable, applied,
                       appliedIdx, snapCount, snapIdx, snapData, dataVars, panicked>>

\* applyEntries, an entry that is not a command: continue.
ApplySkip ==
  /\ loop = "apply" /\ next <= cur.comm
  /\ rlog[next] \notin Pairs
  /\ next' = next + 1
  /\ UNCHANGED <<phase, clientVars, raftVars, cur, loop, appliedIdx, snapCount,
                 storageVars, dataVars, panicked>>

\* Faulty variant: the entry is applied and never saved.
ApplyDispatchOnly ==
  /\ loop = "apply" /\ next <= cur.comm
  /\ rlog[next] \in Pairs
  /\ groups' = EngineAdd(groups, rlog[next][1], rlog[next][2])
  /\ appliedIdx' = next /\ snapCount' = snapCount + 1
  /\ next' = next + 1
  /\ UNCHANGED <<phase, clientVars, raftVars, cur, loop, storageVars, store,
                 synced, base, finished, panicked>>

\* applyEntries, first half of an iteration: Dispatch runs Engine.Add.
ApplyDispatch ==
  /\ loop = "apply" /\ next <= cur.comm
  /\ rlog[next] \in Pairs
  /\ groups' = EngineAdd(groups, rlog[next][1], rlog[next][2])
  /\ loop' = "persist"
  /\ UNCHANGED <<phase, clientVars, raftVars, cur, next, appliedIdx, snapCount,
                 storageVars, store, synced, base, finished, panicked>>

\* applyEntries, second half: Engine.Persist with store.Save.  A failed save
\* is logged and the entry counts as applied all the same.
ApplyPersist ==
  /\ loop = "persist"
  /\ \/ store' = Put(store, rlog[next][1], Bytes(groups[rlog[next][1]]))
     \/ SaveMayFail /\ store' = store
  /\ finished' = finished \cup {rlog[next]}
  /\ appliedIdx' = next /\ snapCount' = snapCount + 1
  /\ next' = next + 1
  /\ loop' = "apply"
  /\ UNCHANGED <<phase, clientVars, raftVars, cur, storageVars, groups, synced,
                 base, panicked>>

\* Faulty variant: every stored entry is taken for applied.
LoopAdvanceToLast ==
  /\ loop = "apply" /\ next > cur.comm
  /\ stable' = cur.last /\ applied' = cur.last
  /\ cur' = NoReady
  /\ loop' = "snapshot"
  /\ UNCHANGED <<phase, clientVars, leader, rlog, rd, next, appliedIdx,
                 snapCount, storageVars, dataVars, panicked>>

\* node.Advance: the library marks the Ready's entries stable and applied.
LoopAdvance ==
  /\ loop = "apply" /\ next > cur.comm
  /\ stable' = cur.last /\ applied' = cur.comm
  /\ cur' = NoReady
  /\ loop' = "snapshot"
  /\ UNCHANGED <<phase, clientVars, leader, rlog, rd, next, appliedIdx,
                 snapCount, storageVars, dataVars, panicked>>

\* MemoryStorage.ApplySnapshot(idx): every entry it holds is dropped, those
\* after idx included.  The Compact(idx) that follows finds nothing to do.
ApplySnapshot(idx) ==
  /\ snapIdx' = idx /\ storLast' = idx
  /\ snapData' = Marshal(groups)

\* Faulty variants: the snapshot is labelled one entry short, or with the last
\* stored index; the count is not reset.
MaybeSnapshotShort ==
  /\ loop = "snapshot"
  /\ loop' = "select"
  /\ IF snapCount >= SnapshotThreshold /\ appliedIdx - 1 > snapIdx
     THEN ApplySnapshot(appliedIdx - 1) /\ snapCount' = 0
     ELSE UNCHANGED <<storageVars, snapCount>>
  /\ UNCHANGED <<phase, clientVars, raftVars, cur, next, appliedIdx, dataVars,
                 panicked>>

MaybeSnapshotAtStable ==
  /\ loop = "snapshot"
  /\ loop' = "select"
  /\ IF snapCount >= SnapshotThreshold /\ stable > snapIdx
     THEN ApplySnapshot(stable) /\ snapCount' = 0
     ELSE UNCHANGED <<storageVars, snapCount>>
  /\ UNCHANGED <<phase, clientVars, raftVars, cur, next, appliedIdx, dataVars,
                 panicked>>

MaybeSnapshotKeepsCount ==
  /\ loop = "snapshot"
  /\ loop' = "select"
  /\ IF snapCount >= SnapshotThreshold /\ appliedIdx > snapIdx
     THEN ApplySnapshot(appliedIdx)
     ELSE UNCHANGED storageVars
  /\ UNCHANGED <<phase, clientVars, raftVars, cur, next, appliedIdx, snapCount,
                 dataVars, panicked>>

\* maybeSnapshot.
MaybeSnapshot ==
  /\ loop = "snapshot"
  /\ loop' = "select"
  /\ IF snapCount >= SnapshotThreshold /\ appliedIdx > snapIdx
     THEN ApplySnapshot(appliedIdx) /\ snapCount' = 0
     ELSE UNCHANGED <<storageVars, snapCount>>
  /\ UNCHANGED <<phase, clientVars, raftVars, cur, next, appliedIdx, dataVars,
                 panicked>>

-----------------------------------------------------------------------------
Next ==
  \/ Start \/ Signal \/ Drained \/ LoopStop \/ Crash \/ HostCrash \/ Sync
  \/ \E k \in Call :
       \/ \E g \in Group, id \in Id : Invoke(k, g, id)
       \/ Send(k) \/ CtxDone(k) \/ Return(k) \/ RaftPropose(k)
  \/ RaftElect \/ RaftTick \/ RaftReady
  \/ LoopPropose \/ LoopReady \/ ApplySkip \/ ApplyDispatch \/ ApplyPersist
  \/ LoopAdvance \/ MaybeSnapshot

Spec == Init /\ [][Next]_vars

(***************************************************************************)
(* Fairness.  A goroutine that can run does; a sender or receiver of a     *)
(* channel is served in turn; and Go's select chooses at random among the  *)
(* ready cases, so a case that is ready again and again is taken.  Nothing *)
(* makes a client call, a signal, a crash or a restart happen.             *)
(***************************************************************************)
Fairness ==
  /\ WF_vars(RaftElect) /\ WF_vars(RaftReady)
  /\ SF_vars(LoopPropose) /\ SF_vars(LoopReady) /\ SF_vars(LoopStop)
  /\ WF_vars(ApplySkip) /\ WF_vars(ApplyDispatch) /\ WF_vars(ApplyPersist)
  /\ WF_vars(LoopAdvance) /\ WF_vars(MaybeSnapshot) /\ WF_vars(Drained)
  /\ \A k \in Call : SF_vars(Send(k)) /\ WF_vars(RaftPropose(k)) /\ WF_vars(Return(k))

FairSpec == Spec /\ Fairness
-----------------------------------------------------------------------------
(* Properties.                                                             *)

CallState == {"new", "sending", "waiting", "acked", "failed"}
Readys == [last : Nat, comm : Nat]

\* Every variable keeps its type; proposeC never exceeds its capacity.
TypeOK ==
  /\ phase \in {"down", "up", "draining", "stopping"}
  /\ call \in [Call -> CallState] /\ req \in [Call -> Pairs \cup {NoReq}]
  /\ proposeC \in Seq(Call) /\ Len(proposeC) <= ProposeCap
  /\ flight \subseteq Call /\ accepted \subseteq Call /\ acked \subseteq Pairs
  /\ leader \in BOOLEAN /\ rlog \in Seq(Entry)
  /\ stable \in Nat /\ applied \in Nat /\ rd \in Readys /\ cur \in Readys
  /\ loop \in {"exited", "select", "apply", "persist", "snapshot"}
  /\ next \in Nat /\ appliedIdx \in Nat /\ snapCount \in Nat
  /\ snapIdx \in Nat /\ snapData \in Stores /\ storLast \in Nat
  /\ groups \in Engines /\ base \in Engines
  /\ store \in Stores /\ synced \in Stores
  /\ finished \subseteq Pairs /\ panicked \in BOOLEAN

\* eng is the restored engine plus the commands among the first n entries of
\* the log, and nothing else.
IsPrefixState(eng, n) ==
  /\ DOMAIN base \subseteq DOMAIN eng
  /\ \A g \in DOMAIN base : Below(base[g], eng[g])
  /\ \A i \in 1 .. n : rlog[i] \in Pairs =>
       rlog[i][1] \in DOMAIN eng /\ Absorbs(eng[rlog[i][1]], rlog[i][2])
  /\ \A g \in DOMAIN eng : \A r \in Reg :
       \/ eng[g][r] = 0
       \/ g \in DOMAIN base /\ eng[g][r] = base[g][r]
       \/ \E i \in 1 .. n : /\ rlog[i] \in Pairs /\ rlog[i][1] = g
                            /\ Idx[rlog[i][2]] = r /\ Rho[rlog[i][2]] = eng[g][r]

\* The log position the engine has reached.
Cursor == IF loop = "persist" THEN next ELSE next - 1

\* The engine always holds exactly what was restored at start-up plus a
\* prefix of the Raft log: applyEntries neither skips, reorders nor invents a
\* command, whatever page of committed entries a Ready carries.
EngineIsLogPrefix == phase # "down" => IsPrefixState(groups, Cursor)

\* The snapshot maybeSnapshot hands to the storage is the engine state of
\* the very index it is labelled with, although proposals keep arriving
\* between applyEntries and Marshal.
SnapshotIsLogPrefix == snapIdx > 0 => IsPrefixState(Unmarshal(snapData), snapIdx)

\* ApplySnapshot never answers ErrSnapOutOfDate, after which maybeSnapshot
\* would keep its count and marshal the engine on every Ready.
SnapshotIndexGrows == snapCount > 0 => appliedIdx > snapIdx

Stored(p) ==
  p # NoReq /\ p[1] \in DOMAIN store /\ Absorbs(Parse(store[p[1]]), p[2])

\* Every applied entry was persisted (engine.go, Restore; main.go, run): an
\* id applyEntries has counted is in the store, across crashes and restarts.
AppliedIsPersisted == \A p \in finished : Stored(p)

\* The store never runs ahead of the engine, so the next Persist of a group
\* cannot lose what an earlier process wrote.
StoreWithinEngine ==
  phase # "down" =>
    \A g \in DOMAIN store :
      g \in DOMAIN groups /\ Below(Parse(store[g]), groups[g])

\* No save lowers a stored register or drops a stored group.
StoreNeverShrinks ==
  [][\A g \in DOMAIN store :
       g \in DOMAIN store' /\ Below(Parse(store[g]), Parse(store'[g]))]_store

\* What is stored was asked for: every nonzero register of a stored sketch
\* comes from an id some caller added to that very group.
StoreHasNoPhantom ==
  \A g \in DOMAIN store : \A r \in Reg :
    Parse(store[g])[r] # 0 =>
      \E k \in Call : /\ req[k] # NoReq /\ req[k][1] = g
                     /\ Idx[req[k][2]] = r /\ Rho[req[k][2]] = Parse(store[g])[r]

\* The library never finds its log cut short by a snapshot and panics.
NeverPanics == ~panicked

(***************************************************************************)
(* The node implements the shard: its engine is the memory, what parses    *)
(* from its store the disk, the arguments of the calls made so far what    *)
(* was asked.                                                              *)
(***************************************************************************)
Asked == {req[k] : k \in {c \in Call : req[c] # NoReq}}

Abs == INSTANCE Shard WITH
  on <- phase # "down", asked <- Asked, mem <- groups, disk <- Restored(store)

\* Every step of the node is a step of the abstract shard, or none: what is
\* counted was asked for, what is saved is a sketch the memory held, and a
\* restart resumes from exactly what was saved.
ImplementsShard == Abs!SSpec

\* The disagreements with the repository's own statements.

\* A response to Add comes after the sketch is in BadgerDB.
AckedIsStored == \A p \in acked : Stored(p)

\* A snapshot discards old log entries only.
SnapshotKeepsNewEntries == [][snapIdx' > snapIdx => storLast' = storLast]_<<snapIdx, storLast>>

\* GracefulStop, node.Stop and st.Close come to an end: a call that waits for
\* a leader or for room in proposeC does not keep the process alive forever.
ShutdownCompletes == (phase = "draining") ~> (phase = "down")

\* A proposal the library accepted is eventually persisted unless the process
\* ends first, whether or not its caller still waits.
AcceptedIsEventuallyStored ==
  \A k \in Call : (k \in accepted) ~> (Stored(req[k]) \/ ~Running)
=============================================================================
