# A TLA+ model of the time-series cardinality tracker

The tracker counts distinct 64-bit ids per group with HyperLogLog sketches. A
cluster is a set of servers; a consistent-hash ring assigns every group to one of
them; the owner orders its writes through a single-member Raft group, applies
them to an in-memory engine and saves the sketch of the group in BadgerDB. The
modules here model that code, TLC checks them on small instances, and TLAPS
proves the main results for every value of the constants.

## The system

| part | state | operations | what makes it hard |
|---|---|---|---|
| Raft node, `internal/raft/node.go` | `proposeC`, `appliedIdx`, `snapCount`, the library's log and `MemoryStorage` | `ProposeAdd`, `Run`, `applyEntries`, `maybeSnapshot`, `Stop` | three kinds of goroutine; answers before the apply; snapshots while entries wait |
| life cycle, `cmd/server/main.go` | the process, its three listeners | restore, listen, SIGTERM, graceful stop, shutdowns with a deadline | crashes between any two steps; the order of the stops while calls are in progress |
| engine, `internal/cardinality/engine.go` | `groups` under a `RWMutex` | add, persist, merge, restore, marshal, read | saves under the lock; readers that walk the map |
| sketches, `internal/cardinality/hll` and `bitmap` | registers; a roaring64 bitmap | add, merge, clone, bytes, parse, cardinality | bit arithmetic at the edges; copies that must not share memory |
| store, `internal/store` | BadgerDB | save, load all | writes that are not synced |
| ring, `internal/router` | sorted points, point to node map | add node, remove node, resolve | equal hashes, wrap-around, growth |
| gRPC server, `internal/server/grpc.go` | connection pool | add, batch add, query, forward | forwarding with different rings; partial batches |
| command handlers, `internal/raft/handler` | none | dispatch and decode | partial application of a payload |
| HTTP gateway and gRPC stubs, `gen/cardinality/v1` | a connection to the gRPC port | decode, put the URL's group into the message, pass on | a group in the URL and another in the body; clients that leave; a gRPC server that is draining |
| metrics and health, `internal/server` | counters | count, collect, probe | two layers that count the same call; ids that are accepted after their caller was counted as failed; the cap on exported groups |

A write enters a server, is forwarded to the owner of its group, waits in
`proposeC`, is handed to the library by a goroutine of its own, comes back in a
`Ready`, is applied to the engine by the event loop and saved. A read goes to
the owner's engine directly.

## Modules

| module | models | notes |
|---|---|---|
| `Sketch` | registers of `hll.go`: add, merge, bytes, parse | the hash of an id is a register number and a rank, both constants |
| `PowersOfTwo` | the powers `hll.go` shifts by and sums | a recursive function, because the prover knows nothing of `2^n` |
| `HllHash` | the bit arithmetic of `sketch.Add` | width and precision are parameters |
| `HllEstimate` | `sketch.Cardinality` | exact fractions; the logarithm is a table |
| `HllSketch` | both sketches of the contract, fed with the same raw hashes | compares `HllHash`, `Sketch` and `HllEstimate` with the textbook definition and with the bitmap |
| `EngineState` | the maps the engine and the store hold | shared by `RaftNode`, `Handlers` and `Engine` |
| `Handlers` | `internal/raft/handler`: dispatch and the three commands | what a payload makes of the engine, as a list of calls |
| `Shard` | nothing in the code: the promise of a shard to its callers | the abstract specification |
| `RaftNode` | node, engine, store and life cycle together | refines `Shard` |
| `Engine` | the engine's operations at the grain of its lock, called by handlers, by adds without Raft, by readers and by `EngineCollector` | extends `Handlers`, refines `Shard` |
| `Ring` | the hash ring | |
| `Cluster` | servers that forward calls to one another (`grpc.go`, `main.go`) | rests on `Ring` for the owner and on `RaftNode` for what an owner does |
| `FrontEnd` | one process from its listeners to its handlers: `run`, gateway, stubs, interceptor, handlers, counters, probes | what the node and a peer do with a call is `RaftNode` and `Cluster` |
| `MC...` | nothing: values for TLC | ids are their own four-bit hashes, so two ids share a register |
| `EngineStateProofs` | nothing: theorems about `Sketch` and `EngineState` | what `RaftNodeProofs` and `EngineControl` rest on |
| `EngineControl` | nothing: lemmas about `Engine` | the lock and the calls of a program; `EngineProofs` extends it |
| `RaftNodeProofs`, `EngineProofs`, `HllSketchProofs`, `RingProofs`, `ClusterProofs`, `FrontEndProofs` | nothing: theorems about the module they are named after | |

Definitions named `...Overwrites`, `...Drops` and the like, each marked "faulty
variant", are plausible mistakes in the definition that follows. No
specification uses them; they show that each property can fail.

### RaftNode

`phase` is the process (`run` in `main.go`). A call of `ProposeAdd` goes through
`Invoke`, `Send` and `Return`, or ends in `CtxDone` at either `select` while its
proposal lives on. `LoopPropose`, `LoopReady` with the steps of `applyEntries`,
`LoopAdvance` and `MaybeSnapshot` are the cases of `Run`'s `select`; `loop` says
where the event loop is. `applyEntries` takes two steps per command, `Dispatch`
and `Persist`, because a crash can fall between them. `RaftElect`,
`RaftPropose`, `RaftReady` and `RaftTick` are the goroutine of the etcd library
(v3.5.13), which is external: with one member an entry is committed when it is
appended; the library prepares a `Ready` whenever something changed and none is
taken; `Ready.Entries` holds everything not yet stored, while
`CommittedEntries` is cut at `MaxSizePerMsg`, which `PageLimit` models as a
number of entries. `MemoryStorage.ApplySnapshot` forgets every entry, and the
library panics where its own code does: reading stored entries past the end of
the storage, storing entries that leave a gap, and appending below the committed
index. The last three variables and `panicked` are histories.

A process that ends, by `LoopStop`, `Crash`, `HostCrash` or a panic, loses
everything but the store (`ProcessGone`). `store` is what a reader of BadgerDB
sees and `synced` what would survive the machine.

`Shard`, the promise to callers, is told what was asked for. Memory grows by what was
asked (`Count`), or by a sketch of such ids (`Fold`, for `MERGE_SKETCH`); the disk follows
memory and never goes back.

### Engine and Handlers

A goroutine runs a program, a sequence of engine calls: `AddAndPersist` (`addID`
in a server without a Raft node), the calls `Dispatch` makes for a command
followed by `Persist` if it succeeded (the body of `applyEntries`), or one of the
reads. `Handlers` computes those calls from the payload: the numbers that
`binary.Uvarint` reads from it, with `Cut` where it fails. `BATCH_ADD` adds ids as it
reads them, so a cut payload leaves some of them in memory and is not persisted.
In the code only the event loop applies commands; letting several goroutines do
so covers more interleavings than the server has.

Each call takes the lock (`Lock` or `RLock`), acts and releases it. Bytes that do
not parse and foreign algorithm names are refused before the lock, hence by
`Dispatch`. A writer that saves has a step of its own for the save, still under the
lock. `CardinalityAll` and `Marshal` read one group per step in any order. A process
starts empty, restores one stored group per step and then serves. `Unmarshal` is
called by tests only; it reads the snapshot back in `SnapshotIsLogPrefix`.

A scrape is `CardinalityAll` followed by `Collect`, which sorts and cuts what was
read without holding the lock, and `Sent`, when the registry has taken the
metrics. Between the two the engine may have moved on; `CapKeepsLargest` is about
the moment that was read. What `sort.Slice` returns is described by ranks: the k-th
group is the one with k - 1 groups before it. The estimates are a constant,
`CardinalityOf`, any function of the sketches; the run takes the one of `HllEstimate`.
Commands are well formed (`WellFormed`): a payload is a sequence of numbers, cut at
its end if at all, and bytes that parse hold ranks. Payloads that are too short,
too long, of a foreign algorithm or of an unknown type are well formed.

### HllSketch and HllEstimate

A caller holds handles. Every call is made on a HyperLogLog and on a bitmap, so
the bitmap is the record of which ids a sketch should stand for. A HyperLogLog
handle points to memory (`ref`), which only a clone that shares its registers would
make two handles share. `Estimate` follows `Cardinality` branch by branch: the sum of
powers of two and `alphaMM` are fractions, and `Linear` gives the rounded value of
linear counting for each number of zero registers.

### Ring

The hash of every virtual node is chosen once, arbitrarily, in `Init`, so one run
covers every hash function on the small domain. `RemoveNode` is the loop of the
code, with its deletion from the map while it walks the ring: of two equal
points the second stays, without a node. `clean` says that this has not happened.
The server never calls `RemoveNode`, so rings that are not clean are not followed.

### Cluster

Servers are node ids, and a list of peers is the length of the prefix of the
final list it holds. `view` is the list a process was started with. Instead of
points and hashes a group has a walk: the order in which one meets the servers
clockwise from its hash. `Resolve` answers the first one in the list, which is what
`ResolveIsClosest` says of `Ring`. A call has a path: the servers that have passed it on
and the one that works on it. `Forward` and `ForwardFails` are the forwarding branches,
the same in `Add`, `BatchAdd` and `Query`; a forward may fail also to a server that
is up, because a pooled connection backs off after an error. `Take` and `TakeFails`
are one turn of `BatchAdd`'s loop, or all of `Add`, at the owner; `TakeUnheard` is the
turn in which the context ends while `ProposeAdd` waits and the node accepts the id
nevertheless. `Expire` ends the
client's wait and that of the servers on the way; the last handler goes on. A
crash of a server on the way does the same. Calls are numbered in the order in which
they are made, which leaves out nothing since their jobs are free. `Drain` and `Exit` are `GracefulStop`. What
the Raft node accepted is in `pend` until `Apply`; a process that ends loses it.
`Rescale` is the change of replicas and `-peers` of `docs/deployment.md`, after which
every process that starts has the new list and the new server may start.
Requests without a group, answered before anything else happens, are left out.

### FrontEnd

`step` is the main goroutine: restore, listen, register the gateway, wait, and after
SIGTERM `GracefulStop`, the two `Shutdown`s, the deferred `cancel` and `srv.Close`
(one step), `node.Stop` and `st.Close`. `Listen` may fail and end `run` early; a port of
an HTTP server that is taken is only logged, so that listener stays closed.
`GracefulStop` waits for the handlers, that of a reflection stream included. A
`Shutdown` waits for HTTP requests and probes or for `Deadline`, the five seconds both
share.

A call has a job: HTTP or gRPC, its method, and the groups its URL and its body
name. Over HTTP it goes through `RequestAdd`, `RequestBatchAdd` or `RequestQuery`, which
build the message in two steps, each of which may end in `InvalidArgument`: the body
is decoded (`DecodeBody`) and the group of the URL put over what it says
(`PathGroup`), or, for a query, the URL first and then the query string without its
group (`QueryParameters`). `Invoke` is the client stub on the gateway's connection; it
may return an error also while the gRPC server is open, because the message does not
encode or the connection breaks. Over gRPC the call arrives at `Decode`, the generated
method handler, where a message that is too large or does not decode is answered
without reaching the interceptor (route "undecoded"). Then the handler refuses the
call, forwards it or serves it, counts in its deferred function (`Return`)
and hands over to the interceptor, which counts once more (`Intercept`). `Deliver`
gives the client the status.

An id has three moments: the handler gives it to the node (`Send`), the goroutine of
`Run` has it accepted (`Accept`), and the handler hears of it (`Propose`). The context may
end before or after the first two: `ProposeFails` counts an error, and the node may
still accept the id afterwards. The election is one step, and before it nothing is
accepted. `ClientGone` ends the context: the gateway gives up, a handler goes on until
it looks. `probe` is a request to `/readyz` or `/metrics`, which may still run after a
`Shutdown` has given up, or a reflection stream, one of these at a time.

## Runs

| run | shows |
|---|---|
| `node` | two adds of three ids, a snapshot after every command, crashes, restarts and shutdowns anywhere: applied means persisted, the store only grows, the node refines `Shard`, the library never panics when a Ready carries all committed entries; a shutdown ends, and an accepted proposal is persisted unless the process ends |
| `node_faults` | one committed entry per Ready, a snapshot after every command, failing saves, machine crashes: engine and snapshot are exactly a prefix of the log, the snapshot index always grows, the store is never ahead of the engine and holds nothing nobody added |
| `hll_sketch` | any three four-bit hashes: registers are the textbook ones for the ids the bitmap holds, and an estimate is zero exactly for the empty sketch |
| `engine` | adds, commands with good and cut payloads, reads, failing saves, crashes: acknowledged means persisted, saves never go back, a read of all groups is one moment, a capped scrape shows the largest groups and reports the rest, refinement of `Shard` |
| `ring` | every hash assignment, with collisions and repeated peers: closest member, growth moves groups to the newcomer only, a leave moves only its own groups, and without collisions the ring depends on its members only |
| `cluster` | two servers that become three, two of them stopped or killed: no call goes round, ids only at owners, acknowledged batches are held, counts of a group that keeps its owner never go back, stopping servers stop |
| `front_end` | two calls and a probe or reflection stream through start, service and shutdown: the group of the URL decides what becomes of a call, OK means every id was accepted, the counters of the handlers, of the interceptor and of forwards fit the calls, those of proposals account for every id the node accepted, nothing is closed under a handler, SIGTERM ends the process once no reflection stream is open |

Five runs expect a violation. Each checks a statement of the repository that the
code does not keep; the details are in `findings` of `PROJECT.json`.

| run | statement | what happens |
|---|---|---|
| `node_save_error` | "every applied entry was persisted" | a failed save is logged and the entry counted |
| `node_host_crash` | "Raft log provides durability" | the log is in memory, so unsynced writes die with the machine |
| `node_early_ack` | registers are "committed synchronously to BadgerDB" before the response | the response follows the acceptance of the proposal |
| `node_snapshot_cut` | a snapshot discards "old log entries" | it discards the new ones too; the library panics when it reads them |
| `cluster_growth` | sharding is "completely transparent to external clients", and nodes are added by changing `-peers` | the new owner of a group that moves starts from nothing |

### Bounds

Ids are 1, 6 and 9, their own four-bit hashes with one bit for the register: 1
and 6 share register 0 with different ranks, 9 selects register 1. In `node_faults`
three calls are enough for a proposal in the channel, one in flight and one in
the log at once; `node`, whose safety properties are proved for any number of
calls, has two because it checks liveness. Every call is made at most once, so
restarts are bounded only by the calls left. `ProposeCap`, `SnapshotThreshold` and `PageLimit` are one or two, so that the
full channel, the second snapshot and the partial page all happen. Calls, engine
operations, sketch handles and ring nodes are interchangeable, hence the
symmetry; runs with liveness use none. In `HllSketch` at most `MaxIds` hashes are in
play at once, three, so that one register can hold two of them beside the other's. In `Ring`, `MaxPoints` bounds repeated `AddNode` calls, and the run may
stop there; six points are the least on which three members of two virtual
nodes are free of collisions.

`engine` has ids 1 and 9, two groups, three goroutines with one program each, and
one good and one bad payload of each kind; the merged sketch is of both ids, and
the cap of the collector is one group. `cluster` has one group, with the two
walks that matter: the group stays with server 1, or moves from it to server 3.
Groups do not interact, and a group of server 2 is the same up to names. One id
was counted before, so two calls are enough for two queries in a row, and for a
query beside a batch; the batch has that id and a new one and can stop between
them.
`MaxEnds` is two, so that two servers of a chain can be stopped, or the owner dies
after it has restarted. Both cluster runs may stop when the calls and the ends are used up.

`front_end` has two calls, batches of two ids, and four jobs that between them take
both ways in, all methods, all three routes, and a body that names another group
than the URL. Two calls are what the counters need: one between the two layers
while another is counted, and an id that is accepted late beside one that is waited
for. Calls are numbered in the order of their arrival. The process ends, so the run
may stop.

### Fairness

`Fairness` in `RaftNode` gives weak fairness to goroutines that have work and
nothing to wait for, and strong fairness to the cases of `Run`'s `select` and to
senders of `proposeC`: Go's `select` picks at random among the ready cases, and
waiting senders are served in order. Elections are fair because the ticker runs.
Client calls, signals, crashes, restarts and timeouts are never forced. In
`Cluster` only two things are: while some handler can go on, one does, and
`GracefulStop` returns when the handlers have. In
`FrontEnd`, while the main goroutine, the Raft node or a handler can go on, one
of them does: a peer answers or its connection breaks, and the timer of `Shutdown`
fires. Nothing is assumed of HTTP requests, whose bodies may never come, nor of
probes and reflection streams: `ShutdownEnds` therefore starts from a moment of
`GracefulStop` at which no such stream is open.

## Proofs

For every set of groups, ids and calls, every hash, capacity, threshold and page
limit (`RaftNodeProofs`, `EngineStateProofs`):

* `TypeCorrect`: `TypeOK` always. It is not inductive alone; `Inv` adds `LogInv`
  (indices lie within the log, the loop stands where it should in it, and a
  command about to be persisted is in the engine) and `ReqInv` (only calls that
  were made are in the channel, in flight or accepted).
* `StoreWithin`: `StoreWithinEngine` always, under all faults. `DataSteps` reduces the
  twenty-odd actions to the four that touch data.
* `StoreMonotone`: `StoreNeverShrinks`, if the machine survives.
* `AppliedPersisted`: `AppliedIsPersisted` always, if the machine survives and saves
  succeed. The runs `node_host_crash` and `node_save_error` show that neither
  assumption can go.
* `NoPhantom`: `StoreHasNoPhantom` always, under all faults. `AllExplained` says of the
  engine, the store and its synced copy alike that every nonzero register comes
  from a pair that was asked for.
* `Refinement`: the node implements `Shard`, if the machine survives. The extra
  invariant `AskInv` says that the log holds only what was asked.
* `EnginePrefix`, `SnapshotPrefix`: `EngineIsLogPrefix` and `SnapshotIsLogPrefix` always,
  under all faults. `PrefixInv` states both for the loop's own cursor, which runs
  ahead of `appliedIdx` within a `Ready`; it needs `CommandInv` (commands begin at the
  third entry, and `appliedIdx` is 0 or just before the cursor) and `DownInv` (what a
  process that is down has in memory).
* `SnapshotGrows`: `SnapshotIndexGrows` always, because a positive `snapCount` means that
  `appliedIdx` has passed the last snapshot.
* `NeverPanicsUnpaged`: `NeverPanics` if `PageLimit = 0`. `PageInv` says that then
  everything stored is applied when a snapshot is taken. The run
  `node_snapshot_cut` shows that the assumption cannot go.
* `AddRepresents`, `MergeRepresents`, `SketchIsUnique`: a sketch is determined by the
  set of ids that went into it, and add and merge compute it.

For any number of goroutines, any groups, ids, commands, names, estimates and cap,
with failing saves and crashes (`EngineControl`, `EngineProofs`):

* `TypeCorrect`: `TypeOK` always. `Control` says who holds the lock: the writer is the
  goroutine that stands in a write operation or in its save, the readers are those
  in a read, and there is no reader beside a writer. `ProgramCalls` is what it needs
  of the handlers: whatever the payload, a command makes calls with ids or
  sketches, and a save comes last. That a capped page is well formed rests on
  `SliceIsSorted`: the order is strict and total and `Finite` says that there are
  finitely many groups, so ranks are an injection into as many places and every
  place is taken. The steps of all other operations are proved from `CollectOk`, what a
  page must be, and only `Collect` itself needs the theory of finite sets; hence the
  invariant `EngineInv` is `CoreInv` (`Control`, `Data`, `Reads`) with `Finite`.
* `AcknowledgedIsPersisted`, `SavesOnlyRaise`: `AckedIsPersisted` and `SavesNeverGoBack`. The
  invariant is `Data`: a serving engine is never behind the store, a loading one has
  nothing else, the calls a program has made are still in the engine, and the
  bytes about to be saved are those of the engine as it is. The last holds because
  only the writer changes the engine, and a goroutine at its save is the writer.
* `ReadsAreOneMoment`, `CapShowsLargest`: `ReadIsOneMoment` and `CapKeepsLargest`. `Reads` says
  that a goroutine which has not read has nothing, so the first group it reads is
  not beside older ones, and that a page fits what was read.
* `EngineRefinement`: the callers of the engine implement `Shard`, if every sketch that a
  command merges is the sketch of some ids (`MergesRepresent`). The code does not
  check this of a payload; a sketch that was made by adding ids has it.

For any width of the hash, any precision below it and any number of sketches
(`HllSketchProofs`); the code has 64 and 14:

* `AddFindsRegisterAndRank`: what `sketch.Add` computes with shifts, a mask and
  `LeadingZeros64` is the register that the top bits spell and the place of the first
  1 among the others, or one past the last. The binary digits of a number determine
  it (`IdxIsSelected`), and the mask ends the count of leading zeros at the right
  place when the other bits are all 0 (`RhoIsFirstOne`).
* `HashesFitSketches`: the register number is in range and the rank between 1 and the
  number of remaining bits plus one. These are the assumptions of `Sketch`, on which
  the theorems about the node and the engine rest.
* `RegistersHoldMaximalRanks`: `RegistersAreMaximalRanks` always. The invariant `SketchInv`
  says in addition that every handle points to memory of its own and that the bytes
  on the wire hold the ranks of the ids that were in the bitmap when it was
  serialised, so a sketch that is parsed later is right although both have changed.
* `EmptyCountsAsZero`: `EmptyCountsZero` always. An empty sketch has a raw estimate of
  about 0.72 times the number of registers, below the threshold, so linear counting
  answers 0. One with ids answers at least 1: in linear counting because not all
  registers are zero; in the raw formula because either the quotient is above the
  threshold, or no register is zero and the sum of the powers is at most half the
  number of registers (`SumBetween`).

`Pow2` is a recursive function, and that it satisfies its equation is proved from the
existence of a solution on every initial segment (`PowEquation`); so is the sum over
the registers, which `FiniteSetsExt` folds in an order it does not name.

For any nodes, virtual nodes, points and hashes (`RingProofs`):

* `TypeCorrect`, `RingHoldsItsMembers`: the ring is sorted and, while it is clean, holds
  the points of its members. `RingIsItsMembers` is not inductive: `RemoveNode` could
  drop a point that another member shares. `SharedIsRepeated` says that a shared point
  is on the ring twice, which is what `clean` looks at. The sort is again taken by
  ranks.
* `GroupsGoToTheClosest`: the point `sort.Search` finds, or the first one past the end,
  is the closest clockwise.
* `GrowthIsLocal`, `RemovalIsLocal`: action properties, with or without collisions.

For any number of servers, groups, walks, calls, jobs and crashes (`ClusterProofs`):

* `TypeCorrect`, `CallsAreNotPassedRound`, `IdsRestWithOwners`, `AcknowledgedIsHeld`,
  `ReadsDoNotGoBack`. `ClusterInv` has a variant for the loop: along the path of a call
  the servers come earlier and earlier on the walk from the group's hash
  (`PathsDescend`), since a longer list can only bring an owner that the walk meets
  sooner, and a server with the shorter list forwards to one that has started
  already. `TakenIsHeld` follows a batch id by id and `SeenIsStored` says that what a
  query answered is persisted.

For any number of calls, any jobs and any batch length (`FrontEndProofs`):

* `UrlNamesGroupTheorem`, `StopsAfterHandlersTheorem`. The invariant `IInv` follows a
  call: between gateway and handler its message comes to have the group its client
  named (`GroupOk`), a status OK anywhere on its way means all ids are known accepted,
  and a handler runs only between `listen` and the end of `GracefulStop`, on the early
  end of `run` too (`CallOk`).
* `OkMeansAcceptedTheorem`. That the node itself accepted them needs `InTurn`: a handler
  gives one id at a time, the node accepts only what it was given, and a handler
  hears only of what was accepted.
* `LayersAgreeTheorem`, `BatchIsOneRequestTheorem`, `AttemptsToldApartTheorem`, `TypeCorrect`.
  Every counter is the size of a set of calls, or of ids of calls, that only grows
  (`Tally`); `Kind` reduces the actions to the ways one call can move, and each raises a
  counter exactly when its set gains an element. The three properties are then
  about unions of disjoint sets.
* `ProposalsExplainedTheorem`. The ids counted as successes are among the accepted
  ones; any other accepted id is the one after those its call knows of, so each such
  call accounts for one at most, and it either waits or has been counted as an error.

What needs induction over numbers, as the place of a point in a sorted sequence
does, is proved from the least counterexample (`LeastNat`), which the library's
theorems on well-founded relations give without an operator parameter.

The assumptions are the named `ASSUME`s of the modules. `Sketch`, `RaftNode`: ranks and
register numbers are in range, capacities and the threshold are positive, the
two entries of the library are not commands. `HllHash`: the precision is at least 1 and less
than the width. `HllSketch`: the rounded logarithm of linear counting is 0 exactly when all
registers are zero. `Engine`: names differ, estimates are
numbers, commands are well formed. `Ring`: there is a point and a virtual node.
`Cluster`: a walk meets every server once, a query carries no ids, and the bounds are
numbers. `FrontEnd`: a
batch has an id, there are finitely many calls, and the three kinds of group
differ.

Model-checked only: liveness (`ShutdownCompletes`, `AcceptedIsEventuallyStored`, `DrainEnds`,
`ShutdownEnds`), because the prover does not handle fairness. Every safety invariant
and action property that a passing run checks is also a theorem.

## Also noticed

Met while modelling, without a run of their own:

* `interceptor.go:25` and `metrics.go:76` say the transport counters include calls that
  never reach a handler. The generated method handlers return on a message that
  does not decode before they call the interceptor, so `Decode` counts nothing.
  `LayersAgree` allows both.
* A proposal whose context ends while it waits is counted as an error and answered
  with one, and the node may accept its id all the same. The ids a node holds are
  therefore more than its successes, by at most its errors and the calls that wait.
* `GracefulStop` has no deadline: a client that keeps a reflection stream open
  (`reflection.Register`) keeps the process from ending.
* `/readyz` answers 200 during `GracefulStop`, when the gRPC port takes no new calls:
  the gateway then answers `Unavailable`.
* `collector.go:126` says a wedged event loop shows in `/readyz` and in the metrics.
  `Node.Status` asks the library's goroutine, which goes on when `Run` is stuck.
* The estimate of a group can fall when an id fills its last zero register, since
  linear counting gives way to the raw formula. `MonotoneReads` is therefore about
  the ids a count stands for.

## Plan

Two groups at once in `Cluster`, and how far the estimate of `HllEstimate` can fall when
linear counting gives way to the raw formula.

## Not modelled

How close the estimate is to the number of ids; murmur3, which is an arbitrary
function; the roaring64 library, which is a set; gob, JSON and protobuf encodings,
taken to be lossless where they succeed; the generated message types
(`cardinality.pb.go`, `command.pb.go`), which have no behaviour of their own, and the
parts of the generated gateway nothing calls (`local_request_...`,
`RegisterCardinalityServiceHandlerServer`); `BadgerStore.Load` and `SetDialOptions`, which
only tests call; durations, the counter of failed saves, and log lines; Raft terms,
and groups of more than one member, which the server never forms.
