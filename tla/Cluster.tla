------------------------------ MODULE Cluster ------------------------------
(***************************************************************************)
(* The servers of one deployment and the gRPC calls between them           *)
(* (internal/server/grpc.go, cmd/server/main.go).  Every process has read  *)
(* its -peers flag when it started, resolves a group's owner on its own    *)
(* ring, and passes a call for another owner on to that server.  Servers   *)
(* crash, are told to stop and start again; while the list of peers grows, *)
(* processes with the old and with the new list serve side by side.        *)
(*                                                                         *)
(* Servers are their node ids, the positions of their addresses in -peers. *)
(* A ring enters through the order in which a walk clockwise from the      *)
(* group's hash meets the servers: Resolve answers the first that is in    *)
(* the ring (property ResolveIsClosest of module Ring).  What a server     *)
(* does with an id it takes is reduced to: pending in its Raft node, then  *)
(* applied and persisted (module RaftNode).                                *)
(***************************************************************************)
EXTENDS Naturals, Sequences, FiniteSets, Functions

CONSTANTS
  N,       \* servers once the deployment has grown
  Old,     \* servers before that
  Walk,    \* the orders in which a walk round the ring may meet the servers
  Group,
  Id,
  Counted, \* the pairs counted before
  Calls,   \* bound: calls of clients
  Job,     \* what a call may ask: [kind, group, ids]
  MaxEnds  \* bound: how often a process crashes or is told to stop

ASSUME SizeAssumption == N \in Nat /\ Old \in 1 .. N
ASSUME WalkAssumption == Walk \subseteq Bijection(1 .. N, 1 .. N)
ASSUME CountedAssumption == Counted \subseteq Group \X Id
ASSUME BoundAssumption == MaxEnds \in Nat /\ Calls \in Nat
ASSUME JobAssumption ==
  /\ Job \subseteq [kind : {"Add", "BatchAdd", "Query"}, group : Group, ids : Seq(Id)]
  /\ \A j \in Job : j.kind = "Query" => j.ids = <<>>

Server == 1 .. N
Call == 1 .. Calls   \* in the order in which they are made
NoJob == [kind |-> "none"]

VARIABLES
  clockwise,   \* the servers in the order they are met from a group's hash
  peers,       \* length of the -peers list the deployment now states
  proc,        \* per server: down, up, or draining
  view,        \* per server: length of the -peers list it was started with
  pend,        \* per server: pairs its Raft node accepted and has not applied
  count,       \* per server: pairs applied and persisted
  job,         \* per call: what it asks
  path,        \* per running call: the servers it has come through, in order
  live,        \* per call: whether the handler of the last of them runs
  taken,       \* per running call: how many of its ids were accepted
  answer,      \* per call: the ids a query's answer counts
  res,         \* per call: what its client has got: none, ok or error
  seen,        \* history: ids answered before the query began
  lost,        \* history: pairs accepted by a process that ended too early
  ends         \* history: how many processes crashed or were told to stop

serverVars == <<peers, proc, view, ends>>
dataVars == <<pend, count, lost>>
callVars == <<job, path, live, taken, answer, res, seen>>
vars == <<clockwise, serverVars, dataVars, callVars>>

-----------------------------------------------------------------------------
(* Routing.                                                                *)

\* Faulty variant: the hash modulo the number of peers.
ResolveModulo(v, g) == 1 + (clockwise[g][1] % v)

\* Ring.Resolve on the ring of the first v peers.
Resolve(v, g) ==
  clockwise[g][CHOOSE k \in 1 .. N :
                 clockwise[g][k] <= v /\ \A j \in 1 .. k - 1 : clockwise[g][j] > v]

\* The owner as server n sees it; without an address of its own in the list
\* it serves every group itself.
Owner(n, g) == IF n > view[n] THEN n ELSE Resolve(view[n], g)

At(c) == path[c][Len(path[c])]
GroupOf(c) == job[c].group
IsLocal(c) == Owner(At(c), GroupOf(c)) = At(c)

\* A handler of n works on call c, or waits for the server after it.
Works(n, c) == live[c] /\ n = At(c)
Busy(n, c) == Works(n, c) \/ (live[c] /\ res[c] = "none" /\ n \in Range(path[c]))

-----------------------------------------------------------------------------
\* The servers of the first list serve, with what was counted before.
Init ==
  /\ clockwise \in [Group -> Walk]
  /\ peers = Old /\ ends = 0
  /\ proc = [n \in Server |-> IF n <= Old THEN "up" ELSE "down"] /\ view = [n \in Server |-> Old]
  /\ pend = [n \in Server |-> {}] /\ lost = {}
  /\ count = [n \in Server |-> {p \in Counted : Resolve(Old, p[1]) = n}]
  /\ job = [c \in Call |-> NoJob] /\ path = [c \in Call |-> <<>>]
  /\ live = [c \in Call |-> FALSE] /\ taken = [c \in Call |-> 0]
  /\ answer = [c \in Call |-> {}] /\ seen = [c \in Call |-> {}]
  /\ res = [c \in Call |-> "none"]

\* The replicas and -peers are changed together.
Rescale ==
  /\ peers = Old /\ Old < N
  /\ peers' = N
  /\ UNCHANGED <<clockwise, proc, view, ends, dataVars, callVars>>

\* Faulty variant: the store is not loaded.
StartEmpty(n) ==
  /\ proc[n] = "down" /\ n <= peers
  /\ proc' = [proc EXCEPT ![n] = "up"]
  /\ view' = [view EXCEPT ![n] = peers]
  /\ count' = [count EXCEPT ![n] = {}]
  /\ UNCHANGED <<clockwise, peers, ends, pend, lost, callVars>>

\* Faulty variant: the list is read up to the server's own address.
StartOwnPrefix(n) ==
  /\ proc[n] = "down" /\ n <= peers
  /\ proc' = [proc EXCEPT ![n] = "up"]
  /\ view' = [view EXCEPT ![n] = n]
  /\ UNCHANGED <<clockwise, peers, ends, dataVars, callVars>>

\* run: load the store, build the ring from the flag, serve.
Start(n) ==
  /\ proc[n] = "down" /\ n <= peers
  /\ proc' = [proc EXCEPT ![n] = "up"]
  /\ view' = [view EXCEPT ![n] = peers]
  /\ UNCHANGED <<clockwise, peers, ends, dataVars, callVars>>

\* What ends with the process: proposals that are not applied.
Ends(n) ==
  /\ proc' = [proc EXCEPT ![n] = "down"]
  /\ pend' = [pend EXCEPT ![n] = {}]
  /\ lost' = lost \cup pend[n]
  /\ UNCHANGED <<clockwise, peers, view, count>>

\* The process dies.  Who waits for one of its handlers gets an error; a
\* server it had passed a call on to goes on with it.
Crash(n) ==
  /\ proc[n] # "down" /\ ends < MaxEnds
  /\ Ends(n) /\ ends' = ends + 1
  /\ res' = [c \in Call |-> IF Busy(n, c) /\ res[c] = "none" THEN "error" ELSE res[c]]
  /\ live' = [c \in Call |-> live[c] /\ ~Works(n, c)]
  /\ path' = [c \in Call |-> IF Works(n, c) THEN <<>> ELSE path[c]]
  /\ taken' = [c \in Call |-> IF Works(n, c) THEN 0 ELSE taken[c]]
  /\ UNCHANGED <<job, answer, seen>>

\* SIGTERM: GracefulStop takes no new call ...
Drain(n) ==
  /\ proc[n] = "up" /\ ends < MaxEnds
  /\ proc' = [proc EXCEPT ![n] = "draining"] /\ ends' = ends + 1
  /\ UNCHANGED <<clockwise, peers, view, dataVars, callVars>>

\* ... and returns when the handlers have.
Exit(n) ==
  /\ proc[n] = "draining" /\ \A c \in Call : ~Busy(n, c)
  /\ Ends(n)
  /\ UNCHANGED <<ends, callVars>>

\* The Raft node applies an accepted id and persists the group.
Apply(n, p) ==
  /\ proc[n] # "down" /\ p \in pend[n]
  /\ pend' = [pend EXCEPT ![n] = @ \ {p}]
  /\ count' = [count EXCEPT ![n] = @ \cup {p}]
  /\ UNCHANGED <<clockwise, serverVars, lost, callVars>>

-----------------------------------------------------------------------------
(* Handlers: Add, BatchAdd and Query route alike.                          *)

Answered(g) ==
  UNION {answer[c] : c \in {d \in Call : res[d] = "ok" /\ GroupOf(d) = g}}

\* A client calls any server that serves.
Invoke(c, n, j) ==
  /\ job[c] = NoJob /\ (\A d \in 1 .. c - 1 : job[d] # NoJob) /\ proc[n] = "up"
  /\ job' = [job EXCEPT ![c] = j] /\ path' = [path EXCEPT ![c] = <<n>>]
  /\ live' = [live EXCEPT ![c] = TRUE]
  /\ seen' = [seen EXCEPT ![c] = IF j.kind = "Query" THEN Answered(j.group) ELSE {}]
  /\ UNCHANGED <<clockwise, serverVars, dataVars, taken, answer, res>>

\* The group is another server's: the call goes there.
Forward(c) ==
  /\ live[c] /\ ~IsLocal(c)
  /\ LET owner == Owner(At(c), GroupOf(c))
     IN  proc[owner] = "up" /\ path' = [path EXCEPT ![c] = Append(@, owner)]
  /\ UNCHANGED <<clockwise, serverVars, dataVars, job, live, taken, answer, res, seen>>

\* The handler returns, and with it every server that waits for it; the
\* client may have gone.
Reply(c, r) ==
  /\ live' = [live EXCEPT ![c] = FALSE]
  /\ path' = [path EXCEPT ![c] = <<>>] /\ taken' = [taken EXCEPT ![c] = 0]
  /\ res' = [res EXCEPT ![c] = IF @ = "none" THEN r ELSE @]

\* Faulty variant: the call waits until its owner can be reached.
ForwardWaits(c) ==
  /\ live[c] /\ ~IsLocal(c) /\ res[c] # "none"
  /\ Reply(c, "error")
  /\ UNCHANGED <<clockwise, serverVars, dataVars, job, answer, seen>>

\* It cannot be reached, or the connection is still in its back-off.
ForwardFails(c) ==
  /\ live[c] /\ ~IsLocal(c)
  /\ Reply(c, "error")
  /\ UNCHANGED <<clockwise, serverVars, dataVars, job, answer, seen>>

NextPair(c) == <<GroupOf(c), job[c].ids[taken[c] + 1]>>
MoreIds(c) == taken[c] < Len(job[c].ids)

\* Faulty variant: the routing condition is dropped.
TakeAnywhere(c) ==
  /\ live[c] /\ MoreIds(c)
  /\ pend' = [pend EXCEPT ![At(c)] = @ \cup {NextPair(c)}]
  /\ taken' = [taken EXCEPT ![c] = @ + 1]
  /\ UNCHANGED <<clockwise, serverVars, count, lost, job, path, live, answer, res, seen>>

\* addID at the owner: ProposeAdd returns nil once the Raft node accepted.
Take(c) ==
  /\ live[c] /\ IsLocal(c) /\ MoreIds(c)
  /\ pend' = [pend EXCEPT ![At(c)] = @ \cup {NextPair(c)}]
  /\ taken' = [taken EXCEPT ![c] = @ + 1]
  /\ UNCHANGED <<clockwise, serverVars, count, lost, job, path, live, answer, res, seen>>

\* Faulty variant: a batch skips an id that was refused.
TakeSkips(c) ==
  /\ live[c] /\ IsLocal(c) /\ MoreIds(c)
  /\ taken' = [taken EXCEPT ![c] = @ + 1]
  /\ UNCHANGED <<clockwise, serverVars, dataVars, job, path, live, answer, res, seen>>

\* ProposeAdd fails: the context ended.  A batch stops there.
TakeFails(c) ==
  /\ live[c] /\ IsLocal(c) /\ MoreIds(c)
  /\ Reply(c, "error")
  /\ UNCHANGED <<clockwise, serverVars, dataVars, job, answer, seen>>

\* The context ended while ProposeAdd waited for the result, and the Raft node
\* accepts the id nevertheless.
TakeUnheard(c) ==
  /\ live[c] /\ IsLocal(c) /\ MoreIds(c) /\ res[c] # "none"
  /\ pend' = [pend EXCEPT ![At(c)] = @ \cup {NextPair(c)}]
  /\ Reply(c, "error")
  /\ UNCHANGED <<clockwise, serverVars, count, lost, job, answer, seen>>

\* Add and BatchAdd answer when all ids are accepted.
Added(c) ==
  /\ live[c] /\ IsLocal(c) /\ job[c].kind # "Query" /\ ~MoreIds(c)
  /\ Reply(c, "ok")
  /\ UNCHANGED <<clockwise, serverVars, dataVars, job, answer, seen>>

\* Query counts what the engine of the owner holds.
Query(c) ==
  /\ live[c] /\ IsLocal(c) /\ job[c].kind = "Query"
  /\ answer' = [answer EXCEPT ![c] =
       {id \in Id : <<GroupOf(c), id>> \in count[At(c)]}]
  /\ Reply(c, "ok")
  /\ UNCHANGED <<clockwise, serverVars, dataVars, job, seen>>

\* The deadline of the call passes; the last handler does not notice.
Expire(c) ==
  /\ live[c] /\ res[c] = "none"
  /\ res' = [res EXCEPT ![c] = "error"]
  /\ UNCHANGED <<clockwise, serverVars, dataVars, job, path, live, taken, answer, seen>>

Handle(c) ==
  \/ Forward(c) \/ ForwardFails(c) \/ Take(c) \/ TakeFails(c) \/ TakeUnheard(c)
  \/ Added(c) \/ Query(c)

Next ==
  \/ Rescale
  \/ \E n \in Server :
       Start(n) \/ Crash(n) \/ Drain(n) \/ Exit(n) \/ \E p \in pend[n] : Apply(n, p)
  \/ \E c \in Call :
       Handle(c) \/ Expire(c) \/ \E n \in Server, j \in Job : Invoke(c, n, j)

Spec == Init /\ [][Next]_vars

\* As long as handlers can go on one of them does, and GracefulStop returns
\* when it can.  Nothing is assumed of clients, deadlines, crashes, starts or
\* Raft.
Fairness == WF_vars(\E c \in Call : Handle(c)) /\ WF_vars(\E n \in Server : Exit(n))

FairSpec == Spec /\ Fairness

-----------------------------------------------------------------------------
(* Properties.                                                             *)

\* Every variable keeps its type.
TypeOK ==
  /\ clockwise \in [Group -> Walk]
  /\ peers \in {Old, N} /\ ends \in 0 .. MaxEnds
  /\ proc \in [Server -> {"down", "up", "draining"}] /\ view \in [Server -> {Old, N}]
  /\ pend \in [Server -> SUBSET (Group \X Id)]
  /\ count \in [Server -> SUBSET (Group \X Id)] /\ lost \subseteq Group \X Id
  /\ job \in [Call -> Job \cup {NoJob}] /\ path \in [Call -> Seq(Server)]
  /\ live \in [Call -> BOOLEAN] /\ taken \in [Call -> Nat]
  /\ answer \in [Call -> SUBSET Id] /\ seen \in [Call -> SUBSET Id]
  /\ res \in [Call -> {"none", "ok", "error"}]

\* addID, BatchAdd and Query forward without a hop count, yet a call never
\* comes back to a server that passed it on, although servers with the old
\* and the new list of peers pass calls to one another.
NoForwardingLoop == \A c \in Call : IsInjective(path[c])

\* The lists of peers a process can have been started with so far.
Lists == {Old, peers}
Owners(g) == {Resolve(v, g) : v \in Lists}

\* The ids of a group are only ever at a server that a list made its owner,
\* whoever was called and whatever failed on the way.
StoredOnlyAtOwners ==
  \A n \in Server : \A p \in pend[n] \cup count[n] : n \in Owners(p[1])

\* An Add or BatchAdd that was answered with ok left each of its ids with an
\* owner, unless the process that took it ended before applying it.
AckedIsHeld ==
  \A c \in Call :
    res[c] = "ok" => \A id \in Range(job[c].ids) :
      LET p == <<GroupOf(c), id>>
      IN  p \in lost \/ \E n \in Owners(GroupOf(c)) : p \in pend[n] \cup count[n]

Reads(c) == res[c] = "ok" /\ job[c].kind = "Query"

\* As long as the group has one owner, through crashes and restarts, and
\* through a change of peers that does not move the group, no query counts
\* less than one that was answered before it began, at whatever servers.
MonotoneReads ==
  \A c \in Call :
    (Reads(c) /\ \A n, m \in Owners(GroupOf(c)) : n = m) => seen[c] \subseteq answer[c]

\* GracefulStop returns: servers that are stopped in any order, each waiting
\* for calls it passed on to the next, all come to an end.
DrainEnds == []<>(\A n \in Server : proc[n] # "draining")

\* "This makes sharding completely transparent to external clients": adding
\* a server as documented does not take counts back.
TransparentGrowth == \A c \in Call : Reads(c) => seen[c] \subseteq answer[c]
=============================================================================
