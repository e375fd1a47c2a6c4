------------------------------ MODULE FrontEnd ------------------------------
(***************************************************************************)
(* One server process as its clients and its operators see it: the three   *)
(* listeners that run() of cmd/server/main.go opens and closes, the HTTP   *)
(* gateway and the gRPC stubs of gen/cardinality/v1, the interceptor and   *)
(* the handlers of internal/server with the counters they keep, /readyz    *)
(* and /metrics.                                                           *)
(*                                                                         *)
(* What the Raft node does with an id is module RaftNode, what happens at  *)
(* a peer is module Cluster: here the node accepts ids once it leads, and  *)
(* a peer answers with some status.  A context that ends is the client     *)
(* going away.                                                             *)
(***************************************************************************)
EXTENDS Naturals, Sequences, FiniteSets

CONSTANTS
  Calls,      \* bound: calls of clients, over HTTP or gRPC
  Job,        \* what a call may ask
  Local,      \* a group this server owns
  Remote,     \* a group of a peer
  NoGroup,    \* the empty group name
  BatchLen    \* number of ids of a BatchAdd

Call == 1 .. Calls   \* in the order in which they arrive
Method == {"Add", "BatchAdd", "Query"}
Group == {Local, Remote, NoGroup}
\* Of the status codes; Unavailable stands for whatever a stub or a peer that
\* does not take the call ends it with, Canceled and DeadlineExceeded included.
Code == {"OK", "InvalidArgument", "Internal", "Unavailable"}

\* A job: whether it comes over HTTP, its method, the group in the URL, and
\* the group in the body (a gRPC message, a JSON body or a query string).
Jobs == [http : BOOLEAN, method : Method, url : Group, body : Group]
NoJob == [method |-> "none", http |-> FALSE]

ASSUME GroupAssumption == Cardinality(Group) = 3
ASSUME JobAssumption == Job \subseteq Jobs /\ BatchLen \in Nat \ {0} /\ Calls \in Nat

VARIABLES
  step,      \* what the main goroutine does
  leader,    \* the Raft node has been elected
  lis,       \* the listeners, of http and metrics, that were opened
  expired,   \* the five seconds of the two Shutdowns have passed
  probe,     \* a request to /readyz or /metrics or a reflection stream, one at
             \* a time: none, or the listener that has taken it
  job,       \* per call: what it asks
  stage,     \* per call: where it is in this process
  group,     \* per call: the group of the message
  route,     \* per call: none, undecoded, or what its handler made of it:
             \* refused, peer, self
  code,      \* per call: the status its handler returns
  sent,      \* per call: how many of its ids were given to the Raft node
  accepted,  \* per call: how many of them the Raft node has accepted
  taken,     \* per call: how many its handler, or the peer, knows accepted
  res,       \* per call: the status its client has got
  count      \* the counters of internal/server/metrics.go

mainVars == <<step, leader, lis, expired>>
idVars == <<sent, accepted, taken>>
callVars == <<job, stage, group, route, code, idVars, res>>
vars == <<mainVars, probe, callVars, count>>
-----------------------------------------------------------------------------
(* The main goroutine, run().                                              *)

\* Faulty variant: the node is stopped before the servers are drained.
StepsNodeFirst ==
  <<"restore", "listen", "gateway", "wait", "node.Stop", "GracefulStop",
    "http.Shutdown", "metrics.Shutdown", "close", "st.Close", "exit">>

\* What run() does in order, the deferred calls in reverse: "close" is cancel
\* and srv.Close, which close the connections to the gRPC port and to peers.
Steps ==
  <<"restore", "listen", "gateway", "wait", "GracefulStop", "http.Shutdown",
    "metrics.Shutdown", "close", "node.Stop", "st.Close", "exit">>

Place == [s \in {Steps[i] : i \in 1 .. Len(Steps)} |->
            CHOOSE i \in 1 .. Len(Steps) : Steps[i] = s]
Reached(s) == Place[step] >= Place[s]
Past(s) == Place[step] > Place[s]

Running == step # "exit"
NodeUp == Past("restore") /\ ~Past("node.Stop")
\* The gRPC server takes new calls; the two HTTP servers take new requests.
GrpcOpen == Past("listen") /\ ~Reached("GracefulStop")
HttpOpen == "http" \in lis /\ ~Reached("http.Shutdown")
MetricsOpen == "metrics" \in lis /\ ~Reached("metrics.Shutdown")

\* An RPC is handled, or an HTTP request is being served, in this process.
RpcBusy(c) ==
  stage[c] \in {"decode", "handler", "peer", "self", "return", "intercept"}
HttpBusy(c) == job[c].http /\ res[c] = "none"

Init ==
  /\ step = "restore" /\ leader = FALSE /\ expired = FALSE
  /\ lis = {} /\ probe = "none"
  /\ job = [c \in Call |-> NoJob] /\ stage = [c \in Call |-> "new"]
  /\ group = [c \in Call |-> NoGroup] /\ route = [c \in Call |-> "none"]
  /\ code = [c \in Call |-> "OK"] /\ taken = [c \in Call |-> 0]
  /\ sent = [c \in Call |-> 0] /\ accepted = [c \in Call |-> 0]
  /\ res = [c \in Call |-> "none"]
  /\ count = [requests |-> [k \in Method \X {"success", "error"} |-> 0],
              grpc |-> [k \in Method \X Code |-> 0],
              forwarded |-> [m \in Method |-> 0],
              failed |-> [m \in Method |-> 0],
              proposals |-> [s \in {"success", "error"} |-> 0],
              batches |-> 0]

GoOn(s) ==
  /\ step = s
  /\ step' = Steps[Place[s] + 1]
  /\ UNCHANGED <<leader, lis, expired, probe, callVars, count>>

\* LoadAll, NewNode, the collectors and server.New.
Restored == GoOn("restore")

\* net.Listen and gs.Serve, or the error that ends run(): what was deferred
\* so far is done.
Listen ==
  \/ GoOn("listen")
  \/ /\ step = "listen" /\ step' = "close"
     /\ UNCHANGED <<leader, lis, expired, probe, callVars, count>>

\* RegisterCardinalityServiceHandlerFromEndpoint: a connection to the gRPC
\* port, closed when its context is cancelled.  NewClient refuses only targets
\* that do not parse, so its error is not taken.
Register == GoOn("gateway")

\* The goroutines of the HTTP servers.  A port that is taken is only logged:
\* the listener then never opens.
ListenAndServe ==
  /\ step = "wait" /\ lis = {}
  /\ lis' \in {{"http"}, {"metrics"}, {"http", "metrics"}}
  /\ UNCHANGED <<step, leader, expired, probe, callVars, count>>

\* SIGTERM.
Signal == GoOn("wait")

\* Faulty variant: gs.Stop does not wait.
HardStop == GoOn("GracefulStop")

\* gs.GracefulStop returns when no handler runs, that of a reflection stream
\* included.
GracefulStop ==
  /\ probe # "grpc" /\ \A c \in Call : ~RpcBusy(c)
  /\ GoOn("GracefulStop")

\* httpSrv.Shutdown and metricsSrv.Shutdown wait for the requests being
\* served, or until the context they share ends.
HttpShutdown ==
  /\ expired \/ (probe # "http" /\ \A c \in Call : ~HttpBusy(c))
  /\ GoOn("http.Shutdown")
MetricsShutdown ==
  /\ expired \/ probe # "metrics"
  /\ GoOn("metrics.Shutdown")

Deadline ==
  /\ step \in {"http.Shutdown", "metrics.Shutdown"} /\ ~expired
  /\ expired' = TRUE
  /\ UNCHANGED <<step, leader, lis, probe, callVars, count>>

\* The deferred cancel, srv.Close, node.Stop and st.Close.
Deferred == \E s \in {"close", "node.Stop", "st.Close"} : GoOn(s)

\* The single member of the Raft group elects itself.
Elect ==
  /\ NodeUp /\ ~leader
  /\ leader' = TRUE
  /\ UNCHANGED <<step, lis, expired, probe, callVars, count>>

-----------------------------------------------------------------------------
(* Probes and reflection.                                                  *)

ProbeBegin ==
  /\ probe = "none"
  /\ \/ HttpOpen /\ probe' = "http"
     \/ MetricsOpen /\ probe' = "metrics"
     \/ GrpcOpen /\ probe' = "grpc"
  /\ UNCHANGED <<mainVars, callVars, count>>

\* ReadyzHandler and the collectors answer, and their request may still run
\* when run() has gone on to the deferred calls; ServerReflectionInfo lasts
\* as long as its client likes.
ProbeEnd ==
  /\ Running /\ probe # "none"
  /\ probe' = "none"
  /\ UNCHANGED <<mainVars, callVars, count>>
-----------------------------------------------------------------------------
(* The gateway and the gRPC stubs.                                         *)

Move(c, s) == stage' = [stage EXCEPT ![c] = s]

\* The client gets its answer, unless it has gone.
Answer(c, r) ==
  /\ Move(c, "end")
  /\ res' = [res EXCEPT ![c] = IF @ = "none" THEN r ELSE @]

Arrives(c) == stage[c] = "new" /\ \A d \in 1 .. c - 1 : stage[d] # "new"

HttpArrive(c, j) ==
  /\ Arrives(c) /\ j.http /\ HttpOpen
  /\ job' = [job EXCEPT ![c] = j] /\ Move(c, "gateway")
  /\ UNCHANGED <<mainVars, probe, group, route, code, idVars, res, count>>

GrpcArrive(c, j) ==
  /\ Arrives(c) /\ ~j.http /\ GrpcOpen
  /\ job' = [job EXCEPT ![c] = j] /\ group' = [group EXCEPT ![c] = j.body]
  /\ Move(c, "decode")
  /\ UNCHANGED <<mainVars, probe, route, code, idVars, res, count>>

\* The three steps that make a message.  The body does not decode, or it
\* does, an empty body being the empty message, and replaces all fields.
DecodeBody(c, from, to) ==
  /\ stage[c] = from
  /\ \/ Answer(c, "InvalidArgument") /\ UNCHANGED group
     \/ /\ group' = [group EXCEPT ![c] = job[c].body]
        /\ Move(c, to) /\ UNCHANGED res

\* The group of the URL is put in place of any other.
PathGroup(c, from, to) ==
  /\ stage[c] = from
  /\ group' = [group EXCEPT ![c] = job[c].url]
  /\ Move(c, to) /\ UNCHANGED res

\* The query string does not parse, or the fields it names are set, except
\* for the group, which the filter leaves out.
QueryParameters(c, from, to) ==
  /\ stage[c] = from
  /\ \/ Answer(c, "InvalidArgument")
     \/ Move(c, to) /\ UNCHANGED res
  /\ UNCHANGED group

InGateway(c, m) == Running /\ job[c].method = m

\* Faulty variant: the body is decoded over the group of the URL.
RequestAddPathFirst(c) ==
  /\ InGateway(c, "Add")
  /\ PathGroup(c, "gateway", "params") \/ DecodeBody(c, "params", "stub")
  /\ UNCHANGED <<mainVars, probe, job, route, code, idVars, count>>

RequestAdd(c) ==
  /\ InGateway(c, "Add")
  /\ DecodeBody(c, "gateway", "params") \/ PathGroup(c, "params", "stub")
  /\ UNCHANGED <<mainVars, probe, job, route, code, idVars, count>>

RequestBatchAdd(c) ==
  /\ InGateway(c, "BatchAdd")
  /\ DecodeBody(c, "gateway", "params") \/ PathGroup(c, "params", "stub")
  /\ UNCHANGED <<mainVars, probe, job, route, code, idVars, count>>

\* A query has no body, and the URL comes first.
RequestQuery(c) ==
  /\ InGateway(c, "Query")
  /\ PathGroup(c, "gateway", "params") \/ QueryParameters(c, "params", "stub")
  /\ UNCHANGED <<mainVars, probe, job, route, code, idVars, count>>

\* client.Add, BatchAdd or Query over the gateway's connection: the gRPC
\* server takes the call, or the stub returns an error: the message cannot be
\* encoded, the connection breaks or the server takes no more calls.
Invoke(c) ==
  /\ Running /\ stage[c] = "stub"
  /\ \/ GrpcOpen /\ Move(c, "decode") /\ UNCHANGED res
     \/ Answer(c, "Unavailable")
  /\ UNCHANGED <<mainVars, probe, job, group, route, code, idVars, count>>

\* _CardinalityService_..._Handler: a message that is too large or does not
\* decode is answered before the interceptor is called; Internal stands for
\* both.
Decode(c) ==
  /\ stage[c] = "decode"
  /\ \/ Move(c, "handler") /\ UNCHANGED <<route, res>>
     \/ route' = [route EXCEPT ![c] = "undecoded"] /\ Answer(c, "Internal")
  /\ UNCHANGED <<mainVars, probe, job, group, code, idVars, count>>

\* ForwardResponseMessage or HTTPError, and the reply of an RPC.
Deliver(c) ==
  /\ Running /\ stage[c] = "reply"
  /\ Answer(c, code[c])
  /\ UNCHANGED <<mainVars, probe, job, group, route, code, idVars, count>>

\* The client goes away and its context ends.  The gateway gives up; a
\* handler of the gRPC server goes on until it looks at its context.
ClientGone(c) ==
  /\ Running /\ stage[c] # "new" /\ res[c] = "none"
  /\ res' = [res EXCEPT ![c] = "Canceled"]
  /\ stage' = [stage EXCEPT ![c] = IF RpcBusy(c) THEN @ ELSE "end"]
  /\ UNCHANGED <<mainVars, probe, job, group, route, code, idVars, count>>
-----------------------------------------------------------------------------
(* The handlers: Add, BatchAdd and Query of grpc.go.                       *)

MethodOf(c) == job[c].method
IdsOf(c) == CASE MethodOf(c) = "Add" -> 1
              [] MethodOf(c) = "BatchAdd" -> BatchLen
              [] OTHER -> 0

\* The handler is about to return status r.
Finish(c, r) == Move(c, "return") /\ code' = [code EXCEPT ![c] = r]

Refuse(c) ==
  /\ stage[c] = "handler" /\ group[c] = NoGroup
  /\ route' = [route EXCEPT ![c] = "refused"]
  /\ Finish(c, "InvalidArgument")
  /\ UNCHANGED <<mainVars, probe, job, group, idVars, res, count>>

\* The group is a peer's: the attempt is counted before it is made.
Forward(c) ==
  /\ stage[c] = "handler" /\ group[c] = Remote
  /\ route' = [route EXCEPT ![c] = "peer"] /\ Move(c, "peer")
  /\ count' = [count EXCEPT !.forwarded[MethodOf(c)] = @ + 1]
  /\ UNCHANGED <<mainVars, probe, job, group, code, idVars, res>>

\* Faulty variant: only a failed dial counts as a failed forward.
PeerAnswersUncounted(c, r) ==
  /\ stage[c] = "peer" /\ Finish(c, r)
  /\ taken' = [taken EXCEPT ![c] = IF r = "OK" THEN IdsOf(c) ELSE @]
  /\ count' = [count EXCEPT !.failed[MethodOf(c)] = IF r = "Internal" THEN @ + 1 ELSE @]
  /\ UNCHANGED <<mainVars, probe, job, group, route, sent, accepted, res>>

\* Faulty variant: the error of the peer is counted but not returned.
PeerAnswersOk(c, r) ==
  /\ stage[c] = "peer" /\ Finish(c, "OK")
  /\ taken' = [taken EXCEPT ![c] = IF r = "OK" THEN IdsOf(c) ELSE @]
  /\ count' = [count EXCEPT !.failed[MethodOf(c)] = IF r # "OK" THEN @ + 1 ELSE @]
  /\ UNCHANGED <<mainVars, probe, job, group, route, sent, accepted, res>>

\* The peer answers, cannot be dialled, or the context has ended.
PeerAnswers(c, r) ==
  /\ stage[c] = "peer" /\ Finish(c, r)
  /\ taken' = [taken EXCEPT ![c] = IF r = "OK" THEN IdsOf(c) ELSE @]
  /\ count' = [count EXCEPT !.failed[MethodOf(c)] = IF r # "OK" THEN @ + 1 ELSE @]
  /\ UNCHANGED <<mainVars, probe, job, group, route, sent, accepted, res>>

\* The group is this server's; a batch is observed once.
Serve(c) ==
  /\ stage[c] = "handler" /\ group[c] = Local
  /\ route' = [route EXCEPT ![c] = "self"] /\ Move(c, "self")
  /\ count' = [count EXCEPT !.batches = IF MethodOf(c) = "BatchAdd" THEN @ + 1 ELSE @]
  /\ UNCHANGED <<mainVars, probe, job, group, code, idVars, res>>

\* Faulty variant: the loop over the ids runs once too often.
SendOnceMore(c) ==
  /\ stage[c] = "self" /\ sent[c] = taken[c] /\ taken[c] <= IdsOf(c)
  /\ sent' = [sent EXCEPT ![c] = @ + 1]
  /\ UNCHANGED <<mainVars, probe, job, stage, group, route, code, accepted, taken, res, count>>

\* addID and ProposeAdd: the next id goes into proposeC, when there is room.
Send(c) ==
  /\ stage[c] = "self" /\ sent[c] = taken[c] /\ taken[c] < IdsOf(c)
  /\ sent' = [sent EXCEPT ![c] = @ + 1]
  /\ UNCHANGED <<mainVars, probe, job, stage, group, route, code, accepted, taken, res, count>>

\* The goroutine that Run starts for a proposal: the node takes it as soon
\* as it leads, whether or not somebody still waits for the result.
Accept(c) ==
  /\ accepted[c] < sent[c] /\ leader /\ NodeUp
  /\ accepted' = [accepted EXCEPT ![c] = @ + 1]
  /\ UNCHANGED <<mainVars, probe, job, stage, group, route, code, sent, taken, res, count>>

\* Faulty variant: a batch goes through the handler of Add.
ProposeAsAdd(c) ==
  /\ stage[c] = "self" /\ taken[c] < accepted[c]
  /\ taken' = [taken EXCEPT ![c] = @ + 1]
  /\ count' = [count EXCEPT !.proposals["success"] = @ + 1,
                            !.requests[<<"Add", "success">>] =
                              IF MethodOf(c) = "BatchAdd" THEN @ + 1 ELSE @]
  /\ UNCHANGED <<mainVars, probe, job, stage, group, route, code, sent, accepted, res>>

\* ProposeAdd receives the result.
Propose(c) ==
  /\ stage[c] = "self" /\ taken[c] < accepted[c]
  /\ taken' = [taken EXCEPT ![c] = @ + 1]
  /\ count' = [count EXCEPT !.proposals["success"] = @ + 1]
  /\ UNCHANGED <<mainVars, probe, job, stage, group, route, code, sent, accepted, res>>

\* Faulty variant: a proposal whose context ended is not counted.
ProposeFailsUncounted(c) ==
  /\ stage[c] = "self" /\ taken[c] < IdsOf(c) /\ res[c] # "none"
  /\ Finish(c, "Internal")
  /\ UNCHANGED <<mainVars, probe, job, group, route, idVars, res, count>>

\* Its context has ended, before the id was given to the node or after, when
\* the node may accept it nevertheless.  A batch stops at the first error.
ProposeFails(c) ==
  /\ stage[c] = "self" /\ taken[c] < IdsOf(c) /\ res[c] # "none"
  /\ Finish(c, "Internal")
  /\ count' = [count EXCEPT !.proposals["error"] = @ + 1]
  /\ UNCHANGED <<mainVars, probe, job, group, route, idVars, res>>

\* All ids are accepted, or the engine has been read.
Served(c) ==
  /\ stage[c] = "self" /\ taken[c] = IdsOf(c)
  /\ Finish(c, "OK")
  /\ UNCHANGED <<mainVars, probe, job, group, route, idVars, res, count>>

Outcome(c) == IF code[c] = "OK" THEN "success" ELSE "error"

\* The deferred function of the handler.
Return(c) ==
  /\ stage[c] = "return" /\ Move(c, "intercept")
  /\ count' = [count EXCEPT !.requests[<<MethodOf(c), Outcome(c)>>] = @ + 1]
  /\ UNCHANGED <<mainVars, probe, job, group, route, code, idVars, res>>

\* Faulty variant: a refused call is not counted by the interceptor.
InterceptAccepted(c) ==
  /\ stage[c] = "intercept" /\ Move(c, "reply")
  /\ count' = [count EXCEPT !.grpc[<<MethodOf(c), code[c]>>] =
                 IF route[c] = "refused" THEN @ ELSE @ + 1]
  /\ UNCHANGED <<mainVars, probe, job, group, route, code, idVars, res>>

\* UnaryMetricsInterceptor, after the handler.
Intercept(c) ==
  /\ stage[c] = "intercept" /\ Move(c, "reply")
  /\ count' = [count EXCEPT !.grpc[<<MethodOf(c), code[c]>>] = @ + 1]
  /\ UNCHANGED <<mainVars, probe, job, group, route, code, idVars, res>>
-----------------------------------------------------------------------------
Handle(c) ==
  \/ Decode(c) \/ Refuse(c) \/ Forward(c) \/ Serve(c)
  \/ Send(c) \/ Propose(c) \/ ProposeFails(c) \/ Served(c) \/ Return(c) \/ Intercept(c)
  \/ \E r \in {"OK", "Internal", "Unavailable"} : PeerAnswers(c, r)

Main ==
  \/ Restored \/ Listen \/ Register
  \/ GracefulStop \/ HttpShutdown \/ MetricsShutdown \/ Deadline \/ Deferred

Next ==
  \/ Main \/ Signal \/ Elect \/ ListenAndServe \/ ProbeBegin \/ ProbeEnd
  \/ \E c \in Call :
       \/ \E j \in Job : HttpArrive(c, j) \/ GrpcArrive(c, j)
       \/ RequestAdd(c) \/ RequestBatchAdd(c) \/ RequestQuery(c)
       \/ Invoke(c) \/ Handle(c) \/ Accept(c) \/ Deliver(c) \/ ClientGone(c)

Spec == Init /\ [][Next]_vars

\* As long as the main goroutine, the Raft node or a handler of the gRPC server
\* can go on, one of them does; a peer answers or its connection breaks.
\* Nothing is assumed of HTTP requests, whose bodies may never come, nor of
\* probes.
Fairness == WF_vars(Main \/ Elect \/ \E c \in Call : Handle(c) \/ Accept(c))

FairSpec == Spec /\ Fairness
-----------------------------------------------------------------------------
(* Properties.                                                             *)

Stage == {"new", "gateway", "params", "stub", "decode", "handler", "peer", "self",
          "return", "intercept", "reply", "end"}
Handled == {"refused", "peer", "self"}

\* Every variable keeps its type; no call gives the node more ids than its
\* message has.
TypeOK ==
  /\ \E i \in 1 .. Len(Steps) : step = Steps[i]
  /\ leader \in BOOLEAN /\ expired \in BOOLEAN
  /\ lis \subseteq {"http", "metrics"}
  /\ probe \in {"none", "http", "metrics", "grpc"}
  /\ job \in [Call -> Job \cup {NoJob}] /\ stage \in [Call -> Stage]
  /\ group \in [Call -> Group] /\ route \in [Call -> Handled \cup {"none", "undecoded"}]
  /\ code \in [Call -> Code] /\ sent \in [Call -> 0 .. BatchLen]
  /\ accepted \in [Call -> 0 .. BatchLen] /\ taken \in [Call -> 0 .. BatchLen]
  /\ res \in [Call -> Code \cup {"none", "Canceled"}]
  /\ count.requests \in [Method \X {"success", "error"} -> Nat]
  /\ count.grpc \in [Method \X Code -> Nat]
  /\ count.forwarded \in [Method -> Nat] /\ count.failed \in [Method -> Nat]
  /\ count.proposals \in [{"success", "error"} -> Nat] /\ count.batches \in Nat

\* The group a client names: over HTTP that of the URL, whatever group the
\* body or the query string names.
Named(c) == IF job[c].http THEN job[c].url ELSE job[c].body

\* It decides what becomes of the call, through the gateway, the stubs and
\* the handlers: a call is served here, forwarded or refused only if the
\* group its client names is this server's, a peer's or empty.
UrlNamesGroup ==
  \A c \in Call :
    /\ route[c] = "self" => Named(c) = Local
    /\ route[c] = "peer" => Named(c) = Remote
    /\ route[c] = "refused" => Named(c) = NoGroup

\* The client of an Add or BatchAdd is told OK, over HTTP or gRPC, only if
\* the Raft node or the peer accepted every id of it, although clients go
\* away and servers drain in between.
OkMeansAccepted ==
  \A c \in Call :
    res[c] = "OK" => /\ taken[c] = IdsOf(c)
                     /\ route[c] = "self" => accepted[c] = IdsOf(c)

Number(P(_)) == Cardinality({c \in Call : P(c)})

\* The two layers of counters (interceptor.go: "Pair it with
\* metricRequestsTotal") agree but for the calls between the two: as many
\* successes as OKs and, for each method, as many errors as other codes.  A
\* call whose message does not decode reaches no handler; it may be among
\* the RPCs, as interceptor.go and metrics.go say ("including calls that fail
\* before reaching a handler"), or not, as in this code.
LayersAgree ==
  \A m \in Method : \A s \in {"success", "error"} :
    LET between(c) == stage[c] = "intercept" /\ MethodOf(c) = m /\ Outcome(c) = s
        undecoded(c) == route[c] = "undecoded" /\ MethodOf(c) = m
        ok == count.grpc[<<m, "OK">>]
        bad == count.grpc[<<m, "InvalidArgument">>] + count.grpc[<<m, "Internal">>]
                 + count.grpc[<<m, "Unavailable">>]
        seen == Number(between) + IF s = "success" THEN ok ELSE bad
    IN  /\ count.requests[<<m, s>>] <= seen
        /\ seen <= count.requests[<<m, s>>]
                     + IF s = "success" THEN 0 ELSE Number(undecoded)

\* "A batch must not be counted as len(ids) individual Add requests" (grpc.go,
\* addID): each method has as many requests as calls of that method have
\* been through its handler, and a batch is one observation at its owner.
BatchIsOneRequest ==
  LET batch(c) == MethodOf(c) = "BatchAdd" /\ route[c] = "self"
  IN  /\ count.batches = Number(batch)
      /\ \A m \in Method :
           LET through(c) == /\ MethodOf(c) = m /\ route[c] \in Handled
                             /\ stage[c] \in {"intercept", "reply", "end"}
           IN  count.requests[<<m, "success">>] + count.requests[<<m, "error">>]
                 = Number(through)

\* "Attempts can be told apart from outcomes" (metrics.go): forwards less
\* failed forwards are the ones still under way and the ones that succeeded.
AttemptsToldApart ==
  \A m \in Method :
    LET good(c) == /\ MethodOf(c) = m /\ route[c] = "peer"
                   /\ stage[c] = "peer" \/ code[c] = "OK"
    IN  count.forwarded[m] = count.failed[m] + Number(good)

\* The ids the Raft node has accepted, as call and place in the call.
Accepted == {p \in Call \X (1 .. BatchLen) : p[2] <= accepted[p[1]]}

\* What the Raft node holds can be read off the proposal counters: every
\* success is an id it has accepted, and every other id it has accepted is
\* one whose handler still waits, or was counted as an error because the
\* client had gone, once each.
ProposalsExplained ==
  LET waiting(c) == stage[c] = "self" /\ taken[c] < sent[c]
  IN  /\ count.proposals["success"] <= Cardinality(Accepted)
      /\ Cardinality(Accepted) <= count.proposals["success"]
                                    + count.proposals["error"] + Number(waiting)

\* No handler runs any more when the deferred calls close what it uses: the
\* connections to the peers, the Raft node and the store, not even for an
\* HTTP request that outlives the deadline of Shutdown.
StopsAfterHandlers == Reached("close") => \A c \in Call : ~RpcBusy(c)

\* SIGTERM ends the process once no client holds a reflection stream,
\* although handlers wait for a leader or a peer, and an HTTP request or a
\* probe may never come to its end.
ShutdownEnds == (Reached("GracefulStop") /\ probe # "grpc") ~> (step = "exit")
=============================================================================
