--------------------------- MODULE FrontEndProofs ---------------------------
(***************************************************************************)
(* Proofs about FrontEnd, for any number of calls, any jobs and batches of *)
(* any length: what a client was told, what the gateway sends, what still  *)
(* runs when the deferred calls of run() close things, and what the        *)
(* counters of the interceptor, the handlers and the forwards add up to.   *)
(***************************************************************************)
EXTENDS FrontEnd, TLAPS

StepName == {"restore", "listen", "gateway", "wait", "GracefulStop", "http.Shutdown",
             "metrics.Shutdown", "close", "node.Stop", "st.Close", "exit"}

\* The steps of run(), one by one.
LEMMA StepList ==
  /\ Len(Steps) = 11
  /\ Steps[1] = "restore" /\ Steps[2] = "listen" /\ Steps[3] = "gateway"
  /\ Steps[4] = "wait" /\ Steps[5] = "GracefulStop" /\ Steps[6] = "http.Shutdown"
  /\ Steps[7] = "metrics.Shutdown" /\ Steps[8] = "close" /\ Steps[9] = "node.Stop"
  /\ Steps[10] = "st.Close" /\ Steps[11] = "exit"
BY Zenon DEF Steps

\* The places of the steps of run().
LEMMA Places ==
  /\ DOMAIN Place = StepName
  /\ Place["restore"] = 1 /\ Place["listen"] = 2 /\ Place["gateway"] = 3
  /\ Place["wait"] = 4 /\ Place["GracefulStop"] = 5 /\ Place["http.Shutdown"] = 6
  /\ Place["metrics.Shutdown"] = 7 /\ Place["close"] = 8 /\ Place["node.Stop"] = 9
  /\ Place["st.Close"] = 10 /\ Place["exit"] = 11
<1>2. {Steps[i] : i \in 1 .. Len(Steps)} = StepName
  BY StepList, SMTT(30) DEF StepName
<1>3. \A i \in 1 .. Len(Steps), j \in 1 .. Len(Steps) : Steps[i] = Steps[j] => i = j
  BY StepList, SMTT(30)
<1>4. ASSUME NEW i \in 1 .. Len(Steps) PROVE Place[Steps[i]] = i
  <2>1. Place[Steps[i]] = CHOOSE j \in 1 .. Len(Steps) : Steps[j] = Steps[i]
    BY DEF Place
  <2>2. QED
    BY <2>1, <1>3
<1>5. DOMAIN Place = StepName
  BY <1>2 DEF Place
<1>6. QED
  BY StepList, <1>4, <1>5, SMTT(30)

\* GoOn moves to the step after.
LEMMA Follows ==
  ASSUME NEW s \in StepName, GoOn(s), s # "exit"
  PROVE  /\ step = s /\ step' \in StepName /\ Place[step'] = Place[s] + 1
         /\ UNCHANGED <<leader, lis, expired, probe, job, stage, group, route, code,
                        sent, accepted, taken, res>>
<1>1. step = s /\ step' = Steps[Place[s] + 1]
      /\ UNCHANGED <<leader, lis, expired, probe, job, stage, group, route, code,
                     sent, accepted, taken, res>>
  BY DEF GoOn, callVars, idVars
<1>2. QED
  BY <1>1, StepList, Places DEF StepName
-----------------------------------------------------------------------------
(* The inductive invariant: the types the proofs need, where a call is and *)
(* what that says of its group and its answer, and while which steps of    *)
(* run() a handler can run.                                                *)

Route == {"none", "undecoded", "refused", "peer", "self"}
Shape ==
  /\ step \in StepName
  /\ job \in [Call -> Job \cup {NoJob}] /\ stage \in [Call -> Stage]
  /\ group \in [Call -> Group] /\ route \in [Call -> Route] /\ code \in [Call -> Code]
  /\ sent \in [Call -> Nat] /\ accepted \in [Call -> Nat] /\ taken \in [Call -> Nat]
  /\ res \in [Call -> Code \cup {"none", "Canceled"}]

\* The group of the message on its way to the handler, and what the handler
\* made of it.
GroupOk(c) ==
  /\ stage[c] \in {"gateway", "params"} => job[c].http
  /\ stage[c] = "params" /\ MethodOf(c) = "Query" => group[c] = job[c].url
  /\ stage[c] \in {"stub", "decode", "handler"} => group[c] = Named(c)
  /\ route[c] = "self" => Named(c) = Local
  /\ route[c] = "peer" => Named(c) = Remote
  /\ route[c] = "refused" => Named(c) = NoGroup

CallOk(c) ==
  /\ stage[c] = "new" => ~job[c].http /\ res[c] = "none" /\ route[c] = "none"
  /\ stage[c] \in {"return", "intercept", "reply"} /\ code[c] = "OK"
       => taken[c] = IdsOf(c)
  /\ res[c] = "OK" => stage[c] = "end" /\ taken[c] = IdsOf(c)
  /\ RpcBusy(c) => Past("listen") /\ ~Past("GracefulStop")

IInv == Shape /\ \A c \in Call : CallOk(c) /\ GroupOk(c)

\* It holds when the process starts.
LEMMA InitIInv == Init => IInv
<1> SUFFICES ASSUME Init PROVE IInv
  OBVIOUS
<1>1. Shape
  BY DEF Init, Shape, StepName, Stage, Code, Group, NoJob, Route
<1>2. \A c \in Call : CallOk(c)
  BY DEF Init, CallOk, NoJob, RpcBusy
<1>3. \A c \in Call : GroupOk(c)
  BY DEF Init, GroupOk
<1>4. QED
  BY <1>1, <1>2, <1>3 DEF IInv

\* The main goroutine, the election and the probes leave the calls alone;
\* GracefulStop waits for the handlers.
LEMMA MainStep ==
  ASSUME IInv, Main \/ Signal \/ Elect \/ ListenAndServe \/ ProbeBegin \/ ProbeEnd
  PROVE  IInv'
<1> DEFINE calls == <<job, stage, group, route, code, sent, accepted, taken, res>>
<1> USE DEF IInv
<1>1. ASSUME NEW s \in StepName, GoOn(s), s # "exit",
             s \in {"restore", "GracefulStop"} => \A c \in Call : ~RpcBusy(c)
      PROVE  IInv'
  <2>1. /\ step = s /\ step' \in StepName /\ Place[step'] = Place[s] + 1
        /\ UNCHANGED calls
    BY <1>1, Follows
  <2>2. Shape'
    BY <2>1 DEF Shape
  <2>3. ASSUME NEW c \in Call, RpcBusy(c)'
        PROVE  Past("listen")' /\ ~Past("GracefulStop")'
    <3>1. RpcBusy(c)
      BY <2>1, <2>3 DEF RpcBusy
    <3>2. s # "GracefulStop" /\ Past("listen") /\ ~Past("GracefulStop")
      BY <1>1, <3>1 DEF CallOk
    <3>3. QED
      BY <2>1, <3>2, Places DEF Past, StepName
  <2>4. \A c \in Call : CallOk(c)' /\ GroupOk(c)'
    BY <2>1, <2>3 DEF CallOk, GroupOk, IdsOf, MethodOf, Named
  <2>5. QED
    BY <2>2, <2>4
<1>2. ASSUME UNCHANGED calls, step' = step
      PROVE  IInv'
  BY <1>2 DEF Shape, CallOk, GroupOk, RpcBusy, Past, IdsOf, MethodOf, Named
<1>3. CASE step = "listen" /\ step' = "close" /\ UNCHANGED calls
  <2>1. \A c \in Call : ~RpcBusy(c) /\ ~RpcBusy(c)'
    BY <1>3, Places DEF CallOk, Past, RpcBusy
  <2>2. QED
    BY <1>3, <2>1 DEF Shape, CallOk, GroupOk, StepName, IdsOf, MethodOf, Named
<1>4. CASE Restored \/ Register \/ Signal \/ Deferred \/ HttpShutdown \/ MetricsShutdown
  <2>1. PICK s \in StepName \ {"exit", "GracefulStop"} : GoOn(s)
    BY <1>4 DEF Restored, Register, Signal, Deferred, HttpShutdown, MetricsShutdown, StepName
  <2>2. s = "restore" => \A c \in Call : ~RpcBusy(c)
    BY <2>1, Follows, Places DEF CallOk, Past
  <2>3. QED
    BY <1>1, <2>1, <2>2
<1>5. CASE GracefulStop
  BY <1>1, <1>5 DEF GracefulStop, StepName
<1>6. CASE Listen
  BY <1>1, <1>3, <1>6 DEF Listen, StepName, callVars, idVars
<1>7. CASE Deadline \/ Elect \/ ListenAndServe \/ ProbeBegin \/ ProbeEnd
  BY <1>2, <1>7 DEF Deadline, Elect, ListenAndServe, ProbeBegin, ProbeEnd, callVars, idVars,
     mainVars
<1>8. QED
  BY <1>4, <1>5, <1>6, <1>7 DEF Main
-----------------------------------------------------------------------------
(* Steps of one call.                                                      *)

OnlyAt(c, f) == \A d \in Call \ {c} : f'[d] = f[d]

\* A step of one call is looked at for that call alone.
LEMMA OneCall ==
  ASSUME IInv, NEW c \in Call, step' = step, Shape', CallOk(c)', GroupOk(c)',
         OnlyAt(c, job), OnlyAt(c, stage), OnlyAt(c, group), OnlyAt(c, route), OnlyAt(c, code),
         OnlyAt(c, taken), OnlyAt(c, res)
  PROVE  IInv'
<1>1. ASSUME NEW d \in Call \ {c} PROVE CallOk(d)'
  BY DEF IInv, OnlyAt, CallOk, RpcBusy, Past, IdsOf, MethodOf
<1>2. ASSUME NEW d \in Call \ {c} PROVE GroupOk(d)'
  BY DEF IInv, OnlyAt, GroupOk, MethodOf, Named
<1>3. QED
  BY <1>1, <1>2 DEF IInv

\* So is one that a handler takes with the message it has.
LEMMA OneHandler ==
  ASSUME IInv, NEW c \in Call, UNCHANGED <<step, job, group, res>>, Shape', CallOk(c)',
         stage'[c] \notin {"gateway", "params", "stub", "decode", "handler"},
         \/ route'[c] = route[c]
         \/ stage[c] = "handler" /\ route'[c] = "self" /\ group[c] = Local
         \/ stage[c] = "handler" /\ route'[c] = "peer" /\ group[c] = Remote
         \/ stage[c] = "handler" /\ route'[c] = "refused" /\ group[c] = NoGroup,
         OnlyAt(c, stage), OnlyAt(c, route), OnlyAt(c, code), OnlyAt(c, taken)
  PROVE  IInv'
<1>1. GroupOk(c)'
  <2>1. Named(c)' = Named(c) /\ GroupOk(c)
    BY DEF IInv, Named
  <2>2. QED
    BY <2>1 DEF GroupOk
<1>2. OnlyAt(c, job) /\ OnlyAt(c, group) /\ OnlyAt(c, res)
  BY DEF OnlyAt
<1>3. QED
  BY <1>1, <1>2, OneCall

\* Where the gRPC server takes calls, a handler may run.
LEMMA OpenIsBetween ==
  ASSUME Shape, GrpcOpen
  PROVE  Past("listen") /\ ~Past("GracefulStop")
BY Places, SMTT(30) DEF Shape, GrpcOpen, Past, Reached, StepName

\* A call has a natural number of ids.
LEMMA IdsOfType == \A c \in Call : IdsOf(c) \in Nat
BY JobAssumption DEF IdsOf

\* Calls arrive.
LEMMA ArriveStep ==
  ASSUME IInv, NEW c \in Call, NEW j \in Job, HttpArrive(c, j) \/ GrpcArrive(c, j)
  PROVE  IInv'
<1> USE DEF mainVars, idVars, Move, Arrives
<1>1. j.body \in Group
  BY JobAssumption, Zenon DEF Jobs
<1>2. CASE HttpArrive(c, j)
  <2>1. Shape'
    BY <1>2 DEF IInv, Shape, HttpArrive, Stage
  <2>2. CallOk(c)'
    BY <1>2 DEF IInv, Shape, HttpArrive, CallOk, RpcBusy
  <2>3. GroupOk(c)'
    BY <1>2 DEF IInv, Shape, HttpArrive, CallOk, GroupOk
  <2>4. QED
    BY <1>2, <2>1, <2>2, <2>3, OneCall DEF HttpArrive, IInv, Shape, OnlyAt
<1>3. CASE GrpcArrive(c, j)
  <2>1. Shape'
    BY <1>1, <1>3 DEF IInv, Shape, GrpcArrive, Stage
  <2>2. Past("listen")' /\ ~Past("GracefulStop")'
    BY <1>3, OpenIsBetween DEF IInv, GrpcArrive, Past
  <2>3. CallOk(c)'
    BY <1>3, <2>2 DEF IInv, Shape, GrpcArrive, CallOk
  <2>4. GroupOk(c)'
    BY <1>3 DEF IInv, Shape, GrpcArrive, CallOk, GroupOk, Named
  <2>5. QED
    BY <1>3, <2>1, <2>3, <2>4, OneCall DEF GrpcArrive, IInv, Shape, OnlyAt
<1>4. QED
  BY <1>2, <1>3

\* The gateway puts the group of the URL into the message last, or where
\* nothing replaces it any more.
LEMMA MessageStep ==
  ASSUME IInv, NEW c \in Call, RequestAdd(c) \/ RequestBatchAdd(c) \/ RequestQuery(c)
  PROVE  IInv'
<1> USE DEF mainVars, idVars, Move
<1> DEFINE Same == UNCHANGED <<step, job, route, code, sent, accepted, taken>>
<1>1. ASSUME Same, stage[c] \in {"gateway", "params"}, NEW s \in {"params", "stub", "end"}, Move(c, s),
             NEW r, res' = [res EXCEPT ![c] = r], r \in {res[c], "InvalidArgument"},
             NEW g, group' = [group EXCEPT ![c] = g],
             s = "end" => g = group[c],
             s = "params" => g \in {job[c].url, job[c].body} /\ (MethodOf(c) = "Query" => g = job[c].url),
             s = "stub" => g = job[c].url
      PROVE  IInv'
  <2>1. job[c].http /\ Named(c) = job[c].url /\ job[c] \in Job
    BY <1>1 DEF IInv, GroupOk, Shape, Named, NoJob
  <2>2. g \in Group /\ r \in Code \cup {"none", "Canceled"}
    BY <1>1, <2>1, JobAssumption DEF IInv, Shape, Jobs, Code
  <2>3. /\ stage' \in [Call -> Stage] /\ group' \in [Call -> Group]
        /\ res' \in [Call -> Code \cup {"none", "Canceled"}]
        /\ stage'[c] = s /\ group'[c] = g /\ res'[c] = r
        /\ OnlyAt(c, stage) /\ OnlyAt(c, group) /\ OnlyAt(c, res)
    BY <1>1, <2>2 DEF IInv, Shape, Stage, OnlyAt
  <2>4. Shape'
    BY <1>1, <2>3, Zenon DEF IInv, Shape
  <2>5. CallOk(c)'
    BY <1>1, <2>3 DEF IInv, CallOk, RpcBusy, IdsOf, MethodOf
  <2>6. GroupOk(c)'
    BY <1>1, <2>1, <2>3 DEF IInv, GroupOk, Named, MethodOf
  <2>7. OnlyAt(c, job) /\ OnlyAt(c, route) /\ OnlyAt(c, code) /\ OnlyAt(c, taken) /\ step' = step
    BY <1>1 DEF OnlyAt
  <2>8. QED
    BY <2>3, <2>4, <2>5, <2>6, <2>7, OneCall, Zenon
<1>2. /\ group = [group EXCEPT ![c] = group[c]] /\ res = [res EXCEPT ![c] = res[c]]
  BY DEF IInv, Shape
<1>3. ASSUME Same, stage[c] \in {"gateway", "params"}, Answer(c, "InvalidArgument"), group' = group
      PROVE  IInv'
  <2>1. PICK r \in {res[c], "InvalidArgument"} : res' = [res EXCEPT ![c] = r]
    BY <1>3, Zenon DEF Answer
  <2>2. QED
    BY <1>1, <1>2, <1>3, <2>1, Zenon DEF Answer
<1>4. ASSUME Same, DecodeBody(c, "gateway", "params"), MethodOf(c) # "Query" PROVE IInv'
  BY <1>1, <1>2, <1>3, <1>4, Zenon DEF DecodeBody
<1>5. ASSUME Same, PathGroup(c, "gateway", "params") \/ PathGroup(c, "params", "stub") PROVE IInv'
  BY <1>1, <1>2, <1>5, Zenon DEF PathGroup
<1>6. ASSUME Same, QueryParameters(c, "params", "stub"), MethodOf(c) = "Query" PROVE IInv'
  <2>1. group[c] = job[c].url
    BY <1>6, Zenon DEF QueryParameters, IInv, GroupOk
  <2>2. QED
    BY <1>1, <1>2, <1>3, <1>6, <2>1, Zenon DEF QueryParameters
<1>7. CASE RequestAdd(c) \/ RequestBatchAdd(c)
  <2>1. Same /\ MethodOf(c) # "Query"
    BY <1>7 DEF RequestAdd, RequestBatchAdd, InGateway, MethodOf
  <2>2. QED
    BY <1>4, <1>5, <1>7, <2>1, Zenon DEF RequestAdd, RequestBatchAdd
<1>8. CASE RequestQuery(c)
  <2>1. Same /\ MethodOf(c) = "Query"
    BY <1>8, Zenon DEF RequestQuery, InGateway, MethodOf
  <2>2. QED
    BY <1>5, <1>6, <1>8, <2>1, Zenon DEF RequestQuery
<1>9. QED
  BY <1>7, <1>8

\* The gateway sends the message, replies arrive, clients go away.
LEMMA GatewayStep ==
  ASSUME IInv, NEW c \in Call,
         \/ RequestAdd(c) \/ RequestBatchAdd(c) \/ RequestQuery(c)
         \/ Invoke(c) \/ Decode(c) \/ Deliver(c) \/ ClientGone(c)
  PROVE  IInv'
<1> USE DEF mainVars, idVars, Move, Answer
<1>1. CASE RequestAdd(c) \/ RequestBatchAdd(c) \/ RequestQuery(c)
  BY <1>1, MessageStep
<1>2. CASE Invoke(c)
  <2>1. Shape'
    BY <1>2 DEF IInv, Shape, Invoke, Stage, Code
  <2>2. GrpcOpen => Past("listen")' /\ ~Past("GracefulStop")'
    BY <1>2, OpenIsBetween DEF IInv, Invoke, Past
  <2>3. CallOk(c)'
    BY <1>2, <2>2, Zenon DEF IInv, Shape, Invoke, CallOk, RpcBusy, IdsOf, MethodOf
  <2>4. GroupOk(c)'
    BY <1>2 DEF IInv, Shape, Invoke, GroupOk, Named, MethodOf
  <2>5. QED
    BY <1>2, <2>1, <2>3, <2>4, OneCall DEF Invoke, IInv, Shape, OnlyAt
<1>3. CASE Decode(c)
  <2>1. Shape'
    BY <1>3 DEF IInv, Shape, Decode, Stage, Code, Route
  <2>2. CallOk(c)'
    BY <1>3 DEF IInv, Shape, Decode, CallOk, RpcBusy, Past, IdsOf, MethodOf
  <2>3. GroupOk(c)'
    BY <1>3 DEF IInv, Shape, Decode, GroupOk, Named, MethodOf
  <2>4. QED
    BY <1>3, <2>1, <2>2, <2>3, OneCall DEF Decode, IInv, Shape, OnlyAt
<1>4. CASE Deliver(c)
  <2>1. Shape'
    BY <1>4 DEF IInv, Shape, Deliver, Stage
  <2>2. CallOk(c)'
    BY <1>4 DEF IInv, Shape, Deliver, CallOk, RpcBusy, IdsOf, MethodOf
  <2>3. GroupOk(c)'
    BY <1>4 DEF IInv, Shape, Deliver, GroupOk, Named, MethodOf
  <2>4. QED
    BY <1>4, <2>1, <2>2, <2>3, OneCall, Zenon DEF Deliver, IInv, Shape, OnlyAt
<1>5. CASE ClientGone(c)
  <2>1. Shape'
    BY <1>5 DEF IInv, Shape, ClientGone, Stage
  <2>2. CallOk(c)'
    BY <1>5 DEF IInv, Shape, ClientGone, CallOk, RpcBusy, Past, IdsOf, MethodOf
  <2>3. GroupOk(c)'
    BY <1>5 DEF IInv, Shape, ClientGone, GroupOk, Named, MethodOf
  <2>4. QED
    BY <1>5, <2>1, <2>2, <2>3, OneCall, Zenon DEF ClientGone, IInv, Shape, OnlyAt
<1>6. QED
  BY <1>1, <1>2, <1>3, <1>4, <1>5, Zenon

\* The handlers: a status OK is made only of ids that were all accepted.
LEMMA HandleStep ==
  ASSUME IInv, NEW c \in Call, Handle(c)
  PROVE  IInv'
<1> USE DEF mainVars, idVars, Move, Finish
<1>1. CASE Decode(c)
  BY <1>1, GatewayStep
<1>2. CASE \E r \in {"OK", "Internal", "Unavailable"} : PeerAnswers(c, r)
  <2>1. PICK r \in {"OK", "Internal", "Unavailable"} : PeerAnswers(c, r)
    BY <1>2
  <2>2. Shape'
    BY <2>1, IdsOfType DEF IInv, Shape, PeerAnswers, Stage, Code
  <2>3. CallOk(c)'
    BY <2>1 DEF IInv, Shape, PeerAnswers, CallOk, RpcBusy, Past, IdsOf, MethodOf
  <2>4. QED
    BY <2>1, <2>2, <2>3, OneHandler DEF PeerAnswers, IInv, Shape, OnlyAt
<1>3. CASE Refuse(c)
  <2>1. Shape'
    BY <1>3 DEF IInv, Shape, Refuse, Stage, Code, Route
  <2>2. CallOk(c)'
    BY <1>3 DEF IInv, Shape, Refuse, CallOk, RpcBusy, Past, IdsOf, MethodOf
  <2>3. QED
    BY <1>3, <2>1, <2>2, OneHandler DEF Refuse, IInv, Shape, OnlyAt
<1>4. CASE Forward(c)
  <2>1. Shape'
    BY <1>4 DEF IInv, Shape, Forward, Stage, Route
  <2>2. CallOk(c)'
    BY <1>4 DEF IInv, Shape, Forward, CallOk, RpcBusy, Past, IdsOf, MethodOf
  <2>3. QED
    BY <1>4, <2>1, <2>2, OneHandler DEF Forward, IInv, Shape, OnlyAt
<1>5. CASE Serve(c)
  <2>1. Shape'
    BY <1>5 DEF IInv, Shape, Serve, Stage, Route
  <2>2. CallOk(c)'
    BY <1>5 DEF IInv, Shape, Serve, CallOk, RpcBusy, Past, IdsOf, MethodOf
  <2>3. QED
    BY <1>5, <2>1, <2>2, OneHandler DEF Serve, IInv, Shape, OnlyAt
<1>6. CASE Propose(c)
  <2>1. Shape'
    BY <1>6 DEF IInv, Shape, Propose
  <2>2. CallOk(c)'
    BY <1>6 DEF IInv, Shape, Propose, CallOk, RpcBusy, Past, IdsOf, MethodOf
  <2>3. QED
    BY <1>6, <2>1, <2>2, OneHandler DEF Propose, IInv, Shape, OnlyAt
<1>7. CASE ProposeFails(c)
  <2>1. Shape'
    BY <1>7 DEF IInv, Shape, ProposeFails, Stage, Code
  <2>2. CallOk(c)'
    BY <1>7 DEF IInv, Shape, ProposeFails, CallOk, RpcBusy, Past, IdsOf, MethodOf
  <2>3. QED
    BY <1>7, <2>1, <2>2, OneHandler DEF ProposeFails, IInv, Shape, OnlyAt
<1>8. CASE Served(c)
  <2>1. Shape'
    BY <1>8 DEF IInv, Shape, Served, Stage, Code
  <2>2. CallOk(c)'
    BY <1>8 DEF IInv, Shape, Served, CallOk, RpcBusy, Past, IdsOf, MethodOf
  <2>3. QED
    BY <1>8, <2>1, <2>2, OneHandler DEF Served, IInv, Shape, OnlyAt
<1>9. CASE Return(c)
  <2>1. Shape'
    BY <1>9 DEF IInv, Shape, Return, Stage
  <2>2. CallOk(c)'
    BY <1>9 DEF IInv, Shape, Return, CallOk, RpcBusy, Past, IdsOf, MethodOf
  <2>3. QED
    BY <1>9, <2>1, <2>2, OneHandler DEF Return, IInv, Shape, OnlyAt
<1>10. CASE Intercept(c)
  <2>1. Shape'
    BY <1>10 DEF IInv, Shape, Intercept, Stage
  <2>2. CallOk(c)'
    BY <1>10 DEF IInv, Shape, Intercept, CallOk, RpcBusy, Past, IdsOf, MethodOf
  <2>3. QED
    BY <1>10, <2>1, <2>2, OneHandler DEF Intercept, IInv, Shape, OnlyAt
<1>11. CASE Send(c)
  <2>1. Shape'
    BY <1>11 DEF IInv, Shape, Send
  <2>2. CallOk(c)'
    BY <1>11 DEF IInv, Shape, Send, CallOk, RpcBusy, Past, IdsOf, MethodOf
  <2>3. QED
    BY <1>11, <2>1, <2>2, OneHandler DEF Send, IInv, Shape, OnlyAt
<1>12. QED
  BY <1>1, <1>2, <1>3, <1>4, <1>5, <1>6, <1>7, <1>8, <1>9, <1>10, <1>11 DEF Handle

\* The Raft node takes a proposal, in whatever stage its call is.
LEMMA AcceptStep ==
  ASSUME IInv, NEW c \in Call, Accept(c)
  PROVE  IInv'
<1>1. UNCHANGED <<step, job, stage, group, route, code, sent, taken, res>>
  BY DEF Accept, mainVars
<1>2. accepted' \in [Call -> Nat]
  BY DEF Accept, IInv, Shape
<1>3. Shape'
  BY <1>1, <1>2 DEF IInv, Shape
<1>4. QED
  BY <1>1, <1>3 DEF IInv, CallOk, GroupOk, RpcBusy, Past, IdsOf, MethodOf, Named

\* A step that changes nothing.
LEMMA StutterStep == IInv /\ UNCHANGED vars => IInv'
BY DEF IInv, Shape, CallOk, GroupOk, RpcBusy, Past, IdsOf, MethodOf, Named, vars, mainVars,
   callVars, idVars

\* Every step preserves the invariant.
LEMMA NextIInv == IInv /\ [Next]_vars => IInv'
BY MainStep, ArriveStep, GatewayStep, HandleStep, AcceptStep, StutterStep DEF Next

\* The inductive invariant holds in every reachable state.
LEMMA Inductive == Spec => []IInv
BY InitIInv, NextIInv, PTL DEF Spec
-----------------------------------------------------------------------------
(* The theorems.                                                           *)

\* A call is served here, forwarded or refused by the group its client names,
\* over HTTP that of the URL, whatever the body or the query string names and
\* for any jobs (request_CardinalityService_* and the handlers of grpc.go).
THEOREM UrlNamesGroupTheorem == Spec => []UrlNamesGroup
<1>1. IInv => UrlNamesGroup
  BY DEF IInv, GroupOk, UrlNamesGroup
<1>2. QED
  BY <1>1, Inductive, PTL

\* When the deferred calls of run() begin no handler runs any more.
THEOREM StopsAfterHandlersTheorem == Spec => []StopsAfterHandlers
<1>1. IInv => StopsAfterHandlers
  <2>1. SUFFICES ASSUME IInv, Reached("close"), NEW c \in Call, RpcBusy(c)
                 PROVE  FALSE
    BY DEF StopsAfterHandlers
  <2>2. QED
    BY <2>1, Places DEF IInv, Shape, CallOk, Reached, Past, StepName
<1>2. QED
  BY <1>1, Inductive, PTL
-----------------------------------------------------------------------------
(* What a step does to a call, seen from the counters.                     *)

Early == {"new", "gateway", "params", "stub", "decode", "handler"}
Late == {"intercept", "reply", "end"}

CountShape ==
  count \in [requests : [Method \X {"success", "error"} -> Nat],
             grpc : [Method \X Code -> Nat],
             forwarded : [Method -> Nat], failed : [Method -> Nat],
             proposals : [{"success", "error"} -> Nat], batches : Nat]

\* Before its handler has looked at the group a call has no route and no
\* ids; a handler that serves or forwards has the route to show for it, and
\* one that is done with status OK all ids.
Routed(c) ==
  /\ stage[c] \in Early => route[c] = "none" /\ taken[c] = 0
  /\ stage[c] \notin Early \cup {"end"} => route[c] \in Handled
  /\ stage[c] \in {"self", "peer"} => route[c] = stage[c]
  /\ stage[c] # "new" => job[c] \in Job
  /\ stage[c] = "new" => job[c] = NoJob
  /\ stage[c] \in {"return"} \cup Late /\ route[c] \in Handled /\ code[c] = "OK"
       => taken[c] = IdsOf(c)

\* One id at a time is given to the Raft node, and only for a group of this
\* server; what the node accepts was given to it, and what the handler knows
\* accepted is.
InTurn(c) ==
  /\ taken[c] <= IdsOf(c) /\ sent[c] <= IdsOf(c) /\ accepted[c] <= sent[c]
  /\ route[c] # "self" => sent[c] = 0
  /\ route[c] = "self" => taken[c] <= accepted[c] /\ sent[c] <= taken[c] + 1

Ground ==
  /\ IInv /\ CountShape
  /\ \A c \in Call : Routed(c) /\ InTurn(c)

Others(c) ==
  \A d \in Call \ {c} : /\ job'[d] = job[d] /\ stage'[d] = stage[d] /\ route'[d] = route[d]
                        /\ code'[d] = code[d] /\ taken'[d] = taken[d]
                        /\ sent'[d] = sent[d] /\ accepted'[d] = accepted[d]
SameNode(c) == sent'[c] = sent[c] /\ accepted'[c] = accepted[c]
SameCall(c) == job'[c] = job[c] /\ stage'[c] = stage[c] /\ route'[c] = route[c] /\ code'[c] = code[c]

\* The call arrives; moves on without its handler, or its client goes; is
\* dropped; is refused, taken or forwarded; its peer answers; an id is given
\* to the node, accepted there, and known to be; its handler ends; the two
\* layers count it.
Comes(c) ==
  /\ stage[c] = "new" /\ stage'[c] \in {"gateway", "decode"} /\ job'[c] \in Job
  /\ route'[c] = route[c] /\ code'[c] = code[c] /\ taken'[c] = taken[c] /\ SameNode(c)
  /\ count' = count
Passes(c) ==
  /\ \/ stage'[c] = stage[c]
     \/ /\ stage[c] \in {"gateway", "params", "stub", "decode"}
        /\ stage'[c] \in {"params", "stub", "decode", "handler", "end"}
     \/ stage[c] \in {"reply", "end"} /\ stage'[c] = "end"
  /\ job'[c] = job[c] /\ route'[c] = route[c] /\ code'[c] = code[c] /\ taken'[c] = taken[c]
  /\ SameNode(c) /\ count' = count
Drops(c) ==
  /\ stage[c] = "decode" /\ stage'[c] = "end" /\ route'[c] = "undecoded"
  /\ job'[c] = job[c] /\ code'[c] = code[c] /\ taken'[c] = taken[c]
  /\ SameNode(c) /\ count' = count
Routes(c, r, s) ==
  /\ stage[c] = "handler" /\ stage'[c] = s /\ route'[c] = r
  /\ job'[c] = job[c] /\ taken'[c] = taken[c] /\ SameNode(c)
Refused(c) == Routes(c, "refused", "return") /\ code'[c] \in Code \ {"OK"} /\ count' = count
Takes(c) ==
  /\ Routes(c, "self", "self") /\ code'[c] = code[c]
  /\ count' = [count EXCEPT !.batches = IF MethodOf(c) = "BatchAdd" THEN @ + 1 ELSE @]
Sends(c) ==
  /\ Routes(c, "peer", "peer") /\ code'[c] = code[c]
  /\ count' = [count EXCEPT !.forwarded[MethodOf(c)] = @ + 1]
Hears(c, r) ==
  /\ stage[c] = "peer" /\ stage'[c] = "return" /\ code'[c] = r
  /\ job'[c] = job[c] /\ route'[c] = route[c] /\ SameNode(c)
  /\ taken'[c] = IF r = "OK" THEN IdsOf(c) ELSE taken[c]
  /\ count' = [count EXCEPT !.failed[MethodOf(c)] = IF r # "OK" THEN @ + 1 ELSE @]
Gives(c) ==
  /\ stage[c] = "self" /\ sent[c] = taken[c] /\ taken[c] < IdsOf(c)
  /\ sent'[c] = sent[c] + 1 /\ accepted'[c] = accepted[c] /\ taken'[c] = taken[c]
  /\ SameCall(c) /\ count' = count
Lands(c) ==
  /\ accepted[c] < sent[c] /\ accepted'[c] = accepted[c] + 1
  /\ sent'[c] = sent[c] /\ taken'[c] = taken[c] /\ SameCall(c) /\ count' = count
Learns(c) ==
  /\ stage[c] = "self" /\ taken[c] < accepted[c] /\ taken'[c] = taken[c] + 1
  /\ SameCall(c) /\ SameNode(c)
  /\ count' = [count EXCEPT !.proposals["success"] = @ + 1]
Ends(c, r) ==
  /\ stage[c] = "self" /\ stage'[c] = "return" /\ code'[c] = r
  /\ job'[c] = job[c] /\ route'[c] = route[c] /\ taken'[c] = taken[c] /\ SameNode(c)
Serves(c) == Ends(c, "OK") /\ taken[c] = IdsOf(c) /\ count' = count
Fails(c) == Ends(c, "Internal") /\ count' = [count EXCEPT !.proposals["error"] = @ + 1]
Returns(c) ==
  /\ stage[c] = "return" /\ stage'[c] = "intercept"
  /\ job'[c] = job[c] /\ route'[c] = route[c] /\ code'[c] = code[c] /\ taken'[c] = taken[c]
  /\ SameNode(c)
  /\ count' = [count EXCEPT !.requests[<<MethodOf(c), Outcome(c)>>] = @ + 1]
Replies(c) ==
  /\ stage[c] = "intercept" /\ stage'[c] = "reply"
  /\ job'[c] = job[c] /\ route'[c] = route[c] /\ code'[c] = code[c] /\ taken'[c] = taken[c]
  /\ SameNode(c)
  /\ count' = [count EXCEPT !.grpc[<<MethodOf(c), code[c]>>] = @ + 1]

\* The calls as functions: what an EXCEPT does to them.
LEMMA OneCallMoves ==
  ASSUME Ground, NEW c \in Call, NEW v
  PROVE  /\ [job EXCEPT ![c] = v][c] = v /\ \A d \in Call \ {c} : [job EXCEPT ![c] = v][d] = job[d]
         /\ [stage EXCEPT ![c] = v][c] = v /\ \A d \in Call \ {c} : [stage EXCEPT ![c] = v][d] = stage[d]
         /\ [route EXCEPT ![c] = v][c] = v /\ \A d \in Call \ {c} : [route EXCEPT ![c] = v][d] = route[d]
         /\ [code EXCEPT ![c] = v][c] = v /\ \A d \in Call \ {c} : [code EXCEPT ![c] = v][d] = code[d]
         /\ [taken EXCEPT ![c] = v][c] = v /\ \A d \in Call \ {c} : [taken EXCEPT ![c] = v][d] = taken[d]
         /\ [sent EXCEPT ![c] = v][c] = v /\ \A d \in Call \ {c} : [sent EXCEPT ![c] = v][d] = sent[d]
         /\ [accepted EXCEPT ![c] = v][c] = v /\ \A d \in Call \ {c} : [accepted EXCEPT ![c] = v][d] = accepted[d]
BY DEF Ground, IInv, Shape

\* Calls arrive, pass the gateway and the stubs, and are answered.
LEMMA OuterEffect ==
  ASSUME Ground, NEW c \in Call,
         \/ \E j \in Job : HttpArrive(c, j) \/ GrpcArrive(c, j)
         \/ RequestAdd(c) \/ RequestBatchAdd(c) \/ RequestQuery(c)
         \/ Invoke(c) \/ Decode(c) \/ Deliver(c) \/ ClientGone(c)
  PROVE  Others(c) /\ (Comes(c) \/ Passes(c) \/ Drops(c))
<1>1. ASSUME NEW j \in Job, HttpArrive(c, j) \/ GrpcArrive(c, j) PROVE Others(c) /\ Comes(c)
  <2>1. /\ job' = [job EXCEPT ![c] = j] /\ UNCHANGED <<route, code, sent, accepted, taken, count>> /\ stage[c] = "new"
        /\ \E s \in {"gateway", "decode"} : stage' = [stage EXCEPT ![c] = s]
    BY <1>1, Zenon DEF HttpArrive, GrpcArrive, Arrives, Move, idVars
  <2>2. QED
    BY <2>1, OneCallMoves DEF Others, Comes, SameNode
<1>2. ASSUME UNCHANGED <<job, route, code, sent, accepted, taken, count>>, NEW s, stage' = [stage EXCEPT ![c] = s],
             \/ /\ stage[c] \in {"gateway", "params", "stub", "decode"}
                /\ s \in {"params", "stub", "decode", "handler", "end"}
             \/ stage[c] \in {"reply", "end"} /\ s = "end"
             \/ s = stage[c]
      PROVE  Others(c) /\ Passes(c)
  BY <1>2, OneCallMoves DEF Others, Passes, SameNode
<1>3. CASE RequestAdd(c) \/ RequestBatchAdd(c) \/ RequestQuery(c)
  <2>1. /\ UNCHANGED <<job, route, code, sent, accepted, taken, count>> /\ stage[c] \in {"gateway", "params"}
        /\ \E s \in {"params", "stub", "end"} : stage' = [stage EXCEPT ![c] = s]
    BY <1>3, Zenon DEF RequestAdd, RequestBatchAdd, RequestQuery, DecodeBody, PathGroup,
       QueryParameters, Answer, Move, idVars
  <2>2. QED
    BY <2>1, <1>2, Zenon
<1>4. CASE Invoke(c)
  <2>1. /\ UNCHANGED <<job, route, code, sent, accepted, taken, count>> /\ stage[c] = "stub"
        /\ \E s \in {"decode", "end"} : stage' = [stage EXCEPT ![c] = s]
    BY <1>4, Zenon DEF Invoke, Answer, Move, idVars
  <2>2. QED
    BY <2>1, <1>2, Zenon
<1>7. CASE Decode(c)
  <2>1. UNCHANGED <<job, code, sent, accepted, taken, count>> /\ stage[c] = "decode"
    BY <1>7, Zenon DEF Decode, idVars
  <2>2. CASE stage' = [stage EXCEPT ![c] = "handler"] /\ route' = route
    BY <2>1, <2>2, <1>2, Zenon
  <2>3. CASE stage' = [stage EXCEPT ![c] = "end"] /\ route' = [route EXCEPT ![c] = "undecoded"]
    BY <2>1, <2>3, OneCallMoves DEF Others, Drops, SameNode
  <2>4. QED
    BY <1>7, <2>2, <2>3, Zenon DEF Decode, Move, Answer
<1>5. CASE Deliver(c)
  <2>1. /\ UNCHANGED <<job, route, code, sent, accepted, taken, count>> /\ stage[c] = "reply"
        /\ stage' = [stage EXCEPT ![c] = "end"]
    BY <1>5, Zenon DEF Deliver, Answer, Move, idVars
  <2>2. QED
    BY <2>1, <1>2, Zenon
<1>6. CASE ClientGone(c)
  <2>1. /\ UNCHANGED <<job, route, code, sent, accepted, taken, count>> /\ stage[c] # "new"
        /\ stage' = [stage EXCEPT ![c] = IF RpcBusy(c) THEN stage[c] ELSE "end"]
    BY <1>6 DEF ClientGone, idVars
  <2>2. stage[c] \in Stage
    BY DEF Ground, IInv, Shape
  <2>3. CASE RpcBusy(c)
    BY <2>1, <2>3, <1>2, Zenon
  <2>4. CASE ~RpcBusy(c)
    <3>1. stage[c] \in {"gateway", "params", "stub", "reply", "end"}
      BY <2>1, <2>2, <2>4 DEF RpcBusy, Stage
    <3>2. QED
      BY <2>1, <2>4, <3>1, <1>2, Zenon
  <2>5. QED
    BY <2>3, <2>4
<1>8. QED
  BY <1>1, <1>3, <1>4, <1>7, <1>5, <1>6, Zenon

\* What the handlers and the interceptor do.
LEMMA InnerEffect ==
  ASSUME Ground, NEW c \in Call, Handle(c), ~ Decode(c)
  PROVE  /\ Others(c)
         /\ \/ Refused(c) \/ Takes(c) \/ Sends(c) \/ (\E r \in Code : Hears(c, r))
            \/ Gives(c) \/ Learns(c) \/ Serves(c) \/ Fails(c) \/ Returns(c) \/ Replies(c)
<1> USE DEF Move, Finish, idVars, SameNode, SameCall
<1>1. ASSUME NEW r \in {"OK", "Internal", "Unavailable"}, PeerAnswers(c, r)
      PROVE  Others(c) /\ Hears(c, r) /\ r \in Code
  <2>1. /\ stage[c] = "peer" /\ stage' = [stage EXCEPT ![c] = "return"]
        /\ code' = [code EXCEPT ![c] = r] /\ UNCHANGED <<job, route, sent, accepted>>
        /\ count' = [count EXCEPT !.failed[MethodOf(c)] = IF r # "OK" THEN @ + 1 ELSE @]
    BY <1>1, Zenon DEF PeerAnswers
  <2>2. taken' = [taken EXCEPT ![c] = IF r = "OK" THEN IdsOf(c) ELSE taken[c]]
    BY <1>1 DEF PeerAnswers
  <2>3. taken'[c] = (IF r = "OK" THEN IdsOf(c) ELSE taken[c]) /\ \A d \in Call \ {c} : taken'[d] = taken[d]
    BY <2>2, OneCallMoves
  <2>4. QED
    BY <2>1, <2>3, OneCallMoves DEF Others, Hears, Code
<1>2. CASE Refuse(c)
  <2>1. /\ stage[c] = "handler" /\ stage' = [stage EXCEPT ![c] = "return"]
        /\ route' = [route EXCEPT ![c] = "refused"] /\ code' = [code EXCEPT ![c] = "InvalidArgument"]
        /\ UNCHANGED <<job, sent, accepted, taken, count>>
    BY <1>2, Zenon DEF Refuse
  <2>3. QED
    BY <2>1, OneCallMoves DEF Others, Refused, Routes, Code
<1>3. CASE Forward(c)
  <2>1. /\ stage[c] = "handler" /\ stage' = [stage EXCEPT ![c] = "peer"]
        /\ route' = [route EXCEPT ![c] = "peer"] /\ UNCHANGED <<job, sent, accepted, taken, code>>
        /\ count' = [count EXCEPT !.forwarded[MethodOf(c)] = @ + 1]
    BY <1>3, Zenon DEF Forward
  <2>3. QED
    BY <2>1, OneCallMoves DEF Others, Sends, Routes
<1>4. CASE Serve(c)
  <2>1. /\ stage[c] = "handler" /\ stage' = [stage EXCEPT ![c] = "self"]
        /\ route' = [route EXCEPT ![c] = "self"] /\ UNCHANGED <<job, sent, accepted, taken, code>>
        /\ count' = [count EXCEPT !.batches = IF MethodOf(c) = "BatchAdd" THEN @ + 1 ELSE @]
    BY <1>4, Zenon DEF Serve
  <2>3. QED
    BY <2>1, OneCallMoves DEF Others, Takes, Routes
<1>5. CASE Propose(c)
  <2>1. /\ stage[c] = "self" /\ taken[c] < accepted[c]
        /\ UNCHANGED <<job, stage, route, code, sent, accepted>>
        /\ count' = [count EXCEPT !.proposals["success"] = @ + 1]
    BY <1>5, Zenon DEF Propose
  <2>2. taken' = [taken EXCEPT ![c] = taken[c] + 1]
    BY <1>5 DEF Propose
  <2>3. QED
    BY <2>1, <2>2, OneCallMoves DEF Others, Learns
<1>6. CASE ProposeFails(c)
  <2>1. /\ stage[c] = "self" /\ stage' = [stage EXCEPT ![c] = "return"]
        /\ code' = [code EXCEPT ![c] = "Internal"] /\ UNCHANGED <<job, route, sent, accepted, taken>>
        /\ count' = [count EXCEPT !.proposals["error"] = @ + 1]
    BY <1>6, Zenon DEF ProposeFails
  <2>2. QED
    BY <2>1, OneCallMoves DEF Others, Fails, Ends
<1>7. CASE Served(c)
  <2>1. /\ stage[c] = "self" /\ stage' = [stage EXCEPT ![c] = "return"] /\ taken[c] = IdsOf(c)
        /\ code' = [code EXCEPT ![c] = "OK"] /\ UNCHANGED <<job, route, sent, accepted, taken, count>>
    BY <1>7, Zenon DEF Served
  <2>2. QED
    BY <2>1, OneCallMoves DEF Others, Serves, Ends
<1>8. CASE Send(c)
  <2>1. /\ stage[c] = "self" /\ sent[c] = taken[c] /\ taken[c] < IdsOf(c)
        /\ UNCHANGED <<job, stage, route, code, accepted, taken, count>>
    BY <1>8, Zenon DEF Send
  <2>2. sent' = [sent EXCEPT ![c] = sent[c] + 1]
    BY <1>8 DEF Send
  <2>3. QED
    BY <2>1, <2>2, OneCallMoves DEF Others, Gives
<1>9. CASE Return(c)
  <2>1. /\ stage[c] = "return" /\ stage' = [stage EXCEPT ![c] = "intercept"]
        /\ UNCHANGED <<job, route, code, sent, accepted, taken>>
        /\ count' = [count EXCEPT !.requests[<<MethodOf(c), Outcome(c)>>] = @ + 1]
    BY <1>9, Zenon DEF Return
  <2>2. QED
    BY <2>1, OneCallMoves DEF Others, Returns
<1>10. CASE Intercept(c)
  <2>1. /\ stage[c] = "intercept" /\ stage' = [stage EXCEPT ![c] = "reply"]
        /\ UNCHANGED <<job, route, code, sent, accepted, taken>>
        /\ count' = [count EXCEPT !.grpc[<<MethodOf(c), code[c]>>] = @ + 1]
    BY <1>10, Zenon DEF Intercept
  <2>2. QED
    BY <2>1, OneCallMoves DEF Others, Replies
<1>11. QED
  BY <1>1, <1>2, <1>3, <1>4, <1>5, <1>6, <1>7, <1>8, <1>9, <1>10, Zenon DEF Handle

\* The Raft node takes a proposal.
LEMMA AcceptEffect ==
  ASSUME Ground, NEW c \in Call, Accept(c)
  PROVE  Others(c) /\ Lands(c)
<1>1. accepted[c] < sent[c] /\ UNCHANGED <<job, stage, route, code, sent, taken, count>>
  BY Zenon DEF Accept
<1>2. accepted' = [accepted EXCEPT ![c] = accepted[c] + 1]
  BY DEF Accept
<1>3. QED
  BY <1>1, <1>2, OneCallMoves DEF Others, Lands, SameCall

Kind(c) ==
  \/ Comes(c) \/ Passes(c) \/ Drops(c) \/ Refused(c) \/ Takes(c) \/ Sends(c)
  \/ (\E r \in Code : Hears(c, r)) \/ Gives(c) \/ Lands(c) \/ Learns(c) \/ Serves(c) \/ Fails(c)
  \/ Returns(c) \/ Replies(c)

\* run() and the probes leave the calls and the counters alone.
LEMMA MainEffect ==
  ASSUME Main \/ Signal \/ Elect \/ ListenAndServe \/ ProbeBegin \/ ProbeEnd
  PROVE  UNCHANGED <<job, stage, route, code, sent, accepted, taken, count>>
<1>1. ASSUME NEW s, GoOn(s) PROVE UNCHANGED <<job, stage, route, code, sent, accepted, taken, count>>
  BY <1>1, Zenon DEF GoOn, callVars, idVars
<1>2. QED
  BY <1>1, Zenon DEF Main, Restored, Listen, Register, GracefulStop, HttpShutdown,
     MetricsShutdown, Deferred, Deadline, Signal, Elect, ListenAndServe, ProbeBegin,
     ProbeEnd, callVars, idVars

\* Every step is one of one call, or none of the calls'.
LEMMA Steps1 ==
  ASSUME Ground, [Next]_vars
  PROVE  \/ UNCHANGED <<job, stage, route, code, sent, accepted, taken, count>>
         \/ \E c \in Call : Others(c) /\ Kind(c)
<1>1. CASE UNCHANGED vars
  BY <1>1 DEF vars, callVars, idVars
<1>2. CASE Main \/ Signal \/ Elect \/ ListenAndServe \/ ProbeBegin \/ ProbeEnd
  BY <1>2, MainEffect, Zenon
<1>3. ASSUME NEW c \in Call,
             \/ \E j \in Job : HttpArrive(c, j) \/ GrpcArrive(c, j)
             \/ RequestAdd(c) \/ RequestBatchAdd(c) \/ RequestQuery(c)
             \/ Invoke(c) \/ Handle(c) \/ Accept(c) \/ Deliver(c) \/ ClientGone(c)
      PROVE  Others(c) /\ Kind(c)
  <2>1. CASE Handle(c) /\ ~ Decode(c)
    BY <2>1, InnerEffect, Zenon DEF Kind
  <2>2. CASE Accept(c)
    BY <2>2, AcceptEffect, Zenon DEF Kind
  <2>3. CASE ~ (Handle(c) /\ ~ Decode(c)) /\ ~ Accept(c)
    BY <1>3, <2>3, OuterEffect, Zenon DEF Kind
  <2>4. QED
    BY <2>1, <2>2, <2>3
<1>4. QED
  BY <1>1, <1>2, <1>3, Zenon DEF Next

\* A call that has arrived asks for one of the methods.
LEMMA MethodType ==
  ASSUME Ground, NEW c \in Call, stage[c] # "new"
  PROVE  MethodOf(c) \in Method
BY JobAssumption DEF Ground, Routed, MethodOf, Jobs

\* One counter changes at a time.
LEMMA OneCounter ==
  ASSUME Ground, NEW v
  PROVE  /\ count' = [count EXCEPT !.requests = v] /\ v \in [Method \X {"success", "error"} -> Nat]
              => /\ CountShape' /\ count'.requests = v
                 /\ count'.grpc = count.grpc /\ count'.forwarded = count.forwarded
                 /\ count'.failed = count.failed /\ count'.proposals = count.proposals /\ count'.batches = count.batches
         /\ count' = [count EXCEPT !.grpc = v] /\ v \in [Method \X Code -> Nat]
              => /\ CountShape' /\ count'.grpc = v
                 /\ count'.requests = count.requests /\ count'.forwarded = count.forwarded
                 /\ count'.failed = count.failed /\ count'.proposals = count.proposals /\ count'.batches = count.batches
         /\ count' = [count EXCEPT !.forwarded = v] /\ v \in [Method -> Nat]
              => /\ CountShape' /\ count'.forwarded = v
                 /\ count'.requests = count.requests /\ count'.grpc = count.grpc
                 /\ count'.failed = count.failed /\ count'.proposals = count.proposals /\ count'.batches = count.batches
         /\ count' = [count EXCEPT !.failed = v] /\ v \in [Method -> Nat]
              => /\ CountShape' /\ count'.failed = v
                 /\ count'.requests = count.requests /\ count'.grpc = count.grpc /\ count'.forwarded = count.forwarded
                 /\ count'.proposals = count.proposals /\ count'.batches = count.batches
         /\ count' = [count EXCEPT !.proposals = v] /\ v \in [{"success", "error"} -> Nat]
              => /\ CountShape' /\ count'.proposals = v
                 /\ count'.requests = count.requests /\ count'.grpc = count.grpc /\ count'.forwarded = count.forwarded
                 /\ count'.failed = count.failed /\ count'.batches = count.batches
         /\ count' = [count EXCEPT !.batches = v] /\ v \in Nat
              => /\ CountShape' /\ count'.batches = v
                 /\ count'.requests = count.requests /\ count'.grpc = count.grpc /\ count'.forwarded = count.forwarded
                 /\ count'.failed = count.failed /\ count'.proposals = count.proposals
BY Zenon DEF Ground, CountShape

\* What the steps do to the counters.
LEMMA CountEffect ==
  ASSUME Ground, NEW c \in Call, Kind(c)
  PROVE  /\ CountShape'
         /\ \/ count'.requests = count.requests
            \/ Returns(c) /\ count'.requests = [count.requests EXCEPT
                                ![<<MethodOf(c), Outcome(c)>>] = count.requests[<<MethodOf(c), Outcome(c)>>] + 1]
         /\ \/ count'.grpc = count.grpc
            \/ Replies(c) /\ count'.grpc = [count.grpc EXCEPT
                                ![<<MethodOf(c), code[c]>>] = count.grpc[<<MethodOf(c), code[c]>>] + 1]
         /\ \/ count'.forwarded = count.forwarded
            \/ Sends(c) /\ count'.forwarded = [count.forwarded EXCEPT
                                ![MethodOf(c)] = count.forwarded[MethodOf(c)] + 1]
         /\ \/ count'.failed = count.failed
            \/ /\ \E r \in Code \ {"OK"} : Hears(c, r)
               /\ count'.failed = [count.failed EXCEPT ![MethodOf(c)] = count.failed[MethodOf(c)] + 1]
         /\ \/ count'.proposals["success"] = count.proposals["success"]
            \/ Learns(c) /\ count'.proposals["success"] = count.proposals["success"] + 1
         /\ \/ count'.proposals["error"] = count.proposals["error"]
            \/ Fails(c) /\ count'.proposals["error"] = count.proposals["error"] + 1
         /\ \/ count'.batches = count.batches
            \/ Takes(c) /\ MethodOf(c) = "BatchAdd" /\ count'.batches = count.batches + 1
<1>0. CountShape
  BY DEF Ground
<1>1. CASE count' = count
  BY <1>0, <1>1 DEF CountShape
<1>2. CASE Takes(c) /\ MethodOf(c) = "BatchAdd"
  <2>1. count' = [count EXCEPT !.batches = count.batches + 1]
    BY <1>2, Zenon DEF Takes
  <2>2. QED
    BY <1>0, <1>2, <2>1 DEF CountShape
<1>3. CASE Takes(c) /\ MethodOf(c) # "BatchAdd"
  <2>1. count' = [count EXCEPT !.batches = count.batches]
    BY <1>3 DEF Takes
  <2>2. count' = count
    BY <2>1, <1>0 DEF CountShape
  <2>3. QED
    BY <2>2, <1>1, Zenon
<1>4. CASE Sends(c)
  <2>1. MethodOf(c) \in Method
    BY <1>4, MethodType DEF Sends, Routes
  <2>2. count' = [count EXCEPT !.forwarded = [count.forwarded EXCEPT
                     ![MethodOf(c)] = count.forwarded[MethodOf(c)] + 1]]
    BY <1>4 DEF Sends
  <2>3. [count.forwarded EXCEPT ![MethodOf(c)] = count.forwarded[MethodOf(c)] + 1] \in [Method -> Nat]
    BY <1>0, <2>1 DEF CountShape
  <2>4. QED
    BY <1>4, <2>2, <2>3, OneCounter, Zenon
<1>5. CASE \E r \in Code : Hears(c, r)
  <2>1. PICK r \in Code : Hears(c, r)
    BY <1>5
  <2>2. MethodOf(c) \in Method
    BY <2>1, MethodType, Zenon DEF Hears
  <2>3. CASE r = "OK"
    <3>1. count' = [count EXCEPT !.failed = [count.failed EXCEPT
                      ![MethodOf(c)] = count.failed[MethodOf(c)]]]
      BY <2>1, <2>3 DEF Hears
    <3>2. [count.failed EXCEPT ![MethodOf(c)] = count.failed[MethodOf(c)]] = count.failed
      BY <1>0, <2>2 DEF CountShape
    <3>3. count' = count
      BY <1>0, <3>1, <3>2 DEF CountShape
    <3>4. QED
      BY <3>3, <1>1, Zenon
  <2>4. CASE r # "OK"
    <3>1. count' = [count EXCEPT !.failed = [count.failed EXCEPT
                      ![MethodOf(c)] = count.failed[MethodOf(c)] + 1]]
      BY <2>1, <2>4 DEF Hears
    <3>2. [count.failed EXCEPT ![MethodOf(c)] = count.failed[MethodOf(c)] + 1] \in [Method -> Nat]
      BY <1>0, <2>2 DEF CountShape
    <3>3. QED
      BY <2>1, <2>4, <3>1, <3>2, OneCounter, Zenon
  <2>5. QED
    BY <2>3, <2>4, Zenon
<1>6. CASE Learns(c)
  <2>1. count' = [count EXCEPT !.proposals = [count.proposals EXCEPT
                     !["success"] = count.proposals["success"] + 1]]
    BY <1>6 DEF Learns
  <2>2. [count.proposals EXCEPT !["success"] = count.proposals["success"] + 1]
          \in [{"success", "error"} -> Nat]
    BY <1>0 DEF CountShape
  <2>3. /\ count'.proposals["success"] = count.proposals["success"] + 1
        /\ count'.proposals["error"] = count.proposals["error"]
    BY <1>0, <2>1, <2>2, OneCounter, Zenon DEF CountShape
  <2>4. QED
    BY <1>6, <2>1, <2>2, <2>3, OneCounter, Zenon
<1>7. CASE Fails(c)
  <2>1. count' = [count EXCEPT !.proposals = [count.proposals EXCEPT
                     !["error"] = count.proposals["error"] + 1]]
    BY <1>7 DEF Fails
  <2>2. [count.proposals EXCEPT !["error"] = count.proposals["error"] + 1]
          \in [{"success", "error"} -> Nat]
    BY <1>0 DEF CountShape
  <2>3. /\ count'.proposals["success"] = count.proposals["success"]
        /\ count'.proposals["error"] = count.proposals["error"] + 1
    BY <1>0, <2>1, <2>2, OneCounter, Zenon DEF CountShape
  <2>4. QED
    BY <1>7, <2>1, <2>2, <2>3, OneCounter, Zenon
<1>8. CASE Returns(c)
  <2>1. <<MethodOf(c), Outcome(c)>> \in Method \X {"success", "error"}
    BY <1>8, MethodType DEF Returns, Outcome
  <2>2. count' = [count EXCEPT !.requests = [count.requests EXCEPT
                     ![<<MethodOf(c), Outcome(c)>>] = count.requests[<<MethodOf(c), Outcome(c)>>] + 1]]
    BY <1>8 DEF Returns
  <2>3. [count.requests EXCEPT
           ![<<MethodOf(c), Outcome(c)>>] = count.requests[<<MethodOf(c), Outcome(c)>>] + 1]
          \in [Method \X {"success", "error"} -> Nat]
    BY <1>0, <2>1 DEF CountShape
  <2>4. QED
    BY <1>8, <2>2, <2>3, OneCounter, Zenon
<1>9. CASE Replies(c)
  <2>1. <<MethodOf(c), code[c]>> \in Method \X Code
    BY <1>9, MethodType DEF Replies, Ground, IInv, Shape
  <2>2. count' = [count EXCEPT !.grpc = [count.grpc EXCEPT
                     ![<<MethodOf(c), code[c]>>] = count.grpc[<<MethodOf(c), code[c]>>] + 1]]
    BY <1>9 DEF Replies
  <2>3. [count.grpc EXCEPT
           ![<<MethodOf(c), code[c]>>] = count.grpc[<<MethodOf(c), code[c]>>] + 1]
          \in [Method \X Code -> Nat]
    BY <1>0, <2>1 DEF CountShape
  <2>4. QED
    BY <1>9, <2>2, <2>3, OneCounter, Zenon
<1>10. QED
  <2>1. \/ Comes(c) \/ Passes(c) \/ Drops(c) \/ Refused(c) \/ Gives(c) \/ Lands(c) \/ Serves(c)
        => count' = count
    BY Zenon DEF Comes, Passes, Drops, Refused, Gives, Lands, Serves
  <2>2. QED
    BY <2>1, <1>1, <1>2, <1>3, <1>4, <1>5, <1>6, <1>7, <1>8, <1>9, Zenon DEF Kind

\* The ground the counting stands on is kept.
LEMMA GroundStep == Ground /\ [Next]_vars => Ground'
<1> SUFFICES ASSUME Ground, [Next]_vars PROVE Ground'
  OBVIOUS
<1>1. IInv'
  BY NextIInv DEF Ground
<1>2. CASE UNCHANGED <<job, stage, route, code, sent, accepted, taken, count>>
  BY <1>1, <1>2 DEF Ground, CountShape, Routed, InTurn, IdsOf, MethodOf
<1>3. ASSUME NEW c \in Call, Others(c), Kind(c) PROVE Ground'
  <2>1. CountShape'
    BY <1>3, CountEffect, Zenon
  <2>2. \A d \in Call \ {c} : Routed(d)' /\ InTurn(d)'
    BY <1>3 DEF Others, Ground, Routed, InTurn, IdsOf, MethodOf
  <2>3. /\ IdsOf(c) \in Nat /\ taken[c] \in Nat /\ sent[c] \in Nat /\ accepted[c] \in Nat
        /\ Routed(c) /\ InTurn(c)
    BY IdsOfType DEF Ground, IInv, Shape
  <2>4. job'[c] = job[c] => IdsOf(c)' = IdsOf(c)
    BY DEF IdsOf, MethodOf
  <2>5. CASE Comes(c)
    <3>1. IdsOf(c)' \in Nat /\ taken'[c] = 0 /\ route'[c] = "none" /\ sent'[c] = 0 /\ accepted'[c] = 0
      BY <2>5, <2>3, JobAssumption DEF Comes, SameNode, Routed, InTurn, Early, IdsOf
    <3>2. Routed(c)'
      BY <2>5, <3>1 DEF Comes, Routed, Early, Late
    <3>3. InTurn(c)'
      BY <3>1 DEF InTurn
    <3>4. QED
      BY <1>1, <2>1, <2>2, <3>2, <3>3 DEF Ground
  <2>6. CASE ~ Comes(c)
    <3> USE DEF SameNode, SameCall
    <3>1. job'[c] = job[c]
      BY <1>3, <2>6, Zenon DEF Kind, Passes, Drops, Refused, Takes, Sends, Routes, Hears, Gives, Lands,
         Learns, Serves, Fails, Ends, Returns, Replies
    <3>2. Routed(c)'
      <4>1. CASE Passes(c) \/ Drops(c)
        BY <2>3, <2>4, <3>1, <4>1 DEF Passes, Drops, Routed, Early, Late, Handled
      <4>2. CASE Refused(c) \/ Takes(c) \/ Sends(c)
        BY <2>3, <2>4, <3>1, <4>2 DEF Refused, Takes, Sends, Routes, Routed, Early, Late, Handled
      <4>3. CASE \E r \in Code : Hears(c, r)
        BY <2>3, <2>4, <3>1, <4>3 DEF Hears, Routed, Early, Late
      <4>4. CASE Gives(c) \/ Lands(c) \/ Learns(c)
        BY <2>3, <2>4, <3>1, <4>4 DEF Gives, Lands, Learns, Routed, Early, Late
      <4>5. CASE Serves(c) \/ Fails(c)
        BY <2>3, <2>4, <3>1, <4>5 DEF Serves, Fails, Ends, Routed, Early, Late
      <4>6. CASE Returns(c) \/ Replies(c)
        BY <2>3, <2>4, <3>1, <4>6 DEF Returns, Replies, Routed, Early, Late
      <4>7. QED
        BY <1>3, <2>6, <4>1, <4>2, <4>3, <4>4, <4>5, <4>6, Zenon DEF Kind
    <3>3. InTurn(c)'
      <4>1. CASE Passes(c) \/ Serves(c) \/ Fails(c) \/ Returns(c) \/ Replies(c)
        BY <2>3, <2>4, <3>1, <4>1 DEF Passes, Serves, Fails, Ends, Returns, Replies, InTurn
      <4>2. CASE Drops(c) \/ Refused(c) \/ Takes(c) \/ Sends(c)
        BY <2>3, <2>4, <3>1, <4>2 DEF Drops, Refused, Takes, Sends, Routes, InTurn, Routed, Early
      <4>3. CASE \E r \in Code : Hears(c, r)
        BY <2>3, <2>4, <3>1, <4>3 DEF Hears, InTurn, Routed
      <4>4. CASE Gives(c) \/ Lands(c) \/ Learns(c)
        BY <2>3, <2>4, <3>1, <4>4 DEF Gives, Lands, Learns, InTurn, Routed
      <4>5. QED
        BY <1>3, <2>6, <4>1, <4>2, <4>3, <4>4, Zenon DEF Kind
    <3>4. QED
      BY <1>1, <2>1, <2>2, <3>2, <3>3 DEF Ground
  <2>7. QED
    BY <2>5, <2>6
<1>4. QED
  BY <1>2, <1>3, Steps1

\* It holds when the process starts.
LEMMA InitGround == Init => Ground
<1> SUFFICES ASSUME Init PROVE Ground
  OBVIOUS
<1>1. IInv
  BY InitIInv
<1>2. CountShape
  BY DEF Init, CountShape
<1>3. \A c \in Call : Routed(c)
  BY JobAssumption DEF Init, Routed, Early, Late, NoJob, IdsOf, MethodOf
<1>4. \A c \in Call : InTurn(c)
  BY JobAssumption DEF Init, InTurn, NoJob, IdsOf, MethodOf
<1>5. QED
  BY <1>1, <1>2, <1>3, <1>4 DEF Ground
-----------------------------------------------------------------------------
(* Each counter is the size of a set of calls, or of ids, that only grows:  *)
(* no call leaves it, and one enters exactly when the counter is raised.    *)

Requested(m, s) ==
  {c \in Call : MethodOf(c) = m /\ Outcome(c) = s /\ route[c] \in Handled /\ stage[c] \in Late}
Replied(m, k) ==
  {c \in Call : MethodOf(c) = m /\ code[c] = k /\ route[c] \in Handled /\ stage[c] \in {"reply", "end"}}
Sent(m) == {c \in Call : MethodOf(c) = m /\ route[c] = "peer"}
Failed(m) == {c \in Sent(m) : stage[c] # "peer" /\ code[c] # "OK"}
Known == {p \in Call \X (1 .. BatchLen) : route[p[1]] = "self" /\ p[2] <= taken[p[1]]}
Unheard == {c \in Call : route[c] = "self" /\ stage[c] # "self" /\ code[c] # "OK"}
Observed == {c \in Call : MethodOf(c) = "BatchAdd" /\ route[c] = "self"}

Tally ==
  /\ \A m \in Method, s \in {"success", "error"} :
       count.requests[<<m, s>>] = Cardinality(Requested(m, s))
  /\ \A m \in Method, k \in Code : count.grpc[<<m, k>>] = Cardinality(Replied(m, k))
  /\ \A m \in Method : count.forwarded[m] = Cardinality(Sent(m))
  /\ \A m \in Method : count.failed[m] = Cardinality(Failed(m))
  /\ count.proposals["success"] = Cardinality(Known)
  /\ count.proposals["error"] = Cardinality(Unheard)
  /\ count.batches = Cardinality(Observed)

\* T holds what S holds, or one element more.
Grows(S, T, n, k) ==
  \/ T = S /\ k = n
  \/ \E x : x \notin S /\ T = S \cup {x} /\ k = n + 1

\* A set of calls grows by the call that moves, or not at all.
LEMMA OneMore ==
  ASSUME NEW c \in Call, NEW S \in SUBSET Call, NEW T \in SUBSET Call, NEW n, NEW k,
         \A d \in Call \ {c} : d \in T <=> d \in S,
         c \in S => c \in T, k = IF c \in T \ S THEN n + 1 ELSE n
  PROVE  Grows(S, T, n, k)
<1>1. CASE c \in T \ S
  <2>1. T = S \cup {c}
    BY <1>1
  <2>2. QED
    BY <1>1, <2>1 DEF Grows
<1>2. CASE c \notin T \ S
  <2>1. T = S
    BY <1>2
  <2>2. QED
    BY <1>2, <2>1 DEF Grows
<1>3. QED
  BY <1>1, <1>2

\* Requests: a call enters when its handler's deferred function runs.
LEMMA RequestsGrow ==
  ASSUME Ground, NEW c \in Call, Others(c), Kind(c), NEW m \in Method, NEW s \in {"success", "error"}
  PROVE  Grows(Requested(m, s), Requested(m, s)', count.requests[<<m, s>>], count'.requests[<<m, s>>])
<1>1. \A d \in Call \ {c} : d \in Requested(m, s)' <=> d \in Requested(m, s)
  BY Zenon DEF Others, Requested, MethodOf, Outcome
<1>2. Routed(c) /\ count.requests \in [Method \X {"success", "error"} -> Nat]
  BY DEF Ground, CountShape
<1>3. CASE Returns(c)
  <2>1. count'.requests = [count.requests EXCEPT
             ![<<MethodOf(c), Outcome(c)>>] = count.requests[<<MethodOf(c), Outcome(c)>>] + 1]
    BY <1>3 DEF Returns, Ground, CountShape
  <2>2. c \notin Requested(m, s)
    BY <1>3 DEF Returns, Requested, Late
  <2>3. c \in Requested(m, s)' <=> m = MethodOf(c) /\ s = Outcome(c)
    BY <1>2, <1>3, Zenon DEF Returns, Requested, Late, Early, Routed, MethodOf, Outcome
  <2>4. count'.requests[<<m, s>>] = IF m = MethodOf(c) /\ s = Outcome(c)
                                    THEN count.requests[<<m, s>>] + 1 ELSE count.requests[<<m, s>>]
    BY <1>2, <2>1
  <2>5. QED
    BY <1>1, <2>2, <2>3, <2>4, OneMore, Zenon DEF Requested
<1>4. CASE ~ Returns(c)
  <2>1. count'.requests = count.requests
    BY <1>4, CountEffect, Zenon
  <2>2. c \in Requested(m, s) <=> c \in Requested(m, s)'
    <3>1. CASE Comes(c) \/ Passes(c) \/ Drops(c)
      BY <1>2, <3>1 DEF Comes, Passes, Drops, Requested, Late, Early, Routed, Handled, MethodOf, Outcome
    <3>2. CASE Refused(c) \/ Takes(c) \/ Sends(c)
      BY <1>2, <3>2 DEF Refused, Takes, Sends, Routes, Requested, Late
    <3>3. CASE (\E r \in Code : Hears(c, r)) \/ Gives(c) \/ Learns(c) \/ Serves(c) \/ Fails(c)
      BY <1>2, <3>3 DEF Hears, Gives, Learns, Serves, Fails, Ends, SameCall, Requested, Late
    <3>5. CASE Lands(c)
      BY <3>5, Zenon DEF Lands, SameCall, Requested, MethodOf, Outcome
    <3>4. CASE Replies(c)
      BY <3>4, Zenon DEF Replies, Requested, Late, MethodOf, Outcome
    <3>6. QED
      BY <1>4, <3>1, <3>2, <3>3, <3>4, <3>5, Zenon DEF Kind
  <2>3. QED
    BY <1>1, <2>1, <2>2, OneMore, Zenon DEF Requested
<1>5. QED
  BY <1>3, <1>4

\* RPCs: a call enters when the interceptor has counted it.
LEMMA RepliesGrow ==
  ASSUME Ground, NEW c \in Call, Others(c), Kind(c), NEW m \in Method, NEW k \in Code
  PROVE  Grows(Replied(m, k), Replied(m, k)', count.grpc[<<m, k>>], count'.grpc[<<m, k>>])
<1>1. \A d \in Call \ {c} : d \in Replied(m, k)' <=> d \in Replied(m, k)
  BY Zenon DEF Others, Replied, MethodOf
<1>2. Routed(c) /\ count.grpc \in [Method \X Code -> Nat]
  BY DEF Ground, CountShape
<1>3. CASE Replies(c)
  <2>1. count'.grpc = [count.grpc EXCEPT
             ![<<MethodOf(c), code[c]>>] = count.grpc[<<MethodOf(c), code[c]>>] + 1]
    BY <1>3 DEF Replies, Ground, CountShape
  <2>2. c \notin Replied(m, k)
    BY <1>3 DEF Replies, Replied
  <2>3. c \in Replied(m, k)' <=> m = MethodOf(c) /\ k = code[c]
    BY <1>2, <1>3, Zenon DEF Replies, Replied, Early, Routed, MethodOf
  <2>4. count'.grpc[<<m, k>>] = IF m = MethodOf(c) /\ k = code[c]
                                THEN count.grpc[<<m, k>>] + 1 ELSE count.grpc[<<m, k>>]
    BY <1>2, <2>1
  <2>5. QED
    BY <1>1, <2>2, <2>3, <2>4, OneMore, Zenon DEF Replied
<1>4. CASE ~ Replies(c)
  <2>1. count'.grpc = count.grpc
    BY <1>4, CountEffect, Zenon
  <2>2. c \in Replied(m, k) <=> c \in Replied(m, k)'
    <3>1. CASE Comes(c) \/ Passes(c) \/ Drops(c)
      BY <1>2, <3>1 DEF Comes, Passes, Drops, Replied, Early, Routed, Handled, MethodOf
    <3>2. CASE Refused(c) \/ Takes(c) \/ Sends(c)
      BY <3>2 DEF Refused, Takes, Sends, Routes, Replied
    <3>3. CASE (\E r \in Code : Hears(c, r)) \/ Gives(c) \/ Learns(c) \/ Serves(c) \/ Fails(c) \/ Returns(c)
      BY <3>3 DEF Hears, Gives, Learns, Serves, Fails, Ends, SameCall, Returns, Replied
    <3>4. CASE Lands(c)
      BY <3>4, Zenon DEF Lands, SameCall, Replied, MethodOf
    <3>5. QED
      BY <1>4, <3>1, <3>2, <3>3, <3>4, Zenon DEF Kind
  <2>3. QED
    BY <1>1, <2>1, <2>2, OneMore, Zenon DEF Replied
<1>5. QED
  BY <1>3, <1>4

\* Forwards: a call enters before it is sent to the peer.
LEMMA ForwardsGrow ==
  ASSUME Ground, NEW c \in Call, Others(c), Kind(c), NEW m \in Method
  PROVE  Grows(Sent(m), Sent(m)', count.forwarded[m], count'.forwarded[m])
<1>1. \A d \in Call \ {c} : d \in Sent(m)' <=> d \in Sent(m)
  BY Zenon DEF Others, Sent, MethodOf
<1>2. Routed(c) /\ count.forwarded \in [Method -> Nat]
  BY Zenon DEF Ground, CountShape
<1>3. CASE Sends(c)
  <2>1. count'.forwarded = [count.forwarded EXCEPT ![MethodOf(c)] = count.forwarded[MethodOf(c)] + 1]
    BY <1>3 DEF Sends, Ground, CountShape
  <2>2. c \notin Sent(m)
    BY <1>2, <1>3 DEF Sends, Routes, Sent, Routed, Early
  <2>3. c \in Sent(m)' <=> m = MethodOf(c)
    BY <1>3 DEF Sends, Routes, Sent, MethodOf
  <2>4. count'.forwarded[m] = IF m = MethodOf(c) THEN count.forwarded[m] + 1 ELSE count.forwarded[m]
    BY <1>2, <2>1, Zenon
  <2>5. QED
    BY <1>1, <2>2, <2>3, <2>4, OneMore DEF Sent
<1>4. CASE ~ Sends(c)
  <2>1. count'.forwarded = count.forwarded
    BY <1>4, CountEffect, Zenon
  <2>2. c \in Sent(m) <=> c \in Sent(m)'
    <3>1. CASE Comes(c) \/ Drops(c) \/ Refused(c) \/ Takes(c)
      BY <1>2, <3>1 DEF Comes, Drops, Refused, Takes, Routes, Sent, Early, Routed
    <3>2. CASE Passes(c) \/ (\E r \in Code : Hears(c, r)) \/ Returns(c) \/ Replies(c)
      BY <3>2 DEF Passes, Hears, Returns, Replies, Sent, MethodOf
    <3>3. CASE Gives(c) \/ Lands(c) \/ Learns(c) \/ Serves(c) \/ Fails(c)
      BY <3>3 DEF Gives, Lands, Learns, Serves, Fails, Ends, SameCall, Sent, MethodOf
    <3>4. QED
      BY <1>4, <3>1, <3>2, <3>3, Zenon DEF Kind
  <2>3. QED
    BY <1>1, <2>1, <2>2, OneMore, Zenon DEF Sent
<1>5. QED
  BY <1>3, <1>4

\* Failed forwards: a call enters when its peer has answered with an error.
LEMMA FailuresGrow ==
  ASSUME Ground, NEW c \in Call, Others(c), Kind(c), NEW m \in Method
  PROVE  Grows(Failed(m), Failed(m)', count.failed[m], count'.failed[m])
<1>1. \A d \in Call \ {c} : d \in Failed(m)' <=> d \in Failed(m)
  BY Zenon DEF Others, Failed, Sent, MethodOf
<1>2. Routed(c) /\ count.failed \in [Method -> Nat]
  BY DEF Ground, CountShape
<1>3. ASSUME NEW r \in Code \ {"OK"}, Hears(c, r)
      PROVE  Grows(Failed(m), Failed(m)', count.failed[m], count'.failed[m])
  <2>1. count'.failed = [count.failed EXCEPT ![MethodOf(c)] = count.failed[MethodOf(c)] + 1]
    BY <1>3 DEF Hears, Ground, CountShape
  <2>2. c \notin Failed(m)
    BY <1>3 DEF Hears, Failed
  <2>3. c \in Failed(m)' <=> m = MethodOf(c)
    BY <1>2, <1>3 DEF Hears, Failed, Sent, MethodOf, Routed
  <2>4. count'.failed[m] = IF m = MethodOf(c) THEN count.failed[m] + 1 ELSE count.failed[m]
    BY <1>2, <2>1, Zenon
  <2>5. QED
    BY <1>1, <2>2, <2>3, <2>4, OneMore, Zenon DEF Failed, Sent
<1>4. CASE ~ \E r \in Code \ {"OK"} : Hears(c, r)
  <2>1. count'.failed = count.failed
    BY <1>4, CountEffect, Zenon
  <2>2. c \in Failed(m) <=> c \in Failed(m)'
    <3>1. CASE Comes(c) \/ Drops(c) \/ Refused(c) \/ Takes(c) \/ Sends(c)
      BY <1>2, <3>1 DEF Comes, Drops, Refused, Takes, Sends, Routes, Failed, Sent, Early, Routed
    <3>2. CASE Passes(c)
      BY <1>2, <3>2, Zenon DEF Passes, Failed, Sent, MethodOf, Early, Routed
    <3>3. CASE \E r \in Code : Hears(c, r)
      BY <1>4, <3>3 DEF Hears, Failed, Code
    <3>4. CASE Gives(c) \/ Learns(c) \/ Serves(c) \/ Fails(c)
      BY <1>2, <3>4 DEF Gives, Learns, Serves, Fails, Ends, SameCall, Failed, Sent, Routed
    <3>5. CASE Returns(c) \/ Replies(c)
      BY <3>5 DEF Returns, Replies, Failed, Sent, MethodOf
    <3>6. CASE Lands(c)
      BY <3>6 DEF Lands, SameCall, Failed, Sent, MethodOf
    <3>7. QED
      BY <3>1, <3>2, <3>3, <3>4, <3>5, <3>6, Zenon DEF Kind
  <2>3. QED
    BY <1>1, <2>1, <2>2, OneMore DEF Failed, Sent
<1>5. QED
  BY <1>3, <1>4

\* Batches: one enters when its owner takes it.
LEMMA BatchesGrow ==
  ASSUME Ground, NEW c \in Call, Others(c), Kind(c)
  PROVE  Grows(Observed, Observed', count.batches, count'.batches)
<1>1. \A d \in Call \ {c} : d \in Observed' <=> d \in Observed
  BY Zenon DEF Others, Observed, MethodOf
<1>2. Routed(c) /\ count.batches \in Nat
  BY Zenon DEF Ground, CountShape
<1>3. CASE Takes(c) /\ MethodOf(c) = "BatchAdd"
  <2>1. count'.batches = count.batches + 1
    BY <1>3 DEF Takes, Ground, CountShape
  <2>2. c \notin Observed /\ c \in Observed'
    BY <1>2, <1>3 DEF Takes, Routes, Observed, Routed, Early, MethodOf
  <2>3. QED
    BY <1>1, <2>1, <2>2, OneMore, Zenon DEF Observed
<1>4. CASE ~ (Takes(c) /\ MethodOf(c) = "BatchAdd")
  <2>1. count'.batches = count.batches
    BY <1>4, CountEffect, Zenon
  <2>2. c \in Observed <=> c \in Observed'
    <3>1. CASE Comes(c) \/ Drops(c) \/ Refused(c) \/ Sends(c) \/ Takes(c)
      BY <1>2, <1>4, <3>1, Zenon DEF Comes, Drops, Refused, Sends, Takes, Routes, Observed, Early,
         Routed, MethodOf
    <3>2. CASE Passes(c) \/ (\E r \in Code : Hears(c, r)) \/ Returns(c) \/ Replies(c)
      BY <3>2 DEF Passes, Hears, Returns, Replies, Observed, MethodOf
    <3>3. CASE Gives(c) \/ Lands(c) \/ Learns(c) \/ Serves(c) \/ Fails(c)
      BY <3>3 DEF Gives, Lands, Learns, Serves, Fails, Ends, SameCall, Observed, MethodOf
    <3>4. QED
      BY <3>1, <3>2, <3>3, Zenon DEF Kind
  <2>3. QED
    BY <1>1, <2>1, <2>2, OneMore DEF Observed
<1>5. QED
  BY <1>3, <1>4

\* Failed proposals: a call enters when its handler gives up.
LEMMA UnheardGrow ==
  ASSUME Ground, NEW c \in Call, Others(c), Kind(c)
  PROVE  Grows(Unheard, Unheard', count.proposals["error"], count'.proposals["error"])
<1>1. \A d \in Call \ {c} : d \in Unheard' <=> d \in Unheard
  BY Zenon DEF Others, Unheard
<1>2. Routed(c) /\ count.proposals \in [{"success", "error"} -> Nat]
  BY DEF Ground, CountShape
<1>3. CASE Fails(c)
  <2>1. count'.proposals["error"] = count.proposals["error"] + 1
    BY <1>3 DEF Fails, Ground, CountShape
  <2>2. c \notin Unheard /\ c \in Unheard'
    BY <1>2, <1>3 DEF Fails, Ends, Unheard, Routed
  <2>3. QED
    BY <1>1, <2>1, <2>2, OneMore, Zenon DEF Unheard
<1>4. CASE ~ Fails(c)
  <2>1. count'.proposals["error"] = count.proposals["error"]
    BY <1>4, CountEffect, Zenon
  <2>2. c \in Unheard <=> c \in Unheard'
    <3>1. CASE Comes(c) \/ Drops(c) \/ Refused(c) \/ Takes(c) \/ Sends(c)
      BY <1>2, <3>1 DEF Comes, Drops, Refused, Takes, Sends, Routes, Unheard, Early, Routed
    <3>2. CASE Passes(c)
      BY <1>2, <3>2, Zenon DEF Passes, Unheard, Early, Routed
    <3>3. CASE \E r \in Code : Hears(c, r)
      BY <1>2, <3>3 DEF Hears, Unheard, Routed
    <3>4. CASE Gives(c) \/ Lands(c) \/ Learns(c)
      BY <3>4 DEF Gives, Lands, Learns, SameCall, Unheard
    <3>5. CASE Serves(c)
      BY <1>2, <3>5 DEF Serves, Ends, Unheard
    <3>6. CASE Returns(c) \/ Replies(c)
      BY <3>6 DEF Returns, Replies, Unheard
    <3>7. QED
      BY <1>4, <3>1, <3>2, <3>3, <3>4, <3>5, <3>6, Zenon DEF Kind
  <2>3. QED
    BY <1>1, <2>1, <2>2, OneMore, Zenon DEF Unheard
<1>5. QED
  BY <1>3, <1>4

\* No call has more ids than a batch.
LEMMA IdsBound == \A c \in Call : IdsOf(c) \in Nat /\ IdsOf(c) <= BatchLen
BY JobAssumption DEF IdsOf

\* Proposals: an id enters when its handler has heard of its acceptance.
LEMMA ProposalsGrow ==
  ASSUME Ground, NEW c \in Call, Others(c), Kind(c)
  PROVE  Grows(Known, Known', count.proposals["success"], count'.proposals["success"])
<1> DEFINE In(d, i) == route[d] = "self" /\ i <= taken[d]
<1>1. /\ \A p \in Call \X (1 .. BatchLen) : p \in Known <=> In(p[1], p[2])
      /\ \A p \in Call \X (1 .. BatchLen) : p \in Known' <=> In(p[1], p[2])'
      /\ Known \subseteq Call \X (1 .. BatchLen) /\ Known' \subseteq Call \X (1 .. BatchLen)
  BY Zenon DEF Known
<1>2. \A d \in Call \ {c} : \A i \in 1 .. BatchLen : In(d, i)' <=> In(d, i)
  BY Zenon DEF Others
<1>3. /\ Routed(c) /\ InTurn(c) /\ taken[c] \in Nat /\ accepted[c] \in Nat /\ sent[c] \in Nat
      /\ IdsOf(c) \in Nat /\ IdsOf(c) <= BatchLen /\ BatchLen \in Nat
      /\ count.proposals["success"] \in Nat
  BY IdsBound, JobAssumption DEF Ground, CountShape, IInv, Shape
<1>4. CASE Learns(c)
  <2>1. count'.proposals["success"] = count.proposals["success"] + 1
    BY <1>4 DEF Learns, Ground, CountShape
  <2>2. /\ taken[c] + 1 \in 1 .. BatchLen
        /\ route[c] = "self" /\ route'[c] = "self" /\ taken'[c] = taken[c] + 1
    BY <1>3, <1>4 DEF Learns, SameCall, Routed, InTurn
  <2>3. \A i \in 1 .. BatchLen : In(c, i)' <=> In(c, i) \/ i = taken[c] + 1
    BY <1>3, <2>2
  <2>4. ~ In(c, taken[c] + 1)
    BY <1>3
  <2>5. <<c, taken[c] + 1>> \in Call \X (1 .. BatchLen) /\ <<c, taken[c] + 1>> \notin Known
    BY <1>1, <2>2, <2>4
  <2>6. ASSUME NEW p \in Call \X (1 .. BatchLen)
        PROVE  p \in Known' <=> p \in Known \/ p = <<c, taken[c] + 1>>
    <3>1. p[1] \in Call /\ p[2] \in 1 .. BatchLen /\ p = <<p[1], p[2]>>
      OBVIOUS
    <3>2. CASE p[1] = c
      <4>1. In(p[1], p[2])' <=> In(p[1], p[2]) \/ p[2] = taken[c] + 1
        BY <2>3, <3>1, <3>2
      <4>2. p = <<c, taken[c] + 1>> <=> p[2] = taken[c] + 1
        BY <3>1, <3>2
      <4>3. QED
        BY <4>1, <4>2, <1>1, Zenon
    <3>3. CASE p[1] # c
      <4>1. In(p[1], p[2])' <=> In(p[1], p[2])
        BY <1>2, <3>1, <3>3
      <4>2. p # <<c, taken[c] + 1>>
        BY <3>3
      <4>3. QED
        BY <4>1, <4>2, <1>1, Zenon
    <3>4. QED
      BY <3>2, <3>3
  <2>7. Known' = Known \cup {<<c, taken[c] + 1>>}
    BY <1>1, <2>5, <2>6, Zenon
  <2>8. QED
    BY <2>1, <2>5, <2>7, Zenon DEF Grows
<1>5. CASE ~ Learns(c)
  <2>1. count'.proposals["success"] = count.proposals["success"]
    BY <1>5, CountEffect, Zenon
  <2>2. ASSUME NEW i \in 1 .. BatchLen PROVE In(c, i)' <=> In(c, i)
    <3>1. CASE Comes(c) \/ Drops(c) \/ Refused(c) \/ Takes(c) \/ Sends(c)
      BY <1>3, <3>1 DEF Comes, Drops, Refused, Takes, Sends, Routes, Early, Routed
    <3>2. CASE \E r \in Code : Hears(c, r)
      BY <1>3, <3>2 DEF Hears, Routed
    <3>3. CASE Passes(c) \/ Returns(c) \/ Replies(c)
      BY <3>3 DEF Passes, Returns, Replies
    <3>4. CASE Gives(c) \/ Lands(c) \/ Serves(c) \/ Fails(c)
      BY <3>4 DEF Gives, Lands, Serves, Fails, Ends, SameCall
    <3>5. QED
      BY <1>5, <3>1, <3>2, <3>3, <3>4, Zenon DEF Kind
  <2>3. ASSUME NEW p \in Call \X (1 .. BatchLen) PROVE p \in Known' <=> p \in Known
    <3>1. p[1] \in Call /\ p[2] \in 1 .. BatchLen
      OBVIOUS
    <3>2. In(p[1], p[2])' <=> In(p[1], p[2])
      BY <1>2, <2>2, <3>1
    <3>3. QED
      BY <3>2, <1>1, Zenon
  <2>4. Known' = Known
    BY <1>1, <2>3, Zenon
  <2>5. QED
    BY <2>1, <2>4, Zenon DEF Grows
<1>6. QED
  BY <1>4, <1>5

INSTANCE FiniteSetTheorems

\* Counters keep up with sets that grow so.
LEMMA KeepsUp ==
  ASSUME NEW S, NEW T, NEW n, NEW k, IsFiniteSet(S), n = Cardinality(S), Grows(S, T, n, k)
  PROVE  k = Cardinality(T)
<1>1. CASE T = S /\ k = n
  BY <1>1
<1>2. ASSUME NEW x, x \notin S, T = S \cup {x}, k = n + 1 PROVE k = Cardinality(T)
  BY <1>2, FS_AddElement
<1>3. QED
  BY <1>1, <1>2, Zenon DEF Grows

\* All of them are finite.
LEMMA Finite ==
  /\ \A S \in SUBSET Call : IsFiniteSet(S)
  /\ \A S \in SUBSET (Call \X (1 .. BatchLen)) : IsFiniteSet(S)
<1>1. IsFiniteSet(Call)
  BY JobAssumption, FS_Interval DEF Call
<1>2. IsFiniteSet(1 .. BatchLen)
  BY JobAssumption, FS_Interval
<1>3. IsFiniteSet(Call \X (1 .. BatchLen))
  BY <1>1, <1>2, FS_Product, Zenon
<1>4. QED
  BY <1>1, <1>3, FS_Subset

\* Every step keeps the counters in step with their sets.
LEMMA TallyStep == Ground /\ Tally /\ [Next]_vars => Tally'
<1> SUFFICES ASSUME Ground, Tally, [Next]_vars PROVE Tally'
  OBVIOUS
<1>1. CASE UNCHANGED <<job, stage, route, code, sent, accepted, taken, count>>
  <2>1. /\ \A m, s : Requested(m, s)' = Requested(m, s) /\ Replied(m, s)' = Replied(m, s)
        /\ \A m : Sent(m)' = Sent(m) /\ Failed(m)' = Failed(m)
        /\ Known' = Known /\ Unheard' = Unheard /\ Observed' = Observed
    BY <1>1 DEF Requested, Replied, Sent, Failed, Known, Unheard, Observed, MethodOf, Outcome
  <2>2. QED
    BY <1>1, <2>1, Zenon DEF Tally
<1>2. ASSUME NEW c \in Call, Others(c), Kind(c) PROVE Tally'
  <2>1. ASSUME NEW m \in Method, NEW s \in {"success", "error"}
        PROVE  count'.requests[<<m, s>>] = Cardinality(Requested(m, s)')
    <3>1. IsFiniteSet(Requested(m, s))
      BY Finite, Zenon DEF Requested
    <3>2. QED
      BY <1>2, <3>1, RequestsGrow, KeepsUp, Zenon DEF Tally
  <2>2. ASSUME NEW m \in Method, NEW k \in Code
        PROVE  count'.grpc[<<m, k>>] = Cardinality(Replied(m, k)')
    <3>1. IsFiniteSet(Replied(m, k))
      BY Finite, Zenon DEF Replied
    <3>2. QED
      BY <1>2, <3>1, RepliesGrow, KeepsUp, Zenon DEF Tally
  <2>3. ASSUME NEW m \in Method PROVE count'.forwarded[m] = Cardinality(Sent(m)')
    <3>1. IsFiniteSet(Sent(m))
      BY Finite, Zenon DEF Sent
    <3>2. QED
      BY <1>2, <3>1, ForwardsGrow, KeepsUp, Zenon DEF Tally
  <2>4. ASSUME NEW m \in Method PROVE count'.failed[m] = Cardinality(Failed(m)')
    <3>1. IsFiniteSet(Failed(m))
      BY Finite, Zenon DEF Failed, Sent
    <3>2. QED
      BY <1>2, <3>1, FailuresGrow, KeepsUp DEF Tally
  <2>5. count'.proposals["success"] = Cardinality(Known')
    <3>1. IsFiniteSet(Known)
      BY Finite, Zenon DEF Known
    <3>2. QED
      BY <1>2, <3>1, ProposalsGrow, KeepsUp, Zenon DEF Tally
  <2>6. count'.batches = Cardinality(Observed')
    <3>1. IsFiniteSet(Observed)
      BY Finite DEF Observed
    <3>2. QED
      BY <1>2, <3>1, BatchesGrow, KeepsUp DEF Tally
  <2>7. count'.proposals["error"] = Cardinality(Unheard')
    <3>1. IsFiniteSet(Unheard)
      BY Finite, Zenon DEF Unheard
    <3>2. QED
      BY <1>2, <3>1, UnheardGrow, KeepsUp, Zenon DEF Tally
  <2>8. QED
    BY <2>1, <2>2, <2>3, <2>4, <2>5, <2>6, <2>7, Zenon DEF Tally
<1>3. QED
  BY <1>1, <1>2, Steps1

\* Nothing has been counted when the process starts.
LEMMA InitTally == Init => Tally
<1> SUFFICES ASSUME Init PROVE Tally
  OBVIOUS
<1>1. \A c \in Call : route[c] = "none"
  BY Zenon DEF Init
<1>2. /\ \A m, s : Requested(m, s) = {} /\ Replied(m, s) = {}
      /\ \A m : Sent(m) = {} /\ Failed(m) = {}
      /\ Known = {} /\ Unheard = {} /\ Observed = {}
  BY <1>1 DEF Requested, Replied, Sent, Failed, Known, Unheard, Observed, Handled
<1>3. Cardinality({}) = 0
  BY FS_EmptySet
<1>4. QED
  BY <1>2, <1>3, Zenon DEF Init, Tally

\* The counters are the sizes of their sets in every reachable state.
LEMMA Counted == Spec => [](Ground /\ Tally)
BY InitGround, InitTally, GroundStep, TallyStep, PTL DEF Spec

\* A client is told OK only if every id of its call was accepted, by the node
\* itself where the group is this server's, for any number of calls and
\* batches of any length (Add, BatchAdd and the stubs).
THEOREM OkMeansAcceptedTheorem == Spec => []OkMeansAccepted
<1>1. ASSUME Ground PROVE OkMeansAccepted
  <2> SUFFICES ASSUME NEW c \in Call, res[c] = "OK"
               PROVE  taken[c] = IdsOf(c) /\ (route[c] = "self" => accepted[c] = IdsOf(c))
    BY DEF OkMeansAccepted
  <2>1. taken[c] = IdsOf(c)
    BY <1>1 DEF Ground, IInv, CallOk
  <2>2. /\ InTurn(c) /\ accepted[c] \in Nat /\ sent[c] \in Nat /\ IdsOf(c) \in Nat
    BY <1>1, IdsOfType DEF Ground, IInv, Shape
  <2>3. QED
    BY <2>1, <2>2 DEF InTurn
<1>2. QED
  BY <1>1, Counted, PTL

\* Sets of calls that have nothing in common add up.
LEMMA AddsUp ==
  ASSUME NEW S \in SUBSET Call, NEW T \in SUBSET Call, S \cap T = {}
  PROVE  Cardinality(S \cup T) = Cardinality(S) + Cardinality(T) /\ Cardinality(S) \in Nat
<1>1. IsFiniteSet(S) /\ IsFiniteSet(T)
  BY Finite
<1>2. Cardinality(S) \in Nat /\ Cardinality(T) \in Nat
  BY <1>1, FS_CardinalityType
<1>3. Cardinality(S \cup T) = Cardinality(S) + Cardinality(T) - Cardinality(S \cap T)
  BY <1>1, FS_Union
<1>4. QED
  BY <1>2, <1>3, FS_EmptySet

\* The interceptor's counter and the handlers' agree but for the calls
\* between the two and those no handler has seen, however many calls are
\* handled at once (UnaryMetricsInterceptor and the deferred functions of
\* grpc.go).
THEOREM LayersAgreeTheorem == Spec => []LayersAgree
<1>1. ASSUME Ground, Tally, NEW m \in Method
      PROVE
        /\ count.requests[<<m, "success">>] =
             Cardinality({c \in Call : stage[c] = "intercept" /\ MethodOf(c) = m /\ Outcome(c) = "success"})
               + count.grpc[<<m, "OK">>]
        /\ count.requests[<<m, "error">>] =
             Cardinality({c \in Call : stage[c] = "intercept" /\ MethodOf(c) = m /\ Outcome(c) = "error"})
               + (count.grpc[<<m, "InvalidArgument">>] + count.grpc[<<m, "Internal">>]
                    + count.grpc[<<m, "Unavailable">>])
  <2> DEFINE B(s) == {c \in Call : stage[c] = "intercept" /\ MethodOf(c) = m /\ Outcome(c) = s}
             A3 == Replied(m, "InvalidArgument")
             I3 == Replied(m, "Internal")
             U3 == Replied(m, "Unavailable")
  <2>1. \A c \in Call : (stage[c] = "intercept" => route[c] \in Handled) /\ code[c] \in Code
    BY <1>1, Zenon DEF Ground, Routed, Early, IInv, Shape
  <2>2. Requested(m, "success") = B("success") \cup Replied(m, "OK")
    BY <2>1, Zenon DEF Requested, Replied, Late, Outcome
  <2>3. Requested(m, "error") = B("error") \cup ((A3 \cup I3) \cup U3)
    BY <2>1, Zenon DEF Requested, Replied, Late, Outcome, Code
  <2>4. /\ B("success") \cap Replied(m, "OK") = {} /\ B("error") \cap ((A3 \cup I3) \cup U3) = {}
        /\ A3 \cap I3 = {} /\ (A3 \cup I3) \cap U3 = {}
    BY Zenon DEF Replied
  <2>5. /\ B("success") \in SUBSET Call /\ B("error") \in SUBSET Call
        /\ \A k : Replied(m, k) \in SUBSET Call
    BY Zenon DEF Replied
  <2>6. Cardinality(Requested(m, "success")) = Cardinality(B("success")) + Cardinality(Replied(m, "OK"))
    BY <2>2, <2>4, <2>5, AddsUp
  <2>7. Cardinality(Requested(m, "error"))
          = Cardinality(B("error")) + (Cardinality(A3) + Cardinality(I3) + Cardinality(U3))
    <3> HIDE DEF B, A3, I3, U3
    <3>1. Cardinality(A3 \cup I3) = Cardinality(A3) + Cardinality(I3)
      BY <2>4, <2>5, AddsUp, Zenon DEF A3, I3
    <3>2. Cardinality((A3 \cup I3) \cup U3) = Cardinality(A3 \cup I3) + Cardinality(U3)
      <4>1. A3 \cup I3 \in SUBSET Call /\ U3 \in SUBSET Call
        BY <2>5, Zenon DEF A3, I3, U3
      <4>2. QED
        BY <2>4, <4>1, AddsUp
    <3>3. Cardinality(Requested(m, "error")) = Cardinality(B("error")) + Cardinality((A3 \cup I3) \cup U3)
      <4>1. (A3 \cup I3) \cup U3 \in SUBSET Call
        BY <2>5, Zenon DEF A3, I3, U3
      <4>2. QED
        BY <2>3, <2>4, <2>5, <4>1, AddsUp
    <3>4. QED
      BY <3>1, <3>2, <3>3
  <2>8. QED
    BY <2>6, <2>7, <1>1 DEF Tally, Code
<1>2. ASSUME Ground, Tally PROVE LayersAgree
  <2> SUFFICES ASSUME NEW m \in Method, NEW s \in {"success", "error"},
                      NEW seen, seen = count.requests[<<m, s>>]
               PROVE  /\ count.requests[<<m, s>>] <= seen
                      /\ seen <= count.requests[<<m, s>>] + IF s = "success" THEN 0 ELSE
                           Cardinality({c \in Call : route[c] = "undecoded" /\ MethodOf(c) = m})
    BY <1>1, <1>2, Zenon DEF LayersAgree, Number
  <2>1. Cardinality({c \in Call : route[c] = "undecoded" /\ MethodOf(c) = m}) \in Nat
    BY Finite, FS_CardinalityType
  <2>2. count.requests[<<m, s>>] \in Nat
    BY <1>2 DEF Ground, CountShape
  <2>3. QED
    BY <2>1, <2>2
<1>3. QED
  BY <1>2, Counted, PTL

\* A batch is one request and one observation, whatever its length and
\* however many run at once (addID and BatchAdd of grpc.go).
THEOREM BatchIsOneRequestTheorem == Spec => []BatchIsOneRequest
<1>1. Ground /\ Tally => BatchIsOneRequest
  <2> SUFFICES ASSUME Ground, Tally PROVE BatchIsOneRequest
    OBVIOUS
  <2>1. ASSUME NEW m \in Method
        PROVE  count.requests[<<m, "success">>] + count.requests[<<m, "error">>]
                 = Cardinality({c \in Call : /\ MethodOf(c) = m /\ route[c] \in Handled
                                             /\ stage[c] \in {"intercept", "reply", "end"}})
    <3>1. {c \in Call : /\ MethodOf(c) = m /\ route[c] \in Handled
                        /\ stage[c] \in {"intercept", "reply", "end"}}
            = Requested(m, "success") \cup Requested(m, "error")
      BY Zenon DEF Requested, Outcome, Late
    <3>2. Requested(m, "success") \cap Requested(m, "error") = {}
      BY Zenon DEF Requested
    <3>3. Requested(m, "success") \in SUBSET Call /\ Requested(m, "error") \in SUBSET Call
      BY Zenon DEF Requested
    <3>4. Cardinality(Requested(m, "success") \cup Requested(m, "error"))
            = Cardinality(Requested(m, "success")) + Cardinality(Requested(m, "error"))
      BY <3>2, <3>3, AddsUp, Zenon
    <3>5. QED
      BY <3>1, <3>4, Zenon DEF Tally
  <2>2. QED
    BY <2>1 DEF BatchIsOneRequest, Number, Tally, Observed
<1>2. QED
  BY <1>1, Counted, PTL

\* Forwards that did not fail are under way or have succeeded, although peers
\* and clients go (the forwards of grpc.go).
THEOREM AttemptsToldApartTheorem == Spec => []AttemptsToldApart
<1>1. Ground /\ Tally => AttemptsToldApart
  <2> SUFFICES ASSUME Ground, Tally PROVE AttemptsToldApart
    OBVIOUS
  <2>1. ASSUME NEW m \in Method
        PROVE  count.forwarded[m] = count.failed[m] +
                 Cardinality({c \in Call : /\ MethodOf(c) = m /\ route[c] = "peer"
                                           /\ stage[c] = "peer" \/ code[c] = "OK"})
    <3> DEFINE G == {c \in Call : /\ MethodOf(c) = m /\ route[c] = "peer"
                                  /\ stage[c] = "peer" \/ code[c] = "OK"}
    <3>1. Sent(m) = Failed(m) \cup G /\ Failed(m) \cap G = {}
      BY Zenon DEF Sent, Failed
    <3>2. Failed(m) \in SUBSET Call /\ G \in SUBSET Call
      BY DEF Failed, Sent
    <3>3. Cardinality(Failed(m) \cup G) = Cardinality(Failed(m)) + Cardinality(G)
      BY <3>1, <3>2, AddsUp, Zenon
    <3>4. QED
      BY <3>1, <3>3, Zenon DEF Tally
  <2>2. QED
    BY <2>1, Zenon DEF AttemptsToldApart, Number
<1>2. QED
  BY <1>1, Counted, PTL

\* A set that maps one to one into a finite set is no larger.
LEMMA NoLarger ==
  ASSUME NEW S, NEW T, IsFiniteSet(S), IsFiniteSet(T), NEW f \in [S -> T],
         \A p, q \in S : f[p] = f[q] => p = q
  PROVE  Cardinality(S) <= Cardinality(T)
<1>1. Cardinality(S) \in Nat /\ Cardinality(T) \in Nat
  BY FS_CardinalityType
<1>2. ASSUME Cardinality(T) < Cardinality(S) PROVE FALSE
  BY <1>2, FS_PigeonHole
<1>3. QED
  BY <1>1, <1>2

\* Every id the Raft node has accepted is a proposal that succeeded, one whose
\* handler waits for the node, or one that was counted as an error because
\* its context ended first, for any number of calls and batches of any length
\* (ProposeAdd of node.go and addID of grpc.go).
THEOREM ProposalsExplainedTheorem == Spec => []ProposalsExplained
<1>1. ASSUME Ground, Tally PROVE ProposalsExplained
  <2> DEFINE W == {c \in Call : stage[c] = "self" /\ taken[c] < sent[c]}
             D == Accepted \ Known
  <2>1. ASSUME NEW c \in Call
        PROVE  /\ taken[c] \in Nat /\ sent[c] \in Nat /\ accepted[c] \in Nat /\ stage[c] \in Stage
               /\ Routed(c) /\ InTurn(c) /\ IdsOf(c) \in Nat /\ route[c] \in Route
    BY <1>1, IdsOfType DEF Ground, IInv, Shape
  <2>2. Known \subseteq Accepted
    <3> SUFFICES ASSUME NEW p \in Known PROVE p \in Accepted
      OBVIOUS
    <3>1. p \in Call \X (1 .. BatchLen) /\ p[1] \in Call /\ p[2] \in Nat
          /\ route[p[1]] = "self" /\ p[2] <= taken[p[1]]
      BY DEF Known
    <3>2. p[2] <= accepted[p[1]]
      BY <2>1, <3>1 DEF InTurn
    <3>3. QED
      BY <3>1, <3>2 DEF Accepted
  <2>3. ASSUME NEW p \in D
        PROVE  p[1] \in W \cup Unheard /\ p = <<p[1], taken[p[1]] + 1>>
    <3>1. /\ p \in Call \X (1 .. BatchLen) /\ p[1] \in Call /\ p[2] \in Nat /\ 1 <= p[2]
          /\ p = <<p[1], p[2]>> /\ p[2] <= accepted[p[1]] /\ p \notin Known
      BY <2>3 DEF Accepted
    <3>2. PICK c \in Call : c = p[1]
      BY <3>1
    <3>3. route[c] = "self"
      BY <2>1, <3>1, <3>2 DEF InTurn
    <3>4. taken[c] < p[2]
      BY <2>1, <3>1, <3>2, <3>3 DEF Known
    <3>5. p[2] = taken[c] + 1 /\ taken[c] < sent[c] /\ taken[c] # IdsOf(c)
      BY <2>1, <3>1, <3>2, <3>3, <3>4 DEF InTurn
    <3>6. CASE stage[c] = "self"
      BY <3>1, <3>2, <3>5, <3>6
    <3>7. CASE stage[c] # "self"
      <4>1. stage[c] \in {"return"} \cup Late
        BY <2>1, <3>3, <3>7 DEF Routed, Early, Late, Stage
      <4>2. code[c] # "OK"
        BY <2>1, <3>3, <3>5, <4>1 DEF Routed, Handled
      <4>3. QED
        BY <3>1, <3>2, <3>3, <3>5, <3>7, <4>2 DEF Unheard
    <3>8. QED
      BY <3>6, <3>7
  <2>4. /\ IsFiniteSet(Accepted) /\ IsFiniteSet(Known) /\ IsFiniteSet(D)
        /\ W \in SUBSET Call /\ Unheard \in SUBSET Call /\ IsFiniteSet(W \cup Unheard)
    <3>1. /\ Accepted \in SUBSET (Call \X (1 .. BatchLen)) /\ Known \in SUBSET (Call \X (1 .. BatchLen))
          /\ D \in SUBSET (Call \X (1 .. BatchLen))
      BY Zenon DEF Accepted, Known
    <3>2. W \in SUBSET Call /\ Unheard \in SUBSET Call /\ W \cup Unheard \in SUBSET Call
      BY Zenon DEF Unheard
    <3>3. QED
      BY <3>1, <3>2, Finite, Zenon
  <2>5. /\ Cardinality(Accepted) \in Nat /\ Cardinality(Known) \in Nat /\ Cardinality(D) \in Nat
        /\ Cardinality(W \cup Unheard) \in Nat
    BY <2>4, FS_CardinalityType
  <2>6. Cardinality(W \cup Unheard) = Cardinality(W) + Cardinality(Unheard)
    <3>1. W \cap Unheard = {}
      BY Zenon DEF Unheard
    <3> HIDE DEF W
    <3>2. QED
      BY <2>4, <3>1, AddsUp
  <2>7. Cardinality(Accepted) = Cardinality(Known) + Cardinality(D)
    <3>1. Accepted = Known \cup D /\ Known \cap D = {}
      BY <2>2
    <3> HIDE DEF D
    <3>2. Cardinality(Known \cup D) = Cardinality(Known) + Cardinality(D) - Cardinality(Known \cap D)
      BY <2>4, FS_Union
    <3>3. QED
      BY <2>5, <3>1, <3>2, FS_EmptySet
  <2>8. Cardinality(D) <= Cardinality(W \cup Unheard)
    <3> DEFINE f == [p \in D |-> p[1]]
    <3>1. f \in [D -> W \cup Unheard]
      BY <2>3
    <3>2. ASSUME NEW p \in D, NEW q \in D, f[p] = f[q] PROVE p = q
      BY <2>3, <3>2
    <3> HIDE DEF D, W, f
    <3>3. QED
      BY <2>4, <3>1, <3>2, NoLarger, Zenon
  <2> HIDE DEF D
  <2>9. /\ Cardinality(Known) <= Cardinality(Accepted)
        /\ Cardinality(Accepted) <= Cardinality(Known) + Cardinality(Unheard) + Cardinality(W)
    <3> HIDE DEF W
    <3>1. Cardinality(W) \in Nat /\ Cardinality(Unheard) \in Nat
      BY <2>4, Finite, FS_CardinalityType
    <3>2. QED
      BY <2>5, <2>6, <2>7, <2>8, <3>1
  <2>10. QED
    BY <1>1, <2>9, Zenon DEF ProposalsExplained, Number, Tally
<1>2. QED
  BY <1>1, Counted, PTL

\* The variables of run() and of the probes.
MainShape ==
  /\ leader \in BOOLEAN /\ expired \in BOOLEAN /\ lis \subseteq {"http", "metrics"}
  /\ probe \in {"none", "http", "metrics", "grpc"}

\* They keep their types.
LEMMA MainShapeStep == MainShape /\ [Next]_vars => MainShape'
<1> SUFFICES ASSUME MainShape, [Next]_vars PROVE MainShape'
  OBVIOUS
<1>1. CASE UNCHANGED <<leader, lis, expired, probe>>
  BY <1>1, Zenon DEF MainShape
<1>2. ASSUME NEW s, GoOn(s) PROVE UNCHANGED <<leader, lis, expired, probe>>
  BY <1>2 DEF GoOn
<1>3. CASE Deadline \/ Elect
  BY <1>3, Zenon DEF Deadline, Elect, MainShape
<1>4. CASE ListenAndServe
  BY <1>4 DEF ListenAndServe, MainShape
<1>5. CASE ProbeBegin \/ ProbeEnd
  BY <1>5, Zenon DEF ProbeBegin, ProbeEnd, MainShape, mainVars
<1>6. CASE (Main /\ ~Deadline) \/ Signal
  BY <1>1, <1>2, <1>6, Zenon DEF Main, Restored, Listen, Register, GracefulStop, HttpShutdown,
     MetricsShutdown, Deferred, Signal
<1>7. ASSUME NEW c \in Call,
             \/ \E j \in Job : HttpArrive(c, j) \/ GrpcArrive(c, j)
             \/ RequestAdd(c) \/ RequestBatchAdd(c) \/ RequestQuery(c)
             \/ Invoke(c) \/ Handle(c) \/ Accept(c) \/ Deliver(c) \/ ClientGone(c)
      PROVE  UNCHANGED <<leader, lis, expired, probe>>
  BY <1>7, Zenon DEF HttpArrive, GrpcArrive, RequestAdd, RequestBatchAdd, RequestQuery,
     Invoke, Handle, Accept, Deliver, ClientGone, Decode, Refuse, Forward, Serve, Send, Propose,
     ProposeFails, Served, Return, Intercept, PeerAnswers, mainVars
<1>8. CASE UNCHANGED vars
  BY <1>1, <1>8 DEF vars, mainVars
<1>9. QED
  BY <1>1, <1>3, <1>4, <1>5, <1>6, <1>7, <1>8, Zenon DEF Next

\* Every variable of a server process keeps its type, for any number of
\* calls: no call gives the node more ids than its batch has, no counter is
\* lost.
THEOREM TypeCorrect == Spec => []TypeOK
<1>1. Init => MainShape
  BY Zenon DEF Init, MainShape
<1>2. Ground /\ MainShape => TypeOK
  <2> SUFFICES ASSUME Ground, MainShape PROVE TypeOK
    OBVIOUS
  <2>1. \E i \in 1 .. Len(Steps) : step = Steps[i]
    <3>1. step \in StepName
      BY DEF Ground, IInv, Shape
    <3>2. Len(Steps) = 11
      BY StepList, Zenon
    <3>3. QED
      BY <3>1, <3>2, StepList DEF StepName
  <2>2. \A c \in Call : /\ taken[c] \in 0 .. BatchLen /\ sent[c] \in 0 .. BatchLen
                         /\ accepted[c] \in 0 .. BatchLen
    BY IdsBound, JobAssumption DEF Ground, InTurn, IInv, Shape
  <2>3. /\ taken \in [Call -> 0 .. BatchLen] /\ sent \in [Call -> 0 .. BatchLen]
        /\ accepted \in [Call -> 0 .. BatchLen]
    BY <2>2 DEF Ground, IInv, Shape
  <2>4. /\ count.requests \in [Method \X {"success", "error"} -> Nat]
        /\ count.grpc \in [Method \X Code -> Nat]
        /\ count.forwarded \in [Method -> Nat] /\ count.failed \in [Method -> Nat]
        /\ count.proposals \in [{"success", "error"} -> Nat] /\ count.batches \in Nat
    BY DEF Ground, CountShape
  <2>5. QED
    BY <2>1, <2>3, <2>4, Zenon DEF TypeOK, MainShape, Ground, IInv, Shape, Route,
       Handled
<1>3. QED
  BY <1>1, <1>2, MainShapeStep, Counted, PTL DEF Spec
=============================================================================
