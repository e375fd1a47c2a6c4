---------------------------- MODULE ClusterProofs ----------------------------
(***************************************************************************)
(* The cluster for any number of servers, groups, calls and failures:      *)
(* calls are not passed round in circles, ids rest with owners only, what  *)
(* was acknowledged is held, and reads do not go back.                     *)
(***************************************************************************)
EXTENDS Cluster, TLAPS, WellFoundedInduction

-----------------------------------------------------------------------------
(* The invariant.                                                          *)

\* A process that runs has read a list with its own address, one of the two.
Serving ==
  /\ \A n \in Server : proc[n] # "down" => n <= view[n]
  /\ \A n \in Server : view[n] \in Lists

\* A call whose handler runs is at a process that runs; one that has ended
\* has left nothing behind.
CallsRun ==
  /\ \A c \in Call : live[c] =>
       /\ job[c] # NoJob /\ res[c] # "ok" /\ path[c] # <<>> /\ proc[At(c)] # "down"
       /\ taken[c] <= Len(job[c].ids)
  /\ \A c \in Call : ~live[c] => path[c] = <<>> /\ taken[c] = 0
  /\ \A c \in Call : job[c] = NoJob => ~live[c] /\ res[c] = "none" /\ answer[c] = {} /\ seen[c] = {}

\* A call is passed on to a server that a walk from the group's hash meets
\* earlier: the variant that rules out a loop.
PathsDescend ==
  \A c \in Call : live[c] => \A i, j \in 1 .. Len(path[c]) : \A a, b \in 1 .. N :
    i < j /\ clockwise[GroupOf(c)][a] = path[c][i] /\ clockwise[GroupOf(c)][b] = path[c][j] => b < a

Held(p) == p \in lost \/ \E n \in Server : p \in pend[n] \cup count[n]
Stored(p) == \E n \in Server : p \in count[n]

\* The ids a call has got accepted so far, and all of them once it is
\* answered with ok.
TakenIsHeld ==
  /\ \A c \in Call : live[c] => \A i \in 1 .. taken[c] : Held(<<GroupOf(c), job[c].ids[i]>>)
  /\ \A c \in Call : res[c] = "ok" => \A i \in 1 .. Len(job[c].ids) : Held(<<GroupOf(c), job[c].ids[i]>>)

\* What a query has answered, or a client had seen before it, is persisted.
SeenIsStored ==
  \A c \in Call : \A id \in answer[c] \cup seen[c] : Stored(<<GroupOf(c), id>>)

ClusterInv ==
  /\ TypeOK /\ Serving /\ CallsRun /\ PathsDescend
  /\ StoredOnlyAtOwners /\ TakenIsHeld /\ SeenIsStored /\ MonotoneReads

-----------------------------------------------------------------------------
(* The walk round the ring.                                                *)

\* The elements of a sequence over a set are in the set.
LEMMA SeqElement ==
  ASSUME NEW S, NEW s \in Seq(S), NEW i \in 1 .. Len(s)
  PROVE  s[i] \in S
OBVIOUS

\* A set of naturals that is not empty has a least element.
LEMMA LeastNat ==
  ASSUME NEW T \in SUBSET Nat, T # {}
  PROVE  \E m \in T : \A x \in T : m <= x
<1> DEFINE R == {ss \in Nat \X Nat : ss[1] < ss[2]}
<1>1. IsWellFoundedOn(R, Nat)
  BY NatLessThanWellFounded DEF OpToRel
<1>2. PICK m \in T : \A y \in T : <<y, m>> \notin R
  BY <1>1, WFMin, Zenon
<1>3. ASSUME NEW x \in T PROVE m <= x
  <2>1. <<x, m>> \notin R /\ <<x, m>> \in Nat \X Nat
    BY <1>2, <1>3
  <2>2. ~ (x < m)
    BY <2>1
  <2> QED BY <2>2
<1> QED BY <1>3

LEMMA ServerFacts ==
  /\ N \in Nat /\ Old \in Nat /\ 1 <= Old /\ Old <= N
  /\ \A n \in Server : n \in Nat /\ n <= N
  /\ Old \in Server
BY SizeAssumption DEF Server

\* A walk meets every server, and none twice.
LEMMA WalkFacts ==
  ASSUME NEW w \in Walk
  PROVE  /\ w \in [1 .. N -> Server]
         /\ \A a, b \in 1 .. N : w[a] = w[b] => a = b
         /\ \A n \in Server : \E a \in 1 .. N : w[a] = n
BY WalkAssumption, Zenon DEF Bijection, Injection, Surjection, IsInjective, Server

\* Resolve answers the first server of the list that the walk meets.
LEMMA ResolveFacts ==
  ASSUME clockwise \in [Group -> Walk], NEW g \in Group, NEW v \in {Old, N}
  PROVE  /\ Resolve(v, g) \in Server /\ Resolve(v, g) <= v
         /\ \E k \in 1 .. N :
              /\ clockwise[g][k] = Resolve(v, g)
              /\ \A a \in 1 .. N : clockwise[g][a] <= v => k <= a
<1> DEFINE T == {k \in 1 .. N : clockwise[g][k] <= v}
<1>1. /\ clockwise[g] \in [1 .. N -> Server]
      /\ \E a \in 1 .. N : clockwise[g][a] = Old
  BY WalkFacts, ServerFacts
<1>2. T \in SUBSET Nat /\ T # {}
  <2>1. Old <= v
    BY ServerFacts
  <2> QED BY <2>1, <1>1
<1>3. PICK m \in T : \A x \in T : m <= x
  <2> HIDE DEF T
  <2> QED BY <1>2, LeastNat
<1> DEFINE First(k) == clockwise[g][k] <= v /\ \A j \in 1 .. k - 1 : clockwise[g][j] > v
           k == CHOOSE i \in 1 .. N : First(i)
<1>4. First(m)
  <2> SUFFICES ASSUME NEW j \in 1 .. m - 1 PROVE clockwise[g][j] > v
    BY <1>3
  <2>1. j \in 1 .. N /\ ~ (m <= j)
    BY <1>3, ServerFacts
  <2>2. ~ (clockwise[g][j] <= v) /\ clockwise[g][j] \in Nat /\ v \in Nat
    BY <2>1, <1>1, <1>3, ServerFacts, Zenon
  <2> QED BY <2>2
<1>5. k \in 1 .. N /\ First(k)
  <2> HIDE DEF First
  <2> QED BY <1>3, <1>4, Zenon
<1>6. Resolve(v, g) = clockwise[g][k]
  BY Zenon DEF Resolve
<1> HIDE DEF k
<1>7. ASSUME NEW a \in 1 .. N, clockwise[g][a] <= v PROVE k <= a
  <2>1. ASSUME a < k PROVE FALSE
    <3>1. a \in 1 .. k - 1
      BY <2>1, <1>5, ServerFacts
    <3>2. clockwise[g][a] > v /\ clockwise[g][a] \in Nat /\ v \in Nat
      BY <3>1, <1>1, <1>5, ServerFacts, Zenon
    <3> QED BY <3>2, <1>7
  <2> QED BY <2>1, <1>5, ServerFacts
<1> QED BY <1>1, <1>5, <1>6, <1>7, Zenon

\* The requests, and where a running call is.
LEMMA JobFacts ==
  /\ NoJob \notin Job
  /\ \A j \in Job : j.group \in Group /\ j.ids \in Seq(Id) /\ Len(j.ids) \in Nat
  /\ \A j \in Job : j.kind = "Query" => Len(j.ids) = 0
  /\ \A j \in Job : \A i \in 1 .. Len(j.ids) : j.ids[i] \in Id
<1>1. \A j \in Job : j.kind \in {"Add", "BatchAdd", "Query"} /\ j.group \in Group /\ j.ids \in Seq(Id)
  BY JobAssumption
<1>2. NoJob \notin Job
  BY <1>1 DEF NoJob
<1>3. \A j \in Job : j.kind = "Query" => Len(j.ids) = 0
  BY JobAssumption
<1> QED BY <1>1, <1>2, <1>3

LEMMA AtFacts ==
  ASSUME TypeOK, Serving, CallsRun, NEW c \in Call, live[c]
  PROVE  /\ Len(path[c]) \in Nat /\ Len(path[c]) # 0 /\ At(c) \in Server
         /\ At(c) = path[c][Len(path[c])]
         /\ job[c] \in Job /\ GroupOf(c) \in Group
         /\ view[At(c)] \in {Old, N} /\ view[At(c)] \in Lists /\ At(c) <= view[At(c)]
         /\ Owner(At(c), GroupOf(c)) = Resolve(view[At(c)], GroupOf(c))
         /\ Owner(At(c), GroupOf(c)) \in Server
<1>1. path[c] \in Seq(Server) /\ path[c] # <<>> /\ proc[At(c)] # "down" /\ job[c] \in Job
  BY DEF TypeOK, CallsRun
<1>2. Len(path[c]) \in Nat /\ Len(path[c]) # 0
  BY <1>1
<1>3. At(c) = path[c][Len(path[c])] /\ At(c) \in Server
  BY <1>1, <1>2 DEF At
<1>4. GroupOf(c) \in Group
  BY <1>1, JobFacts DEF GroupOf
<1>5. view[At(c)] \in {Old, N} /\ view[At(c)] \in Lists /\ At(c) <= view[At(c)]
  BY <1>1, <1>3 DEF TypeOK, Serving
<1>6. Owner(At(c), GroupOf(c)) = Resolve(view[At(c)], GroupOf(c))
  <2>1. At(c) \in Nat /\ view[At(c)] \in Nat
    BY <1>3, <1>5, ServerFacts, Zenon
  <2>2. ~ (At(c) > view[At(c)])
    BY <2>1, <1>5
  <2> QED BY <2>2 DEF Owner
<1>7. Resolve(view[At(c)], GroupOf(c)) \in Server
  BY <1>4, <1>5, ResolveFacts DEF TypeOK
<1> QED BY <1>1, <1>2, <1>3, <1>4, <1>5, <1>6, <1>7

-----------------------------------------------------------------------------
(* What a step does to the data ...                                        *)

\* ... ids are not forgotten, and lists and owners only added ...
LEMMA Grows ==
  ASSUME TypeOK, [Next]_vars
  PROVE  /\ clockwise' = clockwise /\ Lists \subseteq Lists'
         /\ \A n \in Server : count[n] \subseteq count'[n]
         /\ \A n \in Server : pend[n] \subseteq lost' \cup pend'[n] \cup count'[n]
         /\ lost \subseteq lost'
<1>1. CASE UNCHANGED vars
  BY <1>1 DEF vars, serverVars, dataVars, Lists
<1>2. CASE Rescale
  BY <1>2 DEF Rescale, dataVars, Lists
<1>3. ASSUME NEW n \in Server, Start(n) \/ Drain(n) PROVE UNCHANGED <<clockwise, peers, dataVars>>
  BY <1>3, Zenon DEF Start, Drain, dataVars
<1>4. ASSUME NEW n \in Server, Crash(n) \/ Exit(n)
      PROVE  /\ UNCHANGED <<clockwise, peers, count>>
             /\ pend' = [pend EXCEPT ![n] = {}] /\ lost' = lost \cup pend[n]
  BY <1>4, Zenon DEF Crash, Exit, Ends
<1>5. ASSUME NEW n \in Server, NEW p, Apply(n, p)
      PROVE  /\ UNCHANGED <<clockwise, peers, lost>>
             /\ pend' = [pend EXCEPT ![n] = @ \ {p}] /\ count' = [count EXCEPT ![n] = @ \cup {p}]
  BY <1>5, Zenon DEF Apply, serverVars
<1>6. ASSUME NEW c \in Call, Take(c) \/ TakeUnheard(c)
      PROVE  /\ UNCHANGED <<clockwise, peers, lost, count>>
             /\ pend' = [pend EXCEPT ![At(c)] = @ \cup {NextPair(c)}]
  BY <1>6, Zenon DEF Take, TakeUnheard, serverVars
<1>7. ASSUME NEW c \in Call,
             Forward(c) \/ ForwardFails(c) \/ TakeFails(c) \/ Added(c) \/ Query(c) \/ Expire(c)
             \/ \E n \in Server, j \in Job : Invoke(c, n, j)
      PROVE  UNCHANGED <<clockwise, peers, dataVars>>
  BY <1>7, Zenon DEF Forward, ForwardFails, TakeFails, Added, Query, Expire, Invoke, serverVars
<1>8. pend \in [Server -> SUBSET (Group \X Id)] /\ count \in [Server -> SUBSET (Group \X Id)]
  BY DEF TypeOK
<1>9. ASSUME UNCHANGED <<clockwise, peers, dataVars>>
      PROVE  /\ clockwise' = clockwise /\ Lists \subseteq Lists'
             /\ \A n \in Server : count[n] \subseteq count'[n]
             /\ \A n \in Server : pend[n] \subseteq lost' \cup pend'[n] \cup count'[n]
             /\ lost \subseteq lost'
  BY <1>9 DEF dataVars, Lists
<1>10. ASSUME NEW n \in Server, Crash(n) \/ Exit(n)
       PROVE  /\ clockwise' = clockwise /\ Lists \subseteq Lists'
              /\ \A m \in Server : count[m] \subseteq count'[m]
              /\ \A m \in Server : pend[m] \subseteq lost' \cup pend'[m] \cup count'[m]
              /\ lost \subseteq lost'
  BY <1>4, <1>8, <1>10 DEF Lists
<1>11. ASSUME NEW n \in Server, NEW p, Apply(n, p)
       PROVE  /\ clockwise' = clockwise /\ Lists \subseteq Lists'
              /\ \A m \in Server : count[m] \subseteq count'[m]
              /\ \A m \in Server : pend[m] \subseteq lost' \cup pend'[m] \cup count'[m]
              /\ lost \subseteq lost'
  BY <1>5, <1>8, <1>11 DEF Lists
<1>12. ASSUME NEW c \in Call, Take(c) \/ TakeUnheard(c)
       PROVE  /\ clockwise' = clockwise /\ Lists \subseteq Lists'
              /\ \A m \in Server : count[m] \subseteq count'[m]
              /\ \A m \in Server : pend[m] \subseteq lost' \cup pend'[m] \cup count'[m]
              /\ lost \subseteq lost'
  BY <1>6, <1>8, <1>12 DEF Lists
<1> QED
  BY <1>1, <1>2, <1>3, <1>7, <1>9, <1>10, <1>11, <1>12, Zenon DEF Next, Handle

\* ... so what is held stays held, what is persisted persisted, and an owner
\* an owner ...
LEMMA Lasts ==
  ASSUME TypeOK, [Next]_vars
  PROVE  /\ \A p : Held(p) => Held(p)'
         /\ \A p : Stored(p) => Stored(p)'
         /\ \A v, g : Resolve(v, g)' = Resolve(v, g)
         /\ \A g : Owners(g) \subseteq Owners(g)'
<1>1. /\ clockwise' = clockwise /\ Lists \subseteq Lists'
      /\ \A n \in Server : count[n] \subseteq count'[n]
      /\ \A n \in Server : pend[n] \subseteq lost' \cup pend'[n] \cup count'[n]
      /\ lost \subseteq lost'
  BY Grows
<1>2. \A v, g : Resolve(v, g)' = Resolve(v, g)
  BY <1>1 DEF Resolve
<1>3. ASSUME NEW p, Held(p) PROVE Held(p)'
  BY <1>1, <1>3 DEF Held
<1>4. ASSUME NEW p, Stored(p) PROVE Stored(p)'
  BY <1>1, <1>4 DEF Stored
<1>5. \A g : Owners(g) \subseteq Owners(g)'
  BY <1>1, <1>2 DEF Owners
<1> QED BY <1>2, <1>3, <1>4, <1>5

\* ... and a server gets an id from a call that is there.
LEMMA Arrives ==
  ASSUME TypeOK, [Next]_vars, NEW n \in Server, NEW p, p \in pend'[n] \cup count'[n]
  PROVE  \/ p \in pend[n] \cup count[n]
         \/ \E c \in Call : (Take(c) \/ TakeUnheard(c)) /\ n = At(c) /\ p = NextPair(c)
<1>1. CASE UNCHANGED vars
  BY <1>1 DEF vars, dataVars
<1>2. CASE Rescale
  BY <1>2 DEF Rescale, dataVars
<1>8. pend \in [Server -> SUBSET (Group \X Id)] /\ count \in [Server -> SUBSET (Group \X Id)]
  BY DEF TypeOK
<1>3. ASSUME NEW m \in Server, Start(m) \/ Drain(m) PROVE p \in pend[n] \cup count[n]
  BY <1>3, Zenon DEF Start, Drain, dataVars
<1>4. ASSUME NEW m \in Server, Crash(m) \/ Exit(m) PROVE p \in pend[n] \cup count[n]
  <2>1. pend' = [pend EXCEPT ![m] = {}] /\ count' = count
    BY <1>4, Zenon DEF Crash, Exit, Ends
  <2> QED BY <2>1, <1>8
<1>5. ASSUME NEW m \in Server, NEW x, x \in pend[m], Apply(m, x) PROVE p \in pend[n] \cup count[n]
  <2>1. pend' = [pend EXCEPT ![m] = @ \ {x}] /\ count' = [count EXCEPT ![m] = @ \cup {x}]
    BY <1>5, Zenon DEF Apply
  <2> QED BY <2>1, <1>5, <1>8
<1>6. ASSUME NEW c \in Call, Take(c) \/ TakeUnheard(c)
      PROVE  p \in pend[n] \cup count[n] \/ (n = At(c) /\ p = NextPair(c))
  <2>1. pend' = [pend EXCEPT ![At(c)] = @ \cup {NextPair(c)}] /\ count' = count
    BY <1>6, Zenon DEF Take, TakeUnheard
  <2> QED BY <2>1, <1>8
<1>7. ASSUME NEW c \in Call,
             Forward(c) \/ ForwardFails(c) \/ TakeFails(c) \/ Added(c) \/ Query(c) \/ Expire(c)
             \/ \E m \in Server, j \in Job : Invoke(c, m, j)
      PROVE  p \in pend[n] \cup count[n]
  <2>1. pend' = pend /\ count' = count
    BY <1>7, Zenon DEF Forward, ForwardFails, TakeFails, Added, Query, Expire, Invoke, dataVars
  <2> QED BY <2>1
<1> QED BY <1>1, <1>2, <1>3, <1>4, <1>5, <1>6, <1>7, Zenon DEF Next, Handle

-----------------------------------------------------------------------------
(* What a step does to a call.                                             *)

\* It leaves the call alone, or takes its handler or its client away.
Fades(c) ==
  /\ job'[c] = job[c] /\ answer'[c] = answer[c] /\ seen'[c] = seen[c]
  /\ res'[c] = res[c] \/ (live[c] /\ res[c] = "none" /\ res'[c] = "error")
  /\ \/ live'[c] = live[c] /\ path'[c] = path[c] /\ taken'[c] = taken[c]
     \/ live'[c] = FALSE /\ path'[c] = <<>> /\ taken'[c] = 0

\* The functions over calls, for the proofs below.
CallTypes ==
  /\ job \in [Call -> Job \cup {NoJob}] /\ path \in [Call -> Seq(Server)]
  /\ live \in [Call -> BOOLEAN] /\ taken \in [Call -> Nat]
  /\ answer \in [Call -> SUBSET Id] /\ seen \in [Call -> SUBSET Id]
  /\ res \in [Call -> {"none", "ok", "error"}]

\* A handler that returns an error, or another call's.
LEMMA ReplyFades ==
  ASSUME CallTypes, NEW c \in Call, NEW d \in Call, NEW r, Reply(d, r), live[d],
         UNCHANGED job, c # d \/ r = "error",
         c # d \/ UNCHANGED answer, UNCHANGED seen,
         answer' = answer \/ \E x : answer' = [answer EXCEPT ![d] = x]
  PROVE  Fades(c)
<1>1. /\ live' = [live EXCEPT ![d] = FALSE] /\ path' = [path EXCEPT ![d] = <<>>]
      /\ taken' = [taken EXCEPT ![d] = 0] /\ res' = [res EXCEPT ![d] = IF @ = "none" THEN r ELSE @]
  BY DEF Reply
<1>2. CASE c # d
  <2>1. answer'[c] = answer[c]
    BY <1>2 DEF CallTypes
  <2> QED BY <1>1, <1>2, <2>1 DEF CallTypes, Fades
<1>3. CASE c = d
  <2>1. live'[c] = FALSE /\ path'[c] = <<>> /\ taken'[c] = 0
    BY <1>1, <1>3 DEF CallTypes
  <2>2. res'[c] = res[c] \/ (live[c] /\ res[c] = "none" /\ res'[c] = "error")
    BY <1>1, <1>3 DEF CallTypes
  <2>3. answer' = answer
    BY <1>3
  <2> QED BY <2>1, <2>2, <2>3 DEF Fades
<1> QED BY <1>2, <1>3

LEMMA CallSteps ==
  ASSUME TypeOK, [Next]_vars, NEW c \in Call
  PROVE  \/ Fades(c)
         \/ Forward(c) \/ Take(c) \/ Added(c) \/ Query(c)
         \/ \E n \in Server, j \in Job : Invoke(c, n, j)
<1>0. CallTypes
  BY DEF TypeOK, CallTypes
<1>1. ASSUME UNCHANGED callVars PROVE Fades(c)
  BY <1>1 DEF callVars, Fades
<1>2. CASE UNCHANGED vars
  BY <1>1, <1>2 DEF vars
<1>3. CASE Rescale
  BY <1>1, <1>3, Zenon DEF Rescale
<1>4. ASSUME NEW n \in Server, Start(n) \/ Drain(n) \/ Exit(n) \/ \E p \in pend[n] : Apply(n, p)
      PROVE  Fades(c)
  <2>1. UNCHANGED callVars
    BY <1>4, Zenon DEF Start, Drain, Exit, Apply
  <2> QED BY <2>1, <1>1
<1>5. ASSUME NEW n \in Server, Crash(n) PROVE Fades(c)
  <2>1. /\ UNCHANGED <<job, answer, seen>>
        /\ res' = [d \in Call |-> IF Busy(n, d) /\ res[d] = "none" THEN "error" ELSE res[d]]
        /\ live' = [d \in Call |-> live[d] /\ ~Works(n, d)]
        /\ path' = [d \in Call |-> IF Works(n, d) THEN <<>> ELSE path[d]]
        /\ taken' = [d \in Call |-> IF Works(n, d) THEN 0 ELSE taken[d]]
    BY <1>5, Zenon DEF Crash
  <2>2. res'[c] = res[c] \/ (live[c] /\ res[c] = "none" /\ res'[c] = "error")
    BY <2>1, Zenon DEF Busy, Works
  <2>3. CASE Works(n, c)
    <3>1. live'[c] = FALSE /\ path'[c] = <<>> /\ taken'[c] = 0
      BY <2>1, <2>3, Zenon
    <3> QED BY <2>1, <2>2, <3>1 DEF Fades
  <2>4. CASE ~ Works(n, c)
    <3>1. live'[c] = live[c] /\ path'[c] = path[c] /\ taken'[c] = taken[c]
      BY <2>1, <2>4, <1>0 DEF CallTypes
    <3> QED BY <2>1, <2>2, <3>1 DEF Fades
  <2> QED BY <2>3, <2>4
<1>6. ASSUME NEW d \in Call, Expire(d) PROVE Fades(c)
  <2>1. /\ UNCHANGED <<job, path, live, taken, answer, seen>>
        /\ live[d] /\ res[d] = "none" /\ res' = [res EXCEPT ![d] = "error"]
    BY <1>6, Zenon DEF Expire
  <2>2. res'[c] = res[c] \/ (live[c] /\ res[c] = "none" /\ res'[c] = "error")
    BY <2>1, <1>0 DEF CallTypes
  <2> QED BY <2>1, <2>2 DEF Fades
<1>7. ASSUME NEW d \in Call, ForwardFails(d) \/ TakeFails(d) \/ TakeUnheard(d) PROVE Fades(c)
  <2>1. live[d] /\ Reply(d, "error") /\ UNCHANGED job /\ UNCHANGED answer /\ UNCHANGED seen
    BY <1>7, Zenon DEF ForwardFails, TakeFails, TakeUnheard
  <2> QED BY <2>1, <1>0, ReplyFades
<1>8. ASSUME NEW d \in Call, d # c, Added(d) PROVE Fades(c)
  <2>1. live[d] /\ Reply(d, "ok") /\ UNCHANGED job /\ UNCHANGED answer /\ UNCHANGED seen
    BY <1>8, Zenon DEF Added
  <2> QED BY <2>1, <1>0, <1>8, ReplyFades
<1>9. ASSUME NEW d \in Call, d # c, Query(d) PROVE Fades(c)
  <2>1. live[d] /\ Reply(d, "ok") /\ UNCHANGED job /\ UNCHANGED seen /\ \E x : answer' = [answer EXCEPT ![d] = x]
    BY <1>9, Zenon DEF Query
  <2> QED BY <2>1, <1>0, <1>9, ReplyFades, Zenon
<1>10. ASSUME NEW d \in Call, d # c, Forward(d) PROVE Fades(c)
  <2>1. UNCHANGED <<job, live, taken, answer, res, seen>> /\ \E x : path' = [path EXCEPT ![d] = x]
    BY <1>10, Zenon DEF Forward
  <2> QED BY <2>1, <1>0, <1>10 DEF CallTypes, Fades
<1>11. ASSUME NEW d \in Call, d # c, Take(d) PROVE Fades(c)
  <2>1. UNCHANGED <<job, path, live, answer, res, seen>> /\ \E x : taken' = [taken EXCEPT ![d] = x]
    BY <1>11, Zenon DEF Take
  <2> QED BY <2>1, <1>0, <1>11 DEF CallTypes, Fades
<1>12. ASSUME NEW d \in Call, d # c, NEW n \in Server, NEW j \in Job, Invoke(d, n, j) PROVE Fades(c)
  <2>1. /\ UNCHANGED <<taken, answer, res>>
        /\ job' = [job EXCEPT ![d] = j] /\ path' = [path EXCEPT ![d] = <<n>>]
        /\ live' = [live EXCEPT ![d] = TRUE] /\ \E x : seen' = [seen EXCEPT ![d] = x]
    BY <1>12, Zenon DEF Invoke
  <2> QED BY <2>1, <1>0, <1>12, Zenon DEF CallTypes, Fades
<1>13. CASE \E d \in Call : Handle(d) \/ Expire(d) \/ \E n \in Server, j \in Job : Invoke(d, n, j)
  BY <1>13, <1>6, <1>7, <1>8, <1>9, <1>10, <1>11, <1>12, Zenon DEF Handle
<1> QED BY <1>2, <1>3, <1>4, <1>5, <1>13, Zenon DEF Next

-----------------------------------------------------------------------------
(* Types.                                                                  *)

ServerTypes ==
  /\ clockwise \in [Group -> Walk]
  /\ peers \in {Old, N} /\ ends \in 0 .. MaxEnds
  /\ proc \in [Server -> {"down", "up", "draining"}] /\ view \in [Server -> {Old, N}]

DataTypes ==
  /\ pend \in [Server -> SUBSET (Group \X Id)]
  /\ count \in [Server -> SUBSET (Group \X Id)] /\ lost \subseteq Group \X Id

LEMMA Types == TypeOK <=> ServerTypes /\ DataTypes /\ CallTypes
BY Zenon DEF TypeOK, ServerTypes, DataTypes, CallTypes

\* The id a handler takes next.
LEMMA NextPairType ==
  ASSUME TypeOK, Serving, CallsRun, NEW c \in Call, Take(c) \/ TakeUnheard(c)
  PROVE  /\ At(c) \in Server /\ NextPair(c) \in Group \X Id
         /\ taken[c] + 1 \in 1 .. Len(job[c].ids)
<1>1. live[c] /\ MoreIds(c)
  BY Zenon DEF Take, TakeUnheard
<1>2. At(c) \in Server /\ job[c] \in Job /\ GroupOf(c) \in Group
  BY <1>1, AtFacts
<1>3. taken[c] \in Nat /\ Len(job[c].ids) \in Nat
  BY <1>2, JobFacts DEF TypeOK
<1>4. taken[c] + 1 \in 1 .. Len(job[c].ids)
  BY <1>1, <1>3 DEF MoreIds
<1>5. job[c].ids[taken[c] + 1] \in Id
  BY <1>2, <1>4, JobFacts
<1> QED BY <1>2, <1>4, <1>5 DEF NextPair

LEMMA ServerTypesKept ==
  ASSUME ServerTypes, [Next]_vars
  PROVE  ServerTypes'
<1>1. ASSUME UNCHANGED <<clockwise, serverVars>> PROVE ServerTypes'
  BY <1>1 DEF ServerTypes, serverVars
<1>2. CASE UNCHANGED vars
  BY <1>1, <1>2 DEF vars
<1>3. CASE Rescale
  <2>1. peers' = N /\ UNCHANGED <<clockwise, proc, view, ends>>
    BY <1>3, Zenon DEF Rescale
  <2> QED BY <2>1 DEF ServerTypes
<1>4. ASSUME NEW n \in Server, Start(n) PROVE ServerTypes'
  <2>1. /\ proc' = [proc EXCEPT ![n] = "up"] /\ view' = [view EXCEPT ![n] = peers]
        /\ UNCHANGED <<clockwise, peers, ends>>
    BY <1>4, Zenon DEF Start
  <2> QED BY <2>1 DEF ServerTypes
<1>5. ASSUME NEW n \in Server, Crash(n) \/ Drain(n) PROVE ServerTypes'
  <2>1. /\ \E x \in {"down", "draining"} : proc' = [proc EXCEPT ![n] = x]
        /\ ends < MaxEnds /\ ends' = ends + 1 /\ UNCHANGED <<clockwise, peers, view>>
    BY <1>5, Zenon DEF Crash, Drain, Ends
  <2>2. ends' \in 0 .. MaxEnds
    BY <2>1, BoundAssumption DEF ServerTypes
  <2>3. proc' \in [Server -> {"down", "up", "draining"}]
    BY <2>1 DEF ServerTypes
  <2> QED BY <2>1, <2>2, <2>3 DEF ServerTypes
<1>6. ASSUME NEW n \in Server, Exit(n) PROVE ServerTypes'
  <2>1. proc' = [proc EXCEPT ![n] = "down"] /\ UNCHANGED <<clockwise, peers, view, ends>>
    BY <1>6, Zenon DEF Exit, Ends
  <2> QED BY <2>1 DEF ServerTypes
<1>7. ASSUME NEW n \in Server, NEW p, Apply(n, p) PROVE ServerTypes'
  BY <1>1, <1>7, Zenon DEF Apply
<1>8. ASSUME NEW c \in Call, Handle(c) \/ Expire(c) \/ \E n \in Server, j \in Job : Invoke(c, n, j)
      PROVE  ServerTypes'
  <2>1. UNCHANGED <<clockwise, serverVars>>
    BY <1>8, Zenon
    DEF Handle, Forward, ForwardFails, Take, TakeFails, TakeUnheard, Added, Query, Expire, Invoke
  <2> QED BY <2>1, <1>1
<1> QED BY <1>2, <1>3, <1>4, <1>5, <1>6, <1>7, <1>8, Zenon DEF Next

LEMMA DataTypesKept ==
  ASSUME TypeOK, Serving, CallsRun, [Next]_vars
  PROVE  DataTypes'
<1>0. DataTypes
  BY Types
<1>1. ASSUME UNCHANGED dataVars PROVE DataTypes'
  BY <1>0, <1>1 DEF DataTypes, dataVars
<1>2. CASE UNCHANGED vars
  BY <1>1, <1>2 DEF vars
<1>3. CASE Rescale
  BY <1>1, <1>3, Zenon DEF Rescale
<1>4. ASSUME NEW n \in Server, Start(n) \/ Drain(n) PROVE DataTypes'
  BY <1>1, <1>4, Zenon DEF Start, Drain
<1>5. ASSUME NEW n \in Server, Crash(n) \/ Exit(n) PROVE DataTypes'
  <2>1. pend' = [pend EXCEPT ![n] = {}] /\ lost' = lost \cup pend[n] /\ count' = count
    BY <1>5, Zenon DEF Crash, Exit, Ends
  <2> QED BY <2>1, <1>0 DEF DataTypes
<1>6. ASSUME NEW n \in Server, NEW p \in pend[n], Apply(n, p) PROVE DataTypes'
  <2>1. /\ pend' = [pend EXCEPT ![n] = @ \ {p}] /\ count' = [count EXCEPT ![n] = @ \cup {p}]
        /\ lost' = lost
    BY <1>6, Zenon DEF Apply
  <2>2. p \in Group \X Id
    BY <1>0 DEF DataTypes
  <2> QED BY <2>1, <2>2, <1>0 DEF DataTypes
<1>7. ASSUME NEW c \in Call, Take(c) \/ TakeUnheard(c) PROVE DataTypes'
  <2>1. pend' = [pend EXCEPT ![At(c)] = @ \cup {NextPair(c)}] /\ count' = count /\ lost' = lost
    BY <1>7, Zenon DEF Take, TakeUnheard
  <2>2. At(c) \in Server /\ NextPair(c) \in Group \X Id
    BY <1>7, NextPairType
  <2> QED BY <2>1, <2>2, <1>0 DEF DataTypes
<1>8. ASSUME NEW c \in Call,
             Forward(c) \/ ForwardFails(c) \/ TakeFails(c) \/ Added(c) \/ Query(c) \/ Expire(c)
             \/ \E n \in Server, j \in Job : Invoke(c, n, j)
      PROVE  DataTypes'
  <2>1. UNCHANGED dataVars
    BY <1>8, Zenon DEF Forward, ForwardFails, TakeFails, Added, Query, Expire, Invoke
  <2> QED BY <2>1, <1>1
<1> QED BY <1>2, <1>3, <1>4, <1>5, <1>6, <1>7, <1>8, Zenon DEF Next, Handle

LEMMA CallTypesKept ==
  ASSUME TypeOK, Serving, CallsRun, [Next]_vars
  PROVE  CallTypes'
<1>0. CallTypes
  BY Types
<1>1. ASSUME UNCHANGED callVars PROVE CallTypes'
  BY <1>0, <1>1 DEF CallTypes, callVars
<1>2. CASE UNCHANGED vars
  BY <1>1, <1>2 DEF vars
<1>3. CASE Rescale
  BY <1>1, <1>3, Zenon DEF Rescale
<1>4. ASSUME NEW n \in Server, Start(n) \/ Drain(n) \/ Exit(n) \/ \E p \in pend[n] : Apply(n, p)
      PROVE  CallTypes'
  <2>1. UNCHANGED callVars
    BY <1>4, Zenon DEF Start, Drain, Exit, Apply
  <2> QED BY <2>1, <1>1
<1>e. <<>> \in Seq(Server)
  OBVIOUS
<1>5. ASSUME NEW n \in Server, Crash(n) PROVE CallTypes'
  <2>1. /\ UNCHANGED <<job, answer, seen>>
        /\ res' = [d \in Call |-> IF Busy(n, d) /\ res[d] = "none" THEN "error" ELSE res[d]]
        /\ live' = [d \in Call |-> live[d] /\ ~Works(n, d)]
        /\ path' = [d \in Call |-> IF Works(n, d) THEN <<>> ELSE path[d]]
        /\ taken' = [d \in Call |-> IF Works(n, d) THEN 0 ELSE taken[d]]
    BY <1>5, Zenon DEF Crash
  <2>2. res' \in [Call -> {"none", "ok", "error"}] /\ taken' \in [Call -> Nat]
    BY <2>1, <1>0 DEF CallTypes
  <2>3. path' \in [Call -> Seq(Server)]
    BY <2>1, <1>0, <1>e DEF CallTypes
  <2>4. live' \in [Call -> BOOLEAN]
    BY <2>1, <1>0 DEF CallTypes
  <2> QED BY <2>1, <2>2, <2>3, <2>4, <1>0 DEF CallTypes
<1>6. ASSUME NEW d \in Call, Expire(d) PROVE CallTypes'
  <2>1. UNCHANGED <<job, path, live, taken, answer, seen>> /\ res' = [res EXCEPT ![d] = "error"]
    BY <1>6, Zenon DEF Expire
  <2> QED BY <2>1, <1>0 DEF CallTypes
<1>7. ASSUME NEW d \in Call, NEW r \in {"ok", "error"}, Reply(d, r),
             UNCHANGED <<job, seen>>, answer' \in [Call -> SUBSET Id]
      PROVE  CallTypes'
  <2>1. /\ live' = [live EXCEPT ![d] = FALSE] /\ path' = [path EXCEPT ![d] = <<>>]
        /\ taken' = [taken EXCEPT ![d] = 0]
        /\ res' = [res EXCEPT ![d] = IF @ = "none" THEN r ELSE @]
    BY <1>7 DEF Reply
  <2>2. path' \in [Call -> Seq(Server)]
    BY <2>1, <1>0, <1>e DEF CallTypes
  <2>3. res' \in [Call -> {"none", "ok", "error"}]
    BY <2>1, <1>0 DEF CallTypes
  <2>4. live' \in [Call -> BOOLEAN] /\ taken' \in [Call -> Nat]
    BY <2>1, <1>0, Zenon DEF CallTypes
  <2> QED BY <2>2, <2>3, <2>4, <1>0, <1>7 DEF CallTypes
<1>8. ASSUME NEW d \in Call, ForwardFails(d) \/ TakeFails(d) \/ TakeUnheard(d) \/ Added(d)
      PROVE  CallTypes'
  <2>1. (Reply(d, "error") \/ Reply(d, "ok")) /\ UNCHANGED <<job, seen>> /\ answer' = answer
    BY <1>8, Zenon DEF ForwardFails, TakeFails, TakeUnheard, Added
  <2> QED BY <2>1, <1>0, <1>7 DEF CallTypes
<1>9. ASSUME NEW d \in Call, Query(d) PROVE CallTypes'
  <2>1. /\ Reply(d, "ok") /\ UNCHANGED <<job, seen>>
        /\ answer' = [answer EXCEPT ![d] = {id \in Id : <<GroupOf(d), id>> \in count[At(d)]}]
    BY <1>9, Zenon DEF Query
  <2>2. answer' \in [Call -> SUBSET Id]
    BY <2>1, <1>0 DEF CallTypes
  <2> QED BY <2>1, <2>2, <1>7
<1>10. ASSUME NEW d \in Call, Forward(d) PROVE CallTypes'
  <2>1. /\ UNCHANGED <<job, live, taken, answer, res, seen>> /\ live[d]
        /\ path' = [path EXCEPT ![d] = Append(@, Owner(At(d), GroupOf(d)))]
    BY <1>10, Zenon DEF Forward
  <2>2. Owner(At(d), GroupOf(d)) \in Server
    BY <2>1, AtFacts
  <2>3. path[d] \in Seq(Server)
    BY <1>0 DEF CallTypes
  <2>4. Append(path[d], Owner(At(d), GroupOf(d))) \in Seq(Server)
    BY <2>2, <2>3
  <2>5. path' \in [Call -> Seq(Server)]
    BY <2>1, <2>4, <1>0 DEF CallTypes
  <2> QED BY <2>1, <2>5, <1>0 DEF CallTypes
<1>11. ASSUME NEW d \in Call, Take(d) PROVE CallTypes'
  <2>1. UNCHANGED <<job, path, live, answer, res, seen>> /\ taken' = [taken EXCEPT ![d] = @ + 1]
    BY <1>11, Zenon DEF Take
  <2> QED BY <2>1, <1>0 DEF CallTypes
<1>12. ASSUME NEW d \in Call, NEW n \in Server, NEW j \in Job, Invoke(d, n, j) PROVE CallTypes'
  <2>1. /\ UNCHANGED <<taken, answer, res>>
        /\ job' = [job EXCEPT ![d] = j] /\ path' = [path EXCEPT ![d] = <<n>>]
        /\ live' = [live EXCEPT ![d] = TRUE]
        /\ seen' = [seen EXCEPT ![d] = IF j.kind = "Query" THEN Answered(j.group) ELSE {}]
    BY <1>12, Zenon DEF Invoke
  <2>2. Answered(j.group) \in SUBSET Id
    BY <1>0 DEF Answered, CallTypes
  <2>3. seen' \in [Call -> SUBSET Id]
    BY <2>1, <2>2, <1>0 DEF CallTypes
  <2>4. path' \in [Call -> Seq(Server)]
    BY <2>1, <1>0 DEF CallTypes
  <2> QED BY <2>1, <2>3, <2>4, <1>0 DEF CallTypes
<1>13. CASE \E d \in Call : Handle(d) \/ Expire(d) \/ \E n \in Server, j \in Job : Invoke(d, n, j)
  BY <1>13, <1>6, <1>8, <1>9, <1>10, <1>11, <1>12, Zenon DEF Handle
<1> QED BY <1>2, <1>3, <1>4, <1>5, <1>13, Zenon DEF Next

LEMMA TypesKept ==
  ASSUME TypeOK, Serving, CallsRun, [Next]_vars
  PROVE  TypeOK'
<1>1. ServerTypes' /\ DataTypes' /\ CallTypes'
  BY Types, ServerTypesKept, DataTypesKept, CallTypesKept
<1> QED BY <1>1 DEF TypeOK, ServerTypes, DataTypes, CallTypes

-----------------------------------------------------------------------------
(* Processes and calls.                                                    *)

LEMMA ServingKept ==
  ASSUME TypeOK, Serving, [Next]_vars
  PROVE  Serving'
<1>0. /\ proc \in [Server -> {"down", "up", "draining"}] /\ view \in [Server -> {Old, N}]
      /\ Lists \subseteq Lists'
  BY Grows DEF TypeOK
<1>1. ASSUME view' = view, \A n \in Server : proc'[n] # "down" => proc[n] # "down" PROVE Serving'
  BY <1>0, <1>1 DEF Serving
<1>2. CASE UNCHANGED vars
  BY <1>1, <1>2 DEF vars, serverVars
<1>3. CASE Rescale
  BY <1>1, <1>3 DEF Rescale
<1>4. ASSUME NEW n \in Server, Start(n) PROVE Serving'
  <2>1. /\ proc' = [proc EXCEPT ![n] = "up"] /\ view' = [view EXCEPT ![n] = peers]
        /\ n <= peers
    BY <1>4, Zenon DEF Start
  <2>2. peers \in Lists'
    BY <1>0 DEF Lists
  <2> QED BY <2>1, <2>2, <1>0 DEF Serving
<1>5. ASSUME NEW n \in Server, Crash(n) \/ Exit(n) PROVE Serving'
  <2>1. proc' = [proc EXCEPT ![n] = "down"] /\ view' = view
    BY <1>5, Zenon DEF Crash, Exit, Ends
  <2> QED BY <2>1, <1>0, <1>1
<1>6. ASSUME NEW n \in Server, Drain(n) PROVE Serving'
  <2>1. proc' = [proc EXCEPT ![n] = "draining"] /\ view' = view /\ proc[n] = "up"
    BY <1>6, Zenon DEF Drain
  <2> QED BY <2>1, <1>0, <1>1
<1>7. ASSUME NEW n \in Server, NEW p, Apply(n, p) PROVE Serving'
  BY <1>1, <1>7 DEF Apply, serverVars
<1>8. ASSUME NEW c \in Call, Handle(c) \/ Expire(c) \/ \E n \in Server, j \in Job : Invoke(c, n, j)
      PROVE  Serving'
  <2>1. proc' = proc /\ view' = view
    BY <1>8, Zenon
    DEF Handle, Forward, ForwardFails, Take, TakeFails, TakeUnheard, Added, Query, Expire, Invoke,
        serverVars
  <2> QED BY <2>1, <1>1
<1> QED BY <1>2, <1>3, <1>4, <1>5, <1>6, <1>7, <1>8, Zenon DEF Next

\* A process does not end under a handler: a crash takes it along, and
\* GracefulStop waits for it.
LEMMA StaysUp ==
  ASSUME TypeOK, Serving, CallsRun, [Next]_vars, NEW c \in Call, live[c], live'[c]
  PROVE  proc'[At(c)] # "down"
<1>0. proc \in [Server -> {"down", "up", "draining"}] /\ At(c) \in Server /\ proc[At(c)] # "down"
  BY AtFacts, Zenon DEF TypeOK, CallsRun
<1>1. ASSUME proc' = proc PROVE proc'[At(c)] # "down"
  BY <1>0, <1>1, Zenon
<1>2. CASE UNCHANGED vars
  BY <1>1, <1>2, Zenon DEF vars, serverVars
<1>3. CASE Rescale
  BY <1>1, <1>3, Zenon DEF Rescale
<1>4. ASSUME NEW n \in Server, Start(n) \/ Drain(n) PROVE proc'[At(c)] # "down"
  <2>1. \E x \in {"up", "draining"} : proc' = [proc EXCEPT ![n] = x]
    BY <1>4, Zenon DEF Start, Drain
  <2> QED BY <2>1, <1>0
<1>5. ASSUME NEW n \in Server, Crash(n) PROVE proc'[At(c)] # "down"
  <2>1. /\ proc' = [proc EXCEPT ![n] = "down"]
        /\ live' = [d \in Call |-> live[d] /\ ~Works(n, d)]
    BY <1>5, Zenon DEF Crash, Ends
  <2>2. ~ Works(n, c)
    BY <2>1, Zenon
  <2>3. n # At(c)
    BY <2>2 DEF Works
  <2> QED BY <2>1, <2>3, <1>0
<1>6. ASSUME NEW n \in Server, Exit(n) PROVE proc'[At(c)] # "down"
  <2>1. proc' = [proc EXCEPT ![n] = "down"] /\ ~ Busy(n, c)
    BY <1>6, Zenon DEF Exit, Ends
  <2>2. n # At(c)
    BY <2>1 DEF Works, Busy
  <2> QED BY <2>1, <2>2, <1>0
<1>7. ASSUME NEW n \in Server, NEW p, Apply(n, p) PROVE proc'[At(c)] # "down"
  BY <1>1, <1>7 DEF Apply, serverVars
<1>8. ASSUME NEW d \in Call, Handle(d) \/ Expire(d) \/ \E n \in Server, j \in Job : Invoke(d, n, j)
      PROVE  proc'[At(c)] # "down"
  <2>1. proc' = proc
    BY <1>8, Zenon
    DEF Handle, Forward, ForwardFails, Take, TakeFails, TakeUnheard, Added, Query, Expire, Invoke,
        serverVars
  <2> QED BY <2>1, <1>1
<1> QED BY <1>2, <1>3, <1>4, <1>5, <1>6, <1>7, <1>8, Zenon DEF Next

\* What a handler's step does to its own call.
LEMMA OwnStep ==
  ASSUME TypeOK, Serving, CallsRun, NEW c \in Call
  PROVE  /\ Forward(c) =>
              /\ live[c] /\ live'[c] /\ job'[c] = job[c] /\ taken'[c] = taken[c] /\ answer'[c] = answer[c]
              /\ res'[c] = res[c] /\ seen'[c] = seen[c]
              /\ path'[c] = Append(path[c], Owner(At(c), GroupOf(c)))
              /\ Owner(At(c), GroupOf(c)) # At(c) /\ proc'[Owner(At(c), GroupOf(c))] = "up"
         /\ Take(c) =>
              /\ live[c] /\ live'[c] /\ job'[c] = job[c] /\ taken'[c] = taken[c] + 1
              /\ answer'[c] = answer[c] /\ res'[c] = res[c] /\ seen'[c] = seen[c] /\ path'[c] = path[c]
         /\ Added(c) \/ Query(c) =>
              /\ live[c] /\ live'[c] = FALSE /\ job'[c] = job[c] /\ taken'[c] = 0 /\ path'[c] = <<>>
              /\ seen'[c] = seen[c] /\ res'[c] = IF res[c] = "none" THEN "ok" ELSE res[c]
              /\ Owner(At(c), GroupOf(c)) = At(c)
         /\ Added(c) => answer'[c] = answer[c] /\ ~ MoreIds(c) /\ job[c].kind # "Query"
         /\ Query(c) => /\ job[c].kind = "Query"
                        /\ answer'[c] = {id \in Id : <<GroupOf(c), id>> \in count[At(c)]}
<1>0. CallTypes
  BY Types, Zenon
<1>1. ASSUME Forward(c)
      PROVE  /\ live[c] /\ live'[c] /\ job'[c] = job[c] /\ taken'[c] = taken[c] /\ answer'[c] = answer[c]
             /\ res'[c] = res[c] /\ seen'[c] = seen[c]
             /\ path'[c] = Append(path[c], Owner(At(c), GroupOf(c)))
             /\ Owner(At(c), GroupOf(c)) # At(c) /\ proc'[Owner(At(c), GroupOf(c))] = "up"
  <2>1. /\ live[c] /\ ~ IsLocal(c) /\ proc[Owner(At(c), GroupOf(c))] = "up" /\ proc' = proc
        /\ path' = [path EXCEPT ![c] = Append(@, Owner(At(c), GroupOf(c)))]
        /\ UNCHANGED <<job, live, taken, answer, res, seen>>
    BY <1>1, Zenon DEF Forward, serverVars
  <2> QED BY <2>1, <1>0 DEF CallTypes, IsLocal
<1>2. ASSUME Take(c)
      PROVE  /\ live[c] /\ live'[c] /\ job'[c] = job[c] /\ taken'[c] = taken[c] + 1
             /\ answer'[c] = answer[c] /\ res'[c] = res[c] /\ seen'[c] = seen[c] /\ path'[c] = path[c]
  <2>1. live[c] /\ taken' = [taken EXCEPT ![c] = @ + 1] /\ UNCHANGED <<job, path, live, answer, res, seen>>
    BY <1>2, Zenon DEF Take
  <2> QED BY <2>1, <1>0 DEF CallTypes
<1>3. ASSUME Added(c) \/ Query(c)
      PROVE  /\ live[c] /\ live'[c] = FALSE /\ job'[c] = job[c] /\ taken'[c] = 0 /\ path'[c] = <<>>
             /\ seen'[c] = seen[c] /\ res'[c] = IF res[c] = "none" THEN "ok" ELSE res[c]
             /\ Owner(At(c), GroupOf(c)) = At(c)
  <2>1. /\ live[c] /\ IsLocal(c) /\ UNCHANGED <<job, seen>>
        /\ live' = [live EXCEPT ![c] = FALSE] /\ path' = [path EXCEPT ![c] = <<>>]
        /\ taken' = [taken EXCEPT ![c] = 0]
        /\ res' = [res EXCEPT ![c] = IF @ = "none" THEN "ok" ELSE @]
    BY <1>3, Zenon DEF Added, Query, Reply
  <2> QED BY <2>1, <1>0 DEF CallTypes, IsLocal
<1>4. ASSUME Added(c) PROVE answer'[c] = answer[c] /\ ~ MoreIds(c) /\ job[c].kind # "Query"
  BY <1>4, Zenon DEF Added
<1>5. ASSUME Query(c)
      PROVE  /\ job[c].kind = "Query"
             /\ answer'[c] = {id \in Id : <<GroupOf(c), id>> \in count[At(c)]}
  <2>1. /\ job[c].kind = "Query"
        /\ answer' = [answer EXCEPT ![c] = {id \in Id : <<GroupOf(c), id>> \in count[At(c)]}]
    BY <1>5, Zenon DEF Query
  <2> QED BY <2>1, <1>0 DEF CallTypes
<1> QED BY <1>1, <1>2, <1>3, <1>4, <1>5, Zenon

\* A client's call begins.
LEMMA InvokeStep ==
  ASSUME TypeOK, NEW c \in Call, NEW n \in Server, NEW j \in Job, Invoke(c, n, j)
  PROVE  /\ job[c] = NoJob /\ live'[c] /\ job'[c] = j /\ taken'[c] = taken[c]
         /\ answer'[c] = answer[c] /\ res'[c] = res[c] /\ path'[c] = <<n>> /\ proc'[n] = "up"
         /\ seen'[c] = IF j.kind = "Query" THEN Answered(j.group) ELSE {}
<1>0. CallTypes
  BY Types
<1>1. /\ job[c] = NoJob /\ proc[n] = "up" /\ proc' = proc /\ UNCHANGED <<taken, answer, res>>
      /\ job' = [job EXCEPT ![c] = j] /\ path' = [path EXCEPT ![c] = <<n>>]
      /\ live' = [live EXCEPT ![c] = TRUE]
      /\ seen' = [seen EXCEPT ![c] = IF j.kind = "Query" THEN Answered(j.group) ELSE {}]
  BY Zenon DEF Invoke, serverVars
<1> QED BY <1>0, <1>1 DEF CallTypes

\* The state of one call, as CallsRun asks.
CallRuns(c) ==
  /\ live[c] =>
       /\ job[c] # NoJob /\ res[c] # "ok" /\ path[c] # <<>> /\ proc[At(c)] # "down"
       /\ taken[c] <= Len(job[c].ids)
  /\ ~live[c] => path[c] = <<>> /\ taken[c] = 0
  /\ job[c] = NoJob => ~live[c] /\ res[c] = "none" /\ answer[c] = {} /\ seen[c] = {}

LEMMA CallsRunKept ==
  ASSUME TypeOK, Serving, CallsRun, [Next]_vars
  PROVE  CallsRun'
<1> SUFFICES ASSUME NEW c \in Call PROVE CallRuns(c)'
  BY Zenon DEF CallsRun, CallRuns
<1>1. CallRuns(c)
  BY Zenon DEF CallsRun, CallRuns
<1>2. live[c] \in BOOLEAN /\ path[c] \in Seq(Server) /\ job[c] \in Job \cup {NoJob} /\ taken[c] \in Nat
  BY DEF TypeOK
<1>3. ASSUME Fades(c) PROVE CallRuns(c)'
  <2>1. job'[c] = job[c] /\ answer'[c] = answer[c] /\ seen'[c] = seen[c]
    BY <1>3, Zenon DEF Fades
  <2>2. CASE ~ live[c]
    <3>1. ~ live'[c] /\ path'[c] = <<>> /\ taken'[c] = 0 /\ res'[c] = res[c]
      BY <2>2, <1>1, <1>2, <1>3, Zenon DEF CallRuns, Fades
    <3> QED BY <3>1, <2>1, <1>1, Zenon DEF CallRuns
  <2>3. CASE live[c] /\ ~ live'[c]
    <3>1. path'[c] = <<>> /\ taken'[c] = 0 /\ job[c] # NoJob
      BY <2>3, <1>1, <1>2, <1>3, Zenon DEF CallRuns, Fades
    <3> QED BY <3>1, <2>1, <2>3 DEF CallRuns
  <2>4. CASE live[c] /\ live'[c]
    <3>1. path'[c] = path[c] /\ taken'[c] = taken[c] /\ job[c] # NoJob /\ res'[c] # "ok"
      BY <2>4, <1>1, <1>2, <1>3, Zenon DEF CallRuns, Fades
    <3>2. proc'[At(c)] # "down" /\ At(c)' = At(c)
      BY <2>4, <3>1, StaysUp DEF At
    <3> QED BY <3>1, <3>2, <2>1, <2>4, <1>1, Zenon DEF CallRuns
  <2> QED BY <2>2, <2>3, <2>4, Zenon
<1>4. ASSUME Forward(c) PROVE CallRuns(c)'
  <2> DEFINE o == Owner(At(c), GroupOf(c))
  <2>1. /\ live[c] /\ live'[c] /\ job'[c] = job[c] /\ taken'[c] = taken[c] /\ res'[c] = res[c]
        /\ path'[c] = Append(path[c], o) /\ proc'[o] = "up"
    BY <1>4, OwnStep, Zenon
  <2>2. o \in Server
    BY <2>1, AtFacts
  <2> HIDE DEF o
  <2>3. path'[c] # <<>> /\ At(c)' = o
    <3>1. /\ Len(path'[c]) = Len(path[c]) + 1 /\ path'[c][Len(path[c]) + 1] = o /\ Len(path[c]) \in Nat
          /\ Len(<<>>) = 0
      BY <2>1, <2>2, <1>2
    <3> QED BY <3>1 DEF At
  <2> QED BY <2>1, <2>3, <1>1, Zenon DEF CallRuns
<1>5. ASSUME Take(c) PROVE CallRuns(c)'
  <2>1. /\ live[c] /\ live'[c] /\ job'[c] = job[c] /\ taken'[c] = taken[c] + 1
        /\ res'[c] = res[c] /\ path'[c] = path[c]
    BY <1>5, OwnStep, Zenon
  <2>2. taken[c] + 1 <= Len(job[c].ids)
    BY <1>5, <1>2, NextPairType
  <2>3. proc'[At(c)] # "down" /\ At(c)' = At(c)
    BY <2>1, StaysUp, Zenon DEF At
  <2> QED BY <2>1, <2>2, <2>3, <1>1 DEF CallRuns
<1>6. ASSUME Added(c) \/ Query(c) PROVE CallRuns(c)'
  <2>1. /\ live[c] /\ live'[c] = FALSE /\ job'[c] = job[c] /\ taken'[c] = 0 /\ path'[c] = <<>>
    BY <1>6, OwnStep, Zenon
  <2> QED BY <2>1, <1>1 DEF CallRuns
<1>7. ASSUME NEW n \in Server, NEW j \in Job, Invoke(c, n, j) PROVE CallRuns(c)'
  <2>1. /\ job[c] = NoJob /\ live'[c] /\ job'[c] = j /\ taken'[c] = taken[c]
        /\ res'[c] = res[c] /\ path'[c] = <<n>> /\ proc'[n] = "up"
    BY <1>7, InvokeStep, Zenon
  <2>2. taken[c] = 0 /\ res[c] = "none"
    BY <2>1, <1>1, Zenon DEF CallRuns
  <2>3. j # NoJob /\ 0 <= Len(j.ids)
    BY JobFacts
  <2>4. <<n>> # <<>> /\ <<n>>[Len(<<n>>)] = n
    BY Zenon
  <2> QED BY <2>1, <2>2, <2>3, <2>4, Zenon DEF CallRuns, At
<1> QED BY <1>3, <1>4, <1>5, <1>6, <1>7, CallSteps, Zenon

\* Passing a call on takes it to a server the walk meets earlier.
LEMMA PathsDescendKept ==
  ASSUME TypeOK, Serving, CallsRun, PathsDescend, [Next]_vars
  PROVE  PathsDescend'
<1> DEFINE Down(w, p) == \A i, j \in 1 .. Len(p) : \A a, b \in 1 .. N :
                           i < j /\ w[a] = p[i] /\ w[b] = p[j] => b < a
<1>0. clockwise' = clockwise
  BY Grows, Zenon
<1> SUFFICES ASSUME NEW c \in Call, live'[c]
             PROVE  Down(clockwise[job'[c].group], path'[c])
  BY <1>0, Zenon DEF PathsDescend, GroupOf
<1>1. live[c] => Down(clockwise[job[c].group], path[c])
  BY Zenon DEF PathsDescend, GroupOf
<1>2. path[c] \in Seq(Server) /\ live[c] \in BOOLEAN
  BY DEF TypeOK
<1>3. CASE Fades(c)
  <2>1. live[c] /\ path'[c] = path[c] /\ job'[c] = job[c]
    BY <1>2, <1>3, Zenon DEF Fades
  <2> HIDE DEF Down
  <2> QED BY <2>1, <1>1
<1>4. CASE Take(c)
  <2>1. live[c] /\ path'[c] = path[c] /\ job'[c] = job[c]
    BY <1>4, OwnStep, Zenon
  <2> HIDE DEF Down
  <2> QED BY <2>1, <1>1
<1>5. CASE Added(c) \/ Query(c)
  BY <1>5, OwnStep, Zenon
<1>6. ASSUME NEW n \in Server, NEW k \in Job, Invoke(c, n, k)
      PROVE  Down(clockwise[job'[c].group], path'[c])
  <2>1. path'[c] = <<n>>
    BY <1>6, InvokeStep, Zenon
  <2>2. Len(<<n>>) = 1
    BY Zenon
  <2> QED BY <2>1, <2>2
<1>7. CASE Forward(c)
  <2> DEFINE o == Owner(At(c), GroupOf(c))
             w == clockwise[job[c].group]
             L == Len(path[c])
  <2>1. live[c] /\ job'[c] = job[c] /\ path'[c] = Append(path[c], o) /\ o # At(c)
    BY <1>7, OwnStep, Zenon
  <2>2. /\ L \in Nat /\ L # 0 /\ At(c) \in Server /\ At(c) = path[c][L] /\ GroupOf(c) \in Group
        /\ view[At(c)] \in {Old, N} /\ At(c) <= view[At(c)] /\ o = Resolve(view[At(c)], GroupOf(c))
        /\ o \in Server
    BY <2>1, AtFacts, Zenon
  <2>3. w \in Walk
    BY <2>2, Zenon DEF TypeOK, GroupOf
  <2>4. PICK k \in 1 .. N : w[k] = o /\ \A a \in 1 .. N : w[a] <= view[At(c)] => k <= a
    <3>1. clockwise \in [Group -> Walk]
      BY Zenon DEF TypeOK
    <3>2. \E k \in 1 .. N :
             /\ clockwise[GroupOf(c)][k] = Resolve(view[At(c)], GroupOf(c))
             /\ \A a \in 1 .. N : clockwise[GroupOf(c)][a] <= view[At(c)] => k <= a
      BY <3>1, <2>2, ResolveFacts, Zenon
    <3>3. w = clockwise[GroupOf(c)]
      BY Zenon DEF GroupOf
    <3> HIDE DEF w, o
    <3> QED BY <3>2, <3>3, <2>2
  <2>5. PICK m \in 1 .. N : w[m] = At(c)
    BY <2>2, <2>3, WalkFacts
  <2>6. k < m
    <3>1. k <= m /\ k # m
      BY <2>1, <2>2, <2>4, <2>5, Zenon
    <3> QED BY <3>1, ServerFacts, SMTT(30)
  <2>7. \A a, b \in 1 .. N : w[a] = w[b] => a = b
    BY <2>3, WalkFacts, SMTT(30)
  <2>8. /\ Len(path'[c]) = L + 1 /\ path'[c][L + 1] = o
        /\ \A i \in 1 .. L : path'[c][i] = path[c][i]
    BY <2>1, <2>2, <1>2
  <2>9. Down(w, path[c])
    BY <2>1, <1>1
  <2> HIDE DEF o, w, L
  <2>10. ASSUME NEW i \in 1 .. L, NEW a \in 1 .. N, w[a] = path[c][i] PROVE k < a
    <3>1. CASE i = L
      BY <3>1, <2>2, <2>5, <2>6, <2>7, <2>10
    <3>2. CASE i # L
      <4>1. i < L /\ L \in 1 .. L
        BY <3>2, <2>2
      <4>2. m < a
        BY <4>1, <2>2, <2>5, <2>9, <2>10 DEF L
      <4> QED BY <4>2, <2>6, ServerFacts
    <3> QED BY <3>1, <3>2, Zenon
  <2>11. ASSUME NEW i \in 1 .. L + 1, NEW j \in 1 .. L + 1, NEW a \in 1 .. N, NEW b \in 1 .. N,
                i < j, w[a] = path'[c][i], w[b] = path'[c][j]
         PROVE  b < a
    <3>1. i \in 1 .. L
      BY <2>2, <2>11
    <3>2. CASE j = L + 1
      <4>1. b = k
        BY <3>2, <2>4, <2>7, <2>8, <2>11
      <4> QED BY <3>1, <4>1, <2>8, <2>10, <2>11, Zenon
    <3>3. CASE j # L + 1
      <4>1. j \in 1 .. L
        BY <3>3, <2>2
      <4> QED BY <3>1, <4>1, <2>8, <2>9, <2>11, Zenon DEF L
    <3> QED BY <3>2, <3>3, Zenon
  <2> QED BY <2>1, <2>8, <2>11 DEF w
<1> HIDE DEF Down
<1> QED BY <1>3, <1>4, <1>5, <1>6, <1>7, CallSteps, Zenon

-----------------------------------------------------------------------------
(* Data.                                                                   *)

LEMMA StoredOnlyAtOwnersKept ==
  ASSUME TypeOK, Serving, CallsRun, StoredOnlyAtOwners, [Next]_vars
  PROVE  StoredOnlyAtOwners'
<1> SUFFICES ASSUME NEW n \in Server, NEW p, p \in pend'[n] \cup count'[n]
             PROVE  n \in Owners(p[1])'
  BY Zenon DEF StoredOnlyAtOwners
<1>1. \A g : Owners(g) \subseteq Owners(g)'
  BY Lasts, Zenon
<1>2. CASE p \in pend[n] \cup count[n]
  BY <1>1, <1>2, Zenon DEF StoredOnlyAtOwners
<1>3. ASSUME NEW c \in Call, Take(c) \/ TakeUnheard(c), n = At(c), p = NextPair(c)
      PROVE  n \in Owners(p[1])'
  <2>1. live[c] /\ IsLocal(c)
    BY <1>3, Zenon DEF Take, TakeUnheard
  <2>2. view[n] \in Lists /\ n = Resolve(view[n], GroupOf(c))
    BY <2>1, <1>3, AtFacts, Zenon DEF IsLocal
  <2>3. n \in Owners(GroupOf(c))
    BY <2>2, Zenon DEF Owners
  <2>4. p[1] = GroupOf(c)
    BY <1>3 DEF NextPair
  <2> QED BY <2>3, <2>4, <1>1, Zenon
<1> QED BY <1>2, <1>3, Arrives, Zenon

\* Held and persisted after the step.
HeldNext(p) == p \in lost' \/ \E n \in Server : p \in pend'[n] \cup count'[n]
StoredNext(p) == \E n \in Server : p \in count'[n]

LEMMA TakenIsHeldKept ==
  ASSUME TypeOK, Serving, CallsRun, TakenIsHeld, [Next]_vars
  PROVE  TakenIsHeld'
<1> DEFINE Up(j, k) == \A i \in 1 .. k : Held(<<j.group, j.ids[i]>>)
           Later(j, k) == \A i \in 1 .. k : HeldNext(<<j.group, j.ids[i]>>)
<1>1. \A p : Held(p) => HeldNext(p)
  BY Lasts DEF Held, HeldNext
<1>2. \A j, k : Up(j, k) => Later(j, k)
  BY <1>1, Zenon
<1> SUFFICES ASSUME NEW c \in Call
             PROVE  /\ live'[c] => Later(job'[c], taken'[c])
                    /\ res'[c] = "ok" => Later(job'[c], Len(job'[c].ids))
  BY Zenon DEF TakenIsHeld, GroupOf, Held, HeldNext
<1>3. /\ live[c] => Up(job[c], taken[c])
      /\ res[c] = "ok" => Up(job[c], Len(job[c].ids))
  BY Zenon DEF TakenIsHeld, GroupOf
<1>4. live[c] \in BOOLEAN /\ taken[c] \in Nat /\ job[c] \in Job \cup {NoJob}
  BY Zenon DEF TypeOK
<1>5. \A j : Later(j, 0)
  OBVIOUS
<1>6. CASE Fades(c)
  <2> HIDE DEF Up, Later
  <2>1. job'[c] = job[c]
    BY <1>6 DEF Fades
  <2>2. live'[c] => live[c] /\ taken'[c] = taken[c]
    BY <1>6, Zenon DEF Fades
  <2>3. res'[c] = "ok" => res[c] = "ok"
    BY <1>6, Zenon DEF Fades
  <2> QED BY <2>1, <2>2, <2>3, <1>2, <1>3, Zenon
<1>7. CASE Forward(c)
  <2> HIDE DEF Up, Later
  <2>1. live[c] /\ job'[c] = job[c] /\ taken'[c] = taken[c] /\ res'[c] = res[c]
    BY <1>7, OwnStep, Zenon
  <2> QED BY <2>1, <1>2, <1>3
<1>8. CASE Take(c)
  <2>1. live[c] /\ job'[c] = job[c] /\ taken'[c] = taken[c] + 1 /\ res'[c] = res[c]
    BY <1>8, OwnStep, Zenon
  <2>2. HeldNext(NextPair(c))
    <3>1. pend' = [pend EXCEPT ![At(c)] = @ \cup {NextPair(c)}] /\ At(c) \in Server
      BY <1>8, NextPairType, Zenon DEF Take
    <3>2. NextPair(c) \in pend'[At(c)]
      BY <3>1 DEF TypeOK
    <3> QED BY <3>1, <3>2 DEF HeldNext
  <2>3. Later(job[c], taken[c])
    BY <2>1, <1>2, <1>3, Zenon
  <2>4. Later(job[c], taken[c] + 1)
    <3> SUFFICES ASSUME NEW i \in 1 .. taken[c] + 1 PROVE HeldNext(<<job[c].group, job[c].ids[i]>>)
      BY Zenon
    <3>1. CASE i = taken[c] + 1
      BY <3>1, <2>2, Zenon DEF NextPair, GroupOf
    <3>2. CASE i # taken[c] + 1
      <4>1. i \in 1 .. taken[c]
        BY <3>2, <1>4
      <4> QED BY <4>1, <2>3
    <3> QED BY <3>1, <3>2, Zenon
  <2> HIDE DEF Up, Later
  <2> QED BY <2>1, <2>4, <1>2, <1>3
<1>9. CASE Added(c) \/ Query(c)
  <2> HIDE DEF Up, Later
  <2>1. live[c] /\ ~ live'[c] /\ job'[c] = job[c]
    BY <1>9, OwnStep, Zenon
  <2>2. job[c] \in Job /\ Len(job[c].ids) \in Nat /\ taken[c] <= Len(job[c].ids)
    BY <2>1, AtFacts, JobFacts, Zenon DEF CallsRun
  <2>3. taken[c] = Len(job[c].ids)
    <3>1. CASE Added(c)
      <4>1. ~ MoreIds(c)
        BY <3>1, OwnStep, Zenon
      <4>2. taken[c] \in Nat
        BY <1>4
      <4> QED BY <4>1, <4>2, <2>2 DEF MoreIds
    <3>2. CASE Query(c)
      <4>1. Len(job[c].ids) = 0
        BY <3>2, <2>2, OwnStep, JobFacts, Zenon
      <4> QED BY <4>1, <2>2, <1>4
    <3> QED BY <3>1, <3>2, <1>9, Zenon
  <2>4. Later(job[c], Len(job[c].ids))
    BY <2>1, <2>3, <1>2, <1>3, Zenon
  <2> QED BY <2>1, <2>4
<1>10. ASSUME NEW n \in Server, NEW k \in Job, Invoke(c, n, k)
       PROVE  /\ live'[c] => Later(job'[c], taken'[c])
              /\ res'[c] = "ok" => Later(job'[c], Len(job'[c].ids))
  <2> HIDE DEF Up, Later
  <2>1. job[c] = NoJob /\ taken'[c] = taken[c] /\ res'[c] = res[c]
    BY <1>10, InvokeStep, Zenon
  <2>2. taken[c] = 0 /\ res[c] = "none"
    BY <2>1 DEF CallsRun
  <2> QED BY <2>1, <2>2, <1>5
<1> HIDE DEF Up, Later
<1> QED BY <1>6, <1>7, <1>8, <1>9, <1>10, CallSteps, Zenon

\* What the queries of a group have answered is persisted.
LEMMA AnsweredIsStored ==
  ASSUME TypeOK, SeenIsStored, NEW g, NEW id \in Answered(g)
  PROVE  Stored(<<g, id>>)
<1>1. PICK d \in Call : GroupOf(d) = g /\ id \in answer[d]
  BY DEF Answered
<1> QED BY <1>1 DEF SeenIsStored

LEMMA SeenIsStoredKept ==
  ASSUME TypeOK, Serving, CallsRun, SeenIsStored, [Next]_vars
  PROVE  SeenIsStored'
<1>1. \A p : Stored(p) => StoredNext(p)
  BY Lasts, Zenon DEF Stored, StoredNext
<1> SUFFICES ASSUME NEW c \in Call, NEW id, id \in answer'[c] \cup seen'[c]
             PROVE  StoredNext(<<job'[c].group, id>>)
  BY DEF SeenIsStored, GroupOf, Stored, StoredNext
<1>2. id \in answer[c] \cup seen[c] => Stored(<<job[c].group, id>>)
  BY Zenon DEF SeenIsStored, GroupOf
<1>3. ASSUME job'[c] = job[c], answer'[c] = answer[c], seen'[c] = seen[c]
      PROVE  StoredNext(<<job'[c].group, id>>)
  BY <1>1, <1>2, <1>3, Zenon
<1>4. CASE Fades(c)
  BY <1>3, <1>4 DEF Fades
<1>5. CASE Forward(c) \/ Take(c) \/ Added(c)
  BY <1>3, <1>5, OwnStep, Zenon
<1>6. CASE Query(c)
  <2>1. /\ live[c] /\ job'[c] = job[c] /\ seen'[c] = seen[c]
        /\ answer'[c] = {x \in Id : <<GroupOf(c), x>> \in count[At(c)]}
    BY <1>6, OwnStep, Zenon
  <2>2. At(c) \in Server
    BY <2>1, AtFacts, SMTT(30)
  <2>3. id \in answer'[c] => Stored(<<job[c].group, id>>)
    BY <2>1, <2>2, Zenon DEF Stored, GroupOf
  <2> QED BY <2>1, <2>3, <1>1, <1>2
<1>7. ASSUME NEW n \in Server, NEW j \in Job, Invoke(c, n, j) PROVE StoredNext(<<job'[c].group, id>>)
  <2>1. /\ job[c] = NoJob /\ job'[c] = j /\ answer'[c] = answer[c]
        /\ seen'[c] = IF j.kind = "Query" THEN Answered(j.group) ELSE {}
    BY <1>7, InvokeStep, SMTT(20)
  <2>2. answer[c] = {}
    BY <2>1, SMTT(20) DEF CallsRun
  <2>3. id \in Answered(j.group)
    BY <2>1, <2>2
  <2> QED BY <2>1, <2>3, <1>1, AnsweredIsStored, SMTT(30)
<1> QED BY <1>4, <1>5, <1>6, <1>7, CallSteps, Zenon

LEMMA MonotoneReadsKept ==
  ASSUME TypeOK, Serving, CallsRun, StoredOnlyAtOwners, SeenIsStored, MonotoneReads, [Next]_vars
  PROVE  MonotoneReads'
<1>1. \A g : Owners(g) \subseteq Owners(g)'
  BY Lasts, SMTT(30)
<1> SUFFICES ASSUME NEW c \in Call, res'[c] = "ok", job'[c].kind = "Query",
                    NEW g, g = job'[c].group, \A n, m \in Owners(g)' : n = m
             PROVE  seen'[c] \subseteq answer'[c]
  BY Zenon DEF MonotoneReads, Reads, GroupOf
<1>2. \A n, m \in Owners(g) : n = m
  BY <1>1, SMTT(30)
<1>3. ASSUME job'[c] = job[c], res[c] = "ok", answer'[c] = answer[c], seen'[c] = seen[c]
      PROVE  seen'[c] \subseteq answer'[c]
  BY <1>2, <1>3, SMTT(30) DEF MonotoneReads, Reads, GroupOf
<1>4. CASE Fades(c)
  BY <1>3, <1>4, Zenon DEF Fades
<1>5. CASE Forward(c) \/ Take(c)
  BY <1>3, <1>5, OwnStep, Zenon
<1>6. CASE Added(c)
  <2>1. job'[c] = job[c] /\ job[c].kind # "Query"
    BY <1>6, OwnStep, Zenon
  <2> QED BY <2>1
<1>7. CASE Query(c)
  <2>1. /\ live[c] /\ job'[c] = job[c] /\ seen'[c] = seen[c] /\ Owner(At(c), GroupOf(c)) = At(c)
        /\ answer'[c] = {x \in Id : <<GroupOf(c), x>> \in count[At(c)]}
    BY <1>7, OwnStep, Zenon
  <2>2. At(c) \in Owners(GroupOf(c))
    BY <2>1, AtFacts, Zenon DEF Owners
  <2>3. ASSUME NEW id \in seen[c] PROVE <<GroupOf(c), id>> \in count[At(c)] /\ id \in Id
    <3>1. PICK n \in Server : <<GroupOf(c), id>> \in count[n]
      BY Zenon DEF SeenIsStored, Stored
    <3>2. n \in Owners(GroupOf(c))
      BY <3>1 DEF StoredOnlyAtOwners
    <3>3. n = At(c)
      BY <3>2, <2>1, <2>2, <1>2, SMTT(30) DEF GroupOf
    <3>4. id \in Id
      BY Zenon DEF TypeOK
    <3> QED BY <3>1, <3>3, <3>4, Zenon
  <2> QED BY <2>1, <2>3
<1>8. ASSUME NEW n \in Server, NEW j \in Job, Invoke(c, n, j) PROVE FALSE
  <2>1. job[c] = NoJob /\ res'[c] = res[c]
    BY <1>8, InvokeStep, Zenon
  <2> QED BY <2>1, SMTT(20) DEF CallsRun
<1> QED BY <1>4, <1>5, <1>6, <1>7, <1>8, CallSteps, Zenon

-----------------------------------------------------------------------------
(* The theorems.                                                           *)

\* The invariant holds.
THEOREM ClusterInvariant == Spec => []ClusterInv
<1>1. Init => ClusterInv
  <2> SUFFICES ASSUME Init PROVE ClusterInv
    BY Zenon
  <2>1. ServerTypes /\ Serving
    <3>1. Old \in {Old, N} /\ 0 \in 0 .. MaxEnds
      BY BoundAssumption
    <3>2. ServerTypes
      BY <3>1, Zenon DEF Init, ServerTypes
    <3> QED BY <3>2 DEF Init, Serving, Lists
  <2>2. DataTypes
    BY CountedAssumption DEF Init, DataTypes
  <2>3. CallTypes
    <3>1. <<>> \in Seq(Server)
      OBVIOUS
    <3> QED BY <3>1 DEF Init, CallTypes
  <2>4. TypeOK
    BY <2>1, <2>2, <2>3, Types, Zenon
  <2>5. /\ \A c \in Call : ~ live[c] /\ path[c] = <<>> /\ taken[c] = 0 /\ res[c] = "none"
        /\ \A c \in Call : answer[c] = {} /\ seen[c] = {}
    BY SMTT(20) DEF Init
  <2>6. CallsRun /\ PathsDescend /\ TakenIsHeld /\ SeenIsStored /\ MonotoneReads
    BY <2>5 DEF CallsRun, PathsDescend, TakenIsHeld, SeenIsStored, MonotoneReads, Reads
  <2>7. StoredOnlyAtOwners
    <3>1. /\ pend = [n \in Server |-> {}]
          /\ count = [n \in Server |-> {p \in Counted : Resolve(Old, p[1]) = n}]
      BY Zenon DEF Init
    <3> QED BY <3>1, Zenon DEF StoredOnlyAtOwners, Owners, Lists
  <2> QED BY <2>1, <2>4, <2>6, <2>7 DEF ClusterInv
<1>2. ClusterInv /\ [Next]_vars => ClusterInv'
  <2> SUFFICES ASSUME ClusterInv, [Next]_vars PROVE ClusterInv'
    OBVIOUS
  <2>1. TypeOK /\ Serving /\ CallsRun /\ PathsDescend
    BY DEF ClusterInv
  <2>2. StoredOnlyAtOwners /\ TakenIsHeld /\ SeenIsStored /\ MonotoneReads
    BY DEF ClusterInv
  <2>3. TypeOK' /\ Serving' /\ CallsRun' /\ PathsDescend'
    BY <2>1, TypesKept, ServingKept, CallsRunKept, PathsDescendKept
  <2>4. StoredOnlyAtOwners' /\ TakenIsHeld' /\ SeenIsStored' /\ MonotoneReads'
    BY <2>1, <2>2, StoredOnlyAtOwnersKept, TakenIsHeldKept, SeenIsStoredKept, MonotoneReadsKept
  <2> QED BY <2>3, <2>4 DEF ClusterInv
<1> QED BY <1>1, <1>2, PTL DEF Spec

\* Every variable keeps its type, for any number of servers and calls.
THEOREM TypeCorrect == Spec => []TypeOK
<1>1. ClusterInv => TypeOK
  BY Zenon DEF ClusterInv
<1> QED BY <1>1, ClusterInvariant, PTL

\* Servers that route by different lists of peers never pass a call round in
\* a circle, although addID, BatchAdd and Query count no hops.
THEOREM CallsAreNotPassedRound == Spec => []NoForwardingLoop
<1>1. ClusterInv => NoForwardingLoop
  <2> SUFFICES ASSUME ClusterInv, NEW c \in Call PROVE IsInjective(path[c])
    BY Zenon DEF NoForwardingLoop
  <2>1. TypeOK /\ Serving /\ CallsRun /\ PathsDescend /\ live[c] \in BOOLEAN
    BY Zenon DEF ClusterInv, TypeOK
  <2>2. path[c] \in Seq(Server) /\ DOMAIN path[c] = 1 .. Len(path[c]) /\ Len(path[c]) \in Nat
    BY <2>1 DEF TypeOK
  <2>3. CASE ~ live[c]
    <3>1. path[c] = <<>>
      BY <2>1, <2>3 DEF CallsRun
    <3>2. DOMAIN path[c] = {}
      BY <3>1
    <3> QED BY <3>2, Zenon DEF IsInjective
  <2>4. CASE live[c]
    <3>1. clockwise[GroupOf(c)] \in Walk
      BY <2>1, <2>4, AtFacts DEF TypeOK
    <3>2. ASSUME NEW i \in 1 .. Len(path[c]), NEW j \in 1 .. Len(path[c]), i < j, path[c][i] = path[c][j]
          PROVE  FALSE
      <4>0. path[c][i] \in Server
        BY <2>2, SeqElement, Zenon
      <4>1. PICK a \in 1 .. N : clockwise[GroupOf(c)][a] = path[c][i]
        BY <4>0, <3>1, WalkFacts, Zenon
      <4>2. a < a
        BY <4>1, <3>2, <2>1, <2>4 DEF PathsDescend
      <4> QED BY <4>2, ServerFacts
    <3>3. \A i, j \in 1 .. Len(path[c]) : i # j => i < j \/ j < i
      BY <2>2
    <3> QED BY <3>2, <3>3, <2>2, Zenon DEF IsInjective
  <2> QED BY <2>3, <2>4
<1> QED BY <1>1, ClusterInvariant, PTL

\* The ids of a group are only at servers that a list made its owner.
THEOREM IdsRestWithOwners == Spec => []StoredOnlyAtOwners
<1>1. ClusterInv => StoredOnlyAtOwners
  BY Zenon DEF ClusterInv
<1> QED BY <1>1, ClusterInvariant, PTL

\* An Add or BatchAdd answered with ok left its ids with an owner, or with a
\* process that ended before applying them.
THEOREM AcknowledgedIsHeld == Spec => []AckedIsHeld
<1>1. ClusterInv => AckedIsHeld
  <2> SUFFICES ASSUME ClusterInv, NEW c \in Call, res[c] = "ok", NEW id \in Range(job[c].ids)
               PROVE  LET p == <<GroupOf(c), id>>
                      IN  p \in lost \/ \E n \in Owners(GroupOf(c)) : p \in pend[n] \cup count[n]
    BY DEF AckedIsHeld
  <2> DEFINE p == <<GroupOf(c), id>>
  <2>1. TypeOK /\ CallsRun /\ StoredOnlyAtOwners /\ TakenIsHeld
    BY Zenon DEF ClusterInv
  <2>2. job[c] \in Job
    BY <2>1, Zenon DEF TypeOK, CallsRun
  <2>3. DOMAIN job[c].ids = 1 .. Len(job[c].ids)
    BY <2>2, JobFacts, SMTT(30)
  <2>4. Held(p)
    BY <2>1, <2>3, Zenon DEF TakenIsHeld, Range
  <2>5. ASSUME NEW n \in Server, p \in pend[n] \cup count[n] PROVE n \in Owners(GroupOf(c))
    BY <2>1, <2>5 DEF StoredOnlyAtOwners
  <2> HIDE DEF p
  <2> QED BY <2>4, <2>5, Zenon DEF Held, p
<1> QED BY <1>1, ClusterInvariant, PTL

\* No query counts less than one answered before it began, as long as the
\* lists of peers agree on the group's owner.
THEOREM ReadsDoNotGoBack == Spec => []MonotoneReads
<1>1. ClusterInv => MonotoneReads
  BY DEF ClusterInv
<1> QED BY <1>1, ClusterInvariant, PTL
=============================================================================
