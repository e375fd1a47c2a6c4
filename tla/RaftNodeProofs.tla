--------------------------- MODULE RaftNodeProofs ---------------------------
(***************************************************************************)
(* Proofs about RaftNode, for every set of groups, ids and calls, every    *)
(* capacity, threshold and page limit.  First the inductive invariant and  *)
(* the type correctness that follows; then the data: what the store holds  *)
(* compared with the engine, with what was applied and with what was asked *)
(* for, and that the node implements Shard; then the log and its           *)
(* snapshots: maybeSnapshot always makes progress, the library never finds *)
(* its log cut short while a Ready carries every committed entry, and the  *)
(* engine and the snapshot are prefixes of the log.                        *)
(***************************************************************************)
EXTENDS RaftNode, EngineStateProofs

-----------------------------------------------------------------------------
(* The event loop and the log: which indices are within the log, where the *)
(* loop stands in it, and that a command about to be persisted is in the   *)
(* engine.                                                                 *)

LogInv ==
  /\ phase = "down" <=> loop = "exited"
  /\ phase = "down" => rlog = <<>> /\ rd = NoReady /\ cur = NoReady
  /\ applied <= Len(rlog) /\ stable <= Len(rlog)
  /\ rd.comm <= Len(rlog) /\ rd.last <= Len(rlog)
  /\ cur.comm <= Len(rlog) /\ cur.last <= Len(rlog)
  /\ rd # NoReady => rd.comm >= applied /\ loop \notin {"apply", "persist"}
  /\ loop \notin {"apply", "persist"} => next = applied + 1
  /\ loop \in {"apply", "persist"} => next \in 1 .. cur.comm + 1
  /\ loop = "persist" =>
       /\ next <= cur.comm /\ rlog[next] \in Pairs
       /\ rlog[next][1] \in DOMAIN groups
       /\ Absorbs(groups[rlog[next][1]], rlog[next][2])

(* A call has arguments once it is made, and only a call that was made is  *)
(* in the channel, in flight or accepted.                                  *)
ReqInv ==
  /\ \A k \in Call : call[k] # "new" <=> req[k] \in Pairs
  /\ \A k \in flight \cup accepted : call[k] # "new"
  /\ \A i \in 1 .. Len(proposeC) : call[proposeC[i]] # "new"

\* The end of the process, by any cause, leaves the invariants true.
LEMMA GoneInv ==
  ASSUME TypeOK, ReqInv, ProcessGone, store' \in Stores, synced' \in Stores,
         panicked' \in BOOLEAN
  PROVE  TypeOK' /\ LogInv' /\ ReqInv'
<1> USE DEF ProcessGone
<1>1. TypeOK'
  <2>1. call' \in [Call -> CallState]
    BY DEF TypeOK, CallState
  <2>2. NoReady \in Readys
    BY DEF NoReady, Readys
  <2>3. proposeC' \in Seq(Call) /\ Len(proposeC') = 0 /\ rlog' \in Seq(Entry)
    OBVIOUS
  <2>4. Len(proposeC') <= ProposeCap
    BY <2>3, BoundAssumption
  <2>5. QED
    BY <2>1, <2>2, <2>3, <2>4, EmptyType, Zenon DEF TypeOK
<1>2. LogInv'
  BY DEF LogInv, NoReady
<1>3. ReqInv'
  <2>1. ASSUME NEW k \in Call PROVE call'[k] # "new" <=> call[k] # "new"
    BY DEF Open
  <2>2. QED
    BY <2>1 DEF ReqInv
<1>4. QED
  BY <1>1, <1>2, <1>3
\* The invariants hold before the first start.
LEMMA InitInv == Init => TypeOK /\ LogInv /\ ReqInv
<1> SUFFICES ASSUME Init PROVE TypeOK /\ LogInv /\ ReqInv
  OBVIOUS
<1>1. NoReady \in Readys
  BY DEF NoReady, Readys
<1>2. proposeC \in Seq(Call) /\ Len(proposeC) = 0 /\ rlog \in Seq(Entry)
  BY DEF Init
<1>3. Len(proposeC) <= ProposeCap
  BY <1>2, BoundAssumption
<1>4. TypeOK
  BY <1>1, <1>2, <1>3, EmptyType, Zenon DEF Init, TypeOK, CallState
<1>5. LogInv
  BY DEF Init, LogInv, NoReady
<1>6. NoReq \notin Pairs
  BY DEF NoReq, Pairs
<1>7. ReqInv
  BY <1>6 DEF Init, ReqInv
<1>8. QED
  BY <1>4, <1>5, <1>7

\* The first entries of a log do not change when one is appended.
LEMMA AppendKeeps ==
  ASSUME NEW s \in Seq(Entry), NEW e \in Entry
  PROVE  /\ Append(s, e) \in Seq(Entry) /\ Len(Append(s, e)) = Len(s) + 1
         /\ Len(s) \in Nat
         /\ \A i \in 1 .. Len(s) : Append(s, e)[i] = s[i]
         /\ Append(s, e)[Len(s) + 1] = e
OBVIOUS

\* A page of committed entries ends between the applied index and the last.
LEMMA PageEndInLog ==
  ASSUME NEW lo \in Nat, NEW hi \in Nat, lo <= hi
  PROVE  PageEnd(lo, hi) \in Nat /\ lo <= PageEnd(lo, hi) /\ PageEnd(lo, hi) <= hi
BY BoundAssumption DEF PageEnd

-----------------------------------------------------------------------------
(* The steps of the process and of the gRPC handlers.                      *)

ServerNext ==
  \/ Start \/ Signal \/ Drained \/ LoopStop \/ Crash \/ HostCrash \/ Sync
  \/ \E k \in Call : \/ \E g \in Group, id \in Id : Invoke(k, g, id)
                    \/ Send(k) \/ CtxDone(k) \/ Return(k)

\* Starts, shutdowns, crashes and the steps of ProposeAdd keep the
\* invariants: one case per action.
LEMMA ServerStep ==
  TypeOK /\ LogInv /\ ReqInv /\ ServerNext => TypeOK' /\ LogInv' /\ ReqInv'
<1> SUFFICES ASSUME TypeOK, LogInv, ReqInv, ServerNext
             PROVE  TypeOK' /\ LogInv' /\ ReqInv'
  OBVIOUS
<1> USE DEF clientVars, raftVars, loopVars, storageVars, dataVars
<1>1. CASE Start
  <2>1. Restored(store) \in Engines
    BY RestoredType DEF TypeOK
  <2>2. rlog' \in Seq(Entry) /\ Len(rlog') = 1
    BY <1>1 DEF Start, Entry
  <2>3. TypeOK'
    BY <1>1, <2>1, <2>2 DEF Start, TypeOK
  <2>4. LogInv'
    BY <1>1, <2>2 DEF Start, LogInv, TypeOK, NoReady
  <2>5. ReqInv'
    BY <1>1, Zenon DEF Start, ReqInv
  <2>6. QED
    BY <2>3, <2>4, <2>5
<1>2. CASE Signal \/ Drained
  <2>1. TypeOK'
    BY <1>2, SMTT(30) DEF Signal, Drained, TypeOK
  <2>2. LogInv'
    BY <1>2, Zenon DEF Signal, Drained, LogInv
  <2>3. ReqInv'
    BY <1>2, Zenon DEF Signal, Drained, ReqInv
  <2>4. QED
    BY <2>1, <2>2, <2>3
<1>3. CASE LoopStop \/ Crash \/ HostCrash
  BY <1>3, GoneInv, Zenon DEF LoopStop, Crash, HostCrash, TypeOK
<1>4. CASE Sync
  <2>1. TypeOK' /\ LogInv'
    BY <1>4 DEF Sync, TypeOK, LogInv
  <2>2. ReqInv'
    BY <1>4, Zenon DEF Sync, ReqInv
  <2>3. QED
    BY <2>1, <2>2
<1>5. ASSUME NEW k \in Call, NEW g \in Group, NEW id \in Id, Invoke(k, g, id)
      PROVE  TypeOK' /\ LogInv' /\ ReqInv'
  <2>1. <<g, id>> \in Pairs
    BY DEF Pairs
  <2>2. TypeOK'
    BY <1>5, <2>1, Zenon DEF Invoke, TypeOK, CallState
  <2>3. LogInv'
    BY <1>5 DEF Invoke, LogInv
  <2>4. ReqInv'
    BY <1>5, <2>1 DEF Invoke, ReqInv, TypeOK
  <2>5. QED
    BY <2>2, <2>3, <2>4
<1>6. ASSUME NEW k \in Call, Send(k)
      PROVE  TypeOK' /\ LogInv' /\ ReqInv'
  <2>1. /\ proposeC' \in Seq(Call) /\ Len(proposeC') = Len(proposeC) + 1
        /\ Len(proposeC) \in Nat
        /\ \A i \in 1 .. Len(proposeC) : proposeC'[i] = proposeC[i]
        /\ proposeC'[Len(proposeC) + 1] = k
    BY <1>6 DEF Send, TypeOK
  <2>2. TypeOK'
    BY <1>6, <2>1, BoundAssumption, SMTT(30) DEF Send, TypeOK, CallState
  <2>3. LogInv'
    BY <1>6 DEF Send, LogInv
  <2>4. \A c \in Call : call'[c] # "new" <=> call[c] # "new"
    BY <1>6 DEF Send, TypeOK
  <2>5. \A i \in 1 .. Len(proposeC) : proposeC[i] \in Call
    BY DEF TypeOK
  <2>6. ASSUME NEW i \in 1 .. Len(proposeC') PROVE call'[proposeC'[i]] # "new"
    <3>1. CASE i \in 1 .. Len(proposeC)
      BY <2>1, <2>4, <2>5, <3>1, SMTT(30) DEF ReqInv
    <3>2. CASE i = Len(proposeC) + 1
      BY <1>6, <2>1, <3>2 DEF Send, TypeOK
    <3>3. QED
      BY <2>1, <3>1, <3>2, SMTT(30)
  <2>7. ReqInv'
    BY <1>6, <2>4, <2>6, Zenon DEF Send, ReqInv, TypeOK
  <2>8. QED
    BY <2>2, <2>3, <2>7
<1>7. ASSUME NEW k \in Call, CtxDone(k) \/ Return(k)
      PROVE  TypeOK' /\ LogInv' /\ ReqInv'
  <2>1. req[k] \in Pairs
    BY <1>7, Zenon DEF CtxDone, Return, ReqInv, Open
  <2>2. TypeOK'
    BY <1>7, <2>1, SMTT(30) DEF CtxDone, Return, TypeOK, CallState
  <2>3. LogInv'
    BY <1>7, Zenon DEF CtxDone, Return, LogInv
  <2>4. \A c \in Call : call'[c] # "new" <=> call[c] # "new"
    BY <1>7, Zenon DEF CtxDone, Return, Open, TypeOK
  <2>5. \A i \in 1 .. Len(proposeC) : proposeC[i] \in Call
    BY DEF TypeOK
  <2>6. ReqInv'
    BY <1>7, <2>4, <2>5, Zenon DEF CtxDone, Return, ReqInv, TypeOK
  <2>7. QED
    BY <2>2, <2>3, <2>6
<1>8. QED
  BY <1>1, <1>2, <1>3, <1>4, <1>5, <1>6, <1>7 DEF ServerNext

-----------------------------------------------------------------------------
\* Every step of the handlers, the library and the event loop keeps the
\* invariants: one case per action.
LEMMA StepInv ==
  TypeOK /\ LogInv /\ ReqInv /\ [Next]_vars => TypeOK' /\ LogInv' /\ ReqInv'
<1> SUFFICES ASSUME TypeOK, LogInv, ReqInv, [Next]_vars
             PROVE  TypeOK' /\ LogInv' /\ ReqInv'
  OBVIOUS
<1> USE DEF clientVars, raftVars, loopVars, storageVars, dataVars
<1>1. CASE ServerNext
  BY <1>1, ServerStep
<1>2. ASSUME NEW k \in Call, RaftPropose(k)
      PROVE  TypeOK' /\ LogInv' /\ ReqInv'
  <2>1. CASE Panic
    BY <2>1, GoneInv, SMTT(30) DEF Panic, TypeOK
  <2>2. CASE ~Panic
    <3>1. req[k] \in Pairs
      BY <1>2 DEF RaftPropose, ReqInv
    <3>2. /\ rlog' = Append(rlog, req[k]) /\ rlog \in Seq(Entry) /\ req[k] \in Entry
          /\ rd' = NoReady
          /\ UNCHANGED <<phase, call, req, proposeC, acked, leader, stable,
                         applied, loopVars, storageVars, dataVars, panicked>>
      BY <1>2, <2>2, <3>1, ZenonT(30) DEF RaftPropose, TypeOK, Entry
    <3>3. TypeOK'
      BY <1>2, <2>2, <3>2, AppendKeeps, Zenon DEF RaftPropose, TypeOK, NoReady, Readys
    <3>4. LogInv'
      <4>1. Len(rlog') = Len(rlog) + 1 /\ Len(rlog) \in Nat
            /\ \A i \in 1 .. Len(rlog) : rlog'[i] = rlog[i]
        BY <3>2, AppendKeeps, Zenon
      <4>2. loop = "persist" => next \in 1 .. Len(rlog) /\ rlog'[next] = rlog[next]
        BY <4>1, SMTT(30) DEF LogInv, TypeOK, Readys
      <4>3. rlog' # <<>> /\ phase # "down"
        BY <1>2, <4>1 DEF RaftPropose, Running
      <4>4. QED
        BY <3>2, <4>1, <4>2, <4>3, SMTT(30) DEF LogInv, TypeOK, NoReady, Readys
    <3>5. ReqInv'
      BY <1>2, <2>2, <3>2 DEF RaftPropose, ReqInv
    <3>6. QED
      BY <3>3, <3>4, <3>5
  <2>3. QED
    BY <2>1, <2>2, Zenon
<1>3. CASE RaftElect
  <2>1. rlog \in Seq(Entry) /\ NoOpEntry \in Entry /\ rlog' = Append(rlog, NoOpEntry)
    BY <1>3, Zenon DEF RaftElect, TypeOK, Entry
  <2>2. TypeOK'
    BY <1>3, <2>1, AppendKeeps, SMTT(30) DEF RaftElect, TypeOK, NoReady, Readys
  <2>3. LogInv'
    <3>1. Len(rlog') = Len(rlog) + 1 /\ Len(rlog) \in Nat
          /\ \A i \in 1 .. Len(rlog) : rlog'[i] = rlog[i]
      BY <2>1, AppendKeeps
    <3>2. loop = "persist" => next \in 1 .. Len(rlog) /\ rlog'[next] = rlog[next]
      <4>1. next \in Nat /\ cur.comm \in Nat
        BY DEF TypeOK, Readys
      <4>2. loop = "persist" => next \in 1 .. cur.comm + 1 /\ next <= cur.comm
        BY Zenon DEF LogInv
      <4>3. cur.comm <= Len(rlog)
        BY Zenon DEF LogInv
      <4>4. QED
        BY <3>1, <4>1, <4>2, <4>3
    <3>3. phase # "down"
      BY <1>3 DEF RaftElect, Running
    <3>4. QED
      BY <1>3, <3>1, <3>2, <3>3, SMTT(30) DEF RaftElect, LogInv, TypeOK, NoReady, Readys
  <2>4. ReqInv'
    BY <1>3, Zenon DEF RaftElect, ReqInv
  <2>5. QED
    BY <2>2, <2>3, <2>4, Zenon
<1>4. CASE RaftTick
  <2>1. TypeOK'
    BY <1>4, SMTT(30) DEF RaftTick, TypeOK, NoReady, Readys
  <2>2. LogInv'
    BY <1>4, SMTT(30) DEF RaftTick, LogInv, TypeOK, NoReady
  <2>3. ReqInv'
    BY <1>4, Zenon DEF RaftTick, ReqInv
  <2>4. QED
    BY <2>1, <2>2, <2>3
<1>5. CASE RaftReady
  <2>1. CASE Panic
    BY <2>1, GoneInv, SMTT(30) DEF Panic, TypeOK
  <2>2. CASE ~Panic
    <3>1. rd' = [last |-> Len(rlog), comm |-> PageEnd(applied, Len(rlog))]
          /\ UNCHANGED <<phase, clientVars, leader, rlog, stable, applied,
                         loopVars, storageVars, dataVars, panicked>>
      BY <1>5, <2>2, Zenon DEF RaftReady
    <3>2. /\ Len(rlog) \in Nat /\ PageEnd(applied, Len(rlog)) \in Nat
          /\ applied <= PageEnd(applied, Len(rlog))
          /\ PageEnd(applied, Len(rlog)) <= Len(rlog)
      BY PageEndInLog, SMTT(30) DEF TypeOK, LogInv
    <3>3. TypeOK'
      BY <3>1, <3>2, SMTT(30) DEF TypeOK, Readys
    <3>4. LogInv'
      BY <1>5, <3>1, <3>2, SMTT(30) DEF LogInv, RaftReady, ReadyTaken, Running
    <3>5. ReqInv'
      BY <3>1, Zenon DEF ReqInv
    <3>6. QED
      BY <3>3, <3>4, <3>5
  <2>3. QED
    BY <2>1, <2>2, Zenon
<1>6. CASE LoopPropose
  <2>1. /\ proposeC' \in Seq(Call) /\ Len(proposeC') = Len(proposeC) - 1
        /\ Len(proposeC) \in Nat \ {0} /\ Head(proposeC) = proposeC[1]
        /\ Head(proposeC) \in Call
        /\ \A i \in 1 .. Len(proposeC') : proposeC'[i] = proposeC[i + 1]
    BY <1>6 DEF LoopPropose, TypeOK
  <2>2. TypeOK'
    BY <1>6, <2>1, BoundAssumption, SMTT(30) DEF LoopPropose, TypeOK
  <2>3. LogInv'
    BY <1>6, SMTT(30) DEF LoopPropose, LogInv
  <2>4. ReqInv'
    <3>1. /\ call' = call /\ req' = req /\ accepted' = accepted
          /\ flight' = flight \cup {proposeC[1]}
      BY <1>6, <2>1 DEF LoopPropose
    <3>2. call[proposeC[1]] # "new"
      BY <2>1 DEF ReqInv
    <3>3. \A i \in 1 .. Len(proposeC') : call[proposeC'[i]] # "new"
      <4>1. SUFFICES ASSUME NEW i \in 1 .. Len(proposeC')
                     PROVE  call[proposeC'[i]] # "new"
        OBVIOUS
      <4>2. i + 1 \in 1 .. Len(proposeC) /\ proposeC'[i] = proposeC[i + 1]
        BY <2>1
      <4>3. QED
        BY <4>2 DEF ReqInv
    <3>4. QED
      BY <3>1, <3>2, <3>3 DEF ReqInv
  <2>5. QED
    BY <2>2, <2>3, <2>4
<1>7. CASE LoopReady
  <2>1. CASE Panic
    BY <2>1, GoneInv, SMTT(30) DEF Panic, TypeOK
  <2>2. CASE ~Panic
    <3>1. /\ loop = "select" /\ rd # NoReady
          /\ storLast' = rd.last \/ storLast' = storLast
          /\ cur' = rd /\ rd' = NoReady /\ next' = applied + 1 /\ loop' = "apply"
          /\ UNCHANGED <<phase, clientVars, leader, rlog, stable, applied,
                         appliedIdx, snapCount, snapIdx, snapData, dataVars, panicked>>
      BY <1>7, <2>2, Zenon DEF LoopReady
    <3>2. TypeOK'
      BY <3>1, SMTT(30) DEF TypeOK, NoReady, Readys
    <3>3. LogInv'
      BY <3>1, SMTT(30) DEF LogInv, TypeOK, NoReady, Readys
    <3>4. ReqInv'
      BY <3>1, Zenon DEF ReqInv
    <3>5. QED
      BY <3>2, <3>3, <3>4
  <2>3. QED
    BY <2>1, <2>2
<1>8. CASE ApplySkip
  <2>1. TypeOK'
    BY <1>8, SMTT(30) DEF ApplySkip, TypeOK
  <2>2. LogInv'
    BY <1>8, SMTT(30) DEF ApplySkip, LogInv, TypeOK, Readys
  <2>3. ReqInv'
    BY <1>8, Zenon DEF ApplySkip, ReqInv
  <2>4. QED
    BY <2>1, <2>2, <2>3
<1>9. CASE ApplyDispatch
  <2> DEFINE g == rlog[next][1]
             id == rlog[next][2]
  <2>1. g \in Group /\ id \in Id
    <3>1. rlog[next] \in Pairs
      BY <1>9, SMTT(30) DEF ApplyDispatch
    <3>2. QED
      BY <3>1, PairParts, Zenon
  <2>2. /\ groups' = EngineAdd(groups, g, id) /\ groups \in Engines
    BY <1>9 DEF ApplyDispatch, TypeOK
  <2> HIDE DEF g, id
  <2>3. /\ groups' \in Engines /\ g \in DOMAIN groups' /\ Absorbs(groups'[g], id)
    <3>1. /\ EngineAdd(groups, g, id) \in Engines
          /\ DOMAIN EngineAdd(groups, g, id) = DOMAIN groups \cup {g}
          /\ Absorbs(EngineAdd(groups, g, id)[g], id)
      BY <2>1, <2>2, EngineAddType, ZenonT(30)
    <3>2. QED
      BY <2>2, <3>1
  <2> USE DEF g, id
  <2>4. TypeOK'
    BY <1>9, <2>3, SMTT(30) DEF ApplyDispatch, TypeOK
  <2>5. LogInv'
    BY <1>9, <2>3 DEF ApplyDispatch, LogInv
  <2>6. ReqInv'
    BY <1>9, ZenonT(30) DEF ApplyDispatch, ReqInv
  <2>7. QED
    BY <2>4, <2>5, <2>6
<1>10. CASE ApplyPersist
  <2> DEFINE g == rlog[next][1]
  <2>1. rlog[next] \in Pairs /\ g \in Group /\ groups[g] \in Registers
    <3>1. loop = "persist" /\ groups \in Engines
      BY <1>10, Zenon DEF ApplyPersist, TypeOK
    <3>2. rlog[next] \in Pairs /\ g \in DOMAIN groups
      BY <3>1 DEF LogInv
    <3>3. QED
      BY <3>1, <3>2, PairParts, EnginesDef, SMTT(30)
  <2>2. store' \in Stores
    BY <1>10, <2>1, PutStore, RoundTrip, ZenonT(30) DEF ApplyPersist, TypeOK
  <2>3. TypeOK'
    <3>1. next' \in Nat /\ appliedIdx' \in Nat /\ snapCount' \in Nat /\ finished' \subseteq Pairs
      <4>1. next \in Nat /\ snapCount \in Nat /\ finished \subseteq Pairs
        BY Zenon DEF TypeOK
      <4>2. /\ next' = next + 1 /\ appliedIdx' = next /\ snapCount' = snapCount + 1
            /\ finished' = finished \cup {rlog[next]}
        BY <1>10, Zenon DEF ApplyPersist
      <4>3. QED
        BY <2>1, <4>1, <4>2
    <3>2. /\ loop' = "apply" /\ phase' = phase /\ cur' = cur /\ groups' = groups
          /\ UNCHANGED <<synced, base, panicked>>
          /\ UNCHANGED <<call, req, proposeC, flight, accepted, acked>>
          /\ UNCHANGED <<leader, rlog, stable, applied, rd>>
          /\ UNCHANGED <<snapIdx, snapData, storLast>>
      BY <1>10, Zenon DEF ApplyPersist
    <3>3. QED
      BY <2>2, <3>1, <3>2, ZenonT(30) DEF TypeOK
  <2>4. LogInv'
    <3>1. /\ loop = "persist" /\ loop' = "apply" /\ next' = next + 1
          /\ UNCHANGED <<phase, rlog, rd, cur, applied, stable>>
      BY <1>10, Zenon DEF ApplyPersist
    <3>2. next \in Nat /\ cur.comm \in Nat
      BY DEF TypeOK, Readys
    <3>3. next <= cur.comm
      BY <3>1, Zenon DEF LogInv
    <3>4. next' \in 1 .. cur'.comm + 1
      BY <3>1, <3>2, <3>3
    <3>5. rd = NoReady /\ phase # "down"
      BY <3>1, Zenon DEF LogInv
    <3>6. QED
      BY <3>1, <3>4, <3>5, SMTT(30) DEF LogInv
  <2>5. ReqInv'
    BY <1>10, Zenon DEF ApplyPersist, ReqInv
  <2>6. QED
    BY <2>3, <2>4, <2>5
<1>11. CASE LoopAdvance
  <2>1. TypeOK'
    BY <1>11, SMTT(30) DEF LoopAdvance, TypeOK, NoReady, Readys
  <2>2. rd = NoReady
    BY <1>11, SMTT(30) DEF LoopAdvance, LogInv
  <2>3. LogInv'
    BY <1>11, <2>2, SMTT(30) DEF LoopAdvance, LogInv, TypeOK, NoReady, Readys
  <2>4. ReqInv'
    BY <1>11, Zenon DEF LoopAdvance, ReqInv
  <2>5. QED
    BY <2>1, <2>3, <2>4
<1>12. CASE MaybeSnapshot
  <2>1. Marshal(groups) \in Stores
    BY MarshalType, Zenon DEF TypeOK
  <2>2. TypeOK'
    BY <1>12, <2>1, SMTT(30) DEF MaybeSnapshot, ApplySnapshot, TypeOK
  <2>3. LogInv'
    BY <1>12, SMTT(30) DEF MaybeSnapshot, LogInv
  <2>4. ReqInv'
    BY <1>12, ZenonT(30) DEF MaybeSnapshot, ReqInv
  <2>5. QED
    BY <2>2, <2>3, <2>4
<1>13. CASE UNCHANGED vars
  <2>1. TypeOK' /\ LogInv'
    BY <1>13, SMTT(30) DEF vars, TypeOK, LogInv
  <2>2. ReqInv'
    BY <1>13, Zenon DEF vars, ReqInv
  <2>3. QED
    BY <2>1, <2>2, SMTT(30)
<1>14. QED
  BY <1>1, <1>2, <1>3, <1>4, <1>5, <1>6, <1>7, <1>8, <1>9, <1>10, <1>11, <1>12,
     <1>13 DEF Next, ServerNext

-----------------------------------------------------------------------------
Inv == TypeOK /\ LogInv /\ ReqInv

\* The invariants hold in every reachable state.
THEOREM Invariance == Spec => []Inv
<1>1. Init => Inv
  BY InitInv DEF Inv
<1>2. Inv /\ [Next]_vars => Inv'
  BY StepInv DEF Inv
<1>3. QED
  BY <1>1, <1>2, PTL DEF Spec

\* Every variable keeps its type, and proposeC its capacity, whatever the
\* handlers, the library and the event loop do between them.
THEOREM TypeCorrect == Spec => []TypeOK
<1>1. Inv => TypeOK
  BY DEF Inv
<1>2. QED
  BY <1>1, Invariance, PTL

-----------------------------------------------------------------------------
(* The steps, seen from the data.                                          *)

Ends ==
  /\ phase # "down" /\ phase' = "down" /\ groups' = Empty
  /\ UNCHANGED <<req, finished>>
  /\ store' = store \/ (HostMayCrash /\ store' = synced)

Leaves ==
  /\ UNCHANGED <<groups, store, finished>>
  /\ phase = "down" <=> phase' = "down"

\* Only four kinds of step touch the data: a start, the end of the process,
\* and the two halves of an iteration of applyEntries.
LEMMA DataSteps ==
  ASSUME TypeOK, LogInv, [Next]_vars
  PROVE  Start \/ ApplyDispatch \/ ApplyPersist \/ Ends \/ Leaves
<1> USE DEF clientVars, raftVars, loopVars, storageVars, dataVars
<1>1. ASSUME LoopStop \/ Crash \/ HostCrash
      PROVE  Ends
  BY <1>1 DEF LoopStop, Crash, HostCrash, ProcessGone, Ends
<1>2. ASSUME Panic, phase # "down"
      PROVE  Ends
  BY <1>2 DEF Panic, ProcessGone, Ends
<1>3. ASSUME NEW k \in Call, RaftPropose(k)
      PROVE  Ends \/ Leaves
  BY <1>2, <1>3, Zenon DEF RaftPropose, Running, Leaves
<1>4. ASSUME RaftReady
      PROVE  Ends \/ Leaves
  BY <1>2, <1>4, Zenon DEF RaftReady, Running, Leaves
<1>5. ASSUME LoopReady
      PROVE  Ends \/ Leaves
  BY <1>2, <1>5, Zenon DEF LoopReady, LogInv, Leaves
<1>6. ASSUME NEW k \in Call,
             \/ \E g \in Group, id \in Id : Invoke(k, g, id)
             \/ Send(k) \/ CtxDone(k) \/ Return(k)
      PROVE  Leaves
  BY <1>6, Zenon DEF Invoke, Send, CtxDone, Return, Leaves
<1>7. ASSUME Signal \/ Drained \/ Sync \/ RaftElect \/ RaftTick
      PROVE  Leaves
  BY <1>7, Zenon DEF Signal, Drained, Sync, RaftElect, RaftTick, Leaves
<1>8. ASSUME LoopPropose \/ ApplySkip \/ LoopAdvance \/ MaybeSnapshot
      PROVE  Leaves
  BY <1>8, Zenon DEF LoopPropose, ApplySkip, LoopAdvance, MaybeSnapshot, Leaves
<1>9. ASSUME UNCHANGED vars
      PROVE  Leaves
  BY <1>9 DEF vars, Leaves
<1>10. QED
  BY <1>1, <1>3, <1>4, <1>5, <1>6, <1>7, <1>8, <1>9, Zenon DEF Next

\* What ApplyPersist saves is the current sketch of a group that is there.
LEMMA PersistStep ==
  ASSUME TypeOK, LogInv, ApplyPersist
  PROVE  \E g \in Group :
           /\ rlog[next] \in Pairs /\ g = rlog[next][1] /\ g \in DOMAIN groups
           /\ groups[g] \in Registers /\ Absorbs(groups[g], rlog[next][2])
           /\ phase # "down" /\ phase' = phase /\ groups' = groups
           /\ finished' = finished \cup {rlog[next]}
           /\ \/ SaveMayFail /\ store' = store
              \/ /\ store' = Put(store, g, Bytes(groups[g]))
                 /\ DOMAIN store' = DOMAIN store \cup {g}
                 /\ Parse(store'[g]) = groups[g]
                 /\ \A h \in DOMAIN store : h # g => store'[h] = store[h]
<1> USE DEF clientVars, raftVars, loopVars, storageVars, dataVars
<1> DEFINE g == rlog[next][1]
<1>1. rlog[next] \in Pairs /\ g \in Group /\ g \in DOMAIN groups
      /\ groups[g] \in Registers /\ Absorbs(groups[g], rlog[next][2])
  BY EnginesDef, Zenon DEF ApplyPersist, LogInv, Pairs, TypeOK
<1>2. phase # "down" /\ phase' = phase /\ groups' = groups
      /\ finished' = finished \cup {rlog[next]}
  BY Zenon DEF ApplyPersist, LogInv
<1>3. ASSUME store' = Put(store, g, Bytes(groups[g]))
      PROVE  /\ DOMAIN store' = DOMAIN store \cup {g}
             /\ Parse(store'[g]) = groups[g]
             /\ \A h \in DOMAIN store : h # g => store'[h] = store[h]
  <2>1. store'[g] = Bytes(groups[g])
    BY <1>3, Zenon DEF Put
  <2>2. Parse(store'[g]) = groups[g]
    BY <2>1, <1>1, RoundTrip
  <2>3. QED
    BY <1>3, <2>2, Zenon DEF Put
<1>4. (SaveMayFail /\ store' = store) \/ store' = Put(store, g, Bytes(groups[g]))
  BY Zenon DEF ApplyPersist
<1>5. QED
  BY <1>1, <1>2, <1>3, <1>4, Zenon

\* ApplyDispatch raises one sketch of the engine.
LEMMA DispatchStep ==
  ASSUME TypeOK, ApplyDispatch
  PROVE  /\ DOMAIN groups \subseteq DOMAIN groups'
         /\ \A h \in DOMAIN groups : Below(groups[h], groups'[h])
         /\ UNCHANGED <<store, finished>> /\ phase' = phase
<1> USE DEF clientVars, raftVars, loopVars, storageVars, dataVars
<1>1. PICK g \in Group, id \in Id : groups' = EngineAdd(groups, g, id)
  BY Zenon DEF ApplyDispatch, Pairs
<1>2. /\ DOMAIN EngineAdd(groups, g, id) = DOMAIN groups \cup {g}
      /\ \A h \in DOMAIN groups : Below(groups[h], EngineAdd(groups, g, id)[h])
  BY EngineAddType, Zenon DEF TypeOK
<1>3. QED
  BY <1>1, <1>2, Zenon DEF ApplyDispatch

-----------------------------------------------------------------------------
\* One step keeps the store within the engine.
LEMMA StoreWithinStep ==
  Inv /\ Inv' /\ StoreWithinEngine /\ [Next]_vars => StoreWithinEngine'
<1> SUFFICES ASSUME Inv, Inv', StoreWithinEngine, [Next]_vars
             PROVE  StoreWithinEngine'
  BY Zenon
<1> USE DEF Inv
<1>1. CASE Start
  <2>1. store' = store /\ groups' = Restored(store) /\ store \in Stores
    BY <1>1, Zenon DEF Start, TypeOK
  <2>2. \A g \in DOMAIN store :
          g \in DOMAIN groups' /\ groups'[g] = Parse(store[g]) /\ Parse(store[g]) \in Registers
    BY <2>1, RestoredType, StoresDef, ParseBuffer, Zenon
  <2>3. \A g \in DOMAIN store : Below(Parse(store[g]), groups'[g])
    BY <2>2, BelowPreorder, Zenon
  <2>4. QED
    BY <2>1, <2>2, <2>3, Zenon DEF StoreWithinEngine
<1>2. CASE ApplyDispatch
  <2>1. /\ DOMAIN groups \subseteq DOMAIN groups' /\ store' = store /\ phase' = phase
        /\ \A h \in DOMAIN groups : Below(groups[h], groups'[h])
    BY <1>2, DispatchStep, Zenon
  <2>2. SUFFICES ASSUME phase # "down", NEW g \in DOMAIN store
                 PROVE  g \in DOMAIN groups' /\ Below(Parse(store[g]), groups'[g])
    BY <2>1, Zenon DEF StoreWithinEngine
  <2>3. g \in DOMAIN groups /\ Below(Parse(store[g]), groups[g]) /\ Below(groups[g], groups'[g])
    BY <2>1, <2>2 DEF StoreWithinEngine
  <2>4. Parse(store[g]) \in Registers /\ groups[g] \in Registers /\ groups'[g] \in Registers
    <3>1. store \in Stores /\ groups \in Engines /\ groups' \in Engines
      BY Zenon DEF TypeOK
    <3>2. g \in DOMAIN groups'
      BY <2>1, <2>3, Zenon
    <3>3. QED
      BY <2>2, <2>3, <3>1, <3>2, StoresDef, EnginesDef, ParseBuffer, Zenon
  <2>5. QED
    BY <2>1, <2>3, <2>4, BelowPreorder, Zenon
<1>3. CASE ApplyPersist
  BY <1>3, PersistStep, BelowPreorder, Zenon DEF StoreWithinEngine
<1>4. CASE Ends \/ Leaves
  BY <1>4, Zenon DEF Ends, Leaves, StoreWithinEngine
<1>5. QED
  BY <1>1, <1>2, <1>3, <1>4, DataSteps

\* The store is never ahead of the engine while the process runs, under any
\* faults: a Persist cannot lose what an earlier process wrote.
THEOREM StoreWithin == Spec => []StoreWithinEngine
<1>1. Init => StoreWithinEngine
  BY DEF Init, StoreWithinEngine
<1>2. QED
  BY <1>1, StoreWithinStep, Invariance, PTL DEF Spec

-----------------------------------------------------------------------------
StoreGrows ==
  \A g \in DOMAIN store :
    g \in DOMAIN store' /\ Below(Parse(store[g]), Parse(store'[g]))

\* A step of the process never lowers the store; only the loss of unsynced
\* writes with the machine does.
LEMMA StoreGrowsStep ==
  ASSUME ~HostMayCrash, Inv, StoreWithinEngine, [Next]_vars
  PROVE  StoreGrows
<1> USE DEF Inv
<1>1. \A g \in DOMAIN store : Parse(store[g]) \in Registers
  BY StoresDef, ParseBuffer DEF TypeOK
<1>2. CASE store' = store
  BY <1>1, <1>2, BelowPreorder, Zenon DEF StoreGrows
<1>3. CASE ApplyPersist
  <2>1. PICK g \in Group :
          /\ g \in DOMAIN groups /\ phase # "down"
          /\ \/ store' = store
             \/ /\ DOMAIN store' = DOMAIN store \cup {g}
                /\ Parse(store'[g]) = groups[g]
                /\ \A h \in DOMAIN store : h # g => store'[h] = store[h]
    BY <1>3, PersistStep, Zenon
  <2>2. g \in DOMAIN store => Below(Parse(store[g]), groups[g])
    BY <2>1, Zenon DEF StoreWithinEngine
  <2>3. QED
    BY <1>1, <1>2, <2>1, <2>2, BelowPreorder DEF StoreGrows
<1>4. CASE Start \/ ApplyDispatch \/ Ends \/ Leaves
  BY <1>2, <1>4, DispatchStep DEF Start, Ends, Leaves
<1>5. QED
  BY <1>3, <1>4, DataSteps, Zenon

\* While the machine survives, no save lowers a stored register or drops a
\* group: Persist rewrites the whole sketch, and it only ever adds to it.
THEOREM StoreMonotone ==
  ASSUME ~HostMayCrash
  PROVE  Spec => StoreNeverShrinks
<1>1. Inv /\ StoreWithinEngine /\ [Next]_vars
        => [\A g \in DOMAIN store :
              g \in DOMAIN store' /\ Below(Parse(store[g]), Parse(store'[g]))]_store
  BY StoreGrowsStep DEF StoreGrows
<1>2. QED
  BY <1>1, Invariance, StoreWithin, PTL DEF Spec, StoreNeverShrinks

\* One step keeps every applied pair in the store.
LEMMA AppliedStep ==
  ASSUME ~HostMayCrash, ~SaveMayFail, Inv, Inv', StoreWithinEngine,
         AppliedIsPersisted, [Next]_vars
  PROVE  AppliedIsPersisted'
<1> USE DEF Inv
<1>1. StoreGrows
  BY StoreGrowsStep, Zenon
<1>2. ASSUME NEW p \in Pairs, Stored(p)
      PROVE  Stored(p)'
  <2>1. p[1] \in DOMAIN store /\ p[2] \in Id /\ Absorbs(Parse(store[p[1]]), p[2])
    BY <1>2, Zenon DEF Stored, Pairs
  <2>2. p[1] \in DOMAIN store' /\ Below(Parse(store[p[1]]), Parse(store'[p[1]]))
    BY <1>1, <2>1 DEF StoreGrows
  <2>3. Parse(store[p[1]]) \in Registers /\ Parse(store'[p[1]]) \in Registers
    <3>1. store \in Stores /\ store' \in Stores
      BY Zenon DEF TypeOK
    <3>2. QED
      BY <2>1, <2>2, <3>1, StoresDef, ParseBuffer, Zenon
  <2>4. Absorbs(Parse(store'[p[1]]), p[2])
    BY <2>1, <2>2, <2>3, AbsorbsMonotone, Zenon
  <2>5. QED
    BY <1>2, <2>2, <2>4 DEF Stored
<1>3. CASE finished' = finished
  BY <1>2, <1>3, Zenon DEF AppliedIsPersisted, TypeOK
<1>4. CASE ApplyPersist
  <2>1. PICK g \in Group :
          /\ rlog[next] \in Pairs /\ g = rlog[next][1]
          /\ Absorbs(groups[g], rlog[next][2])
          /\ finished' = finished \cup {rlog[next]}
          /\ g \in DOMAIN store' /\ Parse(store'[g]) = groups[g]
    BY <1>4, PersistStep, Zenon
  <2>2. rlog[next] # NoReq
    BY <2>1, SMTT(30) DEF NoReq, Pairs
  <2>3. \A p \in finished' : p = rlog[next] \/ Stored(p)'
    BY <1>2, <2>1, Zenon DEF AppliedIsPersisted, TypeOK
  <2>4. \A p \in finished' :
          p # NoReq /\ p[1] \in DOMAIN store' /\ Absorbs(Parse(store'[p[1]]), p[2])
    BY <2>1, <2>2, <2>3, Zenon DEF Stored
  <2>5. QED
    BY <2>4 DEF AppliedIsPersisted, Stored
<1>5. CASE Start \/ ApplyDispatch \/ Ends \/ Leaves
  BY <1>3, <1>5, DispatchStep DEF Start, Ends, Leaves, dataVars
<1>6. QED
  BY <1>4, <1>5, DataSteps

\* Every pair applyEntries has counted is in the store and stays there, over
\* any number of process crashes, as long as Save succeeds and the machine
\* survives.
THEOREM AppliedPersisted ==
  ASSUME ~HostMayCrash, ~SaveMayFail
  PROVE  Spec => []AppliedIsPersisted
<1>1. Init => AppliedIsPersisted
  BY DEF Init, AppliedIsPersisted
<1>2. Inv /\ Inv' /\ StoreWithinEngine /\ AppliedIsPersisted /\ [Next]_vars
        => AppliedIsPersisted'
  BY AppliedStep, Zenon
<1>3. QED
  BY <1>1, <1>2, Invariance, StoreWithin, PTL DEF Spec

-----------------------------------------------------------------------------
(* Every command in the log was asked for by a caller.                     *)
AskInv == \A i \in 1 .. Len(rlog) : rlog[i] \in Pairs => rlog[i] \in Asked

\* The arguments of a call change only when the call is made.
LEMMA ReqSteps ==
  ASSUME TypeOK, [Next]_vars
  PROVE  \/ req' = req
         \/ \E k \in Call, g \in Group, id \in Id : Invoke(k, g, id)
<1> USE DEF clientVars, raftVars, loopVars, storageVars, dataVars, Panic, ProcessGone
<1>1. ASSUME Start \/ Signal \/ Drained \/ LoopStop \/ Crash \/ HostCrash \/ Sync
      PROVE  req' = req
  BY <1>1, Zenon DEF Start, Signal, Drained, LoopStop, Crash, HostCrash, Sync
<1>2. ASSUME NEW k \in Call, Send(k) \/ CtxDone(k) \/ Return(k) \/ RaftPropose(k)
      PROVE  req' = req
  BY <1>2, Zenon DEF Send, CtxDone, Return, RaftPropose
<1>3. ASSUME RaftElect \/ RaftTick \/ RaftReady \/ LoopPropose \/ LoopReady
      PROVE  req' = req
  BY <1>3, Zenon DEF RaftElect, RaftTick, RaftReady, LoopPropose, LoopReady
<1>4. ASSUME ApplySkip \/ ApplyDispatch \/ ApplyPersist \/ LoopAdvance \/ MaybeSnapshot
      PROVE  req' = req
  BY <1>4, Zenon DEF ApplySkip, ApplyDispatch, ApplyPersist, LoopAdvance, MaybeSnapshot
<1>5. ASSUME UNCHANGED vars
      PROVE  req' = req
  BY <1>5, Zenon DEF vars
<1>6. QED
  BY <1>1, <1>2, <1>3, <1>4, <1>5 DEF Next

\* A ProposeAdd call adds its arguments to what was asked, and nothing else.
LEMMA InvokeAsks ==
  ASSUME Inv, NEW k \in Call, NEW g \in Group, NEW id \in Id, Invoke(k, g, id)
  PROVE  Asked' = Asked \cup {<<g, id>>}
<1>1. req[k] = NoReq
  BY DEF Inv, ReqInv, TypeOK, Invoke
<1>2. <<g, id>> # NoReq
  BY Zenon DEF NoReq
<1>3. req' = [req EXCEPT ![k] = <<g, id>>] /\ DOMAIN req = Call
  BY DEF Inv, TypeOK, Invoke
<1>4. QED
  BY <1>1, <1>2, <1>3, Zenon DEF Asked

\* What was asked stays asked.
LEMMA AskedGrows ==
  ASSUME Inv, [Next]_vars
  PROVE  Asked \subseteq Asked'
<1>1. CASE req' = req
  BY <1>1 DEF Asked
<1>2. QED
  BY <1>1, ReqSteps, InvokeAsks, Zenon DEF Inv

\* The log changes only by a start, the end of the process, or by appending
\* the leader's empty entry or the arguments of a call in flight.
LEMMA LogSteps ==
  ASSUME TypeOK, [Next]_vars
  PROVE  \/ rlog' = rlog \/ rlog' = <<>> \/ rlog' = <<ConfEntry>>
         \/ rlog' = Append(rlog, NoOpEntry)
         \/ \E k \in flight : rlog' = Append(rlog, req[k])
<1> USE DEF clientVars, raftVars, loopVars, storageVars, dataVars, Panic, ProcessGone
<1>1. ASSUME Start \/ Signal \/ Drained \/ LoopStop \/ Crash \/ HostCrash \/ Sync
      PROVE  rlog' = rlog \/ rlog' = <<>> \/ rlog' = <<ConfEntry>>
  BY <1>1, Zenon DEF Start, Signal, Drained, LoopStop, Crash, HostCrash, Sync
<1>2. ASSUME NEW k \in Call,
             \/ \E g \in Group, id \in Id : Invoke(k, g, id)
             \/ Send(k) \/ CtxDone(k) \/ Return(k)
      PROVE  rlog' = rlog
  BY <1>2 DEF Invoke, Send, CtxDone, Return
<1>3. ASSUME NEW k \in Call, RaftPropose(k)
      PROVE  rlog' = <<>> \/ \E j \in flight : rlog' = Append(rlog, req[j])
  BY <1>3, Zenon DEF RaftPropose
<1>4. ASSUME RaftElect \/ RaftTick \/ RaftReady \/ LoopPropose \/ LoopReady
      PROVE  rlog' = rlog \/ rlog' = <<>> \/ rlog' = Append(rlog, NoOpEntry)
  BY <1>4, Zenon DEF RaftElect, RaftTick, RaftReady, LoopPropose, LoopReady
<1>5. ASSUME ApplySkip \/ ApplyDispatch \/ ApplyPersist \/ LoopAdvance \/ MaybeSnapshot
      PROVE  rlog' = rlog
  BY <1>5, Zenon DEF ApplySkip, ApplyDispatch, ApplyPersist, LoopAdvance, MaybeSnapshot
<1>6. ASSUME UNCHANGED vars
      PROVE  rlog' = rlog
  BY <1>6 DEF vars
<1>7. QED
  BY <1>1, <1>2, <1>3, <1>4, <1>5, <1>6, Zenon DEF Next

\* One step keeps the log within what was asked.
LEMMA AskStep == Inv /\ AskInv /\ [Next]_vars => AskInv'
<1> SUFFICES ASSUME Inv, AskInv, [Next]_vars PROVE AskInv'
  BY Zenon
<1>1. Asked \subseteq Asked' /\ rlog \in Seq(Entry)
  BY AskedGrows DEF Inv, TypeOK
<1>2. CASE rlog' = rlog \/ rlog' = <<>>
  BY <1>1, <1>2 DEF AskInv
<1>3. CASE rlog' = <<ConfEntry>>
  BY <1>3, EntryAssumption DEF AskInv, Pairs
<1>4. ASSUME NEW e \in Entry, rlog' = Append(rlog, e), e \in Pairs => e \in Asked
      PROVE  AskInv'
  <2>1. Len(rlog') = Len(rlog) + 1 /\ Len(rlog) \in Nat /\ rlog'[Len(rlog) + 1] = e
        /\ \A i \in 1 .. Len(rlog) : rlog'[i] = rlog[i]
    BY <1>1, <1>4, AppendKeeps
  <2>2. \A i \in 1 .. Len(rlog') : i \in 1 .. Len(rlog) \/ i = Len(rlog) + 1
    BY <2>1
  <2>3. QED
    BY <1>1, <1>4, <2>1, <2>2, Zenon DEF AskInv
<1>5. CASE rlog' = Append(rlog, NoOpEntry)
  BY <1>4, <1>5, EntryAssumption DEF Entry, Pairs
<1>6. ASSUME NEW k \in flight, rlog' = Append(rlog, req[k])
      PROVE  AskInv'
  <2>1. k \in Call /\ req[k] \in Pairs
    BY <1>6 DEF Inv, TypeOK, ReqInv
  <2>2. req[k] # NoReq
    BY <2>1 DEF Pairs, NoReq
  <2>3. req[k] \in Asked /\ req[k] \in Entry
    BY <2>1, <2>2, Zenon DEF Asked, Entry
  <2>4. QED
    BY <1>4, <1>6, <2>3, Zenon
<1>7. QED
  BY <1>2, <1>3, <1>5, <1>6, LogSteps DEF Inv

\* The command applyEntries dispatches was asked for.
LEMMA DispatchAsked ==
  ASSUME Inv, AskInv, ApplyDispatch
  PROVE  \E g \in Group, id \in Id : <<g, id>> \in Asked /\ groups' = EngineAdd(groups, g, id)
<1>1. PICK g \in Group, id \in Id : rlog[next] = <<g, id>>
  BY DEF ApplyDispatch, Pairs
<1>2. next \in 1 .. Len(rlog)
  <2>1. /\ rlog \in Seq(Entry) /\ cur \in Readys /\ next <= cur.comm
        /\ next \in 1 .. cur.comm + 1 /\ cur.comm <= Len(rlog)
    BY Zenon DEF ApplyDispatch, Inv, LogInv, TypeOK
  <2>2. Len(rlog) \in Nat /\ cur.comm \in Nat
    BY <2>1 DEF Readys
  <2>3. QED
    BY <2>1, <2>2
<1>3. <<g, id>> \in Asked
  BY <1>1, <1>2 DEF AskInv, Pairs
<1>4. groups' = EngineAdd(groups, g, id)
  BY <1>1 DEF ApplyDispatch
<1>5. QED
  BY <1>3, <1>4

-----------------------------------------------------------------------------
(* Nothing is stored that was not asked for.                               *)

\* Every nonzero register of s comes from an id asked for under group g.
Explained(s, g, asks) ==
  \A r \in Reg : s[r] # 0 =>
    \E p \in asks : p[1] = g /\ Idx[p[2]] = r /\ Rho[p[2]] = s[r]

\* So are the sketches of the engine, of the store and of what is on disk:
\* the three feed each other by Persist, Sync, a restart and a host crash.
AllExplained ==
  /\ \A g \in DOMAIN groups : Explained(groups[g], g, Asked)
  /\ \A g \in DOMAIN store : Explained(Parse(store[g]), g, Asked)
  /\ \A g \in DOMAIN synced : Explained(Parse(synced[g]), g, Asked)

\* A written map holds the written value or what it held before.
LEMMA PutValues ==
  ASSUME NEW f, NEW k, NEW v
  PROVE  \A x \in DOMAIN Put(f, k, v) :
           \/ x = k /\ Put(f, k, v)[x] = v
           \/ x \in DOMAIN f /\ Put(f, k, v)[x] = f[x]
BY DEF Put

\* Adding an id that was asked for leaves a sketch explained.
LEMMA ExplainedAdd ==
  ASSUME NEW s \in Registers, NEW g \in Group, NEW id \in Id, NEW asks,
         <<g, id>> \in asks, Explained(s, g, asks)
  PROVE  Explained(AddId(s, id), g, asks)
<1> SUFFICES ASSUME NEW r \in Reg, AddId(s, id)[r] # 0
             PROVE  \E p \in asks : p[1] = g /\ Idx[p[2]] = r /\ Rho[p[2]] = AddId(s, id)[r]
  BY Zenon DEF Explained
<1>1. AddId(s, id)[r] = s[r] \/ (Idx[id] = r /\ AddId(s, id)[r] = Rho[id])
  BY IdxAssumption, RankAssumption, Zenon DEF AddId, Registers
<1>2. CASE AddId(s, id)[r] = s[r]
  BY <1>2, Zenon DEF Explained
<1>3. CASE Idx[id] = r /\ AddId(s, id)[r] = Rho[id]
  BY <1>3
<1>4. QED
  BY <1>1, <1>2, <1>3, Zenon

\* The disk receives the store as a whole, on Sync and on a clean stop.
LEMMA SyncedSteps ==
  ASSUME TypeOK, [Next]_vars
  PROVE  synced' = synced \/ synced' = store
<1> USE DEF clientVars, raftVars, loopVars, storageVars, dataVars, Panic, ProcessGone
<1>1. ASSUME Start \/ Signal \/ Drained \/ LoopStop \/ Crash \/ HostCrash \/ Sync
      PROVE  synced' = synced \/ synced' = store
  BY <1>1, Zenon DEF Start, Signal, Drained, LoopStop, Crash, HostCrash, Sync
<1>2. ASSUME NEW k \in Call,
             \/ \E g \in Group, id \in Id : Invoke(k, g, id)
             \/ Send(k) \/ CtxDone(k) \/ Return(k) \/ RaftPropose(k)
      PROVE  synced' = synced
  BY <1>2, Zenon DEF Invoke, Send, CtxDone, Return, RaftPropose
<1>3. ASSUME RaftElect \/ RaftTick \/ RaftReady \/ LoopPropose \/ LoopReady
      PROVE  synced' = synced
  BY <1>3, Zenon DEF RaftElect, RaftTick, RaftReady, LoopPropose, LoopReady
<1>4. ASSUME ApplySkip \/ ApplyDispatch \/ ApplyPersist \/ LoopAdvance \/ MaybeSnapshot
      PROVE  synced' = synced
  BY <1>4, Zenon DEF ApplySkip, ApplyDispatch, ApplyPersist, LoopAdvance, MaybeSnapshot
<1>5. ASSUME UNCHANGED vars
      PROVE  synced' = synced
  BY <1>5 DEF vars
<1>6. QED
  BY <1>1, <1>2, <1>3, <1>4, <1>5, Zenon DEF Next

\* One step keeps every sketch explained.
LEMMA ExplainedStep ==
  Inv /\ AskInv /\ AllExplained /\ [Next]_vars => AllExplained'
<1> SUFFICES ASSUME Inv, AskInv, AllExplained, [Next]_vars PROVE AllExplained'
  OBVIOUS
<1>0. TypeOK /\ LogInv
  BY DEF Inv
<1>1. \A s, g : Explained(s, g, Asked) => Explained(s, g, Asked')
  BY AskedGrows, Zenon DEF Explained
<1>2. ASSUME NEW st, \A g \in DOMAIN st : Explained(Parse(st[g]), g, Asked)
      PROVE  \A g \in DOMAIN st : Explained(Parse(st[g]), g, Asked')
  BY <1>1, <1>2
<1>3. \A g \in DOMAIN synced' : Explained(Parse(synced'[g]), g, Asked')
  BY <1>0, <1>2, SyncedSteps, Zenon DEF AllExplained
<1>4. CASE Start
  <2>1. store' = store /\ groups' = Restored(store)
    BY <1>4 DEF Start
  <2>2. \A g \in DOMAIN groups' : g \in DOMAIN store /\ groups'[g] = Parse(store[g])
    BY <2>1 DEF Restored
  <2>3. QED
    BY <2>1, <2>2, <1>2, <1>3, Zenon DEF AllExplained
<1>5. CASE ApplyDispatch
  <2>1. PICK g \in Group, id \in Id : <<g, id>> \in Asked /\ groups' = EngineAdd(groups, g, id)
    BY <1>5, DispatchAsked
  <2> DEFINE old == IF g \in DOMAIN groups THEN groups[g] ELSE New
  <2>2. old \in Registers /\ Explained(old, g, Asked)
    <3>1. CASE g \in DOMAIN groups
      BY <3>1, <1>0, EnginesDef, Zenon DEF TypeOK, AllExplained
    <3>2. CASE g \notin DOMAIN groups
      BY <3>2, NewSketch, Zenon DEF Explained, New
    <3>3. QED
      BY <3>1, <3>2, Zenon
  <2>3. Explained(AddId(old, id), g, Asked)
    <3> HIDE DEF old
    <3>1. QED
      BY <2>1, <2>2, ExplainedAdd, Zenon
  <2>4. \A h \in DOMAIN groups' :
          \/ h = g /\ groups'[h] = AddId(old, id)
          \/ h \in DOMAIN groups /\ groups'[h] = groups[h]
    <3>1. groups' = Put(groups, g, AddId(old, id))
      BY <2>1 DEF EngineAdd
    <3> HIDE DEF old
    <3>2. QED
      BY <3>1, PutValues
  <2>5. \A h \in DOMAIN groups' : Explained(groups'[h], h, Asked')
    <3> HIDE DEF old
    <3>1. QED
      BY <2>3, <2>4, <1>1, Zenon DEF AllExplained
  <2>6. store' = store
    BY <1>5, DispatchStep, <1>0, Zenon
  <2>7. QED
    BY <2>5, <2>6, <1>2, <1>3, Zenon DEF AllExplained
<1>6. CASE ApplyPersist
  <2>1. PICK g \in Group :
          /\ g \in DOMAIN groups /\ groups' = groups
          /\ \/ store' = store
             \/ /\ DOMAIN store' = DOMAIN store \cup {g}
                /\ Parse(store'[g]) = groups[g]
                /\ \A h \in DOMAIN store : h # g => store'[h] = store[h]
    BY <1>6, <1>0, PersistStep, Zenon
  <2>2. \A h \in DOMAIN store' : Explained(Parse(store'[h]), h, Asked)
    <3>1. CASE store' = store
      BY <3>1, Zenon DEF AllExplained
    <3>2. CASE /\ DOMAIN store' = DOMAIN store \cup {g} /\ Parse(store'[g]) = groups[g]
               /\ \A h \in DOMAIN store : h # g => store'[h] = store[h]
      <4>1. ASSUME NEW h \in DOMAIN store' PROVE Explained(Parse(store'[h]), h, Asked)
        <5>1. CASE h = g
          BY <5>1, <3>2, <2>1, Zenon DEF AllExplained
        <5>2. CASE h # g
          BY <5>2, <4>1, <3>2, Zenon DEF AllExplained
        <5>3. QED
          BY <5>1, <5>2
      <4>2. QED
        BY <4>1
    <3>3. QED
      BY <3>1, <3>2, <2>1, Zenon
  <2>3. QED
    BY <2>1, <2>2, <1>1, <1>2, <1>3, Zenon DEF AllExplained
<1>7. CASE Ends
  <2>1. groups' = Empty /\ (store' = store \/ store' = synced)
    BY <1>7 DEF Ends
  <2>2. DOMAIN groups' = {}
    BY <2>1, EmptyType
  <2>3. QED
    BY <2>1, <2>2, <1>2, <1>3, Zenon DEF AllExplained
<1>8. CASE Leaves
  BY <1>8, <1>1, <1>2, <1>3, Zenon DEF Leaves, AllExplained
<1>9. QED
  BY <1>0, <1>4, <1>5, <1>6, <1>7, <1>8, DataSteps

\* Every nonzero register of a stored sketch comes from an id some caller
\* asked ProposeAdd to add to that very group, under every fault: failing
\* saves, process and host crashes.
THEOREM NoPhantom == Spec => []StoreHasNoPhantom
<1>1. Init => AskInv /\ AllExplained
  <2>1. ASSUME Init
        PROVE  rlog = <<>> /\ DOMAIN groups = {} /\ DOMAIN store = {} /\ DOMAIN synced = {}
    BY <2>1, EmptyType, Zenon DEF Init
  <2>2. QED
    BY <2>1 DEF AskInv, AllExplained
<1>2. AllExplained => StoreHasNoPhantom
  <2>1. ASSUME NEW p \in Asked PROVE \E k \in Call : req[k] # NoReq /\ req[k] = p
    BY <2>1, Zenon DEF Asked
  <2>2. SUFFICES ASSUME AllExplained, NEW g \in DOMAIN store, NEW r \in Reg, Parse(store[g])[r] # 0
                 PROVE  \E k \in Call : /\ req[k] # NoReq /\ req[k][1] = g
                                        /\ Idx[req[k][2]] = r /\ Rho[req[k][2]] = Parse(store[g])[r]
    BY DEF StoreHasNoPhantom
  <2>3. PICK p \in Asked : p[1] = g /\ Idx[p[2]] = r /\ Rho[p[2]] = Parse(store[g])[r]
    <3>1. Explained(Parse(store[g]), g, Asked)
      BY <2>2 DEF AllExplained
    <3>2. QED
      BY <2>2, <3>1, Zenon DEF Explained
  <2>4. PICK k \in Call : req[k] # NoReq /\ req[k] = p
    BY <2>1, Zenon
  <2>5. QED
    BY <2>3, <2>4, Zenon
<1>3. QED
  BY <1>1, <1>2, ExplainedStep, AskStep, Invariance, PTL DEF Spec

-----------------------------------------------------------------------------
(* The refinement mapping: phase # "down", Asked, groups, Restored(store). *)

\* The initial state maps to the initial state of the shard.
LEMMA ShardInit == Init => Abs!SInit
<1> SUFFICES ASSUME Init PROVE Abs!SInit
  BY Zenon
<1>1. Asked = {}
  BY Zenon DEF Init, Asked
<1>2. groups = Abs!NoSketches
  BY Zenon DEF Init, Empty, Abs!NoSketches
<1>3. DOMAIN store = {}
  BY DEF Init, Empty
<1>4. Restored(store) = Abs!NoSketches
  BY <1>3 DEF Restored, Abs!NoSketches
<1>5. QED
  BY <1>1, <1>2, <1>4 DEF Init, Abs!SInit

\* Every step of the node is a step of the shard or leaves it alone: a start
\* is Boot, a ProposeAdd call Ask, Dispatch Count, Persist Save, and the end
\* of the process End.
LEMMA ShardStep ==
  ASSUME ~HostMayCrash, Inv, AskInv, [Next]_vars
  PROVE  [Abs!SNext]_(Abs!svars)
<1> USE DEF Inv
<1>0. TypeOK /\ LogInv
  OBVIOUS
<1>1. CASE Start
  <2>1. Asked' = Asked
    BY <1>1, Zenon DEF Start, clientVars, Asked
  <2>2. Abs!Boot
    BY <1>1, <2>1 DEF Start, Abs!Boot, Restored
  <2>3. QED
    BY <2>2, Zenon DEF Abs!SNext
<1>2. CASE ApplyDispatch
  <2>1. PICK g \in Group, id \in Id : <<g, id>> \in Asked /\ groups' = EngineAdd(groups, g, id)
    BY <1>2, DispatchAsked
  <2>2. <<g, id>> \in Asked
    BY <2>1, Zenon
  <2>3. groups' = Abs!Write(groups, g, AddId(IF g \in DOMAIN groups THEN groups[g] ELSE New, id))
    BY <2>1, SMTT(30) DEF EngineAdd, Put, Abs!Write
  <2>4. Asked' = Asked /\ Restored(store)' = Restored(store) /\ phase' = phase /\ phase # "down"
    BY <1>2, Zenon DEF ApplyDispatch, clientVars, Asked, Restored, LogInv
  <2>5. Abs!Count(g, id)
    BY <2>2, <2>3, <2>4, Zenon DEF Abs!Count, Abs!AddId, Abs!New, AddId, New
  <2>6. QED
    BY <2>5 DEF Abs!SNext
<1>3. CASE ApplyPersist
  <2>1. PICK g \in Group :
          /\ g \in DOMAIN groups /\ phase # "down" /\ phase' = phase /\ groups' = groups
          /\ \/ store' = store
             \/ /\ DOMAIN store' = DOMAIN store \cup {g}
                /\ Parse(store'[g]) = groups[g]
                /\ \A h \in DOMAIN store : h # g => store'[h] = store[h]
    BY <1>0, <1>3, PersistStep, Zenon
  <2>2. Asked' = Asked
    BY <1>3, Zenon DEF ApplyPersist, clientVars, Asked
  <2>3. CASE store' = store
    BY <2>1, <2>2, <2>3, Zenon DEF Abs!svars, Restored
  <2>4. CASE DOMAIN store' = DOMAIN store \cup {g} /\ Parse(store'[g]) = groups[g]
             /\ \A h \in DOMAIN store : h # g => store'[h] = store[h]
    <3>1. Restored(store)' = Abs!Write(Restored(store), g, groups[g])
      BY <2>4, SMTT(30) DEF Restored, Abs!Write
    <3>2. Abs!Save(g)
      BY <2>1, <2>2, <3>1, Zenon DEF Abs!Save
    <3>3. QED
      BY <3>2, Zenon DEF Abs!SNext
  <2>5. QED
    BY <2>1, <2>3, <2>4, Zenon
<1>4. CASE Ends
  <2>1. Asked' = Asked /\ Restored(store)' = Restored(store)
    BY <1>4, Zenon DEF Ends, Asked, Restored
  <2>2. Abs!End
    BY <1>4, <2>1, Zenon DEF Ends, Abs!End, Abs!NoSketches, Empty
  <2>3. QED
    BY <2>2, SMTT(30) DEF Abs!SNext
<1>5. CASE Leaves
  <2>1. /\ groups' = groups /\ Restored(store)' = Restored(store)
        /\ (phase # "down") = (phase' # "down")
    BY <1>5, Zenon DEF Leaves, Restored
  <2>2. CASE req' = req
    BY <2>1, <2>2, Zenon DEF Abs!svars, Asked
  <2>3. ASSUME NEW k \in Call, NEW g \in Group, NEW id \in Id, Invoke(k, g, id)
        PROVE  Abs!Ask
    <3>1. Asked' = Asked \cup {<<g, id>>}
      BY <2>3, InvokeAsks, Zenon
    <3>2. phase # "down"
      BY <2>3 DEF Invoke
    <3>3. QED
      BY <2>1, <3>1, <3>2 DEF Abs!Ask
  <2>4. QED
    BY <2>2, <2>3, ReqSteps, Zenon DEF Abs!SNext
<1>6. QED
  BY <1>1, <1>2, <1>3, <1>4, <1>5, DataSteps

\* The node implements the abstract shard as long as the machine survives,
\* whether or not saves fail: nothing is counted that was not asked for, and
\* a restart resumes from exactly what was saved.
THEOREM Refinement ==
  ASSUME ~HostMayCrash
  PROVE  Spec => ImplementsShard
<1>1. Init => AskInv
  BY DEF Init, AskInv
<1>2. Inv /\ AskInv /\ [Next]_vars => [Abs!SNext]_(Abs!svars)
  BY ShardStep, Zenon
<1>3. QED
  BY <1>1, <1>2, ShardInit, AskStep, Invariance, PTL DEF Spec, ImplementsShard, Abs!SSpec

-----------------------------------------------------------------------------
(* The log and its snapshots.                                              *)

(* The commands are the entries from the third on, and the index the loop  *)
(* has applied is the one before its next, once it has applied a command.  *)
CommandInv ==
  /\ leader <=> Len(rlog) >= 2
  /\ \A i \in 1 .. Len(rlog) : rlog[i] \in Pairs <=> i >= 3
  /\ appliedIdx = 0 \/ (appliedIdx = next - 1 /\ appliedIdx >= 3)
  /\ snapIdx <= appliedIdx
  /\ snapCount > 0 => appliedIdx > snapIdx

(* What a process that is down has in memory.                              *)
DownInv ==
  phase = "down" =>
    /\ ~leader /\ appliedIdx = 0 /\ snapCount = 0 /\ snapIdx = 0 /\ storLast = 0
    /\ stable = 0 /\ applied = 0 /\ next = 1

(* Without paging, everything stable is applied, and the storage ends      *)
(* where the library thinks.                                               *)
PageInv ==
  /\ ~panicked
  /\ stable = applied
  /\ rd # NoReady => rd.last = Len(rlog) /\ rd.comm = Len(rlog) /\ Len(rlog) > stable
  /\ IF loop \in {"apply", "persist"}
     THEN cur.last = cur.comm /\ storLast = cur.last /\ cur.last > stable
     ELSE storLast = stable

Unmoved ==
  /\ UNCHANGED <<leader, rlog, stable, applied, rd, cur, loop, next, appliedIdx,
                 snapCount, snapIdx, snapData, storLast, groups, base, panicked>>
  /\ phase = "down" <=> phase' = "down"

Appends(k) ==
  /\ leader /\ req[k] \in Pairs /\ phase # "down"
  /\ rlog' = Append(rlog, req[k]) /\ rd' = NoReady
  /\ UNCHANGED <<phase, leader, stable, applied, cur, loop, next, appliedIdx,
                 snapCount, snapIdx, snapData, storLast, groups, base, panicked>>

LoopMoves ==
  LoopReady \/ ApplySkip \/ ApplyDispatch \/ ApplyPersist \/ LoopAdvance \/ MaybeSnapshot

\* The steps that touch the log, the loop or the storage.
LEMMA LoopSteps ==
  ASSUME Inv, [Next]_vars
  PROVE  \/ Start \/ ProcessGone \/ Unmoved \/ RaftElect \/ RaftTick
         \/ (RaftReady /\ ~Panic) \/ (LoopMoves /\ ~Panic)
         \/ \E k \in Call : Appends(k)
<1> USE DEF clientVars, raftVars, loopVars, storageVars, dataVars
<1>1. CASE LoopStop \/ Crash \/ HostCrash \/ Panic
  BY <1>1 DEF LoopStop, Crash, HostCrash, Panic
<1>2. ASSUME NEW k \in Call, RaftPropose(k), ~Panic
      PROVE  Appends(k)
  <2>1. req[k] \in Pairs
    BY <1>2 DEF RaftPropose, Inv, ReqInv
  <2>2. QED
    BY <1>2, <2>1, Zenon DEF RaftPropose, Running, Appends
<1>3. ASSUME NEW k \in Call,
             \/ \E g \in Group, id \in Id : Invoke(k, g, id)
             \/ Send(k) \/ CtxDone(k) \/ Return(k)
      PROVE  Unmoved
  BY <1>3, Zenon DEF Invoke, Send, CtxDone, Return, Unmoved
<1>4. CASE Signal \/ Drained \/ Sync \/ LoopPropose \/ UNCHANGED vars
  BY <1>4, Zenon DEF Signal, Drained, Sync, LoopPropose, vars, Unmoved
<1>5. QED
  BY <1>1, <1>2, <1>3, <1>4, Zenon DEF Next, LoopMoves
-----------------------------------------------------------------------------
(* Which entries are commands, for every page limit.                       *)

\* The invariant holds before the first start and when the process ends.
LEMMA CommandEnds ==
  /\ Init => CommandInv /\ DownInv
  /\ ProcessGone => CommandInv' /\ DownInv'
<1>1. Init => CommandInv /\ DownInv
  BY DEF Init, CommandInv, DownInv
<1>2. ProcessGone => CommandInv' /\ DownInv'
  BY DEF ProcessGone, CommandInv, DownInv
<1>3. QED
  BY <1>1, <1>2, Zenon

\* One command more in the log, at the end.
LEMMA LogGrows ==
  ASSUME Inv, CommandInv, NEW e \in Entry, rlog' = Append(rlog, e),
         e \in Pairs <=> Len(rlog) >= 2
  PROVE  /\ Len(rlog') = Len(rlog) + 1 /\ Len(rlog) \in Nat
         /\ \A i \in 1 .. Len(rlog') : rlog'[i] \in Pairs <=> i >= 3
         /\ \A i \in 1 .. Len(rlog) : rlog'[i] = rlog[i]
<1>1. rlog \in Seq(Entry)
  BY DEF Inv, TypeOK
<1>2. /\ Len(rlog') = Len(rlog) + 1 /\ Len(rlog) \in Nat
      /\ \A i \in 1 .. Len(rlog) : rlog'[i] = rlog[i]
      /\ rlog'[Len(rlog) + 1] = e
  BY <1>1, AppendKeeps, Zenon
<1>3. ASSUME NEW i \in 1 .. Len(rlog') PROVE rlog'[i] \in Pairs <=> i >= 3
  <2>1. CASE i \in 1 .. Len(rlog)
    BY <1>2, <2>1, Zenon DEF CommandInv
  <2>2. CASE i = Len(rlog) + 1
    BY <1>2, <2>2
  <2>3. QED
    BY <1>2, <2>1, <2>2
<1>4. QED
  BY <1>2, <1>3, Zenon

\* Every step keeps the invariant.
LEMMA CommandStep ==
  ASSUME Inv, CommandInv, DownInv, [Next]_vars
  PROVE  CommandInv' /\ DownInv'
<1> USE DEF clientVars, raftVars, loopVars, storageVars, dataVars
<1>a. /\ Len(rlog) \in Nat /\ next \in Nat /\ applied \in Nat /\ appliedIdx \in Nat
      /\ snapIdx \in Nat /\ snapCount \in Nat /\ cur \in Readys /\ leader \in BOOLEAN
  BY DEF Inv, TypeOK
<1>1. CASE Start
  <2>1. Len(rlog') = 1 /\ rlog'[1] = ConfEntry /\ ConfEntry \notin Pairs
    BY <1>1, EntryAssumption, Zenon DEF Start, Pairs
  <2>2. phase = "down" /\ phase' = "up"
        /\ UNCHANGED <<leader, appliedIdx, next, snapIdx, snapCount>>
    BY <1>1 DEF Start
  <2>3. ~leader /\ appliedIdx = 0 /\ next = 1 /\ snapIdx = 0 /\ snapCount = 0
    BY <2>2, Zenon DEF DownInv
  <2>4. DownInv'
    BY <2>2, Zenon DEF DownInv
  <2>5. CommandInv'
    BY <2>1, <2>2, <2>3, SMTT(30) DEF CommandInv
  <2>6. QED
    BY <2>4, <2>5, Zenon
<1>2. CASE ProcessGone
  BY <1>2, CommandEnds, Zenon
<1>3. CASE Unmoved
  BY <1>3, Zenon DEF Unmoved, CommandInv, DownInv
<1>4. CASE RaftTick \/ (RaftReady /\ ~Panic)
  <2>1. UNCHANGED <<phase, leader, rlog, stable, applied, appliedIdx, next, snapCount,
                    snapIdx, storLast>>
    BY <1>4, Zenon DEF RaftTick, RaftReady
  <2>2. QED
    BY <2>1 DEF CommandInv, DownInv
<1>5. CASE RaftElect
  <2>1. /\ ~leader /\ leader' = TRUE /\ applied >= 1 /\ phase # "down"
        /\ rlog' = Append(rlog, NoOpEntry)
        /\ UNCHANGED <<phase, appliedIdx, next, snapIdx, snapCount>>
    BY <1>5 DEF RaftElect, Running
  <2>2. Len(rlog) = 1 /\ NoOpEntry \in Entry /\ NoOpEntry \notin Pairs
    <3>1. NoOpEntry \in Entry /\ NoOpEntry \notin Pairs
      BY EntryAssumption, Zenon DEF Entry, Pairs
    <3>2. applied >= 1 /\ applied <= Len(rlog) /\ ~(Len(rlog) >= 2)
      BY <2>1 DEF CommandInv, Inv, LogInv
    <3>3. Len(rlog) = 1
      <4>1. \A m \in Nat, n \in Nat : m >= 1 /\ m <= n /\ ~(n >= 2) => n = 1
        OBVIOUS
      <4>2. QED
        BY <1>a, <3>2, <4>1, Zenon
    <3>4. QED
      BY <3>1, <3>3
  <2>3. /\ Len(rlog') = 2
        /\ \A i \in 1 .. Len(rlog') : rlog'[i] \in Pairs <=> i >= 3
    BY <2>1, <2>2, LogGrows
  <2>4. QED
    BY <2>1, <2>3 DEF CommandInv, DownInv
<1>6. ASSUME NEW k \in Call, Appends(k)
      PROVE  CommandInv' /\ DownInv'
  <2>1. Len(rlog) >= 2 /\ req[k] \in Entry /\ req[k] \in Pairs /\ rlog' = Append(rlog, req[k])
    BY <1>6, Zenon DEF Appends, CommandInv, Entry
  <2>2. /\ Len(rlog') = Len(rlog) + 1
        /\ \A i \in 1 .. Len(rlog') : rlog'[i] \in Pairs <=> i >= 3
    BY <2>1, LogGrows, Zenon
  <2>3. leader /\ phase # "down"
        /\ UNCHANGED <<phase, leader, appliedIdx, next, snapIdx, snapCount>>
    BY <1>6, Zenon DEF Appends
  <2>4. QED
    BY <1>a, <2>1, <2>2, <2>3 DEF CommandInv, DownInv
<1>7. CASE LoopReady /\ ~Panic
  <2>1. /\ loop = "select" /\ next' = applied + 1
        /\ UNCHANGED <<phase, leader, rlog, appliedIdx, snapCount, snapIdx>>
    BY <1>7, Zenon DEF LoopReady
  <2>2. next = applied + 1 /\ phase # "down"
    BY <2>1, Zenon DEF Inv, LogInv
  <2>3. QED
    BY <2>1, <2>2 DEF CommandInv, DownInv
<1>8. CASE ApplySkip
  <2>1. /\ next <= cur.comm /\ rlog[next] \notin Pairs /\ next' = next + 1 /\ loop = "apply"
        /\ UNCHANGED <<phase, leader, rlog, appliedIdx, snapCount, snapIdx>>
    BY <1>8, Zenon DEF ApplySkip
  <2>2. next \in 1 .. Len(rlog) /\ phase # "down"
    BY <1>a, <2>1 DEF Inv, LogInv, Readys
  <2>3. next < 3
    BY <1>a, <2>1, <2>2 DEF CommandInv
  <2>4. appliedIdx = 0
    BY <1>a, <2>3 DEF CommandInv
  <2>5. QED
    BY <2>1, <2>2, <2>4, Zenon DEF CommandInv, DownInv
<1>9. CASE ApplyDispatch \/ LoopAdvance
  <2>1. /\ loop = "apply" /\ UNCHANGED <<phase, leader, rlog, appliedIdx, next, snapCount, snapIdx>>
    BY <1>9, Zenon DEF ApplyDispatch, LoopAdvance
  <2>2. phase # "down"
    BY <2>1, Zenon DEF Inv, LogInv
  <2>3. QED
    BY <2>1, <2>2 DEF CommandInv, DownInv
<1>10. CASE ApplyPersist
  <2>1. /\ loop = "persist" /\ appliedIdx' = next /\ snapCount' = snapCount + 1
        /\ next' = next + 1 /\ UNCHANGED <<phase, leader, rlog, snapIdx>>
    BY <1>10, Zenon DEF ApplyPersist
  <2>2. next \in 1 .. Len(rlog) /\ phase # "down" /\ rlog[next] \in Pairs
    BY <1>a, <2>1 DEF Inv, LogInv, Readys
  <2>3. next >= 3
    BY <2>2, Zenon DEF CommandInv
  <2>4. QED
    BY <1>a, <2>1, <2>2, <2>3 DEF CommandInv, DownInv
<1>11. CASE MaybeSnapshot
  <2>1. /\ loop = "snapshot" /\ UNCHANGED <<phase, leader, rlog, appliedIdx, next>>
        /\ \/ snapIdx' = appliedIdx /\ snapCount' = 0
           \/ snapIdx' = snapIdx /\ snapCount' = snapCount
    BY <1>11, Zenon DEF MaybeSnapshot, ApplySnapshot
  <2>2. phase # "down"
    BY <2>1 DEF Inv, LogInv
  <2>3. QED
    BY <1>a, <2>1, <2>2 DEF CommandInv, DownInv
<1>12. QED
  BY LoopSteps, <1>1, <1>2, <1>3, <1>4, <1>5, <1>6, <1>7, <1>8, <1>9, <1>10, <1>11, Zenon DEF LoopMoves

\* The invariants hold in every reachable state.
LEMMA Commands == Spec => [](Inv /\ CommandInv /\ DownInv)
<1>1. Init => CommandInv /\ DownInv
  BY CommandEnds
<1>2. Inv /\ CommandInv /\ DownInv /\ [Next]_vars => CommandInv' /\ DownInv'
  BY CommandStep
<1>3. QED
  BY <1>1, <1>2, Invariance, PTL DEF Spec

\* maybeSnapshot, whenever it counts an entry, has an index to snapshot that
\* is newer than the last: ApplySnapshot never answers ErrSnapOutOfDate,
\* whatever the threshold and the pages.
THEOREM SnapshotGrows == Spec => []SnapshotIndexGrows
<1>1. CommandInv => SnapshotIndexGrows
  BY Zenon DEF CommandInv, SnapshotIndexGrows
<1>2. QED
  BY <1>1, Commands, PTL
-----------------------------------------------------------------------------
(* Panics, when a Ready carries every committed entry.                     *)

\* What PageInv excludes: each of the three panics of the library.
LEMMA NoPanicStep ==
  ASSUME Inv, DownInv, PageInv, [Next]_vars
  PROVE  ~panicked'
<1> USE DEF clientVars, raftVars, loopVars, storageVars, dataVars
<1>1. /\ Len(rlog) \in Nat /\ stable \in Nat /\ storLast \in Nat /\ applied \in Nat
      /\ stable <= Len(rlog) /\ cur.last <= Len(rlog) /\ cur.last \in Nat
  BY DEF Inv, TypeOK, Readys, LogInv
<1>2. ~panicked /\ ~LogShort /\ ~(applied < stable)
      /\ (loop = "select" => ~(storLast < stable))
  BY <1>1 DEF PageInv, LogShort
<1>3. ASSUME NEW k \in Call, RaftPropose(k) PROVE ~panicked'
  BY <1>2, <1>3, Zenon DEF RaftPropose
<1>4. CASE RaftReady
  BY <1>2, <1>4, Zenon DEF RaftReady
<1>5. CASE LoopReady
  BY <1>2, <1>5, Zenon DEF LoopReady
<1>6. CASE Start \/ Signal \/ Drained \/ LoopStop \/ Crash \/ HostCrash \/ Sync
  BY <1>2, <1>6, Zenon DEF Start, Signal, Drained, LoopStop, Crash, HostCrash, Sync
<1>7. ASSUME NEW k \in Call,
             \/ \E g \in Group, id \in Id : Invoke(k, g, id)
             \/ Send(k) \/ CtxDone(k) \/ Return(k)
      PROVE  ~panicked'
  BY <1>2, <1>7, Zenon DEF Invoke, Send, CtxDone, Return
<1>8. CASE \/ RaftElect \/ RaftTick \/ LoopPropose \/ ApplySkip \/ ApplyDispatch
           \/ ApplyPersist \/ LoopAdvance \/ MaybeSnapshot \/ UNCHANGED vars
  BY <1>2, <1>8, Zenon DEF RaftElect, RaftTick, LoopPropose, ApplySkip, ApplyDispatch,
     ApplyPersist, LoopAdvance, MaybeSnapshot, vars
<1>9. QED
  BY <1>3, <1>4, <1>5, <1>6, <1>7, <1>8, Zenon DEF Next

\* Every step keeps PageInv: the storage ends where the library thinks.
LEMMA PageStep ==
  ASSUME PageLimit = 0, Inv, CommandInv, DownInv, PageInv, [Next]_vars
  PROVE  PageInv'
<1> USE DEF clientVars, raftVars, loopVars, storageVars, dataVars
<1>a. /\ Len(rlog) \in Nat /\ next \in Nat /\ applied \in Nat /\ appliedIdx \in Nat
      /\ snapIdx \in Nat /\ snapCount \in Nat /\ stable \in Nat /\ storLast \in Nat
      /\ cur.last \in Nat /\ cur.comm \in Nat /\ rd.last \in Nat /\ rd.comm \in Nat
  BY DEF Inv, TypeOK, Readys
<1>b. /\ applied <= Len(rlog) /\ cur.comm <= Len(rlog)
      /\ phase = "down" <=> loop = "exited"
      /\ phase = "down" => rd = NoReady
      /\ rd # NoReady => loop \notin {"apply", "persist"}
      /\ loop \notin {"apply", "persist"} => next = applied + 1
  BY Zenon DEF Inv, LogInv
<1>c. ~panicked'
  BY NoPanicStep, Zenon
<1>1. CASE Start
  BY <1>1, <1>b, <1>c, Zenon DEF Start, PageInv, DownInv
<1>2. CASE ProcessGone
  BY <1>2, <1>c, Zenon DEF ProcessGone, PageInv
<1>3. CASE Unmoved
  BY <1>3, <1>c, Zenon DEF Unmoved, PageInv
<1>4. CASE RaftTick
  BY <1>4, <1>c, Zenon DEF RaftTick, PageInv
<1>5. ASSUME NEW e, rlog' = Append(rlog, e), rd' = NoReady,
             UNCHANGED <<stable, applied, cur, loop, storLast>>
      PROVE  PageInv'
  BY <1>5, <1>c, Zenon DEF PageInv
<1>6. CASE RaftElect
  BY <1>5, <1>6, Zenon DEF RaftElect
<1>7. ASSUME NEW k \in Call, Appends(k) PROVE PageInv'
  BY <1>5, <1>7 DEF Appends
<1>8. CASE RaftReady /\ ~Panic
  <2>1. /\ HasReady /\ loop \notin {"apply", "persist"}
        /\ rd' = [last |-> Len(rlog), comm |-> PageEnd(applied, Len(rlog))]
        /\ UNCHANGED <<rlog, stable, applied, cur, loop, storLast>>
    BY <1>8, Zenon DEF RaftReady, ReadyTaken
  <2>2. PageEnd(applied, Len(rlog)) = Len(rlog)
    BY Zenon DEF PageEnd
  <2>3. Len(rlog) > stable
    BY <1>a, <2>1, Zenon DEF PageInv, HasReady
  <2>4. QED
    BY <1>c, <2>1, <2>2, <2>3, Zenon DEF PageInv
<1>9. CASE LoopReady /\ ~Panic
  <2>1. /\ rd # NoReady /\ storLast' = IF stable < rd.last THEN rd.last ELSE storLast
        /\ cur' = rd /\ rd' = NoReady /\ loop' = "apply"
        /\ UNCHANGED <<rlog, stable, applied>>
    BY <1>9, Zenon DEF LoopReady
  <2>2. QED
    BY <1>a, <1>c, <2>1 DEF PageInv
<1>10. CASE ApplySkip \/ ApplyDispatch \/ ApplyPersist
  BY <1>10, <1>c, Zenon DEF ApplySkip, ApplyDispatch, ApplyPersist, PageInv
<1>11. CASE LoopAdvance
  <2>1. /\ loop = "apply" /\ loop' = "snapshot" /\ stable' = cur.last /\ applied' = cur.comm
        /\ UNCHANGED <<rlog, rd, storLast>>
    BY <1>11, Zenon DEF LoopAdvance
  <2>2. rd = NoReady
    BY <1>b, <2>1, Zenon
  <2>3. QED
    BY <1>c, <2>1, <2>2, Zenon DEF PageInv
<1>12. CASE MaybeSnapshot
  <2>1. /\ loop = "snapshot" /\ loop' = "select"
        /\ UNCHANGED <<rlog, stable, applied, rd, cur, appliedIdx, next>>
        /\ storLast' = storLast \/ (snapCount >= SnapshotThreshold /\ storLast' = appliedIdx)
    BY <1>12, Zenon DEF MaybeSnapshot, ApplySnapshot
  <2>2. snapCount >= SnapshotThreshold => appliedIdx = stable
    BY <1>a, <1>b, <2>1, BoundAssumption DEF CommandInv, PageInv
  <2>3. QED
    BY <1>c, <2>1, <2>2, Zenon DEF PageInv
<1>13. QED
  BY LoopSteps, <1>1, <1>2, <1>3, <1>4, <1>6, <1>7, <1>8, <1>9, <1>10, <1>11, <1>12, Zenon
     DEF LoopMoves

\* A snapshot never cuts the log under the library while one Ready carries
\* all committed entries: the panic needs a Ready that is cut at
\* MaxSizePerMsg (processReady and maybeSnapshot).
THEOREM NeverPanicsUnpaged ==
  ASSUME PageLimit = 0
  PROVE  Spec => []NeverPanics
<1>1. Init => PageInv
  BY DEF Init, PageInv
<1>2. (Inv /\ CommandInv /\ DownInv) /\ PageInv /\ [Next]_vars => PageInv'
  BY PageStep, Zenon
<1>3. PageInv => NeverPanics
  BY DEF PageInv, NeverPanics
<1>4. QED
  BY <1>1, <1>2, <1>3, Commands, PTL DEF Spec
-----------------------------------------------------------------------------
(* The engine and the snapshot are prefixes of the log.                    *)

\* Entry i of the log is in the engine, if it is a command; it is where a
\* register has its value from.
Counted(eng, lg, i) ==
  lg[i] \in Pairs => lg[i][1] \in DOMAIN eng /\ Absorbs(eng[lg[i][1]], lg[i][2])
Source(lg, i, g, r, v) ==
  lg[i] \in Pairs /\ lg[i][1] = g /\ Idx[lg[i][2]] = r /\ Rho[lg[i][2]] = v

\* IsPrefixState with the log and the restored engine as arguments.
Prefix(eng, n, lg, b) ==
  /\ DOMAIN b \subseteq DOMAIN eng
  /\ \A g \in DOMAIN b : Below(b[g], eng[g])
  /\ \A i \in 1 .. n : Counted(eng, lg, i)
  /\ \A g \in DOMAIN eng : \A r \in Reg :
       \/ eng[g][r] = 0
       \/ g \in DOMAIN b /\ eng[g][r] = b[g][r]
       \/ \E i \in 1 .. n : Source(lg, i, g, r, eng[g][r])

\* The restored engine is the prefix of length 0.
LEMMA PrefixStart ==
  ASSUME NEW b \in Engines, NEW lg
  PROVE  Prefix(b, 0, lg, b)
<1>1. 1 .. 0 = {}
  OBVIOUS
<1>2. \A g \in DOMAIN b : Below(b[g], b[g])
  BY EnginesDef, BelowPreorder, Zenon
<1>3. QED
  BY <1>1, <1>2, Zenon DEF Prefix

\* A prefix does not depend on the entries after it.
LEMMA PrefixLog ==
  ASSUME NEW eng, NEW b, NEW n \in Nat, NEW lg, NEW lh, Prefix(eng, n, lg, b),
         \A i \in 1 .. n : lh[i] = lg[i]
  PROVE  Prefix(eng, n, lh, b)
<1>1. ASSUME NEW i \in 1 .. n
      PROVE  /\ Counted(eng, lh, i) <=> Counted(eng, lg, i)
             /\ \A g, r, v : Source(lh, i, g, r, v) <=> Source(lg, i, g, r, v)
  BY <1>1, Zenon DEF Counted, Source
<1>2. QED
  BY <1>1, Zenon DEF Prefix

\* An entry that is not a command changes nothing.
LEMMA PrefixSkip ==
  ASSUME NEW eng, NEW b, NEW n \in Nat, NEW lg, Prefix(eng, n, lg, b),
         lg[n + 1] \notin Pairs
  PROVE  Prefix(eng, n + 1, lg, b)
<1>1. \A i \in 1 .. n + 1 : i \in 1 .. n \/ i = n + 1
  OBVIOUS
<1>2. \A i \in 1 .. n : i \in 1 .. n + 1
  OBVIOUS
<1>3. \A i \in 1 .. n + 1 : Counted(eng, lg, i)
  <2>1. Counted(eng, lg, n + 1)
    BY Zenon DEF Counted
  <2>2. QED
    BY <1>1, <2>1, Zenon DEF Prefix
<1>4. QED
  BY <1>2, <1>3, Zenon DEF Prefix

\* sketch.Add changes one register, to the rank of the id.
LEMMA AddRegister ==
  ASSUME NEW s \in Registers, NEW id \in Id, NEW r \in Reg
  PROVE  \/ AddId(s, id)[r] = s[r]
         \/ Idx[id] = r /\ AddId(s, id)[r] = Rho[id]
BY IdxAssumption DEF AddId, Registers

\* Engine.Add of a command extends the prefix by it.
LEMMA PrefixAdd ==
  ASSUME NEW eng \in Engines, NEW b \in Engines, NEW n \in Nat, NEW lg,
         Prefix(eng, n, lg, b), lg[n + 1] \in Pairs
  PROVE  Prefix(EngineAdd(eng, lg[n + 1][1], lg[n + 1][2]), n + 1, lg, b)
<1> DEFINE g == lg[n + 1][1]
           id == lg[n + 1][2]
           e2 == EngineAdd(eng, g, id)
           old == IF g \in DOMAIN eng THEN eng[g] ELSE New
<1>1. g \in Group /\ id \in Id
  BY PairParts, Zenon
<1>2. old \in Registers
  BY EnginesDef, NewSketch
<1>3. e2[g] = AddId(old, id)
  BY Zenon DEF EngineAdd, Put
<1> HIDE DEF g, id, old
<1>4. /\ e2 \in Engines /\ DOMAIN e2 = DOMAIN eng \cup {g} /\ Absorbs(e2[g], id)
      /\ \A h \in DOMAIN eng : Below(eng[h], e2[h])
      /\ \A h \in DOMAIN eng : h # g => e2[h] = eng[h]
  BY <1>1, EngineAddType, Zenon
<1> HIDE DEF e2
<1>5. \A h \in DOMAIN b : h \in DOMAIN e2 /\ Below(b[h], e2[h])
  BY <1>4, EnginesDef, BelowPreorder, Zenon DEF Prefix
<1>6. ASSUME NEW i \in 1 .. n + 1
      PROVE  Counted(e2, lg, i)
  <2>0. SUFFICES ASSUME lg[i] \in Pairs
                 PROVE  lg[i][1] \in DOMAIN e2 /\ Absorbs(e2[lg[i][1]], lg[i][2])
    BY Zenon DEF Counted
  <2>1. CASE i = n + 1
    BY <1>4, <2>1, Zenon DEF g, id
  <2>2. CASE i \in 1 .. n
    <3>1. /\ lg[i][1] \in DOMAIN eng /\ Absorbs(eng[lg[i][1]], lg[i][2])
          /\ lg[i][2] \in Id
      BY <2>0, <2>2, PairParts, Zenon DEF Prefix, Counted
    <3>2. /\ lg[i][1] \in DOMAIN e2 /\ Below(eng[lg[i][1]], e2[lg[i][1]])
          /\ eng[lg[i][1]] \in Registers /\ e2[lg[i][1]] \in Registers
      BY <1>4, <3>1, EnginesDef, Zenon
    <3>3. QED
      BY <3>1, <3>2, AbsorbsMonotone, Zenon
  <2>3. i = n + 1 \/ i \in 1 .. n
    OBVIOUS
  <2>4. QED
    BY <2>1, <2>2, <2>3, Zenon
<1>7. ASSUME NEW h \in DOMAIN e2, NEW r \in Reg
      PROVE  \/ e2[h][r] = 0
             \/ h \in DOMAIN b /\ e2[h][r] = b[h][r]
             \/ \E i \in 1 .. n + 1 : Source(lg, i, h, r, e2[h][r])
  <2>1. CASE h \in DOMAIN eng /\ e2[h][r] = eng[h][r]
    <3>1. \A i \in 1 .. n : i \in 1 .. n + 1
      OBVIOUS
    <3>2. \/ eng[h][r] = 0
          \/ h \in DOMAIN b /\ eng[h][r] = b[h][r]
          \/ \E i \in 1 .. n : Source(lg, i, h, r, eng[h][r])
      BY <2>1, Zenon DEF Prefix
    <3>3. QED
      BY <2>1, <3>1, <3>2, Zenon
  <2>2. CASE h = g /\ Idx[id] = r /\ e2[h][r] = Rho[id]
    <3>1. n + 1 \in 1 .. n + 1
      OBVIOUS
    <3>2. QED
      BY <2>2, <3>1, Zenon DEF g, id, Source
  <2>3. CASE h = g /\ h \notin DOMAIN eng /\ e2[h][r] = 0
    BY <2>3, Zenon
  <2>4. CASE h # g
    BY <1>4, <2>1, <2>4, Zenon
  <2>5. CASE h = g
    <3>1. \/ e2[h][r] = old[r]
          \/ Idx[id] = r /\ e2[h][r] = Rho[id]
      <4>1. \/ AddId(old, id)[r] = old[r]
            \/ Idx[id] = r /\ AddId(old, id)[r] = Rho[id]
        BY <1>1, <1>2, AddRegister, Zenon
      <4>2. QED
        BY <1>3, <2>5, <4>1, Zenon
    <3>2. old[r] = IF h \in DOMAIN eng THEN eng[h][r] ELSE 0
      BY <2>5, Zenon DEF old, New
    <3>3. QED
      BY <2>1, <2>2, <2>3, <2>5, <3>1, <3>2, Zenon
  <2>6. QED
    BY <2>4, <2>5, Zenon
<1>8. Prefix(e2, n + 1, lg, b)
  BY <1>5, <1>6, <1>7, Zenon DEF Prefix
<1>9. QED
  BY <1>8, Zenon DEF e2, g, id

PrefixInv ==
  /\ phase # "down" => Prefix(groups, Cursor, rlog, base)
  /\ snapIdx > 0 => Prefix(Unmarshal(snapData), snapIdx, rlog, base)

\* Every step keeps it.
LEMMA PrefixStep ==
  ASSUME Inv, CommandInv, DownInv, PrefixInv, [Next]_vars
  PROVE  PrefixInv'
<1> USE DEF clientVars, raftVars, loopVars, storageVars, dataVars
<1>a. /\ Len(rlog) \in Nat /\ next \in Nat \ {0} /\ applied \in Nat /\ appliedIdx \in Nat
      /\ snapIdx \in Nat /\ cur.comm \in Nat /\ groups \in Engines /\ base \in Engines
      /\ Cursor \in Nat /\ Cursor <= Len(rlog) /\ snapIdx <= Len(rlog)
  <2>1. /\ Len(rlog) \in Nat /\ next \in Nat /\ applied \in Nat /\ appliedIdx \in Nat
        /\ snapIdx \in Nat /\ cur.comm \in Nat /\ groups \in Engines /\ base \in Engines
    <3>1. TypeOK
      BY Zenon DEF Inv
    <3>2. rlog \in Seq(Entry) /\ cur \in Readys
      BY <3>1, Zenon DEF TypeOK
    <3>3. Len(rlog) \in Nat /\ cur.comm \in Nat
      BY <3>2 DEF Readys
    <3>4. QED
      BY <3>1, <3>3, Zenon DEF TypeOK
  <2>2. next \in Nat \ {0} /\ next <= Len(rlog) + 1 /\ (loop = "persist" => next <= Len(rlog))
    <3>1. /\ applied <= Len(rlog) /\ cur.comm <= Len(rlog)
          /\ loop \notin {"apply", "persist"} => next = applied + 1
          /\ loop \in {"apply", "persist"} => next \in 1 .. cur.comm + 1
          /\ loop = "persist" => next <= cur.comm
      BY Zenon DEF Inv, LogInv
    <3>2. QED
      BY <2>1, <3>1
  <2>3. snapIdx <= Len(rlog)
    BY <2>1, <2>2 DEF CommandInv
  <2>4. QED
    BY <2>1, <2>2, <2>3 DEF Cursor
<1>1. CASE Start
  <2>1. /\ phase = "down" /\ groups' = base' /\ loop' = "select" /\ next' = next
        /\ snapIdx' = snapIdx /\ base' = Restored(store)
    BY <1>1 DEF Start
  <2>2. base' \in Engines /\ Cursor' = 0 /\ snapIdx' = 0
    <3>1. next = 1 /\ snapIdx = 0
      BY <2>1, Zenon DEF DownInv
    <3>2. Cursor' = 0
      BY <2>1, <3>1 DEF Cursor
    <3>3. store \in Stores
      BY Zenon DEF Inv, TypeOK
    <3>4. QED
      BY <2>1, <3>1, <3>2, <3>3, RestoredType, Zenon
  <2>3. Prefix(base', 0, rlog', base')
    BY <2>2, PrefixStart, Zenon
  <2>4. QED
    BY <2>1, <2>2, <2>3 DEF PrefixInv
<1>2. CASE ProcessGone
  BY <1>2 DEF ProcessGone, PrefixInv
<1>3. ASSUME UNCHANGED <<rlog, loop, next, snapIdx, snapData, groups, base>>,
             phase' # "down" => phase # "down"
      PROVE  PrefixInv'
  BY <1>3 DEF PrefixInv, Cursor
<1>4. CASE Unmoved \/ RaftTick \/ (RaftReady /\ ~Panic)
  BY <1>3, <1>4, Zenon DEF Unmoved, RaftTick, RaftReady
<1>5. ASSUME NEW e \in Entry, rlog' = Append(rlog, e), phase # "down",
             UNCHANGED <<loop, next, snapIdx, snapData, groups, base>>
      PROVE  PrefixInv'
  <2>1. \A i \in 1 .. Len(rlog) : rlog'[i] = rlog[i]
    BY <1>5, AppendKeeps, Zenon DEF Inv, TypeOK
  <2>2. \A i \in 1 .. Cursor : rlog'[i] = rlog[i]
    BY <1>a, <2>1
  <2>3. \A i \in 1 .. snapIdx : rlog'[i] = rlog[i]
    BY <1>a, <2>1
  <2>4. Prefix(groups, Cursor, rlog', base)
    BY <1>a, <1>5, <2>2, PrefixLog, Zenon DEF PrefixInv
  <2>5. snapIdx > 0 => Prefix(Unmarshal(snapData), snapIdx, rlog', base)
    BY <1>a, <2>3, PrefixLog, Zenon DEF PrefixInv
  <2>6. Unmarshal(snapData)' = Unmarshal(snapData) /\ Cursor' = Cursor
    BY <1>5, Zenon DEF Cursor
  <2>7. QED
    BY <1>5, <2>4, <2>5, <2>6, Zenon DEF PrefixInv
<1>6. CASE RaftElect
  BY <1>5, <1>6, Zenon DEF RaftElect, Running, Entry
<1>7. ASSUME NEW k \in Call, Appends(k) PROVE PrefixInv'
  BY <1>5, <1>7, Zenon DEF Appends, Entry
<1>8. ASSUME UNCHANGED <<rlog, snapIdx, snapData, base, phase>>,
             Prefix(groups', Cursor', rlog, base)
      PROVE  PrefixInv'
  BY <1>8, Zenon DEF PrefixInv
<1>9. CASE LoopReady /\ ~Panic
  <2>1. /\ loop = "select" /\ next' = applied + 1 /\ loop' = "apply"
        /\ UNCHANGED <<rlog, snapIdx, snapData, base, phase, groups>>
    BY <1>9, Zenon DEF LoopReady
  <2>2. next = applied + 1 /\ phase # "down"
    BY <2>1, Zenon DEF Inv, LogInv
  <2>3. QED
    BY <1>8, <2>1, <2>2 DEF PrefixInv, Cursor
<1>10. ASSUME loop \in {"apply", "persist"} PROVE Prefix(groups, Cursor, rlog, base)
  BY <1>10, Zenon DEF Inv, LogInv, PrefixInv
<1>11. CASE ApplySkip
  <2>1. /\ loop = "apply" /\ next' = next + 1 /\ loop' = loop /\ rlog[next] \notin Pairs
        /\ UNCHANGED <<rlog, snapIdx, snapData, base, phase, groups>>
    BY <1>11, Zenon DEF ApplySkip
  <2>2. Cursor = next - 1 /\ Cursor' = Cursor + 1 /\ rlog[Cursor + 1] \notin Pairs
    BY <1>a, <2>1 DEF Cursor
  <2>3. Prefix(groups, Cursor + 1, rlog, base)
    BY <1>a, <1>10, <2>1, <2>2, PrefixSkip, Zenon
  <2>4. QED
    BY <1>8, <2>1, <2>2, <2>3, Zenon
<1>12. CASE ApplyDispatch
  <2>1. /\ loop = "apply" /\ next' = next /\ loop' = "persist" /\ rlog[next] \in Pairs
        /\ groups' = EngineAdd(groups, rlog[next][1], rlog[next][2])
        /\ UNCHANGED <<rlog, snapIdx, snapData, base, phase>>
    BY <1>12, Zenon DEF ApplyDispatch
  <2>2. Cursor + 1 = next /\ Cursor' = Cursor + 1
    BY <1>a, <2>1 DEF Cursor
  <2>3. Prefix(EngineAdd(groups, rlog[Cursor + 1][1], rlog[Cursor + 1][2]), Cursor + 1, rlog, base)
    BY <1>a, <1>10, <2>1, <2>2, PrefixAdd, Zenon
  <2>4. QED
    BY <1>8, <2>1, <2>2, <2>3, Zenon
<1>13. CASE ApplyPersist \/ LoopAdvance
  <2>1. /\ loop \in {"apply", "persist"} /\ Cursor' = Cursor
        /\ UNCHANGED <<rlog, snapIdx, snapData, base, phase, groups>>
    <3>1. CASE ApplyPersist
      <4>1. /\ loop = "persist" /\ loop' = "apply" /\ next' = next + 1
            /\ UNCHANGED <<rlog, snapIdx, snapData, base, phase, groups>>
        BY <3>1, Zenon DEF ApplyPersist
      <4>2. QED
        BY <1>a, <4>1 DEF Cursor
    <3>2. CASE LoopAdvance
      <4>1. /\ loop = "apply" /\ loop' = "snapshot" /\ next' = next
            /\ UNCHANGED <<rlog, snapIdx, snapData, base, phase, groups>>
        BY <3>2, Zenon DEF LoopAdvance
      <4>2. QED
        BY <1>a, <4>1, Zenon DEF Cursor
    <3>3. QED
      BY <1>13, <3>1, <3>2, Zenon
  <2>2. QED
    BY <1>8, <1>10, <2>1, Zenon
<1>14. CASE MaybeSnapshot
  <2>1. /\ loop = "snapshot" /\ loop' = "select"
        /\ UNCHANGED <<rlog, base, phase, groups, next>>
        /\ \/ UNCHANGED <<snapIdx, snapData>>
           \/ snapIdx' = appliedIdx /\ snapData' = Marshal(groups) /\ appliedIdx > snapIdx
    BY <1>14 DEF MaybeSnapshot, ApplySnapshot
  <2>2. phase # "down" /\ Cursor = next - 1 /\ Cursor' = Cursor
    BY <2>1, Zenon DEF Inv, LogInv, Cursor
  <2>3. CASE UNCHANGED <<snapIdx, snapData>>
    BY <1>8, <2>1, <2>2, <2>3, Zenon DEF PrefixInv
  <2>4. CASE snapIdx' = appliedIdx /\ snapData' = Marshal(groups) /\ appliedIdx > snapIdx
    <3>1. appliedIdx = Cursor
      BY <1>a, <2>2, <2>4 DEF CommandInv
    <3>2. Unmarshal(snapData)' = groups
      BY <1>a, <2>4, MarshalType DEF Unmarshal, Restored
    <3>3. QED
      BY <2>1, <2>2, <2>4, <3>1, <3>2, Zenon DEF PrefixInv
  <2>5. QED
    BY <2>1, <2>3, <2>4, Zenon
<1>15. QED
  BY LoopSteps, <1>1, <1>2, <1>4, <1>6, <1>7, <1>9, <1>11, <1>12, <1>13, <1>14, Zenon DEF LoopMoves

\* The invariant holds in every reachable state.
LEMMA Prefixes == Spec => []PrefixInv
<1>1. Init => PrefixInv
  BY DEF Init, PrefixInv
<1>2. (Inv /\ CommandInv /\ DownInv) /\ PrefixInv /\ [Next]_vars => PrefixInv'
  BY PrefixStep
<1>3. QED
  BY <1>1, <1>2, Commands, PTL DEF Spec

\* Prefix at the current log and restored engine is IsPrefixState.
LEMMA PrefixIsState ==
  ASSUME NEW eng, NEW n, Prefix(eng, n, rlog, base)
  PROVE  IsPrefixState(eng, n)
<1>1. \A i \in 1 .. n : rlog[i] \in Pairs =>
        rlog[i][1] \in DOMAIN eng /\ Absorbs(eng[rlog[i][1]], rlog[i][2])
  BY Zenon DEF Prefix, Counted
<1>2. ASSUME NEW g \in DOMAIN eng, NEW r \in Reg
      PROVE  \/ eng[g][r] = 0
             \/ g \in DOMAIN base /\ eng[g][r] = base[g][r]
             \/ \E i \in 1 .. n : /\ rlog[i] \in Pairs /\ rlog[i][1] = g
                                  /\ Idx[rlog[i][2]] = r /\ Rho[rlog[i][2]] = eng[g][r]
  <2>1. \/ eng[g][r] = 0
        \/ g \in DOMAIN base /\ eng[g][r] = base[g][r]
        \/ \E i \in 1 .. n : Source(rlog, i, g, r, eng[g][r])
    BY <1>2, Zenon DEF Prefix
  <2>2. ASSUME NEW i \in 1 .. n, Source(rlog, i, g, r, eng[g][r])
        PROVE  /\ rlog[i] \in Pairs /\ rlog[i][1] = g
               /\ Idx[rlog[i][2]] = r /\ Rho[rlog[i][2]] = eng[g][r]
    BY <2>2, Zenon DEF Source
  <2>3. QED
    BY <2>1, <2>2, Zenon
<1>3. DOMAIN base \subseteq DOMAIN eng /\ \A g \in DOMAIN base : Below(base[g], eng[g])
  BY Zenon DEF Prefix
<1>4. QED
  BY <1>1, <1>2, <1>3, Zenon DEF IsPrefixState

\* The engine is what was restored plus a prefix of the log, for every page
\* limit, crash and failed save (applyEntries).
THEOREM EnginePrefix == Spec => []EngineIsLogPrefix
<1>1. PrefixInv => EngineIsLogPrefix
  BY PrefixIsState, Zenon DEF PrefixInv, EngineIsLogPrefix
<1>2. QED
  BY <1>1, Prefixes, PTL

\* A snapshot holds exactly the commands up to the index it is labelled with
\* (maybeSnapshot).
THEOREM SnapshotPrefix == Spec => []SnapshotIsLogPrefix
<1>1. PrefixInv => SnapshotIsLogPrefix
  BY PrefixIsState, Zenon DEF PrefixInv, SnapshotIsLogPrefix
<1>2. QED
  BY <1>1, Prefixes, PTL
=============================================================================
