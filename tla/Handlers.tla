------------------------------ MODULE Handlers ------------------------------
(***************************************************************************)
(* The command registry of internal/raft/handler: what the commands of the *)
(* Raft log make of their payloads.  A payload is the sequence of numbers  *)
(* binary.Uvarint reads from its bytes, with a last Cut if it fails.  The   *)
(* result of a handler is the calls it makes on the engine, in order, and  *)
(* whether it ends without an error.                                       *)
(***************************************************************************)
EXTENDS EngineState, Sequences

CONSTANT Cut   \* no varint can be read here

\* How many numbers Uvarint reads before it fails.
Readable(p) == IF p # <<>> /\ p[Len(p)] = Cut THEN Len(p) - 1 ELSE Len(p)

Adds(ids) == [k \in 1 .. Len(ids) |-> [op |-> "Add", id |-> ids[k]]]
Fails == [calls |-> <<>>, ok |-> FALSE]

\* applyAdd: a single varint and nothing after it.
ApplyAdd(p) ==
  IF Len(p) = 1 /\ Readable(p) = 1 THEN [calls |-> Adds(p), ok |-> TRUE] ELSE Fails

\* applyBatchAdd: a count and that many ids.  The ids are added as they are
\* read, so a payload that is too short leaves those before the cut added.
\* What follows the last id is ignored.
ApplyBatchAdd(p) ==
  IF Readable(p) = 0 THEN Fails
  ELSE LET n    == p[1]
           have == Readable(p) - 1
           k    == IF n < have THEN n ELSE have
       IN  [calls |-> Adds(SubSeq(p, 2, k + 1)), ok |-> k = n]

\* applyMergeSketch with the part of MergeBytes before the lock: an algorithm
\* name within the payload that is the engine's own, and bytes that parse.
ApplyMergeSketch(p) ==
  IF p.algo = "hll" /\ CanParse(p.b)
  THEN [calls |-> <<[op |-> "MergeBytes", b |-> p.b]>>, ok |-> TRUE]
  ELSE Fails

\* Registry.Dispatch over DefaultRegistry.
Dispatch(cmd) ==
  CASE cmd.type = "ADD"          -> ApplyAdd(cmd.payload)
    [] cmd.type = "BATCH_ADD"    -> ApplyBatchAdd(cmd.payload)
    [] cmd.type = "MERGE_SKETCH" -> ApplyMergeSketch(cmd.payload)
    [] OTHER                     -> Fails

\* What a command can carry: numbers, of which those that are counted are
\* ids, or the bytes of a sketch.
WellFormed(cmd) ==
  LET p == cmd.payload
  IN  /\ cmd.type \in {"ADD", "BATCH_ADD"} => \A k \in 1 .. Len(p) - 1 : p[k] # Cut
      /\ cmd.type = "ADD" => p \in Seq(Id \cup {Cut})
      /\ cmd.type = "BATCH_ADD" =>
           /\ p \in Seq(Nat \cup Id \cup {Cut})
           /\ \A k \in 1 .. Len(p) : p[k] = Cut \/ p[k] \in IF k = 1 THEN Nat ELSE Id
      /\ cmd.type = "MERGE_SKETCH" /\ CanParse(p.b) => Parse(p.b) \in Registers
=============================================================================
