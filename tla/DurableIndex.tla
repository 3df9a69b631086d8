--------------------------- MODULE DurableIndex ---------------------------
(***************************************************************************)
(* What the disk cache index promises to the rest of the server: the rows   *)
(* found after a restart are the effect of some prefix of the operations    *)
(* issued, in the order they were issued.  Operations may wait as long as   *)
(* they like, and a crash loses the waiting ones, but none is skipped,      *)
(* reordered, or lost while the process lives.                              *)
(***************************************************************************)
EXTENDS Naturals, SequencesExt

CONSTANTS Name

VARIABLES
  durable,  \* [Name -> {"none", "live", "dead"}], the rows on disk
  pending,  \* operations issued and not yet durable, oldest first
  up        \* the process runs

vars == <<durable, pending, up>>

Rows == [Name -> {"none", "live", "dead"}]
Ops  == [op : {"add", "update", "del"}, name : Name, dead : BOOLEAN]

\* The rows after operation op: an update changes only a row that is there.
Apply(rows, op) ==
  LET mark == IF op.dead THEN "dead" ELSE "live"
  IN  CASE op.op = "add"    -> [rows EXCEPT ![op.name] = mark]
        [] op.op = "update" -> [rows EXCEPT ![op.name] =
                                  IF @ = "none" THEN @ ELSE mark]
        [] op.op = "del"    -> [rows EXCEPT ![op.name] = "none"]

Replay(rows, ops) == FoldLeft(Apply, rows, ops)
Empty == [f \in Name |-> "none"]

Init == durable = Empty /\ pending = <<>> /\ up = FALSE

Issue == /\ up
         /\ IsStrictPrefix(pending, pending')
         /\ \A i \in DOMAIN pending' : pending'[i] \in Ops
         /\ UNCHANGED <<durable, up>>

Commit == /\ up
          /\ \E n \in 1 .. Len(pending) :
               /\ durable' = Replay(durable, SubSeq(pending, 1, n))
               /\ pending' = SubSeq(pending, n + 1, Len(pending))
          /\ UNCHANGED up

Crash == up /\ up' = FALSE /\ pending' = <<>> /\ UNCHANGED durable

\* A damaged index is replaced by an empty one, when it is opened or later.
Boot  == ~up /\ up' = TRUE /\ durable' \in {durable, Empty} /\ UNCHANGED pending
Reset == up /\ durable' = Empty /\ UNCHANGED <<pending, up>>

Next == Issue \/ Commit \/ Crash \/ Boot \/ Reset
Spec == Init /\ [][Next]_vars
=============================================================================
