---------------------------- MODULE VectorStore ----------------------------
(***************************************************************************)
(* What both indexes promise about their contents (spec 4 and 8.1): the   *)
(* index holds a sequence of vectors whose ids are their positions, from  *)
(* 0 up, with no gaps.  A successful add appends its vector, a successful *)
(* add_batch appends its vectors in order, clear empties the index, and   *)
(* search, set_ef and every call that throws DimensionMismatch leave the  *)
(* vectors as they were, with one exception: when AllOrNothing is FALSE,  *)
(* an add_batch that throws keeps the vectors before the bad one, as      *)
(* successive adds would.                                                  *)
(***************************************************************************)
EXTENDS Sequences, SequencesExt

CONSTANTS
  Points,        \* vectors of the index's dimension
  BadVec,        \* a vector of another dimension
  Batches,       \* lists passed to add_batch
  AllOrNothing   \* whether a failing add_batch leaves the index unchanged

VARIABLES
  store,     \* the vectors, in id order
  lastCall   \* the last method called and how it ended

vars == <<store, lastCall>>

Vectors == Points \cup {BadVec}

Ended(op, status) == lastCall' = [op |-> op, status |-> status]

(* The vectors of vs before its first BadVec.                              *)
GoodPrefix(vs) ==
  LET bad == {i \in 1..Len(vs) : vs[i] = BadVec}
  IN  IF bad = {} THEN vs ELSE SubSeq(vs, 1, Min(bad) - 1)

Add(v) ==
  IF v = BadVec THEN Ended("add", "DimensionMismatch") /\ UNCHANGED store
  ELSE Ended("add", "ok") /\ store' = Append(store, v)

AddBatch(vs) ==
  IF GoodPrefix(vs) = vs THEN Ended("add_batch", "ok") /\ store' = store \o vs
  ELSE /\ Ended("add_batch", "DimensionMismatch")
       /\ store' = IF AllOrNothing THEN store ELSE store \o GoodPrefix(vs)

(* A call that fails for want of memory reports the error and, like every *)
(* failing call (spec 7), leaves the stored vectors as they were.          *)
AddFails == Ended("add", "bad_alloc") /\ UNCHANGED store

Search(q) ==
  /\ Ended("search", IF q = BadVec THEN "DimensionMismatch" ELSE "ok")
  /\ UNCHANGED store

SetEf == Ended("set_ef", "ok") /\ UNCHANGED store

Clear == Ended("clear", "ok") /\ store' = <<>>

Init == store = <<>> /\ lastCall = [op |-> "init", status |-> "ok"]

Next ==
  \/ \E v \in Vectors : Add(v)
  \/ AddFails
  \/ \E vs \in Batches : AddBatch(vs)
  \/ \E q \in Vectors : Search(q)
  \/ SetEf
  \/ Clear

Spec == Init /\ [][Next]_vars

=============================================================================
