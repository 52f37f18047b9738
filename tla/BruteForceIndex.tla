--------------------------- MODULE BruteForceIndex ---------------------------
(***************************************************************************)
(* The VectorBatchInserter class of vector_ops.cpp: a row-major arena      *)
(* data_ of num_vectors_ vectors, exact k-NN search by a scan through      *)
(* l2_distance_simd and std::partial_sort.  One action per public method;  *)
(* the class is single-threaded, so every call is one atomic step.         *)
(*                                                                         *)
(* std::partial_sort guarantees that the first k elements are the k        *)
(* smallest under the comparator, in order, and leaves the order of        *)
(* elements the comparator does not distinguish unspecified: search is     *)
(* modelled as the set of every result that guarantee allows.              *)
(***************************************************************************)
EXTENDS Integers, Sequences, FiniteSets, SequencesExt

CONSTANTS
  Points,     \* vectors of dimension dimensions_
  BadVec,     \* a vector whose size() differs from dimensions_
  Ks,         \* values of k passed to search
  Batches,    \* lists passed to add_batch
  MaxVectors, \* bound: number of stored vectors
  Lanes       \* lane width of the build's distance kernel

ASSUME /\ Points # {} /\ BadVec \notin Points /\ Ks \subseteq Nat
       /\ MaxVectors \in Nat /\ Lanes \in {1, 4, 8}

LOCAL D == INSTANCE Distance

VARIABLES
  data,         \* data_: data[i+1] is vector i
  num_vectors,  \* num_vectors_
  lastCall      \* history: the last method called and how it ended

vars == <<data, num_vectors, lastCall>>

Vectors == Points \cup {BadVec}

PointDist == [pq \in Points \X Points |-> D!L2DistanceSimd(pq[1], pq[2], Lanes)]

MinOf(a, b) == IF a <= b THEN a ELSE b

-----------------------------------------------------------------------------
(* Fault variant: the comparator is reversed.                              *)
ByDistance_reversed(x, y) == x[2] > y[2]

(* The lambda passed to std::partial_sort: a.second < b.second.            *)
ByDistance(x, y) == x[2] < y[2]

(* The results std::partial_sort(begin, begin + k, end, cmp) may leave in  *)
(* the first k slots of the (id, distance) vector ds: k distinct entries   *)
(* of ds, none after its successor under cmp, and no entry left out that   *)
(* cmp puts before the last one kept.                                      *)
PartialSortTopK(ds, k) ==
  { out \in [1..k -> ToSet(ds)] :
      /\ IsInjective(out)
      /\ \A i \in 1..k - 1 : ~ByDistance(out[i + 1], out[i])
      /\ k > 0 => \A x \in ToSet(ds) \ ToSet(out) : ~ByDistance(x, out[k]) }

(* search(query, k) for a query of the right dimension: every result it    *)
(* may return.                                                             *)
search(q, k0) ==
  LET k  == MinOf(k0, num_vectors)
      ds == [i \in 1..num_vectors |-> <<i - 1, PointDist[q, data[i]]>>]
  IN  IF num_vectors = 0 THEN {<<>>} ELSE PartialSortTopK(ds, k)

-----------------------------------------------------------------------------
Call(op, status) == lastCall' = [op |-> op, status |-> status]

(* Fault variant: the dimension check is dropped.                          *)
Add_noDimCheck(v) ==
  /\ num_vectors < MaxVectors
  /\ data' = Append(data, v)
  /\ num_vectors' = num_vectors + 1
  /\ Call("add", "ok")

(* add(vector): reject a vector of the wrong size, else append it.         *)
Add(v) ==
  /\ IF v = BadVec
     THEN Call("add", "DimensionMismatch") /\ UNCHANGED <<data, num_vectors>>
     ELSE /\ num_vectors < MaxVectors
          /\ data' = Append(data, v)
          /\ num_vectors' = num_vectors + 1
          /\ Call("add", "ok")

(* Fault variant: vectors are appended as they are validated.              *)
AddBatch_noPrecheck(vs) ==
  LET n == IF \E i \in 1..Len(vs) : vs[i] = BadVec
           THEN CHOOSE i \in 0..Len(vs) - 1 :
                  vs[i + 1] = BadVec /\ \A j \in 1..i : vs[j] # BadVec
           ELSE Len(vs)
  IN  /\ num_vectors + n <= MaxVectors
      /\ data' = data \o SubSeq(vs, 1, n)
      /\ num_vectors' = num_vectors + n
      /\ Call("add_batch", IF n = Len(vs) THEN "ok" ELSE "DimensionMismatch")

(* add_batch: every vector is validated before any is appended.            *)
AddBatch(vs) ==
  IF \E i \in 1..Len(vs) : vs[i] = BadVec
  THEN Call("add_batch", "DimensionMismatch") /\ UNCHANGED <<data, num_vectors>>
  ELSE /\ num_vectors + Len(vs) <= MaxVectors
       /\ data' = data \o vs
       /\ num_vectors' = num_vectors + Len(vs)
       /\ Call("add_batch", "ok")

(* search changes nothing; its results are checked for every query.        *)
Search(q, k) ==
  /\ Call("search", IF q = BadVec THEN "DimensionMismatch" ELSE "ok")
  /\ UNCHANGED <<data, num_vectors>>

(* Fault variant: data_.clear() is left out.                              *)
Clear_keepData ==
  /\ num_vectors' = 0 /\ UNCHANGED data
  /\ Call("clear", "ok")

Clear ==
  /\ data' = <<>> /\ num_vectors' = 0
  /\ Call("clear", "ok")

Init ==
  /\ data = <<>> /\ num_vectors = 0
  /\ lastCall = [op |-> "init", status |-> "ok"]

Next ==
  \/ \E v \in Vectors : Add(v)
  \/ \E vs \in Batches : AddBatch(vs)
  \/ \E q \in Vectors, k \in Ks : Search(q, k)
  \/ Clear

Spec == Init /\ [][Next]_vars

-----------------------------------------------------------------------------
Ids == 0..num_vectors - 1

TypeOK ==
  /\ data \in Seq(Points)
  /\ num_vectors \in 0..MaxVectors
  /\ lastCall.status \in {"ok", "DimensionMismatch"}

(* Spec 8.3 and 8.5: whatever order partial_sort leaves, search returns    *)
(* min(k, size()) distinct ids, ascending by distance, whose distances are *)
(* their true distances and no larger than any id left out.                *)
ExactTopK ==
  \A q \in Points, k \in Ks : \A out \in search(q, k) :
     /\ Len(out) = MinOf(k, num_vectors)
     /\ \A i \in 1..Len(out) - 1 : out[i][2] <= out[i + 1][2]
     /\ \A i \in DOMAIN out :
          /\ out[i][1] \in Ids /\ out[i][2] = PointDist[q, data[out[i][1] + 1]]
          /\ \A j \in Ids \ {out[m][1] : m \in DOMAIN out} :
               PointDist[q, data[j + 1]] >= out[i][2]

(* Spec 8.3: ties in distance are broken by ascending id.                  *)
TiesByAscendingId ==
  \A q \in Points, k \in Ks : \A out \in search(q, k) :
     \A i \in 1..Len(out) - 1 :
        out[i][2] = out[i + 1][2] => out[i][1] < out[i + 1][1]

=============================================================================
