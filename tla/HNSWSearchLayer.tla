--------------------------- MODULE HNSWSearchLayer ---------------------------
(***************************************************************************)
(* HNSWIndex::search_layer of hnsw_index.cpp and the helpers it uses, as   *)
(* operators over a graph record s with fields data (data[id+1] is the     *)
(* vector of node id) and nodes (nodes[id+1][l+1] is the neighbour list of *)
(* node id at layer l).  HNSWIndex evaluates them inside its atomic calls; *)
(* HNSWSearchSteps runs the same loop one step at a time.                  *)
(***************************************************************************)
EXTENDS Integers, Sequences, FiniteSets, SequencesExt

CONSTANT
  PointDist   \* l2_distance_simd as built, tabulated over pairs of vectors

(* distance_to_query(query, id).                                          *)
DistQ(s, q, id) == PointDist[q, s.data[id + 1]]

(* A SearchCandidate is <<id, distance>>; heaps order them by distance.    *)
Closer(x, y) == x[2] < y[2] \/ (x[2] = y[2] /\ x[1] < y[1])

(* Insert x into the ascending sequence h (a heap as a sorted sequence).   *)
HeapPush(h, x) ==
  LET i == Cardinality({j \in 1..Len(h) : Closer(h[j], x)})
  IN  SubSeq(h, 1, i) \o <<x>> \o SubSeq(h, i + 1, Len(h))

-----------------------------------------------------------------------------
(***************************************************************************)
(* search_layer(query, entry_id, ef, layer).  The min-heap candidates (C)  *)
(* and the max-heap W are kept as ascending sequences: C's top is Head,    *)
(* W's top is Last.  acc holds C, W and visited.                           *)
(***************************************************************************)

(* Fault variant: the overflow test reads W's size before the push.      *)
VisitNeighbor_staleSize(s, q, ef, acc, n) ==
  LET x == <<n, DistQ(s, q, n)>>
      W1 == HeapPush(acc.W, x)
  IN  IF n \in acc.visited THEN acc
      ELSE IF x[2] < Last(acc.W)[2] \/ Len(acc.W) < ef
      THEN [C |-> HeapPush(acc.C, x), visited |-> acc.visited \cup {n},
            W |-> IF Len(acc.W) > ef THEN Front(W1) ELSE W1]
      ELSE [acc EXCEPT !.visited = @ \cup {n}]

(* Fault variant: the neighbour is pushed without visited.insert.        *)
VisitNeighbor_noMark(s, q, ef, acc, n) ==
  LET x == <<n, DistQ(s, q, n)>>
      W1 == HeapPush(acc.W, x)
  IN  IF n \in acc.visited THEN acc
      ELSE IF x[2] < Last(acc.W)[2] \/ Len(acc.W) < ef
      THEN [C |-> HeapPush(acc.C, x), visited |-> acc.visited,
            W |-> IF Len(W1) > ef THEN Front(W1) ELSE W1]
      ELSE [acc EXCEPT !.visited = @ \cup {n}]

(* Fault variant: W ordered with std::greater, so W.pop() drops the        *)
(* nearest element instead of the furthest.                                *)
VisitNeighbor_popNearest(s, q, ef, acc, n) ==
  LET x == <<n, DistQ(s, q, n)>>
      W1 == HeapPush(acc.W, x)
  IN  IF n \in acc.visited THEN acc
      ELSE IF x[2] < Last(acc.W)[2] \/ Len(acc.W) < ef
      THEN [C |-> HeapPush(acc.C, x), visited |-> acc.visited \cup {n},
            W |-> IF Len(W1) > ef THEN Tail(W1) ELSE W1]
      ELSE [acc EXCEPT !.visited = @ \cup {n}]

(* One iteration of the loop over the neighbours of the popped candidate:  *)
(* an unvisited neighbour is marked visited and, if it is closer than W's  *)
(* top or W is not full, pushed on both heaps; W then drops its furthest   *)
(* element if it holds more than ef.                                       *)
VisitNeighbor(s, q, ef, acc, n) ==
  LET x == <<n, DistQ(s, q, n)>>
      W1 == HeapPush(acc.W, x)
  IN  IF n \in acc.visited THEN acc
      ELSE IF x[2] < Last(acc.W)[2] \/ Len(acc.W) < ef
      THEN [C |-> HeapPush(acc.C, x), visited |-> acc.visited \cup {n},
            W |-> IF Len(W1) > ef THEN Front(W1) ELSE W1]
      ELSE [acc EXCEPT !.visited = @ \cup {n}]

(* Fault variant: the popped heap is returned without std::reverse.       *)
HeapToVector_noReverse(W) == Reverse(W)

(* "Convert priority queue to vector": popping W yields the furthest      *)
(* first; std::reverse makes the result ascending.                         *)
HeapToVector(W) ==
  LET results == Reverse(W)
  IN  Reverse(results)

(* Both heaps start with the entry, which is marked visited.               *)
SeedHeaps(s, q, entry_id) ==
  LET e == <<entry_id, DistQ(s, q, entry_id)>>
  IN  [C |-> <<e>>, W |-> <<e>>, visited |-> {entry_id}]

(* for (size_t neighbor_id : nodes_[c.id].neighbors[layer]) { ... }       *)
RECURSIVE VisitAll(_, _, _, _, _)
VisitAll(s, q, ef, acc, nb) ==
  IF nb = <<>> THEN acc
  ELSE VisitAll(s, q, ef, VisitNeighbor(s, q, ef, acc, Head(nb)), Tail(nb))

(* while (!candidates.empty()): pop the closest c; stop when it is further *)
(* than W's top, else visit its neighbours at this layer.                  *)
(* Fault variant: the loop also stops on a candidate as far as W's top.   *)
RECURSIVE SearchLoop_breakOnTie(_, _, _, _, _)
SearchLoop_breakOnTie(s, q, ef, layer, acc) ==
  IF acc.C = <<>> THEN acc.W
  ELSE LET c == Head(acc.C)
       IN  IF c[2] >= Last(acc.W)[2] THEN acc.W
           ELSE SearchLoop_breakOnTie(s, q, ef, layer,
                   VisitAll(s, q, ef, [acc EXCEPT !.C = Tail(@)],
                            s.nodes[c[1] + 1][layer + 1]))

RECURSIVE SearchLoop(_, _, _, _, _)
SearchLoop(s, q, ef, layer, acc) ==
  IF acc.C = <<>> THEN acc.W
  ELSE LET c == Head(acc.C)
       IN  IF c[2] > Last(acc.W)[2] THEN acc.W
           ELSE SearchLoop(s, q, ef, layer,
                           VisitAll(s, q, ef, [acc EXCEPT !.C = Tail(@)],
                                    s.nodes[c[1] + 1][layer + 1]))

search_layer(s, q, entry_id, ef, layer) ==
  HeapToVector(SearchLoop(s, q, ef, layer, SeedHeaps(s, q, entry_id)))

=============================================================================
