------------------------------ MODULE HNSWIndex ------------------------------
(***************************************************************************)
(* The HNSWIndex class of hnsw_index.cpp: the vector arena data_, the      *)
(* graph nodes_, entry_point_, max_layer_, ef_search_ and the level        *)
(* generator rng_, with one action per public method.  Every method runs   *)
(* to completion before the next begins (the index is single-threaded), so *)
(* each call is one atomic step; search_layer, the descent and the         *)
(* per-layer linking are operators evaluated inside that step.             *)
(*                                                                         *)
(* Data abstraction.  A vector is a point of the constant set Points (a    *)
(* tuple of small integers, on which the float kernel is exact); a vector  *)
(* of the wrong length is the model value BadVec.  The mt19937 seeded     *)
(* with 42 produces a fixed but unknown sequence of levels: the variable   *)
(* stream holds it, chosen once in Init.  std::priority_queue leaves the   *)
(* order of equal distances unspecified; the model breaks such ties by id. *)
(***************************************************************************)
EXTENDS Integers, Sequences, FiniteSets, SequencesExt, TLC, HNSWSearchLayer

CONSTANTS
  Points,          \* vectors of dimension dimensions_
  BadVec,          \* a vector whose size() differs from dimensions_
  M,               \* M_; M_max_ is 2 * M
  EfConstruction,  \* ef_construction_
  EfValues,        \* arguments passed to set_ef
  Ks,              \* values of k passed to search
  MaxLevel,        \* bound: largest level get_random_level returns
  MaxDraws,        \* bound: draws taken from rng_ in one behaviour
  Batches,        \* lists passed to add_batch (sequences over Points \cup {BadVec})
  AllocFails      \* whether add may throw while constructing the node

ASSUME /\ Points # {} /\ BadVec \notin Points
       /\ M \in Nat /\ EfConstruction \in Nat
       /\ EfValues \subseteq Nat /\ Ks \subseteq Nat
       /\ MaxLevel \in Nat /\ MaxDraws \in Nat
       /\ PointDist \in [Points \X Points -> Nat]
       /\ AllocFails \in BOOLEAN

VARIABLES
  data,         \* data_: data[id+1] is the vector of node id
  nodes,        \* nodes_: nodes[id+1][l+1] is nodes_[id].neighbors[l]
  num_vectors,  \* num_vectors_
  entry_point,  \* entry_point_
  max_layer,    \* max_layer_
  ef_search,    \* ef_search_
  rng,          \* rng_: the number of levels drawn so far
  stream,       \* the levels rng_ yields, in order (never changes)
  level,        \* history: level[id+1] is the level drawn for node id
  lastCall      \* history: the last method called and how it ended

vars == <<data, nodes, num_vectors, entry_point, max_layer, ef_search,
          rng, stream, level, lastCall>>

M_max == 2 * M

Levels == 0..MaxLevel

MaxOf(a, b) == IF a >= b THEN a ELSE b
MinOf(a, b) == IF a <= b THEN a ELSE b

-----------------------------------------------------------------------------
(***************************************************************************)
(* The graph part of the state as a record, so that a whole add or         *)
(* add_batch can be computed as a function of it.                          *)
(***************************************************************************)
Cur == [data |-> data, nodes |-> nodes, num |-> num_vectors,
        ep |-> entry_point, ml |-> max_layer, rng |-> rng, level |-> level]

Assign(s) ==
  /\ data' = s.data /\ nodes' = s.nodes /\ num_vectors' = s.num
  /\ entry_point' = s.ep /\ max_layer' = s.ml /\ rng' = s.rng
  /\ level' = s.level

(* distance between two stored vectors (distance_to_query is DistQ).      *)
DistIds(s, id1, id2) == PointDist[s.data[id1 + 1], s.data[id2 + 1]]

(* Fault variant: the level is one too high.                               *)
get_random_level_offByOne(s) == stream[s.rng + 1] + 1

(* get_random_level: the next level of rng_'s stream.                      *)
get_random_level(s) == stream[s.rng + 1]

(* The descent of add and search: for lc from top down to stop + 1, run    *)
(* search_layer with ef = 1 and move to the nearest node found.            *)
RECURSIVE Descend(_, _, _, _, _)
Descend(s, q, curr, lc, stop) ==
  IF lc <= stop THEN curr
  ELSE LET nearest == search_layer(s, q, curr, 1, lc)
       IN  Descend(s, q, IF nearest # <<>> THEN nearest[1][1] ELSE curr,
                   lc - 1, stop)

-----------------------------------------------------------------------------
(* prune_connections(node_id, layer, M): keep the Mc nearest neighbours.   *)
prune_connections(s, node_id, layer, Mc) ==
  LET nb == s.nodes[node_id + 1][layer + 1]
      candidates == SortSeq([i \in 1..Len(nb) |-> <<nb[i], DistIds(s, node_id, nb[i])>>],
                            Closer)
  IN  IF Len(nb) <= Mc THEN s
      ELSE [s EXCEPT !.nodes[node_id + 1][layer + 1] =
                       [i \in 1..MinOf(Mc, Len(candidates)) |-> candidates[i][1]]]

(* One iteration of "Add bidirectional links" at layer lc, with the prune  *)
(* of the neighbour's list when it overflows.                              *)
Link(s, new_id, lc, Mc, neighbor) ==
  LET s1 == [s EXCEPT !.nodes[new_id + 1][lc + 1] = Append(@, neighbor[1]),
                      !.nodes[neighbor[1] + 1][lc + 1] = Append(@, new_id)]
  IN  IF Len(s1.nodes[neighbor[1] + 1][lc + 1]) > Mc
      THEN prune_connections(s1, neighbor[1], lc, Mc)
      ELSE s1

(* Fault variant: the caps of layer 0 and of the upper layers swapped.     *)
Cap_swapped(lc) == IF lc = 0 THEN M ELSE M_max

(* size_t M = (lc == 0) ? M_max_ : M_;                                     *)
Cap(lc) == IF lc = 0 THEN M_max ELSE M

(* for (const auto& neighbor : neighbors): link each in order.             *)
RECURSIVE LinkAll(_, _, _, _)
LinkAll(s, new_id, lc, nbrs) ==
  IF nbrs = <<>> THEN s
  ELSE LinkAll(Link(s, new_id, lc, Cap(lc), Head(nbrs)), new_id, lc, Tail(nbrs))

(* "Insert at each layer up to new_level": for lc from the given layer     *)
(* down to 0, search with ef_construction_, link the Cap(lc) nearest and   *)
(* continue from the nearest of them.                                      *)
RECURSIVE InsertLayers(_, _, _, _, _)
InsertLayers(s, q, new_id, curr, lc) ==
  IF lc < 0 THEN s
  ELSE LET candidates == search_layer(s, q, curr, EfConstruction, lc)
           neighbors == SubSeq(candidates, 1, MinOf(Cap(lc), Len(candidates)))
       IN  InsertLayers(LinkAll(s, new_id, lc, neighbors), q, new_id,
                        IF neighbors # <<>> THEN neighbors[1][1] ELSE curr, lc - 1)

(* Store the vector and create the node with max(new_level, max_layer_)   *)
(* + 1 empty neighbour lists; the level is drawn from rng_ first.          *)
AllocNode(s, v, new_level) ==
  [s EXCEPT !.rng = @ + 1,
            !.data = Append(@, v),
            !.nodes = Append(@, [l \in 1..MaxOf(new_level, s.ml) + 1 |-> <<>>]),
            !.level = Append(@, new_level)]

(* Fault variant: the first-node branch does not count the node.           *)
FirstNode_noCount(s, new_id, new_level) ==
  [s EXCEPT !.ep = new_id, !.ml = new_level]

(* The first node becomes the entry point and sets max_layer_.             *)
FirstNode(s, new_id, new_level) ==
  [s EXCEPT !.ep = new_id, !.ml = new_level, !.num = @ + 1]

(* Fault variant: max_layer_ is raised but entry_point_ is kept.           *)
Promote_noEntry(s, new_id, new_level) ==
  [s EXCEPT !.ml = IF new_level > @ THEN new_level ELSE @]

(* "Update max layer if needed".                                           *)
Promote(s, new_id, new_level) ==
  IF new_level > s.ml THEN [s EXCEPT !.ml = new_level, !.ep = new_id] ELSE s

(* Fault variant: the promotion is done before the insertion loops.        *)
add_promoteFirst(s, v) ==
  LET new_level == get_random_level(s)
      s1 == AllocNode(s, v, new_level)
      s0 == Promote(s1, s.num, new_level)
  IN  IF s.num = 0 THEN FirstNode(s1, s.num, new_level)
      ELSE [InsertLayers(s0, v, s.num, Descend(s0, v, s0.ep, s0.ml, new_level),
                         MinOf(new_level, s0.ml)) EXCEPT !.num = @ + 1]

(* add(vector) for a vector of the right dimension: draw the level, store  *)
(* the vector and node; then, unless it is the first node, descend from    *)
(* the entry point to new_level + 1, link on every layer from              *)
(* min(new_level, max_layer_) down to 0, and promote.                      *)
add(s, v) ==
  LET new_id    == s.num
      new_level == get_random_level(s)
      s1 == AllocNode(s, v, new_level)
  IN  IF s.num = 0 THEN FirstNode(s1, new_id, new_level)
      ELSE LET curr == Descend(s1, v, s.ep, s.ml, new_level)
               s2   == InsertLayers(s1, v, new_id, curr, MinOf(new_level, s.ml))
           IN  [Promote(s2, new_id, new_level) EXCEPT !.num = @ + 1]

(* add_batch: add each vector in turn; add throws at the first vector of   *)
(* the wrong dimension, leaving the vectors before it in the index.        *)
RECURSIVE add_batch(_, _)
add_batch(s, vs) ==
  IF vs = <<>> THEN [state |-> s, status |-> "ok"]
  ELSE IF Head(vs) = BadVec THEN [state |-> s, status |-> "DimensionMismatch"]
  ELSE add_batch(add(s, Head(vs)), Tail(vs))

(* The number of vectors add_batch inserts before it returns or throws.    *)
GoodPrefixLen(vs) ==
  IF \E i \in 1..Len(vs) : vs[i] = BadVec
  THEN CHOOSE i \in 0..Len(vs) - 1 : vs[i + 1] = BadVec /\ \A j \in 1..i : vs[j] # BadVec
  ELSE Len(vs)

(* search(query, k) for a query of the right dimension.                    *)
search(s, q, k0) ==
  LET k    == MinOf(k0, s.num)
      curr == Descend(s, q, s.ep, s.ml, 0)
      candidates == search_layer(s, q, curr, MaxOf(ef_search, k), 0)
  IN  IF s.num = 0 THEN <<>>
      ELSE [i \in 1..MinOf(k, Len(candidates)) |-> candidates[i]]

-----------------------------------------------------------------------------
(***************************************************************************)
(* Actions: one per public method.  lastCall records which method ran and  *)
(* whether it returned or threw; what search returns is a function of the  *)
(* state and is checked for every query by SearchResultSound.              *)
(***************************************************************************)
Call(op, status) == lastCall' = [op |-> op, status |-> status]

Add(v) ==
  /\ IF v = BadVec
     THEN /\ Call("add", "DimensionMismatch")
          /\ UNCHANGED <<data, nodes, num_vectors, entry_point, max_layer, rng, level>>
     ELSE /\ rng < MaxDraws
          /\ Assign(add(Cur, v))
          /\ Call("add", "ok")
  /\ UNCHANGED <<ef_search, stream>>

(* add throws at nodes_.emplace_back, after data_.insert has appended the  *)
(* vector and get_random_level has advanced rng_: std::bad_alloc under     *)
(* memory pressure, or std::length_error when r = 0.0 makes the level      *)
(* INT_MAX (ARM's saturating cast) and max_layer + 1 wraps to a negative   *)
(* size.  The graph and num_vectors_ are left as they were.                *)
AddNodeThrows(v) ==
  /\ AllocFails
  /\ rng < MaxDraws
  /\ data' = Append(data, v) /\ rng' = rng + 1
  /\ Call("add", "bad_alloc")
  /\ UNCHANGED <<nodes, num_vectors, entry_point, max_layer, ef_search, stream, level>>

AddBatch(vs) ==
  /\ rng + GoodPrefixLen(vs) <= MaxDraws
  /\ LET r == add_batch(Cur, vs)
     IN  /\ Assign(r.state)
         /\ Call("add_batch", r.status)
  /\ UNCHANGED <<ef_search, stream>>

Search(q, k) ==
  /\ Call("search", IF q = BadVec THEN "DimensionMismatch" ELSE "ok")
  /\ UNCHANGED <<data, nodes, num_vectors, entry_point, max_layer, ef_search,
                 rng, stream, level>>

(* Fault variant: data_.clear() is left out.                              *)
Clear_keepData ==
  /\ nodes' = <<>> /\ num_vectors' = 0
  /\ entry_point' = 0 /\ max_layer' = 0 /\ level' = <<>>
  /\ Call("clear", "ok")
  /\ UNCHANGED <<data, ef_search, rng, stream>>

(* clear() empties the arena and the graph; it does not touch rng_.        *)
Clear ==
  /\ data' = <<>> /\ nodes' = <<>> /\ num_vectors' = 0
  /\ entry_point' = 0 /\ max_layer' = 0 /\ level' = <<>>
  /\ Call("clear", "ok")
  /\ UNCHANGED <<ef_search, rng, stream>>

SetEf(ef) ==
  /\ ef_search' = ef
  /\ Call("set_ef", "ok")
  /\ UNCHANGED <<data, nodes, num_vectors, entry_point, max_layer, rng, stream, level>>

Vectors == Points \cup {BadVec}

Init ==
  /\ data = <<>> /\ nodes = <<>> /\ num_vectors = 0
  /\ entry_point = 0 /\ max_layer = 0 /\ ef_search = 100
  /\ rng = 0 /\ stream \in [1..MaxDraws -> Levels] /\ level = <<>>
  /\ lastCall = [op |-> "init", status |-> "ok"]

Next ==
  \/ \E v \in Vectors : Add(v)
  \/ \E v \in Points : AddNodeThrows(v)
  \/ \E vs \in Batches : AddBatch(vs)
  \/ \E q \in Vectors, k \in Ks : Search(q, k)
  \/ Clear
  \/ \E ef \in EfValues : SetEf(ef)

Spec == Init /\ [][Next]_vars

-----------------------------------------------------------------------------
(***************************************************************************)
(* Invariants and properties.                                              *)
(***************************************************************************)
Ids == 0..num_vectors - 1

(* The layers a node's neighbors vector has, and its list at layer l.      *)
LayersOf(u) == 0..Len(nodes[u + 1]) - 1
Nbrs(u, l) == nodes[u + 1][l + 1]

TypeOK ==
  /\ data \in Seq(Points)
  /\ nodes \in Seq(Seq(Seq(Nat)))
  /\ num_vectors \in Nat /\ entry_point \in Nat /\ max_layer \in Levels
  /\ ef_search \in EfValues \cup {100}
  /\ rng \in 0..MaxDraws /\ stream \in [1..MaxDraws -> Levels]
  /\ level \in Seq(Levels)
  /\ lastCall.status \in {"ok", "DimensionMismatch", "bad_alloc"}

(* The arena, the node vector and num_vectors_ grow and shrink together:  *)
(* node id owns row id of data_ (the first-node branch of add, the batch  *)
(* path and clear all keep this).                                          *)
ArenaMatchesGraph ==
  /\ Len(data) = num_vectors
  /\ Len(nodes) = num_vectors
  /\ Len(level) = num_vectors

(* The adjacency stays well formed through every insertion, prune and     *)
(* clear: a node has no neighbour above its own level, a neighbour listed  *)
(* at layer l exists at layer l, ends are stored ids other than the node   *)
(* itself, and no list names a node twice.  Nodes are allocated with       *)
(* max(new_level, max_layer_) + 1 layers, so an edge placed on a layer     *)
(* above a node's level is no out-of-bounds write and nothing else would   *)
(* notice it; search_layer would then walk it.                             *)
WellFormedAdjacency ==
  \A u \in Ids : \A l \in LayersOf(u) :
     /\ IsInjective(Nbrs(u, l))
     /\ \A i \in DOMAIN Nbrs(u, l) :
          LET v == Nbrs(u, l)[i]
          IN  /\ v \in Ids /\ v # u
              /\ l <= level[u + 1] /\ l <= level[v + 1]

(* The entry point is a node of the top layer and no node is above it:     *)
(* every descent in add and search starts at a node that has all layers    *)
(* from max_layer_ down.                                                   *)
EntryPointIsTop ==
  num_vectors > 0 =>
     /\ entry_point \in Ids
     /\ level[entry_point + 1] = max_layer
     /\ \A u \in Ids : level[u + 1] <= max_layer

(* After every call, no neighbour list is longer than M_max_ at layer 0    *)
(* and M_ above it (spec 8.8): each back-link that overflows a list is     *)
(* pruned at once.                                                         *)
DegreeBound ==
  \A u \in Ids : \A l \in LayersOf(u) :
     Len(Nbrs(u, l)) <= IF l = 0 THEN M_max ELSE M

(* For every query and k, search returns at most k results, ascending by  *)
(* distance, each a distinct stored id with its true distance to the      *)
(* query, and at least one result when the index holds a vector and k > 0 *)
(* (the descent, the reversal of the popped heap and the ef = max(ef, k)  *)
(* widening all feed this).                                                *)
SearchResultSound ==
  \A q \in Points, k \in Ks :
     LET out == search(Cur, q, k)
     IN  /\ Len(out) <= k
         /\ \A i \in 1..Len(out) - 1 : out[i][2] <= out[i + 1][2]
         /\ IsInjective([i \in DOMAIN out |-> out[i][1]])
         /\ \A i \in DOMAIN out : out[i][1] \in Ids /\ out[i][2] = PointDist[q, data[out[i][1] + 1]]
         /\ (num_vectors > 0 /\ k > 0) => Len(out) >= 1

(* search_layer stops only when the closest unexpanded candidate is       *)
(* further than W's furthest element, so the best node it returns has     *)
(* been expanded: no layer-0 neighbour of the first result of search is    *)
(* closer to the query than it.  A break on equal distances, a skipped     *)
(* expansion or a wrong heap order returns a node with a closer neighbour. *)
GreedyLocalMinimum ==
  \A q \in Points, k \in Ks \ {0} :
     LET out == search(Cur, q, k)
     IN  out # <<>> =>
           \A j \in DOMAIN Nbrs(out[1][1], 0) :
              PointDist[q, data[Nbrs(out[1][1], 0)[j] + 1]] >= out[1][2]

(* Spec 4.D.6 and 8.7: clear() re-seeds the generator, so the i-th node   *)
(* inserted since construction or the last clear gets the i-th level of    *)
(* the seed's stream, as in a freshly constructed index.                   *)
ReproducibleAfterClear ==
  \A i \in 1..Len(level) : level[i] = stream[i]

(* Spec 7 and 8.9: an add_batch that throws DimensionMismatch leaves the  *)
(* number of vectors unchanged.                                            *)
BatchAtomic ==
  [][(lastCall'.op = "add_batch" /\ lastCall'.status = "DimensionMismatch")
        => num_vectors' = num_vectors]_vars

=============================================================================
