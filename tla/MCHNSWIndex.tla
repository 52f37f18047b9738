---------------------------- MODULE MCHNSWIndex ----------------------------
(***************************************************************************)
(* Model-checking instance of HNSWIndex.  Four points on the plane whose   *)
(* pairwise squared distances are 1, 4, 4, 5, 9 and 13; from each point    *)
(* the other three are at distinct distances, so no prune or heap order    *)
(* depends on a tie.  Queries are at the same points.  M = 1 makes the     *)
(* layer-0 cap 2 and the upper-layer cap 1, so the fourth insertion can    *)
(* already overflow and prune a list; levels 0..1 give an upper layer,     *)
(* entry-point promotion and descent.  The batches cover a batch that      *)
(* succeeds, one that throws after inserting a vector, and one that throws *)
(* at once.                                                                *)
(***************************************************************************)
EXTENDS HNSWIndex

MCPoints == {<<0, 0>>, <<1, 0>>, <<0, 2>>, <<3, 0>>}

LOCAL D == INSTANCE Distance

(* l2_distance_simd of the AVX2 build (8 lanes) between two points,        *)
(* computed once by the kernel model.                                      *)
MCPointDist == [pq \in MCPoints \X MCPoints |-> D!L2DistanceSimd(pq[1], pq[2], 8)]

MCBatches == {<<<<0, 2>>, <<3, 0>>>>, <<<<1, 0>>, BadVec>>, <<BadVec>>}

(* lastCall is a history variable that no guard reads; runs whose         *)
(* properties do not mention it identify states that differ only in it.    *)
GraphView == <<data, nodes, num_vectors, entry_point, max_layer, ef_search,
               rng, stream, level>>

(* Only search reads ef_search_, and search changes nothing: runs that     *)
(* check the shape of the graph also identify states that differ only in   *)
(* ef_search.                                                              *)
GraphShapeView == <<data, nodes, num_vectors, entry_point, max_layer,
                    rng, stream, level>>

(* The refinement mapping: the vectors of the ids 0..num_vectors-1.       *)
Stored == [i \in 1..num_vectors |-> data[i]]

(* HNSW add_batch calls add once per vector, so a batch that throws keeps  *)
(* the vectors before the bad one: the store is instantiated with          *)
(* AllOrNothing = FALSE.                                                   *)
Store == INSTANCE VectorStore WITH store <- Stored, AllOrNothing <- FALSE

(* The index implements VectorStore: every call changes the first          *)
(* num_vectors vectors of the arena as the abstract store would, so ids    *)
(* stay contiguous, stored vectors never move, add appends, clear empties  *)
(* and no failing or read-only call changes what is stored.                *)
ImplementsVectorStore == Store!Spec

=============================================================================
