------------------------- MODULE MCBruteForceIndex -------------------------
(***************************************************************************)
(* Model-checking instance of BruteForceIndex.  Three points at squared   *)
(* distances 1, 1 and 2 from each other, so queries meet ties in distance *)
(* both between different vectors and between copies of one vector.       *)
(***************************************************************************)
EXTENDS BruteForceIndex

MCPoints == {<<0, 0>>, <<1, 0>>, <<0, 1>>}

MCBatches == {<<<<1, 0>>, <<0, 1>>>>, <<<<0, 0>>, BadVec>>, <<BadVec, <<1, 0>>>>}

(* The refinement mapping: the vectors of the ids 0..num_vectors-1.       *)
Stored == [i \in 1..num_vectors |-> data[i]]

(* VectorBatchInserter::add_batch validates every vector before appending  *)
(* any, so the store is instantiated with AllOrNothing = TRUE.             *)
Store == INSTANCE VectorStore WITH store <- Stored, AllOrNothing <- TRUE

(* The index implements VectorStore: every call changes the first          *)
(* num_vectors vectors of the arena as the abstract store would, so ids    *)
(* stay contiguous, stored vectors never move, add appends, clear empties  *)
(* and no failing or read-only call changes what is stored.                *)
ImplementsVectorStore == Store!Spec

=============================================================================
