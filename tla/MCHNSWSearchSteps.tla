------------------------- MODULE MCHNSWSearchSteps -------------------------
(***************************************************************************)
(* Model-checking instance of HNSWSearchSteps: three stored vectors on a   *)
(* line, every layer-0 graph over them (125), every entry, and queries     *)
(* that order them 0, 1, 2 (<<0, 0>>), 2, 1, 0 (<<4, 0>>), and with a tie  *)
(* (<<2, 0>> is 1 from both <<1, 0>> and <<3, 0>>).  ef ranges over 0, 1,  *)
(* 2 and 3: 0 is accepted by set_ef and the constructor, 1 is the descent, *)
(* 2 lets W fill and evict, 3 never fills.                                 *)
(***************************************************************************)
EXTENDS HNSWSearchSteps

MCData == <<<<0, 0>>, <<1, 0>>, <<3, 0>>>>

MCQueries == {<<0, 0>>, <<2, 0>>, <<4, 0>>}

LOCAL D == INSTANCE Distance

(* l2_distance_simd of the AVX2 build between every pair of vectors.      *)
MCPointDist == [pq \in (MCQueries \cup Range(MCData)) \X (MCQueries \cup Range(MCData))
                  |-> D!L2DistanceSimd(pq[1], pq[2], 8)]

=============================================================================
