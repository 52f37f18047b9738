------------------------------ MODULE MCCosine ------------------------------
(***************************************************************************)
(* Checks cosine_similarity_simd on every build path against the          *)
(* element-wise reference, over every pair of vectors of length           *)
(* 1..MaxDims with elements in Vals; the zero vector is among them.        *)
(***************************************************************************)
EXTENDS Distance, TLC

CONSTANTS MaxDims, Vals, LaneWidths

ASSUME MaxDims \in Nat \ {0} /\ Vals \subseteq Int /\ LaneWidths \subseteq {1, 4, 8}

VARIABLES a, b, cos, done

vars == <<a, b, cos, done>>

Init ==
  /\ \E d \in 1..MaxDims : a \in [1..d -> Vals] /\ b \in [1..d -> Vals]
  /\ cos = [w \in LaneWidths |-> NaN]
  /\ done = FALSE

(* One call of the kernel for every build path.                            *)
Compute ==
  /\ ~done
  /\ cos' = [w \in LaneWidths |-> cosine_similarity_simd(a, b, w)]
  /\ done' = TRUE
  /\ UNCHANGED <<a, b>>

Next == Compute

Spec == Init /\ [][Next]_vars

(* Every build path of cosine_similarity_simd accumulates a.b, a.a and     *)
(* b.b over all elements, so it returns the reference cosine, and NaN      *)
(* (0 / 0) exactly when one of the vectors is zero.                        *)
CosineMatchesReference ==
  done => \A w \in LaneWidths : cos[w] = CosineReference(a, b)

=============================================================================
