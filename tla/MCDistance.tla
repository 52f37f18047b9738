----------------------------- MODULE MCDistance -----------------------------
(***************************************************************************)
(* Checks l2_distance_simd as compiled for every set of predefined macros  *)
(* against the element-wise reference, over every pair of vectors of      *)
(* length 1..MaxDims with elements in Vals.  MaxDims = 9 gives every       *)
(* remainder dims % 8 and dims % 4, and a full AVX2 block with and        *)
(* without a tail.                                                         *)
(***************************************************************************)
EXTENDS Distance, TLC

CONSTANTS MaxDims, Vals

ASSUME MaxDims \in Nat \ {0} /\ Vals \subseteq Int

VARIABLES a, b,
  dist   \* dist[defs]: the kernel's result in a build with macros defs

vars == <<a, b, dist>>

Builds == SUBSET BuildMacros

Init ==
  /\ \E d \in 1..MaxDims : a \in [1..d -> Vals] /\ b \in [1..d -> Vals]
  /\ dist = [defs \in Builds |-> -1]

(* One call of the kernel in every build: the #if chain picks the path.    *)
Compute ==
  /\ dist = [defs \in Builds |-> -1]
  /\ LET byLanes == [w \in {KernelLanes(defs) : defs \in Builds} |->
                        L2DistanceSimd(a, b, w)]
     IN  dist' = [defs \in Builds |-> byLanes[KernelLanes(defs)]]
  /\ UNCHANGED <<a, b>>

Next == Compute

Spec == Init /\ [][Next]_vars

(* Every build path (NEON's four lanes, AVX2's eight lanes, the scalar     *)
(* loop) returns the squared Euclidean distance: the lane split of the     *)
(* first simd_size elements and the scalar tail together cover every       *)
(* element exactly once.                                                   *)
KernelMatchesReference ==
  \A defs \in Builds : dist[defs] # -1 => dist[defs] = L2Reference(a, b)

=============================================================================
