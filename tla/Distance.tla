------------------------------ MODULE Distance ------------------------------
(***************************************************************************)
(* The squared-L2 kernel l2_distance_simd of vector_ops.cpp.               *)
(*                                                                         *)
(* A vector is a sequence of integers: float32 arithmetic on integers of   *)
(* magnitude below 2^12 is exact, so on those inputs the float kernel      *)
(* computes exactly what these operators compute and the only thing that  *)
(* can differ between the three build paths is which elements are summed  *)
(* into which accumulator.  Lanes is the width of the build's path:        *)
(* 4 (ARM NEON), 8 (AVX2) or 1 (the scalar fallback).                      *)
(***************************************************************************)
EXTENDS Integers, Sequences, FiniteSetsExt

(* The square of the difference of element i (1-based) of a and b.        *)
Diff2(a, b, i) == (a[i] - b[i]) * (a[i] - b[i])

(* Sum of Diff2 over the 0-based code indices in the set Idx.              *)
SumDiff2(a, b, Idx) == MapThenSumSet(LAMBDA i : Diff2(a, b, i + 1), Idx)

(* Fault variant: the scalar tail starts one element after simd_size.     *)
L2Lanes_tailSkip(a, b, lanes) ==
  LET dims      == Len(a)
      simd_size == dims - (dims % lanes)
      lane      == [j \in 0..lanes-1 |->
                      SumDiff2(a, b, {i \in 0..simd_size-1 : i % lanes = j})]
  IN  MapThenSumSet(LAMBDA j : lane[j], 0..lanes-1) + SumDiff2(a, b, simd_size+1..dims-1)

(* The SIMD paths: simd_size elements are summed lane by lane into Lanes   *)
(* partial sums, the partial sums are added horizontally, and the         *)
(* remaining dims % Lanes elements are added one by one.                  *)
L2Lanes(a, b, lanes) ==
  LET dims      == Len(a)
      simd_size == dims - (dims % lanes)
      lane      == [j \in 0..lanes-1 |->
                      SumDiff2(a, b, {i \in 0..simd_size-1 : i % lanes = j})]
      result    == MapThenSumSet(LAMBDA j : lane[j], 0..lanes-1)
  IN  result + SumDiff2(a, b, simd_size..dims-1)

(* The scalar fallback: one accumulator over all elements.                 *)
L2Scalar(a, b) == SumDiff2(a, b, 0..Len(a)-1)

(* l2_distance_simd as built for a path of the given lane width.           *)
L2DistanceSimd(a, b, lanes) ==
  IF lanes = 1 THEN L2Scalar(a, b) ELSE L2Lanes(a, b, lanes)

(* The predefined macros that choose a build path.                        *)
BuildMacros == {"__ARM_NEON", "__aarch64__", "__AVX2__"}

(* The #if chain of vector_ops.cpp (repeated in both kernels): the lane    *)
(* width compiled for a set of predefined macros.                          *)
KernelLanes(defs) ==
  IF "__ARM_NEON" \in defs \/ "__aarch64__" \in defs THEN 4
  ELSE IF "__AVX2__" \in defs THEN 8
  ELSE 1

-----------------------------------------------------------------------------
(***************************************************************************)
(* cosine_similarity_simd.  The three accumulators dot, norm_a and norm_b *)
(* are split over lanes exactly as in the L2 kernel; the result is        *)
(* dot / (sqrt(norm_a) * sqrt(norm_b)).  It is kept as the exact pair     *)
(* <<dot, norm_a * norm_b>> (the value is dot / sqrt of the second), or  *)
(* NaN when a norm is 0 and the division is 0 / 0.                         *)
(***************************************************************************)
NaN == "NaN"

(* Sum of f[i] over i in 0..dims-1 as a SIMD path of the given width adds *)
(* it: per-lane sums over the first simd_size indices, the horizontal sum, *)
(* then the scalar tail.                                                   *)
LaneSplitSum(f, dims, lanes) ==
  LET simd_size == dims - (dims % lanes)
      Part(I)   == MapThenSumSet(LAMBDA i : f[i], I)
  IN  MapThenSumSet(LAMBDA j : Part({i \in 0..simd_size-1 : i % lanes = j}), 0..lanes-1)
      + Part(simd_size..dims-1)

Dot(a, b, i) == a[i + 1] * b[i + 1]

(* The products x[i] * y[i] of the loops, indexed by the code's i.         *)
Prods(x, y) == [i \in 0..Len(x)-1 |-> Dot(x, y, i)]

(* Fault variant: the tail loop adds a[i] * a[i] to norm_b.                *)
CosineLanes_tailNormA(a, b, lanes) ==
  LET simd_size == Len(a) - (Len(a) % lanes)
      nbTail    == [i \in 0..Len(a)-1 |-> IF i < simd_size THEN Dot(b, b, i) ELSE Dot(a, a, i)]
  IN  [dot |-> LaneSplitSum(Prods(a, b), Len(a), lanes),
       na  |-> LaneSplitSum(Prods(a, a), Len(a), lanes),
       nb  |-> LaneSplitSum(nbTail, Len(a), lanes)]

(* The NEON and AVX2 paths: dot_sum, norm_a_sum and norm_b_sum by lanes,  *)
(* the horizontal loop, and the remaining elements one by one.             *)
CosineLanes(a, b, lanes) ==
  [dot |-> LaneSplitSum(Prods(a, b), Len(a), lanes),
   na  |-> LaneSplitSum(Prods(a, a), Len(a), lanes),
   nb  |-> LaneSplitSum(Prods(b, b), Len(a), lanes)]

(* The scalar fallback: one loop over all elements.                        *)
CosineScalar(a, b) ==
  [dot |-> MapThenSumSet(LAMBDA i : Dot(a, b, i), 0..Len(a)-1),
   na  |-> MapThenSumSet(LAMBDA i : Dot(a, a, i), 0..Len(a)-1),
   nb  |-> MapThenSumSet(LAMBDA i : Dot(b, b, i), 0..Len(a)-1)]

(* return dot_product / (std::sqrt(norm_a) * std::sqrt(norm_b));           *)
CosineResult(s) ==
  IF s.na = 0 \/ s.nb = 0 THEN NaN ELSE <<s.dot, s.na * s.nb>>

cosine_similarity_simd(a, b, lanes) ==
  CosineResult(IF lanes = 1 THEN CosineScalar(a, b) ELSE CosineLanes(a, b, lanes))

(* The reference: the squared Euclidean distance, element by element.      *)
RECURSIVE L2Reference(_, _)
L2Reference(a, b) ==
  IF a = <<>> THEN 0
  ELSE (Head(a) - Head(b)) * (Head(a) - Head(b)) + L2Reference(Tail(a), Tail(b))

(* The reference: dot product, element by element.                         *)
RECURSIVE DotReference(_, _)
DotReference(a, b) ==
  IF a = <<>> THEN 0 ELSE Head(a) * Head(b) + DotReference(Tail(a), Tail(b))

(* The reference cosine: a.b / (|a| |b|), undefined for a zero vector.     *)
CosineReference(a, b) ==
  LET na == DotReference(a, a)
      nb == DotReference(b, b)
  IN  IF na = 0 \/ nb = 0 THEN NaN ELSE <<DotReference(a, b), na * nb>>

=============================================================================
