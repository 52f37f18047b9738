# TLA+ models of the NexaDB native vector indexes

These modules model the C++ core of NexaDB under `src/nexadb/native/`. The
core has two in-memory vector indexes and the distance kernel they share. TLC
checks them over small, exhaustive configurations.

## The system

| Part | Source | State | Operations |
|---|---|---|---|
| A. L2 kernel `l2_distance_simd` | `vector_ops.cpp:41-100` | none (pure) | one call. The lane width is chosen at build time: NEON 4, AVX2 8, or scalar |
| B. Cosine kernel `cosine_similarity_simd` | `vector_ops.cpp:109-194` | none (pure) | one call; no index or binding calls it |
| C. Brute-force index `VectorBatchInserter` | `vector_ops.cpp:205-324` | `data_`, a row-major arena; `num_vectors_` | ctor, `add`, `add_batch`, `search`, `clear`, `size`, `dimensions` |
| D. HNSW index `HNSWIndex` | `hnsw_index.cpp:72-370` | `data_`, `nodes_` (per-layer adjacency lists), `num_vectors_`, `entry_point_`, `max_layer_`, `ef_search_`, `rng_` | ctor, `get_random_level`, `search_layer`, `add`, `prune_connections`, `add_batch`, `search`, `clear`, `set_ef` |
| E. Python bindings | `bindings.cpp` | none | one forwarding `.def` per method; the `__simd__` attribute |

How the parts interact:

- C and D both compute distances with A.
- Vector ids are arena positions. They are contiguous from 0 and are reset by
  `clear`.
- HNSW `add` makes these steps in order:
  1. draws a level;
  2. appends the vector and a node with `max(level, max_layer)+1` layers;
  3. descends greedily from the entry point (`search_layer` with ef=1) down
     to the new level;
  4. on each layer from `min(level, max_layer)` to 0, runs `search_layer`
     with `ef_construction`, links the new node to the nearest `M`
     candidates (`2M` at layer 0) in both directions, and prunes a neighbour
     whose list is over the cap;
  5. promotes the entry point if the new level is higher.
- HNSW `search` makes the same descent, then runs a layer-0 `search_layer`
  with `max(ef_search, k)`.
- Concurrency: every call runs to completion on the caller's thread, and the
  bindings hold the GIL. Nothing runs concurrently, nothing is persisted, and
  no message is sent. The hard parts are therefore long call sequences, the
  graph invariants they must keep, the heap and sort orders, and boundary
  arithmetic.

## Modules

- **`Distance.tla`**: the kernel as operators.
  - `L2Lanes(a, b, lanes)` is the SIMD path. It keeps per-lane partial sums
    over the first `dims - dims % lanes` elements, adds them horizontally,
    then adds a scalar tail.
  - `L2Scalar` is the fallback path. `L2DistanceSimd` picks between the two.
  - `L2Reference` is the recursive element-by-element definition they are
    checked against.
  - Vectors are small integers. Float32 arithmetic on them is exact, so the
    only thing that can differ between the build paths is which elements go
    into which sum.
  - `CosineLanes`, `CosineScalar` and `cosine_similarity_simd` model the
    cosine kernel. The three accumulators (dot, norm_a, norm_b) use the
    same lane split (`LaneSplitSum`) as the L2 kernel. The final division
    is kept exactly as the pair `<<dot, norm_a * norm_b>>`, or `NaN` when a
    norm is 0 (0 / 0). `CosineReference` is the element-by-element
    reference.
  - `KernelLanes(defs)` is the `#if` chain of `vector_ops.cpp`. It gives the
    lane width compiled for a set of predefined macros.
- **`MCCosine.tla`**: the same harness for the cosine kernel.
- **`VectorStore.tla`**: the abstract specification of what both indexes
  promise about their contents (spec §4, §8.1).
  - `store` is the sequence of stored vectors; an id is a position.
  - A successful add or add_batch appends, clear empties, and search,
    set_ef and calls that throw leave `store` unchanged.
  - `AddFails`: an add that fails for want of memory reports the error and
    leaves the store as it was, like every failing call (spec §7).
  - The constant `AllOrNothing` says whether a failing add_batch keeps
    nothing (brute force) or the vectors before the bad one (HNSW).
  - Each MC module instantiates it with `store <- Stored`, the first
    `num_vectors` vectors of the arena, and checks `ImplementsVectorStore`
    (the abstract `Spec`) as a PROPERTY.
- **`MCDistance.tla`**: chooses a dimension `1..MaxDims` and two vectors. In
  one step it computes the distance in every build: for each of the 8 sets
  of predefined macros, the path that `KernelLanes` compiles.
- **`BruteForceIndex.tla`**: part C.
  - Variables are `data` and `num_vectors`, plus the history variable
    `lastCall` (the operation and how it ended: `ok` or `DimensionMismatch`).
  - Each of `add`, `add_batch`, `search` and `clear` is one action, with the
    code's checks and throws.
  - `search(q, k)` is the set of every result that `std::partial_sort`'s
    contract allows. The contract fixes the k smallest under the comparator;
    the order of entries it cannot tell apart is unspecified.
- **`HNSWIndex.tla`**: part D.
  - Variables are `data`, `nodes` (`nodes[i+1][l+1]` is node i's list at
    layer l), `num_vectors`, `entry_point`, `max_layer`, `ef_search` and
    `rng`.
  - `rng` counts the draws made from `rng_`. The constant-per-behaviour
    `stream` gives the level that each draw produces; Init chooses any
    stream over `0..MaxLevel`.
  - `level` is a ghost variable: the level drawn for each node.
  - Each public method is one action. Its body is computed by operators that
    follow the code line by line: `search_layer` (the heaps are sorted
    sequences; ties break by id, one legal order of `std::priority_queue`),
    `Descend`, `InsertLayers`, `Link`, `prune_connections`, `Promote`, `add`
    and `add_batch` (recursive; stops at the first throw).
  - `search` is evaluated for every query and k by an invariant instead of
    being stored in the state.
  - `AddNodeThrows(v)` is a fault action, enabled only when the constant
    `AllocFails` is TRUE. `add` throws at `nodes_.emplace_back`, after the
    level has been drawn and the vector appended. Only hnsw_wide and
    hnsw_alloc_fault set `AllocFails = TRUE`.
  - The distances come from the constant `PointDist`, a table over
    `Points × Points`.
- **`HNSWSearchLayer.tla`**: `search_layer` and its helpers (`DistQ`,
  `HeapPush`, `VisitNeighbor`, `SeedHeaps`, `VisitAll`, `SearchLoop`,
  `HeapToVector`). They are operators over a graph record. HNSWIndex extends
  this module and evaluates them inside its atomic calls.
- **`HNSWSearchSteps.tla`**: the same loop, one action per step.
  - `Pop`: `candidates.top()`, `pop()`, and the break test.
  - `Exhausted`: the while condition fails.
  - `Visit`: one iteration of the neighbour loop, using `VisitNeighbor`.
  - `ScanDone`: the end of the neighbour list.
  - `Convert`: W is drained and reversed into the result.
  - Init chooses a layer-0 graph over the arena, a query, an entry and ef,
    and seeds the heaps as the code does. The graph is any graph that
    `WellFormedAdjacency` allows: no self-loops and no duplicate edges.
- **`MCHNSWSearchSteps.tla`**: three stored vectors on a line, and queries
  that order them 0, 1, 2 and 2, 1, 0, and one with a tie.
- **`MCHNSWIndex.tla`**: the points, the batches, and two VIEWs.
  - `GraphView` omits `lastCall`.
  - `GraphShapeView` also omits `ef_search`. It is used only for hnsw_wide,
    whose invariants are about the graph. Only search reads `ef_search`.
  - It fills `PointDist` from `Distance!L2DistanceSimd` with 8 lanes (the
    AVX2 build). The table is a constant so that the kernel is evaluated once.
    Every lane width gives the same distances, which the distance run checks.

## Runs

| Run | Config | Expect | What it shows |
|---|---|---|---|
| distance | `MCDistance.cfg` | pass | `KernelMatchesReference`: in each of the 8 builds, the compiled path gives the exact distance for all 0/1 vectors of 1 to 9 dimensions. This covers every tail length for widths 4 and 8. |
| cosine | `MCCosine.cfg` | pass | `CosineMatchesReference`: every lane width gives the exact dot product and norms, and NaN exactly for a zero vector, for all 0/1 vectors of 1 to 9 dimensions. |
| hnsw | `MCHNSWIndex.cfg` | pass | See the invariant list below. |
| hnsw_search_steps | `MCHNSWSearchSteps.cfg` | pass | The stepwise `search_layer` loop, on all 125 layer-0 graphs over three vectors, every entry, three queries and ef ∈ 0..3. See the list below. |
| hnsw_wide | `MCHNSWIndexWide.cfg` | pass | `WellFormedAdjacency`, `EntryPointIsTop` and `DegreeBound` with M = 2 (caps 4 and 2) and levels 0..2: two-layer descents, linking on three layers, and promotion across two levels. `AllocFails = TRUE`, so adds that throw midway are interleaved with the others: the graph stays well formed even when the arena runs ahead of it. |
| hnsw_refines | `MCHNSWIndexRefines.cfg` | pass | `ImplementsVectorStore`: HNSW refines `VectorStore` with `AllOrNothing = FALSE`. Ids stay contiguous, stored vectors never move, and clear empties the store. |
| hnsw_repro | `MCHNSWIndexRepro.cfg` | violation | `ReproducibleAfterClear`: `clear()` does not re-seed `rng_`. |
| hnsw_batch | `MCHNSWIndexBatch.cfg` | violation | `BatchAtomic`: a failing HNSW `add_batch` keeps the vectors before the bad one. |
| brute | `MCBruteForceIndex.cfg` | pass | `TypeOK`, `ExactTopK` (every order partial_sort may leave is the exact top-k), and `ImplementsVectorStore` (the index refines `VectorStore` with `AllOrNothing = TRUE`, so a failing batch changes nothing). |
| hnsw_alloc_fault | `MCHNSWIndexAllocFault.cfg` | violation | `ImplementsVectorStore`, with `AllocFails = TRUE`. An add that throws after `data_.insert` leaves an orphan row, and the next insert stores the wrong vector under its id. |
| brute_ties | `MCBruteForceIndexTies.cfg` | violation | `TiesByAscendingId`: equal distances may come back in descending id order. |

The hnsw run checks these invariants:

- `ArenaMatchesGraph`: the arena, the nodes and the count agree.
- `WellFormedAdjacency`: no self-loops and no duplicate edges; edges go to
  stored ids; no edge sits above either end's level.
- `EntryPointIsTop`: the entry point is on the top layer.
- `DegreeBound`: no list is over `2M` at layer 0 or over `M` above it.
- `SearchResultSound`: every result has at most k entries; they are distinct
  stored ids with their true distances, in ascending order; the result is
  non-empty whenever k > 0.
- `GreedyLocalMinimum`: no layer-0 neighbour of the first search result is
  closer to the query than that result. search_layer stops only when its
  closest unexpanded candidate is further than the furthest node in W, so the
  best node it returns has been expanded. A break on equal distances fails
  this property.

The hnsw_search_steps run checks these properties:

- `TypeOK`: every heap entry is a visited node, with its true distance.
- `WKeepsNearestVisited`: W is never empty. Every visited node outside W
  is at least as far as everything in W. This depends on W being a max-heap:
  with the candidate heap's comparator, `W.pop()` drops the nearest.
- `EfZeroActsAsOne`: with ef = 0 the call returns exactly what it returns
  with ef = 1. So `set_ef(0)` and `ef_construction = 0` are harmless,
  although the spec requires ef ≥ 1 (finding 5).
- `Terminates`: `<>(result # <<>>)`, under weak fairness: the call
  returns.

Each property of a passing run has a mutant in `PROJECT.json`. A mutant is a
fault variant of a mapped definition, defined just before it, and TLC finds
the property violated when it replaces the original.

### Bounds

- Kernel: dimensions 1..9 and values {0, 1}, about 700k states.
  - 9 is the smallest dimension that reaches every tail length for width 8,
    and a full SIMD block plus a tail for width 4.
- HNSW: four 2-D points, chosen so that prunes happen. From each point the
  other three are at distinct distances, so no outcome depends on a tie.
  - M=1, so the caps are 2 at layer 0 and 1 above it. Four inserts overflow
    both caps and trigger `prune_connections`.
  - Levels 0..1, so the descent and the promotion both happen.
  - `ef_construction=2`, and `ef_search` ∈ {100, 0, 1}. 100 is the
    constructor's value; 0 is accepted by `set_ef` although the spec says it
    is rejected.
  - k ∈ {0, 1, 2}. Three batches: one good, one failing after a good vector,
    and one failing at once.
  - About 22k distinct states.
- search_layer steps: three vectors and all 125 well-formed layer-0 graphs
  over them. The queries `<<0,0>>` and `<<4,0>>` order the
  vectors in opposite ways; `<<2,0>>` is at distance 1 from two of them.
  ef ∈ {0, 1, 2, 3}: 0 and 1 are the two small cases, 2 makes W fill and
  evict, and 3 never fills. About 40k states. Three nodes are enough for a
  cycle, a dead end and a candidate that breaks the loop.
- hnsw_wide: M = 2 and levels 0..2, with the same four inserts and adds that
  throw, about 316k states in about a minute. The upper-layer cap of 2 overflows when three of the four nodes
  share a layer, which checks that the two caps are not swapped. The search
  invariants are left to the hnsw run, whose smaller graph keeps them within
  the time bound. Five inserts with M = 2 exceed it: more than 750k states
  after 15 minutes.
- Refinement runs: the same constants without the VIEW, because the
  abstract spec reads `lastCall`. HNSW then has about 125k states.
- Cosine: the same bounds as the L2 kernel. {0, 1} includes the zero
  vector, so the NaN branch is reached.
- Brute force: three points, at most 4 vectors, k ∈ {0, 1, 2, 4}. 4 exceeds
  the count, which exercises the clamp.

### Fairness and liveness

The index specs assume no fairness. Each method is one synchronous call,
and nothing outside a call must eventually happen. The HNSW and brute-force
runs check deadlock, because `search` and `clear` are always enabled.

Inside a call, the loop of `search_layer` runs on the caller's thread and
never blocks or waits. So every step that is enabled is eventually taken,
and HNSWSearchSteps assumes `WF_vars(Next)`. Under that fairness, the run
checks that the loop ends (`Terminates`). A loop that reads
`candidates.top()` without popping it fails this check. After the call
returns, no step is enabled, so these runs disable the deadlock check, as
the kernel harnesses do.

## Findings

1. HNSW `add_batch` is not atomic (`hnsw_index.cpp:297`). The spec (§7, §8.9)
   says it is.
2. HNSW `clear()` does not re-seed the RNG (`hnsw_index.cpp:356`). The spec
   (§4.D, §8.7) says it does.
3. Brute-force ties are not broken by id (`vector_ops.cpp:295`). Spec §8.3
   says they are.
4. An add that throws midway corrupts the index (`hnsw_index.cpp:204-207`).
   `add` appends the vector to `data_` before `nodes_.emplace_back`. If
   constructing the node throws, `data_` keeps a row that `num_vectors_`
   does not count. Two things make it throw: `std::bad_alloc`, and
   `length_error` when `r = 0.0` gives level INT_MAX on ARM. In the
   counterexample, `add(<<0,0>>)` fails, then `add_batch(<<0,2>>, <<3,0>>)`
   succeeds. Ids 0 and 1 then hold `<<0,0>>` and `<<0,2>>`, so search
   returns the vector whose add failed, and `<<3,0>>` is lost. The
   brute-force index has no such gap: its inserts append at the end of a
   vector, which leaves the vector unchanged if it throws.
5. `set_ef` and the constructor accept ef = 0 (`hnsw_index.cpp:367`). Spec
   §4.D.2 says ef ≥ 1 always, and §7 says `set_ef` rejects values below 1.
   `EfZeroActsAsOne` shows the divergence is harmless: ef = 0 behaves as
   ef = 1.

## Not modelled

- Floating-point rounding, NaN and infinity. Distances are exact integers.
- `r = 0.0` in `get_random_level`, where the cast of infinity is undefined
  behaviour. ARM's saturating cast gives INT_MAX; the node constructor
  then throws, and this is the fault `AddNodeThrows` models. The x86 cast
  gives INT_MIN. A first node then sets `max_layer_` to INT_MIN, and any
  other node makes the descent index `neighbors[-1]`. The model does not
  follow that out-of-bounds read.
- `M = 0` has no run of its own. The constructor accepts it
  (`hnsw_index.cpp:102`), and the model's ASSUME allows it. `M_max_` is then 0,
  so `add` links nothing, and `ml_ = 1 / log(0) = -0.0` makes every level 0.
  The spec bounds ef but gives M no lower bound.
- `max_elements`: it is a reservation hint only.
- Allocation failure elsewhere than at `nodes_.emplace_back`:
  - in `reserve`, or in the brute-force `data_.insert`, nothing changes;
  - in a linking `push_back` (`hnsw_index.cpp:242-243`), this is not
    modelled. Earlier links of the same add have already put `new_id` into
    neighbours' lists, and `num_vectors_` is not incremented. The next add
    reuses `new_id` and links through the half-linked `nodes_[new_id]`,
    whose neighbour vector is sized by the failed add's level. A higher new
    level writes beyond it, which is undefined behaviour. `AddNodeThrows`
    models only the throw before any link.
- Global connectivity of the graph. One-sided pruning
  (`hnsw_index.cpp:247`) can leave a stored vector unreachable from the
  entry point, and the spec (§4.D.4, §9) accepts this. It promises
  connectivity only statistically, so no property states it.
- Part E, the bindings. `__simd__` is set by an `#if` chain identical to the
  kernels' chain in the same translation unit (`bindings.cpp` includes
  `vector_ops.cpp`), so it names the compiled path by construction. The
  `.def` entries are glue. Each `.def` forwards to one method with
  pybind11's conversions. The GIL is held for the whole call, so calls
  never overlap. The default `k = 10` is only one more value of k; `Ks`
  already includes a k above the number of stored vectors.

## Plan for later work

- A search contract in the abstract specification. It would need the
  result in the state, which multiplies the HNSW state space.
- A larger HNSW configuration than hnsw_wide, with five or more inserts, is
  beyond the run time limit.
- `search_layer` at upper layers, and the descent, step by step. The loop is
  the same as at layer 0, so the step model fixes layer 0.
