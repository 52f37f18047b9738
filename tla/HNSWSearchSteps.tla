--------------------------- MODULE HNSWSearchSteps ---------------------------
(***************************************************************************)
(* The loop of HNSWIndex::search_layer (hnsw_index.cpp), one step per      *)
(* action: popping a candidate, visiting one neighbour, finishing a        *)
(* neighbour list, and converting W to the result.  The graph, the query,  *)
(* the entry and ef are chosen in Init among every well-formed layer-0     *)
(* graph over the arena Data (no self-loops, no duplicate edges, as the    *)
(* WellFormedAdjacency invariant of HNSWIndex guarantees) and stay fixed.  *)
(* The loop runs on the caller's thread and never blocks, so every step   *)
(* that is enabled is eventually taken: the spec is weakly fair.          *)
(***************************************************************************)
EXTENDS HNSWSearchLayer

CONSTANTS
  Data,      \* the arena: Data[id+1] is the vector of node id
  Queries,   \* query vectors
  EfArgs     \* values of ef (ef_construction_, 1 in the descent, max(ef_search_, k))

VARIABLES
  nodes,     \* nodes[id+1][1]: node id's neighbour list at layer 0
  q, entry, ef,
  C,         \* candidates, ascending (top is Head)
  W,         \* W, ascending (top is Last)
  visited,
  nb,        \* the neighbours of the popped candidate not yet visited
  pc,        \* "loop", "scan", "convert" or "done"
  result

vars == <<nodes, q, entry, ef, C, W, visited, nb, pc, result>>

Ids == 0..Len(Data) - 1

(* Neighbour lists of node i: distinct ids other than i.                   *)
Lists(i) == {l \in BoundedSeq(Ids \ {i}, Len(Data) - 1) : IsInjective(l)}

(* Every layer-0 graph over the arena: nodes[i+1] = <<list of node i>>.    *)
Graphs == {[i \in 1..Len(Data) |-> <<g[i]>>] :
             g \in {g \in [1..Len(Data) -> UNION {Lists(i) : i \in Ids}] :
                     \A i \in 1..Len(Data) : g[i] \in Lists(i - 1)}}

G == [data |-> Data, nodes |-> nodes]

Acc == [C |-> C, W |-> W, visited |-> visited]

(* The three heaps are seeded with the entry before the loop.              *)
Init ==
  /\ nodes \in Graphs
  /\ q \in Queries /\ entry \in Ids /\ ef \in EfArgs
  /\ LET h == SeedHeaps(G, q, entry)
     IN  C = h.C /\ W = h.W /\ visited = h.visited
  /\ nb = <<>> /\ pc = "loop" /\ result = <<>>

(* Fault variant: candidates.top() is read but never popped.              *)
Pop_noPop ==
  /\ pc = "loop" /\ C # <<>>
  /\ IF Head(C)[2] > Last(W)[2] THEN pc' = "convert" /\ UNCHANGED nb
     ELSE pc' = "scan" /\ nb' = nodes[Head(C)[1] + 1][1]
  /\ UNCHANGED <<nodes, q, entry, ef, C, W, visited, result>>

(* c = candidates.top(); candidates.pop(); break if c is further than     *)
(* W.top(), else start on c's neighbours.                                  *)
Pop ==
  /\ pc = "loop" /\ C # <<>>
  /\ C' = Tail(C)
  /\ IF Head(C)[2] > Last(W)[2] THEN pc' = "convert" /\ UNCHANGED nb
     ELSE pc' = "scan" /\ nb' = nodes[Head(C)[1] + 1][1]
  /\ UNCHANGED <<nodes, q, entry, ef, W, visited, result>>

(* while (!candidates.empty()) fails.                                     *)
Exhausted ==
  /\ pc = "loop" /\ C = <<>>
  /\ pc' = "convert"
  /\ UNCHANGED <<nodes, q, entry, ef, C, W, visited, nb, result>>

(* One iteration of the for loop over the neighbours.                     *)
Visit ==
  /\ pc = "scan" /\ nb # <<>>
  /\ LET acc == VisitNeighbor(G, q, ef, Acc, Head(nb))
     IN  C' = acc.C /\ W' = acc.W /\ visited' = acc.visited
  /\ nb' = Tail(nb)
  /\ UNCHANGED <<nodes, q, entry, ef, pc, result>>

(* The for loop ends; back to the while condition.                        *)
ScanDone ==
  /\ pc = "scan" /\ nb = <<>>
  /\ pc' = "loop"
  /\ UNCHANGED <<nodes, q, entry, ef, C, W, visited, nb, result>>

(* Pop W into results and reverse them; the call returns.                 *)
Convert ==
  /\ pc = "convert"
  /\ result' = HeapToVector(W) /\ pc' = "done"
  /\ UNCHANGED <<nodes, q, entry, ef, C, W, visited, nb>>

Next == Pop \/ Exhausted \/ Visit \/ ScanDone \/ Convert

Spec == Init /\ [][Next]_vars /\ WF_vars(Next)

-----------------------------------------------------------------------------
TypeOK ==
  /\ pc \in {"loop", "scan", "convert", "done"}
  /\ visited \subseteq Ids
  /\ \A x \in Range(C) \cup Range(W) : x[1] \in visited /\ x[2] = DistQ(G, q, x[1])

(* W holds the nearest nodes the loop has seen: every visited node left    *)
(* out of W (never pushed, or dropped by W.pop()) is at least as far from  *)
(* the query as everything in W, and W is never empty.  This is what makes *)
(* search_layer's answer the best of what it explored; it depends on W     *)
(* being a max-heap and on the "closer than W.top()" test.                *)
WKeepsNearestVisited ==
  /\ W # <<>>
  /\ \A v \in visited \ {x[1] : x \in Range(W)} :
       \A x \in Range(W) : DistQ(G, q, v) >= x[2]

(* set_ef does not reject 0 and the constructor takes any                 *)
(* ef_construction, although spec 4.D.2 and 7 say ef >= 1.  search_layer  *)
(* with ef = 0 still returns exactly what it returns with ef = 1: W is     *)
(* seeded with the entry, so it is never below 0 elements, and each push   *)
(* makes it overflow and drop its furthest element at once.                *)
EfZeroActsAsOne ==
  (ef = 0 /\ result # <<>>) => result = search_layer(G, q, entry, 1, 0)

(* The while loop of search_layer ends and the call returns: each         *)
(* iteration pops a candidate, and a node is pushed at most once because  *)
(* visited is set before the push, so the candidate heap runs dry or the  *)
(* break is taken.                                                         *)
Terminates == <>(result # <<>>)

=============================================================================
