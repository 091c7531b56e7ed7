--------------------------- MODULE EdgeConsistency ---------------------------
(***************************************************************************)
(* What the store looks like when no thread is inside an update: the       *)
(* metadata that stinger_consistency_check (stinger.c) examines, the edge  *)
(* type arrays and the weights.                                            *)
(***************************************************************************)
EXTENDS EdgeRefinement, FiniteSets, FiniteSetsExt

\* The blocks reached by following the pointers from location l.
Chain[l \in Locations] ==
  IF ptr[l] = 0 THEN {} ELSE {ptr[l]} \cup Chain[ptr[l]]

BlocksOf(v) == Chain[Head0(v)]

\* The used slots of block b, and those of them that carry direction d.
Used(b) == {k \in Index : k < high[b] /\ neighbor[<<b, k>>].to >= 0}
UsedIn(b, d) == {k \in Used(b) : d \in neighbor[<<b, k>>].dir}

SlotsOf(v) == {<<b, k>> \in BlocksOf(v) \X Index : k \in Used(b)}
SlotsIn(v, d) == {s \in SlotsOf(v) : d \in neighbor[s].dir}

AllBlocks == UNION {BlocksOf(v) : v \in Vertices}
AllSlots == UNION {SlotsOf(v) : v \in Vertices}

\* The timestamps that the check compares with a block's two stamps.
Stamps(b) == UNION {{timeFirst[<<b, k>>], timeRecent[<<b, k>>]} : k \in UsedIn(b, DirOut)}

\* The slots anywhere in the graph that name v, and those with direction d.
PointingAt(v) == {s \in AllSlots : neighbor[s].to = v}
PointingAtIn(v, d) == {s \in PointingAt(v) : d \in neighbor[s].dir}

\* The bits stinger_consistency_check would set, by name.
ConsistencyCheck ==
  {bit \in {"vertexID", "high", "numEdges", "largeStamp", "smallStamp", "aboveHigh",
            "outDegree", "inDegree", "degree", "inOut", "outIn", "adjDegree"} :
     CASE bit = "vertexID" -> \E v \in Vertices : \E b \in BlocksOf(v) : blk[b].vertexID # v
       [] bit = "high" -> \E b \in AllBlocks : high[b] > EdgeBlockSize
       [] bit = "numEdges" -> \E b \in AllBlocks :
            Used(b) # {} /\ numEdges[b] # Cardinality(Used(b))
       [] bit = "largeStamp" -> \E b \in AllBlocks : \E s \in Stamps(b) : s > stamps[b].large
       [] bit = "smallStamp" -> \E b \in AllBlocks : \E s \in Stamps(b) : s < stamps[b].small
       [] bit = "aboveHigh" -> \E b \in AllBlocks : \E k \in Index :
            /\ k >= high[b]
            /\ neighbor[<<b, k>>].to >= 0
            /\ {neighbor[<<b, k>>].to, weight[<<b, k>>], timeFirst[<<b, k>>],
                timeRecent[<<b, k>>]} # {0}
       [] bit = "outDegree" -> \E v \in Vertices : vtx[v].outDegree # Cardinality(SlotsIn(v, DirOut))
       [] bit = "inDegree" -> \E v \in Vertices : vtx[v].inDegree # Cardinality(SlotsIn(v, DirIn))
       [] bit = "degree" -> \E v \in Vertices : vtx[v].degree # Cardinality(SlotsOf(v))
       [] bit = "inOut" -> \E v \in Vertices : vtx[v].inDegree # Cardinality(PointingAtIn(v, DirOut))
       [] bit = "outIn" -> \E v \in Vertices : vtx[v].outDegree # Cardinality(PointingAtIn(v, DirIn))
       [] bit = "adjDegree" -> \E v \in Vertices :
            vtx[v].degree # Cardinality(PointingAt(v))}

StampBits == {"largeStamp", "smallStamp"}

\* The places of the edge type array of e that hold block b.
EtaPlaces(e, b) == {i \in 0 .. etaHigh[e] - 1 : etaBlocks[<<e, i>>] = b}

\* Phase 3 of stinger_update_directed_edge loses no block: when all calls have
\* returned, every block taken from the pool is linked into the list of its
\* vertex and stands exactly once in the array of its edge type.
EveryBlockLinked ==
  Quiescent => \A b \in 1 .. tail - 1 :
                 /\ b \in BlocksOf(blk[b].vertexID)
                 /\ Cardinality(EtaPlaces(blk[b].etype, b)) = 1

\* The OUT calls of all threads for one edge.
OutCalls(type, from, to) ==
  {<<t, i>> \in Threads \X (1 .. 4) :
     /\ i <= Len(work[t])
     /\ LET c == work[t][i] IN
        c.direction = DirOut /\ c.type = type /\ c.from = from /\ c.to = to}

\* stinger_incr_edge: the weight of an edge ends as the sum of the increments,
\* whatever the threads' order: the first of them sets the weight of a new slot
\* and none of the others is overwritten.
WeightIsSumOfIncrements ==
  Quiescent => \A s \in AllSlots :
    LET b == blk[s[1]]
        calls == OutCalls(b.etype, b.vertexID, neighbor[s].to)
    IN /\ DirOut \in neighbor[s].dir <=> calls # {}
       /\ weight[s] = MapThenSumSet(LAMBDA c : work[c[1]][c[2]].weight, calls)
=============================================================================
