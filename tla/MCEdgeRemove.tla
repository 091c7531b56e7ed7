---------------------------- MODULE MCEdgeRemove ----------------------------
(***************************************************************************)
(* Small instances of batches: insertions by two threads at once, and      *)
(* deletions that two threads race for.                                    *)
(***************************************************************************)
EXTENDS EdgeRemove, TLC

CONSTANTS t1, t2

Only1(calls) == [t \in Threads |-> IF t = t1 THEN calls ELSE << >>]

Remove(from, to) == [type |-> 0, from |-> from, to |-> to]

NoRemovals == [t \in Threads |-> << >>]

\* A graph with an edge and its reverse, so that a slot carries both
\* directions, and with two edges out of vertex 0; two threads race to remove
\* edges of it; a second batch inserts into the slots the first one freed.
Build ==
  Only1(InsertEdge(0, 0, 1, 1, 1, "incr") \o InsertEdge(0, 1, 0, 2, 1, "incr")
        \o InsertEdge(0, 0, 2, 1, 1, "incr"))

RaceRemovals ==
  [Threads -> {<<Remove(0, 1)>>, <<Remove(1, 0)>>, <<Remove(0, 2)>>, <<Remove(2, 0)>>,
               <<Remove(0, 1), Remove(1, 0)>>, <<Remove(1, 0), Remove(0, 1)>>}]

ReuseInsertions ==
  [t \in Threads |-> IF t = t1 THEN InsertEdge(0, 1, 0, 2, 2, "incr")
                               ELSE InsertEdge(0, 2, 0, 1, 2, "incr")]

ReuseBatches ==
  {<<Phased(Build, r), Phased(ReuseInsertions, [t \in Threads |-> <<q>>])>> :
     r \in RaceRemovals, q \in {Remove(1, 0), Remove(0, 2)}}

\* Two threads insert an edge and its reverse, the same edge or a loop, after
\* one of them has put the edge from v to 2 in place: after 1 -> 2 the third
\* neighbor of vertex 1 needs a second block.
PairEdges == {InsertEdge(0, 0, 1, 1, 2, "incr"), InsertEdge(0, 1, 0, 2, 3, "incr"),
              InsertEdge(0, 2, 1, 1, 4, "incr"), InsertEdge(0, 1, 1, 1, 1, "incr")}
PairBatches ==
  {<<Phased([t \in Threads |-> IF t = t1 THEN InsertEdge(0, v, 2, 1, 2, "incr") \o e ELSE f],
            NoRemovals)>> :
     v \in {0, 1}, e \in PairEdges, f \in PairEdges}

\* Insertions that run while a removal does.
MixedBatches ==
  {<<Unphased([t \in Threads |-> IF t = t1 THEN InsertEdge(0, 0, 1, 1, 1, "incr") ELSE f],
              Only1(<<r>>))>> :
     f \in {InsertEdge(0, 1, 0, 1, 2, "incr"), InsertEdge(0, 0, 1, 1, 3, "incr")},
     r \in {Remove(0, 1), Remove(1, 0)}}

MCBatches == ReuseBatches \cup PairBatches \cup MixedBatches

\* A vertex with an edge to itself.
LoopBatches == {<<Phased(Only1(InsertEdge(0, 1, 1, 1, 1, "incr")), Only1(<<Remove(1, 1)>>))>>}
=============================================================================
