--------------------------- MODULE EdgeRefinement ---------------------------
(***************************************************************************)
(* Insertion implements the abstract adjacency set.                        *)
(***************************************************************************)
EXTENDS EdgeInsert

HalfEdgeOf(c) ==
  IF c.direction = DirOut THEN <<c.from, c.type, c.to, DirOut>>
                          ELSE <<c.to, c.type, c.from, DirIn>>

HalfEdges == Vertices \X ETypes \X Vertices \X {DirOut, DirIn}

PublishedHalfEdges ==
  {h \in HalfEdges : \E b \in Blocks : \E k \in Index :
     /\ Published(b, k)
     /\ h[1] = blk[b].vertexID
     /\ h[2] = blk[b].etype
     /\ h[3] = neighbor[<<b, k>>].to
     /\ h[4] \in neighbor[<<b, k>>].dir}

Abstract == INSTANCE Adjacency WITH
              HalfEdge <- HalfEdgeOf,
              adj <- PublishedHalfEdges,
              todo <- work,
              returned <- [t \in Threads |-> Len(ret[t])]

\* A call of stinger_update_directed_edge has, at some instant before it
\* returns, added exactly its own direction of its own edge to what readers can
\* find, and no step of any thread does anything else to it.
ImplementsAdjacency == Abstract!Spec
=============================================================================
