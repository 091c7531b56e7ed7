---------------------------- MODULE MCEdgeInsert ----------------------------
(***************************************************************************)
(* Small instances of edge insertion.                                      *)
(***************************************************************************)
EXTENDS EdgeConsistency, EdgeInsertInvariant, TLC

CONSTANTS t1, t2, t3

MCThreads == {t1, t2, t3}

Update(type, from, to, w, ts, d) ==
  [type |-> type, from |-> from, to |-> to, weight |-> w, ts |-> ts,
   direction |-> d, operation |-> "incr"]

\* One call each, on the list of vertex 0: the same edge, its other direction,
\* edges to other neighbors, an edge of another type; and an edge of vertex 1,
\* for which the pool may have no block left.
OneVertexCalls ==
  {<<Update(0, 0, 1, 1, 1, DirOut)>>, <<Update(0, 0, 1, 2, 2, DirOut)>>,
   <<Update(0, 1, 0, 4, 1, DirIn)>>, <<Update(0, 0, 2, 1, 1, DirOut)>>,
   <<Update(0, 0, 0, 1, 1, DirOut)>>, <<Update(1, 0, 1, 1, 1, DirOut)>>,
   <<Update(0, 1, 2, 1, 1, DirOut)>>}

OneVertexWork == [MCThreads -> OneVertexCalls]

ThreadSymmetry == Permutations(MCThreads)
=============================================================================
