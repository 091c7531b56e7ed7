------------------------------ MODULE Adjacency ------------------------------
(***************************************************************************)
(* What concurrent insertion promises: a set of directed half-edges to     *)
(* which every call adds its own, in one step, some time before it         *)
(* returns.  No half-edge appears that no call asked for and none is lost. *)
(***************************************************************************)
EXTENDS Naturals, Sequences

CONSTANTS Threads, Work, HalfEdge(_)

VARIABLES adj,       \* the half-edges
          todo,      \* per thread: the calls it makes, in order
          returned   \* per thread: how many of them have returned

Current(t) == HalfEdge(todo[t][returned[t] + 1])

Init ==
  /\ adj = {}
  /\ todo \in Work
  /\ returned = [t \in Threads |-> 0]

Insert(t) ==
  /\ returned[t] < Len(todo[t])
  /\ adj' = adj \cup {Current(t)}
  /\ UNCHANGED <<todo, returned>>

Return(t) ==
  /\ returned[t] < Len(todo[t])
  /\ Current(t) \in adj
  /\ returned' = [returned EXCEPT ![t] = @ + 1]
  /\ UNCHANGED <<adj, todo>>

Next == \E t \in Threads : Insert(t) \/ Return(t)

Spec == Init /\ [][Next]_<<adj, todo, returned>>
=============================================================================
