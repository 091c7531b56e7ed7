------------------------------- MODULE NameMap -------------------------------
(***************************************************************************)
(* What a table of names promises: a one-to-one map from names to types    *)
(* that only grows.  A call that is answered with a type is answered       *)
(* according to the map, and a lookup fails only while the name is not in  *)
(* it.                                                                     *)
(***************************************************************************)
EXTENDS Integers, Sequences

CONSTANTS Threads, Names, Types, Operations

VARIABLES map,      \* a set of pairs of a name and its type
          answers   \* per thread: the answers to its calls so far

Answer == [op : Operations, name : Names, status : {-1, 0, 1}, out : Types \cup {-1}]

Init ==
  /\ map = {}
  /\ answers = [t \in Threads |-> << >>]

Assign(name, type) ==
  /\ \A p \in map : p[1] # name /\ p[2] # type
  /\ map' = map \cup {<<name, type>>}
  /\ UNCHANGED answers

Reply(t, a) ==
  /\ a.status >= 0 => <<a.name, a.out>> \in map
  /\ a.status < 0 => \A p \in map : p[1] # a.name
  /\ answers' = [answers EXCEPT ![t] = Append(@, a)]
  /\ UNCHANGED map

Next ==
  \/ \E name \in Names, type \in Types : Assign(name, type)
  \/ \E t \in Threads, a \in Answer : Reply(t, a)

Spec == Init /\ [][Next]_<<map, answers>>
=============================================================================
