-------------------------------- MODULE MCAlg --------------------------------
(***************************************************************************)
(* An algorithm, one that depends on it, another process for the former,   *)
(* and an algorithm that depends on none.                                  *)
(***************************************************************************)
EXTENDS AlgServerInvariant

CONSTANTS base, above, other, side

Cast(present, restarting, crashing, batches) ==
  [present |-> present, restarting |-> restarting, crashing |-> crashing, batches |-> batches]

\* base and above, of which base may die; a second process for base, which takes its
\* name over when that is in error and is refused before; an above that leaves out
\* init until it is refused; and side, which drops the level of above if it comes
\* after it.
MCCasts ==
  {Cast({base, above}, {}, {base}, 2),
   Cast({base, other}, {}, {base}, 2),
   Cast({base, above}, {above}, {above}, 3),
   Cast({base, above, side}, {}, {}, 1)}

\* other is another process for base.
MCNames == {"base", "above", "side"}
MCNameOf == [c \in Clients |->
  CASE c \in {base, other} -> "base" [] c = above -> "above" [] c = side -> "side"]
MCDeps == [c \in Clients |-> IF c = above THEN <<"base">> ELSE << >>]
==============================================================================
