-------------------------------- MODULE MCMon --------------------------------
(***************************************************************************)
(* Two monitors, and a third process that takes the name of the first.     *)
(***************************************************************************)
EXTENDS MonServer

CONSTANTS m1, m2, again

MCName == [m \in Mons |-> IF m = m2 THEN "m2" ELSE "m1"]

\* Both monitors may die; or the first dies, or not, and is replaced.
MCCasts == {[present |-> {m1, m2}, crashing |-> {m1, m2}, batches |-> 3],
            [present |-> {m1, m2, again}, crashing |-> {m1}, batches |-> 1],
            [present |-> {m1, again}, crashing |-> {m1}, batches |-> 2]}
=============================================================================
