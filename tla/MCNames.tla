------------------------------- MODULE MCNames -------------------------------
(***************************************************************************)
(* Small instances of the table of names.                                  *)
(***************************************************************************)
EXTENDS NameFile, NameTableInvariant, TLC

CONSTANTS t1, t2, t3

\* "a", "b" and "d" have the same hash, "c" the next one; the empty string
\* shares a slot with "c" in a table of three types and not in one of four.
MCHash(key) == IF key = << >> THEN 7 ELSE IF key[1] = "c" THEN 1 ELSE 0

Create(name) == [op |-> "create", name |-> name]
Find(name) == [op |-> "lookup", name |-> name]

A == <<"a">>
B == <<"b">>
C == <<"c", "c">>
CLong == <<"c", "c", "x">>
D == <<"d", "d">>

Only1(calls) == [t \in Threads |-> IF t = t1 THEN calls ELSE << >>]
Three(x, y, z) == [t \in Threads |-> CASE t = t1 -> x [] t = t2 -> y [] t = t3 -> z]

\* Three threads and three names in one chain of slots; C is also given with a
\* tail that the table cuts off.  The threads are alike: each choice of three
\* programs is taken in one order.
Programs ==
  <<<<Create(A), Find(B)>>, <<Create(B), Create(A)>>, <<Create(C), Find(A)>>,
    <<Create(CLong)>>, <<Create(D)>>>>
RaceCalls ==
  {Three(Programs[i], Programs[j], Programs[k]) :
     <<i, j, k>> \in {x \in (1 .. 5) \X (1 .. 5) \X (1 .. 5) : x[1] <= x[2] /\ x[2] <= x[3]}}

\* One thread, every order of names around the limit, or two threads that
\* create the same names in the same order.
SequentialCalls ==
  {Only1(<<Create(w), Create(x), Find(y), Create(z), Create(y)>>) :
     w, x, y, z \in {A, B, <<"c">>, <<"d">>}}
  \cup {Three(<<Create(A), Create(x), Find(A), Create(y)>>,
               <<Create(A), Create(x), Find(A), Create(y)>>, << >>) : x, y \in {A, <<"c">>}}

MCCalls == RaceCalls \cup SequentialCalls

\* Two threads, two names with one hash.
CollidingCalls == {Three(<<Create(A)>>, <<Create(B)>>, << >>)}
=============================================================================
