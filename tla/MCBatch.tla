------------------------------- MODULE MCBatch -------------------------------
(***************************************************************************)
(* Small batches for two threads: four updates in the list of one vertex,  *)
(* so that its range is split; both halves and both types of a list;       *)
(* strings, deletions and vertex updates.                                  *)
(***************************************************************************)
EXTENDS ProcessBatch

CONSTANTS t1, t2

MCLowerCase ==
  [s \in {"", "a", "A", "b", "B", "c"} |-> CASE s = "A" -> "a" [] s = "B" -> "b" [] OTHER -> s]

Ins(from, to, w, ts) ==
  [type |-> 0, typeStr |-> "", from |-> from, to |-> to, weight |-> w, ts |-> ts]
N(from, to, w, ts) == Ins(Numbered(from), Numbered(to), w, ts)
Del(from, to) == [type |-> 0, from |-> from, to |-> to]
VUp(v, typeStr, set, incr) ==
  [vertex |-> v, type |-> Absent, typeStr |-> typeStr, set |-> set, incr |-> incr]

Batch(type, undirected, insertions, deletions, vertices) ==
  [type |-> type, undirected |-> undirected, insertions |-> insertions,
   deletions |-> deletions, vertices |-> vertices]
Mixed(insertions, deletions) == Batch("MIXED", FALSE, insertions, deletions, << >>)

\* The list of vertex 0 gets a range of four updates, which is split within the
\* updates for neighbor 1; its second block is needed by both ranges or by one.
SplitBatch == Mixed(<<N(0, 1, 1, 1), N(0, 1, 2, 2), N(0, 1, 3, 3), N(0, 2, 4, 1)>>, << >>)
ThreeBatch == Mixed(<<N(0, 1, 1, 1), N(0, 1, 2, 2), N(0, 2, 3, 3), N(0, 3, 4, 1)>>, << >>)

\* Edges of both halves, a loop and equal updates.
HalvesBatch == Mixed(<<N(1, 0, 1, 2), N(0, 1, 2, 1), N(1, 0, 2, 2), N(2, 2, 1, 1)>>,
                     <<Del(Numbered(0), Numbered(1)), Del(Numbered(1), Numbered(0)),
                       Del(Named("c"), Numbered(0))>>)

StringBatch ==
  Batch("STRINGS_ONLY", TRUE,
        <<[Ins(Named("A"), Named("b"), 1, 1) EXCEPT !.typeStr = "t"],
          Ins(Named("b"), Named("a"), 2, 1)>>,
        <<Del(Named("B"), Named("a")), Del(Named("a"), Named("c"))>>,
        <<VUp(Named("a"), "t", 2, 3), VUp(Named("b"), "x", Absent, 1)>>)

\* An insertion without a destination: the default 1 makes it an edge from 3 to 1.
FailedBatch == Mixed(<<N(0, 1, 1, 1), Ins(Numbered(3), Nobody, 7, 1), N(3, 0, 2, 1)>>, << >>)

NumbersBatch ==
  Batch("NUMBERS_ONLY", FALSE, <<N(0, 3, 1, 1)>>,
        <<Del(Numbered(0), Numbered(1)), Del(Numbered(2), Numbered(0))>>,
        <<VUp(Numbered(0), "", Absent, 1)>>)

\* Leaves one empty slot in the list of vertex 0.
OneBatch == Mixed(<<N(0, 3, 1, 2)>>, << >>)

\* Its second insertion, without a source, hides the third from find_updates.
HidingBatch == Mixed(<<N(0, 1, 1, 1), Ins(Nobody, Numbered(3), 5, 1), N(0, 3, 2, 2)>>, << >>)

\* The slot of an edge outlives it, for the edge back, and is used for it again.
OneWayBatch == Mixed(<<N(1, 0, 1, 2), N(0, 1, 2, 1)>>, <<Del(Numbered(0), Numbered(1))>>)
BackBatch == Mixed(<<N(0, 1, 4, 3)>>, << >>)

\* The last needs more blocks than there are.
MCBatches ==
  {<<SplitBatch, NumbersBatch>>, <<OneBatch, SplitBatch>>, <<HalvesBatch, StringBatch>>,
   <<FailedBatch, ThreeBatch>>, <<OneBatch, HidingBatch>>,
   <<OneWayBatch, BackBatch>>, <<HalvesBatch, ThreeBatch, StringBatch>>}

\* The source is missing: the default 0 makes it the edge of the other insertion.
MCFailedBatches ==
  {<<Mixed(<<N(0, 2, 1, 1), Ins(Nobody, Numbered(2), 5, 2)>>, << >>)>>}

MCNumbersBatches == {<<Batch("NUMBERS_ONLY", FALSE, <<N(0, 1, 1, 1)>>, << >>, << >>)>>}
=============================================================================
