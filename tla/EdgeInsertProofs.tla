------------------------- MODULE EdgeInsertProofs ---------------------------
(***************************************************************************)
(* Proof that concurrent insertion never gives a vertex two slots for one  *)
(* edge, for any number of threads, vertices, edge types and blocks and    *)
(* any block size: every step keeps the invariant of EdgeInsertInvariant.  *)
(* And with it, that concurrent insertion implements the abstract          *)
(* adjacency set.                                                          *)
(***************************************************************************)
EXTENDS EdgeInsertSteps, EdgeRefinement

\* The last step of update_edge_data_and_direction releases the weight.
LEMMA ReleaseWeightStep ==
  ASSUME InsertInvariant, ~aborted, NEW t \in Threads, ReleaseWeight(t)
  PROVE  InsertInvariant'
<1> USE DEF slotVars, blockVars, listVars, callVars, localVars, Goto
<1>1. TypeOK /\ ThreadOK(t) /\ Step(t) /\ pc \in [Threads -> Labels] /\ job[t] \in Jobs
  BY Zenon DEF InsertInvariant, Step, TypeOK
<1>2. /\ SameStore /\ ptr' = ptr /\ work' = work /\ cur' = cur /\ job' = job
      /\ timeFirst' = timeFirst /\ aborted' = aborted /\ pc[t] = "release"
  BY Zenon DEF ReleaseWeight, SameStore
<1>3. cur[t].k < high[cur[t].b]
  BY <1>1, <1>2, AtSlot, Zenon DEF SlotOK, UpdateLabels
<1>4. CASE job[t].then = "return"
  <2>1. pc'[t] = "call"
    BY <1>1, <1>4, Zenon DEF ReleaseWeight, Return
  <2>2. \A u \in Threads : u # t /\ HoldsSlot(u) => timeFirst'[At(u)] = MARKER
    BY <1>2, SlotLocks, Zenon
  <2> QED
    BY <1>1, <1>2, <2>1, <2>2, ReturnStep, Zenon
<1>5. CASE job[t].then # "return"
  <2>1. job[t].then \in {"put_back_return", "push"}
    BY <1>1, <1>5, Zenon DEF Jobs
  <2>2. pc'[t] = job[t].then /\ ret' = ret
    BY <1>1, <1>5, Zenon DEF ReleaseWeight
  <2>3. InFlight(t)' = InFlight(t)
    BY <1>2, <2>1, <2>2, Zenon DEF InFlight, UpdateLabels
  <2> QED
    BY <1>1, <1>2, <1>3, <2>1, <2>2, <2>3, UpdateStep, Zenon DEF UpdateLabels
<1> QED
  BY <1>4, <1>5, Zenon

\* A step at the end of a list: it writes the pointer at cur.loc alone.
LEMMA TailStep ==
  ASSUME InsertInvariant, ~aborted, ~aborted', NEW t \in Threads, Step(t), SameStore,
         pc[t] # "call", cur' = cur, timeFirst' = timeFirst,
         \A l \in Locations : l # cur[t].loc => ptr'[l] = ptr[l],
         ptr'[cur[t].loc] # MARKER =>
           /\ ptr'[cur[t].loc] \in {0} \cup Blocks
           /\ Follows(cur[t].loc, ptr'[cur[t].loc]),
         ptr[cur[t].loc] # MARKER \/ HoldsTail(t),
         ThreadOK(t)', ~InFlight(t)', ~HoldsSlot(t)',
         HoldsTail(t)' => ptr'[cur[t].loc] = MARKER
  PROVE  InsertInvariant'
<1>1. TypeOK /\ ListsOK /\ cur[t].loc \in Locations
  BY Zenon DEF InsertInvariant, TypeOK, Cursors
<1>2. /\ Grows
      /\ \A l \in Locations : Valid(l)' = Valid(l)
      /\ \A l \in Locations : \A p \in {0} \cup Blocks : Follows(l, p)' = Follows(l, p)
  BY <1>1, StoreKept, Zenon
<1>3. ListsOK'
  <2>1. ASSUME NEW l \in Locations, Valid(l), ptr'[l] # MARKER
        PROVE  Follows(l, ptr'[l]) /\ ptr'[l] \in {0} \cup Blocks
    <3>1. CASE l = cur[t].loc
      BY <2>1, <3>1, Zenon
    <3>2. CASE l # cur[t].loc
      BY <1>1, <2>1, <3>2, PointsInto, Zenon
    <3> QED
      BY <3>1, <3>2, Zenon
  <2>2. ASSUME NEW l \in Locations, Valid(l), NEW p \in {0} \cup Blocks, Follows(l, p)
        PROVE  Follows(l, p)'
    BY <1>2, <2>2, Zenon
  <2> QED
    BY <1>2, <2>1, <2>2, Zenon DEF ListsOK
<1>4. ASSUME NEW u \in Threads, u # t
      PROVE  /\ HoldsTail(u) => ptr'[cur[u].loc] = MARKER
             /\ HoldsSlot(u) => timeFirst'[At(u)] = MARKER
             /\ Exclusive(t, u)' /\ Exclusive(u, t)'
  <2>1. ThreadOK(u) /\ SameThread(u) /\ Exclusive(t, u) /\ Exclusive(u, t)
    BY <1>1, <1>4, OthersSame, Zenon DEF InsertInvariant
  <2>2. HoldsTail(u) => cur[u].loc \in Locations /\ ptr[cur[u].loc] = MARKER
    BY <1>1, <2>1, PendingTyped, Zenon
  <2>3. HoldsTail(u) => cur[u].loc # cur[t].loc
    BY <2>1, <2>2, Zenon DEF Exclusive
  <2>4. HoldsTail(u) => ptr'[cur[u].loc] = MARKER
    BY <2>2, <2>3, Zenon
  <2>5. HoldsSlot(u) => timeFirst'[At(u)] = MARKER
    BY SlotLocks, Zenon
  <2>6. Exclusive(t, u)' /\ Exclusive(u, t)'
    BY <1>1, <1>2, <2>1, <2>3, TypeStep, StayApart, Zenon DEF Exclusive
  <2> QED
    BY <2>4, <2>5, <2>6, Zenon
<1> QED
  BY <1>3, <1>4, QuietStep, Zenon
\* readfe on the list's last pointer, which nobody else holds.
LEMMA LockTailStep ==
  ASSUME InsertInvariant, ~aborted, NEW t \in Threads, LockTail(t)
  PROVE  InsertInvariant'
<1>1. /\ TypeOK /\ ListsOK /\ ThreadOK(t) /\ Step(t) /\ cur[t].loc \in Locations
      /\ pc[t] = "slot" /\ cur[t].b = 0 /\ ptr[cur[t].loc] # MARKER
  BY Zenon DEF InsertInvariant, LockTail, AfterTailLock, Step, TypeOK, Cursors
<1>2. /\ SameStore /\ work' = work /\ ret' = ret /\ cur' = cur /\ timeFirst' = timeFirst /\ aborted' = aborted
      /\ ptr' = [ptr EXCEPT ![cur[t].loc] = MARKER]
  BY Zenon DEF LockTail, AfterTailLock, SameStore, slotVars, blockVars, callVars
<1>3. /\ saved'[t] = ptr[cur[t].loc]
      /\ pc'[t] = IF ptr[cur[t].loc] = 0 THEN "new_eb" ELSE "tail_taken"
  BY <1>1, Zenon DEF LockTail, AfterTailLock, Goto, TypeOK
<1>4. ptr'[cur[t].loc] = MARKER /\ \A l \in Locations : l # cur[t].loc => ptr'[l] = ptr[l]
  BY <1>1, <1>2, Zenon DEF TypeOK
<1>5. CursorOK(t)' /\ Valid(cur[t].loc)
  BY <1>1, <1>2, StaysAt, Zenon DEF ThreadOK, CursorOK
<1>6. NoneUpTo(t, cur[t].loc)'
  <2>1. NoneUpTo(t, cur[t].loc)
    BY <1>1, Zenon DEF ThreadOK, ScanOK
  <2> QED
    BY <1>1, <1>2, <2>1, KnowledgeKept, Zenon
<1>7. Follows(cur[t].loc, Pending(t))'
  <2>1. Follows(cur[t].loc, ptr[cur[t].loc]) /\ ptr[cur[t].loc] \in {0} \cup Blocks
    BY <1>1, <1>5, PointsInto, Zenon
  <2>2. Pending(t)' = ptr[cur[t].loc]
    BY <1>3, Zenon DEF Pending
  <2>3. \A l \in Locations : \A p \in {0} \cup Blocks : Follows(l, p)' = Follows(l, p)
    BY <1>1, <1>2, StoreKept, Zenon
  <2>4. ASSUME NEW l \in Locations, NEW p \in {0} \cup Blocks, l = cur[t].loc, p = ptr[cur[t].loc]
        PROVE  Follows(l, p)'
    BY <2>1, <2>3, <2>4, Zenon
  <2> QED
    BY <1>1, <1>2, <2>1, <2>2, <2>4, Zenon
<1>8. ScanOK(t)' /\ SlotOK(t)' /\ ~InFlight(t)' /\ ~HoldsSlot(t)'
  BY <1>1, <1>2, <1>3, <1>6, Zenon DEF ScanOK, SlotOK, InFlight, HoldsSlot, Filling, UpdateLabels
<1>9. LocksOK(t)'
  BY <1>2, <1>4, <1>7, <1>8, Zenon DEF LocksOK
<1>10. ThreadOK(t)'
  BY <1>5, <1>8, <1>9, Zenon DEF ThreadOK
<1> QED
  BY <1>1, <1>2, <1>4, <1>8, <1>10, TailStep, Zenon

\* Another thread has linked a block meanwhile: the pointer is put back.
LEMMA TailTakenStep ==
  ASSUME InsertInvariant, ~aborted, NEW t \in Threads, TailTaken(t)
  PROVE  InsertInvariant'
<1>1. TypeOK /\ ThreadOK(t) /\ Step(t) /\ pc[t] = "tail_taken" /\ cur[t].loc \in Locations
  BY Zenon DEF InsertInvariant, TailTaken, Step, TypeOK, Cursors
<1>2. /\ SameStore /\ work' = work /\ ret' = ret /\ cur' = cur /\ timeFirst' = timeFirst /\ aborted' = aborted
      /\ ptr' = [ptr EXCEPT ![cur[t].loc] = saved[t]]
  BY Zenon DEF TailTaken, SameStore, slotVars, blockVars, callVars, localVars
<1>3. pc'[t] = "relook"
  BY <1>1, Zenon DEF TailTaken, Goto, TypeOK
<1>4. ptr'[cur[t].loc] = saved[t] /\ \A l \in Locations : l # cur[t].loc => ptr'[l] = ptr[l]
  BY <1>1, <1>2, Zenon DEF TypeOK
<1>5. HoldsTail(t) /\ Pending(t) = saved[t]
  BY <1>1, Zenon DEF HoldsTail, Pending
<1>6. saved[t] \in {0} \cup Blocks /\ Follows(cur[t].loc, saved[t])
  BY <1>1, <1>5, PendingTyped, Zenon
<1>7. CursorOK(t)'
  BY <1>1, <1>2, StaysAt, Zenon
<1>8. NoneUpTo(t, cur[t].loc)'
  <2>1. NoneUpTo(t, cur[t].loc)
    BY <1>1, Zenon DEF ThreadOK, ScanOK
  <2> QED
    BY <1>1, <1>2, <2>1, KnowledgeKept, Zenon
<1>9. ScanOK(t)' /\ SlotOK(t)' /\ LocksOK(t)' /\ ~HoldsTail(t)' /\ ~InFlight(t)' /\ ~HoldsSlot(t)'
  BY <1>3, <1>8, Zenon DEF ScanOK, SlotOK, LocksOK, HoldsTail, InFlight, HoldsSlot, Filling, UpdateLabels
<1>10. ThreadOK(t)'
  BY <1>7, <1>9, Zenon DEF ThreadOK
<1> QED
  BY <1>1, <1>2, <1>4, <1>5, <1>6, <1>9, <1>10, TailStep, Zenon

\* writeef on the list's last pointer links the new block.
LEMMA LinkStep ==
  ASSUME InsertInvariant, ~aborted, NEW t \in Threads, Link(t)
  PROVE  InsertInvariant'
<1>1. TypeOK /\ ThreadOK(t) /\ Step(t) /\ pc[t] = "link" /\ cur[t].loc \in Locations
  BY Zenon DEF InsertInvariant, Link, Step, TypeOK, Cursors
<1>2. /\ SameStore /\ cur' = cur /\ timeFirst' = timeFirst /\ aborted' = aborted
      /\ ptr' = [ptr EXCEPT ![cur[t].loc] = cur[t].b]
  BY Zenon DEF Link, SameStore, slotVars, blockVars, localVars
<1>3. pc'[t] = "call"
  BY <1>1, Zenon DEF Link, Return, Goto, TypeOK
<1>4. ptr'[cur[t].loc] = cur[t].b /\ \A l \in Locations : l # cur[t].loc => ptr'[l] = ptr[l]
  BY <1>1, <1>2, Zenon DEF TypeOK
<1>5. HoldsTail(t) /\ Pending(t) = cur[t].b
  BY <1>1, Zenon DEF HoldsTail, Pending, InFlight
<1>6. cur[t].b \in {0} \cup Blocks /\ Follows(cur[t].loc, cur[t].b)
  BY <1>1, <1>5, PendingTyped, Zenon
<1>7. ThreadOK(t)' /\ ~HoldsTail(t)' /\ ~HoldsSlot(t)' /\ ~InFlight(t)'
  BY <1>3, Zenon DEF ThreadOK, HoldsTail, HoldsSlot, InFlight, Filling, UpdateLabels
<1> QED
  BY <1>1, <1>2, <1>4, <1>5, <1>6, <1>7, TailStep, Zenon

-----------------------------------------------------------------------------
(***************************************************************************)
(* Filling a slot.                                                         *)
(***************************************************************************)

\* A thread that fills a slot fills the first one that is free.
LEMMA FillsAtHigh ==
  ASSUME TypeOK, NEW t \in Threads, ThreadOK(t), Filling(t)
  PROVE  /\ cur[t].k = high[cur[t].b] /\ NoneBelow(t, cur[t].b, cur[t].k)
         /\ cur[t].b \in Alloc /\ cur[t].b \in Blocks /\ cur[t].k \in Index
         /\ cur[t].k < EdgeBlockSize /\ At(t) \in Slots
<1>1. pc[t] \in UpdateLabels /\ cur[t].k >= high[cur[t].b]
  BY Zenon DEF Filling, UpdateLabels
<1>2. /\ cur[t].b \in Alloc /\ cur[t].b \in Blocks /\ cur[t].k \in Index /\ cur[t].k \in Int
      /\ high[cur[t].b] \in 0 .. EdgeBlockSize /\ high[cur[t].b] \in Int /\ SlotOK(t)
      /\ cur[t].k < EdgeBlockSize /\ At(t) \in Slots
  BY <1>1, AtSlot, Zenon
<1>3. NoneBelow(t, cur[t].b, cur[t].k)
  BY <1>2, Zenon DEF SlotOK, NoneBefore
<1>4. ASSUME high[cur[t].b] < cur[t].k PROVE FALSE
  <2>1. high[cur[t].b] \in Index
    BY <1>2, <1>4, ConstantsAssumption DEF Index
  <2>2. high[cur[t].b] < high[cur[t].b]
    BY <1>3, <1>4, <2>1, Zenon DEF NoneBelow
  <2> QED
    BY <1>2, <2>2
<1>5. cur[t].k = high[cur[t].b]
  BY <1>1, <1>2, <1>4
<1> QED
  BY <1>2, <1>3, <1>5, Zenon

\* No two threads fill slots of one block.
LEMMA OneFiller ==
  ASSUME InsertInvariant, ~aborted, NEW t \in Threads, NEW u \in Threads, t # u,
         Filling(t), Filling(u)
  PROVE  cur[t].b # cur[u].b
<1>1. /\ TypeOK /\ ThreadOK(t) /\ ThreadOK(u) /\ Exclusive(t, u) /\ Exclusive(u, t)
      /\ pc[t] # "call" /\ pc[u] # "call"
  BY Zenon DEF InsertInvariant, Filling
<1>2. cur[t].k = high[cur[t].b] /\ cur[u].k = high[cur[u].b]
  BY <1>1, FillsAtHigh, Zenon
<1>3. CASE job[t].then = "push"
  BY <1>1, <1>3, Zenon DEF Exclusive, InFlight, Filling, UpdateLabels
<1>4. CASE job[u].then = "push"
  BY <1>1, <1>4, Zenon DEF Exclusive, InFlight, Filling, UpdateLabels
<1>5. CASE job[t].then # "push" /\ job[u].then # "push"
  BY <1>1, <1>2, <1>5, Zenon DEF Exclusive, HoldsSlot
<1> QED
  BY <1>3, <1>4, <1>5, Zenon

\* Writing the neighbor word.
LEMMA SetNeighborStep ==
  ASSUME InsertInvariant, ~aborted, NEW t \in Threads, SetNeighbor(t)
  PROVE  InsertInvariant'
<1> USE DEF slotVars, blockVars, listVars, callVars, localVars
<1>1. /\ TypeOK /\ ThreadOK(t) /\ Step(t) /\ ListsOK /\ FullPrefix /\ NoDuplicateEdge
      /\ pc[t] = "neighbor" /\ pc[t] \in UpdateLabels
  BY Zenon DEF InsertInvariant, SetNeighbor, NeighborWord, Step, UpdateLabels
<1>2. /\ tail' = tail /\ blk' = blk /\ high' = high /\ ptr' = ptr /\ timeFirst' = timeFirst
      /\ aborted' = aborted /\ work' = work /\ ret' = ret /\ cur' = cur /\ job' = job /\ saved' = saved
  BY Zenon DEF SetNeighbor, NeighborWord
<1>3. pc'[t] = "register"
  BY <1>1, Zenon DEF SetNeighbor, NeighborWord, Goto, TypeOK
<1>4. /\ cur[t].b \in Blocks /\ cur[t].b \in Alloc /\ cur[t].k \in Index /\ At(t) \in Slots
      /\ cur[t].k \in Int /\ high[cur[t].b] \in Int /\ CursorOK(t) /\ SlotOK(t) /\ LocksOK(t)
      /\ OfType(t) /\ cur[t].b # 0
  BY <1>1, AtSlot, Zenon
<1>5. Filling(t)
  <2>1. ~(neighbor[At(t)].to < 0)
    <3>1. neighbor[At(t)].to \in Vertices
      BY <1>1, <1>4, Zenon DEF TypeOK
    <3> QED
      BY <3>1, ConstantsAssumption DEF Vertices
  <2> QED
    BY <1>1, <2>1, Zenon DEF SetNeighbor, NeighborWord, IsNewEdge, Filling
<1>6. cur[t].k = high[cur[t].b] /\ NoneBelow(t, cur[t].b, cur[t].k)
  BY <1>1, <1>5, FillsAtHigh, Zenon
<1>7. neighbor'[At(t)].to = Dest(t) /\ \A s \in Slots : s # At(t) => neighbor'[s] = neighbor[s]
  BY <1>1, <1>4, Zenon DEF SetNeighbor, NeighborWord, TypeOK
<1>8. \A b \in Blocks : \A j \in Index : j < high[b] => neighbor'[<<b, j>>] = neighbor[<<b, j>>]
  <2>1. ASSUME NEW b \in Blocks, NEW j \in Index, j < high[b] PROVE <<b, j>> # At(t)
    BY <1>4, <1>6, <2>1 DEF At
  <2> QED
    BY <1>7, <2>1, Zenon DEF Slots
<1>9. Grows /\ Alloc' = Alloc
  <2>1. tail \in Int /\ \A b \in Blocks : high[b] \in Int
    BY <1>1 DEF TypeOK
  <2> QED
    BY <1>2, <1>8, <2>1 DEF Grows, Alloc
<1>10. NoDuplicateEdge'
  <2>1. \A b \in Blocks : \A j \in Index : Published(b, j)' => Published(b, j) /\ j < high[b]
    BY <1>2, <1>8, Zenon DEF Published
  <2> QED
    BY <1>1, <1>2, <1>8, <2>1 DEF NoDuplicateEdge
<1>11. FullPrefix'
  BY <1>1, <1>2, <1>9, Zenon DEF FullPrefix
<1>12. \A l \in Locations : \A p \in {0} \cup Blocks : Follows(l, p)' = Follows(l, p)
  BY <1>2, <1>9 DEF Follows, OwnerOf
<1>13. ListsOK'
  <2>1. ASSUME NEW l \in Locations, Valid(l), ptr[l] # MARKER
        PROVE  Follows(l, ptr[l])'
    BY <1>1, <1>2, <1>12, <2>1, PointsInto, Zenon
  <2> QED
    BY <1>2, <2>1, Zenon DEF ListsOK, Valid
<1>14. \A b \in Blocks : b >= tail' => high'[b] = 0
  BY <1>2, Zenon DEF InsertInvariant
<1>15. /\ HasCall(t)' = HasCall(t) /\ Call(t)' = Call(t) /\ Src(t)' = Src(t) /\ Dest(t)' = Dest(t)
       /\ At(t)' = At(t)
  BY <1>2, CallUnchanged, Zenon DEF At
<1>16. ThreadOK(t)'
  <2>1. CursorOK(t)' /\ OfType(t)'
    BY <1>2, <1>4, <1>9, <1>15, Zenon DEF CursorOK, OfType, Valid, OwnerOf
  <2>2. NoneBefore(t)'
    <3>1. ASSUME NEW c \in Alloc, FullWithout(t, c) PROVE FullWithout(t, c)'
      <4>1. \A j \in Index : j < high[c]
        BY <3>1, ConstantsAssumption DEF FullWithout, Index
      <4> QED
        BY <1>2, <1>8, <1>15, <3>1, <4>1, Zenon DEF FullWithout, Alloc
    <3>2. ASSUME NEW c \in Alloc PROVE Mine(t, c)' = Mine(t, c)
      BY <1>2, <1>15, Zenon DEF Mine
    <3>3. \A c \in Alloc : c < cur[t].b /\ Mine(t, c)' => FullWithout(t, c)'
      BY <1>6, <3>1, <3>2, Zenon DEF NoneBelow
    <3>4. \A j \in Index : j < cur[t].k =>
            j < high[cur[t].b] /\ neighbor'[<<cur[t].b, j>>].to # Dest(t)
      BY <1>4, <1>6, <1>8, Zenon DEF NoneBelow
    <3> QED
      BY <1>2, <1>9, <1>15, <3>3, <3>4, Zenon DEF NoneBefore, NoneBelow
  <2>3. ScanOK(t)'
    BY <1>3, Zenon DEF ScanOK
  <2>4. SlotOK(t)'
    BY <1>2, <1>3, <1>4, <1>5, <1>7, <1>15, <2>1, <2>2, Zenon DEF SlotOK, Filling
  <2>5. (HoldsTail(t)' => HoldsTail(t)) /\ (HoldsSlot(t)' => HoldsSlot(t)) /\ (HoldsTail(t) => Pending(t)' = Pending(t))
    BY <1>1, <1>2, <1>3, <1>5, Zenon DEF HoldsTail, HoldsSlot, InFlight, Pending, Filling, UpdateLabels
  <2>6. HoldsTail(t) => Follows(cur[t].loc, Pending(t))' /\ ptr[cur[t].loc] = MARKER
    <3>1. HoldsTail(t) => /\ cur[t].loc \in Locations /\ Pending(t) \in {0} \cup Blocks
                          /\ Follows(cur[t].loc, Pending(t)) /\ ptr[cur[t].loc] = MARKER
      BY <1>1, PendingTyped, Zenon
    <3> QED
      BY <1>2, <1>12, <2>5, <3>1, Zenon
  <2>7. LocksOK(t)'
    BY <1>2, <1>4, <1>15, <2>5, <2>6, Zenon DEF LocksOK
  <2> QED
    BY <2>1, <2>3, <2>4, <2>7, Zenon DEF ThreadOK
<1>17. ASSUME NEW u \in Threads, u # t
       PROVE  /\ Filling(u) => /\ high'[cur[u].b] = high[cur[u].b]
                               /\ neighbor'[At(u)].to = neighbor[At(u)].to
              /\ HoldsTail(u) => /\ ptr'[cur[u].loc] = MARKER
                                 /\ Follows(cur[u].loc, Pending(u))'
              /\ HoldsSlot(u) => timeFirst'[At(u)] = MARKER
              /\ Exclusive(t, u)' /\ Exclusive(u, t)'
  <2>1. ThreadOK(u) /\ SameThread(u) /\ Exclusive(t, u) /\ Exclusive(u, t)
    BY <1>1, <1>17, OthersSame, Zenon DEF InsertInvariant
  <2>2. Filling(u) => neighbor'[At(u)].to = neighbor[At(u)].to
    <3>1. Filling(u) => At(u) \in Slots /\ cur[u].b # cur[t].b
      BY <1>1, <1>5, <1>17, <2>1, FillsAtHigh, OneFiller, Zenon
    <3> QED
      BY <1>7, <3>1, Zenon DEF At
  <2>3. HoldsTail(u) => /\ cur[u].loc \in Locations /\ Pending(u) \in {0} \cup Blocks
                        /\ Follows(cur[u].loc, Pending(u)) /\ ptr[cur[u].loc] = MARKER
    BY <1>1, <2>1, PendingTyped, Zenon
  <2>4. HoldsTail(u) => Follows(cur[u].loc, Pending(u))'
    <3>1. Pending(u)' = Pending(u)
      BY <2>1, Zenon DEF SameThread, Pending
    <3> QED
      BY <1>2, <1>12, <2>3, <3>1, Zenon
  <2>5. HoldsSlot(u) => timeFirst'[At(u)] = MARKER
    BY <1>2, SlotLocks, Zenon
  <2>6. (HoldsTail(t)' => HoldsTail(t)) /\ (HoldsSlot(t)' => HoldsSlot(t)) /\ (InFlight(t)' => InFlight(t))
    BY <1>1, <1>2, <1>3, <1>5, Zenon DEF HoldsTail, HoldsSlot, InFlight, Filling, UpdateLabels
  <2>7. Exclusive(t, u)' /\ Exclusive(u, t)'
    BY <1>1, <1>2, <1>9, <2>1, <2>6, TypeStep, StayApart, Zenon DEF Exclusive
  <2> QED
    BY <1>2, <2>2, <2>3, <2>4, <2>5, <2>7, Zenon
<1> QED
  BY <1>1, <1>2, <1>9, <1>10, <1>11, <1>13, <1>14, <1>16, <1>17, Combine, Zenon
\* Raising high: from here on every thread finds the slot.
LEMMA RegisterStep ==
  ASSUME InsertInvariant, ~aborted, NEW t \in Threads, Register(t)
  PROVE  InsertInvariant'
<1> USE DEF slotVars, listVars, callVars, localVars
<1>1. /\ TypeOK /\ ThreadOK(t) /\ Step(t) /\ ListsOK /\ FullPrefix /\ NoDuplicateEdge
      /\ pc[t] = "register" /\ pc[t] \in UpdateLabels
  BY Zenon DEF InsertInvariant, Register, Step, UpdateLabels
<1>2. /\ tail' = tail /\ blk' = blk /\ neighbor' = neighbor /\ ptr' = ptr /\ timeFirst' = timeFirst
      /\ aborted' = aborted /\ work' = work /\ ret' = ret /\ cur' = cur /\ job' = job /\ saved' = saved
  BY Zenon DEF Register
<1>3. pc'[t] = "first_ts"
  BY <1>1, Zenon DEF Register, Goto, TypeOK
<1>4. /\ cur[t].b \in Blocks /\ cur[t].b \in Alloc /\ cur[t].k \in Index /\ At(t) \in Slots
      /\ cur[t].k \in Int /\ high[cur[t].b] \in Int /\ CursorOK(t) /\ SlotOK(t) /\ LocksOK(t)
      /\ OfType(t) /\ cur[t].b # 0
  BY <1>1, AtSlot, Zenon
<1>5. Filling(t) /\ neighbor[At(t)].to = Dest(t)
  BY <1>1, <1>4, Zenon DEF SlotOK, Filling
<1>6. /\ cur[t].k = high[cur[t].b] /\ NoneBelow(t, cur[t].b, cur[t].k)
      /\ cur[t].k < EdgeBlockSize
  BY <1>1, <1>5, FillsAtHigh, Zenon
<1>7. /\ high'[cur[t].b] = cur[t].k + 1
      /\ \A b \in Blocks : b # cur[t].b => high'[b] = high[b]
  <2>1. cur[t].k >= high[cur[t].b]
    BY <1>4, <1>6
  <2>2. high' = [high EXCEPT ![cur[t].b] =
                   IF cur[t].k >= high[cur[t].b] THEN cur[t].k + 1 ELSE high[cur[t].b]]
    BY Zenon DEF Register
  <2>3. high' = [high EXCEPT ![cur[t].b] = cur[t].k + 1]
    BY <2>1, <2>2, Zenon
  <2> QED
    BY <1>1, <1>4, <2>3, Zenon DEF TypeOK
<1>8. tail \in Int /\ \A b \in Blocks : b \in Int /\ high[b] \in 0 .. EdgeBlockSize /\ high[b] \in Int
  <2>1. tail \in Int /\ high \in [Blocks -> 0 .. EdgeBlockSize]
    BY <1>1 DEF TypeOK
  <2>2. \A b \in Blocks : b \in Int
    BY ConstantsAssumption DEF Blocks
  <2> QED
    BY <2>1, <2>2, ConstantsAssumption
<1>9. Grows /\ Alloc' = Alloc
  BY <1>2, <1>4, <1>6, <1>7, <1>8 DEF Grows, Alloc
<1>10. Mine(t, cur[t].b)
  BY <1>4, Zenon DEF Mine, CursorOK, OfType
<1>11. ASSUME NEW c \in Blocks, NEW j \in Index, Published(c, j),
              blk[c].vertexID = blk[cur[t].b].vertexID, blk[c].etype = blk[cur[t].b].etype
       PROVE  neighbor[<<c, j>>].to # Dest(t)
  <2>1. c \in Alloc /\ j < high[c] /\ j \in Int
    BY <1>11 DEF Published, Alloc, Index
  <2>2. Mine(t, c)
    BY <1>10, <1>11, Zenon DEF Mine
  <2>3. CASE c < cur[t].b
    BY <1>6, <2>1, <2>2, <2>3, Zenon DEF NoneBelow, FullWithout
  <2>4. CASE c = cur[t].b
    BY <1>6, <2>1, <2>4, Zenon DEF NoneBelow
  <2>5. CASE cur[t].b < c
    BY <1>1, <1>4, <1>6, <1>11, <2>1, <2>5 DEF FullPrefix
  <2> QED
    BY <1>4, <1>8, <2>3, <2>4, <2>5
<1>12. NoDuplicateEdge'
  <2>1. ASSUME NEW b \in Blocks, NEW j \in Index, Published(b, j)'
        PROVE  Published(b, j) \/ (b = cur[t].b /\ j = cur[t].k)
    <3>1. b < tail /\ j < high'[b] /\ neighbor[<<b, j>>].to >= 0 /\ j \in Int
      BY <1>2, <2>1 DEF Published, Index
    <3>2. CASE b = cur[t].b
      BY <1>4, <1>6, <1>7, <3>1, <3>2 DEF Published
    <3>3. CASE b # cur[t].b
      BY <1>7, <3>1, <3>3, Zenon DEF Published
    <3> QED
      BY <3>2, <3>3, Zenon
  <2>2. SUFFICES ASSUME NEW b \in Blocks, NEW c \in Blocks, NEW j \in Index, NEW k \in Index,
                        Published(b, j)', Published(c, k)',
                        blk[b].vertexID = blk[c].vertexID, blk[b].etype = blk[c].etype,
                        neighbor[<<b, j>>].to = neighbor[<<c, k>>].to
                 PROVE  b = c /\ j = k
    BY <1>2, Zenon DEF NoDuplicateEdge
  <2>3. CASE Published(b, j) /\ Published(c, k)
    BY <1>1, <2>2, <2>3, Zenon DEF NoDuplicateEdge
  <2>4. CASE Published(b, j) /\ c = cur[t].b /\ k = cur[t].k
    BY <1>5, <1>11, <2>2, <2>4, Zenon DEF At
  <2>5. CASE Published(c, k) /\ b = cur[t].b /\ j = cur[t].k
    BY <1>5, <1>11, <2>2, <2>5, Zenon DEF At
  <2> QED
    BY <2>1, <2>2, <2>3, <2>4, <2>5, Zenon
<1>13. FullPrefix'
  <2>1. SUFFICES ASSUME NEW b \in Alloc, NEW c \in Alloc, b < c,
                        blk[b].vertexID = blk[c].vertexID, blk[b].etype = blk[c].etype
                 PROVE  high'[b] = EdgeBlockSize
    BY <1>2, <1>9, Zenon DEF FullPrefix
  <2>2. high[b] = EdgeBlockSize /\ b \in Blocks
    BY <1>1, <2>1, Zenon DEF FullPrefix, Alloc
  <2>3. b # cur[t].b
    BY <1>6, <2>2, ConstantsAssumption
  <2> QED
    BY <1>7, <2>2, <2>3, Zenon
<1>14. \A l \in Locations : \A p \in {0} \cup Blocks : Follows(l, p)' = Follows(l, p)
  BY <1>2, <1>9 DEF Follows, OwnerOf
<1>15. ListsOK'
  <2>1. ASSUME NEW l \in Locations, Valid(l), ptr[l] # MARKER
        PROVE  Follows(l, ptr[l])'
    BY <1>1, <1>2, <1>14, <2>1, PointsInto, Zenon
  <2> QED
    BY <1>2, <2>1, Zenon DEF ListsOK, Valid
<1>16. \A b \in Blocks : b >= tail' => high'[b] = 0
  <2>1. cur[t].b < tail
    BY <1>4, Zenon DEF Alloc
  <2> QED
    BY <1>2, <1>4, <1>7, <1>8, <2>1 DEF InsertInvariant
<1>17. ~Filling(t)' /\ ~HoldsSlot(t)' /\ InFlight(t)' = InFlight(t) /\ HoldsTail(t)' = HoldsTail(t)
       /\ Pending(t)' = Pending(t)
  BY <1>1, <1>2, <1>3, Zenon DEF HoldsTail, HoldsSlot, InFlight, Pending, Filling, UpdateLabels
<1>18. ThreadOK(t)'
  <2>1. /\ HasCall(t)' = HasCall(t) /\ Call(t)' = Call(t) /\ Src(t)' = Src(t) /\ Dest(t)' = Dest(t)
    BY <1>2, CallUnchanged, Zenon
  <2>2. CursorOK(t)' /\ OfType(t)'
    BY <1>2, <1>4, <1>9, <2>1, Zenon DEF CursorOK, OfType, Valid, OwnerOf
  <2>3. ScanOK(t)'
    BY <1>3, Zenon DEF ScanOK
  <2>4. cur[t].k < high'[cur[t].b]
    BY <1>4, <1>7
  <2>5. SlotOK(t)'
    BY <1>2, <1>3, <1>4, <1>17, <2>2, <2>4, Zenon DEF SlotOK
  <2>6. HoldsTail(t) => ptr[cur[t].loc] = MARKER /\ Follows(cur[t].loc, Pending(t))'
    <3>1. HoldsTail(t) => /\ cur[t].loc \in Locations /\ Pending(t) \in {0} \cup Blocks
                          /\ Follows(cur[t].loc, Pending(t)) /\ ptr[cur[t].loc] = MARKER
      BY <1>1, PendingTyped, Zenon
    <3> QED
      BY <1>2, <1>14, <1>17, <3>1, Zenon
  <2>7. LocksOK(t)'
    BY <1>2, <1>17, <2>6, Zenon DEF LocksOK
  <2> QED
    BY <2>2, <2>3, <2>5, <2>7, Zenon DEF ThreadOK
<1>19. ASSUME NEW u \in Threads, u # t
       PROVE  /\ Filling(u) => /\ high'[cur[u].b] = high[cur[u].b]
                               /\ neighbor'[At(u)].to = neighbor[At(u)].to
              /\ HoldsTail(u) => /\ ptr'[cur[u].loc] = MARKER
                                 /\ Follows(cur[u].loc, Pending(u))'
              /\ HoldsSlot(u) => timeFirst'[At(u)] = MARKER
              /\ Exclusive(t, u)' /\ Exclusive(u, t)'
  <2>1. ThreadOK(u) /\ SameThread(u) /\ Exclusive(t, u) /\ Exclusive(u, t)
    BY <1>1, <1>19, OthersSame, Zenon DEF InsertInvariant
  <2>2. Filling(u) => high'[cur[u].b] = high[cur[u].b]
    BY <1>1, <1>5, <1>7, <1>19, <2>1, FillsAtHigh, OneFiller, Zenon
  <2>3. HoldsTail(u) => /\ cur[u].loc \in Locations /\ Pending(u) \in {0} \cup Blocks
                        /\ Follows(cur[u].loc, Pending(u)) /\ ptr[cur[u].loc] = MARKER
    BY <1>1, <2>1, PendingTyped, Zenon
  <2>4. HoldsTail(u) => Follows(cur[u].loc, Pending(u))'
    <3>1. Pending(u)' = Pending(u)
      BY <2>1, Zenon DEF SameThread, Pending
    <3> QED
      BY <1>2, <1>14, <2>3, <3>1, Zenon
  <2>5. HoldsSlot(u) => timeFirst'[At(u)] = MARKER
    BY <1>2, SlotLocks, Zenon
  <2>6. Exclusive(t, u)' /\ Exclusive(u, t)'
    BY <1>1, <1>2, <1>9, <1>17, <2>1, TypeStep, StayApart, Zenon DEF Exclusive
  <2> QED
    BY <1>2, <2>2, <2>3, <2>4, <2>5, <2>6, Zenon
<1> QED
  BY <1>1, <1>2, <1>9, <1>12, <1>13, <1>15, <1>16, <1>18, <1>19, Combine, Zenon
\* Allocating a block: it goes after every block of its vertex, because the
\* thread holds the end of the vertex's list.
LEMMA NewEbStep ==
  ASSUME InsertInvariant, ~aborted, NEW t \in Threads, NewEb(t)
  PROVE  InsertInvariant'
<1>1. /\ TypeOK /\ ThreadOK(t) /\ Step(t) /\ ListsOK /\ FullPrefix /\ NoDuplicateEdge
      /\ pc[t] = "new_eb"
  BY Zenon DEF InsertInvariant, NewEb, Step
<1>2. /\ tail' = tail + 1 /\ aborted' = aborted /\ work' = work /\ ret' = ret
      /\ blk' = [blk EXCEPT ![tail] = [etype |-> Call(t).type, vertexID |-> Src(t)]]
      /\ high' = [high EXCEPT ![tail] = 0] /\ ptr' = [ptr EXCEPT ![tail] = 0]
      /\ cur' = [cur EXCEPT ![t] = [loc |-> cur[t].loc, b |-> tail, k |-> 0, endk |-> 0]]
  BY Zenon DEF NewEb, callVars
<1>3. pc'[t] = "update" /\ job'[t].then = "push"
  BY <1>1, Zenon DEF NewEb, SetJob, Goto, TypeOK
<1>4. cur'[t].loc = cur[t].loc /\ cur'[t].b = tail /\ cur'[t].k = 0
  BY <1>1, <1>2, Zenon DEF TypeOK
<1>5. /\ tail \in Int /\ tail \in Blocks /\ tail \in Locations /\ tail # 0 /\ tail \notin Alloc
      /\ \A l \in Locations : l \in Int
      /\ \A b \in Blocks : b \in Int /\ b \in Locations /\ b > 0
  <2>1. tail \in Nat \ {0} /\ tail + 1 < MaxBlocks
    BY <1>1, Zenon DEF NewEb, TypeOK
  <2> QED
    BY <2>1, ConstantsAssumption DEF Blocks, Alloc, Locations
<1>6. Alloc' = Alloc \cup {tail} /\ tail \in Alloc'
  <2>1. Alloc' = {b \in Blocks : b < tail + 1}
    BY <1>2, Zenon DEF Alloc
  <2>2. \A b \in Blocks : b < tail + 1 <=> b < tail \/ b = tail
    BY <1>5
  <2> QED
    BY <1>5, <2>1, <2>2, Zenon DEF Alloc
<1>7. /\ blk'[tail].vertexID = Src(t) /\ blk'[tail].etype = Call(t).type
      /\ \A b \in Blocks : b # tail => blk'[b] = blk[b]
  <2>1. blk \in [Blocks -> [etype : ETypes, vertexID : Vertices]]
    BY <1>1, Zenon DEF TypeOK
  <2> QED
    BY <1>2, <1>5, <2>1, Zenon
<1>8. /\ high'[tail] = 0 /\ \A b \in Blocks : b # tail => high'[b] = high[b]
      /\ \A b \in Blocks : high[b] \in Int
  <2>1. high \in [Blocks -> 0 .. EdgeBlockSize]
    BY <1>1, Zenon DEF TypeOK
  <2> QED
    BY <1>2, <1>5, <2>1, ConstantsAssumption
<1>9. ptr'[tail] = 0 /\ \A l \in Locations : l # tail => ptr'[l] = ptr[l]
  BY <1>1, <1>2, <1>5, Zenon DEF TypeOK
<1>10. \A b \in Blocks : \A j \in Index :
         b # tail => /\ neighbor'[<<b, j>>] = neighbor[<<b, j>>]
                     /\ timeFirst'[<<b, j>>] = timeFirst[<<b, j>>]
  BY Zenon DEF NewEb, Slots
<1>11. \A b \in Alloc : b \in Blocks /\ b # tail /\ b < tail /\ b \in Int
  BY <1>5, Zenon DEF Alloc
<1>12. Grows
  BY <1>2, <1>5, <1>7, <1>8, <1>10, <1>11 DEF Grows
<1>13. /\ HasCall(t)' = HasCall(t) /\ Call(t)' = Call(t) /\ Src(t)' = Src(t) /\ Dest(t)' = Dest(t)
  BY <1>2, CallUnchanged, Zenon
<1>14. /\ HoldsTail(t) /\ Pending(t) = 0 /\ CursorOK(t) /\ NoneUpTo(t, cur[t].loc)
       /\ HasCall(t) /\ OwnerOf(cur[t].loc) = Src(t)
  BY <1>1, Zenon DEF HoldsTail, Pending, ThreadOK, ScanOK, CursorOK
<1>15. /\ cur[t].loc \in Locations /\ Valid(cur[t].loc)
       /\ ptr[cur[t].loc] = MARKER /\ Follows(cur[t].loc, 0)
  BY <1>1, <1>14, PendingTyped, Zenon
<1>16. \A l \in Locations : Valid(l) => l # tail /\ l < tail /\ OwnerOf(l)' = OwnerOf(l) /\ Valid(l)'
  <2>1. ASSUME NEW l \in Locations, Valid(l) PROVE l \in Int /\ l < tail
    BY <1>5, <2>1 DEF Valid
  <2>2. ASSUME NEW l \in Locations, Valid(l) PROVE OwnerOf(l)' = OwnerOf(l)
    <3>1. l \in Int /\ (l > 0 => l \in Alloc)
      BY <1>1, <2>2, LocationIsBlock, Zenon
    <3> QED
      BY <1>7, <1>11, <3>1 DEF OwnerOf
  <2> QED
    BY <1>2, <1>5, <2>1, <2>2 DEF Valid
<1>17. ASSUME NEW l \in Locations, NEW p \in {0} \cup Blocks, Valid(l), l # cur[t].loc, Follows(l, p)
       PROVE  Follows(l, p)'
  <2>1. CASE p = 0
    <3>1. OwnerOf(l) # Src(t)
      BY <1>1, <1>14, <1>15, <1>17, <2>1, OneBefore, Zenon
    <3>2. \A c \in Alloc : blk[c].vertexID = OwnerOf(l) => c <= l
      BY <1>17, <2>1, Zenon DEF Follows
    <3>3. \A c \in Alloc' : blk'[c].vertexID = OwnerOf(l) => c <= l
      BY <1>6, <1>7, <1>11, <3>1, <3>2, Zenon
    <3> QED
      BY <1>16, <1>17, <2>1, <3>3, Zenon DEF Follows
  <2>2. CASE p # 0
    <3>1. /\ p \in Alloc /\ l < p /\ blk[p].vertexID = OwnerOf(l)
          /\ \A c \in Alloc : blk[c].vertexID = OwnerOf(l) => c <= l \/ p <= c
      BY <1>17, <2>2, Zenon DEF Follows
    <3>2. p \in Alloc' /\ blk'[p].vertexID = OwnerOf(l) /\ p <= tail
      BY <1>5, <1>6, <1>7, <1>11, <3>1
    <3>3. \A c \in Alloc' : blk'[c].vertexID = OwnerOf(l) => c <= l \/ p <= c
      BY <1>6, <1>7, <1>11, <3>1, <3>2, Zenon
    <3> QED
      BY <1>16, <1>17, <2>2, <3>1, <3>2, <3>3, Zenon DEF Follows
  <2> QED
    BY <2>1, <2>2, Zenon
<1>18. ASSUME NEW l \in Locations, NEW m \in Blocks, l = cur[t].loc, m = tail
       PROVE  Follows(m, 0)' /\ Follows(l, m)'
  <2>1. \A c \in Alloc' : c <= m
    BY <1>5, <1>6, <1>11, <1>18
  <2>2. \A c \in Alloc' : blk'[c].vertexID = Src(t) => c <= l \/ m <= c
    <3>1. \A c \in Alloc : blk[c].vertexID = Src(t) => c <= l
      BY <1>14, <1>15, <1>18, Zenon DEF Follows
    <3> QED
      BY <1>5, <1>6, <1>7, <1>11, <1>18, <3>1
  <2>3. m \in Alloc' /\ l < m /\ OwnerOf(l)' = Src(t) /\ blk'[m].vertexID = Src(t) /\ m # 0
    BY <1>5, <1>6, <1>7, <1>14, <1>15, <1>16, <1>18, Zenon
  <2> QED
    BY <2>1, <2>2, <2>3, Zenon DEF Follows
<1>19. ListsOK'
  <2>1. ASSUME NEW l \in Locations, Valid(l)', ptr'[l] # MARKER
        PROVE  Follows(l, ptr[l])'
    <3>1. CASE l = tail
      <4>1. ptr'[l] = 0
        BY <1>9, <3>1, Zenon
      <4>2. Follows(l, 0)'
        BY <1>5, <1>15, <1>18, <3>1, Zenon
      <4> QED
        BY <4>1, <4>2, Zenon
    <3>2. CASE l # tail
      <4>1. Valid(l) /\ ptr'[l] = ptr[l] /\ l # cur[t].loc
        BY <1>2, <1>5, <1>9, <1>15, <2>1, <3>2 DEF Valid
      <4>2. Follows(l, ptr[l]) /\ ptr[l] \in {0} \cup Blocks
        BY <1>1, <2>1, <4>1, PointsInto, Zenon
      <4>3. ASSUME NEW p \in {0} \cup Blocks, p = ptr[l] PROVE Follows(l, p)'
        BY <1>17, <4>1, <4>2, <4>3, Zenon
      <4> QED
        BY <4>1, <4>2, <4>3, Zenon
    <3> QED
      BY <3>1, <3>2, Zenon
  <2> QED
    BY <2>1, Zenon DEF ListsOK
<1>20. \A c \in Alloc : Mine(t, c) => FullWithout(t, c)
  BY <1>14, <1>15, Zenon DEF Follows, Mine, NoneUpTo
<1>21. FullPrefix'
  <2>1. SUFFICES ASSUME NEW b \in Alloc', NEW c \in Alloc', b < c,
                        blk'[b].vertexID = blk'[c].vertexID, blk'[b].etype = blk'[c].etype
                 PROVE  high'[b] = EdgeBlockSize
    BY Zenon DEF FullPrefix
  <2>2. b \in Alloc /\ b # tail /\ b \in Blocks
    BY <1>5, <1>6, <1>11, <2>1
  <2>3. CASE c = tail
    <3>1. Mine(t, b)
      BY <1>7, <2>1, <2>2, <2>3, Zenon DEF Mine
    <3> QED
      BY <1>8, <1>20, <2>2, <3>1, Zenon DEF FullWithout
  <2>4. CASE c # tail
    <3>1. c \in Alloc /\ c \in Blocks
      BY <1>6, <1>11, <2>1, <2>4, Zenon
    <3> QED
      BY <1>1, <1>7, <1>8, <2>1, <2>2, <2>4, <3>1, Zenon DEF FullPrefix
  <2> QED
    BY <2>3, <2>4, Zenon
<1>22. NoDuplicateEdge'
  <2>1. ASSUME NEW b \in Blocks, NEW j \in Index, Published(b, j)'
        PROVE  b # tail /\ Published(b, j)
    <3>1. b < tail + 1 /\ j < high'[b] /\ neighbor'[<<b, j>>].to >= 0 /\ j \in Int /\ j >= 0
      BY <1>2, <2>1, ConstantsAssumption DEF Published, Index
    <3>2. b # tail
      BY <1>8, <3>1
    <3>3. b < tail
      BY <1>5, <3>1, <3>2
    <3> QED
      BY <1>8, <1>10, <3>1, <3>2, <3>3, Zenon DEF Published
  <2> QED
    BY <1>1, <1>7, <1>10, <2>1 DEF NoDuplicateEdge
<1>23. \A b \in Blocks : b >= tail' => high'[b] = 0
  BY <1>2, <1>5, <1>8 DEF InsertInvariant
<1>24. InFlight(t)' /\ HoldsTail(t)' /\ ~HoldsSlot(t)' /\ Pending(t)' = tail
  BY <1>3, <1>4, Zenon DEF HoldsTail, InFlight, HoldsSlot, Filling, Pending, UpdateLabels
<1>25. ThreadOK(t)'
  <2>1. CursorOK(t)' /\ OfType(t)'
    <3>1. Valid(cur[t].loc)' /\ OwnerOf(cur[t].loc)' = Src(t)
      BY <1>4, <1>14, <1>15, <1>16, Zenon
    <3> QED
      BY <1>4, <1>6, <1>7, <1>13, <1>14, <3>1, Zenon DEF CursorOK, OfType
  <2>2. NoneBefore(t)'
    <3>1. ASSUME NEW c \in Alloc, Mine(t, c)' PROVE FullWithout(t, c)'
      <4>1. Mine(t, c) /\ c \in Blocks /\ c # tail
        BY <1>7, <1>11, <1>13, <3>1, Zenon DEF Mine
      <4>2. FullWithout(t, c)
        BY <1>20, <4>1, Zenon
      <4> QED
        BY <1>8, <1>10, <1>13, <4>1, <4>2, Zenon DEF FullWithout
    <3>2. \A c \in Alloc' : c < tail /\ Mine(t, c)' => FullWithout(t, c)'
      BY <1>5, <1>6, <3>1
    <3>3. \A j \in Index : ~(j < 0)
      BY ConstantsAssumption DEF Index
    <3> QED
      BY <1>4, <3>2, <3>3, Zenon DEF NoneBefore, NoneBelow
  <2>3. ScanOK(t)'
    BY <1>3, Zenon DEF ScanOK
  <2>4. SlotOK(t)'
    <3>1. 0 \in Index
      BY ConstantsAssumption DEF Index
    <3> QED
      BY <1>3, <1>4, <1>5, <2>1, <2>2, <3>1, Zenon DEF SlotOK
  <2>5. LocksOK(t)'
    <3>1. ptr'[cur[t].loc] = MARKER
      BY <1>9, <1>15, <1>16, Zenon
    <3>2. ASSUME NEW l \in Locations, NEW m \in Blocks, l = cur[t].loc, m = tail
          PROVE  Follows(l, m)'
      BY <1>18, <3>2, Zenon
    <3>3. Follows(cur[t].loc, Pending(t))'
      BY <1>4, <1>5, <1>15, <1>24, <3>2, Zenon
    <3> QED
      BY <1>4, <1>24, <3>1, <3>3, Zenon DEF LocksOK
  <2> QED
    BY <2>1, <2>3, <2>4, <2>5, Zenon DEF ThreadOK
<1>26. ASSUME NEW u \in Threads, u # t
       PROVE  /\ Filling(u) => /\ high'[cur[u].b] = high[cur[u].b]
                               /\ neighbor'[At(u)].to = neighbor[At(u)].to
              /\ HoldsTail(u) => /\ ptr'[cur[u].loc] = MARKER
                                 /\ Follows(cur[u].loc, Pending(u))'
              /\ HoldsSlot(u) => timeFirst'[At(u)] = MARKER
              /\ Exclusive(t, u)' /\ Exclusive(u, t)'
  <2>1. ThreadOK(u) /\ SameThread(u) /\ Exclusive(t, u) /\ Exclusive(u, t)
    BY <1>1, <1>26, OthersSame, Zenon DEF InsertInvariant
  <2>2. pc[u] # "call" => cur[u].b # tail
    BY <1>5, <1>11, <2>1, Zenon DEF ThreadOK, CursorOK
  <2>3. Filling(u) => /\ high'[cur[u].b] = high[cur[u].b]
                      /\ neighbor'[At(u)].to = neighbor[At(u)].to
    BY <1>1, <1>8, <1>10, <1>11, <2>1, FillsAtHigh, Zenon DEF At
  <2>4. ASSUME HoldsTail(u)
        PROVE  ptr'[cur[u].loc] = MARKER /\ Follows(cur[u].loc, Pending(u))'
    <3>1. /\ cur[u].loc \in Locations /\ Valid(cur[u].loc) /\ Pending(u) \in {0} \cup Blocks
          /\ Follows(cur[u].loc, Pending(u)) /\ ptr[cur[u].loc] = MARKER
      BY <1>1, <2>1, <2>4, PendingTyped, Zenon
    <3>2. cur[u].loc # cur[t].loc
      BY <1>14, <2>1, <2>4, Zenon DEF Exclusive
    <3>3. Pending(u)' = Pending(u) /\ cur'[u].loc = cur[u].loc
      BY <2>1, Zenon DEF SameThread, Pending
    <3>4. ASSUME NEW l \in Locations, NEW p \in {0} \cup Blocks, l = cur[u].loc, p = Pending(u)
          PROVE  Follows(l, p)'
      BY <1>17, <3>1, <3>2, <3>4, Zenon
    <3> QED
      BY <1>9, <1>16, <3>1, <3>3, <3>4, Zenon
  <2>5. HoldsSlot(u) => timeFirst'[At(u)] = MARKER
    <3>1. HoldsSlot(u) => timeFirst[At(u)] = MARKER /\ pc[u] # "call"
      BY <2>1, Zenon DEF ThreadOK, LocksOK, HoldsSlot, Filling
    <3>2. HoldsSlot(u) => cur[u].b \in Blocks /\ cur[u].k \in Index
      BY <1>1, <2>1, CursorTyped, Zenon DEF HoldsSlot, Filling, UpdateLabels
    <3> QED
      BY <1>10, <2>2, <3>1, <3>2, Zenon DEF At
  <2>6. Exclusive(t, u)' /\ Exclusive(u, t)'
    <3>1. TypeOK'
      BY <1>1, TypeStep, Zenon
    <3>2. HoldsTail(u) => cur[t].loc # cur[u].loc
      BY <1>14, <2>1, Zenon DEF Exclusive
    <3>3. InFlight(u) => pc[u] # "call"
      BY Zenon DEF InFlight, UpdateLabels
    <3> QED
      BY <1>1, <1>4, <1>12, <1>24, <2>1, <2>2, <3>1, <3>2, <3>3, StayApart, Zenon
  <2> QED
    BY <2>3, <2>4, <2>5, <2>6, Zenon
<1> QED
  BY <1>1, <1>2, <1>12, <1>19, <1>21, <1>22, <1>23, <1>25, <1>26, Combine, Zenon
\* Running out of blocks ends the process; what is stored stays as it is.
LEMMA OutOfBlocksStep ==
  ASSUME InsertInvariant, ~aborted, NEW t \in Threads, OutOfBlocks(t)
  PROVE  InsertInvariant'
<1>1. TypeOK /\ NoDuplicateEdge /\ Step(t) /\ \A b \in Blocks : b >= tail => high[b] = 0
  BY Zenon DEF InsertInvariant, OutOfBlocks, Step
<1>2. tail' = tail + 1 /\ aborted' /\ blk' = blk /\ high' = high /\ neighbor' = neighbor
  BY Zenon DEF OutOfBlocks, slotVars
<1>3. TypeOK'
  BY <1>1, TypeStep, Zenon
<1>4. tail \in Int /\ \A b \in Blocks : b \in Int
  BY <1>1, ConstantsAssumption DEF TypeOK, Blocks
<1>5. \A b \in Blocks : b >= tail' => high'[b] = 0
  BY <1>1, <1>2, <1>4
<1>6. NoDuplicateEdge'
  <2>1. ASSUME NEW b \in Blocks, NEW j \in Index, Published(b, j)' PROVE Published(b, j)
    <3>1. j < high[b] /\ neighbor[<<b, j>>].to >= 0 /\ j \in Int /\ j >= 0
      BY <1>2, <2>1, ConstantsAssumption DEF Published, Index
    <3>2. b < tail
      BY <1>1, <1>4, <3>1
    <3> QED
      BY <3>1, <3>2, Zenon DEF Published
  <2> QED
    BY <1>1, <1>2, <2>1, Zenon DEF NoDuplicateEdge
<1> QED
  BY <1>2, <1>3, <1>5, <1>6, Zenon DEF InsertInvariant

-----------------------------------------------------------------------------
(***************************************************************************)
(* The theorems.                                                           *)
(***************************************************************************)

\* The empty store that stinger_new_full leaves satisfies the invariant.
LEMMA InitInvariant ==
  ASSUME Init
  PROVE  InsertInvariant
<1>1. /\ tail = 1 /\ high = [b \in Blocks |-> 0] /\ ptr = [l \in Locations |-> 0]
      /\ pc = [t \in Threads |-> "call"] /\ ret = [t \in Threads |-> << >>]
      /\ aborted = FALSE
  BY Zenon DEF Init
<1>2. TypeOK
  <2>1. work \in [Threads -> Seq(Calls)]
    BY ConstantsAssumption, Zenon DEF Init
  <2>2. ret \in [Threads -> Seq({0, 1})]
    BY <1>1
  <2>3. /\ blk \in [Blocks -> [etype : ETypes, vertexID : Vertices]]
        /\ neighbor \in [Slots -> [to : Vertices, dir : SUBSET {DirOut, DirIn}]]
    BY ConstantsAssumption DEF Init, ETypes, Vertices, ZeroWord
  <2>4. stamps \in [Blocks -> [small : Int, large : Int]]
    BY ConstantsAssumption DEF Init, NoStamps
  <2>5. vtx \in [Vertices -> [outDegree : Int, inDegree : Int, degree : Int]]
    BY DEF Init
  <2>6. cur \in [Threads -> Cursors]
    BY ConstantsAssumption DEF Init, Cursors, Locations
  <2>7. job \in [Threads -> Jobs]
    BY Zenon DEF Init, Jobs
  <2>8. /\ tail \in Nat \ {0} /\ (~aborted => tail <= MaxBlocks)
        /\ high \in [Blocks -> 0 .. EdgeBlockSize]
    BY <1>1, ConstantsAssumption
  <2>12. aborted \in BOOLEAN
    BY Zenon, <1>1
  <2>10. ptr \in [Locations -> {MARKER, 0} \cup Blocks]
    BY <1>1, Zenon
  <2>11. pc \in [Threads -> Labels]
    BY <1>1, Zenon DEF Labels
  <2>9. /\ numEdges \in [Blocks -> Nat] /\ weight \in [Slots -> Int] /\ timeFirst \in [Slots -> Int]
        /\ timeRecent \in [Slots -> Int] /\ etaHigh \in [ETypes -> Nat]
        /\ etaBlocks \in [ETypes \X Places -> {0} \cup Blocks]
        /\ saved \in [Threads -> Int] /\ newWeight \in [Threads -> Int] /\ newSmall \in [Threads -> Int]
    BY DEF Init
  <2> QED
    BY <2>1, <2>2, <2>3, <2>4, <2>5, <2>6, <2>7, <2>8, <2>9, <2>10, <2>11, <2>12, Zenon DEF TypeOK
<1>3. \A b \in Blocks : high[b] = 0
  BY <1>1, Zenon
<1>4. Alloc = {}
  BY <1>1, ConstantsAssumption DEF Alloc, Blocks
<1>5. NoDuplicateEdge
  <2>1. \A b \in Blocks : \A j \in Index : ~Published(b, j)
    BY <1>3, ConstantsAssumption DEF Published, Index
  <2> QED
    BY <2>1, Zenon DEF NoDuplicateEdge
<1>6. ListsOK /\ FullPrefix
  BY <1>1, <1>4, Zenon DEF ListsOK, FullPrefix, Follows
<1>7. ASSUME NEW t \in Threads PROVE pc[t] = "call"
  BY <1>1, Zenon
<1>8. \A t \in Threads : ThreadOK(t)
  BY <1>7, Zenon DEF ThreadOK
<1>9. \A t, u \in Threads : t # u => Exclusive(t, u)
  BY <1>7, Zenon DEF Exclusive, HoldsTail, HoldsSlot, InFlight, Filling, UpdateLabels
<1> QED
  BY <1>2, <1>3, <1>5, <1>6, <1>8, <1>9, Zenon DEF InsertInvariant

\* A stuttering step changes nothing the invariant speaks of.
LEMMA Stutter ==
  ASSUME InsertInvariant, UNCHANGED vars
  PROVE  InsertInvariant'
<1> USE DEF vars, slotVars, blockVars, listVars, callVars, localVars
<1>1. TypeOK' /\ NoDuplicateEdge' /\ (\A b \in Blocks : b >= tail' => high'[b] = 0)
  <2>1. TypeOK'
    <3>1. /\ tail' = tail /\ blk' = blk /\ high' = high /\ numEdges' = numEdges /\ stamps' = stamps
          /\ neighbor' = neighbor /\ weight' = weight /\ timeFirst' = timeFirst
          /\ timeRecent' = timeRecent /\ ptr' = ptr /\ etaHigh' = etaHigh
          /\ etaBlocks' = etaBlocks /\ aborted' = aborted /\ vtx' = vtx /\ work' = work
          /\ ret' = ret /\ pc' = pc /\ cur' = cur /\ job' = job /\ saved' = saved
          /\ newWeight' = newWeight /\ newSmall' = newSmall
      OBVIOUS
    <3> HIDE DEF vars, slotVars, blockVars, listVars, callVars, localVars
    <3>2. TypeOK
      BY Zenon DEF InsertInvariant
    <3> QED
      BY <3>1, <3>2, Zenon DEF TypeOK
  <2>2. NoDuplicateEdge'
    <3>1. tail' = tail /\ blk' = blk /\ neighbor' = neighbor /\ high' = high
      OBVIOUS
    <3> HIDE DEF vars, slotVars, blockVars, listVars, callVars, localVars
    <3>2. NoDuplicateEdge
      BY Zenon DEF InsertInvariant
    <3>3. \A b, k : Published(b, k)' <=> Published(b, k)
      BY <3>1, Zenon DEF Published
    <3> QED
      BY <3>1, <3>2, <3>3 DEF NoDuplicateEdge
  <2>3. \A b \in Blocks : b >= tail' => high'[b] = 0
    BY Zenon DEF InsertInvariant
  <2> QED
    BY <2>1, <2>2, <2>3
<1>2. ListsOK' = ListsOK /\ FullPrefix' = FullPrefix
  BY Zenon DEF ListsOK, FullPrefix, Follows, Alloc, Valid, OwnerOf
<1>3. ASSUME NEW t \in Threads
      PROVE  /\ HasCall(t)' = HasCall(t) /\ Call(t)' = Call(t) /\ Src(t)' = Src(t)
             /\ Dest(t)' = Dest(t) /\ OfType(t)' = OfType(t) /\ At(t)' = At(t)
  BY CallUnchanged, Zenon DEF OfType, At
<1>4. ASSUME NEW t \in Threads, ThreadOK(t) PROVE ThreadOK(t)'
  <2>1. TypeOK /\ SameStore /\ SameThread(t) /\ work' = work
    BY Zenon DEF SameStore, SameThread, InsertInvariant
  <2>2. Grows /\ \A l \in Locations : \A p \in {0} \cup Blocks : Follows(l, p)' = Follows(l, p)
    BY <2>1, StoreKept, Zenon
  <2>3. CASE pc[t] = "call"
    BY <2>3, Zenon DEF ThreadOK
  <2>4. CASE pc[t] # "call"
    <3>1. CursorOK(t)' /\ ScanOK(t)' /\ SlotOK(t)'
      BY <1>1, <1>4, <2>1, <2>2, <2>4, OtherKnows, Zenon
    <3>2. HoldsTail(t)' = HoldsTail(t) /\ Pending(t)' = Pending(t) /\ (HoldsSlot(t)' => HoldsSlot(t))
      BY <1>1, <1>4, <2>1, <2>2, OtherHolds, Zenon
    <3>3. HoldsTail(t) => /\ cur[t].loc \in Locations /\ Pending(t) \in {0} \cup Blocks
                          /\ ptr[cur[t].loc] = MARKER /\ Follows(cur[t].loc, Pending(t))
      BY <1>4, <2>1, PendingTyped, Zenon
    <3>4. HoldsTail(t) => Follows(cur[t].loc, Pending(t))'
      BY <2>2, <3>2, <3>3, Zenon
    <3>5. LocksOK(t)'
      BY <1>3, <1>4, <2>4, <3>2, <3>3, <3>4, Zenon DEF LocksOK, ThreadOK
    <3> QED
      BY <3>1, <3>5, Zenon DEF ThreadOK
  <2> QED
    BY <2>3, <2>4, Zenon
<1>5. ASSUME NEW t \in Threads, NEW u \in Threads PROVE Exclusive(t, u)' = Exclusive(t, u)
  BY Zenon DEF Exclusive, HoldsTail, HoldsSlot, InFlight, Filling
<1> QED
  BY <1>1, <1>2, <1>4, <1>5, Zenon DEF InsertInvariant

\* Every step of every thread preserves the invariant.
LEMMA NextStep ==
  ASSUME InsertInvariant, [Next]_vars
  PROVE  InsertInvariant'
<1>1. ASSUME ~aborted, NEW t \in Threads, Step(t) PROVE InsertInvariant'
  BY <1>1, StartCallStep, EtypeBeginStep, SearchStep, SearchNextStep, RelookStep, TrySlotStep,
     LockSlotStep, RecheckStep, PutBackStep, SlotNextStep, LockTailStep, TailTakenStep, NewEbStep,
     OutOfBlocksStep, LinkStep, UpdateSteps, SetNeighborStep, RegisterStep, ReleaseWeightStep, Zenon
     DEF Step
<1>2. CASE UNCHANGED vars
  BY <1>2, Stutter, Zenon
<1> QED
  BY <1>1, <1>2, Zenon DEF Next, Terminated

\* stinger_update_directed_edge, called by any number of threads on any list of
\* calls: the inductive invariant holds in every reachable state.
THEOREM Invariance == Spec => []InsertInvariant
<1>1. Init => InsertInvariant
  BY InitInvariant, Zenon
<1>2. InsertInvariant /\ [Next]_vars => InsertInvariant'
  BY NextStep, Zenon
<1> QED
  BY <1>1, <1>2, PTL DEF Spec

\* The store and the threads' locals keep their types: no cursor leaves the
\* pool of blocks and no index leaves its block.
THEOREM TypeCorrectness == Spec => []TypeOK
<1>1. InsertInvariant => TypeOK
  BY Zenon DEF InsertInvariant
<1> QED
  BY <1>1, Invariance, PTL

\* However many threads insert however many edges, no vertex ever has two slots
\* for the same neighbor and edge type.
THEOREM OneSlotPerEdge == Spec => []NoDuplicateEdge
<1>1. InsertInvariant => NoDuplicateEdge
  BY Zenon DEF InsertInvariant
<1> QED
  BY <1>1, Invariance, PTL

-----------------------------------------------------------------------------
(***************************************************************************)
(* Concurrent insertion implements the abstract adjacency set, for every   *)
(* number of threads, vertices, types, slots, blocks and calls.            *)
(*                                                                         *)
(* What readers can find changes in two steps only: Register publishes the *)
(* slot that a thread has filled, AddDirection sets a bit in a published   *)
(* one.  Both add the half-edge of the thread's own call, because of what  *)
(* the thread knows of its slot (KnowsSlot), and a thread that returns     *)
(* stands at a slot with the half-edge it was called for.                  *)
(***************************************************************************)

\* The labels after the neighbor word of a published slot has been written.
Written == {"put_back_return", "push", "push_store", "link", "first_ts", "stamp",
            "stamp_lock", "stamp_write", "release"}

\* A published slot that a thread updates is that of its neighbor; the slot it
\* is about to publish has its word; and what it has written stays.
KnowsSlot(t) ==
  /\ pc[t] \in {"update", "neighbor"} /\ cur[t].k < high[cur[t].b] =>
       neighbor[At(t)].to = Dest(t)
  /\ pc[t] = "register" => neighbor[At(t)] = NeighborWord(t)
  /\ pc[t] \in Written =>
       neighbor[At(t)].to = Dest(t) /\ Call(t).direction \in neighbor[At(t)].dir

SlotsKnown == \A t \in Threads : KnowsSlot(t)

absVars == <<PublishedHalfEdges, work, [t \in Threads |-> Len(ret[t])]>>

-----------------------------------------------------------------------------
(***************************************************************************)
(* Half-edges.                                                             *)
(***************************************************************************)

\* Half-edges are equal by their components.
LEMMA SameHalfEdge ==
  \A g, h \in HalfEdges : h[1] = g[1] /\ h[2] = g[2] /\ h[3] = g[3] /\ h[4] = g[4] => h = g
BY DEF HalfEdges

\* A slot is that of a cursor by its block and its index.
LEMMA CursorSlot ==
  ASSUME NEW t, NEW b, NEW k, <<b, k>> = At(t)
  PROVE  b = cur[t].b /\ k = cur[t].k
BY DEF At

\* Insertion alone blanks no slot.
LEMMA NeverBlank ==
  ASSUME TypeOK, NEW b \in Blocks, NEW k \in Index
  PROVE  /\ neighbor[<<b, k>>].to \in Vertices /\ neighbor[<<b, k>>].to >= 0
         /\ ~(neighbor[<<b, k>>].to < 0)
<1>1. <<b, k>> \in Slots
  BY DEF Slots
<1>2. neighbor[<<b, k>>] \in [to : Vertices, dir : SUBSET {DirOut, DirIn}]
  BY <1>1, Zenon DEF TypeOK
<1>3. neighbor[<<b, k>>].to \in Vertices
  BY <1>2
<1> QED
  BY <1>3, ConstantsAssumption DEF Vertices

\* The half-edge of a call goes from the vertex whose list is searched to the one
\* that is searched for.
LEMMA CallHalfEdge ==
  ASSUME TypeOK, NEW t \in Threads, HasCall(t)
  PROVE  /\ HalfEdgeOf(Call(t)) = <<Src(t), Call(t).type, Dest(t), Call(t).direction>>
         /\ HalfEdgeOf(Call(t)) \in HalfEdges
         /\ HalfEdgeOf(Call(t))[1] = Src(t) /\ HalfEdgeOf(Call(t))[2] = Call(t).type
         /\ HalfEdgeOf(Call(t))[3] = Dest(t) /\ HalfEdgeOf(Call(t))[4] = Call(t).direction
         /\ Call(t).direction \in {DirOut, DirIn}
<1>1. Call(t) \in Calls /\ Src(t) \in Vertices /\ Dest(t) \in Vertices
  BY CallTyped, Zenon
<1>2. Call(t).direction \in {DirOut, DirIn} /\ Call(t).type \in ETypes /\ DirOut # DirIn
  BY <1>1 DEF Calls, DirOut, DirIn
<1>3. HalfEdgeOf(Call(t)) = <<Src(t), Call(t).type, Dest(t), Call(t).direction>>
  BY <1>2, Zenon DEF HalfEdgeOf, Src, Dest
<1> QED
  BY <1>1, <1>2, <1>3 DEF HalfEdges

-----------------------------------------------------------------------------
(***************************************************************************)
(* What a thread knows of its slot.                                        *)
(***************************************************************************)

\* Nothing that can be found, or is about to be, is written.
SameWords == tail' = tail /\ blk' = blk /\ high' = high /\ neighbor' = neighbor

\* Direction bits of published slots are only added.
BitsGrow ==
  \A b \in Alloc : \A j \in Index :
    j < high[b] => neighbor[<<b, j>>].dir \subseteq neighbor'[<<b, j>>].dir

\* A step of another thread leaves standing what thread u knows of its slot.
LEMMA OtherKnowsSlot ==
  ASSUME TypeOK, Grows, BitsGrow, NEW u \in Threads, SameThread(u), work' = work,
         ThreadOK(u), KnowsSlot(u),
         Filling(u) => high'[cur[u].b] = high[cur[u].b] /\ neighbor'[At(u)] = neighbor[At(u)]
  PROVE  KnowsSlot(u)'
<1>1. /\ Call(u)' = Call(u) /\ Dest(u)' = Dest(u)
      /\ cur'[u] = cur[u] /\ pc'[u] = pc[u] /\ At(u)' = At(u) /\ NeighborWord(u)' = NeighborWord(u)
  BY CallUnchanged, Zenon DEF SameThread, At, NeighborWord
<1>2. ASSUME pc[u] \in {"update", "neighbor", "register"} \cup Written
      PROVE  cur[u].b \in Alloc /\ cur[u].k \in Index /\ SlotOK(u)
  <2>1. pc[u] \in {"put_back_return", "push", "push_store", "link"} \cup UpdateLabels
    BY <1>2, Zenon DEF UpdateLabels, Written
  <2> QED
    BY <2>1, AtSlot, Zenon
<1>3. ASSUME pc[u] \in {"update", "neighbor"}, cur[u].k < high'[cur[u].b]
      PROVE  neighbor'[At(u)].to = Dest(u)
  <2>1. cur[u].b \in Alloc /\ cur[u].k \in Index
    BY <1>2, <1>3, Zenon
  <2>2. high[cur[u].b] \in Int /\ cur[u].k \in Int
    BY <2>1, Numbers, Zenon DEF Alloc
  <2>3. CASE cur[u].k < high[cur[u].b]
    BY <1>3, <2>1, <2>3, Zenon DEF Grows, KnowsSlot, At
  <2>4. CASE cur[u].k >= high[cur[u].b]
    <3>1. high'[cur[u].b] = high[cur[u].b]
      BY <1>3, <2>4, Zenon DEF Filling
    <3> QED
      BY <1>3, <2>2, <2>4, <3>1
  <2> QED
    BY <2>2, <2>3, <2>4
<1>4. ASSUME pc[u] = "register"
      PROVE  neighbor'[At(u)] = NeighborWord(u)
  <2>1. Filling(u)
    BY <1>2, <1>4, Zenon DEF Filling, SlotOK
  <2> QED
    BY <1>4, <2>1, Zenon DEF KnowsSlot
<1>5. ASSUME pc[u] \in Written
      PROVE  neighbor'[At(u)].to = Dest(u) /\ Call(u).direction \in neighbor'[At(u)].dir
  <2>1. cur[u].b \in Alloc /\ cur[u].k \in Index /\ cur[u].k < high[cur[u].b]
    BY <1>2, <1>5, Zenon DEF SlotOK, Written
  <2> QED
    BY <1>5, <2>1, Zenon DEF KnowsSlot, Grows, BitsGrow, At
<1> QED
  BY <1>1, <1>3, <1>4, <1>5, Zenon DEF KnowsSlot

\* So a step keeps what all threads know if its own thread knows its slot.
LEMMA AllKnow ==
  ASSUME InsertInvariant, ~aborted, SlotsKnown, NEW t \in Threads, Step(t), Grows, BitsGrow,
         KnowsSlot(t)',
         \A u \in Threads : u # t /\ Filling(u) =>
           high'[cur[u].b] = high[cur[u].b] /\ neighbor'[At(u)] = neighbor[At(u)]
  PROVE  SlotsKnown'
<1>1. TypeOK /\ \A u \in Threads : ThreadOK(u)
  BY Zenon DEF InsertInvariant
<1>2. \A u \in Threads : u # t => SameThread(u) /\ work' = work
  BY <1>1, OthersSame, Zenon
<1>3. ASSUME NEW u \in Threads, u # t
      PROVE  KnowsSlot(u)'
  BY <1>1, <1>2, <1>3, OtherKnowsSlot, Zenon DEF SlotsKnown
<1> QED
  BY <1>3, Zenon DEF SlotsKnown

\* A thread whose slot is written can return: its half-edge can be found.
LEMMA WrittenIsFound ==
  ASSUME TypeOK, NEW t \in Threads, ThreadOK(t), KnowsSlot(t), pc[t] \in Written
  PROVE  HasCall(t) /\ HalfEdgeOf(Call(t)) \in PublishedHalfEdges
<1>1. pc[t] \in {"put_back_return", "push", "push_store", "link"} \cup UpdateLabels
  BY Zenon DEF UpdateLabels, Written
<1>2. /\ HasCall(t) /\ cur[t].b \in Blocks /\ cur[t].b \in Alloc /\ cur[t].k \in Index
      /\ CursorOK(t) /\ SlotOK(t) /\ OfType(t) /\ cur[t].b # 0
  BY <1>1, AtSlot, Zenon
<1>3. /\ blk[cur[t].b].vertexID = Src(t) /\ blk[cur[t].b].etype = Call(t).type
      /\ cur[t].k < high[cur[t].b] /\ cur[t].b < tail
  BY <1>2, Zenon DEF CursorOK, OfType, SlotOK, Written, Alloc
<1>4. neighbor[At(t)].to = Dest(t) /\ Call(t).direction \in neighbor[At(t)].dir
  BY Zenon DEF KnowsSlot
<1>5. Dest(t) >= 0
  BY <1>2, CallTyped, ConstantsAssumption DEF Vertices
<1>6. Published(cur[t].b, cur[t].k)
  BY <1>3, <1>4, <1>5, Zenon DEF Published, At
<1>7. /\ HalfEdgeOf(Call(t)) = <<Src(t), Call(t).type, Dest(t), Call(t).direction>>
      /\ HalfEdgeOf(Call(t)) \in HalfEdges
  BY <1>2, CallHalfEdge, Zenon
<1> DEFINE h == HalfEdgeOf(Call(t))
<1>8. h[1] = Src(t) /\ h[2] = Call(t).type /\ h[3] = Dest(t) /\ h[4] = Call(t).direction
  BY <1>7
<1> HIDE DEF h
<1>9. h \in PublishedHalfEdges
  BY <1>2, <1>3, <1>4, <1>6, <1>7, <1>8, Zenon DEF PublishedHalfEdges, At, h
<1> QED
  BY <1>2, <1>9, Zenon DEF h

-----------------------------------------------------------------------------
(***************************************************************************)
(* Steps that publish nothing.                                             *)
(***************************************************************************)

\* They return from a call whose half-edge can be found, or are invisible.
LEMMA QuietRefines ==
  ASSUME InsertInvariant, ~aborted, SlotsKnown, NEW t \in Threads, Step(t), SameWords, work' = work,
         KnowsSlot(t)',
         \/ ret' = ret
         \/ pc[t] \in Written /\ \E v : ret' = [ret EXCEPT ![t] = Append(@, v)]
  PROVE  SlotsKnown' /\ [Abstract!Next]_absVars
<1>1. TypeOK /\ ThreadOK(t) /\ KnowsSlot(t)
  BY Zenon DEF InsertInvariant, SlotsKnown
<1>2. SameStore /\ BitsGrow
  BY Zenon DEF SameWords, SameStore, BitsGrow
<1>3. Grows
  BY <1>1, <1>2, StoreKept, Zenon
<1>4. SlotsKnown'
  BY <1>2, <1>3, AllKnow, Zenon DEF SameWords
<1>5. PublishedHalfEdges' = PublishedHalfEdges
  BY Zenon DEF SameWords, PublishedHalfEdges, Published
<1>6. CASE ret' = ret
  BY <1>4, <1>5, <1>6, Zenon DEF absVars
<1>7. ASSUME pc[t] \in Written, NEW v, ret' = [ret EXCEPT ![t] = Append(@, v)]
      PROVE  Abstract!Return(t)
  <2>1. HasCall(t) /\ HalfEdgeOf(Call(t)) \in PublishedHalfEdges
    BY <1>1, <1>7, WrittenIsFound, Zenon
  <2>2. [u \in Threads |-> Len(ret[u])][t] = Len(ret[t])
    BY Zenon
  <2>3. ret \in [Threads -> Seq({0, 1})] /\ ret[t] \in Seq({0, 1})
    BY <1>1, Zenon DEF TypeOK
  <2>4. Len(Append(ret[t], v)) = Len(ret[t]) + 1
    BY <2>3
  <2>5. \A u \in Threads : Len(ret'[u]) = IF u = t THEN Len(ret[t]) + 1 ELSE Len(ret[u])
    BY <1>7, <2>3, <2>4, Zenon
  <2>6. [u \in Threads |-> Len(ret[u])]' = [[u \in Threads |-> Len(ret[u])] EXCEPT ![t] = @ + 1]
    BY <2>5
  <2> QED
    BY <1>5, <2>1, <2>2, <2>6, Zenon DEF Abstract!Return, Abstract!Current, HasCall, Call
<1> QED
  BY <1>4, <1>6, <1>7, Zenon DEF Abstract!Next

\* The steps of the searches that find nothing, and those on locks.
LEMMA WalkRefines ==
  ASSUME InsertInvariant, ~aborted, SlotsKnown, NEW t \in Threads,
         \/ StartCall(t) \/ EtypeBegin(t) \/ SearchNext(t) \/ Relook(t) \/ SlotNext(t)
         \/ LockSlot(t) \/ LockTail(t) \/ TailTaken(t)
  PROVE  SlotsKnown' /\ [Abstract!Next]_absVars
<1> USE DEF slotVars, blockVars, listVars, callVars, localVars, Goto
<1>1. Step(t) /\ pc \in [Threads -> Labels]
  BY Zenon DEF Step, InsertInvariant, TypeOK
<1>2. SameWords /\ work' = work /\ ret' = ret
  BY Zenon DEF StartCall, EtypeBegin, BeginAt, SearchNext, Relook, SlotNext, LockSlot, LockTail,
               TailTaken, SameWords
<1>3. pc'[t] \in {"etype_begin", "search", "slot", "locked", "new_eb", "tail_taken", "relook"}
  BY <1>1, Zenon DEF StartCall, EtypeBegin, BeginAt, SearchNext, Relook, SlotNext, LockSlot, LockTail,
               AfterTailLock, TailTaken
<1>4. KnowsSlot(t)'
  BY <1>3, Zenon DEF KnowsSlot, Written
<1> QED
  BY <1>1, <1>2, <1>4, QuietRefines, Zenon

\* A search that finds the edge in a published slot goes to update that slot.
LEMMA FindRefines ==
  ASSUME InsertInvariant, ~aborted, SlotsKnown, NEW t \in Threads,
         Search(t) \/ TrySlot(t) \/ Recheck(t)
  PROVE  SlotsKnown' /\ [Abstract!Next]_absVars
<1> USE DEF slotVars, blockVars, listVars, callVars, localVars, Goto
<1>1. Step(t) /\ pc \in [Threads -> Labels] /\ cur \in [Threads -> Cursors] /\ TypeOK /\ ThreadOK(t)
  BY Zenon DEF Step, InsertInvariant, TypeOK
<1>2. SameWords /\ work' = work /\ ret' = ret
  BY Zenon DEF Search, TrySlot, Recheck, SameWords
<1>3. Call(t)' = Call(t) /\ Dest(t)' = Dest(t)
  BY <1>2, CallUnchanged, Zenon
<1>4. ASSUME Search(t) \/ TrySlot(t)
      PROVE  KnowsSlot(t)'
  <2>1. \/ pc'[t] = "update" /\ cur' = cur /\ neighbor[At(t)].to = Dest(t)
        \/ pc'[t] \in {"search", "slot", "lock_slot"}
    BY <1>1, <1>4, Zenon DEF Search, TrySlot, Found
  <2> QED
    BY <1>2, <1>3, <2>1, Zenon DEF KnowsSlot, Written, SameWords, At
<1>5. ASSUME Recheck(t)
      PROVE  KnowsSlot(t)'
  <2>1. pc[t] = "locked" /\ cur' = [cur EXCEPT ![t].endk = high[cur[t].b]]
    BY <1>5, Zenon DEF Recheck, EndUnderLock
  <2>2. cur'[t].b = cur[t].b /\ cur'[t].k = cur[t].k
    BY <1>1, <2>1 DEF Cursors
  <2>3. cur[t].b \in Blocks /\ cur[t].k \in Index
    BY <1>1, <2>1, AtSlot, Zenon
  <2>4. ~(neighbor[At(t)].to < 0)
    BY <1>1, <2>3, NeverBlank, Zenon DEF At
  <2>5. high[cur[t].b] \in Int /\ cur[t].k \in Int
    BY <1>1, <2>3 DEF TypeOK, Index
  <2>6. \/ pc'[t] = "update" /\ cur[t].k >= high[cur[t].b]
        \/ pc'[t] = "update" /\ neighbor[At(t)].to = Dest(t)
        \/ pc'[t] = "put_back"
    BY <1>1, <1>5, <2>4, Zenon DEF Recheck, EndUnderLock
  <2>7. ~(cur[t].k < high[cur[t].b]) \/ pc'[t] = "put_back" \/ neighbor[At(t)].to = Dest(t)
    BY <2>5, <2>6
  <2> QED
    BY <1>2, <1>3, <2>2, <2>6, <2>7, Zenon DEF KnowsSlot, Written, SameWords, At
<1>6. KnowsSlot(t)'
  BY <1>4, <1>5
<1> QED
  BY <1>1, <1>2, <1>6, QuietRefines, Zenon

\* The weight is locked before the neighbor word is written.
LEMMA LockWeightRefines ==
  ASSUME InsertInvariant, ~aborted, SlotsKnown, NEW t \in Threads, LockWeight(t)
  PROVE  SlotsKnown' /\ [Abstract!Next]_absVars
<1> USE DEF slotVars, blockVars, listVars, callVars, localVars, Goto
<1>1. Step(t) /\ pc \in [Threads -> Labels] /\ KnowsSlot(t)
  BY Zenon DEF Step, InsertInvariant, TypeOK, SlotsKnown
<1>2. /\ SameWords /\ work' = work /\ ret' = ret /\ cur' = cur
      /\ pc[t] = "update" /\ pc'[t] = "neighbor"
  BY <1>1, Zenon DEF LockWeight, SameWords
<1>3. Call(t)' = Call(t) /\ Dest(t)' = Dest(t)
  BY <1>2, CallUnchanged, Zenon
<1>4. KnowsSlot(t)'
  BY <1>1, <1>2, <1>3, Zenon DEF KnowsSlot, Written, SameWords, At
<1> QED
  BY <1>1, <1>2, <1>4, QuietRefines, Zenon

\* Once its neighbor word is written a thread goes on to its return.
LEMMA FinishRefines ==
  ASSUME InsertInvariant, ~aborted, SlotsKnown, NEW t \in Threads,
         \/ WriteTimeFirst(t) \/ CheckStamps(t) \/ LockStamps(t) \/ WriteStamps(t)
         \/ ReleaseWeight(t) \/ PutBack(t) \/ Push(t) \/ PushStore(t) \/ Link(t)
  PROVE  SlotsKnown' /\ [Abstract!Next]_absVars
<1> USE DEF slotVars, blockVars, listVars, callVars, localVars, Goto
<1>1. /\ Step(t) /\ pc \in [Threads -> Labels] /\ ret \in [Threads -> Seq({0, 1})]
      /\ job[t] \in Jobs /\ KnowsSlot(t)
  BY Zenon DEF Step, InsertInvariant, TypeOK, SlotsKnown
<1>2. SameWords /\ work' = work
  BY Zenon DEF WriteTimeFirst, CheckStamps, LockStamps, WriteStamps, ReleaseWeight, PutBack, Push,
               PushStore, Link, SameWords
<1>3. job[t].then \in {"return", "put_back_return", "push"}
  BY <1>1 DEF Jobs
<1>4. \/ pc[t] \in Written /\ pc'[t] \in Written /\ cur' = cur /\ ret' = ret
      \/ pc'[t] = "slot" /\ ret' = ret
      \/ pc[t] \in Written /\ pc'[t] = "call" /\ \E v : ret' = [ret EXCEPT ![t] = Append(@, v)]
  <2>1. CASE WriteTimeFirst(t) \/ CheckStamps(t) \/ LockStamps(t) \/ WriteStamps(t)
    BY <1>1, <2>1, Zenon DEF WriteTimeFirst, AfterNeighbor, CheckStamps, LockStamps, WriteStamps, Written
  <2>2. CASE ReleaseWeight(t)
    BY <1>1, <1>3, <2>2, Zenon DEF ReleaseWeight, Return, Written
  <2>3. CASE PutBack(t)
    BY <1>1, <2>3, Zenon DEF PutBack, Return, Written
  <2>4. CASE Push(t) \/ PushStore(t)
    BY <1>1, <2>4, Zenon DEF Push, PushStore, Written
  <2>5. CASE Link(t)
    BY <1>1, <2>5, Zenon DEF Link, Return, Written
  <2> QED
    BY <2>1, <2>2, <2>3, <2>4, <2>5, Zenon
<1>5. ASSUME pc[t] \in Written, pc'[t] \in Written, cur' = cur, ret' = ret
      PROVE  KnowsSlot(t)'
  <2>1. Call(t)' = Call(t) /\ Dest(t)' = Dest(t) /\ At(t)' = At(t) /\ neighbor' = neighbor
    BY <1>2, <1>5, CallUnchanged, Zenon DEF At, SameWords
  <2> QED
    BY <1>1, <1>5, <2>1, Zenon DEF KnowsSlot, Written
<1>6. ASSUME pc'[t] \in {"slot", "call"}
      PROVE  KnowsSlot(t)'
  BY <1>6, Zenon DEF KnowsSlot, Written
<1> QED
  BY <1>1, <1>2, <1>4, <1>5, <1>6, QuietRefines, Zenon

-----------------------------------------------------------------------------
(***************************************************************************)
(* Steps that write the store.                                             *)
(***************************************************************************)

\* Writing where nobody can look is invisible.
LEMMA Invisible ==
  ASSUME \A b \in Blocks : \A k \in Index :
           /\ Published(b, k)' = Published(b, k)
           /\ Published(b, k) => blk'[b] = blk[b] /\ neighbor'[<<b, k>>] = neighbor[<<b, k>>]
  PROVE  PublishedHalfEdges' = PublishedHalfEdges
<1>1. ASSUME NEW h \in PublishedHalfEdges
      PROVE  h \in PublishedHalfEdges'
  <2>1. PICK b \in Blocks : \E k \in Index :
          /\ Published(b, k) /\ h[1] = blk[b].vertexID /\ h[2] = blk[b].etype
          /\ h[3] = neighbor[<<b, k>>].to /\ h[4] \in neighbor[<<b, k>>].dir
    BY Zenon DEF PublishedHalfEdges
  <2>2. PICK k \in Index :
          /\ Published(b, k) /\ h[1] = blk[b].vertexID /\ h[2] = blk[b].etype
          /\ h[3] = neighbor[<<b, k>>].to /\ h[4] \in neighbor[<<b, k>>].dir
    BY <2>1, Zenon
  <2>3. /\ Published(b, k) /\ Published(b, k)'
        /\ blk'[b] = blk[b] /\ neighbor'[<<b, k>>] = neighbor[<<b, k>>]
    BY <2>2, Zenon
  <2>4. h \in HalfEdges
    BY Zenon DEF PublishedHalfEdges
  <2>5. /\ Published(b, k)' /\ h[1] = blk'[b].vertexID /\ h[2] = blk'[b].etype
        /\ h[3] = neighbor'[<<b, k>>].to /\ h[4] \in neighbor'[<<b, k>>].dir
    BY <2>2, <2>3, Zenon
  <2> QED
    BY <2>4, <2>5, Zenon DEF PublishedHalfEdges
<1>2. ASSUME NEW h \in PublishedHalfEdges'
      PROVE  h \in PublishedHalfEdges
  <2>1. PICK b \in Blocks : \E k \in Index :
          /\ Published(b, k)' /\ h[1] = blk'[b].vertexID /\ h[2] = blk'[b].etype
          /\ h[3] = neighbor'[<<b, k>>].to /\ h[4] \in neighbor'[<<b, k>>].dir
    BY Zenon DEF PublishedHalfEdges
  <2>2. PICK k \in Index :
          /\ Published(b, k)' /\ h[1] = blk'[b].vertexID /\ h[2] = blk'[b].etype
          /\ h[3] = neighbor'[<<b, k>>].to /\ h[4] \in neighbor'[<<b, k>>].dir
    BY <2>1, Zenon
  <2>3. /\ Published(b, k) /\ Published(b, k)'
        /\ blk'[b] = blk[b] /\ neighbor'[<<b, k>>] = neighbor[<<b, k>>]
    BY <2>2, Zenon
  <2>4. h \in HalfEdges
    BY Zenon DEF PublishedHalfEdges
  <2>5. /\ Published(b, k) /\ h[1] = blk[b].vertexID /\ h[2] = blk[b].etype
        /\ h[3] = neighbor[<<b, k>>].to /\ h[4] \in neighbor[<<b, k>>].dir
    BY <2>2, <2>3, Zenon
  <2> QED
    BY <2>4, <2>5, Zenon DEF PublishedHalfEdges
<1> QED
  BY <1>1, <1>2, Zenon

\* Of what can be found, a step writes the slot of thread t at most.
WritesOwnSlot(t) ==
  /\ blk' = blk /\ cur' = cur
  /\ \A b \in Blocks : \A k \in Index : <<b, k>> # At(t) =>
       Published(b, k)' = Published(b, k) /\ neighbor'[<<b, k>>] = neighbor[<<b, k>>]

\* Afterwards that slot can be found and has the direction of the call, and nothing
\* else that it had not before.
AddsCall(t) ==
  /\ cur[t].b \in Blocks /\ cur[t].k \in Index
  /\ blk[cur[t].b].vertexID = Src(t) /\ blk[cur[t].b].etype = Call(t).type
  /\ Published(cur[t].b, cur[t].k)'
  /\ neighbor'[At(t)].to = Dest(t)
  /\ \/ /\ ~Published(cur[t].b, cur[t].k)
        /\ neighbor'[At(t)].dir = {Call(t).direction}
     \/ /\ neighbor[At(t)].to = Dest(t)
        /\ neighbor'[At(t)].dir = neighbor[At(t)].dir \cup {Call(t).direction}
        /\ Published(cur[t].b, cur[t].k)

\* Writing the neighbor and the direction of its call into its own slot is the step
\* that adds the half-edge of the call.
LEMMA Publishes ==
  ASSUME TypeOK, NEW t \in Threads, HasCall(t), work' = work, ret' = ret,
         WritesOwnSlot(t), AddsCall(t)
  PROVE  Abstract!Insert(t)
<1> DEFINE g == HalfEdgeOf(Call(t))
<1>1. g \in HalfEdges
  BY CallHalfEdge, Zenon
<1>2. g[1] = Src(t) /\ g[2] = Call(t).type /\ g[3] = Dest(t) /\ g[4] = Call(t).direction
  BY CallHalfEdge, Zenon
<1>3. \A h \in HalfEdges : h[1] = g[1] /\ h[2] = g[2] /\ h[3] = g[3] /\ h[4] = g[4] => h = g
  BY <1>1, SameHalfEdge, Zenon
<1> HIDE DEF g
<1> DEFINE On(h, b, k) == /\ h[1] = blk[b].vertexID /\ h[2] = blk[b].etype
                          /\ h[3] = neighbor[<<b, k>>].to /\ h[4] \in neighbor[<<b, k>>].dir
           OnNext(h, b, k) == /\ h[1] = blk'[b].vertexID /\ h[2] = blk'[b].etype
                              /\ h[3] = neighbor'[<<b, k>>].to /\ h[4] \in neighbor'[<<b, k>>].dir
<1>4. ASSUME NEW h \in HalfEdges
      PROVE  /\ h \in PublishedHalfEdges <=>
                  \E b \in Blocks : \E k \in Index : Published(b, k) /\ On(h, b, k)
             /\ h \in PublishedHalfEdges' <=>
                  \E b \in Blocks : \E k \in Index : Published(b, k)' /\ OnNext(h, b, k)
  BY DEF PublishedHalfEdges
<1>5. At(t) = <<cur[t].b, cur[t].k>>
  BY Zenon DEF At
<1>6. ASSUME NEW h \in HalfEdges, NEW b \in Blocks, NEW k \in Index, Published(b, k), On(h, b, k)
      PROVE  Published(b, k)' /\ OnNext(h, b, k)
  <2>1. CASE <<b, k>> # At(t)
    BY <1>6, <2>1, Zenon DEF WritesOwnSlot
  <2>2. CASE <<b, k>> = At(t)
    <3>1. b = cur[t].b /\ k = cur[t].k
      BY <2>2, CursorSlot
    <3>2. /\ neighbor[At(t)].to = Dest(t) /\ neighbor'[At(t)].to = Dest(t) /\ blk' = blk
          /\ neighbor'[At(t)].dir = neighbor[At(t)].dir \cup {Call(t).direction}
          /\ Published(b, k)'
      BY <1>6, <3>1, Zenon DEF WritesOwnSlot, AddsCall
    <3> QED
      BY <1>6, <2>2, <3>2, Zenon
  <2> QED
    BY <2>1, <2>2
<1>7. ASSUME NEW h \in HalfEdges, NEW b \in Blocks, NEW k \in Index, Published(b, k)', OnNext(h, b, k)
      PROVE  h = g \/ (Published(b, k) /\ On(h, b, k))
  <2>1. CASE <<b, k>> # At(t)
    BY <1>7, <2>1, Zenon DEF WritesOwnSlot
  <2>2. CASE <<b, k>> = At(t)
    <3>1. b = cur[t].b /\ k = cur[t].k
      BY <2>2, CursorSlot
    <3>2. h[1] = Src(t) /\ h[2] = Call(t).type /\ h[3] = Dest(t) /\ h[4] \in neighbor'[At(t)].dir
      BY <1>7, <2>2, <3>1, Zenon DEF WritesOwnSlot, AddsCall
    <3>3. CASE h[4] = Call(t).direction
      BY <1>2, <1>3, <3>2, <3>3, Zenon
    <3>4. CASE h[4] # Call(t).direction
      <4>1. /\ neighbor[At(t)].to = Dest(t) /\ h[4] \in neighbor[At(t)].dir
            /\ Published(cur[t].b, cur[t].k)
        BY <3>2, <3>4, Zenon DEF AddsCall
      <4>2. h[1] = blk[b].vertexID /\ h[2] = blk[b].etype
        BY <1>7, Zenon DEF WritesOwnSlot
      <4> QED
        BY <2>2, <3>1, <3>2, <4>1, <4>2, Zenon
    <3> QED
      BY <3>3, <3>4, Zenon
  <2> QED
    BY <2>1, <2>2
<1>8. \E b \in Blocks : \E k \in Index : Published(b, k)' /\ OnNext(g, b, k)
  <2>1. PICK b \in Blocks : b = cur[t].b
    BY Zenon DEF AddsCall
  <2>2. PICK k \in Index : k = cur[t].k
    BY Zenon DEF AddsCall
  <2>3. Published(b, k)'
    BY <2>1, <2>2, Zenon DEF WritesOwnSlot, AddsCall
  <2>4. OnNext(g, b, k)
    BY <1>2, <1>5, <2>1, <2>2, Zenon DEF WritesOwnSlot, AddsCall
  <2> QED
    BY <2>3, <2>4, Zenon
<1>9. \A h \in HalfEdges : h \in PublishedHalfEdges' <=> h \in PublishedHalfEdges \/ h = g
  <2> HIDE DEF On, OnNext
  <2>1. ASSUME NEW h \in HalfEdges, h \in PublishedHalfEdges'
        PROVE  h \in PublishedHalfEdges \/ h = g
    BY <1>4, <1>7, <2>1, Zenon
  <2>2. ASSUME NEW h \in HalfEdges, h \in PublishedHalfEdges
        PROVE  h \in PublishedHalfEdges'
    BY <1>4, <1>6, <2>2, Zenon
  <2>3. g \in PublishedHalfEdges'
    BY <1>1, <1>4, <1>8, Zenon
  <2> QED
    BY <2>1, <2>2, <2>3, Zenon
<1>10. PublishedHalfEdges \subseteq HalfEdges /\ PublishedHalfEdges' \subseteq HalfEdges
  BY Zenon DEF PublishedHalfEdges
<1>11. PublishedHalfEdges' = PublishedHalfEdges \cup {g}
  BY <1>1, <1>9, <1>10, Zenon DEF g
<1>12. [u \in Threads |-> Len(ret[u])][t] = Len(ret[t])
  BY Zenon
<1> QED
  BY <1>11, <1>12, Zenon DEF g, Abstract!Insert, Abstract!Current, HasCall, Call

\* The neighbor word of a slot that nobody can find yet.
LEMMA SetNeighborRefines ==
  ASSUME InsertInvariant, ~aborted, SlotsKnown, NEW t \in Threads, SetNeighbor(t)
  PROVE  SlotsKnown' /\ [Abstract!Next]_absVars
<1> USE DEF slotVars, blockVars, listVars, callVars, localVars, Goto
<1>1. TypeOK /\ Step(t) /\ ThreadOK(t) /\ pc \in [Threads -> Labels] /\ \A u \in Threads : ThreadOK(u)
  BY Zenon DEF Step, InsertInvariant, TypeOK
<1>2. /\ tail' = tail /\ blk' = blk /\ high' = high /\ work' = work /\ ret' = ret /\ cur' = cur
      /\ pc[t] = "neighbor" /\ pc'[t] = "register" /\ IsNewEdge(t)
      /\ neighbor' = [neighbor EXCEPT ![At(t)] = NeighborWord(t)]
  BY <1>1, Zenon DEF SetNeighbor
<1>3. cur[t].b \in Blocks /\ cur[t].k \in Index /\ cur[t].b \in Alloc
  BY <1>1, <1>2, AtSlot, Zenon DEF UpdateLabels
<1>4. Filling(t)
  BY <1>1, <1>2, <1>3, NeverBlank, Zenon DEF IsNewEdge, Filling, At
<1>5. cur[t].k = high[cur[t].b] /\ At(t) \in Slots
  BY <1>1, <1>4, FillsAtHigh, Zenon
<1>6. /\ neighbor'[At(t)] = NeighborWord(t)
      /\ \A s \in Slots : s # At(t) => neighbor'[s] = neighbor[s]
  BY <1>1, <1>2, <1>5, Zenon DEF TypeOK
<1>7. ASSUME NEW b \in Blocks, NEW k \in Index, k < high[b]
      PROVE  neighbor'[<<b, k>>] = neighbor[<<b, k>>]
  <2>1. k \in Int /\ high[b] \in Int
    BY <1>1 DEF TypeOK, Index
  <2>2. <<b, k>> # At(t)
    BY <1>5, <1>7, <2>1 DEF At
  <2> QED
    BY <1>6, <2>2, Zenon DEF Slots
<1>8. Grows /\ BitsGrow
  <2>1. tail <= tail' /\ \A b \in Blocks : high[b] <= high'[b]
    BY <1>1, <1>2, Numbers, Zenon
  <2> QED
    BY <1>2, <1>7, <2>1, Zenon DEF Grows, BitsGrow, Alloc
<1>9. ASSUME NEW u \in Threads, u # t, Filling(u)
      PROVE  high'[cur[u].b] = high[cur[u].b] /\ neighbor'[At(u)] = neighbor[At(u)]
  <2>1. cur[u].b # cur[t].b /\ At(u) \in Slots
    BY <1>1, <1>4, <1>9, OneFiller, FillsAtHigh, Zenon
  <2>2. At(u) # At(t)
    BY <2>1 DEF At
  <2> QED
    BY <1>2, <1>6, <2>1, <2>2, Zenon
<1>10. KnowsSlot(t)'
  <2>1. NeighborWord(t)' = NeighborWord(t) /\ At(t)' = At(t)
    BY <1>2, CallUnchanged, Zenon DEF NeighborWord, At
  <2> QED
    BY <1>2, <1>6, <2>1, Zenon DEF KnowsSlot, Written
<1>11. SlotsKnown'
  BY <1>1, <1>8, <1>9, <1>10, AllKnow, Zenon
<1>12. ASSUME NEW b \in Blocks, NEW k \in Index
       PROVE  Published(b, k)' = Published(b, k)
  <2>1. CASE k < high[b]
    BY <1>2, <1>7, <2>1, Zenon DEF Published
  <2>2. CASE ~(k < high[b])
    BY <1>2, <2>2, Zenon DEF Published
  <2> QED
    BY <2>1, <2>2
<1>13. PublishedHalfEdges' = PublishedHalfEdges
  BY <1>2, <1>7, <1>12, Invisible, Zenon DEF Published
<1> QED
  BY <1>2, <1>11, <1>13, Zenon DEF absVars

\* Raising high over the slot publishes it.
LEMMA RegisterRefines ==
  ASSUME InsertInvariant, ~aborted, SlotsKnown, NEW t \in Threads, Register(t)
  PROVE  SlotsKnown' /\ [Abstract!Next]_absVars
<1> USE DEF slotVars, listVars, callVars, localVars, Goto
<1>1. /\ TypeOK /\ Step(t) /\ ThreadOK(t) /\ pc \in [Threads -> Labels] /\ KnowsSlot(t)
      /\ \A u \in Threads : ThreadOK(u)
  BY Zenon DEF Step, InsertInvariant, TypeOK, SlotsKnown
<1>2. /\ tail' = tail /\ blk' = blk /\ neighbor' = neighbor /\ work' = work /\ ret' = ret /\ cur' = cur
      /\ pc[t] = "register" /\ pc'[t] = "first_ts"
      /\ high' = [high EXCEPT ![cur[t].b] = IF cur[t].k >= @ THEN cur[t].k + 1 ELSE @]
  BY <1>1, Zenon DEF Register
<1>3. /\ cur[t].b \in Blocks /\ cur[t].k \in Index /\ cur[t].b \in Alloc /\ HasCall(t) /\ cur[t].b # 0
      /\ CursorOK(t) /\ SlotOK(t) /\ OfType(t)
  BY <1>1, <1>2, AtSlot, Zenon DEF UpdateLabels
<1>4. Filling(t)
  BY <1>2, <1>3, Zenon DEF SlotOK, Filling
<1>5. cur[t].k = high[cur[t].b] /\ At(t) \in Slots
  BY <1>1, <1>4, FillsAtHigh, Zenon
<1>6. /\ high'[cur[t].b] = cur[t].k + 1
      /\ \A b \in Blocks : b # cur[t].b => high'[b] = high[b]
      /\ \A b \in Blocks : high[b] \in Int /\ high[b] <= high'[b]
  <2>1. high \in [Blocks -> 0 .. EdgeBlockSize]
    BY <1>1, Zenon DEF TypeOK
  <2>2. cur[t].k \in Int /\ \A b \in Blocks : high[b] \in Int
    BY <1>3, <2>1 DEF Index
  <2>3. cur[t].k >= high[cur[t].b]
    BY <1>5, <2>2
  <2>4. \A b \in Blocks : high'[b] = IF b = cur[t].b THEN cur[t].k + 1 ELSE high[b]
    BY <1>2, <1>3, <2>1, <2>3, Zenon
  <2> QED
    BY <1>3, <1>5, <2>2, <2>4
<1>7. Grows /\ BitsGrow
  <2>1. tail <= tail'
    BY <1>1, <1>2, Numbers, Zenon
  <2> QED
    BY <1>2, <1>6, <2>1, Zenon DEF Grows, BitsGrow, Alloc
<1>8. ASSUME NEW u \in Threads, u # t, Filling(u)
      PROVE  high'[cur[u].b] = high[cur[u].b] /\ neighbor'[At(u)] = neighbor[At(u)]
  <2>1. cur[u].b # cur[t].b /\ cur[u].b \in Blocks
    BY <1>1, <1>4, <1>8, OneFiller, FillsAtHigh, Zenon
  <2> QED
    BY <1>2, <1>6, <2>1, Zenon
<1>9. neighbor[At(t)].to = Dest(t) /\ neighbor[At(t)].dir = {Call(t).direction}
  <2>1. neighbor[At(t)] = NeighborWord(t)
    BY <1>1, <1>2, Zenon DEF KnowsSlot
  <2> QED
    BY <2>1 DEF NeighborWord
<1>10. KnowsSlot(t)'
  <2>1. Call(t)' = Call(t) /\ Dest(t)' = Dest(t) /\ At(t)' = At(t)
    BY <1>2, CallUnchanged, Zenon DEF At
  <2> QED
    BY <1>2, <1>9, <2>1, Zenon DEF KnowsSlot, Written
<1>11. SlotsKnown'
  BY <1>1, <1>7, <1>8, <1>10, AllKnow, Zenon
<1>12. ~Published(cur[t].b, cur[t].k) /\ Published(cur[t].b, cur[t].k)'
  <2>1. cur[t].k \in Int /\ ~(cur[t].k < high[cur[t].b]) /\ cur[t].k < high'[cur[t].b]
    <3>1. cur[t].k \in Int /\ high'[cur[t].b] = cur[t].k + 1
      BY <1>1, <1>3, <1>6, Numbers, Zenon
    <3> QED
      BY <1>5, <3>1
  <2>2. cur[t].b < tail
    BY <1>3, Zenon DEF Alloc
  <2> QED
    BY <1>1, <1>2, <1>3, <2>1, <2>2, NeverBlank, Zenon DEF Published
<1>13. ASSUME NEW b \in Blocks, NEW k \in Index, <<b, k>> # At(t)
       PROVE  Published(b, k)' = Published(b, k)
  <2>1. k < high'[b] <=> k < high[b]
    <3>1. CASE b = cur[t].b
      <4>1. k # cur[t].k
        BY <1>13, <3>1, Zenon DEF At
      <4> QED
        BY <1>3, <1>5, <1>6, <3>1, <4>1 DEF Index
    <3> QED
      BY <1>6, <3>1, Zenon
  <2> QED
    BY <1>2, <2>1, Zenon DEF Published
<1>14. blk[cur[t].b].vertexID = Src(t) /\ blk[cur[t].b].etype = Call(t).type
  BY <1>3, Zenon DEF CursorOK, OfType
<1>15. Abstract!Insert(t)
  <2>1. WritesOwnSlot(t)
    BY <1>2, <1>13, Zenon DEF WritesOwnSlot
  <2>2. AddsCall(t)
    BY <1>2, <1>3, <1>9, <1>12, <1>14, Zenon DEF AddsCall
  <2> QED
    BY <1>1, <1>2, <1>3, <2>1, <2>2, Publishes, Zenon
<1> QED
  BY <1>11, <1>15, Zenon DEF Abstract!Next

\* A direction bit in a slot that can be found.
LEMMA AddDirectionRefines ==
  ASSUME InsertInvariant, ~aborted, SlotsKnown, NEW t \in Threads, AddDirection(t)
  PROVE  SlotsKnown' /\ [Abstract!Next]_absVars
<1> USE DEF slotVars, blockVars, listVars, callVars, localVars, Goto
<1>1. /\ TypeOK /\ Step(t) /\ ThreadOK(t) /\ pc \in [Threads -> Labels] /\ KnowsSlot(t)
      /\ \A u \in Threads : ThreadOK(u)
  BY Zenon DEF Step, InsertInvariant, TypeOK, SlotsKnown
<1>2. /\ tail' = tail /\ blk' = blk /\ high' = high /\ work' = work /\ ret' = ret /\ cur' = cur
      /\ pc[t] = "neighbor" /\ pc'[t] \in Written /\ ~IsNewEdge(t)
  BY <1>1, Zenon DEF AddDirection, AfterNeighbor, Written
<1>3. /\ cur[t].b \in Blocks /\ cur[t].k \in Index /\ cur[t].b \in Alloc /\ HasCall(t) /\ cur[t].b # 0
      /\ CursorOK(t) /\ OfType(t)
  BY <1>1, <1>2, AtSlot, Zenon DEF UpdateLabels
<1>4. cur[t].k \in Int /\ high[cur[t].b] \in Int /\ At(t) \in Slots
  BY <1>1, <1>3 DEF TypeOK, Index, At, Slots
<1>5. ~(cur[t].k >= high[cur[t].b])
  BY <1>2, Zenon DEF IsNewEdge
<1>6. cur[t].k < high[cur[t].b]
  BY <1>4, <1>5
<1>7. neighbor[At(t)].to = Dest(t)
  BY <1>1, <1>2, <1>6, Zenon DEF KnowsSlot
<1>8. /\ neighbor'[At(t)].to = Dest(t)
      /\ neighbor'[At(t)].dir = neighbor[At(t)].dir \cup {Call(t).direction}
      /\ \A s \in Slots : s # At(t) => neighbor'[s] = neighbor[s]
  <2>1. CASE Call(t).direction \in neighbor[At(t)].dir
    <3>1. neighbor' = neighbor
      BY <2>1, Zenon DEF AddDirection
    <3> QED
      BY <1>7, <2>1, <3>1
  <2>2. CASE Call(t).direction \notin neighbor[At(t)].dir
    <3>1. neighbor' = [neighbor EXCEPT ![At(t)].dir = @ \cup {Call(t).direction}]
      BY <2>2, Zenon DEF AddDirection
    <3>2. /\ neighbor \in [Slots -> [to : Vertices, dir : SUBSET {DirOut, DirIn}]]
          /\ neighbor[At(t)] \in [to : Vertices, dir : SUBSET {DirOut, DirIn}]
      BY <1>1, <1>4, Zenon DEF TypeOK
    <3>3. neighbor'[At(t)] = [neighbor[At(t)] EXCEPT !.dir = @ \cup {Call(t).direction}]
      BY <1>4, <3>1, <3>2, Zenon
    <3>4. \A s \in Slots : s # At(t) => neighbor'[s] = neighbor[s]
      BY <3>1, <3>2, Zenon
    <3> QED
      BY <1>7, <3>2, <3>3, <3>4
  <2> QED
    BY <2>1, <2>2
<1>9. ASSUME NEW b \in Blocks, NEW k \in Index
      PROVE  /\ <<b, k>> # At(t) => neighbor'[<<b, k>>] = neighbor[<<b, k>>]
             /\ neighbor'[<<b, k>>].to = neighbor[<<b, k>>].to
             /\ neighbor[<<b, k>>].dir \subseteq neighbor'[<<b, k>>].dir
  BY <1>7, <1>8, Zenon DEF Slots
<1>10. Grows /\ BitsGrow
  <2>1. tail <= tail' /\ \A b \in Blocks : high[b] <= high'[b]
    BY <1>1, <1>2, Numbers, Zenon
  <2> QED
    BY <1>2, <1>9, <2>1, Zenon DEF Grows, BitsGrow, Alloc
<1>11. ASSUME NEW u \in Threads, u # t, Filling(u)
       PROVE  high'[cur[u].b] = high[cur[u].b] /\ neighbor'[At(u)] = neighbor[At(u)]
  <2>1. cur[u].k = high[cur[u].b] /\ At(u) \in Slots
    BY <1>1, <1>11, FillsAtHigh, Zenon
  <2>2. At(u) # At(t)
    BY <1>4, <1>6, <2>1 DEF At
  <2> QED
    BY <1>2, <1>8, <2>1, <2>2, Zenon
<1>12. KnowsSlot(t)'
  <2>1. Call(t)' = Call(t) /\ Dest(t)' = Dest(t) /\ At(t)' = At(t)
    BY <1>2, CallUnchanged, Zenon DEF At
  <2>2. Call(t).direction \in neighbor'[At(t)].dir
    BY <1>8, Zenon
  <2> QED
    BY <1>2, <1>8, <2>1, <2>2, Zenon DEF KnowsSlot, Written
<1>13. SlotsKnown'
  BY <1>1, <1>10, <1>11, <1>12, AllKnow, Zenon
<1>14. \A b \in Blocks : \A k \in Index : Published(b, k)' = Published(b, k)
  BY <1>2, <1>9, Zenon DEF Published
<1>15. Published(cur[t].b, cur[t].k) /\ Published(cur[t].b, cur[t].k)'
  <2>1. cur[t].b < tail
    BY <1>3, Zenon DEF Alloc
  <2>2. Published(cur[t].b, cur[t].k)
    BY <1>1, <1>3, <1>6, <2>1, NeverBlank, Zenon DEF Published
  <2> QED
    BY <1>2, <1>3, <1>14, <2>2, Zenon
<1>16. blk[cur[t].b].vertexID = Src(t) /\ blk[cur[t].b].etype = Call(t).type
  BY <1>3, Zenon DEF CursorOK, OfType
<1>17. Abstract!Insert(t)
  <2>1. WritesOwnSlot(t)
    BY <1>2, <1>9, <1>14, Zenon DEF WritesOwnSlot
  <2>2. AddsCall(t)
    BY <1>2, <1>3, <1>7, <1>8, <1>15, <1>16, Zenon DEF AddsCall
  <2> QED
    BY <1>1, <1>2, <1>3, <2>1, <2>2, Publishes, Zenon
<1> QED
  BY <1>13, <1>17, Zenon DEF Abstract!Next

\* A new block has nothing in it.
LEMMA NewEbRefines ==
  ASSUME InsertInvariant, ~aborted, SlotsKnown, NEW t \in Threads, NewEb(t)
  PROVE  SlotsKnown' /\ [Abstract!Next]_absVars
<1>1. /\ TypeOK /\ Step(t) /\ ThreadOK(t) /\ pc \in [Threads -> Labels] /\ cur \in [Threads -> Cursors]
      /\ \A u \in Threads : ThreadOK(u)
  BY Zenon DEF Step, InsertInvariant, TypeOK
<1>2. /\ tail' = tail + 1 /\ tail + 1 < MaxBlocks /\ work' = work /\ ret' = ret
      /\ blk' = [blk EXCEPT ![tail] = [etype |-> Call(t).type, vertexID |-> Src(t)]]
      /\ high' = [high EXCEPT ![tail] = 0]
      /\ neighbor' = [s \in Slots |-> IF s[1] = tail THEN ZeroWord ELSE neighbor[s]]
      /\ cur' = [cur EXCEPT ![t] = [loc |-> cur[t].loc, b |-> tail, k |-> 0, endk |-> 0]]
      /\ pc'[t] = "update"
  BY <1>1, Zenon DEF NewEb, Goto, callVars
<1>3. tail \in Nat \ {0} /\ tail \in Blocks /\ \A b \in Alloc : b \in Blocks /\ b # tail
  <2>1. tail \in Nat \ {0} /\ tail + 1 < MaxBlocks
    BY <1>1, <1>2, Numbers, Zenon
  <2> QED
    BY <2>1, ConstantsAssumption DEF Blocks, Alloc
<1>4. \A b \in Blocks : b # tail => /\ blk'[b] = blk[b] /\ high'[b] = high[b]
                                    /\ \A k \in Index : neighbor'[<<b, k>>] = neighbor[<<b, k>>]
  <2>1. ASSUME NEW b \in Blocks, NEW k \in Index, b # tail
        PROVE  neighbor'[<<b, k>>] = neighbor[<<b, k>>]
    <3>1. <<b, k>> \in Slots /\ <<b, k>>[1] # tail
      BY <2>1 DEF Slots
    <3> QED
      BY <1>2, <3>1, Zenon
  <2> QED
    BY <1>1, <1>2, <2>1, Zenon DEF TypeOK
<1>5. high'[tail] = 0 /\ cur'[t].b = tail /\ cur'[t].k = 0
  BY <1>1, <1>2, <1>3 DEF TypeOK
<1>6. Grows /\ BitsGrow
  <2>1. tail <= tail' /\ \A b \in Alloc : high[b] <= high'[b]
    <3>1. high \in [Blocks -> 0 .. EdgeBlockSize]
      BY <1>1, Zenon DEF TypeOK
    <3>2. \A b \in Alloc : high'[b] = high[b] /\ high[b] \in 0 .. EdgeBlockSize
      BY <1>3, <1>4, <3>1, Zenon
    <3> QED
      BY <1>2, <1>3, <3>2, ConstantsAssumption
  <2> QED
    BY <1>3, <1>4, <2>1, Zenon DEF Grows, BitsGrow
<1>7. ASSUME NEW u \in Threads, Filling(u)
      PROVE  high'[cur[u].b] = high[cur[u].b] /\ neighbor'[At(u)] = neighbor[At(u)]
  <2>1. cur[u].b \in Alloc /\ cur[u].k \in Index
    BY <1>1, <1>7, FillsAtHigh, Zenon
  <2> QED
    BY <1>3, <1>4, <2>1, Zenon DEF At
<1>8. KnowsSlot(t)'
  <2>1. ~(cur'[t].k < high'[cur'[t].b])
    BY <1>5
  <2> QED
    BY <1>2, <2>1, Zenon DEF KnowsSlot, Written
<1>9. SlotsKnown'
  BY <1>1, <1>6, <1>7, <1>8, AllKnow, Zenon
<1>10. ASSUME NEW b \in Blocks, NEW k \in Index
       PROVE  /\ Published(b, k)' = Published(b, k)
              /\ Published(b, k) => blk'[b] = blk[b] /\ neighbor'[<<b, k>>] = neighbor[<<b, k>>]
  <2>1. CASE b # tail
    <3>1. b < tail' <=> b < tail
      BY <1>2, <1>3, <2>1 DEF Blocks
    <3> QED
      BY <1>4, <2>1, <3>1, Zenon DEF Published
  <2>2. CASE b = tail
    <3>1. ~(b < tail) /\ ~(k < high'[b])
      BY <1>3, <1>5, <2>2, ConstantsAssumption DEF Index
    <3> QED
      BY <3>1, Zenon DEF Published
  <2> QED
    BY <2>1, <2>2
<1>11. PublishedHalfEdges' = PublishedHalfEdges
  BY <1>10, Invisible, Zenon
<1> QED
  BY <1>2, <1>9, <1>11, Zenon DEF absVars

\* A pool that is used up changes no block.
LEMMA OutOfBlocksRefines ==
  ASSUME InsertInvariant, ~aborted, SlotsKnown, NEW t \in Threads, OutOfBlocks(t)
  PROVE  SlotsKnown' /\ [Abstract!Next]_absVars
<1> USE DEF slotVars, callVars, localVars
<1>1. TypeOK /\ \A b \in Blocks : b >= tail => high[b] = 0
  BY Zenon DEF InsertInvariant
<1>2. /\ tail' = tail + 1 /\ blk' = blk /\ high' = high /\ neighbor' = neighbor
      /\ work' = work /\ ret' = ret /\ pc' = pc /\ cur' = cur
  BY Zenon DEF OutOfBlocks
<1>3. ASSUME NEW u \in Threads PROVE KnowsSlot(u)'
  <2>1. /\ Call(u)' = Call(u) /\ Dest(u)' = Dest(u)
        /\ At(u)' = At(u) /\ NeighborWord(u)' = NeighborWord(u)
    BY <1>2, CallUnchanged, Zenon DEF At, NeighborWord
  <2> QED
    BY <1>2, <2>1, Zenon DEF SlotsKnown, KnowsSlot
<1>4. ASSUME NEW b \in Blocks, NEW k \in Index
      PROVE  Published(b, k)' = Published(b, k)
  <2>1. CASE b < tail
    <3>1. b < tail'
      BY <1>1, <1>2, <2>1 DEF TypeOK, Blocks
    <3> QED
      BY <1>2, <2>1, <3>1, Zenon DEF Published
  <2>2. CASE ~(b < tail)
    <3>1. ~(k < high[b])
      BY <1>1, <2>2, ConstantsAssumption DEF TypeOK, Blocks, Index
    <3> QED
      BY <1>2, <2>2, <3>1, Zenon DEF Published
  <2> QED
    BY <2>1, <2>2
<1>5. PublishedHalfEdges' = PublishedHalfEdges
  BY <1>2, <1>4, Invisible, Zenon
<1> QED
  BY <1>2, <1>3, <1>5, Zenon DEF SlotsKnown, absVars

-----------------------------------------------------------------------------
LEMMA RefinementStep ==
  ASSUME InsertInvariant, SlotsKnown, [Next]_vars
  PROVE  SlotsKnown' /\ [Abstract!Next]_absVars
<1>1. ASSUME ~aborted, NEW t \in Threads, Step(t)
      PROVE  SlotsKnown' /\ [Abstract!Next]_absVars
  BY <1>1, WalkRefines, FindRefines, LockWeightRefines, FinishRefines, SetNeighborRefines,
     RegisterRefines, AddDirectionRefines, NewEbRefines, OutOfBlocksRefines, Zenon DEF Step
<1>2. ASSUME UNCHANGED vars
      PROVE  SlotsKnown' /\ [Abstract!Next]_absVars
  <2>1. /\ tail' = tail /\ blk' = blk /\ high' = high /\ neighbor' = neighbor
        /\ work' = work /\ ret' = ret /\ pc' = pc /\ cur' = cur
    BY <1>2, Zenon DEF vars, slotVars, blockVars, callVars, localVars
  <2>2. PublishedHalfEdges' = PublishedHalfEdges
    BY <2>1, Zenon DEF PublishedHalfEdges, Published
  <2>3. ASSUME NEW u \in Threads PROVE KnowsSlot(u)'
    <3>1. /\ Call(u)' = Call(u) /\ Dest(u)' = Dest(u)
          /\ At(u)' = At(u) /\ NeighborWord(u)' = NeighborWord(u)
      BY <2>1, CallUnchanged, Zenon DEF At, NeighborWord
    <3> QED
      BY <2>1, <3>1, Zenon DEF SlotsKnown, KnowsSlot
  <2> QED
    BY <2>1, <2>2, <2>3, Zenon DEF SlotsKnown, absVars
<1> QED
  BY <1>1, <1>2, Zenon DEF Next, Terminated

LEMMA RefinementInit ==
  ASSUME Init
  PROVE  SlotsKnown /\ Abstract!Init
<1>1. /\ tail = 1 /\ work \in Work /\ ret = [t \in Threads |-> << >>]
      /\ pc = [t \in Threads |-> "call"]
  BY Zenon DEF Init
<1>2. SlotsKnown
  BY <1>1, Zenon DEF SlotsKnown, KnowsSlot, Written
<1>3. \A b \in Blocks : ~(b < tail)
  BY <1>1, ConstantsAssumption DEF Blocks
<1>4. PublishedHalfEdges = {}
  BY <1>3, Zenon DEF PublishedHalfEdges, Published
<1>5. [t \in Threads |-> Len(ret[t])] = [t \in Threads |-> 0]
  BY <1>1
<1> QED
  BY <1>1, <1>2, <1>4, <1>5, Zenon DEF Abstract!Init

\* stinger_update_directed_edge, called by any number of threads on any list of
\* calls: what readers can find is a set of half-edges, to which each call adds its
\* own in one step before it returns, and nothing else.
THEOREM Refinement == Spec => ImplementsAdjacency
<1>1. InsertInvariant /\ SlotsKnown /\ [Next]_vars => SlotsKnown' /\ [Abstract!Next]_absVars
  BY RefinementStep
<1>2. Init => SlotsKnown /\ Abstract!Init
  BY RefinementInit
<1> QED
  BY <1>1, <1>2, Invariance, PTL DEF Spec, ImplementsAdjacency, Abstract!Spec, absVars
=============================================================================
