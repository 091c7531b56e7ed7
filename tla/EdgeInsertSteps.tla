-------------------------- MODULE EdgeInsertSteps ---------------------------
(***************************************************************************)
(* What every step of concurrent insertion keeps of the invariant of       *)
(* EdgeInsertInvariant: that it keeps the types, what a step of one thread *)
(* leaves standing for the others, the order of the lists, and the steps   *)
(* that walk the lists, lock a slot and update it.                         *)
(***************************************************************************)
EXTENDS EdgeInsertInvariant, TLAPS

(***************************************************************************)
(* Types.                                                                  *)
(***************************************************************************)

\* The numbers of the store.
LEMMA Numbers ==
  ASSUME TypeOK
  PROVE  /\ tail \in Nat \ {0} /\ tail <= tail
         /\ \A b \in Blocks : high[b] \in Int /\ high[b] <= high[b]
         /\ \A k \in Index : k \in Int
<1>1. tail \in Nat \ {0} /\ high \in [Blocks -> 0 .. EdgeBlockSize]
  BY Zenon DEF TypeOK
<1>2. \A b \in Blocks : high[b] \in 0 .. EdgeBlockSize
  BY <1>1, Zenon
<1> QED
  BY <1>1, <1>2 DEF Index

\* The call a thread executes names a type and two vertices of the structure.
LEMMA CallTyped ==
  ASSUME TypeOK, NEW t \in Threads, HasCall(t)
  PROVE  Call(t) \in Calls /\ Src(t) \in Vertices /\ Dest(t) \in Vertices
<1>1. Len(ret[t]) + 1 \in 1 .. Len(work[t])
  BY DEF TypeOK, HasCall
<1>2. Call(t) \in Calls
  BY <1>1 DEF TypeOK, Call
<1> QED
  BY <1>2, Zenon DEF Calls, Src, Dest

\* A step that leaves work and ret alone leaves the thread's call alone.
LEMMA CallUnchanged ==
  ASSUME NEW t \in Threads, work' = work, ret'[t] = ret[t]
  PROVE  /\ HasCall(t)' = HasCall(t)
         /\ Call(t)' = Call(t)
         /\ Src(t)' = Src(t)
         /\ Dest(t)' = Dest(t)
BY Zenon DEF HasCall, Call, Src, Dest


\* What a thread's invariant says of the ranges of its cursor.
LEMMA CursorTyped ==
  ASSUME TypeOK, NEW t \in Threads, ThreadOK(t), pc[t] # "call"
  PROVE  /\ HasCall(t)
         /\ cur[t].b # 0 => cur[t].b \in Blocks /\ cur[t].b \in Locations
         /\ pc[t] \in {"lock_slot", "locked", "put_back", "put_back_return", "push",
                       "push_store", "link"} \cup UpdateLabels =>
              cur[t].b \in Blocks /\ cur[t].k \in Index /\ At(t) \in Slots
<1>1. HasCall(t)
  BY Zenon DEF ThreadOK, CursorOK
<1>2. cur[t].b # 0 => cur[t].b \in Blocks
  BY Zenon DEF TypeOK, Cursors
<1>3. \A b \in Blocks : b \in Locations
  BY ConstantsAssumption DEF Blocks, Locations
<1>4. ASSUME pc[t] \in {"lock_slot", "locked", "put_back", "put_back_return", "push",
                        "push_store", "link"} \cup UpdateLabels
      PROVE  cur[t].b \in Blocks /\ cur[t].k \in Index /\ At(t) \in Slots
  <2>1. cur[t].b # 0 /\ cur[t].k \in Index
    BY <1>4, Zenon DEF ThreadOK, SlotOK
  <2> QED
    BY <1>2, <2>1, Zenon DEF At, Slots
<1> QED
  BY <1>1, <1>2, <1>3, <1>4, Zenon

\* Type correctness of one step.
LEMMA TypeStep ==
  ASSUME InsertInvariant, ~aborted, NEW t \in Threads, Step(t)
  PROVE  TypeOK'
<1> USE ConstantsAssumption DEF slotVars, blockVars, listVars, callVars, localVars, Goto
<1>1. TypeOK /\ ThreadOK(t)
  BY Zenon DEF InsertInvariant
<1>2. HasCall(t) => Call(t) \in Calls /\ Src(t) \in Vertices /\ Dest(t) \in Vertices
  BY <1>1, CallTyped, Zenon
<1>3. /\ pc[t] # "call" => HasCall(t) /\ (cur[t].b # 0 => cur[t].b \in Blocks /\ cur[t].b \in Locations)
      /\ pc[t] \in {"lock_slot", "locked", "put_back", "put_back_return", "push",
                    "push_store", "link"} \cup UpdateLabels =>
           cur[t].b \in Blocks /\ cur[t].k \in Index /\ At(t) \in Slots
  <2>1. CASE pc[t] = "call"
    BY <2>1, Zenon DEF UpdateLabels
  <2>2. CASE pc[t] # "call"
    BY <1>1, <2>2, CursorTyped, Zenon
  <2> QED
    BY <2>1, <2>2, Zenon
<1>4. cur[t] \in Cursors /\ job[t] \in Jobs
  BY <1>1, Zenon DEF TypeOK
<1>5. ASSUME NEW l \in Locations, ptr[l] # MARKER, GotoBlock(t, l, ptr[l])
      PROVE  cur' \in [Threads -> Cursors]
  <2>1. ptr[l] \in {0} \cup Blocks
    BY <1>1, <1>5, Zenon DEF TypeOK, MARKER
  <2>2. (IF ptr[l] = 0 THEN 0 ELSE high[ptr[l]]) \in 0 .. EdgeBlockSize
    BY <1>1, <2>1 DEF TypeOK
  <2> QED
    BY <1>1, <2>1, <2>2, <1>5 DEF TypeOK, GotoBlock, EndOf, Cursors
<1>6. ASSUME NextSlot(t), cur[t].k < EdgeBlockSize
      PROVE  cur' \in [Threads -> Cursors]
  <2>1. cur \in [Threads -> Cursors] /\ cur[t].k + 1 \in 0 .. EdgeBlockSize
    BY <1>1, <1>4, <1>6 DEF TypeOK, Cursors
  <2>2. cur' = [cur EXCEPT ![t].k = cur[t].k + 1]
    BY <1>6, Zenon DEF NextSlot
  <2> QED
    BY <2>1, <2>2, Zenon DEF Cursors
<1>7. ASSUME Found(t), HasCall(t)
      PROVE  job' \in [Threads -> Jobs] /\ pc' \in [Threads -> Labels] /\ cur' = cur
  BY <1>1, <1>2, <1>7, Zenon DEF TypeOK, Found, SetJob, Jobs, Calls, Labels
<1>8. ASSUME Return(t, job[t].ret)
      PROVE  ret' \in [Threads -> Seq({0, 1})] /\ pc' \in [Threads -> Labels]
  BY <1>1, <1>4, <1>8 DEF TypeOK, Return, Jobs, Labels
<1>10. CASE StartCall(t)
  <2>1. Head0(Src(t)) \in Locations
    BY <1>2, <1>10 DEF StartCall, Head0, Locations, Vertices
  <2>2. cur' \in [Threads -> Cursors]
    BY <2>1, <1>10, <1>5, Zenon DEF StartCall, BeginAt
  <2>3. pc' \in [Threads -> Labels]
    BY <1>1, <1>10, Zenon DEF TypeOK, StartCall, BeginAt, Labels
  <2> QED
    BY <1>1, <1>10, <2>2, <2>3, Zenon DEF TypeOK, StartCall, BeginAt
<1>11. CASE EtypeBegin(t)
  <2>1. cur[t].b \in Locations
    BY <1>1, <1>3, <1>11, Zenon DEF EtypeBegin, ThreadOK, ScanOK
  <2>2. cur' \in [Threads -> Cursors]
    BY <2>1, <1>11, <1>5, Zenon DEF EtypeBegin, BeginAt
  <2>3. pc' \in [Threads -> Labels]
    BY <1>1, <1>11, Zenon DEF TypeOK, EtypeBegin, BeginAt, Labels
  <2> QED
    BY <1>1, <1>11, <2>2, <2>3, Zenon DEF TypeOK, EtypeBegin, BeginAt
<1>12. CASE Search(t)
  <2>1. cur[t].k < EdgeBlockSize
    BY <1>4, <1>12 DEF Search, Cursors
  <2>2. HasCall(t)
    BY <1>3, <1>12, Zenon DEF Search
  <2>3. cur' \in [Threads -> Cursors] /\ job' \in [Threads -> Jobs] /\ pc' \in [Threads -> Labels]
    BY <1>1, <1>6, <1>7, <1>12, <2>1, <2>2, Zenon DEF Search, TypeOK
  <2> QED
    BY <1>1, <1>12, <2>3, Zenon DEF TypeOK, Search
<1>13. CASE SearchNext(t)
  <2>1. cur[t].loc \in Locations /\ cur[t].b \in Locations /\ ptr[cur[t].b] \in {0} \cup Blocks
    BY <1>1, <1>3, <1>4, <1>13, Zenon DEF SearchNext, Cursors, TypeOK, MARKER
  <2>2. (IF ptr[cur[t].b] = 0 THEN 0 ELSE high[ptr[cur[t].b]]) \in 0 .. EdgeBlockSize
    BY <1>1, <2>1 DEF TypeOK
  <2>3. cur' \in [Threads -> Cursors]
    BY <1>1, <2>1, <2>2, <1>13 DEF TypeOK, SearchNext, GotoBlock, EndOf, Cursors
  <2> QED
    BY <1>1, <1>13, <2>3, Zenon DEF TypeOK, SearchNext
<1>14. CASE Relook(t)
  <2>1. cur[t].loc \in Locations
    BY <1>4, Zenon DEF Cursors
  <2>2. cur' \in [Threads -> Cursors]
    BY <2>1, <1>14, <1>5, Zenon DEF Relook
  <2>3. pc' \in [Threads -> Labels]
    BY <1>1, <1>14, Zenon DEF TypeOK, Relook, Labels
  <2> QED
    BY <1>1, <1>14, <2>2, <2>3, Zenon DEF TypeOK, Relook
<1>15. CASE TrySlot(t)
  <2>1. HasCall(t)
    BY <1>3, <1>15, Zenon DEF TrySlot
  <2>2. cur' \in [Threads -> Cursors] /\ job' \in [Threads -> Jobs] /\ pc' \in [Threads -> Labels]
    BY <1>1, <1>6, <1>7, <1>15, <2>1, Zenon DEF TrySlot, TypeOK, Labels
  <2> QED
    BY <1>1, <1>15, <2>2, Zenon DEF TypeOK, TrySlot
<1>16. CASE LockSlot(t)
  <2>1. At(t) \in Slots /\ timeFirst[At(t)] \in Int
    BY <1>1, <1>3, <1>16, Zenon DEF LockSlot, TypeOK
  <2>2. timeFirst' \in [Slots -> Int] /\ saved' \in [Threads -> Int] /\ pc' \in [Threads -> Labels]
    BY <1>1, <2>1, <1>16 DEF TypeOK, LockSlot, Labels, MARKER
  <2> QED
    BY <1>1, <1>16, <2>2, Zenon DEF TypeOK, LockSlot
<1>17. CASE Recheck(t)
  <2>1. HasCall(t) /\ high[cur[t].b] \in 0 .. EdgeBlockSize
    BY <1>1, <1>3, <1>17, Zenon DEF Recheck, EndUnderLock, TypeOK
  <2>2. cur' \in [Threads -> Cursors]
    BY <1>1, <1>4, <2>1, <1>17, Zenon DEF TypeOK, Recheck, EndUnderLock, Cursors
  <2>3. job' \in [Threads -> Jobs]
    <3>1. job \in [Threads -> Jobs] /\ Call(t).operation \in {"set", "incr"}
      BY <1>1, <1>2, <2>1, Zenon DEF TypeOK, Calls
    <3>2. \/ job' = [job EXCEPT ![t] = [operation |-> "set", ret |-> 1, then |-> "return"]]
          \/ job' = [job EXCEPT ![t] = [operation |-> Call(t).operation, ret |-> 0,
                                       then |-> "put_back_return"]]
          \/ job' = job
      BY <1>17, Zenon DEF Recheck, EndUnderLock, SetJob
    <3> QED
      BY <3>1, <3>2 DEF Jobs
  <2>4. pc' \in [Threads -> Labels]
    <3>1. pc' = [pc EXCEPT ![t] = "update"] \/ pc' = [pc EXCEPT ![t] = "put_back"]
      BY <1>17, Zenon DEF Recheck
    <3>2. pc \in [Threads -> Labels] /\ {"update", "put_back"} \subseteq Labels
      BY <1>1, Zenon DEF TypeOK, Labels
    <3> QED
      BY <3>1, <3>2, Zenon
  <2> QED
    BY <1>1, <1>17, <2>2, <2>3, <2>4, Zenon DEF TypeOK, Recheck, EndUnderLock
<1>18. CASE PutBack(t)
  <2>1. At(t) \in Slots /\ cur[t].k < EdgeBlockSize
    BY <1>3, <1>4, <1>18 DEF PutBack, Index, Cursors
  <2>2. timeFirst' \in [Slots -> Int]
    BY <1>1, <2>1, <1>18, Zenon DEF TypeOK, PutBack
  <2>3. cur' \in [Threads -> Cursors] /\ pc' \in [Threads -> Labels] /\ ret' \in [Threads -> Seq({0, 1})]
    BY <1>1, <1>6, <1>8, <2>1, <1>18, Zenon DEF TypeOK, PutBack, Labels
  <2> QED
    BY <1>1, <1>18, <2>2, <2>3, Zenon DEF TypeOK, PutBack
<1>19. CASE SlotNext(t)
  <2>1. cur[t].b \in Locations
    BY <1>3, <1>19, Zenon DEF SlotNext, NextLoc
  <2>2. cur' \in [Threads -> Cursors]
    BY <2>1, <1>19, <1>5, Zenon DEF SlotNext, NextLoc
  <2> QED
    BY <1>1, <1>19, <2>2, Zenon DEF TypeOK, SlotNext, NextLoc
<1>20. CASE LockTail(t)
  <2>1. cur[t].loc \in Locations /\ ptr[cur[t].loc] \in Int
    BY <1>1, <1>4 DEF Cursors, TypeOK, MARKER, Blocks
  <2>2. ptr' \in [Locations -> {MARKER, 0} \cup Blocks] /\ saved' \in [Threads -> Int] /\ pc' \in [Threads -> Labels]
    BY <1>1, <2>1, <1>20, Zenon DEF TypeOK, LockTail, AfterTailLock, Labels
  <2> QED
    BY <1>1, <1>20, <2>2, Zenon DEF TypeOK, LockTail, AfterTailLock
<1>21. CASE TailTaken(t)
  <2>1. saved[t] \in {0} \cup Blocks
    BY <1>1, <1>21, Zenon DEF TailTaken, ThreadOK, LocksOK, HoldsTail, Pending, Follows, Alloc
  <2>2. ptr' \in [Locations -> {MARKER, 0} \cup Blocks] /\ pc' \in [Threads -> Labels]
    BY <1>1, <2>1, <1>21, Zenon DEF TypeOK, TailTaken, Labels
  <2> QED
    BY <1>1, <1>21, <2>2, Zenon DEF TypeOK, TailTaken
<1>22. CASE NewEb(t)
  <2>1. tail \in Blocks /\ HasCall(t)
    BY <1>1, <1>3, <1>22 DEF NewEb, TypeOK, Blocks
  <2>2. tail' \in Nat \ {0} /\ tail' <= MaxBlocks
    BY <1>1, <1>22 DEF NewEb, TypeOK
  <2>3. blk' \in [Blocks -> [etype : ETypes, vertexID : Vertices]]
    <3>1. [etype |-> Call(t).type, vertexID |-> Src(t)] \in [etype : ETypes, vertexID : Vertices]
      BY <1>2, <2>1, Zenon DEF Calls
    <3> QED
      BY <1>1, <3>1, <1>22, Zenon DEF NewEb, TypeOK
  <2>4. high' \in [Blocks -> 0 .. EdgeBlockSize] /\ numEdges' \in [Blocks -> Nat]
    <3>1. high \in [Blocks -> 0 .. EdgeBlockSize] /\ numEdges \in [Blocks -> Nat]
      BY <1>1, Zenon DEF TypeOK
    <3>2. high' = [high EXCEPT ![tail] = 0] /\ numEdges' = [numEdges EXCEPT ![tail] = 0]
      BY <1>22, Zenon DEF NewEb
    <3>3. 0 \in 0 .. EdgeBlockSize /\ 0 \in Nat
      OBVIOUS
    <3>4. high' \in [Blocks -> 0 .. EdgeBlockSize]
      BY <3>1, <3>2, <3>3, Zenon
    <3> QED
      BY <3>1, <3>2, <3>3, <3>4, Zenon
  <2>5. stamps' \in [Blocks -> [small : Int, large : Int]]
    <3>1. NoStamps \in [small : Int, large : Int]
      BY DEF NoStamps
    <3> QED
      BY <1>1, <3>1, <1>22, Zenon DEF NewEb, TypeOK
  <2>6. neighbor' \in [Slots -> [to : Vertices, dir : SUBSET {DirOut, DirIn}]]
    <3>1. ZeroWord \in [to : Vertices, dir : SUBSET {DirOut, DirIn}]
      BY DEF ZeroWord, Vertices
    <3> QED
      BY <1>1, <3>1, <1>22, Zenon DEF NewEb, TypeOK
  <2>7. weight' \in [Slots -> Int] /\ timeFirst' \in [Slots -> Int] /\ timeRecent' \in [Slots -> Int]
    BY <1>1, <1>22 DEF NewEb, TypeOK
  <2>8. ptr' \in [Locations -> {MARKER, 0} \cup Blocks]
    BY <1>1, <1>22, Zenon DEF NewEb, TypeOK
  <2>9. cur' \in [Threads -> Cursors]
    <3>1. [loc |-> cur[t].loc, b |-> tail, k |-> 0, endk |-> 0] \in Cursors
      BY <1>4, <2>1 DEF Cursors
    <3> QED
      BY <1>1, <3>1, <1>22, Zenon DEF NewEb, TypeOK
  <2>10. job' \in [Threads -> Jobs] /\ pc' \in [Threads -> Labels]
    BY <1>1, <1>22, Zenon DEF NewEb, SetJob, TypeOK, Jobs, Labels
  <2> QED
    BY <1>1, <1>22, <2>2, <2>3, <2>4, <2>5, <2>6, <2>7, <2>8, <2>9, <2>10, Zenon DEF TypeOK, NewEb
<1>23. CASE OutOfBlocks(t)
  <2>1. tail' \in Nat \ {0} /\ aborted' = TRUE
    BY <1>1, <1>23 DEF TypeOK, OutOfBlocks
  <2> QED
    BY <1>1, <1>23, <2>1, Zenon DEF TypeOK, OutOfBlocks
<1>24. CASE Push(t)
  <2>1. HasCall(t)
    BY <1>3, <1>24, Zenon DEF Push
  <2>2. Call(t).type \in ETypes
    BY <1>2, <2>1, Zenon DEF Calls
  <2>3. etaHigh' \in [ETypes -> Nat] /\ saved' \in [Threads -> Int] /\ pc' \in [Threads -> Labels]
    <3>1. etaHigh \in [ETypes -> Nat] /\ saved \in [Threads -> Int] /\ pc \in [Threads -> Labels]
      BY <1>1, Zenon DEF TypeOK
    <3>2. /\ etaHigh' = [etaHigh EXCEPT ![Call(t).type] = etaHigh[Call(t).type] + 1]
          /\ saved' = [saved EXCEPT ![t] = etaHigh[Call(t).type]]
          /\ pc' = [pc EXCEPT ![t] = "push_store"]
      BY <1>24, Zenon DEF Push
    <3> QED
      BY <2>2, <3>1, <3>2 DEF Labels
  <2> QED
    BY <1>1, <1>24, <2>3, Zenon DEF TypeOK, Push
<1>25. CASE PushStore(t)
  <2>1. etaBlocks' \in [ETypes \X Places -> {0} \cup Blocks] /\ pc' \in [Threads -> Labels]
    BY <1>1, <1>4, <1>25, Zenon DEF TypeOK, PushStore, Labels, Cursors
  <2> QED
    BY <1>1, <1>25, <2>1, Zenon DEF TypeOK, PushStore
<1>26. CASE Link(t)
  <2>1. ptr' \in [Locations -> {MARKER, 0} \cup Blocks]
    BY <1>1, <1>4, <1>26, Zenon DEF TypeOK, Link, Cursors
  <2>2. ret' \in [Threads -> Seq({0, 1})] /\ pc' \in [Threads -> Labels]
    BY <1>8, <1>26, Zenon DEF Link
  <2> QED
    BY <1>1, <1>26, <2>1, <2>2, Zenon DEF TypeOK, Link
<1>27. CASE LockWeight(t)
  <2>1. At(t) \in Slots /\ HasCall(t)
    BY <1>3, <1>27, Zenon DEF LockWeight, WeightFor, UpdateLabels
  <2>2. weight[At(t)] \in Int /\ Call(t).weight \in Int
    BY <1>1, <1>2, <2>1, Zenon DEF TypeOK, Calls
  <2>3. weight' \in [Slots -> Int] /\ pc' \in [Threads -> Labels]
    <3>1. weight \in [Slots -> Int] /\ pc \in [Threads -> Labels]
      BY <1>1, Zenon DEF TypeOK
    <3>2. weight' = [weight EXCEPT ![At(t)] = MARKER] /\ pc' = [pc EXCEPT ![t] = "neighbor"] /\ MARKER \in Int
      BY <1>27 DEF LockWeight, WeightFor, MARKER
    <3>3. weight' \in [Slots -> Int]
      BY <3>1, <3>2, Zenon
    <3> QED
      BY <3>1, <3>2, <3>3, Zenon DEF Labels
  <2>4. newWeight' \in [Threads -> Int]
    BY <1>1, <2>2, <1>27 DEF TypeOK, LockWeight, WeightFor
  <2> QED
    BY <1>1, <1>27, <2>3, <2>4, Zenon DEF TypeOK, LockWeight, WeightFor
<1>28. CASE SetNeighbor(t)
  <2>1. At(t) \in Slots /\ HasCall(t)
    BY <1>3, <1>28, Zenon DEF SetNeighbor, NeighborWord, UpdateLabels
  <2>2. [to |-> Dest(t), dir |-> {Call(t).direction}] \in [to : Vertices, dir : SUBSET {DirOut, DirIn}]
    BY <1>2, <2>1, Zenon DEF Calls
  <2>3. neighbor' \in [Slots -> [to : Vertices, dir : SUBSET {DirOut, DirIn}]] /\ pc' \in [Threads -> Labels]
    BY <1>1, <2>2, <1>28, Zenon DEF TypeOK, SetNeighbor, NeighborWord, Labels
  <2> QED
    BY <1>1, <1>28, <2>3, Zenon DEF TypeOK, SetNeighbor, NeighborWord
<1>9. ASSUME NEW n \in Int, HasCall(t), cur[t].b \in Blocks, Count(t, n)
      PROVE  vtx' \in [Vertices -> [outDegree : Int, inDegree : Int, degree : Int]]
  <2> DEFINE v == blk[cur[t].b].vertexID
             out == IF Call(t).direction = DirOut THEN 1 ELSE 0
  <2>1. v \in Vertices /\ vtx[v] \in [outDegree : Int, inDegree : Int, degree : Int] /\ out \in Int
    BY <1>1, <1>9, SMTT(30) DEF TypeOK
  <2>2. [outDegree |-> vtx[v].outDegree + out, inDegree |-> vtx[v].inDegree + 1 - out,
         degree |-> vtx[v].degree + n] \in [outDegree : Int, inDegree : Int, degree : Int]
    <3>1. vtx[v].outDegree \in Int /\ vtx[v].inDegree \in Int /\ vtx[v].degree \in Int
      BY <2>1, Zenon
    <3> HIDE DEF v, out
    <3>2. /\ vtx[v].outDegree + out \in Int
          /\ vtx[v].inDegree + 1 - out \in Int
          /\ vtx[v].degree + n \in Int
      BY <3>1, <2>1, <1>9
    <3> QED
      BY <3>2, Zenon
  <2>3. vtx' = [vtx EXCEPT ![v] = [outDegree |-> vtx[v].outDegree + out,
                                   inDegree |-> vtx[v].inDegree + 1 - out,
                                   degree |-> vtx[v].degree + n]]
    BY <1>9, Zenon DEF Count
  <2> HIDE DEF v, out
  <2> QED
    BY <1>1, <2>2, <2>3, Zenon DEF TypeOK
<1>29. CASE Register(t)
  <2>1. cur[t].b \in Blocks /\ HasCall(t) /\ cur[t].k + 1 \in 0 .. EdgeBlockSize
    BY <1>3, <1>29 DEF Register, UpdateLabels, Index
  <2>2. numEdges' \in [Blocks -> Nat]
    <3>1. numEdges \in [Blocks -> Nat]
      BY <1>1, Zenon DEF TypeOK
    <3>2. numEdges' = [numEdges EXCEPT ![cur[t].b] = numEdges[cur[t].b] + 1]
      BY <1>29, Zenon DEF Register
    <3> QED
      BY <2>1, <3>1, <3>2
  <2>3. high' \in [Blocks -> 0 .. EdgeBlockSize]
    BY <1>1, <2>1, <1>29, Zenon DEF TypeOK, Register
  <2>4. vtx' \in [Vertices -> [outDegree : Int, inDegree : Int, degree : Int]]
    BY <1>9, <2>1, <1>29 DEF Register
  <2>5. pc' \in [Threads -> Labels]
    BY <1>1, <1>29, Zenon DEF TypeOK, Register, Labels
  <2> QED
    BY <1>1, <1>29, <2>2, <2>3, <2>4, <2>5, Zenon DEF TypeOK, Register
<1>30. CASE WriteTimeFirst(t)
  <2>1. HasCall(t) /\ At(t) \in Slots
    BY <1>3, <1>30, Zenon DEF WriteTimeFirst, UpdateLabels
  <2>2. Call(t).ts \in Int
    BY <1>2, <2>1 DEF Calls
  <2>3. timeFirst' \in [Slots -> Int] /\ pc' \in [Threads -> Labels]
    BY <1>1, <2>2, <1>30, Zenon DEF TypeOK, WriteTimeFirst, Labels, AfterNeighbor
  <2> QED
    BY <1>1, <1>30, <2>3, Zenon DEF TypeOK, WriteTimeFirst
<1>31. CASE AddDirection(t)
  <2>1. HasCall(t) /\ At(t) \in Slots /\ cur[t].b \in Blocks
    BY <1>3, <1>31, Zenon DEF AddDirection, UpdateLabels
  <2>2. neighbor' \in [Slots -> [to : Vertices, dir : SUBSET {DirOut, DirIn}]]
    <3>1. Call(t).direction \in {DirOut, DirIn}
      BY <1>2, <2>1, Zenon DEF Calls
    <3>2. neighbor[At(t)].dir \cup {Call(t).direction} \in SUBSET {DirOut, DirIn}
      BY <1>1, <2>1, <3>1, Zenon DEF TypeOK
    <3> QED
      <4>1. neighbor \in [Slots -> [to : Vertices, dir : SUBSET {DirOut, DirIn}]]
        BY <1>1, Zenon DEF TypeOK
      <4> DEFINE dir == neighbor[At(t)].dir \cup {Call(t).direction}
                 word == [neighbor[At(t)] EXCEPT !.dir = dir]
      <4>2. neighbor' = neighbor \/ neighbor' = [neighbor EXCEPT ![At(t)] = word]
        BY <1>31, Zenon DEF AddDirection
      <4>3. word \in [to : Vertices, dir : SUBSET {DirOut, DirIn}]
        <5>1. neighbor[At(t)] \in [to : Vertices, dir : SUBSET {DirOut, DirIn}]
          BY <2>1, <4>1, Zenon
        <5> HIDE DEF dir
        <5>2. dir \in SUBSET {DirOut, DirIn}
          BY <3>2, Zenon DEF dir
        <5> QED
          BY <5>1, <5>2
      <4> HIDE DEF word
      <4> QED
        BY <2>1, <4>1, <4>2, <4>3, Zenon
  <2>3. vtx' \in [Vertices -> [outDegree : Int, inDegree : Int, degree : Int]]
    BY <1>1, <1>9, <2>1, <1>31, SMTT(30) DEF AddDirection, TypeOK
  <2>4. pc' \in [Threads -> Labels]
    <3>1. pc' = [pc EXCEPT ![t] = "first_ts"] \/ pc' = [pc EXCEPT ![t] = "release"]
          \/ pc' = [pc EXCEPT ![t] = "stamp"]
      BY <1>31, Zenon DEF AddDirection, AfterNeighbor
    <3>2. pc \in [Threads -> Labels] /\ {"first_ts", "release", "stamp"} \subseteq Labels
      BY <1>1, Zenon DEF TypeOK, Labels
    <3> QED
      BY <3>1, <3>2, Zenon
  <2> QED
    BY <1>1, <1>31, <2>2, <2>3, <2>4, Zenon DEF TypeOK, AddDirection
<1>32. CASE CheckStamps(t)
  BY <1>1, <1>32, Zenon DEF TypeOK, CheckStamps, Labels
<1>33. CASE LockStamps(t)
  <2>1. cur[t].b \in Blocks /\ HasCall(t)
    BY <1>3, <1>33, Zenon DEF LockStamps, UpdateLabels
  <2>2. stamps \in [Blocks -> [small : Int, large : Int]]
    BY <1>1, Zenon DEF TypeOK
  <2>5. stamps[cur[t].b].small \in Int /\ Call(t).ts \in Int
    <3>1. Call(t).ts \in 0 .. MaxStamp - 1
      BY <1>2, <2>1, Zenon DEF Calls
    <3> QED
      BY <2>1, <2>2, <3>1
  <2>3. stamps' \in [Blocks -> [small : Int, large : Int]]
    <3>1. stamps' = [stamps EXCEPT ![cur[t].b].small = -1]
      BY <1>33, Zenon DEF LockStamps, MARKER
    <3> QED
      BY <2>1, <2>2, <3>1
  <2>4. newSmall' \in [Threads -> Int] /\ pc' \in [Threads -> Labels]
    BY <1>1, <2>5, <1>33, Zenon DEF TypeOK, LockStamps, Labels
  <2> QED
    BY <1>1, <1>33, <2>3, <2>4, Zenon DEF TypeOK, LockStamps
<1>34. CASE WriteStamps(t)
  <2>1. cur[t].b \in Blocks /\ HasCall(t)
    BY <1>3, <1>34, Zenon DEF WriteStamps, UpdateLabels
  <2> DEFINE new == [small |-> newSmall[t],
                     large |-> IF Call(t).ts > stamps[cur[t].b].large
                               THEN Call(t).ts ELSE stamps[cur[t].b].large]
  <2>5. stamps \in [Blocks -> [small : Int, large : Int]] /\ newSmall[t] \in Int
    BY <1>1, Zenon DEF TypeOK
  <2>2. new \in [small : Int, large : Int]
    <3>1. Call(t).ts \in 0 .. MaxStamp - 1
      BY <1>2, <2>1, Zenon DEF Calls
    <3> QED
      BY <2>1, <2>5, <3>1
  <2>3. stamps' = [stamps EXCEPT ![cur[t].b] = new]
    BY <1>34, Zenon DEF WriteStamps
  <2> HIDE DEF new
  <2>4. stamps' \in [Blocks -> [small : Int, large : Int]] /\ pc' \in [Threads -> Labels]
    <3>1. stamps' \in [Blocks -> [small : Int, large : Int]]
      BY <2>2, <2>3, <2>5, Zenon
    <3> QED
      BY <1>1, <3>1, <1>34, Zenon DEF TypeOK, WriteStamps, Labels
  <2> QED
    BY <1>1, <1>34, <2>4, Zenon DEF TypeOK, WriteStamps
<1>35. CASE ReleaseWeight(t)
  <2>1. HasCall(t)
    BY <1>3, <1>35, Zenon DEF ReleaseWeight
  <2>2. weight' \in [Slots -> Int] /\ timeRecent' \in [Slots -> Int]
    <3>1. Call(t).ts \in Int
      BY <1>2, <2>1 DEF Calls
    <3>2. weight \in [Slots -> Int] /\ timeRecent \in [Slots -> Int] /\ newWeight[t] \in Int
      BY <1>1, Zenon DEF TypeOK
    <3>3. /\ weight' = [weight EXCEPT ![At(t)] = newWeight[t]]
          /\ timeRecent' = [timeRecent EXCEPT ![At(t)] = Call(t).ts] \/ timeRecent' = timeRecent
      BY <1>35, Zenon DEF ReleaseWeight
    <3> QED
      BY <3>1, <3>2, <3>3, Zenon
  <2>3. ret' \in [Threads -> Seq({0, 1})] /\ pc' \in [Threads -> Labels]
    <3>1. CASE job[t].then = "return"
      BY <1>8, <1>35, <3>1, Zenon DEF ReleaseWeight
    <3>2. CASE job[t].then # "return"
      <4>1. job[t].then \in {"return", "put_back_return", "push"}
        BY <1>4, Zenon DEF Jobs
      <4> QED
        BY <1>1, <4>1, <3>2, <1>35, Zenon DEF TypeOK, ReleaseWeight, Labels
    <3> QED
      BY <3>1, <3>2, Zenon
  <2> QED
    BY <1>1, <1>35, <2>2, <2>3, Zenon DEF TypeOK, ReleaseWeight
<1> QED
  BY <1>10, <1>11, <1>12, <1>13, <1>14, <1>15, <1>16, <1>17, <1>18, <1>19, <1>20, <1>21,
     <1>22, <1>23, <1>24, <1>25, <1>26, <1>27, <1>28, <1>29, <1>30, <1>31, <1>32, <1>33,
     <1>34, <1>35, Zenon DEF Step

(***************************************************************************)
(* What a step of another thread leaves standing.                          *)
(***************************************************************************)

\* The locals of thread u are left alone.
SameThread(u) ==
  /\ ret'[u] = ret[u]
  /\ pc'[u] = pc[u]
  /\ cur'[u] = cur[u]
  /\ job'[u] = job[u]
  /\ saved'[u] = saved[u]

\* Nothing is emptied: the pool grows, high grows, and what stands below high
\* stays.
Grows ==
  /\ tail <= tail'
  /\ \A b \in Alloc : blk'[b] = blk[b] /\ high[b] <= high'[b]
  /\ \A b \in Alloc : \A j \in Index :
       j < high[b] => neighbor'[<<b, j>>].to = neighbor[<<b, j>>].to

\* The blocks and the neighbors stay as they are.
SameStore ==
  /\ tail' = tail /\ blk' = blk /\ high' = high
  /\ \A s \in Slots : neighbor'[s].to = neighbor[s].to

\* A step of one thread writes no local variable of another.
LEMMA OthersSame ==
  ASSUME NEW t \in Threads, Step(t), TypeOK, NEW u \in Threads, u # t
  PROVE  SameThread(u) /\ work' = work
<1> USE DEF TypeOK, SameThread, slotVars, blockVars, listVars, callVars, localVars, Goto
<1>1. CASE StartCall(t) \/ EtypeBegin(t)
  BY <1>1, Zenon DEF StartCall, EtypeBegin, BeginAt, GotoBlock, EndOf
<1>2. CASE Search(t) \/ SearchNext(t) \/ Relook(t)
  BY <1>2, Zenon DEF Search, SearchNext, Relook, GotoBlock, EndOf, NextSlot, Found, SetJob
<1>3. CASE TrySlot(t) \/ SlotNext(t)
  BY <1>3, Zenon DEF TrySlot, SlotNext, NextLoc, GotoBlock, EndOf, NextSlot, Found, SetJob
<1>4. CASE LockSlot(t) \/ Recheck(t)
  BY <1>4, Zenon DEF LockSlot, Recheck, EndUnderLock, SetJob
<1>5. CASE PutBack(t)
  BY <1>5, Zenon DEF PutBack, NextSlot, Return
<1>6. CASE LockTail(t) \/ TailTaken(t) \/ Link(t)
  BY <1>6, Zenon DEF LockTail, AfterTailLock, TailTaken, Link, Return
<1>7. CASE NewEb(t)
  BY <1>7, Zenon DEF NewEb, SetJob
<1>8. CASE OutOfBlocks(t) \/ Push(t) \/ PushStore(t)
  BY <1>8, Zenon DEF OutOfBlocks, Push, PushStore
<1>9. CASE LockWeight(t) \/ SetNeighbor(t) \/ Register(t)
  BY <1>9, Zenon DEF LockWeight, WeightFor, SetNeighbor, NeighborWord, Register
<1>10. CASE WriteTimeFirst(t) \/ AddDirection(t)
  BY <1>10, Zenon DEF WriteTimeFirst, AddDirection
<1>11. CASE CheckStamps(t) \/ LockStamps(t) \/ WriteStamps(t)
  BY <1>11, Zenon DEF CheckStamps, LockStamps, WriteStamps
<1>12. CASE ReleaseWeight(t)
  BY <1>12, Zenon DEF ReleaseWeight, Return
<1> QED
  BY <1>1, <1>2, <1>3, <1>4, <1>5, <1>6, <1>7, <1>8, <1>9, <1>10, <1>11, <1>12, Zenon DEF Step

\* What thread u knows survives a step of another thread.
LEMMA OtherKnows ==
  ASSUME TypeOK, TypeOK', Grows, NEW u \in Threads, SameThread(u), work' = work,
         pc[u] # "call", ThreadOK(u),
         Filling(u) => /\ high'[cur[u].b] = high[cur[u].b]
                       /\ neighbor'[At(u)].to = neighbor[At(u)].to
  PROVE  CursorOK(u)' /\ ScanOK(u)' /\ SlotOK(u)'
<1>1. /\ HasCall(u)' = HasCall(u) /\ Call(u)' = Call(u)
      /\ Src(u)' = Src(u) /\ Dest(u)' = Dest(u)
  BY CallUnchanged, Zenon DEF SameThread
<1>2. /\ cur'[u] = cur[u] /\ pc'[u] = pc[u] /\ job'[u] = job[u] /\ saved'[u] = saved[u]
      /\ At(u)' = At(u)
  BY Zenon DEF SameThread, At
<1>3. CursorOK(u) /\ ScanOK(u) /\ SlotOK(u)
  BY Zenon DEF ThreadOK
<1>4. Alloc \subseteq Alloc' /\ \A c \in Alloc' : c < tail => c \in Alloc
  BY DEF Alloc, Grows, TypeOK, Blocks
<1>5. /\ cur[u].loc \in Locations /\ cur[u].loc \in Int /\ cur[u].k \in Int /\ cur[u].b \in Int
      /\ tail \in Int /\ tail' \in Int /\ tail <= tail'
  <2>1. cur[u] \in Cursors
    BY Zenon DEF TypeOK
  <2>2. \A l \in Locations : l \in Int
    BY ConstantsAssumption DEF Locations
  <2>3. \A b \in {0} \cup Blocks : b \in Int
    BY ConstantsAssumption DEF Blocks
  <2>4. cur[u].loc \in Locations /\ cur[u].b \in {0} \cup Blocks /\ cur[u].k \in 0 .. EdgeBlockSize
    BY <2>1, Zenon DEF Cursors
  <2>5. tail \in Int /\ tail' \in Int /\ tail <= tail'
    BY DEF TypeOK, Grows
  <2>6. cur[u].k \in Int
    BY <2>4, ConstantsAssumption
  <2>7. cur[u].loc \in Int /\ cur[u].b \in Int
    BY <2>2, <2>3, <2>4, Zenon
  <2> QED
    BY <2>4, <2>5, <2>6, <2>7, Zenon
<1>6. CursorOK(u)'
  <2>1. Valid(cur[u].loc)' /\ OwnerOf(cur[u].loc)' = OwnerOf(cur[u].loc)
    <3>1. cur[u].loc > 0 => cur[u].loc \in Alloc
      BY <1>3, <1>5, ConstantsAssumption DEF CursorOK, Valid, Alloc, Blocks, Locations
    <3>2. Valid(cur[u].loc)'
      BY <1>2, <1>3, <1>5 DEF CursorOK, Valid
    <3> QED
      BY <1>2, <1>5, <3>1, <3>2 DEF OwnerOf, Grows
  <2>2. cur[u].b # 0 => cur[u].b \in Alloc' /\ blk'[cur[u].b].vertexID = Src(u)
    BY <1>3, <1>4, Zenon DEF CursorOK, Grows
  <2> QED
    BY <1>1, <1>2, <1>3, <2>1, <2>2, Zenon DEF CursorOK
<1>7. ASSUME NEW c \in Alloc, Mine(u, c) => FullWithout(u, c)
      PROVE  Mine(u, c)' => FullWithout(u, c)'
  <2>1. Mine(u, c)' = Mine(u, c)
    BY <1>1, Zenon DEF Mine, Grows
  <2>2. high[c] \in 0 .. EdgeBlockSize /\ high'[c] \in 0 .. EdgeBlockSize /\ high[c] <= high'[c]
    BY Zenon DEF Alloc, TypeOK, Grows
  <2>3. FullWithout(u, c) => FullWithout(u, c)'
    <3>1. ASSUME high[c] = EdgeBlockSize, NEW j \in Index
          PROVE  neighbor'[<<c, j>>].to = neighbor[<<c, j>>].to
      BY <3>1, ConstantsAssumption DEF Grows, Index
    <3> QED
      BY <1>1, <2>2, <3>1, ConstantsAssumption DEF FullWithout
  <2> QED
    BY <1>7, <2>1, <2>3, Zenon
<1>8. NoneUpTo(u, cur[u].loc) => NoneUpTo(u, cur[u].loc)'
  <2>1. \A c \in Alloc' : c <= cur[u].loc => c \in Alloc
    BY <1>3, <1>4, <1>5, ConstantsAssumption DEF CursorOK, Valid, Alloc, Blocks
  <2> QED
    BY <1>2, <1>7, <2>1, Zenon DEF NoneUpTo
<1>9. cur[u].b \in Alloc /\ NoneBefore(u) => NoneBefore(u)'
  <2> HAVE cur[u].b \in Alloc /\ NoneBefore(u)
  <2>1. \A c \in Alloc' : c < cur[u].b => c \in Alloc
    BY <1>4, <1>5, ConstantsAssumption DEF Alloc, Blocks
  <2>2. \A c \in Alloc' : c < cur[u].b /\ Mine(u, c)' => FullWithout(u, c)'
    BY <1>7, <2>1, Zenon DEF NoneBefore, NoneBelow
  <2>3. high[cur[u].b] \in Int /\ high'[cur[u].b] \in Int /\ high[cur[u].b] <= high'[cur[u].b]
    <3>1. /\ high[cur[u].b] \in 0 .. EdgeBlockSize /\ high'[cur[u].b] \in 0 .. EdgeBlockSize
          /\ high[cur[u].b] <= high'[cur[u].b]
      BY Zenon DEF Alloc, TypeOK, Grows
    <3> QED
      BY <3>1, ConstantsAssumption
  <2>4. ASSUME NEW j \in Index, j < cur[u].k
        PROVE  j < high'[cur[u].b] /\ neighbor'[<<cur[u].b, j>>].to # Dest(u)
    <3>1. j < high[cur[u].b] /\ neighbor[<<cur[u].b, j>>].to # Dest(u) /\ j \in Int
      BY <2>4, Numbers, Zenon DEF NoneBefore, NoneBelow
    <3>2. neighbor'[<<cur[u].b, j>>].to = neighbor[<<cur[u].b, j>>].to
      BY <3>1, Zenon DEF Grows
    <3>3. j < high'[cur[u].b]
      BY <2>3, <3>1
    <3> QED
      BY <3>1, <3>2, <3>3, Zenon
  <2> QED
    BY <1>1, <1>2, <2>2, <2>4, Zenon DEF NoneBefore, NoneBelow
<1>10. cur[u].b # 0 => /\ cur[u].b \in Alloc /\ OfType(u)' = OfType(u)
                       /\ high[cur[u].b] \in Int /\ high'[cur[u].b] \in Int
                       /\ high[cur[u].b] <= high'[cur[u].b]
  <2> HAVE cur[u].b # 0
  <2>1. cur[u].b \in Alloc /\ OfType(u)' = OfType(u)
    BY <1>1, <1>2, <1>3, Zenon DEF CursorOK, OfType, Grows
  <2>2. /\ high[cur[u].b] \in 0 .. EdgeBlockSize /\ high'[cur[u].b] \in 0 .. EdgeBlockSize
        /\ high[cur[u].b] <= high'[cur[u].b]
    BY <2>1, Zenon DEF Alloc, TypeOK, Grows
  <2> QED
    BY <2>1, <2>2, ConstantsAssumption
<1>11. ScanOK(u)'
  <2>1. cur[u].endk \in Int
    BY ConstantsAssumption DEF TypeOK, Cursors
  <2>2. pc[u] \in {"lock_slot", "locked", "put_back"} => cur[u].b # 0
    BY <1>3, Zenon DEF SlotOK
  <2>3. pc[u] = "etype_begin" => cur[u].b # 0 /\ ~OfType(u)' /\ NoneBefore(u)'
    BY <1>3, <1>9, <1>10, Zenon DEF ScanOK
  <2>4. pc[u] \in {"search", "relook", "tail_taken", "new_eb"} => NoneUpTo(u, cur[u].loc)'
    BY <1>3, <1>8, Zenon DEF ScanOK
  <2>5. pc[u] = "slot" => IF cur[u].b = 0 THEN NoneUpTo(u, cur[u].loc)' ELSE NoneBefore(u)'
    BY <1>3, <1>8, <1>9, <1>10, Zenon DEF ScanOK
  <2>6. pc[u] \in {"search", "slot", "put_back"} /\ cur[u].b # 0 => cur[u].endk <= high'[cur[u].b]
    <3> HAVE pc[u] \in {"search", "slot", "put_back"} /\ cur[u].b # 0
    <3>1. cur[u].endk <= high[cur[u].b]
      BY <1>3, Zenon DEF ScanOK
    <3> QED
      BY <1>10, <2>1, <3>1
  <2>7. pc[u] \in {"lock_slot", "locked", "put_back"} => NoneBefore(u)'
    BY <1>3, <1>9, <1>10, <2>2, Zenon DEF ScanOK
  <2>8. pc[u] = "new_eb" => saved[u] = 0
    BY <1>3, Zenon DEF ScanOK
  <2> QED
    BY <1>2, <2>3, <2>4, <2>5, <2>6, <2>7, <2>8, Zenon DEF ScanOK
<1>12. SlotOK(u)'
  <2>1. pc[u] \in {"lock_slot", "locked", "put_back", "put_back_return", "push",
                   "push_store", "link"} \cup UpdateLabels =>
          cur[u].b # 0 /\ cur[u].k \in Index /\ OfType(u)'
    BY <1>3, <1>10, Zenon DEF SlotOK
  <2>2. pc[u] \in {"put_back", "put_back_return", "push", "push_store", "link", "first_ts",
                   "stamp", "stamp_lock", "stamp_write", "release"} =>
          cur[u].b # 0 /\ cur[u].k \in Index /\ cur[u].k < high[cur[u].b] /\ cur[u].k < high'[cur[u].b]
    <3>1. cur[u].b # 0 /\ cur[u].k < high[cur[u].b] => cur[u].k < high'[cur[u].b]
      BY <1>5, <1>10
    <3> QED
      BY <1>3, <3>1, Zenon DEF SlotOK, UpdateLabels
  <2>3. pc[u] = "put_back" => neighbor'[At(u)].to # Dest(u)
    BY <1>3, <1>10, <2>2, Zenon DEF SlotOK, Grows, At
  <2>4. Filling(u)' => Filling(u)
    <3>1. Filling(u)' => cur[u].b # 0
      BY <1>2, <2>1, Zenon DEF Filling, UpdateLabels
    <3>2. cur[u].b # 0 /\ cur[u].k >= high'[cur[u].b] => cur[u].k >= high[cur[u].b]
      BY <1>5, <1>10
    <3> QED
      BY <1>2, <3>1, <3>2, Zenon DEF Filling
  <2>5. Filling(u) => cur[u].b # 0
    BY <2>1, Zenon DEF Filling, UpdateLabels
  <2>6. Filling(u)' => NoneBefore(u)' /\ job[u].then # "put_back_return"
    BY <1>3, <1>9, <1>10, <2>4, <2>5, Zenon DEF SlotOK
  <2>7. pc[u] = "register" => cur[u].k >= high'[cur[u].b] /\ neighbor'[At(u)].to = Dest(u)
    BY <1>3, Zenon DEF SlotOK, Filling
  <2> QED
    BY <1>1, <1>2, <2>1, <2>2, <2>3, <2>6, <2>7, Zenon DEF SlotOK
<1> QED
  BY <1>6, <1>11, <1>12, Zenon
\* A step of another thread gives thread u no lock and takes none from it but
\* that of a slot that has been filled.
LEMMA OtherHolds ==
  ASSUME TypeOK, TypeOK', Grows, NEW u \in Threads, SameThread(u), ThreadOK(u)
  PROVE  /\ HoldsTail(u)' = HoldsTail(u)
         /\ InFlight(u)' = InFlight(u)
         /\ Pending(u)' = Pending(u)
         /\ HoldsSlot(u)' => HoldsSlot(u)
<1>1. /\ cur'[u] = cur[u] /\ pc'[u] = pc[u] /\ job'[u] = job[u] /\ saved'[u] = saved[u]
  BY Zenon DEF SameThread
<1>2. HoldsTail(u)' = HoldsTail(u) /\ InFlight(u)' = InFlight(u) /\ Pending(u)' = Pending(u)
  BY <1>1, Zenon DEF HoldsTail, InFlight, Pending
<1>3. ASSUME pc[u] \in {"locked", "update", "neighbor", "register"}
      PROVE  high[cur[u].b] \in Int /\ high'[cur[u].b] \in Int /\ high[cur[u].b] <= high'[cur[u].b]
             /\ cur[u].k \in Int
  <2>1. cur[u].b \in Alloc /\ cur[u].k \in Index
    BY <1>3, Zenon DEF ThreadOK, CursorOK, SlotOK, UpdateLabels
  <2>2. cur[u].k \in Int
    BY <2>1, ConstantsAssumption DEF Index
  <2>3. high[cur[u].b] \in Int /\ high'[cur[u].b] \in Int
    BY <2>1, ConstantsAssumption DEF TypeOK, Alloc
  <2> QED
    BY <2>1, <2>2, <2>3, Zenon DEF Grows
<1>4. HoldsSlot(u)' => HoldsSlot(u)
  BY <1>1, <1>3 DEF HoldsSlot, Filling
<1> QED
  BY <1>2, <1>4, Zenon

\* Two threads of which one steps stay apart.
LEMMA StayApart ==
  ASSUME TypeOK, TypeOK', Grows, NEW t \in Threads, NEW u \in Threads, SameThread(u), ThreadOK(u),
         HoldsTail(t)' /\ HoldsTail(u) => cur'[t].loc # cur[u].loc,
         HoldsSlot(t)' /\ HoldsSlot(u) => cur'[t].b # cur[u].b \/ cur'[t].k # cur[u].k,
         InFlight(t)' /\ pc[u] # "call" => cur'[t].b # cur[u].b,
         InFlight(u) /\ pc'[t] # "call" => cur[u].b # cur'[t].b
  PROVE  Exclusive(t, u)' /\ Exclusive(u, t)'
<1>1. cur'[u] = cur[u] /\ pc'[u] = pc[u]
  BY Zenon DEF SameThread
<1>2. HoldsTail(u)' = HoldsTail(u) /\ InFlight(u)' = InFlight(u) /\ (HoldsSlot(u)' => HoldsSlot(u))
  BY OtherHolds, Zenon
<1> QED
  BY <1>1, <1>2, Zenon DEF Exclusive

\* How the parts make up the invariant after a step of thread t.
LEMMA Combine ==
  ASSUME InsertInvariant, ~aborted, ~aborted', NEW t \in Threads, Step(t), Grows,
         NoDuplicateEdge', \A b \in Blocks : b >= tail' => high'[b] = 0,
         ListsOK', FullPrefix', ThreadOK(t)',
         ASSUME NEW u \in Threads, u # t
         PROVE  /\ Filling(u) => /\ high'[cur[u].b] = high[cur[u].b]
                                 /\ neighbor'[At(u)].to = neighbor[At(u)].to
                /\ HoldsTail(u) => /\ ptr'[cur[u].loc] = MARKER
                                   /\ Follows(cur[u].loc, Pending(u))'
                /\ HoldsSlot(u) => timeFirst'[At(u)] = MARKER
                /\ Exclusive(t, u)' /\ Exclusive(u, t)'
  PROVE  InsertInvariant'
<1>1. TypeOK /\ \A u \in Threads : ThreadOK(u)
  BY Zenon DEF InsertInvariant
<1>2. TypeOK'
  BY TypeStep, Zenon
<1>3. \A u \in Threads : u # t => SameThread(u) /\ work' = work
  BY <1>1, OthersSame, Zenon
<1>4. ASSUME NEW u \in Threads, u # t
      PROVE  /\ HoldsTail(u)' = HoldsTail(u)
             /\ InFlight(u)' = InFlight(u)
             /\ HoldsSlot(u)' => HoldsSlot(u)
  BY <1>1, <1>2, <1>3, <1>4, OtherHolds, Zenon
<1>5. ASSUME NEW u \in Threads, u # t
      PROVE  ThreadOK(u)'
  <2>1. SameThread(u) /\ work' = work
    BY <1>3, <1>5, Zenon
  <2>2. CASE pc[u] = "call"
    BY <2>1, <2>2, Zenon DEF SameThread, ThreadOK
  <2>3. CASE pc[u] # "call"
    <3>1. CursorOK(u)' /\ ScanOK(u)' /\ SlotOK(u)'
      BY <1>1, <1>2, <1>5, <2>1, <2>3, OtherKnows, Zenon
    <3>2. LocksOK(u)'
      BY <1>4, <1>5, <2>1, Zenon DEF LocksOK, SameThread, At
    <3> QED
      BY <3>1, <3>2, Zenon DEF ThreadOK
  <2> QED
    BY <2>2, <2>3, Zenon
<1>6. ASSUME NEW u \in Threads, NEW w \in Threads, u # w
      PROVE  Exclusive(u, w)'
  <2>1. CASE u = t \/ w = t
    BY <1>6, <2>1, Zenon
  <2>2. CASE u # t /\ w # t
    <3>1. Exclusive(u, w)
      BY <1>6, Zenon DEF InsertInvariant
    <3>2. cur'[u] = cur[u] /\ cur'[w] = cur[w] /\ pc'[w] = pc[w]
      BY <1>3, <2>2, Zenon DEF SameThread
    <3>3. /\ HoldsTail(u)' = HoldsTail(u) /\ HoldsTail(w)' = HoldsTail(w)
          /\ InFlight(u)' = InFlight(u)
          /\ HoldsSlot(u)' => HoldsSlot(u)
          /\ HoldsSlot(w)' => HoldsSlot(w)
      BY <1>4, <2>2, Zenon
    <3> QED
      BY <3>1, <3>2, <3>3, Zenon DEF Exclusive
  <2> QED
    BY <2>1, <2>2, Zenon
<1> QED
  BY <1>2, <1>5, <1>6, Zenon DEF InsertInvariant

\* While the blocks and the neighbors stay as they are, so does what the lists
\* and the slots say of each other.
LEMMA StoreKept ==
  ASSUME TypeOK, SameStore
  PROVE  /\ Grows
         /\ Alloc' = Alloc
         /\ NoDuplicateEdge => NoDuplicateEdge'
         /\ FullPrefix => FullPrefix'
         /\ \A l \in Locations : Valid(l)' = Valid(l) /\ OwnerOf(l)' = OwnerOf(l)
         /\ \A l \in Locations : \A p \in {0} \cup Blocks : Follows(l, p)' = Follows(l, p)
<1>1. tail' = tail /\ blk' = blk /\ high' = high
  BY Zenon DEF SameStore
<1>2. \A b \in Blocks : \A j \in Index : neighbor'[<<b, j>>].to = neighbor[<<b, j>>].to
  BY Zenon DEF SameStore, Slots
<1>3. Alloc' = Alloc
  BY <1>1, Zenon DEF Alloc
<1>4. Grows
  BY <1>1, <1>2 DEF Grows, Alloc, TypeOK
<1>5. \A b \in Blocks : \A j \in Index : Published(b, j)' = Published(b, j)
  BY <1>1, <1>2, Zenon DEF Published
<1>6. NoDuplicateEdge => NoDuplicateEdge'
  BY <1>1, <1>2, <1>5 DEF NoDuplicateEdge
<1>7. FullPrefix => FullPrefix'
  BY <1>1, <1>3, Zenon DEF FullPrefix
<1>8. \A l \in Locations : Valid(l)' = Valid(l) /\ OwnerOf(l)' = OwnerOf(l)
  BY <1>1, Zenon DEF Valid, OwnerOf
<1>9. \A l \in Locations : \A p \in {0} \cup Blocks : Follows(l, p)' = Follows(l, p)
  BY <1>1, <1>3, <1>8, Zenon DEF Follows
<1> QED
  BY <1>3, <1>4, <1>6, <1>7, <1>8, <1>9, Zenon

\* The location and the pending block of a thread that holds a tail.
LEMMA PendingTyped ==
  ASSUME TypeOK, NEW u \in Threads, ThreadOK(u), HoldsTail(u)
  PROVE  /\ cur[u].loc \in Locations /\ Valid(cur[u].loc)
         /\ Pending(u) \in {0} \cup Blocks
         /\ ptr[cur[u].loc] = MARKER /\ Follows(cur[u].loc, Pending(u))
<1>1. pc[u] # "call"
  BY Zenon DEF HoldsTail, InFlight, UpdateLabels
<1>2. ptr[cur[u].loc] = MARKER /\ Follows(cur[u].loc, Pending(u)) /\ Valid(cur[u].loc)
  BY <1>1, Zenon DEF ThreadOK, LocksOK, CursorOK
<1>3. Pending(u) \in {0} \cup Blocks
  BY <1>2, Zenon DEF Follows, Alloc
<1>4. cur[u].loc \in Locations
  BY Zenon DEF TypeOK, Cursors
<1> QED
  BY <1>2, <1>3, <1>4, Zenon

\* A step that leaves blocks and neighbors as they are.
LEMMA QuietStep ==
  ASSUME InsertInvariant, ~aborted, ~aborted', NEW t \in Threads, Step(t), SameStore,
         ListsOK', ThreadOK(t)',
         ASSUME NEW u \in Threads, u # t
         PROVE  /\ HoldsTail(u) => ptr'[cur[u].loc] = MARKER
                /\ HoldsSlot(u) => timeFirst'[At(u)] = MARKER
                /\ Exclusive(t, u)' /\ Exclusive(u, t)'
  PROVE  InsertInvariant'
<1>1. TypeOK /\ \A u \in Threads : ThreadOK(u)
  BY Zenon DEF InsertInvariant
<1>2. /\ Grows
      /\ NoDuplicateEdge' /\ FullPrefix'
      /\ \A l \in Locations : \A p \in {0} \cup Blocks : Follows(l, p)' = Follows(l, p)
  BY <1>1, StoreKept, Zenon DEF InsertInvariant
<1>3. \A b \in Blocks : b >= tail' => high'[b] = 0
  BY Zenon DEF InsertInvariant, SameStore
<1>4. ASSUME NEW u \in Threads, u # t
      PROVE  /\ Filling(u) => /\ high'[cur[u].b] = high[cur[u].b]
                              /\ neighbor'[At(u)].to = neighbor[At(u)].to
             /\ HoldsTail(u) => Follows(cur[u].loc, Pending(u))'
  <2>1. SameThread(u)
    BY <1>1, <1>4, OthersSame, Zenon
  <2>2. Filling(u) => At(u) \in Slots
    <3>1. Filling(u) => pc[u] # "call" /\ pc[u] \in UpdateLabels
      BY Zenon DEF Filling, UpdateLabels
    <3> QED
      BY <1>1, <3>1, CursorTyped, Zenon
  <2>3. ASSUME HoldsTail(u)
        PROVE  Follows(cur[u].loc, Pending(u))'
    <3>1. /\ cur[u].loc \in Locations /\ Pending(u) \in {0} \cup Blocks
          /\ Follows(cur[u].loc, Pending(u))
      BY <1>1, <2>3, PendingTyped, Zenon
    <3>2. Pending(u)' = Pending(u) /\ cur'[u].loc = cur[u].loc
      BY <2>1, Zenon DEF SameThread, Pending
    <3>3. \A l \in Locations : \A p \in {0} \cup Blocks :
             l = cur[u].loc /\ p = Pending(u) => Follows(l, p)'
      BY <1>2, <3>1, Zenon
    <3> QED
      BY <3>1, <3>2, <3>3, Zenon
  <2> QED
    BY <2>2, <2>3, Zenon DEF SameStore
<1> QED
  BY <1>2, <1>3, <1>4, Combine, Zenon
-----------------------------------------------------------------------------
(***************************************************************************)
(* The lists.                                                              *)
(***************************************************************************)

\* A location past the vertices' own is the next field of a block in use.
LEMMA LocationIsBlock ==
  ASSUME TypeOK, NEW l \in Locations, Valid(l)
  PROVE  l \in Int /\ (l > 0 => l \in Alloc /\ OwnerOf(l) = blk[l].vertexID) /\ (l <= 0 => OwnerOf(l) = -l)
BY ConstantsAssumption DEF Locations, Valid, Alloc, Blocks, OwnerOf, TypeOK

\* A list has one end, and one location before a given block.
LEMMA OneBefore ==
  ASSUME TypeOK, NEW l \in Locations, NEW m \in Locations, Valid(l), Valid(m),
         OwnerOf(l) = OwnerOf(m), NEW p \in {0} \cup Blocks, Follows(l, p), Follows(m, p)
  PROVE  l = m
<1>1. /\ l \in Int /\ (l > 0 => l \in Alloc /\ OwnerOf(l) = blk[l].vertexID) /\ (l <= 0 => OwnerOf(l) = -l)
      /\ m \in Int /\ (m > 0 => m \in Alloc /\ OwnerOf(m) = blk[m].vertexID) /\ (m <= 0 => OwnerOf(m) = -m)
  BY LocationIsBlock, Zenon
<1>2. p \in Int
  BY ConstantsAssumption DEF Blocks
<1>3. l > 0 => l <= m
  BY <1>1, <1>2 DEF Follows
<1>4. m > 0 => m <= l
  BY <1>1, <1>2 DEF Follows
<1> QED
  BY <1>1, <1>3, <1>4

\* No pointer leads to a block that is not linked yet.
LEMMA PrivateBlock ==
  ASSUME TypeOK, ListsOK, NEW u \in Threads, ThreadOK(u), InFlight(u),
         NEW l \in Locations, Valid(l), ptr[l] # MARKER
  PROVE  ptr[l] # cur[u].b
<1> SUFFICES ASSUME ptr[l] = cur[u].b PROVE FALSE
  BY Zenon
<1>1. HoldsTail(u) /\ Pending(u) = cur[u].b
  BY Zenon DEF HoldsTail, InFlight, Pending, UpdateLabels
<1>2. /\ cur[u].loc \in Locations /\ Valid(cur[u].loc)
      /\ cur[u].b \in {0} \cup Blocks
      /\ ptr[cur[u].loc] = MARKER /\ Follows(cur[u].loc, cur[u].b)
  BY <1>1, PendingTyped, Zenon
<1>3. cur[u].b # 0
  BY Zenon DEF ThreadOK, SlotOK, InFlight, UpdateLabels
<1>4. Follows(l, cur[u].b)
  BY Zenon DEF ListsOK
<1>5. OwnerOf(l) = OwnerOf(cur[u].loc)
  BY <1>2, <1>3, <1>4, Zenon DEF Follows
<1>6. l = cur[u].loc
  BY <1>2, <1>4, <1>5, OneBefore, Zenon
<1> QED
  BY <1>2, <1>6, Zenon

\* The block a pointer leads to belongs to the owner of the pointer.
LEMMA PointsInto ==
  ASSUME TypeOK, ListsOK, NEW l \in Locations, Valid(l), ptr[l] # MARKER
  PROVE  /\ ptr[l] \in {0} \cup Blocks
         /\ ptr[l] # 0 => ptr[l] \in Alloc /\ blk[ptr[l]].vertexID = OwnerOf(l)
         /\ Follows(l, ptr[l])
BY Zenon DEF TypeOK, ListsOK, Follows

\* Having looked through the list up to l, a thread has looked through all that
\* comes before the block after l.
LEMMA Advance ==
  ASSUME TypeOK, NEW t \in Threads, NEW l \in Locations, Valid(l), OwnerOf(l) = Src(t),
         NEW b \in Blocks, Follows(l, b), NoneUpTo(t, l)
  PROVE  NoneBelow(t, b, 0)
<1>1. ASSUME NEW c \in Alloc, c < b, Mine(t, c)
      PROVE  FullWithout(t, c)
  <2>1. b # 0 /\ b \in Int /\ c \in Int
    BY ConstantsAssumption DEF Blocks, Alloc
  <2>2. c <= l
    BY <1>1, <2>1 DEF Follows, Mine
  <2> QED
    BY <1>1, <2>2, Zenon DEF NoneUpTo
<1>2. \A j \in Index : ~(j < 0)
  BY ConstantsAssumption DEF Index
<1> QED
  BY <1>1, <1>2, Zenon DEF NoneBelow

\* A thread that has seen all of block b has looked through the list up to b.
LEMMA PassBlock ==
  ASSUME TypeOK, NEW t \in Threads, NEW b \in Alloc, NEW k \in 0 .. EdgeBlockSize, NoneBelow(t, b, k),
         blk[b].etype # Call(t).type \/ k = EdgeBlockSize
  PROVE  NoneUpTo(t, b)
<1>1. ASSUME NEW c \in Alloc, c <= b, Mine(t, c)
      PROVE  FullWithout(t, c)
  <2>1. b \in Int /\ c \in Int
    BY ConstantsAssumption DEF Blocks, Alloc
  <2>2. CASE c < b
    BY <1>1, <2>2, Zenon DEF NoneBelow
  <2>3. CASE c = b
    <3>1. k = EdgeBlockSize
      BY <1>1, <2>3, Zenon DEF Mine
    <3>2. high[b] \in 0 .. EdgeBlockSize
      BY Zenon DEF TypeOK, Alloc
    <3>3. EdgeBlockSize - 1 \in Index /\ \A j \in Index : j < EdgeBlockSize
      BY ConstantsAssumption DEF Index
    <3>4. EdgeBlockSize - 1 < high[b]
      BY <3>1, <3>3, Zenon DEF NoneBelow
    <3>5. high[b] = EdgeBlockSize
      BY <3>2, <3>4, ConstantsAssumption
    <3> QED
      BY <2>3, <3>1, <3>3, <3>5, Zenon DEF NoneBelow, FullWithout
  <2> QED
    BY <1>1, <2>1, <2>2, <2>3
<1> QED
  BY <1>1, Zenon DEF NoneUpTo

\* What a thread knows does not depend on more than its call and the store.
LEMMA KnowledgeKept ==
  ASSUME TypeOK, SameStore, NEW t \in Threads, work' = work, ret'[t] = ret[t]
  PROVE  /\ HasCall(t)' = HasCall(t) /\ Call(t)' = Call(t)
         /\ Src(t)' = Src(t) /\ Dest(t)' = Dest(t)
         /\ \A l \in Locations : NoneUpTo(t, l)' = NoneUpTo(t, l)
         /\ \A b \in Blocks : \A k \in 0 .. EdgeBlockSize : NoneBelow(t, b, k)' = NoneBelow(t, b, k)
<1>1. /\ HasCall(t)' = HasCall(t) /\ Call(t)' = Call(t)
      /\ Src(t)' = Src(t) /\ Dest(t)' = Dest(t)
  BY CallUnchanged, Zenon
<1>2. tail' = tail /\ blk' = blk /\ high' = high /\ Alloc' = Alloc
  BY Zenon DEF SameStore, Alloc
<1>3. \A b \in Blocks : \A j \in Index : neighbor'[<<b, j>>].to = neighbor[<<b, j>>].to
  BY Zenon DEF SameStore, Slots
<1>4. \A c \in Blocks : Mine(t, c)' = Mine(t, c) /\ FullWithout(t, c)' = FullWithout(t, c)
  BY <1>1, <1>2, <1>3, Zenon DEF Mine, FullWithout
<1>5. Alloc \subseteq Blocks
  BY Zenon DEF Alloc
<1>6. \A l \in Locations : NoneUpTo(t, l)' = NoneUpTo(t, l)
  BY <1>2, <1>4, <1>5, Zenon DEF NoneUpTo
<1>7. ASSUME NEW b \in Blocks, NEW k \in 0 .. EdgeBlockSize
      PROVE  NoneBelow(t, b, k)' = NoneBelow(t, b, k)
  BY <1>1, <1>2, <1>3, <1>4, <1>5, Zenon DEF NoneBelow
<1> QED
  BY <1>1, <1>6, <1>7, Zenon

\* Who holds a slot finds its timeFirst locked, and no slot that is filled is
\* held.
LEMMA SlotLocks ==
  ASSUME InsertInvariant, ~aborted, NEW t \in Threads, NEW u \in Threads, HoldsSlot(u),
         \/ timeFirst' = timeFirst
         \/ /\ \A s \in Slots : s # At(t) => timeFirst'[s] = timeFirst[s]
            /\ cur[t].k \in Index /\ cur[t].k < high[cur[t].b]
  PROVE  timeFirst'[At(u)] = MARKER
<1>1. pc[u] # "call" /\ cur[u].k >= high[cur[u].b]
  BY Zenon DEF HoldsSlot, Filling
<1>2. TypeOK /\ ThreadOK(u)
  BY Zenon DEF InsertInvariant
<1>3. timeFirst[At(u)] = MARKER /\ At(u) \in Slots /\ cur[u].k \in Index
  BY <1>1, <1>2, CursorTyped, Zenon DEF ThreadOK, LocksOK, HoldsSlot, Filling, UpdateLabels
<1>4. CASE timeFirst' = timeFirst
  BY <1>3, <1>4, Zenon
<1>5. CASE /\ \A s \in Slots : s # At(t) => timeFirst'[s] = timeFirst[s]
           /\ cur[t].k \in Index /\ cur[t].k < high[cur[t].b]
  <2>1. high[cur[u].b] \in Int /\ cur[u].k \in Int
    <3>1. cur[u].b \in Blocks
      BY <1>3, Zenon DEF Slots, At
    <3>2. high[cur[u].b] \in 0 .. EdgeBlockSize
      BY <1>2, <3>1, Zenon DEF TypeOK
    <3> QED
      BY <1>3, <3>2, ConstantsAssumption DEF Index
  <2>2. At(u) # At(t)
    BY <1>1, <1>5, <2>1 DEF At
  <2> QED
    BY <1>3, <1>5, <2>2, Zenon
<1> QED
  BY <1>4, <1>5, Zenon

\* A step that moves the cursor of thread t but takes and drops no lock.
LEMMA LocalStep ==
  ASSUME InsertInvariant, ~aborted, ~aborted', NEW t \in Threads, Step(t), SameStore,
         ptr' = ptr, ThreadOK(t)',
         \A u \in Threads : u # t /\ HoldsSlot(u) => timeFirst'[At(u)] = MARKER,
         HoldsTail(t)' => HoldsTail(t) /\ cur'[t].loc = cur[t].loc,
         HoldsSlot(t)' => HoldsSlot(t) /\ cur'[t].b = cur[t].b /\ cur'[t].k = cur[t].k,
         InFlight(t)' => InFlight(t) /\ cur'[t].b = cur[t].b,
         pc'[t] # "call" =>
           \/ pc[t] # "call" /\ cur'[t].b = cur[t].b
           \/ \E l \in Locations : Valid(l) /\ ptr[l] # MARKER /\ cur'[t].b = ptr[l]
  PROVE  InsertInvariant'
<1>1. TypeOK /\ ListsOK /\ \A u \in Threads : ThreadOK(u)
  BY Zenon DEF InsertInvariant
<1>2. /\ Grows
      /\ \A l \in Locations : Valid(l)' = Valid(l)
      /\ \A l \in Locations : \A p \in {0} \cup Blocks : Follows(l, p)' = Follows(l, p)
  BY <1>1, StoreKept, Zenon
<1>3. ListsOK'
  <2>1. ASSUME NEW l \in Locations, Valid(l), ptr[l] # MARKER
        PROVE  Follows(l, ptr[l])'
    BY <1>1, <1>2, <2>1, PointsInto, Zenon
  <2> QED
    BY <1>2, <2>1, Zenon DEF ListsOK
<1>4. ASSUME NEW u \in Threads, u # t
      PROVE  /\ HoldsTail(u) => ptr'[cur[u].loc] = MARKER
             /\ HoldsSlot(u) => timeFirst'[At(u)] = MARKER
             /\ Exclusive(t, u)' /\ Exclusive(u, t)'
  <2>1. ThreadOK(u) /\ SameThread(u) /\ Exclusive(t, u) /\ Exclusive(u, t)
    BY <1>1, <1>4, OthersSame, Zenon DEF InsertInvariant
  <2>2. HoldsTail(u) => ptr'[cur[u].loc] = MARKER
    BY <1>1, <2>1, PendingTyped, Zenon
  <2>4. InFlight(t) => pc[t] # "call"
    BY Zenon DEF InFlight, UpdateLabels
  <2>5. InFlight(u) /\ pc'[t] # "call" => cur[u].b # cur'[t].b
    <3>1. ASSUME InFlight(u), NEW l \in Locations, Valid(l), ptr[l] # MARKER
          PROVE  ptr[l] # cur[u].b
      BY <1>1, <2>1, <3>1, PrivateBlock, Zenon
    <3> QED
      BY <2>1, <3>1, Zenon DEF Exclusive
  <2>6. Exclusive(t, u)' /\ Exclusive(u, t)'
    BY <1>1, <1>2, <2>1, <2>5, TypeStep, StayApart, Zenon DEF Exclusive
  <2> QED
    BY <1>4, <2>2, <2>6, Zenon
<1> QED
  BY <1>3, <1>4, QuietStep, Zenon

\* etype_begin.
LEMMA BeginStep ==
  ASSUME InsertInvariant, ~aborted, NEW t \in Threads, HasCall(t), Step(t),
         NEW l \in Locations, Valid(l), OwnerOf(l) = Src(t), NoneUpTo(t, l), BeginAt(t, l)
  PROVE  InsertInvariant'
<1> USE DEF slotVars, blockVars, listVars, callVars, localVars
<1> DEFINE b == ptr[l]
<1>1. TypeOK /\ ListsOK /\ \A u \in Threads : ThreadOK(u)
  BY Zenon DEF InsertInvariant
<1>2. b # MARKER /\ SameStore /\ ptr' = ptr /\ timeFirst' = timeFirst /\ aborted' = aborted
      /\ work' = work /\ ret' = ret /\ b' = b
  BY Zenon DEF BeginAt, SameStore
<1>3. /\ cur'[t].loc = l /\ cur'[t].b = b /\ cur'[t].k = 0 /\ (b # 0 => cur'[t].endk = high[b])
      /\ pc'[t] = IF b # 0 /\ blk[b].etype # Call(t).type THEN "etype_begin" ELSE "search"
  BY <1>1, Zenon DEF BeginAt, GotoBlock, EndOf, Goto, TypeOK
<1>4. b \in {0} \cup Blocks /\ (b # 0 => b \in Alloc /\ blk[b].vertexID = Src(t)) /\ Follows(l, b)
  BY <1>1, <1>2, PointsInto, Zenon
<1>5. b # 0 => NoneBelow(t, b, 0)
  <2>1. ASSUME b # 0 PROVE NoneBelow(t, b, 0)
    BY <1>1, <1>4, <2>1, Advance, Zenon
  <2> QED
    BY <2>1, Zenon
<1> HIDE DEF b
<1>6. /\ HasCall(t)' /\ Call(t)' = Call(t) /\ Src(t)' = Src(t)
      /\ NoneUpTo(t, l)' /\ (b # 0 => NoneBelow(t, b, 0)')
  <2>1. 0 \in 0 .. EdgeBlockSize
    BY ConstantsAssumption
  <2> QED
    BY <1>1, <1>2, <1>4, <1>5, <2>1, KnowledgeKept, Zenon
<1>7. Alloc' = Alloc /\ Valid(l)' /\ OwnerOf(l)' = OwnerOf(l) /\ blk' = blk /\ high' = high
  BY <1>1, <1>2, StoreKept, Zenon DEF SameStore
<1>8. CursorOK(t)'
  BY <1>3, <1>4, <1>6, <1>7, Zenon DEF CursorOK
<1>9. ScanOK(t)'
  <2>1. b # 0 => high[b] <= high[b]
    BY <1>1, <1>4, Numbers, Zenon DEF Alloc
  <2>2. pc'[t] = "etype_begin" => cur'[t].b # 0 /\ ~OfType(t)' /\ NoneBefore(t)'
    BY <1>2, <1>3, <1>6, <1>7, Zenon DEF NoneBefore, OfType
  <2>3. pc'[t] = "search" => NoneUpTo(t, cur[t].loc)'
    BY <1>3, <1>6, Zenon
  <2>4. pc'[t] = "search" /\ cur'[t].b # 0 => cur'[t].endk <= high'[cur'[t].b]
    BY <1>3, <1>7, <2>1, Zenon
  <2>5. pc'[t] \in {"etype_begin", "search"}
    BY <1>3, Zenon
  <2> QED
    BY <2>2, <2>3, <2>4, <2>5, Zenon DEF ScanOK
<1>10. SlotOK(t)' /\ LocksOK(t)' /\ ~HoldsTail(t)' /\ ~HoldsSlot(t)' /\ ~InFlight(t)'
  BY <1>3, Zenon DEF SlotOK, LocksOK, HoldsTail, HoldsSlot, InFlight, Filling, UpdateLabels
<1>11. ThreadOK(t)'
  BY <1>8, <1>9, <1>10, Zenon DEF ThreadOK
<1>12. \A u \in Threads : u # t /\ HoldsSlot(u) => timeFirst'[At(u)] = MARKER
  BY <1>2, SlotLocks, Zenon
<1> QED
  BY <1>2, <1>3, <1>10, <1>11, <1>12, LocalStep, Zenon DEF b

\* A call begins at the edges field of its vertex.
LEMMA StartCallStep ==
  ASSUME InsertInvariant, ~aborted, NEW t \in Threads, StartCall(t)
  PROVE  InsertInvariant'
<1>1. TypeOK /\ HasCall(t) /\ BeginAt(t, Head0(Src(t))) /\ Step(t)
  BY Zenon DEF InsertInvariant, StartCall, Step
<1>2. Src(t) \in Vertices
  BY <1>1, CallTyped, Zenon
<1>3. Head0(Src(t)) \in Locations /\ Valid(Head0(Src(t))) /\ OwnerOf(Head0(Src(t))) = Src(t)
  BY <1>2, ConstantsAssumption DEF Head0, Locations, Valid, OwnerOf, Vertices
<1>4. NoneUpTo(t, Head0(Src(t)))
  BY <1>2, ConstantsAssumption DEF NoneUpTo, Head0, Vertices, Alloc, Blocks
<1> QED
  BY <1>1, <1>3, <1>4, BeginStep, Zenon

\* etype_begin passes a block of another edge type.
LEMMA EtypeBeginStep ==
  ASSUME InsertInvariant, ~aborted, NEW t \in Threads, EtypeBegin(t)
  PROVE  InsertInvariant'
<1>1. TypeOK /\ ThreadOK(t) /\ BeginAt(t, cur[t].b) /\ Step(t)
  BY Zenon DEF InsertInvariant, EtypeBegin, Step
<1>2. CursorOK(t) /\ ScanOK(t) /\ pc[t] = "etype_begin"
  BY <1>1, Zenon DEF ThreadOK, EtypeBegin
<1>3. /\ HasCall(t) /\ cur[t].b \in Alloc /\ blk[cur[t].b].vertexID = Src(t)
      /\ blk[cur[t].b].etype # Call(t).type /\ NoneBelow(t, cur[t].b, cur[t].k)
      /\ cur[t].k \in 0 .. EdgeBlockSize
  <2>1. cur[t].k \in 0 .. EdgeBlockSize
    BY <1>1, Zenon DEF TypeOK, Cursors
  <2> QED
    BY <1>2, <2>1, Zenon DEF CursorOK, ScanOK, OfType, NoneBefore
<1>4. NoneUpTo(t, cur[t].b)
  BY <1>1, <1>3, PassBlock, Zenon
<1>5. cur[t].b \in Locations /\ Valid(cur[t].b) /\ OwnerOf(cur[t].b) = Src(t)
  BY <1>3, ConstantsAssumption DEF Alloc, Blocks, Locations, Valid, OwnerOf
<1> QED
  BY <1>1, <1>3, <1>4, <1>5, BeginStep, Zenon
\* Going on to the block that location l leads to, with loc to come back to.
LEMMA WalkStep ==
  ASSUME InsertInvariant, ~aborted, NEW t \in Threads, HasCall(t), Step(t),
         NEW l \in Locations, Valid(l), OwnerOf(l) = Src(t), ptr[l] # MARKER,
         NEW loc \in Locations, Valid(loc), OwnerOf(loc) = Src(t), NoneUpTo(t, loc),
         GotoBlock(t, loc, ptr[l]),
         pc'[t] = "search" \/ (pc'[t] = "slot" /\ l = loc),
         SameStore, ptr' = ptr, timeFirst' = timeFirst, aborted' = aborted, work' = work, ret' = ret
  PROVE  InsertInvariant'
<1> DEFINE b == ptr[l]
<1>1. TypeOK /\ ListsOK
  BY Zenon DEF InsertInvariant
<1>2. cur'[t].loc = loc /\ cur'[t].b = b /\ cur'[t].k = 0 /\ (b # 0 => cur'[t].endk = high[b])
  BY <1>1, Zenon DEF GotoBlock, EndOf, TypeOK
<1>3. b \in {0} \cup Blocks /\ (b # 0 => b \in Alloc /\ blk[b].vertexID = Src(t)) /\ Follows(l, b) /\ b' = b
  BY <1>1, PointsInto, Zenon
<1>4. b # 0 /\ l = loc => NoneBelow(t, b, 0)
  <2>1. ASSUME b # 0, l = loc PROVE NoneBelow(t, b, 0)
    BY <1>1, <1>3, <2>1, Advance, Zenon
  <2> QED
    BY <2>1, Zenon
<1> HIDE DEF b
<1>5. /\ HasCall(t)' /\ Call(t)' = Call(t) /\ Src(t)' = Src(t)
      /\ NoneUpTo(t, loc)' /\ (b # 0 /\ l = loc => NoneBelow(t, b, 0)')
  <2>1. 0 \in 0 .. EdgeBlockSize
    BY ConstantsAssumption
  <2> QED
    BY <1>1, <1>3, <1>4, <2>1, KnowledgeKept, Zenon
<1>6. Alloc' = Alloc /\ Valid(loc)' /\ OwnerOf(loc)' = OwnerOf(loc) /\ blk' = blk /\ high' = high
  BY <1>1, StoreKept, Zenon DEF SameStore
<1>7. CursorOK(t)'
  BY <1>2, <1>3, <1>5, <1>6, Zenon DEF CursorOK
<1>8. ScanOK(t)'
  <2>1. b # 0 => high[b] <= high[b]
    BY <1>1, <1>3, Numbers, Zenon DEF Alloc
  <2>2. NoneUpTo(t, cur[t].loc)'
    BY <1>2, <1>5, Zenon
  <2>3. pc'[t] = "slot" /\ cur'[t].b # 0 => NoneBefore(t)'
    BY <1>2, <1>3, <1>5, Zenon DEF NoneBefore
  <2>4. cur'[t].b # 0 => cur'[t].endk <= high'[cur'[t].b]
    BY <1>2, <1>6, <2>1, Zenon
  <2> QED
    BY <2>2, <2>3, <2>4, Zenon DEF ScanOK
<1>9. SlotOK(t)' /\ LocksOK(t)' /\ ~HoldsTail(t)' /\ ~HoldsSlot(t)' /\ ~InFlight(t)'
  BY Zenon DEF SlotOK, LocksOK, HoldsTail, HoldsSlot, InFlight, Filling, UpdateLabels
<1>10. ThreadOK(t)'
  BY <1>7, <1>8, <1>9, Zenon DEF ThreadOK
<1>11. \A u \in Threads : u # t /\ HoldsSlot(u) => timeFirst'[At(u)] = MARKER
  BY SlotLocks, Zenon
<1> QED
  BY <1>2, <1>9, <1>10, <1>11, LocalStep, Zenon DEF b

\* The block a thread looks at is a location of its vertex.
LEMMA BlockIsLocation ==
  ASSUME TypeOK, NEW t \in Threads, CursorOK(t), cur[t].b # 0
  PROVE  cur[t].b \in Locations /\ Valid(cur[t].b) /\ OwnerOf(cur[t].b) = Src(t)
<1>1. cur[t].b \in Alloc /\ blk[cur[t].b].vertexID = Src(t)
  BY Zenon DEF CursorOK
<1> QED
  BY <1>1, ConstantsAssumption DEF Alloc, Blocks, Locations, Valid, OwnerOf

\* The first search moves on to the next block.
LEMMA SearchNextStep ==
  ASSUME InsertInvariant, ~aborted, NEW t \in Threads, SearchNext(t)
  PROVE  InsertInvariant'
<1>1. TypeOK /\ ThreadOK(t) /\ Step(t) /\ pc[t] = "search" /\ cur[t].b # 0 /\ ptr[cur[t].b] # MARKER
  BY Zenon DEF InsertInvariant, SearchNext, Step
<1>2. CursorOK(t) /\ ScanOK(t) /\ cur[t].loc \in Locations
  BY <1>1, Zenon DEF ThreadOK, TypeOK, Cursors
<1>3. HasCall(t) /\ Valid(cur[t].loc) /\ OwnerOf(cur[t].loc) = Src(t) /\ NoneUpTo(t, cur[t].loc)
  BY <1>1, <1>2, Zenon DEF CursorOK, ScanOK
<1>4. cur[t].b \in Locations /\ Valid(cur[t].b) /\ OwnerOf(cur[t].b) = Src(t)
  BY <1>1, <1>2, BlockIsLocation, Zenon
<1>5. /\ GotoBlock(t, cur[t].loc, ptr[cur[t].b]) /\ pc'[t] = "search"
      /\ SameStore /\ ptr' = ptr /\ timeFirst' = timeFirst /\ aborted' = aborted /\ work' = work /\ ret' = ret
  BY <1>1, Zenon DEF SearchNext, SameStore, slotVars, blockVars, listVars, callVars
<1> QED
  BY <1>1, <1>2, <1>3, <1>4, <1>5, WalkStep, Zenon

\* The second search starts where the first one ended, at the saved location.
LEMMA RelookStep ==
  ASSUME InsertInvariant, ~aborted, NEW t \in Threads, Relook(t)
  PROVE  InsertInvariant'
<1>1. TypeOK /\ ThreadOK(t) /\ Step(t) /\ pc[t] \in {"search", "relook"} /\ ptr[cur[t].loc] # MARKER
  BY Zenon DEF InsertInvariant, Relook, Step
<1>2. CursorOK(t) /\ ScanOK(t) /\ cur[t].loc \in Locations
  BY <1>1, Zenon DEF ThreadOK, TypeOK, Cursors
<1>3. HasCall(t) /\ Valid(cur[t].loc) /\ OwnerOf(cur[t].loc) = Src(t) /\ NoneUpTo(t, cur[t].loc)
  BY <1>1, <1>2, Zenon DEF CursorOK, ScanOK
<1>4. /\ GotoBlock(t, cur[t].loc, ptr[cur[t].loc]) /\ pc'[t] = "slot"
      /\ SameStore /\ ptr' = ptr /\ timeFirst' = timeFirst /\ aborted' = aborted /\ work' = work /\ ret' = ret
  BY <1>1, Zenon DEF Relook, Goto, TypeOK, SameStore, slotVars, blockVars, listVars, callVars
<1> QED
  BY <1>1, <1>2, <1>3, <1>4, WalkStep, Zenon

\* The second search moves on to the next block.
LEMMA SlotNextStep ==
  ASSUME InsertInvariant, ~aborted, NEW t \in Threads, SlotNext(t)
  PROVE  InsertInvariant'
<1>1. /\ TypeOK /\ ThreadOK(t) /\ Step(t) /\ pc[t] = "slot" /\ cur[t].b # 0
      /\ ptr[cur[t].b] # MARKER /\ (~OfType(t) \/ cur[t].k = EdgeBlockSize)
  BY Zenon DEF InsertInvariant, SlotNext, NextLoc, Step
<1>2. CursorOK(t) /\ ScanOK(t) /\ cur[t].k \in 0 .. EdgeBlockSize
  BY <1>1, Zenon DEF ThreadOK, TypeOK, Cursors
<1>3. HasCall(t) /\ NoneBelow(t, cur[t].b, cur[t].k) /\ cur[t].b \in Alloc
  BY <1>1, <1>2, Zenon DEF CursorOK, ScanOK, NoneBefore
<1>4. cur[t].b \in Locations /\ Valid(cur[t].b) /\ OwnerOf(cur[t].b) = Src(t)
  BY <1>1, <1>2, BlockIsLocation, Zenon
<1>5. NoneUpTo(t, cur[t].b)
  BY <1>1, <1>2, <1>3, PassBlock, Zenon DEF OfType
<1>6. /\ GotoBlock(t, cur[t].b, ptr[cur[t].b]) /\ pc'[t] = "slot"
      /\ SameStore /\ ptr' = ptr /\ timeFirst' = timeFirst /\ aborted' = aborted /\ work' = work /\ ret' = ret
  BY <1>1, Zenon DEF SlotNext, NextLoc, SameStore, slotVars, blockVars, listVars, callVars
<1> QED
  BY <1>1, <1>3, <1>4, <1>5, <1>6, WalkStep, Zenon
\* A thread that stays at its block keeps what it knows of the block.
LEMMA StaysAt ==
  ASSUME TypeOK, SameStore, NEW t \in Threads, ThreadOK(t), pc[t] # "call",
         work' = work, ret' = ret, cur'[t].loc = cur[t].loc, cur'[t].b = cur[t].b
  PROVE  CursorOK(t)' /\ OfType(t)' = OfType(t)
<1>1. HasCall(t)' = HasCall(t) /\ Call(t)' = Call(t) /\ Src(t)' = Src(t)
  BY KnowledgeKept, Zenon
<1>2. CursorOK(t) /\ cur[t].loc \in Locations
  BY Zenon DEF ThreadOK, TypeOK, Cursors
<1>3. Alloc' = Alloc /\ blk' = blk /\ \A l \in Locations : Valid(l)' = Valid(l) /\ OwnerOf(l)' = OwnerOf(l)
  BY StoreKept, Zenon DEF SameStore
<1>4. Valid(cur[t].loc)' /\ OwnerOf(cur[t].loc)' = Src(t)
  BY <1>2, <1>3, Zenon DEF CursorOK
<1> QED
  BY <1>1, <1>2, <1>3, <1>4, Zenon DEF CursorOK, OfType

\* What the two moves of a search do to the thread.
LEMMA MoveOrFind ==
  ASSUME TypeOK, NEW t \in Threads
  PROVE  /\ NextSlot(t) => /\ cur'[t].loc = cur[t].loc /\ cur'[t].b = cur[t].b
                           /\ cur'[t].endk = cur[t].endk /\ cur'[t].k = cur[t].k + 1
         /\ Found(t) => pc'[t] = "update" /\ job'[t].then = "return" /\ cur' = cur
<1>1. cur \in [Threads -> Cursors] /\ job \in [Threads -> Jobs] /\ pc \in [Threads -> Labels]
  BY Zenon DEF TypeOK
<1>2. NextSlot(t) => /\ cur'[t].loc = cur[t].loc /\ cur'[t].b = cur[t].b
                     /\ cur'[t].endk = cur[t].endk /\ cur'[t].k = cur[t].k + 1
  BY <1>1, Zenon DEF NextSlot, Cursors
<1>3. Found(t) => pc'[t] = "update" /\ job'[t].then = "return" /\ cur' = cur
  BY <1>1 DEF Found, SetJob, Goto
<1> QED
  BY <1>2, <1>3, Zenon

\* Finding the edge below high, or moving on to the next slot, in a list that
\* is being searched.
LEMMA SearchStep ==
  ASSUME InsertInvariant, ~aborted, NEW t \in Threads, Search(t)
  PROVE  InsertInvariant'
<1>1. TypeOK /\ ThreadOK(t) /\ Step(t) /\ pc[t] = "search" /\ cur[t].b # 0
  BY Zenon DEF InsertInvariant, Search, Step
<1>2. /\ SameStore /\ ptr' = ptr /\ timeFirst' = timeFirst /\ aborted' = aborted /\ work' = work /\ ret' = ret
      /\ OfType(t) /\ cur[t].k < cur[t].endk
  BY Zenon DEF Search, SameStore, slotVars, blockVars, listVars, callVars
<1>3. /\ cur'[t].loc = cur[t].loc /\ cur'[t].b = cur[t].b /\ cur'[t].endk = cur[t].endk
      /\ \/ pc'[t] = "update" /\ job'[t].then = "return" /\ cur'[t].k = cur[t].k
         \/ pc'[t] = "search"
  BY <1>1, MoveOrFind, Zenon DEF Search, Goto, TypeOK
<1>4. CursorOK(t)' /\ OfType(t)'
  BY <1>1, <1>2, <1>3, StaysAt, Zenon
<1>5. NoneUpTo(t, cur[t].loc)'
  <2>1. NoneUpTo(t, cur[t].loc) /\ cur[t].loc \in Locations
    BY <1>1, Zenon DEF ThreadOK, ScanOK, TypeOK, Cursors
  <2> QED
    BY <1>1, <1>2, <1>3, <2>1, KnowledgeKept, Zenon
<1>6. cur[t].endk <= high[cur[t].b] /\ high' = high /\ high[cur[t].b] \in 0 .. EdgeBlockSize
      /\ cur[t].k \in 0 .. EdgeBlockSize /\ cur[t].endk \in 0 .. EdgeBlockSize
  <2>1. cur[t] \in Cursors
    BY <1>1, Zenon DEF TypeOK
  <2>2. cur[t].b \in Blocks /\ cur[t].k \in 0 .. EdgeBlockSize /\ cur[t].endk \in 0 .. EdgeBlockSize
    BY <1>1, <2>1, Zenon DEF Cursors
  <2>3. high[cur[t].b] \in 0 .. EdgeBlockSize
    BY <1>1, <2>2, Zenon DEF TypeOK
  <2> QED
    BY <1>1, <1>2, <2>2, <2>3, Zenon DEF ThreadOK, ScanOK, SameStore
<1>7. cur[t].k \in Index /\ cur[t].k < high[cur[t].b]
  BY <1>2, <1>6, ConstantsAssumption DEF Index
<1>8. ScanOK(t)'
  BY <1>3, <1>5, <1>6, Zenon DEF ScanOK
<1>9. ~Filling(t)' /\ ~HoldsTail(t)' /\ ~HoldsSlot(t)' /\ ~InFlight(t)'
  <2>1. ~(cur[t].k >= high[cur[t].b])
    BY <1>6, <1>7, ConstantsAssumption
  <2> QED
    BY <1>3, <1>6, <2>1, Zenon DEF Filling, HoldsTail, HoldsSlot, InFlight, UpdateLabels
<1>10. SlotOK(t)' /\ LocksOK(t)'
  BY <1>1, <1>3, <1>4, <1>7, <1>9, Zenon DEF SlotOK, LocksOK, UpdateLabels
<1>11. ThreadOK(t)'
  BY <1>4, <1>8, <1>10, Zenon DEF ThreadOK
<1>12. \A u \in Threads : u # t /\ HoldsSlot(u) => timeFirst'[At(u)] = MARKER
  BY <1>2, SlotLocks, Zenon
<1> QED
  BY <1>1, <1>2, <1>3, <1>9, <1>11, <1>12, LocalStep, Zenon

\* Seeing that the slot at cur is filled with another edge.
LEMMA PassSlot ==
  ASSUME TypeOK, NEW t \in Threads, NEW b \in Blocks, NEW k \in Index,
         NoneBelow(t, b, k), k < high[b], neighbor[<<b, k>>].to # Dest(t)
  PROVE  NoneBelow(t, b, k + 1)
<1>1. \A j \in Index : j < k + 1 => j < k \/ j = k
  BY ConstantsAssumption DEF Index
<1> QED
  BY <1>1, Zenon DEF NoneBelow

\* Before any lock: the edge is found, the slot is passed, or it looks free.
LEMMA TrySlotStep ==
  ASSUME InsertInvariant, ~aborted, NEW t \in Threads, TrySlot(t)
  PROVE  InsertInvariant'
<1>1. TypeOK /\ ThreadOK(t) /\ Step(t) /\ pc[t] = "slot" /\ cur[t].b # 0
  BY Zenon DEF InsertInvariant, TrySlot, Step
<1>2. /\ SameStore /\ ptr' = ptr /\ timeFirst' = timeFirst /\ aborted' = aborted /\ work' = work /\ ret' = ret
      /\ OfType(t) /\ cur[t].k < EdgeBlockSize
  BY Zenon DEF TrySlot, SameStore, slotVars, blockVars, listVars, callVars
<1>3. /\ cur'[t].loc = cur[t].loc /\ cur'[t].b = cur[t].b /\ cur'[t].endk = cur[t].endk
      /\ \/ /\ pc'[t] = "update" /\ job'[t].then = "return" /\ cur'[t].k = cur[t].k
            /\ cur[t].k < cur[t].endk
         \/ pc'[t] = "lock_slot" /\ cur'[t].k = cur[t].k
         \/ /\ pc'[t] = "slot" /\ cur'[t].k = cur[t].k + 1 /\ cur[t].k < cur[t].endk
            /\ neighbor[At(t)].to # Dest(t)
  BY <1>1, MoveOrFind, Zenon DEF TrySlot, Goto, TypeOK
<1>4. CursorOK(t)' /\ OfType(t)'
  BY <1>1, <1>2, <1>3, StaysAt, Zenon
<1>5. /\ cur[t].b \in Blocks /\ cur[t].k \in Index /\ cur[t].k \in 0 .. EdgeBlockSize
      /\ cur[t].endk \in 0 .. EdgeBlockSize /\ high[cur[t].b] \in 0 .. EdgeBlockSize
      /\ cur[t].endk <= high[cur[t].b] /\ high' = high
      /\ NoneBelow(t, cur[t].b, cur[t].k)
  <2>1. cur[t] \in Cursors
    BY <1>1, Zenon DEF TypeOK
  <2>2. cur[t].b \in Blocks /\ cur[t].k \in 0 .. EdgeBlockSize /\ cur[t].endk \in 0 .. EdgeBlockSize
    BY <1>1, <2>1, Zenon DEF Cursors
  <2>3. high[cur[t].b] \in 0 .. EdgeBlockSize
    BY <1>1, <2>2, Zenon DEF TypeOK
  <2>4. cur[t].k \in Index
    BY <1>2, <2>2, ConstantsAssumption DEF Index
  <2> QED
    BY <1>1, <1>2, <2>2, <2>3, <2>4, Zenon DEF ThreadOK, ScanOK, SameStore, NoneBefore
<1>6. cur[t].k < cur[t].endk => cur[t].k < high[cur[t].b]
  BY <1>5, ConstantsAssumption
<1>7. pc'[t] \in {"lock_slot", "slot"} => NoneBefore(t)'
  <2>2. pc'[t] = "slot" => NoneBelow(t, cur[t].b, cur[t].k + 1)
    BY <1>1, <1>3, <1>5, <1>6, PassSlot, Zenon DEF At
  <2>3. cur[t].k + 1 \in 0 .. EdgeBlockSize
    BY <1>5, ConstantsAssumption DEF Index
  <2>4. ASSUME NEW b \in Blocks, NEW k \in 0 .. EdgeBlockSize
        PROVE  NoneBelow(t, b, k)' = NoneBelow(t, b, k)
    BY <1>1, <1>2, KnowledgeKept, Zenon
  <2> QED
    BY <1>3, <1>5, <2>2, <2>3, <2>4, Zenon DEF NoneBefore
<1>8. ScanOK(t)'
  BY <1>1, <1>3, <1>5, <1>7, Zenon DEF ScanOK
<1>9. ~Filling(t)' /\ ~HoldsTail(t)' /\ ~HoldsSlot(t)' /\ ~InFlight(t)'
  <2>1. cur[t].k < cur[t].endk => ~(cur[t].k >= high[cur[t].b])
    BY <1>5, <1>6, ConstantsAssumption
  <2> QED
    BY <1>3, <1>5, <2>1, Zenon DEF Filling, HoldsTail, HoldsSlot, InFlight, UpdateLabels
<1>10. SlotOK(t)' /\ LocksOK(t)'
  BY <1>1, <1>3, <1>4, <1>5, <1>9, Zenon DEF SlotOK, LocksOK, UpdateLabels
<1>11. ThreadOK(t)'
  BY <1>4, <1>8, <1>10, Zenon DEF ThreadOK
<1>12. \A u \in Threads : u # t /\ HoldsSlot(u) => timeFirst'[At(u)] = MARKER
  BY <1>2, SlotLocks, Zenon
<1> QED
  BY <1>1, <1>2, <1>3, <1>9, <1>11, <1>12, LocalStep, Zenon
\* The slot of a thread that is at one.
LEMMA AtSlot ==
  ASSUME TypeOK, NEW t \in Threads, ThreadOK(t),
         pc[t] \in {"lock_slot", "locked", "put_back", "put_back_return", "push",
                    "push_store", "link"} \cup UpdateLabels
  PROVE  /\ CursorOK(t) /\ ScanOK(t) /\ SlotOK(t) /\ LocksOK(t)
         /\ HasCall(t) /\ cur[t].loc \in Locations
         /\ cur[t].b # 0 /\ cur[t].b \in Blocks /\ cur[t].b \in Alloc /\ OfType(t)
         /\ cur[t].k \in Index /\ cur[t].k \in Int /\ cur[t].k < EdgeBlockSize
         /\ cur[t].k \in 0 .. EdgeBlockSize /\ cur[t].k + 1 \in 0 .. EdgeBlockSize
         /\ high[cur[t].b] \in 0 .. EdgeBlockSize /\ high[cur[t].b] \in Int
         /\ At(t) \in Slots
<1>1. pc[t] # "call"
  BY Zenon DEF UpdateLabels
<1>2. CursorOK(t) /\ ScanOK(t) /\ SlotOK(t) /\ LocksOK(t)
  BY <1>1, Zenon DEF ThreadOK
<1>3. cur[t].b # 0 /\ cur[t].k \in Index /\ OfType(t)
  BY <1>2, Zenon DEF SlotOK
<1>4. cur[t].b \in Alloc /\ HasCall(t)
  BY <1>2, <1>3, Zenon DEF CursorOK
<1>5. cur[t].b \in Blocks /\ cur[t].loc \in Locations
  BY <1>4, Zenon DEF Alloc, TypeOK, Cursors
<1>6. high[cur[t].b] \in 0 .. EdgeBlockSize
  BY <1>5, Zenon DEF TypeOK
<1>7. /\ cur[t].k \in Int /\ cur[t].k < EdgeBlockSize /\ cur[t].k \in 0 .. EdgeBlockSize
      /\ cur[t].k + 1 \in 0 .. EdgeBlockSize /\ high[cur[t].b] \in Int
  BY <1>3, <1>6, ConstantsAssumption DEF Index
<1> QED
  BY <1>2, <1>3, <1>4, <1>5, <1>6, <1>7, Zenon DEF At, Slots

\* readfe on the slot's timeFirst, which nobody else holds.
LEMMA LockSlotStep ==
  ASSUME InsertInvariant, ~aborted, NEW t \in Threads, LockSlot(t)
  PROVE  InsertInvariant'
<1>1. TypeOK /\ ThreadOK(t) /\ Step(t) /\ pc[t] = "lock_slot" /\ ListsOK
  BY Zenon DEF InsertInvariant, LockSlot, Step
<1>2. /\ SameStore /\ ptr' = ptr /\ aborted' = aborted /\ work' = work /\ ret' = ret /\ cur' = cur
      /\ timeFirst[At(t)] # MARKER /\ timeFirst' = [timeFirst EXCEPT ![At(t)] = MARKER]
  BY Zenon DEF LockSlot, SameStore, blockVars, listVars, callVars
<1>3. pc'[t] = "locked"
  BY <1>1, Zenon DEF LockSlot, Goto, TypeOK
<1>4. /\ cur[t].b \in Blocks /\ cur[t].b # 0 /\ cur[t].k \in Index /\ cur[t].k \in 0 .. EdgeBlockSize
      /\ At(t) \in Slots /\ OfType(t) /\ ScanOK(t)
  BY <1>1, AtSlot, Zenon
<1>5. CursorOK(t)' /\ OfType(t)'
  BY <1>1, <1>2, <1>4, StaysAt, Zenon
<1>6. NoneBefore(t)'
  BY <1>1, <1>2, <1>4, KnowledgeKept, Zenon DEF ScanOK, NoneBefore
<1>7. timeFirst'[At(t)] = MARKER /\ At(t)' = At(t)
  BY <1>1, <1>2, <1>4, Zenon DEF TypeOK, At
<1>8. ScanOK(t)' /\ SlotOK(t)' /\ LocksOK(t)' /\ ~HoldsTail(t)' /\ ~InFlight(t)'
  BY <1>2, <1>3, <1>4, <1>5, <1>6, <1>7, Zenon
     DEF ScanOK, SlotOK, LocksOK, HoldsTail, InFlight, Filling, UpdateLabels
<1>9. ThreadOK(t)'
  BY <1>5, <1>8, Zenon DEF ThreadOK
<1>10. ListsOK'
  <2>1. /\ \A l \in Locations : Valid(l)' = Valid(l)
        /\ \A l \in Locations : \A p \in {0} \cup Blocks : Follows(l, p)' = Follows(l, p)
    BY <1>1, <1>2, StoreKept, Zenon
  <2>2. ASSUME NEW l \in Locations, Valid(l), ptr[l] # MARKER
        PROVE  Follows(l, ptr[l])'
    BY <1>1, <1>2, <2>1, <2>2, PointsInto, Zenon
  <2> QED
    BY <1>2, <2>1, <2>2, Zenon DEF ListsOK
<1>11. ASSUME NEW u \in Threads, u # t
       PROVE  /\ HoldsTail(u) => ptr'[cur[u].loc] = MARKER
              /\ HoldsSlot(u) => timeFirst'[At(u)] = MARKER
              /\ Exclusive(t, u)' /\ Exclusive(u, t)'
  <2>1. ThreadOK(u) /\ SameThread(u) /\ Exclusive(t, u) /\ Exclusive(u, t)
    BY <1>1, <1>11, OthersSame, Zenon DEF InsertInvariant
  <2>2. HoldsTail(u) => ptr'[cur[u].loc] = MARKER
    BY <1>1, <1>2, <2>1, PendingTyped, Zenon
  <2>3. HoldsSlot(u) => timeFirst[At(u)] = MARKER /\ At(u) \in Slots
    <3>1. HoldsSlot(u) => pc[u] \in {"locked"} \cup UpdateLabels
      BY Zenon DEF HoldsSlot, Filling, UpdateLabels
    <3> QED
      BY <1>1, <2>1, <3>1, AtSlot, Zenon DEF LocksOK
  <2>4. HoldsSlot(u) => timeFirst'[At(u)] = MARKER
    BY <1>1, <1>2, <2>3, Zenon DEF TypeOK
  <2>5. HoldsSlot(u) => cur[t].b # cur[u].b \/ cur[t].k # cur[u].k
    BY <1>2, <2>3, Zenon DEF At
  <2>6. Grows /\ TypeOK'
    BY <1>1, <1>2, StoreKept, TypeStep, Zenon
  <2>7. Exclusive(t, u)' /\ Exclusive(u, t)'
    BY <1>1, <1>2, <1>8, <2>1, <2>5, <2>6, StayApart, Zenon DEF Exclusive
  <2> QED
    BY <2>2, <2>4, <2>7, Zenon
<1> QED
  BY <1>1, <1>2, <1>9, <1>10, <1>11, QuietStep, Zenon

\* Under the lock: the slot is still free, or another thread has filled it.
LEMMA RecheckStep ==
  ASSUME InsertInvariant, ~aborted, NEW t \in Threads, Recheck(t)
  PROVE  InsertInvariant'
<1>1. TypeOK /\ ThreadOK(t) /\ Step(t) /\ pc[t] = "locked"
  BY Zenon DEF InsertInvariant, Recheck, EndUnderLock, Step
<1>2. /\ SameStore /\ ptr' = ptr /\ timeFirst' = timeFirst /\ aborted' = aborted /\ work' = work /\ ret' = ret
      /\ high' = high
  BY Zenon DEF Recheck, EndUnderLock, SameStore, slotVars, blockVars, listVars, callVars
<1>3. /\ cur[t].b \in Blocks /\ cur[t].b # 0 /\ cur[t].k \in Index /\ cur[t].k \in 0 .. EdgeBlockSize
      /\ cur[t].k \in Int /\ high[cur[t].b] \in Int
      /\ At(t) \in Slots /\ OfType(t) /\ ScanOK(t) /\ LocksOK(t)
  BY <1>1, AtSlot, Zenon
<1>4. /\ cur'[t].loc = cur[t].loc /\ cur'[t].b = cur[t].b /\ cur'[t].k = cur[t].k
      /\ cur'[t].endk = high[cur[t].b]
  <2>1. cur \in [Threads -> Cursors]
    BY <1>1, Zenon DEF TypeOK
  <2>2. cur' = [cur EXCEPT ![t].endk = high[cur[t].b]]
    BY Zenon DEF Recheck, EndUnderLock
  <2> QED
    BY <2>1, <2>2, Zenon DEF Cursors
<1>5. \/ /\ pc'[t] = "update" /\ job'[t].then = "return" /\ cur[t].k >= high[cur[t].b]
      \/ /\ pc'[t] = "update" /\ job'[t].then = "put_back_return" /\ cur[t].k < high[cur[t].b]
      \/ /\ pc'[t] = "put_back" /\ cur[t].k < high[cur[t].b] /\ neighbor[At(t)].to # Dest(t)
  <2>1. ~(neighbor[At(t)].to < 0)
    <3>1. neighbor[At(t)].to \in Vertices
      BY <1>1, <1>3, Zenon DEF TypeOK
    <3> QED
      BY <3>1, ConstantsAssumption DEF Vertices
  <2>2. pc \in [Threads -> Labels] /\ job \in [Threads -> Jobs]
    BY <1>1, Zenon DEF TypeOK
  <2> QED
    BY <2>1, <2>2 DEF Recheck, EndUnderLock, SetJob, Goto
<1>6. CursorOK(t)' /\ OfType(t)'
  BY <1>1, <1>2, <1>3, <1>4, StaysAt, Zenon
<1>7. NoneBefore(t)'
  BY <1>1, <1>2, <1>3, <1>4, KnowledgeKept, Zenon DEF ScanOK, NoneBefore
<1>8. At(t)' = At(t) /\ neighbor'[At(t)].to = neighbor[At(t)].to /\ Dest(t)' = Dest(t)
  BY <1>1, <1>2, <1>3, <1>4, KnowledgeKept, Zenon DEF At, SameStore
<1>9. ScanOK(t)'
  <2>1. cur'[t].endk <= high'[cur'[t].b]
    BY <1>2, <1>3, <1>4
  <2> QED
    BY <1>5, <1>7, <2>1, Zenon DEF ScanOK
<1>10. SlotOK(t)'
  <2>1. ~(cur[t].k < high[cur[t].b] /\ cur[t].k >= high[cur[t].b])
    BY <1>3
  <2>2. Filling(t)' => job'[t].then # "put_back_return"
    BY <1>2, <1>4, <1>5, <2>1, Zenon DEF Filling
  <2> QED
    BY <1>2, <1>3, <1>4, <1>5, <1>6, <1>7, <1>8, <2>2, Zenon DEF SlotOK
<1>11. ~HoldsTail(t)' /\ ~InFlight(t)' /\ (HoldsSlot(t)' => HoldsSlot(t))
  BY <1>1, <1>2, <1>4, <1>5, Zenon DEF HoldsTail, HoldsSlot, InFlight, Filling, UpdateLabels
<1>12. LocksOK(t)'
  BY <1>2, <1>3, <1>8, <1>11, Zenon DEF LocksOK
<1>13. ThreadOK(t)'
  BY <1>6, <1>9, <1>10, <1>12, Zenon DEF ThreadOK
<1>14. \A u \in Threads : u # t /\ HoldsSlot(u) => timeFirst'[At(u)] = MARKER
  BY <1>2, SlotLocks, Zenon
<1> QED
  BY <1>1, <1>2, <1>4, <1>11, <1>13, <1>14, LocalStep, Zenon
\* A call that returns and drops no lock of the list.
LEMMA ReturnStep ==
  ASSUME InsertInvariant, ~aborted, ~aborted', NEW t \in Threads, Step(t), SameStore, ptr' = ptr,
         pc'[t] = "call",
         \A u \in Threads : u # t /\ HoldsSlot(u) => timeFirst'[At(u)] = MARKER
  PROVE  InsertInvariant'
<1>1. ThreadOK(t)' /\ ~HoldsTail(t)' /\ ~HoldsSlot(t)' /\ ~InFlight(t)'
  BY Zenon DEF ThreadOK, HoldsTail, HoldsSlot, InFlight, Filling, UpdateLabels
<1> QED
  BY <1>1, LocalStep, Zenon

\* writeef on the slot's timeFirst, to go on or to return.
LEMMA PutBackStep ==
  ASSUME InsertInvariant, ~aborted, NEW t \in Threads, PutBack(t)
  PROVE  InsertInvariant'
<1>1. TypeOK /\ ThreadOK(t) /\ Step(t) /\ pc[t] \in {"put_back", "put_back_return"}
  BY Zenon DEF InsertInvariant, PutBack, Step
<1>2. SameStore /\ ptr' = ptr /\ aborted' = aborted /\ work' = work /\ high' = high
  BY Zenon DEF PutBack, SameStore, blockVars, listVars
<1>3. /\ cur[t].b \in Blocks /\ cur[t].b # 0 /\ cur[t].k \in Index /\ cur[t].k \in 0 .. EdgeBlockSize
      /\ cur[t].k + 1 \in 0 .. EdgeBlockSize
      /\ At(t) \in Slots /\ OfType(t) /\ ScanOK(t) /\ SlotOK(t)
  BY <1>1, AtSlot, Zenon
<1>4. cur[t].k < high[cur[t].b] /\ (pc[t] = "put_back" => neighbor[At(t)].to # Dest(t))
  BY <1>1, <1>3, Zenon DEF SlotOK
<1>5. \A u \in Threads : u # t /\ HoldsSlot(u) => timeFirst'[At(u)] = MARKER
  <2>1. \A s \in Slots : s # At(t) => timeFirst'[s] = timeFirst[s]
    BY <1>1, Zenon DEF PutBack, TypeOK
  <2> QED
    BY <1>3, <1>4, <2>1, SlotLocks, Zenon
<1>6. CASE pc[t] = "put_back_return"
  <2>1. pc'[t] = "call"
    BY <1>1, <1>6, Zenon DEF PutBack, Return, Goto, TypeOK
  <2> QED
    BY <1>1, <1>2, <1>5, <2>1, ReturnStep, Zenon
<1>7. CASE pc[t] = "put_back"
  <2>1. NextSlot(t) /\ ret' = ret /\ pc'[t] = "slot"
    BY <1>1, <1>7, Zenon DEF PutBack, Goto, TypeOK
  <2>2. /\ cur'[t].loc = cur[t].loc /\ cur'[t].b = cur[t].b
        /\ cur'[t].endk = cur[t].endk /\ cur'[t].k = cur[t].k + 1
    BY <1>1, <2>1, MoveOrFind, Zenon
  <2>3. NoneBefore(t)'
    <3>1. NoneBelow(t, cur[t].b, cur[t].k + 1)
      BY <1>1, <1>3, <1>4, <1>7, PassSlot, Zenon DEF ScanOK, NoneBefore, At
    <3> QED
      BY <1>1, <1>2, <1>3, <2>1, <2>2, <3>1, KnowledgeKept, Zenon DEF NoneBefore
  <2>4. CursorOK(t)'
    BY <1>1, <1>2, <1>7, <2>1, <2>2, StaysAt, Zenon
  <2>5. ScanOK(t)'
    BY <1>2, <1>3, <1>7, <2>1, <2>2, <2>3, Zenon DEF ScanOK
  <2>6. SlotOK(t)' /\ LocksOK(t)' /\ ~HoldsTail(t)' /\ ~HoldsSlot(t)' /\ ~InFlight(t)'
    BY <2>1, Zenon DEF SlotOK, LocksOK, HoldsTail, HoldsSlot, InFlight, Filling, UpdateLabels
  <2>7. ThreadOK(t)'
    BY <2>4, <2>5, <2>6, Zenon DEF ThreadOK
  <2> QED
    BY <1>1, <1>2, <1>5, <1>7, <2>2, <2>6, <2>7, LocalStep, Zenon
<1> QED
  BY <1>1, <1>6, <1>7, Zenon

\* The steps of update_edge_data_and_direction and push_ebs that fill no slot.
LEMMA UpdateStep ==
  ASSUME InsertInvariant, ~aborted, ~aborted', NEW t \in Threads, Step(t), SameStore, ptr' = ptr,
         work' = work, ret' = ret, cur' = cur, job' = job,
         \A s \in Slots : s # At(t) => timeFirst'[s] = timeFirst[s],
         pc[t] \in UpdateLabels \cup {"push", "push_store"},
         \/ pc[t] = "update" /\ pc'[t] = "neighbor" /\ timeFirst' = timeFirst
         \/ /\ cur[t].k < high[cur[t].b]
            /\ pc'[t] \in {"first_ts", "stamp", "stamp_lock", "stamp_write", "release",
                           "put_back_return", "push", "push_store", "link"},
         InFlight(t)' = InFlight(t)
  PROVE  InsertInvariant'
<1>1. TypeOK /\ ThreadOK(t) /\ pc[t] # "call"
  BY Zenon DEF InsertInvariant, UpdateLabels
<1>2. high' = high
  BY Zenon DEF SameStore
<1>3. /\ cur[t].b \in Blocks /\ cur[t].b # 0 /\ cur[t].k \in Index /\ cur[t].k \in 0 .. EdgeBlockSize
      /\ cur[t].k \in Int /\ high[cur[t].b] \in Int /\ cur[t].loc \in Locations
      /\ At(t) \in Slots /\ OfType(t) /\ ScanOK(t) /\ SlotOK(t) /\ LocksOK(t)
  BY <1>1, AtSlot, Zenon
<1>4. \A u \in Threads : u # t /\ HoldsSlot(u) => timeFirst'[At(u)] = MARKER
  BY <1>3, SlotLocks, Zenon
<1>5. CursorOK(t)' /\ OfType(t)' /\ At(t)' = At(t)
  BY <1>1, <1>3, StaysAt, Zenon DEF At
<1>6. ScanOK(t)'
  BY Zenon DEF ScanOK
<1>7. /\ Filling(t)' => Filling(t) /\ pc[t] = "update" /\ timeFirst' = timeFirst
      /\ HoldsSlot(t)' => HoldsSlot(t) /\ pc[t] = "update" /\ timeFirst' = timeFirst
  BY <1>2, <1>3, Zenon DEF Filling, HoldsSlot
<1>8. NoneBefore(t) => NoneBefore(t)'
  BY <1>1, <1>3, KnowledgeKept, Zenon DEF NoneBefore
<1>9. SlotOK(t)'
  BY <1>2, <1>3, <1>5, <1>7, <1>8, Zenon DEF SlotOK, UpdateLabels
<1>10. HoldsTail(t)' = HoldsTail(t) /\ HoldsTail(t) = InFlight(t) /\ Pending(t)' = Pending(t)
  BY Zenon DEF HoldsTail, InFlight, Pending, UpdateLabels
<1>11. HoldsTail(t) => Follows(cur[t].loc, Pending(t))'
  <2>1. HoldsTail(t) => Pending(t) \in {0} \cup Blocks /\ Follows(cur[t].loc, Pending(t))
    BY <1>1, PendingTyped, Zenon
  <2>2. \A l \in Locations : \A p \in {0} \cup Blocks : Follows(l, p)' = Follows(l, p)
    BY <1>1, StoreKept, Zenon
  <2> QED
    BY <1>3, <1>10, <2>1, <2>2, Zenon
<1>12. LocksOK(t)'
  BY <1>3, <1>5, <1>7, <1>10, <1>11, Zenon DEF LocksOK
<1>13. ThreadOK(t)'
  BY <1>5, <1>6, <1>9, <1>12, Zenon DEF ThreadOK
<1> QED
  BY <1>1, <1>4, <1>7, <1>10, <1>13, LocalStep, Zenon
\* The steps of update_edge_data_and_direction and push_ebs that leave neighbor
\* and high alone.
LEMMA UpdateSteps ==
  ASSUME InsertInvariant, ~aborted, NEW t \in Threads,
         \/ LockWeight(t) \/ WriteTimeFirst(t) \/ AddDirection(t) \/ CheckStamps(t)
         \/ LockStamps(t) \/ WriteStamps(t) \/ Push(t) \/ PushStore(t)
  PROVE  InsertInvariant'
<1> USE DEF slotVars, blockVars, listVars, callVars, localVars, Goto, SameStore
<1>1. TypeOK /\ ThreadOK(t) /\ Step(t) /\ pc \in [Threads -> Labels]
  BY Zenon DEF InsertInvariant, Step, TypeOK
<1>2. ASSUME pc[t] \in UpdateLabels \cup {"push", "push_store"}, pc[t] \notin {"update", "neighbor", "register"}
      PROVE  cur[t].k < high[cur[t].b]
  BY <1>1, <1>2, AtSlot, Zenon DEF SlotOK, UpdateLabels
<1>3. CASE LockWeight(t)
  <2>1. /\ SameStore /\ ptr' = ptr /\ work' = work /\ ret' = ret /\ cur' = cur /\ job' = job
        /\ timeFirst' = timeFirst /\ aborted' = aborted /\ pc[t] = "update" /\ pc'[t] = "neighbor"
    BY <1>1, <1>3, Zenon DEF LockWeight, WeightFor
  <2>2. InFlight(t)' = InFlight(t)
    BY <2>1, Zenon DEF InFlight, UpdateLabels
  <2> QED
    BY <1>1, <2>1, <2>2, UpdateStep, Zenon DEF UpdateLabels
<1>4. CASE WriteTimeFirst(t)
  <2>1. /\ SameStore /\ ptr' = ptr /\ work' = work /\ ret' = ret /\ cur' = cur /\ job' = job
        /\ aborted' = aborted /\ pc[t] = "first_ts" /\ pc'[t] \in {"stamp", "release"}
    BY <1>1, <1>4, Zenon DEF WriteTimeFirst, AfterNeighbor
  <2>2. \A s \in Slots : s # At(t) => timeFirst'[s] = timeFirst[s]
    BY <1>1, <1>4, Zenon DEF WriteTimeFirst, TypeOK
  <2>3. InFlight(t)' = InFlight(t)
    BY <2>1, Zenon DEF InFlight, UpdateLabels
  <2>4. cur[t].k < high[cur[t].b] /\ pc[t] \in UpdateLabels
    BY <1>2, <2>1, Zenon DEF UpdateLabels
  <2> QED
    BY <1>1, <2>1, <2>2, <2>3, <2>4, UpdateStep, Zenon
<1>5. CASE AddDirection(t)
  <2>1. /\ tail' = tail /\ blk' = blk /\ high' = high
        /\ ptr' = ptr /\ work' = work /\ ret' = ret /\ cur' = cur /\ job' = job /\ timeFirst' = timeFirst
        /\ aborted' = aborted /\ pc[t] = "neighbor" /\ pc'[t] \in {"first_ts", "stamp", "release"}
    BY <1>1, <1>5, Zenon DEF AddDirection, AfterNeighbor
  <2>2. cur[t].k < high[cur[t].b]
    <3>1. cur[t].k \in Int /\ high[cur[t].b] \in Int
      BY <1>1, <2>1, AtSlot, Zenon DEF UpdateLabels
    <3> QED
      BY <1>5, <3>1 DEF AddDirection, IsNewEdge
  <2>3. \A s \in Slots : neighbor'[s].to = neighbor[s].to
    <3>1. neighbor \in [Slots -> [to : Vertices, dir : SUBSET {DirOut, DirIn}]]
      BY <1>1, Zenon DEF TypeOK
    <3>2. \/ neighbor' = neighbor
          \/ neighbor' = [neighbor EXCEPT ![At(t)].dir = neighbor[At(t)].dir \cup {Call(t).direction}]
      BY <1>5, Zenon DEF AddDirection
    <3> QED
      BY <3>1, <3>2, Zenon
  <2>4. InFlight(t)' = InFlight(t)
    BY <2>1, Zenon DEF InFlight, UpdateLabels
  <2>5. SameStore
    BY <2>1, <2>3, Zenon
  <2> QED
    BY <1>1, <2>1, <2>2, <2>4, <2>5, UpdateStep, Zenon DEF UpdateLabels
<1>6. CASE CheckStamps(t) \/ LockStamps(t) \/ WriteStamps(t)
  <2>1. /\ SameStore /\ ptr' = ptr /\ work' = work /\ ret' = ret /\ cur' = cur /\ job' = job
        /\ timeFirst' = timeFirst /\ aborted' = aborted
    BY <1>6, Zenon DEF CheckStamps, LockStamps, WriteStamps
  <2>2. /\ pc[t] \in {"stamp", "stamp_lock", "stamp_write"}
        /\ pc'[t] \in {"stamp_lock", "stamp_write", "release"}
    BY <1>1, <1>6, Zenon DEF CheckStamps, LockStamps, WriteStamps
  <2>3. InFlight(t)' = InFlight(t)
    BY <2>1, <2>2, Zenon DEF InFlight, UpdateLabels
  <2>4. cur[t].k < high[cur[t].b] /\ pc[t] \in UpdateLabels
    BY <1>2, <2>2, Zenon DEF UpdateLabels
  <2> QED
    BY <1>1, <2>1, <2>2, <2>3, <2>4, UpdateStep, Zenon
<1>7. CASE Push(t) \/ PushStore(t)
  <2>1. /\ SameStore /\ ptr' = ptr /\ work' = work /\ ret' = ret /\ cur' = cur /\ job' = job
        /\ timeFirst' = timeFirst /\ aborted' = aborted
    BY <1>7, Zenon DEF Push, PushStore
  <2>2. pc[t] \in {"push", "push_store"} /\ pc'[t] \in {"push_store", "link"}
    BY <1>1, <1>7, Zenon DEF Push, PushStore
  <2>3. InFlight(t)' = InFlight(t)
    BY <2>1, <2>2, Zenon DEF InFlight, UpdateLabels
  <2>4. cur[t].k < high[cur[t].b]
    BY <1>2, <2>2, Zenon
  <2> QED
    BY <1>1, <2>1, <2>2, <2>3, <2>4, UpdateStep, Zenon
<1> QED
  BY <1>3, <1>4, <1>5, <1>6, <1>7, Zenon
=============================================================================
