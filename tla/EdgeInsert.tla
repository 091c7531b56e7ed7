------------------------------ MODULE EdgeInsert ------------------------------
(***************************************************************************)
(* Concurrent edge insertion into the STINGER structure: any number of     *)
(* threads run stinger_update_directed_edge (lib/stinger_core/src/         *)
(* stinger.c) on the linked edge blocks of the vertices they name.         *)
(*                                                                         *)
(* Every step makes at most one access to a word that other threads write  *)
(* and this algorithm reads: a readfe (wait until the word is not MARKER,  *)
(* then swap MARKER in), a readff (wait, then read), a writeef or writexf  *)
(* (store, which unlocks), a plain read of a neighbor word or of high, or  *)
(* a fetch-and-add.  Counters that no step of the algorithm reads (the     *)
(* degrees, numEdges) move together with the step next to them.            *)
(***************************************************************************)
EXTENDS Integers, Sequences

CONSTANTS Threads,        \* the OpenMP threads of a parallel region
          NV,             \* number of vertices
          NEtypes,        \* max_netypes
          EdgeBlockSize,  \* STINGER_EDGEBLOCKSIZE
          MaxBlocks,      \* max_neblocks
          MaxStamp,       \* a number above every timestamp: INT64_MAX
          Work            \* the calls each thread may have been given

Vertices == 0 .. NV - 1
ETypes == 0 .. NEtypes - 1
Index == 0 .. EdgeBlockSize - 1
Blocks == 1 .. MaxBlocks - 1
Slots == Blocks \X Index
Places == 0 .. MaxBlocks - 1

\* The reserved word of the full/empty emulation: UINT64_MAX, -1 as int64_t.
MARKER == -1

DirOut == "out"
DirIn == "in"

\* One call of stinger_update_directed_edge.
Calls == [type : ETypes, from : Vertices, to : Vertices, weight : Int,
          ts : 0 .. MaxStamp - 1, direction : {DirOut, DirIn},
          operation : {"set", "incr"}]

ASSUME ConstantsAssumption ==
  /\ NV \in Nat \ {0}
  /\ NEtypes \in Nat \ {0}
  /\ EdgeBlockSize \in Nat \ {0}
  /\ MaxBlocks \in Nat \ {0}
  /\ MaxStamp \in Nat \ {0}
  /\ Work \subseteq [Threads -> Seq(Calls)]

(***************************************************************************)
(* A location holding an eb_index_t is a number: b > 0 is the next field   *)
(* of block b and -v is the edges field of vertex v.                       *)
(***************************************************************************)
Head0(v) == -v
Locations == -(NV - 1) .. MaxBlocks - 1

VARIABLES tail,       \* ebpool_tail
          blk,        \* per block: its edge type and its vertex
          high,       \* per block: the end of its used slots
          numEdges,   \* per block
          stamps,     \* per block: smallStamp and largeStamp
          neighbor,   \* per slot: the neighbor word, a vertex and direction bits
          weight,     \* per slot
          timeFirst,  \* per slot
          timeRecent, \* per slot
          ptr,        \* per location: an eb_index_t, 0 for none
          vtx,        \* per vertex: the three degree counters
          etaHigh,    \* per edge type: the length of the edge type array
          etaBlocks,  \* per edge type and place: a block
          aborted,    \* get_from_ebpool called abort()
          work,       \* per thread: the calls it makes, in order
          ret,        \* per thread: the values its calls returned so far
          pc,         \* per thread: where it is
          cur,        \* per thread: curs.loc, tmp, k and endk
          job,        \* per thread: what to do with the slot, and afterwards
          saved,      \* per thread: the word it read when it locked
          newWeight,  \* per thread: weight in update_edge_data_and_direction
          newSmall    \* per thread: smallStamp there

slotVars == <<neighbor, weight, timeFirst, timeRecent>>
blockVars == <<tail, blk, high, numEdges, stamps>>
listVars == <<ptr, etaHigh, etaBlocks, aborted>>
callVars == <<work, ret>>
localVars == <<cur, job, saved, newWeight, newSmall>>
vars == <<slotVars, blockVars, listVars, vtx, callVars, pc, localVars>>

\* A block as new_eb leaves it: xzero, so the neighbor words name vertex 0
\* without a direction bit, and no stamps yet.
ZeroWord == [to |-> 0, dir |-> {}]
NoStamps == [small |-> MaxStamp, large |-> -MaxStamp]

Init ==
  /\ tail = 1
  /\ blk = [b \in Blocks |-> [etype |-> 0, vertexID |-> 0]]
  /\ high = [b \in Blocks |-> 0]
  /\ numEdges = [b \in Blocks |-> 0]
  /\ stamps = [b \in Blocks |-> NoStamps]
  /\ neighbor = [s \in Slots |-> ZeroWord]
  /\ weight = [s \in Slots |-> 0]
  /\ timeFirst = [s \in Slots |-> 0]
  /\ timeRecent = [s \in Slots |-> 0]
  /\ ptr = [l \in Locations |-> 0]
  /\ vtx = [v \in Vertices |-> [outDegree |-> 0, inDegree |-> 0, degree |-> 0]]
  /\ etaHigh = [e \in ETypes |-> 0]
  /\ etaBlocks = [p \in ETypes \X Places |-> 0]
  /\ aborted = FALSE
  /\ work \in Work
  /\ ret = [t \in Threads |-> << >>]
  /\ pc = [t \in Threads |-> "call"]
  /\ cur = [t \in Threads |-> [loc |-> 0, b |-> 0, k |-> 0, endk |-> 0]]
  /\ job = [t \in Threads |-> [operation |-> "set", ret |-> 0, then |-> "return"]]
  /\ saved = [t \in Threads |-> 0]
  /\ newWeight = [t \in Threads |-> 0]
  /\ newSmall = [t \in Threads |-> 0]

\* The call thread t is executing and what it reads from it.
HasCall(t) == Len(ret[t]) < Len(work[t])
Call(t) == work[t][Len(ret[t]) + 1]
Src(t) == IF Call(t).direction = DirOut THEN Call(t).from ELSE Call(t).to
Dest(t) == IF Call(t).direction = DirOut THEN Call(t).to ELSE Call(t).from

\* The slot it looks at, and whether the block is of the call's type.
At(t) == <<cur[t].b, cur[t].k>>
OfType(t) == blk[cur[t].b].etype = Call(t).type

\* Both sides of a directed edge: the order in which stinger_insert_edge and
\* stinger_incr_edge visit them, the lower vertex first.
InsertEdge(type, from, to, w, ts, operation) ==
  LET Side(d) == [type |-> type, from |-> from, to |-> to, weight |-> w,
                  ts |-> ts, direction |-> d, operation |-> operation]
  IN IF from < to THEN <<Side(DirOut), Side(DirIn)>> ELSE <<Side(DirIn), Side(DirOut)>>

Goto(t, label) == pc' = [pc EXCEPT ![t] = label]

\* Mutant: the used slots of a block are as many as it has edges.
EndByCount(b) == IF b = 0 THEN 0 ELSE numEdges[b]

\* Look at the first slot of block b; b = 0 is the end of the list.
EndOf(b) == IF b = 0 THEN 0 ELSE high[b]
GotoBlock(t, loc, b) ==
  cur' = [cur EXCEPT ![t] = [loc |-> loc, b |-> b, k |-> 0, endk |-> EndOf(b)]]

NextSlot(t) == cur' = [cur EXCEPT ![t].k = @ + 1]

SetJob(t, operation, value, then) ==
  job' = [job EXCEPT ![t] = [operation |-> operation, ret |-> value, then |-> then]]

Return(t, value) ==
  /\ ret' = [ret EXCEPT ![t] = Append(@, value)]
  /\ Goto(t, "call")

(***************************************************************************)
(* etype_begin: walk from the vertex to the first block of the type,       *)
(* keeping in loc the location of the pointer to it.                       *)
(***************************************************************************)
BeginAt(t, loc) ==
  LET b == ptr[loc] IN
  /\ b # MARKER
  /\ GotoBlock(t, loc, b)
  /\ Goto(t, IF b # 0 /\ blk[b].etype # Call(t).type THEN "etype_begin" ELSE "search")
  /\ UNCHANGED <<slotVars, blockVars, listVars, vtx, callVars, job, saved, newWeight, newSmall>>

StartCall(t) ==
  /\ pc[t] = "call"
  /\ HasCall(t)
  /\ BeginAt(t, Head0(Src(t)))

EtypeBegin(t) ==
  /\ pc[t] = "etype_begin"
  /\ BeginAt(t, cur[t].b)

\* The edge is in the slot the thread looks at: go and update it.
Found(t) ==
  /\ SetJob(t, Call(t).operation,
            IF Call(t).direction \in neighbor[At(t)].dir THEN 0 ELSE 1, "return")
  /\ Goto(t, "update")
  /\ UNCHANGED cur

(***************************************************************************)
(* 1: Check if the edge already exists, looking below high only.           *)
(***************************************************************************)
Search(t) ==
  /\ pc[t] = "search"
  /\ cur[t].b # 0
  /\ OfType(t)
  /\ cur[t].k < cur[t].endk
  /\ \/ neighbor[At(t)].to = Dest(t) /\ Found(t)
     \/ neighbor[At(t)].to # Dest(t) /\ NextSlot(t) /\ UNCHANGED <<job, pc>>
  /\ UNCHANGED <<slotVars, blockVars, listVars, vtx, callVars, saved, newWeight, newSmall>>

SearchNext(t) ==
  /\ pc[t] = "search"
  /\ cur[t].b # 0
  /\ ~OfType(t) \/ cur[t].k >= cur[t].endk
  /\ ptr[cur[t].b] # MARKER
  /\ GotoBlock(t, cur[t].loc, ptr[cur[t].b])
  /\ UNCHANGED <<slotVars, blockVars, listVars, vtx, callVars, pc, job, saved, newWeight, newSmall>>

(***************************************************************************)
(* 2: The edge isn't already there.  Check for an empty slot.              *)
(***************************************************************************)
Relook(t) ==
  /\ \/ pc[t] = "search" /\ cur[t].b = 0
     \/ pc[t] = "relook"
  /\ ptr[cur[t].loc] # MARKER
  /\ GotoBlock(t, cur[t].loc, ptr[cur[t].loc])
  /\ Goto(t, "slot")
  /\ UNCHANGED <<slotVars, blockVars, listVars, vtx, callVars, job, saved, newWeight, newSmall>>

TrySlot(t) ==
  LET to == neighbor[At(t)].to
      below == cur[t].k < cur[t].endk IN
  /\ pc[t] = "slot"
  /\ cur[t].b # 0
  /\ OfType(t)
  /\ cur[t].k < EdgeBlockSize
  /\ \/ to = Dest(t) /\ below /\ Found(t)
     \/ (to < 0 \/ ~below) /\ Goto(t, "lock_slot") /\ UNCHANGED <<cur, job>>
     \/ to # Dest(t) /\ to >= 0 /\ below /\ NextSlot(t) /\ UNCHANGED <<job, pc>>
  /\ UNCHANGED <<slotVars, blockVars, listVars, vtx, callVars, saved, newWeight, newSmall>>

\* timefirst = readfe (&timeFirst)
LockSlot(t) ==
  /\ pc[t] = "lock_slot"
  /\ timeFirst[At(t)] # MARKER
  /\ timeFirst' = [timeFirst EXCEPT ![At(t)] = MARKER]
  /\ saved' = [saved EXCEPT ![t] = timeFirst[At(t)]]
  /\ Goto(t, "locked")
  /\ UNCHANGED <<neighbor, weight, timeRecent, blockVars, listVars, vtx, callVars,
                 cur, job, newWeight, newSmall>>

\* Mutant: the end that was read before the lock was taken.
StaleEnd(t) == cur[t].endk

EndUnderLock(t) == high[cur[t].b]

\* Under the lock: the slot is still empty, or holds this edge by now, or
\* holds another one.
Recheck(t) ==
  LET to == neighbor[At(t)].to
      endk == EndUnderLock(t) IN
  /\ pc[t] = "locked"
  /\ cur' = [cur EXCEPT ![t].endk = endk]
  /\ \/ /\ to < 0 \/ cur[t].k >= endk
        /\ SetJob(t, "set", 1, "return")
        /\ Goto(t, "update")
     \/ /\ to = Dest(t) /\ cur[t].k < endk
        /\ SetJob(t, Call(t).operation, 0, "put_back_return")
        /\ Goto(t, "update")
     \/ /\ to # Dest(t) /\ to >= 0 /\ cur[t].k < endk
        /\ Goto(t, "put_back")
        /\ UNCHANGED job
  /\ UNCHANGED <<slotVars, blockVars, listVars, vtx, callVars, saved, newWeight, newSmall>>

\* writexf (&timeFirst, timefirst), and on to the next slot or back.
PutBack(t) ==
  /\ pc[t] \in {"put_back", "put_back_return"}
  /\ timeFirst' = [timeFirst EXCEPT ![At(t)] = saved[t]]
  /\ IF pc[t] = "put_back"
     THEN NextSlot(t) /\ Goto(t, "slot") /\ UNCHANGED ret
     ELSE Return(t, job[t].ret) /\ UNCHANGED cur
  /\ UNCHANGED <<neighbor, weight, timeRecent, blockVars, listVars, vtx, work,
                 job, saved, newWeight, newSmall>>

NextLoc(t) == cur[t].b

SlotNext(t) ==
  /\ pc[t] = "slot"
  /\ cur[t].b # 0
  /\ ~OfType(t) \/ cur[t].k = EdgeBlockSize
  /\ ptr[cur[t].b] # MARKER
  /\ GotoBlock(t, NextLoc(t), ptr[cur[t].b])
  /\ UNCHANGED <<slotVars, blockVars, listVars, vtx, callVars, pc, job, saved, newWeight, newSmall>>

(***************************************************************************)
(* 3: Needs a new block to be inserted at end of list.                     *)
(***************************************************************************)
\* Mutant: no second look at the pointer once it is locked.
AlwaysNewEb(next) == "new_eb"

AfterTailLock(next) == IF next = 0 THEN "new_eb" ELSE "tail_taken"

LockTail(t) ==
  LET next == ptr[cur[t].loc] IN
  /\ pc[t] = "slot"
  /\ cur[t].b = 0
  /\ next # MARKER
  /\ ptr' = [ptr EXCEPT ![cur[t].loc] = MARKER]
  /\ saved' = [saved EXCEPT ![t] = next]
  /\ Goto(t, AfterTailLock(next))
  /\ UNCHANGED <<slotVars, blockVars, etaHigh, etaBlocks, aborted, vtx, callVars,
                 cur, job, newWeight, newSmall>>

\* Someone else appended a block first: unlock and look again from there.
TailTaken(t) ==
  /\ pc[t] = "tail_taken"
  /\ ptr[cur[t].loc] = MARKER
  /\ ptr' = [ptr EXCEPT ![cur[t].loc] = saved[t]]
  /\ Goto(t, "relook")
  /\ UNCHANGED <<slotVars, blockVars, etaHigh, etaBlocks, aborted, vtx, callVars, localVars>>

\* get_from_ebpool for one block, then the block's initialisation.
NewEb(t) ==
  LET Zeroed(f, value) == [s \in Slots |-> IF s[1] = tail THEN value ELSE f[s]] IN
  /\ pc[t] = "new_eb"
  /\ tail + 1 < MaxBlocks
  /\ tail' = tail + 1
  /\ blk' = [blk EXCEPT ![tail] = [etype |-> Call(t).type, vertexID |-> Src(t)]]
  /\ high' = [high EXCEPT ![tail] = 0]
  /\ numEdges' = [numEdges EXCEPT ![tail] = 0]
  /\ stamps' = [stamps EXCEPT ![tail] = NoStamps]
  /\ neighbor' = Zeroed(neighbor, ZeroWord)
  /\ weight' = Zeroed(weight, 0)
  /\ timeFirst' = Zeroed(timeFirst, 0)
  /\ timeRecent' = Zeroed(timeRecent, 0)
  /\ ptr' = [ptr EXCEPT ![tail] = 0]
  /\ cur' = [cur EXCEPT ![t] = [loc |-> cur[t].loc, b |-> tail, k |-> 0, endk |-> 0]]
  /\ SetJob(t, "set", 1, "push")
  /\ Goto(t, "update")
  /\ UNCHANGED <<etaHigh, etaBlocks, aborted, vtx, callVars, saved, newWeight, newSmall>>

\* The pool is used up: abort() ends the whole process.
OutOfBlocks(t) ==
  /\ pc[t] = "new_eb"
  /\ tail + 1 >= MaxBlocks
  /\ tail' = tail + 1
  /\ aborted' = TRUE
  /\ UNCHANGED <<slotVars, blk, high, numEdges, stamps, ptr, etaHigh, etaBlocks, vtx,
                 callVars, pc, localVars>>

\* push_ebs: claim a place in the edge type array ...
Push(t) ==
  /\ pc[t] = "push"
  /\ saved' = [saved EXCEPT ![t] = etaHigh[Call(t).type]]
  /\ etaHigh' = [etaHigh EXCEPT ![Call(t).type] = @ + 1]
  /\ Goto(t, "push_store")
  /\ UNCHANGED <<slotVars, blockVars, ptr, etaBlocks, aborted, vtx, callVars,
                 cur, job, newWeight, newSmall>>

\* ... and store the block's index there.
PushStore(t) ==
  /\ pc[t] = "push_store"
  /\ etaBlocks' = [etaBlocks EXCEPT ![<<Call(t).type, saved[t]>>] = cur[t].b]
  /\ Goto(t, "link")
  /\ UNCHANGED <<slotVars, blockVars, ptr, etaHigh, aborted, vtx, callVars, localVars>>

\* writeef (curs.loc, newBlock)
Link(t) ==
  /\ pc[t] = "link"
  /\ ptr[cur[t].loc] = MARKER
  /\ ptr' = [ptr EXCEPT ![cur[t].loc] = cur[t].b]
  /\ Return(t, job[t].ret)
  /\ UNCHANGED <<slotVars, blockVars, etaHigh, etaBlocks, aborted, vtx, work, localVars>>

(***************************************************************************)
(* update_edge_data_and_direction, insertion.                              *)
(***************************************************************************)
\* Mutant: the IN side adds to the weight as well.
WeightOfBothSides(t, old) ==
  IF job[t].operation = "set" THEN Call(t).weight ELSE old + Call(t).weight

WeightFor(t, old) ==
  CASE Call(t).direction = DirIn -> old
    [] job[t].operation = "set" -> Call(t).weight
    [] OTHER -> old + Call(t).weight

LockWeight(t) ==
  LET old == weight[At(t)] IN
  /\ pc[t] = "update"
  /\ old # MARKER
  /\ weight' = [weight EXCEPT ![At(t)] = MARKER]
  /\ newWeight' = [newWeight EXCEPT ![t] = WeightFor(t, old)]
  /\ Goto(t, "neighbor")
  /\ UNCHANGED <<neighbor, timeFirst, timeRecent, blockVars, listVars, vtx, callVars,
                 cur, job, saved, newSmall>>

\* stinger_outdegree_increment_atomic or stinger_indegree_increment_atomic,
\* and stinger_degree_increment_atomic by n.
Count(t, n) ==
  LET v == blk[cur[t].b].vertexID
      out == IF Call(t).direction = DirOut THEN 1 ELSE 0 IN
  vtx' = [vtx EXCEPT ![v] = [outDegree |-> @.outDegree + out,
                             inDegree |-> @.inDegree + 1 - out,
                             degree |-> @.degree + n]]

\* What follows the neighbor word: only the OUT side carries timestamps.
AfterNeighbor(t) == IF Call(t).direction = DirOut THEN "stamp" ELSE "release"

IsNewEdge(t) == neighbor[At(t)].to < 0 \/ cur[t].k >= high[cur[t].b]

NeighborWord(t) == [to |-> Dest(t), dir |-> {Call(t).direction}]

SetNeighbor(t) ==
  /\ pc[t] = "neighbor"
  /\ IsNewEdge(t)
  /\ neighbor' = [neighbor EXCEPT ![At(t)] = NeighborWord(t)]
  /\ Goto(t, "register")
  /\ UNCHANGED <<weight, timeFirst, timeRecent, blockVars, listVars, vtx, callVars, localVars>>

\* The counters, then high: from here on the slot can be found.
Register(t) ==
  LET b == cur[t].b IN
  /\ pc[t] = "register"
  /\ numEdges' = [numEdges EXCEPT ![b] = @ + 1]
  /\ high' = [high EXCEPT ![b] = IF cur[t].k >= @ THEN cur[t].k + 1 ELSE @]
  /\ Count(t, 1)
  /\ Goto(t, "first_ts")
  /\ UNCHANGED <<slotVars, tail, blk, stamps, listVars, callVars, localVars>>

\* writexf (&e->timeFirst, ts): also releases the lock of LockSlot.
WriteTimeFirst(t) ==
  /\ pc[t] = "first_ts"
  /\ timeFirst' = [timeFirst EXCEPT ![At(t)] = Call(t).ts]
  /\ Goto(t, AfterNeighbor(t))
  /\ UNCHANGED <<neighbor, weight, timeRecent, blockVars, listVars, vtx, callVars, localVars>>

\* An existing slot: add the direction bit if it lacks it.  The weight lock
\* keeps every other writer of the neighbor word out, so the CAS succeeds.
AddDirection(t) ==
  LET d == Call(t).direction IN
  /\ pc[t] = "neighbor"
  /\ ~IsNewEdge(t)
  /\ IF d \in neighbor[At(t)].dir
     THEN /\ UNCHANGED <<neighbor, vtx>>
          /\ Goto(t, AfterNeighbor(t))
     ELSE /\ neighbor' = [neighbor EXCEPT ![At(t)].dir = @ \cup {d}]
          /\ Count(t, 0)
          /\ Goto(t, IF d = DirOut THEN "first_ts" ELSE "release")
  /\ UNCHANGED <<weight, timeFirst, timeRecent, blockVars, listVars, callVars, localVars>>

\* ts < readff(&eb->smallStamp) || ts > eb->largeStamp.  The two reads are one
\* step: both stamps only ever move outwards.
CheckStamps(t) ==
  LET s == stamps[cur[t].b] IN
  /\ pc[t] = "stamp"
  /\ s.small # MARKER
  /\ Goto(t, IF Call(t).ts < s.small \/ Call(t).ts > s.large THEN "stamp_lock" ELSE "release")
  /\ UNCHANGED <<slotVars, blockVars, listVars, vtx, callVars, localVars>>

LockStamps(t) ==
  LET small == stamps[cur[t].b].small IN
  /\ pc[t] = "stamp_lock"
  /\ small # MARKER
  /\ stamps' = [stamps EXCEPT ![cur[t].b].small = MARKER]
  /\ newSmall' = [newSmall EXCEPT ![t] = IF Call(t).ts < small THEN Call(t).ts ELSE small]
  /\ Goto(t, "stamp_write")
  /\ UNCHANGED <<slotVars, tail, blk, high, numEdges, listVars, vtx, callVars,
                 cur, job, saved, newWeight>>

WriteStamps(t) ==
  /\ pc[t] = "stamp_write"
  /\ stamps[cur[t].b].small = MARKER
  /\ stamps' = [stamps EXCEPT ![cur[t].b] =
                  [small |-> newSmall[t],
                   large |-> IF Call(t).ts > @.large THEN Call(t).ts ELSE @.large]]
  /\ Goto(t, "release")
  /\ UNCHANGED <<slotVars, tail, blk, high, numEdges, listVars, vtx, callVars, localVars>>

\* e->timeRecent = ts; writeef (&e->weight, weight); back to the caller.
ReleaseWeight(t) ==
  /\ pc[t] = "release"
  /\ weight[At(t)] = MARKER
  /\ weight' = [weight EXCEPT ![At(t)] = newWeight[t]]
  /\ timeRecent' = IF Call(t).direction = DirOut
                   THEN [timeRecent EXCEPT ![At(t)] = Call(t).ts] ELSE timeRecent
  /\ IF job[t].then = "return"
     THEN Return(t, job[t].ret)
     ELSE Goto(t, job[t].then) /\ UNCHANGED ret
  /\ UNCHANGED <<neighbor, timeFirst, blockVars, listVars, vtx, work, localVars>>

Step(t) ==
  \/ StartCall(t) \/ EtypeBegin(t)
  \/ Search(t) \/ SearchNext(t)
  \/ Relook(t) \/ TrySlot(t) \/ LockSlot(t) \/ Recheck(t)
  \/ PutBack(t) \/ SlotNext(t)
  \/ LockTail(t) \/ TailTaken(t) \/ NewEb(t) \/ OutOfBlocks(t)
  \/ Push(t) \/ PushStore(t) \/ Link(t)
  \/ LockWeight(t) \/ SetNeighbor(t) \/ Register(t) \/ WriteTimeFirst(t)
  \/ AddDirection(t) \/ CheckStamps(t) \/ LockStamps(t) \/ WriteStamps(t)
  \/ ReleaseWeight(t)

Finished(t) == pc[t] = "call" /\ ~HasCall(t)
Quiescent == \A t \in Threads : Finished(t)

\* The parallel region is over, or the process is gone.
Terminated ==
  /\ aborted \/ Quiescent
  /\ UNCHANGED vars

Next ==
  \/ ~aborted /\ \E t \in Threads : Step(t)
  \/ Terminated

Spec == Init /\ [][Next]_vars

-----------------------------------------------------------------------------

Labels == {"call", "etype_begin", "search", "relook", "slot", "lock_slot", "locked",
           "put_back", "put_back_return", "tail_taken", "new_eb", "push",
           "push_store", "link", "update", "neighbor", "register", "first_ts",
           "stamp", "stamp_lock", "stamp_write", "release"}

Cursors == [loc : Locations, b : {0} \cup Blocks,
            k : 0 .. EdgeBlockSize, endk : 0 .. EdgeBlockSize]
Jobs == [operation : {"set", "incr"}, ret : {0, 1},
         then : {"return", "put_back_return", "push"}]

\* The types of the store and of the threads' local variables.  A cursor loc
\* or b always names a location or a block that exists, and an index k never
\* runs past the block: k = EdgeBlockSize only while the thread leaves it.
TypeOK ==
  /\ tail \in Nat \ {0}
  /\ ~aborted => tail <= MaxBlocks
  /\ blk \in [Blocks -> [etype : ETypes, vertexID : Vertices]]
  /\ high \in [Blocks -> 0 .. EdgeBlockSize]
  /\ numEdges \in [Blocks -> Nat]
  /\ stamps \in [Blocks -> [small : Int, large : Int]]
  /\ neighbor \in [Slots -> [to : Vertices, dir : SUBSET {DirOut, DirIn}]]
  /\ weight \in [Slots -> Int]
  /\ timeFirst \in [Slots -> Int]
  /\ timeRecent \in [Slots -> Int]
  /\ ptr \in [Locations -> {MARKER, 0} \cup Blocks]
  /\ vtx \in [Vertices -> [outDegree : Int, inDegree : Int, degree : Int]]
  /\ etaHigh \in [ETypes -> Nat]
  /\ etaBlocks \in [ETypes \X Places -> {0} \cup Blocks]
  /\ aborted \in BOOLEAN
  /\ work \in [Threads -> Seq(Calls)]
  /\ ret \in [Threads -> Seq({0, 1})]
  /\ pc \in [Threads -> Labels]
  /\ cur \in [Threads -> Cursors]
  /\ job \in [Threads -> Jobs]
  /\ saved \in [Threads -> Int]
  /\ newWeight \in [Threads -> Int]
  /\ newSmall \in [Threads -> Int]

\* A slot that readers can find: below its block's high and not blank.
Published(b, k) == b < tail /\ k < high[b] /\ neighbor[<<b, k>>].to >= 0

\* stinger_update_directed_edge: however the threads interleave, a vertex never
\* gets two slots for the same neighbor and edge type.  Each of the threads that
\* race to insert one edge sees the other's slot, because all of them look for
\* an empty slot in the same order and look again under the slot's lock.
NoDuplicateEdge ==
  \A b, c \in Blocks : \A j, k \in Index :
    /\ Published(b, j)
    /\ Published(c, k)
    /\ blk[b].vertexID = blk[c].vertexID
    /\ blk[b].etype = blk[c].etype
    /\ neighbor[<<b, j>>].to = neighbor[<<c, k>>].to
    => b = c /\ j = k
=============================================================================
