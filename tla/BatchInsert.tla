----------------------------- MODULE BatchInsert -----------------------------
(***************************************************************************)
(* The batch API: BatchInserter of lib/stinger_core/inc/                   *)
(* stinger_batch_insert.h, which makes many updates in passes.  A pass     *)
(* makes one direction of the updates of one half of the batch; it sorts   *)
(* them by the vertex in whose list they are made and gives the threads    *)
(* ranges of updates for one vertex.                                       *)
(*                                                                         *)
(* update_directed_edges_for_vertex walks the list once for all updates of *)
(* its range.  Its accesses to the store are those of the module           *)
(* EdgeInsert, whose actions are used for them with the update in hand as  *)
(* the thread's call; the actions here are those in which the updates of   *)
(* the range come in.                                                      *)
(***************************************************************************)
EXTENDS EdgeRemove, SequencesExt

\* The result codes.
PENDING == 0
EDGE_ADDED == 11
EDGE_UPDATED == 10
EDGE_NOT_ADDED == 9
ResultCodeOffset == 10
OwnCodes == {EDGE_ADDED, EDGE_UPDATED, EDGE_NOT_ADDED}

VARIABLES upd,     \* the updates: type, from, to, weight and ts
          result,  \* per update: its result code
          passes,  \* the passes still to be made, the current one first
          ranges,  \* the ranges of the current pass that no thread has taken
          mine,    \* per thread: the range it has taken, a sequence of updates
          u        \* per thread: the place in mine of the update in hand

bvars == <<upd, result, passes, ranges, mine, u>>

BInit ==
  /\ upd = << >>
  /\ result = << >>
  /\ passes = << >>
  /\ ranges = {}
  /\ mine = [t \in Threads |-> << >>]
  /\ u = [t \in Threads |-> 0]

-----------------------------------------------------------------------------
(* batch_update_dispatch and do_batch_update *)

\* Mutant: the second half gets no IN pass.
PassesWithoutIn(undirected) ==
  <<[half |-> 1, direction |-> DirOut, swap |-> FALSE],
    [half |-> 1, direction |-> DirIn, swap |-> FALSE],
    [half |-> 2, direction |-> DirOut, swap |-> FALSE]>>

\* The first half are the updates with source < destination.  An undirected batch
\* makes the passes again with the two exchanged.
Passes(undirected) ==
  LET Pass(h, d, s) == [half |-> h, direction |-> d, swap |-> s]
      Four(s) == <<Pass(1, DirOut, s), Pass(1, DirIn, s), Pass(2, DirIn, s), Pass(2, DirOut, s)>>
  IN Four(FALSE) \o IF undirected THEN Four(TRUE) ELSE << >>

Half(h) == {i \in DOMAIN upd : (upd[i].from < upd[i].to) = (h = 1)}

\* Mutant: the passes of an undirected batch are all in one direction.
SideUnswapped(p, i) ==
  LET x == upd[i] IN
  [type |-> x.type, from |-> x.from, to |-> x.to, weight |-> x.weight, ts |-> x.ts,
   direction |-> p.direction, operation |-> "incr"]

\* Update i as pass p makes it, the vertex of the list and the neighbor.
SideIn(p, i) ==
  LET x == upd[i] IN
  [type |-> x.type, from |-> IF p.swap THEN x.to ELSE x.from,
   to |-> IF p.swap THEN x.from ELSE x.to, weight |-> x.weight, ts |-> x.ts,
   direction |-> p.direction, operation |-> "incr"]
VertexIn(p, i) == LET c == SideIn(p, i) IN IF c.direction = DirOut THEN c.from ELSE c.to
NeighborIn(p, i) == LET c == SideIn(p, i) IN IF c.direction = DirOut THEN c.to ELSE c.from

\* source_funcs::sort and dest_funcs::sort: type, vertex, neighbor, time.
SortsBefore(p, i, j) ==
  LET key(x) == <<upd[x].type, VertexIn(p, x), NeighborIn(p, x), upd[x].ts>> IN
  \E n \in 1 .. 4 : /\ key(i)[n] < key(j)[n]
                    /\ \A m \in 1 .. n - 1 : key(i)[m] = key(j)[m]

\* std::sort leaves equal updates in any order.
Orders(p) ==
  {s \in SetToSeqs(Half(p.half)) :
     \A m, n \in DOMAIN s : m < n => ~SortsBefore(p, s[n], s[m])}

SameSourceAndType(p, i, j) ==
  upd[i].type = upd[j].type /\ VertexIn(p, i) = VertexIn(p, j)

\* A long range is split evenly among the threads, whatever its updates are.
Pieces(r) ==
  LET threads == Cardinality(Threads)
      per == Len(r) \div threads
  IN IF per < threads THEN {r}
     ELSE {SubSeq(r, (n - 1) * per + 1, IF n = threads THEN Len(r) ELSE n * per) :
             n \in 1 .. threads}

RangesOf(p, s) ==
  UNION {Pieces(SelectSeq(s, LAMBDA j : SameSourceAndType(p, i, j))) : i \in Range(s)}

\* clear_results: the caller's codes stay.
ClearResults(updates) ==
  [i \in DOMAIN result |->
     IF i \in updates /\ result[i] \in OwnCodes THEN PENDING ELSE result[i]]

\* What is cleared before pass p: nothing before the first pass on the second
\* half, everything before the exchanged passes, else the half of p.
ClearedBefore(p) ==
  IF p.half = 2 /\ p.direction = DirIn THEN {}
  ELSE IF p.half = 1 /\ p.direction = DirOut THEN DOMAIN upd
  ELSE Half(p.half)

RemapResults ==
  [i \in DOMAIN result |->
     IF result[i] \in OwnCodes THEN result[i] - ResultCodeOffset ELSE result[i]]

Idle(t) == pc[t] = "call" /\ mine[t] = << >>
PassDone == ranges = {} /\ \A t \in Threads : Idle(t)

\* do_batch_update up to its parallel loop, for pass p.
BeginPass(p) == \E s \in Orders(p) : ranges' = RangesOf(p, s)

\* On to the next pass.
NextPass ==
  /\ PassDone
  /\ Len(passes) > 1
  /\ passes' = Tail(passes)
  /\ LET p == passes[2] IN
     /\ BeginPass(p)
     /\ result' = ClearResults(ClearedBefore(p))
  /\ UNCHANGED <<upd, mine, u, vars>>

\* schedule(dynamic): an idle thread takes a range.  Idle threads are alike, so it
\* does not matter which of them it is.
TakeRange ==
  \E r \in ranges :
    LET t == CHOOSE s \in Threads : Idle(s) IN
    /\ \E s \in Threads : Idle(s)
    /\ ranges' = ranges \ {r}
    /\ mine' = [mine EXCEPT ![t] = r]
    /\ work' = [work EXCEPT ![t] = <<SideIn(passes[1], r[1])>>]
    /\ UNCHANGED <<upd, result, passes, u, ret, slotVars, blockVars, listVars, vtx, pc, localVars>>

-----------------------------------------------------------------------------
(* find_updates, next_update_tracker and do_edge_updates *)

NeighborOf(t, i) == NeighborIn(passes[1], mine[t][i])

Pending(t) == {i \in DOMAIN mine[t] : result[mine[t][i]] = PENDING}
NextUpdate(t) == Min(Pending(t))

\* The place of the first update for neighbor n, if that one is pending; 0 if
\* there is none.
FindUpdates(t, n) ==
  LET found == {i \in DOMAIN mine[t] : i >= NextUpdate(t) /\ NeighborOf(t, i) = n} IN
  IF Pending(t) = {} \/ found = {} THEN 0
  ELSE IF result[mine[t][Min(found)]] = PENDING THEN Min(found) ELSE 0

\* Update i of the range is now in hand.
TakeInHand(t, i, code) ==
  /\ result' = [result EXCEPT ![mine[t][i]] = code]
  /\ u' = [u EXCEPT ![t] = i]
  /\ work' = [work EXCEPT ![t] = <<SideIn(passes[1], mine[t][i])>>]

Perform(t, i, code, operation, then) ==
  /\ TakeInHand(t, i, code)
  /\ SetJob(t, operation, code, then)
  /\ Goto(t, "update")

\* The next update of the range is for the same neighbor.
More(t) ==
  /\ u[t] # 0
  /\ u[t] < Len(mine[t])
  /\ NeighborOf(t, u[t] + 1) = NeighborOf(t, u[t])

DoMore(t) ==
  /\ pc[t] \in {"searched", "slot_done", "put_back", "push"}
  /\ More(t)
  /\ Perform(t, u[t] + 1, EDGE_UPDATED, "incr", pc[t])
  /\ UNCHANGED <<cur, saved>>

\* Mutant: an in-edge counts as the edge.
ResultForSlot(t) == EDGE_UPDATED

\* "If we already have an in-edge for this destination, we will reuse the edge
\* slot.  But the return code should reflect that we added an edge".
ResultFor(t) ==
  IF Call(t).direction \in neighbor[At(t)].dir THEN EDGE_UPDATED ELSE EDGE_ADDED

-----------------------------------------------------------------------------
(* update_directed_edges_for_vertex *)

BSearch(t) ==
  LET i == FindUpdates(t, neighbor[At(t)].to) IN
  /\ pc[t] = "search"
  /\ cur[t].b # 0
  /\ OfType(t)
  /\ cur[t].k < cur[t].endk
  /\ \/ i # 0 /\ Perform(t, i, ResultFor(t), "incr", "searched") /\ UNCHANGED cur
     \/ i = 0 /\ NextSlot(t) /\ UNCHANGED <<job, pc, work, result, u>>
  /\ UNCHANGED saved

BSearched(t) ==
  /\ pc[t] = "searched"
  /\ ~More(t)
  /\ NextSlot(t)
  /\ Goto(t, "search")
  /\ UNCHANGED <<job, saved, work, result, u>>

BTrySlot(t) ==
  LET to == neighbor[At(t)].to
      below == cur[t].k < cur[t].endk
      i == IF below THEN FindUpdates(t, to) ELSE 0 IN
  /\ pc[t] = "slot"
  /\ cur[t].b # 0
  /\ OfType(t)
  /\ cur[t].k < EdgeBlockSize
  /\ \/ i # 0 /\ Perform(t, i, ResultFor(t), "incr", "slot_done") /\ UNCHANGED cur
     \/ /\ to < 0 \/ ~below
        /\ Goto(t, "lock_slot")
        /\ UNCHANGED <<cur, job, work, result, u>>
     \/ /\ i = 0 /\ to >= 0 /\ below
        /\ NextSlot(t)
        /\ UNCHANGED <<job, pc, work, result, u>>
  /\ UNCHANGED saved

BRecheck(t) ==
  LET to == neighbor[At(t)].to
      empty == to < 0 \/ cur[t].k >= EndUnderLock(t)
      i == FindUpdates(t, to) IN
  /\ pc[t] = "locked"
  /\ cur' = [cur EXCEPT ![t].endk = EndUnderLock(t)]
  /\ \/ empty /\ Perform(t, NextUpdate(t), EDGE_ADDED, "set", "slot_done")
     \/ ~empty /\ i # 0 /\ Perform(t, i, ResultFor(t), "incr", "put_back")
     \/ ~empty /\ i = 0 /\ Goto(t, "put_back") /\ UNCHANGED <<job, work, result, u>>
  /\ UNCHANGED saved

\* After a slot: return if every update is made.
BSlotDone(t) ==
  /\ pc[t] = "slot_done"
  /\ ~More(t)
  /\ Pending(t) # {}
  /\ NextSlot(t)
  /\ Goto(t, "slot")
  /\ UNCHANGED <<job, saved, work, result, u>>

\* The steps above leave the store alone; these do not.
BPutBack(t) ==
  /\ pc[t] = "put_back"
  /\ ~More(t)
  /\ timeFirst' = [timeFirst EXCEPT ![At(t)] = saved[t]]
  /\ Goto(t, "slot_done")
  /\ UNCHANGED <<neighbor, weight, timeRecent, blockVars, listVars, vtx, callVars, localVars,
                 result, u>>

\* The new block is for the next update.
BLockTail(t) ==
  LET next == ptr[cur[t].loc] IN
  /\ pc[t] = "slot"
  /\ cur[t].b = 0
  /\ next # MARKER
  /\ ptr' = [ptr EXCEPT ![cur[t].loc] = MARKER]
  /\ saved' = [saved EXCEPT ![t] = next]
  /\ Goto(t, AfterTailLock(next))
  /\ IF next = 0 THEN TakeInHand(t, NextUpdate(t), EDGE_ADDED) ELSE UNCHANGED <<work, result, u>>
  /\ UNCHANGED <<slotVars, blockVars, etaHigh, etaBlocks, aborted, vtx, ret,
                 cur, job, newWeight, newSmall>>

BLink(t) ==
  /\ pc[t] = "link"
  /\ ptr[cur[t].loc] = MARKER
  /\ ptr' = [ptr EXCEPT ![cur[t].loc] = cur[t].b]
  /\ Goto(t, "relook")
  /\ UNCHANGED <<slotVars, blockVars, etaHigh, etaBlocks, aborted, vtx, callVars, localVars,
                 result, u>>

\* Mutant: the thread leaves after one walk of the list.
AllMadeAlways(t) == TRUE
AllMade(t) == Pending(t) = {}

\* The range is done, and the thread's local variables are gone.
BReturn(t) ==
  /\ \/ pc[t] = "search" /\ cur[t].b = 0
     \/ pc[t] = "relook"
     \/ pc[t] = "slot_done" /\ ~More(t)
  /\ AllMade(t)
  /\ work' = [work EXCEPT ![t] = << >>]
  /\ mine' = [mine EXCEPT ![t] = << >>]
  /\ u' = [u EXCEPT ![t] = 0]
  /\ cur' = [cur EXCEPT ![t] = [loc |-> 0, b |-> 0, k |-> 0, endk |-> 0]]
  /\ SetJob(t, "set", 0, "return")
  /\ saved' = [saved EXCEPT ![t] = 0]
  /\ newWeight' = [newWeight EXCEPT ![t] = 0]
  /\ newSmall' = [newSmall EXCEPT ![t] = 0]
  /\ Goto(t, "call")
  /\ UNCHANGED <<result, ret, slotVars, blockVars, listVars, vtx>>

\* The steps in which updates come in but the store does not change.
WithUpdates(t) ==
  /\ DoMore(t) \/ BSearch(t) \/ BSearched(t) \/ BTrySlot(t) \/ BRecheck(t) \/ BSlotDone(t)
  /\ UNCHANGED <<slotVars, blockVars, listVars, vtx, ret, newWeight, newSmall>>

\* The steps that are those of a single update.
AsSingle(t) ==
  /\ mine[t] # << >>
  /\ \/ StartCall(t) \/ EtypeBegin(t) \/ SearchNext(t) \/ SlotNext(t) \/ LockSlot(t)
     \/ Pending(t) # {} /\ Relook(t)
     \/ TailTaken(t) \/ NewEb(t) \/ OutOfBlocks(t) \/ PushStore(t)
     \/ ~More(t) /\ Push(t)
     \/ LockWeight(t) \/ SetNeighbor(t) \/ Register(t) \/ WriteTimeFirst(t) \/ AddDirection(t)
     \/ CheckStamps(t) \/ LockStamps(t) \/ WriteStamps(t) \/ ReleaseWeight(t)
  /\ UNCHANGED <<result, u>>

UpdateVertexStep(t) ==
  \/ /\ WithUpdates(t) \/ BPutBack(t) \/ BLockTail(t) \/ BLink(t) \/ AsSingle(t)
     /\ UNCHANGED <<upd, passes, ranges, mine>>
  \/ BReturn(t) /\ UNCHANGED <<upd, passes, ranges>>
=============================================================================
