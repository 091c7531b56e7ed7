------------------------------ MODULE EdgeRemove ------------------------------
(***************************************************************************)
(* Rounds of updates on the STINGER structure: a parallel loop of          *)
(* stinger_incr_edge calls, then a parallel loop of stinger_remove_edge    *)
(* calls (lib/stinger_core/src/stinger.c), one round after another.        *)
(*                                                                         *)
(* The order of the two loops is that of process_batch in the server       *)
(* (src/server/src/batch.cpp), and the second loop is its                  *)
(* process_deletions.  Its process_insertions makes the same updates       *)
(* grouped by vertex (stinger_batch_insert.h); here each is a call of its  *)
(* own.                                                                    *)
(*                                                                         *)
(* A removal holds the weight locks of two slots, the OUT side in the list *)
(* of the source ("forward") and the IN side in the list of the            *)
(* destination ("back"), and takes that of the lower vertex first.         *)
(***************************************************************************)
EXTENDS EdgeConsistency

CONSTANTS Batches   \* the possible sequences of batches

\* The insertions and deletions of a batch, per thread.  In a phased batch, and
\* all those of the server are, the deletions start after the insertions.
Phased(insertions, deletions) ==
  [insertions |-> insertions, deletions |-> deletions, phased |-> TRUE]
Unphased(insertions, deletions) == [Phased(insertions, deletions) EXCEPT !.phased = FALSE]

FirstInsertions == {s[1].insertions : s \in Batches}

Removal == [type : ETypes, from : Vertices, to : Vertices]

VARIABLES batches,  \* the batches still to be processed
          phased,   \* whether the current one is phased
          rwork,    \* per thread: the removals it makes, in order
          rret,     \* per thread: the values they returned so far
          rpc,      \* per thread: where it is
          rreg      \* per thread: its local variables

rvars == <<batches, phased, rwork, rret, rpc, rreg>>
allvars == <<vars, rvars>>

Other(side) == IF side = "forward" THEN "back" ELSE "forward"

RInit ==
  /\ Init
  /\ \E s \in Batches :
       /\ work = s[1].insertions
       /\ rwork = s[1].deletions
       /\ phased = s[1].phased
       /\ batches = Tail(s)
  /\ rret = [t \in Threads |-> << >>]
  /\ rpc = [t \in Threads |-> "call"]
  /\ rreg = [t \in Threads |-> [side |-> "forward", b |-> 0, k |-> 0, endk |-> 0,
                                held |-> << >>]]

RHasCall(t) == Len(rret[t]) < Len(rwork[t])
RCall(t) == rwork[t][Len(rret[t]) + 1]

\* The vertex whose list the side is in, the neighbor sought there and the
\* direction bit it must carry.
Owner(t, side) == IF side = "forward" THEN RCall(t).from ELSE RCall(t).to
Sought(t, side) == IF side = "forward" THEN RCall(t).to ELSE RCall(t).from
Bit(side) == IF side = "forward" THEN DirOut ELSE DirIn

RSlot(t) == <<rreg[t].b, rreg[t].k>>

\* Mutant: the direction bit of the slot is not looked at.
RMatchAnyDirection(t) == neighbor[RSlot(t)].to = Sought(t, rreg[t].side)

RMatch(t) ==
  /\ neighbor[RSlot(t)].to = Sought(t, rreg[t].side)
  /\ Bit(rreg[t].side) \in neighbor[RSlot(t)].dir

RGoto(t, label) == rpc' = [rpc EXCEPT ![t] = label]
RReturn(t, value) ==
  /\ rret' = [rret EXCEPT ![t] = Append(@, value)]
  /\ RGoto(t, "call")

\* lock_backedge_first
FirstSide(t) == IF RCall(t).from > RCall(t).to THEN "back" ELSE "forward"

\* Go to the block that location l points to.
RAtBlock(t, l) ==
  LET b == ptr[l] IN
  [rreg[t] EXCEPT !.b = b, !.k = 0, !.endk = IF b = 0 THEN 0 ELSE high[b]]

\* etype_begin on the list of a side: the blocks of other types it skips are
\* passed over by RNext.
RBegin(t, side) ==
  /\ ptr[Head0(Owner(t, side))] # MARKER
  /\ rreg' = [rreg EXCEPT ![t] = [RAtBlock(t, Head0(Owner(t, side))) EXCEPT !.side = side]]
  /\ RGoto(t, "search")

RStart(t) ==
  /\ rpc[t] = "call"
  /\ RHasCall(t)
  /\ phased => Quiescent
  /\ RBegin(t, FirstSide(t))
  /\ UNCHANGED <<vars, batches, phased, rwork, rret>>

ROfType(t) == blk[rreg[t].b].etype = RCall(t).type

RSearch(t) ==
  /\ rpc[t] = "search"
  /\ rreg[t].b # 0
  /\ ROfType(t)
  /\ rreg[t].k < rreg[t].endk
  /\ IF RMatch(t)
     THEN RGoto(t, "lock") /\ UNCHANGED rreg
     ELSE rreg' = [rreg EXCEPT ![t].k = @ + 1] /\ UNCHANGED rpc
  /\ UNCHANGED <<vars, batches, phased, rwork, rret>>

RNext(t) ==
  /\ rpc[t] = "search"
  /\ rreg[t].b # 0
  /\ ~ROfType(t) \/ rreg[t].k >= rreg[t].endk
  /\ ptr[rreg[t].b] # MARKER
  /\ rreg' = [rreg EXCEPT ![t] = RAtBlock(t, rreg[t].b)]
  /\ UNCHANGED <<vars, batches, phased, rwork, rret, rpc>>

\* readfe (&weight) of the slot found.
RLock(t) ==
  /\ rpc[t] = "lock"
  /\ weight[RSlot(t)] # MARKER
  /\ weight' = [weight EXCEPT ![RSlot(t)] = MARKER]
  /\ rreg' = [rreg EXCEPT ![t].held =
                Append(@, [side |-> rreg[t].side, slot |-> RSlot(t), weight |-> weight[RSlot(t)]])]
  /\ RGoto(t, "locked")
  /\ UNCHANGED <<neighbor, timeFirst, timeRecent, blockVars, listVars, vtx, callVars,
                 pc, localVars, batches, phased, rwork, rret>>

\* Under the lock the slot still is this edge: take the other side, or both
\* are held now.
RRecheck(t) ==
  /\ rpc[t] = "locked"
  /\ RMatch(t)
  /\ IF Len(rreg[t].held) = 1
     THEN RBegin(t, Other(rreg[t].side))
     ELSE RGoto(t, "clear") /\ rreg' = [rreg EXCEPT ![t].side = "forward"]
  /\ UNCHANGED <<vars, batches, phased, rwork, rret>>

\* Mutant: a remover that does not find the edge looks for it again.
RNotFoundRetries(t) ==
  /\ \/ rpc[t] = "locked" /\ ~RMatch(t) /\ RGoto(t, "give_up") /\ UNCHANGED rreg
     \/ rpc[t] = "search" /\ rreg[t].b = 0 /\ RBegin(t, rreg[t].side)
  /\ UNCHANGED <<vars, batches, phased, rwork, rret>>

\* Somebody else has removed it, or the other side is not there at all.
RNotFound(t) ==
  /\ \/ rpc[t] = "locked" /\ ~RMatch(t)
     \/ rpc[t] = "search" /\ rreg[t].b = 0
  /\ RGoto(t, "give_up")
  /\ UNCHANGED <<vars, batches, phased, rwork, rret, rreg>>

HeldAt(t) ==
  (CHOOSE h \in Range(rreg[t].held) : h.side = rreg[t].side).slot

\* update_edge_data_and_direction, deletion, on one side: clear the direction
\* bit ...
RClear(t) ==
  LET side == rreg[t].side
      s == HeldAt(t)
      v == blk[s[1]].vertexID IN
  /\ rpc[t] = "clear"
  /\ IF neighbor[s].to >= 0
     THEN /\ neighbor' = [neighbor EXCEPT ![s].dir = @ \ {Bit(side)}]
          /\ vtx' = [vtx EXCEPT ![v] = IF side = "forward"
                                       THEN [@ EXCEPT !.outDegree = @ - 1]
                                       ELSE [@ EXCEPT !.inDegree = @ - 1]]
     ELSE UNCHANGED <<neighbor, vtx>>
  /\ RGoto(t, "blank")
  /\ UNCHANGED <<weight, timeFirst, timeRecent, blockVars, listVars, callVars, pc, localVars,
                 batches, phased, rwork, rret, rreg>>

\* Mutant: numEdges keeps counting the edge.
Forget(b) == UNCHANGED numEdges

Uncount(b) == numEdges' = [numEdges EXCEPT ![b] = @ - 1]

\* ... and blank the slot when no direction is left.
RBlank(t) ==
  LET s == HeldAt(t)
      v == blk[s[1]].vertexID IN
  /\ rpc[t] = "blank"
  /\ IF neighbor[s].to >= 0 /\ neighbor[s].dir = {}
     THEN /\ neighbor' = [neighbor EXCEPT ![s].to = -1]
          /\ Uncount(s[1])
          /\ vtx' = [vtx EXCEPT ![v].degree = @ - 1]
     ELSE UNCHANGED <<neighbor, numEdges, vtx>>
  /\ IF rreg[t].side = "forward"
     THEN RGoto(t, "clear") /\ rreg' = [rreg EXCEPT ![t].side = "back"]
     ELSE RGoto(t, "done") /\ UNCHANGED rreg
  /\ UNCHANGED <<weight, timeFirst, timeRecent, tail, blk, high, stamps, listVars, callVars,
                 pc, localVars, batches, phased, rwork, rret>>

\* writeef of the weights held, the last one taken first; then return.
RUnlock(t) ==
  LET n == Len(rreg[t].held)
      h == rreg[t].held[n] IN
  /\ rpc[t] \in {"done", "give_up"}
  /\ n > 0
  /\ weight[h.slot] = MARKER
  /\ weight' = [weight EXCEPT ![h.slot] = h.weight]
  /\ rreg' = [rreg EXCEPT ![t].held = SubSeq(@, 1, n - 1)]
  /\ IF n = 1
     THEN RReturn(t, IF rpc[t] = "done" THEN 1 ELSE -1)
     ELSE UNCHANGED <<rret, rpc>>
  /\ UNCHANGED <<neighbor, timeFirst, timeRecent, blockVars, listVars, vtx, callVars, pc,
                 localVars, batches, phased, rwork>>

RGiveUp(t) ==
  /\ rpc[t] = "give_up"
  /\ rreg[t].held = << >>
  /\ RReturn(t, -1)
  /\ UNCHANGED <<vars, batches, phased, rwork, rreg>>

RemoveStep(t) ==
  \/ RStart(t) \/ RSearch(t) \/ RNext(t) \/ RLock(t) \/ RRecheck(t) \/ RNotFound(t)
  \/ RClear(t) \/ RBlank(t) \/ RUnlock(t) \/ RGiveUp(t)

InsertStep(t) == Step(t) /\ UNCHANGED rvars

BatchDone == Quiescent /\ \A t \in Threads : rpc[t] = "call" /\ ~RHasCall(t)

\* Both loops of process_batch are done and the next batch begins.
NextBatch ==
  /\ BatchDone
  /\ batches # << >>
  /\ work' = Head(batches).insertions
  /\ rwork' = Head(batches).deletions
  /\ phased' = Head(batches).phased
  /\ batches' = Tail(batches)
  /\ ret' = [t \in Threads |-> << >>]
  /\ rret' = [t \in Threads |-> << >>]
  /\ UNCHANGED <<slotVars, blockVars, listVars, vtx, pc, localVars, rpc, rreg>>

RTerminated ==
  /\ aborted \/ (BatchDone /\ batches = << >>)
  /\ UNCHANGED allvars

RNextState ==
  \/ ~aborted /\ \E t \in Threads : InsertStep(t) \/ RemoveStep(t)
  \/ ~aborted /\ NextBatch
  \/ RTerminated

RSpec == RInit /\ [][RNextState]_allvars

RFairSpec ==
  /\ RSpec
  /\ \A t \in Threads : WF_allvars(~aborted /\ (InsertStep(t) \/ RemoveStep(t)))
  /\ WF_allvars(~aborted /\ NextBatch)

-----------------------------------------------------------------------------

\* Two threads insert the same edge, or an edge and its reverse.
EndPoints(c) == {c.from, c.to}
SharedInsertion ==
  \E t, u \in Threads : t # u /\
    \E i \in DOMAIN work[t], j \in DOMAIN work[u] : EndPoints(work[t][i]) = EndPoints(work[u][j])

\* After the deletions of a batch stinger_consistency_check finds nothing: the
\* inserters and removers that raced for one slot, or for the two sides of one
\* edge, have changed every counter exactly once and left no half of an edge
\* behind.  Only the timestamps may be off, by the write-back of timeFirst, and
\* only if two threads inserted edges between the same vertices.
ConsistentAfterBatch ==
  phased /\ BatchDone => ConsistencyCheck \subseteq (IF SharedInsertion THEN StampBits ELSE {})

\* In phased batches a slot that was blanked is found again by every later search
\* for an empty one, so a vertex never gets a second slot for a neighbor.
NoDuplicateAfterReuse == phased => NoDuplicateEdge

\* The directed edges in the store.
EdgeSet ==
  {<<blk[s[1]].etype, blk[s[1]].vertexID, neighbor[s].to>> :
     s \in {x \in AllSlots : DirOut \in neighbor[x].dir}}

Inserted ==
  UNION {{<<work[t][i].type, work[t][i].from, work[t][i].to>> : i \in DOMAIN work[t]} : t \in Threads}

RemovalsOf(e) ==
  {<<t, i>> \in Threads \X (1 .. 4) :
     i <= Len(rwork[t]) /\ <<rwork[t][i].type, rwork[t][i].from, rwork[t][i].to>> = e}

\* stinger_remove_edge under races: of the calls that remove one edge exactly
\* one succeeds if the edge was there, and after the batch the edge is gone; an
\* edge of the batch that nobody removed is still there.
RemovalOutcome ==
  phased /\ BatchDone =>
    \A e \in ETypes \X Vertices \X Vertices :
      LET succeeded == {c \in RemovalsOf(e) : rret[c[1]][c[2]] = 1} IN
      /\ Cardinality(succeeded) <= 1
      /\ RemovalsOf(e) # {} => e \notin EdgeSet
      /\ e \in Inserted => (succeeded = {}) = (e \in EdgeSet)

\* The two locks of a removal are taken in the order of the vertices, so removers
\* never wait for each other in a circle, nor for an insertion that holds a
\* slot's timeFirst and waits for its weight: every batch is processed.
EveryBatchProcessed == <>[](aborted \/ (BatchDone /\ batches = << >>))
=============================================================================
