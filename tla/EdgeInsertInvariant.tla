------------------------- MODULE EdgeInsertInvariant -------------------------
(***************************************************************************)
(* The inductive invariant of concurrent insertion, which shows that a     *)
(* vertex never gets two slots for one edge.  EdgeInsertSteps has the      *)
(* proof that every step keeps the types and the facts about the other     *)
(* conjuncts, EdgeInsertProofs the steps.                                  *)
(*                                                                         *)
(* The argument rests on the order of the slots.  The blocks of one vertex *)
(* are linked in the order of their pool indices, because a block is       *)
(* allocated only under the lock of the list's last pointer; slots fill in *)
(* the order of their index.  A thread that has come to a slot therefore   *)
(* knows that every slot before it is full and holds another edge, and     *)
(* nothing ever empties a slot.                                            *)
(***************************************************************************)
EXTENDS EdgeInsert

Alloc == {b \in Blocks : b < tail}
Valid(l) == l <= 0 \/ l < tail
OwnerOf(l) == IF l <= 0 THEN -l ELSE blk[l].vertexID

\* Block c is one of those thread t must look through; and it has been.
Mine(t, c) == blk[c].vertexID = Src(t) /\ blk[c].etype = Call(t).type
FullWithout(t, c) ==
  high[c] = EdgeBlockSize /\ \A j \in Index : neighbor[<<c, j>>].to # Dest(t)

NoneUpTo(t, l) == \A c \in Alloc : c <= l /\ Mine(t, c) => FullWithout(t, c)
NoneBelow(t, b, k) ==
  /\ \A c \in Alloc : c < b /\ Mine(t, c) => FullWithout(t, c)
  /\ \A j \in Index : j < k => j < high[b] /\ neighbor[<<b, j>>].to # Dest(t)
NoneBefore(t) == NoneBelow(t, cur[t].b, cur[t].k)

UpdateLabels == {"update", "neighbor", "register", "first_ts", "stamp", "stamp_lock",
                 "stamp_write", "release"}

\* The thread has a new block that is not linked yet; it holds the lock of a
\* list's last pointer; and what that pointer will be when it unlocks it.
InFlight(t) ==
  \/ pc[t] \in {"push", "push_store", "link"}
  \/ pc[t] \in UpdateLabels /\ job[t].then = "push"
HoldsTail(t) == pc[t] \in {"tail_taken", "new_eb"} \/ InFlight(t)
Pending(t) == IF pc[t] \in {"tail_taken", "new_eb"} THEN saved[t] ELSE cur[t].b

\* The thread is about to put its edge into a slot not used before; and it
\* holds that slot's timeFirst.
Filling(t) ==
  pc[t] \in {"update", "neighbor", "register"} /\ cur[t].k >= high[cur[t].b]
HoldsSlot(t) ==
  \/ pc[t] = "locked" /\ cur[t].k >= high[cur[t].b]
  \/ Filling(t) /\ job[t].then # "push"

\* p is what follows location l in the list that l belongs to.
Follows(l, p) ==
  IF p = 0
  THEN \A c \in Alloc : blk[c].vertexID = OwnerOf(l) => c <= l
  ELSE /\ p \in Alloc
       /\ l < p
       /\ blk[p].vertexID = OwnerOf(l)
       /\ \A c \in Alloc : blk[c].vertexID = OwnerOf(l) => c <= l \/ p <= c

ListsOK == \A l \in Locations : Valid(l) /\ ptr[l] # MARKER => Follows(l, ptr[l])

\* All blocks of a vertex and type but the last are full.
FullPrefix ==
  \A b, c \in Alloc :
    b < c /\ blk[b].vertexID = blk[c].vertexID /\ blk[b].etype = blk[c].etype
    => high[b] = EdgeBlockSize

CursorOK(t) ==
  /\ HasCall(t)
  /\ Valid(cur[t].loc)
  /\ OwnerOf(cur[t].loc) = Src(t)
  /\ cur[t].b # 0 => cur[t].b \in Alloc /\ blk[cur[t].b].vertexID = Src(t)

\* What a thread knows at each place of stinger_update_directed_edge.
ScanOK(t) ==
  /\ pc[t] = "etype_begin" =>
       cur[t].b # 0 /\ ~OfType(t) /\ NoneBefore(t)
  /\ pc[t] \in {"search", "relook", "tail_taken", "new_eb"} => NoneUpTo(t, cur[t].loc)
  /\ pc[t] = "slot" => IF cur[t].b = 0 THEN NoneUpTo(t, cur[t].loc) ELSE NoneBefore(t)
  /\ pc[t] \in {"search", "slot", "put_back"} /\ cur[t].b # 0 => cur[t].endk <= high[cur[t].b]
  /\ pc[t] \in {"lock_slot", "locked", "put_back"} => NoneBefore(t)
  /\ pc[t] = "new_eb" => saved[t] = 0

SlotOK(t) ==
  /\ pc[t] \in {"lock_slot", "locked", "put_back", "put_back_return", "push",
                "push_store", "link"} \cup UpdateLabels =>
       cur[t].b # 0 /\ cur[t].k \in Index /\ OfType(t)
  /\ pc[t] = "put_back" => neighbor[At(t)].to # Dest(t)
  /\ Filling(t) => NoneBefore(t) /\ job[t].then # "put_back_return"
  /\ pc[t] = "register" =>
       cur[t].k >= high[cur[t].b] /\ neighbor[At(t)].to = Dest(t)
  /\ pc[t] \in {"put_back", "put_back_return", "push", "push_store", "link", "first_ts",
                "stamp", "stamp_lock", "stamp_write", "release"} =>
       cur[t].k < high[cur[t].b]

LocksOK(t) ==
  /\ HoldsTail(t) => ptr[cur[t].loc] = MARKER /\ Follows(cur[t].loc, Pending(t))
  /\ HoldsSlot(t) => timeFirst[At(t)] = MARKER

ThreadOK(t) == pc[t] # "call" => CursorOK(t) /\ ScanOK(t) /\ SlotOK(t) /\ LocksOK(t)

\* Two threads never hold one lock, nor meet in a block not linked yet.
Exclusive(t, u) ==
  /\ HoldsTail(t) /\ HoldsTail(u) => cur[t].loc # cur[u].loc
  /\ HoldsSlot(t) /\ HoldsSlot(u) => cur[t].b # cur[u].b \/ cur[t].k # cur[u].k
  /\ InFlight(t) /\ pc[u] # "call" => cur[t].b # cur[u].b

\* The inductive invariant.
InsertInvariant ==
  /\ TypeOK
  /\ NoDuplicateEdge
  /\ \A b \in Blocks : b >= tail => high[b] = 0
  /\ ~aborted =>
       /\ ListsOK
       /\ FullPrefix
       /\ \A t \in Threads : ThreadOK(t)
       /\ \A t, u \in Threads : t # u => Exclusive(t, u)
=============================================================================
