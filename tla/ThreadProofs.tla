----------------------------- MODULE ThreadProofs ----------------------------
(***************************************************************************)
(* The proofs about the threads that share memory inside one process.      *)
(*                                                                         *)
(* In the server, for every number of connections and everything their     *)
(* clients may send: how far the queue of batches can exceed               *)
(* STINGER_MAX_BATCHES, that no batch is lost or overtaken, and that the   *)
(* ones whose connection stays are not deleted before the process loop is  *)
(* done with them (BatchQueue).                                            *)
(*                                                                         *)
(* In a monitor, for every finite set of threads, every number of updates  *)
(* and requests: the wake-ups of wait_for_sync and sync match, and readers *)
(* use live data (StingerMon).                                             *)
(***************************************************************************)
EXTENDS BatchQueue, StingerMon, FiniteSetTheorems, TLAPS

-----------------------------------------------------------------------------
(***************************************************************************)
(* The queue of batches.                                                   *)
(***************************************************************************)

\* The connections between the test of the bound and enqueue_batch.
Passed == {c \in Conns : cpc[c] = "enqueue"}

\* The room that a connection found when it tested the bound is its own until it
\* enqueues: they are counted with the queue.
RoomInv == Len(queue) + Cardinality(Passed) <= MaxBatches - 1 + Cardinality(Conns)

\* A connection that is still read has failed at most twice in a row.
FailInv == \A c \in Conns : cpc[c] # "closed" => nfail[c] <= 2

QueueInv == QTypeOK /\ FailInv /\ RoomInv

-----------------------------------------------------------------------------
\* The number of connections past the test is at most the number of connections.
LEMMA PassedFinite ==
  /\ IsFiniteSet(Passed)
  /\ Cardinality(Passed) \in Nat
  /\ Cardinality(Conns) \in Nat
  /\ Cardinality(Passed) <= Cardinality(Conns)
<1>1. Passed \subseteq Conns
  BY Zenon DEF Passed
<1> QED
  BY <1>1, QueueAssumption, FS_Subset, FS_CardinalityType, Zenon

\* The server starts with an empty queue.
LEMMA QueueInvInit == QInit => QueueInv
<1> SUFFICES ASSUME QInit PROVE QueueInv
  BY Zenon
<1>1. QTypeOK
  BY QueueAssumption DEF QInit, QTypeOK
<1>2. FailInv
  BY DEF QInit, FailInv
<1>3. Passed = {}
  BY Zenon DEF QInit, Passed
<1>4. RoomInv
  BY <1>3, FS_EmptySet, PassedFinite, QueueAssumption DEF QInit, RoomInv
<1> QED
  BY <1>1, <1>2, <1>4, Zenon DEF QueueInv

\* Every step keeps the variables in their types, and counts failures.
LEMMA QTypeStep == QueueInv /\ [QNext]_qvars => QTypeOK' /\ FailInv'
<1> SUFFICES ASSUME QueueInv, [QNext]_qvars PROVE QTypeOK' /\ FailInv'
  BY Zenon
<1> USE DEF QueueInv
<1>1. ASSUME NEW c \in Conns, Receive(c) PROVE QTypeOK' /\ FailInv'
  <2>1. PICK l \in {"bound", "recv", "closed"} : cpc' = [cpc EXCEPT ![c] = l]
    BY <1>1, Zenon DEF Receive, CGoto
  <2>2. /\ cpc[c] = "recv"
        /\ reads' = [reads EXCEPT ![c] = @ + 1]
        /\ nfail' = [nfail EXCEPT ![c] = 0]
        /\ UNCHANGED <<stream, queue, taken, lpc>>
    BY <1>1, Zenon DEF Receive, loopVars
  <2> QED
    BY <2>1, <2>2 DEF QTypeOK, FailInv
<1>2. ASSUME NEW c \in Conns, ReceiveFails(c) PROVE QTypeOK' /\ FailInv'
  <2>1. /\ cpc[c] = "recv"
        /\ reads' = [reads EXCEPT ![c] = @ + 1]
        /\ nfail' = [nfail EXCEPT ![c] = @ + 1]
        /\ UNCHANGED <<stream, queue, taken, lpc>>
    BY <1>2, Zenon DEF ReceiveFails, loopVars
  <2>2. nfail[c] \in 0 .. 3 /\ nfail[c] <= 2
    BY <2>1, Zenon DEF QTypeOK, FailInv
  <2>3. nfail[c] + 1 \in 0 .. 3
    BY <2>2
  <2>4. nfail' \in [Conns -> 0 .. 3] /\ reads' \in [Conns -> Nat]
    BY <2>1, <2>3, SMTT(30) DEF QTypeOK
  <2>5. CASE nfail[c] + 1 > 2
    <3>1. cpc' = [cpc EXCEPT ![c] = "closed"]
      BY <1>2, <2>5, Zenon DEF ReceiveFails, CGoto
    <3>2. FailInv'
      BY <2>1, <3>1, Zenon DEF QTypeOK, FailInv
    <3> QED
      BY <2>1, <2>4, <3>1, <3>2, Zenon DEF QTypeOK
  <2>6. CASE ~(nfail[c] + 1 > 2)
    <3>1. cpc' = cpc
      BY <1>2, <2>6, Zenon DEF ReceiveFails
    <3>2. FailInv'
      BY <2>1, <2>3, <2>6, <3>1 DEF QTypeOK, FailInv
    <3> QED
      BY <2>1, <2>4, <3>1, <3>2, Zenon DEF QTypeOK
  <2> QED
    BY <2>5, <2>6, Zenon
<1>3. ASSUME NEW c \in Conns, TestBound(c) PROVE QTypeOK' /\ FailInv'
  BY <1>3, Zenon DEF TestBound, CGoto, Delete, loopVars, QTypeOK, FailInv
<1>4. ASSUME NEW c \in Conns, EnqueueBatch(c) PROVE QTypeOK' /\ FailInv'
  BY <1>4 DEF EnqueueBatch, Push, Batch, CGoto, loopVars, QTypeOK, FailInv
<1>5. ASSUME NEW c \in Conns, KeepAlive(c) PROVE QTypeOK' /\ FailInv'
  BY <1>5, Zenon DEF KeepAlive, CGoto, Delete, loopVars, QTypeOK, FailInv
<1>6. CASE DequeueBatch
  BY <1>6 DEF DequeueBatch, connVars, QTypeOK, FailInv
<1>7. CASE Process
  BY <1>7, Zenon DEF Process, connVars, QTypeOK, FailInv
<1>8. CASE DeleteBatch
  BY <1>8, Zenon DEF DeleteBatch, connVars, QTypeOK, FailInv
<1>9. CASE QDone \/ UNCHANGED qvars
  BY <1>9, Zenon DEF QDone, qvars, connVars, loopVars, QTypeOK, FailInv
<1> QED
  BY <1>1, <1>2, <1>3, <1>4, <1>5, <1>6, <1>7, <1>8, <1>9, Zenon DEF QNext, HandleStream, Loop

\* Every step keeps the room of the connections that have tested the bound.
LEMMA RoomStep == QueueInv /\ [QNext]_qvars => RoomInv'
<1> SUFFICES ASSUME QueueInv, [QNext]_qvars PROVE RoomInv'
  BY Zenon
<1> USE PassedFinite DEF QueueInv
<1>0. ASSUME Passed' = Passed, Len(queue') \in Nat, Len(queue') <= Len(queue)
      PROVE  RoomInv'
  BY <1>0, QueueAssumption DEF RoomInv, QTypeOK
<1>1. ASSUME NEW c \in Conns, Receive(c) PROVE RoomInv'
  <2>1. Passed' = Passed /\ queue' = queue
    BY <1>1, Zenon DEF Receive, CGoto, Passed, QTypeOK
  <2> QED
    BY <1>0, <2>1 DEF QTypeOK
<1>2. ASSUME NEW c \in Conns, ReceiveFails(c) PROVE RoomInv'
  <2>1. Passed' = Passed /\ queue' = queue
    BY <1>2, Zenon DEF ReceiveFails, CGoto, Passed, QTypeOK
  <2> QED
    BY <1>0, <2>1 DEF QTypeOK
<1>3. ASSUME NEW c \in Conns, TestBound(c) PROVE RoomInv'
  <2>1. queue' = queue
    BY <1>3, Zenon DEF TestBound
  <2>2. CASE QueueFull
    <3>1. Passed' = Passed
      BY <1>3, <2>2, Zenon DEF TestBound, CGoto, Passed, QTypeOK
    <3> QED
      BY <1>0, <2>1, <3>1 DEF QTypeOK
  <2>3. CASE ~QueueFull
    <3>1. Passed' \subseteq Conns
      BY Zenon DEF Passed
    <3>2. Cardinality(Passed') \in Nat /\ Cardinality(Passed') <= Cardinality(Conns)
      BY <3>1, QueueAssumption, FS_Subset, FS_CardinalityType, Zenon
    <3>3. Len(queue) \in Nat /\ Len(queue) <= MaxBatches - 1
      BY <2>3, QueueAssumption DEF QueueFull, QTypeOK
    <3> QED
      BY <2>1, <3>2, <3>3, QueueAssumption DEF RoomInv
  <2> QED
    BY <2>2, <2>3, Zenon
<1>4. ASSUME NEW c \in Conns, EnqueueBatch(c) PROVE RoomInv'
  <2>1. Passed' = Passed \ {c} /\ c \in Passed
    BY <1>4, Zenon DEF EnqueueBatch, CGoto, Passed, QTypeOK
  <2>2. Cardinality(Passed') = Cardinality(Passed) - 1
    BY <2>1, FS_RemoveElement, Zenon
  <2>3. Len(queue') = Len(queue) + 1 /\ Len(queue) \in Nat
    BY <1>4 DEF EnqueueBatch, Push, Batch, QTypeOK
  <2> QED
    BY <2>2, <2>3, QueueAssumption DEF RoomInv
<1>5. ASSUME NEW c \in Conns, KeepAlive(c) PROVE RoomInv'
  <2>1. Passed' = Passed /\ queue' = queue
    BY <1>5, Zenon DEF KeepAlive, CGoto, Passed, QTypeOK
  <2> QED
    BY <1>0, <2>1 DEF QTypeOK
<1>6. CASE DequeueBatch
  <2>1. Passed' = Passed
    BY <1>6, Zenon DEF DequeueBatch, connVars, Passed
  <2>2. Len(queue') = Len(queue) - 1 /\ Len(queue') \in Nat
    BY <1>6 DEF DequeueBatch, QTypeOK
  <2> QED
    BY <1>0, <2>1, <2>2 DEF QTypeOK
<1>7. CASE Process \/ DeleteBatch \/ QDone \/ UNCHANGED qvars
  <2>1. Passed' = Passed /\ queue' = queue
    BY <1>7, Zenon DEF Process, DeleteBatch, QDone, qvars, connVars, Passed
  <2> QED
    BY <1>0, <2>1 DEF QTypeOK
<1> QED
  BY <1>1, <1>2, <1>3, <1>4, <1>5, <1>6, <1>7, Zenon DEF QNext, HandleStream, Loop

-----------------------------------------------------------------------------
\* The inductive invariant of the queue.
THEOREM QueueInvariant == QSpec => []QueueInv
<1>1. QueueInv /\ [QNext]_qvars => QueueInv'
  BY QTypeStep, RoomStep, Zenon DEF QueueInv
<1> QED
  BY <1>1, QueueInvInit, PTL DEF QSpec

\* handle_stream tests STINGER_MAX_BATCHES without the lock (batch_server.cpp):
\* for any number of connections and any bound, the queue exceeds it by less than
\* the number of connections.
THEOREM QueueAlwaysBounded == QSpec => []QueueBound
<1>1. QueueInv => QueueBound
  <2> SUFFICES ASSUME QueueInv PROVE QueueBound
    BY Zenon
  <2> QED
    BY PassedFinite, QueueAssumption DEF QueueInv, RoomInv, QueueBound, QTypeOK
<1> QED
  BY <1>1, QueueInvariant, PTL

-----------------------------------------------------------------------------
(***************************************************************************)
(* What happens to the batches.                                            *)
(***************************************************************************)

\* Connections that hold a batch they have not yet decided about.
Pending(c) == cpc[c] \in {"bound", "enqueue"}

\* The property itself, and what a connection holds is its last message.
OrderInv ==
  /\ NothingLostInOrder
  /\ dropped \subseteq Conns \X Nat
  /\ \A c \in Conns : Pending(c) => reads[c] > 0 /\ Message(c, reads[c]).kind = "data"

\* The places of Enqueued that the queue and the loop are not done with.
Owned(i) == i > Len(taken) \/ (lpc # "dequeue" /\ i = Len(taken))

\* Only messages that have been read are deleted, none of them pending; and the
\* batches that are owned, if their connection stays, are not deleted.
FreedInv ==
  /\ freed \subseteq Conns \X Nat
  /\ \A id \in freed : id[2] <= reads[id[1]]
  /\ \A c \in Conns : Pending(c) => Batch(c) \notin freed
  /\ \A i \in DOMAIN Enqueued :
       Owned(i) /\ Message(Enqueued[i][1], Enqueued[i][2]).keep => Enqueued[i] \notin freed

\* The places of Enqueued.
LEMMA EnqueuedSeq ==
  ASSUME QTypeOK
  PROVE  /\ Enqueued \in Seq(Conns \X Nat)
         /\ Len(Enqueued) = Len(taken) + Len(queue)
         /\ Len(taken) \in Nat /\ Len(queue) \in Nat
         /\ DOMAIN Enqueued = 1 .. Len(taken) + Len(queue)
         /\ \A i \in DOMAIN Enqueued : /\ Enqueued[i] \in Conns \X Nat
                                       /\ i <= Len(taken) => Enqueued[i] = taken[i]
                                       /\ i > Len(taken) => Enqueued[i] = queue[i - Len(taken)]
<1>1. taken \in Seq(Conns \X Nat) /\ queue \in Seq(Conns \X Nat)
  BY Zenon DEF QTypeOK
<1>2. Enqueued \in Seq(Conns \X Nat) /\ Len(Enqueued) = Len(taken) + Len(queue)
  BY <1>1 DEF Enqueued
<1> QED
  BY <1>1, <1>2 DEF Enqueued

\* enqueue_batch appends to what has gone through the queue.
LEMMA EnqueuedGrows ==
  ASSUME QTypeOK, NEW id \in Conns \X Nat, queue' = Append(queue, id), taken' = taken
  PROVE  Enqueued' = Append(Enqueued, id)
<1>1. taken \in Seq(Conns \X Nat) /\ queue \in Seq(Conns \X Nat)
  BY Zenon DEF QTypeOK
<1>2. taken \o Append(queue, id) = Append(taken \o queue, id)
  BY <1>1
<1> QED
  BY <1>2, Zenon DEF Enqueued

\* dequeue_batch takes the oldest batch and changes nothing in the order.
LEMMA EnqueuedMoves ==
  ASSUME QTypeOK, queue # << >>, queue' = Tail(queue), taken' = Append(taken, Head(queue))
  PROVE  Enqueued' = Enqueued
<1>1. taken \in Seq(Conns \X Nat) /\ queue \in Seq(Conns \X Nat)
  BY Zenon DEF QTypeOK
<1>2. Append(taken, Head(queue)) \o Tail(queue) = taken \o queue
  BY <1>1, SMTT(20)
<1> QED
  BY <1>2, Zenon DEF Enqueued

\* A connection whose counters stay, or that reads a message which it holds or
\* which carries no data, has decided about the same messages as before.
LEMMA DecidedSame ==
  ASSUME QTypeOK, stream' = stream, NEW c \in Conns,
         \/ reads'[c] = reads[c] /\ Pending(c)' = Pending(c)
         \/ /\ reads'[c] = reads[c] + 1 /\ ~Pending(c)
            /\ Pending(c)' \/ Message(c, reads[c] + 1).kind # "data"
  PROVE  Decided(c)' = Decided(c)
<1>1. reads[c] \in Nat
  BY Zenon DEF QTypeOK
<1>2. \A i \in Nat : Message(c, i)' = Message(c, i)
  BY Zenon DEF Message
<1>3. CASE reads'[c] = reads[c] /\ Pending(c)' = Pending(c)
  BY <1>1, <1>2, <1>3 DEF Decided, Pending
<1>4. CASE reads'[c] = reads[c] + 1
  <2>1. ~Pending(c)
    BY <1>1, <1>4
  <2>2. Pending(c)' \/ Message(c, reads[c] + 1).kind # "data"
    BY <1>1, <1>4
  <2> QED
    BY <1>1, <1>2, <1>4, <2>1, <2>2 DEF Decided, Pending
<1> QED
  BY <1>3, <1>4, Zenon

\* A connection that decides about its batch.
LEMMA DecidesNow ==
  ASSUME QTypeOK, OrderInv, stream' = stream, reads' = reads,
         NEW c \in Conns, Pending(c), ~Pending(c)'
  PROVE  /\ Decided(c)' = Decided(c) \cup {reads[c]}
         /\ reads[c] \notin Decided(c)
<1>1. reads[c] \in Nat /\ reads[c] > 0 /\ Message(c, reads[c]).kind = "data"
  BY Zenon DEF QTypeOK, OrderInv
<1>2. \A i \in Nat : Message(c, i)' = Message(c, i)
  BY Zenon DEF Message
<1> QED
  BY <1>1, <1>2 DEF Decided, Pending

\* What has gone through the queue has been read and decided about.
LEMMA HandledDecided ==
  ASSUME QTypeOK, OrderInv, NEW id \in Handled
  PROVE  /\ id \in Conns \X Nat /\ id[2] \in Decided(id[1])
         /\ id[1] \in Conns /\ id[2] \in Nat /\ id[2] <= reads[id[1]]
<1>1. id \in Conns \X Nat
  BY EnqueuedSeq, Zenon DEF Handled, OrderInv
<1>2. id[2] \in Decided(id[1])
  BY Zenon DEF OrderInv, NothingLostInOrder
<1> QED
  BY <1>1, <1>2 DEF Decided, QTypeOK

\* A pending batch has neither been enqueued nor dropped, and comes after what its
\* connection has sent before.
LEMMA PendingIsNew ==
  ASSUME QTypeOK, OrderInv, NEW c \in Conns, Pending(c)
  PROVE  /\ Batch(c) \in Conns \X Nat
         /\ Batch(c) \notin Handled
         /\ \A id \in Handled : id[1] = c => id[2] < reads[c]
<1>1. reads[c] \in Nat
  BY Zenon DEF QTypeOK
<1>2. reads[c] \notin Decided(c)
  BY Zenon DEF Decided, Pending
<1>3. ASSUME NEW id \in Handled, id[1] = c
      PROVE  id[2] < reads[c]
  BY <1>1, <1>2, <1>3, HandledDecided
<1>4. Batch(c) \notin Handled
  <2> SUFFICES ASSUME Batch(c) \in Handled PROVE FALSE
    BY Zenon
  <2>1. Batch(c)[1] = c /\ Batch(c)[2] = reads[c]
    BY Zenon DEF Batch
  <2> QED
    BY <1>1, <1>3, <2>1
<1> QED
  BY <1>1, <1>3, <1>4, Zenon DEF Batch

\* A step that neither enqueues nor drops, and after which every connection has
\* decided about the same messages.
LEMMA QuietOrder ==
  ASSUME QTypeOK, OrderInv, Enqueued' = Enqueued, dropped' = dropped,
         \A c \in Conns : Decided(c)' = Decided(c),
         \A c \in Conns : Pending(c)' => reads'[c] > 0 /\ Message(c, reads[c])'.kind = "data"
  PROVE  OrderInv'
<1>1. Handled' = Handled
  BY Zenon DEF Handled
<1>2. \A id \in Handled : id[1] \in Conns
  BY HandledDecided, Zenon
<1>3. NothingLostInOrder'
  BY <1>1, <1>2, Zenon DEF OrderInv, NothingLostInOrder
<1> QED
  BY <1>3, Zenon DEF OrderInv

\* Every step keeps the order, and every batch is accounted for.
LEMMA OrderStep ==
  ASSUME QueueInv, OrderInv, [QNext]_qvars
  PROVE  OrderInv'
<1> USE DEF QueueInv
<1>0. \A c \in Conns : reads[c] \in Nat
  BY Zenon DEF QTypeOK
<1>1. ASSUME NEW c \in Conns, Receive(c) \/ ReceiveFails(c) PROVE OrderInv'
  <2>1. /\ cpc[c] = "recv" /\ stream' = stream /\ queue' = queue /\ taken' = taken
        /\ dropped' = dropped /\ reads' = [reads EXCEPT ![c] = @ + 1]
    BY <1>1, Zenon DEF Receive, ReceiveFails, loopVars
  <2>2. /\ \A d \in Conns : d # c => cpc'[d] = cpc[d]
        /\ cpc'[c] = "bound" => Message(c, reads[c] + 1).kind = "data"
        /\ cpc'[c] # "bound" => Message(c, reads[c] + 1).kind # "data"
        /\ cpc'[c] # "enqueue"
    <3>1. CASE Receive(c)
      BY <3>1, Zenon DEF Receive, CGoto, QTypeOK
    <3>2. CASE ReceiveFails(c)
      BY <3>2, Zenon DEF ReceiveFails, CGoto, QTypeOK
    <3> QED
      BY <1>1, <3>1, <3>2, Zenon
  <2>3. reads'[c] = reads[c] + 1 /\ \A d \in Conns : d # c => reads'[d] = reads[d]
    BY <2>1, Zenon DEF QTypeOK
  <2>4. Enqueued' = Enqueued
    BY <2>1, Zenon DEF Enqueued
  <2>5. Decided(c)' = Decided(c)
    BY <2>1, <2>2, <2>3, DecidedSame, Zenon DEF Pending
  <2>6. ASSUME NEW d \in Conns, d # c PROVE Decided(d)' = Decided(d)
    BY <2>1, <2>2, <2>3, <2>6, DecidedSame, Zenon DEF Pending
  <2>7. ASSUME NEW d \in Conns, Pending(d)'
        PROVE  reads'[d] > 0 /\ Message(d, reads[d])'.kind = "data"
    <3>1. CASE d = c
      BY <1>0, <2>1, <2>2, <2>3, <2>7, <3>1 DEF Pending, Message
    <3>2. CASE d # c
      BY <2>1, <2>2, <2>3, <2>7, <3>2, Zenon DEF Pending, Message, OrderInv
    <3> QED
      BY <3>1, <3>2, Zenon
  <2> QED
    BY <2>1, <2>4, <2>5, <2>6, <2>7, QuietOrder, Zenon
<1>2. ASSUME NEW c \in Conns, TestBound(c), QueueFull PROVE OrderInv'
  <2>1. /\ cpc[c] = "bound" /\ stream' = stream /\ reads' = reads /\ queue' = queue /\ taken' = taken
        /\ dropped' = dropped \cup {Batch(c)} /\ cpc' = [cpc EXCEPT ![c] = "recv"]
    BY <1>2, Zenon DEF TestBound, CGoto, loopVars
  <2>2. Pending(c) /\ ~Pending(c)' /\ \A d \in Conns : d # c => Pending(d)' = Pending(d)
    BY <2>1, Zenon DEF Pending, QTypeOK
  <2>3. Enqueued' = Enqueued
    BY <2>1, Zenon DEF Enqueued
  <2>4. Handled' = Handled \cup {Batch(c)}
    BY <2>1, <2>3, Zenon DEF Handled
  <2>5. Decided(c)' = Decided(c) \cup {reads[c]}
    BY <2>1, <2>2, DecidesNow, Zenon
  <2>6. ASSUME NEW d \in Conns, d # c PROVE Decided(d)' = Decided(d)
    BY <2>1, <2>2, <2>6, DecidedSame, Zenon
  <2>7. Batch(c) \in Conns \X Nat /\ Batch(c) \notin Handled
    BY <2>2, PendingIsNew, Zenon
  <2>8. \A i \in DOMAIN Enqueued : Enqueued[i] \in Handled
    BY Zenon DEF Handled
  <2>9. \A id \in Handled : id[1] \in Conns /\ id[2] \in Decided(id[1])
    BY HandledDecided, Zenon
  <2>10. Batch(c)[1] = c /\ Batch(c)[2] = reads[c] /\ Batch(c) = <<c, reads[c]>>
    BY Zenon DEF Batch
  <2>11. /\ \A id \in Handled' : id[2] \in Decided(id[1])'
         /\ \A d \in Conns : \A i \in Decided(d)' : <<d, i>> \in Handled'
    <3>1. ASSUME NEW id \in Handled' PROVE id[2] \in Decided(id[1])'
      BY <2>4, <2>5, <2>6, <2>9, <2>10, Zenon
    <3>2. ASSUME NEW d \in Conns, NEW i \in Decided(d)' PROVE <<d, i>> \in Handled'
      BY <2>4, <2>5, <2>6, <2>10, <3>2, Zenon DEF OrderInv, NothingLostInOrder
    <3> QED
      BY <3>1, <3>2, Zenon
  <2>12. NothingLostInOrder'
    BY <2>1, <2>3, <2>7, <2>8, <2>11, Zenon DEF OrderInv, NothingLostInOrder
  <2>13. ASSUME NEW d \in Conns, Pending(d)'
         PROVE  reads'[d] > 0 /\ Message(d, reads[d])'.kind = "data"
    BY <2>1, <2>2, <2>13, Zenon DEF Message, OrderInv
  <2> QED
    BY <2>1, <2>7, <2>12, <2>13, Zenon DEF OrderInv
<1>3. ASSUME NEW c \in Conns, EnqueueBatch(c) PROVE OrderInv'
  <2>1. /\ cpc[c] = "enqueue" /\ stream' = stream /\ reads' = reads /\ taken' = taken
        /\ queue' = Append(queue, Batch(c))
        /\ dropped' = dropped /\ cpc' = [cpc EXCEPT ![c] = "keep_alive"]
    BY <1>3, Zenon DEF EnqueueBatch, Push, CGoto, loopVars
  <2>2. Pending(c) /\ ~Pending(c)' /\ \A d \in Conns : d # c => Pending(d)' = Pending(d)
    BY <2>1, Zenon DEF Pending, QTypeOK
  <2>3. /\ Batch(c) \in Conns \X Nat /\ Batch(c) \notin Handled
        /\ \A id \in Handled : id[1] = c => id[2] < reads[c]
    BY <2>2, PendingIsNew, Zenon
  <2>4. Enqueued' = Append(Enqueued, Batch(c))
    BY <2>1, <2>3, EnqueuedGrows, Zenon
  <2>5. /\ Enqueued \in Seq(Conns \X Nat) /\ DOMAIN Enqueued = 1 .. Len(Enqueued)
        /\ DOMAIN Enqueued' = 1 .. Len(Enqueued) + 1
        /\ \A i \in DOMAIN Enqueued : Enqueued'[i] = Enqueued[i]
        /\ Enqueued'[Len(Enqueued) + 1] = Batch(c)
        /\ Len(Enqueued) \in Nat
    BY <2>3, <2>4, EnqueuedSeq
  <2>6. Decided(c)' = Decided(c) \cup {reads[c]}
    BY <2>1, <2>2, DecidesNow, Zenon
  <2>7. ASSUME NEW d \in Conns, d # c PROVE Decided(d)' = Decided(d)
    BY <2>1, <2>2, <2>7, DecidedSame, Zenon
  <2>8. Handled' = Handled \cup {Batch(c)}
    <3>1. {Enqueued'[i] : i \in DOMAIN Enqueued'} = {Enqueued[i] : i \in DOMAIN Enqueued} \cup {Batch(c)}
      BY <2>5, SMTT(30)
    <3> QED
      BY <2>1, <3>1, Zenon DEF Handled
  <2>9. \A id \in Handled : id[1] \in Conns /\ id[2] \in Decided(id[1])
    BY HandledDecided, Zenon
  <2>10. Batch(c)[1] = c /\ Batch(c)[2] = reads[c] /\ Batch(c) = <<c, reads[c]>>
    BY Zenon DEF Batch
  <2>11. \A i \in DOMAIN Enqueued : Enqueued[i] \in Handled
    BY Zenon DEF Handled
  <2>12. ASSUME NEW i \in DOMAIN Enqueued', NEW j \in DOMAIN Enqueued',
                i < j, Enqueued'[i][1] = Enqueued'[j][1]
         PROVE  Enqueued'[i][2] < Enqueued'[j][2]
    <3>1. i \in DOMAIN Enqueued
      BY <2>5, <2>12
    <3>2. CASE j \in DOMAIN Enqueued
      BY <2>5, <2>12, <3>1, <3>2, Zenon DEF OrderInv, NothingLostInOrder
    <3>3. CASE j = Len(Enqueued) + 1
      BY <2>3, <2>5, <2>10, <2>11, <2>12, <3>1, <3>3, Zenon
    <3> QED
      BY <2>5, <3>2, <3>3
  <2>13. /\ \A id \in Handled' : id[2] \in Decided(id[1])'
         /\ \A d \in Conns : \A i \in Decided(d)' : <<d, i>> \in Handled'
    <3>1. ASSUME NEW id \in Handled' PROVE id[2] \in Decided(id[1])'
      BY <2>6, <2>7, <2>8, <2>9, <2>10, Zenon
    <3>2. ASSUME NEW d \in Conns, NEW i \in Decided(d)' PROVE <<d, i>> \in Handled'
      BY <2>6, <2>7, <2>8, <2>10, <3>2, Zenon DEF OrderInv, NothingLostInOrder
    <3> QED
      BY <3>1, <3>2, Zenon
  <2>14. \A i \in DOMAIN Enqueued' : Enqueued'[i] \notin dropped'
    <3>1. Batch(c) \notin dropped
      BY <2>3, Zenon DEF Handled
    <3> QED
      BY <2>1, <2>5, <3>1 DEF OrderInv, NothingLostInOrder
  <2>15. NothingLostInOrder'
    BY <2>12, <2>13, <2>14, Zenon DEF NothingLostInOrder
  <2>16. ASSUME NEW d \in Conns, Pending(d)'
         PROVE  reads'[d] > 0 /\ Message(d, reads[d])'.kind = "data"
    BY <2>1, <2>2, <2>16, Zenon DEF Message, OrderInv
  <2> QED
    BY <2>1, <2>15, <2>16, Zenon DEF OrderInv
<1>4. ASSUME stream' = stream, reads' = reads, Enqueued' = Enqueued, dropped' = dropped,
             \A d \in Conns : Pending(d)' = Pending(d)
      PROVE  OrderInv'
  <2>1. \A d \in Conns : Decided(d)' = Decided(d)
    BY <1>4, DecidedSame, Zenon
  <2>2. \A d \in Conns : Pending(d)' => reads'[d] > 0 /\ Message(d, reads[d])'.kind = "data"
    BY <1>4, Zenon DEF Message, OrderInv
  <2> QED
    BY <1>4, <2>1, <2>2, QuietOrder, Zenon
<1>5. ASSUME NEW c \in Conns, TestBound(c), ~QueueFull PROVE OrderInv'
  BY <1>4, <1>5 DEF TestBound, CGoto, loopVars, Enqueued, Pending, QTypeOK
<1>6. ASSUME NEW c \in Conns, KeepAlive(c) PROVE OrderInv'
  BY <1>4, <1>6 DEF KeepAlive, CGoto, loopVars, Enqueued, Pending, QTypeOK
<1>7. CASE DequeueBatch
  <2>1. Enqueued' = Enqueued
    BY <1>7, EnqueuedMoves, Zenon DEF DequeueBatch
  <2> QED
    BY <1>4, <1>7, <2>1, Zenon DEF DequeueBatch, connVars, Pending
<1>8. CASE Process \/ DeleteBatch \/ QDone \/ UNCHANGED qvars
  BY <1>4, <1>8, Zenon DEF Process, DeleteBatch, QDone, qvars, connVars, loopVars, Enqueued, Pending
<1> QED
  BY <1>1, <1>2, <1>3, <1>5, <1>6, <1>7, <1>8, Zenon DEF QNext, HandleStream, Loop

\* A step that leaves the queue, the loop and the connections' batches alone and
\* deletes at most one batch, which no connection holds and nobody owns who expects
\* to find it.
LEMMA DeletesOne ==
  ASSUME QTypeOK, OrderInv, FreedInv,
         stream' = stream, taken' = taken, lpc' = lpc, Enqueued' = Enqueued,
         \A c \in Conns : reads'[c] \in Nat /\ reads[c] <= reads'[c],
         NEW gone \in SUBSET (Conns \X Nat), freed' = freed \cup gone,
         \A id \in gone : id[2] <= reads'[id[1]],
         \A c \in Conns : Pending(c)' => Batch(c)' \notin gone /\ (Pending(c) \/ reads'[c] > reads[c]),
         \A c \in Conns : Pending(c)' /\ Pending(c) => reads'[c] = reads[c],
         \A i \in DOMAIN Enqueued : Enqueued[i] \in gone =>
           ~Owned(i) \/ ~Message(Enqueued[i][1], Enqueued[i][2]).keep
  PROVE  FreedInv'
<1>0. \A c \in Conns : reads[c] \in Nat
  BY Zenon DEF QTypeOK
<1>1. freed' \subseteq Conns \X Nat
  BY Zenon DEF FreedInv
<1>2. ASSUME NEW id \in freed' PROVE id[2] <= reads'[id[1]]
  <2>1. id[1] \in Conns /\ id[2] \in Nat
    BY <1>1, <1>2, Zenon
  <2>2. CASE id \in freed
    BY <1>0, <2>1, <2>2 DEF FreedInv
  <2> QED
    BY <1>2, <2>2, Zenon
<1>3. ASSUME NEW c \in Conns, Pending(c)' PROVE Batch(c)' \notin freed'
  <2>1. CASE Pending(c)
    BY <1>3, <2>1, Zenon DEF FreedInv, Batch
  <2>2. CASE reads'[c] > reads[c]
    <3>1. Batch(c)'[1] = c /\ Batch(c)'[2] = reads'[c]
      BY Zenon DEF Batch
    <3>2. Batch(c)' \notin freed
      BY <1>0, <2>2, <3>1 DEF FreedInv
    <3> QED
      BY <1>3, <3>2, Zenon
  <2> QED
    BY <1>3, <2>1, <2>2, Zenon
<1>4. ASSUME NEW i \in DOMAIN Enqueued', Owned(i)', Message(Enqueued[i][1], Enqueued[i][2])'.keep
      PROVE  Enqueued'[i] \notin freed'
  <2>1. i \in DOMAIN Enqueued /\ Enqueued'[i] = Enqueued[i] /\ Owned(i)
    BY <1>4, Zenon DEF Owned
  <2>2. Message(Enqueued[i][1], Enqueued[i][2]).keep
    BY <1>4, Zenon DEF Message
  <2>3. Enqueued[i] \notin freed
    BY <2>1, <2>2, Zenon DEF FreedInv
  <2> QED
    BY <2>1, <2>2, <2>3, Zenon
<1> QED
  BY <1>1, <1>2, <1>3, <1>4, Zenon DEF FreedInv

\* Every step deletes only what nobody else is going to use.
LEMMA FreedStep ==
  ASSUME QueueInv, OrderInv, FreedInv, [QNext]_qvars
  PROVE  FreedInv'
<1> USE DEF QueueInv
<1>0. /\ \A c \in Conns : reads[c] \in Nat
      /\ \A i \in DOMAIN Enqueued : Enqueued[i] \in Handled
  BY Zenon DEF QTypeOK, Handled
<1>1. ASSUME NEW c \in Conns, Receive(c) \/ ReceiveFails(c) PROVE FreedInv'
  <2>1. /\ cpc[c] = "recv" /\ stream' = stream /\ queue' = queue /\ taken' = taken /\ lpc' = lpc
        /\ reads' = [reads EXCEPT ![c] = @ + 1]
    BY <1>1, Zenon DEF Receive, ReceiveFails, loopVars
  <2>2. PICK gone \in SUBSET {<<c, reads[c] + 1>>} :
          /\ freed' = freed \cup gone
          /\ Pending(c)' => gone = {}
          /\ \A d \in Conns : d # c => Pending(d)' = Pending(d)
    <3>1. CASE Receive(c)
      <4>1. CASE cpc' = [cpc EXCEPT ![c] = "bound"] /\ freed' = freed
        <5>1. WITNESS {} \in SUBSET {<<c, reads[c] + 1>>}
        <5> QED
          BY <4>1, Zenon DEF Pending, QTypeOK
      <4>2. CASE freed' = freed \cup {<<c, reads[c] + 1>>} /\ cpc'[c] \in {"recv", "closed"}
                 /\ \A d \in Conns : d # c => cpc'[d] = cpc[d]
        <5>1. WITNESS {<<c, reads[c] + 1>>} \in SUBSET {<<c, reads[c] + 1>>}
        <5> QED
          BY <4>2, Zenon DEF Pending
      <4> QED
        BY <3>1, <4>1, <4>2, Zenon DEF Receive, CGoto, Delete, QTypeOK
    <3>2. CASE ReceiveFails(c)
      <4>1. CASE cpc' = cpc /\ freed' = freed
        <5>1. WITNESS {} \in SUBSET {<<c, reads[c] + 1>>}
        <5> QED
          BY <4>1, Zenon DEF Pending
      <4>2. CASE freed' = freed \cup {<<c, reads[c] + 1>>} /\ cpc' = [cpc EXCEPT ![c] = "closed"]
        <5>1. WITNESS {<<c, reads[c] + 1>>} \in SUBSET {<<c, reads[c] + 1>>}
        <5> QED
          BY <4>2, Zenon DEF Pending, QTypeOK
      <4> QED
        BY <3>2, <4>1, <4>2, Zenon DEF ReceiveFails, CGoto, Delete
    <3> QED
      BY <1>1, <3>1, <3>2, Zenon
  <2>3. reads'[c] = reads[c] + 1 /\ \A d \in Conns : d # c => reads'[d] = reads[d]
    BY <2>1, Zenon DEF QTypeOK
  <2>4. Enqueued' = Enqueued
    BY <2>1, Zenon DEF Enqueued
  <2>5. gone \in SUBSET (Conns \X Nat) /\ \A id \in gone : id[2] <= reads'[id[1]]
    BY <1>0, <2>3
  <2>6. \A d \in Conns : Pending(d)' => Batch(d)' \notin gone /\ (Pending(d) \/ reads'[d] > reads[d])
    <3>1. ASSUME NEW d \in Conns, Pending(d)', d # c PROVE Batch(d)' \notin gone /\ Pending(d)
      BY <2>2, <3>1, Zenon DEF Batch
    <3> QED
      BY <1>0, <2>2, <2>3, <3>1
  <2>7. \A d \in Conns : Pending(d)' /\ Pending(d) => reads'[d] = reads[d]
    BY <2>1, <2>3, Zenon DEF Pending
  <2>8. \A i \in DOMAIN Enqueued : Enqueued[i] \notin gone
    <3>1. ASSUME NEW id \in Handled, id \in gone PROVE FALSE
      <4>1. id[1] = c /\ id[2] = reads[c] + 1
        BY <3>1
      <4> QED
        BY <1>0, <4>1, HandledDecided
    <3> QED
      BY <1>0, <3>1, Zenon
  <2>9. \A d \in Conns : reads'[d] \in Nat /\ reads[d] <= reads'[d]
    BY <1>0, <2>3
  <2> QED
    BY <2>1, <2>2, <2>4, <2>5, <2>6, <2>7, <2>8, <2>9, DeletesOne, Zenon
<1>2. ASSUME stream' = stream, reads' = reads, taken' = taken, lpc' = lpc, queue' = queue,
             NEW id \in Conns \X Nat, freed' = freed \/ freed' = freed \cup {id},
             \A c \in Conns : Pending(c)' => Pending(c),
             freed' # freed => /\ id[2] <= reads[id[1]]
                               /\ \A c \in Conns : Pending(c)' => Batch(c) # id
                               /\ \A i \in DOMAIN Enqueued : Enqueued[i] = id =>
                                    ~Owned(i) \/ ~Message(Enqueued[i][1], Enqueued[i][2]).keep
      PROVE  FreedInv'
  <2>1. Enqueued' = Enqueued /\ \A c \in Conns : Batch(c)' = Batch(c)
    BY <1>2, Zenon DEF Enqueued, Batch
  <2>2. \A c \in Conns : reads'[c] \in Nat /\ reads[c] <= reads'[c]
    BY <1>0, <1>2
  <2>3. PICK gone \in SUBSET {id} : freed' = freed \cup gone /\ (gone # {} => freed' # freed)
    <3>1. CASE freed' = freed
      <4>1. WITNESS {} \in SUBSET {id}
      <4> QED
        BY <3>1, Zenon
    <3>2. CASE freed' # freed
      <4>1. WITNESS {id} \in SUBSET {id}
      <4> QED
        BY <1>2, <3>2, Zenon
    <3> QED
      BY <3>1, <3>2, Zenon
  <2>4. gone \in SUBSET (Conns \X Nat) /\ \A x \in gone : x = id
    BY <2>3, Zenon
  <2>5. \A x \in gone : x[2] <= reads'[x[1]]
    BY <1>2, <2>3, <2>4, Zenon
  <2>6. \A c \in Conns : Pending(c)' => Batch(c)' \notin gone /\ (Pending(c) \/ reads'[c] > reads[c])
    BY <1>2, <2>1, <2>3, <2>4, Zenon
  <2>7. \A i \in DOMAIN Enqueued : Enqueued[i] \in gone =>
           ~Owned(i) \/ ~Message(Enqueued[i][1], Enqueued[i][2]).keep
    BY <1>2, <2>3, <2>4, Zenon
  <2> QED
    BY <1>2, <2>1, <2>2, <2>3, <2>4, <2>5, <2>6, <2>7, DeletesOne, Zenon
<1>3. ASSUME NEW c \in Conns, TestBound(c) PROVE FreedInv'
  <2>1. /\ cpc[c] = "bound" /\ stream' = stream /\ reads' = reads /\ queue' = queue
        /\ taken' = taken /\ lpc' = lpc
    BY <1>3, Zenon DEF TestBound, loopVars
  <2>2. Pending(c) /\ Batch(c) \in Conns \X Nat /\ Batch(c) \notin Handled
    BY <2>1, PendingIsNew, Zenon DEF Pending
  <2>3. Batch(c)[1] = c /\ Batch(c)[2] = reads[c]
    BY Zenon DEF Batch
  <2>4. \A d \in Conns : d # c => Batch(d) # Batch(c)
    BY Zenon DEF Batch
  <2>5. \/ QueueFull /\ freed' = freed \cup {Batch(c)} /\ cpc' = [cpc EXCEPT ![c] = "recv"]
        \/ ~QueueFull /\ freed' = freed /\ cpc' = [cpc EXCEPT ![c] = "enqueue"]
    BY <1>3, Zenon DEF TestBound, CGoto, Delete
  <2>6. /\ \A d \in Conns : Pending(d)' => Pending(d)
        /\ freed' # freed => \A d \in Conns : Pending(d)' => Batch(d) # Batch(c)
    BY <2>2, <2>4, <2>5, Zenon DEF Pending, QTypeOK
  <2>7. Batch(c)[2] <= reads[Batch(c)[1]]
    BY <1>0, <2>3
  <2> QED
    BY <1>0, <1>2, <2>1, <2>2, <2>5, <2>6, <2>7, Zenon
<1>4. ASSUME NEW c \in Conns, KeepAlive(c) PROVE FreedInv'
  <2>1. /\ cpc[c] = "keep_alive" /\ stream' = stream /\ reads' = reads /\ queue' = queue
        /\ taken' = taken /\ lpc' = lpc
    BY <1>4, Zenon DEF KeepAlive, loopVars
  <2>2. PICK keep \in IF Batch(c) \in freed THEN BOOLEAN ELSE {Message(c, reads[c]).keep} :
          IF keep THEN cpc' = [cpc EXCEPT ![c] = "recv"] /\ freed' = freed
                  ELSE cpc' = [cpc EXCEPT ![c] = "closed"] /\ freed' = freed \cup {Batch(c)}
    BY <1>4, Zenon DEF KeepAlive, CGoto, Delete
  <2>3. /\ Batch(c)[1] = c /\ Batch(c)[2] = reads[c] /\ Batch(c) \in Conns \X Nat
        /\ \A d \in Conns : d # c => Batch(d) # Batch(c)
    BY <1>0, Zenon DEF Batch
  <2>4. \A d \in Conns : Pending(d)' => Pending(d) /\ d # c
    BY <2>1, <2>2, Zenon DEF Pending, QTypeOK
  <2>5. freed' = freed \/ freed' = freed \cup {Batch(c)}
    BY <2>2, Zenon
  <2>6. freed' # freed => ~Message(c, reads[c]).keep
    <3>1. CASE Batch(c) \in freed
      BY <2>5, <3>1, Zenon
    <3>2. CASE Batch(c) \notin freed
      <4>1. keep = Message(c, reads[c]).keep
        BY <2>2, <3>2, Zenon
      <4> QED
        BY <2>2, <4>1, Zenon
    <3> QED
      BY <3>1, <3>2, Zenon
  <2>7. Batch(c)[2] <= reads[Batch(c)[1]]
    BY <1>0, <2>3
  <2>8. \A i \in DOMAIN Enqueued : Enqueued[i] = Batch(c) /\ freed' # freed =>
          ~Message(Enqueued[i][1], Enqueued[i][2]).keep
    BY <2>3, <2>6, Zenon
  <2> QED
    BY <1>2, <2>1, <2>3, <2>4, <2>5, <2>7, <2>8, Zenon
<1>5. ASSUME NEW c \in Conns, EnqueueBatch(c) PROVE FreedInv'
  <2>1. /\ cpc[c] = "enqueue" /\ stream' = stream /\ reads' = reads /\ taken' = taken
        /\ queue' = Append(queue, Batch(c)) /\ lpc' = lpc /\ freed' = freed
        /\ cpc' = [cpc EXCEPT ![c] = "keep_alive"]
    BY <1>5, Zenon DEF EnqueueBatch, Push, CGoto, loopVars
  <2>2. Pending(c) /\ \A d \in Conns : Pending(d)' => Pending(d)
    BY <2>1, Zenon DEF Pending, QTypeOK
  <2>3. Batch(c) \in Conns \X Nat /\ Batch(c) \notin freed
    BY <2>2, PendingIsNew, Zenon DEF FreedInv
  <2>4. Enqueued' = Append(Enqueued, Batch(c))
    BY <2>1, <2>3, EnqueuedGrows, Zenon
  <2>5. /\ DOMAIN Enqueued' = 1 .. Len(Enqueued) + 1 /\ DOMAIN Enqueued = 1 .. Len(Enqueued)
        /\ \A i \in DOMAIN Enqueued : Enqueued'[i] = Enqueued[i]
        /\ Enqueued'[Len(Enqueued) + 1] = Batch(c)
        /\ Len(Enqueued) \in Nat
    BY <2>3, <2>4, EnqueuedSeq
  <2>6. ASSUME NEW i \in DOMAIN Enqueued', Owned(i)', Message(Enqueued[i][1], Enqueued[i][2])'.keep
        PROVE  Enqueued'[i] \notin freed'
    <3>1. CASE i \in DOMAIN Enqueued
      <4>1. Enqueued'[i] = Enqueued[i] /\ Owned(i)
        BY <2>1, <2>5, <2>6, <3>1, Zenon DEF Owned
      <4>2. Message(Enqueued[i][1], Enqueued[i][2]).keep
        BY <2>1, <2>6, <4>1, Zenon DEF Message
      <4> QED
        BY <2>1, <3>1, <4>1, <4>2, Zenon DEF FreedInv
    <3>2. CASE i = Len(Enqueued) + 1
      BY <2>1, <2>3, <2>5, <3>2, Zenon
    <3> QED
      BY <2>5, <3>1, <3>2
  <2>7. \A d \in Conns : Pending(d)' => Batch(d)' \notin freed'
    BY <2>1, <2>2, Zenon DEF FreedInv, Batch
  <2> QED
    BY <2>1, <2>6, <2>7, Zenon DEF FreedInv
<1>6. ASSUME stream' = stream, reads' = reads, cpc' = cpc, Enqueued' = Enqueued, freed' = freed,
             \A i \in DOMAIN Enqueued : Owned(i)' => Owned(i)
      PROVE  FreedInv'
  BY <1>6, Zenon DEF FreedInv, Pending, Batch, Message
<1>7. CASE DequeueBatch
  <2>1. Enqueued' = Enqueued
    BY <1>7, EnqueuedMoves, Zenon DEF DequeueBatch
  <2>2. \A i \in DOMAIN Enqueued : Owned(i)' => Owned(i)
    <3>1. Len(taken') = Len(taken) + 1 /\ Len(taken) \in Nat
      BY <1>7 DEF DequeueBatch, QTypeOK
    <3> QED
      BY <3>1, EnqueuedSeq DEF Owned
  <2> QED
    BY <1>6, <1>7, <2>1, <2>2, Zenon DEF DequeueBatch, connVars
<1>8. CASE Process \/ QDone \/ UNCHANGED qvars
  <2>1. /\ stream' = stream /\ reads' = reads /\ cpc' = cpc /\ freed' = freed
        /\ queue' = queue /\ taken' = taken /\ (lpc' = lpc \/ lpc = "process")
    BY <1>8, Zenon DEF Process, QDone, qvars, connVars, loopVars
  <2> QED
    BY <1>6, <2>1, Zenon DEF Owned, Enqueued
<1>9. CASE DeleteBatch
  <2>1. /\ stream' = stream /\ reads' = reads /\ cpc' = cpc /\ queue' = queue /\ taken' = taken
        /\ lpc = "delete" /\ lpc' = "dequeue" /\ freed' = freed \cup {Current}
    BY <1>9, Zenon DEF DeleteBatch, connVars, Delete
  <2>2. Enqueued' = Enqueued
    BY <2>1, Zenon DEF Enqueued
  <2>3. Len(taken) \in DOMAIN Enqueued /\ Current = Enqueued[Len(taken)]
    <3>1. taken \in Seq(Conns \X Nat) /\ taken # << >>
      BY <2>1, Zenon DEF QTypeOK
    <3>2. Len(taken) \in Nat /\ Len(taken) > 0
      BY <3>1
    <3> QED
      BY <3>2, EnqueuedSeq DEF Current
  <2>4. /\ Current \in Handled /\ Current \in Conns \X Nat
        /\ Current[1] \in Conns /\ Current[2] <= reads[Current[1]]
    BY <1>0, <2>3, HandledDecided, Zenon
  <2>5. \A c \in Conns : Pending(c) => Batch(c) # Current
    BY <2>4, PendingIsNew, Zenon
  <2>6. ASSUME NEW i \in DOMAIN Enqueued, Owned(i)' PROVE Owned(i) /\ Enqueued[i] # Current
    <3>1. i > Len(taken)
      BY <2>1, <2>6, Zenon DEF Owned
    <3>2. Enqueued[i][1] = Current[1] => Current[2] < Enqueued[i][2]
      BY <2>3, <3>1, EnqueuedSeq, Zenon DEF OrderInv, NothingLostInOrder
    <3>3. Current[2] \in Nat
      BY <2>4, Zenon
    <3> QED
      BY <3>1, <3>2, <3>3 DEF Owned
  <2>7. ASSUME NEW i \in DOMAIN Enqueued', Owned(i)', Message(Enqueued[i][1], Enqueued[i][2])'.keep
        PROVE  Enqueued'[i] \notin freed'
    BY <2>1, <2>2, <2>6, <2>7, Zenon DEF FreedInv, Message
  <2>8. \A c \in Conns : Pending(c)' => Batch(c)' \notin freed'
    BY <2>1, <2>5, Zenon DEF FreedInv, Pending, Batch
  <2>9. freed' \subseteq Conns \X Nat /\ \A id \in freed' : id[2] <= reads'[id[1]]
    BY <2>1, <2>4, Zenon DEF FreedInv
  <2> QED
    BY <2>7, <2>8, <2>9, Zenon DEF FreedInv
<1> QED
  BY <1>1, <1>3, <1>4, <1>5, <1>7, <1>8, <1>9, Zenon DEF QNext, HandleStream, Loop

\* No batch exists at the start.
LEMMA BatchesInit == QInit => OrderInv /\ FreedInv
<1> SUFFICES ASSUME QInit PROVE OrderInv /\ FreedInv
  BY Zenon
<1>1. /\ queue = << >> /\ taken = << >> /\ dropped = {} /\ freed = {}
      /\ \A c \in Conns : reads[c] = 0 /\ cpc[c] = "recv"
  BY Zenon DEF QInit
<1>2. Enqueued = << >> /\ DOMAIN Enqueued = {} /\ Handled = {}
  BY <1>1 DEF Enqueued, Handled
<1>3. \A c \in Conns : Decided(c) = {} /\ ~Pending(c)
  BY <1>1 DEF Decided, Pending
<1> QED
  BY <1>1, <1>2, <1>3, Zenon DEF OrderInv, NothingLostInOrder, FreedInv

-----------------------------------------------------------------------------
\* What the two theorems below rest on: an inductive invariant.
THEOREM BatchesInvariant == QSpec => [](OrderInv /\ FreedInv)
<1>1. QueueInv /\ OrderInv /\ FreedInv /\ [QNext]_qvars => (OrderInv /\ FreedInv)'
  BY OrderStep, FreedStep, Zenon
<1> QED
  BY <1>1, BatchesInit, QueueInvariant, PTL DEF QSpec

\* enqueue_batch and dequeue_batch: however connections and the process loop
\* interleave, each data batch that handle_stream has read is either dropped or
\* queued, once, and the loop gets the batches of a connection in the order sent.
THEOREM NothingEverLost == QSpec => []NothingLostInOrder
<1>1. OrderInv => NothingLostInOrder
  BY Zenon DEF OrderInv
<1> QED
  BY <1>1, BatchesInvariant, PTL

\* delete batch in handle_stream and in process_loop_handler: a batch with
\* keep_alive is not deleted while it is queued or processed.
THEOREM KeptBatchesSafe == QSpec => []KeptBatchesAlive
<1>1. QTypeOK /\ FreedInv => KeptBatchesAlive
  <2> SUFFICES ASSUME QTypeOK, FreedInv PROVE KeptBatchesAlive
    BY Zenon
  <2>1. ASSUME NEW i \in DOMAIN queue, Message(queue[i][1], queue[i][2]).keep
        PROVE  queue[i] \notin freed
    <3>0. queue \in Seq(Conns \X Nat)
      BY Zenon DEF QTypeOK
    <3>1. i \in 1 .. Len(queue)
      BY <2>1, <3>0
    <3>2. /\ i + Len(taken) \in DOMAIN Enqueued
          /\ Enqueued[i + Len(taken)] = queue[i]
          /\ Owned(i + Len(taken))
      BY <3>1, EnqueuedSeq DEF Owned
    <3> QED
      BY <2>1, <3>2, Zenon DEF FreedInv
  <2>2. ASSUME lpc # "dequeue", Message(Current[1], Current[2]).keep
        PROVE  Current \notin freed
    <3>1. Len(taken) \in Nat /\ Len(taken) > 0
      BY <2>2 DEF QTypeOK
    <3>2. Len(taken) \in DOMAIN Enqueued /\ Current = Enqueued[Len(taken)] /\ Owned(Len(taken))
      BY <2>2, <3>1, EnqueuedSeq DEF Current, Owned
    <3> QED
      BY <2>2, <3>2, Zenon DEF FreedInv
  <2> QED
    BY <2>1, <2>2, Zenon DEF KeptBatchesAlive
<1>2. QueueInv => QTypeOK
  BY Zenon DEF QueueInv
<1> QED
  BY <1>1, <1>2, BatchesInvariant, QueueInvariant, PTL

-----------------------------------------------------------------------------
(***************************************************************************)
(* The threads of a monitor.                                               *)
(***************************************************************************)

\* The thread r has wait_lock empty.
Counting(r) == rpc[r] \in {"count", "wait_unlock"}

\* wait_lock is a lock: one holder, and the counter a holder has loaded is current.
LockInv ==
  /\ wait_lock => hpc \notin {"post", "sync_unlock"} /\ \A r \in Readers : ~Counting(r)
  /\ hpc \in {"post", "sync_unlock"} => \A r \in Readers : ~Counting(r)
  /\ \A r, q \in Readers : Counting(r) /\ Counting(q) => r = q
  /\ \A r \in Readers : rpc[r] = "count" => tmp[r] = waiting

\* The tokens: sync has posted at most waiting of them, and none between two syncs.
TokenInv ==
  /\ posted <= waiting
  /\ hpc # "post" => posted = 0
  /\ TokensMatchWaiters

\* alg_lock is a readers-writer lock, and mappings are deleted in their order.
MappingInv ==
  /\ \A r \in Readers : rpc[r] = "use" <=> r \in reading
  /\ \A r \in Readers : rpc[r] = "use" => held[r] = algs
  /\ writing <=> hpc \in {"swap", "update_unlock"}
  /\ writing => reading = {}
  /\ IF hpc \in {"recv", "update_unlock"} THEN algs = new ELSE algs < new
  /\ \A n \in deleted : n < algs

SyncInv == STypeOK /\ LockInv /\ TokenInv /\ MappingInv

-----------------------------------------------------------------------------
\* The set of the waiting threads is finite, so that its size is a number.
LEMMA WaitersFinite ==
  IsFiniteSet(Waiters) /\ Cardinality(Waiters) \in Nat
<1>1. Waiters \subseteq Readers
  BY Zenon DEF Waiters
<1>2. IsFiniteSet(Waiters)
  BY <1>1, ReadersAssumption, FS_Subset, Zenon
<1> QED
  BY <1>2, FS_CardinalityType, Zenon

\* A thread that Count counts becomes one waiter more.
LEMMA OneMoreWaiter ==
  ASSUME NEW r \in Readers, STypeOK, rpc[r] = "count",
         rpc' = [rpc EXCEPT ![r] = "wait_unlock"]
  PROVE  Cardinality(Waiters') = Cardinality(Waiters) + 1
<1>1. Waiters' = Waiters \cup {r} /\ r \notin Waiters
  BY Zenon DEF Waiters, STypeOK
<1> QED
  BY <1>1, WaitersFinite, FS_AddElement, Zenon

\* A thread that SemWait lets pass is one waiter less.
LEMMA OneWaiterLess ==
  ASSUME NEW r \in Readers, STypeOK, rpc[r] = "sem_wait",
         rpc' = [rpc EXCEPT ![r] = "read_lock"]
  PROVE  Cardinality(Waiters') = Cardinality(Waiters) - 1
<1>1. Waiters' = Waiters \ {r} /\ r \in Waiters
  BY Zenon DEF Waiters, STypeOK
<1> QED
  BY <1>1, WaitersFinite, FS_RemoveElement, Zenon

\* The program starts with its locks free, no thread waiting and mapping 0.
LEMMA SyncInvInit == SInit => SyncInv
<1> SUFFICES ASSUME SInit PROVE SyncInv
  BY Zenon
<1> USE DEF SInit
<1>1. STypeOK
  <2>1. 0 \in 0 .. MaxUpdates /\ 0 \in 0 .. MaxRequests /\ 0 \in Nat
    BY MaxUpdatesAssumption, MaxRequestsAssumption
  <2>2. /\ tmp \in [Readers -> Nat]
        /\ held \in [Readers -> 0 .. MaxUpdates]
        /\ requests \in [Readers -> 0 .. MaxRequests]
    BY <2>1, Zenon
  <2>3. wait_lock \in BOOLEAN /\ writing \in BOOLEAN
    BY Zenon
  <2> QED
    BY <2>1, <2>2, <2>3, Zenon DEF STypeOK
<1>2. LockInv
  BY Zenon DEF LockInv, Counting
<1>3. Waiters = {}
  BY Zenon DEF Waiters
<1>4. TokenInv
  BY <1>3, FS_EmptySet DEF TokenInv, TokensMatchWaiters
<1>5. MappingInv
  BY Zenon DEF MappingInv
<1> QED
  BY <1>1, <1>2, <1>4, <1>5, Zenon DEF SyncInv

\* Every step keeps the variables in their types.
LEMMA TypeStep == SyncInv /\ [SNext]_svars => STypeOK'
<1> SUFFICES ASSUME SyncInv, [SNext]_svars PROVE STypeOK'
  BY Zenon
<1> USE DEF SyncInv
<1>1. CASE MapUpdate
  BY <1>1, MaxUpdatesAssumption DEF MapUpdate, handlerVars, syncVars, algVars, readerVars, STypeOK
<1>2. CASE SyncLock
  BY <1>2, Zenon DEF SyncLock, handlerVars, syncVars, algVars, readerVars, STypeOK
<1>3. CASE SyncPost
  BY <1>3 DEF SyncPost, handlerVars, syncVars, algVars, readerVars, STypeOK
<1>4. CASE SyncReset
  BY <1>4, Zenon DEF SyncReset, handlerVars, syncVars, algVars, readerVars, STypeOK
<1>5. CASE SyncUnlock
  BY <1>5, Zenon DEF SyncUnlock, handlerVars, syncVars, algVars, readerVars, STypeOK
<1>6. CASE UpdateLock
  BY <1>6, Zenon DEF UpdateLock, handlerVars, syncVars, algVars, readerVars, STypeOK
<1>7. CASE UpdateSwap
  BY <1>7, Zenon DEF UpdateSwap, handlerVars, syncVars, algVars, readerVars, STypeOK
<1>8. CASE UpdateUnlock
  BY <1>8, Zenon DEF UpdateUnlock, handlerVars, syncVars, algVars, readerVars, STypeOK
<1>9. ASSUME NEW r \in Readers, Request(r) PROVE STypeOK'
  BY <1>9, MaxRequestsAssumption DEF Request, handlerVars, syncVars, algVars, readerVars, STypeOK
<1>10. ASSUME NEW r \in Readers, WaitLock(r) PROVE STypeOK'
  BY <1>10, Zenon DEF WaitLock, handlerVars, syncVars, algVars, readerVars, STypeOK
<1>11. ASSUME NEW r \in Readers, Count(r) PROVE STypeOK'
  BY <1>11 DEF Count, handlerVars, syncVars, algVars, readerVars, STypeOK
<1>12. ASSUME NEW r \in Readers, WaitUnlock(r) PROVE STypeOK'
  BY <1>12, Zenon DEF WaitUnlock, handlerVars, syncVars, algVars, readerVars, STypeOK
<1>13. ASSUME NEW r \in Readers, SemWait(r) PROVE STypeOK'
  BY <1>13 DEF SemWait, handlerVars, syncVars, algVars, readerVars, STypeOK
<1>14. ASSUME NEW r \in Readers, ReadLock(r) PROVE STypeOK'
  BY <1>14, Zenon DEF ReadLock, handlerVars, syncVars, algVars, readerVars, STypeOK
<1>15. ASSUME NEW r \in Readers, ReadUnlock(r) PROVE STypeOK'
  BY <1>15, Zenon DEF ReadUnlock, handlerVars, syncVars, algVars, readerVars, STypeOK
<1>16. CASE UNCHANGED svars
  BY <1>16, Zenon DEF svars, handlerVars, syncVars, algVars, readerVars, STypeOK
<1> QED
  BY <1>1, <1>2, <1>3, <1>4, <1>5, <1>6, <1>7, <1>8, <1>9, <1>10, <1>11, <1>12, <1>13, <1>14, <1>15, <1>16, Zenon DEF SNext, Handler, Reader

\* Every step keeps wait_lock a lock.
LEMMA LockStep == SyncInv /\ [SNext]_svars => LockInv'
<1> SUFFICES ASSUME SyncInv, [SNext]_svars PROVE LockInv'
  BY Zenon
<1> USE DEF SyncInv
<1>1. CASE MapUpdate
  BY <1>1, Zenon DEF MapUpdate, handlerVars, syncVars, algVars, readerVars, STypeOK, LockInv, Counting
<1>2. CASE SyncLock
  BY <1>2, Zenon DEF SyncLock, handlerVars, syncVars, algVars, readerVars, STypeOK, LockInv, Counting
<1>3. CASE SyncPost
  BY <1>3, Zenon DEF SyncPost, handlerVars, syncVars, algVars, readerVars, STypeOK, LockInv, Counting
<1>4. CASE SyncReset
  BY <1>4, Zenon DEF SyncReset, handlerVars, syncVars, algVars, readerVars, STypeOK, LockInv, Counting
<1>5. CASE SyncUnlock
  BY <1>5, Zenon DEF SyncUnlock, handlerVars, syncVars, algVars, readerVars, STypeOK, LockInv, Counting
<1>6. CASE UpdateLock
  BY <1>6, Zenon DEF UpdateLock, handlerVars, syncVars, algVars, readerVars, STypeOK, LockInv, Counting
<1>7. CASE UpdateSwap
  BY <1>7, Zenon DEF UpdateSwap, handlerVars, syncVars, algVars, readerVars, STypeOK, LockInv, Counting
<1>8. CASE UpdateUnlock
  BY <1>8, Zenon DEF UpdateUnlock, handlerVars, syncVars, algVars, readerVars, STypeOK, LockInv, Counting
<1>9. ASSUME NEW r \in Readers, Request(r) PROVE LockInv'
  BY <1>9, Zenon DEF Request, handlerVars, syncVars, algVars, readerVars, STypeOK, LockInv, Counting
<1>10. ASSUME NEW r \in Readers, WaitLock(r) PROVE LockInv'
  BY <1>10, Zenon DEF WaitLock, handlerVars, syncVars, algVars, readerVars, STypeOK, LockInv, Counting
<1>11. ASSUME NEW r \in Readers, Count(r) PROVE LockInv'
  BY <1>11, Zenon DEF Count, handlerVars, syncVars, algVars, readerVars, STypeOK, LockInv, Counting
<1>12. ASSUME NEW r \in Readers, WaitUnlock(r) PROVE LockInv'
  BY <1>12, Zenon DEF WaitUnlock, handlerVars, syncVars, algVars, readerVars, STypeOK, LockInv, Counting
<1>13. ASSUME NEW r \in Readers, SemWait(r) PROVE LockInv'
  BY <1>13, Zenon DEF SemWait, handlerVars, syncVars, algVars, readerVars, STypeOK, LockInv, Counting
<1>14. ASSUME NEW r \in Readers, ReadLock(r) PROVE LockInv'
  BY <1>14, Zenon DEF ReadLock, handlerVars, syncVars, algVars, readerVars, STypeOK, LockInv, Counting
<1>15. ASSUME NEW r \in Readers, ReadUnlock(r) PROVE LockInv'
  BY <1>15, Zenon DEF ReadUnlock, handlerVars, syncVars, algVars, readerVars, STypeOK, LockInv, Counting
<1>16. CASE UNCHANGED svars
  BY <1>16, Zenon DEF svars, handlerVars, syncVars, algVars, readerVars, STypeOK, LockInv, Counting
<1> QED
  BY <1>1, <1>2, <1>3, <1>4, <1>5, <1>6, <1>7, <1>8, <1>9, <1>10, <1>11, <1>12, <1>13, <1>14, <1>15, <1>16, Zenon DEF SNext, Handler, Reader

\* Every step keeps alg_lock a readers-writer lock and the mappings in order.
LEMMA MappingStep == SyncInv /\ [SNext]_svars => MappingInv'
<1> SUFFICES ASSUME SyncInv, [SNext]_svars PROVE MappingInv'
  BY Zenon
<1> USE DEF SyncInv
<1>1. CASE MapUpdate
  BY <1>1 DEF MapUpdate, handlerVars, syncVars, algVars, readerVars, STypeOK, MappingInv
<1>2. CASE SyncLock
  BY <1>2, Zenon DEF SyncLock, handlerVars, syncVars, algVars, readerVars, STypeOK, MappingInv
<1>3. CASE SyncPost
  BY <1>3, Zenon DEF SyncPost, handlerVars, syncVars, algVars, readerVars, STypeOK, MappingInv
<1>4. CASE SyncReset
  BY <1>4, Zenon DEF SyncReset, handlerVars, syncVars, algVars, readerVars, STypeOK, MappingInv
<1>5. CASE SyncUnlock
  BY <1>5, Zenon DEF SyncUnlock, handlerVars, syncVars, algVars, readerVars, STypeOK, MappingInv
<1>6. CASE UpdateLock
  BY <1>6, Zenon DEF UpdateLock, WriteLockAvailable, handlerVars, syncVars, algVars, readerVars, STypeOK, MappingInv
<1>7. CASE UpdateSwap
  BY <1>7 DEF UpdateSwap, handlerVars, syncVars, algVars, readerVars, STypeOK, MappingInv
<1>8. CASE UpdateUnlock
  BY <1>8, Zenon DEF UpdateUnlock, handlerVars, syncVars, algVars, readerVars, STypeOK, MappingInv
<1>9. ASSUME NEW r \in Readers, Request(r) PROVE MappingInv'
  BY <1>9, Zenon DEF Request, handlerVars, syncVars, algVars, readerVars, STypeOK, MappingInv
<1>10. ASSUME NEW r \in Readers, WaitLock(r) PROVE MappingInv'
  BY <1>10, Zenon DEF WaitLock, handlerVars, syncVars, algVars, readerVars, STypeOK, MappingInv
<1>11. ASSUME NEW r \in Readers, Count(r) PROVE MappingInv'
  BY <1>11, Zenon DEF Count, handlerVars, syncVars, algVars, readerVars, STypeOK, MappingInv
<1>12. ASSUME NEW r \in Readers, WaitUnlock(r) PROVE MappingInv'
  BY <1>12, Zenon DEF WaitUnlock, handlerVars, syncVars, algVars, readerVars, STypeOK, MappingInv
<1>13. ASSUME NEW r \in Readers, SemWait(r) PROVE MappingInv'
  BY <1>13, Zenon DEF SemWait, handlerVars, syncVars, algVars, readerVars, STypeOK, MappingInv
<1>14. ASSUME NEW r \in Readers, ReadLock(r) PROVE MappingInv'
  BY <1>14, Zenon DEF ReadLock, handlerVars, syncVars, algVars, readerVars, STypeOK, MappingInv
<1>15. ASSUME NEW r \in Readers, ReadUnlock(r) PROVE MappingInv'
  BY <1>15, Zenon DEF ReadUnlock, handlerVars, syncVars, algVars, readerVars, STypeOK, MappingInv
<1>16. CASE UNCHANGED svars
  BY <1>16, Zenon DEF svars, handlerVars, syncVars, algVars, readerVars, STypeOK, MappingInv
<1> QED
  BY <1>1, <1>2, <1>3, <1>4, <1>5, <1>6, <1>7, <1>8, <1>9, <1>10, <1>11, <1>12, <1>13, <1>14, <1>15, <1>16, ZenonT(30) DEF SNext, Handler, Reader

\* Every step keeps the tokens and the waiting threads equal in number.
LEMMA TokenStep == SyncInv /\ [SNext]_svars => TokenInv'
<1> SUFFICES ASSUME SyncInv, [SNext]_svars PROVE TokenInv'
  BY Zenon
<1> USE DEF SyncInv
<1>1. CASE MapUpdate
  <2>1. Waiters' = Waiters
    BY <1>1, Zenon DEF MapUpdate, readerVars, Waiters
  <2> QED
    BY <1>1, <2>1, WaitersFinite, Zenon DEF MapUpdate, syncVars, STypeOK, TokenInv, TokensMatchWaiters
<1>2. CASE SyncLock
  <2>1. Waiters' = Waiters
    BY <1>2, Zenon DEF SyncLock, readerVars, Waiters
  <2> QED
    BY <1>2, <2>1, WaitersFinite, Zenon DEF SyncLock, syncVars, STypeOK, TokenInv, TokensMatchWaiters
<1>3. CASE SyncPost
  <2>1. Waiters' = Waiters
    BY <1>3, Zenon DEF SyncPost, readerVars, Waiters
  <2> QED
    BY <1>3, <2>1, WaitersFinite DEF SyncPost, syncVars, STypeOK, TokenInv, TokensMatchWaiters
<1>4. CASE SyncReset
  <2>1. Waiters' = Waiters
    BY <1>4, Zenon DEF SyncReset, readerVars, Waiters
  <2> QED
    BY <1>4, <2>1, WaitersFinite DEF SyncReset, syncVars, STypeOK, TokenInv, TokensMatchWaiters
<1>5. CASE SyncUnlock
  <2>1. Waiters' = Waiters
    BY <1>5, Zenon DEF SyncUnlock, readerVars, Waiters
  <2> QED
    BY <1>5, <2>1, WaitersFinite, Zenon DEF SyncUnlock, syncVars, STypeOK, TokenInv, TokensMatchWaiters
<1>6. CASE UpdateLock
  <2>1. Waiters' = Waiters
    BY <1>6, Zenon DEF UpdateLock, readerVars, Waiters
  <2> QED
    BY <1>6, <2>1, WaitersFinite, Zenon DEF UpdateLock, syncVars, STypeOK, TokenInv, TokensMatchWaiters
<1>7. CASE UpdateSwap
  <2>1. Waiters' = Waiters
    BY <1>7, Zenon DEF UpdateSwap, readerVars, Waiters
  <2> QED
    BY <1>7, <2>1, WaitersFinite, Zenon DEF UpdateSwap, syncVars, STypeOK, TokenInv, TokensMatchWaiters
<1>8. CASE UpdateUnlock
  <2>1. Waiters' = Waiters
    BY <1>8, Zenon DEF UpdateUnlock, readerVars, Waiters
  <2> QED
    BY <1>8, <2>1, WaitersFinite, Zenon DEF UpdateUnlock, syncVars, STypeOK, TokenInv, TokensMatchWaiters
<1>9. ASSUME NEW r \in Readers, Request(r) PROVE TokenInv'
  <2>1. Waiters' = Waiters
    BY <1>9, Zenon DEF Request, STypeOK, Waiters
  <2> QED
    BY <1>9, <2>1, WaitersFinite, Zenon DEF Request, handlerVars, syncVars, STypeOK, TokenInv, TokensMatchWaiters
<1>10. ASSUME NEW r \in Readers, WaitLock(r) PROVE TokenInv'
  <2>1. Waiters' = Waiters
    BY <1>10, Zenon DEF WaitLock, STypeOK, Waiters
  <2> QED
    BY <1>10, <2>1, WaitersFinite, Zenon DEF WaitLock, handlerVars, syncVars, STypeOK, TokenInv, TokensMatchWaiters
<1>11. ASSUME NEW r \in Readers, Count(r) PROVE TokenInv'
  <2>1. Cardinality(Waiters') = Cardinality(Waiters) + 1
    BY <1>11, OneMoreWaiter, Zenon DEF Count
  <2> QED
    BY <1>11, <2>1, WaitersFinite DEF Count, handlerVars, STypeOK, LockInv, Counting, TokenInv, TokensMatchWaiters
<1>12. ASSUME NEW r \in Readers, WaitUnlock(r) PROVE TokenInv'
  <2>1. Waiters' = Waiters
    BY <1>12, Zenon DEF WaitUnlock, STypeOK, Waiters
  <2> QED
    BY <1>12, <2>1, WaitersFinite, Zenon DEF WaitUnlock, handlerVars, syncVars, STypeOK, TokenInv, TokensMatchWaiters
<1>13. ASSUME NEW r \in Readers, SemWait(r) PROVE TokenInv'
  <2>1. Cardinality(Waiters') = Cardinality(Waiters) - 1
    BY <1>13, OneWaiterLess, Zenon DEF SemWait
  <2> QED
    BY <1>13, <2>1, WaitersFinite DEF SemWait, handlerVars, STypeOK, LockInv, Counting, TokenInv, TokensMatchWaiters
<1>14. ASSUME NEW r \in Readers, ReadLock(r) PROVE TokenInv'
  <2>1. Waiters' = Waiters
    BY <1>14, Zenon DEF ReadLock, STypeOK, Waiters
  <2> QED
    BY <1>14, <2>1, WaitersFinite, Zenon DEF ReadLock, handlerVars, syncVars, STypeOK, TokenInv, TokensMatchWaiters
<1>15. ASSUME NEW r \in Readers, ReadUnlock(r) PROVE TokenInv'
  <2>1. Waiters' = Waiters
    BY <1>15, Zenon DEF ReadUnlock, STypeOK, Waiters
  <2> QED
    BY <1>15, <2>1, WaitersFinite, Zenon DEF ReadUnlock, handlerVars, syncVars, STypeOK, TokenInv, TokensMatchWaiters
<1>16. CASE UNCHANGED svars
  BY <1>16, Zenon DEF svars, handlerVars, syncVars, algVars, readerVars, TokenInv, TokensMatchWaiters, Waiters
<1> QED
  BY <1>1, <1>2, <1>3, <1>4, <1>5, <1>6, <1>7, <1>8, <1>9, <1>10, <1>11, <1>12, <1>13, <1>14, <1>15, <1>16 DEF SNext, Handler, Reader

-----------------------------------------------------------------------------
\* The inductive invariant of the synchronisation inside a monitor.
THEOREM SyncInvariant == SSpec => []SyncInv
<1>1. SyncInv /\ [SNext]_svars => SyncInv'
  BY TypeStep, LockStep, TokenStep, MappingStep, Zenon DEF SyncInv
<1> QED
  BY <1>1, SyncInvInit, PTL DEF SSpec

\* wait_for_sync and sync (stinger_mon.cpp): for any number of threads, what the
\* semaphore holds and what sync has still to post are exactly the wake-ups of the
\* threads that wait.
THEOREM TokensAlwaysMatch == SSpec => []TokensMatchWaiters
<1>1. SyncInv => TokensMatchWaiters
  BY Zenon DEF SyncInv, TokenInv
<1> QED
  BY <1>1, SyncInvariant, PTL

\* update_algs (stinger_mon.cpp): for any number of threads, what a thread uses
\* under the read lock is current and not deleted.
THEOREM ReadersAlwaysSafe == SSpec => []ReadersUseLiveMapping
<1>1. SyncInv => ReadersUseLiveMapping
  BY DEF SyncInv, STypeOK, MappingInv, ReadersUseLiveMapping
<1> QED
  BY <1>1, SyncInvariant, PTL
=============================================================================
