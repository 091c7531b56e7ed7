------------------------------ MODULE BatchQueue ------------------------------
(***************************************************************************)
(* Batches on their way from the stream connections to the process loop:   *)
(* handle_stream (src/server/src/batch_server.cpp), one thread for every   *)
(* connection, enqueue_batch and dequeue_batch                             *)
(* (lib/stinger_net/src/stinger_server_state.cpp) and the two ends of the  *)
(* loop in process_loop_handler (src/server/src/alg_handling.cpp).         *)
(*                                                                         *)
(* A message is received whole; "bad" is one that cannot be read or        *)
(* parsed, and that is all a connection reads after its client closed it.  *)
(* The batch object made for the i-th read of connection c is <<c, i>>.    *)
(***************************************************************************)
EXTENDS Integers, Sequences, FiniteSets

CONSTANTS Conns,       \* the connections
          MaxBatches,  \* STINGER_MAX_BATCHES
          Streams      \* the messages each connection may have been sent

Messages == [kind : {"data", "empty", "bad"}, keep : BOOLEAN]

ASSUME QueueAssumption ==
  /\ IsFiniteSet(Conns)
  /\ MaxBatches \in Nat \ {0}
  /\ Streams \subseteq [Conns -> Seq(Messages)]

VARIABLES stream,   \* per connection: what its client sends
          reads,    \* per connection: the number of reads so far
          nfail,    \* per connection: failures in a row
          cpc,      \* per connection: where its thread is
          queue,    \* batches
          dropped,  \* the batches dropped because the queue was full
          freed,    \* the batches deleted
          lpc,      \* where the process loop is
          taken     \* the batches it has dequeued, in order

connVars == <<stream, reads, nfail, cpc>>
loopVars == <<lpc, taken>>
qvars == <<connVars, queue, dropped, freed, loopVars>>

QInit ==
  /\ stream \in Streams
  /\ reads = [c \in Conns |-> 0]
  /\ nfail = [c \in Conns |-> 0]
  /\ cpc = [c \in Conns |-> "recv"]
  /\ queue = << >>
  /\ dropped = {}
  /\ freed = {}
  /\ lpc = "dequeue"
  /\ taken = << >>

Bad == [kind |-> "bad", keep |-> FALSE]
Message(c, i) == IF i <= Len(stream[c]) THEN stream[c][i] ELSE Bad
Batch(c) == <<c, reads[c]>>

CGoto(c, label) == cpc' = [cpc EXCEPT ![c] = label]

\* delete batch; the program may survive a second deletion, and goes on.
Delete(id) == freed' = freed \cup {id}

\* new StingerBatch, recv_message succeeds; an empty batch only says whether the
\* connection stays.
Receive(c) ==
  LET m == Message(c, reads[c] + 1) IN
  /\ cpc[c] = "recv"
  /\ m.kind # "bad"
  /\ reads' = [reads EXCEPT ![c] = @ + 1]
  /\ nfail' = [nfail EXCEPT ![c] = 0]
  /\ \/ m.kind = "data" /\ CGoto(c, "bound") /\ UNCHANGED freed
     \/ /\ m.kind = "empty"
        /\ CGoto(c, IF m.keep THEN "recv" ELSE "closed")
        /\ Delete(<<c, reads[c] + 1>>)
  /\ UNCHANGED <<stream, queue, dropped, loopVars>>

\* Mutant: failures are not counted.
ReceiveFailsUncounted(c) ==
  /\ cpc[c] = "recv"
  /\ Message(c, reads[c] + 1).kind = "bad"
  /\ reads' = [reads EXCEPT ![c] = IF @ < Len(stream[c]) THEN @ + 1 ELSE @]
  /\ UNCHANGED <<stream, nfail, cpc, queue, dropped, freed, loopVars>>

\* It fails: the third failure in a row ends the connection, and only then is
\* the batch object deleted.
ReceiveFails(c) ==
  /\ cpc[c] = "recv"
  /\ Message(c, reads[c] + 1).kind = "bad"
  /\ reads' = [reads EXCEPT ![c] = @ + 1]
  /\ nfail' = [nfail EXCEPT ![c] = @ + 1]
  /\ IF nfail[c] + 1 > 2
     THEN CGoto(c, "closed") /\ Delete(<<c, reads[c] + 1>>)
     ELSE UNCHANGED <<cpc, freed>>
  /\ UNCHANGED <<stream, queue, dropped, loopVars>>

\* Mutant: the bound is not tested against the queue but against what was taken.
QueueFullByTaken == Len(queue) - Len(taken) >= MaxBatches

QueueFull == Len(queue) >= MaxBatches

\* get_queue_size () >= STINGER_MAX_BATCHES, without the lock
TestBound(c) ==
  /\ cpc[c] = "bound"
  /\ \/ /\ QueueFull
        /\ dropped' = dropped \cup {Batch(c)}
        /\ Delete(Batch(c))
        /\ CGoto(c, "recv")
     \/ ~QueueFull /\ CGoto(c, "enqueue") /\ UNCHANGED <<dropped, freed>>
  /\ UNCHANGED <<stream, reads, nfail, queue, loopVars>>

\* Mutant: a batch goes to the head of the queue.
PushFront(id) == queue' = <<id>> \o queue

Push(id) == queue' = Append(queue, id)

\* enqueue_batch, under batch_lock
EnqueueBatch(c) ==
  /\ cpc[c] = "enqueue"
  /\ Push(Batch(c))
  /\ CGoto(c, "keep_alive")
  /\ UNCHANGED <<stream, reads, nfail, dropped, freed, loopVars>>

\* Mutant: the connection deletes its batch in any case.
DeleteAnyway(c) ==
  /\ cpc[c] = "keep_alive"
  /\ Delete(Batch(c))
  /\ CGoto(c, IF Message(c, reads[c]).keep THEN "recv" ELSE "closed")
  /\ UNCHANGED <<stream, reads, nfail, queue, dropped, loopVars>>

\* if (!batch->keep_alive ()) delete batch: the batch belongs to the queue by
\* now.  If the process loop has deleted it already the value read is arbitrary.
KeepAlive(c) ==
  LET id == Batch(c) IN
  /\ cpc[c] = "keep_alive"
  /\ \E keep \in IF id \in freed THEN BOOLEAN ELSE {Message(c, reads[c]).keep} :
       IF keep
       THEN CGoto(c, "recv") /\ UNCHANGED freed
       ELSE CGoto(c, "closed") /\ Delete(id)
  /\ UNCHANGED <<stream, reads, nfail, queue, dropped, loopVars>>

\* dequeue_batch, under batch_lock; it polls while the queue is empty.
DequeueBatch ==
  /\ lpc = "dequeue"
  /\ queue # << >>
  /\ taken' = Append(taken, Head(queue))
  /\ queue' = Tail(queue)
  /\ lpc' = "process"
  /\ UNCHANGED <<connVars, dropped, freed>>

Current == taken[Len(taken)]

\* process_batch and the algorithms use the batch.
Process ==
  /\ lpc = "process"
  /\ lpc' = "delete"
  /\ UNCHANGED <<connVars, queue, dropped, freed, taken>>

DeleteBatch ==
  /\ lpc = "delete"
  /\ Delete(Current)
  /\ lpc' = "dequeue"
  /\ UNCHANGED <<connVars, queue, dropped, taken>>

Loop == DequeueBatch \/ Process \/ DeleteBatch
HandleStream(c) ==
  Receive(c) \/ ReceiveFails(c) \/ TestBound(c) \/ EnqueueBatch(c) \/ KeepAlive(c)

\* Nothing more arrives and the loop polls an empty queue.
Drained ==
  /\ \A c \in Conns : cpc[c] = "closed"
  /\ queue = << >>
  /\ lpc = "dequeue"

QDone == Drained /\ UNCHANGED qvars

QNext == (\E c \in Conns : HandleStream(c)) \/ Loop \/ QDone

QSpec == QInit /\ [][QNext]_qvars

\* The threads of the connections and of the loop keep running; a read of a
\* closed socket returns at once.
QFairSpec == QSpec /\ WF_qvars(Loop) /\ \A c \in Conns : WF_qvars(HandleStream(c))

-----------------------------------------------------------------------------

QTypeOK ==
  /\ stream \in [Conns -> Seq(Messages)]
  /\ reads \in [Conns -> Nat]
  /\ nfail \in [Conns -> 0 .. 3]
  /\ cpc \in [Conns -> {"recv", "bound", "enqueue", "keep_alive", "closed"}]
  /\ queue \in Seq(Conns \X Nat)
  /\ taken \in Seq(Conns \X Nat)
  /\ lpc \in {"dequeue", "process", "delete"}
  /\ lpc # "dequeue" => taken # << >>

\* STINGER_MAX_BATCHES is tested before the lock is taken, so the queue may
\* exceed it, but never by more than one batch for every other connection.
QueueBound == Len(queue) <= MaxBatches - 1 + Cardinality(Conns)

\* What has gone through enqueue_batch, in order; and what has been dropped too.
Enqueued == taken \o queue
Handled == {Enqueued[i] : i \in DOMAIN Enqueued} \cup dropped

\* The data messages connection c has read and decided about.
Decided(c) ==
  {i \in 1 .. reads[c] : /\ Message(c, i).kind = "data"
                         /\ i = reads[c] => cpc[c] \notin {"bound", "enqueue"}}

\* A batch is dropped or goes through the queue, never both, never twice and
\* never neither; the batches of one connection are processed in the order in
\* which its client sent them.
NothingLostInOrder ==
  /\ \A i, j \in DOMAIN Enqueued :
       i < j /\ Enqueued[i][1] = Enqueued[j][1] => Enqueued[i][2] < Enqueued[j][2]
  /\ \A i \in DOMAIN Enqueued : Enqueued[i] \notin dropped
  /\ \A id \in Handled : id[2] \in Decided(id[1])
  /\ \A c \in Conns : \A i \in Decided(c) : <<c, i>> \in Handled

\* A connection that keeps its promise to stay (keep_alive) has deleted no batch
\* that is in the queue or in the hands of the loop.
KeptBatchesAlive ==
  LET owned == {queue[i] : i \in DOMAIN queue} \cup
                 (IF lpc = "dequeue" THEN {} ELSE {Current})
  IN \A id \in owned : Message(id[1], id[2]).keep => id \notin freed

\* Whatever the connections do, the loop ends up polling an empty queue after
\* all of them have ended: every batch that was not dropped has been processed.
EveryBatchReachesTheLoop == <>Drained
=============================================================================
