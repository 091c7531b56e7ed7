------------------------------ MODULE StingerMon ------------------------------
(***************************************************************************)
(* Inside a monitor process: the thread mon_handler, which gets updates    *)
(* from the server and calls sync and update_algs of the StingerMon        *)
(* singleton (lib/stinger_net/src/stinger_mon.cpp), and the threads of the *)
(* application, which wait for an update with wait_for_sync and read the   *)
(* graph and the algorithms' data under the read lock (json_rpc.cpp and    *)
(* the other monitors).  update n brings mapping n; mapping 0 is the one   *)
(* of the registration.                                                    *)
(***************************************************************************)
EXTENDS Integers, FiniteSets

CONSTANTS Readers,     \* the application's threads
          MaxUpdates,  \* the number of updates the server sends
          MaxRequests  \* the number of requests each thread serves

ASSUME ReadersAssumption == IsFiniteSet(Readers)
ASSUME MaxUpdatesAssumption == MaxUpdates \in Nat
ASSUME MaxRequestsAssumption == MaxRequests \in Nat

VARIABLES hpc,       \* where mon_handler is
          new,       \* the mapping map_update has made
          posted,    \* the loop counter of sync
          wait_lock, \* TRUE when full, that is, when free
          waiting,
          sync_lock, \* the value of the semaphore
          reading,   \* the threads that hold alg_lock for reading
          writing,   \* whether mon_handler holds it for writing
          algs,      \* the mapping that stinger and algs point to
          deleted,   \* the mappings deleted
          rpc,       \* where each thread is
          tmp,       \* the value of waiting each thread has loaded
          held,      \* the mapping each thread has the address of
          requests   \* the number of requests each thread has served

syncVars == <<wait_lock, waiting, sync_lock>>
algVars == <<reading, writing, algs, deleted>>
handlerVars == <<hpc, new, posted>>
readerVars == <<rpc, tmp, held, requests>>
svars == <<handlerVars, syncVars, algVars, readerVars>>

SInit ==
  /\ hpc = "recv" /\ new = 0 /\ posted = 0
  /\ wait_lock = TRUE /\ waiting = 0 /\ sync_lock = 0
  /\ reading = {} /\ writing = FALSE
  /\ algs = 0 /\ deleted = {}
  /\ rpc = [r \in Readers |-> "idle"]
  /\ tmp = [r \in Readers |-> 0]
  /\ held = [r \in Readers |-> 0]
  /\ requests = [r \in Readers |-> 0]

-----------------------------------------------------------------------------
(* mon_handler: the answer to BEGIN_UPDATE and map_update; sync; update_algs. *)

MapUpdate ==
  /\ hpc = "recv"
  /\ new < MaxUpdates
  /\ new' = new + 1
  /\ hpc' = "sync"
  /\ UNCHANGED <<posted, syncVars, algVars, readerVars>>

SyncLock ==
  /\ hpc = "sync"
  /\ wait_lock
  /\ wait_lock' = FALSE
  /\ posted' = 0
  /\ hpc' = "post"
  /\ UNCHANGED <<new, waiting, sync_lock, algVars, readerVars>>

SyncPost ==
  /\ hpc = "post"
  /\ posted < waiting
  /\ sync_lock' = sync_lock + 1
  /\ posted' = posted + 1
  /\ UNCHANGED <<hpc, new, wait_lock, waiting, algVars, readerVars>>

SyncReset ==
  /\ hpc = "post"
  /\ posted >= waiting
  /\ waiting' = 0
  /\ posted' = 0
  /\ hpc' = "sync_unlock"
  /\ UNCHANGED <<new, wait_lock, sync_lock, algVars, readerVars>>

SyncUnlock ==
  /\ hpc = "sync_unlock"
  /\ wait_lock' = TRUE
  /\ hpc' = "update_algs"
  /\ UNCHANGED <<new, posted, waiting, sync_lock, algVars, readerVars>>

\* Mutant: the writer does not wait for the readers.
WriteLockFree == ~writing
\* pthread_rwlock_wrlock
WriteLockAvailable == ~writing /\ reading = {}

UpdateLock ==
  /\ hpc = "update_algs"
  /\ WriteLockAvailable
  /\ writing' = TRUE
  /\ hpc' = "swap"
  /\ UNCHANGED <<new, posted, syncVars, reading, algs, deleted, readerVars>>

UpdateSwap ==
  /\ hpc = "swap"
  /\ deleted' = deleted \cup {algs}
  /\ algs' = new
  /\ hpc' = "update_unlock"
  /\ UNCHANGED <<new, posted, syncVars, reading, writing, readerVars>>

UpdateUnlock ==
  /\ hpc = "update_unlock"
  /\ writing' = FALSE
  /\ hpc' = "recv"
  /\ UNCHANGED <<new, posted, syncVars, reading, algs, deleted, readerVars>>

Handler ==
  \/ MapUpdate
  \/ SyncLock \/ SyncPost \/ SyncReset \/ SyncUnlock
  \/ UpdateLock \/ UpdateSwap \/ UpdateUnlock

-----------------------------------------------------------------------------
(* A request: wait_for_sync if it says wait_for_update, then the call, under *)
(* the read lock.                                                            *)

Request(r) ==
  /\ rpc[r] = "idle"
  /\ requests[r] < MaxRequests
  /\ requests' = [requests EXCEPT ![r] = @ + 1]
  /\ \E pc \in {"wait_for_sync", "read_lock"} : rpc' = [rpc EXCEPT ![r] = pc]
  /\ UNCHANGED <<tmp, held, handlerVars, syncVars, algVars>>

\* Mutant: the count is not under the lock.
WaitLockOpen(r) ==
  /\ rpc[r] = "wait_for_sync"
  /\ tmp' = [tmp EXCEPT ![r] = waiting]
  /\ rpc' = [rpc EXCEPT ![r] = "count"]
  /\ UNCHANGED <<held, requests, handlerVars, syncVars, algVars>>

\* waiting++ loads the counter and stores it in another step.
WaitLock(r) ==
  /\ rpc[r] = "wait_for_sync"
  /\ wait_lock
  /\ wait_lock' = FALSE
  /\ tmp' = [tmp EXCEPT ![r] = waiting]
  /\ rpc' = [rpc EXCEPT ![r] = "count"]
  /\ UNCHANGED <<held, requests, handlerVars, waiting, sync_lock, algVars>>

Count(r) ==
  /\ rpc[r] = "count"
  /\ waiting' = tmp[r] + 1
  /\ rpc' = [rpc EXCEPT ![r] = "wait_unlock"]
  /\ UNCHANGED <<tmp, held, requests, handlerVars, wait_lock, sync_lock, algVars>>

\* Mutant: wait_lock is never given back.
WaitUnlockNever(r) ==
  /\ rpc[r] = "wait_unlock"
  /\ rpc' = [rpc EXCEPT ![r] = "sem_wait"]
  /\ UNCHANGED <<tmp, held, requests, handlerVars, wait_lock, waiting, sync_lock, algVars>>

WaitUnlock(r) ==
  /\ rpc[r] = "wait_unlock"
  /\ wait_lock' = TRUE
  /\ rpc' = [rpc EXCEPT ![r] = "sem_wait"]
  /\ UNCHANGED <<tmp, held, requests, handlerVars, waiting, sync_lock, algVars>>

SemWait(r) ==
  /\ rpc[r] = "sem_wait"
  /\ sync_lock > 0
  /\ sync_lock' = sync_lock - 1
  /\ rpc' = [rpc EXCEPT ![r] = "read_lock"]
  /\ UNCHANGED <<tmp, held, requests, handlerVars, wait_lock, waiting, algVars>>

\* get_alg_read_lock, and the address that the call works with.
ReadLock(r) ==
  /\ rpc[r] = "read_lock"
  /\ ~writing
  /\ reading' = reading \cup {r}
  /\ held' = [held EXCEPT ![r] = algs]
  /\ rpc' = [rpc EXCEPT ![r] = "use"]
  /\ UNCHANGED <<tmp, requests, handlerVars, syncVars, writing, algs, deleted>>

ReadUnlock(r) ==
  /\ rpc[r] = "use"
  /\ reading' = reading \ {r}
  /\ rpc' = [rpc EXCEPT ![r] = "idle"]
  /\ UNCHANGED <<tmp, held, requests, handlerVars, syncVars, writing, algs, deleted>>

Reader(r) ==
  \/ Request(r)
  \/ WaitLock(r) \/ Count(r) \/ WaitUnlock(r) \/ SemWait(r)
  \/ ReadLock(r) \/ ReadUnlock(r)

SNext == Handler \/ \E r \in Readers : Reader(r)

SSpec == SInit /\ [][SNext]_svars

\* Every thread that can step does; one that spins on wait_lock gets it in the
\* end, and so does the writer the rwlock: the requests are finitely many.
SFairSpec ==
  /\ SSpec
  /\ WF_svars(Handler)
  /\ SF_svars(SyncLock)
  /\ \A r \in Readers : WF_svars(Reader(r)) /\ SF_svars(WaitLock(r))

-----------------------------------------------------------------------------

STypeOK ==
  /\ hpc \in {"recv", "sync", "post", "sync_unlock", "update_algs", "swap", "update_unlock"}
  /\ new \in 0 .. MaxUpdates
  /\ posted \in Nat
  /\ wait_lock \in BOOLEAN
  /\ waiting \in Nat
  /\ sync_lock \in Nat
  /\ reading \subseteq Readers
  /\ writing \in BOOLEAN
  /\ algs \in 0 .. MaxUpdates
  /\ deleted \subseteq 0 .. MaxUpdates
  /\ rpc \in [Readers -> {"idle", "wait_for_sync", "count", "wait_unlock", "sem_wait",
                          "read_lock", "use"}]
  /\ tmp \in [Readers -> Nat]
  /\ held \in [Readers -> 0 .. MaxUpdates]
  /\ requests \in [Readers -> 0 .. MaxRequests]

\* The threads counted in waiting that have not passed the semaphore.
Waiters == {r \in Readers : rpc[r] \in {"wait_unlock", "sem_wait"}}

\* wait_for_sync and sync: what the semaphore holds and what sync has still to
\* post add up to the threads that wait, at every step of every thread.  So no
\* wake-up is lost or left over, although the count, the posts and the waits are
\* not one atomic step.
TokensMatchWaiters == sync_lock + (waiting - posted) = Cardinality(Waiters)

\* update_algs deletes the old mapping under the write lock only: what a thread
\* uses under the read lock is the current mapping and is not deleted.
ReadersUseLiveMapping ==
  \A r \in Readers : rpc[r] = "use" => held[r] = algs /\ held[r] \notin deleted

\* Readers and waiters hold nothing up for good: every update the server sends is
\* installed in the end.
EveryUpdateInstalled == <>(algs = MaxUpdates)
=============================================================================
