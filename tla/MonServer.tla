------------------------------ MODULE MonServer ------------------------------
(***************************************************************************)
(* Monitors and the process loop: handle_mon and the last section of       *)
(* process_loop_handler (src/server/src/alg_handling.cpp), the monitor     *)
(* registry (lib/stinger_net/src/stinger_server_state.cpp) and the thread  *)
(* mon_handler of a monitor (lib/stinger_net/src/mon_handling.cpp).  The   *)
(* sections for the algorithms are the module AlgServer; here a round is   *)
(* process_batch and the updates of the monitors.  What the threads of a   *)
(* monitor do with an update is the module StingerMon.                     *)
(***************************************************************************)
EXTENDS Integers, Sequences

CONSTANTS Mons,      \* monitor processes; each has a socket and a record
          NameOf,    \* [Mons -> the names they register under]
          Casts,     \* the casts: see the variable
          Null

Names == {NameOf[m] : m \in Mons}
MonActions == {"BEGIN_UPDATE", "END_UPDATE"}
MonStates == {"READY_UPDATE", "PERFORMING_UPDATE", "ERROR"}
Answers == [ok : BOOLEAN, batch : Nat]

\* A cast names monitors, and Null is none of the things it is used beside.
ASSUME MonAssumption ==
  /\ Casts \subseteq [present : SUBSET Mons, crashing : SUBSET Mons, batches : Nat]
  /\ Null \notin Mons /\ Null \notin MonActions /\ Null \notin MonStates /\ Null \notin Answers

VARIABLES cast,     \* the monitors that register, those of them that may die and
                    \* the number of batches that arrive
          mpc,      \* per monitor: "new", "wait", "map" or "gone"
          call,     \* per monitor: the request it has made
          shown,    \* per monitor: the batches of its updates, in order
          up, down, \* per socket: the message to the server, to the monitor
          hpc,      \* per monitor: where its new_connection_handler thread is
          state,    \* per record: state
          freed,    \* the records deleted
          vec,      \* monitors: the storage of the vector and its size
          map,      \* monitor_map
          lpc, stage, idx, stop, cur,  \* the process loop
          moved,    \* a monitor was deleted while the loop walked the vector
          due,      \* the monitors in the vector when the section began
          batch,    \* the number of batches dequeued
          graph     \* the number of batches applied

monVars == <<mpc, call, shown>>
regVars == <<freed, vec, map, moved>>
mloopVars == <<lpc, stage, idx, stop, cur, due, batch, graph>>
mvars == <<cast, monVars, up, down, hpc, state, regVars, mloopVars>>

MInit ==
  /\ cast \in Casts
  /\ mpc = [m \in Mons |-> "new"]
  /\ call = [m \in Mons |-> "REGISTER_MON"]
  /\ shown = [m \in Mons |-> << >>]
  /\ up = [m \in Mons |-> Null]
  /\ down = [m \in Mons |-> Null]
  /\ hpc = [m \in Mons |-> "none"]
  /\ state = [m \in Mons |-> Null]
  /\ freed = {}
  /\ moved = FALSE
  /\ vec = [mem |-> << >>, size |-> 0]
  /\ map = [n \in Names |-> Null]
  /\ lpc = "dequeue" /\ stage = "BEGIN_UPDATE" /\ idx = 0 /\ stop = 0 /\ cur = Null
  /\ due = {}
  /\ batch = 0
  /\ graph = 0

-----------------------------------------------------------------------------
(* mon_handler *)

MSend(m, action) ==
  /\ up' = [up EXCEPT ![m] = action]
  /\ call' = [call EXCEPT ![m] = action]
  /\ mpc' = [mpc EXCEPT ![m] = "wait"]

Register(m) ==
  /\ m \in cast.present
  /\ mpc[m] = "new"
  /\ mpc' = [mpc EXCEPT ![m] = "wait"]
  /\ hpc' = [hpc EXCEPT ![m] = "has_mon"]
  /\ UNCHANGED <<call, shown, up, down, state, regVars, mloopVars>>

\* The answer to BEGIN_UPDATE lets the monitor map the graph; after any other
\* answer, a refusal as well, it asks for the next update.
Answered(m) ==
  /\ mpc[m] = "wait"
  /\ down[m] # Null
  /\ down' = [down EXCEPT ![m] = Null]
  /\ \/ /\ call[m] = "BEGIN_UPDATE" /\ down[m].ok
        /\ mpc' = [mpc EXCEPT ![m] = "map"]
        /\ shown' = [shown EXCEPT ![m] = Append(@, down[m].batch)]
        /\ UNCHANGED <<call, up>>
     \/ /\ call[m] # "BEGIN_UPDATE" \/ ~down[m].ok
        /\ MSend(m, "BEGIN_UPDATE")
        /\ UNCHANGED shown
  /\ UNCHANGED <<hpc, state, regVars, mloopVars>>

\* map_update and sync are over: END_UPDATE.
Mapped(m) ==
  /\ mpc[m] = "map"
  /\ MSend(m, "END_UPDATE")
  /\ UNCHANGED <<shown, down, hpc, state, regVars, mloopVars>>

Crash(m) ==
  /\ m \in cast.crashing
  /\ UNCHANGED cast
  /\ mpc[m] \in {"wait", "map"}
  /\ mpc' = [mpc EXCEPT ![m] = "gone"]
  /\ UNCHANGED <<call, shown, up, down, hpc, state, regVars, mloopVars>>

MonHandler(m) == UNCHANGED cast /\ (Register(m) \/ Answered(m) \/ Mapped(m))

-----------------------------------------------------------------------------
(* handle_mon; every call on the registry is a critical section of mon_lock.   *)
(* The answer to the registration makes the monitor map the graph as well, at  *)
(* any moment of a round: that mapping is not one of an update.                *)

MReply(m, ok) == down' = [down EXCEPT ![m] = [ok |-> ok, batch |-> batch]]

HGoto(m, label) == hpc' = [hpc EXCEPT ![m] = label]

HasMon(m) ==
  /\ hpc[m] = "has_mon"
  /\ HGoto(m, IF map[NameOf[m]] = Null THEN "add_mon" ELSE "delete_mon")
  /\ UNCHANGED <<monVars, up, down, state, regVars, mloopVars>>

\* Mutant: the entry of monitor_map stays.
DeleteMonKeepsMap(m) ==
  /\ hpc[m] = "delete_mon"
  /\ vec' = [vec EXCEPT !.size = @ - 1]
  /\ freed' = freed \cup {map[NameOf[m]]}
  /\ HGoto(m, "add_mon")
  /\ UNCHANGED <<monVars, up, down, state, map, moved, mloopVars>>

\* delete_mon: the first record with the name is erased and the rest moves down,
\* whatever the process loop is doing with it.  The storage past the end keeps its
\* contents, and get_mon reads it there.
DeleteMon(m) ==
  LET n == NameOf[m]
      found == {i \in 1 .. vec.size : NameOf[vec.mem[i]] = n}
      j == CHOOSE i \in found : \A k \in found : i <= k
  IN
  /\ hpc[m] = "delete_mon"
  /\ IF map[n] = Null
     THEN UNCHANGED regVars
     ELSE /\ vec' = IF found = {} THEN vec ELSE
                    [mem |-> [i \in DOMAIN vec.mem |->
                                IF i >= j /\ i < vec.size THEN vec.mem[i + 1] ELSE vec.mem[i]],
                     size |-> vec.size - 1]
          /\ freed' = freed \cup {map[n]}
          /\ map' = [map EXCEPT ![n] = Null]
          /\ moved' = (moved \/ lpc \in {"get_mon", "serve"})
  /\ HGoto(m, "add_mon")
  /\ UNCHANGED <<monVars, up, down, state, mloopVars>>

AddMon(m) ==
  /\ hpc[m] = "add_mon"
  /\ vec' = [mem |-> IF vec.size < Len(vec.mem) THEN [vec.mem EXCEPT ![vec.size + 1] = m]
                     ELSE Append(vec.mem, m),
             size |-> vec.size + 1]
  /\ map' = [map EXCEPT ![NameOf[m]] = m]
  /\ state' = [state EXCEPT ![m] = "READY_UPDATE"]
  /\ HGoto(m, "reply")
  /\ UNCHANGED <<monVars, up, down, freed, moved, mloopVars>>

SendRegistered(m) ==
  /\ hpc[m] = "reply"
  /\ MReply(m, TRUE)
  /\ HGoto(m, "none")
  /\ UNCHANGED <<monVars, up, state, regVars, mloopVars>>

HandleMon(m) ==
  lpc # "dead" /\ UNCHANGED cast /\ (HasMon(m) \/ DeleteMon(m) \/ AddMon(m) \/ SendRegistered(m))

-----------------------------------------------------------------------------
(* The process loop *)

Dequeue ==
  /\ lpc = "dequeue"
  /\ batch < cast.batches
  /\ batch' = batch + 1
  /\ lpc' = "process_batch"
  /\ UNCHANGED <<monVars, up, down, hpc, state, regVars, stage, idx, stop, cur, due, graph>>

ProcessBatch ==
  /\ lpc = "process_batch"
  /\ graph' = graph + 1
  /\ lpc' = "get_num_mons"
  /\ UNCHANGED <<monVars, up, down, hpc, state, regVars, stage, idx, stop, cur, due, batch>>

Records == {vec.mem[i] : i \in 1 .. vec.size}

GetNumMons ==
  /\ lpc = "get_num_mons"
  /\ stop' = vec.size
  /\ due' = Records
  /\ idx' = 1
  /\ stage' = "BEGIN_UPDATE"
  /\ lpc' = "get_mon"
  /\ UNCHANGED <<monVars, up, down, hpc, state, regVars, cur, batch, graph>>

GetMon ==
  /\ lpc = "get_mon"
  /\ idx <= stop
  /\ cur' = vec.mem[idx]
  /\ lpc' = "serve"
  /\ UNCHANGED <<monVars, up, down, hpc, state, regVars, stage, idx, stop, due, batch, graph>>

\* Mutant: the ends of the updates are not awaited.
SweepDoneEarly ==
  /\ lpc = "get_mon"
  /\ idx > stop
  /\ lpc' = "dequeue" /\ UNCHANGED <<idx, stage>>
  /\ UNCHANGED <<monVars, up, down, hpc, state, regVars, stop, cur, due, batch, graph>>

SweepDone ==
  /\ lpc = "get_mon"
  /\ idx > stop
  /\ \/ stage = "BEGIN_UPDATE" /\ stage' = "END_UPDATE" /\ idx' = 1 /\ UNCHANGED lpc
     \/ stage = "END_UPDATE" /\ lpc' = "dequeue" /\ UNCHANGED <<idx, stage>>
  /\ UNCHANGED <<monVars, up, down, hpc, state, regVars, stop, cur, due, batch, graph>>

\* The state in which a record waits for the request of the stage.
Before(s) == IF s = "BEGIN_UPDATE" THEN "READY_UPDATE" ELSE "PERFORMING_UPDATE"

\* Mutant: a closed socket is not seen as readable.
CanBeReadOpen(m) == up[m] # Null
CanBeRead(m) == up[m] # Null \/ mpc[m] = "gone"

NextMon ==
  /\ idx' = idx + 1
  /\ cur' = Null
  /\ lpc' = "get_mon"
  /\ UNCHANGED <<stage, stop, due, batch, graph>>

\* Mutant: the loop does not wait for a monitor that has not asked yet.
SkipSilent ==
  /\ lpc = "serve"
  /\ state[cur] # Before(stage) \/ ~CanBeRead(cur)
  /\ NextMon
  /\ UNCHANGED <<monVars, up, down, hpc, state, regVars>>

Skip ==
  /\ lpc = "serve"
  /\ state[cur] # Before(stage)
  /\ NextMon
  /\ UNCHANGED <<monVars, up, down, hpc, state, regVars>>

\* Mutant: a monitor keeps its state when its update begins.
AfterGrantReady(s) == "READY_UPDATE"
\* The other state, once the request is granted.
AfterGrant(s) == IF s = "BEGIN_UPDATE" THEN "PERFORMING_UPDATE" ELSE "READY_UPDATE"

Grant ==
  /\ lpc = "serve"
  /\ state[cur] = Before(stage)
  /\ CanBeRead(cur)
  /\ up[cur] = stage
  /\ up' = [up EXCEPT ![cur] = Null]
  /\ MReply(cur, TRUE)
  /\ state' = [state EXCEPT ![cur] = AfterGrant(stage)]
  /\ NextMon
  /\ UNCHANGED <<monVars, hpc, regVars>>

\* The end of the stream: the record is in error for good.  A refused BEGIN_UPDATE
\* is answered, to nobody.
Refuse ==
  /\ lpc = "serve"
  /\ state[cur] = Before(stage)
  /\ CanBeRead(cur)
  /\ up[cur] # stage
  /\ up' = [up EXCEPT ![cur] = Null]
  /\ IF stage = "BEGIN_UPDATE" THEN MReply(cur, FALSE) ELSE UNCHANGED down
  /\ state' = [state EXCEPT ![cur] = "ERROR"]
  /\ NextMon
  /\ UNCHANGED <<monVars, hpc, regVars>>

\* A deleted record holds its old contents still, or something that ends the
\* server.
UseDeleted ==
  /\ lpc = "serve"
  /\ cur \in freed
  /\ lpc' = "dead"
  /\ UNCHANGED <<monVars, up, down, hpc, state, regVars, stage, idx, stop, cur, due, batch, graph>>

Poll ==
  /\ \/ lpc = "serve" /\ state[cur] = Before(stage) /\ ~CanBeRead(cur)
     \/ lpc = "dequeue" /\ batch = cast.batches
  /\ UNCHANGED mvars

MLoop ==
  /\ UNCHANGED cast
  /\ \/ Dequeue \/ ProcessBatch \/ GetNumMons \/ GetMon \/ SweepDone
     \/ Skip \/ Grant \/ Refuse \/ UseDeleted

MNext ==
  \/ \E m \in Mons : MonHandler(m) \/ Crash(m) \/ HandleMon(m)
  \/ MLoop
  \/ Poll

MSpec == MInit /\ [][MNext]_mvars

\* All threads run, those of the monitors unless they die.  While the thread of a
\* connection is at work its monitor waits.
MFairSpec ==
  MSpec /\ WF_mvars(MLoop) /\ \A m \in Mons : WF_mvars(HandleMon(m) \/ MonHandler(m))

-----------------------------------------------------------------------------

\* A monitor maps the graph between the answer to BEGIN_UPDATE and its
\* END_UPDATE; meanwhile process_batch does not run, and the graph is the one
\* with exactly the batch of the update.  Here and in the next two properties no
\* monitor is replaced while the loop walks the vector: a deletion moves the
\* others down under the loop's index.  Between the rounds it does no harm.
MappedGraphIsStatic ==
  ~moved => \A m \in Mons : mpc[m] = "map" =>
              lpc # "process_batch" /\ graph = shown[m][Len(shown[m])]

\* "Look through each monitor and send an update message" (process_loop_handler):
\* when the round is over every live monitor that was registered when the section
\* began has been shown its batch, or has it to read.
EveryMonitorShown ==
  lpc = "dequeue" /\ ~moved =>
    \A m \in due \ freed : mpc[m] # "gone" =>
      \/ \E i \in DOMAIN shown[m] : shown[m][i] = batch
      \/ call[m] = "BEGIN_UPDATE" /\ down[m] # Null /\ down[m].batch = batch

\* From its first update on a monitor misses no batch and is shown none twice.
ShownInOrder ==
  ~moved => \A m \in Mons : \A i \in 1 .. Len(shown[m]) - 1 :
              shown[m][i + 1] = shown[m][i] + 1

\* The loop gets through every round, even if monitors die in the middle of it,
\* unless it uses a record that was deleted.
EveryRoundEnds == <>(lpc = "dead" \/ (graph = cast.batches /\ lpc = "dequeue"))

\* monitor_map and monitors agree: the record a name stands for is in the vector
\* that the loop walks, and is not deleted, however registrations interleave.
MappedMonInVector ==
  \A n \in Names : map[n] # Null => map[n] \in Records /\ map[n] \notin freed
=============================================================================
