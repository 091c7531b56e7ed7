------------------------------ MODULE AlgServer ------------------------------
(***************************************************************************)
(* Algorithms and the process loop: registration (handle_alg) and the      *)
(* stages of process_loop_handler (src/server/src/alg_handling.cpp), the   *)
(* registry (lib/stinger_net/src/stinger_server_state.cpp) and the client  *)
(* library (lib/stinger_net/src/stinger_alg.cpp) as the algorithms under   *)
(* src/clients/algorithms use it.                                          *)
(*                                                                         *)
(* A client process c has one socket and, once registered, one record,     *)
(* also named c.  A client that stops, for whatever reason, closes its     *)
(* socket; what it sent before can still be read.  The waits of the loop   *)
(* never time out: the lines that would advance the counters are           *)
(* commented out, so the branches after them are dead.                     *)
(***************************************************************************)
EXTENDS Integers, Sequences

CONSTANTS Clients,    \* client processes
          Names,      \* names of algorithms
          NameOf,     \* [Clients -> Names]: the name it registers under
          Deps,       \* [Clients -> Seq(Names)]: params.dependencies
          Casts,      \* the casts: see the variable
          Null

\* The requests of one round, and the record's state before and after each.
Requests == {"BEGIN_INIT", "END_INIT", "BEGIN_PREPROCESS", "END_PREPROCESS",
             "BEGIN_POSTPROCESS", "END_POSTPROCESS"}
Begins == {"BEGIN_INIT", "BEGIN_PREPROCESS", "BEGIN_POSTPROCESS"}
EndOf(r) ==
  CASE r = "BEGIN_INIT" -> "END_INIT"
    [] r = "BEGIN_PREPROCESS" -> "END_PREPROCESS"
    [] r = "BEGIN_POSTPROCESS" -> "END_POSTPROCESS"

Before(r) ==
  CASE r = "BEGIN_INIT" -> "READY_INIT"
    [] r = "END_INIT" -> "PERFORMING_INIT"
    [] r = "BEGIN_PREPROCESS" -> "READY_PRE"
    [] r = "END_PREPROCESS" -> "PERFORMING_PRE"
    [] r = "BEGIN_POSTPROCESS" -> "READY_POST"
    [] r = "END_POSTPROCESS" -> "PERFORMING_POST"

\* Mutant: the loop does not wait for the end of preprocessing.
AfterNoWait(r) ==
  CASE r = "BEGIN_INIT" -> "PERFORMING_INIT"
    [] r = "BEGIN_POSTPROCESS" -> "PERFORMING_POST"
    [] r \in {"BEGIN_PREPROCESS", "END_PREPROCESS"} -> "READY_POST"
    [] r \in {"END_INIT", "END_POSTPROCESS"} -> "READY_PRE"

After(r) ==
  CASE r \in Begins -> Before(EndOf(r))
    [] r = "END_PREPROCESS" -> "READY_POST"
    [] r \in {"END_INIT", "END_POSTPROCESS"} -> "READY_PRE"

AlgStates == {Before(r) : r \in Requests} \cup {"ERROR"}

\* Messages to a client.
Answers == [action : Requests \cup {"REGISTER_ALG", Null}, ok : BOOLEAN, batch : Nat]

ASSUME AlgAssumption ==
  /\ NameOf \in [Clients -> Names]
  /\ Deps \in [Clients -> Seq(Names)]
  /\ Casts \subseteq [present : SUBSET Clients, restarting : SUBSET Clients,
                      crashing : SUBSET Clients, batches : Nat]
  /\ Null \notin Clients \cup Requests \cup AlgStates
  /\ Null \notin Answers

VARIABLES cast,     \* the clients that register, those of them whose program goes
                    \* back to init on failure, those that may die, and the
                    \* number of batches that arrive
          cpc,      \* per client: "new", "wait", "compute" or "gone"
          call,     \* per client: the request it makes or has made
          enabled,  \* alg->enabled
          log,      \* per client: the stages it was let into, with batch and graph
          up, down, \* per socket: the message on its way to the server, to the client
          hpc,      \* per client: where its new_connection_handler thread is
          dep,      \* per handler: the number of dependencies resolved
          resolved, \* per handler: the records they were (history)
          level,    \* per record: level
          state,    \* per record: state
          freed,    \* the records deleted
          tree,     \* alg_tree: the storage of its vectors and their sizes
          levels,   \* alg_tree.size ()
          map,      \* alg_map
          moved,    \* the walks of the loop have been upset (history): see Upsets
          lpc, stage, lev, idx, stopLev, stopIdx, cur,  \* the process loop
          batch,    \* the number of batches dequeued
          graph     \* the number of batches applied

clientVars == <<cpc, call, enabled, log>>
handlerVars == <<hpc, dep, resolved, level>>
registryVars == <<freed, tree, levels, map, moved>>
counters == <<lev, idx, stopLev, stopIdx>>
loopVars == <<lpc, stage, counters, cur, batch, graph>>
avars == <<cast, clientVars, up, down, handlerVars, state, registryVars, loopVars>>

AInit ==
  /\ cast \in Casts
  /\ cpc = [c \in Clients |-> "new"]
  /\ call = [c \in Clients |-> "REGISTER_ALG"]
  /\ enabled = [c \in Clients |-> FALSE]
  /\ log = [c \in Clients |-> << >>]
  /\ up = [c \in Clients |-> Null]
  /\ down = [c \in Clients |-> Null]
  /\ hpc = [c \in Clients |-> "none"]
  /\ dep = [c \in Clients |-> 0]
  /\ resolved = [c \in Clients |-> {}]
  /\ level = [c \in Clients |-> 0]
  /\ state = [c \in Clients |-> Null]
  /\ freed = {}
  /\ tree = << >>
  /\ levels = 0
  /\ map = [n \in Names |-> Null]
  /\ moved = FALSE
  /\ lpc = "dequeue" /\ stage = "BEGIN_INIT" /\ cur = Null
  /\ lev = 0 /\ idx = 0 /\ stopLev = 0 /\ stopIdx = 0
  /\ batch = 0
  /\ graph = 0

-----------------------------------------------------------------------------
(***************************************************************************)
(* The clients.                                                            *)
(***************************************************************************)
Alive(c) == cpc[c] # "gone"

\* send_message, then recv_message
Send(c, request) ==
  /\ up' = [up EXCEPT ![c] = request]
  /\ call' = [call EXCEPT ![c] = request]
  /\ cpc' = [cpc EXCEPT ![c] = "wait"]

Exit(c) ==
  /\ cpc' = [cpc EXCEPT ![c] = "gone"]
  /\ UNCHANGED <<call, up>>

\* stinger_register_alg_impl connects; the server starts a thread for it.
Register(c) ==
  /\ c \in cast.present
  /\ cpc[c] = "new"
  /\ cpc' = [cpc EXCEPT ![c] = "wait"]
  /\ hpc' = [hpc EXCEPT ![c] = "has_alg"]
  /\ UNCHANGED <<call, enabled, log, up, down, dep, resolved, level, state, registryVars, loopVars>>

\* What a program does after a call that does not let it compute: the loop of
\* the algorithms, and one that leaves out init until it is refused.
NextRequest(c, ok, on) ==
  CASE call[c] = "REGISTER_ALG" /\ ~ok -> "exit"
    [] call[c] = "REGISTER_ALG" /\ ok ->
         IF c \in cast.restarting THEN "BEGIN_PREPROCESS" ELSE "BEGIN_INIT"
    [] call[c] # "REGISTER_ALG" /\ ~ok /\ c \in cast.restarting -> "BEGIN_INIT"
    [] call[c] \in {"BEGIN_PREPROCESS", "END_PREPROCESS"} /\ (ok \/ c \notin cast.restarting) ->
         "BEGIN_POSTPROCESS"
    [] OTHER -> IF on THEN "BEGIN_PREPROCESS" ELSE "exit"

\* The stage a client is let into, with the batch it is told and the graph it sees.
Entry(c) == [request |-> call[c], batch |-> down[c].batch, graph |-> graph]

\* The answer arrives.  A refused request disables the algorithm, but the
\* programs look at the result of begin_pre and begin_post only.
Answered(c) ==
  LET a == down[c]
      ok == a.ok /\ a.action = call[c]
      on == IF call[c] = "REGISTER_ALG" THEN ok ELSE enabled[c] /\ ok
      computes == \/ call[c] \in Begins /\ ok
                  \/ call[c] = "BEGIN_INIT" /\ c \notin cast.restarting
      request == NextRequest(c, ok, on \/ c \in cast.restarting)
  IN
  /\ cpc[c] = "wait"
  /\ a # Null
  /\ down' = [down EXCEPT ![c] = Null]
  /\ enabled' = [enabled EXCEPT ![c] = on]
  /\ \/ /\ computes
        /\ cpc' = [cpc EXCEPT ![c] = "compute"]
        /\ log' = [log EXCEPT ![c] = Append(@, Entry(c))]
        /\ UNCHANGED <<call, up>>
     \/ ~computes /\ request # "exit" /\ Send(c, request) /\ UNCHANGED log
     \/ ~computes /\ request = "exit" /\ Exit(c) /\ UNCHANGED log
  /\ UNCHANGED <<handlerVars, state, registryVars, loopVars>>

\* Mutant: the client does not wait for the answer.
ComputedNoWait(c) ==
  /\ cpc[c] = "compute"
  /\ call[c] \in Begins
  /\ up' = [up EXCEPT ![c] = EndOf(call[c])]
  /\ call' = [call EXCEPT ![c] = EndOf(call[c])]
  /\ UNCHANGED <<cpc, enabled, log, down, handlerVars, state, registryVars, loopVars>>

\* The computation is over: end_init, end_pre or end_post.
Computed(c) ==
  /\ cpc[c] = "compute"
  /\ Send(c, EndOf(call[c]))
  /\ UNCHANGED <<enabled, log, down, handlerVars, state, registryVars, loopVars>>

\* The process dies; the kernel closes its socket.
Crash(c) ==
  /\ c \in cast.crashing
  /\ UNCHANGED cast
  /\ cpc[c] \in {"wait", "compute"}
  /\ Exit(c)
  /\ UNCHANGED <<enabled, log, down, handlerVars, state, registryVars, loopVars>>

Client(c) == UNCHANGED cast /\ (Register(c) \/ Answered(c) \/ Computed(c))

-----------------------------------------------------------------------------
(***************************************************************************)
(* Registration.  Every call on the registry is one critical section of    *)
(* alg_lock.                                                               *)
(***************************************************************************)
\* Mutant: the answer carries the batch of the round before.
ReplyOldBatch(c, action, ok) ==
  down' = [down EXCEPT ![c] = [action |-> action, ok |-> ok, batch |-> batch - 1]]

Reply(c, action, ok) ==
  down' = [down EXCEPT ![c] = [action |-> action, ok |-> ok, batch |-> batch]]

HGoto(c, label) == hpc' = [hpc EXCEPT ![c] = label]

\* A dereferenced null pointer ends the server.
ServerDies == lpc' = "dead" /\ UNCHANGED <<stage, counters, cur, batch, graph>>

\* has_alg (name)
HasAlg(c) ==
  /\ hpc[c] = "has_alg"
  /\ HGoto(c, IF map[NameOf[c]] = Null THEN "resolve" ELSE "state")
  /\ UNCHANGED <<clientVars, up, down, dep, resolved, level, state, registryVars, loopVars>>

\* get_alg (name)->state < ALG_STATE_DONE: of the states in use only ERROR is not.
TestState(c) ==
  LET r == map[NameOf[c]] IN
  /\ hpc[c] = "state"
  /\ IF r = Null
     THEN HGoto(c, "none") /\ ServerDies /\ UNCHANGED down
     ELSE /\ UNCHANGED loopVars
          /\ \/ state[r] = "ERROR" /\ HGoto(c, "delete") /\ UNCHANGED down
             \/ state[r] # "ERROR" /\ HGoto(c, "none") /\ Reply(c, "REGISTER_ALG", FALSE)
  /\ UNCHANGED <<clientVars, up, dep, resolved, level, state, registryVars>>

\* The storage of a vector after erase: the rest moves down by one.
Erase(v, j) ==
  [mem |-> [i \in DOMAIN v.mem |-> IF i >= j /\ i < v.size THEN v.mem[i + 1] ELSE v.mem[i]],
   size |-> v.size - 1]

\* The inner loop of delete_alg: the vector after the step at each j.  It steps
\* over the element that takes the place of an erased one.
EraseName(v, n) ==
  LET after[j \in 0 .. v.size] ==
        IF j = 0 THEN v
        ELSE IF j <= after[j - 1].size /\ NameOf[after[j - 1].mem[j]] = n
        THEN Erase(after[j - 1], j) ELSE after[j - 1]
  IN after[v.size]

\* delete_alg (name) first asks has_alg ...
DeleteAlg(c) ==
  /\ hpc[c] = "delete"
  /\ HGoto(c, IF map[NameOf[c]] = Null THEN "resolve" ELSE "erase")
  /\ UNCHANGED <<clientVars, up, down, dep, resolved, level, state, registryVars, loopVars>>

InTree(r) == \E l \in 1 .. levels : \E i \in 1 .. tree[l].size : tree[l].mem[i] = r

\* The erasure of a name moves records that the loop is counting, or takes records
\* other than the one found under the name.
Upsets(n) ==
  \/ lpc \in {"get_alg", "serve", "refuse"}
  \/ \E r \in Clients : InTree(r) /\ NameOf[r] = n /\ r # map[n]

\* Mutant: delete_alg forgets the map.
EraseKeepsMap(c) ==
  LET n == NameOf[c] IN
  /\ hpc[c] = "erase"
  /\ tree' = [l \in DOMAIN tree |-> IF l <= levels THEN EraseName(tree[l], n) ELSE tree[l]]
  /\ freed' = freed \cup ({map[n]} \ {Null})
  /\ moved' = (moved \/ Upsets(n))
  /\ HGoto(c, "resolve")
  /\ UNCHANGED <<clientVars, up, down, dep, resolved, level, state, levels, map, loopVars>>

\* ... and erases the name in another critical section.
EraseAlg(c) ==
  LET n == NameOf[c] IN
  /\ hpc[c] = "erase"
  /\ tree' = [l \in DOMAIN tree |-> IF l <= levels THEN EraseName(tree[l], n) ELSE tree[l]]
  /\ freed' = freed \cup ({map[n]} \ {Null})
  /\ map' = [map EXCEPT ![n] = Null]
  /\ moved' = (moved \/ Upsets(n))
  /\ HGoto(c, "resolve")
  /\ UNCHANGED <<clientVars, up, down, dep, resolved, level, state, levels, loopVars>>

\* The next dependency exists (has_alg); a missing one ends the registration
\* without an answer.
Resolve(c) ==
  /\ hpc[c] = "resolve"
  /\ HGoto(c, IF dep[c] = Len(Deps[c]) THEN "add"
              ELSE IF map[Deps[c][dep[c] + 1]] = Null THEN "none" ELSE "level")
  /\ UNCHANGED <<clientVars, up, down, dep, resolved, level, state, registryVars, loopVars>>

\* Mutant: an algorithm joins the level of its dependency.
SameLevel(c) ==
  LET r == map[Deps[c][dep[c] + 1]] IN
  /\ hpc[c] = "level"
  /\ HGoto(c, "resolve")
  /\ level' = [level EXCEPT ![c] = IF level[r] >= @ THEN level[r] ELSE @]
  /\ dep' = [dep EXCEPT ![c] = @ + 1]
  /\ resolved' = [resolved EXCEPT ![c] = @ \cup {r}]
  /\ UNCHANGED <<clientVars, up, down, state, registryVars, loopVars>>

\* get_alg (req_dep_name)->level
DepLevel(c) ==
  LET r == map[Deps[c][dep[c] + 1]] IN
  /\ hpc[c] = "level"
  /\ IF r = Null
     THEN HGoto(c, "none") /\ ServerDies /\ UNCHANGED <<dep, resolved, level>>
     ELSE /\ HGoto(c, "resolve")
          /\ level' = [level EXCEPT ![c] = IF level[r] >= @ THEN level[r] + 1 ELSE @]
          /\ dep' = [dep EXCEPT ![c] = @ + 1]
          /\ resolved' = [resolved EXCEPT ![c] = @ \cup {r}]
          /\ UNCHANGED loopVars
  /\ UNCHANGED <<clientVars, up, down, state, registryVars>>

PushBack(v, r) ==
  [mem |-> IF v.size < Len(v.mem) THEN [v.mem EXCEPT ![v.size + 1] = r] ELSE Append(v.mem, r),
   size |-> v.size + 1]

\* add_alg: alg_tree.resize (level + 1) makes the missing levels and drops the
\* higher ones, whose storage stays as it was.
AddAlg(c) ==
  LET l == level[c] + 1
      resized == [i \in 1 .. IF l > Len(tree) THEN l ELSE Len(tree) |->
                    IF i > levels /\ i <= l THEN [mem |-> << >>, size |-> 0] ELSE tree[i]]
  IN
  /\ hpc[c] = "add"
  /\ tree' = [resized EXCEPT ![l] = PushBack(@, c)]
  /\ levels' = l
  /\ moved' = (moved \/ l < levels)
  /\ map' = [map EXCEPT ![NameOf[c]] = c]
  /\ state' = [state EXCEPT ![c] = "READY_INIT"]
  /\ HGoto(c, "reply")
  /\ UNCHANGED <<clientVars, up, down, dep, resolved, level, freed, loopVars>>

SendRegistered(c) ==
  /\ hpc[c] = "reply"
  /\ Reply(c, "REGISTER_ALG", TRUE)
  /\ HGoto(c, "none")
  /\ UNCHANGED <<clientVars, up, dep, resolved, level, state, registryVars, loopVars>>

HandleAlg(c) ==
  /\ lpc # "dead"
  /\ UNCHANGED cast
  /\ \/ HasAlg(c) \/ TestState(c) \/ DeleteAlg(c) \/ EraseAlg(c)
     \/ Resolve(c) \/ DepLevel(c) \/ AddAlg(c) \/ SendRegistered(c)

-----------------------------------------------------------------------------
(***************************************************************************)
(* The process loop.                                                       *)
(***************************************************************************)
LGoto(label) == lpc' = label

\* dequeue_batch
Dequeue ==
  /\ lpc = "dequeue"
  /\ batch < cast.batches
  /\ batch' = batch + 1
  /\ stage' = "BEGIN_INIT"
  /\ LGoto("get_num_levels")
  /\ UNCHANGED <<clientVars, up, down, handlerVars, state, registryVars, counters, cur, graph>>

GetNumLevels ==
  /\ lpc = "get_num_levels"
  /\ stopLev' = levels
  /\ lev' = 1
  /\ LGoto("get_num_algs")
  /\ UNCHANGED <<clientVars, up, down, handlerVars, state, registryVars, stage, idx, stopIdx, cur,
                 batch, graph>>

\* After the last level of a section: the next section.
SectionDone ==
  /\ lpc = "get_num_algs"
  /\ lev > stopLev
  /\ \/ stage = "BEGIN_INIT" /\ LGoto("get_num_levels") /\ stage' = "BEGIN_PREPROCESS"
     \/ stage = "BEGIN_PREPROCESS" /\ LGoto("process_batch") /\ UNCHANGED stage
     \/ stage = "BEGIN_POSTPROCESS" /\ LGoto("dequeue") /\ UNCHANGED stage
  /\ UNCHANGED <<clientVars, up, down, handlerVars, state, registryVars, counters, cur, batch, graph>>

GetNumAlgs ==
  /\ lpc = "get_num_algs"
  /\ lev <= stopLev
  /\ stopIdx' = tree[lev].size
  /\ idx' = 1
  /\ LGoto("get_alg")
  /\ UNCHANGED <<clientVars, up, down, handlerVars, state, registryVars, stage, lev, stopLev, cur,
                 batch, graph>>

GetAlg ==
  /\ lpc = "get_alg"
  /\ idx <= stopIdx
  /\ cur' = tree[lev].mem[idx]
  /\ LGoto("serve")
  /\ UNCHANGED <<clientVars, up, down, handlerVars, state, registryVars, stage, counters, batch, graph>>

\* After the last algorithm of a level: the end of the stage is awaited from
\* each, then comes the next level.  The number of algorithms is not read again.
SweepDone ==
  /\ lpc = "get_alg"
  /\ idx > stopIdx
  /\ \/ /\ stage \in {"BEGIN_PREPROCESS", "BEGIN_POSTPROCESS"}
        /\ stage' = EndOf(stage)
        /\ idx' = 1
        /\ UNCHANGED <<lpc, lev>>
     \/ /\ stage \in {"BEGIN_INIT", "END_PREPROCESS", "END_POSTPROCESS"}
        /\ stage' = CASE stage = "BEGIN_INIT" -> "BEGIN_INIT"
                      [] stage = "END_PREPROCESS" -> "BEGIN_PREPROCESS"
                      [] stage = "END_POSTPROCESS" -> "BEGIN_POSTPROCESS"
        /\ lev' = lev + 1
        /\ LGoto("get_num_algs")
        /\ UNCHANGED idx
  /\ UNCHANGED <<clientVars, up, down, handlerVars, state, registryVars, stopLev, stopIdx, cur,
                 batch, graph>>

\* Mutant: a closed socket is not seen as readable.
CanBeReadOpen(c) == up[c] # Null

\* can_be_read: a message has arrived or the peer has closed the socket.
CanBeRead(c) == up[c] # Null \/ ~Alive(c)

\* recv_message takes the message, if there is one.
Take(c) == up' = [up EXCEPT ![c] = Null]

NextAlg ==
  /\ idx' = idx + 1
  /\ cur' = Null
  /\ LGoto("get_alg")
  /\ stage' = IF stage = "END_INIT" THEN "BEGIN_INIT" ELSE stage
  /\ UNCHANGED <<lev, stopLev, stopIdx, batch, graph>>

\* An algorithm in the error state that has sent something: it is discarded and
\* init is awaited.
Eat ==
  /\ lpc = "serve"
  /\ stage = "BEGIN_INIT"
  /\ state[cur] = "ERROR"
  /\ up[cur] # Null
  /\ Take(cur)
  /\ state' = [state EXCEPT ![cur] = "READY_INIT"]
  /\ UNCHANGED <<clientVars, down, handlerVars, registryVars, loopVars>>

\* The algorithm takes no part in this stage.
Skip ==
  /\ lpc = "serve"
  /\ state[cur] # Before(stage)
  /\ ~(stage = "BEGIN_INIT" /\ state[cur] = "ERROR" /\ up[cur] # Null)
  /\ NextAlg
  /\ UNCHANGED <<clientVars, up, down, handlerVars, state, registryVars>>

\* Mutant: the end of a stage is not answered.
GrantSilently ==
  /\ lpc = "serve"
  /\ state[cur] = Before(stage)
  /\ up[cur] = stage
  /\ Take(cur)
  /\ IF stage \in Begins THEN Reply(cur, stage, TRUE) ELSE UNCHANGED down
  /\ state' = [state EXCEPT ![cur] = After(stage)]
  /\ IF stage = "BEGIN_INIT"
     THEN stage' = "END_INIT" /\ UNCHANGED <<lpc, counters, cur, batch, graph>>
     ELSE NextAlg
  /\ UNCHANGED <<clientVars, handlerVars, registryVars>>

\* The expected request: it is granted, with the batch.
Grant ==
  /\ lpc = "serve"
  /\ state[cur] = Before(stage)
  /\ CanBeRead(cur)
  /\ up[cur] = stage
  /\ Take(cur)
  /\ Reply(cur, stage, TRUE)
  /\ state' = [state EXCEPT ![cur] = After(stage)]
  /\ IF stage = "BEGIN_INIT"
     THEN stage' = "END_INIT" /\ UNCHANGED <<lpc, counters, cur, batch, graph>>
     ELSE NextAlg
  /\ UNCHANGED <<clientVars, handlerVars, registryVars>>

\* Anything else, or the end of the stream, is an error ...
Refuse ==
  /\ lpc = "serve"
  /\ state[cur] = Before(stage)
  /\ CanBeRead(cur)
  /\ up[cur] # stage
  /\ state' = [state EXCEPT ![cur] = "ERROR"]
  /\ LGoto("refuse")
  /\ UNCHANGED <<clientVars, up, down, handlerVars, registryVars, stage, counters, cur, batch, graph>>

\* ... that is answered, except when the end of preprocessing was expected.
SendRefusal ==
  /\ lpc = "refuse"
  /\ Take(cur)
  /\ IF stage = "END_PREPROCESS" THEN UNCHANGED down ELSE Reply(cur, up[cur], FALSE)
  /\ NextAlg
  /\ UNCHANGED <<clientVars, handlerVars, state, registryVars>>

\* process_batch
ProcessBatch ==
  /\ lpc = "process_batch"
  /\ graph' = graph + 1
  /\ stage' = "BEGIN_POSTPROCESS"
  /\ LGoto("get_num_levels")
  /\ UNCHANGED <<clientVars, up, down, handlerVars, state, registryVars, counters, cur, batch>>

\* What a deleted record contains is arbitrary: its old contents still, which the
\* other actions read, or something that ends the server.
UseDeleted ==
  /\ lpc \in {"serve", "refuse"}
  /\ cur \in freed
  /\ ServerDies
  /\ UNCHANGED <<clientVars, up, down, handlerVars, state, registryVars>>

\* usleep while the algorithm is silent, or while there is no batch
Poll ==
  /\ \/ lpc = "serve" /\ state[cur] = Before(stage) /\ ~CanBeRead(cur)
     \/ lpc = "dequeue" /\ batch = cast.batches
  /\ UNCHANGED avars

ProcessLoop ==
  /\ UNCHANGED cast
  /\ \/ Dequeue \/ GetNumLevels \/ SectionDone \/ GetNumAlgs \/ GetAlg \/ SweepDone
     \/ Eat \/ Skip \/ Grant \/ Refuse \/ SendRefusal \/ UseDeleted \/ ProcessBatch

ANext ==
  \/ \E c \in Clients : Client(c) \/ Crash(c) \/ HandleAlg(c)
  \/ ProcessLoop
  \/ Poll

ASpec == AInit /\ [][ANext]_avars

\* The server's threads keep running, and the clients unless they die.  While the
\* thread of a connection is at work its client waits.
AFairSpec ==
  ASpec /\ WF_avars(ProcessLoop) /\ \A c \in Clients : WF_avars(HandleAlg(c) \/ Client(c))

-----------------------------------------------------------------------------

Computing(c) == cpc[c] = "compute"

\* "the STINGER structure is guaranteed to be static" (stinger_alg.h) while an
\* algorithm is between begin and end: process_batch does not run, the graph is
\* the one the algorithm was let in with; preprocessing sees the graph without
\* the batch it is shown, postprocessing the graph with it and with no other.
StaticWhileComputing ==
  ~moved => \A c \in Clients : Computing(c) =>
    LET e == log[c][Len(log[c])] IN
    /\ lpc # "process_batch"
    /\ graph = e.graph
    /\ e.request = "BEGIN_PREPROCESS" => e.graph = e.batch - 1
    /\ e.request = "BEGIN_POSTPROCESS" => e.graph = e.batch

\* f is the stage that comes after e.
Follows(f, e) ==
  \/ e.request = "BEGIN_INIT" /\ f.request = "BEGIN_PREPROCESS" /\ f.batch = e.graph + 1
  \/ e.request = "BEGIN_PREPROCESS" /\ f.request = "BEGIN_POSTPROCESS" /\ f.batch = e.batch
  \/ e.request = "BEGIN_POSTPROCESS" /\ f.request = "BEGIN_PREPROCESS" /\ f.batch = e.batch + 1

\* From init on an algorithm is shown every batch, before and after it is
\* applied, in order: none is missed or shown twice.
EveryBatchShownInOrder ==
  ~moved => \A c \in Clients : \A i \in 1 .. Len(log[c]) - 1 : Follows(log[c][i + 1], log[c][i])

\* "The server guarantees that all of an algorithm's dependencies will finish
\* processing before that algorithm is executed" (README.md), in each of the two
\* stages, as long as the dependency is alive and did not leave out init.
DependenciesFirst ==
  ~moved => \A c \in Clients : \A d \in resolved[c] \ freed :
    /\ Computing(c) /\ call[c] # "BEGIN_INIT"
    /\ Alive(d) /\ d \notin cast.restarting
    => /\ ~Computing(d)
       /\ \E i \in DOMAIN log[d] : log[d][i].request = call[c] /\ log[d][i].batch = batch

\* "loop through each algorithm" (process_loop_handler): every algorithm that can
\* be found by its name is in the tree the loop walks.
EveryAlgInTree ==
  ~moved => \A n \in Names : map[n] # Null => InTree(map[n])

\* Every batch is applied and the loop gets back to its queue, even if clients
\* die: a closed socket counts as an answer.  It does not if the loop uses a
\* record that a new registration has deleted, or waits for the init of a client
\* whose request for it has been eaten.
EveryBatchApplied ==
  cast.restarting = {} => <>(lpc = "dead" \/ (graph = cast.batches /\ lpc = "dequeue"))

\* A client that asks to be initialised, as long as batches arrive, or reports the
\* end of a stage is answered, unless its level is dropped or the walk upset.
Awaits(c) ==
  /\ cpc[c] = "wait"
  /\ call[c] \in {"BEGIN_INIT", "END_INIT", "END_PREPROCESS", "END_POSTPROCESS"}
EveryRequestAnswered ==
  \A c \in Clients :
    (Awaits(c) /\ (call[c] = "BEGIN_INIT" => batch < cast.batches)) ~>
      (~Awaits(c) \/ lpc = "dead" \/ moved \/ cast.restarting # {})
=============================================================================
