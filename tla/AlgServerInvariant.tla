------------------------- MODULE AlgServerInvariant -------------------------
(***************************************************************************)
(* The inductive invariant of AlgServer: what the records, the clients and *)
(* the walk of the process loop have to do with each other as long as no   *)
(* registration has upset a walk.                                          *)
(***************************************************************************)
EXTENDS AlgServer

At(l, i) == tree[l].mem[i]

ClientTypes ==
  /\ cpc \in [Clients -> {"new", "wait", "compute", "gone"}]
  /\ call \in [Clients -> Requests \cup {"REGISTER_ALG"}]
  /\ \A c \in Clients : cpc[c] = "compute" => call[c] \in Begins
  /\ log \in [Clients -> Seq([request : Begins, batch : Nat, graph : Nat])]
  /\ up \in [Clients -> Requests \cup {Null}]
  /\ down \in [Clients -> Answers \cup {Null}]

HandlerTypes ==
  /\ hpc \in [Clients -> {"none", "has_alg", "state", "delete", "erase", "resolve", "level",
                         "add", "reply"}]
  /\ dep \in [Clients -> Nat]
  /\ \A c \in Clients : dep[c] <= Len(Deps[c]) /\ (hpc[c] = "level" => dep[c] < Len(Deps[c]))
  /\ resolved \in [Clients -> SUBSET Clients]
  /\ level \in [Clients -> Nat]

RegistryTypes ==
  /\ state \in [Clients -> AlgStates \cup {Null}]
  /\ freed \subseteq Clients
  /\ map \in [Names -> Clients \cup {Null}]
  /\ levels \in Nat
  /\ moved \in BOOLEAN

\* The batch dequeued is not yet applied before and during preprocessing.
InitStages == {"BEGIN_INIT", "END_INIT"}
PreStages == {"BEGIN_PREPROCESS", "END_PREPROCESS"}
PostStages == {"BEGIN_POSTPROCESS", "END_POSTPROCESS"}
GraphOK ==
  /\ graph \in {batch - 1, batch}
  /\ lpc # "dead" => graph = IF lpc = "dequeue" \/ stage \in PostStages THEN batch ELSE batch - 1
  /\ lpc = "process_batch" => stage = "BEGIN_PREPROCESS"

LoopTypes ==
  /\ lpc \in {"dequeue", "get_num_levels", "get_num_algs", "get_alg", "serve", "refuse",
              "process_batch", "dead"}
  /\ stage \in Requests
  /\ lev \in Nat /\ idx \in Nat /\ stopLev \in Nat
  /\ batch \in Nat /\ graph \in Nat
  /\ GraphOK

AlgTypes == cast \in Casts /\ ClientTypes /\ HandlerTypes /\ RegistryTypes /\ LoopTypes

\* alg_tree has a level for each of its vectors, and they hold records.
TreeOK ==
  /\ tree \in Seq([mem : Seq(Clients), size : Nat])
  /\ Len(tree) = levels
  /\ \A l \in 1 .. levels : tree[l].size <= Len(tree[l].mem)

\* States in which no algorithm is at work.
Idle == {"READY_INIT", "READY_PRE", "READY_POST", "ERROR"}

\* The records not deleted are in the tree, once, at their level, and alg_map
\* holds some of them.  A deleted one was not at work.
Placed(r, l) == state[r] # Null /\ r \notin freed /\ level[r] + 1 = l
RegistryOK ==
  /\ \A l \in 1 .. levels : \A i \in 1 .. tree[l].size : Placed(At(l, i), l)
  /\ \A l \in 1 .. levels : \A i, k \in 1 .. tree[l].size : At(l, i) = At(l, k) => i = k
  /\ \A c \in Clients \ freed : state[c] # Null => InTree(c)
  /\ \A n \in Names : map[n] # Null => map[n] \notin freed /\ state[map[n]] # Null
  /\ \A n \in Names : map[n] # Null => NameOf[map[n]] = n
  /\ \A c \in freed : state[c] \in Idle

\* A handler at work has a client that waits for it, and a record only once it
\* has added it.
HandlerOK(c) ==
  /\ hpc[c] # "none" =>
       cpc[c] \in {"wait", "gone"} /\ call[c] = "REGISTER_ALG" /\ up[c] = Null
  /\ hpc[c] \notin {"none", "reply"} => state[c] = Null
  /\ hpc[c] = "reply" => state[c] # Null
  /\ cpc[c] = "new" => /\ hpc[c] = "none" /\ state[c] = Null
                      /\ call[c] = "REGISTER_ALG" /\ up[c] = Null /\ down[c] = Null

\* An algorithm is above the dependencies resolved for it.
DepsOK(c) == \A d \in resolved[c] : state[d] # Null /\ level[d] < level[c]

\* The request on its way to the server is the one that the record awaits.
RequestOK(c) == up[c] # Null /\ c \notin cast.restarting => state[c] = Before(up[c])

\* Where a client is, and the state of its record: before its registration is
\* answered, ...
Registers(c) ==
  /\ cpc[c] = "wait" /\ call[c] = "REGISTER_ALG" /\ up[c] = Null
  /\ \/ down[c] = Null /\ hpc[c] # "reply" /\ state[c] = Null
     \/ down[c] = Null /\ hpc[c] = "reply" /\ state[c] = "READY_INIT"
     \/ down[c] # Null /\ ~down[c].ok /\ hpc[c] = "none" /\ state[c] = Null
     \/ /\ down[c] # Null /\ down[c].ok /\ down[c].action = "REGISTER_ALG"
        /\ hpc[c] = "none" /\ state[c] = "READY_INIT"
\* ... with a request made, ...
Asks(c) == cpc[c] = "wait" /\ up[c] = call[c] /\ down[c] = Null /\ state[c] = Before(call[c])
\* ... granted but not yet heard of, ...
Granted(c) ==
  /\ cpc[c] = "wait" /\ up[c] = Null /\ state[c] = After(call[c])
  /\ down[c] # Null /\ down[c].ok /\ down[c].action = call[c]
  /\ call[c] \in Begins => down[c].batch = batch
\* ... at work, ...
Works(c) == cpc[c] = "compute" /\ up[c] = Null /\ down[c] = Null /\ state[c] = After(call[c])
\* ... or, if it leaves out init, refused, and not heard again.
Errs(c) ==
  /\ cpc[c] = "wait"
  /\ \/ /\ call[c] = "BEGIN_PREPROCESS" /\ up[c] = "BEGIN_PREPROCESS" /\ down[c] = Null
        /\ state[c] \in {"READY_INIT", "ERROR"}
     \/ up[c] = Null /\ down[c] # Null /\ ~down[c].ok /\ state[c] = "ERROR"
     \/ call[c] = "BEGIN_INIT" /\ up[c] = "BEGIN_INIT" /\ down[c] = Null /\ state[c] = "ERROR"
     \/ up[c] = Null /\ down[c] = Null /\ state[c] \in {"READY_INIT", "ERROR"}

PhaseOK(c) ==
  \/ cpc[c] \in {"new", "gone"}
  \/ Registers(c)
  \/ c \in cast.restarting /\ call[c] \in {"BEGIN_PREPROCESS", "BEGIN_INIT"} /\ Errs(c)
  \/ c \notin cast.restarting /\ call[c] \in Requests /\ (Asks(c) \/ Granted(c))
  \/ c \notin cast.restarting /\ call[c] \in Begins /\ Works(c)

\* What an algorithm has been shown, by the state of its record.
Last(c) == log[c][Len(log[c])]
Entered(c, request, b, g) ==
  log[c] # << >> /\ Last(c) = [request |-> request, batch |-> b, graph |-> g]
ShownBefore(c) ==
  /\ log[c] # << >>
  /\ \/ Last(c).request = "BEGIN_INIT" /\ Last(c).graph = graph /\ graph = batch - 1
     \/ Last(c).request = "BEGIN_POSTPROCESS" /\ Last(c).batch = graph
ShownPre(c) == log[c] # << >> /\ Last(c).request = "BEGIN_PREPROCESS" /\ Last(c).batch = batch

LogOK(c) ==
  /\ state[c] \in {Null, "READY_INIT", "ERROR"} => log[c] = << >>
  /\ state[c] = "PERFORMING_INIT" =>
       /\ graph = batch - 1
       /\ IF call[c] = "BEGIN_INIT" /\ cpc[c] = "wait" THEN log[c] = << >>
          ELSE Entered(c, "BEGIN_INIT", batch, graph)
  /\ state[c] = "READY_PRE" /\ c \notin freed => ShownBefore(c)
  /\ state[c] = "PERFORMING_PRE" =>
       /\ graph = batch - 1
       /\ IF call[c] = "BEGIN_PREPROCESS" /\ cpc[c] = "wait" THEN ShownBefore(c)
          ELSE Entered(c, "BEGIN_PREPROCESS", batch, graph)
  /\ state[c] = "READY_POST" /\ c \notin freed => ShownPre(c)
  /\ state[c] = "PERFORMING_POST" =>
       /\ graph = batch
       /\ IF call[c] = "BEGIN_POSTPROCESS" /\ cpc[c] = "wait" THEN ShownPre(c)
          ELSE Entered(c, "BEGIN_POSTPROCESS", batch, graph)

\* Where the loop is.
Walking == lpc \in {"get_alg", "serve", "refuse"}
WalkOK ==
  /\ Walking => /\ lev <= stopLev /\ stopIdx \in Nat /\ stopIdx <= tree[lev].size
                /\ idx >= 1 /\ idx <= stopIdx + 1
  /\ Walking /\ lev < stopLev => stopIdx = tree[lev].size
  /\ Walking \/ lpc = "get_num_algs" => lev >= 1 /\ stopLev <= levels
  /\ lpc \in {"serve", "refuse"} => idx <= stopIdx /\ cur = At(lev, idx)
  /\ lpc = "refuse" => state[cur] = "ERROR"
  /\ lpc \in {"dequeue", "get_num_levels", "get_num_algs"} => stage \in Begins
  /\ lpc = "get_alg" => stage # "END_INIT"
  /\ lpc = "serve" /\ stage = "END_INIT" => state[cur] = "PERFORMING_INIT"

\* The state of a record at level l and index i that takes part in the rounds.
Turn(l, i) ==
  CASE lpc = "dequeue" \/ stage \in InitStages -> "READY_PRE"
    [] lpc = "process_batch" -> "READY_POST"
    [] lpc = "get_num_levels" /\ stage \notin InitStages -> Before(stage)
    [] OTHER ->
         IF l < lev THEN IF stage \in PreStages THEN "READY_POST" ELSE "READY_PRE"
         ELSE IF l > lev THEN IF stage \in PreStages THEN "READY_PRE" ELSE "READY_POST"
         ELSE IF Walking /\ i < idx THEN After(stage) ELSE Before(stage)

\* Records yet to be initialised, or in error, take no part in the rounds; the
\* others have their turn, and the walk gets to all of them.
Aside == {"READY_INIT", "ERROR"}
TurnOK(l, i) ==
  \/ state[At(l, i)] \in Aside
  \/ lpc = "serve" /\ stage = "END_INIT" /\ l = lev /\ i = idx
  \/ /\ state[At(l, i)] = Turn(l, i)
     /\ Walking \/ lpc = "get_num_algs" => l <= stopLev
     /\ Walking /\ l = lev => i <= stopIdx

\* The walk that initialises leaves none uninitialised behind it, up to the last level.
InitOK(l, i) ==
  /\ Walking \/ lpc = "get_num_algs"
  /\ stage \in InitStages
  /\ l < stopLev
  /\ l < lev \/ (Walking /\ l = lev /\ i < idx)
  /\ At(l, i) \notin cast.restarting
  => state[At(l, i)] # "READY_INIT"

\* A record below one that takes part has been initialised; below one at work it
\* has done the stage.
BelowOK(r, s) ==
  /\ state[r] = "READY_INIT" /\ r \notin cast.restarting => state[s] \in Aside
  /\ state[s] = "PERFORMING_PRE" => state[r] \in Aside \cup {"READY_POST"}
  /\ state[s] = "PERFORMING_POST" => state[r] \in Aside \cup {"READY_PRE"}

Shown(c) == \A i \in 1 .. Len(log[c]) - 1 : Follows(log[c][i + 1], log[c][i])

Resolutions == \A c \in Clients : DepsOK(c)
ClientOK(c) ==
  HandlerOK(c) /\ RequestOK(c) /\ PhaseOK(c) /\ Shown(c) /\ (Alive(c) => LogOK(c))
Phases == \A c \in Clients : ClientOK(c)
Turns == lpc # "dead" => \A l \in 1 .. levels : \A i \in 1 .. tree[l].size : TurnOK(l, i)
Inits == lpc # "dead" => \A l \in 1 .. levels : \A i \in 1 .. tree[l].size : InitOK(l, i)
Belows ==
  \A l \in 1 .. levels : \A k \in 1 .. l - 1 :
    \A i \in 1 .. tree[l].size : \A j \in 1 .. tree[k].size : BelowOK(At(k, j), At(l, i))

RoundOK ==
  TreeOK /\ RegistryOK /\ Resolutions /\ Phases /\ WalkOK /\ Turns /\ Inits /\ Belows

\* What registration (handle_alg) and the rounds of process_loop_handler keep
\* true of each other: as long as no registration has upset a walk, the records are
\* in alg_tree once and at their level, every client is where its record awaits it,
\* and every record is where the place of the walk says.  Every step of the system
\* leads from a state where this holds to one where it holds.
AlgInv == AlgTypes /\ (~moved => RoundOK)
=============================================================================
