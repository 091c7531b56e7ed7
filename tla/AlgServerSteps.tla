--------------------------- MODULE AlgServerSteps ---------------------------
(***************************************************************************)
(* AlgServerInvariant's AlgInv, the first part of its proof: the types,    *)
(* the initial state, and the steps of the clients and of registration.    *)
(***************************************************************************)
EXTENDS AlgServerInvariant, WellFoundedInduction, TLAPS

-----------------------------------------------------------------------------
(***************************************************************************)
(* The requests and the states.                                            *)
(***************************************************************************)
\* Before, After and EndOf, value by value.
LEMMA Table ==
  /\ Before("BEGIN_INIT") = "READY_INIT" /\ After("BEGIN_INIT") = "PERFORMING_INIT"
  /\ Before("END_INIT") = "PERFORMING_INIT" /\ After("END_INIT") = "READY_PRE"
  /\ Before("BEGIN_PREPROCESS") = "READY_PRE" /\ After("BEGIN_PREPROCESS") = "PERFORMING_PRE"
  /\ Before("END_PREPROCESS") = "PERFORMING_PRE" /\ After("END_PREPROCESS") = "READY_POST"
  /\ Before("BEGIN_POSTPROCESS") = "READY_POST" /\ After("BEGIN_POSTPROCESS") = "PERFORMING_POST"
  /\ Before("END_POSTPROCESS") = "PERFORMING_POST" /\ After("END_POSTPROCESS") = "READY_PRE"
  /\ EndOf("BEGIN_INIT") = "END_INIT"
  /\ EndOf("BEGIN_PREPROCESS") = "END_PREPROCESS"
  /\ EndOf("BEGIN_POSTPROCESS") = "END_POSTPROCESS"
BY Zenon DEF Before, After, EndOf, Begins

\* The states a record can be in.
LEMMA StatesAre ==
  AlgStates = {"READY_INIT", "PERFORMING_INIT", "READY_PRE", "PERFORMING_PRE", "READY_POST",
               "PERFORMING_POST", "ERROR"}
BY Table DEF AlgStates, Requests

\* No constant of the model is Null.
LEMMA NullIsNew ==
  /\ Null \notin Clients /\ Null \notin Requests /\ Null \notin AlgStates /\ Null \notin Answers
  /\ Null \notin {"READY_INIT", "PERFORMING_INIT", "READY_PRE", "PERFORMING_PRE", "READY_POST",
                  "PERFORMING_POST", "ERROR"}
BY AlgAssumption, StatesAre, Zenon DEF AlgAssumption

\* After and Before of a request are states; EndOf of the first is a request.
LEMMA RequestTypes ==
  /\ \A r \in Requests : Before(r) \in AlgStates /\ After(r) \in AlgStates
  /\ \A r \in Begins : EndOf(r) \in Requests /\ r \in Requests
  /\ \A r \in Begins : After(r) = Before(EndOf(r))
BY Table, StatesAre, Zenon DEF Requests, Begins

\* A request is what the record awaits, and no two are awaited at once.
LEMMA BeforeInjective ==
  ASSUME NEW r \in Requests, NEW s \in Requests, Before(r) = Before(s)
  PROVE  r = s
BY Table, Zenon DEF Requests

-----------------------------------------------------------------------------
(***************************************************************************)
(* Types.                                                                  *)
(***************************************************************************)
LEMMA TypesInit == AInit => AlgTypes
<1> SUFFICES ASSUME AInit PROVE AlgTypes
  BY Zenon
<1>1. ClientTypes
  BY DEF AInit, ClientTypes
<1>2. HandlerTypes
  BY AlgAssumption DEF AInit, HandlerTypes, AlgAssumption
<1>3. RegistryTypes
  BY Zenon DEF AInit, RegistryTypes
<1>4. LoopTypes
  BY Zenon DEF AInit, LoopTypes, GraphOK, Requests, PostStages
<1> QED
  BY <1>1, <1>2, <1>3, <1>4, Zenon DEF AInit, AlgTypes

\* What a client does next is a request or the end.
LEMMA NextRequestType ==
  ASSUME NEW c, NEW ok, NEW on
  PROVE  NextRequest(c, ok, on) # "exit" => NextRequest(c, ok, on) \in Requests
BY Zenon DEF NextRequest, Requests

LEMMA ReplyType ==
  ASSUME ClientTypes, batch \in Nat, NEW c, NEW ok \in BOOLEAN,
         NEW action, c \in Clients => action \in Requests \cup {"REGISTER_ALG", Null},
         Reply(c, action, ok)
  PROVE  down' \in [Clients -> Answers \cup {Null}]
BY Zenon DEF ClientTypes, Reply, Answers

LEMMA TypesClient ==
  ASSUME AlgTypes, NEW c \in Clients, Client(c) \/ Crash(c)
  PROVE  AlgTypes'
<1>1. HandlerTypes'
  BY Zenon DEF AlgTypes, HandlerTypes, Client, Crash, Register, Answered, Computed, handlerVars
<1>2. RegistryTypes' /\ cast' \in Casts
  BY Zenon DEF AlgTypes, RegistryTypes, Client, Crash, Register, Answered, Computed, registryVars
<1>3. LoopTypes'
  BY Zenon DEF AlgTypes, LoopTypes, GraphOK, Client, Crash, Register, Answered, Computed, loopVars,
         counters
<1>4. ClientTypes'
  <2>1. CASE Register(c)
    BY <2>1, Zenon DEF AlgTypes, ClientTypes, Register
  <2>2. CASE Answered(c)
    <3> DEFINE a == down[c]
               ok == a.ok /\ a.action = call[c]
               on == IF call[c] = "REGISTER_ALG" THEN ok ELSE enabled[c] /\ ok
               request == NextRequest(c, ok, on \/ c \in cast.restarting)
    <3>1. /\ a \in Answers
          /\ down' = [down EXCEPT ![c] = Null]
          /\ \/ /\ call[c] \in Begins
                /\ cpc' = [cpc EXCEPT ![c] = "compute"]
                /\ log' = [log EXCEPT ![c] = Append(@, Entry(c))]
                /\ UNCHANGED <<call, up>>
             \/ request # "exit" /\ Send(c, request) /\ UNCHANGED log
             \/ Exit(c) /\ UNCHANGED log
      BY <2>2, Zenon DEF AlgTypes, ClientTypes, Answered, Begins
    <3>2. request # "exit" => request \in Requests
      BY NextRequestType, Zenon
    <3> HIDE DEF request
    <3>3. call[c] \in Begins => Entry(c) \in [request : Begins, batch : Nat, graph : Nat]
      BY <3>1, Zenon DEF Entry, Answers, AlgTypes, LoopTypes
    <3>4. log' \in [Clients -> Seq([request : Begins, batch : Nat, graph : Nat])]
      <4>1. log \in [Clients -> Seq([request : Begins, batch : Nat, graph : Nat])]
        BY Zenon DEF AlgTypes, ClientTypes
      <4>2. ASSUME call[c] \in Begins, log' = [log EXCEPT ![c] = Append(@, Entry(c))]
            PROVE  log' \in [Clients -> Seq([request : Begins, batch : Nat, graph : Nat])]
        <5> DEFINE E == [request : Begins, batch : Nat, graph : Nat]
        <5>1. Entry(c) \in E /\ log[c] \in Seq(E)
          BY <3>3, <4>1, <4>2, Zenon
        <5> HIDE DEF E
        <5>2. Append(log[c], Entry(c)) \in Seq(E)
          BY <5>1
        <5> QED
          BY <4>1, <4>2, <5>2, Zenon DEF E
      <4> QED
        BY <3>1, <4>1, <4>2, Zenon
    <3>5. CASE cpc' = [cpc EXCEPT ![c] = "compute"] /\ call[c] \in Begins /\ UNCHANGED <<call, up>>
      BY <3>1, <3>4, <3>5, Zenon DEF AlgTypes, ClientTypes
    <3>6. CASE request # "exit" /\ Send(c, request)
      BY <3>1, <3>2, <3>4, <3>6, Zenon DEF AlgTypes, ClientTypes, Send
    <3>7. CASE Exit(c)
      BY <3>1, <3>4, <3>7, Zenon DEF AlgTypes, ClientTypes, Exit
    <3> QED
      BY <3>1, <3>5, <3>6, <3>7, Zenon
  <2>3. CASE Computed(c)
    <3>1. EndOf(call[c]) \in Requests
      BY <2>3, RequestTypes, Zenon DEF AlgTypes, ClientTypes, Computed
    <3> QED
      BY <2>3, <3>1, Zenon DEF AlgTypes, ClientTypes, Computed, Send
  <2>4. CASE Crash(c)
    BY <2>4, Zenon DEF AlgTypes, ClientTypes, Crash, Exit
  <2> QED
    BY <2>1, <2>2, <2>3, <2>4, Zenon DEF Client
<1> QED
  BY <1>1, <1>2, <1>3, <1>4, Zenon DEF AlgTypes

LEMMA TypesHandler ==
  ASSUME AlgTypes, NEW c \in Clients, HandleAlg(c)
  PROVE  AlgTypes'
<1> USE DEF AlgTypes
<1>0. \A n \in Nat : n <= Len(Deps[c]) /\ n # Len(Deps[c]) => n < Len(Deps[c])
  BY AlgAssumption DEF AlgAssumption
<1>1. PICK label \in {"none", "has_alg", "state", "delete", "erase", "resolve", "add", "reply"} :
        \/ HGoto(c, label) /\ UNCHANGED <<dep, resolved, level>>
        \/ HGoto(c, "level") /\ dep[c] < Len(Deps[c]) /\ UNCHANGED <<dep, resolved, level>>
        \/ DepLevel(c)
  <2>1. CASE Resolve(c)
    BY <1>0, <2>1, Zenon DEF Resolve, HandlerTypes, HGoto
  <2> QED
    BY <2>1, Zenon DEF HandleAlg, HasAlg, TestState, DeleteAlg, EraseAlg, AddAlg, SendRegistered
<1>2. HandlerTypes'
  <2>1. CASE DepLevel(c)
    <3>1. dep[c] + 1 \in 1 .. Len(Deps[c]) /\ Deps[c][dep[c] + 1] \in Names
      BY <2>1, AlgAssumption, SMTT(30) DEF DepLevel, HandlerTypes, AlgAssumption
    <3> DEFINE r == map[Deps[c][dep[c] + 1]]
    <3>2. r \in Clients \cup {Null}
      BY <3>1, Zenon DEF RegistryTypes
    <3> HIDE DEF r
    <3>3. CASE r = Null
      BY <2>1, <3>3, Zenon DEF DepLevel, r, HandlerTypes, HGoto
    <3>4. CASE r # Null
      <4>1. /\ hpc' = [hpc EXCEPT ![c] = "resolve"]
            /\ level' = [level EXCEPT ![c] = IF level[r] >= @ THEN level[r] + 1 ELSE @]
            /\ dep' = [dep EXCEPT ![c] = @ + 1]
            /\ resolved' = [resolved EXCEPT ![c] = @ \cup {r}]
        BY <2>1, <3>4, Zenon DEF DepLevel, r, HGoto
      <4>2. r \in Clients /\ level[r] \in Nat
        BY <3>2, <3>4, Zenon DEF HandlerTypes
      <4> QED
        BY <3>1, <4>1, <4>2 DEF HandlerTypes
    <3> QED
      BY <3>3, <3>4, Zenon
  <2> QED
    BY <1>1, <2>1, Zenon DEF HandlerTypes, HGoto
<1>3. RegistryTypes' /\ cast' \in Casts
  <2>1. CASE AddAlg(c)
    <3>1. /\ map' = [map EXCEPT ![NameOf[c]] = c]
          /\ state' = [state EXCEPT ![c] = "READY_INIT"]
          /\ levels' = level[c] + 1
          /\ moved' = (moved \/ level[c] + 1 < levels)
          /\ UNCHANGED <<freed, cast>>
      BY <2>1, Zenon DEF AddAlg, HandleAlg
    <3>2. "READY_INIT" \in AlgStates
      BY StatesAre, Zenon
    <3>3. map' \in [Names -> Clients \cup {Null}] /\ state' \in [Clients -> AlgStates \cup {Null}]
      BY <3>1, <3>2, Zenon DEF RegistryTypes
    <3>4. levels' \in Nat
      BY <3>1 DEF HandlerTypes
    <3>5. moved' \in BOOLEAN
      BY <3>1, Zenon
    <3> QED
      BY <3>1, <3>3, <3>4, <3>5, Zenon DEF RegistryTypes
  <2>2. CASE EraseAlg(c)
    BY <2>2, AlgAssumption, Zenon DEF EraseAlg, HandleAlg, RegistryTypes, AlgAssumption
  <2>3. CASE ~AddAlg(c) /\ ~EraseAlg(c)
    BY <2>3, Zenon DEF HandleAlg, HasAlg, TestState, DeleteAlg, Resolve, DepLevel, SendRegistered,
       RegistryTypes, registryVars
  <2> QED
    BY <2>1, <2>2, <2>3, Zenon
<1>4. LoopTypes'
  <2>1. ServerDies \/ UNCHANGED loopVars
    BY Zenon DEF HandleAlg, HasAlg, TestState, DeleteAlg, EraseAlg, Resolve, DepLevel, AddAlg,
       SendRegistered
  <2> QED
    BY <2>1, Zenon DEF ServerDies, loopVars, counters, LoopTypes, GraphOK
<1>5. ClientTypes'
  <2>1. UNCHANGED <<clientVars, up>>
    BY Zenon DEF HandleAlg, HasAlg, TestState, DeleteAlg, EraseAlg, Resolve, DepLevel, AddAlg,
       SendRegistered
  <2>2. UNCHANGED down \/ \E ok \in BOOLEAN : Reply(c, "REGISTER_ALG", ok)
    BY Zenon DEF HandleAlg, HasAlg, TestState, DeleteAlg, EraseAlg, Resolve, DepLevel, AddAlg,
       SendRegistered
  <2>3. down' \in [Clients -> Answers \cup {Null}]
    BY <2>2, ReplyType, Zenon DEF ClientTypes, LoopTypes
  <2> QED
    BY <2>1, <2>3, Zenon DEF ClientTypes, clientVars
<1> QED
  BY <1>2, <1>3, <1>4, <1>5, Zenon

LEMMA TypesLoop ==
  ASSUME AlgTypes, ProcessLoop
  PROVE  AlgTypes'
<1> USE DEF AlgTypes
<1>1. HandlerTypes'
  BY Zenon DEF ProcessLoop, Dequeue, GetNumLevels, SectionDone, GetNumAlgs, GetAlg, SweepDone, Eat, Skip,
     Grant, Refuse, SendRefusal, UseDeleted, ProcessBatch, HandlerTypes, handlerVars
<1>2. RegistryTypes' /\ cast' \in Casts
  <2>1. UNCHANGED <<registryVars, cast>>
    BY Zenon DEF ProcessLoop, Dequeue, GetNumLevels, SectionDone, GetNumAlgs, GetAlg, SweepDone, Eat, Skip,
       Grant, Refuse, SendRefusal, UseDeleted, ProcessBatch
  <2>2. UNCHANGED state \/ \E s \in AlgStates : state' = [state EXCEPT ![cur] = s]
    <3>1. "READY_INIT" \in AlgStates /\ "ERROR" \in AlgStates
      BY StatesAre, Zenon
    <3>2. After(stage) \in AlgStates
      BY RequestTypes, Zenon DEF LoopTypes
    <3> QED
      BY <3>1, <3>2, Zenon DEF ProcessLoop, Dequeue, GetNumLevels, SectionDone, GetNumAlgs, GetAlg,
         SweepDone, Eat, Skip, Grant, Refuse, SendRefusal, UseDeleted, ProcessBatch
  <2> QED
    BY <2>1, <2>2, Zenon DEF RegistryTypes, registryVars
<1>3. ClientTypes'
  <2>1. UNCHANGED clientVars
    BY Zenon DEF ProcessLoop, Dequeue, GetNumLevels, SectionDone, GetNumAlgs, GetAlg, SweepDone, Eat, Skip,
       Grant, Refuse, SendRefusal, UseDeleted, ProcessBatch
  <2>2. UNCHANGED up \/ Take(cur)
    BY Zenon DEF ProcessLoop, Dequeue, GetNumLevels, SectionDone, GetNumAlgs, GetAlg, SweepDone, Eat,
       Skip, Grant, Refuse, SendRefusal, UseDeleted, ProcessBatch
  <2>3. UNCHANGED down \/ Reply(cur, stage, TRUE) \/ Reply(cur, up[cur], FALSE)
    BY Zenon DEF ProcessLoop, Dequeue, GetNumLevels, SectionDone, GetNumAlgs, GetAlg, SweepDone, Eat,
       Skip, Grant, Refuse, SendRefusal, UseDeleted, ProcessBatch
  <2>4. /\ stage \in Requests \cup {"REGISTER_ALG", Null}
        /\ cur \in Clients => up[cur] \in Requests \cup {"REGISTER_ALG", Null}
    BY Zenon DEF LoopTypes, ClientTypes
  <2>5. down' \in [Clients -> Answers \cup {Null}]
    <3>1. CASE UNCHANGED down
      BY <3>1, Zenon DEF ClientTypes
    <3>2. CASE Reply(cur, stage, TRUE)
      BY <3>2, <2>4, ReplyType, Zenon DEF LoopTypes
    <3>3. CASE Reply(cur, up[cur], FALSE)
      BY <3>3, <2>4, ReplyType, Zenon DEF LoopTypes
    <3> QED
      BY <2>3, <3>1, <3>2, <3>3, Zenon
  <2> QED
    BY <2>1, <2>2, <2>5, Zenon DEF ClientTypes, clientVars, Take
<1>4. LoopTypes'
  <2> USE DEF LoopTypes, GraphOK, PostStages, LGoto, counters
  <2>1. CASE Dequeue
    BY <2>1 DEF Dequeue, Requests
  <2>2. CASE GetNumLevels
    BY <2>2, Zenon DEF GetNumLevels, RegistryTypes
  <2>3. CASE SectionDone
    BY <2>3, Zenon DEF SectionDone, Requests
  <2>4. CASE GetNumAlgs \/ GetAlg
    BY <2>4 DEF GetNumAlgs, GetAlg
  <2>5. CASE SweepDone
    <3>1. CASE stage \in {"BEGIN_PREPROCESS", "BEGIN_POSTPROCESS"}
      BY <2>5, <3>1, Table DEF SweepDone, Requests
    <3>2. CASE stage \in {"BEGIN_INIT", "END_PREPROCESS", "END_POSTPROCESS"}
      BY <2>5, <3>2 DEF SweepDone, Requests
    <3> QED
      BY <2>5, <3>1, <3>2, Zenon DEF SweepDone
  <2>6. CASE NextAlg /\ lpc \in {"serve", "refuse"}
    BY <2>6 DEF NextAlg, Requests
  <2>7. CASE stage = "BEGIN_INIT" /\ stage' = "END_INIT" /\ UNCHANGED <<lpc, counters, cur, batch, graph>>
    BY <2>7, Zenon DEF Requests
  <2>8. CASE UNCHANGED loopVars \/ ServerDies
    BY <2>8, Zenon DEF ServerDies, loopVars
  <2>9. CASE Refuse
    BY <2>9, Zenon DEF Refuse
  <2>10. CASE ProcessBatch
    BY <2>10 DEF ProcessBatch, Requests
  <2> QED
    BY <2>1, <2>2, <2>3, <2>4, <2>5, <2>6, <2>7, <2>8, <2>9, <2>10, Zenon
    DEF ProcessLoop, Eat, Skip, Grant, SendRefusal, UseDeleted
<1> QED
  BY <1>1, <1>2, <1>3, <1>4, Zenon

LEMMA TypesStep ==
  ASSUME AlgTypes, [ANext]_avars
  PROVE  AlgTypes'
<1>1. CASE UNCHANGED avars
  BY <1>1, Zenon DEF avars, clientVars, handlerVars, registryVars, loopVars, counters, AlgTypes, ClientTypes,
     HandlerTypes, RegistryTypes, LoopTypes, GraphOK
<1> QED
  BY <1>1, TypesClient, TypesHandler, TypesLoop, Zenon DEF ANext, Poll

-----------------------------------------------------------------------------
(***************************************************************************)
(* Initially, and what a step leaves alone.                                *)
(***************************************************************************)
LEMMA RoundInit == AInit => RoundOK
<1> SUFFICES ASSUME AInit PROVE RoundOK
  BY Zenon
<1>1. TreeOK
  BY DEF AInit, TreeOK
<1>2. RegistryOK
  BY DEF AInit, RegistryOK
<1>3. Resolutions
  BY Zenon DEF AInit, Resolutions, DepsOK
<1>4. ASSUME NEW c \in Clients PROVE ClientOK(c)
  <2>1. HandlerOK(c) /\ RequestOK(c) /\ PhaseOK(c)
    BY Zenon DEF AInit, HandlerOK, RequestOK, PhaseOK
  <2>2. LogOK(c)
    BY NullIsNew, Zenon DEF AInit, LogOK
  <2>3. Shown(c)
    BY DEF AInit, Shown
  <2> QED
    BY <2>1, <2>2, <2>3, Zenon DEF ClientOK
<1>5. WalkOK
  BY Zenon DEF AInit, WalkOK, Walking, Begins
<1>6. Turns /\ Inits /\ Belows
  BY DEF AInit, Turns, Inits, Belows
<1> QED
  BY <1>1, <1>2, <1>3, <1>4, <1>5, <1>6, Zenon DEF RoundOK, Phases

\* A record in the tree is a client's.
LEMMA AtClient ==
  ASSUME TreeOK, NEW l \in 1 .. levels, NEW i \in 1 .. tree[l].size
  PROVE  At(l, i) \in Clients
<1> DEFINE V == [mem : Seq(Clients), size : Nat]
<1>0. tree \in Seq(V) /\ l \in 1 .. Len(tree) /\ tree[l].size <= Len(tree[l].mem)
  BY Zenon DEF TreeOK
<1>1. tree[l] \in V
  <2> HIDE DEF V
  <2> QED
    BY <1>0
<1>2. tree[l].mem \in Seq(Clients) /\ i \in 1 .. Len(tree[l].mem)
  BY <1>0, <1>1
<1> QED
  BY <1>2 DEF At

LEMMA RegistryFrame ==
  ASSUME TreeOK, RegistryOK, UNCHANGED <<freed, tree, levels, map>>,
         \A r \in Clients : state[r] # Null => state'[r] # Null /\ level'[r] = level[r],
         \A r \in Clients : state'[r] # Null => state[r] # Null,
         \A r \in freed : state'[r] = state[r], map \in [Names -> Clients \cup {Null}]
  PROVE  TreeOK' /\ RegistryOK'
<1>1. TreeOK'
  BY Zenon DEF TreeOK
<1>2. ASSUME NEW l \in 1 .. levels, NEW i \in 1 .. tree[l].size PROVE Placed(At(l, i), l)'
  <2>1. At(l, i)' = At(l, i)
    BY Zenon DEF At
  <2>2. At(l, i) \in Clients /\ Placed(At(l, i), l)
    BY AtClient, Zenon DEF RegistryOK
  <2> QED
    BY <2>1, <2>2, Zenon DEF Placed
<1>3. \A r : InTree(r) => InTree(r)'
  BY Zenon DEF InTree
<1>4. \A n \in Names : map[n] # Null => map[n] \in Clients
  BY Zenon
<1>6. \A l \in 1 .. levels' : \A i \in 1 .. tree'[l].size : Placed(At(l, i), l)'
  <2>1. levels' = levels /\ tree' = tree
    BY Zenon
  <2> QED
    BY <1>2, <2>1, Zenon DEF Placed, At
<1>7. \A l \in 1 .. levels' : \A i, k \in 1 .. tree'[l].size : At(l, i)' = At(l, k)' => i = k
  BY DEF RegistryOK, At
<1>8. \A c \in Clients \ freed' : state'[c] # Null => InTree(c)'
  BY <1>3, Zenon DEF RegistryOK
<1>9. /\ \A n \in Names : map'[n] # Null => map'[n] \notin freed' /\ state'[map'[n]] # Null
      /\ \A n \in Names : map'[n] # Null => NameOf[map'[n]] = n
  BY <1>4, Zenon DEF RegistryOK
<1>10. \A c \in freed' : state'[c] \in Idle
  BY Zenon DEF RegistryOK
<1> QED
  BY <1>1, <1>6, <1>7, <1>8, <1>9, <1>10, Zenon DEF RegistryOK, Idle

LEMMA BelowFrame ==
  ASSUME Belows, UNCHANGED <<tree, levels, state, cast>>
  PROVE  Belows'
BY DEF Belows, BelowOK, At, Aside

LEMMA WalkFrame ==
  ASSUME WalkOK, Turns, Inits, UNCHANGED <<tree, levels, state, cast, loopVars>>
  PROVE  WalkOK' /\ Turns' /\ Inits'
<1> USE DEF loopVars, counters
<1>1. WalkOK'
  BY Zenon DEF WalkOK, Walking, At, Begins
<1>2. Turns'
  BY DEF Turns, TurnOK, Turn, Walking, At, Aside
<1>3. Inits'
  BY Zenon DEF Inits, InitOK, Walking, At
<1> QED
  BY <1>1, <1>2, <1>3, Zenon

\* A client whose own part of the state and whose record do not change.
LEMMA ClientFrame ==
  ASSUME NEW c \in Clients, ClientOK(c), UNCHANGED cast,
         cpc'[c] = cpc[c], call'[c] = call[c], up'[c] = up[c], down'[c] = down[c],
         log'[c] = log[c], hpc'[c] = hpc[c], state'[c] = state[c],
         c \notin freed' => c \notin freed, graph' = graph, batch' = batch
  PROVE  ClientOK(c)'
<1>1. HandlerOK(c)' /\ RequestOK(c)'
  BY Zenon DEF ClientOK, HandlerOK, RequestOK, Before
<1>2. PhaseOK(c)'
  BY ZenonT(30) DEF ClientOK, PhaseOK, Registers, Asks, Granted, Works, Errs, Before, After
<1>3. Shown(c)'
  BY ZenonT(30) DEF ClientOK, Shown, Follows
<1>4. Alive(c)' => LogOK(c)'
  BY Zenon DEF ClientOK, Alive, LogOK, Last, Entered, ShownBefore, ShownPre
<1> QED
  BY <1>1, <1>2, <1>3, <1>4, Zenon DEF ClientOK

-----------------------------------------------------------------------------
(***************************************************************************)
(* The clients.                                                            *)
(***************************************************************************)
LEMMA RegisterClient ==
  ASSUME AlgTypes, NEW c \in Clients, ClientOK(c), Register(c), UNCHANGED cast
  PROVE  ClientOK(c)'
<1>1. /\ cpc[c] = "new" /\ cpc'[c] = "wait" /\ hpc'[c] = "has_alg"
      /\ UNCHANGED <<call, log, up, down, state>>
  BY Zenon DEF Register, AlgTypes, ClientTypes, HandlerTypes
<1>2. state[c] = Null /\ call[c] = "REGISTER_ALG" /\ up[c] = Null /\ down[c] = Null
  BY <1>1, Zenon DEF ClientOK, HandlerOK
<1>3. HandlerOK(c)' /\ RequestOK(c)' /\ PhaseOK(c)'
  BY <1>1, <1>2, Zenon DEF HandlerOK, RequestOK, PhaseOK, Registers
<1>4. LogOK(c)'
  <2>1. log[c] = << >>
    BY <1>1, <1>2, Zenon DEF ClientOK, Alive, LogOK
  <2> QED
    BY <1>1, <1>2, <2>1, NullIsNew, Zenon DEF LogOK
<1>5. Shown(c)'
  BY <1>1, Zenon DEF ClientOK, Shown, Follows
<1> QED
  BY <1>3, <1>4, <1>5, Zenon DEF ClientOK

\* A client that is gone: what it has sent is still there.
LEMMA GoneClient ==
  ASSUME NEW c \in Clients, ClientOK(c), cpc'[c] = "gone", cpc[c] # "new",
         UNCHANGED <<cast, call, up, log, hpc, state>>
  PROVE  ClientOK(c)'
<1>1. HandlerOK(c)' /\ RequestOK(c)' /\ PhaseOK(c)'
  BY Zenon DEF ClientOK, HandlerOK, RequestOK, PhaseOK, Before
<1>2. Shown(c)' /\ ~Alive(c)'
  BY Zenon DEF ClientOK, Shown, Follows, Alive
<1> QED
  BY <1>1, <1>2, Zenon DEF ClientOK

\* A client sends the request its record awaits.
LEMMA SentClient ==
  ASSUME NEW c \in Clients, NEW r \in Requests, ClientOK(c), hpc[c] = "none",
         cpc'[c] = "wait", call'[c] = r, up'[c] = r, down'[c] = Null, Alive(c),
         UNCHANGED <<cast, log, hpc, state, freed, graph, batch>>,
         c \notin cast.restarting, state[c] = Before(r),
         r \in Begins \/ cpc[c] = "compute"
  PROVE  ClientOK(c)'
<1>1. HandlerOK(c)' /\ RequestOK(c)'
  BY Zenon DEF ClientOK, HandlerOK, RequestOK, Before
<1>2. PhaseOK(c)'
  BY Zenon DEF PhaseOK, Asks, Before
<1>3. Shown(c)'
  BY Zenon DEF ClientOK, Shown, Follows
<1>4. LogOK(c)'
  <2>1. LogOK(c)
    BY Zenon DEF ClientOK
  <2>2. CASE r \in Begins
    <3>1. state[c] \in {"READY_INIT", "READY_PRE", "READY_POST"}
      BY <2>2, Table, Zenon DEF Begins
    <3> QED
      BY <2>1, <3>1, NullIsNew, Zenon DEF LogOK, ShownBefore, ShownPre, Last
  <2>3. CASE r \notin Begins
    <3>1. r \in {"END_INIT", "END_PREPROCESS", "END_POSTPROCESS"} /\ cpc[c] = "compute"
      BY <2>3, Zenon DEF Requests, Begins
    <3> QED
      BY <2>1, <3>1, Table, NullIsNew, Zenon DEF LogOK, Last, Entered
  <2> QED
    BY <2>2, <2>3, Zenon
<1> QED
  BY <1>1, <1>2, <1>3, <1>4, Zenon DEF ClientOK

LEMMA ComputedClient ==
  ASSUME AlgTypes, NEW c \in Clients, ClientOK(c), Computed(c), UNCHANGED cast
  PROVE  ClientOK(c)'
<1>1. cpc[c] = "compute" /\ call[c] \in Begins
  BY Zenon DEF Computed, AlgTypes, ClientTypes
<1>2. EndOf(call[c]) \in Requests /\ After(call[c]) = Before(EndOf(call[c]))
  BY <1>1, RequestTypes, Zenon
<1>3. Works(c) /\ c \notin cast.restarting /\ hpc[c] = "none" /\ Alive(c)
  BY <1>1, Zenon DEF ClientOK, PhaseOK, HandlerOK, Registers, Asks, Granted, Errs, Alive
<1>4. /\ cpc'[c] = "wait" /\ call'[c] = EndOf(call[c]) /\ up'[c] = EndOf(call[c])
      /\ down'[c] = Null /\ UNCHANGED <<log, hpc, state, freed, graph, batch>>
  BY <1>3, Zenon DEF Computed, Send, Works, AlgTypes, ClientTypes, handlerVars, registryVars, loopVars
<1> QED
  BY <1>1, <1>2, <1>3, <1>4, SentClient, Zenon DEF Works

\* What Append does.
LEMMA AppendFacts ==
  ASSUME NEW E, NEW s \in Seq(E), NEW e \in E
  PROVE  /\ Len(Append(s, e)) = Len(s) + 1
         /\ Append(s, e)[Len(s) + 1] = e
         /\ \A i \in 1 .. Len(s) : Append(s, e)[i] = s[i]
         /\ Append(s, e) # << >>
BY SMTT(30)

\* A client is let into a stage: it is the next one it is to be shown.
LEMMA LetIn ==
  ASSUME AlgTypes, NEW c \in Clients, ClientOK(c), Granted(c), call[c] \in Begins,
         c \notin cast.restarting,
         log' = [log EXCEPT ![c] = Append(@, Entry(c))],
         cpc'[c] = "compute", down'[c] = Null,
         UNCHANGED <<cast, call, up, hpc, state, freed, graph, batch>>
  PROVE  ClientOK(c)'
<1>1. LogOK(c) /\ Shown(c) /\ cpc[c] = "wait"
  BY Zenon DEF ClientOK, Alive, Granted
<1>2. /\ down[c] \in Answers /\ down[c].batch = batch
      /\ batch \in Nat /\ graph \in Nat /\ Len(log[c]) \in Nat
  BY SMTT(30) DEF Granted, AlgTypes, ClientTypes, LoopTypes
<1>3. Entry(c) = [request |-> call[c], batch |-> batch, graph |-> graph]
  BY <1>2, Zenon DEF Entry
<1>4. /\ Len(log'[c]) = Len(log[c]) + 1
      /\ log'[c][Len(log[c]) + 1] = Entry(c)
      /\ \A i \in 1 .. Len(log[c]) : log'[c][i] = log[c][i]
      /\ log'[c] # << >>
  <2> DEFINE E == [request : Begins, batch : Nat, graph : Nat]
  <2>1. Entry(c) \in E
    BY <1>2, <1>3, SMTT(30)
  <2>2. log[c] \in Seq(E) /\ log'[c] = Append(log[c], Entry(c))
    BY Zenon DEF AlgTypes, ClientTypes
  <2> HIDE DEF E
  <2> QED
    BY <2>1, <2>2, AppendFacts, SMTT(30)
<1>5. Last(c)' = Entry(c)
  BY <1>2, <1>4, Zenon DEF Last
<1>6. /\ call[c] = "BEGIN_INIT" => log[c] = << >>
      /\ call[c] = "BEGIN_PREPROCESS" => ShownBefore(c) /\ graph = batch - 1
      /\ call[c] = "BEGIN_POSTPROCESS" => ShownPre(c) /\ graph = batch
      /\ call[c] = "BEGIN_INIT" => graph = batch - 1
  BY <1>1, Table, Zenon DEF LogOK, Granted
<1>7. LogOK(c)'
  BY <1>3, <1>4, <1>5, <1>6, Table, NullIsNew, SMTT(30) DEF LogOK, Entered, Granted, Begins
<1>8. Shown(c)'
  <2>1. log[c] # << >> => Follows(Entry(c), Last(c))
    <3>1. CASE call[c] = "BEGIN_INIT"
      BY <3>1, <1>6, Zenon
    <3>2. CASE call[c] = "BEGIN_PREPROCESS"
      BY <3>2, <1>2, <1>3, <1>6 DEF Follows, ShownBefore
    <3>3. CASE call[c] = "BEGIN_POSTPROCESS"
      BY <3>3, <1>2, <1>3, <1>6, SMTT(30) DEF Follows, ShownPre
    <3> QED
      BY <3>1, <3>2, <3>3, Zenon DEF Begins
  <2>2. ASSUME NEW i \in 1 .. Len(log'[c]) - 1
        PROVE  Follows(log'[c][i + 1], log'[c][i])
    <3>1. CASE i < Len(log[c])
      <4>1. i \in 1 .. Len(log[c]) - 1 /\ i \in 1 .. Len(log[c]) /\ i + 1 \in 1 .. Len(log[c])
        BY <3>1, <1>2, SMTT(30)
      <4> QED
        BY <4>1, <1>1, <1>4, Zenon DEF Shown
    <3>2. CASE i = Len(log[c])
      <4>1. log'[c][i] = Last(c) /\ log'[c][i + 1] = Entry(c) /\ log[c] # << >>
        BY <3>2, <1>2, <1>4, SMTT(30) DEF Last
      <4> QED
        BY <4>1, <2>1, Zenon
    <3> QED
      BY <1>2, <1>4, <3>1, <3>2, SMTT(30)
  <2> QED
    BY <2>2, Zenon DEF Shown, Follows
<1>9. HandlerOK(c)' /\ RequestOK(c)'
  BY Zenon DEF ClientOK, HandlerOK, RequestOK, Granted, Begins
<1>10. PhaseOK(c)'
  BY Zenon DEF PhaseOK, Granted, Works, After
<1> QED
  BY <1>7, <1>8, <1>9, <1>10, Zenon DEF ClientOK

\* The client hears of its registration, of a grant or of a refusal.
LEMMA AnsweredClient ==
  ASSUME AlgTypes, NEW c \in Clients, ClientOK(c), Answered(c), UNCHANGED cast
  PROVE  ClientOK(c)'
<1> DEFINE a == down[c]
           ok == a.ok /\ a.action = call[c]
           on == IF call[c] = "REGISTER_ALG" THEN ok ELSE enabled[c] /\ ok
           computes == \/ call[c] \in Begins /\ ok
                       \/ call[c] = "BEGIN_INIT" /\ c \notin cast.restarting
           request == NextRequest(c, ok, on \/ c \in cast.restarting)
<1>1. /\ cpc[c] = "wait" /\ a # Null
      /\ down' = [down EXCEPT ![c] = Null]
      /\ \/ /\ computes
            /\ cpc' = [cpc EXCEPT ![c] = "compute"]
            /\ log' = [log EXCEPT ![c] = Append(@, Entry(c))]
            /\ UNCHANGED <<call, up>>
         \/ ~computes /\ request # "exit" /\ Send(c, request) /\ UNCHANGED log
         \/ ~computes /\ request = "exit" /\ Exit(c) /\ UNCHANGED log
      /\ UNCHANGED <<hpc, state, freed, graph, batch>>
  BY Zenon DEF Answered, handlerVars, registryVars, loopVars
<1>2. request # "exit" => request \in Requests
  BY NextRequestType, Zenon
<1> DEFINE sent == cpc'[c] = "wait" /\ call'[c] = request /\ up'[c] = request /\ down'[c] = Null
<1>3. Send(c, request) => sent
  BY <1>1, Zenon DEF Send, AlgTypes, ClientTypes
<1>4. Exit(c) => ClientOK(c)'
  <2> SUFFICES ASSUME Exit(c) PROVE ClientOK(c)'
    BY Zenon
  <2>1. cpc'[c] = "gone" /\ UNCHANGED <<call, up, log>>
    BY <1>1, Zenon DEF Exit, AlgTypes, ClientTypes, Send
  <2> QED
    BY <1>1, <2>1, GoneClient, Zenon
<1>5. hpc[c] = "none" /\ Alive(c)
  BY <1>1, Zenon DEF ClientOK, PhaseOK, HandlerOK, Registers, Alive, Errs, Asks, Granted, Works, Requests,
     Begins
<1>6. CASE Registers(c)
  <2>1. ~computes /\ call[c] = "REGISTER_ALG"
    BY <1>6, Zenon DEF Registers, Begins
  <2>2. CASE ~ok
    <3>1. request = "exit"
      BY <2>1, <2>2, Zenon DEF NextRequest
    <3> QED
      BY <1>1, <1>4, <2>1, <3>1, Zenon
  <2>3. CASE ok /\ c \notin cast.restarting
    <3>1. request = "BEGIN_INIT"
      BY <2>1, <2>3, Zenon DEF NextRequest
    <3>2. state[c] = Before("BEGIN_INIT")
      BY <1>1, <1>6, <2>3, Table, Zenon DEF Registers
    <3>3. sent /\ UNCHANGED log /\ "BEGIN_INIT" \in Begins /\ "BEGIN_INIT" \in Requests
      BY <1>1, <1>3, <2>1, <3>1, Zenon DEF Begins, Requests
    <3> HIDE DEF request
    <3> QED
      BY <1>1, <1>5, <2>3, <3>1, <3>2, <3>3, SentClient, Zenon
  <2>4. CASE ok /\ c \in cast.restarting
    <3>1. request = "BEGIN_PREPROCESS"
      BY <2>1, <2>4, Zenon DEF NextRequest
    <3>2. state[c] = "READY_INIT"
      BY <1>1, <1>6, <2>4, Zenon DEF Registers
    <3>3. sent /\ UNCHANGED log
      BY <1>1, <1>3, <2>1, <3>1, Zenon
    <3> HIDE DEF request
    <3>4. HandlerOK(c)' /\ RequestOK(c)' /\ PhaseOK(c)'
      BY <1>1, <1>5, <2>4, <3>1, <3>2, <3>3, Zenon DEF HandlerOK, RequestOK, PhaseOK, Errs
    <3>5. LogOK(c)'
      BY <1>1, <1>5, <3>2, <3>3, NullIsNew, Zenon DEF ClientOK, LogOK
    <3>6. Shown(c)'
      BY <3>3, Zenon DEF ClientOK, Shown, Follows
    <3> QED
      BY <3>4, <3>5, <3>6, Zenon DEF ClientOK
  <2> QED
    BY <2>2, <2>3, <2>4, Zenon
<1>7. CASE c \in cast.restarting /\ call[c] \in {"BEGIN_PREPROCESS", "BEGIN_INIT"} /\ Errs(c)
  <2>1. ~ok /\ ~computes /\ state[c] = "ERROR"
    <3>1. ~down[c].ok /\ state[c] = "ERROR"
      BY <1>1, <1>7, Zenon DEF Errs
    <3> QED
      BY <1>7, <3>1, Zenon
  <2>2. request = "BEGIN_INIT"
    BY <1>7, <2>1, Zenon DEF NextRequest
  <2>3. sent /\ UNCHANGED log
    BY <1>1, <1>3, <2>1, <2>2, Zenon
  <2> HIDE DEF request
  <2>4. HandlerOK(c)' /\ RequestOK(c)' /\ PhaseOK(c)'
    BY <1>1, <1>5, <1>7, <2>1, <2>2, <2>3, Zenon DEF HandlerOK, RequestOK, PhaseOK, Errs
  <2>5. LogOK(c)'
    BY <1>1, <1>5, <2>1, <2>3, NullIsNew, Zenon DEF ClientOK, LogOK
  <2>6. Shown(c)'
    BY <2>3, Zenon DEF ClientOK, Shown, Follows
  <2> QED
    BY <2>4, <2>5, <2>6, Zenon DEF ClientOK
<1>8. CASE c \notin cast.restarting /\ call[c] \in Requests /\ Granted(c)
  <2>1. ok
    BY <1>8, Zenon DEF Granted
  <2>2. CASE call[c] \in Begins
    <3>1. computes
      BY <2>1, <2>2, Zenon
    <3>2. /\ log' = [log EXCEPT ![c] = Append(@, Entry(c))]
          /\ cpc'[c] = "compute" /\ down'[c] = Null /\ UNCHANGED <<call, up>>
      BY <1>1, <3>1, Zenon DEF AlgTypes, ClientTypes
    <3> QED
      BY <1>1, <1>8, <2>2, <3>2, LetIn, Zenon
  <2>3. CASE call[c] \notin Begins
    <3>1. ~computes
      BY <2>3, Zenon DEF Begins
    <3>2. CASE request = "exit"
      BY <1>1, <1>4, <3>1, <3>2, Zenon
    <3>3. CASE request # "exit"
      <4>1. request \in Begins /\ Before(request) = After(call[c])
        BY <1>8, <2>1, <2>3, <3>3, Table, Zenon DEF NextRequest, Requests, Begins
      <4>2. sent /\ UNCHANGED log
        BY <1>1, <1>3, <3>1, <3>3, Zenon
      <4> HIDE DEF request
      <4>3. request \in Requests /\ state[c] = Before(request)
        BY <1>2, <1>8, <3>3, <4>1, Zenon DEF Granted
      <4> QED
        BY <1>1, <1>5, <1>8, <4>1, <4>2, <4>3, SentClient, Zenon
    <3> QED
      BY <3>2, <3>3, Zenon
  <2> QED
    BY <2>2, <2>3, Zenon
<1> QED
  BY <1>1, <1>6, <1>7, <1>8, Zenon DEF ClientOK, PhaseOK, Asks, Works

LEMMA ClientStep ==
  ASSUME AlgTypes, RoundOK, NEW c \in Clients, Client(c) \/ Crash(c)
  PROVE  RoundOK'
<1>1. /\ UNCHANGED <<cast, dep, resolved, level, state, registryVars, loopVars>>
      /\ \A d \in Clients \ {c} :
           /\ cpc'[d] = cpc[d] /\ call'[d] = call[d] /\ up'[d] = up[d] /\ down'[d] = down[d]
           /\ log'[d] = log[d] /\ hpc'[d] = hpc[d]
  <2>1. UNCHANGED <<cast, dep, resolved, level, state, registryVars, loopVars>>
    BY Zenon DEF Client, Register, Answered, Computed, Crash, handlerVars
  <2>2. ASSUME NEW d \in Clients \ {c} PROVE hpc'[d] = hpc[d] /\ down'[d] = down[d]
    BY ZenonT(30) DEF Client, Register, Answered, Computed, Crash, handlerVars, AlgTypes, ClientTypes,
       HandlerTypes
  <2>3. ASSUME NEW d \in Clients \ {c}
        PROVE  cpc'[d] = cpc[d] /\ call'[d] = call[d] /\ up'[d] = up[d] /\ log'[d] = log[d]
    BY Zenon DEF Client, Register, Answered, Computed, Crash, AlgTypes, ClientTypes, Send, Exit
  <2> QED
    BY <2>1, <2>2, <2>3, Zenon
<1>2. TreeOK' /\ RegistryOK'
  BY <1>1, RegistryFrame, Zenon DEF RoundOK, registryVars, AlgTypes, RegistryTypes
<1>3. WalkOK' /\ Turns' /\ Inits' /\ Belows'
  BY <1>1, WalkFrame, BelowFrame, Zenon DEF RoundOK, registryVars
<1>4. Resolutions'
  BY <1>1, Zenon DEF RoundOK, Resolutions, DepsOK
<1>5. ClientOK(c)'
  <2>1. ClientOK(c)
    BY Zenon DEF RoundOK, Phases
  <2>2. CASE Crash(c)
    <3>1. cpc'[c] = "gone" /\ cpc[c] # "new" /\ UNCHANGED <<cast, call, up, log, hpc, state>>
      BY <2>2, Zenon DEF Crash, Exit, AlgTypes, ClientTypes, handlerVars
    <3> QED
      BY <2>1, <3>1, GoneClient, Zenon
  <2> QED
    BY <2>1, <2>2, RegisterClient, AnsweredClient, ComputedClient, Zenon DEF Client
<1>6. Phases'
  <2>1. ASSUME NEW d \in Clients, d # c PROVE ClientOK(d)'
    <3>1. ClientOK(d) /\ d \in Clients \ {c}
      BY <2>1, Zenon DEF RoundOK, Phases
    <3>2. state'[d] = state[d] /\ graph' = graph /\ batch' = batch /\ freed' = freed
      BY <1>1, Zenon DEF registryVars, loopVars
    <3> QED
      BY <1>1, <3>1, <3>2, ClientFrame, Zenon
  <2> QED
    BY <1>5, <2>1, Zenon DEF Phases
<1> QED
  BY <1>2, <1>3, <1>4, <1>6, Zenon DEF RoundOK

-----------------------------------------------------------------------------
(***************************************************************************)
(* Registration: the steps that leave the tree alone.                      *)
(***************************************************************************)
\* The server's end leaves the walk as it is, and no more is asked of it.
LEMMA WalkEnds ==
  ASSUME lpc' = "dead", WalkOK
  PROVE  WalkOK' /\ Turns' /\ Inits'
BY Zenon DEF WalkOK, Walking, Turns, Inits

\* The labels of a handler before add_alg.
Early == {"has_alg", "state", "delete", "erase", "resolve", "level", "add"}

\* A handler before add_alg: its client has no record and waits.
LEMMA EarlyClient ==
  ASSUME NEW c \in Clients, ClientOK(c), hpc[c] \in Early
  PROVE  /\ state[c] = Null /\ up[c] = Null /\ call[c] = "REGISTER_ALG"
         /\ cpc[c] \in {"wait", "gone"}
         /\ cpc[c] = "wait" => Registers(c) /\ down[c] = Null
<1>1. HandlerOK(c) /\ PhaseOK(c) /\ hpc[c] \notin {"none", "reply"}
  BY Zenon DEF ClientOK, Early
<1>2. /\ state[c] = Null /\ up[c] = Null /\ call[c] = "REGISTER_ALG"
      /\ cpc[c] \in {"wait", "gone"}
  BY <1>1, Zenon DEF HandlerOK
<1>3. cpc[c] = "wait" => Registers(c)
  BY <1>1, <1>2, Zenon DEF PhaseOK, Requests, Begins
<1> QED
  BY <1>1, <1>2, <1>3, Zenon DEF Registers

\* Its client is as before, and has perhaps been refused.
LEMMA EarlyFrame ==
  ASSUME NEW c \in Clients, ClientOK(c), hpc[c] \in Early, hpc'[c] \in Early \cup {"none"},
         UNCHANGED <<cast, cpc, call, up, log, state, graph, batch>>,
         \/ down'[c] = down[c]
         \/ hpc'[c] = "none" /\ down'[c] # Null /\ ~down'[c].ok
  PROVE  ClientOK(c)'
<1>1. /\ state[c] = Null /\ up[c] = Null /\ call[c] = "REGISTER_ALG"
      /\ cpc[c] \in {"wait", "gone"}
      /\ cpc[c] = "wait" => Registers(c) /\ down[c] = Null
  BY EarlyClient, Zenon
<1>2. HandlerOK(c)' /\ RequestOK(c)'
  BY <1>1, Zenon DEF HandlerOK, RequestOK, Early
<1>3. PhaseOK(c)'
  BY <1>1, Zenon DEF PhaseOK, Registers, Early
<1>4. Shown(c)'
  BY Zenon DEF ClientOK, Shown, Follows
<1>5. Alive(c)' => LogOK(c)'
  BY <1>1, NullIsNew, Zenon DEF ClientOK, Alive, LogOK
<1> QED
  BY <1>2, <1>3, <1>4, <1>5, Zenon DEF ClientOK

\* Everything but the client c, when only c's handler moves.
LEMMA HandlerFrame ==
  ASSUME AlgTypes, RoundOK, NEW c \in Clients,
         UNCHANGED <<cast, clientVars, up, state, registryVars>>,
         UNCHANGED loopVars \/ ServerDies,
         \A d \in Clients \ {c} : hpc'[d] = hpc[d] /\ down'[d] = down[d],
         \A d \in Clients : level'[d] = level[d] \/ (d = c /\ state[c] = Null),
         ClientOK(c)', Resolutions'
  PROVE  RoundOK'
<1>1. TreeOK' /\ RegistryOK'
  BY RegistryFrame, Zenon DEF RoundOK, registryVars, AlgTypes, RegistryTypes
<1>2. WalkOK' /\ Turns' /\ Inits'
  BY WalkFrame, WalkEnds, Zenon DEF RoundOK, registryVars, ServerDies
<1>3. Belows'
  BY BelowFrame, Zenon DEF RoundOK, registryVars
<1>4. Phases'
  <2>1. ASSUME NEW d \in Clients, d # c PROVE ClientOK(d)'
    <3>1. ClientOK(d) /\ d \in Clients \ {c}
      BY <2>1, Zenon DEF RoundOK, Phases
    <3>2. /\ cpc'[d] = cpc[d] /\ call'[d] = call[d] /\ up'[d] = up[d] /\ log'[d] = log[d]
          /\ state'[d] = state[d] /\ graph' = graph /\ batch' = batch /\ freed' = freed
      BY Zenon DEF clientVars, registryVars, loopVars, ServerDies
    <3> QED
      BY <3>1, <3>2, ClientFrame, Zenon
  <2> QED
    BY <2>1, Zenon DEF Phases
<1> QED
  BY <1>1, <1>2, <1>3, <1>4, Zenon DEF RoundOK

\* HasAlg, TestState, DeleteAlg and Resolve.
LEMMA LookupStep ==
  ASSUME AlgTypes, RoundOK, NEW c \in Clients, UNCHANGED cast,
         HasAlg(c) \/ TestState(c) \/ DeleteAlg(c) \/ Resolve(c)
  PROVE  RoundOK'
<1>1. /\ UNCHANGED <<clientVars, up, state, registryVars, dep, resolved, level>>
      /\ UNCHANGED loopVars \/ ServerDies
  BY Zenon DEF HasAlg, TestState, DeleteAlg, Resolve
<1>2. /\ hpc[c] \in Early
      /\ \E label \in Early \cup {"none"} :
           /\ HGoto(c, label)
           /\ UNCHANGED down \/ (label = "none" /\ Reply(c, "REGISTER_ALG", FALSE))
  BY Zenon DEF HasAlg, TestState, DeleteAlg, Resolve, Early
<1>3. /\ hpc'[c] \in Early \cup {"none"}
      /\ \/ down'[c] = down[c]
         \/ hpc'[c] = "none" /\ down'[c] # Null /\ ~down'[c].ok
      /\ \A d \in Clients \ {c} : hpc'[d] = hpc[d] /\ down'[d] = down[d]
  <2>1. PICK label \in Early \cup {"none"} :
           /\ HGoto(c, label)
           /\ UNCHANGED down \/ (label = "none" /\ Reply(c, "REGISTER_ALG", FALSE))
    BY <1>2, Zenon
  <2>2. hpc'[c] = label /\ \A d \in Clients \ {c} : hpc'[d] = hpc[d]
    BY <2>1, Zenon DEF HGoto, AlgTypes, HandlerTypes
  <2>3. CASE Reply(c, "REGISTER_ALG", FALSE)
    <3>1. /\ down'[c] = [action |-> "REGISTER_ALG", ok |-> FALSE, batch |-> batch]
          /\ \A d \in Clients \ {c} : down'[d] = down[d]
      BY <2>3, Zenon DEF Reply, AlgTypes, ClientTypes
    <3>2. [action |-> "REGISTER_ALG", ok |-> FALSE, batch |-> batch] \in Answers
      BY Zenon DEF Answers, AlgTypes, LoopTypes
    <3>3. down'[c] # Null
      BY <3>1, <3>2, NullIsNew, Zenon
    <3>4. label = "none" \/ UNCHANGED down
      BY <2>1, Zenon
    <3>5. ~down'[c].ok
      BY <3>1
    <3> QED
      BY <2>2, <3>1, <3>3, <3>4, <3>5, Zenon
  <2> QED
    BY <2>1, <2>2, <2>3, Zenon
<1>4. ClientOK(c)'
  <2>1. ClientOK(c) /\ UNCHANGED <<cpc, call, log, freed, graph, batch>>
    BY <1>1, Zenon DEF RoundOK, Phases, clientVars, registryVars, loopVars, ServerDies
  <2> QED
    BY <1>1, <1>2, <1>3, <2>1, EarlyFrame, Zenon
<1>5. Resolutions'
  BY <1>1, Zenon DEF RoundOK, Resolutions, DepsOK
<1> QED
  BY <1>1, <1>3, <1>4, <1>5, HandlerFrame, Zenon

LEMMA DepLevelStep ==
  ASSUME AlgTypes, RoundOK, NEW c \in Clients, UNCHANGED cast, DepLevel(c)
  PROVE  RoundOK'
<1> DEFINE r == map[Deps[c][dep[c] + 1]]
<1>1. /\ UNCHANGED <<clientVars, up, down, state, registryVars>>
      /\ UNCHANGED loopVars \/ ServerDies
      /\ hpc[c] = "level"
  BY Zenon DEF DepLevel
<1>2. dep[c] + 1 \in 1 .. Len(Deps[c]) /\ Deps[c][dep[c] + 1] \in Names
  BY <1>1, AlgAssumption, SMTT(30) DEF AlgTypes, HandlerTypes, AlgAssumption
<1>3. r \in Clients \cup {Null} /\ (r # Null => state[r] # Null)
  BY <1>2, Zenon DEF RoundOK, RegistryOK, AlgTypes, RegistryTypes
<1>4. ClientOK(c) /\ hpc[c] \in Early /\ state[c] = Null
  BY <1>1, EarlyClient, Zenon DEF RoundOK, Phases, Early
<1>5. /\ hpc'[c] \in {"none", "resolve"}
      /\ \A d \in Clients \ {c} : hpc'[d] = hpc[d] /\ level'[d] = level[d] /\ resolved'[d] = resolved[d]
      /\ \A d \in Clients : down'[d] = down[d]
      /\ level'[c] >= level[c] /\ level'[c] \in Nat
      /\ \/ resolved'[c] = resolved[c]
         \/ r \in Clients /\ r # Null /\ level'[c] > level[r] /\ resolved'[c] = resolved[c] \cup {r}
  <2>1. CASE r = Null
    BY <2>1, <1>1 DEF DepLevel, HGoto, AlgTypes, HandlerTypes
  <2>2. CASE r # Null
    <3>1. /\ hpc' = [hpc EXCEPT ![c] = "resolve"]
          /\ level' = [level EXCEPT ![c] = IF level[r] >= @ THEN level[r] + 1 ELSE @]
          /\ resolved' = [resolved EXCEPT ![c] = @ \cup {r}]
      BY <2>2, Zenon DEF DepLevel, HGoto
    <3>2. r \in Clients
      BY <1>3, <2>2, Zenon
    <3> HIDE DEF r
    <3> QED
      BY <1>1, <2>2, <3>1, <3>2 DEF AlgTypes, HandlerTypes
  <2> QED
    BY <2>1, <2>2, Zenon
<1> HIDE DEF r
<1>6. ClientOK(c)'
  <2>1. UNCHANGED <<cpc, call, log, freed, graph, batch>> /\ hpc'[c] \in Early \cup {"none"}
    BY <1>1, <1>5, Zenon DEF clientVars, registryVars, loopVars, ServerDies, Early
  <2> QED
    BY <1>1, <1>4, <1>5, <2>1, EarlyFrame, Zenon
<1>7. Resolutions'
  <2>1. ASSUME NEW d \in Clients, NEW e \in resolved'[d] PROVE state'[e] # Null /\ level'[e] < level'[d]
    <3>1. CASE e \in resolved[d]
      <4>1. e \in Clients /\ state[e] # Null /\ level[e] < level[d]
        BY <3>1, Zenon DEF RoundOK, Resolutions, DepsOK, AlgTypes, HandlerTypes
      <4>2. e # c
        BY <4>1, <1>4, Zenon
      <4>3. level'[e] = level[e] /\ level'[d] >= level[d] /\ level[e] \in Nat /\ level[d] \in Nat
            /\ level'[d] \in Nat
        <5>1. level[e] \in Nat /\ level[d] \in Nat
          BY <4>1, Zenon DEF AlgTypes, HandlerTypes
        <5>2. CASE d = c
          BY <4>1, <4>2, <1>5, <5>1, <5>2, Zenon
        <5>3. CASE d # c
          BY <4>1, <4>2, <1>5, <5>1, <5>3, SMTT(30)
        <5> QED
          BY <5>2, <5>3, Zenon
      <4> QED
        BY <4>1, <4>3, <1>1, SMTT(30)
    <3>2. CASE e \notin resolved[d]
      <4>1. d = c /\ e = r /\ r \in Clients /\ r # Null /\ level'[c] > level[r]
        BY <3>2, <1>5, Zenon
      <4>2. r # c
        BY <4>1, <1>3, <1>4, Zenon
      <4>3. level'[r] = level[r] /\ level[r] \in Nat /\ level'[c] \in Nat
        BY <4>1, <4>2, <1>5, Zenon DEF AlgTypes, HandlerTypes
      <4> QED
        BY <4>1, <4>3, <1>1, <1>3, Zenon
    <3> QED
      BY <3>1, <3>2, Zenon
  <2> QED
    BY <2>1, Zenon DEF Resolutions, DepsOK
<1> QED
  BY <1>1, <1>4, <1>5, <1>6, <1>7, HandlerFrame, Zenon

LEMMA SendRegisteredStep ==
  ASSUME AlgTypes, RoundOK, NEW c \in Clients, UNCHANGED cast, SendRegistered(c)
  PROVE  RoundOK'
<1>1. /\ UNCHANGED <<clientVars, up, state, registryVars, dep, resolved, level, loopVars>>
      /\ hpc[c] = "reply" /\ hpc' = [hpc EXCEPT ![c] = "none"]
      /\ down' = [down EXCEPT ![c] = [action |-> "REGISTER_ALG", ok |-> TRUE, batch |-> batch]]
  BY Zenon DEF SendRegistered, HGoto, Reply
<1>2. /\ hpc'[c] = "none"
      /\ down'[c] = [action |-> "REGISTER_ALG", ok |-> TRUE, batch |-> batch]
      /\ \A d \in Clients \ {c} : hpc'[d] = hpc[d] /\ down'[d] = down[d]
  BY <1>1, Zenon DEF AlgTypes, ClientTypes, HandlerTypes
<1>3. down'[c] # Null /\ down'[c].ok /\ down'[c].action = "REGISTER_ALG"
  <2>1. [action |-> "REGISTER_ALG", ok |-> TRUE, batch |-> batch] \in Answers
    BY Zenon DEF Answers, AlgTypes, LoopTypes
  <2>2. down'[c] # Null
    BY <1>2, <2>1, NullIsNew, Zenon
  <2> QED
    BY <1>2, <2>2
<1>4. ClientOK(c)'
  <2>1. ClientOK(c) /\ UNCHANGED <<cpc, call, log, freed, graph, batch>>
    BY <1>1, Zenon DEF RoundOK, Phases, clientVars, registryVars, loopVars
  <2>2. /\ call[c] = "REGISTER_ALG" /\ up[c] = Null /\ cpc[c] \in {"wait", "gone"}
        /\ state[c] # Null
    BY <1>1, <2>1, Zenon DEF ClientOK, HandlerOK
  <2>3. cpc[c] = "wait" => state[c] = "READY_INIT"
    BY <1>1, <2>1, <2>2, Zenon DEF ClientOK, PhaseOK, Registers, Requests, Begins
  <2>4. HandlerOK(c)' /\ RequestOK(c)'
    BY <1>1, <1>2, <2>1, <2>2, Zenon DEF HandlerOK, RequestOK
  <2>5. PhaseOK(c)'
    BY <1>1, <1>2, <1>3, <2>1, <2>2, <2>3, Zenon DEF PhaseOK, Registers
  <2>6. Shown(c)'
    BY <2>1, Zenon DEF ClientOK, Shown, Follows
  <2>7. Alive(c)' => LogOK(c)'
    BY <1>1, <2>1, <2>2, <2>3, NullIsNew, Zenon DEF ClientOK, Alive, LogOK
  <2> QED
    BY <2>4, <2>5, <2>6, <2>7, Zenon DEF ClientOK
<1>5. Resolutions'
  BY <1>1, Zenon DEF RoundOK, Resolutions, DepsOK
<1> QED
  BY <1>1, <1>2, <1>4, <1>5, HandlerFrame, Zenon

-----------------------------------------------------------------------------
(***************************************************************************)
(* The inner loop of delete_alg.                                           *)
(***************************************************************************)
\* A set of numbers has a least one.
LEMMA LeastElement ==
  ASSUME NEW T, T \subseteq Nat, T # {}
  PROVE  \E x \in T : \A y \in T : x <= y
<1>1. IsWellFoundedOn({ss \in Nat \X Nat : ss[1] < ss[2]}, Nat)
  BY NatLessThanWellFounded, Zenon DEF OpToRel
<1> DEFINE R == {ss \in Nat \X Nat : ss[1] < ss[2]}
<1>2. \E x \in T : \A y \in T : ~ (<<y, x>> \in R)
  <2> HIDE DEF R
  <2> QED BY <1>1, WFMin, Zenon DEF R
<1>3. PICK x \in T : \A y \in T : ~ (<<y, x>> \in R)
  BY <1>2, Zenon
<1>4. ASSUME NEW y \in T PROVE x <= y
  <2>1. x \in Nat /\ y \in Nat /\ <<y, x>> \notin R
    BY <1>3, Zenon
  <2>2. y < x => <<y, x>> \in R
    BY <2>1, Zenon
  <2> QED BY <2>1, <2>2
<1> QED BY <1>3, <1>4, Zenon

\* Induction over the numbers in a set.
LEMMA SetInduction ==
  ASSUME NEW S, 0 \in S, \A n \in Nat : n \in S => n + 1 \in S
  PROVE  Nat \subseteq S
<1> SUFFICES ASSUME Nat \ S # {} PROVE FALSE
  BY Zenon
<1>1. PICK x \in Nat \ S : \A y \in Nat \ S : x <= y
  BY LeastElement, Zenon
<1>2. x - 1 \in Nat /\ x - 1 \in S /\ x = (x - 1) + 1
  BY <1>1
<1> QED BY <1>2, Zenon

\* One unfolding of the function that EraseName defines.
ErasePass(f, v, n) ==
  [j \in 0 .. v.size |->
     IF j = 0 THEN v
     ELSE IF j <= f[j - 1].size /\ NameOf[f[j - 1].mem[j]] = n
     THEN Erase(f[j - 1], j) ELSE f[j - 1]]

\* A function that satisfies its equation is the one meant.
LEMMA EraseUnique ==
  ASSUME NEW v, NEW n, NEW g, v.size \in Nat, g = ErasePass(g, v, n)
  PROVE  EraseName(v, n) = g[v.size]
<1> DEFINE after == CHOOSE f : f = ErasePass(f, v, n)
<1>1. EraseName(v, n) = after[v.size]
  BY Zenon DEF EraseName, ErasePass
<1>2. after = ErasePass(after, v, n)
  BY Zenon
<1> HIDE DEF after
<1> DEFINE S == {j \in Nat : j <= v.size => after[j] = g[j]}
<1>3. after[0] = v /\ g[0] = v
  BY <1>2 DEF ErasePass
<1>4. ASSUME NEW j \in Nat, j \in S PROVE j + 1 \in S
  <2>1. CASE j + 1 <= v.size
    <3>1. after[j] = g[j] /\ j + 1 \in 0 .. v.size /\ j + 1 # 0 /\ (j + 1) - 1 = j
      BY <2>1, <1>4, SMTT(30)
    <3>2. after[j + 1] = IF j + 1 <= after[j].size /\ NameOf[after[j].mem[j + 1]] = n
                         THEN Erase(after[j], j + 1) ELSE after[j]
      BY <3>1, <1>2, ZenonT(30) DEF ErasePass
    <3>3. g[j + 1] = IF j + 1 <= g[j].size /\ NameOf[g[j].mem[j + 1]] = n
                         THEN Erase(g[j], j + 1) ELSE g[j]
      BY <3>1, ZenonT(30) DEF ErasePass
    <3> QED
      BY <3>1, <3>2, <3>3
  <2> QED
    BY <2>1
<1>5. 0 \in S
  BY <1>3, Zenon
<1> HIDE DEF S
<1>6. Nat \subseteq S
  BY <1>4, <1>5, SetInduction, Zenon
<1> QED
  BY <1>1, <1>6 DEF S

\* Nothing is erased where no record has the name, ...
LEMMA EraseNone ==
  ASSUME NEW v, NEW n, v.size \in Nat, \A i \in 1 .. v.size : NameOf[v.mem[i]] # n
  PROVE  EraseName(v, n) = v
<1> DEFINE g == [j \in 0 .. v.size |-> v]
<1>1. \A j \in 0 .. v.size : g[j] = v
  BY Zenon
<1>2. g = ErasePass(g, v, n)
  BY DEF ErasePass
<1> QED
  BY <1>1, <1>2, EraseUnique

\* ... and one record where one has it.
LEMMA EraseOne ==
  ASSUME NEW v, NEW n, v.size \in Nat, NEW k \in 1 .. v.size, NameOf[v.mem[k]] = n,
         \A i \in 1 .. v.size : i # k => NameOf[v.mem[i]] # n,
         v.mem \in Seq(Clients), v.size <= Len(v.mem)
  PROVE  EraseName(v, n) = Erase(v, k)
<1> DEFINE g == [j \in 0 .. v.size |-> IF j < k THEN v ELSE Erase(v, k)]
<1> DEFINE h(j) == IF j = 0 THEN v
     ELSE IF j <= g[j - 1].size /\ NameOf[g[j - 1].mem[j]] = n
     THEN Erase(g[j - 1], j) ELSE g[j - 1]
<1>1. ASSUME NEW j \in 0 .. v.size PROVE g[j] = h(j)
  <2>1. CASE j < k
    BY <2>1
  <2>2. CASE j = k
    BY <2>2, SMTT(30)
  <2>3. CASE j > k
    <3>1. g[j - 1] = Erase(v, k) /\ g[j] = Erase(v, k)
      BY <2>3, SMTT(30)
    <3>2. ~ (j <= Erase(v, k).size /\ NameOf[Erase(v, k).mem[j]] = n)
      <4> SUFFICES ASSUME j <= v.size - 1 PROVE NameOf[Erase(v, k).mem[j]] # n
        BY Zenon DEF Erase
      <4>1. j + 1 \in 1 .. v.size /\ j + 1 # k /\ j \in DOMAIN v.mem
        BY <2>3
      <4>2. Erase(v, k).mem[j] = v.mem[j + 1]
        BY <4>1, <2>3, SMTT(30) DEF Erase
      <4> QED
        BY <4>1, <4>2, Zenon
    <3> QED
      BY <3>1, <3>2, <2>3
  <2> QED
    BY <2>1, <2>2, <2>3, SMTT(30)
<1>2. g = ErasePass(g, v, n)
  BY <1>1, Zenon DEF ErasePass
<1> QED
  BY <1>2, EraseUnique, SMTT(30)

\* A function on an initial segment of the numbers is a sequence.
LEMMA FunctionIsSeq ==
  ASSUME NEW S, NEW m \in Nat, NEW f \in [1 .. m -> S]
  PROVE  f \in Seq(S) /\ Len(f) = m
OBVIOUS

\* The vector after one erasure has the other records, each once.
LEMMA EraseVector ==
  ASSUME NEW v \in [mem : Seq(Clients), size : Nat], v.size <= Len(v.mem), NEW k \in 1 .. v.size,
         \A i, j \in 1 .. v.size : v.mem[i] = v.mem[j] => i = j
  PROVE  /\ Erase(v, k) \in [mem : Seq(Clients), size : Nat]
         /\ Erase(v, k).size <= Len(Erase(v, k).mem)
         /\ \A i \in 1 .. Erase(v, k).size : \E j \in 1 .. v.size :
              Erase(v, k).mem[i] = v.mem[j] /\ v.mem[j] # v.mem[k]
         /\ \A i, j \in 1 .. Erase(v, k).size : Erase(v, k).mem[i] = Erase(v, k).mem[j] => i = j
         /\ \A j \in 1 .. v.size : v.mem[j] # v.mem[k] =>
              \E i \in 1 .. Erase(v, k).size : Erase(v, k).mem[i] = v.mem[j]
<1> DEFINE s == v.mem
           n == v.size
           w == [i \in 1 .. Len(s) |-> IF i >= k /\ i < n THEN s[i + 1] ELSE s[i]]
<1>1. s \in Seq(Clients) /\ n \in Nat /\ n <= Len(s) /\ Len(s) \in Nat /\ DOMAIN s = 1 .. Len(s)
  OBVIOUS
<1>2. Erase(v, k).mem = w /\ Erase(v, k).size = n - 1
  BY <1>1, Zenon DEF Erase
<1>3. k \in 1 .. n /\ \A i, j \in 1 .. n : s[i] = s[j] => i = j
  BY Zenon
<1>4. \A i \in 1 .. Len(s) : s[i] \in Clients
  BY <1>1, SMTT(30)
<1>5. Erase(v, k) = [mem |-> w, size |-> n - 1]
  BY <1>1, Zenon DEF Erase
<1> HIDE DEF s, n
<1>6. w \in Seq(Clients) /\ Len(w) = Len(s)
  <2>1. \A i \in 1 .. Len(s) : w[i] \in Clients
    BY <1>1, <1>3, <1>4
  <2>2. w \in [1 .. Len(s) -> Clients]
    BY <2>1, Zenon
  <2> HIDE DEF w
  <2> QED
    BY <1>1, <2>2, FunctionIsSeq, Zenon
<1>7. ASSUME NEW i \in 1 .. n - 1
      PROVE  \E j \in 1 .. n : j # k /\ w[i] = s[j] /\ (i < k => j = i) /\ (i >= k => j = i + 1)
  <2>1. CASE i < k
    <3>1. i \in 1 .. n /\ i # k /\ w[i] = s[i]
      BY <1>1, <1>3, <2>1
    <3> QED
      BY <2>1, <3>1, <1>1, <1>3
  <2>2. CASE i >= k
    <3>1. i + 1 \in 1 .. n /\ i + 1 # k /\ w[i] = s[i + 1]
      BY <1>1, <1>3, <2>2, SMTT(30)
    <3> QED
      BY <2>2, <3>1, <1>1, <1>3, SMTT(30)
  <2>3. i < k \/ i >= k
    BY <1>1, <1>3
  <2> QED
    BY <2>1, <2>2, <2>3, Zenon
<1>8. ASSUME NEW j \in 1 .. n, j # k PROVE \E i \in 1 .. n - 1 : w[i] = s[j]
  <2>1. CASE j < k
    <3>1. j \in 1 .. n - 1 /\ w[j] = s[j]
      BY <1>1, <1>3, <2>1
    <3> QED
      BY <3>1, Zenon
  <2>2. CASE j > k
    <3>1. j - 1 \in 1 .. n - 1 /\ (j - 1) + 1 = j /\ w[j - 1] = s[(j - 1) + 1]
      BY <1>1, <1>3, <2>2
    <3> QED
      BY <3>1, Zenon
  <2>3. j < k \/ j > k
    BY <1>1, <1>3, <1>8, SMTT(30)
  <2> QED
    BY <2>1, <2>2, <2>3, Zenon
<1> HIDE DEF w
<1>9. ASSUME NEW i \in 1 .. n - 1, NEW j \in 1 .. n - 1, w[i] = w[j] PROVE i = j
  <2>1. PICK a \in 1 .. n : a # k /\ w[i] = s[a] /\ (i < k => a = i) /\ (i >= k => a = i + 1)
    BY <1>7, Zenon
  <2>2. PICK b \in 1 .. n : b # k /\ w[j] = s[b] /\ (j < k => b = j) /\ (j >= k => b = j + 1)
    BY <1>7, Zenon
  <2>3. a = b
    BY <2>1, <2>2, <1>9, <1>3, Zenon
  <2> QED
    BY <2>1, <2>2, <2>3, <1>1, <1>3, SMTT(30)
<1>10. \A i \in 1 .. n - 1 : \E j \in 1 .. n : w[i] = s[j] /\ s[j] # s[k]
  BY <1>3, <1>7
<1>11. \A j \in 1 .. n : s[j] # s[k] => \E i \in 1 .. n - 1 : w[i] = s[j]
  BY <1>8, Zenon
<1>12. n - 1 \in Nat /\ n - 1 <= Len(s)
  BY <1>1, <1>3
<1> QED
  BY <1>2, <1>5, <1>6, <1>9, <1>10, <1>11, <1>12 DEF s, n

-----------------------------------------------------------------------------
(***************************************************************************)
(* add_alg.                                                                *)
(***************************************************************************)
Vectors == [mem : Seq(Clients), size : Nat]

\* The vectors of a tree.
LEMMA VectorType ==
  ASSUME NEW t \in Seq(Vectors), NEW l \in 1 .. Len(t)
  PROVE  t[l] \in Vectors /\ t[l].size \in Nat /\ t[l].mem \in Seq(Clients)
<1>1. t[l] \in Vectors
  OBVIOUS
<1> QED
  BY <1>1, Zenon DEF Vectors

LEMMA PushBackFacts ==
  ASSUME NEW v \in Vectors, v.size <= Len(v.mem), NEW c \in Clients
  PROVE  /\ PushBack(v, c) \in Vectors
         /\ PushBack(v, c).size = v.size + 1
         /\ PushBack(v, c).size <= Len(PushBack(v, c).mem)
         /\ \A i \in 1 .. v.size : PushBack(v, c).mem[i] = v.mem[i]
         /\ PushBack(v, c).mem[v.size + 1] = c
<1> DEFINE s == v.mem
           n == v.size
           t == IF n < Len(s) THEN [s EXCEPT ![n + 1] = c] ELSE Append(s, c)
<1>1. s \in Seq(Clients) /\ n \in Nat /\ n <= Len(s)
  BY Zenon DEF Vectors
<1>2. PushBack(v, c) = [mem |-> t, size |-> n + 1]
  BY Zenon DEF PushBack
<1> HIDE DEF s, n
<1>3. /\ t \in Seq(Clients) /\ n + 1 <= Len(t)
      /\ \A i \in 1 .. n : t[i] = s[i]
      /\ t[n + 1] = c
  <2>1. CASE n < Len(s)
    BY <1>1, <2>1
  <2>2. CASE ~(n < Len(s))
    BY <1>1, <2>2
  <2> QED
    BY <2>1, <2>2, Zenon
<1> HIDE DEF t
<1> QED
  BY <1>1, <1>2, <1>3 DEF s, n, Vectors

\* The places in the tree after add_alg of an algorithm at the top level or above:
\* the places before, and one more for it.
LEMMA AddPlaces ==
  ASSUME AlgTypes, TreeOK, NEW c \in Clients, AddAlg(c), ~moved'
  PROVE  /\ TreeOK'
         /\ levels' = level[c] + 1 /\ levels' \in Nat /\ levels <= levels' /\ levels' >= 1
         /\ \A l \in 1 .. levels' : \A i \in 1 .. tree'[l].size :
              \/ l \in 1 .. levels /\ i \in 1 .. tree[l].size /\ tree'[l].mem[i] = tree[l].mem[i]
              \/ l = levels' /\ i = tree'[l].size /\ tree'[l].mem[i] = c
         /\ \A l \in 1 .. levels :
              /\ tree[l].size <= tree'[l].size
              /\ l < levels' => tree'[l].size = tree[l].size
              /\ \A i \in 1 .. tree[l].size : tree'[l].mem[i] = tree[l].mem[i]
         /\ tree'[levels'].size \in 1 .. tree'[levels'].size
         /\ tree'[levels'].mem[tree'[levels'].size] = c
<1> DEFINE m == level[c] + 1
           empty == [mem |-> << >>, size |-> 0]
           V(l) == IF l > levels THEN empty ELSE tree[l]
           W(l) == IF l = m THEN PushBack(V(l), c) ELSE V(l)
<1>1. /\ levels \in Nat /\ m \in Nat /\ m >= 1
      /\ tree \in Seq(Vectors) /\ Len(tree) = levels
      /\ \A l \in 1 .. levels : tree[l].size <= Len(tree[l].mem)
  BY SMTT(30) DEF AlgTypes, RegistryTypes, HandlerTypes, TreeOK, Vectors
<1>2. levels' = m /\ levels <= m
  <2>1. levels' = m /\ moved' = (moved \/ m < levels)
    BY Zenon DEF AddAlg
  <2>2. ~(m < levels)
    BY <2>1, Zenon
  <2> QED
    BY <1>1, <2>1, <2>2
<1>3. tree' = [l \in 1 .. m |-> W(l)]
  <2> DEFINE resized == [i \in 1 .. IF m > Len(tree) THEN m ELSE Len(tree) |->
                           IF i > levels /\ i <= m THEN empty ELSE tree[i]]
  <2>1. tree' = [resized EXCEPT ![m] = PushBack(@, c)]
    BY Zenon DEF AddAlg
  <2>2. resized = [l \in 1 .. m |-> V(l)]
    BY <1>1, <1>2
  <2> HIDE DEF resized, V, m
  <2>3. tree' = [l \in 1 .. m |-> IF l = m THEN PushBack(resized[m], c) ELSE resized[l]]
    BY <2>1, <2>2, Zenon
  <2>4. m \in 1 .. m
    BY <1>1
  <2>5. \A l \in 1 .. m : resized[l] = V(l)
    BY <2>2, Zenon
  <2> QED
    BY <2>3, <2>4, <2>5, Zenon
<1>4. ASSUME NEW l \in 1 .. m PROVE V(l) \in Vectors /\ V(l).size <= Len(V(l).mem)
  <2>1. CASE l > levels
    BY <2>1 DEF Vectors
  <2>2. CASE ~(l > levels)
    <3>1. l \in 1 .. levels /\ tree[l] \in Vectors
      BY <1>1, <2>2
    <3> QED
      BY <1>1, <2>2, <3>1, Zenon
  <2> QED
    BY <2>1, <2>2, Zenon
<1>5. ASSUME NEW l \in 1 .. m
      PROVE  /\ tree'[l] \in Vectors /\ tree'[l].size <= Len(tree'[l].mem)
             /\ V(l).size \in Nat
             /\ l # m => tree'[l] = V(l)
             /\ l = m => /\ tree'[l].size = V(l).size + 1
                         /\ tree'[l].mem[V(l).size + 1] = c
                         /\ \A i \in 1 .. V(l).size : tree'[l].mem[i] = V(l).mem[i]
  <2>1. tree'[l] = IF l = m THEN PushBack(V(l), c) ELSE V(l)
    BY <1>3, Zenon
  <2>2. V(l) \in Vectors /\ V(l).size <= Len(V(l).mem) /\ V(l).size \in Nat
    BY <1>4, Zenon DEF Vectors
  <2> HIDE DEF V, m
  <2> QED
    BY <2>1, <2>2, PushBackFacts
<1>6. TreeOK'
  <2>1. tree' \in [1 .. m -> Vectors]
    BY <1>3, <1>5, Zenon
  <2>2. tree' \in Seq(Vectors) /\ Len(tree') = m
    BY <1>1, <2>1, FunctionIsSeq, Zenon
  <2> QED
    BY <1>2, <1>5, <2>2, Zenon DEF TreeOK, Vectors
<1>7. /\ \A l \in 1 .. levels : l \in 1 .. m /\ V(l) = tree[l]
      /\ \A l \in 1 .. m : l \notin 1 .. levels => V(l).size = 0
      /\ m \in 1 .. m
  BY <1>1, <1>2
<1> HIDE DEF V, m
<1>8. ASSUME NEW l \in 1 .. levels', NEW i \in 1 .. tree'[l].size
      PROVE  \/ l \in 1 .. levels /\ i \in 1 .. tree[l].size /\ tree'[l].mem[i] = tree[l].mem[i]
             \/ l = levels' /\ i = tree'[l].size /\ tree'[l].mem[i] = c
  <2>1. l \in 1 .. m /\ V(l).size \in Nat
    BY <1>2, <1>5, Zenon
  <2>2. CASE l # m
    BY <2>1, <2>2, <1>5, <1>7, SMTT(30)
  <2>3. CASE l = m /\ i = V(l).size + 1
    BY <2>1, <2>3, <1>2, <1>5, Zenon
  <2>4. CASE l = m /\ i # V(l).size + 1
    <3>1. tree'[l].size = V(l).size + 1
      BY <2>1, <2>4, <1>5, Zenon
    <3>2. i \in 1 .. V(l).size
      BY <2>1, <2>4, <3>1, SMTT(30)
    <3>3. tree'[l].mem[i] = V(l).mem[i] /\ l \in 1 .. levels
      BY <2>1, <2>4, <3>2, <1>5, <1>7, SMTT(30)
    <3> QED
      BY <3>2, <3>3, <1>7, Zenon
  <2> QED
    BY <2>2, <2>3, <2>4, Zenon
<1>9. ASSUME NEW l \in 1 .. levels
      PROVE  /\ tree[l].size <= tree'[l].size
             /\ l < levels' => tree'[l].size = tree[l].size
             /\ \A i \in 1 .. tree[l].size : tree'[l].mem[i] = tree[l].mem[i]
  <2>1. l \in 1 .. m /\ V(l) = tree[l] /\ V(l).size \in Nat
    BY <1>5, <1>7, Zenon
  <2>2. CASE l # m
    BY <2>1, <2>2, <1>5, SMTT(30)
  <2>3. CASE l = m
    BY <2>1, <2>3, <1>1, <1>2, <1>5, SMTT(30)
  <2> QED
    BY <2>2, <2>3, Zenon
<1>10. /\ tree'[levels'].size \in 1 .. tree'[levels'].size
       /\ tree'[levels'].mem[tree'[levels'].size] = c
  BY <1>2, <1>5, <1>7, SMTT(30)
<1> QED
  BY <1>1, <1>2, <1>6, <1>8, <1>9, <1>10, Zenon DEF m

\* A record in the tree, and the one found under a name, are not of a client that
\* is still registering.
LEMMA NotEarly ==
  ASSUME AlgTypes, RoundOK, NEW c \in Clients, hpc[c] \in Early
  PROVE  /\ state[c] = Null /\ c \notin freed
         /\ \A l \in 1 .. levels : \A i \in 1 .. tree[l].size : tree[l].mem[i] # c
<1>1. state[c] = Null
  BY EarlyClient, Zenon DEF RoundOK, Phases
<1>2. c \notin freed
  BY <1>1, NullIsNew, Zenon DEF RoundOK, RegistryOK, Idle
<1>3. \A l \in 1 .. levels : \A i \in 1 .. tree[l].size : state[tree[l].mem[i]] # Null
  BY Zenon DEF RoundOK, RegistryOK, Placed, At
<1> QED
  BY <1>1, <1>2, <1>3, Zenon

LEMMA AddStep ==
  ASSUME AlgTypes, RoundOK, NEW c \in Clients, UNCHANGED cast, AddAlg(c), ~moved'
  PROVE  RoundOK'
<1>1. /\ hpc[c] = "add" /\ hpc' = [hpc EXCEPT ![c] = "reply"]
      /\ map' = [map EXCEPT ![NameOf[c]] = c]
      /\ state' = [state EXCEPT ![c] = "READY_INIT"]
      /\ UNCHANGED <<clientVars, up, down, dep, resolved, level, freed, loopVars>>
  BY Zenon DEF AddAlg, HGoto
<1>2. /\ TreeOK'
      /\ levels' = level[c] + 1 /\ levels' \in Nat /\ levels <= levels' /\ levels' >= 1
      /\ \A l \in 1 .. levels' : \A i \in 1 .. tree'[l].size :
           \/ l \in 1 .. levels /\ i \in 1 .. tree[l].size /\ tree'[l].mem[i] = tree[l].mem[i]
           \/ l = levels' /\ i = tree'[l].size /\ tree'[l].mem[i] = c
      /\ \A l \in 1 .. levels :
           /\ tree[l].size <= tree'[l].size
           /\ l < levels' => tree'[l].size = tree[l].size
           /\ \A i \in 1 .. tree[l].size : tree'[l].mem[i] = tree[l].mem[i]
      /\ tree'[levels'].size \in 1 .. tree'[levels'].size
      /\ tree'[levels'].mem[tree'[levels'].size] = c
  BY AddPlaces, Zenon DEF RoundOK
<1>3. /\ state[c] = Null /\ c \notin freed /\ hpc[c] \in Early
      /\ \A l \in 1 .. levels : \A i \in 1 .. tree[l].size : tree[l].mem[i] # c
  BY <1>1, NotEarly, Zenon DEF Early
<1>4. state'[c] = "READY_INIT" /\ \A d \in Clients \ {c} : state'[d] = state[d] /\ hpc'[d] = hpc[d]
  BY <1>1, Zenon DEF AlgTypes, RegistryTypes, HandlerTypes
<1>5. \A l \in 1 .. levels : \A i \in 1 .. tree[l].size :
        tree[l].mem[i] \in Clients /\ state'[tree[l].mem[i]] = state[tree[l].mem[i]]
  BY <1>3, <1>4, AtClient, Zenon DEF RoundOK, At
<1>6. levels \in Nat /\ \A l \in 1 .. levels : tree[l].size \in Nat /\ l \in 1 .. levels'
  <2>1. levels \in Nat /\ tree \in Seq(Vectors) /\ Len(tree) = levels
    BY Zenon DEF RoundOK, TreeOK, AlgTypes, RegistryTypes, Vectors
  <2> QED
    BY <1>2, <2>1, VectorType, SMTT(30)
<1>7. RegistryOK'
  <2>1. ASSUME NEW l \in 1 .. levels', NEW i \in 1 .. tree'[l].size
        PROVE  state'[tree'[l].mem[i]] # Null /\ tree'[l].mem[i] \notin freed
               /\ level[tree'[l].mem[i]] + 1 = l
    <3>1. CASE l = levels' /\ tree'[l].mem[i] = c
      BY <3>1, <1>2, <1>3, <1>4, NullIsNew, Zenon
    <3>2. CASE l \in 1 .. levels /\ i \in 1 .. tree[l].size /\ tree'[l].mem[i] = tree[l].mem[i]
      BY <3>2, <1>5, SMTT(30) DEF RoundOK, RegistryOK, Placed, At
    <3> QED
      BY <1>2, <3>1, <3>2, Zenon
  <2>2. ASSUME NEW l \in 1 .. levels', NEW i \in 1 .. tree'[l].size, NEW k \in 1 .. tree'[l].size,
               tree'[l].mem[i] = tree'[l].mem[k]
        PROVE  i = k
    <3>1. CASE l = levels' /\ i = tree'[l].size /\ tree'[l].mem[i] = c
      <4>1. \/ /\ l \in 1 .. levels /\ k \in 1 .. tree[l].size
               /\ tree'[l].mem[k] = tree[l].mem[k]
            \/ k = tree'[l].size
        BY <1>2, Zenon
      <4> QED
        BY <3>1, <4>1, <2>2, <1>3, Zenon
    <3>2. CASE /\ l \in 1 .. levels /\ i \in 1 .. tree[l].size
               /\ tree'[l].mem[i] = tree[l].mem[i]
      <4>1. k \in 1 .. tree[l].size /\ tree'[l].mem[k] = tree[l].mem[k]
        BY <3>2, <2>2, <1>2, <1>3, SMTT(30)
      <4> QED
        BY <3>2, <4>1, <2>2, Zenon DEF RoundOK, RegistryOK, At
    <3> QED
      BY <1>2, <3>1, <3>2, Zenon
  <2>3. ASSUME NEW d \in Clients \ freed, state'[d] # Null
        PROVE  \E l \in 1 .. levels' : \E i \in 1 .. tree'[l].size : tree'[l].mem[i] = d
    <3>1. CASE d = c
      <4>1. levels' \in 1 .. levels'
        BY <1>2, SMTT(30)
      <4> QED
        BY <3>1, <4>1, <1>2, SMTT(30)
    <3>2. CASE d # c
      <4>1. InTree(d)
        BY <2>3, <3>2, <1>4, Zenon DEF RoundOK, RegistryOK
      <4>2. PICK l \in 1 .. levels : \E i \in 1 .. tree[l].size : tree[l].mem[i] = d
        BY <4>1, Zenon DEF InTree
      <4>3. PICK i \in 1 .. tree[l].size : tree[l].mem[i] = d
        BY <4>2, Zenon
      <4>4. l \in 1 .. levels' /\ tree[l].size <= tree'[l].size /\ tree'[l].mem[i] = d
        BY <4>3, <1>2, <1>6, Zenon
      <4>5. tree'[l].size \in Nat
        <5>1. tree' \in Seq(Vectors) /\ Len(tree') = levels'
          BY <1>2, Zenon DEF TreeOK, Vectors
        <5> QED
          BY <4>4, <5>1, VectorType, Zenon
      <4>6. i \in 1 .. tree'[l].size
        BY <4>4, <4>5, <1>6, SMTT(30)
      <4> QED
        BY <4>4, <4>6, Zenon
    <3> QED
      BY <3>1, <3>2, Zenon
  <2>4. ASSUME NEW n \in Names, map'[n] # Null
        PROVE  map'[n] \notin freed /\ state'[map'[n]] # Null /\ NameOf[map'[n]] = n
    <3>1. CASE n = NameOf[c]
      <4>1. map'[n] = c
        BY <3>1, <1>1, Zenon DEF AlgTypes, RegistryTypes
      <4> QED
        BY <3>1, <4>1, <1>3, <1>4, NullIsNew, Zenon
    <3>2. CASE n # NameOf[c]
      <4>1. map'[n] = map[n] /\ map[n] \in Clients
        BY <3>2, <2>4, <1>1, Zenon DEF AlgTypes, RegistryTypes
      <4>2. map[n] \notin freed /\ state[map[n]] # Null /\ NameOf[map[n]] = n
        BY <4>1, <2>4, Zenon DEF RoundOK, RegistryOK
      <4> QED
        BY <4>1, <4>2, <1>3, <1>4, Zenon
    <3> QED
      BY <3>1, <3>2, Zenon
  <2>5. ASSUME NEW d \in freed PROVE state'[d] \in Idle
    <3>1. d \in Clients /\ d # c /\ state[d] \in Idle
      BY <1>3, Zenon DEF AlgTypes, RegistryTypes, RoundOK, RegistryOK
    <3> QED
      BY <3>1, <1>4, Zenon
  <2>6. freed' = freed /\ level' = level
    BY <1>1, Zenon
  <2>7. \A d \in Clients \ freed' : state'[d] # Null => InTree(d)'
    BY <2>3, <2>6, Zenon DEF InTree
  <2> QED
    BY <2>1, <2>2, <2>4, <2>5, <2>6, <2>7, ZenonT(30) DEF RegistryOK, Placed, At, Idle
<1>8. Resolutions'
  <2>1. ASSUME NEW d \in Clients, NEW e \in resolved[d] PROVE state'[e] # Null /\ level[e] < level[d]
    <3>1. e \in Clients /\ state[e] # Null /\ level[e] < level[d]
      BY Zenon DEF RoundOK, Resolutions, DepsOK, AlgTypes, HandlerTypes
    <3> QED
      BY <3>1, <1>3, <1>4, Zenon
  <2> QED
    BY <1>1, <2>1, Zenon DEF Resolutions, DepsOK
<1>9. Phases'
  <2>1. /\ ClientOK(c) /\ hpc'[c] = "reply"
        /\ UNCHANGED <<cpc, call, log, graph, batch>>
    BY <1>1, Zenon DEF RoundOK, Phases, AlgTypes, HandlerTypes, clientVars, loopVars
  <2>2. /\ up[c] = Null /\ call[c] = "REGISTER_ALG" /\ cpc[c] \in {"wait", "gone"}
        /\ cpc[c] = "wait" => down[c] = Null
    BY <1>3, <2>1, EarlyClient, Zenon
  <2>3. HandlerOK(c)' /\ RequestOK(c)' /\ PhaseOK(c)'
    BY <1>1, <1>4, <2>1, <2>2, NullIsNew, Zenon DEF HandlerOK, RequestOK, PhaseOK, Registers
  <2>4. Shown(c)'
    BY <2>1, Zenon DEF ClientOK, Shown, Follows
  <2>5. Alive(c)' => LogOK(c)'
    BY <1>3, <1>4, <2>1, NullIsNew, Zenon DEF ClientOK, Alive, LogOK
  <2>6. ASSUME NEW d \in Clients, d # c PROVE ClientOK(d)'
    <3>1. ClientOK(d) /\ d \in Clients \ {c}
      BY <2>6, Zenon DEF RoundOK, Phases
    <3>2. /\ cpc'[d] = cpc[d] /\ call'[d] = call[d] /\ up'[d] = up[d] /\ log'[d] = log[d]
          /\ down'[d] = down[d] /\ freed' = freed
      BY <1>1, <2>1, Zenon
    <3> QED
      BY <1>4, <2>1, <3>1, <3>2, ClientFrame, Zenon
  <2> QED
    BY <2>3, <2>4, <2>5, <2>6, Zenon DEF Phases, ClientOK
<1>10. /\ lpc' = lpc /\ stage' = stage /\ lev' = lev /\ idx' = idx /\ stopLev' = stopLev
       /\ stopIdx' = stopIdx /\ cur' = cur
  BY <1>1, Zenon DEF loopVars, counters
<1>11. /\ lev \in Nat /\ idx \in Nat /\ stopLev \in Nat
       /\ Walking => /\ lev \in 1 .. levels /\ idx >= 1 /\ stopIdx \in Nat /\ lev <= stopLev
                     /\ stopIdx <= tree[lev].size /\ idx <= stopIdx + 1
                     /\ lev < stopLev => stopIdx = tree[lev].size
       /\ Walking \/ lpc = "get_num_algs" => lev >= 1 /\ stopLev <= levels
       /\ lpc \in {"serve", "refuse"} =>
            Walking /\ idx \in 1 .. tree[lev].size /\ idx <= stopIdx /\ cur = tree[lev].mem[idx]
  BY <1>6, SMTT(30) DEF RoundOK, WalkOK, Walking, AlgTypes, LoopTypes, At
<1>12. WalkOK'
  <2>1. ASSUME Walking
        PROVE  stopIdx <= tree'[lev].size /\ (lev < stopLev => stopIdx = tree'[lev].size)
    <3>1. tree' \in Seq(Vectors) /\ Len(tree') = levels' /\ lev \in 1 .. levels'
      BY <2>1, <1>2, <1>6, <1>11, Zenon DEF TreeOK, Vectors
    <3>2. tree'[lev].size \in Nat /\ tree[lev].size \in Nat
      BY <2>1, <3>1, <1>6, <1>11, VectorType, Zenon
    <3>3. /\ tree[lev].size <= tree'[lev].size
          /\ lev < levels' => tree'[lev].size = tree[lev].size
      BY <2>1, <1>2, <1>11, Zenon
    <3> QED
      BY <2>1, <3>2, <3>3, <1>2, <1>6, <1>11, SMTT(30)
  <2>2. ASSUME lpc \in {"serve", "refuse"}
        PROVE  cur = tree'[lev].mem[idx] /\ state'[cur] = state[cur]
    BY <2>2, <1>2, <1>5, <1>11, Zenon
  <2>3. Walking \/ lpc = "get_num_algs" => stopLev <= levels'
    BY <1>2, <1>6, <1>11, SMTT(30)
  <2> QED
    BY <2>1, <2>2, <2>3, <1>10, <1>11, Zenon DEF RoundOK, WalkOK, Walking, At, Begins
<1>13. \A l, i : Turn(l, i)' = Turn(l, i)
  BY <1>10 DEF Turn, Walking, Before, After
<1>14. Turns'
  <2>1. ASSUME NEW l \in 1 .. levels', NEW i \in 1 .. tree'[l].size, lpc # "dead" PROVE TurnOK(l, i)'
    <3>1. CASE tree'[l].mem[i] = c
      BY <3>1, <1>4, Zenon DEF TurnOK, At, Aside
    <3>2. CASE l \in 1 .. levels /\ i \in 1 .. tree[l].size /\ tree'[l].mem[i] = tree[l].mem[i]
      <4>1. TurnOK(l, i)
        BY <2>1, <3>2, Zenon DEF RoundOK, Turns
      <4>2. state'[tree'[l].mem[i]] = state[tree[l].mem[i]] /\ Turn(l, i)' = Turn(l, i)
        BY <3>2, <1>5, <1>13, SMTT(30)
      <4> HIDE DEF Turn
      <4> QED
        BY <4>1, <4>2, <1>10, Zenon DEF TurnOK, At, Walking, Aside
    <3> QED
      BY <1>2, <3>1, <3>2, Zenon
  <2> QED
    BY <2>1, <1>10, Zenon DEF Turns
<1>15. Inits'
  <2>1. ASSUME NEW l \in 1 .. levels', NEW i \in 1 .. tree'[l].size, lpc # "dead" PROVE InitOK(l, i)'
    <3>1. CASE l = levels'
      BY <3>1, <1>2, <1>6, <1>10, <1>11, SMTT(30) DEF InitOK, Walking
    <3>2. CASE l \in 1 .. levels /\ i \in 1 .. tree[l].size /\ tree'[l].mem[i] = tree[l].mem[i]
      <4>1. InitOK(l, i) /\ state'[tree'[l].mem[i]] = state[tree[l].mem[i]]
        BY <2>1, <3>2, <1>5, Zenon DEF RoundOK, Inits
      <4> QED
        BY <3>2, <4>1, <1>10, Zenon DEF InitOK, At, Walking
    <3> QED
      BY <1>2, <3>1, <3>2, Zenon
  <2> QED
    BY <2>1, <1>10, Zenon DEF Inits
<1>16. Belows'
  <2>1. ASSUME NEW l \in 1 .. levels', NEW k \in 1 .. l - 1, NEW i \in 1 .. tree'[l].size,
               NEW j \in 1 .. tree'[k].size
        PROVE  BelowOK(tree[k].mem[j], tree[l].mem[i])'
    <3>1. /\ k \in 1 .. levels /\ j \in 1 .. tree[k].size
          /\ tree'[k].mem[j] = tree[k].mem[j]
      BY <1>2, SMTT(30)
    <3>2. CASE tree'[l].mem[i] = c
      BY <3>2, <1>4, Zenon DEF BelowOK, Aside
    <3>3. CASE l \in 1 .. levels /\ i \in 1 .. tree[l].size /\ tree'[l].mem[i] = tree[l].mem[i]
      <4>1. BelowOK(tree[k].mem[j], tree[l].mem[i])
        BY <3>1, <3>3, Zenon DEF RoundOK, Belows, At
      <4>2. /\ state'[tree'[k].mem[j]] = state[tree[k].mem[j]]
            /\ state'[tree'[l].mem[i]] = state[tree[l].mem[i]]
        BY <3>1, <3>3, <1>5, SMTT(30)
      <4> QED
        BY <3>1, <3>3, <4>1, <4>2, Zenon DEF BelowOK, Aside
    <3> QED
      BY <1>2, <3>2, <3>3, Zenon
  <2> QED
    BY <2>1, Zenon DEF Belows, At, BelowOK
<1> QED
  BY <1>2, <1>7, <1>8, <1>9, <1>12, <1>14, <1>15, <1>16, Zenon DEF RoundOK

-----------------------------------------------------------------------------
(***************************************************************************)
(* delete_alg.                                                             *)
(***************************************************************************)
\* The erasing step, when the loop is not walking a level and only the record
\* found under the name has it.
LEMMA EraseEffect ==
  ASSUME AlgTypes, RoundOK, NEW c \in Clients, EraseAlg(c), ~moved'
  PROVE  /\ ~Walking
         /\ \A l \in 1 .. levels : \A i \in 1 .. tree[l].size :
              NameOf[tree[l].mem[i]] = NameOf[c] => tree[l].mem[i] = map[NameOf[c]]
         /\ tree' = [l \in 1 .. levels |-> EraseName(tree[l], NameOf[c])]
<1>1. ~Upsets(NameOf[c])
  <2>1. moved' = (moved \/ Upsets(NameOf[c]))
    BY Zenon DEF EraseAlg
  <2> QED
    BY <2>1, Zenon
<1>2. tree' = [l \in DOMAIN tree |->
                 IF l <= levels THEN EraseName(tree[l], NameOf[c]) ELSE tree[l]]
  BY Zenon DEF EraseAlg
<1>3. tree \in Seq(Vectors) /\ Len(tree) = levels /\ levels \in Nat
  BY Zenon DEF RoundOK, TreeOK, AlgTypes, RegistryTypes, Vectors
<1>4. tree' = [l \in 1 .. levels |-> EraseName(tree[l], NameOf[c])]
  BY <1>2, <1>3, SMTT(30)
<1>5. ASSUME NEW l \in 1 .. levels, NEW i \in 1 .. tree[l].size,
             NameOf[tree[l].mem[i]] = NameOf[c]
      PROVE  tree[l].mem[i] = map[NameOf[c]]
  <2>1. tree[l].mem[i] \in Clients /\ InTree(tree[l].mem[i])
    BY AtClient, Zenon DEF RoundOK, At, InTree
  <2> QED
    BY <2>1, <1>1, <1>5, Zenon DEF Upsets
<1> QED
  BY <1>1, <1>4, <1>5, Zenon DEF Upsets, Walking

\* The places in the tree after it: those of the other records.
LEMMA ErasePlaces ==
  ASSUME AlgTypes, RoundOK, NEW c \in Clients, EraseAlg(c), ~moved', NEW m, m = map[NameOf[c]]
  PROVE  /\ TreeOK' /\ levels' = levels
         /\ \A l \in 1 .. levels :
              /\ \A i \in 1 .. tree'[l].size : \E j \in 1 .. tree[l].size :
                   tree'[l].mem[i] = tree[l].mem[j] /\ tree[l].mem[j] # m
              /\ \A i, j \in 1 .. tree'[l].size : tree'[l].mem[i] = tree'[l].mem[j] => i = j
              /\ \A j \in 1 .. tree[l].size : tree[l].mem[j] # m =>
                   \E i \in 1 .. tree'[l].size : tree'[l].mem[i] = tree[l].mem[j]
<1> DEFINE n == NameOf[c]
<1>1. tree' = [l \in 1 .. levels |-> EraseName(tree[l], n)] /\ levels' = levels
  BY EraseEffect, Zenon DEF EraseAlg
<1>2. /\ tree \in Seq(Vectors) /\ Len(tree) = levels /\ levels \in Nat
      /\ \A l \in 1 .. levels : tree[l].size <= Len(tree[l].mem)
  BY Zenon DEF RoundOK, TreeOK, AlgTypes, RegistryTypes, Vectors
<1>3. ASSUME NEW l \in 1 .. levels
      PROVE  /\ tree'[l] \in Vectors /\ tree'[l].size <= Len(tree'[l].mem)
             /\ \A i \in 1 .. tree'[l].size : \E j \in 1 .. tree[l].size :
                  tree'[l].mem[i] = tree[l].mem[j] /\ tree[l].mem[j] # m
             /\ \A i, j \in 1 .. tree'[l].size : tree'[l].mem[i] = tree'[l].mem[j] => i = j
             /\ \A j \in 1 .. tree[l].size : tree[l].mem[j] # m =>
                  \E i \in 1 .. tree'[l].size : tree'[l].mem[i] = tree[l].mem[j]
  <2> DEFINE v == tree[l]
  <2>1. v \in Vectors /\ v.size \in Nat /\ v.mem \in Seq(Clients) /\ v.size <= Len(v.mem)
    BY <1>2, VectorType, Zenon
  <2>2. \A i, j \in 1 .. v.size : v.mem[i] = v.mem[j] => i = j
    BY Zenon DEF RoundOK, RegistryOK, At
  <2>3. \A i \in 1 .. v.size : NameOf[v.mem[i]] = n => v.mem[i] = m
    BY EraseEffect, Zenon
  <2>4. tree'[l] = EraseName(v, n)
    BY <1>1, Zenon
  <2>5. \A i \in 1 .. v.size : v.mem[i] \in Clients
    BY <2>1, SMTT(30)
  <2> HIDE DEF v, n
  <2>6. CASE \E k \in 1 .. v.size : NameOf[v.mem[k]] = n
    <3>1. PICK k \in 1 .. v.size : NameOf[v.mem[k]] = n
      BY <2>6, Zenon
    <3>2. v.mem[k] = m
      BY <2>3, <3>1, Zenon
    <3>3. \A i \in 1 .. v.size : i # k => NameOf[v.mem[i]] # n
      BY <2>2, <2>3, <3>1, <3>2, Zenon
    <3>4. EraseName(v, n) = Erase(v, k)
      BY <2>1, <3>1, <3>3, EraseOne, Zenon
    <3> DEFINE w == Erase(v, k)
    <3>5. /\ w \in Vectors /\ w.size <= Len(w.mem)
          /\ \A i \in 1 .. w.size : \E j \in 1 .. v.size : w.mem[i] = v.mem[j] /\ v.mem[j] # v.mem[k]
          /\ \A i, j \in 1 .. w.size : w.mem[i] = w.mem[j] => i = j
          /\ \A j \in 1 .. v.size : v.mem[j] # v.mem[k] => \E i \in 1 .. w.size : w.mem[i] = v.mem[j]
      <4>1. v \in [mem : Seq(Clients), size : Nat]
        BY <2>1, Zenon DEF Vectors
      <4> QED
        BY <2>1, <2>2, <4>1, EraseVector, Zenon DEF Vectors
    <3>6. tree'[l] = w
      BY <2>4, <3>4, Zenon
    <3> HIDE DEF w
    <3>7. /\ \A i \in 1 .. w.size : \E j \in 1 .. v.size : w.mem[i] = v.mem[j] /\ v.mem[j] # m
          /\ \A j \in 1 .. v.size : v.mem[j] # m => \E i \in 1 .. w.size : w.mem[i] = v.mem[j]
      BY <3>2, <3>5, SMTT(30)
    <3> QED
      BY <3>5, <3>6, <3>7 DEF v
  <2>7. CASE ~ \E k \in 1 .. v.size : NameOf[v.mem[k]] = n
    <3>1. EraseName(v, n) = v
      BY <2>1, <2>7, EraseNone, Zenon
    <3>2. \A j \in 1 .. v.size : v.mem[j] # m
      <4>1. m # Null => NameOf[m] = n
        BY AlgAssumption, Zenon DEF RoundOK, RegistryOK, AlgAssumption, n
      <4> QED
        BY <4>1, <2>5, <2>7, NullIsNew, Zenon
    <3> QED
      BY <2>1, <2>2, <2>4, <3>1, <3>2, Zenon DEF v
  <2> QED
    BY <2>6, <2>7, Zenon
<1>4. TreeOK'
  <2>1. tree' \in [1 .. levels -> Vectors]
    BY <1>1, <1>3, Zenon
  <2>2. tree' \in Seq(Vectors) /\ Len(tree') = levels
    BY <1>2, <2>1, FunctionIsSeq, Zenon
  <2> QED
    BY <1>1, <1>3, <2>2, Zenon DEF TreeOK, Vectors
<1> QED
  BY <1>1, <1>3, <1>4, Zenon

\* Outside the walks of a level nobody is at work, and the turn is the level's.
LEMMA TurnOutside ==
  ASSUME AlgTypes, WalkOK, ~Walking, lpc # "dead", NEW l, NEW i, NEW j
  PROVE  Turn(l, i) \in {"READY_PRE", "READY_POST"} /\ Turn(l, i) = Turn(l, j)
<1>1. /\ lpc \in {"dequeue", "get_num_levels", "get_num_algs", "process_batch"}
      /\ lpc \in {"get_num_levels", "get_num_algs"} => stage \in Begins
      /\ lpc = "process_batch" => stage = "BEGIN_PREPROCESS"
  BY Zenon DEF AlgTypes, LoopTypes, GraphOK, WalkOK, Walking
<1> QED
  BY <1>1, Table, Zenon DEF Turn, Walking, InitStages, PreStages, Begins

LEMMA EraseStep ==
  ASSUME AlgTypes, RoundOK, NEW c \in Clients, UNCHANGED cast, lpc # "dead", EraseAlg(c), ~moved'
  PROVE  RoundOK'
<1> DEFINE n == NameOf[c]
           m == map[n]
<1>1. /\ hpc[c] = "erase" /\ hpc' = [hpc EXCEPT ![c] = "resolve"]
      /\ map' = [map EXCEPT ![n] = Null]
      /\ freed' = freed \cup ({m} \ {Null})
      /\ UNCHANGED <<clientVars, up, down, dep, resolved, level, state, loopVars>>
  BY Zenon DEF EraseAlg, HGoto
<1>2. n \in Names /\ m \in Clients \cup {Null}
  BY AlgAssumption, Zenon DEF AlgAssumption, AlgTypes, RegistryTypes
<1>3. ~Walking
  BY EraseEffect, Zenon
<1>4. /\ TreeOK' /\ levels' = levels
      /\ \A l \in 1 .. levels :
           /\ \A i \in 1 .. tree'[l].size : \E j \in 1 .. tree[l].size :
                tree'[l].mem[i] = tree[l].mem[j] /\ tree[l].mem[j] # m
           /\ \A i, j \in 1 .. tree'[l].size : tree'[l].mem[i] = tree'[l].mem[j] => i = j
           /\ \A j \in 1 .. tree[l].size : tree[l].mem[j] # m =>
                \E i \in 1 .. tree'[l].size : tree'[l].mem[i] = tree[l].mem[j]
  BY ErasePlaces, SMTT(30)
<1>5. m # Null => NameOf[m] = n /\ m \notin freed /\ state[m] # Null
  BY <1>2, Zenon DEF RoundOK, RegistryOK
<1> HIDE DEF m
<1>6. m # Null => state[m] \in Idle
  <2> SUFFICES ASSUME m # Null PROVE state[m] \in Idle
    BY Zenon
  <2>1. m \in Clients /\ InTree(m)
    BY <1>2, <1>5, Zenon DEF RoundOK, RegistryOK
  <2>2. PICK l \in 1 .. levels : \E i \in 1 .. tree[l].size : tree[l].mem[i] = m
    BY <2>1, Zenon DEF InTree
  <2>3. PICK i \in 1 .. tree[l].size : tree[l].mem[i] = m
    BY <2>2, Zenon
  <2>4. TurnOK(l, i) /\ WalkOK
    BY Zenon DEF RoundOK, Turns
  <2>5. Turn(l, i) \in {"READY_PRE", "READY_POST"}
    BY <1>3, <2>4, TurnOutside, Zenon
  <2> HIDE DEF Turn
  <2> QED
    BY <1>3, <2>3, <2>4, <2>5, Zenon DEF TurnOK, At, Aside, Idle, Walking
<1>7. RegistryOK'
  <2>1. ASSUME NEW l \in 1 .. levels', NEW i \in 1 .. tree'[l].size
        PROVE  /\ state'[tree'[l].mem[i]] # Null /\ tree'[l].mem[i] \notin freed'
               /\ level'[tree'[l].mem[i]] + 1 = l
    <3>1. PICK j \in 1 .. tree[l].size : tree'[l].mem[i] = tree[l].mem[j] /\ tree[l].mem[j] # m
      BY <1>4, SMTT(30)
    <3>2. Placed(tree[l].mem[j], l)
      BY <1>4, Zenon DEF RoundOK, RegistryOK, At
    <3> QED
      BY <1>1, <3>1, <3>2, Zenon DEF Placed
  <2>2. \A d \in Clients \ freed' : state'[d] # Null => InTree(d)'
    <3>1. ASSUME NEW d \in Clients \ freed', state[d] # Null
          PROVE  \E l \in 1 .. levels : \E i \in 1 .. tree'[l].size : tree'[l].mem[i] = d
      <4>1. d # m /\ InTree(d)
        BY <3>1, <1>1, <1>2, NullIsNew, Zenon DEF RoundOK, RegistryOK
      <4>2. PICK l \in 1 .. levels : \E i \in 1 .. tree[l].size : tree[l].mem[i] = d
        BY <4>1, Zenon DEF InTree
      <4> QED
        BY <4>1, <4>2, <1>4, SMTT(30)
    <3> QED
      BY <1>1, <1>4, <3>1, Zenon DEF InTree
  <2>3. ASSUME NEW k \in Names, map'[k] # Null
        PROVE  map'[k] \notin freed' /\ state'[map'[k]] # Null /\ NameOf[map'[k]] = k
    <3>1. k # n /\ map'[k] = map[k]
      BY <2>3, <1>1, <1>2, Zenon DEF AlgTypes, RegistryTypes
    <3>2. map[k] \notin freed /\ state[map[k]] # Null /\ NameOf[map[k]] = k
      BY <2>3, <3>1, Zenon DEF RoundOK, RegistryOK
    <3> QED
      BY <3>1, <3>2, <1>1, <1>5, SMTT(30)
  <2>4. \A d \in freed' : state'[d] \in Idle
    BY <1>1, <1>6, Zenon DEF RoundOK, RegistryOK
  <2>5. \A l \in 1 .. levels' : \A i, j \in 1 .. tree'[l].size :
          tree'[l].mem[i] = tree'[l].mem[j] => i = j
    BY <1>4, Zenon
  <2> QED
    BY <2>1, <2>2, <2>3, <2>4, <2>5, Zenon DEF RegistryOK, Placed, At, Idle
<1>8. Resolutions'
  BY <1>1, Zenon DEF RoundOK, Resolutions, DepsOK
<1>9. Phases'
  <2>1. /\ ClientOK(c) /\ hpc'[c] = "resolve" /\ \A d \in Clients \ {c} : hpc'[d] = hpc[d]
        /\ UNCHANGED <<cpc, call, log, graph, batch>>
    BY <1>1, Zenon DEF RoundOK, Phases, AlgTypes, HandlerTypes, clientVars, loopVars
  <2>2. ClientOK(c)'
    <3>1. hpc[c] \in Early /\ hpc'[c] \in Early \cup {"none"} /\ down'[c] = down[c]
      BY <1>1, <2>1, Zenon DEF Early
    <3> QED
      BY <1>1, <2>1, <3>1, EarlyFrame, Zenon
  <2>3. ASSUME NEW d \in Clients, d # c PROVE ClientOK(d)'
    <3>1. ClientOK(d) /\ d \in Clients \ {c}
      BY <2>3, Zenon DEF RoundOK, Phases
    <3>2. /\ cpc'[d] = cpc[d] /\ call'[d] = call[d] /\ up'[d] = up[d] /\ log'[d] = log[d]
          /\ down'[d] = down[d] /\ state'[d] = state[d] /\ (d \notin freed' => d \notin freed)
      BY <1>1, <2>1, Zenon
    <3> QED
      BY <2>1, <3>1, <3>2, ClientFrame, Zenon
  <2> QED
    BY <2>2, <2>3, Zenon DEF Phases
<1>10. /\ lpc' = lpc /\ stage' = stage /\ lev' = lev /\ idx' = idx /\ stopLev' = stopLev
       /\ stopIdx' = stopIdx /\ cur' = cur
  BY <1>1, Zenon DEF loopVars, counters
<1>11. WalkOK'
  <2>1. lpc \notin {"get_alg", "serve", "refuse"}
    BY <1>3, Zenon DEF Walking
  <2> QED
    BY <1>4, <1>10, <2>1, Zenon DEF RoundOK, WalkOK, Walking, Begins
<1>12. Turns'
  <2>1. ASSUME NEW l \in 1 .. levels, NEW i \in 1 .. tree'[l].size PROVE TurnOK(l, i)'
    <3>1. PICK j \in 1 .. tree[l].size : tree'[l].mem[i] = tree[l].mem[j]
      BY <1>4
    <3>2. TurnOK(l, j) /\ WalkOK
      BY Zenon DEF RoundOK, Turns
    <3>3. Turn(l, i) = Turn(l, j)
      BY <1>3, <3>2, TurnOutside, Zenon
    <3>4. Turn(l, i)' = Turn(l, i)
      BY <1>10, SMTT(30) DEF Turn, Walking, Before, After
    <3> HIDE DEF Turn
    <3> QED
      BY <1>1, <1>3, <1>10, <3>1, <3>2, <3>3, <3>4, Zenon DEF TurnOK, At, Walking, Aside
  <2> QED
    BY <1>4, <2>1, Zenon DEF Turns
<1>13. Inits'
  <2>1. ASSUME NEW l \in 1 .. levels, NEW i \in 1 .. tree'[l].size PROVE InitOK(l, i)'
    <3>1. PICK j \in 1 .. tree[l].size : tree'[l].mem[i] = tree[l].mem[j]
      BY <1>4
    <3>2. InitOK(l, j)
      BY Zenon DEF RoundOK, Inits
    <3> QED
      BY <1>1, <1>3, <1>10, <3>1, <3>2, Zenon DEF InitOK, At, Walking
  <2> QED
    BY <1>4, <2>1, Zenon DEF Inits
<1>14. Belows'
  <2>1. ASSUME NEW l \in 1 .. levels, NEW k \in 1 .. l - 1, NEW i \in 1 .. tree'[l].size,
               NEW j \in 1 .. tree'[k].size
        PROVE  BelowOK(tree[k].mem[j], tree[l].mem[i])'
    <3>1. k \in 1 .. levels
      BY SMTT(30) DEF AlgTypes, RegistryTypes
    <3>2. PICK a \in 1 .. tree[k].size : tree'[k].mem[j] = tree[k].mem[a]
      BY <1>4, <3>1, SMTT(30)
    <3>3. PICK b \in 1 .. tree[l].size : tree'[l].mem[i] = tree[l].mem[b]
      BY <1>4, SMTT(30)
    <3>4. BelowOK(tree[k].mem[a], tree[l].mem[b])
      BY Zenon DEF RoundOK, Belows, At
    <3> QED
      BY <1>1, <3>2, <3>3, <3>4, Zenon DEF BelowOK, Aside
  <2> QED
    BY <1>4, <2>1, Zenon DEF Belows, At, BelowOK
<1> QED
  BY <1>4, <1>7, <1>8, <1>9, <1>11, <1>12, <1>13, <1>14, Zenon DEF RoundOK
=============================================================================
