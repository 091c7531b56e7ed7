-------------------------- MODULE AlgServerProofs --------------------------
(***************************************************************************)
(* AlgServerInvariant's AlgInv, the second part of its proof: the steps of *)
(* the process loop.  Then what follows from it of the rounds.             *)
(***************************************************************************)
EXTENDS AlgServerSteps

-----------------------------------------------------------------------------
(***************************************************************************)
(* The loop between the algorithms.                                        *)
(***************************************************************************)
\* What a step of the loop that serves nobody leaves as it is.
LEMMA LoopFrame ==
  ASSUME AlgTypes, RoundOK,
         UNCHANGED <<cast, clientVars, up, down, handlerVars, state, registryVars>>
  PROVE  /\ TreeOK' /\ RegistryOK' /\ Resolutions' /\ Belows'
         /\ UNCHANGED <<batch, graph>> => Phases'
<1>1. TreeOK' /\ RegistryOK'
  BY RegistryFrame, Zenon DEF RoundOK, registryVars, handlerVars, AlgTypes, RegistryTypes
<1>2. Belows'
  BY BelowFrame, Zenon DEF RoundOK, registryVars
<1>3. Resolutions'
  BY Zenon DEF RoundOK, Resolutions, DepsOK, handlerVars
<1>4. ASSUME UNCHANGED <<batch, graph>> PROVE Phases'
  <2>1. ASSUME NEW c \in Clients PROVE ClientOK(c)'
    <3>1. ClientOK(c)
      BY Zenon DEF RoundOK, Phases
    <3>2. /\ cpc'[c] = cpc[c] /\ call'[c] = call[c] /\ up'[c] = up[c] /\ log'[c] = log[c]
          /\ down'[c] = down[c] /\ state'[c] = state[c] /\ hpc'[c] = hpc[c] /\ freed' = freed
      BY Zenon DEF clientVars, registryVars, handlerVars
    <3> QED
      BY <1>4, <3>1, <3>2, ClientFrame, Zenon
  <2> QED
    BY <2>1, Zenon DEF Phases
<1> QED
  BY <1>1, <1>2, <1>3, <1>4, Zenon

\* Turns and inits can be looked at place by place.
LEMMA PlaceByPlace ==
  ASSUME Turns, Inits, lpc # "dead", UNCHANGED <<tree, levels>>,
         \A l \in 1 .. levels : \A i \in 1 .. tree[l].size :
           TurnOK(l, i) /\ InitOK(l, i) => TurnOK(l, i)' /\ InitOK(l, i)'
  PROVE  Turns' /\ Inits'
<1>1. ASSUME NEW l \in 1 .. levels, NEW i \in 1 .. tree[l].size PROVE TurnOK(l, i)' /\ InitOK(l, i)'
  BY Zenon DEF Turns, Inits
<1> HIDE DEF TurnOK, InitOK
<1> QED
  BY <1>1, Zenon DEF Turns, Inits

\* A place is a pair of numbers.
LEMMA PlaceType ==
  ASSUME AlgTypes, TreeOK, NEW l \in 1 .. levels, NEW i \in 1 .. tree[l].size
  PROVE  l \in Nat /\ i \in Nat /\ l >= 1 /\ i >= 1 /\ tree[l].size \in Nat /\ i <= tree[l].size
<1>1. tree \in Seq(Vectors) /\ Len(tree) = levels /\ levels \in Nat
  BY Zenon DEF TreeOK, AlgTypes, RegistryTypes, Vectors
<1>2. tree[l].size \in Nat
  BY <1>1, VectorType, Zenon
<1> QED
  BY <1>1, <1>2, SMTT(30)

\* Between the walks an algorithm that takes part has the one state.
LEMMA StatesOutside ==
  ASSUME AlgTypes, RoundOK, lpc \in {"dequeue", "process_batch"}, NEW c \in Clients
  PROVE  \/ state[c] \in {Null, "READY_INIT", "ERROR"}
         \/ state[c] = IF lpc = "dequeue" THEN "READY_PRE" ELSE "READY_POST"
         \/ c \in freed /\ state[c] \in Idle
<1>1. CASE c \in freed
  BY <1>1, Zenon DEF RoundOK, RegistryOK
<1>2. CASE c \notin freed /\ state[c] # Null
  <2>1. InTree(c)
    BY <1>2, Zenon DEF RoundOK, RegistryOK
  <2>2. PICK l \in 1 .. levels : \E i \in 1 .. tree[l].size : tree[l].mem[i] = c
    BY <2>1, Zenon DEF InTree
  <2>3. PICK i \in 1 .. tree[l].size : tree[l].mem[i] = c
    BY <2>2, Zenon
  <2>4. TurnOK(l, i)
    BY Zenon DEF RoundOK, Turns
  <2>5. lpc = "process_batch" => stage = "BEGIN_PREPROCESS"
    BY Zenon DEF AlgTypes, LoopTypes, GraphOK
  <2>6. Turn(l, i) = IF lpc = "dequeue" THEN "READY_PRE" ELSE "READY_POST"
    BY <2>5, Zenon DEF Turn, InitStages
  <2> HIDE DEF Turn
  <2> QED
    BY <2>3, <2>4, <2>6, Zenon DEF TurnOK, At, Aside
<1> QED
  BY <1>1, <1>2, Zenon

LEMMA DequeueStep ==
  ASSUME AlgTypes, RoundOK, Dequeue, UNCHANGED cast
  PROVE  RoundOK'
<1>1. /\ lpc = "dequeue" /\ batch' = batch + 1 /\ stage' = "BEGIN_INIT" /\ lpc' = "get_num_levels"
      /\ UNCHANGED <<clientVars, up, down, handlerVars, state, registryVars, counters, cur, graph>>
  BY Zenon DEF Dequeue, LGoto
<1>2. graph = batch /\ batch \in Nat
  BY <1>1, Zenon DEF AlgTypes, LoopTypes, GraphOK
<1>3. WalkOK'
  BY <1>1, Zenon DEF WalkOK, Walking, Begins
<1>4. Turns' /\ Inits'
  <2>1. ASSUME NEW l \in 1 .. levels, NEW i \in 1 .. tree[l].size, TurnOK(l, i)
        PROVE  TurnOK(l, i)' /\ InitOK(l, i)'
    BY <1>1, <2>1, Zenon DEF TurnOK, InitOK, Turn, Walking, At, Aside, InitStages, registryVars
  <2> QED
    BY <1>1, <2>1, PlaceByPlace, Zenon DEF RoundOK, registryVars
<1>5. Phases'
  <2>1. ASSUME NEW c \in Clients PROVE ClientOK(c)'
    <3>1. /\ ClientOK(c) /\ UNCHANGED <<cpc, call, log, hpc, freed>>
      BY <1>1, Zenon DEF RoundOK, Phases, clientVars, handlerVars, registryVars
    <3>2. \/ state[c] \in {Null, "READY_INIT", "ERROR", "READY_PRE"}
          \/ c \in freed /\ state[c] \in Idle
      BY <1>1, StatesOutside, Zenon
    <3>3. HandlerOK(c)' /\ RequestOK(c)'
      BY <1>1, <3>1, Zenon DEF ClientOK, HandlerOK, RequestOK, Before
    <3>4. PhaseOK(c)'
      <4>1. PhaseOK(c)
        BY <3>1, Zenon DEF ClientOK
      <4>2. Granted(c) => call[c] \notin Begins
        BY <3>2, Table, NullIsNew DEF Granted, Begins, Idle
      <4> QED
        BY <1>1, <3>1, <4>1, <4>2, ZenonT(30) DEF PhaseOK, Registers, Asks, Granted, Works, Errs, Before, After
    <3>5. Shown(c)'
      BY <3>1, Zenon DEF ClientOK, Shown, Follows
    <3>6. Alive(c)' => LogOK(c)'
      <4> SUFFICES ASSUME Alive(c) PROVE LogOK(c)'
        BY <3>1, Zenon DEF Alive
      <4>1. LogOK(c)
        BY <3>1, Zenon DEF ClientOK
      <4>2. ShownBefore(c) => ShownBefore(c)'
        BY <1>1, <1>2, <3>1, SMTT(30) DEF ShownBefore, Last
      <4> QED
        BY <1>1, <3>1, <3>2, <4>1, <4>2, NullIsNew, Zenon DEF LogOK, Idle
    <3> QED
      BY <3>3, <3>4, <3>5, <3>6, Zenon DEF ClientOK
  <2> QED
    BY <2>1, Zenon DEF Phases
<1> QED
  BY <1>1, <1>3, <1>4, <1>5, LoopFrame, Zenon DEF RoundOK

LEMMA ProcessBatchStep ==
  ASSUME AlgTypes, RoundOK, ProcessBatch, UNCHANGED cast
  PROVE  RoundOK'
<1>1. /\ lpc = "process_batch" /\ graph' = graph + 1 /\ stage' = "BEGIN_POSTPROCESS"
      /\ lpc' = "get_num_levels"
      /\ UNCHANGED <<clientVars, up, down, handlerVars, state, registryVars, counters, cur, batch>>
  BY Zenon DEF ProcessBatch, LGoto
<1>2. stage = "BEGIN_PREPROCESS"
  BY <1>1, Zenon DEF AlgTypes, LoopTypes, GraphOK
<1>3. WalkOK'
  BY <1>1, Zenon DEF WalkOK, Walking, Begins
<1>4. Turns' /\ Inits'
  <2>1. ASSUME NEW l \in 1 .. levels, NEW i \in 1 .. tree[l].size, TurnOK(l, i)
        PROVE  TurnOK(l, i)' /\ InitOK(l, i)'
    <3>1. Turn(l, i) = "READY_POST" /\ Turn(l, i)' = "READY_POST"
      BY <1>1, <1>2, Table, Zenon DEF Turn, InitStages
    <3> HIDE DEF Turn
    <3> QED
      BY <1>1, <2>1, <3>1, Zenon DEF TurnOK, InitOK, Walking, At, Aside, InitStages, registryVars
  <2> QED
    BY <1>1, <2>1, PlaceByPlace, Zenon DEF RoundOK, registryVars
<1>5. Phases'
  <2>1. ASSUME NEW c \in Clients PROVE ClientOK(c)'
    <3>1. /\ ClientOK(c) /\ UNCHANGED <<cpc, call, log, hpc, freed>>
      BY <1>1, Zenon DEF RoundOK, Phases, clientVars, handlerVars, registryVars
    <3>2. \/ state[c] \in {Null, "READY_INIT", "ERROR", "READY_POST"}
          \/ c \in freed /\ state[c] \in Idle
      BY <1>1, StatesOutside, Zenon
    <3>3. HandlerOK(c)' /\ RequestOK(c)'
      BY <1>1, <3>1, Zenon DEF ClientOK, HandlerOK, RequestOK, Before
    <3>4. PhaseOK(c)'
      BY <1>1, <3>1, ZenonT(30) DEF ClientOK, PhaseOK, Registers, Asks, Granted, Works, Errs, Before, After
    <3>5. Shown(c)'
      BY <3>1, Zenon DEF ClientOK, Shown, Follows
    <3>6. Alive(c)' => LogOK(c)'
      <4> SUFFICES ASSUME Alive(c) PROVE LogOK(c)'
        BY <3>1, Zenon DEF Alive
      <4>1. LogOK(c)
        BY <3>1, Zenon DEF ClientOK
      <4>2. ShownPre(c) => ShownPre(c)'
        BY <1>1, <3>1, Zenon DEF ShownPre, Last
      <4> QED
        BY <1>1, <3>1, <3>2, <4>1, <4>2, NullIsNew, Zenon DEF LogOK, Idle
    <3> QED
      BY <3>3, <3>4, <3>5, <3>6, Zenon DEF ClientOK
  <2> QED
    BY <2>1, Zenon DEF Phases
<1> QED
  BY <1>1, <1>3, <1>4, <1>5, LoopFrame, Zenon DEF RoundOK

LEMMA GetNumLevelsStep ==
  ASSUME AlgTypes, RoundOK, GetNumLevels, UNCHANGED cast
  PROVE  RoundOK'
<1>1. /\ lpc = "get_num_levels" /\ stopLev' = levels /\ lev' = 1 /\ lpc' = "get_num_algs"
      /\ UNCHANGED <<clientVars, up, down, handlerVars, state, registryVars, stage, idx, stopIdx, cur,
                     batch, graph>>
  BY Zenon DEF GetNumLevels, LGoto
<1>2. stage \in Begins /\ levels \in Nat
  BY <1>1, Zenon DEF RoundOK, WalkOK, AlgTypes, RegistryTypes
<1>3. WalkOK'
  BY <1>1, <1>2, SMTT(30) DEF WalkOK, Walking, Begins, registryVars
<1>4. Turns' /\ Inits'
  <2>1. ASSUME NEW l \in 1 .. levels, NEW i \in 1 .. tree[l].size, TurnOK(l, i)
        PROVE  TurnOK(l, i)' /\ InitOK(l, i)'
    <3>1. l \in Nat /\ l >= 1 /\ ~(l < 1) /\ l <= levels
      BY <1>2
    <3>2. Turn(l, i) = Turn(l, i)'
      BY <1>1, <1>2, <3>1, Table, Zenon DEF Turn, Walking, Begins, InitStages, PreStages, Before, After
    <3> HIDE DEF Turn
    <3>3. TurnOK(l, i)'
      BY <1>1, <2>1, <3>1, <3>2, Zenon DEF TurnOK, Walking, At, Aside, registryVars
    <3> QED
      BY <1>1, <3>1, <3>3, Zenon DEF InitOK, Walking
  <2> QED
    BY <1>1, <2>1, PlaceByPlace, Zenon DEF RoundOK, registryVars
<1> QED
  BY <1>1, <1>3, <1>4, LoopFrame, Zenon DEF RoundOK

LEMMA SectionDoneStep ==
  ASSUME AlgTypes, RoundOK, SectionDone, UNCHANGED cast
  PROVE  RoundOK'
<1>1. /\ lpc = "get_num_algs" /\ lev > stopLev
      /\ \/ stage = "BEGIN_INIT" /\ lpc' = "get_num_levels" /\ stage' = "BEGIN_PREPROCESS"
         \/ stage = "BEGIN_PREPROCESS" /\ lpc' = "process_batch" /\ stage' = stage
         \/ stage = "BEGIN_POSTPROCESS" /\ lpc' = "dequeue" /\ stage' = stage
      /\ UNCHANGED <<clientVars, up, down, handlerVars, state, registryVars, counters, cur, batch, graph>>
  BY Zenon DEF SectionDone, LGoto
<1>2. lev \in Nat /\ stopLev \in Nat
  BY Zenon DEF AlgTypes, LoopTypes
<1>3. WalkOK'
  BY <1>1, Zenon DEF WalkOK, Walking, Begins
<1>4. Turns' /\ Inits'
  <2>1. ASSUME NEW l \in 1 .. levels, NEW i \in 1 .. tree[l].size, TurnOK(l, i)
        PROVE  TurnOK(l, i)' /\ InitOK(l, i)'
    <3>1. l \in Nat
      BY PlaceType, Zenon DEF RoundOK
    <3>2. l <= stopLev => l < lev
      BY <1>1, <1>2, <3>1, SMTT(30)
    <3>3. l < lev => Turn(l, i) = Turn(l, i)'
      BY <1>1, Table, Zenon DEF Turn, InitStages, PreStages, Before
    <3>4. InitOK(l, i)'
      BY <1>1, Zenon DEF InitOK, Walking
    <3> HIDE DEF Turn
    <3> QED
      BY <1>1, <2>1, <3>2, <3>3, <3>4, Zenon DEF TurnOK, Walking, At, Aside, registryVars
  <2> QED
    BY <1>1, <2>1, PlaceByPlace, Zenon DEF RoundOK, registryVars
<1> QED
  BY <1>1, <1>3, <1>4, LoopFrame, Zenon DEF RoundOK

LEMMA GetNumAlgsStep ==
  ASSUME AlgTypes, RoundOK, GetNumAlgs, UNCHANGED cast
  PROVE  RoundOK'
<1>1. /\ lpc = "get_num_algs" /\ lev <= stopLev /\ stopIdx' = tree[lev].size /\ idx' = 1
      /\ lpc' = "get_alg"
      /\ UNCHANGED <<clientVars, up, down, handlerVars, state, registryVars, stage, lev, stopLev, cur,
                     batch, graph>>
  BY Zenon DEF GetNumAlgs, LGoto
<1>2. /\ stage \in Begins /\ lev >= 1 /\ stopLev <= levels
      /\ lev \in Nat /\ stopLev \in Nat /\ levels \in Nat
  BY <1>1, Zenon DEF RoundOK, WalkOK, AlgTypes, LoopTypes, RegistryTypes
<1>3. tree[lev].size \in Nat
  <2>1. tree \in Seq(Vectors) /\ Len(tree) = levels /\ lev \in 1 .. levels
    BY <1>1, <1>2 DEF RoundOK, TreeOK, Vectors
  <2> QED
    BY <2>1, VectorType, Zenon
<1>4. WalkOK'
  BY <1>1, <1>2, <1>3, SMTT(30) DEF WalkOK, Walking, Begins, registryVars
<1>5. Turns' /\ Inits'
  <2>1. ASSUME NEW l \in 1 .. levels, NEW i \in 1 .. tree[l].size, TurnOK(l, i), InitOK(l, i)
        PROVE  TurnOK(l, i)' /\ InitOK(l, i)'
    <3>1. l \in Nat /\ i \in Nat /\ i >= 1 /\ i <= tree[l].size
      BY PlaceType, Zenon DEF RoundOK
    <3>2. ~(i < 1)
      BY <3>1
    <3>3. Turn(l, i) = Turn(l, i)'
      BY <1>1, <3>2, Zenon DEF Turn, Walking
    <3>4. InitOK(l, i)'
      BY <1>1, <2>1, <3>2, Zenon DEF InitOK, Walking, At, registryVars
    <3> HIDE DEF Turn
    <3> QED
      BY <1>1, <2>1, <3>1, <3>3, <3>4, Zenon DEF TurnOK, Walking, At, Aside, registryVars
  <2> QED
    BY <1>1, <2>1, PlaceByPlace, Zenon DEF RoundOK, registryVars
<1> QED
  BY <1>1, <1>4, <1>5, LoopFrame, Zenon DEF RoundOK

LEMMA GetAlgStep ==
  ASSUME AlgTypes, RoundOK, GetAlg, UNCHANGED cast
  PROVE  RoundOK'
<1>1. /\ lpc = "get_alg" /\ idx <= stopIdx /\ cur' = At(lev, idx) /\ lpc' = "serve"
      /\ UNCHANGED <<clientVars, up, down, handlerVars, state, registryVars, stage, counters, batch, graph>>
  BY Zenon DEF GetAlg, LGoto, At
<1>2. stage # "END_INIT"
  BY <1>1, Zenon DEF RoundOK, WalkOK
<1>3. WalkOK'
  BY <1>1, <1>2, Zenon DEF RoundOK, WalkOK, Walking, At, counters, registryVars
<1>4. Turns' /\ Inits'
  <2>1. ASSUME NEW l \in 1 .. levels, NEW i \in 1 .. tree[l].size, TurnOK(l, i), InitOK(l, i)
        PROVE  TurnOK(l, i)' /\ InitOK(l, i)'
    <3>1. Turn(l, i) = Turn(l, i)'
      BY <1>1, Zenon DEF Turn, Walking, counters
    <3>2. InitOK(l, i)'
      BY <1>1, <2>1, Zenon DEF InitOK, Walking, At, registryVars, counters
    <3> HIDE DEF Turn
    <3> QED
      BY <1>1, <1>2, <2>1, <3>1, <3>2, Zenon DEF TurnOK, Walking, At, Aside, registryVars, counters
  <2> QED
    BY <1>1, <2>1, PlaceByPlace, Zenon DEF RoundOK, registryVars
<1> QED
  BY <1>1, <1>3, <1>4, LoopFrame, Zenon DEF RoundOK

\* From the sweep that awaits the begin of a stage to the one that awaits its end.
LEMMA SweepAgain ==
  ASSUME AlgTypes, RoundOK, lpc = "get_alg", idx > stopIdx,
         stage \in {"BEGIN_PREPROCESS", "BEGIN_POSTPROCESS"}, stage' = EndOf(stage), idx' = 1,
         UNCHANGED <<lpc, lev, stopLev, stopIdx, cur, state, registryVars, cast>>
  PROVE  WalkOK' /\ Turns' /\ Inits'
<1>1. /\ stage' \in {"END_PREPROCESS", "END_POSTPROCESS"} /\ After(stage) = Before(stage')
      /\ (stage' \in PreStages) = (stage \in PreStages)
  BY Table, SMTT(30) DEF PreStages
<1>2. stopIdx \in Nat /\ idx \in Nat /\ lev \in Nat
  BY Zenon DEF RoundOK, WalkOK, Walking, AlgTypes, LoopTypes
<1>3. WalkOK'
  BY <1>1, <1>2, SMTT(30) DEF RoundOK, WalkOK, Walking, registryVars
<1>4. ASSUME NEW l \in 1 .. levels, NEW i \in 1 .. tree[l].size, TurnOK(l, i)
      PROVE  TurnOK(l, i)' /\ InitOK(l, i)'
  <2>1. l \in Nat /\ i \in Nat /\ i >= 1
    BY PlaceType, Zenon DEF RoundOK
  <2>2. ~(i < 1) /\ (i <= stopIdx => i < idx)
    BY <1>2, <2>1
  <2>3. l < lev \/ l > lev \/ l = lev
    BY <1>2, <2>1
  <2>4. (l = lev => i <= stopIdx) => Turn(l, i) = Turn(l, i)'
    BY <1>1, <1>2, <2>1, <2>2, <2>3, Table, Zenon DEF Turn, Walking, InitStages, PreStages
  <2>5. InitOK(l, i)'
    BY <1>1, Zenon DEF InitOK, InitStages
  <2> HIDE DEF Turn
  <2> QED
    BY <1>4, <2>4, <2>5, Zenon DEF TurnOK, Walking, At, Aside, registryVars
<1> QED
  BY <1>3, <1>4, PlaceByPlace, Zenon DEF RoundOK, registryVars

\* From the last algorithm of a level to the next level.
LEMMA SweepOver ==
  ASSUME AlgTypes, RoundOK, lpc = "get_alg", idx > stopIdx,
         \/ stage = "BEGIN_INIT" /\ stage' = "BEGIN_INIT"
         \/ stage = "END_PREPROCESS" /\ stage' = "BEGIN_PREPROCESS"
         \/ stage = "END_POSTPROCESS" /\ stage' = "BEGIN_POSTPROCESS",
         lev' = lev + 1, lpc' = "get_num_algs",
         UNCHANGED <<idx, stopLev, stopIdx, cur, state, registryVars, cast>>
  PROVE  WalkOK' /\ Turns' /\ Inits'
<1>1. /\ stage' \in Begins /\ (stage' \in InitStages) = (stage \in InitStages)
  BY SMTT(30) DEF Begins, InitStages
<1>2. /\ stopIdx \in Nat /\ idx \in Nat /\ lev \in Nat /\ stopLev \in Nat
      /\ lev >= 1 /\ lev <= stopLev /\ stopLev <= levels
      /\ lev < stopLev => stopIdx = tree[lev].size
  BY Zenon DEF RoundOK, WalkOK, Walking, AlgTypes, LoopTypes
<1>3. WalkOK'
  <2>1. lev' >= 1
    BY <1>2
  <2> QED
    BY <1>1, <1>2, <2>1, Zenon DEF WalkOK, Walking, registryVars
<1>4. ASSUME NEW l \in 1 .. levels, NEW i \in 1 .. tree[l].size, TurnOK(l, i), InitOK(l, i)
      PROVE  TurnOK(l, i)' /\ InitOK(l, i)'
  <2>1. l \in Nat /\ i \in Nat /\ i >= 1 /\ i <= tree[l].size
    BY PlaceType, Zenon DEF RoundOK
  <2>2. i <= stopIdx => i < idx
    BY <1>2, <2>1, SMTT(30)
  <2>3. \/ l < lev /\ l < lev'
        \/ l = lev /\ l < lev'
        \/ l > lev /\ l = lev' /\ ~(l < lev) /\ ~(l < lev') /\ ~(l > lev')
        \/ l > lev /\ l > lev' /\ ~(l < lev) /\ ~(l < lev')
    BY <1>2, <2>1
  <2>4. (l = lev => i <= stopIdx) => Turn(l, i) = Turn(l, i)'
    <3>1. CASE stage = "BEGIN_INIT"
      BY <3>1, Zenon DEF Turn, InitStages
    <3>2. CASE stage = "END_PREPROCESS"
      BY <1>2, <2>2, <2>3, <3>2, Table, Zenon DEF Turn, Walking, InitStages, PreStages
    <3>3. CASE stage = "END_POSTPROCESS"
      BY <1>2, <2>2, <2>3, <3>3, Table, Zenon DEF Turn, Walking, InitStages, PreStages
    <3> QED
      BY <3>1, <3>2, <3>3, Zenon
  <2>5. InitOK(l, i)'
    <3> SUFFICES ASSUME stage \in InitStages, l < stopLev, l < lev', At(l, i) \notin cast.restarting
                 PROVE  state[At(l, i)] # "READY_INIT"
      BY <1>1, Zenon DEF InitOK, Walking, At, registryVars
    <3>1. l < lev \/ (l = lev /\ i < idx)
      BY <1>2, <2>1, <2>2, <2>3, Zenon
    <3> QED
      BY <1>4, <3>1, Zenon DEF InitOK, Walking
  <2>6. TurnOK(l, i)'
    <3> HIDE DEF Turn
    <3> QED
      BY <1>4, <2>4, Zenon DEF TurnOK, Walking, At, Aside, registryVars
  <2> QED
    BY <2>5, <2>6, Zenon
<1> QED
  BY <1>3, <1>4, PlaceByPlace, Zenon DEF RoundOK, registryVars

LEMMA SweepDoneStep ==
  ASSUME AlgTypes, RoundOK, SweepDone, UNCHANGED cast
  PROVE  RoundOK'
<1>1. /\ lpc = "get_alg" /\ idx > stopIdx
      /\ UNCHANGED <<clientVars, up, down, handlerVars, state, registryVars, stopLev, stopIdx, cur,
                     batch, graph>>
  BY Zenon DEF SweepDone
<1>2. WalkOK' /\ Turns' /\ Inits'
  <2>1. CASE /\ stage \in {"BEGIN_PREPROCESS", "BEGIN_POSTPROCESS"} /\ stage' = EndOf(stage)
             /\ idx' = 1 /\ UNCHANGED <<lpc, lev>>
    BY <1>1, <2>1, SweepAgain, Zenon
  <2>2. CASE /\ stage \in {"BEGIN_INIT", "END_PREPROCESS", "END_POSTPROCESS"}
             /\ stage' = CASE stage = "BEGIN_INIT" -> "BEGIN_INIT"
                           [] stage = "END_PREPROCESS" -> "BEGIN_PREPROCESS"
                           [] stage = "END_POSTPROCESS" -> "BEGIN_POSTPROCESS"
             /\ lev' = lev + 1 /\ lpc' = "get_num_algs" /\ UNCHANGED idx
    <3>1. \/ stage = "BEGIN_INIT" /\ stage' = "BEGIN_INIT"
          \/ stage = "END_PREPROCESS" /\ stage' = "BEGIN_PREPROCESS"
          \/ stage = "END_POSTPROCESS" /\ stage' = "BEGIN_POSTPROCESS"
      BY <2>2, Zenon
    <3> QED
      BY <1>1, <2>2, <3>1, SweepOver, Zenon
  <2> QED
    BY <2>1, <2>2, Zenon DEF SweepDone, LGoto
<1> QED
  BY <1>1, <1>2, LoopFrame, Zenon DEF RoundOK

-----------------------------------------------------------------------------
(***************************************************************************)
(* The algorithm being served.                                             *)
(***************************************************************************)
\* The record being served is the one at lev and idx, and at no other place.
LEMMA Served ==
  ASSUME AlgTypes, RoundOK, lpc \in {"serve", "refuse"}
  PROVE  /\ lev \in 1 .. levels /\ idx \in 1 .. tree[lev].size
         /\ lev \in Nat /\ idx \in Nat /\ stopIdx \in Nat /\ stopLev \in Nat
         /\ lev <= stopLev /\ idx <= stopIdx /\ cur = At(lev, idx)
         /\ cur \in Clients /\ cur \notin freed /\ state[cur] # Null /\ level[cur] + 1 = lev
         /\ \A l \in 1 .. levels : \A i \in 1 .. tree[l].size :
              At(l, i) = cur => l = lev /\ i = idx
<1>1. /\ lev \in Nat /\ idx \in Nat /\ stopIdx \in Nat /\ stopLev \in Nat /\ levels \in Nat
      /\ lev <= stopLev /\ idx <= stopIdx /\ stopIdx <= tree[lev].size /\ stopLev <= levels
      /\ lev >= 1 /\ idx >= 1 /\ cur = At(lev, idx)
  BY Zenon DEF RoundOK, WalkOK, Walking, AlgTypes, LoopTypes, RegistryTypes
<1>2. lev \in 1 .. levels
  BY <1>1
<1>3. tree[lev].size \in Nat
  <2>1. tree \in Seq(Vectors) /\ Len(tree) = levels
    BY Zenon DEF RoundOK, TreeOK, Vectors
  <2> QED
    BY <1>2, <2>1, VectorType, Zenon
<1>4. idx \in 1 .. tree[lev].size
  BY <1>1, <1>3, SMTT(30)
<1>5. cur \in Clients /\ Placed(cur, lev)
  BY <1>1, <1>2, <1>4, AtClient, Zenon DEF RoundOK, RegistryOK
<1>6. ASSUME NEW l \in 1 .. levels, NEW i \in 1 .. tree[l].size, At(l, i) = cur
      PROVE  l = lev /\ i = idx
  <2>1. Placed(At(l, i), l)
    BY Zenon DEF RoundOK, RegistryOK
  <2>2. l = lev
    BY <1>5, <1>6, <2>1, Zenon DEF Placed
  <2> QED
    BY <1>1, <1>2, <1>4, <1>6, <2>2, SMTT(30) DEF RoundOK, RegistryOK
<1> QED
  BY <1>1, <1>2, <1>4, <1>5, <1>6, Zenon DEF Placed

\* On to the next algorithm of the level.
LEMMA TurnsNext ==
  ASSUME AlgTypes, RoundOK, lpc \in {"serve", "refuse"}, NextAlg,
         UNCHANGED <<cast, tree, levels>>,
         \A r \in Clients \ {cur} : state'[r] = state[r],
         state'[cur] \in Aside \/ state'[cur] = IF stage \in InitStages THEN "READY_PRE"
                                                ELSE After(stage),
         stage \in InitStages => state'[cur] # "READY_INIT"
  PROVE  WalkOK' /\ Turns' /\ Inits'
<1>1. /\ idx' = idx + 1 /\ cur' = Null /\ lpc' = "get_alg"
      /\ stage' = IF stage = "END_INIT" THEN "BEGIN_INIT" ELSE stage
      /\ UNCHANGED <<lev, stopLev, stopIdx, batch, graph>>
  BY Zenon DEF NextAlg, LGoto
<1>2. /\ (stage' \in InitStages) = (stage \in InitStages) /\ stage' # "END_INIT"
      /\ stage \notin InitStages => stage' = stage
  BY <1>1 DEF InitStages
<1>3. /\ lev \in 1 .. levels /\ idx \in 1 .. tree[lev].size
      /\ lev \in Nat /\ idx \in Nat /\ stopIdx \in Nat /\ stopLev \in Nat
      /\ lev <= stopLev /\ idx <= stopIdx /\ cur = At(lev, idx)
      /\ \A l \in 1 .. levels : \A i \in 1 .. tree[l].size :
           At(l, i) = cur => l = lev /\ i = idx
  BY Served, Zenon
<1>4. WalkOK'
  <2>1. idx' >= 1 /\ idx' <= stopIdx' + 1
    BY <1>1, <1>3
  <2> QED
    BY <1>1, <1>2, <2>1, Zenon DEF RoundOK, WalkOK, Walking
<1>5. ASSUME NEW l \in 1 .. levels, NEW i \in 1 .. tree[l].size, TurnOK(l, i), InitOK(l, i)
      PROVE  TurnOK(l, i)' /\ InitOK(l, i)'
  <2>1. l \in Nat /\ i \in Nat
    BY PlaceType, Zenon DEF RoundOK
  <2>2. CASE l = lev /\ i = idx
    <3>1. Turn(l, i)' = IF stage \in InitStages THEN "READY_PRE" ELSE After(stage)
      <4>1. i < idx' /\ l = lev' /\ ~(l < lev') /\ ~(l > lev')
        BY <1>1, <1>3, <2>2, SMTT(30)
      <4> QED
        BY <1>1, <1>2, <4>1, Zenon DEF Turn, Walking
    <3>2. At(l, i)' = cur
      BY <1>3, <2>2, Zenon DEF At
    <3>3. TurnOK(l, i)'
      <4> HIDE DEF Turn
      <4> QED
        BY <1>1, <1>3, <2>2, <3>1, <3>2, Zenon DEF TurnOK, Aside
    <3>4. InitOK(l, i)'
      BY <1>2, <3>2, Zenon DEF InitOK
    <3> QED
      BY <3>3, <3>4, Zenon
  <2>3. CASE ~(l = lev /\ i = idx)
    <3>1. At(l, i) # cur /\ At(l, i) \in Clients /\ At(l, i)' = At(l, i)
      BY <1>3, <2>3, AtClient, Zenon DEF At, RoundOK
    <3>2. state'[At(l, i)] = state[At(l, i)]
      BY <3>1, Zenon
    <3>3. l = lev => (i < idx' <=> i < idx)
      BY <1>1, <1>3, <2>1, <2>3, SMTT(30)
    <3>4. Turn(l, i)' = Turn(l, i)
      <4>0. lev \in Nat
        BY <1>3, Zenon
      <4>1. \/ l < lev
            \/ ~(l < lev) /\ l > lev
            \/ l = lev /\ ~(l < lev) /\ ~(l > lev)
        BY <2>1, <4>0
      <4>2. CASE stage \in InitStages
        BY <1>1, <1>2, <4>2, Zenon DEF Turn
      <4>3. CASE stage \notin InitStages
        BY <1>1, <1>2, <3>3, <4>1, <4>3, Zenon DEF Turn, Walking
      <4> QED
        BY <4>2, <4>3, Zenon
    <3>5. TurnOK(l, i)'
      <4> HIDE DEF Turn
      <4> QED
        BY <1>1, <1>5, <2>3, <3>1, <3>2, <3>4, Zenon DEF TurnOK, Walking, Aside
    <3>6. InitOK(l, i)'
      BY <1>1, <1>2, <1>5, <3>1, <3>2, <3>3, Zenon DEF InitOK, Walking
    <3> QED
      BY <3>5, <3>6, Zenon
  <2> QED
    BY <2>2, <2>3, Zenon
<1> QED
  BY <1>4, <1>5, PlaceByPlace, Zenon DEF RoundOK

\* The same algorithm is served on.
LEMMA TurnsStay ==
  ASSUME AlgTypes, RoundOK, lpc = "serve", lpc' \in {"serve", "refuse"},
         stage' = stage \/ (stage = "BEGIN_INIT" /\ stage' = "END_INIT"),
         UNCHANGED <<counters, cur, cast, tree, levels>>,
         \A r \in Clients \ {cur} : state'[r] = state[r],
         \/ state'[cur] = "READY_INIT" /\ lpc' = "serve" /\ stage' = "BEGIN_INIT"
         \/ state'[cur] = "ERROR" /\ lpc' = "refuse"
         \/ state'[cur] = "PERFORMING_INIT" /\ lpc' = "serve" /\ stage' = "END_INIT"
  PROVE  WalkOK' /\ Turns' /\ Inits'
<1>1. /\ lev \in 1 .. levels /\ idx \in 1 .. tree[lev].size
      /\ lev \in Nat /\ idx \in Nat /\ cur = At(lev, idx)
      /\ \A l \in 1 .. levels : \A i \in 1 .. tree[l].size :
           At(l, i) = cur => l = lev /\ i = idx
  BY Served, Zenon
<1>2. /\ (stage' \in InitStages) = (stage \in InitStages)
      /\ stage \notin InitStages => stage' = stage
  BY SMTT(30) DEF InitStages
<1>3. WalkOK'
  BY Zenon DEF RoundOK, WalkOK, Walking, counters, At
<1>4. ASSUME NEW l \in 1 .. levels, NEW i \in 1 .. tree[l].size, TurnOK(l, i), InitOK(l, i)
      PROVE  TurnOK(l, i)' /\ InitOK(l, i)'
  <2>1. CASE l = lev /\ i = idx
    <3>1. At(l, i)' = cur
      BY <1>1, <2>1, Zenon DEF At
    <3>2. TurnOK(l, i)'
      BY <2>1, <3>1, Zenon DEF TurnOK, Aside, counters
    <3>3. ~(l < lev') /\ ~(i < idx')
      BY <1>1, <2>1 DEF counters
    <3> QED
      BY <3>2, <3>3, Zenon DEF InitOK
  <2>2. CASE ~(l = lev /\ i = idx)
    <3>1. At(l, i) # cur /\ At(l, i) \in Clients /\ At(l, i)' = At(l, i)
      BY <1>1, <2>2, AtClient, Zenon DEF At, RoundOK
    <3>2. state'[At(l, i)] = state[At(l, i)]
      BY <3>1, Zenon
    <3>3. Turn(l, i)' = Turn(l, i)
      BY <1>2, Zenon DEF Turn, Walking, counters
    <3>4. TurnOK(l, i)'
      <4> HIDE DEF Turn
      <4> QED
        BY <1>4, <2>2, <3>1, <3>2, <3>3, Zenon DEF TurnOK, Walking, Aside, counters
    <3>5. InitOK(l, i)'
      BY <1>2, <1>4, <3>1, <3>2, Zenon DEF InitOK, Walking, counters
    <3> QED
      BY <3>4, <3>5, Zenon
  <2> QED
    BY <2>1, <2>2, Zenon
<1> QED
  BY <1>3, <1>4, PlaceByPlace, Zenon DEF RoundOK

\* What a step that serves the algorithm leaves as it is.
LEMMA ServeFrame ==
  ASSUME AlgTypes, RoundOK, lpc \in {"serve", "refuse"},
         UNCHANGED <<cast, clientVars, handlerVars, registryVars, batch, graph>>,
         \A c \in Clients \ {cur} : up'[c] = up[c] /\ down'[c] = down[c] /\ state'[c] = state[c],
         state'[cur] # Null, NEW r \in Clients, r = cur, ClientOK(r)'
  PROVE  TreeOK' /\ RegistryOK' /\ Resolutions' /\ Phases'
<1>1. cur \in Clients /\ cur \notin freed /\ state[cur] # Null
  BY Served, Zenon
<1>2. /\ UNCHANGED <<cpc, call, log, hpc, resolved, level, freed, tree, levels, map>>
  BY Zenon DEF clientVars, handlerVars, registryVars
<1>3. /\ \A d \in Clients : state[d] # Null => state'[d] # Null
      /\ \A d \in Clients : state'[d] # Null => state[d] # Null
      /\ freed \subseteq Clients
      /\ \A d \in freed : state'[d] = state[d]
  BY <1>1, Zenon DEF AlgTypes, RegistryTypes
<1>4. TreeOK' /\ RegistryOK'
  BY <1>2, <1>3, RegistryFrame, Zenon DEF RoundOK, AlgTypes, RegistryTypes
<1>5. Resolutions'
  <2>1. resolved \in [Clients -> SUBSET Clients]
    BY Zenon DEF AlgTypes, HandlerTypes
  <2>2. ASSUME NEW c \in Clients, NEW d \in resolved[c] PROVE state'[d] # Null /\ level[d] < level[c]
    BY <1>3, <2>1, Zenon DEF RoundOK, Resolutions, DepsOK
  <2> QED
    BY <1>2, <2>2, Zenon DEF Resolutions, DepsOK
<1>6. ASSUME NEW c \in Clients PROVE ClientOK(c)'
  <2>1. CASE c # r
    <3>1. up'[c] = up[c] /\ down'[c] = down[c] /\ state'[c] = state[c] /\ ClientOK(c)
      BY <2>1, Zenon DEF RoundOK, Phases
    <3> QED
      BY <1>2, <3>1, ClientFrame, Zenon
  <2> QED
    BY <2>1, Zenon
<1> QED
  BY <1>4, <1>5, <1>6, Zenon DEF Phases

\* No algorithm above the level served is at work, and below it each has had
\* the stage.
LEMMA AboveAndBelow ==
  ASSUME AlgTypes, RoundOK, lpc \in {"serve", "refuse"},
         NEW l \in 1 .. levels, NEW i \in 1 .. tree[l].size
  PROVE  /\ l > lev => state[At(l, i)] \notin {"PERFORMING_PRE", "PERFORMING_POST"}
         /\ l < lev /\ stage = "BEGIN_PREPROCESS" => state[At(l, i)] \in Aside \cup {"READY_POST"}
         /\ l < lev /\ stage = "BEGIN_POSTPROCESS" => state[At(l, i)] \in Aside \cup {"READY_PRE"}
         /\ l < lev /\ stage \in InitStages /\ At(l, i) \notin cast.restarting =>
              state[At(l, i)] # "READY_INIT"
<1>1. TurnOK(l, i) /\ InitOK(l, i)
  BY Zenon DEF RoundOK, Turns, Inits
<1>2. l \in Nat /\ lev \in Nat /\ stopLev \in Nat /\ lev <= stopLev
  BY Served, PlaceType, Zenon DEF RoundOK
<1>3. /\ l > lev => l # lev /\ ~(l < lev)
      /\ l < lev => l # lev /\ ~(l > lev) /\ l < stopLev
  BY <1>2
<1>4. l > lev => Turn(l, i) \in {"READY_PRE", "READY_POST"}
  BY <1>3, Zenon DEF Turn, InitStages
<1>5. /\ l < lev /\ stage = "BEGIN_PREPROCESS" => Turn(l, i) = "READY_POST"
      /\ l < lev /\ stage = "BEGIN_POSTPROCESS" => Turn(l, i) = "READY_PRE"
  BY <1>3, Zenon DEF Turn, InitStages, PreStages
<1>6. l < lev /\ stage \in InitStages /\ At(l, i) \notin cast.restarting =>
        state[At(l, i)] # "READY_INIT"
  BY <1>1, <1>3, Zenon DEF InitOK, Walking
<1> HIDE DEF Turn
<1>7. l # lev => state[At(l, i)] \in Aside \/ state[At(l, i)] = Turn(l, i)
  BY <1>1, Zenon DEF TurnOK
<1> QED
  BY <1>3, <1>4, <1>5, <1>6, <1>7, Zenon DEF Aside

LEMMA BelowServe ==
  ASSUME AlgTypes, RoundOK, lpc \in {"serve", "refuse"}, UNCHANGED <<cast, tree, levels>>,
         \A r \in Clients \ {cur} : state'[r] = state[r],
         state'[cur] = "READY_INIT" => cur \in cast.restarting,
         stage \notin InitStages /\ state'[cur] \notin Aside => state[cur] \notin Aside,
         state'[cur] = "PERFORMING_PRE" => stage = "BEGIN_PREPROCESS",
         state'[cur] = "PERFORMING_POST" => stage = "BEGIN_POSTPROCESS"
  PROVE  Belows'
<1>1. /\ lev \in Nat /\ cur = At(lev, idx)
      /\ \A l \in 1 .. levels : \A i \in 1 .. tree[l].size :
           At(l, i) = cur => l = lev /\ i = idx
  BY Served, Zenon
<1>2. ASSUME NEW l \in 1 .. levels, NEW k \in 1 .. l - 1,
             NEW i \in 1 .. tree[l].size, NEW j \in 1 .. tree[k].size,
             NEW r, NEW s, r = At(k, j), s = At(l, i)
      PROVE  /\ state'[r] = "READY_INIT" /\ r \notin cast.restarting => state'[s] \in Aside
             /\ state'[s] = "PERFORMING_PRE" => state'[r] \in Aside \cup {"READY_POST"}
             /\ state'[s] = "PERFORMING_POST" => state'[r] \in Aside \cup {"READY_PRE"}
  <2>0. levels \in Nat /\ l \in Nat /\ k \in Nat /\ k < l /\ k \in 1 .. levels
    BY DEF AlgTypes, RegistryTypes
  <2>1. r \in Clients /\ s \in Clients
    BY <1>2, <2>0, AtClient, Zenon DEF RoundOK
  <2>2. BelowOK(r, s)
    BY <1>2, Zenon DEF RoundOK, Belows
  <2>3. CASE r # cur /\ s # cur
    BY <2>1, <2>2, <2>3, Zenon DEF BelowOK
  <2>4. CASE r = cur
    <3>1. k = lev
      BY <1>1, <1>2, <2>0, <2>4, Zenon
    <3>2. l > lev /\ l # lev
      BY <2>0, <3>1
    <3>3. s # cur
      BY <1>1, <1>2, <3>2, Zenon
    <3>4. state'[s] = state[s] /\ state[s] \notin {"PERFORMING_PRE", "PERFORMING_POST"}
      BY <1>2, <2>1, <3>2, <3>3, AboveAndBelow, Zenon
    <3> QED
      BY <2>4, <3>4, Zenon
  <2>5. CASE s = cur
    <3>1. l = lev
      BY <1>1, <1>2, <2>5, Zenon
    <3>2. k < lev /\ k # lev
      BY <2>0, <3>1
    <3>3. r # cur
      BY <1>1, <1>2, <2>0, <3>2, Zenon
    <3>4. /\ state'[r] = state[r]
          /\ stage = "BEGIN_PREPROCESS" => state[r] \in Aside \cup {"READY_POST"}
          /\ stage = "BEGIN_POSTPROCESS" => state[r] \in Aside \cup {"READY_PRE"}
          /\ stage \in InitStages /\ r \notin cast.restarting => state[r] # "READY_INIT"
      BY <1>2, <2>0, <2>1, <3>2, <3>3, AboveAndBelow, Zenon
    <3> QED
      BY <2>2, <2>5, <3>4, Zenon DEF BelowOK
  <2> QED
    BY <2>3, <2>4, <2>5, Zenon
<1> QED
  BY <1>2 DEF Belows, BelowOK, At, Aside

LEMMA SkipStep ==
  ASSUME AlgTypes, RoundOK, Skip, UNCHANGED cast
  PROVE  RoundOK'
<1>1. /\ lpc = "serve" /\ state[cur] # Before(stage) /\ NextAlg
      /\ UNCHANGED <<clientVars, up, down, handlerVars, state, registryVars, batch, graph>>
  BY Zenon DEF Skip, NextAlg
<1>2. /\ lev \in 1 .. levels /\ idx \in 1 .. tree[lev].size /\ cur = At(lev, idx)
  BY <1>1, Served, Zenon
<1>3. stage # "END_INIT"
  BY <1>1, Table, Zenon DEF RoundOK, WalkOK
<1>4. \/ state[cur] \in Aside
      \/ state[cur] = "READY_PRE" /\ stage \in InitStages
  <2>1. TurnOK(lev, idx)
    BY <1>1, <1>2, Zenon DEF RoundOK, Turns
  <2>2. idx \in Nat /\ lev \in Nat
    BY Zenon DEF AlgTypes, LoopTypes
  <2>3. ~(lev < lev) /\ ~(lev > lev) /\ ~(idx < idx)
    BY <2>2
  <2>4. Turn(lev, idx) = IF stage \in InitStages THEN "READY_PRE" ELSE Before(stage)
    BY <1>1, <2>3, Zenon DEF Turn
  <2> HIDE DEF Turn
  <2> QED
    BY <1>1, <1>2, <1>3, <2>1, <2>4, Zenon DEF TurnOK
<1>5. stage \in InitStages => state[cur] # "READY_INIT"
  BY <1>1, <1>3, Table, Zenon DEF InitStages
<1>6. WalkOK' /\ Turns' /\ Inits'
  BY <1>1, <1>4, <1>5, TurnsNext, Zenon DEF registryVars
<1> QED
  BY <1>1, <1>6, LoopFrame, Zenon DEF RoundOK

\* The record in error is made ready for init: its client leaves out init.
LEMMA EatStep ==
  ASSUME AlgTypes, RoundOK, Eat, UNCHANGED cast
  PROVE  RoundOK'
<1>1. /\ lpc = "serve" /\ stage = "BEGIN_INIT" /\ state[cur] = "ERROR" /\ up[cur] # Null
      /\ up' = [up EXCEPT ![cur] = Null] /\ state' = [state EXCEPT ![cur] = "READY_INIT"]
      /\ UNCHANGED <<clientVars, down, handlerVars, registryVars, loopVars>>
  BY Zenon DEF Eat, Take
<1>2. PICK r \in Clients : r = cur
  BY <1>1, Served, Zenon
<1>3. /\ up'[r] = Null /\ state'[r] = "READY_INIT" /\ down'[r] = down[r]
      /\ \A c \in Clients \ {cur} : up'[c] = up[c] /\ down'[c] = down[c] /\ state'[c] = state[c]
      /\ UNCHANGED <<cpc, call, log, hpc, freed>>
  BY <1>1, <1>2, Zenon DEF AlgTypes, ClientTypes, RegistryTypes, clientVars, handlerVars, registryVars
<1>4. /\ HandlerOK(r) /\ RequestOK(r) /\ PhaseOK(r) /\ Shown(r) /\ (Alive(r) => LogOK(r))
  BY Zenon DEF RoundOK, Phases, ClientOK
<1>5. up[r] \in Requests
  BY <1>1, <1>2, Zenon DEF AlgTypes, ClientTypes
<1>6. r \in cast.restarting
  BY <1>1, <1>2, <1>4, <1>5, Table, Zenon DEF RequestOK, Requests
<1>7. ClientOK(r)'
  <2>1. HandlerOK(r)' /\ RequestOK(r)'
    BY <1>1, <1>2, <1>3, <1>4, NullIsNew, Zenon DEF HandlerOK, RequestOK
  <2>2. PhaseOK(r)'
    BY <1>1, <1>2, <1>3, <1>4, <1>6, Zenon DEF PhaseOK, Registers, Errs
  <2>3. Shown(r)'
    BY <1>3, <1>4, Zenon DEF Shown, Follows
  <2>4. Alive(r)' => LogOK(r)'
    BY <1>1, <1>2, <1>3, <1>4, Zenon DEF Alive, LogOK
  <2> QED
    BY <2>1, <2>2, <2>3, <2>4, Zenon DEF ClientOK
<1>8. TreeOK' /\ RegistryOK' /\ Resolutions' /\ Phases'
  BY <1>1, <1>2, <1>3, <1>7, NullIsNew, ServeFrame, Zenon DEF loopVars
<1>9. WalkOK' /\ Turns' /\ Inits'
  <2>1. /\ lpc = "serve" /\ lpc' \in {"serve", "refuse"} /\ stage' = stage
        /\ state'[cur] = "READY_INIT" /\ lpc' = "serve" /\ stage' = "BEGIN_INIT"
        /\ UNCHANGED <<counters, cur, cast, tree, levels>>
        /\ \A c \in Clients \ {cur} : state'[c] = state[c]
    BY <1>1, <1>2, <1>3, Zenon DEF loopVars, registryVars
  <2>2. stage' = stage \/ (stage = "BEGIN_INIT" /\ stage' = "END_INIT")
    BY <2>1, Zenon
  <2>3. \/ state'[cur] = "READY_INIT" /\ lpc' = "serve" /\ stage' = "BEGIN_INIT"
        \/ state'[cur] = "ERROR" /\ lpc' = "refuse"
        \/ state'[cur] = "PERFORMING_INIT" /\ lpc' = "serve" /\ stage' = "END_INIT"
    BY <2>1, Zenon
  <2> QED
    BY <2>1, <2>2, <2>3, TurnsStay, Zenon
<1>10. Belows'
  BY <1>1, <1>2, <1>3, <1>6, BelowServe, Zenon DEF registryVars, Aside, InitStages
<1> QED
  BY <1>8, <1>9, <1>10, Zenon DEF RoundOK

\* An unexpected request comes from a client that leaves out init, or is what is
\* left of one that died.
LEMMA RefuseStep ==
  ASSUME AlgTypes, RoundOK, Refuse, UNCHANGED cast
  PROVE  RoundOK'
<1>1. /\ lpc = "serve" /\ state[cur] = Before(stage) /\ up[cur] # stage /\ lpc' = "refuse"
      /\ up[cur] # Null \/ ~Alive(cur)
      /\ state' = [state EXCEPT ![cur] = "ERROR"]
      /\ UNCHANGED <<clientVars, up, down, handlerVars, registryVars, stage, counters, cur, batch, graph>>
  BY Zenon DEF Refuse, LGoto, CanBeRead
<1>2. PICK r \in Clients : r = cur
  BY <1>1, Served, Zenon
<1>3. /\ up'[r] = up[r] /\ state'[r] = "ERROR" /\ down'[r] = down[r]
      /\ \A c \in Clients \ {cur} : up'[c] = up[c] /\ down'[c] = down[c] /\ state'[c] = state[c]
      /\ UNCHANGED <<cpc, call, log, hpc, freed>>
  BY <1>1, <1>2, Zenon DEF AlgTypes, RegistryTypes, clientVars, handlerVars, registryVars
<1>4. /\ HandlerOK(r) /\ RequestOK(r) /\ PhaseOK(r) /\ Shown(r) /\ (Alive(r) => LogOK(r))
  BY Zenon DEF RoundOK, Phases, ClientOK
<1>5. stage \in Requests /\ up[r] \in Requests \cup {Null} /\ state[r] = Before(stage)
  BY <1>1, <1>2, Zenon DEF AlgTypes, ClientTypes, LoopTypes
<1>6. state[r] \in AlgStates /\ state[r] # Null /\ state[r] # "ERROR"
  BY <1>5, Table, RequestTypes, NullIsNew, SMTT(30) DEF Requests
<1>7. up[r] # Null => r \in cast.restarting
  BY <1>1, <1>2, <1>4, <1>5, BeforeInjective, Zenon DEF RequestOK
<1>8. cpc[r] # "gone" => /\ r \in cast.restarting /\ call[r] = "BEGIN_PREPROCESS"
                         /\ cpc[r] = "wait" /\ up[r] = "BEGIN_PREPROCESS" /\ down[r] = Null
                         /\ state[r] = "READY_INIT"
  <2>1. cpc[r] # "gone" => up[r] # Null /\ cpc[r] # "new"
    BY <1>1, <1>2, <1>4, <1>6, ZenonT(30) DEF Alive, HandlerOK
  <2> QED
    BY <1>4, <1>6, <1>7, <2>1, Zenon DEF PhaseOK, Registers, Errs
<1>9. ClientOK(r)'
  <2>1. HandlerOK(r)' /\ RequestOK(r)'
    BY <1>3, <1>4, <1>6, <1>7, NullIsNew, Zenon DEF HandlerOK, RequestOK
  <2>2. PhaseOK(r)'
    BY <1>3, <1>8, Zenon DEF PhaseOK, Errs
  <2>3. Shown(r)'
    BY <1>3, <1>4, Zenon DEF Shown, Follows
  <2>4. Alive(r)' => LogOK(r)'
    BY <1>3, <1>4, <1>8, Zenon DEF Alive, LogOK
  <2> QED
    BY <2>1, <2>2, <2>3, <2>4, Zenon DEF ClientOK
<1>10. TreeOK' /\ RegistryOK' /\ Resolutions' /\ Phases'
  BY <1>1, <1>2, <1>3, <1>9, NullIsNew, ServeFrame, Zenon
<1>11. WalkOK' /\ Turns' /\ Inits'
  <2>1. /\ lpc = "serve" /\ lpc' \in {"serve", "refuse"} /\ stage' = stage
        /\ state'[cur] = "ERROR" /\ lpc' = "refuse"
        /\ UNCHANGED <<counters, cur, cast, tree, levels>>
        /\ \A c \in Clients \ {cur} : state'[c] = state[c]
    BY <1>1, <1>2, <1>3, Zenon DEF registryVars
  <2>2. stage' = stage \/ (stage = "BEGIN_INIT" /\ stage' = "END_INIT")
    BY <2>1, Zenon
  <2>3. \/ state'[cur] = "READY_INIT" /\ lpc' = "serve" /\ stage' = "BEGIN_INIT"
        \/ state'[cur] = "ERROR" /\ lpc' = "refuse"
        \/ state'[cur] = "PERFORMING_INIT" /\ lpc' = "serve" /\ stage' = "END_INIT"
    BY <2>1, Zenon
  <2> QED
    BY <2>1, <2>2, <2>3, TurnsStay, Zenon
<1>12. Belows'
  BY <1>1, <1>2, <1>3, BelowServe, Zenon DEF registryVars, Aside
<1> QED
  BY <1>10, <1>11, <1>12, Zenon DEF RoundOK

LEMMA SendRefusalStep ==
  ASSUME AlgTypes, RoundOK, SendRefusal, UNCHANGED cast
  PROVE  RoundOK'
<1>1. /\ lpc = "refuse" /\ NextAlg /\ up' = [up EXCEPT ![cur] = Null]
      /\ \/ down' = down
         \/ down' = [down EXCEPT ![cur] = [action |-> up[cur], ok |-> FALSE, batch |-> batch]]
      /\ UNCHANGED <<clientVars, handlerVars, state, registryVars, batch, graph>>
  BY Zenon DEF SendRefusal, Reply, Take, NextAlg
<1>2. PICK r \in Clients : r = cur
  BY <1>1, Served, Zenon
<1>3. state[r] = "ERROR"
  BY <1>1, <1>2, Zenon DEF RoundOK, WalkOK
<1>4. [action |-> up[r], ok |-> FALSE, batch |-> batch] # Null
  <2>1. [action |-> up[r], ok |-> FALSE, batch |-> batch] \in Answers
    BY Zenon DEF AlgTypes, ClientTypes, LoopTypes, Answers
  <2> QED
    BY <2>1, NullIsNew, Zenon
<1>5. /\ up'[r] = Null /\ state'[r] = "ERROR"
      /\ down'[r] = down[r] \/ (down'[r] # Null /\ ~down'[r].ok)
      /\ \A c \in Clients \ {cur} : up'[c] = up[c] /\ down'[c] = down[c] /\ state'[c] = state[c]
      /\ UNCHANGED <<cpc, call, log, hpc, freed>>
  <2>1. \/ down'[r] = down[r]
        \/ down'[r] = [action |-> up[r], ok |-> FALSE, batch |-> batch]
    BY <1>1, <1>2, Zenon DEF AlgTypes, ClientTypes
  <2>2. down'[r] = down[r] \/ (down'[r] # Null /\ ~down'[r].ok)
    BY <1>4, <2>1
  <2>3. \A c \in Clients \ {cur} : up'[c] = up[c] /\ down'[c] = down[c] /\ state'[c] = state[c]
    BY <1>1, Zenon DEF AlgTypes, ClientTypes
  <2> QED
    BY <1>1, <1>2, <1>3, <2>2, <2>3, Zenon DEF AlgTypes, ClientTypes, clientVars, handlerVars, registryVars
<1>6. /\ HandlerOK(r) /\ PhaseOK(r) /\ Shown(r) /\ (Alive(r) => LogOK(r))
  BY Zenon DEF RoundOK, Phases, ClientOK
<1>7. ClientOK(r)'
  <2>1. HandlerOK(r)' /\ RequestOK(r)'
    BY <1>3, <1>5, <1>6, NullIsNew, Zenon DEF HandlerOK, RequestOK
  <2>2. PhaseOK(r)'
    <3>1. cpc[r] # "gone" =>
            /\ r \in cast.restarting /\ call[r] \in {"BEGIN_PREPROCESS", "BEGIN_INIT"}
            /\ cpc[r] = "wait" /\ (down[r] = Null \/ (down[r] # Null /\ ~down[r].ok))
      <4>1. \A q \in Requests : Before(q) # "ERROR" /\ After(q) # "ERROR"
        BY Table, Zenon DEF Requests
      <4>2. cpc[r] # "new"
        BY <1>3, <1>6, NullIsNew, Zenon DEF HandlerOK
      <4>3. ~Registers(r)
        BY <1>3, NullIsNew, Zenon DEF Registers
      <4>4. call[r] \in Requests => ~Asks(r) /\ ~Granted(r) /\ ~Works(r)
        BY <1>3, <4>1, Zenon DEF Asks, Granted, Works
      <4> QED
        BY <1>6, <4>2, <4>3, <4>4, RequestTypes, Zenon DEF PhaseOK, Errs
    <3> QED
      BY <1>5, <3>1, Zenon DEF PhaseOK, Errs
  <2>3. Shown(r)'
    BY <1>5, <1>6, Zenon DEF Shown, Follows
  <2>4. Alive(r)' => LogOK(r)'
    BY <1>3, <1>5, <1>6, Zenon DEF Alive, LogOK
  <2> QED
    BY <2>1, <2>2, <2>3, <2>4, Zenon DEF ClientOK
<1>8. TreeOK' /\ RegistryOK' /\ Resolutions' /\ Phases'
  BY <1>1, <1>2, <1>3, <1>5, <1>7, NullIsNew, ServeFrame, Zenon
<1>9. WalkOK' /\ Turns' /\ Inits'
  BY <1>1, <1>2, <1>3, TurnsNext, Zenon DEF registryVars, Aside
<1>10. Belows'
  BY <1>1, BelowFrame, Zenon DEF RoundOK, registryVars
<1> QED
  BY <1>8, <1>9, <1>10, Zenon DEF RoundOK

\* The client of a record whose expected request is granted: it hears of it, and
\* what it has been shown fits the next state.
LEMMA GrantClient ==
  ASSUME AlgTypes, RoundOK, lpc = "serve", NEW r \in Clients, r \notin freed,
         state[r] = Before(stage), up[r] = stage, up'[r] = Null, state'[r] = After(stage),
         down'[r] = [action |-> stage, ok |-> TRUE, batch |-> batch],
         UNCHANGED <<cast, cpc, call, log, hpc, freed, batch, graph>>
  PROVE  ClientOK(r)'
<1>1. /\ HandlerOK(r) /\ RequestOK(r) /\ PhaseOK(r) /\ Shown(r) /\ (Alive(r) => LogOK(r))
  BY Zenon DEF RoundOK, Phases, ClientOK
<1>2. /\ stage \in Requests /\ stage # Null /\ state[r] # Null /\ state[r] # "ERROR"
      /\ After(stage) \in AlgStates /\ After(stage) # Null
  <2>1. stage \in Requests
    BY Zenon DEF AlgTypes, LoopTypes
  <2>2. stage # Null /\ After(stage) \in AlgStates /\ Before(stage) \in AlgStates
    BY <2>1, RequestTypes, NullIsNew, Zenon
  <2>3. Before(stage) # "ERROR"
    BY <2>1, Table, Zenon DEF Requests
  <2> QED
    BY <2>1, <2>2, <2>3, NullIsNew, Zenon
<1>3. HandlerOK(r)' /\ RequestOK(r)'
  BY <1>1, <1>2, Zenon DEF HandlerOK, RequestOK
<1>4. cpc[r] # "gone" => /\ r \notin cast.restarting /\ call[r] = stage /\ cpc[r] = "wait"
  <2>1. cpc[r] # "new"
    BY <1>1, <1>2, Zenon DEF HandlerOK
  <2>2. ~Registers(r) /\ ~Granted(r) /\ ~Works(r)
    BY <1>2, Zenon DEF Registers, Granted, Works
  <2>3. ~Errs(r)
    <3>1. stage = "BEGIN_PREPROCESS" => state[r] = "READY_PRE"
      BY Table, Zenon
    <3> QED
      BY <1>2, <3>1, Zenon DEF Errs
  <2> QED
    BY <1>1, <2>1, <2>2, <2>3, Zenon DEF PhaseOK, Asks
<1>5. PhaseOK(r)'
  <2>1. /\ down'[r] # Null /\ down'[r].ok /\ down'[r].action = stage /\ down'[r].batch = batch
    <3>1. [action |-> stage, ok |-> TRUE, batch |-> batch] \in Answers
      BY <1>2, Zenon DEF AlgTypes, LoopTypes, Answers
    <3>2. down'[r] # Null
      BY <3>1, NullIsNew, Zenon
    <3> QED
      BY <3>2, SMTT(30)
  <2>2. CASE cpc[r] = "gone"
    BY <2>2, Zenon DEF PhaseOK
  <2>3. CASE cpc[r] # "gone"
    <3>1. Granted(r)'
      BY <1>4, <2>1, <2>3, Zenon DEF Granted, After, EndOf, Begins
    <3> HIDE DEF Granted
    <3> QED
      BY <1>2, <1>4, <2>3, <3>1, Zenon DEF PhaseOK
  <2> QED
    BY <2>2, <2>3, Zenon
<1>6. Shown(r)'
  BY <1>1, ZenonT(30) DEF Shown, Follows
<1>7. ASSUME cpc[r] # "gone" PROVE LogOK(r)'
  <2>1. LogOK(r) /\ call[r] = stage /\ cpc[r] = "wait"
    BY <1>1, <1>4, <1>7, Zenon DEF Alive
  <2>2. /\ stage \in InitStages \cup PreStages => graph = batch - 1
        /\ stage \in PostStages => graph = batch
    BY Zenon DEF AlgTypes, LoopTypes, GraphOK, InitStages, PreStages, PostStages
  <2>3. /\ ShownBefore(r)' = ShownBefore(r) /\ ShownPre(r)' = ShownPre(r)
    BY Zenon DEF ShownBefore, ShownPre, Last
  <2>4. CASE stage = "BEGIN_INIT"
    BY <2>1, <2>2, <2>4, Table, Zenon DEF LogOK, InitStages
  <2>5. CASE stage = "END_INIT"
    <3>1. Entered(r, "BEGIN_INIT", batch, graph) /\ graph = batch - 1
      BY <2>1, <2>5, Table, Zenon DEF LogOK
    <3>2. ShownBefore(r)
      BY <3>1, SMTT(30) DEF Entered, ShownBefore
    <3> QED
      BY <2>3, <2>5, <3>2, Table, NullIsNew, SMTT(30) DEF LogOK
  <2>6. CASE stage = "BEGIN_PREPROCESS"
    <3>1. ShownBefore(r)
      BY <2>1, <2>6, Table, Zenon DEF LogOK
    <3> QED
      BY <2>1, <2>2, <2>3, <2>6, <3>1, Table, NullIsNew, SMTT(30) DEF LogOK, PreStages
  <2>7. CASE stage = "END_PREPROCESS"
    <3>1. Entered(r, "BEGIN_PREPROCESS", batch, graph)
      BY <2>1, <2>7, Table, Zenon DEF LogOK
    <3>2. ShownPre(r)
      BY <3>1, SMTT(30) DEF Entered, ShownPre
    <3> QED
      BY <2>3, <2>7, <3>2, Table, NullIsNew, ZenonT(30) DEF LogOK
  <2>8. CASE stage = "BEGIN_POSTPROCESS"
    <3>1. ShownPre(r)
      BY <2>1, <2>8, Table, Zenon DEF LogOK
    <3> QED
      BY <2>1, <2>2, <2>3, <2>8, <3>1, Table, NullIsNew, SMTT(30) DEF LogOK, PostStages
  <2>9. CASE stage = "END_POSTPROCESS"
    <3>1. Entered(r, "BEGIN_POSTPROCESS", batch, graph) /\ graph = batch
      BY <2>1, <2>9, Table, Zenon DEF LogOK
    <3>2. ShownBefore(r)
      BY <3>1, SMTT(30) DEF Entered, ShownBefore
    <3> QED
      BY <2>3, <2>9, <3>2, Table, NullIsNew, ZenonT(30) DEF LogOK
  <2> QED
    BY <1>2, <2>4, <2>5, <2>6, <2>7, <2>8, <2>9, Zenon DEF Requests
<1> QED
  BY <1>3, <1>5, <1>6, <1>7, SMTT(30) DEF ClientOK, Alive

LEMMA GrantStep ==
  ASSUME AlgTypes, RoundOK, Grant, UNCHANGED cast
  PROVE  RoundOK'
<1>1. /\ lpc = "serve" /\ state[cur] = Before(stage) /\ up[cur] = stage
      /\ up' = [up EXCEPT ![cur] = Null] /\ state' = [state EXCEPT ![cur] = After(stage)]
      /\ down' = [down EXCEPT ![cur] = [action |-> stage, ok |-> TRUE, batch |-> batch]]
      /\ UNCHANGED <<clientVars, handlerVars, registryVars, batch, graph>>
  BY Zenon DEF Grant, Reply, Take, NextAlg
<1>2. PICK r \in Clients : r = cur /\ r \notin freed
  BY <1>1, Served, Zenon
<1>3. /\ up'[r] = Null /\ state'[r] = After(stage)
      /\ down'[r] = [action |-> stage, ok |-> TRUE, batch |-> batch]
      /\ \A c \in Clients \ {cur} : up'[c] = up[c] /\ down'[c] = down[c] /\ state'[c] = state[c]
      /\ UNCHANGED <<cpc, call, log, hpc, freed, tree, levels>>
  BY <1>1, <1>2, ZenonT(30) DEF AlgTypes, ClientTypes, RegistryTypes, clientVars, handlerVars, registryVars
<1>4. ClientOK(r)'
  BY <1>1, <1>2, <1>3, GrantClient, Zenon
<1>5. stage \in Requests /\ state'[cur] = After(stage)
  BY <1>2, <1>3, Zenon DEF AlgTypes, LoopTypes
<1>6. state'[cur] # Null
  BY <1>5, RequestTypes, NullIsNew, Zenon
<1>7. TreeOK' /\ RegistryOK' /\ Resolutions' /\ Phases'
  BY <1>1, <1>2, <1>3, <1>4, <1>6, ServeFrame, Zenon
<1>8. Belows'
  <2>1. /\ state'[cur] # "READY_INIT"
        /\ state'[cur] = "PERFORMING_PRE" => stage = "BEGIN_PREPROCESS"
        /\ state'[cur] = "PERFORMING_POST" => stage = "BEGIN_POSTPROCESS"
        /\ stage \notin InitStages => state[cur] \notin Aside
    BY <1>1, <1>5, Table, Zenon DEF Requests, Aside, InitStages
  <2> QED
    BY <1>1, <1>3, <2>1, BelowServe, Zenon
<1>9. WalkOK' /\ Turns' /\ Inits'
  <2>1. CASE stage = "BEGIN_INIT"
    <3>1. /\ stage' = "END_INIT" /\ lpc' = "serve" /\ UNCHANGED <<counters, cur>>
          /\ state'[cur] = "PERFORMING_INIT"
      BY <1>1, <1>5, <2>1, Table, Zenon DEF Grant
    <3>2. stage' = stage \/ (stage = "BEGIN_INIT" /\ stage' = "END_INIT")
      BY <2>1, <3>1, Zenon
    <3> QED
      BY <1>1, <1>3, <3>1, <3>2, TurnsStay, Zenon
  <2>2. CASE stage # "BEGIN_INIT"
    <3>1. NextAlg
      BY <2>2, Zenon DEF Grant
    <3>2. /\ state'[cur] = IF stage \in InitStages THEN "READY_PRE" ELSE After(stage)
          /\ stage \in InitStages => state'[cur] # "READY_INIT"
      BY <1>5, <2>2, Table, Zenon DEF InitStages
    <3> QED
      BY <1>1, <1>3, <3>1, <3>2, TurnsNext, Zenon
  <2> QED
    BY <2>1, <2>2, Zenon
<1> QED
  BY <1>7, <1>8, <1>9, Zenon DEF RoundOK

-----------------------------------------------------------------------------
(***************************************************************************)
(* The invariant and what follows from it.                                 *)
(***************************************************************************)
\* What has upset a walk is not forgotten.
LEMMA MovedStays ==
  ASSUME AlgTypes, [ANext]_avars, ~moved'
  PROVE  ~moved
<1>1. moved \in BOOLEAN
  BY Zenon DEF AlgTypes, RegistryTypes
<1>2. CASE UNCHANGED moved
  BY <1>2, Zenon
<1>3. CASE \E c \in Clients : AddAlg(c) \/ EraseAlg(c)
  BY <1>1, <1>3, Zenon DEF AddAlg, EraseAlg
<1>4. ASSUME NEW c \in Clients, Client(c) \/ Crash(c) PROVE UNCHANGED moved
  BY <1>4, Zenon DEF Client, Crash, Register, Answered, Computed, registryVars
<1>5. ASSUME NEW c \in Clients, HandleAlg(c) PROVE UNCHANGED moved \/ AddAlg(c) \/ EraseAlg(c)
  BY <1>5, Zenon DEF HandleAlg, HasAlg, TestState, DeleteAlg, Resolve, DepLevel, SendRegistered, registryVars
<1>6. ASSUME ProcessLoop PROVE UNCHANGED moved
  BY <1>6, Zenon DEF ProcessLoop, Dequeue, GetNumLevels, SectionDone, GetNumAlgs, GetAlg, SweepDone, Eat,
     Skip, Grant, Refuse, SendRefusal, UseDeleted, ProcessBatch, registryVars
<1>7. ASSUME UNCHANGED avars PROVE UNCHANGED moved
  BY <1>7, Zenon DEF avars, registryVars
<1> QED
  BY <1>2, <1>3, <1>4, <1>5, <1>6, <1>7, ZenonT(30) DEF ANext, Poll

LEMMA UseDeletedStep ==
  ASSUME AlgTypes, RoundOK, UseDeleted
  PROVE  RoundOK'
BY Served, Zenon DEF UseDeleted

LEMMA StutterStep ==
  ASSUME AlgTypes, RoundOK, UNCHANGED avars
  PROVE  RoundOK'
<1>1. /\ UNCHANGED <<cast, clientVars, up, down, handlerVars, state, registryVars, loopVars>>
      /\ UNCHANGED <<tree, levels, batch, graph>>
  BY Zenon DEF avars, loopVars, registryVars
<1> QED
  BY <1>1, LoopFrame, WalkFrame, Zenon DEF RoundOK

LEMMA RoundStep ==
  ASSUME AlgTypes, RoundOK, [ANext]_avars, ~moved'
  PROVE  RoundOK'
<1>1. ASSUME NEW c \in Clients, HandleAlg(c) PROVE RoundOK'
  BY <1>1, LookupStep, EraseStep, DepLevelStep, AddStep, SendRegisteredStep, Zenon DEF HandleAlg
<1>2. ASSUME ProcessLoop PROVE RoundOK'
  BY <1>2, DequeueStep, GetNumLevelsStep, SectionDoneStep, GetNumAlgsStep, GetAlgStep, SweepDoneStep,
     EatStep, SkipStep, GrantStep, RefuseStep, SendRefusalStep, UseDeletedStep, ProcessBatchStep, ZenonT(30)
     DEF ProcessLoop
<1> QED
  BY <1>1, <1>2, ClientStep, StutterStep, ZenonT(30) DEF ANext, Poll

\* The server's records, its clients and the walk of process_loop_handler fit
\* together in every state until add_alg or delete_alg upsets a walk, for any set
\* of algorithms, names and dependencies, with crashes and restarts.
THEOREM AlgInvariant == ASpec => []AlgInv
<1>1. AInit => AlgInv
  BY TypesInit, RoundInit, Zenon DEF AlgInv
<1>2. AlgInv /\ [ANext]_avars => AlgInv'
  <2> SUFFICES ASSUME AlgInv, [ANext]_avars PROVE AlgInv'
    BY Zenon
  <2>1. AlgTypes'
    BY TypesStep, Zenon DEF AlgInv
  <2>2. ASSUME ~moved' PROVE RoundOK'
    BY <2>2, MovedStays, RoundStep, Zenon DEF AlgInv
  <2> QED
    BY <2>1, <2>2, Zenon DEF AlgInv
<1> QED
  BY <1>1, <1>2, PTL DEF ASpec

\* A client at work: its record says so, it has entered the stage it asked for,
\* and it is in the tree.
LEMMA AtWork ==
  ASSUME AlgTypes, RoundOK, NEW c \in Clients, Computing(c)
  PROVE  /\ call[c] \in Begins /\ state[c] = After(call[c]) /\ c \notin freed
         /\ state[c] \in {"PERFORMING_INIT", "PERFORMING_PRE", "PERFORMING_POST"}
         /\ Entered(c, call[c], batch, graph)
         /\ graph = IF call[c] = "BEGIN_POSTPROCESS" THEN batch ELSE batch - 1
<1>1. PhaseOK(c) /\ (Alive(c) => LogOK(c)) /\ cpc[c] = "compute"
  BY Zenon DEF RoundOK, Phases, ClientOK, Computing
<1>2. call[c] \in Begins /\ state[c] = After(call[c])
  BY <1>1, Zenon DEF PhaseOK, Registers, Asks, Granted, Works, Errs
<1>3. \/ call[c] = "BEGIN_INIT" /\ state[c] = "PERFORMING_INIT"
      \/ call[c] = "BEGIN_PREPROCESS" /\ state[c] = "PERFORMING_PRE"
      \/ call[c] = "BEGIN_POSTPROCESS" /\ state[c] = "PERFORMING_POST"
  BY <1>2, Table, Zenon DEF Begins
<1>4. c \notin freed
  BY <1>3, Zenon DEF RoundOK, RegistryOK, Idle
<1>5. LogOK(c)
  BY <1>1, Zenon DEF Alive
<1>6. Entered(c, call[c], batch, graph) /\ graph = IF call[c] = "BEGIN_POSTPROCESS" THEN batch ELSE batch - 1
  BY <1>1, <1>3, <1>5, Zenon DEF LogOK
<1> QED
  BY <1>2, <1>3, <1>4, <1>6, Zenon

\* process_batch never runs while an algorithm is between begin and end, and the
\* graph it works on is the one of the stage it was let into.
THEOREM GraphStaysStatic == ASpec => []StaticWhileComputing
<1>1. AlgInv => StaticWhileComputing
  <2> SUFFICES ASSUME AlgTypes, RoundOK, NEW c \in Clients, Computing(c)
               PROVE  LET e == log[c][Len(log[c])] IN
                      /\ lpc # "process_batch"
                      /\ graph = e.graph
                      /\ e.request = "BEGIN_PREPROCESS" => e.graph = e.batch - 1
                      /\ e.request = "BEGIN_POSTPROCESS" => e.graph = e.batch
    BY Zenon DEF AlgInv, StaticWhileComputing
  <2>1. /\ c \notin freed /\ Entered(c, call[c], batch, graph)
        /\ state[c] \in {"PERFORMING_INIT", "PERFORMING_PRE", "PERFORMING_POST"}
        /\ graph = IF call[c] = "BEGIN_POSTPROCESS" THEN batch ELSE batch - 1
    BY AtWork, Zenon
  <2>2. lpc # "process_batch"
    BY <2>1, StatesOutside, NullIsNew, Zenon
  <2>3. log[c][Len(log[c])] = [request |-> call[c], batch |-> batch, graph |-> graph]
    BY <2>1, Zenon DEF Entered, Last
  <2> QED
    BY <2>1, <2>2, <2>3, SMTT(30)
<1> QED
  BY <1>1, AlgInvariant, PTL

\* No algorithm misses a batch of process_loop_handler or is shown one twice, and
\* each is shown before it is applied and then after.
THEOREM BatchesShownInOrder == ASpec => []EveryBatchShownInOrder
<1>1. AlgInv => EveryBatchShownInOrder
  BY Zenon DEF AlgInv, RoundOK, Phases, ClientOK, Shown, EveryBatchShownInOrder
<1> QED
  BY <1>1, AlgInvariant, PTL

\* Every algorithm that get_alg finds by its name is in the tree that
\* process_loop_handler walks: add_alg and delete_alg keep alg_map and alg_tree together.
THEOREM RegisteredAreWalked == ASpec => []EveryAlgInTree
<1>1. AlgInv => EveryAlgInTree
  <2> SUFFICES ASSUME AlgTypes, RoundOK, NEW n \in Names, map[n] # Null PROVE InTree(map[n])
    BY Zenon DEF AlgInv, EveryAlgInTree
  <2>1. map[n] \in Clients
    BY Zenon DEF AlgTypes, RegistryTypes
  <2> QED
    BY <2>1, Zenon DEF RoundOK, RegistryOK
<1> QED
  BY <1>1, AlgInvariant, PTL

\* A live algorithm that takes part in the rounds is never in error.
LEMMA NeverInError ==
  ASSUME RoundOK, NEW d \in Clients, Alive(d), d \notin cast.restarting
  PROVE  state[d] # "ERROR"
<1>1. PhaseOK(d) /\ HandlerOK(d)
  BY Zenon DEF RoundOK, Phases, ClientOK
<1>2. \A q \in Requests : Before(q) # "ERROR" /\ After(q) # "ERROR"
  BY Table, Zenon DEF Requests
<1>3. CASE cpc[d] = "new"
  BY <1>1, <1>3, NullIsNew, Zenon DEF HandlerOK
<1>4. CASE Registers(d)
  BY <1>4, NullIsNew, Zenon DEF Registers
<1>5. CASE call[d] \in Requests /\ (Asks(d) \/ Granted(d) \/ Works(d))
  BY <1>2, <1>5, Zenon DEF Asks, Granted, Works
<1> QED
  BY <1>1, <1>3, <1>4, <1>5, RequestTypes, Zenon DEF PhaseOK, Alive

\* The record of a dependency is on a level below, so the walk of the levels has
\* had it before.
LEMMA DependencyBelow ==
  ASSUME AlgTypes, RoundOK, NEW c \in Clients, NEW d \in Clients, c \notin freed, d \notin freed,
         state[c] # Null, state[d] # Null, level[d] < level[c]
  PROVE  BelowOK(d, c)
<1>1. PICK l \in 1 .. levels : \E i \in 1 .. tree[l].size : tree[l].mem[i] = c
  BY Zenon DEF RoundOK, RegistryOK, InTree
<1>2. PICK i \in 1 .. tree[l].size : tree[l].mem[i] = c
  BY <1>1, Zenon
<1>3. PICK k \in 1 .. levels : \E j \in 1 .. tree[k].size : tree[k].mem[j] = d
  BY Zenon DEF RoundOK, RegistryOK, InTree
<1>4. PICK j \in 1 .. tree[k].size : tree[k].mem[j] = d
  BY <1>3, Zenon
<1>5. c = At(l, i) /\ d = At(k, j)
  BY <1>2, <1>4, Zenon DEF At
<1>6. level[c] + 1 = l /\ level[d] + 1 = k
  BY <1>5, Zenon DEF RoundOK, RegistryOK, Placed
<1>7. k \in 1 .. l - 1
  <2>1. levels \in Nat /\ level[c] \in Nat /\ level[d] \in Nat
    BY Zenon DEF AlgTypes, RegistryTypes, HandlerTypes
  <2> QED
    BY <1>6, <2>1, SMTT(30)
<1> QED
  BY <1>5, <1>7, Zenon DEF RoundOK, Belows

\* An algorithm is let into a stage only when the live algorithms it was
\* registered as dependent on have finished that stage of the same batch.
THEOREM DependenciesFinishFirst == ASpec => []DependenciesFirst
<1>1. AlgInv => DependenciesFirst
  <2> SUFFICES ASSUME AlgTypes, RoundOK, NEW c \in Clients, NEW d \in resolved[c] \ freed,
                      Computing(c), call[c] # "BEGIN_INIT", Alive(d), d \notin cast.restarting
               PROVE  /\ ~Computing(d)
                      /\ \E i \in DOMAIN log[d] : log[d][i].request = call[c] /\ log[d][i].batch = batch
    BY Zenon DEF AlgInv, DependenciesFirst
  <2>1. d \in Clients /\ d \notin freed
    BY Zenon DEF AlgTypes, HandlerTypes
  <2>2. state[d] # Null /\ level[d] < level[c]
    BY Zenon DEF RoundOK, Resolutions, DepsOK
  <2>3. /\ c \notin freed /\ call[c] \in Begins /\ state[c] = After(call[c])
        /\ state[c] \in {"PERFORMING_INIT", "PERFORMING_PRE", "PERFORMING_POST"}
        /\ graph = IF call[c] = "BEGIN_POSTPROCESS" THEN batch ELSE batch - 1
    BY AtWork, Zenon
  <2>4. BelowOK(d, c)
    BY <2>1, <2>2, <2>3, NullIsNew, DependencyBelow, Zenon
  <2>5. state[d] # "ERROR"
    BY <2>1, NeverInError, Zenon
  <2>6. LogOK(d)
    BY <2>1, Zenon DEF RoundOK, Phases, ClientOK
  <2>7. log[d] \in Seq([request : Begins, batch : Nat, graph : Nat])
    BY <2>1, Zenon DEF AlgTypes, ClientTypes
  <2>8. log[d] # << >> => Len(log[d]) \in DOMAIN log[d]
    BY <2>7
  <2>9. batch \in Nat
    BY Zenon DEF AlgTypes, LoopTypes
  <2>10. CASE call[c] = "BEGIN_PREPROCESS"
    <3>1. state[d] = "READY_POST"
      BY <2>3, <2>4, <2>5, <2>10, Table, Zenon DEF BelowOK, Aside
    <3>2. ~Computing(d)
      BY <2>1, <3>1, AtWork, Zenon
    <3>3. ShownPre(d)
      BY <2>1, <2>6, <3>1, Zenon DEF LogOK
    <3> QED
      BY <2>8, <2>10, <3>2, <3>3, Zenon DEF ShownPre, Last
  <2>11. CASE call[c] = "BEGIN_POSTPROCESS"
    <3>1. state[d] = "READY_PRE"
      BY <2>3, <2>4, <2>5, <2>11, Table, Zenon DEF BelowOK, Aside
    <3>2. ~Computing(d)
      BY <2>1, <3>1, AtWork, Zenon
    <3>3. ShownBefore(d)
      BY <2>1, <2>6, <3>1, Zenon DEF LogOK
    <3>4. graph = batch /\ graph # batch - 1
      BY <2>3, <2>9, <2>11, SMTT(30)
    <3>5. log[d] # << >> /\ Last(d).request = "BEGIN_POSTPROCESS" /\ Last(d).batch = batch
      BY <3>3, <3>4, Zenon DEF ShownBefore
    <3> QED
      BY <2>8, <2>11, <3>2, <3>5, Zenon DEF Last
  <2> QED
    BY <2>3, <2>10, <2>11, Zenon DEF Begins
<1> QED
  BY <1>1, AlgInvariant, PTL
=============================================================================
