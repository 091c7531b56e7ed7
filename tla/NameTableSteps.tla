-------------------------- MODULE NameTableSteps ----------------------------
(***************************************************************************)
(* What a step of one thread leaves standing of the invariant of a table   *)
(* of names for the others, and the steps that look for a slot and claim   *)
(* it.                                                                     *)
(***************************************************************************)
EXTENDS NameTableInvariant, TLAPS

(***************************************************************************)
(* Slots and their order.                                                  *)
(***************************************************************************)

\* The sizes of the table are numbers.
LEMMA Sizes ==
  /\ MaxTypes \in Nat /\ MaxTypes > 0
  /\ NSlots \in Nat /\ NSlots > 0 /\ NSlots = 2 * MaxTypes
  /\ StrMax \in Nat
  /\ MaxNames \in Int
<1>1. MaxTypes \in Nat /\ StrMax \in Nat /\ MaxTypes > 0
  BY NameAssumption
<1>2. MaxTypes * (StrMax + 1) \in Int
  BY <1>1
<1>3. QED
  BY <1>1, <1>2 DEF NSlots, MaxNames

\* A place of a string is not 0, the word of a slot that is empty.
LEMMA PlaceInUse == \A place \in Places : place # 0
BY Sizes DEF Places

\* A slot of from_name is a word behind those of to_name.
LEMMA SlotWords ==
  /\ \A i \in Slots : From(i) \in 0 .. 3 * MaxTypes - 1 /\ From(i) \notin TypeIndices
  /\ \A i, j \in Slots : From(i) = From(j) => i = j
  /\ TypeIndices \subseteq 0 .. 3 * MaxTypes - 1
BY Sizes DEF Slots, From, TypeIndices

\* A remainder is below the divisor.
LEMMA Remainder ==
  ASSUME NEW n \in Nat, NEW d \in Nat, d > 0
  PROVE  n % d \in 0 .. d - 1
OBVIOUS

\* (index + 1) % (max_types * 2) goes round.
LEMMA NextSlot ==
  ASSUME NEW i \in Slots
  PROVE  /\ (i + 1) % NSlots = IF i + 1 = NSlots THEN 0 ELSE i + 1
         /\ (i + 1) % NSlots \in Slots
BY Sizes DEF Slots

\* xor_hash (...) % (max_types * 2) is a slot.
LEMMA StartIsSlot ==
  ASSUME NEW key \in Names
  PROVE  Start(key) \in Slots
<1>1. Hash(key) \in Nat
  BY NameAssumption DEF Names
<1>2. QED
  BY <1>1, Remainder, Sizes DEF Start, Slots

\* The distance of slots is their order in a turn that begins at the first.
LEMMA Distances ==
  ASSUME NEW a \in Slots, NEW b \in Slots
  PROVE  /\ Dist(a, b) \in 0 .. NSlots - 1
         /\ Dist(a, a) = 0
         /\ \A c \in Slots : Dist(a, b) = Dist(a, c) => b = c
         /\ (b + 1) % NSlots # a => Dist(a, (b + 1) % NSlots) = Dist(a, b) + 1
         /\ (b + 1) % NSlots = a => Dist(a, b) = NSlots - 1
BY NextSlot, Sizes DEF Slots, Dist

(***************************************************************************)
(* Names and calls.                                                        *)
(***************************************************************************)

\* A key is a sequence, and its own prefix.
LEMMA KeyIsSequence ==
  ASSUME NEW key \in Names
  PROVE  Len(key) \in Nat /\ SubSeq(key, 1, Len(key)) = key
<1>1. PICK name \in CallNames : key = Key(name)
  BY DEF Names
<1>2. PICK S : name \in Seq(S)
  BY NameAssumption
<1>3. key \in Seq(S)
  BY <1>1, <1>2, Sizes DEF Key
<1>4. QED
  BY <1>3

\* What stands in a sequence over S is in S.
LEMMA Element ==
  ASSUME NEW S, NEW s \in Seq(S), NEW i \in DOMAIN s
  PROVE  s[i] \in S
OBVIOUS

\* The call that a thread executes is one of those it was given.
LEMMA CallTyped ==
  ASSUME NTyped, NEW t \in Threads, HasCall(t)
  PROVE  /\ Call(t).op \in Operations
         /\ MyKey(t) \in Names
         /\ MyKey(t) \in Keys
<1>1. todo \in [Threads -> Seq([op : Operations, name : CallNames])]
  BY NameAssumption DEF NTyped
<1>2. Len(answers[t]) + 1 \in DOMAIN todo[t]
  BY <1>1 DEF NTyped, HasCall
<1>3. Call(t) \in [op : Operations, name : CallNames]
  <2>1. todo[t] \in Seq([op : Operations, name : CallNames])
    BY <1>1
  <2>2. QED
    BY <2>1, <1>2, Element, Zenon DEF Call
<1>4. Key(Call(t).name) \in Keys
  BY <1>2 DEF Keys, Call
<1>5. QED
  BY <1>3, <1>4, Zenon DEF MyKey, Names

\* The types of what the steps read.
LEMMA Fields ==
  ASSUME NTyped
  PROVE  /\ nextType \in Int /\ nextString \in Int /\ nextString > 0
         /\ \A i \in Slots : toInt[i] \in TypeIndices
         /\ \A j \in TypeIndices : words[j] \in Int
         /\ \A t \in Threads : reg[t].index \in Slots /\ reg[t].init \in Slots
<1>1. nextType \in Int /\ nextString \in Int /\ nextString > 0
  BY Sizes DEF NTyped
<1>2. \A i \in Slots : toInt[i] \in TypeIndices
  BY DEF NTyped
<1>3. ASSUME NEW j \in TypeIndices
      PROVE  words[j] \in Int
  <2>1. words[j] \in {MARKER, 0} \cup Places
    BY SlotWords DEF NTyped
  <2>2. QED
    BY <2>1, Sizes DEF MARKER, Places
<1>4. ASSUME NEW t \in Threads
      PROVE  reg[t].index \in Slots /\ reg[t].init \in Slots
  <2>1. reg[t] \in [index : Slots, init : Slots, word : {MARKER, 0} \cup Places]
    BY DEF NTyped
  <2>2. QED
    BY <2>1
<1>5. QED
  BY <1>1, <1>2, <1>3, <1>4, Zenon

\* The keys of the calls are names.
LEMMA KeysAreNames ==
  ASSUME NTyped
  PROVE  Keys \subseteq Names
<1>1. todo \in [Threads -> Seq([op : Operations, name : CallNames])]
  BY NameAssumption DEF NTyped
<1>2. ASSUME NEW t \in Threads, NEW i \in DOMAIN todo[t]
      PROVE  todo[t][i].name \in CallNames
  <2>1. todo[t] \in Seq([op : Operations, name : CallNames])
    BY <1>1
  <2>2. todo[t][i] \in [op : Operations, name : CallNames]
    BY <2>1, Element, Zenon
  <2>3. QED
    BY <2>2
<1>3. QED
  BY <1>2 DEF Keys, Names

\* Within the limits, strncmp finds the name and no other.
LEMMA MatchIsEqual ==
  ASSUME NTyped, WithinLimits, NEW t \in Threads, HasCall(t), NEW p,
         strings[p] \in Keys
  PROVE  Matches(t, p) <=> strings[p] = MyKey(t)
<1>1. MyKey(t) \in Keys /\ MyKey(t) \in Names
  BY CallTyped
<1>2. Len(MyKey(t)) \in Nat /\ SubSeq(MyKey(t), 1, Len(MyKey(t))) = MyKey(t)
  BY <1>1, KeyIsSequence
<1>3. Matches(t, p) => strings[p] = MyKey(t)
  BY <1>1, Zenon DEF WithinLimits, Matches
<1>4. strings[p] = MyKey(t) => Matches(t, p)
  BY <1>2 DEF Matches
<1>5. QED
  BY <1>3, <1>4

(***************************************************************************)
(* What a step of one thread leaves standing for the others.               *)
(***************************************************************************)

\* The locals of thread u are left alone.
Same(u) ==
  /\ npc'[u] = npc[u]
  /\ reg'[u] = reg[u]
  /\ answers'[u] = answers[u]

\* A thread whose locals are left alone looks for the same name and is where it
\* was.
LEMMA SameViews ==
  ASSUME NEW u \in Threads, Same(u), todo' = todo
  PROVE  /\ MyKey(u)' = MyKey(u)
         /\ HasCall(u)' <=> HasCall(u)
         /\ Passed(u)' = Passed(u)
         /\ Unnamed(u)' <=> Unnamed(u)
         /\ Creating(u)' <=> Creating(u)
         /\ Holding(u)' <=> Holding(u)
<1>1. MyKey(u)' = MyKey(u) /\ (HasCall(u)' <=> HasCall(u))
  BY DEF Same, MyKey, HasCall, Call
<1>2. Passed(u)' = Passed(u)
  BY DEF Same, Passed
<1>3. QED
  BY <1>1, <1>2 DEF Same, Unnamed, Creating, Holding

\* Slot i is not that of thread t's name.
NotTheSlot(t, i) ==
  /\ \A j \in TypeIndices : Named(j) /\ HomeOf(j, i) => NameOf(j) # MyKey(t)
  /\ \A u \in Threads : Creating(u) => reg[u].index # i

\* Thread t passes no slot but one that it found to hold another name.
PassesOthers(t) ==
  npc'[t] # "idle" =>
    /\ MyKey(t)' = MyKey(t)
    /\ \A i \in Passed(t)' : (npc[t] # "idle" /\ i \in Passed(t)) \/ NotTheSlot(t, i)

\* A slot in use stays in use, and a type keeps its name.
TableGrows ==
  /\ \A s \in Slots : words[From(s)] # 0 => words'[From(s)] # 0
  /\ \A j \in TypeIndices : Named(j) => words'[j] = words[j] /\ strings'[words[j]] = strings[words[j]]
  /\ nextString <= nextString'
  /\ nextType <= nextType'

\* The home of a type stays as it is, but for its lock.
HomesStay(t) ==
  \A j \in TypeIndices, i \in Slots : Named(j) /\ HomeOf(j, i) =>
    /\ toInt'[i] = toInt[i]
    /\ words'[From(i)] \in {MARKER, words[j]}
    /\ Unnamed(t)' => reg'[t].index # i

\* What thread u holds stays as it is.
HeldStays(u) ==
  Holding(u) =>
    /\ words'[From(reg[u].index)] = words[From(reg[u].index)]
    /\ toInt'[reg[u].index] = toInt[reg[u].index]
    /\ npc[u] \notin {"store", "number"} =>
         words'[toInt[reg[u].index]] = words[toInt[reg[u].index]]
    /\ reg[u].word \in Places /\ npc[u] # "store" => strings'[reg[u].word] = strings[reg[u].word]

\* A type that is given a name gets the one thread t creates.
NamesMine(t) ==
  \A j \in TypeIndices : Named(j)' => Named(j) \/ (Creating(t) /\ NameOf(j)' = MyKey(t))

\* A step of thread t in the table that leaves the others alone.
StepOf(t) ==
  /\ todo' = todo
  /\ \A u \in Threads \ {t} : Same(u) /\ HeldStays(u)
  /\ PassesOthers(t)
  /\ TableGrows
  /\ HomesStay(t)
  /\ NamesMine(t)

\* A slot that is reached before an empty one stays so.
LEMMA ReachedStays ==
  ASSUME NEW t \in Threads, StepOf(t), NEW key, NEW i \in Slots, Reached(key, i),
         MyKey(t) = key => ~NotTheSlot(t, i)
  PROVE  Reached(key, i)'
<1>1. ASSUME NEW s \in Slots, Dist(Start(key), s) <= Dist(Start(key), i)
      PROVE  words'[From(s)] # 0
  BY <1>1, Zenon DEF Reached, StepOf, TableGrows
<1>2. ASSUME NEW u \in Threads, npc'[u] # "idle", MyKey(u)' = key
      PROVE  i \notin Passed(u)'
  <2>1. CASE u = t
    BY <1>2, <2>1, Zenon DEF StepOf, PassesOthers, Reached
  <2>2. CASE u # t
    <3>1. Same(u) /\ todo' = todo
      BY <2>2 DEF StepOf
    <3>2. npc[u] # "idle" /\ MyKey(u) = key /\ Passed(u)' = Passed(u)
      BY <3>1, <1>2, SameViews DEF Same
    <3>3. QED
      BY <3>2 DEF Reached
  <2>3. QED
    BY <2>1, <2>2
<1>3. QED
  BY <1>1, <1>2, Zenon DEF Reached

\* The home of a type stays its home.
LEMMA HomeStays ==
  ASSUME NEW t \in Threads, StepOf(t), NEW j \in TypeIndices, Named(j),
         NEW i \in Slots, HomeOf(j, i)
  PROVE  HomeOf(j, i)'
<1>1. words'[j] = words[j] /\ NameOf(j)' = NameOf(j)
  BY Zenon DEF StepOf, TableGrows, NameOf
<1>2. Reached(NameOf(j), i)'
  <2>1. MyKey(t) = NameOf(j) => ~NotTheSlot(t, i)
    BY Zenon DEF NotTheSlot
  <2>2. Reached(NameOf(j), i)
    BY DEF HomeOf
  <2>3. PICK key : key = NameOf(j)
    OBVIOUS
  <2>4. Reached(key, i)'
    BY <2>1, <2>2, <2>3, ReachedStays, Zenon
  <2>5. QED
    BY <2>3, <2>4, <1>1, Zenon
<1>3. ASSUME NEW u \in Threads, Unnamed(u)'
      PROVE  reg'[u].index # i
  <2>1. CASE u = t
    BY <1>3, <2>1, Zenon DEF StepOf, HomesStay
  <2>2. CASE u # t
    <3>1. Same(u) /\ todo' = todo
      BY <2>2 DEF StepOf
    <3>2. Unnamed(u)
      BY <3>1, <1>3, SameViews
    <3>3. QED
      BY <3>1, <3>2 DEF HomeOf, Same
  <2>3. QED
    BY <2>1, <2>2
<1>4. toInt'[i] = j /\ words'[From(i)] \in {MARKER, words[j]}
  BY Zenon DEF StepOf, HomesStay, HomeOf
<1>5. QED
  BY <1>1, <1>2, <1>3, <1>4, Zenon DEF HomeOf

\* A step that names no type keeps what is known of the types.
LEMMA TypesStay ==
  ASSUME NTyped, NTyped', TypesInv, NEW t \in Threads, StepOf(t),
         \A j \in TypeIndices : Named(j)' => Named(j)
  PROVE  TypesInv'
<1> SUFFICES ASSUME NEW j \in TypeIndices, Named(j)'
             PROVE  /\ words'[j] < nextString'
                    /\ j < nextType'
                    /\ NameOf(j)' \in Keys'
                    /\ \A l \in TypeIndices : Named(l)' /\ NameOf(l)' = NameOf(j)' => l = j
                    /\ \E i \in Slots : HomeOf(j, i)'
  BY Zenon DEF TypesInv
<1>1. Named(j)
  OBVIOUS
<1>2. \A l \in TypeIndices : Named(l) => words'[l] = words[l] /\ NameOf(l)' = NameOf(l)
  BY Zenon DEF StepOf, TableGrows, NameOf
<1>3. words'[j] < nextString' /\ j < nextType'
  <2>1. words[j] < nextString /\ j < nextType
    BY <1>1 DEF TypesInv
  <2>2. words[j] \in Int /\ nextString \in Int /\ nextString' \in Int
    BY SlotWords, Sizes DEF NTyped, MARKER, Places
  <2>3. j \in Int /\ nextType \in Int /\ nextType' \in Int
    BY Sizes DEF NTyped, TypeIndices
  <2>4. nextString <= nextString' /\ nextType <= nextType' /\ words'[j] = words[j]
    BY <1>1, <1>2 DEF StepOf, TableGrows
  <2>5. QED
    BY <2>1, <2>2, <2>3, <2>4
<1>4. Keys' = Keys
  BY DEF StepOf, Keys
<1>5. NameOf(j)' \in Keys'
  BY <1>1, <1>2, <1>4, Zenon DEF TypesInv
<1>6. \A l \in TypeIndices : Named(l)' /\ NameOf(l)' = NameOf(j)' => l = j
  BY <1>1, <1>2, Zenon DEF TypesInv
<1>7. \E i \in Slots : HomeOf(j, i)'
  BY <1>1, HomeStays, Zenon DEF TypesInv
<1>8. QED
  BY <1>3, <1>5, <1>6, <1>7

\* What is known of a thread stays known while another one steps.
LEMMA ThreadStays ==
  ASSUME NTyped, NTyped', NEW t \in Threads, StepOf(t),
         NEW u \in Threads, u # t, ThreadInv(u), PairInv(t, u)
  PROVE  ThreadInv(u)'
<1> SUFFICES ASSUME npc'[u] # "idle"
             PROVE  ThreadInv(u)'
  BY DEF ThreadInv
<1>1. Same(u) /\ todo' = todo /\ HeldStays(u) /\ TableGrows
  BY DEF StepOf
<1>2. npc[u] # "idle" /\ npc'[u] = npc[u] /\ reg'[u] = reg[u]
  BY <1>1 DEF Same
<1>3. /\ MyKey(u)' = MyKey(u)
      /\ HasCall(u)' <=> HasCall(u)
      /\ Passed(u)' = Passed(u)
      /\ Unnamed(u)' <=> Unnamed(u)
      /\ Creating(u)' <=> Creating(u)
      /\ Holding(u)' <=> Holding(u)
  BY <1>1, SameViews, Zenon
<1>4. HasCall(u)' /\ reg'[u].init = Start(MyKey(u))'
  BY <1>2, <1>3, Zenon DEF ThreadInv, Start
<1>5. ASSUME NEW s \in Passed(u)'
      PROVE  words'[From(s)] # 0
  <2>1. s \in Passed(u) /\ s \in Slots
    BY <1>3 DEF Passed
  <2>2. QED
    BY <2>1, <1>1, <1>2, Zenon DEF ThreadInv, TableGrows
<1>6. Holding(u)' => words'[From(reg'[u].index)] = MARKER
  BY <1>1, <1>2, <1>3, Zenon DEF ThreadInv, HeldStays
<1>7. ASSUME npc'[u] \in {"unlock", "wrong_unlock"}
      PROVE  /\ reg'[u].word \in Places
             /\ words'[toInt'[reg'[u].index]] = reg'[u].word
             /\ Matches(u, reg[u].word)' <=> Matches(u, reg[u].word)
  <2>1. Holding(u) /\ npc[u] \notin {"store", "number"}
    BY <1>7, <1>2 DEF Holding
  <2>2. reg[u].word \in Places /\ words[toInt[reg[u].index]] = reg[u].word
    BY <1>7, <1>2, Zenon DEF ThreadInv
  <2>3. words'[toInt'[reg[u].index]] = reg[u].word
    BY <2>1, <2>2, <1>1, Zenon DEF HeldStays
  <2>4. strings'[reg[u].word] = strings[reg[u].word]
    BY <2>1, <2>2, <1>1, Zenon DEF HeldStays
  <2>5. Matches(u, reg[u].word)' <=> Matches(u, reg[u].word)
    BY <2>4, <1>2, <1>3 DEF Matches
  <2>6. QED
    BY <2>2, <2>3, <2>5, <1>2
<1>8. ASSUME npc'[u] \in {"number", "name", "publish"}
      PROVE  /\ reg'[u].word \in Places
             /\ reg'[u].word < nextString'
             /\ strings'[reg'[u].word] = MyKey(u)'
  <2>1. Holding(u) /\ npc[u] # "store"
    BY <1>8, <1>2 DEF Holding, Creating, Unnamed
  <2>2. reg[u].word \in Places /\ reg[u].word < nextString /\ strings[reg[u].word] = MyKey(u)
    BY <1>8, <1>2, Zenon DEF ThreadInv
  <2>3. strings'[reg[u].word] = strings[reg[u].word]
    BY <2>1, <2>2, <1>1, Zenon DEF HeldStays
  <2>4. reg[u].word < nextString'
    BY <2>2, <1>1, Sizes DEF TableGrows, NTyped, Places
  <2>5. QED
    BY <2>2, <2>3, <2>4, <1>2, <1>3
<1>9. ASSUME npc'[u] = "name"
      PROVE  toInt'[reg'[u].index] < nextType' /\ words'[toInt'[reg'[u].index]] = 0
  <2>1. Holding(u) /\ npc[u] \notin {"store", "number"}
    BY <1>9, <1>2 DEF Holding, Creating, Unnamed
  <2>2. toInt[reg[u].index] < nextType /\ words[toInt[reg[u].index]] = 0
    BY <1>9, <1>2, Zenon DEF ThreadInv
  <2>3. toInt'[reg[u].index] = toInt[reg[u].index] /\ words'[toInt[reg[u].index]] = 0
    BY <2>1, <2>2, <1>1, Zenon DEF HeldStays
  <2>4. toInt[reg[u].index] \in Int /\ nextType \in Int /\ nextType' \in Int
    <3>1. toInt[reg[u].index] \in TypeIndices /\ nextType \in Int
      BY Fields
    <3>2. nextType' \in Int
      BY Sizes DEF NTyped
    <3>3. QED
      BY <3>1, <3>2 DEF TypeIndices
  <2>5. toInt[reg[u].index] < nextType'
    BY <2>2, <2>4, <1>1 DEF TableGrows
  <2>6. QED
    BY <2>3, <2>5, <1>2
<1>10. ASSUME npc'[u] = "publish"
       PROVE  words'[toInt'[reg'[u].index]] = reg'[u].word
  <2>1. Holding(u) /\ npc[u] \notin {"store", "number"}
    BY <1>10, <1>2 DEF Holding, Creating, Unnamed
  <2>2. words[toInt[reg[u].index]] = reg[u].word
    BY <1>10, <1>2, Zenon DEF ThreadInv
  <2>3. QED
    BY <2>1, <2>2, <1>1, <1>2, Zenon DEF HeldStays
<1>11. ASSUME Unnamed(u)', NEW j \in TypeIndices, Named(j)'
       PROVE  NameOf(j)' # MyKey(u)'
  <2>1. CASE Named(j)
    <3>1. NameOf(j)' = NameOf(j)
      BY <2>1, <1>1, Zenon DEF TableGrows, NameOf
    <3>2. QED
      BY <2>1, <3>1, <1>2, <1>3, <1>11, Zenon DEF ThreadInv
  <2>2. CASE ~Named(j)
    <3>1. Creating(t) /\ NameOf(j)' = MyKey(t)
      BY <2>2, <1>11, Zenon DEF StepOf, NamesMine
    <3>2. Creating(u)
      BY <1>11, <1>3 DEF Creating
    <3>3. QED
      BY <3>1, <3>2, <1>3, Zenon DEF PairInv
  <2>3. QED
    BY <2>1, <2>2
<1>12. ASSUME Creating(u)'
       PROVE  Reached(MyKey(u), reg[u].index)'
  <2>1. Creating(u) /\ Reached(MyKey(u), reg[u].index)
    BY <1>12, <1>2, <1>3, Zenon DEF ThreadInv
  <2>2. PICK i \in Slots : i = reg[u].index
    BY Fields
  <2>3. PICK key : key = MyKey(u)
    OBVIOUS
  <2>4. ~NotTheSlot(t, i)
    BY <2>1, <2>2, Zenon DEF NotTheSlot
  <2>5. Reached(key, i)'
    BY <2>1, <2>2, <2>3, <2>4, ReachedStays, Zenon
  <2>6. QED
    BY <2>5, <2>2, <2>3, <1>2, <1>3, Zenon
<1>13. npc'[u] = "unlock" => Matches(u, reg[u].word)'
  BY <1>7, <1>2, Zenon DEF ThreadInv
<1>14. npc'[u] = "wrong_unlock" => ~Matches(u, reg[u].word)'
  BY <1>7, <1>2, Zenon DEF ThreadInv
<1>15. QED
  BY <1>4, <1>5, <1>6, <1>7, <1>8, <1>9, <1>10, <1>11, <1>12, <1>13, <1>14, Zenon DEF ThreadInv

\* Two threads stay apart while a third one steps.
LEMMA PairStays ==
  ASSUME NEW t \in Threads, StepOf(t), NEW u \in Threads, NEW v \in Threads,
         u # t, v # t, PairInv(u, v)
  PROVE  PairInv(u, v)'
<1>1. /\ Same(u) /\ HeldStays(u)
      /\ Same(v) /\ HeldStays(v)
      /\ todo' = todo
  BY DEF StepOf
<1>2. Holding(u)' /\ Holding(v)' => reg'[u].index # reg'[v].index
  BY <1>1, SameViews, Zenon DEF PairInv, Same
<1>3. Creating(u)' /\ Creating(v)' => MyKey(u)' # MyKey(v)'
  BY <1>1, SameViews, Zenon DEF PairInv, Same
<1>4. npc[u] = "name" => toInt'[reg'[u].index] = toInt[reg[u].index]
  BY <1>1 DEF Same, HeldStays, Holding, Creating, Unnamed
<1>5. npc[v] = "name" => toInt'[reg'[v].index] = toInt[reg[v].index]
  BY <1>1 DEF Same, HeldStays, Holding, Creating, Unnamed
<1>6. npc'[u] = "name" /\ npc'[v] = "name" => toInt'[reg'[u].index] # toInt'[reg'[v].index]
  BY <1>1, <1>4, <1>5, Zenon DEF PairInv, Same
<1>7. QED
  BY <1>2, <1>3, <1>6, Zenon DEF PairInv

(***************************************************************************)
(* What a thread knows of its name.                                        *)
(***************************************************************************)

\* A thread at an empty slot has not missed a slot that must be reached.
LEMMA NothingBehind ==
  ASSUME NTyped, NEW t \in Threads, npc[t] # "idle", ThreadInv(t),
         NEW i \in Slots, Reached(MyKey(t), i)
  PROVE  Slot(t) # 0
<1>1. reg[t].init = Start(MyKey(t)) /\ reg[t].index \in Slots /\ reg[t].init \in Slots
  BY Fields DEF ThreadInv
<1>2. i \notin Passed(t)
  BY DEF Reached
<1>3. Dist(reg[t].init, reg[t].index) <= Dist(reg[t].init, i)
  <2>1. ~(Dist(reg[t].init, i) < Dist(reg[t].init, reg[t].index))
    BY <1>2, Zenon DEF Passed
  <2>2. Dist(reg[t].init, i) \in Int /\ Dist(reg[t].init, reg[t].index) \in Int
    BY <1>1, Distances
  <2>3. QED
    BY <2>1, <2>2
<1>4. QED
  BY <1>1, <1>3, Zenon DEF Reached, Slot

\* A thread that has made a full turn has come to the slot that it must reach.
LEMMA FullTurn ==
  ASSUME NTyped, NEW t \in Threads, npc[t] # "idle", NEW i \in Slots, Reached(MyKey(t), i),
         (reg[t].index + 1) % NSlots = reg[t].init
  PROVE  i = reg[t].index
<1>1. reg[t].index \in Slots /\ reg[t].init \in Slots
  BY Fields
<1>2. Dist(reg[t].init, reg[t].index) = NSlots - 1
  BY <1>1, Distances
<1>3. ~(Dist(reg[t].init, i) < Dist(reg[t].init, reg[t].index))
  BY Zenon DEF Passed, Reached
<1>4. Dist(reg[t].init, i) \in 0 .. NSlots - 1
  BY <1>1, Distances
<1>5. Dist(reg[t].init, i) = Dist(reg[t].init, reg[t].index)
  BY <1>2, <1>3, <1>4, Sizes
<1>6. QED
  BY <1>1, <1>5, Distances

\* The slot that a thread leaves is the only one it passes.
LEMMA PassedNext ==
  ASSUME NTyped, NEW t \in Threads,
         (reg[t].index + 1) % NSlots # reg[t].init,
         reg' = [reg EXCEPT ![t].index = (reg[t].index + 1) % NSlots]
  PROVE  Passed(t)' = Passed(t) \cup {reg[t].index}
<1>1. reg[t].index \in Slots /\ reg[t].init \in Slots
  BY Fields
<1>2. reg'[t].index = (reg[t].index + 1) % NSlots /\ reg'[t].init = reg[t].init
  BY DEF NTyped
<1>3. Dist(reg[t].init, reg'[t].index) = Dist(reg[t].init, reg[t].index) + 1
  BY <1>1, <1>2, Distances
<1>4. ASSUME NEW i \in Slots
      PROVE  Dist(reg[t].init, i) < Dist(reg[t].init, reg[t].index) + 1
             <=> Dist(reg[t].init, i) < Dist(reg[t].init, reg[t].index) \/ i = reg[t].index
  <2>1. Dist(reg[t].init, i) \in Int /\ Dist(reg[t].init, reg[t].index) \in Int
    BY <1>1, Distances
  <2>2. Dist(reg[t].init, i) = Dist(reg[t].init, reg[t].index) => i = reg[t].index
    BY <1>1, Distances
  <2>3. QED
    BY <2>1, <2>2
<1>5. QED
  BY <1>1, <1>2, <1>3, <1>4, Zenon DEF Passed

\* A slot that holds another name is passed.
LEMMA AnotherName ==
  ASSUME NameInv, WithinLimits, NEW t \in Threads,
         \/ /\ npc[t] \in {"lookup", "create"}
            /\ Slot(t) # MARKER /\ ~Matches(t, Slot(t))
         \/ npc[t] = "wrong_unlock"
  PROVE  NotTheSlot(t, reg[t].index)
<1>1. NTyped /\ ThreadInv(t) /\ HasCall(t)
  BY DEF NameInv, ThreadInv
<1>2. ASSUME NEW j \in TypeIndices, Named(j), HomeOf(j, reg[t].index)
      PROVE  NameOf(j) # MyKey(t)
  <2>1. strings[words[j]] \in Keys
    BY <1>2, Zenon DEF NameInv, TypesInv, NameOf
  <2>2. ~Matches(t, words[j])
    <3>1. CASE npc[t] = "wrong_unlock"
      <4>1. words[toInt[reg[t].index]] = reg[t].word /\ ~Matches(t, reg[t].word)
        BY <3>1, <1>1 DEF ThreadInv
      <4>2. QED
        BY <4>1, <1>2 DEF HomeOf
    <3>2. CASE npc[t] # "wrong_unlock"
      BY <3>2, <1>2, Zenon DEF HomeOf, Slot
    <3>3. QED
      BY <3>1, <3>2
  <2>3. QED
    BY <2>1, <2>2, <1>1, MatchIsEqual, Zenon DEF NameOf
<1>3. ASSUME NEW u \in Threads, Creating(u)
      PROVE  reg[u].index # reg[t].index
  <2>1. u # t
    BY <1>3 DEF Creating, Unnamed
  <2>2. Holding(u) /\ npc[u] # "idle"
    BY <1>3 DEF Holding, Creating, Unnamed
  <2>3. CASE npc[t] = "wrong_unlock"
    <3>1. Holding(t)
      BY <2>3 DEF Holding
    <3>2. QED
      BY <2>1, <2>2, <3>1, Zenon DEF NameInv, PairInv
  <2>4. CASE npc[t] # "wrong_unlock"
    <3>1. words[From(reg[u].index)] = MARKER
      BY <2>2, Zenon DEF NameInv, ThreadInv
    <3>2. QED
      BY <3>1, <2>4 DEF Slot
  <2>5. QED
    BY <2>3, <2>4
<1>4. QED
  BY <1>2, <1>3, Zenon DEF NotTheSlot

\* A name whose probing comes to an empty slot, or round to where it began, has
\* no type.
LEMMA NotFound ==
  ASSUME NameInv, NEW t \in Threads, npc[t] # "idle",
         \/ Slot(t) = 0
         \/ NotTheSlot(t, reg[t].index) /\ (reg[t].index + 1) % NSlots = reg[t].init,
         NEW j \in TypeIndices, Named(j)
  PROVE  NameOf(j) # MyKey(t)
<1> SUFFICES ASSUME NameOf(j) = MyKey(t)
             PROVE  FALSE
  OBVIOUS
<1>1. NTyped /\ ThreadInv(t)
  BY DEF NameInv
<1>2. PICK i \in Slots : HomeOf(j, i)
  BY Zenon DEF NameInv, TypesInv
<1>3. Reached(MyKey(t), i)
  BY <1>2, Zenon DEF HomeOf
<1>4. Slot(t) # 0
  BY <1>1, <1>3, NothingBehind
<1>5. i = reg[t].index
  BY <1>1, <1>3, <1>4, FullTurn
<1>6. QED
  BY <1>2, <1>4, <1>5, Zenon DEF NotTheSlot

(***************************************************************************)
(* Answers.                                                                *)
(***************************************************************************)

\* A thread that returns from a call is idle and has one more answer.
LEMMA AnswerGiven ==
  ASSUME NTyped, NEW t \in Threads, HasCall(t), NEW status \in {-1, 0, 1},
         NEW out \in TypeIndices \cup {IntMax, -1}, Answer(t, status, out)
  PROVE  /\ answers' \in [Threads -> Seq(Abstract!Answer)]
         /\ npc' \in [Threads -> NLabels]
         /\ npc'[t] = "idle"
         /\ \A u \in Threads \ {t} : npc'[u] = npc[u] /\ answers'[u] = answers[u]
<1> DEFINE a == [op |-> Call(t).op, name |-> MyKey(t), status |-> status, out |-> out]
<1>1. a \in Abstract!Answer
  BY CallTyped DEF Abstract!Answer, TypeIndices
<1>2. answers' = [answers EXCEPT ![t] = Append(answers[t], a)]
  BY DEF Answer
<1> HIDE DEF a
<1>3. Append(answers[t], a) \in Seq(Abstract!Answer)
  BY <1>1 DEF NTyped
<1>4. answers' \in [Threads -> Seq(Abstract!Answer)]
  BY <1>2, <1>3 DEF NTyped
<1>5. \A u \in Threads \ {t} : answers'[u] = answers[u]
  BY <1>2 DEF NTyped
<1>6. /\ npc' \in [Threads -> NLabels]
      /\ npc'[t] = "idle"
      /\ \A u \in Threads \ {t} : npc'[u] = npc[u]
  BY DEF Answer, NGoto, NTyped, NLabels
<1>7. QED
  BY <1>4, <1>5, <1>6

\* What it means that call c created a name.
Creation(answered, key, c) ==
  /\ c = <<c[1], c[2]>>
  /\ c[1] \in Threads
  /\ c[2] \in DOMAIN answered[c[1]]
  /\ answered[c[1]][c[2]].name = key
  /\ answered[c[1]][c[2]].status = 1

LEMMA CallsOf ==
  ASSUME NEW A, NEW c
  PROVE  c \in UNION {{t} \X DOMAIN A[t] : t \in Threads} <=>
           c = <<c[1], c[2]>> /\ c[1] \in Threads /\ c[2] \in DOMAIN A[c[1]]
<1>1. ASSUME NEW t \in Threads, c \in {t} \X DOMAIN A[t]
      PROVE  c = <<c[1], c[2]>> /\ c[1] \in Threads /\ c[2] \in DOMAIN A[c[1]]
  BY <1>1
<1>2. ASSUME c = <<c[1], c[2]>>, c[1] \in Threads, c[2] \in DOMAIN A[c[1]]
      PROVE  c \in {c[1]} \X DOMAIN A[c[1]]
  BY <1>2
<1>3. QED
  BY <1>1, <1>2, Zenon

\* An answer adds to them only if its status is 1.
LEMMA CreatedAfter ==
  ASSUME NTyped, NEW t \in Threads, NEW status, NEW out, Answer(t, status, out), NEW key
  PROVE  Created(key)' = IF status = 1 /\ MyKey(t) = key
                         THEN Created(key) \cup {<<t, Len(answers[t]) + 1>>}
                         ELSE Created(key)
<1> DEFINE a == [op |-> Call(t).op, name |-> MyKey(t), status |-> status, out |-> out]
           n == Len(answers[t]) + 1
<1>1. a.name = MyKey(t) /\ a.status = status
  OBVIOUS
<1>2. answers' = [answers EXCEPT ![t] = Append(answers[t], a)]
  BY DEF Answer
<1> HIDE DEF a
<1>3. /\ DOMAIN answers'[t] = DOMAIN answers[t] \cup {n}
      /\ \A i \in DOMAIN answers[t] : answers'[t][i] = answers[t][i]
      /\ answers'[t][n] = a
      /\ n \notin DOMAIN answers[t]
  <2>1. PICK S : answers[t] \in Seq(S) /\ answers \in [Threads -> Seq(S)]
    BY DEF NTyped
  <2>2. answers'[t] = Append(answers[t], a)
    BY <1>2, <2>1
  <2>3. QED
    BY <2>1, <2>2
<1>4. \A u \in Threads \ {t} : answers'[u] = answers[u]
  BY <1>2 DEF NTyped
<1> HIDE DEF n
<1>5. ASSUME NEW c
      PROVE  c \in Created(key)' <=>
               c \in Created(key) \/ (status = 1 /\ MyKey(t) = key /\ c = <<t, n>>)
  <2>1. c \in Created(key)' <=> Creation(answers', key, c)
    <3>1. c \in UNION {{u} \X DOMAIN answers'[u] : u \in Threads} <=>
            c = <<c[1], c[2]>> /\ c[1] \in Threads /\ c[2] \in DOMAIN answers'[c[1]]
      BY CallsOf
    <3>2. QED
      BY <3>1, Zenon DEF Created, AnswersFor, Creation
  <2>2. c \in Created(key) <=> Creation(answers, key, c)
    <3>1. c \in UNION {{u} \X DOMAIN answers[u] : u \in Threads} <=>
            c = <<c[1], c[2]>> /\ c[1] \in Threads /\ c[2] \in DOMAIN answers[c[1]]
      BY CallsOf
    <3>2. QED
      BY <3>1, Zenon DEF Created, AnswersFor, Creation
  <2>3. CASE c[1] # t
    <3>1. c # <<t, n>>
      BY <2>3
    <3>2. Creation(answers', key, c) <=> Creation(answers, key, c)
      BY <2>3, <1>4, Zenon DEF Creation
    <3>3. QED
      BY <3>1, <3>2, <2>1, <2>2
  <2>4. CASE c[1] = t /\ c[2] = n
    <3>1. ~Creation(answers, key, c)
      BY <2>4, <1>3, Zenon DEF Creation
    <3>2. Creation(answers', key, c) <=> c = <<t, n>> /\ MyKey(t) = key /\ status = 1
      BY <2>4, <1>1, <1>3, Zenon DEF Creation
    <3>3. QED
      BY <3>1, <3>2, <2>1, <2>2
  <2>5. CASE c[1] = t /\ c[2] # n
    <3>1. c # <<t, n>>
      BY <2>5
    <3>2. Creation(answers', key, c) <=> Creation(answers, key, c)
      BY <2>5, <1>3 DEF Creation
    <3>3. QED
      BY <3>1, <3>2, <2>1, <2>2
  <2>6. QED
    BY <2>3, <2>4, <2>5
<1>6. QED
  <2>1. CASE status = 1 /\ MyKey(t) = key
    <3>1. Created(key)' = Created(key) \cup {<<t, n>>}
      BY <2>1, <1>5
    <3>2. QED
      BY <3>1, <2>1 DEF n
  <2>2. CASE ~(status = 1 /\ MyKey(t) = key)
    <3>1. Created(key)' = Created(key)
      BY <2>2, <1>5
    <3>2. QED
      BY <3>1, <2>2
  <2>3. QED
    BY <2>1, <2>2

(***************************************************************************)
(* The steps.                                                              *)
(***************************************************************************)

\* What is left to show of a step.
LEMMA StepKeeps ==
  ASSUME NameInv, NEW t \in Threads, StepOf(t),
         NTyped', TypesInv', SlotsInv', CreatedInv', ThreadInv(t)',
         \A u \in Threads : u # t => PairInv(t, u)'
  PROVE  NameInv'
<1>1. NTyped
  BY DEF NameInv
<1>2. ASSUME NEW u \in Threads
      PROVE  ThreadInv(u)'
  <2>1. CASE u = t
    BY <2>1
  <2>2. CASE u # t
    <3>1. ThreadInv(u) /\ PairInv(t, u)
      BY <2>2 DEF NameInv
    <3>2. QED
      BY <1>1, <2>2, <3>1, ThreadStays
  <2>3. QED
    BY <2>1, <2>2
<1>3. ASSUME NEW u \in Threads, NEW v \in Threads, u # v
      PROVE  PairInv(u, v)'
  <2>1. CASE u = t
    BY <2>1, <1>3
  <2>2. CASE v = t
    <3>1. PairInv(t, u)'
      BY <2>2, <1>3
    <3>2. QED
      BY <2>2, <3>1, Zenon DEF PairInv
  <2>3. CASE u # t /\ v # t
    <3>1. PairInv(u, v)
      BY <1>3, Zenon DEF NameInv
    <3>2. QED
      BY <2>3, <3>1, PairStays, Zenon
  <2>4. QED
    BY <2>1, <2>2, <2>3
<1>4. QED
  BY <1>2, <1>3, Zenon DEF NameInv

\* A step that names no type, and does not begin or end the publishing of one,
\* creates nothing.
LEMMA CreatedStays ==
  ASSUME CreatedInv, NEW t \in Threads, StepOf(t),
         \A key \in Names : Created(key)' = Created(key),
         \A j \in TypeIndices : Named(j)' => Named(j),
         npc[t] # "publish", npc'[t] # "publish"
  PROVE  CreatedInv'
<1> SUFFICES ASSUME NEW key \in Names
             PROVE  /\ \A c, d \in Created(key)' : c = d
                    /\ Created(key)' # {} => \E j \in TypeIndices : Named(j)' /\ NameOf(j)' = key
                    /\ \A u \in Threads : npc'[u] = "publish" /\ MyKey(u)' = key => Created(key)' = {}
                    /\ (\E j \in TypeIndices : Named(j)' /\ NameOf(j)' = key) =>
                         \/ Created(key)' # {}
                         \/ \E u \in Threads : npc'[u] = "publish" /\ MyKey(u)' = key
  BY Zenon DEF CreatedInv
<1>1. Created(key)' = Created(key)
  OBVIOUS
<1>2. \A j \in TypeIndices : Named(j) => Named(j)' /\ NameOf(j)' = NameOf(j)
  BY Zenon DEF StepOf, TableGrows, Named, NameOf
<1>3. (\E j \in TypeIndices : Named(j)' /\ NameOf(j)' = key)
      <=> (\E j \in TypeIndices : Named(j) /\ NameOf(j) = key)
  BY <1>2, Zenon
<1>4. ASSUME NEW u \in Threads
      PROVE  npc'[u] = "publish" /\ MyKey(u)' = key <=> npc[u] = "publish" /\ MyKey(u) = key
  <2>1. CASE u = t
    BY <2>1
  <2>2. CASE u # t
    <3>1. Same(u) /\ todo' = todo
      BY <2>2 DEF StepOf
    <3>2. npc'[u] = npc[u] /\ MyKey(u)' = MyKey(u)
      BY <3>1, SameViews DEF Same
    <3>3. QED
      BY <3>2
  <2>3. QED
    BY <2>1, <2>2
<1>5. \A c, d \in Created(key)' : c = d
  <2>1. \A c, d \in Created(key) : c = d
    BY DEF CreatedInv
  <2>2. QED
    BY <1>1, <2>1
<1>6. Created(key)' # {} => \E j \in TypeIndices : Named(j)' /\ NameOf(j)' = key
  BY <1>1, <1>3, Zenon DEF CreatedInv
<1>7. \A u \in Threads : npc'[u] = "publish" /\ MyKey(u)' = key => Created(key)' = {}
  BY <1>1, <1>4, Zenon DEF CreatedInv
<1>8. (\E j \in TypeIndices : Named(j)' /\ NameOf(j)' = key) =>
        \/ Created(key)' # {}
        \/ \E u \in Threads : npc'[u] = "publish" /\ MyKey(u)' = key
  BY <1>1, <1>3, <1>4, Zenon DEF CreatedInv
<1>9. QED
  BY <1>5, <1>6, <1>7, <1>8

\* A step that changes nothing in the table.
LEMMA QuietStep ==
  ASSUME NameInv, NTyped', NEW t \in Threads,
         UNCHANGED <<words, toInt, strings, nextString, nextType, todo>>,
         \A u \in Threads \ {t} : Same(u),
         npc[t] # "publish",
         npc'[t] \in {"idle", "lookup", "create", "claim", "stuck"},
         PassesOthers(t), ThreadInv(t)',
         \A key \in Names : Created(key)' = Created(key)
  PROVE  NameInv'
<1>1. NTyped /\ TypesInv /\ SlotsInv /\ CreatedInv
  BY DEF NameInv
<1>2. ~Unnamed(t)' /\ ~Creating(t)' /\ ~Holding(t)'
  BY DEF Unnamed, Creating, Holding
<1>3. \A u \in Threads \ {t} : HeldStays(u)
  BY DEF HeldStays
<1>4. TableGrows
  <2>1. nextString <= nextString /\ nextType <= nextType
    BY <1>1, Fields
  <2>2. QED
    BY <2>1 DEF TableGrows
<1>5. HomesStay(t)
  BY <1>2, Zenon DEF HomesStay, HomeOf
<1>6. \A j \in TypeIndices : Named(j)' => Named(j)
  BY DEF Named
<1>7. StepOf(t)
  BY <1>3, <1>4, <1>5, <1>6, Zenon DEF StepOf, NamesMine
<1>8. TypesInv'
  BY <1>1, <1>6, <1>7, TypesStay
<1>9. SlotsInv'
  BY <1>1 DEF SlotsInv
<1>10. CreatedInv'
  BY <1>1, <1>2, <1>6, <1>7, CreatedStays
<1>11. \A u \in Threads : u # t => PairInv(t, u)'
  BY <1>2, Zenon DEF PairInv
<1>12. QED
  BY <1>7, <1>8, <1>9, <1>10, <1>11, StepKeeps, Zenon

\* A call begins at the slot of its hash.
LEMMA BeginKeeps ==
  ASSUME NameInv, NEW t \in Threads, Begin(t)
  PROVE  NameInv'
<1> DEFINE h == Hash(MyKey(t)) % NSlots
<1>1. NTyped /\ HasCall(t) /\ npc[t] = "idle"
  BY DEF NameInv, Begin
<1>2. UNCHANGED <<words, toInt, strings, nextString, nextType, todo, answers>>
  BY DEF Begin, table
<1>3. h \in Slots /\ h = Start(MyKey(t))
  BY <1>1, CallTyped, StartIsSlot DEF Start
<1>4. reg' = [reg EXCEPT ![t] = [index |-> h, init |-> h, word |-> 0]]
  BY DEF Begin
<1> HIDE DEF h
<1>5. npc' = [npc EXCEPT ![t] = "lookup"] \/ npc' = [npc EXCEPT ![t] = "create"]
  BY DEF Begin, NGoto
<1>6. npc' \in [Threads -> NLabels] /\ npc'[t] \in {"lookup", "create"}
  BY <1>1, <1>5 DEF NTyped, NLabels
<1>7. /\ reg' \in [Threads -> [index : Slots, init : Slots, word : {MARKER, 0} \cup Places]]
      /\ reg'[t].index = h /\ reg'[t].init = h
  BY <1>1, <1>3, <1>4 DEF NTyped
<1>8. NTyped'
  BY <1>1, <1>2, <1>6, <1>7, Zenon DEF NTyped, Names, Places
<1>9. \A u \in Threads \ {t} : Same(u)
  BY <1>1, <1>2, <1>4, <1>5 DEF Same, NTyped
<1>10. MyKey(t)' = MyKey(t) /\ (HasCall(t)' <=> HasCall(t))
  BY <1>2 DEF MyKey, HasCall, Call
<1>11. Passed(t)' = {}
  <2>1. ASSUME NEW i \in Slots
        PROVE  ~(Dist(h, i) < Dist(h, h))
    BY <1>3, Distances, Sizes
  <2>2. QED
    BY <2>1, <1>7 DEF Passed
<1>12. PassesOthers(t)
  BY <1>10, <1>11 DEF PassesOthers
<1>13. ThreadInv(t)'
  <2>1. ~Unnamed(t)' /\ ~Creating(t)' /\ ~Holding(t)'
    BY <1>6 DEF Unnamed, Creating, Holding
  <2>2. reg'[t].init = Start(MyKey(t))'
    BY <1>3, <1>7, <1>10 DEF Start
  <2>3. QED
    BY <1>1, <1>6, <1>10, <1>11, <2>1, <2>2 DEF ThreadInv
<1>14. \A key \in Names : Created(key)' = Created(key)
  BY <1>2, Zenon DEF Created, AnswersFor
<1>15. QED
  BY <1>1, <1>2, <1>6, <1>8, <1>9, <1>12, <1>13, <1>14, QuietStep

\* A call is answered with a type that the table has, or with failure.
LEMMA AnswerKeeps ==
  ASSUME NameInv, NEW t \in Threads, npc[t] \in {"lookup", "create", "wrong_unlock"},
         UNCHANGED <<words, toInt, strings, nextString, nextType, todo, reg>>,
         NEW status \in {-1, 0}, NEW out \in TypeIndices \cup {-1}, Answer(t, status, out)
  PROVE  NameInv'
<1>1. NTyped /\ HasCall(t)
  BY DEF NameInv, ThreadInv
<1>2. /\ answers' \in [Threads -> Seq(Abstract!Answer)]
      /\ npc' \in [Threads -> NLabels]
      /\ npc'[t] = "idle"
      /\ \A u \in Threads \ {t} : npc'[u] = npc[u] /\ answers'[u] = answers[u]
  BY <1>1, AnswerGiven
<1>3. NTyped'
  BY <1>1, <1>2, Zenon DEF NTyped, Names, Places
<1>4. \A u \in Threads \ {t} : Same(u)
  BY <1>2 DEF Same
<1>5. PassesOthers(t) /\ ThreadInv(t)'
  BY <1>2 DEF PassesOthers, ThreadInv
<1>6. \A key \in Names : Created(key)' = Created(key)
  BY <1>1, CreatedAfter
<1>7. QED
  BY <1>2, <1>3, <1>4, <1>5, <1>6, QuietStep

\* A thread goes on to the next slot, or has made a full turn.
LEMMA AdvanceKeeps ==
  ASSUME NameInv, NEW t \in Threads, npc[t] \in {"lookup", "create", "wrong_unlock"},
         UNCHANGED <<words, toInt, strings, nextString, nextType, todo>>,
         Slot(t) # 0, NotTheSlot(t, reg[t].index), Advance(t)
  PROVE  NameInv'
<1> DEFINE next == (reg[t].index + 1) % NSlots
<1>1. NTyped /\ ThreadInv(t) /\ HasCall(t)
  BY DEF NameInv, ThreadInv
<1>2. CASE next = reg[t].init
  <2>1. Answer(t, -1, -1) /\ reg' = reg
    BY <1>2 DEF Advance
  <2>2. QED
    BY <2>1, AnswerKeeps
<1>3. CASE next # reg[t].init
  <2>1. /\ reg' = [reg EXCEPT ![t].index = next]
        /\ answers' = answers
        /\ npc' = [npc EXCEPT ![t] = "lookup"] \/ npc' = [npc EXCEPT ![t] = "create"]
    BY <1>3 DEF Advance, NGoto
  <2>2. next \in Slots
    BY <1>1, Fields, NextSlot
  <2>3. Passed(t)' = Passed(t) \cup {reg[t].index}
    BY <1>1, <1>3, <2>1, PassedNext
  <2> HIDE DEF next
  <2>4. npc' \in [Threads -> NLabels] /\ npc'[t] \in {"lookup", "create"}
    BY <1>1, <2>1 DEF NTyped, NLabels
  <2>5. reg' \in [Threads -> [index : Slots, init : Slots, word : {MARKER, 0} \cup Places]]
    <3> DEFINE R == [index : Slots, init : Slots, word : {MARKER, 0} \cup Places]
    <3>1. reg \in [Threads -> R]
      BY <1>1, Zenon DEF NTyped
    <3>2. reg[t] \in R
      BY <3>1, Zenon
    <3>3. [reg[t] EXCEPT !.index = next] \in R
      BY <2>2, <3>2
    <3>4. reg' = [reg EXCEPT ![t] = [reg[t] EXCEPT !.index = next]]
      BY <2>1, Zenon
    <3> HIDE DEF R
    <3>5. reg' \in [Threads -> R]
      BY <3>1, <3>3, <3>4
    <3> QED
      BY <3>5 DEF R
  <2>6. reg'[t].init = reg[t].init
    BY <1>1, <2>1 DEF NTyped
  <2>7. NTyped'
    BY <1>1, <2>1, <2>4, <2>5, Zenon DEF NTyped, Names, Places
  <2>8. \A u \in Threads \ {t} : Same(u)
    BY <1>1, <2>1 DEF Same, NTyped
  <2>9. MyKey(t)' = MyKey(t) /\ (HasCall(t)' <=> HasCall(t))
    BY <2>1 DEF MyKey, HasCall, Call
  <2>10. PassesOthers(t)
    BY <2>3, <2>9, Zenon DEF PassesOthers
  <2>11. ThreadInv(t)'
    <3>1. ~Unnamed(t)' /\ ~Creating(t)' /\ ~Holding(t)'
      BY <2>4 DEF Unnamed, Creating, Holding
    <3>2. reg'[t].init = Start(MyKey(t))'
      BY <1>1, <2>6, <2>9 DEF Start, ThreadInv
    <3>3. \A s \in Passed(t)' : words'[From(s)] # 0
      BY <1>1, <2>3, Zenon DEF ThreadInv, Slot
    <3>4. QED
      BY <1>1, <2>4, <2>9, <3>1, <3>2, <3>3, Zenon DEF ThreadInv
  <2>12. \A key \in Names : Created(key)' = Created(key)
    BY <2>1, Zenon DEF Created, AnswersFor
  <2>13. QED
    BY <2>4, <2>7, <2>8, <2>10, <2>11, <2>12, QuietStep
<1>4. QED
  BY <1>2, <1>3

\* A thread that only goes to another label.
LEMMA GotoKeeps ==
  ASSUME NameInv, NEW t \in Threads, npc[t] \notin {"idle", "publish"},
         UNCHANGED <<words, toInt, strings, nextString, nextType, todo, answers, reg>>,
         NEW label \in {"claim", "stuck"}, NGoto(t, label)
  PROVE  NameInv'
<1>1. NTyped /\ ThreadInv(t)
  BY DEF NameInv
<1>2. /\ npc' \in [Threads -> NLabels]
      /\ npc'[t] = label
      /\ \A u \in Threads \ {t} : npc'[u] = npc[u]
  BY <1>1 DEF NGoto, NTyped, NLabels
<1>3. NTyped'
  BY <1>1, <1>2, Zenon DEF NTyped, Names, Places
<1>4. \A u \in Threads \ {t} : Same(u)
  BY <1>2 DEF Same
<1>5. MyKey(t)' = MyKey(t) /\ (HasCall(t)' <=> HasCall(t)) /\ Passed(t)' = Passed(t)
  BY DEF MyKey, HasCall, Call, Passed
<1>6. PassesOthers(t)
  BY <1>5 DEF PassesOthers
<1>7. ThreadInv(t)'
  <2>1. ~Unnamed(t)' /\ ~Creating(t)' /\ ~Holding(t)'
    BY <1>2 DEF Unnamed, Creating, Holding
  <2>2. reg'[t].init = Start(MyKey(t))'
    BY <1>1, <1>5 DEF Start, ThreadInv
  <2>3. \A s \in Passed(t)' : words'[From(s)] # 0
    BY <1>1, <1>5, Zenon DEF ThreadInv
  <2>4. HasCall(t)'
    BY <1>1, <1>5 DEF ThreadInv
  <2>5. npc'[t] \notin {"unlock", "wrong_unlock", "number", "name", "publish"}
    BY <1>2
  <2>6. QED
    BY <2>1, <2>2, <2>3, <2>4, <2>5, Zenon DEF ThreadInv
<1>8. \A key \in Names : Created(key)' = Created(key)
  BY Zenon DEF Created, AnswersFor
<1>9. QED
  BY <1>2, <1>3, <1>4, <1>6, <1>7, <1>8, QuietStep

\* stinger_names_lookup_type at a slot.
LEMMA LookupKeeps ==
  ASSUME NameInv, WithinLimits, NEW t \in Threads, Lookup(t)
  PROVE  NameInv'
<1>1. npc[t] = "lookup" /\ Slot(t) # MARKER
  BY DEF Lookup
<1>2. UNCHANGED <<words, toInt, strings, nextString, nextType, todo>>
  BY DEF Lookup, table
<1>3. toInt[reg[t].index] \in TypeIndices
  BY Fields DEF NameInv
<1>4. CASE Slot(t) = 0 /\ Answer(t, -1, -1) /\ UNCHANGED reg
  BY <1>1, <1>2, <1>4, AnswerKeeps
<1>5. CASE Answer(t, 0, toInt[reg[t].index]) /\ UNCHANGED reg
  BY <1>1, <1>2, <1>3, <1>5, AnswerKeeps
<1>6. CASE Slot(t) # 0 /\ ~Matches(t, Slot(t)) /\ Advance(t)
  <2>1. NotTheSlot(t, reg[t].index)
    BY <1>1, <1>6, AnotherName
  <2>2. QED
    BY <1>1, <1>2, <1>6, <2>1, AdvanceKeeps
<1>7. QED
  BY <1>4, <1>5, <1>6, Zenon DEF Lookup

\* stinger_names_create_type at a slot that it may share.
LEMMA ProbeKeeps ==
  ASSUME NameInv, WithinLimits, NEW t \in Threads, Probe(t)
  PROVE  NameInv'
<1>1. npc[t] = "create" /\ Slot(t) # MARKER
  BY DEF Probe
<1>2. UNCHANGED <<words, toInt, strings, nextString, nextType, todo>>
  BY DEF Probe, table
<1>3. toInt[reg[t].index] \in TypeIndices
  BY Fields DEF NameInv
<1>4. CASE NGoto(t, "claim") /\ UNCHANGED <<answers, reg>>
  BY <1>1, <1>2, <1>4, GotoKeeps
<1>5. CASE Answer(t, 0, toInt[reg[t].index]) /\ UNCHANGED reg
  BY <1>1, <1>2, <1>3, <1>5, AnswerKeeps
<1>6. CASE Slot(t) # 0 /\ ~Matches(t, Slot(t)) /\ Advance(t)
  <2>1. NotTheSlot(t, reg[t].index)
    BY <1>1, <1>6, AnotherName
  <2>2. QED
    BY <1>1, <1>2, <1>6, <2>1, AdvanceKeeps
<1>7. QED
  BY <1>4, <1>5, <1>6, Zenon DEF Probe

\* The unlocking of the wrong word.
LEMMA WrongUnlockKeeps ==
  ASSUME NameInv, WithinLimits, NEW t \in Threads, WrongUnlock(t)
  PROVE  NameInv'
<1>1. npc[t] = "wrong_unlock"
  BY DEF WrongUnlock
<1>2. UNCHANGED <<words, toInt, strings, nextString, nextType, todo>>
  BY DEF WrongUnlock, table
<1>3. CASE NGoto(t, "stuck") /\ UNCHANGED <<answers, reg>>
  BY <1>1, <1>2, <1>3, GotoKeeps
<1>4. CASE Advance(t)
  <2>1. NotTheSlot(t, reg[t].index)
    BY <1>1, AnotherName
  <2>2. Slot(t) # 0
    <3>1. ThreadInv(t) /\ Holding(t)
      BY <1>1, Zenon DEF NameInv, Holding
    <3>2. words[From(reg[t].index)] = MARKER
      BY <1>1, <3>1, Zenon DEF ThreadInv
    <3>3. QED
      BY <3>2 DEF Slot, MARKER
  <2>3. QED
    BY <1>1, <1>2, <1>4, <2>1, <2>2, AdvanceKeeps
<1>5. QED
  BY <1>3, <1>4 DEF WrongUnlock

\* A word of from_name is written.
LEMMA SlotWritten ==
  ASSUME NTyped, NEW i \in Slots, NEW w \in {MARKER, 0} \cup Places,
         words' = [words EXCEPT ![From(i)] = w]
  PROVE  /\ words' \in [0 .. 3 * MaxTypes - 1 -> {MARKER, 0} \cup Places]
         /\ words'[From(i)] = w
         /\ \A s \in Slots : s # i => words'[From(s)] = words[From(s)]
         /\ \A j \in TypeIndices : words'[j] = words[j]
<1>1. words \in [0 .. 3 * MaxTypes - 1 -> {MARKER, 0} \cup Places]
  BY DEF NTyped
<1>2. From(i) \in 0 .. 3 * MaxTypes - 1
  BY SlotWords
<1>3. /\ words' \in [0 .. 3 * MaxTypes - 1 -> {MARKER, 0} \cup Places]
      /\ words'[From(i)] = w
  BY <1>1, <1>2
<1>4. ASSUME NEW s \in Slots, s # i
      PROVE  words'[From(s)] = words[From(s)]
  <2>1. From(s) # From(i) /\ From(s) \in 0 .. 3 * MaxTypes - 1
    BY <1>4, SlotWords
  <2>2. QED
    BY <1>1, <2>1
<1>5. ASSUME NEW j \in TypeIndices
      PROVE  words'[j] = words[j]
  <2>1. j # From(i) /\ j \in 0 .. 3 * MaxTypes - 1
    BY SlotWords
  <2>2. QED
    BY <1>1, <2>1
<1>6. QED
  BY <1>3, <1>4, <1>5

\* A thread that holds a slot is where it was and has it locked.
LEMMA HeldSlot ==
  ASSUME NameInv, NEW u \in Threads, Holding(u)
  PROVE  npc[u] # "idle" /\ words[From(reg[u].index)] = MARKER
<1>1. npc[u] # "idle"
  BY DEF Holding, Creating, Unnamed
<1>2. QED
  BY <1>1, Zenon DEF NameInv, ThreadInv

\* The home of a type is in use.
LEMMA HomeInUse ==
  ASSUME NEW j \in TypeIndices, Named(j), NEW i \in Slots, HomeOf(j, i)
  PROVE  words[From(i)] # 0
BY DEF HomeOf, Named, MARKER

\* readfe locks a slot.
LEMMA ClaimKeeps ==
  ASSUME NameInv, WithinLimits, NEW t \in Threads, Claim(t)
  PROVE  NameInv'
<1> DEFINE i == reg[t].index
<1>1. NTyped /\ TypesInv /\ SlotsInv /\ CreatedInv /\ ThreadInv(t)
  BY DEF NameInv
<1>2. npc[t] = "claim" /\ Slot(t) # MARKER /\ HasCall(t)
  BY <1>1 DEF Claim, ThreadInv
<1>3. UNCHANGED <<toInt, strings, nextString, nextType, todo, answers>>
  BY DEF Claim
<1>4. i \in Slots /\ words[From(i)] = Slot(t)
  BY <1>1, Fields DEF Slot
<1>5. Slot(t) \in {MARKER, 0} \cup Places
  BY <1>1, <1>4, SlotWords DEF NTyped
<1>6. /\ words' \in [0 .. 3 * MaxTypes - 1 -> {MARKER, 0} \cup Places]
      /\ words'[From(i)] = MARKER
      /\ \A s \in Slots : s # i => words'[From(s)] = words[From(s)]
      /\ \A j \in TypeIndices : words'[j] = words[j]
  <2>1. words' = [words EXCEPT ![From(i)] = MARKER]
    BY DEF Claim
  <2>2. QED
    BY <1>1, <1>4, <2>1, SlotWritten
<1>7. /\ reg' \in [Threads -> [index : Slots, init : Slots, word : {MARKER, 0} \cup Places]]
      /\ reg'[t].index = i /\ reg'[t].init = reg[t].init /\ reg'[t].word = Slot(t)
      /\ \A u \in Threads \ {t} : reg'[u] = reg[u]
  <2>1. reg' = [reg EXCEPT ![t].word = Slot(t)]
    BY DEF Claim
  <2>2. QED
    BY <1>1, <1>5, <2>1 DEF NTyped
<1>8. /\ npc' \in [Threads -> NLabels]
      /\ npc'[t] = AfterClaim(t, Slot(t))
      /\ \A u \in Threads \ {t} : npc'[u] = npc[u]
  <2>1. npc' = [npc EXCEPT ![t] = AfterClaim(t, Slot(t))]
    BY DEF Claim, NGoto
  <2>2. AfterClaim(t, Slot(t)) \in NLabels
    BY DEF AfterClaim, NLabels
  <2>3. QED
    BY <1>1, <2>1, <2>2 DEF NTyped
<1> HIDE DEF i
<1>9. NTyped'
  <2>1. \A j \in TypeIndices : words'[j] # MARKER
    BY <1>1, <1>6 DEF NTyped
  <2>2. QED
    BY <1>1, <1>3, <1>6, <1>7, <1>8, <2>1, Zenon DEF NTyped, Names, Places
<1>10. \A u \in Threads \ {t} : Same(u)
  BY <1>3, <1>7, <1>8 DEF Same
<1>11. ASSUME NEW u \in Threads, u # t, Holding(u)
       PROVE  reg[u].index \in Slots /\ reg[u].index # i
  <2>1. words[From(reg[u].index)] = MARKER
    BY <1>11, HeldSlot
  <2>2. QED
    BY <2>1, <1>1, <1>2, <1>4, Fields
<1>12. \A u \in Threads \ {t} : HeldStays(u)
  <2> SUFFICES ASSUME NEW u \in Threads, u # t, Holding(u)
               PROVE  /\ words'[From(reg[u].index)] = words[From(reg[u].index)]
                      /\ words'[toInt[reg[u].index]] = words[toInt[reg[u].index]]
    BY <1>3 DEF HeldStays
  <2>1. reg[u].index \in Slots /\ reg[u].index # i /\ toInt[reg[u].index] \in TypeIndices
    BY <1>1, <1>11, Fields
  <2>2. QED
    BY <2>1, <1>6
<1>13. MyKey(t)' = MyKey(t) /\ (HasCall(t)' <=> HasCall(t)) /\ Passed(t)' = Passed(t)
  BY <1>3, <1>7 DEF MyKey, HasCall, Call, Passed, i
<1>14. PassesOthers(t)
  BY <1>2, <1>13 DEF PassesOthers
<1>15. \A s \in Slots : words[From(s)] # 0 => words'[From(s)] # 0
  BY <1>6 DEF MARKER
<1>16. TableGrows
  <2>1. nextString <= nextString' /\ nextType <= nextType'
    BY <1>1, <1>3, Fields
  <2>2. QED
    BY <1>3, <1>6, <1>15, <2>1, Zenon DEF TableGrows
<1>17. Unnamed(t)' => Slot(t) = 0
  BY <1>8 DEF Unnamed, AfterClaim
<1>18. HomesStay(t)
  <2> SUFFICES ASSUME NEW j \in TypeIndices, NEW s \in Slots, Named(j), HomeOf(j, s)
               PROVE  /\ words'[From(s)] \in {MARKER, words[j]}
                      /\ Unnamed(t)' => i # s
    BY <1>3, <1>7 DEF HomesStay
  <2>1. words[From(s)] # 0 /\ words[From(s)] \in {MARKER, words[j]}
    BY HomeInUse DEF HomeOf
  <2>2. QED
    BY <1>4, <1>6, <1>17, <2>1
<1>19. \A j \in TypeIndices : Named(j)' => Named(j)
  BY <1>6 DEF Named
<1>20. StepOf(t)
  BY <1>3, <1>10, <1>12, <1>14, <1>16, <1>18, <1>19, Zenon DEF StepOf, NamesMine
<1>21. TypesInv'
  BY <1>1, <1>9, <1>19, <1>20, TypesStay
<1>22. SlotsInv'
  <2> SUFFICES ASSUME NEW s \in Slots, words'[From(s)] \in Places
               PROVE  words'[toInt'[s]] = words'[From(s)]
    BY DEF SlotsInv, Places
  <2>1. s # i
    BY <1>6, Sizes DEF Places, MARKER
  <2>2. toInt[s] \in TypeIndices
    BY <1>1, Fields
  <2>3. words[toInt[s]] = words[From(s)]
    BY <1>1, <1>6, <2>1 DEF SlotsInv
  <2>4. QED
    BY <1>3, <1>6, <2>1, <2>2, <2>3
<1>23. CreatedInv'
  <2>1. \A key \in Names : Created(key)' = Created(key)
    BY <1>3, Zenon DEF Created, AnswersFor
  <2>2. npc'[t] # "publish"
    BY <1>8 DEF AfterClaim
  <2>3. QED
    BY <1>1, <1>2, <1>19, <1>20, <2>1, <2>2, CreatedStays
<1>24. ASSUME Slot(t) = 0
       PROVE  Reached(MyKey(t), i)'
  <2>1. MyKey(t)' = MyKey(t) /\ reg[t].init = Start(MyKey(t)) /\ reg[t].init \in Slots
    BY <1>1, <1>2, <1>13, Fields DEF ThreadInv
  <2>2. ASSUME NEW s \in Slots, Dist(reg[t].init, s) <= Dist(reg[t].init, i)
        PROVE  words'[From(s)] # 0
    <3>1. CASE s = i
      BY <3>1, <1>6 DEF MARKER
    <3>2. CASE s # i
      <4>1. Dist(reg[t].init, s) # Dist(reg[t].init, i)
        BY <3>2, <2>1, <1>4, Distances
      <4>2. Dist(reg[t].init, s) \in Int /\ Dist(reg[t].init, i) \in Int
        BY <2>1, <1>4, Distances
      <4>3. Dist(reg[t].init, s) < Dist(reg[t].init, i)
        BY <2>2, <4>1, <4>2
      <4>4. s \in Passed(t)
        BY <4>3 DEF Passed, i
      <4>5. QED
        BY <4>4, <1>1, <1>2, <1>15, Zenon DEF ThreadInv
    <3>3. QED
      BY <3>1, <3>2
  <2>3. ASSUME NEW u \in Threads, npc'[u] # "idle"
        PROVE  i \notin Passed(u)'
    <3>1. CASE u = t
      <4>1. ~(Dist(reg[t].init, i) < Dist(reg[t].init, i))
        BY <2>1, <1>4, Distances
      <4>2. QED
        BY <3>1, <4>1, <1>13 DEF Passed, i
    <3>2. CASE u # t
      <4>1. npc[u] # "idle" /\ Passed(u)' = Passed(u)
        BY <3>2, <2>3, <1>3, <1>10, SameViews DEF Same
      <4>2. \A s \in Passed(u) : words[From(s)] # 0
        BY <4>1, Zenon DEF NameInv, ThreadInv
      <4>3. QED
        BY <4>1, <4>2, <1>4, <1>24
    <3>3. QED
      BY <3>1, <3>2
  <2>4. QED
    BY <2>1, <2>2, <2>3, <1>7 DEF Reached, i
<1>25. ThreadInv(t)'
  <2>1. HasCall(t)' /\ reg'[t].init = Start(MyKey(t))'
    BY <1>1, <1>2, <1>7, <1>13 DEF ThreadInv, Start
  <2>2. \A s \in Passed(t)' : words'[From(s)] # 0
    <3>1. Passed(t) \subseteq Slots
      BY DEF Passed
    <3>2. QED
      BY <3>1, <1>1, <1>2, <1>13, <1>15, Zenon DEF ThreadInv
  <2>3. words'[From(reg'[t].index)] = MARKER
    BY <1>6, <1>7
  <2>4. CASE Slot(t) = 0
    <3>1. npc'[t] = "store"
      BY <2>4, <1>8 DEF AfterClaim
    <3>2. ASSUME NEW j \in TypeIndices, Named(j)'
          PROVE  NameOf(j)' # MyKey(t)'
      <4>1. Named(j) /\ NameOf(j)' = NameOf(j)
        BY <3>2, <1>3, <1>6 DEF Named, NameOf
      <4>2. NameOf(j) # MyKey(t)
        BY <4>1, <2>4, <1>2, NotFound
      <4>3. QED
        BY <4>1, <4>2, <1>13
    <3>3. Reached(MyKey(t), reg[t].index)'
      BY <2>4, <1>24 DEF i
    <3>4. QED
      BY <2>1, <2>2, <2>3, <3>1, <3>2, <3>3, Zenon DEF ThreadInv
  <2>5. CASE Slot(t) # 0
    <3>1. Slot(t) \in Places
      BY <2>5, <1>2, <1>5
    <3>2. words'[toInt'[reg'[t].index]] = reg'[t].word /\ reg'[t].word \in Places
      <4>1. words[toInt[i]] = Slot(t) /\ toInt[i] \in TypeIndices
        BY <3>1, <1>1, <1>4, Fields DEF SlotsInv
      <4>2. QED
        BY <4>1, <3>1, <1>3, <1>6, <1>7
    <3>3. Matches(t, reg[t].word)' <=> Matches(t, Slot(t))
      BY <1>3, <1>7, <1>13 DEF Matches
    <3>4. \/ npc'[t] = "unlock" /\ Matches(t, reg[t].word)'
          \/ npc'[t] = "wrong_unlock" /\ ~Matches(t, reg[t].word)'
      BY <2>5, <3>3, <1>8 DEF AfterClaim
    <3>5. ~Unnamed(t)' /\ ~Creating(t)' /\ npc'[t] \notin {"idle", "number", "name", "publish"}
      BY <3>4 DEF Unnamed, Creating
    <3>6. QED
      BY <2>1, <2>2, <2>3, <3>2, <3>4, <3>5, Zenon DEF ThreadInv, Places
  <2>6. QED
    BY <2>4, <2>5
<1>26. ASSUME NEW u \in Threads, u # t
       PROVE  PairInv(t, u)'
  <2>1. Same(u) /\ todo' = todo
    BY <1>3, <1>10, <1>26
  <2>2. (Holding(u)' <=> Holding(u)) /\ (Creating(u)' <=> Creating(u)) /\ MyKey(u)' = MyKey(u)
    BY <2>1, SameViews
  <2>3. Holding(u)' => reg'[t].index # reg'[u].index
    BY <2>1, <2>2, <1>7, <1>11, <1>26 DEF Same
  <2>4. ASSUME Creating(t)', Creating(u)'
        PROVE  MyKey(t)' # MyKey(u)'
    <3>1. Slot(t) = 0
      BY <2>4, <1>8 DEF Creating, Unnamed, AfterClaim
    <3>2. npc[u] # "idle" /\ Creating(u)
      BY <2>2, <2>4 DEF Creating, Unnamed
    <3>3. Reached(MyKey(u), reg[u].index) /\ reg[u].index \in Slots
      BY <3>2, <1>1, Fields, Zenon DEF NameInv, ThreadInv
    <3>4. MyKey(u) # MyKey(t)
      BY <3>1, <3>3, <1>1, <1>2, NothingBehind
    <3>5. QED
      BY <3>4, <2>2, <1>13
  <2>5. npc'[t] # "name"
    BY <1>8 DEF AfterClaim
  <2>6. QED
    BY <2>3, <2>4, <2>5, Zenon DEF PairInv
<1>27. QED
  BY <1>9, <1>20, <1>21, <1>22, <1>23, <1>25, <1>26, StepKeeps
=============================================================================
