-------------------------- MODULE NameTableProofs ---------------------------
(***************************************************************************)
(* Proof that racing threads keep a table of names a one-to-one map, as    *)
(* long as it is used within its limits: the steps that unlock a slot or   *)
(* create a type, the invariant of NameTableInvariant, and the table as an *)
(* implementation of the map of NameMap.                                   *)
(***************************************************************************)
EXTENDS NameTableSteps

\* A slot is unlocked with the place of the name whose type it holds.
LEMMA ReleaseKeeps ==
  ASSUME NameInv, NEW t \in Threads, npc[t] \in {"unlock", "publish"},
         words' = [words EXCEPT ![From(reg[t].index)] = reg[t].word],
         UNCHANGED <<toInt, strings, nextString, nextType, todo, reg>>,
         NEW status \in {0, 1}, Answer(t, status, toInt[reg[t].index])
  PROVE  /\ StepOf(t)
         /\ \A j \in TypeIndices : Named(j)' => Named(j)
         /\ npc'[t] = "idle"
         /\ CreatedInv' => NameInv'
<1> DEFINE i == reg[t].index
<1>1. NTyped /\ TypesInv /\ SlotsInv /\ ThreadInv(t) /\ HasCall(t)
  BY DEF NameInv, ThreadInv
<1>2. reg[t].word \in Places /\ words[toInt[i]] = reg[t].word
  BY <1>1, Zenon DEF ThreadInv
<1>3. i \in Slots /\ toInt[i] \in TypeIndices
  BY <1>1, Fields
<1>4. /\ words' \in [0 .. 3 * MaxTypes - 1 -> {MARKER, 0} \cup Places]
      /\ words'[From(i)] = reg[t].word
      /\ \A s \in Slots : s # i => words'[From(s)] = words[From(s)]
      /\ \A j \in TypeIndices : words'[j] = words[j]
  BY <1>1, <1>2, <1>3, SlotWritten
<1>5. /\ answers' \in [Threads -> Seq(Abstract!Answer)]
      /\ npc' \in [Threads -> NLabels]
      /\ npc'[t] = "idle"
      /\ \A u \in Threads \ {t} : npc'[u] = npc[u] /\ answers'[u] = answers[u]
  BY <1>1, <1>3, AnswerGiven
<1> HIDE DEF i
<1>6. NTyped'
  <2>1. \A j \in TypeIndices : words'[j] # MARKER
    BY <1>1, <1>4 DEF NTyped
  <2>2. QED
    BY <1>1, <1>4, <1>5, <2>1, Zenon DEF NTyped, Names, Places
<1>7. \A u \in Threads \ {t} : Same(u)
  BY <1>5 DEF Same
<1>8. ASSUME NEW u \in Threads, u # t, Holding(u)
      PROVE  reg[u].index \in Slots /\ reg[u].index # i
  <2>1. Holding(t)
    BY DEF Holding, Creating
  <2>2. PairInv(t, u)
    BY <1>8 DEF NameInv
  <2>3. QED
    BY <2>1, <2>2, <1>1, <1>8, Fields DEF PairInv, i
<1>9. \A u \in Threads \ {t} : HeldStays(u)
  <2> SUFFICES ASSUME NEW u \in Threads, u # t, Holding(u)
               PROVE  /\ words'[From(reg[u].index)] = words[From(reg[u].index)]
                      /\ words'[toInt[reg[u].index]] = words[toInt[reg[u].index]]
    BY DEF HeldStays
  <2>1. reg[u].index \in Slots /\ reg[u].index # i /\ toInt[reg[u].index] \in TypeIndices
    BY <1>1, <1>8, Fields
  <2>2. QED
    BY <2>1, <1>4
<1>10. PassesOthers(t) /\ ThreadInv(t)' /\ ~Unnamed(t)' /\ ~Creating(t)' /\ ~Holding(t)'
  BY <1>5 DEF PassesOthers, ThreadInv, Unnamed, Creating, Holding
<1>11. TableGrows
  <2>1. nextString <= nextString' /\ nextType <= nextType'
    BY <1>1, Fields
  <2>2. \A s \in Slots : words[From(s)] # 0 => words'[From(s)] # 0
    BY <1>2, <1>4, PlaceInUse, Zenon
  <2>3. QED
    BY <1>4, <2>1, <2>2, Zenon DEF TableGrows
<1>12. HomesStay(t)
  <2> SUFFICES ASSUME NEW j \in TypeIndices, NEW s \in Slots, Named(j), HomeOf(j, s)
               PROVE  words'[From(s)] \in {MARKER, words[j]}
    BY <1>10, Zenon DEF HomesStay
  <2>1. toInt[s] = j /\ words[From(s)] \in {MARKER, words[j]}
    BY DEF HomeOf
  <2>2. QED
    BY <1>2, <1>4, <2>1
<1>13. \A j \in TypeIndices : Named(j)' => Named(j)
  BY <1>4 DEF Named
<1>14. StepOf(t)
  BY <1>7, <1>9, <1>10, <1>11, <1>12, <1>13, Zenon DEF StepOf, NamesMine
<1>15. TypesInv'
  BY <1>1, <1>6, <1>13, <1>14, TypesStay
<1>16. SlotsInv'
  <2> SUFFICES ASSUME NEW s \in Slots, words'[From(s)] \in Places
               PROVE  words'[toInt[s]] = words'[From(s)]
    BY DEF SlotsInv, Places
  <2>1. toInt[s] \in TypeIndices
    BY <1>1, Fields
  <2>2. CASE s = i
    BY <2>1, <2>2, <1>2, <1>4
  <2>3. CASE s # i
    BY <2>1, <2>3, <1>1, <1>4 DEF SlotsInv
  <2>4. QED
    BY <2>2, <2>3
<1>17. \A u \in Threads : u # t => PairInv(t, u)'
  BY <1>5, <1>10, Zenon DEF PairInv
<1>18. CreatedInv' => NameInv'
  BY <1>6, <1>10, <1>14, <1>15, <1>16, <1>17, StepKeeps
<1>19. QED
  BY <1>5, <1>13, <1>14, <1>18

\* The slot of a name that another thread has created meanwhile.
LEMMA UnlockKeeps ==
  ASSUME NameInv, NEW t \in Threads, Unlock(t)
  PROVE  NameInv'
<1>1. /\ npc[t] = "unlock"
      /\ words' = [words EXCEPT ![From(reg[t].index)] = reg[t].word]
      /\ UNCHANGED <<toInt, strings, nextString, nextType, todo, reg>>
      /\ Answer(t, 0, toInt[reg[t].index])
  BY DEF Unlock
<1>2. /\ StepOf(t)
      /\ \A j \in TypeIndices : Named(j)' => Named(j)
      /\ npc'[t] = "idle"
      /\ CreatedInv' => NameInv'
  BY <1>1, ReleaseKeeps
<1>3. \A key \in Names : Created(key)' = Created(key)
  BY <1>1, CreatedAfter DEF NameInv
<1>4. CreatedInv'
  BY <1>1, <1>2, <1>3, CreatedStays DEF NameInv
<1>5. QED
  BY <1>2, <1>4

\* A name is published: its creation is the first and only one.
LEMMA PublishKeeps ==
  ASSUME NameInv, NEW t \in Threads, Publish(t)
  PROVE  NameInv'
<1>1. /\ npc[t] = "publish"
      /\ words' = [words EXCEPT ![From(reg[t].index)] = reg[t].word]
      /\ UNCHANGED <<toInt, strings, nextString, nextType, todo, reg>>
      /\ Answer(t, 1, toInt[reg[t].index])
  BY DEF Publish
<1>2. /\ StepOf(t)
      /\ \A j \in TypeIndices : Named(j)' => Named(j)
      /\ npc'[t] = "idle"
      /\ CreatedInv' => NameInv'
  BY <1>1, ReleaseKeeps
<1>3. NTyped /\ CreatedInv /\ ThreadInv(t)
  BY DEF NameInv
<1>4. CreatedInv'
  <2> SUFFICES ASSUME NEW key \in Names
               PROVE  /\ \A c, d \in Created(key)' : c = d
                      /\ Created(key)' # {} => \E j \in TypeIndices : Named(j)' /\ NameOf(j)' = key
                      /\ \A u \in Threads : npc'[u] = "publish" /\ MyKey(u)' = key => Created(key)' = {}
                      /\ (\E j \in TypeIndices : Named(j)' /\ NameOf(j)' = key) =>
                           \/ Created(key)' # {}
                           \/ \E u \in Threads : npc'[u] = "publish" /\ MyKey(u)' = key
    BY Zenon DEF CreatedInv
  <2>1. \A j \in TypeIndices : Named(j) => Named(j)' /\ NameOf(j)' = NameOf(j)
    BY <1>2, Zenon DEF StepOf, TableGrows, Named, NameOf
  <2>2. (\E j \in TypeIndices : Named(j)' /\ NameOf(j)' = key)
        <=> (\E j \in TypeIndices : Named(j) /\ NameOf(j) = key)
    BY <1>2, <2>1, Zenon
  <2>3. ASSUME NEW u \in Threads, u # t
        PROVE  npc'[u] = npc[u] /\ MyKey(u)' = MyKey(u)
    <3>1. Same(u) /\ todo' = todo
      BY <1>2, <2>3 DEF StepOf
    <3>2. QED
      BY <3>1, SameViews DEF Same
  <2>4. CASE MyKey(t) = key
    <3>1. Created(key) = {}
      BY <2>4, <1>1, <1>3, Zenon DEF CreatedInv
    <3>2. PICK c : Created(key)' = {c}
      BY <3>1, <2>4, <1>1, <1>3, CreatedAfter
    <3>3. \E j \in TypeIndices : Named(j) /\ NameOf(j) = key
      <4>1. reg[t].word \in Places /\ words[toInt[reg[t].index]] = reg[t].word
        BY <1>1, <1>3, Zenon DEF ThreadInv
      <4>2. strings[reg[t].word] = key
        BY <1>1, <1>3, <2>4, Zenon DEF ThreadInv
      <4>3. toInt[reg[t].index] \in TypeIndices
        BY <1>3, Fields
      <4>4. reg[t].word # 0
        BY <4>1, Sizes DEF Places
      <4>5. QED
        BY <4>1, <4>2, <4>3, <4>4, Zenon DEF Named, NameOf
    <3>4. ASSUME NEW u \in Threads, npc'[u] = "publish"
          PROVE  MyKey(u)' # key
      <4>1. u # t
        BY <1>2, <3>4
      <4>2. Creating(t) /\ Creating(u) /\ PairInv(t, u)
        BY <4>1, <2>3, <3>4, <1>1 DEF Creating, NameInv
      <4>3. QED
        BY <4>1, <4>2, <2>3, <2>4 DEF PairInv
    <3>5. QED
      BY <3>2, <3>3, <3>4, <2>2
  <2>5. CASE MyKey(t) # key
    <3>1. Created(key)' = Created(key)
      BY <2>5, <1>1, <1>3, CreatedAfter
    <3>2. \A u \in Threads : npc'[u] = "publish" /\ MyKey(u)' = key <=> npc[u] = "publish" /\ MyKey(u) = key
      BY <1>2, <2>3, <2>5
    <3>3. \A c, d \in Created(key)' : c = d
      BY <3>1, <1>3 DEF CreatedInv
    <3>4. Created(key)' # {} => \E j \in TypeIndices : Named(j)' /\ NameOf(j)' = key
      BY <3>1, <2>2, <1>3, Zenon DEF CreatedInv
    <3>5. \A u \in Threads : npc'[u] = "publish" /\ MyKey(u)' = key => Created(key)' = {}
      BY <3>1, <3>2, <1>3, Zenon DEF CreatedInv
    <3>6. (\E j \in TypeIndices : Named(j)' /\ NameOf(j)' = key) =>
            \/ Created(key)' # {}
            \/ \E u \in Threads : npc'[u] = "publish" /\ MyKey(u)' = key
      BY <3>1, <3>2, <2>2, <1>3, Zenon DEF CreatedInv
    <3>7. QED
      BY <3>3, <3>4, <3>5, <3>6
  <2>6. QED
    BY <2>4, <2>5
<1>5. QED
  BY <1>2, <1>4

\* A name that finds no room is refused; its slot stays locked.
LEMMA NoRoomKeeps ==
  ASSUME NameInv, NEW t \in Threads, npc[t] = "store",
         UNCHANGED <<words, toInt, strings, nextType, todo, reg>>,
         nextString' \in Nat \ {0}, nextString <= nextString',
         Answer(t, -1, IntMax)
  PROVE  NameInv'
<1>1. NTyped /\ TypesInv /\ SlotsInv /\ CreatedInv /\ HasCall(t)
  BY DEF NameInv, ThreadInv
<1>2. /\ answers' \in [Threads -> Seq(Abstract!Answer)]
      /\ npc' \in [Threads -> NLabels]
      /\ npc'[t] = "idle"
      /\ \A u \in Threads \ {t} : npc'[u] = npc[u] /\ answers'[u] = answers[u]
  BY <1>1, AnswerGiven
<1>3. NTyped'
  BY <1>1, <1>2, Zenon DEF NTyped, Names, Places
<1>4. \A u \in Threads \ {t} : Same(u) /\ HeldStays(u)
  BY <1>2 DEF Same, HeldStays
<1>5. PassesOthers(t) /\ ThreadInv(t)' /\ ~Unnamed(t)' /\ ~Creating(t)' /\ ~Holding(t)'
  BY <1>2 DEF PassesOthers, ThreadInv, Unnamed, Creating, Holding
<1>6. TableGrows
  <2>1. nextType <= nextType'
    BY <1>1, Fields
  <2>2. QED
    BY <2>1 DEF TableGrows
<1>7. HomesStay(t)
  BY <1>5, Zenon DEF HomesStay, HomeOf
<1>8. \A j \in TypeIndices : Named(j)' => Named(j)
  BY DEF Named
<1>9. StepOf(t)
  BY <1>4, <1>5, <1>6, <1>7, <1>8, Zenon DEF StepOf, NamesMine
<1>10. TypesInv'
  BY <1>1, <1>3, <1>8, <1>9, TypesStay
<1>11. SlotsInv'
  BY <1>1 DEF SlotsInv
<1>12. CreatedInv'
  <2>1. \A key \in Names : Created(key)' = Created(key)
    BY <1>1, CreatedAfter
  <2>2. QED
    BY <1>1, <1>2, <1>8, <1>9, <2>1, CreatedStays
<1>13. \A u \in Threads : u # t => PairInv(t, u)'
  BY <1>2, <1>5, Zenon DEF PairInv
<1>14. QED
  BY <1>3, <1>5, <1>9, <1>10, <1>11, <1>12, <1>13, StepKeeps

\* The strings that are in use lie below nextString.
LEMMA UsedPlaces ==
  ASSUME NameInv, NEW u \in Threads, Holding(u), npc[u] # "store"
  PROVE  reg[u].word \in Places /\ reg[u].word < nextString
<1>1. npc[u] # "idle" /\ ThreadInv(u) /\ NTyped
  BY HeldSlot DEF NameInv
<1>2. CASE npc[u] \in {"number", "name", "publish"}
  BY <1>1, <1>2, Zenon DEF ThreadInv
<1>3. CASE npc[u] \in {"unlock", "wrong_unlock"}
  <2>1. reg[u].word \in Places /\ words[toInt[reg[u].index]] = reg[u].word
    BY <1>1, <1>3, Zenon DEF ThreadInv
  <2>2. toInt[reg[u].index] \in TypeIndices /\ Named(toInt[reg[u].index])
    BY <1>1, <2>1, Fields, Sizes DEF Named, Places
  <2>3. QED
    BY <2>1, <2>2, Zenon DEF NameInv, TypesInv
<1>4. QED
  BY <1>2, <1>3 DEF Holding, Creating, Unnamed

\* What a thread that creates a name keeps while it holds its slot.
LEMMA CreatorStays ==
  ASSUME NameInv, NEW t \in Threads, StepOf(t), Creating(t), npc'[t] # "idle",
         reg'[t].index = reg[t].index, reg'[t].init = reg[t].init,
         answers'[t] = answers[t],
         words'[From(reg[t].index)] = words[From(reg[t].index)]
  PROVE  /\ MyKey(t)' = MyKey(t)
         /\ HasCall(t)'
         /\ reg'[t].init = Start(MyKey(t))'
         /\ \A s \in Passed(t)' : words'[From(s)] # 0
         /\ words'[From(reg'[t].index)] = MARKER
         /\ Reached(MyKey(t), reg[t].index)'
         /\ \A u \in Threads : u # t =>
              /\ Holding(u)' => reg'[t].index # reg'[u].index
              /\ Creating(u)' => MyKey(t)' # MyKey(u)'
<1>1. NTyped /\ ThreadInv(t) /\ Holding(t) /\ npc[t] # "idle" /\ todo' = todo
  BY DEF NameInv, Holding, Creating, Unnamed, StepOf
<1>2. MyKey(t)' = MyKey(t) /\ (HasCall(t)' <=> HasCall(t)) /\ Passed(t)' = Passed(t)
  BY <1>1 DEF MyKey, HasCall, Call, Passed
<1>3. HasCall(t)' /\ reg'[t].init = Start(MyKey(t))'
  BY <1>1, <1>2 DEF ThreadInv, Start
<1>4. ASSUME NEW s \in Passed(t)'
      PROVE  words'[From(s)] # 0
  <2>1. s \in Passed(t) /\ s \in Slots
    BY <1>2 DEF Passed
  <2>2. QED
    BY <2>1, <1>1, Zenon DEF ThreadInv, StepOf, TableGrows
<1>5. words'[From(reg'[t].index)] = MARKER
  BY <1>1 DEF ThreadInv
<1>6. Reached(MyKey(t), reg[t].index)'
  <2>1. PICK i \in Slots : i = reg[t].index
    BY <1>1, Fields
  <2>2. PICK key : key = MyKey(t)
    OBVIOUS
  <2>3. Reached(key, i) /\ ~NotTheSlot(t, i)
    BY <1>1, <2>1, <2>2, Zenon DEF ThreadInv, NotTheSlot
  <2>4. Reached(key, i)'
    BY <2>3, ReachedStays
  <2>5. QED
    BY <2>1, <2>2, <2>4, <1>2
<1>7. ASSUME NEW u \in Threads, u # t
      PROVE  /\ Holding(u)' => reg'[t].index # reg'[u].index
             /\ Creating(u)' => MyKey(t)' # MyKey(u)'
  <2>1. Same(u) /\ PairInv(t, u)
    BY <1>7 DEF NameInv, StepOf
  <2>2. (Holding(u)' <=> Holding(u)) /\ (Creating(u)' <=> Creating(u)) /\ MyKey(u)' = MyKey(u)
    BY <1>1, <2>1, SameViews
  <2>3. QED
    BY <1>1, <1>2, <2>1, <2>2 DEF PairInv, Same
<1>8. QED
  BY <1>2, <1>3, <1>4, <1>5, <1>6, <1>7, Zenon

\* A name is stored at a place of its own.
LEMMA StoreKeeps ==
  ASSUME NameInv, NEW t \in Threads, npc[t] = "store",
         nextString + Len(MyKey(t)) < MaxNames,
         nextString' = nextString + Len(MyKey(t)) + 1,
         strings' = [strings EXCEPT ![nextString] = MyKey(t)],
         reg' = [reg EXCEPT ![t].word = nextString],
         NGoto(t, "number"),
         UNCHANGED <<words, toInt, nextType, todo, answers>>
  PROVE  NameInv'
<1>1. NTyped /\ TypesInv /\ SlotsInv /\ CreatedInv /\ ThreadInv(t) /\ HasCall(t)
  BY DEF NameInv, ThreadInv
<1>2. MyKey(t) \in Names /\ Len(MyKey(t)) \in Nat
  BY <1>1, CallTyped, KeyIsSequence
<1>3. nextString \in Places /\ nextString \in 0 .. MaxNames
  BY <1>1, <1>2, Fields, Sizes DEF Places
<1>4. /\ strings' \in [0 .. MaxNames -> Names \cup {<< >>}]
      /\ strings'[nextString] = MyKey(t)
      /\ \A p \in 0 .. MaxNames : p # nextString => strings'[p] = strings[p]
  BY <1>1, <1>2, <1>3 DEF NTyped
<1>5. /\ reg' \in [Threads -> [index : Slots, init : Slots, word : {MARKER, 0} \cup Places]]
      /\ reg'[t].index = reg[t].index /\ reg'[t].init = reg[t].init
      /\ reg'[t].word = nextString
      /\ \A u \in Threads \ {t} : reg'[u] = reg[u]
  BY <1>1, <1>3 DEF NTyped
<1>6. /\ npc' \in [Threads -> NLabels]
      /\ npc'[t] = "number"
      /\ \A u \in Threads \ {t} : npc'[u] = npc[u]
  BY <1>1 DEF NGoto, NTyped, NLabels
<1>7. nextString' \in Nat \ {0} /\ nextString < nextString'
  BY <1>1, <1>2, Fields
<1>8. NTyped'
  <2>1. \A p \in 0 .. MaxNames : p + Len(strings'[p]) < MaxNames \/ strings'[p] = << >>
    BY <1>1, <1>4 DEF NTyped
  <2>2. QED
    BY <1>1, <1>4, <1>5, <1>6, <1>7, <2>1, Zenon DEF NTyped, Names, Places
<1>9. \A u \in Threads \ {t} : Same(u)
  BY <1>5, <1>6 DEF Same
<1>10. \A p \in Places : p < nextString => strings'[p] = strings[p]
  BY <1>1, <1>4, Fields, Sizes DEF Places
<1>11. \A u \in Threads \ {t} : HeldStays(u)
  BY <1>10, UsedPlaces DEF HeldStays
<1>12. MyKey(t)' = MyKey(t) /\ (HasCall(t)' <=> HasCall(t)) /\ Passed(t)' = Passed(t)
  BY <1>5 DEF MyKey, HasCall, Call, Passed
<1>13. PassesOthers(t)
  BY <1>12 DEF PassesOthers
<1>14. ASSUME NEW j \in TypeIndices, Named(j)
       PROVE  strings'[words[j]] = strings[words[j]]
  <2>1. words[j] < nextString
    BY <1>1, <1>14 DEF TypesInv
  <2>2. words[j] \in Places
    <3>1. words[j] \in {MARKER, 0} \cup Places /\ words[j] # MARKER
      BY <1>1, SlotWords DEF NTyped
    <3>2. QED
      BY <3>1, <1>14 DEF Named
  <2>3. QED
    BY <2>1, <2>2, <1>10
<1>15. TableGrows
  <2>1. nextString <= nextString' /\ nextType <= nextType'
    BY <1>1, <1>7, Fields
  <2>2. QED
    BY <2>1, <1>14, Zenon DEF TableGrows
<1>16. Unnamed(t) /\ Creating(t) /\ Holding(t) /\ Unnamed(t)' /\ Creating(t)' /\ Holding(t)'
  BY <1>6 DEF Unnamed, Creating, Holding
<1>17. HomesStay(t)
  BY <1>5, <1>16, Zenon DEF HomesStay, HomeOf
<1>18. \A j \in TypeIndices : Named(j)' => Named(j)
  BY DEF Named
<1>19. StepOf(t)
  BY <1>9, <1>11, <1>13, <1>15, <1>17, <1>18, Zenon DEF StepOf, NamesMine
<1>20. TypesInv'
  BY <1>1, <1>8, <1>18, <1>19, TypesStay
<1>21. SlotsInv'
  BY <1>1 DEF SlotsInv
<1>22. CreatedInv'
  <2>1. \A key \in Names : Created(key)' = Created(key)
    BY Zenon DEF Created, AnswersFor
  <2>2. QED
    BY <1>1, <1>6, <1>18, <1>19, <2>1, CreatedStays
<1>23. /\ MyKey(t)' = MyKey(t)
       /\ HasCall(t)'
       /\ reg'[t].init = Start(MyKey(t))'
       /\ \A s \in Passed(t)' : words'[From(s)] # 0
       /\ words'[From(reg'[t].index)] = MARKER
       /\ Reached(MyKey(t), reg[t].index)'
       /\ \A u \in Threads : u # t =>
            /\ Holding(u)' => reg'[t].index # reg'[u].index
            /\ Creating(u)' => MyKey(t)' # MyKey(u)'
  BY <1>5, <1>6, <1>16, <1>19, CreatorStays
<1>24. ThreadInv(t)'
  <2>1. reg'[t].word \in Places /\ reg'[t].word < nextString' /\ strings'[reg'[t].word] = MyKey(t)'
    BY <1>3, <1>4, <1>5, <1>7, <1>12
  <2>2. ASSUME NEW j \in TypeIndices, Named(j)'
        PROVE  NameOf(j)' # MyKey(t)'
    <3>1. Named(j) /\ NameOf(j)' = NameOf(j)
      BY <2>2, <1>14 DEF Named, NameOf
    <3>2. QED
      BY <3>1, <1>1, <1>12, <1>16, Zenon DEF ThreadInv
  <2>3. QED
    BY <1>6, <1>23, <2>1, <2>2, Zenon DEF ThreadInv, Places
<1>25. \A u \in Threads : u # t => PairInv(t, u)'
  BY <1>6, <1>23, Zenon DEF PairInv
<1>26. QED
  BY <1>8, <1>19, <1>20, <1>21, <1>22, <1>24, <1>25, StepKeeps

\* Room for the string, or failure.
LEMMA TakeStringKeeps ==
  ASSUME NameInv, NEW t \in Threads, TakeString(t)
  PROVE  NameInv'
<1>1. npc[t] = "store" /\ nextString' = nextString + Len(MyKey(t)) + 1
  BY DEF TakeString
<1>2. UNCHANGED <<words, toInt, nextType, todo>>
  BY DEF TakeString
<1>3. NTyped /\ HasCall(t)
  BY <1>1 DEF NameInv, ThreadInv
<1>4. Len(MyKey(t)) \in Nat /\ nextString \in Nat /\ nextString > 0 /\ MaxNames \in Int
  BY <1>3, CallTyped, KeyIsSequence, Fields, Sizes
<1>5. CASE /\ NoRoom(nextString, Len(MyKey(t)))
           /\ Answer(t, -1, IntMax)
           /\ UNCHANGED <<strings, reg>>
  <2>1. nextString' \in Nat \ {0} /\ nextString <= nextString'
    BY <1>1, <1>4
  <2>2. QED
    BY <1>1, <1>2, <1>5, <2>1, NoRoomKeeps
<1>6. CASE /\ ~NoRoom(nextString, Len(MyKey(t)))
           /\ strings' = [strings EXCEPT ![nextString] = MyKey(t)]
           /\ reg' = [reg EXCEPT ![t].word = nextString]
           /\ NGoto(t, "number")
           /\ UNCHANGED answers
  <2>1. nextString + Len(MyKey(t)) < MaxNames
    BY <1>4, <1>6 DEF NoRoom
  <2>2. QED
    BY <1>1, <1>2, <1>6, <2>1, StoreKeeps
<1>7. QED
  BY <1>5, <1>6 DEF TakeString

\* fetch_add gives a type that no other name has.
LEMMA TakeTypeKeeps ==
  ASSUME NameInv, nextType' <= MaxTypes, NEW t \in Threads, TakeType(t)
  PROVE  NameInv'
<1> DEFINE i == reg[t].index
<1>1. NTyped /\ TypesInv /\ SlotsInv /\ CreatedInv /\ ThreadInv(t)
  BY DEF NameInv
<1>2. /\ npc[t] = "number"
      /\ nextType' = nextType + 1
      /\ UNCHANGED <<words, strings, nextString, todo, answers, reg>>
  BY DEF TakeType
<1>3. i \in Slots /\ nextType \in TypeIndices
  <2>1. nextType \in 0 .. MaxTypes
    BY <1>1 DEF NTyped
  <2>2. QED
    BY <1>1, <1>2, <2>1, Fields, Sizes DEF TypeIndices
<1>4. /\ toInt' \in [Slots -> TypeIndices]
      /\ toInt'[i] = nextType
      /\ \A s \in Slots : s # i => toInt'[s] = toInt[s]
  <2>1. toInt' = [toInt EXCEPT ![i] = nextType]
    BY DEF TakeType
  <2>2. QED
    BY <1>1, <1>3, <2>1 DEF NTyped
<1>5. /\ npc' \in [Threads -> NLabels]
      /\ npc'[t] = "name"
      /\ \A u \in Threads \ {t} : npc'[u] = npc[u]
  BY <1>1 DEF TakeType, NGoto, NTyped, NLabels
<1> HIDE DEF i
<1>6. NTyped'
  <2>1. nextType' \in 0 .. MaxTypes
    BY <1>2, <1>3, Sizes DEF TypeIndices
  <2>2. QED
    BY <1>1, <1>2, <1>4, <1>5, <2>1, Zenon DEF NTyped, Names, Places
<1>7. \A u \in Threads \ {t} : Same(u)
  BY <1>2, <1>5 DEF Same
<1>8. Unnamed(t) /\ Creating(t) /\ Holding(t) /\ Unnamed(t)' /\ Creating(t)' /\ Holding(t)'
  BY <1>2, <1>5 DEF Unnamed, Creating, Holding
<1>9. ASSUME NEW u \in Threads, u # t, Holding(u)
      PROVE  toInt'[reg[u].index] = toInt[reg[u].index]
  <2>1. PairInv(t, u) /\ reg[u].index \in Slots
    BY <1>1, <1>9, Fields DEF NameInv
  <2>2. QED
    BY <2>1, <1>4, <1>8, <1>9 DEF PairInv, i
<1>10. \A u \in Threads \ {t} : HeldStays(u)
  BY <1>2, <1>9 DEF HeldStays
<1>11. MyKey(t)' = MyKey(t) /\ Passed(t)' = Passed(t)
  BY <1>2 DEF MyKey, Call, Passed
<1>12. PassesOthers(t)
  BY <1>2, <1>11 DEF PassesOthers
<1>13. TableGrows
  <2>1. nextString <= nextString' /\ nextType <= nextType'
    BY <1>1, <1>2, Fields
  <2>2. QED
    BY <1>2, <2>1 DEF TableGrows
<1>14. HomesStay(t)
  <2> SUFFICES ASSUME NEW j \in TypeIndices, NEW s \in Slots, Named(j), HomeOf(j, s)
               PROVE  toInt'[s] = toInt[s] /\ words[From(s)] \in {MARKER, words[j]} /\ i # s
    BY <1>2, Zenon DEF HomesStay, i
  <2>1. i # s
    BY <1>8 DEF HomeOf, i
  <2>2. QED
    BY <2>1, <1>4 DEF HomeOf
<1>15. \A j \in TypeIndices : Named(j)' => Named(j)
  BY <1>2 DEF Named
<1>16. StepOf(t)
  BY <1>2, <1>7, <1>10, <1>12, <1>13, <1>14, <1>15, Zenon DEF StepOf, NamesMine
<1>17. TypesInv'
  BY <1>1, <1>6, <1>15, <1>16, TypesStay
<1>18. SlotsInv'
  <2> SUFFICES ASSUME NEW s \in Slots, words[From(s)] \in Places
               PROVE  words[toInt'[s]] = words[From(s)]
    BY <1>2 DEF SlotsInv, Places
  <2>1. words[From(i)] = MARKER
    BY <1>8, HeldSlot DEF i
  <2>2. s # i
    BY <2>1, Sizes DEF Places, MARKER
  <2>3. QED
    BY <1>1, <1>4, <2>2 DEF SlotsInv
<1>19. CreatedInv'
  <2>1. \A key \in Names : Created(key)' = Created(key)
    BY <1>2, Zenon DEF Created, AnswersFor
  <2>2. QED
    BY <1>1, <1>2, <1>5, <1>15, <1>16, <2>1, CreatedStays
<1>20. /\ MyKey(t)' = MyKey(t)
       /\ HasCall(t)'
       /\ reg'[t].init = Start(MyKey(t))'
       /\ \A s \in Passed(t)' : words'[From(s)] # 0
       /\ words'[From(reg'[t].index)] = MARKER
       /\ Reached(MyKey(t), reg[t].index)'
       /\ \A u \in Threads : u # t =>
            /\ Holding(u)' => reg'[t].index # reg'[u].index
            /\ Creating(u)' => MyKey(t)' # MyKey(u)'
  BY <1>2, <1>5, <1>8, <1>16, CreatorStays
<1>21. ThreadInv(t)'
  <2>1. reg'[t].word \in Places /\ reg'[t].word < nextString' /\ strings'[reg'[t].word] = MyKey(t)'
    BY <1>1, <1>2, <1>11 DEF ThreadInv
  <2>2. ASSUME NEW j \in TypeIndices, Named(j)'
        PROVE  NameOf(j)' # MyKey(t)'
    <3>1. Named(j) /\ NameOf(j)' = NameOf(j)
      BY <2>2, <1>2 DEF Named, NameOf
    <3>2. QED
      BY <3>1, <1>1, <1>2, <1>8, <1>11, Zenon DEF ThreadInv
  <2>3. toInt'[reg'[t].index] < nextType' /\ words'[toInt'[reg'[t].index]] = 0
    <3>1. toInt'[reg'[t].index] = nextType
      BY <1>2, <1>4 DEF i
    <3>2. ~Named(nextType)
      BY <1>1, <1>3, Fields DEF TypesInv
    <3>3. nextType < nextType'
      BY <1>1, <1>2, Fields
    <3>4. QED
      BY <1>2, <3>1, <3>2, <3>3 DEF Named
  <2>4. QED
    BY <1>5, <1>20, <2>1, <2>2, <2>3, Zenon DEF ThreadInv, Places
<1>22. ASSUME NEW u \in Threads, u # t
       PROVE  PairInv(t, u)'
  <2>1. npc'[u] = "name" => toInt'[reg'[t].index] # toInt'[reg'[u].index]
    <3> SUFFICES ASSUME npc[u] = "name"
                 PROVE  nextType # toInt'[reg[u].index]
      BY <1>2, <1>4, <1>5, <1>22 DEF i
    <3>1. Holding(u)
      BY DEF Holding, Creating, Unnamed
    <3>2. toInt[reg[u].index] < nextType
      BY Zenon DEF NameInv, ThreadInv
    <3>3. QED
      BY <3>1, <3>2, <1>1, <1>9, <1>22, Fields
  <2>2. QED
    BY <2>1, <1>20, <1>22, Zenon DEF PairInv
<1>23. QED
  BY <1>6, <1>16, <1>17, <1>18, <1>19, <1>21, <1>22, StepKeeps

\* What to_name[to_int[index]] = place changes.
LEMMA NameWritten ==
  ASSUME NameInv, NEW t \in Threads, SetToName(t)
  PROVE  LET n == toInt[reg[t].index] IN
         /\ n \in TypeIndices /\ words[n] = 0 /\ n < nextType
         /\ words'[n] = reg[t].word /\ reg[t].word \in Places /\ reg[t].word < nextString
         /\ strings[reg[t].word] = MyKey(t)
         /\ \A j \in TypeIndices : j # n => words'[j] = words[j]
         /\ \A s \in Slots : words'[From(s)] = words[From(s)]
         /\ words' \in [0 .. 3 * MaxTypes - 1 -> {MARKER, 0} \cup Places]
         /\ \A j \in TypeIndices : words'[j] # MARKER
<1> DEFINE n == toInt[reg[t].index]
<1>1. npc[t] = "name" /\ NTyped /\ ThreadInv(t)
  BY DEF SetToName, NameInv
<1>2. n \in TypeIndices /\ words[n] = 0 /\ n < nextType
  BY <1>1, Fields DEF ThreadInv
<1>3. reg[t].word \in Places /\ reg[t].word < nextString /\ strings[reg[t].word] = MyKey(t)
  BY <1>1 DEF ThreadInv
<1>4. words' = [words EXCEPT ![n] = reg[t].word]
  BY DEF SetToName
<1>5. words \in [0 .. 3 * MaxTypes - 1 -> {MARKER, 0} \cup Places]
  BY <1>1 DEF NTyped
<1> HIDE DEF n
<1>6. n \in 0 .. 3 * MaxTypes - 1
  BY <1>2, SlotWords
<1>7. words' \in [0 .. 3 * MaxTypes - 1 -> {MARKER, 0} \cup Places] /\ words'[n] = reg[t].word
  BY <1>3, <1>4, <1>5, <1>6
<1>8. ASSUME NEW j \in TypeIndices, j # n
      PROVE  words'[j] = words[j]
  BY <1>4, <1>5, <1>8, SlotWords
<1>9. ASSUME NEW s \in Slots
      PROVE  words'[From(s)] = words[From(s)]
  <2>1. From(s) \in 0 .. 3 * MaxTypes - 1 /\ From(s) # n
    BY <1>2, SlotWords
  <2>2. QED
    BY <1>4, <1>5, <2>1
<1>10. reg[t].word # MARKER
  BY <1>3, Sizes DEF Places, MARKER
<1>11. \A j \in TypeIndices : words'[j] # MARKER
  BY <1>1, <1>7, <1>8, <1>10 DEF NTyped
<1>12. QED
  BY <1>2, <1>3, <1>7, <1>8, <1>9, <1>11 DEF n

\* A type is given its name.
LEMMA SetToNameKeeps ==
  ASSUME NameInv, NEW t \in Threads, SetToName(t)
  PROVE  NameInv'
<1> DEFINE i == reg[t].index
<1>1. NTyped /\ TypesInv /\ SlotsInv /\ CreatedInv /\ ThreadInv(t)
  BY DEF NameInv
<1>2. npc[t] = "name" /\ UNCHANGED <<toInt, strings, nextString, nextType, todo, answers, reg>>
  BY DEF SetToName
<1> PICK n : n = toInt[reg[t].index]
  OBVIOUS
<1>3. /\ n \in TypeIndices /\ words[n] = 0 /\ n < nextType
      /\ words'[n] = reg[t].word /\ reg[t].word \in Places /\ reg[t].word < nextString
      /\ strings[reg[t].word] = MyKey(t)
      /\ \A j \in TypeIndices : j # n => words'[j] = words[j]
      /\ \A s \in Slots : words'[From(s)] = words[From(s)]
      /\ words' \in [0 .. 3 * MaxTypes - 1 -> {MARKER, 0} \cup Places]
      /\ \A j \in TypeIndices : words'[j] # MARKER
  BY NameWritten
<1>4. /\ npc' \in [Threads -> NLabels]
      /\ npc'[t] = "publish"
      /\ \A u \in Threads \ {t} : npc'[u] = npc[u]
  BY <1>1 DEF SetToName, NGoto, NTyped, NLabels
<1>5. i \in Slots
  BY <1>1, Fields
<1>6. toInt[i] = n
  OBVIOUS
<1>7. NTyped'
  BY <1>1, <1>2, <1>3, <1>4, Zenon DEF NTyped, Names, Places
<1>8. \A u \in Threads \ {t} : Same(u)
  BY <1>2, <1>4 DEF Same
<1>9. Unnamed(t) /\ Creating(t) /\ Holding(t) /\ ~Unnamed(t)' /\ Creating(t)' /\ Holding(t)'
  BY <1>2, <1>4 DEF Unnamed, Creating, Holding
<1>10. ASSUME NEW u \in Threads, u # t, Holding(u), npc[u] \notin {"store", "number"}
       PROVE  words'[toInt[reg[u].index]] = words[toInt[reg[u].index]]
  <2>1. ThreadInv(u) /\ PairInv(t, u) /\ npc[u] # "idle"
    BY <1>10, HeldSlot DEF NameInv
  <2>2. toInt[reg[u].index] \in TypeIndices
    BY <1>1, Fields
  <2>3. CASE npc[u] = "name"
    BY <2>1, <2>2, <2>3, <1>2, <1>3, <1>6 DEF PairInv
  <2>4. CASE npc[u] # "name"
    <3>1. words[toInt[reg[u].index]] = reg[u].word /\ reg[u].word \in Places
      BY <2>1, <2>4, <1>10, Zenon DEF ThreadInv, Holding, Creating, Unnamed
    <3>2. reg[u].word # 0
      BY <3>1, Sizes DEF Places
    <3>3. QED
      BY <2>2, <3>1, <3>2, <1>3
  <2>5. QED
    BY <2>3, <2>4
<1>11. \A u \in Threads \ {t} : HeldStays(u)
  <2> SUFFICES ASSUME NEW u \in Threads, u # t, Holding(u)
               PROVE  words'[From(reg[u].index)] = words[From(reg[u].index)]
    BY <1>2, <1>10, Zenon DEF HeldStays
  <2>1. QED
    BY <1>1, <1>3, Fields
<1>12. MyKey(t)' = MyKey(t) /\ Passed(t)' = Passed(t)
  BY <1>2 DEF MyKey, Call, Passed
<1>13. PassesOthers(t)
  BY <1>2, <1>12 DEF PassesOthers
<1>14. \A j \in TypeIndices : Named(j) => words'[j] = words[j]
  BY <1>3 DEF Named
<1>15. TableGrows
  <2>1. nextString <= nextString' /\ nextType <= nextType'
    BY <1>1, <1>2, Fields
  <2>2. QED
    BY <1>2, <1>3, <1>14, <2>1 DEF TableGrows
<1>16. HomesStay(t)
  BY <1>2, <1>3, <1>9, Zenon DEF HomesStay, HomeOf
<1>17. Named(n)' /\ NameOf(n)' = MyKey(t)
  <2>1. reg[t].word # 0
    BY <1>3, Sizes DEF Places
  <2>2. QED
    BY <2>1, <1>2, <1>3 DEF Named, NameOf
<1>18. StepOf(t)
  <2>1. NamesMine(t)
    BY <1>3, <1>9, <1>17 DEF NamesMine, Named
  <2>2. QED
    BY <1>2, <1>8, <1>11, <1>13, <1>15, <1>16, <2>1 DEF StepOf
<1>19. /\ MyKey(t)' = MyKey(t)
       /\ HasCall(t)'
       /\ reg'[t].init = Start(MyKey(t))'
       /\ \A s \in Passed(t)' : words'[From(s)] # 0
       /\ words'[From(reg'[t].index)] = MARKER
       /\ Reached(MyKey(t), reg[t].index)'
       /\ \A u \in Threads : u # t =>
            /\ Holding(u)' => reg'[t].index # reg'[u].index
            /\ Creating(u)' => MyKey(t)' # MyKey(u)'
  BY <1>2, <1>3, <1>4, <1>5, <1>9, <1>18, CreatorStays
<1>20. \A j \in TypeIndices : Named(j) => Named(j)' /\ NameOf(j)' = NameOf(j)
  BY <1>2, <1>14 DEF Named, NameOf
<1>21. \A j \in TypeIndices : Named(j)' => Named(j) \/ j = n
  BY <1>3 DEF Named
<1>22. \A j \in TypeIndices : Named(j) => NameOf(j) # MyKey(t)
  BY <1>1, <1>2, <1>9, Zenon DEF ThreadInv
<1>23. HomeOf(n, i)'
  <2>1. toInt'[i'] = n /\ words'[From(i')] \in {MARKER, words'[n]}
    BY <1>2, <1>6, <1>19
  <2>2. Reached(NameOf(n), i)'
    BY <1>17, <1>19, Zenon
  <2>3. ASSUME NEW u \in Threads, Unnamed(u)'
        PROVE  reg'[u].index # i'
    <3>1. u # t /\ Holding(u)'
      BY <1>9, <2>3 DEF Holding, Creating
    <3>2. QED
      BY <3>1, <1>19
  <2>4. QED
    BY <2>1, <2>2, <2>3, Zenon DEF HomeOf
<1>24. TypesInv'
  <2> SUFFICES ASSUME NEW j \in TypeIndices, Named(j)'
               PROVE  /\ words'[j] < nextString
                      /\ j < nextType
                      /\ NameOf(j)' \in Keys'
                      /\ \A l \in TypeIndices : Named(l)' /\ NameOf(l)' = NameOf(j)' => l = j
                      /\ \E s \in Slots : HomeOf(j, s)'
    BY <1>2, Zenon DEF TypesInv
  <2>1. Keys' = Keys
    BY <1>2 DEF Keys
  <2>2. CASE j = n
    <3>1. words'[j] < nextString /\ j < nextType
      BY <2>2, <1>3
    <3>2. NameOf(j)' \in Keys'
      BY <2>1, <2>2, <1>1, <1>2, <1>17, CallTyped DEF ThreadInv
    <3>3. \A l \in TypeIndices : Named(l)' /\ NameOf(l)' = NameOf(j)' => l = j
      BY <2>2, <1>17, <1>20, <1>21, <1>22, Zenon
    <3>4. \E s \in Slots : HomeOf(j, s)'
      <4>1. PICK s \in Slots : s = i
        BY <1>5
      <4>2. i' = i
        BY <1>2
      <4>3. HomeOf(n, s)'
        BY <1>23, <4>1, <4>2
      <4>4. QED
        BY <4>3, <2>2
    <3>5. QED
      BY <3>1, <3>2, <3>3, <3>4
  <2>3. CASE j # n
    <3>1. Named(j) /\ words'[j] = words[j] /\ NameOf(j)' = NameOf(j)
      BY <2>3, <1>14, <1>20, <1>21
    <3>2. words'[j] < nextString /\ j < nextType /\ NameOf(j)' \in Keys'
      BY <2>1, <3>1, <1>1 DEF TypesInv
    <3>3. \A l \in TypeIndices : Named(l)' /\ NameOf(l)' = NameOf(j)' => l = j
      BY <3>1, <1>1, <1>17, <1>20, <1>21, <1>22, Zenon DEF TypesInv
    <3>4. \E s \in Slots : HomeOf(j, s)'
      BY <3>1, <1>1, <1>18, HomeStays, Zenon DEF TypesInv
    <3>5. QED
      BY <3>2, <3>3, <3>4
  <2>4. QED
    BY <2>2, <2>3
<1>25. SlotsInv'
  <2> SUFFICES ASSUME NEW s \in Slots, words'[From(s)] \in Places
               PROVE  words'[toInt[s]] = words'[From(s)]
    BY <1>2 DEF SlotsInv, Places
  <2>1. words[toInt[s]] = words[From(s)] /\ words[From(s)] \in Places /\ toInt[s] \in TypeIndices
    BY <1>1, <1>3, Fields DEF SlotsInv
  <2>2. words[toInt[s]] # 0
    BY <2>1, Sizes DEF Places
  <2>3. QED
    BY <2>1, <2>2, <1>3
<1>26. ThreadInv(t)'
  <2>1. reg'[t].word \in Places /\ reg'[t].word < nextString' /\ strings'[reg'[t].word] = MyKey(t)'
    BY <1>2, <1>3, <1>12
  <2>2. words'[toInt'[reg'[t].index]] = reg'[t].word
    BY <1>2, <1>3, <1>6
  <2>3. QED
    BY <1>4, <1>9, <1>19, <2>1, <2>2, Zenon DEF ThreadInv, Places
<1>27. \A u \in Threads : u # t => PairInv(t, u)'
  BY <1>4, <1>19, Zenon DEF PairInv
<1>28. CreatedInv'
  <2> SUFFICES ASSUME NEW key \in Names
               PROVE  /\ \A c, d \in Created(key)' : c = d
                      /\ Created(key)' # {} => \E j \in TypeIndices : Named(j)' /\ NameOf(j)' = key
                      /\ \A u \in Threads : npc'[u] = "publish" /\ MyKey(u)' = key => Created(key)' = {}
                      /\ (\E j \in TypeIndices : Named(j)' /\ NameOf(j)' = key) =>
                           \/ Created(key)' # {}
                           \/ \E u \in Threads : npc'[u] = "publish" /\ MyKey(u)' = key
    BY Zenon DEF CreatedInv
  <2>1. Created(key)' = Created(key)
    BY <1>2, Zenon DEF Created, AnswersFor
  <2>2. \A c, d \in Created(key)' : c = d
    BY <2>1, <1>1 DEF CreatedInv
  <2>3. Created(key)' # {} => \E j \in TypeIndices : Named(j)' /\ NameOf(j)' = key
    BY <2>1, <1>1, <1>20, Zenon DEF CreatedInv
  <2>4. ASSUME NEW u \in Threads, u # t
        PROVE  npc'[u] = npc[u] /\ MyKey(u)' = MyKey(u)
    BY <2>4, <1>2, <1>8, SameViews DEF Same
  <2>5. MyKey(t) = key => Created(key)' = {}
    BY <2>1, <1>1, <1>22, Zenon DEF CreatedInv
  <2>6. \A u \in Threads : npc'[u] = "publish" /\ MyKey(u)' = key => Created(key)' = {}
    <3>1. ASSUME NEW u \in Threads, u # t, npc'[u] = "publish", MyKey(u)' = key
          PROVE  Created(key)' = {}
      <4>1. npc[u] = "publish" /\ MyKey(u) = key
        BY <2>4, <3>1, Zenon
      <4> QED
        BY <2>1, <4>1, <1>1, Zenon DEF CreatedInv
    <3>2. MyKey(t)' = key => Created(key)' = {}
      BY <2>5, <1>12, Zenon
    <3> QED
      BY <3>1, <3>2, Zenon
  <2>7. ASSUME NEW j \in TypeIndices, Named(j)', NameOf(j)' = key
        PROVE  \/ Created(key)' # {}
               \/ \E u \in Threads : npc'[u] = "publish" /\ MyKey(u)' = key
    <3>1. CASE j = n
      BY <2>7, <3>1, <1>4, <1>12, <1>17
    <3>2. CASE j # n
      <4>1. Named(j) /\ NameOf(j) = key
        BY <2>7, <3>2, <1>20, <1>21
      <4>2. Created(key) # {} \/ \E u \in Threads : npc[u] = "publish" /\ MyKey(u) = key
        BY <4>1, <1>1, Zenon DEF CreatedInv
      <4>3. QED
        BY <4>2, <2>1, <2>4, <1>2, Zenon
    <3>3. QED
      BY <3>1, <3>2
  <2>8. QED
    BY <2>2, <2>3, <2>6, <2>7
<1>29. QED
  BY <1>7, <1>18, <1>24, <1>25, <1>26, <1>27, <1>28, StepKeeps

(***************************************************************************)
(* The theorems.                                                           *)
(***************************************************************************)

\* A new table has no names.
LEMMA NameInvInit ==
  ASSUME NInit
  PROVE  NameInv
<1>1. NTyped
  <2>1. todo \in Calls
    BY DEF NInit
  <2>2. words \in [0 .. 3 * MaxTypes - 1 -> {MARKER, 0} \cup Places] /\ \A j \in TypeIndices : words[j] = 0
    BY SlotWords DEF NInit
  <2>3. 0 \in TypeIndices /\ 0 \in Slots
    BY Sizes DEF TypeIndices, Slots
  <2>4. toInt \in [Slots -> TypeIndices]
    BY <2>3 DEF NInit, Slots
  <2>5. strings \in [0 .. MaxNames -> Names \cup {<< >>}] /\ \A p \in 0 .. MaxNames : strings[p] = << >>
    BY DEF NInit
  <2>6. nextString \in Nat \ {0} /\ nextType \in 0 .. MaxTypes
    BY Sizes DEF NInit
  <2>7. npc \in [Threads -> NLabels]
    BY DEF NInit, NLabels
  <2>8. reg \in [Threads -> [index : Slots, init : Slots, word : {MARKER, 0} \cup Places]]
    BY <2>3 DEF NInit
  <2>9. answers \in [Threads -> Seq(Abstract!Answer)]
    BY DEF NInit
  <2>10. \A j \in TypeIndices : words[j] # MARKER
    BY <2>2 DEF MARKER
  <2>11. QED
    BY <2>1, <2>2, <2>4, <2>5, <2>6, <2>7, <2>8, <2>9, <2>10, Zenon DEF NTyped
<1>2. \A j \in TypeIndices : ~Named(j)
  BY SlotWords DEF NInit, Named
<1>3. TypesInv
  BY <1>2, Zenon DEF TypesInv
<1>4. SlotsInv
  <2>1. \A i \in Slots : words[From(i)] = 0
    BY SlotWords DEF NInit
  <2>2. 0 \notin Places
    BY Sizes DEF Places
  <2>3. QED
    BY <2>1, <2>2 DEF SlotsInv
<1>5. \A t \in Threads : npc[t] = "idle"
  BY DEF NInit
<1>6. \A t \in Threads : ThreadInv(t)
  BY <1>5, Zenon DEF ThreadInv
<1>7. \A t, u \in Threads : PairInv(t, u)
  BY <1>5 DEF PairInv, Holding, Creating, Unnamed
<1>8. CreatedInv
  <2>1. ASSUME NEW key \in Names
        PROVE  Created(key) = {}
    <3>1. \A t \in Threads : DOMAIN answers[t] = {}
      <4>1. \A t \in Threads : answers[t] = << >>
        BY DEF NInit
      <4>2. DOMAIN << >> = {}
        OBVIOUS
      <4>3. QED
        BY <4>1, <4>2, Zenon
    <3>2. QED
      BY <3>1, CallsOf, Zenon DEF Created, AnswersFor
  <2>2. QED
    BY <1>2, <1>5, <2>1 DEF CreatedInv
<1>9. QED
  BY <1>1, <1>3, <1>4, <1>6, <1>7, <1>8, Zenon DEF NameInv

\* Every step within the limits keeps the invariant.
LEMMA NameInvStep ==
  ASSUME NameInv, WithinLimits, nextType' <= MaxTypes, NEW t \in Threads, NStep(t)
  PROVE  NameInv'
BY BeginKeeps, LookupKeeps, ProbeKeeps, ClaimKeeps, UnlockKeeps, WrongUnlockKeeps, TakeStringKeeps,
   TakeTypeKeeps, SetToNameKeeps, PublishKeeps, Zenon DEF NStep

\* A step leaves the names of the calls alone and takes back no type.
LEMMA LimitsAreFinal ==
  ASSUME nextType \in Nat, [NNext]_nvars
  PROVE  nextType' \in Nat /\ nextType <= nextType' /\ todo' = todo
<1>1. CASE UNCHANGED nvars
  BY <1>1 DEF nvars, table
<1>2. ASSUME NEW t \in Threads, NStep(t)
      PROVE  nextType' \in Nat /\ nextType <= nextType' /\ todo' = todo
  <2>1. CASE TakeType(t)
    BY <2>1 DEF TakeType
  <2>2. CASE Begin(t) \/ Lookup(t) \/ Probe(t) \/ WrongUnlock(t)
    BY <2>2 DEF Begin, Lookup, Probe, WrongUnlock, table
  <2>3. CASE Claim(t) \/ Unlock(t) \/ TakeString(t) \/ SetToName(t) \/ Publish(t)
    BY <2>3 DEF Claim, Unlock, TakeString, SetToName, Publish
  <2>4. QED
    BY <1>2, <2>1, <2>2, <2>3 DEF NStep
<1>3. QED
  BY <1>1, <1>2 DEF NNext, NDone

\* As long as a table of names is used within its limits, its slots, its types
\* and what every thread in stinger_names_create_type or
\* stinger_names_lookup_type knows stay in order.
THEOREM TableInvariant == NSpec => []TableInv
<1>1. NInit => TableInv
  BY NameInvInit DEF TableInv, NInit
<1>2. TableInv /\ [NNext]_nvars => TableInv'
  <2> SUFFICES ASSUME TableInv, [NNext]_nvars
               PROVE  TableInv'
    OBVIOUS
  <2>1. nextType \in Nat /\ nextType' \in Nat /\ nextType <= nextType' /\ todo' = todo
    BY LimitsAreFinal DEF TableInv
  <2>2. ASSUME WithinLimits'
        PROVE  NameInv'
    <3>1. nextType' <= MaxTypes
      BY <2>2 DEF WithinLimits
    <3>2. Keys' = Keys
      BY <2>1 DEF Keys
    <3>3. nextType <= MaxTypes
      BY <2>1, <3>1, Sizes
    <3>4. WithinLimits
      BY <2>2, <3>2, <3>3 DEF WithinLimits
    <3>5. NameInv
      BY <3>4 DEF TableInv
    <3>6. CASE UNCHANGED nvars
      <4>1. UNCHANGED <<words, toInt, strings, nextString, nextType, todo, answers, npc, reg>>
        BY <3>6 DEF nvars, table
      <4>2. NTyped'
        BY <4>1, <3>5, Zenon DEF NameInv, NTyped, Names, Places
      <4>3. TypesInv' /\ SlotsInv'
        <5>1. \A t \in Threads : /\ MyKey(t)' = MyKey(t) /\ Passed(t)' = Passed(t)
                                 /\ Unnamed(t)' <=> Unnamed(t)
          BY <4>1, SameViews DEF Same
        <5>2. \A j : (Named(j)' <=> Named(j)) /\ NameOf(j)' = NameOf(j)
          BY <4>1, Zenon DEF Named, NameOf
        <5>3. \A key, i : Reached(key, i) => Reached(key, i)'
          BY <4>1, <5>1, Zenon DEF Reached
        <5>4. \A j, i : HomeOf(j, i) => HomeOf(j, i)'
          BY <4>1, <5>1, <5>2, <5>3, Zenon DEF HomeOf
        <5>5. TypesInv'
          BY <4>1, <3>2, <3>5, <5>2, <5>4, Zenon DEF NameInv, TypesInv
        <5>6. SlotsInv'
          BY <4>1, <3>5, Zenon DEF NameInv, SlotsInv, Places
        <5>7. QED
          BY <5>5, <5>6
      <4>4. ASSUME NEW t \in Threads
            PROVE  ThreadInv(t)'
        <5>1. /\ MyKey(t)' = MyKey(t) /\ Passed(t)' = Passed(t)
              /\ HasCall(t)' <=> HasCall(t)
              /\ Unnamed(t)' <=> Unnamed(t)
              /\ Creating(t)' <=> Creating(t)
              /\ Holding(t)' <=> Holding(t)
          BY <4>1, SameViews DEF Same
        <5>2. Reached(MyKey(t), reg[t].index)' <=> Reached(MyKey(t), reg[t].index)
          BY <4>1 DEF Reached, MyKey, Call, Passed
        <5>3. Matches(t, reg[t].word)' <=> Matches(t, reg[t].word)
          BY <4>1 DEF Matches, MyKey, Call
        <5>4. \A j \in TypeIndices : (Named(j)' <=> Named(j)) /\ NameOf(j)' = NameOf(j)
          BY <4>1 DEF Named, NameOf
        <5>5. ThreadInv(t)
          BY <3>5 DEF NameInv
        <5>6. QED
          BY <4>1, <5>1, <5>2, <5>3, <5>4, <5>5, Zenon DEF ThreadInv, Start, Places
      <4>5. \A t, u \in Threads : t # u => PairInv(t, u)'
        <5>1. \A t \in Threads : /\ MyKey(t)' = MyKey(t)
                                 /\ Creating(t)' <=> Creating(t)
                                 /\ Holding(t)' <=> Holding(t)
          BY <4>1, SameViews DEF Same
        <5>2. QED
          BY <4>1, <3>5, <5>1, Zenon DEF NameInv, PairInv
      <4>6. CreatedInv'
        <5>1. \A t \in Threads : MyKey(t)' = MyKey(t)
          BY <4>1, SameViews DEF Same
        <5>2. \A key : Created(key)' = Created(key)
          BY <4>1, Zenon DEF Created, AnswersFor
        <5>3. \A j : (Named(j)' <=> Named(j)) /\ NameOf(j)' = NameOf(j)
          BY <4>1, Zenon DEF Named, NameOf
        <5>4. QED
          <6> SUFFICES ASSUME NEW key \in Names
                       PROVE  /\ \A c, d \in Created(key)' : c = d
                              /\ Created(key)' # {} =>
                                   \E j \in TypeIndices : Named(j)' /\ NameOf(j)' = key
                              /\ \A t \in Threads :
                                   npc'[t] = "publish" /\ MyKey(t)' = key => Created(key)' = {}
                              /\ (\E j \in TypeIndices : Named(j)' /\ NameOf(j)' = key) =>
                                   \/ Created(key)' # {}
                                   \/ \E t \in Threads : npc'[t] = "publish" /\ MyKey(t)' = key
            BY Zenon DEF CreatedInv
          <6>1. /\ \A c, d \in Created(key) : c = d
                /\ Created(key) # {} => \E j \in TypeIndices : Named(j) /\ NameOf(j) = key
                /\ \A t \in Threads : npc[t] = "publish" /\ MyKey(t) = key => Created(key) = {}
                /\ (\E j \in TypeIndices : Named(j) /\ NameOf(j) = key) =>
                     Created(key) # {} \/ \E t \in Threads : npc[t] = "publish" /\ MyKey(t) = key
            BY <3>5, Zenon DEF NameInv, CreatedInv
          <6>2. npc' = npc
            BY <4>1, Zenon
          <6> QED
            BY <5>1, <5>2, <5>3, <6>1, <6>2, Zenon
      <4>7. QED
        BY <4>2, <4>3, <4>4, <4>5, <4>6 DEF NameInv
    <3>7. CASE \E t \in Threads : NStep(t)
      BY <3>1, <3>4, <3>5, <3>7, NameInvStep
    <3>8. QED
      BY <3>6, <3>7 DEF NNext, NDone
  <2>3. QED
    BY <2>1, <2>2 DEF TableInv
<1>3. QED
  BY <1>1, <1>2, PTL DEF NSpec

\* Whatever threads race in stinger_names_create_type and
\* stinger_names_lookup_type, the slot of every name in the table is reached by
\* all who look for it, each lock has one holder, and each name one creator.
THEOREM NamesInOrder == NSpec => [](WithinLimits => NameInv)
<1>1. TableInv => (WithinLimits => NameInv)
  BY DEF TableInv
<1>2. QED
  BY <1>1, TableInvariant, PTL

\* The types of the table, as long as it is used within its limits: a string
\* ends below max_names, and a type is an index of to_name.
THEOREM TableTyped == NSpec => [](WithinLimits => NTypeOK)
<1>1. TableInv => (WithinLimits => NTypeOK)
  <2> SUFFICES ASSUME NTyped
               PROVE  NTypeOK
    BY DEF TableInv, NameInv
  <2>1. \A t \in Threads : reg[t].index \in 0 .. NSlots - 1 /\ reg[t].init \in 0 .. NSlots - 1
    BY Fields DEF Slots
  <2>2. QED
    BY <2>1, Zenon DEF NTyped, NTypeOK, Slots, TypeIndices
<1>2. QED
  BY <1>1, TableInvariant, PTL

\* stinger_names_lookup_name gives the types that have a name.
LEMMA MapOf ==
  /\ \A j \in TypeIndices : Named(j) => <<NameOf(j), j>> \in Map
  /\ \A p \in Map : \E j \in TypeIndices : Named(j) /\ p = <<NameOf(j), j>>
BY Zenon DEF Map, TypeIndices, Named, NameOf

\* "1 if the creation was successful, 0 if a mapping already exists": however
\* many threads create a name at once, exactly one of them is told that it did.
THEOREM OneCreator == NSpec => [](WithinLimits => CreatedOnce)
<1>1. TableInv => (WithinLimits => CreatedOnce)
  <2> SUFFICES ASSUME NameInv, AllAnswered, NEW p \in Map
               PROVE  \E c \in AnswersFor(p[1]) :
                        /\ answers[c[1]][c[2]].status = 1
                        /\ \A d \in AnswersFor(p[1]) : answers[d[1]][d[2]].status = 1 => d = c
    BY Zenon DEF TableInv, CreatedOnce
  <2>1. PICK j \in TypeIndices : Named(j) /\ p = <<NameOf(j), j>>
    BY MapOf
  <2>2. p[1] = NameOf(j)
    BY <2>1
  <2>3. PICK key : key = NameOf(j)
    OBVIOUS
  <2>4. key \in Names
    BY <2>1, <2>3, KeysAreNames DEF NameInv, TypesInv
  <2>5. \A t \in Threads : npc[t] # "publish"
    BY DEF AllAnswered
  <2>6. Created(key) # {} /\ \A c, d \in Created(key) : c = d
    BY <2>1, <2>3, <2>4, <2>5 DEF NameInv, CreatedInv
  <2>7. PICK c : c \in Created(key)
    BY <2>6
  <2>8. c \in AnswersFor(p[1]) /\ answers[c[1]][c[2]].status = 1
    BY <2>2, <2>3, <2>7 DEF Created
  <2>9. ASSUME NEW d \in AnswersFor(p[1]), answers[d[1]][d[2]].status = 1
        PROVE  d = c
    <3>1. d \in Created(key)
      BY <2>2, <2>3, <2>9 DEF Created
    <3>2. QED
      BY <3>1, <2>6, <2>7
  <2>10. QED
    BY <2>8, <2>9
<1>2. QED
  BY <1>1, TableInvariant, PTL

-----------------------------------------------------------------------------
(***************************************************************************)
(* The table implements a map.                                             *)
(***************************************************************************)

\* A step that names no type and renames none leaves the map alone.
LEMMA MapStays ==
  ASSUME \A j \in TypeIndices : words'[j] = words[j],
         \A j \in TypeIndices : Named(j) => strings'[words[j]] = strings[words[j]]
  PROVE  Map' = Map
BY DEF Map, TypeIndices, Named

\* An answer that agrees with the map is a reply.
LEMMA AnswerIsReply ==
  ASSUME NTyped, NEW t \in Threads, HasCall(t), NEW status \in {-1, 0, 1},
         NEW out \in TypeIndices \cup {IntMax, -1}, Answer(t, status, out), Map' = Map,
         status >= 0 => <<MyKey(t), out>> \in Map,
         status < 0 => \A j \in TypeIndices : Named(j) => NameOf(j) # MyKey(t)
  PROVE  Abstract!Next
<1> DEFINE a == [op |-> Call(t).op, name |-> MyKey(t), status |-> status, out |-> out]
<1>1. a \in Abstract!Answer
  BY CallTyped DEF Abstract!Answer, TypeIndices
<1>2. answers' = [answers EXCEPT ![t] = Append(answers[t], a)]
  BY DEF Answer
<1>3. a.status >= 0 => <<a.name, a.out>> \in Map
  OBVIOUS
<1>4. a.status < 0 => \A p \in Map : p[1] # a.name
  BY MapOf
<1> HIDE DEF a
<1>5. Abstract!Reply(t, a)
  BY <1>2, <1>3, <1>4 DEF Abstract!Reply
<1>6. QED
  BY <1>1, <1>5 DEF Abstract!Next

\* The type that a thread reads with the slot of its name is that of its name.
LEMMA FoundInMap ==
  ASSUME NameInv, WithinLimits, NEW t \in Threads, HasCall(t), NEW place \in Places,
         words[toInt[reg[t].index]] = place, Matches(t, place)
  PROVE  <<MyKey(t), toInt[reg[t].index]>> \in Map
<1>1. NTyped /\ toInt[reg[t].index] \in TypeIndices
  BY Fields DEF NameInv
<1>2. Named(toInt[reg[t].index])
  BY Sizes DEF Named, Places
<1>3. strings[place] \in Keys
  BY <1>1, <1>2 DEF NameInv, TypesInv, NameOf
<1>4. NameOf(toInt[reg[t].index]) = MyKey(t)
  BY <1>1, <1>3, MatchIsEqual DEF NameOf
<1>5. QED
  BY <1>1, <1>2, <1>4, MapOf

\* What a step is to a user of the map.
MapStep == Abstract!Next \/ UNCHANGED <<Map, answers>>

\* A call is answered with the type of its name, or told that there is none.
LEMMA FoundMaps ==
  ASSUME NTyped, NEW t \in Threads, HasCall(t), NEW status \in {0, 1}, NEW out \in TypeIndices,
         Answer(t, status, out), Map' = Map, <<MyKey(t), out>> \in Map
  PROVE  MapStep
BY AnswerIsReply DEF MapStep

LEMMA MissMaps ==
  ASSUME NTyped, NEW t \in Threads, HasCall(t), Answer(t, -1, -1), Map' = Map,
         \A j \in TypeIndices : Named(j) => NameOf(j) # MyKey(t)
  PROVE  MapStep
BY AnswerIsReply DEF MapStep

\* Going on to the next slot, or failing after a full turn.
LEMMA AdvanceMaps ==
  ASSUME NameInv, NEW t \in Threads, npc[t] # "idle", NotTheSlot(t, reg[t].index), Advance(t),
         Map' = Map
  PROVE  MapStep
<1>1. NTyped /\ HasCall(t)
  BY DEF NameInv, ThreadInv
<1>2. CASE (reg[t].index + 1) % NSlots = reg[t].init
  <2>1. Answer(t, -1, -1)
    BY <1>2 DEF Advance
  <2>2. \A j \in TypeIndices : Named(j) => NameOf(j) # MyKey(t)
    BY <1>2, NotFound
  <2>3. QED
    BY <1>1, <2>1, <2>2, MissMaps, Zenon
<1>3. CASE (reg[t].index + 1) % NSlots # reg[t].init
  BY <1>3 DEF Advance, MapStep
<1>4. QED
  BY <1>2, <1>3

\* A slot that holds the name answers with its type.
LEMMA SlotMaps ==
  ASSUME NameInv, WithinLimits, NEW t \in Threads, npc[t] # "idle", Slot(t) # MARKER, Slot(t) # 0,
         Matches(t, Slot(t)), Answer(t, 0, toInt[reg[t].index]), Map' = Map
  PROVE  MapStep
<1>1. NTyped /\ SlotsInv /\ HasCall(t) /\ reg[t].index \in Slots
  BY Fields DEF NameInv, ThreadInv
<1>2. Slot(t) \in Places
  <2>1. Slot(t) \in {MARKER, 0} \cup Places
    BY <1>1, SlotWords DEF Slot, NTyped
  <2>2. QED
    BY <2>1
<1>3. words[toInt[reg[t].index]] = Slot(t)
  BY <1>1, <1>2 DEF SlotsInv, Slot
<1>4. <<MyKey(t), toInt[reg[t].index]>> \in Map
  BY <1>1, <1>2, <1>3, FoundInMap
<1>5. toInt[reg[t].index] \in TypeIndices
  BY <1>1, Fields
<1>6. QED
  BY <1>1, <1>4, <1>5, FoundMaps, Zenon

\* The steps that leave the table alone.
LEMMA QuietMaps ==
  ASSUME NameInv, WithinLimits, NEW t \in Threads,
         Begin(t) \/ Lookup(t) \/ Probe(t) \/ WrongUnlock(t)
  PROVE  MapStep
<1>1. UNCHANGED <<words, strings>>
  BY DEF Begin, Lookup, Probe, WrongUnlock, table
<1>2. Map' = Map
  BY <1>1, MapStays
<1>3. CASE Begin(t)
  BY <1>2, <1>3 DEF Begin, MapStep
<1>4. CASE Lookup(t)
  <2>1. npc[t] = "lookup" /\ Slot(t) # MARKER /\ NTyped /\ HasCall(t)
    BY <1>4 DEF Lookup, NameInv, ThreadInv
  <2>2. CASE Slot(t) = 0 /\ Answer(t, -1, -1)
    <3>1. \A j \in TypeIndices : Named(j) => NameOf(j) # MyKey(t)
      BY <2>1, <2>2, NotFound
    <3>2. QED
      BY <1>2, <2>1, <2>2, <3>1, AnswerIsReply DEF MapStep
  <2>3. CASE Slot(t) # 0 /\ Matches(t, Slot(t)) /\ Answer(t, 0, toInt[reg[t].index])
    BY <1>2, <2>1, <2>3, SlotMaps
  <2>4. CASE ~Matches(t, Slot(t)) /\ Advance(t)
    <3>1. NotTheSlot(t, reg[t].index)
      BY <2>1, <2>4, AnotherName
    <3>2. QED
      BY <1>2, <2>1, <2>4, <3>1, AdvanceMaps
  <2>5. QED
    BY <1>4, <2>2, <2>3, <2>4 DEF Lookup
<1>5. CASE Probe(t)
  <2>1. npc[t] = "create" /\ Slot(t) # MARKER /\ NTyped /\ HasCall(t)
    BY <1>5 DEF Probe, NameInv, ThreadInv
  <2>2. CASE UNCHANGED answers
    BY <1>2, <2>2 DEF MapStep
  <2>3. CASE Slot(t) # 0 /\ Matches(t, Slot(t)) /\ Answer(t, 0, toInt[reg[t].index])
    BY <1>2, <2>1, <2>3, SlotMaps
  <2>4. CASE ~Matches(t, Slot(t)) /\ Advance(t)
    <3>1. NotTheSlot(t, reg[t].index)
      BY <2>1, <2>4, AnotherName
    <3>2. QED
      BY <1>2, <2>1, <2>4, <3>1, AdvanceMaps
  <2>5. QED
    BY <1>5, <2>2, <2>3, <2>4 DEF Probe
<1>6. CASE WrongUnlock(t)
  <2>1. npc[t] = "wrong_unlock"
    BY <1>6 DEF WrongUnlock
  <2>2. NotTheSlot(t, reg[t].index)
    BY <2>1, AnotherName
  <2>3. CASE UNCHANGED answers
    BY <1>2, <2>3 DEF MapStep
  <2>4. CASE Advance(t)
    BY <1>2, <2>1, <2>2, <2>4, AdvanceMaps
  <2>5. QED
    BY <1>6, <2>3, <2>4 DEF WrongUnlock
<1>7. QED
  BY <1>3, <1>4, <1>5, <1>6

\* The steps that write a slot.
LEMMA SlotWritesMap ==
  ASSUME NameInv, WithinLimits, NEW t \in Threads, Claim(t) \/ Unlock(t) \/ Publish(t)
  PROVE  MapStep
<1>1. NTyped /\ reg[t].index \in Slots /\ ThreadInv(t) /\ npc[t] # "idle"
  BY Fields DEF NameInv, Claim, Unlock, Publish
<1>2. HasCall(t) /\ toInt[reg[t].index] \in TypeIndices
  BY <1>1, Fields DEF ThreadInv
<1>3. strings' = strings /\ \E w : words' = [words EXCEPT ![From(reg[t].index)] = w]
  BY DEF Claim, Unlock, Publish
<1>4. \A j \in TypeIndices : words'[j] = words[j]
  <2>1. words \in [0 .. 3 * MaxTypes - 1 -> {MARKER, 0} \cup Places]
    BY <1>1 DEF NTyped
  <2>2. \A j \in TypeIndices : j # From(reg[t].index) /\ j \in 0 .. 3 * MaxTypes - 1
    BY <1>1, SlotWords
  <2>3. QED
    BY <1>3, <2>1, <2>2
<1>5. Map' = Map
  BY <1>3, <1>4, MapStays
<1>6. CASE Claim(t)
  BY <1>5, <1>6 DEF Claim, MapStep
<1>7. CASE Unlock(t)
  <2>1. npc[t] = "unlock" /\ Answer(t, 0, toInt[reg[t].index])
    BY <1>7 DEF Unlock
  <2>2. /\ reg[t].word \in Places /\ words[toInt[reg[t].index]] = reg[t].word
        /\ Matches(t, reg[t].word)
    BY <1>1, <2>1, Zenon DEF ThreadInv
  <2>3. <<MyKey(t), toInt[reg[t].index]>> \in Map
    BY <1>2, <2>2, FoundInMap
  <2>4. QED
    BY <1>1, <1>2, <1>5, <2>1, <2>3, FoundMaps, Zenon
<1>8. CASE Publish(t)
  <2>1. npc[t] = "publish" /\ Answer(t, 1, toInt[reg[t].index])
    BY <1>8 DEF Publish
  <2>2. /\ reg[t].word \in Places /\ words[toInt[reg[t].index]] = reg[t].word
        /\ strings[reg[t].word] = MyKey(t)
    BY <1>1, <2>1, Zenon DEF ThreadInv
  <2>3. Named(toInt[reg[t].index]) /\ NameOf(toInt[reg[t].index]) = MyKey(t)
    BY <2>2, PlaceInUse DEF Named, NameOf
  <2>4. <<MyKey(t), toInt[reg[t].index]>> \in Map
    BY <1>2, <2>3, MapOf
  <2>5. QED
    BY <1>1, <1>2, <1>5, <2>1, <2>4, FoundMaps, Zenon
<1>9. QED
  BY <1>6, <1>7, <1>8

\* The steps that create a name before it is published.
LEMMA CreationMaps ==
  ASSUME NameInv, WithinLimits, NEW t \in Threads, TakeString(t) \/ TakeType(t) \/ SetToName(t)
  PROVE  MapStep
<1>1. NTyped /\ ThreadInv(t) /\ HasCall(t) /\ Unnamed(t) /\ npc[t] # "idle"
  BY DEF NameInv, ThreadInv, TakeString, TakeType, SetToName, Unnamed
<1>2. \A j \in TypeIndices : Named(j) => NameOf(j) # MyKey(t)
  BY <1>1 DEF ThreadInv
<1>3. CASE TakeString(t)
  <2>1. words' = words
    BY <1>3 DEF TakeString
  <2>2. ASSUME NEW j \in TypeIndices, Named(j)
        PROVE  strings'[words[j]] = strings[words[j]]
    <3>1. words[j] < nextString /\ words[j] \in Int /\ nextString \in Int
      BY <1>1, <2>2, Fields DEF NameInv, TypesInv
    <3>2. \/ strings' = strings
          \/ strings' = [strings EXCEPT ![nextString] = MyKey(t)]
      BY <1>3 DEF TakeString
    <3>3. words[j] \in 0 .. MaxNames
      <4>1. words[j] \in {MARKER, 0} \cup Places /\ words[j] # MARKER
        BY <1>1, SlotWords DEF NTyped
      <4>2. QED
        BY <4>1, <2>2, Sizes DEF Named, Places
    <3>4. strings \in [0 .. MaxNames -> Names \cup {<< >>}] /\ words[j] # nextString
      BY <3>1, <1>1 DEF NTyped
    <3>5. QED
      BY <3>2, <3>3, <3>4, Zenon
  <2>3. Map' = Map
    BY <2>1, <2>2, MapStays
  <2>4. CASE UNCHANGED answers
    BY <2>3, <2>4 DEF MapStep
  <2>5. CASE Answer(t, -1, IntMax)
    BY <1>1, <1>2, <2>3, <2>5, AnswerIsReply DEF MapStep
  <2>6. QED
    BY <1>3, <2>4, <2>5 DEF TakeString
<1>4. CASE TakeType(t)
  <2>1. UNCHANGED <<words, strings, answers>>
    BY <1>4 DEF TakeType
  <2>2. QED
    BY <2>1, MapStays DEF MapStep
<1>5. CASE SetToName(t)
  <2> PICK n : n = toInt[reg[t].index]
    OBVIOUS
  <2>1. /\ n \in TypeIndices /\ words[n] = 0
        /\ words'[n] = reg[t].word /\ reg[t].word \in Places
        /\ strings[reg[t].word] = MyKey(t)
        /\ \A j \in TypeIndices : j # n => words'[j] = words[j]
    BY <1>5, NameWritten
  <2>2. strings' = strings /\ answers' = answers
    BY <1>5 DEF SetToName
  <2>3. reg[t].word # 0
    BY <2>1, PlaceInUse, Zenon
  <2>4. Map' = Map \cup {<<MyKey(t), n>>}
    <3>1. Map = {<<strings[words[j]], j>> : j \in {k \in TypeIndices : words[k] # 0}}
      BY DEF Map, TypeIndices
    <3>2. Map' = {<<strings[words'[j]], j>> : j \in {k \in TypeIndices : words'[k] # 0}}
      BY <2>2 DEF Map, TypeIndices
    <3>3. ASSUME NEW p
          PROVE  p \in Map' <=> p \in Map \cup {<<MyKey(t), n>>}
      <4>1. p \in Map' => p \in Map \cup {<<MyKey(t), n>>}
        BY <2>1, <3>1, <3>2, Zenon
      <4>2. p \in Map => p \in Map'
        BY <2>1, <3>1, <3>2, Zenon
      <4>3. <<MyKey(t), n>> \in Map'
        BY <2>1, <2>3, <3>2, Zenon
      <4>4. QED
        BY <4>1, <4>2, <4>3, Zenon
    <3>4. QED
      BY <3>3, Zenon
  <2>5. ASSUME NEW p \in Map
        PROVE  p[1] # MyKey(t) /\ p[2] # n
    <3>1. PICK j \in TypeIndices : Named(j) /\ p = <<NameOf(j), j>>
      BY MapOf
    <3>2. p[1] = NameOf(j) /\ p[2] = j
      BY <3>1
    <3>3. QED
      BY <3>1, <3>2, <1>2, <2>1 DEF Named
  <2>6. Abstract!Assign(MyKey(t), n)
    BY <2>2, <2>4, <2>5 DEF Abstract!Assign
  <2>7. MyKey(t) \in Names /\ n \in (0 .. MaxTypes - 1) \cup {IntMax}
    BY <1>1, <2>1, CallTyped DEF TypeIndices
  <2>8. QED
    BY <2>6, <2>7 DEF MapStep, Abstract!Next
<1>6. QED
  BY <1>3, <1>4, <1>5

\* "A simple hash structure to map strings to integers (permanently)": used
\* within its limits, the table that any number of threads create names in and
\* look names up in is a one-to-one map that only grows, and every answer of
\* stinger_names_create_type and stinger_names_lookup_type agrees with it.
THEOREM TableIsMap == NSpec /\ []WithinLimits => ImplementsNameMap
<1>1. NInit => Abstract!Init
  <2> SUFFICES ASSUME NInit
               PROVE  Abstract!Init
    OBVIOUS
  <2>1. Map = {}
    BY SlotWords DEF NInit, Map, TypeIndices
  <2>2. QED
    BY <2>1 DEF NInit, Abstract!Init
<1>2. TableInv /\ WithinLimits /\ [NNext]_nvars => [Abstract!Next]_<<Map, answers>>
  <2> SUFFICES ASSUME NameInv, WithinLimits, [NNext]_nvars
               PROVE  MapStep
    BY DEF TableInv, MapStep
  <2>1. CASE UNCHANGED nvars
    BY <2>1, MapStays DEF nvars, table, MapStep
  <2>2. ASSUME NEW t \in Threads, NStep(t)
        PROVE  MapStep
    BY <2>2, QuietMaps, SlotWritesMap, CreationMaps, Zenon DEF NStep
  <2>3. QED
    BY <2>1, <2>2 DEF NNext, NDone
<1>3. QED
  BY <1>1, <1>2, TableInvariant, PTL DEF NSpec, ImplementsNameMap, Abstract!Spec
=============================================================================
