------------------------ MODULE NameTableInvariant --------------------------
(***************************************************************************)
(* What racing threads keep true of a table of names, as long as it is     *)
(* used within its limits.                                                 *)
(*                                                                         *)
(* The invariant rests on the order in which a name probes the slots. The  *)
(* slot of a name is reached by everyone who looks for the name before an  *)
(* empty slot is: all slots from the hash to it are in use, for ever, and  *)
(* nobody who looks for the name is past it. A thread that finds an empty  *)
(* slot therefore knows that its name has none, and the lock on that slot  *)
(* makes the others with the same name wait until it has been created.     *)
(***************************************************************************)
EXTENDS NameTable

Slots == 0 .. NSlots - 1
TypeIndices == 0 .. MaxTypes - 1

\* Where a name starts to probe, and how far slot b is from slot a.
Start(key) == Hash(key) % NSlots
Dist(a, b) == IF a <= b THEN b - a ELSE b - a + NSlots

\* The slots a thread has left behind.
Passed(t) == {i \in Slots : Dist(reg[t].init, i) < Dist(reg[t].init, reg[t].index)}

\* What the code needs of its callers: strncmp over the length of the name
\* compares no name with a longer one that begins with it, and no more threads
\* go past the test of a full table than it has types left.
Keys == UNION {{Key(todo[t][i].name) : i \in DOMAIN todo[t]} : t \in Threads}

WithinLimits ==
  /\ nextType <= MaxTypes
  /\ \A k, l \in Keys : Len(k) <= Len(l) /\ SubSeq(l, 1, Len(k)) = k => k = l

\* Threads between the claim of an empty slot and the unlock of it, by how far
\* they have come.
Unnamed(t) == npc[t] \in {"store", "number", "name"}
Creating(t) == Unnamed(t) \/ npc[t] = "publish"
Holding(t) == Creating(t) \/ npc[t] \in {"unlock", "wrong_unlock"}

\* Whoever looks for the key comes to slot i before it comes to an empty one.
Reached(key, i) ==
  /\ \A s \in Slots : Dist(Start(key), s) <= Dist(Start(key), i) => words[From(s)] # 0
  /\ \A t \in Threads : npc[t] # "idle" /\ MyKey(t) = key => i \notin Passed(t)

\* The types that to_name knows, and their names.
Named(j) == words[j] # 0
NameOf(j) == strings[words[j]]

\* Slot i is the one in which type j was given to its name.
HomeOf(j, i) ==
  /\ toInt[i] = j
  /\ words[From(i)] \in {MARKER, words[j]}
  /\ Reached(NameOf(j), i)
  /\ \A t \in Threads : Unnamed(t) => reg[t].index # i

\* Every type that has a name has it alone, and a slot that leads to it.
TypesInv ==
  \A j \in TypeIndices : Named(j) =>
    /\ words[j] < nextString
    /\ j < nextType
    /\ NameOf(j) \in Keys
    /\ \A l \in TypeIndices : Named(l) /\ NameOf(l) = NameOf(j) => l = j
    /\ \E i \in Slots : HomeOf(j, i)

\* A slot that is not locked holds the place of the name of its type.
SlotsInv == \A i \in Slots : words[From(i)] \in Places => words[toInt[i]] = words[From(i)]

\* What a thread in stinger_names_create_type or stinger_names_lookup_type has
\* seen and holds.
ThreadInv(t) ==
  npc[t] # "idle" =>
    /\ HasCall(t)
    /\ reg[t].init = Start(MyKey(t))
    /\ \A s \in Passed(t) : words[From(s)] # 0
    /\ Holding(t) => words[From(reg[t].index)] = MARKER
    /\ npc[t] \in {"unlock", "wrong_unlock"} =>
         reg[t].word \in Places /\ words[toInt[reg[t].index]] = reg[t].word
    /\ npc[t] = "unlock" => Matches(t, reg[t].word)
    /\ npc[t] = "wrong_unlock" => ~Matches(t, reg[t].word)
    /\ npc[t] \in {"number", "name", "publish"} =>
         reg[t].word \in Places /\ reg[t].word < nextString /\ strings[reg[t].word] = MyKey(t)
    /\ npc[t] = "name" => toInt[reg[t].index] < nextType /\ words[toInt[reg[t].index]] = 0
    /\ npc[t] = "publish" => words[toInt[reg[t].index]] = reg[t].word
    /\ Unnamed(t) => \A j \in TypeIndices : Named(j) => NameOf(j) # MyKey(t)
    /\ Creating(t) => Reached(MyKey(t), reg[t].index)

\* Two threads hold different slots, create different names and name different
\* types.
PairInv(t, u) ==
  /\ Holding(t) /\ Holding(u) => reg[t].index # reg[u].index
  /\ Creating(t) /\ Creating(u) => MyKey(t) # MyKey(u)
  /\ npc[t] = "name" /\ npc[u] = "name" => toInt[reg[t].index] # toInt[reg[u].index]

\* The calls that were told that they have created the name.
Created(key) == {c \in AnswersFor(key) : answers[c[1]][c[2]].status = 1}

\* A name was created by one call at most, and a name of the table by exactly one,
\* or by a thread that is about to answer.
CreatedInv ==
  \A key \in Names :
    /\ \A c, d \in Created(key) : c = d
    /\ Created(key) # {} => \E j \in TypeIndices : Named(j) /\ NameOf(j) = key
    /\ \A t \in Threads : npc[t] = "publish" /\ MyKey(t) = key => Created(key) = {}
    /\ (\E j \in TypeIndices : Named(j) /\ NameOf(j) = key) =>
         Created(key) # {} \/ \E t \in Threads : npc[t] = "publish" /\ MyKey(t) = key

\* The types of the variables while the limits are kept.
NTyped ==
  /\ todo \in Calls
  /\ words \in [0 .. 3 * MaxTypes - 1 -> {MARKER, 0} \cup Places]
  /\ \A j \in TypeIndices : words[j] # MARKER
  /\ toInt \in [Slots -> TypeIndices]
  /\ strings \in [0 .. MaxNames -> Names \cup {<< >>}]
  /\ \A p \in 0 .. MaxNames : p + Len(strings[p]) < MaxNames \/ strings[p] = << >>
  /\ nextString \in Nat \ {0}
  /\ nextType \in 0 .. MaxTypes
  /\ npc \in [Threads -> NLabels]
  /\ reg \in [Threads -> [index : Slots, init : Slots, word : {MARKER, 0} \cup Places]]
  /\ answers \in [Threads -> Seq(Abstract!Answer)]

\* The inductive invariant of stinger_names_create_type and
\* stinger_names_lookup_type: whoever looks for a name of the table comes to its
\* slot before an empty one, locks have one holder, and no two threads create one
\* name or give two names one type.
NameInv ==
  /\ NTyped
  /\ TypesInv
  /\ SlotsInv
  /\ \A t \in Threads : ThreadInv(t)
  /\ \A t, u \in Threads : t # u => PairInv(t, u)
  /\ CreatedInv

\* What holds of every table.
TableInv == nextType \in Nat /\ (WithinLimits => NameInv)
=============================================================================
