------------------------------ MODULE NameTable ------------------------------
(***************************************************************************)
(* The table that maps names to integers (lib/stinger_core/src/            *)
(* stinger_names.c): the vertex names, vertex types and edge types of a    *)
(* STINGER.  process_insertions creates names from a parallel loop, so any *)
(* number of threads run stinger_names_create_type and                     *)
(* stinger_names_lookup_type at once.                                      *)
(*                                                                         *)
(* A slot of from_name holds 0, the place of a string, or MARKER while a   *)
(* thread has locked it.  A name is a sequence of characters; what the     *)
(* table keeps of it is its first StrMax characters.                       *)
(***************************************************************************)
EXTENDS Integers, Sequences

CONSTANTS Threads,   \* the threads that use the table
          MaxTypes,  \* max_types
          StrMax,    \* NAME_STR_MAX
          Hash(_),   \* xor_hash
          IntMax,    \* a number above every type: INT64_MAX
          Calls      \* the calls each thread may have been given

MARKER == -1

Operations == {"create", "lookup"}

\* The names that occur in the calls.
CallNames ==
  UNION {{calls[t][i].name : i \in DOMAIN calls[t]} : t \in Threads, calls \in Calls}

NSlots == 2 * MaxTypes
MaxNames == MaxTypes * (StrMax + 1) - 1

\* The fields of the table.  to_name (MaxTypes words) and from_name (NSlots
\* words) are neighbors in one allocation: word MaxTypes + i is from_name[i].
VARIABLES words, toInt, strings, nextString, nextType,
          todo,     \* per thread: its calls
          answers,  \* per thread: what they returned
          npc,      \* per thread: where it is
          reg       \* per thread: index, init_index, original or place

table == <<words, toInt, strings, nextString, nextType>>
nvars == <<table, todo, answers, npc, reg>>

From(i) == MaxTypes + i

Key(name) == SubSeq(name, 1, IF Len(name) > StrMax THEN StrMax ELSE Len(name))

\* max_types and NAME_STR_MAX are positive, a name is a sequence of characters
\* and its hash a number.
ASSUME NameAssumption ==
  /\ MaxTypes \in Nat \ {0}
  /\ StrMax \in Nat \ {0}
  /\ Calls \subseteq [Threads -> Seq([op : Operations, name : CallNames])]
  /\ \A name \in CallNames :
       /\ name \in Seq({name[i] : i \in DOMAIN name})
       /\ Hash(Key(name)) \in Nat

NInit ==
  /\ words = [w \in 0 .. 3 * MaxTypes - 1 |-> 0]
  /\ toInt = [i \in 0 .. NSlots - 1 |-> 0]
  /\ strings = [p \in 0 .. MaxNames |-> << >>]
  /\ nextString = 1
  /\ nextType = 0
  /\ todo \in Calls
  /\ answers = [t \in Threads |-> << >>]
  /\ npc = [t \in Threads |-> "idle"]
  /\ reg = [t \in Threads |-> [index |-> 0, init |-> 0, word |-> 0]]

HasCall(t) == Len(answers[t]) < Len(todo[t])
Call(t) == todo[t][Len(answers[t]) + 1]
MyKey(t) == Key(Call(t).name)
Slot(t) == words[From(reg[t].index)]

NGoto(t, label) == npc' = [npc EXCEPT ![t] = label]

Answer(t, status, out) ==
  /\ answers' = [answers EXCEPT ![t] =
                   Append(@, [op |-> Call(t).op, name |-> MyKey(t), status |-> status, out |-> out])]
  /\ NGoto(t, "idle")

\* strncmp (name, names + place, length) == 0
Matches(t, place) ==
  LET n == Len(MyKey(t)) IN
  n <= Len(strings[place]) /\ SubSeq(strings[place], 1, n) = MyKey(t)

\* Mutant: index++ is missing.
AdvanceNowhere(t) == UNCHANGED <<reg, npc, answers>>

\* The next slot, or failure after a full turn, which leaves *out as the caller
\* initialised it.
Advance(t) ==
  LET next == (reg[t].index + 1) % NSlots IN
  IF next = reg[t].init
  THEN Answer(t, -1, -1) /\ UNCHANGED reg
  ELSE /\ reg' = [reg EXCEPT ![t].index = next]
       /\ NGoto(t, IF npc[t] = "lookup" THEN "lookup" ELSE "create")
       /\ UNCHANGED answers

TableFull == nextType >= MaxTypes

Begin(t) ==
  /\ npc[t] = "idle"
  /\ HasCall(t)
  /\ LET h == Hash(MyKey(t)) % NSlots IN
     reg' = [reg EXCEPT ![t] = [index |-> h, init |-> h, word |-> 0]]
  /\ NGoto(t, IF Call(t).op = "lookup" \/ TableFull THEN "lookup" ELSE "create")
  /\ UNCHANGED <<table, todo, answers>>

\* stinger_names_lookup_type, also called by a creation when the table is full.
Lookup(t) ==
  /\ npc[t] = "lookup"
  /\ Slot(t) # MARKER
  /\ \/ Slot(t) = 0 /\ Answer(t, -1, -1) /\ UNCHANGED reg
     \/ /\ Slot(t) # 0 /\ Matches(t, Slot(t))
        /\ Answer(t, 0, toInt[reg[t].index]) /\ UNCHANGED reg
     \/ Slot(t) # 0 /\ ~Matches(t, Slot(t)) /\ Advance(t)
  /\ UNCHANGED <<table, todo>>

\* readff: an empty slot is to be locked, a full one is compared.
Probe(t) ==
  /\ npc[t] = "create"
  /\ Slot(t) # MARKER
  /\ \/ Slot(t) = 0 /\ NGoto(t, "claim") /\ UNCHANGED <<answers, reg>>
     \/ /\ Slot(t) # 0 /\ Matches(t, Slot(t))
        /\ Answer(t, 0, toInt[reg[t].index]) /\ UNCHANGED reg
     \/ Slot(t) # 0 /\ ~Matches(t, Slot(t)) /\ Advance(t)
  /\ UNCHANGED <<table, todo>>

\* Mutant: a thread that waited for the lock does not look at what it read.
ClaimBlindly(t, original) == "store"

AfterClaim(t, original) ==
  IF original = 0 THEN "store" ELSE IF Matches(t, original) THEN "unlock" ELSE "wrong_unlock"

\* original = readfe (from_name + index)
Claim(t) ==
  /\ npc[t] = "claim"
  /\ Slot(t) # MARKER
  /\ words' = [words EXCEPT ![From(reg[t].index)] = MARKER]
  /\ reg' = [reg EXCEPT ![t].word = Slot(t)]
  /\ NGoto(t, AfterClaim(t, Slot(t)))
  /\ UNCHANGED <<toInt, strings, nextString, nextType, todo, answers>>

\* Another thread has created the same name meanwhile.
Unlock(t) ==
  /\ npc[t] = "unlock"
  /\ Slot(t) = MARKER
  /\ words' = [words EXCEPT ![From(reg[t].index)] = reg[t].word]
  /\ Answer(t, 0, toInt[reg[t].index])
  /\ UNCHANGED <<toInt, strings, nextString, nextType, todo, reg>>

\* Another thread has created a different name in the slot.  The code unlocks
\* &from_name + index, a word of its stack: unless that word happens to be
\* MARKER the thread waits for ever, and the slot stays locked either way.
WrongUnlock(t) ==
  /\ npc[t] = "wrong_unlock"
  /\ \/ NGoto(t, "stuck") /\ UNCHANGED <<answers, reg>>
     \/ Advance(t)
  /\ UNCHANGED <<table, todo>>

\* Mutant: the last byte of the string storage is used as well.
NoRoomLate(place, n) == place + n > MaxNames

NoRoom(place, n) == place + n >= MaxNames

\* Room for the string, or failure with the slot still locked.
TakeString(t) ==
  LET place == nextString
      n == Len(MyKey(t)) IN
  /\ npc[t] = "store"
  /\ nextString' = place + n + 1
  /\ \/ /\ NoRoom(place, n)
        /\ Answer(t, -1, IntMax)
        /\ UNCHANGED <<strings, reg>>
     \/ /\ ~NoRoom(place, n)
        /\ strings' = [strings EXCEPT ![place] = MyKey(t)]
        /\ reg' = [reg EXCEPT ![t].word = place]
        /\ NGoto(t, "number")
        /\ UNCHANGED answers
  /\ UNCHANGED <<words, toInt, nextType, todo>>

\* to_int[index] = fetch_add (&next_type, 1)
TakeType(t) ==
  /\ npc[t] = "number"
  /\ toInt' = [toInt EXCEPT ![reg[t].index] = nextType]
  /\ nextType' = nextType + 1
  /\ NGoto(t, "name")
  /\ UNCHANGED <<words, strings, nextString, todo, answers, reg>>

\* to_name[to_int[index]] = place
SetToName(t) ==
  /\ npc[t] = "name"
  /\ words' = [words EXCEPT ![toInt[reg[t].index]] = reg[t].word]
  /\ NGoto(t, "publish")
  /\ UNCHANGED <<toInt, strings, nextString, nextType, todo, answers, reg>>

Publish(t) ==
  /\ npc[t] = "publish"
  /\ Slot(t) = MARKER
  /\ words' = [words EXCEPT ![From(reg[t].index)] = reg[t].word]
  /\ Answer(t, 1, toInt[reg[t].index])
  /\ UNCHANGED <<toInt, strings, nextString, nextType, todo, reg>>

NStep(t) ==
  \/ Begin(t) \/ Lookup(t) \/ Probe(t) \/ Claim(t) \/ Unlock(t) \/ WrongUnlock(t)
  \/ TakeString(t) \/ TakeType(t) \/ SetToName(t) \/ Publish(t)

AllAnswered == \A t \in Threads : npc[t] = "idle" /\ ~HasCall(t)

NDone == AllAnswered /\ UNCHANGED nvars

NNext == (\E t \in Threads : NStep(t)) \/ NDone

NSpec == NInit /\ [][NNext]_nvars

\* Every thread of the parallel loop keeps running.
NFairSpec == NSpec /\ \A t \in Threads : WF_nvars(NStep(t))

-----------------------------------------------------------------------------

Places == 1 .. MaxNames - 1
NLabels == {"idle", "lookup", "create", "claim", "unlock", "wrong_unlock", "stuck",
            "store", "number", "name", "publish"}

\* The types of the table.  A string ends below max_names, and as long as the
\* table was not found full by several threads at once a type is an index of
\* to_name.
NTypeOK ==
  /\ words \in [0 .. 3 * MaxTypes - 1 -> {MARKER, 0} \cup Places]
  /\ \A i \in 0 .. MaxTypes - 1 : words[i] # MARKER
  /\ toInt \in [0 .. NSlots - 1 -> 0 .. MaxTypes - 1]
  /\ \A p \in 0 .. MaxNames : p + Len(strings[p]) < MaxNames \/ strings[p] = << >>
  /\ nextString \in Nat \ {0}
  /\ nextType \in 0 .. MaxTypes
  /\ npc \in [Threads -> NLabels]
  /\ \A t \in Threads : reg[t].index \in 0 .. NSlots - 1 /\ reg[t].init \in 0 .. NSlots - 1

\* stinger_names_lookup_name for the types that have been given a name.
Map == {<<strings[words[i]], i>> : i \in {j \in 0 .. MaxTypes - 1 : words[j] # 0}}

Names == {Key(name) : name \in CallNames}

Abstract == INSTANCE NameMap WITH
              Types <- (0 .. MaxTypes - 1) \cup {IntMax},
              map <- Map

\* "A simple hash structure to map strings to integers (permanently)": however
\* the threads race for the slots, the table is a one-to-one map that only
\* grows, every answer agrees with it, and a name that has a type is found.
ImplementsNameMap == Abstract!Spec

\* The answers that were given for a name, by thread and number.
AnswersFor(name) ==
  {c \in UNION {{t} \X DOMAIN answers[t] : t \in Threads} : answers[c[1]][c[2]].name = name}

\* "1 if the creation was successful, 0 if a mapping already exists": of all
\* the calls that were answered with the type of a name, one created it.
CreatedOnce ==
  AllAnswered => \A p \in Map :
    \E c \in AnswersFor(p[1]) :
      /\ answers[c[1]][c[2]].status = 1
      /\ \A d \in AnswersFor(p[1]) : answers[d[1]][d[2]].status = 1 => d = c

\* A locked slot that no thread is going to unlock.
SlotLeftLocked ==
  \E i \in 0 .. NSlots - 1 :
    /\ words[From(i)] = MARKER
    /\ \A t \in Threads : reg[t].index = i =>
         npc[t] \notin {"unlock", "store", "number", "name", "publish"}

\* stinger_names_create_type and stinger_names_lookup_type come back, also when
\* the table is full and every slot has been probed; what can keep a thread
\* waiting for ever is a slot that was left locked, and nothing else.
ReturnsUnlessLeftLocked == <>(AllAnswered \/ SlotLeftLocked)

\* "Parallel safe." (stinger_names.c): no thread waits for ever for a slot.
EveryNameCallReturns == <>AllAnswered
=============================================================================
