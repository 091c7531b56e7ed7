------------------------------- MODULE NameFile -------------------------------
(***************************************************************************)
(* Saving, loading and resizing a table of names (stinger_names_save,      *)
(* stinger_names_load and stinger_names_resize in stinger_names.c).  They  *)
(* run alone, so a creation is one operator on the table as a record.      *)
(***************************************************************************)
EXTENDS NameTable, SequencesExt

NewTable(max) ==
  [max |-> max, toName |-> [i \in 0 .. max - 1 |-> 0], from |-> [i \in 0 .. 2 * max - 1 |-> 0],
   toInt |-> [i \in 0 .. 2 * max - 1 |-> 0],
   strings |-> [p \in 0 .. max * (StrMax + 1) |-> << >>], nextString |-> 1, nextType |-> 0]

\* The table the threads have left behind.
ThisTable ==
  [max |-> MaxTypes, toName |-> [i \in 0 .. MaxTypes - 1 |-> words[i]],
   from |-> [i \in 0 .. NSlots - 1 |-> words[From(i)]],
   toInt |-> toInt, strings |-> strings, nextString |-> nextString, nextType |-> nextType]

\* The distances from its hash at which a name stops probing: an empty slot, or
\* one whose string begins with the name.
Stops(T, name) ==
  {d \in 0 .. 2 * T.max - 1 :
     LET place == T.from[(Hash(name) + d) % (2 * T.max)] IN
     place = 0 \/ IsPrefix(name, T.strings[place])}

StopsAt(T, name) == (Hash(name) + Min(Stops(T, name))) % (2 * T.max)

LookupType(T, name) ==
  IF Stops(T, name) = {} \/ T.from[StopsAt(T, name)] = 0 THEN -1
  ELSE T.toInt[StopsAt(T, name)]

\* stinger_names_lookup_name: for a type below max_types that has no name this
\* is the string at place 0, the empty one.
LookupName(T, type) == T.strings[T.toName[type]]

\* stinger_names_create_type by a single thread.  For the type -1, which only
\* Resize brings about, to_name[-1] is a word of the string storage.
CreateType(T, name) ==
  LET i == StopsAt(T, name)
      place == T.nextString IN
  IF \/ T.nextType >= T.max
     \/ Stops(T, name) = {}
     \/ T.from[i] # 0
  THEN T
  ELSE IF place + Len(name) >= T.max * (StrMax + 1) - 1
  THEN [T EXCEPT !.nextString = @ + Len(name) + 1, !.from[i] = MARKER]
  ELSE [T EXCEPT !.nextString = @ + Len(name) + 1,
                 !.strings[place] = name,
                 !.toInt[i] = T.nextType,
                 !.nextType = @ + 1,
                 !.toName = IF T.nextType < 0 THEN @ ELSE [@ EXCEPT ![T.nextType] = place],
                 !.from[i] = place]

\* stinger_names_save: the strings in the order of their types.
Save(T) == [i \in 1 .. T.nextType |-> LookupName(T, i - 1)]

\* Mutant: the file is read from its end.
LoadReversed(T, file) == FoldLeft(CreateType, T, Reverse(file))

Load(T, file) == FoldLeft(CreateType, T, file)

\* One turn of the loop of stinger_names_resize.
CopyType(old, T, type) ==
  LET name == LookupName(old, type) IN
  CreateType([T EXCEPT !.nextType = LookupType(old, name)], name)

\* Mutant: the loop stops one type early.
ResizeShort(old, max) ==
  [FoldLeft(LAMBDA T, i : CopyType(old, T, i - 1), NewTable(max), [i \in 1 .. old.max - 1 |-> i])
     EXCEPT !.nextType = old.nextType]

Resize(old, max) ==
  LET copied == FoldLeft(LAMBDA T, i : CopyType(old, T, i - 1), NewTable(max),
                         [i \in 1 .. old.max |-> i])
  IN [copied EXCEPT !.nextType = old.nextType]

\* Two tables give the first n types the same names, in both directions.
SameTypes(T, U) ==
  /\ T.nextType = U.nextType
  /\ \A i \in 0 .. T.nextType - 1 :
       /\ LookupName(T, i) = LookupName(U, i)
       /\ LookupType(U, LookupName(T, i)) = i

\* stinger_names_load: a table filled by racing threads, saved and loaded into
\* an empty one, gives every name the type it had, whatever the order in which
\* the strings and the slots were taken.
ReloadKeepsTypes ==
  AllAnswered => SameTypes(ThisTable, Load(NewTable(MaxTypes), Save(ThisTable)))

\* stinger_names_resize of a full table keeps every name and type (the test
\* resizes a table of five types after the fifth).
ResizeFullKeepsTypes ==
  AllAnswered /\ ~SlotLeftLocked /\ nextType = MaxTypes =>
    SameTypes(ThisTable, Resize(ThisTable, MaxTypes + 1))
=============================================================================
