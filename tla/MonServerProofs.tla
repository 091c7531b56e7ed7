--------------------------- MODULE MonServerProofs ---------------------------
(***************************************************************************)
(* For every set of monitors, under whatever names they register, and      *)
(* every number of batches: the registry agrees with itself, every live    *)
(* monitor is in step with its connection and its record, and the rounds   *)
(* of the process loop show every monitor a static graph, batch after      *)
(* batch.                                                                  *)
(***************************************************************************)
EXTENDS MonServer, WellFoundedInduction, TLAPS

Live(m) == mpc[m] # "gone"

\* A monitor whose record has been made.
Added(m) == mpc[m] # "new" /\ hpc[m] \in {"reply", "none"}

MonTypes ==
  /\ cast \in [present : SUBSET Mons, crashing : SUBSET Mons, batches : Nat]
  /\ mpc \in [Mons -> {"new", "wait", "map", "gone"}]
  /\ call \in [Mons -> MonActions \cup {"REGISTER_MON"}]
  /\ shown \in [Mons -> Seq(Nat)]
  /\ up \in [Mons -> MonActions \cup {Null}]
  /\ down \in [Mons -> Answers \cup {Null}]
  /\ hpc \in [Mons -> {"none", "has_mon", "delete_mon", "add_mon", "reply"}]
  /\ state \in [Mons -> MonStates \cup {Null}]
  /\ freed \subseteq Mons
  /\ moved \in BOOLEAN
  /\ vec \in [mem : Seq(Mons), size : Nat] /\ vec.size <= Len(vec.mem)
  /\ map \in [Names -> Mons \cup {Null}]
  /\ lpc \in {"dequeue", "process_batch", "get_num_mons", "get_mon", "serve", "dead"}
  /\ stage \in MonActions
  /\ idx \in Nat /\ stop \in Nat /\ stop <= Len(vec.mem)
  /\ lpc \in {"get_mon", "serve"} => idx >= 1
  /\ cur \in Mons \cup {Null} /\ (lpc = "serve" => cur \in Mons)
  /\ due \subseteq Mons
  /\ batch \in Nat /\ graph \in Nat

RegInv ==
  /\ \A n \in Names : map[n] # Null => NameOf[map[n]] = n
  /\ MappedMonInVector
  /\ \A m \in Mons : ~Added(m) => m \notin Records /\ m \notin freed
  /\ \A m \in Mons : mpc[m] = "new" => hpc[m] = "none"
  /\ \A i, j \in 1 .. vec.size : vec.mem[i] = vec.mem[j] => i = j

\* Where a live monitor, its connection and its record are with each other.
Phase(m) ==
  \/ /\ mpc[m] = "new" /\ call[m] = "REGISTER_MON" /\ up[m] = Null /\ down[m] = Null
     /\ state[m] = Null /\ hpc[m] = "none" /\ shown[m] = << >>
  \/ /\ mpc[m] = "wait" /\ call[m] = "REGISTER_MON" /\ up[m] = Null /\ down[m] = Null
     /\ hpc[m] # "none" /\ shown[m] = << >>
     /\ state[m] = IF hpc[m] = "reply" THEN "READY_UPDATE" ELSE Null
  \/ /\ mpc[m] = "wait" /\ hpc[m] = "none" /\ up[m] = Null /\ down[m] # Null
     /\ \/ call[m] = "REGISTER_MON" /\ state[m] = "READY_UPDATE" /\ shown[m] = << >>
        \/ call[m] = "BEGIN_UPDATE" /\ state[m] = "PERFORMING_UPDATE" /\ down[m].ok
        \/ call[m] = "END_UPDATE" /\ state[m] = "READY_UPDATE"
  \/ /\ mpc[m] = "wait" /\ hpc[m] = "none" /\ up[m] = call[m] /\ down[m] = Null
     /\ \/ call[m] = "BEGIN_UPDATE" /\ state[m] = "READY_UPDATE"
        \/ call[m] = "END_UPDATE" /\ state[m] = "PERFORMING_UPDATE" /\ shown[m] # << >>
  \/ /\ mpc[m] = "map" /\ call[m] = "BEGIN_UPDATE" /\ up[m] = Null /\ down[m] = Null
     /\ hpc[m] = "none" /\ state[m] = "PERFORMING_UPDATE" /\ shown[m] # << >>

PhaseInv == \A m \in Mons : Live(m) => Phase(m)

\* What the connections and the registry keep, whatever the loop does.
ConnInv == MonTypes /\ RegInv /\ PhaseInv

-----------------------------------------------------------------------------
\* A set of numbers has a least one.
LEMMA LeastNumber ==
  ASSUME NEW T, T \subseteq Nat, T # {}
  PROVE  \E x \in T : \A y \in T : x <= y
<1> DEFINE R == OpToRel(<, Nat)
<1>1. IsWellFoundedOn(R, Nat)
  BY NatLessThanWellFounded, Zenon
<1>2. \A x, y \in Nat : x < y => <<x, y>> \in R
  BY Zenon DEF OpToRel
<1>3. \A x, y \in T : ~(y < x) => x <= y
  OBVIOUS
<1> HIDE DEF R
<1>4. \E x \in T : \A y \in T : ~ (<<y, x>> \in R)
  BY <1>1, WFMin, Zenon
<1> QED
  BY <1>2, <1>3, <1>4, Zenon

\* Erasing the first record of a name moves the others down: the vector loses one
\* entry and keeps every record of another name.
LEMMA Erased ==
  ASSUME MonTypes, RegInv, NEW m \in Mons, DeleteMon(m), map[NameOf[m]] # Null
  PROVE  /\ vec' \in [mem : Seq(Mons), size : Nat]
         /\ Len(vec'.mem) = Len(vec.mem) /\ vec'.size <= vec.size
         /\ Records' \subseteq Records
         /\ \A r \in Records : NameOf[r] # NameOf[m] => r \in Records'
         /\ \A i, k \in 1 .. vec'.size : vec'.mem[i] = vec'.mem[k] => i = k
<1> DEFINE n == NameOf[m]
           found == {i \in 1 .. vec.size : NameOf[vec.mem[i]] = n}
           j == CHOOSE i \in found : \A k \in found : i <= k
           mem == [i \in DOMAIN vec.mem |->
                     IF i >= j /\ i < vec.size THEN vec.mem[i + 1] ELSE vec.mem[i]]
<1>1. vec' = IF found = {} THEN vec ELSE [mem |-> mem, size |-> vec.size - 1]
  BY Zenon DEF DeleteMon
<1>2. vec \in [mem : Seq(Mons), size : Nat] /\ vec.size <= Len(vec.mem)
  BY Zenon DEF MonTypes
<1>3. \A i, k \in 1 .. vec.size : vec.mem[i] = vec.mem[k] => i = k
  BY Zenon DEF RegInv
<1>4. CASE found = {}
  <2>1. vec' = vec /\ Records' = Records
    BY <1>1, <1>4, Zenon DEF Records
  <2> QED
    BY <2>1, <1>2, <1>3
<1>5. CASE found # {}
  <2>1. j \in found
    <3>1. found \subseteq Nat
      BY <1>2
    <3> HIDE DEF found
    <3>2. \E i \in found : \A k \in found : i <= k
      BY <3>1, <1>5, LeastNumber, Zenon
    <3> QED
      BY <3>2, Zenon
  <2>2. j \in 1 .. vec.size /\ NameOf[vec.mem[j]] = n
    BY <2>1, Zenon
  <2>3. vec'.mem = mem /\ vec'.size = vec.size - 1 /\ vec' = [mem |-> mem, size |-> vec.size - 1]
    BY <1>1, <1>5, Zenon
  <2> HIDE DEF found, j
  <2>4. \A i \in 1 .. vec.size : vec.mem[i] \in Mons
    BY <1>2
  <2>5. mem \in Seq(Mons) /\ Len(mem) = Len(vec.mem)
    <3>1. DOMAIN vec.mem = 1 .. Len(vec.mem) /\ Len(vec.mem) \in Nat
      BY <1>2
    <3>2. \A i \in 1 .. Len(vec.mem) : mem[i] \in Mons
      BY <1>2, <3>1, <2>2
    <3>3. mem = [i \in 1 .. Len(vec.mem) |-> mem[i]]
      BY <3>1, Zenon
    <3> HIDE DEF mem
    <3> QED
      BY <3>1, <3>2, <3>3
  <2>6. \A i \in 1 .. vec.size - 1 :
          \/ i < j /\ mem[i] = vec.mem[i]
          \/ i >= j /\ mem[i] = vec.mem[i + 1]
    BY <1>2, <2>2
  <2> HIDE DEF mem
  <2>7. ASSUME NEW i \in 1 .. vec.size - 1, NEW k \in 1 .. vec.size - 1, mem[i] = mem[k]
        PROVE  i = k
    <3>1. PICK a \in 1 .. vec.size : mem[i] = vec.mem[a] /\ (IF i < j THEN a = i ELSE a = i + 1)
      BY <2>6, <1>2, <2>2
    <3>2. PICK b \in 1 .. vec.size : mem[k] = vec.mem[b] /\ (IF k < j THEN b = k ELSE b = k + 1)
      BY <2>6, <1>2, <2>2
    <3>3. a = b
      BY <3>1, <3>2, <2>7, <1>3, Zenon
    <3> QED
      BY <3>1, <3>2, <3>3, <2>2, <1>2
  <2>8. Records' = {mem[i] : i \in 1 .. vec.size - 1}
    BY <2>3, Zenon DEF Records
  <2>9. Records' \subseteq Records
    <3>1. \A i \in 1 .. vec.size - 1 : \E k \in 1 .. vec.size : mem[i] = vec.mem[k]
      <4> TAKE i \in 1 .. vec.size - 1
      <4>1. i \in 1 .. vec.size /\ i + 1 \in 1 .. vec.size
        BY <1>2
      <4> QED
        BY <4>1, <2>6, Zenon
    <3> QED
      BY <3>1, <2>8 DEF Records
  <2>10. ASSUME NEW r \in Records, NameOf[r] # n PROVE r \in Records'
    <3>1. PICK i \in 1 .. vec.size : r = vec.mem[i]
      BY Zenon DEF Records
    <3>2. i # j
      BY <3>1, <2>10, <2>2, Zenon
    <3>3. CASE i < j
      BY <3>3, <3>1, <2>6, <2>8, <1>2, <2>2
    <3>4. CASE i > j
      <4>1. i - 1 \in 1 .. vec.size - 1 /\ i - 1 >= j /\ (i - 1) + 1 = i
        BY <3>4, <2>2, <1>2
      <4>2. mem[i - 1] = vec.mem[i]
        BY <4>1, <2>6, <2>2
      <4> QED
        BY <4>1, <4>2, <3>1, <2>8, Zenon
    <3> QED
      BY <3>2, <3>3, <3>4, <2>2, <1>2
  <2>11. vec' \in [mem : Seq(Mons), size : Nat] /\ vec'.size <= vec.size
    BY <2>3, <2>5, <2>2, <1>2
  <2> QED
    BY <2>3, <2>5, <2>7, <2>9, <2>10, <2>11, Zenon
<1> QED
  BY <1>4, <1>5, Zenon

\* Adding a record puts it behind the last entry, which may be inside the storage.
LEMMA Appended ==
  ASSUME MonTypes, NEW m \in Mons, AddMon(m)
  PROVE  /\ vec' \in [mem : Seq(Mons), size : Nat]
         /\ vec'.size = vec.size + 1 /\ vec'.size <= Len(vec'.mem)
         /\ Len(vec.mem) <= Len(vec'.mem)
         /\ \A p \in 1 .. vec.size : vec'.mem[p] = vec.mem[p]
         /\ vec'.mem[vec.size + 1] = m
         /\ Records' = Records \cup {m}
<1> DEFINE mem == IF vec.size < Len(vec.mem) THEN [vec.mem EXCEPT ![vec.size + 1] = m]
                  ELSE Append(vec.mem, m)
<1>1. vec.mem \in Seq(Mons) /\ vec.size \in Nat /\ vec.size <= Len(vec.mem)
  BY Zenon DEF MonTypes
<1>2. vec' = [mem |-> mem, size |-> vec.size + 1] /\ vec'.mem = mem /\ vec'.size = vec.size + 1
  BY Zenon DEF AddMon
<1>3. /\ mem \in Seq(Mons) /\ Len(mem) >= Len(vec.mem) /\ Len(mem) >= vec.size + 1
      /\ \A p \in 1 .. vec.size : mem[p] = vec.mem[p]
      /\ mem[vec.size + 1] = m
  <2>1. CASE vec.size < Len(vec.mem)
    <3>1. mem = [vec.mem EXCEPT ![vec.size + 1] = m] /\ vec.size + 1 \in 1 .. Len(vec.mem)
      BY <2>1, <1>1
    <3> HIDE DEF mem
    <3> QED
      BY <3>1, <1>1
  <2>2. CASE ~(vec.size < Len(vec.mem))
    <3>1. mem = Append(vec.mem, m) /\ vec.size = Len(vec.mem)
      BY <2>2, <1>1
    <3> HIDE DEF mem
    <3> QED
      BY <3>1, <1>1
  <2> QED
    BY <2>1, <2>2, Zenon
<1> HIDE DEF mem
<1>4. Records' = Records \cup {m}
  <2>1. Records' = {mem[i] : i \in 1 .. vec.size + 1}
    BY <1>2, Zenon DEF Records
  <2>2. 1 .. vec.size + 1 = (1 .. vec.size) \cup {vec.size + 1}
    BY <1>1
  <2>3. Records' = {mem[i] : i \in 1 .. vec.size} \cup {mem[vec.size + 1]}
    BY <2>1, <2>2, Zenon
  <2>4. {mem[i] : i \in 1 .. vec.size} = Records
    BY <1>3, Zenon DEF Records
  <2> QED
    BY <2>3, <2>4, <1>3, Zenon
<1> QED
  BY <1>2, <1>3, <1>4, <1>1

-----------------------------------------------------------------------------
\* Every step keeps the variables in their types.
LEMMA MonTypesStep ==
  ASSUME MonTypes, RegInv, [MNext]_mvars
  PROVE  MonTypes'
<1> USE MonAssumption DEF monVars, regVars, mloopVars, MonActions, MonStates
<1>1. ASSUME NEW m \in Mons, Register(m), UNCHANGED cast PROVE MonTypes'
  BY <1>1, Zenon DEF Register, MonTypes
<1>2. ASSUME NEW m \in Mons, Answered(m), UNCHANGED cast PROVE MonTypes'
  <2>1. down[m] \in Answers /\ down[m].batch \in Nat
    BY <1>2, Zenon DEF Answered, MonTypes, Answers
  <2>2. CASE call[m] = "BEGIN_UPDATE" /\ down[m].ok
    <3>1. /\ mpc' = [mpc EXCEPT ![m] = "map"]
          /\ shown' = [shown EXCEPT ![m] = Append(@, down[m].batch)]
          /\ down' = [down EXCEPT ![m] = Null]
          /\ UNCHANGED <<cast, call, up, hpc, state, regVars, mloopVars>>
      BY <1>2, <2>2, Zenon DEF Answered
    <3>2. shown' \in [Mons -> Seq(Nat)]
      BY <3>1, <2>1 DEF MonTypes
    <3> QED
      BY <3>1, <3>2, Zenon DEF MonTypes
  <2>3. CASE ~(call[m] = "BEGIN_UPDATE" /\ down[m].ok)
    <3>1. /\ MSend(m, "BEGIN_UPDATE") /\ down' = [down EXCEPT ![m] = Null]
          /\ UNCHANGED <<cast, shown, hpc, state, regVars, mloopVars>>
      BY <1>2, <2>3, Zenon DEF Answered
    <3> QED
      BY <3>1, Zenon DEF MonTypes, MSend
  <2> QED
    BY <2>2, <2>3, Zenon
<1>3. ASSUME NEW m \in Mons, Mapped(m), UNCHANGED cast PROVE MonTypes'
  BY <1>3, Zenon DEF Mapped, MSend, MonTypes
<1>4. ASSUME NEW m \in Mons, Crash(m), UNCHANGED cast PROVE MonTypes'
  BY <1>4, Zenon DEF Crash, MonTypes
<1>5. ASSUME NEW m \in Mons, HasMon(m), UNCHANGED cast PROVE MonTypes'
  BY <1>5, Zenon DEF HasMon, HGoto, MonTypes
<1>6. ASSUME NEW m \in Mons, DeleteMon(m), UNCHANGED cast PROVE MonTypes'
  <2>1. CASE map[NameOf[m]] = Null
    BY <2>1, <1>6 DEF DeleteMon, HGoto, MonTypes
  <2>2. CASE map[NameOf[m]] # Null
    <3>1. NameOf[m] \in Names
      BY Zenon DEF Names
    <3>2. vec' \in [mem : Seq(Mons), size : Nat] /\ vec'.size <= Len(vec'.mem) /\ stop' <= Len(vec'.mem)
      <4>1. /\ vec' \in [mem : Seq(Mons), size : Nat] /\ Len(vec'.mem) = Len(vec.mem)
            /\ vec'.size <= vec.size /\ stop' = stop
        BY <2>2, <1>6, Erased, Zenon DEF DeleteMon
      <4>2. vec.size <= Len(vec.mem) /\ stop <= Len(vec.mem) /\ vec.mem \in Seq(Mons) /\ vec.size \in Nat
        BY Zenon DEF MonTypes
      <4> QED
        BY <4>1, <4>2
    <3>3. /\ freed' = freed \cup {map[NameOf[m]]} /\ map' = [map EXCEPT ![NameOf[m]] = Null]
          /\ moved' = (moved \/ lpc \in {"get_mon", "serve"})
          /\ hpc' = [hpc EXCEPT ![m] = "add_mon"]
          /\ UNCHANGED <<cast, monVars, up, down, state, mloopVars>>
      BY <2>2, <1>6, Zenon DEF DeleteMon, HGoto
    <3>4. map[NameOf[m]] \in Mons
      BY <2>2, <3>1, Zenon DEF MonTypes
    <3>5. moved' \in BOOLEAN
      BY <3>3, Zenon
    <3> QED
      BY <3>1, <3>2, <3>3, <3>4, <3>5, ZenonT(30) DEF MonTypes
  <2> QED
    BY <2>1, <2>2, Zenon
<1>7. ASSUME NEW m \in Mons, AddMon(m), UNCHANGED cast PROVE MonTypes'
  <2>1. NameOf[m] \in Names
    BY Zenon DEF Names
  <2>2. vec' \in [mem : Seq(Mons), size : Nat] /\ vec'.size <= Len(vec'.mem) /\ stop' <= Len(vec'.mem)
    BY <1>7, Appended DEF AddMon, MonTypes
  <2>3. /\ map' = [map EXCEPT ![NameOf[m]] = m] /\ state' = [state EXCEPT ![m] = "READY_UPDATE"]
        /\ hpc' = [hpc EXCEPT ![m] = "reply"]
        /\ UNCHANGED <<cast, monVars, up, down, freed, moved, mloopVars>>
    BY <1>7, Zenon DEF AddMon, HGoto
  <2>4. /\ map' \in [Names -> Mons \cup {Null}] /\ state' \in [Mons -> MonStates \cup {Null}]
        /\ hpc' \in [Mons -> {"none", "has_mon", "delete_mon", "add_mon", "reply"}]
    BY <2>1, <2>3, Zenon DEF MonTypes
  <2> HIDE DEF MonActions, MonStates
  <2> QED
    BY <2>2, <2>3, <2>4, Zenon DEF MonTypes
<1>8. ASSUME NEW m \in Mons, SendRegistered(m), UNCHANGED cast PROVE MonTypes'
  BY <1>8, Zenon DEF SendRegistered, HGoto, MReply, Answers, MonTypes
<1>9. CASE Dequeue /\ UNCHANGED cast
  BY <1>9 DEF Dequeue, MonTypes
<1>10. CASE ProcessBatch /\ UNCHANGED cast
  BY <1>10 DEF ProcessBatch, MonTypes
<1>11. CASE GetNumMons /\ UNCHANGED cast
  BY <1>11 DEF GetNumMons, Records, MonTypes
<1>12. CASE GetMon /\ UNCHANGED cast
  BY <1>12 DEF GetMon, MonTypes
<1>13. CASE SweepDone /\ UNCHANGED cast
  BY <1>13 DEF SweepDone, MonTypes
<1>14. CASE Skip /\ UNCHANGED cast
  BY <1>14 DEF Skip, NextMon, MonTypes
<1>15. CASE Grant /\ UNCHANGED cast
  BY <1>15 DEF Grant, NextMon, MReply, Answers, AfterGrant, Before, MonTypes
<1>16. CASE Refuse /\ UNCHANGED cast
  <2>1. down' \in [Mons -> Answers \cup {Null}]
    <3>1. CASE stage = "BEGIN_UPDATE"
      <4>1. [ok |-> FALSE, batch |-> batch] \in Answers
        BY Zenon DEF Answers, MonTypes
      <4>2. down' = [down EXCEPT ![cur] = [ok |-> FALSE, batch |-> batch]]
        BY <3>1, <1>16, Zenon DEF Refuse, MReply
      <4> QED
        BY <4>1, <4>2, Zenon DEF MonTypes
    <3>2. CASE stage # "BEGIN_UPDATE"
      BY <3>2, <1>16, Zenon DEF Refuse, MonTypes
    <3> QED
      BY <3>1, <3>2, Zenon
  <2>2. /\ up' = [up EXCEPT ![cur] = Null] /\ state' = [state EXCEPT ![cur] = "ERROR"]
        /\ NextMon /\ UNCHANGED <<cast, monVars, hpc, regVars>>
    BY <1>16, Zenon DEF Refuse
  <2>3. /\ up' \in [Mons -> MonActions \cup {Null}]
        /\ state' \in [Mons -> MonStates \cup {Null}]
    BY <2>2, Zenon DEF MonTypes
  <2> HIDE DEF MonActions, MonStates
  <2> QED
    BY <2>1, <2>2, <2>3 DEF NextMon, MonTypes
<1>17. CASE UseDeleted /\ UNCHANGED cast
  BY <1>17, Zenon DEF UseDeleted, MonTypes
<1>18. CASE UNCHANGED mvars
  BY <1>18, Zenon DEF mvars, MonTypes
<1> QED
  BY <1>1, <1>2, <1>3, <1>4, <1>5, <1>6, <1>7, <1>8, <1>9, <1>10, <1>11, <1>12, <1>13, <1>14, <1>15, <1>16, <1>17, <1>18, Zenon
    DEF MNext, MonHandler, HandleMon, MLoop, Poll, Crash

\* A step that leaves the registry alone, takes no record back and makes no thread
\* new keeps the registry as it is.
LEMMA QuietRegistry ==
  ASSUME RegInv, UNCHANGED <<freed, vec, map>>,
         \A m \in Mons : Added(m) => Added(m)',
         \A m \in Mons : mpc'[m] = "new" => mpc[m] = "new" /\ hpc'[m] = hpc[m]
  PROVE  RegInv'
<1>1. Records' = Records
  BY Zenon DEF Records
<1>2. MappedMonInVector'
  BY <1>1, Zenon DEF RegInv, MappedMonInVector, Names
<1>3. \A m \in Mons : ~Added(m)' => m \notin Records' /\ m \notin freed'
  BY <1>1, Zenon DEF RegInv
<1>4. \A n \in Names : map'[n] # Null => NameOf[map'[n]] = n
  BY Zenon DEF RegInv
<1>5. \A i, j \in 1 .. vec'.size : vec'.mem[i] = vec'.mem[j] => i = j
  BY Zenon DEF RegInv
<1>6. \A m \in Mons : mpc'[m] = "new" => hpc'[m] = "none"
  BY Zenon DEF RegInv
<1> QED
  BY <1>2, <1>3, <1>4, <1>5, <1>6, Zenon DEF RegInv, Names

\* delete_mon takes the record of the name out of the vector and of the map, and no
\* record of another name.
LEMMA DeleteKeepsRegistry ==
  ASSUME MonTypes, RegInv, NEW m \in Mons, DeleteMon(m)
  PROVE  RegInv'
<1>1. hpc[m] = "delete_mon" /\ hpc' = [hpc EXCEPT ![m] = "add_mon"] /\ mpc' = mpc
  BY Zenon DEF DeleteMon, HGoto, monVars
<1>2. \A x \in Mons : Added(x)' <=> Added(x)
  BY <1>1, Zenon DEF Added, MonTypes
<1>3. \A x \in Mons : mpc'[x] = "new" => mpc[x] = "new" /\ hpc'[x] = hpc[x]
  BY <1>1, Zenon DEF RegInv, MonTypes
<1>4. CASE map[NameOf[m]] = Null
  <2>1. UNCHANGED <<freed, vec, map>>
    BY <1>4, Zenon DEF DeleteMon, regVars
  <2> QED
    BY <2>1, <1>2, <1>3, QuietRegistry, Zenon
<1>5. CASE map[NameOf[m]] # Null
  <2> DEFINE n == NameOf[m]
  <2>1. n \in Names
    BY Zenon DEF Names
  <2>2. freed' = freed \cup {map[n]} /\ map' = [map EXCEPT ![n] = Null]
    BY <1>5, Zenon DEF DeleteMon
  <2>3. map[n] \in Mons /\ map \in [Names -> Mons \cup {Null}]
    BY <1>5, <2>1, Zenon DEF MonTypes
  <2>4. /\ Records' \subseteq Records
        /\ \A r \in Records : NameOf[r] # n => r \in Records'
        /\ \A i, k \in 1 .. vec'.size : vec'.mem[i] = vec'.mem[k] => i = k
    BY <1>5, Erased, Zenon
  <2>5. NameOf[map[n]] = n /\ map[n] \in Records
    BY <1>5, <2>1, Zenon DEF RegInv, MappedMonInVector
  <2> HIDE DEF n
  <2>6. ASSUME NEW k \in Names, map'[k] # Null
        PROVE  k # n /\ map'[k] = map[k] /\ NameOf[map[k]] = k
    BY <2>6, <2>2, <2>3, Zenon DEF RegInv
  <2>7. ASSUME NEW k \in Names, map'[k] # Null
        PROVE  map'[k] \in Records' /\ map'[k] \notin freed'
    <3>1. map[k] \in Records /\ map[k] \notin freed /\ map[k] # map[n]
      BY <2>6, <2>7, <2>5 DEF RegInv, MappedMonInVector
    <3> QED
      BY <3>1, <2>6, <2>7, <2>2, <2>4
  <2>8. \A k \in Names : map'[k] # Null => NameOf[map'[k]] = k
    BY <2>6, Zenon
  <2>9. MappedMonInVector'
    BY <2>7, Zenon DEF MappedMonInVector, Names
  <2>10. \A x \in Mons : ~Added(x)' => x \notin Records' /\ x \notin freed'
    BY <1>2, <2>2, <2>4, <2>5, <2>3, Zenon DEF RegInv
  <2>11. \A x \in Mons : mpc'[x] = "new" => hpc'[x] = "none"
    BY <1>3, Zenon DEF RegInv
  <2> QED
    BY <2>4, <2>8, <2>9, <2>10, <2>11, Zenon DEF RegInv, Names
<1> QED
  BY <1>4, <1>5, Zenon

\* add_mon makes a record that was neither in the vector nor deleted.
LEMMA AddKeepsRegistry ==
  ASSUME MonTypes, RegInv, NEW m \in Mons, AddMon(m)
  PROVE  RegInv'
<1>1. /\ hpc[m] = "add_mon" /\ hpc' = [hpc EXCEPT ![m] = "reply"] /\ mpc' = mpc
      /\ map' = [map EXCEPT ![NameOf[m]] = m] /\ freed' = freed
  BY Zenon DEF AddMon, HGoto, monVars
<1>2. mpc[m] # "new" /\ ~Added(m)
  BY <1>1, Zenon DEF RegInv, Added
<1>3. m \notin Records /\ m \notin freed
  BY <1>2, Zenon DEF RegInv
<1>4. \A x \in Mons : ~Added(x)' => ~Added(x) /\ x # m
  BY <1>1, <1>2, Zenon DEF Added, MonTypes
<1>5. /\ vec'.size = vec.size + 1 /\ vec.size \in Nat
      /\ \A p \in 1 .. vec.size : vec'.mem[p] = vec.mem[p]
      /\ vec'.mem[vec.size + 1] = m
      /\ Records' = Records \cup {m}
  BY Appended, Zenon DEF MonTypes
<1>6. NameOf[m] \in Names /\ map \in [Names -> Mons \cup {Null}]
  BY Zenon DEF Names, MonTypes
<1>7. \A n \in Names : map'[n] # Null => NameOf[map'[n]] = n
  BY <1>1, <1>6, Zenon DEF RegInv
<1>8. MappedMonInVector'
  BY <1>1, <1>3, <1>5, <1>6, Zenon DEF RegInv, MappedMonInVector, Names
<1>9. \A x \in Mons : ~Added(x)' => x \notin Records' /\ x \notin freed'
  BY <1>1, <1>4, <1>5, Zenon DEF RegInv
<1>10. ASSUME NEW i \in 1 .. vec'.size, NEW j \in 1 .. vec'.size, vec'.mem[i] = vec'.mem[j]
       PROVE  i = j
  <2>1. \A p \in 1 .. vec.size : vec'.mem[p] \in Records
    BY <1>5, Zenon DEF Records
  <2>2. /\ i \in 1 .. vec.size \/ i = vec.size + 1
        /\ j \in 1 .. vec.size \/ j = vec.size + 1
    BY <1>5
  <2>3. CASE i \in 1 .. vec.size /\ j \in 1 .. vec.size
    BY <2>3, <1>5, <1>10, Zenon DEF RegInv
  <2> QED
    BY <2>1, <2>2, <2>3, <1>3, <1>5, <1>10, Zenon
<1>11. \A x \in Mons : mpc'[x] = "new" => hpc'[x] = "none"
  BY <1>1, <1>2 DEF RegInv, MonTypes
<1> QED
  BY <1>7, <1>8, <1>9, <1>10, <1>11, Zenon DEF RegInv, Names

\* Every step keeps the registry.
LEMMA RegStep ==
  ASSUME MonTypes, RegInv, [MNext]_mvars
  PROVE  RegInv'
<1> USE DEF monVars, regVars, mloopVars
<1>1. ASSUME NEW m \in Mons, DeleteMon(m) PROVE RegInv'
  BY <1>1, DeleteKeepsRegistry, Zenon
<1>2. ASSUME NEW m \in Mons, AddMon(m) PROVE RegInv'
  BY <1>2, AddKeepsRegistry, Zenon
<1>3. CASE \A m \in Mons : ~DeleteMon(m) /\ ~AddMon(m)
  <2> DEFINE Quiet == /\ UNCHANGED <<freed, vec, map>>
                      /\ \A x \in Mons : Added(x) => Added(x)'
                      /\ \A x \in Mons : mpc'[x] = "new" => mpc[x] = "new" /\ hpc'[x] = hpc[x]
  <2>1. ASSUME NEW m \in Mons, Register(m) PROVE Quiet
    BY <2>1, Zenon DEF Register, Added, MonTypes
  <2>2. ASSUME NEW m \in Mons, Answered(m) PROVE Quiet
    BY <2>2 DEF Answered, MSend, Added, MonTypes
  <2>3. ASSUME NEW m \in Mons, Mapped(m) PROVE Quiet
    BY <2>3, Zenon DEF Mapped, MSend, Added, MonTypes
  <2>4. ASSUME NEW m \in Mons, Crash(m) PROVE Quiet
    BY <2>4, Zenon DEF Crash, Added, MonTypes
  <2>5. ASSUME NEW m \in Mons, HasMon(m) PROVE Quiet
    BY <2>5 DEF HasMon, HGoto, Added, MonTypes, RegInv
  <2>6. ASSUME NEW m \in Mons, SendRegistered(m) PROVE Quiet
    BY <2>6 DEF SendRegistered, HGoto, Added, MonTypes, RegInv
  <2>7. ASSUME UNCHANGED <<mpc, hpc, freed, vec, map>> PROVE Quiet
    BY <2>7, Zenon DEF Added
  <2>8. CASE MLoop
    <3>1. UNCHANGED <<mpc, hpc, freed, vec, map>>
      BY <2>8, Zenon DEF MLoop, Dequeue, ProcessBatch, GetNumMons, GetMon, SweepDone, Skip, Grant, Refuse, UseDeleted
    <3> QED
      BY <3>1, <2>7, QuietRegistry, Zenon
  <2>9. CASE UNCHANGED mvars
    BY <2>9, <2>7, QuietRegistry, Zenon DEF mvars
  <2>10. CASE \E m \in Mons : Register(m) \/ Answered(m) \/ Mapped(m) \/ Crash(m) \/ HasMon(m) \/ SendRegistered(m)
    <3>1. Quiet
      <4> HIDE DEF Quiet
      <4> QED
        BY <2>10, <2>1, <2>2, <2>3, <2>4, <2>5, <2>6, Zenon
    <3> QED
      BY <3>1, QuietRegistry, Zenon
  <2> HIDE DEF Quiet
  <2> QED
    BY <1>3, <2>8, <2>9, <2>10, Zenon DEF MNext, MonHandler, HandleMon, Poll
<1> QED
  BY <1>1, <1>2, <1>3, Zenon

-----------------------------------------------------------------------------
\* There is a field of each kind for every monitor.
LEMMA Fields ==
  ASSUME MonTypes
  PROVE  /\ DOMAIN mpc = Mons /\ DOMAIN call = Mons /\ DOMAIN shown = Mons /\ DOMAIN up = Mons
         /\ DOMAIN down = Mons /\ DOMAIN hpc = Mons /\ DOMAIN state = Mons
BY Zenon DEF MonTypes

\* A step that concerns one monitor at most leaves the phases of the others.
LEMMA OneMonitor ==
  ASSUME PhaseInv, NEW m,
         \A x \in Mons \ {m} :
           /\ mpc'[x] = mpc[x] /\ call'[x] = call[x] /\ shown'[x] = shown[x] /\ up'[x] = up[x]
           /\ down'[x] = down[x] /\ hpc'[x] = hpc[x] /\ state'[x] = state[x],
         m \in Mons /\ Live(m)' => Phase(m)'
  PROVE  PhaseInv'
<1>1. ASSUME NEW x \in Mons, x # m, Live(x)' PROVE Phase(x)'
  <2>1. Phase(x)
    BY <1>1, Zenon DEF PhaseInv, Live
  <2>2. /\ mpc'[x] = mpc[x] /\ call'[x] = call[x] /\ shown'[x] = shown[x] /\ up'[x] = up[x]
        /\ down'[x] = down[x] /\ hpc'[x] = hpc[x] /\ state'[x] = state[x]
    BY <1>1, Zenon
  <2> QED
    BY <2>1, <2>2, Zenon DEF Phase
<1> QED
  BY <1>1, Zenon DEF PhaseInv

\* The loop refuses a dead monitor only: a live one asks for what its record awaits.
LEMMA RefusedGone ==
  ASSUME MonTypes, PhaseInv, Refuse, NEW c \in Mons, c = cur
  PROVE  ~Live(c)
<1> SUFFICES ASSUME Live(c) PROVE FALSE
  BY Zenon
<1>1. Phase(c)
  BY Zenon DEF PhaseInv
<1>2. /\ state[c] = Before(stage) /\ up[c] # stage /\ stage \in MonActions
      /\ up[c] # Null
  BY Zenon DEF Refuse, MonTypes, CanBeRead, Live
<1> QED
  BY <1>1, <1>2, MonAssumption, Zenon DEF Phase, Before, MonActions, MonStates

\* Every step takes a live monitor from one phase to the next.
LEMMA PhaseStep ==
  ASSUME MonTypes, RegInv, PhaseInv, [MNext]_mvars
  PROVE  PhaseInv'
<1> USE DEF monVars, regVars, mloopVars
<1>1. ASSUME NEW m \in Mons, Register(m) PROVE PhaseInv'
  <2>1. Live(m) /\ Phase(m)
    BY <1>1, Zenon DEF Register, PhaseInv, Live
  <2>2. Phase(m)'
    BY <1>1, <2>1, Fields, Zenon DEF Register, Phase
  <2> QED
    BY <1>1, <2>2, OneMonitor, Fields, Zenon DEF Register
<1>2. ASSUME NEW m \in Mons, Answered(m) PROVE PhaseInv'
  <2>1. Live(m) /\ Phase(m)
    BY <1>2, Zenon DEF Answered, PhaseInv, Live
  <2>2. Phase(m)'
    <3>1. CASE call[m] = "BEGIN_UPDATE" /\ down[m].ok
      <4>1. /\ mpc'[m] = "map" /\ call'[m] = "BEGIN_UPDATE" /\ up'[m] = up[m] /\ down'[m] = Null
            /\ hpc'[m] = hpc[m] /\ state'[m] = state[m] /\ shown'[m] = Append(shown[m], down[m].batch)
        BY <1>2, <3>1, Fields, Zenon DEF Answered
      <4>2. shown'[m] # << >>
        <5>1. shown[m] \in Seq(Nat)
          BY Zenon DEF MonTypes
        <5> QED
          BY <5>1, <4>1
      <4>3. up[m] = Null /\ hpc[m] = "none" /\ state[m] = "PERFORMING_UPDATE"
        BY <1>2, <2>1, <3>1, Zenon DEF Answered, Phase
      <4> QED
        BY <4>1, <4>2, <4>3, Zenon DEF Phase
    <3>2. CASE ~(call[m] = "BEGIN_UPDATE" /\ down[m].ok)
      <4>1. /\ mpc'[m] = "wait" /\ call'[m] = "BEGIN_UPDATE" /\ up'[m] = "BEGIN_UPDATE" /\ down'[m] = Null
            /\ hpc'[m] = hpc[m] /\ state'[m] = state[m]
        BY <1>2, <3>2, Fields, Zenon DEF Answered, MSend
      <4>2. hpc[m] = "none" /\ state[m] = "READY_UPDATE"
        BY <1>2, <2>1, <3>2, Zenon DEF Answered, Phase
      <4> QED
        BY <4>1, <4>2, Zenon DEF Phase
    <3> QED
      BY <3>1, <3>2, Zenon
  <2> QED
    <3>1. \A x \in Mons \ {m} :
             /\ mpc'[x] = mpc[x] /\ call'[x] = call[x] /\ shown'[x] = shown[x] /\ up'[x] = up[x]
             /\ down'[x] = down[x] /\ hpc'[x] = hpc[x] /\ state'[x] = state[x]
      BY <1>2, Fields, Zenon DEF Answered, MSend
    <3> QED
      BY <2>2, <3>1, OneMonitor, Zenon
<1>3. ASSUME NEW m \in Mons, Mapped(m) PROVE PhaseInv'
  <2>1. Live(m) /\ Phase(m)
    BY <1>3, Zenon DEF Mapped, PhaseInv, Live
  <2>2. Phase(m)'
    BY <1>3, <2>1, Fields, Zenon DEF Mapped, MSend, Phase
  <2> QED
    BY <1>3, <2>2, OneMonitor, Fields, Zenon DEF Mapped, MSend
<1>4. ASSUME NEW m \in Mons, Crash(m) PROVE PhaseInv'
  BY <1>4, OneMonitor, Zenon DEF Crash, MonTypes, Live
<1>5. ASSUME NEW m \in Mons, HasMon(m) PROVE PhaseInv'
  <2>1. ASSUME Live(m)' PROVE Phase(m)'
    <3>1. Phase(m)
      BY <1>5, <2>1, Zenon DEF HasMon, PhaseInv, Live
    <3> QED
      BY <1>5, <3>1, Fields, Zenon DEF HasMon, HGoto, Phase
  <2> QED
    BY <1>5, <2>1, OneMonitor, Fields, Zenon DEF HasMon, HGoto
<1>6. ASSUME NEW m \in Mons, DeleteMon(m) PROVE PhaseInv'
  <2>1. /\ hpc[m] = "delete_mon" /\ hpc' = [hpc EXCEPT ![m] = "add_mon"]
        /\ UNCHANGED <<monVars, up, down, state>>
    BY <1>6, Zenon DEF DeleteMon, HGoto
  <2>2. ASSUME Live(m)' PROVE Phase(m)'
    <3>1. Phase(m)
      BY <2>1, <2>2, Zenon DEF PhaseInv, Live
    <3> QED
      BY <2>1, <3>1, Fields, Zenon DEF Phase
  <2> QED
    BY <2>1, <2>2, OneMonitor, Fields, Zenon
<1>7. ASSUME NEW m \in Mons, AddMon(m) PROVE PhaseInv'
  <2>1. ASSUME Live(m)' PROVE Phase(m)'
    <3>1. Phase(m)
      BY <1>7, <2>1, Zenon DEF AddMon, PhaseInv, Live
    <3> QED
      BY <1>7, <3>1, Fields, Zenon DEF AddMon, HGoto, Phase
  <2> QED
    BY <1>7, <2>1, OneMonitor, Fields, Zenon DEF AddMon, HGoto
<1>8. ASSUME NEW m \in Mons, SendRegistered(m) PROVE PhaseInv'
  <2>1. [ok |-> TRUE, batch |-> batch] # Null
    <3>1. [ok |-> TRUE, batch |-> batch] \in Answers
      BY Zenon DEF Answers, MonTypes
    <3> QED
      BY <3>1, MonAssumption, Zenon
  <2>2. ASSUME Live(m)' PROVE Phase(m)'
    <3>1. Phase(m)
      BY <1>8, <2>2, Zenon DEF SendRegistered, PhaseInv, Live
    <3> QED
      BY <1>8, <2>1, <3>1, Fields, Zenon DEF SendRegistered, HGoto, MReply, Phase
  <2> QED
    BY <1>8, <2>2, OneMonitor, Fields, Zenon DEF SendRegistered, HGoto, MReply
<1>9. CASE Grant
  <2>1. [ok |-> TRUE, batch |-> batch] # Null
    <3>1. [ok |-> TRUE, batch |-> batch] \in Answers
      BY Zenon DEF Answers, MonTypes
    <3> QED
      BY <3>1, MonAssumption, Zenon
  <2>2. PICK c \in Mons : c = cur
    BY <1>9, Zenon DEF Grant, MonTypes
  <2>3. ASSUME Live(c)' PROVE Phase(c)'
    <3>1. Phase(c)
      BY <1>9, <2>3, Zenon DEF Grant, PhaseInv, Live
    <3>2. /\ state[c] = Before(stage) /\ up[c] = stage /\ stage \in MonActions
          /\ up'[c] = Null /\ down'[c] = [ok |-> TRUE, batch |-> batch]
          /\ state'[c] = AfterGrant(stage)
          /\ UNCHANGED <<mpc, call, shown, hpc>>
      BY <1>9, <2>2, Zenon DEF Grant, MReply, MonTypes
    <3> QED
      <4>1. CASE stage = "BEGIN_UPDATE"
        <5>1. call[c] = "BEGIN_UPDATE" /\ mpc[c] = "wait" /\ hpc[c] = "none"
          BY <3>1, <3>2, <4>1, MonAssumption, Zenon DEF Phase, MonActions
        <5> QED
          <6>1. /\ mpc'[c] = "wait" /\ hpc'[c] = "none" /\ up'[c] = Null /\ down'[c] # Null
                /\ call'[c] = "BEGIN_UPDATE" /\ state'[c] = "PERFORMING_UPDATE" /\ down'[c].ok
            BY <5>1, <2>1, <3>2, <4>1 DEF AfterGrant
          <6> QED
            BY <6>1, Zenon DEF Phase
      <4>2. CASE stage = "END_UPDATE"
        <5>1. call[c] = "END_UPDATE" /\ mpc[c] = "wait" /\ hpc[c] = "none"
          BY <3>1, <3>2, <4>2, MonAssumption, Zenon DEF Phase, MonActions
        <5> QED
          <6>1. /\ mpc'[c] = "wait" /\ hpc'[c] = "none" /\ up'[c] = Null /\ down'[c] # Null
                /\ call'[c] = "END_UPDATE" /\ state'[c] = "READY_UPDATE"
            BY <5>1, <2>1, <3>2, <4>2, Zenon DEF AfterGrant
          <6> QED
            BY <6>1, Zenon DEF Phase
      <4> QED
        BY <4>1, <4>2, <3>2, Zenon DEF MonActions
  <2>4. \A x \in Mons \ {c} :
           /\ mpc'[x] = mpc[x] /\ call'[x] = call[x] /\ shown'[x] = shown[x] /\ up'[x] = up[x]
           /\ down'[x] = down[x] /\ hpc'[x] = hpc[x] /\ state'[x] = state[x]
    BY <1>9, <2>2, Zenon DEF Grant, MReply, MonTypes
  <2> QED
    BY <2>3, <2>4, OneMonitor, Zenon
<1>10. CASE Refuse
  <2>1. PICK c \in Mons : c = cur
    BY <1>10, Zenon DEF Refuse, MonTypes
  <2>2. ~Live(c)
    BY <1>10, <2>1, RefusedGone, Zenon
  <2>3. \A x \in Mons \ {c} :
           /\ mpc'[x] = mpc[x] /\ call'[x] = call[x] /\ shown'[x] = shown[x] /\ up'[x] = up[x]
           /\ down'[x] = down[x] /\ hpc'[x] = hpc[x] /\ state'[x] = state[x]
    <3>1. CASE stage = "BEGIN_UPDATE"
      BY <1>10, <2>1, <3>1 DEF Refuse, MReply, MonTypes
    <3>2. CASE stage # "BEGIN_UPDATE"
      BY <1>10, <2>1, <3>2, Zenon DEF Refuse, MonTypes
    <3> QED
      BY <3>1, <3>2, Zenon
  <2>4. ~Live(c)'
    BY <1>10, <2>2, Zenon DEF Refuse, Live
  <2> QED
    BY <2>3, <2>4, OneMonitor, Zenon
<1>11. ASSUME UNCHANGED <<monVars, up, down, hpc, state>> PROVE PhaseInv'
  <2> SUFFICES ASSUME NEW x \in Mons, Live(x)' PROVE Phase(x)'
    BY Zenon DEF PhaseInv
  <2>1. Live(x) /\ Phase(x)
    BY <1>11, Zenon DEF Live, PhaseInv
  <2> QED
    BY <2>1, <1>11, Zenon DEF Phase
<1>12. CASE MLoop /\ ~Grant /\ ~Refuse
  <2>1. UNCHANGED <<monVars, up, down, hpc, state>>
    BY <1>12, Zenon DEF MLoop, Dequeue, ProcessBatch, GetNumMons, GetMon, SweepDone, Skip, UseDeleted
  <2> QED
    BY <2>1, <1>11, Zenon
<1>13. CASE UNCHANGED mvars
  BY <1>13, <1>11, Zenon DEF mvars
<1> QED
  BY <1>1, <1>2, <1>3, <1>4, <1>5, <1>6, <1>7, <1>8, <1>9, <1>10, <1>12, <1>13, Zenon
    DEF MNext, MonHandler, HandleMon, Poll

-----------------------------------------------------------------------------
\* The server starts without monitors.
LEMMA ConnInvInit == MInit => ConnInv
<1> SUFFICES ASSUME MInit PROVE ConnInv
  BY Zenon
<1> USE MonAssumption DEF MInit
<1>1. MonTypes
  <2>1. cast \in [present : SUBSET Mons, crashing : SUBSET Mons, batches : Nat]
    BY Zenon
  <2>2. shown \in [Mons -> Seq(Nat)]
    OBVIOUS
  <2>3. vec \in [mem : Seq(Mons), size : Nat] /\ vec.size <= Len(vec.mem) /\ stop <= Len(vec.mem)
    OBVIOUS
  <2>4. moved \in BOOLEAN
    BY Zenon
  <2>5. /\ mpc \in [Mons -> {"new", "wait", "map", "gone"}]
        /\ call \in [Mons -> MonActions \cup {"REGISTER_MON"}]
        /\ up \in [Mons -> MonActions \cup {Null}]
        /\ down \in [Mons -> Answers \cup {Null}]
        /\ hpc \in [Mons -> {"none", "has_mon", "delete_mon", "add_mon", "reply"}]
        /\ state \in [Mons -> MonStates \cup {Null}]
        /\ map \in [Names -> Mons \cup {Null}]
    BY Zenon
  <2>6. freed \subseteq Mons /\ due \subseteq Mons /\ stage \in MonActions /\ cur \in Mons \cup {Null}
    BY Zenon DEF MonActions
  <2> QED
    BY <2>1, <2>2, <2>3, <2>4, <2>5, <2>6, Zenon DEF MonTypes
<1>2. Records = {}
  BY DEF Records
<1>3. RegInv
  BY <1>2 DEF RegInv, MappedMonInVector, Added
<1>4. PhaseInv
  BY Zenon DEF PhaseInv, Phase
<1> QED
  BY <1>1, <1>3, <1>4, Zenon DEF ConnInv

\* ConnInv is inductive.
THEOREM ConnInvariant == MSpec => []ConnInv
<1>1. ConnInv /\ [MNext]_mvars => ConnInv'
  BY MonTypesStep, RegStep, PhaseStep, Zenon DEF ConnInv
<1> QED
  BY <1>1, ConnInvInit, PTL DEF MSpec

\* handle_mon's three calls on the registry, however many monitors register under
\* one name at once: the record that monitor_map gives for a name is in the vector
\* and not deleted.
THEOREM RegistryAgrees == MSpec => []MappedMonInVector
<1>1. ConnInv => MappedMonInVector
  BY Zenon DEF ConnInv, RegInv
<1> QED
  BY <1>1, ConnInvariant, PTL

-----------------------------------------------------------------------------
(***************************************************************************)
(* The rounds of the process loop.                                         *)
(***************************************************************************)

\* The answer to BEGIN_UPDATE is on its way to the monitor.
Granted(m) == call[m] = "BEGIN_UPDATE" /\ down[m] # Null
Last(m) == shown[m][Len(shown[m])]
\* The batch of the last update that a monitor has been shown, or will read.
Seen(m) == IF Granted(m) THEN down[m].batch ELSE Last(m)
History(m) == shown[m] # << >> \/ Granted(m)

Walking == lpc \in {"get_mon", "serve"}
\* The record at place p has not been served for the current batch.
Ahead(p) == lpc \in {"process_batch", "get_num_mons"} \/ (Walking /\ stage = "BEGIN_UPDATE" /\ p >= idx)

\* The batches of the graph.
GraphInv == IF lpc = "process_batch" THEN graph + 1 = batch ELSE graph = batch

\* The sweeps walk over the records that the section began with.
WalkInv ==
  Walking => /\ idx <= stop + 1 /\ stop <= vec.size
             /\ due = {vec.mem[p] : p \in 1 .. stop}
             /\ lpc = "serve" => idx <= stop /\ cur = vec.mem[idx]

\* Only a section of the loop has monitors in their updates; the first sweep leaves
\* them behind its index, the second finds them ahead of it.
PerformingInv ==
  \A m \in Mons : Live(m) /\ state[m] = "PERFORMING_UPDATE" =>
    /\ Seen(m) = batch
    /\ Walking \/ lpc = "dead"
    /\ Walking => \E p \in 1 .. stop :
         vec.mem[p] = m /\ (IF stage = "BEGIN_UPDATE" THEN p < idx ELSE p >= idx)

\* Who has been shown a batch was shown the last one, unless its turn is to come.
SeenInv ==
  lpc # "dead" => \A p \in 1 .. vec.size :
    Live(vec.mem[p]) /\ History(vec.mem[p]) =>
      /\ Seen(vec.mem[p]) = IF Ahead(p) THEN batch - 1 ELSE batch
      /\ Walking => p <= stop

\* Who had its turn was shown the batch.
ServedInv ==
  /\ Walking => \A p \in 1 .. stop : Live(vec.mem[p]) /\ ~Ahead(p) => History(vec.mem[p])
  /\ lpc = "dequeue" => \A m \in due : Live(m) => History(m) /\ Seen(m) = batch

RoundInv == GraphInv /\ WalkInv /\ PerformingInv /\ SeenInv /\ ServedInv

OrderInv ==
  \A m \in Mons :
    /\ \A i \in 1 .. Len(shown[m]) - 1 : shown[m][i + 1] = shown[m][i] + 1
    /\ Live(m) /\ Granted(m) /\ shown[m] # << >> => down[m].batch = Last(m) + 1

\* The whole invariant.
MonInv == ConnInv /\ (~moved => RoundInv /\ OrderInv)

-----------------------------------------------------------------------------
\* What a step leaves of the monitor m, if it lives: the same updates.
KeepsView(m) ==
  Live(m)' => /\ Live(m)
              /\ state'[m] = "PERFORMING_UPDATE" => state[m] = "PERFORMING_UPDATE"
              /\ History(m)' <=> History(m)
              /\ History(m) => Seen(m)' = Seen(m)

\* A monitor in its update has been shown one.
LEMMA PerformingHasHistory ==
  ASSUME PhaseInv, NEW m \in Mons, Live(m), state[m] = "PERFORMING_UPDATE"
  PROVE  History(m)
<1>1. Phase(m)
  BY Zenon DEF PhaseInv
<1> QED
  BY <1>1, MonAssumption, Zenon DEF Phase, History, Granted, MonStates

\* The records of the vector are monitors.
LEMMA RecordTypes ==
  ASSUME MonTypes
  PROVE  /\ vec.size \in Nat /\ stop \in Nat /\ idx \in Nat /\ batch \in Nat
         /\ \A p \in 1 .. vec.size : vec.mem[p] \in Mons
BY DEF MonTypes

\* A step of a monitor or of its connection that keeps what every monitor has been
\* shown, while the loop and the registry rest, keeps the round.
LEMMA QuietRound ==
  ASSUME MonTypes, PhaseInv, RoundInv, UNCHANGED <<vec, lpc, stage, idx, stop, cur, due, batch, graph>>,
         \A m \in Mons : KeepsView(m)
  PROVE  RoundInv'
<1>1. GraphInv' /\ WalkInv'
  BY Zenon DEF RoundInv, GraphInv, WalkInv, Walking
<1>2. PerformingInv'
  <2> SUFFICES ASSUME NEW m \in Mons, Live(m)', state'[m] = "PERFORMING_UPDATE"
               PROVE  /\ Seen(m)' = batch'
                      /\ (Walking \/ lpc = "dead")'
                      /\ Walking' => \E p \in 1 .. stop' :
                           vec'.mem[p] = m /\ (IF stage' = "BEGIN_UPDATE" THEN p < idx' ELSE p >= idx')
    BY Zenon DEF PerformingInv
  <2>1. Live(m) /\ state[m] = "PERFORMING_UPDATE"
    BY Zenon DEF KeepsView
  <2>2. Seen(m)' = Seen(m)
    BY <2>1, PerformingHasHistory, Zenon DEF KeepsView
  <2> QED
    BY <2>1, <2>2, Zenon DEF RoundInv, PerformingInv, Walking
<1>3. \A p \in 1 .. vec.size : vec.mem[p] \in Mons
  BY RecordTypes, Zenon
<1>4. SeenInv'
  <2> SUFFICES ASSUME lpc' # "dead", NEW p \in 1 .. vec'.size,
                      Live(vec.mem[p])', History(vec.mem[p])'
               PROVE  /\ Seen(vec.mem[p])' = IF Ahead(p)' THEN batch' - 1 ELSE batch'
                      /\ Walking' => p <= stop'
    BY Zenon DEF SeenInv
  <2>1. PICK m \in Mons : m = vec.mem[p] /\ m = vec'.mem[p]
    BY <1>3, Zenon
  <2>2. Live(m)' /\ History(m)'
    BY <2>1, Zenon DEF Live, History, Granted
  <2>3. Live(m) /\ History(m) /\ Seen(m)' = Seen(m)
    BY <2>2, Zenon DEF KeepsView
  <2>4. Ahead(p)' <=> Ahead(p)
    BY Zenon DEF Ahead, Walking
  <2>5. Seen(vec.mem[p])' = Seen(m)'
    BY <2>1, Zenon DEF Seen, Granted, Last
  <2> QED
    BY <2>1, <2>3, <2>4, <2>5, Zenon DEF RoundInv, SeenInv, Walking
<1>5. ServedInv'
  <2>1. ASSUME Walking', NEW p \in 1 .. stop', Live(vec.mem[p])', ~Ahead(p)'
        PROVE  History(vec.mem[p])'
    <3>1. stop \in Nat /\ vec.size \in Nat /\ stop <= vec.size /\ Walking
      BY <2>1, RecordTypes, Zenon DEF RoundInv, WalkInv, Walking
    <3>2. PICK m \in Mons : m = vec.mem[p] /\ m = vec'.mem[p]
      BY <1>3, <3>1
    <3>3. Live(m)' /\ ~Ahead(p)
      BY <2>1, <3>2, Zenon DEF Live, Ahead, Walking
    <3>4. History(m)
      BY <3>1, <3>2, <3>3, Zenon DEF RoundInv, ServedInv, KeepsView
    <3>5. History(m)'
      BY <3>3, <3>4, Zenon DEF KeepsView
    <3> QED
      BY <3>5, <3>2, Zenon DEF History, Granted
  <2>2. ASSUME lpc' = "dequeue", NEW m \in due', Live(m)'
        PROVE  History(m)' /\ Seen(m)' = batch'
    <3>1. m \in Mons
      BY Zenon DEF MonTypes
    <3> QED
      BY <2>2, <3>1, Zenon DEF RoundInv, ServedInv, KeepsView
  <2> QED
    BY <2>1, <2>2, Zenon DEF ServedInv
<1> QED
  BY <1>1, <1>2, <1>4, <1>5, Zenon DEF RoundInv

\* What SeenInv says of the monitor at a place, by its name.
LEMMA SeenAt ==
  ASSUME SeenInv, lpc # "dead", NEW p \in 1 .. vec.size, NEW m, m = vec.mem[p],
         Live(m), History(m)
  PROVE  /\ Seen(m) = IF Ahead(p) THEN batch - 1 ELSE batch
         /\ Walking => p <= stop
BY Zenon DEF SeenInv

\* SeenInv holds after a step if it holds of every monitor by its name.
LEMMA SeenNext ==
  ASSUME \A p \in 1 .. vec'.size : \A m : lpc' # "dead" /\ m = vec'.mem[p] /\ Live(m)' /\ History(m)' =>
           /\ Seen(m)' = IF Ahead(p)' THEN batch' - 1 ELSE batch'
           /\ Walking' => p <= stop'
  PROVE  SeenInv'
<1> SUFFICES ASSUME lpc' # "dead", NEW p \in 1 .. vec'.size,
                    Live(vec.mem[p])', History(vec.mem[p])'
             PROVE  /\ Seen(vec.mem[p])' = IF Ahead(p)' THEN batch' - 1 ELSE batch'
                    /\ Walking' => p <= stop'
  BY Zenon DEF SeenInv
<1>1. PICK m : m = vec'.mem[p]
  BY Zenon
<1>2. Live(m)' /\ History(m)' /\ Seen(vec.mem[p])' = Seen(m)'
  BY <1>1, Zenon DEF Live, History, Granted, Seen, Last
<1> QED
  BY <1>1, <1>2, Zenon

\* The same of ServedInv.
LEMMA ServedNext ==
  ASSUME Walking' => \A p \in 1 .. stop' : \A m : m = vec'.mem[p] /\ Live(m)' /\ ~Ahead(p)' => History(m)',
         lpc' = "dequeue" => \A m \in due' : Live(m)' => History(m)' /\ Seen(m)' = batch'
  PROVE  ServedInv'
<1>1. ASSUME Walking', NEW p \in 1 .. stop', Live(vec.mem[p])', ~Ahead(p)' PROVE History(vec.mem[p])'
  <2>1. PICK m : m = vec'.mem[p]
    BY Zenon
  <2>2. Live(m)'
    BY <2>1, <1>1, Zenon DEF Live
  <2>3. History(m)'
    BY <2>1, <2>2, <1>1, Zenon
  <2> QED
    BY <2>1, <2>3, Zenon DEF History, Granted
<1> QED
  BY <1>1, Zenon DEF ServedInv

\* add_mon puts a monitor without updates behind those the sweeps walk over.
LEMMA AddKeepsRound ==
  ASSUME MonTypes, PhaseInv, RoundInv, NEW m \in Mons, AddMon(m)
  PROVE  RoundInv'
<1>1. /\ hpc[m] = "add_mon" /\ state' = [state EXCEPT ![m] = "READY_UPDATE"]
      /\ UNCHANGED <<mpc, call, shown, up, down, lpc, stage, idx, stop, cur, due, batch, graph>>
  BY Zenon DEF AddMon, HGoto, monVars, mloopVars
<1>2. /\ vec'.size = vec.size + 1 /\ vec.size \in Nat
      /\ \A p \in 1 .. vec.size : vec'.mem[p] = vec.mem[p]
      /\ vec'.mem[vec.size + 1] = m
  BY Appended, Zenon DEF MonTypes
<1>3. Live(m) => ~History(m)
  BY <1>1, MonAssumption, Zenon DEF PhaseInv, Phase, History, Granted
<1>4. \A x : /\ Live(x)' <=> Live(x)
             /\ History(x)' <=> History(x)
             /\ Seen(x)' = Seen(x)
  BY <1>1, Zenon DEF Live, History, Granted, Seen, Last
<1>5. \A x \in Mons : state'[x] = "PERFORMING_UPDATE" => state[x] = "PERFORMING_UPDATE"
  BY <1>1, Zenon DEF MonTypes
<1>6. Walking' <=> Walking
  BY <1>1, Zenon DEF Walking
<1>7. Walking => stop \in Nat /\ stop <= vec.size /\ \A p \in 1 .. stop : vec'.mem[p] = vec.mem[p]
  BY <1>2 DEF RoundInv, WalkInv, MonTypes
<1>8. GraphInv'
  BY <1>1, Zenon DEF RoundInv, GraphInv
<1>9. WalkInv'
  <2> SUFFICES ASSUME Walking
               PROVE  /\ idx <= stop + 1 /\ stop <= vec'.size
                      /\ due = {vec'.mem[p] : p \in 1 .. stop}
                      /\ lpc = "serve" => idx <= stop /\ cur = vec'.mem[idx]
    BY <1>1, <1>6, Zenon DEF WalkInv
  <2>1. /\ idx <= stop + 1 /\ stop <= vec.size /\ due = {vec.mem[p] : p \in 1 .. stop}
        /\ lpc = "serve" => idx <= stop /\ cur = vec.mem[idx]
        /\ idx \in Nat /\ idx >= 1
    BY Zenon DEF RoundInv, WalkInv, MonTypes, Walking
  <2>2. {vec'.mem[p] : p \in 1 .. stop} = {vec.mem[p] : p \in 1 .. stop}
    BY <1>7, Zenon
  <2> QED
    BY <2>1, <2>2, <1>2, <1>7
<1>10. PerformingInv'
  <2> SUFFICES ASSUME NEW x \in Mons, Live(x)', state'[x] = "PERFORMING_UPDATE"
               PROVE  /\ Seen(x)' = batch'
                      /\ (Walking \/ lpc = "dead")'
                      /\ Walking' => \E p \in 1 .. stop' :
                           vec'.mem[p] = x /\ (IF stage' = "BEGIN_UPDATE" THEN p < idx' ELSE p >= idx')
    BY Zenon DEF PerformingInv
  <2>1. Live(x) /\ state[x] = "PERFORMING_UPDATE"
    BY <1>4, <1>5, Zenon
  <2> QED
    BY <2>1, <1>1, <1>4, <1>6, <1>7, Zenon DEF RoundInv, PerformingInv
<1>11. SeenInv'
  <2> SUFFICES ASSUME NEW p \in 1 .. vec'.size, NEW x, lpc' # "dead", x = vec'.mem[p], Live(x)', History(x)'
               PROVE  /\ Seen(x)' = IF Ahead(p)' THEN batch' - 1 ELSE batch'
                      /\ Walking' => p <= stop'
    BY SeenNext, Zenon
  <2>1. p # vec.size + 1
    BY <1>2, <1>3, <1>4, Zenon
  <2>2. p \in 1 .. vec.size /\ x = vec.mem[p]
    BY <2>1, <1>2
  <2>3. Ahead(p)' <=> Ahead(p)
    BY <1>1, <1>6, Zenon DEF Ahead
  <2> QED
    BY <2>2, <2>3, <1>1, <1>4, <1>6, SeenAt, Zenon DEF RoundInv
<1>12. ServedInv'
  <2>1. \A p : Ahead(p)' <=> Ahead(p)
    BY <1>1, <1>6, Zenon DEF Ahead
  <2>2. ASSUME Walking', NEW p \in 1 .. stop', NEW x, x = vec'.mem[p], Live(x)', ~Ahead(p)' PROVE History(x)'
    <3>1. p \in 1 .. stop /\ x = vec.mem[p] /\ Walking /\ Live(x) /\ ~Ahead(p)
      BY <2>2, <2>1, <1>1, <1>4, <1>6, <1>7, Zenon
    <3> QED
      BY <3>1, <1>4, Zenon DEF RoundInv, ServedInv
  <2>3. ASSUME lpc' = "dequeue", NEW x \in due', Live(x)' PROVE History(x)' /\ Seen(x)' = batch'
    BY <2>3, <1>1, <1>4, Zenon DEF RoundInv, ServedInv
  <2> QED
    BY <2>2, <2>3, ServedNext, Zenon
<1> QED
  BY <1>8, <1>9, <1>10, <1>11, <1>12, Zenon DEF RoundInv

\* delete_mon does no harm between the rounds.
LEMMA DeleteKeepsRound ==
  ASSUME MonTypes, RegInv, RoundInv, NEW m \in Mons, DeleteMon(m), ~moved', lpc # "dead"
  PROVE  RoundInv'
<1>1. UNCHANGED <<mpc, call, shown, up, down, state, lpc, stage, idx, stop, cur, due, batch, graph>>
  BY Zenon DEF DeleteMon, monVars, mloopVars
<1>2. \A x : /\ Live(x)' <=> Live(x)
             /\ History(x)' <=> History(x)
             /\ Seen(x)' = Seen(x)
  BY <1>1, Zenon DEF Live, History, Granted, Seen, Last
<1>3. Walking' <=> Walking
  BY <1>1, Zenon DEF Walking
<1>4. CASE map[NameOf[m]] = Null
  <2>1. UNCHANGED vec
    BY <1>4, Zenon DEF DeleteMon, regVars
  <2>2. GraphInv' /\ WalkInv' /\ PerformingInv' /\ SeenInv' /\ ServedInv'
    <3>1. \A p : Ahead(p)' <=> Ahead(p)
      BY <1>1, <1>3, Zenon DEF Ahead
    <3>2. SeenInv'
      BY <1>1, <1>2, <1>3, <2>1, <3>1, SeenAt, SeenNext, Zenon DEF RoundInv
    <3>3. ServedInv'
      BY <1>1, <1>2, <1>3, <2>1, <3>1, ServedNext, Zenon DEF RoundInv, ServedInv
    <3>4. PerformingInv'
      BY <1>1, <1>2, <1>3, <2>1, Zenon DEF RoundInv, PerformingInv
    <3> QED
      BY <1>1, <1>3, <2>1, <3>2, <3>3, <3>4, Zenon DEF RoundInv, GraphInv, WalkInv
  <2> QED
    BY <2>2, Zenon DEF RoundInv
<1>5. CASE map[NameOf[m]] # Null
  <2>1. ~Walking
    BY <1>5, Zenon DEF DeleteMon, Walking
  <2>2. Records' \subseteq Records
    BY <1>5, Erased, Zenon
  <2>3. \A p, q : Ahead(p)' <=> Ahead(q)
    BY <1>1, <1>3, <2>1, Zenon DEF Ahead
  <2>4. SeenInv'
    <3> SUFFICES ASSUME NEW p \in 1 .. vec'.size, NEW x, lpc' # "dead", x = vec'.mem[p], Live(x)', History(x)'
                 PROVE  /\ Seen(x)' = IF Ahead(p)' THEN batch' - 1 ELSE batch'
                        /\ Walking' => p <= stop'
      BY SeenNext, Zenon
    <3>1. x \in Records
      BY <2>2, Zenon DEF Records
    <3>2. PICK q \in 1 .. vec.size : x = vec.mem[q]
      BY <3>1, Zenon DEF Records
    <3>3. Seen(x) = IF Ahead(q) THEN batch - 1 ELSE batch
      BY <3>2, <1>2, SeenAt, Zenon DEF RoundInv
    <3> QED
      BY <3>3, <2>3, <2>1, <1>1, <1>2, <1>3, Zenon
  <2>5. ServedInv'
    BY <2>1, <1>1, <1>2, <1>3, ServedNext, Zenon DEF RoundInv, ServedInv
  <2>6. PerformingInv'
    BY <2>1, <1>1, <1>2, <1>3, Zenon DEF RoundInv, PerformingInv
  <2>7. GraphInv' /\ WalkInv'
    BY <2>1, <1>1, <1>3, Zenon DEF RoundInv, GraphInv, WalkInv
  <2> QED
    BY <2>4, <2>5, <2>6, <2>7, Zenon DEF RoundInv
<1> QED
  BY <1>4, <1>5, Zenon

\* The record the loop serves: its place, and that it is nowhere else.
LEMMA Serving ==
  ASSUME MonTypes, RegInv, RoundInv, lpc = "serve"
  PROVE  /\ Walking /\ idx \in 1 .. stop /\ stop \in Nat /\ stop <= vec.size /\ vec.size \in Nat
         /\ cur = vec.mem[idx] /\ cur \in Mons /\ Added(cur)
         /\ \A p \in 1 .. stop : vec.mem[p] = cur => p = idx
<1>1. /\ Walking /\ idx \in 1 .. stop /\ stop \in Nat /\ stop <= vec.size /\ vec.size \in Nat
      /\ cur = vec.mem[idx] /\ cur \in Mons
  BY DEF RoundInv, WalkInv, MonTypes, Walking
<1>2. cur \in Records /\ idx \in 1 .. vec.size
  BY <1>1 DEF Records
<1>3. Added(cur)
  BY <1>1, <1>2, Zenon DEF RegInv
<1>4. \A p \in 1 .. stop : vec.mem[p] = cur => p = idx
  BY <1>1, <1>2 DEF RegInv
<1> QED
  BY <1>1, <1>3, <1>4, Zenon

\* The turn of the record at idx is over, and its monitor, if it lives, has been
\* shown the batch: the round goes on.
LEMMA TurnOver ==
  ASSUME MonTypes, RegInv, PhaseInv, RoundInv, lpc = "serve", NextMon, UNCHANGED vec,
         NEW c \in Mons, c = cur,
         \A x \in Mons \ {c} : KeepsView(x),
         Live(c)' => /\ History(c)' /\ Seen(c)' = batch
                     /\ stage = "BEGIN_UPDATE" \/ state'[c] # "PERFORMING_UPDATE"
  PROVE  RoundInv'
<1>1. /\ idx' = idx + 1 /\ cur' = Null /\ lpc' = "get_mon"
      /\ UNCHANGED <<stage, stop, due, batch, graph>>
  BY Zenon DEF NextMon
<1>2. /\ Walking /\ idx \in 1 .. stop /\ stop \in Nat /\ stop <= vec.size /\ vec.size \in Nat
      /\ c = vec.mem[idx]
      /\ \A p \in 1 .. stop : vec.mem[p] = c => p = idx
  BY Serving, Zenon
<1>3. Walking'
  BY <1>1, Zenon DEF Walking
<1>4. GraphInv'
  BY <1>1, Zenon DEF RoundInv, GraphInv
<1>5. WalkInv'
  BY <1>1, <1>2 DEF RoundInv, WalkInv
<1>6. PerformingInv'
  <2> SUFFICES ASSUME NEW m \in Mons, Live(m)', state'[m] = "PERFORMING_UPDATE"
               PROVE  /\ Seen(m)' = batch
                      /\ \E p \in 1 .. stop :
                           vec.mem[p] = m /\ (IF stage = "BEGIN_UPDATE" THEN p < idx + 1 ELSE p >= idx + 1)
    BY <1>1, <1>3, Zenon DEF PerformingInv
  <2>1. CASE m = c
    BY <2>1, <1>2
  <2>2. CASE m # c
    <3>1. Live(m) /\ state[m] = "PERFORMING_UPDATE" /\ KeepsView(m)
      BY <2>2, Zenon DEF KeepsView
    <3>2. Seen(m)' = Seen(m)
      BY <3>1, PerformingHasHistory, Zenon DEF KeepsView
    <3>3. Seen(m) = batch
      BY <3>1, Zenon DEF RoundInv, PerformingInv
    <3>4. PICK p \in 1 .. stop : vec.mem[p] = m /\ (IF stage = "BEGIN_UPDATE" THEN p < idx ELSE p >= idx)
      BY <3>1, <1>2, Zenon DEF RoundInv, PerformingInv
    <3>5. p # idx
      BY <3>4, <2>2, <1>2, Zenon
    <3>6. IF stage = "BEGIN_UPDATE" THEN p < idx + 1 ELSE p >= idx + 1
      BY <3>4, <3>5, <1>2
    <3> QED
      BY <3>2, <3>3, <3>4, <3>6, Zenon
  <2> QED
    BY <2>1, <2>2, Zenon
<1>7. \A p \in Int : p # idx => (Ahead(p)' <=> Ahead(p))
  BY <1>1, <1>2, <1>3 DEF Ahead
<1>8. \A p \in Int : p = idx => ~Ahead(p)'
  BY <1>1, <1>2 DEF Ahead
<1>9. SeenInv'
  <2> SUFFICES ASSUME NEW p \in 1 .. vec'.size, NEW x, lpc' # "dead", x = vec'.mem[p], Live(x)', History(x)'
               PROVE  /\ Seen(x)' = IF Ahead(p)' THEN batch' - 1 ELSE batch'
                      /\ Walking' => p <= stop'
    BY SeenNext, Zenon
  <2>1. p \in 1 .. vec.size /\ x = vec.mem[p] /\ x \in Mons
    BY RecordTypes, Zenon
  <2>2. CASE p = idx
    <3>1. x = c
      BY <2>1, <2>2, <1>2, Zenon
    <3> QED
      BY <3>1, <2>2, <1>1, <1>2, <1>8
  <2>3. CASE p # idx
    <3>1. x # c
      <4>1. idx \in 1 .. vec.size
        BY <1>2
      <4> QED
        BY <4>1, <2>1, <2>3, <1>2, Zenon DEF RegInv
    <3>2. Live(x) /\ History(x) /\ Seen(x)' = Seen(x)
      BY <3>1, <2>1, Zenon DEF KeepsView
    <3>3. /\ Seen(x) = IF Ahead(p) THEN batch - 1 ELSE batch
          /\ p <= stop
      BY <3>2, <2>1, <1>2, SeenAt, Zenon DEF RoundInv
    <3>4. Ahead(p)' <=> Ahead(p)
      BY <2>1, <2>3, <1>2, <1>7
    <3> QED
      BY <3>2, <3>3, <3>4, <1>1, Zenon
  <2> QED
    BY <2>2, <2>3, Zenon
<1>10. ServedInv'
  <2>1. ASSUME NEW p \in 1 .. stop', NEW x, x = vec'.mem[p], Live(x)', ~Ahead(p)' PROVE History(x)'
    <3>1. p \in 1 .. stop /\ x = vec.mem[p] /\ x \in Mons
      BY <2>1, <1>1, <1>2, RecordTypes
    <3>2. CASE x = c
      BY <3>2, <2>1, Zenon
    <3>3. CASE x # c
      <4>1. p # idx
        BY <3>1, <3>3, <1>2, Zenon
      <4>2. ~Ahead(p)
        BY <4>1, <3>1, <1>2, <1>7, <2>1
      <4>3. Live(x) /\ (History(x)' <=> History(x))
        BY <3>1, <3>3, <2>1, Zenon DEF KeepsView
      <4> QED
        BY <4>2, <4>3, <3>1, <1>2, Zenon DEF RoundInv, ServedInv
    <3> QED
      BY <3>2, <3>3, Zenon
  <2> QED
    BY <2>1, <1>1, ServedNext, Zenon
<1> QED
  BY <1>4, <1>5, <1>6, <1>9, <1>10, Zenon DEF RoundInv

\* The loop skips no live monitor of the first sweep: its record awaits the request.
LEMMA SkipKeepsRound ==
  ASSUME MonTypes, RegInv, PhaseInv, RoundInv, Skip
  PROVE  RoundInv'
<1>1. lpc = "serve" /\ state[cur] # Before(stage) /\ NextMon /\ UNCHANGED <<mpc, call, shown, down, state, vec>>
  BY Zenon DEF Skip, monVars, regVars
<1>2. PICK c \in Mons : c = cur
  BY <1>1, Serving, Zenon
<1>3. /\ Walking /\ idx \in 1 .. stop /\ c = vec.mem[idx] /\ Added(c)
      /\ \A p \in 1 .. stop : vec.mem[p] = c => p = idx
  BY <1>1, <1>2, Serving, Zenon
<1>4. \A x \in Mons : KeepsView(x)
  BY <1>1, Zenon DEF KeepsView, Live, History, Granted, Seen, Last
<1>5. ASSUME Live(c)
      PROVE  History(c) /\ Seen(c) = batch /\ stage # "BEGIN_UPDATE" /\ state[c] # "PERFORMING_UPDATE"
  <2>1. state[c] \in {"READY_UPDATE", "PERFORMING_UPDATE"}
    BY <1>5, <1>3, Zenon DEF PhaseInv, Phase, Added
  <2>2. stage # "BEGIN_UPDATE"
    <3> SUFFICES ASSUME stage = "BEGIN_UPDATE" PROVE FALSE
      BY Zenon
    <3>1. state[c] = "PERFORMING_UPDATE"
      BY <2>1, <1>1, <1>2, Zenon DEF Before
    <3>2. \E p \in 1 .. stop : vec.mem[p] = c /\ p < idx
      BY <3>1, <1>3, <1>5, Zenon DEF RoundInv, PerformingInv
    <3>3. idx \in Nat
      BY RecordTypes, Zenon
    <3> QED
      BY <3>2, <3>3, <1>3
  <2>3. ~Ahead(idx)
    BY <2>2, <1>1, <1>3, Zenon DEF Ahead
  <2>4. History(c)
    BY <2>3, <1>3, <1>5, Zenon DEF RoundInv, ServedInv
  <2>5. idx \in 1 .. vec.size
    BY <1>1, Serving
  <2>6. Seen(c) = batch
    BY <2>3, <2>4, <2>5, <1>1, <1>3, <1>5, SeenAt, Zenon DEF RoundInv
  <2>7. state[c] # "PERFORMING_UPDATE"
    BY <2>2, <1>1, <1>2, Zenon DEF Before
  <2> QED
    BY <2>2, <2>4, <2>6, <2>7, Zenon
<1>6. Live(c)' => /\ History(c)' /\ Seen(c)' = batch
                  /\ stage = "BEGIN_UPDATE" \/ state'[c] # "PERFORMING_UPDATE"
  BY <1>4, <1>5, <1>1, Zenon DEF KeepsView
<1> QED
  BY <1>1, <1>2, <1>4, <1>6, TurnOver, Zenon

\* What a granted request is: that of the record's state.
LEMMA GrantedRequest ==
  ASSUME MonTypes, PhaseInv, Grant, NEW c \in Mons, c = cur, Live(c)
  PROVE  /\ call[c] = stage /\ down[c] = Null /\ hpc[c] = "none"
         /\ stage = "END_UPDATE" => shown[c] # << >>
<1>1. Phase(c)
  BY Zenon DEF PhaseInv
<1>2. up[c] = stage /\ stage \in MonActions
  BY Zenon DEF Grant, MonTypes
<1>3. up[c] # Null
  BY <1>2, MonAssumption, Zenon
<1> QED
  BY <1>1, <1>2, <1>3, Zenon DEF Phase

LEMMA GrantKeepsRound ==
  ASSUME MonTypes, RegInv, PhaseInv, RoundInv, Grant
  PROVE  RoundInv'
<1>1. /\ lpc = "serve" /\ NextMon /\ UNCHANGED <<mpc, call, shown, vec>>
      /\ down' = [down EXCEPT ![cur] = [ok |-> TRUE, batch |-> batch]]
      /\ state' = [state EXCEPT ![cur] = AfterGrant(stage)]
  BY Zenon DEF Grant, monVars, regVars, MReply
<1>2. PICK c \in Mons : c = cur
  BY <1>1, Serving, Zenon
<1>3. /\ down'[c] = [ok |-> TRUE, batch |-> batch] /\ state'[c] = AfterGrant(stage)
      /\ \A x \in Mons \ {c} : down'[x] = down[x] /\ state'[x] = state[x]
  BY <1>1, <1>2 DEF MonTypes
<1>4. \A x \in Mons \ {c} : KeepsView(x)
  <2> TAKE x \in Mons \ {c}
  <2>1. /\ mpc'[x] = mpc[x] /\ call'[x] = call[x] /\ shown'[x] = shown[x]
        /\ down'[x] = down[x] /\ state'[x] = state[x]
    BY <1>1, <1>3, Zenon
  <2> QED
    BY <2>1, Zenon DEF KeepsView, Live, History, Granted, Seen, Last
<1>5. down'[c] # Null /\ down'[c].batch = batch
  <2>1. [ok |-> TRUE, batch |-> batch] \in Answers
    BY Zenon DEF Answers, MonTypes
  <2>2. down'[c] # Null
    BY <2>1, <1>3, MonAssumption, Zenon
  <2> QED
    BY <2>2, <1>3
<1>6. ASSUME Live(c)'
      PROVE  /\ History(c)' /\ Seen(c)' = batch
             /\ stage = "BEGIN_UPDATE" \/ state'[c] # "PERFORMING_UPDATE"
  <2>1. Live(c)
    BY <1>6, <1>1, Zenon DEF Live
  <2>2. call[c] = stage /\ down[c] = Null /\ (stage = "END_UPDATE" => shown[c] # << >>)
    BY <2>1, <1>2, GrantedRequest, Zenon
  <2>3. CASE stage = "BEGIN_UPDATE"
    BY <2>2, <2>3, <1>1, <1>5, Zenon DEF History, Granted, Seen
  <2>4. CASE stage = "END_UPDATE"
    <3>1. state[c] = "PERFORMING_UPDATE" /\ state'[c] = "READY_UPDATE"
      BY <2>4, <1>2, <1>3, Zenon DEF Grant, Before, AfterGrant
    <3>2. Seen(c) = batch
      BY <3>1, <2>1, Zenon DEF RoundInv, PerformingInv
    <3>3. ~Granted(c) /\ ~Granted(c)'
      BY <2>2, <2>4, <1>1, Zenon DEF Granted
    <3>4. Seen(c)' = Seen(c) /\ History(c)'
      BY <3>3, <2>2, <2>4, <1>1, Zenon DEF Seen, History, Last
    <3> QED
      BY <3>1, <3>2, <3>4, Zenon
  <2> QED
    BY <2>3, <2>4, Zenon DEF MonTypes, MonActions
<1> QED
  BY <1>1, <1>2, <1>4, <1>6, TurnOver, Zenon

LEMMA RefuseKeepsRound ==
  ASSUME MonTypes, RegInv, PhaseInv, RoundInv, Refuse
  PROVE  RoundInv'
<1>1. /\ lpc = "serve" /\ NextMon /\ UNCHANGED <<mpc, call, shown, vec>>
      /\ state' = [state EXCEPT ![cur] = "ERROR"]
  BY Zenon DEF Refuse, monVars, regVars
<1>2. PICK c \in Mons : c = cur
  BY <1>1, Serving, Zenon
<1>3. \A x \in Mons \ {c} : down'[x] = down[x]
  <2>1. CASE stage = "BEGIN_UPDATE"
    BY <2>1, <1>2, Zenon DEF Refuse, MReply, MonTypes
  <2>2. CASE stage # "BEGIN_UPDATE"
    BY <2>2, Zenon DEF Refuse
  <2> QED
    BY <2>1, <2>2, Zenon
<1>4. \A x \in Mons \ {c} : state'[x] = state[x]
  BY <1>1, <1>2, Zenon DEF MonTypes
<1>5. \A x \in Mons \ {c} : KeepsView(x)
  BY <1>1, <1>3, <1>4, Zenon DEF KeepsView, Live, History, Granted, Seen, Last
<1>6. ~Live(c)'
  BY <1>1, <1>2, RefusedGone, Zenon DEF Live
<1> QED
  BY <1>1, <1>2, <1>5, <1>6, TurnOver, Zenon

\* The steps of the loop between the turns.
LEMMA LoopKeepsRound ==
  ASSUME MonTypes, RegInv, PhaseInv, RoundInv,
         Dequeue \/ ProcessBatch \/ GetNumMons \/ GetMon \/ SweepDone \/ UseDeleted
  PROVE  RoundInv'
<1> USE DEF monVars, regVars
<1>1. UNCHANGED <<mpc, call, shown, down, state, vec>>
  BY Zenon DEF Dequeue, ProcessBatch, GetNumMons, GetMon, SweepDone, UseDeleted
<1>2. \A x : /\ Live(x)' <=> Live(x)
             /\ History(x)' <=> History(x)
             /\ Seen(x)' = Seen(x)
  BY <1>1, Zenon DEF Live, History, Granted, Seen, Last
<1>3. /\ vec.size \in Nat /\ stop \in Nat /\ idx \in Nat /\ batch \in Nat /\ graph \in Nat
      /\ lpc \in {"get_mon", "serve"} => idx >= 1
  BY Zenon DEF MonTypes
<1>4. \A p \in 1 .. vec.size : \A x : x = vec.mem[p] /\ Live(x) /\ History(x) /\ lpc # "dead" =>
        /\ Seen(x) = IF Ahead(p) THEN batch - 1 ELSE batch
        /\ Walking => p <= stop
  BY SeenAt, Zenon DEF RoundInv
<1>5. \A m \in Mons : ~Walking /\ lpc # "dead" => ~(Live(m) /\ state[m] = "PERFORMING_UPDATE")
  BY Zenon DEF RoundInv, PerformingInv
<1>6. CASE Dequeue
  <2>1. lpc = "dequeue" /\ lpc' = "process_batch" /\ batch' = batch + 1 /\ UNCHANGED graph
    BY <1>6, Zenon DEF Dequeue
  <2>2. ~Walking /\ ~Walking' /\ (\A p : ~Ahead(p) /\ Ahead(p)')
    BY <2>1, Zenon DEF Walking, Ahead
  <2>3. GraphInv' /\ WalkInv'
    BY <2>1, <2>2, <1>3, Zenon DEF RoundInv, GraphInv, WalkInv
  <2>4. PerformingInv'
    BY <2>1, <2>2, <1>1, <1>2, <1>5, Zenon DEF PerformingInv
  <2>5. SeenInv'
    BY <2>1, <2>2, <1>1, <1>2, <1>3, <1>4, SeenNext
  <2>6. ServedInv'
    BY <2>1, <2>2, ServedNext, Zenon
  <2> QED
    BY <2>3, <2>4, <2>5, <2>6, Zenon DEF RoundInv
<1>7. CASE ProcessBatch
  <2>1. lpc = "process_batch" /\ lpc' = "get_num_mons" /\ graph' = graph + 1 /\ UNCHANGED batch
    BY <1>7, Zenon DEF ProcessBatch
  <2>2. ~Walking /\ ~Walking' /\ (\A p : Ahead(p) /\ Ahead(p)')
    BY <2>1, Zenon DEF Walking, Ahead
  <2>3. GraphInv' /\ WalkInv'
    BY <2>1, <2>2, <1>3, Zenon DEF RoundInv, GraphInv, WalkInv
  <2>4. PerformingInv'
    BY <2>1, <2>2, <1>1, <1>2, <1>5, Zenon DEF PerformingInv
  <2>5. SeenInv'
    BY <2>1, <2>2, <1>1, <1>2, <1>3, <1>4, SeenNext, Zenon
  <2>6. ServedInv'
    BY <2>1, <2>2, ServedNext, Zenon
  <2> QED
    BY <2>3, <2>4, <2>5, <2>6, Zenon DEF RoundInv
<1>8. CASE GetNumMons
  <2>1. /\ lpc = "get_num_mons" /\ lpc' = "get_mon" /\ stop' = vec.size /\ due' = Records
        /\ idx' = 1 /\ stage' = "BEGIN_UPDATE" /\ UNCHANGED <<batch, graph>>
    BY <1>8, Zenon DEF GetNumMons
  <2>2. ~Walking /\ Walking' /\ (\A p \in Nat \ {0} : Ahead(p) /\ Ahead(p)')
    BY <2>1 DEF Walking, Ahead
  <2>3. GraphInv' /\ WalkInv'
    BY <2>1, <2>2, <1>1, <1>3 DEF RoundInv, GraphInv, WalkInv, Records
  <2>4. PerformingInv'
    BY <2>1, <2>2, <1>1, <1>2, <1>5, Zenon DEF PerformingInv
  <2>5. SeenInv'
    <3>1. \A p \in 1 .. vec.size : p \in Nat \ {0} /\ p <= vec.size
      BY <1>3
    <3> QED
      BY <3>1, <2>1, <2>2, <1>1, <1>2, <1>4, SeenNext, Zenon
  <2>6. ServedInv'
    <3>1. \A p \in 1 .. vec.size : p \in Nat \ {0}
      BY <1>3
    <3> QED
      BY <3>1, <2>1, <2>2, ServedNext, Zenon
  <2> QED
    BY <2>3, <2>4, <2>5, <2>6, Zenon DEF RoundInv
<1>9. CASE GetMon
  <2>1. /\ lpc = "get_mon" /\ idx <= stop /\ cur' = vec.mem[idx] /\ lpc' = "serve"
        /\ UNCHANGED <<stage, idx, stop, due, batch, graph>>
    BY <1>9, Zenon DEF GetMon
  <2>2. Walking /\ Walking' /\ (\A p : Ahead(p)' <=> Ahead(p))
    BY <2>1, Zenon DEF Walking, Ahead
  <2>3. GraphInv' /\ WalkInv'
    BY <2>1, <2>2, <1>1, Zenon DEF RoundInv, GraphInv, WalkInv
  <2>4. PerformingInv'
    BY <2>1, <2>2, <1>1, <1>2, Zenon DEF RoundInv, PerformingInv
  <2>5. SeenInv'
    BY <2>1, <2>2, <1>1, <1>2, <1>4, SeenNext, Zenon
  <2>6. ServedInv'
    BY <2>1, <2>2, <1>1, <1>2, ServedNext, Zenon DEF RoundInv, ServedInv
  <2> QED
    BY <2>3, <2>4, <2>5, <2>6, Zenon DEF RoundInv
<1>10. CASE SweepDone /\ stage = "BEGIN_UPDATE"
  <2>1. /\ lpc = "get_mon" /\ lpc' = "get_mon" /\ idx > stop /\ stage' = "END_UPDATE" /\ idx' = 1
        /\ UNCHANGED <<stop, cur, due, batch, graph>>
    BY <1>10, Zenon DEF SweepDone
  <2>2. Walking /\ Walking' /\ (\A p \in 1 .. stop : ~Ahead(p)) /\ (\A p : ~Ahead(p)')
    BY <2>1, <1>3 DEF Walking, Ahead
  <2>3. GraphInv' /\ WalkInv'
    BY <2>1, <2>2, <1>1, <1>3 DEF RoundInv, GraphInv, WalkInv
  <2>4. PerformingInv'
    BY <2>1, <2>2, <1>1, <1>2, <1>3 DEF RoundInv, PerformingInv
  <2>5. SeenInv'
    BY <2>1, <2>2, <1>1, <1>2, <1>3, <1>4, SeenNext
  <2>6. ServedInv'
    BY <2>1, <2>2, <1>1, <1>2, ServedNext, Zenon DEF RoundInv, ServedInv
  <2> QED
    BY <2>3, <2>4, <2>5, <2>6, Zenon DEF RoundInv
<1>11. CASE SweepDone /\ stage # "BEGIN_UPDATE"
  <2>1. /\ lpc = "get_mon" /\ lpc' = "dequeue" /\ idx > stop
        /\ UNCHANGED <<stage, idx, stop, cur, due, batch, graph>>
    BY <1>11, Zenon DEF SweepDone
  <2>2. Walking /\ ~Walking' /\ (\A p : ~Ahead(p) /\ ~Ahead(p)')
    BY <2>1, <1>11, Zenon DEF Walking, Ahead
  <2>3. GraphInv' /\ WalkInv'
    BY <2>1, <2>2, Zenon DEF RoundInv, GraphInv, WalkInv
  <2>4. PerformingInv'
    <3>1. \A m \in Mons : ~(Live(m) /\ state[m] = "PERFORMING_UPDATE")
      BY <2>1, <2>2, <1>11, <1>3 DEF RoundInv, PerformingInv
    <3> QED
      BY <3>1, <1>1, <1>2, Zenon DEF PerformingInv
  <2>5. SeenInv'
    BY <2>1, <2>2, <1>1, <1>2, <1>4, SeenNext, Zenon
  <2>6. ServedInv'
    <3>1. ASSUME NEW m \in due', Live(m)' PROVE History(m)' /\ Seen(m)' = batch'
      <4>1. PICK p \in 1 .. stop : m = vec.mem[p]
        BY <2>1, <2>2, Zenon DEF RoundInv, WalkInv
      <4>2. p \in 1 .. vec.size
        BY <2>2, <1>3 DEF RoundInv, WalkInv
      <4>3. Live(m) /\ History(m)
        BY <3>1, <4>1, <2>2, <1>2, Zenon DEF RoundInv, ServedInv
      <4> QED
        BY <4>1, <4>2, <4>3, <2>1, <2>2, <1>2, <1>4, Zenon
    <3> QED
      BY <3>1, <2>2, ServedNext, Zenon
  <2> QED
    BY <2>3, <2>4, <2>5, <2>6, Zenon DEF RoundInv
<1>12. CASE UseDeleted
  <2>1. lpc = "serve" /\ lpc' = "dead" /\ UNCHANGED <<batch, graph>>
    BY <1>12, Zenon DEF UseDeleted
  <2>2. ~Walking'
    BY <2>1, Zenon DEF Walking
  <2>3. GraphInv' /\ WalkInv' /\ SeenInv' /\ ServedInv'
    BY <2>1, <2>2, Zenon DEF RoundInv, GraphInv, WalkInv, SeenInv, ServedInv
  <2>4. PerformingInv'
    BY <2>1, <2>2, <1>1, <1>2, Zenon DEF RoundInv, PerformingInv
  <2> QED
    BY <2>3, <2>4, Zenon DEF RoundInv
<1> QED
  BY <1>6, <1>7, <1>8, <1>9, <1>10, <1>11, <1>12, Zenon

\* Every step keeps the round, as long as no monitor is deleted under the loop.
LEMMA RoundStep ==
  ASSUME MonTypes, RegInv, PhaseInv, RoundInv, [MNext]_mvars, ~moved'
  PROVE  RoundInv'
<1> USE MonAssumption DEF monVars, regVars, mloopVars
<1>1. ASSUME NEW m \in Mons, Register(m) \/ Answered(m) \/ Mapped(m) \/ Crash(m) \/ HasMon(m) \/ SendRegistered(m)
      PROVE  RoundInv'
  <2>1. UNCHANGED <<vec, state, lpc, stage, idx, stop, cur, due, batch, graph>>
    BY <1>1, Zenon DEF Register, Answered, Mapped, Crash, HasMon, SendRegistered
  <2>2. \A x \in Mons \ {m} : /\ mpc'[x] = mpc[x] /\ call'[x] = call[x] /\ shown'[x] = shown[x]
                              /\ down'[x] = down[x]
    <3>1. CASE Register(m) \/ HasMon(m) \/ Crash(m)
      BY <3>1, Fields, Zenon DEF Register, HasMon, Crash
    <3>2. CASE Answered(m) \/ Mapped(m)
      BY <3>2, Fields, Zenon DEF Answered, Mapped, MSend
    <3>3. CASE SendRegistered(m)
      BY <3>3, Fields, Zenon DEF SendRegistered, MReply
    <3> QED
      BY <1>1, <3>1, <3>2, <3>3, Zenon
  <2>3. ASSUME NEW x \in Mons \ {m} PROVE KeepsView(x)
    BY <2>1, <2>2, Zenon DEF KeepsView, Live, History, Granted, Seen, Last
  <2>4. KeepsView(m)
    <3> SUFFICES ASSUME Live(m)'
                 PROVE  /\ Live(m)
                        /\ History(m)' <=> History(m)
                        /\ History(m) => Seen(m)' = Seen(m)
      BY <2>1, Zenon DEF KeepsView
    <3>1. ASSUME mpc'[m] # "gone", call'[m] = call[m], shown'[m] = shown[m], down'[m] = down[m]
          PROVE  (History(m)' <=> History(m)) /\ Seen(m)' = Seen(m)
      BY <3>1, Zenon DEF History, Granted, Seen, Last
    <3>2. Live(m)
      BY <1>1, Zenon DEF Live, Register, Answered, Mapped, Crash, HasMon, SendRegistered
    <3>3. Phase(m)
      BY <3>2, Zenon DEF PhaseInv
    <3>4. CASE Register(m) \/ HasMon(m)
      BY <3>1, <3>2, <3>4, Zenon DEF Register, HasMon, Live
    <3>5. CASE Crash(m)
      BY <3>5, Zenon DEF Crash, Live, MonTypes
    <3>6. CASE Mapped(m)
      <4>1. ~Granted(m) /\ ~Granted(m)' /\ shown' = shown
        BY <3>3, <3>6, Zenon DEF Mapped, MSend, Phase, Granted, MonTypes
      <4> QED
        BY <4>1, <3>2, Zenon DEF History, Seen, Last
    <3>7. CASE SendRegistered(m)
      <4>1. ~Granted(m) /\ ~Granted(m)' /\ shown' = shown
        BY <3>3, <3>7, Zenon DEF SendRegistered, Phase, Granted
      <4> QED
        BY <4>1, <3>2, Zenon DEF History, Seen, Last
    <3>8. CASE Answered(m) /\ call[m] = "BEGIN_UPDATE" /\ down[m].ok
      <4>1. /\ Granted(m) /\ shown'[m] = Append(shown[m], down[m].batch) /\ down'[m] = Null
        BY <3>8 DEF Answered, Granted, MonTypes
      <4>2. down[m].batch \in Nat /\ shown[m] \in Seq(Nat)
        BY <4>1, Zenon DEF Granted, MonTypes, Answers
      <4>3. shown'[m] # << >> /\ shown'[m][Len(shown'[m])] = down[m].batch
        <5>1. \A t \in Seq(Nat), b \in Nat : Append(t, b) # << >> /\ Append(t, b)[Len(Append(t, b))] = b
          OBVIOUS
        <5> QED
          BY <5>1, <4>1, <4>2, Zenon
      <4>4. ~Granted(m)'
        BY <4>1, Zenon DEF Granted
      <4> QED
        BY <4>1, <4>3, <4>4, <3>2, Zenon DEF History, Seen, Last
    <3>9. CASE Answered(m) /\ ~(call[m] = "BEGIN_UPDATE" /\ down[m].ok)
      <4>1. call[m] # "BEGIN_UPDATE"
        BY <3>3, <3>9, Zenon DEF Answered, Phase
      <4>2. down'[m] = Null /\ shown' = shown
        BY <3>9, Zenon DEF Answered, MonTypes
      <4>3. ~Granted(m) /\ ~Granted(m)'
        BY <4>1, <4>2, Zenon DEF Granted
      <4> QED
        BY <4>2, <4>3, <3>2, Zenon DEF History, Seen, Last
    <3> QED
      BY <1>1, <3>4, <3>5, <3>6, <3>7, <3>8, <3>9, Zenon
  <2> QED
    BY <2>1, <2>3, <2>4, QuietRound, Zenon
<1>2. ASSUME NEW m \in Mons, DeleteMon(m), lpc # "dead" PROVE RoundInv'
  BY <1>2, DeleteKeepsRound, Zenon
<1>3. ASSUME NEW m \in Mons, AddMon(m) PROVE RoundInv'
  BY <1>3, AddKeepsRound, Zenon
<1>4. CASE MLoop
  BY <1>4, LoopKeepsRound, SkipKeepsRound, GrantKeepsRound, RefuseKeepsRound, Zenon DEF MLoop
<1>5. CASE UNCHANGED mvars
  <2>1. UNCHANGED <<mpc, call, shown, down, state, vec, lpc, stage, idx, stop, cur, due, batch, graph>>
    BY <1>5, Zenon DEF mvars
  <2>2. \A x \in Mons : KeepsView(x)
    BY <2>1, Zenon DEF KeepsView, Live, History, Granted, Seen, Last
  <2> QED
    BY <2>1, <2>2, QuietRound, Zenon
<1> QED
  BY <1>1, <1>2, <1>3, <1>4, <1>5, Zenon DEF MNext, MonHandler, HandleMon, Poll

-----------------------------------------------------------------------------
\* A step that shows no monitor anything and grants nothing keeps the order.
LEMMA QuietOrder ==
  ASSUME OrderInv, UNCHANGED shown,
         \A m \in Mons : Live(m)' /\ Granted(m)' => Live(m) /\ Granted(m) /\ down'[m] = down[m]
  PROVE  OrderInv'
<1> SUFFICES ASSUME NEW m \in Mons
             PROVE  /\ \A i \in 1 .. Len(shown'[m]) - 1 : shown'[m][i + 1] = shown'[m][i] + 1
                    /\ Live(m)' /\ Granted(m)' /\ shown'[m] # << >> => down'[m].batch = Last(m)' + 1
  BY Zenon DEF OrderInv
<1>1. Last(m)' = Last(m)
  BY Zenon DEF Last
<1> QED
  BY <1>1, Zenon DEF OrderInv

\* Every step keeps the order.
LEMMA OrderStep ==
  ASSUME MonTypes, RegInv, PhaseInv, RoundInv, OrderInv, [MNext]_mvars
  PROVE  OrderInv'
<1> USE DEF monVars, regVars, mloopVars
<1>1. ASSUME NEW m \in Mons, Register(m) \/ Mapped(m) \/ Crash(m) \/ HasMon(m) \/ DeleteMon(m) \/ AddMon(m)
      PROVE  OrderInv'
  <2>1. /\ UNCHANGED <<shown, down>>
        /\ \A x \in Mons : mpc'[x] # "gone" => mpc[x] # "gone"
        /\ \A x \in Mons : call'[x] = "BEGIN_UPDATE" => call[x] = "BEGIN_UPDATE"
    <3>1. CASE Register(m) \/ Crash(m)
      BY <3>1, Fields, Zenon DEF Register, Crash
    <3>2. CASE Mapped(m)
      BY <3>2, Fields, Zenon DEF Mapped, MSend
    <3>3. CASE HasMon(m) \/ DeleteMon(m) \/ AddMon(m)
      BY <3>3, Zenon DEF HasMon, DeleteMon, AddMon
    <3> QED
      BY <1>1, <3>1, <3>2, <3>3, Zenon
  <2> QED
    BY <2>1, QuietOrder, Zenon DEF Live, Granted
<1>2. ASSUME NEW m \in Mons, SendRegistered(m) PROVE OrderInv'
  <2>1. /\ UNCHANGED <<shown, mpc, call>> /\ hpc[m] = "reply"
        /\ \A x \in Mons \ {m} : down'[x] = down[x]
    BY <1>2, Fields, Zenon DEF SendRegistered, MReply
  <2>2. Live(m)' => ~Granted(m)'
    BY <2>1, Zenon DEF PhaseInv, Phase, Live, Granted
  <2> QED
    BY <2>1, <2>2, QuietOrder, Zenon DEF Live, Granted
<1>3. ASSUME NEW m \in Mons, Answered(m) PROVE OrderInv'
  <2>1. /\ Live(m) /\ Phase(m) /\ down'[m] = Null
        /\ \A x \in Mons \ {m} : /\ down'[x] = down[x] /\ call'[x] = call[x] /\ mpc'[x] = mpc[x]
                                 /\ shown'[x] = shown[x]
    <3>1. Live(m) /\ Phase(m)
      BY <1>3, Zenon DEF Answered, PhaseInv, Live
    <3> QED
      BY <1>3, <3>1, Fields, Zenon DEF Answered, MSend
  <2>2. ~Granted(m)'
    BY <2>1, Zenon DEF Granted
  <2>3. CASE call[m] = "BEGIN_UPDATE" /\ down[m].ok
    <3>1. Granted(m) /\ shown'[m] = Append(shown[m], down[m].batch)
      BY <2>3, <1>3, Zenon DEF Answered, Granted, MonTypes
    <3>2. down[m].batch \in Nat /\ shown[m] \in Seq(Nat)
      BY <3>1, Zenon DEF Granted, MonTypes, Answers
    <3>3. /\ \A i \in 1 .. Len(shown[m]) - 1 : shown[m][i + 1] = shown[m][i] + 1
          /\ shown[m] # << >> => down[m].batch = shown[m][Len(shown[m])] + 1
      BY <2>1, <3>1, Zenon DEF OrderInv, Last
    <3>4. ASSUME NEW i \in 1 .. Len(shown'[m]) - 1 PROVE shown'[m][i + 1] = shown'[m][i] + 1
      <4>1. Len(shown[m]) \in Nat /\ i \in 1 .. Len(shown[m])
        BY <3>1, <3>2
      <4>2. shown[m] # << >>
        BY <4>1
      <4>3. CASE i = Len(shown[m])
        BY <4>1, <4>2, <4>3, <3>1, <3>2, <3>3
      <4>4. CASE i # Len(shown[m])
        <5>1. i \in 1 .. Len(shown[m]) - 1 /\ i + 1 \in 1 .. Len(shown[m])
          BY <4>1, <4>4
        <5>2. shown'[m][i] = shown[m][i] /\ shown'[m][i + 1] = shown[m][i + 1]
          BY <5>1, <4>1, <3>1, <3>2
        <5> QED
          BY <5>1, <5>2, <3>3, Zenon
      <4> QED
        BY <4>3, <4>4, Zenon
    <3>5. ASSUME NEW x \in Mons, x # m
          PROVE  /\ \A i \in 1 .. Len(shown'[x]) - 1 : shown'[x][i + 1] = shown'[x][i] + 1
                 /\ Live(x)' /\ Granted(x)' /\ shown'[x] # << >> => down'[x].batch = Last(x)' + 1
      BY <2>1, <3>5 DEF OrderInv, Live, Granted, Last
    <3> QED
      BY <2>2, <3>4, <3>5, Zenon DEF OrderInv
  <2>4. CASE ~(call[m] = "BEGIN_UPDATE" /\ down[m].ok)
    <3>1. UNCHANGED shown
      BY <2>4, <1>3, Zenon DEF Answered
    <3> QED
      BY <3>1, <2>1, <2>2, QuietOrder, Zenon DEF Live, Granted
  <2> QED
    BY <2>3, <2>4, Zenon
<1>4. CASE Grant
  <2>1. /\ lpc = "serve" /\ UNCHANGED <<mpc, call, shown>>
        /\ down' = [down EXCEPT ![cur] = [ok |-> TRUE, batch |-> batch]]
    BY <1>4, Zenon DEF Grant, MReply
  <2>2. PICK c \in Mons : c = cur
    BY <2>1, Serving, Zenon
  <2>3. \A x \in Mons \ {c} : down'[x] = down[x]
    BY <2>1, <2>2, Zenon DEF MonTypes
  <2>4. down'[c].batch = batch
    BY <2>1, <2>2, Zenon DEF MonTypes
  <2>5. ASSUME Live(c)', Granted(c)', shown'[c] # << >> PROVE down'[c].batch = Last(c)' + 1
    <3>1. Live(c) /\ call[c] = "BEGIN_UPDATE" /\ shown[c] # << >>
      BY <2>5, <2>1, Zenon DEF Live, Granted
    <3>2. stage = "BEGIN_UPDATE" /\ ~Granted(c)
      BY <3>1, <1>4, <2>2, GrantedRequest, Zenon DEF Granted
    <3>3. /\ Walking /\ idx \in 1 .. vec.size /\ c = vec.mem[idx] /\ idx \in Nat
      BY <2>1, <2>2, Serving
    <3>4. Ahead(idx) /\ History(c)
      BY <3>1, <3>2, <3>3 DEF Ahead, History
    <3>5. Seen(c) = batch - 1
      BY <3>1, <3>3, <3>4, <2>1, SeenAt, Zenon DEF RoundInv
    <3>6. Last(c) = batch - 1 /\ Last(c)' = Last(c) /\ batch \in Nat
      BY <3>2, <3>5, <2>1, Zenon DEF Seen, Last, MonTypes
    <3> QED
      BY <3>6, <2>4
  <2>6. ASSUME NEW x \in Mons, x # c, Live(x)', Granted(x)', shown'[x] # << >>
        PROVE  down'[x].batch = Last(x)' + 1
    BY <2>1, <2>3, <2>6, Zenon DEF OrderInv, Live, Granted, Last
  <2> QED
    BY <2>1, <2>5, <2>6, Zenon DEF OrderInv
<1>5. CASE Refuse
  <2>1. lpc = "serve" /\ UNCHANGED <<mpc, call, shown>>
    BY <1>5, Zenon DEF Refuse
  <2>2. PICK c \in Mons : c = cur
    BY <2>1, Serving, Zenon
  <2>3. \A x \in Mons \ {c} : down'[x] = down[x]
    <3>1. CASE stage = "BEGIN_UPDATE"
      BY <3>1, <1>5, <2>2, Zenon DEF Refuse, MReply, MonTypes
    <3>2. CASE stage # "BEGIN_UPDATE"
      BY <3>2, <1>5, Zenon DEF Refuse
    <3> QED
      BY <3>1, <3>2, Zenon
  <2>4. ~Live(c)'
    BY <1>5, <2>1, <2>2, RefusedGone, Zenon DEF Live
  <2> QED
    BY <2>1, <2>3, <2>4, QuietOrder, Zenon DEF Live, Granted
<1>6. CASE MLoop /\ ~Grant /\ ~Refuse
  <2>1. UNCHANGED <<mpc, call, shown, down>>
    BY <1>6, Zenon DEF MLoop, Dequeue, ProcessBatch, GetNumMons, GetMon, SweepDone, Skip, UseDeleted
  <2> QED
    BY <2>1, QuietOrder, Zenon DEF Live, Granted
<1>7. CASE UNCHANGED mvars
  BY <1>7, QuietOrder, Zenon DEF mvars, Live, Granted
<1> QED
  BY <1>1, <1>2, <1>3, <1>4, <1>5, <1>6, <1>7, Zenon DEF MNext, MonHandler, HandleMon, Poll

-----------------------------------------------------------------------------
\* The server starts between two rounds.
LEMMA MonInvInit == MInit => MonInv
<1> SUFFICES ASSUME MInit PROVE MonInv
  BY Zenon
<1>1. ConnInv
  BY ConnInvInit, Zenon
<1> USE MonAssumption DEF MInit
<1>2. RoundInv
  BY DEF RoundInv, GraphInv, WalkInv, PerformingInv, SeenInv, ServedInv, Walking, MonStates
<1>3. OrderInv
  <2> SUFFICES ASSUME NEW m \in Mons
               PROVE  /\ \A i \in 1 .. Len(shown[m]) - 1 : shown[m][i + 1] = shown[m][i] + 1
                      /\ Live(m) /\ Granted(m) /\ shown[m] # << >> => down[m].batch = Last(m) + 1
    BY Zenon DEF OrderInv
  <2>1. shown[m] = << >>
    BY Zenon
  <2>2. 1 .. Len(shown[m]) - 1 = {}
    BY <2>1
  <2> QED
    BY <2>1, <2>2, Zenon
<1> QED
  BY <1>1, <1>2, <1>3, Zenon DEF MonInv, ConnInv

\* moved is never taken back.
LEMMA MovedStays ==
  ASSUME MonTypes, [MNext]_mvars, ~moved'
  PROVE  ~moved
<1> USE DEF regVars
<1>1. ASSUME NEW m \in Mons, DeleteMon(m) PROVE ~moved
  BY <1>1, Zenon DEF DeleteMon
<1>2. ASSUME NEW m \in Mons, MonHandler(m) \/ Crash(m) \/ HasMon(m) \/ AddMon(m) \/ SendRegistered(m) PROVE ~moved
  BY <1>2, Zenon DEF MonHandler, Register, Answered, Mapped, Crash, HasMon, AddMon, SendRegistered
<1>3. CASE MLoop
  BY <1>3, Zenon DEF MLoop, Dequeue, ProcessBatch, GetNumMons, GetMon, SweepDone, Skip, Grant, Refuse, UseDeleted
<1>4. CASE UNCHANGED mvars
  BY <1>4, Zenon DEF mvars
<1> QED
  BY <1>1, <1>2, <1>3, <1>4, Zenon DEF MNext, HandleMon, Poll

\* MonInv is inductive: the invariant behind the three theorems.
THEOREM MonInvariant == MSpec => []MonInv
<1>1. MonInv /\ [MNext]_mvars => MonInv'
  <2> SUFFICES ASSUME MonInv, [MNext]_mvars PROVE MonInv'
    BY Zenon
  <2>1. MonTypes' /\ RegInv' /\ PhaseInv'
    BY MonTypesStep, RegStep, PhaseStep, Zenon DEF MonInv, ConnInv
  <2>2. ASSUME ~moved' PROVE RoundInv' /\ OrderInv'
    <3>1. ~moved
      BY <2>2, MovedStays, Zenon DEF MonInv, ConnInv
    <3> QED
      BY <2>2, <3>1, RoundStep, OrderStep, Zenon DEF MonInv, ConnInv
  <2> QED
    BY <2>1, <2>2, Zenon DEF MonInv, ConnInv
<1> QED
  BY <1>1, MonInvInit, PTL DEF MSpec

\* process_loop_handler applies no batch while a monitor maps the graph for an
\* update, for any number of monitors that register, die and are replaced.
THEOREM UpdatesAreStatic == MSpec => []MappedGraphIsStatic
<1>1. MonInv => MappedGraphIsStatic
  <2> SUFFICES ASSUME MonInv, ~moved, NEW m \in Mons, mpc[m] = "map"
               PROVE  lpc # "process_batch" /\ graph = shown[m][Len(shown[m])]
    BY Zenon DEF MappedGraphIsStatic
  <2>1. Live(m) /\ state[m] = "PERFORMING_UPDATE" /\ ~Granted(m)
    BY Zenon DEF MonInv, ConnInv, PhaseInv, Phase, Live, Granted
  <2>2. Seen(m) = batch /\ lpc # "process_batch"
    BY <2>1, Zenon DEF MonInv, RoundInv, PerformingInv, Walking
  <2> QED
    BY <2>1, <2>2, Zenon DEF MonInv, RoundInv, GraphInv, Seen, Last
<1> QED
  BY <1>1, MonInvariant, PTL

\* The two sweeps of the section reach every live monitor it began with.
THEOREM MonitorsAlwaysShown == MSpec => []EveryMonitorShown
<1>1. MonInv => EveryMonitorShown
  <2> SUFFICES ASSUME MonInv, lpc = "dequeue", ~moved, NEW m \in due \ freed, mpc[m] # "gone"
               PROVE  \/ \E i \in DOMAIN shown[m] : shown[m][i] = batch
                      \/ call[m] = "BEGIN_UPDATE" /\ down[m] # Null /\ down[m].batch = batch
    BY Zenon DEF EveryMonitorShown
  <2>1. History(m) /\ Seen(m) = batch
    BY Zenon DEF MonInv, RoundInv, ServedInv, Live
  <2>2. CASE Granted(m)
    BY <2>1, <2>2, Zenon DEF Seen, Granted
  <2>3. CASE ~Granted(m)
    <3>1. shown[m] # << >> /\ shown[m] \in Seq(Nat) /\ shown[m][Len(shown[m])] = batch
      BY <2>1, <2>3, Zenon DEF History, Seen, Last, MonInv, ConnInv, MonTypes
    <3>2. Len(shown[m]) \in DOMAIN shown[m]
      BY <3>1
    <3> QED
      BY <3>1, <3>2, Zenon
  <2> QED
    BY <2>2, <2>3, Zenon
<1> QED
  BY <1>1, MonInvariant, PTL

\* What mon_handler is shown are consecutive batches.
THEOREM UpdatesInOrder == MSpec => []ShownInOrder
<1>1. MonInv => ShownInOrder
  BY Zenon DEF MonInv, OrderInv, ShownInOrder
<1> QED
  BY <1>1, MonInvariant, PTL
=============================================================================
