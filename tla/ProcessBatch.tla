----------------------------- MODULE ProcessBatch -----------------------------
(***************************************************************************)
(* process_batch of the server (src/server/src/batch.cpp): the insertions  *)
(* of a batch through the batch API (module BatchInsert), then its         *)
(* deletions through stinger_remove_edge (module EdgeRemove), then its     *)
(* vertex updates, on one store, batch after batch.                        *)
(*                                                                         *)
(* A batch names vertices by number, by string or by either.  The mapping  *)
(* from strings to vertices is an ideal one: how stinger_names comes close *)
(* to it is the subject of the module NameTable.                           *)
(***************************************************************************)
EXTENDS BatchInsert

CONSTANTS NVtypes,    \* max_nvtypes
          Absent,     \* a number that a message leaves out
          LowerCase   \* the strings and what std::transform makes of them

\* An end of an edge, or a vertex: the optional number and the optional string,
\* "" if absent.
Numbered(n) == [num |-> n, str |-> ""]
Named(s) == [num |-> Absent, str |-> s]
Nobody == [num |-> Absent, str |-> ""]

NoWork == {[t \in Threads |-> << >>]}

VARIABLES batch,     \* the batch being processed
          phase,     \* "done", "resolve", "insert", "delete" or "vertices"
          resolved,  \* per insertion: how many of its two ends are resolved
          ends,      \* per insertion: u and v of process_insertions
          names,     \* the strings of physmap, of the edge and of the vertex types,
                     \* in the order of their numbers
          vdata,     \* per vertex: type and weight
          vnext,     \* the number of vertex updates made
          before,    \* the weight of each edge when the batch began
          removed    \* an edge was removed by an earlier batch

pvars == <<batch, phase, resolved, ends, names, vdata, vnext, before, removed>>
all == <<allvars, bvars, pvars>>

EmptyBatch ==
  [type |-> "MIXED", undirected |-> FALSE, insertions |-> << >>, deletions |-> << >>,
   vertices |-> << >>]

PInit ==
  /\ Init
  /\ BInit
  /\ batches \in Batches
  /\ phased = TRUE
  /\ rwork = [t \in Threads |-> << >>]
  /\ rret = [t \in Threads |-> << >>]
  /\ rpc = [t \in Threads |-> "call"]
  /\ rreg = [t \in Threads |-> [side |-> "forward", b |-> 0, k |-> 0, endk |-> 0,
                                held |-> << >>]]
  /\ batch = EmptyBatch
  /\ phase = "done"
  /\ resolved = << >>
  /\ ends = << >>
  /\ names = [vertex |-> << >>, etype |-> <<"None">>, vtype |-> <<"None">>]
  /\ vdata = [v \in Vertices |-> [type |-> 0, weight |-> 0]]
  /\ vnext = 0
  /\ before = << >>
  /\ removed = FALSE

\* The weights of the edges in the store.
EdgeWeights ==
  [e \in EdgeSet |->
     weight[CHOOSE s \in AllSlots : /\ DirOut \in neighbor[s].dir
                                    /\ e = <<blk[s[1]].etype, blk[s[1]].vertexID, neighbor[s].to>>]]

\* source() and destination() of a message: the defaults are 0 and 1.
FieldOf(end, default) == IF end.num = Absent THEN default ELSE end.num

BeginBatch ==
  /\ phase = "done"
  /\ batches # << >>
  /\ LET new == Head(batches) IN
     /\ batch' = new
     /\ upd' = [i \in DOMAIN new.insertions |->
                  LET x == new.insertions[i] IN
                  [type |-> 0, from |-> FieldOf(x.from, 0), to |-> FieldOf(x.to, 1),
                   weight |-> x.weight, ts |-> x.ts]]
     /\ result' = [i \in DOMAIN new.insertions |-> PENDING]
     /\ resolved' = [i \in DOMAIN new.insertions |-> 0]
     /\ ends' = [i \in DOMAIN new.insertions |-> <<-1, -1>>]
  /\ batches' = Tail(batches)
  /\ phase' = "resolve"
  /\ vnext' = 0
  /\ before' = EdgeWeights
  /\ removed' = (removed \/ \E t \in Threads : rwork[t] # << >>)
  /\ rwork' = [t \in Threads |-> << >>]
  /\ rret' = [t \in Threads |-> << >>]
  /\ UNCHANGED <<vars, phased, rpc, rreg, passes, ranges, mine, u, names, vdata>>

-----------------------------------------------------------------------------
(* process_insertions *)

Capacity == [vertex |-> NV, etype |-> NEtypes, vtype |-> NVtypes]

\* stinger_names_lookup_type and stinger_names_create_type on one of the tables:
\* -1 for a string that is unknown, or for a new one when the table is full.
Known(table, s) == {n \in DOMAIN names[table] : names[table][n] = s}
Lookup(table, s) == IF Known(table, s) = {} THEN -1 ELSE Min(Known(table, s)) - 1
Room(table, s) == Known(table, s) = {} /\ Len(names[table]) < Capacity[table]
Create(table, s) == IF Room(table, s) THEN Len(names[table]) ELSE Lookup(table, s)
With(table, s) == IF Room(table, s) THEN Append(names[table], s) ELSE names[table]

\* The type that a message asks for by name or by number; type_str wins.
TypeOf(table, x, default) ==
  IF x.typeStr = "" THEN (IF x.type = Absent THEN default ELSE x.type)
  ELSE IF Create(table, x.typeStr) = -1 THEN 0 ELSE Create(table, x.typeStr)
WithType(table, x) == IF x.typeStr = "" THEN names[table] ELSE With(table, x.typeStr)

\* The end is given by a string that handle_edge_names_types maps.
UsesString(end) ==
  \/ batch.type = "STRINGS_ONLY"
  \/ batch.type = "MIXED" /\ end.num = Absent /\ end.str # ""

\* handle_edge_names_types, one end: u or v stays -1 without a number or string,
\* and for every insertion of a NUMBERS_ONLY batch.
VertexOf(end) ==
  CASE UsesString(end) -> Create("vertex", LowerCase[end.str])
    [] batch.type = "MIXED" /\ end.num # Absent -> end.num
    [] OTHER -> -1

\* One end of insertion i, and with its second end its type.
ResolveEnd(i) ==
  LET n == resolved[i] + 1
      x == batch.insertions[i]
      end == IF n = 1 THEN x.from ELSE x.to
      v == VertexOf(end) IN
  /\ phase = "resolve"
  /\ n <= 2
  /\ names' = [names EXCEPT
                 !.vertex = IF UsesString(end) THEN With("vertex", LowerCase[end.str]) ELSE @,
                 !.etype = IF n = 2 THEN WithType("etype", x) ELSE @]
  /\ ends' = [ends EXCEPT ![i][n] = v]
  /\ upd' = [upd EXCEPT ![i] =
               [@ EXCEPT !.from = IF n = 1 /\ v # -1 THEN v ELSE @,
                         !.to = IF n = 2 /\ v # -1 THEN v ELSE @,
                         !.type = IF n = 2 THEN TypeOf("etype", x, 0) ELSE @]]
  /\ result' = [result EXCEPT ![i] = IF n = 2 /\ (ends[i][1] = -1 \/ v = -1) THEN -1 ELSE @]
  /\ resolved' = [resolved EXCEPT ![i] = n]
  /\ UNCHANGED <<allvars, passes, ranges, mine, u, batch, phase, vdata, vnext, before, removed>>

BeginInsertions ==
  /\ phase = "resolve"
  /\ \A i \in DOMAIN resolved : resolved[i] = 2
  /\ passes' = Passes(batch.undirected)
  /\ BeginPass(Passes(batch.undirected)[1])
  /\ phase' = "insert"
  /\ UNCHANGED <<allvars, upd, result, mine, u, batch, resolved, ends, names, vdata, vnext,
                 before, removed>>

Insertions ==
  /\ phase = "insert"
  /\ ~aborted
  /\ NextPass \/ TakeRange \/ \E t \in Threads : UpdateVertexStep(t)
  /\ UNCHANGED <<rvars, pvars>>

-----------------------------------------------------------------------------
(* process_deletions *)

\* The ends of deletion d that are known: u and v.
DeletionEnd(end) ==
  CASE batch.type = "NUMBERS_ONLY" -> FieldOf(end, 0)
    [] batch.type = "STRINGS_ONLY" -> Lookup("vertex", LowerCase[end.str])
    [] end.num # Absent -> end.num
    [] OTHER -> Lookup("vertex", LowerCase[end.str])

\* The calls of stinger_remove_edge for deletion d.  They are made with the fields
\* of the message, in which only a MIXED batch stores what it looked up.
RemovalsFor(d) ==
  LET mapped == batch.type = "MIXED"
      from == IF mapped THEN DeletionEnd(d.from) ELSE FieldOf(d.from, 0)
      to == IF mapped THEN DeletionEnd(d.to) ELSE FieldOf(d.to, 1)
      Call1(x, y) == [type |-> d.type, from |-> x, to |-> y]
  IN IF DeletionEnd(d.from) = -1 \/ DeletionEnd(d.to) = -1 THEN << >>
     ELSE IF batch.undirected THEN <<Call1(from, to), Call1(to, from)>>
     ELSE <<Call1(from, to)>>

\* The deletions are shared among the threads in any way.
BeginDeletions ==
  /\ phase = "insert"
  /\ ~aborted
  /\ PassDone
  /\ Len(passes) = 1
  /\ result' = RemapResults
  /\ passes' = << >>
  /\ \E share \in [DOMAIN batch.deletions -> Threads] :
       rwork' = [t \in Threads |->
                   FlattenSeq([i \in DOMAIN batch.deletions |->
                                 IF share[i] = t THEN RemovalsFor(batch.deletions[i]) ELSE << >>])]
  /\ phase' = "delete"
  /\ UNCHANGED <<vars, batches, phased, rret, rpc, rreg, upd, ranges, mine, u, batch, resolved,
                 ends, names, vdata, vnext, before, removed>>

Deletions ==
  /\ phase = "delete"
  /\ \E t \in Threads : RemoveStep(t)
  /\ UNCHANGED <<bvars, pvars>>

-----------------------------------------------------------------------------
(* process_vertex_updates: not in a parallel region, so one after the other *)

DeletionsDone == \A t \in Threads : rpc[t] = "call" /\ ~RHasCall(t)

BeginVertices ==
  /\ phase = "delete"
  /\ DeletionsDone
  /\ phase' = "vertices"
  /\ UNCHANGED <<allvars, bvars, batch, resolved, ends, names, vdata, vnext, before, removed>>

\* set_weight, then incr_weight.
WeightAfter(x, old) ==
  (IF x.set # Absent THEN x.set ELSE old) + (IF x.incr # Absent THEN x.incr ELSE 0)

\* handle_vertex_names_types
UpdateVertex ==
  LET x == batch.vertices[vnext + 1]
      string == batch.type = "STRINGS_ONLY" \/ (batch.type = "MIXED" /\ x.vertex.str # "")
      name == LowerCase[x.vertex.str]
      v == IF string THEN Create("vertex", name) ELSE FieldOf(x.vertex, 0) IN
  /\ phase = "vertices"
  /\ vnext < Len(batch.vertices)
  /\ names' = [names EXCEPT !.vertex = IF string THEN With("vertex", name) ELSE @,
                            !.vtype = WithType("vtype", x)]
  /\ vdata' = [vdata EXCEPT ![v] = [type |-> TypeOf("vtype", x, @.type),
                                    weight |-> WeightAfter(x, @.weight)]]
  /\ vnext' = vnext + 1
  /\ UNCHANGED <<allvars, bvars, batch, phase, resolved, ends, before, removed>>

EndBatch ==
  /\ phase = "vertices"
  /\ vnext = Len(batch.vertices)
  /\ phase' = "done"
  /\ UNCHANGED <<allvars, bvars, batch, resolved, ends, names, vdata, vnext, before, removed>>

ProcessStep ==
  \/ BeginBatch
  \/ \E i \in DOMAIN resolved : ResolveEnd(i)
  \/ BeginInsertions \/ Insertions
  \/ BeginDeletions \/ Deletions
  \/ BeginVertices \/ UpdateVertex \/ EndBatch

PTerminated ==
  /\ aborted \/ (phase = "done" /\ batches = << >>)
  /\ UNCHANGED all

PSpec == PInit /\ [][ProcessStep \/ PTerminated]_all

\* The OpenMP threads all run.
PFairSpec ==
  PSpec /\ WF_all(ProcessStep) /\ \A t \in Threads :
    /\ WF_all(phase = "insert" /\ ~aborted /\ UpdateVertexStep(t) /\ UNCHANGED <<rvars, pvars>>)
    /\ WF_all(phase = "delete" /\ RemoveStep(t) /\ UNCHANGED <<bvars, pvars>>)
-----------------------------------------------------------------------------

\* process_insertions has marked insertion i, and with the defaults for the ends it
\* does not have i is in the list of a vertex next to an insertion of that edge:
\* find_updates and do_edge_updates do not tell them apart.
Failed(i) == resolved[i] = 2 /\ -1 \in Range(ends[i])
FailureInterferes ==
  \E i, j \in DOMAIN upd :
    /\ Failed(i) /\ ~Failed(j)
    /\ {upd[i].from, upd[i].to} = {upd[j].from, upd[j].to}

\* "We didn't finish all the updates, or invalid codes were set" (assert(0) in
\* clear_results and remap_results) never happens: at the end of a pass no update
\* of its half is pending, and those that were marked, and only those, still are.
EveryUpdateMade ==
  phase = "insert" /\ PassDone =>
    \A i \in Half(passes[1].half) :
      /\ result[i] # PENDING
      /\ FailureInterferes \/ (Failed(i) <=> result[i] = -1)

\* A vertex never gets two slots for a neighbor, although ranges are split without
\* regard to duplicates and their threads fill the same list.
NoDuplicateInBatch == FailureInterferes \/ NoDuplicateEdge

\* After a batch stinger_consistency_check finds nothing: each of the passes over
\* the two halves has left its side of every edge, counted once, and the stamps
\* of the blocks hold every timestamp.
ConsistentAfterProcessBatch ==
  phase = "done" /\ ~FailureInterferes => ConsistencyCheck = {}

-----------------------------------------------------------------------------
(* What a batch means *)

\* The insertions that take place and the edges they stand for, with the place
\* of the insertion and of the edge in it.  NUMBERS_ONLY batches insert nothing.
InsertedEdges ==
  {<<i, s>> \in (DOMAIN upd) \X BOOLEAN :
     /\ batch.type # "NUMBERS_ONLY"
     /\ Nobody \notin {batch.insertions[i].from, batch.insertions[i].to}
     /\ s => batch.undirected}

EdgeOf(c) ==
  LET x == batch.insertions[c[1]]
      End(r) == IF r.num # Absent /\ batch.type = "MIXED" THEN r.num
                ELSE Lookup("vertex", LowerCase[r.str])
      type == IF x.typeStr = "" THEN x.type ELSE Lookup("etype", x.typeStr)
  IN IF c[2] THEN <<type, End(x.to), End(x.from)>> ELSE <<type, End(x.from), End(x.to)>>

InsertionsOf(e) == {c \in InsertedEdges : EdgeOf(c) = e}

\* The edges to be deleted, by name or by number.  A STRINGS_ONLY batch looks its
\* strings up and then deletes the edge of its numbers, 0 and 1 by default.
DeletedEdges ==
  LET End(r) == IF r.num # Absent THEN r.num ELSE Lookup("vertex", LowerCase[r.str])
      wanted == {d \in Range(batch.deletions) : End(d.from) # -1 /\ End(d.to) # -1}
      EdgesOf(type, from, to) ==
        {<<type, from, to>>} \cup IF batch.undirected THEN {<<type, to, from>>} ELSE {}
  IN UNION {IF batch.type = "STRINGS_ONLY"
            THEN EdgesOf(d.type, FieldOf(d.from, 0), FieldOf(d.to, 1))
            ELSE EdgesOf(d.type, End(d.from), End(d.to)) : d \in wanted}

\* "Inserts and removes the edges contained in a batch.  Maps new vertices as
\* needed for insertions.  Deletions with non-existant vertices are ignored."
\* (process_batch): after the batch the graph has the edges it had and those of
\* the insertions, without those of the deletions, whatever the threads did.  Each
\* weight is the old one plus all increments, as long as no earlier batch has
\* removed an edge: a slot keeps the weight of the edge removed from it.
BatchMeaning ==
  phase = "done" =>
    /\ EdgeSet = (DOMAIN before \cup {EdgeOf(c) : c \in InsertedEdges}) \ DeletedEdges
    /\ ~removed /\ ~FailureInterferes => \A e \in EdgeSet :
         EdgeWeights[e] = (IF e \in DOMAIN before THEN before[e] ELSE 0)
           + MapThenSumSet(LAMBDA c : batch.insertions[c[1]].weight, InsertionsOf(e))

\* "handles duplicates and sets the return code correctly": in a directed batch an
\* edge that was there before is reported as updated by all its insertions, and a
\* new one as added by at least one of them.
AddedReported ==
  phase = "delete" /\ ~batch.undirected /\ ~FailureInterferes =>
    \A c \in InsertedEdges :
      IF EdgeOf(c) \in DOMAIN before
      THEN result[c[1]] = 0
      ELSE \E d \in InsertionsOf(EdgeOf(c)) : result[d[1]] = 1

\* Every batch is processed, unless the edge blocks run out: the threads of a pass
\* never wait for each other for good, nor do those of the deletions.
BatchesProcessed == <>[](aborted \/ (phase = "done" /\ batches = << >>))

\* "Inserts and removes the edges contained in a batch." (process_batch), for a
\* batch of numbers too.
NumbersInserted ==
  phase = "done" =>
    \A i \in DOMAIN upd : <<upd[i].type, upd[i].from, upd[i].to>> \in EdgeSet

\* "Prevents batch update from trying to insert this edge" (process_insertions):
\* an insertion that was marked is not made.
FailedStaysFailed == phase # "resolve" => \A i \in DOMAIN upd : Failed(i) => result[i] = -1
=============================================================================
