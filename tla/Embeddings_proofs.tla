--------------------------- MODULE Embeddings_proofs ---------------------------
(***************************************************************************)
(* Proofs about Embeddings, for every number of processes, models, nodes   *)
(* and values.                                                             *)
(***************************************************************************)
EXTENDS Embeddings, TLAPS

-----------------------------------------------------------------------------
(* Lemmas about the operators                                              *)

Optional(S) == S \cup {Null}

\* A surface is never the empty one.
LEMMA ComposeType ==
    ASSUME NEW name \in Optional(Names), NEW content \in Optional(Bodies), NEW isText \in BOOLEAN
    PROVE  Compose(name, content, isText) \in Optional(Surfaces)
<1> DEFINE hasText == isText /\ content \notin {Null, Empty}
<1>1. CASE hasText
  <2>1. content \in Texts \cup Blobs
    BY <1>1 DEF Bodies, Optional
  <2>2. content # Null
    BY <1>1
  <2> QED
    BY <1>1, <2>1, <2>2 DEF Compose, Surfaces, Optional
<1>2. CASE ~hasText
  BY <1>2 DEF Compose, Surfaces, Optional
<1> QED
  BY <1>1, <1>2

\* A stored vector is of the model it was asked of and of the surface given.
LEMMA VectorOfType ==
    ASSUME NEW model \in Models, NEW name \in Optional(Names),
           NEW content \in Optional(Bodies), NEW isText \in BOOLEAN
    PROVE  /\ VectorOf(model, name, content, isText) \in Optional(Vectors)
           /\ VectorOf(model, name, content, isText) # Null =>
                 /\ VectorOf(model, name, content, isText).model = model
                 /\ VectorOf(model, name, content, isText).of = Compose(name, content, isText)
<1>1. Compose(name, content, isText) \in Optional(Surfaces)
  BY ComposeType
<1> QED
  BY <1>1 DEF VectorOf, Vectors, Optional

\* A row remains one when its vector is computed.
LEMMA RegeneratedType ==
    ASSUME NEW row \in Row, NEW model \in Models
    PROVE  /\ RegenerateEmbedding(row, model) \in Row
           /\ RegenerateContentEmbedding(row, model) \in Row
<1>1. IsText(row) \in BOOLEAN
  BY DEF IsText
<1>2. row.name \in Optional(Names) /\ row.content \in Optional(Bodies)
  BY DEF Row, Optional
<1>3. VectorOf(model, row.name, row.content, IsText(row)) \in Optional(Vectors)
  BY <1>1, <1>2, VectorOfType
<1> QED
  BY <1>3 DEF RegenerateEmbedding, RegenerateContentEmbedding, Embedded, Row, Optional

-----------------------------------------------------------------------------
(* What a mutation does                                                    *)

\* The row of node n after a mutation of process p: gone, or with a new stamp
\* and a vector that is none, the row's own, or the one there was.
Mutated(p, n) ==
    nodes'[n] # Null =>
        LET row == nodes'[n]
        IN  /\ row.stamp = clock' /\ clock' = clock + 1
            /\ \/ row.vector = Null
               \/ /\ ~row.skip
                  /\ row.vector = VectorOf(proc[p].model, row.name, row.content, IsText(row))
               \/ /\ nodes[n] # Null
                  /\ row.vector = nodes[n].vector /\ row.skip = nodes[n].skip
                  /\ row.skip \/ (row.name = nodes[n].name /\ row.content = nodes[n].content)

LEMMA RegeneratedVector ==
    ASSUME NEW row \in Row, NEW model \in Models, NEW new,
           \/ new = RegenerateEmbedding(row, model)
           \/ new = RegenerateContentEmbedding(row, model)
    PROVE  /\ new.name = row.name /\ new.content = row.content
           /\ new.skip = row.skip /\ new.stamp = row.stamp
           /\ ~row.skip => new.vector = VectorOf(model, new.name, new.content, IsText(new))
           /\ row.skip => new.vector \in {Null, row.vector}
  BY DEF RegenerateEmbedding, RegenerateContentEmbedding, Embedded, Row, IsText

LEMMA ServingModel ==
    ASSUME TypeOK, NEW p \in Processes, Serves(p)
    PROVE  proc[p] \in Task
  BY DEF TypeOK, Serves, Down, Task, Run, Writing

LEMMA MutationStep ==
    ASSUME TypeOK, NEW p \in Processes, Mutation(p)
    PROVE  /\ UNCHANGED <<recorded, proc, switch>>
           /\ Serves(p)
           /\ nodes' \in [NodeIds -> Optional(Row)]
           /\ issued' \in 0..MaxNode
           /\ clock' \in Stamps /\ clock <= clock'
           /\ \E n \in NodeIds : /\ Mutated(p, n)
                                 /\ \A m \in NodeIds \ {n} : nodes'[m] = nodes[m]
<1> DEFINE Result(n) == /\ UNCHANGED <<recorded, proc, switch>>
                        /\ Serves(p)
                        /\ nodes' \in [NodeIds -> Optional(Row)]
                        /\ issued' \in 0..MaxNode
                        /\ clock' \in Stamps /\ clock <= clock'
                        /\ Mutated(p, n)
                        /\ \A m \in NodeIds \ {n} : nodes'[m] = nodes[m]
<1> USE EmbeddingsAssumption
<1>0. Serves(p) /\ proc[p].model \in Models
  <2>1. Serves(p)
    BY DEF Mutation, CreateNode, Patch, UploadContent, PatchContent, Delete
  <2> QED
    BY <2>1, ServingModel DEF Task
<1>1. ASSUME NEW name \in Optional(Names), NEW skip \in BOOLEAN, CreateNode(p, name, skip)
      PROVE  \E n \in NodeIds : Result(n)
  <2> DEFINE row == [name |-> name, content |-> Null, skip |-> skip,
                     stamp |-> clock', vector |-> Null]
             new == RegenerateEmbedding(row, proc[p].model)
  <2>1. issued' \in NodeIds /\ issued' \in 0..MaxNode
    BY <1>1 DEF CreateNode, TypeOK, NodeIds
  <2>2. clock' \in Stamps /\ clock' = clock + 1 /\ clock <= clock'
    BY <1>1 DEF CreateNode, Tick, TypeOK, Stamps
  <2>3. row \in Row
    BY <2>2 DEF Row, Optional
  <2>4. new \in Row
    BY <1>0, <2>3, RegeneratedType
  <2>5. nodes' = [nodes EXCEPT ![issued'] = new]
    BY <1>1 DEF CreateNode, Store
  <2>6. Mutated(p, issued')
    <3>1. nodes'[issued'] = new
      BY <2>1, <2>5 DEF TypeOK
    <3>2. /\ new.stamp = row.stamp /\ new.skip = row.skip
          /\ ~row.skip => new.vector = VectorOf(proc[p].model, new.name, new.content, IsText(new))
          /\ row.skip => new.vector \in {Null, row.vector}
      <4> HIDE DEF row, new
      <4> QED
        BY <1>0, <2>3, RegeneratedVector DEF new
    <3> QED
      BY <2>2, <3>1, <3>2 DEF Mutated
  <2> QED
    BY <1>0, <1>1, <2>1, <2>2, <2>4, <2>5, <2>6 DEF CreateNode, TypeOK, Optional
<1>2. ASSUME NEW name \in Optional(Names), NEW skip \in BOOLEAN, NEW n \in NodeIds,
             NEW touched \in BOOLEAN, Patch(p, n, touched, name, skip)
      PROVE  Result(n)
  <2> DEFINE row == [nodes[n] EXCEPT !.name = name, !.skip = skip, !.stamp = clock']
             new == IF touched THEN RegenerateEmbedding(row, proc[p].model) ELSE row
  <2>1. nodes[n] \in Row
    BY <1>2 DEF Patch, TypeOK
  <2>2. clock' \in Stamps /\ clock' = clock + 1 /\ clock <= clock'
    BY <1>2 DEF Patch, Tick, TypeOK, Stamps
  <2>3. row \in Row
    BY <2>1, <2>2 DEF Row, Optional
  <2>4. new \in Row
    BY <1>0, <2>3, RegeneratedType
  <2>5. nodes' = [nodes EXCEPT ![n] = new]
    BY <1>2 DEF Patch, Store
  <2>6. nodes'[n] = new
    BY <2>5 DEF TypeOK
  <2>7. ASSUME touched PROVE Mutated(p, n)
    <3>1. /\ new.stamp = row.stamp /\ new.skip = row.skip
          /\ ~row.skip => new.vector = VectorOf(proc[p].model, new.name, new.content, IsText(new))
          /\ row.skip => new.vector = Null
      <4>1. new = RegenerateEmbedding(row, proc[p].model)
        BY <2>7
      <4>2. row.skip => new.vector = Null
        BY <2>3, <4>1 DEF RegenerateEmbedding, Row
      <4> HIDE DEF row, new
      <4> QED
        BY <1>0, <2>3, <4>1, <4>2, RegeneratedVector
    <3>2. row.stamp = clock'
      BY <2>1 DEF Row
    <3> QED
      BY <2>2, <2>6, <3>1, <3>2 DEF Mutated
  <2>8. ASSUME ~touched PROVE Mutated(p, n)
    BY <1>2, <2>1, <2>2, <2>6, <2>8 DEF Mutated, Patch, Row
  <2> QED
    BY <1>0, <1>2, <2>2, <2>4, <2>5, <2>7, <2>8 DEF Patch, TypeOK, Optional, Result
<1>3. ASSUME NEW n \in NodeIds, NEW content \in Bodies,
             UploadContent(p, n, content) \/ PatchContent(p, n, content)
      PROVE  Result(n)
  <2> DEFINE row == [nodes[n] EXCEPT !.content = content, !.stamp = clock']
             new == RegenerateContentEmbedding(row, proc[p].model)
  <2>1. nodes[n] \in Row /\ nodes[n] # Null
    BY <1>3 DEF UploadContent, PatchContent, TypeOK
  <2>2. clock' \in Stamps /\ clock' = clock + 1 /\ clock <= clock'
    BY <1>3 DEF UploadContent, PatchContent, Tick, TypeOK, Stamps
  <2>3. row \in Row
    BY <2>1, <2>2 DEF Row, Optional
  <2>4. new \in Row
    BY <1>0, <2>3, RegeneratedType
  <2>5. nodes' = [nodes EXCEPT ![n] = new]
    BY <1>3 DEF UploadContent, PatchContent, Store
  <2>6. nodes'[n] = new
    BY <2>5 DEF TypeOK
  <2>7. /\ row.stamp = clock' /\ row.skip = nodes[n].skip /\ row.vector = nodes[n].vector
    BY <2>1 DEF Row
  <2>8. /\ new.stamp = row.stamp /\ new.skip = row.skip
        /\ ~row.skip => new.vector = VectorOf(proc[p].model, new.name, new.content, IsText(new))
        /\ row.skip => new.vector \in {Null, row.vector}
    <3> HIDE DEF row, new
    <3> QED
      BY <1>0, <2>3, RegeneratedVector DEF new
  <2>9. Mutated(p, n)
    BY <2>1, <2>2, <2>6, <2>7, <2>8 DEF Mutated
  <2> QED
    BY <1>0, <1>3, <2>2, <2>4, <2>5, <2>9 DEF UploadContent, PatchContent, TypeOK, Optional
<1>4. ASSUME NEW n \in NodeIds, Delete(p, n) PROVE Result(n)
  BY <1>0, <1>4 DEF Delete, Store, Mutated, TypeOK, Optional, Stamps
<1> QED
  BY <1>1, <1>2, <1>3, <1>4 DEF Mutation, Optional, Bodies

-----------------------------------------------------------------------------
(* Type correctness                                                        *)

\* The process record of each phase.
LEMMA Phases ==
    ASSUME TypeOK, NEW p \in Processes
    PROVE  /\ proc[p] = Down \/ proc[p].phase # "down"
           /\ proc[p].phase \in Starting \cup {"up", "prepared"} => proc[p] \in Task
           /\ proc[p].phase \in {"backfill", "done"} => proc[p] \in Run
           /\ proc[p].phase = "write" => proc[p] \in Writing
  BY DEF TypeOK, Down, Task, Run, Writing, Starting

\* Only the process that steps changes what it is doing.
LEMMA TypeProcess ==
    ASSUME TypeOK, NEW p \in Processes, NEW t \in {Down} \cup Task \cup Run \cup Writing,
           proc' = [proc EXCEPT ![p] = t], UNCHANGED <<tables, switch>>
    PROVE  TypeOK'
  BY DEF TypeOK, tables

LEMMA TypeInit == Init => TypeOK
  BY EmbeddingsAssumption DEF Init, TypeOK, Stamps, Down

LEMMA PassedType ==
    ASSUME NEW p \in Processes, proc[p] \in Task
    PROVE  Passed(p) \in Task
  BY DEF Passed, Task

LEMMA TypeGuard ==
    ASSUME TypeOK, NEW p \in Processes, Guard(p)
    PROVE  TypeOK'
<1>1. proc[p] \in Task
  BY Phases DEF Guard, LoadRecorded, HasVectors, Record, LoadWinner, Starting
<1>2. Passed(p) \in Task
  BY <1>1, PassedType
<1>3. CASE LoadRecorded(p)
  <2> DEFINE t == CASE recorded = proc[p].model -> Passed(p)
                    [] recorded = Null    ->
                         [proc[p] EXCEPT !.phase =
                            IF proc[p].model = Legacy THEN "record" ELSE "vectors"]
                    [] OTHER -> Down
  <2>1. t \in {Down} \cup Task
    BY <1>1, <1>2, EmbeddingsAssumption DEF Task, Starting
  <2>2. proc' = [proc EXCEPT ![p] = t] /\ UNCHANGED <<tables, switch>>
    BY <1>3 DEF LoadRecorded
  <2> HIDE DEF t
  <2> QED
    BY <2>1, <2>2, TypeProcess
<1>4. CASE HasVectors(p)
  <2>1. [proc[p] EXCEPT !.phase = "record"] \in Task
    BY <1>1 DEF Task, Starting
  <2>2. PICK t \in {Down} \cup Task : proc' = [proc EXCEPT ![p] = t]
    BY <1>4, <2>1 DEF HasVectors, TypeOK
  <2> QED
    BY <1>4, <2>2, TypeProcess DEF HasVectors
<1>5. CASE Record(p)
  <2>1. [proc[p] EXCEPT !.phase = "conflict"] \in Task
    BY <1>1 DEF Task, Starting
  <2>2. recorded' \in Models \cup {Null}
    BY <1>1, <1>5 DEF Record, Task, TypeOK
  <2>3. proc' \in [Processes -> {Down} \cup Task \cup Run \cup Writing]
    BY <1>2, <1>5, <2>1 DEF Record, TypeOK
  <2> QED
    BY <1>5, <2>2, <2>3 DEF Record, TypeOK
<1>6. CASE LoadWinner(p)
  BY <1>2, <1>6, TypeProcess DEF LoadWinner
<1> QED
  BY <1>3, <1>4, <1>5, <1>6 DEF Guard

LEMMA CandidatesType ==
    ASSUME TypeOK, NEW ids \in SUBSET NodeIds
    PROVE  Candidates(ids) \in SUBSET Candidate
<1>1. ASSUME NEW n \in ids, nodes[n] # Null
      PROVE  [id |-> n, name |-> nodes[n].name, isText |-> IsText(nodes[n]),
              stamp |-> nodes[n].stamp] \in Candidate
  <2>1. nodes[n] \in Row
    BY <1>1 DEF TypeOK
  <2> QED
    BY <2>1 DEF Candidate, Row, IsText
<1> QED
  BY <1>1 DEF Candidates

LEMMA TypeBackfill ==
    ASSUME TypeOK, NEW p \in Processes, Backfill(p)
    PROVE  TypeOK'
<1>1. ASSUME NEW ids \in SUBSET NodeIds, LoadCandidates(p, ids) PROVE TypeOK'
  <2>1. proc[p] \in Task /\ clock \in Stamps
    BY <1>1, Phases DEF LoadCandidates, TypeOK
  <2>2. [phase |-> "backfill", kind |-> proc[p].kind, model |-> proc[p].model,
         ids |-> ids, began |-> clock, todo |-> Candidates(ids)] \in Run
    BY <2>1, CandidatesType DEF Task, Run
  <2> QED
    BY <1>1, <2>2, TypeProcess DEF LoadCandidates
<1>2. ASSUME proc[p].phase = "backfill", NEW c \in proc[p].todo, LoadContent(p, c) PROVE TypeOK'
  <2>1. proc[p] \in Run /\ c \in Candidate
    BY <1>2, Phases DEF Run
  <2> DEFINE content == IF nodes[c.id] = Null \/ ~c.isText THEN Null ELSE nodes[c.id].content
  <2>2. content \in Bodies \cup {Null}
    BY <2>1 DEF TypeOK, Candidate, Row
  <2>3. [phase |-> "write", kind |-> proc[p].kind, model |-> proc[p].model, ids |-> proc[p].ids,
         began |-> proc[p].began, todo |-> proc[p].todo \ {c}, current |-> c,
         content |-> content] \in Writing
    BY <2>1, <2>2 DEF Run, Writing
  <2> QED
    BY <1>2, <2>3, TypeProcess DEF LoadContent
<1>3. CASE WriteCandidate(p)
  <2>1. proc[p] \in Writing
    BY <1>3, Phases DEF WriteCandidate
  <2> DEFINE c == proc[p].current
             v == VectorOf(proc[p].model, c.name, proc[p].content, c.isText)
  <2>2. c \in Candidate /\ v \in Optional(Vectors)
    BY <2>1, VectorOfType DEF Writing, Candidate, Optional
  <2>3. nodes' \in [NodeIds -> Row \cup {Null}]
    <3>1. ASSUME Target(c) PROVE [nodes[c.id] EXCEPT !.vector = v] \in Row
      BY <2>2, <3>1 DEF Target, TypeOK, Candidate, Row, Optional
    <3> QED
      BY <1>3, <3>1 DEF WriteCandidate, TypeOK
  <2>4. [phase |-> "backfill", kind |-> proc[p].kind, model |-> proc[p].model,
         ids |-> proc[p].ids, began |-> proc[p].began, todo |-> proc[p].todo] \in Run
    BY <2>1 DEF Writing, Run
  <2> QED
    BY <1>3, <2>3, <2>4 DEF WriteCandidate, TypeOK
<1>4. CASE Complete(p)
  <2>1. proc[p] \in Run
    BY <1>4, Phases DEF Complete
  <2>2. [proc[p] EXCEPT !.phase = "done"] \in Run
    BY <2>1 DEF Run
  <2> QED
    BY <1>4, <2>2, TypeProcess DEF Complete
<1> QED
  BY <1>1, <1>2, <1>3, <1>4 DEF Backfill

LEMMA TypeSwitch == ASSUME TypeOK, Switch PROVE TypeOK'
<1>1. ASSUME NEW row \in Row PROVE [row EXCEPT !.vector = Null] \in Row
  BY DEF Row
<1> QED
  BY <1>1 DEF Switch, BeginSwitch, ClearVectors, DeleteRecord, Abandon, TypeOK, tables

LEMMA TypeStep == TypeOK /\ [Next]_vars => TypeOK'
<1> SUFFICES ASSUME TypeOK, [Next]_vars PROVE TypeOK'
  OBVIOUS
<1>1. ASSUME NEW p \in Processes, NEW kind \in {"instance", "backfill"}, NEW model \in Models,
             Start(p, kind, model)
      PROVE  TypeOK'
  <2>1. [phase |-> "start", kind |-> kind, model |-> model] \in Task
    BY DEF Task, Starting
  <2> QED
    BY <1>1, <2>1, TypeProcess DEF Start
<1>2. ASSUME NEW p \in Processes, Mutation(p) PROVE TypeOK'
  BY <1>2, MutationStep DEF TypeOK, Optional
<1>3. ASSUME NEW p \in Processes, Exit(p) PROVE TypeOK'
  BY <1>3, TypeProcess DEF Exit
<1>4. CASE UNCHANGED vars
  BY <1>4 DEF vars, TypeOK
<1> QED
  BY <1>1, <1>2, <1>3, <1>4, TypeGuard, TypeBackfill, TypeSwitch DEF Next

\* Every row, record and process state is well formed.
THEOREM TypeCorrect == Spec => []TypeOK
  BY TypeInit, TypeStep, PTL DEF Spec

-----------------------------------------------------------------------------
(* One model per database                                                  *)

NoVectors == \A n \in NodeIds : nodes[n] # Null => nodes[n].vector = Null

(***************************************************************************)
(* OneModelPerDatabase is not inductive: a process about to record its     *)
(* model has to know that there are no vectors of another, which nobody    *)
(* can have added since it looked as long as nothing is recorded, and the  *)
(* record must not be deleted before the vectors are.                      *)
(***************************************************************************)
ModelInvariant ==
    /\ OneModelPerDatabase
    /\ switch # "no" => \A p \in Processes : proc[p] = Down
    /\ switch = "cleared" => NoVectors
    /\ \A p \in Processes :
          proc[p].phase = "record" /\ recorded = Null /\ proc[p].model # Legacy => NoVectors

LEMMA ModelInit == Init => ModelInvariant
<1> SUFFICES ASSUME Init PROVE ModelInvariant
  OBVIOUS
<1>1. ASSUME NEW n \in NodeIds, nodes[n] # Null, nodes[n].vector # Null
      PROVE  nodes[n].vector.model = Legacy
  <2>1. nodes[n] \in Row /\ IsText(nodes[n]) \in BOOLEAN
    BY <1>1 DEF Init, IsText
  <2>2. nodes[n].vector = VectorOf(Legacy, nodes[n].name, nodes[n].content, IsText(nodes[n]))
    BY <1>1, <2>1 DEF Init, Embedded, Row
  <2>3. nodes[n].name \in Optional(Names) /\ nodes[n].content \in Optional(Bodies)
    BY <2>1 DEF Row, Optional
  <2> QED
    BY <1>1, <2>1, <2>2, <2>3, VectorOfType, EmbeddingsAssumption
<1> QED
  BY <1>1 DEF Init, ModelInvariant, OneModelPerDatabase, Down, Embedding

\* A process past the guard works with a model that is recorded.
LEMMA EmbeddingRecorded ==
    ASSUME TypeOK, ModelInvariant, NEW p \in Processes, proc[p].phase \in Embedding
    PROVE  /\ recorded \in Models /\ recorded # Null /\ proc[p].model = recorded
           /\ switch = "no"
<1>1. proc[p].model \in Models
  BY Phases DEF Embedding, Task, Run, Writing
<1>2. proc[p].model = recorded
  BY DEF ModelInvariant, OneModelPerDatabase
<1>3. proc[p] # Down
  BY DEF Down, Embedding
<1> QED
  BY <1>1, <1>2, <1>3, EmbeddingsAssumption DEF ModelInvariant, TypeOK

\* Steps of a process past the guard that store at most vectors of its model.
LEMMA ModelStored ==
    ASSUME TypeOK, ModelInvariant, NEW p \in Processes, proc[p].phase \in Embedding,
           UNCHANGED <<recorded, switch>>,
           \A o \in Processes : o # p => proc'[o] = proc[o],
           proc'[p].phase \in Embedding => proc'[p].model = proc[p].model,
           proc'[p].phase # "record",
           \A n \in NodeIds : nodes'[n] # Null /\ nodes'[n].vector # Null =>
               \/ nodes'[n].vector.model = proc[p].model
               \/ nodes[n] # Null /\ nodes'[n].vector = nodes[n].vector
    PROVE  ModelInvariant'
<1>1. recorded # Null /\ proc[p].model = recorded /\ switch = "no"
  BY EmbeddingRecorded
<1>2. ASSUME NEW n \in NodeIds, nodes'[n] # Null, nodes'[n].vector # Null
      PROVE  nodes'[n].vector.model = recorded
  BY <1>1, <1>2 DEF ModelInvariant, OneModelPerDatabase
<1>3. OneModelPerDatabase'
  BY <1>1, <1>2 DEF ModelInvariant, OneModelPerDatabase
<1> QED
  BY <1>1, <1>3 DEF ModelInvariant

LEMMA ModelMutation ==
    ASSUME TypeOK, ModelInvariant, NEW p \in Processes, Mutation(p)
    PROVE  ModelInvariant'
<1>1. /\ UNCHANGED <<recorded, proc, switch>>
      /\ proc[p].phase = "up" /\ proc[p].model \in Models
      /\ nodes' \in [NodeIds -> Optional(Row)]
  BY MutationStep, ServingModel DEF Serves, Task
<1>2. PICK n \in NodeIds : Mutated(p, n) /\ \A m \in NodeIds \ {n} : nodes'[m] = nodes[m]
  BY MutationStep
<1>3. ASSUME nodes'[n] # Null, nodes'[n].vector # Null
      PROVE  \/ nodes'[n].vector.model = proc[p].model
             \/ nodes[n] # Null /\ nodes'[n].vector = nodes[n].vector
  <2>1. nodes'[n] \in Row /\ IsText(nodes'[n]) \in BOOLEAN
    BY <1>1, <1>3 DEF Optional, IsText
  <2>2. nodes'[n].name \in Optional(Names) /\ nodes'[n].content \in Optional(Bodies)
    BY <2>1 DEF Row, Optional
  <2> QED
    BY <1>1, <1>2, <1>3, <2>1, <2>2, VectorOfType DEF Mutated
<1>4. \A m \in NodeIds : nodes'[m] # Null /\ nodes'[m].vector # Null =>
         \/ nodes'[m].vector.model = proc[p].model
         \/ nodes[m] # Null /\ nodes'[m].vector = nodes[m].vector
  BY <1>2, <1>3
<1> QED
  BY <1>1, <1>4, ModelStored DEF Embedding

LEMMA ModelGuard ==
    ASSUME TypeOK, ModelInvariant, NEW p \in Processes, Guard(p)
    PROVE  ModelInvariant'
<1>1. /\ proc[p] \in Task /\ proc[p] # Down /\ switch = "no"
      /\ \A o \in Processes : o # p => proc'[o] = proc[o]
      /\ UNCHANGED <<nodes, switch>>
  BY Phases DEF Guard, LoadRecorded, HasVectors, Record, LoadWinner, Starting, TypeOK,
     tables, ModelInvariant, Down
<1>2. /\ Passed(p).phase \in {"up", "prepared"} /\ Passed(p).model = proc[p].model
  BY <1>1 DEF Passed, Task
<1>3. CASE LoadRecorded(p)
  <2>1. /\ proc'[p].phase \in Embedding => proc'[p].model = recorded
        /\ proc'[p].phase = "record" => proc'[p].model = Legacy
        /\ recorded' = recorded
    BY <1>1, <1>2, <1>3, EmbeddingsAssumption
    DEF LoadRecorded, Embedding, Task, TypeOK, Down, tables
  <2> QED
    BY <1>1, <2>1 DEF ModelInvariant, OneModelPerDatabase, NoVectors
<1>4. CASE HasVectors(p)
  <2>1. /\ proc'[p].phase \notin Embedding
        /\ proc'[p].phase = "record" => NoVectors
        /\ recorded' = recorded
    BY <1>1, <1>4 DEF HasVectors, Embedding, Task, TypeOK, Down, tables, NoVectors
  <2> QED
    BY <1>1, <2>1 DEF ModelInvariant, OneModelPerDatabase, NoVectors
<1>5. CASE Record(p)
  <2>1. CASE recorded = Null
    <3>1. recorded' = proc[p].model /\ recorded' # Null
      BY <1>1, <1>5, <2>1, EmbeddingsAssumption DEF Record, Task
    <3>2. proc'[p] = Passed(p)
      BY <1>5, <2>1 DEF Record, TypeOK
    <3>3. \A o \in Processes : proc[o].phase \notin Embedding
      BY <2>1, EmbeddingRecorded
    <3>4. proc[p].model # Legacy => NoVectors
      BY <1>5, <2>1 DEF Record, ModelInvariant
    <3>5. \A n \in NodeIds : nodes[n] # Null /\ nodes[n].vector # Null =>
             nodes[n].vector.model = proc[p].model
      BY <2>1, <3>4 DEF ModelInvariant, OneModelPerDatabase, NoVectors
    <3>6. OneModelPerDatabase'
      BY <1>1, <1>2, <3>1, <3>2, <3>3, <3>5 DEF OneModelPerDatabase
    <3> QED
      BY <1>1, <3>1, <3>6 DEF ModelInvariant
  <2>2. CASE recorded # Null
    <3>1. proc'[p].phase = "conflict" /\ recorded' = recorded
      BY <1>1, <1>5, <2>2 DEF Record, TypeOK, Task
    <3> QED
      BY <1>1, <2>2, <3>1 DEF ModelInvariant, OneModelPerDatabase, Embedding
  <2> QED
    BY <2>1, <2>2
<1>6. CASE LoadWinner(p)
  <2>1. /\ proc'[p].phase \in Embedding => proc'[p].model = recorded
        /\ proc'[p].phase # "record"
        /\ recorded' = recorded
    BY <1>1, <1>2, <1>6 DEF LoadWinner, Embedding, Task, TypeOK, Down, tables
  <2> QED
    BY <1>1, <2>1 DEF ModelInvariant, OneModelPerDatabase, NoVectors
<1> QED
  BY <1>3, <1>4, <1>5, <1>6 DEF Guard

LEMMA ModelBackfill ==
    ASSUME TypeOK, ModelInvariant, NEW p \in Processes, Backfill(p)
    PROVE  ModelInvariant'
<1>1. /\ proc[p].phase \in Embedding
      /\ UNCHANGED <<recorded, switch>>
      /\ \A o \in Processes : o # p => proc'[o] = proc[o]
  BY DEF Backfill, LoadCandidates, LoadContent, WriteCandidate, Complete, Embedding, TypeOK,
     tables
<1>2. proc'[p].model = proc[p].model /\ proc'[p].phase # "record"
  <2>1. CASE Complete(p)
    <3>1. proc[p] \in Run
      BY <2>1, Phases DEF Complete
    <3> QED
      BY <2>1, <3>1 DEF Complete, TypeOK, Run
  <2> QED
    BY <2>1 DEF Backfill, LoadCandidates, LoadContent, WriteCandidate, TypeOK
<1>3. ASSUME NEW n \in NodeIds, nodes'[n] # Null, nodes'[n].vector # Null
      PROVE  \/ nodes'[n].vector.model = proc[p].model
             \/ nodes[n] # Null /\ nodes'[n].vector = nodes[n].vector
  <2>1. CASE WriteCandidate(p) /\ Target(proc[p].current)
    <3> DEFINE c == proc[p].current
               v == VectorOf(proc[p].model, c.name, proc[p].content, c.isText)
    <3>1. proc[p] \in Writing
      BY <2>1, Phases DEF WriteCandidate
    <3>2. c \in Candidate /\ (v # Null => v.model = proc[p].model)
      BY <3>1, VectorOfType DEF Writing, Candidate, Optional
    <3>3. nodes' = [nodes EXCEPT ![c.id].vector = v] /\ nodes[c.id] \in Row
      BY <2>1, <3>2 DEF WriteCandidate, Target, TypeOK, Candidate
    <3>4. CASE n = c.id
      BY <1>3, <3>2, <3>3, <3>4 DEF TypeOK, Row
    <3>5. CASE n # c.id
      BY <1>3, <3>3, <3>5 DEF TypeOK
    <3> QED
      BY <3>4, <3>5
  <2>2. CASE nodes' = nodes
    BY <1>3, <2>2
  <2> QED
    BY <2>1, <2>2 DEF Backfill, LoadCandidates, LoadContent, WriteCandidate, Complete, tables
<1> QED
  BY <1>1, <1>2, <1>3, ModelStored

LEMMA ModelStep == TypeOK /\ ModelInvariant /\ [Next]_vars => ModelInvariant'
<1> SUFFICES ASSUME TypeOK, ModelInvariant, [Next]_vars PROVE ModelInvariant'
  OBVIOUS
<1>1. ASSUME NEW p \in Processes, NEW kind \in {"instance", "backfill"}, NEW model \in Models,
             Start(p, kind, model)
      PROVE  ModelInvariant'
  BY <1>1 DEF Start, ModelInvariant, OneModelPerDatabase, NoVectors, TypeOK, tables, Embedding
<1>2. ASSUME NEW p \in Processes, Exit(p) PROVE ModelInvariant'
  BY <1>2 DEF Exit, ModelInvariant, OneModelPerDatabase, NoVectors, TypeOK, tables, Down,
     Embedding
<1>3. CASE Switch
  <2>1. CASE BeginSwitch \/ Abandon
    BY <2>1 DEF BeginSwitch, Abandon, ModelInvariant, OneModelPerDatabase, NoVectors, tables
  <2>2. CASE ClearVectors
    <3>1. \A n \in NodeIds : nodes'[n] # Null => nodes'[n].vector = Null
      BY <2>2 DEF ClearVectors, TypeOK, Row
    <3> QED
      BY <2>2, <3>1 DEF ClearVectors, ModelInvariant, OneModelPerDatabase, NoVectors
  <2>3. CASE DeleteRecord
    <3>1. /\ UNCHANGED <<nodes, proc>> /\ NoVectors
          /\ \A p \in Processes : proc[p] = Down
          /\ switch' = "no"
      BY <2>3 DEF DeleteRecord, ModelInvariant
    <3> QED
      BY <3>1 DEF ModelInvariant, OneModelPerDatabase, NoVectors, Down, Embedding
  <2> QED
    BY <1>3, <2>1, <2>2, <2>3 DEF Switch
<1>4. CASE UNCHANGED vars
  BY <1>4 DEF vars, ModelInvariant, OneModelPerDatabase, NoVectors
<1> QED
  BY <1>1, <1>2, <1>3, <1>4, ModelGuard, ModelMutation, ModelBackfill DEF Next

\* No interleaving of starts, crashes, mutations, backfills and switches puts the
\* vectors of two models into one database.
THEOREM OneModelPerDatabaseAlways == Spec => []OneModelPerDatabase
<1>1. ModelInvariant => OneModelPerDatabase
  BY DEF ModelInvariant
<1> QED
  BY <1>1, TypeInit, TypeStep, ModelInit, ModelStep, PTL DEF Spec

-----------------------------------------------------------------------------
(* Fresh vectors                                                           *)

\* What a candidate says of its row holds as long as the row has its stamp.
Known(c) ==
    /\ c.stamp <= clock
    /\ Target(c) => /\ c.name = nodes[c.id].name
                    /\ c.isText = IsText(nodes[c.id])
                    /\ ~nodes[c.id].skip

\* So does the body read later, if the row then still had that stamp.
KnownContent(c, content) ==
    Target(c) => content = IF c.isText THEN nodes[c.id].content ELSE Null

(***************************************************************************)
(* FreshVectors rests on what the backfill remembers being right for the   *)
(* rows it will still write, which in turn rests on stamps that only grow: *)
(* a row changed after it was read has a stamp no candidate has.           *)
(***************************************************************************)
FreshInvariant ==
    /\ FreshVectors
    /\ \A n \in NodeIds : nodes[n] # Null => nodes[n].stamp <= clock
    /\ \A p \in Processes :
          /\ proc[p].phase \in {"backfill", "done", "write"} => \A c \in proc[p].todo : Known(c)
          /\ proc[p].phase = "write" => /\ Known(proc[p].current)
                                        /\ KnownContent(proc[p].current, proc[p].content)

\* A body that is not text contributes nothing.
LEMMA ComposeNoText ==
    ASSUME NEW name, NEW content
    PROVE  Compose(name, content, FALSE) = Compose(name, Null, FALSE)
  BY DEF Compose

LEMMA FreshInit == Init => FreshInvariant
<1> SUFFICES ASSUME Init PROVE FreshInvariant
  OBVIOUS
<1>1. ASSUME NEW n \in NodeIds, nodes[n] # Null, nodes[n].vector # Null
      PROVE  /\ ~nodes[n].skip
             /\ nodes[n].vector.of = Compose(nodes[n].name, nodes[n].content, IsText(nodes[n]))
  <2>1. nodes[n] \in Row /\ IsText(nodes[n]) \in BOOLEAN /\ ~nodes[n].skip
    BY <1>1 DEF Init, IsText
  <2>2. nodes[n].vector = VectorOf(Legacy, nodes[n].name, nodes[n].content, IsText(nodes[n]))
    BY <1>1, <2>1 DEF Init, Embedded, Row
  <2>3. nodes[n].name \in Optional(Names) /\ nodes[n].content \in Optional(Bodies)
    BY <2>1 DEF Row, Optional
  <2> QED
    BY <1>1, <2>1, <2>2, <2>3, VectorOfType, EmbeddingsAssumption
<1> QED
  BY <1>1 DEF Init, FreshInvariant, FreshVectors, Down

\* What processes remember stays right when each row keeps its name, text,
\* opt-out and stamp, or gets a stamp newer than all before.
LEMMA KnownStays ==
    ASSUME TypeOK, clock' \in Stamps, clock <= clock', NEW c \in Candidate,
           nodes'[c.id] # Null =>
              \/ /\ nodes[c.id] # Null
                 /\ nodes'[c.id].name = nodes[c.id].name
                 /\ nodes'[c.id].content = nodes[c.id].content
                 /\ nodes'[c.id].skip = nodes[c.id].skip
                 /\ nodes'[c.id].stamp = nodes[c.id].stamp
              \/ nodes'[c.id].stamp = clock + 1
    PROVE  /\ Known(c) => Known(c)'
           /\ \A content : Known(c) /\ KnownContent(c, content) => KnownContent(c, content)'
<1>1. c.stamp \in Nat /\ clock \in Nat /\ clock' \in Nat
  BY DEF Candidate, TypeOK, Stamps
<1>2. ASSUME Known(c), Target(c)'
      PROVE  /\ Target(c)
             /\ nodes'[c.id].name = nodes[c.id].name
             /\ nodes'[c.id].content = nodes[c.id].content
             /\ nodes'[c.id].skip = nodes[c.id].skip
  BY <1>1, <1>2 DEF Known, Target
<1>3. Known(c) => c.stamp <= clock'
  BY <1>1 DEF Known
<1> QED
  BY <1>2, <1>3 DEF Known, KnownContent, IsText

\* Whoever remembers something is in one of three phases.
LEMMA Remembered ==
    ASSUME TypeOK, NEW p \in Processes
    PROVE  /\ proc[p].phase \in {"backfill", "done", "write"} => proc[p].todo \in SUBSET Candidate
           /\ proc[p].phase = "write" => proc[p].current \in Candidate
  BY Phases DEF Run, Writing

\* A step that leaves processes alone, except perhaps for phases without memory.
LEMMA FreshStays ==
    ASSUME TypeOK, FreshInvariant, clock' \in Stamps, clock <= clock',
           \A p \in Processes : \/ proc'[p] = proc[p]
                                \/ proc'[p].phase \notin {"backfill", "done", "write"},
           \A n \in NodeIds : nodes'[n] # Null =>
              \/ /\ nodes[n] # Null
                 /\ nodes'[n].name = nodes[n].name
                 /\ nodes'[n].content = nodes[n].content
                 /\ nodes'[n].skip = nodes[n].skip
                 /\ nodes'[n].stamp = nodes[n].stamp
              \/ nodes'[n].stamp = clock + 1 /\ clock' = clock + 1,
           FreshVectors'
    PROVE  FreshInvariant'
<1>1. ASSUME NEW n \in NodeIds, nodes'[n] # Null PROVE nodes'[n].stamp <= clock'
  <2>1. CASE nodes'[n].stamp = clock + 1 /\ clock' = clock + 1
    BY <2>1 DEF TypeOK, Stamps
  <2>2. CASE nodes[n] # Null /\ nodes'[n].stamp = nodes[n].stamp
    <3>1. nodes[n].stamp \in Nat /\ clock \in Nat /\ clock' \in Nat
      BY <2>2 DEF TypeOK, Row, Stamps
    <3> QED
      BY <2>2, <3>1 DEF FreshInvariant
  <2> QED
    BY <1>1, <2>1, <2>2
<1>2. ASSUME NEW c \in Candidate
      PROVE  /\ Known(c) => Known(c)'
             /\ \A content : Known(c) /\ KnownContent(c, content) => KnownContent(c, content)'
  <2>1. c.id \in NodeIds
    BY DEF Candidate
  <2> QED
    BY <2>1, KnownStays
<1>3. ASSUME NEW p \in Processes, proc'[p].phase \in {"backfill", "done", "write"}
      PROVE  /\ (\A c \in proc[p].todo : Known(c))'
             /\ proc'[p].phase = "write" => /\ Known(proc[p].current)'
                                            /\ KnownContent(proc[p].current, proc[p].content)'
  <2>1. proc'[p] = proc[p]
    BY <1>3
  <2> QED
    BY <1>2, <1>3, <2>1, Remembered DEF FreshInvariant
<1> QED
  BY <1>1, <1>3 DEF FreshInvariant

LEMMA FreshMutation ==
    ASSUME TypeOK, FreshInvariant, NEW p \in Processes, Mutation(p)
    PROVE  FreshInvariant'
<1>1. /\ UNCHANGED proc /\ clock' \in Stamps /\ clock <= clock'
      /\ proc[p].model \in Models
      /\ nodes' \in [NodeIds -> Optional(Row)]
  BY MutationStep, ServingModel DEF Task
<1>2. PICK n \in NodeIds : Mutated(p, n) /\ \A m \in NodeIds \ {n} : nodes'[m] = nodes[m]
  BY MutationStep
<1>3. ASSUME nodes'[n] # Null, nodes'[n].vector # Null
      PROVE  /\ ~nodes'[n].skip
             /\ nodes'[n].vector.of
                   = Compose(nodes'[n].name, nodes'[n].content, IsText(nodes'[n]))
  <2>1. nodes'[n] \in Row /\ IsText(nodes'[n]) \in BOOLEAN
    BY <1>1, <1>3 DEF Optional, IsText
  <2>2. nodes'[n].name \in Optional(Names) /\ nodes'[n].content \in Optional(Bodies)
    BY <2>1 DEF Row, Optional
  <2>3. CASE /\ ~nodes'[n].skip
             /\ nodes'[n].vector = VectorOf(proc[p].model, nodes'[n].name, nodes'[n].content,
                                            IsText(nodes'[n]))
    BY <1>1, <1>3, <2>1, <2>2, <2>3, VectorOfType
  <2>4. CASE /\ nodes[n] # Null
             /\ nodes'[n].vector = nodes[n].vector /\ nodes'[n].skip = nodes[n].skip
             /\ nodes'[n].skip \/ ( /\ nodes'[n].name = nodes[n].name
                                    /\ nodes'[n].content = nodes[n].content)
    BY <1>3, <2>4 DEF FreshInvariant, FreshVectors, IsText
  <2> QED
    BY <1>2, <1>3, <2>3, <2>4 DEF Mutated
<1>4. FreshVectors'
  BY <1>2, <1>3 DEF FreshInvariant, FreshVectors, IsText
<1>5. \A m \in NodeIds : nodes'[m] # Null =>
         \/ /\ nodes[m] # Null
            /\ nodes'[m].name = nodes[m].name
            /\ nodes'[m].content = nodes[m].content
            /\ nodes'[m].skip = nodes[m].skip
            /\ nodes'[m].stamp = nodes[m].stamp
         \/ nodes'[m].stamp = clock + 1 /\ clock' = clock + 1
  BY <1>2 DEF Mutated
<1> QED
  BY <1>1, <1>4, <1>5, FreshStays

LEMMA FreshBackfill ==
    ASSUME TypeOK, FreshInvariant, NEW p \in Processes, Backfill(p)
    PROVE  FreshInvariant'
<1>1. \A o \in Processes : o # p => proc'[o] = proc[o]
  BY DEF Backfill, LoadCandidates, LoadContent, WriteCandidate, Complete, TypeOK
<1>2. clock' = clock
  BY DEF Backfill, LoadCandidates, LoadContent, WriteCandidate, Complete, tables
<1>3. ASSUME NEW ids \in SUBSET NodeIds, LoadCandidates(p, ids) PROVE FreshInvariant'
  <2>1. nodes' = nodes
    BY <1>3 DEF LoadCandidates, tables
  <2>2. proc'[p].phase = "backfill" /\ proc'[p].todo = Candidates(ids)
    BY <1>3 DEF LoadCandidates, TypeOK
  <2>3. \A c \in Candidates(ids) : Known(c)
    BY DEF Candidates, Known, Target, FreshInvariant
  <2> QED
    BY <1>1, <1>2, <2>1, <2>2, <2>3
    DEF FreshInvariant, FreshVectors, Known, KnownContent, Target
<1>4. ASSUME NEW c \in proc[p].todo, LoadContent(p, c) PROVE FreshInvariant'
  <2>1. nodes' = nodes
    BY <1>4 DEF LoadContent, tables
  <2>2. /\ proc[p].phase = "backfill"
        /\ proc'[p].phase = "write" /\ proc'[p].todo = proc[p].todo \ {c}
        /\ proc'[p].current = c
        /\ proc'[p].content = IF nodes[c.id] = Null \/ ~c.isText THEN Null ELSE nodes[c.id].content
    BY <1>4 DEF LoadContent, TypeOK
  <2>3. KnownContent(proc'[p].current, proc'[p].content)
    BY <2>2 DEF KnownContent, Target
  <2> QED
    BY <1>1, <1>2, <1>4, <2>1, <2>2, <2>3
    DEF FreshInvariant, FreshVectors, Known, KnownContent, Target
<1>5. CASE WriteCandidate(p)
  <2> DEFINE c == proc[p].current
             v == VectorOf(proc[p].model, c.name, proc[p].content, c.isText)
  <2>1. proc[p] \in Writing
    BY <1>5, Phases DEF WriteCandidate
  <2>2. /\ c \in Candidate
        /\ proc'[p].phase = "backfill" /\ proc'[p].todo = proc[p].todo
    BY <1>5, <2>1 DEF WriteCandidate, Writing, TypeOK
  <2>3. \A n \in NodeIds : nodes'[n] # Null =>
           /\ nodes[n] # Null
           /\ nodes'[n].name = nodes[n].name
           /\ nodes'[n].content = nodes[n].content
           /\ nodes'[n].skip = nodes[n].skip
           /\ nodes'[n].stamp = nodes[n].stamp
    <3>1. CASE Target(c)
      <4>1. nodes' = [nodes EXCEPT ![c.id].vector = v] /\ nodes[c.id] \in Row
        BY <1>5, <2>2, <3>1 DEF WriteCandidate, Target, TypeOK, Candidate
      <4>2. /\ nodes'[c.id].name = nodes[c.id].name
            /\ nodes'[c.id].content = nodes[c.id].content
            /\ nodes'[c.id].skip = nodes[c.id].skip
            /\ nodes'[c.id].stamp = nodes[c.id].stamp
        BY <2>2, <4>1 DEF TypeOK, Row, Candidate
      <4>3. \A n \in NodeIds \ {c.id} : nodes'[n] = nodes[n]
        BY <4>1 DEF TypeOK
      <4> HIDE DEF c
      <4> QED
        BY <3>1, <4>2, <4>3 DEF Target
    <3>2. CASE ~Target(c)
      BY <1>5, <3>2 DEF WriteCandidate
    <3> QED
      BY <3>1, <3>2
  <2>4. FreshVectors'
    <3>1. CASE Target(c)
      <4>1. nodes' = [nodes EXCEPT ![c.id].vector = v] /\ nodes[c.id] \in Row
        BY <1>5, <2>2, <3>1 DEF WriteCandidate, Target, TypeOK, Candidate
      <4>2. /\ c.name = nodes[c.id].name /\ c.isText = IsText(nodes[c.id])
            /\ ~nodes[c.id].skip
            /\ proc[p].content = IF c.isText THEN nodes[c.id].content ELSE Null
        BY <1>5, <3>1 DEF WriteCandidate, FreshInvariant, Known, KnownContent
      <4>3. c.isText \in BOOLEAN /\ (v # Null => v.of = Compose(c.name, proc[p].content, c.isText))
        BY <2>1, VectorOfType DEF Writing, Candidate, Optional
      <4>4. Compose(c.name, proc[p].content, c.isText)
              = Compose(nodes[c.id].name, nodes[c.id].content, IsText(nodes[c.id]))
        <5>1. CASE c.isText
          BY <4>2, <5>1
        <5>2. CASE ~c.isText
          <6>1. proc[p].content = Null /\ c.isText = FALSE /\ IsText(nodes[c.id]) = FALSE
            BY <4>2, <4>3, <5>2
          <6> QED
            BY <4>2, <6>1, ComposeNoText
        <5> QED
          BY <5>1, <5>2
      <4>5. nodes'[c.id].vector = v /\ c.id \in NodeIds
        BY <2>2, <4>1 DEF TypeOK, Row, Candidate
      <4>6. \A n \in NodeIds \ {c.id} : nodes'[n] = nodes[n]
        BY <4>1 DEF TypeOK
      <4> HIDE DEF c, v
      <4>7. \A n \in NodeIds \ {c.id} : nodes'[n] # Null /\ nodes'[n].vector # Null =>
               /\ ~nodes'[n].skip
               /\ nodes'[n].vector.of
                     = Compose(nodes'[n].name, nodes'[n].content, IsText(nodes'[n]))
        BY <4>6 DEF FreshInvariant, FreshVectors
      <4>8. nodes'[c.id] # Null /\ nodes'[c.id].vector # Null =>
               /\ ~nodes'[c.id].skip
               /\ nodes'[c.id].vector.of
                     = Compose(nodes'[c.id].name, nodes'[c.id].content, IsText(nodes'[c.id]))
        BY <2>3, <4>2, <4>3, <4>4, <4>5 DEF IsText
      <4> QED
        BY <4>7, <4>8 DEF FreshVectors
    <3>2. CASE ~Target(c)
      BY <1>5, <3>2 DEF WriteCandidate, FreshInvariant, FreshVectors
    <3> QED
      BY <3>1, <3>2
  <2>5. \A d \in Candidate : /\ Known(d) => Known(d)'
                             /\ \A content : Known(d) /\ KnownContent(d, content)
                                                => KnownContent(d, content)'
    <3> SUFFICES ASSUME NEW d \in Candidate
                 PROVE  /\ Known(d) => Known(d)'
                        /\ \A content : Known(d) /\ KnownContent(d, content)
                                           => KnownContent(d, content)'
      OBVIOUS
    <3>1. d.id \in NodeIds /\ clock \in Stamps /\ clock <= clock
      BY DEF Candidate, TypeOK, Stamps
    <3> QED
      BY <1>2, <2>3, <3>1, KnownStays
  <2>6. \A n \in NodeIds : nodes'[n] # Null => nodes'[n].stamp <= clock'
    BY <1>2, <2>3 DEF FreshInvariant
  <2>7. \A q \in Processes :
           /\ proc[q].phase \in {"backfill", "done", "write"} => proc[q].todo \in SUBSET Candidate
           /\ proc[q].phase = "write" => proc[q].current \in Candidate
    BY Remembered
  <2>8. ASSUME NEW q \in Processes
        PROVE  /\ proc'[q].phase \in {"backfill", "done", "write"} =>
                     (\A d \in proc[q].todo : Known(d))'
               /\ proc'[q].phase = "write" =>
                     /\ Known(proc[q].current)'
                     /\ KnownContent(proc[q].current, proc[q].content)'
    <3>1. CASE q = p
      <4>1. proc[p].phase = "write"
        BY <1>5 DEF WriteCandidate
      <4> QED
        BY <2>2, <2>5, <2>7, <3>1, <4>1 DEF FreshInvariant
    <3>2. CASE q # p
      BY <1>1, <2>5, <2>7, <3>2 DEF FreshInvariant
    <3> QED
      BY <3>1, <3>2
  <2> QED
    BY <2>4, <2>6, <2>8 DEF FreshInvariant
<1>6. CASE Complete(p)
  <2>1. proc[p] \in Run /\ proc[p].todo = {}
    BY <1>6, Phases DEF Complete
  <2>2. proc'[p].phase = "done" /\ proc'[p].todo = {} /\ nodes' = nodes
    BY <1>6, <2>1 DEF Complete, TypeOK, Run, tables
  <2> QED
    BY <1>1, <1>2, <2>2 DEF FreshInvariant, FreshVectors, Known, KnownContent, Target
<1> QED
  BY <1>3, <1>4, <1>5, <1>6 DEF Backfill

\* The guard neither starts nor ends a run.
LEMMA GuardAlone ==
    ASSUME TypeOK, NEW p \in Processes, Guard(p)
    PROVE  /\ UNCHANGED <<nodes, clock>>
           /\ \A q \in Processes : \/ proc'[q] = proc[q]
                                   \/ proc'[q].phase \notin {"backfill", "write", "done"}
<1>1. proc[p] \in Task
  BY Phases DEF Guard, LoadRecorded, HasVectors, Record, LoadWinner, Starting
<1>2. Passed(p).phase \in {"up", "prepared"}
  BY <1>1 DEF Passed, Task
<1>3. UNCHANGED <<nodes, clock>> /\ \A q \in Processes : q # p => proc'[q] = proc[q]
  BY DEF Guard, LoadRecorded, HasVectors, Record, LoadWinner, tables, TypeOK
<1>4. CASE LoadRecorded(p)
  <2>1. proc'[p].phase \in {"up", "prepared", "record", "vectors", "down"}
    BY <1>1, <1>2, <1>4 DEF LoadRecorded, TypeOK, Task, Down
  <2> QED
    BY <1>3, <2>1
<1>5. CASE HasVectors(p)
  BY <1>1, <1>3, <1>5 DEF HasVectors, TypeOK, Task, Down
<1>6. CASE Record(p)
  BY <1>1, <1>2, <1>3, <1>6 DEF Record, TypeOK, Task
<1>7. CASE LoadWinner(p)
  BY <1>2, <1>3, <1>7 DEF LoadWinner, TypeOK, Down
<1> QED
  BY <1>4, <1>5, <1>6, <1>7 DEF Guard

LEMMA FreshStep == TypeOK /\ FreshInvariant /\ [Next]_vars => FreshInvariant'
<1> SUFFICES ASSUME TypeOK, FreshInvariant, [Next]_vars PROVE FreshInvariant'
  OBVIOUS
<1> DEFINE Alone == /\ UNCHANGED <<nodes, clock>>
                    /\ \A q \in Processes : \/ proc'[q] = proc[q]
                                            \/ proc'[q].phase \notin {"backfill", "done", "write"}
<1>1. Alone => FreshInvariant'
  BY DEF FreshInvariant, FreshVectors, Known, KnownContent, Target
<1>2. ASSUME NEW p \in Processes, NEW kind \in {"instance", "backfill"}, NEW model \in Models,
             Start(p, kind, model)
      PROVE  Alone
  BY <1>2 DEF Start, tables, TypeOK
<1>3. ASSUME NEW p \in Processes, Exit(p) PROVE Alone
  BY <1>3 DEF Exit, tables, TypeOK, Down
<1>4. ASSUME NEW p \in Processes, Guard(p) PROVE Alone
  BY <1>4, GuardAlone
<1>5. CASE Switch
  <2>1. CASE BeginSwitch \/ DeleteRecord \/ Abandon
    <3>1. Alone
      BY <2>1 DEF BeginSwitch, DeleteRecord, Abandon, tables
    <3> QED
      BY <1>1, <3>1
  <2>2. CASE ClearVectors
    <3>1. \A n \in NodeIds : nodes'[n] # Null =>
             /\ nodes[n] # Null /\ nodes'[n].vector = Null
             /\ nodes'[n].name = nodes[n].name
             /\ nodes'[n].content = nodes[n].content
             /\ nodes'[n].skip = nodes[n].skip
             /\ nodes'[n].stamp = nodes[n].stamp
      BY <2>2 DEF ClearVectors, TypeOK, Row
    <3>2. UNCHANGED <<clock, proc>>
      BY <2>2 DEF ClearVectors
    <3>3. clock' \in Stamps /\ clock <= clock'
      BY <3>2 DEF TypeOK, Stamps
    <3>4. FreshVectors'
      BY <3>1 DEF FreshVectors
    <3> QED
      BY <3>1, <3>2, <3>3, <3>4, FreshStays
  <2> QED
    BY <1>5, <2>1, <2>2 DEF Switch
<1>6. CASE UNCHANGED vars
  BY <1>1, <1>6 DEF vars
<1> QED
  BY <1>1, <1>2, <1>3, <1>4, <1>5, <1>6, FreshMutation, FreshBackfill DEF Next

\* A stored vector is that of the node's present name and text, however late a
\* backfill writes what it read.
THEOREM FreshVectorsAlways == Spec => []FreshVectors
<1>1. FreshInvariant => FreshVectors
  BY DEF FreshInvariant
<1> QED
  BY <1>1, TypeInit, TypeStep, FreshInit, FreshStep, PTL DEF Spec
-----------------------------------------------------------------------------
(* What a finished backfill has embedded                                   *)

Remembers(p) == proc[p].phase \in {"backfill", "write", "done"}

\* Node n is still to come: the run has it on its list, or in hand, as it is.
Listed(p, n) ==
    \/ \E c \in proc[p].todo : c.id = n /\ Target(c)
    \/ proc[p].phase = "write" /\ proc[p].current.id = n /\ Target(proc[p].current)

\* An embeddable node that nobody has changed since the run of p began.
Untouched(p, n) == Embeddable(nodes[n]) /\ nodes[n].stamp <= proc[p].began

(***************************************************************************)
(* BackfillEmbedsUntouched speaks of the end of a run.  What holds of it   *)
(* all along is that an untouched node has a vector or is still to come:   *)
(* writing what is in hand leaves a vector, because a candidate that still *)
(* is as it was read has something to embed, and nobody takes a vector     *)
(* from a row without a new stamp, except the operator's switch, which     *)
(* waits for the run to end.                                               *)
(***************************************************************************)
CoverInvariant ==
    \A p \in Processes :
        /\ Remembers(p) =>
              /\ proc[p].began <= clock
              /\ \A n \in proc[p].ids :
                    Untouched(p, n) => nodes[n].vector # Null \/ Listed(p, n)
        /\ proc[p].phase = "done" => proc[p].todo = {}

LEMMA RememberedRun ==
    ASSUME TypeOK, NEW p \in Processes, Remembers(p)
    PROVE  /\ proc[p].ids \in SUBSET NodeIds
           /\ proc[p].began \in Stamps
           /\ proc[p].todo \in SUBSET Candidate
           /\ proc[p].phase = "write" => proc[p].current \in Candidate
  BY Phases DEF Remembers, Run, Writing

\* A row that still has something to embed is given a vector when it is written.
LEMMA WrittenHasVector ==
    ASSUME TypeOK, FreshInvariant, NEW p \in Processes, proc[p].phase = "write",
           Target(proc[p].current), Embeddable(nodes[proc[p].current.id])
    PROVE  VectorOf(proc[p].model, proc[p].current.name, proc[p].content,
                    proc[p].current.isText) # Null
<1> DEFINE c == proc[p].current
           row == nodes[c.id]
<1>1. proc[p] \in Writing /\ c \in Candidate
  BY Phases DEF Writing
<1>2. row \in Row /\ IsText(row) \in BOOLEAN
  BY <1>1 DEF Target, TypeOK, Candidate, IsText
<1>3. /\ c.name = row.name /\ c.isText = IsText(row)
      /\ proc[p].content = IF c.isText THEN row.content ELSE Null
  BY DEF FreshInvariant, Known, KnownContent
<1>4. Compose(c.name, proc[p].content, c.isText) = Compose(row.name, row.content, IsText(row))
  <2>1. CASE c.isText
    BY <1>3, <2>1
  <2>2. CASE ~c.isText
    <3>1. proc[p].content = Null /\ c.isText = FALSE /\ IsText(row) = FALSE
      BY <1>2, <1>3, <2>2
    <3> QED
      BY <1>3, <3>1, ComposeNoText
  <2> QED
    BY <2>1, <2>2
<1>5. Compose(c.name, proc[p].content, c.isText) # Null
  BY <1>4 DEF Embeddable
<1>6. \A surface : [model |-> proc[p].model, of |-> surface] # Null
       \/ surface \notin Surfaces
  <2>1. proc[p].model \in Models
    BY <1>1 DEF Writing
  <2> QED
    BY <2>1, EmbeddingsAssumption DEF Vectors
<1>7. Compose(c.name, proc[p].content, c.isText) \in Optional(Surfaces)
  BY <1>1, ComposeType DEF Writing, Candidate, Optional
<1> HIDE DEF c
<1> QED
  BY <1>5, <1>6, <1>7 DEF VectorOf, Optional, c

\* A row is as it was for a backfill: changed in nothing but its vector, which
\* it does not lose, or with a stamp newer than all before.
RowKept(n) ==
    nodes'[n] # Null =>
       \/ /\ nodes[n] # Null
          /\ nodes'[n].name = nodes[n].name
          /\ nodes'[n].content = nodes[n].content
          /\ nodes'[n].skip = nodes[n].skip
          /\ nodes'[n].stamp = nodes[n].stamp
          /\ Embeddable(nodes[n]) /\ nodes[n].vector # Null => nodes'[n].vector # Null
       \/ nodes'[n].stamp = clock + 1

\* Then each run still has its untouched nodes on its list.
LEMMA CoverStays ==
    ASSUME TypeOK, CoverInvariant, clock <= clock', clock' \in Stamps,
           NEW p \in Processes, proc'[p] = proc[p], Remembers(p),
           \A n \in NodeIds : RowKept(n)
    PROVE  /\ proc'[p].began <= clock'
           /\ \A n \in proc'[p].ids :
                 Untouched(p, n)' => nodes'[n].vector # Null \/ Listed(p, n)'
<1>1. proc[p].began \in Nat /\ clock \in Nat /\ clock' \in Nat /\ proc[p].began <= clock
  BY RememberedRun DEF CoverInvariant, TypeOK, Stamps
<1>2. ASSUME NEW n \in proc[p].ids, Untouched(p, n)'
      PROVE  nodes'[n].vector # Null \/ Listed(p, n)'
  <2>1. n \in NodeIds
    BY RememberedRun
  <2>2. nodes'[n] # Null /\ nodes'[n].stamp <= proc[p].began
    BY <1>2 DEF Untouched, Embeddable
  <2>3. /\ nodes[n] # Null
        /\ nodes'[n].name = nodes[n].name
        /\ nodes'[n].content = nodes[n].content
        /\ nodes'[n].skip = nodes[n].skip
        /\ nodes'[n].stamp = nodes[n].stamp
        /\ Embeddable(nodes[n]) /\ nodes[n].vector # Null => nodes'[n].vector # Null
    <3>1. nodes'[n].stamp # clock + 1
      BY <1>1, <2>2
    <3> QED
      BY <2>1, <2>2, <3>1 DEF RowKept
  <2>4. Embeddable(nodes[n]) /\ Untouched(p, n)
    BY <1>2, <2>3 DEF Untouched, Embeddable, IsText
  <2>5. nodes[n].vector # Null \/ Listed(p, n)
    BY <2>4 DEF CoverInvariant
  <2>6. Listed(p, n) => Listed(p, n)'
    BY <2>2, <2>3 DEF Listed, Target
  <2> QED
    BY <2>3, <2>4, <2>5, <2>6
<1> QED
  BY <1>1, <1>2

\* So the invariant holds after a step that leaves the runs alone.
LEMMA CoverAlone ==
    ASSUME TypeOK, CoverInvariant, clock <= clock', clock' \in Stamps,
           \A p \in Processes : \/ proc'[p] = proc[p]
                                \/ proc'[p].phase \notin {"backfill", "write", "done"},
           \A n \in NodeIds : RowKept(n)
    PROVE  CoverInvariant'
<1>1. ASSUME NEW p \in Processes
      PROVE  /\ Remembers(p)' =>
                   /\ proc'[p].began <= clock'
                   /\ \A n \in proc'[p].ids :
                         Untouched(p, n)' => nodes'[n].vector # Null \/ Listed(p, n)'
             /\ proc'[p].phase = "done" => proc'[p].todo = {}
  <2>1. CASE Remembers(p)'
    <3>1. proc'[p] = proc[p] /\ Remembers(p)
      BY <2>1 DEF Remembers
    <3>2. /\ proc'[p].began <= clock'
          /\ \A n \in proc'[p].ids :
                Untouched(p, n)' => nodes'[n].vector # Null \/ Listed(p, n)'
      BY <3>1, CoverStays
    <3> QED
      BY <3>1, <3>2 DEF CoverInvariant
  <2>2. CASE ~Remembers(p)'
    BY <2>2 DEF Remembers
  <2> QED
    BY <2>1, <2>2
<1> QED
  BY <1>1 DEF CoverInvariant

LEMMA CoverInit == Init => CoverInvariant
<1> SUFFICES ASSUME Init PROVE CoverInvariant
  OBVIOUS
<1>1. \A p \in Processes : proc[p].phase = "down"
  BY DEF Init, Down
<1> QED
  BY <1>1 DEF CoverInvariant, Remembers

LEMMA CoverMutation ==
    ASSUME TypeOK, CoverInvariant, NEW p \in Processes, Mutation(p)
    PROVE  CoverInvariant'
<1>1. UNCHANGED proc /\ clock' \in Stamps /\ clock <= clock'
  BY MutationStep
<1>2. PICK n \in NodeIds : Mutated(p, n) /\ \A m \in NodeIds \ {n} : nodes'[m] = nodes[m]
  BY MutationStep
<1>3. \A m \in NodeIds : RowKept(m)
  BY <1>2 DEF Mutated, RowKept
<1> QED
  BY <1>1, <1>3, CoverAlone

\* The step of the one run that writes keeps every row for every run.
LEMMA WriteKeepsRows ==
    ASSUME TypeOK, FreshInvariant, NEW p \in Processes, WriteCandidate(p)
    PROVE  \A n \in NodeIds :
              /\ RowKept(n)
              /\ nodes'[n] # Null => nodes[n] # Null /\ nodes'[n].stamp = nodes[n].stamp
              /\ Target(proc[p].current) /\ proc[p].current.id = n /\ Embeddable(nodes[n])
                    => nodes'[n].vector # Null
<1> DEFINE c == proc[p].current
           v == VectorOf(proc[p].model, c.name, proc[p].content, c.isText)
<1>1. proc[p] \in Writing /\ c \in Candidate
  BY Phases DEF WriteCandidate, Writing
<1>2. CASE Target(c)
  <2>1. nodes' = [nodes EXCEPT ![c.id].vector = v] /\ nodes[c.id] \in Row /\ nodes[c.id] # Null
    BY <1>1, <1>2 DEF WriteCandidate, Target, TypeOK, Candidate
  <2>2. /\ nodes'[c.id].name = nodes[c.id].name
        /\ nodes'[c.id].content = nodes[c.id].content
        /\ nodes'[c.id].skip = nodes[c.id].skip
        /\ nodes'[c.id].stamp = nodes[c.id].stamp
        /\ nodes'[c.id].vector = v
    BY <1>1, <2>1 DEF TypeOK, Row, Candidate
  <2>3. Embeddable(nodes[c.id]) => v # Null
    BY <1>2, WrittenHasVector DEF WriteCandidate
  <2>4. \A n \in NodeIds \ {c.id} : nodes'[n] = nodes[n]
    BY <2>1 DEF TypeOK
  <2> HIDE DEF c, v
  <2>5. \A n \in NodeIds : RowKept(n)
    BY <2>1, <2>2, <2>3, <2>4 DEF RowKept
  <2>6. \A n \in NodeIds : /\ nodes'[n] # Null => nodes[n] # Null /\ nodes'[n].stamp = nodes[n].stamp
                           /\ c.id = n /\ Embeddable(nodes[n]) => nodes'[n].vector # Null
    BY <2>1, <2>2, <2>3, <2>4
  <2> QED
    BY <2>5, <2>6 DEF c
<1>3. CASE ~Target(c)
  <2>1. nodes' = nodes
    BY <1>3 DEF WriteCandidate
  <2> QED
    BY <1>3, <2>1 DEF RowKept
<1> QED
  BY <1>2, <1>3

LEMMA CoverBackfill ==
    ASSUME TypeOK, FreshInvariant, CoverInvariant, NEW p \in Processes, Backfill(p)
    PROVE  CoverInvariant'
<1> DEFINE Covered(q) ==
              /\ Remembers(q)' =>
                    /\ proc'[q].began <= clock'
                    /\ \A n \in proc'[q].ids :
                          Untouched(q, n)' => nodes'[n].vector # Null \/ Listed(q, n)'
              /\ proc'[q].phase = "done" => proc'[q].todo = {}
<1>1. \A o \in Processes : o # p => proc'[o] = proc[o]
  BY DEF Backfill, LoadCandidates, LoadContent, WriteCandidate, Complete, TypeOK
<1>2. clock' = clock /\ clock' \in Stamps /\ clock <= clock'
  BY DEF Backfill, LoadCandidates, LoadContent, WriteCandidate, Complete, tables, TypeOK, Stamps
<1>3. \A n \in NodeIds : RowKept(n)
  <2>1. CASE WriteCandidate(p)
    BY <2>1, WriteKeepsRows
  <2>2. CASE nodes' = nodes
    BY <2>2 DEF RowKept
  <2> QED
    BY <2>1, <2>2 DEF Backfill, LoadCandidates, LoadContent, Complete, tables
<1>4. ASSUME NEW q \in Processes, q # p PROVE Covered(q)
  <2>1. proc'[q] = proc[q]
    BY <1>1, <1>4
  <2>2. CASE Remembers(q)
    <3>1. /\ proc'[q].began <= clock'
          /\ \A n \in proc'[q].ids :
                Untouched(q, n)' => nodes'[n].vector # Null \/ Listed(q, n)'
      BY <1>2, <1>3, <2>1, <2>2, CoverStays
    <3> QED
      BY <2>1, <3>1 DEF CoverInvariant
  <2>3. CASE ~Remembers(q)
    BY <2>1, <2>3 DEF Remembers
  <2> QED
    BY <2>2, <2>3
<1>5. ASSUME NEW ids \in SUBSET NodeIds, LoadCandidates(p, ids) PROVE Covered(p)
  <2>1. /\ nodes' = nodes
        /\ proc'[p] = [phase |-> "backfill", kind |-> proc[p].kind, model |-> proc[p].model,
                       ids |-> ids, began |-> clock, todo |-> Candidates(ids)]
    BY <1>5 DEF LoadCandidates, tables, TypeOK
  <2>2. ASSUME NEW n \in ids, Embeddable(nodes[n]) PROVE Listed(p, n)'
    <3>1. nodes[n] # Null /\ ~nodes[n].skip /\ (IsText(nodes[n]) \/ nodes[n].name # Null)
      BY <2>2 DEF Embeddable, Compose
    <3>2. PICK c \in Candidates(ids) : c.id = n /\ c.stamp = nodes[n].stamp
      <4> DEFINE read == [id |-> n, name |-> nodes[n].name, isText |-> IsText(nodes[n]),
                          stamp |-> nodes[n].stamp]
      <4>1. read \in Candidates(ids)
        BY <3>1 DEF Candidates
      <4>2. read.id = n /\ read.stamp = nodes[n].stamp
        OBVIOUS
      <4> HIDE DEF read
      <4> QED
        BY <4>1, <4>2
    <3>3. Target(c)'
      BY <2>1, <3>1, <3>2 DEF Target
    <3>4. proc'[p].todo = Candidates(ids)
      BY <2>1
    <3> QED
      BY <3>2, <3>3, <3>4 DEF Listed
  <2>3. proc'[p].began = clock /\ proc'[p].ids = ids /\ proc'[p].phase = "backfill"
    BY <2>1
  <2> QED
    BY <1>2, <2>1, <2>2, <2>3 DEF Untouched
<1>6. ASSUME NEW c \in proc[p].todo, LoadContent(p, c) PROVE Covered(p)
  <2>1. /\ nodes' = nodes /\ proc[p].phase = "backfill"
        /\ proc'[p].phase = "write" /\ proc'[p].ids = proc[p].ids
        /\ proc'[p].began = proc[p].began
        /\ proc'[p].todo = proc[p].todo \ {c} /\ proc'[p].current = c
    BY <1>6 DEF LoadContent, tables, TypeOK
  <2>2. ASSUME NEW n, Listed(p, n) PROVE Listed(p, n)'
    BY <2>1, <2>2 DEF Listed, Target
  <2> QED
    BY <1>2, <2>1, <2>2 DEF CoverInvariant, Remembers, Untouched
<1>7. ASSUME WriteCandidate(p) PROVE Covered(p)
  <2>1. /\ proc[p].phase = "write"
        /\ proc'[p].phase = "backfill" /\ proc'[p].ids = proc[p].ids
        /\ proc'[p].began = proc[p].began /\ proc'[p].todo = proc[p].todo
    BY <1>7 DEF WriteCandidate, TypeOK
  <2>2. Remembers(p) /\ proc[p].ids \in SUBSET NodeIds /\ proc[p].began \in Nat /\ clock \in Nat
        /\ proc[p].began <= clock
    BY <2>1, RememberedRun DEF Remembers, CoverInvariant, TypeOK, Stamps
  <2>3. ASSUME NEW n \in proc[p].ids, Untouched(p, n)'
        PROVE  nodes'[n].vector # Null \/ Listed(p, n)'
    <3>1. n \in NodeIds /\ nodes'[n] # Null
      BY <2>2, <2>3 DEF Untouched, Embeddable
    <3>2. nodes[n] # Null /\ nodes'[n].stamp = nodes[n].stamp
      BY <1>7, <3>1, WriteKeepsRows
    <3>3. /\ nodes'[n].name = nodes[n].name
          /\ nodes'[n].content = nodes[n].content
          /\ nodes'[n].skip = nodes[n].skip
          /\ Embeddable(nodes[n]) /\ nodes[n].vector # Null => nodes'[n].vector # Null
      <4>1. nodes'[n].stamp # clock + 1
        BY <2>1, <2>2, <2>3 DEF Untouched
      <4> QED
        BY <1>3, <3>1, <4>1 DEF RowKept
    <3>4. Embeddable(nodes[n]) /\ Untouched(p, n)
      BY <2>1, <2>3, <3>2, <3>3 DEF Untouched, Embeddable, IsText
    <3>5. nodes[n].vector # Null \/ Listed(p, n)
      BY <2>2, <3>4 DEF CoverInvariant
    <3>6. CASE \E c \in proc[p].todo : c.id = n /\ Target(c)
      BY <2>1, <3>1, <3>2, <3>6 DEF Listed, Target
    <3>7. CASE proc[p].current.id = n /\ Target(proc[p].current)
      BY <1>7, <3>1, <3>4, <3>7, WriteKeepsRows
    <3> QED
      BY <3>3, <3>4, <3>5, <3>6, <3>7 DEF Listed
  <2> QED
    BY <1>2, <2>1, <2>2, <2>3
<1>8. ASSUME Complete(p) PROVE Covered(p)
  <2>1. proc[p] \in Run /\ proc[p].phase = "backfill" /\ proc[p].todo = {} /\ nodes' = nodes
    BY <1>8, Phases DEF Complete, tables
  <2>2. /\ proc'[p].phase = "done" /\ proc'[p].ids = proc[p].ids
        /\ proc'[p].began = proc[p].began /\ proc'[p].todo = {}
    BY <1>8, <2>1 DEF Complete, TypeOK, Run
  <2>3. \A n : ~Listed(p, n)
    BY <2>1 DEF Listed
  <2> QED
    BY <1>2, <2>1, <2>2, <2>3 DEF CoverInvariant, Remembers, Untouched
<1>9. Covered(p)
  BY <1>5, <1>6, <1>7, <1>8 DEF Backfill
<1> QED
  BY <1>4, <1>9 DEF CoverInvariant

LEMMA CoverStep ==
    TypeOK /\ ModelInvariant /\ FreshInvariant /\ CoverInvariant /\ [Next]_vars => CoverInvariant'
<1> SUFFICES ASSUME TypeOK, ModelInvariant, FreshInvariant, CoverInvariant, [Next]_vars
             PROVE  CoverInvariant'
  OBVIOUS
<1> DEFINE Alone == /\ UNCHANGED <<nodes, clock>>
                    /\ \A q \in Processes : \/ proc'[q] = proc[q]
                                            \/ proc'[q].phase \notin {"backfill", "write", "done"}
<1>1. Alone => CoverInvariant'
  <2> SUFFICES ASSUME Alone PROVE CoverInvariant'
    OBVIOUS
  <2>1. clock' \in Stamps /\ clock <= clock' /\ \A n \in NodeIds : RowKept(n)
    BY DEF TypeOK, Stamps, RowKept
  <2> QED
    BY <2>1, CoverAlone
<1>2. ASSUME NEW p \in Processes, NEW kind \in {"instance", "backfill"}, NEW model \in Models,
             Start(p, kind, model)
      PROVE  Alone
  BY <1>2 DEF Start, tables, TypeOK
<1>3. ASSUME NEW p \in Processes, Exit(p) PROVE Alone
  BY <1>3 DEF Exit, tables, TypeOK, Down
<1>4. ASSUME NEW p \in Processes, Guard(p) PROVE Alone
  BY <1>4, GuardAlone
<1>5. CASE Switch
  <2>1. CASE BeginSwitch \/ DeleteRecord \/ Abandon
    BY <1>1, <2>1 DEF BeginSwitch, DeleteRecord, Abandon, tables
  <2>2. CASE ClearVectors
    <3>1. \A p \in Processes : proc'[p] = Down
      BY <2>2 DEF ClearVectors, ModelInvariant
    <3> QED
      BY <3>1 DEF CoverInvariant, Remembers, Down
  <2> QED
    BY <1>5, <2>1, <2>2 DEF Switch
<1>6. CASE UNCHANGED vars
  BY <1>1, <1>6 DEF vars
<1> HIDE DEF Alone
<1> QED
  BY <1>1, <1>2, <1>3, <1>4, <1>5, <1>6, CoverMutation, CoverBackfill DEF Next

\* When a backfill of all nodes has finished, each embeddable node that nobody
\* changed since it began has a vector, whatever instances, other backfills and
\* the operator did in the meantime.
THEOREM BackfillEmbedsUntouchedAlways == Spec => []BackfillEmbedsUntouched
<1>1. TypeOK /\ CoverInvariant => BackfillEmbedsUntouched
  <2> SUFFICES ASSUME TypeOK, CoverInvariant, NEW p \in Processes, NEW n \in NodeIds,
                      Finished(p), Embeddable(nodes[n]), nodes[n].stamp <= proc[p].began
               PROVE  nodes[n].vector # Null
    BY DEF BackfillEmbedsUntouched
  <2>1. /\ proc[p].phase = "done" /\ n \in proc[p].ids
        /\ Remembers(p) /\ Untouched(p, n) /\ proc[p].todo = {}
    BY DEF Finished, Remembers, Untouched, CoverInvariant
  <2>2. ~Listed(p, n)
    BY <2>1 DEF Listed
  <2> QED
    BY <2>1, <2>2 DEF CoverInvariant
<1> QED
  BY <1>1, TypeInit, TypeStep, ModelInit, ModelStep, FreshInit, FreshStep, CoverInit, CoverStep,
     PTL DEF Spec

================================================================================
