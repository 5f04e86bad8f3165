------------------------------ MODULE Embeddings ------------------------------
(***************************************************************************)
(* Which vector a node carries, and of which embedding model.              *)
(*                                                                         *)
(* Backend instances embed a node inside the transaction that changes it;  *)
(* runs of the backfill-embeddings command embed what they read earlier;   *)
(* each of them first passes the model guard, which records the model of   *)
(* the database.  An operator switches the database to another model by    *)
(* the procedure of the project's README.  The mutations are atomic, see   *)
(* NodeTransactions; the guard and the backfill run statement by statement *)
(* and no statement of theirs shares a transaction with another.           *)
(***************************************************************************)
EXTENDS Naturals

CONSTANTS
    Processes,      \* instances and backfill runs
    Models,         \* embedding models a process may be configured with
    Legacy,         \* the model of vectors in a database without a record
    Names,          \* node names
    Texts,          \* bodies of a textual content type
    Blobs,          \* bodies of any other
    Empty,          \* a body of a textual content type without a byte in it
    Null,           \* no row, name, body, vector or record
    MaxNode,        \* bound on node ids
    MaxStamp        \* bound on the clock

NodeIds == 1..MaxNode
Stamps == 0..MaxStamp

\* What a vector is computed from: a name, a body or both.
Surfaces == ((Names \cup {Null}) \X (Texts \cup Blobs \cup {Null})) \ {<<Null, Null>>}

Vectors == [model : Models, of : Surfaces]

Bodies == Texts \cup Blobs \cup {Empty}

Row == [name    : Names \cup {Null},
        content : Bodies \cup {Null},
        skip    : BOOLEAN,
        stamp   : Stamps,
        vector  : Vectors \cup {Null}]

ASSUME EmbeddingsAssumption ==
    /\ MaxNode \in Nat
    /\ MaxStamp \in Nat
    /\ Legacy \in Models
    /\ Empty \notin Texts
    /\ Blobs \cap (Texts \cup {Empty}) = {}
    /\ Null \notin Models \cup Names \cup Texts \cup Blobs \cup {Empty}
    /\ Null \notin Row \cup Vectors

VARIABLES
    nodes,      \* NodeIds -> row, Null where there is none
    issued,     \* highest id handed out
    recorded,   \* the metadata row embedding.model, Null when there is none
    clock,      \* the latest LastUpdate
    proc,       \* Processes -> what the process is doing
    switch      \* how far the operator is with the switch to another model

vars == <<nodes, issued, recorded, clock, proc, switch>>
tables == <<nodes, issued, recorded, clock>>

-----------------------------------------------------------------------------
(* Composition                                                             *)

\* The content type of the node's body is a textual one.
IsText(row) == row.content \in Texts \cup {Empty}

\* Mutant: embeds the empty string.
ComposeAlways(name, content, isText) ==
    <<name, IF isText /\ content # Empty THEN content ELSE Null>>

\* ComposeWindows: what there is to embed of a name and a body.
Compose(name, content, isText) ==
    LET hasText == isText /\ content \notin {Null, Empty}
    IN  IF name = Null /\ ~hasText THEN Null
        ELSE <<name, IF hasText THEN content ELSE Null>>

\* EmbeddingWrite: the vector to store, NULL when there is nothing to embed.
VectorOf(model, name, content, isText) ==
    LET surface == Compose(name, content, isText)
    IN  IF surface = Null THEN Null ELSE [model |-> model, of |-> surface]

Embedded(row, model) ==
    [row EXCEPT !.vector = VectorOf(model, row.name, row.content, IsText(row))]

\* RegenerateEmbedding: after a patch of the name or of skipEmbedding.
RegenerateEmbedding(row, model) ==
    IF row.skip THEN [row EXCEPT !.vector = Null] ELSE Embedded(row, model)

\* RegenerateContentEmbedding: after the body was written.
RegenerateContentEmbedding(row, model) == IF row.skip THEN row ELSE Embedded(row, model)

-----------------------------------------------------------------------------
(* Processes and the guard                                                 *)

Down == [phase |-> "down"]

Starting == {"start", "vectors", "record", "conflict"}
Embedding == {"up", "prepared", "backfill", "write", "done"}

\* A database as an older release may leave it: no record, and each vector of
\* the only model there was.
Init ==
    /\ recorded = Null
    /\ clock = 0
    /\ issued \in 0..MaxNode
    /\ nodes \in [NodeIds -> Row \cup {Null}]
    /\ \A n \in NodeIds :
         /\ nodes[n] # Null => n <= issued
         /\ nodes[n] # Null => /\ nodes[n].stamp = 0
                               /\ ~nodes[n].skip
                               /\ nodes[n].vector \in {Null, Embedded(nodes[n], Legacy).vector}
    /\ proc = [p \in Processes |-> Down]
    /\ switch = "no"

\* An instance or a backfill run starts; README: not during a switch.
Start(p, kind, model) ==
    /\ proc[p] = Down
    /\ switch = "no"
    /\ proc' = [proc EXCEPT ![p] = [phase |-> "start", kind |-> kind, model |-> model]]
    /\ UNCHANGED <<tables, switch>>

\* The guard has passed: an instance serves, a backfill run goes on.
Passed(p) == [proc[p] EXCEPT !.phase = IF proc[p].kind = "instance" THEN "up" ELSE "prepared"]

\* EnsureAsync, its first statement.
LoadRecorded(p) ==
    LET t == proc[p]
    IN  /\ t.phase = "start"
        /\ proc' = [proc EXCEPT ![p] =
                      CASE recorded = t.model -> Passed(p)
                        [] recorded = Null    ->
                             [t EXCEPT !.phase = IF t.model = Legacy THEN "record" ELSE "vectors"]
                        [] OTHER -> Down]
        /\ UNCHANGED <<tables, switch>>

\* Vectors without a record are Legacy's: only Legacy may go on.
HasVectors(p) ==
    /\ proc[p].phase = "vectors"
    /\ proc' = [proc EXCEPT ![p] =
                  IF \E n \in NodeIds : nodes[n] # Null /\ nodes[n].vector # Null
                  THEN Down ELSE [@ EXCEPT !.phase = "record"]]
    /\ UNCHANGED <<tables, switch>>

\* Mutant: the table has no key and the later insert is the one found.
RecordOver(p) ==
    /\ proc[p].phase = "record"
    /\ recorded' = proc[p].model
    /\ proc' = [proc EXCEPT ![p] = Passed(p)]
    /\ UNCHANGED <<nodes, issued, clock, switch>>

\* The insert fails when another process recorded a model in the meantime.
Record(p) ==
    /\ proc[p].phase = "record"
    /\ IF recorded = Null
       THEN /\ recorded' = proc[p].model
            /\ proc' = [proc EXCEPT ![p] = Passed(p)]
       ELSE /\ proc' = [proc EXCEPT ![p].phase = "conflict"]
            /\ UNCHANGED recorded
    /\ UNCHANGED <<nodes, issued, clock, switch>>

\* After the failed insert: was the winner's model the same?
LoadWinner(p) ==
    /\ proc[p].phase = "conflict"
    /\ proc' = [proc EXCEPT ![p] = IF recorded = proc[p].model THEN Passed(p) ELSE Down]
    /\ UNCHANGED <<tables, switch>>

\* A crash, a shutdown, a preparation of the model that fails, a cancellation,
\* or the end of a backfill run.
Exit(p) ==
    /\ proc[p] # Down
    /\ proc' = [proc EXCEPT ![p] = Down]
    /\ UNCHANGED <<tables, switch>>

-----------------------------------------------------------------------------
(* Mutations of an instance, as far as vectors are concerned               *)

Serves(p) == proc[p].phase = "up"

Tick == clock < MaxStamp /\ clock' = clock + 1

Store(n, row) == nodes' = [nodes EXCEPT ![n] = row]

CreateNode(p, name, skip) ==
    LET row == [name |-> name, content |-> Null, skip |-> skip, stamp |-> clock', vector |-> Null]
    IN  /\ Serves(p) /\ issued < MaxNode /\ Tick
        /\ issued' = issued + 1
        /\ Store(issued', RegenerateEmbedding(row, proc[p].model))
        /\ UNCHANGED <<recorded, proc, switch>>

\* A patch embeds only if it touches the name or the opt-out; it always gives
\* the row a new LastUpdate.
Patch(p, n, touched, name, skip) ==
    LET row == [nodes[n] EXCEPT !.name = name, !.skip = skip, !.stamp = clock']
    IN  /\ Serves(p) /\ nodes[n] # Null /\ Tick
        /\ touched \/ (name = nodes[n].name /\ skip = nodes[n].skip)
        /\ Store(n, IF touched THEN RegenerateEmbedding(row, proc[p].model) ELSE row)
        /\ UNCHANGED <<issued, recorded, proc, switch>>

UploadContent(p, n, content) ==
    LET row == [nodes[n] EXCEPT !.content = content, !.stamp = clock']
    IN  /\ Serves(p) /\ nodes[n] # Null /\ Tick
        /\ Store(n, RegenerateContentEmbedding(row, proc[p].model))
        /\ UNCHANGED <<issued, recorded, proc, switch>>

\* Edits keep the content type, and only text can be edited.
PatchContent(p, n, content) ==
    LET row == [nodes[n] EXCEPT !.content = content, !.stamp = clock']
    IN  /\ Serves(p) /\ nodes[n] # Null /\ Tick
        /\ IsText(nodes[n])
        /\ Store(n, RegenerateContentEmbedding(row, proc[p].model))
        /\ UNCHANGED <<issued, recorded, proc, switch>>

Delete(p, n) ==
    /\ Serves(p) /\ nodes[n] # Null
    /\ Store(n, Null)
    /\ UNCHANGED <<issued, recorded, clock, proc, switch>>

-----------------------------------------------------------------------------
(* The backfill                                                            *)

\* Mutant: asks for a name, as when only names were embedded.
CandidatesNamed(ids) ==
    {[id |-> n, name |-> nodes[n].name, isText |-> IsText(nodes[n]), stamp |-> nodes[n].stamp] :
        n \in {m \in ids : /\ nodes[m] # Null
                           /\ ~nodes[m].skip
                           /\ nodes[m].name # Null}}

\* CandidatePredicate and the filter behind it, for the ids asked for.  What
\* --long-only leaves of them is some smaller set of ids.
Candidates(ids) ==
    {[id |-> n, name |-> nodes[n].name, isText |-> IsText(nodes[n]), stamp |-> nodes[n].stamp] :
        n \in {m \in ids : /\ nodes[m] # Null
                           /\ ~nodes[m].skip
                           /\ IsText(nodes[m]) \/ nodes[m].name # Null}}

LoadCandidates(p, ids) ==
    /\ proc[p].phase = "prepared"
    /\ proc' = [proc EXCEPT ![p] =
                  [phase |-> "backfill", kind |-> @.kind, model |-> @.model,
                   ids |-> ids, began |-> clock, todo |-> Candidates(ids)]]
    /\ UNCHANGED <<tables, switch>>

\* LoadContent, a statement of its own: of the row as it is by now.  Candidates
\* are taken in the order of their ids.
LoadContent(p, c) ==
    LET row == nodes[c.id]
    IN  /\ proc[p].phase = "backfill"
        /\ c \in proc[p].todo
        /\ \A d \in proc[p].todo : c.id <= d.id
        /\ proc' = [proc EXCEPT ![p] =
                      [phase |-> "write", kind |-> @.kind, model |-> @.model,
                       ids |-> @.ids, began |-> @.began, todo |-> @.todo \ {c}, current |-> c,
                       content |-> IF row = Null \/ ~c.isText THEN Null ELSE row.content]]
        /\ UNCHANGED <<tables, switch>>

\* Mutant: writes whatever happened since the candidate was read.
TargetAny(c) == nodes[c.id] # Null

\* Target: the row while it still has the LastUpdate of the candidate.
Target(c) == nodes[c.id] # Null /\ nodes[c.id].stamp = c.stamp

\* The vector of the name read first and the body read second; a row that
\* changed since is left alone and counted as skipped.
WriteCandidate(p) ==
    LET c == proc[p].current
        v == VectorOf(proc[p].model, c.name, proc[p].content, c.isText)
    IN  /\ proc[p].phase = "write"
        /\ nodes' = IF Target(c) THEN [nodes EXCEPT ![c.id].vector = v] ELSE nodes
        /\ proc' = [proc EXCEPT ![p] =
                      [phase |-> "backfill", kind |-> @.kind, model |-> @.model,
                       ids |-> @.ids, began |-> @.began, todo |-> @.todo]]
        /\ UNCHANGED <<issued, recorded, clock, switch>>

\* event=backfill.complete
Complete(p) ==
    /\ proc[p].phase = "backfill" /\ proc[p].todo = {}
    /\ proc' = [proc EXCEPT ![p].phase = "done"]
    /\ UNCHANGED <<tables, switch>>

-----------------------------------------------------------------------------
(* The operator's switch to another model, in the order of the README      *)

BeginSwitch ==
    /\ switch = "no"
    /\ \A p \in Processes : proc[p] = Down
    /\ switch' = "stopped"
    /\ UNCHANGED <<tables, proc>>

ClearVectors ==
    /\ switch = "stopped"
    /\ nodes' = [n \in NodeIds |-> IF nodes[n] = Null THEN Null
                                   ELSE [nodes[n] EXCEPT !.vector = Null]]
    /\ switch' = "cleared"
    /\ UNCHANGED <<issued, recorded, clock, proc>>

DeleteRecord ==
    /\ switch = "cleared"
    /\ recorded' = Null
    /\ switch' = "no"
    /\ UNCHANGED <<nodes, issued, clock, proc>>

\* The operator gives up, wherever in the procedure.
Abandon ==
    /\ switch # "no"
    /\ switch' = "no"
    /\ UNCHANGED <<tables, proc>>

-----------------------------------------------------------------------------

Mutation(p) ==
    \/ \E name \in Names \cup {Null}, skip \in BOOLEAN :
          \/ CreateNode(p, name, skip)
          \/ \E n \in NodeIds, touched \in BOOLEAN : Patch(p, n, touched, name, skip)
    \/ \E n \in NodeIds :
          \/ \E content \in Bodies : UploadContent(p, n, content)
          \/ \E content \in Texts \cup {Empty} : PatchContent(p, n, content)
          \/ Delete(p, n)

Guard(p) == LoadRecorded(p) \/ HasVectors(p) \/ Record(p) \/ LoadWinner(p)

Backfill(p) ==
    \/ \E ids \in SUBSET NodeIds : LoadCandidates(p, ids)
    \/ proc[p].phase = "backfill" /\ \E c \in proc[p].todo : LoadContent(p, c)
    \/ WriteCandidate(p)
    \/ Complete(p)

Switch == BeginSwitch \/ ClearVectors \/ DeleteRecord \/ Abandon

Next ==
    \/ \E p \in Processes :
          \/ \E kind \in {"instance", "backfill"}, model \in Models : Start(p, kind, model)
          \/ Guard(p)
          \/ Mutation(p)
          \/ Backfill(p)
          \/ Exit(p)
    \/ Switch

Spec == Init /\ [][Next]_vars

-----------------------------------------------------------------------------
(* Properties                                                              *)

Candidate == [id : NodeIds, name : Names \cup {Null}, isText : BOOLEAN, stamp : Stamps]

Task == [phase : Starting \cup {"up", "prepared"},
         kind : {"instance", "backfill"}, model : Models]

Run == [phase : {"backfill", "done"}, kind : {"instance", "backfill"}, model : Models,
        ids : SUBSET NodeIds, began : Stamps, todo : SUBSET Candidate]

Writing == [phase : {"write"}, kind : {"instance", "backfill"}, model : Models,
            ids : SUBSET NodeIds, began : Stamps, todo : SUBSET Candidate,
            current : Candidate, content : Bodies \cup {Null}]

TypeOK ==
    /\ nodes \in [NodeIds -> Row \cup {Null}]
    /\ issued \in 0..MaxNode
    /\ recorded \in Models \cup {Null}
    /\ clock \in Stamps
    /\ proc \in [Processes -> {Down} \cup Task \cup Run \cup Writing]
    /\ switch \in {"no", "stopped", "cleared"}

\* A database holds the vectors of one model, the recorded one or Legacy when
\* none is recorded, and whatever process is past its guard works with that
\* model, however starts, crashes and switches interleave.
OneModelPerDatabase ==
    /\ \A n \in NodeIds : nodes[n] # Null /\ nodes[n].vector # Null =>
            nodes[n].vector.model = IF recorded = Null THEN Legacy ELSE recorded
    /\ \A p \in Processes : proc[p].phase \in Embedding => proc[p].model = recorded

\* A vector is always that of the node's present name and text, and a node
\* that opted out has none, whatever the backfill had read when it wrote it.
FreshVectors ==
    \A n \in NodeIds : nodes[n] # Null /\ nodes[n].vector # Null =>
        /\ ~nodes[n].skip
        /\ nodes[n].vector.of = Compose(nodes[n].name, nodes[n].content, IsText(nodes[n]))

Embeddable(row) ==
    row # Null /\ ~row.skip /\ Compose(row.name, row.content, IsText(row)) # Null

Finished(p) == proc[p].phase = "done" /\ proc[p].ids = NodeIds

\* When a backfill of all nodes has finished, each embeddable node that was not
\* patched since it began has a vector.
BackfillEmbedsUntouched ==
    \A p \in Processes, n \in NodeIds :
        Finished(p) /\ Embeddable(nodes[n]) /\ nodes[n].stamp <= proc[p].began =>
            nodes[n].vector # Null

\* What the README promises of the command, "to embed every node again".
BackfillEmbedsEveryNode ==
    \A p \in Processes, n \in NodeIds :
        Finished(p) /\ Embeddable(nodes[n]) => nodes[n].vector # Null

=============================================================================
