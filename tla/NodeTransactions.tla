--------------------------- MODULE NodeTransactions ---------------------------
(***************************************************************************)
(* The mutations of NodeService as the transactions they are, interleaved  *)
(* statement by statement.                                                 *)
(*                                                                         *)
(* MutationTransaction() opens a SERIALIZABLE transaction, LockNodes()     *)
(* updates the rows of the nodes the mutation names, and everything else   *)
(* works on the snapshot the first statement took.  The database is        *)
(* PostgreSQL: a row lock is held to the end of the transaction, updating  *)
(* a row that was updated since the snapshot fails, a cycle of waiters     *)
(* loses one of them, and a transaction whose reads and writes fit no      *)
(* serial order fails when it commits.  No failure is retried: the request *)
(* ends and the client is told.                                            *)
(*                                                                         *)
(* Module NodeGraph describes the same mutations as single steps.  That    *)
(* they may be read so, each at the moment it commits, is AtomicGraph.     *)
(* A row is here its status and type; every node is public and placed, and *)
(* one user holds all the hooks.                                           *)
(***************************************************************************)
EXTENDS Naturals, Sequences

CONSTANTS
    Requests,       \* requests being served at the same time
    Handlers,       \* those of the handlers below that are called
    Statuses,       \* values of Node.Status
    NoStatus,       \* the status of a new node
    Types,          \* names of node types
    Null,           \* no such row
    MaxNode         \* bound on the ids the node table hands out

NodeIds == 1..MaxNode

Row == [status : Statuses, type : Types]

ASSUME TransactionsAssumption ==
    /\ MaxNode \in Nat
    /\ NoStatus \in Statuses
    /\ Null \notin Row
    /\ Handlers \subseteq {"Create", "Delete", "Link", "Unlink", "Patch", "Retype",
                           "Register", "Unregister"}

VARIABLES
    nodes,      \* committed rows: NodeIds -> Row, Null where there is none
    links,      \* committed links
    hooks,      \* nodes with a committed hook
    types,      \* type name -> number of committed rows of that name
    lastId,     \* highest id taken from the sequence of the node table
    born,       \* ids of the nodes that were ever committed
    notices,    \* messages inserted by the latest commit that changed anything
    missed,     \* history: those it would have inserted, had it seen the nodes
                \* created since its snapshot
    txn         \* request -> its transaction

tables == [nodes |-> nodes, links |-> links, hooks |-> hooks, types |-> types]
data == <<nodes, links, hooks, types, born, notices, missed>>
vars == <<nodes, links, hooks, types, lastId, born, notices, missed, txn>>

-----------------------------------------------------------------------------
(* Requests                                                                *)

Elements(seq) == {seq[i] : i \in DOMAIN seq}

Single == {<<n>> : n \in NodeIds}

Pairs == NodeIds \X NodeIds

Couples == {p \in Pairs : p[1] # p[2]}

\* What clients may ask: the handler, the nodes it names, the value it sets.  Any
\* id may be named, handed out already or not; only Link and the list of Create
\* are sure to name no node twice.
Requestable ==
    {q \in
       [do : {"Create"}, on : {<<>>} \cup Single \cup Couples, value : Types] \cup
       [do : {"Retype"}, on : Single, value : Types] \cup
       [do : {"Patch"}, on : Single, value : Statuses] \cup
       [do : {"Delete", "Register", "Unregister"}, on : Single, value : {Null}] \cup
       [do : {"Link"}, on : Couples, value : {Null}] \cup
       [do : {"Unlink"}, on : Pairs, value : {Null}] :
     q.do \in Handlers}

-----------------------------------------------------------------------------
(* What a handler computes from its snapshot s                             *)

Between(s, m, n) == {l \in s.links : {l.source, l.target} = {m, n}}

Incident(s, n) == {l \in s.links : n \in {l.source, l.target}}

Neighbors(s, n) == (UNION {{l.source, l.target} : l \in Incident(s, n)}) \ {n}

\* Does the handler reach Commit()?  Otherwise it throws or returns.
Applies(q, s) ==
    CASE q.do = "Link" ->
             /\ \A i \in {1, 2} : s.nodes[q.on[i]] # Null
             /\ Between(s, q.on[1], q.on[2]) = {}
      [] q.do = "Unregister" -> TRUE
      [] q.do = "Create" -> lastId < MaxNode    \* the bound on ids
      [] OTHER -> s.nodes[q.on[1]] # Null

\* ResolveOrCreateTypeId inserts the type when the snapshot does not show it.
InsertsType(q, s) == q.do \in {"Create", "Retype"} /\ s.types[q.value] = 0

\* The row the handler writes, and its new content.
Subject(t) == IF t.op.do = "Create" THEN t.id ELSE t.op.on[1]

RowAfter(t) ==
    CASE t.op.do = "Create" -> [status |-> NoStatus, type |-> t.op.value]
      [] t.op.do = "Delete" -> Null
      [] t.op.do = "Patch"  -> [t.snap.nodes[t.op.on[1]] EXCEPT !.status = t.op.value]
      [] t.op.do = "Retype" -> [t.snap.nodes[t.op.on[1]] EXCEPT !.type = t.op.value]
      [] OTHER              -> nodes[t.op.on[1]]

AddedLinks(t) ==
    CASE t.op.do = "Create" -> [source : {t.id}, target : Elements(t.op.on)]
      [] t.op.do = "Link"   -> {[source |-> t.op.on[1], target |-> t.op.on[2]]}
      [] OTHER              -> {}

RemovedLinks(t) ==
    CASE t.op.do = "Delete" -> Incident(t.snap, t.op.on[1])
      [] t.op.do = "Unlink" -> Between(t.snap, t.op.on[1], t.op.on[2])
      [] OTHER              -> {}

\* Calls of Notify: the node, its change, and how many calls with these came before.
Once(ns, change) == {<<n, change, 1>> : n \in ns}

\* The changes of nodes the handler passes to Notify.
Changes(t) ==
    LET q == t.op
        s == t.snap
    IN  CASE q.do \in {"Create", "Link"} -> Once(Elements(q.on), "Link added")
          [] q.do = "Unlink" ->
                IF RemovedLinks(t) = {} THEN {}
                ELSE Once(Elements(q.on), "Link removed") \cup
                     (IF q.on[1] = q.on[2] THEN {<<q.on[1], "Link removed", 2>>} ELSE {})
          [] q.do = "Delete" -> Once({q.on[1]}, "deleted") \cup
                                Once(Neighbors(s, q.on[1]), "Link removed")
          [] q.do = "Patch"  -> IF s.nodes[q.on[1]].status = q.value THEN {}
                                ELSE Once({q.on[1]}, "status")
          [] q.do = "Retype" -> IF s.nodes[q.on[1]].type = q.value THEN {}
                                ELSE Once({q.on[1]}, "meta")
          [] OTHER -> {}

\* Notify: those of the changes there is a hook for.
Told(t) == {c \in Changes(t) : c[1] \in t.snap.hooks /\ t.snap.nodes[c[1]] # Null}

\* Notify reads the node from the snapshot: of one created since, nobody is told.
Missed(t) ==
    {c \in Changes(t) : c[1] \in hooks /\ nodes[c[1]] # Null /\ t.snap.nodes[c[1]] = Null}

-----------------------------------------------------------------------------
(* The transaction of a request                                            *)

\* Mutants: weaker levels, the second of which updates the newer row.
IsolationRepeatable == "REPEATABLE READ"
IsolationCommitted == "READ COMMITTED"

\* MutationTransaction: the isolation level it asks for.
Isolation == "SERIALIZABLE"

Idle == [phase |-> "idle", held |-> {}]

Running == {"locking", "neighbors", "written"}

Active(r) == txn[r].phase \in Running

Init ==
    /\ nodes = [n \in NodeIds |-> Null]
    /\ links = {}
    /\ hooks = {}
    /\ types = [k \in Types |-> 0]
    /\ lastId = 0
    /\ born = {}
    /\ notices = {}
    /\ missed = {}
    /\ txn = [r \in Requests |-> Idle]

\* Mutant: deletes the hook without locking its node.
NamedNodesNoHook(q) == IF q.do = "Unregister" THEN {} ELSE Elements(q.on)

\* The nodes a handler passes to its first LockNodes().
NamedNodes(q) == Elements(q.on)

\* The first statement of the transaction takes its snapshot.
Begin(r, q) ==
    /\ txn[r] = Idle
    /\ q \in Requestable
    /\ q.do = "Create" => lastId < MaxNode
    /\ txn' = [txn EXCEPT ![r] =
                 [phase |-> "locking", op |-> q, snap |-> tables, todo |-> NamedNodes(q),
                  held |-> {}, changed |-> {}, id |-> 0]]
    /\ UNCHANGED <<data, lastId>>

\* Mutant: locks in the order the request names the nodes.
NextLockAsNamed(q, todo) ==
    IF \E i \in DOMAIN q.on : q.on[i] \in todo
    THEN q.on[CHOOSE i \in DOMAIN q.on :
                q.on[i] \in todo /\ \A j \in 1..(i - 1) : q.on[j] \notin todo]
    ELSE CHOOSE n \in todo : TRUE

\* LockNodes works on its ids in ascending order.
NextLock(q, todo) == CHOOSE n \in todo : \A m \in todo : n <= m

\* The row was updated since the snapshot of t, and the isolation level minds.
Outdated(t, n) == Isolation # "READ COMMITTED" /\ n \in t.changed

Waiting(r) == txn[r].phase \in {"locking", "neighbors"} /\ txn[r].todo # {}

Wanted(r) == NextLock(txn[r].op, txn[r].todo)

\* The update waits for the transaction that holds the row version r sees.
Blocked(r) ==
    /\ Waiting(r)
    /\ txn[r].snap.nodes[Wanted(r)] # Null
    /\ ~Outdated(txn[r], Wanted(r))
    /\ \E o \in Requests \ {r} : Wanted(r) \in txn[o].held

\* Mutant: returns without disposing the transaction.
RollbackLeaking(r) ==
    /\ txn' = [txn EXCEPT ![r].phase = "left"]
    /\ UNCHANGED <<data, lastId>>

\* An exception or a return before Commit() disposes the transaction.
Rollback(r) ==
    /\ txn' = [txn EXCEPT ![r] = Idle]
    /\ UNCHANGED <<data, lastId>>

\* One iteration of LockNodes.  A row the snapshot does not show is not updated;
\* one that was updated since cannot be.
LockNode(r) ==
    LET n == Wanted(r)
        t == txn[r]
    IN  /\ Waiting(r)
        /\ ~Blocked(r)
        /\ IF t.snap.nodes[n] # Null /\ Outdated(t, n)
           THEN Rollback(r)
           ELSE /\ txn' = [txn EXCEPT
                             ![r].todo = @ \ {n},
                             ![r].held = IF t.snap.nodes[n] = Null THEN @ ELSE @ \cup {n}]
                /\ UNCHANGED <<data, lastId>>

\* Mutant: tells the neighbors without locking them.
LockNeighborsNone(r) ==
    /\ txn[r].phase = "locking" /\ txn[r].todo = {} /\ txn[r].op.do = "Delete"
    /\ txn' = [txn EXCEPT ![r].phase = "neighbors"]
    /\ UNCHANGED <<data, lastId>>

\* Delete goes on to lock the nodes the snapshot links to its own.
LockNeighbors(r) ==
    LET t == txn[r]
    IN  /\ t.phase = "locking" /\ t.todo = {} /\ t.op.do = "Delete"
        /\ txn' = [txn EXCEPT ![r].phase = "neighbors",
                              ![r].todo = Neighbors(t.snap, t.op.on[1])]
        /\ UNCHANGED <<data, lastId>>

\* The remaining statements, up to Commit(): nobody else can see or change what
\* they write, so they count as one.  An insert takes its id here.
Write(r) ==
    LET t == txn[r]
    IN  /\ \/ t.phase = "locking" /\ t.op.do # "Delete"
           \/ t.phase = "neighbors"
        /\ t.todo = {}
        /\ IF ~Applies(t.op, t.snap) THEN Rollback(r)
           ELSE /\ lastId' = IF t.op.do = "Create" THEN lastId + 1 ELSE lastId
                /\ txn' = [txn EXCEPT ![r].phase = "written",
                                      ![r].id = IF t.op.do = "Create" THEN lastId' ELSE 0]
                /\ UNCHANGED data

\* The links the queries of the handler look for.
Queried(t, ls) ==
    CASE t.op.do = "Delete"             -> {l \in ls : t.op.on[1] \in {l.source, l.target}}
      [] t.op.do \in {"Link", "Unlink"} -> {l \in ls : {l.source, l.target} = Elements(t.op.on)}
      [] OTHER                          -> {}

\* t and a transaction that committed since its snapshot cannot be put in order.
\* Either both inserted the type that neither saw, so each had to come first.  Or
\* the other inserted a link that t looked for and did not find, so t came first;
\* but the other did not lock the node t works on, hence did not see it, and came
\* before that node's creation, which t saw.  Only SERIALIZABLE notices.
Unserializable(t) ==
    /\ Isolation = "SERIALIZABLE"
    /\ \/ InsertsType(t.op, t.snap) /\ types[t.op.value] # 0
       \/ Queried(t, links \ t.snap.links) # {}

CommitFails(r) ==
    /\ txn[r].phase = "written"
    /\ Unserializable(txn[r])
    /\ Rollback(r)

Commit(r) ==
    LET t == txn[r]
        others == Requests \ {r}
    IN  /\ t.phase = "written"
        /\ ~Unserializable(t)
        /\ nodes' = [nodes EXCEPT ![Subject(t)] = RowAfter(t)]
        /\ links' = (links \ RemovedLinks(t)) \cup AddedLinks(t)
        /\ hooks' = CASE t.op.do = "Register" -> hooks \cup {t.op.on[1]}
                      [] t.op.do \in {"Delete", "Unregister"} -> hooks \ ({t.op.on[1]} \cap t.snap.hooks)
                      [] OTHER -> hooks
        /\ types' = IF InsertsType(t.op, t.snap)
                    THEN [types EXCEPT ![t.op.value] = @ + 1]
                    ELSE types
        /\ born' = IF t.op.do = "Create" THEN born \cup {t.id} ELSE born
        /\ notices' = IF <<nodes, links, hooks>>' = <<nodes, links, hooks>>
                      THEN notices ELSE Told(t)
        /\ missed' = IF <<nodes, links, hooks>>' = <<nodes, links, hooks>>
                     THEN missed ELSE Missed(t)
        /\ txn' = [o \in Requests |->
                     IF o = r THEN Idle
                     ELSE IF Active(o) THEN [txn[o] EXCEPT !.changed = @ \cup t.held]
                     ELSE txn[o]]
        /\ UNCHANGED lastId

\* Each of the requests in S waits for a row another of them holds.
Deadlocked(S) ==
    /\ S # {}
    /\ \A r \in S : Blocked(r) /\ \E o \in S \ {r} : Wanted(r) \in txn[o].held

\* The database finds the cycle and fails the statement of one waiter.
DeadlockAbort(r) ==
    /\ \E S \in SUBSET Requests : r \in S /\ Deadlocked(S)
    /\ Rollback(r)

\* Cancellation, a lost connection, an exception of the embedding producer, or
\* a serialization failure the database reports to be on the safe side.
Fail(r) == Active(r) /\ Rollback(r)

Step(r) ==
    \/ LockNode(r)
    \/ LockNeighbors(r)
    \/ Write(r)
    \/ Commit(r)
    \/ CommitFails(r)
    \/ DeadlockAbort(r)

Next == \E r \in Requests :
            \/ \E q \in Requestable : Begin(r, q)
            \/ Step(r)
            \/ Fail(r)

\* The server runs every request and the database hands a released row to its
\* waiters in turn, so no waiter is passed over for ever.
Fairness == \A r \in Requests : WF_vars(Step(r)) /\ SF_vars(LockNode(r))

Spec == Init /\ [][Next]_vars

FairSpec == Spec /\ Fairness

-----------------------------------------------------------------------------
(* Properties                                                              *)

Snapshot == [nodes : [NodeIds -> Row \cup {Null}],
             links : SUBSET [source : NodeIds, target : NodeIds],
             hooks : SUBSET NodeIds,
             types : [Types -> Nat]]

TransactionTypeOK(t) ==
    \/ t = Idle
    \/ /\ t.phase \in Running
       /\ t.snap \in Snapshot
       /\ t.todo \subseteq NodeIds
       /\ t.held \subseteq NodeIds
       /\ t.changed \subseteq NodeIds
       /\ t.id \in 0..MaxNode

TypeOK ==
    /\ tables \in Snapshot
    /\ lastId \in 0..MaxNode
    /\ born \subseteq NodeIds
    /\ DOMAIN txn = Requests
    /\ \A r \in Requests : TransactionTypeOK(txn[r])

\* Two requests never hold the same row, and a row a request holds is still as
\* its snapshot shows it: what it decides on cannot change under it.
LocksProtectSnapshots ==
    \A r \in Requests :
        Active(r) =>
            /\ \A o \in Requests \ {r} : txn[r].held \cap txn[o].held = {}
            /\ \A n \in txn[r].held : /\ nodes[n] = txn[r].snap.nodes[n]
                                      /\ n \in hooks <=> n \in txn[r].snap.hooks

\* A type name gets one row however many requests first use it at once,
\* although the table has no unique column.
TypeNamesUnique == \A k \in Types : types[k] <= 1

\* Locks are taken in ascending order except by Delete, which locks neighbors
\* after its own node: without a deletion in it no cycle of waiters can form.
OnlyDeletionsDeadlock ==
    \A S \in SUBSET Requests :
        Deadlocked(S) => \E r \in S : txn[r].phase = "neighbors"

\* Whatever waits, every request is answered.
RequestsEnd == \A r \in Requests : Active(r) ~> ~Active(r)

\* The graph as module NodeGraph knows it.
GraphUser == "user"

GraphRow(row) ==
    [owner |-> GraphUser, access |-> {"Read", "Write"}, status |-> row.status,
     meta |-> row.type, position |-> "placed", content |-> Null, substance |-> Null]

ASSUME GraphAssumption == \A row \in Row : GraphRow(row) # Null

Graph == INSTANCE NodeGraph WITH
    Users        <- {GraphUser},
    Managed      <- {},
    NoUser       <- "nobody",
    Callers      <- {[id |-> GraphUser, admin |-> FALSE]},
    Tags         <- {"tag"},
    Filters      <- {{}},
    Accesses     <- {{"Read", "Write"}},
    Metas        <- Types,
    Positions    <- {"placed"},
    Contents     <- {},
    Substances   <- {},
    Labels       <- {"plain"},
    Patches      <- {},
    DefaultLabel <- "plain",
    Origin       <- "origin",
    issued       <- born,
    nodes        <- [n \in NodeIds |-> IF nodes[n] = Null THEN Null ELSE GraphRow(nodes[n])],
    links        <- {[source |-> l.source, target |-> l.target, label |-> "plain"] : l \in links},
    hooks        <- [k \in NodeIds \X {GraphUser} \X {"tag"} |->
                       IF k[1] \in hooks
                       THEN {"Status", "Content", "Links", "Metadata"} ELSE {}],
    accounts     <- {GraphUser},
    enabled      <- {GraphUser},
    admins       <- {},
    notices      <- {[to |-> GraphUser, node |-> m[1], tag |-> "tag", full |-> TRUE,
                      copy |-> m[3], says |-> {m[2]}] : m \in notices \cup missed}

\* Every transaction that commits has, at that moment, the effect of one step
\* of NodeGraph on the committed tables, messages included, and nothing else
\* has any: locks and snapshots make the handlers atomic.  One thing is missing:
\* a handler that names a node ahead locks nothing, and when the node is created
\* and subscribed to before it commits, the subscribers are not told of its link.
AtomicGraph == Graph!Spec

=============================================================================
