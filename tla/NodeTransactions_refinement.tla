---------------------- MODULE NodeTransactions_refinement ----------------------
(***************************************************************************)
(* Every commit of NodeTransactions is a step of NodeGraph: the proof of   *)
(* AtomicGraph, for any number of requests and nodes.                      *)
(***************************************************************************)
EXTENDS NodeTransactions_proofs

Ends(l) == {l.source, l.target}

\* A request has a handler; one that names a pair names these two nodes, and one
\* that links them names two different ones.
Understood(q) ==
    /\ q.do \in {"Create", "Delete", "Link", "Unlink", "Patch", "Retype",
                 "Register", "Unregister"}
    /\ q.do \in {"Link", "Unlink"} => Elements(q.on) = {q.on[1], q.on[2]}
    /\ q.do = "Link" => q.on[1] # q.on[2]

\* A snapshot shows the source of each link it shows, and nobody removes the link
\* without changing that node.
LinksKept(t) ==
    \A l \in t.snap.links : /\ t.snap.nodes[l.source] # Null
                            /\ l.source \notin t.changed => l \in links

\* A handler that deletes has locked the neighbors or is about to.
NeighborsLocked(t) ==
    t.op.do = "Delete" /\ t.phase # "locking" =>
        \A m \in Neighbors(t.snap, t.op.on[1]) :
            \/ t.snap.nodes[m] = Null
            \/ m \in t.held
            \/ t.phase = "neighbors" /\ m \in t.todo

\* Who got to commit a link has found both nodes, and no link.
LinkDecided(t) ==
    t.op.do = "Link" /\ t.phase = "written" =>
        /\ t.snap.nodes[t.op.on[2]] # Null
        /\ Between(t.snap, t.op.on[1], t.op.on[2]) = {}

LinksKnown(r) ==
    Active(r) => /\ Understood(txn[r].op)
                 /\ LinksKept(txn[r])
                 /\ NeighborsLocked(txn[r])
                 /\ LinkDecided(txn[r])

LinksInv ==
    /\ \A l \in links : nodes[l.source] # Null
    /\ \A r \in Requests : LinksKnown(r)

-----------------------------------------------------------------------------
(* Steps that leave the tables alone                                       *)

LEMMA RequestsUnderstood == ASSUME NEW q \in Requestable PROVE Understood(q)
<1>1. q.do \in {"Link", "Unlink"} => \E m, n \in NodeIds : q.on = <<m, n>>
  BY DEF Requestable, Pairs, Couples
<1>2. q.do = "Link" => q.on[1] # q.on[2]
  BY DEF Requestable, Pairs, Couples
<1> QED
  BY <1>1, <1>2, RequestsSensible DEF Understood, Elements

\* What is known of a transaction that a step leaves behind, tables unchanged.
LEMMA KnownAfter ==
    ASSUME NEW r \in Requests, NEW u, txn'[r] = u, UNCHANGED data,
           Understood(u.op), LinksKept(u), NeighborsLocked(u), LinkDecided(u)
    PROVE  LinksKnown(r)'
<1>1. Understood(txn[r].op)' /\ NeighborsLocked(txn[r])' /\ LinkDecided(txn[r])'
  BY DEF Understood, NeighborsLocked, LinkDecided
<1>2. LinksKept(txn[r])'
  BY DEF LinksKept, data
<1> QED
  BY <1>1, <1>2 DEF LinksKnown

\* A step of r that commits nothing concerns r alone.
LEMMA OwnLinks ==
    ASSUME LinksInv, NEW r \in Requests, UNCHANGED data,
           \A o \in Requests \ {r} : txn'[o] = txn[o],
           LinksKnown(r)'
    PROVE  LinksInv'
<1>1. ASSUME NEW o \in Requests \ {r} PROVE LinksKnown(o)'
  <2>1. txn'[o] = txn[o] /\ LinksKnown(o)
    BY DEF LinksInv
  <2>2. CASE ~Active(o)
    BY <2>1, <2>2 DEF LinksKnown, Active
  <2>3. CASE Active(o)
    BY <2>1, <2>3, KnownAfter DEF LinksKnown
  <2> QED
    BY <2>2, <2>3
<1>2. \A l \in links' : nodes'[l.source] # Null
  BY DEF LinksInv, data
<1> QED
  BY <1>1, <1>2 DEF LinksInv

LEMMA LinksRollback ==
    ASSUME LockInv, LinksInv, NEW r \in Requests, Rollback(r)
    PROVE  LinksInv'
<1>1. /\ txn'[r] = Idle
      /\ \A o \in Requests \ {r} : txn'[o] = txn[o]
      /\ UNCHANGED data
  BY DEF LockInv, Rollback
<1>2. LinksKnown(r)'
  BY <1>1 DEF LinksKnown, Active, Idle, Running
<1> QED
  BY <1>1, <1>2, OwnLinks

LEMMA LinksBegin ==
    ASSUME LockInv, LinksInv, NEW r \in Requests, NEW q \in Requestable, Begin(r, q)
    PROVE  LinksInv'
<1> DEFINE t == [phase |-> "locking", op |-> q, snap |-> tables, todo |-> NamedNodes(q),
                 held |-> {}, changed |-> {}, id |-> 0]
<1>1. /\ txn'[r] = t
      /\ \A o \in Requests \ {r} : txn'[o] = txn[o]
      /\ UNCHANGED data
  BY DEF LockInv, Begin
<1>2. Understood(q)
  BY RequestsUnderstood
<1>3. LinksKept(t)
  BY DEF LinksInv, LinksKept, tables
<1>4. NeighborsLocked(t) /\ LinkDecided(t)
  BY DEF NeighborsLocked, LinkDecided
<1>5. LinksKnown(r)'
  BY <1>1, <1>2, <1>3, <1>4, KnownAfter
<1> QED
  BY <1>1, <1>5, OwnLinks

LEMMA LinksLockNode ==
    ASSUME LockInv, LinksInv, NEW r \in Requests, LockNode(r)
    PROVE  LinksInv'
<1> DEFINE t == txn[r]
           n == Wanted(r)
           u == [t EXCEPT !.todo = @ \ {n},
                          !.held = IF t.snap.nodes[n] = Null THEN @ ELSE @ \cup {n}]
<1>1. CASE t.snap.nodes[n] # Null /\ Outdated(t, n)
  BY <1>1, LinksRollback DEF LockNode
<1>2. CASE ~(t.snap.nodes[n] # Null /\ Outdated(t, n))
  <2>1. Active(r) /\ t.phase # "written" /\ Fields(t)
    BY DEF LockNode, Waiting, Active, Running, LockInv, TransactionOK
  <2>2. u = [phase |-> t.phase, op |-> t.op, snap |-> t.snap, todo |-> t.todo \ {n},
             held |-> IF t.snap.nodes[n] = Null THEN t.held ELSE t.held \cup {n},
             changed |-> t.changed, id |-> t.id]
    BY <2>1, EditedLocks
  <2>3. /\ txn'[r] = u
        /\ \A o \in Requests \ {r} : txn'[o] = txn[o]
        /\ UNCHANGED data
    BY <1>2 DEF LockNode, LockInv
  <2> HIDE DEF u
  <2>4. Understood(u.op) /\ LinksKept(u)
    BY <2>1, <2>2 DEF LinksInv, LinksKnown, LinksKept
  <2>5. NeighborsLocked(u) /\ LinkDecided(u)
    BY <2>1, <2>2 DEF LinksInv, LinksKnown, NeighborsLocked, LinkDecided
  <2>6. LinksKnown(r)'
    BY <2>3, <2>4, <2>5, KnownAfter
  <2> QED
    BY <2>3, <2>6, OwnLinks
<1> QED
  BY <1>1, <1>2

LEMMA LinksLockNeighbors ==
    ASSUME LockInv, LinksInv, NEW r \in Requests, LockNeighbors(r)
    PROVE  LinksInv'
<1> DEFINE t == txn[r]
           u == [t EXCEPT !.phase = "neighbors", !.todo = Neighbors(t.snap, t.op.on[1])]
<1>1. Active(r) /\ Fields(t)
  BY DEF LockNeighbors, LockInv, TransactionOK, Active, Running
<1>2. u = [phase |-> "neighbors", op |-> t.op, snap |-> t.snap,
           todo |-> Neighbors(t.snap, t.op.on[1]), held |-> t.held,
           changed |-> t.changed, id |-> t.id]
  BY <1>1, EditedNeighbors
<1>3. /\ txn'[r] = u
      /\ \A o \in Requests \ {r} : txn'[o] = txn[o]
      /\ UNCHANGED data
  BY DEF LockNeighbors, LockInv
<1> HIDE DEF u
<1>4. /\ Understood(u.op) /\ LinksKept(u) /\ NeighborsLocked(u)
      /\ LinkDecided(u)
  BY <1>1, <1>2 DEF LinksInv, LinksKnown, LinksKept, NeighborsLocked, LinkDecided
<1>5. LinksKnown(r)'
  BY <1>3, <1>4, KnownAfter
<1> QED
  BY <1>3, <1>5, OwnLinks

LEMMA LinksWrite ==
    ASSUME LockInv, LinksInv, NEW r \in Requests, Write(r)
    PROVE  LinksInv'
<1> DEFINE t == txn[r]
           id == IF t.op.do = "Create" THEN lastId' ELSE 0
           u == [t EXCEPT !.phase = "written", !.id = id]
<1>1. CASE ~Applies(t.op, t.snap)
  BY <1>1, LinksRollback DEF Write
<1>2. CASE Applies(t.op, t.snap)
  <2>1. Active(r) /\ Fields(t) /\ t.todo = {} /\ (t.op.do = "Delete" => t.phase = "neighbors")
    BY DEF Write, LockInv, TransactionOK, Active, Running
  <2>2. u = [phase |-> "written", op |-> t.op, snap |-> t.snap, todo |-> {},
             held |-> t.held, changed |-> t.changed, id |-> id]
    <3> t.todo = {} /\ Fields(t)
      BY <2>1
    <3> QED
      BY EditedWritten
  <2>3. /\ txn'[r] = u
        /\ \A o \in Requests \ {r} : txn'[o] = txn[o]
        /\ UNCHANGED data
    BY <1>2 DEF Write, LockInv
  <2> HIDE DEF u, id
  <2>4. Understood(u.op) /\ LinksKept(u)
    BY <2>1, <2>2 DEF LinksInv, LinksKnown, LinksKept
  <2>5. NeighborsLocked(u)
    BY <2>1, <2>2 DEF LinksInv, LinksKnown, NeighborsLocked
  <2>6. LinkDecided(u)
    BY <1>2, <2>2 DEF LinkDecided, Applies
  <2>7. LinksKnown(r)'
    BY <2>3, <2>4, <2>5, <2>6, KnownAfter
  <2> QED
    BY <2>3, <2>7, OwnLinks
<1> QED
  BY <1>1, <1>2
-----------------------------------------------------------------------------
(* What a commit does to links                                             *)

\* The nodes a handler names are locked when it commits, if it saw them.
LEMMA NamedLocked ==
    ASSUME LockInv, NEW r \in Requests, Commit(r), NEW n \in Elements(txn[r].op.on)
    PROVE  n \in NodeIds /\ (n \in txn[r].held \/ txn[r].snap.nodes[n] = Null)
<1>1. TransactionOK(r) /\ Active(r) /\ txn[r].phase = "written"
  BY Committing
<1> QED
  BY <1>1 DEF TransactionOK, Sensible, Locked

\* A link it removes is one of its snapshot, from a node it holds.
LEMMA RemovedSources ==
    ASSUME LinksInv, LockInv, NEW r \in Requests, Commit(r), NEW l \in RemovedLinks(txn[r])
    PROVE  /\ l \in txn[r].snap.links /\ l \in links
           /\ l.source \in txn[r].held
<1> DEFINE t == txn[r]
           d == t.op.on[1]
<1>1. /\ Active(r) /\ t.phase = "written" /\ Locked(t)
      /\ Understood(t.op) /\ LinksKept(t) /\ NeighborsLocked(t)
  BY Committing DEF LinksInv, LinksKnown, TransactionOK
<1>2. l \in t.snap.links /\ t.snap.nodes[l.source] # Null
  <2>1. l \in t.snap.links
    BY DEF RemovedLinks, Incident, Between
  <2> QED
    BY <1>1, <2>1 DEF LinksKept
<1>3. l.source \in t.held
  <2>1. CASE t.op.do = "Delete"
    <3>1. l \in Incident(t.snap, d)
      BY <2>1 DEF RemovedLinks
    <3>2. l.source = d \/ l.source \in Neighbors(t.snap, d)
      BY <3>1 DEF Neighbors
    <3>3. d \in t.held
      BY <2>1, Committing
    <3> QED
      BY <1>1, <1>2, <2>1, <3>2, <3>3 DEF NeighborsLocked
  <2>2. CASE t.op.do = "Unlink"
    <3>1. l.source \in Elements(t.op.on)
      BY <1>1, <2>2 DEF RemovedLinks, Between, Understood
    <3> QED
      BY <1>2, <3>1, NamedLocked
  <2>3. CASE t.op.do \notin {"Delete", "Unlink"}
    BY <2>3 DEF RemovedLinks
  <2> QED
    BY <2>1, <2>2, <2>3
<1> QED
  BY <1>1, <1>2, <1>3 DEF Locked, LinksKept

\* A link it adds starts at the node it creates or at one it holds.
LEMMA AddedSources ==
    ASSUME LinksInv, LockInv, NEW r \in Requests, Commit(r), NEW l \in AddedLinks(txn[r])
    PROVE  nodes'[l.source] # Null
<1> DEFINE t == txn[r]
<1>1. nodes' = [nodes EXCEPT ![Subject(t)] = RowAfter(t)] /\ DOMAIN nodes = NodeIds
  BY DEF Commit, LockInv, TablesOK, tables, Snapshot
<1>2. CASE t.op.do = "Create"
  <2>1. l.source = t.id /\ t.id \in NodeIds
    BY <1>2, Committing DEF AddedLinks
  <2>2. RowAfter(t) \in Row
    BY <1>2, Committing, TransactionsAssumption DEF RowAfter, Sensible, Row
  <2> QED
    BY <1>1, <1>2, <2>1, <2>2, TransactionsAssumption DEF Subject
<1>3. CASE t.op.do = "Link"
  <2>1. l.source = t.op.on[1]
    BY <1>3 DEF AddedLinks
  <2> QED
    BY <1>1, <1>3, <2>1, Committing DEF Subject, RowAfter
<1>4. CASE t.op.do \notin {"Create", "Link"}
  BY <1>4 DEF AddedLinks
<1> QED
  BY <1>2, <1>3, <1>4

\* What the handler looked for when it started is what it would find now.
LEMMA DeletedLinks ==
    ASSUME LinksInv, LockInv, NEW r \in Requests, Commit(r), txn[r].op.do = "Delete"
    PROVE  Incident(txn[r].snap, txn[r].op.on[1]) = Incident(tables, txn[r].op.on[1])
<1> DEFINE t == txn[r]
           d == t.op.on[1]
<1>1. \A l \in Incident(t.snap, d) : l \in links
  BY RemovedSources DEF RemovedLinks
<1>2. Queried(t, links \ t.snap.links) = {}
  BY DEF Commit, Unserializable, Isolation
<1>3. \A l \in links \ t.snap.links : d \notin {l.source, l.target}
  BY <1>2 DEF Queried
<1> QED
  BY <1>1, <1>3 DEF Incident, tables

LEMMA UnlinkedLinks ==
    ASSUME LinksInv, LockInv, NEW r \in Requests, Commit(r),
           txn[r].op.do \in {"Link", "Unlink"}
    PROVE  Between(tables, txn[r].op.on[1], txn[r].op.on[2]) =
           Between(txn[r].snap, txn[r].op.on[1], txn[r].op.on[2])
<1> DEFINE t == txn[r]
           a == t.op.on[1]
           b == t.op.on[2]
<1>1. Understood(t.op) /\ LinkDecided(t) /\ t.phase = "written"
  BY Committing DEF LinksInv, LinksKnown
<1>2. \A l \in Between(t.snap, a, b) : l \in links
  <2>1. CASE t.op.do = "Unlink"
    BY <2>1, RemovedSources DEF RemovedLinks
  <2>2. CASE t.op.do = "Link"
    BY <1>1, <2>2 DEF LinkDecided
  <2> QED
    BY <2>1, <2>2
<1>3. Queried(t, links \ t.snap.links) = {}
  BY DEF Commit, Unserializable, Isolation
<1>4. \A l \in links \ t.snap.links : {l.source, l.target} # {a, b}
  BY <1>1, <1>3 DEF Queried, Understood
<1> QED
  BY <1>2, <1>4 DEF Between, tables

LEMMA SourcesCommitted ==
    ASSUME LinksInv, LockInv, NEW r \in Requests, Commit(r), NEW l \in links'
    PROVE  nodes'[l.source] # Null
<1> DEFINE t == txn[r]
<1>1. /\ l \in links \ RemovedLinks(t) \/ l \in AddedLinks(t)
      /\ nodes' = [nodes EXCEPT ![Subject(t)] = RowAfter(t)]
  BY DEF Commit
<1>2. CASE l \in links \ RemovedLinks(t)
  <2>1. nodes[l.source] # Null /\ l.source \in NodeIds /\ DOMAIN nodes = NodeIds
    BY <1>2 DEF LinksInv, LockInv, TablesOK, tables, Snapshot
  <2>2. CASE t.op.do = "Delete"
    <3>1. l.source # t.op.on[1]
      BY <1>2, <2>2, DeletedLinks DEF RemovedLinks, Incident, tables
    <3> QED
      BY <1>1, <2>1, <2>2, <3>1 DEF Subject
  <2>3. CASE t.op.do # "Delete"
    <3>1. RowAfter(t) # Null \/ Subject(t) # l.source
      <4>1. CASE t.op.do \in {"Create", "Patch", "Retype"}
        <5>1. t.op.do \in {"Patch", "Retype"} => t.snap.nodes[t.op.on[1]] \in Row
          BY Committing DEF Snapshot
        <5>2. RowAfter(t) \in Row
          BY <4>1, <5>1, Committing, TransactionsAssumption DEF RowAfter, Sensible, Row
        <5> QED
          BY <5>2, TransactionsAssumption
      <4>2. CASE t.op.do \notin {"Create", "Patch", "Retype"}
        BY <2>1, <2>3, <4>2 DEF RowAfter, Subject
      <4> QED
        BY <4>1, <4>2
    <3> QED
      BY <1>1, <2>1, <3>1
  <2> QED
    BY <2>2, <2>3
<1> QED
  BY <1>1, <1>2, AddedSources

LEMMA OtherLinks ==
    ASSUME LinksInv, LockInv, NEW r \in Requests, Commit(r), NEW o \in Requests \ {r},
           Active(o)
    PROVE  LinksKnown(o)'
<1> DEFINE t == txn[r]
           v == txn[o]
           u == [v EXCEPT !.changed = v.changed \cup t.held]
<1>1. TransactionOK(o) /\ LinksKnown(o) /\ Fields(v)
  BY DEF LockInv, LinksInv, TransactionOK
<1>2. u = [phase |-> v.phase, op |-> v.op, snap |-> v.snap, todo |-> v.todo,
           held |-> v.held, changed |-> v.changed \cup t.held, id |-> v.id]
  BY <1>1, EditedChanged
<1>3. txn'[o] = u
  BY DEF Commit
<1> HIDE DEF u
<1>4. Understood(u.op) /\ NeighborsLocked(u) /\ LinkDecided(u)
  BY <1>1, <1>2 DEF LinksKnown, NeighborsLocked, LinkDecided
<1>5. ASSUME NEW l \in u.snap.links
      PROVE  /\ u.snap.nodes[l.source] # Null
             /\ l.source \notin u.changed => l \in links'
  <2>1. /\ v.snap.nodes[l.source] # Null
        /\ l.source \notin v.changed => l \in links
    BY <1>1, <1>2 DEF LinksKnown, LinksKept
  <2>2. l \in RemovedLinks(t) => l.source \in t.held
    BY RemovedSources
  <2>3. l \in links /\ l \notin RemovedLinks(t) => l \in links'
    BY DEF Commit
  <2> QED
    BY <1>2, <2>1, <2>2, <2>3
<1> QED
  BY <1>3, <1>4, <1>5 DEF LinksKnown, Understood, LinksKept, NeighborsLocked, LinkDecided

LEMMA LinksCommit ==
    ASSUME LinksInv, LockInv, NEW r \in Requests, Commit(r)
    PROVE  LinksInv'
<1>1. \A l \in links' : nodes'[l.source] # Null
  BY SourcesCommitted
<1>2. LinksKnown(r)'
  BY DEF Commit, LinksKnown, Active, Idle, Running
<1>3. ASSUME NEW o \in Requests \ {r} PROVE LinksKnown(o)'
  <2>1. CASE Active(o)
    BY <2>1, OtherLinks
  <2>2. CASE ~Active(o)
    BY <2>2 DEF Commit, LinksKnown, Active
  <2> QED
    BY <2>1, <2>2
<1> QED
  BY <1>1, <1>2, <1>3 DEF LinksInv

LEMMA LinksInvInit == Init => LinksInv
  BY DEF Init, LinksInv, LinksKnown, Active, Idle, Running

LEMMA LinksInvNext == LinksInv /\ LockInv /\ [Next]_vars => LinksInv'
<1> SUFFICES ASSUME LinksInv, LockInv, [Next]_vars PROVE LinksInv'
  OBVIOUS
<1>1. ASSUME NEW r \in Requests, NEW q \in Requestable, Begin(r, q) PROVE LinksInv'
  BY <1>1, LinksBegin
<1>2. ASSUME NEW r \in Requests, LockNode(r) PROVE LinksInv'
  BY <1>2, LinksLockNode
<1>3. ASSUME NEW r \in Requests, LockNeighbors(r) PROVE LinksInv'
  BY <1>3, LinksLockNeighbors
<1>4. ASSUME NEW r \in Requests, Write(r) PROVE LinksInv'
  BY <1>4, LinksWrite
<1>5. ASSUME NEW r \in Requests, Commit(r) PROVE LinksInv'
  BY <1>5, LinksCommit
<1>6. ASSUME NEW r \in Requests, CommitFails(r) \/ DeadlockAbort(r) \/ Fail(r)
      PROVE  LinksInv'
  BY <1>6, LinksRollback DEF CommitFails, DeadlockAbort, Fail
<1>7. CASE UNCHANGED vars
  BY <1>7 DEF vars, LinksInv, LinksKnown, Active, Understood, LinksKept,
     NeighborsLocked, LinkDecided
<1> QED
  BY <1>1, <1>2, <1>3, <1>4, <1>5, <1>6, <1>7 DEF Next, Step
-----------------------------------------------------------------------------
(* The tables as NodeGraph knows them                                      *)

Caller == [id |-> GraphUser, admin |-> FALSE]

GraphNodes == [n \in NodeIds |-> IF nodes[n] = Null THEN Null ELSE GraphRow(nodes[n])]

GraphLink(l) == [source |-> l.source, target |-> l.target, label |-> "plain"]

GraphLinks == {GraphLink(l) : l \in links}

GraphHooks == [k \in NodeIds \X {GraphUser} \X {"tag"} |->
                 IF k[1] \in hooks THEN {"Status", "Content", "Links", "Metadata"} ELSE {}]

Mail(c) == [to |-> GraphUser, node |-> c[1], tag |-> "tag", full |-> TRUE,
            copy |-> c[3], says |-> {c[2]}]

GraphNotices == {Mail(c) : c \in notices \cup missed}

LEMMA GraphInit == Init => Graph!Init
<1> SUFFICES ASSUME Init PROVE Graph!Init
  OBVIOUS
<1>1. GraphNodes = [n \in NodeIds |-> Null]
  BY DEF Init, GraphNodes
<1>2. GraphLinks = {} /\ GraphNotices = {}
  BY DEF Init, GraphLinks, GraphNotices
<1>3. GraphHooks = [k \in NodeIds \X {GraphUser} \X {"tag"} |-> {}]
  BY DEF Init, GraphHooks
<1> QED
  BY <1>1, <1>2, <1>3 DEF Init, Graph!Init, Graph!HookKeys, GraphNodes, GraphLinks,
     GraphLink, GraphNotices, Mail, GraphHooks

\* The one user can read every node there is, and may write it.
LEMMA GraphRows ==
    ASSUME NEW row \in Row
    PROVE  /\ GraphRow(row) # Null
           /\ GraphRow(row) \in Graph!Row
           /\ Graph!CanRead(GraphRow(row), GraphUser)
           /\ Graph!Allowed(GraphRow(row), Caller, "Write")
<1>1. GraphRow(row) # Null
  BY GraphAssumption
<1>2. GraphRow(row) \in Graph!Row
  BY DEF GraphRow, Row, Graph!Row, Graph!Owners, GraphUser
<1>3. GraphRow(row).owner = GraphUser
  BY DEF GraphRow
<1> HIDE DEF GraphRow
<1> QED
  BY <1>1, <1>2, <1>3 DEF Graph!CanRead, Graph!Allowed, Caller

LEMMA GraphNode ==
    ASSUME LockInv, NEW n \in NodeIds
    PROVE  /\ nodes[n] = Null => GraphNodes[n] = Null
           /\ nodes[n] # Null => /\ nodes[n] \in Row
                                 /\ GraphNodes[n] = GraphRow(nodes[n])
                                 /\ GraphNodes[n] # Null
<1>1. nodes[n] \in Row \cup {Null}
  BY DEF LockInv, TablesOK, tables, Snapshot
<1> QED
  BY <1>1, GraphRows DEF GraphNodes

\* A change of one thing is one message to the hook of the node, if it has one.
LEMMA OneMail ==
    ASSUME NEW n \in NodeIds, NEW before, NEW after, NEW edges, NEW c,
           before # Null,
           Graph!CanRead(before, GraphUser),
           Graph!Changed(before, after) \cup edges = {c},
           \/ c = "deleted" /\ after = Null
           \/ c # "deleted" /\ after # Null /\ Graph!CanRead(after, GraphUser)
    PROVE  Graph!Notify(n, before, after, edges) =
              IF n \in hooks THEN {Mail(<<n, c, 1>>)} ELSE {}
<1> DEFINE kinds == Graph!KindsOf({c})
           Hears(u, events) ==
               /\ events \cap Graph!Selection(before, after, kinds) # {}
               /\ Graph!Concerned(before, after, u)
               /\ \/ events \cap kinds # {}
                  \/ Graph!CanRead(before, u) /\ ~Graph!CanRead(after, u)
           told == {h \in {GraphUser} \X {"tag"} : Hears(h[1], GraphHooks[<<n, h[1], h[2]>>])}
           Message(k) == [to |-> k[1], node |-> n, tag |-> k[2],
                          full |-> Graph!BodyLists(after, k[1]), copy |-> 1,
                          says |-> IF Graph!BodyLists(after, k[1]) THEN {c} ELSE {}]
<1>1. Graph!Notify(n, before, after, edges) = {Message(k) : k \in told}
  <2> DEFINE changes == Graph!Changed(before, after) \cup edges
             among(k) == [to |-> k[1], node |-> n, tag |-> k[2],
                          full |-> Graph!BodyLists(after, k[1]), copy |-> 1,
                          says |-> IF Graph!BodyLists(after, k[1]) THEN changes ELSE {}]
             hears(u, events) ==
                 /\ events \cap Graph!Selection(before, after, Graph!KindsOf(changes)) # {}
                 /\ Graph!Concerned(before, after, u)
                 /\ \/ events \cap Graph!KindsOf(changes) # {}
                    \/ Graph!CanRead(before, u) /\ ~Graph!CanRead(after, u)
  <2>1. changes = {c} /\ changes # {}
    OBVIOUS
  <2>2. Graph!Notify(n, before, after, edges) =
           {among(k) : k \in {h \in {GraphUser} \X {"tag"} :
                                 hears(h[1], GraphHooks[<<n, h[1], h[2]>>])}}
    BY <2>1 DEF Graph!Notify, GraphHooks
  <2> HIDE DEF changes
  <2> QED
    BY <2>1, <2>2
<1>2. GraphHooks[<<n, GraphUser, "tag">>] = IF n \in hooks THEN Graph!Kinds ELSE {}
  BY DEF GraphHooks, Graph!Kinds
<1>3. Hears(GraphUser, Graph!Kinds) /\ ~Hears(GraphUser, {})
  <2>1. Graph!Kind(c) \in Graph!Kinds
    BY DEF Graph!Kind, Graph!Kinds
  <2>2. CASE c # "deleted"
    <3>1. Graph!Kind(c) \in kinds
      BY <2>2 DEF Graph!KindsOf
    <3> QED
      BY <2>1, <3>1 DEF Graph!Selection, Graph!Concerned
  <2>3. CASE c = "deleted"
    <3>1. Graph!Selection(before, after, kinds) = Graph!Kinds /\ ~Graph!CanRead(after, GraphUser)
      BY <2>3 DEF Graph!CanRead, Graph!Selection
    <3> QED
      BY <2>1, <3>1 DEF Graph!Concerned
  <2> QED
    BY <2>2, <2>3
<1>4. Graph!BodyLists(after, GraphUser)
  BY DEF Graph!BodyLists
<1> HIDE DEF Hears, kinds
<1>5. told = IF n \in hooks THEN {<<GraphUser, "tag">>} ELSE {}
  BY <1>2, <1>3
<1>6. Message(<<GraphUser, "tag">>) = Mail(<<n, c, 1>>)
  BY <1>4 DEF Mail
<1> HIDE DEF told, Message
<1> QED
  BY <1>1, <1>5, <1>6

LEMMA CallOf ==
    ASSUME NEW n, NEW change, NEW i
    PROVE  /\ <<n, change, i>>[1] = n
           /\ <<n, change, i>>[2] = change
           /\ <<n, change, i>>[3] = i
  OBVIOUS

LEMMA OnceOf ==
    ASSUME NEW ns, NEW change, NEW c \in Once(ns, change)
    PROVE  c[1] \in ns
<1>1. PICK n \in ns : c = <<n, change, 1>>
  BY DEF Once
<1> QED
  BY <1>1, CallOf

LEMMA EdgeMail ==
    ASSUME LockInv, NEW n \in NodeIds, NEW edge \in {"Link added", "Link removed"}
    PROVE  Graph!Notify(n, GraphNodes[n], GraphNodes[n], {edge}) =
              IF n \in hooks /\ nodes[n] # Null THEN {Mail(<<n, edge, 1>>)} ELSE {}
<1>1. CASE nodes[n] = Null
  BY <1>1, GraphNode DEF Graph!Notify
<1>2. CASE nodes[n] # Null
  <2>1. Graph!Changed(GraphNodes[n], GraphNodes[n]) = {}
    BY <1>2, GraphNode DEF Graph!Changed
  <2>2. Graph!Changed(GraphNodes[n], GraphNodes[n]) \cup {edge} = {edge}
    BY <2>1
  <2>3. GraphNodes[n] # Null /\ Graph!CanRead(GraphNodes[n], GraphUser) /\ edge # "deleted"
    BY <1>2, GraphNode, GraphRows
  <2> DEFINE row == GraphNodes[n]
  <2>4. row # Null /\ Graph!CanRead(row, GraphUser) /\ Graph!Changed(row, row) \cup {edge} = {edge}
    BY <2>2, <2>3
  <2> HIDE DEF row
  <2>5. Graph!Notify(n, row, row, {edge}) = IF n \in hooks THEN {Mail(<<n, edge, 1>>)} ELSE {}
    BY <2>3, <2>4, OneMail
  <2> QED
    BY <1>2, <2>5 DEF row
<1> QED
  BY <1>1, <1>2

\* Of changes to some nodes those are told of whose node exists and has a hook.
Heard(changes) == {c \in changes : c[1] \in hooks /\ nodes[c[1]] # Null}

LEMMA EdgeMails ==
    ASSUME LockInv, NEW ns \in SUBSET NodeIds, NEW edge \in {"Link added", "Link removed"}
    PROVE  Graph!EdgeNotices(ns, edge) = {Mail(c) : c \in Heard(Once(ns, edge))}
<1> DEFINE Notice(m) == Graph!Notify(m, GraphNodes[m], GraphNodes[m], {edge})
           MailOf(m) == IF m \in hooks /\ nodes[m] # Null THEN {Mail(<<m, edge, 1>>)} ELSE {}
<1>1. Graph!EdgeNotices(ns, edge) = UNION {Notice(m) : m \in ns}
  BY DEF Graph!EdgeNotices, GraphNodes
<1>2. \A m \in ns : Notice(m) = MailOf(m)
  BY EdgeMail
<1> HIDE DEF Notice
<1>3. UNION {Notice(m) : m \in ns} = UNION {MailOf(m) : m \in ns}
  BY <1>2
<1>4. UNION {MailOf(m) : m \in ns} = {Mail(c) : c \in Heard(Once(ns, edge))}
  <2>1. ASSUME NEW x, x \in UNION {MailOf(m) : m \in ns}
        PROVE  x \in {Mail(c) : c \in Heard(Once(ns, edge))}
    <3>1. PICK m \in ns : m \in hooks /\ nodes[m] # Null /\ x = Mail(<<m, edge, 1>>)
      BY <2>1
    <3>2. <<m, edge, 1>> \in Heard(Once(ns, edge))
      BY <3>1 DEF Heard, Once
    <3> QED
      BY <3>1, <3>2
  <2>2. ASSUME NEW c \in Heard(Once(ns, edge))
        PROVE  Mail(c) \in UNION {MailOf(m) : m \in ns}
    <3>1. PICK m \in ns : c = <<m, edge, 1>>
      BY DEF Heard, Once
    <3>2. m \in hooks /\ nodes[m] # Null
      BY <3>1 DEF Heard
    <3>3. Mail(c) \in MailOf(m)
      BY <3>1, <3>2
    <3> HIDE DEF MailOf
    <3> QED
      BY <3>3
  <2> HIDE DEF MailOf
  <2> QED
    BY <2>1, <2>2
<1> QED
  BY <1>1, <1>3, <1>4

LEMMA SecondMail ==
    ASSUME NEW n, NEW edge
    PROVE  Graph!Again(Mail(<<n, edge, 1>>)) = Mail(<<n, edge, 2>>)
<1>1. PICK full, says, first : full = TRUE /\ says = {edge} /\ first = Mail(<<n, edge, 1>>)
  OBVIOUS
<1>2. first = [to |-> GraphUser, node |-> n, tag |-> "tag", full |-> full,
               copy |-> 1, says |-> says]
  BY <1>1, CallOf DEF Mail
<1>3. Mail(<<n, edge, 2>>) = [to |-> GraphUser, node |-> n, tag |-> "tag", full |-> full,
                              copy |-> 2, says |-> says]
  BY <1>1, CallOf DEF Mail
<1>4. Graph!Again(first) = [to |-> GraphUser, node |-> n, tag |-> "tag", full |-> full,
                            copy |-> 2, says |-> says]
  BY <1>2 DEF Graph!Again
<1> QED
  BY <1>1, <1>3, <1>4

\* The ends of a removed link are told, a node linked to itself twice.
LEMMA PairMails ==
    ASSUME LockInv, NEW a \in NodeIds, NEW b \in NodeIds, NEW edge \in {"Link removed"}
    PROVE  Graph!PairNotices(a, b, edge) =
              {Mail(c) : c \in Heard(Once({a, b}, edge) \cup
                                      (IF a = b THEN {<<a, edge, 2>>} ELSE {}))}
<1> DEFINE again == IF a = b THEN {<<a, edge, 2>>} ELSE {}
<1>1. Graph!EdgeNotices({a, b}, edge) = {Mail(c) : c \in Heard(Once({a, b}, edge))}
  BY EdgeMails
<1>2. {Graph!Again(m) : m \in Graph!EdgeNotices({a}, edge)} =
         {Mail(c) : c \in Heard({<<a, edge, 2>>})}
  <2>1. Graph!EdgeNotices({a}, edge) = {Mail(c) : c \in Heard(Once({a}, edge))}
    BY EdgeMails
  <2>2. Heard(Once({a}, edge)) =
           IF a \in hooks /\ nodes[a] # Null THEN {<<a, edge, 1>>} ELSE {}
    <3>1. Once({a}, edge) = {<<a, edge, 1>>} /\ <<a, edge, 1>>[1] = a
      BY CallOf DEF Once
    <3> QED
      BY <3>1 DEF Heard
  <2>3. Heard({<<a, edge, 2>>}) =
           IF a \in hooks /\ nodes[a] # Null THEN {<<a, edge, 2>>} ELSE {}
    <3>1. <<a, edge, 2>>[1] = a
      BY CallOf
    <3> QED
      BY <3>1 DEF Heard
  <2>4. Graph!Again(Mail(<<a, edge, 1>>)) = Mail(<<a, edge, 2>>)
    BY SecondMail
  <2>5. {Graph!Again(m) : m \in {Mail(c) : c \in Heard(Once({a}, edge))}} =
           IF a \in hooks /\ nodes[a] # Null THEN {Graph!Again(Mail(<<a, edge, 1>>))} ELSE {}
    BY <2>2
  <2>6. {Mail(c) : c \in Heard({<<a, edge, 2>>})} =
           IF a \in hooks /\ nodes[a] # Null THEN {Mail(<<a, edge, 2>>)} ELSE {}
    BY <2>3
  <2> QED
    BY <2>1, <2>4, <2>5, <2>6
<1>3. {Mail(c) : c \in Heard(Once({a, b}, edge) \cup again)} =
         {Mail(c) : c \in Heard(Once({a, b}, edge))} \cup {Mail(c) : c \in Heard(again)}
  BY DEF Heard
<1>4. {Mail(c) : c \in Heard({})} = {}
  BY DEF Heard
<1>5. CASE a = b
  <2>1. Graph!PairNotices(a, b, edge) = Graph!EdgeNotices({a, b}, edge) \cup
           {Graph!Again(m) : m \in Graph!EdgeNotices({a}, edge)}
    BY <1>5 DEF Graph!PairNotices, Graph!Again, Graph!EdgeNotices
  <2> QED
    BY <1>1, <1>2, <1>3, <1>5, <2>1
<1>6. CASE a # b
  <2>1. Graph!PairNotices(a, b, edge) = Graph!EdgeNotices({a, b}, edge)
    BY <1>6 DEF Graph!PairNotices, Graph!EdgeNotices
  <2> QED
    BY <1>1, <1>3, <1>4, <1>6, <2>1
<1> QED
  BY <1>5, <1>6

-----------------------------------------------------------------------------
(* A handler that commits decides and tells by the tables of that moment   *)

\* What its snapshot says of a node it holds.
LEMMA HeldIsCurrent ==
    ASSUME LockInv, NEW r \in Requests, Commit(r), NEW n \in txn[r].held
    PROVE  /\ n \in NodeIds /\ nodes[n] # Null
           /\ txn[r].snap.nodes[n] = nodes[n]
           /\ n \in txn[r].snap.hooks <=> n \in hooks
  BY Committing, HeldHooks

\* The nodes a handler has to tell of: those it names and those it parts from.
LEMMA ChangesAbout ==
    ASSUME LinksInv, LockInv, NEW r \in Requests, Commit(r), NEW c \in Changes(txn[r])
    PROVE  \/ c[1] \in Elements(txn[r].op.on)
           \/ txn[r].op.do = "Delete" /\ c[1] \in Neighbors(txn[r].snap, txn[r].op.on[1])
<1> DEFINE t == txn[r]
           d == t.op.on[1]
           ns == Neighbors(t.snap, d)
<1>1. t.op.do # "Create" => d \in Elements(t.op.on)
  BY Committing DEF Sensible
<1>2. CASE t.op.do \in {"Create", "Link"}
  <2>1. c \in Once(Elements(t.op.on), "Link added")
    BY <1>2 DEF Changes
  <2> QED
    BY <2>1, OnceOf
<1>3. CASE t.op.do = "Unlink"
  <2>1. c \in Once(Elements(t.op.on), "Link removed") \/ c = <<d, "Link removed", 2>>
    BY <1>3 DEF Changes
  <2> HIDE DEF d
  <2>2. c[1] \in Elements(t.op.on) \/ c[1] = d
    <3>1. CASE c \in Once(Elements(t.op.on), "Link removed")
      BY <3>1, OnceOf
    <3>2. CASE c = <<d, "Link removed", 2>>
      BY <3>2
    <3> QED
      BY <2>1, <3>1, <3>2
  <2> QED
    BY <1>1, <1>3, <2>2
<1>4. CASE t.op.do = "Delete"
  <2>1. c \in Once({d}, "deleted") \/ c \in Once(ns, "Link removed")
    BY <1>4 DEF Changes
  <2> HIDE DEF d, ns
  <2>2. c[1] = d \/ c[1] \in ns
    BY <2>1, OnceOf
  <2> QED
    BY <1>1, <1>4, <2>2 DEF d, ns
<1>5. CASE t.op.do \in {"Patch", "Retype"}
  <2>1. c \in Once({d}, "status") \/ c \in Once({d}, "meta")
    BY <1>5 DEF Changes
  <2> HIDE DEF d
  <2>2. c[1] = d
    BY <2>1, OnceOf
  <2> QED
    BY <1>1, <1>5, <2>2 DEF d
<1>6. CASE t.op.do \notin {"Create", "Link", "Unlink", "Delete", "Patch", "Retype"}
  BY <1>6 DEF Changes
<1> QED
  BY <1>2, <1>3, <1>4, <1>5, <1>6

\* Each of them is held, or was not there for the handler.
LEMMA ToldOfLocked ==
    ASSUME LinksInv, LockInv, NEW r \in Requests, Commit(r), NEW c \in Changes(txn[r])
    PROVE  c[1] \in txn[r].held \/ txn[r].snap.nodes[c[1]] = Null
<1> DEFINE t == txn[r]
<1>1. CASE c[1] \in Elements(t.op.on)
  BY <1>1, NamedLocked
<1>2. CASE t.op.do = "Delete" /\ c[1] \in Neighbors(t.snap, t.op.on[1])
  <2>1. t.phase = "written" /\ NeighborsLocked(t)
    BY Committing DEF LinksInv, LinksKnown
  <2> QED
    BY <1>2, <2>1 DEF NeighborsLocked
<1> QED
  BY <1>1, <1>2, ChangesAbout

\* Told, read off the snapshot, and what it misses are what the tables say.
LEMMA ToldIsTrue ==
    ASSUME LinksInv, LockInv, NEW r \in Requests, Commit(r)
    PROVE  Told(txn[r]) \cup Missed(txn[r]) = Heard(Changes(txn[r]))
<1> DEFINE t == txn[r]
<1>1. ASSUME NEW c \in Changes(t)
      PROVE  (c \in Told(t) \/ c \in Missed(t)) <=> c \in Heard(Changes(t))
  <2> DEFINE n == c[1]
  <2>1. CASE n \in t.held
    BY <2>1, HeldIsCurrent DEF Told, Missed, Heard
  <2>2. CASE t.snap.nodes[n] = Null
    BY <2>2 DEF Told, Missed, Heard
  <2> QED
    BY <2>1, <2>2, ToldOfLocked
<1> QED
  BY <1>1 DEF Told, Missed, Heard

LEMMA GraphNotified ==
    ASSUME LinksInv, LockInv, NEW r \in Requests, Commit(r),
           <<nodes, links, hooks>>' # <<nodes, links, hooks>>
    PROVE  GraphNotices' = {Mail(c) : c \in Heard(Changes(txn[r]))}
<1>1. notices' = Told(txn[r]) /\ missed' = Missed(txn[r])
  BY DEF Commit
<1> QED
  BY <1>1, ToldIsTrue DEF GraphNotices

LEMMA GraphNodesCommitted ==
    ASSUME LockInv, NEW r \in Requests, Commit(r)
    PROVE  LET t == txn[r] IN
           GraphNodes' = [GraphNodes EXCEPT ![Subject(t)] =
                            IF RowAfter(t) = Null THEN Null ELSE GraphRow(RowAfter(t))]
<1> DEFINE t == txn[r]
           row == RowAfter(t)
<1>1. nodes' = [nodes EXCEPT ![Subject(t)] = row] /\ nodes \in [NodeIds -> Row \cup {Null}]
  BY DEF Commit, LockInv, TablesOK, tables, Snapshot
<1> HIDE DEF row
<1> QED
  BY <1>1 DEF GraphNodes, row

LEMMA Placed ==
    ASSUME NEW row \in Row, NEW anchors, NEW p
    PROVE  Graph!Anchored(GraphRow(row), anchors, p) = GraphRow(row)
  BY DEF Graph!Anchored, GraphRow

LEMMA GraphLinksFrom ==
    ASSUME NEW s, NEW T
    PROVE  {GraphLink(l) : l \in [source : {s}, target : T]} =
           [source : {s}, target : T, label : {"plain"}]
<1>1. ASSUME NEW l \in [source : {s}, target : T]
      PROVE  GraphLink(l) \in [source : {s}, target : T, label : {"plain"}]
  BY DEF GraphLink
<1>2. ASSUME NEW k \in [source : {s}, target : T, label : {"plain"}]
      PROVE  k \in {GraphLink(l) : l \in [source : {s}, target : T]}
  <2> DEFINE l == [source |-> s, target |-> k.target]
  <2>1. l \in [source : {s}, target : T] /\ k = GraphLink(l)
    BY DEF GraphLink
  <2> QED
    BY <2>1
<1> QED
  BY <1>1, <1>2

LEMMA GraphNeighbors ==
    ASSUME NEW n
    PROVE  Graph!Neighbors(n) \ {n} = Neighbors(tables, n)
<1> DEFINE ends == UNION {Ends(l) : l \in Incident(tables, n)}
<1>1. Graph!Neighbors(n) =
         {l.target : l \in {k \in GraphLinks : k.source = n}} \cup
         {l.source : l \in {k \in GraphLinks : k.target = n}}
  BY DEF Graph!Neighbors, GraphLinks, GraphLink
<1>2. ASSUME NEW m, m \in Graph!Neighbors(n), m # n PROVE m \in ends
  <2>1. PICK k \in GraphLinks : Ends(k) = {m, n}
    BY <1>1, <1>2 DEF Ends
  <2>2. PICK l \in links : Ends(l) = {m, n}
    BY <2>1 DEF GraphLinks, GraphLink, Ends
  <2> QED
    BY <2>2 DEF Incident, tables, Ends
<1>3. ASSUME NEW m, m \in ends, m # n PROVE m \in Graph!Neighbors(n)
  <2>1. PICK l \in links : n \in Ends(l) /\ m \in Ends(l)
    BY <1>3 DEF Incident, tables, Ends
  <2>2. GraphLink(l) \in GraphLinks /\ Ends(GraphLink(l)) = Ends(l)
    BY <2>1 DEF GraphLinks, GraphLink, Ends
  <2> QED
    BY <1>1, <1>3, <2>1, <2>2 DEF Ends
<1>4. Neighbors(tables, n) = ends \ {n}
  BY DEF Neighbors, Ends
<1> QED
  BY <1>2, <1>3, <1>4

LEMMA GraphBetween ==
    ASSUME NEW m, NEW n
    PROVE  Graph!Between(m, n) = {GraphLink(l) : l \in Between(tables, m, n)}
<1>1. Between(tables, m, n) = {l \in links : \/ l.source = m /\ l.target = n
                                             \/ l.source = n /\ l.target = m}
  BY DEF Between, tables
<1>2. Graph!Between(m, n) = {k \in GraphLinks : \/ k.source = m /\ k.target = n
                                                \/ k.source = n /\ k.target = m}
  BY DEF Graph!Between, GraphLinks, GraphLink
<1> QED
  BY <1>1, <1>2 DEF GraphLinks, GraphLink

-----------------------------------------------------------------------------
(* Each handler commits a step of NodeGraph, or changes nothing            *)

LEMMA CreateCommits ==
    ASSUME LinksInv, LockInv, NEW r \in Requests, Commit(r), txn[r].op.do = "Create"
    PROVE  LET t == txn[r] IN
           Graph!CreateNode(Caller, t.id, GraphRow(RowAfter(t)), Elements(t.op.on), "placed")
<1> DEFINE t == txn[r]
           row == RowAfter(t)
           targets == Elements(t.op.on)
<1>1. /\ t.id \in NodeIds \ born /\ t.op.value \in Types /\ targets \subseteq NodeIds
  BY Committing DEF Sensible
<1>2. row \in Row /\ Subject(t) = t.id
  BY <1>1, TransactionsAssumption DEF RowAfter, Row, Subject
<1>3. GraphRow(row) \in Graph!Row /\ GraphRow(row) # Null /\ row # Null
  BY <1>2, GraphRows, TransactionsAssumption
<1>4. GraphRow(row).owner = GraphUser /\ GraphRow(row).content = Null
  BY DEF GraphRow
<1>5. GraphNodes' = [GraphNodes EXCEPT ![t.id] =
                       Graph!Anchored(GraphRow(row), {GraphNodes[n] : n \in targets}, "placed")]
  BY <1>2, <1>3, GraphNodesCommitted, Placed
<1>6. GraphLinks' = GraphLinks \cup [source : {t.id}, target : targets, label : {"plain"}]
  <2>1. links' = links \cup [source : {t.id}, target : targets]
    BY DEF Commit, AddedLinks, RemovedLinks
  <2>2. GraphLinks' = GraphLinks \cup {GraphLink(l) : l \in [source : {t.id}, target : targets]}
    BY <2>1 DEF GraphLinks
  <2> QED
    BY <2>2, GraphLinksFrom
<1>7. nodes' # nodes
  <2>1. nodes[t.id] = Null /\ nodes'[t.id] = row
    BY <1>1, <1>2 DEF LockInv, TablesOK, Commit, tables, Snapshot
  <2> QED
    BY <1>3, <2>1
<1>8. GraphNotices' = Graph!EdgeNotices(targets, "Link added")
  <2>1. Changes(t) = Once(targets, "Link added")
    BY DEF Changes
  <2> QED
    BY <1>1, <1>7, <2>1, GraphNotified, EdgeMails
<1>9. born' = born \cup {t.id} /\ hooks' = hooks
  BY DEF Commit
<1> HIDE DEF row, targets
<1>10. Graph!CreateNode(Caller, t.id, GraphRow(row), targets, "placed")
  BY <1>1, <1>3, <1>4, <1>5, <1>6, <1>8, <1>9 DEF Graph!CreateNode, GraphNodes, GraphLinks,
     GraphLink, GraphNotices, Mail, Caller, Graph!users
<1> QED
  BY <1>10 DEF row, targets

LEMMA DeleteCommits ==
    ASSUME LinksInv, LockInv, NEW r \in Requests, Commit(r), txn[r].op.do = "Delete"
    PROVE  Graph!Delete(Caller, txn[r].op.on[1])
<1> DEFINE t == txn[r]
           d == t.op.on[1]
           ns == Neighbors(tables, d)
<1>1. d \in t.held /\ d \in NodeIds /\ nodes[d] # Null
  BY Committing, HeldIsCurrent
<1>2. Incident(t.snap, d) = Incident(tables, d)
  BY DeletedLinks
<1>3. /\ GraphNodes[d] # Null
      /\ Graph!CanRead(GraphNodes[d], GraphUser)
      /\ Graph!Allowed(GraphNodes[d], Caller, "Write")
  BY <1>1, GraphNode, GraphRows
<1>4. GraphNodes' = [GraphNodes EXCEPT ![d] = Null]
  BY GraphNodesCommitted DEF Subject, RowAfter
<1>5. GraphLinks' = GraphLinks \ Graph!Incident(d, GraphLinks)
  <2>1. links' = links \ Incident(tables, d)
    BY <1>2 DEF Commit, AddedLinks, RemovedLinks
  <2>2. \A l \in links : l \in Incident(tables, d) <=> GraphLink(l).source = d \/ GraphLink(l).target = d
    BY DEF Incident, tables, GraphLink
  <2>3. Graph!Incident(d, GraphLinks) = {k \in GraphLinks : k.source = d \/ k.target = d}
    BY DEF Graph!Incident
  <2> QED
    BY <2>1, <2>2, <2>3 DEF GraphLinks
<1>6. GraphHooks' = [k \in NodeIds \X {GraphUser} \X {"tag"} |->
                       IF k[1] = d THEN {} ELSE GraphHooks[k]]
  <2>1. hooks' = hooks \ ({d} \cap t.snap.hooks)
    BY DEF Commit
  <2>2. hooks' = hooks \ {d}
    BY <1>1, <2>1, HeldIsCurrent
  <2> HIDE DEF d
  <2> QED
    BY <2>2 DEF GraphHooks
<1>7. nodes' # nodes
  <2>1. nodes'[d] = Null
    BY <1>1 DEF LockInv, TablesOK, Commit, tables, Snapshot, Subject, RowAfter
  <2> QED
    BY <1>1, <2>1
<1>8. GraphNotices' = Graph!Notify(d, GraphNodes[d], Null, {}) \cup
                      Graph!EdgeNotices(Graph!Neighbors(d) \ {d}, "Link removed")
  <2>1. Changes(t) = Once({d}, "deleted") \cup Once(ns, "Link removed")
    BY <1>2 DEF Changes, Neighbors
  <2>2. GraphNotices' = {Mail(c) : c \in Heard(Once({d}, "deleted"))} \cup
                        {Mail(c) : c \in Heard(Once(ns, "Link removed"))}
    <3> HIDE DEF ns, d
    <3> QED
      BY <1>7, <2>1, GraphNotified DEF Heard
  <2>3. Graph!Notify(d, GraphNodes[d], Null, {}) = {Mail(c) : c \in Heard(Once({d}, "deleted"))}
    <3>1. Graph!Changed(GraphNodes[d], Null) \cup {} = {"deleted"}
      BY DEF Graph!Changed
    <3>2. Graph!Notify(d, GraphNodes[d], Null, {}) =
             IF d \in hooks THEN {Mail(<<d, "deleted", 1>>)} ELSE {}
      BY <1>1, <1>3, <3>1, OneMail
    <3>3. Once({d}, "deleted") = {<<d, "deleted", 1>>}
      BY DEF Once
    <3> HIDE DEF d
    <3> QED
      BY <1>1, <3>2, <3>3 DEF Heard
  <2>4. ns \in SUBSET NodeIds
    BY DEF Neighbors, Incident, LockInv, TablesOK, tables, Snapshot
  <2> QED
    BY <2>2, <2>3, <2>4, EdgeMails, GraphNeighbors
<1>9. UNCHANGED born
  BY DEF Commit
<1> HIDE DEF d
<1>10. Graph!Delete(Caller, d)
  BY <1>3, <1>4, <1>5, <1>6, <1>8, <1>9 DEF Graph!Delete, GraphNodes, GraphLinks,
     GraphLink, GraphNotices, Mail, GraphHooks, Graph!HookKeys, Graph!users
<1> QED
  BY <1>10 DEF d

LEMMA LinkCommits ==
    ASSUME LinksInv, LockInv, NEW r \in Requests, Commit(r), txn[r].op.do = "Link"
    PROVE  Graph!LinkNodes(Caller, txn[r].op.on[1], txn[r].op.on[2], "plain", "placed")
<1> DEFINE t == txn[r]
           a == t.op.on[1]
           b == t.op.on[2]
           new == [source |-> a, target |-> b]
<1>1. /\ a # b /\ Elements(t.op.on) = {a, b}
      /\ t.snap.nodes[b] # Null /\ Between(t.snap, a, b) = {}
  BY Committing DEF LinksInv, LinksKnown, Understood, LinkDecided
<1>2. a \in t.held /\ b \in t.held
  <2>1. a \in Elements(t.op.on) /\ b \in Elements(t.op.on)
    BY <1>1
  <2>2. t.op.do \notin {"Create", "Unregister"}
    OBVIOUS
  <2>3. a \in t.held
    BY <2>2, Committing
  <2>4. \/ b \in t.held
        \/ t.snap.nodes[b] = Null
    BY <2>1, NamedLocked
  <2> QED
    BY <1>1, <2>3, <2>4
<1>3. a \in NodeIds /\ b \in NodeIds /\ nodes[a] # Null /\ nodes[b] # Null
  BY <1>2, HeldIsCurrent
<1>4. /\ nodes[a] \in Row /\ nodes[b] \in Row
      /\ GraphNodes[a] = GraphRow(nodes[a]) /\ GraphNodes[b] = GraphRow(nodes[b])
      /\ GraphNodes[a] # Null /\ GraphNodes[b] # Null
      /\ Graph!Allowed(GraphNodes[a], Caller, "Write")
  BY <1>3, GraphNode, GraphRows
<1>5. /\ Graph!Anchored(GraphNodes[a], {GraphNodes[b]}, "placed") = GraphNodes[a]
      /\ Graph!Anchored(GraphNodes[b], {GraphNodes[a]}, "placed") = GraphNodes[b]
  BY <1>4, Placed
<1>6. Graph!Between(a, b) = {} /\ Between(tables, a, b) = {}
  BY <1>1, UnlinkedLinks, GraphBetween
<1>7. /\ links' = links \cup {new}
      /\ nodes' = nodes
      /\ hooks' = hooks
      /\ born' = born
  BY <1>3 DEF Commit, AddedLinks, RemovedLinks, Subject, RowAfter, LockInv, TablesOK, tables,
     Snapshot
<1>8. GraphLinks' = GraphLinks \cup {[source |-> a, target |-> b, label |-> "plain"]}
  <2>1. GraphLink(new) = [source |-> a, target |-> b, label |-> "plain"]
    BY DEF GraphLink
  <2> HIDE DEF new
  <2> QED
    BY <1>7, <2>1 DEF GraphLinks
<1>9. GraphNodes' = [GraphNodes EXCEPT ![a] = GraphNodes[a], ![b] = GraphNodes[b]]
  BY <1>7 DEF GraphNodes
<1>10. links' # links
  <2>1. new \in links => new \in Between(tables, a, b)
    BY DEF Between, tables
  <2> QED
    BY <1>6, <1>7, <2>1
<1>11. GraphNotices' = Graph!Notify(a, GraphNodes[a], GraphNodes[a], {"Link added"}) \cup
                       Graph!Notify(b, GraphNodes[b], GraphNodes[b], {"Link added"})
  <2>1. Changes(t) = Once({a, b}, "Link added")
    BY <1>1 DEF Changes
  <2>2. GraphNotices' = Graph!EdgeNotices({a, b}, "Link added")
    BY <1>3, <1>10, <2>1, GraphNotified, EdgeMails
  <2>3. Graph!EdgeNotices({a, b}, "Link added") =
           UNION {Graph!Notify(m, GraphNodes[m], GraphNodes[m], {"Link added"}) : m \in {a, b}}
    BY DEF Graph!EdgeNotices, GraphNodes
  <2> QED
    BY <2>2, <2>3
<1> HIDE DEF a, b
<1>12. Graph!LinkNodes(Caller, a, b, "plain", "placed")
  BY <1>1, <1>4, <1>5, <1>6, <1>7, <1>8, <1>9, <1>11 DEF Graph!LinkNodes, GraphNodes,
     GraphLinks, GraphLink, GraphNotices, Mail, GraphHooks, Graph!users
<1> QED
  BY <1>12 DEF a, b

\* Nothing to unlink commits nothing.
LEMMA UnlinkCommits ==
    ASSUME LinksInv, LockInv, NEW r \in Requests, Commit(r), txn[r].op.do = "Unlink"
    PROVE  \/ UNCHANGED data
           \/ /\ txn[r].op.on[2] \in NodeIds
              /\ Graph!UnlinkNodes(Caller, txn[r].op.on[1], txn[r].op.on[2])
<1> DEFINE t == txn[r]
           a == t.op.on[1]
           b == t.op.on[2]
           gone == Between(t.snap, a, b)
<1>1. Elements(t.op.on) = {a, b} /\ a \in t.held /\ a \in NodeIds /\ b \in NodeIds
  <2>1. Elements(t.op.on) = {a, b} /\ a \in t.held
    BY Committing DEF LinksInv, LinksKnown, Understood
  <2> QED
    BY <2>1, NamedLocked
<1>2. nodes[a] # Null /\ GraphNodes[a] # Null /\ Graph!Allowed(GraphNodes[a], Caller, "Write")
  BY <1>1, HeldIsCurrent, GraphNode, GraphRows
<1>3. gone = Between(tables, a, b) /\ gone \subseteq links
  BY UnlinkedLinks DEF Between, tables
<1>4. /\ links' = links \ gone
      /\ nodes' = nodes
      /\ hooks' = hooks
      /\ born' = born
      /\ types' = types
  BY <1>1 DEF Commit, AddedLinks, RemovedLinks, Subject, RowAfter, LockInv, TablesOK, tables,
     Snapshot, InsertsType
<1>5. CASE gone = {}
  <2>1. links' = links
    BY <1>4, <1>5
  <2>2. notices' = notices /\ missed' = missed
    BY <1>4, <2>1 DEF Commit
  <2> QED
    BY <1>4, <2>1, <2>2 DEF data
<1>6. CASE gone # {}
  <2>1. links' # links
    BY <1>3, <1>4, <1>6
  <2>2. GraphLinks' = GraphLinks \ Graph!Between(a, b)
    <3>1. \A l \in links : l \in gone <=> GraphLink(l) \in Graph!Between(a, b)
      <4>1. Graph!Between(a, b) = {k \in GraphLinks : Ends(k) = {a, b}}
        BY DEF Graph!Between, GraphLinks, GraphLink, Ends
      <4>3. gone = {l \in links : Ends(l) = {a, b}}
        BY <1>3 DEF Between, tables, Ends
      <4>4. \A l : Ends(GraphLink(l)) = Ends(l)
        BY DEF Ends, GraphLink
      <4> QED
        BY <4>1, <4>3, <4>4 DEF GraphLinks
    <3> QED
      BY <1>4, <3>1 DEF GraphLinks
  <2>3. GraphNotices' = Graph!PairNotices(a, b, "Link removed")
    <3>1. Changes(t) = Once({a, b}, "Link removed") \cup
                       (IF a = b THEN {<<a, "Link removed", 2>>} ELSE {})
      BY <1>1, <1>6 DEF Changes, RemovedLinks
    <3>2. GraphNotices' = {Mail(c) : c \in Heard(Changes(t))}
      BY <2>1, GraphNotified
    <3> HIDE DEF a, b
    <3> QED
      BY <1>1, <3>1, <3>2, PairMails
  <2>4. GraphNodes' = GraphNodes /\ GraphHooks' = GraphHooks /\ Graph!Between(a, b) # {}
    BY <1>3, <1>4, <1>6, GraphBetween DEF GraphNodes, GraphHooks
  <2> HIDE DEF a, b
  <2>5. Graph!UnlinkNodes(Caller, a, b)
    BY <1>2, <1>4, <2>2, <2>3, <2>4 DEF Graph!UnlinkNodes, GraphNodes, GraphLinks,
       GraphLink, GraphNotices, Mail, GraphHooks, Graph!users
  <2> QED
    BY <1>1, <2>5 DEF a, b
<1> QED
  BY <1>5, <1>6

LEMMA RowChanged ==
    ASSUME NEW a \in Row, NEW b \in Row
    PROVE  Graph!Changed(GraphRow(a), GraphRow(b)) =
              (IF a.status # b.status THEN {"status"} ELSE {}) \cup
              (IF a.type # b.type THEN {"meta"} ELSE {})
<1>1. GraphRow(b) # Null
  BY GraphRows
<1>2. Graph!Changed(GraphRow(a), GraphRow(b)) =
         {c \in Graph!Columns : GraphRow(a)[c] # GraphRow(b)[c]}
  BY <1>1 DEF Graph!Changed
<1> QED
  BY <1>2 DEF GraphRow, Graph!Columns

LEMMA EditIsNone ==
    ASSUME NEW row \in Row
    PROVE  /\ \A v : row.status = v => [row EXCEPT !.status = v] = row
           /\ \A v : row.type = v => [row EXCEPT !.type = v] = row
  BY DEF Row

\* Patch and Retype edit one column of a row they hold.  One that sets what is
\* already there commits nothing.
LEMMA EditCommits ==
    ASSUME LinksInv, LockInv, NEW r \in Requests, Commit(r),
           txn[r].op.do \in {"Patch", "Retype"}
    PROVE  LET n == txn[r].op.on[1] IN
           \/ UNCHANGED <<nodes, links, hooks, born, notices, missed>>
           \/ /\ n \in NodeIds
              /\ RowAfter(txn[r]) \in Row
              /\ Graph!Patch(Caller, n, GraphRow(RowAfter(txn[r])))
<1> DEFINE t == txn[r]
           n == t.op.on[1]
           column == IF t.op.do = "Patch" THEN "status" ELSE "meta"
           before == nodes[n]
           after == RowAfter(t)
<1>1. n \in t.held /\ n \in NodeIds /\ before # Null /\ t.snap.nodes[n] = before /\ before \in Row
  BY Committing, HeldIsCurrent, GraphNode
<1>2. /\ t.op.do = "Patch" => t.op.value \in Statuses /\ after = [before EXCEPT !.status = t.op.value]
      /\ t.op.do = "Retype" => t.op.value \in Types /\ after = [before EXCEPT !.type = t.op.value]
  BY <1>1, Committing DEF RowAfter, Sensible
<1>3. /\ nodes' = [nodes EXCEPT ![n] = after]
      /\ links' = links
      /\ hooks' = hooks
      /\ born' = born
  BY DEF Commit, AddedLinks, RemovedLinks, Subject
<1>4. after \in Row /\ (after = before \/ Graph!Changed(GraphRow(before), GraphRow(after)) = {column})
  <2> HIDE DEF after, before, n
  <2>1. after \in Row
    BY <1>1, <1>2 DEF Row
  <2>2. \/ after = before
        \/ /\ t.op.do = "Patch" => before.status # after.status /\ before.type = after.type
           /\ t.op.do = "Retype" => before.status = after.status /\ before.type # after.type
    BY <1>1, <1>2 DEF Row
  <2> QED
    BY <1>1, <2>1, <2>2, RowChanged
<1>5. CASE after = before
  <2>1. nodes' = nodes
    BY <1>1, <1>3, <1>5 DEF LockInv, TablesOK, tables, Snapshot
  <2>2. notices' = notices /\ missed' = missed
    BY <1>3, <2>1 DEF Commit
  <2> QED
    BY <1>3, <2>1, <2>2
<1>6. CASE after # before
  <2>1. Graph!Changed(GraphRow(before), GraphRow(after)) = {column}
    BY <1>4, <1>6
  <2>2. nodes' # nodes
    BY <1>1, <1>3, <1>6 DEF LockInv, TablesOK, tables, Snapshot
  <2>3. GraphNodes[n] = GraphRow(before) /\ GraphNodes[n] # Null
    BY <1>1, GraphNode
  <2>4. GraphNodes' = [GraphNodes EXCEPT ![n] = GraphRow(after)]
    BY <1>4, GraphNodesCommitted, TransactionsAssumption DEF Subject
  <2>5. GraphNotices' = Graph!Notify(n, GraphNodes[n], GraphRow(after), {})
    <3>1. Changes(t) = {<<n, column, 1>>}
      <4>1. CASE t.op.do = "Patch"
        <5>1. before.status # t.op.value
          <6> HIDE DEF before, after
          <6> QED
            BY <1>1, <1>2, <1>6, <4>1, EditIsNone
        <5> QED
          BY <1>1, <4>1, <5>1 DEF Changes, Once
      <4>2. CASE t.op.do = "Retype"
        <5>1. before.type # t.op.value
          <6> HIDE DEF before, after
          <6> QED
            BY <1>1, <1>2, <1>6, <4>2, EditIsNone
        <5> QED
          BY <1>1, <4>2, <5>1 DEF Changes, Once
      <4> QED
        BY <4>1, <4>2
    <3>2. GraphNotices' = {Mail(c) : c \in Heard({<<n, column, 1>>})}
      BY <2>2, <3>1, GraphNotified
    <3>3. /\ Graph!CanRead(GraphNodes[n], GraphUser)
          /\ Graph!CanRead(GraphRow(after), GraphUser)
          /\ GraphRow(after) # Null
      BY <1>1, <1>4, <2>3, GraphRows
    <3>4. Graph!Changed(GraphNodes[n], GraphRow(after)) \cup {} = {column} /\ column # "deleted"
      BY <2>1, <2>3
    <3> HIDE DEF column, after, n
    <3>5. Graph!Notify(n, GraphNodes[n], GraphRow(after), {}) =
             IF n \in hooks THEN {Mail(<<n, column, 1>>)} ELSE {}
      BY <1>1, <2>3, <3>3, <3>4, OneMail
    <3> QED
      BY <1>1, <3>2, <3>5 DEF Heard
  <2>6. Graph!PatchGate(GraphNodes[n], Caller, {column})
    BY <1>1, <2>3, GraphRows DEF Graph!PatchGate
  <2>7. GraphRow(after) \in Graph!Row /\ GraphRow(after).content = GraphNodes[n].content
    <3>1. \A row : GraphRow(row).content = Null
      BY DEF GraphRow
    <3> HIDE DEF after, before
    <3> QED
      BY <1>4, <2>3, <3>1, GraphRows
  <2>8. Graph!Changed(GraphNodes[n], GraphRow(after)) = {column}
    BY <2>1, <2>3
  <2>9. GraphHooks' = GraphHooks /\ GraphLinks' = GraphLinks
    BY <1>3 DEF GraphHooks, GraphLinks
  <2> HIDE DEF n, after, column
  <2>10. Graph!Patch(Caller, n, GraphRow(after))
    BY <1>3, <2>3, <2>4, <2>5, <2>6, <2>7, <2>8, <2>9 DEF Graph!Patch, GraphNodes, GraphLinks,
       GraphLink, GraphNotices, Mail, GraphHooks, Graph!users
  <2> QED
    BY <1>1, <1>4, <2>10 DEF n, after
<1> QED
  BY <1>5, <1>6

LEMMA HookKey ==
    ASSUME NEW k \in NodeIds \X {GraphUser} \X {"tag"}, NEW n
    PROVE  k = <<n, GraphUser, "tag">> <=> k[1] = n
  OBVIOUS

LEMMA GraphHookSet ==
    ASSUME NEW n \in NodeIds, NEW hooked \in BOOLEAN,
           \A m \in NodeIds : m \in hooks' <=> IF m = n THEN hooked ELSE m \in hooks
    PROVE  GraphHooks' = [GraphHooks EXCEPT ![<<n, GraphUser, "tag">>] =
                            IF hooked THEN Graph!Kinds ELSE {}]
<1> DEFINE keys == NodeIds \X {GraphUser} \X {"tag"}
           key == <<n, GraphUser, "tag">>
<1>1. \A k \in keys : k[1] \in NodeIds /\ (k = key <=> k[1] = n)
  BY HookKey
<1>2. GraphHooks = [k \in keys |-> IF k[1] \in hooks THEN Graph!Kinds ELSE {}]
  BY DEF GraphHooks, Graph!Kinds
<1>3. GraphHooks' = [k \in keys |-> IF k[1] \in hooks' THEN Graph!Kinds ELSE {}]
  BY DEF GraphHooks, Graph!Kinds
<1> HIDE DEF keys, key
<1>4. [GraphHooks EXCEPT ![key] = IF hooked THEN Graph!Kinds ELSE {}] =
         [k \in keys |-> IF k = key THEN IF hooked THEN Graph!Kinds ELSE {}
                         ELSE IF k[1] \in hooks THEN Graph!Kinds ELSE {}]
  BY <1>2
<1>5. \A k \in keys : (IF k[1] \in hooks' THEN Graph!Kinds ELSE {}) =
                      IF k = key THEN IF hooked THEN Graph!Kinds ELSE {}
                      ELSE IF k[1] \in hooks THEN Graph!Kinds ELSE {}
  BY <1>1
<1> QED
  BY <1>3, <1>4, <1>5 DEF key

\* Neither of the handlers of hooks tells anybody.
LEMMA HookCommits ==
    ASSUME LinksInv, LockInv, NEW r \in Requests, Commit(r),
           txn[r].op.do \in {"Register", "Unregister"}
    PROVE  LET n == txn[r].op.on[1] IN
           \/ UNCHANGED <<nodes, links, hooks, born, notices, missed>>
           \/ /\ n \in NodeIds
              /\ \/ Graph!RegisterHook(Caller, n, GraphUser, "tag", {})
                 \/ Graph!DeleteHook(Caller, n, GraphUser, "tag")
<1> DEFINE t == txn[r]
           n == t.op.on[1]
<1>1. /\ n \in NodeIds
      /\ t.op.do = "Register" => n \in t.held
  BY Committing
<1>2. /\ nodes' = nodes
      /\ links' = links
      /\ hooks' = IF t.op.do = "Register" THEN hooks \cup {n}
                  ELSE hooks \ ({n} \cap t.snap.hooks)
      /\ born' = born
  BY <1>1 DEF Commit, AddedLinks, RemovedLinks, Subject, RowAfter, LockInv, TablesOK, tables,
     Snapshot
<1>3. CASE hooks' = hooks
  <2>1. notices' = notices /\ missed' = missed
    BY <1>2, <1>3 DEF Commit
  <2> QED
    BY <1>2, <1>3, <2>1
<1>4. CASE hooks' # hooks
  <2>1. GraphNotices' = {}
    <3>1. Changes(t) = {}
      BY DEF Changes
    <3> QED
      BY <1>4, <3>1, GraphNotified DEF Heard
  <2>2. GraphNodes' = GraphNodes /\ GraphLinks' = GraphLinks
    BY <1>2 DEF GraphNodes, GraphLinks
  <2> HIDE DEF n
  <2>3. CASE t.op.do = "Register"
    <3>1. GraphHooks' = [GraphHooks EXCEPT ![<<n, GraphUser, "tag">>] = Graph!Kinds]
      <4>1. \A m \in NodeIds : m \in hooks' <=> IF m = n THEN TRUE ELSE m \in hooks
        BY <1>2, <2>3
      <4> QED
        BY <1>1, <4>1, GraphHookSet DEF n
    <3>2. Graph!CanRead(GraphNodes[n], GraphUser)
      BY <1>1, <2>3, HeldIsCurrent, GraphNode, GraphRows
    <3>3. Graph!RegisterHook(Caller, n, GraphUser, "tag", {})
      BY <1>2, <2>1, <2>2, <3>1, <3>2 DEF Graph!RegisterHook, GraphNodes, GraphLinks,
         GraphLink, GraphNotices, Mail, GraphHooks, Graph!users, Caller
    <3> QED
      BY <1>1, <3>3 DEF n
  <2>4. CASE t.op.do = "Unregister"
    <3>1. GraphHooks' = [GraphHooks EXCEPT ![<<n, GraphUser, "tag">>] = {}]
      <4>1. \A m \in NodeIds : m \in hooks' <=> IF m = n THEN FALSE ELSE m \in hooks
        <5>1. hooks' = hooks \ ({n} \cap t.snap.hooks) /\ n \in t.snap.hooks
          BY <1>2, <1>4, <2>4
        <5> QED
          BY <5>1
      <4> QED
        BY <1>1, <4>1, GraphHookSet DEF n
    <3>2. Graph!DeleteHook(Caller, n, GraphUser, "tag")
      BY <1>2, <2>1, <2>2, <3>1 DEF Graph!DeleteHook, GraphNodes, GraphLinks,
         GraphLink, GraphNotices, Mail, GraphHooks, Graph!users, Caller
    <3> QED
      BY <1>1, <3>2 DEF n
  <2> QED
    BY <2>3, <2>4
<1> QED
  BY <1>3, <1>4

-----------------------------------------------------------------------------
(* The refinement                                                          *)

LEMMA GraphStutter ==
    UNCHANGED <<nodes, links, hooks, born, notices, missed>> => UNCHANGED Graph!vars
<1> SUFFICES ASSUME UNCHANGED <<nodes, links, hooks, born, notices, missed>>
             PROVE  UNCHANGED Graph!vars
  OBVIOUS
<1>1. /\ GraphNodes' = GraphNodes /\ GraphLinks' = GraphLinks /\ GraphHooks' = GraphHooks
      /\ GraphNotices' = GraphNotices /\ born' = born
  BY DEF GraphNodes, GraphLinks, GraphHooks, GraphNotices
<1> QED
  BY <1>1 DEF Graph!vars, GraphNodes, GraphLinks, GraphLink, GraphHooks, GraphNotices, Mail

LEMMA NodeSteps ==
    ASSUME NEW n \in NodeIds,
           \/ Graph!Delete(Caller, n)
           \/ \E new \in Graph!Row : Graph!Patch(Caller, n, new)
    PROVE  Graph!By(Caller)
  BY Zenon DEF Graph!By

LEMMA PairSteps ==
    ASSUME NEW m \in NodeIds, NEW n \in NodeIds, Graph!UnlinkNodes(Caller, m, n)
    PROVE  Graph!By(Caller)
  BY Zenon DEF Graph!By

LEMMA CommitsAreSteps ==
    ASSUME LinksInv, LockInv, NEW r \in Requests, Commit(r)
    PROVE  Graph!Next \/ UNCHANGED Graph!vars
<1> DEFINE t == txn[r]
           n == t.op.on[1]
<1>1. /\ Elements(t.op.on) \subseteq NodeIds
      /\ t.op.do # "Create" => n \in NodeIds
      /\ t.op.do = "Create" => t.id \in NodeIds /\ RowAfter(t) \in Row
  BY Committing, TransactionsAssumption DEF Sensible, RowAfter, Row
<1>2. Graph!By(Caller) => Graph!Next
  BY DEF Graph!Next, Caller
<1>3. CASE t.op.do = "Create"
  <2>1. GraphRow(RowAfter(t)) \in Graph!Row
    BY <1>1, <1>3, GraphRows
  <2>2. Graph!By(Caller)
    BY <1>1, <1>3, <2>1, CreateCommits DEF Graph!By
  <2> QED
    BY <1>2, <2>2
<1>4. CASE t.op.do = "Delete"
  <2>1. Graph!Delete(Caller, n)
    BY <1>4, DeleteCommits
  <2>2. PICK m \in NodeIds : m = n
    BY <1>1, <1>4
  <2>3. Graph!Delete(Caller, m)
    BY <2>1, <2>2 DEF Graph!Delete
  <2>4. Graph!By(Caller)
    BY <2>3, NodeSteps
  <2> QED
    BY <1>2, <2>4
<1>5. CASE t.op.do = "Link"
  <2>1. t.op.on[2] \in NodeIds
    BY <1>1, <1>5, Committing DEF Sensible
  <2> QED
    BY <1>1, <1>2, <1>5, <2>1, LinkCommits DEF Graph!By
<1>6. CASE t.op.do = "Unlink"
  <2>1. UNCHANGED data => UNCHANGED <<nodes, links, hooks, born, notices, missed>>
    BY DEF data
  <2> QED
    <3>1. CASE UNCHANGED data
      BY <2>1, <3>1, GraphStutter
    <3>2. CASE t.op.on[2] \in NodeIds /\ Graph!UnlinkNodes(Caller, n, t.op.on[2])
      <4>1. PICK a \in NodeIds, b \in NodeIds : a = n /\ b = t.op.on[2]
        BY <1>1, <1>6, <3>2
      <4>2. Graph!UnlinkNodes(Caller, a, b)
        BY <3>2, <4>1 DEF Graph!UnlinkNodes
      <4> QED
        BY <1>2, <4>2, PairSteps
    <3> QED
      BY <1>6, <3>1, <3>2, UnlinkCommits
<1>7. CASE t.op.do \in {"Patch", "Retype"}
  <2>1. RowAfter(t) \in Row => GraphRow(RowAfter(t)) \in Graph!Row
    BY GraphRows
  <2> QED
    <3>1. CASE UNCHANGED <<nodes, links, hooks, born, notices, missed>>
      BY <3>1, GraphStutter
    <3>2. CASE RowAfter(t) \in Row /\ Graph!Patch(Caller, n, GraphRow(RowAfter(t)))
      <4>1. PICK m \in NodeIds, new \in Graph!Row : m = n /\ new = GraphRow(RowAfter(t))
        BY <1>1, <1>7, <2>1, <3>2
      <4>2. Graph!Patch(Caller, m, new)
        BY <3>2, <4>1 DEF Graph!Patch
      <4> QED
        BY <1>2, <4>2, NodeSteps
    <3> QED
      BY <1>7, <3>1, <3>2, EditCommits
<1>8. CASE t.op.do \in {"Register", "Unregister"}
  BY <1>2, <1>8, HookCommits, GraphStutter DEF Graph!By
<1>9. t.op.do \in {"Create", "Delete", "Link", "Unlink", "Patch", "Retype",
                   "Register", "Unregister"}
  BY Committing DEF LinksInv, LinksKnown, Understood
<1> QED
  BY <1>3, <1>4, <1>5, <1>6, <1>7, <1>8, <1>9

LEMMA StepsAreSteps ==
    LinksInv /\ LockInv /\ [Next]_vars => [Graph!Next]_(Graph!vars)
<1> SUFFICES ASSUME LinksInv, LockInv, [Next]_vars
             PROVE  Graph!Next \/ UNCHANGED Graph!vars
  OBVIOUS
<1>1. ASSUME NEW r \in Requests, Commit(r) PROVE Graph!Next \/ UNCHANGED Graph!vars
  BY <1>1, CommitsAreSteps
<1>2. ASSUME NEW r \in Requests, Step(r) \/ Fail(r), ~Commit(r) PROVE UNCHANGED data
  BY <1>2 DEF Step, LockNode, LockNeighbors, Write, CommitFails, DeadlockAbort, Fail, Rollback
<1>3. ASSUME NEW r \in Requests, NEW q \in Requestable, Begin(r, q) PROVE UNCHANGED data
  BY <1>3 DEF Begin
<1>4. UNCHANGED vars => UNCHANGED data
  BY DEF vars, data
<1>5. UNCHANGED data => UNCHANGED Graph!vars
  BY GraphStutter DEF data
<1> QED
  BY <1>1, <1>2, <1>3, <1>4, <1>5 DEF Next

\* NodeService as interleaved transactions implements NodeGraph: every commit
\* is, at its moment, the one step of NodeGraph its handler describes, with the
\* messages of that step, and nothing but a commit is a step at all.
THEOREM AtomicGraphHolds == Spec => AtomicGraph
<1>1. Init => LockInv /\ LinksInv
  BY LockInvInit, LinksInvInit
<1>2. LockInv /\ LinksInv /\ [Next]_vars => (LockInv /\ LinksInv)'
  BY LockInvNext, LinksInvNext
<1>3. Spec => [](LockInv /\ LinksInv)
  BY <1>1, <1>2, PTL DEF Spec
<1>4. Init => Graph!Init
  BY GraphInit
<1>5. LockInv /\ LinksInv /\ [Next]_vars => [Graph!Next]_(Graph!vars)
  BY StepsAreSteps
<1> QED
  BY <1>3, <1>4, <1>5, PTL DEF Spec, AtomicGraph, Graph!Spec

================================================================================
