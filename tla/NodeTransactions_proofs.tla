------------------------ MODULE NodeTransactions_proofs ------------------------
(***************************************************************************)
(* Proofs about NodeTransactions, for any number of requests and nodes.    *)
(***************************************************************************)
EXTENDS NodeTransactions, TLAPS, WellFoundedInduction

Fields(t) == t = [phase |-> t.phase, op |-> t.op, snap |-> t.snap, todo |-> t.todo,
                  held |-> t.held, changed |-> t.changed, id |-> t.id]

\* A request names ids a node may have and gives a value its handler takes.
Sensible(q) ==
    /\ Elements(q.on) \subseteq NodeIds
    /\ q.do # "Create" => q.on[1] \in Elements(q.on)
    /\ q.do = "Link" => q.on[2] \in Elements(q.on)
    /\ q.do \in {"Create", "Retype"} => q.value \in Types
    /\ q.do = "Patch" => q.value \in Statuses

\* A snapshot shows no node that was never committed, and hooks of nodes it shows.
Visible(t) ==
    /\ \A n \in NodeIds : t.snap.nodes[n] # Null => n \in born
    /\ \A n \in t.snap.hooks : t.snap.nodes[n] # Null

\* What nobody has changed since the snapshot is as the snapshot shows it.
Current(t) ==
    \A n \in NodeIds \ t.changed :
        t.snap.nodes[n] # Null => /\ nodes[n] = t.snap.nodes[n]
                                  /\ n \in hooks <=> n \in t.snap.hooks

\* A held row existed and has not changed.  A named row is locked unless it did
\* not exist or its turn is still to come.
Locked(t) ==
    /\ \A n \in t.held : n \notin t.changed /\ t.snap.nodes[n] # Null
    /\ \A n \in Elements(t.op.on) :
          \/ t.snap.nodes[n] = Null
          \/ n \in t.held
          \/ t.phase = "locking" /\ n \in t.todo

\* The first round of locks goes upwards.
Ascending(t) == t.phase = "locking" => \A m \in t.held, n \in t.todo : m < n

\* A handler that got to its commit has an id nobody has used, or its row.
Decided(t) ==
    t.phase = "written" =>
        IF t.op.do = "Create" THEN t.id \in (1..lastId) \ born
        ELSE t.op.do # "Unregister" => t.snap.nodes[t.op.on[1]] # Null

TransactionOK(r) ==
    /\ TransactionTypeOK(txn[r])
    /\ Active(r) => /\ Fields(txn[r])
                    /\ Sensible(txn[r].op)
                    /\ Visible(txn[r])
                    /\ Current(txn[r])
                    /\ Locked(txn[r])
                    /\ Ascending(txn[r])
                    /\ Decided(txn[r])

Creating(r) == txn[r].phase = "written" /\ txn[r].op.do = "Create"

\* Two requests hold no row in common and create no node in common.
Apart(r, o) ==
    /\ txn[r].held \cap txn[o].held = {}
    /\ Creating(r) /\ Creating(o) => txn[r].id # txn[o].id

TablesOK ==
    /\ tables \in Snapshot
    /\ lastId \in 0..MaxNode
    /\ born \subseteq 1..lastId
    /\ \A n \in NodeIds : nodes[n] # Null => n \in born
    /\ \A n \in hooks : nodes[n] # Null

LockInv ==
    /\ TablesOK
    /\ DOMAIN txn = Requests
    /\ \A r \in Requests : TransactionOK(r)
    /\ \A r \in Requests : \A o \in Requests \ {r} : Apart(r, o)

-----------------------------------------------------------------------------
(* What the invariant says                                                 *)

LEMMA LockInvTypes == LockInv => TypeOK
  BY TransactionsAssumption DEF LockInv, TablesOK, TypeOK, TransactionOK, NodeIds

LEMMA LockInvProtects == LockInv => LocksProtectSnapshots
<1> SUFFICES ASSUME LockInv, NEW r \in Requests, Active(r)
             PROVE  /\ \A o \in Requests \ {r} : txn[r].held \cap txn[o].held = {}
                    /\ \A n \in txn[r].held : /\ nodes[n] = txn[r].snap.nodes[n]
                                              /\ n \in hooks <=> n \in txn[r].snap.hooks
  BY DEF LocksProtectSnapshots
<1>1. txn[r].phase \in Running /\ txn[r] # Idle
  BY DEF Active, Idle, Running
<1>2. txn[r].held \subseteq NodeIds /\ Current(txn[r]) /\ Locked(txn[r])
  BY <1>1 DEF LockInv, TransactionOK, TransactionTypeOK
<1> QED
  BY <1>2 DEF LockInv, Apart, Current, Locked

LEMMA Smallest ==
    ASSUME NEW T \in SUBSET Nat, T # {}
    PROVE  \E n \in T : \A m \in T : n <= m
<1>1. PICK n \in T : \A m \in T : <<m, n>> \notin OpToRel(<, Nat)
  BY WFMin, NatLessThanWellFounded, Zenon
<1>2. \A m \in T : <<m, n>> \in Nat \X Nat
  OBVIOUS
<1>3. \A m \in T : ~(m < n)
  BY <1>1, <1>2, Zenon DEF OpToRel
<1> QED
  BY <1>3

LEMMA BornIds == LockInv => born \subseteq NodeIds
  BY TransactionsAssumption DEF LockInv, TablesOK, NodeIds

\* A request that waits wants the smallest of what it still has to lock.
LEMMA WantedIsNext ==
    ASSUME LockInv, NEW r \in Requests, Waiting(r)
    PROVE  /\ Wanted(r) \in txn[r].todo
           /\ \A m \in txn[r].todo : Wanted(r) <= m
           /\ Wanted(r) \in NodeIds
<1>1. txn[r] # Idle /\ txn[r].phase \in Running
  BY DEF Waiting, Idle, Running
<1>2. txn[r].todo \subseteq NodeIds /\ NodeIds \subseteq Nat
  BY <1>1 DEF LockInv, TransactionOK, TransactionTypeOK, NodeIds
<1>3. \E n \in txn[r].todo : \A m \in txn[r].todo : n <= m
  BY <1>2, Smallest DEF Waiting
<1> QED
  BY <1>2, <1>3 DEF Wanted, NextLock

\* In its first round a request wants what is above all it holds: the one of a
\* cycle that wants the most waits for nobody who is in his first round.
LEMMA LockInvOrders == LockInv => OnlyDeletionsDeadlock
<1> SUFFICES ASSUME LockInv, NEW S \in SUBSET Requests, Deadlocked(S),
                    \A r \in S : txn[r].phase # "neighbors"
             PROVE  FALSE
  BY DEF OnlyDeletionsDeadlock
<1> DEFINE T == {MaxNode - Wanted(r) : r \in S}
<1>1. \A r \in S : /\ Waiting(r)
                   /\ Wanted(r) \in txn[r].todo
                   /\ Wanted(r) \in NodeIds
                   /\ \E o \in S : Wanted(r) \in txn[o].held
  BY WantedIsNext DEF Deadlocked, Blocked
<1>2. T \in SUBSET Nat /\ T # {}
  <2>1. S # {}
    BY DEF Deadlocked
  <2>2. \A n \in NodeIds : MaxNode - n \in Nat
    BY TransactionsAssumption DEF NodeIds
  <2> QED
    BY <1>1, <2>1, <2>2
<1>3. PICK r \in S : \A o \in S : MaxNode - Wanted(r) <= MaxNode - Wanted(o)
  <2>1. \E m \in T : \A k \in T : m <= k
    <3> HIDE DEF T
    <3> QED
      BY <1>2, Smallest
  <2> QED
    BY <2>1
<1>4. PICK o \in S : Wanted(r) \in txn[o].held
  BY <1>1
<1>5. Wanted(r) < Wanted(o)
  <2>1. txn[o].phase = "locking" /\ txn[o] # Idle
    BY <1>1 DEF Waiting, Idle
  <2>2. Ascending(txn[o])
    BY <2>1 DEF LockInv, TransactionOK, Active, Running
  <2> QED
    BY <1>1, <1>4, <2>1, <2>2 DEF Ascending
<1> QED
  BY <1>1, <1>3, <1>5, TransactionsAssumption DEF NodeIds

-----------------------------------------------------------------------------
(* What a request asks                                                     *)

LEMMA RequestsSensible ==
    ASSUME NEW q \in Requestable
    PROVE  /\ Sensible(q)
           /\ q.do \in {"Create", "Delete", "Link", "Unlink", "Patch", "Retype",
                        "Register", "Unregister"}
<1>1. CASE q \in [do : {"Create"}, on : {<<>>} \cup Single \cup Couples, value : Types]
  <2>1. Elements(q.on) \subseteq NodeIds
    BY <1>1 DEF Elements, Single, Couples, Pairs
  <2> QED
    BY <1>1, <2>1 DEF Sensible
<1>2. CASE q \in [do : {"Retype"}, on : Single, value : Types]
  BY <1>2 DEF Sensible, Elements, Single
<1>3. CASE q \in [do : {"Patch"}, on : Single, value : Statuses]
  BY <1>3 DEF Sensible, Elements, Single
<1>4. CASE q \in [do : {"Delete", "Register", "Unregister"}, on : Single, value : {Null}]
  BY <1>4 DEF Sensible, Elements, Single
<1>5. CASE q \in [do : {"Link"}, on : Couples, value : {Null}] \cup
                 [do : {"Unlink"}, on : Pairs, value : {Null}]
  BY <1>5 DEF Sensible, Elements, Couples, Pairs
<1> QED
  BY <1>1, <1>2, <1>3, <1>4, <1>5 DEF Requestable

-----------------------------------------------------------------------------
(* Steps that leave the tables alone                                       *)

LEMMA Assembled ==
    ASSUME NEW p, NEW o, NEW s, NEW d, NEW h, NEW c, NEW i,
           NEW u \in [phase : {p}, op : {o}, snap : {s}, todo : {d}, held : {h},
                     changed : {c}, id : {i}]
    PROVE  u = [phase |-> p, op |-> o, snap |-> s, todo |-> d, held |-> h, changed |-> c,
                id |-> i]
  OBVIOUS

\* A record with some of its fields replaced, written in full.
LEMMA EditedLocks ==
    ASSUME NEW t, Fields(t), NEW todo, NEW held
    PROVE  [t EXCEPT !.todo = todo, !.held = held] =
           [phase |-> t.phase, op |-> t.op, snap |-> t.snap, todo |-> todo,
            held |-> held, changed |-> t.changed, id |-> t.id]
<1> DEFINE p == t.phase
           o == t.op
           s == t.snap
           d == t.todo
           h == t.held
           c == t.changed
           i == t.id
           u == [t EXCEPT !.todo = todo, !.held = held]
<1>1. t = [phase |-> p, op |-> o, snap |-> s, todo |-> d,
           held |-> h, changed |-> c, id |-> i]
  BY DEF Fields
<1> HIDE DEF p, o, s, d, h, c, i
<1>2. u \in [phase : {p}, op : {o}, snap : {s}, todo : {todo},
             held : {held}, changed : {c}, id : {i}]
  BY <1>1
<1> HIDE DEF u
<1>3. u = [phase |-> p, op |-> o, snap |-> s, todo |-> todo,
           held |-> held, changed |-> c, id |-> i]
  BY <1>2, Assembled
<1> QED
  BY <1>3 DEF u, p, o, s, d, h, c, i

LEMMA EditedNeighbors ==
    ASSUME NEW t, Fields(t), NEW phase, NEW todo
    PROVE  [t EXCEPT !.phase = phase, !.todo = todo] =
           [phase |-> phase, op |-> t.op, snap |-> t.snap, todo |-> todo,
            held |-> t.held, changed |-> t.changed, id |-> t.id]
<1> DEFINE p == t.phase
           o == t.op
           s == t.snap
           d == t.todo
           h == t.held
           c == t.changed
           i == t.id
           u == [t EXCEPT !.phase = phase, !.todo = todo]
<1>1. t = [phase |-> p, op |-> o, snap |-> s, todo |-> d,
           held |-> h, changed |-> c, id |-> i]
  BY DEF Fields
<1> HIDE DEF p, o, s, d, h, c, i
<1>2. u \in [phase : {phase}, op : {o}, snap : {s}, todo : {todo},
             held : {h}, changed : {c}, id : {i}]
  BY <1>1
<1> HIDE DEF u
<1>3. u = [phase |-> phase, op |-> o, snap |-> s, todo |-> todo,
           held |-> h, changed |-> c, id |-> i]
  BY <1>2, Assembled
<1> QED
  BY <1>3 DEF u, p, o, s, d, h, c, i

LEMMA EditedWritten ==
    ASSUME NEW t, Fields(t), NEW phase, NEW id
    PROVE  [t EXCEPT !.phase = phase, !.id = id] =
           [phase |-> phase, op |-> t.op, snap |-> t.snap, todo |-> t.todo,
            held |-> t.held, changed |-> t.changed, id |-> id]
<1> DEFINE p == t.phase
           o == t.op
           s == t.snap
           d == t.todo
           h == t.held
           c == t.changed
           i == t.id
           u == [t EXCEPT !.phase = phase, !.id = id]
<1>1. t = [phase |-> p, op |-> o, snap |-> s, todo |-> d,
           held |-> h, changed |-> c, id |-> i]
  BY DEF Fields
<1> HIDE DEF p, o, s, d, h, c, i
<1>2. u \in [phase : {phase}, op : {o}, snap : {s}, todo : {d},
             held : {h}, changed : {c}, id : {id}]
  BY <1>1
<1> HIDE DEF u
<1>3. u = [phase |-> phase, op |-> o, snap |-> s, todo |-> d,
           held |-> h, changed |-> c, id |-> id]
  BY <1>2, Assembled
<1> QED
  BY <1>3 DEF u, p, o, s, d, h, c, i

LEMMA EditedChanged ==
    ASSUME NEW t, Fields(t), NEW changed
    PROVE  [t EXCEPT !.changed = changed] =
           [phase |-> t.phase, op |-> t.op, snap |-> t.snap, todo |-> t.todo,
            held |-> t.held, changed |-> changed, id |-> t.id]
<1> DEFINE p == t.phase
           o == t.op
           s == t.snap
           d == t.todo
           h == t.held
           c == t.changed
           i == t.id
           u == [t EXCEPT !.changed = changed]
<1>1. t = [phase |-> p, op |-> o, snap |-> s, todo |-> d,
           held |-> h, changed |-> c, id |-> i]
  BY DEF Fields
<1> HIDE DEF p, o, s, d, h, c, i
<1>2. u \in [phase : {p}, op : {o}, snap : {s}, todo : {d},
             held : {h}, changed : {changed}, id : {i}]
  BY <1>1
<1> HIDE DEF u
<1>3. u = [phase |-> p, op |-> o, snap |-> s, todo |-> d,
           held |-> h, changed |-> changed, id |-> i]
  BY <1>2, Assembled
<1> QED
  BY <1>3 DEF u, p, o, s, d, h, c, i

\* A request that a step does not touch, while the tables stay.
LEMMA Untouched ==
    ASSUME LockInv, NEW o \in Requests, UNCHANGED data, txn'[o] = txn[o],
           lastId' \in lastId..MaxNode
    PROVE  TransactionOK(o)'
<1>1. TransactionOK(o)
  BY DEF LockInv
<1>2. Active(o) => Decided(txn[o])'
  <2>1. lastId \in 0..MaxNode /\ MaxNode \in Nat
    BY TransactionsAssumption DEF LockInv, TablesOK
  <2>2. (1..lastId) \subseteq 1..lastId'
    BY <2>1
  <2> QED
    BY <1>1, <2>2 DEF TransactionOK, Decided, data
<1>3. TransactionTypeOK(txn[o])' /\ (Active(o)' <=> Active(o))
  BY <1>1 DEF TransactionOK, TransactionTypeOK, Active
<1>4. Active(o) => Fields(txn[o])' /\ Locked(txn[o])' /\ Ascending(txn[o])'
  BY <1>1 DEF TransactionOK, Fields, Locked, Ascending
<1>5. Active(o) => Sensible(txn[o].op)'
  BY <1>1 DEF TransactionOK, Sensible, data
<1>6. Active(o) => Visible(txn[o])' /\ Current(txn[o])'
  BY <1>1 DEF TransactionOK, Visible, Current, data
<1> QED
  BY <1>2, <1>3, <1>4, <1>5, <1>6 DEF TransactionOK

\* A step of r that commits nothing concerns r alone.
LEMMA OwnStep ==
    ASSUME LockInv, NEW r \in Requests, UNCHANGED data,
           lastId' \in lastId..MaxNode,
           txn' = [txn EXCEPT ![r] = txn'[r]],
           TransactionOK(r)',
           \A o \in Requests \ {r} : Apart(r, o)'
    PROVE  LockInv'
<1>1. TablesOK'
  BY TransactionsAssumption DEF LockInv, TablesOK, data, tables, Snapshot
<1>2. DOMAIN txn' = Requests
  BY DEF LockInv
<1>3. ASSUME NEW o \in Requests \ {r} PROVE TransactionOK(o)'
  <2>1. txn'[o] = txn[o]
    BY DEF LockInv
  <2> QED
    BY <2>1, Untouched
<1>4. ASSUME NEW o \in Requests \ {r}, NEW p \in Requests \ {o} PROVE Apart(o, p)'
  <2>1. CASE p = r
    BY <2>1 DEF Apart, Creating
  <2>2. CASE p # r
    BY <2>2 DEF LockInv, Apart, Creating
  <2> QED
    BY <2>1, <2>2
<1> QED
  BY <1>1, <1>2, <1>3, <1>4 DEF LockInv

LEMMA RollbackStep ==
    ASSUME LockInv, NEW r \in Requests, Rollback(r)
    PROVE  LockInv'
<1>1. txn'[r] = Idle /\ txn' = [txn EXCEPT ![r] = txn'[r]]
  BY DEF LockInv, Rollback
<1>2. TransactionOK(r)'
  BY <1>1 DEF TransactionOK, TransactionTypeOK, Active, Idle, Running
<1>3. \A o \in Requests \ {r} : Apart(r, o)'
  BY <1>1 DEF Apart, Creating, Idle
<1>4. UNCHANGED data /\ lastId' \in lastId..MaxNode
  BY TransactionsAssumption DEF LockInv, TablesOK, Rollback
<1> QED
  BY <1>1, <1>2, <1>3, <1>4, OwnStep

LEMMA BeginStep ==
    ASSUME LockInv, NEW r \in Requests, NEW q \in Requestable, Begin(r, q)
    PROVE  LockInv'
<1> DEFINE t == [phase |-> "locking", op |-> q, snap |-> tables, todo |-> NamedNodes(q),
                 held |-> {}, changed |-> {}, id |-> 0]
<1>1. txn'[r] = t /\ txn' = [txn EXCEPT ![r] = txn'[r]]
  BY DEF LockInv, Begin
<1>2. UNCHANGED data /\ lastId' \in lastId..MaxNode /\ UNCHANGED lastId
  BY TransactionsAssumption DEF LockInv, TablesOK, Begin
<1>3. TransactionOK(r)'
  <2>1. Sensible(q) /\ NamedNodes(q) \subseteq NodeIds
    BY RequestsSensible, BornIds DEF Sensible, NamedNodes
  <2>2. TransactionTypeOK(t)
    BY <2>1, TransactionsAssumption DEF LockInv, TablesOK, TransactionTypeOK, Running
  <2>3. /\ Fields(t) /\ Visible(t) /\ Current(t) /\ Locked(t)
        /\ Ascending(t) /\ Decided(t)
    BY DEF LockInv, TablesOK, Fields, Visible, Current, Locked, Ascending,
       Decided, tables, NamedNodes
  <2> QED
    BY <1>1, <1>2, <2>1, <2>2, <2>3 DEF TransactionOK, TransactionTypeOK, Active, Fields,
       Sensible, Visible, Current, Locked, Ascending, Decided, data
<1>4. \A o \in Requests \ {r} : Apart(r, o)'
  BY <1>1 DEF Apart, Creating
<1> QED
  BY <1>1, <1>2, <1>3, <1>4, OwnStep

LEMMA LockNodeStep ==
    ASSUME LockInv, NEW r \in Requests, LockNode(r)
    PROVE  LockInv'
<1> DEFINE t == txn[r]
           n == Wanted(r)
           u == [t EXCEPT !.todo = @ \ {n},
                          !.held = IF t.snap.nodes[n] = Null THEN @ ELSE @ \cup {n}]
<1>1. CASE t.snap.nodes[n] # Null /\ Outdated(t, n)
  BY <1>1, RollbackStep DEF LockNode
<1>2. CASE ~(t.snap.nodes[n] # Null /\ Outdated(t, n))
  <2>1. /\ Active(r) /\ t.phase # "written" /\ TransactionOK(r)
        /\ n \in t.todo /\ n \in NodeIds /\ \A m \in t.todo : n <= m
    BY WantedIsNext DEF LockNode, Waiting, Active, Running, LockInv
  <2>2. /\ t.phase \in Running /\ t.snap \in Snapshot /\ t.todo \subseteq NodeIds
        /\ t.held \subseteq NodeIds /\ t.changed \subseteq NodeIds /\ t.id \in 0..MaxNode
        /\ t # Idle
    BY <2>1 DEF TransactionOK, TransactionTypeOK, Active, Idle, Running
  <2>3. u = [phase |-> t.phase, op |-> t.op, snap |-> t.snap, todo |-> t.todo \ {n},
             held |-> IF t.snap.nodes[n] = Null THEN t.held ELSE t.held \cup {n},
             changed |-> t.changed, id |-> t.id]
    BY <2>1, EditedLocks DEF TransactionOK
  <2>4. txn'[r] = u /\ txn' = [txn EXCEPT ![r] = txn'[r]]
    BY <1>2 DEF LockNode, LockInv
  <2>5. UNCHANGED data /\ UNCHANGED lastId /\ lastId' \in lastId..MaxNode
    BY <1>2, TransactionsAssumption DEF LockNode, LockInv, TablesOK
  <2>6. n \notin t.changed \/ t.snap.nodes[n] = Null
    BY <1>2 DEF Outdated, Isolation
  <2> HIDE DEF u
  <2>7. TransactionOK(r)'
    <3>1. TransactionTypeOK(u)
      BY <2>1, <2>2, <2>3 DEF TransactionTypeOK
    <3>2. Fields(u) /\ Sensible(u.op) /\ Visible(u) /\ Current(u)
      BY <2>1, <2>3 DEF TransactionOK, Fields, Visible, Current
    <3>3. Locked(u)
      BY <2>1, <2>3, <2>6 DEF TransactionOK, Locked
    <3>4. Ascending(u) /\ Decided(u)
      <4>1. Ascending(t)
        BY <2>1 DEF TransactionOK
      <4>2. \A m \in t.todo : m \in Nat
        BY <2>2 DEF NodeIds
      <4> QED
        BY <2>1, <2>3, <4>1, <4>2 DEF Ascending, Decided
    <3> QED
      BY <2>4, <2>5, <3>1, <3>2, <3>3, <3>4 DEF TransactionOK, TransactionTypeOK, Active,
         Fields, Sensible, Visible, Current, Locked, Ascending, Decided, data
  <2>8. ASSUME NEW o \in Requests \ {r} PROVE Apart(r, o)'
    <3>1. t.snap.nodes[n] = Null \/ n \notin txn[o].held
      BY <1>2 DEF LockNode, Blocked
    <3> QED
      BY <2>1, <2>3, <2>4, <3>1 DEF LockInv, Apart, Creating
  <2> QED
    BY <2>4, <2>5, <2>7, <2>8, OwnStep
<1> QED
  BY <1>1, <1>2

LEMMA LockNeighborsStep ==
    ASSUME LockInv, NEW r \in Requests, LockNeighbors(r)
    PROVE  LockInv'
<1> DEFINE t == txn[r]
           u == [t EXCEPT !.phase = "neighbors", !.todo = Neighbors(t.snap, t.op.on[1])]
<1>1. /\ TransactionOK(r) /\ Active(r) /\ t # Idle /\ t.todo = {}
      /\ t.snap \in Snapshot /\ t.held \subseteq NodeIds /\ t.changed \subseteq NodeIds
      /\ t.id \in 0..MaxNode
  BY DEF LockNeighbors, LockInv, TransactionOK, TransactionTypeOK, Active, Running, Idle
<1>2. u = [phase |-> "neighbors", op |-> t.op, snap |-> t.snap,
           todo |-> Neighbors(t.snap, t.op.on[1]), held |-> t.held,
           changed |-> t.changed, id |-> t.id]
  BY <1>1, EditedNeighbors DEF TransactionOK
<1>3. txn'[r] = u /\ txn' = [txn EXCEPT ![r] = txn'[r]]
  BY DEF LockNeighbors, LockInv
<1>4. UNCHANGED data /\ UNCHANGED lastId /\ lastId' \in lastId..MaxNode
  BY TransactionsAssumption DEF LockNeighbors, LockInv, TablesOK
<1> HIDE DEF u
<1>5. TransactionOK(r)'
  <2>1. Neighbors(t.snap, t.op.on[1]) \subseteq NodeIds
    BY <1>1 DEF Neighbors, Incident, Snapshot
  <2>2. TransactionTypeOK(u)
    BY <1>1, <1>2, <2>1 DEF TransactionTypeOK, Running
  <2>3. /\ Fields(u) /\ Sensible(u.op) /\ Visible(u) /\ Current(u)
        /\ Locked(u) /\ Ascending(u) /\ Decided(u)
    BY <1>1, <1>2 DEF TransactionOK, Fields, Visible, Current, Locked, Ascending,
       Decided
  <2> QED
    BY <1>3, <1>4, <2>2, <2>3 DEF TransactionOK, TransactionTypeOK, Active,
       Fields, Sensible, Visible, Current, Locked, Ascending, Decided, data
<1>6. \A o \in Requests \ {r} : Apart(r, o)'
  BY <1>2, <1>3 DEF LockInv, Apart, Creating
<1> QED
  BY <1>3, <1>4, <1>5, <1>6, OwnStep

\* The id of a node is fresh: the sequence has not handed it out before.
LEMMA WriteStep ==
    ASSUME LockInv, NEW r \in Requests, Write(r)
    PROVE  LockInv'
<1> DEFINE t == txn[r]
           id == IF t.op.do = "Create" THEN lastId' ELSE 0
           u == [t EXCEPT !.phase = "written", !.id = id]
<1>1. CASE ~Applies(t.op, t.snap)
  BY <1>1, RollbackStep DEF Write
<1>2. CASE Applies(t.op, t.snap)
  <2>1. /\ TransactionOK(r) /\ Active(r) /\ t # Idle /\ t.todo = {}
        /\ t.snap \in Snapshot /\ t.held \subseteq NodeIds /\ t.changed \subseteq NodeIds
    BY DEF Write, LockInv, TransactionOK, TransactionTypeOK, Active, Running, Idle
  <2>2. /\ u = [phase |-> "written", op |-> t.op, snap |-> t.snap, todo |-> {},
                held |-> t.held, changed |-> t.changed, id |-> id]
        /\ txn'[r] = u /\ txn' = [txn EXCEPT ![r] = txn'[r]]
    <3>1. Fields(t)
      BY <2>1 DEF TransactionOK
    <3>2. u = [phase |-> "written", op |-> t.op, snap |-> t.snap, todo |-> {},
               held |-> t.held, changed |-> t.changed, id |-> id]
      BY <2>1, <3>1, EditedWritten
    <3> HIDE DEF u
    <3>3. txn' = [txn EXCEPT ![r] = u] /\ DOMAIN txn = Requests
      BY <1>2 DEF Write, LockInv, u
    <3> QED
      BY <3>2, <3>3
  <2>3. /\ lastId \in 0..MaxNode /\ lastId' \in lastId..MaxNode /\ UNCHANGED data
        /\ t.op.do = "Create" => lastId' = lastId + 1
        /\ id \in 0..MaxNode
    BY <1>2, TransactionsAssumption DEF Write, LockInv, TablesOK, Applies
  <2>4. t.op.do \notin {"Create", "Unregister"} => t.snap.nodes[t.op.on[1]] # Null
    BY <1>2 DEF Applies
  <2>5. t.op.do = "Create" => id = lastId' /\ id \in (1..lastId') \ born
    BY <2>3, TransactionsAssumption DEF LockInv, TablesOK
  <2> HIDE DEF u, id
  <2>6. TransactionOK(r)'
    <3>1. TransactionTypeOK(u)
      BY <2>1, <2>2, <2>3, TransactionsAssumption DEF TransactionTypeOK, Running
    <3>2. /\ Fields(u) /\ Sensible(u.op) /\ Visible(u) /\ Current(u)
          /\ Locked(u) /\ Ascending(u)
      BY <2>1, <2>2 DEF TransactionOK, Fields, Visible, Current, Locked, Ascending
    <3>3. u.phase = "written" => IF u.op.do = "Create" THEN u.id \in (1..lastId') \ born
                                 ELSE u.op.do # "Unregister" => u.snap.nodes[u.op.on[1]] # Null
      BY <2>2, <2>4, <2>5
    <3> QED
      BY <2>2, <2>3, <3>1, <3>2, <3>3 DEF TransactionOK, TransactionTypeOK, Active,
         Fields, Sensible, Visible, Current, Locked, Ascending, Decided, data
  <2>7. ASSUME NEW o \in Requests \ {r} PROVE Apart(r, o)'
    <3>1. Creating(o) => txn[o].id \in 1..lastId
      BY DEF Creating, LockInv, TransactionOK, Active, Running, Decided
    <3>2. Creating(o) /\ t.op.do = "Create" => lastId' # txn[o].id
      BY <2>3, <3>1
    <3> QED
      BY <2>2, <2>5, <3>2 DEF LockInv, Apart, Creating
  <2> QED
    BY <2>2, <2>3, <2>6, <2>7, OwnStep
<1> QED
  BY <1>1, <1>2

-----------------------------------------------------------------------------
(* Commits                                                                 *)

\* What a handler finds out about itself when it commits.
LEMMA Committing ==
    ASSUME LockInv, NEW r \in Requests, Commit(r)
    PROVE  LET t == txn[r] IN
           /\ TransactionOK(r) /\ Active(r) /\ t.phase = "written"
           /\ t.snap \in Snapshot /\ t.held \subseteq NodeIds
           /\ Sensible(t.op)
           /\ t.op.do # "Create" => t.op.on[1] \in NodeIds
           /\ t.op.do = "Create" => t.id \in NodeIds \ born /\ t.id \in 1..lastId
           /\ t.op.do \notin {"Create", "Unregister"} =>
                 t.op.on[1] \in t.held /\ t.snap.nodes[t.op.on[1]] # Null
           /\ \A n \in t.held : nodes[n] = t.snap.nodes[n] /\ nodes[n] # Null
<1> DEFINE t == txn[r]
<1>1. TransactionOK(r) /\ Active(r) /\ t.phase = "written" /\ t # Idle
  BY DEF LockInv, Commit, Active, Running, Idle
<1>2. t.snap \in Snapshot /\ t.held \subseteq NodeIds
  BY <1>1 DEF TransactionOK, TransactionTypeOK
<1>3. /\ Sensible(t.op) /\ Current(t) /\ Locked(t) /\ Decided(t)
  BY <1>1 DEF TransactionOK
<1>4. t.op.do # "Create" => t.op.on[1] \in NodeIds
  BY <1>3 DEF Sensible
<1>5. t.op.do = "Create" => t.id \in NodeIds \ born /\ t.id \in 1..lastId
  <2>1. (1..lastId) \subseteq NodeIds
    BY TransactionsAssumption DEF LockInv, TablesOK, NodeIds
  <2> QED
    BY <1>1, <1>3, <2>1 DEF Decided
<1>6. t.op.do \notin {"Create", "Unregister"} =>
         t.op.on[1] \in t.held /\ t.snap.nodes[t.op.on[1]] # Null
  BY <1>1, <1>3 DEF Decided, Locked, Sensible
<1>7. \A n \in t.held : nodes[n] = t.snap.nodes[n] /\ nodes[n] # Null
  BY <1>2, <1>3 DEF Current, Locked
<1> QED
  BY <1>1, <1>2, <1>3, <1>4, <1>5, <1>6, <1>7

LEMMA HeldHooks ==
    ASSUME LockInv, NEW r \in Requests, Commit(r), NEW n \in txn[r].held
    PROVE  n \in hooks <=> n \in txn[r].snap.hooks
<1>1. Current(txn[r]) /\ Locked(txn[r]) /\ n \in NodeIds
  BY Committing DEF TransactionOK
<1> QED
  BY <1>1 DEF Current, Locked

\* A commit changes rows it holds, or the row of an id that is not born yet.
LEMMA NodesCommitted ==
    ASSUME LockInv, NEW r \in Requests, Commit(r), NEW n \in NodeIds
    PROVE  \/ nodes'[n] = nodes[n]
           \/ n \in txn[r].held
           \/ txn[r].op.do = "Create" /\ n = txn[r].id
<1> DEFINE t == txn[r]
<1>1. nodes' = [nodes EXCEPT ![Subject(t)] = RowAfter(t)] /\ nodes \in [NodeIds -> Row \cup {Null}]
  BY DEF Commit, LockInv, TablesOK, tables, Snapshot
<1>2. CASE t.op.do = "Create"
  BY <1>1, <1>2 DEF Subject
<1>3. CASE t.op.do = "Unregister"
  BY <1>1, <1>3 DEF Subject, RowAfter
<1>4. CASE t.op.do \notin {"Create", "Unregister"}
  BY <1>1, <1>4, Committing DEF Subject
<1> QED
  BY <1>2, <1>3, <1>4

\* It changes hooks of rows it holds.
LEMMA HooksCommitted ==
    ASSUME LockInv, NEW r \in Requests, Commit(r), NEW n \in NodeIds
    PROVE  (n \in hooks' <=> n \in hooks) \/ n \in txn[r].held
<1> DEFINE t == txn[r]
<1>1. CASE t.op.do \in {"Register", "Delete"}
  BY <1>1, Committing DEF Commit
<1>2. CASE t.op.do = "Unregister"
  <2>1. hooks' = hooks \ ({t.op.on[1]} \cap t.snap.hooks)
    BY <1>2 DEF Commit
  <2>2. t.op.on[1] \in Elements(t.op.on) /\ Locked(t) /\ Visible(t) /\ t.phase = "written"
    BY <1>2, Committing DEF Sensible, TransactionOK
  <2> QED
    BY <2>1, <2>2 DEF Locked, Visible
<1>3. CASE t.op.do \notin {"Register", "Delete", "Unregister"}
  BY <1>3 DEF Commit
<1> QED
  BY <1>1, <1>2, <1>3

LEMMA TablesCommitted ==
    ASSUME LockInv, NEW r \in Requests, Commit(r)
    PROVE  TablesOK'
<1> DEFINE t == txn[r]
<1>1. tables \in Snapshot /\ t.snap \in Snapshot /\ born \subseteq NodeIds
  BY Committing, BornIds DEF LockInv, TablesOK
<1>2. nodes' \in [NodeIds -> Row \cup {Null}]
  <2>1. RowAfter(t) \in Row \cup {Null}
    <3>1. CASE t.op.do = "Create"
      BY <3>1, Committing, TransactionsAssumption DEF RowAfter, Sensible, Row
    <3>2. CASE t.op.do \in {"Patch", "Retype"}
      <4>1. t.snap.nodes[t.op.on[1]] \in Row
        BY <1>1, <3>2, Committing DEF Snapshot
      <4> QED
        BY <3>2, <4>1, Committing DEF RowAfter, Sensible, Row
    <3>3. CASE t.op.do \notin {"Create", "Patch", "Retype"}
      BY <1>1, <3>3, Committing DEF RowAfter, tables, Snapshot
    <3> QED
      BY <3>1, <3>2, <3>3
  <2> QED
    BY <1>1, <2>1 DEF Commit, tables, Snapshot
<1>3. links' \subseteq [source : NodeIds, target : NodeIds]
  <2>1. AddedLinks(t) \subseteq [source : NodeIds, target : NodeIds]
    <3>1. Elements(t.op.on) \subseteq NodeIds
      BY <1>1, Committing DEF Sensible
    <3> QED
      BY <3>1, Committing DEF AddedLinks, Sensible
  <2> QED
    BY <1>1, <2>1 DEF Commit, tables, Snapshot
<1>4. hooks' \subseteq NodeIds
  <2>1. CASE t.op.do = "Register"
    <3>1. hooks' = hooks \cup {t.op.on[1]}
      BY <2>1 DEF Commit
    <3>2. t.op.on[1] \in NodeIds
      BY <2>1, Committing
    <3> QED
      BY <1>1, <3>1, <3>2 DEF tables, Snapshot
  <2>2. CASE t.op.do # "Register"
    <3>1. hooks' \subseteq hooks
      BY <2>2 DEF Commit
    <3> QED
      BY <1>1, <3>1 DEF tables, Snapshot
  <2> QED
    BY <2>1, <2>2
<1>5. types' \in [Types -> Nat]
  <2>1. types \in [Types -> Nat]
    BY <1>1 DEF tables, Snapshot
  <2>2. types' = types \/ types' = [types EXCEPT ![t.op.value] = @ + 1]
    BY DEF Commit
  <2> QED
    BY <2>1, <2>2
<1>6. lastId' \in 0..MaxNode /\ born' \subseteq 1..lastId'
  <2>1. lastId' = lastId /\ (born' = born \/ (t.op.do = "Create" /\ born' = born \cup {t.id}))
    BY DEF Commit
  <2>2. lastId \in 0..MaxNode /\ born \subseteq 1..lastId
    BY DEF LockInv, TablesOK
  <2>3. t.op.do = "Create" => t.id \in 1..lastId
    BY Committing
  <2> QED
    BY <2>1, <2>2, <2>3
<1>7. ASSUME NEW n \in NodeIds, nodes'[n] # Null PROVE n \in born'
  <2>1. n \in born \/ (t.op.do = "Create" /\ n = t.id)
    BY <1>7, NodesCommitted, Committing DEF LockInv, TablesOK
  <2> QED
    BY <2>1 DEF Commit
<1>8. ASSUME NEW n \in hooks' PROVE nodes'[n] # Null
  <2>1. n \in NodeIds /\ (n \in hooks => nodes[n] # Null) /\ DOMAIN nodes = NodeIds
    BY <1>1, <1>4, <1>8 DEF LockInv, TablesOK, tables, Snapshot
  <2>2. nodes' = [nodes EXCEPT ![Subject(t)] = RowAfter(t)]
    BY DEF Commit
  <2>3. CASE n \notin hooks
    <3>1. t.op.do = "Register" /\ n = t.op.on[1]
      BY <1>8, <2>3 DEF Commit
    <3> QED
      BY <2>1, <2>2, <3>1, Committing DEF Subject, RowAfter
  <2>4. CASE n \in hooks /\ t.op.do = "Create"
    <3>1. n # t.id
      BY <2>1, <2>4, Committing DEF LockInv, TablesOK
    <3> QED
      BY <2>1, <2>2, <2>4, <3>1 DEF Subject
  <2>5. CASE n \in hooks /\ t.op.do = "Delete"
    <3>1. hooks' = hooks \ ({t.op.on[1]} \cap t.snap.hooks)
      BY <2>5 DEF Commit
    <3>2. n # t.op.on[1]
      BY <1>8, <2>5, <3>1, Committing, HeldHooks
    <3> QED
      BY <2>1, <2>2, <2>5, <3>2 DEF Subject
  <2>6. CASE n \in hooks /\ t.op.do \notin {"Create", "Delete"}
    <3>1. n = t.op.on[1] => RowAfter(t) # Null
      <4>1. CASE t.op.do \in {"Patch", "Retype"}
        <5>1. t.snap.nodes[t.op.on[1]] \in Row
          BY <1>1, <4>1, Committing DEF Snapshot
        <5>2. RowAfter(t) \in Row
          BY <4>1, <5>1, Committing DEF RowAfter, Sensible, Row
        <5> QED
          BY <5>2, TransactionsAssumption
      <4>2. CASE t.op.do \notin {"Patch", "Retype"}
        BY <2>1, <2>6, <4>2 DEF RowAfter
      <4> QED
        BY <4>1, <4>2
    <3> QED
      BY <2>1, <2>2, <2>6, <3>1 DEF Subject
  <2> QED
    BY <2>3, <2>4, <2>5, <2>6
<1> QED
  BY <1>2, <1>3, <1>4, <1>5, <1>6, <1>7, <1>8 DEF TablesOK, tables, Snapshot

\* What another request holds, or has seen and nobody else has changed, a
\* commit leaves alone or marks as changed.
LEMMA OtherUndisturbed ==
    ASSUME LockInv, NEW r \in Requests, Commit(r), NEW o \in Requests \ {r}
    PROVE  TransactionOK(o)'
<1> DEFINE t == txn[r]
           v == txn[o]
           u == [v EXCEPT !.changed = v.changed \cup t.held]
<1>1. CASE ~Active(o)
  <2>1. v = Idle /\ txn'[o] = Idle
    BY <1>1 DEF Commit, LockInv, TransactionOK, TransactionTypeOK, Active
  <2> QED
    BY <2>1 DEF TransactionOK, TransactionTypeOK, Active, Idle, Running
<1>2. CASE Active(o)
  <2>1. TransactionOK(o) /\ v # Idle
    BY <1>2 DEF LockInv, Active, Idle, Running
  <2>2. /\ v.phase \in Running /\ v.snap \in Snapshot /\ v.todo \subseteq NodeIds
        /\ v.held \subseteq NodeIds /\ v.changed \subseteq NodeIds /\ v.id \in 0..MaxNode
    BY <2>1 DEF TransactionOK, TransactionTypeOK
  <2>3. u = [phase |-> v.phase, op |-> v.op, snap |-> v.snap, todo |-> v.todo,
             held |-> v.held, changed |-> v.changed \cup t.held, id |-> v.id]
    BY <1>2, <2>1, EditedChanged DEF TransactionOK
  <2>4. txn'[o] = u
    BY <1>2 DEF Commit
  <2>5. /\ t.held \subseteq NodeIds
        /\ \A n \in t.held : nodes[n] # Null
        /\ t.op.do = "Create" => t.id \notin born
    BY Committing
  <2>6. born \subseteq born' /\ lastId' = lastId
    BY DEF Commit
  <2>7. TransactionTypeOK(u) /\ Fields(u)
    BY <2>2, <2>3, <2>5 DEF TransactionTypeOK, Fields
  <2> HIDE DEF u
  <2>8. v.held \cap t.held = {}
    BY DEF LockInv, Apart
  <2>10. \A n \in NodeIds \ u.changed :
            v.snap.nodes[n] # Null => /\ nodes'[n] = v.snap.nodes[n]
                                      /\ n \in hooks' <=> n \in v.snap.hooks
    <3>1. \A n \in NodeIds \ u.changed :
             v.snap.nodes[n] # Null => /\ nodes[n] = v.snap.nodes[n]
                                       /\ n \in hooks <=> n \in v.snap.hooks
                                       /\ n \in born /\ n \notin t.held
      BY <1>2, <2>1, <2>3 DEF TransactionOK, Current, Visible
    <3> QED
      BY <2>5, <3>1, NodesCommitted, HooksCommitted
  <2>11. Locked(u) /\ Ascending(u)
    BY <1>2, <2>1, <2>3, <2>8 DEF TransactionOK, Locked, Ascending
  <2>12. /\ \A n \in NodeIds : u.snap.nodes[n] # Null => n \in born'
         /\ \A n \in u.snap.hooks : u.snap.nodes[n] # Null
    BY <1>2, <2>1, <2>3, <2>6 DEF TransactionOK, Visible, Sensible
  <2>13. u.phase = "written" /\ u.op.do = "Create" => u.id \in (1..lastId') \ born'
    <3> SUFFICES ASSUME v.phase = "written", v.op.do = "Create"
                 PROVE  v.id \in (1..lastId') \ born'
      BY <2>3
    <3>1. v.id \in (1..lastId) \ born
      BY <1>2, <2>1 DEF TransactionOK, Decided
    <3>2. t.op.do = "Create" => v.id # t.id
      BY Committing DEF LockInv, Apart, Creating
    <3> QED
      BY <2>6, <3>1, <3>2 DEF Commit
  <2>14. u.phase = "written" /\ u.op.do \notin {"Create", "Unregister"} =>
            u.snap.nodes[u.op.on[1]] # Null
    BY <1>2, <2>1, <2>3 DEF TransactionOK, Decided
  <2>15. Sensible(v.op) /\ u.op = v.op /\ u.snap = v.snap
    BY <1>2, <2>1, <2>3 DEF TransactionOK
  <2>16. TransactionTypeOK(txn[o])' /\ Fields(txn[o])' /\ Locked(txn[o])' /\ Ascending(txn[o])'
    BY <2>4, <2>7, <2>11 DEF TransactionTypeOK, Fields, Locked, Ascending
  <2>17. Sensible(txn[o].op)'
    BY <2>4, <2>15 DEF Sensible
  <2>18. Visible(txn[o])'
    BY <2>4, <2>12 DEF Visible
  <2>19. Current(txn[o])'
    BY <2>4, <2>10, <2>15 DEF Current
  <2>20. Decided(txn[o])'
    BY <2>4, <2>13, <2>14 DEF Decided
  <2> QED
    BY <2>16, <2>17, <2>18, <2>19, <2>20 DEF TransactionOK
<1> QED
  BY <1>1, <1>2

LEMMA CommitStep ==
    ASSUME LockInv, NEW r \in Requests, Commit(r)
    PROVE  LockInv'
<1> DEFINE t == txn[r]
<1>1. DOMAIN txn' = Requests /\ txn'[r] = Idle
  BY DEF Commit
<1>2. TransactionOK(r)'
  BY <1>1 DEF TransactionOK, TransactionTypeOK, Active, Idle, Running
<1>3. ASSUME NEW o \in Requests \ {r}
      PROVE  /\ txn'[o].held = txn[o].held
             /\ Creating(o)' => Creating(o) /\ txn'[o].id = txn[o].id
  <2>1. CASE ~Active(o)
    BY <2>1 DEF Commit, Creating
  <2>2. CASE Active(o)
    <3>1. txn'[o] = [txn[o] EXCEPT !.changed = txn[o].changed \cup t.held]
      BY <2>2 DEF Commit
    <3>2. Fields(txn[o])
      BY <2>2 DEF LockInv, TransactionOK
    <3>3. txn'[o] = [phase |-> txn[o].phase, op |-> txn[o].op, snap |-> txn[o].snap,
                     todo |-> txn[o].todo, held |-> txn[o].held,
                     changed |-> txn[o].changed \cup t.held, id |-> txn[o].id]
      BY <3>1, <3>2, EditedChanged
    <3> QED
      BY <3>3 DEF Creating
  <2> QED
    BY <2>1, <2>2
<1>4. ASSUME NEW o \in Requests, NEW p \in Requests \ {o} PROVE Apart(o, p)'
  <2>1. CASE o = r \/ p = r
    BY <1>1, <2>1 DEF Apart, Creating, Idle
  <2>2. CASE o # r /\ p # r
    BY <1>3, <2>2 DEF LockInv, Apart
  <2> QED
    BY <2>1, <2>2
<1> QED
  BY <1>1, <1>2, <1>4, TablesCommitted, OtherUndisturbed DEF LockInv

-----------------------------------------------------------------------------
(* The invariant                                                           *)

LEMMA LockInvInit == Init => LockInv
<1> SUFFICES ASSUME Init PROVE LockInv
  OBVIOUS
<1>1. TablesOK
  BY TransactionsAssumption DEF Init, TablesOK, tables, Snapshot
<1>2. \A r \in Requests : txn[r] = Idle
  BY DEF Init
<1>3. ASSUME NEW r \in Requests PROVE TransactionOK(r)
  <2>1. ~Active(r)
    BY <1>2 DEF Active, Idle, Running
  <2> QED
    BY <1>2, <2>1 DEF TransactionOK, TransactionTypeOK
<1>4. \A r \in Requests : \A o \in Requests \ {r} : Apart(r, o)
  BY <1>2 DEF Apart, Creating, Idle
<1> QED
  BY <1>1, <1>3, <1>4 DEF LockInv, Init

LEMMA LockInvNext == LockInv /\ [Next]_vars => LockInv'
<1> SUFFICES ASSUME LockInv, [Next]_vars PROVE LockInv'
  OBVIOUS
<1>1. ASSUME NEW r \in Requests, NEW q \in Requestable, Begin(r, q) PROVE LockInv'
  BY <1>1, BeginStep
<1>2. ASSUME NEW r \in Requests, LockNode(r) PROVE LockInv'
  BY <1>2, LockNodeStep
<1>3. ASSUME NEW r \in Requests, LockNeighbors(r) PROVE LockInv'
  BY <1>3, LockNeighborsStep
<1>4. ASSUME NEW r \in Requests, Write(r) PROVE LockInv'
  BY <1>4, WriteStep
<1>5. ASSUME NEW r \in Requests, Commit(r) PROVE LockInv'
  BY <1>5, CommitStep
<1>6. ASSUME NEW r \in Requests, CommitFails(r) \/ DeadlockAbort(r) \/ Fail(r)
      PROVE  LockInv'
  BY <1>6, RollbackStep DEF CommitFails, DeadlockAbort, Fail
<1>7. CASE UNCHANGED vars
  <2>1. UNCHANGED <<tables, lastId, born, txn, data>>
    BY <1>7 DEF vars, data, tables
  <2>2. TablesOK'
    BY <1>7, <2>1 DEF LockInv, TablesOK, vars
  <2>3. lastId' \in lastId..MaxNode
    BY <2>1, TransactionsAssumption DEF LockInv, TablesOK
  <2>4. \A r \in Requests : TransactionOK(r)'
    BY <2>1, <2>3, Untouched
  <2>5. \A r \in Requests : \A o \in Requests \ {r} : Apart(r, o)'
    BY <2>1 DEF LockInv, Apart, Creating
  <2> QED
    BY <2>1, <2>2, <2>4, <2>5 DEF LockInv
<1> QED
  BY <1>1, <1>2, <1>3, <1>4, <1>5, <1>6, <1>7 DEF Next, Step

THEOREM LockInvHolds == Spec => []LockInv
  BY LockInvInit, LockInvNext, PTL DEF Spec

\* The tables and the transactions of NodeService keep their types.
THEOREM TypeCorrect == Spec => []TypeOK
  BY LockInvHolds, LockInvTypes, PTL

\* What a handler of NodeService has locked is as its snapshot shows it until
\* its transaction ends, and nobody else holds it: it may decide on what it read.
THEOREM LocksProtectSnapshotsAlways == Spec => []LocksProtectSnapshots
  BY LockInvHolds, LockInvProtects, PTL

\* However many handlers wait for each other, one that deletes is among them.
THEOREM OnlyDeletionsDeadlockAlways == Spec => []OnlyDeletionsDeadlock
  BY LockInvHolds, LockInvOrders, PTL

-----------------------------------------------------------------------------
(* Type names                                                              *)

\* A type is inserted once, though no unique column forbids a second row: a
\* commit that inserts a type is serializable when there is none of its name.
THEOREM TypeNamesUniqueAlways == Spec => []TypeNamesUnique
<1> DEFINE Inv == TypeNamesUnique /\ types \in [Types -> Nat]
<1>1. Init => Inv
  BY DEF Init, TypeNamesUnique
<1>2. Inv /\ [Next]_vars => Inv'
  <2> SUFFICES ASSUME Inv, [Next]_vars PROVE Inv'
    OBVIOUS
  <2>1. ASSUME NEW r \in Requests, Commit(r) PROVE Inv'
    <3> DEFINE t == txn[r]
    <3>1. CASE InsertsType(t.op, t.snap)
      <4>1. types[t.op.value] = 0
        BY <2>1, <3>1 DEF Commit, Unserializable, Isolation
      <4>2. types' = [types EXCEPT ![t.op.value] = @ + 1]
        BY <2>1, <3>1 DEF Commit
      <4>3. types \in [Types -> Nat] /\ types' \in [Types -> Nat]
        <5> DEFINE one == types[t.op.value] + 1
        <5>1. types' = [types EXCEPT ![t.op.value] = one] /\ one \in Nat
          BY <4>1, <4>2
        <5> HIDE DEF one
        <5> QED
          BY <5>1
      <4>4. ASSUME NEW k \in Types PROVE types'[k] <= 1
        <5>1. types'[k] = types[k] \/ (k = t.op.value /\ types'[k] = types[k] + 1)
          BY <4>2, <4>3
        <5> QED
          BY <4>1, <4>3, <5>1 DEF TypeNamesUnique
      <4> QED
        BY <4>3, <4>4 DEF TypeNamesUnique
    <3>2. CASE ~InsertsType(t.op, t.snap)
      BY <2>1, <3>2 DEF Commit, TypeNamesUnique
    <3> QED
      BY <3>1, <3>2
  <2>2. ASSUME NEW r \in Requests, Step(r) \/ Fail(r), ~Commit(r) PROVE UNCHANGED types
    BY <2>2 DEF Step, LockNode, LockNeighbors, Write, CommitFails, DeadlockAbort, Fail,
       Rollback, data
  <2>3. ASSUME NEW r \in Requests, NEW q \in Requestable, Begin(r, q) PROVE UNCHANGED types
    BY <2>3 DEF Begin, data
  <2>4. UNCHANGED types => Inv'
    BY DEF TypeNamesUnique
  <2>5. UNCHANGED vars => UNCHANGED types
    BY DEF vars
  <2> QED
    BY <2>1, <2>2, <2>3, <2>4, <2>5 DEF Next
<1>3. Inv => TypeNamesUnique
  OBVIOUS
<1> QED
  BY <1>1, <1>2, <1>3, PTL DEF Spec

================================================================================
