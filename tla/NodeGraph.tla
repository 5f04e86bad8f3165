------------------------------ MODULE NodeGraph ------------------------------
(***************************************************************************)
(* The node graph of the DiVoid backend: the rows NodeService keeps of     *)
(* nodes, links and subscriptions (hooks), and the system messages its     *)
(* mutations insert.                                                       *)
(*                                                                         *)
(* Each mutation of NodeService runs in one SERIALIZABLE transaction, so   *)
(* here each is ONE action: everything the handler does between            *)
(* MutationTransaction() and Commit().  A handler that throws or returns   *)
(* before Commit() changes nothing and is no action at all.  What makes    *)
(* this grain right, the locking and the interleaving of transactions, is  *)
(* the subject of module NodeTransactions.                                 *)
(***************************************************************************)
EXTENDS FiniteSets

CONSTANTS
    Users,          \* ids of rows the user table ever holds
    Managed,        \* those whose row UserService changes (bounds the model)
    NoUser,         \* caller id 0: no identity, or authentication disabled
    Callers,        \* records [id, admin] of the requests that may arrive
    Tags,           \* routing tags of hooks
    Filters,        \* sets of kinds a hook may ask for; {} asks for all
    Accesses,       \* values of NodeAccess that occur
    Statuses,       \* values of Node.Status
    Metas,          \* name, type, severity, refinement, root, skipEmbedding
    Positions,      \* places on the canvas other than (0, 0)
    Contents,       \* content type and body, when there is a body
    Substances,     \* condensed forms of the content
    Labels,         \* LinkType and Context of a link
    Patches,        \* label -> label: sets the type, the context or both
    DefaultLabel,   \* LinkType.None and no context
    Origin,         \* the position (0, 0)
    Null,           \* null: no such row, no content, no substance
    NodeIds         \* the ids the node table may hand out (bounds the model)

Owners == Users \cup {NoUser}

Row == [owner     : Owners,
        access    : Accesses,
        status    : Statuses,
        meta      : Metas,
        position  : Positions \cup {Origin},
        content   : Contents \cup {Null},
        substance : Substances \cup {Null}]

Link == [source : NodeIds, target : NodeIds, label : Labels]

Kinds == {"Status", "Content", "Links", "Metadata"}

HookKeys == NodeIds \X Users \X Tags

Columns == {"owner", "access", "status", "meta", "position", "content", "substance"}

Edges == {"Link added", "Link removed", "Link changed"}

\* full = FALSE is the body "Access changed for node #n." that lists nothing;
\* copy tells two messages apart that are alike but for their id.
Message == [to : Users, node : NodeIds, tag : Tags, full : BOOLEAN, copy : {1, 2},
            says : SUBSET (Columns \cup Edges \cup {"deleted"})]

ASSUME ConstantsAssumption ==
    /\ Managed \subseteq Users
    /\ NoUser \notin Users
    /\ Callers \subseteq [id : Owners, admin : BOOLEAN]
    /\ Filters \subseteq SUBSET Kinds
    /\ Accesses \subseteq SUBSET {"Read", "Write"}
    /\ DefaultLabel \in Labels
    /\ Patches \subseteq [Labels -> Labels]
    /\ Origin \notin Positions
    /\ Null \notin Contents \cup Substances
    /\ Null \notin Row

VARIABLES
    issued,     \* ids the node table has handed out, each of them once
    nodes,      \* NodeIds -> row, Null where there is none
    links,      \* rows of the link table
    hooks,      \* HookKeys -> subscribed kinds, {} where there is no hook
    accounts,   \* users that have a row
    enabled,    \* those whose row is enabled
    admins,     \* those whose row holds the admin permission
    notices     \* messages inserted by the latest transaction

graph == <<issued, nodes, links, hooks>>
users == <<accounts, enabled, admins>>
vars  == <<issued, nodes, links, hooks, accounts, enabled, admins, notices>>

TypeOK ==
    /\ issued \subseteq NodeIds
    /\ nodes \in [NodeIds -> Row \cup {Null}]
    /\ links \subseteq Link
    /\ hooks \in [HookKeys -> SUBSET Kinds]
    /\ accounts \subseteq Users
    /\ enabled \subseteq accounts
    /\ admins \subseteq accounts
    /\ notices \subseteq Message

-----------------------------------------------------------------------------
(* Authorization and notification                                          *)

\* BuildVisibilityPredicate: may caller c use the right on this row?
Allowed(row, c, right) ==
    /\ row # Null
    /\ c.admin \/ row.owner = c.id \/ right \in row.access

\* BuildOwnerPredicate: write access to the node does not reach Access itself.
OwnerOrAdmin(row, c) == c.admin \/ row.owner = c.id

\* CanRead: what a message recipient may see, by the rows of the moment.
CanRead(row, u) ==
    /\ row # Null
    /\ u \in enabled
    /\ row.owner = u \/ "Read" \in row.access \/ u \in admins

Changed(before, after) ==
    IF after = Null THEN {"deleted"} ELSE {c \in Columns : before[c] # after[c]}

Kind(change) ==
    CASE change = "status"   -> "Status"
      [] change = "content"  -> "Content"
      [] change \in Edges    -> "Links"
      [] OTHER               -> "Metadata"

\* The final notice of a deletion has no kind of its own.
KindsOf(changes) == {Kind(c) : c \in changes \ {"deleted"}}

\* Mutant: asks only for hooks subscribed to what changed.
SelectionByKind(before, after, kinds) == kinds

\* A change that can take read access away looks at every hook of the node.
Selection(before, after, kinds) ==
    IF after = Null \/ before.owner # after.owner \/ before.access # after.access
    THEN Kinds
    ELSE kinds

\* Mutant: never asks whether the user may hear of the node.
ConcernedAll(before, after, u) == TRUE

\* Who can read the node neither before nor after the change hears nothing.
Concerned(before, after, u) == CanRead(before, u) \/ CanRead(after, u)

\* Does the message to u list the changes, or only say that access changed?
BodyLists(after, u) == after = Null \/ CanRead(after, u)

\* Notify: one message per hook that is to hear of the change of node n.
Notify(n, before, after, edges) ==
    LET changes == Changed(before, after) \cup edges
        kinds   == KindsOf(changes)
        Hears(u, events) ==
            /\ events \cap Selection(before, after, kinds) # {}
            /\ Concerned(before, after, u)
            /\ \/ events \cap kinds # {}
               \/ CanRead(before, u) /\ ~CanRead(after, u)
    IN  IF before = Null \/ changes = {} THEN {}
        ELSE {[to   |-> k[1], node |-> n, tag |-> k[2],
               full |-> BodyLists(after, k[1]), copy |-> 1,
               says |-> IF BodyLists(after, k[1]) THEN changes ELSE {}] :
                 k \in {h \in Users \X Tags : Hears(h[1], hooks[<<n, h[1], h[2]>>])}}

-----------------------------------------------------------------------------
(* Helpers of the mutations                                                *)

\* Mutants: the links of one side only.
IncidentSource(n, ls) == {l \in ls : l.source = n}
IncidentTarget(n, ls) == {l \in ls : l.target = n}

\* The links of node n, whichever side of them it is.
Incident(n, ls) == {l \in ls : l.source = n \/ l.target = n}

\* Mutant: looks for the pair in the stored direction only.
BetweenForward(s, t) == {l \in links : l.source = s /\ l.target = t}

\* The rows joining two nodes, in either orientation.
Between(s, t) ==
    {l \in links : \/ l.source = s /\ l.target = t
                   \/ l.source = t /\ l.target = s}

Neighbors(n) ==
    {l.target : l \in {k \in links : k.source = n}} \cup
    {l.source : l \in {k \in links : k.target = n}}

\* TryAnchorOrphanToPositioned: a node at the origin with a placed anchor gets
\* place p; anything else stays where it is.
Anchored(row, anchors, p) ==
    IF /\ row.position = Origin
       /\ \E a \in anchors : a # Null /\ a.position # Origin
    THEN [row EXCEPT !.position = p]
    ELSE row

\* Notices to the hooks of nodes whose rows keep but whose links change.
EdgeNotices(ns, edge) == UNION {Notify(m, nodes[m], nodes[m], {edge}) : m \in ns}

Again(m) == [m EXCEPT !.copy = 2]

\* Notices to the hooks of both ends of a pair: twice to the same hook when the
\* ends are one node.
PairNotices(s, t, edge) ==
    EdgeNotices({s, t}, edge) \cup
    (IF s = t THEN {Again(m) : m \in EdgeNotices({s}, edge)} ELSE {})

-----------------------------------------------------------------------------
(* Mutations of NodeService, one transaction each                          *)

Init ==
    /\ issued = {}
    /\ nodes = [n \in NodeIds |-> Null]
    /\ links = {}
    /\ hooks = [k \in HookKeys |-> {}]
    /\ accounts = Users
    /\ enabled = Users
    /\ admins \in SUBSET Users
    /\ notices = {}

\* POST /nodes.  The targets of the initial links are whatever ids the client
\* sends: the handler checks neither that they exist, or ever did, nor that the
\* caller may write them.  Ids come from a sequence, so the next ones are easily
\* named ahead, the one this node is about to get included.
CreateNode(c, id, row, targets, p) ==
    /\ id \notin issued
    /\ row \in Row
    /\ row.owner = c.id /\ row.content = Null
    /\ targets \subseteq NodeIds
    /\ p \in Positions
    /\ issued' = issued \cup {id}
    /\ nodes' = [nodes EXCEPT ![id] = Anchored(row, {nodes[t] : t \in targets}, p)]
    /\ links' = links \cup [source : {id}, target : targets, label : {DefaultLabel}]
    /\ notices' = EdgeNotices(targets, "Link added")
    /\ UNCHANGED <<hooks, users>>

\* DELETE /nodes/{n}: the row, its links on either side and its hooks, after
\* the hooks have been told.
Delete(c, n) ==
    /\ Allowed(nodes[n], c, "Write")
    /\ nodes' = [nodes EXCEPT ![n] = Null]
    /\ links' = links \ Incident(n, links)
    /\ hooks' = [k \in HookKeys |-> IF k[1] = n THEN {} ELSE hooks[k]]
    /\ notices' = Notify(n, nodes[n], Null, {}) \cup
                  EdgeNotices(Neighbors(n) \ {n}, "Link removed")
    /\ UNCHANGED <<issued, users>>

\* POST /nodes/{s}/links.  Write access is asked of the source only; a pair
\* already linked in either direction is left alone.  The end that is still at
\* the origin is moved next to the other.
LinkNodes(c, s, t, label, p) ==
    LET source == Anchored(nodes[s], {nodes[t]}, p)
        target == Anchored(nodes[t], {source}, p)
    IN  /\ s # t
        /\ Allowed(nodes[s], c, "Write")
        /\ nodes[t] # Null
        /\ Between(s, t) = {}
        /\ p \in Positions
        /\ label \in Labels
        /\ links' = links \cup {[source |-> s, target |-> t, label |-> label]}
        /\ nodes' = [nodes EXCEPT ![s] = source, ![t] = target]
        /\ notices' = Notify(s, nodes[s], source, {"Link added"}) \cup
                      Notify(t, nodes[t], target, {"Link added"})
        /\ UNCHANGED <<issued, hooks, users>>

\* Mutant: tells the hooks of the node named first only.
UnlinkNodesOneSided(c, s, t) ==
    /\ Allowed(nodes[s], c, "Write")
    /\ Between(s, t) # {}
    /\ links' = links \ Between(s, t)
    /\ notices' = EdgeNotices({s}, "Link removed")
    /\ UNCHANGED <<issued, nodes, hooks, users>>

\* DELETE /nodes/{s}/links/{t}, for a pair that is linked.  The target may be
\* gone: then only the source has hooks to tell.
UnlinkNodes(c, s, t) ==
    /\ Allowed(nodes[s], c, "Write")
    /\ Between(s, t) # {}
    /\ links' = links \ Between(s, t)
    /\ notices' = PairNotices(s, t, "Link removed")
    /\ UNCHANGED <<issued, nodes, hooks, users>>

\* PATCH /nodes/{s}/links/{t}: every row of the pair is patched and keeps its
\* orientation.  One row of the pair is read before and one after, whichever the
\* database gives first: only when their labels differ is anybody told.
PatchLink(c, s, t, patch) ==
    LET patched == {[l EXCEPT !.label = patch[l.label]] : l \in Between(s, t)}
    IN  /\ Allowed(nodes[s], c, "Write")
        /\ links' = (links \ Between(s, t)) \cup patched
        /\ \E before \in Between(s, t), after \in patched :
              notices' = IF before.label = after.label THEN {}
                         ELSE PairNotices(s, t, "Link changed")
        /\ UNCHANGED <<issued, nodes, hooks, users>>

\* Mutant: the access column is gated like any other.
PatchGateFlat(row, c, touched) ==
    IF "owner" \in touched THEN c.admin ELSE Allowed(row, c, "Write")

\* Mutant: anybody may patch what needs no ownership.
PatchGateOpen(row, c, touched) ==
    IF "owner" \in touched THEN c.admin
    ELSE "access" \in touched => OwnerOrAdmin(row, c)

\* Who may patch which columns: the owner column takes an admin, the access
\* column the owner or an admin, everything else write access.
PatchGate(row, c, touched) ==
    IF "owner" \in touched THEN c.admin
    ELSE IF "access" \in touched THEN OwnerOrAdmin(row, c)
    ELSE Allowed(row, c, "Write")

\* PATCH /nodes/{n}, to the row new.  A patch that rewrites a column with its
\* present value passes a stricter gate for the same result, so the columns
\* touched may be taken to be those that change.  The gate is evaluated again
\* by the later statements, on the patched row: it only reads columns that a
\* patch reaching them through that gate leaves alone.
Patch(c, n, new) ==
    LET touched == Changed(nodes[n], new)
    IN  /\ nodes[n] # Null
        /\ new \in Row
        /\ new.content = nodes[n].content
        /\ touched # {}
        /\ PatchGate(nodes[n], c, touched)
        /\ nodes' = [nodes EXCEPT ![n] = new]
        /\ notices' = Notify(n, nodes[n], new, {})
        /\ UNCHANGED <<issued, links, hooks, users>>

\* The row after its body was written: the substance condensed the old body.
WithContent(row, content) == [row EXCEPT !.content = content, !.substance = Null]

\* POST /nodes/{n}/content.
UploadContent(c, n, content) ==
    LET after == WithContent(nodes[n], content)
    IN  /\ Allowed(nodes[n], c, "Write")
        /\ content \in Contents
        /\ nodes' = [nodes EXCEPT ![n] = after]
        /\ notices' = Notify(n, nodes[n], after, {})
        /\ UNCHANGED <<issued, links, hooks, users>>

\* PATCH /nodes/{n}/content: edits of a body there must be one of.
PatchContent(c, n, content) ==
    LET after == WithContent(nodes[n], content)
    IN  /\ Allowed(nodes[n], c, "Write")
        /\ nodes[n].content # Null
        /\ content \in Contents
        /\ nodes' = [nodes EXCEPT ![n] = after]
        /\ notices' = Notify(n, nodes[n], after, {})
        /\ UNCHANGED <<issued, links, hooks, users>>

\* Mutant: subscribes whoever asks, readable or not.
RegisterHookBlind(c, n, u, t, events) ==
    /\ c.admin \/ u = c.id
    /\ t \in Tags
    /\ events \in Filters
    /\ hooks' = [hooks EXCEPT ![<<n, u, t>>] = IF events = {} THEN Kinds ELSE events]
    /\ notices' = {}
    /\ UNCHANGED <<issued, nodes, links, users>>

\* POST /nodehooks: inserts the hook or replaces the kinds of the one there is.
RegisterHook(c, n, u, t, events) ==
    /\ c.admin \/ u = c.id
    /\ t \in Tags
    /\ CanRead(nodes[n], u)
    /\ events \in Filters
    /\ hooks' = [hooks EXCEPT ![<<n, u, t>>] = IF events = {} THEN Kinds ELSE events]
    /\ notices' = {}
    /\ UNCHANGED <<issued, nodes, links, users>>

\* DELETE /nodehooks: needs no access to the node, which may have been revoked.
DeleteHook(c, n, u, t) ==
    /\ c.admin \/ u = c.id
    /\ t \in Tags
    /\ hooks' = [hooks EXCEPT ![<<n, u, t>>] = {}]
    /\ notices' = {}
    /\ UNCHANGED <<issued, nodes, links, users>>

\* The layout command writes a place it computed only if there still is none.
PositionUnpositionedNode(n, p) ==
    LET after == [nodes[n] EXCEPT !.position = p]
    IN  /\ nodes[n] # Null
        /\ nodes[n].position = Origin
        /\ p \in Positions
        /\ nodes' = [nodes EXCEPT ![n] = after]
        /\ notices' = Notify(n, nodes[n], after, {})
        /\ UNCHANGED <<issued, links, hooks, users>>

-----------------------------------------------------------------------------
(* What UserService does to the rows CanRead consults                      *)

\* Mutant: writes the row of a user that has none.
UpsertUser(u, isEnabled, isAdmin) ==
    /\ enabled' = IF isEnabled THEN enabled \cup {u} ELSE enabled \ {u}
    /\ admins' = IF isAdmin THEN admins \cup {u} ELSE admins \ {u}
    /\ notices' = {}
    /\ UNCHANGED <<graph, accounts>>

UpdateUser(u, isEnabled, isAdmin) ==
    /\ u \in accounts
    /\ enabled' = IF isEnabled THEN enabled \cup {u} ELSE enabled \ {u}
    /\ admins' = IF isAdmin THEN admins \cup {u} ELSE admins \ {u}
    /\ notices' = {}
    /\ UNCHANGED <<graph, accounts>>

\* Removes the user's row and nothing else: owned nodes and hooks stay.
DeleteUser(u) ==
    /\ u \in accounts
    /\ accounts' = accounts \ {u}
    /\ enabled' = enabled \ {u}
    /\ admins' = admins \ {u}
    /\ notices' = {}
    /\ UNCHANGED graph

-----------------------------------------------------------------------------

\* The steps a request of caller c can take.
By(c) ==
    \/ \E id \in NodeIds, row \in Row, targets \in SUBSET NodeIds, p \in Positions :
           CreateNode(c, id, row, targets, p)
    \/ \E n \in NodeIds :
          \/ Delete(c, n)
          \/ \E new \in Row : Patch(c, n, new)
          \/ \E content \in Contents : UploadContent(c, n, content)
          \/ \E content \in Contents : PatchContent(c, n, content)
          \/ \E u \in Users, t \in Tags :
                \/ \E events \in Filters : RegisterHook(c, n, u, t, events)
                \/ DeleteHook(c, n, u, t)
    \/ \E s, t \in NodeIds :
          \/ \E label \in Labels, p \in Positions : LinkNodes(c, s, t, label, p)
          \/ UnlinkNodes(c, s, t)
          \/ \E patch \in Patches : PatchLink(c, s, t, patch)

Operator ==
    \/ \E n \in NodeIds, p \in Positions : PositionUnpositionedNode(n, p)
    \/ \E u \in Managed, isEnabled, isAdmin \in BOOLEAN : UpdateUser(u, isEnabled, isAdmin)
    \/ \E u \in Managed : DeleteUser(u)

Next == Operator \/ \E c \in Callers : By(c)

Spec == Init /\ [][Next]_vars

-----------------------------------------------------------------------------
(* Invariants                                                              *)

\* A subscription watches a node that exists: deleting a node takes its hooks
\* along and no hook can be registered for a node that is not there, so an id
\* never inherits the subscribers of another node.
HooksWatchNodes == \A k \in HookKeys : hooks[k] # {} => nodes[k[1]] # Null

\* What LinkNodes and its tests promise: two nodes are joined by one link at
\* most, whichever of them it starts from.  The code does not keep it: the link
\* table has no key, and CreateNode inserts its links without looking.
OneLinkPerPair ==
    \A k, l \in links : {k.source, k.target} = {l.source, l.target} => k = l

\* A link starts at a node that exists.  (Its target may have been deleted, or
\* not created yet, when the link was made: CreateNode does not look.)
SourcesExist == \A l \in links : nodes[l.source] # Null

-----------------------------------------------------------------------------
(* Action properties                                                       *)

\* The pairs of nodes joined by two links, and the nodes linked to themselves.
Doubled(ls) ==
    {{l.source, l.target} :
        l \in {k \in ls : \/ k.source = k.target
                         \/ \E j \in ls \ {k} :
                               {j.source, j.target} = {k.source, k.target}}}

\* The one way to join a pair twice, or a node to itself, is to name a node ahead
\* of its creation: the step creates a node, and the link it doubles named that
\* node before there was one, or the creation itself did.  No order of links,
\* unlinks, patches and deletions does it, in either direction.
DoublesOnlyAhead ==
    [][\A pair \in Doubled(links') \ Doubled(links) :
         \E n \in issued' \ issued :
            pair = {n} \/ \E l \in links : l.target = n /\ pair = {l.source, n}]_vars

\* No step leaves a link behind whose end it removed.
DeletionTakesLinks ==
    [][\A l \in links \cap links' : nodes[l.target] # Null => nodes'[l.target] # Null]_vars

\* The links of node n as its subscribers may count on hearing of them: of a pair
\* joined twice, PatchLink compares whatever rows it reads.
Followed(n, ls) ==
    LET own == Incident(n, ls)
        Alone(l) == \A k \in own : {k.source, k.target} = {l.source, l.target} => k = l
    IN  {IF Alone(l) THEN l ELSE [l EXCEPT !.label = DefaultLabel] : l \in own}

\* What happens to node n in a step: the columns of its row that change, or its
\* deletion, and whether its links change.
StepChanges(n) == IF nodes[n] = Null THEN {} ELSE Changed(nodes[n], nodes'[n])
StepKinds(n) ==
    KindsOf(StepChanges(n)) \cup
    (IF Followed(n, links) # Followed(n, links') THEN {"Links"} ELSE {})

\* A step takes or patches a link of node n to itself.
TouchesLoop(n) == \E l \in links \ links' : l.source = n /\ l.target = n

To(k, ms) == {m \in ms : m.node = k[1] /\ m.to = k[2] /\ m.tag = k[3]}

\* Whatever handler changes a node or its links, and whichever columns it sets
\* on the way (the anchoring of LinkNodes, the substance a content write
\* clears), each hook subscribed to that kind whose user can read the node gets
\* exactly one message, listing every changed column; the same one twice only when
\* the node loses, or has patched, a link to itself.
SubscribersAreTold ==
    [][\A k \in HookKeys :
         LET n == k[1] IN
         /\ nodes[n] # Null
         /\ CanRead(nodes[n], k[2])
         /\ \/ nodes'[n] = Null /\ hooks[k] # {}
            \/ hooks[k] \cap StepKinds(n) # {} /\ CanRead(nodes[n], k[2])'
         => \E m \in notices' :
               /\ \/ To(k, notices') = {m}
                  \/ TouchesLoop(n) /\ To(k, notices') = {m, Again(m)}
               /\ StepChanges(n) \subseteq m.says]_vars

\* Whatever kinds a hook asked for, the user who can no longer read the node
\* because of its new owner or access mask is told exactly that, and nothing of
\* what else the step changed.
RevocationIsTold ==
    [][\A k \in HookKeys :
         LET n == k[1] IN
         /\ hooks[k] # {} /\ hooks'[k] # {}
         /\ CanRead(nodes[n], k[2]) /\ ~CanRead(nodes[n], k[2])'
         /\ UNCHANGED users
         => \E m \in notices' : To(k, notices') = {m} /\ ~m.full]_vars

\* A message that lists changes goes only to who can read the node after them
\* (or could, when the node is gone); a bare one only to who just lost access.
NoticesOnlyToReaders ==
    [][\A m \in notices' :
         IF m.full
         THEN \/ CanRead(nodes[m.node], m.to)'
              \/ nodes'[m.node] = Null /\ CanRead(nodes[m.node], m.to)
         ELSE /\ CanRead(nodes[m.node], m.to)
              /\ ~CanRead(nodes[m.node], m.to)']_vars

\* No request of a caller without admin rights gives that caller a right on a
\* node it did not have: owning a node is the only way to open it, and write
\* access alone never leads to ownership or to the access mask.
NoSelfGrant ==
    [][\A c \in Callers : ~c.admin /\ By(c) =>
         \A n \in NodeIds, right \in {"Read", "Write"} :
            nodes[n] # Null /\ ~Allowed(nodes[n], c, right) =>
                ~Allowed(nodes[n], c, right)']_vars

\* A caller can do one thing to the row of a node it may not write: by linking
\* a node of its own to it, move it away from the origin.
OthersNodesStay ==
    [][\A c \in Callers : By(c) =>
         \A n \in NodeIds :
            nodes[n] # Null /\ ~Allowed(nodes[n], c, "Write") =>
                \/ nodes'[n] = nodes[n]
                \/ /\ nodes[n].position = Origin
                   /\ \E p \in Positions : nodes'[n] = [nodes[n] EXCEPT !.position = p]]_vars

\* The promise of the tool that registers hooks, "loss of read access [is]
\* always delivered", read to the letter: for whatever reason the access of an
\* enabled user goes.
LossOfReadIsDelivered ==
    [][\A k \in HookKeys :
         /\ hooks[k] # {} /\ hooks'[k] # {}
         /\ CanRead(nodes[k[1]], k[2]) /\ ~CanRead(nodes[k[1]], k[2])'
         /\ k[2] \in enabled'
         => To(k, notices') # {}]_vars

=============================================================================
