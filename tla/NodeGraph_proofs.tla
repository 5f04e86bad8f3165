--------------------------- MODULE NodeGraph_proofs ---------------------------
(***************************************************************************)
(* Proofs about NodeGraph, for every value of its constants.               *)
(***************************************************************************)
EXTENDS NodeGraph, TLAPS

(***************************************************************************)
(* The inductive invariant.  CreateNode inserts its links without looking   *)
(* for existing ones: what it leaves true is that no two rows run the same  *)
(* way, because the id it hands out never had a node for a row to start at. *)
(***************************************************************************)
FreshIdsUnused == \A n \in NodeIds \ issued : nodes[n] = Null

OneRowEachWay ==
    \A k, l \in links : k.source = l.source /\ k.target = l.target => k = l

Integrity ==
    /\ FreshIdsUnused
    /\ HooksWatchNodes
    /\ OneRowEachWay
    /\ SourcesExist

-----------------------------------------------------------------------------
(* Lemmas about the operators                                              *)

\* The messages Notify makes are messages.
LEMMA NotifyType ==
    ASSUME TypeOK,
           NEW n \in NodeIds,
           NEW before \in Row \cup {Null}, NEW after \in Row \cup {Null},
           NEW edges \in SUBSET Edges
    PROVE  Notify(n, before, after, edges) \subseteq Message
<1> DEFINE changes == Changed(before, after) \cup edges
<1>1. changes \subseteq Columns \cup Edges \cup {"deleted"}
  BY DEF Changed, Columns
<1>2. ASSUME NEW k \in Users \X Tags
      PROVE  [to |-> k[1], node |-> n, tag |-> k[2], full |-> BodyLists(after, k[1]),
              copy |-> 1, says |-> IF BodyLists(after, k[1]) THEN changes ELSE {}] \in Message
  <2>1. BodyLists(after, k[1]) \in BOOLEAN
    BY DEF BodyLists, CanRead
  <2>2. k[1] \in Users /\ k[2] \in Tags
    OBVIOUS
  <2> QED
    BY <1>1, <2>1, <2>2 DEF Message
<1> QED
  BY <1>2 DEF Notify

\* So are those of a set of nodes whose links change.
LEMMA EdgeNoticesType ==
    ASSUME TypeOK, NEW ns \in SUBSET NodeIds, NEW edge \in Edges
    PROVE  EdgeNotices(ns, edge) \subseteq Message
<1>1. ASSUME NEW m \in ns
      PROVE  Notify(m, nodes[m], nodes[m], {edge}) \subseteq Message
  BY NotifyType DEF TypeOK
<1> QED
  BY <1>1 DEF EdgeNotices

LEMMA AgainType ==
    ASSUME NEW m \in Message
    PROVE  Again(m) \in Message
  BY DEF Again, Message

LEMMA PairNoticesType ==
    ASSUME TypeOK, NEW s \in NodeIds, NEW t \in NodeIds, NEW edge \in Edges
    PROVE  PairNotices(s, t, edge) \subseteq Message
<1>1. EdgeNotices({s, t}, edge) \subseteq Message /\ EdgeNotices({s}, edge) \subseteq Message
  BY EdgeNoticesType
<1>2. {Again(m) : m \in EdgeNotices({s}, edge)} \subseteq Message
  BY <1>1, AgainType
<1> QED
  BY <1>1, <1>2 DEF PairNotices

\* Anchoring moves a row at most to place p.
LEMMA AnchoredRow ==
    ASSUME NEW row \in Row, NEW anchors, NEW p \in Positions
    PROVE  /\ Anchored(row, anchors, p) \in Row
           /\ Anchored(row, anchors, p).owner = row.owner
           /\ Anchored(row, anchors, p).access = row.access
           /\ \/ Anchored(row, anchors, p) = row
              \/ row.position = Origin /\ Anchored(row, anchors, p) = [row EXCEPT !.position = p]
  BY DEF Anchored, Row

-----------------------------------------------------------------------------
(* Type correctness                                                        *)

LEMMA TypeInit == Init => TypeOK
  BY ConstantsAssumption DEF Init, TypeOK

LEMMA TypeCreate ==
    ASSUME TypeOK, NEW c \in Callers, NEW id \in NodeIds, NEW row \in Row,
           NEW targets \in SUBSET NodeIds, NEW p \in Positions,
           CreateNode(c, id, row, targets, p)
    PROVE  TypeOK'
<1>1. targets \subseteq NodeIds /\ issued' \subseteq NodeIds
  BY DEF CreateNode, TypeOK
<1>2. nodes' \in [NodeIds -> Row \cup {Null}]
  BY <1>1, AnchoredRow DEF CreateNode, TypeOK
<1>3. links' \subseteq Link
  BY <1>1, ConstantsAssumption DEF CreateNode, TypeOK, Link
<1>4. notices' \subseteq Message
  BY <1>1, EdgeNoticesType DEF CreateNode, Edges
<1> QED
  BY <1>1, <1>2, <1>3, <1>4 DEF CreateNode, TypeOK, users

LEMMA TypeDelete ==
    ASSUME TypeOK, NEW c \in Callers, NEW n \in NodeIds, Delete(c, n)
    PROVE  TypeOK'
<1>1. nodes' \in [NodeIds -> Row \cup {Null}] /\ links' \subseteq Link
  BY DEF Delete, TypeOK
<1>2. hooks' \in [HookKeys -> SUBSET Kinds]
  BY DEF Delete, TypeOK
<1>3. notices' \subseteq Message
  <2>1. Neighbors(n) \ {n} \in SUBSET NodeIds
    BY DEF Neighbors, TypeOK, Link
  <2>2. Notify(n, nodes[n], Null, {}) \subseteq Message
    BY NotifyType DEF TypeOK
  <2> QED
    BY <2>1, <2>2, EdgeNoticesType DEF Delete, Edges
<1> QED
  BY <1>1, <1>2, <1>3 DEF Delete, TypeOK, users

LEMMA TypeLink ==
    ASSUME TypeOK, NEW c \in Callers, NEW s \in NodeIds, NEW t \in NodeIds,
           NEW label \in Labels, NEW p \in Positions, LinkNodes(c, s, t, label, p)
    PROVE  TypeOK'
<1> DEFINE source == Anchored(nodes[s], {nodes[t]}, p)
           target == Anchored(nodes[t], {source}, p)
<1>1. nodes[s] \in Row /\ nodes[t] \in Row
  BY DEF LinkNodes, Allowed, TypeOK
<1>2. source \in Row
  BY <1>1, AnchoredRow
<1>3. target \in Row
  BY <1>1, AnchoredRow
<1>4. nodes' = [nodes EXCEPT ![s] = source, ![t] = target]
  BY DEF LinkNodes
<1>5. notices' = Notify(s, nodes[s], source, {"Link added"}) \cup
                 Notify(t, nodes[t], target, {"Link added"})
  BY DEF LinkNodes
<1> HIDE DEF source, target
<1>6. nodes' \in [NodeIds -> Row \cup {Null}]
  BY <1>2, <1>3, <1>4 DEF TypeOK
<1>7. {"Link added"} \in SUBSET Edges
  BY DEF Edges
<1>8. notices' \subseteq Message
  BY <1>1, <1>2, <1>3, <1>5, <1>7, NotifyType
<1>9. links' = links \cup {[source |-> s, target |-> t, label |-> label]}
  BY DEF LinkNodes
<1>10. links' \subseteq Link
  BY <1>9 DEF TypeOK, Link
<1> QED
  BY <1>6, <1>8, <1>10 DEF LinkNodes, TypeOK, users

LEMMA TypeUnlink ==
    ASSUME TypeOK, NEW c \in Callers, NEW s \in NodeIds, NEW t \in NodeIds,
           UnlinkNodes(c, s, t)
    PROVE  TypeOK'
<1>1. notices' \subseteq Message
  BY PairNoticesType DEF UnlinkNodes, Edges
<1> QED
  BY <1>1 DEF UnlinkNodes, TypeOK, users

LEMMA TypePatchLink ==
    ASSUME TypeOK, NEW c \in Callers, NEW s \in NodeIds, NEW t \in NodeIds,
           NEW patch \in Patches, PatchLink(c, s, t, patch)
    PROVE  TypeOK'
<1>1. notices' = {} \/ notices' = PairNotices(s, t, "Link changed")
  BY DEF PatchLink
<1>2. notices' \subseteq Message
  BY <1>1, PairNoticesType DEF Edges
<1>3. \A l \in Link : [l EXCEPT !.label = patch[l.label]] \in Link
  BY ConstantsAssumption DEF Link
<1>4. links' \subseteq Link
  BY <1>3 DEF PatchLink, TypeOK, Between
<1> QED
  BY <1>2, <1>4 DEF PatchLink, TypeOK, users

\* The mutations that write one row of the node table and tell its hooks.
LEMMA TypeRow ==
    ASSUME TypeOK, NEW n \in NodeIds, NEW after \in Row,
           nodes[n] # Null,
           nodes' = [nodes EXCEPT ![n] = after],
           notices' = Notify(n, nodes[n], after, {}),
           UNCHANGED <<issued, links, hooks, users>>
    PROVE  TypeOK'
<1>1. nodes' \in [NodeIds -> Row \cup {Null}]
  BY DEF TypeOK
<1>2. nodes[n] \in Row \cup {Null}
  BY DEF TypeOK
<1>3. notices' \subseteq Message
  BY <1>2, NotifyType
<1> QED
  BY <1>1, <1>3 DEF TypeOK, users

LEMMA TypeContent ==
    ASSUME TypeOK, NEW c \in Callers, NEW n \in NodeIds, NEW content \in Contents,
           UploadContent(c, n, content) \/ PatchContent(c, n, content)
    PROVE  TypeOK'
<1>1. nodes[n] \in Row /\ nodes[n] # Null
  BY DEF UploadContent, PatchContent, Allowed, TypeOK
<1>2. WithContent(nodes[n], content) \in Row
  BY <1>1 DEF WithContent, Row
<1> QED
  BY <1>1, <1>2, TypeRow DEF UploadContent, PatchContent

LEMMA TypePosition ==
    ASSUME TypeOK, NEW n \in NodeIds, NEW p \in Positions, PositionUnpositionedNode(n, p)
    PROVE  TypeOK'
<1>1. nodes[n] \in Row /\ nodes[n] # Null
  BY DEF PositionUnpositionedNode, TypeOK
<1>2. [nodes[n] EXCEPT !.position = p] \in Row
  BY <1>1 DEF Row
<1> QED
  BY <1>1, <1>2, TypeRow DEF PositionUnpositionedNode

LEMMA TypeStep == TypeOK /\ [Next]_vars => TypeOK'
<1> SUFFICES ASSUME TypeOK, [Next]_vars PROVE TypeOK'
  OBVIOUS
<1>1. ASSUME NEW c \in Callers, By(c) PROVE TypeOK'
  <2>1. ASSUME NEW n \in NodeIds, NEW new \in Row, Patch(c, n, new) PROVE TypeOK'
    BY <2>1, TypeRow DEF Patch
  <2>2. ASSUME NEW n \in NodeIds, NEW u \in Users, NEW t \in Tags, NEW events \in Filters,
               RegisterHook(c, n, u, t, events)
        PROVE  TypeOK'
    BY <2>2, ConstantsAssumption DEF RegisterHook, TypeOK, users, Message
  <2>3. ASSUME NEW n \in NodeIds, NEW u \in Users, NEW t \in Tags, DeleteHook(c, n, u, t)
        PROVE  TypeOK'
    BY <2>3 DEF DeleteHook, TypeOK, users, Message
  <2> QED
    BY <1>1, <2>1, <2>2, <2>3, TypeCreate, TypeDelete, TypeLink, TypeUnlink,
       TypePatchLink, TypeContent DEF By
<1>2. CASE Operator
  <2>1. ASSUME NEW u \in Managed, NEW isEnabled \in BOOLEAN, NEW isAdmin \in BOOLEAN,
               UpdateUser(u, isEnabled, isAdmin)
        PROVE  TypeOK'
    BY <2>1 DEF UpdateUser, TypeOK, graph
  <2>2. ASSUME NEW u \in Managed, DeleteUser(u) PROVE TypeOK'
    BY <2>2 DEF DeleteUser, TypeOK, graph
  <2> QED
    BY <1>2, <2>1, <2>2, TypePosition DEF Operator
<1>3. CASE UNCHANGED vars
  BY <1>3 DEF vars, TypeOK
<1> QED
  BY <1>1, <1>2, <1>3 DEF Next

\* Every table only ever holds well-formed rows.
THEOREM TypeCorrect == Spec => []TypeOK
  BY TypeInit, TypeStep, PTL DEF Spec

-----------------------------------------------------------------------------
(* Integrity of the tables                                                 *)

LEMMA IntegrityInit == Init => Integrity
  BY DEF Init, Integrity, FreshIdsUnused, HooksWatchNodes, OneRowEachWay, SourcesExist, HookKeys

\* A link starts at an id that was handed out.
LEMMA SourcesIssued ==
    ASSUME TypeOK, Integrity, NEW l \in links
    PROVE  l.source \in issued
  BY DEF Integrity, SourcesExist, FreshIdsUnused, TypeOK, Link

LEMMA IntegrityCreate ==
    ASSUME TypeOK, Integrity, NEW c \in Callers, NEW id \in NodeIds, NEW row \in Row,
           NEW targets \in SUBSET NodeIds, NEW p \in Positions,
           CreateNode(c, id, row, targets, p)
    PROVE  Integrity'
<1> DEFINE new == Anchored(row, {nodes[t] : t \in targets}, p)
           fresh == [source : {id}, target : targets, label : {DefaultLabel}]
<1>1. id \notin issued /\ issued' = issued \cup {id}
  BY DEF CreateNode
<1>2. nodes' = [nodes EXCEPT ![id] = new]
  BY DEF CreateNode
<1>3. new # Null
  BY AnchoredRow, ConstantsAssumption
<1>4. links' = links \cup fresh
  BY DEF CreateNode
<1>5. hooks' = hooks
  BY DEF CreateNode
<1> HIDE DEF new
<1>6. \A l \in fresh : l.source = id
  OBVIOUS
<1>7. \A k, l \in fresh : k.target = l.target => k = l
  OBVIOUS
<1> HIDE DEF fresh
<1>8. FreshIdsUnused'
  BY <1>1, <1>2 DEF Integrity, FreshIdsUnused, TypeOK
<1>9. HooksWatchNodes'
  BY <1>2, <1>3, <1>5 DEF Integrity, HooksWatchNodes, TypeOK, HookKeys
<1>10. OneRowEachWay'
  <2>1. \A l \in links : l.source # id
    BY <1>1, SourcesIssued
  <2> QED
    BY <1>4, <1>6, <1>7, <2>1 DEF Integrity, OneRowEachWay
<1>11. SourcesExist'
  BY <1>2, <1>3, <1>4, <1>6 DEF Integrity, SourcesExist, TypeOK, Link
<1> QED
  BY <1>8, <1>9, <1>10, <1>11 DEF Integrity

LEMMA IntegrityDelete ==
    ASSUME TypeOK, Integrity, NEW c \in Callers, NEW n \in NodeIds, Delete(c, n)
    PROVE  Integrity'
<1>1. FreshIdsUnused'
  BY DEF Integrity, FreshIdsUnused, Delete, TypeOK
<1>2. HooksWatchNodes'
  BY DEF Integrity, HooksWatchNodes, Delete, TypeOK, HookKeys
<1>3. OneRowEachWay'
  BY DEF Integrity, OneRowEachWay, Delete
<1>4. SourcesExist'
  BY DEF Integrity, SourcesExist, Delete, Incident, TypeOK, Link
<1> QED
  BY <1>1, <1>2, <1>3, <1>4 DEF Integrity

LEMMA IntegrityLink ==
    ASSUME TypeOK, Integrity, NEW c \in Callers, NEW s \in NodeIds, NEW t \in NodeIds,
           NEW label \in Labels, NEW p \in Positions, LinkNodes(c, s, t, label, p)
    PROVE  Integrity'
<1> DEFINE source == Anchored(nodes[s], {nodes[t]}, p)
           target == Anchored(nodes[t], {source}, p)
<1>1. /\ nodes' = [nodes EXCEPT ![s] = source, ![t] = target]
      /\ links' = links \cup {[source |-> s, target |-> t, label |-> label]}
      /\ issued' = issued /\ hooks' = hooks
      /\ s # t /\ nodes[s] # Null /\ nodes[t] # Null /\ Between(s, t) = {}
  BY DEF LinkNodes, Allowed
<1>2. nodes[s] \in Row /\ nodes[t] \in Row
  BY <1>1 DEF TypeOK
<1>3. source \in Row
  BY <1>2, AnchoredRow
<1>4. target \in Row
  BY <1>2, AnchoredRow
<1> HIDE DEF source, target
<1>5. \A n \in NodeIds : nodes'[n] = Null <=> nodes[n] = Null
  BY <1>1, <1>3, <1>4, ConstantsAssumption DEF TypeOK
<1>6. FreshIdsUnused'
  BY <1>1, <1>5 DEF Integrity, FreshIdsUnused
<1>7. HooksWatchNodes'
  BY <1>1, <1>5 DEF Integrity, HooksWatchNodes, HookKeys
<1>8. OneRowEachWay'
  <2>1. \A l \in links : ~(l.source = s /\ l.target = t)
    BY <1>1 DEF Between
  <2> QED
    BY <1>1, <2>1 DEF Integrity, OneRowEachWay
<1>9. SourcesExist'
  BY <1>1, <1>5 DEF Integrity, SourcesExist, TypeOK, Link
<1> QED
  BY <1>6, <1>7, <1>8, <1>9 DEF Integrity

LEMMA IntegrityUnlink ==
    ASSUME TypeOK, Integrity, NEW c \in Callers, NEW s \in NodeIds, NEW t \in NodeIds,
           UnlinkNodes(c, s, t)
    PROVE  Integrity'
<1>1. links' \subseteq links /\ UNCHANGED <<issued, nodes, hooks>>
  BY DEF UnlinkNodes
<1> QED
  BY <1>1 DEF Integrity, FreshIdsUnused, HooksWatchNodes, OneRowEachWay, SourcesExist

\* PatchLink takes each row to one with the same ends: the rows of the pair to
\* their patched selves, and any other row to itself.
Patched(l, B, patch) == IF l \in B THEN [l EXCEPT !.label = patch[l.label]] ELSE l

LEMMA PatchedRows ==
    ASSUME TypeOK, Integrity, NEW c \in Callers, NEW s \in NodeIds, NEW t \in NodeIds,
           NEW patch \in Patches, PatchLink(c, s, t, patch)
    PROVE  /\ links' = {Patched(l, Between(s, t), patch) : l \in links}
           /\ \A l \in links :
                 /\ Patched(l, Between(s, t), patch) \in Link
                 /\ Patched(l, Between(s, t), patch).source = l.source
                 /\ Patched(l, Between(s, t), patch).target = l.target
           /\ OneRowEachWay'
<1> DEFINE B == Between(s, t)
<1>1. B \subseteq links
  BY DEF Between
<1>2. links' = (links \ B) \cup {[l EXCEPT !.label = patch[l.label]] : l \in B}
  BY DEF PatchLink
<1> HIDE DEF B
<1>3. links' = {Patched(l, B, patch) : l \in links}
  BY <1>1, <1>2 DEF Patched
<1>4. \A l \in links : /\ Patched(l, B, patch) \in Link
                       /\ Patched(l, B, patch).source = l.source
                       /\ Patched(l, B, patch).target = l.target
  BY ConstantsAssumption DEF Patched, Link, TypeOK
<1>5. OneRowEachWay'
  BY <1>3, <1>4 DEF Integrity, OneRowEachWay
<1> QED
  BY <1>3, <1>4, <1>5 DEF B

LEMMA IntegrityPatchLink ==
    ASSUME TypeOK, Integrity, NEW c \in Callers, NEW s \in NodeIds, NEW t \in NodeIds,
           NEW patch \in Patches, PatchLink(c, s, t, patch)
    PROVE  Integrity'
<1>1. UNCHANGED <<issued, nodes, hooks>>
  BY DEF PatchLink
<1>2. \A l \in links' : \E k \in links : l.source = k.source
  BY PatchedRows
<1>3. FreshIdsUnused' /\ HooksWatchNodes' /\ SourcesExist'
  BY <1>1, <1>2 DEF Integrity, FreshIdsUnused, HooksWatchNodes, SourcesExist
<1> QED
  BY <1>3, PatchedRows DEF Integrity

\* Steps that neither add nor remove rows, and leave links and hooks alone.
LEMMA IntegrityRows ==
    ASSUME Integrity, UNCHANGED <<issued, links, hooks>>,
           \A n \in NodeIds : nodes'[n] = Null <=> nodes[n] = Null,
           TypeOK
    PROVE  Integrity'
  BY DEF Integrity, FreshIdsUnused, HooksWatchNodes, OneRowEachWay, SourcesExist,
         HookKeys, TypeOK, Link

LEMMA IntegrityStep == TypeOK /\ Integrity /\ [Next]_vars => Integrity'
<1> SUFFICES ASSUME TypeOK, Integrity, [Next]_vars PROVE Integrity'
  OBVIOUS
<1>1. ASSUME NEW c \in Callers, By(c) PROVE Integrity'
  <2>1. ASSUME NEW n \in NodeIds, NEW new \in Row, Patch(c, n, new) PROVE Integrity'
    BY <2>1, IntegrityRows, ConstantsAssumption DEF Patch, TypeOK
  <2>2. ASSUME NEW n \in NodeIds, NEW content \in Contents,
               UploadContent(c, n, content) \/ PatchContent(c, n, content)
        PROVE  Integrity'
    <3>1. nodes[n] \in Row /\ nodes[n] # Null
      BY <2>2 DEF UploadContent, PatchContent, Allowed, TypeOK
    <3>2. WithContent(nodes[n], content) \in Row
      BY <3>1 DEF WithContent, Row
    <3> QED
      BY <2>2, <3>1, <3>2, IntegrityRows, ConstantsAssumption
      DEF UploadContent, PatchContent, TypeOK
  <2>3. ASSUME NEW n \in NodeIds, NEW u \in Users, NEW t \in Tags, NEW events \in Filters,
               RegisterHook(c, n, u, t, events)
        PROVE  Integrity'
    <3>1. UNCHANGED <<issued, nodes, links>> /\ nodes[n] # Null
      BY <2>3 DEF RegisterHook, CanRead
    <3>2. \A k \in HookKeys : k # <<n, u, t>> => hooks'[k] = hooks[k]
      BY <2>3 DEF RegisterHook, TypeOK
    <3>3. HooksWatchNodes'
      BY <3>1, <3>2 DEF Integrity, HooksWatchNodes
    <3>4. FreshIdsUnused' /\ OneRowEachWay' /\ SourcesExist'
      BY <3>1 DEF Integrity, FreshIdsUnused, OneRowEachWay, SourcesExist
    <3> QED
      BY <3>3, <3>4 DEF Integrity
  <2>4. ASSUME NEW n \in NodeIds, NEW u \in Users, NEW t \in Tags, DeleteHook(c, n, u, t)
        PROVE  Integrity'
    BY <2>4 DEF DeleteHook, Integrity, FreshIdsUnused, HooksWatchNodes,
       OneRowEachWay, SourcesExist, TypeOK, HookKeys
  <2> QED
    BY <1>1, <2>1, <2>2, <2>3, <2>4, IntegrityCreate, IntegrityDelete, IntegrityLink,
       IntegrityUnlink, IntegrityPatchLink DEF By
<1>2. CASE Operator
  <2>1. ASSUME NEW n \in NodeIds, NEW p \in Positions, PositionUnpositionedNode(n, p)
        PROVE  Integrity'
    <3>1. nodes[n] \in Row
      BY <2>1 DEF PositionUnpositionedNode, TypeOK
    <3>2. [nodes[n] EXCEPT !.position = p] \in Row
      BY <3>1 DEF Row
    <3> QED
      BY <2>1, <3>1, <3>2, IntegrityRows, ConstantsAssumption DEF PositionUnpositionedNode, TypeOK
  <2>2. ASSUME UNCHANGED graph PROVE Integrity'
    BY <2>2, IntegrityRows DEF graph
  <2> QED
    BY <1>2, <2>1, <2>2 DEF Operator, UpdateUser, DeleteUser
<1>3. CASE UNCHANGED vars
  BY <1>3, IntegrityRows DEF vars
<1> QED
  BY <1>1, <1>2, <1>3 DEF Next

LEMMA IntegrityAlways == Spec => [](TypeOK /\ Integrity)
  BY TypeInit, TypeStep, IntegrityInit, IntegrityStep, PTL DEF Spec

\* No id inherits the subscribers of a deleted node.
THEOREM HooksWatchNodesAlways == Spec => []HooksWatchNodes
<1>1. Integrity => HooksWatchNodes
  BY DEF Integrity
<1> QED
  BY <1>1, IntegrityAlways, PTL

-----------------------------------------------------------------------------
(* Pairs joined twice                                                      *)

LEMMA InDoubled ==
    ASSUME NEW ls, NEW pair
    PROVE  pair \in Doubled(ls) <=>
             \E l \in ls :
                /\ pair = {l.source, l.target}
                /\ \/ l.source = l.target
                   \/ \E j \in ls : j # l /\ {j.source, j.target} = {l.source, l.target}
  BY DEF Doubled

LEMMA DoublesKept ==
    ASSUME links' \subseteq links
    PROVE  Doubled(links') \subseteq Doubled(links)
<1>1. ASSUME NEW pair \in Doubled(links') PROVE pair \in Doubled(links)
  BY <1>1, InDoubled
<1> QED
  BY <1>1

LEMMA DoublesPatched ==
    ASSUME TypeOK, Integrity, NEW c \in Callers, NEW s \in NodeIds, NEW t \in NodeIds,
           NEW patch \in Patches, PatchLink(c, s, t, patch)
    PROVE  Doubled(links') \subseteq Doubled(links)
<1> DEFINE image(l) == Patched(l, Between(s, t), patch)
<1>1. /\ links' = {image(l) : l \in links}
      /\ \A l \in links : image(l).source = l.source /\ image(l).target = l.target
  BY PatchedRows
<1> HIDE DEF image
<1>2. ASSUME NEW pair \in Doubled(links') PROVE pair \in Doubled(links)
  <2>1. PICK l \in links' :
           /\ pair = {l.source, l.target}
           /\ \/ l.source = l.target
              \/ \E j \in links' : j # l /\ {j.source, j.target} = {l.source, l.target}
    BY InDoubled
  <2>2. PICK k \in links : l = image(k)
    BY <1>1
  <2>3. l.source = k.source /\ l.target = k.target
    BY <1>1, <2>2
  <2>4. CASE l.source = l.target
    BY <2>1, <2>3, <2>4, InDoubled
  <2>5. ASSUME NEW j \in links', j # l, {j.source, j.target} = {l.source, l.target}
        PROVE  pair \in Doubled(links)
    <3>1. PICK i \in links : j = image(i)
      BY <1>1
    <3>2. i # k /\ {i.source, i.target} = {k.source, k.target}
      BY <1>1, <2>2, <2>3, <2>5, <3>1
    <3> QED
      BY <2>1, <2>3, <3>2, InDoubled
  <2> QED
    BY <2>1, <2>4, <2>5
<1> QED
  BY <1>2

LEMMA DoublesLinked ==
    ASSUME NEW c \in Callers, NEW s \in NodeIds, NEW t \in NodeIds,
           NEW label \in Labels, NEW p \in Positions, LinkNodes(c, s, t, label, p)
    PROVE  Doubled(links') \subseteq Doubled(links)
<1> DEFINE new == [source |-> s, target |-> t, label |-> label]
<1>1. links' = links \cup {new} /\ s # t /\ Between(s, t) = {}
  BY DEF LinkNodes
<1>2. new.source = s /\ new.target = t
  OBVIOUS
<1>3. \A l \in links : {l.source, l.target} # {s, t}
  BY <1>1 DEF Between
<1> HIDE DEF new
<1>4. ASSUME NEW l \in links', NEW j \in links', j # l, {j.source, j.target} = {l.source, l.target}
      PROVE  l \in links /\ j \in links
  BY <1>1, <1>2, <1>3, <1>4
<1> QED
  BY <1>1, <1>2, <1>4, InDoubled

LEMMA DoublesCreated ==
    ASSUME TypeOK, Integrity, NEW c \in Callers, NEW id \in NodeIds, NEW row \in Row,
           NEW targets \in SUBSET NodeIds, NEW p \in Positions,
           CreateNode(c, id, row, targets, p),
           NEW pair \in Doubled(links') \ Doubled(links)
    PROVE  \/ pair = {id}
           \/ \E l \in links : l.target = id /\ pair = {l.source, id}
<1> DEFINE fresh == [source : {id}, target : targets, label : {DefaultLabel}]
<1>1. links' = links \cup fresh /\ id \notin issued
  BY DEF CreateNode
<1>2. \A l \in fresh : l.source = id
  OBVIOUS
<1>3. \A k, l \in fresh : k.target = l.target => k = l
  OBVIOUS
<1> HIDE DEF fresh
<1>4. \A l \in links : l.source # id
  BY <1>1, SourcesIssued
<1>5. PICK l \in links' :
         /\ pair = {l.source, l.target}
         /\ \/ l.source = l.target
            \/ \E j \in links' : j # l /\ {j.source, j.target} = {l.source, l.target}
  BY InDoubled
<1>6. CASE l.source = l.target
  <2>1. l \notin links
    BY <1>5, <1>6, InDoubled
  <2> QED
    BY <1>1, <1>2, <1>5, <1>6, <2>1
<1>7. ASSUME NEW j \in links', j # l, {j.source, j.target} = {l.source, l.target}
      PROVE  \E k \in links : k.target = id /\ pair = {k.source, id}
  <2>1. CASE l \in links /\ j \in links
    BY <1>5, <1>7, <2>1, InDoubled
  <2>2. CASE l \in fresh /\ j \in fresh
    <3>1. l.target = j.target
      BY <1>2, <1>7, <2>2
    <3> QED
      BY <1>3, <1>7, <2>2, <3>1
  <2>3. CASE l \in fresh /\ j \in links
    <3>1. j.target = id
      BY <1>2, <1>4, <1>7, <2>3
    <3> QED
      BY <1>5, <1>7, <2>3, <3>1
  <2>4. CASE l \in links /\ j \in fresh
    <3>1. l.target = id
      BY <1>2, <1>4, <1>7, <2>4
    <3> QED
      BY <1>5, <2>4, <3>1
  <2> QED
    BY <1>1, <2>1, <2>2, <2>3, <2>4
<1> QED
  BY <1>5, <1>6, <1>7

\* No order of creations, links, unlinks, patches and deletions joins a pair twice,
\* whichever end each of them names first, but for a link that named one of the
\* two ahead of its creation.
THEOREM DoublesOnlyAheadAlways == Spec => DoublesOnlyAhead
<1> DEFINE Ahead(pair) ==
             \E n \in issued' \ issued :
                pair = {n} \/ \E l \in links : l.target = n /\ pair = {l.source, n}
           Safe == \A pair \in Doubled(links') \ Doubled(links) : Ahead(pair)
<1>1. ASSUME TypeOK, Integrity, Next, NEW pair \in Doubled(links') \ Doubled(links)
      PROVE  Ahead(pair)
  <2>1. ASSUME NEW c \in Callers, NEW id \in NodeIds, NEW row \in Row,
               NEW targets \in SUBSET NodeIds, NEW p \in Positions,
               CreateNode(c, id, row, targets, p)
        PROVE  Ahead(pair)
    <3>1. id \in issued' \ issued
      BY <2>1 DEF CreateNode
    <3> QED
      BY <1>1, <2>1, <3>1, DoublesCreated
  <2>2. ASSUME NEW c \in Callers, NEW s \in NodeIds, NEW t \in NodeIds,
               NEW label \in Labels, NEW p \in Positions, LinkNodes(c, s, t, label, p)
        PROVE  FALSE
    BY <1>1, <2>2, DoublesLinked
  <2>3. ASSUME NEW c \in Callers, NEW s \in NodeIds, NEW t \in NodeIds,
               NEW patch \in Patches, PatchLink(c, s, t, patch)
        PROVE  FALSE
    BY <1>1, <2>3, DoublesPatched
  <2>4. ~(links' \subseteq links)
    BY <1>1, DoublesKept
  <2>5. \A c, n : ~Delete(c, n)
    BY <2>4 DEF Delete
  <2>6. \A c, s, t : ~UnlinkNodes(c, s, t)
    BY <2>4 DEF UnlinkNodes
  <2>7. \A c, n, new : ~Patch(c, n, new)
    BY <2>4 DEF Patch
  <2>8. \A c, n, content : ~UploadContent(c, n, content) /\ ~PatchContent(c, n, content)
    BY <2>4 DEF UploadContent, PatchContent
  <2>9. \A c, n, u, t, events : ~RegisterHook(c, n, u, t, events) /\ ~DeleteHook(c, n, u, t)
    BY <2>4 DEF RegisterHook, DeleteHook
  <2>10. ~Operator
    BY <2>4 DEF Operator, PositionUnpositionedNode, UpdateUser, DeleteUser, graph
  <2>11. PICK c \in Callers : By(c)
    BY <1>1, <2>10 DEF Next
  <2>12. \E id \in NodeIds, row \in Row, targets \in SUBSET NodeIds, p \in Positions :
            CreateNode(c, id, row, targets, p)
    BY <2>2, <2>3, <2>5, <2>6, <2>7, <2>8, <2>9, <2>11 DEF By
  <2> QED
    BY <2>1, <2>12
<1>2. TypeOK /\ Integrity /\ [Next]_vars => [Safe]_vars
  BY <1>1
<1> QED
  BY <1>2, IntegrityAlways, PTL DEF Spec, DoublesOnlyAhead

-----------------------------------------------------------------------------
(* Links and their ends                                                    *)

\* Every link starts at a node that exists.
THEOREM SourcesExistAlways == Spec => []SourcesExist
<1>1. Integrity => SourcesExist
  BY DEF Integrity
<1> QED
  BY <1>1, IntegrityAlways, PTL

-----------------------------------------------------------------------------
(* What a request can do to a row                                          *)

\* Row n, there before a step of caller c, keeps; is moved from the origin; is
\* deleted with its links, or edited, by right of write access; or is patched by
\* its owner or an admin.
Kept(n)      == nodes'[n] = nodes[n]
Deleted(n)   == nodes'[n] = Null /\ Incident(n, links') = {}
Moved(n)     == /\ nodes[n].position = Origin
                /\ \E p \in Positions : nodes'[n] = [nodes[n] EXCEPT !.position = p]
Edited(n)    == /\ nodes'[n] \in Row
                /\ nodes'[n].owner = nodes[n].owner
                /\ nodes'[n].access = nodes[n].access
Outcome(c, n) ==
    \/ Kept(n)
    \/ Moved(n)
    \/ Allowed(nodes[n], c, "Write") /\ (Deleted(n) \/ Edited(n))
    \/ OwnerOrAdmin(nodes[n], c) /\ nodes'[n] \in Row

LEMMA OutcomeCreate ==
    ASSUME TypeOK, Integrity, NEW c \in Callers, NEW id \in NodeIds, NEW row \in Row,
           NEW targets \in SUBSET NodeIds, NEW p \in Positions,
           CreateNode(c, id, row, targets, p),
           NEW n \in NodeIds, nodes[n] # Null
    PROVE  Kept(n)
<1> DEFINE new == Anchored(row, {nodes[t] : t \in targets}, p)
<1>1. nodes' = [nodes EXCEPT ![id] = new] /\ id \notin issued
  BY DEF CreateNode
<1> HIDE DEF new
<1>2. n # id
  BY <1>1 DEF Integrity, FreshIdsUnused
<1> QED
  BY <1>1, <1>2 DEF Kept, TypeOK

LEMMA OutcomeLink ==
    ASSUME TypeOK, NEW c \in Callers, NEW s \in NodeIds, NEW t \in NodeIds,
           NEW label \in Labels, NEW p \in Positions, LinkNodes(c, s, t, label, p),
           NEW n \in NodeIds, nodes[n] # Null
    PROVE  Kept(n) \/ Moved(n)
<1> DEFINE source == Anchored(nodes[s], {nodes[t]}, p)
           target == Anchored(nodes[t], {source}, p)
<1>1. /\ nodes' = [nodes EXCEPT ![s] = source, ![t] = target]
      /\ s # t /\ nodes[s] # Null /\ nodes[t] # Null
  BY DEF LinkNodes, Allowed
<1>2. nodes[s] \in Row /\ nodes[t] \in Row
  BY <1>1 DEF TypeOK
<1>3. source = nodes[s] \/ (nodes[s].position = Origin /\ source = [nodes[s] EXCEPT !.position = p])
  BY <1>2, AnchoredRow
<1>4. target = nodes[t] \/ (nodes[t].position = Origin /\ target = [nodes[t] EXCEPT !.position = p])
  BY <1>2, AnchoredRow
<1> HIDE DEF source, target
<1>5. nodes'[s] = source /\ nodes'[t] = target /\ (n # s /\ n # t => nodes'[n] = nodes[n])
  BY <1>1 DEF TypeOK
<1>6. CASE n = s
  BY <1>3, <1>5, <1>6 DEF Kept, Moved
<1>7. CASE n = t
  BY <1>4, <1>5, <1>7 DEF Kept, Moved
<1> QED
  BY <1>5, <1>6, <1>7 DEF Kept

LEMMA OutcomePatch ==
    ASSUME TypeOK, NEW c \in Callers, NEW m \in NodeIds, NEW new \in Row, Patch(c, m, new),
           NEW n \in NodeIds, nodes[n] # Null
    PROVE  Outcome(c, n)
<1>1. nodes' = [nodes EXCEPT ![m] = new] /\ nodes[m] # Null
  BY DEF Patch
<1>2. PatchGate(nodes[m], c, Changed(nodes[m], new))
  BY DEF Patch
<1>3. CASE n # m
  BY <1>1, <1>3 DEF Outcome, Kept, TypeOK
<1>4. CASE n = m
  <2>1. nodes'[n] = new /\ new # Null
    BY <1>1, <1>4, ConstantsAssumption DEF TypeOK
  <2>2. CASE "owner" \in Changed(nodes[n], new)
    BY <1>2, <1>4, <2>1, <2>2 DEF PatchGate, Outcome, OwnerOrAdmin
  <2>3. CASE "owner" \notin Changed(nodes[n], new) /\ "access" \in Changed(nodes[n], new)
    BY <1>2, <1>4, <2>1, <2>3 DEF PatchGate, Outcome
  <2>4. CASE "owner" \notin Changed(nodes[n], new) /\ "access" \notin Changed(nodes[n], new)
    <3>1. Allowed(nodes[n], c, "Write")
      BY <1>2, <1>4, <2>4 DEF PatchGate
    <3>2. nodes[n].owner = new.owner /\ nodes[n].access = new.access
      BY <2>1, <2>4 DEF Changed, Columns, Row
    <3> QED
      BY <2>1, <3>1, <3>2 DEF Outcome, Edited
  <2> QED
    BY <2>2, <2>3, <2>4
<1> QED
  BY <1>3, <1>4

LEMMA OutcomeContent ==
    ASSUME TypeOK, NEW c \in Callers, NEW m \in NodeIds, NEW content \in Contents,
           UploadContent(c, m, content) \/ PatchContent(c, m, content),
           NEW n \in NodeIds, nodes[n] # Null
    PROVE  Outcome(c, n)
<1> DEFINE after == WithContent(nodes[m], content)
<1>1. nodes' = [nodes EXCEPT ![m] = after] /\ Allowed(nodes[m], c, "Write")
  BY DEF UploadContent, PatchContent
<1>2. nodes[m] \in Row
  BY <1>1 DEF Allowed, TypeOK
<1>3. after \in Row /\ after.owner = nodes[m].owner /\ after.access = nodes[m].access
  BY <1>2 DEF WithContent, Row
<1> HIDE DEF after
<1> QED
  BY <1>1, <1>3 DEF Outcome, Kept, Edited, TypeOK

LEMMA OutcomeBy ==
    ASSUME TypeOK, Integrity, NEW c \in Callers, By(c), NEW n \in NodeIds, nodes[n] # Null
    PROVE  Outcome(c, n)
<1>1. ASSUME NEW m \in NodeIds, Delete(c, m) PROVE Outcome(c, n)
  BY <1>1 DEF Delete, Outcome, Kept, Deleted, Incident, TypeOK
<1>2. ASSUME NEW s \in NodeIds, NEW t \in NodeIds, UnlinkNodes(c, s, t) PROVE Outcome(c, n)
  BY <1>2 DEF UnlinkNodes, Outcome, Kept
<1>3. ASSUME NEW s \in NodeIds, NEW t \in NodeIds, NEW patch \in Patches, PatchLink(c, s, t, patch)
      PROVE  Outcome(c, n)
  BY <1>3 DEF PatchLink, Outcome, Kept
<1>4. ASSUME NEW m \in NodeIds, NEW u \in Users, NEW t \in Tags, NEW events \in Filters,
             RegisterHook(c, m, u, t, events)
      PROVE  Outcome(c, n)
  BY <1>4 DEF RegisterHook, Outcome, Kept
<1>5. ASSUME NEW m \in NodeIds, NEW u \in Users, NEW t \in Tags, DeleteHook(c, m, u, t)
      PROVE  Outcome(c, n)
  BY <1>5 DEF DeleteHook, Outcome, Kept
<1>6. ASSUME NEW id \in NodeIds, NEW row \in Row, NEW targets \in SUBSET NodeIds,
             NEW p \in Positions, CreateNode(c, id, row, targets, p)
      PROVE  Outcome(c, n)
  BY <1>6, OutcomeCreate DEF Outcome
<1>7. ASSUME NEW s \in NodeIds, NEW t \in NodeIds, NEW label \in Labels, NEW p \in Positions,
             LinkNodes(c, s, t, label, p)
      PROVE  Outcome(c, n)
  BY <1>7, OutcomeLink DEF Outcome
<1> QED
  BY <1>1, <1>2, <1>3, <1>4, <1>5, <1>6, <1>7, OutcomePatch, OutcomeContent DEF By

\* A request never gives its non-admin caller a right it did not have.
THEOREM NoSelfGrantAlways == Spec => NoSelfGrant
<1>1. ASSUME TypeOK, Integrity, NEW c \in Callers, ~c.admin, By(c), NEW n \in NodeIds,
             NEW right \in {"Read", "Write"}, nodes[n] # Null, ~Allowed(nodes[n], c, right)
      PROVE  ~Allowed(nodes[n], c, right)'
  <2>1. Outcome(c, n)
    BY <1>1, OutcomeBy
  <2>2. nodes[n] \in Row
    BY <1>1 DEF TypeOK
  <2>3. CASE Kept(n)
    BY <1>1, <2>3 DEF Kept, Allowed
  <2>4. CASE Moved(n)
    <3>1. PICK p \in Positions : nodes'[n] = [nodes[n] EXCEPT !.position = p]
      BY <2>4 DEF Moved
    <3>2. nodes'[n].owner = nodes[n].owner /\ nodes'[n].access = nodes[n].access
      BY <2>2, <3>1 DEF Row
    <3> QED
      BY <1>1, <3>2 DEF Allowed
  <2>5. CASE Deleted(n)
    BY <2>5 DEF Deleted, Allowed
  <2>6. CASE Edited(n)
    BY <1>1, <2>6 DEF Edited, Allowed
  <2>7. ~OwnerOrAdmin(nodes[n], c)
    BY <1>1 DEF OwnerOrAdmin, Allowed
  <2> QED
    BY <2>1, <2>3, <2>4, <2>5, <2>6, <2>7 DEF Outcome
<1> DEFINE Safe == \A c \in Callers : ~c.admin /\ By(c) =>
                     \A n \in NodeIds, right \in {"Read", "Write"} :
                        nodes[n] # Null /\ ~Allowed(nodes[n], c, right) =>
                            ~Allowed(nodes[n], c, right)'
<1>2. TypeOK /\ Integrity /\ [Next]_vars => [Safe]_vars
  BY <1>1
<1> QED
  BY <1>2, IntegrityAlways, PTL DEF Spec, NoSelfGrant

\* Without write access a caller can do no more to a row than place it.
THEOREM OthersNodesStayAlways == Spec => OthersNodesStay
<1>1. ASSUME TypeOK, Integrity, NEW c \in Callers, By(c), NEW n \in NodeIds,
             nodes[n] # Null, ~Allowed(nodes[n], c, "Write")
      PROVE  Kept(n) \/ Moved(n)
  <2>1. Outcome(c, n)
    BY <1>1, OutcomeBy
  <2>2. ~OwnerOrAdmin(nodes[n], c)
    BY <1>1 DEF OwnerOrAdmin, Allowed
  <2> QED
    BY <1>1, <2>1, <2>2 DEF Outcome
<1> DEFINE Safe == \A c \in Callers : By(c) =>
                     \A n \in NodeIds :
                        nodes[n] # Null /\ ~Allowed(nodes[n], c, "Write") =>
                            \/ nodes'[n] = nodes[n]
                            \/ /\ nodes[n].position = Origin
                               /\ \E p \in Positions :
                                     nodes'[n] = [nodes[n] EXCEPT !.position = p]
<1>2. TypeOK /\ Integrity /\ [Next]_vars => [Safe]_vars
  BY <1>1 DEF Kept, Moved
<1> QED
  BY <1>2, IntegrityAlways, PTL DEF Spec, OthersNodesStay

\* Whatever removes the end of a link removes the link in the same step.
THEOREM DeletionTakesLinksAlways == Spec => DeletionTakesLinks
<1>1. ASSUME TypeOK, Integrity, [Next]_vars, NEW l \in links, l \in links',
             nodes[l.target] # Null
      PROVE  nodes'[l.target] # Null
  <2> DEFINE n == l.target
  <2>1. n \in NodeIds
    BY <1>1 DEF TypeOK, Link
  <2>2. nodes[n] \in Row
    BY <1>1, <2>1 DEF TypeOK
  <2>3. l \in Incident(n, links')
    BY <1>1 DEF Incident
  <2>4. ASSUME nodes[n].position = Origin, NEW p \in Positions,
               nodes'[n] = [nodes[n] EXCEPT !.position = p]
        PROVE  nodes'[n] # Null
    <3>1. nodes'[n] \in Row
      BY <2>2, <2>4 DEF Row
    <3> QED
      BY <3>1, ConstantsAssumption
  <2>5. ASSUME NEW c \in Callers, By(c) PROVE nodes'[n] # Null
    <3>1. Outcome(c, n)
      BY <1>1, <2>1, <2>5, OutcomeBy
    <3> HIDE DEF n
    <3>2. CASE Kept(n)
      BY <1>1, <3>2 DEF Kept, n
    <3>3. CASE Moved(n)
      BY <2>4, <3>3 DEF Moved
    <3> QED
      BY <2>3, <3>1, <3>2, <3>3, ConstantsAssumption DEF Outcome, Deleted, Edited
  <2>6. ASSUME NEW m \in NodeIds, NEW p \in Positions, PositionUnpositionedNode(m, p)
        PROVE  nodes'[n] # Null
    <3> DEFINE after == [nodes[m] EXCEPT !.position = p]
    <3>1. nodes[m] # Null /\ nodes' = [nodes EXCEPT ![m] = after]
      BY <2>6 DEF PositionUnpositionedNode
    <3>2. after \in Row
      <4>1. nodes[m] \in Row
        BY <1>1, <2>6, <3>1 DEF TypeOK
      <4> QED
        BY <2>6, <4>1 DEF Row
    <3> HIDE DEF after, n
    <3> QED
      BY <1>1, <2>1, <3>1, <3>2, ConstantsAssumption DEF TypeOK, n
  <2>7. ASSUME UNCHANGED nodes PROVE nodes'[n] # Null
    BY <1>1, <2>7
  <2> QED
    BY <1>1, <2>5, <2>6, <2>7 DEF Next, Operator, UpdateUser, DeleteUser, graph, vars
<1> DEFINE Safe == \A l \in links \cap links' : nodes[l.target] # Null => nodes'[l.target] # Null
<1>2. TypeOK /\ Integrity /\ [Next]_vars => [Safe]_vars
  BY <1>1
<1> QED
  BY <1>2, IntegrityAlways, PTL DEF Spec, DeletionTakesLinks

-----------------------------------------------------------------------------
(***************************************************************************)
(* The messages: who is told, of what, and that nobody else is.            *)
(***************************************************************************)

\* Does Notify tell user u, whose hook asks for these kinds?
Hears(before, after, edges, u, events) ==
    LET kinds == KindsOf(Changed(before, after) \cup edges) IN
    /\ events \cap Selection(before, after, kinds) # {}
    /\ Concerned(before, after, u)
    /\ \/ events \cap kinds # {}
       \/ CanRead(before, u) /\ ~CanRead(after, u)

\* What Notify tells the hook k.
Told(k, before, after, edges) ==
    [to   |-> k[2], node |-> k[1], tag |-> k[3],
     full |-> BodyLists(after, k[2]), copy |-> 1,
     says |-> IF BodyLists(after, k[2]) THEN Changed(before, after) \cup edges ELSE {}]

\* The messages, and a second copy of each.
Twice(ms) == ms \cup {Again(m) : m \in ms}

\* The messages of a step about node n are those of one call of Notify, or of two
\* alike when the step takes or patches a link of the node to itself.  What
\* changes of a node that stays is among the kinds the call goes by.
Notified(n, edges) ==
    LET once  == Notify(n, nodes[n], nodes'[n], edges)
        about == {m \in notices' : m.node = n}
    IN
    /\ \/ about = once
       \/ /\ TouchesLoop(n) /\ nodes'[n] = nodes[n]
          /\ about = Twice(once)
    /\ nodes[n] # Null /\ nodes'[n] # Null =>
          StepKinds(n) \subseteq KindsOf(Changed(nodes[n], nodes'[n]) \cup edges)

NotifiedOnce(n) == \E edges \in SUBSET Edges : Notified(n, edges)

-----------------------------------------------------------------------------
(* One call of Notify                                                      *)

LEMMA NotifyNobody ==
    ASSUME NEW n, NEW before, NEW after, NEW edges,
           before = Null \/ Changed(before, after) \cup edges = {}
    PROVE  Notify(n, before, after, edges) = {}
  BY DEF Notify

LEMMA NotifyNothing ==
    ASSUME NEW n, NEW row \in Row \cup {Null}
    PROVE  Notify(n, row, row, {}) = {}
<1>1. CASE row = Null
  BY <1>1, NotifyNobody
<1>2. CASE row # Null
  <2>1. Changed(row, row) = {}
    BY <1>2 DEF Changed
  <2> QED
    BY <2>1, NotifyNobody
<1> QED
  BY <1>1, <1>2

\* Every message is about the node, to somebody with a hook on it who hears.
LEMMA NotifySound ==
    ASSUME NEW n, NEW before, NEW after, NEW edges, NEW m \in Notify(n, before, after, edges)
    PROVE  /\ before # Null
           /\ m.node = n
           /\ Concerned(before, after, m.to)
           /\ m.full = BodyLists(after, m.to)
<1> DEFINE changes == Changed(before, after) \cup edges
<1>1. before # Null /\ changes # {}
  BY DEF Notify
<1>2. PICK h \in Users \X Tags :
        /\ Hears(before, after, edges, h[1], hooks[<<n, h[1], h[2]>>])
        /\ m = [to |-> h[1], node |-> n, tag |-> h[2], full |-> BodyLists(after, h[1]),
                copy |-> 1, says |-> IF BodyLists(after, h[1]) THEN changes ELSE {}]
  BY <1>1 DEF Notify, Hears
<1>3. m.to = h[1] /\ m.node = n /\ m.full = BodyLists(after, h[1])
  BY <1>2
<1> QED
  BY <1>1, <1>2, <1>3 DEF Hears

\* A hook that hears is told once.
LEMMA NotifyComplete ==
    ASSUME NEW k \in HookKeys, NEW before, NEW after, NEW edges,
           before # Null, Changed(before, after) \cup edges # {},
           Hears(before, after, edges, k[2], hooks[k])
    PROVE  To(k, Notify(k[1], before, after, edges)) = {Told(k, before, after, edges)}
<1> DEFINE n == k[1]
           changes == Changed(before, after) \cup edges
           body(h) == [to |-> h[1], node |-> n, tag |-> h[2],
                       full |-> BodyLists(after, h[1]), copy |-> 1,
                       says |-> IF BodyLists(after, h[1]) THEN changes ELSE {}]
           heard == {h \in Users \X Tags :
                        Hears(before, after, edges, h[1], hooks[<<n, h[1], h[2]>>])}
<1>1. Notify(n, before, after, edges) = {body(h) : h \in heard}
  BY DEF Notify, Hears
<1>2. /\ k = <<n, k[2], k[3]>> /\ k[2] \in Users /\ k[3] \in Tags
      /\ <<k[2], k[3]>> \in Users \X Tags
  BY DEF HookKeys
<1>3. <<k[2], k[3]>> \in heard
  BY <1>2
<1>4. body(<<k[2], k[3]>>) = Told(k, before, after, edges)
  BY DEF Told
<1>5. ASSUME NEW h \in heard, body(h).to = k[2], body(h).tag = k[3]
      PROVE  h = <<k[2], k[3]>>
  BY <1>5
<1> HIDE DEF heard
<1>6. \A h \in heard : body(h).node = k[1]
  OBVIOUS
<1>7. /\ body(<<k[2], k[3]>>).to = k[2]
      /\ body(<<k[2], k[3]>>).tag = k[3]
  OBVIOUS
<1> HIDE DEF body
<1> QED
  BY <1>1, <1>3, <1>4, <1>5, <1>6, <1>7 DEF To

-----------------------------------------------------------------------------
(* What a step tells about one node                                        *)

About(n, ms) == {m \in ms : m.node = n}

LEMMA KindsOfEdges ==
    ASSUME NEW edges \in SUBSET Edges, edges # {}, NEW changes
    PROVE  "Links" \in KindsOf(changes \cup edges) /\ KindsOf(changes) \subseteq KindsOf(changes \cup edges)
<1>1. \A e \in Edges : Kind(e) = "Links" /\ e # "deleted"
  BY DEF Kind, Edges
<1> QED
  BY <1>1 DEF KindsOf

LEMMA EdgeNoticesAbout ==
    ASSUME NEW ns, NEW edge, NEW n
    PROVE  About(n, EdgeNotices(ns, edge)) =
             IF n \in ns THEN Notify(n, nodes[n], nodes[n], {edge}) ELSE {}
<1>1. \A j \in ns : \A m \in Notify(j, nodes[j], nodes[j], {edge}) : m.node = j
  BY NotifySound
<1> QED
  BY <1>1 DEF EdgeNotices, About

LEMMA NotifyAbout ==
    ASSUME NEW j, NEW n, NEW before, NEW after, NEW edges
    PROVE  About(n, Notify(j, before, after, edges)) =
             IF n = j THEN Notify(j, before, after, edges) ELSE {}
  BY NotifySound DEF About

\* A second copy is about the same node, to the same user and hook.
LEMMA AgainSame ==
    ASSUME NEW n, NEW before, NEW after, NEW edges, NEW m \in Notify(n, before, after, edges)
    PROVE  /\ Again(m).node = m.node /\ Again(m).to = m.to /\ Again(m).tag = m.tag
           /\ Again(m).full = m.full
<1> DEFINE changes == Changed(before, after) \cup edges
<1>1. PICK h \in Users \X Tags :
        m = [to |-> h[1], node |-> n, tag |-> h[2], full |-> BodyLists(after, h[1]),
             copy |-> 1, says |-> IF BodyLists(after, h[1]) THEN changes ELSE {}]
  BY DEF Notify
<1> QED
  BY <1>1 DEF Again

LEMMA EdgeNoticesOne ==
    ASSUME NEW n, NEW edge
    PROVE  EdgeNotices({n}, edge) = Notify(n, nodes[n], nodes[n], {edge})
  BY DEF EdgeNotices

LEMMA PairNoticesAbout ==
    ASSUME NEW s, NEW t, NEW edge, NEW n
    PROVE  /\ n \notin {s, t} => About(n, PairNotices(s, t, edge)) = {}
           /\ n \in {s, t} /\ s # t =>
                 About(n, PairNotices(s, t, edge)) = EdgeNotices({n}, edge)
           /\ n = s /\ s = t =>
                 About(n, PairNotices(s, t, edge)) = Twice(EdgeNotices({n}, edge))
<1> DEFINE once == EdgeNotices({n}, edge)
<1>1. About(n, EdgeNotices({s, t}, edge)) = IF n \in {s, t} THEN once ELSE {}
  <2>1. once = Notify(n, nodes[n], nodes[n], {edge})
    BY EdgeNoticesOne
  <2> QED
    BY <2>1, EdgeNoticesAbout
<1>2. CASE s # t
  BY <1>1, <1>2 DEF PairNotices
<1>3. CASE s = t
  <2> DEFINE loop == EdgeNotices({s}, edge)
             more == {Again(m) : m \in loop}
  <2>1. loop = Notify(s, nodes[s], nodes[s], {edge})
    BY EdgeNoticesOne
  <2>2. PairNotices(s, t, edge) = EdgeNotices({s, t}, edge) \cup more
    BY <1>3 DEF PairNotices
  <2>3. \A m \in loop : m.node = s /\ Again(m).node = m.node
    BY <2>1, NotifySound, AgainSame
  <2>4. About(n, more) = IF n = s THEN more ELSE {}
    BY <2>3 DEF About
  <2> HIDE DEF more
  <2>5. About(n, PairNotices(s, t, edge)) = About(n, EdgeNotices({s, t}, edge)) \cup About(n, more)
    BY <2>2 DEF About
  <2>6. n = s => once = loop
    OBVIOUS
  <2> HIDE DEF loop, once
  <2>7. CASE n = s
    <3>1. About(n, PairNotices(s, t, edge)) = once \cup more
      BY <1>1, <1>3, <2>4, <2>5, <2>7
    <3>2. once \cup more = Twice(once)
      BY <2>6, <2>7 DEF more, Twice
    <3> QED
      BY <1>3, <2>7, <3>1, <3>2 DEF once
  <2>8. CASE n # s
    BY <1>1, <1>3, <2>4, <2>5, <2>8
  <2> QED
    BY <2>7, <2>8
<1> QED
  BY <1>2, <1>3

\* A row that stays, told of its links, or with links that stay as well.
LEMMA EdgeTold ==
    ASSUME TypeOK, NEW n \in NodeIds, nodes'[n] = nodes[n], NEW edge \in Edges,
           About(n, notices') = Notify(n, nodes[n], nodes[n], {edge})
    PROVE  NotifiedOnce(n)
<1>1. nodes[n] # Null => StepKinds(n) \subseteq {"Links"}
  BY DEF StepKinds, StepChanges, Changed, KindsOf
<1>2. "Links" \in KindsOf(Changed(nodes[n], nodes'[n]) \cup {edge})
  BY KindsOfEdges
<1> QED
  BY <1>1, <1>2 DEF NotifiedOnce, Notified, About

LEMMA NotTold ==
    ASSUME TypeOK, NEW n \in NodeIds, nodes'[n] = nodes[n], About(n, notices') = {},
           nodes[n] # Null => Followed(n, links') = Followed(n, links)
    PROVE  NotifiedOnce(n)
<1>1. Notify(n, nodes[n], nodes'[n], {}) = {}
  BY NotifyNothing DEF TypeOK
<1>2. nodes[n] # Null => StepKinds(n) = {}
  BY DEF StepKinds, StepChanges, Changed, KindsOf
<1> QED
  BY <1>1, <1>2 DEF NotifiedOnce, Notified, About

LEMMA SameFollowed ==
    ASSUME NEW n, Incident(n, links') = Incident(n, links)
    PROVE  Followed(n, links') = Followed(n, links)
  BY DEF Followed

\* A row that changes while its links stay.
LEMMA RowTold ==
    ASSUME NEW n \in NodeIds, Incident(n, links') = Incident(n, links),
           About(n, notices') = Notify(n, nodes[n], nodes'[n], {})
    PROVE  NotifiedOnce(n)
<1>1. nodes[n] # Null => StepKinds(n) \subseteq KindsOf(Changed(nodes[n], nodes'[n]) \cup {})
  BY SameFollowed DEF StepKinds, StepChanges
<1>2. Notified(n, {})
  BY <1>1 DEF Notified, About
<1> QED
  BY <1>2 DEF NotifiedOnce

\* A row that changes with its links, or goes with them.
LEMMA BothTold ==
    ASSUME NEW n \in NodeIds, NEW edge \in Edges,
           About(n, notices') = Notify(n, nodes[n], nodes'[n], {edge})
    PROVE  NotifiedOnce(n)
<1>1. nodes[n] # Null =>
         StepKinds(n) \subseteq KindsOf(Changed(nodes[n], nodes'[n])) \cup {"Links"}
  BY DEF StepKinds, StepChanges
<1>2. KindsOf(Changed(nodes[n], nodes'[n])) \cup {"Links"} \subseteq
         KindsOf(Changed(nodes[n], nodes'[n]) \cup {edge})
  BY KindsOfEdges
<1> QED
  BY <1>1, <1>2 DEF NotifiedOnce, Notified, About

LEMMA DeletionTold ==
    ASSUME NEW n \in NodeIds, nodes'[n] = Null,
           About(n, notices') = Notify(n, nodes[n], Null, {})
    PROVE  NotifiedOnce(n)
  BY DEF NotifiedOnce, Notified, About

-----------------------------------------------------------------------------
(* The handlers                                                            *)

LEMMA CreateTells ==
    ASSUME TypeOK, Integrity, NEW c \in Callers, NEW id \in NodeIds, NEW row \in Row,
           NEW targets \in SUBSET NodeIds, NEW p \in Positions,
           CreateNode(c, id, row, targets, p), NEW n \in NodeIds
    PROVE  NotifiedOnce(n)
<1>1. /\ id \notin issued /\ nodes[id] = Null
      /\ n # id => nodes'[n] = nodes[n]
      /\ links' = links \cup [source : {id}, target : targets, label : {DefaultLabel}]
      /\ notices' = EdgeNotices(targets, "Link added")
  BY DEF CreateNode, Integrity, FreshIdsUnused, TypeOK
<1>2. CASE n = id
  <2>1. Notify(n, nodes[n], nodes[n], {"Link added"}) = {}
    BY <1>1, <1>2, NotifyNobody
  <2>2. About(n, notices') = {}
    BY <1>1, <2>1, EdgeNoticesAbout
  <2>3. Notify(n, nodes[n], nodes'[n], {}) = {}
    BY <1>1, <1>2, NotifyNobody
  <2>4. Notified(n, {})
    BY <1>1, <1>2, <2>2, <2>3 DEF Notified, About
  <2> QED
    BY <2>4 DEF NotifiedOnce, Notified, About
<1>3. CASE n # id /\ n \in targets
  <2>1. About(n, notices') = Notify(n, nodes[n], nodes[n], {"Link added"})
    BY <1>1, <1>3, EdgeNoticesAbout
  <2> QED
    BY <1>1, <1>3, <2>1, EdgeTold DEF Edges
<1>4. CASE n # id /\ n \notin targets
  <2>1. Incident(n, links') = Incident(n, links)
    <3> DEFINE fresh == [source : {id}, target : targets, label : {DefaultLabel}]
    <3>1. \A l \in fresh : l.source # n /\ l.target # n
      BY <1>4
    <3>2. links' = links \cup fresh
      BY <1>1
    <3> HIDE DEF fresh
    <3> QED
      BY <3>1, <3>2 DEF Incident
  <2>2. About(n, notices') = {}
    BY <1>1, <1>4, EdgeNoticesAbout
  <2> QED
    BY <1>1, <1>4, <2>1, <2>2, SameFollowed, NotTold
<1> QED
  BY <1>2, <1>3, <1>4

LEMMA DeleteTells ==
    ASSUME TypeOK, NEW c \in Callers, NEW d \in NodeIds, Delete(c, d), NEW n \in NodeIds
    PROVE  NotifiedOnce(n)
<1> DEFINE ns == Neighbors(d) \ {d}
           last == Notify(d, nodes[d], Null, {})
           others == EdgeNotices(ns, "Link removed")
<1>1. /\ nodes' = [nodes EXCEPT ![d] = Null]
      /\ links' = links \ Incident(d, links)
      /\ notices' = last \cup others
  BY DEF Delete
<1>2. /\ nodes'[d] = Null
      /\ n # d => nodes'[n] = nodes[n]
  BY <1>1 DEF TypeOK
<1>3. About(n, last) = IF n = d THEN last ELSE {}
  BY NotifyAbout
<1>4. About(n, others) = IF n \in ns THEN Notify(n, nodes[n], nodes[n], {"Link removed"}) ELSE {}
  BY EdgeNoticesAbout
<1> HIDE DEF last, others
<1>5. About(n, notices') = About(n, last) \cup About(n, others)
  BY <1>1 DEF About
<1>6. CASE n = d
  <2>1. About(n, others) = {} /\ About(n, last) = last
    BY <1>3, <1>4, <1>6
  <2>2. About(n, notices') = Notify(n, nodes[n], Null, {})
    BY <1>6, <1>5, <2>1 DEF last
  <2> QED
    BY <1>2, <1>6, <2>2, DeletionTold
<1>7. CASE n # d /\ n \in ns
  <2>1. About(n, last) = {}
    BY <1>3, <1>7
  <2>2. About(n, notices') = Notify(n, nodes[n], nodes[n], {"Link removed"})
    BY <1>4, <1>7, <1>5, <2>1
  <2> QED
    BY <1>2, <1>7, <2>2, EdgeTold DEF Edges
<1>8. CASE n # d /\ n \notin ns
  <2>1. About(n, last) = {} /\ About(n, others) = {}
    BY <1>3, <1>4, <1>8
  <2>2. About(n, notices') = {}
    BY <1>5, <2>1
  <2>3. Incident(n, links') = Incident(n, links)
    <3>1. n \notin Neighbors(d)
      BY <1>8
    <3>2. \A l \in Incident(d, links) : l.source # n /\ l.target # n
      BY <1>8, <3>1 DEF Incident, Neighbors
    <3> QED
      BY <1>1, <3>2 DEF Incident
  <2> QED
    BY <1>2, <1>8, <2>2, <2>3, SameFollowed, NotTold
<1> QED
  BY <1>6, <1>7, <1>8

LEMMA LinkTells ==
    ASSUME TypeOK, NEW c \in Callers, NEW s \in NodeIds, NEW t \in NodeIds,
           NEW label \in Labels, NEW p \in Positions, LinkNodes(c, s, t, label, p),
           NEW n \in NodeIds
    PROVE  NotifiedOnce(n)
<1> DEFINE source == Anchored(nodes[s], {nodes[t]}, p)
           target == Anchored(nodes[t], {source}, p)
           one == Notify(s, nodes[s], source, {"Link added"})
           other == Notify(t, nodes[t], target, {"Link added"})
<1>1. /\ s # t
      /\ nodes' = [nodes EXCEPT ![s] = source, ![t] = target]
      /\ links' = links \cup {[source |-> s, target |-> t, label |-> label]}
      /\ notices' = one \cup other
  BY DEF LinkNodes
<1>2. /\ About(n, one) = IF n = s THEN one ELSE {}
      /\ About(n, other) = IF n = t THEN other ELSE {}
  BY NotifyAbout
<1> HIDE DEF source, target
<1>3. nodes'[s] = source /\ nodes'[t] = target /\ (n \notin {s, t} => nodes'[n] = nodes[n])
  BY <1>1 DEF TypeOK
<1>4. About(n, notices') = About(n, one) \cup About(n, other)
  <2> HIDE DEF one, other
  <2> QED
    BY <1>1 DEF About
<1>5. CASE n \in {s, t}
  <2>1. About(n, notices') = IF n = s THEN one ELSE other
    BY <1>1, <1>2, <1>5, <1>4
  <2>2. About(n, notices') = Notify(n, nodes[n], nodes'[n], {"Link added"})
    BY <1>1, <1>3, <1>5, <2>1
  <2> QED
    BY <2>2, BothTold DEF Edges
<1>6. CASE n \notin {s, t}
  <2>1. About(n, notices') = {}
    BY <1>2, <1>6, <1>4
  <2>2. Incident(n, links') = Incident(n, links)
    <3> DEFINE new == [source |-> s, target |-> t, label |-> label]
    <3>1. new.source # n /\ new.target # n
      BY <1>6
    <3> HIDE DEF new
    <3> QED
      BY <1>1, <3>1 DEF Incident, new
  <2> QED
    BY <1>3, <1>6, <2>1, <2>2, SameFollowed, NotTold
<1> QED
  BY <1>5, <1>6

\* Unlinking and relabelling.
LEMMA PairTells ==
    ASSUME TypeOK, NEW s \in NodeIds, NEW t \in NodeIds, NEW edge \in Edges,
           UNCHANGED nodes, notices' = PairNotices(s, t, edge),
           s = t => TouchesLoop(s),
           \A l \in (links \ links') \cup (links' \ links) :
              {l.source, l.target} \subseteq {s, t},
           NEW n \in NodeIds
    PROVE  NotifiedOnce(n)
<1> DEFINE once == Notify(n, nodes[n], nodes[n], {edge})
<1>0. once = EdgeNotices({n}, edge)
  BY EdgeNoticesOne
<1>1. CASE n \in {s, t} /\ s # t
  <2>1. About(n, notices') = once
    BY <1>0, <1>1, PairNoticesAbout
  <2> QED
    BY <2>1, EdgeTold
<1>2. CASE n \in {s, t} /\ s = t
  <2>1. About(n, notices') = Twice(once) /\ TouchesLoop(n)
    BY <1>0, <1>2, PairNoticesAbout
  <2>2. nodes[n] # Null => StepKinds(n) \subseteq {"Links"}
    BY DEF StepKinds, StepChanges, Changed, KindsOf
  <2>3. "Links" \in KindsOf(Changed(nodes[n], nodes'[n]) \cup {edge})
    BY KindsOfEdges
  <2>4. nodes'[n] = nodes[n]
    OBVIOUS
  <2>5. Notified(n, {edge})
    BY <2>1, <2>2, <2>3, <2>4 DEF Notified, About
  <2> QED
    BY <2>5 DEF NotifiedOnce
<1>3. CASE n \notin {s, t}
  <2>1. Incident(n, links') = Incident(n, links)
    BY <1>3 DEF Incident
  <2>2. About(n, notices') = {}
    BY <1>3, PairNoticesAbout
  <2> QED
    BY <2>1, <2>2, SameFollowed, NotTold
<1> QED
  BY <1>1, <1>2, <1>3

LEMMA UnlinkTells ==
    ASSUME TypeOK, NEW c \in Callers, NEW s \in NodeIds, NEW t \in NodeIds,
           UnlinkNodes(c, s, t), NEW n \in NodeIds
    PROVE  NotifiedOnce(n)
<1>1. \A l \in (links \ links') \cup (links' \ links) : {l.source, l.target} \subseteq {s, t}
  BY DEF UnlinkNodes, Between
<1>2. s = t => TouchesLoop(s)
  BY DEF UnlinkNodes, Between, TouchesLoop
<1> QED
  BY <1>1, <1>2, PairTells DEF UnlinkNodes, Edges

\* A patch that tells nobody changed nothing a subscriber counts on: the pair has
\* one row and it kept its label, or it has two.
LEMMA SilentPatch ==
    ASSUME TypeOK, Integrity, NEW c \in Callers, NEW s \in NodeIds, NEW t \in NodeIds,
           NEW patch \in Patches, PatchLink(c, s, t, patch),
           NEW before \in Between(s, t), NEW same \in Between(s, t),
           before.label = patch[same.label], NEW n \in NodeIds
    PROVE  Followed(n, links') = Followed(n, links)
<1> DEFINE B == Between(s, t)
           image(l) == Patched(l, B, patch)
           own == Incident(n, links)
           ownNext == Incident(n, links')
           Pair(k, l) == {k.source, k.target} = {l.source, l.target}
           Alone(l, rows) == \A k \in rows : Pair(k, l) => k = l
           Shown(l, rows) == IF Alone(l, rows) THEN l ELSE [l EXCEPT !.label = DefaultLabel]
<1>1. /\ links' = {image(l) : l \in links}
      /\ \A l \in links : /\ image(l) \in Link
                          /\ image(l).source = l.source /\ image(l).target = l.target
      /\ OneRowEachWay'
  BY PatchedRows
<1>2. B \subseteq links /\ \A k, l \in B : Pair(k, l)
  BY DEF Between
<1>3. \A k, l \in links : k \in B /\ Pair(k, l) => l \in B
  BY DEF Between
<1>4. \A l \in links : l \notin B => image(l) = l
  BY DEF Patched
<1>5. \A l \in B : image(l) = [l EXCEPT !.label = patch[l.label]]
  BY DEF Patched
<1>6. links \subseteq Link
  BY DEF TypeOK
<1> HIDE DEF image, B
<1>7. ownNext = {image(l) : l \in own} /\ own \subseteq links
  BY <1>1 DEF Incident
<1>8. \A k, l \in links : image(k) = image(l) => k = l
  BY <1>1 DEF Integrity, OneRowEachWay
<1>9. \A l \in own : Alone(image(l), ownNext) <=> Alone(l, own)
  BY <1>1, <1>7, <1>8
<1>10. \A l \in own : l \in B => \A k \in B : k \in own
  BY <1>2, <1>7 DEF Incident
<1>11. \A l \in own : l \in B /\ Alone(l, own) => image(l) = l
  <2> SUFFICES ASSUME NEW l \in own, l \in B, Alone(l, own) PROVE image(l) = l
    OBVIOUS
  <2>1. before = l /\ same = l
    BY <1>2, <1>10 DEF B
  <2>2. l.label = patch[l.label] /\ l \in Link
    BY <1>6, <1>7, <2>1
  <2> QED
    BY <1>5, <2>2 DEF Link
<1>12. \A l \in own : l \in B => [image(l) EXCEPT !.label = DefaultLabel] = [l EXCEPT !.label = DefaultLabel]
  BY <1>1, <1>5, <1>6, <1>7 DEF Link
<1>13. \A l \in own : Shown(image(l), ownNext) = Shown(l, own)
  BY <1>4, <1>7, <1>9, <1>11, <1>12
<1>14. Followed(n, links) = {Shown(l, own) : l \in own}
  BY DEF Followed
<1>15. Followed(n, links') = {Shown(l, ownNext) : l \in ownNext}
  BY DEF Followed
<1> HIDE DEF Shown, own, ownNext
<1>16. {Shown(l, ownNext) : l \in ownNext} = {Shown(image(l), ownNext) : l \in own}
  BY <1>7
<1> QED
  BY <1>13, <1>14, <1>15, <1>16

LEMMA PatchLinkTells ==
    ASSUME TypeOK, Integrity, NEW c \in Callers, NEW s \in NodeIds, NEW t \in NodeIds,
           NEW patch \in Patches, PatchLink(c, s, t, patch), NEW n \in NodeIds
    PROVE  NotifiedOnce(n)
<1>1. /\ links' = {Patched(l, Between(s, t), patch) : l \in links}
      /\ \A l \in links : /\ Patched(l, Between(s, t), patch).source = l.source
                          /\ Patched(l, Between(s, t), patch).target = l.target
      /\ OneRowEachWay'
  BY PatchedRows
<1>2. UNCHANGED nodes
  BY DEF PatchLink
<1>3. PICK before \in Between(s, t), same \in Between(s, t) :
         notices' = IF before.label = [same EXCEPT !.label = patch[same.label]].label THEN {}
                    ELSE PairNotices(s, t, "Link changed")
  BY DEF PatchLink
<1>4. before \in links /\ same \in links /\ links \subseteq Link
  BY DEF Between, TypeOK
<1>5. [same EXCEPT !.label = patch[same.label]].label = patch[same.label]
  BY <1>4 DEF Link
<1>6. CASE before.label = patch[same.label]
  <2>1. notices' = {}
    BY <1>3, <1>5, <1>6
  <2>2. Followed(n, links') = Followed(n, links)
    BY <1>6, SilentPatch
  <2> QED
    BY <1>2, <2>1, <2>2, NotTold DEF About
<1>7. CASE before.label # patch[same.label]
  <2>1. notices' = PairNotices(s, t, "Link changed")
    BY <1>3, <1>5, <1>7
  <2>2. \A l \in (links \ links') \cup (links' \ links) : {l.source, l.target} \subseteq {s, t}
    <3>1. \A l \in links : l \notin Between(s, t) => Patched(l, Between(s, t), patch) = l
      BY DEF Patched
    <3>2. \A l \in Between(s, t) : {l.source, l.target} \subseteq {s, t}
      BY DEF Between
    <3> QED
      BY <1>1, <3>1, <3>2
  <2>3. ASSUME s = t PROVE TouchesLoop(s)
    <3>1. before.source = s /\ before.target = s /\ same = before
      BY <1>4, <2>3 DEF Between, Integrity, OneRowEachWay
    <3>2. Patched(before, Between(s, t), patch).label = patch[before.label]
      BY <1>5, <3>1 DEF Patched
    <3>3. \A l \in links : Patched(l, Between(s, t), patch) = before => l = before
      BY <1>1, <1>4 DEF Integrity, OneRowEachWay
    <3>4. before \notin links'
      BY <1>1, <1>7, <3>1, <3>2, <3>3
    <3> QED
      BY <1>4, <3>1, <3>4 DEF TouchesLoop
  <2>4. "Link changed" \in Edges
    BY DEF Edges
  <2> QED
    BY <1>2, <2>1, <2>2, <2>3, <2>4, PairTells
<1> QED
  BY <1>6, <1>7

\* Patches, content writes and the layout.
LEMMA RowTells ==
    ASSUME TypeOK, NEW j \in NodeIds, NEW after, nodes' = [nodes EXCEPT ![j] = after],
           notices' = Notify(j, nodes[j], after, {}), UNCHANGED links, NEW n \in NodeIds
    PROVE  NotifiedOnce(n)
<1>1. CASE n = j
  <2>1. nodes'[n] = after /\ About(n, notices') = Notify(n, nodes[n], after, {})
    BY <1>1, NotifyAbout DEF TypeOK
  <2> QED
    BY <2>1, RowTold
<1>2. CASE n # j
  <2>1. nodes'[n] = nodes[n] /\ About(n, notices') = {}
    BY <1>2, NotifyAbout
  <2> QED
    BY <2>1, SameFollowed, NotTold
<1> QED
  BY <1>1, <1>2

LEMMA QuietTells ==
    ASSUME TypeOK, UNCHANGED <<nodes, links>>, notices' = {}, NEW n \in NodeIds
    PROVE  NotifiedOnce(n)
  BY SameFollowed, NotTold DEF About

\* Whatever a step does, each node is told of by one call of Notify, and rows of
\* users change in steps that tell nothing.
LEMMA StepTells ==
    ASSUME TypeOK, Integrity, Next
    PROVE  /\ \A n \in NodeIds : NotifiedOnce(n)
           /\ UNCHANGED users \/ (UNCHANGED graph /\ notices' = {})
<1>1. ASSUME NEW c \in Callers, By(c), NEW n \in NodeIds PROVE NotifiedOnce(n)
  <2>1. ASSUME NEW j \in NodeIds, NEW new \in Row, Patch(c, j, new) PROVE NotifiedOnce(n)
    BY <2>1, RowTells DEF Patch
  <2>2. ASSUME NEW j \in NodeIds, NEW content \in Contents,
               UploadContent(c, j, content) \/ PatchContent(c, j, content)
        PROVE  NotifiedOnce(n)
    BY <2>2, RowTells DEF UploadContent, PatchContent
  <2>3. ASSUME NEW j \in NodeIds, NEW u \in Users, NEW t \in Tags, NEW events \in Filters,
               RegisterHook(c, j, u, t, events)
        PROVE  NotifiedOnce(n)
    BY <2>3, QuietTells DEF RegisterHook
  <2>4. ASSUME NEW j \in NodeIds, NEW u \in Users, NEW t \in Tags, DeleteHook(c, j, u, t)
        PROVE  NotifiedOnce(n)
    BY <2>4, QuietTells DEF DeleteHook
  <2> QED
    BY <1>1, <2>1, <2>2, <2>3, <2>4, CreateTells, DeleteTells, LinkTells, UnlinkTells,
       PatchLinkTells DEF By
<1>2. ASSUME NEW j \in NodeIds, NEW p \in Positions, PositionUnpositionedNode(j, p),
             NEW n \in NodeIds
      PROVE  NotifiedOnce(n)
  BY <1>2, RowTells DEF PositionUnpositionedNode
<1>3. ASSUME NEW u \in Managed, NEW isEnabled \in BOOLEAN, NEW isAdmin \in BOOLEAN,
             UpdateUser(u, isEnabled, isAdmin) \/ DeleteUser(u)
      PROVE  UNCHANGED graph /\ notices' = {}
  BY <1>3 DEF UpdateUser, DeleteUser
<1>4. ASSUME UNCHANGED graph, notices' = {}, NEW n \in NodeIds PROVE NotifiedOnce(n)
  BY <1>4, QuietTells DEF graph
<1>5. ASSUME NEW c \in Callers, By(c) PROVE UNCHANGED users
  <2>1. \A n, new : Patch(c, n, new) => UNCHANGED users
    BY DEF Patch
  <2>2. \A n, content :
           UploadContent(c, n, content) \/ PatchContent(c, n, content) => UNCHANGED users
    BY DEF UploadContent, PatchContent
  <2>3. \A n, u, t, events :
           RegisterHook(c, n, u, t, events) \/ DeleteHook(c, n, u, t) => UNCHANGED users
    BY DEF RegisterHook, DeleteHook
  <2>4. \A s, t, patch :
           UnlinkNodes(c, s, t) \/ PatchLink(c, s, t, patch) => UNCHANGED users
    BY DEF UnlinkNodes, PatchLink
  <2>5. \A id, row, targets, p : CreateNode(c, id, row, targets, p) => UNCHANGED users
    BY DEF CreateNode
  <2>6. \A n : Delete(c, n) => UNCHANGED users
    BY DEF Delete
  <2>7. \A s, t, label, p : LinkNodes(c, s, t, label, p) => UNCHANGED users
    <3>1. SUFFICES ASSUME NEW s, NEW t, NEW label, NEW p, LinkNodes(c, s, t, label, p)
                   PROVE  UNCHANGED users
      OBVIOUS
    <3>2. UNCHANGED <<issued, hooks, users>>
      BY <3>1 DEF LinkNodes
    <3> QED
      BY <3>2
  <2>8. \/ \E n, new : Patch(c, n, new)
        \/ \E n, content : UploadContent(c, n, content) \/ PatchContent(c, n, content)
        \/ \E n, u, t, events : RegisterHook(c, n, u, t, events) \/ DeleteHook(c, n, u, t)
        \/ \E s, t, patch : UnlinkNodes(c, s, t) \/ PatchLink(c, s, t, patch)
        \/ \E id, row, targets, p : CreateNode(c, id, row, targets, p)
        \/ \E n : Delete(c, n)
        \/ \E s, t, label, p : LinkNodes(c, s, t, label, p)
    BY <1>5 DEF By
  <2> QED
    BY <2>1, <2>2, <2>3, <2>4, <2>5, <2>6, <2>7, <2>8, Zenon
<1>6. ASSUME NEW j \in NodeIds, NEW p \in Positions, PositionUnpositionedNode(j, p)
      PROVE  UNCHANGED users
  BY <1>6 DEF PositionUnpositionedNode
<1> QED
  BY <1>1, <1>2, <1>3, <1>4, <1>5, <1>6 DEF Next, Operator

-----------------------------------------------------------------------------
(* Who is told                                                             *)

\* Each user who may hear of a change he subscribed to gets one message that
\* lists all of it, whichever handler made the change.
THEOREM SubscribersAreToldAlways == Spec => SubscribersAreTold
<1> DEFINE Due(k) ==
             LET n == k[1] IN
             /\ nodes[n] # Null
             /\ CanRead(nodes[n], k[2])
             /\ \/ nodes'[n] = Null /\ hooks[k] # {}
                \/ hooks[k] \cap StepKinds(n) # {} /\ CanRead(nodes[n], k[2])'
           Done(k) == \E m \in notices' :
                        /\ \/ To(k, notices') = {m}
                           \/ TouchesLoop(k[1]) /\ To(k, notices') = {m, Again(m)}
                        /\ StepChanges(k[1]) \subseteq m.says
<1>1. ASSUME TypeOK, Integrity, Next, NEW k \in HookKeys, Due(k) PROVE Done(k)
  <2> DEFINE n == k[1]
             u == k[2]
             before == nodes[n]
             after == nodes'[n]
  <2>1. n \in NodeIds /\ hooks[k] \subseteq Kinds /\ before # Null
    BY <1>1 DEF TypeOK, HookKeys
  <2>2. PICK edges \in SUBSET Edges : Notified(n, edges)
    BY <1>1, <2>1, StepTells DEF NotifiedOnce
  <2> DEFINE kinds == KindsOf(Changed(before, after) \cup edges)
  <2>3. /\ Changed(before, after) \cup edges # {}
        /\ Hears(before, after, edges, u, hooks[k])
        /\ BodyLists(after, u)
    <3>1. CASE after = Null
      <4>1. Selection(before, after, kinds) = Kinds /\ Changed(before, after) = {"deleted"}
        BY <3>1 DEF Selection, Changed
      <4>2. hooks[k] # {} /\ CanRead(before, u) /\ ~CanRead(after, u)
        BY <1>1, <3>1 DEF CanRead
      <4> QED
        BY <2>1, <3>1, <4>1, <4>2 DEF Hears, Concerned, BodyLists
    <3>2. CASE after # Null
      <4>1. hooks[k] \cap StepKinds(n) # {} /\ CanRead(before, u) /\ CanRead(nodes[n], u)'
        BY <1>1, <3>2
      <4>2. StepKinds(n) \subseteq kinds
        BY <2>1, <2>2, <3>2 DEF Notified
      <4>3. hooks[k] \cap kinds # {} /\ Changed(before, after) \cup edges # {}
        BY <4>1, <4>2 DEF KindsOf
      <4>4. hooks[k] \cap Selection(before, after, kinds) # {}
        BY <2>1, <4>3 DEF Selection
      <4>5. UNCHANGED users
        <5>1. ASSUME UNCHANGED graph PROVE StepKinds(n) = {}
          BY <5>1, <2>1 DEF graph, StepKinds, StepChanges, Changed, KindsOf
        <5> QED
          BY <1>1, <4>1, <5>1, StepTells
      <4>6. CanRead(after, u)
        BY <4>1, <4>5 DEF CanRead, users
      <4> QED
        BY <4>1, <4>3, <4>4, <4>6 DEF Hears, Concerned, BodyLists
    <3> QED
      BY <3>1, <3>2
  <2>4. To(k, Notify(n, before, after, edges)) = {Told(k, before, after, edges)}
    BY <2>1, <2>3, NotifyComplete
  <2>5. To(k, notices') = To(k, {m \in notices' : m.node = n})
    BY DEF To
  <2>6. \/ To(k, notices') = {Told(k, before, after, edges)}
        \/ /\ TouchesLoop(n)
           /\ To(k, notices') = {Told(k, before, after, edges), Again(Told(k, before, after, edges))}
    <3> DEFINE once == Notify(n, before, after, edges)
    <3>1. CASE {m \in notices' : m.node = n} = once
      BY <2>4, <2>5, <3>1
    <3>2. CASE TouchesLoop(n) /\ {m \in notices' : m.node = n} = Twice(once)
      <4>1. \A m \in once : Again(m).node = m.node /\ Again(m).to = m.to /\ Again(m).tag = m.tag
        BY AgainSame
      <4> HIDE DEF once
      <4>2. To(k, Twice(once)) = To(k, once) \cup {Again(m) : m \in To(k, once)}
        BY <4>1 DEF To, Twice
      <4>3. To(k, once) = {Told(k, before, after, edges)}
        BY <2>4 DEF once
      <4> QED
        BY <2>5, <3>2, <4>2, <4>3
    <3> QED
      BY <2>2, <3>1, <3>2 DEF Notified
  <2>7. StepChanges(n) \subseteq Told(k, before, after, edges).says
    BY <2>1, <2>3 DEF Told, StepChanges
  <2>8. Told(k, before, after, edges) \in notices'
    BY <2>6 DEF To
  <2> QED
    BY <2>6, <2>7, <2>8
<1> DEFINE Safe == \A k \in HookKeys : Due(k) => Done(k)
<1>2. TypeOK /\ Integrity /\ [Next]_vars => [Safe]_vars
  BY <1>1
<1> QED
  BY <1>2, IntegrityAlways, PTL DEF Spec, SubscribersAreTold

\* Who loses the right to read a node by its new owner or mask is told so once,
\* whatever kinds his hook asked for, and told nothing else.
THEOREM RevocationIsToldAlways == Spec => RevocationIsTold
<1> DEFINE Lost(k) ==
             LET n == k[1] IN
             /\ hooks[k] # {} /\ hooks'[k] # {}
             /\ CanRead(nodes[n], k[2]) /\ ~CanRead(nodes[n], k[2])'
             /\ UNCHANGED users
           Done(k) == \E m \in notices' : To(k, notices') = {m} /\ ~m.full
<1>1. ASSUME TypeOK, Integrity, Next, NEW k \in HookKeys, Lost(k) PROVE Done(k)
  <2> DEFINE n == k[1]
             u == k[2]
             before == nodes[n]
             after == nodes'[n]
  <2>1. n \in NodeIds /\ hooks[k] \subseteq Kinds /\ hooks[k] # {}
    BY <1>1 DEF TypeOK, HookKeys
  <2>2. before # Null /\ CanRead(before, u) /\ ~CanRead(after, u)
    BY <1>1 DEF CanRead, users
  <2>3. after # Null
    BY <1>1, IntegrityStep DEF Integrity, HooksWatchNodes
  <2>4. before.owner # after.owner \/ before.access # after.access
    BY <2>2, <2>3 DEF CanRead
  <2>5. PICK edges \in SUBSET Edges : Notified(n, edges)
    BY <1>1, <2>1, StepTells DEF NotifiedOnce
  <2>6. Changed(before, after) \cup edges # {}
    BY <2>3, <2>4 DEF Changed, Columns
  <2>7. Hears(before, after, edges, u, hooks[k]) /\ ~BodyLists(after, u)
    BY <2>1, <2>2, <2>3, <2>4 DEF Hears, Selection, Concerned, BodyLists
  <2>8. To(k, Notify(n, before, after, edges)) = {Told(k, before, after, edges)}
    BY <2>2, <2>6, <2>7, NotifyComplete
  <2>9. To(k, notices') = To(k, {m \in notices' : m.node = n})
    BY DEF To
  <2>10. To(k, notices') = {Told(k, before, after, edges)}
    BY <2>4, <2>5, <2>8, <2>9 DEF Notified
  <2>11. ~Told(k, before, after, edges).full /\ Told(k, before, after, edges) \in notices'
    BY <2>7, <2>10 DEF Told, To
  <2> QED
    BY <2>10, <2>11
<1> DEFINE Safe == \A k \in HookKeys : Lost(k) => Done(k)
<1>2. TypeOK /\ Integrity /\ [Next]_vars => [Safe]_vars
  BY <1>1
<1> QED
  BY <1>2, IntegrityAlways, PTL DEF Spec, RevocationIsTold

\* What a message says reaches nobody who cannot read the node, and that access
\* has changed reaches nobody but who just lost it.
THEOREM NoticesOnlyToReadersAlways == Spec => NoticesOnlyToReaders
<1> DEFINE Proper(m) ==
             IF m.full
             THEN \/ CanRead(nodes[m.node], m.to)'
                  \/ nodes'[m.node] = Null /\ CanRead(nodes[m.node], m.to)
             ELSE /\ CanRead(nodes[m.node], m.to)
                  /\ ~CanRead(nodes[m.node], m.to)'
<1>1. ASSUME TypeOK, Integrity, Next, NEW m \in notices' PROVE Proper(m)
  <2> DEFINE n == m.node
             before == nodes[n]
             after == nodes'[n]
  <2>1. n \in NodeIds
    <3>1. TypeOK'
      BY <1>1, TypeStep
    <3> QED
      BY <3>1 DEF TypeOK, Message
  <2>2. PICK edges \in SUBSET Edges : Notified(n, edges)
    BY <1>1, <2>1, StepTells DEF NotifiedOnce
  <2>3. PICK first \in Notify(n, before, after, edges) : m = first \/ m = Again(first)
    BY <2>2 DEF Notified, Twice
  <2>4. Concerned(before, after, m.to) /\ m.full = BodyLists(after, m.to)
    BY <2>3, NotifySound, AgainSame
  <2>5. UNCHANGED users
    BY <1>1, StepTells
  <2>6. CanRead(nodes[n], m.to)' = CanRead(after, m.to)
    BY <2>5 DEF CanRead, users
  <2>7. after = Null => ~CanRead(after, m.to)
    BY DEF CanRead
  <2> HIDE DEF n
  <2>8. CASE m.full
    BY <2>4, <2>6, <2>7, <2>8 DEF Concerned, BodyLists, n
  <2>9. CASE ~m.full
    BY <2>4, <2>6, <2>9 DEF Concerned, BodyLists, n
  <2> QED
    BY <2>8, <2>9
<1> DEFINE Safe == \A m \in notices' : Proper(m)
<1>2. TypeOK /\ Integrity /\ [Next]_vars => [Safe]_vars
  BY <1>1
<1> QED
  BY <1>2, IntegrityAlways, PTL DEF Spec, NoticesOnlyToReaders

================================================================================
