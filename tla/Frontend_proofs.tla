--------------------------- MODULE Frontend_proofs ---------------------------
(***************************************************************************)
(* Proofs about Frontend, for every number of nodes, values and changes,   *)
(* and all scenarios.                                                      *)
(***************************************************************************)
EXTENDS Frontend, SequenceTheorems, FiniteSetTheorems, TLAPS

-----------------------------------------------------------------------------
(* The filters of the workspace                                            *)

\* What a page load or a remount would select is what is selected.
Saved == /\ loadSet(typeFilter, ALL_NODE_TYPES) = selectedTypes
         /\ loadSet(statusFilter, DEFAULT_STATUS_SELECTION) = selectedStatuses

FiltersInv == FiltersTypeOK /\ Saved

\* The effect on the live types keeps the types, the selection saved, and
\* selects only what it has not known before.
LEMMA Discovering ==
    ASSUME FiltersTypeOK, NEW live \in SUBSET Types, NEW prev \in SUBSET Types,
           loadSet(typeFilter, ALL_NODE_TYPES) = prev, Discover(live, prev)
    PROVE  /\ selectedTypes' \subseteq Types /\ known' \subseteq Types
           /\ typeFilter' = Unset \/ typeFilter' \subseteq Types
           /\ loadSet(typeFilter, ALL_NODE_TYPES)' = selectedTypes'
           /\ selectedTypes' \ prev \subseteq known' \ known
           /\ known \subseteq known'
<1>1. live \ known \in SUBSET Types /\ prev \cup (live \ known) \in SUBSET Types
  OBVIOUS
<1>2. prev \cup (live \ known) # Unset
  BY <1>1, FiltersAssumption
<1>3. selectedTypes' \subseteq Types /\ known' \subseteq Types
      /\ selectedTypes' \ prev \subseteq known' \ known /\ known \subseteq known'
  BY DEF Discover, FiltersTypeOK
<1>4. CASE live \ known = {}
  BY <1>3, <1>4 DEF Discover, loadSet, FiltersTypeOK
<1>5. CASE live \ known # {}
  BY <1>1, <1>2, <1>3, <1>5 DEF Discover, loadSet
<1> QED
  BY <1>4, <1>5

LEMMA Toggling ==
    ASSUME NEW S, NEW T \in SUBSET S, NEW x \in S
    PROVE  Toggled(T, x) \in SUBSET S
  BY DEF Toggled

LEMMA InitFilters == FiltersInit => FiltersInv
  BY FiltersAssumption DEF FiltersInit, FiltersInv, FiltersTypeOK, Saved, loadSet

LEMMA NextFilters == FiltersInv /\ [FiltersNext]_filters => FiltersInv'
<1> SUFFICES ASSUME FiltersInv, [FiltersNext]_filters PROVE FiltersInv'
  OBVIOUS
<1> USE FiltersAssumption
<1>1. CASE TypesChange
  BY <1>1 DEF TypesChange, FiltersInv, FiltersTypeOK, Saved, loadSet
<1>2. CASE CatalogArrives
  <2>1. liveTypeValues(types) \in SUBSET Types /\ selectedTypes \in SUBSET Types
    BY DEF FiltersInv, FiltersTypeOK, liveTypeValues
  <2> QED
    BY <1>2, <2>1, Discovering DEF CatalogArrives, FiltersInv, FiltersTypeOK, Saved, loadSet
<1>3. ASSUME NEW t \in Types, toggleType(t) PROVE FiltersInv'
  <2>1. Toggled(selectedTypes, t) \in SUBSET Types
    BY Toggling DEF FiltersInv, FiltersTypeOK
  <2>2. Toggled(selectedTypes, t) # Unset
    BY <2>1
  <2>3. UNCHANGED <<types, catalog, selectedStatuses, known, statusFilter>>
        /\ selectedTypes' = Toggled(selectedTypes, t) /\ typeFilter' = Toggled(selectedTypes, t)
    BY <1>3 DEF toggleType
  <2> QED
    BY <2>1, <2>2, <2>3 DEF FiltersInv, FiltersTypeOK, Saved, loadSet
<1>4. ASSUME NEW s \in Statuses, toggleWorkspaceStatus(s) PROVE FiltersInv'
  <2>1. Toggled(selectedStatuses, s) \in SUBSET Statuses
    BY Toggling DEF FiltersInv, FiltersTypeOK
  <2>2. Toggled(selectedStatuses, s) # Unset
    BY <2>1
  <2>3. UNCHANGED <<types, catalog, selectedTypes, known, typeFilter>>
        /\ selectedStatuses' = Toggled(selectedStatuses, s)
        /\ statusFilter' = Toggled(selectedStatuses, s)
    BY <1>4 DEF toggleWorkspaceStatus
  <2> QED
    BY <2>1, <2>2, <2>3 DEF FiltersInv, FiltersTypeOK, Saved, loadSet
<1>5. ASSUME NEW reload \in BOOLEAN, Remount(reload) PROVE FiltersInv'
  <2> DEFINE live == IF reload \/ catalog = Unset THEN {} ELSE liveTypeValues(catalog)
  <2>1. live \in SUBSET Types /\ selectedTypes \in SUBSET Types
    BY DEF FiltersInv, FiltersTypeOK, liveTypeValues
  <2>2. Discover(live, selectedTypes)
    BY <1>5 DEF Remount, FiltersInv, Saved
  <2>3. /\ selectedTypes' \subseteq Types /\ known' \subseteq Types
        /\ typeFilter' = Unset \/ typeFilter' \subseteq Types
        /\ loadSet(typeFilter, ALL_NODE_TYPES)' = selectedTypes'
    BY <2>1, <2>2, Discovering DEF FiltersInv, Saved
  <2> HIDE DEF live
  <2> QED
    BY <1>5, <2>3 DEF Remount, FiltersInv, FiltersTypeOK, Saved, loadSet
<1>6. CASE UNCHANGED filters
  BY <1>6 DEF filters, FiltersInv, FiltersTypeOK, Saved, loadSet
<1> QED
  BY <1>1, <1>2, <1>3, <1>4, <1>5, <1>6 DEF FiltersNext

\* The types of the filters' variables.
THEOREM FiltersTypeCorrect == FiltersSpec => []FiltersTypeOK
<1>1. FiltersInv => FiltersTypeOK
  BY DEF FiltersInv
<1> QED
  BY <1>1, InitFilters, NextFilters, PTL DEF FiltersSpec

\* The types that become selected in a step.
Selecting == /\ known \subseteq known'
             /\ \A t \in selectedTypes' \ selectedTypes :
                   toggleType(t) \/ t \in known' \ known

LEMMA StepSelects ==
    ASSUME FiltersInv, FiltersNext
    PROVE  Selecting
<1> USE FiltersAssumption
<1>1. CASE TypesChange
  BY <1>1 DEF TypesChange, Selecting
<1>2. CASE CatalogArrives
  <2>1. liveTypeValues(types) \in SUBSET Types /\ selectedTypes \in SUBSET Types
    BY DEF FiltersInv, FiltersTypeOK, liveTypeValues
  <2> QED
    BY <1>2, <2>1, Discovering DEF CatalogArrives, FiltersInv, Saved, Selecting
<1>3. ASSUME NEW u \in Types, toggleType(u) PROVE Selecting
  <2>1. ASSUME NEW t \in selectedTypes' \ selectedTypes PROVE toggleType(t)
    <3>1. t = u
      BY <1>3, <2>1 DEF toggleType, Toggled
    <3> QED
      BY <1>3, <3>1
  <2>2. UNCHANGED known
    BY <1>3 DEF toggleType
  <2> QED
    BY <2>1, <2>2 DEF Selecting
<1>4. ASSUME NEW s \in Statuses, toggleWorkspaceStatus(s) PROVE Selecting
  BY <1>4 DEF toggleWorkspaceStatus, Selecting
<1>5. ASSUME NEW reload \in BOOLEAN, Remount(reload) PROVE Selecting
  <2> DEFINE live == IF reload \/ catalog = Unset THEN {} ELSE liveTypeValues(catalog)
  <2>1. live \in SUBSET Types /\ selectedTypes \in SUBSET Types
    BY DEF FiltersInv, FiltersTypeOK, liveTypeValues
  <2>2. Discover(live, selectedTypes)
    BY <1>5 DEF Remount, FiltersInv, Saved
  <2> HIDE DEF live
  <2> QED
    BY <2>1, <2>2, Discovering DEF FiltersInv, Saved, Selecting
<1> QED
  BY <1>1, <1>2, <1>3, <1>4, <1>5 DEF FiltersNext

\* SelectedOnce: a type becomes selected by its own toggle or, once ever, when
\* the catalog first names it (useWorkspaceFilters): not by a later answer, by
\* a remount or by a reload.
THEOREM SelectedOnceAlways == FiltersSpec => SelectedOnce
<1>1. FiltersInv /\ [FiltersNext]_filters => [Selecting]_filters
  BY StepSelects
<1>2. [Selecting]_filters
      => [/\ known \subseteq known'
          /\ \A t \in selectedTypes' \ selectedTypes :
                toggleType(t) \/ t \in known' \ known]_filters
  BY DEF Selecting
<1> QED
  BY <1>1, <1>2, InitFilters, NextFilters, PTL DEF FiltersSpec, SelectedOnce

-----------------------------------------------------------------------------
(* What there is in the cache and in the requests                          *)

RowFields == {"name", "status", "type", "text", "place"}

FieldValues(f) == IF f = "place" THEN Places ELSE IF f = "text" THEN Values \cup {NoText} ELSE Values

\* Values for some of the fields of a row.
Partials ==
    {v \in UNION {[F -> Values \cup {NoText} \cup Places] : F \in SUBSET RowFields} :
        \A f \in DOMAIN v : v[f] \in FieldValues(f)}

\* The forms of the dialogs, with none of their fields or some.
Forms == UNION {[F -> Values] : F \in SUBSET Fields}

Born == 1..issued

NodeAnswers == [name : Values, status : Values, type : Values, hasText : BOOLEAN]
CardsOf(B) == [id : B, name : Values, status : Values, type : Values]
ShapesOf(B) == [id : B, name : Values, place : Places, links : SUBSET B]

\* The data of key k when B are the nodes created so far.
DataOf(k, B) ==
    CASE k[1] = "node" -> IF k[2] \in B THEN NodeAnswers ELSE {}
      [] k[1] = "content" -> IF k[2] \in B THEN Values ELSE {}
      [] k[1] = "linkedto" -> SUBSET CardsOf(B)
      [] k[1] = "path" -> SUBSET CardsOf(B)
      [] OTHER -> {S \in SUBSET ShapesOf(B) :
                    \A n \in S : n.id \notin n.links /\ \A m \in S : m.id = n.id => m = n}

Entry(k, B) ==
    [data : DataOf(k, B) \cup {NoData}, error : {"no", "missing", "failed"}, stale : BOOLEAN,
     wire : DataOf(k, B) \cup {Missing, Idle, Asked}]

IsCache(c, B) == /\ c = [k \in Keys |-> c[k]]
                 /\ \A k \in Keys : c[k] \in Entry(k, B)

\* Nothing is fetched without an observer.
Quiet(c, obs) == \A k \in Keys : c[k].wire # Idle => k \in obs

Views == {"editor", "file", "dialog", "row", "child"}

RequestSet ==
    [op : {"create", "patch", "delete", "link", "unlink", "upload", "raw", "move"},
     node : 0..MaxId, other : 0..MaxId, value : Partials, key : 0..MaxId,
     by : Views \cup {"canvas", "drop", "board", "task", "other"},
     step : {"sent", "ok", "linked", "refused", "lost", "done", "failed"},
     host : {"mounted", "detached", "left"}, gap : BOOLEAN]

\* What the one who sent q has made of it; pg is the page.
Sound(q, pg, B) ==
    /\ q.op = "create" => q.value \in Row
    /\ q.op = "create" /\ q.by \notin {"canvas", "drop"} => q.other \in B /\ q.node # q.other
    /\ q.op = "link" => q.node # q.other
    /\ q.op = "unlink" /\ q.by \in {"canvas", "drop"} => {q.node, q.other} \in Pairs
    /\ q.by \in Views => pg \in {"node", "wiki", "workspace"}
    /\ q.by \in {"canvas", "drop"} => pg = "workspace"
    /\ q.by \in {"board", "task"} => pg = "tasks"
    /\ q.by = "board" => q.op = "patch"
    /\ q.op = "patch" => q.by \in {"dialog", "board", "other"} /\ DOMAIN q.value \subseteq Fields
    /\ q.op \in {"upload", "raw"} => DOMAIN q.value \subseteq {"text"}
    /\ q.op \in {"delete", "unlink"} => q.by \in Views \cup {"canvas"}
    /\ q.op = "move" => q.by = "canvas" /\ q.other = q.node /\ "place" \in DOMAIN q.value

PanelSet == [edit : BOOLEAN, compose : BOOLEAN, draft : 0..MaxId,
             dialog : {"none", "edit", "retype", "delete", "link", "create"},
             vals : Forms, touched : SUBSET Fields]

\* The form that is open has the fields of its dialog, and those the user has
\* not typed in are the node's.
FormFits(s, c, p) ==
    Body(s, c) => /\ DOMAIN p.vals = FormFields(p.dialog)
                  /\ \A f \in FormFields(p.dialog) \ p.touched :
                        p.vals[f] = NodeData(s, c)[f]

(***************************************************************************)
(* The invariant.  TypeOK alone is not inductive: whether an edge or a     *)
(* link joins two nodes depends on what the cache holds and on who sent    *)
(* the request, and those on which pages there are and on ids that are     *)
(* given out once.                                                         *)
(***************************************************************************)
TablesInv ==
    /\ scenario \in Scenarios
    /\ rows \in [NodeIds -> Row \cup {Gone}]
    /\ links \subseteq Pairs
    /\ issued \in 0..MaxId
    /\ \A i \in NodeIds : rows[i] # Gone => i \in Born

CacheInv ==
    /\ IsCache(cache, Born)
    /\ observed \subseteq Keys
    /\ Quiet(cache, observed)

AllSound(rs) ==
    /\ rs \in Seq(RequestSet)
    /\ \A r \in DOMAIN rs : Sound(rs[r], page, Born)

RequestsInv == AllSound(requests)

ViewsInv ==
    /\ shown \in 0..MaxId
    /\ page \in {"tasks", "filters"} => shown = 0
    /\ panel \in PanelSet
    /\ panel.touched \subseteq DOMAIN panel.vals
    /\ FormFits(shown, cache, panel)

CanvasInv ==
    /\ bounds \in DOMAIN Area
    /\ cards = [i \in DOMAIN cards |-> cards[i]] /\ DOMAIN cards \subseteq NodeIds
    /\ dragging \subseteq DOMAIN cards
    /\ edges \subseteq Pairs
    /\ undo \subseteq Pairs
    /\ creating \in Places \cup {NoData}

TasksInv ==
    /\ filter \in Filters
    /\ overrides = [i \in DOMAIN overrides |-> overrides[i]] /\ DOMAIN overrides \subseteq NodeIds
    /\ DOMAIN drawn \subseteq NodeIds

FrontendInv == /\ TablesInv /\ CacheInv /\ RequestsInv /\ ViewsInv /\ CanvasInv /\ TasksInv
               /\ FiltersInv

-----------------------------------------------------------------------------
(* Keys, answers and entries                                               *)

LEMMA KeyCases ==
    ASSUME NEW k \in Keys
    PROVE  \/ k[1] \in {"node", "content", "linkedto"} /\ k[2] \in NodeIds /\ k = <<k[1], k[2]>>
           \/ k[1] = "viewport" /\ k[2] \in DOMAIN Area /\ k = <<k[1], k[2]>>
           \/ k[1] = "path" /\ k[2] \in Filters /\ k = <<k[1], k[2]>>
<1>1. PICK kind \in {"node", "content", "linkedto", "viewport", "path"} : k \in Kind(kind)
  BY DEF Keys
<1> QED
  BY <1>1 DEF Kind

LEMMA KeyIn ==
    /\ \A i \in NodeIds : {<<"node", i>>, <<"content", i>>, <<"linkedto", i>>} \subseteq Keys
    /\ \A b \in DOMAIN Area : <<"viewport", b>> \in Keys
    /\ \A f \in Filters : Path(f) \in Keys
<1>1. ASSUME NEW kind \in {"node", "content", "linkedto", "viewport", "path"}
      PROVE  Kind(kind) \subseteq Keys
  BY DEF Keys
<1>2. \A i \in NodeIds : /\ <<"node", i>> \in Kind("node")
                         /\ <<"content", i>> \in Kind("content")
                         /\ <<"linkedto", i>> \in Kind("linkedto")
  BY DEF Kind
<1>3. \A b \in DOMAIN Area : <<"viewport", b>> \in Kind("viewport")
  BY DEF Kind
<1>4. \A f \in Filters : Path(f) \in Kind("path")
  BY DEF Kind, Path
<1> QED
  BY <1>1, <1>2, <1>3, <1>4

\* What the API answers is of the type of its key, and of nodes there are.
LEMMA AnswerType ==
    ASSUME TablesInv, NEW k \in Keys
    PROVE  Answer(k, rows, links) \in DataOf(k, Born) \cup {Missing}
<1>1. \A i : Exists(rows, i) => i \in Born /\ i \in NodeIds /\ rows[i] \in Row
  BY DEF TablesInv, Exists
<1>2. \A i : Neighbors(rows, links, i) \subseteq Born /\ i \notin Neighbors(rows, links, i)
  <2>1. ASSUME NEW i, i \in Neighbors(rows, links, i) PROVE FALSE
    <3>1. {i, i} \in links /\ i \in NodeIds
      BY <2>1 DEF Neighbors
    <3>2. {i, i} = {i}
      OBVIOUS
    <3> QED
      BY <3>1, <3>2 DEF TablesInv, Pairs
  <2> QED
    BY <1>1, <2>1 DEF Neighbors
<1>3. \A i : Exists(rows, i) => Card(rows, i) \in CardsOf(Born)
  BY <1>1 DEF Card, CardsOf, Row
<1>4. CASE k[1] = "node"
  BY <1>1, <1>4 DEF Answer, DataOf, useNode, NodeAnswers, Row
<1>5. CASE k[1] = "content"
  BY <1>1, <1>5 DEF Answer, DataOf, useNodeContent, Row
<1>6. CASE k[1] = "linkedto"
  <2>1. Answer(k, rows, links) = useNodeListLinkedTo(rows, links, k[2])
    BY <1>6 DEF Answer
  <2>2. useNodeListLinkedTo(rows, links, k[2]) \in SUBSET CardsOf(Born)
    BY <1>3 DEF useNodeListLinkedTo, Neighbors
  <2> QED
    BY <1>6, <2>1, <2>2 DEF DataOf
<1>7. CASE k[1] = "path"
  <2>1. Answer(k, rows, links) = useNodePath(rows, links, k[2])
    BY <1>7 DEF Answer
  <2>2. useNodePath(rows, links, k[2]) \in SUBSET CardsOf(Born)
    BY <1>3 DEF useNodePath, Neighbors
  <2> QED
    BY <1>7, <2>1, <2>2 DEF DataOf
<1>8. CASE k[1] = "viewport"
  <2> DEFINE answer == useNodesInViewport(rows, links, k[2])
  <2>1. Answer(k, rows, links) = answer
    BY <1>8 DEF Answer
  <2>2. \A i : Exists(rows, i) =>
           [id |-> i, name |-> rows[i].name, place |-> rows[i].place,
            links |-> Neighbors(rows, links, i)] \in ShapesOf(Born)
    BY <1>1, <1>2 DEF ShapesOf, Row
  <2>3. answer \in SUBSET ShapesOf(Born)
    BY <2>2 DEF useNodesInViewport
  <2>4. \A n \in answer : n.id \notin n.links /\ \A m \in answer : m.id = n.id => m = n
    BY <1>2 DEF useNodesInViewport
  <2> HIDE DEF answer
  <2> QED
    BY <1>8, <2>1, <2>3, <2>4 DEF DataOf
<1> QED
  BY <1>4, <1>5, <1>6, <1>7, <1>8, KeyCases

\* Nodes that are added take nothing away from what data may be.
LEMMA DataGrows ==
    ASSUME NEW k, NEW B, NEW C, B \subseteq C
    PROVE  DataOf(k, B) \subseteq DataOf(k, C)
<1>1. SUBSET CardsOf(B) \subseteq SUBSET CardsOf(C)
  BY DEF CardsOf
<1>2. ShapesOf(B) \subseteq ShapesOf(C)
  BY DEF ShapesOf
<1>3. {S \in SUBSET ShapesOf(B) :
         \A n \in S : n.id \notin n.links /\ \A m \in S : m.id = n.id => m = n}
        \subseteq {S \in SUBSET ShapesOf(C) :
                     \A n \in S : n.id \notin n.links /\ \A m \in S : m.id = n.id => m = n}
  BY <1>2
<1> QED
  BY <1>1, <1>3 DEF DataOf

LEMMA CacheGrows ==
    ASSUME NEW c, NEW B, NEW C, B \subseteq C, IsCache(c, B)
    PROVE  IsCache(c, C)
<1>1. ASSUME NEW k \in Keys PROVE c[k] \in Entry(k, C)
  <2>1. DataOf(k, B) \subseteq DataOf(k, C)
    BY DataGrows
  <2>2. c[k] \in Entry(k, B)
    BY DEF IsCache
  <2> QED
    BY <2>1, <2>2 DEF Entry
<1> QED
  BY <1>1 DEF IsCache

-----------------------------------------------------------------------------
(* The operators on the cache                                              *)

\* Changing the observers leaves the data alone, and nothing on the wire
\* without one.
LEMMA SyncType ==
    ASSUME NEW B, NEW c, IsCache(c, B), NEW old, NEW new
    PROVE  /\ IsCache(Sync(old, new, c), B)
           /\ \A k \in Keys : Sync(old, new, c)[k].data = c[k].data
           /\ Quiet(c, old) => Quiet(Sync(old, new, c), new)
<1> DEFINE s == Sync(old, new, c)
<1>1. s = [k \in Keys |-> s[k]]
  BY DEF Sync
<1>2. ASSUME NEW k \in Keys
      PROVE  /\ s[k] \in Entry(k, B) /\ s[k].data = c[k].data
             /\ k \notin new => s[k].wire = Idle \/ (k \notin old /\ s[k] = c[k])
  <2>1. c[k] \in Entry(k, B)
    BY DEF IsCache
  <2>2. s[k] = IF k \in new \ old /\ ~Fetching(c, k) /\ (c[k].data = NoData \/ c[k].stale)
               THEN Fetch(c[k])
               ELSE IF k \in old \ new THEN [c[k] EXCEPT !.wire = Idle]
               ELSE c[k]
    BY DEF Sync
  <2>3. [c[k] EXCEPT !.wire = Idle].data = c[k].data
    BY <2>1 DEF Entry
  <2>4. /\ Fetch(c[k]) \in Entry(k, B) /\ Fetch(c[k]).data = c[k].data
        /\ [c[k] EXCEPT !.wire = Idle] \in Entry(k, B)
        /\ [c[k] EXCEPT !.wire = Idle].wire = Idle
    BY <2>1 DEF Entry, Fetch
  <2> HIDE DEF s
  <2> QED
    BY <2>1, <2>2, <2>3, <2>4
<1> HIDE DEF s
<1>3. Quiet(c, old) => Quiet(s, new)
  BY <1>2 DEF Quiet
<1> QED
  BY <1>1, <1>2, <1>3 DEF IsCache, s

\* Invalidation fetches nothing but what is observed.
LEMMA InvalidateType ==
    ASSUME NEW B, NEW c, IsCache(c, B), NEW keys, NEW obs
    PROVE  /\ IsCache(Invalidate(c, keys, obs), B)
           /\ \A k \in Keys : /\ Invalidate(c, keys, obs)[k].data = c[k].data
                              /\ k \notin keys \cap obs =>
                                    Invalidate(c, keys, obs)[k].wire = c[k].wire
<1> DEFINE s == Invalidate(c, keys, obs)
<1>1. s = [k \in Keys |-> s[k]]
  BY DEF Invalidate
<1>2. ASSUME NEW k \in Keys
      PROVE  /\ s[k] \in Entry(k, B) /\ s[k].data = c[k].data
             /\ k \notin keys \cap obs => s[k].wire = c[k].wire
  <2>1. c[k] \in Entry(k, B)
    BY DEF IsCache
  <2> DEFINE e == IF k \in obs THEN Fetch(c[k]) ELSE c[k]
  <2>2. s[k] = IF k \in keys /\ (c[k].data # NoData \/ (k \in obs /\ ~Fetching(c, k)))
               THEN [e EXCEPT !.stale = TRUE] ELSE c[k]
    BY DEF Invalidate
  <2>3. e \in Entry(k, B) /\ e.data = c[k].data /\ (k \notin obs => e = c[k])
    <3>1. Fetch(c[k]) \in Entry(k, B) /\ Fetch(c[k]).data = c[k].data
      BY <2>1 DEF Entry, Fetch
    <3> QED
      BY <2>1, <3>1
  <2> HIDE DEF e
  <2>4. /\ [e EXCEPT !.stale = TRUE].data = e.data
        /\ [e EXCEPT !.stale = TRUE].wire = e.wire
        /\ [e EXCEPT !.stale = TRUE] \in Entry(k, B)
    BY <2>3 DEF Entry
  <2>5. k \notin keys \cap obs => k \notin keys \/ e = c[k]
    BY <2>3
  <2> HIDE DEF s
  <2> QED
    BY <2>1, <2>2, <2>3, <2>4, <2>5
<1> HIDE DEF s
<1> QED
  BY <1>1, <1>2 DEF IsCache, s

LEMMA RemovedType ==
    ASSUME NEW B, NEW c, IsCache(c, B), NEW keys
    PROVE  /\ IsCache(Removed(c, keys), B)
           /\ \A k \in Keys : Removed(c, keys)[k].wire = IF k \in keys THEN Idle ELSE c[k].wire
           /\ \A k \in Keys \ keys : Removed(c, keys)[k] = c[k]
<1>1. \A k : Blank \in Entry(k, B) /\ Blank.wire = Idle
  BY DEF Blank, Entry
<1> QED
  BY <1>1 DEF Removed, IsCache

\* A step in which the API has no part: retries, time and the focus.
LEMMA CacheStepType ==
    ASSUME NEW B, NEW c, IsCache(c, B), NEW k \in Keys, NEW kinds
    PROVE  /\ c[k].wire \notin {Idle, Asked} => IsCache(Received(c, k), B)
           /\ IsCache(Unanswered(c, k), B)
           /\ IsCache(Aged(c, kinds), B)
           /\ IsCache(Refocused(c), B)
           /\ \A obs : Quiet(c, obs) =>
                 /\ Quiet(Received(c, k), obs)
                 /\ Quiet(Unanswered(c, k), obs)
                 /\ Quiet(Aged(c, kinds), obs)
                 /\ observed \subseteq obs => Quiet(Refocused(c), obs)
<1> DEFINE a == Received(c, k)
           u == Unanswered(c, k)
           g == Aged(c, kinds)
           f == Refocused(c)
<1>1. c = [j \in Keys |-> c[j]] /\ \A j \in Keys : c[j] \in Entry(j, B)
  BY DEF IsCache
<1>2. /\ a = [j \in Keys |-> a[j]] /\ u = [j \in Keys |-> u[j]]
      /\ g = [j \in Keys |-> g[j]] /\ f = [j \in Keys |-> f[j]]
  BY <1>1 DEF Received, Unanswered, Aged, Refocused
<1>3. \A j \in Keys \ {k} : a[j] = c[j] /\ u[j] = c[j]
  BY <1>1 DEF Received, Unanswered
<1>4. a[k].wire = Idle /\ (c[k].wire \notin {Idle, Asked} => a[k] \in Entry(k, B))
  <2>1. a[k] = IF c[k].wire = Missing
               THEN [c[k] EXCEPT !.error = "missing", !.stale = TRUE, !.wire = Idle]
               ELSE [data |-> c[k].wire, error |-> "no", stale |-> FALSE, wire |-> Idle]
    BY <1>1 DEF Received
  <2>2. /\ [c[k] EXCEPT !.error = "missing", !.stale = TRUE, !.wire = Idle] \in Entry(k, B)
        /\ [c[k] EXCEPT !.error = "missing", !.stale = TRUE, !.wire = Idle].wire = Idle
    BY <1>1 DEF Entry
  <2>3. c[k].wire \notin {Idle, Asked, Missing} =>
           [data |-> c[k].wire, error |-> "no", stale |-> FALSE, wire |-> Idle] \in Entry(k, B)
    BY <1>1 DEF Entry
  <2> HIDE DEF a
  <2> QED
    BY <2>1, <2>2, <2>3
<1>5. u[k].wire = Idle /\ u[k] \in Entry(k, B)
  <2>1. u[k] = [c[k] EXCEPT !.error = "failed", !.stale = TRUE, !.wire = Idle]
    BY <1>1 DEF Unanswered
  <2> HIDE DEF u
  <2> QED
    BY <1>1, <2>1 DEF Entry
<1>6. \A j \in Keys : g[j] \in Entry(j, B) /\ g[j].wire = c[j].wire
  <2> SUFFICES ASSUME NEW j \in Keys PROVE g[j] \in Entry(j, B) /\ g[j].wire = c[j].wire
    OBVIOUS
  <2>1. g[j] \in {c[j], [c[j] EXCEPT !.stale = TRUE]}
    BY DEF Aged
  <2>2. c[j] \in Entry(j, B)
    BY <1>1
  <2>3. /\ [c[j] EXCEPT !.stale = TRUE] \in Entry(j, B)
        /\ [c[j] EXCEPT !.stale = TRUE].wire = c[j].wire
    BY <2>2 DEF Entry, Fetch
  <2> HIDE DEF g
  <2> QED
    BY <2>1, <2>2, <2>3
<1>7. \A j \in Keys : f[j] \in Entry(j, B) /\ (j \notin observed => f[j] = c[j])
  <2> SUFFICES ASSUME NEW j \in Keys PROVE f[j] \in Entry(j, B) /\ (j \notin observed => f[j] = c[j])
    OBVIOUS
  <2>1. f[j] \in {c[j], Fetch(c[j])} /\ (j \notin observed => f[j] = c[j])
    BY DEF Refocused
  <2>2. c[j] \in Entry(j, B)
    BY <1>1
  <2>3. Fetch(c[j]) \in Entry(j, B)
    BY <2>2 DEF Entry, Fetch
  <2> HIDE DEF f
  <2> QED
    BY <2>1, <2>2, <2>3
<1> HIDE DEF a, u, g, f
<1>8. /\ c[k].wire \notin {Idle, Asked} => IsCache(a, B)
      /\ IsCache(u, B) /\ IsCache(g, B) /\ IsCache(f, B)
  BY <1>1, <1>2, <1>3, <1>4, <1>5, <1>6, <1>7 DEF IsCache
<1>9. \A obs : Quiet(c, obs) => /\ Quiet(a, obs) /\ Quiet(u, obs) /\ Quiet(g, obs)
                                /\ observed \subseteq obs => Quiet(f, obs)
  BY <1>3, <1>4, <1>5, <1>6, <1>7 DEF Quiet
<1> QED
  BY <1>8, <1>9 DEF a, u, g, f

-----------------------------------------------------------------------------
(* Requests                                                                *)

\* A function on the places of a sequence is a sequence.
LEMMA SeqMap ==
    ASSUME NEW S, NEW T, NEW s \in Seq(S), NEW t, t = [r \in DOMAIN s |-> t[r]],
           \A r \in DOMAIN s : t[r] \in T
    PROVE  t \in Seq(T) /\ DOMAIN t = DOMAIN s /\ Len(t) = Len(s)
<1>1. Len(s) \in Nat /\ DOMAIN s = 1..Len(s)
  BY LenProperties
<1>2. t \in [1..Len(s) -> T]
  BY <1>1
<1>3. t \in Seq(T)
  BY <1>1, <1>2, SeqDef
<1>4. Len(t) = Len(s)
  BY <1>1, <1>2, <1>3, LenProperties
<1> QED
  BY <1>1, <1>2, <1>3, <1>4

LEMMA RequestSeq ==
    ASSUME NEW rs \in Seq(RequestSet)
    PROVE  /\ Len(rs) \in Nat /\ DOMAIN rs = 1..Len(rs)
           /\ rs = [r \in DOMAIN rs |-> rs[r]]
           /\ \A r \in DOMAIN rs : rs[r] \in RequestSet
  BY LenProperties, ElementOfSeq

\* The request is the same one, however far it has got.
Kin(q, p) == /\ p.op = q.op /\ p.node = q.node /\ p.other = q.other
             /\ p.value = q.value /\ p.by = q.by

LEMMA KinSound ==
    ASSUME NEW q, NEW p, Kin(q, p), NEW pg, NEW B, Sound(q, pg, B)
    PROVE  Sound(p, pg, B)
  BY DEF Kin, Sound

\* It has got no further, or is over.
Further(q, p) == p.step = q.step \/ p.step \in {"done", "failed"}

\* What the steps of a page do to the requests that are there: none is lost,
\* and each stays the same one.
Follows(rs, ts) ==
    /\ ts \in Seq(RequestSet) /\ DOMAIN rs \subseteq DOMAIN ts
    /\ \A r \in DOMAIN rs : Kin(rs[r], ts[r]) /\ Further(rs[r], ts[r])

\* Rebinding changes the key and the host of what views have sent, and of
\* nothing else.
LEMMA ReboundType ==
    ASSUME NEW rs \in Seq(RequestSet), NEW s \in 0..MaxId, NEW c, NEW p
    PROVE  /\ Follows(rs, Rebound(rs, s, c, p)) /\ DOMAIN Rebound(rs, s, c, p) = DOMAIN rs
           /\ \A r \in DOMAIN rs :
                 LET q == Rebound(rs, s, c, p)[r] IN
                 /\ q.step = rs[r].step /\ q.gap = rs[r].gap
                 /\ rs[r].by \notin Views => q = rs[r]
<1> DEFINE ts == Rebound(rs, s, c, p)
<1>1. ts = [r \in DOMAIN rs |-> ts[r]]
  BY DEF Rebound
<1>2. ASSUME NEW r \in DOMAIN rs
      PROVE  /\ ts[r] \in RequestSet /\ Kin(rs[r], ts[r])
             /\ ts[r].step = rs[r].step /\ ts[r].gap = rs[r].gap
             /\ rs[r].by \notin Views => ts[r] = rs[r]
  <2> DEFINE q == rs[r]
             left == [q EXCEPT !.host = "left"]
             detached == [q EXCEPT !.host = "detached"]
             bound == [q EXCEPT !.key = s]
  <2>1. q \in RequestSet
    BY RequestSeq
  <2>2. ts[r] \in {q, left, detached, bound} /\ (q.by \notin Views => ts[r] = q)
    BY DEF Rebound, Views
  <2>3. /\ left \in RequestSet /\ Kin(q, left) /\ left.step = q.step /\ left.gap = q.gap
        /\ detached \in RequestSet /\ Kin(q, detached)
        /\ detached.step = q.step /\ detached.gap = q.gap
        /\ bound \in RequestSet /\ Kin(q, bound) /\ bound.step = q.step /\ bound.gap = q.gap
    <3>1. left \in RequestSet /\ Kin(q, left) /\ left.step = q.step /\ left.gap = q.gap
      BY <2>1 DEF RequestSet, Kin
    <3>2. /\ detached \in RequestSet /\ Kin(q, detached)
          /\ detached.step = q.step /\ detached.gap = q.gap
      BY <2>1 DEF RequestSet, Kin
    <3>3. bound \in RequestSet /\ Kin(q, bound) /\ bound.step = q.step /\ bound.gap = q.gap
      BY <2>1 DEF RequestSet, Kin
    <3> QED
      BY <3>1, <3>2, <3>3
  <2>4. Kin(q, q)
    BY DEF Kin
  <2> HIDE DEF ts, left, detached, bound
  <2> QED
    BY <2>1, <2>2, <2>3, <2>4
<1> HIDE DEF ts
<1>3. ts \in Seq(RequestSet) /\ DOMAIN ts = DOMAIN rs
  BY <1>1, <1>2, SeqMap
<1> QED
  BY <1>2, <1>3 DEF Follows, Further, ts

LEMMA ForgetType ==
    ASSUME NEW rs \in Seq(RequestSet), NEW dialog
    PROVE  /\ Follows(rs, Forget(rs, dialog)) /\ DOMAIN Forget(rs, dialog) = DOMAIN rs
           /\ \A r \in DOMAIN rs : /\ Forget(rs, dialog)[r].step = rs[r].step
                                   /\ Forget(rs, dialog)[r].gap = rs[r].gap
                                   /\ dialog = "none" => Forget(rs, dialog)[r] = rs[r]
<1> DEFINE ts == Forget(rs, dialog)
<1>1. ts = [r \in DOMAIN rs |-> ts[r]]
  BY DEF Forget
<1>2. ASSUME NEW r \in DOMAIN rs
      PROVE  /\ ts[r] \in RequestSet /\ Kin(rs[r], ts[r])
             /\ ts[r].step = rs[r].step /\ ts[r].gap = rs[r].gap
             /\ dialog = "none" => ts[r] = rs[r]
  <2> DEFINE detached == [rs[r] EXCEPT !.host = "detached"]
  <2>1. rs[r] \in RequestSet
    BY RequestSeq
  <2>2. ts[r] \in {rs[r], detached}
    BY DEF Forget
  <2>3. dialog = "none" => ts[r] = rs[r]
    BY <2>1 DEF Forget, RequestSet
  <2>4. detached \in RequestSet /\ Kin(rs[r], detached) /\ detached.step = rs[r].step
        /\ detached.gap = rs[r].gap
    BY <2>1 DEF RequestSet, Kin
  <2>5. Kin(rs[r], rs[r])
    BY DEF Kin
  <2> HIDE DEF ts, detached
  <2> QED
    BY <2>1, <2>2, <2>3, <2>4, <2>5
<1> HIDE DEF ts
<1>3. ts \in Seq(RequestSet) /\ DOMAIN ts = DOMAIN rs
  BY <1>1, <1>2, SeqMap
<1> QED
  BY <1>2, <1>3 DEF Follows, Further, ts

\* Callbacks close the request they belong to.
LEMMA DoneType ==
    ASSUME requests \in Seq(RequestSet), NEW r \in DOMAIN requests
    PROVE  /\ Follows(requests, Done(r)) /\ DOMAIN Done(r) = DOMAIN requests
           /\ \A o \in DOMAIN requests \ {r} : Done(r)[o] = requests[o]
           /\ Done(r)[r].step \in {"done", "failed"}
           /\ Done(r)[r].step = IF requests[r].step = "ok" THEN "done" ELSE "failed"
           /\ Done(r)[r].host = requests[r].host
           /\ Done(r)[r].gap = (requests[r].gap \/ (requests[r].step = "ok" /\ Untold(requests[r])))
<1> DEFINE ts == Done(r)
           q == requests[r]
           step == IF q.step = "ok" THEN "done" ELSE "failed"
           gap == q.gap \/ (q.step = "ok" /\ Untold(q))
           closed == [q EXCEPT !.step = step, !.gap = gap]
<1>1. /\ \A o \in DOMAIN requests : requests[o] \in RequestSet
      /\ requests = [o \in DOMAIN requests |-> requests[o]]
  BY RequestSeq
<1>2. gap \in BOOLEAN /\ step \in {"done", "failed"}
  <2>1. Untold(q) \in BOOLEAN
    BY DEF Untold, FirstLoad
  <2>2. q.gap \in BOOLEAN
    BY <1>1 DEF RequestSet
  <2> QED
    BY <2>1, <2>2
<1>3. ts = [requests EXCEPT ![r] = closed]
  BY DEF Done
<1>4. ts = [o \in DOMAIN requests |-> IF o = r THEN closed ELSE requests[o]]
  BY <1>1, <1>3
<1> HIDE DEF gap, step
<1>5. closed \in RequestSet /\ Kin(q, closed) /\ closed.step = step /\ closed.gap = gap
      /\ closed.host = q.host
  <2> HIDE DEF q
  <2>1. q \in RequestSet
    BY <1>1 DEF q
  <2>2. closed \in RequestSet
    BY <1>2, <2>1 DEF RequestSet
  <2>3. Kin(q, closed) /\ closed.host = q.host
    BY <2>1 DEF RequestSet, Kin
  <2>4. closed.step = step /\ closed.gap = gap
    BY <2>1 DEF RequestSet
  <2> QED
    BY <2>2, <2>3, <2>4
<1> HIDE DEF ts, closed
<1>6. \A o \in DOMAIN requests : ts[o] = IF o = r THEN closed ELSE requests[o]
  BY <1>4
<1>7. ts = [o \in DOMAIN requests |-> ts[o]]
  BY <1>4
<1>8. \A o \in DOMAIN requests : ts[o] \in RequestSet /\ Kin(requests[o], ts[o])
  BY <1>1, <1>5, <1>6 DEF Kin
<1>9. ts \in Seq(RequestSet) /\ DOMAIN ts = DOMAIN requests
  BY <1>7, <1>8, SeqMap
<1> QED
  BY <1>2, <1>5, <1>6, <1>8, <1>9 DEF Follows, Further, ts, step, gap

LEMMA SentType ==
    ASSUME NEW rs \in Seq(RequestSet), NEW q \in RequestSet
    PROVE  /\ Follows(rs, Append(rs, q)) /\ DOMAIN Append(rs, q) = DOMAIN rs \cup {Len(rs) + 1}
           /\ \A r \in DOMAIN rs : Append(rs, q)[r] = rs[r]
           /\ Append(rs, q)[Len(rs) + 1] = q
<1>1. Append(rs, q) \in Seq(RequestSet) /\ Len(Append(rs, q)) = Len(rs) + 1
  OBVIOUS
<1>2. /\ DOMAIN rs = 1..Len(rs) /\ Len(rs) \in Nat
      /\ DOMAIN Append(rs, q) = 1..(Len(rs) + 1)
  BY <1>1, LenProperties
<1>3. \A r \in DOMAIN rs : Append(rs, q)[r] = rs[r]
  BY <1>2
<1>4. Append(rs, q)[Len(rs) + 1] = q
  BY <1>2
<1> QED
  BY <1>1, <1>2, <1>3, <1>4 DEF Follows, Further, Kin

LEMMA FollowsOn ==
    ASSUME NEW rs, NEW ts, NEW us, Follows(rs, ts), Follows(ts, us)
    PROVE  Follows(rs, us)
  BY DEF Follows, Further, Kin

-----------------------------------------------------------------------------
(* Drawing a node                                                          *)

\* A node is drawn from an answer.
LEMMA BodyData ==
    ASSUME NEW B, NEW c, IsCache(c, B), NEW s \in 0..MaxId, Body(s, c)
    PROVE  s \in NodeIds /\ s \in B /\ NodeData(s, c) \in NodeAnswers
<1>1. s \in NodeIds
  BY FrontendAssumption DEF Body, NodeIds
<1>2. <<"node", s>> \in Keys
  BY <1>1, KeyIn
<1>3. c[<<"node", s>>] \in Entry(<<"node", s>>, B)
  BY <1>2 DEF IsCache
<1>4. c[<<"node", s>>].data \in DataOf(<<"node", s>>, B)
  BY <1>3 DEF Entry, Body, NodeData
<1>5. DataOf(<<"node", s>>, B) = IF s \in B THEN NodeAnswers ELSE {}
  BY DEF DataOf
<1> QED
  BY <1>1, <1>4, <1>5 DEF NodeData

LEMMA FormType ==
    ASSUME NEW B, NEW c, IsCache(c, B), NEW s \in 0..MaxId, Body(s, c), NEW dialog
    PROVE  /\ FormValues(s, c, dialog) \in Forms
           /\ DOMAIN FormValues(s, c, dialog) = FormFields(dialog)
           /\ \A f \in FormFields(dialog) : FormValues(s, c, dialog)[f] = NodeData(s, c)[f]
<1>1. NodeData(s, c) \in NodeAnswers
  BY BodyData
<1>2. FormFields(dialog) \subseteq Fields
  BY DEF FormFields, Fields
<1>3. \A f \in Fields : NodeData(s, c)[f] \in Values
  BY <1>1 DEF NodeAnswers, Fields
<1>4. FormValues(s, c, dialog) \in [FormFields(dialog) -> Values]
  BY <1>2, <1>3 DEF FormValues
<1>5. FormValues(s, c, dialog) \in Forms
  BY <1>2, <1>4 DEF Forms
<1> QED
  BY <1>5 DEF FormValues

\* However a page is drawn, its form keeps what its user typed or is that of
\* the node drawn.
LEMMA RedrawnType ==
    ASSUME NEW B, NEW c, IsCache(c, B), NEW s \in 0..MaxId, ViewsInv,
           NEW p \in PanelSet, p.vals = panel.vals, p.touched = panel.touched
    PROVE  /\ Redrawn(s, c, p) \in PanelSet
           /\ Redrawn(s, c, p).touched \subseteq DOMAIN Redrawn(s, c, p).vals
           /\ FormFits(s, c, Redrawn(s, c, p))
<1> DEFINE stays == Stays(s, c)
           card == page = "wiki" \/ ~(HasText(shown, cache) \/ HasText(s, c))
           dialog == IF s = 0 THEN "none" ELSE p.dialog
           q == [p EXCEPT !.edit = @ /\ stays, !.compose = @ /\ stays /\ card, !.dialog = dialog]
           draft == IF Editor(s, c, q) = "none" THEN 0
                    ELSE IF EditorStays(s, c, q) THEN q.draft ELSE s
           vals == IF ~Body(s, c) THEN <<>>
                   ELSE IF FormResets(s, c, q) THEN FormValues(s, c, q.dialog) ELSE q.vals
           touched == IF FormResets(s, c, q) THEN {} ELSE q.touched
           new == Redrawn(s, c, p)
<1>1. /\ q \in PanelSet /\ q.dialog = dialog /\ q.vals = panel.vals /\ q.touched = panel.touched
      /\ q.draft = p.draft
  <2>1. stays \in BOOLEAN /\ card \in BOOLEAN
    BY DEF Stays, Body
  <2> HIDE DEF stays, card
  <2> QED
    BY <2>1 DEF PanelSet
<1>2. new = [q EXCEPT !.draft = draft, !.vals = vals, !.touched = touched]
  BY DEF Redrawn
<1>3. draft \in 0..MaxId
  <2>1. q.draft \in 0..MaxId
    BY <1>1 DEF PanelSet
  <2>2. 0 \in 0..MaxId
    BY FrontendAssumption
  <2> HIDE DEF q
  <2> QED
    BY <2>1, <2>2
<1>4. vals \in Forms
  <2>1. <<>> \in Forms
    <3>1. {} \in SUBSET Fields /\ <<>> \in [{} -> Values]
      OBVIOUS
    <3> QED
      BY <3>1 DEF Forms
  <2>2. q.vals \in Forms
    BY <1>1 DEF ViewsInv, PanelSet
  <2>3. Body(s, c) => FormValues(s, c, q.dialog) \in Forms
    BY FormType
  <2> HIDE DEF q
  <2> QED
    BY <2>1, <2>2, <2>3
<1>5. touched \in SUBSET Fields
  BY <1>1 DEF ViewsInv, PanelSet
<1> HIDE DEF draft, vals, touched, q, new
<1>6. /\ new \in PanelSet /\ new.vals = vals /\ new.touched = touched /\ new.dialog = dialog
  BY <1>1, <1>2, <1>3, <1>4, <1>5 DEF PanelSet
<1>7. CASE FormResets(s, c, q)
  <2>1. touched = {} /\ (Body(s, c) => vals = FormValues(s, c, dialog))
    BY <1>1, <1>7 DEF touched, vals
  <2>2. FormFits(s, c, new)
    <3> SUFFICES ASSUME Body(s, c)
                 PROVE  /\ DOMAIN new.vals = FormFields(new.dialog)
                        /\ \A f \in FormFields(new.dialog) \ new.touched :
                              new.vals[f] = NodeData(s, c)[f]
      BY DEF FormFits
    <3>1. /\ DOMAIN FormValues(s, c, dialog) = FormFields(dialog)
          /\ \A f \in FormFields(dialog) : FormValues(s, c, dialog)[f] = NodeData(s, c)[f]
      BY FormType
    <3> QED
      BY <1>6, <2>1, <3>1
  <2> QED
    BY <1>6, <2>1, <2>2 DEF new
<1>8. CASE ~FormResets(s, c, q)
  <2>1. /\ Stays(s, c) /\ dialog = panel.dialog
        /\ FormValues(s, c, dialog) = FormValues(shown, cache, dialog)
    BY <1>1, <1>8 DEF FormResets
  <2>2. Body(s, c) /\ Body(shown, cache)
    BY <2>1 DEF Stays
  <2>3. vals = panel.vals /\ touched = panel.touched
    BY <1>1, <1>8, <2>2 DEF vals, touched
  <2>4. /\ DOMAIN panel.vals = FormFields(dialog)
        /\ \A f \in FormFields(dialog) \ panel.touched :
              panel.vals[f] = NodeData(shown, cache)[f]
    BY <2>1, <2>2 DEF ViewsInv, FormFits
  <2>5. \A f \in FormFields(dialog) : NodeData(shown, cache)[f] = NodeData(s, c)[f]
    BY <2>1 DEF FormValues
  <2>6. FormFits(s, c, new)
    BY <1>6, <2>3, <2>4, <2>5 DEF FormFits
  <2>7. panel.touched \subseteq DOMAIN panel.vals
    BY DEF ViewsInv
  <2> QED
    BY <1>6, <2>3, <2>6, <2>7 DEF new
<1> QED
  BY <1>7, <1>8

-----------------------------------------------------------------------------

\* The keys that are observed and the cache when node s is drawn.
Route(s, obs) == obs \cup ({<<"node", s>>} \cap Keys)
DrawnKeys(s, c, obs) ==
    {k \in obs : k[1] \in {"viewport", "path"}} \cup ViewKeys(s, Sync(obs, Route(s, obs), c))
DrawnCache(s, c, obs) ==
    Sync(Route(s, obs), DrawnKeys(s, c, obs), Sync(obs, Route(s, obs), c))

LEMMA DrawnType ==
    ASSUME NEW B, NEW c, IsCache(c, B), NEW s \in 0..MaxId, NEW obs \in SUBSET Keys, Quiet(c, obs)
    PROVE  /\ IsCache(DrawnCache(s, c, obs), B)
           /\ DrawnKeys(s, c, obs) \subseteq Keys
           /\ Quiet(DrawnCache(s, c, obs), DrawnKeys(s, c, obs))
           /\ \A k \in Keys : DrawnCache(s, c, obs)[k].data = c[k].data
<1> DEFINE c1 == Sync(obs, Route(s, obs), c)
           new == DrawnKeys(s, c, obs)
<1>1. IsCache(c1, B) /\ Quiet(c1, Route(s, obs)) /\ \A k \in Keys : c1[k].data = c[k].data
  BY SyncType
<1>2. /\ IsCache(DrawnCache(s, c, obs), B) /\ Quiet(DrawnCache(s, c, obs), new)
      /\ \A k \in Keys : DrawnCache(s, c, obs)[k].data = c1[k].data
  <2> HIDE DEF c1
  <2>1. DrawnCache(s, c, obs) = Sync(Route(s, obs), new, c1)
    BY DEF DrawnCache, c1
  <2> HIDE DEF new
  <2> QED
    BY <1>1, <2>1, SyncType
<1>3. ViewKeys(s, c1) \subseteq Keys
  <2>1. s # 0 => s \in NodeIds
    BY FrontendAssumption DEF NodeIds
  <2> HIDE DEF c1
  <2>2. s \in NodeIds => {<<"node", s>>, <<"linkedto", s>>, <<"content", s>>} \subseteq Keys
    BY KeyIn
  <2> QED
    BY <2>1, <2>2 DEF ViewKeys
<1>4. new \subseteq Keys
  BY <1>3 DEF DrawnKeys
<1> QED
  BY <1>1, <1>2, <1>4

\* What a page that is drawn leaves behind.
LEMMA DrawType ==
    ASSUME ViewsInv, NEW B, NEW c, IsCache(c, B), NEW s \in 0..MaxId,
           NEW obs \in SUBSET Keys, Quiet(c, obs),
           NEW p \in PanelSet, p.vals = panel.vals, p.touched = panel.touched,
           NEW rs \in Seq(RequestSet), Draw(s, c, p, rs, obs)
    PROVE  /\ shown' = s
           /\ IsCache(cache', B) /\ observed' \subseteq Keys /\ Quiet(cache', observed')
           /\ cache' = DrawnCache(s, c, obs)
           /\ panel' \in PanelSet /\ panel'.touched \subseteq DOMAIN panel'.vals
           /\ panel' = Redrawn(s, cache', p)
           /\ FormFits(s, cache', panel')
           /\ requests' = Rebound(rs, s, cache', panel')
           /\ Follows(rs, requests') /\ DOMAIN requests' = DOMAIN rs
<1>1. /\ shown' = s /\ cache' = DrawnCache(s, c, obs) /\ observed' = DrawnKeys(s, c, obs)
      /\ panel' = Redrawn(s, DrawnCache(s, c, obs), p)
      /\ requests' = Rebound(rs, s, DrawnCache(s, c, obs),
                             Redrawn(s, DrawnCache(s, c, obs), p))
  BY DEF Draw, DrawnCache, DrawnKeys, Route
<1> DEFINE c2 == DrawnCache(s, c, obs)
           view == Redrawn(s, c2, p)
<1>2. IsCache(c2, B) /\ DrawnKeys(s, c, obs) \subseteq Keys /\ Quiet(c2, DrawnKeys(s, c, obs))
  BY DrawnType
<1> HIDE DEF c2
<1>3. view \in PanelSet /\ view.touched \subseteq DOMAIN view.vals /\ FormFits(s, c2, view)
  BY <1>2, RedrawnType
<1>4. Follows(rs, Rebound(rs, s, c2, view)) /\ DOMAIN Rebound(rs, s, c2, view) = DOMAIN rs
  BY ReboundType
<1> QED
  BY <1>1, <1>2, <1>3, <1>4 DEF c2

-----------------------------------------------------------------------------
(* Sending                                                                 *)

LEMMA PartialIntro ==
    ASSUME NEW F \in SUBSET RowFields, NEW v, v = [f \in F |-> v[f]],
           \A f \in F : v[f] \in FieldValues(f)
    PROVE  v \in Partials
<1>1. \A f \in F : v[f] \in Values \cup {NoText} \cup Places
  BY DEF FieldValues
<1>2. v \in [F -> Values \cup {NoText} \cup Places]
  BY <1>1
<1> QED
  BY <1>2 DEF Partials

LEMMA PartialElim ==
    ASSUME NEW v \in Partials
    PROVE  DOMAIN v \subseteq RowFields /\ \A f \in DOMAIN v : v[f] \in FieldValues(f)
<1>1. PICK F \in SUBSET RowFields : v \in [F -> Values \cup {NoText} \cup Places]
  BY DEF Partials
<1> QED
  BY <1>1 DEF Partials

\* What is sent in the requests.
LEMMA SentValues ==
    /\ <<>> \in Partials
    /\ \A t \in Values : [text |-> t] \in Partials /\ [status |-> t] \in Partials
    /\ \A p \in Places : [place |-> p] \in Partials
    /\ Row \subseteq Partials
    /\ \A v \in Forms : v \in Partials
<1>1. <<>> \in Partials
  <2>1. <<>> = [f \in {} |-> <<>>[f]]
    OBVIOUS
  <2> QED
    BY <2>1, PartialIntro
<1>2. ASSUME NEW t \in Values PROVE [text |-> t] \in Partials /\ [status |-> t] \in Partials
  <2>1. [text |-> t] = [f \in {"text"} |-> [text |-> t][f]]
    OBVIOUS
  <2>2. [status |-> t] = [f \in {"status"} |-> [status |-> t][f]]
    OBVIOUS
  <2>3. \A f \in {"text"} : [text |-> t][f] \in FieldValues(f)
    BY DEF FieldValues
  <2>4. \A f \in {"status"} : [status |-> t][f] \in FieldValues(f)
    BY DEF FieldValues
  <2>5. {"text"} \in SUBSET RowFields /\ {"status"} \in SUBSET RowFields
    BY DEF RowFields
  <2>6. [text |-> t] \in Partials
    BY <2>1, <2>3, <2>5, PartialIntro
  <2> QED
    BY <2>2, <2>4, <2>5, <2>6, PartialIntro
<1>3. ASSUME NEW p \in Places PROVE [place |-> p] \in Partials
  <2>1. [place |-> p] = [f \in {"place"} |-> [place |-> p][f]]
    OBVIOUS
  <2>2. \A f \in {"place"} : [place |-> p][f] \in FieldValues(f)
    BY DEF FieldValues
  <2>3. {"place"} \in SUBSET RowFields
    BY DEF RowFields
  <2> QED
    BY <2>1, <2>2, <2>3, PartialIntro
<1>4. ASSUME NEW row \in Row PROVE row \in Partials
  <2>1. row = [f \in RowFields |-> row[f]]
    BY DEF Row, RowFields
  <2>2. \A f \in RowFields : row[f] \in FieldValues(f)
    BY DEF Row, RowFields, FieldValues
  <2> QED
    BY <2>1, <2>2, PartialIntro
<1>5. ASSUME NEW v \in Forms PROVE v \in Partials
  <2>1. PICK F \in SUBSET Fields : v \in [F -> Values]
    BY DEF Forms
  <2>2. F \subseteq RowFields /\ \A f \in F : v[f] \in FieldValues(f)
    BY <2>1 DEF Fields, RowFields, FieldValues
  <2>3. v = [f \in F |-> v[f]]
    BY <2>1
  <2> QED
    BY <2>2, <2>3, PartialIntro
<1> QED
  BY <1>1, <1>2, <1>3, <1>4, <1>5

\* Setting fields of a row leaves a row.
LEMMA ChangedType ==
    ASSUME NEW row \in Row, NEW v \in Partials
    PROVE  Changed(row, v) \in Row
<1> DEFINE new == Changed(row, v)
<1>1. DOMAIN row = RowFields
  BY DEF Row, RowFields
<1>2. new = [f \in RowFields |-> new[f]]
  BY <1>1 DEF Changed
<1>3. \A f \in RowFields : new[f] \in FieldValues(f)
  <2>1. \A f \in RowFields : row[f] \in FieldValues(f)
    BY DEF Row, RowFields, FieldValues
  <2>2. \A f \in DOMAIN v : v[f] \in FieldValues(f)
    BY PartialElim
  <2>3. \A f \in RowFields : new[f] = IF f \in DOMAIN v THEN v[f] ELSE row[f]
    BY <1>1 DEF Changed
  <2> HIDE DEF new
  <2> QED
    BY <2>1, <2>2, <2>3
<1> HIDE DEF new
<1>4. new \in Row
  <2>1. /\ new["name"] \in Values /\ new["status"] \in Values /\ new["type"] \in Values
        /\ new["text"] \in Values \cup {NoText} /\ new["place"] \in Places
    BY <1>3 DEF RowFields, FieldValues
  <2> QED
    BY <1>2, <2>1 DEF Row, RowFields
<1> QED
  BY <1>4 DEF new

LEMMA RequestIn ==
    ASSUME NEW op \in {"create", "patch", "delete", "link", "unlink", "upload", "raw", "move"},
           NEW node \in 0..MaxId, NEW other \in 0..MaxId, NEW value \in Partials,
           NEW by \in Views \cup {"canvas", "drop", "board", "task", "other"}
    PROVE  /\ Request(op, node, other, value, by) \in RequestSet
           /\ Kin([op |-> op, node |-> node, other |-> other, value |-> value, by |-> by],
                  Request(op, node, other, value, by))
  BY DEF Request, RequestSet, Kin

-----------------------------------------------------------------------------
(* Requests stay sound                                                     *)

LEMMA SoundFollows ==
    ASSUME NEW rs, NEW ts, AllSound(rs), Follows(rs, ts), DOMAIN ts = DOMAIN rs
    PROVE  AllSound(ts)
  BY KinSound DEF AllSound, Follows

LEMMA SoundSent ==
    ASSUME NEW rs, NEW q \in RequestSet, AllSound(rs), Sound(q, page, Born)
    PROVE  AllSound(Append(rs, q))
<1>1. rs \in Seq(RequestSet)
  BY DEF AllSound
<1>2. /\ Follows(rs, Append(rs, q)) /\ DOMAIN Append(rs, q) = DOMAIN rs \cup {Len(rs) + 1}
      /\ \A r \in DOMAIN rs : Append(rs, q)[r] = rs[r]
      /\ Append(rs, q)[Len(rs) + 1] = q
  BY <1>1, SentType
<1>3. ASSUME NEW r \in DOMAIN Append(rs, q) PROVE Sound(Append(rs, q)[r], page, Born)
  <2>1. CASE r \in DOMAIN rs
    BY <1>2, <2>1 DEF AllSound
  <2>2. CASE r = Len(rs) + 1
    BY <1>2, <2>2
  <2> QED
    BY <1>2, <2>1, <2>2
<1> QED
  BY <1>2, <1>3 DEF AllSound, Follows

\* The page and the ids given out are all that soundness knows of the state.
LEMMA SoundStays ==
    ASSUME AllSound(requests'), UNCHANGED <<scenario, issued>>
    PROVE  RequestsInv'
  BY DEF RequestsInv, AllSound, Born, page

\* Parts of the invariant whose variables a step leaves alone.
LEMMA PartsStay ==
    ASSUME FrontendInv
    PROVE  /\ UNCHANGED <<scenario, api>> => TablesInv'
           /\ UNCHANGED <<queries, issued>> => CacheInv'
           /\ UNCHANGED <<scenario, issued, requests>> => RequestsInv'
           /\ UNCHANGED <<scenario, queries, views>> => ViewsInv'
           /\ UNCHANGED canvas => CanvasInv'
           /\ UNCHANGED tasks => TasksInv'
           /\ UNCHANGED filters => FiltersInv'
<1>1. UNCHANGED <<scenario, api>> => TablesInv'
  BY DEF FrontendInv, TablesInv, api, Born
<1>2. UNCHANGED <<queries, issued>> => CacheInv'
  BY DEF FrontendInv, CacheInv, queries, IsCache, Quiet, Born
<1>3. UNCHANGED <<scenario, issued, requests>> => RequestsInv'
  BY DEF FrontendInv, RequestsInv, AllSound, Born, page
<1>4. UNCHANGED <<scenario, queries, views>> => ViewsInv'
  BY DEF FrontendInv, ViewsInv, queries, views, FormFits, Body, NodeData, Fetching, page
<1>5. UNCHANGED canvas => CanvasInv'
  BY DEF FrontendInv, CanvasInv, canvas
<1>6. UNCHANGED tasks => TasksInv'
  BY DEF FrontendInv, TasksInv, tasks
<1>7. UNCHANGED filters => FiltersInv'
  BY NextFilters DEF FrontendInv
<1> QED
  BY <1>1, <1>2, <1>3, <1>4, <1>5, <1>6, <1>7

\* Four of the parts hold after a page is drawn.
LEMMA DrawInv ==
    ASSUME FrontendInv, UNCHANGED <<scenario, api>>,
           NEW c, IsCache(c, Born), NEW s \in 0..MaxId, page \in {"tasks", "filters"} => s = 0,
           NEW obs \in SUBSET Keys, Quiet(c, obs),
           NEW p \in PanelSet, p.vals = panel.vals, p.touched = panel.touched,
           NEW rs, AllSound(rs), Draw(s, c, p, rs, obs)
    PROVE  TablesInv' /\ CacheInv' /\ RequestsInv' /\ ViewsInv'
<1>1. rs \in Seq(RequestSet) /\ ViewsInv
  BY DEF AllSound, FrontendInv
<1> DEFINE B == Born
<1>2. IsCache(c, B)
  OBVIOUS
<1> HIDE DEF B
<1>3. /\ shown' = s
      /\ IsCache(cache', B) /\ observed' \subseteq Keys /\ Quiet(cache', observed')
      /\ panel' \in PanelSet /\ panel'.touched \subseteq DOMAIN panel'.vals
      /\ FormFits(s, cache', panel')
      /\ Follows(rs, requests') /\ DOMAIN requests' = DOMAIN rs
  BY <1>1, <1>2, DrawType
<1>4. TablesInv'
  BY PartsStay
<1>5. CacheInv'
  BY <1>3 DEF CacheInv, IsCache, Quiet, Born, api, B
<1>6. RequestsInv'
  <2>1. AllSound(requests')
    BY <1>3, SoundFollows
  <2> QED
    BY <2>1, SoundStays DEF api
<1>7. ViewsInv'
  BY <1>3 DEF ViewsInv, FormFits, Body, NodeData, Fetching, page
<1> QED
  BY <1>4, <1>5, <1>6, <1>7

-----------------------------------------------------------------------------
(* The initial states                                                      *)

LEMMA ZeroId == 0 \in 0..MaxId /\ NodeIds \subseteq 0..MaxId
  BY FrontendAssumption DEF NodeIds

LEMMA ClosedPanel ==
    /\ Closed \in PanelSet /\ Closed.touched \subseteq DOMAIN Closed.vals
    /\ \A s, c : FormFits(s, c, Closed)
<1>1. <<>> \in Forms
  <2>1. {} \in SUBSET Fields /\ <<>> \in [{} -> Values]
    OBVIOUS
  <2> QED
    BY <2>1 DEF Forms
<1>2. Closed \in PanelSet
  BY <1>1, ZeroId DEF Closed, PanelSet
<1>3. FormFields(Closed.dialog) = {} /\ DOMAIN Closed.vals = {}
  BY DEF Closed, FormFields
<1>4. \A s, c : FormFits(s, c, Closed)
  BY <1>3 DEF FormFits
<1> QED
  BY <1>2, <1>4 DEF Closed

LEMMA InitInv ==
    ASSUME Init
    PROVE  FrontendInv
<1> USE DEF Init
<1>1. TablesInv
  <2>1. \A i \in NodeIds : rows[i] # Gone => i <= issued
    BY FrontendAssumption
  <2>2. \A i \in NodeIds : i \in Int /\ i >= 1
    BY FrontendAssumption DEF NodeIds
  <2>3. issued \in 0..MaxId /\ MaxId \in Nat
    BY FrontendAssumption
  <2>4. \A i \in NodeIds : rows[i] # Gone => i \in Born
    BY <2>1, <2>2, <2>3 DEF Born
  <2>5. /\ rows \in [NodeIds -> Row \cup {Gone}] /\ links \subseteq Pairs /\ scenario \in Scenarios
    BY FrontendAssumption
  <2> QED
    BY <2>3, <2>4, <2>5 DEF TablesInv
<1>2. bounds \in DOMAIN Area
  BY FrontendAssumption DEF CanvasInit
<1>3. filter \in Filters
  BY DEF TasksInit
<1>4. Mounted \subseteq Keys
  <2>1. <<"viewport", bounds>> \in Keys /\ Path(filter) \in Keys
    BY <1>2, <1>3, KeyIn
  <2>2. <<"linkedto", Project>> \in Keys
    BY KeyIn, FrontendAssumption
  <2> QED
    BY <2>1, <2>2 DEF Mounted
<1>5. CacheInv
  <2> DEFINE blanks == [k \in Keys |-> Blank]
  <2>1. IsCache(blanks, Born) /\ Quiet(blanks, {})
    <3>1. \A k : Blank \in Entry(k, Born) /\ Blank.wire = Idle
      BY DEF Blank, Entry
    <3> QED
      BY <3>1 DEF IsCache, Quiet
  <2> HIDE DEF blanks
  <2>2. cache = Sync({}, Mounted, blanks) /\ observed = Mounted
    BY DEF QueriesInit, blanks
  <2>3. IsCache(Sync({}, Mounted, blanks), Born) /\ Quiet(Sync({}, Mounted, blanks), Mounted)
    BY <2>1, SyncType
  <2> QED
    BY <1>4, <2>2, <2>3 DEF CacheInv
<1>6. RequestsInv
  BY DEF QueriesInit, RequestsInv, AllSound
<1>7. ViewsInv
  <2>1. shown \in 0..MaxId /\ (page \in {"tasks", "filters"} => shown = 0)
    BY FrontendAssumption DEF ViewsInit, page
  <2> QED
    BY <2>1, ClosedPanel DEF ViewsInv, ViewsInit
<1>8. CanvasInv
  <2>1. /\ cards = <<>> /\ dragging = {} /\ edges = {} /\ undo = {} /\ creating = NoData
    BY DEF CanvasInit
  <2> QED
    BY <1>2, <2>1 DEF CanvasInv
<1>9. TasksInv
  BY DEF TasksInit, TasksInv
<1>10. FiltersInv
  BY InitFilters
<1> QED
  BY <1>1, <1>5, <1>6, <1>7, <1>8, <1>9, <1>10 DEF FrontendInv

-----------------------------------------------------------------------------
(* The API                                                                 *)

LEMMA SetAt ==
    ASSUME NEW rs \in Seq(RequestSet), NEW r \in DOMAIN rs, NEW q \in RequestSet,
           NEW ts, ts = [rs EXCEPT ![r] = q]
    PROVE  /\ ts \in Seq(RequestSet) /\ DOMAIN ts = DOMAIN rs
           /\ ts[r] = q /\ \A o \in DOMAIN rs \ {r} : ts[o] = rs[o]
<1>1. ts \in Seq(RequestSet) /\ DOMAIN ts = DOMAIN rs
  <2>1. ts = [o \in DOMAIN rs |-> ts[o]] /\ \A o \in DOMAIN rs : ts[o] \in RequestSet
    BY RequestSeq
  <2> QED
    BY <2>1, SeqMap
<1>2. ts[r] = q /\ \A o \in DOMAIN rs \ {r} : ts[o] = rs[o]
  BY RequestSeq
<1> QED
  BY <1>1, <1>2

Steps == {"sent", "ok", "linked", "refused", "lost", "done", "failed"}

\* A request that gets further stays sound.
LEMMA SoundStep ==
    ASSUME NEW rs, AllSound(rs), NEW r \in DOMAIN rs, NEW step \in Steps, NEW gap \in BOOLEAN,
           NEW ts, \/ ts = [rs EXCEPT ![r].step = step]
                   \/ ts = [rs EXCEPT ![r].step = step, ![r].gap = gap]
    PROVE  AllSound(ts)
<1> DEFINE p == [rs[r] EXCEPT !.step = step]
           q == [rs[r] EXCEPT !.step = step, !.gap = gap]
<1>1. rs \in Seq(RequestSet) /\ rs[r] \in RequestSet /\ Sound(rs[r], page, Born)
  BY RequestSeq DEF AllSound
<1>2. p \in RequestSet /\ Kin(rs[r], p) /\ q \in RequestSet /\ Kin(rs[r], q)
  BY <1>1 DEF RequestSet, Kin, Steps
<1>3. ts = [rs EXCEPT ![r] = p] \/ ts = [rs EXCEPT ![r] = q]
  OBVIOUS
<1> HIDE DEF p, q
<1>4. PICK e \in {p, q} : ts = [rs EXCEPT ![r] = e]
  BY <1>3
<1>5. e \in RequestSet /\ Sound(e, page, Born)
  BY <1>1, <1>2, KinSound
<1>6. /\ ts \in Seq(RequestSet) /\ DOMAIN ts = DOMAIN rs
      /\ ts[r] = e /\ \A o \in DOMAIN rs \ {r} : ts[o] = rs[o]
  BY <1>1, <1>4, <1>5, SetAt
<1> QED
  BY <1>5, <1>6 DEF AllSound

LEMMA PairIn ==
    ASSUME NEW i \in NodeIds, NEW j \in NodeIds, i # j
    PROVE  {i, j} \in Pairs
<1>1. \A k : {i, j} # {k}
  OBVIOUS
<1> QED
  BY <1>1 DEF Pairs

\* Whatever the API does to the nodes and links, they stay nodes and links.
LEMMA ExecuteInv ==
    ASSUME FrontendInv, NEW r \in DOMAIN requests, Execute(r), Others
    PROVE  FrontendInv'
<1> DEFINE q == requests[r]
<1>1. UNCHANGED scenario /\ UNCHANGED queries /\ UNCHANGED views
      /\ UNCHANGED canvas /\ UNCHANGED tasks /\ UNCHANGED filters
  BY DEF Execute, Others
<1>2. AllSound(requests) /\ requests \in Seq(RequestSet) /\ q \in RequestSet /\ Sound(q, page, Born)
      /\ requests = [o \in DOMAIN requests |-> requests[o]]
  BY RequestSeq DEF FrontendInv, RequestsInv, AllSound
<1>3. TablesInv /\ MaxId \in Nat
  BY FrontendAssumption DEF FrontendInv
<1>4. ViewsInv' /\ CanvasInv' /\ TasksInv' /\ FiltersInv'
  BY <1>1, PartsStay
<1>5. CASE /\ q.op = "create" /\ issued < MaxId
           /\ rows' = [rows EXCEPT ![issued + 1] = q.value] /\ issued' = issued + 1
           /\ requests' = [requests EXCEPT ![r].step = "ok", ![r].node = issued + 1,
                                           ![r].key = issued + 1]
           /\ UNCHANGED links
  <2>1. issued \in 0..MaxId /\ issued + 1 \in NodeIds /\ issued + 1 \in 0..MaxId
    BY <1>3, <1>5 DEF TablesInv, NodeIds
  <2>2. Born \subseteq Born' /\ issued + 1 \in Born' /\ issued + 1 \notin Born
    BY <1>5, <2>1 DEF Born
  <2>3. q.value \in Row
    BY <1>2, <1>5 DEF Sound
  <2>4. TablesInv'
    <3>1. rows' \in [NodeIds -> Row \cup {Gone}]
      BY <1>3, <1>5, <2>3 DEF TablesInv
    <3>2. \A i \in NodeIds : rows'[i] # Gone => i \in Born'
      BY <1>3, <1>5, <2>2 DEF TablesInv
    <3>3. issued' \in 0..MaxId /\ links' \subseteq Pairs /\ scenario' \in Scenarios
      BY <1>1, <1>3, <1>5, <2>1 DEF TablesInv
    <3> QED
      BY <3>1, <3>2, <3>3 DEF TablesInv
  <2>5. CacheInv'
    <3>1. PICK C : C = Born'
      OBVIOUS
    <3>2. IsCache(cache, Born)
      BY DEF FrontendInv, CacheInv
    <3>3. IsCache(cache, C)
      BY <2>2, <3>1, <3>2, CacheGrows
    <3>4. IsCache(cache, Born)'
      BY <1>1, <3>1, <3>3 DEF IsCache, queries
    <3> QED
      BY <1>1, <3>4 DEF FrontendInv, CacheInv, queries, Quiet
  <2>6. RequestsInv'
    <3> DEFINE p == [q EXCEPT !.step = "ok", !.node = issued + 1, !.key = issued + 1]
    <3>1. p \in RequestSet
      BY <1>2, <2>1 DEF RequestSet
    <3>2. /\ p.op = "create" /\ p.value = q.value /\ p.other = q.other /\ p.by = q.by
          /\ p.node = issued + 1
      BY <1>2, <1>5 DEF RequestSet
    <3>3. requests' = [requests EXCEPT ![r] = p]
      BY <1>5
    <3> HIDE DEF p, q
    <3>4. Sound(p, page, Born')
      BY <1>2, <1>5, <2>2, <3>2 DEF Sound
    <3>5. /\ requests' \in Seq(RequestSet) /\ DOMAIN requests' = DOMAIN requests
          /\ requests'[r] = p /\ \A o \in DOMAIN requests \ {r} : requests'[o] = requests[o]
      BY <1>2, <3>1, <3>3, SetAt
    <3>6. \A o \in DOMAIN requests : Sound(requests[o], page, Born')
      BY <1>2, <2>2 DEF AllSound, Sound
    <3>7. \A o \in DOMAIN requests' : Sound(requests'[o], page, Born')
      BY <3>4, <3>5, <3>6
    <3> QED
      BY <1>1, <3>5, <3>7 DEF RequestsInv, AllSound, page, Sound
  <2> QED
    BY <1>4, <2>4, <2>5, <2>6 DEF FrontendInv
<1>6. ASSUME NEW step \in {"ok", "linked", "refused"},
             requests' = [requests EXCEPT ![r].step = step], UNCHANGED issued,
             rows' \in [NodeIds -> Row \cup {Gone}], links' \subseteq Pairs,
             \A i \in NodeIds : rows'[i] # Gone => rows[i] # Gone
      PROVE  FrontendInv'
  <2> HIDE DEF q
  <2>1. AllSound(requests')
    <3>1. step \in Steps /\ TRUE \in BOOLEAN /\ AllSound(requests)
      BY <1>2 DEF Steps
    <3>2. requests' = [requests EXCEPT ![r].step = step]
      BY <1>6
    <3> QED
      BY <3>1, <3>2, SoundStep
  <2>2. RequestsInv'
    BY <1>1, <1>6, <2>1, SoundStays
  <2>3. TablesInv'
    BY <1>1, <1>3, <1>6 DEF TablesInv, Born
  <2>4. CacheInv'
    BY <1>1, <1>6, PartsStay
  <2> QED
    BY <1>4, <2>2, <2>3, <2>4 DEF FrontendInv
<1>7. CASE /\ q.op \in {"patch", "move", "upload", "raw"} /\ Exists(rows, q.node)
           /\ rows' = [rows EXCEPT ![q.node] = Changed(@, q.value)]
           /\ requests' = [requests EXCEPT ![r].step = "ok"]
           /\ UNCHANGED <<links, issued>>
  <2>1. q.node \in NodeIds /\ rows[q.node] \in Row /\ q.value \in Partials
    BY <1>2, <1>3, <1>7 DEF Exists, TablesInv, RequestSet
  <2>2. Changed(rows[q.node], q.value) \in Row
    BY <2>1, ChangedType
  <2>3. rows' \in [NodeIds -> Row \cup {Gone}]
    BY <1>3, <1>7, <2>2 DEF TablesInv
  <2>4. \A i \in NodeIds : rows'[i] # Gone => rows[i] # Gone
    BY <1>3, <1>7 DEF TablesInv, Exists
  <2> QED
    BY <1>3, <1>6, <1>7, <2>3, <2>4 DEF TablesInv
<1>8. CASE /\ q.op = "delete" /\ Exists(rows, q.node)
           /\ rows' = [rows EXCEPT ![q.node] = Gone]
           /\ links' = {l \in links : q.node \notin l}
           /\ requests' = [requests EXCEPT ![r].step = "ok"]
           /\ UNCHANGED issued
  <2>1. rows' \in [NodeIds -> Row \cup {Gone}] /\ links' \subseteq Pairs
    BY <1>3, <1>8 DEF TablesInv
  <2>2. \A i \in NodeIds : rows'[i] # Gone => rows[i] # Gone
    BY <1>3, <1>8 DEF TablesInv
  <2> QED
    BY <1>6, <1>8, <2>1, <2>2
<1>9. CASE /\ q.op = "link" /\ Exists(rows, q.node) /\ Exists(rows, q.other)
           /\ links' = links \cup {{q.node, q.other}}
           /\ requests' = [requests EXCEPT ![r].step =
                             IF {q.node, q.other} \in links THEN "linked" ELSE "ok"]
           /\ UNCHANGED <<rows, issued>>
  <2>1. q.node \in NodeIds /\ q.other \in NodeIds /\ q.node # q.other
    BY <1>2, <1>9 DEF Exists, Sound
  <2>2. links' \subseteq Pairs
    BY <1>3, <1>9, <2>1, PairIn DEF TablesInv
  <2>3. PICK step \in {"ok", "linked", "refused"} :
           requests' = [requests EXCEPT ![r].step = step]
    BY <1>9
  <2> QED
    BY <1>3, <1>6, <1>9, <2>2, <2>3 DEF TablesInv
<1>10. CASE /\ q.op = "unlink" /\ links' = links \ {{q.node, q.other}}
            /\ requests' = [requests EXCEPT ![r].step = "ok"]
            /\ UNCHANGED <<rows, issued>>
  <2>1. links' \subseteq Pairs
    BY <1>3, <1>10 DEF TablesInv
  <2> QED
    BY <1>3, <1>6, <1>10, <2>1 DEF TablesInv
<1>11. CASE requests' = [requests EXCEPT ![r].step = "refused"] /\ UNCHANGED api
  BY <1>3, <1>6, <1>11 DEF TablesInv, api
<1> QED
  BY <1>5, <1>7, <1>8, <1>9, <1>10, <1>11 DEF Execute

LEMMA LoseInv ==
    ASSUME FrontendInv, NEW r \in DOMAIN requests, Lose(r), Others
    PROVE  FrontendInv'
<1>1. UNCHANGED <<scenario, api, queries, views, canvas, tasks, filters>>
  BY DEF Lose, Others
<1>2. AllSound(requests')
  <2>1. AllSound(requests)
    BY DEF FrontendInv, RequestsInv
  <2>2. PICK step \in Steps, gap \in BOOLEAN :
           requests' = [requests EXCEPT ![r].step = step, ![r].gap = gap]
    BY DEF Lose, Steps
  <2> QED
    BY <2>1, <2>2, SoundStep
<1>3. RequestsInv'
  BY <1>1, <1>2, SoundStays DEF api
<1>4. TablesInv' /\ CacheInv' /\ ViewsInv' /\ CanvasInv' /\ TasksInv' /\ FiltersInv'
  BY <1>1, PartsStay DEF api
<1> QED
  BY <1>3, <1>4 DEF FrontendInv

LEMMA ServeInv ==
    ASSUME FrontendInv, NEW k \in observed, Serve(k), Others
    PROVE  FrontendInv'
<1>1. UNCHANGED <<scenario, api, observed, requests, views, canvas, tasks, filters>>
  BY DEF Serve, Others
<1>2. /\ k \in Keys /\ IsCache(cache, Born) /\ Quiet(cache, observed)
      /\ observed \subseteq Keys /\ TablesInv
  BY DEF FrontendInv, CacheInv
<1> DEFINE answer == Answer(k, rows, links)
<1>3. answer \in DataOf(k, Born) \cup {Missing}
  BY <1>2, AnswerType
<1>4. cache' = [cache EXCEPT ![k].wire = answer]
  BY DEF Serve
<1> HIDE DEF answer
<1>5. cache[k].wire = Asked
  BY DEF Serve
<1>6. /\ cache' = [j \in Keys |-> cache'[j]] /\ \A j \in Keys \ {k} : cache'[j] = cache[j]
      /\ cache'[k] = [cache[k] EXCEPT !.wire = answer]
  BY <1>2, <1>4 DEF IsCache
<1>7. cache'[k] \in Entry(k, Born) /\ cache'[k].data = cache[k].data
      /\ cache'[k].error = cache[k].error
  <2>1. cache[k] \in Entry(k, Born)
    BY <1>2 DEF IsCache
  <2> QED
    BY <1>3, <1>6, <2>1 DEF Entry
<1>8. CacheInv'
  <2>1. \A j \in Keys : cache'[j] \in Entry(j, Born)
    BY <1>2, <1>6, <1>7 DEF IsCache
  <2>2. \A j \in Keys : cache'[j].wire # Idle => j \in observed
    BY <1>2, <1>6 DEF Quiet
  <2> QED
    BY <1>1, <1>2, <1>6, <2>1, <2>2 DEF CacheInv, IsCache, Quiet, Born, api
<1>9. ViewsInv'
  <2>1. shown \in 0..MaxId /\ FormFits(shown, cache, panel)
    BY DEF FrontendInv, ViewsInv
  <2>2. Body(shown, cache)' => Body(shown, cache) /\ NodeData(shown, cache)' = NodeData(shown, cache)
    <3>1. CASE shown = 0
      BY <1>1, <3>1 DEF Body, views
    <3>2. CASE shown # 0
      <4>1. <<"node", shown>> \in Keys
        <5>1. shown \in NodeIds
          BY <2>1, <3>2, FrontendAssumption DEF NodeIds
        <5> QED
          BY <5>1, KeyIn
      <4>2. NodeData(shown, cache)' = NodeData(shown, cache)
        BY <1>1, <1>6, <1>7, <4>1 DEF NodeData, views
      <4>3. k = <<"node", shown>> => answer # Idle
        <5>1. k = <<"node", shown>> => answer \in NodeAnswers \cup {Missing}
          BY <1>3 DEF DataOf
        <5> QED
          BY <5>1, FrontendAssumption DEF NodeAnswers
      <4>4. k = <<"node", shown>> => Fetching(cache', <<"node", shown>>)
                                     /\ Fetching(cache, <<"node", shown>>)
        <5>1. k = <<"node", shown>> => cache'[k].wire = answer
          <6>1. cache[k] \in Entry(k, Born)
            BY <1>2 DEF IsCache
          <6> QED
            BY <1>6, <6>1 DEF Entry
        <5> QED
          BY <1>5, <4>3, <5>1, FrontendAssumption DEF Fetching
      <4>5. k # <<"node", shown>> => cache'[<<"node", shown>>] = cache[<<"node", shown>>]
        BY <1>6, <4>1
      <4>6. /\ cache'[<<"node", shown>>].error = cache[<<"node", shown>>].error
            /\ Fetching(cache', <<"node", shown>>) <=> Fetching(cache, <<"node", shown>>)
        BY <1>7, <4>4, <4>5 DEF Fetching
      <4> QED
        BY <1>1, <4>2, <4>6 DEF Body, NodeData, views, page, Fetching
    <3> QED
      BY <3>1, <3>2
  <2>3. FormFits(shown, cache, panel)'
    BY <1>1, <2>1, <2>2 DEF FormFits, views
  <2> QED
    BY <1>1, <2>3 DEF FrontendInv, ViewsInv, views, page
<1>10. TablesInv' /\ RequestsInv' /\ CanvasInv' /\ TasksInv' /\ FiltersInv'
  BY <1>1, PartsStay DEF api
<1> QED
  BY <1>8, <1>9, <1>10 DEF FrontendInv

-----------------------------------------------------------------------------
(* The cache                                                               *)

LEMMA BornNodes == TablesInv => Born \subseteq NodeIds /\ Born \subseteq 0..MaxId
  BY FrontendAssumption DEF TablesInv, Born, NodeIds

\* What the answer to the viewport query can be drawn from.
LEMMA ListedType ==
    ASSUME NEW B, NEW c, IsCache(c, B), NEW b \in DOMAIN Area
    PROVE  /\ Ids(Listed(c, b)) \subseteq B
           /\ \A n \in Listed(c, b) : n.id \in B /\ n.links \subseteq B \ {n.id}
           /\ \A m, n \in Listed(c, b) : m.id = n.id => m = n
           /\ B \subseteq NodeIds => Edges(Listed(c, b)) \subseteq Pairs
<1> DEFINE k == <<"viewport", b>>
           nodes == Listed(c, b)
<1>1. c[k] \in Entry(k, B)
  BY KeyIn DEF IsCache
<1>2. DataOf(k, B) = {S \in SUBSET ShapesOf(B) :
                        \A n \in S : n.id \notin n.links /\ \A m \in S : m.id = n.id => m = n}
  BY DEF DataOf
<1>3. /\ nodes \in SUBSET ShapesOf(B) /\ \A n \in nodes : n.id \notin n.links
      /\ \A m, n \in nodes : m.id = n.id => m = n
  BY <1>1, <1>2 DEF Listed, Entry
<1> HIDE DEF nodes
<1>4. \A n \in nodes : n.id \in B /\ n.links \subseteq B \ {n.id}
  BY <1>3 DEF ShapesOf
<1>5. ASSUME B \subseteq NodeIds, NEW e \in Edges(nodes) PROVE e \in Pairs
  <2>1. PICK n \in nodes : \E j \in n.links : e = {n.id, j}
    BY <1>5 DEF Edges
  <2>2. PICK j \in n.links : e = {n.id, j}
    BY <2>1
  <2>3. n.id \in NodeIds /\ j \in NodeIds /\ n.id # j
    BY <1>4, <1>5, <2>1, <2>2
  <2> QED
    BY <2>2, <2>3, PairIn
<1> QED
  BY <1>3, <1>4, <1>5 DEF Ids, nodes

\* Cards and edges are of nodes, and no answer takes a card under the mouse away.
LEMMA CanvasDrawsType ==
    ASSUME TablesInv, CanvasInv, NEW c, IsCache(c, Born), NEW b \in DOMAIN Area, CanvasDraws(c, b)
    PROVE  /\ cards' = [i \in DOMAIN cards' |-> cards'[i]] /\ DOMAIN cards' \subseteq NodeIds
           /\ dragging \subseteq DOMAIN cards' /\ edges' \subseteq Pairs
           /\ \A i \in dragging : cards'[i] = cards[i]
<1> DEFINE nodes == Listed(c, b)
           merged == reconcileNodes(nodes)
<1>1. Ids(nodes) \subseteq NodeIds /\ Edges(nodes) \subseteq Pairs
  BY BornNodes, ListedType
<1>2. (cards' = cards /\ edges' = edges) \/ (cards' = merged /\ edges' = Edges(nodes))
  BY DEF CanvasDraws
<1>3. CASE cards' = cards /\ edges' = edges
  BY <1>3 DEF CanvasInv
<1>4. CASE cards' = merged /\ edges' = Edges(nodes)
  <2> HIDE DEF nodes
  <2>1. /\ merged = [i \in Ids(nodes) \cup dragging |-> merged[i]]
        /\ \A i \in dragging : merged[i] = cards[i]
    BY DEF reconcileNodes
  <2>2. dragging \subseteq NodeIds
    BY DEF CanvasInv
  <2> HIDE DEF merged
  <2>3. DOMAIN merged = Ids(nodes) \cup dragging
    BY <2>1
  <2> QED
    BY <1>1, <1>4, <2>1, <2>2, <2>3
<1> QED
  BY <1>2, <1>3, <1>4

\* The board marks requests and lets go of overrides, and no more.
LEMMA BoardDrawsType ==
    ASSUME NEW rs \in Seq(RequestSet), NEW c, NEW f, NEW b,
           NEW over, over = [i \in DOMAIN over |-> over[i]], BoardDraws(c, f, b, rs, over)
    PROVE  /\ Follows(rs, requests') /\ DOMAIN requests' = DOMAIN rs
           /\ overrides' = [i \in DOMAIN overrides' |-> overrides'[i]]
           /\ DOMAIN overrides' \subseteq DOMAIN over
           /\ DOMAIN drawn' \subseteq DOMAIN drawn
           /\ \/ overrides' = <<>>
              \/ overrides' = over /\ requests' = rs
<1> DEFINE stays == Board(cache, filter, board) /\ Board(c, f, b)
<1>1. /\ overrides' = IF stays THEN over ELSE <<>>
      /\ drawn' = IF stays THEN drawn ELSE <<>>
      /\ requests' = [r \in DOMAIN rs |->
                        IF rs[r].by = "board" /\ InFlight(rs[r]) /\ ~stays
                        THEN [rs[r] EXCEPT !.host = "left"] ELSE rs[r]]
  BY DEF BoardDraws
<1> HIDE DEF stays
<1>2. requests' = [r \in DOMAIN rs |-> requests'[r]]
  BY <1>1
<1>3. ASSUME NEW r \in DOMAIN rs
      PROVE  requests'[r] \in RequestSet /\ Kin(rs[r], requests'[r]) /\ requests'[r].step = rs[r].step
  <2> DEFINE left == [rs[r] EXCEPT !.host = "left"]
  <2>1. rs[r] \in RequestSet
    BY RequestSeq
  <2>2. requests'[r] \in {rs[r], left}
    BY <1>1
  <2>3. left \in RequestSet /\ Kin(rs[r], left) /\ left.step = rs[r].step
    BY <2>1 DEF RequestSet, Kin
  <2>4. Kin(rs[r], rs[r])
    BY DEF Kin
  <2> HIDE DEF left
  <2> QED
    BY <2>1, <2>2, <2>3, <2>4
<1>4. requests' \in Seq(RequestSet) /\ DOMAIN requests' = DOMAIN rs
  BY <1>2, <1>3, SeqMap
<1>5. /\ overrides' = [i \in DOMAIN overrides' |-> overrides'[i]]
      /\ DOMAIN overrides' \subseteq DOMAIN over
      /\ DOMAIN drawn' \subseteq DOMAIN drawn
  BY <1>1
<1>6. overrides' = <<>> \/ (overrides' = over /\ requests' = rs)
  <2>1. rs = [r \in DOMAIN rs |-> rs[r]]
    BY RequestSeq
  <2> QED
    BY <1>1, <2>1
<1> QED
  BY <1>3, <1>4, <1>5, <1>6 DEF Follows, Further

\* No node is shown on the task page and on that of the filters.
LEMMA NoView ==
    ASSUME ViewsInv, page \in {"tasks", "filters"}, UNCHANGED <<scenario, views>>
    PROVE  ViewsInv'
  BY DEF ViewsInv, views, page, FormFits, Body

\* The task page is drawn.
LEMMA BoardInv ==
    ASSUME FrontendInv, page = "tasks", UNCHANGED <<scenario, api, views, canvas, filters>>,
           NEW c, IsCache(c, Born), NEW obs \in SUBSET Keys, Quiet(c, obs), NEW f \in Filters,
           NEW b, NEW rs, AllSound(rs),
           NEW over, over = [i \in DOMAIN over |-> over[i]], DOMAIN over \subseteq NodeIds,
           cache' = c, observed' = obs, filter' = f, BoardDraws(c, f, b, rs, over)
    PROVE  FrontendInv'
<1>1. rs \in Seq(RequestSet)
  BY DEF AllSound
<1>2. /\ Follows(rs, requests') /\ DOMAIN requests' = DOMAIN rs
      /\ overrides' = [i \in DOMAIN overrides' |-> overrides'[i]]
      /\ DOMAIN overrides' \subseteq DOMAIN over
      /\ DOMAIN drawn' \subseteq DOMAIN drawn
  BY <1>1, BoardDrawsType
<1>3. RequestsInv'
  <2>1. AllSound(requests')
    BY <1>2, SoundFollows
  <2> QED
    BY <2>1, SoundStays DEF api
<1>4. TasksInv'
  BY <1>2 DEF FrontendInv, TasksInv
<1>5. CacheInv'
  BY DEF CacheInv, IsCache, Quiet, Born, api
<1>6. ViewsInv'
  BY NoView DEF FrontendInv
<1>7. TablesInv' /\ CanvasInv' /\ FiltersInv'
  BY PartsStay
<1> QED
  BY <1>3, <1>4, <1>5, <1>6, <1>7 DEF FrontendInv

LEMMA PanelKeeps ==
    ASSUME FrontendInv
    PROVE  ViewsInv /\ panel \in PanelSet /\ shown \in 0..MaxId /\ AllSound(requests)
           /\ IsCache(cache, Born) /\ observed \in SUBSET Keys /\ Quiet(cache, observed)
           /\ TablesInv /\ CanvasInv
           /\ (page \in {"tasks", "filters"} => shown = 0)
  BY DEF FrontendInv, ViewsInv, RequestsInv, CacheInv

\* Whatever cache a page is drawn from.
LEMMA ReactsInv ==
    ASSUME FrontendInv, NEW c, IsCache(c, Born), Quiet(c, observed), Reacts(c)
    PROVE  FrontendInv'
<1>1. UNCHANGED <<scenario, api>> /\ FiltersInv'
  BY PartsStay DEF Reacts
<1>2. PICK s, p, rs, obs : s = shown /\ p = panel /\ rs = requests /\ obs = observed
  OBVIOUS
<1>3. ASSUME ViewReacts(c) PROVE TablesInv' /\ CacheInv' /\ RequestsInv' /\ ViewsInv'
  <2>1. Draw(s, c, p, rs, obs)
    BY <1>2, <1>3 DEF ViewReacts, Draw
  <2>2. /\ s \in 0..MaxId /\ p \in PanelSet /\ p.vals = panel.vals /\ p.touched = panel.touched
        /\ AllSound(rs) /\ obs \in SUBSET Keys /\ Quiet(c, obs)
        /\ page \in {"tasks", "filters"} => s = 0
    BY <1>2, PanelKeeps
  <2> QED
    BY <1>1, <2>1, <2>2, DrawInv
<1>4. CASE page \in {"node", "wiki"} /\ ViewReacts(c) /\ UNCHANGED <<canvas, tasks>>
  BY <1>1, <1>3, <1>4, PartsStay DEF FrontendInv
<1>5. CASE page = "workspace" /\ CanvasReacts(c) /\ UNCHANGED tasks
  <2>1. /\ ViewReacts(c) /\ CanvasDraws(c, bounds) /\ UNCHANGED <<bounds, dragging, undo, creating>>
    BY <1>5 DEF CanvasReacts
  <2>2. PICK b \in DOMAIN Area : b = bounds
    BY PanelKeeps DEF CanvasInv
  <2>3. CanvasDraws(c, b)
    BY <2>1, <2>2 DEF CanvasDraws
  <2>4. CanvasInv'
    BY <2>1, <2>2, <2>3, PanelKeeps, CanvasDrawsType DEF CanvasInv
  <2> QED
    BY <1>1, <1>3, <1>5, <2>1, <2>4, PartsStay DEF FrontendInv
<1>6. CASE page = "tasks" /\ BoardReacts(c) /\ UNCHANGED <<views, canvas>>
  <2>1. PICK f, b, over : f \in Filters /\ f = filter /\ b = board /\ over = overrides
    BY DEF FrontendInv, TasksInv
  <2>2. /\ cache' = c /\ observed' = obs /\ filter' = f /\ BoardDraws(c, f, b, rs, over)
    BY <1>2, <1>6, <2>1 DEF BoardReacts, BoardDraws
  <2>3. /\ over = [i \in DOMAIN over |-> over[i]] /\ DOMAIN over \subseteq NodeIds
        /\ AllSound(rs) /\ obs \in SUBSET Keys /\ Quiet(c, obs)
    BY <1>2, <2>1, PanelKeeps DEF FrontendInv, TasksInv
  <2>4. UNCHANGED filters
    BY DEF Reacts
  <2> QED
    BY <1>1, <1>6, <2>1, <2>2, <2>3, <2>4, BoardInv
<1> QED
  BY <1>4, <1>5, <1>6 DEF Reacts

LEMMA CacheInvStep ==
    ASSUME FrontendInv, Cache
    PROVE  FrontendInv'
<1>1. IsCache(cache, Born) /\ Quiet(cache, observed) /\ observed \subseteq Keys
  BY PanelKeeps
<1>2. ASSUME NEW k \in observed, Arrives(k) PROVE FrontendInv'
  <2>1. PICK c : c = Received(cache, k)
    OBVIOUS
  <2>2. k \in Keys /\ cache[k].wire \notin {Idle, Asked}
    BY <1>1, <1>2 DEF Arrives
  <2>3. IsCache(c, Born) /\ Quiet(c, observed)
    BY <1>1, <2>1, <2>2, CacheStepType
  <2>4. Reacts(c)
    BY <1>2, <2>1 DEF Arrives
  <2> QED
    BY <2>3, <2>4, ReactsInv
<1>3. ASSUME NEW k \in observed, FetchFails(k) PROVE FrontendInv'
  <2>1. PICK c : c = Unanswered(cache, k)
    OBVIOUS
  <2>2. IsCache(c, Born) /\ Quiet(c, observed)
    BY <1>1, <2>1, CacheStepType
  <2>3. Reacts(c)
    BY <1>3, <2>1 DEF FetchFails
  <2> QED
    BY <2>2, <2>3, ReactsInv
<1>4. PICK k : k \in Keys
  BY KeyIn, FrontendAssumption
<1>5. ASSUME NEW kinds, TimePasses(kinds) PROVE FrontendInv'
  <2>1. PICK c : c = Aged(cache, kinds)
    OBVIOUS
  <2>2. IsCache(c, Born) /\ Quiet(c, observed)
    BY <1>1, <1>4, <2>1, CacheStepType
  <2>3. Reacts(c)
    BY <1>5, <2>1 DEF TimePasses
  <2> QED
    BY <2>2, <2>3, ReactsInv
<1>6. ASSUME Refocus PROVE FrontendInv'
  <2>1. PICK c : c = Refocused(cache)
    OBVIOUS
  <2>2. IsCache(c, Born) /\ Quiet(c, observed)
    BY <1>1, <1>4, <2>1, CacheStepType
  <2>3. Reacts(c)
    BY <1>6, <2>1 DEF Refocus
  <2> QED
    BY <2>2, <2>3, ReactsInv
<1> QED
  BY <1>2, <1>3, <1>5, <1>6 DEF Cache

-----------------------------------------------------------------------------
(* Gestures on a node                                                      *)

\* The page is drawn again after a gesture.
LEMMA GestureDraws ==
    ASSUME FrontendInv, UNCHANGED <<scenario, api, canvas, tasks, filters>>,
           page \notin {"tasks", "filters"}, NEW s \in 0..MaxId,
           NEW p \in PanelSet, p.vals = panel.vals, p.touched = panel.touched,
           NEW rs, AllSound(rs), Draw(s, cache, p, rs, observed)
    PROVE  FrontendInv'
<1>1. PICK c, obs : c = cache /\ obs = observed
  OBVIOUS
<1>2. IsCache(c, Born) /\ obs \in SUBSET Keys /\ Quiet(c, obs)
  BY <1>1, PanelKeeps
<1>3. Draw(s, c, p, rs, obs)
  BY <1>1 DEF Draw
<1>4. TablesInv' /\ CacheInv' /\ RequestsInv' /\ ViewsInv'
  BY <1>2, <1>3, DrawInv
<1> QED
  BY <1>4, PartsStay DEF FrontendInv

\* A request is sent and nothing else happens.
LEMMA SendInv ==
    ASSUME FrontendInv, UNCHANGED <<scenario, api, queries, views>>,
           NEW q \in RequestSet, Sound(q, page, Born), Send(q)
    PROVE  /\ TablesInv' /\ CacheInv' /\ RequestsInv' /\ ViewsInv'
           /\ UNCHANGED canvas => CanvasInv'
           /\ UNCHANGED tasks => TasksInv'
           /\ UNCHANGED filters => FiltersInv'
<1>1. AllSound(requests')
  <2>1. PICK rs : rs = requests
    OBVIOUS
  <2>2. AllSound(rs) /\ requests' = Append(rs, q)
    BY <2>1, PanelKeeps DEF Send
  <2> QED
    BY <2>2, SoundSent
<1>2. RequestsInv'
  BY <1>1, SoundStays DEF api
<1> QED
  BY <1>2, PartsStay DEF api

LEMMA PanelWith ==
    ASSUME FrontendInv, NEW edit \in BOOLEAN, NEW compose \in BOOLEAN,
           NEW dialog \in {"none", "edit", "retype", "delete", "link", "create"}, NEW p,
           \/ p = panel
           \/ p = [panel EXCEPT !.dialog = dialog]
           \/ p = [panel EXCEPT !.edit = edit, !.compose = compose]
           \/ p = [panel EXCEPT !.dialog = dialog, !.edit = edit, !.compose = compose]
    PROVE  p \in PanelSet /\ p.vals = panel.vals /\ p.touched = panel.touched
<1>1. panel \in PanelSet
  BY PanelKeeps
<1> QED
  BY <1>1 DEF PanelSet

LEMMA OpenInv ==
    ASSUME FrontendInv, UNCHANGED <<canvas, tasks, filters>>, NEW i \in 0..MaxId, Open(i)
    PROVE  FrontendInv'
<1>1. PICK p, rs : p = panel /\ rs = requests
  OBVIOUS
<1>2. p \in PanelSet /\ p.vals = panel.vals /\ p.touched = panel.touched /\ AllSound(rs)
  BY <1>1, PanelKeeps
<1>3. /\ Draw(i, cache, p, rs, observed) /\ page \notin {"tasks", "filters"}
      /\ UNCHANGED <<scenario, api>>
  BY <1>1 DEF Open, Draw
<1> QED
  BY <1>2, <1>3, GestureDraws

\* The same node is drawn again, with its components in another state.
LEMMA PanelChanges ==
    ASSUME FrontendInv, UNCHANGED <<scenario, api, canvas, tasks, filters>>,
           page \notin {"tasks", "filters"},
           NEW p \in PanelSet, p.vals = panel.vals, p.touched = panel.touched,
           Draw(shown, cache, p, requests, observed)
    PROVE  FrontendInv'
<1>1. PICK s, rs : s = shown /\ rs = requests
  OBVIOUS
<1>2. s \in 0..MaxId /\ AllSound(rs)
  BY <1>1, PanelKeeps
<1>3. Draw(s, cache, p, rs, observed)
  BY <1>1 DEF Draw
<1> QED
  BY <1>2, <1>3, GestureDraws

LEMMA EditorInv ==
    ASSUME FrontendInv, UNCHANGED <<canvas, tasks, filters>>, page \notin {"tasks", "filters"},
           OpenEditor \/ CloseEditor
    PROVE  FrontendInv'
<1>1. PICK edit, compose, p :
         /\ edit \in BOOLEAN /\ compose \in BOOLEAN
         /\ p = [panel EXCEPT !.edit = edit, !.compose = compose]
         /\ Draw(shown, cache, p, requests, observed)
  <2>1. panel.edit \in BOOLEAN /\ panel.compose \in BOOLEAN
    BY PanelKeeps DEF PanelSet
  <2>2. CASE OpenEditor
    <3> DEFINE text == HasText(shown, cache)
               edit == text \/ (panel.edit /\ page # "wiki")
               q == [panel EXCEPT !.edit = edit, !.compose = ~text]
    <3>1. Draw(shown, cache, q, requests, observed)
      BY <2>2 DEF OpenEditor
    <3>2. text \in BOOLEAN
      <4>1. NodeData(shown, cache) \in NodeAnswers
        <5>1. PICK c, s : c = cache /\ s = shown
          OBVIOUS
        <5>2. IsCache(c, Born) /\ s \in 0..MaxId /\ Body(s, c)
          BY <2>2, <5>1, PanelKeeps DEF OpenEditor
        <5> QED
          BY <5>1, <5>2, BodyData
      <4> QED
        BY <4>1 DEF HasText, NodeAnswers
    <3> HIDE DEF text
    <3>3. edit \in BOOLEAN /\ (~text) \in BOOLEAN
      BY <2>1
    <3> HIDE DEF edit
    <3> QED
      BY <3>1, <3>3
  <2>3. CASE CloseEditor
    <3> DEFINE editor == Editor(shown, cache, panel)
               edit == panel.edit /\ editor # "edit"
               compose == panel.compose /\ editor # "compose"
               q == [panel EXCEPT !.edit = edit, !.compose = compose]
    <3>1. Draw(shown, cache, q, requests, observed)
      BY <2>3 DEF CloseEditor
    <3>2. edit \in BOOLEAN /\ compose \in BOOLEAN
      OBVIOUS
    <3> HIDE DEF edit, compose
    <3> QED
      BY <3>1, <3>2
  <2> QED
    BY <2>2, <2>3
<1>2. "none" \in {"none", "edit", "retype", "delete", "link", "create"}
  OBVIOUS
<1>3. p \in PanelSet /\ p.vals = panel.vals /\ p.touched = panel.touched
  BY <1>1, <1>2, PanelWith
<1>4. UNCHANGED <<scenario, api>>
  BY DEF OpenEditor, CloseEditor
<1> QED
  BY <1>1, <1>3, <1>4, PanelChanges

LEMMA OpenDialogInv ==
    ASSUME FrontendInv, UNCHANGED <<canvas, tasks, filters>>, page \notin {"tasks", "filters"},
           NEW dialog \in {"edit", "retype", "delete", "link", "create"}, OpenDialog(dialog)
    PROVE  FrontendInv'
<1>1. PICK p : p = [panel EXCEPT !.dialog = dialog]
  OBVIOUS
<1>2. p \in PanelSet /\ p.vals = panel.vals /\ p.touched = panel.touched
  BY <1>1, PanelWith
<1>3. Draw(shown, cache, p, requests, observed) /\ UNCHANGED <<scenario, api>>
  BY <1>1 DEF OpenDialog, Draw
<1> QED
  BY <1>2, <1>3, PanelChanges

LEMMA CloseDialogInv ==
    ASSUME FrontendInv, UNCHANGED <<canvas, tasks, filters>>, page \notin {"tasks", "filters"},
           CloseDialog
    PROVE  FrontendInv'
<1>1. PICK s, p, rs, dialog, old : /\ s = shown /\ p = [panel EXCEPT !.dialog = "none"]
                                   /\ rs = Forget(requests, panel.dialog)
                                   /\ dialog = panel.dialog /\ old = requests
  OBVIOUS
<1>2. p \in PanelSet /\ p.vals = panel.vals /\ p.touched = panel.touched
  BY <1>1, PanelWith
<1>3. s \in 0..MaxId /\ AllSound(old)
  BY <1>1, PanelKeeps
<1>4. AllSound(rs)
  <2>1. old \in Seq(RequestSet) /\ rs = Forget(old, dialog)
    BY <1>1, <1>3 DEF AllSound
  <2>2. Follows(old, rs) /\ DOMAIN rs = DOMAIN old
    BY <2>1, ForgetType
  <2> QED
    BY <1>3, <2>2, SoundFollows
<1>5. Draw(s, cache, p, rs, observed) /\ UNCHANGED <<scenario, api>>
  BY <1>1 DEF CloseDialog, Draw
<1> QED
  BY <1>2, <1>3, <1>4, <1>5, GestureDraws

LEMMA TypeInInv ==
    ASSUME FrontendInv, UNCHANGED <<canvas, tasks, filters>>,
           NEW field \in Fields, NEW v \in Values, TypeIn(field, v)
    PROVE  FrontendInv'
<1> DEFINE vals == [panel.vals EXCEPT ![field] = v]
           touched == panel.touched \cup {field}
<1>1. /\ Body(shown, cache) /\ field \in FormFields(panel.dialog)
      /\ panel' = [panel EXCEPT !.vals = vals, !.touched = touched]
      /\ UNCHANGED <<scenario, api, queries, shown, requests>>
  BY DEF TypeIn
<1>2. /\ panel \in PanelSet /\ ViewsInv /\ panel.touched \subseteq DOMAIN panel.vals
      /\ FormFits(shown, cache, panel)
  BY PanelKeeps DEF ViewsInv
<1>3. PICK F \in SUBSET Fields : panel.vals \in [F -> Values]
  BY <1>2 DEF PanelSet, Forms
<1>4. DOMAIN panel.vals = FormFields(panel.dialog)
  BY <1>1, <1>2 DEF FormFits
<1>5. vals \in [F -> Values]
  BY <1>3
<1>6. vals \in Forms /\ touched \in SUBSET Fields /\ touched \subseteq DOMAIN vals
      /\ DOMAIN vals = DOMAIN panel.vals
  BY <1>1, <1>2, <1>3, <1>4, <1>5 DEF Forms, PanelSet
<1>7. \A f \in FormFields(panel.dialog) \ touched : vals[f] = NodeData(shown, cache)[f]
  BY <1>1, <1>2, <1>3 DEF FormFits
<1> HIDE DEF vals, touched
<1>8. /\ panel' \in PanelSet /\ panel'.vals = vals /\ panel'.touched = touched
      /\ panel'.dialog = panel.dialog
  BY <1>1, <1>2, <1>6 DEF PanelSet
<1>9. FormFits(shown, cache, panel)'
  BY <1>1, <1>4, <1>6, <1>7, <1>8 DEF FormFits, Body, NodeData, Fetching, queries, page
<1>10. ViewsInv'
  BY <1>1, <1>2, <1>6, <1>8, <1>9 DEF ViewsInv, page
<1> QED
  BY <1>1, <1>10, PartsStay DEF FrontendInv, api

LEMMA SubmitFormInv ==
    ASSUME FrontendInv, UNCHANGED <<canvas, tasks, filters>>, page \notin {"tasks", "filters"},
           SubmitForm
    PROVE  FrontendInv'
<1> DEFINE changed == ChangedFields
           value == [f \in changed |-> Trim[panel.vals[f]]]
<1>1. Body(shown, cache) /\ UNCHANGED <<scenario, api>>
  BY DEF SubmitForm
<1>2. CASE Send(Request("patch", shown, shown, value, "dialog")) /\ UNCHANGED <<queries, views>>
  <2>1. panel \in PanelSet /\ shown \in 0..MaxId /\ DOMAIN panel.vals = FormFields(panel.dialog)
    BY <1>1, PanelKeeps DEF ViewsInv, FormFits
  <2>2. PICK F \in SUBSET Fields : panel.vals \in [F -> Values]
    BY <2>1 DEF PanelSet, Forms
  <2>3. changed \in SUBSET Fields /\ changed \subseteq F
    BY <2>1, <2>2 DEF ChangedFields
  <2> HIDE DEF changed
  <2>4. value \in [changed -> Values]
    BY <2>2, <2>3, FrontendAssumption
  <2>5. value \in Partials
    BY <2>3, <2>4, SentValues DEF Forms
  <2> HIDE DEF value
  <2>6. PICK q : q = Request("patch", shown, shown, value, "dialog")
    OBVIOUS
  <2>7. q \in RequestSet /\ q.op = "patch" /\ q.by = "dialog" /\ q.value = value
    BY <2>1, <2>5, <2>6 DEF Request, RequestSet, Views
  <2>8. DOMAIN q.value \subseteq Fields
    BY <2>3, <2>4, <2>7
  <2>9. page \in {"node", "wiki", "workspace"}
    BY FrontendAssumption DEF FrontendInv, TablesInv, page
  <2>10. Sound(q, page, Born)
    BY <2>7, <2>8, <2>9 DEF Sound, Views
  <2>11. Send(q)
    BY <1>2, <2>6
  <2> QED
    BY <1>1, <1>2, <2>7, <2>10, <2>11, SendInv DEF FrontendInv
<1>3. CASE Draw(shown, cache, [panel EXCEPT !.dialog = "none"], requests, observed)
  <2>1. PICK p : p = [panel EXCEPT !.dialog = "none"]
    OBVIOUS
  <2>2. p \in PanelSet /\ p.vals = panel.vals /\ p.touched = panel.touched
    BY <2>1, PanelWith
  <2>3. Draw(shown, cache, p, requests, observed)
    BY <1>3, <2>1 DEF Draw
  <2> QED
    BY <1>1, <2>2, <2>3, PanelChanges
<1> QED
  BY <1>2, <1>3 DEF SubmitForm

\* The other requests of a page that shows a node.
LEMMA ViewSendInv ==
    ASSUME FrontendInv, UNCHANGED <<scenario, api, queries, views, canvas, tasks, filters>>,
           page \notin {"tasks", "filters"},
           NEW op \in {"create", "delete", "link", "unlink", "upload"},
           NEW node \in 0..MaxId, NEW other \in 0..MaxId, NEW value \in Partials,
           NEW by \in Views, Send(Request(op, node, other, value, by)),
           op = "create" => value \in Row /\ other \in Born /\ node # other,
           op = "link" => node # other,
           op = "upload" => DOMAIN value \subseteq {"text"}
    PROVE  FrontendInv'
<1>1. PICK q : q = Request(op, node, other, value, by)
  OBVIOUS
<1>2. q \in RequestSet
  BY <1>1 DEF Request, RequestSet
<1>3. /\ q.op = op /\ q.node = node /\ q.other = other /\ q.value = value /\ q.by = by
  BY <1>1 DEF Request
<1>4. page \in {"node", "wiki", "workspace"}
  BY FrontendAssumption DEF FrontendInv, TablesInv, page
<1>5. Sound(q, page, Born)
  BY <1>3, <1>4 DEF Sound, Views
<1>6. Send(q)
  BY <1>1
<1> QED
  BY <1>2, <1>5, <1>6, SendInv DEF FrontendInv

LEMMA ViewGestureInv ==
    ASSUME FrontendInv, ViewGesture
    PROVE  FrontendInv'
<1>1. UNCHANGED <<canvas, tasks, filters>> /\ page \notin {"tasks", "filters"}
  BY DEF ViewGesture
<1>2. /\ Targets \subseteq 0..MaxId /\ 0 \in 0..MaxId /\ Typed \subseteq Values
      /\ Created \in Row /\ MaxId \in Nat /\ Targets \subseteq NodeIds
  BY ZeroId, FrontendAssumption DEF Targets, FrontendInv, TablesInv
<1>3. /\ shown \in 0..MaxId /\ panel.draft \in 0..MaxId
      /\ (Body(shown, cache) => shown \in NodeIds /\ shown \in Born)
  <2>1. PICK c, s : c = cache /\ s = shown
    OBVIOUS
  <2>2. IsCache(c, Born) /\ s \in 0..MaxId
    BY <2>1, PanelKeeps
  <2>3. Body(s, c) => s \in NodeIds /\ s \in Born
    BY <2>2, BodyData
  <2> QED
    BY <2>1, <2>2, <2>3, PanelKeeps DEF PanelSet
<1>4. /\ <<>> \in Partials /\ Created \in Partials
      /\ \A t \in Typed : [text |-> t] \in Partials /\ DOMAIN [text |-> t] = {"text"}
  BY <1>2, SentValues
<1>5. CASE \E i \in Targets \cup {0} : Open(i)
  BY <1>1, <1>2, <1>5, OpenInv
<1>6. CASE OpenEditor \/ CloseEditor
  BY <1>1, <1>6, EditorInv
<1>7. CASE \E t \in Typed : Save(t) \/ UploadFile(t)
  <2>1. PICK t \in Typed : Save(t) \/ UploadFile(t)
    BY <1>7
  <2>2. PICK i \in 0..MaxId, j \in 0..MaxId, by \in Views, v \in Partials :
           /\ Send(Request("upload", i, j, v, by)) /\ UNCHANGED <<scenario, api, queries, views>>
           /\ DOMAIN v \subseteq {"text"}
    BY <1>3, <1>4, <2>1 DEF Save, UploadFile, Views
  <2> QED
    BY <1>1, <2>2, ViewSendInv
<1>8. CASE \E dialog \in {"edit", "retype", "delete", "link", "create"} : OpenDialog(dialog)
  BY <1>1, <1>8, OpenDialogInv
<1>9. CASE CloseDialog
  BY <1>1, <1>9, CloseDialogInv
<1>10. CASE \E field \in Fields, v \in Typed : TypeIn(field, v)
  BY <1>1, <1>2, <1>10, TypeInInv
<1>11. CASE SubmitForm
  BY <1>1, <1>11, SubmitFormInv
<1>12. CASE ConfirmDelete
  <2>1. PICK i \in 0..MaxId, by \in Views, v \in Partials :
           Send(Request("delete", i, i, v, by)) /\ UNCHANGED <<scenario, api, queries, views>>
    BY <1>3, <1>4, <1>12 DEF ConfirmDelete, Views
  <2> QED
    BY <1>1, <2>1, ViewSendInv
<1>13. CASE \E j \in Targets : ConfirmLink(j)
  <2>1. PICK i \in 0..MaxId, j \in 0..MaxId, by \in Views, v \in Partials :
           /\ Send(Request("link", i, j, v, by)) /\ UNCHANGED <<scenario, api, queries, views>>
           /\ i # j
    BY <1>2, <1>3, <1>4, <1>13 DEF ConfirmLink, Views
  <2> QED
    BY <1>1, <2>1, ViewSendInv
<1>14. CASE \E j \in Targets : Unlink(j)
  <2>1. PICK i \in 0..MaxId, j \in 0..MaxId, by \in Views, v \in Partials :
           Send(Request("unlink", i, j, v, by)) /\ UNCHANGED <<scenario, api, queries, views>>
    BY <1>2, <1>3, <1>4, <1>14 DEF Unlink, Views
  <2> QED
    BY <1>1, <2>1, ViewSendInv
<1>15. CASE AddChild
  <2>1. 0 # shown /\ shown \in Born
    BY <1>3, <1>15 DEF AddChild, Body
  <2>2. PICK i \in 0..MaxId, j \in 0..MaxId, by \in Views, v \in Partials :
           /\ Send(Request("create", i, j, v, by)) /\ UNCHANGED <<scenario, api, queries, views>>
           /\ v \in Row /\ j \in Born /\ i # j
    BY <1>2, <1>3, <1>4, <1>15, <2>1 DEF AddChild, Views
  <2> QED
    BY <1>1, <2>2, ViewSendInv
<1> QED
  BY <1>5, <1>6, <1>7, <1>8, <1>9, <1>10, <1>11, <1>12, <1>13, <1>14, <1>15 DEF ViewGesture

-----------------------------------------------------------------------------
(* Gestures on the canvas                                                  *)

LEMMA PairEnds ==
    ASSUME NEW e \in Pairs
    PROVE  /\ Min(e) \in NodeIds /\ Max(e) \in NodeIds /\ Min(e) # Max(e)
           /\ {Min(e), Max(e)} \in Pairs /\ {Min(e), Max(e)} = e
<1>1. PICK i \in NodeIds, j \in NodeIds : e = {i, j} /\ i # j
  BY DEF Pairs
<1>2. i \in Int /\ j \in Int
  BY FrontendAssumption DEF NodeIds
<1>3. PICK lo \in e, hi \in e : lo < hi /\ e = {lo, hi}
  BY <1>1, <1>2
<1>4. \A x \in e : x \in Int
  BY <1>1, <1>2
<1>5. /\ lo \in {x \in e : \A y \in e : x <= y} /\ hi \in {x \in e : \A y \in e : x >= y}
  BY <1>3, <1>4
<1>6. /\ Min(e) \in e /\ \A y \in e : Min(e) <= y
  BY <1>5 DEF Min
<1>7. /\ Max(e) \in e /\ \A y \in e : Max(e) >= y
  BY <1>5 DEF Max
<1>8. Min(e) = lo /\ Max(e) = hi
  BY <1>3, <1>4, <1>6, <1>7
<1> QED
  BY <1>1, <1>3, <1>8

LEMMA FiniteEdges ==
    ASSUME NEW gone \in SUBSET Pairs
    PROVE  IsFiniteSet(gone)
<1>1. IsFiniteSet(NodeIds)
  BY FS_Interval, FrontendAssumption DEF NodeIds
<1>2. IsFiniteSet(SUBSET NodeIds)
  BY <1>1, FS_SUBSET
<1>3. gone \subseteq SUBSET NodeIds
  BY DEF Pairs
<1> QED
  BY <1>2, <1>3, FS_Subset

\* A request of the canvas for the nodes l has not been answered.
Underway(l) == \E r \in DOMAIN requests : /\ InFlight(requests[r])
                                          /\ requests[r].by = "canvas"
                                          /\ {requests[r].node, requests[r].other} = l

\* The requests of a gesture on the canvas.
LEMMA AsksIn ==
    ASSUME NEW op \in {"move", "link", "unlink"}, NEW i \in NodeIds, NEW j \in NodeIds,
           NEW value \in Partials
    PROVE  /\ Asks(op, i, j, value) \in RequestSet
           /\ Kin(Request(op, i, j, value, "canvas"), Asks(op, i, j, value))
           /\ Asks(op, i, j, value).step = "sent"
           /\ Asks(op, i, j, value).gap <=> Underway({i, j})
           /\ \A gap \in BOOLEAN :
                 LET q == [Asks(op, i, j, value) EXCEPT !.gap = gap] IN
                 /\ q \in RequestSet /\ Kin(Request(op, i, j, value, "canvas"), q)
                 /\ q.step = "sent" /\ q.gap = gap
<1> DEFINE gap0 == \E r \in DOMAIN requests :
                      LET q == requests[r] IN
                      InFlight(q) /\ q.by = "canvas" /\ {q.node, q.other} = {i, j}
           base == Request(op, i, j, value, "canvas")
<1>1. i \in 0..MaxId /\ j \in 0..MaxId
  BY ZeroId
<1>2. base \in RequestSet
  BY <1>1, RequestIn
<1>3. gap0 \in BOOLEAN
  OBVIOUS
<1>4. Asks(op, i, j, value) = [base EXCEPT !.gap = gap0]
  BY DEF Asks
<1> HIDE DEF base, gap0
<1>5. \A gap \in BOOLEAN : /\ [base EXCEPT !.gap = gap] \in RequestSet
                           /\ Kin(base, [base EXCEPT !.gap = gap])
                           /\ [base EXCEPT !.gap = gap].gap = gap
                           /\ [base EXCEPT !.gap = gap].step = base.step
  BY <1>2 DEF RequestSet, Kin
<1>6. \A gap \in BOOLEAN :
         [[base EXCEPT !.gap = gap0] EXCEPT !.gap = gap] = [base EXCEPT !.gap = gap]
  BY <1>2 DEF RequestSet
<1>7. base.step = "sent"
  BY DEF base, Request
<1>8. gap0 <=> Underway({i, j})
  BY DEF gap0, Underway
<1>9. PICK a : a = Asks(op, i, j, value) /\ a = [base EXCEPT !.gap = gap0]
  BY <1>4
<1>10. a \in RequestSet /\ Kin(base, a) /\ a.step = "sent" /\ (a.gap <=> Underway({i, j}))
  BY <1>3, <1>5, <1>7, <1>8, <1>9
<1>11. ASSUME NEW gap \in BOOLEAN
       PROVE  LET q == [Asks(op, i, j, value) EXCEPT !.gap = gap] IN
              q \in RequestSet /\ Kin(base, q) /\ q.step = "sent" /\ q.gap = gap
  <2>1. [Asks(op, i, j, value) EXCEPT !.gap = gap] = [base EXCEPT !.gap = gap]
    BY <1>4, <1>6, Zenon
  <2>2. PICK p : p = [base EXCEPT !.gap = gap]
    OBVIOUS
  <2>3. p \in RequestSet /\ Kin(base, p) /\ p.step = "sent" /\ p.gap = gap
    BY <1>5, <1>7, <2>2
  <2> QED
    BY <2>1, <2>2, <2>3
<1>12. Asks(op, i, j, value) \in RequestSet /\ Kin(base, Asks(op, i, j, value))
       /\ Asks(op, i, j, value).step = "sent" /\ (Asks(op, i, j, value).gap <=> Underway({i, j}))
  BY <1>9, <1>10
<1> QED
  BY <1>11, <1>12 DEF base

\* A request of the canvas is sound if it is of two nodes.
LEMMA CanvasSound ==
    ASSUME page = "workspace", NEW op \in {"move", "link", "unlink"}, NEW i \in NodeIds,
           NEW j \in NodeIds, NEW value,
           IF op = "move" THEN i = j /\ "place" \in DOMAIN value ELSE i # j,
           NEW q, Kin(Request(op, i, j, value, "canvas"), q)
    PROVE  Sound(q, page, Born)
<1>1. q.op = op /\ q.node = i /\ q.other = j /\ q.by = "canvas" /\ q.value = value
  BY DEF Kin, Request
<1>2. op # "move" => {i, j} \in Pairs
  BY PairIn
<1> QED
  BY <1>1, <1>2 DEF Sound, Views

\* Sound requests after sound requests.
LEMMA SoundConcat ==
    ASSUME NEW rs, NEW ts, AllSound(rs), AllSound(ts)
    PROVE  /\ AllSound(rs \o ts) /\ Follows(rs, rs \o ts)
           /\ \A r \in DOMAIN rs : (rs \o ts)[r] = rs[r]
           /\ \A r \in DOMAIN (rs \o ts) \ DOMAIN rs :
                 r - Len(rs) \in DOMAIN ts /\ (rs \o ts)[r] = ts[r - Len(rs)]
<1>1. rs \in Seq(RequestSet) /\ ts \in Seq(RequestSet)
  BY DEF AllSound
<1>2. /\ DOMAIN rs = 1..Len(rs) /\ Len(rs) \in Nat
      /\ DOMAIN ts = 1..Len(ts) /\ Len(ts) \in Nat
  BY <1>1, LenProperties
<1>3. /\ rs \o ts \in Seq(RequestSet) /\ Len(rs \o ts) = Len(rs) + Len(ts)
      /\ \A r \in 1..(Len(rs) + Len(ts)) :
            (rs \o ts)[r] = IF r <= Len(rs) THEN rs[r] ELSE ts[r - Len(rs)]
  BY <1>1, ConcatProperties
<1>4. DOMAIN (rs \o ts) = 1..(Len(rs) + Len(ts))
  BY <1>3, LenProperties
<1>5. ASSUME NEW r \in DOMAIN (rs \o ts) PROVE Sound((rs \o ts)[r], page, Born)
  <2>1. CASE r <= Len(rs)
    BY <1>2, <1>3, <1>4, <2>1 DEF AllSound
  <2>2. CASE r > Len(rs)
    <3>1. r - Len(rs) \in DOMAIN ts /\ (rs \o ts)[r] = ts[r - Len(rs)]
      BY <1>2, <1>3, <1>4, <2>2
    <3> QED
      BY <3>1 DEF AllSound
  <2>3. r \in Int
    BY <1>2, <1>4
  <2> QED
    BY <1>2, <2>1, <2>2, <2>3
<1>6. Follows(rs, rs \o ts)
  BY <1>2, <1>3, <1>4 DEF Follows, Further, Kin
<1>7. ASSUME NEW r \in DOMAIN (rs \o ts) \ DOMAIN rs
      PROVE  r - Len(rs) \in DOMAIN ts /\ (rs \o ts)[r] = ts[r - Len(rs)]
  BY <1>2, <1>3, <1>4
<1>8. \A r \in DOMAIN rs : (rs \o ts)[r] = rs[r]
  BY <1>2, <1>3
<1> QED
  BY <1>3, <1>5, <1>6, <1>7, <1>8 DEF AllSound

\* A set as a list has each of its elements once.
LEMMA SetListed ==
    ASSUME NEW S, IsFiniteSet(S)
    PROVE  /\ SetToSeq(S) \in [1..Cardinality(S) -> S]
           /\ \A a, b \in 1..Cardinality(S) : SetToSeq(S)[a] = SetToSeq(S)[b] => a = b
           /\ \A x \in S : \E a \in 1..Cardinality(S) : SetToSeq(S)[a] = x
<1> DEFINE n == Cardinality(S)
           f == SetToSeq(S)
<1>1. n \in Nat /\ ExistsBijection(1..n, S)
  BY FS_CardinalityType
<1>2. f \in [1..n -> S] /\ IsInjective(f)
  <2>1. PICK g \in [1..n -> S] : IsInjective(g)
    BY <1>1 DEF ExistsBijection, Bijection, Injection
  <2> HIDE DEF n
  <2>2. n = Cardinality(S)
    BY DEF n
  <2> QED
    BY <2>1, <2>2 DEF SetToSeq
<1> HIDE DEF f, n
<1>3. f \in Injection(1..n, S)
  BY <1>2 DEF Injection
<1>4. Cardinality(1..n) = n
  BY <1>1, FS_Interval
<1>5. Cardinality(1..n) = Cardinality(S)
  BY <1>4 DEF n
<1>6. f \in Surjection(1..n, S)
  BY <1>3, <1>5, FS_Injection
<1>7. \A x \in S : \E a \in 1..n : f[a] = x
  BY <1>6 DEF Surjection
<1>8. \A a, b \in 1..n : f[a] = f[b] => a = b
  BY <1>2 DEF IsInjective
<1> QED
  BY <1>2, <1>7, <1>8 DEF f, n

\* q unlinks the nodes of edge e.
Parts(q, e) == /\ q.by = "canvas" /\ q.op = "unlink" /\ {q.node, q.other} = e
               /\ q.step = "sent" /\ (q.gap <=> Underway(e))

\* The edges that are deleted are unlinked, each by a request of its own.
LEMMA EdgesDeletedType ==
    ASSUME page = "workspace", AllSound(requests), NEW gone \in SUBSET Pairs, EdgesDeleted(gone)
    PROVE  /\ AllSound(requests') /\ Follows(requests, requests')
           /\ \A r \in DOMAIN requests' \ DOMAIN requests :
                 requests'[r].by = "canvas" /\ \E e \in gone : Parts(requests'[r], e)
           /\ \A e \in gone : \E r \in DOMAIN requests' \ DOMAIN requests : Parts(requests'[r], e)
           /\ \A r, o \in DOMAIN requests' \ DOMAIN requests : \A e :
                 Parts(requests'[r], e) /\ Parts(requests'[o], e) => r = o
           /\ \A r \in DOMAIN requests : /\ requests'[r].step = requests[r].step
                                         /\ requests'[r].gap = requests[r].gap
<1>1. CASE gone = {}
  <2>1. requests' = requests
    BY <1>1 DEF EdgesDeleted
  <2> QED
    BY <1>1, <2>1 DEF AllSound, Follows, Kin, Further
<1>2. CASE gone # {}
  <2> DEFINE Unlinked(e) == [Asks("unlink", Min(e), Max(e), <<>>) EXCEPT !.host = "detached"]
             n == Cardinality(gone)
             new == [m \in 1..n |-> Unlinked(SetToSeq(gone)[m])]
             older == [r \in DOMAIN requests |->
                         IF requests[r].op = "unlink" /\ requests[r].by = "canvas" /\ gone # {}
                         THEN [requests[r] EXCEPT !.host = "detached"] ELSE requests[r]]
             last == [new EXCEPT ![Len(new)].host = "mounted"]
  <2>1. requests' = older \o last
    BY <1>2 DEF EdgesDeleted
  <2>2. n \in Nat /\ ExistsBijection(1..n, gone)
    BY FiniteEdges, FS_CardinalityType
  <2>3. n # 0
    <3>1. SUFFICES ASSUME n = 0 PROVE FALSE
      OBVIOUS
    <3>2. gone = {}
      BY <3>1, FiniteEdges, FS_EmptySet
    <3> QED
      BY <1>2, <3>2
  <2>4. /\ SetToSeq(gone) \in [1..n -> gone]
        /\ \A a, b \in 1..n : SetToSeq(gone)[a] = SetToSeq(gone)[b] => a = b
        /\ \A e \in gone : \E a \in 1..n : SetToSeq(gone)[a] = e
    BY FiniteEdges, SetListed
  <2>5. ASSUME NEW e \in Pairs
        PROVE  /\ Unlinked(e) \in RequestSet /\ Sound(Unlinked(e), page, Born)
               /\ [Unlinked(e) EXCEPT !.host = "mounted"] \in RequestSet
               /\ Sound([Unlinked(e) EXCEPT !.host = "mounted"], page, Born)
               /\ Parts(Unlinked(e), e) /\ Parts([Unlinked(e) EXCEPT !.host = "mounted"], e)
    <3> DEFINE q == Asks("unlink", Min(e), Max(e), <<>>)
               u == Unlinked(e)
               m == [u EXCEPT !.host = "mounted"]
    <3>1. /\ Min(e) \in NodeIds /\ Max(e) \in NodeIds /\ Min(e) # Max(e) /\ <<>> \in Partials
          /\ {Min(e), Max(e)} = e
      BY PairEnds, SentValues
    <3>2. /\ q \in RequestSet /\ Kin(Request("unlink", Min(e), Max(e), <<>>, "canvas"), q)
          /\ q.step = "sent" /\ (q.gap <=> Underway(e))
      BY <3>1, AsksIn
    <3>3. Sound(q, page, Born)
      BY <3>1, <3>2, CanvasSound
    <3> HIDE DEF q
    <3>4. u = [q EXCEPT !.host = "detached"]
      BY DEF q
    <3> HIDE DEF u
    <3>5. /\ u \in RequestSet /\ Kin(q, u) /\ m \in RequestSet /\ Kin(q, m)
          /\ u.step = q.step /\ u.gap = q.gap /\ m.step = q.step /\ m.gap = q.gap
      BY <3>2, <3>4 DEF RequestSet, Kin
    <3> HIDE DEF m
    <3>6. Sound(u, page, Born) /\ Sound(m, page, Born)
      BY <3>3, <3>5, KinSound
    <3>7. Parts(u, e) /\ Parts(m, e)
      <4>1. q.by = "canvas" /\ q.op = "unlink" /\ {q.node, q.other} = e
        BY <3>1, <3>2 DEF Kin, Request
      <4> QED
        BY <3>2, <3>5, <4>1 DEF Kin, Parts
    <3> QED
      BY <3>5, <3>6, <3>7 DEF u, m
  <2>6. \A i \in 1..n : SetToSeq(gone)[i] \in Pairs
    BY <2>4
  <2>7. /\ \A i \in 1..n : /\ new[i] \in RequestSet /\ Sound(new[i], page, Born)
                          /\ Parts(new[i], SetToSeq(gone)[i])
        /\ Parts([new[n] EXCEPT !.host = "mounted"], SetToSeq(gone)[n])
        /\ [new[n] EXCEPT !.host = "mounted"] \in RequestSet
        /\ Sound([new[n] EXCEPT !.host = "mounted"], page, Born)
    <3>1. \A i \in 1..n : new[i] = Unlinked(SetToSeq(gone)[i])
      OBVIOUS
    <3>2. n \in 1..n
      BY <2>2, <2>3
    <3> HIDE DEF Unlinked, new, n
    <3>3. \A i \in 1..n : /\ new[i] \in RequestSet /\ Sound(new[i], page, Born)
                         /\ Parts(new[i], SetToSeq(gone)[i])
      BY <2>5, <2>6, <3>1
    <3>4. PICK e \in Pairs : e = SetToSeq(gone)[n] /\ new[n] = Unlinked(e)
      BY <2>6, <3>1, <3>2
    <3> QED
      BY <2>5, <3>3, <3>4
  <2>8. new \in Seq(RequestSet) /\ Len(new) = n /\ DOMAIN new = 1..n
    <3>1. new \in [1..n -> RequestSet]
      <4>1. new = [i \in 1..n |-> new[i]]
        OBVIOUS
      <4> HIDE DEF new, n
      <4> QED
        BY <2>7, <4>1
    <3> HIDE DEF new, n
    <3>2. new \in Seq(RequestSet)
      BY <2>2, <3>1, SeqDef
    <3> QED
      BY <2>2, <3>1, <3>2, LenProperties
  <2>9. AllSound(last) /\ DOMAIN last = 1..n /\ \A i \in 1..n : Parts(last[i], SetToSeq(gone)[i])
    <3> DEFINE m == [new[n] EXCEPT !.host = "mounted"]
    <3>1. n \in DOMAIN new
      BY <2>2, <2>3, <2>8
    <3> HIDE DEF new, n
    <3>2. last = [new EXCEPT ![n] = m]
      BY <2>8
    <3> HIDE DEF last
    <3>3. m \in RequestSet /\ Sound(m, page, Born) /\ Parts(m, SetToSeq(gone)[n])
      BY <2>7
    <3> HIDE DEF m
    <3>4. /\ last \in Seq(RequestSet) /\ DOMAIN last = DOMAIN new
          /\ last[n] = m /\ \A i \in DOMAIN new \ {n} : last[i] = new[i]
      BY <2>8, <3>1, <3>2, <3>3, SetAt
    <3>5. \A i \in 1..n : Sound(last[i], page, Born) /\ Parts(last[i], SetToSeq(gone)[i])
      BY <2>7, <2>8, <3>3, <3>4
    <3> QED
      BY <2>8, <3>4, <3>5 DEF AllSound
  <2> HIDE DEF last
  <2>10. /\ AllSound(older) /\ Follows(requests, older) /\ DOMAIN older = DOMAIN requests
         /\ \A r \in DOMAIN requests : /\ older[r].step = requests[r].step
                                       /\ older[r].gap = requests[r].gap
    <3>1. requests \in Seq(RequestSet)
      BY DEF AllSound
    <3>2. older = [r \in DOMAIN requests |-> older[r]]
      OBVIOUS
    <3>3. ASSUME NEW r \in DOMAIN requests
          PROVE  /\ older[r] \in RequestSet /\ Kin(requests[r], older[r])
                 /\ older[r].step = requests[r].step /\ older[r].gap = requests[r].gap
      <4> DEFINE d == [requests[r] EXCEPT !.host = "detached"]
      <4>1. requests[r] \in RequestSet
        BY <3>1, RequestSeq
      <4>2. older[r] \in {requests[r], d}
        OBVIOUS
      <4>3. d \in RequestSet /\ Kin(requests[r], d) /\ Kin(requests[r], requests[r])
            /\ d.step = requests[r].step /\ d.gap = requests[r].gap
        BY <4>1 DEF RequestSet, Kin
      <4> HIDE DEF older, d
      <4> QED
        BY <4>1, <4>2, <4>3
    <3> HIDE DEF older
    <3>4. older \in Seq(RequestSet) /\ DOMAIN older = DOMAIN requests
      BY <3>1, <3>2, <3>3, SeqMap
    <3>5. Follows(requests, older)
      BY <3>3, <3>4 DEF Follows, Further
    <3> QED
      BY <3>3, <3>4, <3>5, SoundFollows
  <2> HIDE DEF older
  <2>11. PICK old, end : old = older /\ end = last
    OBVIOUS
  <2>12. /\ AllSound(old \o end) /\ Follows(old, old \o end)
         /\ \A r \in DOMAIN (old \o end) \ DOMAIN old :
               r - Len(old) \in DOMAIN end /\ (old \o end)[r] = end[r - Len(old)]
         /\ \A r \in DOMAIN old : (old \o end)[r] = old[r]
    <3>1. AllSound(old) /\ AllSound(end)
      BY <2>9, <2>10, <2>11
    <3> QED
      BY <3>1, SoundConcat
  <2>13. requests' = old \o end
    BY <2>1, <2>11
  <2>14. /\ \A r \in DOMAIN requests' \ DOMAIN requests :
               requests'[r].by = "canvas" /\ \E e \in gone : Parts(requests'[r], e)
         /\ \A e \in gone : \E r \in DOMAIN requests' \ DOMAIN requests : Parts(requests'[r], e)
         /\ \A r, o \in DOMAIN requests' \ DOMAIN requests : \A e :
               Parts(requests'[r], e) /\ Parts(requests'[o], e) => r = o
    <3> DEFINE f == SetToSeq(gone)
               fresh == DOMAIN requests' \ DOMAIN requests
    <3>1. /\ f \in [1..n -> gone] /\ \A a, b \in 1..n : f[a] = f[b] => a = b
          /\ \A e \in gone : \E a \in 1..n : f[a] = e
      BY <2>4
    <3> HIDE DEF f
    <3>2. DOMAIN end = 1..n /\ \A i \in 1..n : Parts(end[i], f[i])
      BY <2>9, <2>11 DEF f
    <3> HIDE DEF n
    <3>3. /\ Len(old) \in Nat /\ n \in Nat /\ DOMAIN requests = 1..Len(old)
          /\ DOMAIN requests' = 1..(Len(old) + n)
      <4>1. old \in Seq(RequestSet) /\ end \in Seq(RequestSet)
        BY <2>9, <2>10, <2>11 DEF AllSound
      <4>2. DOMAIN old = 1..Len(old) /\ Len(old) \in Nat /\ DOMAIN end = 1..Len(end) /\ Len(end) \in Nat
        BY <4>1, LenProperties
      <4>3. Len(end) = n
        BY <2>2, <3>2, <4>2 DEF n
      <4>4. old \o end \in Seq(RequestSet) /\ Len(old \o end) = Len(old) + Len(end)
        BY <4>1, ConcatProperties
      <4>5. DOMAIN (old \o end) = 1..(Len(old) + Len(end))
        BY <4>4, LenProperties
      <4> QED
        BY <2>2, <2>10, <2>11, <2>13, <4>2, <4>3, <4>5 DEF n
    <3>4. ASSUME NEW r \in fresh
          PROVE  r - Len(old) \in 1..n /\ Parts(requests'[r], f[r - Len(old)])
      BY <2>10, <2>11, <2>12, <2>13, <3>2
    <3>5. ASSUME NEW e \in gone PROVE \E r \in fresh : Parts(requests'[r], e)
      <4>1. PICK a \in 1..n : f[a] = e
        BY <3>1
      <4>2. PICK r : r = Len(old) + a
        OBVIOUS
      <4>3. r \in fresh /\ r - Len(old) = a
        BY <3>3, <4>2
      <4> QED
        BY <3>4, <4>1, <4>3
    <3>6. ASSUME NEW r \in fresh, NEW o \in fresh, NEW e,
                 Parts(requests'[r], e), Parts(requests'[o], e)
          PROVE  r = o
      <4>1. f[r - Len(old)] = e /\ f[o - Len(old)] = e
        BY <3>4, <3>6 DEF Parts
      <4>2. r - Len(old) = o - Len(old)
        BY <3>1, <3>4, <4>1
      <4> QED
        BY <3>3, <4>2
    <3>7. \A r \in fresh : requests'[r].by = "canvas" /\ \E e \in gone : Parts(requests'[r], e)
      BY <3>1, <3>4 DEF Parts
    <3> QED
      BY <3>5, <3>6, <3>7
  <2>15. Follows(requests, requests')
    BY <2>10, <2>11, <2>12, <2>13, FollowsOn
  <2>16. \A r \in DOMAIN requests : /\ requests'[r].step = requests[r].step
                                   /\ requests'[r].gap = requests[r].gap
    BY <2>10, <2>11, <2>12, <2>13
  <2> QED
    BY <2>12, <2>13, <2>14, <2>15, <2>16
<1> QED
  BY <1>1, <1>2

LEMMA CanvasSendInv ==
    ASSUME FrontendInv, UNCHANGED <<scenario, api, queries, views, tasks, filters>>, CanvasInv',
           NEW q \in RequestSet, Sound(q, page, Born), Send(q)
    PROVE  FrontendInv'
<1>1. UNCHANGED <<scenario, api, queries, views>>
  OBVIOUS
<1> QED
  BY <1>1, SendInv DEF FrontendInv

\* Gestures that send one request of nodes of the canvas.
LEMMA CanvasAsksInv ==
    ASSUME FrontendInv, page = "workspace",
           UNCHANGED <<scenario, api, queries, views, tasks, filters>>, CanvasInv',
           NEW op \in {"move", "link", "unlink"}, NEW i \in NodeIds, NEW j \in NodeIds,
           NEW value \in Partials,
           IF op = "move" THEN i = j /\ "place" \in DOMAIN value ELSE i # j,
           \/ Send(Asks(op, i, j, value))
           \/ \E gap \in BOOLEAN : Send([Asks(op, i, j, value) EXCEPT !.gap = gap])
    PROVE  FrontendInv'
<1>1. PICK q : /\ \/ q = Asks(op, i, j, value)
                  \/ \E gap \in BOOLEAN : q = [Asks(op, i, j, value) EXCEPT !.gap = gap]
               /\ Send(q)
  BY DEF Send
<1>2. q \in RequestSet /\ Kin(Request(op, i, j, value, "canvas"), q)
  <2>1. CASE q = Asks(op, i, j, value)
    BY <2>1, AsksIn
  <2>2. ASSUME NEW gap \in BOOLEAN, q = [Asks(op, i, j, value) EXCEPT !.gap = gap]
        PROVE  q \in RequestSet /\ Kin(Request(op, i, j, value, "canvas"), q)
    BY <2>2, AsksIn
  <2> QED
    BY <1>1, <2>1, <2>2
<1>3. Sound(q, page, Born)
  BY <1>2, CanvasSound
<1> QED
  BY <1>1, <1>2, <1>3, CanvasSendInv

LEMMA PanInv ==
    ASSUME FrontendInv, UNCHANGED <<tasks, filters>>, NEW b \in DOMAIN Area, Pan(b)
    PROVE  FrontendInv'
<1> DEFINE new == (observed \ {<<"viewport", bounds>>}) \cup {<<"viewport", b>>}
<1>1. /\ shown = 0 /\ CanvasDraws(Sync(observed, new, cache), b)
      /\ bounds' = b /\ cache' = Sync(observed, new, cache) /\ observed' = new
      /\ UNCHANGED <<scenario, api, requests, views, dragging, undo, creating>>
  BY DEF Pan, InFront
<1>2. /\ IsCache(cache, Born) /\ observed \subseteq Keys /\ Quiet(cache, observed)
      /\ TablesInv /\ CanvasInv
  BY PanelKeeps
<1>3. new \subseteq Keys
  BY <1>2, KeyIn
<1>4. PICK c : c = Sync(observed, new, cache)
  OBVIOUS
<1>5. IsCache(c, Born) /\ Quiet(c, new)
  BY <1>2, <1>4, SyncType
<1>6. CanvasDraws(c, b)
  BY <1>1, <1>4
<1> HIDE DEF new
<1>7. CacheInv'
  <2>1. cache' = c
    BY <1>1, <1>4
  <2> QED
    BY <1>1, <1>3, <1>5, <2>1 DEF CacheInv, IsCache, Quiet, Born, api
<1>8. CanvasInv'
  BY <1>1, <1>2, <1>5, <1>6, CanvasDrawsType DEF CanvasInv
<1>9. ViewsInv'
  BY <1>1, PanelKeeps DEF ViewsInv, views, page, FormFits, Body
<1>10. TablesInv' /\ RequestsInv' /\ TasksInv' /\ FiltersInv'
  BY <1>1, PartsStay DEF api
<1> QED
  BY <1>7, <1>8, <1>9, <1>10 DEF FrontendInv

LEMMA EdgeGestureInv ==
    ASSUME FrontendInv, UNCHANGED <<scenario, api, queries, views, tasks, filters>>,
           page = "workspace", CanvasInv', NEW gone \in SUBSET Pairs, EdgesDeleted(gone)
    PROVE  FrontendInv'
<1>1. AllSound(requests')
  BY PanelKeeps, EdgesDeletedType
<1>2. RequestsInv'
  BY <1>1, SoundStays DEF api
<1> QED
  BY <1>2, PartsStay DEF FrontendInv, api

LEMMA CanvasCreateInv ==
    ASSUME FrontendInv, UNCHANGED <<tasks, filters>>, page = "workspace",
           \/ SubmitCreate
           \/ \E p \in Places : DropFile(p)
    PROVE  FrontendInv'
<1>1. CanvasInv
  BY PanelKeeps
<1>2. PICK p, q : /\ p \in Places
                  /\ \/ q = Request("create", 0, 0, [Created EXCEPT !.place = p], "canvas")
                     \/ q = [Request("create", 0, 0, [Created EXCEPT !.place = p], "drop")
                                EXCEPT !.host = "detached"]
                  /\ Send(q)
                  /\ UNCHANGED <<scenario, api, queries, views, canvas>>
  <2>1. CASE SubmitCreate
    <3>1. PICK p \in Places : p = creating
      BY <1>1, <2>1 DEF SubmitCreate, CanvasInv
    <3> QED
      BY <2>1, <3>1 DEF SubmitCreate
  <2>2. CASE \E p \in Places : DropFile(p)
    BY <2>2 DEF DropFile
  <2> QED
    BY <2>1, <2>2
<1>3. [Created EXCEPT !.place = p] \in Row
  BY <1>2, FrontendAssumption DEF Row
<1>4. /\ q \in RequestSet /\ q.op = "create" /\ q.by \in {"canvas", "drop"}
      /\ q.value = [Created EXCEPT !.place = p]
  <2> DEFINE value == [Created EXCEPT !.place = p]
             a == Request("create", 0, 0, value, "canvas")
             b == Request("create", 0, 0, value, "drop")
  <2>1. value \in Partials
    BY <1>3, SentValues
  <2>2. q = a \/ q = [b EXCEPT !.host = "detached"]
    BY <1>2
  <2> HIDE DEF value
  <2>3. /\ a \in RequestSet /\ a.op = "create" /\ a.by = "canvas" /\ a.value = value
        /\ b \in RequestSet /\ b.op = "create" /\ b.by = "drop" /\ b.value = value
    BY <2>1, ZeroId DEF Request, RequestSet
  <2> HIDE DEF a, b
  <2>4. q \in RequestSet /\ q.op = "create" /\ q.by \in {"canvas", "drop"} /\ q.value = value
    BY <2>2, <2>3 DEF RequestSet
  <2> QED
    BY <2>4 DEF value
<1>5. Sound(q, page, Born)
  BY <1>3, <1>4 DEF Sound, Views
<1>6. CanvasInv'
  BY <1>2, PartsStay
<1> QED
  BY <1>2, <1>4, <1>5, <1>6, CanvasSendInv

LEMMA CanvasGestureInv ==
    ASSUME FrontendInv, CanvasGesture
    PROVE  FrontendInv'
<1>1. UNCHANGED <<tasks, filters>> /\ page = "workspace"
  BY DEF CanvasGesture
<1>2. CanvasInv
  BY PanelKeeps
<1>3. ASSUME NEW b \in DOMAIN Area, Pan(b) PROVE FrontendInv'
  BY <1>1, <1>3, PanInv
<1>4. ASSUME NEW i \in NodeIds, DragStart(i) PROVE FrontendInv'
  <2>1. CanvasInv'
    BY <1>2, <1>4 DEF DragStart, CanvasInv
  <2> QED
    BY <1>1, <1>4, <2>1, PartsStay DEF DragStart, FrontendInv, api
<1>5. ASSUME NEW i \in NodeIds, NEW p \in Places, DragStop(i, p) PROVE FrontendInv'
  <2>1. CanvasInv'
    BY <1>2, <1>5 DEF DragStop, CanvasInv
  <2>2. [place |-> p] \in Partials /\ "place" \in DOMAIN [place |-> p]
    BY SentValues
  <2>3. Send(Asks("move", i, i, [place |-> p]))
        /\ UNCHANGED <<scenario, api, queries, views>>
    BY <1>5 DEF DragStop
  <2> QED
    BY <1>1, <2>1, <2>2, <2>3, CanvasAsksInv
<1>6. ASSUME NEW i \in NodeIds, NEW j \in NodeIds, Connect(i, j) PROVE FrontendInv'
  <2>1. CanvasInv'
    BY <1>2, <1>6, PairIn DEF Connect, CanvasInv
  <2>2. <<>> \in Partials
    BY SentValues
  <2>3. Send(Asks("link", i, j, <<>>)) /\ i # j
        /\ UNCHANGED <<scenario, api, queries, views>>
    BY <1>6 DEF Connect
  <2> QED
    BY <1>1, <2>1, <2>2, <2>3, CanvasAsksInv
<1>7. ASSUME NEW e \in Pairs, DeleteEdge(e) PROVE FrontendInv'
  <2>1. CanvasInv'
    BY <1>2, <1>7 DEF DeleteEdge, CanvasInv
  <2>2. {e} \in SUBSET Pairs /\ EdgesDeleted({e})
        /\ UNCHANGED <<scenario, api, queries, views>>
    BY <1>7 DEF DeleteEdge
  <2> QED
    BY <1>1, <2>1, <2>2, EdgeGestureInv
<1>8. ASSUME NEW e \in Pairs, Undo(e) PROVE FrontendInv'
  <2>1. CanvasInv'
    BY <1>2, <1>8 DEF Undo, CanvasInv
  <2>2. <<>> \in Partials
    BY SentValues
  <2>3. Min(e) \in NodeIds /\ Max(e) \in NodeIds /\ Min(e) # Max(e)
    BY PairEnds
  <2>4. PICK i \in NodeIds, j \in NodeIds : i = Min(e) /\ j = Max(e)
    BY <2>3
  <2>5. /\ \E gap \in BOOLEAN : Send([Asks("link", i, j, <<>>) EXCEPT !.gap = gap])
        /\ UNCHANGED <<scenario, api, queries, views>>
    <3> DEFINE gap == Asks("link", Min(e), Max(e), <<>>).gap \/ e \in Edges(Listed(cache, bounds))
    <3>1. gap \in BOOLEAN
      OBVIOUS
    <3>2. Send([Asks("link", Min(e), Max(e), <<>>) EXCEPT !.gap = gap])
          /\ UNCHANGED <<scenario, api, queries, views>>
      BY <1>8 DEF Undo
    <3> HIDE DEF gap
    <3> QED
      BY <2>4, <3>1, <3>2
  <2> QED
    BY <1>1, <2>1, <2>2, <2>3, <2>4, <2>5, CanvasAsksInv
<1>9. ASSUME NEW i \in NodeIds, DeleteCard(i) PROVE FrontendInv'
  <2> DEFINE gone == {e \in edges : i \in e}
  <2>1. /\ cards' = [j \in DOMAIN cards \ {i} |-> cards[j]] /\ edges' = edges \ gone
        /\ dragging = {} /\ EdgesDeleted(gone)
        /\ UNCHANGED <<scenario, api, queries, views, bounds, dragging, undo, creating>>
    BY <1>9 DEF DeleteCard
  <2>2. gone \in SUBSET Pairs
    BY <1>2 DEF CanvasInv
  <2> HIDE DEF gone
  <2>3. CanvasInv'
    BY <1>2, <2>1 DEF CanvasInv
  <2> QED
    BY <1>1, <2>1, <2>2, <2>3, EdgeGestureInv
<1>10. ASSUME NEW p \in Places, PaneClick(p) PROVE FrontendInv'
  <2>1. CanvasInv'
    BY <1>2, <1>10 DEF PaneClick, CanvasInv
  <2> QED
    BY <1>1, <1>10, <2>1, PartsStay DEF PaneClick, FrontendInv, api
<1>11. ASSUME CancelCreate PROVE FrontendInv'
  <2>1. CanvasInv'
    BY <1>2, <1>11 DEF CancelCreate, CanvasInv
  <2>2. AllSound(requests')
    <3>1. PICK rs : rs = requests
      OBVIOUS
    <3>2. AllSound(rs) /\ rs \in Seq(RequestSet)
      BY <3>1, PanelKeeps DEF AllSound
    <3>3. requests' = Forget(rs, "create")
      BY <1>11, <3>1 DEF CancelCreate
    <3> QED
      BY <3>2, <3>3, ForgetType, SoundFollows
  <2>3. RequestsInv'
    BY <1>11, <2>2, SoundStays DEF CancelCreate, api
  <2> QED
    BY <1>1, <1>11, <2>1, <2>3, PartsStay DEF CancelCreate, FrontendInv, api
<1>12. ASSUME SubmitCreate \/ \E p \in Places : DropFile(p) PROVE FrontendInv'
  BY <1>1, <1>12, CanvasCreateInv
<1> QED
  BY <1>3, <1>4, <1>5, <1>6, <1>7, <1>8, <1>9, <1>10, <1>11, <1>12 DEF CanvasGesture

-----------------------------------------------------------------------------
(* Gestures on the task page, on the filters, and other users              *)

LEMMA ToggleInv ==
    ASSUME FrontendInv, page = "tasks", UNCHANGED <<views, canvas, filters>>,
           NEW f \in Filters, toggleStatus(f)
    PROVE  FrontendInv'
<1>1. PICK new, b, rs, over : /\ new = (observed \ {Path(filter)}) \cup {Path(f)}
                              /\ b = board /\ rs = requests /\ over = overrides
  OBVIOUS
<1>2. PICK c : c = Sync(observed, new, cache)
  OBVIOUS
<1>3. /\ cache' = c /\ observed' = new /\ filter' = f /\ BoardDraws(c, f, b, rs, over)
      /\ UNCHANGED <<scenario, api>>
  BY <1>1, <1>2 DEF toggleStatus, BoardDraws
<1>4. new \in SUBSET Keys
  BY <1>1, KeyIn, PanelKeeps
<1>5. IsCache(c, Born) /\ Quiet(c, new)
  BY <1>2, PanelKeeps, SyncType
<1>6. AllSound(rs) /\ over = [i \in DOMAIN over |-> over[i]] /\ DOMAIN over \subseteq NodeIds
  BY <1>1, PanelKeeps DEF FrontendInv, TasksInv
<1> QED
  BY <1>3, <1>4, <1>5, <1>6, BoardInv

LEMMA ViewChangeInv ==
    ASSUME FrontendInv, page = "tasks", UNCHANGED <<views, canvas, filters>>, handleViewChange
    PROVE  FrontendInv'
<1>1. PICK c, obs, b, rs, over : /\ c = cache /\ obs = observed
                                 /\ b = ~board /\ rs = requests /\ over = overrides
  OBVIOUS
<1>2. PICK f \in Filters : f = filter
  BY DEF FrontendInv, TasksInv
<1>3. /\ cache' = c /\ observed' = obs /\ filter' = f /\ BoardDraws(c, f, b, rs, over)
      /\ UNCHANGED <<scenario, api>>
  BY <1>1, <1>2 DEF handleViewChange, BoardDraws, queries
<1>4. obs \in SUBSET Keys /\ IsCache(c, Born) /\ Quiet(c, obs)
  BY <1>1, PanelKeeps
<1>5. AllSound(rs) /\ over = [i \in DOMAIN over |-> over[i]] /\ DOMAIN over \subseteq NodeIds
  BY <1>1, PanelKeeps DEF FrontendInv, TasksInv
<1> QED
  BY <1>3, <1>4, <1>5, BoardInv

LEMMA DropInv ==
    ASSUME FrontendInv, UNCHANGED <<views, canvas, filters>>,
           NEW i \in NodeIds, NEW s \in Values, Drop(i, s)
    PROVE  FrontendInv'
<1>1. PICK q : q = Request("patch", i, i, [status |-> s], "board")
  OBVIOUS
<1>2. i \in 0..MaxId /\ [status |-> s] \in Partials
  BY ZeroId, SentValues
<1>3. /\ q \in RequestSet /\ q.op = "patch" /\ q.by = "board"
      /\ DOMAIN q.value = {"status"}
  BY <1>1, <1>2 DEF Request, RequestSet
<1>4. page = "tasks" /\ Send(q) /\ UNCHANGED <<scenario, api, queries>>
  BY <1>1 DEF Drop
<1>5. Sound(q, page, Born)
  BY <1>3, <1>4 DEF Sound, Views, Fields
<1>6. TasksInv'
  <2> DEFINE over == [j \in DOMAIN drawn \cup {i} |-> IF j = i THEN s ELSE drawn[j]]
  <2>1. overrides' = over /\ drawn' = over /\ UNCHANGED filter
    BY DEF Drop
  <2>2. over = [j \in DOMAIN over |-> over[j]] /\ DOMAIN over = DOMAIN drawn \cup {i}
    OBVIOUS
  <2> HIDE DEF over
  <2>3. filter \in Filters /\ DOMAIN drawn \subseteq NodeIds
    BY DEF FrontendInv, TasksInv
  <2> QED
    BY <2>1, <2>2, <2>3 DEF TasksInv
<1> QED
  BY <1>3, <1>4, <1>5, <1>6, SendInv DEF FrontendInv

LEMMA SubmitTaskInv ==
    ASSUME FrontendInv, page = "tasks", UNCHANGED <<views, canvas, filters>>, SubmitTask
    PROVE  FrontendInv'
<1>1. Group \in Born
  <2>1. PICK n : cache[<<"linkedto", Project>>].data # NoData
                 /\ n \in cache[<<"linkedto", Project>>].data /\ n.id = Group
    BY DEF SubmitTask, GroupKnown
  <2>2. <<"linkedto", Project>> \in Keys
    BY KeyIn, FrontendAssumption
  <2>3. cache[<<"linkedto", Project>>] \in Entry(<<"linkedto", Project>>, Born)
    BY <2>2, PanelKeeps DEF IsCache
  <2>4. DataOf(<<"linkedto", Project>>, Born) = SUBSET CardsOf(Born)
    BY DEF DataOf
  <2>5. n \in CardsOf(Born)
    BY <2>1, <2>3, <2>4 DEF Entry
  <2> QED
    BY <2>1, <2>5 DEF CardsOf
<1>2. PICK q : q = Request("create", 0, Group, Created, "task")
  OBVIOUS
<1>3. /\ Group \in 0..MaxId /\ 0 # Group /\ Created \in Partials /\ Created \in Row /\ 0 \in 0..MaxId
  BY FrontendAssumption, ZeroId, SentValues DEF NodeIds
<1>4. /\ q \in RequestSet /\ q.op = "create" /\ q.by = "task" /\ q.node = 0
      /\ q.other = Group /\ q.value = Created
  BY <1>2, <1>3 DEF Request, RequestSet
<1>5. Sound(q, page, Born)
  BY <1>1, <1>3, <1>4 DEF Sound, Views
<1>6. Send(q) /\ UNCHANGED <<scenario, api, queries, tasks>>
  BY <1>2 DEF SubmitTask
<1> QED
  BY <1>4, <1>5, <1>6, SendInv DEF FrontendInv

LEMMA TaskGestureInv ==
    ASSUME FrontendInv, TaskGesture
    PROVE  FrontendInv'
<1>1. UNCHANGED <<views, canvas, filters>> /\ page = "tasks"
  BY DEF TaskGesture
<1>2. ASSUME OpenCreateTask PROVE FrontendInv'
  <2>1. TasksInv'
    BY <1>2 DEF OpenCreateTask, FrontendInv, TasksInv
  <2> QED
    BY <1>1, <1>2, <2>1, PartsStay DEF OpenCreateTask, FrontendInv, api
<1>3. ASSUME CloseCreateTask PROVE FrontendInv'
  <2>1. TasksInv'
    BY <1>3 DEF CloseCreateTask, FrontendInv, TasksInv
  <2>2. AllSound(requests')
    <3>1. PICK rs : rs = requests
      OBVIOUS
    <3>2. AllSound(rs) /\ rs \in Seq(RequestSet)
      BY <3>1, PanelKeeps DEF AllSound
    <3> DEFINE ts == [r \in DOMAIN rs |-> IF rs[r].by = "task" THEN [rs[r] EXCEPT !.host = "detached"]
                                          ELSE rs[r]]
    <3>3. requests' = ts
      BY <1>3, <3>1 DEF CloseCreateTask
    <3>4. ASSUME NEW r \in DOMAIN rs
          PROVE  ts[r] \in RequestSet /\ Kin(rs[r], ts[r]) /\ ts[r].step = rs[r].step
      <4> DEFINE d == [rs[r] EXCEPT !.host = "detached"]
      <4>1. rs[r] \in RequestSet
        BY <3>2, RequestSeq
      <4>2. ts[r] \in {rs[r], d}
        OBVIOUS
      <4>3. d \in RequestSet /\ Kin(rs[r], d) /\ Kin(rs[r], rs[r]) /\ d.step = rs[r].step
        BY <4>1 DEF RequestSet, Kin
      <4> HIDE DEF ts, d
      <4> QED
        BY <4>1, <4>2, <4>3
    <3>5. ts = [r \in DOMAIN rs |-> ts[r]]
      OBVIOUS
    <3> HIDE DEF ts
    <3>6. ts \in Seq(RequestSet) /\ DOMAIN ts = DOMAIN rs
      BY <3>2, <3>4, <3>5, SeqMap
    <3>7. AllSound(ts)
      BY <3>2, <3>4, <3>6, SoundFollows DEF Follows, Further
    <3> QED
      BY <3>3, <3>7
  <2>3. RequestsInv'
    BY <1>3, <2>2, SoundStays DEF CloseCreateTask, api
  <2> QED
    BY <1>1, <1>3, <2>1, <2>3, PartsStay DEF CloseCreateTask, FrontendInv, api
<1> QED
  BY <1>1, <1>2, <1>3, ToggleInv, ViewChangeInv, DropInv, SubmitTaskInv DEF TaskGesture

LEMMA RedrawInv ==
    ASSUME FrontendInv, BoardRedraws, UNCHANGED <<views, canvas, filters>>
    PROVE  FrontendInv'
<1>1. TasksInv'
  BY DEF BoardRedraws, FrontendInv, TasksInv
<1> QED
  BY <1>1, PartsStay DEF BoardRedraws, FrontendInv, api

LEMMA FilterGestureInv ==
    ASSUME FrontendInv, FilterGesture
    PROVE  FrontendInv'
<1>1. FiltersInv'
  BY NextFilters DEF FrontendInv, FilterGesture
<1>2. UNCHANGED <<scenario, api, queries, requests, views, canvas, tasks>>
  BY DEF FilterGesture
<1> QED
  BY <1>1, <1>2, PartsStay DEF FrontendInv, api

LEMMA OtherUsersInv ==
    ASSUME FrontendInv, OtherUsers
    PROVE  FrontendInv'
<1>1. PICK i \in Targets, v \in Values : OtherUser(i, "status", v)
  BY DEF OtherUsers
<1>2. UNCHANGED <<scenario, links, issued, queries, views, canvas, tasks, filters>>
  BY <1>1 DEF OtherUsers, OtherUser, Others
<1>3. TablesInv /\ AllSound(requests)
  BY PanelKeeps
<1>4. /\ i \in NodeIds /\ rows[i] # Gone /\ rows' = [rows EXCEPT ![i]["status"] = v]
  BY <1>1 DEF OtherUser, Exists
<1>5. TablesInv'
  <2>1. rows[i] \in Row
    BY <1>3, <1>4 DEF TablesInv
  <2>2. [rows[i] EXCEPT !["status"] = v] \in Row
    BY <2>1 DEF Row
  <2>3. rows' \in [NodeIds -> Row \cup {Gone}]
    BY <1>3, <1>4, <2>2 DEF TablesInv
  <2>4. \A j \in NodeIds : rows'[j] # Gone => rows[j] # Gone
    BY <1>3, <1>4 DEF TablesInv
  <2> QED
    BY <1>2, <1>3, <2>3, <2>4 DEF TablesInv, Born
<1>6. RequestsInv'
  <2> DEFINE value == [f \in {"status"} |-> v]
             base == Request("patch", i, i, value, "other")
  <2>1. PICK rs, q : rs = requests /\ q = [base EXCEPT !.step = "done", !.gap = TRUE]
    OBVIOUS
  <2>2. requests' = Append(rs, q)
    BY <1>1, <2>1 DEF OtherUser, Send
  <2>3. value \in Partials
    <3>1. value \in [{"status"} -> Values] /\ {"status"} \in SUBSET Fields
      BY DEF Fields
    <3> QED
      BY <3>1, SentValues DEF Forms
  <2> HIDE DEF value
  <2>4. /\ base \in RequestSet /\ base.op = "patch" /\ base.by = "other"
    BY <1>4, <2>3, ZeroId DEF Request, RequestSet
  <2>5. base.value = value
    BY DEF Request
  <2> HIDE DEF base
  <2>6. q \in RequestSet /\ q.op = "patch" /\ q.by = "other" /\ q.value = value
    BY <2>1, <2>4, <2>5 DEF RequestSet
  <2>7. DOMAIN q.value \subseteq Fields
    BY <2>6 DEF value, Fields
  <2>8. Sound(q, page, Born)
    BY <2>6, <2>7 DEF Sound, Views
  <2>9. AllSound(rs)
    BY <1>3, <2>1
  <2>10. AllSound(requests')
    BY <2>2, <2>6, <2>8, <2>9, SoundSent
  <2> QED
    BY <1>2, <2>10, SoundStays
<1>7. CacheInv' /\ ViewsInv' /\ CanvasInv' /\ TasksInv' /\ FiltersInv'
  BY <1>2, PartsStay
<1> QED
  BY <1>5, <1>6, <1>7 DEF FrontendInv

-----------------------------------------------------------------------------
(* Callbacks                                                               *)

\* The cache that the callbacks of q leave; what a deletion removes is not
\* fetched again.
LEMMA SettledType ==
    ASSUME FrontendInv, NEW q \in RequestSet
    PROVE  /\ IsCache(Settled(cache, q), Born)
           /\ Quiet(Settled(cache, q), observed)
           /\ q.step = "ok" /\ q.op = "delete" /\ q.by # "board" =>
                 Quiet(Settled(cache, q), observed \ {<<"node", q.key>>, <<"content", q.key>>})
<1> DEFINE gone == IF q.op = "delete" THEN {<<"node", q.key>>, <<"content", q.key>>} ELSE {}
           c == IF q.op = "delete" THEN Removed(cache, gone) ELSE cache
           new == Invalidate(c, Outdated(q), observed)
<1>1. IsCache(cache, Born) /\ Quiet(cache, observed)
  BY PanelKeeps
<1>2. /\ IsCache(c, Born)
      /\ \A k \in Keys : c[k].wire # Idle => k \in observed \ gone
  <2>1. CASE q.op = "delete"
    <3> HIDE DEF gone
    <3>1. c = Removed(cache, gone)
      BY <2>1
    <3>2. /\ IsCache(Removed(cache, gone), Born)
          /\ \A k \in Keys : Removed(cache, gone)[k].wire = IF k \in gone THEN Idle ELSE cache[k].wire
      BY <1>1, RemovedType
    <3> HIDE DEF c
    <3> QED
      BY <1>1, <3>1, <3>2 DEF Quiet
  <2>2. CASE q.op # "delete"
    BY <1>1, <2>2 DEF Quiet
  <2> QED
    BY <2>1, <2>2
<1> HIDE DEF c
<1>3. IsCache(new, Born) /\ \A k \in Keys : k \notin Outdated(q) \cap observed => new[k].wire = c[k].wire
  BY <1>2, InvalidateType
<1>4. Settled(cache, q) = IF q.step \in {"ok", "linked"} THEN new ELSE cache
  BY DEF Settled, Succeeded, c
<1> HIDE DEF new
<1>5. Quiet(new, observed)
  BY <1>2, <1>3 DEF Quiet
<1>6. ASSUME q.step = "ok", q.op = "delete", q.by # "board"
      PROVE  Quiet(new, observed \ gone)
  <2>1. gone \cap Outdated(q) = {}
    <3>1. Outdated(q) = Kind("linkedto") \cup Kind("viewport")
      BY <1>6 DEF Outdated, useDeleteNode
    <3> QED
      BY <3>1 DEF Kind
  <2> HIDE DEF gone
  <2> QED
    BY <1>2, <1>3, <1>5, <2>1 DEF Quiet
<1> QED
  BY <1>1, <1>3, <1>4, <1>5, <1>6

LEMMA SoundDone ==
    ASSUME FrontendInv, NEW r \in DOMAIN requests
    PROVE  /\ AllSound(Done(r)) /\ DOMAIN Done(r) = DOMAIN requests
           /\ requests[r] \in RequestSet /\ Sound(requests[r], page, Born)
<1>1. AllSound(requests) /\ requests \in Seq(RequestSet)
  BY PanelKeeps DEF AllSound
<1>2. Follows(requests, Done(r)) /\ DOMAIN Done(r) = DOMAIN requests
  BY <1>1, DoneType
<1>3. PICK rs, ts : rs = requests /\ ts = Done(r)
  OBVIOUS
<1>4. AllSound(ts)
  <2>1. AllSound(rs) /\ Follows(rs, ts) /\ DOMAIN ts = DOMAIN rs
    BY <1>1, <1>2, <1>3
  <2> QED
    BY <2>1, SoundFollows
<1> QED
  BY <1>1, <1>2, <1>3, <1>4, RequestSeq DEF AllSound

\* A request that follows the creation of a node.
LEMMA SoundNext ==
    ASSUME FrontendInv, NEW rs, AllSound(rs), NEW q \in RequestSet, Sound(q, page, Born),
           q.op = "create"
    PROVE  /\ q.by \in Views => AllSound(Append(rs, handleChildCreated(q)))
           /\ q.by = "task" => AllSound(rs \o LinkTask(q))
           /\ q.by = "drop" => AllSound(Append(rs, Request("raw", q.node, q.node,
                                                           [text |-> Created.name], "drop")))
<1>1. /\ q.node \in 0..MaxId /\ q.other \in 0..MaxId /\ <<>> \in Partials
      /\ [text |-> Created.name] \in Partials /\ q.host \in {"mounted", "detached", "left"}
  BY SentValues, FrontendAssumption DEF RequestSet, Row
<1>2. ASSUME q.by \in Views PROVE AllSound(Append(rs, handleChildCreated(q)))
  <2> DEFINE base == Request("link", q.other, q.node, <<>>, "child")
             p == handleChildCreated(q)
  <2>1. base \in RequestSet /\ base.op = "link" /\ base.node = q.other /\ base.other = q.node
        /\ base.by = "child"
    BY <1>1 DEF Request, RequestSet, Views
  <2>2. p = [base EXCEPT !.host = IF q.host = "left" THEN "left" ELSE "mounted"]
    BY DEF handleChildCreated
  <2> HIDE DEF base, p
  <2>3. p \in RequestSet /\ p.op = "link" /\ p.node = q.other /\ p.other = q.node /\ p.by = "child"
    BY <2>1, <2>2 DEF RequestSet
  <2>4. Sound(p, page, Born)
    BY <1>2, <2>3 DEF Sound, Views
  <2> QED
    BY <2>3, <2>4, SoundSent DEF p
<1>3. ASSUME q.by = "task" PROVE AllSound(rs \o LinkTask(q))
  <2> DEFINE base == Request("link", q.node, q.other, <<>>, "task")
             p == [base EXCEPT !.host = q.host]
  <2>1. base \in RequestSet /\ base.op = "link" /\ base.node = q.node /\ base.other = q.other
        /\ base.by = "task"
    BY <1>1 DEF Request, RequestSet
  <2> HIDE DEF base
  <2>2. p \in RequestSet /\ p.op = "link" /\ p.node = q.node /\ p.other = q.other /\ p.by = "task"
    BY <1>1, <2>1 DEF RequestSet
  <2>3. LinkTask(q) = <<p>>
    BY DEF LinkTask, base
  <2> HIDE DEF p
  <2>4. Sound(p, page, Born)
    BY <1>3, <2>2 DEF Sound, Views
  <2>5. rs \o <<p>> = Append(rs, p)
    <3>1. rs \in Seq(RequestSet)
      BY DEF AllSound
    <3> QED
      BY <2>2, <3>1
  <2> QED
    BY <2>2, <2>3, <2>4, <2>5, SoundSent
<1>4. ASSUME q.by = "drop"
      PROVE  AllSound(Append(rs, Request("raw", q.node, q.node, [text |-> Created.name], "drop")))
  <2> DEFINE p == Request("raw", q.node, q.node, [text |-> Created.name], "drop")
  <2>1. /\ p \in RequestSet /\ p.op = "raw" /\ p.by = "drop"
        /\ DOMAIN p.value = {"text"}
    BY <1>1 DEF Request, RequestSet
  <2> HIDE DEF p
  <2>2. Sound(p, page, Born)
    BY <1>4, <2>1 DEF Sound, Views
  <2>3. AllSound(Append(rs, p))
    BY <2>1, <2>2, SoundSent
  <2> QED
    BY <2>3 DEF p
<1> QED
  BY <1>2, <1>3, <1>4

\* The settling of a request of a view, with the panel or page drawn again.
LEMMA ViewSettlesInv ==
    ASSUME FrontendInv, NEW r \in DOMAIN requests, ViewSettles(r)
    PROVE  /\ TablesInv' /\ CacheInv' /\ RequestsInv' /\ ViewsInv'
           /\ page \notin {"tasks", "filters"} /\ UNCHANGED <<scenario, api>>
<1> DEFINE q == requests[r]
           ok == q.step = "ok"
           closes == ok /\ q.host # "left" /\ panel.dialog = DialogOf(q)
           saved == ok /\ q.by = "editor" /\ page = "wiki" /\ q.host = "mounted"
           removed == IF ok /\ q.op = "delete" THEN {<<"node", q.key>>, <<"content", q.key>>} ELSE {}
           rs == IF closes THEN Forget(Done(r), panel.dialog) ELSE Done(r)
           p == [panel EXCEPT !.dialog = IF closes THEN "none" ELSE @,
                              !.edit = @ /\ ~saved, !.compose = @ /\ ~saved]
           ts == IF ok /\ q.op = "create" THEN Append(rs, handleChildCreated(q)) ELSE rs
<1>1. /\ Draw(NextShown(q), Settled(cache, q), p, ts, observed \ removed)
      /\ UNCHANGED <<scenario, api>> /\ q.by \in Views
  BY DEF ViewSettles, Views
<1>2. /\ AllSound(Done(r)) /\ q \in RequestSet /\ Sound(q, page, Born)
  BY SoundDone
<1>3. page \in {"node", "wiki", "workspace"}
  BY <1>1, <1>2 DEF Sound
<1>4. p \in PanelSet /\ p.vals = panel.vals /\ p.touched = panel.touched
  <2> DEFINE dialog == IF closes THEN "none" ELSE panel.dialog
             edit == panel.edit /\ ~saved
             compose == panel.compose /\ ~saved
  <2>1. panel \in PanelSet
    BY PanelKeeps
  <2>2. dialog \in {"none", "edit", "retype", "delete", "link", "create"}
    BY <2>1 DEF PanelSet
  <2>3. edit \in BOOLEAN /\ compose \in BOOLEAN
    OBVIOUS
  <2>4. p = [panel EXCEPT !.dialog = dialog, !.edit = edit, !.compose = compose]
    OBVIOUS
  <2> HIDE DEF dialog, edit, compose, p
  <2>5. PICK d \in {"none", "edit", "retype", "delete", "link", "create"},
             e \in BOOLEAN, o \in BOOLEAN :
           p = [panel EXCEPT !.dialog = d, !.edit = e, !.compose = o]
    BY <2>2, <2>3, <2>4
  <2> QED
    BY <2>1, <2>5 DEF PanelSet
<1>5. AllSound(ts)
  <2>1. PICK old, dialog : old = Done(r) /\ dialog = panel.dialog
    OBVIOUS
  <2>2. AllSound(old) /\ old \in Seq(RequestSet)
    BY <1>2, <2>1 DEF AllSound
  <2>3. AllSound(Forget(old, dialog))
    BY <2>2, ForgetType, SoundFollows
  <2>4. rs = old \/ rs = Forget(old, dialog)
    BY <2>1
  <2> HIDE DEF rs, ok, closes
  <2>5. AllSound(rs)
    BY <2>2, <2>3, <2>4
  <2>6. PICK rs0, q0 : rs0 = rs /\ q0 = q
    OBVIOUS
  <2>7. AllSound(rs0) /\ q0 \in RequestSet /\ Sound(q0, page, Born) /\ q0.by \in Views
    BY <1>1, <1>2, <2>5, <2>6
  <2>8. q0.op = "create" => AllSound(Append(rs0, handleChildCreated(q0)))
    BY <2>7, SoundNext
  <2>9. q.op = "create" => AllSound(Append(rs, handleChildCreated(q)))
    BY <2>6, <2>8
  <2> QED
    BY <2>5, <2>9
<1>6. /\ IsCache(Settled(cache, q), Born) /\ Quiet(Settled(cache, q), observed \ removed)
      /\ observed \ removed \in SUBSET Keys
  <2>1. PICK q0 \in RequestSet : q0 = q
    BY <1>2
  <2>2. /\ IsCache(Settled(cache, q0), Born)
        /\ Quiet(Settled(cache, q0), observed)
        /\ q0.step = "ok" /\ q0.op = "delete" /\ q0.by # "board" =>
              Quiet(Settled(cache, q0), observed \ {<<"node", q0.key>>, <<"content", q0.key>>})
    BY SettledType
  <2>3. q0.by # "board"
    BY <1>1, <2>1 DEF Views
  <2>4. observed \subseteq Keys
    BY PanelKeeps
  <2>5. observed \ removed = IF q0.step = "ok" /\ q0.op = "delete"
                             THEN observed \ {<<"node", q0.key>>, <<"content", q0.key>>}
                             ELSE observed
    BY <2>1
  <2> HIDE DEF removed, q
  <2> QED
    BY <2>1, <2>2, <2>3, <2>4, <2>5
<1>7. NextShown(q) \in 0..MaxId
  <2>1. shown \in 0..MaxId /\ q.other \in 0..MaxId /\ 0 \in 0..MaxId
    BY <1>2, PanelKeeps, ZeroId DEF RequestSet
  <2> HIDE DEF q
  <2> QED
    BY <2>1 DEF NextShown
<1> HIDE DEF p, ts, removed, q
<1>8. PICK s, c, pp, rr, obs : /\ s = NextShown(q) /\ c = Settled(cache, q) /\ pp = p /\ rr = ts
                               /\ obs = observed \ removed
  OBVIOUS
<1>9. Draw(s, c, pp, rr, obs)
  BY <1>1, <1>8
<1>10. /\ s \in 0..MaxId /\ IsCache(c, Born) /\ Quiet(c, obs) /\ obs \in SUBSET Keys
       /\ pp \in PanelSet /\ pp.vals = panel.vals /\ pp.touched = panel.touched /\ AllSound(rr)
       /\ page \notin {"tasks", "filters"}
  BY <1>3, <1>4, <1>5, <1>6, <1>7, <1>8
<1>11. TablesInv' /\ CacheInv' /\ RequestsInv' /\ ViewsInv'
  BY <1>1, <1>9, <1>10, DrawInv
<1> QED
  BY <1>1, <1>3, <1>11

LEMMA CanvasSettlesInv ==
    ASSUME FrontendInv, NEW r \in DOMAIN requests, CanvasSettles(r), UNCHANGED <<tasks, filters>>
    PROVE  FrontendInv'
<1>1. PICK q, c, p, obs, old, b : /\ q = requests[r] /\ c = Settled(cache, q) /\ p = panel
                                  /\ obs = observed /\ old = Done(r) /\ b = bounds
  OBVIOUS
<1>2. PICK s, ts :
         /\ s = IF q.step = "ok" /\ q.op = "create" /\ q.by = "canvas" THEN q.node ELSE shown
         /\ ts = IF q.step = "ok" /\ q.op = "create" /\ q.by = "drop"
                 THEN Append(old, Request("raw", q.node, q.node, [text |-> Created.name], "drop"))
                 ELSE old
  OBVIOUS
<1>3. /\ Draw(s, c, p, ts, obs) /\ CanvasDraws(c, b) /\ q.by \in {"canvas", "drop"}
      /\ creating' \in {NoData, creating}
      /\ undo' = undo \/ (q.op = "unlink" /\ undo' = undo \cup {{q.node, q.other}})
      /\ UNCHANGED <<scenario, api, bounds, dragging>>
  BY <1>1, <1>2 DEF CanvasSettles
<1>4. /\ AllSound(old) /\ q \in RequestSet /\ Sound(q, page, Born)
  BY <1>1, SoundDone
<1>5. page = "workspace"
  BY <1>3, <1>4 DEF Sound
<1>6. IsCache(c, Born) /\ Quiet(c, obs) /\ obs \in SUBSET Keys
  BY <1>1, <1>4, PanelKeeps, SettledType
<1>7. s \in 0..MaxId /\ p \in PanelSet /\ p.vals = panel.vals /\ p.touched = panel.touched
  BY <1>1, <1>2, <1>4, PanelKeeps DEF RequestSet
<1>8. AllSound(ts)
  BY <1>2, <1>4, SoundNext
<1>9. TablesInv' /\ CacheInv' /\ RequestsInv' /\ ViewsInv'
  BY <1>3, <1>5, <1>6, <1>7, <1>8, DrawInv
<1>10. CanvasInv'
  <2>1. TablesInv /\ CanvasInv /\ b \in DOMAIN Area
    BY <1>1, PanelKeeps DEF CanvasInv
  <2>2. /\ cards' = [i \in DOMAIN cards' |-> cards'[i]] /\ DOMAIN cards' \subseteq NodeIds
        /\ dragging \subseteq DOMAIN cards' /\ edges' \subseteq Pairs
    BY <1>3, <1>6, <2>1, CanvasDrawsType
  <2>3. undo' \subseteq Pairs
    BY <1>3, <1>4, <2>1 DEF Sound, CanvasInv
  <2> QED
    BY <1>1, <1>3, <2>1, <2>2, <2>3 DEF CanvasInv
<1> QED
  BY <1>3, <1>9, <1>10, PartsStay DEF FrontendInv

LEMMA PanelSettlesInv ==
    ASSUME FrontendInv, NEW r \in DOMAIN requests, PanelSettles(r), UNCHANGED <<tasks, filters>>
    PROVE  FrontendInv'
<1>1. /\ ViewSettles(r) /\ CanvasDraws(cache', bounds)
      /\ UNCHANGED <<bounds, dragging, undo, creating>>
  BY DEF PanelSettles
<1>2. /\ TablesInv' /\ CacheInv' /\ RequestsInv' /\ ViewsInv' /\ UNCHANGED <<scenario, api>>
  BY <1>1, ViewSettlesInv
<1>3. PICK c, b : c = cache' /\ b = bounds
  OBVIOUS
<1>4. IsCache(c, Born) /\ CanvasDraws(c, b)
  BY <1>1, <1>2, <1>3 DEF CacheInv, IsCache, Born, api
<1>5. CanvasInv'
  <2>1. TablesInv /\ CanvasInv /\ b \in DOMAIN Area
    BY <1>3, PanelKeeps DEF CanvasInv
  <2> QED
    BY <1>1, <1>3, <1>4, <2>1, CanvasDrawsType DEF CanvasInv
<1> QED
  BY <1>2, <1>5, PartsStay DEF FrontendInv

\* The board is drawn with the cache the callbacks of q left.
LEMMA BoardSettles ==
    ASSUME FrontendInv, UNCHANGED <<scenario, api, views, canvas, filters, observed, filter, board>>,
           page = "tasks", NEW q \in RequestSet, NEW rs, AllSound(rs),
           NEW over, over = [i \in DOMAIN over |-> over[i]], DOMAIN over \subseteq DOMAIN overrides,
           cache' = Settled(cache, q), BoardDraws(Settled(cache, q), filter, board, rs, over)
    PROVE  FrontendInv'
<1>1. PICK c, obs, b : c = Settled(cache, q) /\ obs = observed /\ b = board
  OBVIOUS
<1>2. PICK f \in Filters : f = filter
  BY DEF FrontendInv, TasksInv
<1>3. cache' = c /\ observed' = obs /\ filter' = f /\ BoardDraws(c, f, b, rs, over)
  BY <1>1, <1>2
<1>4. IsCache(c, Born) /\ Quiet(c, obs) /\ obs \in SUBSET Keys
  BY <1>1, PanelKeeps, SettledType
<1>5. DOMAIN over \subseteq NodeIds
  BY DEF FrontendInv, TasksInv
<1> QED
  BY <1>3, <1>4, <1>5, BoardInv

LEMMA DropSettlesInv ==
    ASSUME FrontendInv, NEW r \in DOMAIN requests, DropSettles(r), UNCHANGED <<views, canvas, filters>>
    PROVE  FrontendInv'
<1>1. PICK q, rs, gone : q = requests[r] /\ rs = Done(r) /\ gone = Reverted(q)
  OBVIOUS
<1>2. PICK over : over = [i \in DOMAIN overrides \ gone |-> overrides[i]]
  OBVIOUS
<1>3. q \in RequestSet /\ AllSound(rs) /\ Sound(q, page, Born)
  BY <1>1, SoundDone
<1>4. /\ cache' = Settled(cache, q) /\ BoardDraws(Settled(cache, q), filter, board, rs, over)
      /\ q.by = "board" /\ UNCHANGED <<scenario, api, observed, filter, board>>
  BY <1>1, <1>2 DEF DropSettles
<1>5. page = "tasks"
  BY <1>3, <1>4 DEF Sound
<1>6. over = [i \in DOMAIN over |-> over[i]] /\ DOMAIN over \subseteq DOMAIN overrides
  BY <1>2
<1> QED
  BY <1>3, <1>4, <1>5, <1>6, BoardSettles

LEMMA TaskSettlesInv ==
    ASSUME FrontendInv, NEW r \in DOMAIN requests, TaskSettles(r), UNCHANGED <<views, canvas, filters>>
    PROVE  FrontendInv'
<1>1. PICK q, old, over : q = requests[r] /\ old = Done(r) /\ over = overrides
  OBVIOUS
<1>2. PICK rs : rs = IF q.step = "ok" /\ q.op = "create" THEN old \o LinkTask(q) ELSE old
  OBVIOUS
<1>3. q \in RequestSet /\ AllSound(old) /\ Sound(q, page, Born)
  BY <1>1, SoundDone
<1>4. /\ cache' = Settled(cache, q) /\ BoardDraws(Settled(cache, q), filter, board, rs, over)
      /\ q.by = "task" /\ UNCHANGED <<scenario, api, observed, filter, board>>
  BY <1>1, <1>2 DEF TaskSettles
<1>5. page = "tasks"
  BY <1>3, <1>4 DEF Sound
<1>6. over = [i \in DOMAIN over |-> over[i]] /\ DOMAIN over \subseteq DOMAIN overrides
  BY <1>1 DEF FrontendInv, TasksInv
<1>7. AllSound(rs)
  BY <1>2, <1>3, <1>4, SoundNext
<1> QED
  BY <1>3, <1>4, <1>5, <1>6, <1>7, BoardSettles

LEMMA CallbackInv ==
    ASSUME FrontendInv, NEW r \in DOMAIN requests, Callback(r)
    PROVE  FrontendInv'
<1>1. CASE ViewSettles(r) /\ UNCHANGED <<canvas, tasks, filters>>
  <2>1. TablesInv' /\ CacheInv' /\ RequestsInv' /\ ViewsInv'
    BY <1>1, ViewSettlesInv
  <2> QED
    BY <1>1, <2>1, PartsStay DEF FrontendInv
<1> QED
  BY <1>1, PanelSettlesInv, CanvasSettlesInv, DropSettlesInv, TaskSettlesInv DEF Callback

LEMMA StepInv == FrontendInv /\ [Next]_vars => FrontendInv'
<1> SUFFICES ASSUME FrontendInv, [Next]_vars PROVE FrontendInv'
  OBVIOUS
<1>1. CASE API
  <2>1. CASE \E r \in DOMAIN requests : (Execute(r) \/ (Does("lose") /\ Lose(r))) /\ Others
    BY <2>1, ExecuteInv, LoseInv
  <2>2. CASE \E k \in observed : Serve(k) /\ Others
    BY <2>2, ServeInv
  <2> QED
    BY <1>1, <2>1, <2>2 DEF API
<1>2. CASE UNCHANGED vars
  BY <1>2, PartsStay DEF vars, FrontendInv, api
<1> QED
  BY <1>1, <1>2, CacheInvStep, ViewGestureInv, CanvasGestureInv, TaskGestureInv, RedrawInv,
     FilterGestureInv, OtherUsersInv, CallbackInv DEF Next

-----------------------------------------------------------------------------
(* Types                                                                   *)

LEMMA InvTypes == FrontendInv => TypeOK
<1> SUFFICES ASSUME FrontendInv PROVE TypeOK
  OBVIOUS
<1>1. /\ scenario \in Scenarios /\ rows \in [NodeIds -> Row \cup {Gone}]
      /\ links \subseteq Pairs /\ issued \in 0..MaxId
  BY DEF FrontendInv, TablesInv
<1>2. /\ observed \subseteq Keys /\ DOMAIN cache = Keys
      /\ \A k \in Keys : cache[k].error \in {"no", "missing", "failed"}
                         /\ cache[k].stale \in BOOLEAN
                         /\ (cache[k].wire # Idle => k \in observed)
  <2>1. IsCache(cache, Born) /\ Quiet(cache, observed) /\ observed \subseteq Keys
    BY PanelKeeps
  <2>2. DOMAIN cache = Keys
    BY <2>1 DEF IsCache
  <2>3. \A k \in Keys : cache[k].error \in {"no", "missing", "failed"} /\ cache[k].stale \in BOOLEAN
    BY <2>1 DEF IsCache, Entry
  <2> QED
    BY <2>1, <2>2, <2>3 DEF Quiet
<1>3. \A r \in DOMAIN requests :
         /\ requests[r].node \in 0..MaxId /\ requests[r].other \in 0..MaxId
         /\ requests[r].host \in {"mounted", "detached", "left"}
  <2>1. requests \in Seq(RequestSet)
    BY PanelKeeps DEF AllSound
  <2> QED
    BY <2>1, RequestSeq DEF RequestSet
<1>4. shown \in 0..MaxId /\ panel.draft \in 0..MaxId /\ panel.touched \subseteq DOMAIN panel.vals
  BY DEF FrontendInv, ViewsInv, PanelSet
<1>5. dragging \subseteq DOMAIN cards /\ edges \subseteq Pairs /\ undo \subseteq Pairs
  BY DEF FrontendInv, CanvasInv
<1>6. DOMAIN overrides \subseteq NodeIds /\ DOMAIN drawn \subseteq NodeIds /\ filter \in Filters
  BY DEF FrontendInv, TasksInv
<1>7. FiltersTypeOK
  BY DEF FrontendInv, FiltersInv
<1> QED
  BY <1>1, <1>2, <1>3, <1>4, <1>5, <1>6, <1>7 DEF TypeOK

\* Every page keeps its state well formed, whatever the cache and the requests
\* bring: no edge or link joins a node to itself, nothing is fetched that is
\* not mounted, and a form knows the fields that were typed in.
THEOREM FrontendTypeCorrect == Spec => []TypeOK
  BY InitInv, StepInv, InvTypes, PTL DEF Spec

-----------------------------------------------------------------------------
(* Where requests come from                                                *)

\* What the open form would send now, and for which node.
FormRequests == {v \in {<<shown, [f \in ChangedFields |-> Trim[panel.vals[f]]]>>} :
                    Body(shown, cache)}

\* A dialog sends one of the forms, and a child is linked under the node its
\* creation names; rs are the requests before.
Origin(q, rs, forms) ==
    /\ q.op = "patch" /\ q.by = "dialog" => <<q.node, q.value>> \in forms
    /\ q.op = "link" /\ q.by = "child" =>
          \E o \in DOMAIN rs : /\ rs[o].op = "create" /\ rs[o].step = "ok"
                               /\ rs[o].node = q.other /\ rs[o].other = q.node

Plain(q) == ~(q.op = "patch" /\ q.by = "dialog") /\ ~(q.op = "link" /\ q.by = "child")

Grows(rs, ts, forms) ==
    /\ DOMAIN rs \subseteq DOMAIN ts
    /\ \A r \in DOMAIN rs : Kin(rs[r], ts[r]) /\ Further(rs[r], ts[r])
    /\ \A r \in DOMAIN ts \ DOMAIN rs : Origin(ts[r], rs, forms)

LEMMA GrowsFollows ==
    ASSUME NEW rs, NEW ts, NEW us, NEW forms, Grows(rs, ts, forms), Follows(ts, us),
           DOMAIN us = DOMAIN ts
    PROVE  Grows(rs, us, forms)
<1>1. ASSUME NEW r \in DOMAIN us \ DOMAIN rs PROVE Origin(us[r], rs, forms)
  BY <1>1 DEF Grows, Follows, Origin, Kin
<1> QED
  BY <1>1 DEF Grows, Follows, Kin, Further

LEMMA AppendGrows ==
    ASSUME NEW rs, NEW ts \in Seq(RequestSet), NEW forms, NEW q, Grows(rs, ts, forms),
           Origin(q, rs, forms)
    PROVE  Grows(rs, Append(ts, q), forms)
<1>1. ts \in Seq(RequestSet \cup {q})
  <2>1. DOMAIN ts = 1..Len(ts) /\ Len(ts) \in Nat /\ \A r \in DOMAIN ts : ts[r] \in RequestSet
    BY RequestSeq
  <2>2. ts \in [1..Len(ts) -> RequestSet \cup {q}]
    BY <2>1, RequestSeq
  <2> QED
    BY <2>1, <2>2, SeqDef
<1>2. Append(ts, q) \in Seq(RequestSet \cup {q}) /\ Len(Append(ts, q)) = Len(ts) + 1
  BY <1>1
<1>3. /\ DOMAIN ts = 1..Len(ts) /\ Len(ts) \in Nat
      /\ DOMAIN Append(ts, q) = 1..(Len(ts) + 1)
  BY <1>1, <1>2, LenProperties
<1>4. \A r \in DOMAIN ts : Append(ts, q)[r] = ts[r]
  BY <1>1, <1>3
<1>5. Append(ts, q)[Len(ts) + 1] = q
  BY <1>1, <1>3
<1>6. DOMAIN Append(ts, q) = DOMAIN ts \cup {Len(ts) + 1}
  BY <1>3
<1> QED
  BY <1>4, <1>5, <1>6 DEF Grows

LEMMA FollowsGrows ==
    ASSUME NEW rs, NEW ts, NEW forms, Follows(rs, ts), DOMAIN ts = DOMAIN rs
    PROVE  Grows(rs, ts, forms)
  BY DEF Follows, Grows

LEMMA SameGrows == \A rs, forms : Grows(rs, rs, forms)
  BY DEF Grows, Kin, Further

LEMMA SendGrows ==
    ASSUME FrontendInv, NEW forms, NEW q, Send(q), Origin(q, requests, forms)
    PROVE  Grows(requests, requests', forms)
<1>1. PICK rs : rs = requests
  OBVIOUS
<1>2. rs \in Seq(RequestSet)
  BY <1>1, PanelKeeps DEF AllSound
<1>3. requests' = Append(rs, q)
  BY <1>1 DEF Send
<1>4. Grows(rs, Append(rs, q), forms)
  BY <1>1, <1>2, SameGrows, AppendGrows
<1> QED
  BY <1>1, <1>3, <1>4

LEMMA PlainOrigin ==
    ASSUME NEW q, Plain(q)
    PROVE  \A rs, forms : Origin(q, rs, forms)
  BY DEF Plain, Origin

LEMMA DrawGrows ==
    ASSUME FrontendInv, NEW forms, NEW s \in 0..MaxId, NEW c, NEW p, NEW obs,
           NEW ts \in Seq(RequestSet), Grows(requests, ts, forms), Draw(s, c, p, ts, obs)
    PROVE  Grows(requests, requests', forms)
<1>1. PICK c2, view : requests' = Rebound(ts, s, c2, view)
  BY DEF Draw
<1>2. Follows(ts, Rebound(ts, s, c2, view)) /\ DOMAIN Rebound(ts, s, c2, view) = DOMAIN ts
  BY ReboundType
<1>3. PICK rs : rs = requests
  OBVIOUS
<1>4. Grows(rs, Rebound(ts, s, c2, view), forms)
  BY <1>2, <1>3, GrowsFollows
<1> QED
  BY <1>1, <1>3, <1>4

LEMMA BoardGrows ==
    ASSUME FrontendInv, NEW forms, NEW c, NEW f, NEW b, NEW ts \in Seq(RequestSet),
           NEW over, over = [i \in DOMAIN over |-> over[i]],
           Grows(requests, ts, forms), BoardDraws(c, f, b, ts, over)
    PROVE  Grows(requests, requests', forms)
<1>1. Follows(ts, requests') /\ DOMAIN requests' = DOMAIN ts
  BY BoardDrawsType
<1>2. PICK rs, us : rs = requests /\ us = requests'
  OBVIOUS
<1>3. Grows(rs, us, forms)
  BY <1>1, <1>2, GrowsFollows
<1> QED
  BY <1>2, <1>3

\* A page is drawn with the requests there are, forgotten by a dialog or not.
LEMMA GestureGrows ==
    ASSUME FrontendInv, NEW forms, NEW s \in 0..MaxId, NEW c, NEW p, NEW obs, NEW dialog,
           Draw(s, c, p, requests, obs) \/ Draw(s, c, p, Forget(requests, dialog), obs)
    PROVE  Grows(requests, requests', forms)
<1>1. PICK rs, ts : rs = requests /\ ts = Forget(rs, dialog)
  OBVIOUS
<1>2. rs \in Seq(RequestSet)
  BY <1>1, PanelKeeps DEF AllSound
<1>3. Follows(rs, ts) /\ DOMAIN ts = DOMAIN rs /\ ts \in Seq(RequestSet)
  BY <1>1, <1>2, ForgetType DEF Follows
<1>4. Grows(requests, rs, forms) /\ Grows(requests, ts, forms)
  BY <1>1, <1>3, SameGrows, FollowsGrows
<1>5. Draw(s, c, p, rs, obs) \/ Draw(s, c, p, ts, obs)
  BY <1>1 DEF Draw
<1> QED
  BY <1>2, <1>3, <1>4, <1>5, DrawGrows

LEMMA UnchangedGrows ==
    ASSUME UNCHANGED requests, NEW forms
    PROVE  Grows(requests, requests', forms)
<1>1. PICK rs : rs = requests
  OBVIOUS
<1> QED
  BY <1>1, SameGrows

LEMMA ReactsGrows ==
    ASSUME FrontendInv, NEW forms, NEW c, Reacts(c)
    PROVE  Grows(requests, requests', forms)
<1>1. PICK s, p, obs, b, over, rs : /\ s = shown /\ p = panel /\ obs = observed
                                    /\ b = board /\ over = overrides /\ rs = requests
  OBVIOUS
<1>2. s \in 0..MaxId /\ rs \in Seq(RequestSet)
  BY <1>1, PanelKeeps DEF AllSound
<1>3. CASE ViewReacts(c)
  <2>1. Draw(s, c, p, requests, obs)
    BY <1>1, <1>3 DEF ViewReacts, Draw
  <2> QED
    BY <1>2, <2>1, GestureGrows
<1>4. CASE BoardReacts(c)
  <2>1. PICK f : f = filter
    OBVIOUS
  <2>2. BoardDraws(c, f, b, rs, over)
    BY <1>1, <1>4, <2>1 DEF BoardReacts, BoardDraws
  <2>3. over = [i \in DOMAIN over |-> over[i]] /\ Grows(requests, rs, forms)
    BY <1>1, SameGrows DEF FrontendInv, TasksInv
  <2> QED
    BY <1>2, <2>2, <2>3, BoardGrows
<1> QED
  BY <1>3, <1>4 DEF Reacts, CanvasReacts

LEMMA PlainSend ==
    ASSUME FrontendInv, NEW forms, NEW q, Send(q), Plain(q)
    PROVE  Grows(requests, requests', forms)
  BY PlainOrigin, SendGrows

LEMMA PlainSends ==
    ASSUME FrontendInv, NEW forms,
           NEW op, NEW node, NEW other, NEW value, NEW by,
           op # "patch" \/ by # "dialog", op # "link" \/ by # "child",
           \/ Send(Request(op, node, other, value, by))
           \/ \E step, gap : Send([Request(op, node, other, value, by) EXCEPT !.step = step, !.gap = gap])
           \/ \E host : Send([Request(op, node, other, value, by) EXCEPT !.host = host])
    PROVE  Grows(requests, requests', forms)
<1> DEFINE base == Request(op, node, other, value, by)
<1>1. PICK q : Send(q) /\ q.op = op /\ q.by = by
  <2>1. base.op = op /\ base.by = by
    BY DEF Request
  <2>2. \A step, gap : [base EXCEPT !.step = step, !.gap = gap].op = base.op
                       /\ [base EXCEPT !.step = step, !.gap = gap].by = base.by
    BY DEF Request
  <2>3. \A host : [base EXCEPT !.host = host].op = base.op /\ [base EXCEPT !.host = host].by = base.by
    BY DEF Request
  <2> HIDE DEF base
  <2>4. CASE Send(base)
    BY <2>1, <2>4
  <2>5. CASE \E step, gap : Send([base EXCEPT !.step = step, !.gap = gap])
    <3>1. PICK step, gap, q : q = [base EXCEPT !.step = step, !.gap = gap] /\ Send(q)
      BY <2>5
    <3>2. q.op = op /\ q.by = by
      BY <2>1, <2>2, <3>1
    <3> QED
      BY <3>1, <3>2
  <2>6. CASE \E host : Send([base EXCEPT !.host = host])
    <3>1. PICK host, q : q = [base EXCEPT !.host = host] /\ Send(q)
      BY <2>6
    <3>2. q.op = op /\ q.by = by
      BY <2>1, <2>3, <3>1
    <3> QED
      BY <3>1, <3>2
  <2> QED
    BY <2>4, <2>5, <2>6 DEF base
<1>2. Plain(q)
  BY <1>1 DEF Plain
<1> QED
  BY <1>1, <1>2, PlainOrigin, SendGrows

LEMMA AsksGrows ==
    ASSUME FrontendInv, NEW forms, NEW op, NEW i, NEW j, NEW value,
           \/ Send(Asks(op, i, j, value))
           \/ \E gap : Send([Asks(op, i, j, value) EXCEPT !.gap = gap])
    PROVE  Grows(requests, requests', forms)
<1> DEFINE base == Asks(op, i, j, value)
<1>1. PICK q : Send(q) /\ q.by = "canvas"
  <2>1. base.by = "canvas" /\ \A gap : [base EXCEPT !.gap = gap].by = "canvas"
    BY DEF Asks, Request
  <2> HIDE DEF base
  <2>2. CASE Send(base)
    BY <2>1, <2>2
  <2>3. CASE \E gap : Send([base EXCEPT !.gap = gap])
    <3>1. PICK gap, q : q = [base EXCEPT !.gap = gap] /\ Send(q)
      BY <2>3
    <3> QED
      BY <2>1, <3>1
  <2> QED
    BY <2>2, <2>3 DEF base
<1>2. Plain(q)
  BY <1>1 DEF Plain
<1> QED
  BY <1>1, <1>2, PlainOrigin, SendGrows

\* The dialog sends what its form has then.
LEMMA SubmitGrows ==
    ASSUME FrontendInv, NEW forms, forms = FormRequests, SubmitForm
    PROVE  Grows(requests, requests', forms)
<1> DEFINE value == [f \in ChangedFields |-> Trim[panel.vals[f]]]
<1>1. CASE Send(Request("patch", shown, shown, value, "dialog"))
  <2>1. <<shown, value>> \in forms
    BY DEF SubmitForm, FormRequests
  <2> HIDE DEF value
  <2>4. PICK q : q = Request("patch", shown, shown, value, "dialog")
    OBVIOUS
  <2>5. q.op = "patch" /\ q.value = value /\ q.node = shown
    BY <2>4 DEF Request
  <2>6. Origin(q, requests, forms)
    BY <2>1, <2>5 DEF Origin
  <2>7. Send(q)
    BY <1>1, <2>4
  <2> QED
    BY <2>6, <2>7, SendGrows
<1>2. CASE Draw(shown, cache, [panel EXCEPT !.dialog = "none"], requests, observed)
  <2>1. PICK s, c, p, obs : /\ s = shown /\ c = cache /\ obs = observed
                            /\ p = [panel EXCEPT !.dialog = "none"]
    OBVIOUS
  <2>2. s \in 0..MaxId /\ Draw(s, c, p, requests, obs)
    BY <1>2, <2>1, PanelKeeps DEF Draw
  <2> QED
    BY <2>2, GestureGrows
<1> QED
  BY <1>1, <1>2 DEF SubmitForm

LEMMA ViewGestureGrows ==
    ASSUME FrontendInv, NEW forms, forms = FormRequests, ViewGesture
    PROVE  Grows(requests, requests', forms)
<1>1. PICK s0, c, obs : s0 = shown /\ c = cache /\ obs = observed
  OBVIOUS
<1>2. s0 \in 0..MaxId /\ Targets \cup {0} \subseteq 0..MaxId
  BY <1>1, PanelKeeps, ZeroId, FrontendAssumption DEF Targets, FrontendInv, TablesInv
<1>3. CASE \/ \E i \in Targets \cup {0} : Open(i)
           \/ OpenEditor \/ CloseEditor \/ CloseDialog
           \/ \E dialog \in {"edit", "retype", "delete", "link", "create"} : OpenDialog(dialog)
  <2>1. PICK s, p, dialog :
           /\ s \in 0..MaxId
           /\ \/ Draw(s, c, p, requests, obs)
              \/ Draw(s, c, p, Forget(requests, dialog), obs)
    <3>1. CASE \E i \in Targets \cup {0} : Open(i)
      <4>1. PICK i \in 0..MaxId : Open(i)
        BY <1>2, <3>1
      <4> QED
        BY <1>1, <4>1 DEF Open
    <3>2. CASE OpenEditor
      BY <1>1, <1>2, <3>2 DEF OpenEditor
    <3>3. CASE CloseEditor
      BY <1>1, <1>2, <3>3 DEF CloseEditor
    <3>4. CASE CloseDialog
      BY <1>1, <1>2, <3>4 DEF CloseDialog
    <3>5. CASE \E dialog \in {"edit", "retype", "delete", "link", "create"} : OpenDialog(dialog)
      BY <1>1, <1>2, <3>5 DEF OpenDialog
    <3> QED
      BY <1>3, <3>1, <3>2, <3>3, <3>4, <3>5
  <2> QED
    BY <2>1, GestureGrows
<1>4. CASE \E t \in Typed : Save(t) \/ UploadFile(t)
  <2>1. PICK op, node, other, value, by :
           op = "upload" /\ Send(Request(op, node, other, value, by))
    BY <1>4 DEF Save, UploadFile
  <2>2. (op # "patch" \/ by # "dialog") /\ (op # "link" \/ by # "child")
    BY <2>1
  <2> QED
    BY <2>1, <2>2, PlainSends, Zenon
<1>5. CASE \E field \in Fields, v \in Typed : TypeIn(field, v)
  BY <1>5, UnchangedGrows DEF TypeIn
<1>6. CASE SubmitForm
  BY <1>6, SubmitGrows
<1>7. CASE ConfirmDelete \/ AddChild
  <2>1. PICK op, node, other, value, by :
           op \in {"delete", "create"} /\ Send(Request(op, node, other, value, by))
    BY <1>7 DEF ConfirmDelete, AddChild
  <2> QED
    BY <2>1, PlainSends
<1>8. CASE \E j \in Targets : ConfirmLink(j) \/ Unlink(j)
  <2>1. PICK op, node, other, value, by :
           /\ op \in {"link", "unlink"} /\ by \in {"dialog", "row"}
           /\ Send(Request(op, node, other, value, by))
    BY <1>8 DEF ConfirmLink, Unlink
  <2> QED
    BY <2>1, PlainSends
<1> QED
  BY <1>3, <1>4, <1>5, <1>6, <1>7, <1>8 DEF ViewGesture

LEMMA CanvasGestureGrows ==
    ASSUME FrontendInv, NEW forms, CanvasGesture
    PROVE  Grows(requests, requests', forms)
<1>1. page = "workspace" /\ CanvasInv /\ AllSound(requests)
  BY PanelKeeps DEF CanvasGesture
<1>2. CASE \/ \E b \in DOMAIN Area : Pan(b)
           \/ \E i \in NodeIds : DragStart(i)
           \/ \E p \in Places : PaneClick(p)
  BY <1>2, UnchangedGrows DEF Pan, DragStart, PaneClick
<1>3. CASE \/ \E i \in NodeIds, p \in Places : DragStop(i, p)
           \/ \E i, j \in NodeIds : Connect(i, j)
           \/ \E e \in Pairs : Undo(e)
  <2>1. CASE \E i \in NodeIds, p \in Places : DragStop(i, p)
    BY <2>1, AsksGrows DEF DragStop
  <2>2. CASE \E i, j \in NodeIds : Connect(i, j)
    BY <2>2, AsksGrows DEF Connect
  <2>3. CASE \E e \in Pairs : Undo(e)
    <3>1. PICK i, j, gap : Send([Asks("link", i, j, <<>>) EXCEPT !.gap = gap])
      BY <2>3 DEF Undo
    <3> QED
      BY <3>1, AsksGrows
  <2> QED
    BY <1>3, <2>1, <2>2, <2>3
<1>4. ASSUME NEW gone \in SUBSET Pairs, EdgesDeleted(gone)
      PROVE  Grows(requests, requests', forms)
  <2>1. /\ Follows(requests, requests')
        /\ \A r \in DOMAIN requests' \ DOMAIN requests : requests'[r].by = "canvas"
    BY <1>1, <1>4, EdgesDeletedType
  <2>2. \A r \in DOMAIN requests' \ DOMAIN requests : Origin(requests'[r], requests, forms)
    BY <2>1 DEF Origin
  <2> QED
    BY <2>1, <2>2 DEF Grows, Follows
<1>5. CASE \/ \E e \in Pairs : DeleteEdge(e)
           \/ \E i \in NodeIds : DeleteCard(i)
  <2>1. PICK gone \in SUBSET Pairs : EdgesDeleted(gone)
    BY <1>1, <1>5 DEF DeleteEdge, DeleteCard, CanvasInv
  <2> QED
    BY <1>4, <2>1
<1>6. CASE CancelCreate
  <2>1. PICK rs : rs = requests
    OBVIOUS
  <2>2. requests' = Forget(rs, "create") /\ rs \in Seq(RequestSet)
    BY <1>1, <1>6, <2>1 DEF CancelCreate, AllSound
  <2>3. Grows(rs, Forget(rs, "create"), forms)
    BY <2>2, ForgetType, FollowsGrows
  <2> QED
    BY <2>1, <2>2, <2>3
<1>7. CASE SubmitCreate \/ \E p \in Places : DropFile(p)
  <2>1. \A value, by, host : [Request("create", 0, 0, value, by) EXCEPT !.host = host].op = "create"
    BY DEF Request
  <2>2. PICK value, by, host, q :
           /\ Send(q)
           /\ \/ q = Request("create", 0, 0, value, by)
              \/ q = [Request("create", 0, 0, value, by) EXCEPT !.host = host]
    BY <1>7 DEF SubmitCreate, DropFile
  <2>3. q.op = "create"
    BY <2>1, <2>2 DEF Request
  <2> QED
    BY <2>2, <2>3, PlainSend DEF Plain
<1> QED
  BY <1>2, <1>3, <1>5, <1>6, <1>7 DEF CanvasGesture

LEMMA TaskGestureGrows ==
    ASSUME FrontendInv, NEW forms, TaskGesture
    PROVE  Grows(requests, requests', forms)
<1>1. PICK rs, over : rs = requests /\ over = overrides
  OBVIOUS
<1>2. rs \in Seq(RequestSet) /\ over = [i \in DOMAIN over |-> over[i]]
      /\ Grows(requests, rs, forms)
  BY <1>1, PanelKeeps, SameGrows DEF AllSound, FrontendInv, TasksInv
<1>3. ASSUME NEW c, NEW f, NEW b, BoardDraws(c, f, b, rs, over)
      PROVE  Grows(requests, requests', forms)
  BY <1>2, <1>3, BoardGrows
<1>4. CASE \E f \in Filters : toggleStatus(f)
  <2>1. PICK c, f, b : BoardDraws(c, f, b, rs, over)
    BY <1>1, <1>4 DEF toggleStatus
  <2> QED
    BY <1>3, <2>1
<1>5. CASE handleViewChange
  <2>1. PICK c, f, b : BoardDraws(c, f, b, rs, over)
    BY <1>1, <1>5 DEF handleViewChange
  <2> QED
    BY <1>3, <2>1
<1>6. CASE \E i \in NodeIds, s \in Values : Drop(i, s)
  <2>1. PICK i, value : Send(Request("patch", i, i, value, "board"))
    BY <1>6 DEF Drop
  <2>2. PICK q : q = Request("patch", i, i, value, "board")
    OBVIOUS
  <2>3. q.by = "board"
    BY <2>2 DEF Request
  <2> QED
    BY <2>1, <2>2, <2>3, PlainSend DEF Plain
<1>7. CASE OpenCreateTask
  BY <1>7, UnchangedGrows DEF OpenCreateTask
<1>8. CASE CloseCreateTask
  <2> DEFINE ts == [r \in DOMAIN rs |-> IF rs[r].by = "task" THEN [rs[r] EXCEPT !.host = "detached"]
                                        ELSE rs[r]]
  <2>1. requests' = ts
    BY <1>1, <1>8 DEF CloseCreateTask
  <2>2. ASSUME NEW r \in DOMAIN rs PROVE Kin(rs[r], ts[r]) /\ Further(rs[r], ts[r])
    <3> DEFINE d == [rs[r] EXCEPT !.host = "detached"]
    <3>1. rs[r] \in RequestSet
      BY <1>2, RequestSeq
    <3>2. ts[r] \in {rs[r], d}
      OBVIOUS
    <3>3. Kin(rs[r], d) /\ Kin(rs[r], rs[r]) /\ d.step = rs[r].step
      BY <3>1 DEF RequestSet, Kin
    <3> HIDE DEF ts, d
    <3> QED
      BY <3>2, <3>3 DEF Further
  <2>3. DOMAIN ts = DOMAIN rs
    OBVIOUS
  <2> HIDE DEF ts
  <2>4. Grows(rs, ts, forms)
    BY <2>2, <2>3 DEF Grows
  <2> QED
    BY <1>1, <2>1, <2>4
<1>9. CASE SubmitTask
  <2>1. PICK q, value : Send(q) /\ q = Request("create", 0, Group, value, "task")
    BY <1>9 DEF SubmitTask
  <2>2. q.op = "create"
    BY <2>1 DEF Request
  <2> QED
    BY <2>1, <2>2, PlainSend DEF Plain
<1> QED
  BY <1>4, <1>5, <1>6, <1>7, <1>8, <1>9 DEF TaskGesture

\* The requests when the callbacks of r are through, with one more or not.
LEMMA DoneGrows ==
    ASSUME FrontendInv, NEW forms, NEW r \in DOMAIN requests
    PROVE  Grows(requests, Done(r), forms) /\ Done(r) \in Seq(RequestSet)
<1>1. requests \in Seq(RequestSet)
  BY PanelKeeps DEF AllSound
<1>2. Follows(requests, Done(r)) /\ DOMAIN Done(r) = DOMAIN requests
  BY <1>1, DoneType
<1>3. PICK rs, ts : rs = requests /\ ts = Done(r)
  OBVIOUS
<1>4. Grows(rs, ts, forms)
  BY <1>2, <1>3, FollowsGrows
<1> QED
  BY <1>2, <1>3, <1>4 DEF Follows

LEMMA ViewSettlesGrows ==
    ASSUME FrontendInv, NEW forms, NEW r \in DOMAIN requests, ViewSettles(r)
    PROVE  Grows(requests, requests', forms)
<1>1. PICK q, old, dialog : q = requests[r] /\ old = Done(r) /\ dialog = panel.dialog
  OBVIOUS
<1>2. PICK s, c, p, obs, rs, ts :
         /\ s = NextShown(q) /\ Draw(s, c, p, ts, obs)
         /\ rs = old \/ rs = Forget(old, dialog)
         /\ ts = IF q.step = "ok" /\ q.op = "create" THEN Append(rs, handleChildCreated(q)) ELSE rs
         /\ q.by \in Views
  <2> DEFINE q1 == requests[r]
             ok == q1.step = "ok"
             closes == ok /\ q1.host # "left" /\ panel.dialog = DialogOf(q1)
             saved == ok /\ q1.by = "editor" /\ page = "wiki" /\ q1.host = "mounted"
             removed == IF ok /\ q1.op = "delete" THEN {<<"node", q1.key>>, <<"content", q1.key>>} ELSE {}
             rs1 == IF closes THEN Forget(Done(r), panel.dialog) ELSE Done(r)
             p1 == [panel EXCEPT !.dialog = IF closes THEN "none" ELSE @,
                                 !.edit = @ /\ ~saved, !.compose = @ /\ ~saved]
             ts1 == IF ok /\ q1.op = "create" THEN Append(rs1, handleChildCreated(q1)) ELSE rs1
  <2>1. Draw(NextShown(q1), Settled(cache, q1), p1, ts1, observed \ removed) /\ q1.by \in Views
    BY DEF ViewSettles, Views
  <2>2. rs1 = Done(r) \/ rs1 = Forget(Done(r), panel.dialog)
    OBVIOUS
  <2>3. ts1 = IF q1.step = "ok" /\ q1.op = "create" THEN Append(rs1, handleChildCreated(q1)) ELSE rs1
    OBVIOUS
  <2> HIDE DEF p1, ts1, rs1, removed
  <2> QED
    BY <1>1, <2>1, <2>2, <2>3
<1>3. /\ Grows(requests, old, forms) /\ old \in Seq(RequestSet)
      /\ q \in RequestSet /\ Sound(q, page, Born)
  BY <1>1, DoneGrows, SoundDone
<1>4. PICK rq : rq = requests
  OBVIOUS
<1>5. rs \in Seq(RequestSet) /\ Grows(rq, rs, forms)
  <2>1. Follows(old, Forget(old, dialog)) /\ DOMAIN Forget(old, dialog) = DOMAIN old
    BY <1>3, ForgetType
  <2>2. Grows(rq, Forget(old, dialog), forms) /\ Forget(old, dialog) \in Seq(RequestSet)
    BY <1>3, <1>4, <2>1, GrowsFollows DEF Follows
  <2> QED
    BY <1>2, <1>3, <1>4, <2>2
<1>6. ts \in Seq(RequestSet) /\ Grows(rq, ts, forms)
  <2>1. CASE q.step = "ok" /\ q.op = "create"
    <3> DEFINE child == handleChildCreated(q)
    <3>1. child.op = "link" /\ child.by = "child" /\ child.other = q.node /\ child.node = q.other
      BY DEF handleChildCreated, Request
    <3> HIDE DEF child
    <3>2. Origin(child, rq, forms)
      BY <1>1, <1>4, <2>1, <3>1 DEF Origin
    <3>3. ts = Append(rs, child)
      BY <1>2, <2>1 DEF child
    <3>4. Grows(rq, ts, forms)
      BY <1>5, <3>2, <3>3, AppendGrows
    <3>5. AllSound(rs)
      <4>1. AllSound(old) /\ (rs = old \/ rs = Forget(old, dialog))
        BY <1>1, <1>2, SoundDone
      <4>2. AllSound(Forget(old, dialog))
        BY <1>3, <4>1, ForgetType, SoundFollows
      <4> QED
        BY <4>1, <4>2
    <3>6. AllSound(ts)
      BY <1>2, <1>3, <2>1, <3>5, SoundNext
    <3> QED
      BY <3>4, <3>6 DEF AllSound
  <2>2. CASE ~(q.step = "ok" /\ q.op = "create")
    BY <1>2, <1>5, <2>2
  <2> QED
    BY <2>1, <2>2
<1>7. s \in 0..MaxId
  BY <1>2, <1>3, PanelKeeps, ZeroId DEF NextShown, RequestSet
<1> QED
  BY <1>2, <1>4, <1>6, <1>7, DrawGrows

LEMMA CanvasSettlesGrows ==
    ASSUME FrontendInv, NEW forms, NEW r \in DOMAIN requests, CanvasSettles(r)
    PROVE  Grows(requests, requests', forms)
<1>1. PICK q, old : q = requests[r] /\ old = Done(r)
  OBVIOUS
<1>2. PICK s, c, p, obs, ts :
         /\ Draw(s, c, p, ts, obs) /\ s \in {q.node, shown}
         /\ ts = IF q.step = "ok" /\ q.op = "create" /\ q.by = "drop"
                 THEN Append(old, Request("raw", q.node, q.node, [text |-> Created.name], "drop"))
                 ELSE old
  BY <1>1 DEF CanvasSettles
<1>3. /\ Grows(requests, old, forms) /\ old \in Seq(RequestSet) /\ AllSound(old)
      /\ q \in RequestSet /\ Sound(q, page, Born)
  BY <1>1, DoneGrows, SoundDone
<1>4. s \in 0..MaxId
  BY <1>2, <1>3, PanelKeeps DEF RequestSet
<1>5. ts \in Seq(RequestSet)
  BY <1>2, <1>3, SoundNext DEF AllSound
<1>6. Grows(requests, ts, forms)
  <2>1. PICK rq, raw : /\ rq = requests
                       /\ raw = Request("raw", q.node, q.node, [text |-> Created.name], "drop")
    OBVIOUS
  <2>2. raw.op = "raw"
    BY <2>1 DEF Request
  <2>3. Grows(rq, Append(old, raw), forms)
    BY <1>3, <2>1, <2>2, PlainOrigin, AppendGrows DEF Plain
  <2> QED
    BY <1>2, <1>3, <2>1, <2>3
<1> QED
  BY <1>2, <1>4, <1>5, <1>6, DrawGrows

LEMMA BoardSettlesGrows ==
    ASSUME FrontendInv, NEW forms, NEW r \in DOMAIN requests, DropSettles(r) \/ TaskSettles(r)
    PROVE  Grows(requests, requests', forms)
<1>1. PICK q, old : q = requests[r] /\ old = Done(r)
  OBVIOUS
<1>2. /\ Grows(requests, old, forms) /\ old \in Seq(RequestSet) /\ AllSound(old)
      /\ q \in RequestSet /\ Sound(q, page, Born)
  BY <1>1, DoneGrows, SoundDone
<1>3. overrides = [i \in DOMAIN overrides |-> overrides[i]]
  BY DEF FrontendInv, TasksInv
<1>4. CASE DropSettles(r)
  <2>1. PICK gone : gone = Reverted(q)
    OBVIOUS
  <2>2. PICK over : over = [i \in DOMAIN overrides \ gone |-> overrides[i]]
    OBVIOUS
  <2>3. PICK c, f, b : BoardDraws(c, f, b, old, over)
    BY <1>1, <1>4, <2>1, <2>2 DEF DropSettles
  <2>4. over = [i \in DOMAIN over |-> over[i]]
    BY <2>2
  <2> QED
    BY <1>2, <2>3, <2>4, BoardGrows
<1>5. CASE TaskSettles(r)
  <2>1. PICK ts, over : /\ ts = IF q.step = "ok" /\ q.op = "create" THEN old \o LinkTask(q) ELSE old
                        /\ over = overrides
    OBVIOUS
  <2>2. PICK c, f, b : BoardDraws(c, f, b, ts, over) /\ q.by = "task"
    BY <1>1, <1>5, <2>1 DEF TaskSettles
  <2>3. AllSound(ts)
    BY <1>2, <2>1, <2>2, SoundNext
  <2>4. Grows(requests, ts, forms)
    <3>1. PICK rq, link : rq = requests /\ LinkTask(q) = <<link>> /\ link.by = "task"
      <4> DEFINE base == Request("link", q.node, q.other, <<>>, "task")
                 p == [base EXCEPT !.host = q.host]
      <4>1. LinkTask(q) = <<p>>
        BY DEF LinkTask
      <4>2. p.by = "task"
        BY DEF Request
      <4> HIDE DEF p
      <4> QED
        BY <4>1, <4>2
    <3>2. old \o <<link>> = Append(old, link)
      <4>1. old \in Seq(RequestSet \cup {link})
        <5>1. DOMAIN old = 1..Len(old) /\ Len(old) \in Nat
              /\ old \in [1..Len(old) -> RequestSet \cup {link}]
          BY <1>2, RequestSeq
        <5> QED
          BY <5>1, SeqDef
      <4> QED
        BY <4>1
    <3>3. Grows(rq, Append(old, link), forms)
      BY <1>2, <3>1, PlainOrigin, AppendGrows DEF Plain
    <3> QED
      BY <1>2, <2>1, <3>1, <3>2, <3>3
  <2> QED
    BY <1>3, <2>1, <2>2, <2>3, <2>4, BoardGrows DEF AllSound
<1> QED
  BY <1>4, <1>5

\* Whatever happens, except at the API, the requests there are go on, and a
\* new one has its origin.
LEMMA StepGrows ==
    ASSUME FrontendInv, NEW forms, forms = FormRequests, Next, ~API
    PROVE  Grows(requests, requests', forms)
<1>1. CASE Cache
  <2>1. PICK c : Reacts(c)
    BY <1>1 DEF Cache, Arrives, FetchFails, TimePasses, Refocus
  <2> QED
    BY <2>1, ReactsGrows
<1>2. CASE FilterGesture \/ BoardRedraws
  BY <1>2, UnchangedGrows DEF FilterGesture, BoardRedraws
<1>3. CASE OtherUsers
  <2>1. PICK i, v : OtherUser(i, "status", v)
    BY <1>3 DEF OtherUsers
  <2>2. PICK value : value = [f \in {"status"} |-> v]
    OBVIOUS
  <2>3. PICK q : q = [Request("patch", i, i, value, "other") EXCEPT !.step = "done", !.gap = TRUE]
    OBVIOUS
  <2>4. Send(q)
    BY <2>1, <2>2, <2>3 DEF OtherUser
  <2>5. q.by = "other"
    BY <2>3 DEF Request
  <2> QED
    BY <2>4, <2>5, PlainSend DEF Plain
<1>4. CASE \E r \in DOMAIN requests : Callback(r)
  BY <1>4, ViewSettlesGrows, CanvasSettlesGrows, BoardSettlesGrows DEF Callback, PanelSettles
<1> QED
  BY <1>1, <1>2, <1>3, <1>4, ViewGestureGrows, CanvasGestureGrows, TaskGestureGrows DEF Next

\* What the API does to a request it answers: only a creation gets a node.
LEMMA AnsweredStep ==
    ASSUME FrontendInv, NEW r \in DOMAIN requests, Execute(r) \/ Lose(r)
    PROVE  /\ DOMAIN requests' = DOMAIN requests
           /\ \A o \in DOMAIN requests \ {r} : requests'[o] = requests[o]
           /\ requests'[r].op = requests[r].op /\ requests'[r].by = requests[r].by
           /\ requests'[r].other = requests[r].other
           /\ requests[r].op = "create" \/ requests'[r].node = requests[r].node
           /\ requests'[r].host = requests[r].host
           /\ requests'[r].step \in {"ok", "linked", "refused", "lost"}
           /\ Execute(r) => requests[r].step = "sent"
           /\ Lose(r) => requests'[r].node = requests[r].node
<1> DEFINE q == requests[r]
<1>1. q \in RequestSet /\ requests = [o \in DOMAIN requests |-> requests[o]]
  <2>1. requests \in Seq(RequestSet)
    BY PanelKeeps DEF AllSound
  <2> QED
    BY <2>1, RequestSeq
<1>2. CASE Execute(r)
  <2>1. \/ \E step \in {"ok", "linked", "refused"} : requests' = [requests EXCEPT ![r].step = step]
        \/ /\ q.op = "create"
           /\ requests' = [requests EXCEPT ![r].step = "ok", ![r].node = issued + 1,
                                           ![r].key = issued + 1]
    BY <1>2 DEF Execute
  <2>2. CASE \E step \in {"ok", "linked", "refused"} : requests' = [requests EXCEPT ![r].step = step]
    <3>1. PICK step \in {"ok", "linked", "refused"} : requests' = [requests EXCEPT ![r].step = step]
      BY <2>2
    <3>2. q.step = "sent"
      BY <1>2 DEF Execute
    <3>3. Lose(r) => requests'[r].node = q.node
      BY <1>1, <3>1 DEF RequestSet
    <3> QED
      BY <1>1, <3>1, <3>2, <3>3 DEF RequestSet
  <2>3. CASE /\ q.op = "create"
             /\ requests' = [requests EXCEPT ![r].step = "ok", ![r].node = issued + 1,
                                             ![r].key = issued + 1]
    <3>1. q.step = "sent"
      BY <1>2 DEF Execute
    <3>2. Lose(r) => requests'[r].node = q.node
      BY <1>1 DEF Lose, RequestSet
    <3> QED
      BY <1>1, <2>3, <3>1, <3>2 DEF RequestSet
  <2> QED
    BY <2>1, <2>2, <2>3
<1>3. CASE ~Execute(r) /\ Lose(r)
  <2>1. PICK gap \in BOOLEAN :
           requests' = [requests EXCEPT ![r].step = "lost", ![r].gap = gap]
    BY <1>3 DEF Lose
  <2> QED
    BY <1>1, <1>3, <2>1 DEF RequestSet
<1> QED
  BY <1>2, <1>3

\* At the API no request is new.
LEMMA ApiDomain ==
    ASSUME FrontendInv, API
    PROVE  DOMAIN requests' = DOMAIN requests
<1>1. CASE \E r \in DOMAIN requests : Execute(r) \/ Lose(r)
  BY <1>1, AnsweredStep
<1>2. CASE \E k \in observed : Serve(k)
  BY <1>2 DEF Serve
<1> QED
  BY <1>1, <1>2 DEF API

\* Request q is one that the open form may send.
FormShows(q) ==
    q.op = "patch" /\ q.by = "dialog"
        => /\ q.node = shown
           /\ \A f \in DOMAIN q.value \ panel.touched :
                 LET field == NodeData(shown, cache)[f] IN
                 /\ q.value[f] = Trim[field]
                 /\ \/ Trim[field] # field
                    \/ f = "status" /\ Trim[field] = Absent

LEMMA FormsStep ==
    ASSUME FrontendInv, Next, NEW r \in DOMAIN requests' \ DOMAIN requests
    PROVE  FormShows(requests'[r])
<1>1. ~API
  BY ApiDomain
<1>2. PICK forms, q : forms = FormRequests /\ q = requests'[r]
  OBVIOUS
<1>3. Grows(requests, requests', forms)
  BY <1>1, <1>2, StepGrows
<1>4. q.op = "patch" /\ q.by = "dialog" => <<q.node, q.value>> \in forms
  BY <1>2, <1>3 DEF Grows, Origin
<1> SUFFICES ASSUME q.op = "patch", q.by = "dialog" PROVE FormShows(q)
  BY <1>2 DEF FormShows
<1>5. PICK value : value = [f \in ChangedFields |-> Trim[panel.vals[f]]]
  OBVIOUS
<1>6. q.node = shown /\ q.value = value /\ Body(shown, cache)
  BY <1>2, <1>4, <1>5 DEF FormRequests
<1>7. FormFits(shown, cache, panel)
  BY DEF FrontendInv, ViewsInv
<1>8. ASSUME NEW f \in DOMAIN value \ panel.touched
      PROVE  /\ value[f] = Trim[NodeData(shown, cache)[f]]
             /\ \/ Trim[NodeData(shown, cache)[f]] # NodeData(shown, cache)[f]
                \/ f = "status" /\ Trim[NodeData(shown, cache)[f]] = Absent
  <2>1. f \in ChangedFields /\ value[f] = Trim[panel.vals[f]]
    BY <1>5
  <2>2. panel.vals[f] = NodeData(shown, cache)[f]
    BY <1>6, <1>7, <2>1 DEF FormFits, ChangedFields
  <2> QED
    BY <2>1, <2>2 DEF ChangedFields
<1> QED
  BY <1>6, <1>8 DEF FormShows

\* FormsSendWhatIsShown: whatever else is under way, a dialog (EditNodeDialog,
\* RetypeNodeDialog) sends nothing of a field its user has not typed in but what
\* the cache shows of the node by then, and that only if the code takes it for
\* changed: spaces around it, or a status that is not there.
THEOREM FormsSendWhatIsShownAlways == Spec => FormsSendWhatIsShown
<1>1. FrontendInv /\ [Next]_vars
      => [\A r \in DOMAIN requests' \ DOMAIN requests : FormShows(requests'[r])]_vars
  BY FormsStep
<1>2. [\A r \in DOMAIN requests' \ DOMAIN requests : FormShows(requests'[r])]_vars
      => [\A r \in DOMAIN requests' \ DOMAIN requests :
             requests'[r].op = "patch" /\ requests'[r].by = "dialog"
                 => /\ requests'[r].node = shown
                    /\ \A f \in DOMAIN requests'[r].value \ panel.touched :
                          LET field == NodeData(shown, cache)[f] IN
                          /\ requests'[r].value[f] = Trim[field]
                          /\ \/ Trim[field] # field
                             \/ f = "status" /\ Trim[field] = Absent]_vars
  BY DEF FormShows
<1> QED
  BY <1>1, <1>2, InitInv, StepInv, PTL DEF Spec, FormsSendWhatIsShown

-----------------------------------------------------------------------------
(* A page that is added hangs under the page its dialog was opened on      *)

\* The creation a child's link goes back to is past the API: nothing can give
\* it another node any more.
ChildInv ==
    \A r \in DOMAIN requests :
        requests[r].op = "link" /\ requests[r].by = "child"
            => \E o \in DOMAIN requests : /\ requests[o].op = "create"
                                          /\ requests[o].step # "sent"
                                          /\ requests[o].node = requests[r].other
                                          /\ requests[o].other = requests[r].node

LEMMA ChildGrows ==
    ASSUME ChildInv, NEW forms, Grows(requests, requests', forms)
    PROVE  ChildInv'
<1>1. PICK rs, ts : rs = requests /\ ts = requests'
  OBVIOUS
<1>2. Grows(rs, ts, forms)
  BY <1>1
<1>3. ASSUME NEW r \in DOMAIN ts, ts[r].op = "link", ts[r].by = "child"
      PROVE  \E o \in DOMAIN ts : /\ ts[o].op = "create" /\ ts[o].step # "sent"
                                  /\ ts[o].node = ts[r].other /\ ts[o].other = ts[r].node
  <2>1. PICK o \in DOMAIN rs : /\ rs[o].op = "create" /\ rs[o].step # "sent"
                               /\ rs[o].node = ts[r].other /\ rs[o].other = ts[r].node
    <3>1. CASE r \in DOMAIN rs
      <4>1. rs[r].op = "link" /\ rs[r].by = "child" /\ rs[r].other = ts[r].other
            /\ rs[r].node = ts[r].node
        BY <1>2, <1>3, <3>1 DEF Grows, Kin
      <4> QED
        BY <1>1, <3>1, <4>1 DEF ChildInv
    <3>2. CASE r \notin DOMAIN rs
      <4>1. Origin(ts[r], rs, forms)
        BY <1>2, <1>3, <3>2 DEF Grows
      <4> QED
        BY <1>3, <4>1 DEF Origin
    <3> QED
      BY <3>1, <3>2
  <2>2. o \in DOMAIN ts /\ Kin(rs[o], ts[o]) /\ Further(rs[o], ts[o])
    BY <1>2, <2>1 DEF Grows
  <2>3. ts[o].op = "create" /\ ts[o].step # "sent" /\ ts[o].node = rs[o].node
        /\ ts[o].other = rs[o].other
    BY <2>1, <2>2 DEF Kin, Further
  <2> QED
    BY <2>1, <2>2, <2>3
<1> QED
  BY <1>1, <1>3 DEF ChildInv

LEMMA ChildAnswered ==
    ASSUME FrontendInv, ChildInv, NEW r \in DOMAIN requests, Execute(r) \/ Lose(r)
    PROVE  ChildInv'
<1>1. PICK rs, ts : rs = requests /\ ts = requests'
  OBVIOUS
<1>2. /\ DOMAIN ts = DOMAIN rs /\ r \in DOMAIN rs
      /\ \A o \in DOMAIN rs \ {r} : ts[o] = rs[o]
      /\ ts[r].op = rs[r].op /\ ts[r].by = rs[r].by /\ ts[r].other = rs[r].other
      /\ rs[r].op = "create" \/ ts[r].node = rs[r].node
      /\ ts[r].step # "sent"
      /\ rs[r].step = "sent" \/ ts[r].node = rs[r].node
  BY <1>1, AnsweredStep
<1>3. ASSUME NEW c \in DOMAIN ts, ts[c].op = "link", ts[c].by = "child"
      PROVE  \E o \in DOMAIN ts : /\ ts[o].op = "create" /\ ts[o].step # "sent"
                                  /\ ts[o].node = ts[c].other /\ ts[o].other = ts[c].node
  <2>1. rs[c].op = "link" /\ rs[c].by = "child" /\ rs[c].other = ts[c].other
        /\ rs[c].node = ts[c].node
    BY <1>2, <1>3
  <2>2. PICK o \in DOMAIN rs : /\ rs[o].op = "create" /\ rs[o].step # "sent"
                               /\ rs[o].node = ts[c].other /\ rs[o].other = ts[c].node
    BY <1>1, <1>2, <1>3, <2>1 DEF ChildInv
  <2>3. ts[o].op = "create" /\ ts[o].step # "sent" /\ ts[o].node = rs[o].node
        /\ ts[o].other = rs[o].other
    BY <1>2, <2>2
  <2> QED
    BY <1>2, <2>2, <2>3
<1> QED
  BY <1>1, <1>3 DEF ChildInv

LEMMA ChildStep == FrontendInv /\ ChildInv /\ [Next]_vars => ChildInv'
<1> SUFFICES ASSUME FrontendInv, ChildInv, [Next]_vars PROVE ChildInv'
  OBVIOUS
<1>1. CASE UNCHANGED requests
  BY <1>1 DEF ChildInv
<1>2. CASE Next /\ ~API
  <2>1. PICK forms : forms = FormRequests
    OBVIOUS
  <2>2. Grows(requests, requests', forms)
    BY <1>2, <2>1, StepGrows
  <2> QED
    BY <2>2, ChildGrows
<1>3. CASE API
  <2>1. CASE \E r \in DOMAIN requests : Execute(r) \/ Lose(r)
    BY <2>1, ChildAnswered
  <2>2. CASE \E k \in observed : Serve(k)
    BY <1>1, <2>2 DEF Serve
  <2> QED
    BY <1>3, <2>1, <2>2 DEF API
<1> QED
  BY <1>1, <1>2, <1>3 DEF vars

\* ChildOfItsPage: handleChildCreated of WikiPage links the page it has created under
\* the page the dialog was opened on, whatever has been opened or answered since.
THEOREM ChildOfItsPageAlways == Spec => []ChildOfItsPage
<1>1. Init => FrontendInv /\ ChildInv
  <2>1. Init => requests = <<>>
    BY DEF Init, QueriesInit
  <2>2. Init => ChildInv
    BY <2>1 DEF ChildInv
  <2> QED
    BY <2>2, InitInv
<1>2. FrontendInv /\ ChildInv /\ [Next]_vars => FrontendInv' /\ ChildInv'
  BY StepInv, ChildStep
<1>3. ChildInv => ChildOfItsPage
  BY DEF ChildInv, ChildOfItsPage
<1> QED
  BY <1>1, <1>2, <1>3, PTL DEF Spec

-----------------------------------------------------------------------------
(* The card under the mouse                                                *)

CardStays == \A i \in dragging \cap dragging' : i \in DOMAIN cards' /\ cards'[i] = cards[i]

LEMMA CanvasDrawsKeeps ==
    ASSUME FrontendInv, NEW c, NEW b, CanvasDraws(c, b)
    PROVE  CardStays
<1> DEFINE nodes == Listed(c, b)
           merged == reconcileNodes(nodes)
<1>1. dragging \subseteq DOMAIN cards
  BY DEF FrontendInv, CanvasInv
<1>2. cards' = cards \/ cards' = merged
  BY DEF CanvasDraws
<1>3. \A i \in dragging : i \in DOMAIN merged /\ merged[i] = cards[i]
  <2> HIDE DEF nodes
  <2> QED
    BY DEF reconcileNodes
<1> HIDE DEF merged
<1> QED
  BY <1>1, <1>2, <1>3 DEF CardStays

LEMMA CanvasStepStays ==
    ASSUME FrontendInv, CanvasGesture
    PROVE  CardStays
<1>1. dragging \subseteq DOMAIN cards
  BY DEF FrontendInv, CanvasInv
<1>2. CASE \E b \in DOMAIN Area : Pan(b)
  <2>1. PICK c, b : CanvasDraws(c, b)
    BY <1>2 DEF Pan
  <2> QED
    BY <2>1, CanvasDrawsKeeps
<1>3. CASE \E i \in NodeIds : DragStart(i)
  BY <1>1, <1>3 DEF DragStart, CardStays
<1>4. CASE \E i \in NodeIds, p \in Places : DragStop(i, p)
  BY <1>4 DEF DragStop, CardStays
<1>5. CASE \E i, j \in NodeIds : Connect(i, j)
  BY <1>1, <1>5 DEF Connect, CardStays
<1>6. CASE \E e \in Pairs : DeleteEdge(e) \/ Undo(e)
  BY <1>1, <1>6 DEF DeleteEdge, Undo, CardStays
<1>7. CASE \E i \in NodeIds : DeleteCard(i)
  BY <1>7 DEF DeleteCard, CardStays
<1>8. CASE (\E p \in Places : PaneClick(p) \/ DropFile(p)) \/ CancelCreate \/ SubmitCreate
  BY <1>1, <1>8 DEF PaneClick, DropFile, CancelCreate, SubmitCreate, CardStays, canvas
<1> QED
  BY <1>2, <1>3, <1>4, <1>5, <1>6, <1>7, <1>8 DEF CanvasGesture

LEMMA StepStays == FrontendInv /\ [Next]_vars => [CardStays]_vars
<1> SUFFICES ASSUME FrontendInv, Next PROVE CardStays
  OBVIOUS
<1>1. dragging \subseteq DOMAIN cards
  BY DEF FrontendInv, CanvasInv
<1>2. CASE UNCHANGED canvas
  BY <1>1, <1>2 DEF canvas, CardStays
<1>3. CASE \E c, b : CanvasDraws(c, b)
  BY <1>3, CanvasDrawsKeeps
<1>4. CASE Cache
  <2>1. PICK c : Reacts(c)
    BY <1>4 DEF Cache, Arrives, FetchFails, TimePasses, Refocus
  <2>2. UNCHANGED canvas \/ CanvasReacts(c)
    BY <2>1 DEF Reacts
  <2>3. CanvasReacts(c) => CanvasDraws(c, bounds)
    BY DEF CanvasReacts
  <2> QED
    BY <1>2, <1>3, <2>2, <2>3
<1>5. CASE CanvasGesture
  BY <1>5, CanvasStepStays
<1>6. CASE \/ API \/ ViewGesture \/ TaskGesture \/ FilterGesture \/ OtherUsers
           \/ BoardRedraws /\ UNCHANGED canvas
  <2>1. UNCHANGED canvas
    BY <1>6 DEF API, Others, ViewGesture, TaskGesture, FilterGesture, OtherUsers
  <2> QED
    BY <1>2, <2>1
<1>7. CASE \E r \in DOMAIN requests : Callback(r)
  <2>1. PICK r \in DOMAIN requests : Callback(r)
    BY <1>7
  <2>2. UNCHANGED canvas \/ PanelSettles(r) \/ CanvasSettles(r)
    BY <2>1 DEF Callback
  <2>3. PICK c, b : b = bounds /\ c = Settled(cache, requests[r])
    OBVIOUS
  <2>4. CanvasSettles(r) => CanvasDraws(c, b)
    BY <2>3 DEF CanvasSettles
  <2>5. PICK c2 : c2 = cache'
    OBVIOUS
  <2>6. PanelSettles(r) => CanvasDraws(c2, b)
    BY <2>3, <2>5 DEF PanelSettles, CanvasDraws
  <2> QED
    BY <1>2, <1>3, <2>2, <2>4, <2>6
<1> QED
  BY <1>4, <1>5, <1>6, <1>7 DEF Next

\* DraggedStays: reconcileNodes of WorkspaceCanvas keeps the card that is being dragged
\* where it is, and keeps it at all, whichever answer is merged.
THEOREM DraggedStaysAlways == Spec => DraggedStays
<1>1. Init => FrontendInv
  BY InitInv
<1>2. FrontendInv /\ [Next]_vars => FrontendInv'
  BY StepInv
<1>3. FrontendInv /\ [Next]_vars => [CardStays]_vars
  BY StepStays
<1>4. [][CardStays]_vars => DraggedStays
  <2>1. [CardStays]_vars => [\A i \in dragging \cap dragging' : i \in DOMAIN cards' /\ cards'[i] = cards[i]]_vars
    BY DEF CardStays
  <2> QED
    BY <2>1, PTL DEF DraggedStays
<1> QED
  BY <1>1, <1>2, <1>3, <1>4, PTL DEF Spec

-----------------------------------------------------------------------------
(* The statuses drawn on the board before they are there                   *)

\* A drop of task i is under way, and the board still listens to it.
Pends(rs, i) ==
    \E r \in DOMAIN rs : /\ InFlight(rs[r]) /\ rs[r].by = "board"
                         /\ rs[r].host = "mounted" /\ rs[r].node = i

\* What is left over after a step, by the requests and overrides there are then.
LEMMA LeftNow ==
    ASSUME NEW ts, NEW over, NEW L, requests' = ts, overrides' = over,
           \A i \in DOMAIN over \ L : Pends(ts, i)
    PROVE  Leftover' \subseteq L
  BY DEF Leftover, Dropped, Pends, InFlight

LEMMA SentInSeq ==
    ASSUME NEW rs \in Seq(RequestSet), NEW q
    PROVE  /\ DOMAIN Append(rs, q) = DOMAIN rs \cup {Len(rs) + 1}
           /\ \A r \in DOMAIN rs : Append(rs, q)[r] = rs[r]
           /\ Append(rs, q)[Len(rs) + 1] = q
<1>1. /\ DOMAIN rs = 1..Len(rs) /\ Len(rs) \in Nat
      /\ rs \in [1..Len(rs) -> RequestSet \cup {q}]
  BY RequestSeq
<1>2. rs \in Seq(RequestSet \cup {q})
  BY <1>1, SeqDef
<1>3. Append(rs, q) \in Seq(RequestSet \cup {q}) /\ Len(Append(rs, q)) = Len(rs) + 1
  BY <1>2
<1>4. DOMAIN Append(rs, q) = 1..(Len(rs) + 1)
  BY <1>3, LenProperties
<1>5. \A r \in DOMAIN rs : Append(rs, q)[r] = rs[r]
  BY <1>1, <1>2
<1>6. Append(rs, q)[Len(rs) + 1] = q
  BY <1>1, <1>2
<1> QED
  BY <1>1, <1>4, <1>5, <1>6

LEMMA PendsAppend ==
    ASSUME NEW rs \in Seq(RequestSet), NEW q, NEW i, Pends(rs, i)
    PROVE  Pends(Append(rs, q), i)
  BY SentInSeq DEF Pends

LEMMA BoardPends ==
    ASSUME NEW rs \in Seq(RequestSet), NEW c, NEW f, NEW b,
           NEW over, over = [i \in DOMAIN over |-> over[i]],
           NEW L, \A i \in DOMAIN over \ L : Pends(rs, i), BoardDraws(c, f, b, rs, over)
    PROVE  Leftover' \subseteq L
<1>1. overrides' = <<>> \/ (overrides' = over /\ requests' = rs)
  BY BoardDrawsType
<1>2. CASE overrides' = <<>>
  BY <1>2 DEF Leftover
<1>3. CASE overrides' = over /\ requests' = rs
  BY <1>3, LeftNow
<1> QED
  BY <1>1, <1>2, <1>3

\* On no other page anything is dropped.
LEMMA OtherPagesPend ==
    ASSUME FrontendInv, page # "tasks", UNCHANGED overrides
    PROVE  Leftover' \subseteq Leftover
<1>1. \A r \in DOMAIN requests : requests[r].by # "board"
  BY DEF FrontendInv, RequestsInv, AllSound, Sound
<1>2. Leftover = DOMAIN overrides
  BY <1>1 DEF Leftover, Dropped
<1>3. Leftover' \subseteq DOMAIN overrides'
  BY DEF Leftover
<1>4. DOMAIN overrides' = DOMAIN overrides
  OBVIOUS
<1> QED
  BY <1>2, <1>3, <1>4

LEMMA PendingNow ==
    ASSUME FrontendInv, NEW L, L = Leftover
    PROVE  /\ requests \in Seq(RequestSet)
           /\ overrides = [i \in DOMAIN overrides |-> overrides[i]]
           /\ \A i \in DOMAIN overrides \ L : Pends(requests, i)
  BY PanelKeeps DEF AllSound, FrontendInv, TasksInv, Leftover, Dropped, Pends

LEMMA AnsweredPend ==
    ASSUME FrontendInv, NEW L, L = Leftover, NEW r \in DOMAIN requests,
           Execute(r) \/ Lose(r), UNCHANGED overrides
    PROVE  Leftover' \subseteq L
<1>1. PICK rs, ts, over : rs = requests /\ ts = requests' /\ over = overrides
  OBVIOUS
<1>2. /\ DOMAIN ts = DOMAIN rs /\ r \in DOMAIN rs
      /\ \A o \in DOMAIN rs \ {r} : ts[o] = rs[o]
      /\ ts[r].by = rs[r].by /\ ts[r].host = rs[r].host
      /\ rs[r].op = "create" \/ ts[r].node = rs[r].node
      /\ InFlight(ts[r])
  BY <1>1, AnsweredStep DEF InFlight
<1>3. rs[r].by = "board" => rs[r].op = "patch"
  BY <1>1 DEF FrontendInv, RequestsInv, AllSound, Sound
<1>4. ASSUME NEW i \in DOMAIN over \ L PROVE Pends(ts, i)
  <2>1. Pends(rs, i)
    BY <1>1, PendingNow
  <2> QED
    BY <1>2, <1>3, <2>1 DEF Pends
<1> QED
  BY <1>1, <1>4, LeftNow

LEMMA TaskGesturePends ==
    ASSUME FrontendInv, NEW L, L = Leftover, TaskGesture,
           ~\E i \in NodeIds, s \in Values : Drop(i, s)
    PROVE  Leftover' \subseteq L
<1>1. PICK rs, over : rs = requests /\ over = overrides
  OBVIOUS
<1>2. /\ rs \in Seq(RequestSet) /\ over = [i \in DOMAIN over |-> over[i]]
      /\ \A i \in DOMAIN over \ L : Pends(rs, i)
  BY <1>1, PendingNow
<1>3. CASE (\E f \in Filters : toggleStatus(f)) \/ handleViewChange
  <2>1. PICK c, f, b : BoardDraws(c, f, b, rs, over)
    BY <1>1, <1>3 DEF toggleStatus, handleViewChange
  <2> QED
    BY <1>2, <2>1, BoardPends
<1>5. CASE OpenCreateTask
  <2>1. requests' = rs /\ overrides' = over
    BY <1>1, <1>5 DEF OpenCreateTask
  <2> QED
    BY <1>2, <2>1, LeftNow
<1>6. CASE CloseCreateTask
  <2>1. /\ requests' = [r \in DOMAIN rs |->
                          IF rs[r].by = "task" THEN [rs[r] EXCEPT !.host = "detached"] ELSE rs[r]]
        /\ overrides' = over
    BY <1>1, <1>6 DEF CloseCreateTask
  <2>2. PICK ts : ts = requests'
    OBVIOUS
  <2>3. DOMAIN ts = DOMAIN rs /\ \A r \in DOMAIN rs : rs[r].by = "board" => ts[r] = rs[r]
    BY <2>1, <2>2
  <2>4. \A i \in DOMAIN over \ L : Pends(ts, i)
    BY <1>2, <2>3 DEF Pends
  <2> QED
    BY <2>1, <2>2, <2>4, LeftNow
<1>7. CASE SubmitTask
  <2>1. PICK q : q = Request("create", 0, Group, Created, "task")
    OBVIOUS
  <2>2. requests' = Append(rs, q) /\ overrides' = over
    BY <1>1, <1>7, <2>1 DEF SubmitTask, Send, tasks
  <2>3. \A j \in DOMAIN over \ L : Pends(Append(rs, q), j)
    BY <1>2, PendsAppend
  <2>4. PICK ts : ts = Append(rs, q)
    OBVIOUS
  <2> QED
    BY <2>2, <2>3, <2>4, LeftNow
<1> QED
  BY <1>3, <1>5, <1>6, <1>7 DEF TaskGesture

\* A drop of task i brings back what was cleared and is still drawn, and no more.
LEMMA DropLeaves ==
    ASSUME FrontendInv, NEW L, L = Leftover, NEW i, NEW s, Drop(i, s),
           NEW j \in Leftover' \ L
    PROVE  /\ j \in DOMAIN drawn \ DOMAIN overrides
           /\ \E r \in DOMAIN requests' \ DOMAIN requests :
                 requests'[r].by = "board" /\ requests'[r].node # j
<1>1. PICK rs, over : rs = requests /\ over = overrides
  OBVIOUS
<1>2. rs \in Seq(RequestSet) /\ \A k \in DOMAIN over \ L : Pends(rs, k)
  BY <1>1, PendingNow
<1>3. PICK q : q = Request("patch", i, i, [status |-> s], "board")
  OBVIOUS
<1>4. q.step = "sent" /\ q.by = "board" /\ q.host = "mounted" /\ q.node = i
  BY <1>3 DEF Request
<1>5. PICK ts : ts = Append(rs, q)
  OBVIOUS
<1>6. requests' = ts /\ DOMAIN overrides' = DOMAIN drawn \cup {i}
  BY <1>1, <1>3, <1>5 DEF Drop, Send
<1>7. j \in DOMAIN drawn \cup {i} /\ ~Pends(ts, j)
  BY <1>6 DEF Leftover, Dropped, Pends, InFlight
<1>8. Pends(ts, i)
  BY <1>2, <1>4, <1>5, SentInSeq DEF Pends, InFlight
<1>9. \A k \in DOMAIN over \ L : Pends(ts, k)
  BY <1>2, <1>5, PendsAppend
<1>10. j # i /\ j \in DOMAIN drawn \ DOMAIN overrides
  BY <1>1, <1>7, <1>8, <1>9
<1>11. Len(rs) + 1 \in DOMAIN ts \ DOMAIN rs /\ ts[Len(rs) + 1] = q
  <2>1. DOMAIN rs = 1..Len(rs) /\ Len(rs) \in Nat
    BY <1>2, RequestSeq
  <2> QED
    BY <1>2, <1>5, <2>1, SentInSeq
<1> QED
  BY <1>1, <1>4, <1>6, <1>10, <1>11

LEMMA BoardSettlesPends ==
    ASSUME FrontendInv, NEW L, L = Leftover, NEW r \in DOMAIN requests,
           DropSettles(r) \/ TaskSettles(r)
    PROVE  Leftover' \subseteq L
<1>1. PICK q, rs, old, over0 : /\ q = requests[r] /\ rs = requests /\ old = Done(r)
                               /\ over0 = overrides
  OBVIOUS
<1>2. /\ rs \in Seq(RequestSet) /\ r \in DOMAIN rs /\ q = rs[r]
      /\ over0 = [i \in DOMAIN over0 |-> over0[i]]
      /\ \A i \in DOMAIN over0 \ L : Pends(rs, i)
  BY <1>1, PendingNow
<1>3. /\ old \in Seq(RequestSet) /\ DOMAIN old = DOMAIN rs
      /\ \A o \in DOMAIN rs \ {r} : old[o] = rs[o]
  BY <1>1, <1>2, DoneType DEF Follows
<1>4. CASE DropSettles(r)
  <2>1. PICK gone : gone = Reverted(q)
    OBVIOUS
  <2>2. PICK over : over = [i \in DOMAIN over0 \ gone |-> over0[i]]
    OBVIOUS
  <2>3. PICK c, f, b : BoardDraws(c, f, b, old, over)
    BY <1>1, <1>4, <2>1, <2>2 DEF DropSettles
  <2>4. over = [i \in DOMAIN over |-> over[i]] /\ DOMAIN over = DOMAIN over0 \ gone
    BY <2>2
  <2>5. ASSUME NEW i \in DOMAIN over \ L PROVE Pends(old, i)
    <3>1. i \in DOMAIN over0 \ L /\ i \notin gone
      BY <2>4, <2>5
    <3>2. PICK o \in DOMAIN rs : /\ InFlight(rs[o]) /\ rs[o].by = "board"
                                 /\ rs[o].host = "mounted" /\ rs[o].node = i
      BY <1>2, <3>1 DEF Pends
    <3>3. o # r
      BY <1>2, <2>1, <3>1, <3>2 DEF Reverted
    <3> QED
      BY <1>3, <3>2, <3>3 DEF Pends
  <2> QED
    BY <1>3, <2>3, <2>4, <2>5, BoardPends
<1>5. CASE TaskSettles(r)
  <2>1. PICK link : LinkTask(q) = <<link>>
    BY DEF LinkTask
  <2>2. PICK ts : ts = IF q.step = "ok" /\ q.op = "create" THEN old \o LinkTask(q) ELSE old
    OBVIOUS
  <2>3. PICK c, f, b : BoardDraws(c, f, b, ts, over0) /\ q.by = "task"
    BY <1>1, <1>5, <2>2 DEF TaskSettles
  <2>4. ASSUME NEW i \in DOMAIN over0 \ L PROVE Pends(old, i)
    <3>1. PICK o \in DOMAIN rs : /\ InFlight(rs[o]) /\ rs[o].by = "board"
                                 /\ rs[o].host = "mounted" /\ rs[o].node = i
      BY <1>2, <2>4 DEF Pends
    <3>2. o # r
      BY <1>2, <2>3, <3>1
    <3> QED
      BY <1>3, <3>1, <3>2 DEF Pends
  <2>5. ts \in {old, Append(old, link)}
    <3>1. old \o <<link>> = Append(old, link)
      <4>1. old \in Seq(RequestSet \cup {link})
        <5>1. DOMAIN old = 1..Len(old) /\ Len(old) \in Nat
              /\ old \in [1..Len(old) -> RequestSet \cup {link}]
          BY <1>3, RequestSeq
        <5> QED
          BY <5>1, SeqDef
      <4> QED
        BY <4>1
    <3> QED
      BY <2>1, <2>2, <3>1
  <2>6. \A i \in DOMAIN over0 \ L : Pends(ts, i)
    BY <1>3, <2>4, <2>5, PendsAppend
  <2>7. ts \in Seq(RequestSet)
    <3>1. AllSound(old) /\ Sound(q, page, Born) /\ q \in RequestSet
      BY <1>1, SoundDone
    <3>2. AllSound(ts)
      BY <1>1, <2>2, <2>3, <3>1, SoundNext
    <3> QED
      BY <3>2 DEF AllSound
  <2> QED
    BY <1>2, <2>3, <2>6, <2>7, BoardPends
<1> QED
  BY <1>4, <1>5

\* Nothing but a drop leaves a status over.
LEMMA StepPends ==
    ASSUME FrontendInv, NEW L, L = Leftover, Next,
           ~(TaskGesture /\ \E i \in NodeIds, s \in Values : Drop(i, s))
    PROVE  Leftover' \subseteq L
<1>1. CASE UNCHANGED <<requests, overrides>>
  <2>1. PICK rs, over : /\ rs = requests /\ over = overrides
                        /\ \A i \in DOMAIN over \ L : Pends(rs, i)
    BY PendingNow
  <2> QED
    BY <1>1, <2>1, LeftNow
<1>2. CASE API
  <2>1. UNCHANGED overrides
    BY <1>2 DEF API, Others, tasks
  <2>2. CASE \E r \in DOMAIN requests : Execute(r) \/ Lose(r)
    BY <2>1, <2>2, AnsweredPend
  <2>3. CASE \E k \in observed : Serve(k)
    BY <1>1, <2>1, <2>3 DEF Serve
  <2> QED
    BY <1>2, <2>2, <2>3 DEF API
<1>3. CASE page # "tasks" /\ UNCHANGED overrides
  BY <1>3, OtherPagesPend
<1>4. CASE Cache
  <2>1. PICK c : Reacts(c)
    BY <1>4 DEF Cache, Arrives, FetchFails, TimePasses, Refocus
  <2>2. (page # "tasks" /\ UNCHANGED overrides) \/ BoardReacts(c)
    BY <2>1 DEF Reacts, tasks
  <2>3. CASE BoardReacts(c)
    <3>1. PICK f, b, rs, over : f = filter /\ b = board /\ rs = requests /\ over = overrides
      OBVIOUS
    <3>2. BoardDraws(c, f, b, rs, over)
      BY <2>3, <3>1 DEF BoardReacts, BoardDraws
    <3>3. /\ rs \in Seq(RequestSet) /\ over = [i \in DOMAIN over |-> over[i]]
          /\ \A i \in DOMAIN over \ L : Pends(rs, i)
      BY <3>1, PendingNow
    <3> QED
      BY <3>2, <3>3, BoardPends
  <2> QED
    BY <1>3, <2>2, <2>3
<1>5. CASE ViewGesture \/ CanvasGesture \/ FilterGesture
  <2>1. page # "tasks" /\ UNCHANGED overrides
    BY <1>5 DEF ViewGesture, CanvasGesture, FilterGesture, tasks
  <2> QED
    BY <1>3, <2>1
<1>6. CASE TaskGesture
  BY <1>6, TaskGesturePends
<1>7. CASE OtherUsers
  <2>1. PICK i, v : OtherUser(i, "status", v) /\ UNCHANGED overrides
    BY <1>7 DEF OtherUsers, Others, tasks
  <2>2. PICK q, rs, over : Send(q) /\ rs = requests /\ over = overrides
    BY <2>1 DEF OtherUser
  <2>3. PICK ts : ts = Append(rs, q)
    OBVIOUS
  <2>4. requests' = ts /\ overrides' = over
    BY <2>1, <2>2, <2>3 DEF Send
  <2>5. \A j \in DOMAIN over \ L : Pends(ts, j)
    BY <2>2, <2>3, PendingNow, PendsAppend
  <2> QED
    BY <2>4, <2>5, LeftNow
<1>8. ASSUME NEW r \in DOMAIN requests, Callback(r) PROVE Leftover' \subseteq L
  <2>1. Sound(requests[r], page, Born)
    BY DEF FrontendInv, RequestsInv, AllSound
  <2>2. CASE ViewSettles(r) \/ PanelSettles(r) \/ CanvasSettles(r)
    <3>1. requests[r].by \in Views \cup {"canvas", "drop"}
      BY <2>2 DEF ViewSettles, PanelSettles, CanvasSettles, Views
    <3>2. page # "tasks"
      BY <2>1, <3>1 DEF Sound
    <3>3. requests[r].by \notin {"board", "task"}
      BY <3>1 DEF Views
    <3>4. UNCHANGED overrides
      BY <1>8, <3>3 DEF Callback, DropSettles, TaskSettles, tasks
    <3> QED
      BY <1>3, <3>2, <3>4
  <2>3. CASE DropSettles(r) \/ TaskSettles(r)
    BY <2>3, BoardSettlesPends
  <2> QED
    BY <1>8, <2>2, <2>3 DEF Callback
<1> QED
  BY <1>1, <1>2, <1>4, <1>5, <1>6, <1>7, <1>8 DEF Next, BoardRedraws

\* What a step leaves over.
Leaves == \A i \in Leftover' \ Leftover :
             /\ i \in DOMAIN drawn \ DOMAIN overrides
             /\ \E r \in DOMAIN requests' \ DOMAIN requests :
                   requests'[r].by = "board" /\ requests'[r].node # i

LEMMA StepLeaves ==
    ASSUME FrontendInv, Next
    PROVE  Leaves
<1>1. PICK L : L = Leftover
  OBVIOUS
<1>2. CASE \E i \in NodeIds, s \in Values : Drop(i, s)
  BY <1>1, <1>2, DropLeaves DEF Leaves
<1>3. CASE ~\E i \in NodeIds, s \in Values : Drop(i, s)
  BY <1>1, <1>3, StepPends DEF Leaves
<1> QED
  BY <1>2, <1>3

\* LeftByDropsOnly: what TaskBoard draws instead of a task's own status goes with
\* the answer to the drop, whatever the answer, or with the board, unless a drop
\* of another task brings it back from what was last drawn (handleDragEnd).
THEOREM LeftByDropsOnlyAlways == Spec => LeftByDropsOnly
<1>1. FrontendInv /\ [Next]_vars => [Leaves]_vars
  BY StepLeaves
<1>2. [Leaves]_vars
      => [\A i \in Leftover' \ Leftover :
             /\ i \in DOMAIN drawn \ DOMAIN overrides
             /\ \E r \in DOMAIN requests' \ DOMAIN requests :
                   requests'[r].by = "board" /\ requests'[r].node # i]_vars
  BY DEF Leaves
<1> QED
  BY <1>1, <1>2, InitInv, StepInv, PTL DEF Spec, LeftByDropsOnly

=============================================================================
