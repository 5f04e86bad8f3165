----------------------------- MODULE NodeQueries -----------------------------
(***************************************************************************)
(* What the pages of the frontend share: the nodes as the API holds them,  *)
(* the query cache with the hooks that read through it, and the mutations  *)
(* with what each of them invalidates when it succeeds.                    *)
(*                                                                         *)
(* The cache is TanStack Query 5 and external.  A key with an observer is  *)
(* fetched when it has no data or stale data; a fetch is aborted when the  *)
(* last observer goes; invalidation starts the fetch of an observed key    *)
(* again, unless that key has no data yet, whose fetch goes on.            *)
(***************************************************************************)
EXTENDS Integers, Sequences

CONSTANTS
    MaxId,          \* bound on node ids
    Values,         \* names, statuses, types and texts
    Absent,         \* the one that a field without a value has, empty in a form
    Trim,           \* a value -> what is left of it without the spaces around it
    Typed,          \* those the user types: a bound
    Places,         \* positions on the canvas
    Area,           \* bounds of a viewport query -> positions inside
    Project, Group, \* the project of the task page and its Tasks group
    Filters,        \* sets of statuses to list tasks of
    Created,        \* the node a create dialog is filled in with
    NoText, Gone,   \* a node without content, an id without a node
    NoData, Missing, Idle, Asked,   \* of cache entries, see Blank
    Scenarios       \* what is explored, a set of records:
                    \*   page: the page that opens
                    \*   shown: the node it opens with, or 0
                    \*   rows, links, issued: the nodes and links there are then
                    \*   explored: the gestures and events that happen
                    \*   targets: the nodes that are reached for
                    \*   changes: bound on the changes made, those of others included

VARIABLES
    scenario,   \* one of the Scenarios; it does not change
    rows,       \* id -> node as the API holds it
    links,      \* pairs of linked nodes
    issued,     \* ids given out so far
    cache,      \* key -> entry of the query cache
    observed,   \* keys with a mounted observer
    requests    \* the mutations sent so far

api == <<rows, links, issued>>
queries == <<cache, observed>>

\* The route that is mounted.
page == scenario.page

NodeIds == 1..MaxId
Fields == {"name", "status", "type"}
Row == [name : Values, status : Values, type : Values,
        text : Values \cup {NoText}, place : Places]
Exists(R, i) == i \in NodeIds /\ R[i] # Gone

-----------------------------------------------------------------------------
(* Queries                                                                 *)

Kind(kind) == CASE kind \in {"node", "content"} -> {kind} \X NodeIds
                [] kind = "linkedto" -> {kind} \X NodeIds
                [] kind = "viewport" -> {kind} \X DOMAIN Area
                [] kind = "path" -> {kind} \X Filters

Keys == UNION {Kind(kind) : kind \in {"node", "content", "linkedto", "viewport", "path"}}

\* A row of a list, as tables and cards show it.
Card(R, i) == [id |-> i, name |-> R[i].name, status |-> R[i].status, type |-> R[i].type]

Neighbors(R, L, i) == {j \in NodeIds : {i, j} \in L /\ Exists(R, j)}

useNode(R, i) ==
    IF ~Exists(R, i) THEN Missing
    ELSE [name |-> R[i].name, status |-> R[i].status, type |-> R[i].type,
          hasText |-> R[i].text # NoText]

useNodeContent(R, i) ==
    IF ~Exists(R, i) \/ R[i].text = NoText THEN Missing ELSE R[i].text

useNodeListLinkedTo(R, L, i) == {Card(R, j) : j \in Neighbors(R, L, i)}

\* The tasks under the Tasks group of the project, of these statuses or of any.
useNodePath(R, L, statuses) ==
    {Card(R, j) : j \in {i \in Neighbors(R, L, Group) \ {Project} :
        {Group, Project} \in L /\ (statuses = {} \/ R[i].status \in statuses)}}

\* The nodes inside the bounds, each with its neighbors.
useNodesInViewport(R, L, b) ==
    {[id |-> i, name |-> R[i].name, place |-> R[i].place, links |-> Neighbors(R, L, i)] :
        i \in {j \in NodeIds : Exists(R, j) /\ R[j].place \in Area[b]}}

\* What the API answers to the query of key k.
Answer(k, R, L) == CASE k[1] = "node" -> useNode(R, k[2])
                     [] k[1] = "content" -> useNodeContent(R, k[2])
                     [] k[1] = "linkedto" -> useNodeListLinkedTo(R, L, k[2])
                     [] k[1] = "path" -> useNodePath(R, L, k[2])
                     [] k[1] = "viewport" -> useNodesInViewport(R, L, k[2])

\* stale: invalidated, outlived its staleTime, or failed to be fetched again.
\* wire: no fetch, a fetch on its way to the API, or the answer on its way back.
Blank == [data |-> NoData, error |-> "no", stale |-> FALSE, wire |-> Idle]

Fetching(c, k) == c[k].wire # Idle

Fetch(e) == [e EXCEPT !.wire = Asked, !.error = IF e.data = NoData THEN "no" ELSE @]

\* The cache after the observers changed from the keys old to the keys new.
Sync(old, new, c) ==
    [k \in Keys |->
        IF k \in new \ old /\ ~Fetching(c, k) /\ (c[k].data = NoData \/ c[k].stale)
        THEN Fetch(c[k])
        ELSE IF k \in old \ new THEN [c[k] EXCEPT !.wire = Idle]
        ELSE c[k]]

\* Keys without an observer are fetched when they get one; the fetch of a key
\* that has no data yet goes on.
Invalidate(c, keys, obs) ==
    [k \in Keys |->
        IF k \in keys /\ (c[k].data # NoData \/ (k \in obs /\ ~Fetching(c, k)))
        THEN [(IF k \in obs THEN Fetch(c[k]) ELSE c[k]) EXCEPT !.stale = TRUE]
        ELSE c[k]]

Removed(c, keys) == [k \in Keys |-> IF k \in keys THEN Blank ELSE c[k]]

\* The answer for k is there: it replaces data, an error leaves them alone.
Received(c, k) ==
    [c EXCEPT ![k] =
        IF @.wire = Missing THEN [@ EXCEPT !.error = "missing", !.stale = TRUE, !.wire = Idle]
        ELSE [data |-> @.wire, error |-> "no", stale |-> FALSE, wire |-> Idle]]

\* Neither the first attempt nor the retry got an answer.
Unanswered(c, k) ==
    [c EXCEPT ![k].error = "failed", ![k].stale = TRUE, ![k].wire = Idle]

\* staleTime: 1 s, 30 s, 2 min and 5 min.
StaleAfter == << {"viewport"}, {"viewport", "linkedto", "path"},
                 {"viewport", "linkedto", "path", "node"},
                 {"viewport", "linkedto", "path", "node", "content"} >>

Aged(c, kinds) ==
    [k \in Keys |->
        IF k[1] \in kinds /\ c[k].data # NoData THEN [c[k] EXCEPT !.stale = TRUE] ELSE c[k]]

\* The window has the focus again: refetchOnWindowFocus.
Refocused(c) ==
    [k \in Keys |->
        IF k \in observed /\ ~Fetching(c, k) /\ (c[k].stale \/ c[k].data = NoData)
        THEN Fetch(c[k]) ELSE c[k]]

-----------------------------------------------------------------------------
(* Mutations                                                               *)

\* node: what the request names; key: what its callbacks name, see Rebound of
\* NodeViews.  value: the fields it sets.  by: who sent it.  host: whether
\* the component that sent it still listens, has let go of it, or went with its
\* page.  gap: it was carried out, but the cache may not know all it changed;
\* on the canvas also that it may overtake another one on the same thing, or the
\* answer the canvas waits for after it.
Request(op, node, other, value, by) ==
    [op |-> op, node |-> node, other |-> other, value |-> value, key |-> node,
     by |-> by, step |-> "sent", host |-> "mounted", gap |-> FALSE]

Room(n) == Len(requests) + n <= scenario.changes

Send(q) == requests' = Append(requests, q)

InFlight(q) == q.step \notin {"done", "failed"}

\* The button that sent it is disabled.
Pending(op) ==
    \E r \in DOMAIN requests : /\ InFlight(requests[r])
                              /\ requests[r].op = op
                              /\ requests[r].host = "mounted"

useCreateNode == Kind("linkedto")
usePatchNode(i) == {<<"node", i>>} \cup Kind("linkedto") \cup Kind("viewport")

\* Mutant: before PR #124 the canvas was not told of a deletion.
DeletionTellsLists == Kind("linkedto")

useDeleteNode == Kind("linkedto") \cup Kind("viewport")

\* Mutant: before DiVoid #1213 the canvas was not told of links.
LinksTellLists == Kind("linkedto")

invalidateLinkCaches == Kind("linkedto") \cup Kind("viewport")
useUnlinkNodes == Kind("linkedto") \cup Kind("viewport")
useUploadContent(i) == {<<"content", i>>, <<"node", i>>}

\* The keys the success of q invalidates.  A move (useMoveNode) and the upload
\* after a file drop ("raw") invalidate nothing, a drop on the board and a
\* page saved in the wiki everything.
Outdated(q) ==
    IF q.by = "board" \/ (q.op = "upload" /\ page = "wiki" /\ q.host = "mounted") THEN Keys
    ELSE CASE q.op = "create" -> useCreateNode
           [] q.op = "patch" -> usePatchNode(q.key)
           [] q.op = "delete" -> useDeleteNode
           [] q.op = "link" -> invalidateLinkCaches
           [] q.op = "unlink" -> useUnlinkNodes
           [] q.op = "upload" -> useUploadContent(q.key)
           [] q.op \in {"move", "raw"} -> {}

\* The cache after onSuccess of q, or after onError of a link that was there.
Succeeded(c, q) ==
    Invalidate(IF q.op = "delete" THEN Removed(c, {<<"node", q.key>>, <<"content", q.key>>})
               ELSE c, Outdated(q), observed)

\* The first answer for a key may have been read before the change: the
\* invalidation does not fetch again what was never fetched.
FirstLoad(keys) ==
    \E k \in keys \cap observed : cache[k].data = NoData /\ cache[k].wire \notin {Idle, Asked}

\* What q changed and its callbacks do not tell the cache.
Untold(q) ==
    \/ q.key # q.node
    \/ FirstLoad(Outdated(q))
    \/ q.op = "raw"
    \/ q.op = "create" /\ page = "workspace"
    \/ q.op = "link" /\ page = "tasks"

Done(r) ==
    LET q == requests[r] IN
    [requests EXCEPT ![r].step = IF q.step = "ok" THEN "done" ELSE "failed",
                     ![r].gap = q.gap \/ (q.step = "ok" /\ Untold(q))]

\* What the callbacks find: an answer, or a refusal, or none in 30 s.  That the
\* nodes were linked already is an error whose callback invalidates all the same.
Settled(c, q) == IF q.step \in {"ok", "linked"} THEN Succeeded(c, q) ELSE c

Callbacks(r) == requests[r].step \in {"ok", "linked", "refused", "lost"}

-----------------------------------------------------------------------------
(* The API                                                                 *)

\* The queries in keys are mounted, and nothing is cached yet.
QueriesInit(keys) ==
    /\ cache = Sync({}, keys, [k \in Keys |-> Blank])
    /\ observed = keys
    /\ requests = <<>>

\* The row with these fields set.
Changed(row, value) ==
    [f \in DOMAIN row |-> IF f \in DOMAIN value THEN value[f] ELSE row[f]]

\* The API carries request r out, or refuses it.
Execute(r) ==
    LET q == requests[r]
        Becomes(step) == requests' = [requests EXCEPT ![r].step = step]
    IN
    /\ q.step = "sent"
    /\ \/ /\ q.op = "create"
          /\ issued < MaxId
          /\ rows' = [rows EXCEPT ![issued + 1] = q.value]
          /\ issued' = issued + 1
          /\ requests' = [requests EXCEPT ![r].step = "ok", ![r].node = issued + 1,
                                          ![r].key = issued + 1]
          /\ UNCHANGED links
       \/ /\ q.op \in {"patch", "move", "upload", "raw"}
          /\ Exists(rows, q.node)
          /\ rows' = [rows EXCEPT ![q.node] = Changed(@, q.value)]
          /\ Becomes("ok")
          /\ UNCHANGED <<links, issued>>
       \/ /\ q.op = "delete"
          /\ Exists(rows, q.node)
          /\ rows' = [rows EXCEPT ![q.node] = Gone]
          /\ links' = {l \in links : q.node \notin l}
          /\ Becomes("ok")
          /\ UNCHANGED issued
       \/ /\ q.op = "link"
          /\ Exists(rows, q.node) /\ Exists(rows, q.other)
          /\ links' = links \cup {{q.node, q.other}}
          /\ Becomes(IF {q.node, q.other} \in links THEN "linked" ELSE "ok")
          /\ UNCHANGED <<rows, issued>>
       \/ /\ q.op = "unlink"
          /\ {q.node, q.other} \in links
          /\ links' = links \ {{q.node, q.other}}
          /\ Becomes("ok")
          /\ UNCHANGED <<rows, issued>>
       \/ /\ Becomes("refused")
          /\ UNCHANGED api
    /\ UNCHANGED <<scenario, queries>>

\* The answer of r does not come in time, whether or not r was carried out.
Lose(r) ==
    /\ requests[r].step \in {"sent", "ok"}
    /\ requests' = [requests EXCEPT ![r].step = "lost", ![r].gap = (requests[r].step = "ok")]
    /\ UNCHANGED <<scenario, api, queries>>

\* Somebody else changes a field of node i.
OtherUser(i, field, v) ==
    /\ Room(1)
    /\ Exists(rows, i)
    /\ rows[i][field] # v
    /\ rows' = [rows EXCEPT ![i][field] = v]
    /\ Send([Request("patch", i, i, [f \in {field} |-> v], "other") EXCEPT !.step = "done", !.gap = TRUE])
    /\ UNCHANGED <<scenario, links, issued, queries>>

\* The API reads the answer to the fetch of k.
Serve(k) ==
    /\ cache[k].wire = Asked
    /\ cache' = [cache EXCEPT ![k].wire = Answer(k, rows, links)]
    /\ UNCHANGED <<scenario, api, observed, requests>>

=============================================================================
