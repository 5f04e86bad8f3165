--------------------------- MODULE WorkspaceCanvas ---------------------------
(***************************************************************************)
(* The canvas of the workspace.  It keeps the cards and edges it draws in  *)
(* a state of its own, which the user changes at once and which the        *)
(* answers to the viewport query are merged into (reconcile.ts).  A card   *)
(* can be opened in the panel of NodeViews, which is modal, as is the      *)
(* dialog that creates a node where the canvas was clicked.                *)
(***************************************************************************)
EXTENDS NodeViews, SequencesExt

VARIABLES
    bounds,     \* what is inside the window, a key of the viewport query
    cards,      \* id -> place of the cards that are drawn
    dragging,   \* cards under the mouse
    edges,      \* pairs of cards with an edge between them
    undo,       \* pairs the toasts offer to link again
    creating    \* place of the open create dialog, or NoData

canvas == <<bounds, cards, dragging, edges, undo, creating>>

Listed(c, b) == IF c[<<"viewport", b>>].data = NoData THEN {} ELSE c[<<"viewport", b>>].data

Ids(nodes) == {n.id : n \in nodes}

Incoming(nodes) == [i \in Ids(nodes) |-> (CHOOSE n \in nodes : n.id = i).place]

\* Mutant: the answer wins, as before the cards under the mouse were spared.
reconcileAll(nodes) == Incoming(nodes)

\* The cards with an answer merged in: those under the mouse stay where they
\* are, even if they have left the bounds.
reconcileNodes(nodes) ==
    [i \in Ids(nodes) \cup dragging |->
        IF i \in dragging THEN cards[i] ELSE Incoming(nodes)[i]]

\* buildEdgesFromInlineLinks: both ends are visible.
Edges(nodes) ==
    {{n.id, j} : n \in nodes, j \in Ids(nodes)} \cap
        UNION {{{n.id, j} : j \in n.links} : n \in nodes}

\* Cache c is drawn in bounds b.  An answer that says the same as the one
\* before is the same object (structural sharing) and merges nothing.
CanvasDraws(c, b) ==
    LET nodes == Listed(c, b)
        same == b = bounds /\ c[<<"viewport", b>>].data = cache[<<"viewport", b>>].data
                /\ c[<<"viewport", b>>].data # NoData
    IN  /\ cards' = IF same THEN cards ELSE reconcileNodes(nodes)
        /\ edges' = IF same THEN edges ELSE Edges(nodes)

CanvasInit ==
    /\ bounds = CHOOSE b \in DOMAIN Area : TRUE
    /\ cards = <<>>
    /\ dragging = {}
    /\ edges = {}
    /\ undo = {}
    /\ creating = NoData

\* The cache became c.
CanvasReacts(c) ==
    /\ ViewReacts(c)
    /\ CanvasDraws(c, bounds)
    /\ UNCHANGED <<bounds, dragging, undo, creating>>

\* Nothing modal is in front of the canvas.
InFront == page = "workspace" /\ shown = 0 /\ creating = NoData

-----------------------------------------------------------------------------
(* Gestures                                                                *)

\* What a gesture asks of nodes i and j, perhaps before the last such request
\* was answered: nothing keeps the two in order.
Asks(op, i, j, value) ==
    [Request(op, i, j, value, "canvas") EXCEPT
        !.gap = \E r \in DOMAIN requests :
                    LET q == requests[r] IN
                    InFlight(q) /\ q.by = "canvas" /\ {q.node, q.other} = {i, j}]

\* handleViewportChange, once the viewport has been still for a while.
Pan(b) ==
    LET new == (observed \ {<<"viewport", bounds>>}) \cup {<<"viewport", b>>}
        c == Sync(observed, new, cache)
    IN
    /\ InFront
    /\ b # bounds
    /\ CanvasDraws(c, b)
    /\ bounds' = b
    /\ cache' = c
    /\ observed' = new
    /\ UNCHANGED <<scenario, api, requests, views, dragging, undo, creating>>

DragStart(i) ==
    /\ InFront
    /\ dragging = {}
    /\ i \in DOMAIN cards
    /\ dragging' = {i}
    /\ UNCHANGED <<scenario, api, queries, requests, views, bounds, cards, edges, undo, creating>>

\* handleNodeDragStop: the card stays at p, the move is sent.
DragStop(i, p) ==
    /\ Room(1)
    /\ InFront
    /\ i \in dragging
    /\ dragging' = {}
    /\ cards' = [cards EXCEPT ![i] = p]
    /\ Send(Asks("move", i, i, [place |-> p]))
    /\ UNCHANGED <<scenario, api, queries, views, bounds, edges, undo, creating>>

\* Mutant: the edge from a card to itself is not refused.
ConnectSelf(i, j) ==
    /\ Room(1)
    /\ InFront
    /\ dragging = {}
    /\ i \in DOMAIN cards /\ j \in DOMAIN cards
    /\ edges' = edges \cup {{i, j}}
    /\ Send(Asks("link", i, j, <<>>))
    /\ UNCHANGED <<scenario, api, queries, views, bounds, cards, dragging, undo, creating>>

\* handleConnect: the edge is drawn before the link is sent.
Connect(i, j) ==
    /\ Room(1)
    /\ InFront
    /\ dragging = {}
    /\ i \in DOMAIN cards /\ j \in DOMAIN cards
    /\ i # j
    /\ edges' = edges \cup {{i, j}}
    /\ Send(Asks("link", i, j, <<>>))
    /\ UNCHANGED <<scenario, api, queries, views, bounds, cards, dragging, undo, creating>>

\* handleEdgesDelete: one hook sends the deletions of all these edges; the toast
\* of a deletion only comes if no other was sent through the hook since.
EdgesDeleted(gone) ==
    LET Unlinked(e) == [Asks("unlink", Min(e), Max(e), <<>>) EXCEPT !.host = "detached"]
        new == [n \in 1..Cardinality(gone) |-> Unlinked(SetToSeq(gone)[n])]
        older == [r \in DOMAIN requests |->
                    IF requests[r].op = "unlink" /\ requests[r].by = "canvas" /\ gone # {}
                    THEN [requests[r] EXCEPT !.host = "detached"] ELSE requests[r]]
    IN  requests' = IF gone = {} THEN requests
                    ELSE older \o [new EXCEPT ![Len(new)].host = "mounted"]

\* The Delete key on an edge.
DeleteEdge(e) ==
    /\ Room(1)
    /\ InFront
    /\ dragging = {}
    /\ e \in edges
    /\ edges' = edges \ {e}
    /\ EdgesDeleted({e})
    /\ UNCHANGED <<scenario, api, queries, views, bounds, cards, dragging, undo, creating>>

\* The Delete key on a card takes the card off the canvas, not its node away,
\* and all its edges with it, which are unlinked.
DeleteCard(i) ==
    LET gone == {e \in edges : i \in e} IN
    /\ Room(Cardinality(gone))
    /\ InFront
    /\ dragging = {}
    /\ i \in DOMAIN cards
    /\ cards' = [j \in DOMAIN cards \ {i} |-> cards[j]]
    /\ edges' = edges \ gone
    /\ EdgesDeleted(gone)
    /\ UNCHANGED <<scenario, api, queries, views, bounds, dragging, undo, creating>>

\* The Undo button of the toast links the nodes again; no edge is drawn yet, and
\* none may be if the canvas was not answered since the unlinking.
Undo(e) ==
    /\ Room(1)
    /\ page = "workspace"
    /\ e \in undo
    /\ undo' = undo \ {e}
    /\ Send([Asks("link", Min(e), Max(e), <<>>)
                EXCEPT !.gap = @ \/ e \in Edges(Listed(cache, bounds))])
    /\ UNCHANGED <<scenario, api, queries, views, bounds, cards, dragging, edges, creating>>

\* handlePaneClick, and the dialog's Cancel.
PaneClick(p) ==
    /\ InFront
    /\ creating' = p
    /\ UNCHANGED <<scenario, api, queries, requests, views, bounds, cards, dragging, edges, undo>>

CancelCreate ==
    /\ creating # NoData
    /\ creating' = NoData
    /\ requests' = Forget(requests, "create")
    /\ UNCHANGED <<scenario, api, queries, views, bounds, cards, dragging, edges, undo>>

SubmitCreate ==
    /\ Room(1)
    /\ creating # NoData
    /\ ~Pending("create")
    /\ Send(Request("create", 0, 0, [Created EXCEPT !.place = creating], "canvas"))
    /\ UNCHANGED <<scenario, api, queries, views, canvas>>

\* handleCanvasDrop: a node at p first, its content once the node is there.
DropFile(p) ==
    /\ Room(2)
    /\ InFront
    /\ Send([Request("create", 0, 0, [Created EXCEPT !.place = p], "drop")
                EXCEPT !.host = "detached"])
    /\ UNCHANGED <<scenario, api, queries, views, canvas>>

-----------------------------------------------------------------------------
(* Callbacks                                                               *)

\* The answer to request r of the canvas.  A node that was created in the
\* dialog is opened in the panel.
CanvasSettles(r) ==
    LET q == requests[r]
        ok == q.step = "ok"
        created == ok /\ q.op = "create"
        c == Settled(cache, q)
    IN
    /\ q.by \in {"canvas", "drop"}
    /\ Callbacks(r)
    /\ Draw(IF created /\ q.by = "canvas" THEN q.node ELSE shown, c, panel,
            IF created /\ q.by = "drop"
            THEN Append(Done(r), Request("raw", q.node, q.node, [text |-> Created.name], "drop"))
            ELSE Done(r),
            observed)
    /\ CanvasDraws(c, bounds)
    /\ creating' = IF created /\ q.by = "canvas" THEN NoData ELSE creating
    /\ undo' = IF ok /\ q.op = "unlink" /\ q.host = "mounted"
               THEN undo \cup {{q.node, q.other}} ELSE undo
    /\ UNCHANGED <<scenario, api, bounds, dragging>>

\* The answer to a request of the panel, with the canvas behind it.
PanelSettles(r) ==
    /\ ViewSettles(r)
    /\ CanvasDraws(cache', bounds)
    /\ UNCHANGED <<bounds, dragging, undo, creating>>

=============================================================================
