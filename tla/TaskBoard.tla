------------------------------ MODULE TaskBoard ------------------------------
(***************************************************************************)
(* The task page of a project: the list or board of the tasks under its    *)
(* Tasks group, drops that change the status of a task, with the status    *)
(* they ask for drawn in the meantime, and the dialog that creates a task. *)
(* The page is drawn anew in the step that changes the cache, but for the  *)
(* overrides of the board: an answer changes those before they are drawn.  *)
(***************************************************************************)
EXTENDS NodeQueries

VARIABLES
    filter,     \* the statuses that are listed; none: all
    board,      \* the view is the board, not the list
    overrides,  \* task -> status drawn instead of the task's own
    drawn,      \* the overrides as of the last drawing: what a drop goes by
    creatingTask    \* the dialog is open

tasks == <<filter, board, overrides, drawn, creatingTask>>

Path(f) == <<"path", f>>

Tasks(c, f) == IF c[Path(f)].data = NoData THEN {} ELSE c[Path(f)].data

\* The board is mounted: no error, and no answer without a task.
Board(c, f, b) == b /\ c[Path(f)].error = "no" /\ c[Path(f)].data # {}

\* useProjectTasksGroup: the id of the group, once its query has an answer.
GroupKnown(c) ==
    LET found == c[<<"linkedto", Project>>].data IN
    found # NoData /\ \E n \in found : n.id = Group

\* useKanbanColumns: the status each task is drawn with.
EffectiveStatus(n) == IF n.id \in DOMAIN drawn THEN drawn[n.id] ELSE n.status

\* The cache is c, the statuses listed f and the board chosen b, while rs are
\* the requests: a board that goes takes its overrides with it.
BoardDraws(c, f, b, rs, over) ==
    LET stays == Board(cache, filter, board) /\ Board(c, f, b) IN
    /\ overrides' = IF stays THEN over ELSE <<>>
    /\ drawn' = IF stays THEN drawn ELSE <<>>
    /\ requests' = [r \in DOMAIN rs |->
                      IF rs[r].by = "board" /\ InFlight(rs[r]) /\ ~stays
                      THEN [rs[r] EXCEPT !.host = "left"] ELSE rs[r]]

TasksInit ==
    /\ filter \in Filters
    /\ board = TRUE
    /\ overrides = <<>>
    /\ drawn = <<>>
    /\ creatingTask = FALSE

\* The cache became c.
BoardReacts(c) ==
    /\ cache' = c
    /\ BoardDraws(c, filter, board, requests, overrides)
    /\ UNCHANGED <<observed, filter, board, creatingTask>>

-----------------------------------------------------------------------------
(* Gestures                                                                *)

\* toggleStatus: another filter is another query.
toggleStatus(f) ==
    LET new == (observed \ {Path(filter)}) \cup {Path(f)}
        c == Sync(observed, new, cache)
    IN
    /\ page = "tasks"
    /\ f # filter
    /\ filter' = f
    /\ cache' = c
    /\ observed' = new
    /\ BoardDraws(c, f, board, requests, overrides)
    /\ UNCHANGED <<scenario, api, board, creatingTask>>

handleViewChange ==
    /\ page = "tasks"
    /\ board' = ~board
    /\ BoardDraws(cache, filter, ~board, requests, overrides)
    /\ UNCHANGED <<scenario, api, queries, filter, creatingTask>>

\* handleDragEnd: task i is dropped on the column of status s.  There is a
\* column for each status that is listed, none if all are.  The overrides are
\* replaced by a copy of those last drawn, and drawn before the next gesture.
Drop(i, s) ==
    /\ Room(1)
    /\ page = "tasks"
    /\ Board(cache, filter, board)
    /\ \E n \in Tasks(cache, filter) : n.id = i /\ EffectiveStatus(n) \in filter \ {s}
    /\ s \in filter
    /\ overrides' = [j \in DOMAIN drawn \cup {i} |-> IF j = i THEN s ELSE drawn[j]]
    /\ drawn' = overrides'
    /\ Send(Request("patch", i, i, [status |-> s], "board"))
    /\ UNCHANGED <<scenario, api, queries, filter, board, creatingTask>>

\* The board is drawn with the overrides there are by now.
BoardRedraws ==
    /\ drawn # overrides
    /\ drawn' = overrides
    /\ UNCHANGED <<scenario, api, queries, requests, filter, board, overrides, creatingTask>>

OpenCreateTask ==
    /\ page = "tasks"
    /\ ~creatingTask
    /\ creatingTask' = TRUE
    /\ UNCHANGED <<scenario, api, queries, requests, filter, board, overrides, drawn>>

\* The dialog forgets its mutations, which go on.
CloseCreateTask ==
    /\ creatingTask
    /\ creatingTask' = FALSE
    /\ requests' = [r \in DOMAIN requests |->
                      IF requests[r].by = "task" THEN [requests[r] EXCEPT !.host = "detached"]
                      ELSE requests[r]]
    /\ UNCHANGED <<scenario, api, queries, filter, board, overrides, drawn>>

\* CreateTaskDialog has a form only if the group is known.
SubmitTask ==
    /\ Room(2)
    /\ creatingTask
    /\ GroupKnown(cache)
    /\ ~Pending("create") /\ ~Pending("link")
    /\ Send(Request("create", 0, Group, Created, "task"))
    /\ UNCHANGED <<scenario, api, queries, tasks>>

-----------------------------------------------------------------------------
(* Callbacks                                                               *)

\* Mutant: a drop that failed leaves its override.
RevertNothing(q) == IF q.step = "ok" /\ q.host = "mounted" THEN {q.node} ELSE {}

\* The overrides the answer to q clears, an error's as well.
Reverted(q) == IF q.host = "mounted" THEN {q.node} ELSE {}

\* The answer to a drop is there, or will not come any more.
DropSettles(r) ==
    LET q == requests[r]
        c == Settled(cache, q)
        over == [i \in DOMAIN overrides \ Reverted(q) |-> overrides[i]]
    IN
    /\ q.by = "board"
    /\ Callbacks(r)
    /\ cache' = c
    /\ BoardDraws(c, filter, board, Done(r), over)
    /\ UNCHANGED <<scenario, api, observed, filter, board, creatingTask>>

\* The link that makes a task of the project of a node just created.
LinkTask(q) ==
    << [Request("link", q.node, q.other, <<>>, "task") EXCEPT !.host = q.host] >>

\* CreateTaskDialog creates, then links, then closes; after an error it stays.
TaskSettles(r) ==
    LET q == requests[r]
        c == Settled(cache, q)
        ok == q.step = "ok"
    IN
    /\ q.by = "task"
    /\ Callbacks(r)
    /\ cache' = c
    /\ BoardDraws(c, filter, board,
                  IF ok /\ q.op = "create" THEN Done(r) \o LinkTask(q) ELSE Done(r),
                  overrides)
    /\ creatingTask' = IF ok /\ q.op = "link" THEN FALSE ELSE creatingTask
    /\ UNCHANGED <<scenario, api, observed, filter, board>>

=============================================================================
