------------------------------ MODULE NodeViews ------------------------------
(***************************************************************************)
(* The pages that show one node: the node page, the wiki page, and the     *)
(* panel in which the workspace peeks at a node (NodeDetailView as well).  *)
(* Each has an editor for the text and dialogs whose forms are filled from *)
(* the cache.  The page is drawn anew in the step that changes the cache.  *)
(***************************************************************************)
EXTENDS NodeQueries

VARIABLES
    shown,      \* the node of the route or of the panel, 0 for none
    panel       \* the state of its components, see Closed

views == <<shown, panel>>

\* edit, compose: the mode of the content region, for a node with and without
\* text.  draft: the node whose text the open editor was filled with.  vals,
\* touched: the values of the open form, and the fields the user has typed in.
Closed == [edit |-> FALSE, compose |-> FALSE, draft |-> 0, dialog |-> "none",
           vals |-> <<>>, touched |-> {}]

NodeData(s, c) == c[<<"node", s>>].data
HasText(s, c) == NodeData(s, c).hasText

\* The node is there to be drawn.  The node page shows a skeleton for as long
\* as anything is fetched, the wiki only until there is something to show.
Body(s, c) ==
    /\ s # 0
    /\ NodeData(s, c) # NoData
    /\ c[<<"node", s>>].error # "missing"
    /\ page = "wiki" \/ ~Fetching(c, <<"node", s>>)

ContentReady(s, c) ==
    LET content == c[<<"content", s>>] IN
    /\ content.wire = Idle \/ content.data # NoData
    /\ page = "wiki" \/ content.error = "no"

\* The MarkdownEditorSurface that is mounted, with the modes of panel p.
Editor(s, c, p) ==
    IF ~Body(s, c) THEN "none"
    ELSE IF HasText(s, c) THEN IF p.edit /\ ContentReady(s, c) THEN "edit" ELSE "none"
    ELSE IF p.compose THEN "compose" ELSE "none"

\* The queries of the page that shows node s; the text only of a node with text.
ViewKeys(s, c) ==
    UNION {{<<"node", i>>} \cup
           (IF Body(i, c) THEN {<<"linkedto", i>>} ELSE {}) \cup
           (IF Body(i, c) /\ HasText(i, c) THEN {<<"content", i>>} ELSE {}) :
           i \in {s} \ {0}}

-----------------------------------------------------------------------------
(* Drawing                                                                 *)

FormFields(dialog) == CASE dialog = "edit" -> {"name", "status"}
                        [] dialog = "retype" -> {"type"}
                        [] OTHER -> {}

FormValues(s, c, dialog) == [f \in FormFields(dialog) |-> NodeData(s, c)[f]]

\* The components of the page stay mounted from the last drawing to this one.
Stays(s, c) == Body(shown, cache) /\ Body(s, c)

\* Mutant: the form is filled when the dialog opens and then left alone.
ResetOnOpen(s, c, p) == ~Stays(s, c) \/ p.dialog # panel.dialog

\* The effect of the dialogs: the form is filled when its dialog opens, and
\* again whenever the fields of the node change.
FormResets(s, c, p) ==
    \/ ~Stays(s, c)
    \/ p.dialog # panel.dialog
    \/ FormValues(s, c, p.dialog) # FormValues(shown, cache, p.dialog)

EditorStays(s, c, p) ==
    Stays(s, c) /\ Editor(s, c, p) # "none" /\ Editor(s, c, p) = Editor(shown, cache, panel)

\* The panel when node s is drawn: components that are unmounted lose their
\* state, those that stay keep it, even when they show another node.
Redrawn(s, c, p) ==
    LET stays == Stays(s, c)
        card == page = "wiki" \/ ~(HasText(shown, cache) \/ HasText(s, c))
        q == [p EXCEPT !.edit = @ /\ stays,
                       !.compose = @ /\ stays /\ card,
                       !.dialog = IF s = 0 THEN "none" ELSE @]
    IN  [q EXCEPT
           !.draft = IF Editor(s, c, q) = "none" THEN 0
                     ELSE IF EditorStays(s, c, q) THEN @ ELSE s,
           !.vals = IF ~Body(s, c) THEN <<>>
                    ELSE IF FormResets(s, c, q) THEN FormValues(s, c, q.dialog) ELSE @,
           !.touched = IF FormResets(s, c, q) THEN {} ELSE @]

\* The mutations of components that stay mounted, for node s from now on: a
\* hook that is bound to a node hands its new options to the pending mutation,
\* whose callbacks then name the node that is shown by then.
Rebound(rs, s, c, p) ==
    [r \in DOMAIN rs |->
        LET q == rs[r]
            stays == CASE q.by = "editor" -> EditorStays(s, c, p)
                       [] q.op = "link" /\ q.by = "child" -> s # 0
                       [] OTHER -> Stays(s, c)
        IN  IF ~InFlight(q) \/ q.by \notin {"editor", "file", "dialog", "child"} THEN q
            ELSE IF s = 0 THEN [q EXCEPT !.host = "left"]
            ELSE IF q.host # "mounted" THEN q
            ELSE IF ~stays THEN [q EXCEPT !.host = "detached"]
            ELSE IF q.op \in {"patch", "delete", "upload"} THEN [q EXCEPT !.key = s]
            ELSE q]

\* Node s is drawn from cache c with panel p, while rs are the mutations and
\* obs the keys that were observed; other components keep theirs.
Draw(s, c, p, rs, obs) ==
    LET route == obs \cup ({<<"node", s>>} \cap Keys)
        c1 == Sync(obs, route, c)
        new == {k \in obs : k[1] \in {"viewport", "path"}} \cup ViewKeys(s, c1)
        c2 == Sync(route, new, c1)
        drawn == Redrawn(s, c2, p)
    IN  /\ shown' = s
        /\ cache' = c2
        /\ observed' = new
        /\ panel' = drawn
        /\ requests' = Rebound(rs, s, c2, drawn)

ViewsInit(i) ==
    /\ shown = i
    /\ panel = Closed

\* The cache became c.
ViewReacts(c) == Draw(shown, c, panel, requests, observed)

-----------------------------------------------------------------------------
(* Gestures                                                                *)

\* A link, a row of the neighbors, the browser's history: node i, or no node.
Open(i) ==
    /\ page \in {"node", "wiki", "workspace"}
    /\ i # shown
    /\ Draw(i, cache, panel, requests, observed)
    /\ UNCHANGED <<scenario, api>>

OpenEditor ==
    /\ Body(shown, cache)
    /\ Editor(shown, cache, panel) = "none"
    /\ HasText(shown, cache) => ContentReady(shown, cache)
    /\ LET text == HasText(shown, cache)
       IN  Draw(shown, cache, [panel EXCEPT !.edit = text \/ (@ /\ page # "wiki"),
                                            !.compose = ~text], requests, observed)
    /\ UNCHANGED <<scenario, api>>

\* The Cancel button of the surface waits for a save, the one that toggles the
\* mode of the node page does not.
CloseEditor ==
    LET editor == Editor(shown, cache, panel) IN
    /\ editor # "none"
    /\ Pending("upload") => page # "wiki" /\ editor = "edit"
    /\ Draw(shown, cache, [panel EXCEPT !.edit = @ /\ editor # "edit",
                                        !.compose = @ /\ editor # "compose"],
            requests, observed)
    /\ UNCHANGED <<scenario, api>>

\* MarkdownEditorSurface saves its text to the node that is shown.
Save(t) ==
    /\ Room(1)
    /\ Editor(shown, cache, panel) # "none"
    /\ ~Pending("upload")
    /\ Send(Request("upload", shown, panel.draft, [text |-> t], "editor"))
    /\ UNCHANGED <<scenario, api, queries, views>>

\* A file goes to the ContentUploadZone of the node page.
UploadFile(t) ==
    /\ Room(1)
    /\ page # "wiki"
    /\ Body(shown, cache)
    /\ Send(Request("upload", shown, shown, [text |-> t], "file"))
    /\ UNCHANGED <<scenario, api, queries, views>>

Dialogs == IF page = "wiki" THEN {"edit", "create"} ELSE {"edit", "retype", "delete", "link"}

OpenDialog(dialog) ==
    /\ Body(shown, cache)
    /\ panel.dialog = "none"
    /\ dialog \in Dialogs
    /\ Draw(shown, cache, [panel EXCEPT !.dialog = dialog], requests, observed)
    /\ UNCHANGED <<scenario, api>>

\* handleOpenChange(false): all dialogs but the deletion's forget their mutation.
Forget(rs, dialog) ==
    LET op == CASE dialog \in {"edit", "retype"} -> "patch"
                [] dialog \in {"link", "create"} -> dialog
                [] OTHER -> "none"
    IN  [r \in DOMAIN rs |->
            IF InFlight(rs[r]) /\ rs[r].op = op /\ rs[r].host = "mounted"
               /\ (op = "link" => rs[r].by = "dialog")
            THEN [rs[r] EXCEPT !.host = "detached"] ELSE rs[r]]

CloseDialog ==
    /\ Body(shown, cache)
    /\ panel.dialog # "none"
    /\ Draw(shown, cache, [panel EXCEPT !.dialog = "none"],
            Forget(requests, panel.dialog), observed)
    /\ UNCHANGED <<scenario, api>>

TypeIn(field, v) ==
    /\ Body(shown, cache)
    /\ field \in FormFields(panel.dialog)
    /\ panel.vals[field] # v
    /\ panel' = [panel EXCEPT !.vals[field] = v, !.touched = @ \cup {field}]
    /\ UNCHANGED <<scenario, api, queries, shown, requests>>

\* The fields EditNodeDialog and RetypeNodeDialog find changed: those that
\* differ from the node once trimmed, and an empty status whatever the node has,
\* for it becomes null, and a node without status has undefined.
ChangedFields ==
    {f \in FormFields(panel.dialog) :
        \/ Trim[panel.vals[f]] # NodeData(shown, cache)[f]
        \/ f = "status" /\ Trim[panel.vals[f]] = Absent}

\* The dialog sends what changed, and closes at once if nothing did.
SubmitForm ==
    LET changed == ChangedFields IN
    /\ Body(shown, cache)
    /\ panel.dialog \in {"edit", "retype"}
    /\ panel.dialog = "edit" => panel.vals.name # Absent
    /\ ~Pending("patch")
    /\ \/ /\ changed # {}
          /\ Room(1)
          /\ Send(Request("patch", shown, shown, [f \in changed |-> Trim[panel.vals[f]]], "dialog"))
          /\ UNCHANGED <<queries, views>>
       \/ /\ changed = {}
          /\ Draw(shown, cache, [panel EXCEPT !.dialog = "none"], requests, observed)
    /\ UNCHANGED <<scenario, api>>

ConfirmDelete ==
    /\ Room(1)
    /\ Body(shown, cache)
    /\ panel.dialog = "delete"
    /\ ~Pending("delete")
    /\ Send(Request("delete", shown, shown, <<>>, "dialog"))
    /\ UNCHANGED <<scenario, api, queries, views>>

\* LinkNodeDialog links the node that was found and selected.
ConfirmLink(j) ==
    /\ Room(1)
    /\ Body(shown, cache)
    /\ panel.dialog = "link"
    /\ j # shown
    /\ ~Pending("link")
    /\ Send(Request("link", shown, j, <<>>, "dialog"))
    /\ UNCHANGED <<scenario, api, queries, views>>

\* The button in the row of a neighbor.
Unlink(j) ==
    LET list == cache[<<"linkedto", shown>>] IN
    /\ Room(1)
    /\ page # "wiki"
    /\ Body(shown, cache)
    /\ list.data # NoData /\ list.wire = Idle
    /\ \E n \in list.data : n.id = j
    /\ \A r \in DOMAIN requests : requests[r].op = "unlink" => ~InFlight(requests[r])
    /\ Send(Request("unlink", shown, j, <<>>, "row"))
    /\ UNCHANGED <<scenario, api, queries, views>>

\* The wiki's create dialog; other: the page it was opened on.
AddChild ==
    /\ Room(2)
    /\ Body(shown, cache)
    /\ panel.dialog = "create"
    /\ ~Pending("create")
    /\ Send(Request("create", 0, shown, Created, "child"))
    /\ UNCHANGED <<scenario, api, queries, views>>

-----------------------------------------------------------------------------
(* Callbacks                                                               *)

\* The dialog that waits for q and closes when q succeeds.
DialogOf(q) ==
    CASE q.op = "patch" -> IF "type" \in DOMAIN q.value THEN "retype" ELSE "edit"
      [] q.op \in {"delete", "create"} -> q.op
      [] q.op = "link" /\ q.by = "dialog" -> "link"
      [] OTHER -> "other"

\* Mutant: links the child to the page that is shown by now.
LinkToShown(q) == [Request("link", shown, q.node, <<>>, "child") EXCEPT !.host = q.host]

\* handleChildCreated, of the page the create dialog was opened on.
handleChildCreated(q) ==
    [Request("link", q.other, q.node, <<>>, "child") EXCEPT
        !.host = IF q.host = "left" THEN "left" ELSE "mounted"]

\* Where the page goes with the success of q.  A deletion closes the panel or
\* leaves the page, a child's link opens the child if its page is still there.
NextShown(q) ==
    IF q.op = "delete" /\ q.step = "ok" THEN 0
    ELSE IF q.op = "link" /\ q.by = "child" /\ q.host # "left"
            /\ q.step \in {"ok", "linked"} THEN q.other
    ELSE shown

\* The answer to request r of a view is there, or will not come any more.
ViewSettles(r) ==
    LET q == requests[r]
        ok == q.step = "ok"
        closes == ok /\ q.host # "left" /\ panel.dialog = DialogOf(q)
        saved == ok /\ q.by = "editor" /\ page = "wiki" /\ q.host = "mounted"
        removed == IF ok /\ q.op = "delete" THEN {<<"node", q.key>>, <<"content", q.key>>} ELSE {}
        rs == IF closes THEN Forget(Done(r), panel.dialog) ELSE Done(r)
    IN
    /\ q.by \in {"editor", "file", "dialog", "row", "child"}
    /\ Callbacks(r)
    /\ Draw(NextShown(q), Settled(cache, q),
            [panel EXCEPT !.dialog = IF closes THEN "none" ELSE @,
                          !.edit = @ /\ ~saved, !.compose = @ /\ ~saved],
            IF ok /\ q.op = "create" THEN Append(rs, handleChildCreated(q)) ELSE rs,
            observed \ removed)
    /\ UNCHANGED <<scenario, api>>

=============================================================================
