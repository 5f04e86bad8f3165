------------------------------ MODULE Frontend ------------------------------
(***************************************************************************)
(* The frontend behind the sign-in: one page is open, the API carries out  *)
(* its requests and answers its queries in any order, loses them, and has  *)
(* other users.                                                            *)
(***************************************************************************)
EXTENDS WorkspaceCanvas, TaskBoard, WorkspaceFilters

vars == <<scenario, api, queries, requests, views, canvas, tasks, filters>>

Targets == scenario.targets

Pairs == {{i, j} : i \in NodeIds, j \in NodeIds} \ {{i} : i \in NodeIds}

ASSUME FrontendAssumption ==
    /\ MaxId \in Nat /\ {Project, Group} \subseteq NodeIds
    /\ Typed \subseteq Values /\ Created \in Row /\ Gone \notin Row
    /\ Absent \in Values /\ Trim \in [Values -> Values]
    /\ DOMAIN Area # {} /\ \A b \in DOMAIN Area : Area[b] \subseteq Places
    /\ Filters # {}
    /\ Idle \notin [name : Values, status : Values, type : Values, hasText : BOOLEAN]
                  \cup {Asked, Missing}
    /\ \A s \in Scenarios :
          /\ s.page \in {"node", "wiki", "workspace", "tasks", "filters"}
          /\ s.rows \in [NodeIds -> Row \cup {Gone}] /\ s.links \subseteq Pairs
          /\ s.issued \in 0..MaxId /\ \A i \in NodeIds : s.rows[i] # Gone => i <= s.issued
          /\ \A l \in s.links : l \subseteq 1..s.issued
          /\ s.shown \in 0..MaxId /\ (s.page \notin {"node", "wiki"} => s.shown = 0)
          /\ s.targets \subseteq NodeIds

TypeOK ==
    /\ scenario \in Scenarios
    /\ rows \in [NodeIds -> Row \cup {Gone}]
    /\ links \subseteq Pairs
    /\ issued \in 0..MaxId
    /\ observed \subseteq Keys
    /\ DOMAIN cache = Keys
    /\ \A k \in Keys : /\ cache[k].error \in {"no", "missing", "failed"}
                       /\ cache[k].stale \in BOOLEAN
                       /\ cache[k].wire # Idle => k \in observed
    /\ \A r \in DOMAIN requests :
          /\ requests[r].node \in 0..MaxId /\ requests[r].other \in 0..MaxId
          /\ requests[r].host \in {"mounted", "detached", "left"}
    /\ shown \in 0..MaxId
    /\ panel.draft \in 0..MaxId
    /\ panel.touched \subseteq DOMAIN panel.vals
    /\ dragging \subseteq DOMAIN cards
    /\ edges \subseteq Pairs
    /\ undo \subseteq Pairs
    /\ DOMAIN overrides \subseteq NodeIds /\ DOMAIN drawn \subseteq NodeIds
    /\ filter \in Filters
    /\ FiltersTypeOK

Mounted == CASE page = "workspace" -> {<<"viewport", bounds>>}
             [] page = "tasks" -> {Path(filter), <<"linkedto", Project>>}
             [] OTHER -> {<<"node", shown>>} \cap Keys

Init ==
    /\ scenario \in Scenarios
    /\ rows = scenario.rows /\ links = scenario.links /\ issued = scenario.issued
    /\ ViewsInit(scenario.shown)
    /\ CanvasInit
    /\ TasksInit /\ (page # "tasks" => filter = CHOOSE f \in Filters : TRUE)
    /\ FiltersInit /\ (page # "filters" => types = {})
    /\ QueriesInit(Mounted)

\* Which gestures and events happen in the scenario: a bound.
Does(what) == what \in scenario.explored

-----------------------------------------------------------------------------
(* The cache                                                               *)

\* The page is drawn from cache c.
Reacts(c) ==
    /\ \/ /\ page \in {"node", "wiki"}
          /\ ViewReacts(c)
          /\ UNCHANGED <<canvas, tasks>>
       \/ /\ page = "workspace"
          /\ CanvasReacts(c)
          /\ UNCHANGED tasks
       \/ /\ page = "tasks"
          /\ BoardReacts(c)
          /\ UNCHANGED <<views, canvas>>
    /\ UNCHANGED <<scenario, api, filters>>

\* The answer to the fetch of k arrives.
Arrives(k) ==
    /\ cache[k].wire \notin {Idle, Asked}
    /\ Reacts(Received(cache, k))

\* Neither the fetch of k nor its retry is answered.
FetchFails(k) ==
    /\ Does("fail")
    /\ cache[k].wire # Idle
    /\ Reacts(Unanswered(cache, k))

\* Time passes until everything of these kinds has gone stale.
TimePasses(kinds) ==
    /\ Does("time")
    /\ Aged(cache, kinds) # cache
    /\ Reacts(Aged(cache, kinds))

Refocus ==
    /\ Does("focus")
    /\ Refocused(cache) # cache
    /\ Reacts(Refocused(cache))

Others == UNCHANGED <<views, canvas, tasks, filters>>

API == \/ \E r \in DOMAIN requests : (Execute(r) \/ (Does("lose") /\ Lose(r))) /\ Others
       \/ \E k \in observed : Serve(k) /\ Others

Cache == \/ \E k \in observed : Arrives(k) \/ FetchFails(k)
         \/ \E n \in DOMAIN StaleAfter : TimePasses(StaleAfter[n])
         \/ Refocus

-----------------------------------------------------------------------------
(* The user, and other users                                               *)

ViewGesture ==
    /\ page \in {"node", "wiki", "workspace"}
    /\ \/ Does("open") /\ \E i \in Targets \cup {0} : Open(i)
       \/ Does("write") /\ (OpenEditor \/ CloseEditor \/ \E t \in Typed : Save(t))
       \/ Does("file") /\ \E t \in Typed : UploadFile(t)
       \/ \E dialog \in {"edit", "retype", "delete", "link", "create"} :
             Does(dialog) /\ OpenDialog(dialog)
       \/ CloseDialog
       \/ \E field \in Fields, v \in Typed : TypeIn(field, v)
       \/ SubmitForm
       \/ ConfirmDelete
       \/ \E j \in Targets : ConfirmLink(j)
       \/ Does("unlink") /\ \E j \in Targets : Unlink(j)
       \/ AddChild
    /\ UNCHANGED <<canvas, tasks, filters>>

CanvasGesture ==
    /\ page = "workspace"
    /\ \/ Does("pan") /\ \E b \in DOMAIN Area : Pan(b)
       \/ Does("drag") /\ \E i \in NodeIds : DragStart(i) \/ \E p \in Places : DragStop(i, p)
       \/ Does("connect") /\ \E i, j \in NodeIds : Connect(i, j)
       \/ Does("delete edge") /\ \E e \in Pairs : DeleteEdge(e) \/ Undo(e)
       \/ Does("delete card") /\ \E i \in NodeIds : DeleteCard(i)
       \/ Does("click") /\ \E p \in Places : PaneClick(p)
       \/ CancelCreate
       \/ SubmitCreate
       \/ Does("drop") /\ \E p \in Places : DropFile(p)
    /\ UNCHANGED <<tasks, filters>>

TaskGesture ==
    /\ page = "tasks"
    /\ \/ Does("filter") /\ \E f \in Filters : toggleStatus(f)
       \/ Does("view") /\ handleViewChange
       \/ Does("move task") /\ \E i \in NodeIds, s \in Values : Drop(i, s)
       \/ Does("create") /\ OpenCreateTask
       \/ CloseCreateTask
       \/ SubmitTask
    /\ UNCHANGED <<views, canvas, filters>>

FilterGesture ==
    /\ page = "filters"
    /\ FiltersNext
    /\ UNCHANGED <<scenario, api, queries, requests, views, canvas, tasks>>

OtherUsers ==
    /\ Does("others")
    /\ \E i \in Targets, v \in Values : OtherUser(i, "status", v)
    /\ Others

Callback(r) ==
    \/ page # "workspace" /\ ViewSettles(r) /\ UNCHANGED <<canvas, tasks, filters>>
    \/ page = "workspace" /\ PanelSettles(r) /\ UNCHANGED <<tasks, filters>>
    \/ CanvasSettles(r) /\ UNCHANGED <<tasks, filters>>
    \/ DropSettles(r) /\ UNCHANGED <<views, canvas, filters>>
    \/ TaskSettles(r) /\ UNCHANGED <<views, canvas, filters>>

Next == \/ API
        \/ Cache
        \/ ViewGesture
        \/ CanvasGesture
        \/ TaskGesture
        \/ BoardRedraws /\ UNCHANGED <<views, canvas, filters>>
        \/ FilterGesture
        \/ OtherUsers
        \/ \E r \in DOMAIN requests : Callback(r)

Spec == Init /\ [][Next]_vars

-----------------------------------------------------------------------------
(* Properties                                                              *)

\* Everything that was done is settled, and the cache was told all of it.
AllTold == \A r \in DOMAIN requests :
              ~InFlight(requests[r]) /\ ~requests[r].gap /\ requests[r].op # "move"

\* When every mutation has settled, whatever the cache holds as fresh is what
\* the API would answer now: on every page, whichever queries were mounted,
\* aborted, refetched or answered late while the mutations were under way.
CacheTellsTheTruth ==
    AllTold => \A k \in Keys :
        LET e == cache[k] IN
        ~e.stale /\ e.wire = Idle /\ e.error = "no" /\ e.data # NoData
            => e.data = Answer(k, rows, links)

\* Of a field its user has not typed in since it was filled, a form sends at
\* most what the cache shows of the node it is sent for, without the spaces
\* around it or as the status of a node without one, never an older value.
FormsSendWhatIsShown ==
    [][\A r \in DOMAIN requests' \ DOMAIN requests :
           requests'[r].op = "patch" /\ requests'[r].by = "dialog"
               => /\ requests'[r].node = shown
                  /\ \A f \in DOMAIN requests'[r].value \ panel.touched :
                        LET field == NodeData(shown, cache)[f] IN
                        /\ requests'[r].value[f] = Trim[field]
                        /\ \/ Trim[field] # field
                           \/ f = "status" /\ Trim[field] = Absent]_vars

\* WikiW2.test.tsx, the rename flow: a form sends only fields its user has typed
\* in since it was filled.  The code does not keep it for the status.
FormsKeepTheRest ==
    [][\A r \in DOMAIN requests' \ DOMAIN requests :
           requests'[r].op = "patch" /\ requests'[r].by = "dialog"
               => DOMAIN requests'[r].value \subseteq panel.touched]_vars

\* A page added in the wiki is linked under the page its dialog was opened on,
\* wherever the user has gone since.
ChildOfItsPage ==
    \A r \in DOMAIN requests :
        requests[r].op = "link" /\ requests[r].by = "child"
            => \E q \in DOMAIN requests : /\ requests[q].op = "create"
                                          /\ requests[q].node = requests[r].other
                                          /\ requests[q].other = requests[r].node

\* No answer moves or removes the card under the mouse.
DraggedStays ==
    [][\A i \in dragging \cap dragging' : i \in DOMAIN cards' /\ cards'[i] = cards[i]]_vars

\* Every request has succeeded in its turn, and what the canvas was last
\* answered is fresh.
CanvasRests ==
    LET e == cache[<<"viewport", bounds>>] IN
    /\ page = "workspace" /\ dragging = {}
    /\ \A r \in DOMAIN requests : requests[r].step = "done" /\ ~requests[r].gap
    /\ e.wire = Idle /\ ~e.stale /\ e.data # NoData

\* The nodes of pair l were linked or unlinked in the panel, behind the canvas.
InPanel(l) ==
    \E r \in DOMAIN requests : /\ requests[r].op \in {"link", "unlink"}
                               /\ requests[r].by # "canvas"
                               /\ {requests[r].node, requests[r].other} = l

\* When every change has succeeded and the answer is there, the edges drawn
\* between the nodes of the answer are their links, except for a pair that the
\* panel has changed, and their cards stand where the API or the answer has them.
CanvasAgrees ==
    LET nodes == Listed(cache, bounds) IN
    CanvasRests
        => /\ \A l \in Pairs : l \subseteq Ids(nodes) /\ ~InPanel(l)
                    => (l \in edges) = (l \in Edges(nodes))
           /\ \A n \in nodes : n.id \in DOMAIN cards =>
                  \/ cards[n.id] = n.place
                  \/ Exists(rows, n.id) /\ cards[n.id] = rows[n.id].place

\* A drop of task i on the board that is mounted is under way.
Dropped(i) == \E r \in DOMAIN requests : /\ InFlight(requests[r])
                                         /\ requests[r].by = "board"
                                         /\ requests[r].host = "mounted"
                                         /\ requests[r].node = i

\* The tasks drawn with a status that no drop asks for.
Leftover == {i \in DOMAIN overrides : ~Dropped(i)}

\* No answer leaves the status of its drop behind, whatever failed and whatever
\* was dropped in the meantime.  Only another drop does, of another task, which
\* brings back a status that was cleared but still drawn.
LeftByDropsOnly ==
    [][\A i \in Leftover' \ Leftover :
           /\ i \in DOMAIN drawn \ DOMAIN overrides
           /\ \E r \in DOMAIN requests' \ DOMAIN requests :
                 requests'[r].by = "board" /\ requests'[r].node # i]_vars

\* TaskKanbanBoard.tsx: a status is drawn instead of the task's own only while a
\* drop asks for it.  The code does not keep it: see LeftByDropsOnly.
OverridesArePending == Leftover = {}

\* docs/architecture/frontend-bootstrap.md: once a new task is linked to its
\* project, the list is fetched again or shows it.
NewTaskAppears ==
    \A r \in DOMAIN requests :
        LET e == cache[Path(filter)] IN
        requests[r].by = "task" /\ requests[r].op = "link" /\ requests[r].step = "done"
            => \/ e.data = NoData \/ e.stale \/ e.wire # Idle
               \/ filter # {} /\ rows[requests[r].node].status \notin filter
               \/ \E n \in e.data : n.id = requests[r].node

=============================================================================
