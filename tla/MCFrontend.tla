----------------------------- MODULE MCFrontend -----------------------------
(***************************************************************************)
(* Constants for model checking Frontend.                                  *)
(***************************************************************************)
EXTENDS Frontend

CONSTANTS a, b, padded, p1, p2

\* padded is a with a space behind it.
Trims == [v \in Values |-> IF v = padded THEN a ELSE v]

Node(text, place) == [name |-> a, status |-> a, type |-> a, text |-> text, place |-> place]

NewNode == Node(NoText, p1)

Nodes(R) == [i \in NodeIds |-> IF i \in DOMAIN R THEN R[i] ELSE Gone]

Scenario(page_, R, L, explored, targets, changes) ==
    [page |-> page_, rows |-> Nodes(R), links |-> L, issued |-> Len(R),
     shown |-> IF page_ \in {"node", "wiki"} THEN 1 ELSE 0,
     explored |-> explored, targets |-> targets, changes |-> changes]

\* A node on its own, without text.
One(page_, explored, changes) ==
    Scenario(page_, <<Node(NoText, p1)>>, {}, explored, {1}, changes)

\* The same, without a status and with a space behind the name.
Bare(page_, explored, changes) ==
    Scenario(page_, <<[Node(NoText, p1) EXCEPT !.name = padded, !.status = Absent]>>,
             {}, explored, {1}, changes)

\* A node with text and a node without, both on the canvas and linked.
Two(page_, explored, targets, changes) ==
    Scenario(page_, <<Node(a, p1), Node(NoText, p2)>>, {{1, 2}}, explored, targets, changes)

\* A project, its Tasks group and a task, or none yet.
OneTask(explored) ==
    Scenario("tasks", [i \in 1..3 |-> Node(NoText, p1)], {{1, 2}, {2, 3}}, explored, {}, 2)
NoTask(explored) ==
    Scenario("tasks", [i \in 1..2 |-> Node(NoText, p1)], {{1, 2}}, explored, {}, 2)
TwoTasks(explored, changes) ==
    Scenario("tasks", [i \in 1..4 |-> Node(NoText, p1)], {{1, 2}, {2, 3}, {2, 4}},
             explored, {}, changes)

\* Every gesture and every event happens in one of these, and so do most
\* pairs that work on the same state.
SmallScenarios ==
    { Two("node", {"open", "write", "fail"}, {1, 2}, 1),
      Two("node", {"open", "edit"}, {2}, 1),
      Two("node", {"open", "delete", "retype"}, {2}, 1),
      Two("node", {"open", "file", "link", "unlink"}, {2}, 2),
      Two("wiki", {"open", "create"}, {2}, 2),
      Two("wiki", {"open", "write", "fail"}, {2}, 1),
      One("wiki", {"edit", "others"}, 2),
      Bare("wiki", {"edit", "others"}, 2),
      Two("workspace", {"pan", "drag", "open", "delete"}, {1}, 1),
      Two("workspace", {"pan", "drag", "connect"}, {}, 2),
      Two("workspace", {"connect", "delete edge"}, {}, 3),
      Two("workspace", {"delete edge", "fail"}, {}, 2),
      Two("workspace", {"delete card", "click", "lose"}, {}, 2),
      Two("workspace", {"drop", "pan"}, {}, 2),
      OneTask({"filter", "move task", "lose"}),
      OneTask({"view", "move task", "fail", "focus"}),
      TwoTasks({"move task"}, 3),
      TwoTasks({"move task", "view", "lose"}, 2),
      NoTask({"create", "filter", "time"}),
      Two("filters", {}, {}, 0) }

\* For the counterexample to NewTaskAppears.
NewTaskScenarios == {NoTask({"create"})}

Windows == 1 :> {p1, p2} @@ 2 :> {p2}

StatusFilters == {{a}, {a, b}, {}}

=============================================================================
