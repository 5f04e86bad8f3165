---------------------------- MODULE MCNodeGraph ----------------------------
(***************************************************************************)
(* Constants for model checking NodeGraph; the .cfg files choose the       *)
(* aspect a run is about and give the other columns a single value.        *)
(***************************************************************************)
EXTENDS NodeGraph, TLC

CONSTANTS u1, u2

\* Callers: u1 without permissions beyond its own, u2 as an administrator.
OneCaller   == {[id |-> u1, admin |-> FALSE]}
WithAdmin   == {[id |-> u1, admin |-> FALSE], [id |-> u2, admin |-> TRUE]}

EveryKind   == {{}}
SomeKinds   == {{}, {"Content"}}

\* Others may read, or write without reading.
EitherWay   == {{"Read"}, {"Write"}}
ReadOnly    == {{"Read"}}

\* A patch that sets the whole label, and one that sets nothing new.
Relabels    == {[l \in Labels |-> k] : k \in Labels}
WithNoop    == Relabels \cup {[l \in Labels |-> l]}

\* Ids are only ever compared for equality.
Symmetry == Permutations(NodeIds)
=============================================================================
