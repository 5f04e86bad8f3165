-------------------------- MODULE MCNodeTransactions --------------------------
(***************************************************************************)
(* Constants for model checking NodeTransactions.                          *)
(***************************************************************************)
EXTENDS NodeTransactions, TLC

\* The handlers that lock two nodes, those that subscribe to nodes or delete them,
\* and those that work on a single node, which may be linked to itself.
Linking  == {"Create", "Delete", "Link"}
Deleting == {"Create", "Delete", "Register", "Unregister"}
Editing  == {"Create", "Delete", "Unlink", "Patch", "Retype", "Register", "Unregister"}

\* Requests differ in nothing but their name.
RequestSymmetry == Permutations(Requests)
=============================================================================
