----------------------------- MODULE MCEmbeddings -----------------------------
(***************************************************************************)
(* Constants for model checking Embeddings.                                *)
(***************************************************************************)
EXTENDS Embeddings, TLC

\* Processes differ in nothing but their name.
ProcessSymmetry == Permutations(Processes)
=============================================================================
