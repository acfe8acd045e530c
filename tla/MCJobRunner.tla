---------------------------- MODULE MCJobRunner ----------------------------
(***************************************************************************)
(* Small instances of JobRunner for TLC.                                   *)
(***************************************************************************)
EXTENDS JobRunner, TLC

\* Tokens, workers and jobs are only compared for equality.
Symmetry == Permutations(Tokens) \cup Permutations(Workers) \cup Permutations(Jobs)

=============================================================================
