------------------------------ MODULE MCPageHover ------------------------------
(***************************************************************************)
(* The instances of PageHover.                                             *)
(***************************************************************************)
EXTENDS PageHover, FiniteSets, TLC

\* Nothing tells one table, host or part from another.
Symmetry == Permutations(Tables) \cup Permutations(Hosts) \cup Permutations(Names)
=============================================================================
