-------------------------- MODULE MCCompetingStore --------------------------
(***************************************************************************)
(* Instances of CompetingStore.  Builders and blocks of one height are     *)
(* interchangeable.                                                        *)
(***************************************************************************)
EXTENDS CompetingStore, TLC

Symmetry == Permutations(Builders) \cup Permutations(Ids)
=============================================================================
