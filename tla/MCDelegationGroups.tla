------------------------- MODULE MCDelegationGroups -------------------------
(* DelegationGroups instantiated for TLC: the .cfg files give the constants. *)
EXTENDS DelegationGroups, TLC

\* The tasks of a turn are interchangeable.
Symmetric == Permutations(Tasks)
=============================================================================
