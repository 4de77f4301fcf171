------------------------------ MODULE MCRoster ------------------------------
(* Names that nothing tells apart. *)
EXTENDS Roster, TLC

Symmetry == Permutations(Sns)
=============================================================================
