------------------------------ MODULE MCStays ------------------------------
(***************************************************************************)
(* Instances of Stays in which several workers and several stays of the    *)
(* same kind take part: which is which makes no difference.                *)
(***************************************************************************)
EXTENDS Stays, TLC

Symmetry == Permutations(Workers) \cup Permutations(Reservations)
=============================================================================
