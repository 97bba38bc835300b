------------------------------ MODULE MCSession ------------------------------
(* Instances of Session for TLC. *)
EXTENDS Session, TLC

Symmetry == Permutations(User) \cup Permutations(Tab) \cup Permutations(Request)
=============================================================================
