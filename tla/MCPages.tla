------------------------------- MODULE MCPages -------------------------------
(* Instances of Pages for TLC. *)
EXTENDS Pages, TLC

\* Every order comes in like this.
FirstRows == {[pay |-> "manual_required", del |-> "pending"]}

\* The orders, conversations, products, rules, passwords, secrets and reviews are the
\* same two names: only one page's are in use at a time, and a swap of the two is a
\* symmetry of each.
ASSUME \A names \in {Conv, Product, Rule, Password, Secret, ReviewId} : names = Order
Symmetry == Permutations(Order)
=============================================================================
