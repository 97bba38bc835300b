--------------------------- MODULE MCSubscription ---------------------------
(* Instances of Subscription for TLC. *)
EXTENDS Subscription, TLC

RequestSymmetry == Permutations(Request)
=============================================================================
