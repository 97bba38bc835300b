-------------------------- MODULE MCOrderPayment --------------------------
(* Instances of OrderPayment for TLC. *)
EXTENDS OrderPayment, TLC
===========================================================================
