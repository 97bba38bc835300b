------------------------------ MODULE MCInbox ------------------------------
(* Instances of Inbox for TLC. *)
EXTENDS Inbox, TLC

\* Handlers and readers are interchangeable, and so are the messages.
Symmetry == Permutations(Handler) \cup Permutations(Message)
=============================================================================
