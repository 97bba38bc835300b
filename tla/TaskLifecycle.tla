--------------------------- MODULE TaskLifecycle ---------------------------
(***************************************************************************)
(* What a user of the gateway is promised of an agent task: it is          *)
(* recorded, its automated actions are applied at most once, and it ends   *)
(* completed, with its actions applied, or failed, with none.  A task      *)
(* dispatched by the gateway itself has no row, only actions.              *)
(***************************************************************************)
EXTENDS Naturals

CONSTANT Task

VARIABLES
    row,        \* the task's status, "none" while there is no row
    applied     \* how often its automated actions were applied

Init ==
    /\ row = [t \in Task |-> "none"]
    /\ applied = [t \in Task |-> 0]

Record(t) ==
    /\ row[t] = "none"
    /\ row' = [row EXCEPT ![t] = "queued"]
    /\ UNCHANGED applied

Apply(t) ==
    /\ applied[t] = 0
    /\ row[t] \notin {"completed", "failed"}
    /\ applied' = [applied EXCEPT ![t] = 1]
    /\ UNCHANGED row

Complete(t) ==
    /\ row[t] = "queued" /\ applied[t] = 1
    /\ row' = [row EXCEPT ![t] = "completed"]
    /\ UNCHANGED applied

Fail(t) ==
    /\ row[t] = "queued" /\ applied[t] = 0
    /\ row' = [row EXCEPT ![t] = "failed"]
    /\ UNCHANGED applied

Delete(t) ==
    /\ row[t] \in {"queued", "completed", "failed"}
    /\ row' = [row EXCEPT ![t] = "deleted"]
    /\ UNCHANGED applied

Next == \E t \in Task :
    Record(t) \/ Apply(t) \/ Complete(t) \/ Fail(t) \/ Delete(t)

Spec == Init /\ [][Next]_<<row, applied>>
============================================================================
