----------------------------- MODULE MCJobQueue -----------------------------
(* JobQueue on a handful of jobs: one slot of each kind, so that a second  *)
(* job is refused, and one retry, so that a chain has two attempts.        *)
EXTENDS JobQueue

OneSlotEach == [k \in Slotted |-> 1]
=============================================================================
