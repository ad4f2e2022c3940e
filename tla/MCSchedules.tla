----------------------------- MODULE MCSchedules -----------------------------
(* A schedule that skips and one that queues; each may become the other.   *)
EXTENDS Schedules

Often == [cadence |-> {1, 2}, overlap |-> "skip"]
Seldom == [cadence |-> {1}, overlap |-> "queue"]

MCDecls == {Often, Seldom}
=============================================================================
