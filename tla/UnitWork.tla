------------------------------ MODULE UnitWork ------------------------------
(***************************************************************************)
(* What the store and its runners promise of one job: its attempts are     *)
(* worked on one at a time and never two together, each under an ordinal   *)
(* of its own; it is settled once, by nobody while somebody works on it,   *)
(* and as a success only if the last attempt anyone worked on succeeded.   *)
(***************************************************************************)
EXTENDS Naturals

CONSTANT Outcomes  \* what a job can be settled as

VARIABLES
  worker,   \* the attempt somebody works on, 0 if nobody does
  last,     \* the latest attempt anybody has worked on
  passed,   \* the latest attempt whose work succeeded
  outcome   \* what the job was settled as

workVars == <<worker, last, passed, outcome>>

Init == worker = 0 /\ last = 0 /\ passed = 0 /\ outcome = "open"

Begin ==
  /\ outcome = "open" /\ worker = 0
  /\ worker' > last /\ worker' \in Nat /\ last' = worker'
  /\ UNCHANGED <<passed, outcome>>

(* The work ends: it succeeded, or it failed, was cancelled or was killed. *)
Pass == worker # 0 /\ worker' = 0 /\ passed' = worker /\ UNCHANGED <<last, outcome>>

End == worker # 0 /\ worker' = 0 /\ UNCHANGED <<last, passed, outcome>>

Settle ==
  /\ outcome = "open" /\ worker = 0
  /\ outcome' \in Outcomes
  /\ outcome' = "success" => last # 0 /\ passed = last
  /\ UNCHANGED <<worker, last, passed>>

Next == Begin \/ Pass \/ End \/ Settle

Spec == Init /\ [][Next]_workVars
=============================================================================
