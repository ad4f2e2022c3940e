------------------------ MODULE MCConcurrencyGroups -------------------------
(* Jobs of three pipelines that share two groups, with capacities that     *)
(* differ, as after a change of one pipeline: c takes the first group from *)
(* others and then may have to wait for the second.                        *)
EXTENDS ConcurrencyGroups, TLC

Group(cost, capacity, policy, timed) ==
  [cost |-> cost, capacity |-> capacity, policy |-> policy, timed |-> timed]

MCDeclared ==
  [a |-> (1 :> Group(1, 3, "queue", FALSE)) @@ (2 :> Group(1, 1, "queue", FALSE)),
   b |-> (1 :> Group(2, 3, "queue", TRUE)),
   c |-> (1 :> Group(2, 4, "cancel_others", FALSE)) @@ (2 :> Group(1, 1, "queue", FALSE))]
=============================================================================
