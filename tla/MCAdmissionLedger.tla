-------------------------- MODULE MCAdmissionLedger --------------------------
(* Small instances of the admission ledger for TLC. *)
EXTENDS AdmissionLedger

NoClaims == [k \in {} |-> None]
ClaimOn(key, cost, capacity, pol) ==
  key :> [cost |-> cost, capacity |-> capacity, policy |-> pol]
Queue(key, cost, capacity) == ClaimOn(key, cost, capacity, "queue")

(* A request of the default class that declares only its demand. *)
Ask(id, cores, memory, claims) ==
  [id |-> id, owner |-> None, priority |-> 0, class |-> "normal", p99 |-> 0,
   burst |-> FALSE, soft |-> FALSE, strict |-> FALSE,
   cores |-> cores, memory |-> memory, claims |-> claims @@ [k \in Keys |-> None]]

Machine(cores, memory) == [cores |-> cores, memory |-> memory]

Classic == [delay |-> [c \in Classes |-> 0], weight |-> [c \in Classes |-> 0],
            aging |-> 0, burst |-> 0]
Auto == [delay |-> [critical |-> 0, interactive |-> 1, normal |-> 2, batch |-> 3],
         weight |-> [critical |-> 3, interactive |-> 2, normal |-> 1, batch |-> 0],
         aging |-> 2, burst |-> 1]
ClassicOnly == {Classic}
AutoOnly == {Auto}
BothPolicies == {Classic, Auto}

SelfRuns == [i \in Ids |-> i]
NoChildren == EmptyFcn
-----------------------------------------------------------------------------

(* queue: cores, memory and two keys, every claim policy, external load. *)
QueueIds == {"a", "b", "c", "d", "e"}
QueueRequests ==
  { Ask("a", 1, 1, Queue("k", 1, 2)),
    Ask("b", 0, 0, Queue("k", 2, 2)),
    Ask("c", 0, 0, ClaimOn("k", 2, 2, "cancel_others") @@ Queue("j", 1, 1)),
    Ask("d", 1, 0, ClaimOn("j", 1, 1, "fail") @@ Queue("k", 0, 2)),
    Ask("e", 2, 1, Queue("j", 1, 1)) }
QueueBudgets == {Machine(2, 1)}
QueueHeadrooms == {Machine(2, 1), Machine(0, 0)}

(* auto: measured work in classes that age, one burst, soft cores, a key. *)
AutoIds == {"a", "b", "c", "d"}
AutoRequests ==
  { Ask("a", 2, 0, Queue("k", 1, 2)),
    [Ask("b", 2, 0, Queue("k", 1, 2)) EXCEPT !.class = "batch"],
    [Ask("c", 1, 0, Queue("k", 1, 2)) EXCEPT !.class = "batch", !.p99 = 1],
    [Ask("c", 1, 0, NoClaims) EXCEPT !.class = "interactive", !.p99 = 1, !.burst = TRUE],
    [Ask("d", 1, 0, ClaimOn("k", 1, 2, "fail")) EXCEPT !.p99 = 1],
    [Ask("d", 1, 1, ClaimOn("k", 2, 2, "skip")) EXCEPT !.soft = TRUE] }
AutoBudgets == {Machine(3, 1)}
AutoHeadrooms == {Machine(3, 1), Machine(2, 0)}

(* machine: hard, soft and burst leases of ranked runs on a machine that   *)
(* grows and shrinks, and restarts under either policy.                    *)
MachineIds == {"run", "job", "x"}
JobOfRun == [SelfRuns EXCEPT !["job"] = "run"]
MachineRequests ==
  { Ask("run", 2, 1, NoClaims),
    [Ask("job", 2, 1, NoClaims) EXCEPT !.owner = "run", !.soft = TRUE],
    [Ask("x", 1, 0, NoClaims) EXCEPT !.class = "interactive", !.p99 = 1, !.burst = TRUE],
    [Ask("x", 2, 2, NoClaims) EXCEPT !.strict = TRUE] }
MachineBudgets == {Machine(3, 2), Machine(2, 1)}
MachineHeadrooms == {Machine(4, 2), Machine(1, 0)}

(* family: runs that attach to a lease, and a lease that evicts another. *)
FamilyIds == {"r", "s", "j", "c1", "c2", "c3"}
FamilyRequests ==
  { Ask("r", 1, 0, Queue("k", 1, 1)),
    Ask("s", 1, 0, ClaimOn("k", 1, 1, "cancel_others")),
    [Ask("j", 0, 0, NoClaims) EXCEPT !.owner = "r"] }
Family == [c1 |-> "r", c2 |-> "c1", c3 |-> "c2"]
FamilyBudgets == {Machine(2, 0)}
-----------------------------------------------------------------------------

(* raised submit: a request submitted above the queue's rank. *)
RaisedIds == {"o", "w1", "y", "w2", "w3", "s"}
RaisedRequests ==
  { Ask("o", 2, 2, NoClaims), Ask("w1", 1, 2, NoClaims), Ask("y", 1, 0, NoClaims),
    Ask("w2", 1, 1, NoClaims), Ask("w3", 0, 1, NoClaims),
    [Ask("s", 3, 0, NoClaims) EXCEPT !.priority = 1] }
RaisedBudgets == {Machine(3, 3)}

(* capacity skew: holders of one key declare different capacities. *)
SkewIds == {"a", "w", "v"}
SkewRequests ==
  { Ask("a", 1, 0, NoClaims),
    Ask("w", 1, 0, Queue("k", 2, 2)),
    Ask("v", 0, 0, Queue("k", 0, 1)) }
SkewBudgets == {Machine(1, 0)}

(* burst restored: a burst waiter outlives the policy that lets it in. *)
FloorIds == {"a", "b", "c"}
FloorRequests ==
  { Ask("a", 1, 0, NoClaims), Ask("b", 0, 1, NoClaims),
    [Ask("c", 1, 1, NoClaims) EXCEPT !.p99 = 1, !.class = "interactive", !.burst = TRUE] }
FloorBudgets == {Machine(1, 1)}
=============================================================================
