--------------------------- MODULE AdmissionLedger ---------------------------
(***************************************************************************)
(* The machine admission ledger of the local controller                    *)
(* (internal/admission): who holds the machine's cores, memory and         *)
(* semaphores, who waits for them, and in which order waiters are let in.  *)
(*                                                                         *)
(* Every exported method of Ledger runs under one mutex and many end in    *)
(* the loop `promote`.  An operation is one action that takes the mutex;   *)
(* mu says what the operation still has to do before it gives it back, and *)
(* no other operation is enabled meanwhile:                                *)
(*    "promote"  run the promote loop (one Promote step per iteration)     *)
(*    "prune"    the same, then pruneOverrides                             *)
(*    "check"    only mustHoldInvariants is left                           *)
(* Unlock is the end of every operation: mustHoldInvariants, which panics  *)
(* when the ledger is inconsistent ("panic", the daemon is gone).  A       *)
(* daemon that starts again is "restored", or "refused" when its snapshot  *)
(* is not one Restore accepts.                                             *)
(*                                                                         *)
(* Data abstraction.  A lease id is its sequence number, and stands for    *)
(* its token.  Semaphore holds are kept per lease: the code's list is in   *)
(* grant order, which is the order of lease ids.  Admission ranks are      *)
(* unique, so the arrival counter, a tie-break on them, is left out, and   *)
(* so are events, the bypass counter and the last capacity of a key, which *)
(* decide nothing.                                                         *)
(***************************************************************************)
EXTENDS Integers, SequencesExt

CONSTANTS
  Ids,         \* participants: runs, and jobs that admit on their own
  None,        \* the empty id
  RunOf,       \* the run a participant belongs to (HolderRef.RunID)
  Keys,        \* semaphore keys
  Requests,    \* the requests callers may submit
  ParentOf,    \* the runs that attach to a lease, and the run that started each
  Budgets,     \* machine budgets the ledger may be opened with
  Resizes,     \* budgets the daemon may derive later
  Headrooms,   \* headrooms a host sample may report
  Policies,    \* scheduling policies; the ledger starts under any of them
  Priorities,  \* ranks an operator may set
  MaxAdmit     \* bound on the admission counter

Host    == {"cores", "memory"}
Children == DOMAIN ParentOf
Classes == {"critical", "interactive", "normal", "batch"}
Claim   == [capacity : Nat \ {0}, cost : Nat,
            policy : {"queue", "fail", "skip", "cancel_others"}]
Policy  == [delay : [Classes -> Nat], weight : [Classes -> Nat],
            aging : Nat, burst : Nat]

ASSUME NamesAssumption ==
  /\ None \notin Ids \cup Claim
  /\ Keys \cap Host = {}
  /\ RunOf \in [Ids -> Ids]
  /\ Children \subseteq Ids
  /\ \A m \in Children : ParentOf[m] \in Ids \cup {None}

ASSUME HostAssumption ==
  /\ Budgets \subseteq [Host -> Nat] /\ Budgets # {}
  /\ Resizes \subseteq [Host -> Nat] /\ Headrooms \subseteq [Host -> Nat]
  /\ Priorities \subseteq Int
  /\ MaxAdmit \in Nat

ASSUME PolicyAssumption == Policies \subseteq Policy

(* The keys x (a request, a waiter or a lease) has a claim on. *)
Claimed(x) == {k \in Keys : x.claims[k] # None}

(* What normalize and normalizeClaim accept before looking at the totals. *)
ASSUME RequestAssumption ==
  \A q \in Requests :
    /\ q.id \in Ids \ Children
    /\ q.owner \in Ids \cup {None}
    /\ q.priority \in Int
    /\ q.class \in Classes
    /\ q.p99 \in Nat
    /\ q.cores \in Nat /\ q.memory \in Nat
    /\ q.soft \in BOOLEAN /\ q.strict \in BOOLEAN /\ q.burst \in BOOLEAN
    /\ q.claims \in [Keys -> Claim \cup {None}]
    /\ \A k \in Claimed(q) : q.claims[k].cost <= q.claims[k].capacity

VARIABLES
  total,      \* [Host -> Nat]: totalMilliCores, totalMemory
  headroom,   \* [Host -> Nat]: headroomMilliCores, headroomMemory
  used,       \* [Host -> Int]: usedMilliCores, usedMemory
  sems,       \* [Keys -> holds]: the holds on the key, by lease
  leases,     \* the live leases, by id
  waiters,    \* the queue, in service order
  overrides,  \* priorityOverrides, by run
  leaseSeq, admitSeq,
  policy,     \* the scheduling policy
  burstFloor, \* restoredBurstLimit
  mu          \* who holds the mutex, and for what (see above)

vars == <<total, headroom, used, sems, leases, waiters, overrides,
          leaseSeq, admitSeq, policy, burstFloor, mu>>

-----------------------------------------------------------------------------
(* Identities *)

Put(f, x, v) == [y \in DOMAIN f \cup {x} |-> IF y = x THEN v ELSE f[y]]

Holding(i) == \E l \in DOMAIN leases : i \in leases[l].members

LeaseOf(i) == CHOOSE l \in DOMAIN leases : i \in leases[l].members

Waiting == {waiters[i].id : i \in DOMAIN waiters}

Fresh(i) == ~Holding(i) /\ i \notin Waiting

BelongsToRun(id, owner, run) == run \in {id, owner, RunOf[id]}

RunPresent(run, queue, held) ==
  \/ \E i \in DOMAIN queue : BelongsToRun(queue[i].id, queue[i].owner, run)
  \/ \E l \in DOMAIN held : \/ BelongsToRun(held[l].request, held[l].owner, run)
                            \/ run \in held[l].members

OverrideFor(ranks, id, owner, carried) ==
  IF id \in DOMAIN ranks THEN ranks[id]
  ELSE IF RunOf[id] \in DOMAIN ranks THEN ranks[RunOf[id]]
  ELSE IF owner \in DOMAIN ranks THEN ranks[owner]
  ELSE carried

PrunedOverrides ==
  LET present == {r \in DOMAIN overrides : RunPresent(r, waiters, leases)}
  IN  [r \in present |-> overrides[r]]

OwnerAdmissionRank(owner) ==
  IF owner # None /\ Holding(owner) THEN leases[LeaseOf(owner)].admit
                                    ELSE admitSeq + 1

-----------------------------------------------------------------------------
(* Resources: the host's two and one per semaphore key *)

(* The positive cost x (a spec or a lease) has on r; a cancel_others claim *)
(* evicts instead of waiting and so costs the queue nothing.               *)
Cost(x, r) ==
  IF r \in Host THEN x[r]
  ELSE IF r \in Claimed(x) /\ x.claims[r].policy # "cancel_others"
       THEN x.claims[r].cost ELSE 0

FifoResources(s) ==
  {r \in Host : s[r] > 0}
    \cup {k \in Claimed(s) : s.claims[k].policy # "cancel_others"}

Compete(a, b) == \E r \in Host \cup Keys : Cost(a, r) > 0 /\ Cost(b, r) > 0

(* Mutant: a headroom above the budget is granted from. *)
OfferedByHost(r) == headroom[r]

Offered(r) == Min({total[r], headroom[r]})

LiveHolds(k) == {l \in DOMAIN sems[k] : sems[k][l].by = 0}

HoldCost(k, held) == SumFunctionOnSet([l \in held |-> sems[k][l].cost], held)

SemEffectiveCapacity(k, held, incoming) ==
  Min({sems[k][l].capacity : l \in held} \cup {incoming})

(* Whether claim c on k fits beside the holds of the leases in held. *)
FitsBeside(k, c, held) ==
  HoldCost(k, held) + c.cost <= SemEffectiveCapacity(k, held, c.capacity)

SemBudgetFits(k, c) == FitsBeside(k, c, LiveHolds(k))

(* Mutant: an idle machine counts as idle only when the host offers some. *)
IdleAndOffered == \A r \in Host : used[r] = 0 /\ Offered(r) > 0

ResourcesIdle ==
  /\ \A r \in Host : used[r] = 0
  /\ \A k \in Keys : \A l \in LiveHolds(k) : sems[k][l].cost = 0

SoftCoresFit(cost) ==
  \/ cost = 0
  \/ used["cores"] = 0 /\ cost <= Offered("cores")
  \/ used["cores"] > 0 /\ used["cores"] < total["cores"]
                       /\ used["cores"] <= Offered("cores")

CoresFitBurst(cost) ==
  /\ policy.burst > 0 /\ cost <= policy.burst
  /\ used["cores"] <= total["cores"]
  /\ used["cores"] + cost <= total["cores"] + policy.burst
  /\ \A l \in DOMAIN leases : ~leases[l].burst

CoresFit(s) ==
  \/ IF s.soft THEN SoftCoresFit(s.cores)
     ELSE s.cores = 0 \/ used["cores"] + s.cores <= Offered("cores")
  \/ s.burst /\ CoresFitBurst(s.cores)

HostFits(s) ==
  \/ ResourcesIdle
  \/ /\ CoresFit(s)
     /\ s.memory = 0 \/ used["memory"] + s.memory <= Offered("memory")

Fits(s) ==
  /\ HostFits(s)
  /\ \A k \in Claimed(s) :
        s.claims[k].policy = "cancel_others" \/ SemBudgetFits(k, s.claims[k])

-----------------------------------------------------------------------------
(* Service order.  now is the admission counter ages are taken at. *)

ClassScore(s, now) ==
  IF policy.aging = 0 THEN 0
  ELSE policy.weight[s.class] + Max({0, now - s.admit}) \div policy.aging

(* waiterLess, and waiterPrecedesSpec for a newcomer's later rank. *)
Outranks(a, b, now) ==
  LET left == ClassScore(a, now)  right == ClassScore(b, now)
  IN  \/ a.priority > b.priority
      \/ /\ a.priority = b.priority
         /\ left > right \/ (left = right /\ a.admit < b.admit)

IsOrdered(queue, now) ==
  \A i, j \in DOMAIN queue : i < j => Outranks(queue[i], queue[j], now)

Arrangements(queue) ==
  {q \in [DOMAIN queue -> {queue[i] : i \in DOMAIN queue}] :
     \A i \in DOMAIN queue : \E j \in DOMAIN queue : q[j] = queue[i]}

(* Mutant: sortWaiters is not called. *)
Unsorted(queue, now) == {queue}

(* What sortWaiters leaves: the ordered arrangement of the queue. *)
Sorted(queue, now) == {q \in Arrangements(queue) : IsOrdered(q, now)}

(* How many waiters at the front precede s. *)
Ahead(queue, s, now) ==
  Max({n \in 0..Len(queue) : \A i \in 1..n : Outranks(queue[i], s, now)})

-----------------------------------------------------------------------------
(* Backfill: a waiter that cannot start reserves room for itself beside    *)
(* every younger lease; who comes later may start only outside that room,  *)
(* or, when its duration is known, within the delay the waiter's class     *)
(* still tolerates.                                                        *)

ConflictsWithWaiter(lease, w) ==
  \E k \in Claimed(w) :
    /\ Cost(w, k) > 0 /\ Cost(lease, k) > 0
    /\ Cost(lease, k) + Cost(w, k) > w.claims[k].capacity

Capacity(w, r) ==
  IF r \in Host THEN Offered(r)
  ELSE SemEffectiveCapacity(r, LiveHolds(r), w.claims[r].capacity)

Reservation(w) ==
  LET younger == {l \in DOMAIN leases : /\ leases[l].admit > w.admit
                                        /\ ~ConflictsWithWaiter(leases[l], w)}
  IN  [slack |-> Max({0, policy.delay[w.class] - w.delay}),
       room  |-> [r \in FifoResources(w) |->
                    Capacity(w, r) - Cost(w, r)
                      - SumFunctionOnSet([l \in younger |-> Cost(leases[l], r)],
                                         younger)]]

(* Mutant: only the host's room is reserved, not a semaphore's. *)
ViolatedByHost(s, reserved) ==
  \E v \in reserved :
    /\ s.p99 = 0 \/ s.p99 > v.slack
    /\ \E r \in Host \cap DOMAIN v.room : s[r] > 0 /\ s[r] > v.room[r]

ViolatedBy(s, reserved) ==
  \E v \in reserved :
    /\ s.p99 = 0 \/ s.p99 > v.slack
    /\ \E r \in DOMAIN v.room : Cost(s, r) > 0 /\ Cost(s, r) > v.room[r]

UsedOf(r, held) ==
  IF r \in Host THEN SumFunctionOnSet([l \in held |-> leases[l][r]], held)
  ELSE HoldCost(r, LiveHolds(r) \cap held)

(* w would fit on r now but for leases younger than it. *)
StarvedByYounger(w, r) ==
  LET older == {l \in DOMAIN leases : leases[l].admit <= w.admit}
  IN  /\ UsedOf(r, DOMAIN leases) + Cost(w, r) > Capacity(w, r)
      /\ UsedOf(r, older) + Cost(w, r) <= Capacity(w, r)

(* Nothing scanned reserves or blocks what s needs. *)
Unhindered(s, scan) ==
  ~ViolatedBy(s, scan.reserved) /\ scan.blocked \cap FifoResources(s) = {}

(* One iteration of scanWaiters: what waiter w, blocked or not, leaves to  *)
(* those behind it.                                                        *)
ScanStep(scan, w) ==
  LET rs == FifoResources(w)
      reserves == scan.reserved \cup {Reservation(w)}
  IN  IF ViolatedBy(w, scan.reserved) THEN [scan EXCEPT !.reserved = reserves]
      ELSE IF scan.blocked \cap rs # {} \/ Fits(w)
           THEN [scan EXCEPT !.blocked = @ \cup rs]
      ELSE [scan EXCEPT !.reserved = reserves,
                        !.blocked  = @ \cup {r \in rs : StarvedByYounger(w, r)}]

(* The scan of the first n waiters, for every n. *)
ScanWaiters(queue) ==
  LET scan[n \in 0..Len(queue)] ==
        IF n = 0 THEN [blocked |-> {}, reserved |-> {}]
        ELSE ScanStep(scan[n - 1], queue[n])
  IN  scan

FifoBlocked(s, queue, now) ==
  ~Unhindered(s, ScanWaiters(queue)[Ahead(queue, s, now)])

Promotable(i) ==
  Fits(waiters[i]) /\ Unhindered(waiters[i], ScanWaiters(waiters)[i - 1])

(* nextPromotable: the first waiter in service order that can start. *)
IsNextPromotable(i) == Promotable(i) /\ \A j \in 1..(i - 1) : ~Promotable(j)

AnyPromotable == \E i \in DOMAIN waiters : Promotable(i)

(* Mutant: the waiter right before s is not charged. *)
RecordEarlierBackfill(queue, n, s) ==
  [i \in DOMAIN queue |->
     IF i < n /\ ~Fits(queue[i]) /\ Compete(queue[i], s)
     THEN [queue[i] EXCEPT !.delay = @ + s.p99] ELSE queue[i]]

(* The first n waiters are charged the time s may hold what they wait for. *)
RecordBackfill(queue, n, s) ==
  [i \in DOMAIN queue |->
     IF i <= n /\ ~Fits(queue[i]) /\ Compete(queue[i], s)
     THEN [queue[i] EXCEPT !.delay = @ + s.p99] ELSE queue[i]]

(* A fail or skip claim that would have to wait ends the request. *)
TerminalClaim(s, queue) ==
  \E k \in Claimed(s) :
    /\ s.claims[k].policy \in {"fail", "skip"}
    /\ \/ \E i \in DOMAIN queue : k \in FifoResources(queue[i])
       \/ ~SemBudgetFits(k, s.claims[k])

-----------------------------------------------------------------------------
(* Granting *)

(* Oldest first, the live holds a cancel_others claim supersedes: as few   *)
(* as make it fit.                                                         *)
Evicted(k, c) ==
  IF c.policy # "cancel_others" THEN {}
  ELSE LET live == LiveHolds(k)
           enough == {m \in live \cup {0} :
                        FitsBeside(k, c, {l \in live : l > m})}
       IN  {l \in live : l <= Min(enough)}

(* Mutant: a new mark replaces the ones made before. *)
OrphanAnew(held, dependents) ==
  [l \in DOMAIN held |->
     [held[l] EXCEPT !.orphaned = dependents \cap held[l].members]]

(* Mark the members of held that depend on a lease that ended. *)
Orphan(held, dependents) ==
  [l \in DOMAIN held |->
     [held[l] EXCEPT !.orphaned = @ \cup (dependents \cap held[l].members)]]

NewLease(s) ==
  [request |-> s.id, owner |-> s.owner, admit |-> s.admit,
   ownerAdmit |-> s.ownerAdmit, cores |-> s.cores, memory |-> s.memory,
   soft |-> s.soft, burst |-> s.burst /\ ~HostFits([s EXCEPT !.burst = FALSE]),
   claims |-> s.claims, members |-> {s.id}, parents |-> [m \in Ids |-> None],
   dependents |-> {}, orphaned |-> {}]

Grant(s) ==
  LET id == leaseSeq + 1
      out == [k \in Claimed(s) |-> Evicted(k, s.claims[k])]
      evicted == UNION {out[k] : k \in DOMAIN out}
      told == UNION {leases[l].dependents : l \in evicted}
  IN  /\ leaseSeq' = id
      /\ leases' = Put(Orphan(leases, told), id, NewLease(s))
      /\ used' = [r \in Host |-> used[r] + s[r]]
      /\ sems' = [k \in Keys |->
           IF k \notin Claimed(s) THEN sems[k]
           ELSE [l \in DOMAIN sems[k] \cup {id} |->
                   IF l = id THEN [cost |-> s.claims[k].cost,
                                   capacity |-> s.claims[k].capacity, by |-> 0]
                   ELSE IF l \in out[k] THEN [sems[k][l] EXCEPT !.by = id]
                   ELSE sems[k][l]]]

-----------------------------------------------------------------------------
(* Operations *)

EmptyFcn == [x \in {} |-> None]

Init ==
  /\ total \in Budgets
  /\ headroom = total
  /\ used = [r \in Host |-> 0]
  /\ sems = [k \in Keys |-> EmptyFcn]
  /\ leases = EmptyFcn
  /\ waiters = <<>>
  /\ overrides = EmptyFcn
  /\ leaseSeq = 0 /\ admitSeq = 0
  /\ policy \in Policies
  /\ burstFloor = 0
  /\ mu = "free"

(* Requests the machine can never hold are refused and leave no trace. *)
Admissible(q) ==
  /\ q.strict => q.cores <= total["cores"]
  /\ q.memory <= total["memory"]

Normalize(q) ==
  [id |-> q.id, owner |-> q.owner, admit |-> admitSeq + 1,
   ownerAdmit |-> OwnerAdmissionRank(q.owner),
   priority |-> OverrideFor(overrides, q.id, q.owner, q.priority),
   class |-> q.class, p99 |-> q.p99, burst |-> q.burst /\ policy.burst > 0,
   soft |-> q.soft,
   cores |-> Min({q.cores, total["cores"]}), memory |-> q.memory,
   claims |-> q.claims, delay |-> 0]

Submittable(q) ==
  /\ mu = "free" /\ admitSeq < MaxAdmit
  /\ Fresh(q.id) /\ Admissible(q)

(* s starts at once, over the waiters of queue that outrank it. *)
GrantFresh(s, queue) ==
  /\ admitSeq' = s.admit
  /\ waiters' = RecordBackfill(queue, Ahead(queue, s, s.admit), s)
  /\ Grant(s)
  /\ mu' = "promote"
  /\ UNCHANGED <<total, headroom, overrides, policy, burstFloor>>

(* s joins the queue; todo is what Submit does after it. *)
Enqueue(s, queue, todo) ==
  /\ admitSeq' = s.admit
  /\ waiters' \in Sorted(Append(queue, s), s.admit)
  /\ mu' = todo
  /\ UNCHANGED <<total, headroom, used, sems, leases, overrides, leaseSeq,
                 policy, burstFloor>>

MayStart(s, queue, now) == ~FifoBlocked(s, queue, now) /\ Fits(s)

SubmitGranted(q) ==
  /\ Submittable(q) /\ policy.aging = 0
  /\ LET s == Normalize(q)
     IN  MayStart(s, waiters, admitSeq) /\ GrantFresh(s, waiters)

SubmitQueued(q) ==
  /\ Submittable(q) /\ policy.aging = 0
  /\ LET s == Normalize(q)
     IN  /\ ~MayStart(s, waiters, admitSeq)
         /\ ~TerminalClaim(s, waiters)
         /\ Enqueue(s, waiters, "check")

(* submitWithAging: the newcomer ages the queue before it is judged. *)
SubmitAging(q) ==
  /\ Submittable(q) /\ policy.aging > 0
  /\ \E queue \in Sorted(waiters, admitSeq + 1) :
       LET s == Normalize(q)
           terminal == TerminalClaim(s, queue)
       IN  /\ ~MayStart(s, waiters, admitSeq) => ~terminal
           /\ \/ /\ MayStart(s, queue, s.admit)
                 /\ GrantFresh(s, queue)
              \/ /\ ~MayStart(s, queue, s.admit) /\ ~terminal
                 /\ Enqueue(s, queue, "promote")
              \/ /\ ~MayStart(s, queue, s.admit) /\ terminal
                 /\ admitSeq' = s.admit
                 /\ waiters' = queue
                 /\ mu' = "check"
                 /\ UNCHANGED <<total, headroom, used, sems, leases, overrides,
                                leaseSeq, policy, burstFloor>>

(* The waiter keeps its rank, its owner and the delay it has borne. *)
ReplaceWaiter(q) ==
  /\ mu = "free" /\ Admissible(q)
  /\ \E i \in DOMAIN waiters :
       LET w == waiters[i]
           s == [Normalize(q) EXCEPT
                   !.admit = w.admit, !.owner = w.owner,
                   !.ownerAdmit = w.ownerAdmit, !.delay = w.delay,
                   !.priority = OverrideFor(overrides, w.id, w.owner, @)]
       IN  /\ w.id = q.id
           /\ waiters' \in Sorted([waiters EXCEPT ![i] = s], admitSeq)
  /\ mu' = "promote"
  /\ UNCHANGED <<total, headroom, used, sems, leases, overrides, leaseSeq,
                 admitSeq, policy, burstFloor>>

(* Mutant: nobody is promoted into the room a cancelled waiter reserved. *)
CancelWithoutPromote(i) ==
  /\ mu = "free"
  /\ i \in DOMAIN waiters
  /\ waiters' = RemoveAt(waiters, i)
  /\ mu' = "check"
  /\ UNCHANGED <<total, headroom, used, sems, leases, overrides, leaseSeq,
                 admitSeq, policy, burstFloor>>

CancelWaiter(i) ==
  /\ mu = "free"
  /\ i \in DOMAIN waiters
  /\ waiters' = RemoveAt(waiters, i)
  /\ mu' = "prune"
  /\ UNCHANGED <<total, headroom, used, sems, leases, overrides, leaseSeq,
                 admitSeq, policy, burstFloor>>

-----------------------------------------------------------------------------
(* Members of a lease and their lineage *)

Root(le) == IF le.owner = None THEN le.request ELSE le.owner

(* The nearest live ancestor a child of parent hangs from, or None when    *)
(* that ancestor belongs to another lease.                                 *)
ResolveParent(l, parent) ==
  LET le == leases[l]
      known(o, p) == leases[o].parents[p] # None \/ p = leases[o].request
      up[p \in Ids] ==
        IF Holding(p) THEN
          IF LeaseOf(p) = l \/ p = le.owner THEN p ELSE None
        ELSE IF p \in {Root(le), le.request} THEN Root(le)
        ELSE IF le.parents[p] # None THEN up[le.parents[p]]
        ELSE IF \E o \in DOMAIN leases \ {l} : known(o, p) THEN None
        ELSE Root(le)
  IN  IF parent = None THEN Root(le) ELSE up[parent]

Attach(l, m) ==
  LET parent == ResolveParent(l, ParentOf[m])
  IN  /\ mu = "free"
      /\ l \in DOMAIN leases /\ Fresh(m)
      /\ parent \in Ids
      /\ leases' = [leases EXCEPT ![l].members = @ \cup {m},
                                  ![l].parents[m] = parent]
      /\ mu' = "check"
      /\ UNCHANGED <<total, headroom, used, sems, waiters, overrides, leaseSeq,
                     admitSeq, policy, burstFloor>>

Depend(m, l) ==
  /\ mu = "free"
  /\ l \in DOMAIN leases /\ Holding(m)
  /\ leases' = [leases EXCEPT ![l].dependents = @ \cup {m}]
  /\ mu' = "check"
  /\ UNCHANGED <<total, headroom, used, sems, waiters, overrides, leaseSeq,
                 admitSeq, policy, burstFloor>>

(* Mutant: an entry goes with its run although children still hang from it. *)
DepartedAlone(parents, live, m) == {m}

(* The entries of parents that m's departure leaves without a purpose: m's *)
(* own, and upwards while the next one is gone and no child names it.      *)
Departed(parents, live, m) ==
  LET known == {c \in Ids : parents[c] # None}
      walk[n \in 0..Cardinality(known)] ==
        IF n = 0 THEN [gone |-> {}, at |-> m]
        ELSE LET w == walk[n - 1]
                 kept == known \ w.gone
                 stops == \/ w.at \notin kept
                          \/ \E c \in kept : parents[c] = w.at
             IN  IF stops THEN w
                 ELSE [gone |-> w.gone \cup {w.at},
                       at |-> IF parents[w.at] \in live THEN None
                              ELSE parents[w.at]]
  IN  walk[Cardinality(known)].gone

(* Mutant: other leases go on naming m as a dependent. *)
LeaveDependent(l, m) ==
  LET live == leases[l].members \ {m}
      gone == Departed(leases[l].parents, live, m)
  IN  [leases EXCEPT ![l].members = live, ![l].orphaned = @ \ {m},
         ![l].parents = [c \in Ids |-> IF c \in gone THEN None ELSE @[c]]]

(* The lease without member m, and no lease naming m as a dependent. *)
Leave(l, m) ==
  LET le == leases[l]
      live == le.members \ {m}
      gone == Departed(le.parents, live, m)
      left == [le EXCEPT !.members = live, !.orphaned = @ \ {m},
                 !.parents = [c \in Ids |-> IF c \in gone THEN None ELSE @[c]]]
  IN  [o \in DOMAIN leases |->
         LET x == IF o = l THEN left ELSE leases[o]
         IN  [x EXCEPT !.dependents = @ \ {m}]]

(* Mutant: a freed lease keeps its hold. *)
KeepHold(k, l) == sems[k]

(* Mutant: dropping one hold also drops the superseded ones. *)
DropSupersededHolds(k, l) == [h \in LiveHolds(k) \ {l} |-> sems[k][h]]

DropHold(k, l) == [h \in DOMAIN sems[k] \ {l} |-> sems[k][h]]

FreedHost(l) == [r \in Host |-> used[r] - leases[l][r]]

(* A member leaves and others stay. *)
ReleaseMember(l, m) ==
  /\ mu = "free"
  /\ l \in DOMAIN leases /\ m \in leases[l].members
  /\ leases[l].members # {m}
  /\ leases' = Leave(l, m)
  /\ mu' = "check"
  /\ UNCHANGED <<total, headroom, used, sems, waiters, overrides, leaseSeq,
                 admitSeq, policy, burstFloor>>

(* The last member leaves and the lease is freed. *)
ReleaseLast(l, m) ==
  /\ mu = "free"
  /\ l \in DOMAIN leases /\ leases[l].members = {m}
  /\ LET held == Leave(l, m)
         rest == [o \in DOMAIN leases \ {l} |-> held[o]]
     IN  leases' = Orphan(rest, held[l].dependents)
  /\ used' = FreedHost(l)
  /\ sems' = [k \in Keys |->
                IF k \in Claimed(leases[l]) THEN DropHold(k, l) ELSE sems[k]]
  /\ burstFloor' = IF leases[l].burst THEN 0 ELSE burstFloor
  /\ mu' = "prune"
  /\ UNCHANGED <<total, headroom, waiters, overrides, leaseSeq, admitSeq, policy>>

-----------------------------------------------------------------------------
(* Operations of the daemon and the operator *)

(* Mutant: room the host gives back is not handed out. *)
SetHeadroomWithoutPromote(h) ==
  /\ mu = "free"
  /\ headroom' = h
  /\ mu' = "check"
  /\ UNCHANGED <<total, used, sems, leases, waiters, overrides, leaseSeq,
                 admitSeq, policy, burstFloor>>

SetHeadroom(h) ==
  /\ mu = "free"
  /\ headroom' = h
  /\ mu' = "promote"
  /\ UNCHANGED <<total, used, sems, leases, waiters, overrides, leaseSeq,
                 admitSeq, policy, burstFloor>>

(* The daemon derives budget b and never asks for less than is in use;     *)
(* ResizeTotals refuses a total some waiter exceeds.                       *)
ResizeTotals(b) ==
  LET t == [r \in Host |-> Max({b[r], used[r]})]
  IN  /\ mu = "free"
      /\ \A i \in DOMAIN waiters : \A r \in Host : waiters[i][r] <= t[r]
      /\ total' = t
      /\ headroom' = [r \in Host |-> Min({headroom[r], t[r]})]
      /\ mu' = "check"
      /\ UNCHANGED <<used, sems, leases, waiters, overrides, leaseSeq,
                     admitSeq, policy, burstFloor>>

(* Records the rank and moves every waiter of the run that is not at it;   *)
(* the daemon asks it only of runs that hold or wait.                      *)
SetPriority(run, p) ==
  LET ranks == Put(overrides, run, p)
      ranked == [i \in DOMAIN waiters |->
         LET w == waiters[i]
         IN  IF BelongsToRun(w.id, w.owner, run)
             THEN [w EXCEPT !.priority = OverrideFor(ranks, w.id, w.owner, p)]
             ELSE w]
  IN  /\ mu = "free" /\ RunPresent(run, waiters, leases)
      /\ overrides' = ranks
      /\ \/ ranked = waiters /\ waiters' = waiters /\ mu' = "check"
         \/ /\ ranked # waiters
            /\ waiters' \in Sorted(ranked, admitSeq)
            /\ mu' = "promote"
      /\ UNCHANGED <<total, headroom, used, sems, leases, leaseSeq, admitSeq,
                     policy, burstFloor>>

-----------------------------------------------------------------------------
(* The end of an operation *)

(* One iteration of the promote loop. *)
Promote ==
  /\ mu \in {"promote", "prune"}
  /\ \E i \in DOMAIN waiters :
       /\ IsNextPromotable(i)
       /\ waiters' = RemoveAt(RecordBackfill(waiters, i - 1, waiters[i]), i)
       /\ Grant(waiters[i])
  /\ UNCHANGED <<total, headroom, overrides, admitSeq, policy, burstFloor, mu>>

SoftCoreOvercommit == \E l \in DOMAIN leases : leases[l].soft

BurstCoreOvercommit ==
  LET limit == Max({policy.burst, burstFloor})
  IN  /\ limit > 0 /\ used["cores"] <= total["cores"] + limit
      /\ Cardinality({l \in DOMAIN leases : leases[l].burst}) = 1

(* Memory is never overcommitted, and cores only under a soft lease or a   *)
(* single burst within its limit (hostInvariant).                          *)
HostBounds ==
  /\ \/ used["cores"] <= total["cores"]
     \/ SoftCoreOvercommit \/ BurstCoreOvercommit
  /\ used["memory"] <= total["memory"]

(* What the ledger counts as used is what its leases hold (hostInvariant). *)
HostBooks ==
  \A r \in Host : used[r] = UsedOf(r, DOMAIN leases)

(* A participant's owner rank is its live owner's admission rank and never *)
(* later than its own (ownerRankInvariant).                                *)
OwnerRank(x) ==
  /\ x.ownerAdmit \in 1..x.admit /\ x.ownerAdmit <= admitSeq
  /\ x.owner = None => x.ownerAdmit = x.admit
  /\ x.owner # None /\ Holding(x.owner)
       => leases[LeaseOf(x.owner)].admit = x.ownerAdmit

OwnerRanks ==
  /\ \A l \in DOMAIN leases : OwnerRank(leases[l])
  /\ \A i \in DOMAIN waiters : OwnerRank(waiters[i])

(* No lease outlives its members, no member is in two leases, and the      *)
(* marks that tell a run its ancestor is gone name runs that still hold a  *)
(* lease (leaseInvariants).                                                *)
LeaseInvariants ==
  \A l \in DOMAIN leases :
    /\ leases[l].members # {}
    /\ leases[l].orphaned \subseteq leases[l].members
    /\ \A m \in leases[l].dependents : Holding(m)
    /\ \A o \in DOMAIN leases \ {l} : leases[l].members \cap leases[o].members = {}

(* The holds on a key are exactly the claims of the live leases            *)
(* (holdMatchesClaim, and the references semaphoreInvariants checks).      *)
HoldsMatchClaims ==
  \A k \in Keys :
    /\ DOMAIN sems[k] = {l \in DOMAIN leases : k \in Claimed(leases[l])}
    /\ \A l \in DOMAIN sems[k] :
          /\ sems[k][l].cost = leases[l].claims[k].cost
          /\ sems[k][l].capacity = leases[l].claims[k].capacity

(* The holds on a key that are not superseded fit the strictest capacity   *)
(* any of them declared (semaphoreInvariants).                             *)
SemaphoreBounds ==
  \A k \in Keys :
    LiveHolds(k) # {} =>
      HoldCost(k, LiveHolds(k)) <= Min({sems[k][l].capacity : l \in LiveHolds(k)})

(* The queue is in service order, at the ranks operators recorded, and     *)
(* names nobody twice and nobody who holds (waiterInvariants).             *)
WaiterInvariants ==
  /\ IsOrdered(waiters, admitSeq)
  /\ \A i \in DOMAIN waiters :
       LET w == waiters[i]
       IN  /\ w.priority = OverrideFor(overrides, w.id, w.owner, w.priority)
           /\ ~Holding(w.id)
           /\ \A j \in DOMAIN waiters : waiters[j].id = w.id => j = i

InvariantViolation ==
  \/ ~HostBooks \/ ~HostBounds \/ ~LeaseInvariants \/ ~OwnerRanks
  \/ ~HoldsMatchClaims \/ ~SemaphoreBounds \/ ~WaiterInvariants
  \/ AnyPromotable

(* A lease restoreLease accepts: nobody is its own parent, and the parents *)
(* of every member but the first lead, without a gap or a cycle, to the run *)
(* that was granted the lease or to its owner.                             *)
LineageRestorable(le) ==
  LET known == {c \in Ids : le.parents[c] # None}
      rooted[n \in 0..Cardinality(known)] ==
        IF n = 0 THEN {le.request, le.owner} \cup (le.members \ known)
        ELSE rooted[n - 1] \cup {c \in known : le.parents[c] \in rooted[n - 1]}
  IN  /\ le.request \notin known
      /\ \A c \in known : le.parents[c] \in rooted[Cardinality(known)] \ {c}

Restorable ==
  /\ \A l \in DOMAIN leases : LineageRestorable(leases[l])
  /\ \A i \in DOMAIN waiters : \A r \in Host : waiters[i][r] <= total[r]
  /\ ~InvariantViolation

(* Mutant: the snapshot does not carry the burst limit. *)
RestoreWithoutBurst ==
  /\ mu = "free"
  /\ burstFloor' = 0
  /\ policy' = [policy EXCEPT !.burst = 0]
  /\ UNCHANGED <<total, headroom, used, sems, leases, waiters, overrides,
                 leaseSeq, admitSeq>>
  /\ mu' = IF Restorable' THEN "restored" ELSE "refused"

(* A restart: Restore takes back the snapshot the last operation committed. *)
(* The burst limit it was taken under stays in force, as the policy's own  *)
(* where that has none.                                                    *)
Restore ==
  /\ mu = "free"
  /\ burstFloor' = Max({policy.burst, burstFloor})
  /\ policy' = [policy EXCEPT !.burst = IF @ = 0 THEN burstFloor ELSE @]
  /\ UNCHANGED <<total, headroom, used, sems, leases, waiters, overrides,
                 leaseSeq, admitSeq>>
  /\ mu' = IF Restorable' THEN "restored" ELSE "refused"

(* initLedger goes on with the policy p now configured. *)
SetSchedulingPolicy(p) ==
  /\ mu = "restored"
  /\ policy' = p
  /\ mu' = "check"
  /\ UNCHANGED <<total, headroom, used, sems, leases, overrides, leaseSeq,
                 admitSeq, burstFloor>>
  /\ waiters' \in Arrangements(waiters) /\ IsOrdered(waiters, admitSeq)'

(* pruneOverrides where the operation has it, then mustHoldInvariants. *)
Unlock ==
  /\ \/ mu = "check"
     \/ mu \in {"promote", "prune"} /\ ~AnyPromotable
  /\ overrides' = IF mu = "prune" THEN PrunedOverrides ELSE overrides
  /\ mu' = IF InvariantViolation THEN "panic" ELSE "free"
  /\ UNCHANGED <<total, headroom, used, sems, leases, waiters, leaseSeq,
                 admitSeq, policy, burstFloor>>

-----------------------------------------------------------------------------

Next ==
  \/ \E q \in Requests : \/ SubmitGranted(q) \/ SubmitQueued(q)
                         \/ SubmitAging(q) \/ ReplaceWaiter(q)
  \/ \E i \in DOMAIN waiters : CancelWaiter(i)
  \/ \E l \in DOMAIN leases :
       \/ \E m \in leases[l].members : ReleaseMember(l, m) \/ ReleaseLast(l, m)
       \/ \E m \in Children : Attach(l, m) \/ Depend(m, l)
  \/ \E h \in Headrooms : SetHeadroom(h)
  \/ \E b \in Resizes : ResizeTotals(b)
  \/ \E run \in Ids, p \in Priorities : SetPriority(run, p)
  \/ Restore
  \/ \E p \in Policies : SetSchedulingPolicy(p)
  \/ Promote
  \/ Unlock

Spec == Init /\ [][Next]_vars

-----------------------------------------------------------------------------
(* Properties *)

Claims == [Keys -> Claim \cup {None}]

(* A waiter: its spec and the delay it has borne. *)
Waiter == [id : Ids, owner : Ids \cup {None}, admit : Nat, ownerAdmit : Nat,
           priority : Int, class : Classes, p99 : Nat, delay : Nat,
           cores : Nat, memory : Nat, soft : BOOLEAN, burst : BOOLEAN,
           claims : Claims]

Lease == [request : Ids, owner : Ids \cup {None}, admit : Nat, ownerAdmit : Nat,
          cores : Nat, memory : Nat, soft : BOOLEAN, burst : BOOLEAN,
          claims : Claims, members : SUBSET Ids, dependents : SUBSET Ids,
          orphaned : SUBSET Ids, parents : [Ids -> Ids \cup {None}]]

Hold == [cost : Nat, capacity : Nat \ {0}, by : Nat]

(* Every variable of the ledger has the shape its Go type gives it. *)
TypeOK ==
  /\ total \in [Host -> Nat] /\ headroom \in [Host -> Nat]
  /\ used \in [Host -> Int]
  /\ leaseSeq \in Nat /\ admitSeq \in 0..MaxAdmit
  /\ leases \in [DOMAIN leases -> Lease] /\ DOMAIN leases \subseteq 1..leaseSeq
  /\ sems = [k \in Keys |-> sems[k]]
  /\ \A k \in Keys : /\ DOMAIN sems[k] \subseteq DOMAIN leases
                     /\ sems[k] \in [DOMAIN sems[k] -> Hold]
  /\ waiters \in Seq(Waiter)
  /\ overrides \in [DOMAIN overrides -> Priorities] /\ DOMAIN overrides \subseteq Ids
  /\ policy \in Policy /\ burstFloor \in Nat
  /\ mu \in {"free", "promote", "prune", "check", "panic", "restored", "refused"}

(* mustHoldInvariants never fires: every operation leaves the books        *)
(* balanced, the queue in order, and nobody queued who could start.        *)
NeverPanics == mu # "panic"

(* Once the leases older than w end, w fits beside the younger ones. *)
RoomBeside(w) ==
  LET younger == {l \in DOMAIN leases : leases[l].admit > w.admit}
  IN  /\ \A r \in Host : w[r] > 0 => UsedOf(r, younger) + w[r] <= Offered(r)
      /\ \A k \in Claimed(w) :
            \/ w.claims[k].policy = "cancel_others"
            \/ FitsBeside(k, w.claims[k], LiveHolds(k) \cap younger)

(* A request that starts by evicting holders goes past the queue by design. *)
Evicts(s) == \E k \in Claimed(s) : s.claims[k].policy = "cancel_others"

(* This step lets in s, which waiter w outranks. *)
Passes(s, w) ==
  /\ leaseSeq' # leaseSeq /\ ~Evicts(s)
  /\ \/ /\ \E i \in DOMAIN waiters : IsNextPromotable(i) /\ s = waiters[i]
        /\ Promote /\ Outranks(w, s, admitSeq)
     \/ /\ \E q \in Requests : /\ s = Normalize(q)
                               /\ SubmitGranted(q) \/ SubmitAging(q)
        /\ Outranks(w, s, admitSeq')

(* w tolerates the measured s: it stays within the delay w's class allows, *)
(* and is charged to w unless w waits only for another's reservation.      *)
Tolerates(w, s) ==
  /\ s.p99 > 0 /\ w.delay + s.p99 <= policy.delay[w.class]
  /\ \/ Fits(w)
     \/ \E v \in ToSet(waiters') : v.id = w.id /\ v.delay = w.delay + s.p99

(* A waiter is never delayed by work that passes it: once the leases older *)
(* than it end, it still fits beside everyone let in after it, or the one  *)
(* that passed was measured and within the delay its class still tolerates *)
(* (reserve, violatedBy and the two recordBackfill functions).             *)
BackfillSparesHead ==
  [][\A w \in ToSet(waiters) :
       \A s \in ToSet(waiters) \cup {Normalize(q) : q \in Requests} :
         Passes(s, w) /\ RoomBeside(w) => RoomBeside(w)' \/ Tolerates(w, s)]_vars

(* Whatever the operations before it, the state they committed is one the  *)
(* daemon can start from again (Restore).                                  *)
NeverRefused == mu # "refused"

(* Lease l is freed, or one of its holds is superseded, in this step. *)
Ends(l) ==
  \/ l \notin DOMAIN leases'
  \/ \E k \in Keys : l \in LiveHolds(k) /\ sems'[k][l].by # 0

(* A run that depends on a lease learns that the lease ended: it is marked *)
(* in that very step, and the mark stays for as long as the run holds      *)
(* anything, restarts included (orphan, Restore).                          *)
DependentsTold ==
  [][\A o \in DOMAIN leases' : \A m \in leases'[o].members :
       \/ \E l \in DOMAIN leases : m \in leases[l].dependents /\ Ends(l)
       \/ \E l \in DOMAIN leases : m \in leases[l].orphaned
       => m \in leases'[o].orphaned \/ ~Holding(m)]_vars

-----------------------------------------------------------------------------
(* Liveness.  The mutex is handed to whoever waits for it, an operation    *)
(* that has it finishes, and every holder releases its lease in the end    *)
(* (the daemon releases for holders that died).                            *)
Fairness ==
  /\ WF_vars(Promote) /\ WF_vars(Unlock)
  /\ WF_vars(\E p \in Policies : SetSchedulingPolicy(p))
  /\ \A l \in 1..MaxAdmit :
       SF_vars(\E m \in Ids : ReleaseMember(l, m) \/ ReleaseLast(l, m))

FairSpec == Spec /\ Fairness

(* Nobody waits forever: whatever the queue, the reservations, the         *)
(* headroom and the semaphores, once arrivals stop every waiter gets its   *)
(* lease (or is withdrawn).                                                *)
QueueDrains == \A i \in Ids : (i \in Waiting) ~> (i \notin Waiting)

=============================================================================
