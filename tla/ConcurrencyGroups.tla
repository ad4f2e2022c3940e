------------------------- MODULE ConcurrencyGroups --------------------------
(***************************************************************************)
(* Concurrency groups of jobs (internal/store: concurrency.go,             *)
(* capacity_admission.go, capacity_owner.go): weighted budgets shared by   *)
(* the jobs of all runs, taken all at once or waited for together.         *)
(*                                                                         *)
(* A work is a place in some pipeline: its job runs again, in a new run,   *)
(* once it is done.  A store transaction is one step: the team's admission *)
(* lock makes admissions exclude each other.  Time is relative: leases     *)
(* count the ticks left.  Arrival times and grant times only matter by     *)
(* their order, which two orders keep.                                     *)
(***************************************************************************)
EXTENDS Integers, FiniteSets, FiniteSetsExt, Functions

CONSTANTS
  Works,      \* jobs
  Keys,       \* group keys, in their order
  Declared,   \* what each work declares of each of its keys
  Repeating,  \* the works that run again
  Lease,      \* ticks of an award and of a reservation
  MaxTicks    \* bound on time and on cancellations

ASSUME GroupAssumption ==
  /\ Keys \subseteq Nat /\ IsFiniteSet(Keys) /\ IsFiniteSet(Works)
  /\ Repeating \subseteq Works /\ Lease \in Nat \ {0} /\ MaxTicks \in Nat
  /\ \A w \in Works :
       /\ DOMAIN Declared[w] \subseteq Keys /\ DOMAIN Declared[w] # {}
       /\ \A k \in DOMAIN Declared[w] :
            Declared[w][k] \in [cost : Nat \ {0}, capacity : Nat \ {0}, timed : BOOLEAN,
                                policy : {"queue", "skip", "fail", "cancel_others"}]

VARIABLES
  job,    \* each work's job: its state, its award's lease, its cancellation
  adm,    \* the tables: holders, waiters, admission_work by arrival, permits
  ttl,    \* the lease of all the rows of a work
  late,   \* works whose queue timeout has passed since they arrived; it
          \* says nothing of a work whose reservation lapsed
  ticks   \* ticks and cancellations so far

vars == <<job, adm, ttl, late, ticks>>

Own(w) == DOMAIN Declared[w]
Less(n) == IF n > 0 THEN n - 1 ELSE 0
Held(w) == job[w].status \in {"claimed", "running"}

(* `permit': the admission row names the current award.                    *)
FreshJob == [status |-> "ready", lease |-> 0, cancel |-> FALSE, permit |-> FALSE]

-----------------------------------------------------------------------------
(* The tables.  `holders' of a key are live or superseded; `arrivals' are  *)
(* the admission_work rows by arrived_at, `claims' the works that hold     *)
(* something by claimed_at.                                                *)

NoRows == [holders |-> [k \in Keys |-> [w \in Works |-> "none"]],
           waiters |-> [k \in Keys |-> {}], arrivals |-> {}, granted |-> {}, claims |-> {}]

(* An order of works: <<v, w>> says that v came before w, or is w.         *)
Has(order, w) == <<w, w>> \in order
Before(order, v, w) == v # w /\ <<v, w>> \in order
Ahead(order, w) == {v \in Works : Before(order, v, w)}
AtEnd(order, w) == order \cup {<<v, w>> : v \in {u \in Works : Has(order, u)} \cup {w}}
Without(order, ws) == {p \in order : p[1] \notin ws /\ p[2] \notin ws}

(* clearAdmissionLevelTx, discardAdmissionLevelTx, of the works ws.        *)
Clear(a, ws) ==
  [a EXCEPT !.holders = [k \in Keys |-> [w \in Works |-> IF w \in ws THEN "none" ELSE @[k][w]]],
            !.waiters = [k \in Keys |-> @[k] \ ws],
            !.claims = Without(@, ws)]
Discard(a, ws) ==
  [Clear(a, ws) EXCEPT !.arrivals = Without(@, ws), !.granted = @ \ ws]

(* capacityWorkLiveTx; a row's lease never outlasts the claims that bound  *)
(* it, so its ceiling adds nothing.                                        *)
WorkLive(w) == ttl[w] > 0 /\ job[w].status # "done"

HolderRows(a, k) == {w \in Works : a.holders[k][w] # "none"}

(* reapStaleConcurrencyHoldersTx.                                          *)
ReapHolders(a, k) == Discard(a, {w \in HolderRows(a, k) : ~WorkLive(w)})

-----------------------------------------------------------------------------
(* Budgets.                                                                *)

(* holderLiveSQL.                                                          *)
LiveHolders(a, k) == {w \in Works : a.holders[k][w] = "live" /\ ttl[w] > 0}

CostOf(ws, k) == SumFunctionOnSet([w \in ws |-> Declared[w][k].cost], ws)
Used(a, k) == CostOf(LiveHolders(a, k), k)

\* Mutant: the declaration of the newcomer alone decides.
LatestCapacity(a, k, capacity) == capacity

(* txConcurrencyAccounting, effectiveCapacity: the least that anybody who  *)
(* holds, or asks, has declared.                                           *)
EffectiveCapacity(a, k, capacity) ==
  Min({capacity} \cup {Declared[h][k].capacity : h \in LiveHolders(a, k)})
(* fitsBudget.                                                             *)
Fits(used, cost, capacity) == used <= capacity /\ cost <= capacity - used

Waiting(w) == \E k \in Own(w) : w \in adm.waiters[k]
Overdue(w, k) == w \in late /\ Declared[w][k].timed

\* Mutant: a newcomer does not look at who waits.
EarlierAmongWaiters(a, w, k) ==
  \E v \in a.waiters[k] \ {w} :
    /\ ttl[v] > 0 /\ ~Overdue(v, k) /\ w \in a.waiters[k] /\ Before(a.arrivals, v, w)
    /\ Fits(Used(a, k), Declared[v][k].cost, EffectiveCapacity(a, k, Declared[v][k].capacity))

(* txEarlierRunnableQueueWaiter, blockedByYoungerHolders: an older live    *)
(* waiter that could go now, or could but for holders younger than it.     *)
EarlierRunnable(a, w, k) ==
  \E v \in a.waiters[k] \ {w} :
    LET cost == Declared[v][k].cost
        capacity == EffectiveCapacity(a, k, Declared[v][k].capacity)
        older == {h \in LiveHolders(a, k) : ~Before(a.arrivals, v, h)}
    IN /\ ttl[v] > 0 /\ ~Overdue(v, k)
       /\ w \in a.waiters[k] => Before(a.arrivals, v, w)
       /\ Fits(Used(a, k), cost, capacity) \/ Fits(CostOf(older, k), cost, capacity)

-----------------------------------------------------------------------------
(* Admission.                                                              *)

(* txInsertHolder.                                                         *)
Insert(a, w, k) ==
  [a EXCEPT !.holders[k][w] = "live", !.waiters[k] = @ \ {w},
            !.claims = IF Has(@, w) THEN @ ELSE AtEnd(@, w)]

(* txSupersede: every row the victim holds, not this key's alone.          *)
Supersede(a, vs) ==
  [a EXCEPT !.holders = [k \in Keys |-> [w \in Works |->
                           IF w \in vs /\ @[k][w] = "live" THEN "superseded" ELSE @[k][w]]],
            !.granted = @ \ vs]

(* The holders cancel_others takes, oldest first, until w fits.            *)
Victims(a, w, k) ==
  LET live == LiveHolders(a, k)
      effCap == EffectiveCapacity(a, k, Declared[w][k].capacity)
      oldest == {{v \in live : <<v, h>> \in a.claims} : h \in live}
      enough == {vs \in oldest :
                   Fits(Used(a, k) - CostOf(vs, k), Declared[w][k].cost, effCap)}
  IN CHOOSE vs \in enough \cup {live} :
       \A us \in enough \cup {live} : Cardinality(vs) <= Cardinality(us)

(* acquireConcurrencySlotTx, one key of a trial t.                         *)
AcquireSlot(t, w, k) ==
  LET d == Declared[w][k]
      a == ReapHolders(t.adm, k)
      free == Fits(Used(a, k), d.cost, EffectiveCapacity(a, k, d.capacity))
      victims == Victims(a, w, k)
      Answer(kind) == [t EXCEPT !.kind = kind]
  IN CASE d.cost > d.capacity -> Answer(IF d.policy = "skip" THEN "skipped" ELSE "failed")
       [] d.cost <= d.capacity /\ a.holders[k][w] = "live" -> [t EXCEPT !.adm = a]
       [] OTHER ->
            IF free /\ ~(d.policy = "queue" /\ EarlierRunnable(a, w, k))
              THEN [t EXCEPT !.adm = Insert(a, w, k)]
              ELSE CASE d.policy = "skip" -> Answer("skipped")
                     [] d.policy = "fail" -> Answer("failed")
                     [] d.policy = "queue" -> Answer("queued")
                     [] d.policy = "cancel_others" ->
                          [t EXCEPT !.adm = Insert(Supersede(a, victims), w, k),
                                    !.victims = @ \cup victims]

(* One key of the trial: nothing more once a key did not grant.  Only a    *)
(* wait that goes on can be overdue (`waited').                            *)
TryKey(t, w, k, waited) ==
  IF t.kind # "granted" THEN t
  ELSE IF Overdue(w, k) /\ waited THEN [t EXCEPT !.kind = "failed"]
  ELSE AcquireSlot(t, w, k)

(* The trial: after the keys ks, tried in their order.                     *)
Trial(a, w, waited) ==
  LET after[ks \in SUBSET Own(w)] ==
        IF ks = {} THEN [kind |-> "granted", adm |-> a, victims |-> {}]
        ELSE TryKey(after[ks \ {Max(ks)}], w, Max(ks), waited)
  IN after[Own(w)]

(* A reservation is kept while it is whole and its lease runs.             *)
Retained(w) ==
  /\ Has(adm.arrivals, w) /\ ttl[w] > 0
  /\ \A k \in Own(w) : adm.holders[k][w] # "none" \/ w \in adm.waiters[k]

(* A reservation that is kept and was not granted.  A grant that is kept   *)
(* has no timeout, and what lapsed arrives, and is timed, anew.            *)
Waited(w) == Retained(w) /\ w \notin adm.granted

\* Mutant: every poll arrives anew.
ArrivedAgain(w) ==
  [adm EXCEPT !.granted = @ \ {w}, !.arrivals = AtEnd(Without(@, {w}), w)]

\* Mutant: the lapsed arrival is not replaced.
ArrivedTwice(w) ==
  LET a == IF Retained(w) THEN adm ELSE [Clear(adm, {w}) EXCEPT !.arrivals = AtEnd(@, w)]
  IN [a EXCEPT !.granted = @ \ {w}]

(* Anybody else comes last, with nothing.                                  *)
Arrived(w) ==
  LET a == IF Retained(w) THEN adm
           ELSE [Clear(adm, {w}) EXCEPT !.arrivals = AtEnd(Without(@, {w}), w)]
  IN [a EXCEPT !.granted = @ \ {w}]

\* Mutant: what the trial already took is kept.
ParkKeeping(a, w, t) ==
  [t.adm EXCEPT !.waiters = [k \in Keys |->
     @[k] \cup (IF k \in Own(w) /\ t.adm.holders[k][w] = "none" THEN {w} ELSE {})]]

(* A wait takes back what the trial did and queues on every key.           *)
Park(a, w, t) ==
  [Clear(a, {w}) EXCEPT !.waiters = [k \in Keys |-> @[k] \cup (IF k \in Own(w) THEN {w} ELSE {})]]

(* applyNodeEdgeTx to a settled state, releaseCapacityTx.                  *)
Settle(w) ==
  /\ job' = [job EXCEPT ![w] = [FreshJob EXCEPT !.status = "done"]]
  /\ adm' = Discard(adm, {w})
  /\ ttl' = [ttl EXCEPT ![w] = 0]
  /\ late' = late \ {w}

(* MayStart, admitWorkTx, settleAdmissionTx.                               *)
MayStart(w) ==
  /\ job[w].status = "claimed" /\ job[w].lease > 0 /\ ~job[w].cancel
  /\ UNCHANGED ticks
  /\ \E t \in {Trial(Arrived(w), w, Waited(w))} :
       \/ /\ t.kind \in {"granted", "queued"}
          /\ \E n \in job[w].lease..Lease : ttl' = [ttl EXCEPT ![w] = n]
          /\ late' = IF Retained(w) THEN late ELSE late \ {w}
          /\ adm' = IF t.kind = "granted" THEN [t.adm EXCEPT !.granted = @ \cup {w}]
                    ELSE Park(Arrived(w), w, t)
          /\ job' = [v \in Works |->
                       IF v = w THEN [job[v] EXCEPT !.permit = TRUE]
                       ELSE [job[v] EXCEPT !.cancel = @ \/ (t.kind = "granted" /\ v \in t.victims)]]
       \/ t.kind \in {"skipped", "failed"} /\ Settle(w)

-----------------------------------------------------------------------------
(* The job's life around its admission (node_state.go, unit_claim.go).     *)

Unchanged == UNCHANGED <<adm, ttl, late, ticks>>

(* An award: the reservation stays, the permit does not.                   *)
ClaimUnit(w) ==
  /\ job[w].status = "ready" /\ ~job[w].cancel
  /\ job' = [job EXCEPT ![w] = [FreshJob EXCEPT !.status = "claimed", !.lease = Lease]]
  /\ Unchanged

(* StartExecution with checkStartPermitTx.                                 *)
StartExecution(w) ==
  /\ job[w].status = "claimed" /\ job[w].lease > 0 /\ ~job[w].cancel
  /\ job[w].permit /\ w \in adm.granted /\ ttl[w] > 0
  /\ job' = [job EXCEPT ![w].status = "running"]
  /\ Unchanged

(* The host reports, or gives up what it was asked to stop.                *)
Report(w) ==
  /\ job[w].lease > 0
  /\ job[w].status = "running" \/ (job[w].status = "claimed" /\ job[w].cancel)
  /\ Settle(w) /\ UNCHANGED ticks

(* RelinquishStart, releaseUnit: nothing stays reserved.                   *)
GiveBack(w) ==
  /\ job[w].status = "claimed" /\ job[w].lease > 0 /\ ~job[w].cancel /\ ticks < MaxTicks
  /\ job' = [job EXCEPT ![w] = FreshJob]
  /\ adm' = Discard(adm, {w})
  /\ ttl' = [ttl EXCEPT ![w] = 0]
  /\ late' = late \ {w}
  /\ ticks' = ticks + 1

\* Mutant: capacity is left to its own lease.
CapacityAsIs(w) == ttl

(* renewCapacityTx: an elapsed lease is not revived, nor that of a job     *)
(* that is to stop.                                                        *)
RenewedCapacity(w) ==
  IF ttl[w] > 0 /\ ~job[w].cancel THEN [ttl EXCEPT ![w] = Lease] ELSE ttl

(* RenewNodeClaim.                                                         *)
Renew(w) ==
  /\ Held(w) /\ job[w].lease > 0
  /\ job' = [job EXCEPT ![w].lease = Lease]
  /\ ttl' = RenewedCapacity(w)
  /\ UNCHANGED <<adm, late, ticks>>

(* The run's owner renews: the capacity of its jobs too, held or not.      *)
OwnerRenew(w) ==
  /\ job[w].status # "done"
  /\ ttl' = RenewedCapacity(w)
  /\ UNCHANGED <<job, adm, late, ticks>>

(* reapNodeUnitTx: a lapsed award is disrupted and the job keeps its       *)
(* reservation and its place; at the disruption limit the job fails.       *)
Reap(w) ==
  /\ Held(w) /\ job[w].lease = 0 /\ UNCHANGED ticks
  /\ \/ ~job[w].cancel /\ job' = [job EXCEPT ![w] = FreshJob] /\ UNCHANGED <<adm, ttl, late>>
     \/ (job[w].cancel \/ job[w].status = "running") /\ Settle(w)

(* CancelRun, cancelRunNodesTx: at once if nobody holds the job.           *)
Cancel(w) ==
  /\ job[w].status # "done" /\ ~job[w].cancel /\ ticks < MaxTicks
  /\ ticks' = ticks + 1
  /\ \/ ~Held(w) /\ Settle(w)
     \/ Held(w) /\ job' = [job EXCEPT ![w].cancel = TRUE] /\ UNCHANGED <<adm, ttl, late>>

\* Mutant: the owner settles only jobs that still have a permit.
OwnerCancelHolding(w) ==
  /\ job[w].status = "ready" /\ job[w].cancel /\ w \in adm.granted
  /\ Settle(w) /\ UNCHANGED ticks

(* The owner settles a superseded job nobody claims.                       *)
OwnerCancel(w) ==
  /\ job[w].status = "ready" /\ job[w].cancel
  /\ Settle(w) /\ UNCHANGED ticks

(* MaintainConcurrency.                                                    *)
Stale == {w \in Works : ~WorkLive(w) /\ \E k \in Keys : w \in HolderRows(adm, k) \cup adm.waiters[k]}
Maintain ==
  /\ Stale # {}
  /\ adm' = Discard(adm, Stale)
  /\ UNCHANGED <<job, ttl, late, ticks>>

(* The queue timeout of a waiter passes.                                   *)
QueueDeadline(w) ==
  /\ Waiting(w) /\ w \notin late /\ \E k \in Own(w) : Declared[w][k].timed
  /\ late' = late \cup {w}
  /\ UNCHANGED <<job, adm, ttl, ticks>>

(* The pipeline runs again.                                                *)
NewRun(w) ==
  /\ w \in Repeating /\ job[w].status = "done"
  /\ job' = [job EXCEPT ![w] = FreshJob]
  /\ Unchanged

Tick ==
  /\ ticks < MaxTicks /\ ticks' = ticks + 1
  /\ job' = [w \in Works |-> [job[w] EXCEPT !.lease = Less(@)]]
  /\ ttl' = [w \in Works |-> Less(ttl[w])]
  /\ UNCHANGED <<adm, late>>

Init ==
  /\ job = [w \in Works |-> FreshJob]
  /\ adm = NoRows
  /\ ttl = [w \in Works |-> 0]
  /\ late = {}
  /\ ticks = 0

Next ==
  \/ \E w \in Works :
       \/ ClaimUnit(w) \/ MayStart(w) \/ StartExecution(w) \/ Report(w) \/ GiveBack(w)
       \/ Renew(w) \/ OwnerRenew(w) \/ Reap(w) \/ Cancel(w) \/ OwnerCancel(w)
       \/ QueueDeadline(w) \/ NewRun(w)
  \/ Maintain
  \/ Tick

(* A poll would do something for w: start its wait, grant it or end it.    *)
Answerable(w) ==
  /\ job[w].status = "claimed" /\ job[w].lease > 0 /\ ~job[w].cancel
  /\ ~(job[w].permit /\ w \in adm.granted)
  /\ Trial(Arrived(w), w, Waited(w)).kind = "queued" => ~Waiting(w) \/ ttl[w] = 0

(* Hosts claim and poll (awaitStart), bodies end, the reaper and the run   *)
(* owners' loops go on; time, cancellations and refusals are bounded.      *)
(* What is asked of the polls is implied by WF_vars(MayStart(w)).          *)
Fairness ==
  \A w \in Works :
    /\ []<>~Answerable(w) \/ []<><<MayStart(w)>>_vars
    /\ WF_vars(ClaimUnit(w)) /\ WF_vars(StartExecution(w))
    /\ WF_vars(Report(w)) /\ WF_vars(Reap(w)) /\ WF_vars(OwnerCancel(w))

Spec == Init /\ [][Next]_vars /\ Fairness

-----------------------------------------------------------------------------
(* Properties.                                                             *)

IsOrder(order) ==
  /\ order \subseteq Works \X Works
  /\ \A v, w \in Works :
       /\ <<v, w>> \in order => Has(order, v) /\ Has(order, w)
       /\ <<v, w>> \in order /\ <<w, v>> \in order => v = w
       /\ Has(order, v) /\ Has(order, w) => <<v, w>> \in order \/ <<w, v>> \in order
  /\ \A u, v, w \in Works :
       <<u, v>> \in order /\ <<v, w>> \in order => <<u, w>> \in order

Jobs == [status : {"ready", "claimed", "running", "done"}, lease : 0..Lease,
         cancel : BOOLEAN, permit : BOOLEAN]
Tables == [holders : [Keys -> [Works -> {"none", "live", "superseded"}]],
           waiters : [Keys -> SUBSET Works], granted : SUBSET Works,
           arrivals : SUBSET (Works \X Works), claims : SUBSET (Works \X Works)]

(* Types; works that arrived, or hold, did so one after the other.         *)
TypeOK ==
  /\ job \in [Works -> Jobs]
  /\ adm \in Tables /\ IsOrder(adm.arrivals) /\ IsOrder(adm.claims)
  /\ ttl \in [Works -> 0..Lease] /\ late \subseteq Works /\ ticks \in 0..MaxTicks

(* txCheckConcurrencyInvariants, which an admission ends with, has nothing *)
(* to report, at any time: what is held fits the least capacity a live     *)
(* holder declared, and nobody both holds and waits.                       *)
InvariantsHold ==
  \A k \in Keys :
    LET live == LiveHolders(adm, k)
    IN /\ \A h \in live : Used(adm, k) <= Declared[h][k].capacity
       /\ live \cap adm.waiters[k] = {}

(* What a group is for: the jobs that run under a live award, and are not  *)
(* asked to stop, fit together in the budget each of them declared,        *)
(* whatever was reaped, renewed or superseded meanwhile.                   *)
RunningBudget ==
  \A k \in Keys :
    LET running == {w \in Works : /\ k \in Own(w) /\ job[w].status = "running"
                                  /\ job[w].lease > 0 /\ ~job[w].cancel}
    IN \A w \in running : CostOf(running, k) <= Declared[w][k].capacity

(* "Each complete group set grants atomically. A queued job holds none of  *)
(* its groups": the rows of a work are all live, all superseded, all       *)
(* waiting, or none; a permit means all are live; rows have their arrival. *)
WholeSets ==
  \A w \in Works :
    LET rows == {IF w \in adm.waiters[k] THEN "waiting" ELSE adm.holders[k][w] : k \in Own(w)}
    IN /\ Cardinality(rows) = 1
       /\ w \in adm.granted => rows = {"live"}
       /\ rows # {"none"} => Has(adm.arrivals, w)

(* A live waiter keeps its place, also when its award or its owner is      *)
(* lost: nobody that arrived later comes before it.                        *)
ArrivalsKept ==
  [][\A v \in Works :
       (Waiting(v) /\ ttl[v] > 0 /\ Waiting(v)')
       => Ahead(adm'.arrivals, v) \subseteq Ahead(adm.arrivals, v)]_vars

(* A waiter is served, refused or ended: neither backfill, nor jobs that   *)
(* come again and again, nor two groups wanted together starve it.         *)
WaitersMoveOn == \A w \in Works : Waiting(w) ~> ~Waiting(w)

(* Superseded and cancelled jobs come to their end, claimed or not: time   *)
(* and again nobody is left that was asked to stop.                        *)
SupersededEnd == []<>(\A w \in Works : ~job[w].cancel)
=============================================================================
