----------------------------- MODULE UnitLeases -----------------------------
(***************************************************************************)
(* One job of a run as the store keeps it (internal/store: claim, renewal, *)
(* transition, reaper) and as the hosts that are awarded it work on it     *)
(* (internal/lease, internal/nodehost): leases, generations, attempts.     *)
(*                                                                         *)
(* A store transaction is one step.  A host is known by the generation of  *)
(* its award: each award goes to one host process.  Time is relative: a    *)
(* deadline is the number of ticks left until it, on the store and on the  *)
(* hosts alike, and a tick takes one off all of them.  A host's command    *)
(* stays in `net' once it is sent: it may reach the store late, again, or  *)
(* never, and its answer may be lost.                                      *)
(***************************************************************************)
EXTENDS Integers, Sequences, FiniteSets

CONSTANTS
  Lease,           \* DefaultLease: ticks a renewal adds at most
  Drain,           \* ticks a cancelled job may go on renewing
  MaxDisruptions,  \* started lapses that fail a job
  Retries,         \* application retries the job declares
  MaxGeneration,   \* bound on awards
  MaxFaults        \* bound on lost awards, lost renewals and dead hosts

ASSUME UnitAssumption ==
  /\ Lease \in Nat \ {0} /\ Drain \in Nat /\ Drain >= Lease
  /\ MaxDisruptions \in Nat \ {0} /\ Retries \in Nat
  /\ MaxGeneration \in Nat /\ MaxFaults \in Nat

VARIABLES
  row,       \* the job's row in the store
  attempts,  \* its node_attempts, in order
  stopped,   \* the generations whose billing award was stopped
  drain,     \* ticks until the drain deadline once cancellation is requested
  host,      \* the host process of each generation
  net,       \* commands sent to the store
  stray,     \* generations with a renewal on its way that its host gave up on
  faults     \* faults so far

vars == <<row, attempts, stopped, drain, host, net, stray, faults>>

Gens == 1..MaxGeneration
Outcomes == {"success", "failed", "cancelled", "skipped"}
States == {"pending", "ready", "claimed", "running"} \cup Outcomes
Min2(a, b) == IF a < b THEN a ELSE b
Less(n) == IF n > 0 THEN n - 1 ELSE 0
MaxAttempts == MaxGeneration + Retries

(* What a host may ask of the store; `attempt' is its source attempt.      *)
Commands == [op : {"start", "retry", "report", "release", "relinquish"}, gen : Gens,
             attempt : 0..MaxAttempts, to : Outcomes \cup {"none"}]
Command(op, g, n, o) == [op |-> op, gen |-> g, attempt |-> n, to |-> o]
NoCommand == [op |-> "none", gen |-> 0, attempt |-> 0, to |-> "none"]

(* A host: where it is, the attempt it knows, the ticks its keeper gives   *)
(* it, whether it has seen the cancellation, the command it waits for with *)
(* the answer on its way, and its renewal.  `begun', `passed' and `told'   *)
(* keep what it did: the latest attempt it worked on and the latest that   *)
(* succeeded, and the outcome it was told its report had settled.          *)
NoBeat == [phase |-> "none", left |-> 0, ttl |-> 0, cancel |-> FALSE]
NoHost == [pc |-> "none", attempt |-> 0, fence |-> 0, soft |-> FALSE, cmd |-> NoCommand,
           answer |-> "none", beat |-> NoBeat, begun |-> 0, passed |-> 0, told |-> "none"]
Fault == faults < MaxFaults /\ faults' = faults + 1
Working == {"idle", "waiting", "executing"}

-----------------------------------------------------------------------------
(* The row.                                                                *)

Held(r) == r.state \in {"claimed", "running"}
Done(r) == r.state \in Outcomes

(* checkHolderTx: the exact award, its lease not run out on the store's    *)
(* clock.                                                                  *)
Holds(g) == Held(row) /\ row.gen = g /\ row.ttl > 0

(* readNodeTx: one attempt per generation is not an application retry.     *)
ApplicationRetries ==
  Len(attempts) - Cardinality({attempts[i].gen : i \in DOMAIN attempts})

Open(g) == [gen |-> g, outcome |-> "open"]
Closed(o) == [attempts EXCEPT ![Len(attempts)].outcome = o]

(* clearNodeClaim and the rest of an edge to pending or to a terminal      *)
(* state; `last' is the digest of the transition.                          *)
Cleared(state, last) == [row EXCEPT !.state = state, !.ttl = 0, !.last = last]

(* Leaving running closes the live attempt.                                *)
Close(o) == attempts' = IF row.state = "running" THEN Closed(o) ELSE attempts

(* A transition that is no host's command: its digest matches none.        *)
Internal == NoCommand

-----------------------------------------------------------------------------
(* Holder commands: transitionNodeStateTx.                                 *)

Released == {"release", "relinquish"}

(* The edge, its guards and, for start and retry, the start permit.        *)
Permitted(c) ==
  /\ Holds(c.gen)
  /\ c.op \notin Released => c.attempt = row.attempt
  /\ CASE c.op = "start" -> row.state = "claimed" /\ ~row.cancel
       [] c.op = "retry" -> /\ row.state = "running" /\ ~row.cancel
                            /\ ApplicationRetries < Retries
       [] c.op = "report" -> Held(row)
       [] c.op \in Released -> row.state = "claimed" /\ ~row.cancel

Apply(c) ==
  CASE c.op = "start" ->
         /\ row' = [row EXCEPT !.state = "running", !.attempt = @ + 1,
                               !.queued = FALSE, !.last = c]
         /\ attempts' = Append(attempts, Open(c.gen))
    [] c.op = "retry" ->
         /\ row' = [row EXCEPT !.attempt = @ + 1, !.queued = FALSE, !.last = c]
         /\ attempts' = Append(Closed("failed"), Open(c.gen))
    [] c.op = "report" ->
         /\ row' = [Cleared(c.to, c) EXCEPT !.queued = FALSE]
         /\ Close(c.to)
    [] c.op = "release" ->
         row' = Cleared("pending", c) /\ UNCHANGED attempts
    [] c.op = "relinquish" ->              \* RelinquishStart restores ready_at
         row' = Cleared("ready", c) /\ UNCHANGED attempts

(* The same digest from the same actor: the command was applied before.    *)
Replayed(c) == c.op \notin Released /\ row.last = c

(* The answer is on its way to the host if it waits for it, or it is lost  *)
(* and the client sends the same body again.                               *)
Answer(c, ok) ==
  \/ UNCHANGED host
  \/ /\ host[c.gen].pc = "waiting" /\ host[c.gen].cmd = c
     /\ host' = [host EXCEPT ![c.gen].answer = IF ok THEN "ok" ELSE "refused"]

TransitionNode(c) ==
  /\ c \in net
  /\ IF Replayed(c) \/ ~Permitted(c)
       THEN UNCHANGED <<row, attempts>> /\ Answer(c, Replayed(c))
       ELSE \/ Apply(c) /\ Answer(c, TRUE)
            \/ /\ c.op \in {"start", "retry"}   \* no admission_work row grants it
               /\ UNCHANGED <<row, attempts>> /\ Answer(c, FALSE)
  /\ UNCHANGED <<stopped, drain, net, stray, faults>>

-----------------------------------------------------------------------------
(* The run's owner, claimants and cancellation.                            *)

OwnerRelease ==
  /\ row.state = "pending"
  /\ row' = [row EXCEPT !.state = "ready", !.queued = TRUE, !.last = Internal]
  /\ UNCHANGED <<attempts, stopped, drain, host, net, stray, faults>>

OwnerRevoke ==
  /\ row.state = "ready"
  /\ row' = [row EXCEPT !.state = "pending", !.last = Internal]
  /\ UNCHANGED <<attempts, stopped, drain, host, net, stray, faults>>

(* Dependencies, a policy or an admission refusal settle a pending job.    *)
OwnerSettle(o) ==
  /\ row.state = "pending"
  /\ row' = [Cleared(o, Internal) EXCEPT !.queued = FALSE]
  /\ UNCHANGED <<attempts, stopped, drain, host, net, stray, faults>>

(* The award: the next generation, held until `bound', and the claimant's  *)
(* process, unless the answer with the bearer is lost.                     *)
Award(bound) ==
  /\ row' = [row EXCEPT !.state = "claimed", !.gen = @ + 1, !.ttl = bound, !.last = Internal]
  /\ \/ host' = [host EXCEPT ![row.gen + 1] =
                   [@ EXCEPT !.pc = "awarded", !.attempt = row.attempt]]
        /\ UNCHANGED faults
     \/ UNCHANGED host /\ Fault

(* claimUnitTx: whatever an earlier search found, the candidate is looked  *)
(* at again under the claim lock and must still be ready.  The lease ends  *)
(* with whatever bounds it first: the default, the claimant's credential,  *)
(* the funding.                                                            *)
ClaimUnit(bound) ==
  /\ row.state = "ready" /\ ~row.cancel
  /\ row.gen < MaxGeneration /\ Award(bound)
  /\ UNCHANGED <<attempts, stopped, drain, net, stray>>

(* causeCancel, of the job, of its run or of its award's funding: an       *)
(* unclaimed job is cancelled, a held one is only asked to stop.           *)
Cancelled ==
  IF Held(row) THEN [row EXCEPT !.cancel = TRUE, !.last = Internal]
               ELSE [Cleared("cancelled", Internal) EXCEPT !.queued = FALSE]

(* The drain deadline is computed from the first request and never moves.  *)
DrainFrom == IF row.cancel THEN drain ELSE Drain

CancelNode ==
  /\ ~Done(row)
  /\ row' = Cancelled
  /\ drain' = IF Held(row) THEN DrainFrom ELSE drain
  /\ UNCHANGED <<attempts, stopped, host, net, stray, faults>>

-----------------------------------------------------------------------------
(* The keeper (lease/keeper.go) and the renewal it sends.                  *)

Set(g, h) == host' = [host EXCEPT ![g] = h]

(* Execute: the keeper runs with a full lease of its own until the store   *)
(* has answered it.                                                        *)
Join(g) ==
  /\ host[g].pc = "awarded"
  /\ Set(g, [host[g] EXCEPT !.pc = "joining", !.fence = Lease])
  /\ UNCHANGED <<row, attempts, stopped, drain, net, stray, faults>>

(* Run stops renewing once it has told of the cancellation.                *)
SendRenew(g) ==
  /\ host[g].fence > 0 /\ ~host[g].soft /\ host[g].beat.phase = "none"
  /\ Set(g, [host[g] EXCEPT !.beat = [NoBeat EXCEPT !.phase = "sent", !.left = Lease]])
  /\ UNCHANGED <<row, attempts, stopped, drain, net, stray, faults>>

\* Mutant: a renewal adds a lease to what is left.
BoundsAdded(g) == row.ttl..(row.ttl + Lease)

(* What a renewal may extend the lease to.  A bound is a time: the         *)
(* credential's, the prepaid end and the drain deadline do not come closer *)
(* once a lease was granted to them.  A stopped award is not extended.     *)
Bounds(g) ==
  LET latest == IF row.cancel THEN Min2(Lease, drain) ELSE Lease
  IN IF g \in stopped THEN {row.ttl} ELSE row.ttl..latest

(* The renewal pays for the next slice.  The overflow allowance may stop   *)
(* the award, silently; without funds the award is stopped and the job's   *)
(* cancellation requested in the same transaction.                         *)
Renewed(g) ==
  \/ \E b \in Bounds(g) : row' = [row EXCEPT !.ttl = b] /\ UNCHANGED <<stopped, drain>>
  \/ /\ ~row.cancel /\ g \notin stopped
     /\ stopped' = stopped \cup {g} /\ UNCHANGED <<row, drain>>
  \/ /\ ~row.cancel /\ g \notin stopped
     /\ stopped' = stopped \cup {g} /\ row' = Cancelled /\ drain' = Drain

RenewNodeClaim(g) ==
  /\ host[g].beat.phase = "sent"
  /\ \/ /\ Holds(g) /\ Renewed(g)
        /\ Set(g, [host[g] EXCEPT !.beat.phase = "kept", !.beat.ttl = row'.ttl,
                                  !.beat.cancel = row'.cancel])
     \/ /\ ~Holds(g) /\ UNCHANGED <<row, stopped, drain>>
        /\ Set(g, [host[g] EXCEPT !.beat.phase = "refused"])
  /\ UNCHANGED <<attempts, net, stray, faults>>

(* The renewal fails for the client, which tries again; the store may get  *)
(* it all the same, later.                                                 *)
LoseBeat(g) ==
  /\ host[g].beat.phase \in {"sent", "kept"} /\ Fault
  /\ Set(g, [host[g] EXCEPT !.beat = NoBeat])
  /\ stray' = IF host[g].beat.phase = "sent" THEN stray \cup {g} ELSE stray
  /\ UNCHANGED <<row, attempts, stopped, drain, net>>

StrayRenew(g) ==
  /\ g \in stray /\ stray' = stray \ {g}
  /\ IF Holds(g) THEN Renewed(g) ELSE UNCHANGED <<row, stopped, drain>>
  /\ UNCHANGED <<attempts, host, net, faults>>

(* Of a host that has ended only what it did is kept.                      *)
Gone(h) == [NoHost EXCEPT !.pc = "gone", !.begun = h.begun, !.passed = h.passed]

\* Mutant: the lease counts from the answer.
FenceFromReceipt(b) == Lease

(* The lease counts from when the renewal was sent, and ends with the      *)
(* store's expiry if that is earlier.                                      *)
Fence(b) == Min2(b.left, b.ttl)

(* A beat that tells of the cancellation ends the unit's context: a start  *)
(* or a retry on its way is abandoned, the work is asked to stop.          *)
ReceiveBeat(g) ==
  LET b == host[g].beat
      h == host[g]
      abandoned == b.cancel /\ h.pc = "waiting" /\ h.cmd.op \in {"start", "retry"}
  IN /\ b.phase \in {"kept", "refused"}
     /\ Set(g, IF b.phase = "refused" \/ Fence(b) = 0 \/ abandoned THEN Gone(h)
               ELSE [h EXCEPT !.fence = Fence(b), !.soft = b.cancel, !.beat = NoBeat,
                              !.pc = IF @ = "joining" THEN "idle" ELSE @])
     /\ UNCHANGED <<row, attempts, stopped, drain, net, stray, faults>>

(* The host process, or its machine, dies.                                 *)
Crash(g) ==
  /\ host[g].pc \in Working \cup {"awarded", "joining"} /\ Fault
  /\ Set(g, Gone(host[g]))
  /\ UNCHANGED <<row, attempts, stopped, drain, net, stray>>

-----------------------------------------------------------------------------
(* The host's work (nodehost).                                             *)

Send(g, h, c) ==
  /\ Set(g, [h EXCEPT !.pc = "waiting", !.cmd = c, !.answer = "none"])
  /\ net' = net \cup {c}
  /\ UNCHANGED <<row, attempts, stopped, drain, stray, faults>>

(* A claimant that cannot host the award gives it back.                    *)
ReleaseUnit(g) ==
  LET c == Command("release", g, host[g].attempt, "none")
  IN host[g].pc = "awarded" /\ Send(g, host[g], c)

(* Local compute turned out to be busy.                                    *)
Relinquish(g) ==
  LET c == Command("relinquish", g, host[g].attempt, "none")
  IN host[g].pc = "idle" /\ ~host[g].soft /\ Send(g, host[g], c)

\* Mutant: the work starts before the first renewal was answered.
StartAtOnce(g) ==
  LET c == Command("start", g, host[g].attempt, "none")
  IN host[g].pc \in {"joining", "idle"} /\ ~host[g].soft /\ Send(g, host[g], c)

(* startExecution.                                                         *)
StartExecution(g) ==
  LET c == Command("start", g, host[g].attempt, "none")
  IN host[g].pc = "idle" /\ ~host[g].soft /\ Send(g, host[g], c)

(* claimSetupFailure: the job ends before it started.                      *)
SetupFailure(g) ==
  \E o \in (IF host[g].soft THEN {"cancelled"} ELSE {"failed", "skipped"}) :
    /\ host[g].pc = "idle"
    /\ Send(g, host[g], Command("report", g, host[g].attempt, o))

(* attempts and report: the attempt succeeded; it failed and is retried    *)
(* while the budget the host read lasts; it failed for good; or it was     *)
(* cancelled, as the beat or, after an error, the row says.                *)
CompleteSuccess(g) ==
  /\ host[g].pc = "executing" /\ ~host[g].soft
  /\ Send(g, [host[g] EXCEPT !.passed = host[g].attempt],
          Command("report", g, host[g].attempt, "success"))

CompleteRetry(g) ==
  /\ host[g].pc = "executing" /\ ~host[g].soft /\ ApplicationRetries < Retries
  /\ Send(g, host[g], Command("retry", g, host[g].attempt, "failed"))

CompleteFailure(g) ==
  /\ host[g].pc = "executing" /\ ~host[g].soft
  /\ Send(g, host[g], Command("report", g, host[g].attempt, "failed"))

CompleteCancelled(g) ==
  /\ host[g].pc = "executing" /\ (host[g].soft \/ row.cancel)
  /\ Send(g, host[g], Command("report", g, host[g].attempt, "cancelled"))

(* The answer to the command the host waits for: the next attempt, or the  *)
(* end.  A refusal, or giving up on an answer, ends the host.              *)
ReceiveAnswer(g) ==
  /\ host[g].pc = "waiting" /\ host[g].answer # "none"
  /\ LET h == host[g]
         next == h.attempt + 1
     IN Set(g, CASE h.answer = "refused" -> Gone(h)
                 [] h.answer = "ok" /\ h.cmd.op \in {"start", "retry"} ->
                      [h EXCEPT !.pc = "executing", !.attempt = next, !.begun = next,
                                !.cmd = NoCommand, !.answer = "none"]
                 [] OTHER -> [Gone(h) EXCEPT !.told = h.cmd.to])
  /\ UNCHANGED <<row, attempts, stopped, drain, net, stray, faults>>

-----------------------------------------------------------------------------
(* The reaper.                                                             *)

Lapsed == Held(row) /\ row.ttl = 0

(* Waiting for a claim, and maybe past the run's claim wait.               *)
Overdue == row.state \in {"pending", "ready"} /\ row.queued

Lapse(to, disrupted, outcome) ==
  /\ row' = [Cleared(to, Internal) EXCEPT
                !.disruptions = IF disrupted THEN @ + 1 ELSE @,
                !.queued = IF to = "pending" THEN @ ELSE FALSE]
  /\ Close(outcome)
  /\ UNCHANGED drain

\* Mutant: the lapse that reaches the limit still requeues.
ReapPastLimit ==
  LET running == row.state = "running"
  IN IF row.cancel THEN Lapse("cancelled", FALSE, "cancelled")
     ELSE IF row.gen \in stopped
       THEN row' = Cancelled /\ drain' = Drain /\ UNCHANGED attempts
     ELSE IF running /\ row.disruptions >= MaxDisruptions
       THEN Lapse("failed", TRUE, "failed")
     ELSE Lapse("pending", running, "failed")

\* Mutant: a stopped award is looked for before the cancellation.
ReapStoppedFirst ==
  LET running == row.state = "running"
  IN IF row.gen \in stopped
       THEN row' = Cancelled /\ drain' = DrainFrom /\ UNCHANGED attempts
     ELSE IF row.cancel THEN Lapse("cancelled", FALSE, "cancelled")
     ELSE IF running /\ row.disruptions + 1 >= MaxDisruptions
       THEN Lapse("failed", TRUE, "failed")
     ELSE Lapse("pending", running, "failed")

(* reapNodeUnitTx for a lease that has run out: cancelled if so asked; if  *)
(* its award was stopped, asked to be, for a later pass to find; failed at *)
(* the disruption limit; otherwise back in the queue.                      *)
Reap ==
  LET running == row.state = "running"
  IN IF row.cancel THEN Lapse("cancelled", FALSE, "cancelled")
     ELSE IF row.gen \in stopped
       THEN row' = Cancelled /\ drain' = Drain /\ UNCHANGED attempts
     ELSE IF running /\ row.disruptions + 1 >= MaxDisruptions
       THEN Lapse("failed", TRUE, "failed")
     ELSE Lapse("pending", running, "failed")

(* reapUnclaimedNodeTx: the claim wait is over.                            *)
QueueTimeout ==
  /\ Overdue
  /\ row' = [Cleared("failed", Internal) EXCEPT !.queued = FALSE]
  /\ UNCHANGED <<attempts, drain, stopped, host, net, stray, faults>>

\* Mutant: the reaper trusts its list.
ReapListed == Held(row) /\ Reap /\ UNCHANGED <<stopped, host, net, stray, faults>>

\* Mutant: only started jobs are reaped.
ReapStarted ==
  Lapsed /\ row.state = "running" /\ Reap /\ UNCHANGED <<stopped, host, net, stray, faults>>

(* Whatever the list of expired units said, the row is read again under    *)
(* the run's lock and its lease must have run out.                         *)
ReapNodeUnit == Lapsed /\ Reap /\ UNCHANGED <<stopped, host, net, stray, faults>>

-----------------------------------------------------------------------------
(* A tick passes everywhere.  watch ends a host whose time is up: the hard *)
(* context and everything that runs under it.                              *)
Ticked(h) ==
  IF h.pc \in {"none", "awarded", "gone"} \/ (h.pc = "waiting" /\ h.fence = 0) THEN h
  ELSE IF h.fence <= 1 THEN Gone(h)
  ELSE [h EXCEPT !.fence = @ - 1, !.beat.left = Less(@), !.beat.ttl = Less(@)]

Tick ==
  /\ row.ttl > 0 \/ (row.cancel /\ drain > 0) \/ \E g \in Gens : Ticked(host[g]) # host[g]
  /\ row' = [row EXCEPT !.ttl = Less(@)]
  /\ drain' = IF row.cancel THEN Less(drain) ELSE drain
  /\ host' = [g \in Gens |-> Ticked(host[g])]
  /\ UNCHANGED <<attempts, stopped, net, stray, faults>>

Init ==
  /\ row = [state |-> "pending", gen |-> 0, attempt |-> 0, disruptions |-> 0, ttl |-> 0,
            cancel |-> FALSE, queued |-> FALSE, last |-> Internal]
  /\ attempts = <<>> /\ stopped = {} /\ drain = 0
  /\ host = [g \in Gens |-> NoHost] /\ net = {} /\ stray = {} /\ faults = 0

HostStep(g) ==
  \/ Join(g) \/ SendRenew(g) \/ LoseBeat(g) \/ ReceiveBeat(g) \/ Crash(g)
  \/ ReleaseUnit(g) \/ Relinquish(g) \/ StartExecution(g) \/ SetupFailure(g)
  \/ CompleteSuccess(g) \/ CompleteRetry(g) \/ CompleteFailure(g) \/ CompleteCancelled(g)
  \/ ReceiveAnswer(g)

Next ==
  \/ OwnerRelease \/ OwnerRevoke \/ (\E o \in {"skipped", "failed", "cancelled"} : OwnerSettle(o))
  \/ (\E b \in 1..Lease : ClaimUnit(b)) \/ CancelNode
  \/ (\E g \in Gens : HostStep(g) \/ RenewNodeClaim(g) \/ StrayRenew(g))
  \/ (\E c \in net : TransitionNode(c))
  \/ ReapNodeUnit \/ QueueTimeout \/ Tick

(* Time passes and the controller's reaper loop keeps running.             *)
Fairness == WF_vars(Tick) /\ WF_vars(ReapNodeUnit)

Spec == Init /\ [][Next]_vars /\ Fairness
-----------------------------------------------------------------------------
(* Properties.                                                             *)

Rows == [state : States, gen : 0..MaxGeneration, attempt : 0..MaxAttempts,
         disruptions : 0..MaxDisruptions, ttl : 0..Lease, cancel : BOOLEAN,
         queued : BOOLEAN, last : Commands \cup {NoCommand}]
Attempts == [gen : Gens, outcome : Outcomes \cup {"open"}]
Beats == [phase : {"none", "sent", "kept", "refused"}, left : 0..Lease,
          ttl : 0..Lease, cancel : BOOLEAN]
Hosts == [pc : {"none", "awarded", "joining", "gone"} \cup Working, attempt : 0..MaxAttempts,
          fence : 0..Lease, soft : BOOLEAN, cmd : Commands \cup {NoCommand},
          answer : {"none", "ok", "refused"}, beat : Beats, begun : 0..MaxAttempts,
          passed : 0..MaxAttempts, told : Outcomes \cup {"none"}]

(* Every variable stays in its range.                                      *)
TypeOK ==
  /\ row \in Rows /\ attempts \in Seq(Attempts) /\ host \in [Gens -> Hosts]
  /\ stopped \subseteq Gens /\ drain \in 0..Drain
  /\ net \subseteq Commands /\ stray \subseteq Gens /\ faults \in 0..MaxFaults

(* The row agrees with its attempts (nodeState and the attempt closure's   *)
(* integrity checks never fire): the latest attempt is open exactly while  *)
(* the job runs, under the generation that holds it; retries and           *)
(* disruptions stay in their budgets; a job whose cancellation was         *)
(* requested is never in the queue again (a concurrency group may request  *)
(* that of a queued job too: ConcurrencyGroups has it); and a host that    *)
(* was told its report was accepted reported what the job was settled as.  *)
StoreSound ==
  /\ row.attempt = Len(attempts)
  /\ \A i \in DOMAIN attempts :
       /\ attempts[i].outcome = "open" <=> row.state = "running" /\ i = Len(attempts)
       /\ attempts[i].gen <= row.gen
       /\ \A j \in 1..i : attempts[j].gen <= attempts[i].gen
  /\ row.state = "running" => attempts # <<>> /\ attempts[Len(attempts)].gen = row.gen
  /\ ApplicationRetries <= Retries
  /\ row.disruptions = MaxDisruptions => row.state = "failed"
  /\ row.cancel => Held(row) \/ Done(row)
  /\ \A g \in Gens : host[g].told # "none" => row.state = host[g].told

(* A host that works on an attempt holds the job, under that attempt, for  *)
(* at least as long as its keeper lets it go on: whatever was delayed,     *)
(* lost or sent twice, the store never gives the job away under it.        *)
WorkIsCovered ==
  \A g \in Gens : host[g].pc = "executing" =>
    row.state = "running" /\ row.gen = g /\ row.attempt = host[g].attempt
      /\ host[g].fence \in 1..row.ttl

(* A claim whose lease runs is only ended by a command of its holder.      *)
LiveClaimsStay ==
  [][ LET g == row.gen IN
      Holds(g) /\ ~(Held(row') /\ row'.gen = g) => row'.last \in net /\ row'.last.gen = g ]_vars

(* A claim nobody works on any more, its host dead or its award never      *)
(* received, comes to an end.                                              *)
AbandonedReturns ==
  \A g \in Gens :
    (Held(row) /\ row.gen = g /\ host[g].pc \in {"none", "gone"})
      ~> ~(Held(row) /\ row.gen = g)

(* A held job whose cancellation was requested is settled in the end,      *)
(* whether its host answers, is silent, dies, or goes on renewing.         *)
CancelledSettles == row.cancel ~> Done(row)

(* What the abstract specification sees: who works on which attempt, and   *)
(* what the job was settled as.                                            *)
Most(f) == LET all == {f[g] : g \in Gens} \cup {0} IN CHOOSE n \in all : \A m \in all : m <= n
Executing == [g \in Gens |-> IF host[g].pc = "executing" THEN host[g].attempt ELSE 0]
Begun == [g \in Gens |-> host[g].begun]
Succeeded == [g \in Gens |-> host[g].passed]
Settled == IF Done(row) THEN row.state ELSE "open"

Work == INSTANCE UnitWork WITH worker <- Most(Executing), last <- Most(Begun),
                               passed <- Most(Succeeded), outcome <- Settled

(* Attempts are worked on one at a time, each under a new ordinal, nobody  *)
(* settles a job somebody works on, and a success is the last attempt's.   *)
OneWorkerAtATime == Work!Spec
=============================================================================
