--------------------------- MODULE AdmissionDaemon ---------------------------
(***************************************************************************)
(* The machine-admission service of the local daemon (internal/wingd): the *)
(* tickets that stand between the clients' HTTP requests and the ledger,   *)
(* the state file they share, the cancellation of runs and the clean-up of *)
(* jobs whose host died.                                                   *)
(*                                                                         *)
(* The ledger itself is AdmissionLedger's subject; here it is Capacity     *)
(* equal slots with a first-come queue, which keeps what the daemon needs  *)
(* of it: a submission is granted, queued or refused, a release promotes   *)
(* waiters, and a cancel_others submission supersedes the holders, whose   *)
(* leases stay until they release.  A critical section under the daemon's  *)
(* mutex is one step; whatever the code does with the mutex open (reading  *)
(* the runs store, inspecting processes, delivering an answer) is a step   *)
(* of its own.  Faults (a failed save, a crash, a planned replacement, a   *)
(* dying host, a lost answer or call) are counted, at most MaxFaults.      *)
(***************************************************************************)
EXTENDS Integers, FiniteSets

CONSTANTS
  Keys,          \* request keys: one per call of Client.Acquire
  Participants,  \* admission identities, the ledger's request ids
  Runs,          \* runs of the runs store
  Hosts,         \* processes that hold admission (RootPID with its birth)
  PartOf,        \* the identity each key asks for
  RunOf,         \* the run each identity belongs to
  HostOf,        \* the process that asks with each key
  Capacity,      \* slots of the ledger
  Threads,       \* concurrent request handlers
  MaxFaults      \* bound on saves, answers and processes that fail or are replaced

None == "none"

ASSUME DaemonAssumption ==
  /\ PartOf \in [Keys -> Participants]
  /\ RunOf \in [Participants -> Runs]
  /\ HostOf \in [Keys -> Hosts]
  /\ Capacity \in Nat \ {0} /\ MaxFaults \in Nat
  /\ IsFiniteSet(Keys) /\ None \notin Keys

VARIABLES
  adm,        \* what the daemon holds in memory
  committed,  \* the payload of its last successful save
  disk,       \* the payload in state.db
  daemon,     \* "up", "draining" or "down"
  handler,    \* the request handler each thread runs
  roots,      \* the tickets cleanupAdmissionProcesses copied and has yet to judge
  probe,      \* the one whose session it found or made empty
  client,     \* how far the caller of each key has come
  hosts,      \* the host processes that live
  sessions,   \* the keys whose job session has live processes
  terminal,   \* runs the store has cancelled
  notes,      \* cancellations committed whose observer has yet to run
  missed,     \* cancellations whose observer failed to save
  deleted,    \* keys whose by-key delete was acknowledged
  faults      \* how many faults have happened

vars == <<adm, committed, disk, daemon, handler, roots, probe, client, hosts,
          sessions, terminal, notes, missed, deleted, faults>>

TicketStates == {"none", "queued", "granted", "evicted", "cancelled", "released"}
Tickets == [state : TicketStates, active : BOOLEAN, cancel : BOOLEAN,
            lease : BOOLEAN, meas : BOOLEAN]
NoTicket == [state |-> "none", active |-> FALSE, cancel |-> FALSE,
             lease |-> FALSE, meas |-> FALSE]
Roles == {"absent", "waiter", "holder"}

-----------------------------------------------------------------------------
(* The ledger, as the daemon uses it.  `waiters' is who waits, in the      *)
(* order `ahead' (pairs), and `events' whom the operation granted.         *)

Free(a) == Capacity - Cardinality(a.leases \ a.superseded)

(* Those of the set ws in the order given.                                 *)
Among(order, ws) == order \cap (ws \X ws)

(* Ledger.promote: the head of the queue is granted while a slot is free.  *)
Pump(a) ==
  LET up == {p \in a.waiters :
               Cardinality({q \in a.waiters : <<q, p>> \in a.ahead}) < Free(a)}
  IN [a EXCEPT !.leases = @ \cup up, !.waiters = @ \ up,
               !.ahead = Among(@, a.waiters \ up), !.events = @ \cup up]

\* Mutant: a superseded hold is left behind by the release of its lease.
ReleaseKeepingSuperseded(a, p) == Pump([a EXCEPT !.leases = @ \ {p}])

LedgerRelease(a, p) ==
  Pump([a EXCEPT !.leases = @ \ {p}, !.superseded = @ \ {p}])

LedgerCancelWaiter(a, p) ==
  Pump([a EXCEPT !.waiters = @ \ {p}, !.ahead = Among(@, a.waiters \ {p})])

-----------------------------------------------------------------------------
(* Tickets and participants.                                               *)

Active(a, p) == {k \in Keys : PartOf[k] = p /\ a.tickets[k].active}

(* captureAdmissionDeliveriesLocked, the Grant case.                       *)
CaptureGrants(a, granted) ==
  [k \in Keys |->
     IF a.tickets[k].active /\ PartOf[k] \in granted
       THEN [a.tickets[k] EXCEPT !.state = "granted", !.lease = TRUE]
       ELSE a.tickets[k]]

(* The Evicted case: the ticket stays active, its lease stays held.        *)
CaptureEvicted(a, gone) ==
  [a EXCEPT !.tickets =
     [k \in Keys |->
        IF @[k].active /\ PartOf[k] \in gone
          THEN [@[k] EXCEPT !.state = "evicted"] ELSE @[k]]]

(* The Queued case, for every waiter at every commit: it does not bring a  *)
(* cancelled or evicted ticket back.                                       *)
CaptureQueued(a) ==
  [a EXCEPT !.tickets =
     [k \in Keys |->
        IF /\ @[k].active /\ PartOf[k] \in a.waiters
           /\ @[k].state \notin {"cancelled", "evicted"}
          THEN [@[k] EXCEPT !.state = "queued"] ELSE @[k]]]

\* Mutant: a grant nobody stands for is dropped, its lease kept.
RouteIgnoringOrphans(a) ==
  LET granted == {p \in a.events : a.roles[p] # "absent"}
  IN [a EXCEPT
        !.events = {},
        !.roles = [p \in Participants |-> IF p \in granted THEN "holder" ELSE @[p]],
        !.tickets = CaptureGrants(a, granted)]

(* routeLocked: a grant of an identity nobody stands for any more goes     *)
(* back to the ledger, and what that promotes is granted too; every        *)
(* participant granted becomes a holder and its ticket says so.            *)
Route(a) ==
  LET orphans == {p \in a.events : a.roles[p] = "absent"}
      b == IF orphans = {} THEN a
           ELSE Pump([a EXCEPT !.leases = @ \ orphans, !.superseded = @ \ orphans])
      granted == {p \in b.events : b.roles[p] # "absent"}
  IN [b EXCEPT
        !.events = {},
        !.roles = [p \in Participants |-> IF p \in granted THEN "holder" ELSE @[p]],
        !.tickets = CaptureGrants(b, granted)]

(* removeAdmissionParticipantLocked *)
RemoveParticipant(a, k) ==
  [a EXCEPT !.tickets[k].active = FALSE, !.roles[PartOf[k]] = "absent"]

(* releaseAdmissionTicketLocked: by the participant's role, not by what    *)
(* the ledger says of it; the events are routed by the caller.             *)
ReleaseTicket(a, k) ==
  LET p == PartOf[k]
      b == CASE a.roles[p] = "waiter" -> LedgerCancelWaiter(a, p)
             [] a.roles[p] = "holder" -> LedgerRelease(a, p)
             [] OTHER -> a
  IN RemoveParticipant(b, k)

\* Mutant: capacity is released though a session is recorded.
CancelDespiteSession(a, k) ==
  ReleaseTicket([a EXCEPT !.tickets[k] =
    [@ EXCEPT !.state = "cancelled", !.cancel = TRUE]], k)

\* Mutant: the lease goes and the ticket goes on saying granted.
CancelUntold(a, k) ==
  IF a.tickets[k].meas THEN a ELSE ReleaseTicket(a, k)

(* What reaping and cancelling do to one ticket: a ticket with a recorded  *)
(* job session is told but keeps its capacity.                             *)
CancelTicket(a, k) ==
  LET b == [a EXCEPT !.tickets[k] = [@ EXCEPT !.state = "cancelled", !.cancel = TRUE]]
  IN IF a.tickets[k].meas THEN b ELSE ReleaseTicket(b, k)

(* The loop over the tickets runs in the order of a Go map: any order.     *)
(* A release may promote a waiter whose own turn is still to come.         *)
CancelEach(a, ks) ==
  LET after[S \in SUBSET ks] ==
        IF S = {} THEN {a}
        ELSE UNION {{CancelTicket(b, k) : b \in after[S \ {k}]} : k \in S}
  IN {Route(b) : b \in after[ks]}

-----------------------------------------------------------------------------
(* Saving and restoring.                                                   *)

(* admissionPayloadLocked: everything but the participants.                *)
Payload(a) == [tickets |-> a.tickets, leases |-> a.leases,
               superseded |-> a.superseded, waiters |-> a.waiters,
               ahead |-> a.ahead, tombs |-> a.tombs]

(* restoreAdmissionPayloadLocked: the participants are rebuilt from the    *)
(* active tickets, the role of each from whether a lease was recorded.     *)
Restored(p) ==
  [tickets |-> p.tickets, leases |-> p.leases, superseded |-> p.superseded,
   waiters |-> p.waiters, ahead |-> p.ahead, tombs |-> p.tombs, events |-> {},
   roles |-> [q \in Participants |->
                LET ks == {k \in Keys : PartOf[k] = q /\ p.tickets[k].active}
                IN IF ks = {} THEN "absent"
                   ELSE IF \E k \in ks : p.tickets[k].lease THEN "holder"
                   ELSE "waiter"]]

Fault == faults < MaxFaults /\ faults' = faults + 1
NoFault == faults' = faults

(* Terminal tickets are kept for a minute; that minute outlives every      *)
(* request for their key that is under way (the bound is time, not state). *)
Prunable(a) ==
  {k \in Keys :
     /\ a.tickets[k].state # "none"
     /\ ~a.tickets[k].active /\ ~a.tickets[k].meas
     /\ client[k] \notin {"asking", "leaving", "deleting"}
     /\ \A t \in Threads : handler[t].key # k}

(* pruneAdmissionTicketsLocked *)
Prune(a, ks) ==
  [a EXCEPT !.tickets = [k \in Keys |-> IF k \in ks THEN NoTicket ELSE @[k]]]

(* The forms in which a section's result may be saved.                     *)
Saves(a) == {Prune(CaptureQueued(a), ks) : ks \in SUBSET Prunable(a)}

(* What a critical section has after its reaping: the memory, the payload  *)
(* last saved and the payload on disk.                                     *)
Section(a, c, d) == [adm |-> a, committed |-> c, disk |-> d]

(* commitAdmissionLocked.  A failed save may or may not have reached the   *)
(* disk; memory goes back to the payload last saved.                       *)
CommitOK(new) ==
  \E a \in Saves(new) : adm' = a /\ committed' = Payload(a) /\ disk' = Payload(a)

CommitFails(s, new) ==
  /\ Fault
  /\ adm' = Restored(s.committed)
  /\ committed' = s.committed
  /\ disk' \in {s.disk} \cup {Payload(a) : a \in Saves(new)}

-----------------------------------------------------------------------------
(* Reaping: dead holders, at the start of every critical section that      *)
(* decides, and once a second.                                             *)

(* The active tickets whose process is seen to be gone.  A process whose   *)
(* state cannot be read is passed over, so `seen' is any set of dead ones. *)
Due(a, seen) == {k \in Keys : a.tickets[k].active /\ HostOf[k] \in seen}

(* Whether reapAdmissionLocked saves: some ticket was not cancelled yet or *)
(* was released.                                                           *)
ReapChanges(a, ks) == \E k \in ks : ~a.tickets[k].cancel \/ ~a.tickets[k].meas

(* reapAdmissionLocked, its save succeeding.                               *)
Reaped(ks) ==
  IF ReapChanges(adm, ks)
    THEN {Section(b, Payload(b), Payload(b)) : b \in UNION {Saves(a) : a \in CancelEach(adm, ks)}}
    ELSE {Section(a, committed, disk) : a \in CancelEach(adm, ks)}

(* What a critical section that reaps first goes on with.                  *)
Sections == UNION {Reaped(Due(adm, seen)) : seen \in SUBSET (Hosts \ hosts)}

Unsaved(s) == adm' = s.adm /\ committed' = s.committed /\ disk' = s.disk

(* reapAdmission, from the liveness loop; a handler whose own reaping      *)
(* cannot save answers with the error, which is this step too.             *)
ReapAdmission ==
  /\ daemon # "down"
  /\ UNCHANGED <<daemon, handler, roots, probe, client, hosts, sessions, terminal,
                 notes, missed, deleted>>
  /\ \E seen \in SUBSET (Hosts \ hosts) :
       LET ks == Due(adm, seen) IN
       /\ ks # {}
       /\ \E a \in CancelEach(adm, ks) :
            IF ReapChanges(adm, ks)
              THEN \/ CommitOK(a) /\ NoFault
                   \/ CommitFails(Section(adm, committed, disk), a)
              ELSE adm' = a /\ UNCHANGED <<committed, disk, faults>>

-----------------------------------------------------------------------------
(* The client's request.                                                   *)

(* What Acquire does with an answer: a grant is held, a queued ticket is   *)
(* polled, anything else ends the call.                                    *)
Understood(state) ==
  CASE state = "granted" -> "holding"
    [] state = "queued" -> "queued"
    [] OTHER -> "gone"

(* The answer reaches a caller that still waits for it, or is lost and the *)
(* caller asks again.                                                      *)
Answer(k, state) ==
  \/ client' = [client EXCEPT ![k] = IF @ = "asking" THEN Understood(state) ELSE @]
     /\ NoFault
  \/ client[k] = "asking" /\ UNCHANGED client /\ Fault

Caller(k) == HostOf[k] \in hosts

Idle == [key |-> None, read |-> "unread"]

(* requestAdmissionHTTP up to the unlock: a known key is answered from its *)
(* ticket.  Asking while an earlier handler runs is a retry after a lost   *)
(* connection.                                                             *)
RequestAdmission(k, t) ==
  /\ daemon # "down" /\ Caller(k)
  /\ client[k] \in {"idle", "asking"}
  /\ handler[t] = Idle
  /\ IF adm.tickets[k].state # "none"
       THEN /\ client[k] = "asking"
            /\ Answer(k, adm.tickets[k].state)
            /\ UNCHANGED handler
       ELSE /\ handler' = [handler EXCEPT ![t] = [key |-> k, read |-> "unread"]]
            /\ client' = [client EXCEPT ![k] = "asking"]
            /\ IF \E u \in Threads : handler[u].key = k THEN Fault ELSE NoFault
  /\ UNCHANGED <<adm, committed, disk, daemon, roots, probe, hosts, sessions,
                 terminal, notes, missed, deleted>>

(* IsRunTerminal, read with the mutex open.                                *)
ReadTerminal(t) ==
  /\ handler[t].key # None /\ handler[t].read = "unread"
  /\ \/ /\ handler' = [handler EXCEPT ![t].read =
              IF RunOf[PartOf[handler[t].key]] \in terminal THEN "yes" ELSE "no"]
        /\ NoFault
     \/ handler' = [handler EXCEPT ![t].read = "error"] /\ Fault
  /\ UNCHANGED <<adm, committed, disk, daemon, roots, probe, client, hosts, sessions,
                 terminal, notes, missed, deleted>>

Denied(a, k) ==
  [a EXCEPT !.tickets[k] = [NoTicket EXCEPT !.state = "evicted"]]

(* What a request asks of the ledger: to queue, not to queue, to supersede *)
(* the holders; or something the ledger refuses or skips.                  *)
Demands == {"queue", "nonblocking", "cancel_others", "refused"}

(* Ledger.Submit and what the handler makes of each decision.              *)
Submitted(a, k, demand) ==
  LET p == PartOf[k]
      b == [a EXCEPT !.tickets[k] = [NoTicket EXCEPT !.state = "queued", !.active = TRUE],
                     !.roles[p] = "waiter"]
      others == a.leases \ a.superseded
      granted == [b EXCEPT !.leases = @ \cup {p}, !.events = @ \cup {p}]
      queued == [b EXCEPT !.waiters = @ \cup {p}, !.ahead = @ \cup (a.waiters \X {p})]
      fits == Free(a) > 0 /\ a.waiters = {}
  IN CASE demand = "refused" -> Denied(RemoveParticipant(b, k), k)
       [] demand = "cancel_others" ->
            Route(CaptureEvicted(Pump([granted EXCEPT !.superseded = @ \cup others]), others))
       [] demand \in {"queue", "nonblocking"} /\ fits -> Route(Pump(granted))
       [] demand = "nonblocking" /\ ~fits -> Route(Denied(ReleaseTicket(queued, k), k))
       [] demand = "queue" /\ ~fits -> queued

\* Mutant: the handler trusts its terminal read and no tombstone.
DecideByTerminalRead(a, k, read) ==
  IF read \in {"yes", "error"} \/ a.roles[PartOf[k]] # "absent"
    THEN {Denied(a, k)}
    ELSE {Submitted(a, k, demand) : demand \in Demands}

(* The decision of a new ticket: denied if its run is cancelled or could   *)
(* not be read, or if its identity is in admission already.                *)
Decisions(a, k, read) ==
  LET p == PartOf[k] IN
  IF \/ read \in {"yes", "error"}
     \/ RunOf[p] \in a.tombs
     \/ a.roles[p] # "absent"
    THEN {Denied(a, k)}
    ELSE {Submitted(a, k, demand) : demand \in Demands}

\* Mutant: no second look at the key.
AdmitWithoutReplay(t) ==
  /\ daemon # "down"
  /\ handler[t].key # None /\ handler[t].read # "unread"
  /\ LET k == handler[t].key IN
     \E s \in Sections :
       IF ~Caller(k) \/ daemon = "draining"
         THEN Unsaved(s) /\ UNCHANGED client /\ NoFault
       ELSE \E new \in Decisions(s.adm, k, handler[t].read) :
            \/ CommitOK(new) /\ Answer(k, new.tickets[k].state)
            \/ CommitFails(s, new) /\ UNCHANGED client
  /\ handler' = [handler EXCEPT ![t] = Idle]
  /\ UNCHANGED <<daemon, roots, probe, hosts, sessions, terminal, notes, missed, deleted>>

(* requestAdmissionHTTP after the mutex is taken again: reaping, a second  *)
(* look at the key, the holder's identity, draining, the decision.         *)
Admit(t) ==
  /\ daemon # "down"
  /\ handler[t].key # None /\ handler[t].read # "unread"
  /\ LET k == handler[t].key IN
     \E s \in Sections :
       IF s.adm.tickets[k].state # "none"
         THEN Unsaved(s) /\ Answer(k, s.adm.tickets[k].state)
       ELSE IF ~Caller(k) \/ daemon = "draining"
         THEN Unsaved(s) /\ UNCHANGED client /\ NoFault
       ELSE \E new \in Decisions(s.adm, k, handler[t].read) :
            \/ CommitOK(new) /\ Answer(k, new.tickets[k].state)
            \/ CommitFails(s, new) /\ UNCHANGED client
  /\ handler' = [handler EXCEPT ![t] = Idle]
  /\ UNCHANGED <<daemon, roots, probe, hosts, sessions, terminal, notes, missed, deleted>>

(* getAdmissionHTTP for a queued caller: it reads its ticket.              *)
Poll(k) ==
  /\ daemon # "down" /\ Caller(k) /\ client[k] = "queued"
  /\ \E s \in Sections :
       /\ Unsaved(s)
       /\ s.adm.tickets[k].state # "queued"
       /\ client' = [client EXCEPT ![k] = Understood(s.adm.tickets[k].state)]
  /\ UNCHANGED <<daemon, handler, roots, probe, hosts, sessions, terminal, notes,
                 missed, deleted, faults>>

(* Acquire's context ends before a grant: it deletes by key.               *)
GiveUp(k) ==
  /\ Caller(k) /\ client[k] \in {"asking", "queued"}
  /\ client' = [client EXCEPT ![k] = "leaving"]
  /\ UNCHANGED <<adm, committed, disk, daemon, handler, roots, probe, hosts, sessions,
                 terminal, notes, missed, deleted, faults>>

\* Mutant: an unknown key is answered without a ticket.
DeleteUnknownKey(k) ==
  /\ daemon # "down" /\ Caller(k) /\ client[k] = "leaving"
  /\ client' = [client EXCEPT ![k] = "deleting"]
  /\ UNCHANGED <<adm, committed, disk, daemon, handler, roots, probe, hosts,
                 sessions, terminal, notes, missed, deleted, faults>>

(* DELETE /requests/by-key, its first two critical sections: a key nobody  *)
(* knows yet gets a released ticket, for the request that is still on its  *)
(* way to find.                                                            *)
DeleteByKey(k) ==
  /\ daemon # "down" /\ Caller(k) /\ client[k] = "leaving"
  /\ LET new == [adm EXCEPT !.tickets[k] = [NoTicket EXCEPT !.state = "released"]]
         next == client' = [client EXCEPT ![k] = "deleting"]
     IN IF adm.tickets[k].state # "none"
          THEN next /\ NoFault /\ UNCHANGED <<adm, committed, disk>>
          ELSE \/ CommitOK(new) /\ next /\ NoFault
               \/ CommitFails(Section(adm, committed, disk), new) /\ UNCHANGED client
  /\ UNCHANGED <<daemon, handler, roots, probe, hosts, sessions, terminal, notes,
                 missed, deleted>>

(* releaseAdmissionHTTP, for an active ticket: what was told already stays. *)
Released(a, k) ==
  LET b == ReleaseTicket(a, k)
  IN Route(IF b.tickets[k].state \in {"granted", "queued"}
             THEN [b EXCEPT !.tickets[k] = [@ EXCEPT !.state = "released"]] ELSE b)

(* releaseAdmissionHTTP, the ticket known by its id: the end of a by-key   *)
(* delete, or Lease.Release.                                               *)
ReleaseAdmission(k) ==
  /\ daemon # "down" /\ Caller(k) /\ client[k] \in {"deleting", "releasing"}
  /\ LET done == /\ client' = [client EXCEPT ![k] = "gone"]
                 /\ deleted' = IF client[k] = "deleting" THEN deleted \cup {k} ELSE deleted
     IN \E s \in Sections :
          IF ~s.adm.tickets[k].active
            THEN Unsaved(s) /\ done /\ NoFault
          ELSE \E new \in {Released(s.adm, k)} :
               \/ CommitOK(new) /\ done /\ NoFault
               \/ CommitFails(s, new) /\ UNCHANGED <<client, deleted>>
  /\ UNCHANGED <<daemon, handler, roots, probe, hosts, sessions, terminal, notes, missed>>

(* The caller's time limit ends the call before it was served.             *)
ReleaseLost(k) ==
  /\ Caller(k) /\ client[k] \in {"leaving", "deleting", "releasing"} /\ Fault
  /\ client' = [client EXCEPT ![k] = "gone"]
  /\ UNCHANGED <<adm, committed, disk, daemon, handler, roots, probe, hosts, sessions,
                 terminal, notes, missed, deleted>>

(* processAdmissionHTTP: the started job's session is recorded.  The job   *)
(* is sent its work once this is acknowledged; a refusal ends it.          *)
TrackProcess(k) ==
  /\ daemon # "down" /\ Caller(k) /\ client[k] = "holding"
  /\ LET new == [adm EXCEPT !.tickets[k].meas = TRUE] IN
     IF ~adm.tickets[k].active \/ adm.tickets[k].state # "granted"
       THEN /\ client' = [client EXCEPT ![k] = "releasing"]
            /\ NoFault /\ UNCHANGED <<adm, committed, disk, sessions>>
       ELSE \/ /\ CommitOK(new) /\ NoFault
               /\ client' = [client EXCEPT ![k] = "working"]
               /\ sessions' = sessions \cup {k}
            \/ CommitOK(new) /\ Fault /\ UNCHANGED <<client, sessions>>
            \/ CommitFails(Section(adm, committed, disk), new)
               /\ UNCHANGED <<client, sessions>>
  /\ UNCHANGED <<daemon, handler, roots, probe, hosts, terminal, notes, missed, deleted>>

(* The host ends the job and joins its session before it releases.         *)
Finish(k) ==
  /\ Caller(k) /\ client[k] \in {"holding", "working"}
  /\ client' = [client EXCEPT ![k] = "releasing"]
  /\ sessions' = sessions \ {k}
  /\ UNCHANGED <<adm, committed, disk, daemon, handler, roots, probe, hosts, terminal,
                 notes, missed, deleted, faults>>

(* Lease.WatchControl: the ticket says evicted, cancelled, released or is  *)
(* gone; the host ends the job.                                            *)
Watch(k) ==
  /\ daemon # "down" /\ Caller(k) /\ client[k] \in {"holding", "working"}
  /\ UNCHANGED <<daemon, handler, roots, probe, hosts, terminal, notes, missed,
                 deleted, faults>>
  /\ client' = [client EXCEPT ![k] = "releasing"]
  /\ sessions' = sessions \ {k}
  /\ \E s \in Sections : s.adm.tickets[k].state # "granted" /\ Unsaved(s)

(* runConnsLocked *)
Targets(a, r) == {k \in Keys : a.tickets[k].active /\ RunOf[PartOf[k]] = r}

(* priorityAdmissionHTTP: the run's waiters move before or behind the      *)
(* others; no slot is freed by it.                                         *)
Reordered(a, r) ==
  LET own == {p \in a.waiters : RunOf[p] = r}
      rest == a.waiters \ own
      kept == Among(a.ahead, own) \cup Among(a.ahead, rest)
  IN {[a EXCEPT !.ahead = kept \cup moved] : moved \in {own \X rest, rest \X own}}

SetPriority(r) ==
  /\ daemon # "down"
  /\ \E s \in Sections :
       /\ Targets(s.adm, r) # {}
       /\ \E new \in Reordered(s.adm, r) :
            \/ CommitOK(new) /\ NoFault
            \/ CommitFails(s, new)
  /\ UNCHANGED <<daemon, handler, roots, probe, client, hosts, sessions, terminal,
                 notes, missed, deleted>>

-----------------------------------------------------------------------------
(* Cancelling a run.                                                       *)

(* cancelAdmissionRunLocked *)
CancelAdmissionRun(a, r) ==
  CancelEach([a EXCEPT !.tombs = @ \cup {r}], Targets(a, r))

(* The store commits the cancellation of a run; its observer runs next.    *)
CancelRun(r) ==
  /\ daemon # "down" /\ r \notin terminal
  /\ terminal' = terminal \cup {r}
  /\ notes' = notes \cup {r}
  /\ UNCHANGED <<adm, committed, disk, daemon, handler, roots, probe, client, hosts,
                 sessions, missed, deleted, faults>>

(* cancelCommittedRunAdmission: called once, after the commit; it does not *)
(* reap, and a failed save is reported and not retried.                    *)
CancelCommittedRun(r) ==
  /\ daemon # "down" /\ r \in notes
  /\ notes' = notes \ {r}
  /\ \E new \in CancelAdmissionRun(adm, r) :
       \/ CommitOK(new) /\ NoFault /\ UNCHANGED missed
       \/ CommitFails(Section(adm, committed, disk), new) /\ missed' = missed \cup {r}
  /\ UNCHANGED <<daemon, handler, roots, probe, client, hosts, sessions, terminal, deleted>>

(* cancelAdmissionHTTP, after FinalizeCancelledRuns returned.  It answers  *)
(* without effect unless the run is, or was, in admission.                 *)
CancelAdmissionHTTP(r) ==
  /\ daemon # "down" /\ r \in terminal \ notes
  /\ \E s \in Sections :
       /\ Targets(s.adm, r) # {} \/ r \in s.adm.tombs
       /\ \E new \in CancelAdmissionRun(s.adm, r) :
            /\ new # adm
            /\ \/ CommitOK(new) /\ NoFault /\ missed' = missed \ {r}
               \/ CommitFails(s, new) /\ UNCHANGED missed
  /\ UNCHANGED <<daemon, handler, roots, probe, client, hosts, sessions, terminal,
                 notes, deleted>>

-----------------------------------------------------------------------------
(* Orphaned jobs.                                                          *)

(* cleanupAdmissionProcesses copies the tickets with a recorded session ... *)
CleanupCopy ==
  /\ daemon # "down" /\ roots = {} /\ probe = None
  /\ roots' = {[key |-> k, active |-> adm.tickets[k].active,
                cancel |-> adm.tickets[k].cancel] :
                 k \in {k \in Keys : adm.tickets[k].meas}}
  /\ UNCHANGED <<adm, committed, disk, daemon, handler, probe, client, hosts,
                 sessions, terminal, notes, missed, deleted, faults>>

\* Mutant: a living host's job is never cleaned up, cancelled or not.
InspectDeadHostsOnly ==
  /\ daemon # "down" /\ probe = None
  /\ \E root \in roots :
       /\ roots' = roots \ {root}
       /\ probe' = IF Caller(root.key) THEN None ELSE root.key
       /\ sessions' = IF Caller(root.key) THEN sessions ELSE sessions \ {root.key}
  /\ UNCHANGED <<adm, committed, disk, daemon, handler, client, hosts, terminal,
                 notes, missed, deleted, faults>>

(* ... judges each copy against the live processes with the mutex open: a  *)
(* job that is held, or whose host will end it, is left alone; an orphan's *)
(* session is killed ...                                                   *)
CleanupInspect ==
  /\ daemon # "down" /\ probe = None
  /\ UNCHANGED <<adm, committed, disk, daemon, handler, client, hosts, terminal,
                 notes, missed, deleted, faults>>
  /\ \E root \in roots :
       LET k == root.key
           spared == \/ root.active /\ Caller(k) /\ ~root.cancel
                     \/ k \in sessions /\ Caller(k)
       IN /\ roots' = roots \ {root}
          /\ probe' = IF spared THEN None ELSE k
          /\ sessions' = IF spared THEN sessions ELSE sessions \ {k}

(* ... and, under the mutex again, forgets the session and releases a      *)
(* cancelled ticket.                                                       *)
CleanupRelease ==
  /\ daemon # "down" /\ probe # None
  /\ UNCHANGED <<daemon, handler, roots, client, hosts, sessions, terminal, notes,
                 missed, deleted>>
  /\ probe' = None
  /\ LET k == probe
         ticket == adm.tickets[k]
     IN IF ~ticket.meas
          THEN NoFault /\ UNCHANGED <<adm, committed, disk>>
          ELSE \E a \in IF ticket.active /\ ticket.cancel
                          THEN {Route(ReleaseTicket(adm, k))} ELSE {adm} :
                 \E new \in {[a EXCEPT !.tickets[k].meas = FALSE]} :
                   \/ CommitOK(new) /\ NoFault
                   \/ CommitFails(Section(adm, committed, disk), new)

-----------------------------------------------------------------------------
(* Processes that die and the daemon's own life.                           *)

(* A host dies; what its jobs started goes on.                             *)
HostDies(h) ==
  /\ h \in hosts /\ Fault
  /\ hosts' = hosts \ {h}
  /\ client' = [k \in Keys |->
       IF HostOf[k] = h /\ client[k] # "idle" THEN "gone" ELSE client[k]]
  /\ UNCHANGED <<adm, committed, disk, daemon, handler, roots, probe, sessions,
                 terminal, notes, missed, deleted>>

(* An orphaned session ends by itself.                                     *)
SessionEnds(k) ==
  /\ k \in sessions /\ ~Caller(k)
  /\ sessions' = sessions \ {k}
  /\ UNCHANGED <<adm, committed, disk, daemon, handler, roots, probe, client, hosts,
                 terminal, notes, missed, deleted, faults>>

(* beginDrain: new requests are turned away; the state is saved.           *)
BeginDrain ==
  /\ daemon = "up" /\ daemon' = "draining" /\ Fault
  /\ \/ CommitOK(adm)
     \/ CommitFails(Section(adm, committed, disk), adm)
  /\ UNCHANGED <<handler, roots, probe, client, hosts, sessions, terminal, notes,
                 missed, deleted>>

(* The daemon dies, or exits once drained: handlers, observers and memory  *)
(* go with it.                                                             *)
Stop ==
  /\ daemon # "down" /\ daemon' = "down"
  /\ IF daemon = "draining" THEN NoFault ELSE Fault
  /\ adm' = Restored(disk) /\ committed' = disk /\ UNCHANGED disk
  /\ handler' = [t \in Threads |-> Idle]
  /\ roots' = {} /\ probe' = None /\ notes' = {}
  /\ missed' = missed \cup notes
  /\ UNCHANGED <<client, hosts, sessions, terminal, deleted>>

(* initLedger: what was saved is restored, runs cancelled meanwhile and    *)
(* holders that died are cancelled, and the result is saved before serving. *)
Start ==
  /\ daemon = "down"
  /\ UNCHANGED <<handler, roots, probe, client, hosts, sessions, terminal, notes, deleted>>
  /\ LET a == Restored(disk)
         ended == {k \in Keys : a.tickets[k].active /\ RunOf[PartOf[k]] \in terminal}
         runs == {RunOf[PartOf[k]] : k \in ended}
     IN \E b \in CancelEach([a EXCEPT !.tombs = @ \cup runs], ended) :
          \E seen \in SUBSET (Hosts \ hosts) :
            \E new \in CancelEach(b, Due(b, seen)) :
              \/ CommitOK(new) /\ NoFault /\ daemon' = "up" /\ missed' = {}
              \/ /\ CommitFails(Section(a, disk, disk), new)
                 /\ UNCHANGED <<daemon, missed>>

-----------------------------------------------------------------------------
Fresh == [tickets |-> [k \in Keys |-> NoTicket], leases |-> {}, superseded |-> {},
          waiters |-> {}, ahead |-> {}, tombs |-> {}]

Init ==
  /\ adm = Restored(Fresh) /\ committed = Fresh /\ disk = Fresh
  /\ daemon = "up" /\ handler = [t \in Threads |-> Idle] /\ roots = {} /\ probe = None
  /\ client = [k \in Keys |-> "idle"]
  /\ hosts = Hosts /\ sessions = {} /\ terminal = {}
  /\ notes = {} /\ missed = {} /\ deleted = {} /\ faults = 0

Next ==
  \/ ReapAdmission
  \/ \E k \in Keys, t \in Threads : RequestAdmission(k, t)
  \/ \E t \in Threads : ReadTerminal(t)
  \/ \E t \in Threads : Admit(t)
  \/ \E k \in Keys : Poll(k)
  \/ \E k \in Keys : GiveUp(k)
  \/ \E k \in Keys : DeleteByKey(k)
  \/ \E k \in Keys : ReleaseAdmission(k)
  \/ \E k \in Keys : ReleaseLost(k)
  \/ \E k \in Keys : TrackProcess(k)
  \/ \E k \in Keys : Finish(k)
  \/ \E k \in Keys : Watch(k)
  \/ \E r \in Runs : SetPriority(r)
  \/ \E r \in Runs : CancelRun(r)
  \/ \E r \in Runs : CancelCommittedRun(r)
  \/ \E r \in Runs : CancelAdmissionHTTP(r)
  \/ CleanupCopy
  \/ CleanupInspect
  \/ CleanupRelease
  \/ \E h \in Hosts : HostDies(h)
  \/ \E k \in Keys : SessionEnds(k)
  \/ BeginDrain
  \/ Stop
  \/ Start

-----------------------------------------------------------------------------
(* What is saved, what is held in memory, and the copies of the clean-up.  *)
Payloads == [tickets : [Keys -> Tickets], leases : SUBSET Participants,
             superseded : SUBSET Participants, waiters : SUBSET Participants,
             ahead : SUBSET (Participants \X Participants), tombs : SUBSET Runs]
Memories == [tickets : [Keys -> Tickets], leases : SUBSET Participants,
             superseded : SUBSET Participants, waiters : SUBSET Participants,
             ahead : SUBSET (Participants \X Participants), tombs : SUBSET Runs,
             events : SUBSET Participants, roles : [Participants -> Roles]]
Copies == [key : Keys, active : BOOLEAN, cancel : BOOLEAN]

(* TypeOK: every variable has its type, and no ledger event is left        *)
(* unrouted when the mutex is free.                                        *)
TypeOK ==
  /\ adm \in Memories /\ committed \in Payloads /\ disk \in Payloads
  /\ adm.superseded \subseteq adm.leases /\ adm.events = {}
  /\ roots \subseteq Copies /\ probe \in Keys \cup {None}
  /\ daemon \in {"up", "draining", "down"}
  /\ handler \in [Threads -> [key : Keys \cup {None},
                              read : {"unread", "no", "yes", "error"}]]
  /\ client \in [Keys -> {"idle", "asking", "queued", "holding", "working",
                          "leaving", "deleting", "releasing", "gone"}]
  /\ hosts \subseteq Hosts /\ sessions \subseteq Keys /\ deleted \subseteq Keys
  /\ notes \subseteq terminal /\ missed \subseteq terminal /\ terminal \subseteq Runs
  /\ faults \in 0..MaxFaults

(* Books: whenever the mutex is free, the leases and waiters of the ledger *)
(* are exactly the identities some active ticket stands for, one ticket    *)
(* each, and the participant's role and the ticket's recorded lease say    *)
(* which of the two; so every grant has someone who can release it, also   *)
(* after a rollback and after a restart.                                   *)
Books ==
  \A p \in Participants :
    LET holds == p \in adm.leases
        waits == p \in adm.waiters
    IN /\ ~(holds /\ waits)
       /\ Cardinality(Active(adm, p)) = IF holds \/ waits THEN 1 ELSE 0
       /\ adm.roles[p] = (IF holds THEN "holder" ELSE IF waits THEN "waiter" ELSE "absent")
       /\ \A k \in Active(adm, p) : adm.tickets[k].lease = holds

(* WorkHoldsCapacity: a job whose session has live processes keeps its     *)
(* lease, whatever became of its host, its run, the daemon or a save.      *)
WorkHoldsCapacity ==
  \A k \in sessions :
    adm.tickets[k].active /\ adm.tickets[k].meas /\ PartOf[k] \in adm.leases

(* GrantsAreTold: a caller that believes it holds a lease does, or its     *)
(* ticket no longer says granted and its watch will end the job.           *)
GrantsAreTold ==
  \A k \in Keys :
    client[k] \in {"holding", "working"} =>
      \/ adm.tickets[k].active /\ PartOf[k] \in adm.leases
      \/ adm.tickets[k].state # "granted"

(* CancelledRunsLeave: a run the store has cancelled has no ticket that    *)
(* still says queued or granted, once its observer has run; the terminal   *)
(* check that a request made before the cancellation lets nothing through. *)
CancelledRunsLeave ==
  daemon # "down" =>
    \A k \in Keys :
      /\ adm.tickets[k].active
      /\ RunOf[PartOf[k]] \in terminal \ (notes \cup missed)
      => adm.tickets[k].state \in {"cancelled", "evicted"}

(* DeletedKeysHoldNothing: once the delete by key was acknowledged, no     *)
(* request with that key, whenever it arrives, stands in admission.        *)
DeletedKeysHoldNothing == \A k \in deleted : ~adm.tickets[k].active

(* TicketsEndOnce: while the daemon runs, saves failing or not, a ticket   *)
(* that ended never becomes active again and one that was granted is never *)
(* queued again: a key gets one decision.                                  *)
TicketsEndOnce ==
  [][\A k \in Keys :
       daemon # "down" /\ daemon' # "down" =>
         /\ adm.tickets[k].state # "none" /\ ~adm.tickets[k].active
            => ~adm'.tickets[k].active
         /\ adm.tickets[k].lease /\ adm'.tickets[k].active => adm'.tickets[k].lease]_vars

(* Fairness: the liveness loop runs every second; a host watches its       *)
(* lease; a daemon that died is started by the next client; the clean-up   *)
(* goes through every recorded session.                                    *)
Fairness ==
  /\ WF_vars(ReapAdmission)
  /\ WF_vars(CleanupCopy \/ CleanupInspect \/ CleanupRelease)
  /\ WF_vars(\E k \in Keys : Watch(k))
  /\ WF_vars(Start)

Spec == Init /\ [][Next]_vars /\ Fairness

(* DoomedTicketsEnd: the capacity of a host that died comes back with no   *)
(* client asking for it, its job's session killed first; so does that of a *)
(* cancelled job whose host lives and whose release was lost.              *)
DoomedTicketsEnd ==
  \A k \in Keys :
    (adm.tickets[k].active /\ (~Caller(k) \/ adm.tickets[k].cancel))
      ~> ~adm.tickets[k].active
=============================================================================
