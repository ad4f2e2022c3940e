------------------------ MODULE AdmissionDaemonProofs ------------------------
(***************************************************************************)
(* What TLAPS proves about the admission service, for every set of keys,   *)
(* identities, runs and hosts, every capacity and every number of faults:  *)
(* the books balance after every critical section, rollback and restart,   *)
(* a job at work keeps its capacity, callers and cancelled runs are told,  *)
(* deleted keys hold nothing, and a ticket ends once.                      *)
(***************************************************************************)
EXTENDS AdmissionDaemon, FiniteSetTheorems, NaturalsInduction, TLAPS

-----------------------------------------------------------------------------
(* The inductive invariant.                                                *)

(* What a ticket says of itself.                                           *)
TicketOK(t) ==
  /\ t.state = "none" => t = NoTicket
  /\ t.state = "granted" => t.active /\ t.lease
  /\ t.state = "queued" => t.active
  /\ t.cancel => t.state \in {"cancelled", "evicted"}
  /\ t.active => (t.cancel => t.meas) /\ (t.meas => t.lease)
TicketsOK(a) == \A k \in Keys : TicketOK(a.tickets[k])

(* How an identity stands in the ledger, among the participants and among  *)
(* the tickets; `events' are the grants not yet routed.                    *)
Standing(a, p) ==
  /\ ~(p \in a.leases /\ p \in a.waiters)
  /\ p \in a.events \cup a.superseded => p \in a.leases
  /\ a.roles[p] = "holder" <=> p \in a.leases \ a.events
  /\ p \in a.waiters => a.roles[p] = "waiter"
  /\ a.roles[p] = "waiter" => p \in a.waiters \cup a.events
  /\ a.roles[p] # "absent" <=> \E k \in Keys : PartOf[k] = p /\ a.tickets[k].active
  /\ \A k \in Keys : PartOf[k] = p /\ a.tickets[k].active =>
                       (a.tickets[k].lease <=> a.roles[p] = "holder")
Single(a) ==
  \A j, k \in Keys :
    a.tickets[j].active /\ a.tickets[k].active /\ PartOf[j] = PartOf[k] => j = k
Balanced(a) ==
  a \in Memories /\ Single(a) /\ \A p \in Participants : Standing(a, p)

(* The memory when the mutex is free, and a payload that restores to one.  *)
Rest(a) == Balanced(a) /\ TicketsOK(a) /\ a.events = {}
Sound(c) == c \in Payloads /\ Rest(Restored(c))

(* The memory differs from what was saved last in what told tickets say.   *)
SameTicket(x, y) ==
  /\ x.active = y.active /\ x.cancel = y.cancel /\ x.lease = y.lease /\ x.meas = y.meas
  /\ x.state = "none" <=> y.state = "none"
Saved(a, c) ==
  a.tombs = c.tombs /\ \A k \in Keys : SameTicket(a.tickets[k], c.tickets[k])

(* A ticket that ended has ended on disk too.                              *)
Behind(c, d) ==
  \A k \in Keys :
    c.tickets[k].state # "none" /\ ~c.tickets[k].active => ~d.tickets[k].active

(* A session is recorded, and nobody who would release its ticket lives.   *)
Working(c) == \A k \in sessions : c.tickets[k].active /\ c.tickets[k].meas

(* A key that is being deleted has a ticket, or nobody who would make one. *)
Settled(c, d, k) ==
  \/ c.tickets[k].state # "none"
  \/ d.tickets[k].state = "none" /\ \A t \in Threads : handler[t].key # k
Deletions(c, d) ==
  \A k \in Keys :
    /\ client[k] = "deleting" => Settled(c, d, k)
    /\ k \in deleted => client[k] = "gone" /\ ~c.tickets[k].active /\ Settled(c, d, k)

(* The clean-up judges by copies that are older than the tickets, of whom  *)
(* the host is dead, the ticket ended or cancelled, if it was then.        *)
Doomed(c, k) ==
  c.tickets[k].meas /\ (c.tickets[k].active => c.tickets[k].cancel \/ ~Caller(k))
CleanUp(c) ==
  /\ \A root \in roots :
       /\ c.tickets[root.key].meas
       /\ root.active \/ ~c.tickets[root.key].active
       /\ root.cancel => c.tickets[root.key].cancel
  /\ probe # None => Doomed(c, probe)

(* A cancelled run has nothing but cancelled tickets, and no request that  *)
(* could make another.                                                     *)
RunLeft(c, r) ==
  /\ \A k \in Keys : c.tickets[k].active /\ RunOf[PartOf[k]] = r => c.tickets[k].cancel
  /\ \/ r \in c.tombs
     \/ \A t \in Threads : \A k \in Keys :
          handler[t].key = k /\ RunOf[PartOf[k]] = r => handler[t].read # "no"
RunsLeft(c) ==
  daemon # "down" => \A r \in terminal \ (notes \cup missed) : RunLeft(c, r)

Tables(a, c, d) ==
  /\ Rest(a) /\ Sound(c) /\ Sound(d)
  /\ Saved(a, c) /\ Behind(c, d)
  /\ Working(c) /\ Working(d)
  /\ Deletions(c, d) /\ RunsLeft(c)

Control ==
  /\ daemon \in {"up", "draining", "down"}
  /\ handler \in [Threads -> [key : Keys \cup {None},
                              read : {"unread", "no", "yes", "error"}]]
  /\ client \in [Keys -> {"idle", "asking", "queued", "holding", "working",
                          "leaving", "deleting", "releasing", "gone"}]
  /\ hosts \subseteq Hosts /\ sessions \subseteq Keys /\ deleted \subseteq Keys
  /\ notes \subseteq terminal /\ missed \subseteq terminal /\ terminal \subseteq Runs
  /\ faults \in 0..MaxFaults
  /\ roots \subseteq Copies /\ probe \in Keys \cup {None}
  /\ \A r1, r2 \in roots : r1.key = r2.key => r1 = r2
  /\ \A root \in roots : root.key # probe
  /\ probe \notin sessions
  /\ \A k \in sessions : client[k] = "working" \/ ~Caller(k)
  /\ daemon = "down" => /\ \A t \in Threads : handler[t] = Idle
                        /\ roots = {} /\ probe = None

IInv == Control /\ Tables(adm, committed, disk) /\ CleanUp(committed)

-----------------------------------------------------------------------------
(* What the operations on the memory make of it.                           *)

(* Pump: some waiters are granted.                                         *)
Promoted(a, b, up) ==
  /\ up \subseteq a.waiters /\ b \in Memories
  /\ b.leases = a.leases \cup up /\ b.waiters = a.waiters \ up
  /\ b.events = a.events \cup up /\ b.superseded = a.superseded
  /\ b.tickets = a.tickets /\ b.roles = a.roles /\ b.tombs = a.tombs

LEMMA PumpPromotes ==
  ASSUME NEW a \in Memories
  PROVE  \E up : Promoted(a, Pump(a), up)
<1> DEFINE up == {p \in a.waiters :
                   Cardinality({q \in a.waiters : <<q, p>> \in a.ahead}) < Free(a)}
<1>1. Pump(a) = [a EXCEPT !.leases = @ \cup up, !.waiters = @ \ up,
                         !.ahead = Among(@, a.waiters \ up), !.events = @ \cup up]
  BY DEF Pump
<1>2. up \subseteq a.waiters
  OBVIOUS
<1>3. Among(a.ahead, a.waiters \ up) \in SUBSET (Participants \X Participants)
  BY DEF Among, Memories
<1> HIDE DEF up
<1>4. Promoted(a, Pump(a), up)
  BY <1>1, <1>2, <1>3 DEF Promoted, Memories
<1> QED BY <1>4

(* ReleaseTicket, by the role of the ticket's participant.                 *)
Removed(a, b, k) ==
  /\ b \in Memories /\ b.tombs = a.tombs
  /\ b.roles = [a.roles EXCEPT ![PartOf[k]] = "absent"]
  /\ b.tickets = [a.tickets EXCEPT ![k] = [@ EXCEPT !.active = FALSE]]
ReleasedAs(a, b, k, up) ==
  LET p == PartOf[k] IN
  /\ up \subseteq a.waiters /\ b.events = a.events \cup up
  /\ CASE a.roles[p] = "waiter" ->
            /\ p \notin up /\ b.leases = a.leases \cup up
            /\ b.waiters = a.waiters \ (up \cup {p}) /\ b.superseded = a.superseded
       [] a.roles[p] = "holder" ->
            /\ b.leases = (a.leases \ {p}) \cup up
            /\ b.waiters = a.waiters \ up /\ b.superseded = a.superseded \ {p}
       [] OTHER -> /\ up = {} /\ b.leases = a.leases
                   /\ b.waiters = a.waiters /\ b.superseded = a.superseded

LEMMA RemoveMakes ==
  ASSUME NEW a \in Memories, NEW k \in Keys
  PROVE  LET b == RemoveParticipant(a, k) IN
         /\ Removed(a, b, k) /\ b.events = a.events /\ b.leases = a.leases
         /\ b.waiters = a.waiters /\ b.superseded = a.superseded
<1> DEFINE p == PartOf[k]
<1>1. p \in Participants
  BY DaemonAssumption
<1>2. [a.tickets EXCEPT ![k] = [@ EXCEPT !.active = FALSE]] \in [Keys -> Tickets]
  BY DEF Memories, Tickets
<1>3. [a.roles EXCEPT ![p] = "absent"] \in [Participants -> Roles]
  BY <1>1 DEF Memories, Roles
<1>4. RemoveParticipant(a, k) =
        [a EXCEPT !.tickets = [a.tickets EXCEPT ![k] = [@ EXCEPT !.active = FALSE]],
                  !.roles = [a.roles EXCEPT ![p] = "absent"]]
  BY DEF RemoveParticipant, Memories
<1> HIDE DEF p
<1> QED BY <1>2, <1>3, <1>4 DEF Removed, Memories, p

LEMMA ReleaseMakes ==
  ASSUME NEW a \in Memories, NEW k \in Keys
  PROVE  LET b == ReleaseTicket(a, k) IN
         Removed(a, b, k) /\ \E up : ReleasedAs(a, b, k, up)
<1> DEFINE p == PartOf[k]
           b == ReleaseTicket(a, k)
<1>0. p \in Participants
  BY DaemonAssumption
<1>1. CASE a.roles[p] = "waiter"
  <2> DEFINE c == [a EXCEPT !.waiters = @ \ {p}, !.ahead = Among(@, a.waiters \ {p})]
  <2>1. c \in Memories /\ c.waiters = a.waiters \ {p} /\ c.leases = a.leases
        /\ c.events = a.events /\ c.superseded = a.superseded /\ c.tickets = a.tickets
        /\ c.roles = a.roles /\ c.tombs = a.tombs
    <3>1. Among(a.ahead, a.waiters \ {p}) \in SUBSET (Participants \X Participants)
      BY DEF Among, Memories
    <3> QED BY <3>1 DEF Memories
  <2> HIDE DEF c
  <2>2. PICK up : Promoted(c, Pump(c), up)
    BY <2>1, PumpPromotes
  <2>3. b = RemoveParticipant(Pump(c), k)
    BY <1>1 DEF ReleaseTicket, LedgerCancelWaiter, c
  <2>4. /\ Removed(Pump(c), b, k) /\ b.events = Pump(c).events /\ b.leases = Pump(c).leases
        /\ b.waiters = Pump(c).waiters /\ b.superseded = Pump(c).superseded
    BY <2>2, <2>3, RemoveMakes DEF Promoted
  <2>5. Removed(a, b, k)
    BY <2>1, <2>2, <2>4 DEF Removed, Promoted
  <2>6. ReleasedAs(a, b, k, up)
    BY <1>1, <2>1, <2>2, <2>4 DEF ReleasedAs, Promoted
  <2> QED BY <2>5, <2>6
<1>2. CASE a.roles[p] = "holder"
  <2> DEFINE c == [a EXCEPT !.leases = @ \ {p}, !.superseded = @ \ {p}]
  <2>1. c \in Memories /\ c.waiters = a.waiters /\ c.leases = a.leases \ {p}
        /\ c.events = a.events /\ c.superseded = a.superseded \ {p} /\ c.tickets = a.tickets
        /\ c.roles = a.roles /\ c.tombs = a.tombs
    BY DEF Memories
  <2> HIDE DEF c
  <2>2. PICK up : Promoted(c, Pump(c), up)
    BY <2>1, PumpPromotes
  <2>3. b = RemoveParticipant(Pump(c), k)
    BY <1>2 DEF ReleaseTicket, LedgerRelease, c
  <2>4. /\ Removed(Pump(c), b, k) /\ b.events = Pump(c).events /\ b.leases = Pump(c).leases
        /\ b.waiters = Pump(c).waiters /\ b.superseded = Pump(c).superseded
    BY <2>2, <2>3, RemoveMakes DEF Promoted
  <2>5. Removed(a, b, k)
    BY <2>1, <2>2, <2>4 DEF Removed, Promoted
  <2>6. ReleasedAs(a, b, k, up)
    BY <1>2, <2>1, <2>2, <2>4 DEF ReleasedAs, Promoted
  <2> QED BY <2>5, <2>6
<1>3. CASE a.roles[p] \notin {"waiter", "holder"}
  <2>1. b = RemoveParticipant(a, k)
    BY <1>3 DEF ReleaseTicket
  <2>2. /\ Removed(a, b, k) /\ b.events = a.events /\ b.leases = a.leases
        /\ b.waiters = a.waiters /\ b.superseded = a.superseded
    BY <2>1, RemoveMakes
  <2>3. ReleasedAs(a, b, k, {})
    BY <1>3, <2>2 DEF ReleasedAs
  <2> QED BY <2>2, <2>3
<1> QED BY <1>1, <1>2, <1>3

(* A ticket released takes its identity out of the books.                  *)
LEMMA ReleaseBalances ==
  ASSUME NEW a, NEW k \in Keys, Balanced(a), a.tickets[k].active
  PROVE  Balanced(ReleaseTicket(a, k))
<1> DEFINE p == PartOf[k]
           b == ReleaseTicket(a, k)
<1>0. p \in Participants /\ a \in Memories
  BY DaemonAssumption DEF Balanced
<1>1. Removed(a, b, k)
  BY <1>0, ReleaseMakes
<1>2. PICK up : ReleasedAs(a, b, k, up)
  BY <1>0, ReleaseMakes
<1> HIDE DEF b
<1>3. /\ \A j \in Keys : b.tickets[j].active <=> a.tickets[j].active /\ j # k
      /\ \A j \in Keys : b.tickets[j].lease = a.tickets[j].lease
  BY <1>0, <1>1 DEF Removed, Memories, Tickets
<1>4. Single(b)
  BY <1>3 DEF Balanced, Single
<1>5. ASSUME NEW q \in Participants PROVE Standing(b, q)
  <2>0. Standing(a, q) /\ Standing(a, p)
    BY <1>0 DEF Balanced
  <2>1. b.roles[q] = IF q = p THEN "absent" ELSE a.roles[q]
    BY <1>0, <1>1 DEF Removed, Memories
  <2>2. \A j \in Keys : PartOf[j] = p /\ a.tickets[j].active => j = k
    BY DEF Balanced, Single
  <2>3. a.roles[p] \in {"waiter", "holder"}
    BY <1>0, <2>0 DEF Standing, Memories, Roles
  <2>4. /\ ~(q \in b.leases /\ q \in b.waiters)
        /\ q \in b.events \cup b.superseded => q \in b.leases
        /\ b.roles[q] = "holder" <=> q \in b.leases \ b.events
        /\ q \in b.waiters => b.roles[q] = "waiter"
        /\ b.roles[q] = "waiter" => q \in b.waiters \cup b.events
    BY <1>2, <2>0, <2>1, <2>3 DEF Standing, ReleasedAs
  <2>5. /\ b.roles[q] # "absent" <=> \E j \in Keys : PartOf[j] = q /\ b.tickets[j].active
        /\ \A j \in Keys : PartOf[j] = q /\ b.tickets[j].active =>
                             (b.tickets[j].lease <=> b.roles[q] = "holder")
    BY <1>3, <2>0, <2>1, <2>2 DEF Standing
  <2> QED BY <2>4, <2>5 DEF Standing
<1>6. Balanced(b)
  BY <1>1, <1>4, <1>5 DEF Balanced, Removed
<1> QED BY <1>6 DEF b

(* Route: the grants nobody stands for go back, the others are told.       *)
RoutedAs(a, b, up) ==
  LET orphans == {p \in a.events : a.roles[p] = "absent"}
      granted == {p \in a.events \cup up : a.roles[p] # "absent"}
  IN /\ up \subseteq a.waiters /\ b \in Memories /\ b.events = {} /\ b.tombs = a.tombs
     /\ orphans = {} => up = {}
     /\ b.leases = (a.leases \ orphans) \cup up
     /\ b.superseded = a.superseded \ orphans /\ b.waiters = a.waiters \ up
     /\ b.roles = [p \in Participants |-> IF p \in granted THEN "holder" ELSE a.roles[p]]
     /\ b.tickets = [k \in Keys |->
          IF a.tickets[k].active /\ PartOf[k] \in granted
            THEN [a.tickets[k] EXCEPT !.state = "granted", !.lease = TRUE]
            ELSE a.tickets[k]]

LEMMA RouteMakes ==
  ASSUME NEW a \in Memories
  PROVE  \E up : RoutedAs(a, Route(a), up)
<1> DEFINE orphans == {p \in a.events : a.roles[p] = "absent"}
           c == [a EXCEPT !.leases = @ \ orphans, !.superseded = @ \ orphans]
           b == IF orphans = {} THEN a ELSE Pump(c)
           granted == {p \in b.events : b.roles[p] # "absent"}
           T == [k \in Keys |->
                   IF a.tickets[k].active /\ PartOf[k] \in granted
                     THEN [a.tickets[k] EXCEPT !.state = "granted", !.lease = TRUE]
                     ELSE a.tickets[k]]
           R == [p \in Participants |-> IF p \in granted THEN "holder" ELSE a.roles[p]]
<1>1. \E up : /\ up \subseteq a.waiters /\ b \in Memories
              /\ orphans = {} => up = {}
              /\ b.leases = (a.leases \ orphans) \cup up
              /\ b.superseded = a.superseded \ orphans /\ b.waiters = a.waiters \ up
              /\ b.events = a.events \cup up /\ b.roles = a.roles
              /\ b.tickets = a.tickets /\ b.tombs = a.tombs
  <2>1. CASE orphans = {}
    <3>1. b = a
      BY <2>1
    <3> HIDE DEF b
    <3> DEFINE e == a.events \ a.events
    <3>2. /\ e \subseteq a.waiters /\ e = {}
          /\ a.leases = (a.leases \ orphans) \cup e /\ a.superseded = a.superseded \ orphans
          /\ a.waiters = a.waiters \ e /\ a.events = a.events \cup e
      BY <2>1
    <3> HIDE DEF orphans, e
    <3> WITNESS e
    <3> QED BY <3>1, <3>2
  <2>2. CASE orphans # {}
    <3>1. c \in Memories /\ c.waiters = a.waiters /\ c.leases = a.leases \ orphans
          /\ c.superseded = a.superseded \ orphans /\ c.events = a.events
          /\ c.tickets = a.tickets /\ c.roles = a.roles /\ c.tombs = a.tombs
      <4> HIDE DEF orphans
      <4> QED BY DEF Memories
    <3>2. b = Pump(c)
      BY <2>2
    <3> HIDE DEF c, b, orphans
    <3>3. PICK up : Promoted(c, Pump(c), up)
      BY <3>1, PumpPromotes
    <3> WITNESS up
    <3> QED BY <2>2, <3>1, <3>2, <3>3 DEF Promoted
  <2> QED BY <2>1, <2>2
<1>2. PICK up :
              /\ up \subseteq a.waiters /\ b \in Memories
              /\ orphans = {} => up = {}
              /\ b.leases = (a.leases \ orphans) \cup up
              /\ b.superseded = a.superseded \ orphans /\ b.waiters = a.waiters \ up
              /\ b.events = a.events \cup up /\ b.roles = a.roles
              /\ b.tickets = a.tickets /\ b.tombs = a.tombs
  BY <1>1
<1>3. Route(a) = [b EXCEPT !.events = {}, !.roles = R, !.tickets = CaptureGrants(b, granted)]
  <2>1. b.roles = a.roles
    BY <1>2
  <2> QED BY <2>1 DEF Route
<1>4. CaptureGrants(b, granted) = T
  <2> HIDE DEF granted, b
  <2> QED BY <1>2 DEF CaptureGrants
<1>5. T \in [Keys -> Tickets] /\ R \in [Participants -> Roles]
  <2> HIDE DEF granted, b
  <2>1. \A t \in Tickets : [t EXCEPT !.state = "granted", !.lease = TRUE] \in Tickets
    BY DEF Tickets, TicketStates
  <2>2. a.tickets \in [Keys -> Tickets] /\ a.roles \in [Participants -> Roles]
    BY DEF Memories
  <2>3. T \in [Keys -> Tickets]
    BY <2>1, <2>2
  <2>4. R \in [Participants -> Roles]
    BY <2>2 DEF Roles
  <2> QED BY <2>3, <2>4
<1>6. granted = {p \in a.events \cup up : a.roles[p] # "absent"}
  BY <1>2
<1> HIDE DEF b, T, R, granted
<1>7. /\ Route(a) \in Memories /\ Route(a).events = {} /\ Route(a).tombs = a.tombs
      /\ Route(a).leases = b.leases /\ Route(a).superseded = b.superseded
      /\ Route(a).waiters = b.waiters /\ Route(a).roles = R /\ Route(a).tickets = T
  BY <1>2, <1>3, <1>4, <1>5 DEF Memories
<1>8. RoutedAs(a, Route(a), up)
  BY <1>2, <1>6, <1>7 DEF RoutedAs, R, T
<1> QED BY <1>8

(* What routing makes of a ticket: nothing, or a waiter's ticket is granted. *)
TicketGranted(x, y) ==
  /\ x.active /\ ~x.lease /\ ~x.meas /\ ~x.cancel
  /\ y.state = "granted" /\ y.active /\ y.lease /\ ~y.meas /\ ~y.cancel
GrantsOnly(a, b) ==
  \A k \in Keys : b.tickets[k] = a.tickets[k] \/ TicketGranted(a.tickets[k], b.tickets[k])

LEMMA RouteRests ==
  ASSUME NEW a, Balanced(a), TicketsOK(a)
  PROVE  /\ Rest(Route(a)) /\ GrantsOnly(a, Route(a)) /\ Route(a).tombs = a.tombs
         /\ a.events = {} => \A k \in Keys : Route(a).tickets[k] = a.tickets[k]
<1>0. a \in Memories /\ a.tickets \in [Keys -> Tickets] /\ a.roles \in [Participants -> Roles]
  BY DEF Balanced, Memories
<1> DEFINE b == Route(a)
<1>1. PICK up : RoutedAs(a, b, up)
  BY <1>0, RouteMakes
<1> HIDE DEF b
<1> DEFINE orphans == {p \in a.events : a.roles[p] = "absent"}
           granted == {p \in a.events \cup up : a.roles[p] # "absent"}
<1>2. /\ up \subseteq a.waiters /\ b \in Memories /\ b.events = {} /\ b.tombs = a.tombs
      /\ b.leases = (a.leases \ orphans) \cup up
      /\ b.superseded = a.superseded \ orphans /\ b.waiters = a.waiters \ up
      /\ \A p \in Participants : b.roles[p] = IF p \in granted THEN "holder" ELSE a.roles[p]
      /\ \A k \in Keys : b.tickets[k] =
           IF a.tickets[k].active /\ PartOf[k] \in granted
             THEN [a.tickets[k] EXCEPT !.state = "granted", !.lease = TRUE]
             ELSE a.tickets[k]
  BY <1>1 DEF RoutedAs
<1>3. /\ \A p \in Participants : p \in orphans <=> p \in a.events /\ a.roles[p] = "absent"
      /\ \A p \in Participants : p \in granted <=>
                                   p \in a.events \cup up /\ a.roles[p] # "absent"
  OBVIOUS
<1> HIDE DEF orphans, granted
<1>4. \A p \in Participants : p \in granted => a.roles[p] = "waiter"
  <2> SUFFICES ASSUME NEW p \in Participants, p \in granted PROVE a.roles[p] = "waiter"
    OBVIOUS
  <2>1. Standing(a, p)
    BY DEF Balanced
  <2>2. a.roles[p] \in Roles
    BY <1>0
  <2>3. p \in a.events \cup up /\ a.roles[p] # "absent" /\ up \subseteq a.waiters
    BY <1>2, <1>3
  <2> QED BY <2>1, <2>2, <2>3 DEF Standing, Roles
<1>5. ASSUME NEW k \in Keys
      PROVE  b.tickets[k] = a.tickets[k] \/ TicketGranted(a.tickets[k], b.tickets[k])
  <2>1. CASE a.tickets[k].active /\ PartOf[k] \in granted
    <3>1. PartOf[k] \in Participants
      BY DaemonAssumption
    <3>2. Standing(a, PartOf[k]) /\ TicketOK(a.tickets[k]) /\ a.tickets[k] \in Tickets
      BY <1>0, <3>1 DEF Balanced, TicketsOK
    <3>3. ~a.tickets[k].lease
      BY <1>4, <2>1, <3>1, <3>2 DEF Standing
    <3>4. ~a.tickets[k].meas /\ ~a.tickets[k].cancel
      BY <2>1, <3>2, <3>3 DEF TicketOK
    <3>5. b.tickets[k] = [a.tickets[k] EXCEPT !.state = "granted", !.lease = TRUE]
      BY <1>2, <2>1
    <3> QED BY <2>1, <3>2, <3>3, <3>4, <3>5 DEF TicketGranted, Tickets
  <2>2. CASE ~(a.tickets[k].active /\ PartOf[k] \in granted)
    BY <1>2, <2>2
  <2> QED BY <2>1, <2>2
<1>6. TicketsOK(b)
  BY <1>5 DEF TicketsOK, TicketOK, TicketGranted
<1>7. \A k \in Keys : b.tickets[k].active = a.tickets[k].active
  <2> SUFFICES ASSUME NEW k \in Keys PROVE b.tickets[k].active = a.tickets[k].active
    OBVIOUS
  <2>1. a.tickets[k] \in Tickets
    BY <1>0
  <2> QED BY <1>2, <2>1 DEF Tickets
<1>8. Single(b)
  BY <1>7 DEF Balanced, Single
<1>9. ASSUME NEW p \in Participants PROVE Standing(b, p)
  <2>0. Standing(a, p)
    BY DEF Balanced
  <2>1. b.roles[p] = IF p \in granted THEN "holder" ELSE a.roles[p]
    BY <1>2
  <2>2. a.roles[p] \in Roles
    BY <1>0
  <2>3. /\ ~(p \in b.leases /\ p \in b.waiters)
        /\ p \in b.events \cup b.superseded => p \in b.leases
        /\ b.roles[p] = "holder" <=> p \in b.leases \ b.events
        /\ p \in b.waiters => b.roles[p] = "waiter"
        /\ b.roles[p] = "waiter" => p \in b.waiters \cup b.events
    BY <1>2, <1>3, <2>0, <2>1, <2>2 DEF Standing, Roles
  <2>4. b.roles[p] # "absent" <=> \E j \in Keys : PartOf[j] = p /\ b.tickets[j].active
    BY <1>3, <1>7, <2>0, <2>1 DEF Standing
  <2>5. ASSUME NEW j \in Keys, PartOf[j] = p, b.tickets[j].active
        PROVE  b.tickets[j].lease <=> b.roles[p] = "holder"
    <3>1. a.tickets[j].active /\ a.tickets[j] \in Tickets
      BY <1>0, <1>7, <2>5
    <3>2. CASE p \in granted
      BY <1>2, <2>1, <2>5, <3>1, <3>2 DEF Tickets
    <3>3. CASE p \notin granted
      BY <1>2, <2>0, <2>1, <2>5, <3>1, <3>3 DEF Standing
    <3> QED BY <3>2, <3>3
  <2> QED BY <2>3, <2>4, <2>5 DEF Standing
<1>10. Rest(b) /\ GrantsOnly(a, b)
  BY <1>2, <1>5, <1>6, <1>8, <1>9 DEF Rest, Balanced, GrantsOnly
<1>11. a.events = {} => \A k \in Keys : b.tickets[k] = a.tickets[k]
  <2> SUFFICES ASSUME a.events = {} PROVE \A k \in Keys : b.tickets[k] = a.tickets[k]
    OBVIOUS
  <2>1. granted = {}
    BY <1>1 DEF RoutedAs, granted
  <2> QED BY <1>2, <2>1
<1> QED BY <1>2, <1>10, <1>11 DEF b

-----------------------------------------------------------------------------
(* Cancelling the tickets of a set, in any order.                          *)

(* What cancelling makes of a ticket.                                      *)
TicketCancelled(x, y) ==
  /\ y.state = "cancelled" /\ y.cancel /\ y.meas = x.meas /\ y.lease = x.lease
  /\ y.active = (x.active /\ x.meas)

(* Some of the tickets have had their turn: they are cancelled, and the    *)
(* others are as they were.                                                *)
CancelledIn(a, b, S) ==
  /\ Balanced(b) /\ TicketsOK(b) /\ b.tombs = a.tombs
  /\ (\A k \in S : a.tickets[k].meas) => b.events = a.events
  /\ \A k \in Keys : k \in S => TicketCancelled(a.tickets[k], b.tickets[k])
  /\ \A k \in Keys : k \notin S => b.tickets[k] = a.tickets[k]

LEMMA CancelOne ==
  ASSUME NEW b, Balanced(b), TicketsOK(b), NEW k \in Keys, b.tickets[k].active
  PROVE  LET c == CancelTicket(b, k) IN
         /\ Balanced(c) /\ TicketsOK(c) /\ c.tombs = b.tombs
         /\ TicketCancelled(b.tickets[k], c.tickets[k])
         /\ b.tickets[k].meas => c.events = b.events
         /\ \A j \in Keys : j # k => c.tickets[j] = b.tickets[j]
<1> DEFINE t == [b.tickets[k] EXCEPT !.state = "cancelled", !.cancel = TRUE]
           d == [b EXCEPT !.tickets[k] = [@ EXCEPT !.state = "cancelled", !.cancel = TRUE]]
           c == CancelTicket(b, k)
<1>0. b \in Memories /\ b.tickets \in [Keys -> Tickets] /\ b.tickets[k] \in Tickets
  BY DEF Balanced, Memories
<1>1. /\ t \in Tickets /\ t.state = "cancelled" /\ t.cancel /\ t.meas = b.tickets[k].meas
      /\ t.lease = b.tickets[k].lease /\ t.active = b.tickets[k].active
  BY <1>0 DEF Tickets, TicketStates
<1>2. /\ d = [b EXCEPT !.tickets = [b.tickets EXCEPT ![k] = t]]
      /\ [b.tickets EXCEPT ![k] = t] \in [Keys -> Tickets]
  <2>1. [b.tickets EXCEPT ![k] = t] \in [Keys -> Tickets]
    BY <1>0, <1>1
  <2> QED BY <1>0, <2>1 DEF Memories
<1>3. c = IF b.tickets[k].meas THEN d ELSE ReleaseTicket(d, k)
  BY DEF CancelTicket
<1> HIDE DEF t, d, c
<1>4. /\ d \in Memories /\ d.tickets = [b.tickets EXCEPT ![k] = t] /\ d.tombs = b.tombs
      /\ d.leases = b.leases /\ d.waiters = b.waiters /\ d.events = b.events
      /\ d.superseded = b.superseded /\ d.roles = b.roles
  BY <1>0, <1>2 DEF Memories
<1>5. \A j \in Keys : d.tickets[j] = IF j = k THEN t ELSE b.tickets[j]
  BY <1>0, <1>4
<1>6. \A j \in Keys : d.tickets[j].active = b.tickets[j].active
                      /\ d.tickets[j].lease = b.tickets[j].lease
  BY <1>1, <1>5
<1>7. Balanced(d)
  <2>1. Single(d)
    BY <1>6 DEF Balanced, Single
  <2>2. ASSUME NEW p \in Participants PROVE Standing(d, p)
    <3>1. Standing(b, p)
      BY DEF Balanced
    <3> QED BY <1>4, <1>6, <3>1 DEF Standing
  <2> QED BY <1>4, <2>1, <2>2 DEF Balanced
<1>8. CASE b.tickets[k].meas
  <2>1. c = d
    BY <1>3, <1>8
  <2>2. TicketCancelled(b.tickets[k], t)
    BY <1>1, <1>8 DEF TicketCancelled
  <2>3. TicketOK(t)
    <3>1. TicketOK(b.tickets[k])
      BY DEF TicketsOK
    <3> QED BY <1>1, <1>8, <3>1 DEF TicketOK
  <2>4. TicketsOK(d)
    BY <1>5, <2>3 DEF TicketsOK
  <2> QED BY <1>4, <1>5, <1>7, <2>1, <2>2, <2>4 DEF c
<1>9. CASE ~b.tickets[k].meas
  <2>1. c = ReleaseTicket(d, k)
    BY <1>3, <1>9
  <2>2. d.tickets[k].active
    BY <1>6
  <2>3. Balanced(c)
    BY <1>7, <2>1, <2>2, ReleaseBalances
  <2>4. Removed(d, c, k)
    BY <1>4, <2>1, ReleaseMakes
  <2> DEFINE u == [t EXCEPT !.active = FALSE]
  <2>5. c.tickets = [d.tickets EXCEPT ![k] = u] /\ c.tombs = d.tombs
    BY <1>5, <2>4 DEF Removed
  <2>6. /\ u.state = "cancelled" /\ u.cancel /\ u.meas = b.tickets[k].meas
        /\ u.lease = b.tickets[k].lease /\ u.active = FALSE
    BY <1>1 DEF Tickets
  <2> HIDE DEF u
  <2>7. d.tickets \in [Keys -> Tickets]
    BY <1>4 DEF Memories
  <2>8. \A j \in Keys : c.tickets[j] = IF j = k THEN u ELSE b.tickets[j]
    BY <1>5, <2>5, <2>7
  <2>9. TicketCancelled(b.tickets[k], u) /\ TicketOK(u)
    BY <1>9, <2>6 DEF TicketCancelled, TicketOK
  <2>10. TicketsOK(c)
    BY <2>8, <2>9 DEF TicketsOK
  <2> QED BY <1>4, <1>9, <2>3, <2>5, <2>8, <2>9, <2>10 DEF c
<1> QED BY <1>8, <1>9

(* A nonempty set of naturals has a least element.                         *)
LEMMA LeastNatural ==
  ASSUME NEW T \in SUBSET Nat, T # {}
  PROVE  \E x \in T : \A y \in T : x <= y
<1> DEFINE Smaller == {p \in Nat \X Nat : p[1] < p[2]}
<1>1. IsWellFoundedOn(Smaller, Nat)
  BY NatLessThanWellFounded DEF OpToRel
<1>2. PICK x \in T : \A y \in T : <<y, x>> \notin Smaller
  <2> HIDE DEF Smaller
  <2> QED BY <1>1, WFMin
<1>3. \A y \in T : <<y, x>> \in Nat \X Nat
  OBVIOUS
<1>4. \A y \in T : ~(y < x)
  BY <1>2, <1>3
<1> QED BY <1>4

(* The recursion of CancelEach has a solution.                             *)
Outcomes(f, a, S) ==
  IF S = {} THEN {a} ELSE UNION {{CancelTicket(b, k) : b \in f[S \ {k}]} : k \in S}
Solves(f, a, ks) == f = [S \in SUBSET ks |-> Outcomes(f, a, S)]

LEMMA CancelSolves ==
  ASSUME NEW a, NEW ks \in SUBSET Keys
  PROVE  \E f : Solves(f, a, ks) /\ CancelEach(a, ks) = {Route(b) : b \in f[ks]}
<1> DEFINE Upto(f, n) ==
             /\ f = [S \in SUBSET ks |-> f[S]]
             /\ \A S \in SUBSET ks : Cardinality(S) <= n => f[S] = Outcomes(f, a, S)
           Bad == {n \in Nat : ~\E f : Upto(f, n)}
<1>1. IsFiniteSet(ks)
  BY DaemonAssumption, FS_Subset
<1>2. \A S \in SUBSET ks : IsFiniteSet(S) /\ Cardinality(S) \in Nat
  BY <1>1, FS_Subset, FS_CardinalityType
<1>3. \E f : Upto(f, 0)
  <2> DEFINE f == [S \in SUBSET ks |-> {a}]
  <2>1. \A S \in SUBSET ks : Cardinality(S) <= 0 => f[S] = Outcomes(f, a, S)
    <3> SUFFICES ASSUME NEW S \in SUBSET ks, Cardinality(S) <= 0
                 PROVE  f[S] = Outcomes(f, a, S)
      OBVIOUS
    <3>1. S = {}
      BY <1>2, FS_EmptySet
    <3> QED BY <3>1 DEF Outcomes
  <2>2. f = [S \in SUBSET ks |-> f[S]]
    OBVIOUS
  <2> HIDE DEF f
  <2> QED BY <2>1, <2>2
<1>4. ASSUME NEW n \in Nat, \E f : Upto(f, n)
      PROVE  \E g : Upto(g, n + 1)
  <2>1. PICK f : Upto(f, n)
    BY <1>4
  <2> DEFINE g == [S \in SUBSET ks |-> Outcomes(f, a, S)]
  <2>2. \A S \in SUBSET ks : g[S] = Outcomes(f, a, S)
    OBVIOUS
  <2>3. g = [S \in SUBSET ks |-> g[S]]
    OBVIOUS
  <2> HIDE DEF g
  <2>4. ASSUME NEW S \in SUBSET ks, Cardinality(S) <= n + 1
        PROVE  g[S] = Outcomes(g, a, S)
    <3>1. ASSUME NEW k \in S PROVE g[S \ {k}] = f[S \ {k}]
      <4>1. S \ {k} \in SUBSET ks
        OBVIOUS
      <4>2. Cardinality(S \ {k}) = Cardinality(S) - 1
        BY <1>2, FS_RemoveElement
      <4>3. Cardinality(S \ {k}) <= n
        BY <1>2, <2>4, <4>2
      <4>4. f[S \ {k}] = Outcomes(f, a, S \ {k})
        BY <2>1, <4>1, <4>3
      <4> QED BY <2>2, <4>1, <4>4
    <3>2. UNION {{CancelTicket(b, k) : b \in f[S \ {k}]} : k \in S}
          = UNION {{CancelTicket(b, k) : b \in g[S \ {k}]} : k \in S}
      BY <3>1
    <3> QED BY <2>2, <3>2 DEF Outcomes
  <2> QED BY <2>3, <2>4
<1>5. \A n \in Nat : \E f : Upto(f, n)
  <2> SUFFICES ASSUME Bad # {} PROVE FALSE
    OBVIOUS
  <2>1. PICK n \in Bad : \A m \in Bad : n <= m
    BY LeastNatural
  <2>2. n \in Nat /\ ~\E f : Upto(f, n)
    OBVIOUS
  <2>3. n # 0
    BY <1>3, <2>2
  <2>4. n - 1 \in Nat /\ (n - 1) + 1 = n
    BY <2>2, <2>3
  <2>5. \E f : Upto(f, n - 1)
    <3>1. n - 1 \notin Bad
      <4> HIDE DEF Bad
      <4> QED BY <2>1, <2>2, <2>4
    <3> QED BY <2>4, <3>1
  <2> HIDE DEF Upto
  <2> QED BY <1>4, <2>2, <2>4, <2>5
<1>6. PICK f : Upto(f, Cardinality(ks))
  BY <1>2, <1>5
<1>7. Solves(f, a, ks)
  <2>1. ASSUME NEW S \in SUBSET ks PROVE f[S] = Outcomes(f, a, S)
    <3>1. Cardinality(S) <= Cardinality(ks)
      BY <1>1, FS_Subset
    <3> QED BY <1>6, <3>1
  <2> QED BY <1>6, <2>1 DEF Solves
<1> DEFINE after == CHOOSE h : Solves(h, a, ks)
<1>8. Solves(after, a, ks)
  BY <1>7
<1>9. CancelEach(a, ks) = {Route(b) : b \in after[ks]}
  BY DEF CancelEach, Solves, Outcomes
<1> HIDE DEF after
<1> QED BY <1>8, <1>9

LEMMA CancelAllIn ==
  ASSUME NEW a, Balanced(a), TicketsOK(a), NEW ks \in SUBSET Keys,
         \A k \in ks : a.tickets[k].active,
         NEW f, Solves(f, a, ks)
  PROVE  \A S \in SUBSET ks : \A b \in f[S] : CancelledIn(a, b, S)
<1> DEFINE Bad == {S \in SUBSET ks : ~\A b \in f[S] : CancelledIn(a, b, S)}
           N == {Cardinality(S) : S \in Bad}
<1>1. IsFiniteSet(ks)
  BY DaemonAssumption, FS_Subset
<1>2. \A S \in SUBSET ks : IsFiniteSet(S) /\ Cardinality(S) \in Nat
  BY <1>1, FS_Subset, FS_CardinalityType
<1>3. \A S \in SUBSET ks : f[S] = Outcomes(f, a, S)
  BY DEF Solves
<1> SUFFICES ASSUME Bad # {} PROVE FALSE
  OBVIOUS
<1>4. N \in SUBSET Nat /\ N # {}
  BY <1>2
<1>5. PICK n \in N : \A m \in N : n <= m
  BY <1>4, LeastNatural
<1>6. PICK S \in Bad : Cardinality(S) = n
  BY <1>5
<1>7. PICK c \in f[S] : ~CancelledIn(a, c, S)
  BY <1>6
<1>8. S \in SUBSET ks
  BY <1>6
<1>9. S # {}
  <2> SUFFICES ASSUME S = {} PROVE FALSE
    OBVIOUS
  <2>1. c = a
    BY <1>3, <1>7, <1>8 DEF Outcomes
  <2> QED BY <1>7, <2>1 DEF CancelledIn
<1>10. PICK k \in S : c \in {CancelTicket(b, k) : b \in f[S \ {k}]}
  <2>1. f[S] = UNION {{CancelTicket(b, k) : b \in f[S \ {k}]} : k \in S}
    BY <1>3, <1>8, <1>9 DEF Outcomes
  <2> QED BY <1>7, <2>1
<1>11. PICK b \in f[S \ {k}] : c = CancelTicket(b, k)
  BY <1>10
<1>12. S \ {k} \in SUBSET ks /\ Cardinality(S \ {k}) = Cardinality(S) - 1
  BY <1>2, <1>8, FS_RemoveElement
<1>13. S \ {k} \notin Bad
  BY <1>2, <1>5, <1>6, <1>8, <1>12
<1>14. CancelledIn(a, b, S \ {k})
  BY <1>12, <1>13
<1>15. k \in Keys /\ b.tickets[k] = a.tickets[k] /\ a.tickets[k].active
  BY <1>8, <1>14 DEF CancelledIn
<1>16. /\ Balanced(c) /\ TicketsOK(c) /\ c.tombs = b.tombs
       /\ TicketCancelled(b.tickets[k], c.tickets[k])
       /\ b.tickets[k].meas => c.events = b.events
       /\ \A j \in Keys : j # k => c.tickets[j] = b.tickets[j]
  BY <1>11, <1>14, <1>15, CancelOne DEF CancelledIn
<1>17. CancelledIn(a, c, S)
  BY <1>10, <1>14, <1>15, <1>16 DEF CancelledIn
<1> QED BY <1>7, <1>17

(* Cancelling a set of active tickets: they are cancelled, and what that   *)
(* frees is granted to others.                                             *)
EachCancelled(a, b, ks) ==
  /\ Rest(b) /\ b.tombs = a.tombs
  /\ \A k \in Keys : k \in ks => TicketCancelled(a.tickets[k], b.tickets[k])
  /\ \A k \in Keys : k \notin ks => \/ b.tickets[k] = a.tickets[k]
                                   \/ TicketGranted(a.tickets[k], b.tickets[k])
  /\ a.events = {} /\ (\A k \in ks : a.tickets[k].meas)
       => \A k \in Keys : k \notin ks => b.tickets[k] = a.tickets[k]

LEMMA CancelEachMakes ==
  ASSUME NEW a, Balanced(a), TicketsOK(a), NEW ks \in SUBSET Keys,
         \A k \in ks : a.tickets[k].active,
         NEW b \in CancelEach(a, ks)
  PROVE  EachCancelled(a, b, ks)
<1>1. PICK f : Solves(f, a, ks) /\ CancelEach(a, ks) = {Route(c) : c \in f[ks]}
  BY CancelSolves
<1>2. PICK c \in f[ks] : b = Route(c)
  BY <1>1
<1>3. CancelledIn(a, c, ks)
  BY <1>1, CancelAllIn
<1>4. /\ Rest(b) /\ GrantsOnly(c, b) /\ b.tombs = c.tombs
      /\ c.events = {} => \A k \in Keys : b.tickets[k] = c.tickets[k]
  BY <1>2, <1>3, RouteRests DEF CancelledIn
<1>5. \A k \in Keys : k \in ks => b.tickets[k] = c.tickets[k]
  BY <1>3, <1>4 DEF CancelledIn, GrantsOnly, TicketGranted, TicketCancelled
<1> QED BY <1>3, <1>4, <1>5 DEF EachCancelled, CancelledIn, GrantsOnly

-----------------------------------------------------------------------------
(* Saving and restoring.                                                   *)

(* A memory at rest is restored as it was saved.                           *)
LEMMA PayloadRestores ==
  ASSUME NEW a, Rest(a)
  PROVE  /\ Payload(a) \in Payloads /\ Restored(Payload(a)) = a
         /\ Payload(a).tickets = a.tickets /\ Payload(a).tombs = a.tombs
<1>0. a \in Memories /\ a.events = {}
  BY DEF Rest, Balanced
<1> DEFINE c == Payload(a)
           role(q) == LET ks == {k \in Keys : PartOf[k] = q /\ c.tickets[k].active}
                      IN IF ks = {} THEN "absent"
                         ELSE IF \E k \in ks : c.tickets[k].lease THEN "holder"
                         ELSE "waiter"
           R == [q \in Participants |-> role(q)]
<1>1. /\ c \in Payloads /\ c.tickets = a.tickets /\ c.leases = a.leases
      /\ c.superseded = a.superseded /\ c.waiters = a.waiters /\ c.ahead = a.ahead
      /\ c.tombs = a.tombs
  BY <1>0 DEF Payload, Payloads, Memories
<1>2. Restored(c) = [tickets |-> c.tickets, leases |-> c.leases, superseded |-> c.superseded,
                     waiters |-> c.waiters, ahead |-> c.ahead, tombs |-> c.tombs,
                     events |-> {}, roles |-> R]
  BY DEF Restored
<1> HIDE DEF c
<1>3. ASSUME NEW q \in Participants PROVE role(q) = a.roles[q]
  <2>1. Standing(a, q)
    BY DEF Rest, Balanced
  <2>2. a.roles[q] \in Roles
    BY <1>0 DEF Memories
  <2>3. CASE a.roles[q] = "absent"
    BY <1>1, <2>1, <2>3 DEF Standing
  <2>4. CASE a.roles[q] # "absent"
    <3>1. PICK k \in Keys : PartOf[k] = q /\ a.tickets[k].active
      BY <2>1, <2>4 DEF Standing
    <3>2. \A j \in Keys : PartOf[j] = q /\ a.tickets[j].active =>
                            (a.tickets[j].lease <=> a.roles[q] = "holder")
      BY <2>1 DEF Standing
    <3>3. CASE a.roles[q] = "holder"
      BY <1>1, <3>1, <3>2, <3>3
    <3>4. CASE a.roles[q] = "waiter"
      BY <1>1, <3>1, <3>2, <3>4
    <3> QED BY <2>2, <2>4, <3>3, <3>4 DEF Roles
  <2> QED BY <2>3, <2>4
<1> HIDE DEF role
<1>4. R = a.roles
  BY <1>0, <1>3 DEF Memories
<1> HIDE DEF R
<1>5. Restored(c) = a
  BY <1>0, <1>1, <1>2, <1>4 DEF Memories
<1> QED BY <1>1, <1>5 DEF c

LEMMA RestoredTickets ==
  ASSUME NEW c
  PROVE  Restored(c).tickets = c.tickets /\ Restored(c).tombs = c.tombs
BY DEF Restored

(* What saving makes of a ticket: a waiter's is told its place, an ended   *)
(* one nobody asks for may be forgotten.                                   *)
TicketQueued(x, y) ==
  /\ x.active /\ ~x.lease /\ ~x.meas /\ ~x.cancel
  /\ y.state = "queued" /\ y.active /\ ~y.lease /\ ~y.meas /\ ~y.cancel
Spare(k) ==
  client[k] \notin {"asking", "leaving", "deleting"} /\ \A t \in Threads : handler[t].key # k
TicketPruned(x, y, k) ==
  x.state # "none" /\ ~x.active /\ ~x.meas /\ Spare(k) /\ y = NoTicket

LEMMA SaveMakes ==
  ASSUME NEW a, Rest(a), NEW b \in Saves(a)
  PROVE  /\ Rest(b) /\ b.tombs = a.tombs
         /\ \A k \in Keys : \/ b.tickets[k] = a.tickets[k]
                            \/ TicketQueued(a.tickets[k], b.tickets[k])
                            \/ TicketPruned(a.tickets[k], b.tickets[k], k)
<1>0. a \in Memories /\ a.tickets \in [Keys -> Tickets] /\ a.roles \in [Participants -> Roles]
  BY DEF Rest, Balanced, Memories
<1>1. PICK ks \in SUBSET Prunable(a) : b = Prune(CaptureQueued(a), ks)
  BY DEF Saves
<1> DEFINE Q == [k \in Keys |->
                   IF /\ a.tickets[k].active /\ PartOf[k] \in a.waiters
                      /\ a.tickets[k].state \notin {"cancelled", "evicted"}
                     THEN [a.tickets[k] EXCEPT !.state = "queued"] ELSE a.tickets[k]]
           T == [k \in Keys |-> IF k \in ks THEN NoTicket ELSE Q[k]]
<1>2. CaptureQueued(a) = [a EXCEPT !.tickets = Q]
  BY <1>0 DEF CaptureQueued, Memories
<1>3. Q \in [Keys -> Tickets]
  <2>1. \A t \in Tickets : [t EXCEPT !.state = "queued"] \in Tickets
    BY DEF Tickets, TicketStates
  <2> QED BY <1>0, <2>1
<1>4. T \in [Keys -> Tickets]
  <2>1. NoTicket \in Tickets
    BY DEF NoTicket, Tickets, TicketStates
  <2> HIDE DEF Q
  <2> QED BY <1>3, <2>1
<1>5. b = [a EXCEPT !.tickets = T]
  <2> DEFINE q == [a EXCEPT !.tickets = Q]
  <2> HIDE DEF Q
  <2>1. q.tickets = Q
    BY <1>0 DEF Memories
  <2>2. b = [q EXCEPT !.tickets = T]
    BY <1>1, <1>2, <2>1 DEF Prune
  <2> HIDE DEF T
  <2> QED BY <1>0, <2>2 DEF Memories
<1>6. \A k \in Keys : b.tickets[k] =
        IF k \in ks THEN NoTicket
        ELSE IF /\ a.tickets[k].active /\ PartOf[k] \in a.waiters
                /\ a.tickets[k].state \notin {"cancelled", "evicted"}
               THEN [a.tickets[k] EXCEPT !.state = "queued"] ELSE a.tickets[k]
  <2>1. b.tickets = T
    <3> HIDE DEF T
    <3> QED BY <1>0, <1>5 DEF Memories
  <2> QED BY <2>1
<1> HIDE DEF T
<1>7. /\ b \in Memories /\ b.tombs = a.tombs /\ b.events = a.events /\ b.leases = a.leases
      /\ b.waiters = a.waiters /\ b.superseded = a.superseded /\ b.roles = a.roles
  BY <1>0, <1>4, <1>5 DEF Memories
<1>8. ASSUME NEW k \in Keys
      PROVE  \/ b.tickets[k] = a.tickets[k]
             \/ TicketQueued(a.tickets[k], b.tickets[k])
             \/ TicketPruned(a.tickets[k], b.tickets[k], k)
  <2>1. CASE k \in ks
    BY <1>1, <1>6, <2>1 DEF Prunable, TicketPruned, Spare
  <2>2. CASE /\ k \notin ks /\ a.tickets[k].active /\ PartOf[k] \in a.waiters
             /\ a.tickets[k].state \notin {"cancelled", "evicted"}
    <3>1. PartOf[k] \in Participants
      BY DaemonAssumption
    <3>2. Standing(a, PartOf[k]) /\ TicketOK(a.tickets[k]) /\ a.tickets[k] \in Tickets
      BY <1>0, <3>1 DEF Rest, Balanced, TicketsOK
    <3>3. ~a.tickets[k].lease
      BY <2>2, <3>2 DEF Standing
    <3>4. ~a.tickets[k].meas /\ ~a.tickets[k].cancel
      BY <2>2, <3>2, <3>3 DEF TicketOK
    <3>5. b.tickets[k] = [a.tickets[k] EXCEPT !.state = "queued"]
      BY <1>6, <2>2
    <3> QED BY <2>2, <3>2, <3>3, <3>4, <3>5 DEF TicketQueued, Tickets
  <2> QED BY <1>6, <2>1, <2>2
<1>9. TicketsOK(b)
  BY <1>8 DEF Rest, TicketsOK, TicketOK, TicketQueued, TicketPruned, NoTicket
<1>10. \A k \in Keys : /\ b.tickets[k].active <=> a.tickets[k].active
                       /\ a.tickets[k].active => (b.tickets[k].lease <=> a.tickets[k].lease)
  BY <1>8 DEF TicketQueued, TicketPruned, NoTicket
<1>11. Balanced(b)
  <2>1. Single(b)
    BY <1>10 DEF Rest, Balanced, Single
  <2>2. ASSUME NEW p \in Participants PROVE Standing(b, p)
    <3>1. Standing(a, p)
      BY DEF Rest, Balanced
    <3> QED BY <1>7, <1>10, <3>1 DEF Standing
  <2> QED BY <1>7, <2>1, <2>2 DEF Balanced
<1> QED BY <1>7, <1>8, <1>9, <1>11 DEF Rest

-----------------------------------------------------------------------------
(* How tickets age.                                                        *)

(* What no operation on another ticket, and no save, undoes.               *)
Ages(x, y) ==
  /\ x.state = "none" => y.state = "none"
  /\ ~x.active => ~y.active
  /\ x.lease /\ y.active => y.lease
  /\ x.meas => y.meas /\ (x.active => y.active)
  /\ x.cancel => y.cancel \/ y.state = "none"
Later(a, b, J) ==
  \A k \in J : /\ Ages(a.tickets[k], b.tickets[k])
               /\ b.tickets[k].state = "none" => a.tickets[k].state = "none" \/ Spare(k)

(* An active ticket is told that others took its place.                    *)
TicketEvicted(x, y) ==
  /\ x.active /\ y.state = "evicted" /\ y.active
  /\ y.lease = x.lease /\ y.meas = x.meas /\ y.cancel = x.cancel

LEMMA AgingTickets ==
  ASSUME NEW x, NEW y, TicketOK(x), NEW k
  PROVE  /\ x = y => Ages(x, y)
         /\ TicketGranted(x, y) \/ TicketQueued(x, y) \/ TicketEvicted(x, y)
              => Ages(x, y) /\ y.state # "none"
         /\ TicketCancelled(x, y) /\ x.active => Ages(x, y) /\ y.state # "none"
         /\ TicketPruned(x, y, k) => Ages(x, y) /\ Spare(k)
         /\ x.active => x.state # "none"
<1>1. x.active => x.state # "none"
  BY DEF TicketOK, NoTicket
<1>2. TicketGranted(x, y) \/ TicketQueued(x, y) \/ TicketEvicted(x, y)
        => Ages(x, y) /\ y.state # "none"
  BY <1>1 DEF TicketGranted, TicketQueued, TicketEvicted, Ages
<1>3. TicketCancelled(x, y) /\ x.active => Ages(x, y) /\ y.state # "none"
  BY <1>1 DEF TicketCancelled, Ages
<1>4. TicketPruned(x, y, k) => Ages(x, y) /\ Spare(k)
  BY DEF TicketPruned, Ages, NoTicket
<1> QED BY <1>1, <1>2, <1>3, <1>4 DEF Ages

LEMMA LaterStill ==
  ASSUME NEW a, NEW b, NEW c, NEW J, Later(a, b, J), Later(b, c, J)
  PROVE  Later(a, c, J)
BY DEF Later, Ages

LEMMA SavedLater ==
  ASSUME NEW a, Rest(a), NEW b \in Saves(a)
  PROVE  Rest(b) /\ b.tombs = a.tombs /\ Later(a, b, Keys)
<1>1. Rest(b) /\ b.tombs = a.tombs
  BY SaveMakes
<1>2. ASSUME NEW k \in Keys
      PROVE  /\ Ages(a.tickets[k], b.tickets[k])
             /\ b.tickets[k].state = "none" => a.tickets[k].state = "none" \/ Spare(k)
  <2>1. TicketOK(a.tickets[k])
    BY DEF Rest, TicketsOK
  <2>2. \/ b.tickets[k] = a.tickets[k]
        \/ TicketQueued(a.tickets[k], b.tickets[k])
        \/ TicketPruned(a.tickets[k], b.tickets[k], k)
    BY SaveMakes
  <2>3. CASE b.tickets[k] = a.tickets[k]
    BY <2>1, <2>3, AgingTickets
  <2>4. CASE TicketQueued(a.tickets[k], b.tickets[k])
    BY <2>1, <2>4, AgingTickets
  <2>5. CASE TicketPruned(a.tickets[k], b.tickets[k], k)
    BY <2>1, <2>5, AgingTickets
  <2> QED BY <2>2, <2>3, <2>4, <2>5
<1> QED BY <1>1, <1>2 DEF Later

LEMMA CancelledLater ==
  ASSUME NEW a, Balanced(a), TicketsOK(a), NEW ks \in SUBSET Keys,
         \A k \in ks : a.tickets[k].active,
         NEW b \in CancelEach(a, ks)
  PROVE  /\ Rest(b) /\ b.tombs = a.tombs /\ Later(a, b, Keys)
         /\ \A k \in ks : b.tickets[k].cancel
<1>1. EachCancelled(a, b, ks)
  BY CancelEachMakes
<1>2. ASSUME NEW k \in Keys
      PROVE  /\ Ages(a.tickets[k], b.tickets[k])
             /\ b.tickets[k].state = "none" => a.tickets[k].state = "none"
  <2>1. TicketOK(a.tickets[k])
    BY DEF TicketsOK
  <2>2. CASE k \in ks
    <3>1. TicketCancelled(a.tickets[k], b.tickets[k]) /\ a.tickets[k].active
      BY <1>1, <2>2 DEF EachCancelled
    <3> QED BY <2>1, <3>1, AgingTickets
  <2>3. CASE k \notin ks
    <3>1. b.tickets[k] = a.tickets[k] \/ TicketGranted(a.tickets[k], b.tickets[k])
      BY <1>1, <2>3 DEF EachCancelled
    <3>2. CASE b.tickets[k] = a.tickets[k]
      BY <2>1, <3>2, AgingTickets
    <3>3. CASE TicketGranted(a.tickets[k], b.tickets[k])
      BY <2>1, <3>3, AgingTickets
    <3> QED BY <3>1, <3>2, <3>3
  <2> QED BY <2>2, <2>3
<1>3. \A k \in ks : b.tickets[k].cancel
  BY <1>1 DEF EachCancelled, TicketCancelled
<1> QED BY <1>1, <1>2, <1>3 DEF Later, EachCancelled

(* Another word for a ticket that leaves the books as they are.            *)
Reworded(a, b, k, t) ==
  /\ b \in Memories /\ b.tickets = [a.tickets EXCEPT ![k] = t] /\ b.tombs = a.tombs
  /\ b.leases = a.leases /\ b.waiters = a.waiters /\ b.events = a.events
  /\ b.superseded = a.superseded /\ b.roles = a.roles

LEMMA RewordMakes ==
  ASSUME NEW a \in Memories, NEW k \in Keys, NEW t \in Tickets
  PROVE  Reworded(a, [a EXCEPT !.tickets[k] = t], k, t)
<1>1. [a.tickets EXCEPT ![k] = t] \in [Keys -> Tickets]
  BY DEF Memories
<1> DEFINE T == [a.tickets EXCEPT ![k] = t]
           b == [a EXCEPT !.tickets[k] = t]
<1>2. b = [a EXCEPT !.tickets = T]
  BY DEF Memories
<1> HIDE DEF T, b
<1>3. Reworded(a, b, k, t)
  BY <1>1, <1>2 DEF Reworded, Memories, T
<1> QED BY <1>3 DEF b

LEMMA RewordBalances ==
  ASSUME NEW a, Balanced(a), NEW k \in Keys, NEW t \in Tickets,
         t.active <=> a.tickets[k].active,
         t.active => (t.lease <=> a.tickets[k].lease),
         NEW b, Reworded(a, b, k, t)
  PROVE  /\ Balanced(b) /\ b.tombs = a.tombs /\ b.events = a.events
         /\ \A j \in Keys : b.tickets[j] = IF j = k THEN t ELSE a.tickets[j]
<1>0. a \in Memories /\ a.tickets \in [Keys -> Tickets]
  BY DEF Balanced, Memories
<1>2. /\ b \in Memories /\ b.tickets = [a.tickets EXCEPT ![k] = t] /\ b.tombs = a.tombs
      /\ b.leases = a.leases /\ b.waiters = a.waiters /\ b.events = a.events
      /\ b.superseded = a.superseded /\ b.roles = a.roles
  BY DEF Reworded
<1>3. \A j \in Keys : b.tickets[j] = IF j = k THEN t ELSE a.tickets[j]
  BY <1>0, <1>2
<1>4. \A j \in Keys : /\ b.tickets[j].active <=> a.tickets[j].active
                      /\ b.tickets[j].active => (b.tickets[j].lease <=> a.tickets[j].lease)
  BY <1>3
<1>5. Single(b)
  BY <1>4 DEF Balanced, Single
<1>6. ASSUME NEW p \in Participants PROVE Standing(b, p)
  <2>1. Standing(a, p)
    BY DEF Balanced
  <2> QED BY <1>2, <1>4, <2>1 DEF Standing
<1> QED BY <1>2, <1>3, <1>5, <1>6 DEF Balanced

LEMMA PumpBalances ==
  ASSUME NEW a, Balanced(a)
  PROVE  Balanced(Pump(a)) /\ Pump(a).tickets = a.tickets /\ Pump(a).tombs = a.tombs
<1> DEFINE b == Pump(a)
<1>1. PICK up : Promoted(a, b, up)
  BY PumpPromotes DEF Balanced
<1> HIDE DEF b
<1>2. ASSUME NEW p \in Participants PROVE Standing(b, p)
  <2>1. Standing(a, p)
    BY DEF Balanced
  <2> QED BY <1>1, <2>1 DEF Standing, Promoted
<1>3. Single(b)
  BY <1>1 DEF Balanced, Single, Promoted
<1>4. Balanced(b) /\ b.tickets = a.tickets /\ b.tombs = a.tombs
  BY <1>1, <1>2, <1>3 DEF Balanced, Promoted
<1> QED BY <1>4 DEF b

-----------------------------------------------------------------------------
(* A new ticket.                                                           *)

(* What the decision of key k's ticket leaves.                             *)
Decided(a, b, k) ==
  /\ Rest(b) /\ b.tombs = a.tombs /\ Later(a, b, Keys \ {k})
  /\ b.tickets[k].state # "none" /\ ~b.tickets[k].meas /\ ~b.tickets[k].cancel

Denial == [NoTicket EXCEPT !.state = "evicted"]
Entry == [NoTicket EXCEPT !.state = "queued", !.active = TRUE]

LEMMA NewTickets ==
  /\ Denial \in Tickets /\ Denial.state = "evicted" /\ ~Denial.active /\ ~Denial.meas
  /\ ~Denial.cancel /\ ~Denial.lease /\ TicketOK(Denial)
  /\ Entry \in Tickets /\ Entry.state = "queued" /\ Entry.active /\ ~Entry.meas
  /\ ~Entry.cancel /\ ~Entry.lease /\ TicketOK(Entry)
BY DEF Denial, Entry, NoTicket, Tickets, TicketStates, TicketOK

LEMMA DeniedMakes ==
  ASSUME NEW a, Balanced(a), NEW k \in Keys, ~a.tickets[k].active,
         \A j \in Keys : j # k => TicketOK(a.tickets[j])
  PROVE  LET b == Denied(a, k) IN
         /\ Balanced(b) /\ TicketsOK(b) /\ b.tombs = a.tombs /\ b.events = a.events
         /\ \A j \in Keys : b.tickets[j] = IF j = k THEN Denial ELSE a.tickets[j]
<1> DEFINE b == Denied(a, k)
<1>0. a \in Memories
  BY DEF Balanced
<1>1. Reworded(a, b, k, Denial)
  BY <1>0, NewTickets, RewordMakes DEF Denied, Denial
<1> HIDE DEF b
<1>2. /\ Balanced(b) /\ b.tombs = a.tombs /\ b.events = a.events
      /\ \A j \in Keys : b.tickets[j] = IF j = k THEN Denial ELSE a.tickets[j]
  <2>1. /\ Denial \in Tickets /\ (Denial.active <=> a.tickets[k].active)
        /\ Denial.active => (Denial.lease <=> a.tickets[k].lease)
    BY NewTickets
  <2> QED BY <1>1, <2>1, RewordBalances
<1>3. TicketsOK(b)
  BY <1>2, NewTickets DEF TicketsOK
<1> QED BY <1>2, <1>3 DEF b

(* The participant is entered, and the ledger has yet to decide.           *)
Entered(a, k) == [a EXCEPT !.tickets[k] = Entry, !.roles[PartOf[k]] = "waiter"]

LEMMA EnteredMakes ==
  ASSUME NEW a, Rest(a), NEW k \in Keys, a.tickets[k].state = "none",
         a.roles[PartOf[k]] = "absent"
  PROVE  LET b == Entered(a, k) p == PartOf[k] IN
         /\ b \in Memories /\ b.tombs = a.tombs /\ b.events = {} /\ b.leases = a.leases
         /\ b.waiters = a.waiters /\ b.superseded = a.superseded /\ b.ahead = a.ahead
         /\ b.roles = [a.roles EXCEPT ![p] = "waiter"]
         /\ b.tickets = [a.tickets EXCEPT ![k] = Entry]
         /\ \A j \in Keys : b.tickets[j] = IF j = k THEN Entry ELSE a.tickets[j]
         /\ \A q \in Participants : b.roles[q] = IF q = p THEN "waiter" ELSE a.roles[q]
         /\ p \in Participants /\ p \notin a.leases /\ p \notin a.waiters
         /\ \A j \in Keys : PartOf[j] = p => ~a.tickets[j].active
<1> DEFINE b == Entered(a, k)
           p == PartOf[k]
<1>0. p \in Participants /\ a \in Memories /\ a.events = {}
  BY DaemonAssumption DEF Rest, Balanced
<1>1. /\ [a.tickets EXCEPT ![k] = Entry] \in [Keys -> Tickets]
      /\ [a.roles EXCEPT ![p] = "waiter"] \in [Participants -> Roles]
  <2>1. a.tickets \in [Keys -> Tickets] /\ a.roles \in [Participants -> Roles]
    BY <1>0 DEF Memories
  <2>2. "waiter" \in Roles
    BY DEF Roles
  <2> QED BY <1>0, <2>1, <2>2, NewTickets
<1>2. b = [a EXCEPT !.tickets = [a.tickets EXCEPT ![k] = Entry],
                    !.roles = [a.roles EXCEPT ![p] = "waiter"]]
  BY <1>0 DEF Entered, Memories
<1> HIDE DEF b
<1>3. /\ b \in Memories /\ b.tombs = a.tombs /\ b.events = {} /\ b.leases = a.leases
      /\ b.waiters = a.waiters /\ b.superseded = a.superseded /\ b.ahead = a.ahead
      /\ b.roles = [a.roles EXCEPT ![p] = "waiter"]
      /\ b.tickets = [a.tickets EXCEPT ![k] = Entry]
  BY <1>0, <1>1, <1>2 DEF Memories
<1>4. /\ \A j \in Keys : b.tickets[j] = IF j = k THEN Entry ELSE a.tickets[j]
      /\ \A q \in Participants : b.roles[q] = IF q = p THEN "waiter" ELSE a.roles[q]
  BY <1>0, <1>3 DEF Memories
<1>5. Standing(a, p)
  BY <1>0 DEF Rest, Balanced
<1>6. /\ p \notin a.leases /\ p \notin a.waiters
      /\ \A j \in Keys : PartOf[j] = p => ~a.tickets[j].active
  BY <1>0, <1>5 DEF Standing
<1> QED BY <1>0, <1>3, <1>4, <1>6 DEF b

(* The ledger grants or queues the new identity: the books balance again.  *)
LEMMA EntryBalances ==
  ASSUME NEW a, Rest(a), NEW k \in Keys, a.tickets[k].state = "none",
         a.roles[PartOf[k]] = "absent",
         NEW g, g \in Memories, g.tickets = Entered(a, k).tickets,
         g.roles = Entered(a, k).roles,
         \/ /\ g.leases = a.leases \cup {PartOf[k]} /\ g.events = {PartOf[k]}
            /\ g.waiters = a.waiters
         \/ /\ g.leases = a.leases /\ g.events = {}
            /\ g.waiters = a.waiters \cup {PartOf[k]},
         g.superseded \subseteq a.leases
  PROVE  Balanced(g) /\ TicketsOK(g)
<1> DEFINE b == Entered(a, k)
           p == PartOf[k]
<1>1. /\ \A j \in Keys : g.tickets[j] = IF j = k THEN Entry ELSE a.tickets[j]
      /\ \A q \in Participants : g.roles[q] = IF q = p THEN "waiter" ELSE a.roles[q]
      /\ p \in Participants /\ p \notin a.leases /\ p \notin a.waiters
      /\ \A j \in Keys : PartOf[j] = p => ~a.tickets[j].active
  <2>1. /\ \A j \in Keys : b.tickets[j] = IF j = k THEN Entry ELSE a.tickets[j]
        /\ \A q \in Participants : b.roles[q] = IF q = p THEN "waiter" ELSE a.roles[q]
        /\ p \in Participants /\ p \notin a.leases /\ p \notin a.waiters
        /\ \A j \in Keys : PartOf[j] = p => ~a.tickets[j].active
    BY EnteredMakes
  <2> HIDE DEF b, p
  <2> QED BY <2>1 DEF b
<1>2. TicketsOK(g)
  BY <1>1, NewTickets DEF Rest, TicketsOK
<1>3. Single(g)
  BY <1>1 DEF Rest, Balanced, Single
<1>4. ~a.tickets[k].active
  BY <1>1
<1>5. ASSUME NEW q \in Participants PROVE Standing(g, q)
  <2>0. Standing(a, q) /\ a.events = {}
    BY DEF Rest, Balanced
  <2>1. CASE q = p
    <3>1. /\ \E j \in Keys : PartOf[j] = q /\ g.tickets[j].active
          /\ \A j \in Keys : PartOf[j] = q /\ g.tickets[j].active => j = k
      BY <1>1, <2>1, NewTickets
    <3>2. ~g.tickets[k].lease /\ g.roles[q] = "waiter"
      BY <1>1, <2>1, NewTickets
    <3> QED BY <1>1, <2>1, <3>1, <3>2 DEF Standing
  <2>2. CASE q # p
    <3>1. /\ g.roles[q] = a.roles[q] /\ q \notin g.events
          /\ q \in g.leases <=> q \in a.leases
          /\ q \in g.waiters <=> q \in a.waiters
      BY <1>1, <2>2
    <3>2. \A j \in Keys : PartOf[j] = q => g.tickets[j] = a.tickets[j]
      BY <1>1, <2>2
    <3> QED BY <2>0, <3>1, <3>2 DEF Standing
  <2> QED BY <2>1, <2>2
<1> QED BY <1>2, <1>3, <1>5 DEF Balanced

LEMMA SubmittedMakes ==
  ASSUME NEW a, Rest(a), NEW k \in Keys, a.tickets[k].state = "none",
         a.roles[PartOf[k]] = "absent", NEW demand \in Demands
  PROVE  Decided(a, Submitted(a, k, demand), k)
<1> DEFINE p == PartOf[k]
           b == Entered(a, k)
           others == a.leases \ a.superseded
           granted == [b EXCEPT !.leases = @ \cup {p}, !.events = @ \cup {p}]
           over == [granted EXCEPT !.superseded = @ \cup others]
           queued == [b EXCEPT !.waiters = @ \cup {p}, !.ahead = @ \cup (a.waiters \X {p})]
           fits == Free(a) > 0 /\ a.waiters = {}
<1>1. Submitted(a, k, demand) =
        CASE demand = "refused" -> Denied(RemoveParticipant(b, k), k)
          [] demand = "cancel_others" -> Route(CaptureEvicted(Pump(over), others))
          [] demand \in {"queue", "nonblocking"} /\ fits -> Route(Pump(granted))
          [] demand = "nonblocking" /\ ~fits -> Route(Denied(ReleaseTicket(queued, k), k))
          [] demand = "queue" /\ ~fits -> queued
  BY DEF Submitted, Entered, Entry
<1>2. /\ b \in Memories /\ b.tombs = a.tombs /\ b.events = {} /\ b.leases = a.leases
      /\ b.waiters = a.waiters /\ b.superseded = a.superseded /\ b.ahead = a.ahead
      /\ b.roles = [a.roles EXCEPT ![p] = "waiter"]
      /\ b.tickets = [a.tickets EXCEPT ![k] = Entry]
      /\ \A j \in Keys : b.tickets[j] = IF j = k THEN Entry ELSE a.tickets[j]
      /\ \A q \in Participants : b.roles[q] = IF q = p THEN "waiter" ELSE a.roles[q]
      /\ p \in Participants /\ p \notin a.leases /\ p \notin a.waiters
      /\ \A j \in Keys : PartOf[j] = p => ~a.tickets[j].active
  BY EnteredMakes
<1>3. /\ Balanced(a) /\ TicketsOK(a) /\ a.events = {} /\ a \in Memories
      /\ a.superseded \subseteq a.leases
  <2>1. a.superseded \subseteq a.leases
    BY DEF Rest, Balanced, Standing, Memories
  <2> QED BY <2>1 DEF Rest, Balanced
<1>4. /\ granted \in Memories /\ granted.tickets = b.tickets /\ granted.roles = b.roles
      /\ granted.leases = a.leases \cup {p} /\ granted.events = {p}
      /\ granted.waiters = a.waiters /\ granted.superseded = a.superseded
      /\ granted.tombs = a.tombs
  <2> HIDE DEF b, p
  <2> QED BY <1>2 DEF Memories
<1>5. /\ over \in Memories /\ over.tickets = b.tickets /\ over.roles = b.roles
      /\ over.leases = a.leases \cup {p} /\ over.events = {p}
      /\ over.waiters = a.waiters /\ over.superseded \subseteq a.leases
      /\ over.tombs = a.tombs
  <2>1. a.superseded \cup others \subseteq a.leases /\ others \subseteq Participants
    BY <1>3 DEF Memories
  <2> HIDE DEF granted, others, b, p
  <2> QED BY <1>3, <1>4, <2>1 DEF Memories
<1>6. /\ queued \in Memories /\ queued.tickets = b.tickets /\ queued.roles = b.roles
      /\ queued.leases = a.leases /\ queued.events = {}
      /\ queued.waiters = a.waiters \cup {p} /\ queued.superseded = a.superseded
      /\ queued.tombs = a.tombs
  <2>1. a.waiters \X {p} \in SUBSET (Participants \X Participants)
    BY <1>2, <1>3 DEF Memories
  <2> DEFINE W == a.waiters \X {p}
  <2> HIDE DEF b, p, W
  <2> QED BY <1>2, <2>1 DEF Memories, W
<1> HIDE DEF granted, over, queued
<1>7. Balanced(granted) /\ TicketsOK(granted)
  BY <1>3, <1>4, EntryBalances
<1>8. Balanced(over) /\ TicketsOK(over)
  BY <1>5, EntryBalances
<1>9. Balanced(queued) /\ TicketsOK(queued)
  BY <1>3, <1>6, EntryBalances
<1>10. \A j \in Keys : TicketOK(a.tickets[j])
  BY <1>3 DEF TicketsOK
<1>11. ASSUME NEW c, Balanced(c), TicketsOK(c), c.tombs = a.tombs,
              \A j \in Keys \ {k} : \/ c.tickets[j] = a.tickets[j]
                                    \/ TicketEvicted(a.tickets[j], c.tickets[j]),
              c.tickets[k] \in {Entry, Denial}
       PROVE  Decided(a, Route(c), k)
  <2> DEFINE r == Route(c)
  <2>1. Rest(r) /\ GrantsOnly(c, r) /\ r.tombs = c.tombs
    BY <1>11, RouteRests
  <2> HIDE DEF r
  <2>2. ASSUME NEW j \in Keys \ {k}
        PROVE  /\ Ages(a.tickets[j], r.tickets[j])
               /\ r.tickets[j].state = "none" => a.tickets[j].state = "none"
    <3>1. TicketOK(a.tickets[j]) /\ TicketOK(c.tickets[j])
      BY <1>10, <1>11 DEF TicketsOK
    <3>2. /\ Ages(a.tickets[j], c.tickets[j])
          /\ c.tickets[j].state = "none" => a.tickets[j].state = "none"
      BY <1>11, <3>1, AgingTickets
    <3>3. /\ Ages(c.tickets[j], r.tickets[j])
          /\ r.tickets[j].state = "none" => c.tickets[j].state = "none"
      <4>1. r.tickets[j] = c.tickets[j] \/ TicketGranted(c.tickets[j], r.tickets[j])
        BY <2>1 DEF GrantsOnly
      <4>2. CASE r.tickets[j] = c.tickets[j]
        BY <3>1, <4>2, AgingTickets
      <4>3. CASE TicketGranted(c.tickets[j], r.tickets[j])
        BY <3>1, <4>3, AgingTickets
      <4> QED BY <4>1, <4>2, <4>3
    <3> QED BY <3>2, <3>3 DEF Ages
  <2>3. r.tickets[k] = c.tickets[k] \/ TicketGranted(c.tickets[k], r.tickets[k])
    BY <2>1 DEF GrantsOnly
  <2>4. r.tickets[k].state # "none" /\ ~r.tickets[k].meas /\ ~r.tickets[k].cancel
    BY <1>11, <2>3, NewTickets DEF TicketGranted
  <2>5. Decided(a, r, k)
    BY <1>11, <2>1, <2>2, <2>4 DEF Decided, Later
  <2> QED BY <2>5 DEF r
<1>12. CASE demand = "refused"
  <2> DEFINE c == RemoveParticipant(b, k)
  <2>1. /\ Removed(b, c, k) /\ c.events = b.events /\ c.leases = b.leases
        /\ c.waiters = b.waiters /\ c.superseded = b.superseded
    BY <1>2, RemoveMakes
  <2>2. Submitted(a, k, demand) = Denied(c, k)
    BY <1>1, <1>12
  <2> HIDE DEF c, b
  <2>3. /\ \A j \in Keys : j # k => c.tickets[j] = a.tickets[j]
        /\ ~c.tickets[k].active
    <3>1. Entry \in Tickets
      BY NewTickets
    <3> QED BY <1>2, <2>1, <3>1 DEF Removed, Memories, Tickets
  <2>4. c.roles = a.roles /\ c \in Memories
    <3>1. \A q \in Participants : c.roles[q] = a.roles[q]
      BY <1>2, <2>1 DEF Removed, Memories
    <3>2. c.roles \in [Participants -> Roles] /\ a.roles \in [Participants -> Roles]
      BY <1>3, <2>1 DEF Removed, Memories
    <3> QED BY <2>1, <3>1, <3>2 DEF Removed
  <2>5. ~a.tickets[k].active
    BY <1>2
  <2>6. Balanced(c)
    <3>1. \A j \in Keys : /\ c.tickets[j].active <=> a.tickets[j].active
                          /\ c.tickets[j].active => (c.tickets[j].lease <=> a.tickets[j].lease)
      BY <2>3, <2>5
    <3>2. Single(c)
      BY <1>3, <3>1 DEF Balanced, Single
    <3>3. ASSUME NEW q \in Participants PROVE Standing(c, q)
      <4>1. Standing(a, q)
        BY <1>3 DEF Balanced
      <4>2. /\ c.events = a.events /\ c.leases = a.leases /\ c.waiters = a.waiters
            /\ c.superseded = a.superseded /\ c.roles = a.roles
        BY <1>2, <1>3, <2>1, <2>4
      <4> QED BY <3>1, <4>1, <4>2 DEF Standing
    <3> QED BY <2>4, <3>2, <3>3 DEF Balanced
  <2>7. LET r == Denied(c, k) IN
        /\ Balanced(r) /\ TicketsOK(r) /\ r.tombs = c.tombs /\ r.events = c.events
        /\ \A j \in Keys : r.tickets[j] = IF j = k THEN Denial ELSE c.tickets[j]
    <3>1. \A j \in Keys : j # k => TicketOK(c.tickets[j])
      BY <1>10, <2>3
    <3> QED BY <2>3, <2>6, <3>1, DeniedMakes
  <2> DEFINE r == Denied(c, k)
  <2> HIDE DEF r
  <2>8. /\ Balanced(r) /\ TicketsOK(r) /\ r.tombs = c.tombs /\ r.events = c.events
        /\ \A j \in Keys : r.tickets[j] = IF j = k THEN Denial ELSE c.tickets[j]
    BY <2>7 DEF r
  <2>9. Rest(r) /\ r.tombs = a.tombs
    BY <1>2, <2>1, <2>8 DEF Rest, Removed
  <2>10. Later(a, r, Keys \ {k})
    <3>1. \A j \in Keys \ {k} : r.tickets[j] = a.tickets[j]
      BY <2>3, <2>8
    <3> QED BY <3>1 DEF Later, Ages
  <2>11. Decided(a, r, k)
    BY <2>8, <2>9, <2>10, NewTickets DEF Decided
  <2> QED BY <2>2, <2>11 DEF r
<1>13. CASE demand = "cancel_others"
  <2> DEFINE c == Pump(over)
             T == [j \in Keys |->
                     IF c.tickets[j].active /\ PartOf[j] \in others
                       THEN [c.tickets[j] EXCEPT !.state = "evicted"] ELSE c.tickets[j]]
             e == CaptureEvicted(c, others)
  <2>1. Balanced(c) /\ c.tickets = over.tickets /\ c.tombs = over.tombs
    BY <1>8, PumpBalances
  <2>2. Submitted(a, k, demand) = Route(e)
    BY <1>1, <1>13
  <2>3. e = [c EXCEPT !.tickets = T]
    BY <2>1 DEF CaptureEvicted, Balanced, Memories
  <2> HIDE DEF c, others
  <2>4. T \in [Keys -> Tickets] /\ c \in Memories
    <3>1. \A t \in Tickets : [t EXCEPT !.state = "evicted"] \in Tickets
      BY DEF Tickets, TicketStates
    <3>2. c.tickets \in [Keys -> Tickets] /\ c \in Memories
      BY <2>1 DEF Balanced, Memories
    <3> QED BY <3>1, <3>2
  <2>5. \A j \in Keys : T[j] = IF c.tickets[j].active /\ PartOf[j] \in others
                                 THEN [c.tickets[j] EXCEPT !.state = "evicted"]
                                 ELSE c.tickets[j]
    OBVIOUS
  <2> HIDE DEF T, e
  <2>6. /\ e \in Memories /\ e.tickets = T /\ e.tombs = c.tombs /\ e.leases = c.leases
        /\ e.waiters = c.waiters /\ e.events = c.events /\ e.superseded = c.superseded
        /\ e.roles = c.roles
    BY <2>3, <2>4 DEF Memories
  <2>7. ASSUME NEW j \in Keys
        PROVE  \/ e.tickets[j] = c.tickets[j]
               \/ PartOf[j] \in others /\ TicketEvicted(c.tickets[j], e.tickets[j])
    <3>1. c.tickets[j] \in Tickets
      BY <2>4 DEF Memories
    <3> QED BY <2>5, <2>6, <3>1 DEF TicketEvicted, Tickets
  <2>8. TicketsOK(e)
    <3>1. ASSUME NEW j \in Keys PROVE TicketOK(e.tickets[j])
      <4>1. TicketOK(c.tickets[j])
        BY <1>8, <2>1 DEF TicketsOK
      <4> QED BY <2>7, <4>1 DEF TicketOK, TicketEvicted
    <3> QED BY <3>1 DEF TicketsOK
  <2>9. \A j \in Keys : /\ e.tickets[j].active <=> c.tickets[j].active
                        /\ e.tickets[j].lease <=> c.tickets[j].lease
    BY <2>7 DEF TicketEvicted
  <2>10. Balanced(e)
    <3>1. Single(e)
      BY <2>1, <2>9 DEF Balanced, Single
    <3>2. ASSUME NEW q \in Participants PROVE Standing(e, q)
      <4>1. Standing(c, q)
        BY <2>1 DEF Balanced
      <4> QED BY <2>6, <2>9, <4>1 DEF Standing
    <3> QED BY <2>6, <3>1, <3>2 DEF Balanced
  <2>11. /\ \A j \in Keys \ {k} : \/ e.tickets[j] = a.tickets[j]
                                  \/ TicketEvicted(a.tickets[j], e.tickets[j])
         /\ e.tickets[k] = Entry
    <3>1. \A j \in Keys : c.tickets[j] = IF j = k THEN Entry ELSE a.tickets[j]
      BY <1>2, <1>5, <2>1
    <3>2. p \notin others
      BY <1>2 DEF others
    <3> QED BY <2>7, <3>1, <3>2
  <2>12. e.tombs = a.tombs
    BY <1>5, <2>1, <2>6
  <2> QED BY <1>11, <2>2, <2>8, <2>10, <2>11, <2>12
<1>14. CASE demand \in {"queue", "nonblocking"} /\ fits
  <2> DEFINE c == Pump(granted)
  <2>1. Balanced(c) /\ c.tickets = granted.tickets /\ c.tombs = granted.tombs
    BY <1>7, PumpBalances
  <2>2. Submitted(a, k, demand) = Route(c)
    BY <1>1, <1>14
  <2> HIDE DEF c
  <2>3. \A j \in Keys : c.tickets[j] = IF j = k THEN Entry ELSE a.tickets[j]
    BY <1>2, <1>4, <2>1
  <2>4. TicketsOK(c)
    BY <1>7, <2>1 DEF TicketsOK
  <2> QED BY <1>4, <1>11, <2>1, <2>2, <2>3, <2>4
<1>15. CASE demand = "nonblocking" /\ ~fits
  <2> DEFINE c == ReleaseTicket(queued, k)
             e == Denied(c, k)
  <2>1. Submitted(a, k, demand) = Route(e)
    BY <1>1, <1>15
  <2>2. queued.tickets[k].active
    BY <1>2, <1>6, NewTickets
  <2>3. Balanced(c)
    BY <1>9, <2>2, ReleaseBalances
  <2>4. Removed(queued, c, k)
    BY <1>6, ReleaseMakes
  <2> HIDE DEF c
  <2>5. /\ \A j \in Keys : j # k => c.tickets[j] = a.tickets[j]
        /\ ~c.tickets[k].active
    <3>1. Entry \in Tickets
      BY NewTickets
    <3> QED BY <1>2, <1>6, <2>4, <3>1 DEF Removed, Memories, Tickets
  <2>6. /\ Balanced(e) /\ TicketsOK(e) /\ e.tombs = c.tombs /\ e.events = c.events
        /\ \A j \in Keys : e.tickets[j] = IF j = k THEN Denial ELSE c.tickets[j]
    BY <1>10, <2>3, <2>5, DeniedMakes
  <2> HIDE DEF e
  <2>7. e.tombs = a.tombs
    BY <1>6, <2>4, <2>6 DEF Removed
  <2> QED BY <1>11, <2>1, <2>5, <2>6, <2>7
<1>16. CASE demand = "queue" /\ ~fits
  <2>1. Submitted(a, k, demand) = queued
    BY <1>1, <1>16
  <2>2. Rest(queued)
    BY <1>6, <1>9 DEF Rest
  <2>3. \A j \in Keys : queued.tickets[j] = IF j = k THEN Entry ELSE a.tickets[j]
    BY <1>2, <1>6
  <2>4. Later(a, queued, Keys \ {k})
    BY <2>3 DEF Later, Ages
  <2> QED BY <1>6, <2>1, <2>2, <2>3, <2>4, NewTickets DEF Decided
<1> QED BY <1>12, <1>13, <1>14, <1>15, <1>16 DEF Demands

LEMMA DecisionsMake ==
  ASSUME NEW a, Rest(a), NEW k \in Keys, a.tickets[k].state = "none", NEW read,
         NEW b \in Decisions(a, k, read)
  PROVE  /\ Decided(a, b, k)
         /\ b.tickets[k].active => read \notin {"yes", "error"} /\ RunOf[PartOf[k]] \notin a.tombs
<1> DEFINE p == PartOf[k]
           barred == read \in {"yes", "error"} \/ RunOf[p] \in a.tombs \/ a.roles[p] # "absent"
<1>0. Balanced(a) /\ TicketsOK(a) /\ a.events = {} /\ TicketOK(a.tickets[k])
  BY DEF Rest, TicketsOK
<1>1. b \in IF barred THEN {Denied(a, k)} ELSE {Submitted(a, k, demand) : demand \in Demands}
  BY DEF Decisions
<1>2. CASE barred
  <2>1. b = Denied(a, k)
    BY <1>1, <1>2
  <2>2. ~a.tickets[k].active
    BY <1>0 DEF TicketOK, NoTicket
  <2>3. /\ Balanced(b) /\ TicketsOK(b) /\ b.tombs = a.tombs /\ b.events = a.events
        /\ \A j \in Keys : b.tickets[j] = IF j = k THEN Denial ELSE a.tickets[j]
    <3>1. \A j \in Keys : j # k => TicketOK(a.tickets[j])
      BY <1>0 DEF TicketsOK
    <3> QED BY <1>0, <2>1, <2>2, <3>1, DeniedMakes
  <2>4. Later(a, b, Keys \ {k})
    BY <2>3 DEF Later, Ages
  <2> QED BY <1>0, <2>3, <2>4, NewTickets DEF Decided, Rest
<1>3. CASE ~barred
  <2>1. PICK demand \in Demands : b = Submitted(a, k, demand)
    BY <1>1, <1>3
  <2>2. Decided(a, b, k)
    BY <1>3, <2>1, SubmittedMakes
  <2> QED BY <1>3, <2>2
<1> QED BY <1>2, <1>3

-----------------------------------------------------------------------------
(* A ticket's release.                                                     *)

(* The ticket of k ends; what it frees is granted to others.               *)
Ended(a, b, k) ==
  /\ Rest(b) /\ b.tombs = a.tombs /\ Later(a, b, Keys \ {k})
  /\ ~b.tickets[k].active /\ b.tickets[k].state # "none"
  /\ b.tickets[k].meas = a.tickets[k].meas /\ b.tickets[k].cancel = a.tickets[k].cancel

(* The released ticket, reworded, is routed.                               *)
LEMMA EndingMakes ==
  ASSUME NEW a, Rest(a), NEW k \in Keys, a.tickets[k].active,
         NEW c, Balanced(c), TicketsOK(c), c.tombs = a.tombs,
         \A j \in Keys : j # k => c.tickets[j] = a.tickets[j],
         ~c.tickets[k].active, c.tickets[k].state # "none",
         c.tickets[k].meas = a.tickets[k].meas, c.tickets[k].cancel = a.tickets[k].cancel
  PROVE  Ended(a, Route(c), k)
<1> DEFINE r == Route(c)
<1>1. Rest(r) /\ GrantsOnly(c, r) /\ r.tombs = c.tombs
  BY RouteRests
<1> HIDE DEF r
<1>2. r.tickets[k] = c.tickets[k]
  BY <1>1 DEF GrantsOnly, TicketGranted
<1>3. ASSUME NEW j \in Keys \ {k}
      PROVE  /\ Ages(a.tickets[j], r.tickets[j])
             /\ r.tickets[j].state = "none" => a.tickets[j].state = "none"
  <2>1. TicketOK(a.tickets[j]) /\ c.tickets[j] = a.tickets[j]
    BY DEF Rest, TicketsOK
  <2>2. r.tickets[j] = a.tickets[j] \/ TicketGranted(a.tickets[j], r.tickets[j])
    BY <1>1, <2>1 DEF GrantsOnly
  <2>3. CASE r.tickets[j] = a.tickets[j]
    BY <2>1, <2>3, AgingTickets
  <2>4. CASE TicketGranted(a.tickets[j], r.tickets[j])
    BY <2>1, <2>4, AgingTickets
  <2> QED BY <2>2, <2>3, <2>4
<1>4. Ended(a, r, k)
  BY <1>1, <1>2, <1>3 DEF Ended, Later
<1> QED BY <1>4 DEF r

(* ReleaseTicket leaves the ticket inactive and says nothing new.          *)
LEMMA ReleaseTicketMakes ==
  ASSUME NEW a, Rest(a), NEW k \in Keys, a.tickets[k].active
  PROVE  LET b == ReleaseTicket(a, k) IN
         /\ Balanced(b) /\ b.tombs = a.tombs
         /\ \A j \in Keys : j # k => b.tickets[j] = a.tickets[j]
         /\ b.tickets[k] \in Tickets /\ b.tickets[k].state = a.tickets[k].state
         /\ ~b.tickets[k].active /\ b.tickets[k].lease = a.tickets[k].lease
         /\ b.tickets[k].meas = a.tickets[k].meas /\ b.tickets[k].cancel = a.tickets[k].cancel
<1> DEFINE b == ReleaseTicket(a, k)
<1>0. a \in Memories /\ Balanced(a) /\ a.tickets \in [Keys -> Tickets]
  BY DEF Rest, Balanced, Memories
<1>1. Balanced(b)
  BY <1>0, ReleaseBalances
<1>2. Removed(a, b, k)
  BY <1>0, ReleaseMakes
<1> HIDE DEF b
<1>3. /\ \A j \in Keys : j # k => b.tickets[j] = a.tickets[j]
      /\ b.tickets[k] = [a.tickets[k] EXCEPT !.active = FALSE] /\ b.tombs = a.tombs
  BY <1>0, <1>2 DEF Removed
<1>4. a.tickets[k] \in Tickets
  BY <1>0
<1>5. /\ b.tickets[k] \in Tickets /\ b.tickets[k].state = a.tickets[k].state
      /\ ~b.tickets[k].active /\ b.tickets[k].lease = a.tickets[k].lease
      /\ b.tickets[k].meas = a.tickets[k].meas /\ b.tickets[k].cancel = a.tickets[k].cancel
  BY <1>3, <1>4 DEF Tickets
<1> QED BY <1>1, <1>3, <1>5 DEF b

LEMMA ReleasedMakes ==
  ASSUME NEW a, Rest(a), NEW k \in Keys, a.tickets[k].active
  PROVE  Ended(a, Released(a, k), k)
<1> DEFINE b == ReleaseTicket(a, k)
           t == [b.tickets[k] EXCEPT !.state = "released"]
           u == [b EXCEPT !.tickets[k] = t]
           c == IF b.tickets[k].state \in {"granted", "queued"} THEN u ELSE b
<1>0. TicketsOK(a) /\ TicketOK(a.tickets[k])
  BY DEF Rest, TicketsOK
<1>1. /\ Balanced(b) /\ b.tombs = a.tombs
      /\ \A j \in Keys : j # k => b.tickets[j] = a.tickets[j]
      /\ b.tickets[k] \in Tickets /\ b.tickets[k].state = a.tickets[k].state
      /\ ~b.tickets[k].active /\ b.tickets[k].lease = a.tickets[k].lease
      /\ b.tickets[k].meas = a.tickets[k].meas /\ b.tickets[k].cancel = a.tickets[k].cancel
  BY ReleaseTicketMakes
<1>2. Released(a, k) = Route(c)
  <2>1. b \in Memories
    BY <1>1 DEF Balanced
  <2>2. u = [b EXCEPT !.tickets[k] = [@ EXCEPT !.state = "released"]]
    BY <2>1 DEF Memories
  <2> QED BY <2>2 DEF Released
<1> HIDE DEF b
<1>3. /\ t \in Tickets /\ t.state = "released" /\ ~t.active /\ t.meas = b.tickets[k].meas
      /\ t.cancel = b.tickets[k].cancel
  BY <1>1 DEF Tickets, TicketStates
<1>4. Reworded(b, u, k, t)
  <2> HIDE DEF t
  <2> QED BY <1>1, <1>3, RewordMakes DEF Balanced
<1> HIDE DEF t, u
<1>5. CASE b.tickets[k].state \in {"granted", "queued"}
  <2>1. c = u
    BY <1>5
  <2>2. /\ Balanced(u) /\ u.tombs = b.tombs /\ u.events = b.events
        /\ \A j \in Keys : u.tickets[j] = IF j = k THEN t ELSE b.tickets[j]
    <3>1. (t.active <=> b.tickets[k].active) /\ (t.active => (t.lease <=> b.tickets[k].lease))
      BY <1>1, <1>3
    <3> QED BY <1>1, <1>3, <1>4, <3>1, RewordBalances
  <2>3. TicketOK(t)
    <3>1. ~t.cancel
      BY <1>0, <1>1, <1>3, <1>5 DEF TicketOK
    <3> QED BY <1>3, <3>1 DEF TicketOK
  <2>4. TicketsOK(u)
    BY <1>0, <1>1, <2>2, <2>3 DEF TicketsOK
  <2>5. Ended(a, Route(u), k)
    BY <1>1, <1>3, <2>2, <2>4, EndingMakes
  <2> QED BY <1>2, <2>1, <2>5
<1>6. CASE b.tickets[k].state \notin {"granted", "queued"}
  <2>1. c = b
    BY <1>6
  <2>2. b.tickets[k].state # "none"
    BY <1>0, <1>1 DEF TicketOK, NoTicket
  <2>3. TicketOK(b.tickets[k])
    BY <1>0, <1>1, <1>6, <2>2 DEF TicketOK
  <2>4. TicketsOK(b)
    BY <1>0, <1>1, <2>3 DEF TicketsOK
  <2>5. Ended(a, Route(b), k)
    BY <1>1, <2>2, <2>4, EndingMakes
  <2> QED BY <1>2, <2>1, <2>5
<1> QED BY <1>5, <1>6

(* The clean-up releases a cancelled ticket.                               *)
LEMMA CleanedMakes ==
  ASSUME NEW a, Rest(a), NEW k \in Keys, a.tickets[k].active, a.tickets[k].cancel
  PROVE  Ended(a, Route(ReleaseTicket(a, k)), k)
<1> DEFINE b == ReleaseTicket(a, k)
<1>0. TicketsOK(a) /\ TicketOK(a.tickets[k])
  BY DEF Rest, TicketsOK
<1>1. /\ Balanced(b) /\ b.tombs = a.tombs
      /\ \A j \in Keys : j # k => b.tickets[j] = a.tickets[j]
      /\ b.tickets[k] \in Tickets /\ b.tickets[k].state = a.tickets[k].state
      /\ ~b.tickets[k].active /\ b.tickets[k].lease = a.tickets[k].lease
      /\ b.tickets[k].meas = a.tickets[k].meas /\ b.tickets[k].cancel = a.tickets[k].cancel
  BY ReleaseTicketMakes
<1> HIDE DEF b
<1>2. a.tickets[k].state \in {"cancelled", "evicted"}
  BY <1>0 DEF TicketOK
<1>3. TicketOK(b.tickets[k])
  BY <1>1, <1>2 DEF TicketOK
<1>4. TicketsOK(b)
  BY <1>0, <1>1, <1>3 DEF TicketsOK
<1>5. Ended(a, Route(b), k)
  BY <1>1, <1>2, <1>4, EndingMakes
<1> QED BY <1>5 DEF b

(* The order of the waiters is not in the books.                           *)
LEMMA ReorderedMakes ==
  ASSUME NEW a, Rest(a), NEW r, NEW b \in Reordered(a, r)
  PROVE  Rest(b) /\ b.tombs = a.tombs /\ b.tickets = a.tickets
<1>0. a \in Memories
  BY DEF Rest, Balanced
<1>1. PICK order \in SUBSET (Participants \X Participants) : b = [a EXCEPT !.ahead = order]
  <2> DEFINE own == {p \in a.waiters : RunOf[p] = r}
             rest == a.waiters \ own
             kept == Among(a.ahead, own) \cup Among(a.ahead, rest)
  <2>1. PICK moved \in {own \X rest, rest \X own} : b = [a EXCEPT !.ahead = kept \cup moved]
    BY DEF Reordered
  <2>2. kept \cup moved \in SUBSET (Participants \X Participants)
    BY <1>0, <2>1 DEF Among, Memories
  <2> QED BY <2>1, <2>2
<1>2. /\ b \in Memories /\ b.tickets = a.tickets /\ b.tombs = a.tombs
      /\ b.leases = a.leases /\ b.waiters = a.waiters /\ b.events = a.events
      /\ b.superseded = a.superseded /\ b.roles = a.roles
  BY <1>0, <1>1 DEF Memories
<1>3. Rest(b)
  BY <1>2 DEF Rest, Balanced, TicketsOK, Single, Standing
<1> QED BY <1>2, <1>3

-----------------------------------------------------------------------------
(* The tables and what is saved of them.                                   *)

(* What the next ticket y of key k must be for the tables to stand, c      *)
(* being what was saved last.                                              *)
Fits(c, k, y) ==
  /\ c.tickets[k].state # "none" /\ ~c.tickets[k].active => ~y.active
  /\ k \in sessions => y.active /\ y.meas
  /\ client[k] = "deleting" \/ k \in deleted =>
       /\ c.tickets[k].state = "none" => y.state = "none"
       /\ c.tickets[k].state # "none" =>
            y.state # "none" \/ \A t \in Threads : handler[t].key # k
  /\ k \in deleted => ~y.active
  /\ daemon # "down" /\ y.active /\ RunOf[PartOf[k]] \in terminal \ (notes \cup missed)
       => y.cancel

LEMMA FitsAsItWas ==
  ASSUME NEW a, NEW c, NEW d, Tables(a, c, d), NEW k \in Keys
  PROVE  Fits(c, k, a.tickets[k])
<1>1. /\ SameTicket(a.tickets[k], c.tickets[k])
      /\ k \in sessions => c.tickets[k].active /\ c.tickets[k].meas
      /\ k \in deleted => ~c.tickets[k].active
  BY DEF Tables, Saved, Working, Deletions
<1>2. daemon # "down" /\ c.tickets[k].active /\ RunOf[PartOf[k]] \in terminal \ (notes \cup missed)
        => c.tickets[k].cancel
  BY DEF Tables, RunsLeft, RunLeft
<1> QED BY <1>1, <1>2 DEF Fits, SameTicket

LEMMA FitsWhenOlder ==
  ASSUME NEW c, NEW k, NEW y, NEW z, Fits(c, k, y), TicketOK(z), Ages(y, z),
         z.state = "none" => y.state = "none" \/ Spare(k)
  PROVE  Fits(c, k, z)
<1>1. z.meas \/ z.active => z.state # "none"
  BY DEF TicketOK, NoTicket
<1> QED BY <1>1 DEF Fits, Ages, Spare

(* What fits may be saved, or be lost with the memory rolled back.         *)
LEMMA SaveStands ==
  ASSUME NEW a, NEW c, NEW d, Tables(a, c, d), sessions \subseteq Keys,
         NEW n, Rest(n), c.tombs \subseteq n.tombs,
         \A k \in Keys : Fits(c, k, n.tickets[k])
  PROVE  Tables(n, Payload(n), Payload(n)) /\ Tables(Restored(c), c, Payload(n))
<1> DEFINE P == Payload(n)
<1>1. P \in Payloads /\ Restored(P) = n /\ P.tickets = n.tickets /\ P.tombs = n.tombs
  BY PayloadRestores
<1> HIDE DEF P
<1>2. Sound(P)
  BY <1>1 DEF Sound
<1>3. /\ Saved(n, P) /\ Behind(P, P) /\ Behind(c, P)
      /\ Working(P)
  BY <1>1 DEF Saved, SameTicket, Behind, Working, Fits
<1>4. ASSUME NEW k \in Keys, client[k] = "deleting" \/ k \in deleted
      PROVE  Settled(P, P, k) /\ Settled(c, P, k)
  <2>1. Settled(c, d, k)
    BY <1>4 DEF Tables, Deletions
  <2>2. Fits(c, k, P.tickets[k])
    BY <1>1
  <2> QED BY <1>4, <2>1, <2>2 DEF Settled, Fits
<1>5. ASSUME NEW k \in deleted, k \in Keys
      PROVE  client[k] = "gone" /\ ~c.tickets[k].active /\ ~P.tickets[k].active
  BY <1>1, <1>5 DEF Tables, Deletions, Fits
<1>6. Deletions(P, P) /\ Deletions(c, P)
  BY <1>4, <1>5 DEF Deletions
<1>7. RunsLeft(P)
  <2> SUFFICES ASSUME daemon # "down", NEW r \in terminal \ (notes \cup missed)
               PROVE  RunLeft(P, r)
    BY DEF RunsLeft
  <2>1. RunLeft(c, r)
    BY DEF Tables, RunsLeft
  <2>2. \A k \in Keys : P.tickets[k].active /\ RunOf[PartOf[k]] = r => P.tickets[k].cancel
    BY <1>1 DEF Fits
  <2> QED BY <1>1, <2>1, <2>2 DEF RunLeft
<1>8. Restored(c).tickets = c.tickets /\ Restored(c).tombs = c.tombs
  BY RestoredTickets
<1>9. Rest(Restored(c)) /\ Saved(Restored(c), c)
  BY <1>8 DEF Tables, Sound, Saved, SameTicket
<1>10. Tables(n, P, P)
  BY <1>2, <1>3, <1>6, <1>7 DEF Tables
<1>11. Tables(Restored(c), c, P)
  BY <1>2, <1>3, <1>6, <1>9 DEF Tables
<1> QED BY <1>10, <1>11 DEF P

LEMMA RollbackStands ==
  ASSUME NEW a, NEW c, NEW d, Tables(a, c, d)
  PROVE  Tables(Restored(c), c, d)
<1>1. Restored(c).tickets = c.tickets /\ Restored(c).tombs = c.tombs
  BY RestoredTickets
<1>2. Rest(Restored(c)) /\ Saved(Restored(c), c)
  BY <1>1 DEF Tables, Sound, Saved, SameTicket
<1> QED BY <1>2 DEF Tables

(* A commit that succeeds, and one that fails.                             *)
Stored(new) ==
  /\ Later(new, adm', Keys) /\ Rest(adm') /\ adm'.tombs = new.tombs
  /\ committed'.tickets = adm'.tickets /\ disk'.tickets = adm'.tickets
  /\ committed'.tombs = new.tombs
Undone(c) == adm'.tickets = c.tickets /\ committed' = c

LEMMA CommitStands ==
  ASSUME NEW a, NEW c, NEW d, Tables(a, c, d), sessions \subseteq Keys,
         NEW new, Rest(new), c.tombs \subseteq new.tombs,
         \A k \in Keys : Fits(c, k, new.tickets[k]),
         NEW s, s.committed = c, s.disk = d
  PROVE  /\ CommitOK(new) => Tables(adm', committed', disk') /\ Stored(new)
         /\ CommitFails(s, new) => Tables(adm', committed', disk') /\ Undone(c)
<1>1. ASSUME NEW b \in Saves(new)
      PROVE  /\ Tables(b, Payload(b), Payload(b)) /\ Tables(Restored(c), c, Payload(b))
             /\ Rest(b) /\ b.tombs = new.tombs /\ Later(new, b, Keys)
             /\ Payload(b).tickets = b.tickets /\ Payload(b).tombs = b.tombs
  <2>1. Rest(b) /\ b.tombs = new.tombs /\ Later(new, b, Keys)
    BY SavedLater
  <2>2. ASSUME NEW k \in Keys PROVE Fits(c, k, b.tickets[k])
    <3>1. Fits(c, k, new.tickets[k]) /\ TicketOK(b.tickets[k])
      BY <2>1 DEF Rest, TicketsOK
    <3> QED BY <2>1, <3>1, FitsWhenOlder DEF Later
  <2>3. Tables(b, Payload(b), Payload(b)) /\ Tables(Restored(c), c, Payload(b))
    BY <2>1, <2>2, SaveStands
  <2>4. Payload(b).tickets = b.tickets /\ Payload(b).tombs = b.tombs
    BY <2>1, PayloadRestores
  <2> QED BY <2>1, <2>3, <2>4
<1>2. ASSUME CommitOK(new) PROVE Tables(adm', committed', disk') /\ Stored(new)
  <2>1. PICK b \in Saves(new) : adm' = b /\ committed' = Payload(b) /\ disk' = Payload(b)
    BY <1>2 DEF CommitOK
  <2>2. /\ Tables(b, Payload(b), Payload(b))
        /\ Rest(b) /\ b.tombs = new.tombs /\ Later(new, b, Keys)
        /\ Payload(b).tickets = b.tickets /\ Payload(b).tombs = b.tombs
    BY <1>1
  <2> QED BY <2>1, <2>2 DEF Stored
<1>3. ASSUME CommitFails(s, new) PROVE Tables(adm', committed', disk') /\ Undone(c)
  <2>1. adm' = Restored(c) /\ committed' = c
    BY <1>3 DEF CommitFails
  <2>2. disk' = d \/ \E b \in Saves(new) : disk' = Payload(b)
    BY <1>3 DEF CommitFails
  <2>3. Restored(c).tickets = c.tickets
    BY RestoredTickets
  <2>4. CASE disk' = d
    BY <2>1, <2>3, <2>4, RollbackStands DEF Undone
  <2>5. CASE \E b \in Saves(new) : disk' = Payload(b)
    BY <1>1, <2>1, <2>3, <2>5 DEF Undone
  <2> QED BY <2>2, <2>4, <2>5
<1> QED BY <1>2, <1>3

-----------------------------------------------------------------------------
(* The section that reaps.                                                 *)

(* What a section goes on with is as good as what it found, and older.     *)
SectionOK(s) ==
  /\ Tables(s.adm, s.committed, s.disk)
  /\ Later(adm, s.adm, Keys) /\ Later(committed, s.committed, Keys)
  /\ adm.tombs = s.adm.tombs

LEMMA SameLater ==
  ASSUME NEW a, NEW b, NEW c, NEW e, Saved(a, c), Saved(b, e), Later(a, b, Keys)
  PROVE  Later(c, e, Keys)
BY DEF Saved, SameTicket, Later, Ages

LEMMA LaterItself ==
  ASSUME NEW a, NEW b, a.tickets = b.tickets, NEW J
  PROVE  Later(a, b, J)
BY DEF Later, Ages

(* What a section makes of its tables, key by key.                         *)
LEMMA LaterFits ==
  ASSUME NEW a, NEW c, NEW d, Tables(a, c, d), NEW n, Rest(n),
         NEW J \in SUBSET Keys, Later(a, n, J)
  PROVE  \A k \in J : Fits(c, k, n.tickets[k])
<1> SUFFICES ASSUME NEW k \in J PROVE Fits(c, k, n.tickets[k])
  OBVIOUS
<1>1. Fits(c, k, a.tickets[k])
  BY FitsAsItWas
<1>2. TicketOK(n.tickets[k])
  BY DEF Rest, TicketsOK
<1> QED BY <1>1, <1>2, FitsWhenOlder DEF Later

LEMMA ReapingStands ==
  ASSUME Tables(adm, committed, disk), sessions \subseteq Keys, NEW seen,
         NEW s \in Reaped(Due(adm, seen))
  PROVE  SectionOK(s)
<1> DEFINE ks == Due(adm, seen)
<1>1. ks \in SUBSET Keys /\ \A k \in ks : adm.tickets[k].active
  BY DEF Due
<1>2. Rest(adm) /\ Balanced(adm) /\ TicketsOK(adm) /\ Saved(adm, committed)
  BY DEF Tables, Rest
<1> HIDE DEF ks
<1>3. ASSUME NEW a \in CancelEach(adm, ks)
      PROVE  Rest(a) /\ a.tombs = adm.tombs /\ Later(adm, a, Keys)
  BY <1>1, <1>2, CancelledLater
<1>4. CASE ReapChanges(adm, ks)
  <2>0. PICK a \in CancelEach(adm, ks) : \E e \in Saves(a) :
          s = Section(e, Payload(e), Payload(e))
    BY <1>4 DEF Reaped, ks
  <2>1. PICK b \in Saves(a) : s = Section(b, Payload(b), Payload(b))
    BY <2>0
  <2>2. Rest(a) /\ a.tombs = adm.tombs /\ Later(adm, a, Keys)
    BY <1>3
  <2>3. Rest(b) /\ b.tombs = a.tombs /\ Later(a, b, Keys)
    BY <2>2, SavedLater
  <2>4. Later(adm, b, Keys)
    BY <2>2, <2>3, LaterStill
  <2>5. \A k \in Keys : Fits(committed, k, b.tickets[k])
    BY <2>3, <2>4, LaterFits
  <2>6. committed.tombs \subseteq b.tombs
    BY <1>2, <2>2, <2>3 DEF Saved
  <2>7. Tables(b, Payload(b), Payload(b))
    BY <2>3, <2>5, <2>6, SaveStands
  <2>8. s.adm = b /\ s.committed = Payload(b) /\ s.disk = Payload(b)
    BY <2>1 DEF Section
  <2>9. Later(committed, s.committed, Keys)
    <3>1. Saved(b, Payload(b))
      BY <2>7 DEF Tables
    <3> QED BY <1>2, <2>4, <2>8, <3>1, SameLater
  <2> QED BY <2>2, <2>3, <2>4, <2>7, <2>8, <2>9 DEF SectionOK
<1>5. CASE ~ReapChanges(adm, ks)
  <2>1. PICK a \in CancelEach(adm, ks) : s = Section(a, committed, disk)
    BY <1>5 DEF Reaped, ks
  <2>2. EachCancelled(adm, a, ks)
    BY <1>1, <1>2, CancelEachMakes
  <2>3. \A k \in ks : adm.tickets[k].cancel /\ adm.tickets[k].meas
    BY <1>5 DEF ReapChanges
  <2>4. s.adm = a /\ s.committed = committed /\ s.disk = disk
    BY <2>1 DEF Section
  <2>5. Rest(a) /\ a.tombs = adm.tombs /\ Later(adm, a, Keys)
    BY <1>3
  <2>6. ASSUME NEW k \in Keys PROVE SameTicket(a.tickets[k], committed.tickets[k])
    <3>1. SameTicket(adm.tickets[k], committed.tickets[k]) /\ TicketOK(adm.tickets[k])
      BY <1>2 DEF Saved, TicketsOK
    <3>2. CASE k \in ks
      <4>1. TicketCancelled(adm.tickets[k], a.tickets[k])
        BY <2>2, <3>2 DEF EachCancelled
      <4>2. adm.tickets[k].active /\ adm.tickets[k].cancel /\ adm.tickets[k].meas
        BY <1>1, <2>3, <3>2
      <4>3. adm.tickets[k].state # "none"
        BY <3>1, <4>2 DEF TicketOK, NoTicket
      <4>4. a.tickets[k] \in Tickets /\ adm.tickets[k] \in Tickets
        BY <1>2, <2>5 DEF Rest, Balanced, Memories
      <4> QED BY <3>1, <4>1, <4>2, <4>3, <4>4 DEF SameTicket, TicketCancelled, Tickets
    <3>3. CASE k \notin ks
      <4>1. adm.events = {}
        BY <1>2 DEF Rest
      <4>2. a.tickets[k] = adm.tickets[k]
        BY <2>2, <2>3, <3>3, <4>1 DEF EachCancelled
      <4> QED BY <3>1, <4>2
    <3> QED BY <3>2, <3>3
  <2>7. Saved(a, committed)
    BY <1>2, <2>5, <2>6 DEF Saved
  <2>8. Tables(a, committed, disk)
    BY <2>5, <2>7 DEF Tables
  <2>9. Later(committed, committed, Keys)
    BY LaterItself
  <2> QED BY <2>4, <2>5, <2>8, <2>9 DEF SectionOK
<1> QED BY <1>4, <1>5

LEMMA SectionsStand ==
  ASSUME Tables(adm, committed, disk), sessions \subseteq Keys, NEW s \in Sections
  PROVE  SectionOK(s)
<1>1. PICK seen \in SUBSET (Hosts \ hosts) : s \in Reaped(Due(adm, seen))
  BY DEF Sections
<1> QED BY <1>1, ReapingStands

-----------------------------------------------------------------------------
(* Steps.  A step is taken in two: what it makes of the tables under the   *)
(* control it finds, and the change of control.                            *)

(* TicketsEndOnce, of one step.                                            *)
EndOnce ==
  \A k \in Keys :
    daemon # "down" /\ daemon' # "down" =>
      /\ adm.tickets[k].state # "none" /\ ~adm.tickets[k].active
         => ~adm'.tickets[k].active
      /\ adm.tickets[k].lease /\ adm'.tickets[k].active => adm'.tickets[k].lease

(* The tables after the step, older for the keys of J.                     *)
Progress(J) ==
  /\ Tables(adm', committed', disk')
  /\ Later(adm, adm', J) /\ Later(committed, committed', J)

LEMMA SavedAges ==
  ASSUME NEW a, NEW b, NEW c, NEW e, Saved(a, c), Saved(b, e), NEW J \in SUBSET Keys,
         Later(a, b, J)
  PROVE  Later(c, e, J)
BY DEF Saved, SameTicket, Later, Ages

LEMMA SavedIsLater ==
  ASSUME NEW a, NEW c, Saved(a, c)
  PROVE  Later(a, c, Keys) /\ Later(c, a, Keys)
BY DEF Saved, SameTicket, Later, Ages

LEMMA StillProgress ==
  ASSUME Tables(adm, committed, disk), UNCHANGED <<adm, committed, disk>>
  PROVE  Progress(Keys)
<1>1. Later(adm, adm', Keys) /\ Later(committed, committed', Keys)
  BY LaterItself
<1> QED BY <1>1 DEF Progress

LEMMA ProgressEndsOnce ==
  ASSUME Progress(Keys)
  PROVE  EndOnce
BY DEF Progress, Later, Ages, EndOnce

(* A step that only reaps.                                                 *)
LEMMA UnsavedProgress ==
  ASSUME NEW s, SectionOK(s), Unsaved(s)
  PROVE  Progress(Keys)
BY DEF SectionOK, Unsaved, Progress

(* The section that does not reap.                                         *)
LEMMA SectionAsItIs ==
  ASSUME Tables(adm, committed, disk)
  PROVE  LET s == Section(adm, committed, disk) IN
         SectionOK(s) /\ s.adm = adm /\ s.committed = committed /\ s.disk = disk
<1> DEFINE s == Section(adm, committed, disk)
<1>1. s.adm = adm /\ s.committed = committed /\ s.disk = disk
  BY DEF Section
<1> HIDE DEF s
<1>2. Later(adm, s.adm, Keys) /\ Later(committed, s.committed, Keys)
  BY <1>1, LaterItself
<1>3. SectionOK(s)
  BY <1>1, <1>2 DEF SectionOK
<1> QED BY <1>1, <1>3 DEF s

(* A section's result is saved, or the save fails.                         *)
LEMMA CommitProgress ==
  ASSUME sessions \subseteq Keys, NEW s, SectionOK(s),
         NEW new, Rest(new), s.adm.tombs \subseteq new.tombs,
         NEW J \in SUBSET Keys, Later(s.adm, new, J),
         \A k \in Keys \ J : Fits(s.committed, k, new.tickets[k])
  PROVE  /\ CommitOK(new) => Progress(J) /\ Stored(new)
         /\ CommitFails(s, new) => Progress(Keys) /\ Undone(s.committed)
<1>1. /\ Tables(s.adm, s.committed, s.disk) /\ Later(adm, s.adm, Keys)
      /\ Later(committed, s.committed, Keys) /\ Saved(s.adm, s.committed)
  BY DEF SectionOK, Tables
<1>2. \A k \in J : Fits(s.committed, k, new.tickets[k])
  BY <1>1, LaterFits
<1>3. \A k \in Keys : Fits(s.committed, k, new.tickets[k])
  BY <1>2
<1>4. s.committed.tombs \subseteq new.tombs
  BY <1>1 DEF Saved
<1>5. /\ CommitOK(new) => Tables(adm', committed', disk') /\ Stored(new)
      /\ CommitFails(s, new) => Tables(adm', committed', disk') /\ Undone(s.committed)
  BY <1>1, <1>3, <1>4, CommitStands
<1>6. Later(adm, s.adm, J) /\ Later(committed, s.committed, J) /\ Later(s.committed, s.adm, J)
  <2>1. Later(s.committed, s.adm, Keys)
    BY <1>1, SavedIsLater
  <2> QED BY <1>1, <2>1 DEF Later
<1>7. ASSUME CommitOK(new) PROVE Progress(J) /\ Stored(new)
  <2>1. Tables(adm', committed', disk') /\ Stored(new)
    BY <1>5, <1>7
  <2>2. Later(new, adm', J) /\ Later(adm', committed', J)
    BY <2>1 DEF Stored, Later, Ages
  <2>3. Later(adm, adm', J)
    BY <1>6, <2>2, LaterStill
  <2>4. Later(committed, committed', J)
    BY <1>6, <2>2, LaterStill
  <2> QED BY <2>1, <2>3, <2>4 DEF Progress
<1>8. ASSUME CommitFails(s, new) PROVE Progress(Keys) /\ Undone(s.committed)
  <2>1. Tables(adm', committed', disk') /\ Undone(s.committed)
    BY <1>5, <1>8
  <2>2. Later(s.adm, s.committed, Keys)
    BY <1>1, SavedIsLater
  <2>3. Later(s.adm, adm', Keys)
    BY <2>1, <2>2 DEF Undone, Later
  <2>4. Later(adm, adm', Keys)
    BY <1>1, <2>3, LaterStill
  <2> QED BY <1>1, <2>1, <2>4 DEF Progress, Undone
<1> QED BY <1>7, <1>8

(* The control changes in nothing the tables depend on.                    *)
Calm ==
  /\ sessions' \subseteq sessions /\ deleted' = deleted
  /\ \A k \in Keys : /\ client'[k] = "deleting" => client[k] = "deleting"
                     /\ client[k] = "gone" => client'[k] = "gone"
  /\ \A t \in Threads : handler'[t].key \in Keys => handler'[t] = handler[t]
  /\ daemon = "down" <=> daemon' = "down"
  /\ terminal' \ (notes' \cup missed') \subseteq terminal \ (notes \cup missed)

LEMMA ControlStands ==
  ASSUME Tables(adm', committed', disk'),
         Working(committed)', Working(disk)', Deletions(committed, disk)',
         RunsLeft(committed)'
  PROVE  Tables(adm, committed, disk)'
BY DEF Tables

LEMMA CalmStands ==
  ASSUME Tables(adm', committed', disk'), Calm, sessions \subseteq Keys
  PROVE  Tables(adm, committed, disk)'
<1>1. Working(committed)' /\ Working(disk)'
  BY DEF Tables, Working, Calm
<1>2. Deletions(committed, disk)'
  BY DEF Tables, Deletions, Settled, Calm
<1>3. RunsLeft(committed)'
  <2> SUFFICES ASSUME daemon' # "down", NEW r \in terminal' \ (notes' \cup missed')
               PROVE  RunLeft(committed, r)'
    BY DEF RunsLeft
  <2>1. RunLeft(committed', r)
    BY DEF Tables, RunsLeft, Calm
  <2> QED BY <2>1 DEF RunLeft, Calm
<1> QED BY <1>1, <1>2, <1>3, ControlStands

(* The clean-up's copies stay older than the tickets.                      *)
KeepsJob(x, y) == x.meas => y.meas /\ (x.cancel => y.cancel) /\ (~x.active => ~y.active)

LEMMA TablesTickets ==
  ASSUME NEW a, NEW c, NEW d, Tables(a, c, d)
  PROVE  /\ a \in Memories /\ \A k \in Keys : a.tickets[k] \in Tickets /\ TicketOK(a.tickets[k])
         /\ \A k \in Keys : TicketOK(c.tickets[k]) /\ TicketOK(d.tickets[k])
         /\ Saved(a, c) /\ a.tombs = c.tombs
<1>1. Rest(a) /\ Sound(c) /\ Sound(d) /\ Saved(a, c)
  BY DEF Tables
<1>2. Restored(c).tickets = c.tickets /\ Restored(d).tickets = d.tickets
  BY RestoredTickets
<1>3. \A k \in Keys : TicketOK(c.tickets[k]) /\ TicketOK(d.tickets[k])
  BY <1>1, <1>2 DEF Sound, Rest, TicketsOK
<1>4. a \in Memories /\ \A k \in Keys : a.tickets[k] \in Tickets
  BY <1>1 DEF Rest, Balanced, Memories
<1> QED BY <1>1, <1>3, <1>4 DEF Rest, TicketsOK, Saved

LEMMA LaterKeepsJob ==
  ASSUME NEW c, NEW e, NEW k \in Keys, Ages(c.tickets[k], e.tickets[k]), TicketOK(e.tickets[k])
  PROVE  KeepsJob(c.tickets[k], e.tickets[k])
BY DEF Ages, TicketOK, KeepsJob, NoTicket

LEMMA CleanUpStands ==
  ASSUME Control, CleanUp(committed), roots' \subseteq roots, probe' \in {probe, None},
         hosts' \subseteq hosts, NEW J \in SUBSET Keys,
         \A k \in J : KeepsJob(committed.tickets[k], committed'.tickets[k]),
         \A root \in roots : root.key \in J, probe' # None => probe' \in J
  PROVE  CleanUp(committed)'
<1>1. \A root \in roots' :
         /\ committed'.tickets[root.key].meas
         /\ root.active \/ ~committed'.tickets[root.key].active
         /\ root.cancel => committed'.tickets[root.key].cancel
  BY DEF CleanUp, KeepsJob
<1>2. probe' # None => Doomed(committed, probe)'
  BY DEF CleanUp, Doomed, KeepsJob, Control, Caller
<1> QED BY <1>1, <1>2 DEF CleanUp

LEMMA ProgressKeepsJobs ==
  ASSUME NEW J \in SUBSET Keys, Progress(J)
  PROVE  \A k \in J : KeepsJob(committed.tickets[k], committed'.tickets[k])
<1> SUFFICES ASSUME NEW k \in J
             PROVE  KeepsJob(committed.tickets[k], committed'.tickets[k])
  OBVIOUS
<1>1. Tables(adm', committed', disk') /\ Later(committed, committed', J)
  BY DEF Progress
<1>2. TicketOK(committed'.tickets[k])
  BY <1>1, TablesTickets
<1> QED BY <1>1, <1>2, LaterKeepsJob DEF Later

(* A step that changes the tables of the section, the control in nothing   *)
(* they depend on.                                                         *)
Quiet == Calm /\ roots' \subseteq roots /\ probe' \in {probe, None} /\ hosts' \subseteq hosts

LEMMA CalmStep ==
  ASSUME IInv, Progress(Keys), Calm, Control', CleanUp(committed)'
  PROVE  IInv' /\ EndOnce
<1>1. Tables(adm, committed, disk)'
  BY CalmStands DEF IInv, Control, Progress
<1> QED BY <1>1, ProgressEndsOnce DEF IInv

LEMMA QuietStep ==
  ASSUME IInv, Progress(Keys), Quiet, Control'
  PROVE  IInv' /\ EndOnce
<1>1. \A k \in Keys : KeepsJob(committed.tickets[k], committed'.tickets[k])
  BY ProgressKeepsJobs
<1>2. (\A root \in roots : root.key \in Keys) /\ (probe' # None => probe' \in Keys)
  BY DEF IInv, Control, Copies, Quiet
<1>3. CleanUp(committed)'
  BY <1>1, <1>2, CleanUpStands DEF IInv, Quiet
<1> QED BY <1>3, CalmStep DEF Quiet

(* One ticket is new, ends or forgets its session; the others grow older.  *)
LEMMA OneEndsOnce ==
  ASSUME NEW k \in Keys, Progress(Keys \ {k}), NEW new, Stored(new),
         adm.tickets[k].state # "none" /\ ~adm.tickets[k].active => ~new.tickets[k].active,
         adm.tickets[k].lease /\ new.tickets[k].active => new.tickets[k].lease
  PROVE  EndOnce
<1>1. Later(adm, adm', Keys \ {k}) /\ Ages(new.tickets[k], adm'.tickets[k])
  BY DEF Progress, Stored, Later
<1> QED BY <1>1 DEF Later, Ages, EndOnce

-----------------------------------------------------------------------------
(* The actions that leave the control the tables depend on.                *)

LEMMA AnswerQuiet ==
  ASSUME Control, NEW k \in Keys, NEW state, Answer(k, state)
  PROVE  /\ client' \in [Keys -> {"idle", "asking", "queued", "holding", "working",
                                  "leaving", "deleting", "releasing", "gone"}]
         /\ \A j \in Keys : \/ client'[j] = client[j]
                            \/ client[j] = "asking" /\ client'[j] # "deleting"
         /\ \A j \in Keys : client[j] = "working" => client'[j] = "working"
         /\ faults' \in 0..MaxFaults
<1>1. Understood(state) \in {"holding", "queued", "gone"}
  BY DEF Understood
<1>2. faults' \in 0..MaxFaults
  BY DaemonAssumption DEF Control, Answer, Fault, NoFault
<1>3. \/ client' = [client EXCEPT ![k] = IF @ = "asking" THEN Understood(state) ELSE @]
      \/ UNCHANGED client
  BY DEF Answer
<1> DEFINE u == Understood(state)
           v == IF client[k] = "asking" THEN u ELSE client[k]
           C == {"idle", "asking", "queued", "holding", "working",
                 "leaving", "deleting", "releasing", "gone"}
<1>4. client \in [Keys -> C]
  BY DEF Control
<1>5. client' = [client EXCEPT ![k] = v] \/ client' = client
  BY <1>3
<1>6. /\ v \in C /\ (client[k] # "asking" => v = client[k])
      /\ client[k] = "asking" => v # "deleting"
  BY <1>1, <1>4
<1> HIDE DEF v, u, C
<1>7. ASSUME NEW j \in Keys
      PROVE  client'[j] = client[j] \/ (j = k /\ client'[j] = v)
  BY <1>4, <1>5
<1>8. client' \in [Keys -> C]
  BY <1>4, <1>5, <1>6
<1>9. \A j \in Keys : \/ client'[j] = client[j]
                      \/ client[j] = "asking" /\ client'[j] # "deleting"
  BY <1>6, <1>7
<1>10. \A j \in Keys : client[j] = "working" => client'[j] = "working"
  BY <1>6, <1>7
<1> QED BY <1>2, <1>8, <1>9, <1>10 DEF C

LEMMA ReapAdmissionStep ==
  ASSUME IInv, ReapAdmission
  PROVE  IInv' /\ EndOnce
<1>1. Tables(adm, committed, disk) /\ sessions \subseteq Keys /\ faults \in 0..MaxFaults
  BY DEF IInv, Control
<1>2. PICK seen \in SUBSET (Hosts \ hosts) :
        \E a \in CancelEach(adm, Due(adm, seen)) :
          IF ReapChanges(adm, Due(adm, seen))
            THEN \/ CommitOK(a) /\ NoFault
                 \/ CommitFails(Section(adm, committed, disk), a)
            ELSE adm' = a /\ UNCHANGED <<committed, disk, faults>>
  BY DEF ReapAdmission
<1> DEFINE ks == Due(adm, seen)
<1>3. PICK a \in CancelEach(adm, ks) :
          IF ReapChanges(adm, ks)
            THEN \/ CommitOK(a) /\ NoFault
                 \/ CommitFails(Section(adm, committed, disk), a)
            ELSE adm' = a /\ UNCHANGED <<committed, disk, faults>>
  BY <1>2
<1>4. ks \in SUBSET Keys /\ \A k \in ks : adm.tickets[k].active
  BY DEF Due
<1>5. Rest(a) /\ a.tombs = adm.tombs /\ Later(adm, a, Keys)
  BY <1>1, <1>3, <1>4, CancelledLater DEF Tables, Rest
<1>6. Progress(Keys) /\ faults' \in 0..MaxFaults
  <2>1. CASE ReapChanges(adm, ks)
    <3> DEFINE s == Section(adm, committed, disk)
    <3>1. SectionOK(s) /\ s.adm = adm
      BY <1>1, SectionAsItIs
    <3> HIDE DEF s
    <3>2. /\ CommitOK(a) => Progress(Keys)
          /\ CommitFails(s, a) => Progress(Keys)
      BY <1>1, <1>5, <3>1, CommitProgress
    <3>3. (CommitOK(a) /\ NoFault) \/ CommitFails(s, a)
      BY <1>3, <2>1 DEF s
    <3>4. faults' \in 0..MaxFaults
      BY <1>1, <3>3, DaemonAssumption DEF NoFault, CommitFails, Fault
    <3> QED BY <3>2, <3>3, <3>4
  <2>2. CASE ~ReapChanges(adm, ks)
    <3> DEFINE s == Section(a, committed, disk)
    <3>1. s \in Reaped(ks) /\ s.adm = a /\ s.committed = committed /\ s.disk = disk
      BY <1>3, <2>2 DEF Reaped, Section
    <3>2. SectionOK(s)
      BY <1>1, <3>1, ReapingStands
    <3>3. Unsaved(s) /\ faults' = faults
      BY <1>3, <2>2, <3>1 DEF Unsaved
    <3> HIDE DEF s
    <3> QED BY <1>1, <3>2, <3>3, UnsavedProgress
  <2> QED BY <2>1, <2>2
<1>7. Quiet /\ Control'
  <2>1. UNCHANGED <<daemon, handler, roots, probe, client, hosts, sessions, terminal,
                 notes, missed, deleted>>
    BY DEF ReapAdmission
  <2> QED BY <1>6, <2>1 DEF IInv, Control, Quiet, Calm, Caller
<1> QED BY <1>6, <1>7, QuietStep

(* The caller of k goes on to v, which is neither its end nor a deletion.  *)
LEMMA ClientSteps ==
  ASSUME Control, NEW k \in Keys,
         NEW v \in {"idle", "asking", "queued", "holding", "working",
                    "leaving", "deleting", "releasing", "gone"},
         client' = [client EXCEPT ![k] = v]
  PROVE  /\ client' \in [Keys -> {"idle", "asking", "queued", "holding", "working",
                                  "leaving", "deleting", "releasing", "gone"}]
         /\ \A j \in Keys : client'[j] = IF j = k THEN v ELSE client[j]
BY DEF Control

LEMMA FaultTyped ==
  ASSUME Control, Fault \/ NoFault
  PROVE  faults' \in 0..MaxFaults
BY DaemonAssumption DEF Control, Fault, NoFault

(* What a section that reaps goes on with is sound.                        *)
LEMMA SectionHere ==
  ASSUME IInv, NEW s \in Sections
  PROVE  SectionOK(s)
BY SectionsStand DEF IInv, Control

LEMMA PollStep ==
  ASSUME IInv, NEW k \in Keys, Poll(k)
  PROVE  IInv' /\ EndOnce
<1>1. PICK s \in Sections :
        Unsaved(s) /\ client' = [client EXCEPT ![k] = Understood(s.adm.tickets[k].state)]
  BY DEF Poll
<1>2. Progress(Keys)
  BY <1>1, SectionHere, UnsavedProgress
<1> DEFINE v == Understood(s.adm.tickets[k].state)
<1>3. v \in {"holding", "queued", "gone"}
  BY DEF Understood
<1>4. client' = [client EXCEPT ![k] = v]
  BY <1>1
<1> HIDE DEF v
<1>5. /\ client' \in [Keys -> {"idle", "asking", "queued", "holding", "working",
                               "leaving", "deleting", "releasing", "gone"}]
      /\ \A j \in Keys : client'[j] = IF j = k THEN v ELSE client[j]
  BY <1>3, <1>4, ClientSteps DEF IInv
<1>6. /\ client[k] = "queued"
      /\ UNCHANGED <<daemon, handler, roots, probe, hosts, sessions, terminal, notes,
                     missed, deleted, faults>>
  BY DEF Poll
<1>7. Quiet /\ Control'
  BY <1>3, <1>5, <1>6 DEF IInv, Control, Quiet, Calm, Caller
<1> QED BY <1>2, <1>7, QuietStep

LEMMA GiveUpStep ==
  ASSUME IInv, NEW k \in Keys, GiveUp(k)
  PROVE  IInv' /\ EndOnce
<1>1. Progress(Keys)
  BY StillProgress DEF IInv, GiveUp
<1>2. /\ client' \in [Keys -> {"idle", "asking", "queued", "holding", "working",
                               "leaving", "deleting", "releasing", "gone"}]
      /\ \A j \in Keys : client'[j] = IF j = k THEN "leaving" ELSE client[j]
  BY ClientSteps DEF IInv, GiveUp
<1>3. Quiet /\ Control'
  BY <1>2 DEF IInv, Control, Quiet, Calm, Caller, GiveUp
<1> QED BY <1>1, <1>3, QuietStep

LEMMA ReleaseLostStep ==
  ASSUME IInv, NEW k \in Keys, ReleaseLost(k)
  PROVE  IInv' /\ EndOnce
<1>1. Progress(Keys)
  BY StillProgress DEF IInv, ReleaseLost
<1>2. /\ client' \in [Keys -> {"idle", "asking", "queued", "holding", "working",
                               "leaving", "deleting", "releasing", "gone"}]
      /\ \A j \in Keys : client'[j] = IF j = k THEN "gone" ELSE client[j]
  BY ClientSteps DEF IInv, ReleaseLost
<1>3. faults' \in 0..MaxFaults
  BY FaultTyped DEF IInv, ReleaseLost
<1>4. Quiet /\ Control'
  BY <1>2, <1>3 DEF IInv, Control, Quiet, Calm, Caller, ReleaseLost
<1> QED BY <1>1, <1>4, QuietStep

LEMMA FinishStep ==
  ASSUME IInv, NEW k \in Keys, Finish(k)
  PROVE  IInv' /\ EndOnce
<1>1. Progress(Keys)
  BY StillProgress DEF IInv, Finish
<1>2. /\ client' \in [Keys -> {"idle", "asking", "queued", "holding", "working",
                               "leaving", "deleting", "releasing", "gone"}]
      /\ \A j \in Keys : client'[j] = IF j = k THEN "releasing" ELSE client[j]
  BY ClientSteps DEF IInv, Finish
<1>3. Quiet /\ Control'
  BY <1>2 DEF IInv, Control, Quiet, Calm, Caller, Finish
<1> QED BY <1>1, <1>3, QuietStep

LEMMA WatchStep ==
  ASSUME IInv, NEW k \in Keys, Watch(k)
  PROVE  IInv' /\ EndOnce
<1>1. PICK s \in Sections : Unsaved(s)
  BY DEF Watch
<1>2. Progress(Keys)
  BY <1>1, SectionHere, UnsavedProgress
<1>3. /\ client' \in [Keys -> {"idle", "asking", "queued", "holding", "working",
                               "leaving", "deleting", "releasing", "gone"}]
      /\ \A j \in Keys : client'[j] = IF j = k THEN "releasing" ELSE client[j]
  BY ClientSteps DEF IInv, Watch
<1>4. /\ client[k] \in {"holding", "working"} /\ sessions' = sessions \ {k}
      /\ UNCHANGED <<daemon, handler, roots, probe, hosts, terminal, notes, missed,
                     deleted, faults>>
  BY DEF Watch
<1>5. Quiet /\ Control'
  BY <1>3, <1>4 DEF IInv, Control, Quiet, Calm, Caller
<1> QED BY <1>2, <1>5, QuietStep

LEMMA SetPriorityStep ==
  ASSUME IInv, NEW r \in Runs, SetPriority(r)
  PROVE  IInv' /\ EndOnce
<1>1. PICK s \in Sections : \E new \in Reordered(s.adm, r) :
            \/ CommitOK(new) /\ NoFault
            \/ CommitFails(s, new)
  BY DEF SetPriority
<1>2. PICK new \in Reordered(s.adm, r) :
            \/ CommitOK(new) /\ NoFault
            \/ CommitFails(s, new)
  BY <1>1
<1>3. SectionOK(s) /\ sessions \subseteq Keys
  BY SectionHere DEF IInv, Control
<1>4. Rest(new) /\ new.tombs = s.adm.tombs /\ new.tickets = s.adm.tickets
  BY <1>3, ReorderedMakes DEF SectionOK, Tables
<1>5. Later(s.adm, new, Keys)
  BY <1>4, LaterItself
<1>6. Progress(Keys)
  BY <1>2, <1>3, <1>4, <1>5, CommitProgress
<1>7. faults' \in 0..MaxFaults
  BY <1>2, FaultTyped DEF IInv, CommitFails
<1>8. UNCHANGED <<daemon, handler, roots, probe, client, hosts, sessions, terminal,
                  notes, missed, deleted>>
  BY DEF SetPriority
<1>9. Quiet /\ Control'
  BY <1>7, <1>8 DEF IInv, Control, Quiet, Calm, Caller
<1> QED BY <1>6, <1>9, QuietStep

LEMMA CancelRunStep ==
  ASSUME IInv, NEW r \in Runs, CancelRun(r)
  PROVE  IInv' /\ EndOnce
<1>1. Progress(Keys)
  BY StillProgress DEF IInv, CancelRun
<1>2. Quiet /\ Control'
  BY DEF IInv, Control, Quiet, Calm, Caller, CancelRun
<1> QED BY <1>1, <1>2, QuietStep

LEMMA HostDiesStep ==
  ASSUME IInv, NEW h \in Hosts, HostDies(h)
  PROVE  IInv' /\ EndOnce
<1>1. Progress(Keys)
  BY StillProgress DEF IInv, HostDies
<1>2. faults' \in 0..MaxFaults
  BY FaultTyped DEF IInv, HostDies
<1>3. Quiet /\ Control'
  BY <1>2 DEF IInv, Control, Quiet, Calm, Caller, HostDies
<1> QED BY <1>1, <1>3, QuietStep

LEMMA SessionEndsStep ==
  ASSUME IInv, NEW k \in Keys, SessionEnds(k)
  PROVE  IInv' /\ EndOnce
<1>1. Progress(Keys)
  BY StillProgress DEF IInv, SessionEnds
<1>2. Quiet /\ Control'
  BY DEF IInv, Control, Quiet, Calm, Caller, SessionEnds
<1> QED BY <1>1, <1>2, QuietStep

LEMMA BeginDrainStep ==
  ASSUME IInv, BeginDrain
  PROVE  IInv' /\ EndOnce
<1> DEFINE s == Section(adm, committed, disk)
<1>1. SectionOK(s) /\ s.adm = adm /\ Rest(adm) /\ sessions \subseteq Keys
  BY SectionAsItIs DEF IInv, Control, Tables
<1>2. CommitOK(adm) \/ CommitFails(s, adm)
  BY DEF BeginDrain
<1> HIDE DEF s
<1>3. Later(s.adm, adm, Keys)
  BY <1>1, LaterItself
<1>4. Progress(Keys)
  BY <1>1, <1>2, <1>3, CommitProgress
<1>5. faults' \in 0..MaxFaults
  BY FaultTyped DEF IInv, BeginDrain
<1>6. /\ daemon = "up" /\ daemon' = "draining"
      /\ UNCHANGED <<handler, roots, probe, client, hosts, sessions, terminal, notes,
                     missed, deleted>>
  BY DEF BeginDrain
<1>7. Quiet /\ Control'
  BY <1>5, <1>6 DEF IInv, Control, Quiet, Calm, Caller
<1> QED BY <1>4, <1>7, QuietStep

-----------------------------------------------------------------------------
(* The clean-up.                                                           *)

LEMMA CleanupCopyStep ==
  ASSUME IInv, CleanupCopy
  PROVE  IInv' /\ EndOnce
<1>1. Progress(Keys) /\ committed' = committed /\ Saved(adm, committed)
  BY StillProgress DEF IInv, CleanupCopy, Tables
<1> DEFINE Copy(k) == [key |-> k, active |-> adm.tickets[k].active,
                       cancel |-> adm.tickets[k].cancel]
<1>2. roots' = {Copy(k) : k \in {k \in Keys : adm.tickets[k].meas}}
  BY DEF CleanupCopy
<1>3. \A k \in Keys : adm.tickets[k].active \in BOOLEAN /\ adm.tickets[k].cancel \in BOOLEAN
  <2>1. \A k \in Keys : adm.tickets[k] \in Tickets
    BY TablesTickets DEF IInv
  <2> QED BY <2>1 DEF Tickets
<1>4. \A k \in Keys : /\ Copy(k) \in Copies /\ Copy(k).key = k
                      /\ Copy(k).active = adm.tickets[k].active
                      /\ Copy(k).cancel = adm.tickets[k].cancel
  BY <1>3 DEF Copies
<1> HIDE DEF Copy
<1>5. /\ roots' \subseteq Copies
      /\ \A r1, r2 \in roots' : r1.key = r2.key => r1 = r2
      /\ \A root \in roots' : root.key \in Keys
  BY <1>2, <1>4
<1>6. \A root \in roots' : /\ adm.tickets[root.key].meas
                           /\ root.active = adm.tickets[root.key].active
                           /\ root.cancel = adm.tickets[root.key].cancel
  BY <1>2, <1>4
<1>7. /\ probe = None /\ daemon # "down"
      /\ UNCHANGED <<daemon, handler, probe, client, hosts, sessions, terminal, notes,
                     missed, deleted, faults>>
  BY DEF CleanupCopy
<1>8. CleanUp(committed)'
  BY <1>1, <1>5, <1>6, <1>7 DEF CleanUp, Saved, SameTicket
<1>9. Calm /\ Control'
  BY <1>5, <1>7, DaemonAssumption DEF IInv, Control, Calm, Caller
<1> QED BY <1>1, <1>8, <1>9, CalmStep

LEMMA CleanupInspectStep ==
  ASSUME IInv, CleanupInspect
  PROVE  IInv' /\ EndOnce
<1>1. Progress(Keys) /\ committed' = committed
  BY StillProgress DEF IInv, CleanupInspect
<1>2. PICK root \in roots :
        LET k == root.key
            spared == \/ root.active /\ Caller(k) /\ ~root.cancel
                      \/ k \in sessions /\ Caller(k)
        IN /\ roots' = roots \ {root}
           /\ probe' = IF spared THEN None ELSE k
           /\ sessions' = IF spared THEN sessions ELSE sessions \ {k}
  BY DEF CleanupInspect
<1> DEFINE k == root.key
           spared == \/ root.active /\ Caller(k) /\ ~root.cancel
                     \/ k \in sessions /\ Caller(k)
<1>3. /\ roots' = roots \ {root}
      /\ probe' = IF spared THEN None ELSE k
      /\ sessions' = IF spared THEN sessions ELSE sessions \ {k}
  BY <1>2
<1>4. /\ daemon # "down" /\ probe = None
      /\ UNCHANGED <<daemon, handler, client, hosts, terminal, notes, missed, deleted, faults>>
  BY DEF CleanupInspect
<1>5. k \in Keys /\ \A other \in roots' : other.key # k /\ other.key \in Keys
  BY <1>3 DEF IInv, Control, Copies
<1>6. ~spared => Doomed(committed, k)
  BY DEF IInv, CleanUp, Doomed
<1>7. (~spared => Doomed(committed, k)')
  BY <1>1, <1>4, <1>6 DEF Doomed, Caller
<1> HIDE DEF k, spared
<1>8. CleanUp(committed)'
  BY <1>1, <1>3, <1>7 DEF IInv, CleanUp, Doomed
<1>9. Calm /\ Control'
  BY <1>3, <1>4, <1>5, DaemonAssumption DEF IInv, Control, Calm, Caller
<1> QED BY <1>1, <1>8, <1>9, CalmStep

(* The session of an ended or uncancelled ticket is forgotten.             *)
LEMMA ForgetMakes ==
  ASSUME NEW a, Rest(a), NEW k \in Keys, a.tickets[k].state # "none",
         a.tickets[k].active => ~a.tickets[k].cancel
  PROVE  LET b == [a EXCEPT !.tickets[k].meas = FALSE] IN
         /\ Rest(b) /\ b.tombs = a.tombs
         /\ \A j \in Keys : j # k => b.tickets[j] = a.tickets[j]
         /\ b.tickets[k].state = a.tickets[k].state /\ b.tickets[k].active = a.tickets[k].active
         /\ b.tickets[k].lease = a.tickets[k].lease /\ b.tickets[k].cancel = a.tickets[k].cancel
         /\ ~b.tickets[k].meas
<1> DEFINE t == [a.tickets[k] EXCEPT !.meas = FALSE]
           b == [a EXCEPT !.tickets[k].meas = FALSE]
<1>0. /\ a \in Memories /\ a.tickets \in [Keys -> Tickets] /\ a.tickets[k] \in Tickets
      /\ TicketOK(a.tickets[k]) /\ Balanced(a) /\ a.events = {}
  BY DEF Rest, Balanced, Memories, TicketsOK
<1>1. /\ t \in Tickets /\ t.state = a.tickets[k].state /\ t.active = a.tickets[k].active
      /\ t.lease = a.tickets[k].lease /\ t.cancel = a.tickets[k].cancel /\ ~t.meas
  BY <1>0 DEF Tickets
<1>2. b = [a EXCEPT !.tickets[k] = t]
  BY <1>0 DEF Memories
<1> HIDE DEF t, b
<1>3. Reworded(a, b, k, t)
  BY <1>0, <1>1, <1>2, RewordMakes
<1>4. /\ Balanced(b) /\ b.tombs = a.tombs /\ b.events = a.events
      /\ \A j \in Keys : b.tickets[j] = IF j = k THEN t ELSE a.tickets[j]
  BY <1>0, <1>1, <1>3, RewordBalances
<1>5. TicketOK(t)
  BY <1>0, <1>1 DEF TicketOK
<1>6. TicketsOK(b)
  BY <1>4, <1>5 DEF Rest, TicketsOK
<1> QED BY <1>0, <1>1, <1>4, <1>6 DEF Rest, b

(* What the clean-up saves.                                                *)
LEMMA CleanupMakes ==
  ASSUME IInv, probe # None, adm.tickets[probe].meas,
         NEW a \in IF adm.tickets[probe].active /\ adm.tickets[probe].cancel
                     THEN {Route(ReleaseTicket(adm, probe))} ELSE {adm},
         NEW new, new = [a EXCEPT !.tickets[probe].meas = FALSE]
  PROVE  /\ Rest(new) /\ new.tombs = adm.tombs /\ Later(adm, new, Keys \ {probe})
         /\ Fits(committed, probe, new.tickets[probe])
         /\ ~adm.tickets[probe].active => ~new.tickets[probe].active
         /\ adm.tickets[probe].lease /\ new.tickets[probe].active => new.tickets[probe].lease
<1> DEFINE k == probe
<1>1. /\ k \in Keys /\ k \notin sessions /\ Tables(adm, committed, disk) /\ Rest(adm)
      /\ Saved(adm, committed) /\ TicketOK(adm.tickets[k]) /\ Doomed(committed, k)
  BY TablesTickets DEF IInv, Control, CleanUp, Tables
<1>2. adm.tickets[k].state # "none" /\ committed.tickets[k].state # "none"
  BY <1>1 DEF TicketOK, NoTicket, Saved, SameTicket
<1>3. Fits(committed, k, adm.tickets[k])
  BY <1>1, FitsAsItWas
<1>4. CASE adm.tickets[k].active /\ adm.tickets[k].cancel
  <2>1. a = Route(ReleaseTicket(adm, k))
    BY <1>4
  <2>2. Ended(adm, a, k)
    BY <1>1, <1>4, <2>1, CleanedMakes
  <2>3. /\ Rest(new) /\ new.tombs = a.tombs
        /\ \A j \in Keys : j # k => new.tickets[j] = a.tickets[j]
        /\ new.tickets[k].state = a.tickets[k].state
        /\ new.tickets[k].active = a.tickets[k].active
    BY <1>1, <2>2, ForgetMakes DEF Ended
  <2>4. Later(adm, new, Keys \ {k})
    BY <2>2, <2>3 DEF Ended, Later
  <2>5. Fits(committed, k, new.tickets[k])
    BY <1>1, <1>2, <2>2, <2>3 DEF Fits, Ended
  <2> QED BY <2>2, <2>3, <2>4, <2>5 DEF Ended
<1>5. CASE ~(adm.tickets[k].active /\ adm.tickets[k].cancel)
  <2>1. a = adm
    BY <1>5
  <2>2. /\ Rest(new) /\ new.tombs = adm.tombs
        /\ \A j \in Keys : j # k => new.tickets[j] = adm.tickets[j]
        /\ new.tickets[k].state = adm.tickets[k].state
        /\ new.tickets[k].active = adm.tickets[k].active
        /\ new.tickets[k].lease = adm.tickets[k].lease
        /\ new.tickets[k].cancel = adm.tickets[k].cancel
    BY <1>1, <1>2, <1>5, <2>1, ForgetMakes
  <2>3. Later(adm, new, Keys \ {k})
    BY <2>2 DEF Later, Ages
  <2>4. Fits(committed, k, new.tickets[k])
    BY <1>1, <1>3, <2>2 DEF Fits
  <2> QED BY <2>2, <2>3, <2>4
<1> QED BY <1>4, <1>5

LEMMA CleanupReleaseStep ==
  ASSUME IInv, CleanupRelease
  PROVE  IInv' /\ EndOnce
<1> DEFINE s == Section(adm, committed, disk)
<1>1. /\ Tables(adm, committed, disk) /\ sessions \subseteq Keys /\ probe \in Keys
      /\ Control /\ CleanUp(committed)
  BY DEF IInv, Control, CleanupRelease
<1>2. /\ probe # None /\ probe' = None
      /\ UNCHANGED <<daemon, handler, roots, client, hosts, sessions, terminal, notes,
                     missed, deleted>>
  BY DEF CleanupRelease
<1>3. SectionOK(s) /\ s.adm = adm /\ s.committed = committed
  BY <1>1, SectionAsItIs
<1>4. ASSUME faults' \in 0..MaxFaults PROVE Control' /\ Calm /\ Quiet
  <2>1. (\A root \in roots : root.key # None) /\ None \notin sessions
    BY <1>1, DaemonAssumption DEF Control, Copies
  <2>2. Control'
    BY <1>1, <1>2, <1>4, <2>1 DEF Control, Caller
  <2> QED BY <1>2, <2>2 DEF Calm, Quiet
<1>5. CASE ~adm.tickets[probe].meas
  <2>1. NoFault /\ UNCHANGED <<adm, committed, disk>>
    BY <1>5 DEF CleanupRelease
  <2>2. Progress(Keys)
    BY <1>1, <2>1, StillProgress
  <2>3. faults' \in 0..MaxFaults
    BY <1>1, <2>1, FaultTyped
  <2> QED BY <1>4, <2>2, <2>3, QuietStep
<1>6. CASE adm.tickets[probe].meas
  <2>1. PICK a \in IF adm.tickets[probe].active /\ adm.tickets[probe].cancel
                     THEN {Route(ReleaseTicket(adm, probe))} ELSE {adm} :
          \E new \in {[a EXCEPT !.tickets[probe].meas = FALSE]} :
            \/ CommitOK(new) /\ NoFault
            \/ CommitFails(s, new)
    BY <1>6 DEF CleanupRelease
  <2>2. PICK new : /\ new = [a EXCEPT !.tickets[probe].meas = FALSE]
                   /\ \/ CommitOK(new) /\ NoFault
                      \/ CommitFails(s, new)
    BY <2>1
  <2> HIDE DEF s
  <2>3. /\ Rest(new) /\ new.tombs = adm.tombs /\ Later(adm, new, Keys \ {probe})
        /\ Fits(committed, probe, new.tickets[probe])
        /\ ~adm.tickets[probe].active => ~new.tickets[probe].active
        /\ adm.tickets[probe].lease /\ new.tickets[probe].active => new.tickets[probe].lease
    BY <1>2, <1>6, <2>1, <2>2, CleanupMakes
  <2> DEFINE J == Keys \ {probe}
  <2>4. J \in SUBSET Keys /\ \A j \in Keys \ J : j = probe
    OBVIOUS
  <2>5. Later(s.adm, new, J) /\ \A j \in Keys \ J : Fits(s.committed, j, new.tickets[j])
    BY <1>3, <2>3, <2>4
  <2> HIDE DEF J
  <2>6. /\ CommitOK(new) => Progress(J) /\ Stored(new)
        /\ CommitFails(s, new) => Progress(Keys)
    BY <1>1, <1>3, <2>3, <2>4, <2>5, CommitProgress
  <2>7. faults' \in 0..MaxFaults
    BY <1>1, <2>2, FaultTyped DEF CommitFails
  <2>8. CASE CommitFails(s, new)
    BY <1>4, <2>6, <2>7, <2>8, QuietStep
  <2>9. CASE CommitOK(new)
    <3>1. Progress(J) /\ Stored(new)
      BY <2>6, <2>9
    <3>2. EndOnce
      BY <1>1, <2>3, <3>1, OneEndsOnce DEF J
    <3>3. Tables(adm, committed, disk)'
      BY <1>1, <1>4, <2>7, <3>1, CalmStands DEF Progress
    <3>4. \A j \in J : KeepsJob(committed.tickets[j], committed'.tickets[j])
      BY <2>4, <3>1, ProgressKeepsJobs
    <3>5. \A root \in roots : root.key \in J
      BY <1>1 DEF Control, Copies, J
    <3>6. CleanUp(committed)'
      BY <1>1, <1>2, <2>4, <3>4, <3>5, CleanUpStands
    <3> QED BY <1>4, <2>7, <3>2, <3>3, <3>6 DEF IInv
  <2> QED BY <2>2, <2>8, <2>9
<1> QED BY <1>5, <1>6

-----------------------------------------------------------------------------
(* The client's request.                                                   *)

(* The tables as they were under a changed control.                        *)
LEMMA StillStep ==
  ASSUME IInv, UNCHANGED <<adm, committed, disk, roots, probe, hosts, sessions>>, Control',
         Deletions(committed, disk)', RunsLeft(committed)'
  PROVE  IInv' /\ EndOnce
<1>1. Progress(Keys)
  BY StillProgress DEF IInv
<1>2. Working(committed)' /\ Working(disk)'
  BY DEF IInv, Tables, Working
<1>3. Tables(adm, committed, disk)'
  BY <1>1, <1>2, ControlStands DEF Progress
<1>4. CleanUp(committed)'
  BY DEF IInv, CleanUp, Doomed, Caller
<1> QED BY <1>1, <1>3, <1>4, ProgressEndsOnce DEF IInv

LEMMA RequestAdmissionStep ==
  ASSUME IInv, NEW k \in Keys, NEW t \in Threads, RequestAdmission(k, t)
  PROVE  IInv' /\ EndOnce
<1>0. /\ UNCHANGED <<adm, committed, disk, daemon, roots, probe, hosts, sessions,
                     terminal, notes, missed, deleted>>
      /\ daemon # "down" /\ client[k] \in {"idle", "asking"} /\ handler[t] = Idle
      /\ Tables(adm, committed, disk) /\ Control /\ Caller(k)
  BY DEF RequestAdmission, IInv
<1>1. CASE adm.tickets[k].state # "none"
  <2>1. Answer(k, adm.tickets[k].state) /\ UNCHANGED handler
    BY <1>1 DEF RequestAdmission
  <2>2. /\ client' \in [Keys -> {"idle", "asking", "queued", "holding", "working",
                                 "leaving", "deleting", "releasing", "gone"}]
        /\ \A j \in Keys : \/ client'[j] = client[j]
                           \/ client[j] = "asking" /\ client'[j] # "deleting"
        /\ \A j \in Keys : client[j] = "working" => client'[j] = "working"
        /\ faults' \in 0..MaxFaults
    BY <1>0, <2>1, AnswerQuiet
  <2>3. Progress(Keys)
    BY <1>0, StillProgress
  <2>4. Quiet /\ Control'
    BY <1>0, <2>1, <2>2 DEF Control, Quiet, Calm, Caller
  <2> QED BY <2>3, <2>4, QuietStep
<1>2. CASE adm.tickets[k].state = "none"
  <2>1. /\ handler' = [handler EXCEPT ![t] = [key |-> k, read |-> "unread"]]
        /\ client' = [client EXCEPT ![k] = "asking"]
        /\ Fault \/ NoFault
    BY <1>2 DEF RequestAdmission
  <2>2. /\ client' \in [Keys -> {"idle", "asking", "queued", "holding", "working",
                                 "leaving", "deleting", "releasing", "gone"}]
        /\ \A j \in Keys : client'[j] = IF j = k THEN "asking" ELSE client[j]
    BY <1>0, <2>1, ClientSteps
  <2>3. faults' \in 0..MaxFaults
    BY <1>0, <2>1, FaultTyped
  <2>4. /\ handler' \in [Threads -> [key : Keys \cup {None},
                                     read : {"unread", "no", "yes", "error"}]]
        /\ \A u \in Threads : handler'[u] = handler[u]
                              \/ (handler'[u].key = k /\ handler'[u].read = "unread")
    BY <1>0, <2>1 DEF Control
  <2>5. Control'
    BY <1>0, <2>2, <2>3, <2>4 DEF Control, Caller
  <2>6. Deletions(committed, disk)'
    <3>1. Deletions(committed, disk) /\ k \notin deleted
      BY <1>0 DEF Tables, Deletions
    <3> QED BY <1>0, <2>2, <2>4, <3>1 DEF Deletions, Settled
  <2>7. RunsLeft(committed)'
    <3>1. RunsLeft(committed)
      BY <1>0 DEF Tables
    <3> QED BY <1>0, <2>4, <3>1 DEF RunsLeft, RunLeft
  <2> QED BY <1>0, <2>5, <2>6, <2>7, StillStep
<1> QED BY <1>1, <1>2

LEMMA ReadTerminalStep ==
  ASSUME IInv, NEW t \in Threads, ReadTerminal(t)
  PROVE  IInv' /\ EndOnce
<1> DEFINE k == handler[t].key
<1>0. /\ UNCHANGED <<adm, committed, disk, daemon, roots, probe, client, hosts, sessions,
                     terminal, notes, missed, deleted>>
      /\ k # None /\ Tables(adm, committed, disk) /\ Control
  BY DEF ReadTerminal, IInv
<1>1. k \in Keys /\ daemon # "down"
  BY <1>0 DEF Control, Idle
<1>2. PICK v \in {"yes", "no", "error"} :
        /\ handler' = [handler EXCEPT ![t].read = v] /\ (Fault \/ NoFault)
        /\ v = "no" => RunOf[PartOf[k]] \notin terminal
  BY DEF ReadTerminal
<1>3. faults' \in 0..MaxFaults
  BY <1>0, <1>2, FaultTyped
<1>4. /\ handler' \in [Threads -> [key : Keys \cup {None},
                                   read : {"unread", "no", "yes", "error"}]]
      /\ \A u \in Threads : /\ handler'[u].key = handler[u].key
                            /\ u # t => handler'[u] = handler[u]
      /\ handler'[t].read = v
  BY <1>0, <1>2 DEF Control
<1>5. Control'
  BY <1>0, <1>1, <1>3, <1>4 DEF Control, Caller
<1>6. Deletions(committed, disk)'
  <2>1. Deletions(committed, disk)
    BY <1>0 DEF Tables
  <2> QED BY <1>0, <1>4, <2>1 DEF Deletions, Settled
<1>7. RunsLeft(committed)'
  <2>1. RunsLeft(committed)
    BY <1>0 DEF Tables
  <2> SUFFICES ASSUME NEW r \in terminal \ (notes \cup missed)
               PROVE  RunLeft(committed, r)'
    BY <1>0 DEF RunsLeft
  <2>2. RunLeft(committed, r) /\ r \in terminal
    BY <1>1, <2>1 DEF RunsLeft
  <2>3. ASSUME NEW u \in Threads, NEW j \in Keys, handler'[u].key = j, RunOf[PartOf[j]] = r,
               r \notin committed.tombs
        PROVE  handler'[u].read # "no"
    <3>1. CASE u = t
      BY <1>2, <1>4, <2>2, <2>3, <3>1
    <3>2. CASE u # t
      BY <1>4, <2>2, <2>3, <3>2 DEF RunLeft
    <3> QED BY <3>1, <3>2
  <2> QED BY <1>0, <2>2, <2>3 DEF RunLeft
<1> QED BY <1>0, <1>5, <1>6, <1>7, StillStep

(* The job's session is recorded.                                          *)
LEMMA TrackMakes ==
  ASSUME NEW a, Rest(a), NEW k \in Keys, a.tickets[k].active, a.tickets[k].state = "granted"
  PROVE  LET b == [a EXCEPT !.tickets[k].meas = TRUE] IN
         /\ Rest(b) /\ b.tombs = a.tombs /\ Later(a, b, Keys)
         /\ b.tickets[k].active /\ b.tickets[k].meas
<1> DEFINE t == [a.tickets[k] EXCEPT !.meas = TRUE]
           b == [a EXCEPT !.tickets[k].meas = TRUE]
<1>0. /\ a \in Memories /\ a.tickets \in [Keys -> Tickets] /\ a.tickets[k] \in Tickets
      /\ TicketOK(a.tickets[k]) /\ Balanced(a) /\ a.events = {}
  BY DEF Rest, Balanced, Memories, TicketsOK
<1>1. /\ t \in Tickets /\ t.state = a.tickets[k].state /\ t.active = a.tickets[k].active
      /\ t.lease = a.tickets[k].lease /\ t.cancel = a.tickets[k].cancel /\ t.meas
  BY <1>0 DEF Tickets
<1>2. b = [a EXCEPT !.tickets[k] = t]
  BY <1>0 DEF Memories
<1> HIDE DEF t, b
<1>3. Reworded(a, b, k, t)
  BY <1>0, <1>1, <1>2, RewordMakes
<1>4. /\ Balanced(b) /\ b.tombs = a.tombs /\ b.events = a.events
      /\ \A j \in Keys : b.tickets[j] = IF j = k THEN t ELSE a.tickets[j]
  <2>1. (t.active <=> a.tickets[k].active) /\ (t.lease <=> a.tickets[k].lease)
    BY <1>1
  <2>2. t \in Tickets
    BY <1>1
  <2> QED BY <1>0, <1>3, <2>1, <2>2, RewordBalances
<1>5. TicketOK(t) /\ Ages(a.tickets[k], t) /\ t.state # "none"
  BY <1>0, <1>1 DEF TicketOK, Ages
<1>6. TicketsOK(b)
  BY <1>4, <1>5 DEF Rest, TicketsOK
<1>7. Later(a, b, Keys)
  BY <1>4, <1>5 DEF Later, Ages
<1> QED BY <1>0, <1>1, <1>4, <1>6, <1>7 DEF Rest, b

LEMMA TrackProcessStep ==
  ASSUME IInv, NEW k \in Keys, TrackProcess(k)
  PROVE  IInv' /\ EndOnce
<1> DEFINE new == [adm EXCEPT !.tickets[k].meas = TRUE]
           s == Section(adm, committed, disk)
<1>0. /\ UNCHANGED <<daemon, handler, roots, probe, hosts, terminal, notes, missed, deleted>>
      /\ daemon # "down" /\ Caller(k) /\ client[k] = "holding"
      /\ Tables(adm, committed, disk) /\ Control /\ CleanUp(committed)
      /\ Rest(adm) /\ sessions \subseteq Keys
  BY DEF TrackProcess, IInv, Tables, Control
<1>1. CASE ~adm.tickets[k].active \/ adm.tickets[k].state # "granted"
  <2>1. /\ client' = [client EXCEPT ![k] = "releasing"]
        /\ NoFault /\ UNCHANGED <<adm, committed, disk, sessions>>
    BY <1>1 DEF TrackProcess
  <2>2. /\ client' \in [Keys -> {"idle", "asking", "queued", "holding", "working",
                                 "leaving", "deleting", "releasing", "gone"}]
        /\ \A j \in Keys : client'[j] = IF j = k THEN "releasing" ELSE client[j]
    BY <1>0, <2>1, ClientSteps
  <2>3. faults' \in 0..MaxFaults
    BY <1>0, <2>1, FaultTyped
  <2>4. Progress(Keys)
    BY <1>0, <2>1, StillProgress
  <2>5. Quiet /\ Control'
    BY <1>0, <2>1, <2>2, <2>3 DEF Control, Quiet, Calm, Caller
  <2> QED BY <2>4, <2>5, QuietStep
<1>2. CASE adm.tickets[k].active /\ adm.tickets[k].state = "granted"
  <2>1. \/ /\ CommitOK(new) /\ NoFault
           /\ client' = [client EXCEPT ![k] = "working"]
           /\ sessions' = sessions \cup {k}
        \/ CommitOK(new) /\ Fault /\ UNCHANGED <<client, sessions>>
        \/ CommitFails(s, new) /\ UNCHANGED <<client, sessions>>
    BY <1>2 DEF TrackProcess
  <2>2. /\ Rest(new) /\ new.tombs = adm.tombs /\ Later(adm, new, Keys)
        /\ new.tickets[k].active /\ new.tickets[k].meas
    BY <1>0, <1>2, TrackMakes
  <2>3. SectionOK(s) /\ s.adm = adm
    BY <1>0, SectionAsItIs
  <2> HIDE DEF s, new
  <2>4. /\ CommitOK(new) => Progress(Keys) /\ Stored(new)
        /\ CommitFails(s, new) => Progress(Keys)
    BY <1>0, <2>2, <2>3, CommitProgress
  <2>5. Progress(Keys) /\ faults' \in 0..MaxFaults
    BY <1>0, <2>1, <2>4, FaultTyped DEF CommitFails
  <2>6. CASE UNCHANGED <<client, sessions>>
    <3>1. Quiet /\ Control'
      BY <1>0, <2>5, <2>6 DEF Control, Quiet, Calm, Caller
    <3> QED BY <2>5, <3>1, QuietStep
  <2>7. CASE /\ CommitOK(new) /\ client' = [client EXCEPT ![k] = "working"]
             /\ sessions' = sessions \cup {k}
    <3>1. /\ client' \in [Keys -> {"idle", "asking", "queued", "holding", "working",
                                   "leaving", "deleting", "releasing", "gone"}]
          /\ \A j \in Keys : client'[j] = IF j = k THEN "working" ELSE client[j]
      BY <1>0, <2>7, ClientSteps
    <3>2. Stored(new) /\ Tables(adm', committed', disk')
      BY <2>4, <2>7 DEF Progress
    <3>3. adm'.tickets[k].active /\ adm'.tickets[k].meas
      BY <2>2, <3>2 DEF Stored, Later, Ages
    <3>4. Working(committed)' /\ Working(disk)'
      BY <2>7, <3>2, <3>3 DEF Stored, Tables, Working
    <3>5. Deletions(committed, disk)'
      <4>1. Deletions(committed', disk')
        BY <3>2 DEF Tables
      <4> QED BY <1>0, <3>1, <4>1 DEF Deletions, Settled
    <3>6. RunsLeft(committed)'
      BY <1>0, <3>2 DEF Tables, RunsLeft, RunLeft
    <3>7. Tables(adm, committed, disk)'
      BY <3>2, <3>4, <3>5, <3>6, ControlStands
    <3>8. probe # k
      <4>1. TicketOK(adm.tickets[k]) /\ Saved(adm, committed)
        BY <1>0, TablesTickets
      <4>2. ~committed.tickets[k].cancel /\ committed.tickets[k].active
        BY <1>2, <4>1 DEF TicketOK, Saved, SameTicket
      <4> QED BY <1>0, <4>2, DaemonAssumption DEF CleanUp, Doomed
    <3>9. Control'
      BY <1>0, <2>5, <2>7, <3>1, <3>8 DEF Control, Caller
    <3>10. CleanUp(committed)'
      <4>1. \A j \in Keys : KeepsJob(committed.tickets[j], committed'.tickets[j])
        BY <2>5, ProgressKeepsJobs
      <4>2. (\A root \in roots : root.key \in Keys) /\ (probe' # None => probe' \in Keys)
        BY <1>0 DEF Control, Copies
      <4> QED BY <1>0, <4>1, <4>2, CleanUpStands
    <3> QED BY <2>5, <3>7, <3>9, <3>10, ProgressEndsOnce DEF IInv
  <2> QED BY <2>1, <2>6, <2>7
<1> QED BY <1>1, <1>2

(* An unknown key gets a released ticket.                                  *)
Tombstone == [NoTicket EXCEPT !.state = "released"]

LEMMA TombstoneMakes ==
  ASSUME NEW a, Rest(a), NEW k \in Keys, a.tickets[k].state = "none"
  PROVE  LET b == [a EXCEPT !.tickets[k] = [NoTicket EXCEPT !.state = "released"]] IN
         /\ Rest(b) /\ b.tombs = a.tombs /\ Later(a, b, Keys \ {k})
         /\ b.tickets[k].state # "none" /\ ~b.tickets[k].active
<1> DEFINE b == [a EXCEPT !.tickets[k] = [NoTicket EXCEPT !.state = "released"]]
<1>0. /\ a \in Memories /\ TicketOK(a.tickets[k]) /\ Balanced(a) /\ a.events = {}
  BY DEF Rest, Balanced, TicketsOK
<1>1. /\ Tombstone \in Tickets /\ Tombstone.state = "released" /\ ~Tombstone.active
      /\ ~Tombstone.lease /\ ~Tombstone.cancel /\ ~Tombstone.meas
  BY DEF Tombstone, NoTicket, Tickets, TicketStates
<1>2. ~a.tickets[k].active
  BY <1>0 DEF TicketOK, NoTicket
<1>3. b = [a EXCEPT !.tickets[k] = Tombstone]
  BY DEF Tombstone
<1> HIDE DEF b
<1>4. Reworded(a, b, k, Tombstone)
  BY <1>0, <1>1, <1>3, RewordMakes
<1>5. /\ Balanced(b) /\ b.tombs = a.tombs /\ b.events = a.events
      /\ \A j \in Keys : b.tickets[j] = IF j = k THEN Tombstone ELSE a.tickets[j]
  <2>1. (Tombstone.active <=> a.tickets[k].active) /\ Tombstone \in Tickets
        /\ (Tombstone.active => (Tombstone.lease <=> a.tickets[k].lease))
    BY <1>1, <1>2
  <2> QED BY <1>0, <1>4, <2>1, RewordBalances
<1>6. TicketOK(Tombstone)
  BY <1>1 DEF TicketOK
<1>7. TicketsOK(b)
  BY <1>5, <1>6 DEF Rest, TicketsOK
<1>8. Later(a, b, Keys \ {k})
  BY <1>5 DEF Later, Ages
<1> QED BY <1>0, <1>1, <1>5, <1>7, <1>8 DEF Rest, b

LEMMA DeleteByKeyStep ==
  ASSUME IInv, NEW k \in Keys, DeleteByKey(k)
  PROVE  IInv' /\ EndOnce
<1> DEFINE new == [adm EXCEPT !.tickets[k] = [NoTicket EXCEPT !.state = "released"]]
           s == Section(adm, committed, disk)
<1>0. /\ UNCHANGED <<daemon, handler, roots, probe, hosts, sessions, terminal, notes,
                     missed, deleted>>
      /\ daemon # "down" /\ Caller(k) /\ client[k] = "leaving"
      /\ Tables(adm, committed, disk) /\ Control /\ CleanUp(committed)
      /\ Rest(adm) /\ sessions \subseteq Keys
  BY DEF DeleteByKey, IInv, Tables, Control
<1>1. k \notin deleted /\ k \notin sessions /\ Saved(adm, committed) /\ Deletions(committed, disk)
  BY <1>0 DEF Tables, Deletions, Control
<1>2. ASSUME client' = [client EXCEPT ![k] = "deleting"], faults' \in 0..MaxFaults
      PROVE  /\ Control'
             /\ \A j \in Keys : client'[j] = IF j = k THEN "deleting" ELSE client[j]
  <2>1. /\ client' \in [Keys -> {"idle", "asking", "queued", "holding", "working",
                                 "leaving", "deleting", "releasing", "gone"}]
        /\ \A j \in Keys : client'[j] = IF j = k THEN "deleting" ELSE client[j]
    BY <1>0, <1>2, ClientSteps
  <2> QED BY <1>0, <1>1, <1>2, <2>1 DEF Control, Caller
<1>3. CASE adm.tickets[k].state # "none"
  <2>1. /\ client' = [client EXCEPT ![k] = "deleting"]
        /\ NoFault /\ UNCHANGED <<adm, committed, disk>>
    BY <1>3 DEF DeleteByKey
  <2>2. faults' \in 0..MaxFaults
    BY <1>0, <2>1, FaultTyped
  <2>3. committed.tickets[k].state # "none"
    BY <1>1, <1>3 DEF Saved, SameTicket
  <2>4. Deletions(committed, disk)'
    BY <1>0, <1>1, <1>2, <2>1, <2>2, <2>3 DEF Deletions, Settled
  <2>5. RunsLeft(committed)'
    BY <1>0, <2>1 DEF Tables, RunsLeft, RunLeft
  <2> QED BY <1>0, <1>2, <2>1, <2>2, <2>4, <2>5, StillStep
<1>4. CASE adm.tickets[k].state = "none"
  <2>1. \/ CommitOK(new) /\ client' = [client EXCEPT ![k] = "deleting"] /\ NoFault
        \/ CommitFails(s, new) /\ UNCHANGED client
    BY <1>4 DEF DeleteByKey
  <2>2. /\ Rest(new) /\ new.tombs = adm.tombs /\ Later(adm, new, Keys \ {k})
        /\ new.tickets[k].state # "none" /\ ~new.tickets[k].active
    BY <1>0, <1>4, TombstoneMakes
  <2>3. SectionOK(s) /\ s.adm = adm /\ s.committed = committed
    BY <1>0, SectionAsItIs
  <2> HIDE DEF s, new
  <2>4. committed.tickets[k].state = "none" /\ ~committed.tickets[k].meas
        /\ ~adm.tickets[k].lease
    <3>1. TicketOK(committed.tickets[k]) /\ TicketOK(adm.tickets[k])
      BY <1>0, TablesTickets
    <3> QED BY <1>1, <1>4, <3>1 DEF Saved, SameTicket, TicketOK, NoTicket
  <2>5. Fits(committed, k, new.tickets[k])
    BY <1>0, <1>1, <2>2, <2>4 DEF Fits
  <2> DEFINE J == Keys \ {k}
  <2>6. J \in SUBSET Keys /\ \A j \in Keys \ J : j = k
    OBVIOUS
  <2>7. Later(s.adm, new, J) /\ \A j \in Keys \ J : Fits(s.committed, j, new.tickets[j])
    BY <2>2, <2>3, <2>5, <2>6
  <2> HIDE DEF J
  <2>8. /\ CommitOK(new) => Progress(J) /\ Stored(new)
        /\ CommitFails(s, new) => Progress(Keys)
    BY <1>0, <2>2, <2>3, <2>6, <2>7, CommitProgress
  <2>9. faults' \in 0..MaxFaults
    BY <1>0, <2>1, FaultTyped DEF CommitFails
  <2>10. CASE CommitFails(s, new) /\ UNCHANGED client
    <3>1. Quiet /\ Control'
      BY <1>0, <2>9, <2>10 DEF Control, Quiet, Calm, Caller
    <3> QED BY <2>8, <2>10, <3>1, QuietStep
  <2>11. CASE CommitOK(new) /\ client' = [client EXCEPT ![k] = "deleting"]
    <3>1. Progress(J) /\ Stored(new) /\ Tables(adm', committed', disk')
      BY <2>8, <2>11 DEF Progress
    <3>2. /\ Control'
          /\ \A j \in Keys : client'[j] = IF j = k THEN "deleting" ELSE client[j]
      BY <1>2, <2>9, <2>11
    <3>3. committed'.tickets[k].state # "none"
      BY <1>0, <2>2, <3>1 DEF Stored, Later, Spare
    <3>4. Working(committed)' /\ Working(disk)'
      BY <1>0, <3>1 DEF Tables, Working
    <3>5. Deletions(committed, disk)'
      <4>1. Deletions(committed', disk')
        BY <3>1 DEF Tables
      <4> QED BY <1>0, <1>1, <3>2, <3>3, <4>1 DEF Deletions, Settled
    <3>6. RunsLeft(committed)'
      BY <1>0, <3>1 DEF Tables, RunsLeft, RunLeft
    <3>7. Tables(adm, committed, disk)'
      BY <3>1, <3>4, <3>5, <3>6, ControlStands
    <3>8. CleanUp(committed)'
      <4>1. \A j \in J : KeepsJob(committed.tickets[j], committed'.tickets[j])
        BY <2>6, <3>1, ProgressKeepsJobs
      <4>2. \A j \in Keys : KeepsJob(committed.tickets[j], committed'.tickets[j])
        BY <2>4, <2>6, <4>1 DEF KeepsJob
      <4>3. (\A root \in roots : root.key \in Keys) /\ (probe' # None => probe' \in Keys)
        BY <1>0 DEF Control, Copies
      <4> QED BY <1>0, <4>2, <4>3, CleanUpStands
    <3>9. EndOnce
      BY <2>2, <3>1, OneEndsOnce DEF J
    <3> QED BY <3>2, <3>7, <3>8, <3>9 DEF IInv
  <2> QED BY <2>1, <2>10, <2>11
<1> QED BY <1>3, <1>4

LEMMA ReleaseAdmissionStep ==
  ASSUME IInv, NEW k \in Keys, ReleaseAdmission(k)
  PROVE  IInv' /\ EndOnce
<1> DEFINE done == /\ client' = [client EXCEPT ![k] = "gone"]
                   /\ deleted' = IF client[k] = "deleting" THEN deleted \cup {k} ELSE deleted
<1>0. /\ UNCHANGED <<daemon, handler, roots, probe, hosts, sessions, terminal, notes, missed>>
      /\ daemon # "down" /\ Caller(k) /\ client[k] \in {"deleting", "releasing"}
      /\ Tables(adm, committed, disk) /\ Control /\ CleanUp(committed) /\ sessions \subseteq Keys
  BY DEF ReleaseAdmission, IInv, Control
<1>1. k \notin sessions
  BY <1>0 DEF Control
<1>2. PICK s \in Sections :
          IF ~s.adm.tickets[k].active
            THEN Unsaved(s) /\ done /\ NoFault
          ELSE \E new \in {Released(s.adm, k)} :
               \/ CommitOK(new) /\ done /\ NoFault
               \/ CommitFails(s, new) /\ UNCHANGED <<client, deleted>>
  BY DEF ReleaseAdmission
<1>3. /\ SectionOK(s) /\ Tables(s.adm, s.committed, s.disk) /\ Saved(s.adm, s.committed)
      /\ Rest(s.adm) /\ TicketOK(s.adm.tickets[k]) /\ TicketOK(s.committed.tickets[k])
      /\ Later(committed, s.committed, Keys)
  <2>1. SectionOK(s)
    BY SectionHere
  <2>2. Tables(s.adm, s.committed, s.disk)
    BY <2>1 DEF SectionOK
  <2> QED BY <2>1, <2>2, TablesTickets DEF SectionOK, Tables
<1>4. ASSUME done, faults' \in 0..MaxFaults, Tables(adm', committed', disk'),
             ~committed'.tickets[k].active
      PROVE  Control' /\ Tables(adm, committed, disk)'
  <2>1. /\ client' \in [Keys -> {"idle", "asking", "queued", "holding", "working",
                                 "leaving", "deleting", "releasing", "gone"}]
        /\ \A j \in Keys : client'[j] = IF j = k THEN "gone" ELSE client[j]
    BY <1>0, <1>4, ClientSteps
  <2>2. Control'
    BY <1>0, <1>1, <1>4, <2>1 DEF Control, Caller
  <2>3. Working(committed)' /\ Working(disk)'
    BY <1>0, <1>4 DEF Tables, Working
  <2>4. Deletions(committed, disk)'
    <3>1. Deletions(committed', disk')
      BY <1>4 DEF Tables
    <3> QED BY <1>0, <1>4, <2>1, <3>1 DEF Deletions, Settled
  <2>5. RunsLeft(committed)'
    BY <1>0, <1>4 DEF Tables, RunsLeft, RunLeft
  <2> QED BY <1>4, <2>2, <2>3, <2>4, <2>5, ControlStands
<1>5. ASSUME \A j \in Keys : KeepsJob(committed.tickets[j], committed'.tickets[j])
      PROVE  CleanUp(committed)'
  <2>1. (\A root \in roots : root.key \in Keys) /\ (probe' # None => probe' \in Keys)
    BY <1>0 DEF Control, Copies
  <2> QED BY <1>0, <1>5, <2>1, CleanUpStands
<1>6. CASE ~s.adm.tickets[k].active
  <2>1. Unsaved(s) /\ done /\ NoFault
    BY <1>2, <1>6
  <2>2. Progress(Keys)
    BY <1>3, <2>1, UnsavedProgress
  <2>3. ~committed'.tickets[k].active
    BY <1>3, <1>6, <2>1 DEF Unsaved, Saved, SameTicket
  <2>4. faults' \in 0..MaxFaults
    BY <1>0, <2>1, FaultTyped
  <2>5. Control' /\ Tables(adm, committed, disk)'
    BY <1>4, <2>1, <2>2, <2>3, <2>4 DEF Progress
  <2>6. CleanUp(committed)'
    BY <1>5, <2>2, ProgressKeepsJobs
  <2> QED BY <2>2, <2>5, <2>6, ProgressEndsOnce DEF IInv
<1>7. CASE s.adm.tickets[k].active
  <2> DEFINE new == Released(s.adm, k)
  <2>1. \/ CommitOK(new) /\ done /\ NoFault
        \/ CommitFails(s, new) /\ UNCHANGED <<client, deleted>>
    BY <1>2, <1>7
  <2>2. Ended(s.adm, new, k)
    BY <1>3, <1>7, ReleasedMakes
  <2> HIDE DEF new
  <2>3. s.committed.tickets[k].state # "none"
    BY <1>3, <1>7 DEF TicketOK, NoTicket, Saved, SameTicket
  <2>4. Fits(s.committed, k, new.tickets[k])
    BY <1>1, <2>2, <2>3 DEF Fits, Ended
  <2> DEFINE J == Keys \ {k}
  <2>5. J \in SUBSET Keys /\ \A j \in Keys \ J : j = k
    OBVIOUS
  <2>6. /\ Rest(new) /\ new.tombs = s.adm.tombs /\ Later(s.adm, new, J)
        /\ \A j \in Keys \ J : Fits(s.committed, j, new.tickets[j])
    BY <2>2, <2>4, <2>5 DEF Ended
  <2> HIDE DEF J
  <2>7. /\ CommitOK(new) => Progress(J) /\ Stored(new)
        /\ CommitFails(s, new) => Progress(Keys)
    BY <1>0, <1>3, <2>5, <2>6, CommitProgress
  <2>8. faults' \in 0..MaxFaults
    BY <1>0, <2>1, FaultTyped DEF CommitFails
  <2>9. CASE CommitFails(s, new) /\ UNCHANGED <<client, deleted>>
    <3>1. Quiet /\ Control'
      BY <1>0, <2>8, <2>9 DEF Control, Quiet, Calm, Caller
    <3> QED BY <2>7, <2>9, <3>1, QuietStep
  <2>10. CASE CommitOK(new) /\ done
    <3>1. Progress(J) /\ Stored(new) /\ Tables(adm', committed', disk')
      BY <2>7, <2>10 DEF Progress
    <3>2. /\ Ages(new.tickets[k], committed'.tickets[k]) /\ TicketOK(committed'.tickets[k])
      BY <3>1, TablesTickets DEF Stored, Later
    <3>3. ~committed'.tickets[k].active
      BY <2>2, <3>2 DEF Ended, Ages
    <3>4. Control' /\ Tables(adm, committed, disk)'
      BY <1>4, <2>8, <2>10, <3>1, <3>3
    <3>5. KeepsJob(committed.tickets[k], committed'.tickets[k])
      <4>1. KeepsJob(committed.tickets[k], s.committed.tickets[k])
        BY <1>3, LaterKeepsJob DEF Later
      <4>2. KeepsJob(s.committed.tickets[k], new.tickets[k])
        BY <1>3, <2>2 DEF KeepsJob, Ended, Saved, SameTicket
      <4>3. KeepsJob(new.tickets[k], committed'.tickets[k])
        BY <3>2, LaterKeepsJob
      <4> QED BY <4>1, <4>2, <4>3 DEF KeepsJob
    <3>6. \A j \in J : KeepsJob(committed.tickets[j], committed'.tickets[j])
      BY <2>5, <3>1, ProgressKeepsJobs
    <3>7. CleanUp(committed)'
      BY <1>5, <2>5, <3>5, <3>6
    <3>8. EndOnce
      BY <2>2, <3>1, OneEndsOnce DEF J, Ended
    <3> QED BY <3>4, <3>7, <3>8 DEF IInv
  <2> QED BY <2>1, <2>9, <2>10
<1> QED BY <1>6, <1>7

LEMMA AdmitStep ==
  ASSUME IInv, NEW t \in Threads, Admit(t)
  PROVE  IInv' /\ EndOnce
<1> DEFINE k == handler[t].key
           read == handler[t].read
<1>0. /\ UNCHANGED <<daemon, roots, probe, hosts, sessions, terminal, notes, missed, deleted>>
      /\ handler' = [handler EXCEPT ![t] = Idle]
      /\ daemon # "down" /\ k # None /\ read # "unread"
      /\ Tables(adm, committed, disk) /\ Control /\ CleanUp(committed) /\ sessions \subseteq Keys
  BY DEF Admit, IInv, Control
<1>1. k \in Keys /\ read \in {"no", "yes", "error"}
  BY <1>0 DEF Control
<1>2. PICK s \in Sections :
       IF s.adm.tickets[k].state # "none"
         THEN Unsaved(s) /\ Answer(k, s.adm.tickets[k].state)
       ELSE IF ~Caller(k) \/ daemon = "draining"
         THEN Unsaved(s) /\ UNCHANGED client /\ NoFault
       ELSE \E new \in Decisions(s.adm, k, read) :
            \/ CommitOK(new) /\ Answer(k, new.tickets[k].state)
            \/ CommitFails(s, new) /\ UNCHANGED client
  BY DEF Admit
<1>3. /\ SectionOK(s) /\ Tables(s.adm, s.committed, s.disk) /\ Saved(s.adm, s.committed)
      /\ Rest(s.adm) /\ TicketOK(s.committed.tickets[k]) /\ s.adm.tombs = s.committed.tombs
      /\ Later(committed, s.committed, Keys) /\ Later(adm, s.adm, Keys)
      /\ TicketOK(adm.tickets[k])
  <2>1. SectionOK(s)
    BY SectionHere
  <2>2. Tables(s.adm, s.committed, s.disk)
    BY <2>1 DEF SectionOK
  <2> QED BY <1>0, <1>1, <2>1, <2>2, TablesTickets DEF SectionOK, Tables
<1>4. /\ handler' \in [Threads -> [key : Keys \cup {None},
                                   read : {"unread", "no", "yes", "error"}]]
      /\ \A u \in Threads : handler'[u] = handler[u] \/ handler'[u].key \notin Keys
  BY <1>0, DaemonAssumption DEF Control, Idle
<1>5. ASSUME (\E state : Answer(k, state)) \/ (UNCHANGED client /\ (Fault \/ NoFault))
      PROVE  Quiet /\ Calm /\ Control'
  <2>1. /\ client' \in [Keys -> {"idle", "asking", "queued", "holding", "working",
                                 "leaving", "deleting", "releasing", "gone"}]
        /\ \A j \in Keys : \/ client'[j] = client[j]
                           \/ client[j] = "asking" /\ client'[j] # "deleting"
        /\ \A j \in Keys : client[j] = "working" => client'[j] = "working"
        /\ faults' \in 0..MaxFaults
    <3>1. CASE \E state : Answer(k, state)
      BY <1>0, <1>1, <3>1, AnswerQuiet
    <3>2. CASE UNCHANGED client /\ (Fault \/ NoFault)
      <4>1. faults' \in 0..MaxFaults
        BY <1>0, <3>2, FaultTyped
      <4> QED BY <1>0, <3>2, <4>1 DEF Control
    <3> QED BY <1>5, <3>1, <3>2
  <2>2. Control'
    BY <1>0, <1>4, <2>1 DEF Control, Caller
  <2> QED BY <1>0, <1>4, <2>1, <2>2 DEF Quiet, Calm
<1>6. CASE s.adm.tickets[k].state # "none"
  <2>1. Unsaved(s) /\ \E state : Answer(k, state)
    BY <1>2, <1>6
  <2>2. Progress(Keys)
    BY <1>3, <2>1, UnsavedProgress
  <2> QED BY <1>5, <2>1, <2>2, QuietStep
<1>7. CASE s.adm.tickets[k].state = "none" /\ (~Caller(k) \/ daemon = "draining")
  <2>1. Unsaved(s) /\ UNCHANGED client /\ NoFault
    BY <1>2, <1>7
  <2>2. Progress(Keys)
    BY <1>3, <2>1, UnsavedProgress
  <2> QED BY <1>5, <2>1, <2>2, QuietStep
<1>8. CASE s.adm.tickets[k].state = "none" /\ ~(~Caller(k) \/ daemon = "draining")
  <2>1. PICK new \in Decisions(s.adm, k, read) :
            \/ CommitOK(new) /\ Answer(k, new.tickets[k].state)
            \/ CommitFails(s, new) /\ UNCHANGED client
    BY <1>2, <1>8
  <2>2. /\ Decided(s.adm, new, k)
        /\ new.tickets[k].active => /\ read \notin {"yes", "error"}
                                    /\ RunOf[PartOf[k]] \notin s.adm.tombs
    BY <1>1, <1>3, <1>8, DecisionsMake
  <2>3. /\ s.committed.tickets[k].state = "none" /\ ~s.committed.tickets[k].active
        /\ ~s.committed.tickets[k].meas
    BY <1>1, <1>3, <1>8 DEF Saved, SameTicket, TicketOK, NoTicket
  <2>4. k \notin sessions /\ client[k] # "deleting" /\ k \notin deleted
    BY <1>1, <1>3, <2>3 DEF Tables, Working, Deletions, Settled
  <2>5. new.tickets[k].active => RunOf[PartOf[k]] \notin terminal \ (notes \cup missed)
    <3> SUFFICES ASSUME new.tickets[k].active, RunOf[PartOf[k]] \in terminal \ (notes \cup missed)
                 PROVE  FALSE
      OBVIOUS
    <3>1. RunLeft(s.committed, RunOf[PartOf[k]])
      BY <1>0, <1>3 DEF Tables, RunsLeft
    <3>2. read = "no" /\ RunOf[PartOf[k]] \notin s.committed.tombs
      BY <1>1, <1>3, <2>2
    <3> QED BY <1>1, <3>1, <3>2 DEF RunLeft
  <2>6. Fits(s.committed, k, new.tickets[k])
    BY <2>3, <2>4, <2>5 DEF Fits
  <2> DEFINE J == Keys \ {k}
  <2>7. J \in SUBSET Keys /\ \A j \in Keys \ J : j = k
    OBVIOUS
  <2>8. /\ Rest(new) /\ new.tombs = s.adm.tombs /\ Later(s.adm, new, J)
        /\ \A j \in Keys \ J : Fits(s.committed, j, new.tickets[j])
    BY <2>2, <2>6, <2>7 DEF Decided
  <2> HIDE DEF J
  <2>9. /\ CommitOK(new) => Progress(J) /\ Stored(new)
        /\ CommitFails(s, new) => Progress(Keys)
    BY <1>0, <1>3, <2>7, <2>8, CommitProgress
  <2>10. CASE CommitFails(s, new) /\ UNCHANGED client
    BY <1>5, <2>9, <2>10, QuietStep DEF CommitFails
  <2>11. CASE CommitOK(new) /\ Answer(k, new.tickets[k].state)
    <3>1. Progress(J) /\ Stored(new) /\ Tables(adm', committed', disk')
      BY <2>9, <2>11 DEF Progress
    <3>2. Calm /\ Control' /\ Quiet
      BY <1>5, <2>11
    <3>3. Tables(adm, committed, disk)'
      BY <1>0, <3>1, <3>2, CalmStands
    <3>4. ~committed.tickets[k].meas
      BY <1>1, <1>3, <2>3 DEF Later, Ages
    <3>5. \A j \in J : KeepsJob(committed.tickets[j], committed'.tickets[j])
      BY <2>7, <3>1, ProgressKeepsJobs
    <3>6. \A j \in Keys : KeepsJob(committed.tickets[j], committed'.tickets[j])
      BY <2>7, <3>4, <3>5 DEF KeepsJob
    <3>7. CleanUp(committed)'
      <4>1. (\A root \in roots : root.key \in Keys) /\ (probe' # None => probe' \in Keys)
        BY <1>0 DEF Control, Copies
      <4> QED BY <1>0, <3>6, <4>1, CleanUpStands
    <3>8. adm.tickets[k].state = "none" /\ ~adm.tickets[k].lease
      <4>1. ~Spare(k)
        BY <1>1 DEF Spare
      <4>2. adm.tickets[k].state = "none"
        BY <1>1, <1>3, <1>8, <4>1 DEF Later
      <4> QED BY <1>3, <4>2 DEF TicketOK, NoTicket
    <3>9. EndOnce
      BY <1>1, <3>1, <3>8, OneEndsOnce DEF J
    <3> QED BY <3>2, <3>3, <3>7, <3>9 DEF IInv
  <2> QED BY <2>1, <2>10, <2>11
<1> QED BY <1>6, <1>7, <1>8

-----------------------------------------------------------------------------
(* The cancellation of a run.                                              *)

LEMMA TombMakes ==
  ASSUME NEW a, Rest(a), NEW R \in SUBSET Runs
  PROVE  LET b == [a EXCEPT !.tombs = @ \cup R] IN
         Rest(b) /\ b.tickets = a.tickets /\ b.tombs = a.tombs \cup R
<1> DEFINE b == [a EXCEPT !.tombs = @ \cup R]
<1>1. a \in Memories
  BY DEF Rest, Balanced
<1>2. /\ b \in Memories /\ b.tickets = a.tickets /\ b.tombs = a.tombs \cup R
      /\ b.leases = a.leases /\ b.waiters = a.waiters /\ b.events = a.events
      /\ b.superseded = a.superseded /\ b.roles = a.roles
  BY <1>1 DEF Memories
<1> HIDE DEF b
<1>3. Single(b) /\ TicketsOK(b)
  BY <1>2 DEF Rest, Balanced, Single, TicketsOK
<1>4. ASSUME NEW p \in Participants PROVE Standing(b, p)
  <2>1. Standing(a, p)
    BY DEF Rest, Balanced
  <2> QED BY <1>2, <2>1 DEF Standing
<1> QED BY <1>2, <1>3, <1>4 DEF Rest, Balanced, b

LEMMA CancelRunMakes ==
  ASSUME NEW a, Rest(a), NEW r \in Runs, NEW new \in CancelAdmissionRun(a, r)
  PROVE  /\ Rest(new) /\ new.tombs = a.tombs \cup {r} /\ Later(a, new, Keys)
         /\ \A k \in Keys : new.tickets[k].active /\ RunOf[PartOf[k]] = r => new.tickets[k].cancel
<1> DEFINE b == [a EXCEPT !.tombs = @ \cup {r}]
           ks == Targets(a, r)
<1>1. Rest(b) /\ b.tickets = a.tickets /\ b.tombs = a.tombs \cup {r}
  BY TombMakes
<1>2. new \in CancelEach(b, ks)
  BY DEF CancelAdmissionRun
<1> HIDE DEF b
<1>3. /\ ks \in SUBSET Keys /\ \A k \in ks : b.tickets[k].active
      /\ \A k \in Keys : a.tickets[k].active /\ RunOf[PartOf[k]] = r => k \in ks
  BY <1>1 DEF Targets
<1> HIDE DEF ks
<1>4. /\ Rest(new) /\ new.tombs = b.tombs /\ Later(b, new, Keys)
      /\ \A k \in ks : new.tickets[k].cancel
  BY <1>1, <1>2, <1>3, CancelledLater DEF Rest
<1>5. Later(a, new, Keys)
  BY <1>1, <1>4 DEF Later
<1> QED BY <1>1, <1>3, <1>4, <1>5 DEF Later, Ages

(* The result saved, the run has left.                                     *)
LEMMA SavedRunLeft ==
  ASSUME NEW new, NEW r, Stored(new), Tables(adm', committed', disk'), r \in new.tombs,
         \A k \in Keys : new.tickets[k].active /\ RunOf[PartOf[k]] = r => new.tickets[k].cancel
  PROVE  RunLeft(committed, r)'
<1>1. ASSUME NEW k \in Keys, committed'.tickets[k].active, RunOf[PartOf[k]] = r
      PROVE  committed'.tickets[k].cancel
  <2>1. Ages(new.tickets[k], committed'.tickets[k]) /\ TicketOK(committed'.tickets[k])
    BY TablesTickets DEF Stored, Later
  <2> QED BY <1>1, <2>1 DEF Ages, TicketOK, NoTicket
<1> QED BY <1>1 DEF RunLeft, Stored

LEMMA CancelledRunStep ==
  ASSUME IInv, NEW r \in Runs, NEW s, SectionOK(s), NEW new \in CancelAdmissionRun(s.adm, r),
         UNCHANGED <<daemon, handler, roots, probe, client, hosts, sessions, terminal, deleted>>,
         notes' \subseteq notes,
         \/ /\ CommitOK(new) /\ NoFault /\ missed' \subseteq missed
            /\ notes \cup missed \subseteq notes' \cup missed' \cup {r}
         \/ /\ CommitFails(s, new) /\ missed' \in {missed, missed \cup {r}}
            /\ r \in terminal /\ notes \cup missed \subseteq notes' \cup missed'
  PROVE  IInv' /\ EndOnce
<1>0. Control /\ sessions \subseteq Keys /\ Rest(s.adm)
  BY DEF IInv, Control, SectionOK, Tables
<1>1. /\ Rest(new) /\ new.tombs = s.adm.tombs \cup {r} /\ Later(s.adm, new, Keys)
      /\ \A k \in Keys : new.tickets[k].active /\ RunOf[PartOf[k]] = r => new.tickets[k].cancel
  BY <1>0, CancelRunMakes
<1>2. /\ CommitOK(new) => Progress(Keys) /\ Stored(new)
      /\ CommitFails(s, new) => Progress(Keys)
  BY <1>0, <1>1, CommitProgress
<1>3. faults' \in 0..MaxFaults
  BY <1>0, FaultTyped DEF CommitFails
<1>4. Control'
  BY <1>0, <1>3 DEF Control, Caller
<1>5. CASE CommitFails(s, new) /\ notes \cup missed \subseteq notes' \cup missed'
  <2>1. Quiet
    BY <1>5 DEF Quiet, Calm
  <2> QED BY <1>2, <1>4, <1>5, <2>1, QuietStep
<1>6. CASE CommitOK(new) /\ notes \cup missed \subseteq notes' \cup missed' \cup {r}
  <2>1. Progress(Keys) /\ Stored(new) /\ Tables(adm', committed', disk')
    BY <1>2, <1>6 DEF Progress
  <2>2. Working(committed)' /\ Working(disk)'
    BY <2>1 DEF Tables, Working
  <2>3. Deletions(committed, disk)'
    BY <2>1 DEF Tables, Deletions, Settled
  <2>4. RunsLeft(committed)'
    <3> SUFFICES ASSUME daemon' # "down", NEW q \in terminal' \ (notes' \cup missed')
                 PROVE  RunLeft(committed, q)'
      BY DEF RunsLeft
    <3>1. CASE q = r
      BY <1>1, <2>1, <3>1, SavedRunLeft
    <3>2. CASE q # r
      <4>1. RunLeft(committed', q)
        BY <1>6, <2>1, <3>2 DEF Tables, RunsLeft
      <4> QED BY <4>1 DEF RunLeft
    <3> QED BY <3>1, <3>2
  <2>5. Tables(adm, committed, disk)'
    BY <2>1, <2>2, <2>3, <2>4, ControlStands
  <2>6. CleanUp(committed)'
    <3>1. \A j \in Keys : KeepsJob(committed.tickets[j], committed'.tickets[j])
      BY <2>1, ProgressKeepsJobs
    <3>2. (\A root \in roots : root.key \in Keys) /\ (probe' # None => probe' \in Keys)
      BY <1>0 DEF Control, Copies
    <3> QED BY <1>0, <3>1, <3>2, CleanUpStands DEF IInv
  <2> QED BY <1>4, <2>1, <2>5, <2>6, ProgressEndsOnce DEF IInv
<1> QED BY <1>5, <1>6

LEMMA CancelCommittedRunStep ==
  ASSUME IInv, NEW r \in Runs, CancelCommittedRun(r)
  PROVE  IInv' /\ EndOnce
<1> DEFINE s == Section(adm, committed, disk)
<1>1. SectionOK(s) /\ s.adm = adm
  BY SectionAsItIs DEF IInv
<1>2. PICK new \in CancelAdmissionRun(adm, r) :
       \/ CommitOK(new) /\ NoFault /\ UNCHANGED missed
       \/ CommitFails(s, new) /\ missed' = missed \cup {r}
  BY DEF CancelCommittedRun
<1> HIDE DEF s
<1>3. /\ notes' = notes \ {r} /\ r \in terminal
      /\ UNCHANGED <<daemon, handler, roots, probe, client, hosts, sessions, terminal, deleted>>
  BY DEF CancelCommittedRun, IInv, Control
<1>4. new \in CancelAdmissionRun(s.adm, r)
  BY <1>1, <1>2
<1> QED BY <1>1, <1>2, <1>3, <1>4, CancelledRunStep

LEMMA CancelAdmissionHTTPStep ==
  ASSUME IInv, NEW r \in Runs, CancelAdmissionHTTP(r)
  PROVE  IInv' /\ EndOnce
<1>1. PICK s \in Sections : \E new \in CancelAdmissionRun(s.adm, r) :
            \/ CommitOK(new) /\ NoFault /\ missed' = missed \ {r}
            \/ CommitFails(s, new) /\ UNCHANGED missed
  BY DEF CancelAdmissionHTTP
<1>2. PICK new \in CancelAdmissionRun(s.adm, r) :
            \/ CommitOK(new) /\ NoFault /\ missed' = missed \ {r}
            \/ CommitFails(s, new) /\ UNCHANGED missed
  BY <1>1
<1>3. SectionOK(s)
  BY SectionHere
<1>4. /\ r \in terminal
      /\ UNCHANGED <<daemon, handler, roots, probe, client, hosts, sessions, terminal,
                     notes, deleted>>
  BY DEF CancelAdmissionHTTP
<1> QED BY <1>2, <1>3, <1>4, CancelledRunStep

-----------------------------------------------------------------------------
(* The daemon's own life.                                                  *)

(* What is on disk is as good a table as what is in memory, once the       *)
(* handlers are gone.                                                      *)
LEMMA DiskStands ==
  ASSUME Tables(adm, committed, disk), deleted \subseteq Keys
  PROVE  /\ Rest(Restored(disk)) /\ Sound(disk) /\ Saved(Restored(disk), disk)
         /\ Behind(disk, disk) /\ Working(disk)
         /\ \A k \in deleted : client[k] = "gone" /\ ~disk.tickets[k].active
<1>1. /\ Sound(disk) /\ Rest(Restored(disk)) /\ Working(disk) /\ Behind(committed, disk)
      /\ Deletions(committed, disk)
  BY DEF Tables, Sound
<1>2. Restored(disk).tickets = disk.tickets /\ Restored(disk).tombs = disk.tombs
  BY RestoredTickets
<1>3. Saved(Restored(disk), disk)
  BY <1>2 DEF Saved, SameTicket
<1>4. \A k \in Keys : TicketOK(disk.tickets[k])
  BY TablesTickets
<1> QED BY <1>1, <1>3, <1>4 DEF Behind, Deletions, Settled, TicketOK, NoTicket

LEMMA StopStep ==
  ASSUME IInv, Stop
  PROVE  IInv' /\ EndOnce
<1>0. /\ daemon' = "down" /\ adm' = Restored(disk) /\ committed' = disk /\ disk' = disk
      /\ handler' = [t \in Threads |-> Idle] /\ roots' = {} /\ probe' = None
      /\ notes' = {} /\ missed' = missed \cup notes
      /\ UNCHANGED <<client, hosts, sessions, terminal, deleted>>
      /\ Control /\ Tables(adm, committed, disk) /\ (Fault \/ NoFault)
      /\ deleted \subseteq Keys
  BY DEF Stop, IInv, Control
<1>1. /\ Rest(Restored(disk)) /\ Sound(disk) /\ Saved(Restored(disk), disk)
      /\ Behind(disk, disk) /\ Working(disk)
      /\ \A k \in deleted : client[k] = "gone" /\ ~disk.tickets[k].active
  BY <1>0, DiskStands
<1>2. \A t \in Threads : handler'[t] = Idle /\ handler'[t].key \notin Keys
  BY <1>0, DaemonAssumption DEF Idle
<1>3. Working(committed)' /\ Working(disk)'
  BY <1>0, <1>1 DEF Working
<1>4. Deletions(committed, disk)'
  BY <1>0, <1>1, <1>2 DEF Deletions, Settled
<1>5. RunsLeft(committed)'
  BY <1>0 DEF RunsLeft
<1>6. Tables(adm, committed, disk)'
  BY <1>0, <1>1, <1>3, <1>4, <1>5 DEF Tables
<1>7. faults' \in 0..MaxFaults
  BY <1>0, FaultTyped
<1>8. None \notin sessions
  BY <1>0, DaemonAssumption DEF Control
<1>9. handler' \in [Threads -> [key : Keys \cup {None},
                                read : {"unread", "no", "yes", "error"}]]
  BY <1>0 DEF Idle
<1>10. Control'
  BY <1>0, <1>2, <1>7, <1>8, <1>9 DEF Control, Caller
<1>11. CleanUp(committed)'
  BY <1>0 DEF CleanUp
<1>12. EndOnce
  BY <1>0 DEF EndOnce
<1> QED BY <1>6, <1>10, <1>11, <1>12 DEF IInv

(* What is restored, with the ended runs and the dead holders cancelled.   *)
LEMMA StartMakes ==
  ASSUME NEW a, Rest(a), NEW ended, ended = {k \in Keys : /\ a.tickets[k].active
                                                       /\ RunOf[PartOf[k]] \in terminal},
         NEW b \in CancelEach([a EXCEPT !.tombs = @ \cup {RunOf[PartOf[k]] : k \in ended}], ended),
         NEW seen, NEW new \in CancelEach(b, Due(b, seen))
  PROVE  /\ Rest(new) /\ a.tombs \subseteq new.tombs /\ Later(a, new, Keys)
         /\ \A k \in Keys : new.tickets[k].active /\ RunOf[PartOf[k]] \in terminal
                              => new.tickets[k].cancel
<1> DEFINE R == {RunOf[PartOf[k]] : k \in ended}
           e == [a EXCEPT !.tombs = @ \cup R]
           ks == Due(b, seen)
<1>1. R \in SUBSET Runs
  BY DaemonAssumption
<1>2. b \in CancelEach(e, ended) /\ new \in CancelEach(b, ks)
  OBVIOUS
<1> HIDE DEF R
<1>3. Rest(e) /\ e.tickets = a.tickets /\ e.tombs = a.tombs \cup R
  BY <1>1, TombMakes
<1> HIDE DEF e
<1>4. ended \in SUBSET Keys /\ \A k \in ended : e.tickets[k].active
  BY <1>3
<1>5. /\ Rest(b) /\ b.tombs = e.tombs /\ Later(e, b, Keys)
      /\ \A k \in ended : b.tickets[k].cancel
  BY <1>2, <1>3, <1>4, CancelledLater DEF Rest
<1>6. ks \in SUBSET Keys /\ \A k \in ks : b.tickets[k].active
  BY DEF Due
<1> HIDE DEF ks
<1>7. Rest(new) /\ new.tombs = b.tombs /\ Later(b, new, Keys)
  BY <1>2, <1>5, <1>6, CancelledLater DEF Rest
<1>8. Later(a, b, Keys)
  BY <1>3, <1>5 DEF Later
<1>9. Later(a, new, Keys)
  BY <1>7, <1>8, LaterStill
<1>10. ASSUME NEW k \in Keys, new.tickets[k].active, RunOf[PartOf[k]] \in terminal
       PROVE  new.tickets[k].cancel
  <2>1. b.tickets[k].active /\ a.tickets[k].active
    BY <1>7, <1>8, <1>10 DEF Later, Ages
  <2>2. b.tickets[k].cancel
    BY <1>5, <1>10, <2>1
  <2>3. TicketOK(new.tickets[k])
    BY <1>7 DEF Rest, TicketsOK
  <2> QED BY <1>7, <1>10, <2>2, <2>3 DEF Later, Ages, TicketOK, NoTicket
<1> QED BY <1>3, <1>5, <1>7, <1>9, <1>10

LEMMA StartStep ==
  ASSUME IInv, Start
  PROVE  IInv' /\ EndOnce
<1> DEFINE a == Restored(disk)
           ended == {k \in Keys : a.tickets[k].active /\ RunOf[PartOf[k]] \in terminal}
           s == Section(a, disk, disk)
<1>0. /\ daemon = "down" /\ Control /\ Tables(adm, committed, disk) /\ sessions \subseteq Keys
      /\ deleted \subseteq Keys
      /\ UNCHANGED <<handler, roots, probe, client, hosts, sessions, terminal, notes, deleted>>
  BY DEF Start, IInv, Control
<1>1. PICK b \in CancelEach([a EXCEPT !.tombs = @ \cup {RunOf[PartOf[k]] : k \in ended}], ended) :
          \E seen \in SUBSET (Hosts \ hosts) :
            \E new \in CancelEach(b, Due(b, seen)) :
              \/ CommitOK(new) /\ NoFault /\ daemon' = "up" /\ missed' = {}
              \/ /\ CommitFails(s, new)
                 /\ UNCHANGED <<daemon, missed>>
  BY DEF Start
<1>2. PICK seen \in SUBSET (Hosts \ hosts) :
            \E new \in CancelEach(b, Due(b, seen)) :
              \/ CommitOK(new) /\ NoFault /\ daemon' = "up" /\ missed' = {}
              \/ /\ CommitFails(s, new)
                 /\ UNCHANGED <<daemon, missed>>
  BY <1>1
<1>3. PICK new \in CancelEach(b, Due(b, seen)) :
              \/ CommitOK(new) /\ NoFault /\ daemon' = "up" /\ missed' = {}
              \/ /\ CommitFails(s, new)
                 /\ UNCHANGED <<daemon, missed>>
  BY <1>2
<1>4. /\ Rest(a) /\ Sound(disk) /\ Saved(a, disk) /\ Behind(disk, disk) /\ Working(disk)
      /\ \A k \in deleted : client[k] = "gone" /\ ~disk.tickets[k].active
  BY <1>0, DiskStands
<1>5. /\ Rest(new) /\ a.tombs \subseteq new.tombs /\ Later(a, new, Keys)
      /\ \A k \in Keys : new.tickets[k].active /\ RunOf[PartOf[k]] \in terminal
                           => new.tickets[k].cancel
  BY <1>1, <1>3, <1>4, StartMakes
<1>6. s.committed = disk /\ s.disk = disk
  BY DEF Section
<1>7. a.tombs = disk.tombs
  BY RestoredTickets
<1> HIDE DEF a, s, ended
<1>8. \A t \in Threads : handler[t].key \notin Keys
  BY <1>0, DaemonAssumption DEF Control, Idle
<1>9. Tables(a, disk, disk)
  <2>1. Deletions(disk, disk)
    BY <1>0, <1>4, <1>8 DEF Deletions, Settled
  <2>2. RunsLeft(disk)
    BY <1>0 DEF RunsLeft
  <2> QED BY <1>4, <2>1, <2>2 DEF Tables
<1>10. \A k \in Keys : Fits(disk, k, new.tickets[k])
  BY <1>5, <1>9, LaterFits
<1>11. disk.tombs \subseteq new.tombs
  BY <1>5, <1>7
<1>12. /\ CommitOK(new) => Tables(adm', committed', disk') /\ Stored(new)
       /\ CommitFails(s, new) => Tables(adm', committed', disk')
  BY <1>0, <1>5, <1>6, <1>9, <1>10, <1>11, CommitStands
<1>13. Tables(adm', committed', disk') /\ faults' \in 0..MaxFaults
  BY <1>0, <1>3, <1>12, FaultTyped DEF CommitFails
<1>14. Control' /\ CleanUp(committed)' /\ EndOnce
  <2>1. Control'
    BY <1>0, <1>3, <1>13 DEF Control, Caller
  <2>2. CleanUp(committed)'
    BY <1>0 DEF CleanUp, Control
  <2>3. EndOnce
    BY <1>0 DEF EndOnce
  <2> QED BY <2>1, <2>2, <2>3
<1>15. CASE CommitFails(s, new) /\ UNCHANGED <<daemon, missed>>
  <2>1. Calm
    BY <1>0, <1>15 DEF Calm
  <2>2. Tables(adm, committed, disk)'
    BY <1>0, <1>13, <2>1, CalmStands
  <2> QED BY <1>14, <2>2 DEF IInv
<1>16. CASE CommitOK(new) /\ daemon' = "up" /\ missed' = {}
  <2>1. Working(committed)' /\ Working(disk)'
    BY <1>0, <1>13 DEF Tables, Working
  <2>2. Deletions(committed, disk)'
    BY <1>0, <1>13 DEF Tables, Deletions, Settled
  <2>3. RunsLeft(committed)'
    <3> SUFFICES ASSUME NEW r \in terminal PROVE RunLeft(committed, r)'
      BY <1>0 DEF RunsLeft
    <3>1. Stored(new)
      BY <1>12, <1>16
    <3>2. ASSUME NEW k \in Keys, committed'.tickets[k].active, RunOf[PartOf[k]] = r
          PROVE  committed'.tickets[k].cancel
      <4>1. Ages(new.tickets[k], committed'.tickets[k]) /\ TicketOK(committed'.tickets[k])
        BY <1>13, <3>1, TablesTickets DEF Stored, Later
      <4> QED BY <1>5, <3>2, <4>1 DEF Ages, TicketOK, NoTicket
    <3> QED BY <1>0, <1>8, <3>2 DEF RunLeft
  <2>4. Tables(adm, committed, disk)'
    BY <1>13, <2>1, <2>2, <2>3, ControlStands
  <2> QED BY <1>14, <2>4 DEF IInv
<1> QED BY <1>3, <1>15, <1>16

LEMMA InitSound ==
  ASSUME Init
  PROVE  IInv
<1>1. \A k \in Keys : Fresh.tickets[k] = NoTicket
  BY DEF Fresh
<1>2. NoTicket \in Tickets /\ TicketOK(NoTicket) /\ ~NoTicket.active /\ NoTicket.state = "none"
      /\ ~NoTicket.meas
  BY DEF NoTicket, Tickets, TicketStates, TicketOK
<1>3. Fresh \in Payloads /\ Fresh.tombs = {}
  BY <1>2 DEF Fresh, Payloads
<1> DEFINE a == Restored(Fresh)
<1>4. /\ a.tickets = Fresh.tickets /\ a.leases = {} /\ a.superseded = {} /\ a.waiters = {}
      /\ a.ahead = {} /\ a.tombs = {} /\ a.events = {}
      /\ a.roles = [p \in Participants |-> "absent"]
  BY <1>1, <1>2 DEF Restored, Fresh
<1>5. a \in Memories
  <2>1. a = [tickets |-> a.tickets, leases |-> a.leases, superseded |-> a.superseded,
             waiters |-> a.waiters, ahead |-> a.ahead, tombs |-> a.tombs, events |-> a.events,
             roles |-> a.roles]
    BY DEF Restored
  <2>2. a.tickets \in [Keys -> Tickets] /\ a.roles \in [Participants -> Roles]
    BY <1>2, <1>4 DEF Fresh, Roles
  <2> HIDE DEF a
  <2> QED BY <1>4, <2>1, <2>2 DEF Memories
<1> HIDE DEF a
<1>6. Single(a) /\ TicketsOK(a)
  BY <1>1, <1>2, <1>4 DEF Single, TicketsOK
<1>7. ASSUME NEW p \in Participants PROVE Standing(a, p)
  <2>1. a.roles[p] = "absent"
    BY <1>4
  <2> QED BY <1>1, <1>2, <1>4, <2>1 DEF Standing
<1>8. Rest(a) /\ Sound(Fresh) /\ Saved(a, Fresh) /\ Behind(Fresh, Fresh)
  BY <1>1, <1>2, <1>3, <1>4, <1>5, <1>6, <1>7
  DEF Rest, Balanced, Sound, Saved, SameTicket, Behind, a
<1>9. Tables(a, Fresh, Fresh)
  <2>1. Working(Fresh) /\ Deletions(Fresh, Fresh) /\ RunsLeft(Fresh)
    BY DEF Init, Working, Deletions, RunsLeft
  <2> QED BY <1>8, <2>1 DEF Tables
<1>10. Tables(adm, committed, disk)
  BY <1>9 DEF Init, a
<1>11. Control
  <2>1. Idle \in [key : Keys \cup {None}, read : {"unread", "no", "yes", "error"}]
    BY DEF Idle
  <2> HIDE DEF Idle
  <2> QED BY <2>1, DaemonAssumption DEF Init, Control
<1>12. CleanUp(committed)
  BY DEF Init, CleanUp
<1> QED BY <1>10, <1>11, <1>12 DEF IInv

-----------------------------------------------------------------------------
(* The theorems.                                                           *)

LEMMA NextSound ==
  ASSUME IInv, Next
  PROVE  IInv' /\ EndOnce
<1>1. CASE ReapAdmission
  BY <1>1, ReapAdmissionStep
<1>2. ASSUME NEW k \in Keys, NEW t \in Threads, RequestAdmission(k, t) PROVE IInv' /\ EndOnce
  BY <1>2, RequestAdmissionStep
<1>3. ASSUME NEW t \in Threads, ReadTerminal(t) PROVE IInv' /\ EndOnce
  BY <1>3, ReadTerminalStep
<1>4. ASSUME NEW t \in Threads, Admit(t) PROVE IInv' /\ EndOnce
  BY <1>4, AdmitStep
<1>5. ASSUME NEW k \in Keys, Poll(k) PROVE IInv' /\ EndOnce
  BY <1>5, PollStep
<1>6. ASSUME NEW k \in Keys, GiveUp(k) PROVE IInv' /\ EndOnce
  BY <1>6, GiveUpStep
<1>7. ASSUME NEW k \in Keys, DeleteByKey(k) PROVE IInv' /\ EndOnce
  BY <1>7, DeleteByKeyStep
<1>8. ASSUME NEW k \in Keys, ReleaseAdmission(k) PROVE IInv' /\ EndOnce
  BY <1>8, ReleaseAdmissionStep
<1>9. ASSUME NEW k \in Keys, ReleaseLost(k) PROVE IInv' /\ EndOnce
  BY <1>9, ReleaseLostStep
<1>10. ASSUME NEW k \in Keys, TrackProcess(k) PROVE IInv' /\ EndOnce
  BY <1>10, TrackProcessStep
<1>11. ASSUME NEW k \in Keys, Finish(k) PROVE IInv' /\ EndOnce
  BY <1>11, FinishStep
<1>12. ASSUME NEW k \in Keys, Watch(k) PROVE IInv' /\ EndOnce
  BY <1>12, WatchStep
<1>13. ASSUME NEW r \in Runs, SetPriority(r) PROVE IInv' /\ EndOnce
  BY <1>13, SetPriorityStep
<1>14. ASSUME NEW r \in Runs, CancelRun(r) PROVE IInv' /\ EndOnce
  BY <1>14, CancelRunStep
<1>15. ASSUME NEW r \in Runs, CancelCommittedRun(r) PROVE IInv' /\ EndOnce
  BY <1>15, CancelCommittedRunStep
<1>16. ASSUME NEW r \in Runs, CancelAdmissionHTTP(r) PROVE IInv' /\ EndOnce
  BY <1>16, CancelAdmissionHTTPStep
<1>17. CASE CleanupCopy
  BY <1>17, CleanupCopyStep
<1>18. CASE CleanupInspect
  BY <1>18, CleanupInspectStep
<1>19. CASE CleanupRelease
  BY <1>19, CleanupReleaseStep
<1>20. ASSUME NEW h \in Hosts, HostDies(h) PROVE IInv' /\ EndOnce
  BY <1>20, HostDiesStep
<1>21. ASSUME NEW k \in Keys, SessionEnds(k) PROVE IInv' /\ EndOnce
  BY <1>21, SessionEndsStep
<1>22. CASE BeginDrain
  BY <1>22, BeginDrainStep
<1>23. CASE Stop
  BY <1>23, StopStep
<1>24. CASE Start
  BY <1>24, StartStep
<1> QED
  BY <1>1, <1>2, <1>3, <1>4, <1>5, <1>6, <1>7, <1>8, <1>9, <1>10, <1>11, <1>12, <1>13,
     <1>14, <1>15, <1>16, <1>17, <1>18, <1>19, <1>20, <1>21, <1>22, <1>23, <1>24
  DEF Next

LEMMA StutterSound ==
  ASSUME IInv, UNCHANGED vars
  PROVE  IInv'
<1>1. UNCHANGED <<adm, committed, disk, daemon, handler, roots, probe, client, hosts,
                  sessions, terminal, notes, missed, deleted, faults>>
  BY DEF vars
<1>2. Progress(Keys)
  BY <1>1, StillProgress DEF IInv
<1>3. Quiet /\ Control'
  BY <1>1 DEF IInv, Control, Quiet, Calm, Caller
<1> QED BY <1>2, <1>3, QuietStep

(* DaemonSound: the books, the payload last saved and the payload on disk  *)
(* are sound whenever the mutex is free, whatever order the handlers, the  *)
(* liveness loop, the clean-up, the observer of cancellations, failed      *)
(* saves, crashes and restarts come in.                                    *)
THEOREM DaemonSound == Spec => []IInv
<1>1. Init => IInv
  BY InitSound
<1>2. IInv /\ [Next]_vars => IInv'
  BY NextSound, StutterSound
<1> QED BY <1>1, <1>2, PTL DEF Spec

(* DaemonTyped: every variable keeps its type, superseded holds are        *)
(* leases, and routeLocked leaves no ledger event behind.                  *)
THEOREM DaemonTyped == Spec => []TypeOK
<1>1. IInv => TypeOK
  <2> SUFFICES ASSUME IInv PROVE TypeOK
    OBVIOUS
  <2>1. Rest(adm) /\ Sound(committed) /\ Sound(disk) /\ Control
    BY DEF IInv, Tables
  <2>2. adm \in Memories /\ adm.events = {} /\ committed \in Payloads /\ disk \in Payloads
    BY <2>1 DEF Rest, Balanced, Sound
  <2>3. adm.superseded \subseteq adm.leases
    <3>1. \A p \in Participants : p \in adm.superseded => p \in adm.leases
      BY <2>1 DEF Rest, Balanced, Standing
    <3>2. adm.superseded \subseteq Participants
      BY <2>2 DEF Memories
    <3> QED BY <3>1, <3>2
  <2> QED BY <2>1, <2>2, <2>3 DEF Control, TypeOK
<1> QED BY <1>1, DaemonSound, PTL

(* BooksBalance: the leases and waiters of the ledger are exactly the      *)
(* identities for which one active ticket stands, and role and ticket say  *)
(* which, after every section, rollback and restart: no grant is left      *)
(* without a ticket whose release returns it.                              *)
THEOREM BooksBalance == Spec => []Books
<1>1. IInv => Books
  <2> SUFFICES ASSUME IInv, NEW p \in Participants
               PROVE  LET holds == p \in adm.leases
                          waits == p \in adm.waiters
                      IN /\ ~(holds /\ waits)
                         /\ Cardinality(Active(adm, p)) = IF holds \/ waits THEN 1 ELSE 0
                         /\ adm.roles[p] = (IF holds THEN "holder"
                                            ELSE IF waits THEN "waiter" ELSE "absent")
                         /\ \A k \in Active(adm, p) : adm.tickets[k].lease = holds
    BY DEF Books
  <2>1. /\ Standing(adm, p) /\ Single(adm) /\ adm.events = {} /\ adm \in Memories
    BY DEF IInv, Tables, Rest, Balanced
  <2>2. adm.roles[p] \in Roles /\ \A k \in Keys : adm.tickets[k].lease \in BOOLEAN
    BY <2>1 DEF Memories, Tickets
  <2>3. adm.roles[p] = (IF p \in adm.leases THEN "holder"
                        ELSE IF p \in adm.waiters THEN "waiter" ELSE "absent")
    BY <2>1, <2>2 DEF Standing, Roles
  <2>4. \A k \in Active(adm, p) : adm.tickets[k].lease = (p \in adm.leases)
    BY <2>1, <2>2, <2>3 DEF Standing, Active
  <2>5. Cardinality(Active(adm, p)) = IF p \in adm.leases \/ p \in adm.waiters THEN 1 ELSE 0
    <3>1. CASE p \in adm.leases \/ p \in adm.waiters
      <4>1. PICK k \in Keys : PartOf[k] = p /\ adm.tickets[k].active
        BY <2>1, <2>3, <3>1 DEF Standing
      <4>2. Active(adm, p) = {k}
        BY <2>1, <4>1 DEF Active, Single
      <4> QED BY <3>1, <4>2, FS_Singleton
    <3>2. CASE ~(p \in adm.leases \/ p \in adm.waiters)
      <4>1. Active(adm, p) = {}
        BY <2>1, <2>3, <3>2 DEF Standing, Active
      <4> QED BY <3>2, <4>1, FS_EmptySet
    <3> QED BY <3>1, <3>2
  <2> QED BY <2>1, <2>3, <2>4, <2>5 DEF Standing
<1> QED BY <1>1, DaemonSound, PTL

(* WorkKeepsCapacity: a job whose session lives keeps its lease, whatever  *)
(* becomes of its host, its run, the daemon or a save: the clean-up never  *)
(* releases the ticket of a session it has not seen ended.                 *)
THEOREM WorkKeepsCapacity == Spec => []WorkHoldsCapacity
<1>1. IInv => WorkHoldsCapacity
  <2> SUFFICES ASSUME IInv, NEW k \in sessions
               PROVE  adm.tickets[k].active /\ adm.tickets[k].meas /\ PartOf[k] \in adm.leases
    BY DEF WorkHoldsCapacity
  <2>1. k \in Keys /\ PartOf[k] \in Participants
    BY DaemonAssumption DEF IInv, Control
  <2>2. committed.tickets[k].active /\ committed.tickets[k].meas
    BY DEF IInv, Tables, Working
  <2>3. adm.tickets[k].active /\ adm.tickets[k].meas /\ TicketOK(adm.tickets[k])
    BY <2>1, <2>2, TablesTickets DEF IInv, Saved, SameTicket
  <2>4. Standing(adm, PartOf[k])
    BY <2>1 DEF IInv, Tables, Rest, Balanced
  <2> QED BY <2>1, <2>3, <2>4 DEF TicketOK, Standing
<1> QED BY <1>1, DaemonSound, PTL

(* CallersAreTold: a caller that believes it holds a lease does, or its    *)
(* ticket says otherwise and its watch will end the job.                   *)
THEOREM CallersAreTold == Spec => []GrantsAreTold
<1>1. IInv => GrantsAreTold
  <2> SUFFICES ASSUME IInv, NEW k \in Keys, adm.tickets[k].state = "granted"
               PROVE  adm.tickets[k].active /\ PartOf[k] \in adm.leases
    BY DEF GrantsAreTold
  <2>1. TicketOK(adm.tickets[k]) /\ PartOf[k] \in Participants
    BY TablesTickets, DaemonAssumption DEF IInv
  <2>2. Standing(adm, PartOf[k])
    BY <2>1 DEF IInv, Tables, Rest, Balanced
  <2> QED BY <2>1, <2>2 DEF TicketOK, Standing
<1> QED BY <1>1, DaemonSound, PTL

(* CancelledLeave: once the observer of a run's cancellation has run, no   *)
(* active ticket of the run says queued or granted, not even that of a     *)
(* request whose terminal check was made before the cancellation.          *)
THEOREM CancelledLeave == Spec => []CancelledRunsLeave
<1>1. IInv => CancelledRunsLeave
  <2> SUFFICES ASSUME IInv, daemon # "down", NEW k \in Keys, adm.tickets[k].active,
                      RunOf[PartOf[k]] \in terminal \ (notes \cup missed)
               PROVE  adm.tickets[k].state \in {"cancelled", "evicted"}
    BY DEF CancelledRunsLeave
  <2>1. TicketOK(adm.tickets[k]) /\ Saved(adm, committed)
    BY TablesTickets DEF IInv
  <2>2. RunLeft(committed, RunOf[PartOf[k]])
    BY DEF IInv, Tables, RunsLeft
  <2>3. adm.tickets[k].cancel
    BY <2>1, <2>2 DEF RunLeft, Saved, SameTicket
  <2> QED BY <2>1, <2>3 DEF TicketOK
<1> QED BY <1>1, DaemonSound, PTL

(* DeletedHoldNothing: a key whose delete was acknowledged holds nothing,  *)
(* though a request for it be under way, a save fail or the daemon restart. *)
THEOREM DeletedHoldNothing == Spec => []DeletedKeysHoldNothing
<1>1. IInv => DeletedKeysHoldNothing
  <2> SUFFICES ASSUME IInv, NEW k \in deleted PROVE ~adm.tickets[k].active
    BY DEF DeletedKeysHoldNothing
  <2>1. k \in Keys
    BY DEF IInv, Control
  <2>2. ~committed.tickets[k].active
    BY <2>1 DEF IInv, Tables, Deletions
  <2> QED BY <2>1, <2>2 DEF IInv, Tables, Saved, SameTicket
<1> QED BY <1>1, DaemonSound, PTL

(* EndsOnce: while the daemon runs, a ticket that ended stays ended and a  *)
(* granted one is never queued again, also when a failed save rolls the    *)
(* memory back.                                                            *)
THEOREM EndsOnce == Spec => TicketsEndOnce
<1>1. IInv /\ [Next]_vars =>
        [\A k \in Keys :
           daemon # "down" /\ daemon' # "down" =>
             /\ adm.tickets[k].state # "none" /\ ~adm.tickets[k].active
                => ~adm'.tickets[k].active
             /\ adm.tickets[k].lease /\ adm'.tickets[k].active => adm'.tickets[k].lease]_vars
  BY NextSound DEF EndOnce
<1> QED BY <1>1, DaemonSound, PTL DEF Spec, TicketsEndOnce
=============================================================================
