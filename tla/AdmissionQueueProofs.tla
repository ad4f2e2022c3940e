------------------------ MODULE AdmissionQueueProofs -------------------------
(***************************************************************************)
(* Who holds and who waits: the members of the leases are apart, the marks *)
(* on them are about runs that hold, the queue is in service order at the  *)
(* ranks operators recorded and names nobody twice and nobody who holds,   *)
(* and a run that depends on a lease is told when it ends.                 *)
(*                                                                         *)
(* Neither LeaseInvariants nor WaiterInvariants is inductive alone: a      *)
(* promoted waiter founds a lease, which is apart from the others only     *)
(* because nobody waits who holds; and a waiter stays outside the leases   *)
(* only because the one promoted before it had another id.                 *)
(*                                                                         *)
(* The second half is about mustHoldInvariants and Restore as a whole:     *)
(* what an operation can panic over at all, when a restart is accepted,    *)
(* and when no operation panics.  They rest on two facts about recursion:  *)
(* the scan of the queue depends only on the machine, the holdings and the *)
(* queue, and the parents a lease records lead to the run it was granted   *)
(* to or to its owner.                                                     *)
(***************************************************************************)
EXTENDS AdmissionHostProofs

PlaceInv == TypeInv /\ LeaseInvariants /\ WaiterInvariants

-----------------------------------------------------------------------------
(* Service order *)

(* The score of a waiter is a number. *)
LEMMA ScoreType ==
  ASSUME TypeOK, NEW w \in Waiter, NEW now \in Int
  PROVE  ClassScore(w, now) \in Int
<1>1. /\ policy.aging \in Nat /\ policy.weight \in [Classes -> Nat]
      /\ w.class \in Classes /\ w.admit \in Nat
  BY DEF TypeOK, Policy, Waiter
<1>2. policy.weight[w.class] \in Nat
  BY <1>1
<1>3. now - w.admit \in Int /\ 0 \in Int
  BY <1>1
<1>4. Max({0, now - w.admit}) \in {0, now - w.admit}
      /\ Max({0, now - w.admit}) >= 0
  BY <1>3, MaxOfTwo
<1>5. Max({0, now - w.admit}) \in Nat
  BY <1>3, <1>4
<1>6. policy.aging # 0 => Max({0, now - w.admit}) \div policy.aging \in Int
  BY <1>1, <1>5
<1> QED BY <1>2, <1>6 DEF ClassScore

(* Nobody outranks itself. *)
Irreflexive ==
  \A w \in Waiter : \A now \in Nat : ~Outranks(w, w, now)

LEMMA OutranksIrreflexive == TypeOK => Irreflexive
<1> SUFFICES ASSUME TypeOK, NEW w \in Waiter, NEW now \in Nat
             PROVE  ~Outranks(w, w, now)
  BY DEF Irreflexive
<1>1. ClassScore(w, now) \in Int
  BY ScoreType
<1>2. w.priority \in Int /\ w.admit \in Nat
  BY DEF Waiter
<1> QED BY <1>1, <1>2 DEF Outranks

(* The same of the state after a step. *)
LEMMA OutranksIrreflexiveNext == TypeOK' => Irreflexive'
BY OutranksIrreflexive, PTL

(* A delay does not change anybody's rank. *)
LEMMA DelayKeepsRank ==
  ASSUME NEW v, NEW w, NEW x, NEW y, NEW now,
         SameButDelay(v, x), SameButDelay(w, y)
  PROVE  Outranks(v, w, now) = Outranks(x, y, now)
BY DEF SameButDelay, Outranks, ClassScore

(* Without aging the order does not depend on the time. *)
LEMMA OrderWithoutAging ==
  ASSUME NEW queue, NEW a, NEW b, policy.aging = 0, IsOrdered(queue, a)
  PROVE  IsOrdered(queue, b)
BY DEF IsOrdered, Outranks, ClassScore

(* The order a step leaves, when the policy stays. *)
LEMMA OrderNext ==
  ASSUME policy' = policy, IsOrdered(waiters', admitSeq')
  PROVE  IsOrdered(waiters, admitSeq)'
BY DEF IsOrdered, Outranks, ClassScore

-----------------------------------------------------------------------------
(* The queue *)

(* Nobody is in the queue twice. *)
NobodyTwice(queue) ==
  \A i, j \in DOMAIN queue : queue[j].id = queue[i].id => j = i

(* Everybody waits at the rank recorded for it. *)
AtRecordedRank(w, ranks) ==
  w.priority = OverrideFor(ranks, w.id, w.owner, w.priority)

(* The part of WaiterInvariants that is about the queue alone. *)
GoodQueue(queue, ranks) ==
  /\ NobodyTwice(queue)
  /\ \A i \in DOMAIN queue : AtRecordedRank(queue[i], ranks)

(* Nobody waits who holds. *)
WaitersApart == \A i \in DOMAIN waiters : ~Holding(waiters[i].id)

(* WaiterInvariants has these parts. *)
LEMMA WaiterParts ==
  WaiterInvariants <=>
    IsOrdered(waiters, admitSeq) /\ GoodQueue(waiters, overrides) /\ WaitersApart
BY DEF WaiterInvariants, GoodQueue, NobodyTwice, AtRecordedRank, WaitersApart

(* The same of the state after a step. *)
LEMMA WaiterPartsNext ==
  IsOrdered(waiters, admitSeq)' /\ GoodQueue(waiters', overrides') /\ WaitersApart'
    => WaiterInvariants'
BY DEF WaiterInvariants, GoodQueue, NobodyTwice, AtRecordedRank, WaitersApart,
       OverrideFor

(* A queue sorted into order has the waiters it had, nobody twice: two     *)
(* places with one waiter would have it outrank itself.                    *)
LEMMA SortedQueue ==
  ASSUME TypeOK, NEW queue \in Seq(Waiter), NEW a \in Arrangements(queue),
         NEW now \in Nat, IsOrdered(a, now), NEW ranks, GoodQueue(queue, ranks)
  PROVE  GoodQueue(a, ranks)
<1>1. /\ a \in Seq(Waiter)
      /\ \A i \in DOMAIN a : \E j \in DOMAIN queue : a[i] = queue[j]
  BY ArrangementFacts
<1>2. ASSUME NEW i \in DOMAIN a, NEW j \in DOMAIN a, a[j].id = a[i].id
      PROVE  j = i
  <2>1. a[i] = a[j]
    BY <1>1, <1>2 DEF GoodQueue, NobodyTwice
  <2>2. i \in Int /\ j \in Int /\ a[i] \in Waiter
    BY <1>1
  <2>3. ~Outranks(a[i], a[i], now)
    BY <2>2, OutranksIrreflexive DEF Irreflexive
  <2>4. ~(i < j) /\ ~(j < i)
    BY <2>1, <2>3 DEF IsOrdered
  <2> QED BY <2>2, <2>4
<1>3. \A i \in DOMAIN a : AtRecordedRank(a[i], ranks)
  BY <1>1 DEF GoodQueue
<1> QED BY <1>2, <1>3 DEF GoodQueue, NobodyTwice

(* After the step the queue is `queue` without some of its waiters, in the *)
(* same order, and but for the delays they bore.                           *)
Thinned(queue) ==
  \E at \in [DOMAIN waiters' -> DOMAIN queue] :
    /\ \A i, j \in DOMAIN waiters' : i < j => at[i] < at[j]
    /\ \A i \in DOMAIN waiters' : SameButDelay(waiters'[i], queue[at[i]])

LEMMA ThinnedQueue ==
  ASSUME NEW queue \in Seq(Waiter), waiters' \in Seq(Waiter), Thinned(queue),
         NEW now, IsOrdered(queue, now), NEW ranks, GoodQueue(queue, ranks)
  PROVE  IsOrdered(waiters', now) /\ GoodQueue(waiters', ranks)
<1>1. PICK at \in [DOMAIN waiters' -> DOMAIN queue] :
        /\ \A i, j \in DOMAIN waiters' : i < j => at[i] < at[j]
        /\ \A i \in DOMAIN waiters' : SameButDelay(waiters'[i], queue[at[i]])
  BY DEF Thinned
<1>2. IsOrdered(waiters', now)
  <2> SUFFICES ASSUME NEW i \in DOMAIN waiters', NEW j \in DOMAIN waiters', i < j
               PROVE  Outranks(waiters'[i], waiters'[j], now)
    BY DEF IsOrdered
  <2>1. at[i] \in DOMAIN queue /\ at[j] \in DOMAIN queue /\ at[i] < at[j]
    BY <1>1
  <2>2. Outranks(queue[at[i]], queue[at[j]], now)
    BY <2>1 DEF IsOrdered
  <2>3. Outranks(waiters'[i], waiters'[j], now)
          = Outranks(queue[at[i]], queue[at[j]], now)
    BY <1>1, DelayKeepsRank
  <2> QED BY <2>2, <2>3
<1>3. NobodyTwice(waiters')
  <2> SUFFICES ASSUME NEW i \in DOMAIN waiters', NEW j \in DOMAIN waiters',
                      waiters'[j].id = waiters'[i].id
               PROVE  j = i
    BY DEF NobodyTwice
  <2>1. queue[at[j]].id = queue[at[i]].id
    BY <1>1 DEF SameButDelay
  <2>2. at[j] = at[i]
    BY <1>1, <2>1 DEF GoodQueue, NobodyTwice
  <2>3. i \in Int /\ j \in Int /\ at[i] \in Int
    BY <1>1
  <2>4. ~(at[i] < at[j]) /\ ~(at[j] < at[i])
    BY <2>2, <2>3
  <2>5. ~(i < j) /\ ~(j < i)
    BY <1>1, <2>4
  <2> QED BY <2>3, <2>5
<1>4. ASSUME NEW i \in DOMAIN waiters'
      PROVE  AtRecordedRank(waiters'[i], ranks)
  <2>1. AtRecordedRank(queue[at[i]], ranks)
    BY <1>1 DEF GoodQueue
  <2>2. SameButDelay(waiters'[i], queue[at[i]])
    BY <1>1
  <2> QED BY <2>1, <2>2 DEF AtRecordedRank, SameButDelay
<1> QED BY <1>2, <1>3, <1>4 DEF GoodQueue

(* Charging delays thins nothing. *)
LEMMA ChargedThins ==
  ASSUME NEW queue \in Seq(Waiter), NEW n, NEW s \in Waiter,
         waiters' = RecordBackfill(queue, n, s)
  PROVE  waiters' \in Seq(Waiter) /\ DOMAIN waiters' = DOMAIN queue /\ Thinned(queue)
<1>1. /\ waiters' \in Seq(Waiter) /\ DOMAIN waiters' = DOMAIN queue
      /\ \A i \in DOMAIN queue : SameButDelay(waiters'[i], queue[i])
  BY RecordBackfillFacts
<1> DEFINE at == [i \in DOMAIN queue |-> i]
<1>2. at \in [DOMAIN waiters' -> DOMAIN queue]
  BY <1>1
<1>3. /\ \A i, j \in DOMAIN waiters' : i < j => at[i] < at[j]
      /\ \A i \in DOMAIN waiters' : SameButDelay(waiters'[i], queue[at[i]])
  BY <1>1
<1> QED BY <1>1, <1>2, <1>3 DEF Thinned

(* Nor does leaving one out, charged or not, change the order of the rest; *)
(* it is not there any more.                                               *)
LEMMA RemovedThins ==
  ASSUME NEW queue \in Seq(Waiter), NEW charged \in Seq(Waiter),
         DOMAIN charged = DOMAIN queue,
         \A i \in DOMAIN queue : SameButDelay(charged[i], queue[i]),
         NEW i \in DOMAIN queue, waiters' = RemoveAt(charged, i),
         NobodyTwice(queue)
  PROVE  /\ waiters' \in Seq(Waiter) /\ Thinned(queue)
         /\ \A j \in DOMAIN waiters' : waiters'[j].id # queue[i].id
<1> DEFINE n == Len(charged)
           at == [j \in 1..(n - 1) |-> IF j < i THEN j ELSE j + 1]
<1>1. n \in Nat /\ DOMAIN charged = 1..n /\ i \in 1..n
  BY LenProperties
<1>2. /\ waiters' \in Seq(Waiter) /\ Len(waiters') = n - 1
      /\ \A j \in 1..(n - 1) : waiters'[j] = IF j < i THEN charged[j] ELSE charged[j + 1]
  BY <1>1, RemoveAtFacts
<1>3. DOMAIN waiters' = 1..(n - 1)
  BY <1>2, LenProperties
<1> HIDE DEF n
<1>4. at \in [DOMAIN waiters' -> DOMAIN queue]
  BY <1>1, <1>3
<1>5. /\ \A j, k \in DOMAIN waiters' : j < k => at[j] < at[k]
      /\ \A j \in DOMAIN waiters' : at[j] # i /\ waiters'[j] = charged[at[j]]
  BY <1>1, <1>2, <1>3
<1> HIDE DEF at
<1>6. \A j \in DOMAIN waiters' : SameButDelay(waiters'[j], queue[at[j]])
  BY <1>4, <1>5
<1>7. ASSUME NEW j \in DOMAIN waiters'
      PROVE  waiters'[j].id # queue[i].id
  <2>1. waiters'[j].id = queue[at[j]].id /\ at[j] \in DOMAIN queue /\ at[j] # i
    BY <1>4, <1>5, <1>6 DEF SameButDelay
  <2> QED BY <2>1 DEF NobodyTwice
<1>8. Thinned(queue)
  BY <1>4, <1>5, <1>6 DEF Thinned
<1> QED BY <1>2, <1>7, <1>8

(* Everybody who waits after the step waited before. *)
LEMMA ThinnedIds ==
  ASSUME NEW queue, Thinned(queue), NEW i \in DOMAIN waiters'
  PROVE  \E j \in DOMAIN queue : waiters'[i].id = queue[j].id
BY DEF Thinned, SameButDelay

-----------------------------------------------------------------------------
(* The leases *)

(* Nobody new holds anything after the step. *)
NoNewHolder == \A i : Holding(i)' => Holding(i)

(* The members, dependents and marks of a lease grant leaves. *)
LEMMA GrantMembers ==
  ASSUME TypeInv, NEW s \in Waiter, Grant(s)
  PROVE  LET id == leaseSeq + 1
         IN  /\ id \notin DOMAIN leases /\ DOMAIN leases' = DOMAIN leases \cup {id}
             /\ leases'[id].members = {s.id} /\ leases'[id].dependents = {}
             /\ leases'[id].orphaned = {}
             /\ \A l \in DOMAIN leases :
                  /\ leases'[l].members = leases[l].members
                  /\ leases'[l].dependents = leases[l].dependents
                  /\ leases[l].orphaned \subseteq leases'[l].orphaned
                  /\ leases'[l].orphaned \subseteq leases[l].orphaned \cup leases[l].members
                  /\ \A k \in Claimed(s) : \A e \in Evicted(k, s.claims[k]) :
                       leases[e].dependents \cap leases[l].members
                         \subseteq leases'[l].orphaned
<1> DEFINE id == leaseSeq + 1
           out == [k \in Claimed(s) |-> Evicted(k, s.claims[k])]
           told == UNION {leases[l].dependents : l \in UNION {out[k] : k \in DOMAIN out}}
<1>1. leases' = Put(Orphan(leases, told), id, NewLease(s))
  BY DEF Grant
<1>2. /\ id \notin DOMAIN leases /\ DOMAIN leases' = DOMAIN leases \cup {id}
      /\ leases'[id] = NewLease(s)
  BY GrantFacts DEF TypeInv
<1>3. \A k \in Claimed(s) : \A e \in Evicted(k, s.claims[k]) :
         leases[e].dependents \subseteq told
  OBVIOUS
<1> HIDE DEF told, id
<1>4. ASSUME NEW l \in DOMAIN leases
      PROVE  /\ leases'[l].members = leases[l].members
             /\ leases'[l].dependents = leases[l].dependents
             /\ leases'[l].orphaned
                  = leases[l].orphaned \cup (told \cap leases[l].members)
  <2>1. leases[l] \in Lease
    BY DEF TypeInv, TypeOK
  <2>2. leases'[l] = [leases[l] EXCEPT
                        !.orphaned = @ \cup (told \cap leases[l].members)]
    BY <1>1, <1>2 DEF Put, Orphan
  <2> QED BY <2>1, <2>2 DEF Lease
<1>5. /\ leases'[id].members = {s.id} /\ leases'[id].dependents = {}
      /\ leases'[id].orphaned = {}
  BY <1>2 DEF NewLease
<1>6. ASSUME NEW l \in DOMAIN leases, NEW k \in Claimed(s), NEW e \in Evicted(k, s.claims[k])
      PROVE  leases[e].dependents \cap leases[l].members \subseteq leases'[l].orphaned
  BY <1>3, <1>4
<1>7. ASSUME NEW l \in DOMAIN leases
      PROVE  /\ leases[l].orphaned \subseteq leases'[l].orphaned
             /\ leases'[l].orphaned \subseteq leases[l].orphaned \cup leases[l].members
  BY <1>4
<1> QED BY <1>2, <1>4, <1>5, <1>6, <1>7 DEF id

(* Who holds after a grant. *)
LEMMA GrantHolders ==
  ASSUME TypeInv, NEW s \in Waiter, Grant(s)
  PROVE  \A i : Holding(i)' <=> Holding(i) \/ i = s.id
<1> DEFINE id == leaseSeq + 1
<1>1. /\ DOMAIN leases' = DOMAIN leases \cup {id} /\ id \notin DOMAIN leases
      /\ leases'[id].members = {s.id}
      /\ \A l \in DOMAIN leases : leases'[l].members = leases[l].members
  BY GrantMembers
<1> HIDE DEF id
<1> QED BY <1>1 DEF Holding

(* A grant to someone who holds nothing keeps the leases apart. *)
LEMMA GrantLeases ==
  ASSUME TypeInv, LeaseInvariants, NEW s \in Waiter, Grant(s), ~Holding(s.id)
  PROVE  LeaseInvariants'
<1> DEFINE id == leaseSeq + 1
<1>1. /\ DOMAIN leases' = DOMAIN leases \cup {id} /\ id \notin DOMAIN leases
      /\ leases'[id].members = {s.id} /\ leases'[id].dependents = {}
      /\ leases'[id].orphaned = {}
      /\ \A l \in DOMAIN leases :
           /\ leases'[l].members = leases[l].members
           /\ leases'[l].dependents = leases[l].dependents
           /\ leases'[l].orphaned \subseteq leases[l].orphaned \cup leases[l].members
  BY GrantMembers
<1>2. \A i : Holding(i) => Holding(i)'
  BY GrantHolders
<1>3. \A l \in DOMAIN leases : s.id \notin leases[l].members
  BY DEF Holding
<1> HIDE DEF id
<1>4. ASSUME NEW l \in DOMAIN leases'
      PROVE  /\ leases'[l].members # {}
             /\ leases'[l].orphaned \subseteq leases'[l].members
             /\ \A m \in leases'[l].dependents : Holding(m)'
  <2>1. CASE l = id
    BY <1>1, <2>1
  <2>2. CASE l \in DOMAIN leases
    <3>1. /\ leases[l].members # {} /\ leases[l].orphaned \subseteq leases[l].members
          /\ \A m \in leases[l].dependents : Holding(m)
      BY <2>2 DEF LeaseInvariants
    <3> QED BY <1>1, <1>2, <2>2, <3>1
  <2> QED BY <1>1, <2>1, <2>2
<1>5. ASSUME NEW l \in DOMAIN leases', NEW o \in DOMAIN leases' \ {l}
      PROVE  leases'[l].members \cap leases'[o].members = {}
  <2>1. CASE l \in DOMAIN leases /\ o \in DOMAIN leases
    <3>1. leases[l].members \cap leases[o].members = {}
      BY <1>5, <2>1 DEF LeaseInvariants
    <3> QED BY <1>1, <2>1, <3>1
  <2>2. CASE l = id \/ o = id
    BY <1>1, <1>3, <1>5, <2>2
  <2> QED BY <1>1, <2>1, <2>2
<1> QED BY <1>4, <1>5 DEF LeaseInvariants

(* The members, dependents and marks a member that leaves leaves behind. *)
LEMMA LeaveMembers ==
  ASSUME TypeOK, NEW l \in DOMAIN leases, NEW m
  PROVE  \A o \in DOMAIN leases :
           LET x == Leave(l, m)[o]
           IN  /\ x.members = IF o = l THEN leases[o].members \ {m} ELSE leases[o].members
               /\ x.orphaned = IF o = l THEN leases[o].orphaned \ {m} ELSE leases[o].orphaned
               /\ x.dependents = leases[o].dependents \ {m}
<1> DEFINE live == leases[l].members \ {m}
           gone == Departed(leases[l].parents, live, m)
           left == [leases[l] EXCEPT !.members = live, !.orphaned = @ \ {m},
                      !.parents = [c \in Ids |-> IF c \in gone THEN None ELSE @[c]]]
<1>1. \A o \in DOMAIN leases :
         Leave(l, m)[o] = [(IF o = l THEN left ELSE leases[o]) EXCEPT !.dependents = @ \ {m}]
  BY DEF Leave
<1>2. \A o \in DOMAIN leases : leases[o] \in Lease
  BY DEF TypeOK
<1>3. /\ DOMAIN left = DOMAIN leases[l] /\ left.members = live
      /\ left.orphaned = leases[l].orphaned \ {m}
      /\ left.dependents = leases[l].dependents
  BY <1>2 DEF Lease
<1>4. "dependents" \in DOMAIN leases[l] /\ \A o \in DOMAIN leases : "dependents" \in DOMAIN leases[o]
  BY <1>2 DEF Lease
<1> HIDE DEF left
<1> SUFFICES ASSUME NEW o \in DOMAIN leases
             PROVE  LET x == Leave(l, m)[o]
                    IN  /\ x.members = IF o = l THEN leases[o].members \ {m}
                                                ELSE leases[o].members
                        /\ x.orphaned = IF o = l THEN leases[o].orphaned \ {m}
                                                 ELSE leases[o].orphaned
                        /\ x.dependents = leases[o].dependents \ {m}
  OBVIOUS
<1>5. CASE o = l
  <2>1. Leave(l, m)[o] = [left EXCEPT !.dependents = @ \ {m}]
    BY <1>1, <1>5
  <2> QED BY <1>3, <1>4, <1>5, <2>1
<1>6. CASE o # l
  <2>1. Leave(l, m)[o] = [leases[o] EXCEPT !.dependents = @ \ {m}]
    BY <1>1, <1>6
  <2> QED BY <1>2, <1>6, <2>1 DEF Lease
<1> QED BY <1>5, <1>6

(* A member that leaves others behind keeps the leases apart, and takes    *)
(* its name off every list of dependents.                                  *)
LEMMA ReleaseMemberLeases ==
  ASSUME TypeInv, LeaseInvariants, NEW l \in DOMAIN leases,
         NEW m \in leases[l].members, ReleaseMember(l, m)
  PROVE  LeaseInvariants' /\ NoNewHolder
<1>1. leases' = Leave(l, m) /\ leases[l].members # {m} /\ TypeOK
  BY DEF ReleaseMember, TypeInv
<1>2. DOMAIN leases' = DOMAIN leases
  BY <1>1, LeaveFacts
<1>3. \A o \in DOMAIN leases :
        /\ leases'[o].members = IF o = l THEN leases[o].members \ {m} ELSE leases[o].members
        /\ leases'[o].orphaned = IF o = l THEN leases[o].orphaned \ {m} ELSE leases[o].orphaned
        /\ leases'[o].dependents = leases[o].dependents \ {m}
  <2> DEFINE held == Leave(l, m)
  <2>1. \A o \in DOMAIN leases :
          /\ held[o].members = IF o = l THEN leases[o].members \ {m} ELSE leases[o].members
          /\ held[o].orphaned = IF o = l THEN leases[o].orphaned \ {m} ELSE leases[o].orphaned
          /\ held[o].dependents = leases[o].dependents \ {m}
    BY <1>1, LeaveMembers
  <2>2. leases' = held
    BY <1>1
  <2> HIDE DEF held
  <2> QED BY <2>1, <2>2
<1>4. \A i : Holding(i) /\ i # m => Holding(i)'
  BY <1>2, <1>3 DEF Holding
<1>5. NoNewHolder
  BY <1>2, <1>3 DEF Holding, NoNewHolder
<1>6. ASSUME NEW o \in DOMAIN leases'
      PROVE  /\ leases'[o].members # {}
             /\ leases'[o].orphaned \subseteq leases'[o].members
             /\ \A d \in leases'[o].dependents : Holding(d)'
  <2>1. /\ leases[o].members # {} /\ leases[o].orphaned \subseteq leases[o].members
        /\ \A d \in leases[o].dependents : Holding(d)
    BY <1>2 DEF LeaseInvariants
  <2> QED BY <1>1, <1>2, <1>3, <1>4, <2>1
<1>7. ASSUME NEW o \in DOMAIN leases', NEW p \in DOMAIN leases' \ {o}
      PROVE  leases'[o].members \cap leases'[p].members = {}
  <2>1. leases[o].members \cap leases[p].members = {}
    BY <1>2 DEF LeaseInvariants
  <2> QED BY <1>2, <1>3, <2>1
<1> QED BY <1>5, <1>6, <1>7 DEF LeaseInvariants

(* What the end of a lease leaves of the others. *)
LEMMA ReleaseLastMembers ==
  ASSUME TypeInv, NEW l \in DOMAIN leases, NEW m, ReleaseLast(l, m)
  PROVE  /\ DOMAIN leases' = DOMAIN leases \ {l}
         /\ \A o \in DOMAIN leases' :
              /\ leases'[o].members = leases[o].members
              /\ leases'[o].dependents = leases[o].dependents \ {m}
              /\ leases'[o].orphaned = leases[o].orphaned
                   \cup ((leases[l].dependents \ {m}) \cap leases[o].members)
<1> DEFINE held == Leave(l, m)
           rest == [o \in DOMAIN leases \ {l} |-> held[o]]
           told == held[l].dependents
<1>1. leases' = Orphan(rest, told) /\ TypeOK
  BY DEF ReleaseLast, TypeInv
<1>2. \A o \in DOMAIN leases :
        /\ held[o].members = IF o = l THEN leases[o].members \ {m} ELSE leases[o].members
        /\ held[o].orphaned = IF o = l THEN leases[o].orphaned \ {m} ELSE leases[o].orphaned
        /\ held[o].dependents = leases[o].dependents \ {m}
  BY <1>1, LeaveMembers
<1>3. \A o \in DOMAIN leases : held[o] \in Lease
  BY <1>1, LeaveFacts
<1> HIDE DEF held
<1>4. DOMAIN leases' = DOMAIN leases \ {l}
  BY <1>1 DEF Orphan
<1>5. ASSUME NEW o \in DOMAIN leases'
      PROVE  leases'[o] = [held[o] EXCEPT !.orphaned = @ \cup (told \cap held[o].members)]
  BY <1>1, <1>4 DEF Orphan
<1>6. ASSUME NEW o \in DOMAIN leases'
      PROVE  /\ leases'[o].members = held[o].members
             /\ leases'[o].dependents = held[o].dependents
             /\ leases'[o].orphaned = held[o].orphaned \cup (told \cap held[o].members)
  BY <1>3, <1>4, <1>5 DEF Lease
<1> QED BY <1>2, <1>4, <1>6

(* The end of a lease keeps the others apart. *)
LEMMA ReleaseLastLeases ==
  ASSUME TypeInv, LeaseInvariants, NEW l \in DOMAIN leases, NEW m, ReleaseLast(l, m)
  PROVE  LeaseInvariants' /\ NoNewHolder
<1>1. leases[l].members = {m}
  BY DEF ReleaseLast
<1>2. /\ DOMAIN leases' = DOMAIN leases \ {l}
      /\ \A o \in DOMAIN leases' :
           /\ leases'[o].members = leases[o].members
           /\ leases'[o].dependents = leases[o].dependents \ {m}
           /\ leases'[o].orphaned \subseteq leases[o].orphaned \cup leases[o].members
  BY ReleaseLastMembers
<1>3. \A i : Holding(i) /\ i # m => Holding(i)'
  BY <1>1, <1>2 DEF Holding
<1>4. NoNewHolder
  BY <1>2 DEF Holding, NoNewHolder
<1>5. ASSUME NEW o \in DOMAIN leases'
      PROVE  /\ leases'[o].members # {}
             /\ leases'[o].orphaned \subseteq leases'[o].members
             /\ \A d \in leases'[o].dependents : Holding(d)'
  <2>1. /\ leases[o].members # {} /\ leases[o].orphaned \subseteq leases[o].members
        /\ \A d \in leases[o].dependents : Holding(d)
    BY <1>2 DEF LeaseInvariants
  <2> QED BY <1>2, <1>3, <2>1
<1>6. ASSUME NEW o \in DOMAIN leases', NEW p \in DOMAIN leases' \ {o}
      PROVE  leases'[o].members \cap leases'[p].members = {}
  BY <1>2 DEF LeaseInvariants
<1> QED BY <1>4, <1>5, <1>6 DEF LeaseInvariants

(* What attaching changes. *)
LEMMA AttachMembers ==
  ASSUME TypeInv, NEW l \in DOMAIN leases, NEW m \in Children, Attach(l, m)
  PROVE  /\ DOMAIN leases' = DOMAIN leases
         /\ \A o \in DOMAIN leases :
              /\ leases'[o].members = IF o = l THEN leases[o].members \cup {m}
                                               ELSE leases[o].members
              /\ leases'[o].dependents = leases[o].dependents
              /\ leases'[o].orphaned = leases[o].orphaned
<1> DEFINE parent == ResolveParent(l, ParentOf[m])
           x == [leases[l] EXCEPT !.members = @ \cup {m}, !.parents[m] = parent]
<1>1. leases' = [leases EXCEPT ![l].members = @ \cup {m}, ![l].parents[m] = parent]
  BY DEF Attach
<1> HIDE DEF parent
<1>2. leases \in [DOMAIN leases -> Lease] /\ leases[l] \in Lease
  BY DEF TypeInv, TypeOK
<1>3. leases' = [leases EXCEPT ![l] = x]
  BY <1>1, <1>2
<1>4. /\ x.members = leases[l].members \cup {m}
      /\ x.dependents = leases[l].dependents /\ x.orphaned = leases[l].orphaned
  BY <1>2 DEF Lease
<1> HIDE DEF x
<1> QED BY <1>2, <1>3, <1>4

(* A run that holds nothing may attach. *)
LEMMA AttachLeases ==
  ASSUME TypeInv, LeaseInvariants, NEW l \in DOMAIN leases, NEW m \in Children,
         Attach(l, m)
  PROVE  /\ LeaseInvariants'
         /\ \A i : Holding(i)' => Holding(i) \/ i = m
<1>1. ~Holding(m)
  BY DEF Attach, Fresh
<1>2. /\ DOMAIN leases' = DOMAIN leases
      /\ \A o \in DOMAIN leases :
           /\ leases'[o].members = IF o = l THEN leases[o].members \cup {m}
                                            ELSE leases[o].members
           /\ leases'[o].dependents = leases[o].dependents
           /\ leases'[o].orphaned = leases[o].orphaned
  BY AttachMembers
<1>3. /\ \A i : Holding(i) => Holding(i)'
      /\ \A i : Holding(i)' => Holding(i) \/ i = m
  BY <1>2 DEF Holding
<1>4. \A o \in DOMAIN leases : m \notin leases[o].members
  BY <1>1 DEF Holding
<1>5. ASSUME NEW o \in DOMAIN leases'
      PROVE  /\ leases'[o].members # {}
             /\ leases'[o].orphaned \subseteq leases'[o].members
             /\ \A d \in leases'[o].dependents : Holding(d)'
  <2>1. /\ leases[o].members # {} /\ leases[o].orphaned \subseteq leases[o].members
        /\ \A d \in leases[o].dependents : Holding(d)
    BY <1>2 DEF LeaseInvariants
  <2> QED BY <1>2, <1>3, <2>1
<1>6. ASSUME NEW o \in DOMAIN leases', NEW p \in DOMAIN leases' \ {o}
      PROVE  leases'[o].members \cap leases'[p].members = {}
  <2>1. /\ leases[o].members \cap leases[p].members = {}
        /\ m \notin leases[o].members /\ m \notin leases[p].members
    BY <1>2, <1>4, <1>6 DEF LeaseInvariants
  <2>2. o # p /\ o \in DOMAIN leases /\ p \in DOMAIN leases
    BY <1>2
  <2>3. /\ leases'[o].members = IF o = l THEN leases[o].members \cup {m}
                                         ELSE leases[o].members
        /\ leases'[p].members = IF p = l THEN leases[p].members \cup {m}
                                         ELSE leases[p].members
    BY <1>2, <2>2
  <2> QED BY <2>1, <2>2, <2>3
<1> QED BY <1>3, <1>5, <1>6 DEF LeaseInvariants

(* What a dependency changes. *)
LEMMA DependMembers ==
  ASSUME TypeInv, NEW l \in DOMAIN leases, NEW m, Depend(m, l)
  PROVE  /\ DOMAIN leases' = DOMAIN leases
         /\ \A o \in DOMAIN leases :
              /\ leases'[o].members = leases[o].members
              /\ leases'[o].dependents = IF o = l THEN leases[o].dependents \cup {m}
                                                  ELSE leases[o].dependents
              /\ leases'[o].orphaned = leases[o].orphaned
<1> DEFINE x == [leases[l] EXCEPT !.dependents = @ \cup {m}]
<1>1. leases \in [DOMAIN leases -> Lease] /\ leases[l] \in Lease
  BY DEF TypeInv, TypeOK
<1>2. leases' = [leases EXCEPT ![l] = x]
  BY <1>1 DEF Depend
<1>3. /\ x.dependents = leases[l].dependents \cup {m}
      /\ x.members = leases[l].members /\ x.orphaned = leases[l].orphaned
  BY <1>1 DEF Lease
<1> HIDE DEF x
<1> QED BY <1>1, <1>2, <1>3

(* Only a run that holds may depend on a lease. *)
LEMMA DependLeases ==
  ASSUME TypeInv, LeaseInvariants, NEW l \in DOMAIN leases, NEW m, Depend(m, l)
  PROVE  LeaseInvariants' /\ NoNewHolder
<1>1. Holding(m)
  BY DEF Depend
<1>2. /\ DOMAIN leases' = DOMAIN leases
      /\ \A o \in DOMAIN leases :
           /\ leases'[o].members = leases[o].members
           /\ leases'[o].dependents = IF o = l THEN leases[o].dependents \cup {m}
                                               ELSE leases[o].dependents
           /\ leases'[o].orphaned = leases[o].orphaned
  BY DependMembers
<1>3. \A i : Holding(i)' <=> Holding(i)
  BY <1>2 DEF Holding
<1>4. ASSUME NEW o \in DOMAIN leases'
      PROVE  /\ leases'[o].members # {}
             /\ leases'[o].orphaned \subseteq leases'[o].members
             /\ \A d \in leases'[o].dependents : Holding(d)'
  <2>1. /\ leases[o].members # {} /\ leases[o].orphaned \subseteq leases[o].members
        /\ \A d \in leases[o].dependents : Holding(d)
    BY <1>2 DEF LeaseInvariants
  <2>2. \A d \in leases'[o].dependents : d \in leases[o].dependents \/ d = m
    BY <1>2
  <2> QED BY <1>1, <1>2, <1>3, <2>1, <2>2
<1>5. ASSUME NEW o \in DOMAIN leases', NEW p \in DOMAIN leases' \ {o}
      PROVE  leases'[o].members \cap leases'[p].members = {}
  BY <1>2 DEF LeaseInvariants
<1> QED BY <1>3, <1>4, <1>5 DEF LeaseInvariants, NoNewHolder

(* Leases nobody touches stay as they are. *)
LEMMA SameLeases ==
  ASSUME LeaseInvariants, leases' = leases
  PROVE  LeaseInvariants' /\ NoNewHolder
BY DEF LeaseInvariants, NoNewHolder, Holding

-----------------------------------------------------------------------------
(* Every step keeps both *)

(* The ledger starts with nobody in it. *)
LEMMA InitPlace == Init => PlaceInv
<1> SUFFICES ASSUME Init PROVE PlaceInv
  OBVIOUS
<1>1. TypeInv
  BY InitType
<1>2. DOMAIN leases = {}
  BY DEF Init, EmptyFcn
<1>3. waiters = <<>>
  BY DEF Init
<1>4. LeaseInvariants
  BY <1>2 DEF LeaseInvariants
<1>5. DOMAIN waiters = {}
  BY <1>3
<1>6. WaiterInvariants
  BY <1>5 DEF WaiterInvariants, IsOrdered
<1> QED BY <1>1, <1>4, <1>6 DEF PlaceInv

(* A waiter of a thinned queue who held nothing still does when only       *)
(* others came to hold anything.                                           *)
LEMMA ThinnedApart ==
  ASSUME NEW queue, Thinned(queue), NEW New,
         \A x : Holding(x)' => Holding(x) \/ x \in New,
         \A i \in DOMAIN queue : ~Holding(queue[i].id),
         \A i \in DOMAIN waiters' : waiters'[i].id \notin New
  PROVE  WaitersApart'
<1>1. \A i \in DOMAIN waiters' : \E j \in DOMAIN queue : waiters'[i].id = queue[j].id
  BY ThinnedIds
<1>2. \A i \in DOMAIN waiters' : ~Holding(waiters'[i].id)
  BY <1>1
<1>3. ASSUME NEW i \in DOMAIN waiters', NEW x, x = waiters'[i].id
      PROVE  ~Holding(x)'
  BY <1>2, <1>3
<1> QED BY <1>3 DEF WaitersApart, Holding

(* A newcomer that starts at once. *)
LEMMA GrantFreshPlace ==
  ASSUME PlaceInv, NEW q \in Requests, Submittable(q), NEW queue \in Seq(Waiter),
         Queued(queue) = Queued(waiters), GoodQueue(queue, overrides),
         IsOrdered(queue, admitSeq + 1), GrantFresh(Normalize(q), queue)
  PROVE  LeaseInvariants' /\ WaiterInvariants'
<1> DEFINE s == Normalize(q)
<1>1. TypeInv /\ LeaseInvariants /\ WaiterInvariants /\ TypeOK /\ Fresh(q.id)
  BY DEF PlaceInv, TypeInv, Submittable
<1>2. s \in Waiter
  BY <1>1, NormalizeFacts DEF Submittable
<1>3. s.admit = admitSeq + 1 /\ s.id = q.id
  BY DEF Normalize
<1> HIDE DEF s
<1>4. /\ admitSeq' = s.admit
      /\ waiters' = RecordBackfill(queue, Ahead(queue, s, s.admit), s)
      /\ Grant(s) /\ policy' = policy /\ overrides' = overrides
  BY DEF GrantFresh, s
<1>5. ~Holding(s.id) /\ \A w \in Queued(waiters) : w.id # s.id
  BY <1>1, <1>3 DEF Fresh, Waiting, Queued
<1>6. LeaseInvariants'
  BY <1>1, <1>2, <1>4, <1>5, GrantLeases
<1>7. waiters' \in Seq(Waiter) /\ Thinned(queue)
  BY <1>2, <1>4, ChargedThins
<1>8. IsOrdered(waiters', admitSeq + 1) /\ GoodQueue(waiters', overrides)
  BY <1>7, ThinnedQueue
<1>9. IsOrdered(waiters, admitSeq)' /\ GoodQueue(waiters', overrides')
  BY <1>3, <1>4, <1>8, OrderNext
<1>10. \A i : Holding(i)' <=> Holding(i) \/ i = s.id
  BY <1>1, <1>2, <1>4, GrantHolders
<1>11. \A i \in DOMAIN queue : queue[i] \in Queued(waiters)
  BY DEF Queued
<1>12. \A i \in DOMAIN queue : ~Holding(queue[i].id) /\ queue[i].id # s.id
  BY <1>1, <1>5, <1>11 DEF WaiterInvariants, Queued
<1>13. \A i \in DOMAIN waiters' : \E j \in DOMAIN queue : waiters'[i].id = queue[j].id
  BY <1>7, ThinnedIds
<1>14. \A i \in DOMAIN waiters' : waiters'[i].id \notin {s.id}
  BY <1>12, <1>13
<1>15. \A x : Holding(x)' => Holding(x) \/ x \in {s.id}
  BY <1>10
<1>16. WaitersApart'
  BY <1>7, <1>12, <1>14, <1>15, ThinnedApart
<1> QED BY <1>6, <1>9, <1>16, WaiterPartsNext

(* The rank a participant gets is the one recorded for it. *)
LEMMA RecordedOnce ==
  ASSUME NEW ranks, NEW id, NEW owner, NEW carried
  PROVE  LET p == OverrideFor(ranks, id, owner, carried)
         IN  OverrideFor(ranks, id, owner, p) = p
BY DEF OverrideFor

(* A newcomer that waits. *)
LEMMA EnqueuePlace ==
  ASSUME PlaceInv, NEW q \in Requests, Submittable(q), NEW queue \in Seq(Waiter),
         Queued(queue) = Queued(waiters), GoodQueue(queue, overrides),
         NEW todo, Enqueue(Normalize(q), queue, todo)
  PROVE  LeaseInvariants' /\ WaiterInvariants'
<1> DEFINE s == Normalize(q)  longer == Append(queue, s)
<1>1. TypeInv /\ LeaseInvariants /\ WaiterInvariants /\ TypeOK /\ Fresh(q.id)
  BY DEF PlaceInv, TypeInv, Submittable
<1>2. s \in Waiter
  BY <1>1, NormalizeFacts DEF Submittable
<1>3. /\ s.admit = admitSeq + 1 /\ s.id = q.id /\ s.owner = q.owner
      /\ s.priority = OverrideFor(overrides, q.id, q.owner, q.priority)
  BY DEF Normalize
<1>4. AtRecordedRank(s, overrides)
  BY <1>3, RecordedOnce DEF AtRecordedRank
<1> HIDE DEF s
<1>5. /\ admitSeq' = s.admit /\ waiters' \in Arrangements(longer)
      /\ IsOrdered(waiters', s.admit)
      /\ UNCHANGED <<leases, policy, overrides>>
  BY DEF Enqueue, Sorted, s
<1>6. /\ longer \in Seq(Waiter) /\ DOMAIN longer = 1..(Len(queue) + 1)
      /\ Len(queue) \in Nat /\ DOMAIN queue = 1..Len(queue)
      /\ longer[Len(queue) + 1] = s
      /\ \A i \in DOMAIN queue : longer[i] = queue[i]
  BY <1>2, AppendProperties, LenProperties
<1>7. ~Holding(s.id) /\ \A w \in Queued(waiters) : w.id # s.id /\ ~Holding(w.id)
  BY <1>1, <1>3 DEF Fresh, Waiting, Queued, WaiterInvariants
<1> HIDE DEF longer
<1>8. \A i \in DOMAIN queue : queue[i].id # s.id /\ ~Holding(queue[i].id)
  BY <1>7 DEF Queued
<1>9. \A i \in DOMAIN longer : i \in DOMAIN queue \/ i = Len(queue) + 1
  BY <1>6
<1>10. GoodQueue(longer, overrides)
  <2>1. NobodyTwice(longer)
    BY <1>6, <1>8, <1>9 DEF NobodyTwice, GoodQueue
  <2>2. \A i \in DOMAIN longer : AtRecordedRank(longer[i], overrides)
    BY <1>4, <1>6, <1>9 DEF GoodQueue
  <2> QED BY <2>1, <2>2 DEF GoodQueue
<1>11. s.admit \in Nat
  BY <1>2 DEF Waiter
<1>12. GoodQueue(waiters', overrides)
  BY <1>1, <1>5, <1>6, <1>10, <1>11, SortedQueue
<1>13. IsOrdered(waiters, admitSeq)'
  BY <1>5, OrderNext
<1>14. \A i \in DOMAIN longer : ~Holding(longer[i].id)
  BY <1>6, <1>7, <1>8, <1>9
<1>15. \A i \in DOMAIN waiters' : \E j \in DOMAIN longer : waiters'[i] = longer[j]
  BY <1>5, <1>6, ArrangementFacts
<1>16. LeaseInvariants' /\ NoNewHolder
  BY <1>1, <1>5, SameLeases
<1>17. WaitersApart'
  BY <1>14, <1>15, <1>16 DEF WaitersApart, NoNewHolder
<1> QED BY <1>5, <1>12, <1>13, <1>16, <1>17, WaiterPartsNext

(* Submit, whichever way it goes. *)
LEMMA SubmitPlace ==
  ASSUME PlaceInv, NEW q \in Requests,
         SubmitGranted(q) \/ SubmitQueued(q) \/ SubmitAging(q)
  PROVE  LeaseInvariants' /\ WaiterInvariants'
<1>1. /\ TypeOK /\ waiters \in Seq(Waiter) /\ Submittable(q)
      /\ LeaseInvariants /\ WaiterInvariants
  BY DEF PlaceInv, TypeInv, TypeOK, SubmitGranted, SubmitQueued, SubmitAging
<1>2. /\ IsOrdered(waiters, admitSeq) /\ GoodQueue(waiters, overrides)
      /\ WaitersApart
  BY <1>1, WaiterParts
<1>3. CASE SubmitGranted(q)
  <2>1. policy.aging = 0 /\ GrantFresh(Normalize(q), waiters)
    BY <1>3 DEF SubmitGranted
  <2>2. IsOrdered(waiters, admitSeq + 1)
    BY <1>2, <2>1, OrderWithoutAging
  <2> QED BY <1>1, <1>2, <2>1, <2>2, GrantFreshPlace
<1>4. CASE SubmitQueued(q)
  <2>1. Enqueue(Normalize(q), waiters, "check")
    BY <1>4 DEF SubmitQueued
  <2> QED BY <1>1, <1>2, <2>1, EnqueuePlace
<1>5. CASE SubmitAging(q)
  <2> DEFINE s == Normalize(q)
  <2>1. PICK queue \in Sorted(waiters, admitSeq + 1) :
          \/ GrantFresh(s, queue)
          \/ Enqueue(s, queue, "promote")
          \/ /\ admitSeq' = s.admit /\ waiters' = queue
             /\ UNCHANGED <<leases, overrides, policy>>
    BY <1>5 DEF SubmitAging
  <2>2. queue \in Arrangements(waiters) /\ IsOrdered(queue, admitSeq + 1)
    BY DEF Sorted
  <2>3. queue \in Seq(Waiter) /\ Queued(queue) = Queued(waiters)
    BY <1>1, SortedFacts
  <2>4. admitSeq + 1 \in Nat
    BY <1>1 DEF TypeOK
  <2>5. GoodQueue(queue, overrides)
    BY <1>1, <1>2, <2>2, <2>4, SortedQueue
  <2>6. CASE GrantFresh(s, queue)
    BY <1>1, <2>2, <2>3, <2>5, <2>6, GrantFreshPlace
  <2>7. CASE Enqueue(s, queue, "promote")
    BY <1>1, <2>3, <2>5, <2>7, EnqueuePlace
  <2>8. CASE /\ admitSeq' = s.admit /\ waiters' = queue
             /\ UNCHANGED <<leases, overrides, policy>>
    <3>1. admitSeq' = admitSeq + 1
      BY <2>8 DEF Normalize
    <3> HIDE DEF s
    <3>2. IsOrdered(waiters, admitSeq)'
      BY <2>2, <2>8, <3>1, OrderNext
    <3>3. LeaseInvariants' /\ NoNewHolder
      BY <1>1, <2>8, SameLeases
    <3>4. \A i \in DOMAIN queue : ~Holding(queue[i].id)
      BY <1>2, <2>3 DEF Queued, WaitersApart
    <3>5. WaitersApart'
      BY <2>8, <3>3, <3>4 DEF WaitersApart, NoNewHolder
    <3> QED BY <2>5, <2>8, <3>2, <3>3, <3>5, WaiterPartsNext
  <2> QED BY <2>1, <2>6, <2>7, <2>8
<1> QED BY <1>3, <1>4, <1>5

(* A waiter's new request takes its place in the order. *)
LEMMA ReplaceWaiterPlace ==
  ASSUME PlaceInv, NEW q \in Requests, ReplaceWaiter(q)
  PROVE  LeaseInvariants' /\ WaiterInvariants'
<1> DEFINE n == Normalize(q)
           s(w) == [n EXCEPT !.admit = w.admit, !.owner = w.owner,
                      !.ownerAdmit = w.ownerAdmit, !.delay = w.delay,
                      !.priority = OverrideFor(overrides, w.id, w.owner, @)]
<1>1. /\ TypeOK /\ waiters \in Seq(Waiter) /\ Admissible(q)
      /\ LeaseInvariants /\ WaiterInvariants
      /\ UNCHANGED <<leases, overrides, admitSeq, policy>>
  BY DEF PlaceInv, TypeInv, TypeOK, ReplaceWaiter
<1>2. GoodQueue(waiters, overrides) /\ WaitersApart
  BY <1>1, WaiterParts
<1>3. PICK i \in DOMAIN waiters :
        /\ waiters[i].id = q.id
        /\ waiters' \in Sorted([waiters EXCEPT ![i] = s(waiters[i])], admitSeq)
  BY DEF ReplaceWaiter
<1>4. n \in Waiter /\ n.id = q.id
  BY <1>1, NormalizeFacts DEF Normalize
<1> DEFINE w == waiters[i]  v == s(w)  queue == [waiters EXCEPT ![i] = v]
<1> HIDE DEF n
<1>5. w \in Waiter
  BY <1>1
<1>6. OverrideFor(overrides, w.id, w.owner, n.priority) \in Int
  BY <1>1, <1>4, OverrideForType DEF Waiter
<1>7. /\ v \in Waiter /\ v.id = q.id /\ v.owner = w.owner
      /\ v.priority = OverrideFor(overrides, w.id, w.owner, n.priority)
  BY <1>4, <1>5, <1>6 DEF Waiter
<1>8. AtRecordedRank(v, overrides)
  BY <1>3, <1>7, RecordedOnce DEF AtRecordedRank
<1> HIDE DEF v
<1>9. /\ queue \in Seq(Waiter) /\ DOMAIN queue = DOMAIN waiters
      /\ \A j \in DOMAIN waiters : queue[j] = IF j = i THEN v ELSE waiters[j]
  BY <1>1, <1>7
<1>10. waiters' \in Arrangements(queue) /\ IsOrdered(waiters', admitSeq)
  BY <1>3 DEF Sorted, v
<1> HIDE DEF queue
<1>11. \A j \in DOMAIN queue : queue[j].id = waiters[j].id
  BY <1>3, <1>7, <1>9
<1>12. NobodyTwice(queue)
  BY <1>2, <1>9, <1>11 DEF GoodQueue, NobodyTwice
<1>13. \A j \in DOMAIN queue : AtRecordedRank(queue[j], overrides)
  BY <1>2, <1>8, <1>9 DEF GoodQueue
<1>14. admitSeq \in Nat
  BY <1>1 DEF TypeOK
<1>15. GoodQueue(waiters', overrides)
  BY <1>1, <1>9, <1>10, <1>12, <1>13, <1>14, SortedQueue DEF GoodQueue
<1>16. IsOrdered(waiters, admitSeq)'
  BY <1>1, <1>10, OrderNext
<1>17. LeaseInvariants' /\ NoNewHolder
  BY <1>1, SameLeases
<1>18. \A j \in DOMAIN waiters' : \E k \in DOMAIN queue : waiters'[j] = queue[k]
  BY <1>9, <1>10, ArrangementFacts
<1>19. WaitersApart'
  BY <1>2, <1>9, <1>11, <1>17, <1>18 DEF WaitersApart, NoNewHolder
<1> QED BY <1>1, <1>15, <1>16, <1>17, <1>19, WaiterPartsNext

(* A waiter that is withdrawn. *)
LEMMA CancelWaiterPlace ==
  ASSUME PlaceInv, NEW i \in DOMAIN waiters, CancelWaiter(i)
  PROVE  LeaseInvariants' /\ WaiterInvariants'
<1>1. /\ waiters \in Seq(Waiter) /\ LeaseInvariants /\ WaiterInvariants
      /\ waiters' = RemoveAt(waiters, i)
      /\ UNCHANGED <<leases, overrides, admitSeq, policy>>
  BY DEF PlaceInv, TypeInv, TypeOK, CancelWaiter
<1>2. /\ IsOrdered(waiters, admitSeq) /\ GoodQueue(waiters, overrides)
      /\ WaitersApart
  BY <1>1, WaiterParts
<1>3. \A j \in DOMAIN waiters : SameButDelay(waiters[j], waiters[j])
  BY DEF SameButDelay
<1>4. waiters' \in Seq(Waiter) /\ Thinned(waiters)
  BY <1>1, <1>2, <1>3, RemovedThins DEF GoodQueue
<1>5. IsOrdered(waiters', admitSeq) /\ GoodQueue(waiters', overrides)
  BY <1>1, <1>2, <1>4, ThinnedQueue
<1>6. IsOrdered(waiters, admitSeq)'
  BY <1>1, <1>5, OrderNext
<1>7. LeaseInvariants' /\ NoNewHolder
  BY <1>1, SameLeases
<1>8. \A j \in DOMAIN waiters' : \E k \in DOMAIN waiters : waiters'[j].id = waiters[k].id
  BY <1>4, ThinnedIds
<1>9. WaitersApart'
  BY <1>2, <1>7, <1>8 DEF WaitersApart, NoNewHolder
<1> QED BY <1>1, <1>5, <1>6, <1>7, <1>9, WaiterPartsNext

(* A waiter that is promoted. *)
LEMMA PromotePlace ==
  ASSUME PlaceInv, Promote
  PROVE  LeaseInvariants' /\ WaiterInvariants'
<1>1. /\ TypeInv /\ waiters \in Seq(Waiter) /\ LeaseInvariants /\ WaiterInvariants
      /\ UNCHANGED <<overrides, admitSeq, policy>>
  BY DEF PlaceInv, TypeInv, TypeOK, Promote
<1>2. /\ IsOrdered(waiters, admitSeq) /\ GoodQueue(waiters, overrides)
      /\ WaitersApart
  BY <1>1, WaiterParts
<1>3. PICK i \in DOMAIN waiters :
        /\ waiters' = RemoveAt(RecordBackfill(waiters, i - 1, waiters[i]), i)
        /\ Grant(waiters[i])
  BY DEF Promote
<1> DEFINE s == waiters[i]  charged == RecordBackfill(waiters, i - 1, s)
<1>4. s \in Waiter
  BY <1>1
<1>5. /\ charged \in Seq(Waiter) /\ DOMAIN charged = DOMAIN waiters
      /\ \A j \in DOMAIN waiters : SameButDelay(charged[j], waiters[j])
  BY <1>1, <1>4, RecordBackfillFacts
<1>6. waiters' = RemoveAt(charged, i)
  BY <1>3
<1> HIDE DEF charged
<1>7. /\ waiters' \in Seq(Waiter) /\ Thinned(waiters)
      /\ \A j \in DOMAIN waiters' : waiters'[j].id # s.id
  BY <1>1, <1>2, <1>5, <1>6, RemovedThins DEF GoodQueue
<1>8. IsOrdered(waiters', admitSeq) /\ GoodQueue(waiters', overrides)
  BY <1>1, <1>2, <1>7, ThinnedQueue
<1>9. IsOrdered(waiters, admitSeq)'
  BY <1>1, <1>8, OrderNext
<1>10. ~Holding(s.id) /\ Grant(s)
  BY <1>2, <1>3 DEF WaitersApart
<1>11. LeaseInvariants'
  BY <1>1, <1>4, <1>10, GrantLeases
<1>12. \A x : Holding(x)' => Holding(x) \/ x \in {s.id}
  BY <1>1, <1>4, <1>10, GrantHolders
<1> HIDE DEF s
<1>13. \A j \in DOMAIN waiters' : waiters'[j].id \notin {s.id}
  BY <1>7
<1>14. WaitersApart'
  BY <1>2, <1>7, <1>12, <1>13, ThinnedApart DEF WaitersApart
<1> QED BY <1>1, <1>8, <1>9, <1>11, <1>14, WaiterPartsNext

(* An operator's rank reaches every waiter of the run, and only those. *)
LEMMA SetPriorityPlace ==
  ASSUME PlaceInv, NEW run \in Ids, NEW p \in Priorities, SetPriority(run, p)
  PROVE  LeaseInvariants' /\ WaiterInvariants'
<1> DEFINE ranks == Put(overrides, run, p)
           ranked == [i \in DOMAIN waiters |->
             IF BelongsToRun(waiters[i].id, waiters[i].owner, run)
             THEN [waiters[i] EXCEPT !.priority =
                     OverrideFor(ranks, waiters[i].id, waiters[i].owner, p)]
             ELSE waiters[i]]
<1>1. /\ TypeOK /\ waiters \in Seq(Waiter) /\ LeaseInvariants /\ WaiterInvariants
      /\ UNCHANGED <<leases, admitSeq, policy>> /\ overrides' = ranks
      /\ \/ ranked = waiters /\ waiters' = waiters
         \/ waiters' \in Sorted(ranked, admitSeq)
  BY DEF PlaceInv, TypeInv, TypeOK, SetPriority
<1>2. /\ IsOrdered(waiters, admitSeq) /\ GoodQueue(waiters, overrides)
      /\ WaitersApart
  BY <1>1, WaiterParts
<1>3. /\ DOMAIN ranks = DOMAIN overrides \cup {run}
      /\ ranks[run] = p
      /\ \A r \in DOMAIN overrides : r # run => ranks[r] = overrides[r]
  BY DEF Put
<1> HIDE DEF ranks
<1>4. ASSUME NEW i \in DOMAIN waiters
      PROVE  /\ ranked[i] \in Waiter /\ ranked[i].id = waiters[i].id
             /\ AtRecordedRank(ranked[i], ranks)
  <2> DEFINE w == waiters[i]  to == OverrideFor(ranks, w.id, w.owner, p)
  <2>1. w \in Waiter
    BY <1>1
  <2>2. CASE BelongsToRun(w.id, w.owner, run)
    <3>1. ranked[i] = [w EXCEPT !.priority = to]
      BY <2>2
    <3>2. to \in Int
      BY <1>1, <1>3, HostAssumption DEF TypeOK, OverrideFor
    <3>3. OverrideFor(ranks, w.id, w.owner, to) = to
      BY RecordedOnce
    <3> HIDE DEF to
    <3> QED BY <2>1, <3>1, <3>2, <3>3 DEF Waiter, AtRecordedRank
  <2>3. CASE ~BelongsToRun(w.id, w.owner, run)
    <3>1. ranked[i] = w
      BY <2>3
    <3>2. run # w.id /\ run # w.owner /\ run # RunOf[w.id]
      BY <2>3 DEF BelongsToRun
    <3>3. AtRecordedRank(w, overrides)
      BY <1>2 DEF GoodQueue
    <3>4. AtRecordedRank(w, ranks)
      BY <1>3, <3>2, <3>3 DEF AtRecordedRank, OverrideFor
    <3> QED BY <2>1, <3>1, <3>4
  <2> QED BY <2>2, <2>3
<1>5. ranked \in Seq(Waiter) /\ DOMAIN ranked = DOMAIN waiters
  <2>1. Len(waiters) \in Nat /\ DOMAIN waiters = 1..Len(waiters)
    BY <1>1, LenProperties
  <2>2. ranked = [i \in 1..Len(waiters) |-> ranked[i]]
    BY <2>1
  <2> HIDE DEF ranked
  <2>3. ranked \in [1..Len(waiters) -> Waiter]
    BY <1>4, <2>1, <2>2
  <2> QED BY <2>1, <2>3, SeqDef
<1> HIDE DEF ranked
<1>6. GoodQueue(ranked, ranks)
  BY <1>2, <1>4, <1>5 DEF GoodQueue, NobodyTwice
<1>7. admitSeq \in Nat
  BY <1>1 DEF TypeOK
<1>8. /\ IsOrdered(waiters', admitSeq) /\ GoodQueue(waiters', ranks)
      /\ \A i \in DOMAIN waiters' : \E j \in DOMAIN waiters : waiters'[i].id = waiters[j].id
  <2>1. CASE ranked = waiters /\ waiters' = waiters
    BY <1>2, <1>6, <2>1
  <2>2. CASE waiters' \in Sorted(ranked, admitSeq)
    <3>1. waiters' \in Arrangements(ranked) /\ IsOrdered(waiters', admitSeq)
      BY <2>2 DEF Sorted
    <3>2. GoodQueue(waiters', ranks)
      BY <1>1, <1>5, <1>6, <1>7, <3>1, SortedQueue
    <3>3. \A i \in DOMAIN waiters' : \E j \in DOMAIN ranked : waiters'[i] = ranked[j]
      BY <1>5, <3>1, ArrangementFacts
    <3> QED BY <1>4, <1>5, <3>1, <3>2, <3>3
  <2> QED BY <1>1, <2>1, <2>2
<1>9. IsOrdered(waiters, admitSeq)'
  BY <1>1, <1>8, OrderNext
<1>10. LeaseInvariants' /\ NoNewHolder
  BY <1>1, SameLeases
<1>11. WaitersApart'
  BY <1>2, <1>8, <1>10 DEF WaitersApart, NoNewHolder
<1> QED BY <1>1, <1>8, <1>9, <1>10, <1>11, WaiterPartsNext

(* A policy that takes over after a restart re-sorts the queue. *)
LEMMA SetSchedulingPolicyPlace ==
  ASSUME PlaceInv, TypeOK', NEW p \in Policies, SetSchedulingPolicy(p)
  PROVE  LeaseInvariants' /\ WaiterInvariants'
<1>1. /\ TypeOK /\ waiters \in Seq(Waiter) /\ LeaseInvariants /\ WaiterInvariants
      /\ UNCHANGED <<leases, overrides, admitSeq>>
      /\ waiters' \in Arrangements(waiters) /\ IsOrdered(waiters, admitSeq)'
  BY DEF PlaceInv, TypeInv, TypeOK, SetSchedulingPolicy
<1>2. GoodQueue(waiters, overrides) /\ WaitersApart
  BY <1>1, WaiterParts
<1>3. /\ waiters' \in Seq(Waiter)
      /\ \A i \in DOMAIN waiters' : \E j \in DOMAIN waiters : waiters'[i] = waiters[j]
  BY <1>1, ArrangementFacts
<1>4. Irreflexive' /\ admitSeq' \in Nat
  BY OutranksIrreflexiveNext DEF TypeOK
<1>5. ASSUME NEW i \in DOMAIN waiters', NEW j \in DOMAIN waiters',
             waiters'[j].id = waiters'[i].id
      PROVE  j = i
  <2>1. waiters'[i] = waiters'[j]
    BY <1>2, <1>3, <1>5 DEF GoodQueue, NobodyTwice
  <2>2. i \in Int /\ j \in Int /\ waiters'[i] \in Waiter
    BY <1>3
  <2>3. ~Outranks(waiters[i], waiters[i], admitSeq)'
    BY <1>4, <2>2 DEF Irreflexive, Outranks, ClassScore
  <2>4. ~(i < j) /\ ~(j < i)
    BY <1>1, <2>1, <2>3 DEF IsOrdered, Outranks, ClassScore
  <2> QED BY <2>2, <2>4
<1>6. GoodQueue(waiters', overrides')
  <2>1. \A i \in DOMAIN waiters' : AtRecordedRank(waiters'[i], overrides)
    BY <1>2, <1>3 DEF GoodQueue
  <2> QED BY <1>1, <1>5, <2>1 DEF GoodQueue, NobodyTwice
<1>7. LeaseInvariants' /\ NoNewHolder
  BY <1>1, SameLeases
<1>8. WaitersApart'
  BY <1>2, <1>3, <1>7 DEF WaitersApart, NoNewHolder
<1> QED BY <1>1, <1>6, <1>7, <1>8, WaiterPartsNext

(* A step that leaves the queue and its order alone. *)
LEMMA QueueUntouched ==
  ASSUME PlaceInv, LeaseInvariants', UNCHANGED <<waiters, admitSeq>>,
         policy'.aging = policy.aging, policy'.weight = policy.weight,
         \A i \in DOMAIN waiters : AtRecordedRank(waiters[i], overrides'),
         \A i \in DOMAIN waiters : \A x : x = waiters[i].id /\ Holding(x)' => Holding(x)
  PROVE  LeaseInvariants' /\ WaiterInvariants'
<1>1. /\ IsOrdered(waiters, admitSeq) /\ GoodQueue(waiters, overrides)
      /\ WaitersApart
  BY WaiterParts DEF PlaceInv
<1>2. IsOrdered(waiters, admitSeq)'
  <2> SUFFICES ASSUME NEW i \in DOMAIN waiters, NEW j \in DOMAIN waiters, i < j
               PROVE  Outranks(waiters[i], waiters[j], admitSeq)'
    BY DEF IsOrdered
  <2>1. Outranks(waiters[i], waiters[j], admitSeq)
    BY <1>1 DEF IsOrdered
  <2>2. /\ ClassScore(waiters[i], admitSeq)' = ClassScore(waiters[i], admitSeq)
        /\ ClassScore(waiters[j], admitSeq)' = ClassScore(waiters[j], admitSeq)
    BY DEF ClassScore
  <2> QED BY <2>1, <2>2 DEF Outranks
<1>3. GoodQueue(waiters', overrides')
  BY <1>1 DEF GoodQueue, NobodyTwice
<1>4. WaitersApart'
  <2>1. \A i \in DOMAIN waiters : \A x : x = waiters[i].id => ~Holding(x)'
    BY <1>1 DEF WaitersApart
  <2> QED BY <2>1 DEF WaitersApart, Holding
<1> QED BY <1>2, <1>3, <1>4, WaiterPartsNext

(* Overrides are pruned of runs nobody waits for. *)
LEMMA UnlockRanks ==
  ASSUME PlaceInv, Unlock
  PROVE  \A i \in DOMAIN waiters : AtRecordedRank(waiters[i], overrides')
<1> SUFFICES ASSUME NEW i \in DOMAIN waiters
             PROVE  AtRecordedRank(waiters[i], overrides')
  OBVIOUS
<1> DEFINE w == waiters[i]
<1>1. AtRecordedRank(w, overrides)
  BY WaiterParts DEF PlaceInv, GoodQueue
<1>2. CASE overrides' = overrides
  BY <1>1, <1>2
<1>3. CASE overrides' = PrunedOverrides
  <2>1. \A r \in {w.id, w.owner, RunOf[w.id]} : RunPresent(r, waiters, leases)
    BY DEF RunPresent, BelongsToRun
  <2>2. \A r \in {w.id, w.owner, RunOf[w.id]} :
           /\ r \in DOMAIN overrides' <=> r \in DOMAIN overrides
           /\ r \in DOMAIN overrides => overrides'[r] = overrides[r]
    BY <1>3, <2>1 DEF PrunedOverrides
  <2> DEFINE ranks == overrides'
  <2>3. \A r \in {w.id, w.owner, RunOf[w.id]} :
           /\ r \in DOMAIN ranks <=> r \in DOMAIN overrides
           /\ r \in DOMAIN overrides => ranks[r] = overrides[r]
    BY <2>2
  <2> HIDE DEF ranks
  <2>4. AtRecordedRank(w, ranks)
    BY <1>1, <2>3 DEF AtRecordedRank, OverrideFor
  <2> QED BY <2>4 DEF ranks
<1> QED BY <1>2, <1>3 DEF Unlock

(* Every step keeps the leases apart and the queue in order. *)
LEMMA NextPlace == PlaceInv /\ [Next]_vars => PlaceInv'
<1> SUFFICES ASSUME PlaceInv, [Next]_vars PROVE LeaseInvariants' /\ WaiterInvariants'
  BY NextType DEF PlaceInv
<1>1. TypeInv /\ TypeInv' /\ LeaseInvariants /\ WaiterInvariants
  BY NextType DEF PlaceInv
<1>2. \A i \in DOMAIN waiters : AtRecordedRank(waiters[i], overrides)
  BY <1>1, WaiterParts DEF GoodQueue
<1>3. ASSUME NEW q \in Requests,
             SubmitGranted(q) \/ SubmitQueued(q) \/ SubmitAging(q) \/ ReplaceWaiter(q)
      PROVE  LeaseInvariants' /\ WaiterInvariants'
  BY <1>3, SubmitPlace, ReplaceWaiterPlace
<1>4. ASSUME NEW i \in DOMAIN waiters, CancelWaiter(i)
      PROVE  LeaseInvariants' /\ WaiterInvariants'
  BY <1>4, CancelWaiterPlace
<1>5. ASSUME NEW l \in DOMAIN leases, NEW m \in leases[l].members, ReleaseMember(l, m)
      PROVE  LeaseInvariants' /\ WaiterInvariants'
  <2>1. LeaseInvariants' /\ NoNewHolder
    BY <1>1, <1>5, ReleaseMemberLeases
  <2>2. UNCHANGED <<waiters, admitSeq, policy, overrides>>
    BY <1>5 DEF ReleaseMember
  <2> QED BY <1>2, <2>1, <2>2, QueueUntouched DEF NoNewHolder
<1>6. ASSUME NEW l \in DOMAIN leases, NEW m \in leases[l].members, ReleaseLast(l, m)
      PROVE  LeaseInvariants' /\ WaiterInvariants'
  <2>1. LeaseInvariants' /\ NoNewHolder
    BY <1>1, <1>6, ReleaseLastLeases
  <2>2. UNCHANGED <<waiters, admitSeq, policy, overrides>>
    BY <1>6 DEF ReleaseLast
  <2> QED BY <1>2, <2>1, <2>2, QueueUntouched DEF NoNewHolder
<1>7. ASSUME NEW l \in DOMAIN leases, NEW m \in Children, Attach(l, m)
      PROVE  LeaseInvariants' /\ WaiterInvariants'
  <2>1. LeaseInvariants' /\ \A i : Holding(i)' => Holding(i) \/ i = m
    BY <1>1, <1>7, AttachLeases
  <2>2. UNCHANGED <<waiters, admitSeq, policy, overrides>>
    BY <1>7 DEF Attach
  <2>3. \A i \in DOMAIN waiters : waiters[i].id # m
    BY <1>7 DEF Attach, Fresh, Waiting
  <2> QED BY <1>2, <2>1, <2>2, <2>3, QueueUntouched
<1>8. ASSUME NEW l \in DOMAIN leases, NEW m \in Children, Depend(m, l)
      PROVE  LeaseInvariants' /\ WaiterInvariants'
  <2>1. LeaseInvariants' /\ NoNewHolder
    BY <1>1, <1>8, DependLeases
  <2>2. UNCHANGED <<waiters, admitSeq, policy, overrides>>
    BY <1>8 DEF Depend
  <2> QED BY <1>2, <2>1, <2>2, QueueUntouched DEF NoNewHolder
<1>9. ASSUME NEW run \in Ids, NEW p \in Priorities, SetPriority(run, p)
      PROVE  LeaseInvariants' /\ WaiterInvariants'
  BY <1>9, SetPriorityPlace
<1>10. ASSUME NEW p \in Policies, SetSchedulingPolicy(p)
       PROVE  LeaseInvariants' /\ WaiterInvariants'
  BY <1>1, <1>10, SetSchedulingPolicyPlace DEF TypeInv
<1>11. CASE Promote
  BY <1>11, PromotePlace
<1>12. ASSUME UNCHANGED <<leases, waiters, admitSeq, policy, overrides>>
       PROVE  LeaseInvariants' /\ WaiterInvariants'
  <2>1. LeaseInvariants' /\ NoNewHolder
    BY <1>1, <1>12, SameLeases
  <2> QED BY <1>2, <1>12, <2>1, QueueUntouched DEF NoNewHolder
<1>13. ASSUME NEW h \in Headrooms, SetHeadroom(h)
       PROVE  LeaseInvariants' /\ WaiterInvariants'
  BY <1>12, <1>13 DEF SetHeadroom
<1>14. ASSUME NEW b \in Resizes, ResizeTotals(b)
       PROVE  LeaseInvariants' /\ WaiterInvariants'
  BY <1>12, <1>14 DEF ResizeTotals
<1>15. CASE Restore
  <2>1. LeaseInvariants' /\ NoNewHolder
    BY <1>1, <1>15, SameLeases DEF Restore
  <2>2. PICK n : policy' = [policy EXCEPT !.burst = n]
    BY <1>15 DEF Restore
  <2>3. policy'.aging = policy.aging /\ policy'.weight = policy.weight
    BY <1>1, <2>2 DEF TypeInv, TypeOK, Policy
  <2>4. UNCHANGED <<waiters, admitSeq, overrides>>
    BY <1>15 DEF Restore
  <2> QED BY <1>2, <2>1, <2>3, <2>4, QueueUntouched DEF NoNewHolder
<1>16. CASE Unlock
  <2>1. LeaseInvariants' /\ NoNewHolder
    BY <1>1, <1>16, SameLeases DEF Unlock
  <2>2. \A i \in DOMAIN waiters : AtRecordedRank(waiters[i], overrides')
    BY <1>16, UnlockRanks
  <2>3. UNCHANGED <<waiters, admitSeq, policy>>
    BY <1>16 DEF Unlock
  <2> QED BY <2>1, <2>2, <2>3, QueueUntouched DEF NoNewHolder
<1>17. CASE UNCHANGED vars
  BY <1>12, <1>17 DEF vars
<1>18. CASE Next
  BY <1>18, <1>3, <1>4, <1>5, <1>6, <1>7, <1>8, <1>9, <1>10, <1>11, <1>13, <1>14,
     <1>15, <1>16 DEF Next
<1> QED BY <1>17, <1>18

(* Both hold in every reachable state. *)
THEOREM PlacesSound == Spec => []PlaceInv
BY InitPlace, NextPlace, PTL DEF Spec

(* Whatever the requests, the families and the order they attach, depend   *)
(* and leave in: no lease outlives its members, no run is a member of two  *)
(* leases, and dependents and marks name runs that hold (grant, attach,    *)
(* dependOn, releaseMember, free and leaseInvariants).                     *)
THEOREM LeasesApart == Spec => []LeaseInvariants
<1>1. PlaceInv => LeaseInvariants
  BY DEF PlaceInv
<1> QED BY <1>1, PlacesSound, PTL

(* Whatever the policy, the ranks operators set and the restarts between:  *)
(* the queue is in service order, everyone at the rank recorded for it, and *)
(* names nobody twice and nobody who holds (sortWaiters, SetPriority,      *)
(* pruneOverrides and waiterInvariants).                                   *)
THEOREM QueueInOrder == Spec => []WaiterInvariants
<1>1. PlaceInv => WaiterInvariants
  BY DEF PlaceInv
<1> QED BY <1>1, PlacesSound, PTL

-----------------------------------------------------------------------------
(* Dependents are told *)

(* What DependentsTold asks of a step, for one member of a lease. *)
Told(o, m) ==
  \/ \E l \in DOMAIN leases : m \in leases[l].dependents /\ Ends(l)
  \/ \E l \in DOMAIN leases : m \in leases[l].orphaned
  => m \in leases'[o].orphaned \/ ~Holding(m)

(* A lease carries the marks of its own members only. *)
LEMMA MarksAtHome ==
  ASSUME PlaceInv, NEW o \in DOMAIN leases, NEW m \in leases[o].members,
         NEW l \in DOMAIN leases, m \in leases[l].orphaned
  PROVE  l = o
<1>1. m \in leases[l].members
  BY DEF PlaceInv, LeaseInvariants
<1> QED BY <1>1 DEF PlaceInv, LeaseInvariants

(* A step that ends no lease, supersedes no hold and keeps the marks of    *)
(* those who stay.                                                         *)
LEMMA QuietTold ==
  ASSUME PlaceInv, sems' = sems, DOMAIN leases' = DOMAIN leases,
         \A o \in DOMAIN leases : \A m \in leases'[o].members :
           /\ m \in leases[o].members \/ ~Holding(m)
           /\ m \in leases[o].orphaned => m \in leases'[o].orphaned,
         NEW o \in DOMAIN leases', NEW m \in leases'[o].members
  PROVE  Told(o, m)
<1> SUFFICES ASSUME Holding(m),
                    \/ \E l \in DOMAIN leases : m \in leases[l].dependents /\ Ends(l)
                    \/ \E l \in DOMAIN leases : m \in leases[l].orphaned
             PROVE  m \in leases'[o].orphaned
  BY DEF Told
<1>1. \A l \in DOMAIN leases : ~Ends(l)
  BY DEF Ends, LiveHolds
<1>2. PICK l \in DOMAIN leases : m \in leases[l].orphaned
  BY <1>1
<1>3. m \in leases[o].members
  OBVIOUS
<1>4. l = o
  BY <1>2, <1>3, MarksAtHome
<1> QED BY <1>2, <1>4

(* A grant tells those who depend on the leases it supersedes. *)
LEMMA GrantTold ==
  ASSUME PlaceInv, NEW s \in Waiter, Grant(s), ~Holding(s.id),
         NEW o \in DOMAIN leases', NEW m \in leases'[o].members
  PROVE  Told(o, m)
<1> SUFFICES ASSUME Holding(m),
                    \/ \E l \in DOMAIN leases : m \in leases[l].dependents /\ Ends(l)
                    \/ \E l \in DOMAIN leases : m \in leases[l].orphaned
             PROVE  m \in leases'[o].orphaned
  BY DEF Told
<1> DEFINE id == leaseSeq + 1
<1>1. TypeInv /\ TypeOK /\ HoldsMatchClaims
  BY DEF PlaceInv, TypeInv
<1>2. /\ id \notin DOMAIN leases /\ DOMAIN leases' = DOMAIN leases \cup {id}
      /\ leases'[id].members = {s.id}
      /\ \A l \in DOMAIN leases :
           /\ leases'[l].members = leases[l].members
           /\ leases[l].orphaned \subseteq leases'[l].orphaned
           /\ \A k \in Claimed(s) : \A e \in Evicted(k, s.claims[k]) :
                leases[e].dependents \cap leases[l].members \subseteq leases'[l].orphaned
  BY <1>1, GrantMembers
<1>3. sems' = [k \in Keys |->
        IF k \notin Claimed(s) THEN sems[k]
        ELSE [l \in DOMAIN sems[k] \cup {id} |->
                IF l = id THEN [cost |-> s.claims[k].cost,
                                capacity |-> s.claims[k].capacity, by |-> 0]
                ELSE IF l \in Evicted(k, s.claims[k]) THEN [sems[k][l] EXCEPT !.by = id]
                ELSE sems[k][l]]]
  BY DEF Grant
<1> HIDE DEF id
<1>4. o \in DOMAIN leases /\ m \in leases[o].members
  BY <1>2
<1>5. ASSUME NEW l \in DOMAIN leases, m \in leases[l].dependents, Ends(l)
      PROVE  m \in leases'[o].orphaned
  <2>1. PICK k \in Keys : l \in LiveHolds(k) /\ sems'[k][l].by # 0
    BY <1>2, <1>5 DEF Ends
  <2>2. l \in DOMAIN sems[k] /\ sems[k][l].by = 0 /\ l # id
    BY <1>2, <1>5, <2>1 DEF LiveHolds
  <2>3. k \in Claimed(s)
    BY <1>3, <2>1, <2>2
  <2>4. l \in Evicted(k, s.claims[k])
    BY <1>3, <2>1, <2>2, <2>3
  <2> QED BY <1>2, <1>4, <1>5, <2>3, <2>4
<1>6. ASSUME NEW l \in DOMAIN leases, m \in leases[l].orphaned
      PROVE  m \in leases'[o].orphaned
  <2>1. l = o
    BY <1>4, <1>6, MarksAtHome
  <2> QED BY <1>2, <1>4, <1>6, <2>1
<1> QED BY <1>5, <1>6

(* A lease that ends tells those who depend on it. *)
LEMMA ReleaseLastTold ==
  ASSUME PlaceInv, NEW l \in DOMAIN leases, NEW gone, ReleaseLast(l, gone),
         NEW o \in DOMAIN leases', NEW m \in leases'[o].members
  PROVE  Told(o, m)
<1> SUFFICES ASSUME NEW x \in DOMAIN leases,
                    \/ m \in leases[x].dependents /\ Ends(x)
                    \/ m \in leases[x].orphaned
             PROVE  m \in leases'[o].orphaned
  BY DEF Told
<1>1. TypeInv /\ LeaseInvariants /\ leases[l].members = {gone}
  BY DEF PlaceInv, ReleaseLast
<1>2. /\ DOMAIN leases' = DOMAIN leases \ {l}
      /\ \A a \in DOMAIN leases' :
           /\ leases'[a].members = leases[a].members
           /\ leases'[a].dependents = leases[a].dependents \ {gone}
           /\ leases'[a].orphaned = leases[a].orphaned
                \cup ((leases[l].dependents \ {gone}) \cap leases[a].members)
  BY <1>1, ReleaseLastMembers
<1>3. sems' = [k \in Keys |-> IF k \in Claimed(leases[l])
                              THEN [h \in DOMAIN sems[k] \ {l} |-> sems[k][h]]
                              ELSE sems[k]]
  BY DEF ReleaseLast, DropHold
<1>4. o \in DOMAIN leases /\ o # l /\ m \in leases[o].members /\ m # gone
  BY <1>1, <1>2 DEF LeaseInvariants
<1>5. CASE m \in leases[x].dependents /\ Ends(x)
  <2>1. x = l
    <3> SUFFICES ASSUME x # l PROVE FALSE
      OBVIOUS
    <3>1. PICK k \in Keys : x \in LiveHolds(k) /\ sems'[k][x].by # 0
      BY <1>2, <1>5 DEF Ends
    <3>2. sems'[k][x] = sems[k][x]
      BY <1>3, <3>1 DEF LiveHolds
    <3> QED BY <3>1, <3>2 DEF LiveHolds
  <2> QED BY <1>2, <1>4, <1>5, <2>1
<1>6. CASE m \in leases[x].orphaned
  BY <1>2, <1>4, <1>6, MarksAtHome
<1> QED BY <1>5, <1>6

(* Every step tells whom it must. *)
LEMMA NextTold ==
  ASSUME PlaceInv, Next, NEW o \in DOMAIN leases', NEW m \in leases'[o].members
  PROVE  Told(o, m)
<1>1. /\ TypeInv /\ TypeOK /\ LeaseInvariants /\ WaitersApart
      /\ waiters \in Seq(Waiter)
  BY WaiterParts DEF PlaceInv, TypeInv, TypeOK
<1>2. CASE sems' = sems /\ leases' = leases
  BY <1>2, QuietTold
<1>3. ASSUME NEW q \in Requests, NEW queue, Submittable(q), GrantFresh(Normalize(q), queue)
      PROVE  Told(o, m)
  <2>1. Normalize(q) \in Waiter
    BY <1>1, <1>3, NormalizeFacts DEF Submittable
  <2>2. Grant(Normalize(q))
    BY <1>3 DEF GrantFresh
  <2>3. ~Holding(Normalize(q).id)
    BY <1>3 DEF Submittable, Fresh, Normalize
  <2> QED BY <2>1, <2>2, <2>3, GrantTold
<1>4. ASSUME NEW q \in Requests, SubmitGranted(q) PROVE Told(o, m)
  BY <1>3, <1>4 DEF SubmitGranted
<1>5. ASSUME NEW q \in Requests, SubmitQueued(q) PROVE Told(o, m)
  BY <1>2, <1>5 DEF SubmitQueued, Enqueue
<1>6. ASSUME NEW q \in Requests, SubmitAging(q) PROVE Told(o, m)
  <2>1. \/ \E queue \in Sorted(waiters, admitSeq + 1) : GrantFresh(Normalize(q), queue)
        \/ sems' = sems /\ leases' = leases
    BY <1>6 DEF SubmitAging, Enqueue
  <2>2. Submittable(q)
    BY <1>6 DEF SubmitAging
  <2> QED BY <1>2, <1>3, <2>1, <2>2
<1>7. ASSUME NEW q \in Requests, ReplaceWaiter(q) PROVE Told(o, m)
  BY <1>2, <1>7 DEF ReplaceWaiter
<1>8. ASSUME NEW i \in DOMAIN waiters, CancelWaiter(i) PROVE Told(o, m)
  BY <1>2, <1>8 DEF CancelWaiter
<1>9. ASSUME NEW l \in DOMAIN leases, NEW gone \in leases[l].members, ReleaseMember(l, gone)
      PROVE  Told(o, m)
  <2> DEFINE held == Leave(l, gone)
  <2>1. leases' = held /\ sems' = sems
    BY <1>9 DEF ReleaseMember
  <2>2. DOMAIN held = DOMAIN leases
    BY <1>1, LeaveFacts
  <2>3. \A a \in DOMAIN leases :
          /\ held[a].members = IF a = l THEN leases[a].members \ {gone}
                                        ELSE leases[a].members
          /\ held[a].orphaned = IF a = l THEN leases[a].orphaned \ {gone}
                                         ELSE leases[a].orphaned
          /\ held[a].dependents = leases[a].dependents \ {gone}
    BY <1>1, LeaveMembers
  <2> HIDE DEF held
  <2>4. \A a \in DOMAIN leases : \A x \in leases'[a].members :
          /\ x \in leases[a].members
          /\ x \in leases[a].orphaned => x \in leases'[a].orphaned
    BY <2>1, <2>3
  <2> QED BY <2>1, <2>2, <2>4, QuietTold
<1>10. ASSUME NEW l \in DOMAIN leases, NEW gone \in leases[l].members, ReleaseLast(l, gone)
       PROVE  Told(o, m)
  BY <1>10, ReleaseLastTold
<1>11. ASSUME NEW l \in DOMAIN leases, NEW c \in Children, Attach(l, c)
       PROVE  Told(o, m)
  <2>1. ~Holding(c) /\ sems' = sems
    BY <1>11 DEF Attach, Fresh
  <2>2. /\ DOMAIN leases' = DOMAIN leases
        /\ \A a \in DOMAIN leases :
             /\ leases'[a].members = IF a = l THEN leases[a].members \cup {c}
                                              ELSE leases[a].members
             /\ leases'[a].orphaned = leases[a].orphaned
    BY <1>1, <1>11, AttachMembers
  <2>3. \A a \in DOMAIN leases : \A x \in leases'[a].members :
          x \in leases[a].members \/ x = c
    BY <2>2
  <2>4. \A a \in DOMAIN leases : \A x \in leases'[a].members :
          /\ x \in leases[a].members \/ ~Holding(x)
          /\ x \in leases[a].orphaned => x \in leases'[a].orphaned
    BY <2>1, <2>2, <2>3
  <2> QED BY <2>1, <2>2, <2>4, QuietTold
<1>12. ASSUME NEW l \in DOMAIN leases, NEW c \in Children, Depend(c, l)
       PROVE  Told(o, m)
  <2>1. sems' = sems
    BY <1>12 DEF Depend
  <2>2. /\ DOMAIN leases' = DOMAIN leases
        /\ \A a \in DOMAIN leases : /\ leases'[a].members = leases[a].members
                                    /\ leases'[a].orphaned = leases[a].orphaned
    BY <1>1, <1>12, DependMembers
  <2> QED BY <2>1, <2>2, QuietTold
<1>13. ASSUME NEW h \in Headrooms, SetHeadroom(h) PROVE Told(o, m)
  BY <1>2, <1>13 DEF SetHeadroom
<1>14. ASSUME NEW b \in Resizes, ResizeTotals(b) PROVE Told(o, m)
  BY <1>2, <1>14 DEF ResizeTotals
<1>15. ASSUME NEW run \in Ids, NEW p \in Priorities, SetPriority(run, p) PROVE Told(o, m)
  BY <1>2, <1>15 DEF SetPriority
<1>16. CASE Restore
  BY <1>2, <1>16 DEF Restore
<1>17. ASSUME NEW p \in Policies, SetSchedulingPolicy(p) PROVE Told(o, m)
  BY <1>2, <1>17 DEF SetSchedulingPolicy
<1>18. CASE Promote
  <2>1. PICK i \in DOMAIN waiters : Grant(waiters[i])
    BY <1>18 DEF Promote
  <2>2. waiters[i] \in Waiter /\ ~Holding(waiters[i].id)
    BY <1>1 DEF WaitersApart
  <2> QED BY <2>1, <2>2, GrantTold
<1>19. CASE Unlock
  BY <1>2, <1>19 DEF Unlock
<1> QED BY <1>4, <1>5, <1>6, <1>7, <1>8, <1>9, <1>10, <1>11, <1>12, <1>13, <1>14,
           <1>15, <1>16, <1>17, <1>18, <1>19 DEF Next

(* A run that depends on a lease is marked in the very step that ends the  *)
(* lease or supersedes one of its holds, and keeps the mark through every  *)
(* later step, restarts included, for as long as it holds anything         *)
(* (orphan, grant, free and Restore).                                      *)
THEOREM EndsAreTold == Spec => DependentsTold
<1>1. PlaceInv /\ [Next]_vars =>
        [\A o \in DOMAIN leases' : \A m \in leases'[o].members : Told(o, m)]_vars
  BY NextTold
<1>2. Spec => [][\A o \in DOMAIN leases' : \A m \in leases'[o].members : Told(o, m)]_vars
  BY <1>1, PlacesSound, PTL DEF Spec
<1> QED BY <1>2 DEF DependentsTold, Told

-----------------------------------------------------------------------------
(* What the scan of the queue depends on: the machine, what is held, and   *)
(* the queue itself; not who belongs to a lease.                           *)

NothingScanned == [blocked |-> {}, reserved |-> {}]

(* scanWaiters goes through the queue one waiter at a time. *)
ScanInSteps ==
  \A queue \in Seq(Waiter) :
    /\ ScanWaiters(queue)[0] = NothingScanned
    /\ \A n \in 1..Len(queue) :
         \A scan, w : scan = ScanWaiters(queue)[n - 1] /\ w = queue[n]
                        => ScanWaiters(queue)[n] = ScanStep(scan, w)

LEMMA ScanRecursion == ScanInSteps
<1> SUFFICES ASSUME NEW queue \in Seq(Waiter)
             PROVE  /\ ScanWaiters(queue)[0] = NothingScanned
                    /\ \A n \in 1..Len(queue) :
                         ScanWaiters(queue)[n] = ScanStep(ScanWaiters(queue)[n - 1], queue[n])
  BY DEF ScanInSteps
<1> DEFINE N == Len(queue)
           R == {Reservation(queue[i]) : i \in 1..N}
           S == [blocked : SUBSET (Host \cup Keys), reserved : SUBSET R]
           F == [i \in 1..N |-> [x \in S |-> ScanStep(x, queue[i])]]
           Body(h) == [n \in 0..N |-> IF n = 0 THEN [blocked |-> {}, reserved |-> {}]
                                      ELSE ScanStep(h[n - 1], queue[n])]
           scan == CHOOSE h : h = Body(h)
<1>0. N \in Nat
  BY LenProperties
<1>1. NothingScanned \in S
  BY DEF NothingScanned
<1>2. ASSUME NEW i \in 1..N, NEW x \in S PROVE ScanStep(x, queue[i]) \in S
  <2> DEFINE w == queue[i]
             rs == FifoResources(w)
             some == {r \in rs : StarvedByYounger(w, r)}
  <2>1. Reservation(w) \in R
    OBVIOUS
  <2>2. rs \in SUBSET (Host \cup Keys)
    BY DEF FifoResources, Claimed
  <2>3. some \in SUBSET (Host \cup Keys)
    BY <2>2
  <2>4. /\ ScanStep(x, w) = IF ViolatedBy(w, x.reserved)
                            THEN [x EXCEPT !.reserved = x.reserved \cup {Reservation(w)}]
                            ELSE IF x.blocked \cap rs # {} \/ Fits(w)
                            THEN [x EXCEPT !.blocked = x.blocked \cup rs]
                            ELSE [x EXCEPT !.reserved = x.reserved \cup {Reservation(w)},
                                           !.blocked = x.blocked \cup some]
    BY DEF ScanStep
  <2> HIDE DEF R, rs, some, w
  <2> QED BY <2>1, <2>2, <2>3, <2>4 DEF w
<1> HIDE DEF S
<1>3. \A i \in 1..N : \A x \in S : F[i][x] = ScanStep(x, queue[i])
  OBVIOUS
<1>4. Steps(F, N, S)
  BY <1>2, <1>3 DEF Steps
<1> HIDE DEF F
<1>5. PICK f : Follows(f, N, S, NothingScanned, F)
  <2> HIDE DEF N
  <2> QED BY <1>0, <1>1, <1>4, IteratesExist
<1>6. f = Body(f)
  <2>1. \A i \in 1..N : f[i - 1] \in S
    BY <1>0, <1>5 DEF Follows
  <2>2. \A i \in 1..N : f[i] = ScanStep(f[i - 1], queue[i])
    BY <1>3, <1>5, <2>1 DEF Follows
  <2> QED BY <1>0, <1>5, <2>2 DEF NothingScanned, Follows
<1>7. scan = Body(scan)
  <2> HIDE DEF Body
  <2> QED BY <1>6
<1>8. ScanWaiters(queue) = scan
  BY DEF ScanWaiters
<1> HIDE DEF scan
<1>9. scan = [n \in 0..N |-> IF n = 0 THEN [blocked |-> {}, reserved |-> {}]
                             ELSE ScanStep(scan[n - 1], queue[n])]
  BY <1>7
<1> HIDE DEF N, Body
<1>10. scan[0] = NothingScanned
  BY <1>0, <1>9 DEF NothingScanned
<1>11. ASSUME NEW n \in 1..N PROVE scan[n] = ScanStep(scan[n - 1], queue[n])
  <2>1. n \in 0..N /\ n # 0
    BY <1>0
  <2> QED BY <1>9, <2>1
<1> QED BY <1>8, <1>10, <1>11 DEF N

LEMMA ScanRecursionNext == ScanInSteps'
BY ScanRecursion, PTL

(* Nothing changes of the machine and of what anybody holds. *)
SameMachine ==
  /\ UNCHANGED <<total, headroom, used, sems, policy>>
  /\ DOMAIN leases' = DOMAIN leases
  /\ \A l \in DOMAIN leases : SameHolding(leases'[l], leases[l])

LEMMA SameRoom ==
  ASSUME SameMachine
  PROVE  /\ \A r : Offered(r)' = Offered(r)
         /\ \A k : LiveHolds(k)' = LiveHolds(k)
         /\ \A k, held : HoldCost(k, held)' = HoldCost(k, held)
         /\ \A k, held, c : SemEffectiveCapacity(k, held, c)' = SemEffectiveCapacity(k, held, c)
         /\ \A k, c, held : FitsBeside(k, c, held)' <=> FitsBeside(k, c, held)
         /\ \A w, r : Capacity(w, r)' = Capacity(w, r)
<1>0. total' = total /\ headroom' = headroom /\ sems' = sems
  BY DEF SameMachine
<1>1. \A r : Offered(r)' = Offered(r)
  BY <1>0 DEF Offered
<1>2. \A k : LiveHolds(k)' = LiveHolds(k)
  BY <1>0 DEF LiveHolds
<1>3. \A k, held : HoldCost(k, held)' = HoldCost(k, held)
  BY <1>0 DEF HoldCost
<1>4. \A k, held, c : SemEffectiveCapacity(k, held, c)' = SemEffectiveCapacity(k, held, c)
  BY <1>0 DEF SemEffectiveCapacity
<1>5. \A k, c, held : FitsBeside(k, c, held)' <=> FitsBeside(k, c, held)
  BY <1>3, <1>4 DEF FitsBeside
<1>6. \A w, r : Capacity(w, r)' = Capacity(w, r)
  BY <1>1, <1>2, <1>4 DEF Capacity
<1> QED BY <1>1, <1>2, <1>3, <1>4, <1>5, <1>6

LEMMA SameFits ==
  ASSUME SameMachine, NEW s
  PROVE  Fits(s)' <=> Fits(s)
<1>0. total' = total /\ used' = used /\ sems' = sems /\ policy' = policy
  BY DEF SameMachine
<1>1. \A l \in DOMAIN leases : leases'[l].burst = leases[l].burst
  BY DEF SameMachine, SameHolding
<1>2. DOMAIN leases' = DOMAIN leases
  BY DEF SameMachine
<1>3. \A c : CoresFitBurst(c)' <=> CoresFitBurst(c)
  BY <1>0, <1>1, <1>2 DEF CoresFitBurst
<1>4. \A c : SoftCoresFit(c)' <=> SoftCoresFit(c)
  BY <1>0, SameRoom DEF SoftCoresFit
<1>5. ResourcesIdle' <=> ResourcesIdle
  BY <1>0, SameRoom DEF ResourcesIdle
<1>6. CoresFit(s)' <=> CoresFit(s)
  BY <1>0, <1>3, <1>4, SameRoom DEF CoresFit
<1>7. HostFits(s)' <=> HostFits(s)
  BY <1>0, <1>5, <1>6, SameRoom DEF HostFits
<1>8. \A k, c : SemBudgetFits(k, c)' <=> SemBudgetFits(k, c)
  BY SameRoom DEF SemBudgetFits
<1> QED BY <1>7, <1>8 DEF Fits

(* A lease costs what it did. *)
LEMMA SameCosts ==
  ASSUME SameMachine, NEW l \in DOMAIN leases, NEW r, NEW w
  PROVE  /\ leases'[l].admit = leases[l].admit
         /\ r \in Host \cup Keys => Cost(leases'[l], r) = Cost(leases[l], r)
         /\ ConflictsWithWaiter(leases'[l], w) <=> ConflictsWithWaiter(leases[l], w)
<1>1. SameHolding(leases'[l], leases[l])
  BY DEF SameMachine
<1>2. \A k \in Keys : Cost(leases'[l], k) = Cost(leases[l], k)
  BY <1>1, NamesAssumption DEF Cost, SameHolding, Claimed
<1>3. \A h \in Host : Cost(leases'[l], h) = Cost(leases[l], h)
  BY <1>1 DEF Cost, SameHolding, Host
<1>4. ConflictsWithWaiter(leases'[l], w) <=> ConflictsWithWaiter(leases[l], w)
  BY <1>2 DEF ConflictsWithWaiter, Claimed
<1> QED BY <1>1, <1>2, <1>3, <1>4 DEF SameHolding

LEMMA SameReservation ==
  ASSUME SameMachine, NEW w
  PROVE  Reservation(w)' = Reservation(w)
<1> DEFINE younger == {l \in DOMAIN leases : /\ leases[l].admit > w.admit
                                             /\ ~ConflictsWithWaiter(leases[l], w)}
           now == {l \in DOMAIN leases' : /\ leases'[l].admit > w.admit
                                          /\ ~ConflictsWithWaiter(leases'[l], w)}
           room(r, S) == Capacity(w, r) - Cost(w, r)
                           - SumFunctionOnSet([l \in S |-> Cost(leases[l], r)], S)
           next(r, S) == Capacity(w, r)' - Cost(w, r)
                           - SumFunctionOnSet([l \in S |-> Cost(leases'[l], r)], S)
<1>0. DOMAIN leases' = DOMAIN leases /\ policy' = policy
  BY DEF SameMachine
<1>1. younger = now
  BY <1>0, SameCosts
<1>2. ASSUME NEW r \in Host \cup Keys
      PROVE  next(r, now) = room(r, younger)
  <2>1. \A l \in younger : Cost(leases'[l], r) = Cost(leases[l], r)
    BY SameCosts
  <2>2. [l \in younger |-> Cost(leases'[l], r)] = [l \in younger |-> Cost(leases[l], r)]
    BY <2>1
  <2>3. Capacity(w, r)' = Capacity(w, r)
    BY SameRoom
  <2> HIDE DEF younger, now
  <2> QED BY <1>1, <2>2, <2>3
<1>3. FifoResources(w) \subseteq Host \cup Keys
  BY DEF FifoResources, Claimed
<1>4. Reservation(w) = [slack |-> Max({0, policy.delay[w.class] - w.delay}),
                        room |-> [r \in FifoResources(w) |-> room(r, younger)]]
  BY DEF Reservation
<1>5. Reservation(w)' = [slack |-> Max({0, policy'.delay[w.class] - w.delay}),
                         room |-> [r \in FifoResources(w) |-> next(r, now)]]
  BY DEF Reservation
<1> HIDE DEF room, next
<1>6. [r \in FifoResources(w) |-> next(r, now)] = [r \in FifoResources(w) |-> room(r, younger)]
  BY <1>2, <1>3
<1> QED BY <1>0, <1>4, <1>5, <1>6

LEMMA SameStarved ==
  ASSUME SameMachine, NEW w, NEW r \in Host \cup Keys
  PROVE  StarvedByYounger(w, r)' <=> StarvedByYounger(w, r)
<1> DEFINE older == {l \in DOMAIN leases : leases[l].admit <= w.admit}
           now == {l \in DOMAIN leases' : leases'[l].admit <= w.admit}
<1>0. DOMAIN leases' = DOMAIN leases
  BY DEF SameMachine
<1>1. now = older
  BY <1>0, SameCosts
<1>2. ASSUME NEW held \in SUBSET DOMAIN leases
      PROVE  UsedOf(r, held)' = UsedOf(r, held)
  <2>1. CASE r \in Host
    <3>1. \A l \in held : leases'[l][r] = leases[l][r]
      BY <2>1 DEF SameMachine, SameHolding, Host
    <3>2. [l \in held |-> leases'[l][r]] = [l \in held |-> leases[l][r]]
      BY <3>1
    <3> QED BY <2>1, <3>2 DEF UsedOf
  <2>2. CASE r \notin Host
    BY <2>2, SameRoom DEF UsedOf
  <2> QED BY <2>1, <2>2
<1>3. Capacity(w, r)' = Capacity(w, r)
  BY SameRoom
<1>4. UsedOf(r, DOMAIN leases)' = UsedOf(r, DOMAIN leases)
  <2>1. UsedOf(r, DOMAIN leases)' = IF r \in Host
          THEN SumFunctionOnSet([l \in DOMAIN leases' |-> leases'[l][r]], DOMAIN leases')
          ELSE HoldCost(r, LiveHolds(r) \cap DOMAIN leases)'
    BY DEF UsedOf
  <2>2. CASE r \in Host
    <3>1. [l \in DOMAIN leases' |-> leases'[l][r]] = [l \in DOMAIN leases |-> leases[l][r]]
      BY <1>0, <2>2 DEF SameMachine, SameHolding, Host
    <3> QED BY <1>0, <2>1, <2>2, <3>1 DEF UsedOf
  <2>3. CASE r \notin Host
    BY <1>0, <2>3, SameRoom DEF UsedOf, SameMachine, HoldCost
  <2> QED BY <2>2, <2>3
<1>5. UsedOf(r, {l \in DOMAIN leases : leases[l].admit <= w.admit})' = UsedOf(r, older)
  <2>1. CASE r \in Host
    <3>1. [l \in now |-> leases'[l][r]] = [l \in older |-> leases[l][r]]
      BY <1>0, <1>1, <2>1 DEF SameMachine, SameHolding, Host
    <3> HIDE DEF now, older
    <3>2. SumFunctionOnSet([l \in now |-> leases'[l][r]], now)
            = SumFunctionOnSet([l \in older |-> leases[l][r]], older)
      BY <1>1, <3>1
    <3> QED BY <2>1, <3>2 DEF UsedOf, now, older
  <2>2. CASE r \notin Host
    <3>1. sems' = sems
      BY DEF SameMachine
    <3>2. LiveHolds(r)' \cap now = LiveHolds(r) \cap older
      BY <1>1, SameRoom
    <3> QED BY <2>2, <3>1, <3>2 DEF UsedOf, HoldCost, now, older
  <2> QED BY <2>1, <2>2
<1> QED BY <1>3, <1>4, <1>5 DEF StarvedByYounger

(* The scan of a queue is what it was, and so is who may start. *)
LEMMA SameScanStep ==
  ASSUME SameMachine, NEW scan, NEW w
  PROVE  ScanStep(scan, w)' = ScanStep(scan, w)
<1>1. Reservation(w)' = Reservation(w)
  BY SameReservation
<1>2. Fits(w)' <=> Fits(w)
  BY SameFits
<1>3. {r \in FifoResources(w) : StarvedByYounger(w, r)'}
        = {r \in FifoResources(w) : StarvedByYounger(w, r)}
  <2>1. FifoResources(w) \subseteq Host \cup Keys
    BY DEF FifoResources, Claimed
  <2> QED BY <2>1, SameStarved
<1> QED BY <1>1, <1>2, <1>3 DEF ScanStep

LEMMA SameScan ==
  ASSUME SameMachine, NEW queue \in Seq(Waiter), NEW n \in 0..Len(queue)
  PROVE  ScanWaiters(queue)'[n] = ScanWaiters(queue)[n]
<1> DEFINE f == ScanWaiters(queue)
           g == ScanWaiters(queue)'
           N == Len(queue)
<1>0. N \in Nat
  BY LenProperties
<1>1. /\ f[0] = NothingScanned
      /\ \A i \in 1..N : \A scan, w :
           scan = f[i - 1] /\ w = queue[i] => f[i] = ScanStep(scan, w)
  BY ScanRecursion DEF ScanInSteps
<1>2. /\ g[0] = NothingScanned
      /\ \A i \in 1..N : \A scan, w :
           scan = g[i - 1] /\ w = queue[i] => g[i] = ScanStep(scan, w)'
  BY ScanRecursionNext DEF ScanInSteps, NothingScanned
<1> HIDE DEF f, g
<1>3. ASSUME NEW i \in 1..N, f[i - 1] = g[i - 1]
      PROVE  f[i] = g[i]
  <2>1. PICK scan, w : scan = f[i - 1] /\ w = queue[i]
    OBVIOUS
  <2>2. f[i] = ScanStep(scan, w) /\ g[i] = ScanStep(scan, w)'
    BY <1>1, <1>2, <1>3, <2>1
  <2> QED BY <2>2, SameScanStep
<1>4. f[0] = g[0]
  BY <1>1, <1>2
<1> HIDE DEF N
<1>5. StepsAlike(f, g, N)
  BY <1>3, <1>4 DEF StepsAlike
<1>6. \A i \in 0..N : f[i] = g[i]
  BY <1>0, <1>5, IteratesUnique
<1> QED BY <1>6 DEF f, g, N

(* The i-th waiter of queue may start. *)
Startable(queue, i) ==
  Fits(queue[i]) /\ Unhindered(queue[i], ScanWaiters(queue)[i - 1])

SomeoneStartable ==
  \A queue : queue = waiters =>
    (AnyPromotable <=> \E i \in DOMAIN queue : Startable(queue, i))

LEMMA PromotableIsStartable == SomeoneStartable
BY DEF SomeoneStartable, AnyPromotable, Promotable, Startable

LEMMA PromotableIsStartableNext == SomeoneStartable'
BY PromotableIsStartable, PTL

LEMMA SameStartable ==
  ASSUME SameMachine, NEW queue \in Seq(Waiter), NEW i \in DOMAIN queue
  PROVE  Startable(queue, i)' <=> Startable(queue, i)
<1>1. i - 1 \in 0..Len(queue)
  BY LenProperties
<1>2. ScanWaiters(queue)'[i - 1] = ScanWaiters(queue)[i - 1]
  BY <1>1, SameScan
<1>3. PICK w : w = queue[i]
  OBVIOUS
<1>4. Fits(w)' <=> Fits(w)
  BY SameFits
<1>5. Fits(queue[i])' <=> Fits(w)'
  BY <1>3 DEF Fits, HostFits, CoresFit, SemBudgetFits, FitsBeside
<1> QED BY <1>2, <1>3, <1>4, <1>5 DEF Startable, Unhindered, ViolatedBy

LEMMA SamePromotable ==
  ASSUME TypeOK, SameMachine, waiters' = waiters
  PROVE  AnyPromotable' <=> AnyPromotable
<1>1. PICK queue : queue = waiters
  OBVIOUS
<1>2. queue \in Seq(Waiter)
  BY <1>1 DEF TypeOK
<1>3. AnyPromotable <=> \E i \in DOMAIN queue : Startable(queue, i)
  BY <1>1, PromotableIsStartable DEF SomeoneStartable
<1>4. AnyPromotable' <=> \E i \in DOMAIN queue : Startable(queue, i)'
  BY <1>1, PromotableIsStartableNext DEF SomeoneStartable
<1> QED BY <1>2, <1>3, <1>4, SameStartable

-----------------------------------------------------------------------------
(* Owners' ranks, and what can make an operation panic *)

(* x came in by rank now, and its owner not after it. *)
RankedBy(x, now) ==
  /\ x.ownerAdmit \in 1..x.admit /\ x.admit <= now
  /\ x.owner = None => x.ownerAdmit = x.admit

RankInv ==
  /\ \A l \in DOMAIN leases : RankedBy(leases[l], admitSeq)
  /\ \A i \in DOMAIN waiters : RankedBy(waiters[i], admitSeq)

(* The owner of x was let in again after x took its rank from it. *)
StaleOwner(x) ==
  /\ x.owner # None /\ Holding(x.owner)
  /\ leases[LeaseOf(x.owner)].admit # x.ownerAdmit

OwnerReadmitted ==
  \/ \E l \in DOMAIN leases : StaleOwner(leases[l])
  \/ \E i \in DOMAIN waiters : StaleOwner(waiters[i])

(* ownerRankInvariant fails only of a participant whose owner came back. *)
LEMMA OwnerRanksFacts ==
  ASSUME TypeOK, RankInv
  PROVE  OwnerRanks <=> ~OwnerReadmitted
<1>1. ASSUME NEW x, x.admit \in Nat, x.ownerAdmit \in Nat, RankedBy(x, admitSeq)
      PROVE  OwnerRank(x) <=> ~StaleOwner(x)
  <2>1. admitSeq \in Int
    BY HostAssumption DEF TypeOK
  <2>2. x.ownerAdmit <= admitSeq
    BY <1>1, <2>1 DEF RankedBy
  <2> QED BY <1>1, <2>2 DEF OwnerRank, StaleOwner, RankedBy
<1>2. \A l \in DOMAIN leases : /\ leases[l].admit \in Nat /\ leases[l].ownerAdmit \in Nat
                               /\ RankedBy(leases[l], admitSeq)
  BY DEF RankInv, TypeOK, Lease
<1>3. \A i \in DOMAIN waiters : /\ waiters[i].admit \in Nat /\ waiters[i].ownerAdmit \in Nat
                                /\ RankedBy(waiters[i], admitSeq)
  <2>1. \A i \in DOMAIN waiters : waiters[i] \in Waiter
    BY DEF TypeOK
  <2> QED BY <2>1 DEF RankInv, Waiter
<1> QED BY <1>1, <1>2, <1>3 DEF OwnerRanks, OwnerReadmitted

(* The rank a request takes from its owner. *)
LEMMA ArrivedRank ==
  ASSUME TypeOK, RankInv, NEW v, Arrived(v)
  PROVE  RankedBy(v, admitSeq')
<1>1. PICK q \in Requests : SameRank(v, Normalize(q)) /\ admitSeq' = admitSeq + 1
  BY DEF Arrived
<1>2. /\ v.admit = admitSeq + 1 /\ v.owner = q.owner
      /\ v.ownerAdmit = OwnerAdmissionRank(q.owner)
  BY <1>1 DEF SameRank, Normalize
<1>3. admitSeq \in Nat
  BY HostAssumption DEF TypeOK
<1>4. OwnerAdmissionRank(q.owner) \in 1..(admitSeq + 1)
  <2>1. CASE q.owner # None /\ Holding(q.owner)
    <3>1. LeaseOf(q.owner) \in DOMAIN leases
      BY <2>1 DEF Holding, LeaseOf
    <3>2. /\ leases[LeaseOf(q.owner)].ownerAdmit \in 1..leases[LeaseOf(q.owner)].admit
          /\ leases[LeaseOf(q.owner)].admit <= admitSeq
          /\ leases[LeaseOf(q.owner)].admit \in Nat
      BY <3>1 DEF RankInv, RankedBy, TypeOK, Lease
    <3>3. leases[LeaseOf(q.owner)].admit \in 1..(admitSeq + 1)
      BY <1>3, <3>2
    <3> QED BY <2>1, <3>3 DEF OwnerAdmissionRank
  <2>2. CASE ~(q.owner # None /\ Holding(q.owner))
    BY <1>3, <2>2 DEF OwnerAdmissionRank
  <2> QED BY <2>1, <2>2
<1>5. q.owner = None => OwnerAdmissionRank(q.owner) = admitSeq + 1
  BY DEF OwnerAdmissionRank
<1> QED BY <1>1, <1>2, <1>3, <1>4, <1>5 DEF RankedBy

LEMMA NextRank ==
  ASSUME TypeInv, HostInv, RankInv, [Next]_vars
  PROVE  RankInv'
<1>0. TypeOK /\ HoldsMatchClaims /\ TypeOK' /\ WaitersBounded
  BY NextType DEF TypeInv, HostInv
<1>1. admitSeq \in Nat /\ admitSeq' \in {admitSeq, admitSeq + 1}
  BY <1>0, StepWaiters, HostAssumption DEF TypeOK
<1>2. ASSUME NEW x, NEW v, RankedBy(x, admitSeq), v.admit = x.admit,
             v.ownerAdmit = x.ownerAdmit, v.owner = x.owner, x.admit \in Nat
      PROVE  RankedBy(v, admitSeq')
  BY <1>1, <1>2 DEF RankedBy
<1>3. ASSUME NEW w \in Queued(waiters)
      PROVE  RankedBy(w, admitSeq) /\ w.admit \in Nat
  <2>1. \A i \in DOMAIN waiters : waiters[i] \in Waiter
    BY <1>0 DEF TypeOK
  <2> QED BY <2>1 DEF Queued, RankInv, Waiter
<1>4. ASSUME NEW i \in DOMAIN waiters' PROVE RankedBy(waiters'[i], admitSeq')
  <2>1. CASE Stayed(waiters'[i])
    <3>1. PICK w \in Queued(waiters) : SameRank(waiters'[i], w)
      BY <2>1 DEF Stayed
    <3> QED BY <1>2, <1>3, <3>1 DEF SameRank
  <2>2. CASE Arrived(waiters'[i])
    BY <1>0, <2>2, ArrivedRank
  <2> QED BY <2>1, <2>2, StepWaiters
<1>5. ASSUME NEW l \in DOMAIN leases, NEW v, SameHolding(v, leases[l])
      PROVE  RankedBy(v, admitSeq')
  <2>1. RankedBy(leases[l], admitSeq) /\ leases[l].admit \in Nat
    BY <1>0 DEF RankInv, TypeOK, Lease
  <2> QED BY <1>2, <1>5, <2>1 DEF SameHolding
<1>6. \A l \in DOMAIN leases' : RankedBy(leases'[l], admitSeq')
  <2>1. CASE SameBooks
    BY <1>5, <2>1 DEF SameBooks
  <2>2. ASSUME NEW s, LetIn(s), s \in Queued(waiters) \/ Arrived(s)
        PROVE  \A l \in DOMAIN leases' : RankedBy(leases'[l], admitSeq')
    <3>id. PICK id : id = leaseSeq + 1
      OBVIOUS
    <3>1. /\ DOMAIN leases' = DOMAIN leases \cup {id}
          /\ leases'[id] = NewLease(s)
          /\ \A l \in DOMAIN leases : SameHolding(leases'[l], leases[l])
      BY <1>0, <2>2, <3>id, GrantFacts DEF LetIn
    <3>2. RankedBy(s, admitSeq')
      <4>1. CASE s \in Queued(waiters)
        BY <1>2, <1>3, <4>1
      <4>2. CASE Arrived(s)
        BY <1>0, <4>2, ArrivedRank
      <4> QED BY <2>2, <4>1, <4>2
    <3>3. RankedBy(NewLease(s), admitSeq')
      BY <3>2 DEF RankedBy, NewLease
    <3> QED BY <1>5, <3>1, <3>3
  <2>3. ASSUME NEW l \in DOMAIN leases, NEW m, ReleaseLast(l, m)
        PROVE  \A o \in DOMAIN leases' : RankedBy(leases'[o], admitSeq')
    <3>1. /\ DOMAIN leases' = DOMAIN leases \ {l}
          /\ \A o \in DOMAIN leases' : SameHolding(leases'[o], leases[o])
      BY <1>0, <2>3, ReleaseLastFacts
    <3> QED BY <1>5, <3>1
  <2> QED BY <1>0, <2>1, <2>2, <2>3, StepLeases
<1> QED BY <1>4, <1>6 DEF RankInv

(* Everything mustHoldInvariants looks at but who may start. *)
LedgerInv == PlaceInv /\ HostInv /\ BooksInv /\ RankInv

LEMMA InitLedger == Init => LedgerInv
<1>1. Init => RankInv
  BY DEF Init, EmptyFcn, RankInv
<1> QED BY <1>1, InitPlace, InitHost, InitBooks DEF LedgerInv

LEMMA NextLedger == LedgerInv /\ [Next]_vars => LedgerInv'
BY NextPlace, NextHost, NextBooks, NextRank DEF LedgerInv, PlaceInv

(* mustHoldInvariants fails only of an owner that came back or of a waiter *)
(* that could start.                                                       *)
LEMMA ViolationCauses ==
  ASSUME LedgerInv
  PROVE  InvariantViolation <=> AnyPromotable \/ OwnerReadmitted
<1>1. TypeOK /\ TypeInv /\ HoldsMatchClaims /\ LeaseInvariants /\ WaiterInvariants
  BY DEF LedgerInv, PlaceInv, TypeInv
<1>2. HostBounds /\ HostBooks /\ SemaphoreBounds
  BY <1>1, HostInvBounds, BooksInvBounds DEF LedgerInv, BooksInv
<1>3. OwnerRanks <=> ~OwnerReadmitted
  BY <1>1, OwnerRanksFacts DEF LedgerInv
<1> QED BY <1>1, <1>2, <1>3 DEF InvariantViolation

(* The two ways an operation can end in a panic: the owner of somebody who *)
(* holds or waits was let in again since, or the operation is one that     *)
(* does not run the promote loop and left a waiter that could start.       *)
PanicsOnlyFor ==
  mu # "panic" /\ mu' = "panic" =>
    OwnerReadmitted \/ (mu = "check" /\ AnyPromotable)

(* Whatever the requests, policies, ranks, families and restarts, an       *)
(* operation that ends in the promote loop panics only over the rank of an *)
(* owner that was let in again; any other only over that or over a waiter  *)
(* it should have promoted.  The books, the bounds, the holds, the members *)
(* and the order of the queue never make it panic (mustHoldInvariants).    *)
THEOREM PanicCauses == Spec => [][PanicsOnlyFor]_vars
<1>1. LedgerInv /\ [Next]_vars => [PanicsOnlyFor]_vars
  <2> SUFFICES ASSUME LedgerInv, [Next]_vars, mu # "panic", mu' = "panic"
               PROVE  OwnerReadmitted \/ (mu = "check" /\ AnyPromotable)
    BY DEF PanicsOnlyFor
  <2>1. TypeOK
    BY DEF LedgerInv, PlaceInv, TypeInv
  <2>2. Unlock
    <3>1. Next
      BY DEF vars
    <3> QED BY <3>1 DEF Next, SubmitGranted, SubmitQueued, SubmitAging, GrantFresh,
           Enqueue, ReplaceWaiter, CancelWaiter, ReleaseMember, ReleaseLast, Attach,
           Depend, SetHeadroom, ResizeTotals, SetPriority, Restore,
           SetSchedulingPolicy, Promote
  <2>3. InvariantViolation /\ (mu = "check" \/ ~AnyPromotable)
    BY <2>2 DEF Unlock
  <2> QED BY <2>3, ViolationCauses
<1>2. Spec => []LedgerInv
  BY InitLedger, NextLedger, PTL DEF Spec
<1> QED BY <1>1, <1>2, PTL DEF Spec

-----------------------------------------------------------------------------
(* Lineages: the parents a lease records lead from every member to the run *)
(* that was granted the lease or to its owner.  rank orders the runs of a  *)
(* family: a run comes after the run that started it.                      *)

Known(le) == {c \in Ids : le.parents[c] # None}

Lineage(le, rank) ==
  /\ IsFiniteSet(Known(le)) /\ Known(le) \subseteq Children
  /\ le.request \notin Children /\ le.owner \notin Children
  /\ le.members \subseteq Known(le) \cup {le.request}
  /\ \A c \in Known(le) :
       /\ le.parents[c] \in Known(le) \cup {le.request, Root(le)}
       /\ le.parents[c] \in Known(le) => rank[le.parents[c]] < rank[c]

(* Such a lease is one restoreLease accepts: each round of following the   *)
(* parents reaches at least the first of those it has not reached yet.     *)
LEMMA LineageAccepted ==
  ASSUME NEW le \in Lease, NEW rank \in [Ids -> Nat], Lineage(le, rank)
  PROVE  LineageRestorable(le)
<1> DEFINE known == Known(le)
           N == Cardinality(known)
           base == {le.request, le.owner} \cup (le.members \ known)
           S == SUBSET (Ids \cup {None})
           grow(X) == X \cup {c \in known : le.parents[c] \in X}
           F == [i \in 1..N |-> [X \in S |-> grow(X)]]
           Body(h) == [n \in 0..N |-> IF n = 0 THEN base
                          ELSE h[n - 1] \cup {c \in known : le.parents[c] \in h[n - 1]}]
           rooted == CHOOSE h : h = Body(h)
<1>0. /\ IsFiniteSet(known) /\ N \in Nat /\ known \subseteq Ids
      /\ le.request \in Ids /\ le.owner \in Ids \cup {None} /\ le.members \subseteq Ids
      /\ le.parents \in [Ids -> Ids \cup {None}]
  BY FS_CardinalityType DEF Lineage, Lease, Known
<1>1. base \in S /\ \A X \in S : grow(X) \in S
  BY <1>0
<1>2. le.request \in base /\ Root(le) \in base
  BY DEF Root
<1>3. \A c \in known : le.parents[c] \in known \cup base
  BY <1>2 DEF Lineage
<1>a. \A c \in known : le.parents[c] \in known => rank[le.parents[c]] < rank[c]
  BY DEF Lineage
<1>b. LineageRestorable(le) <=>
         /\ le.request \notin known
         /\ \A c \in known : le.parents[c] \in rooted[N] \ {c}
  BY DEF LineageRestorable, Known
<1> HIDE DEF base, grow, known, S
<1>4. rooted = Body(rooted)
  <2>1. Steps(F, N, S)
    BY <1>1 DEF Steps
  <2>2. \A i \in 1..N : \A X \in S : F[i][X] = grow(X)
    OBVIOUS
  <2>3. PICK f : Follows(f, N, S, base, F)
    <3> HIDE DEF F, N
    <3> QED BY <1>0, <1>1, <2>1, IteratesExist
  <2>4. f = Body(f)
    <3>1. \A i \in 1..N : f[i - 1] \in S
      BY <1>0, <2>3 DEF Follows
    <3>2. \A i \in 1..N : f[i] = grow(f[i - 1])
      <4> HIDE DEF F
      <4> QED BY <2>2, <2>3, <3>1 DEF Follows
    <3>3. \A i \in 1..N : f[i] = f[i - 1] \cup {c \in known : le.parents[c] \in f[i - 1]}
      BY <3>2 DEF grow
    <3> HIDE DEF F, N
    <3> QED BY <1>0, <2>3, <3>3 DEF Follows
  <2> HIDE DEF Body
  <2> QED BY <2>4
<1> HIDE DEF rooted, F
<1>5. /\ rooted[0] = base
      /\ \A i \in 1..N : rooted[i] = grow(rooted[i - 1])
  <2>1. rooted = [n \in 0..N |-> IF n = 0 THEN base
            ELSE rooted[n - 1] \cup {c \in known : le.parents[c] \in rooted[n - 1]}]
    BY <1>4
  <2> HIDE DEF Body, N
  <2>2. rooted[0] = base
    BY <1>0, <2>1
  <2>3. ASSUME NEW i \in 1..N PROVE rooted[i] = grow(rooted[i - 1])
    <3>1. i \in 0..N /\ i # 0
      BY <1>0
    <3> QED BY <2>1, <3>1 DEF grow
  <2> QED BY <2>2, <2>3
<1> HIDE DEF Body
<1> DEFINE left(i) == known \ rooted[i]
           Good == {i \in 0..N : /\ base \subseteq rooted[i]
                                 /\ Cardinality(left(i)) <= N - i}
           id == [i \in 0..N |-> i]
<1>6. \A i \in 0..N : i \in Good
  <2>1. 0 \in Good
    <3>1. left(0) \subseteq known
      OBVIOUS
    <3>2. Cardinality(left(0)) <= N
      BY <1>0, <3>1, FS_Subset
    <3> QED BY <1>0, <1>5, <3>2
  <2>2. ASSUME NEW i \in 1..N, i - 1 \in Good PROVE i \in Good
    <3>0. /\ i \in 0..N /\ base \subseteq rooted[i - 1]
          /\ Cardinality(left(i - 1)) <= N - (i - 1) /\ i \in Int
      BY <1>0, <2>2
    <3>1. rooted[i] = grow(rooted[i - 1])
      BY <1>5
    <3>2. base \subseteq rooted[i] /\ left(i) \subseteq left(i - 1)
      BY <3>0, <3>1 DEF grow
    <3>3. IsFiniteSet(left(i - 1)) /\ Cardinality(left(i - 1)) \in Nat
      BY <1>0, FS_Subset, FS_CardinalityType
    <3>3a. IsFiniteSet(left(i)) /\ Cardinality(left(i)) \in Nat
      BY <1>0, FS_Subset, FS_CardinalityType
    <3>4. CASE left(i - 1) = {}
      <4>1. left(i) = {}
        BY <3>2, <3>4
      <4>2. Cardinality(left(i)) = 0
        BY <4>1, FS_EmptySet
      <4>3. 0 <= N - i
        BY <1>0
      <4> QED BY <3>0, <3>2, <4>2, <4>3
    <3>5. CASE left(i - 1) # {}
      <4> DEFINE ranks == {rank[c] : c \in left(i - 1)}
      <4>1. ranks \in SUBSET Nat /\ ranks # {}
        BY <1>0, <3>5
      <4>2. PICK r \in ranks : \A s \in ranks : r <= s
        <5> HIDE DEF ranks
        <5> QED BY <4>1, LeastNatural
      <4>3. PICK c \in left(i - 1) : r = rank[c]
        BY <4>2
      <4>4. le.parents[c] \in rooted[i - 1]
        <5> SUFFICES ASSUME le.parents[c] \notin rooted[i - 1] PROVE FALSE
          OBVIOUS
        <5>1. c \in known /\ le.parents[c] \in known
          BY <1>3, <3>0, <4>3
        <5>2. rank[le.parents[c]] < rank[c]
          BY <1>a, <5>1
        <5>3. rank[le.parents[c]] \in ranks
          BY <5>1
        <5>4. rank[le.parents[c]] \in Nat /\ rank[c] \in Nat
          BY <1>0, <5>1
        <5> HIDE DEF ranks
        <5> QED BY <4>2, <4>3, <5>2, <5>3, <5>4
      <4>5. c \in rooted[i]
        BY <3>1, <4>3, <4>4 DEF grow
      <4>6. left(i) \subseteq left(i - 1) \ {c}
        BY <3>2, <4>5
      <4>7. /\ IsFiniteSet(left(i - 1) \ {c})
            /\ Cardinality(left(i - 1) \ {c}) = Cardinality(left(i - 1)) - 1
        BY <3>3, <4>3, FS_RemoveElement
      <4>8. Cardinality(left(i)) <= Cardinality(left(i - 1)) - 1
        BY <4>6, <4>7, FS_Subset
      <4>9. Cardinality(left(i)) <= N - i
        <5> HIDE DEF left, N
        <5> QED BY <1>0, <3>0, <3>3, <3>3a, <4>8
      <4> QED BY <3>0, <3>2, <4>9
    <3> QED BY <3>4, <3>5
  <2>3. id[0] \in Good /\ \A i \in 1..N : id[i - 1] \in Good => id[i] \in Good
    <3>1. \A i \in 1..N : id[i - 1] = i - 1 /\ id[i] = i
      BY <1>0
    <3>2. id[0] = 0
      BY <1>0
    <3> HIDE DEF Good, id
    <3> QED BY <2>1, <2>2, <3>1, <3>2
  <2>4. \A i \in 0..N : id[i] \in Good
    <3> HIDE DEF Good, id, N
    <3> QED BY <1>0, <2>3, IteratesKeep
  <2> HIDE DEF Good
  <2> QED BY <2>4
<1>7. base \subseteq rooted[N] /\ known \subseteq rooted[N]
  <2>1. N \in Good
    BY <1>0, <1>6
  <2>2. IsFiniteSet(left(N)) /\ Cardinality(left(N)) \in Nat
    BY <1>0, FS_Subset, FS_CardinalityType
  <2>3. Cardinality(left(N)) = 0
    BY <1>0, <2>1, <2>2
  <2>4. left(N) = {}
    BY <2>2, <2>3, FS_EmptySet
  <2> QED BY <2>1, <2>4
<1>8. ASSUME NEW c \in known PROVE le.parents[c] \in rooted[N] \ {c}
  <2>1. le.parents[c] \in rooted[N]
    BY <1>3, <1>7
  <2>2. le.parents[c] # c
    <3>1. rank[c] \in Nat
      BY <1>0
    <3> QED BY <1>a, <3>1
  <2> QED BY <2>1, <2>2
<1>9. le.request \notin known
  BY DEF Lineage, known
<1> QED BY <1>b, <1>8, <1>9

(* What Departed removes leaves no live member without its entry and no    *)
(* entry that leads to a removed one.                                      *)
LEMMA DepartedFacts ==
  ASSUME NEW parents \in [Ids -> Ids \cup {None}], NEW live \in SUBSET Ids,
         NEW m \in Ids \ live, IsFiniteSet({c \in Ids : parents[c] # None})
  PROVE  /\ Departed(parents, live, m) \cap live = {}
         /\ \A c \in Ids \ Departed(parents, live, m) :
              parents[c] # None => parents[c] \notin Departed(parents, live, m)
<1> DEFINE known == {c \in Ids : parents[c] # None}
           N == Cardinality(known)
           S == [gone : SUBSET Ids, at : Ids \cup {None}]
           stops(w) == \/ w.at \notin known \ w.gone
                       \/ \E c \in known \ w.gone : parents[c] = w.at
           step(w) == IF stops(w) THEN w
                      ELSE [gone |-> w.gone \cup {w.at},
                            at |-> IF parents[w.at] \in live THEN None ELSE parents[w.at]]
           start == [gone |-> {}, at |-> m]
           F == [i \in 1..N |-> [w \in S |-> step(w)]]
           Body(h) == [n \in 0..N |-> IF n = 0 THEN start ELSE step(h[n - 1])]
           walk == CHOOSE h : h = Body(h)
           Good == {w \in S : /\ w.gone \cap live = {} /\ w.at \notin live
                              /\ \A c \in known \ w.gone : parents[c] \notin w.gone}
<1>0. N \in Nat /\ known \subseteq Ids /\ \A c \in Ids : parents[c] \in Ids \cup {None}
  BY FS_CardinalityType
<1>1. start \in S /\ start \in Good
  OBVIOUS
<1>2. ASSUME NEW w \in S PROVE step(w) \in S
  <2>1. CASE stops(w)
    BY <2>1
  <2>2. CASE ~stops(w)
    <3>1. w.at \in Ids /\ w.gone \subseteq Ids
      BY <2>2
    <3>2. (IF parents[w.at] \in live THEN None ELSE parents[w.at]) \in Ids \cup {None}
      BY <1>0, <3>1
    <3>3. step(w) = [gone |-> w.gone \cup {w.at},
                     at |-> IF parents[w.at] \in live THEN None ELSE parents[w.at]]
      BY <2>2
    <3> QED BY <3>1, <3>2, <3>3
  <2> QED BY <2>1, <2>2
<1>3. ASSUME NEW w \in Good PROVE step(w) \in Good
  <2>1. CASE stops(w)
    BY <2>1
  <2>2. CASE ~stops(w)
    <3>1. w \in S /\ w.at \in known \ w.gone /\ ~\E c \in known \ w.gone : parents[c] = w.at
      BY <2>2
    <3>2. step(w) \in S
      BY <1>2, <3>1
    <3>3. PICK v : v = step(w)
      OBVIOUS
    <3>4. /\ v.gone = w.gone \cup {w.at}
          /\ v.at = IF parents[w.at] \in live THEN None ELSE parents[w.at]
      BY <2>2, <3>3
    <3>5. v.at \notin live
      BY <3>4, NamesAssumption
    <3>6. v.gone \cap live = {}
      BY <3>4
    <3>7. \A c \in known \ v.gone : parents[c] \notin v.gone
      BY <3>1, <3>4
    <3> QED BY <3>2, <3>3, <3>5, <3>6, <3>7
  <2> QED BY <2>1, <2>2
<1>4. Departed(parents, live, m) = walk[N].gone
  BY DEF Departed
<1> HIDE DEF step, S, start, stops
<1>5. walk = Body(walk)
  <2>1. Steps(F, N, S)
    BY <1>2 DEF Steps
  <2>2. \A i \in 1..N : \A w \in S : F[i][w] = step(w)
    OBVIOUS
  <2> HIDE DEF F, N
  <2>3. PICK f : Follows(f, N, S, start, F)
    BY <1>0, <1>1, <2>1, IteratesExist
  <2>4. f = Body(f)
    <3>1. \A i \in 1..N : f[i - 1] \in S
      BY <1>0, <2>3 DEF Follows
    <3>2. \A i \in 1..N : f[i] = step(f[i - 1])
      BY <2>2, <2>3, <3>1 DEF Follows
    <3> QED BY <1>0, <2>3, <3>2 DEF Follows
  <2> HIDE DEF Body
  <2> QED BY <2>4
<1> HIDE DEF walk, F, N, Good
<1>6. walk[0] = start /\ \A i \in 1..N : walk[i] = step(walk[i - 1])
  <2>1. walk = [n \in 0..N |-> IF n = 0 THEN start ELSE step(walk[n - 1])]
    BY <1>5
  <2> HIDE DEF Body
  <2>2. walk[0] = start
    BY <1>0, <2>1
  <2>3. ASSUME NEW i \in 1..N PROVE walk[i] = step(walk[i - 1])
    <3>1. i \in 0..N /\ i # 0
      BY <1>0
    <3> QED BY <2>1, <3>1
  <2> QED BY <2>2, <2>3
<1> HIDE DEF Body
<1>7. \A i \in 0..N : walk[i] \in Good
  BY <1>0, <1>1, <1>3, <1>6, IteratesKeep
<1>8. walk[N] \in Good
  BY <1>0, <1>7
<1> QED BY <1>4, <1>8 DEF Good

(* The ancestor a child hangs from is the first run of the lease, its      *)
(* owner, or a run of the lease's lineage that is not after its parent.    *)
LEMMA ResolveParentFacts ==
  ASSUME TypeOK, NEW rank \in [Ids -> Nat], NEW l \in DOMAIN leases,
         Lineage(leases[l], rank), NEW parent \in Ids \cup {None},
         ResolveParent(l, parent) \in Ids
  PROVE  \/ ResolveParent(l, parent) \in {leases[l].request, Root(leases[l])}
         \/ /\ parent \in Ids /\ ResolveParent(l, parent) \in Known(leases[l])
            /\ rank[ResolveParent(l, parent)] <= rank[parent]
<1>1. PICK le : le = leases[l]
  OBVIOUS
<1> DEFINE top == {Root(le), le.request}
           elsewhere(p) == \E o \in DOMAIN leases \ {l} :
                              leases[o].parents[p] # None \/ p = leases[o].request
           end == [p \in Ids |->
                     IF Holding(p) THEN IF LeaseOf(p) = l \/ p = le.owner THEN p ELSE None
                     ELSE IF p \in top THEN Root(le)
                     ELSE IF elsewhere(p) THEN None ELSE Root(le)]
           Stop == {p \in Ids : Holding(p) \/ p \in top \/ le.parents[p] = None}
           Body(h) == [p \in Ids |->
              IF Holding(p) THEN IF LeaseOf(p) = l \/ p = le.owner THEN p ELSE None
              ELSE IF p \in top THEN Root(le)
              ELSE IF le.parents[p] # None THEN h[le.parents[p]]
              ELSE IF elsewhere(p) THEN None ELSE Root(le)]
           up == CHOOSE h : h = Body(h)
           depth == [p \in Ids |-> IF p \in top THEN 0 ELSE rank[p] + 1]
           V == [p \in Ids |-> top \cup {None} \cup
                   (IF p \in top THEN top ELSE {x \in Known(le) : rank[x] <= rank[p]})]
<1>2. /\ le \in Lease /\ Lineage(le, rank)
      /\ le.request \in Ids /\ le.owner \in Ids \cup {None} /\ top \subseteq Ids
      /\ le.parents \in [Ids -> Ids \cup {None}]
  BY <1>1 DEF TypeOK, Lease, Root
<1>3. ResolveParent(l, parent) = IF parent = None THEN Root(le) ELSE up[parent]
  BY <1>1 DEF ResolveParent
<1>4. CASE parent = None
  BY <1>1, <1>3, <1>4
<1>5. CASE parent \in Ids
  <2>1. None \notin Ids /\ parent # None
    BY <1>5, NamesAssumption
  <2>2. ASSUME NEW p \in Ids \ Stop
        PROVE  /\ p \in Known(le) /\ p \notin top /\ le.parents[p] \in Ids
               /\ le.parents[p] \in top \/ rank[le.parents[p]] < rank[p]
    BY <1>2 DEF Lineage, Known
  <2>3. depth \in [Ids -> Nat]
    OBVIOUS
  <2>4. Descends(Ids, depth, Stop, le.parents)
    <3> SUFFICES ASSUME NEW p \in Ids \ Stop
                 PROVE  le.parents[p] \in Ids /\ depth[le.parents[p]] < depth[p]
      BY DEF Descends
    <3>1. rank[p] \in Nat /\ le.parents[p] \in Ids /\ rank[le.parents[p]] \in Nat
      BY <2>2
    <3>2. depth[p] = rank[p] + 1
      BY <2>2
    <3>3. CASE le.parents[p] \in top
      <4>1. depth[le.parents[p]] = 0
        BY <3>1, <3>3
      <4> QED BY <3>1, <3>2, <4>1
    <3>4. CASE le.parents[p] \notin top
      <4>1. depth[le.parents[p]] = rank[le.parents[p]] + 1
        BY <3>1, <3>4
      <4>2. rank[le.parents[p]] < rank[p]
        BY <2>2, <3>4
      <4> QED BY <3>1, <3>2, <4>1, <4>2
    <3> QED BY <3>3, <3>4
  <2>5. \A p \in Stop : end[p] \in V[p]
    <3> SUFFICES ASSUME NEW p \in Stop PROVE end[p] \in V[p]
      OBVIOUS
    <3>1. p \in Ids /\ Root(le) \in V[p] /\ None \in V[p]
      OBVIOUS
    <3>2. CASE Holding(p) /\ LeaseOf(p) = l
      <4>1. p \in le.members
        BY <1>1, <3>2 DEF Holding, LeaseOf
      <4>2. p \in Known(le) \cup {le.request} /\ end[p] = p
        BY <1>2, <3>1, <3>2, <4>1 DEF Lineage
      <4>3. rank[p] <= rank[p]
        BY <3>1
      <4> QED BY <3>1, <4>2, <4>3
    <3>3. CASE Holding(p) /\ p = le.owner
      <4>1. p = Root(le) /\ end[p] = p
        BY <3>1, <3>3, <2>1 DEF Root
      <4> QED BY <3>1, <4>1
    <3>4. CASE ~(Holding(p) /\ LeaseOf(p) = l) /\ ~(Holding(p) /\ p = le.owner)
      <4>1. end[p] \in {None, Root(le)}
        BY <3>1, <3>4
      <4> QED BY <3>1, <4>1
    <3> QED BY <3>2, <3>3, <3>4
  <2>6. \A p \in Ids \ Stop : V[le.parents[p]] \subseteq V[p]
    <3> SUFFICES ASSUME NEW p \in Ids \ Stop, NEW x \in V[le.parents[p]]
                 PROVE  x \in V[p]
      OBVIOUS
    <3>1. /\ p \in Ids /\ p \notin top /\ le.parents[p] \in Ids
          /\ rank[p] \in Nat /\ rank[le.parents[p]] \in Nat
      BY <2>2
    <3>2. CASE x \in top \cup {None}
      BY <3>1, <3>2
    <3>3. CASE x \notin top \cup {None}
      <4>1. /\ le.parents[p] \notin top /\ x \in Known(le)
            /\ rank[x] <= rank[le.parents[p]]
        BY <3>1, <3>3
      <4>2. rank[le.parents[p]] < rank[p]
        BY <2>2, <4>1
      <4>3. rank[x] \in Nat
        BY <4>1 DEF Known
      <4>4. rank[x] <= rank[p]
        BY <3>1, <4>1, <4>2, <4>3
      <4> QED BY <3>1, <4>1, <4>4
    <3> QED BY <3>2, <3>3
  <2>7. /\ Stop \in SUBSET Ids
        /\ \A p \in Stop : end[p] \in Ids \cup {None}
    <3>1. Root(le) \in Ids
      BY <1>2
    <3> QED BY <3>1
  <2>8. \A f : EndsAt(f, Ids, Stop, end, le.parents) <=> \A p \in Ids : f[p] = Body(f)[p]
    <3> SUFFICES ASSUME NEW f, NEW p \in Ids
                 PROVE  (IF p \in Stop THEN end[p] ELSE f[le.parents[p]]) = Body(f)[p]
      BY DEF EndsAt
    <3>1. CASE p \in Stop
      BY <3>1
    <3>2. CASE p \notin Stop
      BY <3>2
    <3> QED BY <3>1, <3>2
  <2> HIDE DEF end, Stop, depth, V
  <2>9. PICK f : f \in [Ids -> Ids \cup {None}] /\ EndsAt(f, Ids, Stop, end, le.parents)
    BY <2>3, <2>4, <2>7, WalksExist
  <2>10. f = Body(f)
    <3>1. \A p \in Ids : f[p] = Body(f)[p]
      <4> HIDE DEF Body
      <4> QED BY <2>8, <2>9
    <3> QED BY <2>9, <3>1
  <2>11. up = Body(up)
    <3> HIDE DEF Body
    <3> QED BY <2>10
  <2> HIDE DEF up
  <2>12. EndsAt(up, Ids, Stop, end, le.parents)
    <3>1. \A p \in Ids : up[p] = Body(up)[p]
      BY <2>11
    <3> HIDE DEF Body
    <3> QED BY <2>8, <3>1
  <2> HIDE DEF Body
  <2>13. \A p \in Ids : up[p] \in V[p]
    BY <2>3, <2>4, <2>5, <2>6, <2>7, <2>12, WalksStay
  <2>14. up[parent] \in V[parent] /\ up[parent] # None
    BY <1>3, <1>5, <2>1, <2>13
  <2>15. \/ up[parent] \in top
         \/ up[parent] \in Known(le) /\ rank[up[parent]] <= rank[parent]
    BY <1>5, <2>14 DEF V
  <2> QED BY <1>1, <1>3, <1>5, <2>1, <2>15
<1> QED BY <1>4, <1>5

(* Two records of a lease with the same lineage. *)
Kin(a, b) ==
  /\ a.request = b.request /\ a.owner = b.owner
  /\ a.members = b.members /\ a.parents = b.parents

LEMMA KinLineage ==
  ASSUME NEW a, NEW b, NEW rank, Kin(a, b), Lineage(b, rank)
  PROVE  Lineage(a, rank)
<1>1. Known(a) = Known(b) /\ Root(a) = Root(b)
  BY DEF Kin, Known, Root
<1> QED BY <1>1 DEF Kin, Lineage

LEMMA OrphanKin ==
  ASSUME NEW held, held \in [DOMAIN held -> Lease], NEW told, NEW l \in DOMAIN held
  PROVE  Kin(Orphan(held, told)[l], held[l])
<1>1. held[l] \in Lease
  OBVIOUS
<1>2. Orphan(held, told)[l]
        = [held[l] EXCEPT !.orphaned = @ \cup (told \cap held[l].members)]
  BY DEF Orphan
<1> QED BY <1>1, <1>2 DEF Lease, Kin

(* A new lease has one member and no lineage yet. *)
LEMMA NewLineage ==
  ASSUME NEW s, NEW rank, s.id \notin Children, s.owner \notin Children
  PROVE  Lineage(NewLease(s), rank)
<1>1. PICK le : le = NewLease(s)
  OBVIOUS
<1>2. /\ le.request = s.id /\ le.owner = s.owner /\ le.members = {s.id}
      /\ le.parents = [m \in Ids |-> None]
  BY <1>1 DEF NewLease
<1>3. Known(le) = {}
  BY <1>2 DEF Known
<1>4. IsFiniteSet({})
  BY FS_EmptySet
<1>5. Lineage(le, rank)
  BY <1>2, <1>3, <1>4 DEF Lineage
<1> QED BY <1>1, <1>5

(* A member that leaves takes along the entries nobody needs any more.     *)
LEMMA LeaveLineage ==
  ASSUME TypeOK, NEW l \in DOMAIN leases, NEW m \in leases[l].members, NEW rank,
         \A o \in DOMAIN leases : Lineage(leases[o], rank)
  PROVE  \A o \in DOMAIN leases : Lineage(Leave(l, m)[o], rank)
<1> DEFINE le == leases[l]
           live == le.members \ {m}
           gone == Departed(le.parents, live, m)
           kept == [c \in Ids |-> IF c \in gone THEN None ELSE le.parents[c]]
           left == [le EXCEPT !.members = live, !.orphaned = @ \ {m}, !.parents = kept]
<1>1. \A o \in DOMAIN leases : leases[o] \in Lease
  BY DEF TypeOK
<1>2. \A o \in DOMAIN leases :
         Leave(l, m)[o] = [(IF o = l THEN left ELSE leases[o]) EXCEPT !.dependents = @ \ {m}]
  BY DEF Leave
<1>3. /\ le \in Lease /\ le.parents \in [Ids -> Ids \cup {None}] /\ le.members \in SUBSET Ids
      /\ m \in Ids \ live /\ live \in SUBSET Ids /\ IsFiniteSet(Known(le)) /\ Lineage(le, rank)
  BY <1>1 DEF Lease, Lineage
<1>4. /\ gone \cap live = {}
      /\ \A c \in Ids \ gone : le.parents[c] # None => le.parents[c] \notin gone
  BY <1>3, DepartedFacts DEF Known
<1> HIDE DEF gone
<1>5. PICK x : x = Leave(l, m)[l]
  OBVIOUS
<1>6. /\ x.request = le.request /\ x.owner = le.owner
      /\ x.members = live /\ x.parents = kept
  <2>1. x = [left EXCEPT !.dependents = @ \ {m}]
    BY <1>2, <1>5
  <2> HIDE DEF live, kept
  <2> QED BY <1>3, <2>1 DEF Lease
<1>7. Lineage(x, rank)
  <2>1. Known(x) = Known(le) \ gone
    BY <1>6 DEF Known
  <2>2. Root(x) = Root(le)
    BY <1>6 DEF Root
  <2>3. IsFiniteSet(Known(x))
    BY <1>3, <2>1, FS_Subset
  <2>4. x.members \subseteq Known(x) \cup {x.request}
    BY <1>3, <1>4, <1>6, <2>1 DEF Lineage
  <2>5. ASSUME NEW c \in Known(x)
        PROVE  /\ x.parents[c] \in Known(x) \cup {x.request, Root(x)}
               /\ x.parents[c] \in Known(x) => rank[x.parents[c]] < rank[c]
    <3>1. c \in Ids \ gone /\ c \in Known(le) /\ le.parents[c] # None
      BY <2>1 DEF Known
    <3>2. x.parents[c] = le.parents[c] /\ le.parents[c] \notin gone
      BY <1>4, <1>6, <3>1
    <3>3. /\ le.parents[c] \in Known(le) \cup {le.request, Root(le)}
          /\ le.parents[c] \in Known(le) => rank[le.parents[c]] < rank[c]
      BY <1>3, <3>1 DEF Lineage
    <3> QED BY <1>6, <2>1, <2>2, <3>2, <3>3
  <2>6. Known(x) \subseteq Children /\ x.request \notin Children /\ x.owner \notin Children
    BY <1>3, <1>6, <2>1 DEF Lineage
  <2> QED BY <2>3, <2>4, <2>5, <2>6 DEF Lineage
<1>8. ASSUME NEW o \in DOMAIN leases, o # l PROVE Lineage(Leave(l, m)[o], rank)
  <2>1. Leave(l, m)[o] = [leases[o] EXCEPT !.dependents = @ \ {m}]
    BY <1>2, <1>8
  <2>2. Kin(Leave(l, m)[o], leases[o])
    BY <1>1, <2>1 DEF Lease, Kin
  <2> QED BY <2>2, KinLineage
<1> QED BY <1>5, <1>7, <1>8

(* A run that attaches comes after the ancestor it hangs from. *)
LEMMA AttachLineage ==
  ASSUME TypeOK, NEW rank \in [Ids -> Nat], NEW l \in DOMAIN leases,
         NEW m \in Children, ParentOf[m] # None => rank[ParentOf[m]] < rank[m],
         \A o \in DOMAIN leases : Lineage(leases[o], rank), Attach(l, m)
  PROVE  \A o \in DOMAIN leases' : Lineage(leases'[o], rank)
<1> DEFINE parent == ResolveParent(l, ParentOf[m])
           x == [leases[l] EXCEPT !.members = @ \cup {m}, !.parents[m] = parent]
<1>1. PICK le : le = leases[l]
  OBVIOUS
<1>2. leases \in [DOMAIN leases -> Lease] /\ le \in Lease /\ Lineage(le, rank)
  BY <1>1 DEF TypeOK
<1>3. leases' = [leases EXCEPT ![l].members = @ \cup {m}, ![l].parents[m] = parent]
      /\ parent \in Ids
  BY DEF Attach
<1>4. m \in Ids /\ ParentOf[m] \in Ids \cup {None} /\ None \notin Ids
  BY NamesAssumption
<1>5. \/ parent \in {le.request, Root(le)}
      \/ ParentOf[m] \in Ids /\ parent \in Known(le) /\ rank[parent] <= rank[ParentOf[m]]
  BY <1>1, <1>2, <1>3, <1>4, ResolveParentFacts
<1> HIDE DEF parent
<1>6. leases' = [leases EXCEPT ![l] = x]
  BY <1>2, <1>3
<1>7. /\ x.request = le.request /\ x.owner = le.owner
      /\ x.members = le.members \cup {m} /\ x.parents = [le.parents EXCEPT ![m] = parent]
      /\ le.parents \in [Ids -> Ids \cup {None}]
  BY <1>1, <1>2 DEF Lease
<1> HIDE DEF x
<1>8. Lineage(x, rank)
  <2>1. Known(x) = Known(le) \cup {m} /\ Root(x) = Root(le)
    BY <1>3, <1>4, <1>7 DEF Known, Root
  <2>2. /\ IsFiniteSet(Known(le)) /\ Known(le) \subseteq Children
        /\ le.request \notin Children /\ le.owner \notin Children
        /\ le.members \subseteq Known(le) \cup {le.request}
    BY <1>2 DEF Lineage
  <2>3. IsFiniteSet(Known(x))
    BY <2>1, <2>2, FS_AddElement
  <2>4. Root(le) \notin Children
    BY <2>2 DEF Root
  <2>5. ASSUME NEW c \in Known(x)
        PROVE  /\ x.parents[c] \in Known(x) \cup {x.request, Root(x)}
               /\ x.parents[c] \in Known(x) => rank[x.parents[c]] < rank[c]
    <3>1. CASE c = m
      <4>1. x.parents[c] = parent
        BY <1>4, <1>7, <3>1
      <4>2. CASE parent \in {le.request, Root(le)}
        BY <1>7, <2>1, <2>2, <2>4, <4>1, <4>2
      <4>3. CASE ParentOf[m] \in Ids /\ parent \in Known(le) /\ rank[parent] <= rank[ParentOf[m]]
        <5>1. rank[ParentOf[m]] < rank[m]
          BY <1>4, <4>3
        <5>2. rank[parent] \in Nat /\ rank[ParentOf[m]] \in Nat /\ rank[m] \in Nat
          BY <1>3, <1>4, <4>3
        <5>3. rank[parent] < rank[m]
          BY <4>3, <5>1, <5>2
        <5> QED BY <2>1, <3>1, <4>1, <4>3, <5>3
      <4> QED BY <1>5, <4>2, <4>3
    <3>2. CASE c # m
      <4>1. c \in Known(le) /\ x.parents[c] = le.parents[c]
        BY <1>7, <2>1, <3>2 DEF Known
      <4>2. /\ le.parents[c] \in Known(le) \cup {le.request, Root(le)}
            /\ le.parents[c] \in Known(le) => rank[le.parents[c]] < rank[c]
        BY <1>2, <4>1 DEF Lineage
      <4>3. le.request \notin Known(x) /\ Root(le) \notin Known(x)
        BY <2>1, <2>2, <2>4
      <4> QED BY <1>7, <2>1, <4>1, <4>2, <4>3
    <3> QED BY <3>1, <3>2
  <2>6. x.members \subseteq Known(x) \cup {x.request}
    BY <1>7, <2>1, <2>2
  <2> QED BY <1>7, <2>1, <2>2, <2>3, <2>5, <2>6 DEF Lineage
<1>9. ASSUME NEW o \in DOMAIN leases' PROVE Lineage(leases'[o], rank)
  <2>1. o \in DOMAIN leases /\ leases'[o] = IF o = l THEN x ELSE leases[o]
    BY <1>2, <1>6
  <2> QED BY <1>8, <2>1
<1> QED BY <1>9

(* What the runs of the system satisfy: a run starts after the run that    *)
(* started it, and the owner of a job's lease is a run that was admitted,  *)
(* not one that attached.                                                  *)
FamiliesOrdered(rank) ==
  /\ \A m \in Children : ParentOf[m] # None => rank[ParentOf[m]] < rank[m]
  /\ \A q \in Requests : q.owner \notin Children

FamilyInv(rank) ==
  /\ \A l \in DOMAIN leases : Lineage(leases[l], rank)
  /\ \A i \in DOMAIN waiters : waiters[i].id \notin Children /\ waiters[i].owner \notin Children

LEMMA GrantLineage ==
  ASSUME TypeInv, NEW rank, FamilyInv(rank), NEW s \in Waiter, Grant(s),
         s.id \notin Children, s.owner \notin Children
  PROVE  \A l \in DOMAIN leases' : Lineage(leases'[l], rank)
<1> DEFINE id == leaseSeq + 1
           out == [k \in Claimed(s) |-> Evicted(k, s.claims[k])]
           told == UNION {leases[l].dependents : l \in UNION {out[k] : k \in DOMAIN out}}
<1>1. leases' = Put(Orphan(leases, told), id, NewLease(s))
  BY DEF Grant
<1>2. /\ id \notin DOMAIN leases /\ DOMAIN leases' = DOMAIN leases \cup {id}
      /\ leases'[id] = NewLease(s)
  BY GrantFacts DEF TypeInv
<1> HIDE DEF told, id
<1>3. ASSUME NEW l \in DOMAIN leases PROVE Lineage(leases'[l], rank)
  <2>1. leases \in [DOMAIN leases -> Lease]
    BY DEF TypeInv, TypeOK
  <2>2. leases'[l] = Orphan(leases, told)[l]
    BY <1>1, <1>2 DEF Put, Orphan
  <2>3. Kin(leases'[l], leases[l])
    BY <2>1, <2>2, OrphanKin
  <2> QED BY <2>3, KinLineage DEF FamilyInv
<1>4. Lineage(leases'[id], rank)
  BY <1>2, NewLineage
<1> QED BY <1>2, <1>3, <1>4

LEMMA ReleaseLastLineage ==
  ASSUME TypeOK, NEW rank, FamilyInv(rank), NEW l \in DOMAIN leases, NEW m, ReleaseLast(l, m)
  PROVE  \A o \in DOMAIN leases' : Lineage(leases'[o], rank)
<1> DEFINE held == Leave(l, m)
           rest == [o \in DOMAIN leases \ {l} |-> held[o]]
           told == held[l].dependents
<1>1. leases' = Orphan(rest, told) /\ m \in leases[l].members
  BY DEF ReleaseLast
<1>2. \A o \in DOMAIN leases : held[o] \in Lease /\ Lineage(held[o], rank)
  BY <1>1, LeaveFacts, LeaveLineage DEF FamilyInv
<1> HIDE DEF held, told
<1>3. rest \in [DOMAIN rest -> Lease] /\ DOMAIN leases' = DOMAIN rest
  BY <1>1, <1>2 DEF Orphan
<1>4. ASSUME NEW o \in DOMAIN leases' PROVE Lineage(leases'[o], rank)
  <2>1. o \in DOMAIN rest /\ rest[o] = held[o] /\ o \in DOMAIN leases
    BY <1>3
  <2>2. Kin(leases'[o], rest[o])
    <3> HIDE DEF rest
    <3> QED BY <1>1, <1>3, <2>1, OrphanKin
  <2> QED BY <1>2, <2>1, <2>2, KinLineage
<1> QED BY <1>4

LEMMA DependLineage ==
  ASSUME TypeOK, NEW rank, FamilyInv(rank), NEW l \in DOMAIN leases, NEW m, Depend(m, l)
  PROVE  \A o \in DOMAIN leases' : Lineage(leases'[o], rank)
<1> DEFINE x == [leases[l] EXCEPT !.dependents = @ \cup {m}]
<1>1. leases \in [DOMAIN leases -> Lease] /\ leases[l] \in Lease
  BY DEF TypeOK
<1>2. leases' = [leases EXCEPT ![l] = x]
  BY <1>1 DEF Depend
<1>3. Kin(x, leases[l])
  BY <1>1 DEF Lease, Kin
<1>4. \A o \in DOMAIN leases : Lineage(leases[o], rank)
  BY DEF FamilyInv
<1>5. Lineage(x, rank)
  <2> HIDE DEF x
  <2> QED BY <1>3, <1>4, KinLineage
<1> HIDE DEF x
<1> QED BY <1>1, <1>2, <1>4, <1>5

LEMMA NextFamily ==
  ASSUME TypeInv, NEW rank \in [Ids -> Nat], FamiliesOrdered(rank), FamilyInv(rank),
         [Next]_vars
  PROVE  FamilyInv(rank)'
<1> DEFINE Goal == \A l \in DOMAIN leases' : Lineage(leases'[l], rank)
<1>0. TypeOK /\ waiters \in Seq(Waiter)
  BY DEF TypeInv, TypeOK
<1>n. \A q \in Requests : /\ Normalize(q).id = q.id /\ Normalize(q).owner = q.owner
                          /\ q.id \notin Children /\ q.owner \notin Children
  BY RequestAssumption DEF Normalize, FamiliesOrdered
<1>s. leases' = leases => Goal
  BY DEF FamilyInv
<1>g. ASSUME NEW q \in Requests, Submittable(q), NEW queue, GrantFresh(Normalize(q), queue)
      PROVE  Goal
  <2>1. Normalize(q) \in Waiter /\ Grant(Normalize(q))
    BY <1>0, <1>g, NormalizeFacts DEF Submittable, GrantFresh
  <2> QED BY <1>n, <2>1, GrantLineage
<1>1. ASSUME NEW q \in Requests, SubmitGranted(q) PROVE Goal
  BY <1>1, <1>g DEF SubmitGranted
<1>2. ASSUME NEW q \in Requests, SubmitQueued(q) PROVE Goal
  BY <1>2, <1>s DEF SubmitQueued, Enqueue
<1>3. ASSUME NEW q \in Requests, SubmitAging(q) PROVE Goal
  <2>1. Submittable(q)
    BY <1>3 DEF SubmitAging
  <2>2. PICK queue \in Sorted(waiters, admitSeq + 1) :
          GrantFresh(Normalize(q), queue) \/ leases' = leases
    BY <1>3 DEF SubmitAging, Enqueue
  <2> QED BY <1>g, <1>s, <2>1, <2>2
<1>4. ASSUME NEW q \in Requests, ReplaceWaiter(q) PROVE Goal
  BY <1>4, <1>s DEF ReplaceWaiter
<1>5. ASSUME NEW i \in DOMAIN waiters, CancelWaiter(i) PROVE Goal
  BY <1>5, <1>s DEF CancelWaiter
<1>6. ASSUME NEW l \in DOMAIN leases, NEW m \in leases[l].members, ReleaseMember(l, m)
      PROVE  Goal
  <2> DEFINE held == Leave(l, m)
  <2>1. leases' = held /\ DOMAIN held = DOMAIN leases
    BY <1>0, <1>6, LeaveFacts DEF ReleaseMember
  <2>2. \A o \in DOMAIN leases : Lineage(held[o], rank)
    BY <1>0, LeaveLineage DEF FamilyInv
  <2> HIDE DEF held
  <2> QED BY <2>1, <2>2
<1>7. ASSUME NEW l \in DOMAIN leases, NEW m, ReleaseLast(l, m) PROVE Goal
  BY <1>0, <1>7, ReleaseLastLineage
<1>8. ASSUME NEW l \in DOMAIN leases, NEW m \in Children, Attach(l, m) PROVE Goal
  BY <1>0, <1>8, AttachLineage DEF FamilyInv, FamiliesOrdered
<1>9. ASSUME NEW l \in DOMAIN leases, NEW m, Depend(m, l) PROVE Goal
  BY <1>0, <1>9, DependLineage
<1>10. ASSUME NEW h, SetHeadroom(h) \/ ResizeTotals(h) PROVE Goal
  BY <1>10, <1>s DEF SetHeadroom, ResizeTotals
<1>11. ASSUME NEW run, NEW p, SetPriority(run, p) PROVE Goal
  BY <1>11, <1>s DEF SetPriority
<1>12. ASSUME Restore \/ Unlock PROVE Goal
  BY <1>12, <1>s DEF Restore, Unlock
<1>13. ASSUME NEW p, SetSchedulingPolicy(p) PROVE Goal
  BY <1>13, <1>s DEF SetSchedulingPolicy
<1>14. ASSUME Promote PROVE Goal
  <2>1. PICK i \in DOMAIN waiters : Grant(waiters[i])
    BY <1>14 DEF Promote
  <2>2. waiters[i] \in Waiter
    BY <1>0
  <2>3. waiters[i].id \notin Children /\ waiters[i].owner \notin Children
    BY DEF FamilyInv
  <2> QED BY <2>1, <2>2, <2>3, GrantLineage
<1>15. Goal
  <2>1. CASE UNCHANGED vars
    BY <2>1, <1>s DEF vars
  <2>2. CASE Next
    <3> HIDE DEF Goal
    <3> QED BY <2>2, <1>1, <1>2, <1>3, <1>4, <1>5, <1>6, <1>7, <1>8, <1>9, <1>10,
               <1>11, <1>12, <1>13, <1>14 DEF Next
  <2> QED BY <2>1, <2>2
<1>16. ASSUME NEW i \in DOMAIN waiters'
       PROVE  waiters'[i].id \notin Children /\ waiters'[i].owner \notin Children
  <2>1. CASE Stayed(waiters'[i])
    <3>1. PICK w \in Queued(waiters) : SameRank(waiters'[i], w)
      BY <2>1 DEF Stayed
    <3>2. PICK j \in DOMAIN waiters : w = waiters[j]
      BY <3>1 DEF Queued
    <3> QED BY <3>1, <3>2 DEF SameRank, FamilyInv
  <2>2. CASE Arrived(waiters'[i])
    <3>1. PICK q \in Requests : SameRank(waiters'[i], Normalize(q))
      BY <2>2 DEF Arrived
    <3> QED BY <1>n, <3>1 DEF SameRank
  <2> QED BY <2>1, <2>2, StepWaiters
<1> QED BY <1>15, <1>16 DEF FamilyInv

-----------------------------------------------------------------------------
(* Restarts *)

(* Restore leaves no limit but the policy's: bursts are configured, or     *)
(* they are not.                                                           *)
BurstSettled ==
  \/ \A p \in Policies : p.burst > 0
  \/ \A p \in Policies : p.burst = 0

PolicyInv ==
  /\ policy \in Policies
  /\ (\A p \in Policies : p.burst = 0) => burstFloor = 0

(* Restore goes on with the policy of the snapshot. *)
LEMMA RestoreKeepsPolicy ==
  ASSUME TypeOK, PolicyInv, BurstSettled, Restore
  PROVE  policy' = policy /\ PolicyInv'
<1>0. policy \in Policy /\ burstFloor \in Nat
  BY DEF TypeOK
<1>1. policy.burst > 0 \/ (policy.burst = 0 /\ burstFloor = 0)
  BY DEF BurstSettled, PolicyInv
<1>2. policy' = policy
  <2>1. (IF policy.burst = 0 THEN burstFloor ELSE policy.burst) = policy.burst
    BY <1>0, <1>1
  <2>2. policy' = [policy EXCEPT !.burst = policy.burst]
    BY <2>1 DEF Restore
  <2> QED BY <1>0, <2>2 DEF Policy
<1>3. (\A p \in Policies : p.burst = 0) => burstFloor' = 0
  <2> SUFFICES ASSUME \A p \in Policies : p.burst = 0 PROVE burstFloor' = 0
    OBVIOUS
  <2>1. policy.burst = 0 /\ burstFloor = 0
    BY DEF PolicyInv
  <2>2. burstFloor' = Max({policy.burst, burstFloor})
    BY DEF Restore
  <2>3. Max({policy.burst, burstFloor}) \in {policy.burst, burstFloor}
    <3>1. policy.burst \in Int /\ burstFloor \in Int
      BY <1>0 DEF Policy
    <3> HIDE <2>1
    <3> QED BY <3>1, MaxOfTwo
  <2> QED BY <2>1, <2>2, <2>3
<1> QED BY <1>2, <1>3 DEF PolicyInv

LEMMA NextPolicy ==
  ASSUME TypeOK, PolicyInv, BurstSettled, [Next]_vars
  PROVE  PolicyInv'
<1>1. ASSUME policy' \in Policies, burstFloor' \in {burstFloor, 0} PROVE PolicyInv'
  BY <1>1 DEF PolicyInv
<1>2. policy \in Policies
  BY DEF PolicyInv
<1>3. CASE UNCHANGED vars
  BY <1>1, <1>2, <1>3 DEF vars
<1>4. ASSUME NEW p \in Policies, SetSchedulingPolicy(p) PROVE PolicyInv'
  BY <1>1, <1>4 DEF SetSchedulingPolicy
<1>5. ASSUME NEW l, NEW m, ReleaseLast(l, m) PROVE PolicyInv'
  BY <1>1, <1>2, <1>5 DEF ReleaseLast
<1>6. ASSUME policy' = policy, burstFloor' = burstFloor PROVE PolicyInv'
  BY <1>1, <1>2, <1>6
<1>7. CASE Next
  BY <1>7, <1>4, <1>5, <1>6, RestoreKeepsPolicy
     DEF Next, SubmitGranted, SubmitQueued, SubmitAging, GrantFresh, Enqueue,
         ReplaceWaiter, CancelWaiter, ReleaseMember, Attach, Depend, SetHeadroom,
         ResizeTotals, SetPriority, Promote, Unlock
<1> QED BY <1>3, <1>7

RestartInv ==
  /\ PolicyInv
  /\ mu = "free" => ~AnyPromotable /\ ~OwnerReadmitted
  /\ mu # "refused"

LEMMA ViolationCausesNext ==
  LedgerInv' => (InvariantViolation' <=> AnyPromotable' \/ OwnerReadmitted')
<1>1. LedgerInv => (InvariantViolation <=> AnyPromotable \/ OwnerReadmitted)
  BY ViolationCauses
<1> QED BY <1>1, PTL

(* A step that changes nothing mustHoldInvariants looks at. *)
LEMMA SameVerdict ==
  ASSUME TypeOK, UNCHANGED <<total, headroom, used, sems, policy, leases, waiters>>
  PROVE  (AnyPromotable' <=> AnyPromotable) /\ (OwnerReadmitted' <=> OwnerReadmitted)
<1>1. SameMachine
  BY DEF SameMachine, SameHolding
<1>2. OwnerReadmitted' <=> OwnerReadmitted
  BY DEF OwnerReadmitted, StaleOwner, Holding, LeaseOf
<1> QED BY <1>1, <1>2, SamePromotable

LEMMA RestoreAccepted ==
  ASSUME LedgerInv, LedgerInv', NEW rank \in [Ids -> Nat], FamilyInv(rank), RestartInv,
         BurstSettled, Restore
  PROVE  RestartInv'
<1>0. TypeOK /\ mu = "free"
  BY DEF LedgerInv, PlaceInv, TypeInv, Restore
<1>2. policy' = policy /\ PolicyInv'
  BY <1>0, RestoreKeepsPolicy DEF RestartInv
<1>3. UNCHANGED <<total, headroom, used, sems, policy, leases, waiters>>
  BY <1>2 DEF Restore
<1>4. ~InvariantViolation'
  <2>1. ~AnyPromotable /\ ~OwnerReadmitted
    BY <1>0 DEF RestartInv
  <2>2. ~AnyPromotable' /\ ~OwnerReadmitted'
    BY <1>0, <1>3, <2>1, SameVerdict
  <2> QED BY <2>2, ViolationCausesNext
<1>5. \A l \in DOMAIN leases' : LineageRestorable(leases'[l])
  <2>1. \A l \in DOMAIN leases : leases[l] \in Lease /\ Lineage(leases[l], rank)
    BY <1>0 DEF TypeOK, FamilyInv
  <2> QED BY <1>3, <2>1, LineageAccepted
<1>6. \A i \in DOMAIN waiters' : \A r \in Host : waiters'[i][r] <= total'[r]
  <2>1. WaitersBounded
    BY DEF LedgerInv, HostInv
  <2>2. \A i \in DOMAIN waiters : \A r \in Host : waiters[i][r] <= total[r]
    BY <2>1 DEF WaitersBounded, Host
  <2> QED BY <1>3, <2>2
<1>7. Restorable'
  BY <1>4, <1>5, <1>6 DEF Restorable
<1>8. mu' = "restored"
  BY <1>7 DEF Restore
<1> QED BY <1>2, <1>8 DEF RestartInv

LEMMA NextRestart ==
  ASSUME LedgerInv, LedgerInv', NEW rank \in [Ids -> Nat], FamilyInv(rank), RestartInv,
         BurstSettled, [Next]_vars
  PROVE  RestartInv'
<1>0. TypeOK /\ PolicyInv'
  BY NextPolicy DEF LedgerInv, PlaceInv, TypeInv, RestartInv
<1>1. ASSUME mu' \notin {"free", "refused"} PROVE RestartInv'
  BY <1>0, <1>1 DEF RestartInv
<1>2. CASE UNCHANGED vars
  <2>1. UNCHANGED <<total, headroom, used, sems, policy, leases, waiters, mu>>
    BY <1>2 DEF vars
  <2> QED BY <1>0, <2>1, SameVerdict DEF RestartInv
<1>3. ASSUME Unlock PROVE RestartInv'
  <2>1. /\ UNCHANGED <<total, headroom, used, sems, policy, leases, waiters>>
        /\ mu' = IF InvariantViolation THEN "panic" ELSE "free"
    BY <1>3 DEF Unlock
  <2>2. mu' = "free" => ~AnyPromotable /\ ~OwnerReadmitted
    BY <2>1, ViolationCauses
  <2> QED BY <1>0, <2>1, <2>2, SameVerdict DEF RestartInv
<1>4. CASE Next
  BY <1>4, <1>1, <1>3, RestoreAccepted
     DEF Next, SubmitGranted, SubmitQueued, SubmitAging, GrantFresh, Enqueue,
         ReplaceWaiter, CancelWaiter, ReleaseMember, ReleaseLast, Attach, Depend,
         SetHeadroom, ResizeTotals, SetPriority, SetSchedulingPolicy, Promote
<1> QED BY <1>2, <1>4

(* Whatever the operations before it, the daemon can start again from the  *)
(* state they committed (Restore), provided that runs are started by runs  *)
(* older than themselves, that a lease's owner is not a run that attached, *)
(* and that a restart does not turn bursts on or off.                      *)
THEOREM RestartsAccepted ==
  ASSUME BurstSettled, \E rank \in [Ids -> Nat] : FamiliesOrdered(rank)
  PROVE  Spec => []NeverRefused
<1>1. PICK rank \in [Ids -> Nat] : FamiliesOrdered(rank)
  OBVIOUS
<1> DEFINE Inv == LedgerInv /\ FamilyInv(rank) /\ RestartInv
<1>2. Init => Inv
  <2> SUFFICES ASSUME Init PROVE FamilyInv(rank) /\ RestartInv
    BY InitLedger
  <2>1. DOMAIN leases = {} /\ DOMAIN waiters = {} /\ policy \in Policies
        /\ burstFloor = 0 /\ mu = "free"
    BY DEF Init, EmptyFcn
  <2> QED BY <2>1 DEF FamilyInv, RestartInv, PolicyInv, AnyPromotable, OwnerReadmitted
<1>3. Inv /\ [Next]_vars => Inv'
  <2> SUFFICES ASSUME Inv, [Next]_vars PROVE Inv'
    OBVIOUS
  <2>1. TypeInv
    BY DEF LedgerInv, PlaceInv
  <2>2. LedgerInv'
    BY NextLedger
  <2>3. FamilyInv(rank)'
    BY <1>1, <2>1, NextFamily
  <2>4. RestartInv'
    BY <2>2, NextRestart
  <2> QED BY <2>2, <2>3, <2>4
<1>4. Inv => NeverRefused
  BY DEF RestartInv, NeverRefused
<1> HIDE DEF Inv
<1> QED BY <1>2, <1>3, <1>4, PTL DEF Spec

-----------------------------------------------------------------------------
(* Operations that do not run the promote loop *)

LEMMA OutranksAsymmetric ==
  ASSUME TypeOK, NEW a \in Waiter, NEW b \in Waiter, NEW now \in Nat, Outranks(a, b, now)
  PROVE  ~Outranks(b, a, now)
<1>1. ClassScore(a, now) \in Int /\ ClassScore(b, now) \in Int
  BY ScoreType
<1>2. a.priority \in Int /\ a.admit \in Nat /\ b.priority \in Int /\ b.admit \in Nat
  BY DEF Waiter
<1> QED BY <1>1, <1>2 DEF Outranks

(* sortWaiters has one result: of two arrangements in order, look at the   *)
(* first place where they differ.  Each has the other's waiter of that     *)
(* place further back, so each of the two waiters outranks the other.      *)
LEMMA OrderedUnique ==
  ASSUME TypeOK, NEW a \in Seq(Waiter), NEW b \in Arrangements(a), NEW now \in Nat,
         IsOrdered(a, now), IsOrdered(b, now)
  PROVE  b = a
<1>1. /\ b \in Seq(Waiter) /\ DOMAIN b = DOMAIN a
      /\ \A i \in DOMAIN b : \E j \in DOMAIN a : b[i] = a[j]
      /\ \A j \in DOMAIN a : \E i \in DOMAIN b : b[i] = a[j]
  BY ArrangementFacts
<1>2. Len(a) \in Nat /\ DOMAIN a = 1..Len(a) /\ \A i \in DOMAIN a : a[i] \in Waiter /\ b[i] \in Waiter
  BY <1>1, LenProperties
<1> DEFINE Bad == {i \in DOMAIN a : b[i] # a[i]}
<1>3. SUFFICES ASSUME Bad # {} PROVE FALSE
  <2>1. ASSUME Bad = {} PROVE b = a
    <3>1. \A i \in DOMAIN a : b[i] = a[i]
      BY <2>1
    <3>2. a = [i \in DOMAIN a |-> a[i]] /\ b = [i \in DOMAIN b |-> b[i]]
      BY <1>1
    <3> QED BY <1>1, <3>1, <3>2
  <2> QED BY <1>3, <2>1
<1>4. PICK i \in Bad : \A m \in Bad : i <= m
  <2>1. Bad \in SUBSET Nat
    BY <1>2
  <2> HIDE DEF Bad
  <2> QED BY <1>3, <2>1, LeastNatural
<1>5. i \in DOMAIN a /\ i \in Int /\ b[i] # a[i] /\ \A m \in DOMAIN a : m < i => b[m] = a[m]
  BY <1>2, <1>4
<1>6. PICK j \in DOMAIN a : b[j] = a[i]
  BY <1>1, <1>5
<1>7. PICK k \in DOMAIN a : b[i] = a[k]
  BY <1>1, <1>5
<1>8. j \in Int /\ k \in Int /\ j # i /\ k # i
  BY <1>2, <1>5, <1>6, <1>7
<1>9. i < j
  <2> SUFFICES ASSUME j < i PROVE FALSE
    BY <1>5, <1>8
  <2>1. a[j] = a[i]
    BY <1>5, <1>6
  <2>2. Outranks(a[i], a[i], now)
    BY <1>5, <2>1 DEF IsOrdered
  <2> QED BY <1>2, <1>5, <2>2, OutranksIrreflexive DEF Irreflexive
<1>10. i < k
  <2> SUFFICES ASSUME k < i PROVE FALSE
    BY <1>5, <1>8
  <2>1. b[k] = b[i]
    BY <1>5, <1>7
  <2>2. Outranks(b[i], b[i], now)
    BY <1>1, <1>5, <2>1 DEF IsOrdered
  <2> QED BY <1>2, <1>5, <2>2, OutranksIrreflexive DEF Irreflexive
<1>11. Outranks(b[i], a[i], now)
  BY <1>1, <1>5, <1>6, <1>9 DEF IsOrdered
<1>12. Outranks(a[i], b[i], now)
  BY <1>5, <1>7, <1>10 DEF IsOrdered
<1> QED BY <1>2, <1>5, <1>11, <1>12, OutranksAsymmetric

(* The scan of the waiters a newcomer is put behind is what it was. *)
LEMMA ScanBeforeLast ==
  ASSUME NEW queue \in Seq(Waiter), NEW s \in Waiter, NEW n \in 0..Len(queue)
  PROVE  ScanWaiters(Append(queue, s))[n] = ScanWaiters(queue)[n]
<1> DEFINE N == Len(queue)
           longer == Append(queue, s)
           f == ScanWaiters(longer)
           g == ScanWaiters(queue)
<1>0. /\ N \in Nat /\ longer \in Seq(Waiter) /\ Len(longer) = N + 1
      /\ \A i \in 1..N : longer[i] = queue[i]
  BY LenProperties, AppendProperties
<1> HIDE DEF longer
<1>1. /\ f[0] = NothingScanned
      /\ \A i \in 1..(N + 1) : \A scan, w :
           scan = f[i - 1] /\ w = longer[i] => f[i] = ScanStep(scan, w)
  BY <1>0, ScanRecursion DEF ScanInSteps
<1>2. /\ g[0] = NothingScanned
      /\ \A i \in 1..N : \A scan, w :
           scan = g[i - 1] /\ w = queue[i] => g[i] = ScanStep(scan, w)
  BY ScanRecursion DEF ScanInSteps
<1> HIDE DEF f, g, N
<1>3. ASSUME NEW i \in 1..N, f[i - 1] = g[i - 1]
      PROVE  f[i] = g[i]
  <2>1. PICK scan, w : scan = g[i - 1] /\ w = queue[i]
    OBVIOUS
  <2>2. i \in 1..(N + 1) /\ longer[i] = w
    BY <1>0, <2>1
  <2> QED BY <1>1, <1>2, <1>3, <2>1, <2>2
<1>4. f[0] = g[0]
  BY <1>1, <1>2
<1>5. N \in Nat
  BY <1>0
<1>6. \A i \in 0..N : f[i] = g[i]
  <2>1. StepsAlike(f, g, N)
    BY <1>3, <1>4 DEF StepsAlike
  <2> QED BY <1>5, <2>1, IteratesUnique
<1> QED BY <1>6 DEF f, g, N, longer

(* Everybody who waits is ahead of a request of the lowest rank. *)
LEMMA AheadOfLast ==
  ASSUME NEW queue \in Seq(Waiter), NEW s, NEW now,
         \A i \in DOMAIN queue : Outranks(queue[i], s, now)
  PROVE  Ahead(queue, s, now) = Len(queue)
<1> DEFINE N == Len(queue)
           S == {n \in 0..N : \A i \in 1..n : Outranks(queue[i], s, now)}
<1>1. N \in Nat /\ DOMAIN queue = 1..N
  BY LenProperties
<1>2. S = 0..N
  <2>1. ASSUME NEW n \in 0..N, NEW i \in 1..n PROVE Outranks(queue[i], s, now)
    <3>1. i \in 1..N
      BY <1>1
    <3> QED BY <1>1, <3>1
  <2> QED BY <2>1
<1>3. N \in 0..N /\ \A y \in 0..N : N >= y
  BY <1>1
<1>4. Max(0..N) = N
  <2> HIDE DEF N
  <2>1. ASSUME NEW x \in 0..N, \A y \in 0..N : x >= y PROVE x = N
    <3>1. x >= N
      BY <1>3, <2>1
    <3> QED BY <1>1, <3>1
  <2> QED BY <1>3, <2>1 DEF Max
<1>5. Ahead(queue, s, now) = Max(S)
  BY DEF Ahead
<1> QED BY <1>2, <1>4, <1>5

(* Nothing is configured that changes what a waiter could start beside, or *)
(* the order of the queue, in an operation without the promote loop: one   *)
(* policy, no resize, and a newcomer that goes last, or that is never      *)
(* refused after it has aged the queue.                                    *)
Orderly ==
  /\ Resizes = {}
  /\ \A p, o \in Policies : p = o
  /\ \A p \in Policies :
       \/ /\ p.aging = 0 /\ Priorities = {}
          /\ \A q, o \in Requests : q.priority = o.priority
       \/ /\ p.aging > 0
          /\ \A q \in Requests : \A k \in Claimed(q) :
               q.claims[k].policy \notin {"fail", "skip"}

(* Everybody in S has the rank of a request. *)
AllAlike(S) == \A w \in S : \A q \in Requests : w.priority = q.priority

FlatQueue == policy.aging = 0 => AllAlike(Queued(waiters))

LEMMA AlikeFrom ==
  ASSUME NEW S, AllAlike(S), QueueFrom(S)
  PROVE  AllAlike(Queued(waiters'))
BY DEF AllAlike, QueueFrom, Queued, SameButDelay

(* Where operators rank nobody, everybody has the rank it asked for. *)
LEMMA NobodyRanked ==
  ASSUME TypeOK, Priorities = {}
  PROVE  \A id, owner, carried : OverrideFor(overrides, id, owner, carried) = carried
<1>1. DOMAIN overrides = {}
  BY DEF TypeOK
<1> QED BY <1>1 DEF OverrideFor

LEMMA OrderlyPolicy ==
  ASSUME TypeOK, PolicyInv, Orderly
  PROVE  /\ BurstSettled
         /\ policy.aging = 0 => /\ Priorities = {}
                                /\ \A q, o \in Requests : q.priority = o.priority
         /\ policy.aging # 0 => \A q \in Requests : \A k \in Claimed(q) :
                                  q.claims[k].policy \notin {"fail", "skip"}
<1>1. policy \in Policies /\ policy.burst \in Nat /\ policy.aging \in Nat
  BY DEF TypeOK, PolicyInv, Policy
<1>2. \A p \in Policies : p = policy
  BY <1>1 DEF Orderly
<1>3. BurstSettled
  BY <1>1, <1>2 DEF BurstSettled
<1> QED BY <1>1, <1>3 DEF Orderly

(* A replaced waiter keeps the rank of a request. *)
LEMMA ReplaceWaiterAlike ==
  ASSUME TypeInv, PolicyInv, Orderly, FlatQueue, policy.aging = 0,
         NEW q \in Requests, ReplaceWaiter(q)
  PROVE  AllAlike(Queued(waiters'))
<1>0. TypeOK /\ waiters \in Seq(Waiter) /\ Admissible(q)
  BY DEF TypeInv, TypeOK, ReplaceWaiter
<1> DEFINE n == Normalize(q)
           s(w) == [n EXCEPT !.admit = w.admit, !.owner = w.owner,
                             !.ownerAdmit = w.ownerAdmit, !.delay = w.delay,
                             !.priority = OverrideFor(overrides, w.id, w.owner, @)]
<1>1. PICK i \in DOMAIN waiters :
        waiters' \in Arrangements([waiters EXCEPT ![i] = s(waiters[i])])
  BY DEF ReplaceWaiter, Sorted
<1>2. n \in Waiter /\ n.priority = OverrideFor(overrides, q.id, q.owner, q.priority)
  BY <1>0, NormalizeFacts DEF Normalize
<1>3. \A id, owner, carried : OverrideFor(overrides, id, owner, carried) = carried
  BY <1>0, NobodyRanked, OrderlyPolicy
<1> HIDE DEF n
<1>4. s(waiters[i]).priority = q.priority
  BY <1>2, <1>3 DEF Waiter
<1>5. PICK v : v = s(waiters[i])
  OBVIOUS
<1> HIDE DEF s
<1>6. ASSUME NEW w \in Queued(waiters'), NEW o \in Requests
      PROVE  w.priority = o.priority
  <2>1. PICK k \in DOMAIN waiters' : w = waiters'[k]
    BY DEF Queued
  <2>2. PICK j \in DOMAIN waiters : w = [waiters EXCEPT ![i] = v][j]
    BY <1>1, <1>5, <2>1 DEF Arrangements
  <2>3. CASE j = i
    BY <1>0, <1>4, <1>5, <2>2, <2>3, OrderlyPolicy
  <2>4. CASE j # i
    BY <1>0, <2>2, <2>4 DEF FlatQueue, AllAlike, Queued
  <2> QED BY <2>3, <2>4
<1> QED BY <1>6 DEF AllAlike

(* A newcomer that has to queue goes last: it changes nothing for those it *)
(* is put behind, and cannot start itself.                                 *)
LEMMA NewcomerWaits ==
  ASSUME LedgerInv, PolicyInv, Orderly, FlatQueue, ~AnyPromotable,
         NEW q \in Requests, SubmitQueued(q)
  PROVE  ~AnyPromotable'
<1>1. /\ TypeOK /\ waiters \in Seq(Waiter) /\ IsOrdered(waiters, admitSeq)
      /\ admitSeq \in Nat /\ policy.aging = 0
  BY HostAssumption DEF LedgerInv, PlaceInv, TypeInv, TypeOK, WaiterInvariants, SubmitQueued
<1>2. PICK s : s = Normalize(q)
  OBVIOUS
<1>3. s \in Waiter
  BY <1>1, <1>2, NormalizeFacts DEF SubmitQueued, Submittable
<1>4. s.admit = admitSeq + 1 /\ s.priority = q.priority
  <2>1. s.priority = OverrideFor(overrides, q.id, q.owner, q.priority)
    BY <1>2 DEF Normalize
  <2>2. s.priority = q.priority
    BY <1>1, <2>1, NobodyRanked, OrderlyPolicy
  <2> QED BY <1>2, <2>2 DEF Normalize
<1>5. /\ ~MayStart(s, waiters, admitSeq)
      /\ waiters' \in Sorted(Append(waiters, s), s.admit)
      /\ UNCHANGED <<total, headroom, used, sems, leases, policy>>
  BY <1>2 DEF SubmitQueued, Enqueue
<1>6. ASSUME NEW i \in DOMAIN waiters, NEW now PROVE Outranks(waiters[i], s, now)
  <2>1. waiters[i].admit <= admitSeq /\ waiters[i].priority = q.priority
    BY <1>1 DEF LedgerInv, RankInv, RankedBy, FlatQueue, AllAlike, Queued
  <2>2. waiters[i] \in Waiter
    BY <1>1
  <2>3. waiters[i].admit \in Nat /\ waiters[i].priority \in Int
    BY <2>2 DEF Waiter
  <2>4. waiters[i].admit < s.admit
    BY <1>1, <1>4, <2>1, <2>3
  <2> QED BY <1>1, <1>4, <2>1, <2>4 DEF Outranks, ClassScore
<1>7. PICK queue : queue = waiters
  OBVIOUS
<1>8. PICK longer : longer = Append(queue, s)
  OBVIOUS
<1>9. PICK N : N = Len(queue)
  OBVIOUS
<1>10. /\ queue \in Seq(Waiter) /\ N \in Nat /\ DOMAIN queue = 1..N
       /\ longer \in Seq(Waiter) /\ DOMAIN longer = 1..(N + 1)
       /\ longer[N + 1] = s /\ \A i \in 1..N : longer[i] = queue[i]
  BY <1>1, <1>3, <1>7, <1>8, <1>9, LenProperties, AppendProperties
<1>11. IsOrdered(longer, s.admit)
  <2>1. IsOrdered(waiters, s.admit)
    BY <1>1, OrderWithoutAging
  <2> SUFFICES ASSUME NEW i \in 1..(N + 1), NEW j \in 1..(N + 1), i < j
               PROVE  Outranks(longer[i], longer[j], s.admit)
    BY <1>10 DEF IsOrdered
  <2>2. i \in 1..N /\ longer[i] = queue[i]
    BY <1>10
  <2>3. CASE j = N + 1
    BY <1>6, <1>7, <1>10, <2>2, <2>3
  <2>4. CASE j # N + 1
    <3>1. j \in 1..N /\ longer[j] = queue[j]
      BY <1>10, <2>4
    <3> QED BY <1>7, <1>10, <2>1, <2>2, <3>1 DEF IsOrdered
  <2> QED BY <2>3, <2>4
<1>12. waiters' = longer
  <2>1. waiters' \in Arrangements(longer) /\ IsOrdered(waiters', s.admit)
    BY <1>5, <1>7, <1>8 DEF Sorted
  <2>2. s.admit \in Nat
    BY <1>1, <1>4
  <2> QED BY <1>1, <1>10, <1>11, <2>1, <2>2, OrderedUnique
<1>13. \A i \in 1..N : ~Startable(queue, i)
  BY <1>7, <1>10, PromotableIsStartable DEF SomeoneStartable
<1>14. \A n \in 0..N : ScanWaiters(longer)[n] = ScanWaiters(queue)[n]
  BY <1>3, <1>8, <1>9, <1>10, ScanBeforeLast
<1>15. ASSUME NEW i \in 1..N PROVE ~Startable(longer, i)
  <2>1. i - 1 \in 0..N
    BY <1>10
  <2>2. longer[i] = queue[i] /\ ScanWaiters(longer)[i - 1] = ScanWaiters(queue)[i - 1]
    BY <1>10, <1>14, <2>1
  <2> QED BY <1>13, <2>2 DEF Startable
<1>16. ~Startable(longer, N + 1)
  <2>1. Ahead(queue, s, admitSeq) = N
    BY <1>6, <1>7, <1>9, <1>10, AheadOfLast
  <2>2. ~Fits(s) \/ ~Unhindered(s, ScanWaiters(queue)[N])
    BY <1>5, <1>7, <2>1 DEF MayStart, FifoBlocked
  <2>3. N \in 0..N /\ (N + 1) - 1 = N
    BY <1>10
  <2>4. longer[N + 1] = s /\ ScanWaiters(longer)[(N + 1) - 1] = ScanWaiters(queue)[N]
    BY <1>10, <1>14, <2>3
  <2> QED BY <2>2, <2>4 DEF Startable
<1>17. \A i \in DOMAIN longer : ~Startable(longer, i)
  <2>1. \A i \in 1..(N + 1) : i \in 1..N \/ i = N + 1
    BY <1>10
  <2> QED BY <1>10, <1>15, <1>16, <2>1
<1>18. SameMachine
  BY <1>5 DEF SameMachine, SameHolding
<1>19. \A i \in DOMAIN longer : ~Startable(longer, i)'
  BY <1>10, <1>17, <1>18, SameStartable
<1> QED BY <1>12, <1>19, PromotableIsStartableNext DEF SomeoneStartable

(* Nobody is left waiting who could start, but while the promote loop is   *)
(* to run.                                                                 *)
CalmInv ==
  /\ PolicyInv /\ FlatQueue
  /\ mu \in {"free", "check", "restored"} => ~AnyPromotable
  /\ mu = "panic" => OwnerReadmitted

(* The promote loop is to run. *)
LEMMA CalmLater ==
  ASSUME PolicyInv', FlatQueue', mu' \in {"promote", "prune"}
  PROVE  CalmInv'
BY DEF CalmInv

(* A step that leaves the machine, the holdings and the queue alone. *)
LEMMA CalmStays ==
  ASSUME TypeOK, CalmInv, PolicyInv', SameMachine, waiters' = waiters,
         mu \in {"free", "restored"}, mu' # "panic"
  PROVE  CalmInv'
<1>1. ~AnyPromotable'
  BY SamePromotable DEF CalmInv
<1>2. FlatQueue'
  BY DEF CalmInv, FlatQueue, SameMachine, AllAlike, Queued
<1> QED BY <1>1, <1>2 DEF CalmInv

LEMMA BooksMachine ==
  ASSUME SameBooks, UNCHANGED <<total, headroom, policy>>
  PROVE  SameMachine
BY DEF SameBooks, SameMachine

(* A policy that is the one in force leaves the queue as it is. *)
LEMMA SamePolicyCalm ==
  ASSUME LedgerInv, CalmInv, PolicyInv', Orderly, NEW p \in Policies,
         SetSchedulingPolicy(p)
  PROVE  CalmInv'
<1>1. /\ TypeOK /\ waiters \in Seq(Waiter) /\ IsOrdered(waiters, admitSeq)
      /\ admitSeq \in Nat
  BY HostAssumption DEF LedgerInv, PlaceInv, TypeInv, TypeOK, WaiterInvariants
<1>2. /\ UNCHANGED <<total, headroom, used, sems, leases, admitSeq>>
      /\ policy' = p /\ mu = "restored" /\ mu' = "check"
      /\ waiters' \in Arrangements(waiters) /\ IsOrdered(waiters, admitSeq)'
  BY DEF SetSchedulingPolicy
<1>3. policy' = policy
  BY <1>2 DEF CalmInv, PolicyInv, Orderly
<1>4. IsOrdered(waiters', admitSeq)
  <2>1. IsOrdered(waiters, admitSeq)' /\ admitSeq' = admitSeq
    BY <1>2
  <2> QED BY <1>3, <2>1 DEF IsOrdered, Outranks, ClassScore
<1>5. waiters' = waiters
  BY <1>1, <1>2, <1>4, OrderedUnique
<1>6. SameMachine
  BY <1>2, <1>3 DEF SameMachine, SameHolding
<1> QED BY <1>1, <1>2, <1>5, <1>6, CalmStays

LEMMA SubmitCalm ==
  ASSUME LedgerInv, CalmInv, PolicyInv', Orderly, NEW q \in Requests,
         SubmitGranted(q) \/ SubmitQueued(q) \/ SubmitAging(q)
  PROVE  CalmInv'
<1>0. TypeOK /\ TypeInv /\ waiters \in Seq(Waiter) /\ PolicyInv /\ FlatQueue
  BY DEF LedgerInv, PlaceInv, TypeInv, TypeOK, CalmInv
<1>1. policy.aging = 0 => AllAlike(Queued(waiters)) /\ AllAlike(Queued(waiters) \cup {Normalize(q)})
  <2> SUFFICES ASSUME policy.aging = 0 PROVE AllAlike(Queued(waiters) \cup {Normalize(q)})
    BY <1>0 DEF FlatQueue
  <2>1. Normalize(q).priority = OverrideFor(overrides, q.id, q.owner, q.priority)
    BY DEF Normalize
  <2>2. Normalize(q).priority = q.priority
    BY <1>0, <2>1, NobodyRanked, OrderlyPolicy
  <2>3. \A o \in Requests : Normalize(q).priority = o.priority
    BY <1>0, <2>2, OrderlyPolicy
  <2>4. AllAlike(Queued(waiters))
    BY <1>0 DEF FlatQueue
  <2> HIDE DEF Normalize
  <2> QED BY <2>3, <2>4 DEF AllAlike
<1>2. CASE SubmitGranted(q)
  <2>1. /\ Submittable(q) /\ GrantFresh(Normalize(q), waiters) /\ policy.aging = 0
        /\ mu' = "promote"
    BY <1>2 DEF SubmitGranted, GrantFresh
  <2>2. AllAlike(Queued(waiters'))
    BY <1>0, <1>1, <2>1, GrantFreshFacts, AlikeFrom
  <2>3. FlatQueue'
    BY <2>2 DEF FlatQueue, AllAlike, Queued
  <2> QED BY <2>1, <2>3, CalmLater
<1>3. CASE SubmitQueued(q)
  <2>1. /\ Submittable(q) /\ Enqueue(Normalize(q), waiters, "check")
        /\ policy.aging = 0 /\ mu = "free" /\ mu' = "check"
    BY <1>3 DEF SubmitQueued, Enqueue, Submittable
  <2>2. AllAlike(Queued(waiters'))
    BY <1>0, <1>1, <2>1, EnqueueFacts, AlikeFrom
  <2>3. FlatQueue'
    BY <2>2 DEF FlatQueue, AllAlike, Queued
  <2>4. ~AnyPromotable
    BY <2>1 DEF CalmInv
  <2>5. ~AnyPromotable'
    BY <1>0, <1>3, <2>4, NewcomerWaits
  <2> QED BY <2>1, <2>3, <2>5 DEF CalmInv
<1>4. CASE SubmitAging(q)
  <2>1. policy.aging > 0 /\ policy' = policy /\ policy.aging \in Nat
    BY <1>0, <1>4 DEF SubmitAging, GrantFresh, Enqueue, TypeOK, Policy
  <2>2. FlatQueue'
    BY <2>1 DEF FlatQueue
  <2>3. Normalize(q).claims = q.claims
    BY DEF Normalize
  <2>4. \A queue : ~TerminalClaim(Normalize(q), queue)
    <3>1. \A k \in Claimed(q) : q.claims[k].policy \notin {"fail", "skip"}
      BY <1>0, <2>1, OrderlyPolicy
    <3> QED BY <2>3, <3>1 DEF TerminalClaim, Claimed
  <2>5. mu' = "promote"
    BY <1>4, <2>4 DEF SubmitAging, GrantFresh, Enqueue
  <2> QED BY <2>2, <2>5, CalmLater
<1> QED BY <1>2, <1>3, <1>4

LEMMA NextCalm ==
  ASSUME LedgerInv, CalmInv, Orderly, [Next]_vars
  PROVE  CalmInv'
<1>0. TypeOK /\ TypeInv /\ PolicyInv /\ FlatQueue /\ BurstSettled
  BY OrderlyPolicy DEF LedgerInv, PlaceInv, TypeInv, CalmInv
<1>p. PolicyInv'
  BY <1>0, NextPolicy
<1>s. waiters' = waiters /\ policy' = policy => FlatQueue'
  BY <1>0 DEF FlatQueue, AllAlike, Queued
<1>q. QueueFrom(Queued(waiters)) /\ policy' = policy => FlatQueue'
  <2> SUFFICES ASSUME QueueFrom(Queued(waiters)), policy' = policy, policy.aging = 0
               PROVE  AllAlike(Queued(waiters'))
    BY DEF FlatQueue, AllAlike, Queued
  <2> QED BY <1>0, AlikeFrom DEF FlatQueue
<1>1. ASSUME NEW q \in Requests, SubmitGranted(q) \/ SubmitQueued(q) \/ SubmitAging(q)
      PROVE  CalmInv'
  BY <1>p, <1>1, SubmitCalm
<1>2. ASSUME NEW q \in Requests, ReplaceWaiter(q) PROVE CalmInv'
  <2>1. mu' = "promote" /\ policy' = policy
    BY <1>2 DEF ReplaceWaiter
  <2>2. FlatQueue'
    <3> SUFFICES ASSUME policy.aging = 0 PROVE AllAlike(Queued(waiters'))
      BY <2>1 DEF FlatQueue, AllAlike, Queued
    <3> QED BY <1>0, <1>2, ReplaceWaiterAlike
  <2> QED BY <1>p, <2>1, <2>2, CalmLater
<1>3. ASSUME NEW i \in DOMAIN waiters, CancelWaiter(i) PROVE CalmInv'
  <2>1. mu' = "prune" /\ policy' = policy
    BY <1>3 DEF CancelWaiter
  <2>2. FlatQueue'
    BY <1>0, <1>q, <1>3, <2>1, CancelWaiterType
  <2> QED BY <1>p, <2>1, <2>2, CalmLater
<1>4. ASSUME NEW l \in DOMAIN leases, NEW m, ReleaseMember(l, m) PROVE CalmInv'
  <2>1. SameBooks
    BY <1>0, <1>4, ReleaseMemberBooks
  <2>2. UNCHANGED <<total, headroom, policy, waiters>> /\ mu = "free" /\ mu' = "check"
    BY <1>4 DEF ReleaseMember
  <2> QED BY <1>0, <1>p, <2>1, <2>2, BooksMachine, CalmStays
<1>5. ASSUME NEW l, NEW m, ReleaseLast(l, m) PROVE CalmInv'
  <2>1. mu' = "prune" /\ waiters' = waiters /\ policy' = policy
    BY <1>5 DEF ReleaseLast
  <2> QED BY <1>p, <1>s, <2>1, CalmLater
<1>6. ASSUME NEW l \in DOMAIN leases, NEW m \in Children, Attach(l, m) \/ Depend(m, l)
      PROVE  CalmInv'
  <2>1. SameBooks
    BY <1>0, <1>6, AttachBooks, DependBooks
  <2>2. UNCHANGED <<total, headroom, policy, waiters>> /\ mu = "free" /\ mu' = "check"
    BY <1>6 DEF Attach, Depend
  <2> QED BY <1>0, <1>p, <2>1, <2>2, BooksMachine, CalmStays
<1>7. ASSUME NEW h, SetHeadroom(h) PROVE CalmInv'
  <2>1. mu' = "promote" /\ waiters' = waiters /\ policy' = policy
    BY <1>7 DEF SetHeadroom
  <2> QED BY <1>p, <1>s, <2>1, CalmLater
<1>8. ASSUME NEW run, NEW p \in Priorities, SetPriority(run, p) PROVE CalmInv'
  <2>1. policy.aging # 0
    BY <1>0, OrderlyPolicy
  <2>2. UNCHANGED <<total, headroom, used, sems, leases, leaseSeq, policy>> /\ mu = "free"
    BY <1>8 DEF SetPriority
  <2>3. (waiters' = waiters /\ mu' = "check") \/ mu' = "promote"
    BY <1>8 DEF SetPriority
  <2>4. FlatQueue'
    BY <2>1, <2>2 DEF FlatQueue
  <2>5. SameMachine
    BY <2>2 DEF SameMachine, SameHolding
  <2>6. CASE waiters' = waiters /\ mu' = "check"
    BY <1>0, <1>p, <2>2, <2>5, <2>6, CalmStays
  <2>7. CASE mu' = "promote"
    BY <1>p, <2>4, <2>7, CalmLater
  <2> QED BY <2>3, <2>6, <2>7
<1>9. ASSUME Restore PROVE CalmInv'
  <2>1. policy' = policy
    BY <1>0, <1>9, RestoreKeepsPolicy
  <2>2. UNCHANGED <<total, headroom, used, sems, leases, waiters>> /\ mu = "free"
        /\ mu' # "panic"
    BY <1>9 DEF Restore
  <2>3. SameMachine
    BY <2>1, <2>2 DEF SameMachine, SameHolding
  <2> QED BY <1>0, <1>p, <2>2, <2>3, CalmStays
<1>10. ASSUME NEW p \in Policies, SetSchedulingPolicy(p) PROVE CalmInv'
  BY <1>p, <1>10, SamePolicyCalm
<1>11. ASSUME Promote PROVE CalmInv'
  <2>1. mu' = mu /\ mu \in {"promote", "prune"} /\ policy' = policy
    BY <1>11 DEF Promote
  <2>2. FlatQueue'
    BY <1>0, <1>q, <1>11, <2>1, PromoteType
  <2> QED BY <1>p, <2>1, <2>2, CalmLater
<1>12. ASSUME Unlock PROVE CalmInv'
  <2>1. /\ UNCHANGED <<total, headroom, used, sems, leases, waiters, policy>>
        /\ mu' = IF InvariantViolation THEN "panic" ELSE "free"
        /\ mu = "check" \/ ~AnyPromotable
    BY <1>12 DEF Unlock
  <2>2. ~AnyPromotable
    BY <2>1 DEF CalmInv
  <2>3. mu' = "panic" => OwnerReadmitted
    BY <2>1, <2>2, ViolationCauses
  <2>4. ~AnyPromotable' /\ (mu' = "panic" => OwnerReadmitted')
    BY <1>0, <2>1, <2>2, <2>3, SameVerdict
  <2> QED BY <1>p, <1>s, <2>1, <2>4 DEF CalmInv
<1>13. ~\E b \in Resizes : ResizeTotals(b)
  BY DEF Orderly
<1>14. CASE UNCHANGED vars
  <2>1. UNCHANGED <<total, headroom, used, sems, policy, leases, waiters, mu>>
    BY <1>14 DEF vars
  <2>2. (AnyPromotable' <=> AnyPromotable) /\ (OwnerReadmitted' <=> OwnerReadmitted)
    BY <1>0, <2>1, SameVerdict
  <2> QED BY <1>p, <1>s, <2>1, <2>2 DEF CalmInv
<1>15. CASE Next
  BY <1>15, <1>1, <1>2, <1>3, <1>4, <1>5, <1>6, <1>7, <1>8, <1>9, <1>10, <1>11, <1>12,
     <1>13 DEF Next
<1> QED BY <1>14, <1>15

(* Under one policy, without resizes, and where newcomers go last or age   *)
(* the queue without being refused, the only thing an operation can panic  *)
(* over is the rank of an owner that was let in again (mustHoldInvariants, *)
(* ownerRankInvariant).                                                    *)
THEOREM PanicsOverOwners ==
  ASSUME Orderly
  PROVE  Spec => [](mu = "panic" => OwnerReadmitted)
<1>1. Init => CalmInv
  <2> SUFFICES ASSUME Init PROVE CalmInv
    OBVIOUS
  <2>1. /\ DOMAIN waiters = {} /\ policy \in Policies /\ burstFloor = 0 /\ mu = "free"
    BY DEF Init
  <2> QED BY <2>1 DEF CalmInv, PolicyInv, FlatQueue, AllAlike, Queued, AnyPromotable
<1>2. LedgerInv /\ CalmInv /\ [Next]_vars => CalmInv'
  BY NextCalm
<1>3. CalmInv => (mu = "panic" => OwnerReadmitted)
  BY DEF CalmInv
<1> QED BY <1>1, <1>2, <1>3, InitLedger, NextLedger, PTL DEF Spec

(* Nobody who holds or waits has an owner. *)
Ownerless ==
  /\ \A l \in DOMAIN leases : leases[l].owner = None
  /\ \A i \in DOMAIN waiters : waiters[i].owner = None

LEMMA NextOwnerless ==
  ASSUME \A q \in Requests : q.owner = None, TypeInv, WaitersBounded, Ownerless, [Next]_vars
  PROVE  Ownerless'
<1>0. TypeOK /\ HoldsMatchClaims
  BY DEF TypeInv
<1>1. ASSUME NEW v, Arrived(v) PROVE v.owner = None
  <2>1. PICK q \in Requests : SameRank(v, Normalize(q))
    BY <1>1 DEF Arrived
  <2> QED BY <2>1 DEF SameRank, Normalize
<1>2. ASSUME NEW v \in Queued(waiters) PROVE v.owner = None
  BY DEF Queued, Ownerless
<1>3. ASSUME NEW i \in DOMAIN waiters' PROVE waiters'[i].owner = None
  <2>1. CASE Stayed(waiters'[i])
    <3>1. PICK w \in Queued(waiters) : SameRank(waiters'[i], w)
      BY <2>1 DEF Stayed
    <3> QED BY <1>2, <3>1 DEF SameRank
  <2>2. CASE Arrived(waiters'[i])
    BY <1>1, <2>2
  <2> QED BY <2>1, <2>2, StepWaiters
<1>4. \A l \in DOMAIN leases' : leases'[l].owner = None
  <2>1. CASE SameBooks
    BY <2>1 DEF SameBooks, SameHolding, Ownerless
  <2>2. ASSUME NEW s, LetIn(s), s \in Queued(waiters) \/ Arrived(s)
        PROVE  \A l \in DOMAIN leases' : leases'[l].owner = None
    <3>id. PICK id : id = leaseSeq + 1
      OBVIOUS
    <3>1. /\ DOMAIN leases' = DOMAIN leases \cup {id}
          /\ leases'[id] = NewLease(s)
          /\ \A l \in DOMAIN leases : SameHolding(leases'[l], leases[l])
      BY <1>0, <2>2, <3>id, GrantFacts DEF LetIn
    <3>2. s.owner = None
      BY <1>1, <1>2, <2>2
    <3>3. leases'[id].owner = None
      BY <3>1, <3>2 DEF NewLease
    <3>4. \A l \in DOMAIN leases : leases'[l].owner = None
      BY <3>1 DEF SameHolding, Ownerless
    <3> QED BY <3>1, <3>3, <3>4
  <2>3. ASSUME NEW l \in DOMAIN leases, NEW m, ReleaseLast(l, m)
        PROVE  \A o \in DOMAIN leases' : leases'[o].owner = None
    <3>1. /\ DOMAIN leases' = DOMAIN leases \ {l}
          /\ \A o \in DOMAIN leases' : SameHolding(leases'[o], leases[o])
      BY <1>0, <2>3, ReleaseLastFacts
    <3> QED BY <3>1 DEF SameHolding, Ownerless
  <2> QED BY <2>1, <2>2, <2>3, StepLeases
<1> QED BY <1>3, <1>4 DEF Ownerless

(* mustHoldInvariants never fires where, besides, no request names an      *)
(* owner: every operation leaves the books balanced, the queue in order,   *)
(* and nobody queued who could start.                                      *)
THEOREM OrderlyNeverPanics ==
  ASSUME Orderly, \A q \in Requests : q.owner = None
  PROVE  Spec => []NeverPanics
<1>1. Init => Ownerless
  BY DEF Init, EmptyFcn, Ownerless
<1>2. LedgerInv /\ Ownerless /\ [Next]_vars => Ownerless'
  BY NextOwnerless DEF LedgerInv, PlaceInv, HostInv
<1>3. Ownerless /\ (mu = "panic" => OwnerReadmitted) => NeverPanics
  BY DEF Ownerless, OwnerReadmitted, StaleOwner, NeverPanics
<1>4. Spec => []Ownerless
  BY <1>1, <1>2, InitLedger, NextLedger, PTL DEF Spec
<1> QED BY <1>3, <1>4, PanicsOverOwners, PTL

=============================================================================
