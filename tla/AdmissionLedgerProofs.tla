------------------------ MODULE AdmissionLedgerProofs ------------------------
(***************************************************************************)
(* What TLAPS proves about the admission ledger, for every value of the    *)
(* constants.                                                              *)
(***************************************************************************)
EXTENDS AdmissionLedger, SequenceTheorems, TLAPS

-----------------------------------------------------------------------------
(* Numbers and sequences *)

(* The smaller of two integers is one of them and below both. *)
LEMMA MinOfTwo ==
  ASSUME NEW a \in Int, NEW b \in Int
  PROVE  Min({a, b}) \in {a, b} /\ Min({a, b}) <= a /\ Min({a, b}) <= b
<1>1. \E x \in {a, b} : \A y \in {a, b} : x <= y
  BY SMT
<1> QED BY <1>1 DEF Min

(* The larger of two integers is one of them and above both. *)
LEMMA MaxOfTwo ==
  ASSUME NEW a \in Int, NEW b \in Int
  PROVE  Max({a, b}) \in {a, b} /\ Max({a, b}) >= a /\ Max({a, b}) >= b
<1>1. \E x \in {a, b} : \A y \in {a, b} : x >= y
  BY SMT
<1> QED BY <1>1 DEF Max

(* Removing an element keeps the others, in their order. *)
LEMMA RemoveAtFacts ==
  ASSUME NEW S, NEW q \in Seq(S), NEW i \in DOMAIN q
  PROVE  /\ RemoveAt(q, i) \in Seq(S)
         /\ Len(RemoveAt(q, i)) = Len(q) - 1
         /\ \A j \in 1..(Len(q) - 1) :
               RemoveAt(q, i)[j] = IF j < i THEN q[j] ELSE q[j + 1]
<1> DEFINE a == SubSeq(q, 1, i - 1)  b == SubSeq(q, i + 1, Len(q))
<1>1. i \in 1..Len(q) /\ Len(q) \in Nat
  OBVIOUS
<1>2. /\ a \in Seq(S) /\ Len(a) = i - 1
      /\ \A j \in 1..(i - 1) : a[j] = q[j]
  BY <1>1
<1>3. /\ b \in Seq(S) /\ Len(b) = Len(q) - i
      /\ \A j \in 1..(Len(q) - i) : b[j] = q[i + j]
  BY <1>1
<1>4. RemoveAt(q, i) = a \o b
  BY DEF RemoveAt
<1> HIDE DEF a, b
<1>5. /\ a \o b \in Seq(S) /\ Len(a \o b) = Len(q) - 1
      /\ \A j \in 1..(Len(q) - 1) :
           (a \o b)[j] = IF j < i THEN a[j] ELSE b[j - (i - 1)]
  <2>1. /\ a \o b \in Seq(S) /\ Len(a \o b) = Len(a) + Len(b)
        /\ \A j \in 1..(Len(a) + Len(b)) :
             (a \o b)[j] = IF j <= Len(a) THEN a[j] ELSE b[j - Len(a)]
    BY <1>2, <1>3, ConcatProperties
  <2>2. Len(a) + Len(b) = Len(q) - 1
    BY <1>1, <1>2, <1>3
  <2>3. \A j \in 1..(Len(q) - 1) : j <= Len(a) <=> j < i
    BY <1>1, <1>2
  <2> QED BY <1>2, <2>1, <2>2, <2>3
<1>6. \A j \in 1..(Len(q) - 1) :
         ~(j < i) => b[j - (i - 1)] = q[j + 1]
  <2> TAKE j \in 1..(Len(q) - 1)
  <2> HAVE ~(j < i)
  <2>1. j - (i - 1) \in 1..(Len(q) - i)
    BY <1>1
  <2>2. b[j - (i - 1)] = q[i + (j - (i - 1))]
    BY <2>1, <1>3
  <2>3. i + (j - (i - 1)) = j + 1
    BY <1>1
  <2> QED BY <2>2, <2>3
<1> QED BY <1>1, <1>2, <1>4, <1>5, <1>6

(* An arrangement of a queue has its length and its elements. *)
LEMMA ArrangementFacts ==
  ASSUME NEW S, NEW q \in Seq(S), NEW a \in Arrangements(q)
  PROVE  /\ a \in Seq(S) /\ DOMAIN a = DOMAIN q
         /\ \A i \in DOMAIN a : \E j \in DOMAIN q : a[i] = q[j]
         /\ \A j \in DOMAIN q : \E i \in DOMAIN a : a[i] = q[j]
<1>1. /\ a \in [DOMAIN q -> {q[i] : i \in DOMAIN q}]
      /\ \A i \in DOMAIN q : \E j \in DOMAIN q : a[j] = q[i]
  BY DEF Arrangements
<1>2. Len(q) \in Nat /\ DOMAIN q = 1..Len(q) /\ q \in [1..Len(q) -> S]
  BY LenProperties
<1>3. \A i \in DOMAIN a : \E j \in DOMAIN q : a[i] = q[j]
  BY <1>1
<1>4. a \in [1..Len(q) -> S]
  BY <1>1, <1>2, <1>3
<1>5. a \in Seq(S)
  BY <1>2, <1>4, SeqDef
<1> QED BY <1>1, <1>3, <1>5

-----------------------------------------------------------------------------
(* Types of what the operations build *)

(* Two waiters that differ at most in the delay they bore. *)
SameButDelay(v, w) ==
  /\ v.id = w.id /\ v.owner = w.owner /\ v.admit = w.admit
  /\ v.ownerAdmit = w.ownerAdmit /\ v.priority = w.priority
  /\ v.class = w.class /\ v.cores = w.cores /\ v.memory = w.memory
  /\ v.soft = w.soft /\ v.burst = w.burst /\ v.claims = w.claims

(* Charging a backfill changes nothing of a waiter but the delay it bore. *)
LEMMA RecordBackfillFacts ==
  ASSUME NEW queue \in Seq(Waiter), NEW n, NEW s \in Waiter
  PROVE  /\ RecordBackfill(queue, n, s) \in Seq(Waiter)
         /\ DOMAIN RecordBackfill(queue, n, s) = DOMAIN queue
         /\ \A i \in DOMAIN queue :
               SameButDelay(RecordBackfill(queue, n, s)[i], queue[i])
<1> DEFINE charged == RecordBackfill(queue, n, s)
<1>1. Len(queue) \in Nat /\ DOMAIN queue = 1..Len(queue)
      /\ queue \in [1..Len(queue) -> Waiter]
  BY LenProperties
<1>2. charged = [i \in DOMAIN queue |-> charged[i]]
  BY DEF RecordBackfill
<1>3. ASSUME NEW i \in DOMAIN queue
      PROVE  SameButDelay(charged[i], queue[i]) /\ charged[i] \in Waiter
  <2>1. queue[i] \in Waiter
    BY <1>1
  <2>2. queue[i].delay \in Nat /\ s.p99 \in Nat
    BY <2>1 DEF Waiter
  <2>3. queue[i].delay + s.p99 \in Nat
    BY <2>2
  <2>4. \/ charged[i] = [queue[i] EXCEPT !.delay = queue[i].delay + s.p99]
        \/ charged[i] = queue[i]
    BY DEF RecordBackfill
  <2>5. \A d \in Nat : LET v == [queue[i] EXCEPT !.delay = d]
                        IN  v \in Waiter /\ SameButDelay(v, queue[i])
    BY <2>1 DEF Waiter, SameButDelay
  <2>6. SameButDelay(queue[i], queue[i])
    BY DEF SameButDelay
  <2> QED BY <2>1, <2>3, <2>4, <2>5, <2>6
<1> HIDE DEF charged
<1>4. charged \in [1..Len(queue) -> Waiter]
  BY <1>1, <1>2, <1>3
<1>5. charged \in Seq(Waiter)
  BY <1>1, <1>4, SeqDef
<1>6. DOMAIN charged = DOMAIN queue
  BY <1>1, <1>4
<1> QED BY <1>3, <1>5, <1>6 DEF charged

(* The rank a participant is put at is an integer. *)
LEMMA OverrideForType ==
  ASSUME TypeOK, NEW id, NEW owner, NEW carried \in Int
  PROVE  OverrideFor(overrides, id, owner, carried) \in Int
BY HostAssumption DEF TypeOK, OverrideFor

(* normalize makes a well-formed spec that asks no more than the machine. *)
LEMMA NormalizeFacts ==
  ASSUME TypeOK, NEW q \in Requests, Admissible(q)
  PROVE  /\ Normalize(q) \in Waiter
         /\ \A r \in Host : Normalize(q)[r] <= total[r]
<1>1. total["cores"] \in Nat /\ total["memory"] \in Nat
  BY DEF TypeOK, Host
<1>2. Min({q.cores, total["cores"]}) \in Nat
      /\ Min({q.cores, total["cores"]}) <= total["cores"]
  <2>1. q.cores \in Nat
    BY RequestAssumption
  <2>2. q.cores \in Int /\ total["cores"] \in Int
    BY <1>1, <2>1
  <2>3. LET m == Min({q.cores, total["cores"]})
        IN  m \in {q.cores, total["cores"]} /\ m <= total["cores"]
    BY <2>2, MinOfTwo
  <2> QED BY <1>1, <2>1, <2>3
<1>3. OwnerAdmissionRank(q.owner) \in Nat
  <2>1. CASE q.owner # None /\ Holding(q.owner)
    <3>1. LeaseOf(q.owner) \in DOMAIN leases
      BY <2>1 DEF Holding, LeaseOf
    <3>2. leases[LeaseOf(q.owner)] \in Lease
      BY <3>1 DEF TypeOK
    <3> QED BY <2>1, <3>2 DEF OwnerAdmissionRank, Lease
  <2>2. CASE ~(q.owner # None /\ Holding(q.owner))
    BY <2>2 DEF OwnerAdmissionRank, TypeOK
  <2> QED BY <2>1, <2>2
<1>4. OverrideFor(overrides, q.id, q.owner, q.priority) \in Int
  BY OverrideForType, RequestAssumption
<1>5. admitSeq + 1 \in Nat /\ policy.burst \in Nat
  BY DEF TypeOK, Policy
<1>6. Normalize(q) \in Waiter
  BY <1>2, <1>3, <1>4, <1>5, RequestAssumption
     DEF Normalize, Waiter, Claims
<1>7. Normalize(q).cores <= total["cores"]
  BY <1>2 DEF Normalize
<1>8. Normalize(q).memory <= total["memory"]
  BY DEF Normalize, Admissible
<1> QED BY <1>6, <1>7, <1>8 DEF Host

(* Two records of a lease that may differ in who belongs to it. *)
SameHolding(a, b) ==
  /\ a.request = b.request /\ a.owner = b.owner /\ a.admit = b.admit
  /\ a.ownerAdmit = b.ownerAdmit /\ a.cores = b.cores /\ a.memory = b.memory
  /\ a.soft = b.soft /\ a.burst = b.burst /\ a.claims = b.claims

(* Marking orphans changes nothing of a lease but its marks. *)
LEMMA OrphanFacts ==
  ASSUME NEW held, held \in [DOMAIN held -> Lease], NEW told
  PROVE  /\ DOMAIN Orphan(held, told) = DOMAIN held
         /\ \A l \in DOMAIN held : /\ Orphan(held, told)[l] \in Lease
                                   /\ SameHolding(Orphan(held, told)[l], held[l])
<1>1. DOMAIN Orphan(held, told) = DOMAIN held
  BY DEF Orphan
<1>2. ASSUME NEW l \in DOMAIN held
      PROVE  /\ Orphan(held, told)[l] \in Lease
             /\ SameHolding(Orphan(held, told)[l], held[l])
  <2>1. held[l] \in Lease
    OBVIOUS
  <2>2. LET o == held[l].orphaned \cup (told \cap held[l].members)
        IN  /\ o \in SUBSET Ids
            /\ Orphan(held, told)[l] = [held[l] EXCEPT !.orphaned = o]
    BY <2>1 DEF Orphan, Lease
  <2>3. \A o \in SUBSET Ids : /\ [held[l] EXCEPT !.orphaned = o] \in Lease
                              /\ SameHolding([held[l] EXCEPT !.orphaned = o], held[l])
    BY <2>1 DEF Lease, SameHolding
  <2> QED BY <2>2, <2>3
<1> QED BY <1>1, <1>2

(* A member that leaves takes no resources with it. *)
LEMMA LeaveFacts ==
  ASSUME TypeOK, NEW l \in DOMAIN leases, NEW m
  PROVE  /\ DOMAIN Leave(l, m) = DOMAIN leases
         /\ \A o \in DOMAIN leases : /\ Leave(l, m)[o] \in Lease
                                     /\ SameHolding(Leave(l, m)[o], leases[o])
<1> DEFINE live == leases[l].members \ {m}
           gone == Departed(leases[l].parents, live, m)
           kept == [c \in Ids |-> IF c \in gone THEN None ELSE leases[l].parents[c]]
           left == [leases[l] EXCEPT !.members = live, !.orphaned = @ \ {m},
                                     !.parents = kept]
<1>1. \A o \in DOMAIN leases : leases[o] \in Lease
  BY DEF TypeOK
<1>2. left \in Lease /\ SameHolding(left, leases[l])
  <2>1. leases[l].parents \in [Ids -> Ids \cup {None}]
    BY <1>1 DEF Lease
  <2> HIDE DEF gone
  <2>2. kept \in [Ids -> Ids \cup {None}]
    BY <2>1
  <2> HIDE DEF kept
  <2>3. live \in SUBSET Ids /\ leases[l].orphaned \ {m} \in SUBSET Ids
    BY <1>1 DEF Lease
  <2> QED BY <1>1, <2>2, <2>3 DEF Lease, SameHolding
<1>3. /\ DOMAIN Leave(l, m) = DOMAIN leases
      /\ \A o \in DOMAIN leases :
           LET x == IF o = l THEN left ELSE leases[o]
           IN  Leave(l, m)[o] = [x EXCEPT !.dependents = @ \ {m}]
  BY DEF Leave
<1> HIDE DEF left
<1>4. ASSUME NEW x \in Lease
      PROVE  /\ [x EXCEPT !.dependents = @ \ {m}] \in Lease
             /\ SameHolding([x EXCEPT !.dependents = @ \ {m}], x)
  <2>1. x.dependents \ {m} \in SUBSET Ids
    BY DEF Lease
  <2> QED BY <2>1 DEF Lease, SameHolding
<1>5. ASSUME NEW o \in DOMAIN leases
      PROVE  /\ Leave(l, m)[o] \in Lease
             /\ SameHolding(Leave(l, m)[o], leases[o])
  <2>1. CASE o = l
    <3>1. Leave(l, m)[o] = [left EXCEPT !.dependents = @ \ {m}]
      BY <1>3, <2>1
    <3> QED BY <1>2, <1>4, <2>1, <3>1 DEF SameHolding
  <2>2. CASE o # l
    BY <1>1, <1>3, <1>4, <2>2
  <2> QED BY <2>1, <2>2
<1> QED BY <1>3, <1>5

-----------------------------------------------------------------------------
(* The three ways a step changes leases and holds *)

(* The part of TypeOK that speaks of leases and holds. *)
BooksTyped ==
  /\ used \in [Host -> Int] /\ leaseSeq \in Nat
  /\ leases \in [DOMAIN leases -> Lease] /\ DOMAIN leases \subseteq 1..leaseSeq
  /\ sems = [k \in Keys |-> sems[k]]
  /\ \A k \in Keys : /\ DOMAIN sems[k] \subseteq DOMAIN leases
                     /\ sems[k] \in [DOMAIN sems[k] -> Hold]

(* A claim a waiter or a lease really has is a well-formed claim. *)
LEMMA ClaimType ==
  ASSUME NEW x, x.claims \in Claims, NEW k \in Claimed(x)
  PROVE  k \in Keys /\ x.claims[k] \in Claim
BY DEF Claimed, Claims

(* Nobody's resources change: only members and their marks may. *)
SameBooks ==
  /\ used' = used /\ sems' = sems /\ leaseSeq' = leaseSeq
  /\ DOMAIN leases' = DOMAIN leases
  /\ leases' \in [DOMAIN leases -> Lease]
  /\ \A l \in DOMAIN leases : SameHolding(leases'[l], leases[l])

(* A step that leaves the leases alone leaves the books alone. *)
LEMMA UnchangedBooks ==
  ASSUME TypeOK, UNCHANGED <<used, sems, leases, leaseSeq>>
  PROVE  SameBooks
BY DEF TypeOK, SameBooks, SameHolding

(* Holds match claims when neither changes. *)
LEMMA SameBooksFacts ==
  ASSUME TypeOK, HoldsMatchClaims, SameBooks
  PROVE  BooksTyped' /\ HoldsMatchClaims'
<1>1. BooksTyped'
  BY DEF TypeOK, SameBooks, BooksTyped
<1>2. \A l \in DOMAIN leases : leases'[l].claims = leases[l].claims
  BY DEF SameBooks, SameHolding
<1>3. ASSUME NEW k \in Keys
      PROVE  {l \in DOMAIN leases' : k \in Claimed(leases'[l])}
               = {l \in DOMAIN leases : k \in Claimed(leases[l])}
  BY <1>2 DEF SameBooks, Claimed
<1>4. ASSUME NEW k \in Keys, NEW l \in DOMAIN sems[k]
      PROVE  l \in DOMAIN leases
  BY DEF TypeOK
<1>5. HoldsMatchClaims'
  BY <1>2, <1>3, <1>4 DEF HoldsMatchClaims, SameBooks
<1> QED BY <1>1, <1>5

(* grant adds one lease, with its holds, and supersedes the holds it       *)
(* evicts; the other leases keep what they have.                           *)
LEMMA GrantFacts ==
  ASSUME TypeOK, HoldsMatchClaims, NEW s \in Waiter, Grant(s)
  PROVE  /\ BooksTyped' /\ HoldsMatchClaims'
         /\ leaseSeq + 1 \notin DOMAIN leases
         /\ DOMAIN leases' = DOMAIN leases \cup {leaseSeq + 1}
         /\ leases'[leaseSeq + 1] = NewLease(s)
         /\ \A l \in DOMAIN leases : SameHolding(leases'[l], leases[l])
         /\ used' = [r \in Host |-> used[r] + s[r]]
<1> DEFINE id == leaseSeq + 1
           out == [k \in Claimed(s) |-> Evicted(k, s.claims[k])]
           told == UNION {leases[l].dependents : l \in UNION {out[k] : k \in DOMAIN out}}
           marked == Orphan(leases, told)
           new(k) == [cost |-> s.claims[k].cost, capacity |-> s.claims[k].capacity,
                      by |-> 0]
<1>0. /\ leaseSeq' = id
      /\ leases' = Put(marked, id, NewLease(s))
      /\ used' = [r \in Host |-> used[r] + s[r]]
      /\ sems' = [k \in Keys |->
           IF k \notin Claimed(s) THEN sems[k]
           ELSE [l \in DOMAIN sems[k] \cup {id} |->
                   IF l = id THEN new(k)
                   ELSE IF l \in out[k] THEN [sems[k][l] EXCEPT !.by = id]
                   ELSE sems[k][l]]]
  BY DEF Grant
<1> HIDE DEF out, told
<1>1. id \in Nat \ {0} /\ id \notin DOMAIN leases
      /\ leases \in [DOMAIN leases -> Lease] /\ DOMAIN leases \subseteq 1..id
  BY DEF TypeOK
<1>2. /\ DOMAIN marked = DOMAIN leases
      /\ \A l \in DOMAIN leases : marked[l] \in Lease /\ SameHolding(marked[l], leases[l])
  BY <1>1, OrphanFacts
<1> HIDE DEF marked, id
<1>3. /\ DOMAIN leases' = DOMAIN leases \cup {id}
      /\ leases'[id] = NewLease(s)
      /\ \A l \in DOMAIN leases : leases'[l] = marked[l]
      /\ leases' = [l \in DOMAIN leases' |-> leases'[l]]
  BY <1>0, <1>1, <1>2 DEF Put
<1>4. NewLease(s) \in Lease /\ NewLease(s).claims = s.claims
  <2>1. [m \in Ids |-> None] \in [Ids -> Ids \cup {None}]
    OBVIOUS
  <2>2. (s.burst /\ ~HostFits([s EXCEPT !.burst = FALSE])) \in BOOLEAN
    OBVIOUS
  <2> QED BY <2>1, <2>2 DEF NewLease, Waiter, Lease
<1>5. leases' \in [DOMAIN leases' -> Lease] /\ DOMAIN leases' \subseteq 1..leaseSeq'
  BY <1>0, <1>1, <1>2, <1>3, <1>4
<1>6. used' \in [Host -> Int]
  <2>1. \A r \in Host : used[r] \in Int /\ s[r] \in Int
    BY DEF TypeOK, Waiter, Host
  <2> QED BY <1>0, <2>1
<1>7. \A k \in Claimed(s) : k \in Keys /\ s.claims[k] \in Claim
  BY ClaimType DEF Waiter
<1>8. ASSUME NEW k \in Keys
      PROVE  /\ DOMAIN sems'[k] = {l \in DOMAIN leases' : k \in Claimed(leases'[l])}
             /\ sems'[k] \in [DOMAIN sems'[k] -> Hold]
             /\ \A l \in DOMAIN sems'[k] :
                   /\ sems'[k][l].cost = leases'[l].claims[k].cost
                   /\ sems'[k][l].capacity = leases'[l].claims[k].capacity
  <2>1. /\ DOMAIN sems[k] = {l \in DOMAIN leases : k \in Claimed(leases[l])}
        /\ \A l \in DOMAIN sems[k] : /\ sems[k][l].cost = leases[l].claims[k].cost
                                     /\ sems[k][l].capacity = leases[l].claims[k].capacity
        /\ sems[k] \in [DOMAIN sems[k] -> Hold]
        /\ id \notin DOMAIN sems[k]
    BY <1>1 DEF HoldsMatchClaims, TypeOK
  <2>2. \A l \in DOMAIN leases : leases'[l].claims = leases[l].claims
    BY <1>2, <1>3 DEF SameHolding
  <2>3. leases'[id].claims = s.claims
    BY <1>3, <1>4
  <2>4. {l \in DOMAIN leases : k \in Claimed(leases'[l])} = DOMAIN sems[k]
    BY <2>1, <2>2 DEF Claimed
  <2>5. k \in Claimed(leases'[id]) <=> k \in Claimed(s)
    BY <2>3 DEF Claimed
  <2>6. CASE k \notin Claimed(s)
    <3>1. sems'[k] = sems[k]
      BY <1>0, <2>6
    <3>2. {l \in DOMAIN leases' : k \in Claimed(leases'[l])} = DOMAIN sems[k]
      BY <1>3, <2>4, <2>5, <2>6
    <3>3. \A l \in DOMAIN sems[k] : l \in DOMAIN leases
      BY <2>1
    <3> QED BY <2>1, <2>2, <3>1, <3>2, <3>3
  <2>7. CASE k \in Claimed(s)
    <3> DEFINE h(l) == IF l = id THEN new(k)
                       ELSE IF l \in out[k] THEN [sems[k][l] EXCEPT !.by = id]
                       ELSE sems[k][l]
    <3>1. sems'[k] = [l \in DOMAIN sems[k] \cup {id} |-> h(l)]
      BY <1>0, <2>7
    <3>2. h(id) \in Hold /\ h(id).cost = s.claims[k].cost
          /\ h(id).capacity = s.claims[k].capacity
      BY <1>7, <2>7 DEF Claim, Hold
    <3>3. ASSUME NEW l \in DOMAIN sems[k]
          PROVE  h(l) \in Hold /\ h(l).cost = sems[k][l].cost
                 /\ h(l).capacity = sems[k][l].capacity
      <4>1. sems[k][l] \in Hold /\ l # id
        BY <2>1
      <4> QED BY <1>1, <4>1 DEF Hold
    <3> HIDE DEF h
    <3>4. DOMAIN sems'[k] = DOMAIN sems[k] \cup {id}
      BY <3>1
    <3>5. {l \in DOMAIN leases' : k \in Claimed(leases'[l])} = DOMAIN sems[k] \cup {id}
      BY <1>3, <2>4, <2>5, <2>7
    <3>6. sems'[k] \in [DOMAIN sems'[k] -> Hold]
      BY <3>1, <3>2, <3>3
    <3>7. ASSUME NEW l \in DOMAIN sems'[k]
          PROVE  /\ sems'[k][l].cost = leases'[l].claims[k].cost
                 /\ sems'[k][l].capacity = leases'[l].claims[k].capacity
      <4>1. sems'[k][l] = h(l)
        BY <3>1
      <4>2. CASE l = id
        BY <2>3, <3>2, <4>1, <4>2
      <4>3. CASE l \in DOMAIN sems[k]
        BY <2>1, <2>2, <3>3, <4>1, <4>3
      <4> QED BY <3>4, <4>2, <4>3
    <3> QED BY <3>4, <3>5, <3>6, <3>7
  <2> QED BY <2>6, <2>7
<1>9. sems' = [k \in Keys |-> sems'[k]]
  BY <1>0
<1>10. HoldsMatchClaims'
  BY <1>8 DEF HoldsMatchClaims
<1>11. BooksTyped'
  <2>1. \A k \in Keys : /\ DOMAIN sems'[k] \subseteq DOMAIN leases'
                        /\ sems'[k] \in [DOMAIN sems'[k] -> Hold]
    BY <1>8
  <2>2. leaseSeq' \in Nat
    BY <1>0, <1>1
  <2> QED BY <1>5, <1>6, <1>9, <2>1, <2>2 DEF BooksTyped
<1>12. \A l \in DOMAIN leases : SameHolding(leases'[l], leases[l])
  BY <1>2, <1>3
<1> QED BY <1>0, <1>1, <1>3, <1>10, <1>11, <1>12 DEF id

(* free removes one lease and exactly its holds.                           *)
LEMMA ReleaseLastFacts ==
  ASSUME TypeOK, HoldsMatchClaims, NEW l \in DOMAIN leases, NEW m,
         ReleaseLast(l, m)
  PROVE  /\ BooksTyped' /\ HoldsMatchClaims'
         /\ DOMAIN leases' = DOMAIN leases \ {l}
         /\ \A o \in DOMAIN leases' : SameHolding(leases'[o], leases[o])
         /\ used' = [r \in Host |-> used[r] - leases[l][r]]
<1> DEFINE held == Leave(l, m)
           rest == [o \in DOMAIN leases \ {l} |-> held[o]]
           told == held[l].dependents
<1>0. /\ leases' = Orphan(rest, told)
      /\ used' = [r \in Host |-> used[r] - leases[l][r]]
      /\ sems' = [k \in Keys |-> IF k \in Claimed(leases[l])
                                 THEN [h \in DOMAIN sems[k] \ {l} |-> sems[k][h]]
                                 ELSE sems[k]]
      /\ leaseSeq' = leaseSeq
  BY DEF ReleaseLast, FreedHost, DropHold
<1>1. /\ DOMAIN held = DOMAIN leases
      /\ \A o \in DOMAIN leases : held[o] \in Lease /\ SameHolding(held[o], leases[o])
  BY LeaveFacts
<1> HIDE DEF held, told
<1>2. /\ rest \in [DOMAIN rest -> Lease] /\ DOMAIN rest = DOMAIN leases \ {l}
      /\ \A o \in DOMAIN rest : SameHolding(rest[o], leases[o])
  BY <1>1
<1> HIDE DEF rest
<1>3. /\ DOMAIN leases' = DOMAIN rest
      /\ \A o \in DOMAIN rest : leases'[o] \in Lease /\ SameHolding(leases'[o], rest[o])
      /\ leases' = [o \in DOMAIN leases' |-> leases'[o]]
  <2>1. /\ DOMAIN Orphan(rest, told) = DOMAIN rest
        /\ \A o \in DOMAIN rest : /\ Orphan(rest, told)[o] \in Lease
                                  /\ SameHolding(Orphan(rest, told)[o], rest[o])
    BY <1>2, OrphanFacts
  <2>2. Orphan(rest, told) = [o \in DOMAIN Orphan(rest, told) |-> Orphan(rest, told)[o]]
    BY DEF Orphan
  <2> QED BY <1>0, <2>1, <2>2
<1>4. \A o \in DOMAIN leases' : SameHolding(leases'[o], leases[o])
  BY <1>2, <1>3 DEF SameHolding
<1>5. leases' \in [DOMAIN leases' -> Lease] /\ DOMAIN leases' \subseteq 1..leaseSeq'
  BY <1>0, <1>2, <1>3 DEF TypeOK
<1>6. used' \in [Host -> Int]
  <2>1. \A r \in Host : used[r] \in Int /\ leases[l][r] \in Int
    BY DEF TypeOK, Lease, Host
  <2> QED BY <1>0, <2>1
<1>7. ASSUME NEW k \in Keys
      PROVE  /\ DOMAIN sems'[k] = {o \in DOMAIN leases' : k \in Claimed(leases'[o])}
             /\ sems'[k] \in [DOMAIN sems'[k] -> Hold]
             /\ \A o \in DOMAIN sems'[k] :
                   /\ sems'[k][o].cost = leases'[o].claims[k].cost
                   /\ sems'[k][o].capacity = leases'[o].claims[k].capacity
  <2>1. /\ DOMAIN sems[k] = {o \in DOMAIN leases : k \in Claimed(leases[o])}
        /\ \A o \in DOMAIN sems[k] : /\ sems[k][o].cost = leases[o].claims[k].cost
                                     /\ sems[k][o].capacity = leases[o].claims[k].capacity
        /\ sems[k] \in [DOMAIN sems[k] -> Hold]
    BY DEF HoldsMatchClaims, TypeOK
  <2>2. \A o \in DOMAIN leases' : leases'[o].claims = leases[o].claims
    BY <1>4 DEF SameHolding
  <2>3. {o \in DOMAIN leases' : k \in Claimed(leases'[o])} = DOMAIN sems[k] \ {l}
    BY <1>2, <1>3, <2>1, <2>2 DEF Claimed
  <2>4. DOMAIN sems'[k] = DOMAIN sems[k] \ {l}
        /\ sems'[k] = [h \in DOMAIN sems[k] \ {l} |-> sems[k][h]]
    BY <1>0, <2>1
  <2> QED BY <2>1, <2>2, <2>3, <2>4
<1>8. sems' = [k \in Keys |-> sems'[k]]
  BY <1>0
<1>9. HoldsMatchClaims'
  BY <1>7 DEF HoldsMatchClaims
<1>10. BooksTyped'
  <2>1. \A k \in Keys : /\ DOMAIN sems'[k] \subseteq DOMAIN leases'
                        /\ sems'[k] \in [DOMAIN sems'[k] -> Hold]
    BY <1>7
  <2>2. leaseSeq' \in Nat
    BY <1>0 DEF TypeOK
  <2> QED BY <1>5, <1>6, <1>8, <2>1, <2>2 DEF BooksTyped
<1> QED BY <1>0, <1>2, <1>3, <1>4, <1>9, <1>10

-----------------------------------------------------------------------------
(* Types, and holds that are the claims of the live leases *)

(* TypeOK alone is not inductive: free drops the holds the lease's claims  *)
(* name, so no hold is left behind only if holds and claims agree.         *)
TypeInv == TypeOK /\ HoldsMatchClaims

(* The part of TypeOK that speaks of the rest of the ledger. *)
RestTyped ==
  /\ total \in [Host -> Nat] /\ headroom \in [Host -> Nat]
  /\ admitSeq \in 0..MaxAdmit
  /\ waiters \in Seq(Waiter)
  /\ overrides \in [DOMAIN overrides -> Priorities] /\ DOMAIN overrides \subseteq Ids
  /\ policy \in Policy /\ burstFloor \in Nat
  /\ mu \in {"free", "promote", "prune", "check", "panic", "restored", "refused"}

(* TypeOK has these two parts. *)
LEMMA TypeParts == TypeOK <=> BooksTyped /\ RestTyped
BY DEF TypeOK, BooksTyped, RestTyped

(* The same of the state after a step. *)
LEMMA TypePartsNext == BooksTyped' /\ RestTyped' => TypeOK'
BY DEF TypeOK, BooksTyped, RestTyped

(* The empty ledger is well formed. *)
LEMMA InitType == Init => TypeInv
<1> SUFFICES ASSUME Init PROVE TypeInv
  OBVIOUS
<1>1. DOMAIN leases = {} /\ DOMAIN overrides = {}
      /\ \A k \in Keys : DOMAIN sems[k] = {}
  BY DEF Init, EmptyFcn
<1>2. leases = [x \in DOMAIN leases |-> leases[x]]
      /\ overrides = [x \in DOMAIN overrides |-> overrides[x]]
      /\ \A k \in Keys : sems[k] = [x \in DOMAIN sems[k] |-> sems[k][x]]
  BY DEF Init, EmptyFcn
<1>3. /\ leases \in [DOMAIN leases -> Lease]
      /\ overrides \in [DOMAIN overrides -> Priorities]
      /\ \A k \in Keys : sems[k] \in [DOMAIN sems[k] -> Hold]
  BY <1>1, <1>2
<1>4. used \in [Host -> Int] /\ total \in [Host -> Nat] /\ headroom \in [Host -> Nat]
  BY HostAssumption DEF Init
<1>5. sems = [k \in Keys |-> sems[k]]
  BY DEF Init
<1>6. admitSeq \in 0..MaxAdmit /\ leaseSeq \in Nat /\ burstFloor \in Nat
  BY HostAssumption DEF Init
<1>7. waiters \in Seq(Waiter) /\ policy \in Policy /\ mu = "free"
  BY PolicyAssumption DEF Init
<1>8. TypeOK
  BY <1>1, <1>3, <1>4, <1>5, <1>6, <1>7 DEF TypeOK
<1>9. HoldsMatchClaims
  BY <1>1 DEF HoldsMatchClaims
<1> QED BY <1>8, <1>9 DEF TypeInv

(* Each waiter after the step is one of S, but for the delay it bore. *)
QueueFrom(S) ==
  /\ waiters' \in Seq(Waiter)
  /\ \A i \in DOMAIN waiters' : \E w \in S : SameButDelay(waiters'[i], w)

(* The waiters of a queue. *)
Queued(queue) == {queue[i] : i \in DOMAIN queue}

(* A newcomer that starts at once leaves the queue as it is, but for the   *)
(* delay it charges.                                                       *)
LEMMA GrantFreshFacts ==
  ASSUME TypeInv, NEW q \in Requests, Submittable(q),
         NEW queue \in Seq(Waiter), GrantFresh(Normalize(q), queue)
  PROVE  /\ TypeInv' /\ QueueFrom(Queued(queue))
         /\ Normalize(q) \in Waiter
         /\ \A r \in Host : Normalize(q)[r] <= total[r]
<1> DEFINE s == Normalize(q)
<1>1. TypeOK /\ HoldsMatchClaims /\ Admissible(q)
  BY DEF TypeInv, Submittable
<1>2. s \in Waiter /\ \A r \in Host : s[r] <= total[r]
  BY <1>1, NormalizeFacts
<1>3. s.admit = admitSeq + 1
  BY DEF Normalize
<1> HIDE DEF s
<1>4. /\ admitSeq' = s.admit
      /\ waiters' = RecordBackfill(queue, Ahead(queue, s, s.admit), s)
      /\ Grant(s) /\ mu' = "promote"
      /\ UNCHANGED <<total, headroom, overrides, policy, burstFloor>>
  BY DEF GrantFresh, s
<1>5. BooksTyped' /\ HoldsMatchClaims'
  BY <1>1, <1>2, <1>4, GrantFacts
<1>6. /\ waiters' \in Seq(Waiter) /\ DOMAIN waiters' = DOMAIN queue
      /\ \A i \in DOMAIN queue : SameButDelay(waiters'[i], queue[i])
  BY <1>2, <1>4, RecordBackfillFacts
<1>7. admitSeq' \in 0..MaxAdmit
  BY <1>1, <1>3, <1>4, HostAssumption DEF TypeOK, Submittable
<1>8. RestTyped'
  BY <1>1, <1>4, <1>6, <1>7 DEF TypeOK, RestTyped
<1>9. QueueFrom(Queued(queue))
  BY <1>6 DEF QueueFrom, Queued
<1> QED BY <1>2, <1>5, <1>8, <1>9, TypePartsNext DEF TypeInv, s

(* A newcomer that queues is the only one added. *)
LEMMA EnqueueFacts ==
  ASSUME TypeInv, NEW q \in Requests, Submittable(q),
         NEW queue \in Seq(Waiter), NEW todo \in {"check", "promote"},
         Enqueue(Normalize(q), queue, todo)
  PROVE  /\ TypeInv' /\ QueueFrom(Queued(queue) \cup {Normalize(q)})
         /\ Normalize(q) \in Waiter
         /\ \A r \in Host : Normalize(q)[r] <= total[r]
<1> DEFINE s == Normalize(q)
<1>1. TypeOK /\ HoldsMatchClaims /\ Admissible(q)
  BY DEF TypeInv, Submittable
<1>2. s \in Waiter /\ \A r \in Host : s[r] <= total[r]
  BY <1>1, NormalizeFacts
<1>3. s.admit = admitSeq + 1
  BY DEF Normalize
<1> HIDE DEF s
<1>4. /\ admitSeq' = s.admit
      /\ waiters' \in Arrangements(Append(queue, s)) /\ mu' = todo
      /\ UNCHANGED <<total, headroom, used, sems, leases, overrides, leaseSeq,
                     policy, burstFloor>>
  BY DEF Enqueue, Sorted, s
<1>5. BooksTyped' /\ HoldsMatchClaims'
  BY <1>1, <1>4, UnchangedBooks, SameBooksFacts
<1>6. Append(queue, s) \in Seq(Waiter)
      /\ \A i \in DOMAIN Append(queue, s) :
            Append(queue, s)[i] \in Queued(queue) \cup {s}
  BY <1>2, AppendProperties, LenProperties DEF Queued
<1>7. /\ waiters' \in Seq(Waiter)
      /\ \A i \in DOMAIN waiters' : \E j \in DOMAIN Append(queue, s) :
            waiters'[i] = Append(queue, s)[j]
  BY <1>4, <1>6, ArrangementFacts
<1>8. admitSeq' \in 0..MaxAdmit
  BY <1>1, <1>3, <1>4, HostAssumption DEF TypeOK, Submittable
<1>9. RestTyped'
  BY <1>1, <1>4, <1>7, <1>8 DEF TypeOK, RestTyped
<1>10. QueueFrom(Queued(queue) \cup {s})
  <2>1. \A i \in DOMAIN waiters' : waiters'[i] \in Queued(queue) \cup {s}
    BY <1>6, <1>7
  <2> QED BY <1>7, <2>1 DEF QueueFrom, SameButDelay
<1> QED BY <1>2, <1>5, <1>9, <1>10, TypePartsNext DEF TypeInv, s

(* No waiter asks for more of the host than there is. *)
WaitersBounded ==
  \A i \in DOMAIN waiters : \A r \in Host : waiters[i][r] <= total[r]

(* A queue taken from bounded waiters is bounded. *)
LEMMA BoundedQueue ==
  ASSUME NEW S, \A w \in S : \A r \in Host : w[r] <= total[r],
         QueueFrom(S), total' = total
  PROVE  WaitersBounded'
<1>1. ASSUME NEW i \in DOMAIN waiters', NEW r \in Host
      PROVE  waiters'[i][r] <= total'[r]
  <2>1. PICK w \in S : SameButDelay(waiters'[i], w)
    BY DEF QueueFrom
  <2>2. waiters'[i][r] = w[r]
    BY <2>1 DEF SameButDelay, Host
  <2> QED BY <2>2
<1> QED BY <1>1 DEF WaitersBounded

(* What every operation on the queue owes: types stay, and so does the     *)
(* bound on what waiters ask.                                              *)
QueueKept == TypeInv' /\ (WaitersBounded => WaitersBounded')

(* The aged queue is the queue in another order. *)
LEMMA SortedFacts ==
  ASSUME TypeOK, NEW now, NEW queue \in Sorted(waiters, now)
  PROVE  queue \in Seq(Waiter) /\ Queued(queue) = Queued(waiters)
<1>1. waiters \in Seq(Waiter) /\ queue \in Arrangements(waiters)
  BY DEF TypeOK, Sorted
<1>2. /\ queue \in Seq(Waiter) /\ DOMAIN queue = DOMAIN waiters
      /\ \A i \in DOMAIN queue : \E j \in DOMAIN waiters : queue[i] = waiters[j]
      /\ \A j \in DOMAIN waiters : \E i \in DOMAIN queue : queue[i] = waiters[j]
  BY <1>1, ArrangementFacts
<1> QED BY <1>2 DEF Queued

(* A queue whose waiters are those of another, reordered. *)
LEMMA RearrangedQueue ==
  ASSUME NEW queue \in Seq(Waiter), waiters' \in Arrangements(queue)
  PROVE  QueueFrom(Queued(queue))
<1>1. /\ waiters' \in Seq(Waiter)
      /\ \A i \in DOMAIN waiters' : \E j \in DOMAIN queue : waiters'[i] = queue[j]
  BY ArrangementFacts
<1> QED BY <1>1 DEF QueueFrom, Queued, SameButDelay

(* Submit of a request that starts at once. *)
LEMMA SubmitGrantedType ==
  ASSUME TypeInv, NEW q \in Requests, SubmitGranted(q)
  PROVE  QueueKept
<1>1. waiters \in Seq(Waiter) /\ Submittable(q) /\ GrantFresh(Normalize(q), waiters)
  BY DEF TypeInv, TypeOK, SubmitGranted
<1>2. TypeInv' /\ QueueFrom(Queued(waiters)) /\ total' = total
  BY <1>1, GrantFreshFacts DEF GrantFresh
<1>3. WaitersBounded => WaitersBounded'
  BY <1>2, BoundedQueue DEF WaitersBounded, Queued
<1> QED BY <1>2, <1>3 DEF QueueKept

(* Submit of a request that has to wait. *)
LEMMA SubmitQueuedType ==
  ASSUME TypeInv, NEW q \in Requests, SubmitQueued(q)
  PROVE  QueueKept
<1>1. waiters \in Seq(Waiter) /\ Submittable(q)
      /\ Enqueue(Normalize(q), waiters, "check")
  BY DEF TypeInv, TypeOK, SubmitQueued
<1>2. /\ TypeInv' /\ QueueFrom(Queued(waiters) \cup {Normalize(q)})
      /\ \A r \in Host : Normalize(q)[r] <= total[r]
      /\ total' = total
  BY <1>1, EnqueueFacts DEF Enqueue
<1>3. WaitersBounded => WaitersBounded'
  BY <1>2, BoundedQueue DEF WaitersBounded, Queued
<1> QED BY <1>2, <1>3 DEF QueueKept

(* Submit under a policy that ages the queue. *)
LEMMA SubmitAgingType ==
  ASSUME TypeInv, NEW q \in Requests, SubmitAging(q)
  PROVE  QueueKept
<1> DEFINE s == Normalize(q)
<1>0. TypeOK /\ HoldsMatchClaims /\ Submittable(q)
  BY DEF TypeInv, SubmitAging
<1>1. PICK queue \in Sorted(waiters, admitSeq + 1) :
        \/ GrantFresh(s, queue)
        \/ Enqueue(s, queue, "promote")
        \/ /\ admitSeq' = s.admit /\ waiters' = queue /\ mu' = "check"
           /\ UNCHANGED <<total, headroom, used, sems, leases, overrides,
                          leaseSeq, policy, burstFloor>>
  BY DEF SubmitAging
<1>2. queue \in Seq(Waiter) /\ Queued(queue) = Queued(waiters)
  BY <1>0, SortedFacts
<1>3. WaitersBounded => \A w \in Queued(queue) : \A r \in Host : w[r] <= total[r]
  BY <1>2 DEF WaitersBounded, Queued
<1>4. CASE GrantFresh(s, queue)
  <2>1. TypeInv' /\ QueueFrom(Queued(queue)) /\ total' = total
    BY <1>0, <1>2, <1>4, GrantFreshFacts DEF GrantFresh
  <2> QED BY <1>3, <2>1, BoundedQueue DEF QueueKept
<1>5. CASE Enqueue(s, queue, "promote")
  <2>1. /\ TypeInv' /\ QueueFrom(Queued(queue) \cup {s})
        /\ \A r \in Host : s[r] <= total[r]
    BY <1>0, <1>2, <1>5, EnqueueFacts
  <2>2. total' = total
    BY <1>5 DEF Enqueue
  <2> HIDE DEF s
  <2>3. WaitersBounded =>
          \A w \in Queued(queue) \cup {s} : \A r \in Host : w[r] <= total[r]
    BY <1>3, <2>1
  <2> QED BY <2>1, <2>2, <2>3, BoundedQueue DEF QueueKept
<1>6. CASE /\ admitSeq' = s.admit /\ waiters' = queue /\ mu' = "check"
           /\ UNCHANGED <<total, headroom, used, sems, leases, overrides,
                          leaseSeq, policy, burstFloor>>
  <2>1. BooksTyped' /\ HoldsMatchClaims'
    BY <1>0, <1>6, UnchangedBooks, SameBooksFacts
  <2>2. admitSeq' \in 0..MaxAdmit
    <3>1. admitSeq' = admitSeq + 1
      BY <1>6 DEF Normalize
    <3> QED BY <1>0, <3>1, HostAssumption DEF TypeOK, Submittable
  <2>3. RestTyped'
    BY <1>0, <1>2, <1>6, <2>2 DEF TypeOK, RestTyped
  <2>4. WaitersBounded => WaitersBounded'
    BY <1>3, <1>6 DEF WaitersBounded, Queued
  <2> QED BY <2>1, <2>3, <2>4, TypePartsNext DEF TypeInv, QueueKept
<1> QED BY <1>1, <1>4, <1>5, <1>6

(* A replaced waiter is bounded by the machine as a new one is. *)
LEMMA ReplaceWaiterType ==
  ASSUME TypeInv, NEW q \in Requests, ReplaceWaiter(q)
  PROVE  QueueKept
<1>0. TypeOK /\ HoldsMatchClaims /\ Admissible(q)
      /\ waiters \in Seq(Waiter) /\ Len(waiters) \in Nat
      /\ DOMAIN waiters = 1..Len(waiters)
  BY LenProperties DEF TypeInv, TypeOK, ReplaceWaiter
<1> DEFINE n == Normalize(q)
           s(w) == [n EXCEPT !.admit = w.admit, !.owner = w.owner,
                             !.ownerAdmit = w.ownerAdmit, !.delay = w.delay,
                             !.priority = OverrideFor(overrides, w.id, w.owner, @)]
<1>1. PICK i \in DOMAIN waiters :
        waiters' \in Arrangements([waiters EXCEPT ![i] = s(waiters[i])])
  BY DEF ReplaceWaiter, Sorted
<1>2. n \in Waiter /\ \A r \in Host : n[r] <= total[r]
  BY <1>0, NormalizeFacts
<1> HIDE DEF n
<1>3. waiters[i] \in Waiter
  BY <1>0
<1>4. OverrideFor(overrides, waiters[i].id, waiters[i].owner, n.priority) \in Int
  <2>1. n.priority \in Int
    BY <1>2 DEF Waiter
  <2> QED BY <1>0, <2>1, OverrideForType
<1>5. s(waiters[i]) \in Waiter
  BY <1>2, <1>3, <1>4 DEF Waiter
<1>6. s(waiters[i]).cores = n.cores /\ s(waiters[i]).memory = n.memory
  BY <1>2 DEF Waiter
<1> DEFINE v == s(waiters[i])
           queue == [waiters EXCEPT ![i] = v]
<1> HIDE DEF s, v
<1>7. \A r \in Host : v[r] <= total[r]
  BY <1>2, <1>6 DEF Host, v
<1>8. queue \in Seq(Waiter) /\ \A j \in DOMAIN queue : queue[j] \in Queued(waiters) \cup {v}
  <2>1. queue \in [1..Len(waiters) -> Waiter]
    BY <1>0, <1>5 DEF v
  <2>2. queue \in Seq(Waiter)
    BY <1>0, <2>1, SeqDef
  <2> QED BY <1>0, <2>2 DEF Queued
<1>9. waiters' \in Arrangements(queue)
  BY <1>1 DEF v
<1> HIDE DEF queue
<1>10. QueueFrom(Queued(queue)) /\ total' = total
  BY <1>8, <1>9, RearrangedQueue DEF ReplaceWaiter
<1>11. WaitersBounded => WaitersBounded'
  <2>1. WaitersBounded => \A w \in Queued(queue) : \A r \in Host : w[r] <= total[r]
    BY <1>7, <1>8 DEF WaitersBounded, Queued
  <2> QED BY <1>10, <2>1, BoundedQueue
<1>12. BooksTyped' /\ HoldsMatchClaims'
  BY <1>0, UnchangedBooks, SameBooksFacts DEF ReplaceWaiter
<1>13. RestTyped'
  BY <1>0, <1>10 DEF TypeOK, RestTyped, ReplaceWaiter, QueueFrom
<1> QED BY <1>11, <1>12, <1>13, TypePartsNext DEF TypeInv, QueueKept

(* A cancelled waiter leaves the others where they are. *)
LEMMA CancelWaiterType ==
  ASSUME TypeInv, NEW i \in DOMAIN waiters, CancelWaiter(i)
  PROVE  QueueKept /\ QueueFrom(Queued(waiters))
<1>0. TypeOK /\ HoldsMatchClaims /\ waiters \in Seq(Waiter)
      /\ waiters' = RemoveAt(waiters, i) /\ total' = total
  BY DEF TypeInv, TypeOK, CancelWaiter
<1>1. /\ waiters' \in Seq(Waiter)
      /\ \A j \in DOMAIN waiters' : waiters'[j] \in Queued(waiters)
  <2>1. i \in 1..Len(waiters) /\ Len(waiters) \in Nat
        /\ DOMAIN waiters = 1..Len(waiters)
    BY <1>0, LenProperties
  <2>2. /\ waiters' \in Seq(Waiter) /\ Len(waiters') = Len(waiters) - 1
        /\ \A j \in 1..(Len(waiters) - 1) :
              waiters'[j] = IF j < i THEN waiters[j] ELSE waiters[j + 1]
    BY <1>0, RemoveAtFacts
  <2>3. DOMAIN waiters' = 1..(Len(waiters) - 1)
    BY <2>2, LenProperties
  <2> QED BY <2>1, <2>2, <2>3 DEF Queued
<1>2. QueueFrom(Queued(waiters))
  BY <1>1 DEF QueueFrom, SameButDelay
<1>3. WaitersBounded => WaitersBounded'
  BY <1>0, <1>2, BoundedQueue DEF WaitersBounded, Queued
<1>4. BooksTyped' /\ HoldsMatchClaims'
  BY <1>0, UnchangedBooks, SameBooksFacts DEF CancelWaiter
<1>5. RestTyped'
  BY <1>0, <1>1 DEF TypeOK, RestTyped, CancelWaiter
<1> QED BY <1>2, <1>3, <1>4, <1>5, TypePartsNext DEF TypeInv, QueueKept

(* Re-ranked waiters ask for what they asked. *)
LEMMA SetPriorityType ==
  ASSUME TypeInv, NEW run \in Ids, NEW p \in Priorities, SetPriority(run, p)
  PROVE  QueueKept
<1> DEFINE ranks == Put(overrides, run, p)
           ranked == [i \in DOMAIN waiters |->
             IF BelongsToRun(waiters[i].id, waiters[i].owner, run)
             THEN [waiters[i] EXCEPT !.priority =
                     OverrideFor(ranks, waiters[i].id, waiters[i].owner, p)]
             ELSE waiters[i]]
<1>0. /\ TypeOK /\ HoldsMatchClaims
      /\ Len(waiters) \in Nat /\ DOMAIN waiters = 1..Len(waiters)
      /\ waiters \in [1..Len(waiters) -> Waiter]
  BY LenProperties DEF TypeInv, TypeOK
<1>1. /\ total' = total /\ overrides' = ranks /\ mu' \in {"check", "promote"}
      /\ waiters' = waiters \/ waiters' \in Arrangements(ranked)
      /\ UNCHANGED <<headroom, used, sems, leases, leaseSeq, admitSeq, policy, burstFloor>>
  BY DEF SetPriority, Sorted
<1>2. /\ overrides' \in [DOMAIN overrides' -> Priorities]
      /\ DOMAIN overrides' \subseteq Ids
  BY <1>0, <1>1 DEF TypeOK, Put
<1>3. \A w \in Waiter : OverrideFor(ranks, w.id, w.owner, p) \in Int
  BY <1>1, <1>2, HostAssumption DEF OverrideFor
<1> HIDE DEF ranks
<1>4. ASSUME NEW i \in DOMAIN waiters
      PROVE  /\ ranked[i] \in Waiter
             /\ ranked[i].cores = waiters[i].cores
             /\ ranked[i].memory = waiters[i].memory
  <2>1. waiters[i] \in Waiter
    BY <1>0
  <2>2. OverrideFor(ranks, waiters[i].id, waiters[i].owner, p) \in Int
    BY <1>3, <2>1
  <2>3. \A x \in Int : LET v == [waiters[i] EXCEPT !.priority = x]
                       IN  /\ v \in Waiter /\ v.cores = waiters[i].cores
                           /\ v.memory = waiters[i].memory
    BY <2>1 DEF Waiter
  <2> QED BY <2>1, <2>2, <2>3
<1>5. ranked \in Seq(Waiter) /\ DOMAIN ranked = DOMAIN waiters
  <2>1. ranked \in [1..Len(waiters) -> Waiter]
    BY <1>0, <1>4
  <2> QED BY <1>0, <2>1, SeqDef
<1> HIDE DEF ranked
<1>6. WaitersBounded => \A w \in Queued(ranked) : \A r \in Host : w[r] <= total[r]
  BY <1>4, <1>5 DEF WaitersBounded, Queued, Host
<1>7. waiters' \in Seq(Waiter) /\ (WaitersBounded => WaitersBounded')
  <2>1. CASE waiters' = waiters
    BY <1>0, <1>1, <2>1 DEF WaitersBounded, TypeOK
  <2>2. CASE waiters' \in Arrangements(ranked)
    <3>1. QueueFrom(Queued(ranked))
      BY <1>5, <2>2, RearrangedQueue
    <3> QED BY <1>1, <1>6, <3>1, BoundedQueue DEF QueueFrom
  <2> QED BY <1>1, <2>1, <2>2
<1>8. BooksTyped' /\ HoldsMatchClaims'
  BY <1>0, <1>1, UnchangedBooks, SameBooksFacts
<1>9. RestTyped'
  BY <1>0, <1>1, <1>2, <1>7 DEF TypeOK, RestTyped
<1> QED BY <1>7, <1>8, <1>9, TypePartsNext DEF TypeInv, QueueKept

(* A promoted waiter takes its place among the leases. *)
LEMMA PromoteType ==
  ASSUME TypeInv, Promote
  PROVE  QueueKept /\ QueueFrom(Queued(waiters))
<1>0. TypeOK /\ HoldsMatchClaims /\ waiters \in Seq(Waiter) /\ total' = total
  BY DEF TypeInv, TypeOK, Promote
<1>1. PICK i \in DOMAIN waiters :
        /\ waiters' = RemoveAt(RecordBackfill(waiters, i - 1, waiters[i]), i)
        /\ Grant(waiters[i])
  BY DEF Promote
<1> DEFINE charged == RecordBackfill(waiters, i - 1, waiters[i])
<1>2. waiters[i] \in Waiter
  BY <1>0
<1>3. /\ charged \in Seq(Waiter) /\ DOMAIN charged = DOMAIN waiters
      /\ \A j \in DOMAIN waiters : SameButDelay(charged[j], waiters[j])
  BY <1>0, <1>2, RecordBackfillFacts
<1>4. waiters' = RemoveAt(charged, i)
  BY <1>1
<1> HIDE DEF charged
<1>5. /\ waiters' \in Seq(Waiter)
      /\ \A j \in DOMAIN waiters' : \E k \in DOMAIN waiters : waiters'[j] = charged[k]
  <2>1. i \in 1..Len(charged) /\ Len(charged) \in Nat
        /\ DOMAIN charged = 1..Len(charged)
    BY <1>3, LenProperties
  <2>2. /\ waiters' \in Seq(Waiter) /\ Len(waiters') = Len(charged) - 1
        /\ \A j \in 1..(Len(charged) - 1) :
              waiters'[j] = IF j < i THEN charged[j] ELSE charged[j + 1]
    BY <1>3, <1>4, RemoveAtFacts
  <2>3. DOMAIN waiters' = 1..(Len(charged) - 1)
    BY <2>2, LenProperties
  <2> QED BY <1>3, <2>1, <2>2, <2>3
<1>6. QueueFrom(Queued(waiters))
  BY <1>3, <1>5 DEF QueueFrom, Queued
<1>7. WaitersBounded => WaitersBounded'
  BY <1>0, <1>6, BoundedQueue DEF WaitersBounded, Queued
<1>8. BooksTyped' /\ HoldsMatchClaims'
  BY <1>0, <1>1, <1>2, GrantFacts
<1>9. RestTyped'
  BY <1>0, <1>5 DEF TypeOK, RestTyped, Promote
<1> QED BY <1>6, <1>7, <1>8, <1>9, TypePartsNext DEF TypeInv, QueueKept

(* A run that attaches takes nothing. *)
LEMMA AttachBooks ==
  ASSUME TypeOK, NEW l \in DOMAIN leases, NEW m \in Children, Attach(l, m)
  PROVE  SameBooks
<1> DEFINE parent == ResolveParent(l, ParentOf[m])
           x == [leases[l] EXCEPT !.members = @ \cup {m}, !.parents[m] = parent]
<1>1. /\ parent \in Ids /\ m \in Ids
      /\ leases' = [leases EXCEPT ![l].members = @ \cup {m}, ![l].parents[m] = parent]
      /\ UNCHANGED <<used, sems, leaseSeq>>
  BY NamesAssumption DEF Attach
<1> HIDE DEF parent
<1>2. leases \in [DOMAIN leases -> Lease] /\ leases[l] \in Lease
  BY DEF TypeOK
<1>3. leases' = [leases EXCEPT ![l] = x]
  BY <1>1, <1>2
<1>4. x \in Lease /\ SameHolding(x, leases[l])
  <2>1. leases[l].members \cup {m} \in SUBSET Ids
    BY <1>1, <1>2 DEF Lease
  <2>2. [leases[l].parents EXCEPT ![m] = parent] \in [Ids -> Ids \cup {None}]
    BY <1>1, <1>2 DEF Lease
  <2> QED BY <1>2, <2>1, <2>2 DEF Lease, SameHolding
<1> HIDE DEF x
<1> QED BY <1>1, <1>2, <1>3, <1>4 DEF SameBooks, SameHolding

(* Nor does one that says what it depends on. *)
LEMMA DependBooks ==
  ASSUME TypeOK, NEW l \in DOMAIN leases, NEW m \in Children, Depend(m, l)
  PROVE  SameBooks
<1> DEFINE x == [leases[l] EXCEPT !.dependents = @ \cup {m}]
<1>1. /\ m \in Ids
      /\ leases' = [leases EXCEPT ![l].dependents = @ \cup {m}]
      /\ UNCHANGED <<used, sems, leaseSeq>>
  BY NamesAssumption DEF Depend
<1>2. leases \in [DOMAIN leases -> Lease] /\ leases[l] \in Lease
  BY DEF TypeOK
<1>3. leases' = [leases EXCEPT ![l] = x]
  BY <1>1, <1>2
<1>4. x \in Lease /\ SameHolding(x, leases[l])
  <2>1. leases[l].dependents \cup {m} \in SUBSET Ids
    BY <1>1, <1>2 DEF Lease
  <2> QED BY <1>2, <2>1 DEF Lease, SameHolding
<1> HIDE DEF x
<1> QED BY <1>1, <1>2, <1>3, <1>4 DEF SameBooks, SameHolding

(* Nor does one that leaves others behind give anything back. *)
LEMMA ReleaseMemberBooks ==
  ASSUME TypeOK, NEW l \in DOMAIN leases, NEW m, ReleaseMember(l, m)
  PROVE  SameBooks
<1>1. leases' = Leave(l, m) /\ UNCHANGED <<used, sems, leaseSeq>>
  BY DEF ReleaseMember
<1>2. /\ DOMAIN Leave(l, m) = DOMAIN leases
      /\ \A o \in DOMAIN leases : /\ Leave(l, m)[o] \in Lease
                                  /\ SameHolding(Leave(l, m)[o], leases[o])
  BY LeaveFacts
<1>3. Leave(l, m) = [o \in DOMAIN leases |-> Leave(l, m)[o]]
  BY DEF Leave
<1> QED BY <1>1, <1>2, <1>3 DEF SameBooks

(* Every step keeps the types and the match of holds with claims. *)
LEMMA NextType == TypeInv /\ [Next]_vars => TypeInv'
<1> SUFFICES ASSUME TypeInv, [Next]_vars PROVE TypeInv'
  OBVIOUS
<1>0. TypeOK /\ HoldsMatchClaims
  BY DEF TypeInv
<1>1. ASSUME NEW q \in Requests,
             SubmitGranted(q) \/ SubmitQueued(q) \/ SubmitAging(q) \/ ReplaceWaiter(q)
      PROVE  TypeInv'
  BY <1>1, SubmitGrantedType, SubmitQueuedType, SubmitAgingType,
     ReplaceWaiterType DEF QueueKept
<1>2. ASSUME NEW i \in DOMAIN waiters, CancelWaiter(i)
      PROVE  TypeInv'
  BY <1>2, CancelWaiterType DEF QueueKept
<1>3. ASSUME NEW l \in DOMAIN leases, NEW m \in leases[l].members, ReleaseMember(l, m)
      PROVE  TypeInv'
  <2>1. BooksTyped' /\ HoldsMatchClaims'
    BY <1>0, <1>3, ReleaseMemberBooks, SameBooksFacts
  <2>2. RestTyped'
    BY <1>0, <1>3 DEF TypeOK, RestTyped, ReleaseMember
  <2> QED BY <2>1, <2>2, TypePartsNext DEF TypeInv
<1>4. ASSUME NEW l \in DOMAIN leases, NEW m \in leases[l].members, ReleaseLast(l, m)
      PROVE  TypeInv'
  <2>1. BooksTyped' /\ HoldsMatchClaims'
    BY <1>0, <1>4, ReleaseLastFacts
  <2>2. RestTyped'
    BY <1>0, <1>4 DEF TypeOK, RestTyped, ReleaseLast
  <2> QED BY <2>1, <2>2, TypePartsNext DEF TypeInv
<1>5. ASSUME NEW l \in DOMAIN leases, NEW m \in Children, Attach(l, m) \/ Depend(m, l)
      PROVE  TypeInv'
  <2>1. BooksTyped' /\ HoldsMatchClaims'
    BY <1>0, <1>5, AttachBooks, DependBooks, SameBooksFacts
  <2>2. RestTyped'
    BY <1>0, <1>5 DEF TypeOK, RestTyped, Attach, Depend
  <2> QED BY <2>1, <2>2, TypePartsNext DEF TypeInv
<1>6. ASSUME NEW h \in Headrooms, SetHeadroom(h)
      PROVE  TypeInv'
  <2>1. BooksTyped' /\ HoldsMatchClaims'
    BY <1>0, <1>6, UnchangedBooks, SameBooksFacts DEF SetHeadroom
  <2>2. RestTyped'
    BY <1>0, <1>6, HostAssumption DEF TypeOK, RestTyped, SetHeadroom
  <2> QED BY <2>1, <2>2, TypePartsNext DEF TypeInv
<1>7. ASSUME NEW b \in Resizes, ResizeTotals(b)
      PROVE  TypeInv'
  <2>1. BooksTyped' /\ HoldsMatchClaims'
    BY <1>0, <1>7, UnchangedBooks, SameBooksFacts DEF ResizeTotals
  <2>2. ASSUME NEW r \in Host
        PROVE  total'[r] \in Nat /\ headroom'[r] \in Nat
    <3>1. b[r] \in Nat /\ used[r] \in Int /\ headroom[r] \in Nat
      BY <1>0, HostAssumption DEF TypeOK
    <3>2. total'[r] = Max({b[r], used[r]}) /\ headroom'[r] = Min({headroom[r], total'[r]})
      BY <1>7 DEF ResizeTotals
    <3>3. b[r] \in Int
      BY <3>1
    <3>4. LET t == Max({b[r], used[r]}) IN t \in {b[r], used[r]} /\ t >= b[r]
      BY <3>1, <3>3, MaxOfTwo
    <3>5. total'[r] \in Nat
      BY <3>1, <3>2, <3>4
    <3>6. headroom[r] \in Int /\ total'[r] \in Int
      BY <3>1, <3>5
    <3>7. LET t == Min({headroom[r], total'[r]}) IN t \in {headroom[r], total'[r]}
      BY <3>6, MinOfTwo
    <3> QED BY <3>1, <3>2, <3>5, <3>7
  <2>3. total' \in [Host -> Nat] /\ headroom' \in [Host -> Nat]
    BY <1>7, <2>2 DEF ResizeTotals
  <2>4. RestTyped'
    BY <1>0, <1>7, <2>3 DEF TypeOK, RestTyped, ResizeTotals
  <2> QED BY <2>1, <2>4, TypePartsNext DEF TypeInv
<1>8. ASSUME NEW run \in Ids, NEW p \in Priorities, SetPriority(run, p)
      PROVE  TypeInv'
  BY <1>8, SetPriorityType DEF QueueKept
<1>9. CASE Restore
  <2>1. BooksTyped' /\ HoldsMatchClaims'
    BY <1>0, <1>9, UnchangedBooks, SameBooksFacts DEF Restore
  <2>2. policy.burst \in Nat /\ burstFloor \in Nat
    BY <1>0 DEF TypeOK, Policy
  <2>3. Max({policy.burst, burstFloor}) \in Nat
    <3>1. policy.burst \in Int /\ burstFloor \in Int
      BY <2>2
    <3>2. LET t == Max({policy.burst, burstFloor}) IN t \in {policy.burst, burstFloor}
      BY <3>1, MaxOfTwo
    <3> QED BY <2>2, <3>2
  <2>4. policy' \in Policy
    <3>1. PICK n \in Nat : policy' = [policy EXCEPT !.burst = n]
      BY <1>9, <2>2 DEF Restore
    <3> QED BY <1>0, <3>1 DEF TypeOK, Policy
  <2>5. mu' \in {"restored", "refused"}
    BY <1>9 DEF Restore
  <2>6. RestTyped'
    BY <1>0, <1>9, <2>3, <2>4, <2>5 DEF TypeOK, RestTyped, Restore
  <2> QED BY <2>1, <2>6, TypePartsNext DEF TypeInv
<1>10. ASSUME NEW p \in Policies, SetSchedulingPolicy(p)
       PROVE  TypeInv'
  <2>1. BooksTyped' /\ HoldsMatchClaims'
    BY <1>0, <1>10, UnchangedBooks, SameBooksFacts DEF SetSchedulingPolicy
  <2>2. waiters' \in Seq(Waiter)
    BY <1>0, <1>10, RearrangedQueue DEF SetSchedulingPolicy, TypeOK, QueueFrom
  <2>3. RestTyped'
    BY <1>0, <1>10, <2>2, PolicyAssumption
       DEF TypeOK, RestTyped, SetSchedulingPolicy
  <2> QED BY <2>1, <2>3, TypePartsNext DEF TypeInv
<1>11. CASE Promote
  BY <1>11, PromoteType DEF QueueKept
<1>12. CASE Unlock
  <2>1. BooksTyped' /\ HoldsMatchClaims'
    BY <1>0, <1>12, UnchangedBooks, SameBooksFacts DEF Unlock
  <2>2. /\ overrides' \in [DOMAIN overrides' -> Priorities]
        /\ DOMAIN overrides' \subseteq Ids
    <3>1. overrides' = overrides \/ overrides' = PrunedOverrides
      BY <1>12 DEF Unlock
    <3> QED BY <1>0, <3>1 DEF PrunedOverrides, TypeOK
  <2>3. mu' \in {"panic", "free"}
    BY <1>12 DEF Unlock
  <2>4. RestTyped'
    BY <1>0, <1>12, <2>2, <2>3 DEF TypeOK, RestTyped, Unlock
  <2> QED BY <2>1, <2>4, TypePartsNext DEF TypeInv
<1>13. CASE UNCHANGED vars
  <2>1. BooksTyped' /\ HoldsMatchClaims'
    BY <1>0, <1>13, UnchangedBooks, SameBooksFacts DEF vars
  <2>2. RestTyped'
    BY <1>0, <1>13 DEF TypeOK, RestTyped, vars
  <2> QED BY <2>1, <2>2, TypePartsNext DEF TypeInv
<1>14. CASE Next
  BY <1>14, <1>1, <1>2, <1>3, <1>4, <1>5, <1>6, <1>7, <1>8, <1>9, <1>10, <1>11,
     <1>12 DEF Next
<1> QED BY <1>13, <1>14

(* The inductive invariant holds of every reachable state. *)
THEOREM TypeInvariance == Spec => []TypeInv
BY InitType, NextType, PTL DEF Spec

(* Every variable keeps the shape its Go type gives it, whatever the       *)
(* requests, budgets and policies.                                         *)
THEOREM TypeCorrect == Spec => []TypeOK
<1>1. TypeInv => TypeOK
  BY DEF TypeInv
<1> QED BY <1>1, TypeInvariance, PTL

(* The holds on every semaphore are exactly the claims of the live leases: *)
(* none leaks when a lease ends, none is lost when another is superseded   *)
(* (grant, evictForClaim, free, dropHold and holdMatchesClaim).            *)
THEOREM HoldsAreClaims == Spec => []HoldsMatchClaims
<1>1. TypeInv => HoldsMatchClaims
  BY DEF TypeInv
<1> QED BY <1>1, TypeInvariance, PTL

=============================================================================
