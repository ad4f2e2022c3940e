------------------------- MODULE AdmissionHostProofs -------------------------
(***************************************************************************)
(* The host is never overcommitted beyond what the code allows: memory     *)
(* never, cores only under a soft lease or a single burst within its       *)
(* limit.  The bound the code asserts (hostInvariant) is not inductive: a  *)
(* soft lease may be there for no reason, and the one that excuses the     *)
(* overcommit may be the one that ends.  HostInv names the lease that      *)
(* carries the excess: without its cores the rest fits the machine.        *)
(***************************************************************************)
EXTENDS AdmissionLedgerProofs, DataLemmas

(* What cores may exceed the total by, under a burst. *)
BurstLimit == Max({policy.burst, burstFloor})

(* At most one lease bursts. *)
OneBurst ==
  \A a, b \in DOMAIN leases : leases[a].burst /\ leases[b].burst => a = b

(* Lease x carries all the cores beyond the total. *)
Excused(x) ==
  /\ used["cores"] - leases[x].cores <= total["cores"]
  /\ \/ leases[x].soft
     \/ /\ leases[x].burst /\ BurstLimit > 0
        /\ used["cores"] <= total["cores"] + BurstLimit

CoresBounded ==
  \/ used["cores"] <= total["cores"]
  \/ \E x \in DOMAIN leases : Excused(x)

HostInv ==
  /\ used["memory"] <= total["memory"]
  /\ WaitersBounded /\ OneBurst /\ CoresBounded
  /\ mu = "restored" => burstFloor >= policy.burst

(* The numbers the bounds compare are integers. *)
LEMMA HostNumbers ==
  ASSUME TypeOK
  PROVE  /\ used["cores"] \in Int /\ used["memory"] \in Int
         /\ total["cores"] \in Nat /\ total["memory"] \in Nat
         /\ headroom["cores"] \in Nat /\ headroom["memory"] \in Nat
         /\ policy.burst \in Nat /\ burstFloor \in Nat
         /\ \A l \in DOMAIN leases : /\ leases[l].cores \in Nat
                                     /\ leases[l].soft \in BOOLEAN
                                     /\ leases[l].burst \in BOOLEAN
<1>1. \A l \in DOMAIN leases : leases[l] \in Lease
  BY DEF TypeOK
<1>2. \A l \in DOMAIN leases : /\ leases[l].cores \in Nat
                               /\ leases[l].soft \in BOOLEAN
                               /\ leases[l].burst \in BOOLEAN
  BY <1>1 DEF Lease
<1>3. policy.burst \in Nat
  BY DEF TypeOK, Policy
<1> QED BY <1>2, <1>3 DEF TypeOK, Host

(* The burst limit is the larger of its two sources. *)
LEMMA BurstLimitFacts ==
  ASSUME TypeOK
  PROVE  /\ BurstLimit \in Nat /\ BurstLimit >= policy.burst
         /\ BurstLimit >= burstFloor
         /\ BurstLimit \in {policy.burst, burstFloor}
<1>1. policy.burst \in Nat /\ burstFloor \in Nat
  BY HostNumbers
<1>2. policy.burst \in Int /\ burstFloor \in Int
  BY <1>1
<1>3. LET t == Max({policy.burst, burstFloor})
      IN  t \in {policy.burst, burstFloor} /\ t >= policy.burst /\ t >= burstFloor
  BY <1>2, MaxOfTwo
<1> QED BY <1>1, <1>3 DEF BurstLimit

(* What the host offers is within what it has. *)
LEMMA OfferedBounded ==
  ASSUME TypeOK, NEW r \in Host
  PROVE  Offered(r) \in Int /\ Offered(r) <= total[r]
<1>1. total[r] \in Int /\ headroom[r] \in Int
  BY DEF TypeOK
<1>2. LET t == Min({total[r], headroom[r]})
      IN  t \in {total[r], headroom[r]} /\ t <= total[r]
  BY <1>1, MinOfTwo
<1> QED BY <1>1, <1>2 DEF Offered

(* A step that lets s in, and changes nothing else of the host. *)
LetIn(s) ==
  /\ s \in Waiter /\ Fits(s) /\ Grant(s)
  /\ \A r \in Host : s[r] <= total[r]
  /\ UNCHANGED <<total, policy, burstFloor>>

(* Who is let in keeps the host within its bounds. *)
LEMMA LetInBounds ==
  ASSUME TypeInv, HostInv, NEW s, LetIn(s)
  PROVE  /\ used'["memory"] <= total'["memory"]
         /\ OneBurst' /\ CoresBounded'
<1> DEFINE plain == [s EXCEPT !.burst = FALSE]
<1>id. PICK id : id = leaseSeq + 1
  OBVIOUS
<1>0. /\ TypeOK /\ HoldsMatchClaims /\ s \in Waiter /\ Fits(s) /\ Grant(s)
      /\ s.cores <= total["cores"] /\ s.memory <= total["memory"]
      /\ total' = total /\ policy' = policy /\ burstFloor' = burstFloor
  BY DEF TypeInv, LetIn, Host
<1>1. /\ BooksTyped' /\ id \notin DOMAIN leases
      /\ DOMAIN leases' = DOMAIN leases \cup {id}
      /\ leases'[id] = NewLease(s)
      /\ \A l \in DOMAIN leases : SameHolding(leases'[l], leases[l])
      /\ used' = [r \in Host |-> used[r] + s[r]]
  BY <1>0, <1>id, GrantFacts
<1>2. used'["cores"] = used["cores"] + s.cores
      /\ used'["memory"] = used["memory"] + s.memory
  BY <1>1 DEF Host
<1>3. /\ used["cores"] \in Int /\ used["memory"] \in Int
      /\ total["cores"] \in Nat /\ total["memory"] \in Nat
      /\ policy.burst \in Nat
      /\ \A l \in DOMAIN leases : leases[l].cores \in Nat
  BY <1>0, HostNumbers
<1>4. s.cores \in Nat /\ s.memory \in Nat /\ s.soft \in BOOLEAN /\ s.burst \in BOOLEAN
  BY <1>0 DEF Waiter
<1>5. /\ Offered("cores") \in Int /\ Offered("cores") <= total["cores"]
      /\ Offered("memory") \in Int /\ Offered("memory") <= total["memory"]
  BY <1>0, OfferedBounded DEF Host
<1>6. \A l \in DOMAIN leases : /\ leases'[l].cores = leases[l].cores
                               /\ leases'[l].soft = leases[l].soft
                               /\ leases'[l].burst = leases[l].burst
  BY <1>1 DEF SameHolding
<1>7. /\ leases'[id].cores = s.cores /\ leases'[id].soft = s.soft
      /\ leases'[id].burst = (s.burst /\ ~HostFits(plain))
  BY <1>1 DEF NewLease
<1>8. HostFits(s)
  BY <1>0 DEF Fits
<1>9. used'["memory"] <= total'["memory"]
  <2>1. CASE ResourcesIdle
    BY <1>0, <1>2, <1>3, <1>4, <2>1 DEF ResourcesIdle, Host
  <2>2. CASE s.memory = 0 \/ used["memory"] + s.memory <= Offered("memory")
    BY <1>0, <1>2, <1>3, <1>4, <1>5, <2>2 DEF HostInv
  <2> QED BY <1>8, <2>1, <2>2 DEF HostFits
<1>10. plain.soft = s.soft /\ plain.cores = s.cores /\ plain.memory = s.memory
       /\ plain.burst = FALSE
  BY <1>0 DEF Waiter
<1> HIDE DEF plain
<1>11. HostFits(plain) \/ (s.burst /\ ~HostFits(plain) /\ CoresFitBurst(s.cores))
  BY <1>8, <1>10 DEF HostFits, CoresFit
<1>12. BurstLimit' = BurstLimit /\ BurstLimit \in Nat /\ BurstLimit >= policy.burst
  BY <1>0, BurstLimitFacts DEF BurstLimit
<1>13. CASE HostFits(plain)
  <2>1. leases'[id].burst = FALSE
    BY <1>7, <1>13
  <2>2. OneBurst'
    BY <1>1, <1>6, <2>1 DEF OneBurst, HostInv
  <2>3. CASE used["cores"] + s.cores <= total["cores"]
    <3>1. used'["cores"] <= total'["cores"]
      BY <1>0, <1>2, <2>3
    <3> QED BY <1>9, <2>2, <3>1 DEF CoresBounded
  <2>4. CASE s.cores = 0 /\ ~(used["cores"] + s.cores <= total["cores"])
    <3>1. ~(used["cores"] <= total["cores"]) /\ used'["cores"] = used["cores"]
      BY <1>2, <1>3, <2>4
    <3>2. PICK x \in DOMAIN leases : Excused(x)
      BY <3>1 DEF HostInv, CoresBounded
    <3>3. Excused(x)'
      BY <1>0, <1>6, <1>12, <3>1, <3>2 DEF Excused
    <3> QED BY <1>1, <1>9, <2>2, <3>3 DEF CoresBounded
  <2>5. CASE s.soft /\ used["cores"] < total["cores"]
    <3>1. used'["cores"] - leases'[id].cores <= total'["cores"]
      BY <1>0, <1>2, <1>3, <1>4, <1>7, <2>5
    <3>2. Excused(id)'
      BY <1>7, <2>5, <3>1 DEF Excused
    <3> QED BY <1>1, <1>9, <2>2, <3>2 DEF CoresBounded
  <2>6. \/ used["cores"] + s.cores <= total["cores"] \/ s.cores = 0
        \/ s.soft /\ used["cores"] < total["cores"]
    <3>1. CASE ResourcesIdle
      BY <1>0, <1>3, <1>4, <3>1 DEF ResourcesIdle, Host
    <3>2. CASE CoresFit(plain) /\ s.soft
      BY <1>3, <1>4, <1>5, <1>10, <3>2 DEF CoresFit, SoftCoresFit
    <3>3. CASE CoresFit(plain) /\ ~s.soft
      BY <1>3, <1>4, <1>5, <1>10, <3>3 DEF CoresFit
    <3> QED BY <1>13, <3>1, <3>2, <3>3 DEF HostFits
  <2> QED BY <2>3, <2>4, <2>5, <2>6
<1>14. CASE s.burst /\ ~HostFits(plain) /\ CoresFitBurst(s.cores)
  <2>1. /\ policy.burst > 0 /\ used["cores"] <= total["cores"]
        /\ used["cores"] + s.cores <= total["cores"] + policy.burst
        /\ \A l \in DOMAIN leases : ~leases[l].burst
    BY <1>14 DEF CoresFitBurst
  <2>2. OneBurst'
    BY <1>1, <1>6, <2>1 DEF OneBurst
  <2>3. leases'[id].burst
    BY <1>7, <1>14
  <2>4. used'["cores"] - leases'[id].cores <= total'["cores"]
    BY <1>0, <1>2, <1>3, <1>4, <1>7, <2>1
  <2>5. BurstLimit' > 0 /\ used'["cores"] <= total'["cores"] + BurstLimit'
    BY <1>0, <1>2, <1>3, <1>4, <1>12, <2>1
  <2>6. Excused(id)'
    BY <2>3, <2>4, <2>5 DEF Excused
  <2> QED BY <1>1, <1>9, <2>2, <2>6 DEF CoresBounded
<1> QED BY <1>11, <1>13, <1>14

(* A step in which nobody's resources change, and the burst limit does not *)
(* shrink.                                                                 *)
LEMMA SameBooksBounds ==
  ASSUME TypeInv, HostInv, SameBooks, total' = total,
         TypeOK', BurstLimit' >= BurstLimit
  PROVE  /\ used'["memory"] <= total'["memory"]
         /\ OneBurst' /\ CoresBounded'
<1>1. /\ used' = used /\ DOMAIN leases' = DOMAIN leases
      /\ \A l \in DOMAIN leases : /\ leases'[l].cores = leases[l].cores
                                  /\ leases'[l].soft = leases[l].soft
                                  /\ leases'[l].burst = leases[l].burst
  BY DEF SameBooks, SameHolding
<1>2. used'["memory"] <= total'["memory"]
  BY <1>1 DEF HostInv
<1>3. OneBurst'
  BY <1>1 DEF HostInv, OneBurst
<1>4. used["cores"] \in Int /\ total["cores"] \in Nat
      /\ BurstLimit \in Nat /\ BurstLimit' \in Nat
  <2>1. policy'.burst \in Nat /\ burstFloor' \in Nat
    BY DEF TypeOK, Policy
  <2>2. policy'.burst \in Int /\ burstFloor' \in Int
    BY <2>1
  <2>3. LET t == Max({policy'.burst, burstFloor'}) IN t \in {policy'.burst, burstFloor'}
    BY <2>2, MaxOfTwo
  <2>4. BurstLimit' \in Nat
    BY <2>1, <2>3 DEF BurstLimit
  <2> QED BY <2>4, HostNumbers, BurstLimitFacts DEF TypeInv
<1>5. CoresBounded'
  <2>1. CASE used["cores"] <= total["cores"]
    BY <1>1, <2>1 DEF CoresBounded
  <2>2. ASSUME NEW x \in DOMAIN leases, Excused(x)
        PROVE  Excused(x)'
    BY <1>1, <1>4, <2>2 DEF Excused
  <2> QED BY <1>1, <2>1, <2>2 DEF HostInv, CoresBounded
<1> QED BY <1>2, <1>3, <1>5

(* Freeing a lease frees its cores, and the excess with the lease that     *)
(* carried it.                                                             *)
LEMMA ReleaseLastBounds ==
  ASSUME TypeInv, HostInv, NEW l \in DOMAIN leases, NEW m, ReleaseLast(l, m)
  PROVE  /\ used'["memory"] <= total'["memory"]
         /\ OneBurst' /\ CoresBounded'
<1>0. TypeOK /\ HoldsMatchClaims
  BY DEF TypeInv
<1>1. /\ DOMAIN leases' = DOMAIN leases \ {l}
      /\ \A o \in DOMAIN leases' : SameHolding(leases'[o], leases[o])
      /\ used' = [r \in Host |-> used[r] - leases[l][r]]
  BY <1>0, ReleaseLastFacts
<1>2. /\ total' = total /\ policy' = policy
      /\ burstFloor' = IF leases[l].burst THEN 0 ELSE burstFloor
  BY DEF ReleaseLast
<1>3. \A o \in DOMAIN leases' : /\ leases'[o].cores = leases[o].cores
                                /\ leases'[o].soft = leases[o].soft
                                /\ leases'[o].burst = leases[o].burst
  BY <1>1 DEF SameHolding
<1>4. /\ used["cores"] \in Int /\ used["memory"] \in Int
      /\ total["cores"] \in Nat /\ total["memory"] \in Nat
      /\ \A o \in DOMAIN leases : leases[o].cores \in Nat
  BY <1>0, HostNumbers
<1>5. leases[l].memory \in Nat
  BY <1>0 DEF TypeOK, Lease
<1>6. used'["cores"] = used["cores"] - leases[l].cores
      /\ used'["memory"] = used["memory"] - leases[l].memory
  BY <1>1 DEF Host
<1>7. used'["memory"] <= total'["memory"]
  BY <1>2, <1>4, <1>5, <1>6 DEF HostInv
<1>8. OneBurst'
  BY <1>1, <1>3 DEF HostInv, OneBurst
<1>9. CoresBounded'
  <2>1. CASE used["cores"] <= total["cores"]
    <3>1. used'["cores"] <= total'["cores"]
      BY <1>2, <1>4, <1>6, <2>1
    <3> QED BY <3>1 DEF CoresBounded
  <2>2. ASSUME NEW x \in DOMAIN leases, Excused(x)
        PROVE  CoresBounded'
    <3>1. used["cores"] - leases[x].cores <= total["cores"]
      BY <2>2 DEF Excused
    <3>2. CASE x = l
      <4>1. used'["cores"] <= total'["cores"]
        BY <1>2, <1>6, <3>1, <3>2
      <4> QED BY <4>1 DEF CoresBounded
    <3>3. CASE x # l
      <4>1. x \in DOMAIN leases'
        BY <1>1, <3>3
      <4>2. used'["cores"] - leases'[x].cores <= total'["cores"]
        <5>1. leases[x].cores \in Nat /\ leases[l].cores \in Nat
          BY <1>4
        <5>2. leases'[x].cores = leases[x].cores
          BY <1>3, <4>1
        <5> QED BY <1>2, <1>4, <1>6, <3>1, <5>1, <5>2
      <4>3. CASE leases[x].soft
        BY <1>3, <4>1, <4>2, <4>3 DEF Excused, CoresBounded
      <4>4. CASE ~leases[x].soft
        <5>1. leases[x].burst /\ BurstLimit > 0
              /\ used["cores"] <= total["cores"] + BurstLimit
          BY <2>2, <4>4 DEF Excused
        <5>2. ~leases[l].burst
          BY <3>3, <5>1 DEF HostInv, OneBurst
        <5>3. BurstLimit' = BurstLimit
          BY <1>2, <5>2 DEF BurstLimit
        <5>4. BurstLimit \in Nat /\ leases[l].cores \in Nat
          BY <1>0, <1>4, BurstLimitFacts
        <5>5. used'["cores"] <= total'["cores"] + BurstLimit'
          BY <1>2, <1>4, <1>6, <5>1, <5>3, <5>4
        <5>6. leases'[x].burst
          BY <1>3, <4>1, <5>1
        <5>7. Excused(x)'
          BY <4>2, <5>1, <5>3, <5>5, <5>6 DEF Excused
        <5> QED BY <4>1, <5>7 DEF CoresBounded
      <4> QED BY <4>3, <4>4
    <3> QED BY <3>2, <3>3
  <2> QED BY <2>1, <2>2 DEF HostInv, CoresBounded
<1> QED BY <1>7, <1>8, <1>9

(* The empty ledger is within its bounds. *)
LEMMA InitHost == Init => HostInv
<1> SUFFICES ASSUME Init PROVE HostInv
  OBVIOUS
<1>1. total \in [Host -> Nat] /\ used = [r \in Host |-> 0]
      /\ waiters = <<>> /\ DOMAIN leases = {} /\ mu = "free"
  BY HostAssumption DEF Init, EmptyFcn
<1>2. total["cores"] \in Nat /\ total["memory"] \in Nat
      /\ used["cores"] = 0 /\ used["memory"] = 0
  BY <1>1 DEF Host
<1>3. WaitersBounded /\ OneBurst
  BY <1>1 DEF WaitersBounded, OneBurst
<1>4. CoresBounded
  BY <1>2 DEF CoresBounded
<1> QED BY <1>1, <1>2, <1>3, <1>4 DEF HostInv

(* Steps that change neither leases, totals nor the burst limit. *)
LEMMA QuietBounds ==
  ASSUME TypeInv, TypeInv', HostInv, SameBooks,
         UNCHANGED <<total, policy, burstFloor>>, WaitersBounded',
         mu' # "restored"
  PROVE  HostInv'
<1>1. BurstLimit' = BurstLimit /\ BurstLimit \in Nat
  BY BurstLimitFacts DEF BurstLimit, TypeInv
<1>2. BurstLimit' >= BurstLimit
  BY <1>1
<1>3. TypeOK'
  BY DEF TypeInv
<1> QED BY <1>2, <1>3, SameBooksBounds DEF HostInv

(* Steps that let one request in. *)
LEMMA LetInHost ==
  ASSUME TypeInv, HostInv, NEW s, LetIn(s), WaitersBounded', mu' # "restored"
  PROVE  HostInv'
BY LetInBounds DEF HostInv

(* Every step keeps the host within its bounds. *)
LEMMA NextHost == TypeInv /\ HostInv /\ [Next]_vars => HostInv'
<1> SUFFICES ASSUME TypeInv, HostInv, [Next]_vars PROVE HostInv'
  OBVIOUS
<1>0. TypeOK /\ HoldsMatchClaims /\ WaitersBounded
  BY DEF TypeInv, HostInv
<1>t. TypeInv' /\ TypeOK'
  BY NextType DEF TypeInv
<1>1. ASSUME NEW q \in Requests, SubmitGranted(q)
      PROVE  HostInv'
  <2>1. WaitersBounded'
    BY <1>0, <1>1, SubmitGrantedType DEF QueueKept
  <2>2. Submittable(q) /\ Fits(Normalize(q)) /\ GrantFresh(Normalize(q), waiters)
    BY <1>1 DEF SubmitGranted, MayStart
  <2>3. LetIn(Normalize(q))
    BY <1>0, <2>2, NormalizeFacts DEF LetIn, Submittable, GrantFresh
  <2>4. mu' # "restored"
    BY <2>2 DEF GrantFresh
  <2> QED BY <2>1, <2>3, <2>4, LetInHost
<1>2. ASSUME NEW q \in Requests, SubmitQueued(q)
      PROVE  HostInv'
  <2>1. WaitersBounded'
    BY <1>0, <1>2, SubmitQueuedType DEF QueueKept
  <2>2. Enqueue(Normalize(q), waiters, "check")
    BY <1>2 DEF SubmitQueued
  <2>3. SameBooks /\ UNCHANGED <<total, policy, burstFloor>> /\ mu' = "check"
    BY <1>0, <2>2, UnchangedBooks DEF Enqueue
  <2> QED BY <1>t, <2>1, <2>3, QuietBounds
<1>3. ASSUME NEW q \in Requests, SubmitAging(q)
      PROVE  HostInv'
  <2>1. WaitersBounded'
    BY <1>0, <1>3, SubmitAgingType DEF QueueKept
  <2>2. Submittable(q)
    BY <1>3 DEF SubmitAging
  <2>3. PICK queue \in Sorted(waiters, admitSeq + 1) :
          \/ MayStart(Normalize(q), queue, Normalize(q).admit)
             /\ GrantFresh(Normalize(q), queue)
          \/ Enqueue(Normalize(q), queue, "promote")
          \/ /\ mu' = "check"
             /\ UNCHANGED <<total, used, sems, leases, leaseSeq, policy, burstFloor>>
    BY <1>3 DEF SubmitAging
  <2>4. CASE MayStart(Normalize(q), queue, Normalize(q).admit)
             /\ GrantFresh(Normalize(q), queue)
    <3>1. Fits(Normalize(q)) /\ Admissible(q)
      BY <2>2, <2>4 DEF MayStart, Submittable
    <3>2. LetIn(Normalize(q)) /\ mu' # "restored"
      BY <1>0, <2>4, <3>1, NormalizeFacts DEF LetIn, GrantFresh
    <3> QED BY <2>1, <3>2, LetInHost
  <2>5. CASE Enqueue(Normalize(q), queue, "promote")
    <3>1. SameBooks /\ UNCHANGED <<total, policy, burstFloor>> /\ mu' = "promote"
      BY <1>0, <2>5, UnchangedBooks DEF Enqueue
    <3> QED BY <1>t, <2>1, <3>1, QuietBounds
  <2>6. CASE /\ mu' = "check"
             /\ UNCHANGED <<total, used, sems, leases, leaseSeq, policy, burstFloor>>
    <3>1. SameBooks
      BY <1>0, <2>6, UnchangedBooks
    <3> QED BY <1>t, <2>1, <2>6, <3>1, QuietBounds
  <2> QED BY <2>3, <2>4, <2>5, <2>6
<1>4. ASSUME NEW q \in Requests, ReplaceWaiter(q)
      PROVE  HostInv'
  <2>1. WaitersBounded'
    BY <1>0, <1>4, ReplaceWaiterType DEF QueueKept
  <2>2. SameBooks /\ UNCHANGED <<total, policy, burstFloor>> /\ mu' = "promote"
    BY <1>0, <1>4, UnchangedBooks DEF ReplaceWaiter
  <2> QED BY <1>t, <2>1, <2>2, QuietBounds
<1>5. ASSUME NEW i \in DOMAIN waiters, CancelWaiter(i)
      PROVE  HostInv'
  <2>1. WaitersBounded'
    BY <1>0, <1>5, CancelWaiterType DEF QueueKept
  <2>2. SameBooks /\ UNCHANGED <<total, policy, burstFloor>> /\ mu' = "prune"
    BY <1>0, <1>5, UnchangedBooks DEF CancelWaiter
  <2> QED BY <1>t, <2>1, <2>2, QuietBounds
<1>6. ASSUME NEW l \in DOMAIN leases, NEW m \in leases[l].members, ReleaseMember(l, m)
      PROVE  HostInv'
  <2>1. SameBooks
    BY <1>0, <1>6, ReleaseMemberBooks
  <2>2. UNCHANGED <<total, policy, burstFloor, waiters>> /\ mu' = "check"
    BY <1>6 DEF ReleaseMember
  <2> QED BY <1>0, <1>t, <2>1, <2>2, QuietBounds DEF WaitersBounded
<1>7. ASSUME NEW l \in DOMAIN leases, NEW m \in leases[l].members, ReleaseLast(l, m)
      PROVE  HostInv'
  <2>1. UNCHANGED <<total, waiters>> /\ mu' = "prune"
    BY <1>7 DEF ReleaseLast
  <2> QED BY <1>0, <1>7, <2>1, ReleaseLastBounds DEF HostInv, WaitersBounded
<1>8. ASSUME NEW l \in DOMAIN leases, NEW m \in Children, Attach(l, m) \/ Depend(m, l)
      PROVE  HostInv'
  <2>1. SameBooks
    BY <1>0, <1>8, AttachBooks, DependBooks
  <2>2. UNCHANGED <<total, policy, burstFloor, waiters>> /\ mu' = "check"
    BY <1>8 DEF Attach, Depend
  <2> QED BY <1>0, <1>t, <2>1, <2>2, QuietBounds DEF WaitersBounded
<1>9. ASSUME NEW h \in Headrooms, SetHeadroom(h)
      PROVE  HostInv'
  <2>1. SameBooks /\ UNCHANGED <<total, policy, burstFloor, waiters>> /\ mu' = "promote"
    BY <1>0, <1>9, UnchangedBooks DEF SetHeadroom
  <2> QED BY <1>0, <1>t, <2>1, QuietBounds DEF WaitersBounded
<1>10. ASSUME NEW b \in Resizes, ResizeTotals(b)
       PROVE  HostInv'
  <2>1. UNCHANGED <<used, leases, waiters>> /\ mu' = "check"
    BY <1>10 DEF ResizeTotals
  <2>2. ASSUME NEW r \in Host
        PROVE  used'[r] <= total'[r]
    <3>1. b[r] \in Int /\ used[r] \in Int
      BY <1>0, HostAssumption DEF TypeOK
    <3>2. LET t == Max({b[r], used[r]}) IN t >= used[r] /\ t \in {b[r], used[r]}
      BY <3>1, MaxOfTwo
    <3>3. total'[r] = Max({b[r], used[r]})
      BY <1>10 DEF ResizeTotals
    <3> QED BY <2>1, <3>1, <3>2, <3>3
  <2>3. WaitersBounded'
    BY <1>10, <2>1 DEF ResizeTotals, WaitersBounded
  <2>4. OneBurst'
    BY <2>1 DEF HostInv, OneBurst
  <2>5. used'["cores"] <= total'["cores"] /\ used'["memory"] <= total'["memory"]
    BY <2>2 DEF Host
  <2> QED BY <2>1, <2>3, <2>4, <2>5 DEF HostInv, CoresBounded
<1>11. ASSUME NEW run \in Ids, NEW p \in Priorities, SetPriority(run, p)
       PROVE  HostInv'
  <2>1. WaitersBounded'
    BY <1>0, <1>11, SetPriorityType DEF QueueKept
  <2>2. UNCHANGED <<used, sems, leases, leaseSeq, total, policy, burstFloor>>
        /\ mu' \in {"check", "promote"}
    BY <1>11 DEF SetPriority
  <2>3. SameBooks
    BY <1>0, <2>2, UnchangedBooks
  <2> QED BY <1>t, <2>1, <2>2, <2>3, QuietBounds
<1>12. CASE Restore
  <2>1. /\ UNCHANGED <<total, used, sems, leases, leaseSeq, waiters>>
        /\ burstFloor' = BurstLimit
        /\ policy' = [policy EXCEPT !.burst = IF policy.burst = 0 THEN burstFloor
                                              ELSE policy.burst]
    BY <1>12 DEF Restore, BurstLimit
  <2>2. policy'.burst = IF policy.burst = 0 THEN burstFloor ELSE policy.burst
    BY <1>0, <2>1 DEF TypeOK, Policy
  <2>3. /\ BurstLimit \in Nat /\ BurstLimit >= policy.burst
        /\ BurstLimit >= burstFloor /\ policy.burst \in Nat /\ burstFloor \in Nat
    BY <1>0, BurstLimitFacts, HostNumbers
  <2>4. burstFloor' >= policy'.burst /\ policy'.burst \in Int /\ burstFloor' \in Int
    BY <2>1, <2>2, <2>3
  <2>5. BurstLimit' >= BurstLimit
    <3>1. LET t == Max({policy'.burst, burstFloor'}) IN t >= burstFloor'
      BY <2>4, MaxOfTwo
    <3> QED BY <2>1, <3>1 DEF BurstLimit
  <2>6. SameBooks
    BY <1>0, <2>1, UnchangedBooks
  <2>7. WaitersBounded'
    BY <1>0, <2>1 DEF WaitersBounded
  <2> QED BY <1>t, <2>1, <2>4, <2>5, <2>6, <2>7, SameBooksBounds DEF HostInv
<1>13. ASSUME NEW p \in Policies, SetSchedulingPolicy(p)
       PROVE  HostInv'
  <2>1. /\ UNCHANGED <<total, used, sems, leases, leaseSeq, burstFloor>>
        /\ waiters' \in Arrangements(waiters) /\ mu = "restored" /\ mu' = "check"
    BY <1>13 DEF SetSchedulingPolicy
  <2>2. WaitersBounded'
    <3>1. QueueFrom(Queued(waiters))
      BY <1>0, <2>1, RearrangedQueue DEF TypeOK
    <3> QED BY <1>0, <2>1, <3>1, BoundedQueue DEF WaitersBounded, Queued
  <2>3. /\ BurstLimit \in {policy.burst, burstFloor}
        /\ BurstLimit >= policy.burst /\ BurstLimit >= burstFloor
        /\ burstFloor >= policy.burst /\ policy.burst \in Nat /\ burstFloor \in Nat
    BY <1>0, <2>1, BurstLimitFacts, HostNumbers DEF HostInv
  <2>4. BurstLimit = burstFloor
    BY <2>3
  <2>5. BurstLimit' >= BurstLimit
    <3>1. policy'.burst \in Nat
      BY <1>t DEF TypeOK, Policy
    <3>2. policy'.burst \in Int /\ burstFloor' \in Int
      BY <2>1, <2>3, <3>1
    <3>3. LET t == Max({policy'.burst, burstFloor'}) IN t >= burstFloor'
      BY <3>2, MaxOfTwo
    <3> QED BY <2>1, <2>4, <3>3 DEF BurstLimit
  <2>6. SameBooks
    BY <1>0, <2>1, UnchangedBooks
  <2> QED BY <1>t, <2>1, <2>2, <2>5, <2>6, SameBooksBounds DEF HostInv
<1>14. CASE Promote
  <2>1. WaitersBounded'
    BY <1>0, <1>14, PromoteType DEF QueueKept
  <2>2. PICK i \in DOMAIN waiters : Fits(waiters[i]) /\ Grant(waiters[i])
    BY <1>14 DEF Promote, IsNextPromotable, Promotable
  <2>3. waiters[i] \in Waiter
    BY <1>0 DEF TypeOK
  <2>4. mu' # "restored" /\ UNCHANGED <<total, policy, burstFloor>>
    BY <1>14 DEF Promote
  <2>5. LetIn(waiters[i])
    BY <1>0, <2>2, <2>3, <2>4 DEF LetIn, WaitersBounded
  <2> QED BY <2>1, <2>4, <2>5, LetInHost
<1>15. CASE Unlock
  <2>1. /\ UNCHANGED <<used, sems, leases, leaseSeq, total, policy, burstFloor, waiters>>
        /\ mu' \in {"panic", "free"}
    BY <1>15 DEF Unlock
  <2>2. SameBooks
    BY <1>0, <2>1, UnchangedBooks
  <2> QED BY <1>0, <1>t, <2>1, <2>2, QuietBounds DEF WaitersBounded
<1>16. CASE UNCHANGED vars
  BY <1>16 DEF vars, HostInv, WaitersBounded, OneBurst, CoresBounded, Excused, BurstLimit
<1>17. CASE Next
  BY <1>17, <1>1, <1>2, <1>3, <1>4, <1>5, <1>6, <1>7, <1>8, <1>9, <1>10, <1>11,
     <1>12, <1>13, <1>14, <1>15 DEF Next
<1> QED BY <1>16, <1>17

(* The bound the code asserts follows. *)
LEMMA HostInvBounds == TypeInv /\ HostInv => HostBounds
<1> SUFFICES ASSUME TypeInv, HostInv PROVE HostBounds
  OBVIOUS
<1>1. ASSUME NEW x \in DOMAIN leases, Excused(x)
      PROVE  SoftCoreOvercommit \/ BurstCoreOvercommit
  <2>1. CASE leases[x].soft
    BY <2>1 DEF SoftCoreOvercommit
  <2>2. CASE leases[x].burst /\ BurstLimit > 0
             /\ used["cores"] <= total["cores"] + BurstLimit
    <3>1. {l \in DOMAIN leases : leases[l].burst} = {x}
      BY <2>2 DEF HostInv, OneBurst
    <3>2. Cardinality({x}) = 1
      BY FS_Singleton
    <3> QED BY <2>2, <3>1, <3>2 DEF BurstCoreOvercommit, BurstLimit
  <2> QED BY <1>1, <2>1, <2>2 DEF Excused
<1> QED BY <1>1 DEF HostInv, CoresBounded, HostBounds

(* Memory is never overcommitted, and cores only under a soft lease or one *)
(* burst within its limit, through every grant, release, resize, restart   *)
(* and change of policy, whatever the budgets and requests (hostFits,      *)
(* coresFitSoft, coresFitBurst, ResizeTotals, Restore, hostInvariant).     *)
THEOREM HostNeverOvercommitted == Spec => []HostBounds
<1>1. Init => TypeInv /\ HostInv
  BY InitType, InitHost
<1>2. TypeInv /\ HostInv /\ [Next]_vars => (TypeInv /\ HostInv)'
  BY NextType, NextHost
<1> QED BY <1>1, <1>2, HostInvBounds, PTL DEF Spec

-----------------------------------------------------------------------------
(* What a step does to the queue and to the leases *)

(* v has the identity and the ranks of w. *)
SameRank(v, w) ==
  /\ v.id = w.id /\ v.owner = w.owner
  /\ v.admit = w.admit /\ v.ownerAdmit = w.ownerAdmit

(* v was queued before the step, and claims what it claimed or what a      *)
(* request that replaced it claims.                                        *)
Stayed(v) ==
  \E w \in Queued(waiters) :
    /\ SameRank(v, w)
    /\ v.claims = w.claims \/ \E q \in Requests : v.claims = q.claims

(* v is the request submitted in this step. *)
Arrived(v) ==
  \E q \in Requests :
    /\ Submittable(q) /\ SameRank(v, Normalize(q)) /\ v.claims = q.claims
    /\ admitSeq' = admitSeq + 1

(* A queue that comes from the queue before the step. *)
LEMMA QueueStayed ==
  ASSUME QueueFrom(Queued(waiters)), NEW i \in DOMAIN waiters'
  PROVE  Stayed(waiters'[i])
<1>1. PICK w \in Queued(waiters) : SameButDelay(waiters'[i], w)
  BY DEF QueueFrom
<1>2. SameRank(waiters'[i], w) /\ waiters'[i].claims = w.claims
  BY <1>1 DEF SameButDelay, SameRank
<1> QED BY <1>2 DEF Stayed

(* The same with the submitted request in it. *)
LEMMA QueueArrived ==
  ASSUME NEW q \in Requests, Submittable(q), admitSeq' = admitSeq + 1,
         QueueFrom(Queued(waiters) \cup {Normalize(q)}), NEW i \in DOMAIN waiters'
  PROVE  Stayed(waiters'[i]) \/ Arrived(waiters'[i])
<1>1. PICK w \in Queued(waiters) \cup {Normalize(q)} : SameButDelay(waiters'[i], w)
  BY DEF QueueFrom
<1>2. SameRank(waiters'[i], w) /\ waiters'[i].claims = w.claims
  BY <1>1 DEF SameButDelay, SameRank
<1>3. Normalize(q).claims = q.claims
  BY DEF Normalize
<1>4. CASE w \in Queued(waiters)
  BY <1>2, <1>4 DEF Stayed
<1>5. CASE w = Normalize(q)
  BY <1>2, <1>3, <1>5 DEF Arrived
<1> QED BY <1>4, <1>5

(* The request a step submits, as it is let in. *)
LEMMA SubmittedArrives ==
  ASSUME NEW q \in Requests, Submittable(q), admitSeq' = admitSeq + 1
  PROVE  Arrived(Normalize(q))
<1>1. Normalize(q).claims = q.claims
  BY DEF Normalize
<1>2. SameRank(Normalize(q), Normalize(q))
  BY DEF SameRank
<1> QED BY <1>1, <1>2 DEF Arrived

(* A replaced waiter keeps its identity and its ranks. *)
LEMMA ReplaceWaiterStays ==
  ASSUME TypeInv, NEW q \in Requests, ReplaceWaiter(q), NEW k \in DOMAIN waiters'
  PROVE  Stayed(waiters'[k])
<1>0. TypeOK /\ Admissible(q) /\ waiters \in Seq(Waiter)
      /\ waiters \in [1..Len(waiters) -> Waiter] /\ Len(waiters) \in Nat
      /\ DOMAIN waiters = 1..Len(waiters)
  BY LenProperties DEF TypeInv, TypeOK, ReplaceWaiter
<1> DEFINE n == Normalize(q)
           s(w) == [n EXCEPT !.admit = w.admit, !.owner = w.owner,
                             !.ownerAdmit = w.ownerAdmit, !.delay = w.delay,
                             !.priority = OverrideFor(overrides, w.id, w.owner, @)]
<1>1. PICK i \in DOMAIN waiters :
        /\ waiters[i].id = q.id
        /\ waiters' \in Arrangements([waiters EXCEPT ![i] = s(waiters[i])])
  BY DEF ReplaceWaiter, Sorted
<1>2. n \in Waiter /\ n.id = q.id /\ n.claims = q.claims
  BY <1>0, NormalizeFacts DEF Normalize
<1> HIDE DEF n
<1>3. waiters[i] \in Waiter
  BY <1>0
<1>4. OverrideFor(overrides, waiters[i].id, waiters[i].owner, n.priority) \in Int
  <2>1. n.priority \in Int
    BY <1>2 DEF Waiter
  <2> QED BY <1>0, <2>1, OverrideForType
<1> DEFINE v == s(waiters[i])
           queue == [waiters EXCEPT ![i] = v]
<1>5. v \in Waiter /\ SameRank(v, waiters[i]) /\ v.claims = q.claims
  BY <1>1, <1>2, <1>3, <1>4 DEF Waiter, SameRank
<1>6. waiters' \in Arrangements(queue)
  BY <1>1
<1> HIDE DEF s, v
<1>7. queue \in Seq(Waiter) /\ DOMAIN queue = DOMAIN waiters
  <2>1. queue \in [1..Len(waiters) -> Waiter]
    BY <1>0, <1>5
  <2> QED BY <1>0, <2>1, SeqDef
<1>8. \A j \in DOMAIN waiters : queue[j] = IF j = i THEN v ELSE waiters[j]
  BY <1>0
<1> HIDE DEF queue
<1>9. PICK j \in DOMAIN waiters : waiters'[k] = queue[j]
  BY <1>6, <1>7, ArrangementFacts
<1>10. waiters[i] \in Queued(waiters) /\ waiters[j] \in Queued(waiters)
  BY DEF Queued
<1>11. CASE j = i
  BY <1>5, <1>8, <1>9, <1>10, <1>11 DEF Stayed
<1>12. CASE j # i
  BY <1>8, <1>9, <1>10, <1>12 DEF Stayed, SameRank
<1> QED BY <1>11, <1>12

(* A re-ranked waiter keeps its identity and its ranks of admission. *)
LEMMA SetPriorityStays ==
  ASSUME TypeInv, NEW run \in Ids, NEW p \in Priorities, SetPriority(run, p),
         NEW k \in DOMAIN waiters'
  PROVE  Stayed(waiters'[k])
<1> DEFINE ranks == Put(overrides, run, p)
           ranked == [i \in DOMAIN waiters |->
             IF BelongsToRun(waiters[i].id, waiters[i].owner, run)
             THEN [waiters[i] EXCEPT !.priority =
                     OverrideFor(ranks, waiters[i].id, waiters[i].owner, p)]
             ELSE waiters[i]]
<1>0. /\ TypeOK /\ Len(waiters) \in Nat /\ DOMAIN waiters = 1..Len(waiters)
      /\ waiters \in [1..Len(waiters) -> Waiter]
  BY LenProperties DEF TypeInv, TypeOK
<1>1. /\ overrides' = ranks
      /\ waiters' = waiters \/ waiters' \in Arrangements(ranked)
  BY DEF SetPriority, Sorted
<1>2. /\ ranks \in [DOMAIN ranks -> Priorities]
  BY <1>0, <1>1 DEF TypeOK, Put
<1>3. \A w \in Waiter : OverrideFor(ranks, w.id, w.owner, p) \in Int
  BY <1>2, HostAssumption DEF OverrideFor
<1> HIDE DEF ranks
<1>4. ASSUME NEW i \in DOMAIN waiters
      PROVE  /\ ranked[i] \in Waiter
             /\ SameRank(ranked[i], waiters[i])
             /\ ranked[i].claims = waiters[i].claims
  <2>1. waiters[i] \in Waiter
    BY <1>0
  <2>2. OverrideFor(ranks, waiters[i].id, waiters[i].owner, p) \in Int
    BY <1>3, <2>1
  <2>3. \A x \in Int : LET v == [waiters[i] EXCEPT !.priority = x]
                       IN  /\ v \in Waiter /\ v.claims = waiters[i].claims
                           /\ v.id = waiters[i].id /\ v.owner = waiters[i].owner
                           /\ v.admit = waiters[i].admit
                           /\ v.ownerAdmit = waiters[i].ownerAdmit
    BY <2>1 DEF Waiter
  <2> QED BY <2>1, <2>2, <2>3 DEF SameRank
<1>5. ranked \in Seq(Waiter) /\ DOMAIN ranked = DOMAIN waiters
  <2>1. ranked \in [1..Len(waiters) -> Waiter]
    BY <1>0, <1>4
  <2> QED BY <1>0, <2>1, SeqDef
<1> HIDE DEF ranked
<1>6. CASE waiters' = waiters
  BY <1>6 DEF Stayed, Queued, SameRank
<1>7. CASE waiters' \in Arrangements(ranked)
  <2>1. PICK j \in DOMAIN waiters : waiters'[k] = ranked[j]
    BY <1>5, <1>7, ArrangementFacts
  <2>2. waiters[j] \in Queued(waiters)
    BY DEF Queued
  <2> QED BY <1>4, <2>1, <2>2 DEF Stayed
<1> QED BY <1>1, <1>6, <1>7

(* Whoever waits after a step waited before it or was submitted in it. *)
LEMMA StepWaiters ==
  ASSUME TypeInv, [Next]_vars
  PROVE  /\ \A k \in DOMAIN waiters' : Stayed(waiters'[k]) \/ Arrived(waiters'[k])
         /\ admitSeq' \in {admitSeq, admitSeq + 1}
<1> DEFINE Goal == /\ \A k \in DOMAIN waiters' : Stayed(waiters'[k]) \/ Arrived(waiters'[k])
                   /\ admitSeq' \in {admitSeq, admitSeq + 1}
<1>0. TypeOK /\ HoldsMatchClaims /\ waiters \in Seq(Waiter)
  BY DEF TypeInv, TypeOK
<1>a. ASSUME waiters' = waiters
      PROVE  \A k \in DOMAIN waiters' : Stayed(waiters'[k])
  BY <1>a DEF Stayed, Queued, SameRank
<1>n. \A q \in Requests : Normalize(q).admit = admitSeq + 1
  BY DEF Normalize
<1>1. ASSUME NEW q \in Requests, SubmitGranted(q) PROVE Goal
  <2>1. Submittable(q) /\ GrantFresh(Normalize(q), waiters)
    BY <1>1 DEF SubmitGranted
  <2>2. QueueFrom(Queued(waiters))
    BY <1>0, <2>1, GrantFreshFacts
  <2>3. admitSeq' = admitSeq + 1
    BY <1>n, <2>1 DEF GrantFresh
  <2> QED BY <2>2, <2>3, QueueStayed
<1>2. ASSUME NEW q \in Requests, SubmitQueued(q) PROVE Goal
  <2>1. Submittable(q) /\ Enqueue(Normalize(q), waiters, "check")
    BY <1>2 DEF SubmitQueued
  <2>2. QueueFrom(Queued(waiters) \cup {Normalize(q)})
    BY <1>0, <2>1, EnqueueFacts
  <2>3. admitSeq' = admitSeq + 1
    BY <1>n, <2>1 DEF Enqueue
  <2> QED BY <2>1, <2>2, <2>3, QueueArrived
<1>3. ASSUME NEW q \in Requests, SubmitAging(q) PROVE Goal
  <2>1. Submittable(q)
    BY <1>3 DEF SubmitAging
  <2>2. PICK queue \in Sorted(waiters, admitSeq + 1) :
          \/ GrantFresh(Normalize(q), queue)
          \/ Enqueue(Normalize(q), queue, "promote")
          \/ admitSeq' = Normalize(q).admit /\ waiters' = queue
    BY <1>3 DEF SubmitAging
  <2>3. queue \in Seq(Waiter) /\ Queued(queue) = Queued(waiters)
    BY <1>0, SortedFacts
  <2>4. admitSeq' = admitSeq + 1
    BY <1>n, <2>2 DEF GrantFresh, Enqueue
  <2>5. CASE GrantFresh(Normalize(q), queue)
    <3>1. QueueFrom(Queued(waiters))
      BY <1>0, <2>1, <2>3, <2>5, GrantFreshFacts
    <3> QED BY <2>4, <3>1, QueueStayed
  <2>6. CASE Enqueue(Normalize(q), queue, "promote")
    <3>1. QueueFrom(Queued(waiters) \cup {Normalize(q)})
      BY <1>0, <2>1, <2>3, <2>6, EnqueueFacts
    <3> QED BY <2>1, <2>4, <3>1, QueueArrived
  <2>7. CASE waiters' = queue
    <3>1. \A k \in DOMAIN waiters' : waiters'[k] \in Queued(waiters)
      BY <2>3, <2>7 DEF Queued
    <3> QED BY <2>4, <3>1 DEF Stayed, SameRank
  <2> QED BY <2>2, <2>5, <2>6, <2>7
<1>4. ASSUME NEW q \in Requests, ReplaceWaiter(q) PROVE Goal
  BY <1>4, ReplaceWaiterStays DEF ReplaceWaiter
<1>5. ASSUME NEW i \in DOMAIN waiters, CancelWaiter(i) PROVE Goal
  <2>1. QueueFrom(Queued(waiters)) /\ admitSeq' = admitSeq
    BY <1>5, CancelWaiterType DEF CancelWaiter
  <2> QED BY <2>1, QueueStayed
<1>6. ASSUME NEW l \in DOMAIN leases, NEW m,
             \/ ReleaseMember(l, m) \/ ReleaseLast(l, m)
             \/ Attach(l, m) \/ Depend(m, l)
      PROVE  Goal
  <2>1. waiters' = waiters /\ admitSeq' = admitSeq
    BY <1>6 DEF ReleaseMember, ReleaseLast, Attach, Depend
  <2> QED BY <1>a, <2>1
<1>7. ASSUME NEW h, SetHeadroom(h) \/ ResizeTotals(h) PROVE Goal
  <2>1. waiters' = waiters /\ admitSeq' = admitSeq
    BY <1>7 DEF SetHeadroom, ResizeTotals
  <2> QED BY <1>a, <2>1
<1>8. ASSUME NEW run \in Ids, NEW p \in Priorities, SetPriority(run, p) PROVE Goal
  BY <1>8, SetPriorityStays DEF SetPriority
<1>9. ASSUME Restore \/ Unlock PROVE Goal
  <2>1. waiters' = waiters /\ admitSeq' = admitSeq
    BY <1>9 DEF Restore, Unlock
  <2> QED BY <1>a, <2>1
<1>10. ASSUME NEW p \in Policies, SetSchedulingPolicy(p) PROVE Goal
  <2>1. waiters' \in Arrangements(waiters) /\ admitSeq' = admitSeq
    BY <1>10 DEF SetSchedulingPolicy
  <2>2. QueueFrom(Queued(waiters))
    BY <1>0, <2>1, RearrangedQueue
  <2> QED BY <2>1, <2>2, QueueStayed
<1>11. ASSUME Promote PROVE Goal
  <2>1. QueueFrom(Queued(waiters)) /\ admitSeq' = admitSeq
    BY <1>11, PromoteType DEF Promote
  <2> QED BY <2>1, QueueStayed
<1>12. CASE UNCHANGED vars
  <2>1. waiters' = waiters /\ admitSeq' = admitSeq
    BY <1>12 DEF vars
  <2> QED BY <1>a, <2>1
<1>13. CASE Next
  <2>1. Goal
    <3> HIDE DEF Goal
    <3> QED BY <1>13, <1>1, <1>2, <1>3, <1>4, <1>5, <1>6, <1>7, <1>8, <1>9, <1>10,
               <1>11 DEF Next
  <2> QED BY <2>1
<1> QED BY <1>12, <1>13

(* A step leaves all holdings alone, lets one request in, or frees a lease. *)
LEMMA StepLeases ==
  ASSUME TypeInv, WaitersBounded, [Next]_vars
  PROVE  \/ SameBooks
         \/ \E s : LetIn(s) /\ (s \in Queued(waiters) \/ Arrived(s))
         \/ \E l \in DOMAIN leases : \E m : ReleaseLast(l, m)
<1> DEFINE Goal == \/ SameBooks
                   \/ \E s : LetIn(s) /\ (s \in Queued(waiters) \/ Arrived(s))
                   \/ \E l \in DOMAIN leases : \E m : ReleaseLast(l, m)
<1>0. TypeOK /\ HoldsMatchClaims
  BY DEF TypeInv
<1>n. \A q \in Requests : Normalize(q).admit = admitSeq + 1
  BY DEF Normalize
<1>g. ASSUME NEW q \in Requests, Submittable(q), Fits(Normalize(q)),
             NEW queue, GrantFresh(Normalize(q), queue)
      PROVE  Goal
  <2>1. LetIn(Normalize(q)) /\ admitSeq' = admitSeq + 1
    BY <1>0, <1>n, <1>g, NormalizeFacts DEF LetIn, Submittable, GrantFresh
  <2> QED BY <1>g, <2>1, SubmittedArrives
<1>1. ASSUME NEW q \in Requests, SubmitGranted(q) PROVE Goal
  BY <1>1, <1>g DEF SubmitGranted, MayStart
<1>2. ASSUME NEW q \in Requests, SubmitQueued(q) PROVE Goal
  BY <1>0, <1>2, UnchangedBooks DEF SubmitQueued, Enqueue
<1>3. ASSUME NEW q \in Requests, SubmitAging(q) PROVE Goal
  <2>1. Submittable(q)
    BY <1>3 DEF SubmitAging
  <2>2. PICK queue \in Sorted(waiters, admitSeq + 1) :
          \/ MayStart(Normalize(q), queue, Normalize(q).admit)
             /\ GrantFresh(Normalize(q), queue)
          \/ UNCHANGED <<used, sems, leases, leaseSeq>>
    BY <1>3 DEF SubmitAging, Enqueue
  <2> QED BY <1>0, <1>g, <2>1, <2>2, UnchangedBooks DEF MayStart
<1>4. ASSUME NEW q \in Requests, ReplaceWaiter(q) PROVE Goal
  BY <1>0, <1>4, UnchangedBooks DEF ReplaceWaiter
<1>5. ASSUME NEW i \in DOMAIN waiters, CancelWaiter(i) PROVE Goal
  BY <1>0, <1>5, UnchangedBooks DEF CancelWaiter
<1>6. ASSUME NEW l \in DOMAIN leases, NEW m, ReleaseMember(l, m) \/ ReleaseLast(l, m)
      PROVE  Goal
  BY <1>0, <1>6, ReleaseMemberBooks
<1>7. ASSUME NEW l \in DOMAIN leases, NEW m \in Children, Attach(l, m) \/ Depend(m, l)
      PROVE  Goal
  BY <1>0, <1>7, AttachBooks, DependBooks
<1>8. ASSUME NEW h, SetHeadroom(h) \/ ResizeTotals(h) PROVE Goal
  BY <1>0, <1>8, UnchangedBooks DEF SetHeadroom, ResizeTotals
<1>9. ASSUME NEW run, NEW p, SetPriority(run, p) PROVE Goal
  BY <1>0, <1>9, UnchangedBooks DEF SetPriority
<1>10. ASSUME Restore \/ Unlock PROVE Goal
  BY <1>0, <1>10, UnchangedBooks DEF Restore, Unlock
<1>11. ASSUME NEW p, SetSchedulingPolicy(p) PROVE Goal
  BY <1>0, <1>11, UnchangedBooks DEF SetSchedulingPolicy
<1>12. ASSUME Promote PROVE Goal
  <2>1. PICK i \in DOMAIN waiters : Fits(waiters[i]) /\ Grant(waiters[i])
    BY <1>12 DEF Promote, IsNextPromotable, Promotable
  <2>2. waiters[i] \in Waiter
    BY <1>0 DEF TypeOK
  <2>3. UNCHANGED <<total, policy, burstFloor>>
    BY <1>12 DEF Promote
  <2>4. LetIn(waiters[i]) /\ waiters[i] \in Queued(waiters)
    BY <2>1, <2>2, <2>3 DEF LetIn, WaitersBounded, Queued
  <2> QED BY <2>4
<1>13. CASE UNCHANGED vars
  BY <1>0, <1>13, UnchangedBooks DEF vars
<1>14. CASE Next
  <2>1. Goal
    <3> HIDE DEF Goal
    <3> QED BY <1>14, <1>1, <1>2, <1>3, <1>4, <1>5, <1>6, <1>7, <1>8, <1>9, <1>10,
               <1>11, <1>12 DEF Next
  <2> QED BY <2>1
<1> QED BY <1>13, <1>14

-----------------------------------------------------------------------------
(* The books: what is counted as used is what the leases hold, and the     *)
(* holds on a key that are not superseded fit the least capacity among     *)
(* them.  Of the queue one fact is needed: a claim costs no more than its  *)
(* own capacity, so an evicting claim fits once everybody else is gone.    *)

ClaimsSound(x) == \A k \in Claimed(x) : x.claims[k].cost <= x.claims[k].capacity

(* The live holds on k fit the capacity each of them declared. *)
SemWithin(k) ==
  \A l \in LiveHolds(k) : HoldCost(k, LiveHolds(k)) <= sems[k][l].capacity

BooksInv ==
  /\ HostBooks
  /\ \A k \in Keys : SemWithin(k)
  /\ \A i \in DOMAIN waiters : ClaimsSound(waiters[i])

(* The leases and the holds are finite in number, and what is summed of    *)
(* them are naturals.                                                      *)
LEMMA FiniteBooks ==
  ASSUME TypeOK
  PROVE  /\ IsFiniteSet(DOMAIN leases) /\ DOMAIN leases \subseteq 1..leaseSeq
         /\ leaseSeq \in Nat
         /\ \A l \in DOMAIN leases : \A r \in Host : leases[l][r] \in Nat
         /\ \A k \in Keys :
              /\ IsFiniteSet(DOMAIN sems[k]) /\ LiveHolds(k) \subseteq DOMAIN sems[k]
              /\ IsFiniteSet(LiveHolds(k)) /\ LiveHolds(k) \subseteq 1..leaseSeq
              /\ \A l \in DOMAIN sems[k] : /\ sems[k][l].cost \in Nat
                                           /\ sems[k][l].capacity \in Nat
<1>0. leaseSeq \in Nat
  BY DEF TypeOK
<1>1. leaseSeq \in Nat /\ IsFiniteSet(1..leaseSeq)
  BY <1>0, FS_Interval
<1>2. IsFiniteSet(DOMAIN leases) /\ DOMAIN leases \subseteq 1..leaseSeq
  BY <1>1, FS_Subset DEF TypeOK
<1>3. \A l \in DOMAIN leases : \A r \in Host : leases[l][r] \in Nat
  <2>1. \A l \in DOMAIN leases : leases[l] \in Lease
    BY DEF TypeOK
  <2> QED BY <2>1 DEF Lease, Host
<1>4. ASSUME NEW k \in Keys
      PROVE  /\ IsFiniteSet(DOMAIN sems[k]) /\ LiveHolds(k) \subseteq DOMAIN sems[k]
             /\ IsFiniteSet(LiveHolds(k)) /\ LiveHolds(k) \subseteq 1..leaseSeq
             /\ \A l \in DOMAIN sems[k] : /\ sems[k][l].cost \in Nat
                                          /\ sems[k][l].capacity \in Nat
  <2>1. DOMAIN sems[k] \subseteq DOMAIN leases /\ sems[k] \in [DOMAIN sems[k] -> Hold]
    BY DEF TypeOK
  <2>2. IsFiniteSet(DOMAIN sems[k])
    BY <1>2, <2>1, FS_Subset
  <2>3. LiveHolds(k) \subseteq DOMAIN sems[k]
    BY DEF LiveHolds
  <2>4. IsFiniteSet(LiveHolds(k))
    BY <2>2, <2>3, FS_Subset
  <2>5. \A l \in DOMAIN sems[k] : /\ sems[k][l].cost \in Nat
                                  /\ sems[k][l].capacity \in Nat
    BY <2>1 DEF Hold
  <2> QED BY <1>2, <2>1, <2>2, <2>3, <2>4, <2>5
<1> QED BY <1>1, <1>2, <1>3, <1>4

(* What is held of a key is a natural, and a part of it is no more.        *)
LEMMA HoldCostFacts ==
  ASSUME TypeOK, NEW k \in Keys, NEW held \in SUBSET LiveHolds(k)
  PROVE  /\ HoldCost(k, held) \in Nat
         /\ HoldCost(k, held) <= HoldCost(k, LiveHolds(k))
<1> DEFINE live == LiveHolds(k)
           all == [l \in live |-> sems[k][l].cost]
           some == [l \in held |-> sems[k][l].cost]
<1>1. IsFiniteSet(live) /\ \A l \in live : sems[k][l].cost \in Nat
  BY FiniteBooks
<1>2. IsFiniteSet(held)
  BY <1>1, FS_Subset
<1>3. HoldCost(k, live) = SumFunctionOnSet(all, live)
  BY DEF HoldCost
<1>4. HoldCost(k, held) = SumFunctionOnSet(some, held)
  BY DEF HoldCost
<1>5. /\ \A l \in live : all[l] \in Nat
      /\ \A l \in held : some[l] \in Nat /\ all[l] = some[l]
  BY <1>1
<1> HIDE DEF all, some
<1>6. SumFunctionOnSet(some, held) = SumFunctionOnSet(all, held)
  BY <1>2, <1>5, SumSame
<1>7. /\ SumFunctionOnSet(all, live)
           = SumFunctionOnSet(all, held) + SumFunctionOnSet(all, live \ held)
      /\ SumFunctionOnSet(all, held) \in Nat
      /\ SumFunctionOnSet(all, live \ held) \in Nat
  <2> HIDE DEF live
  <2>1. held \in SUBSET live
    BY DEF live
  <2> QED BY <1>1, <1>5, <2>1, SumSplit
<1> QED BY <1>3, <1>4, <1>6, <1>7

(* What fits beside some holds fits the capacity of each of them.          *)
LEMMA FitsBesideFacts ==
  ASSUME TypeOK, NEW k \in Keys, NEW c \in Claim, NEW held \in SUBSET LiveHolds(k)
  PROVE  FitsBeside(k, c, held) <=>
           /\ HoldCost(k, held) + c.cost <= c.capacity
           /\ \A l \in held : HoldCost(k, held) + c.cost <= sems[k][l].capacity
<1> DEFINE caps == {sems[k][l].capacity : l \in held} \cup {c.capacity}
<1>1. HoldCost(k, held) \in Nat /\ c.cost \in Nat /\ c.capacity \in Nat
  BY HoldCostFacts DEF Claim
<1>2. \A l \in held : sems[k][l].capacity \in Nat
  BY FiniteBooks
<1>3. caps \in SUBSET Nat /\ caps # {}
  BY <1>1, <1>2
<1>4. /\ c.capacity \in caps /\ \A l \in held : sems[k][l].capacity \in caps
      /\ \A x \in caps : x = c.capacity \/ \E l \in held : x = sems[k][l].capacity
  OBVIOUS
<1>5. SemEffectiveCapacity(k, held, c.capacity) = Min(caps)
  BY DEF SemEffectiveCapacity
<1> HIDE DEF caps
<1>6. Min(caps) \in caps /\ \A y \in caps : Min(caps) <= y
  BY <1>3, MinIsLeast
<1> QED BY <1>1, <1>2, <1>3, <1>4, <1>5, <1>6 DEF FitsBeside

(* Once the holds it evicts are superseded, a claim fits beside the rest.  *)
LEMMA RoomForClaim ==
  ASSUME TypeOK, NEW k \in Keys, NEW c \in Claim, c.cost <= c.capacity,
         c.policy = "cancel_others" \/ SemBudgetFits(k, c)
  PROVE  FitsBeside(k, c, LiveHolds(k) \ Evicted(k, c))
<1> DEFINE live == LiveHolds(k)
           after(m) == {l \in live : l > m}
           enough == {m \in live \cup {0} : FitsBeside(k, c, after(m))}
<1>1. CASE c.policy # "cancel_others"
  <2>1. live \ Evicted(k, c) = live
    BY <1>1 DEF Evicted
  <2> QED BY <1>1, <2>1 DEF SemBudgetFits
<1>2. CASE c.policy = "cancel_others"
  <2>0. live \subseteq 1..leaseSeq /\ leaseSeq \in Nat
    BY FiniteBooks
  <2>1. PICK top \in live \cup {0} : after(top) = live \ live
    <3> DEFINE above == {n \in Nat : \A l \in live : l <= n}
    <3>1. above \in SUBSET Nat /\ leaseSeq \in above
      BY <2>0
    <3>2. PICK n \in above : \A x \in above : n <= x
      <4> HIDE DEF above
      <4> QED BY <3>1, LeastNatural
    <3>3. after(n) = live \ live
      BY <2>0
    <3>4. n \in live \cup {0}
      <4>1. SUFFICES ASSUME n \notin live, n # 0 PROVE FALSE
        OBVIOUS
      <4>2. n - 1 \in Nat
        BY <4>1
      <4>3. \A l \in live : l <= n - 1
        BY <2>0, <4>1
      <4>4. n - 1 \in above
        BY <4>2, <4>3
      <4> QED BY <3>2, <4>2, <4>4
    <3> QED BY <3>3, <3>4
  <2>2. FitsBeside(k, c, live \ live)
    <3> DEFINE e == live \ live
    <3>1. e \in SUBSET LiveHolds(k) /\ IsFiniteSet(e) /\ \A l \in e : FALSE
      BY FS_EmptySet
    <3>2. HoldCost(k, e) = 0
      <4> DEFINE f == [l \in e |-> sems[k][l].cost]
      <4>1. SumFunctionOnSet(f, e) = Cardinality(Units(e, f))
        <5>1. \A l \in e : f[l] \in Nat
          BY <3>1
        <5> HIDE DEF e, f
        <5> QED BY <3>1, <5>1, SumIsUnits
      <4>2. Units(e, f) = {}
        BY <3>1 DEF Units
      <4> QED BY <4>1, <4>2, FS_EmptySet DEF HoldCost
    <3> HIDE DEF e
    <3>3. c.cost \in Nat /\ c.capacity \in Nat
      BY DEF Claim
    <3>4. HoldCost(k, e) + c.cost <= c.capacity
      BY <3>2, <3>3
    <3>5. FitsBeside(k, c, e)
      BY <3>1, <3>4, FitsBesideFacts
    <3> QED BY <3>5 DEF e
  <2>3. enough \in SUBSET Nat /\ enough # {}
    <3>1. FitsBeside(k, c, after(top))
      BY <2>1, <2>2
    <3>2. top \in enough
      BY <3>1
    <3>3. live \cup {0} \subseteq Nat
      BY <2>0
    <3> QED BY <3>2, <3>3
  <2>4. Min(enough) \in enough
    <3> HIDE DEF enough
    <3> QED BY <2>3, MinIsLeast
  <2>5. FitsBeside(k, c, after(Min(enough))) /\ Min(enough) \in Nat
    BY <2>3, <2>4
  <2>6. Evicted(k, c) = {l \in live : l <= Min(enough)}
    BY <1>2 DEF Evicted
  <2> HIDE DEF enough
  <2>7. live \ Evicted(k, c) = after(Min(enough))
    BY <2>0, <2>5, <2>6
  <2> QED BY <2>5, <2>7
<1> QED BY <1>1, <1>2

(* The holds after a grant.                                                *)
LEMMA GrantHolds ==
  ASSUME TypeOK, HoldsMatchClaims, NEW s \in Waiter, Grant(s), NEW k \in Keys,
         NEW id, id = leaseSeq + 1
  PROVE  /\ k \notin Claimed(s) => sems'[k] = sems[k]
         /\ k \in Claimed(s) =>
              /\ LiveHolds(k)' = (LiveHolds(k) \ Evicted(k, s.claims[k])) \cup {id}
              /\ id \notin LiveHolds(k)
              /\ \A l \in LiveHolds(k) \ Evicted(k, s.claims[k]) :
                   sems'[k][l] = sems[k][l]
              /\ sems'[k][id].cost = s.claims[k].cost
              /\ sems'[k][id].capacity = s.claims[k].capacity
<1> DEFINE out == [j \in Claimed(s) |-> Evicted(j, s.claims[j])]
           new(j) == [cost |-> s.claims[j].cost, capacity |-> s.claims[j].capacity,
                      by |-> 0]
<1>1. sems' = [j \in Keys |->
           IF j \notin Claimed(s) THEN sems[j]
           ELSE [l \in DOMAIN sems[j] \cup {id} |->
                   IF l = id THEN new(j)
                   ELSE IF l \in out[j] THEN [sems[j][l] EXCEPT !.by = id]
                   ELSE sems[j][l]]]
  BY DEF Grant
<1>2. CASE k \notin Claimed(s)
  BY <1>1, <1>2
<1>3. CASE k \in Claimed(s)
  <2> DEFINE gone == Evicted(k, s.claims[k])
  <2>1. out[k] = gone
    BY <1>3
  <2> HIDE DEF gone, out
  <2>2. /\ DOMAIN sems'[k] = DOMAIN sems[k] \cup {id}
        /\ \A l \in DOMAIN sems[k] \cup {id} :
             sems'[k][l] = IF l = id THEN new(k)
                           ELSE IF l \in gone THEN [sems[k][l] EXCEPT !.by = id]
                           ELSE sems[k][l]
    BY <1>1, <1>3, <2>1
  <2>3. /\ new(k).by = 0 /\ new(k).cost = s.claims[k].cost
        /\ new(k).capacity = s.claims[k].capacity
    OBVIOUS
  <2> HIDE DEF new
  <2>4. /\ sems[k] \in [DOMAIN sems[k] -> Hold] /\ DOMAIN sems[k] \subseteq 1..leaseSeq
        /\ leaseSeq \in Nat
    BY DEF TypeOK
  <2>5. id \notin DOMAIN sems[k] /\ id # 0
    BY <2>4
  <2>6. \A l \in DOMAIN sems[k] : [sems[k][l] EXCEPT !.by = id].by = id
    BY <2>4 DEF Hold
  <2>7. LiveHolds(k)' = (LiveHolds(k) \ gone) \cup {id}
    <3>1. LiveHolds(k)' = {l \in DOMAIN sems'[k] : sems'[k][l].by = 0}
      BY DEF LiveHolds
    <3>2. LiveHolds(k) = {l \in DOMAIN sems[k] : sems[k][l].by = 0}
      BY DEF LiveHolds
    <3>3. sems'[k][id].by = 0
      BY <2>2, <2>3
    <3>4. ASSUME NEW l \in DOMAIN sems[k]
          PROVE  sems'[k][l].by = 0 <=> sems[k][l].by = 0 /\ l \notin gone
      <4>1. CASE l \in gone
        <5>1. sems'[k][l] = [sems[k][l] EXCEPT !.by = id]
          BY <2>2, <2>5, <4>1
        <5>2. sems'[k][l].by = id
          BY <2>6, <5>1
        <5> QED BY <2>5, <4>1, <5>2
      <4>2. CASE l \notin gone
        BY <2>2, <2>5, <4>2
      <4> QED BY <4>1, <4>2
    <3> QED BY <2>2, <2>5, <3>1, <3>2, <3>3, <3>4
  <2>8. LiveHolds(k) \subseteq DOMAIN sems[k]
    BY DEF LiveHolds
  <2>9. \A l \in LiveHolds(k) \ gone : sems'[k][l] = sems[k][l]
    BY <2>2, <2>5, <2>8
  <2>10. sems'[k][id] = new(k)
    BY <2>2
  <2> QED BY <1>3, <2>3, <2>5, <2>7, <2>8, <2>9, <2>10 DEF gone
<1> QED BY <1>2, <1>3

(* Who is let in is accounted for.                                         *)
LEMMA LetInBooks ==
  ASSUME TypeInv, BooksInv, NEW s, LetIn(s), ClaimsSound(s)
  PROVE  HostBooks' /\ \A k \in Keys : SemWithin(k)'
<1>id. PICK id : id = leaseSeq + 1
  OBVIOUS
<1>0. TypeOK /\ HoldsMatchClaims /\ s \in Waiter /\ Fits(s) /\ Grant(s)
  BY DEF TypeInv, LetIn
<1>1. /\ id \notin DOMAIN leases
      /\ DOMAIN leases' = DOMAIN leases \cup {id}
      /\ leases'[id] = NewLease(s)
      /\ \A l \in DOMAIN leases : SameHolding(leases'[l], leases[l])
      /\ used' = [r \in Host |-> used[r] + s[r]]
  BY <1>id, <1>0, GrantFacts
<1>2. ASSUME NEW r \in Host
      PROVE  used'[r] = UsedOf(r, DOMAIN leases)'
  <2> DEFINE old == [l \in DOMAIN leases |-> leases[l][r]]
             now == [l \in DOMAIN leases' |-> leases'[l][r]]
  <2>1. /\ used[r] = SumFunctionOnSet(old, DOMAIN leases)
        /\ UsedOf(r, DOMAIN leases)' = SumFunctionOnSet(now, DOMAIN leases')
    BY DEF BooksInv, HostBooks, UsedOf
  <2>2. /\ IsFiniteSet(DOMAIN leases)
        /\ \A l \in DOMAIN leases : leases[l][r] \in Nat
    BY <1>0, FiniteBooks
  <2>3. \A l \in DOMAIN leases : leases'[l][r] = leases[l][r]
    BY <1>1 DEF SameHolding, Host
  <2>4. leases'[id][r] = s[r] /\ s[r] \in Nat
    BY <1>0, <1>1 DEF NewLease, Host, Waiter
  <2>5. /\ \A l \in DOMAIN leases : old[l] \in Nat /\ now[l] = old[l]
        /\ now[id] = s[r] /\ now[id] \in Nat
    BY <1>1, <2>2, <2>3, <2>4
  <2> HIDE DEF old, now
  <2>6. SumFunctionOnSet(now, DOMAIN leases \cup {id})
          = SumFunctionOnSet(old, DOMAIN leases) + now[id]
    BY <1>1, <2>2, <2>5, SumGrows
  <2> QED BY <1>1, <2>1, <2>5, <2>6
<1>3. ASSUME NEW k \in Keys, k \notin Claimed(s)
      PROVE  SemWithin(k)'
  <2>1. sems'[k] = sems[k] /\ SemWithin(k)
    BY <1>id, <1>0, <1>3, GrantHolds DEF BooksInv
  <2> QED BY <2>1 DEF SemWithin, LiveHolds, HoldCost
<1>4. ASSUME NEW k \in Claimed(s)
      PROVE  SemWithin(k)'
  <2> DEFINE c == s.claims[k]
             rest == LiveHolds(k) \ Evicted(k, c)
             old == [l \in rest |-> sems[k][l].cost]
             now == [l \in rest \cup {id} |-> sems'[k][l].cost]
  <2>0. k \in Keys /\ c \in Claim /\ c.cost <= c.capacity /\ c.cost \in Nat
        /\ c.capacity \in Nat
    <3>1. s.claims \in Claims
      BY <1>0 DEF Waiter
    <3>2. k \in Keys /\ c \in Claim
      BY <3>1, ClaimType
    <3> QED BY <3>2 DEF ClaimsSound, Claim
  <2>1. c.policy = "cancel_others" \/ SemBudgetFits(k, c)
    BY <1>0 DEF Fits
  <2>2. /\ LiveHolds(k)' = rest \cup {id}
        /\ id \notin rest
        /\ \A l \in rest : sems'[k][l] = sems[k][l]
        /\ sems'[k][id].cost = c.cost /\ sems'[k][id].capacity = c.capacity
    BY <1>id, <1>0, <2>0, GrantHolds
  <2> HIDE DEF c
  <2>3. FitsBeside(k, c, rest)
    BY <1>0, <2>0, <2>1, RoomForClaim
  <2>4. rest \in SUBSET LiveHolds(k)
    OBVIOUS
  <2>5. IsFiniteSet(rest) /\ \A l \in rest : sems[k][l].cost \in Nat
    BY <1>0, <2>0, <2>4, FiniteBooks, FS_Subset
  <2> HIDE DEF rest
  <2>6. /\ HoldCost(k, rest) + c.cost <= c.capacity
        /\ \A l \in rest : HoldCost(k, rest) + c.cost <= sems[k][l].capacity
    BY <1>0, <2>0, <2>3, <2>4, FitsBesideFacts
  <2>7. /\ HoldCost(k, rest) = SumFunctionOnSet(old, rest)
        /\ HoldCost(k, LiveHolds(k))' = SumFunctionOnSet(now, rest \cup {id})
    BY <2>2 DEF HoldCost
  <2>8. /\ \A l \in rest : old[l] \in Nat /\ now[l] = old[l]
        /\ now[id] = c.cost /\ now[id] \in Nat
    BY <2>0, <2>2, <2>5
  <2> HIDE DEF old, now
  <2>9. SumFunctionOnSet(now, rest \cup {id}) = SumFunctionOnSet(old, rest) + now[id]
    <3>1. IsFiniteSet(rest) /\ id \notin rest
      BY <2>2, <2>5
    <3>2. now[id] \in Nat /\ \A l \in rest : old[l] \in Nat /\ now[l] = old[l]
      BY <2>8
    <3>3. ASSUME NEW S, NEW x, NEW f, NEW g, IsFiniteSet(S), x \notin S,
                 g[x] \in Nat, \A y \in S : f[y] \in Nat /\ g[y] = f[y]
          PROVE  SumFunctionOnSet(g, S \cup {x}) = SumFunctionOnSet(f, S) + g[x]
      BY <3>3, SumGrows
    <3> QED BY <3>1, <3>2, <3>3
  <2>10. HoldCost(k, LiveHolds(k))' = HoldCost(k, rest) + c.cost
    BY <2>7, <2>8, <2>9
  <2>11. \A l \in rest \cup {id} : HoldCost(k, LiveHolds(k))' <= sems'[k][l].capacity
    BY <2>2, <2>6, <2>10
  <2> QED BY <2>2, <2>11 DEF SemWithin
<1>5. HostBooks'
  BY <1>2 DEF HostBooks
<1> QED BY <1>3, <1>4, <1>5

(* Freeing a lease takes it off the books.                                 *)
LEMMA ReleaseLastBooks ==
  ASSUME TypeInv, BooksInv, NEW f \in DOMAIN leases, NEW m, ReleaseLast(f, m)
  PROVE  HostBooks' /\ \A k \in Keys : SemWithin(k)'
<1>0. TypeOK /\ HoldsMatchClaims
  BY DEF TypeInv
<1>1. /\ DOMAIN leases' = DOMAIN leases \ {f}
      /\ \A o \in DOMAIN leases' : SameHolding(leases'[o], leases[o])
      /\ used' = [r \in Host |-> used[r] - leases[f][r]]
  BY <1>0, ReleaseLastFacts
<1>2. ASSUME NEW r \in Host
      PROVE  used'[r] = UsedOf(r, DOMAIN leases)'
  <2> DEFINE old == [l \in DOMAIN leases |-> leases[l][r]]
             now == [l \in DOMAIN leases' |-> leases'[l][r]]
  <2>1. /\ used[r] = SumFunctionOnSet(old, DOMAIN leases)
        /\ UsedOf(r, DOMAIN leases)' = SumFunctionOnSet(now, DOMAIN leases')
    BY DEF BooksInv, HostBooks, UsedOf
  <2>2. /\ IsFiniteSet(DOMAIN leases)
        /\ \A l \in DOMAIN leases : leases[l][r] \in Nat
    BY <1>0, FiniteBooks
  <2>3. \A l \in DOMAIN leases \ {f} : leases'[l][r] = leases[l][r]
    BY <1>1 DEF SameHolding, Host
  <2>4. /\ \A l \in DOMAIN leases : old[l] \in Nat
        /\ \A l \in DOMAIN leases \ {f} : now[l] = old[l]
        /\ old[f] = leases[f][r] /\ leases[f][r] \in Nat
    BY <1>1, <2>2, <2>3
  <2> HIDE DEF old, now
  <2>5. /\ SumFunctionOnSet(old, DOMAIN leases)
             = SumFunctionOnSet(now, DOMAIN leases \ {f}) + old[f]
        /\ SumFunctionOnSet(now, DOMAIN leases \ {f}) \in Nat
    BY <2>2, <2>4, SumShrinks
  <2>6. used'[r] = used[r] - leases[f][r]
    BY <1>1
  <2> QED BY <1>1, <2>1, <2>4, <2>5, <2>6
<1>3. ASSUME NEW k \in Keys
      PROVE  SemWithin(k)'
  <2> DEFINE live == LiveHolds(k)
             rest == live \ {f}
             now == [l \in rest |-> sems'[k][l].cost]
  <2>1. sems'[k] = IF k \in Claimed(leases[f]) THEN DropHold(k, f) ELSE sems[k]
    BY DEF ReleaseLast
  <2>2. k \notin Claimed(leases[f]) => f \notin DOMAIN sems[k]
    BY <1>0 DEF HoldsMatchClaims
  <2>3. /\ DOMAIN sems'[k] = DOMAIN sems[k] \ {f}
        /\ \A l \in DOMAIN sems[k] \ {f} : sems'[k][l] = sems[k][l]
    BY <2>1, <2>2 DEF DropHold
  <2>4. LiveHolds(k)' = rest /\ rest \in SUBSET LiveHolds(k)
    BY <2>3 DEF LiveHolds
  <2>5. \A l \in rest : sems'[k][l] = sems[k][l]
    BY <2>3 DEF LiveHolds
  <2>6. HoldCost(k, LiveHolds(k))' = HoldCost(k, rest)
    <3>1. HoldCost(k, LiveHolds(k))' = SumFunctionOnSet(now, rest)
      BY <2>4 DEF HoldCost
    <3>2. now = [l \in rest |-> sems[k][l].cost]
      BY <2>5
    <3> HIDE DEF now
    <3> QED BY <3>1, <3>2 DEF HoldCost
  <2>7. \A l \in live : /\ HoldCost(k, live) <= sems[k][l].capacity
                        /\ sems[k][l].capacity \in Nat
    BY <1>0, FiniteBooks DEF BooksInv, SemWithin
  <2>8. HoldCost(k, rest) \in Nat /\ HoldCost(k, rest) <= HoldCost(k, live)
    BY <1>0, <2>4, HoldCostFacts
  <2>8a. HoldCost(k, live) \in Nat
    BY <1>0, HoldCostFacts
  <2>9. ASSUME NEW l \in rest
        PROVE  HoldCost(k, rest) <= sems[k][l].capacity
    BY <2>7, <2>8, <2>8a
  <2>10. \A l \in rest : HoldCost(k, LiveHolds(k))' <= sems'[k][l].capacity
    BY <2>5, <2>6, <2>9
  <2> QED BY <2>4, <2>10 DEF SemWithin
<1>4. HostBooks'
  BY <1>2 DEF HostBooks
<1> QED BY <1>3, <1>4

(* A step that changes no holding changes no sum.                          *)
LEMMA SameBooksBalance ==
  ASSUME TypeInv, BooksInv, SameBooks
  PROVE  HostBooks' /\ \A k \in Keys : SemWithin(k)'
<1>1. ASSUME NEW r \in Host
      PROVE  used'[r] = UsedOf(r, DOMAIN leases)'
  <2>1. [l \in DOMAIN leases' |-> leases'[l][r]] = [l \in DOMAIN leases |-> leases[l][r]]
    BY DEF SameBooks, SameHolding, Host
  <2>2. used'[r] = used[r] /\ DOMAIN leases' = DOMAIN leases
    BY DEF SameBooks
  <2>3. used[r] = SumFunctionOnSet([l \in DOMAIN leases |-> leases[l][r]], DOMAIN leases)
    BY DEF BooksInv, HostBooks, UsedOf
  <2>4. UsedOf(r, DOMAIN leases)'
          = SumFunctionOnSet([l \in DOMAIN leases' |-> leases'[l][r]], DOMAIN leases')
    BY DEF UsedOf
  <2> QED BY <2>1, <2>2, <2>3, <2>4
<1>2. ASSUME NEW k \in Keys
      PROVE  SemWithin(k)'
  <2>1. sems'[k] = sems[k] /\ SemWithin(k)
    BY DEF SameBooks, BooksInv
  <2> QED BY <2>1 DEF SemWithin, LiveHolds, HoldCost
<1> QED BY <1>1, <1>2 DEF HostBooks

(* Whoever waits has claims that fit their own capacity.                   *)
LEMMA QueueSound ==
  ASSUME TypeInv, BooksInv, [Next]_vars, NEW i \in DOMAIN waiters'
  PROVE  ClaimsSound(waiters'[i])
<1>1. Stayed(waiters'[i]) \/ Arrived(waiters'[i])
  BY StepWaiters
<1>2. \A w \in Queued(waiters) : ClaimsSound(w)
  BY DEF BooksInv, Queued
<1>3. \A q \in Requests : ClaimsSound(q)
  BY RequestAssumption DEF ClaimsSound
<1>4. \/ \E w \in Queued(waiters) : waiters'[i].claims = w.claims
      \/ \E q \in Requests : waiters'[i].claims = q.claims
  BY <1>1 DEF Stayed, Arrived
<1> QED BY <1>2, <1>3, <1>4 DEF ClaimsSound, Claimed

LEMMA InitBooks == Init => BooksInv
<1> SUFFICES ASSUME Init PROVE BooksInv
  OBVIOUS
<1>1. DOMAIN leases = {} /\ DOMAIN waiters = {} /\ \A k \in Keys : DOMAIN sems[k] = {}
  BY DEF Init, EmptyFcn
<1>2. ASSUME NEW r \in Host
      PROVE  used[r] = UsedOf(r, DOMAIN leases)
  <2> DEFINE f == [l \in DOMAIN leases |-> leases[l][r]]
  <2>1. IsFiniteSet(DOMAIN leases) /\ \A l \in DOMAIN leases : f[l] \in Nat
    BY <1>1, FS_EmptySet
  <2>2. UsedOf(r, DOMAIN leases) = SumFunctionOnSet(f, DOMAIN leases)
    BY DEF UsedOf
  <2> HIDE DEF f
  <2>3. SumFunctionOnSet(f, DOMAIN leases) = Cardinality(Units(DOMAIN leases, f))
    BY <2>1, SumIsUnits
  <2>4. Units(DOMAIN leases, f) = {}
    BY <1>1 DEF Units
  <2>5. used[r] = 0
    BY DEF Init
  <2> QED BY <2>2, <2>3, <2>4, <2>5, FS_EmptySet
<1>3. \A k \in Keys : SemWithin(k)
  BY <1>1 DEF SemWithin, LiveHolds
<1> QED BY <1>1, <1>2, <1>3 DEF BooksInv, HostBooks

LEMMA NextBooks == TypeInv /\ HostInv /\ BooksInv /\ [Next]_vars => BooksInv'
<1> SUFFICES ASSUME TypeInv, HostInv, BooksInv, [Next]_vars PROVE BooksInv'
  OBVIOUS
<1>1. \A i \in DOMAIN waiters' : ClaimsSound(waiters'[i])
  BY QueueSound
<1>2. HostBooks' /\ \A k \in Keys : SemWithin(k)'
  <2>1. CASE SameBooks
    BY <2>1, SameBooksBalance
  <2>2. ASSUME NEW s, LetIn(s), s \in Queued(waiters) \/ Arrived(s)
        PROVE  HostBooks' /\ \A k \in Keys : SemWithin(k)'
    <3>1. \A w \in Queued(waiters) : ClaimsSound(w)
      BY DEF BooksInv, Queued
    <3>2. Arrived(s) => ClaimsSound(s)
      BY RequestAssumption DEF ClaimsSound, Arrived, Claimed
    <3> QED BY <2>2, <3>1, <3>2, LetInBooks
  <2>3. ASSUME NEW l \in DOMAIN leases, NEW m, ReleaseLast(l, m)
        PROVE  HostBooks' /\ \A k \in Keys : SemWithin(k)'
    BY <2>3, ReleaseLastBooks
  <2>4. WaitersBounded
    BY DEF HostInv
  <2> QED BY <2>1, <2>2, <2>3, <2>4, StepLeases
<1> QED BY <1>1, <1>2 DEF BooksInv

LEMMA BooksInvBounds == TypeInv /\ BooksInv => SemaphoreBounds
<1> SUFFICES ASSUME TypeInv, BooksInv, NEW k \in Keys, LiveHolds(k) # {}
             PROVE  HoldCost(k, LiveHolds(k))
                      <= Min({sems[k][l].capacity : l \in LiveHolds(k)})
  BY DEF SemaphoreBounds
<1> DEFINE caps == {sems[k][l].capacity : l \in LiveHolds(k)}
<1>1. \A l \in LiveHolds(k) : /\ sems[k][l].capacity \in Nat
                              /\ HoldCost(k, LiveHolds(k)) <= sems[k][l].capacity
  BY FiniteBooks DEF TypeInv, BooksInv, SemWithin
<1>2. caps \in SUBSET Nat /\ caps # {} /\ \A x \in caps : HoldCost(k, LiveHolds(k)) <= x
  BY <1>1
<1> HIDE DEF caps
<1>3. Min(caps) \in caps
  BY <1>2, MinIsLeast
<1>4. HoldCost(k, LiveHolds(k)) <= Min(caps)
  BY <1>2, <1>3
<1> QED BY <1>4 DEF caps

(* Whatever the operations, the books, the host's bounds and the types     *)
(* hold together (grant, free and the promote loop).                       *)
THEOREM BooksInvariance == Spec => [](TypeInv /\ HostInv /\ BooksInv)
<1>1. Init => TypeInv /\ HostInv /\ BooksInv
  BY InitType, InitHost, InitBooks
<1>2. TypeInv /\ HostInv /\ BooksInv /\ [Next]_vars => (TypeInv /\ HostInv /\ BooksInv)'
  BY NextType, NextHost, NextBooks
<1> QED BY <1>1, <1>2, PTL DEF Spec

(* The books balance in every reachable state: the cores and the memory    *)
(* counted as used are the sums over the live leases.  hostInvariant makes *)
(* the ledger panic on any difference; grant and free are the only code    *)
(* that adds to the counters or takes from them.                           *)
THEOREM HostBooksBalance == Spec => []HostBooks
<1>1. BooksInv => HostBooks
  BY DEF BooksInv
<1> QED BY <1>1, BooksInvariance, PTL

(* The holds on a key that are not superseded fit the least capacity any   *)
(* of them declared, although holders declare different capacities and a   *)
(* cancel_others claim starts over holders it supersedes (semBudgetFits,   *)
(* evictForClaim, semaphoreInvariants).                                    *)
THEOREM SemaphoresWithinCapacity == Spec => []SemaphoreBounds
BY BooksInvariance, BooksInvBounds, PTL

=============================================================================
