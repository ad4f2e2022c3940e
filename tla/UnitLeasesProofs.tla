-------------------------- MODULE UnitLeasesProofs --------------------------
(***************************************************************************)
(* What TLAPS proves about the leases of a job, for every value of the     *)
(* constants: the row is sound, work is covered by the lease, a live claim *)
(* stays, and store and hosts together implement UnitWork.                 *)
(***************************************************************************)
EXTENDS UnitLeases, FiniteSetTheorems, SequenceTheorems, TLAPS

-----------------------------------------------------------------------------
(* The inductive invariant.                                                *)

(* The row and its attempts.                                               *)
AttemptsInv ==
  /\ row.attempt = Len(attempts)
  /\ \A i \in DOMAIN attempts :
       /\ attempts[i].outcome = "open" <=> row.state = "running" /\ i = Len(attempts)
       /\ attempts[i].gen <= row.gen
       /\ row.state = "claimed" => attempts[i].gen < row.gen
       /\ \A j \in 1..i : attempts[j].gen <= attempts[i].gen
  /\ row.state = "running" => attempts # <<>> /\ attempts[Len(attempts)].gen = row.gen

(* Its budgets, and the command it records.                                *)
BudgetInv ==
  /\ row.disruptions = MaxDisruptions => row.state = "failed"
  /\ row.cancel => Held(row) \/ Done(row)
  /\ row.last.op \in {"start", "retry"} =>
       row.state = "running" /\ row.gen = row.last.gen /\ row.attempt = row.last.attempt + 1
  /\ row.last.op = "report" => row.state = row.last.to

RowInv == AttemptsInv /\ BudgetInv /\ ApplicationRetries <= Retries

Early(h) == h.pc \in {"awarded", "joining", "idle"}
Asks(h) == h.pc = "waiting" /\ h.cmd.op \in {"start", "retry"}
Covered(h) == h.pc \in {"idle", "executing"} \/ Asks(h)

(* A host that works, may start or waits to go on is covered by its lease; *)
(* so is one whose first renewal was kept.                                 *)
LeaseInv(g) ==
  LET h == host[g]
  IN /\ Covered(h) => Held(row) /\ row.gen = g /\ h.fence \in 1..row.ttl
     /\ (Covered(h) \/ h.pc = "joining") /\ h.beat.phase = "kept" /\ h.beat.ttl > 0 =>
          Held(row) /\ row.gen = g /\ h.beat.ttl <= row.ttl
     /\ h.pc = "awarded" => h.fence = 0 /\ h.beat = NoBeat

(* What a host knows of the row.                                           *)
KnownInv(g) ==
  LET h == host[g]
  IN /\ h.pc = "none" => h = NoHost
     /\ h.pc # "none" => g <= row.gen
     /\ h.pc = "waiting" => h.cmd \in net /\ h.cmd.gen = g /\ h.cmd.attempt = h.attempt
     /\ Early(h) /\ Held(row) /\ row.gen = g => row.state = "claimed" /\ row.attempt = h.attempt
     /\ h.pc = "executing" => row.state = "running" /\ row.attempt = h.attempt
     /\ Asks(h) => row.attempt \in {h.attempt, h.attempt + 1}
     /\ Asks(h) /\ h.answer = "ok" => row.attempt = h.attempt + 1 /\ row.state = "running"
     /\ h.pc = "waiting" /\ h.cmd.op = "report" /\ h.answer = "ok" => row.state = h.cmd.to
     /\ h.told # "none" => row.state = h.told

(* What a host did.                                                        *)
DoneInv(g) ==
  LET h == host[g]
  IN /\ h.begun # 0 => h.begun <= row.attempt /\ attempts[h.begun].gen = g
     /\ h.passed <= h.begun
     /\ Early(h) => h.begun = 0
     /\ Asks(h) => h.begun <= h.attempt
     /\ h.pc = "executing" => h.begun = h.attempt /\ h.attempt # 0

(* A command on its way is of an earlier attempt, or of a host that waits  *)
(* for it or has ended.                                                    *)
NetInv(c) ==
  LET h == host[c.gen]
  IN /\ h.pc \in {"waiting", "executing", "gone"}
     /\ \/ h.pc = "gone" \/ (h.pc = "waiting" /\ h.cmd = c)
        \/ c.op \in {"start", "retry"} /\ c.attempt < h.attempt
     /\ c.op = "report" => c.to \in Outcomes
     /\ c.op \in Released => c.to = "none"
     /\ c.op = "report" /\ c.to = "success" =>
          c.attempt # 0 /\ h.passed = c.attempt /\ h.begun = c.attempt

OwnInv(g) == LeaseInv(g) /\ KnownInv(g) /\ DoneInv(g)
HostInv == \A g \in Gens : OwnInv(g)
NetsInv == \A c \in net : NetInv(c)

IInv == TypeOK /\ RowInv /\ HostInv /\ NetsInv
-----------------------------------------------------------------------------
(* Numbers and sequences.                                                  *)

(* A nonempty set of naturals has a least element.                         *)
LEMMA LeastElement ==
  ASSUME NEW T \in SUBSET Nat, T # {}
  PROVE  \E x \in T : \A y \in T : x <= y
<1> DEFINE Before == {p \in Nat \X Nat : p[1] < p[2]}
<1>1. IsWellFoundedOn(Before, Nat)
  BY NatLessThanWellFounded DEF OpToRel
<1>2. PICK x \in T : \A y \in T : <<y, x>> \notin Before
  <2> HIDE DEF Before
  <2> QED BY <1>1, WFMin
<1>3. \A y \in T : <<y, x>> \in Nat \X Nat
  OBVIOUS
<1>4. \A y \in T : ~(y < x)
  BY <1>2, <1>3
<1> QED BY <1>4

(* Most is the greatest value of a function on generations, or 0.          *)
LEMMA MostIsGreatest ==
  ASSUME NEW f \in [Gens -> 0..MaxAttempts], NEW n \in Nat,
         \A g \in Gens : f[g] <= n,
         n = 0 \/ \E g \in Gens : f[g] = n
  PROVE  Most(f) = n
<1> DEFINE all == {f[g] : g \in Gens} \cup {0}
<1>1. n \in all /\ \A m \in all : m <= n
  OBVIOUS
<1>2. \A k \in all : k \in Nat
  BY UnitAssumption DEF MaxAttempts
<1>3. \A k \in all : (\A m \in all : m <= k) => k = n
  BY <1>1, <1>2
<1> QED BY <1>1, <1>3 DEF Most

(* There is a greatest value: the least upper bound is one of them.        *)
LEMMA MostExists ==
  ASSUME NEW f \in [Gens -> 0..MaxAttempts]
  PROVE  /\ Most(f) \in 0..MaxAttempts
         /\ \A g \in Gens : f[g] <= Most(f)
         /\ Most(f) = 0 \/ \E g \in Gens : f[g] = Most(f)
<1> DEFINE above == {n \in Nat : \A g \in Gens : f[g] <= n}
<1>1. MaxAttempts \in Nat
  BY UnitAssumption DEF MaxAttempts
<1>2. MaxAttempts \in above
  BY <1>1
<1>3. PICK n \in above : \A m \in above : n <= m
  BY <1>2, LeastElement
<1>4. n = 0 \/ \E g \in Gens : f[g] = n
  <2> SUFFICES ASSUME n # 0, \A g \in Gens : f[g] # n PROVE FALSE
    OBVIOUS
  <2>1. n - 1 \in above
    BY <1>1
  <2> QED BY <2>1, <1>3
<1>5. Most(f) = n
  <2> HIDE DEF above
  <2>1. n \in Nat /\ \A g \in Gens : f[g] <= n
    BY DEF above
  <2> QED BY <2>1, <1>4, MostIsGreatest
<1>6. n <= MaxAttempts
  BY <1>2, <1>3
<1> QED BY <1>4, <1>5, <1>6, <1>1

(* The generations of a sequence of attempts.                              *)
GensOf(s) == {s[i].gen : i \in DOMAIN s}

(* A job is tried under at most as many generations as were awarded.       *)
LEMMA GensOfBound ==
  ASSUME NEW s \in Seq(Attempts)
  PROVE  /\ IsFiniteSet(GensOf(s)) /\ Cardinality(GensOf(s)) \in Nat
         /\ Cardinality(GensOf(s)) <= MaxGeneration
<1>1. GensOf(s) \in SUBSET Gens
  <2>1. \A i \in DOMAIN s : s[i] \in Attempts
    OBVIOUS
  <2> QED BY <2>1 DEF GensOf, Attempts
<1>2. IsFiniteSet(Gens) /\ Cardinality(Gens) = MaxGeneration
  BY UnitAssumption, FS_Interval DEF Gens
<1>3. IsFiniteSet(GensOf(s)) /\ Cardinality(GensOf(s)) <= Cardinality(Gens)
  BY <1>1, <1>2, FS_Subset
<1> QED BY <1>2, <1>3, FS_CardinalityType

(* Opening an attempt adds its generation.                                 *)
LEMMA GensOfOpened ==
  ASSUME NEW s \in Seq(Attempts), NEW g \in Gens
  PROVE  /\ Append(s, Open(g)) \in Seq(Attempts)
         /\ GensOf(Append(s, Open(g))) = GensOf(s) \cup {g}
<1> DEFINE t == Append(s, Open(g))
<1>1. t \in Seq(Attempts) /\ Len(t) = Len(s) + 1 /\ DOMAIN t = 1..(Len(s) + 1)
      /\ DOMAIN s = 1..Len(s) /\ Len(s) \in Nat
  BY DEF Open, Attempts
<1>2. \A i \in 1..Len(s) : t[i] = s[i]
  OBVIOUS
<1>3. t[Len(s) + 1] = Open(g)
  OBVIOUS
<1>4. Open(g).gen = g
  BY DEF Open
<1>5. GensOf(t) \subseteq GensOf(s) \cup {g}
  BY <1>1, <1>2, <1>3, <1>4 DEF GensOf
<1>6. GensOf(s) \cup {g} \subseteq GensOf(t)
  <2>1. \A i \in DOMAIN s : s[i].gen \in GensOf(t)
    BY <1>1, <1>2 DEF GensOf
  <2>2. g \in GensOf(t)
    BY <1>1, <1>3, <1>4 DEF GensOf
  <2> QED BY <2>1, <2>2 DEF GensOf
<1> QED BY <1>1, <1>5, <1>6

(* Closing the latest attempt changes its outcome and nothing else.        *)
LEMMA ClosedFacts ==
  ASSUME attempts \in Seq(Attempts), attempts # <<>>, NEW o \in Outcomes
  PROVE  /\ Closed(o) \in Seq(Attempts) /\ Len(Closed(o)) = Len(attempts)
         /\ DOMAIN Closed(o) = DOMAIN attempts
         /\ \A i \in DOMAIN attempts : Closed(o)[i].gen = attempts[i].gen
         /\ \A i \in DOMAIN attempts :
              Closed(o)[i].outcome = IF i = Len(attempts) THEN o ELSE attempts[i].outcome
         /\ GensOf(Closed(o)) = GensOf(attempts)
<1>1. Len(attempts) \in Nat \ {0} /\ DOMAIN attempts = 1..Len(attempts)
  OBVIOUS
<1>2. \A i \in DOMAIN attempts : attempts[i] \in Attempts
  OBVIOUS
<1>3. \A i \in DOMAIN attempts :
        Closed(o)[i] = IF i = Len(attempts) THEN [attempts[i] EXCEPT !.outcome = o]
                       ELSE attempts[i]
  BY <1>1 DEF Closed
<1>4. \A i \in DOMAIN attempts : Closed(o)[i] \in Attempts
  BY <1>2, <1>3 DEF Attempts
<1>5. DOMAIN Closed(o) = 1..Len(attempts)
  BY <1>1 DEF Closed
<1>6. Closed(o) \in Seq(Attempts) /\ Len(Closed(o)) = Len(attempts)
  BY <1>1, <1>4, <1>5 DEF Closed
<1>7. \A i \in DOMAIN attempts : Closed(o)[i].gen = attempts[i].gen
  BY <1>2, <1>3 DEF Attempts
<1>8. \A i \in DOMAIN attempts :
        Closed(o)[i].outcome = IF i = Len(attempts) THEN o ELSE attempts[i].outcome
  BY <1>2, <1>3 DEF Attempts
<1>9. GensOf(Closed(o)) = GensOf(attempts)
  BY <1>1, <1>5, <1>7 DEF GensOf
<1> QED BY <1>1, <1>5, <1>6, <1>7, <1>8, <1>9

(* The application retries, by the generations of the attempts.            *)
LEMMA RetriesAre ==
  /\ ApplicationRetries = Len(attempts) - Cardinality(GensOf(attempts))
  /\ ApplicationRetries' = Len(attempts') - Cardinality(GensOf(attempts'))
BY DEF ApplicationRetries, GensOf

(* The retry budget bounds the attempts.                                   *)
LEMMA AttemptBound ==
  ASSUME NEW s \in Seq(Attempts), Len(s) - Cardinality(GensOf(s)) <= Retries
  PROVE  Len(s) \in 0..MaxAttempts
<1>1. Cardinality(GensOf(s)) \in Nat /\ Cardinality(GensOf(s)) <= MaxGeneration
  BY GensOfBound
<1>2. Len(s) \in Nat
  OBVIOUS
<1> QED BY <1>1, <1>2, UnitAssumption DEF MaxAttempts

-----------------------------------------------------------------------------
(* What a step may do to the row and its attempts.                         *)

(* It renews the claim, requests the cancellation, or lets time pass.      *)
RowKeeps ==
  /\ attempts' = attempts
  /\ row'.state = row.state /\ row'.gen = row.gen /\ row'.attempt = row.attempt
  /\ row'.disruptions = row.disruptions /\ row'.last \in {row.last, NoCommand}
  /\ row'.cancel => row.cancel \/ Held(row)

(* It gives the job back or settles it, and closes a live attempt.         *)
RowLeaves(to, o) ==
  /\ to \in States \ {"claimed", "running"} /\ o \in Outcomes
  /\ row'.state = to /\ row'.gen = row.gen /\ row'.attempt = row.attempt
  /\ Close(o)
  /\ row'.disruptions = MaxDisruptions => to = "failed"
  /\ row'.cancel => Done(row')
  /\ row'.last.op \notin {"start", "retry"}
  /\ row'.last.op = "report" => row'.last.to = to

(* The attempts that were there are there still.                           *)
AttemptsStay ==
  /\ attempts' \in Seq(Attempts)
  /\ \A i \in DOMAIN attempts : i \in DOMAIN attempts' /\ attempts'[i].gen = attempts[i].gen

(* A kept claim leaves the row sound.                                      *)
LEMMA RowKept ==
  ASSUME TypeOK, RowInv, RowKeeps
  PROVE  RowInv' /\ AttemptsStay
<1>1. AttemptsInv'
  BY DEF RowInv, AttemptsInv, RowKeeps
<1>2. BudgetInv'
  BY DEF RowInv, BudgetInv, RowKeeps, Held, Done, NoCommand
<1>3. ApplicationRetries' <= Retries
  BY DEF RowInv, ApplicationRetries, RowKeeps
<1>4. AttemptsStay
  BY DEF AttemptsStay, RowKeeps, TypeOK
<1> QED BY <1>1, <1>2, <1>3, <1>4 DEF RowInv

(* So does an end of the claim.                                            *)
LEMMA RowLeft ==
  ASSUME TypeOK, RowInv, NEW to, NEW o, RowLeaves(to, o)
  PROVE  RowInv' /\ AttemptsStay
<1>1. /\ attempts \in Seq(Attempts) /\ DOMAIN attempts = 1..Len(attempts)
      /\ Len(attempts) \in Nat /\ row.gen \in Nat
      /\ \A i \in DOMAIN attempts : attempts[i].gen \in Nat
  <2>1. \A i \in DOMAIN attempts : attempts[i] \in Attempts
    BY DEF TypeOK
  <2> QED BY <2>1 DEF TypeOK, Rows, Attempts, Gens
<1>2. BudgetInv'
  BY DEF RowLeaves, BudgetInv, States
<1>3. CASE row.state # "running"
  <2>1. attempts' = attempts
    BY <1>3 DEF RowLeaves, Close
  <2>2. AttemptsInv'
    BY <1>3, <2>1 DEF RowInv, AttemptsInv, RowLeaves
  <2>3. ApplicationRetries' <= Retries
    BY <2>1 DEF RowInv, ApplicationRetries
  <2> QED BY <1>1, <1>2, <2>1, <2>2, <2>3 DEF RowInv, AttemptsStay
<1>4. CASE row.state = "running"
  <2>1. attempts' = Closed(o) /\ attempts # <<>>
    BY <1>4 DEF RowLeaves, Close, RowInv, AttemptsInv
  <2>2. /\ attempts' \in Seq(Attempts) /\ Len(attempts') = Len(attempts)
        /\ DOMAIN attempts' = DOMAIN attempts
        /\ \A i \in DOMAIN attempts : attempts'[i].gen = attempts[i].gen
        /\ \A i \in DOMAIN attempts :
             attempts'[i].outcome = IF i = Len(attempts) THEN o ELSE attempts[i].outcome
        /\ GensOf(attempts') = GensOf(attempts)
    BY <1>1, <2>1, ClosedFacts DEF RowLeaves
  <2>3. o # "open"
    BY DEF RowLeaves, Outcomes
  <2>4. AttemptsInv'
    BY <1>1, <2>2, <2>3 DEF RowInv, AttemptsInv, RowLeaves
  <2>5. ApplicationRetries' <= Retries
    BY <2>2, RetriesAre DEF RowInv
  <2> QED BY <1>2, <2>2, <2>4, <2>5 DEF RowInv, AttemptsStay
<1> QED BY <1>3, <1>4

(* An award is of a generation without attempts.                           *)
LEMMA RowClaimed ==
  ASSUME TypeOK, RowInv, NEW bound \in 1..Lease, ClaimUnit(bound)
  PROVE  RowInv' /\ AttemptsStay
<1>1. /\ attempts' = attempts /\ row.state = "ready"
      /\ row' = [row EXCEPT !.state = "claimed", !.gen = @ + 1, !.ttl = bound, !.last = Internal]
  BY DEF ClaimUnit, Award
<1>2. row \in Rows
  BY DEF TypeOK
<1>3. /\ row'.state = "claimed" /\ row'.gen = row.gen + 1 /\ row'.attempt = row.attempt
      /\ row'.disruptions = row.disruptions /\ row'.cancel = row.cancel /\ row'.last = NoCommand
      /\ row.gen \in Nat
  BY <1>1, <1>2 DEF Rows, Internal
<1>4. \A i \in DOMAIN attempts : attempts[i].gen \in Nat
  <2>1. \A i \in DOMAIN attempts : attempts[i] \in Attempts
    BY DEF TypeOK
  <2> QED BY <2>1 DEF Attempts, Gens
<1>5. AttemptsInv'
  BY <1>1, <1>3, <1>4 DEF RowInv, AttemptsInv
<1>6. BudgetInv'
  BY <1>1, <1>3 DEF RowInv, BudgetInv, Held, Done, NoCommand, Outcomes
<1>7. ApplicationRetries' <= Retries
  BY <1>1 DEF RowInv, ApplicationRetries
<1> QED BY <1>1, <1>5, <1>6, <1>7 DEF RowInv, AttemptsStay, TypeOK

(* What holds of the row and of a command.                                 *)
LEMMA RowFacts ==
  ASSUME TypeOK
  PROVE  /\ row \in Rows /\ row.gen \in Nat /\ row.attempt \in Nat /\ row.ttl \in Nat
         /\ attempts \in Seq(Attempts) /\ Len(attempts) \in Nat
         /\ DOMAIN attempts = 1..Len(attempts)
         /\ \A i \in DOMAIN attempts : attempts[i].gen \in Nat
         /\ IsFiniteSet(GensOf(attempts)) /\ Cardinality(GensOf(attempts)) \in Nat
<1>1. row \in Rows /\ attempts \in Seq(Attempts)
  BY DEF TypeOK
<1>2. row.gen \in Nat /\ row.attempt \in Nat /\ row.ttl \in Nat
  BY <1>1 DEF Rows
<1>3. Len(attempts) \in Nat /\ DOMAIN attempts = 1..Len(attempts)
  BY <1>1
<1>4. \A i \in DOMAIN attempts : attempts[i] \in Attempts
  BY <1>1
<1>5. \A i \in DOMAIN attempts : attempts[i].gen \in Nat
  BY <1>4 DEF Attempts, Gens
<1> QED BY <1>1, <1>2, <1>3, <1>5, GensOfBound

(* A start opens the first attempt of its generation: it costs no retry.   *)
LEMMA RowStarted ==
  ASSUME TypeOK, RowInv, NEW c \in Commands, c.op = "start", Permitted(c), Apply(c)
  PROVE  RowInv' /\ AttemptsStay /\ row'.attempt \in 0..MaxAttempts
<1>1. /\ row.state = "claimed" /\ ~row.cancel /\ row.gen = c.gen /\ c.attempt = row.attempt
      /\ row' = [row EXCEPT !.state = "running", !.attempt = @ + 1, !.queued = FALSE, !.last = c]
      /\ attempts' = Append(attempts, Open(c.gen))
  BY DEF Permitted, Apply, Holds, Released
<1>2. c.gen \in Gens
  BY DEF Commands
<1>3. /\ row'.state = "running" /\ row'.gen = row.gen /\ row'.attempt = row.attempt + 1
      /\ row'.disruptions = row.disruptions /\ row'.cancel = row.cancel /\ row'.last = c
  BY <1>1, RowFacts DEF Rows
<1>4. attempts' \in Seq(Attempts) /\ GensOf(attempts') = GensOf(attempts) \cup {c.gen}
  BY <1>1, <1>2, RowFacts, GensOfOpened
<1>5. /\ Len(attempts') = Len(attempts) + 1 /\ DOMAIN attempts' = 1..(Len(attempts) + 1)
      /\ \A i \in 1..Len(attempts) : attempts'[i] = attempts[i]
      /\ attempts'[Len(attempts) + 1].gen = c.gen
      /\ attempts'[Len(attempts) + 1].outcome = "open"
  BY <1>1, <1>2, RowFacts DEF Open, Attempts
<1>6. AttemptsInv'
  BY <1>1, <1>3, <1>5, RowFacts DEF RowInv, AttemptsInv
<1>7. BudgetInv'
  BY <1>1, <1>3 DEF RowInv, BudgetInv, Held
<1>8. c.gen \notin GensOf(attempts)
  BY <1>1, RowFacts DEF GensOf, RowInv, AttemptsInv
<1>9. Cardinality(GensOf(attempts')) = Cardinality(GensOf(attempts)) + 1
  BY <1>4, <1>8, RowFacts, FS_AddElement
<1>10. ApplicationRetries' <= Retries
  BY <1>5, <1>9, RetriesAre, RowFacts, UnitAssumption DEF RowInv
<1>11. row'.attempt \in 0..MaxAttempts
  BY <1>4, <1>6, <1>10, AttemptBound, RetriesAre DEF AttemptsInv
<1>12. AttemptsStay
  BY <1>4, <1>5, RowFacts DEF AttemptsStay
<1> QED BY <1>6, <1>7, <1>10, <1>11, <1>12 DEF RowInv

(* A retry closes the attempt and opens another of the same generation,    *)
(* within the budget.                                                      *)
LEMMA RowRetried ==
  ASSUME TypeOK, RowInv, NEW c \in Commands, c.op = "retry", Permitted(c), Apply(c)
  PROVE  RowInv' /\ AttemptsStay /\ row'.attempt \in 0..MaxAttempts
<1>1. /\ row.state = "running" /\ ~row.cancel /\ row.gen = c.gen /\ c.attempt = row.attempt
      /\ ApplicationRetries < Retries
      /\ row' = [row EXCEPT !.attempt = @ + 1, !.queued = FALSE, !.last = c]
      /\ attempts' = Append(Closed("failed"), Open(c.gen))
  BY DEF Permitted, Apply, Holds, Released
<1>2. c.gen \in Gens /\ attempts # <<>> /\ "failed" \in Outcomes
      /\ attempts[Len(attempts)].gen = c.gen
  BY <1>1 DEF Commands, RowInv, AttemptsInv, Outcomes
<1>3. /\ row'.state = "running" /\ row'.gen = row.gen /\ row'.attempt = row.attempt + 1
      /\ row'.disruptions = row.disruptions /\ row'.cancel = row.cancel /\ row'.last = c
  BY <1>1, RowFacts DEF Rows
<1> DEFINE closed == Closed("failed")
<1>4. /\ closed \in Seq(Attempts) /\ Len(closed) = Len(attempts)
      /\ DOMAIN closed = DOMAIN attempts
      /\ \A i \in DOMAIN attempts : closed[i].gen = attempts[i].gen
      /\ \A i \in DOMAIN attempts :
           closed[i].outcome = IF i = Len(attempts) THEN "failed" ELSE attempts[i].outcome
      /\ GensOf(closed) = GensOf(attempts)
  BY <1>2, RowFacts, ClosedFacts
<1> HIDE DEF closed
<1>0. attempts' = Append(closed, Open(c.gen))
  BY <1>1 DEF closed
<1>5. attempts' \in Seq(Attempts) /\ GensOf(attempts') = GensOf(attempts) \cup {c.gen}
  BY <1>0, <1>2, <1>4, GensOfOpened
<1>6. /\ Len(attempts') = Len(attempts) + 1 /\ DOMAIN attempts' = 1..(Len(attempts) + 1)
      /\ \A i \in 1..Len(attempts) : attempts'[i] = closed[i]
      /\ attempts'[Len(attempts) + 1].gen = c.gen
      /\ attempts'[Len(attempts) + 1].outcome = "open"
  BY <1>0, <1>2, <1>4, RowFacts DEF Open, Attempts
<1>7. /\ \A i \in 1..Len(attempts) : attempts'[i].gen = attempts[i].gen
      /\ \A i \in 1..Len(attempts) : attempts'[i].outcome # "open"
  <2>1. \A i \in 1..Len(attempts) : i # Len(attempts) => attempts[i].outcome # "open"
    BY <1>1, RowFacts DEF RowInv, AttemptsInv
  <2>2. \A i \in 1..Len(attempts) : closed[i].outcome # "open"
    BY <1>4, <2>1, RowFacts
  <2> QED BY <1>4, <1>6, <2>2, RowFacts
<1>8. AttemptsInv'
  BY <1>1, <1>2, <1>3, <1>6, <1>7, RowFacts DEF RowInv, AttemptsInv
<1>9. BudgetInv'
  BY <1>1, <1>3 DEF RowInv, BudgetInv, Held
<1>10. GensOf(attempts') = GensOf(attempts)
  <2>1. Len(attempts) \in DOMAIN attempts
    BY <1>2, RowFacts
  <2>2. c.gen \in GensOf(attempts)
    BY <1>2, <2>1 DEF GensOf
  <2> QED BY <1>5, <2>2
<1>11. ApplicationRetries' <= Retries
  BY <1>1, <1>6, <1>10, RetriesAre, RowFacts, UnitAssumption
<1>12. row'.attempt \in 0..MaxAttempts
  BY <1>5, <1>8, <1>11, AttemptBound, RetriesAre DEF AttemptsInv
<1>13. AttemptsStay
  BY <1>5, <1>6, <1>7, RowFacts DEF AttemptsStay
<1> QED BY <1>8, <1>9, <1>11, <1>12, <1>13 DEF RowInv

-----------------------------------------------------------------------------
(* What a change of the row means for a host that it does not touch.       *)

(* A host that is not touched, or only gets an answer, and a true one.     *)
AnswerOnly(g) ==
  LET h == host[g]
      k == host'[g]
  IN /\ k.pc = h.pc /\ k.attempt = h.attempt /\ k.fence = h.fence /\ k.cmd = h.cmd
     /\ k.beat = h.beat /\ k.begun = h.begun /\ k.passed = h.passed /\ k.told = h.told
     /\ k = h \/ h.pc = "waiting"
     /\ k.answer = "ok" /\ k.answer # h.answer =>
          /\ Asks(h) => row'.state = "running" /\ row'.attempt = h.attempt + 1
          /\ h.cmd.op = "report" => row'.state = h.cmd.to

(* A host whose claim is kept is covered as before.                        *)
LEMMA HostKept ==
  ASSUME TypeOK, NEW g \in Gens, OwnInv(g), AnswerOnly(g), net \subseteq net',
         RowKeeps, row'.ttl \in Nat, row'.ttl >= row.ttl
  PROVE  OwnInv(g)'
<1>1. host[g] \in Hosts /\ row.ttl \in Nat
  BY RowFacts DEF TypeOK
<1>2. LeaseInv(g)'
  BY <1>1 DEF AnswerOnly, OwnInv, LeaseInv, Covered, Asks, RowKeeps, Held, Hosts, Beats
<1>3. KnownInv(g)'
  BY <1>1 DEF AnswerOnly, OwnInv, KnownInv, Early, Asks, RowKeeps, Held
<1>4. DoneInv(g)'
  BY <1>1 DEF AnswerOnly, OwnInv, DoneInv, Early, Asks, RowKeeps
<1> QED BY <1>2, <1>3, <1>4 DEF OwnInv

(* A host that no lease covers: what it knows of the claim is void.        *)
Uncovered(h) ==
  ~Covered(h) /\ ~(h.pc = "joining" /\ h.beat.phase = "kept" /\ h.beat.ttl > 0)

(* The claim of an uncovered host may end, or pass to a later generation.  *)
LEMMA HostLeft ==
  ASSUME TypeOK, RowInv, NetsInv, NEW g \in Gens, OwnInv(g), AnswerOnly(g),
         net \subseteq net', ~Done(row), Uncovered(host[g]),
         Early(host[g]) => ~(Held(row') /\ row'.gen = g),
         AttemptsStay, row'.gen \in Nat, row'.gen >= row.gen,
         row'.attempt \in Nat, row'.attempt >= row.attempt
  PROVE  OwnInv(g)'
<1> DEFINE h == host[g]
           k == host'[g]
<1>1. h \in Hosts /\ row.gen \in Nat /\ row.attempt \in Nat
  BY RowFacts DEF TypeOK
<1>0. /\ k.pc = h.pc /\ k.attempt = h.attempt /\ k.fence = h.fence /\ k.cmd = h.cmd
      /\ k.beat = h.beat /\ k.begun = h.begun /\ k.passed = h.passed /\ k.told = h.told
      /\ k = h \/ h.pc = "waiting"
      /\ k.answer = "ok" /\ k.answer # h.answer /\ h.cmd.op = "report" => row'.state = h.cmd.to
  BY DEF AnswerOnly
<1>2. LeaseInv(g)'
  BY <1>0, <1>1 DEF OwnInv, LeaseInv, Uncovered, Covered, Asks
<1>3. h.told = "none"
  BY <1>1 DEF OwnInv, KnownInv, Done, Hosts
<1>4. ~(h.pc = "waiting" /\ h.cmd.op = "report" /\ h.answer = "ok")
  <2> SUFFICES ASSUME h.pc = "waiting", h.cmd.op = "report", h.answer = "ok" PROVE FALSE
    OBVIOUS
  <2>1. h.cmd \in net /\ row.state = h.cmd.to
    BY DEF OwnInv, KnownInv
  <2>2. NetInv(h.cmd)
    BY <2>1 DEF NetsInv
  <2> QED BY <2>1, <2>2 DEF NetInv, Done
<1>5. KnownInv(g)'
  <2>1. /\ h.pc = "none" => k = NoHost
        /\ h.pc # "none" => g <= row'.gen
        /\ h.pc = "waiting" => h.cmd \in net' /\ h.cmd.gen = g /\ h.cmd.attempt = h.attempt
    BY <1>0, <1>1 DEF OwnInv, KnownInv, Gens
  <2>2. h.pc # "executing" /\ ~Asks(h)
    BY DEF Uncovered, Covered
  <2>3. k.answer = "ok" /\ h.pc = "waiting" /\ h.cmd.op = "report" => row'.state = h.cmd.to
    BY <1>0, <1>4
  <2> QED BY <1>0, <1>3, <2>1, <2>2, <2>3 DEF KnownInv, Asks, Early, Held
<1>6. DoneInv(g)'
  <2>1. h.begun # 0 => h.begun \in DOMAIN attempts
    BY <1>1, RowFacts DEF OwnInv, DoneInv, Hosts, RowInv, AttemptsInv
  <2>2. h.begun # 0 => h.begun <= row'.attempt /\ attempts'[h.begun].gen = g
    BY <1>1, <2>1 DEF OwnInv, DoneInv, Hosts, AttemptsStay
  <2> QED BY <1>0, <2>2 DEF OwnInv, DoneInv, Early, Asks
<1> QED BY <1>2, <1>5, <1>6 DEF OwnInv

(* A host that is not touched.                                             *)
LEMMA Untouched ==
  ASSUME NEW g \in Gens, host'[g] = host[g]
  PROVE  AnswerOnly(g)
BY DEF AnswerOnly

(* Only the host of the row's generation can be covered.                   *)
LEMMA OthersUncovered ==
  ASSUME TypeOK, NEW g \in Gens, OwnInv(g), ~(Held(row) /\ row.gen = g /\ row.ttl > 0)
  PROVE  Uncovered(host[g])
<1>1. host[g] \in Hosts /\ row.ttl \in Nat
  BY RowFacts DEF TypeOK
<1>2. ~Covered(host[g])
  BY <1>1 DEF OwnInv, LeaseInv, Hosts
<1> QED BY <1>1, <1>2 DEF OwnInv, LeaseInv, Uncovered, Hosts, Beats

-----------------------------------------------------------------------------
(* The steps of the store that no host asks for.                           *)

(* The claim ends, or the queued job moves, with nobody covered.           *)
LEMMA StoreLeaves ==
  ASSUME IInv, NEW to, NEW o, RowLeaves(to, o), row' \in Rows, ~Done(row),
         ~(Held(row) /\ row.ttl > 0), drain' \in 0..Drain,
         UNCHANGED <<stopped, host, net, stray, faults>>
  PROVE  IInv'
<1>1. RowInv' /\ AttemptsStay
  BY RowLeft DEF IInv
<1>2. TypeOK'
  BY <1>1 DEF IInv, TypeOK, AttemptsStay
<1>3. row'.gen = row.gen /\ row'.attempt = row.attempt /\ row.gen \in Nat /\ row.attempt \in Nat
      /\ ~Held(row')
  BY RowFacts DEF IInv, RowLeaves, Held
<1>4. HostInv'
  <2> SUFFICES ASSUME NEW g \in Gens PROVE OwnInv(g)'
    BY DEF HostInv
  <2>1. OwnInv(g) /\ Uncovered(host[g])
    BY OthersUncovered DEF IInv, HostInv
  <2> QED BY <1>1, <1>3, <2>1, HostLeft, Untouched DEF IInv
<1>5. NetsInv'
  BY DEF IInv, NetsInv, NetInv
<1> QED BY <1>1, <1>2, <1>4, <1>5 DEF IInv

(* The claim is kept: renewed, or asked to stop.                           *)
LEMMA StoreKeeps ==
  ASSUME IInv, RowKeeps, row' \in Rows, row'.ttl >= row.ttl, drain' \in 0..Drain,
         stopped' \subseteq Gens, stray' \subseteq Gens, UNCHANGED <<host, net, faults>>
  PROVE  IInv'
<1>1. RowInv' /\ AttemptsStay
  BY RowKept DEF IInv
<1>2. TypeOK'
  BY <1>1 DEF IInv, TypeOK, AttemptsStay
<1>3. HostInv'
  <2> SUFFICES ASSUME NEW g \in Gens PROVE OwnInv(g)'
    BY DEF HostInv
  <2>1. row'.ttl \in Nat
    BY DEF Rows
  <2> QED BY <2>1, HostKept, Untouched DEF IInv, HostInv
<1>4. NetsInv'
  BY DEF IInv, NetsInv, NetInv
<1> QED BY <1>1, <1>2, <1>3, <1>4 DEF IInv

(* The row that a step away from the claim leaves.                         *)
IsCleared(r, to, last) ==
  /\ r.state = to /\ r.gen = row.gen /\ r.attempt = row.attempt /\ r.ttl = 0
  /\ r.disruptions = row.disruptions /\ r.cancel = row.cancel /\ r.last = last

(* It is what the transition's clearing says.                              *)
LEMMA ClearedFacts ==
  ASSUME TypeOK, NEW to \in States, NEW last \in Commands \cup {NoCommand}
  PROVE  /\ Cleared(to, last) \in Rows
         /\ [Cleared(to, last) EXCEPT !.queued = FALSE] \in Rows
         /\ IsCleared(Cleared(to, last), to, last)
         /\ IsCleared([Cleared(to, last) EXCEPT !.queued = FALSE], to, last)
<1>1. row \in Rows
  BY DEF TypeOK
<1>2. Cleared(to, last) = [row EXCEPT !.state = to, !.ttl = 0, !.last = last]
  BY DEF Cleared
<1> DEFINE r == Cleared(to, last)
           q == [r EXCEPT !.queued = FALSE]
<1>3. 0 \in 0..Lease
  BY UnitAssumption
<1>4. r \in Rows
  BY <1>1, <1>2, <1>3 DEF Rows
<1>5. /\ r.state = to /\ r.gen = row.gen /\ r.attempt = row.attempt /\ r.ttl = 0
      /\ r.disruptions = row.disruptions /\ r.cancel = row.cancel /\ r.last = last
  BY <1>1, <1>2 DEF Rows
<1> HIDE DEF r
<1>6. q \in Rows
  BY <1>4 DEF Rows
<1>7. /\ q.state = r.state /\ q.gen = r.gen /\ q.attempt = r.attempt /\ q.ttl = r.ttl
      /\ q.disruptions = r.disruptions /\ q.cancel = r.cancel /\ q.last = r.last
  BY <1>4 DEF Rows
<1> QED BY <1>4, <1>5, <1>6, <1>7 DEF r, IsCleared

(* The owner, the claim wait and the cancellation of a queued job.         *)
LEMMA QueueSteps ==
  ASSUME IInv, \/ OwnerRelease \/ OwnerRevoke \/ QueueTimeout
               \/ (\E o \in {"skipped", "failed", "cancelled"} : OwnerSettle(o))
               \/ (CancelNode /\ ~Held(row))
  PROVE  IInv'
<1>0. /\ TypeOK /\ row \in Rows /\ drain \in 0..Drain /\ BudgetInv
      /\ NoCommand \in Commands \cup {NoCommand} /\ NoCommand.op = "none"
  BY DEF IInv, TypeOK, RowInv, NoCommand
<1>1. CASE OwnerRelease
  <2>1. row.state = "pending"
        /\ row' = [row EXCEPT !.state = "ready", !.queued = TRUE, !.last = NoCommand]
    BY <1>1 DEF OwnerRelease, Internal
  <2>2. row' \in Rows
    BY <1>0, <2>1 DEF Rows, States
  <2>3. RowLeaves("ready", "failed")
    BY <1>0, <1>1, <2>1 DEF RowLeaves, OwnerRelease, Close, Rows, States, Outcomes, BudgetInv, Held,
      Done, IInv, RowInv
  <2> QED BY <1>0, <1>1, <2>1, <2>2, <2>3, StoreLeaves DEF OwnerRelease, Done, Held, Outcomes
<1>2. CASE OwnerRevoke
  <2>1. row.state = "ready" /\ row' = [row EXCEPT !.state = "pending", !.last = NoCommand]
    BY <1>2 DEF OwnerRevoke, Internal
  <2>2. row' \in Rows
    BY <1>0, <2>1 DEF Rows, States
  <2>3. RowLeaves("pending", "failed")
    BY <1>0, <1>2, <2>1 DEF RowLeaves, OwnerRevoke, Close, Rows, States, Outcomes, BudgetInv, Held,
      Done, IInv, RowInv
  <2> QED BY <1>0, <1>2, <2>1, <2>2, <2>3, StoreLeaves DEF OwnerRevoke, Done, Held, Outcomes
<1>3. ASSUME NEW o \in {"skipped", "failed", "cancelled"}, row.state \in {"pending", "ready"},
             row' = [Cleared(o, Internal) EXCEPT !.queued = FALSE],
             UNCHANGED <<attempts, stopped, drain, host, net, stray, faults>>
      PROVE  IInv'
  <2>1. o \in States /\ o \in Outcomes
    BY DEF States, Outcomes
  <2>2. /\ row' \in Rows /\ row'.state = o /\ row'.gen = row.gen /\ row'.attempt = row.attempt
        /\ row'.disruptions = row.disruptions /\ row'.cancel = row.cancel /\ row'.last = NoCommand
    BY <1>0, <1>3, <2>1, ClearedFacts DEF Internal, IsCleared
  <2>3. RowLeaves(o, o)
    BY <1>0, <1>3, <2>1, <2>2 DEF RowLeaves, Close, Done, Outcomes, BudgetInv
  <2> QED BY <1>0, <1>3, <2>2, <2>3, StoreLeaves DEF Done, Held, Outcomes
<1>4. CASE QueueTimeout
  BY <1>3, <1>4 DEF QueueTimeout, Overdue
<1>5. CASE \E o \in {"skipped", "failed", "cancelled"} : OwnerSettle(o)
  BY <1>3, <1>5 DEF OwnerSettle
<1>6. CASE CancelNode /\ ~Held(row)
  <2>1. row.state \in {"pending", "ready"}
    BY <1>0, <1>6 DEF CancelNode, Held, Done, Rows, States
  <2> QED BY <1>3, <1>6, <2>1 DEF CancelNode, Cancelled
<1> QED BY <1>1, <1>2, <1>4, <1>5, <1>6

(* A held job is asked to stop.                                            *)
LEMMA CancelStep ==
  ASSUME IInv, CancelNode, Held(row)
  PROVE  IInv'
<1>1. /\ row \in Rows /\ row' = [row EXCEPT !.cancel = TRUE, !.last = NoCommand]
      /\ NoCommand \in Commands \cup {NoCommand}
  BY DEF IInv, TypeOK, CancelNode, Cancelled, Internal
<1>0. row.ttl \in Nat
  BY RowFacts DEF IInv
<1>2. /\ row' \in Rows /\ row'.ttl = row.ttl /\ row'.state = row.state
      /\ row'.gen = row.gen /\ row'.attempt = row.attempt /\ row'.disruptions = row.disruptions
      /\ row'.last = NoCommand
  BY <1>1, UnitAssumption DEF Rows
<1>3. RowKeeps
  BY <1>1, <1>2 DEF RowKeeps, CancelNode
<1>4. drain' \in 0..Drain
  BY UnitAssumption DEF IInv, TypeOK, CancelNode, DrainFrom
<1> QED BY <1>0, <1>2, <1>3, <1>4, StoreKeeps DEF CancelNode, IInv, TypeOK

(* The reaper finds a lease that has run out.                              *)
LEMMA ReapStep ==
  ASSUME IInv, ReapNodeUnit
  PROVE  IInv'
<1>0. /\ TypeOK /\ row \in Rows /\ drain \in 0..Drain /\ BudgetInv /\ Held(row) /\ row.ttl = 0
      /\ ~Done(row) /\ row.disruptions \in Nat /\ row.disruptions < MaxDisruptions
      /\ NoCommand \in Commands \cup {NoCommand} /\ NoCommand.op = "none"
      /\ UNCHANGED <<stopped, host, net, stray, faults>> /\ Drain \in 0..Drain
  BY UnitAssumption
     DEF IInv, TypeOK, RowInv, BudgetInv, ReapNodeUnit, Lapsed, Held, Done, Outcomes, NoCommand, Rows
<1>1. ASSUME NEW to \in {"cancelled", "failed", "pending"}, NEW d \in BOOLEAN,
             NEW o \in {"cancelled", "failed"}, Lapse(to, d, o),
             row.cancel => to = "cancelled",
             d /\ to # "failed" => row.disruptions + 1 < MaxDisruptions
      PROVE  IInv'
  <2> DEFINE r == Cleared(to, NoCommand)
  <2>1. /\ r \in Rows /\ r.state = to /\ r.gen = row.gen /\ r.attempt = row.attempt
        /\ r.disruptions = row.disruptions /\ r.cancel = row.cancel /\ r.last = NoCommand
    <3>1. to \in States
      BY <1>1 DEF States, Outcomes
    <3>2. r \in Rows /\ IsCleared(r, to, NoCommand)
      BY <1>0, <3>1, ClearedFacts
    <3> QED BY <3>2 DEF IsCleared
  <2>2. row' = [r EXCEPT !.disruptions = IF d THEN @ + 1 ELSE @,
                         !.queued = IF to = "pending" THEN @ ELSE FALSE]
        /\ Close(o) /\ drain' = drain
    BY <1>1 DEF Lapse, Internal
  <2> HIDE DEF r
  <2>3. /\ row' \in Rows /\ row'.state = to /\ row'.gen = row.gen /\ row'.attempt = row.attempt
        /\ row'.cancel = row.cancel /\ row'.last = NoCommand
        /\ row'.disruptions = IF d THEN row.disruptions + 1 ELSE row.disruptions
    <3>1. (IF d THEN row.disruptions + 1 ELSE row.disruptions) \in 0..MaxDisruptions
      BY <1>0, UnitAssumption
    <3>2. (IF to = "pending" THEN r.queued ELSE FALSE) \in BOOLEAN
      BY <2>1 DEF Rows
    <3> QED BY <2>1, <2>2, <3>1, <3>2 DEF Rows
  <2>4. RowLeaves(to, o)
    BY <1>0, <1>1, <2>2, <2>3, UnitAssumption DEF RowLeaves, Done, States, Outcomes
  <2> QED BY <1>0, <2>2, <2>3, <2>4, StoreLeaves
<1>2. CASE row.cancel
  BY <1>0, <1>1, <1>2 DEF ReapNodeUnit, Reap
<1>3. CASE ~row.cancel /\ row.gen \in stopped
  <2>1. /\ row' = [row EXCEPT !.cancel = TRUE, !.last = NoCommand]
        /\ drain' = Drain /\ attempts' = attempts
    BY <1>0, <1>3 DEF ReapNodeUnit, Reap, Cancelled, Internal
  <2>2. /\ row' \in Rows /\ row'.ttl = row.ttl /\ row'.state = row.state
        /\ row'.gen = row.gen /\ row'.attempt = row.attempt /\ row'.disruptions = row.disruptions
        /\ row'.last = NoCommand
    BY <1>0, <2>1 DEF Rows
  <2>3. RowKeeps
    BY <1>0, <2>1, <2>2 DEF RowKeeps
  <2> QED BY <1>0, <2>1, <2>2, <2>3, StoreKeeps DEF TypeOK
<1>4. CASE ~row.cancel /\ row.gen \notin stopped
  <2>1. CASE row.state = "running" /\ row.disruptions + 1 >= MaxDisruptions
    BY <1>1, <1>4, <2>1 DEF ReapNodeUnit, Reap
  <2>2. CASE ~(row.state = "running" /\ row.disruptions + 1 >= MaxDisruptions)
    <3>1. Lapse("pending", row.state = "running", "failed")
      BY <1>4, <2>2 DEF ReapNodeUnit, Reap
    <3>2. row.state = "running" => row.disruptions + 1 < MaxDisruptions
      BY <1>0, <2>2, UnitAssumption
    <3> QED BY <1>1, <1>4, <3>1, <3>2
  <2> QED BY <2>1, <2>2
<1> QED BY <1>2, <1>3, <1>4

(* The award: its generation is new, to the hosts and to the network.      *)
LEMMA ClaimStep ==
  ASSUME IInv, NEW bound \in 1..Lease, ClaimUnit(bound)
  PROVE  IInv'
<1> DEFINE h == [NoHost EXCEPT !.pc = "awarded", !.attempt = row.attempt]
<1>0. PICK n \in Gens : n = row.gen + 1
  BY RowFacts, UnitAssumption DEF IInv, ClaimUnit, Gens
<1>1. /\ row \in Rows /\ row.gen \in Nat /\ row.attempt \in Nat /\ n \in Gens
      /\ ~Held(row) /\ ~Done(row) /\ n = row.gen + 1
  BY <1>0, RowFacts DEF IInv, ClaimUnit, Rows, Held, Done, Outcomes
<1>2. row' = [row EXCEPT !.state = "claimed", !.gen = n, !.ttl = bound, !.last = NoCommand]
  BY <1>1 DEF ClaimUnit, Award, Internal
<1>3. /\ row' \in Rows /\ row'.gen = n /\ row'.state = "claimed" /\ row'.attempt = row.attempt
  <2>1. NoCommand \in Commands \cup {NoCommand} /\ "claimed" \in States /\ bound \in 0..Lease
        /\ n \in 0..MaxGeneration
    BY <1>1 DEF States, Gens
  <2> QED BY <1>1, <1>2, <2>1 DEF Rows
<1>4. RowInv' /\ AttemptsStay
  BY RowClaimed DEF IInv
<1>5. host[n] = NoHost
  <2>1. OwnInv(n)
    BY <1>1 DEF IInv, HostInv
  <2>2. host[n].pc # "none" => n <= row.gen
    BY <2>1 DEF OwnInv, KnownInv
  <2> QED BY <1>1, <2>1, <2>2 DEF OwnInv, KnownInv
<1>6. host \in [Gens -> Hosts]
  BY DEF IInv, TypeOK
<1>7. /\ host' \in [Gens -> Hosts] /\ faults' \in 0..MaxFaults
      /\ \A g \in Gens : g # n => host'[g] = host[g]
      /\ host'[n] \in {NoHost, h}
  <2>1. h \in Hosts
    <3>1. NoHost \in Hosts
      BY <1>1, <1>5, <1>6
    <3>2. row.attempt \in 0..MaxAttempts
      BY <1>1 DEF Rows
    <3> QED BY <3>1, <3>2 DEF Hosts
  <2>2. CASE host' = [host EXCEPT ![n] = [@ EXCEPT !.pc = "awarded", !.attempt = row.attempt]]
             /\ UNCHANGED faults
    BY <1>1, <1>5, <1>6, <2>1, <2>2 DEF IInv, TypeOK
  <2>3. CASE UNCHANGED host /\ Fault
    BY <1>5, <1>6, <2>3, UnitAssumption DEF IInv, TypeOK, Fault
  <2> QED BY <1>1, <2>2, <2>3 DEF ClaimUnit, Award
<1>8. TypeOK'
  BY <1>3, <1>4, <1>7 DEF IInv, TypeOK, AttemptsStay, ClaimUnit
<1>9. net' = net
  BY DEF ClaimUnit
<1>10. ASSUME NEW g \in Gens, g # n PROVE OwnInv(g)'
  <2>1. OwnInv(g) /\ Uncovered(host[g])
    BY <1>1, OthersUncovered DEF IInv, HostInv
  <2>2. AnswerOnly(g)
    BY <1>7, <1>10, Untouched
  <2> QED BY <1>1, <1>3, <1>4, <1>9, <1>10, <2>1, <2>2, HostLeft DEF IInv
<1>11. OwnInv(n)'
  <2>1. CASE host'[n] = NoHost
    BY <1>1, <2>1 DEF OwnInv, LeaseInv, KnownInv, DoneInv, Covered, Asks, Early, NoHost, NoBeat
  <2>2. CASE host'[n] = h
    <3>1. /\ host'[n].pc = "awarded" /\ host'[n].attempt = row.attempt /\ host'[n].fence = 0
          /\ host'[n].beat = NoBeat /\ host'[n].begun = 0 /\ host'[n].passed = 0
          /\ host'[n].told = "none"
      BY <2>2 DEF NoHost
    <3> QED BY <1>1, <1>3, <3>1 DEF OwnInv, LeaseInv, KnownInv, DoneInv, Covered, Asks, Early, NoBeat
  <2> QED BY <1>7, <2>1, <2>2
<1>12. NetsInv'
  <2> SUFFICES ASSUME NEW c \in net PROVE NetInv(c)'
    BY <1>9 DEF NetsInv
  <2>1. NetInv(c) /\ c.gen \in Gens
    BY DEF IInv, NetsInv, TypeOK, Commands
  <2>2. c.gen # n
    BY <1>5, <2>1 DEF NetInv, NoHost
  <2>3. host'[c.gen] = host[c.gen]
    BY <1>7, <2>1, <2>2
  <2> QED BY <2>1, <2>3 DEF NetInv
<1>13. HostInv'
  BY <1>10, <1>11 DEF HostInv
<1> QED BY <1>4, <1>8, <1>12, <1>13 DEF IInv

-----------------------------------------------------------------------------
(* The commands of the hosts.                                              *)

(* An answer is all that changes of a host.                                *)
Answers(c, ok) ==
  LET h == host[c.gen]
      k == host'[c.gen]
  IN /\ k.pc = h.pc /\ k.attempt = h.attempt /\ k.fence = h.fence /\ k.cmd = h.cmd
     /\ k.beat = h.beat /\ k.begun = h.begun /\ k.passed = h.passed /\ k.told = h.told
     /\ k = h \/ (h.pc = "waiting" /\ h.cmd = c /\ (k.answer = "ok" => ok))

(* Only the host of the command is answered.                               *)
LEMMA AnswerFacts ==
  ASSUME TypeOK, NEW c \in Commands, NEW ok \in BOOLEAN, Answer(c, ok)
  PROVE  /\ host' \in [Gens -> Hosts] /\ Answers(c, ok)
         /\ \A g \in Gens : g # c.gen => host'[g] = host[g]
<1> DEFINE h == host[c.gen]
           a == IF ok THEN "ok" ELSE "refused"
<1>1. c.gen \in Gens /\ host \in [Gens -> Hosts] /\ h \in Hosts
  BY DEF TypeOK, Commands
<1>2. CASE UNCHANGED host
  BY <1>1, <1>2 DEF Answers
<1>3. CASE h.pc = "waiting" /\ h.cmd = c /\ host' = [host EXCEPT ![c.gen].answer = a]
  <2>1. host' = [host EXCEPT ![c.gen] = [h EXCEPT !.answer = a]]
    BY <1>1, <1>3
  <2>2. [h EXCEPT !.answer = a] \in Hosts
    BY <1>1 DEF Hosts
  <2>3. host'[c.gen] = [h EXCEPT !.answer = a]
    BY <1>1, <2>1
  <2>4. Answers(c, ok)
    BY <1>1, <1>3, <2>3 DEF Answers, Hosts
  <2> QED BY <1>1, <2>1, <2>2, <2>4
<1> QED BY <1>2, <1>3 DEF Answer

(* The network stays as it was.                                            *)
LEMMA NetsAnswered ==
  ASSUME IInv, NEW c \in net, NEW ok \in BOOLEAN, Answer(c, ok), net' = net
  PROVE  NetsInv'
<1>0. TypeOK /\ c \in Commands
  BY DEF IInv, TypeOK
<1>1. Answers(c, ok) /\ \A g \in Gens : g # c.gen => host'[g] = host[g]
  BY <1>0, AnswerFacts
<1> SUFFICES ASSUME NEW d \in net PROVE NetInv(d)'
  BY DEF NetsInv
<1>2. NetInv(d) /\ d.gen \in Gens
  BY DEF IInv, NetsInv, TypeOK, Commands
<1>3. CASE d.gen # c.gen
  <2>1. host'[d.gen] = host[d.gen]
    BY <1>1, <1>2, <1>3
  <2> QED BY <1>2, <2>1 DEF NetInv
<1>4. CASE d.gen = c.gen
  BY <1>1, <1>2, <1>4 DEF NetInv, Answers
<1> QED BY <1>3, <1>4

(* A command that is refused or was applied before changes no row; a       *)
(* replay is answered as it was the first time.                            *)
LEMMA CommandRepeats ==
  ASSUME IInv, NEW c \in net, NEW ok \in BOOLEAN, ok => row.last = c /\ c.op \notin Released,
         Answer(c, ok), UNCHANGED <<row, attempts, stopped, drain, net, stray, faults>>
  PROVE  IInv'
<1>0. /\ TypeOK /\ c \in Commands /\ c.gen \in Gens /\ row.ttl \in Nat
  BY RowFacts DEF IInv, TypeOK, Commands
<1>1. /\ host' \in [Gens -> Hosts] /\ Answers(c, ok)
      /\ \A g \in Gens : g # c.gen => host'[g] = host[g]
  BY <1>0, AnswerFacts
<1>2. RowKeeps
  BY DEF RowKeeps
<1>3. RowInv'
  BY <1>2, RowKept DEF IInv
<1>4. TypeOK'
  BY <1>1 DEF IInv, TypeOK
<1>5. HostInv'
  <2> SUFFICES ASSUME NEW g \in Gens PROVE OwnInv(g)'
    BY DEF HostInv
  <2>1. OwnInv(g)
    BY DEF IInv, HostInv
  <2>2. CASE g # c.gen
    BY <1>0, <1>1, <1>2, <2>1, <2>2, Untouched, HostKept
  <2>3. CASE g = c.gen
    <3>1. ASSUME host[g].pc = "waiting", host[g].cmd = c, row.last = c
          PROVE  /\ Asks(host[g]) => row.state = "running" /\ row.attempt = host[g].attempt + 1
                 /\ c.op = "report" => row.state = c.to
      BY <2>1, <3>1 DEF OwnInv, KnownInv, Asks, IInv, RowInv, BudgetInv
    <3>2. AnswerOnly(g)
      BY <1>1, <2>3, <3>1 DEF AnswerOnly, Answers
    <3> QED BY <1>0, <1>2, <2>1, <3>2, HostKept
  <2> QED BY <2>2, <2>3
<1>6. NetsInv'
  BY NetsAnswered
<1> QED BY <1>3, <1>4, <1>5, <1>6 DEF IInv

(* A report settles the job, a release or a relinquishment gives it back:  *)
(* its host has ended or waits for just that.                              *)
LEMMA CommandEnds ==
  ASSUME IInv, NEW c \in net, c.op \notin {"start", "retry"}, Permitted(c), Apply(c),
         Answer(c, TRUE), UNCHANGED <<stopped, drain, net, stray, faults>>
  PROVE  IInv'
<1>0. /\ TypeOK /\ c \in Commands /\ c.gen \in Gens /\ NetInv(c) /\ row \in Rows
      /\ c \in Commands \cup {NoCommand} /\ row.gen \in Nat /\ row.attempt \in Nat
  BY RowFacts DEF IInv, TypeOK, Commands, NetsInv
<1>1. /\ host' \in [Gens -> Hosts] /\ Answers(c, TRUE)
      /\ \A g \in Gens : g # c.gen => host'[g] = host[g]
  BY <1>0, AnswerFacts
<1>2. Held(row) /\ row.gen = c.gen /\ row.ttl > 0 /\ ~Done(row)
  BY DEF Permitted, Holds, Held, Done, Outcomes
<1>3. c.op \in {"report", "release", "relinquish"}
  BY <1>0 DEF Commands
<1>4. PICK to, o : RowLeaves(to, o) /\ row' \in Rows /\ (c.op = "report" => to = c.to)
  <2>1. CASE c.op = "report"
    <3>1. row' = [Cleared(c.to, c) EXCEPT !.queued = FALSE] /\ Close(c.to)
      BY <2>1 DEF Apply
    <3>2. c.to \in Outcomes /\ c.to \in States
      BY <1>0, <2>1 DEF NetInv, States
    <3>3. row' \in Rows /\ IsCleared(row', c.to, c)
      BY <1>0, <3>1, <3>2, ClearedFacts
    <3>4. RowLeaves(c.to, c.to)
      BY <1>2, <2>1, <3>1, <3>2, <3>3
         DEF RowLeaves, IsCleared, Done, Held, States, Outcomes, IInv, RowInv, BudgetInv
    <3> QED BY <3>3, <3>4
  <2>2. ASSUME NEW to \in {"pending", "ready"}, c.op \in Released, row' = Cleared(to, c),
               attempts' = attempts
        PROVE  RowLeaves(to, "failed") /\ row' \in Rows
    <3>1. to \in States /\ "failed" \in Outcomes
      BY DEF States, Outcomes
    <3>2. row' \in Rows /\ IsCleared(row', to, c)
      BY <1>0, <2>2, <3>1, ClearedFacts
    <3>3. row.state = "claimed" /\ ~row.cancel
      BY <2>2 DEF Permitted, Released
    <3>4. row.disruptions # MaxDisruptions
      BY <3>3 DEF IInv, RowInv, BudgetInv
    <3> QED BY <2>2, <3>1, <3>2, <3>3, <3>4 DEF RowLeaves, IsCleared, Close, Released
  <2>3. CASE c.op = "release"
    BY <2>2, <2>3 DEF Apply, Released
  <2>4. CASE c.op = "relinquish"
    BY <2>2, <2>4 DEF Apply, Released
  <2> QED BY <1>3, <2>1, <2>3, <2>4
<1>5. RowInv' /\ AttemptsStay
  BY <1>4, RowLeft DEF IInv
<1>6. TypeOK'
  BY <1>1, <1>4, <1>5 DEF IInv, TypeOK, AttemptsStay
<1>7. row'.gen = row.gen /\ row'.attempt = row.attempt /\ ~Held(row') /\ row'.state = to
  BY <1>4 DEF RowLeaves, Held
<1>8. HostInv'
  <2> SUFFICES ASSUME NEW g \in Gens PROVE OwnInv(g)'
    BY DEF HostInv
  <2>1. OwnInv(g)
    BY DEF IInv, HostInv
  <2>2. Uncovered(host[g])
    <3>1. CASE g # c.gen
      BY <1>0, <1>2, <2>1, <3>1, OthersUncovered
    <3>2. CASE g = c.gen
      BY <1>0, <3>2 DEF NetInv, Uncovered, Covered, Asks
    <3> QED BY <3>1, <3>2
  <2>3. AnswerOnly(g)
    <3>1. CASE g # c.gen
      BY <1>1, <3>1, Untouched
    <3>2. CASE g = c.gen
      BY <1>1, <1>4, <1>7, <3>2 DEF AnswerOnly, Answers, Asks
    <3> QED BY <3>1, <3>2
  <2> QED BY <1>0, <1>2, <1>5, <1>7, <2>1, <2>2, <2>3, HostLeft DEF IInv
<1>9. NetsInv'
  BY NetsAnswered
<1> QED BY <1>5, <1>6, <1>8, <1>9 DEF IInv

(* A start or a retry opens an attempt.  Its host waits for just that, or  *)
(* has ended: a host that went on knows a later attempt.                   *)
LEMMA CommandStarts ==
  ASSUME IInv, NEW c \in net, c.op \in {"start", "retry"}, Permitted(c), Apply(c),
         Answer(c, TRUE), UNCHANGED <<stopped, drain, net, stray, faults>>
  PROVE  IInv'
<1>0. /\ TypeOK /\ c \in Commands /\ c.gen \in Gens /\ c.attempt \in Nat /\ NetInv(c)
      /\ row \in Rows /\ c \in Commands \cup {NoCommand} /\ row.gen \in Nat /\ row.attempt \in Nat
  BY RowFacts DEF IInv, TypeOK, Commands, NetsInv
<1>1. /\ host' \in [Gens -> Hosts] /\ Answers(c, TRUE)
      /\ \A g \in Gens : g # c.gen => host'[g] = host[g]
  BY <1>0, AnswerFacts
<1>2. /\ Held(row) /\ row.gen = c.gen /\ row.ttl > 0 /\ ~Done(row) /\ c.attempt = row.attempt
  BY DEF Permitted, Holds, Held, Done, Outcomes, Released
<1>3. RowInv' /\ AttemptsStay /\ row'.attempt \in 0..MaxAttempts
  BY <1>0, RowStarted, RowRetried DEF IInv
<1>4. row' \in Rows /\ row'.state = "running" /\ row'.gen = row.gen /\ row'.ttl = row.ttl
      /\ row'.attempt = row.attempt + 1
  <2>1. CASE c.op = "start"
    <3>1. row' = [row EXCEPT !.state = "running", !.attempt = @ + 1, !.queued = FALSE, !.last = c]
      BY <2>1 DEF Apply
    <3>2. row'.attempt = row.attempt + 1 /\ "running" \in States
      BY <1>0, <3>1 DEF Rows, States
    <3>3. row.attempt + 1 \in 0..MaxAttempts
      BY <1>3, <3>2
    <3> QED BY <1>0, <3>1, <3>2, <3>3 DEF Rows
  <2>2. CASE c.op = "retry"
    <3>1. row' = [row EXCEPT !.attempt = @ + 1, !.queued = FALSE, !.last = c]
          /\ row.state = "running"
      BY <2>2 DEF Apply, Permitted, Released
    <3>2. row'.attempt = row.attempt + 1
      BY <1>0, <3>1 DEF Rows
    <3>3. row.attempt + 1 \in 0..MaxAttempts
      BY <1>3, <3>2
    <3> QED BY <1>0, <3>1, <3>2, <3>3 DEF Rows
  <2> QED BY <2>1, <2>2
<1>5. TypeOK'
  BY <1>1, <1>3, <1>4 DEF IInv, TypeOK, AttemptsStay
<1>6. ASSUME NEW g \in Gens, Uncovered(host[g]), g = c.gen => ~Early(host[g])
      PROVE  OwnInv(g)'
  <2>1. OwnInv(g)
    BY DEF IInv, HostInv
  <2>2. AnswerOnly(g)
    <3>1. CASE g # c.gen
      BY <1>1, <3>1, Untouched
    <3>2. CASE g = c.gen
      BY <1>1, <1>6, <3>2 DEF AnswerOnly, Answers, Asks, Uncovered, Covered
    <3> QED BY <3>1, <3>2
  <2> QED BY <1>0, <1>2, <1>3, <1>4, <1>6, <2>1, <2>2, HostLeft DEF IInv
<1>7. ASSUME NEW g \in Gens, g # c.gen PROVE OwnInv(g)'
  <2>1. Uncovered(host[g])
    BY <1>0, <1>2, <1>7, OthersUncovered DEF IInv, HostInv
  <2> QED BY <1>6, <1>7, <2>1
<1>8. ASSUME NEW g \in Gens, g = c.gen PROVE OwnInv(g)'
  <2> DEFINE h == host[g]
             k == host'[g]
  <2>1. OwnInv(g) /\ h \in Hosts
    BY <1>0 DEF IInv, HostInv, TypeOK
  <2>2. CASE h.pc = "waiting" /\ h.cmd = c
    <3>1. /\ k.pc = "waiting" /\ k.cmd = c /\ k.attempt = h.attempt /\ k.fence = h.fence
          /\ k.beat = h.beat /\ k.begun = h.begun /\ k.passed = h.passed /\ k.told = h.told
      BY <1>1, <1>8, <2>2 DEF Answers
    <3>2. Asks(h) /\ Covered(h) /\ h.attempt = row.attempt /\ h.attempt \in Nat
      BY <1>0, <1>2, <2>1, <2>2 DEF Asks, Covered, OwnInv, KnownInv
    <3>3. LeaseInv(g)'
      BY <1>2, <1>4, <1>8, <2>1, <3>1, <3>2
         DEF OwnInv, LeaseInv, Covered, Asks, Held
    <3>4. h.told = "none"
      BY <1>2, <2>1 DEF OwnInv, KnownInv, Done, Hosts
    <3>5. KnownInv(g)'
      BY <1>0, <1>2, <1>4, <1>8, <3>1, <3>2, <3>4 DEF KnownInv, Asks, Early, Held
    <3>6. h.begun # 0 => h.begun \in DOMAIN attempts
      BY <1>0, <2>1, RowFacts DEF OwnInv, DoneInv, Hosts, IInv, RowInv, AttemptsInv
    <3>7. h.begun # 0 => h.begun <= row'.attempt /\ attempts'[h.begun].gen = g
      BY <1>0, <1>3, <1>4, <2>1, <3>6 DEF OwnInv, DoneInv, Hosts, AttemptsStay
    <3>8. DoneInv(g)'
      BY <2>1, <3>1, <3>2, <3>7 DEF OwnInv, DoneInv, Early, Asks
    <3> QED BY <3>3, <3>5, <3>8 DEF OwnInv
  <2>3. CASE ~(h.pc = "waiting" /\ h.cmd = c)
    <3>1. h.pc \in {"gone", "waiting", "executing"}
          /\ (h.pc # "gone" => c.attempt < h.attempt)
      BY <1>0, <1>8, <2>3 DEF NetInv
    <3>2. h.pc # "executing" /\ ~Asks(h)
      BY <1>0, <1>2, <2>1, <3>1 DEF OwnInv, KnownInv, Asks, Hosts
    <3>3. Uncovered(h) /\ ~Early(h)
      BY <3>1, <3>2 DEF Uncovered, Covered, Early
    <3> QED BY <1>6, <3>3
  <2> QED BY <2>2, <2>3
<1>9. HostInv'
  BY <1>7, <1>8 DEF HostInv
<1>10. NetsInv'
  BY NetsAnswered
<1> QED BY <1>3, <1>5, <1>9, <1>10 DEF IInv

(* Every command, whenever it arrives.                                     *)
LEMMA CommandStep ==
  ASSUME IInv, NEW c \in net, TransitionNode(c)
  PROVE  IInv'
<1>0. UNCHANGED <<stopped, drain, net, stray, faults>>
  BY DEF TransitionNode
<1>1. CASE Replayed(c) \/ ~Permitted(c)
  <2>1. UNCHANGED <<row, attempts>> /\ Answer(c, Replayed(c))
    BY <1>1 DEF TransitionNode
  <2>2. CASE Replayed(c)
    <3>1. Answer(c, TRUE)
      BY <2>1, <2>2 DEF Answer
    <3> QED BY <1>0, <2>1, <2>2, <3>1, CommandRepeats DEF Replayed
  <2>3. CASE ~Replayed(c)
    <3>1. Answer(c, FALSE)
      BY <2>1, <2>3 DEF Answer
    <3> QED BY <1>0, <2>1, <3>1, CommandRepeats
  <2> QED BY <2>2, <2>3
<1>2. CASE ~(Replayed(c) \/ ~Permitted(c))
  <2>1. \/ Apply(c) /\ Answer(c, TRUE)
        \/ UNCHANGED <<row, attempts>> /\ Answer(c, FALSE)
    BY <1>2 DEF TransitionNode
  <2>2. CASE Apply(c) /\ Answer(c, TRUE)
    BY <1>0, <1>2, <2>2, CommandEnds, CommandStarts
  <2>3. CASE UNCHANGED <<row, attempts>> /\ Answer(c, FALSE)
    BY <1>0, <2>3, CommandRepeats
  <2> QED BY <2>1, <2>2, <2>3
<1> QED BY <1>1, <1>2

-----------------------------------------------------------------------------
(* The steps of the hosts.                                                 *)

(* A host's step, alone or with a renewal of the row, that keeps what the  *)
(* invariant says of it and of its commands.                               *)
LEMMA HostStepRenews ==
  ASSUME IInv, NEW g \in Gens, NEW k \in Hosts, Set(g, k),
         RowKeeps, row' \in Rows, row'.ttl >= row.ttl,
         stopped' \subseteq Gens, drain' \in 0..Drain,
         net \subseteq net', net' \subseteq Commands, stray' \subseteq Gens,
         faults' \in 0..MaxFaults, OwnInv(g)',
         \A c \in net' : c \in net \/ c.gen = g,
         \A c \in net' : c.gen = g => NetInv(c)'
  PROVE  IInv'
<1>1. /\ host' \in [Gens -> Hosts] /\ \A j \in Gens : j # g => host'[j] = host[j]
  BY DEF IInv, TypeOK, Set
<1>2. TypeOK /\ row'.ttl \in Nat
  BY UnitAssumption DEF Rows, IInv
<1>3. RowInv'
  BY <1>2, RowKept DEF IInv
<1>4. TypeOK'
  BY <1>1 DEF IInv, TypeOK, RowKeeps
<1>5. HostInv'
  <2> SUFFICES ASSUME NEW j \in Gens, j # g PROVE OwnInv(j)'
    BY DEF HostInv
  <2>1. OwnInv(j) /\ AnswerOnly(j)
    BY <1>1, Untouched DEF IInv, HostInv
  <2> QED BY <1>2, <2>1, HostKept
<1>6. NetsInv'
  <2> SUFFICES ASSUME NEW c \in net', c.gen # g PROVE NetInv(c)'
    BY DEF NetsInv
  <2>1. NetInv(c) /\ c.gen \in Gens
    BY DEF IInv, NetsInv, TypeOK, Commands
  <2>2. host'[c.gen] = host[c.gen]
    BY <1>1, <2>1
  <2> QED BY <2>1, <2>2 DEF NetInv
<1> QED BY <1>3, <1>4, <1>5, <1>6 DEF IInv

(* The same when the row stays as it is.                                   *)
LEMMA HostStepKeeps ==
  ASSUME IInv, NEW g \in Gens, NEW k \in Hosts, Set(g, k),
         UNCHANGED <<row, attempts, stopped, drain>>,
         net \subseteq net', net' \subseteq Commands, stray' \subseteq Gens,
         faults' \in 0..MaxFaults, OwnInv(g)',
         \A c \in net' : c \in net \/ c.gen = g,
         \A c \in net' : c.gen = g => NetInv(c)'
  PROVE  IInv'
<1>1. RowKeeps /\ row' \in Rows /\ row'.ttl >= row.ttl
      /\ stopped' \subseteq Gens /\ drain' \in 0..Drain
  BY RowFacts DEF RowKeeps, IInv, TypeOK
<1> QED BY <1>1, HostStepRenews

(* What is known of a host before its step.                                *)
LEMMA HostFacts ==
  ASSUME IInv, NEW g \in Gens
  PROVE  /\ TypeOK /\ OwnInv(g) /\ host[g] \in Hosts /\ host[g].beat \in Beats
         /\ host[g].attempt \in 0..MaxAttempts /\ host[g].fence \in 0..Lease
         /\ host[g].begun \in 0..MaxAttempts /\ host[g].passed \in 0..MaxAttempts
         /\ host[g].beat.ttl \in 0..Lease /\ host[g].beat.left \in 0..Lease
         /\ row.ttl \in 0..Lease /\ row.attempt \in 0..MaxAttempts /\ row.gen \in 0..MaxGeneration
         /\ Lease \in Nat \ {0} /\ MaxAttempts \in Nat /\ NoBeat \in Beats
         /\ \A k : Set(g, k) => host'[g] = k
<1>1. TypeOK /\ OwnInv(g) /\ host[g] \in Hosts /\ row \in Rows /\ host \in [Gens -> Hosts]
  BY DEF IInv, HostInv, TypeOK
<1>2. Lease \in Nat \ {0} /\ MaxAttempts \in Nat
  BY UnitAssumption DEF MaxAttempts
<1>3. NoBeat \in Beats
  BY <1>2 DEF NoBeat, Beats
<1>4. host[g].beat \in Beats
  BY <1>1 DEF Hosts
<1> QED BY <1>1, <1>2, <1>3, <1>4 DEF Hosts, Beats, Rows, Set

(* What is left of a host that has ended.                                  *)
LEMMA GoneFacts ==
  ASSUME NEW h \in Hosts
  PROVE  /\ Gone(h) \in Hosts /\ Gone(h).pc = "gone" /\ Gone(h).begun = h.begun
         /\ Gone(h).passed = h.passed /\ Gone(h).told = "none"
<1>1. NoHost \in Hosts /\ NoHost.told = "none"
  <2>1. NoCommand \in Commands \cup {NoCommand} /\ 0 \in 0..Lease /\ 0 \in 0..MaxAttempts
    BY UnitAssumption DEF MaxAttempts
  <2>2. NoBeat \in Beats
    BY <2>1 DEF NoBeat, Beats
  <2> QED BY <2>1, <2>2 DEF NoHost, Hosts
<1>2. Gone(h) = [NoHost EXCEPT !.pc = "gone", !.begun = h.begun, !.passed = h.passed]
  BY DEF Gone
<1> QED BY <1>1, <1>2 DEF Hosts

(* A host ends: only what it did is kept, and its commands are on their own. *)
LEMMA HostEnds ==
  ASSUME IInv, NEW g \in Gens, host[g].pc # "none", Set(g, Gone(host[g])),
         UNCHANGED <<row, attempts, stopped, drain, net>>, stray' \subseteq Gens,
         faults' \in 0..MaxFaults
  PROVE  IInv'
<1> DEFINE h == host[g]
           k == Gone(h)
<1>1. /\ k \in Hosts /\ k.pc = "gone" /\ k.begun = h.begun /\ k.passed = h.passed
      /\ k.told = "none"
  BY HostFacts, GoneFacts
<1>2. host'[g] = k
  BY HostFacts
<1> HIDE DEF k
<1>3. OwnInv(g)'
  BY <1>1, <1>2, HostFacts
     DEF OwnInv, LeaseInv, KnownInv, DoneInv, Covered, Early, Asks
<1>4. \A c \in net : c.gen = g => NetInv(c)'
  <2> SUFFICES ASSUME NEW c \in net, c.gen = g PROVE NetInv(c)'
    OBVIOUS
  <2>1. NetInv(c)
    BY DEF IInv, NetsInv
  <2> QED BY <1>1, <1>2, <2>1 DEF NetInv
<1> QED BY <1>1, <1>3, <1>4, HostStepKeeps DEF k, IInv, TypeOK

(* The keeper renews and is answered: what the host knows and did stays.   *)
LEMMA KeeperStep ==
  ASSUME IInv, NEW g \in Gens, NEW k \in Hosts, Set(g, k), host[g].pc # "none",
         k.attempt = host[g].attempt, k.cmd = host[g].cmd, k.answer = host[g].answer,
         k.begun = host[g].begun, k.passed = host[g].passed, k.told = host[g].told,
         k.pc = host[g].pc \/ (Early(host[g]) /\ Early(k)),
         LeaseInv(g)',
         UNCHANGED <<row, attempts, stopped, drain, net>>, stray' \subseteq Gens,
         faults' \in 0..MaxFaults
  PROVE  IInv'
<1>1. host'[g] = k /\ OwnInv(g)
  BY HostFacts
<1>2. KnownInv(g)'
  BY <1>1 DEF OwnInv, KnownInv, Early, Asks
<1>3. DoneInv(g)'
  BY <1>1 DEF OwnInv, DoneInv, Early, Asks
<1>4. \A c \in net : c.gen = g => NetInv(c)'
  <2> SUFFICES ASSUME NEW c \in net, c.gen = g PROVE NetInv(c)'
    OBVIOUS
  <2>1. NetInv(c)
    BY DEF IInv, NetsInv
  <2> QED BY <1>1, <2>1 DEF NetInv, Early
<1> QED BY <1>2, <1>3, <1>4, HostStepKeeps DEF OwnInv, IInv, TypeOK

(* Execute.                                                                *)
LEMMA JoinStep ==
  ASSUME IInv, NEW g \in Gens, Join(g)
  PROVE  IInv'
<1> DEFINE h == host[g]
           k == [h EXCEPT !.pc = "joining", !.fence = Lease]
<1>1. /\ h.pc = "awarded" /\ Set(g, k)
      /\ UNCHANGED <<row, attempts, stopped, drain, net, stray, faults>>
  BY DEF Join
<1>2. /\ k \in Hosts /\ k.pc = "joining" /\ k.beat = h.beat /\ k.attempt = h.attempt
      /\ k.cmd = h.cmd /\ k.answer = h.answer /\ k.begun = h.begun /\ k.passed = h.passed
      /\ k.told = h.told
  <2>1. h \in Hosts /\ Lease \in 0..Lease
    BY HostFacts
  <2> QED BY <2>1 DEF Hosts
<1>3. host'[g] = k
  BY <1>1, HostFacts
<1> HIDE DEF k
<1>4. LeaseInv(g)'
  BY <1>1, <1>2, <1>3, HostFacts DEF OwnInv, LeaseInv, Covered, Asks, NoBeat
<1> QED BY <1>1, <1>2, <1>4, KeeperStep DEF Early, IInv, TypeOK

(* A renewal is sent, or given up on.                                      *)
LEMMA BeatSteps ==
  ASSUME IInv, NEW g \in Gens, SendRenew(g) \/ LoseBeat(g)
  PROVE  IInv'
<1> DEFINE h == host[g]
<1>0. /\ h.pc # "none" /\ h.pc # "awarded"
      /\ UNCHANGED <<row, attempts, stopped, drain, net>> /\ stray' \subseteq Gens
      /\ faults' \in 0..MaxFaults
  <2>1. h.pc # "none"
    BY HostFacts DEF OwnInv, KnownInv, NoHost, NoBeat, SendRenew, LoseBeat
  <2>2. h.pc # "awarded"
    BY HostFacts DEF OwnInv, LeaseInv, NoBeat, SendRenew, LoseBeat
  <2>3. stray' \subseteq Gens /\ faults' \in 0..MaxFaults
    BY UnitAssumption DEF IInv, TypeOK, SendRenew, LoseBeat, Fault
  <2> QED BY <2>1, <2>2, <2>3 DEF SendRenew, LoseBeat
<1>1. PICK b \in Beats : b.phase \in {"sent", "none"} /\ Set(g, [h EXCEPT !.beat = b])
  <2>1. CASE SendRenew(g)
    <3> DEFINE b == [NoBeat EXCEPT !.phase = "sent", !.left = Lease]
    <3>1. b \in Beats /\ b.phase = "sent"
      <4>1. NoBeat \in Beats /\ Lease \in 0..Lease
        BY HostFacts
      <4> QED BY <4>1 DEF Beats
    <3> QED BY <2>1, <3>1 DEF SendRenew
  <2>2. CASE LoseBeat(g)
    <3>1. NoBeat \in Beats /\ NoBeat.phase = "none"
      BY HostFacts DEF NoBeat
    <3> QED BY <2>2, <3>1 DEF LoseBeat
  <2> QED BY <2>1, <2>2
<1> DEFINE k == [h EXCEPT !.beat = b]
<1>2. /\ k \in Hosts /\ k.pc = h.pc /\ k.beat = b /\ k.attempt = h.attempt /\ k.fence = h.fence
      /\ k.cmd = h.cmd /\ k.answer = h.answer /\ k.begun = h.begun /\ k.passed = h.passed
      /\ k.told = h.told
  BY HostFacts DEF Hosts
<1>3. host'[g] = k
  BY <1>1, HostFacts
<1> HIDE DEF k
<1>4. LeaseInv(g)'
  BY <1>0, <1>1, <1>2, <1>3, HostFacts DEF OwnInv, LeaseInv, Covered, Asks
<1>5. Set(g, k)
  BY <1>1 DEF k
<1> QED BY <1>0, <1>2, <1>4, <1>5, KeeperStep

(* A beat is answered: the host goes on for no longer than the store holds *)
(* the job for it.                                                         *)
LEMMA ReceiveBeatStep ==
  ASSUME IInv, NEW g \in Gens, ReceiveBeat(g)
  PROVE  IInv'
<1> DEFINE h == host[g]
           b == h.beat
           k == [h EXCEPT !.fence = Fence(b), !.soft = b.cancel, !.beat = NoBeat,
                          !.pc = IF @ = "joining" THEN "idle" ELSE @]
<1>0. /\ h.pc # "none" /\ h.pc # "awarded" /\ b.phase \in {"kept", "refused"}
      /\ UNCHANGED <<row, attempts, stopped, drain, net, stray, faults>>
      /\ stray' \subseteq Gens /\ faults' \in 0..MaxFaults
  BY HostFacts DEF ReceiveBeat, OwnInv, KnownInv, LeaseInv, NoHost, NoBeat, IInv, TypeOK
<1>1. CASE Set(g, Gone(h))
  BY <1>0, <1>1, HostEnds
<1>2. CASE b.phase = "kept" /\ Fence(b) # 0 /\ Set(g, k)
  <2>1. Fence(b) \in 1..Lease /\ Fence(b) <= b.ttl /\ b.ttl > 0
    BY <1>2, HostFacts DEF Fence, Min2
  <2>2. Fence(b) \in 0..Lease /\ b.cancel \in BOOLEAN
    BY <2>1, HostFacts DEF Beats
  <2>3. (IF h.pc = "joining" THEN "idle" ELSE h.pc)
          \in {"none", "awarded", "joining", "gone"} \cup Working
    BY HostFacts DEF Hosts, Working
  <2>4. /\ k \in Hosts /\ k.pc = (IF h.pc = "joining" THEN "idle" ELSE h.pc) /\ k.beat = NoBeat
        /\ k.attempt = h.attempt /\ k.fence = Fence(b)
        /\ k.cmd = h.cmd /\ k.answer = h.answer /\ k.begun = h.begun /\ k.passed = h.passed
        /\ k.told = h.told
    BY <2>2, <2>3, HostFacts DEF Hosts
  <2>5. host'[g] = k
    BY <1>2, HostFacts
  <2> HIDE DEF k
  <2>6. Covered(k) => Covered(h) \/ h.pc = "joining"
    BY <2>4 DEF Covered, Asks
  <2>7. Covered(k) => Held(row) /\ row.gen = g /\ k.fence \in 1..row.ttl
    BY <1>2, <2>1, <2>4, <2>6, HostFacts DEF OwnInv, LeaseInv
  <2>8. LeaseInv(g)'
    BY <1>0, <2>4, <2>5, <2>7 DEF LeaseInv, NoBeat, Covered, Asks, Held
  <2>9. k.pc = h.pc \/ (Early(h) /\ Early(k))
    BY <2>4 DEF Early
  <2>10. Set(g, k)
    BY <1>2 DEF k
  <2> QED BY <1>0, <2>4, <2>8, <2>9, <2>10, KeeperStep
<1> QED BY <1>0, <1>1, <1>2 DEF ReceiveBeat

(* The host process dies.                                                  *)
LEMMA CrashStep ==
  ASSUME IInv, NEW g \in Gens, Crash(g)
  PROVE  IInv'
<1>1. host[g].pc # "none" /\ faults' \in 0..MaxFaults /\ stray' \subseteq Gens
  BY UnitAssumption DEF Crash, Working, Fault, IInv, TypeOK
<1> QED BY <1>1, HostEnds DEF Crash

(* A command that its host may send: a start before the work, anything     *)
(* else but a retry or a success too; after it, a retry or a report.       *)
Sendable(g, c, p) ==
  LET h == host[g]
  IN /\ c \in Commands /\ c.gen = g /\ c.attempt = h.attempt
     /\ h.pc \in {"awarded", "idle", "executing"}
     /\ c.op \in {"start", "retry"} => h.pc # "awarded"
     /\ c.op = "report" => c.to \in Outcomes
     /\ c.op \in Released => c.to = "none"
     /\ c.op = "report" /\ c.to = "success" => h.pc = "executing" /\ p = h.attempt
     /\ p \in {h.passed, h.attempt} /\ (p # h.passed => h.pc = "executing")

(* The host waits for the command it sent.                                 *)
LEMMA SendStep ==
  ASSUME IInv, NEW g \in Gens, NEW c, NEW p, Sendable(g, c, p),
         Send(g, [host[g] EXCEPT !.passed = p], c)
  PROVE  IInv'
<1> DEFINE h == host[g]
           k == [[h EXCEPT !.passed = p] EXCEPT !.pc = "waiting", !.cmd = c, !.answer = "none"]
<1>1. /\ Set(g, k) /\ net' = net \cup {c}
      /\ UNCHANGED <<row, attempts, stopped, drain, stray, faults>>
  BY DEF Send
<1>2. /\ c \in Commands /\ c.gen = g /\ c.attempt = h.attempt
      /\ h.pc \in {"awarded", "idle", "executing"}
      /\ c.op \in {"start", "retry"} => h.pc # "awarded"
      /\ c.op = "report" => c.to \in Outcomes
      /\ c.op \in Released => c.to = "none"
      /\ c.op = "report" /\ c.to = "success" => h.pc = "executing" /\ p = h.attempt
      /\ p \in {h.passed, h.attempt} /\ (p # h.passed => h.pc = "executing")
  BY DEF Sendable
<1>3. /\ k \in Hosts /\ k.pc = "waiting" /\ k.cmd = c /\ k.answer = "none"
      /\ k.attempt = h.attempt /\ k.fence = h.fence /\ k.beat = h.beat /\ k.begun = h.begun
      /\ k.passed = p /\ k.told = h.told
  <2>1. h \in Hosts /\ p \in 0..MaxAttempts /\ c \in Commands \cup {NoCommand}
        /\ "waiting" \in Working
    BY <1>2, HostFacts DEF Working
  <2> QED BY <2>1 DEF Hosts
<1>4. host'[g] = k
  BY <1>1, HostFacts
<1> HIDE DEF k
<1>5. LeaseInv(g)'
  <2>1. Asks(k) => Covered(h)
    BY <1>2, <1>3 DEF Asks, Covered
  <2>2. Covered(k) => Asks(k)
    BY <1>3 DEF Covered
  <2>3. row' = row
    BY <1>1
  <2> QED BY <1>3, <1>4, <2>1, <2>2, <2>3, HostFacts DEF OwnInv, LeaseInv, Covered, Asks, Held
<1>6. KnownInv(g)'
  <2>1. g <= row.gen
    BY <1>2, HostFacts DEF OwnInv, KnownInv
  <2>2. Asks(k) => row.attempt = h.attempt
    BY <1>2, <1>3, HostFacts DEF OwnInv, KnownInv, LeaseInv, Asks, Early, Covered
  <2> QED BY <1>1, <1>2, <1>3, <1>4, <2>1, <2>2, HostFacts DEF OwnInv, KnownInv, Asks, Early
<1>7. DoneInv(g)'
  <2>1. p <= h.begun
    BY <1>2, HostFacts DEF OwnInv, DoneInv
  <2>2. h.begun <= h.attempt
    BY <1>2, HostFacts DEF OwnInv, DoneInv, Early
  <2> QED BY <1>1, <1>3, <1>4, <2>1, <2>2, HostFacts DEF OwnInv, DoneInv, Asks, Early
<1>8. \A d \in net' : d.gen = g => NetInv(d)'
  <2> SUFFICES ASSUME NEW d \in net', d.gen = g PROVE NetInv(d)'
    OBVIOUS
  <2>1. CASE d = c
    BY <1>2, <1>3, <1>4, <2>1, HostFacts DEF OwnInv, DoneInv, NetInv
  <2>2. CASE d # c
    <3>1. d \in net /\ NetInv(d)
      BY <1>1, <2>2 DEF IInv, NetsInv
    <3>2. h.pc = "executing" /\ d.op \in {"start", "retry"} /\ d.attempt < h.attempt
      BY <1>2, <3>1 DEF NetInv
    <3> QED BY <1>3, <1>4, <3>2 DEF NetInv, Released
  <2> QED BY <2>1, <2>2
<1>9. net' \subseteq Commands /\ stray' \subseteq Gens /\ faults' \in 0..MaxFaults
      /\ net \subseteq net' /\ \A d \in net' : d \in net \/ d.gen = g
  BY <1>1, <1>2 DEF IInv, TypeOK
<1>10. OwnInv(g)' /\ Set(g, k)
  BY <1>1, <1>5, <1>6, <1>7 DEF OwnInv, k
<1> QED BY <1>1, <1>3, <1>8, <1>9, <1>10, HostStepKeeps

(* All the commands.                                                       *)
LEMMA SendSteps ==
  ASSUME IInv, NEW g \in Gens,
         \/ ReleaseUnit(g) \/ Relinquish(g) \/ StartExecution(g) \/ SetupFailure(g)
         \/ CompleteSuccess(g) \/ CompleteRetry(g) \/ CompleteFailure(g) \/ CompleteCancelled(g)
  PROVE  IInv'
<1> DEFINE h == host[g]
<1>1. /\ h \in Hosts /\ h.attempt \in 0..MaxAttempts /\ h = [h EXCEPT !.passed = h.passed]
  BY HostFacts DEF Hosts
<1>2. \A op \in {"start", "retry", "report", "release", "relinquish"} :
        \A o \in Outcomes \cup {"none"} :
          LET c == Command(op, g, h.attempt, o)
          IN c \in Commands /\ c.op = op /\ c.gen = g /\ c.attempt = h.attempt /\ c.to = o
  BY <1>1 DEF Command, Commands
<1>3. ASSUME NEW op \in {"start", "retry", "report", "release", "relinquish"},
             NEW o \in Outcomes \cup {"none"},
             Send(g, h, Command(op, g, h.attempt, o)),
             h.pc \in {"awarded", "idle", "executing"},
             op \in {"start", "retry"} => h.pc # "awarded",
             op = "report" => o \in Outcomes \ {"success"},
             op \in Released => o = "none"
      PROVE  IInv'
  <2> DEFINE c == Command(op, g, h.attempt, o)
  <2>1. c \in Commands /\ c.op = op /\ c.gen = g /\ c.attempt = h.attempt /\ c.to = o
    BY <1>2
  <2>2. Send(g, [h EXCEPT !.passed = h.passed], c)
    BY <1>1, <1>3
  <2> HIDE DEF c
  <2>3. Sendable(g, c, h.passed)
    BY <1>3, <2>1 DEF Sendable
  <2> QED BY <2>2, <2>3, SendStep
<1>4. "none" \in Outcomes \cup {"none"}
      /\ {"failed", "skipped", "cancelled"} \subseteq Outcomes \ {"success"}
  BY DEF Outcomes
<1>5. CASE ReleaseUnit(g)
  BY <1>3, <1>4, <1>5 DEF ReleaseUnit, Released
<1>6. CASE Relinquish(g)
  BY <1>3, <1>4, <1>6 DEF Relinquish, Released
<1>7. CASE StartExecution(g)
  BY <1>3, <1>4, <1>7 DEF StartExecution, Released
<1>8. CASE SetupFailure(g)
  <2>1. PICK o \in {"cancelled", "failed", "skipped"} :
          h.pc = "idle" /\ Send(g, h, Command("report", g, h.attempt, o))
    BY <1>8 DEF SetupFailure
  <2> QED BY <1>3, <1>4, <2>1 DEF Released
<1>9. CASE CompleteSuccess(g)
  <2> DEFINE c == Command("report", g, h.attempt, "success")
  <2>1. h.pc = "executing" /\ Send(g, [h EXCEPT !.passed = h.attempt], c)
    BY <1>9 DEF CompleteSuccess
  <2>2. c \in Commands /\ c.op = "report" /\ c.gen = g /\ c.attempt = h.attempt
        /\ c.to = "success" /\ "success" \in Outcomes
    BY <1>2 DEF Outcomes
  <2> HIDE DEF c
  <2>3. Sendable(g, c, h.attempt)
    BY <2>1, <2>2 DEF Sendable, Released
  <2> QED BY <2>1, <2>3, SendStep
<1>10. CASE CompleteRetry(g)
  BY <1>3, <1>4, <1>10 DEF CompleteRetry, Released
<1>11. CASE CompleteFailure(g)
  BY <1>3, <1>4, <1>11 DEF CompleteFailure, Released
<1>12. CASE CompleteCancelled(g)
  BY <1>3, <1>4, <1>12 DEF CompleteCancelled, Released
<1> QED BY <1>5, <1>6, <1>7, <1>8, <1>9, <1>10, <1>11, <1>12

(* The answer to the command the host waits for.                           *)
LEMMA ReceiveAnswerStep ==
  ASSUME IInv, NEW g \in Gens, ReceiveAnswer(g)
  PROVE  IInv'
<1> DEFINE h == host[g]
<1>0. /\ h.pc = "waiting" /\ h.answer \in {"ok", "refused"}
      /\ UNCHANGED <<row, attempts, stopped, drain, net, stray, faults>>
      /\ net \subseteq Commands /\ stray' \subseteq Gens /\ faults' \in 0..MaxFaults
  BY HostFacts DEF ReceiveAnswer, Hosts, IInv, TypeOK
<1>1. h.cmd \in net /\ h.cmd.gen = g /\ NetInv(h.cmd) /\ h.cmd \in Commands
  BY <1>0, HostFacts DEF OwnInv, KnownInv, IInv, NetsInv
<1>2. CASE h.answer = "refused"
  BY <1>0, <1>2, HostEnds DEF ReceiveAnswer
<1>3. CASE h.answer = "ok" /\ h.cmd.op \in {"start", "retry"}
  <2> DEFINE n == h.attempt + 1
             k == [h EXCEPT !.pc = "executing", !.attempt = n, !.begun = n,
                            !.cmd = NoCommand, !.answer = "none"]
  <2>1. Set(g, k)
    BY <1>3 DEF ReceiveAnswer
  <2>2. Asks(h) /\ row.attempt = n /\ row.state = "running" /\ row.gen = g
    BY <1>0, <1>3, HostFacts DEF OwnInv, KnownInv, LeaseInv, Asks, Covered
  <2>3. /\ k \in Hosts /\ k.pc = "executing" /\ k.attempt = n /\ k.begun = n /\ k.fence = h.fence
        /\ k.beat = h.beat /\ k.passed = h.passed /\ k.told = h.told
    <3>1. h \in Hosts /\ n \in 0..MaxAttempts /\ NoCommand \in Commands \cup {NoCommand}
          /\ "executing" \in Working
      BY <2>2, HostFacts DEF Working
    <3> QED BY <3>1 DEF Hosts
  <2>4. host'[g] = k
    BY <2>1, HostFacts
  <2> HIDE DEF k
  <2>5. LeaseInv(g)'
    BY <1>0, <2>2, <2>3, <2>4, HostFacts DEF OwnInv, LeaseInv, Covered, Asks, Held
  <2>6. KnownInv(g)'
    BY <1>0, <2>2, <2>3, <2>4, HostFacts DEF OwnInv, KnownInv, Early, Asks
  <2>7. DoneInv(g)'
    <3>1. attempts[n].gen = g
      BY <2>2 DEF IInv, RowInv, AttemptsInv
    <3>2. h.passed <= n /\ n # 0 /\ n \in Nat
      BY <2>2, HostFacts DEF OwnInv, DoneInv
    <3> QED BY <1>0, <2>2, <2>3, <2>4, <3>1, <3>2 DEF DoneInv, Early, Asks
  <2>8. \A c \in net' : c.gen = g => NetInv(c)'
    <3> SUFFICES ASSUME NEW c \in net, c.gen = g PROVE NetInv(c)'
      BY <1>0
    <3>1. NetInv(c) /\ c \in Commands
      BY <1>0 DEF IInv, NetsInv
    <3>2. c.op \in {"start", "retry"} /\ c.attempt < n
      <4>1. c = h.cmd \/ (c.op \in {"start", "retry"} /\ c.attempt < h.attempt)
        BY <1>0, <3>1 DEF NetInv
      <4>2. h.cmd.attempt = h.attempt /\ h.attempt \in Nat /\ c.attempt \in Nat
        BY <1>0, <3>1, HostFacts DEF OwnInv, KnownInv, Commands
      <4> QED BY <1>3, <4>1, <4>2
    <3> QED BY <2>3, <2>4, <3>2 DEF NetInv, Released
  <2>9. OwnInv(g)' /\ Set(g, k) /\ net' = net
    BY <1>0, <2>1, <2>5, <2>6, <2>7 DEF OwnInv, k
  <2> QED BY <1>0, <2>3, <2>8, <2>9, HostStepKeeps
<1>4. CASE h.answer = "ok" /\ h.cmd.op \notin {"start", "retry"}
  <2> DEFINE k == [Gone(h) EXCEPT !.told = h.cmd.to]
  <2>1. Set(g, k)
    BY <1>4 DEF ReceiveAnswer
  <2>2. /\ k \in Hosts /\ k.pc = "gone" /\ k.begun = h.begun /\ k.passed = h.passed
        /\ k.told = h.cmd.to
    <3>1. Gone(h) \in Hosts /\ Gone(h).pc = "gone" /\ Gone(h).begun = h.begun
          /\ Gone(h).passed = h.passed
      BY HostFacts, GoneFacts
    <3>2. h.cmd.to \in Outcomes \cup {"none"}
      BY <1>1 DEF Commands
    <3> QED BY <3>1, <3>2 DEF Hosts
  <2>3. host'[g] = k
    BY <2>1, HostFacts
  <2> HIDE DEF k
  <2>4. k.told # "none" => row.state = k.told
    <3>1. h.cmd.op = "report" => row.state = h.cmd.to
      BY <1>0, <1>4, HostFacts DEF OwnInv, KnownInv
    <3>2. h.cmd.op \in Released => h.cmd.to = "none"
      BY <1>1 DEF NetInv
    <3>3. h.cmd.op = "report" \/ h.cmd.op \in Released
      BY <1>1, <1>4 DEF Commands, Released
    <3> QED BY <2>2, <3>1, <3>2, <3>3
  <2>5. OwnInv(g)'
    BY <1>0, <2>2, <2>3, <2>4, HostFacts
       DEF OwnInv, LeaseInv, KnownInv, DoneInv, Covered, Early, Asks
  <2>6. \A c \in net' : c.gen = g => NetInv(c)'
    <3> SUFFICES ASSUME NEW c \in net, c.gen = g PROVE NetInv(c)'
      BY <1>0
    <3>1. NetInv(c)
      BY DEF IInv, NetsInv
    <3> QED BY <2>2, <2>3, <3>1 DEF NetInv
  <2>7. Set(g, k) /\ net' = net
    BY <1>0, <2>1 DEF k
  <2> QED BY <1>0, <2>2, <2>5, <2>6, <2>7, HostStepKeeps
<1> QED BY <1>0, <1>2, <1>3, <1>4

-----------------------------------------------------------------------------
(* Renewals and time.                                                      *)

(* A renewal never shortens the lease, whatever bounds it.                 *)
LEMMA RenewedFacts ==
  ASSUME TypeOK, NEW g \in Gens, Holds(g), Renewed(g), attempts' = attempts
  PROVE  /\ RowKeeps /\ row' \in Rows /\ row'.ttl >= row.ttl
         /\ stopped' \subseteq Gens /\ drain' \in 0..Drain
<1>0. /\ row \in Rows /\ row.ttl \in 0..Lease /\ Held(row) /\ drain \in 0..Drain
      /\ stopped \subseteq Gens /\ Lease \in Nat /\ Drain \in Nat /\ Drain \in 0..Drain
      /\ NoCommand \in Commands \cup {NoCommand}
  BY UnitAssumption DEF TypeOK, Rows, Holds
<1>1. ASSUME NEW b \in Bounds(g), row' = [row EXCEPT !.ttl = b], UNCHANGED <<stopped, drain>>
      PROVE  /\ RowKeeps /\ row' \in Rows /\ row'.ttl >= row.ttl
             /\ stopped' \subseteq Gens /\ drain' \in 0..Drain
  <2>1. b \in 0..Lease /\ b >= row.ttl
    BY <1>0, <1>1 DEF Bounds, Min2
  <2>2. /\ row' \in Rows /\ row'.ttl = b /\ row'.state = row.state /\ row'.gen = row.gen
        /\ row'.attempt = row.attempt /\ row'.disruptions = row.disruptions
        /\ row'.cancel = row.cancel /\ row'.last = row.last
    BY <1>0, <1>1, <2>1 DEF Rows
  <2> QED BY <1>0, <1>1, <2>1, <2>2 DEF RowKeeps
<1>2. CASE stopped' = stopped \cup {g} /\ UNCHANGED <<row, drain>>
  BY <1>0, <1>2 DEF RowKeeps
<1>3. CASE stopped' = stopped \cup {g} /\ row' = Cancelled /\ drain' = Drain
  <2>1. row' = [row EXCEPT !.cancel = TRUE, !.last = NoCommand]
    BY <1>0, <1>3 DEF Cancelled, Internal
  <2>2. /\ row' \in Rows /\ row'.ttl = row.ttl /\ row'.state = row.state /\ row'.gen = row.gen
        /\ row'.attempt = row.attempt /\ row'.disruptions = row.disruptions
        /\ row'.last = NoCommand
    BY <1>0, <2>1 DEF Rows
  <2> QED BY <1>0, <1>3, <2>2 DEF RowKeeps
<1> QED BY <1>1, <1>2, <1>3 DEF Renewed

(* A renewal reaches the store.                                            *)
LEMMA RenewStep ==
  ASSUME IInv, NEW g \in Gens, RenewNodeClaim(g)
  PROVE  IInv'
<1> DEFINE h == host[g]
<1>0. /\ h.beat.phase = "sent" /\ UNCHANGED <<attempts, net, stray, faults>>
      /\ stray' \subseteq Gens /\ faults' \in 0..MaxFaults /\ net \subseteq Commands
  BY DEF RenewNodeClaim, IInv, TypeOK
<1>1. h.pc # "none" /\ h.pc # "awarded"
  BY <1>0, HostFacts DEF OwnInv, KnownInv, LeaseInv, NoHost, NoBeat
<1>2. ASSUME NEW b \in Beats, Set(g, [h EXCEPT !.beat = b]),
             RowKeeps, row' \in Rows, row'.ttl >= row.ttl,
             stopped' \subseteq Gens, drain' \in 0..Drain,
             b.phase = "kept" => b.ttl <= row'.ttl /\ Held(row) /\ row.gen = g
      PROVE  IInv'
  <2> DEFINE k == [h EXCEPT !.beat = b]
  <2>1. /\ k \in Hosts /\ k.pc = h.pc /\ k.beat = b /\ k.attempt = h.attempt /\ k.fence = h.fence
        /\ k.cmd = h.cmd /\ k.answer = h.answer /\ k.begun = h.begun /\ k.passed = h.passed
        /\ k.told = h.told
    BY HostFacts DEF Hosts
  <2>2. host'[g] = k /\ Set(g, k)
    BY <1>2, HostFacts
  <2> HIDE DEF k
  <2>3. row'.state = row.state /\ row'.gen = row.gen /\ row'.attempt = row.attempt
        /\ row'.ttl \in Nat
    BY <1>2, HostFacts DEF RowKeeps, Rows
  <2>4. LeaseInv(g)'
    BY <1>1, <1>2, <2>1, <2>2, <2>3, HostFacts DEF OwnInv, LeaseInv, Covered, Asks, Held
  <2>5. KnownInv(g)'
    BY <1>0, <1>1, <2>1, <2>2, <2>3, HostFacts DEF OwnInv, KnownInv, Early, Asks, Held
  <2>6. DoneInv(g)'
    BY <1>0, <2>1, <2>2, <2>3, HostFacts DEF OwnInv, DoneInv, Early, Asks
  <2>7. \A c \in net' : c.gen = g => NetInv(c)'
    <3> SUFFICES ASSUME NEW c \in net, c.gen = g PROVE NetInv(c)'
      BY <1>0
    <3>1. NetInv(c)
      BY DEF IInv, NetsInv
    <3> QED BY <2>1, <2>2, <3>1 DEF NetInv
  <2>8. OwnInv(g)' /\ net' = net
    BY <1>0, <2>4, <2>5, <2>6 DEF OwnInv
  <2> QED BY <1>0, <1>2, <2>1, <2>2, <2>7, <2>8, HostStepRenews
<1>3. CASE Holds(g) /\ Renewed(g)
           /\ Set(g, [h EXCEPT !.beat.phase = "kept", !.beat.ttl = row'.ttl,
                               !.beat.cancel = row'.cancel])
  <2> DEFINE b == [h.beat EXCEPT !.phase = "kept", !.ttl = row'.ttl, !.cancel = row'.cancel]
  <2>1. /\ RowKeeps /\ row' \in Rows /\ row'.ttl >= row.ttl
        /\ stopped' \subseteq Gens /\ drain' \in 0..Drain
    BY <1>0, <1>3, HostFacts, RenewedFacts
  <2>2. row'.ttl \in 0..Lease /\ row'.cancel \in BOOLEAN
    BY <2>1 DEF Rows
  <2>3. b \in Beats /\ b.ttl = row'.ttl
    BY <2>2, HostFacts DEF Beats
  <2>4. Set(g, [h EXCEPT !.beat = b])
    <3>1. [h EXCEPT !.beat.phase = "kept", !.beat.ttl = row'.ttl, !.beat.cancel = row'.cancel]
          = [h EXCEPT !.beat = b]
      BY HostFacts DEF Hosts, Beats
    <3> QED BY <1>3, <3>1
  <2> HIDE DEF b
  <2> QED BY <1>2, <1>3, <2>1, <2>2, <2>3, <2>4, HostFacts DEF Holds
<1>4. CASE ~Holds(g) /\ UNCHANGED <<row, stopped, drain>>
           /\ Set(g, [h EXCEPT !.beat.phase = "refused"])
  <2> DEFINE b == [h.beat EXCEPT !.phase = "refused"]
  <2>1. b \in Beats /\ b.phase = "refused"
    BY HostFacts DEF Beats
  <2>2. Set(g, [h EXCEPT !.beat = b])
    <3>1. [h EXCEPT !.beat.phase = "refused"] = [h EXCEPT !.beat = b]
      BY HostFacts DEF Hosts
    <3> QED BY <1>4, <3>1
  <2> HIDE DEF b
  <2>3. /\ RowKeeps /\ row' \in Rows /\ row'.ttl >= row.ttl
        /\ stopped' \subseteq Gens /\ drain' \in 0..Drain
    BY <1>0, <1>4, HostFacts DEF RowKeeps, IInv, TypeOK
  <2> QED BY <1>2, <2>1, <2>2, <2>3
<1> QED BY <1>3, <1>4 DEF RenewNodeClaim

(* A renewal its host has given up on reaches the store.                   *)
LEMMA StrayStep ==
  ASSUME IInv, NEW g \in Gens, StrayRenew(g)
  PROVE  IInv'
<1>0. UNCHANGED <<attempts, host, net, faults>> /\ stray' \subseteq Gens /\ TypeOK
  BY DEF StrayRenew, IInv, TypeOK
<1>1. /\ RowKeeps /\ row' \in Rows /\ row'.ttl >= row.ttl
      /\ stopped' \subseteq Gens /\ drain' \in 0..Drain
  <2>1. CASE Holds(g)
    BY <1>0, <2>1, RenewedFacts DEF StrayRenew
  <2>2. CASE ~Holds(g)
    BY <1>0, <2>2, RowFacts DEF StrayRenew, RowKeeps, TypeOK
  <2> QED BY <2>1, <2>2
<1> QED BY <1>0, <1>1, StoreKeeps

(* A tick shortens the host's time with the lease's.                       *)
LEMMA TickedFacts ==
  ASSUME IInv, NEW g \in Gens
  PROVE  LET h == host[g]
             k == Ticked(h)
         IN /\ k \in Hosts
            /\ \/ k = h /\ ~Covered(h) /\ h.pc # "joining"
               \/ k = Gone(h) /\ h.pc # "none"
               \/ /\ h.pc # "awarded" /\ h.pc # "none"
                  /\ k.pc = h.pc /\ k.attempt = h.attempt /\ k.cmd = h.cmd /\ k.answer = h.answer
                  /\ k.begun = h.begun /\ k.passed = h.passed /\ k.told = h.told
                  /\ k.fence = h.fence - 1 /\ k.fence >= 1
                  /\ k.beat.phase = h.beat.phase /\ k.beat.ttl = Less(h.beat.ttl)
<1> DEFINE h == host[g]
<1>1. CASE h.pc \in {"none", "awarded", "gone"} \/ (h.pc = "waiting" /\ h.fence = 0)
  <2>1. Ticked(h) = h
    BY <1>1 DEF Ticked
  <2>2. ~Covered(h) /\ h.pc # "joining"
    BY <1>1, HostFacts DEF OwnInv, LeaseInv, Covered, Asks
  <2> QED BY <2>1, <2>2, HostFacts
<1>2. CASE ~(h.pc \in {"none", "awarded", "gone"} \/ (h.pc = "waiting" /\ h.fence = 0))
           /\ h.fence <= 1
  <2>1. Ticked(h) = Gone(h) /\ h.pc # "none"
    BY <1>2 DEF Ticked
  <2> QED BY <2>1, GoneFacts, HostFacts
<1>3. CASE ~(h.pc \in {"none", "awarded", "gone"} \/ (h.pc = "waiting" /\ h.fence = 0))
           /\ ~(h.fence <= 1)
  <2> DEFINE b == [h.beat EXCEPT !.left = Less(@), !.ttl = Less(@)]
             k == [h EXCEPT !.fence = @ - 1, !.beat = b]
  <2>1. b \in Beats /\ b.phase = h.beat.phase /\ b.ttl = Less(h.beat.ttl)
    <3>1. Less(h.beat.ttl) \in 0..Lease /\ Less(h.beat.left) \in 0..Lease
      BY HostFacts DEF Less
    <3> QED BY <3>1, HostFacts DEF Beats
  <2>2. Ticked(h) = k
    <3>1. Ticked(h) = [h EXCEPT !.fence = @ - 1, !.beat.left = Less(@), !.beat.ttl = Less(@)]
      BY <1>3 DEF Ticked
    <3>2. [h EXCEPT !.fence = @ - 1, !.beat.left = Less(@), !.beat.ttl = Less(@)] = k
      BY HostFacts DEF Hosts, Beats
    <3> QED BY <3>1, <3>2
  <2> HIDE DEF b
  <2>3. h.fence - 1 \in 0..Lease /\ h.fence - 1 >= 1
    BY <1>3, HostFacts
  <2>4. /\ k \in Hosts /\ k.pc = h.pc /\ k.attempt = h.attempt /\ k.cmd = h.cmd
        /\ k.answer = h.answer /\ k.begun = h.begun /\ k.passed = h.passed /\ k.told = h.told
        /\ k.fence = h.fence - 1 /\ k.beat = b
    <3>1. h \in Hosts
      BY HostFacts
    <3> QED BY <2>1, <2>3, <3>1 DEF Hosts
  <2> HIDE DEF k
  <2> QED BY <1>3, <2>1, <2>2, <2>3, <2>4
<1> QED BY <1>1, <1>2, <1>3

(* Time passes everywhere at once.                                         *)
LEMMA TickStep ==
  ASSUME IInv, Tick
  PROVE  IInv'
<1>1. /\ row' = [row EXCEPT !.ttl = Less(@)] /\ host' = [g \in Gens |-> Ticked(host[g])]
      /\ UNCHANGED <<attempts, stopped, net, stray, faults>>
      /\ row \in Rows /\ row.ttl \in 0..Lease /\ TypeOK
  BY UnitAssumption DEF Tick, IInv, TypeOK, Rows
<1>2. Less(row.ttl) \in 0..Lease /\ drain' \in 0..Drain
  BY <1>1, UnitAssumption DEF Less, Tick, IInv, TypeOK
<1>3. /\ row' \in Rows /\ row'.ttl = Less(row.ttl) /\ row'.state = row.state /\ row'.gen = row.gen
      /\ row'.attempt = row.attempt /\ row'.disruptions = row.disruptions
      /\ row'.cancel = row.cancel /\ row'.last = row.last
  BY <1>1, <1>2 DEF Rows
<1>4. RowKeeps
  BY <1>1, <1>3 DEF RowKeeps
<1>5. RowInv'
  BY <1>1, <1>4, RowKept DEF IInv
<1>6. TypeOK'
  <2>1. \A g \in Gens : Ticked(host[g]) \in Hosts
    BY TickedFacts
  <2> QED BY <1>1, <1>2, <1>3, <2>1 DEF IInv, TypeOK
<1>7. ASSUME NEW g \in Gens PROVE OwnInv(g)'
  <2> DEFINE h == host[g]
             k == Ticked(h)
  <2>1. /\ k \in Hosts
        /\ \/ k = h /\ ~Covered(h) /\ h.pc # "joining"
           \/ k = Gone(h) /\ h.pc # "none"
           \/ /\ h.pc # "awarded" /\ h.pc # "none"
              /\ k.pc = h.pc /\ k.attempt = h.attempt /\ k.cmd = h.cmd /\ k.answer = h.answer
              /\ k.begun = h.begun /\ k.passed = h.passed /\ k.told = h.told
              /\ k.fence = h.fence - 1 /\ k.fence >= 1
              /\ k.beat.phase = h.beat.phase /\ k.beat.ttl = Less(h.beat.ttl)
    BY TickedFacts
  <2>2. host'[g] = k /\ OwnInv(g) /\ net' = net /\ attempts' = attempts
    BY <1>1, HostFacts
  <2> HIDE DEF k
  <2>3. CASE k = h /\ ~Covered(h) /\ h.pc # "joining"
    <3>1. LeaseInv(g)'
      BY <2>2, <2>3 DEF OwnInv, LeaseInv, Covered, Asks
    <3>2. KnownInv(g)'
      BY <1>3, <2>2, <2>3 DEF OwnInv, KnownInv, Early, Asks, Held
    <3>3. DoneInv(g)'
      BY <1>3, <2>2, <2>3 DEF OwnInv, DoneInv, Early, Asks
    <3> QED BY <3>1, <3>2, <3>3 DEF OwnInv
  <2>4. CASE k = Gone(h) /\ h.pc # "none"
    <3>1. k.pc = "gone" /\ k.begun = h.begun /\ k.passed = h.passed /\ k.told = "none"
      BY <2>4, GoneFacts, HostFacts
    <3> QED BY <1>3, <2>2, <2>4, <3>1
            DEF OwnInv, LeaseInv, KnownInv, DoneInv, Covered, Early, Asks
  <2>5. CASE /\ h.pc # "awarded" /\ h.pc # "none"
             /\ k.pc = h.pc /\ k.attempt = h.attempt /\ k.cmd = h.cmd /\ k.answer = h.answer
             /\ k.begun = h.begun /\ k.passed = h.passed /\ k.told = h.told
             /\ k.fence = h.fence - 1 /\ k.fence >= 1
             /\ k.beat.phase = h.beat.phase /\ k.beat.ttl = Less(h.beat.ttl)
    <3>1. LeaseInv(g)'
      <4>1. Covered(k) <=> Covered(h)
        BY <2>5 DEF Covered, Asks
      <4>2. Covered(h) => Held(row) /\ row.gen = g /\ k.fence \in 1..row'.ttl
        BY <1>3, <2>2, <2>5, HostFacts DEF OwnInv, LeaseInv, Less
      <4>3. (Covered(h) \/ h.pc = "joining") /\ h.beat.phase = "kept" /\ k.beat.ttl > 0 =>
              Held(row) /\ row.gen = g /\ k.beat.ttl <= row'.ttl
        BY <1>3, <2>2, <2>5, HostFacts DEF OwnInv, LeaseInv, Less
      <4> QED BY <1>3, <2>2, <2>5, <4>1, <4>2, <4>3 DEF LeaseInv, Held
    <3>2. KnownInv(g)'
      BY <1>3, <2>2, <2>5 DEF OwnInv, KnownInv, Early, Asks, Held
    <3>3. DoneInv(g)'
      BY <1>3, <2>2, <2>5 DEF OwnInv, DoneInv, Early, Asks
    <3> QED BY <3>1, <3>2, <3>3 DEF OwnInv
  <2> QED BY <2>1, <2>3, <2>4, <2>5
<1>8. NetsInv'
  <2> SUFFICES ASSUME NEW c \in net PROVE NetInv(c)'
    BY <1>1 DEF NetsInv
  <2> DEFINE h == host[c.gen]
             k == Ticked(h)
  <2>1. NetInv(c) /\ c.gen \in Gens
    BY DEF IInv, NetsInv, TypeOK, Commands
  <2>2. host'[c.gen] = k
    BY <1>1, <2>1
  <2>3. \/ k = h
        \/ k.pc = "gone" /\ k.begun = h.begun /\ k.passed = h.passed
        \/ /\ k.pc = h.pc /\ k.attempt = h.attempt /\ k.cmd = h.cmd
           /\ k.begun = h.begun /\ k.passed = h.passed
    BY <2>1, TickedFacts, GoneFacts, HostFacts
  <2> HIDE DEF k
  <2> QED BY <2>1, <2>2, <2>3 DEF NetInv
<1>9. HostInv'
  BY <1>7 DEF HostInv
<1> QED BY <1>5, <1>6, <1>8, <1>9 DEF IInv

-----------------------------------------------------------------------------
(* The theorems.                                                           *)

(* A job nobody has claimed.                                               *)
LEMMA InitSound == Init => IInv
<1> SUFFICES ASSUME Init PROVE IInv
  OBVIOUS
<1>1. /\ row.state = "pending" /\ row.gen = 0 /\ row.attempt = 0 /\ row.disruptions = 0
      /\ row.ttl = 0 /\ row.cancel = FALSE /\ row.last = NoCommand
      /\ attempts = <<>> /\ stopped = {} /\ drain = 0 /\ net = {} /\ stray = {} /\ faults = 0
      /\ host = [g \in Gens |-> NoHost]
  BY DEF Init, Internal
<1>2. NoHost \in Hosts
  <2>1. NoCommand \in Commands \cup {NoCommand} /\ 0 \in 0..Lease /\ 0 \in 0..MaxAttempts
    BY UnitAssumption DEF MaxAttempts
  <2>2. NoBeat \in Beats
    BY <2>1 DEF NoBeat, Beats
  <2> QED BY <2>1, <2>2 DEF NoHost, Hosts
<1>3. row \in Rows
  <2>1. NoCommand \in Commands \cup {NoCommand} /\ 0 \in 0..Lease /\ 0 \in 0..MaxAttempts
        /\ 0 \in 0..MaxGeneration /\ 0 \in 0..MaxDisruptions /\ "pending" \in States
    BY UnitAssumption DEF MaxAttempts, States
  <2> QED BY <2>1 DEF Init, Internal, Rows
<1>4. TypeOK
  BY <1>1, <1>2, <1>3, UnitAssumption DEF TypeOK
<1>5. AttemptsInv
  BY <1>1 DEF AttemptsInv
<1>6. BudgetInv
  BY <1>1, UnitAssumption DEF BudgetInv, NoCommand
<1>7. ApplicationRetries <= Retries
  <2>1. GensOf(attempts) = {} /\ Len(attempts) = 0
    BY <1>1 DEF GensOf
  <2> QED BY <2>1, RetriesAre, FS_EmptySet, UnitAssumption
<1>8. HostInv
  <2> SUFFICES ASSUME NEW g \in Gens PROVE OwnInv(g)
    BY DEF HostInv
  <2>1. host[g] = NoHost
    BY <1>1
  <2> QED BY <1>1, <2>1
          DEF OwnInv, LeaseInv, KnownInv, DoneInv, Covered, Asks, Early, NoHost
<1>9. NetsInv
  BY <1>1 DEF NetsInv
<1> QED BY <1>4, <1>5, <1>6, <1>7, <1>8, <1>9 DEF IInv, RowInv

(* Every step keeps the invariant.                                         *)
LEMMA NextSound == IInv /\ [Next]_vars => IInv'
<1> SUFFICES ASSUME IInv, [Next]_vars PROVE IInv'
  OBVIOUS
<1>1. CASE UNCHANGED vars
  <2>1. RowKeeps /\ row' \in Rows /\ row'.ttl >= row.ttl /\ drain' \in 0..Drain
        /\ stopped' \subseteq Gens /\ stray' \subseteq Gens /\ UNCHANGED <<host, net, faults>>
    BY <1>1, RowFacts DEF vars, RowKeeps, IInv, TypeOK
  <2> QED BY <2>1, StoreKeeps
<1>2. CASE Next
  <2>1. CASE \/ OwnerRelease \/ OwnerRevoke \/ QueueTimeout
             \/ (\E o \in {"skipped", "failed", "cancelled"} : OwnerSettle(o))
    BY <2>1, QueueSteps
  <2>2. CASE CancelNode
    BY <2>2, QueueSteps, CancelStep
  <2>3. CASE \E b \in 1..Lease : ClaimUnit(b)
    BY <2>3, ClaimStep
  <2>4. ASSUME NEW g \in Gens, HostStep(g) PROVE IInv'
    BY <2>4, JoinStep, BeatSteps, ReceiveBeatStep, CrashStep, SendSteps, ReceiveAnswerStep
       DEF HostStep
  <2>5. CASE \E g \in Gens : HostStep(g) \/ RenewNodeClaim(g) \/ StrayRenew(g)
    BY <2>4, <2>5, RenewStep, StrayStep
  <2>6. CASE \E c \in net : TransitionNode(c)
    BY <2>6, CommandStep
  <2>7. CASE ReapNodeUnit
    BY <2>7, ReapStep
  <2>8. CASE Tick
    BY <2>8, TickStep
  <2> QED BY <1>2, <2>1, <2>2, <2>3, <2>5, <2>6, <2>7, <2>8 DEF Next
<1> QED BY <1>1, <1>2

(* The invariant holds throughout.                                         *)
THEOREM LeasesSound == Spec => []IInv
<1>1. Init => IInv
  BY InitSound
<1>2. IInv /\ [Next]_vars => IInv'
  BY NextSound
<1> QED BY <1>1, <1>2, PTL DEF Spec

(* Every variable stays in its range: the attempts stay within the awards  *)
(* and the retry budget, the disruptions within their limit.               *)
THEOREM LeasesTyped == Spec => []TypeOK
<1>1. IInv => TypeOK
  BY DEF IInv
<1> QED BY <1>1, LeasesSound, PTL

(* The row agrees with its attempts: the integrity checks of nodeState and *)
(* of the attempt closure never fire, whatever a host sends and whenever   *)
(* it arrives.                                                             *)
THEOREM RowAgrees == Spec => []StoreSound
<1>1. IInv => StoreSound
  <2> SUFFICES ASSUME IInv PROVE StoreSound
    OBVIOUS
  <2>1. \A g \in Gens : host[g].told # "none" => row.state = host[g].told
    BY DEF IInv, HostInv, OwnInv, KnownInv
  <2> QED BY <2>1 DEF StoreSound, IInv, RowInv, AttemptsInv, BudgetInv
<1> QED BY <1>1, LeasesSound, PTL

(* A host that works on an attempt holds the job, under that attempt, for  *)
(* at least as long as its keeper lets it go on.                           *)
THEOREM LeaseCoversWork == Spec => []WorkIsCovered
<1>1. IInv => WorkIsCovered
  <2> SUFFICES ASSUME IInv, NEW g \in Gens, host[g].pc = "executing"
               PROVE  /\ row.state = "running" /\ row.gen = g /\ row.attempt = host[g].attempt
                      /\ host[g].fence \in 1..row.ttl
    BY DEF WorkIsCovered
  <2> QED BY DEF IInv, HostInv, OwnInv, LeaseInv, KnownInv, Covered
<1> QED BY <1>1, LeasesSound, PTL

(* A claim whose lease runs is only ended by a command of its holder: not  *)
(* by the reaper, the owner, a claimant, a cancellation or another host.   *)
THEOREM ClaimsStay == Spec => LiveClaimsStay
<1> DEFINE Stays == LET g == row.gen IN
      Holds(g) /\ ~(Held(row') /\ row'.gen = g) => row'.last \in net /\ row'.last.gen = g
<1>1. IInv /\ [Next]_vars => [Stays]_vars
  <2> SUFFICES ASSUME IInv, Next, Held(row), row.ttl > 0, ~(Held(row') /\ row'.gen = row.gen)
               PROVE  row'.last \in net /\ row'.last.gen = row.gen
    BY DEF Holds
  <2>0. row.state \in {"claimed", "running"} /\ row \in Rows
    BY DEF Held, IInv, TypeOK
  <2>1. CASE \/ OwnerRelease \/ OwnerRevoke \/ QueueTimeout
             \/ (\E o \in {"skipped", "failed", "cancelled"} : OwnerSettle(o))
             \/ (\E b \in 1..Lease : ClaimUnit(b))
    BY <2>0, <2>1 DEF OwnerRelease, OwnerRevoke, QueueTimeout, Overdue, OwnerSettle, ClaimUnit
  <2>2. CASE CancelNode
    BY <2>0, <2>2 DEF CancelNode, Cancelled, Held, Rows
  <2>3. ASSUME NEW g \in Gens, HostStep(g) PROVE row' = row
    BY <2>3 DEF HostStep, Join, SendRenew, LoseBeat, ReceiveBeat, Crash, ReleaseUnit, Relinquish,
       StartExecution, SetupFailure, CompleteSuccess, CompleteRetry, CompleteFailure,
       CompleteCancelled, ReceiveAnswer, Send
  <2>4. ASSUME NEW g \in Gens, RenewNodeClaim(g) \/ StrayRenew(g)
        PROVE  row' = row \/ RowKeeps
    BY <2>4, RenewedFacts DEF RenewNodeClaim, StrayRenew, IInv
  <2>5. ASSUME NEW c \in net, TransitionNode(c)
        PROVE  row' = row \/ (row'.last = c /\ c.gen = row.gen)
    <3>1. CASE UNCHANGED <<row, attempts>>
      BY <3>1
    <3>2. CASE Permitted(c) /\ Apply(c)
      <4>1. c.gen = row.gen /\ c \in Commands
        BY <3>2 DEF Permitted, Holds, IInv, TypeOK
      <4>2. c.op \in {"start", "retry", "report", "release", "relinquish"}
        BY <4>1 DEF Commands
      <4>3. row'.last = c
        BY <2>0, <3>2, <4>2 DEF Apply, Cleared, Rows
      <4> QED BY <4>1, <4>3
    <3> QED BY <2>5, <3>1, <3>2 DEF TransitionNode
  <2>6. CASE ReapNodeUnit
    BY <2>6, RowFacts DEF ReapNodeUnit, Lapsed, IInv
  <2>7. CASE Tick
    BY <2>0, <2>7 DEF Tick, Held, Rows
  <2> QED BY <2>1, <2>2, <2>3, <2>4, <2>5, <2>6, <2>7 DEF Next, RowKeeps, Held
<1> QED BY <1>1, LeasesSound, PTL DEF Spec, LiveClaimsStay

-----------------------------------------------------------------------------
(* The refinement of UnitWork.                                             *)

(* A host that is not seen to do anything, unless it stops working.        *)
Silent(h, k) ==
  /\ k.begun = h.begun /\ k.passed = h.passed
  /\ k.pc = "executing" => h.pc = "executing" /\ k.attempt = h.attempt

Idle == \A g \in Gens : host[g].pc # "executing"

(* What the refinement mapping sees is made of ordinals.                   *)
LEMMA SeenTyped ==
  TypeOK => /\ Executing \in [Gens -> 0..MaxAttempts] /\ Begun \in [Gens -> 0..MaxAttempts]
            /\ Succeeded \in [Gens -> 0..MaxAttempts]
<1> SUFFICES ASSUME TypeOK
             PROVE  /\ Executing \in [Gens -> 0..MaxAttempts] /\ Begun \in [Gens -> 0..MaxAttempts]
                    /\ Succeeded \in [Gens -> 0..MaxAttempts]
  OBVIOUS
<1>1. \A g \in Gens : host[g] \in Hosts
  BY DEF TypeOK
<1>2. 0 \in 0..MaxAttempts
  BY UnitAssumption DEF MaxAttempts
<1>3. \A g \in Gens : /\ host[g].attempt \in 0..MaxAttempts /\ host[g].begun \in 0..MaxAttempts
                      /\ host[g].passed \in 0..MaxAttempts
  BY <1>1 DEF Hosts
<1> QED BY <1>2, <1>3 DEF Executing, Begun, Succeeded

(* After a step as well.                                                   *)
LEMMA SeenTypedAfter ==
  TypeOK' => /\ Executing' \in [Gens -> 0..MaxAttempts] /\ Begun' \in [Gens -> 0..MaxAttempts]
             /\ Succeeded' \in [Gens -> 0..MaxAttempts]
<1>1. (TypeOK => /\ Executing \in [Gens -> 0..MaxAttempts] /\ Begun \in [Gens -> 0..MaxAttempts]
                 /\ Succeeded \in [Gens -> 0..MaxAttempts])'
  BY SeenTyped, PTL
<1> QED BY <1>1

(* Whoever works is the one, on the row's attempt.                         *)
LEMMA WorkerIs ==
  IInv => /\ Idle => Most(Executing) = 0
          /\ ~Idle => Most(Executing) = row.attempt /\ row.attempt \in Nat \ {0}
          /\ \A g \in Gens : host[g].pc = "executing" =>
               row.gen = g /\ row.state = "running" /\ row.ttl > 0 /\ host[g].attempt = row.attempt
<1> SUFFICES ASSUME IInv
             PROVE  /\ Idle => Most(Executing) = 0
                    /\ ~Idle => Most(Executing) = row.attempt /\ row.attempt \in Nat \ {0}
                    /\ \A g \in Gens : host[g].pc = "executing" =>
                         /\ row.gen = g /\ row.state = "running" /\ row.ttl > 0
                         /\ host[g].attempt = row.attempt
  OBVIOUS
<1>0. TypeOK /\ Executing \in [Gens -> 0..MaxAttempts] /\ row.attempt \in Nat /\ row.ttl \in Nat
  BY SeenTyped, RowFacts DEF IInv
<1>1. \A g \in Gens : host[g].pc = "executing" =>
        row.gen = g /\ row.state = "running" /\ row.ttl > 0 /\ host[g].attempt = row.attempt
        /\ row.attempt # 0
  <2> SUFFICES ASSUME NEW g \in Gens, host[g].pc = "executing"
               PROVE  /\ row.gen = g /\ row.state = "running" /\ row.ttl > 0
                      /\ host[g].attempt = row.attempt /\ row.attempt # 0
    OBVIOUS
  <2> QED BY <1>0, HostFacts DEF OwnInv, LeaseInv, KnownInv, DoneInv, Covered
<1>2. ASSUME Idle PROVE Most(Executing) = 0
  <2>1. \A g \in Gens : Executing[g] <= 0
    BY <1>2 DEF Idle, Executing
  <2> QED BY <1>0, <2>1, MostIsGreatest
<1>3. ASSUME ~Idle PROVE Most(Executing) = row.attempt /\ row.attempt \in Nat \ {0}
  <2>1. PICK g \in Gens : host[g].pc = "executing"
    BY <1>3 DEF Idle
  <2>2. Executing[g] = row.attempt /\ row.attempt # 0
    BY <1>1, <2>1 DEF Executing
  <2>3. \A j \in Gens : Executing[j] <= row.attempt
    BY <1>0, <1>1 DEF Executing
  <2> QED BY <1>0, <2>2, <2>3, MostIsGreatest
<1> QED BY <1>1, <1>2, <1>3

(* After a step as well: nobody works means no worker is seen.             *)
LEMMA IdleAfter == IInv' /\ Idle' => Most(Executing)' = 0
<1>1. IInv => (Idle => Most(Executing) = 0)
  BY WorkerIs
<1>2. (IInv => (Idle => Most(Executing) = 0))'
  BY <1>1, PTL
<1> QED BY <1>2

(* Nothing is seen, or somebody stops working.                             *)
LEMMA Quiet ==
  ASSUME IInv, IInv', \A g \in Gens : Silent(host[g], host'[g]), Settled' = Settled
  PROVE  [Work!Next]_(Work!workVars)
<1>1. Begun' = Begun /\ Succeeded' = Succeeded
  BY DEF Begun, Succeeded, Silent
<1>2. Most(Begun)' = Most(Begun) /\ Most(Succeeded)' = Most(Succeeded)
  BY <1>1 DEF Most
<1>3. CASE Idle'
  <2>1. Most(Executing)' = 0
    BY <1>3, IdleAfter
  <2>2. CASE Idle
    <3>1. Most(Executing) = 0
      BY <2>2, WorkerIs
    <3> QED BY <1>2, <2>1, <3>1 DEF Work!workVars
  <2>3. CASE ~Idle
    <3>1. Most(Executing) # 0
      BY <2>3, WorkerIs
    <3> QED BY <1>2, <2>1, <3>1 DEF Work!Next, Work!End
  <2> QED BY <2>2, <2>3
<1>4. CASE ~Idle'
  <2>1. PICK g \in Gens : host'[g].pc = "executing"
    BY <1>4 DEF Idle
  <2>2. host[g].pc = "executing" /\ host'[g].attempt = host[g].attempt
    BY <2>1 DEF Silent
  <2>3. Executing' = Executing
    BY <2>1, <2>2, WorkerIs DEF Executing, Silent
  <2>4. Most(Executing)' = Most(Executing)
    BY <2>3 DEF Most
  <2> QED BY <1>2, <2>4 DEF Work!workVars
<1> QED BY <1>3, <1>4

(* The job is settled, with nobody at work.                                *)
LEMMA Settles ==
  ASSUME IInv, IInv', \A g \in Gens : Silent(host[g], host'[g]), Idle, ~Done(row), Done(row'),
         row'.state = "success" => Most(Begun) # 0 /\ Most(Succeeded) = Most(Begun)
  PROVE  Work!Next
<1>1. Begun' = Begun /\ Succeeded' = Succeeded
  BY DEF Begun, Succeeded, Silent
<1>2. Most(Begun)' = Most(Begun) /\ Most(Succeeded)' = Most(Succeeded)
  BY <1>1 DEF Most
<1>3. Idle'
  BY DEF Idle, Silent
<1>4. Most(Executing) = 0 /\ Most(Executing)' = 0
  BY <1>3, WorkerIs, IdleAfter
<1>5. Settled = "open" /\ Settled' = row'.state /\ Settled' \in Outcomes
  BY DEF Settled, Done
<1> QED BY <1>2, <1>4, <1>5 DEF Work!Next, Work!Settle

(* A host that is left alone, or ends, or only waits, is silent.           *)
LEMMA SetSilent ==
  ASSUME IInv, NEW g \in Gens, NEW k, Set(g, k), Silent(host[g], k)
  PROVE  \A j \in Gens : Silent(host[j], host'[j])
<1>1. \A j \in Gens : j # g => host'[j] = host[j]
  BY DEF IInv, TypeOK, Set
<1>2. host'[g] = k
  BY HostFacts
<1> QED BY <1>1, <1>2 DEF Silent

(* The steps of a host but the begin and the success of its work.          *)
LEMMA HostStepsQuiet ==
  ASSUME IInv, IInv', NEW g \in Gens,
         \/ Join(g) \/ SendRenew(g) \/ LoseBeat(g) \/ ReceiveBeat(g) \/ Crash(g)
         \/ ReleaseUnit(g) \/ Relinquish(g) \/ StartExecution(g) \/ SetupFailure(g)
         \/ CompleteRetry(g) \/ CompleteFailure(g) \/ CompleteCancelled(g)
         \/ (ReceiveAnswer(g) /\ ~(host[g].answer = "ok" /\ host[g].cmd.op \in {"start", "retry"}))
  PROVE  [Work!Next]_(Work!workVars)
<1> DEFINE h == host[g]
<1>0. h \in Hosts /\ row' = row
  BY HostFacts
     DEF Join, SendRenew, LoseBeat, ReceiveBeat, Crash, ReleaseUnit, Relinquish, StartExecution,
       SetupFailure, CompleteRetry, CompleteFailure, CompleteCancelled, ReceiveAnswer, Send
<1>1. PICK k : Set(g, k) /\ Silent(h, k)
  <2>1. Silent(h, Gone(h))
    BY <1>0, GoneFacts DEF Silent
  <2>2. CASE Join(g) \/ SendRenew(g) \/ LoseBeat(g)
    <3> DEFINE j == [h EXCEPT !.pc = "joining", !.fence = Lease]
               r == [h EXCEPT !.beat = [NoBeat EXCEPT !.phase = "sent", !.left = Lease]]
               l == [h EXCEPT !.beat = NoBeat]
    <3>1. Set(g, j) \/ Set(g, r) \/ Set(g, l)
      BY <2>2 DEF Join, SendRenew, LoseBeat
    <3>2. Silent(h, j) /\ Silent(h, r) /\ Silent(h, l)
      BY <1>0 DEF Silent, Hosts
    <3> HIDE DEF j, r, l
    <3> QED BY <3>1, <3>2
  <2>3. CASE ReceiveBeat(g)
    <3> DEFINE k == [h EXCEPT !.fence = Fence(h.beat), !.soft = h.beat.cancel, !.beat = NoBeat,
                              !.pc = IF @ = "joining" THEN "idle" ELSE @]
    <3>1. Set(g, Gone(h)) \/ Set(g, k)
      BY <2>3 DEF ReceiveBeat
    <3>2. Silent(h, k)
      BY <1>0 DEF Silent, Hosts
    <3> QED BY <2>1, <3>1, <3>2
  <2>4. CASE Crash(g)
    BY <2>1, <2>4 DEF Crash
  <2>5. ASSUME NEW c, Send(g, h, c) PROVE \E k : Set(g, k) /\ Silent(h, k)
    <3> DEFINE k == [h EXCEPT !.pc = "waiting", !.cmd = c, !.answer = "none"]
    <3>1. Set(g, k)
      BY <2>5 DEF Send
    <3>2. Silent(h, k)
      BY <1>0 DEF Silent, Hosts
    <3> HIDE DEF k
    <3> QED BY <3>1, <3>2
  <2>6. CASE \/ ReleaseUnit(g) \/ Relinquish(g) \/ StartExecution(g) \/ SetupFailure(g)
             \/ CompleteRetry(g) \/ CompleteFailure(g) \/ CompleteCancelled(g)
    BY <2>5, <2>6 DEF ReleaseUnit, Relinquish, StartExecution, SetupFailure, CompleteRetry,
       CompleteFailure, CompleteCancelled
  <2>7. CASE ReceiveAnswer(g) /\ ~(h.answer = "ok" /\ h.cmd.op \in {"start", "retry"})
    <3> DEFINE k == [Gone(h) EXCEPT !.told = h.cmd.to]
    <3>1. Set(g, Gone(h)) \/ Set(g, k)
      <4>1. CASE h.answer = "refused"
        BY <2>7, <4>1 DEF ReceiveAnswer
      <4>2. CASE h.answer # "refused"
        BY <2>7, <4>2 DEF ReceiveAnswer
      <4> QED BY <4>1, <4>2
    <3>2. Gone(h) \in Hosts
      BY <1>0, GoneFacts
    <3>3. k.pc = Gone(h).pc /\ k.begun = Gone(h).begun /\ k.passed = Gone(h).passed
      BY <3>2 DEF Hosts
    <3>4. Silent(h, k)
      BY <1>0, <3>3, GoneFacts DEF Silent
    <3> QED BY <2>1, <3>1, <3>4
  <2> QED BY <2>2, <2>3, <2>4, <2>6, <2>7
<1>2. \A j \in Gens : Silent(host[j], host'[j])
  BY <1>1, SetSilent
<1>3. Settled' = Settled
  BY <1>0 DEF Settled, Done
<1> QED BY <1>2, <1>3, Quiet

(* What hosts have begun, and passed, is at most the row's attempt.        *)
LEMMA BegunBounded ==
  ASSUME IInv
  PROVE  /\ row.attempt \in Nat /\ Most(Begun) \in Nat /\ Most(Begun) <= row.attempt
         /\ \A g \in Gens : Begun[g] \in Nat /\ Begun[g] <= row.attempt
         /\ \A g \in Gens : Succeeded[g] \in Nat /\ Succeeded[g] <= row.attempt
<1>0. /\ TypeOK /\ Begun \in [Gens -> 0..MaxAttempts] /\ Succeeded \in [Gens -> 0..MaxAttempts]
      /\ row.attempt \in Nat /\ MaxAttempts \in Nat
  BY SeenTyped, RowFacts, UnitAssumption DEF IInv, MaxAttempts
<1>1. \A g \in Gens : Begun[g] <= row.attempt /\ Succeeded[g] <= Begun[g]
  <2> SUFFICES ASSUME NEW g \in Gens PROVE Begun[g] <= row.attempt /\ Succeeded[g] <= Begun[g]
    OBVIOUS
  <2>1. Begun[g] = host[g].begun /\ Succeeded[g] = host[g].passed
    BY DEF Begun, Succeeded
  <2> QED BY <1>0, <2>1, HostFacts DEF OwnInv, DoneInv
<1>2. Most(Begun) \in 0..MaxAttempts /\ (Most(Begun) = 0 \/ \E g \in Gens : Begun[g] = Most(Begun))
  BY <1>0, MostExists
<1> QED BY <1>0, <1>1, <1>2

(* The work on an attempt succeeds.                                        *)
LEMMA SuccessPasses ==
  ASSUME IInv, IInv', NEW g \in Gens, CompleteSuccess(g)
  PROVE  Work!Next
<1> DEFINE h == host[g]
           k == [[h EXCEPT !.passed = h.attempt] EXCEPT
                    !.pc = "waiting", !.cmd = Command("report", g, h.attempt, "success"),
                    !.answer = "none"]
<1>1. h.pc = "executing" /\ Set(g, k) /\ row' = row /\ h \in Hosts
  BY HostFacts DEF CompleteSuccess, Send
<1>2. k.pc = "waiting" /\ k.begun = h.begun /\ k.passed = h.attempt
  BY <1>1 DEF Hosts
<1>3. host'[g] = k /\ \A j \in Gens : j # g => host'[j] = host[j]
  BY <1>1, HostFacts DEF IInv, TypeOK, Set
<1> HIDE DEF k
<1>4. h.attempt = row.attempt /\ row.attempt \in Nat \ {0} /\ Most(Executing) = row.attempt
  BY <1>1, WorkerIs DEF Idle
<1>5. Idle'
  BY <1>1, <1>2, <1>3, WorkerIs DEF Idle
<1>6. Most(Executing)' = 0
  BY <1>5, IdleAfter
<1>7. Most(Begun)' = Most(Begun)
  <2>1. Begun' = Begun
    BY <1>2, <1>3 DEF Begun
  <2> QED BY <2>1 DEF Most
<1>8. Most(Succeeded)' = row.attempt
  <2>1. Succeeded' \in [Gens -> 0..MaxAttempts]
    BY SeenTypedAfter DEF IInv
  <2>2. Succeeded'[g] = row.attempt
    BY <1>2, <1>3, <1>4 DEF Succeeded
  <2>3. \A j \in Gens : j # g => Succeeded'[j] = Succeeded[j]
    BY <1>3 DEF Succeeded
  <2>4. \A j \in Gens : Succeeded'[j] <= row.attempt
    BY <2>2, <2>3, BegunBounded
  <2> QED BY <1>4, <2>1, <2>2, <2>4, MostIsGreatest
<1>9. Settled' = Settled
  BY <1>1 DEF Settled, Done
<1> QED BY <1>4, <1>6, <1>7, <1>8, <1>9 DEF Work!Next, Work!Pass

(* The work on an attempt begins: nobody works, and no host has begun this *)
(* attempt or a later one.                                                 *)
LEMMA AnswerBegins ==
  ASSUME IInv, IInv', NEW g \in Gens, ReceiveAnswer(g), host[g].answer = "ok",
         host[g].cmd.op \in {"start", "retry"}
  PROVE  Work!Next
<1> DEFINE h == host[g]
           n == h.attempt + 1
           k == [h EXCEPT !.pc = "executing", !.attempt = n, !.begun = n,
                          !.cmd = NoCommand, !.answer = "none"]
<1>1. h.pc = "waiting" /\ Set(g, k) /\ row' = row /\ h \in Hosts
  BY HostFacts DEF ReceiveAnswer
<1>2. k.pc = "executing" /\ k.begun = n /\ k.passed = h.passed /\ k.attempt = n
  BY <1>1 DEF Hosts
<1>3. host'[g] = k /\ \A j \in Gens : j # g => host'[j] = host[j]
  BY <1>1, HostFacts DEF IInv, TypeOK, Set
<1> HIDE DEF k
<1>4. Asks(h) /\ row.attempt = n /\ row.state = "running" /\ row.gen = g /\ n \in Nat \ {0}
      /\ h.begun < n
  BY <1>1, HostFacts DEF OwnInv, KnownInv, LeaseInv, DoneInv, Asks, Covered
<1>5. Idle /\ Most(Executing) = 0
  BY <1>1, <1>4, WorkerIs DEF Idle
<1>6. \A j \in Gens : Begun[j] < n
  <2> SUFFICES ASSUME NEW j \in Gens, j # g PROVE Begun[j] < n
    BY <1>4 DEF Begun
  <2>1. Begun[j] = host[j].begun /\ Begun[j] \in Nat /\ Begun[j] <= n
    BY <1>4, BegunBounded DEF Begun
  <2>2. Begun[j] # 0 => attempts[Begun[j]].gen = j
    BY <2>1, HostFacts DEF OwnInv, DoneInv
  <2>3. attempts[n].gen = g
    BY <1>4 DEF IInv, RowInv, AttemptsInv
  <2> QED BY <1>4, <2>1, <2>2, <2>3
<1>7. Most(Begun) < n
  <2>1. Begun \in [Gens -> 0..MaxAttempts]
    BY SeenTyped DEF IInv
  <2> QED BY <1>4, <1>6, <2>1, MostExists
<1>8. Most(Begun)' = n /\ Most(Executing)' = n
  <2>1. Begun' \in [Gens -> 0..MaxAttempts] /\ Executing' \in [Gens -> 0..MaxAttempts]
    BY SeenTypedAfter DEF IInv
  <2>2. Begun'[g] = n /\ Executing'[g] = n
    BY <1>2, <1>3 DEF Begun, Executing
  <2>3. \A j \in Gens : j # g => Begun'[j] = Begun[j] /\ Executing'[j] = 0
    BY <1>3, <1>5 DEF Begun, Executing, Idle
  <2>4. \A j \in Gens : Begun'[j] <= n /\ Executing'[j] <= n
    BY <1>4, <1>6, <2>2, <2>3, BegunBounded
  <2>5. Most(Begun') = n
    BY <1>4, <2>1, <2>2, <2>4, MostIsGreatest
  <2>6. Most(Executing') = n
    BY <1>4, <2>1, <2>2, <2>4, MostIsGreatest
  <2> QED BY <2>5, <2>6
<1>9. Most(Succeeded)' = Most(Succeeded)
  <2>1. Succeeded' = Succeeded
    BY <1>2, <1>3 DEF Succeeded
  <2> QED BY <2>1 DEF Most
<1>10. Settled' = Settled /\ Settled = "open"
  BY <1>1, <1>4 DEF Settled, Done, Outcomes
<1> QED BY <1>4, <1>5, <1>7, <1>8, <1>9, <1>10 DEF Work!Next, Work!Begin

(* The steps of the queue, the claim and the reaper: they settle nothing,  *)
(* or settle a job that nobody works on, and not as a success.             *)
LEMMA StoreStepsAllowed ==
  ASSUME IInv, IInv',
         \/ OwnerRelease \/ OwnerRevoke \/ QueueTimeout \/ CancelNode \/ ReapNodeUnit
         \/ (\E o \in {"skipped", "failed", "cancelled"} : OwnerSettle(o))
         \/ (\E b \in 1..Lease : ClaimUnit(b))
  PROVE  [Work!Next]_(Work!workVars)
<1>0. TypeOK /\ row \in Rows /\ row.ttl \in Nat /\ NoCommand \in Commands \cup {NoCommand}
  BY RowFacts DEF IInv, TypeOK
<1>1. \A g \in Gens : Silent(host[g], host'[g])
  <2>1. CASE \E b \in 1..Lease : ClaimUnit(b)
    <3>1. PICK n \in Gens : n = row.gen + 1
      BY <2>1, RowFacts, UnitAssumption DEF IInv, ClaimUnit, Gens
    <3>2. CASE host' = host
      BY <3>2 DEF Silent
    <3>3. CASE host' = [host EXCEPT ![n] = [@ EXCEPT !.pc = "awarded", !.attempt = row.attempt]]
      <4> DEFINE k == [host[n] EXCEPT !.pc = "awarded", !.attempt = row.attempt]
      <4>1. Set(n, k)
        BY <3>3, HostFacts DEF Set, IInv, TypeOK
      <4>2. Silent(host[n], k)
        BY HostFacts DEF Silent, Hosts
      <4> HIDE DEF k
      <4> QED BY <4>1, <4>2, SetSilent
    <3> QED BY <2>1, <3>1, <3>2, <3>3 DEF ClaimUnit, Award
  <2>2. CASE ~(\E b \in 1..Lease : ClaimUnit(b))
    <3>1. host' = host
      BY <2>2 DEF OwnerRelease, OwnerRevoke, QueueTimeout, CancelNode, ReapNodeUnit, OwnerSettle
    <3> QED BY <3>1 DEF Silent
  <2> QED BY <2>1, <2>2
<1>2. ~Done(row)
  BY DEF OwnerRelease, OwnerRevoke, QueueTimeout, Overdue, CancelNode, ReapNodeUnit, Lapsed, Held,
     OwnerSettle, ClaimUnit, Done, Outcomes
<1>3. row'.state # "success" /\ (Held(row) /\ row.ttl > 0 => ~Done(row'))
  <2>1. CASE \/ OwnerRelease \/ OwnerRevoke \/ QueueTimeout
             \/ (\E o \in {"skipped", "failed", "cancelled"} : OwnerSettle(o))
             \/ (\E b \in 1..Lease : ClaimUnit(b))
    BY <1>0, <2>1 DEF OwnerRelease, OwnerRevoke, QueueTimeout, Overdue, OwnerSettle, ClaimUnit,
       Award, Cleared, Rows, Held
  <2>2. CASE CancelNode
    BY <1>0, <2>2 DEF CancelNode, Cancelled, Cleared, Rows, Held, Done, Outcomes
  <2>3. ASSUME ReapNodeUnit, NEW to \in {"cancelled", "failed", "pending"}, NEW d \in BOOLEAN,
               NEW o \in {"cancelled", "failed"}, Lapse(to, d, o)
        PROVE  row'.state = to
    <3> DEFINE r == Cleared(to, NoCommand)
    <3>1. to \in States
      BY DEF States, Outcomes
    <3>2. r \in Rows /\ r.state = to
      BY <1>0, <3>1, ClearedFacts DEF IsCleared
    <3>3. row' = [r EXCEPT !.disruptions = IF d THEN @ + 1 ELSE @,
                           !.queued = IF to = "pending" THEN @ ELSE FALSE]
      BY <2>3 DEF Lapse, Internal
    <3> HIDE DEF r
    <3> QED BY <3>2, <3>3 DEF Rows
  <2>4. CASE ReapNodeUnit
    <3>1. Held(row) /\ row.ttl = 0
      BY <2>4 DEF ReapNodeUnit, Lapsed
    <3>2. Lapse("cancelled", FALSE, "cancelled") => row'.state = "cancelled"
      BY <2>3, <2>4
    <3>3. row' = Cancelled => row'.state = row.state
      BY <1>0, <3>1 DEF Cancelled, Rows
    <3>4. Lapse("failed", TRUE, "failed") => row'.state = "failed"
      BY <2>3, <2>4
    <3>5. Lapse("pending", row.state = "running", "failed") => row'.state = "pending"
      BY <2>3, <2>4
    <3>6. row'.state \in {"cancelled", "failed", "pending", row.state}
      BY <2>4, <3>2, <3>3, <3>4, <3>5 DEF ReapNodeUnit, Reap
    <3> QED BY <3>1, <3>6 DEF Held
  <2> QED BY <2>1, <2>2, <2>4
<1>4. CASE ~Done(row')
  <2>1. Settled' = Settled
    BY <1>2, <1>4 DEF Settled, Done
  <2> QED BY <1>1, <2>1, Quiet
<1>5. CASE Done(row')
  <2>1. ~(Held(row) /\ row.ttl > 0)
    BY <1>3, <1>5
  <2>2. Idle
    BY <2>1, WorkerIs DEF Idle, Held
  <2> QED BY <1>1, <1>2, <1>3, <1>5, <2>2, Settles
<1> QED BY <1>4, <1>5

(* A command: a report settles the job that its host no longer works on;   *)
(* a success is the one of the last attempt.                               *)
LEMMA CommandAllowed ==
  ASSUME IInv, IInv', NEW c \in net, TransitionNode(c)
  PROVE  [Work!Next]_(Work!workVars)
<1>0. TypeOK /\ c \in Commands /\ c.gen \in Gens /\ NetInv(c) /\ row \in Rows
      /\ c \in Commands \cup {NoCommand}
  BY DEF IInv, TypeOK, Commands, NetsInv
<1>1. \A g \in Gens : Silent(host[g], host'[g])
  <2>1. PICK ok \in BOOLEAN : Answer(c, ok)
    BY DEF TransitionNode, Answer
  <2>2. /\ Answers(c, ok) /\ \A g \in Gens : g # c.gen => host'[g] = host[g]
    BY <1>0, <2>1, AnswerFacts
  <2> QED BY <2>2 DEF Answers, Silent
<1>2. CASE UNCHANGED <<row, attempts>>
  <2>1. Settled' = Settled
    BY <1>2 DEF Settled, Done
  <2> QED BY <1>1, <2>1, Quiet
<1>3. CASE Permitted(c) /\ Apply(c)
  <2>1. Held(row) /\ row.gen = c.gen /\ ~Done(row)
    BY <1>3 DEF Permitted, Holds, Held, Done, Outcomes
  <2>2. CASE c.op \in {"start", "retry", "release", "relinquish"}
    <3>1. row'.state \notin Outcomes
      BY <1>0, <1>3, <2>1, <2>2 DEF Apply, Cleared, Rows, Outcomes, Held
    <3>2. Settled' = Settled
      BY <2>1, <3>1 DEF Settled, Done
    <3> QED BY <1>1, <3>2, Quiet
  <2>3. CASE c.op = "report"
    <3>1. c.to \in Outcomes /\ c.to \in States /\ c.attempt = row.attempt
      BY <1>0, <1>3, <2>3 DEF NetInv, States, Permitted, Released
    <3>2. row' = [Cleared(c.to, c) EXCEPT !.queued = FALSE]
      BY <1>3, <2>3 DEF Apply
    <3>3. row'.state = c.to /\ Done(row')
      BY <1>0, <3>1, <3>2, ClearedFacts DEF IsCleared, Done
    <3>4. Idle
      <4>1. host[c.gen].pc # "executing"
        BY <1>0, <2>3 DEF NetInv
      <4> QED BY <2>1, <4>1, WorkerIs DEF Idle
    <3>5. ASSUME c.to = "success" PROVE Most(Begun) # 0 /\ Most(Succeeded) = Most(Begun)
      <4> DEFINE g == c.gen
      <4>1. /\ Begun[g] = row.attempt /\ Succeeded[g] = row.attempt /\ row.attempt # 0
        BY <1>0, <2>3, <3>1, <3>5 DEF NetInv, Begun, Succeeded
      <4>2. Begun \in [Gens -> 0..MaxAttempts] /\ Succeeded \in [Gens -> 0..MaxAttempts]
        BY <1>0, SeenTyped
      <4>3. Most(Begun) = row.attempt
        BY <1>0, <4>1, <4>2, BegunBounded, MostIsGreatest
      <4>4. Most(Succeeded) = row.attempt
        BY <1>0, <4>1, <4>2, BegunBounded, MostIsGreatest
      <4> QED BY <4>1, <4>3, <4>4
    <3> QED BY <1>1, <2>1, <3>3, <3>4, <3>5, Settles
  <2> QED BY <1>0, <2>2, <2>3 DEF Commands
<1> QED BY <1>2, <1>3 DEF TransitionNode

(* Renewals and time settle nothing.                                       *)
LEMMA TimeAllowed ==
  ASSUME IInv, IInv', Tick \/ (\E g \in Gens : RenewNodeClaim(g) \/ StrayRenew(g))
  PROVE  [Work!Next]_(Work!workVars)
<1>0. TypeOK /\ row \in Rows
  BY DEF IInv, TypeOK
<1>1. CASE Tick
  <2>1. \A g \in Gens : Silent(host[g], host'[g])
    <3> SUFFICES ASSUME NEW g \in Gens PROVE Silent(host[g], host'[g])
      OBVIOUS
    <3>1. host'[g] = Ticked(host[g])
      BY <1>1 DEF Tick
    <3> QED BY <3>1, TickedFacts, GoneFacts, HostFacts DEF Silent
  <2>2. row'.state = row.state
    BY <1>0, <1>1 DEF Tick, Rows
  <2>3. Settled' = Settled
    BY <2>2 DEF Settled, Done
  <2> QED BY <2>1, <2>3, Quiet
<1>2. ASSUME NEW g \in Gens, RenewNodeClaim(g) \/ StrayRenew(g) PROVE [Work!Next]_(Work!workVars)
  <2>1. row'.state = row.state
    BY <1>0, <1>2, RenewedFacts DEF RenewNodeClaim, StrayRenew, RowKeeps
  <2>2. \A j \in Gens : Silent(host[j], host'[j])
    <3>1. CASE host' = host
      BY <3>1 DEF Silent
    <3>2. CASE RenewNodeClaim(g)
      <4> DEFINE h == host[g]
                 k == [h EXCEPT !.beat.phase = "kept", !.beat.ttl = row'.ttl,
                                !.beat.cancel = row'.cancel]
                 r == [h EXCEPT !.beat.phase = "refused"]
      <4>1. Set(g, k) \/ Set(g, r)
        BY <3>2 DEF RenewNodeClaim
      <4>2. Silent(h, k) /\ Silent(h, r)
        BY HostFacts DEF Silent, Hosts
      <4> HIDE DEF k, r
      <4> QED BY <4>1, <4>2, SetSilent
    <3> QED BY <1>2, <3>1, <3>2 DEF StrayRenew
  <2>3. Settled' = Settled
    BY <2>1 DEF Settled, Done
  <2> QED BY <2>2, <2>3, Quiet
<1> QED BY <1>1, <1>2

(* The store and the hosts implement UnitWork: attempts are worked on one  *)
(* at a time, each under a new ordinal, nobody settles a job somebody      *)
(* works on, and a success is the last attempt's.                          *)
THEOREM OneWorker == Spec => OneWorkerAtATime
<1>1. Init => Work!Init
  <2> SUFFICES ASSUME Init PROVE Work!Init
    OBVIOUS
  <2>1. IInv /\ TypeOK
    BY InitSound DEF IInv
  <2>2. \A g \in Gens : host[g] = NoHost
    BY DEF Init
  <2>3. Most(Executing) = 0
    BY <2>1, <2>2, WorkerIs DEF Idle, NoHost
  <2>4. \A g \in Gens : Begun[g] = 0 /\ Succeeded[g] = 0
    BY <2>2 DEF Begun, Succeeded, NoHost
  <2>5. Most(Begun) = 0 /\ Most(Succeeded) = 0
    BY <2>1, <2>4, SeenTyped, MostIsGreatest
  <2>6. Settled = "open"
    BY DEF Init, Settled, Done, Outcomes
  <2> QED BY <2>3, <2>5, <2>6 DEF Work!Init
<1>2. IInv /\ IInv' /\ [Next]_vars => [Work!Next]_(Work!workVars)
  <2> SUFFICES ASSUME IInv, IInv', [Next]_vars PROVE [Work!Next]_(Work!workVars)
    OBVIOUS
  <2>1. CASE UNCHANGED vars
    <3>1. Settled' = Settled /\ \A g \in Gens : Silent(host[g], host'[g])
      BY <2>1 DEF vars, Settled, Done, Silent
    <3> QED BY <3>1, Quiet
  <2>2. ASSUME NEW g \in Gens, HostStep(g) PROVE [Work!Next]_(Work!workVars)
    BY <2>2, HostStepsQuiet, SuccessPasses, AnswerBegins DEF HostStep
  <2>3. CASE Next
    BY <2>2, <2>3, StoreStepsAllowed, CommandAllowed, TimeAllowed DEF Next
  <2> QED BY <2>1, <2>3
<1> QED BY <1>1, <1>2, LeasesSound, PTL DEF Spec, OneWorkerAtATime, Work!Spec
=============================================================================
