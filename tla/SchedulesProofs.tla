--------------------------- MODULE SchedulesProofs ---------------------------
(***************************************************************************)
(* What TLAPS proves about a schedule, for every value of the constants:   *)
(* every instant is accounted for, only an armed schedule fires, overlap   *)
(* is honoured, and a tick leaves nothing due.                             *)
(***************************************************************************)
EXTENDS Schedules, FiniteSetTheorems, SequenceTheorems, TLAPS

-----------------------------------------------------------------------------
(* The inductive invariant.                                                *)

(* The tick has read the schedule.                                         *)
Past == tick.pc \notin {"idle", "listing"}

(* The tick's own copy, and the instant it decided on.                     *)
CopyInv ==
  /\ Past =>
       /\ tick.snap.present
       /\ tick.due \in tick.snap.decl.cadence
       /\ tick.snap.cursor < tick.due /\ tick.due <= tick.now
       /\ \A d \in tick.snap.decl.cadence : d <= tick.now => d <= tick.due
       /\ tick.pc = "advancing" <=> ~Armed(tick.snap)
       /\ tick.pc # "advancing" => tick.due \notin asleep
  /\ tick.pc = "missing" => Missed(tick.snap, tick.due, tick.now) # {}
  /\ tick.pc \in {"checking", "launching", "recording"} => InTime(tick.due, tick.now)
  /\ tick.pc = "recording" => tick.outcome # "none"

(* What is still open when the schedule was not edited since: the row as   *)
(* it is has that instant, and the tick's copy still is the row.           *)
OpenInv ==
  row.present =>
    /\ \A d \in owed \ edited : d > row.cursor =>
         /\ Armed(row) /\ d \in row.decl.cadence
         /\ Past /\ d <= tick.now => Unaltered(tick.snap)
    /\ \A d \in asleep : row.paused \/ d <= row.cursor
    /\ Past => tick.snap.cursor <= row.cursor
    /\ tick.pc \in {"checking", "launching", "recording"} =>
         \A d \in Missed(tick.snap, tick.due, tick.now) : d <= row.cursor \/ d \in uncounted
    /\ manual.pc = "admitting" => manual.snap.cursor <= row.cursor

(* A run moved the cursor in the transaction that made it.                 *)
RunInv ==
  /\ row.present => \A r \in DOMAIN runs : runs[r].due <= row.cursor
  /\ tick.pc \in {"missing", "checking", "launching"} =>
       \A r \in DOMAIN runs : runs[r].due # tick.due
  /\ \A r, s \in DOMAIN runs : runs[r].due # 0 /\ runs[r].due = runs[s].due => r = s

Names(f, r) == f.outcome = "fired" /\ f.run = r

(* The history: one row per run, and one that covers each instant.         *)
HistoryInv ==
  /\ \A i \in DOMAIN fires : fires[i].outcome = "fired" => fires[i].run \in DOMAIN runs
  /\ row.present =>
       /\ \A r \in DOMAIN runs :
            \E i \in DOMAIN fires :
              Names(fires[i], r) /\ \A j \in DOMAIN fires : Names(fires[j], r) => j = i
       /\ \A d \in owed \ (edited \cup uncounted) :
            d <= row.cursor => \E i \in DOMAIN fires : Covers(fires[i], d)
       /\ tick.pc = "recording" /\ tick.outcome = "fired" =>
            /\ tick.run \in DOMAIN runs /\ runs[tick.run].due = tick.due
            /\ \E i \in DOMAIN fires : fires[i] = Row(tick.due, "fired", tick.run, 0)

(* A run that ended, or that was given up on before it was claimed.        *)
Over(i) ==
  \/ runs[i].status = "done"
  \/ runs[i].status = "running" /\ runs[i].stale
  \/ runs[i].status = "pending" /\ time - runs[i].born > CatchUp

OnlyByHandAfter(i) == \A r \in DOMAIN runs : r > i => runs[r].due = 0

(* Overlap: only runs by hand follow the run the row, and the tick's copy, *)
(* names.                                                                  *)
OverlapInv ==
  /\ OnlyByHandAfter(row.last)
  /\ tick.pc \in {"missing", "checking", "launching"} => OnlyByHandAfter(tick.snap.last)
  /\ tick.pc = "recording" /\ tick.outcome = "fired" /\ row.present => OnlyByHandAfter(tick.run)
  /\ /\ tick.pc = "launching" /\ tick.checked
     /\ tick.snap.decl.overlap = "skip" /\ tick.snap.last # 0
     => Over(tick.snap.last)
  /\ \A j \in 2..Len(runs) :
       runs[j - 1].due # 0 /\ runs[j].due # 0 /\ runs[j].skip => Over(j - 1)

IInv == TypeOK /\ CopyInv /\ OpenInv /\ RunInv /\ HistoryInv /\ OverlapInv

-----------------------------------------------------------------------------
(* Deciding.                                                               *)

(* A nonempty set of naturals has a least element.                         *)
LEMMA LeastNatural ==
  ASSUME NEW T \in SUBSET Nat, T # {}
  PROVE  \E x \in T : \A y \in T : x <= y
<1> DEFINE Smaller == {p \in Nat \X Nat : p[1] < p[2]}
<1>1. IsWellFoundedOn(Smaller, Nat)
  BY NatLessThanWellFounded DEF OpToRel
<1>2. PICK x \in T : \A y \in T : <<y, x>> \notin Smaller
  <2> HIDE DEF Smaller
  <2> QED BY <1>1, WFMin
<1>3. \A y \in T : <<y, x>> \in Nat \X Nat
  OBVIOUS
<1>4. \A y \in T : ~(y < x)
  BY <1>2, <1>3
<1> QED BY <1>4

(* A bounded, nonempty set of naturals has a greatest element, and Max is  *)
(* that one.                                                               *)
LEMMA MaxIsGreatest ==
  ASSUME NEW n \in Nat, NEW S \in SUBSET (0..n), S # {}
  PROVE  /\ Max(S) \in S
         /\ \A y \in S : y <= Max(S)
<1> DEFINE T == {n - x : x \in S}
<1>1. T \in SUBSET Nat /\ T # {}
  <2>1. PICK x \in S : TRUE
    OBVIOUS
  <2>2. n - x \in T
    BY <2>1
  <2> QED BY <2>2
<1>2. PICK t \in T : \A y \in T : t <= y
  <2> HIDE DEF T
  <2> QED BY <1>1, LeastNatural
<1>3. PICK x \in S : t = n - x
  OBVIOUS
<1>4. \A y \in S : n - y \in T
  OBVIOUS
<1>5. \A y \in S : x >= y
  <2> SUFFICES ASSUME NEW y \in S PROVE x >= y
    OBVIOUS
  <2>1. t <= n - y
    BY <1>2, <1>4
  <2> QED BY <2>1, <1>3
<1>6. \A y \in S : Max(S) >= y /\ Max(S) \in S
  BY <1>5 DEF Max
<1> QED BY <1>6

(* cronspec.Decide: the latest instant that came due and is open.          *)
LEMMA DueFacts ==
  ASSUME NEW r, r.decl \in Decls, r.cursor \in Nat, NEW now \in Nat
  PROVE  /\ Due(r, now) = 0 => \A d \in r.decl.cadence : d <= now => d <= r.cursor
         /\ Due(r, now) # 0 =>
              /\ Due(r, now) \in r.decl.cadence
              /\ r.cursor < Due(r, now) /\ Due(r, now) <= now
              /\ \A d \in r.decl.cadence : d <= now => d <= Due(r, now)
         /\ Due(r, now) \in 0..now
<1> DEFINE S == {d \in r.decl.cadence : d <= now} \cup {0}
<1>1. r.decl.cadence \subseteq 1..MaxTime /\ MaxTime \in Nat
  BY ScheduleAssumption DEF Minutes
<1>2. S \in SUBSET (0..MaxTime) /\ S # {}
  BY <1>1
<1>3. Max(S) \in S /\ \A y \in S : y <= Max(S)
  <2> HIDE DEF S
  <2> QED BY <1>1, <1>2, MaxIsGreatest
<1>4. Due(r, now) = IF Max(S) > r.cursor THEN Max(S) ELSE 0
  BY DEF Due
<1>5. \A d \in r.decl.cadence : d <= now => d \in S /\ d \in Nat
  BY <1>1
<1>6. Max(S) \in 0..now /\ (Max(S) # 0 => Max(S) \in r.decl.cadence)
  BY <1>3, <1>1
<1> HIDE DEF S
<1>7. CASE Max(S) > r.cursor
  <2>1. Due(r, now) = Max(S) /\ Max(S) # 0
    BY <1>7, <1>4, <1>6
  <2> QED BY <2>1, <1>3, <1>5, <1>6, <1>7
<1>8. CASE ~(Max(S) > r.cursor)
  <2>1. Due(r, now) = 0
    BY <1>8, <1>4
  <2>2. \A d \in r.decl.cadence : d <= now => d <= r.cursor
    BY <1>8, <1>3, <1>5, <1>6
  <2> QED BY <2>1, <2>2
<1> QED BY <1>7, <1>8

(* Some missed instant is counted: the first is, whatever the cap.         *)
LEMMA CountedFacts ==
  ASSUME NEW gone \in SUBSET (0..MaxTime), gone # {}
  PROVE  Max(Counted(gone)) \in gone
<1>1. MaxTime \in Nat /\ MaxMissed \in Nat \ {0}
  BY ScheduleAssumption
<1>2. PICK x \in gone : \A y \in gone : x <= y
  <2>1. gone \in SUBSET Nat
    BY <1>1
  <2> QED BY <2>1, LeastNatural
<1>3. {e \in gone : e <= x} = {x}
  <2>1. \A e \in gone : e \in Nat
    BY <1>1
  <2>2. \A e \in gone : e <= x => e = x
    BY <1>2, <2>1
  <2>3. x <= x
    BY <2>1
  <2> QED BY <2>2, <2>3
<1>4. x \in Counted(gone)
  <2>1. Cardinality({x}) = 1
    BY FS_Singleton
  <2> QED BY <1>1, <1>3, <2>1 DEF Counted
<1>5. Counted(gone) \in SUBSET (0..MaxTime) /\ Counted(gone) \subseteq gone
  BY DEF Counted
<1> QED BY <1>1, <1>4, <1>5, MaxIsGreatest

(* The missed instants are minutes, and their row stands at one of them.   *)
LEMMA MissedFacts ==
  ASSUME NEW r, r.decl \in Decls, NEW due \in Nat, NEW now \in Nat
  PROVE  /\ Missed(r, due, now) \subseteq r.decl.cadence
         /\ r.decl.cadence \subseteq Minutes
         /\ Missed(r, due, now) # {} /\ InTime(due, now) =>
              LastMissed(r, due, now) \in Missed(r, due, now)
<1>1. r.decl.cadence \subseteq 1..MaxTime /\ MaxTime \in Nat
  BY ScheduleAssumption DEF Minutes
<1>2. Missed(r, due, now) \subseteq r.decl.cadence
  BY DEF Missed
<1>3. Missed(r, due, now) \in SUBSET (0..MaxTime)
  BY <1>1, <1>2
<1>4. ASSUME Missed(r, due, now) # {}, InTime(due, now)
      PROVE  LastMissed(r, due, now) \in Missed(r, due, now)
  BY <1>3, <1>4, CountedFacts DEF LastMissed
<1> QED BY <1>1, <1>2, <1>4 DEF Minutes

-----------------------------------------------------------------------------
(* Types.                                                                  *)

(* What is typed stays typed while the clock and the runs only grow.       *)
LEMMA Grows ==
  ASSUME TypeOK, time' \in Nat, time <= time', runs' \in Seq(Runs'), Len(runs) <= Len(runs')
  PROVE  /\ Schedule \subseteq Schedule' /\ Fires \subseteq Fires' /\ Runs \subseteq Runs'
         /\ Ticks \subseteq Ticks' /\ Requests \subseteq Requests'
         /\ 1..time \subseteq 1..time'
<1>1. 0..time \subseteq 0..time' /\ 1..time \subseteq 1..time'
  BY DEF TypeOK
<1>2. Len(runs) \in Nat /\ Len(runs') \in Nat
  BY DEF TypeOK
<1>3. 0..Len(runs) \subseteq 0..Len(runs')
  BY <1>2
<1>4. Schedule \subseteq Schedule'
  BY <1>1, <1>3 DEF Schedule
<1>5. Ticks \subseteq Ticks' /\ Requests \subseteq Requests'
  BY <1>1, <1>3, <1>4 DEF Ticks, Requests
<1>6. Fires \subseteq Fires' /\ Runs \subseteq Runs'
  BY <1>1, <1>3 DEF Fires, Runs
<1> QED BY <1>1, <1>4, <1>5, <1>6

(* The parts of the state as typed; the facts most leaves need.            *)
LEMMA Parts ==
  ASSUME TypeOK
  PROVE  /\ time \in Nat /\ Len(runs) \in Nat /\ DOMAIN runs = 1..Len(runs)
         /\ row.present \in BOOLEAN /\ row.declared \in BOOLEAN /\ row.paused \in BOOLEAN
         /\ row.decl \in Decls /\ row.cursor \in 0..time /\ row.last \in 0..Len(runs)
         /\ tick.now \in 0..time /\ tick.due \in 0..time /\ tick.run \in 0..Len(runs)
         /\ tick.snap \in Schedule /\ tick.snap.decl \in Decls
         /\ tick.snap.cursor \in 0..time /\ tick.snap.last \in 0..Len(runs)
         /\ tick.snap.decl.cadence \subseteq Minutes /\ row.decl.cadence \subseteq Minutes
         /\ manual.snap \in Schedule /\ manual.snap.cursor \in 0..time
         /\ \A i \in DOMAIN runs : runs[i] \in Runs /\ runs[i].due \in 0..time
         /\ \A i \in DOMAIN fires : fires[i] \in Fires
         /\ owed \subseteq 1..time /\ asleep \subseteq 1..time
<1>1. tick.snap \in Schedule /\ manual.snap \in Schedule /\ row \in Schedule
  BY DEF TypeOK, Ticks, Requests
<1>2. /\ row.present \in BOOLEAN /\ row.declared \in BOOLEAN /\ row.paused \in BOOLEAN
      /\ row.decl \in Decls /\ row.cursor \in 0..time /\ row.last \in 0..Len(runs)
      /\ tick.snap.decl \in Decls
      /\ tick.snap.cursor \in 0..time /\ tick.snap.last \in 0..Len(runs)
      /\ manual.snap.cursor \in 0..time
  BY <1>1 DEF Schedule
<1>3. tick.snap.decl.cadence \subseteq Minutes /\ row.decl.cadence \subseteq Minutes
  BY <1>2, ScheduleAssumption
<1>4. time \in Nat /\ Len(runs) \in Nat /\ DOMAIN runs = 1..Len(runs)
  BY ScheduleAssumption DEF TypeOK
<1>5. \A i \in DOMAIN runs : runs[i] \in Runs
  BY DEF TypeOK
<1>6. \A i \in DOMAIN fires : fires[i] \in Fires
  BY DEF TypeOK
<1>7. \A i \in DOMAIN runs : runs[i].due \in 0..time
  BY <1>5 DEF Runs
<1>8. tick.now \in 0..time /\ tick.due \in 0..time /\ tick.run \in 0..Len(runs)
  BY DEF TypeOK, Ticks
<1>9. owed \subseteq 1..time /\ asleep \subseteq 1..time
  BY DEF TypeOK
<1> QED BY <1>1, <1>2, <1>3, <1>4, <1>5, <1>6, <1>7, <1>8, <1>9

(* No tick and no request are typed.                                       *)
LEMMA Idle ==
  ASSUME time \in Nat, Len(runs) \in Nat
  PROVE  /\ NoSnap \in Schedule
         /\ NoTick \in Ticks /\ NoTick.pc = "idle" /\ NoTick.outcome = "none"
         /\ NoRequest \in Requests /\ NoRequest.pc = "idle"
         /\ [NoTick EXCEPT !.pc = "listing", !.now = time] \in Ticks
         /\ [NoTick EXCEPT !.pc = "listing", !.now = time].pc = "listing"
<1>1. NoSnap \in Schedule
  BY ScheduleAssumption DEF NoSnap, FreshRow, Schedule
<1>2. /\ NoTick \in Ticks /\ NoTick.pc = "idle" /\ NoTick.outcome = "none"
      /\ [NoTick EXCEPT !.pc = "listing", !.now = time] \in Ticks
      /\ [NoTick EXCEPT !.pc = "listing", !.now = time].pc = "listing"
  <2>1. 0 \in 0..time /\ 0 \in 0..Len(runs) /\ time \in 0..time
    OBVIOUS
  <2>2. NoTick.pc = "idle" /\ NoTick.outcome = "none"
    BY DEF NoTick
  <2>3. NoTick \in Ticks
    BY <1>1, <2>1 DEF NoTick, Ticks
  <2>4. [NoTick EXCEPT !.pc = "listing", !.now = time] \in Ticks
    BY <2>1, <2>3 DEF Ticks
  <2> QED BY <2>2, <2>3, <2>4 DEF Ticks
<1>3. NoRequest \in Requests /\ NoRequest.pc = "idle"
  BY <1>1 DEF NoRequest, Requests
<1> QED BY <1>1, <1>2, <1>3

(* A resolution keeps row and history typed.                               *)
LEMMA ResolvedTyped ==
  ASSUME TypeOK, time' = time, runs' \in Seq(Runs'), Len(runs) <= Len(runs'),
         NEW c \in 0..time, NEW f, f \in Fires' \/ f.outcome = "none", Resolved(c, f)
  PROVE  row' \in Schedule' /\ fires' \in Seq(Fires')
<1>1. /\ Schedule \subseteq Schedule' /\ Fires \subseteq Fires'
      /\ time \in Nat /\ Len(runs) \in Nat
  BY Grows, Parts
<1>2. f.outcome = "fired" => f.run \in 0..Len(runs')
  BY DEF Fires
<1>3. row \in Schedule' /\ row.cursor \in 0..time
  BY <1>1, Parts DEF TypeOK
<1>4. Max2(row.cursor, c) \in 0..time'
  BY <1>3 DEF Max2
<1>5. row' = [row EXCEPT !.cursor = Max2(row.cursor, c),
                         !.last = IF f.outcome = "fired" THEN f.run ELSE row.last]
  BY DEF Resolved
<1>6. row' \in Schedule'
  BY <1>2, <1>3, <1>4, <1>5 DEF Schedule
<1>7. fires \in Seq(Fires')
  BY <1>1 DEF TypeOK
<1>8. fires' \in Seq(Fires')
  BY <1>7 DEF Resolved
<1> QED BY <1>6, <1>8

(* ResolveCronDue changes the row and history by a resolution, or not.     *)
LEMMA ResolveTyped ==
  ASSUME TypeOK, time' = time, runs' = runs, NEW c \in 0..time, NEW f,
         f \in Fires \/ f.outcome = "none", ResolveCronDue(c, f)
  PROVE  /\ row' \in Schedule' /\ fires' \in Seq(Fires')
         /\ faults' \in 0..MaxFaults
<1>1. faults' \in 0..MaxFaults
  BY ScheduleAssumption DEF TypeOK, ResolveCronDue, Fault, NoFault
<1>2. /\ Schedule' = Schedule /\ Fires' = Fires /\ Runs' = Runs
  BY DEF Schedule, Fires, Runs
<1>3. runs' \in Seq(Runs') /\ Len(runs) <= Len(runs')
  BY <1>2 DEF TypeOK
<1>4. CASE Resolved(c, f)
  <2>1. f \in Fires' \/ f.outcome = "none"
    BY <1>2
  <2> QED BY <1>1, <1>3, <1>4, <2>1, ResolvedTyped
<1>5. CASE UNCHANGED <<row, fires>>
  BY <1>1, <1>2, <1>5 DEF TypeOK
<1> QED BY <1>4, <1>5 DEF ResolveCronDue

(* Steps of the tick that leave clock and runs alone.                      *)
LEMMA QuietTyped ==
  ASSUME TypeOK, time' = time, runs' = runs, manual' = manual, edits' = edits,
         row' \in Schedule', fires' \in Seq(Fires'), faults' \in 0..MaxFaults,
         tick' \in Ticks,
         owed' \cup asleep' \cup edited' \cup uncounted' \subseteq 1..time
  PROVE  TypeOK'
<1>1. /\ Schedule' = Schedule /\ Fires' = Fires /\ Runs' = Runs
  BY DEF Schedule, Fires, Runs
<1>2. Ticks' = Ticks /\ Requests' = Requests
  BY <1>1 DEF Ticks, Requests
<1> QED BY <1>1, <1>2 DEF TypeOK

(* The run of an admission.                                                *)
NewRun(r, due) ==
  [due |-> due, status |-> "pending", born |-> time, stale |-> FALSE,
   skip |-> r.decl.overlap = "skip" /\ tick.checked]

(* What an admission does to the runs.                                     *)
LEMMA AdmittedRuns ==
  ASSUME TypeOK, NEW r, NEW due \in 0..time, NEW at, NEW c, Admitted(r, due, at, c)
  PROVE  /\ runs' = Append(runs, NewRun(r, due)) /\ NewRun(r, due) \in Runs
         /\ Len(runs') = Len(runs) + 1 /\ DOMAIN runs' = 1..(Len(runs) + 1)
         /\ \A i \in DOMAIN runs : i \in DOMAIN runs' /\ runs'[i] = runs[i]
         /\ runs'[Len(runs) + 1] = NewRun(r, due)
         /\ Resolved(c, Row(at, "fired", Len(runs) + 1, 0))
<1>1. runs' = Append(runs, NewRun(r, due)) /\ Resolved(c, Row(at, "fired", Len(runs) + 1, 0))
  BY DEF Admitted, NewRun
<1>2. time \in 0..time /\ runs \in Seq(Runs)
  BY Parts DEF TypeOK
<1>3. (r.decl.overlap = "skip" /\ tick.checked) \in BOOLEAN
  BY Zenon
<1>4. NewRun(r, due) \in Runs
  BY <1>2, <1>3 DEF NewRun, Runs
<1> HIDE DEF NewRun
<1>5. /\ Len(runs') = Len(runs) + 1 /\ DOMAIN runs' = 1..(Len(runs) + 1)
      /\ \A i \in DOMAIN runs : i \in DOMAIN runs' /\ runs'[i] = runs[i]
      /\ runs'[Len(runs) + 1] = NewRun(r, due)
  BY <1>1, <1>2, <1>4
<1> QED BY <1>1, <1>4, <1>5

LEMMA AdmittedTyped ==
  ASSUME TypeOK, time' = time, NEW r, NEW due \in 0..time, NEW at \in 0..time,
         NEW c \in 0..time, Admitted(r, due, at, c)
  PROVE  /\ runs' \in Seq(Runs') /\ Len(runs) <= Len(runs')
         /\ row' \in Schedule' /\ fires' \in Seq(Fires')
<1> DEFINE f == Row(at, "fired", Len(runs) + 1, 0)
<1>1. /\ runs' = Append(runs, NewRun(r, due)) /\ NewRun(r, due) \in Runs
      /\ Len(runs') = Len(runs) + 1 /\ Resolved(c, f)
  BY AdmittedRuns
<1>2. Runs' = Runs
  BY DEF Runs
<1>3. runs' \in Seq(Runs') /\ Len(runs) <= Len(runs')
  BY <1>1, <1>2, Parts DEF TypeOK
<1>4. Len(runs) + 1 \in 0..Len(runs') /\ 0 \in 0..time'
  BY <1>1, Parts
<1>5. f \in Fires'
  BY <1>4 DEF Fires, Row
<1> HIDE DEF f
<1> QED BY <1>1, <1>3, <1>5, ResolvedTyped

(* The edits that leave the schedule in place.                             *)
Alter == Pause \/ Resume \/ Withdraw \/ \E d \in Decls : Override(d) \/ Push(d)

(* What they have in common.                                               *)
LEMMA AlterFacts ==
  ASSUME TypeOK, Alter
  PROVE  /\ row.present /\ row'.present /\ row' \in Schedule
         /\ row'.last = row.last /\ row.cursor <= row'.cursor /\ row'.cursor <= time
         /\ ~row.paused => row'.cursor = row.cursor
         /\ (row'.paused \/ row'.cursor = time \/ ~row.paused)
         /\ edited' = edited \cup Open /\ edits' \in 0..MaxEdits
         /\ UNCHANGED <<fires, time, runs, tick, manual, owed, asleep, uncounted, faults>>
<1>1. row \in Schedule /\ row.cursor \in 0..time /\ time \in Nat
  BY Parts DEF TypeOK
<1>2. edits + 1 \in 0..MaxEdits \/ ~(edits < MaxEdits)
  BY ScheduleAssumption DEF TypeOK
<1>3. ASSUME NEW d \in Decls, Pause \/ Withdraw \/ Override(d) \/ Push(d)
      PROVE  /\ row.present /\ row'.present /\ row' \in Schedule
             /\ row'.last = row.last /\ row'.cursor = row.cursor
             /\ row'.paused = row.paused \/ row'.paused
             /\ edited' = edited \cup Open /\ edits' \in 0..MaxEdits
             /\ UNCHANGED <<fires, time, runs, tick, manual, owed, asleep, uncounted, faults>>
  BY <1>1, <1>2, <1>3 DEF Pause, Withdraw, Override, Push, Schedule, Edit, EditRest
<1>4. CASE Resume
  <2>1. Max2(row.cursor, time) = time /\ time \in 0..time
    BY <1>1 DEF Max2
  <2>2. row' = [row EXCEPT !.paused = FALSE, !.cursor = time]
    BY <1>4, <2>1 DEF Resume
  <2>3. /\ row' \in Schedule /\ row'.present = row.present /\ row'.last = row.last
        /\ row'.cursor = time
    BY <1>1, <2>1, <2>2 DEF Schedule
  <2> QED BY <1>1, <1>2, <1>4, <2>3 DEF Resume, Edit, EditRest
<1>5. ASSUME NEW d \in Decls, Pause \/ Withdraw \/ Override(d) \/ Push(d)
      PROVE  /\ row.cursor <= row'.cursor /\ row'.cursor <= time
             /\ row'.cursor = row.cursor /\ (row'.paused \/ ~row.paused)
  BY <1>1, <1>3, <1>5
<1>6. PICK d \in Decls : TRUE
  BY ScheduleAssumption
<1> QED BY <1>3, <1>4, <1>5, <1>6 DEF Alter

(* Where the row for the missed instants stands.                           *)
LEMMA GoneFacts ==
  ASSUME TypeOK, CopyInv, tick.pc = "missing"
  PROVE  LET gone == Missed(tick.snap, tick.due, tick.now)
             last == LastMissed(tick.snap, tick.due, tick.now)
         IN /\ gone \subseteq 1..time /\ gone \subseteq tick.snap.decl.cadence
            /\ last \in gone /\ last \in Nat /\ last <= tick.due
            /\ ~InTime(tick.due, tick.now) => last = tick.due
<1> DEFINE gone == Missed(tick.snap, tick.due, tick.now)
           last == LastMissed(tick.snap, tick.due, tick.now)
<1>1. /\ tick.snap.decl \in Decls /\ tick.due \in Nat /\ tick.now \in Nat
      /\ tick.due \in 0..time /\ tick.snap.decl.cadence \subseteq 1..MaxTime /\ time \in Nat
      /\ tick.snap.cursor \in Nat /\ MaxTime \in Nat
  BY Parts, ScheduleAssumption DEF Minutes
<1>2. /\ gone # {} /\ tick.due \in tick.snap.decl.cadence /\ tick.snap.cursor < tick.due
  BY DEF CopyInv, Past
<1>3. /\ gone \subseteq tick.snap.decl.cadence
      /\ InTime(tick.due, tick.now) => last \in gone
  BY <1>1, <1>2, MissedFacts
<1>4. \A d \in gone : d <= tick.due /\ d \in Nat /\ d # 0
  BY <1>1 DEF Missed
<1>5. ~InTime(tick.due, tick.now) => last = tick.due /\ tick.due \in gone
  BY <1>2 DEF Missed, LastMissed
<1> HIDE DEF gone, last
<1>6. gone \subseteq 1..time
  BY <1>1, <1>4
<1>7. last \in gone
  BY <1>3, <1>5
<1> QED BY <1>3, <1>4, <1>5, <1>6, <1>7 DEF gone, last

(* The steps of the tick keep types.                                       *)
LEMMA TickTyped ==
  ASSUME TypeOK, CopyInv, TickStep \/ TickEnds
  PROVE  TypeOK'
<1> USE DEF TickRest
<1>1. /\ time \in Nat /\ Len(runs) \in Nat /\ runs \in Seq(Runs) /\ tick \in Ticks
      /\ faults \in 0..MaxFaults /\ row \in Schedule /\ fires \in Seq(Fires)
      /\ owed \cup asleep \cup edited \cup uncounted \subseteq 1..time
      /\ tick.now \in 0..time /\ tick.due \in 0..time
  BY Parts DEF TypeOK
<1>2. Fault \/ NoFault => faults' \in 0..MaxFaults
  BY <1>1, ScheduleAssumption DEF Fault, NoFault
<1>3. NoTick \in Ticks /\ [NoTick EXCEPT !.pc = "listing", !.now = time] \in Ticks
  BY <1>1, Idle
<1>4. ASSUME time' = time, runs' = runs
      PROVE  Schedule' = Schedule /\ Fires' = Fires /\ Runs' = Runs
  BY <1>4 DEF Schedule, Fires, Runs
<1>5. CASE StartTick
  BY <1>1, <1>3, <1>4, <1>5, QuietTyped DEF StartTick
<1>6. CASE ReadSchedule
  <2>1. Due(row, tick.now) \in 0..time
    <3>1. row.decl \in Decls /\ row.cursor \in Nat /\ tick.now \in Nat
      BY Parts
    <3>2. Due(row, tick.now) \in 0..tick.now
      BY <3>1, DueFacts
    <3> QED BY <3>2, <1>1
  <2>2. tick' = NoTick \/ \E pc \in {"advancing", "missing", "checking"} :
                            tick' = [tick EXCEPT !.pc = pc, !.snap = row, !.due = Due(row, tick.now)]
    BY <1>6 DEF ReadSchedule, Armed
  <2>3. tick' \in Ticks
    BY <1>1, <1>3, <2>1, <2>2 DEF Ticks
  <2> QED BY <1>1, <1>4, <1>6, <2>3, QuietTyped DEF ReadSchedule
<1>7. CASE AdvanceIdle
  <2>1. NoFire.outcome = "none"
    BY DEF NoFire, Row
  <2>2. row' \in Schedule' /\ fires' \in Seq(Fires') /\ faults' \in 0..MaxFaults
    BY <1>1, <1>7, <2>1, ResolveTyped DEF AdvanceIdle
  <2> QED BY <1>1, <1>3, <1>7, <2>2, QuietTyped DEF AdvanceIdle
<1>8. CASE RecordMissed
  <2> DEFINE gone == Missed(tick.snap, tick.due, tick.now)
             last == LastMissed(tick.snap, tick.due, tick.now)
             f == Row(last, "missed", 0, tick.snap.cursor)
  <2>1. gone \subseteq 1..time /\ last \in 0..time /\ tick.snap.cursor \in 0..time
    <3>1. gone \subseteq 1..time /\ last \in gone
      BY <1>8, GoneFacts DEF RecordMissed
    <3> QED BY <3>1, <1>1, Parts
  <2>2. f \in Fires
    <3>1. 0 \in 0..Len(runs)
      BY <1>1
    <3> HIDE DEF gone, last
    <3> QED BY <2>1, <3>1 DEF Fires, Row
  <2>3. /\ ResolveCronDue(last, f)
        /\ uncounted' \subseteq uncounted \cup gone
        /\ tick' \in {[tick EXCEPT !.pc = "checking"], NoTick}
        /\ time' = time /\ runs' = runs
        /\ UNCHANGED <<manual, owed, asleep, edited, edits>>
    BY <1>8 DEF RecordMissed
  <2> HIDE DEF gone, last, f
  <2>4. row' \in Schedule' /\ fires' \in Seq(Fires') /\ faults' \in 0..MaxFaults
    BY <2>1, <2>2, <2>3, ResolveTyped
  <2>5. tick' \in Ticks
    BY <1>1, <1>3, <2>3 DEF Ticks
  <2>6. owed' \cup asleep' \cup edited' \cup uncounted' \subseteq 1..time
    BY <1>1, <2>1, <2>3
  <2> QED BY <2>3, <2>4, <2>5, <2>6, QuietTyped
<1>9. CASE CheckOverlap
  <2>1. tick' \in Ticks
    <3>1. \/ tick' = [tick EXCEPT !.pc = "recording", !.outcome = "skipped"]
          \/ tick' = [tick EXCEPT !.pc = "launching"]
          \/ tick' = [tick EXCEPT !.pc = "launching", !.checked = FALSE]
      BY <1>9 DEF CheckOverlap
    <3>2. [tick EXCEPT !.pc = "recording", !.outcome = "skipped"] \in Ticks
      BY <1>1 DEF Ticks
    <3>3. [tick EXCEPT !.pc = "launching"] \in Ticks
      BY <1>1 DEF Ticks
    <3>4. [tick EXCEPT !.pc = "launching", !.checked = FALSE] \in Ticks
      BY <1>1 DEF Ticks
    <3> QED BY <3>1, <3>2, <3>3, <3>4
  <2>2. faults' \in 0..MaxFaults
    BY <1>2, <1>9 DEF CheckOverlap
  <2> QED BY <1>1, <1>4, <1>9, <2>1, <2>2, QuietTyped DEF CheckOverlap
<1>10. CASE Launch
  <2>1. faults' \in 0..MaxFaults
    BY <1>2, <1>10 DEF Launch
  <2>2. /\ time' = time
        /\ UNCHANGED <<manual, owed, asleep, edited, edits, uncounted>>
    BY <1>10 DEF Launch
  <2>3. CASE UNCHANGED <<row, fires, runs>>
    <3>1. tick' \in Ticks
      <4>1. CASE tick' = NoTick \/ Answered("failed", 0)
        <5>1. 0 \in 0..Len(runs)
          BY <1>1
        <5>2. [tick EXCEPT !.pc = "recording", !.outcome = "failed", !.run = 0] \in Ticks
          BY <1>1, <5>1 DEF Ticks
        <5> QED BY <1>3, <4>1, <5>2 DEF Answered
      <4>2. CASE Earlier(tick.due) # {} /\ Answered("fired", Min(Earlier(tick.due)))
        <5>1. Earlier(tick.due) \in SUBSET Nat /\ Earlier(tick.due) \subseteq 1..Len(runs)
          BY Parts DEF Earlier
        <5>2. PICK x \in Earlier(tick.due) : \A y \in Earlier(tick.due) : x <= y
          BY <4>2, <5>1, LeastNatural
        <5>3. Min(Earlier(tick.due)) \in Earlier(tick.due)
          BY <5>2 DEF Min
        <5>4. Min(Earlier(tick.due)) \in 0..Len(runs)
          BY <5>1, <5>3, <1>1
        <5> QED BY <1>1, <4>2, <5>4 DEF Answered, Ticks
      <4>3. CASE Earlier(tick.due) = {} /\ Admitted(tick.snap, tick.due, tick.due, tick.due)
        <5>1. Len(runs') = Len(runs) + 1
          BY <1>1, <4>3, AdmittedRuns
        <5> QED BY <5>1, <2>3, <1>1
      <4> QED BY <1>10, <4>1, <4>2, <4>3 DEF Launch
    <3> QED BY <1>1, <1>4, <2>1, <2>2, <2>3, <3>1, QuietTyped
  <2>4. CASE Admitted(tick.snap, tick.due, tick.due, tick.due)
    <3>1. /\ runs' \in Seq(Runs') /\ Len(runs) <= Len(runs')
          /\ row' \in Schedule' /\ fires' \in Seq(Fires')
      BY <1>1, <2>2, <2>4, AdmittedTyped
    <3>2. Ticks \subseteq Ticks' /\ Requests \subseteq Requests' /\ 1..time \subseteq 1..time'
      BY <1>1, <2>2, <3>1, Grows
    <3>3. Len(runs') = Len(runs) + 1
      BY <1>1, <2>4, AdmittedRuns
    <3>4. /\ \/ Earlier(tick.due) = {} /\ Answered("fired", Len(runs) + 1)
             \/ Earlier(tick.due) # {} /\ Answered("fired", Min(Earlier(tick.due)))
                /\ UNCHANGED <<row, fires, runs>>
             \/ Answered("failed", 0) \/ tick' = NoTick
      BY <1>10 DEF Launch
    <3>5. tick' \in Ticks'
      <4>1. 0 \in 0..Len(runs') /\ Len(runs) + 1 \in 0..Len(runs')
        BY <1>1, <3>3
      <4>2. tick \in Ticks' /\ NoTick \in Ticks'
        BY <1>1, <1>3, <3>2
      <4>3. Len(runs') # Len(runs)
        BY <3>3, <1>1
      <4>4. CASE Answered("fired", Len(runs) + 1) \/ Answered("failed", 0)
        BY <4>1, <4>2, <4>4 DEF Answered, Ticks
      <4> QED BY <3>4, <4>2, <4>3, <4>4
    <3>6. /\ time' \in 0..MaxTime /\ edits' \in 0..MaxEdits /\ manual' \in Requests'
          /\ owed' \cup asleep' \cup edited' \cup uncounted' \subseteq 1..time'
      BY <2>2, <3>2 DEF TypeOK
    <3> QED BY <2>1, <3>1, <3>5, <3>6 DEF TypeOK
  <2> QED BY <1>10, <2>3, <2>4 DEF Launch
<1>11. CASE Record
  <2> DEFINE f == Row(tick.due, tick.outcome, tick.run, 0)
  <2>1. f \in Fires
    <3>1. tick.outcome \in {"fired", "skipped", "failed"}
      BY <1>1, <1>11 DEF Record, CopyInv, Ticks
    <3>2. tick.run \in 0..Len(runs) /\ 0 \in 0..time
      BY <1>1, Parts
    <3> QED BY <1>1, <3>1, <3>2 DEF Fires, Row
  <2>2. /\ ResolveCronDue(tick.due, f) /\ tick' = NoTick /\ time' = time /\ runs' = runs
        /\ UNCHANGED <<manual, owed, asleep, edited, edits, uncounted>>
    BY <1>11 DEF Record
  <2> HIDE DEF f
  <2>3. row' \in Schedule' /\ fires' \in Seq(Fires') /\ faults' \in 0..MaxFaults
    BY <1>1, <2>1, <2>2, ResolveTyped
  <2> QED BY <1>1, <1>3, <2>2, <2>3, QuietTyped
<1>12. CASE TickEnds
  <2>1. faults' \in 0..MaxFaults
    BY <1>2, <1>12 DEF TickEnds
  <2> QED BY <1>1, <1>3, <1>4, <1>12, <2>1, QuietTyped DEF TickEnds
<1> QED BY <1>5, <1>6, <1>7, <1>8, <1>9, <1>10, <1>11, <1>12 DEF TickStep

(* Every step keeps types.                                                 *)
LEMMA TypeStep ==
  ASSUME TypeOK, CopyInv, [Next]_vars
  PROVE  TypeOK'
<1>1. /\ time \in Nat /\ Len(runs) \in Nat /\ runs \in Seq(Runs) /\ tick \in Ticks
      /\ row \in Schedule /\ fires \in Seq(Fires) /\ manual \in Requests
      /\ faults \in 0..MaxFaults /\ edits \in 0..MaxEdits /\ time \in 0..MaxTime
      /\ owed \cup asleep \cup edited \cup uncounted \subseteq 1..time
  BY Parts DEF TypeOK
<1>2. ASSUME time' = time, runs' = runs
      PROVE  /\ Schedule' = Schedule /\ Fires' = Fires /\ Runs' = Runs
             /\ Ticks' = Ticks /\ Requests' = Requests
  <2>1. Schedule' = Schedule /\ Fires' = Fires /\ Runs' = Runs
    BY <1>2 DEF Schedule, Fires, Runs
  <2> QED BY <1>2, <2>1 DEF Ticks, Requests
<1>3. Edit => edits' \in 0..MaxEdits
  BY <1>1, ScheduleAssumption DEF Edit
<1>4. CASE TickStep \/ TickEnds
  BY <1>4, TickTyped
<1>5. CASE Alter
  <2>1. /\ row' \in Schedule /\ edits' \in 0..MaxEdits /\ edited' = edited \cup Open
        /\ UNCHANGED <<fires, time, runs, tick, manual, owed, asleep, uncounted, faults>>
    BY <1>5, AlterFacts
  <2>2. Open \subseteq 1..time
    BY Parts DEF Open
  <2> QED BY <1>1, <1>2, <2>1, <2>2 DEF TypeOK
<1>6. CASE Delete
  <2>1. row' \in Schedule
    BY <1>1, <1>6 DEF Delete, Schedule
  <2>2. fires' \in Seq(Fires)
    BY <1>6 DEF Delete
  <2>3. owed' \cup asleep' \cup edited' \cup uncounted' \subseteq 1..time
    BY <1>6 DEF Delete
  <2> QED BY <1>1, <1>2, <1>3, <1>6, <2>1, <2>2, <2>3 DEF Delete, TypeOK
<1>7. CASE RunNow
  <2>1. manual' \in Requests
    BY <1>1, <1>7 DEF RunNow, Requests
  <2> QED BY <1>1, <1>2, <1>3, <1>7, <2>1 DEF RunNow, TypeOK
<1>8. CASE AdmitNow
  <2>1. NoRequest \in Requests
    BY <1>1, Idle
  <2>2. /\ manual' = NoRequest
        /\ UNCHANGED <<time, tick, owed, asleep, edited, uncounted, edits, faults>>
    BY <1>8 DEF AdmitNow
  <2>3. CASE UNCHANGED <<row, fires, runs>>
    BY <1>1, <1>2, <2>1, <2>2, <2>3 DEF TypeOK
  <2>4. CASE Admitted(manual.snap, 0, time, manual.snap.cursor)
    <3>1. /\ 0 \in 0..time /\ time \in 0..time /\ manual.snap.cursor \in 0..time
      BY <1>1, Parts
    <3>2. /\ runs' \in Seq(Runs') /\ Len(runs) <= Len(runs')
          /\ row' \in Schedule' /\ fires' \in Seq(Fires')
      BY <2>2, <2>4, <3>1, AdmittedTyped
    <3>3. Ticks \subseteq Ticks' /\ Requests \subseteq Requests'
      BY <1>1, <2>2, <3>2, Grows
    <3> QED BY <1>1, <2>1, <2>2, <3>2, <3>3 DEF TypeOK
  <2> QED BY <1>8, <2>3, <2>4 DEF AdmitNow
<1>9. ASSUME NEW i \in DOMAIN runs, Claim(i) \/ Finish(i)
      PROVE  TypeOK'
  <2>1. /\ runs[i] \in Runs /\ runs \in [DOMAIN runs -> Runs] /\ DOMAIN runs = 1..Len(runs)
        /\ runs[i].born \in 0..time
    <3>1. runs[i] \in Runs /\ DOMAIN runs = 1..Len(runs) /\ runs \in [1..Len(runs) -> Runs]
      BY <1>1, Parts
    <3> QED BY <3>1 DEF Runs
  <2>2. runs' \in Seq(Runs) /\ Len(runs') = Len(runs)
    <3>1. (time - runs[i].born > CatchUp) \in BOOLEAN
      OBVIOUS
    <3>2. PICK u \in Runs : runs' = [runs EXCEPT ![i] = u]
      <4>1. CASE Claim(i)
        <5> DEFINE u == [runs[i] EXCEPT !.status = "running",
                                        !.stale = time - runs[i].born > CatchUp]
        <5>1. u \in Runs
          BY <2>1, <3>1 DEF Runs
        <5>2. runs' = [runs EXCEPT ![i] = u]
          BY <4>1, <2>1 DEF Claim
        <5> QED BY <5>1, <5>2
      <4>2. CASE Finish(i)
        <5> DEFINE u == [runs[i] EXCEPT !.status = "done"]
        <5>1. u \in Runs
          BY <2>1 DEF Runs
        <5>2. runs' = [runs EXCEPT ![i] = u]
          BY <4>2, <2>1 DEF Finish
        <5> QED BY <5>1, <5>2
      <4> QED BY <1>9, <4>1, <4>2
    <3> QED BY <1>1, <3>2
  <2>3. UNCHANGED <<time, row, fires, tick, manual, owed, asleep, edited, uncounted, edits, faults>>
    BY <1>9 DEF Claim, Finish
  <2>4. Runs' = Runs
    BY <2>3 DEF Runs
  <2>5. /\ Schedule \subseteq Schedule' /\ Fires \subseteq Fires'
        /\ Ticks \subseteq Ticks' /\ Requests \subseteq Requests'
    BY <1>1, <2>2, <2>3, <2>4, Grows
  <2> QED BY <1>1, <2>2, <2>3, <2>4, <2>5 DEF TypeOK
<1>10. CASE PassTime
  <2>1. /\ time' = time + 1 /\ time' \in 0..MaxTime
        /\ UNCHANGED <<row, fires, runs, tick, manual, edited, uncounted, edits, faults>>
    BY <1>1, <1>10, ScheduleAssumption DEF PassTime
  <2>2. Runs \subseteq Runs'
    BY <1>1, <2>1 DEF Runs
  <2>3. runs' \in Seq(Runs')
    BY <1>1, <2>1, <2>2
  <2>4. /\ Schedule \subseteq Schedule' /\ Fires \subseteq Fires'
        /\ Ticks \subseteq Ticks' /\ Requests \subseteq Requests' /\ 1..time \subseteq 1..time'
    BY <1>1, <2>1, <2>3, Grows
  <2>5. owed' \subseteq owed \cup {time'} /\ asleep' \subseteq asleep \cup {time'}
    BY <1>10 DEF PassTime
  <2>6. owed' \cup asleep' \cup edited' \cup uncounted' \subseteq 1..time'
    BY <1>1, <2>1, <2>4, <2>5
  <2>7. fires' \in Seq(Fires')
    BY <1>1, <2>1, <2>4
  <2> QED BY <1>1, <2>1, <2>3, <2>4, <2>6, <2>7 DEF TypeOK
<1>11. CASE UNCHANGED vars
  BY <1>1, <1>2, <1>11 DEF vars, TypeOK
<1> QED BY <1>4, <1>5, <1>6, <1>7, <1>8, <1>9, <1>10, <1>11 DEF Next, Alter

-----------------------------------------------------------------------------
(* The tick's copy.                                                        *)

Deciding == {"checking", "launching", "recording"}

(* A tick that goes on from its copy.                                      *)
LEMMA SameCopy ==
  ASSUME TypeOK, CopyInv, Past,
         tick'.snap = tick.snap, tick'.now = tick.now, tick'.due = tick.due,
         tick'.pc = "advancing" <=> tick.pc = "advancing",
         tick'.pc = "missing" => tick.pc = "missing",
         tick'.pc \in Deciding => InTime(tick.due, tick.now),
         tick'.pc = "recording" => tick'.outcome # "none",
         asleep' \subseteq asleep \cup {time + 1}
  PROVE  CopyInv'
<1>1. tick.due <= time /\ time \in Nat /\ tick.due \in Nat
  BY Parts
<1>2. tick.due # time + 1
  BY <1>1
<1> QED BY <1>2 DEF CopyInv, Past, Armed, Missed, InTime, Deciding

(* A tick that is over, or has not read the schedule yet.                  *)
LEMMA NoCopy ==
  ASSUME tick'.pc \in {"idle", "listing"}
  PROVE  CopyInv'
BY DEF CopyInv, Past

(* How the tick goes on, step by step.                                     *)
LEMMA TickMoves ==
  ASSUME TypeOK, CopyInv, TickStep \/ TickEnds, tick'.pc \notin {"idle", "listing"}
  PROVE  \/ ReadSchedule
         \/ /\ Past /\ tick.pc \notin {"advancing", "recording"}
            /\ tick'.pc \in Deciding /\ tick'.snap = tick.snap
            /\ tick'.now = tick.now /\ tick'.due = tick.due
            /\ InTime(tick.due, tick.now)
            /\ tick'.pc = "recording" => tick'.outcome # "none"
<1>1. tick \in Ticks /\ NoTick.pc = "idle"
  BY Idle, Parts DEF TypeOK
<1>2. CASE StartTick \/ TickEnds \/ AdvanceIdle \/ Record
  <2>1. [NoTick EXCEPT !.pc = "listing", !.now = time].pc = "listing"
    BY Idle, Parts
  <2> QED BY <1>1, <1>2, <2>1 DEF StartTick, TickEnds, AdvanceIdle, Record
<1>3. CASE RecordMissed
  BY <1>1, <1>3 DEF RecordMissed, Past, Ticks, Deciding
<1>4. CASE CheckOverlap
  BY <1>1, <1>4 DEF CheckOverlap, Past, Ticks, Deciding, CopyInv
<1>5. CASE Launch
  BY <1>1, <1>5 DEF Launch, Answered, Past, Ticks, Deciding, CopyInv
<1> QED BY <1>2, <1>3, <1>4, <1>5 DEF TickStep

(* What reading the schedule finds.                                        *)
LEMMA ReadFacts ==
  ASSUME TypeOK, ReadSchedule, tick'.pc # "idle"
  PROVE  LET due == Due(row, tick.now)
         IN /\ row.present /\ due \in row.decl.cadence /\ row.cursor < due /\ due <= tick.now
            /\ \A d \in row.decl.cadence : d <= tick.now => d <= due
            /\ tick'.now = tick.now /\ tick'.snap = row /\ tick'.due = due
            /\ \/ tick'.pc = "advancing" /\ ~Armed(row)
               \/ tick'.pc = "missing" /\ Armed(row) /\ Missed(row, due, tick.now) # {}
               \/ tick'.pc = "checking" /\ Armed(row) /\ Missed(row, due, tick.now) = {}
<1> DEFINE due == Due(row, tick.now)
<1>1. tick \in Ticks /\ NoTick.pc = "idle"
  BY Idle, Parts DEF TypeOK
<1>2. row.decl \in Decls /\ row.cursor \in Nat /\ tick.now \in Nat
  BY Parts
<1>3. due # 0 => /\ due \in row.decl.cadence /\ row.cursor < due /\ due <= tick.now
                 /\ \A d \in row.decl.cadence : d <= tick.now => d <= due
  BY <1>2, DueFacts
<1> HIDE DEF due
<1>4. CASE ~row.present \/ due = 0
  <2>1. tick' = NoTick
    BY <1>4 DEF ReadSchedule, due, Armed
  <2> QED BY <1>1, <2>1
<1>5. CASE row.present /\ due # 0
  <2>1. tick' = [tick EXCEPT !.pc = IF ~Armed(row) THEN "advancing"
                                    ELSE IF Missed(row, due, tick.now) # {} THEN "missing"
                                    ELSE "checking",
                             !.snap = row, !.due = due]
    BY <1>5 DEF ReadSchedule, due
  <2>2. tick'.now = tick.now /\ tick'.snap = row /\ tick'.due = due
    BY <1>1, <2>1 DEF Ticks
  <2>3. \/ tick'.pc = "advancing" /\ ~Armed(row)
        \/ tick'.pc = "missing" /\ Armed(row) /\ Missed(row, due, tick.now) # {}
        \/ tick'.pc = "checking" /\ Armed(row) /\ Missed(row, due, tick.now) = {}
    BY <1>1, <2>1 DEF Ticks
  <2> QED BY <1>3, <1>5, <2>2, <2>3 DEF due
<1> QED BY <1>4, <1>5

(* Every step keeps what the tick knows.                                   *)
LEMMA CopyStep ==
  ASSUME IInv, [Next]_vars
  PROVE  CopyInv'
<1> USE DEF IInv
<1>1. CASE tick'.pc \in {"idle", "listing"}
  BY <1>1, NoCopy
<1>2. CASE (TickStep \/ TickEnds) /\ tick'.pc \notin {"idle", "listing"}
  <2>1. asleep' = asleep
    BY <1>2 DEF TickStep, StartTick, ReadSchedule, AdvanceIdle, RecordMissed, CheckOverlap,
                Launch, Record, TickEnds, TickRest
  <2>2. CASE ReadSchedule
    <3> DEFINE due == Due(row, tick.now)
    <3>1. /\ row.present /\ due \in row.decl.cadence /\ row.cursor < due /\ due <= tick.now
          /\ \A d \in row.decl.cadence : d <= tick.now => d <= due
          /\ tick'.now = tick.now /\ tick'.snap = row /\ tick'.due = due
          /\ \/ tick'.pc = "advancing" /\ ~Armed(row)
             \/ tick'.pc = "missing" /\ Armed(row) /\ Missed(row, due, tick.now) # {}
             \/ tick'.pc = "checking" /\ Armed(row) /\ Missed(row, due, tick.now) = {}
      BY <1>2, <2>2, ReadFacts
    <3> HIDE DEF due
    <3>2. Armed(row) => due \notin asleep
      <4>1. row.cursor \in Nat /\ due \in Nat
        BY <3>1, Parts, ScheduleAssumption DEF Minutes
      <4> QED BY <3>1, <4>1 DEF OpenInv, Armed
    <3>3. Missed(row, due, tick.now) = {} => InTime(due, tick.now)
      BY <3>1 DEF Missed
    <3>4. Armed(tick.snap)' <=> Armed(row)
      BY <3>1 DEF Armed
    <3>5. Missed(tick.snap, tick.due, tick.now)' = Missed(row, due, tick.now)
      BY <3>1 DEF Missed, InTime
    <3>6. InTime(tick.due, tick.now)' <=> InTime(due, tick.now)
      BY <3>1 DEF InTime
    <3> QED BY <2>1, <3>1, <3>2, <3>3, <3>4, <3>5, <3>6 DEF CopyInv, Past
  <2>3. CASE ~ReadSchedule
    <3>1. /\ Past /\ tick.pc \notin {"advancing", "recording"}
          /\ tick'.pc \in Deciding /\ tick'.snap = tick.snap
          /\ tick'.now = tick.now /\ tick'.due = tick.due
          /\ InTime(tick.due, tick.now)
          /\ tick'.pc = "recording" => tick'.outcome # "none"
      BY <1>2, <2>3, TickMoves
    <3> QED BY <2>1, <3>1, SameCopy DEF Deciding
  <2> QED BY <2>2, <2>3
<1>3. CASE tick' = tick /\ asleep' \subseteq asleep \cup {time + 1}
           /\ tick'.pc \notin {"idle", "listing"}
  BY <1>3, SameCopy DEF Past, CopyInv, Deciding
<1>4. CASE Alter
  <2>1. tick' = tick /\ asleep' = asleep
    BY <1>4, AlterFacts
  <2> QED BY <2>1, <1>1, <1>3
<1>5. CASE Delete \/ RunNow \/ AdmitNow \/ PassTime \/ UNCHANGED vars
  <2>1. tick' = tick /\ asleep' \subseteq asleep \cup {time + 1}
    BY <1>5 DEF Delete, RunNow, AdmitNow, PassTime, vars
  <2> QED BY <2>1, <1>1, <1>3
<1>6. CASE \E i \in DOMAIN runs : Claim(i) \/ Finish(i)
  <2>1. tick' = tick /\ asleep' = asleep
    BY <1>6 DEF Claim, Finish
  <2> QED BY <2>1, <1>1, <1>3
<1> QED BY <1>1, <1>2, <1>4, <1>5, <1>6 DEF Next, Alter

-----------------------------------------------------------------------------
(* What is open.                                                           *)

(* The row in all but cursor and last run.                                 *)
SameSchedule ==
  /\ row'.present = row.present /\ row'.declared = row.declared
  /\ row'.paused = row.paused /\ row'.decl = row.decl
  /\ row.cursor <= row'.cursor

(* A resolution moves the cursor forward and names a fired run.            *)
LEMMA ResolvedRow ==
  ASSUME TypeOK, NEW c \in Nat, NEW f, Resolved(c, f)
  PROVE  /\ SameSchedule /\ c <= row'.cursor /\ row'.cursor \in {row.cursor, c}
         /\ row'.last = IF f.outcome = "fired" THEN f.run ELSE row.last
<1>1. row \in Schedule /\ row.cursor \in Nat
  BY Parts DEF TypeOK
<1>2. row' = [row EXCEPT !.cursor = Max2(row.cursor, c),
                         !.last = IF f.outcome = "fired" THEN f.run ELSE row.last]
  BY DEF Resolved
<1>3. /\ row'.present = row.present /\ row'.declared = row.declared
      /\ row'.paused = row.paused /\ row'.decl = row.decl
      /\ row'.cursor = Max2(row.cursor, c)
      /\ row'.last = IF f.outcome = "fired" THEN f.run ELSE row.last
  BY <1>1, <1>2 DEF Schedule
<1> QED BY <1>1, <1>3 DEF Max2, SameSchedule

(* No step of the tick alters the schedule.                                *)
LEMMA TickRow ==
  ASSUME TypeOK, CopyInv, TickStep \/ TickEnds
  PROVE  /\ SameSchedule
         /\ UNCHANGED <<time, manual, owed, asleep, edited, edits>>
         /\ uncounted \subseteq uncounted'
<1>1. row.cursor \in Nat /\ tick.due \in Nat /\ (row' = row => SameSchedule)
  BY Parts DEF SameSchedule
<1>2. CASE StartTick \/ ReadSchedule \/ CheckOverlap \/ TickEnds
  BY <1>1, <1>2 DEF StartTick, ReadSchedule, CheckOverlap, TickEnds, TickRest
<1>3. CASE AdvanceIdle
  BY <1>1, <1>3, ResolvedRow DEF AdvanceIdle, ResolveCronDue, TickRest
<1>4. CASE RecordMissed
  <2>1. LastMissed(tick.snap, tick.due, tick.now) \in Nat
    BY <1>4, GoneFacts DEF RecordMissed
  <2>2. SameSchedule
    BY <1>1, <1>4, <2>1, ResolvedRow DEF RecordMissed, ResolveCronDue
  <2> QED BY <1>4, <2>2 DEF RecordMissed, TickRest
<1>5. CASE Launch
  <2>1. ASSUME Admitted(tick.snap, tick.due, tick.due, tick.due) PROVE SameSchedule
    BY <1>1, <2>1, ResolvedRow DEF Admitted
  <2> QED BY <1>1, <1>5, <2>1 DEF Launch, TickRest
<1>6. CASE Record
  BY <1>1, <1>6, ResolvedRow DEF Record, ResolveCronDue, TickRest
<1> QED BY <1>2, <1>3, <1>4, <1>5, <1>6 DEF TickStep

(* Where the schedule is not altered, what is open stays as it was.        *)
LEMMA OpenKept ==
  ASSUME TypeOK, TypeOK', OpenInv, SameSchedule, UNCHANGED <<owed, asleep, edited>>,
         uncounted \subseteq uncounted',
         manual' = manual \/ manual'.pc = "idle",
         \/ tick'.pc \in {"idle", "listing"}
         \/ /\ Past /\ tick'.snap = tick.snap /\ tick'.now = tick.now /\ tick'.due = tick.due
            /\ tick'.pc \in Deciding /\ tick.pc \notin Deciding /\ row.present =>
                 \A d \in Missed(tick.snap, tick.due, tick.now) : d <= row'.cursor \/ d \in uncounted'
  PROVE  OpenInv'
<1> SUFFICES ASSUME row'.present PROVE OpenInv'
  BY DEF OpenInv
<1>1. row.present /\ row.cursor \in Nat /\ row'.cursor \in Nat /\ row.cursor <= row'.cursor
  BY Parts DEF SameSchedule, TypeOK, Schedule
<1>2. /\ owed \subseteq Nat /\ asleep \subseteq Nat
      /\ tick.snap.cursor \in Nat /\ manual.snap.cursor \in Nat
  BY Parts
<1>3. tick.snap.decl.cadence \subseteq Nat
  BY Parts DEF Minutes
<1>4. ASSUME NEW d \in owed' \ edited', d > row'.cursor
      PROVE  /\ Armed(row)' /\ d \in row'.decl.cadence
             /\ Past' /\ d <= tick'.now => Unaltered(tick.snap)'
  <2>1. d \in owed \ edited /\ d > row.cursor
    BY <1>1, <1>2, <1>4
  <2>2. /\ Armed(row) /\ d \in row.decl.cadence
        /\ Past /\ d <= tick.now => Unaltered(tick.snap)
    BY <1>1, <2>1 DEF OpenInv
  <2>3. Armed(row)' /\ d \in row'.decl.cadence
    BY <2>2 DEF Armed, SameSchedule
  <2>4. ASSUME Past', d <= tick'.now PROVE Unaltered(tick.snap)'
    <3>1. Past /\ tick'.snap = tick.snap /\ tick'.now = tick.now
      BY <2>4 DEF Past
    <3>2. Unaltered(tick.snap)
      BY <2>2, <2>4, <3>1
    <3> QED BY <3>1, <3>2 DEF Unaltered, SameSchedule
  <2> QED BY <2>3, <2>4
<1>5. \A d \in asleep' : row'.paused \/ d <= row'.cursor
  BY <1>1, <1>2 DEF OpenInv, SameSchedule
<1>6. Past' => tick'.snap.cursor <= row'.cursor
  BY <1>1, <1>2 DEF OpenInv, Past
<1>7. manual'.pc = "admitting" => manual'.snap.cursor <= row'.cursor
  BY <1>1, <1>2 DEF OpenInv
<1>8. ASSUME tick'.pc \in Deciding, NEW d \in Missed(tick.snap, tick.due, tick.now)'
      PROVE  d <= row'.cursor \/ d \in uncounted'
  <2>1. Past /\ tick'.snap = tick.snap /\ tick'.now = tick.now /\ tick'.due = tick.due
    BY <1>8 DEF Deciding
  <2>2. d \in Missed(tick.snap, tick.due, tick.now) /\ d \in Nat
    BY <2>1, <1>3, <1>8 DEF Missed, InTime
  <2>3. CASE tick.pc \in Deciding
    <3>1. d <= row.cursor \/ d \in uncounted
      BY <1>1, <2>2, <2>3 DEF OpenInv, Deciding
    <3> QED BY <3>1, <1>1, <2>2
  <2>4. CASE tick.pc \notin Deciding
    BY <1>1, <1>8, <2>2, <2>4 DEF Deciding
  <2> QED BY <2>3, <2>4
<1>9. tick'.pc \in Deciding => \A d \in Missed(tick.snap, tick.due, tick.now)' :
                                  d <= row'.cursor \/ d \in uncounted'
  BY <1>8
<1> QED BY <1>4, <1>5, <1>6, <1>7, <1>9 DEF OpenInv, Deciding

(* The tick's steps keep what is open.                                     *)
LEMMA TickOpen ==
  ASSUME IInv, TypeOK', TickStep \/ TickEnds
  PROVE  OpenInv'
<1> USE DEF IInv
<1>1. /\ SameSchedule /\ UNCHANGED <<time, manual, owed, asleep, edited, edits>>
      /\ uncounted \subseteq uncounted'
  BY TickRow
<1>2. CASE tick'.pc \in {"idle", "listing"}
  BY <1>1, <1>2, OpenKept
<1>3. CASE ReadSchedule /\ tick'.pc \notin {"idle", "listing"}
  <2>1. row' = row
    BY <1>3 DEF ReadSchedule
  <2> DEFINE due == Due(row, tick.now)
  <2>2. /\ tick'.now = tick.now /\ tick'.snap = row /\ tick'.due = due /\ row.present
        /\ \/ tick'.pc = "advancing"
           \/ tick'.pc = "missing"
           \/ tick'.pc = "checking" /\ Missed(row, due, tick.now) = {}
    BY <1>3, ReadFacts
  <2> HIDE DEF due
  <2>3. tick'.pc \in Deciding => Missed(tick.snap, tick.due, tick.now)' = {}
    BY <2>2 DEF Missed, InTime, Deciding
  <2>4. Unaltered(tick.snap)'
    BY <2>1, <2>2 DEF Unaltered
  <2>5. row.cursor <= row'.cursor /\ (Armed(row)' <=> Armed(row))
    BY <1>1, <2>1 DEF SameSchedule, Armed
  <2> QED BY <1>1, <2>1, <2>2, <2>3, <2>4, <2>5 DEF OpenInv, Deciding
<1>4. CASE ~ReadSchedule /\ tick'.pc \notin {"idle", "listing"}
  <2>1. /\ Past /\ tick.pc \notin {"advancing", "recording"}
        /\ tick'.pc \in Deciding /\ tick'.snap = tick.snap
        /\ tick'.now = tick.now /\ tick'.due = tick.due /\ InTime(tick.due, tick.now)
    BY <1>4, TickMoves
  <2>2. ASSUME tick.pc \notin Deciding, row.present,
               NEW d \in Missed(tick.snap, tick.due, tick.now)
        PROVE  d <= row'.cursor \/ d \in uncounted'
    <3> DEFINE last == LastMissed(tick.snap, tick.due, tick.now)
    <3>1. tick.pc = "missing" /\ RecordMissed
      <4>1. tick.pc = "missing"
        BY <2>1, <2>2 DEF TypeOK, Ticks, Deciding, Past
      <4>2. ~TickEnds
        BY <2>1, Idle, Parts DEF TickEnds, Deciding
      <4> QED BY <4>1, <4>2 DEF TickStep, StartTick, ReadSchedule, AdvanceIdle,
                 CheckOverlap, Launch, Record
    <3>2. last \in Nat /\ d \in Nat
      BY <3>1, <2>2, GoneFacts
    <3>3. CASE Resolved(last, Row(last, "missed", 0, tick.snap.cursor))
      <4>1. last <= row'.cursor
        BY <3>2, <3>3, ResolvedRow
      <4>2. row'.cursor \in Nat
        BY DEF TypeOK, Schedule
      <4>3. last < d => d \in uncounted'
        BY <2>1, <2>2, <3>1 DEF RecordMissed
      <4> QED BY <4>1, <4>2, <4>3, <3>2
    <3>4. CASE Fault
      <4>1. faults' # faults
        BY <3>4 DEF Fault, TypeOK
      <4> QED BY <2>1, <2>2, <3>1, <4>1 DEF RecordMissed
    <3> QED BY <2>2, <3>1, <3>3, <3>4 DEF RecordMissed, ResolveCronDue
  <2> QED BY <1>1, <2>1, <2>2, OpenKept
<1> QED BY <1>2, <1>3, <1>4

(* Every step keeps what is open.                                          *)
LEMMA OpenStep ==
  ASSUME IInv, TypeOK', [Next]_vars
  PROVE  OpenInv'
<1> USE DEF IInv
<1>1. /\ row.cursor \in 0..time /\ time \in Nat
      /\ owed \subseteq 1..time /\ asleep \subseteq 1..time
      /\ tick.snap.cursor \in 0..time /\ manual.snap.cursor \in 0..time /\ tick.now \in 0..time
  BY Parts
<1>2. CASE TickStep \/ TickEnds
  BY <1>2, TickOpen
<1>3. CASE Alter
  <2>1. /\ row.present /\ row' \in Schedule /\ row.cursor <= row'.cursor /\ row'.cursor <= time
        /\ (row'.paused \/ row'.cursor = time \/ ~row.paused)
        /\ edited' = edited \cup Open
        /\ UNCHANGED <<fires, time, runs, tick, manual, owed, asleep, uncounted, faults>>
    BY <1>3, AlterFacts
  <2>2. row'.cursor \in Nat
    BY <2>1 DEF Schedule
  <2>3. \A d \in owed' \ edited' : ~(d > row'.cursor)
    BY <1>1, <2>1, <2>2 DEF Open
  <2>4. \A d \in asleep' : row'.paused \/ d <= row'.cursor
    BY <1>1, <2>1, <2>2 DEF OpenInv
  <2>5. Past' => tick'.snap.cursor <= row'.cursor
    BY <1>1, <2>1, <2>2 DEF OpenInv, Past
  <2>6. manual'.pc = "admitting" => manual'.snap.cursor <= row'.cursor
    BY <1>1, <2>1, <2>2 DEF OpenInv
  <2>7. tick'.pc \in Deciding => \A d \in Missed(tick.snap, tick.due, tick.now)' :
                                    d <= row'.cursor \/ d \in uncounted'
    <3>1. Missed(tick.snap, tick.due, tick.now)' = Missed(tick.snap, tick.due, tick.now)
      BY <2>1 DEF Missed, InTime
    <3>2. \A d \in Missed(tick.snap, tick.due, tick.now) : d \in Nat
      BY Parts DEF Missed, Minutes
    <3> QED BY <1>1, <2>1, <2>2, <3>1, <3>2 DEF OpenInv, Deciding
  <2> QED BY <2>3, <2>4, <2>5, <2>6, <2>7 DEF OpenInv, Deciding
<1>4. CASE Delete
  <2>1. ~row'.present
    BY <1>4 DEF Delete, TypeOK, Schedule
  <2> QED BY <2>1 DEF OpenInv
<1>5. CASE /\ SameSchedule /\ UNCHANGED <<owed, asleep, edited, uncounted, tick>>
           /\ manual' = manual \/ manual'.pc = "idle"
  <2>1. CASE tick.pc \in {"idle", "listing"}
    BY <1>5, <2>1, OpenKept
  <2>2. CASE Past
    BY <1>5, <2>2, OpenKept
  <2> QED BY <2>1, <2>2 DEF Past
<1>6. CASE RunNow
  <2>1. /\ row' = row /\ manual'.snap = row
        /\ UNCHANGED <<time, fires, runs, tick, owed, asleep, edited, uncounted>>
    BY <1>6 DEF RunNow
  <2>2. /\ (Armed(row)' <=> Armed(row)) /\ (Past' <=> Past)
        /\ (Unaltered(tick.snap)' <=> Unaltered(tick.snap))
        /\ Missed(tick.snap, tick.due, tick.now)' = Missed(tick.snap, tick.due, tick.now)
    BY <2>1 DEF Armed, Past, Unaltered, Missed, InTime
  <2>3. row.cursor <= row'.cursor
    BY <2>1, <1>1
  <2> QED BY <2>1, <2>2, <2>3 DEF OpenInv
<1>7. CASE AdmitNow
  <2>1. ASSUME Admitted(manual.snap, 0, time, manual.snap.cursor) PROVE SameSchedule
    <3>1. manual.snap.cursor \in Nat
      BY <1>1
    <3> QED BY <2>1, <3>1, ResolvedRow DEF Admitted
  <2>2. row' = row => SameSchedule
    BY <1>1 DEF SameSchedule
  <2>3. NoRequest.pc = "idle"
    BY DEF NoRequest
  <2> QED BY <1>5, <1>7, <2>1, <2>2, <2>3 DEF AdmitNow
<1>8. CASE (\E i \in DOMAIN runs : Claim(i) \/ Finish(i)) \/ UNCHANGED vars
  <2>1. UNCHANGED <<row, tick, manual, owed, asleep, edited, uncounted>>
    BY <1>8 DEF Claim, Finish, vars
  <2>2. SameSchedule
    BY <1>1, <2>1 DEF SameSchedule
  <2> QED BY <1>5, <2>1, <2>2
<1>9. CASE PassTime
  <2>1. /\ time' = time + 1 /\ UNCHANGED <<row, fires, runs, tick, manual, edited, uncounted>>
        /\ owed' \subseteq owed \cup {time + 1}
        /\ time + 1 \in owed' => Armed(row) /\ time + 1 \in row.decl.cadence
        /\ asleep' \subseteq asleep \cup {time + 1}
        /\ time + 1 \in asleep' => row.paused
    <3>1. time + 1 \notin owed /\ time + 1 \notin asleep
      BY <1>1
    <3> QED BY <1>9, <3>1 DEF PassTime
  <2>2. /\ (Armed(row)' <=> Armed(row)) /\ (Past' <=> Past)
        /\ (Unaltered(tick.snap)' <=> Unaltered(tick.snap))
        /\ Missed(tick.snap, tick.due, tick.now)' = Missed(tick.snap, tick.due, tick.now)
    BY <2>1 DEF Armed, Past, Unaltered, Missed, InTime
  <2>3. ASSUME row.present, NEW d \in owed' \ edited', d > row.cursor
        PROVE  /\ Armed(row) /\ d \in row.decl.cadence
               /\ Past /\ d <= tick.now => Unaltered(tick.snap)
    <3>1. CASE d = time + 1
      BY <1>1, <2>1, <2>3, <3>1
    <3>2. CASE d # time + 1
      BY <2>1, <2>3, <3>2 DEF OpenInv
    <3> QED BY <3>1, <3>2
  <2>4. ASSUME row.present, NEW d \in asleep' PROVE row.paused \/ d <= row.cursor
    BY <2>1, <2>4 DEF OpenInv
  <2> QED BY <2>1, <2>2, <2>3, <2>4 DEF OpenInv
<1> QED BY <1>2, <1>3, <1>4, <1>6, <1>7, <1>8, <1>9 DEF Next, Alter

-----------------------------------------------------------------------------
(* The runs.                                                               *)

Unlaunched == {"missing", "checking", "launching"}

SameRuns ==
  /\ DOMAIN runs' = DOMAIN runs /\ Len(runs') = Len(runs)
  /\ \A r \in DOMAIN runs : runs'[r].due = runs[r].due

(* A step of a run keeps its instant and its time of birth.                *)
LEMMA RunMoves ==
  ASSUME TypeOK, NEW i \in DOMAIN runs, Claim(i) \/ Finish(i)
  PROVE  /\ SameRuns /\ row.present
         /\ UNCHANGED <<time, row, fires, tick, manual, owed, asleep, edited, uncounted>>
         /\ \A r \in DOMAIN runs : runs'[r].skip = runs[r].skip /\ runs'[r].born = runs[r].born
         /\ \A r \in DOMAIN runs : r # i => runs'[r] = runs[r]
         /\ \/ runs[i].status = "pending" /\ runs'[i].status = "running"
               /\ (runs'[i].stale <=> time - runs[i].born > CatchUp)
            \/ runs'[i].status = "done" /\ runs'[i].stale = runs[i].stale
<1>1. runs[i] \in Runs /\ DOMAIN runs = 1..Len(runs) /\ runs \in [1..Len(runs) -> Runs]
  BY Parts DEF TypeOK
<1>2. CASE Claim(i)
  <2> DEFINE u == [runs[i] EXCEPT !.status = "running", !.stale = time - runs[i].born > CatchUp]
  <2>1. /\ u.due = runs[i].due /\ u.skip = runs[i].skip /\ u.born = runs[i].born
        /\ u.status = "running" /\ (u.stale <=> time - runs[i].born > CatchUp)
    BY <1>1 DEF Runs
  <2>2. runs' = [runs EXCEPT ![i] = u]
    BY <1>1, <1>2 DEF Claim
  <2> HIDE DEF u
  <2>3. /\ DOMAIN runs' = DOMAIN runs /\ runs'[i] = u /\ Len(runs') = Len(runs)
        /\ \A r \in DOMAIN runs : r # i => runs'[r] = runs[r]
    BY <1>1, <2>2 DEF TypeOK
  <2> QED BY <1>2, <2>1, <2>3 DEF Claim, SameRuns
<1>3. CASE Finish(i)
  <2> DEFINE u == [runs[i] EXCEPT !.status = "done"]
  <2>1. /\ u.due = runs[i].due /\ u.skip = runs[i].skip /\ u.born = runs[i].born
        /\ u.status = "done" /\ u.stale = runs[i].stale
    BY <1>1 DEF Runs
  <2>2. runs' = [runs EXCEPT ![i] = u]
    BY <1>1, <1>3 DEF Finish
  <2> HIDE DEF u
  <2>3. /\ DOMAIN runs' = DOMAIN runs /\ runs'[i] = u /\ Len(runs') = Len(runs)
        /\ \A r \in DOMAIN runs : r # i => runs'[r] = runs[r]
    BY <1>1, <2>2 DEF TypeOK
  <2> QED BY <1>3, <2>1, <2>3 DEF Finish, SameRuns
<1> QED BY <1>2, <1>3

(* Only two steps start a run: the tick's launch, and one by hand.         *)
LEMMA StartsRun ==
  ASSUME IInv, [Next]_vars
  PROVE  \/ SameRuns
         \/ /\ Launch /\ Admitted(tick.snap, tick.due, tick.due, tick.due)
            /\ Earlier(tick.due) = {} /\ Unaltered(tick.snap)
         \/ AdmitNow /\ Admitted(manual.snap, 0, time, manual.snap.cursor)
            /\ Unaltered(manual.snap)
<1> USE DEF IInv
<1>1. runs' = runs => SameRuns
  BY DEF SameRuns
<1>2. CASE TickStep \/ TickEnds
  BY <1>1, <1>2 DEF TickStep, StartTick, ReadSchedule, AdvanceIdle, RecordMissed, CheckOverlap,
                    Launch, Record, TickEnds
<1>3. CASE Alter \/ Delete \/ RunNow \/ AdmitNow \/ PassTime \/ UNCHANGED vars
  BY <1>1, <1>3, AlterFacts DEF Delete, RunNow, AdmitNow, PassTime, vars
<1>4. CASE \E i \in DOMAIN runs : Claim(i) \/ Finish(i)
  BY <1>4, RunMoves
<1> QED BY <1>2, <1>3, <1>4 DEF Next, Alter

(* How the row's presence and cursor move in any step.                     *)
LEMMA CursorMoves ==
  ASSUME IInv, TypeOK', [Next]_vars
  PROVE  /\ row'.present => row.present
         /\ row.cursor <= row'.cursor
<1> USE DEF IInv
<1>1. row \in Schedule /\ row.cursor \in Nat
  BY Parts DEF TypeOK
<1>2. CASE TickStep \/ TickEnds
  BY <1>2, TickRow DEF SameSchedule
<1>3. CASE Alter
  BY <1>3, AlterFacts
<1>4. CASE Delete
  <2>1. row'.cursor = row.cursor /\ ~row'.present
    BY <1>1, <1>4 DEF Delete, Schedule
  <2> QED BY <1>1, <2>1
<1>5. CASE AdmitNow
  <2>1. manual.snap.cursor \in Nat
    BY Parts
  <2>2. CASE Admitted(manual.snap, 0, time, manual.snap.cursor)
    BY <2>1, <2>2, ResolvedRow DEF Admitted, SameSchedule
  <2>3. CASE row' = row
    BY <1>1, <2>3
  <2> QED BY <1>5, <2>2, <2>3 DEF AdmitNow
<1>6. CASE RunNow \/ PassTime \/ UNCHANGED vars \/ \E i \in DOMAIN runs : Claim(i) \/ Finish(i)
  <2>1. row' = row
    BY <1>6 DEF RunNow, PassTime, vars, Claim, Finish
  <2> QED BY <1>1, <2>1
<1> QED BY <1>2, <1>3, <1>4, <1>5, <1>6 DEF Next, Alter

(* A tick that is about to launch was so before, or has just read a row    *)
(* whose cursor the instant is beyond.                                     *)
LEMMA StillUnlaunched ==
  ASSUME IInv, [Next]_vars, tick'.pc \in Unlaunched
  PROVE  \/ /\ tick.pc \in Unlaunched /\ tick'.due = tick.due /\ tick'.snap = tick.snap
            /\ ~Launch
         \/ /\ ReadSchedule /\ row' = row /\ runs' = runs /\ tick'.snap = row
            /\ row.present /\ row.cursor < tick'.due
<1> USE DEF IInv
<1>1. CASE ReadSchedule
  <2>1. row' = row /\ runs' = runs
    BY <1>1 DEF ReadSchedule
  <2> QED BY <1>1, <2>1, ReadFacts DEF Unlaunched
<1>2. CASE (TickStep \/ TickEnds) /\ ~ReadSchedule
  <2>1. /\ Past /\ tick.pc \notin {"advancing", "recording"}
        /\ tick'.pc \in Deciding /\ tick'.snap = tick.snap /\ tick'.due = tick.due
    BY <1>2, TickMoves DEF Unlaunched
  <2>2. tick.pc \in Unlaunched
    BY <2>1 DEF Past, Unlaunched, TypeOK, Ticks
  <2>3. ~Launch
    BY Idle, Parts DEF Launch, Answered, Unlaunched, TypeOK, Ticks
  <2> QED BY <2>1, <2>2, <2>3
<1>3. CASE tick' = tick
  BY <1>3, Idle, Parts DEF Launch, Answered, Unlaunched, TypeOK, Ticks
<1>4. CASE Alter \/ Delete \/ RunNow \/ AdmitNow \/ PassTime \/ UNCHANGED vars
  BY <1>3, <1>4, AlterFacts DEF Delete, RunNow, AdmitNow, PassTime, vars
<1>5. CASE \E i \in DOMAIN runs : Claim(i) \/ Finish(i)
  BY <1>3, <1>5 DEF Claim, Finish
<1> QED BY <1>1, <1>2, <1>4, <1>5 DEF Next, Alter

LEMMA RunStep ==
  ASSUME IInv, TypeOK', [Next]_vars
  PROVE  RunInv'
<1> USE DEF IInv
<1>1. /\ row'.present => row.present
      /\ row.cursor <= row'.cursor /\ row.cursor \in Nat /\ row'.cursor \in Nat
  BY CursorMoves, Parts DEF TypeOK, Schedule
<1>2. /\ \A r \in DOMAIN runs : runs[r].due \in Nat
      /\ DOMAIN runs = 1..Len(runs) /\ Len(runs) \in Nat /\ tick.due \in Nat
  BY Parts
<1>3. CASE SameRuns
  <2>1. ASSUME row'.present, NEW r \in DOMAIN runs' PROVE runs'[r].due <= row'.cursor
    BY <1>1, <1>2, <1>3, <2>1 DEF RunInv, SameRuns
  <2>2. ASSUME tick'.pc \in Unlaunched, NEW r \in DOMAIN runs' PROVE runs'[r].due # tick'.due
    <3>1. r \in DOMAIN runs /\ runs'[r].due = runs[r].due
      BY <1>3, <2>2 DEF SameRuns
    <3>2. CASE tick.pc \in Unlaunched /\ tick'.due = tick.due
      BY <3>1, <3>2 DEF RunInv, Unlaunched
    <3>3. CASE row.present /\ row.cursor < tick'.due
      <4>1. tick'.due \in Nat
        BY DEF TypeOK, Ticks
      <4>2. runs[r].due <= row.cursor
        BY <3>1, <3>3 DEF RunInv
      <4> QED BY <3>1, <3>3, <1>1, <1>2, <4>1, <4>2
    <3> QED BY <2>2, <3>2, <3>3, StillUnlaunched
  <2>3. \A r, s \in DOMAIN runs' : runs'[r].due # 0 /\ runs'[r].due = runs'[s].due => r = s
    BY <1>3 DEF RunInv, SameRuns
  <2> QED BY <2>1, <2>2, <2>3 DEF RunInv, Unlaunched
<1>4. ASSUME NEW a, NEW due \in 0..time, NEW at, NEW c \in Nat, Admitted(a, due, at, c),
             due <= c, \/ due = 0
                       \/ tick.pc = "launching" /\ due = tick.due /\ tick'.pc \notin Unlaunched,
             tick'.pc \in Unlaunched => tick' = tick
      PROVE  RunInv'
  <2>1. /\ DOMAIN runs' = 1..(Len(runs) + 1)
        /\ \A i \in DOMAIN runs : runs'[i] = runs[i]
        /\ runs'[Len(runs) + 1].due = due
    <3>1. NewRun(a, due).due = due
      BY DEF NewRun
    <3>2. /\ DOMAIN runs' = 1..(Len(runs) + 1)
          /\ \A i \in DOMAIN runs : runs'[i] = runs[i]
          /\ runs'[Len(runs) + 1] = NewRun(a, due)
      BY <1>4, AdmittedRuns
    <3> QED BY <3>1, <3>2
  <2>2. \A r \in DOMAIN runs' : r \in DOMAIN runs \/ r = Len(runs) + 1
    BY <1>2, <2>1
  <2>3. c <= row'.cursor
    BY <1>4, ResolvedRow DEF Admitted
  <2>4. ASSUME row'.present, NEW r \in DOMAIN runs' PROVE runs'[r].due <= row'.cursor
    <3>1. CASE r \in DOMAIN runs
      BY <1>1, <1>2, <2>1, <2>4, <3>1 DEF RunInv
    <3>2. CASE r = Len(runs) + 1
      BY <1>1, <1>4, <2>1, <2>3, <3>2
    <3> QED BY <2>2, <3>1, <3>2
  <2>5. ASSUME tick'.pc \in Unlaunched, NEW r \in DOMAIN runs' PROVE runs'[r].due # tick'.due
    <3>1. tick' = tick /\ due = 0
      BY <1>4, <2>5
    <3>2. tick.due # 0
      BY <2>5, <3>1, Parts DEF CopyInv, Past, Unlaunched, Minutes
    <3> QED BY <2>1, <2>2, <2>5, <3>1, <3>2 DEF RunInv, Unlaunched
  <2>6. \A r, s \in DOMAIN runs' : runs'[r].due # 0 /\ runs'[r].due = runs'[s].due => r = s
    <3>1. due # 0 => \A r \in DOMAIN runs : runs[r].due # due
      BY <1>4 DEF RunInv
    <3> QED BY <2>1, <2>2, <3>1 DEF RunInv
  <2> QED BY <2>4, <2>5, <2>6 DEF RunInv, Unlaunched
<1>5. CASE Launch /\ Admitted(tick.snap, tick.due, tick.due, tick.due)
  <2>1. tick'.pc \notin Unlaunched
    BY <1>5, Idle, Parts DEF Launch, Answered, Unlaunched, TypeOK, Ticks
  <2>2. tick.pc = "launching" /\ tick.due \in 0..time /\ tick.due <= tick.due
    BY <1>5, Parts DEF Launch
  <2> QED BY <1>2, <1>4, <1>5, <2>1, <2>2
<1>6. CASE AdmitNow /\ Admitted(manual.snap, 0, time, manual.snap.cursor)
  <2>1. tick' = tick
    BY <1>6 DEF AdmitNow
  <2>2. 0 \in 0..time /\ manual.snap.cursor \in Nat /\ 0 <= manual.snap.cursor
    BY Parts
  <2> QED BY <1>4, <1>6, <2>1, <2>2
<1> QED BY <1>3, <1>5, <1>6, StartsRun

-----------------------------------------------------------------------------
(* The history.                                                            *)

OneRow(r) ==
  \E i \in DOMAIN fires :
    Names(fires[i], r) /\ \A j \in DOMAIN fires : Names(fires[j], r) => j = i

HasRow(d) == \E i \in DOMAIN fires : Covers(fires[i], d)

(* A row is still there, and says the same, after any number of runs and   *)
(* rows were added.                                                        *)
LEMMA RowsStay ==
  ASSUME TypeOK, HistoryInv, DOMAIN fires \subseteq DOMAIN fires',
         \A i \in DOMAIN fires : fires'[i] = fires[i],
         \A r \in DOMAIN runs : r \in DOMAIN runs' /\ runs'[r].due = runs[r].due,
         NEW d, HasRow(d)
  PROVE  HasRow(d)'
<1>1. PICK i \in DOMAIN fires : Covers(fires[i], d)
  BY DEF HasRow
<1>2. fires[i].outcome = "fired" => fires[i].run \in DOMAIN runs
  BY DEF HistoryInv
<1>3. i \in DOMAIN fires' /\ fires'[i] = fires[i]
  OBVIOUS
<1>4. Covers(fires[i], d)'
  BY <1>1, <1>2, <1>3 DEF Covers
<1> QED BY <1>3, <1>4 DEF HasRow

(* A row that names no run changes nothing about the rows of the runs.     *)
LEMMA OneRowStays ==
  ASSUME TypeOK, NEW f, fires' = fires \/ fires' = Append(fires, f),
         NEW r, f.outcome # "fired" \/ f.run # r, OneRow(r)
  PROVE  OneRow(r)'
<1>1. CASE fires' = fires
  BY <1>1 DEF OneRow, Names
<1>2. CASE fires' = Append(fires, f)
  <2>1. /\ DOMAIN fires' = 1..(Len(fires) + 1) /\ DOMAIN fires = 1..Len(fires)
        /\ \A i \in DOMAIN fires : fires'[i] = fires[i]
        /\ fires'[Len(fires) + 1] = f /\ Len(fires) \in Nat
    BY <1>2 DEF TypeOK
  <2>2. PICK i \in DOMAIN fires :
          Names(fires[i], r) /\ \A j \in DOMAIN fires : Names(fires[j], r) => j = i
    BY DEF OneRow
  <2>3. \A j \in DOMAIN fires' : j \in DOMAIN fires \/ j = Len(fires) + 1
    BY <2>1
  <2>4. i \in DOMAIN fires' /\ Names(fires'[i], r)
    BY <2>1, <2>2
  <2>5. \A j \in DOMAIN fires' : Names(fires'[j], r) => j = i
    BY <2>1, <2>2, <2>3 DEF Names
  <2> QED BY <2>4, <2>5 DEF OneRow, Names
<1> QED BY <1>1, <1>2

(* The row of a new run is its only one.                                   *)
LEMMA NewRunRow ==
  ASSUME TypeOK, NEW f, fires' = Append(fires, f), NEW r, Names(f, r),
         \A i \in DOMAIN fires : ~Names(fires[i], r)
  PROVE  OneRow(r)'
<1>1. /\ DOMAIN fires' = 1..(Len(fires) + 1) /\ DOMAIN fires = 1..Len(fires)
      /\ \A i \in DOMAIN fires : fires'[i] = fires[i]
      /\ fires'[Len(fires) + 1] = f /\ Len(fires) \in Nat
  BY DEF TypeOK
<1>2. \A j \in DOMAIN fires' : j \in DOMAIN fires \/ j = Len(fires) + 1
  BY <1>1
<1>3. Len(fires) + 1 \in DOMAIN fires' /\ Names(fires'[Len(fires) + 1], r)
  BY <1>1
<1>4. \A j \in DOMAIN fires' : Names(fires'[j], r) => j = Len(fires) + 1
  BY <1>1, <1>2
<1> QED BY <1>3, <1>4 DEF OneRow, Names

(* How a resolution changes history.                                       *)
LEMMA ResolvedFires ==
  ASSUME TypeOK, NEW c, NEW f, Resolved(c, f)
  PROVE  /\ fires' = fires \/ fires' = Append(fires, f)
         /\ DOMAIN fires \subseteq DOMAIN fires'
         /\ \A i \in DOMAIN fires : fires'[i] = fires[i]
         /\ f.outcome # "none" => \E i \in DOMAIN fires' : fires'[i] = f
         /\ f.outcome = "none" => fires' = fires
         /\ \A i \in DOMAIN fires' : i \in DOMAIN fires \/ fires'[i] = f
<1>1. CASE fires' = fires
  <2>1. f.outcome # "none" => Recorded(f)
    <3>1. Append(fires, f) # fires
      BY DEF TypeOK
    <3> QED BY <1>1, <3>1 DEF Resolved
  <2> QED BY <1>1, <2>1 DEF Recorded
<1>2. CASE fires' = Append(fires, f) /\ f.outcome # "none"
  <2>1. /\ DOMAIN fires' = 1..(Len(fires) + 1) /\ DOMAIN fires = 1..Len(fires)
        /\ \A i \in DOMAIN fires : fires'[i] = fires[i]
        /\ fires'[Len(fires) + 1] = f /\ Len(fires) \in Nat
    BY <1>2 DEF TypeOK
  <2>2. Len(fires) + 1 \in DOMAIN fires'
    BY <2>1
  <2>3. DOMAIN fires \subseteq DOMAIN fires'
        /\ \A i \in DOMAIN fires' : i \in DOMAIN fires \/ i = Len(fires) + 1
    BY <2>1
  <2> QED BY <1>2, <2>1, <2>2, <2>3
<1> QED BY <1>1, <1>2 DEF Resolved

(* An open instant the tick's resolution passes is one that it launches    *)
(* or that it missed; a paused or withdrawn schedule has none.             *)
LEMMA NewlyPassed ==
  ASSUME IInv, row.present, Past, NEW d \in owed \ edited, row.cursor < d, d <= tick.due
  PROVE  /\ tick.pc # "advancing"
         /\ tick.pc \in Deciding => d = tick.due \/ d \in uncounted
<1> USE DEF IInv
<1>1. /\ row.cursor \in Nat /\ d \in Nat /\ tick.due \in Nat /\ tick.now \in Nat
      /\ tick.snap.cursor \in Nat
  BY Parts
<1>2. tick.due <= tick.now /\ tick.snap.cursor <= row.cursor
  BY DEF CopyInv, OpenInv
<1>3. Armed(row) /\ d \in row.decl.cadence /\ Unaltered(tick.snap)
  BY <1>1, <1>2 DEF OpenInv
<1>4. d \in tick.snap.decl.cadence /\ Armed(tick.snap)
  BY <1>3 DEF Unaltered, Armed, CopyInv
<1>5. tick.pc # "advancing"
  BY <1>4 DEF CopyInv
<1>6. d # tick.due => d \in Missed(tick.snap, tick.due, tick.now)
  BY <1>1, <1>2, <1>4 DEF Missed
<1>7. tick.pc \in Deciding /\ d # tick.due => d \in uncounted
  BY <1>1, <1>6 DEF OpenInv, Deciding
<1> QED BY <1>5, <1>7

(* History grows by rows that name runs, and covers what is passed.        *)
LEMMA HistoryGrows ==
  ASSUME IInv, TypeOK',
         DOMAIN fires \subseteq DOMAIN fires', \A i \in DOMAIN fires : fires'[i] = fires[i],
         \A r \in DOMAIN runs : r \in DOMAIN runs' /\ runs'[r].due = runs[r].due,
         row'.present => row.present,
         \A i \in DOMAIN fires' :
           i \in DOMAIN fires \/ (fires'[i].outcome = "fired" => fires'[i].run \in DOMAIN runs'),
         row'.present => \A r \in DOMAIN runs' : OneRow(r)',
         row'.present => \A d \in owed' \ (edited' \cup uncounted') :
           d <= row'.cursor => \/ d \in owed \ (edited \cup uncounted) /\ d <= row.cursor
                               \/ HasRow(d)',
         row'.present /\ tick'.pc = "recording" /\ tick'.outcome = "fired" =>
           \/ tick' = tick
           \/ /\ tick'.run \in DOMAIN runs' /\ runs'[tick'.run].due = tick'.due
              /\ \E i \in DOMAIN fires' : fires'[i] = Row(tick'.due, "fired", tick'.run, 0)
  PROVE  HistoryInv'
<1> USE DEF IInv
<1>1. ASSUME NEW i \in DOMAIN fires', fires'[i].outcome = "fired"
      PROVE  fires'[i].run \in DOMAIN runs'
  BY <1>1 DEF HistoryInv
<1>2. ASSUME row'.present, NEW d \in owed' \ (edited' \cup uncounted'), d <= row'.cursor
      PROVE  HasRow(d)'
  <2>1. CASE d \in owed \ (edited \cup uncounted) /\ d <= row.cursor
    <3>1. HasRow(d)
      BY <1>2, <2>1 DEF HistoryInv, HasRow
    <3> QED BY <3>1, RowsStay
  <2> QED BY <1>2, <2>1
<1>3. ASSUME row'.present, tick'.pc = "recording", tick'.outcome = "fired"
      PROVE  /\ tick'.run \in DOMAIN runs' /\ runs'[tick'.run].due = tick'.due
             /\ \E i \in DOMAIN fires' : fires'[i] = Row(tick'.due, "fired", tick'.run, 0)
  <2>1. CASE tick' = tick
    <3>1. /\ tick.run \in DOMAIN runs /\ runs[tick.run].due = tick.due
          /\ \E i \in DOMAIN fires : fires[i] = Row(tick.due, "fired", tick.run, 0)
      BY <1>3, <2>1 DEF HistoryInv
    <3> QED BY <2>1, <3>1
  <2> QED BY <1>3, <2>1
<1>4. ASSUME row'.present, NEW r \in DOMAIN runs'
      PROVE  \E i \in DOMAIN fires' :
               Names(fires'[i], r) /\ \A j \in DOMAIN fires' : Names(fires'[j], r) => j = i
  <2>1. OneRow(r)'
    BY <1>4
  <2> QED BY <2>1 DEF OneRow, Names
<1>5. ASSUME row'.present, NEW d \in owed' \ (edited' \cup uncounted'), d <= row'.cursor
      PROVE  \E i \in DOMAIN fires' : Covers(fires[i], d)'
  BY <1>2, <1>5 DEF HasRow
<1> QED BY <1>1, <1>3, <1>4, <1>5 DEF HistoryInv, Names, Row, Covers

(* A step that changes neither runs nor history, nor moves the cursor      *)
(* past anything.                                                          *)
LEMMA HistoryKept ==
  ASSUME IInv, TypeOK', SameRuns, fires' = fires, row'.present => row.present,
         \A d \in owed' \ (edited' \cup uncounted') :
           d <= row'.cursor /\ row'.present =>
             d \in owed \ (edited \cup uncounted) /\ d <= row.cursor,
         tick' = tick \/ tick'.pc # "recording" \/ tick'.outcome # "fired"
  PROVE  HistoryInv'
<1> USE DEF IInv
<1>1. ASSUME row'.present, NEW r \in DOMAIN runs' PROVE OneRow(r)'
  <2>1. OneRow(r)
    BY <1>1 DEF HistoryInv, OneRow, SameRuns
  <2> QED BY <2>1 DEF OneRow, Names
<1> QED BY <1>1, HistoryGrows DEF SameRuns

(* A resolution that starts no run: what it passes, its row covers.        *)
LEMMA HistoryResolved ==
  ASSUME IInv, TypeOK', row.present, runs' = runs, UNCHANGED <<owed, edited>>,
         uncounted \subseteq uncounted', NEW c \in Nat, NEW f, Resolved(c, f),
         f.outcome = "fired" => Recorded(f),
         \A d \in owed \ (edited \cup uncounted) :
           row.cursor < d /\ d <= c =>
             f.outcome \in {"missed", "skipped", "failed"} /\ Covers(f, d),
         tick'.pc # "recording"
  PROVE  HistoryInv'
<1> USE DEF IInv
<1>1. /\ fires' = fires \/ fires' = Append(fires, f)
      /\ DOMAIN fires \subseteq DOMAIN fires'
      /\ \A i \in DOMAIN fires : fires'[i] = fires[i]
      /\ f.outcome # "none" => \E i \in DOMAIN fires' : fires'[i] = f
      /\ \A i \in DOMAIN fires' : i \in DOMAIN fires \/ fires'[i] = f
  BY ResolvedFires
<1>2. f.outcome = "fired" => fires' = fires
  BY DEF Resolved
<1>3. \A i \in DOMAIN fires' :
        i \in DOMAIN fires \/ (fires'[i].outcome = "fired" => fires'[i].run \in DOMAIN runs')
  BY <1>1, <1>2
<1>4. ASSUME NEW r \in DOMAIN runs' PROVE OneRow(r)'
  <2>1. OneRow(r)
    BY <1>4 DEF HistoryInv, OneRow
  <2>2. CASE f.outcome = "fired"
    BY <1>2, <2>1, <2>2 DEF OneRow, Names
  <2>3. CASE f.outcome # "fired"
    BY <1>1, <2>1, <2>3, OneRowStays
  <2> QED BY <2>2, <2>3
<1>5. ASSUME NEW d \in owed' \ (edited' \cup uncounted'), d <= row'.cursor
      PROVE  \/ d \in owed \ (edited \cup uncounted) /\ d <= row.cursor
             \/ HasRow(d)'
  <2>1. d \in owed \ (edited \cup uncounted) /\ d \in Nat /\ row.cursor \in Nat
    BY <1>5, Parts
  <2>2. CASE d <= row.cursor
    BY <2>1, <2>2
  <2>3. CASE row.cursor < d
    <3>1. row'.cursor \in {row.cursor, c}
      BY ResolvedRow
    <3>2. d <= c
      BY <1>5, <2>1, <2>3, <3>1
    <3>3. f.outcome \in {"missed", "skipped", "failed"} /\ Covers(f, d)
      BY <2>1, <2>3, <3>2
    <3>4. PICK i \in DOMAIN fires' : fires'[i] = f
      BY <1>1, <3>3
    <3>5. Covers(fires[i], d)'
      BY <3>3, <3>4 DEF Covers
    <3> QED BY <3>5 DEF HasRow
  <2> QED BY <2>1, <2>2, <2>3
<1> QED BY <1>1, <1>3, <1>4, <1>5, HistoryGrows

(* An admission: the new run has its row, and its instant with it.         *)
LEMMA HistoryAdmitted ==
  ASSUME IInv, TypeOK', row.present, UNCHANGED <<owed, edited, uncounted>>,
         NEW a, NEW due \in 0..time, NEW at, NEW c \in Nat, Admitted(a, due, at, c),
         \A d \in owed \ (edited \cup uncounted) : row.cursor < d /\ d <= c => d = due,
         tick'.pc = "recording" /\ tick'.outcome = "fired" =>
           \/ tick' = tick
           \/ tick'.run = Len(runs) + 1 /\ tick'.due = due /\ at = due
  PROVE  HistoryInv'
<1> USE DEF IInv
<1> DEFINE new == Len(runs) + 1
           f == Row(at, "fired", new, 0)
<1>1. /\ DOMAIN runs' = 1..new /\ DOMAIN runs = 1..Len(runs) /\ Len(runs) \in Nat
      /\ \A i \in DOMAIN runs : i \in DOMAIN runs' /\ runs'[i] = runs[i]
      /\ runs'[new] = NewRun(a, due) /\ Resolved(c, f)
  BY AdmittedRuns, Parts
<1>2. f.outcome = "fired" /\ f.run = new /\ f.due = at /\ NewRun(a, due).due = due
  BY DEF Row, NewRun
<1>3. new \in DOMAIN runs' /\ new \notin DOMAIN runs
  BY <1>1
<1>4. \A i \in DOMAIN fires : ~Names(fires[i], new)
  BY <1>3 DEF HistoryInv, Names
<1>5. ~Recorded(f)
  BY <1>2, <1>4 DEF Recorded, Names
<1> HIDE DEF f
<1>6. fires' = Append(fires, f)
  BY <1>1, <1>2, <1>5 DEF Resolved
<1>7. /\ DOMAIN fires \subseteq DOMAIN fires'
      /\ \A i \in DOMAIN fires : fires'[i] = fires[i]
      /\ \E i \in DOMAIN fires' : fires'[i] = f
      /\ \A i \in DOMAIN fires' : i \in DOMAIN fires \/ fires'[i] = f
  BY <1>1, <1>2, ResolvedFires
<1>8. ASSUME NEW r \in DOMAIN runs' PROVE OneRow(r)'
  <2>1. CASE r = new
    BY <1>2, <1>4, <1>6, <2>1, NewRunRow DEF Names
  <2>2. CASE r # new
    <3>1. r \in DOMAIN runs
      BY <1>1, <1>8, <2>2
    <3>2. OneRow(r)
      BY <3>1 DEF HistoryInv, OneRow
    <3> QED BY <1>2, <1>6, <2>2, <3>2, OneRowStays
  <2> QED BY <2>1, <2>2
<1>9. ASSUME NEW d \in owed' \ (edited' \cup uncounted'), d <= row'.cursor
      PROVE  \/ d \in owed \ (edited \cup uncounted) /\ d <= row.cursor
             \/ HasRow(d)'
  <2>1. d \in owed \ (edited \cup uncounted) /\ d \in Nat /\ row.cursor \in Nat
    BY <1>9, Parts
  <2>2. CASE d <= row.cursor
    BY <2>1, <2>2
  <2>3. CASE row.cursor < d
    <3>1. row'.cursor \in {row.cursor, c}
      BY <1>1, ResolvedRow
    <3>2. d = due
      BY <1>9, <2>1, <2>3, <3>1
    <3>3. PICK i \in DOMAIN fires' : fires'[i] = f
      BY <1>7
    <3>4. Covers(fires[i], d)'
      BY <1>1, <1>2, <3>2, <3>3 DEF Covers
    <3> QED BY <3>4 DEF HasRow
  <2> QED BY <2>1, <2>2, <2>3
<1>10. row'.present => row.present
  OBVIOUS
<1>11. ASSUME tick'.run = new, tick'.due = due, at = due
       PROVE  /\ tick'.run \in DOMAIN runs' /\ runs'[tick'.run].due = tick'.due
              /\ \E i \in DOMAIN fires' : fires'[i] = Row(tick'.due, "fired", tick'.run, 0)
  <2>1. f = Row(tick'.due, "fired", tick'.run, 0)
    BY <1>11 DEF f
  <2> QED BY <1>1, <1>2, <1>3, <1>7, <1>11, <2>1
<1>12. \A i \in DOMAIN fires' :
         i \in DOMAIN fires \/ (fires'[i].outcome = "fired" => fires'[i].run \in DOMAIN runs')
  BY <1>2, <1>3, <1>7
<1> HIDE DEF new
<1> QED BY <1>1, <1>7, <1>8, <1>9, <1>10, <1>11, <1>12, HistoryGrows DEF new

(* The tick's steps keep the history.                                      *)
LEMMA TickHistory ==
  ASSUME IInv, TypeOK', TickStep \/ TickEnds
  PROVE  HistoryInv'
<1> USE DEF IInv
<1>1. /\ SameSchedule /\ UNCHANGED <<time, manual, owed, asleep, edited, edits>>
      /\ uncounted \subseteq uncounted' /\ row'.present = row.present
  BY TickRow DEF SameSchedule
<1>2. NoTick.pc = "idle" /\ tick \in Ticks
  BY Idle, Parts DEF TypeOK
<1>3. CASE /\ UNCHANGED <<row, fires, runs>>
           /\ tick'.pc # "recording" \/ tick'.outcome # "fired"
  <2>1. SameRuns
    BY <1>3 DEF SameRuns
  <2> QED BY <1>1, <1>3, <2>1, HistoryKept
<1>4. CASE StartTick \/ TickEnds
  <2>1. [NoTick EXCEPT !.pc = "listing", !.now = time].pc = "listing"
    BY Idle, Parts
  <2>2. tick'.pc # "recording"
    BY <1>2, <1>4, <2>1 DEF StartTick, TickEnds
  <2> QED BY <1>3, <1>4, <2>2 DEF StartTick, TickEnds
<1>5. CASE ReadSchedule
  <2>1. tick'.pc # "recording"
    BY <1>5, ReadFacts
  <2> QED BY <1>3, <1>5, <2>1 DEF ReadSchedule
<1>6. CASE CheckOverlap
  <2>1. tick'.pc # "recording" \/ tick'.outcome # "fired"
    BY <1>2, <1>6 DEF CheckOverlap, Ticks
  <2> QED BY <1>3, <1>6, <2>1 DEF CheckOverlap
<1>7. CASE AdvanceIdle
  <2>1. tick'.pc # "recording" /\ tick.pc = "advancing" /\ Past /\ runs' = runs
    BY <1>2, <1>7 DEF AdvanceIdle, Past
  <2>2. CASE row.present /\ Resolved(tick.due, NoFire)
    <3>1. NoFire.outcome = "none" /\ tick.due \in Nat
      BY Parts DEF NoFire, Row
    <3>2. \A d \in owed \ (edited \cup uncounted) : ~(row.cursor < d /\ d <= tick.due)
      BY <2>1, <2>2, NewlyPassed
    <3> QED BY <1>1, <2>1, <2>2, <3>1, <3>2, HistoryResolved
  <2> QED BY <1>3, <1>7, <2>1, <2>2 DEF AdvanceIdle, ResolveCronDue
<1>8. CASE RecordMissed
  <2> DEFINE last == LastMissed(tick.snap, tick.due, tick.now)
             f == Row(last, "missed", 0, tick.snap.cursor)
  <2>1. tick'.pc # "recording" /\ tick.pc = "missing" /\ Past /\ runs' = runs
    BY <1>2, <1>8 DEF RecordMissed, Past, Ticks
  <2>2. last \in Nat
    BY <2>1, GoneFacts
  <2>3. CASE row.present /\ Resolved(last, f)
    <3>1. f.outcome = "missed" /\ f.from = tick.snap.cursor /\ f.due = last
      BY DEF Row
    <3>2. tick.snap.cursor <= row.cursor /\ tick.snap.cursor \in Nat /\ row.cursor \in Nat
      BY <2>1, <2>3, Parts DEF OpenInv
    <3> HIDE DEF last, f
    <3>3. ASSUME NEW d \in owed \ (edited \cup uncounted), row.cursor < d, d <= last
          PROVE  Covers(f, d)
      <4>1. d \in Nat
        BY Parts
      <4> QED BY <3>1, <3>2, <3>3, <4>1 DEF Covers
    <3> QED BY <1>1, <2>1, <2>2, <2>3, <3>1, <3>3, HistoryResolved
  <2> QED BY <1>3, <1>8, <2>1, <2>3 DEF RecordMissed, ResolveCronDue
<1>9. CASE Record
  <2> DEFINE f == Row(tick.due, tick.outcome, tick.run, 0)
  <2>1. tick'.pc # "recording" /\ tick.pc = "recording" /\ Past /\ runs' = runs
    BY <1>2, <1>9 DEF Record, Past
  <2>2. CASE row.present /\ Resolved(tick.due, f)
    <3>1. /\ f.outcome = tick.outcome /\ f.due = tick.due /\ tick.due \in Nat
          /\ tick.outcome \in {"fired", "skipped", "failed"}
      BY <1>2, <2>1, Parts DEF Row, CopyInv, Ticks
    <3>2. f.outcome = "fired" => Recorded(f)
      BY <2>1, <2>2, <3>1 DEF HistoryInv, Recorded
    <3>3. row.cursor \in Nat /\ owed \subseteq Nat
      BY Parts
    <3> HIDE DEF f
    <3>4. ASSUME NEW d \in owed \ (edited \cup uncounted), row.cursor < d, d <= tick.due
          PROVE  f.outcome \in {"missed", "skipped", "failed"} /\ Covers(f, d)
      <4>1. d = tick.due
        BY <2>1, <2>2, <3>4, NewlyPassed DEF Deciding
      <4>2. f.outcome # "fired"
        <5> SUFFICES ASSUME f.outcome = "fired" PROVE FALSE
          OBVIOUS
        <5>1. tick.run \in DOMAIN runs /\ runs[tick.run].due = tick.due
          BY <2>1, <2>2, <3>1 DEF HistoryInv
        <5>2. tick.due <= row.cursor
          BY <2>2, <5>1 DEF RunInv
        <5> QED BY <3>1, <3>3, <3>4, <4>1, <5>2
      <4> QED BY <3>1, <4>1, <4>2 DEF Covers
    <3> QED BY <1>1, <2>1, <2>2, <3>1, <3>2, <3>4, HistoryResolved
  <2> QED BY <1>3, <1>9, <2>1, <2>2 DEF Record, ResolveCronDue
<1>10. CASE Launch
  <2>1. tick.pc = "launching" /\ Past /\ tick.pc \in Deciding /\ tick.due \in 0..time
        /\ tick.due \in Nat
    BY <1>10, Parts DEF Launch, Past, Deciding
  <2>2. Earlier(tick.due) = {}
    BY <2>1 DEF Earlier, RunInv
  <2>3. CASE /\ Unaltered(tick.snap) /\ Admitted(tick.snap, tick.due, tick.due, tick.due)
             /\ Answered("fired", Len(runs) + 1) \/ Answered("failed", 0)
    <3>1. row.present
      BY <2>3 DEF Unaltered
    <3>2. \A d \in owed \ (edited \cup uncounted) : row.cursor < d /\ d <= tick.due => d = tick.due
      BY <2>1, <3>1, NewlyPassed
    <3>3. tick'.due = tick.due
          /\ (tick'.outcome = "fired" => tick'.run = Len(runs) + 1)
      BY <1>2, <2>3 DEF Answered, Ticks
    <3>4. uncounted' = uncounted
      BY <1>10 DEF Launch
    <3> QED BY <1>1, <2>1, <2>3, <3>1, <3>2, <3>3, <3>4, HistoryAdmitted
  <2>4. CASE /\ UNCHANGED <<row, fires, runs>>
             /\ tick' = NoTick \/ Answered("failed", 0)
    <3>1. tick'.pc # "recording" \/ tick'.outcome # "fired"
      BY <1>2, <2>4 DEF Answered, Ticks
    <3> QED BY <1>3, <2>4, <3>1
  <2> QED BY <1>10, <2>2, <2>3, <2>4 DEF Launch
<1> QED BY <1>4, <1>5, <1>6, <1>7, <1>8, <1>9, <1>10 DEF TickStep

(* Every step keeps the history.                                           *)
LEMMA HistoryStep ==
  ASSUME IInv, TypeOK', [Next]_vars
  PROVE  HistoryInv'
<1> USE DEF IInv
<1>1. /\ row.cursor \in 0..time /\ time \in Nat /\ owed \subseteq 1..time
      /\ manual.snap.cursor \in 0..time
  BY Parts
<1>2. CASE TickStep \/ TickEnds
  BY <1>2, TickHistory
<1>3. CASE Alter
  <2>1. /\ row.present /\ row.cursor <= row'.cursor /\ row' \in Schedule
        /\ edited' = edited \cup Open
        /\ UNCHANGED <<fires, time, runs, tick, manual, owed, asleep, uncounted, faults>>
    BY <1>3, AlterFacts
  <2>2. SameRuns
    BY <2>1 DEF SameRuns
  <2>3. \A d \in owed' \ (edited' \cup uncounted') :
          d \in owed \ (edited \cup uncounted) /\ d <= row.cursor
    BY <1>1, <2>1 DEF Open
  <2> QED BY <2>1, <2>2, <2>3, HistoryKept
<1>4. CASE Delete
  <2>1. ~row'.present
    BY <1>4 DEF Delete, TypeOK, Schedule
  <2>2. DOMAIN fires' = {}
    BY <1>4 DEF Delete
  <2> QED BY <2>1, <2>2 DEF HistoryInv
<1>5. CASE RunNow \/ UNCHANGED vars
  <2>1. UNCHANGED <<row, fires, runs, tick, owed, edited, uncounted>>
    BY <1>5 DEF RunNow, vars
  <2>2. SameRuns
    BY <2>1 DEF SameRuns
  <2> QED BY <2>1, <2>2, HistoryKept
<1>6. CASE AdmitNow
  <2>1. UNCHANGED <<time, tick, owed, asleep, edited, uncounted>>
    BY <1>6 DEF AdmitNow
  <2>2. CASE Unaltered(manual.snap) /\ Admitted(manual.snap, 0, time, manual.snap.cursor)
    <3>1. row.present /\ manual.pc = "admitting"
      BY <1>6, <2>2 DEF Unaltered, AdmitNow
    <3>2. manual.snap.cursor <= row.cursor
      BY <3>1 DEF OpenInv
    <3>3. \A d \in owed \ (edited \cup uncounted) :
            ~(row.cursor < d /\ d <= manual.snap.cursor)
      BY <1>1, <3>2
    <3>4. 0 \in 0..time /\ manual.snap.cursor \in Nat
      BY <1>1
    <3> QED BY <2>1, <2>2, <3>1, <3>3, <3>4, HistoryAdmitted
  <2>3. CASE UNCHANGED <<row, fires, runs>>
    <3>1. SameRuns
      BY <2>3 DEF SameRuns
    <3> QED BY <2>1, <2>3, <3>1, HistoryKept
  <2> QED BY <1>6, <2>2, <2>3 DEF AdmitNow
<1>7. CASE \E i \in DOMAIN runs : Claim(i) \/ Finish(i)
  <2>1. SameRuns /\ UNCHANGED <<row, fires, tick, owed, edited, uncounted>>
    BY <1>7, RunMoves
  <2> QED BY <2>1, HistoryKept
<1>8. CASE PassTime
  <2>1. /\ UNCHANGED <<row, fires, runs, tick, edited, uncounted>>
        /\ owed' \subseteq owed \cup {time + 1}
    BY <1>8 DEF PassTime
  <2>2. SameRuns
    BY <2>1 DEF SameRuns
  <2>3. ASSUME NEW d \in owed' \ (edited' \cup uncounted'), d <= row'.cursor
        PROVE  d \in owed \ (edited \cup uncounted) /\ d <= row.cursor
    BY <1>1, <2>1, <2>3
  <2> QED BY <2>1, <2>2, <2>3, HistoryKept
<1> QED BY <1>2, <1>3, <1>4, <1>5, <1>6, <1>7, <1>8 DEF Next, Alter

-----------------------------------------------------------------------------
(* Overlap.                                                                *)

(* What a step does to the runs there are.                                 *)
LEMMA RunsMove ==
  ASSUME IInv, [Next]_vars
  PROVE  /\ time \in Nat /\ time' \in Nat /\ time <= time'
         /\ \A i \in DOMAIN runs :
              /\ i \in DOMAIN runs' /\ runs'[i].due = runs[i].due
              /\ runs'[i].skip = runs[i].skip /\ runs'[i].born = runs[i].born
              /\ \/ runs'[i] = runs[i]
                 \/ time' = time /\ runs[i].status = "pending" /\ runs'[i].status = "running"
                    /\ (runs'[i].stale <=> time - runs[i].born > CatchUp)
                 \/ runs'[i].status = "done"
<1> USE DEF IInv
<1>1. time \in Nat /\ tick.due \in 0..time /\ 0 \in 0..time
  BY Parts
<1>2. CASE TickStep \/ TickEnds
  <2>1. time' = time
    BY <1>2, TickRow
  <2>2. CASE runs' = runs
    BY <1>1, <2>1, <2>2
  <2>3. CASE Admitted(tick.snap, tick.due, tick.due, tick.due)
    <3>1. \A i \in DOMAIN runs : i \in DOMAIN runs' /\ runs'[i] = runs[i]
      BY <1>1, <2>3, AdmittedRuns
    <3> QED BY <1>1, <2>1, <3>1
  <2> QED BY <1>2, <2>2, <2>3
          DEF TickStep, StartTick, ReadSchedule, AdvanceIdle, RecordMissed, CheckOverlap,
              Launch, Record, TickEnds
<1>3. CASE Alter \/ Delete \/ RunNow \/ PassTime \/ UNCHANGED vars
  <2>1. runs' = runs /\ (time' = time \/ time' = time + 1)
    BY <1>3, AlterFacts DEF Delete, RunNow, PassTime, vars
  <2> QED BY <1>1, <2>1
<1>4. CASE AdmitNow
  <2>1. time' = time
    BY <1>4 DEF AdmitNow
  <2>2. CASE runs' = runs
    BY <1>1, <2>1, <2>2
  <2>3. CASE Admitted(manual.snap, 0, time, manual.snap.cursor)
    <3>1. \A i \in DOMAIN runs : i \in DOMAIN runs' /\ runs'[i] = runs[i]
      BY <1>1, <2>3, AdmittedRuns
    <3> QED BY <1>1, <2>1, <3>1
  <2> QED BY <1>4, <2>2, <2>3 DEF AdmitNow
<1>5. ASSUME NEW i \in DOMAIN runs, Claim(i) \/ Finish(i)
      PROVE  /\ time' \in Nat /\ time <= time'
             /\ \A r \in DOMAIN runs :
                  /\ r \in DOMAIN runs' /\ runs'[r].due = runs[r].due
                  /\ runs'[r].skip = runs[r].skip /\ runs'[r].born = runs[r].born
                  /\ \/ runs'[r] = runs[r]
                     \/ time' = time /\ runs[r].status = "pending" /\ runs'[r].status = "running"
                        /\ (runs'[r].stale <=> time - runs[r].born > CatchUp)
                     \/ runs'[r].status = "done"
  <2>1. /\ SameRuns /\ UNCHANGED time
        /\ \A r \in DOMAIN runs : runs'[r].skip = runs[r].skip /\ runs'[r].born = runs[r].born
        /\ \A r \in DOMAIN runs : r # i => runs'[r] = runs[r]
        /\ \/ runs[i].status = "pending" /\ runs'[i].status = "running"
              /\ (runs'[i].stale <=> time - runs[i].born > CatchUp)
           \/ runs'[i].status = "done"
    BY <1>5, RunMoves
  <2> QED BY <1>1, <2>1 DEF SameRuns
<1> QED BY <1>1, <1>2, <1>3, <1>4, <1>5 DEF Next, Alter

(* A run that is over stays over.                                          *)
LEMMA OverStays ==
  ASSUME IInv, [Next]_vars, NEW i \in DOMAIN runs, Over(i)
  PROVE  Over(i)'
<1>1. /\ time \in Nat /\ time' \in Nat /\ time <= time'
      /\ runs'[i].born = runs[i].born
      /\ \/ runs'[i] = runs[i]
         \/ time' = time /\ runs[i].status = "pending" /\ runs'[i].status = "running"
            /\ (runs'[i].stale <=> time - runs[i].born > CatchUp)
         \/ runs'[i].status = "done"
  BY RunsMove
<1>2. runs[i].born \in Nat /\ CatchUp \in Nat
  BY Parts, ScheduleAssumption DEF IInv, Runs
<1> QED BY <1>1, <1>2 DEF Over

(* A step that starts no run of the cadence adds only runs by hand.        *)
LEMMA ByHandStays ==
  ASSUME IInv, [Next]_vars,
         SameRuns \/ Admitted(manual.snap, 0, time, manual.snap.cursor),
         NEW n \in Nat, \A r \in DOMAIN runs : r > n => runs[r].due = 0
  PROVE  \A r \in DOMAIN runs' : r > n => runs'[r].due = 0
<1> USE DEF IInv
<1>1. CASE SameRuns
  BY <1>1 DEF SameRuns
<1>2. CASE Admitted(manual.snap, 0, time, manual.snap.cursor)
  <2>1. NewRun(manual.snap, 0).due = 0 /\ 0 \in 0..time /\ DOMAIN runs = 1..Len(runs)
        /\ Len(runs) \in Nat
    BY Parts DEF NewRun
  <2>2. /\ DOMAIN runs' = 1..(Len(runs) + 1)
        /\ \A i \in DOMAIN runs : runs'[i] = runs[i]
        /\ runs'[Len(runs) + 1] = NewRun(manual.snap, 0)
    BY <1>2, <2>1, AdmittedRuns
  <2>3. \A r \in DOMAIN runs' : r \in DOMAIN runs \/ r = Len(runs) + 1
    BY <2>1, <2>2
  <2> QED BY <2>1, <2>2, <2>3
<1> QED BY <1>1, <1>2

(* A tick that has fired was there before, or has just started its run.    *)
LEMMA JustFired ==
  ASSUME IInv, [Next]_vars, tick'.pc = "recording", tick'.outcome = "fired"
  PROVE  \/ tick' = tick /\ ~Launch
         \/ /\ Launch /\ Admitted(tick.snap, tick.due, tick.due, tick.due)
            /\ tick'.run = Len(runs) + 1
<1> USE DEF IInv
<1>1. NoTick.pc = "idle" /\ tick \in Ticks
  BY Idle, Parts DEF TypeOK
<1>2. CASE StartTick \/ TickEnds \/ AdvanceIdle \/ Record
  <2>1. [NoTick EXCEPT !.pc = "listing", !.now = time].pc = "listing"
    BY Idle, Parts
  <2> QED BY <1>1, <1>2, <2>1 DEF StartTick, TickEnds, AdvanceIdle, Record
<1>3. CASE ReadSchedule
  BY <1>3, ReadFacts
<1>4. CASE RecordMissed
  BY <1>1, <1>4 DEF RecordMissed, Ticks
<1>5. CASE CheckOverlap
  BY <1>1, <1>5 DEF CheckOverlap, Ticks
<1>6. CASE Launch
  <2>1. Earlier(tick.due) = {}
    BY <1>6 DEF Launch, Earlier, RunInv
  <2>2. ~Answered("failed", 0) /\ tick' # NoTick
    BY <1>1 DEF Answered, Ticks
  <2>3. Admitted(tick.snap, tick.due, tick.due, tick.due) /\ Answered("fired", Len(runs) + 1)
    BY <1>6, <2>1, <2>2 DEF Launch
  <2> QED BY <1>1, <1>6, <2>3 DEF Answered, Ticks
<1>7. CASE tick' = tick
  BY <1>7 DEF Launch
<1>8. CASE Alter \/ Delete \/ RunNow \/ AdmitNow \/ PassTime \/ UNCHANGED vars
  BY <1>7, <1>8, AlterFacts DEF Delete, RunNow, AdmitNow, PassTime, vars
<1>9. CASE \E i \in DOMAIN runs : Claim(i) \/ Finish(i)
  BY <1>7, <1>9 DEF Claim, Finish
<1> QED BY <1>2, <1>3, <1>4, <1>5, <1>6, <1>8, <1>9 DEF Next, Alter, TickStep

(* The run the row names after a step.                                     *)
LEMMA LastMoves ==
  ASSUME IInv, [Next]_vars
  PROVE  \/ row'.last = row.last
         \/ Launch /\ Admitted(tick.snap, tick.due, tick.due, tick.due)
            /\ row'.last = Len(runs) + 1
         \/ AdmitNow /\ Admitted(manual.snap, 0, time, manual.snap.cursor)
            /\ row'.last = Len(runs) + 1
         \/ row.present /\ tick.pc = "recording" /\ tick.outcome = "fired"
            /\ row'.last = tick.run /\ runs' = runs
<1> USE DEF IInv
<1>1. row \in Schedule /\ tick.due \in Nat /\ manual.snap.cursor \in Nat
  BY Parts DEF TypeOK
<1>2. CASE StartTick \/ ReadSchedule \/ CheckOverlap \/ TickEnds
  BY <1>2 DEF StartTick, ReadSchedule, CheckOverlap, TickEnds
<1>3. CASE AdvanceIdle
  <2>1. NoFire.outcome = "none"
    BY DEF NoFire, Row
  <2> QED BY <1>1, <1>3, <2>1, ResolvedRow DEF AdvanceIdle, ResolveCronDue
<1>4. CASE RecordMissed
  <2> DEFINE last == LastMissed(tick.snap, tick.due, tick.now)
             f == Row(last, "missed", 0, tick.snap.cursor)
  <2>1. last \in Nat /\ f.outcome = "missed"
    BY <1>4, GoneFacts DEF RecordMissed, Row
  <2>2. Resolved(last, f) => row'.last = row.last
    <3> HIDE DEF last, f
    <3> QED BY <2>1, ResolvedRow
  <2> QED BY <1>4, <2>2 DEF RecordMissed, ResolveCronDue
<1>5. CASE Record
  <2> DEFINE f == Row(tick.due, tick.outcome, tick.run, 0)
  <2>1. f.outcome = tick.outcome /\ f.run = tick.run
    BY DEF Row
  <2>2. Resolved(tick.due, f) => row'.last = IF tick.outcome = "fired" THEN tick.run ELSE row.last
    <3> HIDE DEF f
    <3> QED BY <1>1, <2>1, ResolvedRow
  <2> QED BY <1>5, <2>2 DEF Record, ResolveCronDue
<1>6. CASE Launch
  <2> DEFINE f == Row(tick.due, "fired", Len(runs) + 1, 0)
  <2>1. f.outcome = "fired" /\ f.run = Len(runs) + 1
    BY DEF Row
  <2>2. Resolved(tick.due, f) => row'.last = Len(runs) + 1
    <3> HIDE DEF f
    <3> QED BY <1>1, <2>1, ResolvedRow
  <2>3. Admitted(tick.snap, tick.due, tick.due, tick.due) => row'.last = Len(runs) + 1
    BY <2>2 DEF Admitted
  <2> QED BY <1>6, <2>3 DEF Launch
<1>7. CASE AdmitNow
  <2> DEFINE f == Row(time, "fired", Len(runs) + 1, 0)
  <2>1. f.outcome = "fired" /\ f.run = Len(runs) + 1
    BY DEF Row
  <2>2. Resolved(manual.snap.cursor, f) => row'.last = Len(runs) + 1
    <3> HIDE DEF f
    <3> QED BY <1>1, <2>1, ResolvedRow
  <2>3. Admitted(manual.snap, 0, time, manual.snap.cursor) => row'.last = Len(runs) + 1
    BY <2>2 DEF Admitted
  <2> QED BY <1>7, <2>3 DEF AdmitNow
<1>8. CASE Alter
  BY <1>8, AlterFacts
<1>9. CASE Delete
  BY <1>1, <1>9 DEF Delete, Schedule
<1>10. CASE RunNow \/ PassTime \/ UNCHANGED vars \/ \E i \in DOMAIN runs : Claim(i) \/ Finish(i)
  <2>1. row' = row
    BY <1>10 DEF RunNow, PassTime, vars, Claim, Finish
  <2> QED BY <2>1
<1> QED BY <1>2, <1>3, <1>4, <1>5, <1>6, <1>7, <1>8, <1>9, <1>10 DEF Next, Alter, TickStep

(* Every step keeps overlap.                                               *)
LEMMA OverlapStep ==
  ASSUME IInv, TypeOK', [Next]_vars
  PROVE  OverlapInv'
<1> USE DEF IInv
<1> DEFINE ByTick == Launch /\ Admitted(tick.snap, tick.due, tick.due, tick.due)
           ByHand == AdmitNow /\ Admitted(manual.snap, 0, time, manual.snap.cursor)
<1>1. SameRuns \/ ByTick \/ ByHand
  BY StartsRun
<1>2. /\ row.last \in Nat /\ tick.snap.last \in 0..Len(runs) /\ tick.run \in Nat
      /\ Len(runs) \in Nat /\ DOMAIN runs = 1..Len(runs) /\ tick.due \in 0..time /\ 0 \in 0..time
  BY Parts
<1>3. ASSUME ByTick \/ ByHand
      PROVE  DOMAIN runs' = 1..(Len(runs) + 1) /\ Len(runs') = Len(runs) + 1
             /\ \A i \in DOMAIN runs : runs'[i] = runs[i]
  BY <1>2, <1>3, AdmittedRuns
<1>4. ~(Launch /\ AdmitNow)
  <2>1. Launch => tick' # tick
    BY Idle, Parts DEF Launch, Answered, TypeOK, Ticks
  <2> QED BY <2>1 DEF AdmitNow
<1>5. \A r \in DOMAIN runs' : r > row'.last => runs'[r].due = 0
  <2>1. CASE row'.last = Len(runs) + 1 /\ (ByTick \/ ByHand)
    BY <1>2, <1>3, <2>1
  <2>2. CASE row'.last = row.last /\ (SameRuns \/ ByHand)
    BY <1>2, <2>2, ByHandStays DEF OverlapInv, OnlyByHandAfter
  <2>3. CASE row.present /\ tick.pc = "recording" /\ tick.outcome = "fired"
             /\ row'.last = tick.run /\ runs' = runs
    BY <2>3 DEF OverlapInv, OnlyByHandAfter
  <2>4. CASE row'.last = row.last /\ ByTick
    <3>1. row'.last = Len(runs) + 1
      <4> DEFINE f == Row(tick.due, "fired", Len(runs) + 1, 0)
      <4>1. f.outcome = "fired" /\ f.run = Len(runs) + 1 /\ Resolved(tick.due, f)
        BY <2>4 DEF Row, Admitted
      <4> HIDE DEF f
      <4> QED BY <1>2, <4>1, ResolvedRow
    <3> QED BY <1>2, <1>3, <2>4, <3>1
  <2> QED BY <1>1, <2>1, <2>2, <2>3, <2>4, LastMoves
<1>6. ASSUME tick'.pc \in Unlaunched
      PROVE  \A r \in DOMAIN runs' : r > tick'.snap.last => runs'[r].due = 0
  <2>1. CASE tick.pc \in Unlaunched /\ tick'.snap = tick.snap /\ ~Launch
    <3>1. \A r \in DOMAIN runs : r > tick.snap.last => runs[r].due = 0
      BY <2>1 DEF OverlapInv, OnlyByHandAfter, Unlaunched
    <3> QED BY <1>1, <1>2, <2>1, <3>1, ByHandStays
  <2>2. CASE runs' = runs /\ tick'.snap = row
    BY <2>2 DEF OverlapInv, OnlyByHandAfter
  <2> QED BY <1>6, <2>1, <2>2, StillUnlaunched
<1>7. ASSUME tick'.pc = "recording", tick'.outcome = "fired", row'.present
      PROVE  \A r \in DOMAIN runs' : r > tick'.run => runs'[r].due = 0
  <2>1. row.present
    BY <1>7, CursorMoves
  <2>2. CASE tick' = tick /\ ~Launch
    <3>1. \A r \in DOMAIN runs : r > tick.run => runs[r].due = 0
      BY <1>7, <2>1, <2>2 DEF OverlapInv, OnlyByHandAfter
    <3> QED BY <1>1, <1>2, <2>2, <3>1, ByHandStays
  <2>3. CASE ByTick /\ tick'.run = Len(runs) + 1
    BY <1>2, <1>3, <2>3
  <2> QED BY <1>7, <2>2, <2>3, JustFired
<1>8. ASSUME tick'.pc = "launching", tick'.checked, tick'.snap.decl.overlap = "skip",
             tick'.snap.last # 0
      PROVE  Over(tick.snap.last)'
  <2>1. /\ tick.pc \in Unlaunched /\ tick'.snap = tick.snap
    <3>1. ~ReadSchedule
      BY <1>8, ReadFacts
    <3> QED BY <1>8, <3>1, StillUnlaunched DEF Unlaunched
  <2>2. tick.snap.last \in DOMAIN runs
    BY <1>2, <1>8, <2>1
  <2>3. Over(tick.snap.last)
    <3>1. CASE tick.pc = "launching" /\ tick' = tick
      BY <1>8, <3>1 DEF OverlapInv
    <3>2. CASE CheckOverlap
      <4>1. ~Active(tick.snap.last)
        BY <1>8, <3>2, <2>1 DEF CheckOverlap, TypeOK, Ticks
      <4>2. /\ runs[tick.snap.last].status \in {"pending", "running", "done"}
            /\ runs[tick.snap.last].born \in Nat /\ time \in Nat /\ CatchUp \in Nat
        BY <2>2, Parts, ScheduleAssumption DEF Runs
      <4> QED BY <1>8, <2>1, <4>1, <4>2 DEF Active, Over
    <3>3. tick' = tick \/ CheckOverlap
      <4>1. CASE TickStep \/ TickEnds
        <5>1. NoTick.pc = "idle" /\ [NoTick EXCEPT !.pc = "listing", !.now = time].pc = "listing"
          BY Idle, Parts
        <5>2. ~StartTick /\ ~AdvanceIdle /\ ~Record /\ ~TickEnds
          BY <1>8, <5>1 DEF StartTick, AdvanceIdle, Record, TickEnds
        <5>3. ~ReadSchedule
          BY <1>8, ReadFacts
        <5>4. ~RecordMissed /\ ~Launch
          BY <1>8, <5>1 DEF RecordMissed, Launch, Answered, TypeOK, Ticks
        <5> QED BY <4>1, <5>2, <5>3, <5>4 DEF TickStep
      <4>2. CASE Alter \/ Delete \/ RunNow \/ AdmitNow \/ PassTime \/ UNCHANGED vars
        BY <4>2, AlterFacts DEF Delete, RunNow, AdmitNow, PassTime, vars
      <4>3. CASE \E i \in DOMAIN runs : Claim(i) \/ Finish(i)
        BY <4>3 DEF Claim, Finish
      <4> QED BY <4>1, <4>2, <4>3 DEF Next, Alter
    <3> QED BY <1>8, <3>1, <3>2, <3>3
  <2>4. PICK n \in DOMAIN runs : n = tick.snap.last
    BY <2>2
  <2>5. Over(n)'
    BY <2>3, <2>4, OverStays
  <2> QED BY <2>1, <2>4, <2>5 DEF Over
<1>9. ASSUME NEW j \in 2..Len(runs'), runs'[j - 1].due # 0, runs'[j].due # 0, runs'[j].skip
      PROVE  Over(j - 1)'
  <2>1. CASE j \in DOMAIN runs
    <3>1. /\ j - 1 \in DOMAIN runs /\ j \in 2..Len(runs)
      BY <1>2, <1>9, <2>1
    <3>2. runs'[j - 1].due = runs[j - 1].due /\ runs'[j].due = runs[j].due
          /\ runs'[j].skip = runs[j].skip
      BY <2>1, <3>1, RunsMove
    <3>3. Over(j - 1)
      BY <1>9, <3>1, <3>2 DEF OverlapInv
    <3> QED BY <3>1, <3>3, OverStays
  <2>2. CASE j \notin DOMAIN runs
    <3>1. ~SameRuns
      BY <1>2, <1>9, <2>2 DEF SameRuns
    <3>2. j = Len(runs) + 1 /\ (ByTick \/ ByHand)
      BY <1>1, <1>2, <1>3, <1>9, <2>2, <3>1
    <3>3. CASE ByHand
      <4>1. NewRun(manual.snap, 0).due = 0
        BY DEF NewRun
      <4>2. runs'[Len(runs) + 1] = NewRun(manual.snap, 0)
        BY <1>2, <3>3, AdmittedRuns
      <4> QED BY <1>9, <3>2, <4>1, <4>2
    <3>4. CASE ByTick
      <4>1. NewRun(tick.snap, tick.due).skip => tick.snap.decl.overlap = "skip" /\ tick.checked
        BY DEF NewRun
      <4>2. runs'[Len(runs) + 1] = NewRun(tick.snap, tick.due)
        BY <1>2, <3>4, AdmittedRuns
      <4>3. tick.snap.decl.overlap = "skip" /\ tick.checked /\ tick.pc = "launching"
        BY <1>9, <3>2, <3>4, <4>1, <4>2 DEF Launch
      <4>4. j - 1 \in DOMAIN runs /\ runs[j - 1].due # 0
        <5>1. j - 1 \in DOMAIN runs
          BY <1>2, <1>9, <3>2
        <5> QED BY <1>3, <1>9, <3>2, <5>1
      <4>5. ~(j - 1 > tick.snap.last)
        BY <4>3, <4>4 DEF OverlapInv, OnlyByHandAfter
      <4>6. tick.snap.last = j - 1 /\ tick.snap.last # 0
        BY <1>2, <1>9, <3>2, <4>5
      <4>7. Over(j - 1)
        BY <4>3, <4>6 DEF OverlapInv
      <4> QED BY <4>4, <4>7, OverStays
    <3> QED BY <3>2, <3>3, <3>4
  <2> QED BY <2>1, <2>2
<1>10. \A j \in 2..Len(runs') :
         runs'[j - 1].due # 0 /\ runs'[j].due # 0 /\ runs'[j].skip => Over(j - 1)'
  BY <1>9
<1> QED BY <1>5, <1>6, <1>7, <1>8, <1>10 DEF OverlapInv, OnlyByHandAfter, Unlaunched

-----------------------------------------------------------------------------
(* Theorems.                                                               *)

LEMMA InitInv ==
  ASSUME Init
  PROVE  IInv
<1>1. /\ time = 0 /\ runs = <<>> /\ fires = <<>> /\ tick = NoTick /\ manual = NoRequest
      /\ owed = {} /\ asleep = {} /\ edited = {} /\ uncounted = {} /\ edits = 0 /\ faults = 0
  BY DEF Init
<1>2. Len(runs) = 0 /\ DOMAIN runs = {} /\ DOMAIN fires = {}
  BY <1>1
<1>3. PICK d \in Decls : row = FreshRow(d)
  BY DEF Init
<1>4. row \in Schedule /\ row.cursor = 0
  BY <1>1, <1>2, <1>3 DEF FreshRow, Schedule
<1>5. NoTick \in Ticks /\ NoTick.pc = "idle" /\ NoRequest \in Requests /\ NoRequest.pc = "idle"
  BY <1>1, <1>2, Idle
<1>6. TypeOK
  <2>1. runs \in Seq(Runs) /\ fires \in Seq(Fires)
    BY <1>1
  <2>2. time \in 0..MaxTime /\ edits \in 0..MaxEdits /\ faults \in 0..MaxFaults
    BY <1>1, ScheduleAssumption
  <2>3. owed \cup asleep \cup edited \cup uncounted \subseteq 1..time
    BY <1>1
  <2> QED BY <1>1, <1>4, <1>5, <2>1, <2>2, <2>3 DEF TypeOK
<1>7. CopyInv /\ OpenInv
  BY <1>1, <1>5 DEF CopyInv, OpenInv, Past
<1>8. RunInv /\ HistoryInv /\ OverlapInv
  BY <1>1, <1>2, <1>5 DEF RunInv, HistoryInv, OverlapInv, OnlyByHandAfter
<1> QED BY <1>6, <1>7, <1>8 DEF IInv

LEMMA InvStep ==
  ASSUME IInv, [Next]_vars
  PROVE  IInv'
<1>1. TypeOK'
  BY TypeStep DEF IInv
<1>2. CopyInv'
  BY CopyStep
<1>3. OpenInv' /\ RunInv' /\ HistoryInv' /\ OverlapInv'
  BY <1>1, OpenStep, RunStep, HistoryStep, OverlapStep
<1> QED BY <1>1, <1>2, <1>3 DEF IInv

(* The inductive invariant holds in every reachable state of the tick, the *)
(* members and the runs.                                                   *)
THEOREM SchedulesSound == Spec => []IInv
<1>1. Init => IInv
  BY InitInv
<1>2. IInv /\ [Next]_vars => IInv'
  BY InvStep
<1> QED BY <1>1, <1>2, PTL DEF Spec

(* No cursor, history row or run is ahead of the clock, and nothing names  *)
(* a run that was never started.                                           *)
THEOREM SchedulesTyped == Spec => []TypeOK
<1>1. IInv => TypeOK
  BY DEF IInv
<1> QED BY <1>1, SchedulesSound, PTL

LEMMA InvAccounted ==
  ASSUME IInv
  PROVE  Accounted
<1> SUFFICES ASSUME row.present PROVE Accounted
  BY DEF Accounted
<1>1. \A d \in owed \ (edited \cup uncounted) :
        d <= row.cursor => \E i \in DOMAIN fires : Covers(fires[i], d)
  BY DEF IInv, HistoryInv
<1>2. ASSUME NEW r \in DOMAIN runs
      PROVE  Cardinality({i \in DOMAIN fires :
                            fires[i].outcome = "fired" /\ fires[i].run = r}) = 1
  <2>1. PICK i \in DOMAIN fires :
          Names(fires[i], r) /\ \A j \in DOMAIN fires : Names(fires[j], r) => j = i
    BY <1>2 DEF IInv, HistoryInv
  <2>2. {j \in DOMAIN fires : fires[j].outcome = "fired" /\ fires[j].run = r} = {i}
    BY <2>1 DEF Names
  <2> QED BY <2>2, FS_Singleton
<1>3. ASSUME NEW r \in DOMAIN runs, runs[r].due # 0
      PROVE  Earlier(runs[r].due) = {r}
  BY <1>3 DEF IInv, RunInv, Earlier
<1> QED BY <1>1, <1>2, <1>3 DEF Accounted

(* Nothing is lost: every instant that came due while the schedule was     *)
(* armed and that the cursor has passed has its row, every run has exactly *)
(* one, every instant at most one run, with any cadences, edits, runs by   *)
(* hand and faults.                                                        *)
THEOREM NothingIsLost == Spec => []Accounted
<1>1. IInv => Accounted
  BY InvAccounted
<1> QED BY <1>1, SchedulesSound, PTL

(* "skip" is honoured between two runs of the cadence that follow each     *)
(* other, however many there are.                                          *)
THEOREM OverlapHonoured == Spec => []SkipHonoured
<1>1. IInv => SkipHonoured
  BY DEF IInv, OverlapInv, SkipHonoured, Over
<1> QED BY <1>1, SchedulesSound, PTL

LEMMA StepFiresArmed ==
  ASSUME IInv, [Next]_vars, Len(runs') > Len(runs), runs'[Len(runs')].due # 0
  PROVE  LET d == runs'[Len(runs')].due
         IN Armed(row) /\ d \in row.decl.cadence /\ d \notin asleep
<1> USE DEF IInv
<1>1. Len(runs) \in Nat /\ tick.due \in 0..time /\ 0 \in 0..time
  BY Parts
<1>2. ~SameRuns
  BY <1>1 DEF SameRuns
<1>3. ~(AdmitNow /\ Admitted(manual.snap, 0, time, manual.snap.cursor))
  <2> SUFFICES ASSUME Admitted(manual.snap, 0, time, manual.snap.cursor) PROVE FALSE
    OBVIOUS
  <2>1. /\ Len(runs') = Len(runs) + 1
        /\ runs'[Len(runs) + 1] = NewRun(manual.snap, 0)
    BY <1>1, AdmittedRuns
  <2> QED BY <2>1 DEF NewRun
<1>4. /\ Launch /\ Admitted(tick.snap, tick.due, tick.due, tick.due) /\ Unaltered(tick.snap)
  BY <1>2, <1>3, StartsRun
<1>5. /\ Len(runs') = Len(runs) + 1
      /\ runs'[Len(runs) + 1] = NewRun(tick.snap, tick.due)
  BY <1>1, <1>4, AdmittedRuns
<1>6. runs'[Len(runs')].due = tick.due
  BY <1>5 DEF NewRun
<1>7. Past /\ tick.pc # "advancing"
  BY <1>4 DEF Launch, Past
<1>8. /\ Armed(tick.snap) /\ tick.due \in tick.snap.decl.cadence /\ tick.due \notin asleep
  BY <1>7 DEF CopyInv
<1>9. Armed(row) /\ row.decl = tick.snap.decl
  BY <1>4, <1>8 DEF Unaltered, Armed
<1> QED BY <1>6, <1>8, <1>9

(* Only an armed schedule fires, whatever happened between the tick's read *)
(* and its launch.                                                         *)
THEOREM OnlyArmedFire == Spec => FiresOnlyArmed
<1>1. IInv /\ [Next]_vars =>
        [Len(runs') > Len(runs) /\ runs'[Len(runs')].due # 0 =>
           LET d == runs'[Len(runs')].due
           IN Armed(row) /\ d \in row.decl.cadence /\ d \notin asleep]_vars
  BY StepFiresArmed
<1> QED BY <1>1, SchedulesSound, PTL DEF Spec, FiresOnlyArmed

LEMMA StepResolves ==
  ASSUME IInv, [Next]_vars, tick.pc # "idle", tick'.pc = "idle", faults' = faults, row.present,
         NEW d \in owed \ edited, d <= tick.now
  PROVE  d <= row'.cursor
<1> USE DEF IInv
<1>1. /\ row.cursor \in Nat /\ d \in Nat /\ tick.due \in Nat /\ tick.now \in Nat
      /\ faults \in Nat /\ row.decl \in Decls
  BY Parts DEF TypeOK
<1>2. ~Fault
  BY <1>1 DEF Fault
<1>3. d > row.cursor => Armed(row) /\ d \in row.decl.cadence /\ (Past => Unaltered(tick.snap))
  BY DEF OpenInv
<1>4. ASSUME Past, NEW c \in Nat, NEW f, Resolved(c, f), c = tick.due
      PROVE  d <= row'.cursor
  <2>1. row.cursor <= row'.cursor /\ tick.due <= row'.cursor /\ row'.cursor \in {row.cursor, c}
    BY <1>4, ResolvedRow DEF SameSchedule
  <2>2. CASE d <= row.cursor
    BY <1>1, <1>4, <2>1, <2>2
  <2>3. CASE d > row.cursor
    <3>1. d \in tick.snap.decl.cadence
      BY <1>3, <1>4, <2>3 DEF Unaltered
    <3>2. d <= tick.due
      BY <1>4, <3>1 DEF CopyInv
    <3> QED BY <1>1, <1>4, <2>1, <3>2
  <2> QED BY <1>1, <2>2, <2>3
<1>5. CASE ReadSchedule
  <2>1. Due(row, tick.now) = 0
    BY <1>5, Idle, Parts DEF ReadSchedule, Armed, TypeOK, Ticks
  <2>2. \A e \in row.decl.cadence : e <= tick.now => e <= row.cursor
    BY <1>1, <2>1, DueFacts
  <2>3. d <= row.cursor
    BY <1>1, <1>3, <2>2
  <2> QED BY <1>5, <2>3 DEF ReadSchedule
<1>6. CASE AdvanceIdle
  BY <1>1, <1>2, <1>4, <1>6 DEF AdvanceIdle, ResolveCronDue, Past
<1>7. CASE RecordMissed
  <2> DEFINE last == LastMissed(tick.snap, tick.due, tick.now)
  <2>1. tick.pc = "missing" /\ Past
    BY <1>7 DEF RecordMissed, Past
  <2>2. ~InTime(tick.due, tick.now)
    BY <1>7 DEF RecordMissed, TypeOK, Ticks
  <2>3. last = tick.due
    BY <2>1, <2>2, GoneFacts
  <2>4. Resolved(last, Row(last, "missed", 0, tick.snap.cursor))
    BY <1>2, <1>7 DEF RecordMissed, ResolveCronDue
  <2> QED BY <1>1, <1>4, <2>1, <2>3, <2>4
<1>8. CASE Record
  BY <1>1, <1>2, <1>4, <1>8 DEF Record, ResolveCronDue, Past
<1>9. CASE StartTick \/ CheckOverlap \/ Launch \/ TickEnds
  <2>1. tick \in Ticks
    BY DEF TypeOK
  <2>2. ~StartTick /\ ~TickEnds
    BY <1>2 DEF StartTick, TickEnds
  <2>3. ~CheckOverlap
    <3>1. CheckOverlap => tick'.pc \in {"recording", "launching"}
      BY <2>1 DEF CheckOverlap, Ticks
    <3> QED BY <3>1
  <2>4. ASSUME NEW o, NEW i, Answered(o, i) PROVE FALSE
    <3>1. tick'.pc = "recording"
      BY <2>1, <2>4 DEF Answered, Ticks
    <3> QED BY <3>1
  <2>5. ~Launch
    BY <1>2, <2>4 DEF Launch
  <2> QED BY <1>9, <2>2, <2>3, <2>5
<1>10. CASE Alter \/ Delete \/ RunNow \/ AdmitNow \/ PassTime \/ UNCHANGED vars
  BY <1>10, AlterFacts DEF Delete, RunNow, AdmitNow, PassTime, vars
<1>11. CASE \E i \in DOMAIN runs : Claim(i) \/ Finish(i)
  BY <1>11 DEF Claim, Finish
<1> QED BY <1>5, <1>6, <1>7, <1>8, <1>9, <1>10, <1>11 DEF Next, Alter, TickStep

(* A tick that ends without a fault leaves nothing due that was due when   *)
(* it began and that nobody edited meanwhile.                              *)
THEOREM TicksResolve == Spec => TickResolves
<1>1. IInv /\ [Next]_vars =>
        [tick.pc # "idle" /\ tick'.pc = "idle" /\ faults' = faults /\ row.present =>
           \A d \in owed \ edited : d <= tick.now => d <= row'.cursor]_vars
  BY StepResolves
<1> QED BY <1>1, SchedulesSound, PTL DEF Spec, TickResolves
=============================================================================
