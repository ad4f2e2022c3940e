------------------------------ MODULE Schedules ------------------------------
(***************************************************************************)
(* One schedule of a controller (internal/crons, internal/store): its row  *)
(* and its history, the tick that resolves the instants that came due, the *)
(* runs it launches, and the members who edit it meanwhile.                *)
(*                                                                         *)
(* A store transaction is one step.  The tick reads the row once and then  *)
(* works from that copy; nothing keeps members, or a run somebody starts   *)
(* by hand, from changing the row in between.  There is one tick at a time *)
(* (one active controller, a synchronous loop).  Time is in minutes.       *)
(***************************************************************************)
EXTENDS Integers, Sequences, FiniteSets, FiniteSetsExt

CONSTANTS
  MaxTime,   \* bound on time
  Decls,     \* effective declarations: a cadence and an overlap policy
  CatchUp,   \* how late an instant may still fire (at least MinCatchUp)
  MaxMissed, \* the longest backlog that is counted
  MaxEdits,  \* bound on edits and runs by hand
  MaxFaults  \* bound on saves, reads, answers and ticks that fail

Minutes == 1..MaxTime

ASSUME ScheduleAssumption ==
  /\ MaxTime \in Nat /\ CatchUp \in Nat /\ MaxEdits \in Nat /\ MaxFaults \in Nat
  /\ MaxMissed \in Nat \ {0}
  /\ Decls \subseteq [cadence : SUBSET Minutes, overlap : {"skip", "queue"}]
  /\ Decls # {}

VARIABLES
  time,    \* the clock
  row,     \* the schedule's row
  fires,   \* its history, cron_fires
  runs,    \* the runs it started; `due' is the idempotency key, 0 by hand
  tick,    \* the tick under way
  manual,  \* a run by hand under way
  owed,    \* instants that came due while the schedule was armed
  asleep,  \* instants that passed while it was paused
  edited,  \* instants still open when somebody edited the schedule
  uncounted, \* missed instants without a row: it was not saved, or the cap
  edits, faults

vars == <<time, row, fires, runs, tick, manual, owed, asleep, edited, uncounted, edits, faults>>

Max2(a, b) == IF a > b THEN a ELSE b
Fault == faults < MaxFaults /\ faults' = faults + 1
NoFault == faults' = faults

FreshRow(d) == [present |-> TRUE, declared |-> TRUE, paused |-> FALSE, decl |-> d,
                cursor |-> 0, last |-> 0]
NoSnap == FreshRow(CHOOSE d \in Decls : TRUE)
NoTick == [pc |-> "idle", now |-> 0, snap |-> NoSnap, due |-> 0, outcome |-> "none",
           run |-> 0, checked |-> TRUE]
NoRequest == [pc |-> "idle", snap |-> NoSnap]

(* What a history row says; `from' stands for the count of a missed row.   *)
Row(due, outcome, run, from) == [due |-> due, outcome |-> outcome, run |-> run, from |-> from]

-----------------------------------------------------------------------------
(* Deciding: cronspec.Decide, for a row as the tick read it.               *)

\* Mutant: an instant that is too late to fire is not due.
DueInTime(r, now) ==
  LET last == Max({d \in r.decl.cadence : d <= now} \cup {0})
  IN IF last > r.cursor /\ now - last <= CatchUp THEN last ELSE 0

(* The latest instant up to now, 0 if the cursor is there already.         *)
Due(r, now) ==
  LET last == Max({d \in r.decl.cadence : d <= now} \cup {0})
  IN IF last > r.cursor THEN last ELSE 0

InTime(due, now) == now - due <= CatchUp

(* What will not run: everything before, and the latest one if too late.   *)
Missed(r, due, now) ==
  {d \in r.decl.cadence : r.cursor < d /\ (d < due \/ (d = due /\ ~InTime(due, now)))}

(* Of the missed instants, the first MaxMissed.                            *)
Counted(gone) == {d \in gone : Cardinality({e \in gone : e <= d}) <= MaxMissed}

(* lastInstantBefore: where the row for the missed instants stands.  When  *)
(* the latest still fires, the search for the one before it has the cap.   *)
LastMissed(r, due, now) ==
  IF InTime(due, now) THEN Max(Counted(Missed(r, due, now))) ELSE due

Armed(r) == r.present /\ r.declared /\ ~r.paused

-----------------------------------------------------------------------------
(* resolveCronDueTx: the cursor only moves forward, history with it.  A    *)
(* fired outcome names its run, once.                                      *)

Recorded(f) == \E i \in DOMAIN fires : f.outcome = "fired" /\ fires[i] = f

Resolved(cursor, f) ==
  /\ row' = [row EXCEPT !.cursor = Max2(@, cursor),
                        !.last = IF f.outcome = "fired" THEN f.run ELSE @]
  /\ fires' = IF f.outcome = "none" \/ Recorded(f) THEN fires ELSE Append(fires, f)

NoFire == Row(0, "none", 0, 0)

(* The transaction, or nothing: the row is gone, or the save failed.       *)
ResolveCronDue(cursor, f) ==
  \/ row.present /\ Resolved(cursor, f) /\ NoFault
  \/ ~row.present /\ UNCHANGED <<row, fires>> /\ NoFault
  \/ row.present /\ UNCHANGED <<row, fires>> /\ Fault

-----------------------------------------------------------------------------
(* The tick.                                                               *)

TickRest == UNCHANGED <<time, manual, owed, asleep, edited, edits>>

StartTick ==
  /\ tick.pc = "idle"
  /\ tick' = [NoTick EXCEPT !.pc = "listing", !.now = time]
  /\ TickRest /\ UNCHANGED <<row, fires, runs, uncounted, faults>>

(* ListCronSchedules, tickOne up to its first transaction.                 *)
ReadSchedule ==
  /\ tick.pc = "listing"
  /\ LET due == Due(row, tick.now)
         pc == CASE ~row.present \/ due = 0 -> "idle"
                 [] row.present /\ due # 0 /\ ~Armed(row) -> "advancing"
                 [] Armed(row) /\ due # 0 ->
                      IF Missed(row, due, tick.now) # {} THEN "missing" ELSE "checking"
     IN tick' = IF pc = "idle" THEN NoTick
                ELSE [tick EXCEPT !.pc = pc, !.snap = row, !.due = due]
  /\ TickRest /\ UNCHANGED <<row, fires, runs, uncounted, faults>>

(* advanceIdleCursor: paused and withdrawn schedules leave no backlog.     *)
AdvanceIdle ==
  /\ tick.pc = "advancing" /\ tick' = NoTick
  /\ ResolveCronDue(tick.due, NoFire)
  /\ TickRest /\ UNCHANGED <<runs, uncounted>>

\* Mutant: the missed instants are passed over without a row.
RecordMissedSilently ==
  /\ tick.pc = "missing"
  /\ LET fire == InTime(tick.due, tick.now)
         gone == Missed(tick.snap, tick.due, tick.now)
         last == LastMissed(tick.snap, tick.due, tick.now)
     IN /\ ResolveCronDue(last, NoFire)
        /\ uncounted' = IF fire THEN uncounted \cup {d \in gone : faults' # faults \/ last < d}
                        ELSE uncounted
        /\ tick' = IF fire THEN [tick EXCEPT !.pc = "checking"] ELSE NoTick
  /\ TickRest /\ UNCHANGED runs

(* recordMissed: one row for those that are counted.  If it cannot be      *)
(* saved the tick says so in its report and goes on to the instant that    *)
(* still fires.                                                            *)
RecordMissed ==
  /\ tick.pc = "missing"
  /\ LET fire == InTime(tick.due, tick.now)
         gone == Missed(tick.snap, tick.due, tick.now)
         last == LastMissed(tick.snap, tick.due, tick.now)
     IN /\ ResolveCronDue(last, Row(last, "missed", 0, tick.snap.cursor))
        /\ uncounted' = IF fire THEN uncounted \cup {d \in gone : faults' # faults \/ last < d}
                        ELSE uncounted
        /\ tick' = IF fire THEN [tick EXCEPT !.pc = "checking"] ELSE NoTick
  /\ TickRest /\ UNCHANGED runs

\* Mutant: a run nobody has claimed yet is not active.
ActiveOnceClaimed(i) == i # 0 /\ runs[i].status = "running"

(* Launcher.Active: a run nobody claimed for too long is given up on.      *)
Active(i) ==
  /\ i # 0
  /\ \/ runs[i].status = "running"
     \/ runs[i].status = "pending" /\ time - runs[i].born <= CatchUp

(* resolveDue, the overlap policy; if the run cannot be read, it fires.    *)
CheckOverlap ==
  /\ tick.pc = "checking"
  /\ LET skip == tick.snap.decl.overlap = "skip" /\ tick.snap.last # 0
     IN \/ /\ skip /\ Active(tick.snap.last) /\ NoFault
           /\ tick' = [tick EXCEPT !.pc = "recording", !.outcome = "skipped"]
        \/ /\ ~(skip /\ Active(tick.snap.last)) /\ NoFault
           /\ tick' = [tick EXCEPT !.pc = "launching"]
        \/ /\ skip /\ Fault
           /\ tick' = [tick EXCEPT !.pc = "launching", !.checked = FALSE]
  /\ TickRest /\ UNCHANGED <<row, fires, runs, uncounted>>

\* Mutant: the schedule is admitted as it was read.
UnchangedIfPresent(r) == row.present

(* scheduleAdmission.resolve: the row is still what the caller read.       *)
Unaltered(r) ==
  row.present /\ row.declared = r.declared /\ row.paused = r.paused /\ row.decl = r.decl

Earlier(due) == {i \in DOMAIN runs : runs[i].due = due}

(* admitSchedule: the run and, with it, the cursor and history.            *)
Admitted(r, due, at, cursor) ==
  LET new == Len(runs) + 1
      run == [due |-> due, status |-> "pending", born |-> time, stale |-> FALSE,
              skip |-> r.decl.overlap = "skip" /\ tick.checked]
  IN /\ runs' = Append(runs, run)
     /\ Resolved(cursor, Row(at, "fired", new, 0))

Answered(outcome, i) ==
  tick' = [tick EXCEPT !.pc = "recording", !.outcome = outcome, !.run = i]

(* Launcher.Launch and what resolveDue makes of its answer.  An instant    *)
(* that was admitted before answers with its run (replayAdmissionTx).      *)
Launch ==
  /\ tick.pc = "launching"
  /\ LET due == tick.due
         known == Earlier(due)
         id == IF known = {} THEN Len(runs) + 1 ELSE Min(known)
     IN \/ /\ Unaltered(tick.snap)
           /\ IF known = {} THEN Admitted(tick.snap, due, due, due)
                            ELSE UNCHANGED <<row, fires, runs>>
           /\ \/ Answered("fired", id) /\ NoFault
              \/ Answered("failed", 0) /\ Fault       \* committed, and the answer lost
        \/ Answered("failed", 0) /\ UNCHANGED <<row, fires, runs>> /\ NoFault  \* refused
        \/ tick' = NoTick /\ UNCHANGED <<row, fires, runs>> /\ Fault  \* serialization conflict
  /\ TickRest /\ UNCHANGED uncounted

(* The end of resolveDue.                                                  *)
Record ==
  /\ tick.pc = "recording" /\ tick' = NoTick
  /\ ResolveCronDue(tick.due, Row(tick.due, tick.outcome, tick.run, 0))
  /\ TickRest /\ UNCHANGED <<runs, uncounted>>

(* The controller dies, or the tick's time limit ends it.                  *)
TickEnds ==
  /\ tick.pc # "idle" /\ Fault /\ tick' = NoTick
  /\ TickRest /\ UNCHANGED <<row, fires, runs, uncounted>>

-----------------------------------------------------------------------------
(* Members.                                                                *)

Edit == edits < MaxEdits /\ edits' = edits + 1
EditRest == UNCHANGED <<time, runs, tick, manual, owed, asleep, uncounted, faults>>
Open == {d \in owed : d > row.cursor}

Pause ==
  /\ row.present /\ ~row.paused /\ Edit
  /\ row' = [row EXCEPT !.paused = TRUE]
  /\ edited' = edited \cup Open
  /\ UNCHANGED fires /\ EditRest

\* Mutant: the cursor moves past the minute of the resume.
ResumePastNow ==
  /\ row.present /\ row.paused /\ Edit
  /\ row' = [row EXCEPT !.paused = FALSE, !.cursor = Max2(@, time + 1)]
  /\ edited' = edited \cup Open
  /\ UNCHANGED fires /\ EditRest

(* PauseAuthorizedSchedule.                                                *)
Resume ==
  /\ row.present /\ row.paused /\ Edit
  /\ row' = [row EXCEPT !.paused = FALSE, !.cursor = Max2(@, time)]
  /\ edited' = edited \cup Open
  /\ UNCHANGED fires /\ EditRest

(* OverrideAuthorizedSchedule; a push also declares it again.              *)
Override(d) ==
  /\ row.present /\ row.decl # d /\ Edit
  /\ row' = [row EXCEPT !.decl = d]
  /\ edited' = edited \cup Open
  /\ UNCHANGED fires /\ EditRest

Push(d) ==
  /\ row.present /\ (row.decl # d \/ ~row.declared) /\ Edit
  /\ row' = [row EXCEPT !.decl = d, !.declared = TRUE]
  /\ edited' = edited \cup Open
  /\ UNCHANGED fires /\ EditRest

(* A push without it.                                                      *)
Withdraw ==
  /\ row.present /\ row.declared /\ Edit
  /\ row' = [row EXCEPT !.declared = FALSE]
  /\ edited' = edited \cup Open
  /\ UNCHANGED fires /\ EditRest

(* DeleteAuthorizedSchedule: the history goes with it; a schedule that is  *)
(* armed later has an id of its own.                                       *)
Delete ==
  /\ row.present /\ Edit
  /\ row' = [row EXCEPT !.present = FALSE]
  /\ fires' = <<>> /\ owed' = {} /\ asleep' = {} /\ edited' = {} /\ uncounted' = {}
  /\ UNCHANGED <<time, runs, tick, manual, faults>>

(* RunAuthorizedSchedule: the row is read, then admitted as if due now.    *)
RunNow ==
  /\ manual.pc = "idle" /\ row.present /\ Edit
  /\ manual' = [pc |-> "admitting", snap |-> row]
  /\ UNCHANGED <<time, row, fires, runs, tick, owed, asleep, edited, uncounted, faults>>

AdmitNow ==
  /\ manual.pc = "admitting" /\ manual' = NoRequest
  /\ \/ /\ Unaltered(manual.snap) /\ manual.snap.declared
        /\ Admitted(manual.snap, 0, time, manual.snap.cursor)
     \/ UNCHANGED <<row, fires, runs>>                          \* refused, or gone
  /\ UNCHANGED <<time, tick, owed, asleep, edited, uncounted, edits, faults>>

-----------------------------------------------------------------------------
(* The runs, as long as an overlap policy looks at them.                   *)
Claim(i) ==
  /\ row.present /\ runs[i].status = "pending"
  /\ runs' = [runs EXCEPT ![i].status = "running", ![i].stale = time - runs[i].born > CatchUp]
  /\ UNCHANGED <<time, row, fires, tick, manual, owed, asleep, edited, uncounted, edits, faults>>

Finish(i) ==
  /\ row.present /\ runs[i].status # "done"
  /\ runs' = [runs EXCEPT ![i].status = "done"]
  /\ UNCHANGED <<time, row, fires, tick, manual, owed, asleep, edited, uncounted, edits, faults>>

PassTime ==
  /\ time < MaxTime /\ time' = time + 1
  /\ owed' = IF Armed(row) /\ time' \in row.decl.cadence THEN owed \cup {time'} ELSE owed
  /\ asleep' = IF row.present /\ row.paused THEN asleep \cup {time'} ELSE asleep
  /\ UNCHANGED <<row, fires, runs, tick, manual, edited, uncounted, edits, faults>>

Init ==
  /\ time = 0 /\ (\E d \in Decls : row = FreshRow(d)) /\ fires = <<>> /\ runs = <<>>
  /\ tick = NoTick /\ manual = NoRequest
  /\ owed = {} /\ asleep = {} /\ edited = {} /\ uncounted = {}
  /\ edits = 0 /\ faults = 0

TickStep ==
  \/ StartTick \/ ReadSchedule \/ AdvanceIdle \/ RecordMissed \/ CheckOverlap
  \/ Launch \/ Record

Next ==
  \/ TickStep \/ TickEnds
  \/ Pause \/ Resume \/ Withdraw \/ Delete \/ RunNow \/ AdmitNow
  \/ \E d \in Decls : Override(d) \/ Push(d)
  \/ \E i \in DOMAIN runs : Claim(i) \/ Finish(i)
  \/ PassTime

Spec == Init /\ [][Next]_vars

-----------------------------------------------------------------------------
(* Properties.                                                             *)

Schedule == [present : BOOLEAN, declared : BOOLEAN, paused : BOOLEAN, decl : Decls,
             cursor : 0..time, last : 0..Len(runs)]
Fires == [due : 0..time, outcome : {"fired", "skipped", "failed", "missed"},
          run : 0..Len(runs), from : 0..time]
Runs == [due : 0..time, status : {"pending", "running", "done"}, born : 0..time,
         stale : BOOLEAN, skip : BOOLEAN]
Ticks == [pc : {"idle", "listing", "advancing", "missing", "checking", "launching", "recording"},
          now : 0..time, snap : Schedule, due : 0..time,
          outcome : {"none", "fired", "skipped", "failed"}, run : 0..Len(runs),
          checked : BOOLEAN]
Requests == [pc : {"idle", "admitting"}, snap : Schedule]

(* Every variable stays in its range; no cursor, history row or run is     *)
(* ahead of the clock, nothing names a run that was never started.         *)
TypeOK ==
  /\ time \in 0..MaxTime /\ edits \in 0..MaxEdits /\ faults \in 0..MaxFaults
  /\ row \in Schedule /\ fires \in Seq(Fires) /\ runs \in Seq(Runs)
  /\ tick \in Ticks /\ manual \in Requests
  /\ owed \cup asleep \cup edited \cup uncounted \subseteq 1..time

(* A history row accounts for an instant.                                  *)
Covers(f, d) ==
  CASE f.outcome = "missed" -> f.from < d /\ d <= f.due
    [] f.outcome = "fired" -> runs[f.run].due = d
    [] OTHER -> f.due = d

(* Nothing is lost: an instant that came due while the schedule was armed  *)
(* and that the cursor has passed has a row that says what became of it,   *)
(* unless somebody edited the schedule first, its missed row could not be  *)
(* saved, or the backlog before a run was longer than is counted; and      *)
(* every run has one row, every instant at most one run, whatever was      *)
(* refused, lost, retried or started by hand meanwhile.                    *)
Accounted ==
  row.present =>
    /\ \A d \in owed \ (edited \cup uncounted) :
         d <= row.cursor => \E i \in DOMAIN fires : Covers(fires[i], d)
    /\ \A r \in DOMAIN runs :
         /\ Cardinality({i \in DOMAIN fires :
                           fires[i].outcome = "fired" /\ fires[i].run = r}) = 1
         /\ runs[r].due # 0 => Earlier(runs[r].due) = {r}

(* Only an armed schedule fires: the tick's copy may be old, but the run   *)
(* is admitted only while the schedule is declared, not paused, and still  *)
(* has that instant; and no instant that passed during a pause ever fires. *)
FiresOnlyArmed ==
  [][Len(runs') > Len(runs) /\ runs'[Len(runs')].due # 0 =>
       LET d == runs'[Len(runs')].due
       IN Armed(row) /\ d \in row.decl.cadence /\ d \notin asleep]_vars

(* "skip": of two runs of the cadence, one right after the other, the      *)
(* second was not started while the first was active; they are seen        *)
(* running together only if the first was claimed after it had been given  *)
(* up on.  A run by hand between the two hides the first from the check,   *)
(* and a run whose predecessor could not be read (`skip' is FALSE) starts. *)
SkipHonoured ==
  \A j \in 2..Len(runs) :
    /\ runs[j - 1].due # 0 /\ runs[j].due # 0 /\ runs[j].skip
    /\ runs[j - 1].status = "running" /\ runs[j].status = "running"
    => runs[j - 1].stale

(* A tick that ends without a fault leaves nothing behind: whatever came   *)
(* due by the time it began is resolved, by it or before it, unless the    *)
(* schedule was edited meanwhile.  What a failed save, a conflict or the   *)
(* end of a controller left due, the next tick makes good.                 *)
TickResolves ==
  [][tick.pc # "idle" /\ tick'.pc = "idle" /\ faults' = faults /\ row.present =>
       \A d \in owed \ edited : d <= tick.now => d <= row'.cursor]_vars
=============================================================================
