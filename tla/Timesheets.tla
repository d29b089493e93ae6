----------------------------- MODULE Timesheets -----------------------------
(***************************************************************************)
(* The timesheet of one employee: the cells of a day, the weeks they are   *)
(* submitted by, the marker of an empty week, and the snapshot of a week's *)
(* hours the server keeps for the utilization figures.                     *)
(*                                                                         *)
(* A week is keyed by the day it begins on, which follows from the entity  *)
(* the employee is in and the version of its calendar on the date, and is  *)
(* stored with the entry.  Every mutation is one SERIALIZABLE transaction; *)
(* the snapshot is computed in another, after the commit, and not at all   *)
(* when the process stops in between.  The device applies a mutation to    *)
(* its cache before the server does.                                       *)
(***************************************************************************)
EXTENDS Integers, Sequences, FiniteSetsExt, SequencesExt

CONSTANTS Assignments,      \* of the employee, not removed
          Pitches,
          Entities,
          FirstAnchor,      \* the day weeks begin on, in each entity
          WeekLength,       \* 7
          Expected,         \* the hours a week of the employee has
          HourChoices,
          DayLimit,         \* 24
          MaxDay, MaxWrites, MaxChanges   \* bounds on the days and on what is ever written

\* An entry has zero to twenty-four hours, and a week begins on a day.
ASSUME TimesheetsAssumption ==
  /\ WeekLength \in Nat \ {0} /\ MaxDay \in Nat
  /\ HourChoices \subseteq Nat /\ DayLimit \in Nat
  /\ FirstAnchor \in [Entities -> Int]

VARIABLES entries,     \* TimesheetEntry rows
          markers,     \* live TimesheetWeekSubmission rows of each week
          snapshots,   \* UtilizationSnapshot of each week
          due,         \* weeks a computation is due for
          behind,      \* history: weeks whose last change has no computation to come
          versions,    \* WorkingCalendar versions of each entity
          scopes,      \* scoped_to_entity edges of the employee
          staffed,     \* pitches with an open staffed_on edge
          now,         \* today
          writes, changes

vars == <<entries, markers, snapshots, due, behind, versions, scopes, staffed, now, writes, changes>>

Dates == 1..MaxDay
Weeks == (1 - WeekLength)..MaxDay
NonBillable == "non-billable"
Cells == Assignments \cup Pitches \cup {NonBillable}
NoWeek == -WeekLength
NoEntity == "no entity"
NoSnapshot == [none |-> TRUE]

-----------------------------------------------------------------------------
(* The week of a date.                                                     *)

\* Two instants of a day; what happens after noon does so before the next midnight.
Midnight(d) == 2 * d
Noon(d) == 2 * d + 1
Instants == Midnight(1)..Noon(MaxDay)

\* The edges follow each other: the last one begun is in force.
EntityAt(i) == LET begun == {k \in DOMAIN scopes : scopes[k].from <= i}
               IN IF begun = {} THEN NoEntity ELSE scopes[Max(begun)].entity

\* The version that was there at the end of the day.
CalendarOn(e, d) == versions[e][Max({k \in DOMAIN versions[e] : versions[e][k].on <= d})]

ResolveWeekStart(d, anchor) == d - ((d - anchor + WeekLength) % WeekLength)

WeekIn(e, d) == IF e = NoEntity THEN NoWeek ELSE ResolveWeekStart(d, CalendarOn(e, d).anchor)

\* weekStartForEmployee: a date is its midnight.
WeekStart(d) == WeekIn(EntityAt(Midnight(d)), d)

\* Mutant: the calendar of today, whatever the date.
OptimisticWeekOfToday(d) ==
  LET e == EntityAt(Noon(now))
  IN IF e = NoEntity THEN NoWeek ELSE ResolveWeekStart(d, CalendarOn(e, now).anchor)

\* optimisticWeekStart: a date is its noon.
OptimisticWeekStart(d) == WeekIn(EntityAt(Noon(d)), d)

-----------------------------------------------------------------------------
(* What a mutation makes of the rows.                                      *)

\* Mutant: the entry is looked up in the week of today's calendar.
CellOfTheWeek(d, c) == {x \in entries : x.date = d /\ x.cell = c /\ x.week = WeekStart(d)}

CellMatches(d, c) == {x \in entries : x.date = d /\ x.cell = c}

HoursOf(rows) == MapThenSumSet(LAMBDA x : x.hours, rows)
Fits(d, c, h) == HoursOf({x \in entries : x.date = d} \ CellMatches(d, c)) + h <= DayLimit
MayLogOn(c) == c \in Pitches => c \in staffed

\* An entry keeps its week, and stays submitted.
Saved(d, c, h, week) ==
  IF CellMatches(d, c) = {}
    THEN entries \cup {[date |-> d, cell |-> c, hours |-> h, week |-> week, status |-> "Draft"]}
    ELSE (entries \ CellMatches(d, c)) \cup {[x EXCEPT !.hours = h] : x \in CellMatches(d, c)}

EntriesOf(week) == {x \in entries : x.week = week}
Turned(week, from, to) ==
  {IF x.week = week /\ x.status = from THEN [x EXCEPT !.status = to] ELSE x : x \in entries}

-----------------------------------------------------------------------------
(* Mutations, and the computation after their commit.                      *)

Init == /\ entries = {}
        /\ markers = [w \in Weeks |-> 0]
        /\ snapshots = [w \in Weeks |-> NoSnapshot]
        /\ due = {} /\ behind = {}
        /\ versions = [e \in Entities |-> <<[anchor |-> FirstAnchor[e], on |-> 0]>>]
        /\ \E e \in Entities : scopes = <<[entity |-> e, from |-> Midnight(1)]>>
        /\ staffed \in SUBSET Pitches
        /\ now = 1
        /\ writes = 0 /\ changes = 0

Writes == writes < MaxWrites /\ writes' = writes + 1

\* The computation is for the date's week, wherever the entry is.
SaveCell(d, c, h) ==
  /\ Writes
  /\ WeekStart(d) # NoWeek
  /\ MayLogOn(c) /\ Fits(d, c, h)
  /\ entries' = Saved(d, c, h, WeekStart(d))
  /\ due' = due \cup {WeekStart(d)}
  /\ behind' = behind \cup ({x.week : x \in CellMatches(d, c)} \ {WeekStart(d)})
  /\ UNCHANGED <<markers, snapshots, versions, scopes, staffed, now, changes>>

\* Mutant: whatever is in the week.
MarkedAlways(week) == markers[week] + 1

MarkersAfterSubmit(week) ==
  IF EntriesOf(week) = {} /\ markers[week] = 0 THEN 1 ELSE markers[week]

SubmitWeek(d) ==
  /\ Writes
  /\ WeekStart(d) # NoWeek
  /\ entries' = Turned(WeekStart(d), "Draft", "Submitted")
  /\ markers' = [markers EXCEPT ![WeekStart(d)] = MarkersAfterSubmit(WeekStart(d))]
  /\ due' = due \cup {WeekStart(d)}
  /\ UNCHANGED <<snapshots, behind, versions, scopes, staffed, now, changes>>

\* The first marker found goes.
UnlockWeek(d) ==
  /\ Writes
  /\ WeekStart(d) # NoWeek
  /\ entries' = Turned(WeekStart(d), "Submitted", "Draft")
  /\ markers' = [markers EXCEPT ![WeekStart(d)] = IF @ = 0 THEN 0 ELSE @ - 1]
  /\ due' = due \cup {WeekStart(d)}
  /\ UNCHANGED <<snapshots, behind, versions, scopes, staffed, now, changes>>

Category(c) ==
  IF c \in Assignments THEN "Billable" ELSE IF c \in Pitches THEN "Pitch" ELSE NonBillable

\* oneDecimal(a / b * 100), in tenths of a percent.
Rate(a, b) == IF b = 0 THEN 0 ELSE (2000 * a + b) \div (2 * b)

CalculateUtilization(rows) ==
  LET In(category) == HoursOf({x \in rows : Category(x.cell) = category})
      logged == In("Billable") + In(NonBillable)
  IN [billable |-> In("Billable"), nonBillable |-> In(NonBillable), pitch |-> In("Pitch"),
      utilization |-> Rate(In("Billable"), Expected),
      share |-> Rate(In("Billable"), logged),
      completeness |-> Rate(logged, Expected)]

ComputedFrom(week) == EntriesOf(week)

\* utilizationSnapshotCompute: an empty week has no row.
SnapshotCompute(week) ==
  /\ week \in due
  /\ due' = due \ {week}
  /\ behind' = behind \ {week}
  /\ snapshots' = IF EntriesOf(week) = {} THEN snapshots
                  ELSE [snapshots EXCEPT ![week] = CalculateUtilization(ComputedFrom(week))]
  /\ UNCHANGED <<entries, markers, versions, scopes, staffed, now, writes, changes>>

\* The process stops after the commit, or the attempts run out.
SnapshotIsLost(week) ==
  /\ week \in due
  /\ due' = due \ {week}
  /\ behind' = behind \cup {week}
  /\ UNCHANGED <<entries, markers, snapshots, versions, scopes, staffed, now, writes, changes>>

-----------------------------------------------------------------------------
(* What decides a week, as other mutations change it.                      *)

Changes == changes < MaxChanges /\ changes' = changes + 1

\* calendar.update
CalendarUpdate(e, anchor) ==
  /\ Changes
  /\ versions' = [versions EXCEPT ![e] = Append(@, [anchor |-> anchor, on |-> now])]
  /\ UNCHANGED <<entries, markers, snapshots, due, behind, scopes, staffed, now, writes>>

\* employee.setEntity: the edge in force ends where the next one begins.
SetEntity(e, i) ==
  /\ Changes
  /\ e # Last(scopes).entity /\ i > Last(scopes).from
  /\ scopes' = Append(scopes, [entity |-> e, from |-> i])
  /\ UNCHANGED <<entries, markers, snapshots, due, behind, versions, staffed, now, writes>>

\* pitch.staffEmployee, pitch.unstaffEmployee
Staff(p) ==
  /\ Changes
  /\ staffed' = IF p \in staffed THEN staffed \ {p} ELSE staffed \cup {p}
  /\ UNCHANGED <<entries, markers, snapshots, due, behind, versions, scopes, now, writes>>

NextDay ==
  /\ now < MaxDay
  /\ now' = now + 1
  /\ UNCHANGED <<entries, markers, snapshots, due, behind, versions, scopes, staffed, writes, changes>>

Next ==
  \/ \E d \in Dates, c \in Cells, h \in HourChoices : SaveCell(d, c, h)
  \/ \E d \in Dates : SubmitWeek(d) \/ UnlockWeek(d)
  \/ \E w \in Weeks : SnapshotCompute(w) \/ SnapshotIsLost(w)
  \/ \E e \in Entities, a \in 0..(WeekLength - 1) : CalendarUpdate(e, a)
  \/ \E e \in Entities, i \in Instants : SetEntity(e, i)
  \/ \E p \in Pitches : Staff(p)
  \/ NextDay

Spec == Init /\ [][Next]_vars

-----------------------------------------------------------------------------
(* The optimistic mutators: what the device shows at once.                 *)

DeviceSaveCell(d, c, h) ==
  /\ OptimisticWeekStart(d) # NoWeek
  /\ MayLogOn(c) /\ Fits(d, c, h)
  /\ entries' = Saved(d, c, h, OptimisticWeekStart(d))
  /\ UNCHANGED markers

DeviceSubmitWeek(d) ==
  LET week == OptimisticWeekStart(d)
  IN /\ week # NoWeek
     /\ entries' = Turned(week, "Draft", "Submitted")
     /\ markers' = [markers EXCEPT ![week] = MarkersAfterSubmit(week)]

\* Every marker of the week goes.
DeviceUnlockWeek(d) ==
  LET week == OptimisticWeekStart(d)
  IN /\ week # NoWeek
     /\ entries' = Turned(week, "Submitted", "Draft")
     /\ markers' = [markers EXCEPT ![week] = 0]

-----------------------------------------------------------------------------
(* What the screens answer.                                                *)

\* weekStatus
WeekStatus(week) ==
  IF EntriesOf(week) # {}
    THEN IF \A x \in EntriesOf(week) : x.status = "Submitted" THEN "Submitted" ELSE "Draft"
    ELSE IF markers[week] > 0 THEN "Submitted" ELSE "Not-Started"

\* getIndividual, for today
Pulse == IF WeekStart(now) = NoWeek THEN NoSnapshot ELSE snapshots[WeekStart(now)]

-----------------------------------------------------------------------------
(* Properties *)

\* Whatever week a calendar or an entity gives a date by now, a cell of a day has
\* one entry, and the entries of a day are a day at most (saveCell's lookup and limit).
DaysAddUp ==
  /\ \A x, y \in entries : x.date = y.date /\ x.cell = y.cell => x = y
  /\ \A d \in Dates : HoursOf({x \in entries : x.date = d}) <= DayLimit

\* Submitting and unlocking, in any order and of weeks whose key has moved, leave at
\* most one marker in a week, so that unlocking a week unlocks it.
UnlockUnlocks ==
  [][\A d \in Dates : UnlockWeek(d) => WeekStatus(WeekStart(d))' # "Submitted"]_<<entries, markers>>

\* Once the computations that are due have run, the snapshot of a week is what its
\* entries add up to, however the writes and the computations fell; unless the last
\* computation was lost, or was for another week than the entry's.
SnapshotsAgree ==
  \A w \in Weeks \ (due \cup behind) :
    EntriesOf(w) # {} => snapshots[w] = CalculateUtilization(EntriesOf(w))

\* What the device shows of a save, a submission or an unlock is what the server makes of
\* it, unless the employee changes entity in the morning of the date: the server asks for
\* the entity at midnight, the device for the one at noon.
ShownAsDelivered ==
  [][\A d \in Dates :
       (\A k \in DOMAIN scopes : scopes[k].from # Noon(d)) =>
         /\ \A c \in Cells, h \in HourChoices : SaveCell(d, c, h) => DeviceSaveCell(d, c, h)
         /\ SubmitWeek(d) => DeviceSubmitWeek(d)
         /\ UnlockWeek(d) => DeviceUnlockWeek(d)]_<<entries, markers>>
=============================================================================
