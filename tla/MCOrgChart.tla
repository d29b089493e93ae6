----------------------------- MODULE MCOrgChart -----------------------------
(***************************************************************************)
(* Three parts of the workforce data for TLC, each on an instance of its   *)
(* own: the reporting line (OrgChart), the working calendar                *)
(* (WorkingCalendar) and the bench (Bench).  They share no rows: a         *)
(* behaviour is one of the part its initial state names, and the others    *)
(* rest.  The employees of the reporting line are interchangeable.         *)
(***************************************************************************)
EXTENDS OrgChart, Sequences, TLC

CONSTANTS
  Entities, Residents, EntityOf, LocationOf, Nowhere, Everywhere,         \* of the calendar
  HolidayKinds, WeekLength, Weeks, PatternWeeks, ReducedDays, StartDays,
  HolidayDates, PatternDates, DailyHours,
  MaxRows, MaxHolidays, MaxVersion, MaxPending,
  Consultants, Working, PitchDays, Rates, NoRate, DefaultDaily,           \* of the bench
  Threshold, Percent, CostHorizon, MaxWrites,
  MaxDay,                                                                 \* of both
  Acme, Ann, Bea, Karachi, Lahore

VARIABLES part,
          calendars, holidays, patterns, today, pending,
          assignments, pitch, alerts, due, dismissing, now

calendarVars == <<calendars, holidays, patterns, today, pending>>
benchVars == <<assignments, pitch, alerts, due, dismissing, now>>
allVars == <<part, lines, orderly, calendarVars, benchVars>>

-----------------------------------------------------------------------------
\* One entity, one employee; a week has two days, three exist.
MCEntityOf == [e \in Residents |-> Acme]
MCLocationOf == [e \in Residents |-> Karachi]
MCHolidayKinds == {[where |-> Everywhere, half |-> TRUE], [where |-> {Karachi, Lahore}, half |-> FALSE]}
MCWeeks == {<<8, 0>>, <<8, 8>>}
MCPatternWeeks == {<<0>>}
MCReducedDays == {{2}}

\* Days 1 and 3 are worked; a gap of one day is an alert already.
MCWorking == [e \in Consultants |-> {1, 3}]

\* A template gives an entity its first week, a calendar's week has all its days and a
\* pattern's some, hours are numbers, and a pattern begins on a day there is.
ASSUME CalendarAssumption ==
  /\ MaxDay \in Nat \ {0}
  /\ EntityOf \in [Residents -> Entities]
  /\ WeekLength \in Nat \ {0} /\ StartDays \subseteq 1..WeekLength /\ DailyHours \in Nat
  /\ Weeks # {} /\ Weeks \subseteq [1..WeekLength -> Nat] /\ PatternWeeks \subseteq Seq(Nat)
  /\ PatternDates \subseteq 1..MaxDay

\* An alert takes a gap of a day at least, the days that are worked are days, and rates
\* are cents.
ASSUME BenchAssumption ==
  /\ Threshold \in Nat \ {0} /\ Working \in [Consultants -> SUBSET (1..MaxDay)]
  /\ Rates \subseteq Nat /\ DefaultDaily \in Nat /\ Percent \in Nat /\ CostHorizon \in Nat

Calendar == INSTANCE WorkingCalendar WITH now <- today, Employees <- Residents
OnTheBench == INSTANCE Bench WITH Employees <- Consultants

OfLine == part = "line" /\ UNCHANGED <<part, calendarVars, benchVars>>
OfCalendar == part = "calendar" /\ UNCHANGED <<part, vars, benchVars>>
OfBench == part = "bench" /\ UNCHANGED <<part, vars, calendarVars>>

WorkforceInit ==
  part \in {"line", "calendar", "bench"} /\ Init /\ Calendar!Init /\ OnTheBench!Init
WorkforceNext ==
  \/ OfLine /\ Next
  \/ OfCalendar /\ Calendar!Next
  \/ OfBench /\ OnTheBench!Next
WorkforceSpec == WorkforceInit /\ [][WorkforceNext]_allVars

EmployeeSymmetry == Permutations(Employees)

-----------------------------------------------------------------------------
\* One calendar and one pattern is in force, the pieces of code that walk the days by
\* them agree, and so do the three computations of bench days.
DaysAgree == Calendar!OneInForce /\ Calendar!CountsAgree /\ OnTheBench!ScreensAgree

\* A change of the calendar or of a pattern leaves the days before it, and carries the
\* holidays that are in force.
HistoryIsKept == Calendar!HistoryIsKept /\ Calendar!HolidaysAreCarried

\* An evaluation leaves an alert exactly where there is a gap.
AlertsTellTheGap == OnTheBench!AlertsTellTheGap

\* The device shows of a calendar, a holiday or a pattern what the server makes of it.
ShownAsDelivered == Calendar!ShownAsDelivered
=============================================================================
