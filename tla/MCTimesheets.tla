---------------------------- MODULE MCTimesheets ----------------------------
(***************************************************************************)
(* The daily work of an employee for TLC, in four parts, each on an        *)
(* instance of its own: timesheets and their snapshots (Timesheets),       *)
(* anomalies, leave policies and time off in lieu (Overtime),              *)
(* notifications (Notices), and the skills projects ask for                *)
(* (SkillMatching).  They share no rows: a behaviour is one of the part    *)
(* its initial state names, and the others rest.                           *)
(***************************************************************************)
EXTENDS Timesheets, TLC

CONSTANTS
  Acme, Beta,   \* two entities, whose weeks begin on different days
  PaidWeeks, Contents, WorkingDays, ExpectedHours, Terms, Today,        \* of overtime
  MaxSubmits, MaxFlags, MaxPolicies,
  Alerts, Flags, Reminders, Self, Managers, Nobody,                     \* of notifications
  MaxSeverity, MaxScopes, MaxFailures,
  Employees, Project, MaxLevel, MaxCalls, MaxLosses,                    \* of skills
  Workers, MaxMoves                                                     \* of both

VARIABLES
  part,
  submitted, evaluable, flags, policies, ledger, today, submits,
  severity, manager, linked, notices, job, ended, moves, failures, told,
  edges, free, gaps, staffedOn, call, calls, shifts, losses, settled

overtimeVars == <<submitted, evaluable, flags, policies, ledger, today, submits>>
noticeVars == <<severity, manager, linked, notices, job, ended, moves, failures, told>>
matchVars == <<edges, free, gaps, staffedOn, call, calls, shifts, losses, settled>>
allVars == <<part, vars, overtimeVars, noticeVars, matchVars>>

MCFirstAnchor == [e \in Entities |-> IF e = Acme THEN 0 ELSE 1]

-----------------------------------------------------------------------------
\* Two weeks of one working day and eight hours: twelve hours are overtime, and
\* half a day of it is more than what is left of one of the caps.
Entry(row, late) == [row |-> row, date |-> 1, hours |-> 12, late |-> late]
MCContents == {{Entry("build", FALSE)}, {Entry("build", TRUE), Entry("survey", FALSE)}}
MCWorkingDays == [w \in PaidWeeks |-> 1]
MCExpectedHours == [w \in PaidWeeks |-> 8]
MCTerms == {[toil |-> TRUE, rate |-> 100, cap |-> 7500, expiry |-> 1],
            [toil |-> FALSE, rate |-> 100, cap |-> 10000, expiry |-> 2]}

\* Hours, days and the terms of a policy are not negative (leave-policy.ts).
ASSUME OvertimeAssumption ==
  /\ Today \in Nat \ {0}
  /\ WorkingDays \in [PaidWeeks -> Nat] /\ ExpectedHours \in [PaidWeeks -> Nat]
  /\ \A rows \in Contents : IsFiniteSet(rows) /\ \A x \in rows : x.hours \in Nat
  /\ Terms \subseteq [toil : BOOLEAN, rate : Nat, cap : Nat, expiry : Nat]

Accrued == INSTANCE Overtime WITH Weeks <- PaidWeeks

\* An alert that escalates, a flag and a reminder: up to two locks to a delivery.
Noticed == INSTANCE Notices

\* A requirement, two employees and two requests at a time.
Matched == INSTANCE SkillMatching WITH staffed <- staffedOn, moves <- shifts

OfTimesheets ==
  part = "timesheets" /\ UNCHANGED <<part, overtimeVars, noticeVars, matchVars>>
OfOvertime == part = "overtime" /\ UNCHANGED <<part, vars, noticeVars, matchVars>>
OfNotices == part = "notices" /\ UNCHANGED <<part, vars, overtimeVars, matchVars>>
OfSkills == part = "skills" /\ UNCHANGED <<part, vars, overtimeVars, noticeVars>>

\* Of what a part that rests may begin with, one value will do.
HoursInit ==
  /\ part \in {"timesheets", "overtime", "notices", "skills"}
  /\ Init /\ Accrued!Init /\ Noticed!Init /\ Matched!Init
  /\ part # "timesheets" => staffed = {} /\ scopes[1].entity = Acme
  /\ part # "notices" => manager = CHOOSE m \in Managers : TRUE
HoursNext ==
  \/ (OfTimesheets /\ Next) \/ (OfOvertime /\ Accrued!Next)
  \/ (OfNotices /\ Noticed!Next) \/ (OfSkills /\ Matched!Next)
HoursSpec == HoursInit /\ [][HoursNext]_allVars

-----------------------------------------------------------------------------
\* A cell has one entry and a day twenty-four hours; the snapshot of a week is what its
\* entries add up to.
HoursAgree == DaysAddUp /\ SnapshotsAgree

\* The overtime of a week is granted once.
OvertimeIsGrantedOnce == Accrued!OvertimeIsGrantedOnce

\* Time off in lieu stays under the cap, priced by the version in force.
BalanceIsCapped == Accrued!BalanceIsCapped

\* Everybody a delivery is for is notified, and nobody twice of the same thing.
NotifiedOnce == Noticed!NotifiedOnce /\ Noticed!EachIsTold

\* No second Active gap, and gaps that say what the requirements and the skills say.
GapsAreTrue == Matched!OneActiveGap /\ Matched!GapsAreTrue

\* What the device shows of a call is what the server makes of it, here for the cells
\* and weeks of a timesheet, notifications, skills and staffing.
CallsShownAsDelivered == ShownAsDelivered /\ Noticed!ReadStatesAgree /\ Matched!AttachedAsShown
=============================================================================
