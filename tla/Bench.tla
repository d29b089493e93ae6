-------------------------------- MODULE Bench --------------------------------
(***************************************************************************)
(* The bench: the working days of an employee that no active assignment    *)
(* covers, the alert the server keeps for a long gap, and the regions a    *)
(* screen shows of it.                                                     *)
(*                                                                         *)
(* An alert is evaluated after the commit of a write that moves coverage,  *)
(* in a SERIALIZABLE transaction of its own, and for everybody in a sweep. *)
(* The evaluation after a commit is lost when the process stops or its     *)
(* attempts run out.  revenueGapAlert.dismiss is READ COMMITTED: it reads  *)
(* the alert in one step and patches it in another.                        *)
(***************************************************************************)
EXTENDS Integers, SequencesExt

CONSTANTS Employees,
          Working,          \* the working days of each employee
          PitchDays,        \* days somebody may log pitch time on
          Rates,            \* hourly rates of assignments, NoRate among them
          NoRate,
          DefaultDaily,     \* billing_rate_default, 0 when there is none
          Threshold,        \* BENCH_ALERT_THRESHOLD_DAYS
          Percent,          \* billable_percentage of every assignment
          CostHorizon,      \* COST_HORIZON_DAYS
          MaxDay,           \* bound on the days that exist
          MaxWrites         \* bound on the writes of assignments

VARIABLES assignments,   \* Assignment rows
          pitch,         \* days with a Pitch entry, of each employee
          alerts,        \* RevenueGapAlert rows
          due,           \* employees an evaluation is due for
          dismissing,    \* dismissals that have read their alert
          now            \* today

vars == <<assignments, pitch, alerts, due, dismissing, now>>

Days == 1..MaxDay
Hired == 1   \* Employee.start_date
Rows(table) == 1..Len(table)
None == 0

-----------------------------------------------------------------------------
(* The current bench period.                                               *)

ActiveOf(e) ==
  {a \in Rows(assignments) : assignments[a].employee = e /\ assignments[a].status = "Active"}
AssignmentCovers(a, d) == assignments[a].start <= d /\ d <= assignments[a].end
Covered(e, d) == \E a \in ActiveOf(e) : AssignmentCovers(a, d)

BenchDaysIn(e, from, to) ==
  {d \in (from..to) \cap Working[e] : ~Covered(e, d) /\ d \notin pitch[e]}

\* The active assignments that have ended, and the one that ended last.
Ended(e) == {a \in ActiveOf(e) : assignments[a].end < now}
LatestEnded(e) ==
  IF Ended(e) = {} THEN None
  ELSE CHOOSE a \in Ended(e) : \A b \in Ended(e) :
         \/ assignments[b].end < assignments[a].end
         \/ assignments[b].end = assignments[a].end /\ a <= b

\* computeBenchStatus
BenchDays(e) ==
  IF Covered(e, now) THEN {}
  ELSE LET last == LatestEnded(e)
           from == IF last = None THEN Hired ELSE assignments[last].end + 1
       IN BenchDaysIn(e, from, now)

BenchStart(e) ==
  IF LatestEnded(e) # None THEN assignments[LatestEnded(e)].end ELSE Min(BenchDays(e))

SeverityFor(days) ==
  IF days >= 3 * Threshold THEN "High" ELSE IF days >= 2 * Threshold THEN "Medium" ELSE "Low"
Rank == [Low |-> 0, Medium |-> 1, High |-> 2]

\* The stored hourly rate of the assignment that ended outranks the default.
ResolveDailyCost(e) ==
  LET last == LatestEnded(e)
  IN IF last # None /\ assignments[last].rate # NoRate THEN assignments[last].rate * 8
     ELSE DefaultDaily

-----------------------------------------------------------------------------
(* Coverage moves.                                                         *)

Room == MapThenSumSet(LAMBDA a : assignments[a].version, Rows(assignments)) < MaxWrites

Assign(e, start, end, rate) ==
  /\ Room /\ start <= end
  /\ assignments' = Append(assignments, [employee |-> e, status |-> "Active", start |-> start,
                                         end |-> end, rate |-> rate, version |-> 1])
  /\ due' = due \cup {e}
  /\ UNCHANGED <<pitch, alerts, dismissing, now>>

\* assignment.update evaluates only when the dates have changed.
Move(a, start, end) ==
  /\ Room /\ start <= end
  /\ assignments[a].status = "Active"
  /\ assignments' = [assignments EXCEPT ![a].start = start, ![a].end = end, ![a].version = @ + 1]
  /\ due' = IF start # assignments[a].start \/ end # assignments[a].end
            THEN due \cup {assignments[a].employee} ELSE due
  /\ UNCHANGED <<pitch, alerts, dismissing, now>>

Cancel(a) ==
  /\ Room
  /\ assignments[a].status = "Active"
  /\ assignments' = [assignments EXCEPT ![a].status = "Canceled", ![a].version = @ + 1]
  /\ due' = due \cup {assignments[a].employee}
  /\ UNCHANGED <<pitch, alerts, dismissing, now>>

\* A timesheet cell of category Pitch: nothing is evaluated.
LogPitch(e, d) ==
  /\ d \notin pitch[e]
  /\ pitch' = [pitch EXCEPT ![e] = @ \cup {d}]
  /\ UNCHANGED <<assignments, alerts, due, dismissing, now>>

-----------------------------------------------------------------------------
(* Evaluation.                                                             *)

ActiveAlerts(e) ==
  {x \in Rows(alerts) : alerts[x].employee = e /\ alerts[x].status = "Active"}

\* listActiveRevenueGapAlerts
ListActive == UNION {ActiveAlerts(e) : e \in Employees}

Covering(e) == {a \in ActiveOf(e) : AssignmentCovers(a, now)}

Findings(e) ==
  LET days == Cardinality(BenchDays(e))
  IN [start |-> BenchStart(e), days |-> days, daily |-> ResolveDailyCost(e),
      accumulated |-> ResolveDailyCost(e) * days, severity |-> SeverityFor(days)]

NewAlert(e, found) ==
  [employee |-> e, status |-> "Active", found |-> found, escalated |-> FALSE,
   dismissed |-> FALSE, by |-> None]

Resolved(x, a) == [alerts EXCEPT ![x].status = "Resolved", ![x].by = a]

\* Mutant: only an escalation is written.
RefreshedOnEscalation(x, found) ==
  IF Rank[found.severity] > Rank[alerts[x].found.severity]
    THEN [alerts EXCEPT ![x].found = found, ![x].escalated = TRUE] ELSE alerts

Refreshed(x, found) ==
  [alerts EXCEPT ![x].found = found,
                 ![x].escalated = @ \/ Rank[found.severity] > Rank[alerts[x].found.severity]]

\* evaluateInTransaction; more than one active alert is an error.
Evaluated(e) ==
  LET active == ActiveAlerts(e)
      found == Findings(e)
      first == CHOOSE a \in Covering(e) : \A b \in Covering(e) : a <= b
  IN IF BenchDays(e) = {} THEN
       IF active = {} \/ Covering(e) = {} THEN alerts
       ELSE Resolved(CHOOSE x \in active : TRUE, first)
     ELSE IF Cardinality(BenchDays(e)) < Threshold THEN alerts
     ELSE IF active = {} THEN Append(alerts, NewAlert(e, found))
     ELSE Refreshed(CHOOSE x \in active : TRUE, found)

RevenueGapAlertEvaluate(e) ==
  /\ UNCHANGED <<assignments, pitch, dismissing, now>>
  /\ Cardinality(ActiveAlerts(e)) <= 1
  /\ alerts' = Evaluated(e)

EvaluateAfterCommit(e) ==
  /\ e \in due /\ due' = due \ {e}
  /\ RevenueGapAlertEvaluate(e)

EvaluationIsLost(e) ==
  /\ e \in due /\ due' = due \ {e}
  /\ UNCHANGED <<assignments, pitch, alerts, dismissing, now>>

\* sweepRevenueGapAlerts: each employee in a transaction of its own.
Sweep(e) == UNCHANGED due /\ RevenueGapAlertEvaluate(e)

DismissRead(x) ==
  /\ dismissing = {}
  /\ alerts[x].status = "Active" /\ ~alerts[x].dismissed
  /\ dismissing' = dismissing \cup {x}
  /\ UNCHANGED <<assignments, pitch, alerts, due, now>>

DismissWrite(x) ==
  /\ x \in dismissing
  /\ dismissing' = dismissing \ {x}
  /\ alerts' = [alerts EXCEPT ![x].dismissed = TRUE]
  /\ UNCHANGED <<assignments, pitch, due, now>>

NextDay ==
  /\ now < MaxDay
  /\ now' = now + 1
  /\ UNCHANGED <<assignments, pitch, alerts, due, dismissing>>

Init ==
  /\ assignments = <<>> /\ alerts = <<>>
  /\ pitch = [e \in Employees |-> {}]
  /\ due = {} /\ dismissing = {}
  /\ now = 1

Next ==
  \/ NextDay
  \/ \E e \in Employees :
       \/ \E start, end \in Days, rate \in Rates : Assign(e, start, end, rate)
       \/ \E d \in PitchDays : LogPitch(e, d)
       \/ EvaluateAfterCommit(e) \/ EvaluationIsLost(e) \/ Sweep(e)
  \/ \E a \in Rows(assignments) : Cancel(a) \/ \E start, end \in Days : Move(a, start, end)
  \/ \E x \in Rows(alerts) : DismissRead(x) \/ DismissWrite(x)

Spec == Init /\ [][Next]_vars

-----------------------------------------------------------------------------
(* What a screen shows.                                                    *)

\* getBenchForecast on the device: the same days, but pitch time is not known.
DeviceBenchDays(e) == {d \in Days \cap Working[e] : ~Covered(e, d)}

\* getBenchForecastCosts: the days the server charges for.
ChargedDays(e) == {d \in Days : d \in Working[e] /\ \A a \in ActiveOf(e) : ~AssignmentCovers(a, d)}

\* groupBench: a period grows while the next bench day is the next day.
Grown(periods, d) ==
  LET n == Len(periods)
  IN IF n > 0 /\ periods[n].to + 1 = d
     THEN [periods EXCEPT ![n] = [from |-> @.from, to |-> d, days |-> @.days + 1]]
     ELSE Append(periods, [from |-> d, to |-> d, days |-> 1])

GroupBench(days) ==
  LET groups[d \in 0..MaxDay] ==
        IF d = 0 THEN <<>> ELSE IF d \in days THEN Grown(groups[d - 1], d) ELSE groups[d - 1]
  IN groups[MaxDay]

\* buildForecast: a region runs on over days that are not worked, and counts the working
\* ones; one without any is not shown.  "begun" is None where runStart is null.
CloseRun(s, d) ==
  IF s.begun = None \/ s.worked = 0 THEN s.regions
  ELSE Append(s.regions, [from |-> s.begun, to |-> d - 1, days |-> s.worked])

RunOn(e, s, d) ==
  IF Covered(e, d) \/ d \in pitch[e]
  THEN [begun |-> None, worked |-> 0, regions |-> CloseRun(s, d)]
  ELSE [s EXCEPT !.begun = IF @ = None THEN d ELSE @,
                 !.worked = IF d \in Working[e] THEN @ + 1 ELSE @]

Regions(e) ==
  LET run[d \in 0..MaxDay] ==
        IF d = 0 THEN [begun |-> None, worked |-> 0, regions |-> <<>>] ELSE RunOn(e, run[d - 1], d)
  IN CloseRun(run[MaxDay], MaxDay + 1)

\* The working days of the regions that begin before a day: costedBenchWorkingDays for the
\* cost horizon, benchWorkingDays for all of them.
WorkedBefore(regions, day) ==
  LET sum[i \in 0..Len(regions)] ==
        IF i = 0 THEN 0
        ELSE IF regions[i].from < day THEN sum[i - 1] + regions[i].days ELSE sum[i - 1]
  IN sum[Len(regions)]

\* computeUtilization: each working day counts at most once; Math.round to a percent.
Weight(e, d) ==
  LET booked == Percent * Cardinality({a \in ActiveOf(e) : AssignmentCovers(a, d)})
  IN IF booked > 100 THEN 100 ELSE booked

Rounded(sum, n) == (2 * sum + n) \div (2 * n)

UtilizationOf(e) ==
  LET available == Cardinality(Days \cap Working[e])
      covered[d \in 0..MaxDay] ==
        IF d = 0 THEN 0
        ELSE IF d \in Working[e] THEN covered[d - 1] + Weight(e, d) ELSE covered[d - 1]
  IN IF available = 0 THEN 0 ELSE Rounded(covered[MaxDay], available)

-----------------------------------------------------------------------------
(* Properties.                                                             *)

\* What is true of an employee's alerts once they have been evaluated.
TellsTheGap(e) ==
  /\ Cardinality(BenchDays(e)) >= Threshold =>
       \E x \in ListActive' :
         /\ alerts'[x].employee = e
         /\ alerts'[x].found.days = Cardinality(BenchDays(e))
         /\ \A d \in BenchDays(e) : ~Covered(e, d) /\ d <= now
  /\ Covering(e) # {} => ActiveAlerts(e)' = {}
  /\ ActiveAlerts(e) # ActiveAlerts(e)' /\ ActiveAlerts(e) # {} => Covering(e) # {}

\* An evaluation leaves the truth behind: after it a gap of the threshold or
\* more has an active alert with the bench days of today, and nobody whose
\* bench is over because an assignment covers today has one (VRS-F012 G07:
\* pitch time and days off do not resolve an alert).
AlertsTellTheGap ==
  [][\A e \in Employees : EvaluateAfterCommit(e) \/ Sweep(e) => TellsTheGap(e)]_vars

\* The regions of the planning screen, the periods of the device's forecast, the days the
\* server charges for and its bench days are computed by four pieces of code: they agree
\* on every bench day, up to the pitch days the device and the charge do not know.  No
\* region or period runs into the next, each counts its days, and over-booking never makes
\* the utilization exceed the share of the working days that are covered.
ScreensAgree ==
  \A e \in Employees :
    LET regions == Regions(e)
        periods == GroupBench(DeviceBenchDays(e))
        bench == BenchDaysIn(e, 1, MaxDay)
        working == Days \cap Working[e]
        shownIn(i) == regions[i].from..regions[i].to
        daysOf(i) == periods[i].from..periods[i].to
        costed == UNION {shownIn(i) : i \in {j \in Rows(regions) : regions[j].from < now + CostHorizon}}
    IN /\ bench = (UNION {shownIn(i) : i \in Rows(regions)}) \cap Working[e]
       /\ WorkedBefore(regions, MaxDay + 1) = Cardinality(bench)
       /\ WorkedBefore(regions, now + CostHorizon) = Cardinality(costed \cap Working[e])
       /\ \A i \in Rows(regions) : i > 1 =>
            \E d \in (regions[i - 1].to + 1)..(regions[i].from - 1) : Covered(e, d) \/ d \in pitch[e]
       /\ ChargedDays(e) = UNION {daysOf(i) : i \in Rows(periods)}
       /\ bench = ChargedDays(e) \ pitch[e]
       /\ \A i \in Rows(periods) : /\ periods[i].days = Cardinality(daysOf(i))
                                   /\ i > 1 => periods[i - 1].to + 1 < periods[i].from
       /\ working # {} =>
            UtilizationOf(e) <= Rounded(100 * Cardinality({d \in working : Covered(e, d)}),
                                        Cardinality(working))

=============================================================================
