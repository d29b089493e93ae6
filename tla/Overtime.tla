------------------------------ MODULE Overtime ------------------------------
(***************************************************************************)
(* What happens to a submitted week of one employee: three heuristics flag *)
(* it, a manager clears the flag, and clearing it as approved overtime     *)
(* grants time off in lieu by the leave policy in force that day.          *)
(*                                                                         *)
(* The evaluation runs after the commit of submitWeek, SERIALIZABLE, and   *)
(* its failure is swallowed.  timesheetAnomaly.clear and                   *)
(* leavePolicy.update run SERIALIZABLE; leavePolicy.create reads nothing   *)
(* that a transaction can change.  One action each.                        *)
(***************************************************************************)
EXTENDS Integers, Sequences, FiniteSetsExt

CONSTANTS Weeks,
          Contents,         \* what a week may be submitted with
          WorkingDays,      \* the working days a week of the employee has
          ExpectedHours,    \* the hours these days have
          Terms,            \* what a policy may say of overtime: [toil, rate, cap, expiry]
          Today,            \* the days there are: 1..Today
          MaxSubmits, MaxFlags, MaxPolicies   \* bounds on what is ever written

VARIABLES submitted,   \* the Submitted entries of each week
          evaluable,   \* weeks an evaluation is due for
          flags,       \* TimesheetAnomalyFlag rows
          policies,    \* LeavePolicy rows that match the employee
          ledger,      \* LeaveLedgerEntry rows
          today,
          submits

vars == <<submitted, evaluable, flags, policies, ledger, today, submits>>

Dates == 1..Today
Rows(table) == 1..Len(table)
None == 0

-----------------------------------------------------------------------------
(* The heuristics.  An entry is a record [row, date, hours, late]: the row *)
(* is an assignment, "pitch" or "non-billable", and "late" says that the   *)
(* date is after the end of the assignment.                                *)

Reasons == {"PostEndDateAssignment", "ZeroVarianceWeek", "HoursExceedExpected"}

LoggedHours(entries) == MapThenSumSet(LAMBDA x : x.hours, {x \in entries : x.row # "pitch"})

\* A week with one row is not evaluated for variance, one with pitch time not for hours.
Triggered(reason, week) ==
  LET entries == submitted[week]
  IN \/ reason = "PostEndDateAssignment" /\ \E x \in entries : x.late
     \/ /\ reason = "ZeroVarianceWeek"
        /\ Cardinality({x.row : x \in entries}) >= 2
        /\ \A x, y \in entries : x.hours = y.hours
     \/ /\ reason = "HoursExceedExpected"
        /\ \A x \in entries : x.row # "pitch"
        /\ 10 * LoggedHours(entries) > 13 * ExpectedHours[week]

-----------------------------------------------------------------------------
(* Flags.                                                                  *)

FlagsOf(week, reason) == {f \in Rows(flags) : flags[f].week = week /\ flags[f].reason = reason}
Uncleared(week, reason) == {f \in FlagsOf(week, reason) : flags[f].outcome = "none"}

\* What listActiveAnomalies answers.
ActiveAnomalies == {f \in Rows(flags) : flags[f].outcome = "none"}

\* Mutant: an approval does not keep the week from being flagged.
ApprovedNever(week, reason) == FALSE

\* Overtime that has been approved is not flagged again.
Approved(week, reason) ==
  /\ reason = "HoursExceedExpected"
  /\ \E f \in FlagsOf(week, reason) : flags[f].outcome = "ApprovedOvertime"

\* An uncleared flag of the reason is refreshed, which changes nothing here.
Flagged(week) ==
  {reason \in Reasons : Triggered(reason, week) /\ ~Approved(week, reason)
                        /\ Uncleared(week, reason) = {}}

NewFlags(week) ==
  LET row(reason) == IF reason \in Flagged(week)
                     THEN <<[week |-> week, reason |-> reason, outcome |-> "none"]>> ELSE <<>>
  IN row("PostEndDateAssignment") \o row("ZeroVarianceWeek") \o row("HoursExceedExpected")

TimesheetAnomalyEvaluate(week) ==
  /\ week \in evaluable
  /\ Len(flags) + Cardinality(Flagged(week)) <= MaxFlags
  /\ flags' = flags \o NewFlags(week)
  /\ evaluable' = evaluable \ {week}
  /\ UNCHANGED <<submitted, policies, ledger, today, submits>>

\* The process stops after the commit, or the five attempts fail.
EvaluationIsLost(week) ==
  /\ week \in evaluable
  /\ evaluable' = evaluable \ {week}
  /\ UNCHANGED <<submitted, flags, policies, ledger, today, submits>>

\* timesheet.submitWeek; the entries may be saved again after an unlock.
Submit(week, entries) ==
  /\ submits < MaxSubmits /\ submits' = submits + 1
  /\ submitted[week] = {}
  /\ submitted' = [submitted EXCEPT ![week] = entries]
  /\ evaluable' = evaluable \cup {week}
  /\ UNCHANGED <<flags, policies, ledger, today>>

\* timesheet.unlockWeek: nothing is evaluated, no flag goes.
Unlock(week) ==
  /\ submitted[week] # {}
  /\ submitted' = [submitted EXCEPT ![week] = {}]
  /\ UNCHANGED <<evaluable, flags, policies, ledger, today, submits>>

-----------------------------------------------------------------------------
(* Leave policies.  A version retires its predecessor at once, even when   *)
(* it takes effect later.                                                  *)

NewPolicy(terms, from, version, prior) ==
  [terms |-> terms, from |-> from, version |-> version, supersedes |-> prior,
   active |-> TRUE, row |-> 1]

LeavePolicyCreate(terms, from) ==
  /\ Len(policies) < MaxPolicies
  /\ policies' = Append(policies, NewPolicy(terms, from, 1, None))
  /\ UNCHANGED <<submitted, evaluable, flags, ledger, today, submits>>

LeavePolicyUpdate(p, expectedVersion, terms, from) ==
  /\ Len(policies) < MaxPolicies
  /\ expectedVersion = policies[p].row /\ policies[p].active
  /\ from >= today
  /\ policies' = Append([policies EXCEPT ![p].active = FALSE, ![p].row = @ + 1],
                        NewPolicy(terms, from, policies[p].version + 1, p))
  /\ UNCHANGED <<submitted, evaluable, flags, ledger, today, submits>>

\* The active policy that was created last; the others are what listConflicts reports.
MatchingPolicies == {p \in Rows(policies) : policies[p].active}
LatestPolicy == IF MatchingPolicies = {} THEN None ELSE Max(MatchingPolicies)

PolicyLineage(p) ==
  LET back[q \in 0..p] == IF q = None THEN {} ELSE {q} \cup back[policies[q].supersedes]
  IN back[p]

\* Mutant: the version that is active, in force or not.
LatestInForce(p, d) == p

\* The version in force on a day.
VersionInForce(p, d) ==
  LET begun == {q \in PolicyLineage(p) : policies[q].from <= d}
  IN IF begun = {} THEN None
     ELSE CHOOSE q \in begun : \A r \in begun :
            \/ policies[r].from < policies[q].from
            \/ policies[r].from = policies[q].from /\ policies[r].version <= policies[q].version

-----------------------------------------------------------------------------
(* Balance and accrual, in ten-thousandths of a day.                       *)

LiveOn(entry, d) == entry.from <= d /\ d < entry.expires

\* computeLeaveBalance of an earned type; no usage is recorded yet.
Balance(d) ==
  MapThenSumSet(LAMBDA k : ledger[k].days, {k \in Rows(ledger) : LiveOn(ledger[k], d)})

RoundDiv(a, b) == (2 * a + b) \div (2 * b)

\* computeToilAccrual; rates are in hundredths.
GrantedDays(week, terms, held) ==
  LET over == Max({0, LoggedHours(submitted[week]) - ExpectedHours[week]})
      requested == IF ExpectedHours[week] = 0 THEN 0
                   ELSE RoundDiv(over * WorkingDays[week] * terms.rate * 100, ExpectedHours[week])
  IN Min({requested, Max({0, terms.cap - held})})

\* resolveToilAccrual, on the day of the clearance.
ResolveToilAccrual(f) ==
  LET version == IF LatestPolicy = None THEN None ELSE VersionInForce(LatestPolicy, today)
  IN IF \/ flags[f].reason # "HoursExceedExpected"
        \/ version = None
        \/ ~policies[version].terms.toil
        \/ WorkingDays[flags[f].week] = 0
     THEN [days |-> 0, policy |-> None]
     ELSE [days |-> GrantedDays(flags[f].week, policies[version].terms, Balance(today)),
           policy |-> version]

NewEntry(f, grant) ==
  [days |-> grant.days, from |-> today, policy |-> grant.policy, flag |-> f,
   expires |-> today + policies[grant.policy].terms.expiry]

\* The days the caller was shown may have moved since the preview.
Clear(f, outcome, acknowledged) ==
  LET grant == IF outcome = "ApprovedOvertime" THEN ResolveToilAccrual(f)
               ELSE [days |-> 0, policy |-> None]
  IN /\ flags[f].outcome = "none"
     /\ outcome = "ApprovedOvertime" /\ flags[f].reason = "HoursExceedExpected"
          => acknowledged \in {None, grant.days}
     /\ flags' = [flags EXCEPT ![f].outcome = outcome]
     /\ ledger' = IF grant.days = 0 THEN ledger ELSE Append(ledger, NewEntry(f, grant))
     /\ UNCHANGED <<submitted, evaluable, policies, today, submits>>

NextDay ==
  /\ today < Today
  /\ today' = today + 1
  /\ UNCHANGED <<submitted, evaluable, flags, policies, ledger, submits>>

Init ==
  /\ submitted = [w \in Weeks |-> {}]
  /\ evaluable = {}
  /\ flags = <<>> /\ policies = <<>> /\ ledger = <<>>
  /\ today = 1
  /\ submits = 0

Next ==
  \/ NextDay
  \/ \E w \in Weeks :
       \/ \E entries \in Contents : Submit(w, entries)
       \/ Unlock(w)
       \/ TimesheetAnomalyEvaluate(w)
       \/ EvaluationIsLost(w)
  \/ \E f \in Rows(flags), outcome \in {"Corrected", "ApprovedOvertime"}, a \in {None, 5000} :
       Clear(f, outcome, a)
  \/ \E terms \in Terms, from \in Dates :
       \/ LeavePolicyCreate(terms, from)
       \/ \E p \in Rows(policies), v \in 1..2 : LeavePolicyUpdate(p, v, terms, from)

Spec == Init /\ [][Next]_vars

-----------------------------------------------------------------------------
(* Properties.                                                             *)

\* However a week is unlocked, submitted again, evaluated late or not at all, it has at
\* most one open flag of a reason, and its overtime is granted at most once.
OvertimeIsGrantedOnce ==
  /\ \A f, g \in ActiveAnomalies :
       flags[f].week = flags[g].week /\ flags[f].reason = flags[g].reason => f = g
  /\ \A k, l \in Rows(ledger) :
       flags[ledger[k].flag].week = flags[ledger[l].flag].week => k = l

\* What an employee holds is at most the largest cap a version has ever had, and every
\* grant was priced by a version in force on its day, though a version that only takes
\* effect later retires the one in force at once (comment at resolveToilAccrual).
BalanceIsCapped ==
  /\ ledger # <<>> => Balance(today) <= Max({policies[p].terms.cap : p \in Rows(policies)})
  /\ \A k \in Rows(ledger) :
       LET p == policies[ledger[k].policy]
       IN p.from <= ledger[k].from /\ p.terms.toil
  /\ \A p \in Rows(policies) :
       policies[p].active <=> \A q \in Rows(policies) : policies[q].supersedes # p

=============================================================================
