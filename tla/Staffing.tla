------------------------------- MODULE Staffing -------------------------------
(***************************************************************************)
(* Assignments of employees to projects, the rate cards that price them,   *)
(* and what a device shows of them while a change is on its way.           *)
(*                                                                         *)
(* An ordinary write of an assignment checks the employee's capacity on    *)
(* every working day it covers; an override skips the check and records    *)
(* why.  An assignment keeps the hourly rate that was resolved when it was *)
(* last priced: its override, else the line of its card, else the          *)
(* employee's default.                                                     *)
(*                                                                         *)
(* assignment.create, update, cancel, setRateCard and rateCard.update run  *)
(* SERIALIZABLE: one action each.  assignment.setRateOverride and          *)
(* clearRateOverride run READ COMMITTED: a read and a later write.  The    *)
(* other two READ COMMITTED operations, overrideAndProceed and             *)
(* rateCard.create, read nothing that a transaction can change.            *)
(***************************************************************************)
EXTENDS Integers, Sequences, FiniteSets, FiniteSetsExt

CONSTANTS Employees,
          Callers,          \* who sends mutations
          Overriders,       \* callers who own the workspace or manage the employee
          CardReaders,      \* callers the policy lets read a rate card
          Percents,         \* billable_percentage values, out of 100
          Lines,            \* hourly rates of a card's line, or NoRate for none
          Overrides,        \* hourly overrides given
          NoRate,
          DefaultDaily,     \* billing_rate_default, a daily amount
          MaxDay,           \* bound on the days that exist
          MaxAssignments,   \* bounds on what is ever written
          MaxCards,
          MaxWrites,
          MaxPending        \* bound on READ COMMITTED transactions in flight

VARIABLES assignments,   \* Assignment rows
          governed,      \* governed_by edges, from an assignment to a card
          cards,         \* RateCard rows, each with the line that matters here
          pending,       \* READ COMMITTED transactions that have read, not written
          working,       \* the days that are working days
          opened         \* history: days that have become working ones

vars == <<assignments, governed, cards, pending, working, opened>>

Days == 1..MaxDay
Rows(table) == 1..Len(table)
NoCard == 0
Capacity == 100
HoursPerDay == 8

Covers(a, d) == assignments[a].start <= d /\ d <= assignments[a].end
ActiveOf(e) ==
  {a \in Rows(assignments) : assignments[a].employee = e /\ assignments[a].status = "Active"}

Written == Len(cards) + MapThenSumSet(LAMBDA a : assignments[a].version, Rows(assignments))
Room == Written < MaxWrites

-----------------------------------------------------------------------------
(* Capacity.                                                               *)

\* What an employee's other assignments take of a day.
TotalOn(e, d, except) ==
  MapThenSumSet(LAMBDA a : assignments[a].pct, {a \in ActiveOf(e) \ except : Covers(a, d)})

\* Mutant: the day the assignment begins on.
FitsTheFirstDay(e, start, end, pct, except) ==
  start \in working => TotalOn(e, start, except) + pct <= Capacity

\* capacityTotalsFor and validateCapacity: every working day of the span.
FitsCapacity(e, start, end, pct, except) ==
  \A d \in (start..end) \cap working : TotalOn(e, d, except) + pct <= Capacity

\* sweepOvercommitted: the days an employee is overcommitted on, and whether an
\* override is recorded on an assignment of one of them.
OverDays(e) == {d \in working : TotalOn(e, d, {}) > Capacity}
HasRecordedOverride(e, d) == \E a \in ActiveOf(e) : Covers(a, d) /\ assignments[a].reason

-----------------------------------------------------------------------------
(* Rates.                                                                  *)

\* resolveAssignmentRate: override, then the card's line, then the default.
ResolveAssignmentRate(override, line) ==
  IF override # NoRate THEN override
  ELSE IF line # NoRate THEN line ELSE DefaultDaily \div HoursPerDay

LineOf(card) == IF card = NoCard THEN NoRate ELSE cards[card].line

\* A line the caller may not read counts as no line at all.
LineSeenBy(caller, card) == IF caller \in CardReaders THEN LineOf(card) ELSE NoRate

ResolvedRate(caller, card, override) == ResolveAssignmentRate(override, LineSeenBy(caller, card))

\* The edge to a card may be written by those who may change cards.
MayGovern(caller, card) == card = NoCard \/ caller \in CardReaders

OpenEdges(a) == {g \in Rows(governed) : governed[g].from = a /\ governed[g].open}

NewEdge(a, card) == IF card = NoCard THEN <<>> ELSE <<[from |-> a, to |-> card, open |-> TRUE]>>

-----------------------------------------------------------------------------
(* Assignments.                                                            *)

NewAssignment(e, start, end, pct, card, rate, reason) ==
  [employee |-> e, status |-> "Active", start |-> start, end |-> end, pct |-> pct,
   card |-> card, override |-> NoRate, rate |-> rate, reason |-> reason, version |-> 1]

\* buildAssignmentCreatePlan, for the ordinary and for the overriding create.
Build(caller, e, start, end, pct, card, reason) ==
  /\ Room /\ Len(assignments) < MaxAssignments
  /\ start <= end
  /\ MayGovern(caller, card)
  /\ assignments' = Append(assignments, NewAssignment(e, start, end, pct, card,
                                          ResolvedRate(caller, card, NoRate), reason))
  /\ governed' = governed \o NewEdge(Len(assignments) + 1, card)
  /\ UNCHANGED <<cards, pending, working, opened>>

AssignmentCreate(caller, e, start, end, pct, card) ==
  /\ FitsCapacity(e, start, end, pct, {})
  /\ Build(caller, e, start, end, pct, card, FALSE)

OverrideAndProceed(caller, e, start, end, pct, card) ==
  /\ caller \in Overriders
  /\ Build(caller, e, start, end, pct, card, TRUE)

AssignmentUpdate(a, start, end, pct) ==
  /\ Room /\ start <= end
  /\ assignments[a].status = "Active"
  /\ FitsCapacity(assignments[a].employee, start, end, pct, {a})
  /\ assignments' = [assignments EXCEPT ![a].start = start, ![a].end = end,
                                        ![a].pct = pct, ![a].version = @ + 1]
  /\ UNCHANGED <<governed, cards, pending, working, opened>>

AssignmentCancel(a, expectedVersion) ==
  /\ Room
  /\ expectedVersion = assignments[a].version
  /\ assignments[a].status = "Active"
  /\ assignments' = [assignments EXCEPT ![a].status = "Canceled", ![a].version = @ + 1]
  /\ UNCHANGED <<governed, cards, pending, working, opened>>

\* The first open edge is closed before the new one is opened.
AssignmentSetRateCard(caller, a, card) ==
  /\ Room /\ caller \in CardReaders
  /\ assignments[a].status = "Active" /\ assignments[a].card # card
  /\ assignments' = [assignments EXCEPT ![a].card = card, ![a].version = @ + 1,
                       ![a].rate = ResolvedRate(caller, card, assignments[a].override)]
  /\ LET prior == OpenEdges(a)
         first == CHOOSE g \in prior : \A h \in prior : g <= h
         closed == IF prior = {} THEN governed ELSE [governed EXCEPT ![first].open = FALSE]
     IN governed' = closed \o NewEdge(a, card)
  /\ UNCHANGED <<cards, pending, working, opened>>

Begin(request) ==
  /\ Cardinality(pending) < MaxPending
  /\ pending' = pending \cup {request}
  /\ UNCHANGED <<assignments, governed, cards, working, opened>>

\* Both read the assignment; the rate is resolved from what was read.
SetRateOverrideRead(a, hourly) ==
  /\ assignments[a].status = "Active"
  /\ Begin([op |-> "set", assignment |-> a, override |-> hourly, rate |-> hourly])

ClearRateOverrideRead(caller, a) ==
  /\ assignments[a].status = "Active" /\ assignments[a].override # NoRate
  /\ Begin([op |-> "clear", assignment |-> a, override |-> NoRate,
            rate |-> ResolvedRate(caller, assignments[a].card, NoRate)])

\* The row is locked and patched, whatever version it has by then.
RateOverrideWrite(r) ==
  /\ Room
  /\ assignments' = [assignments EXCEPT ![r.assignment].override = r.override,
                                        ![r.assignment].rate = r.rate,
                                        ![r.assignment].version = @ + 1]
  /\ pending' = pending \ {r}
  /\ UNCHANGED <<governed, cards, working, opened>>

-----------------------------------------------------------------------------
(* Rate cards.                                                             *)

NewCard(line, version, prior) ==
  [active |-> TRUE, row |-> 1, version |-> version, supersedes |-> prior, line |-> line]

\* Mutant: the prior version stays active.
SupersededInName(c) == [cards EXCEPT ![c].row = @ + 1]

Superseded(c) == [cards EXCEPT ![c].active = FALSE, ![c].row = @ + 1]

RateCardCreate(line) ==
  /\ Room /\ Len(cards) < MaxCards
  /\ cards' = Append(cards, NewCard(line, 1, NoCard))
  /\ UNCHANGED <<assignments, governed, pending, working, opened>>

RateCardUpdate(c, expectedVersion, line) ==
  /\ Room /\ Len(cards) < MaxCards
  /\ expectedVersion = cards[c].row
  /\ cards[c].active
  /\ cards' = Append(Superseded(c), NewCard(line, cards[c].version + 1, c))
  /\ UNCHANGED <<assignments, governed, pending, working, opened>>

-----------------------------------------------------------------------------
\* A calendar, a holiday or a pattern changes which days are worked.
CalendarChanges(d) ==
  /\ opened = {}   \* bound: one day that becomes a working one
  /\ working' = IF d \in working THEN working \ {d} ELSE working \cup {d}
  /\ opened' = opened \cup (working' \ working)
  /\ UNCHANGED <<assignments, governed, cards, pending>>

Init ==
  /\ assignments = <<>> /\ governed = <<>> /\ cards = <<>>
  /\ pending = {}
  /\ working \in {Days, Days \ {1}}
  /\ opened = {}

CardChoices == {NoCard} \cup Rows(cards)

Next ==
  \/ \E d \in Days : CalendarChanges(d)
  \/ \E line \in Lines :
       \/ RateCardCreate(line)
       \/ \E c \in Rows(cards), v \in 1..2 : RateCardUpdate(c, v, line)
  \/ \E caller \in Callers, e \in Employees, start, end \in Days, pct \in Percents,
        card \in CardChoices :
       \/ AssignmentCreate(caller, e, start, end, pct, card)
       \/ OverrideAndProceed(caller, e, start, end, pct, card)
  \/ \E a \in Rows(assignments) :
       \/ \E start, end \in Days, pct \in Percents : AssignmentUpdate(a, start, end, pct)
       \/ \E v \in 1..MaxWrites : AssignmentCancel(a, v)
       \/ \E caller \in Callers :
            \/ \E card \in Rows(cards) : AssignmentSetRateCard(caller, a, card)
            \/ ClearRateOverrideRead(caller, a)
       \/ \E hourly \in Overrides : SetRateOverrideRead(a, hourly)
  \/ \E r \in pending : RateOverrideWrite(r)

Spec == Init /\ [][Next]_vars

-----------------------------------------------------------------------------
(* What the device shows: the effect of each mutator on the cached rows,   *)
(* here on rows the device has in step with the server.                    *)

\* No capacity check and no governed_by edge, and the default as it stands.
DeviceAssignment(e, start, end, pct, card, reason) ==
  [employee |-> e, start |-> start, end |-> end, pct |-> pct, card |-> card,
   status |-> "Active", override |-> NoRate, rate |-> DefaultDaily, reason |-> reason,
   version |-> 1]

DeviceUpdate(a, start, end, pct) ==
  /\ start <= end
  /\ assignments' = [assignments EXCEPT ![a].start = start, ![a].end = end,
                                        ![a].pct = pct, ![a].version = @ + 1]

\* Mutant: the row keeps its version.
DeviceCancelKept(a, expectedVersion) ==
  /\ assignments[a].version = expectedVersion
  /\ assignments' = [assignments EXCEPT ![a].status = "Canceled"]

DeviceCancel(a, expectedVersion) ==
  /\ assignments[a].version = expectedVersion
  /\ assignments' = [assignments EXCEPT ![a].status = "Canceled", ![a].version = @ + 1]

DeviceSetRateCard(a, card) ==
  [assignments EXCEPT ![a].card = card, ![a].version = @ + 1]

DeviceSetRateOverride(a, hourly) ==
  assignments' = [assignments EXCEPT ![a].override = hourly, ![a].rate = hourly,
                                     ![a].version = @ + 1]

\* With a card the shown rate stays the override's: the line is protected.
DeviceClearRateOverride(a) ==
  assignments' = [assignments EXCEPT ![a].override = NoRate, ![a].version = @ + 1,
                                     ![a].rate = IF assignments[a].card = NoCard
                                                 THEN DefaultDaily \div HoursPerDay ELSE @]

-----------------------------------------------------------------------------
(* Properties.                                                             *)

\* A day on which an employee is overcommitted carries a recorded override,
\* unless a calendar change made it a working day after the assignments were
\* accepted: create, update and the override interleave in any order, and the
\* check looks at one assignment at a time (capacityTotalsFor).
OvercommitIsExplained ==
  \A e \in Employees : \A d \in OverDays(e) : d \in opened \/ HasRecordedOverride(e, d)

\* The edges and the cards agree with the assignments: each assignment has
\* exactly the open governed_by edge its rate_card_id names, which is what the
\* usage count of a card is made from, and of the versions of a card only the
\* latest is active.
CardsInForce ==
  /\ \A a \in Rows(assignments) :
       {governed[g].to : g \in OpenEdges(a)} = {assignments[a].card} \ {NoCard}
       /\ Cardinality(OpenEdges(a)) <= 1
  /\ \A c \in Rows(cards) :
       cards[c].active <=> \A later \in Rows(cards) : cards[later].supersedes # c
  /\ \A c, other \in Rows(cards) :
       cards[c].supersedes = cards[other].supersedes => c = other \/ cards[c].supersedes = NoCard

\* "What shows here is what replication later delivers": the device shows the
\* assignment the server writes.  Of the rate this is so for an override, and
\* for clearing one where there is no card; a create and a new card are shown
\* with a rate the server's answer corrects (VRS-F006 G09).
WithoutRate(rows) == [a \in DOMAIN rows |-> [rows[a] EXCEPT !.rate = NoRate]]

\* The row a device wrote for the arguments of the row the server writes.
ShownFor(row) ==
  DeviceAssignment(row.employee, row.start, row.end, row.pct, row.card, row.reason)

ShownAsDelivered ==
  [][assignments' # assignments =>
       /\ Len(assignments') > Len(assignments) =>
            LET row == assignments'[Len(assignments')]
            IN WithoutRate(assignments') = WithoutRate(Append(assignments, ShownFor(row)))
       /\ \A a \in Rows(assignments) :
            /\ \A start, end \in Days, pct \in Percents :
                 AssignmentUpdate(a, start, end, pct) => DeviceUpdate(a, start, end, pct)
            /\ LET v == assignments[a].version IN AssignmentCancel(a, v) => DeviceCancel(a, v)
            /\ \A caller \in Callers, card \in Rows(cards) :
                 AssignmentSetRateCard(caller, a, card) =>
                   WithoutRate(assignments') = WithoutRate(DeviceSetRateCard(a, card))
       /\ \A r \in pending :
            RateOverrideWrite(r) =>
              \/ r.op = "set" /\ DeviceSetRateOverride(r.assignment, r.override)
              \/ r.op = "clear" /\ (assignments[r.assignment].card = NoCard
                                      => DeviceClearRateOverride(r.assignment))]_vars

=============================================================================
