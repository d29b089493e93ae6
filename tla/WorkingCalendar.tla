--------------------------- MODULE WorkingCalendar ---------------------------
(***************************************************************************)
(* The working calendar of an entity, its holidays, and the working        *)
(* patterns of its employees: what the server stores, the answer it gives  *)
(* to "how many hours does this person work on that day", and what the     *)
(* device shows while a change is on its way to the server.                *)
(*                                                                         *)
(* A calendar is never edited: calendar.update writes a new version that   *)
(* supersedes the one in force, and a day is resolved with the version     *)
(* that was in force at its end.  Holidays belong to a version.            *)
(*                                                                         *)
(* calendar.update, pattern.set and pattern.clear run SERIALIZABLE, so     *)
(* each is one action.  holiday.add, holiday.confirm and holiday.cancel    *)
(* run READ COMMITTED: they read the calendar in one step and write the    *)
(* holiday in a later one, and another transaction may commit in between.  *)
(***************************************************************************)
EXTENDS Integers, SequencesExt

CONSTANTS Entities,       \* companies of one workspace
          Employees,
          EntityOf,       \* the entity each employee is scoped to
          LocationOf,     \* where each employee works, or Nowhere
          Nowhere,
          Everywhere,     \* applies_to_locations = null
          HolidayKinds,   \* which holidays are added: [where, half] records
          WeekLength,     \* days of a week (seven in the code)
          Weeks,          \* working weeks a calendar may be given
          PatternWeeks,   \* partial working weeks a pattern may be given
          ReducedDays,    \* reduced-hours periods a calendar may be given
          StartDays,      \* week_start_day of a new version
          HolidayDates,   \* days given for holidays
          PatternDates,   \* and for patterns
          DailyHours,     \* standard_daily_hours
          MaxDay,         \* bound on the days that exist
          MaxRows,        \* bounds on the rows that are ever written
          MaxHolidays,
          MaxVersion,     \* bound on the changes to one holiday
          MaxPending      \* bound on READ COMMITTED transactions in flight

VARIABLES calendars,  \* WorkingCalendar rows, in the order they were written
          holidays,   \* Holiday rows
          patterns,   \* WorkingPattern rows
          now,        \* today
          pending     \* READ COMMITTED transactions that have read, not written

vars == <<calendars, holidays, patterns, now, pending>>

Days == 1..MaxDay
Forever == MaxDay + 1   \* effective_to = null

Rows(table) == 1..Len(table)
RoomFor(n) == Len(calendars) + Len(holidays) + Len(patterns) + n <= MaxRows
Weekday(d) == (d % WeekLength) + 1

-----------------------------------------------------------------------------
(* Which rows are in force.                                                *)

ActiveCalendars(e) ==
  {c \in Rows(calendars) : calendars[c].entity = e /\ calendars[c].status = "Active"}

\* From each version, along the supersedes edges, the first that had been created by
\* the end of the day.
VersionBy(d) ==
  LET walk[c \in 0..Len(calendars)] ==
        IF c = 0 THEN 0
        ELSE IF calendars[c].created <= d THEN c
        ELSE walk[calendars[c].supersedes]
  IN walk

\* The version in force on a day is found from the active one.
CalendarOn(e, d) ==
  IF ActiveCalendars(e) = {} THEN 0 ELSE VersionBy(d)[CHOOSE c \in ActiveCalendars(e) : TRUE]

HolidaysOf(c) ==
  {h \in Rows(holidays) : holidays[h].calendar = c /\ holidays[h].status = "Active"}

\* Of the patterns that cover the day, the one that began last; 0 for none.
PatternOn(e, d) ==
  LET covering == {p \in Rows(patterns) :
                     /\ patterns[p].employee = e
                     /\ patterns[p].from <= d /\ d < patterns[p].to}
      latest == {p \in covering :
                   \A q \in covering : \/ patterns[q].from < patterns[p].from
                                       \/ patterns[q].from = patterns[p].from /\ p <= q}
  IN IF covering = {} THEN 0 ELSE CHOOSE p \in latest : TRUE

CurrentPatterns(e) ==
  {p \in Rows(patterns) : patterns[p].employee = e /\ patterns[p].status = "Active"}

-----------------------------------------------------------------------------
(* The working day of an employee.                                         *)

\* The resolution order: a holiday that reaches the employee's location, then
\* the pattern's entry for the weekday, then the calendar's; a reduced-hours
\* period halves what is left.
ResolveWorkingDay(calendar, week, hols, d, location) ==
  LET reaching == {h \in hols : /\ holidays[h].date = d
                                /\ \/ holidays[h].where = Everywhere
                                   \/ location # Nowhere /\ location \in holidays[h].where}
      first == CHOOSE h \in reaching : \A g \in reaching : h <= g
      usual == IF Weekday(d) \in DOMAIN week THEN week[Weekday(d)]
                                             ELSE calendar.week[Weekday(d)]
      hours == IF reaching = {} THEN usual
               ELSE IF holidays[first].half THEN DailyHours \div 2 ELSE 0
  IN IF d \in calendar.reduced THEN hours \div 2 ELSE hours

\* -1 stands for the refusal "not-found": no calendar was in force yet.
HoursOn(e, d) ==
  LET c == CalendarOn(EntityOf[e], d)
      p == PatternOn(e, d)
  IN IF c = 0 THEN -1
     ELSE ResolveWorkingDay(calendars[c],
                            IF p = 0 THEN <<>> ELSE patterns[p].week,
                            HolidaysOf(c), d, LocationOf[e])

IsWorking(e, d) == HoursOn(e, d) > 0

\* The same resolution for a project: the entity's calendar alone.
EntityHoursOn(entity, d) ==
  LET c == CalendarOn(entity, d)
  IN IF c = 0 THEN -1
     ELSE ResolveWorkingDay(calendars[c], <<>>, HolidaysOf(c), d, Nowhere)

CountWorkingHours(e, from, to) ==
  LET sum[d \in (from - 1)..to] == IF d < from THEN 0 ELSE sum[d - 1] + HoursOn(e, d)
  IN sum[to]

\* The n-th working day after a day, counted as the code counts: day by day,
\* decrementing on each working one.  Forever stands for "no-working-day".
NextWorkingDay(e, from, n) ==
  LET remaining[d \in from..MaxDay] ==
        IF d = from THEN n
        ELSE IF remaining[d - 1] > 0 /\ IsWorking(e, d) THEN remaining[d - 1] - 1
        ELSE remaining[d - 1]
      reached == {d \in from..MaxDay : remaining[d] = 0}
  IN IF reached = {} THEN Forever ELSE Min(reached)

AddWorkingDays(e, from, n) == IF n = 0 THEN from ELSE NextWorkingDay(e, from, n)

\* Mutant: a week that begins later in the week than the day is not wrapped around.
WeekStartUnwrapped(d, startDay) == d - (Weekday(d) - startDay)

\* The first day of the week a day belongs to, by the calendar of that day.
WeekStart(d, startDay) == d - ((Weekday(d) - startDay + WeekLength) % WeekLength)

WeekStartFor(e, d) ==
  LET c == CalendarOn(EntityOf[e], d) IN IF c = 0 THEN 0 ELSE WeekStart(d, calendars[c].start)

ExpectedWeek(e, start) ==
  LET sum[d \in (start - 1)..(start + WeekLength - 1)] ==
        IF d < start THEN 0
        ELSE sum[d - 1] + (IF d \in Days /\ IsWorking(e, d) THEN HoursOn(e, d) ELSE 0)
  IN sum[start + WeekLength - 1]

-----------------------------------------------------------------------------
(* Calendars.                                                              *)

NewCalendar(entity, week, start, reduced, prior) ==
  [entity |-> entity, status |-> "Active", version |-> 1, created |-> now,
   week |-> week, start |-> start, reduced |-> reduced, supersedes |-> prior]

\* entity.create and the founding of a workspace write an entity's first
\* calendar in their own transaction, once, from the jurisdiction's template.
InitialWorkingWeekFor(entity) == CHOOSE w \in Weeks : TRUE

CreateInitialCalendar(entity) ==
  /\ \A c \in Rows(calendars) : calendars[c].entity # entity
  /\ calendars' = Append(calendars,
                         NewCalendar(entity, InitialWorkingWeekFor(entity), 1, {}, 0))
  /\ UNCHANGED <<holidays, patterns, now, pending>>

\* The active holidays of the prior version, rewritten for the new one, in the order of
\* their ids.
CarriedHolidays(prior, next) ==
  LET ids == SetToSeq(HolidaysOf(prior))
  IN [i \in Rows(ids) |-> [holidays[ids[i]] EXCEPT !.calendar = next, !.version = 1]]

\* calendar.update: the prior version is superseded, the new one written and
\* linked to it, and every active holiday copied.  "reduced" is the array given,
\* or the prior's when the argument is left out.
CalendarUpdate(c, expectedVersion, week, start, reduced) ==
  /\ RoomFor(1 + Cardinality(HolidaysOf(c)))
  /\ Len(holidays) + Cardinality(HolidaysOf(c)) <= MaxHolidays
  /\ expectedVersion = calendars[c].version
  /\ calendars[c].status = "Active"
  /\ calendars' = Append([calendars EXCEPT ![c].status = "Superseded", ![c].version = @ + 1],
                         NewCalendar(calendars[c].entity, week, start, reduced, c))
  /\ holidays' = holidays \o CarriedHolidays(c, Len(calendars) + 1)
  /\ UNCHANGED <<patterns, now, pending>>

-----------------------------------------------------------------------------
(* Holidays.  Each operation reads, then writes.                           *)

Begin(request) ==
  /\ Cardinality(pending) < MaxPending
  /\ pending' = pending \cup {request}
  /\ UNCHANGED <<calendars, holidays, patterns, now>>

HolidayAddRead(c, date, kind) ==
  /\ calendars[c].status = "Active"
  /\ Begin([op |-> "add", calendar |-> c, date |-> date, kind |-> kind])

HolidayAddWrite(r) ==
  /\ r.op = "add" /\ RoomFor(1) /\ Len(holidays) < MaxHolidays
  /\ holidays' = Append(holidays, [calendar |-> r.calendar, status |-> "Active",
                                   version |-> 1, date |-> r.date, where |-> r.kind.where,
                                   half |-> r.kind.half, confirmed |-> FALSE])
  /\ pending' = pending \ {r}
  /\ UNCHANGED <<calendars, patterns, now>>

\* The calendar is found through the holiday_in edge and must be active.
HolidayConfirmRead(h, date) ==
  /\ holidays[h].version < MaxVersion
  /\ calendars[holidays[h].calendar].status = "Active"
  /\ Begin([op |-> "confirm", holiday |-> h, date |-> date])

\* The write compares no version: it patches whatever the row has become.
HolidayConfirmWrite(r) ==
  /\ r.op = "confirm"
  /\ holidays' = [holidays EXCEPT ![r.holiday].date = r.date,
                                  ![r.holiday].confirmed = TRUE,
                                  ![r.holiday].version = @ + 1]
  /\ pending' = pending \ {r}
  /\ UNCHANGED <<calendars, patterns, now>>

HolidayCancelRead(h, expectedVersion) ==
  /\ expectedVersion = holidays[h].version
  /\ calendars[holidays[h].calendar].status = "Active"
  /\ Begin([op |-> "cancel", holiday |-> h, version |-> expectedVersion])

HolidayCancelWrite(r) ==
  /\ r.op = "cancel"
  /\ holidays' = IF holidays[r.holiday].version # r.version THEN holidays \* stale-state
                 ELSE [holidays EXCEPT ![r.holiday].status = "Canceled",
                                       ![r.holiday].version = @ + 1]
  /\ pending' = pending \ {r}
  /\ UNCHANGED <<calendars, patterns, now>>

-----------------------------------------------------------------------------
(* Working patterns.                                                       *)

NoVersion == 0   \* expected_version left out

\* Mutant: the pattern ends a day early.
ClosedTheDayBefore(p, from) ==
  [patterns EXCEPT ![p].status = "Superseded", ![p].to = from - 1, ![p].version = @ + 1]

ClosedPattern(p, from) ==
  [patterns EXCEPT ![p].status = "Superseded", ![p].to = from, ![p].version = @ + 1]

NewPattern(e, week, from) ==
  [employee |-> e, status |-> "Active", version |-> 1,
   week |-> week, from |-> from, to |-> Forever]

PatternSet(e, week, from, expectedVersion) ==
  /\ RoomFor(1)
  /\ \/ /\ CurrentPatterns(e) = {} /\ expectedVersion = NoVersion
        /\ patterns' = Append(patterns, NewPattern(e, week, from))
     \/ \E p \in CurrentPatterns(e) :
          /\ expectedVersion = patterns[p].version
          /\ from >= patterns[p].from
          /\ patterns' = Append(ClosedPattern(p, from), NewPattern(e, week, from))
  /\ UNCHANGED <<calendars, holidays, now, pending>>

PatternClear(e, from, expectedVersion) ==
  /\ \E p \in CurrentPatterns(e) :
       /\ expectedVersion = patterns[p].version
       /\ from >= patterns[p].from
       /\ patterns' = ClosedPattern(p, from)
  /\ UNCHANGED <<calendars, holidays, now, pending>>

-----------------------------------------------------------------------------
Tick ==
  /\ now < MaxDay
  /\ now' = now + 1
  /\ UNCHANGED <<calendars, holidays, patterns, pending>>

Init ==
  /\ calendars = <<>> /\ holidays = <<>> /\ patterns = <<>>
  /\ now = 1
  /\ pending = {}

Next ==
  \/ Tick
  \/ \E entity \in Entities : CreateInitialCalendar(entity)
  \/ \E c \in Rows(calendars) :
       \/ \E v \in 1..2, week \in Weeks, start \in StartDays, reduced \in ReducedDays :
            CalendarUpdate(c, v, week, start, reduced)
       \/ \E d \in HolidayDates, kind \in HolidayKinds : HolidayAddRead(c, d, kind)
  \/ \E h \in Rows(holidays) :
       \/ \E d \in HolidayDates : HolidayConfirmRead(h, d)
       \/ \E v \in 1..MaxVersion : HolidayCancelRead(h, v)
  \/ \E r \in pending : HolidayAddWrite(r) \/ HolidayConfirmWrite(r) \/ HolidayCancelWrite(r)
  \/ \E e \in Employees, from \in PatternDates, v \in 0..2 :
       \/ \E week \in PatternWeeks : PatternSet(e, week, from, v)
       \/ PatternClear(e, from, v)

Spec == Init /\ [][Next]_vars

-----------------------------------------------------------------------------
(* What the device shows.  Each effect is the one its mutator applies to   *)
(* the cached rows, here on rows the device has in step with the server.   *)

DeviceCalendarUpdate(c, expectedVersion, week, start, reduced) ==
  LET copied == SetToSeq({h \in Rows(holidays) :
                            holidays[h].calendar = c /\ holidays[h].status = "Active"})
      next == Len(calendars) + 1
  IN /\ expectedVersion = calendars[c].version /\ calendars[c].status = "Active"
     /\ calendars' = [calendars EXCEPT ![c].status = "Superseded", ![c].version = @ + 1]
          \o <<[calendars[c] EXCEPT !.week = week, !.start = start, !.reduced = reduced,
                                    !.status = "Active", !.created = now, !.version = 1,
                                    !.supersedes = c]>>
     /\ holidays' = holidays \o [i \in Rows(copied) |->
          [holidays[copied[i]] EXCEPT !.calendar = next, !.status = "Active", !.version = 1]]

DeviceHolidayAdd(c, date, kind) ==
  /\ calendars[c].status = "Active"
  /\ holidays' = holidays \o <<[calendar |-> c, status |-> "Active", version |-> 1,
                                date |-> date, where |-> kind.where,
                                half |-> kind.half, confirmed |-> FALSE]>>

\* Mutant: the row keeps its version.
DeviceHolidayConfirmKept(h, date) ==
  /\ calendars[holidays[h].calendar].status = "Active"
  /\ holidays' = [holidays EXCEPT ![h].date = date, ![h].confirmed = TRUE]

DeviceHolidayConfirm(h, date) ==
  /\ calendars[holidays[h].calendar].status = "Active"
  /\ holidays' = [holidays EXCEPT ![h].date = date, ![h].confirmed = TRUE, ![h].version = @ + 1]

DeviceHolidayCancel(h, expectedVersion) ==
  /\ expectedVersion = holidays[h].version
  /\ calendars[holidays[h].calendar].status = "Active"
  /\ holidays' = [holidays EXCEPT ![h].status = "Canceled", ![h].version = @ + 1]

DevicePatternSet(e, week, from, expectedVersion) ==
  LET current == {p \in Rows(patterns) :
                    patterns[p].employee = e /\ patterns[p].status = "Active"}
      closed == [p \in Rows(patterns) |->
                   IF p \notin current THEN patterns[p]
                   ELSE [patterns[p] EXCEPT !.status = "Superseded", !.to = from,
                                            !.version = @ + 1]]
  IN /\ IF current = {} THEN expectedVersion = NoVersion
        ELSE \A p \in current : expectedVersion = patterns[p].version /\ from >= patterns[p].from
     /\ patterns' = closed \o <<[employee |-> e, status |-> "Active", version |-> 1,
                                 week |-> week, from |-> from, to |-> Forever]>>

DevicePatternClear(e, from, expectedVersion) ==
  \E p \in Rows(patterns) :
    /\ patterns[p].employee = e /\ patterns[p].status = "Active"
    /\ expectedVersion = patterns[p].version /\ from >= patterns[p].from
    /\ patterns' = [patterns EXCEPT ![p].status = "Superseded", ![p].to = from,
                                    ![p].version = @ + 1]

-----------------------------------------------------------------------------
(* Properties.                                                             *)

\* The rows are well formed, and an entity never has two calendars in force
\* nor an employee two current patterns: what "the one version in force"
\* (resolveCalendarForEntity, currentPattern) relies on when it takes the
\* first active row it finds.
OneInForce ==
  /\ \A entity \in Entities : Cardinality(ActiveCalendars(entity)) <= 1
  /\ \A c \in Rows(calendars) : calendars[c].supersedes < c
  /\ \A e \in Employees : Cardinality(CurrentPatterns(e)) <= 1
  /\ \A p \in Rows(patterns) : patterns[p].from <= patterns[p].to

\* calendar.update and pattern.set/clear preserve history: the hours of a day
\* before the new version was written, or before the pattern's effective
\* date, are what they were.
HistoryIsKept ==
  [][\A e \in Employees :
       /\ calendars' # calendars =>
            \A d \in Days : d < now => HoursOn(e, d)' = HoursOn(e, d)
       /\ \A f \in Employees, from \in PatternDates, v \in 0..2, week \in PatternWeeks :
            PatternSet(f, week, from, v) \/ PatternClear(f, from, v) =>
              \A d \in 1..(from - 1) : HoursOn(e, d)' = HoursOn(e, d)]_vars

\* What is known of the calendar's holidays, whichever rows hold it.
KnownHolidays(entity) ==
  {[date |-> holidays[h].date, where |-> holidays[h].where, half |-> holidays[h].half,
    confirmed |-> holidays[h].confirmed] :
     h \in UNION {HolidaysOf(c) : c \in ActiveCalendars(entity)}}

\* calendar.update carries the active holidays, and only those, to the new
\* version: changing the working week neither loses a holiday nor brings a
\* canceled one back, and the holidays of the version it replaces stay frozen
\* as they are.
HolidaysAreCarried ==
  [][calendars' # calendars =>
       /\ \A entity \in Entities : KnownHolidays(entity)' = KnownHolidays(entity)
       /\ \A h \in Rows(holidays) : holidays'[h] = holidays[h]]_vars

\* Code that walks the days on its own agrees: nextWorkingDay answers a working day with
\* exactly n of them up to it, expected-week adds up what countWorkingDays does, the weeks
\* a calendar cuts the days into neither overlap nor leave a day out, and a project's day is
\* its people's where no pattern and no place makes them differ.
CountsAgree ==
  \A e \in Employees, from \in now..MaxDay :
    LET c == CalendarOn(EntityOf[e], from)
        upTo(d) == Cardinality({x \in (from + 1)..d : IsWorking(e, x)})
        start == WeekStartFor(e, from)
    IN c # 0 =>
       /\ \A n \in 1..2 :
            LET day == AddWorkingDays(e, from, n)
            IN IF day = Forever THEN upTo(MaxDay) < n
               ELSE IsWorking(e, day) /\ upTo(day) = n /\ upTo(day - 1) = n - 1
       /\ from + WeekLength <= Forever =>
            ExpectedWeek(e, from) = CountWorkingHours(e, from, from + WeekLength - 1)
       /\ start <= from
       /\ \A d \in from..MaxDay :
            CalendarOn(EntityOf[e], d) = c =>
              (WeekStartFor(e, d) = start <=> d < start + WeekLength)
       /\ PatternOn(e, from) = 0 /\ (\A h \in HolidaysOf(c) : holidays[h].where = Everywhere)
            => EntityHoursOn(EntityOf[e], from) = HoursOn(e, from)

\* The optimistic halves share the server's rules, "so what shows here is what
\* replication later delivers": whatever the server does with a mutation, the
\* device, on the same rows, has shown already.
ShownAsDelivered ==
  [][/\ \A c \in Rows(calendars), v \in 1..2, week \in Weeks, start \in StartDays,
           reduced \in ReducedDays :
         CalendarUpdate(c, v, week, start, reduced)
           => DeviceCalendarUpdate(c, v, week, start, reduced)
     /\ \A e \in Employees, from \in PatternDates, v \in 0..2 :
          /\ \A week \in PatternWeeks :
                PatternSet(e, week, from, v) => DevicePatternSet(e, week, from, v)
          /\ PatternClear(e, from, v) => DevicePatternClear(e, from, v)
     /\ \A r \in pending :
          /\ HolidayAddWrite(r) /\ calendars[r.calendar].status = "Active"
               => DeviceHolidayAdd(r.calendar, r.date, r.kind)
          /\ HolidayConfirmWrite(r) /\ calendars[holidays[r.holiday].calendar].status = "Active"
               => DeviceHolidayConfirm(r.holiday, r.date)
          /\ HolidayCancelWrite(r) /\ calendars[holidays[r.holiday].calendar].status = "Active"
               /\ holidays[r.holiday].version = r.version
               => DeviceHolidayCancel(r.holiday, r.version)]_vars

=============================================================================
