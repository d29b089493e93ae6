------------------------------ MODULE Notices ------------------------------
(***************************************************************************)
(* Notifications (mutations/notification-delivery.ts, notification.ts,     *)
(* notification-reminder.ts).  A write scope gathers the rows its          *)
(* transactions wrote; when the outermost scope has ended, a transaction   *)
(* of its own delivers what the rules say about each row, to the manager   *)
(* of the person it is about or, a reminder, to that person.               *)
(*                                                                         *)
(* The transaction is READ COMMITTED: an advisory lock on recipient and    *)
(* key keeps two deliveries of the same notification apart, the locks of   *)
(* one delivery are held until it commits, and one that fails is lost.     *)
(*                                                                         *)
(* One employee, subject of every row.  Messages are left out.             *)
(***************************************************************************)
EXTENDS Naturals, FiniteSets

CONSTANTS
  Alerts,      \* RevenueGapAlerts: their severity is part of the key
  Flags,       \* TimesheetAnomalyFlags, notified once
  Reminders,   \* the reminders of a day for a week of the employee
  Self, Managers, Nobody,
  Workers,     \* the API's requests and jobs
  MaxSeverity, MaxScopes, MaxMoves, MaxFailures   \* bounds

VARIABLES
  severity,   \* of an alert that is Active; 0 otherwise
  manager,    \* the person the employee reports to at present
  linked,     \* people who have a login
  notices,    \* Notification nodes, each with its delivered_to edge
  job,        \* the delivery each worker is in
  ended, moves, failures,
  told        \* history: what the deliveries that committed had to say, and to whom

noticeVars == <<severity, manager, linked, notices, job, ended, moves, failures, told>>

-----------------------------------------------------------------------------
Sources == Alerts \cup Flags \cup Reminders
NoLock == [to |-> Nobody, key |-> <<>>]
Idle == [scope |-> 0, rows |-> {}, want |-> NoLock, held |-> {}, new |-> {}]
LockOf(n) == [to |-> n.to, key |-> n.key]

Init ==
  /\ severity = [a \in Alerts |-> 0]
  /\ manager \in Managers
  /\ linked = {Self, manager}
  /\ notices = {}
  /\ job = [w \in Workers |-> Idle]
  /\ ended = 0 /\ moves = 0 /\ failures = 0
  /\ told = {}

-----------------------------------------------------------------------------
(* Delivery *)

Begins(w, rows) ==
  /\ job[w] = Idle
  /\ ended < MaxScopes
  /\ ended' = ended + 1
  /\ job' = [job EXCEPT ![w] = [Idle EXCEPT !.scope = ended', !.rows = rows]]

\* The outermost scope has ended: the alerts it wrote are as it left them, and the
\* rows it wrote are delivered in whatever order the database returns them.
EndScope(w, rows) ==
  /\ Begins(w, rows)
  /\ severity' \in [Alerts -> 0..MaxSeverity]
  /\ \A a \in Alerts \ rows : severity'[a] = severity[a]
  /\ UNCHANGED <<manager, linked, notices, moves, failures, told>>

\* hrCompliance.sendReminder has committed; that the week was still to be submitted
\* when it was read is taken for granted.
SendReminder(w, rows) ==
  /\ Begins(w, rows)
  /\ UNCHANGED <<severity, manager, linked, notices, moves, failures, told>>

Applies(s) == s \in Alerts => severity[s] > 0
Recipient(s) == IF s \in Reminders THEN Self ELSE manager
DedupeKey(s) == IF s \in Alerts THEN <<s, severity[s]>> ELSE <<s>>

\* The row, the recipient and the key are read; then the lock is asked for.
Resolve(w, s) ==
  /\ job[w].want = NoLock
  /\ s \in job[w].rows
  /\ job' = [job EXCEPT
       ![w].rows = @ \ {s},
       ![w].want = IF Applies(s) /\ Recipient(s) \in linked
                     THEN [to |-> Recipient(s), key |-> DedupeKey(s)] ELSE NoLock]
  /\ UNCHANGED <<severity, manager, linked, notices, ended, moves, failures, told>>

\* Mutant: no lock; what another delivery has not committed is not seen.
Unlocked(w, l) == TRUE

\* pg_advisory_xact_lock.
Granted(w, l) == \A v \in Workers \ {w} : l \notin job[v].held

\* Mutants: a dismissed notification does not count; a former manager's does.
NotDismissed(l) == \E n \in notices : LockOf(n) = l /\ ~n.dismissed
ToAnyone(l) == \E n \in notices : n.key = l.key

Existing(l) == \E n \in notices : LockOf(n) = l

\* deliverNotification from the lock on.
Deliver(w) ==
  LET l == job[w].want IN
  /\ l # NoLock
  /\ Granted(w, l)
  /\ job' = [job EXCEPT ![w].want = NoLock, ![w].held = @ \cup {l},
                         ![w].new = IF Existing(l) THEN @ ELSE @ \cup {l}]
  /\ UNCHANGED <<severity, manager, linked, notices, ended, moves, failures, told>>

Commit(w) ==
  /\ job[w] # Idle
  /\ job[w].rows = {} /\ job[w].want = NoLock
  /\ notices' = notices \cup
       {[to |-> l.to, key |-> l.key, scope |-> job[w].scope, read |-> FALSE, dismissed |-> FALSE] :
          l \in job[w].new}
  /\ told' = told \cup job[w].held
  /\ job' = [job EXCEPT ![w] = Idle]
  /\ UNCHANGED <<severity, manager, linked, ended, moves, failures>>

\* v waits for a lock w holds.
WaitsFor(v, w) == job[v].want \in job[w].held \ job[v].held

\* The process stops, a statement fails, or the database breaks a circle of waits: the
\* transaction is undone, the failure is logged and nobody delivers these rows again.
Fail(w) ==
  /\ job[w] # Idle
  /\ \/ failures < MaxFailures /\ failures' = failures + 1
     \/ (\E v \in Workers : WaitsFor(v, w) /\ WaitsFor(w, v)) /\ UNCHANGED failures
  /\ job' = [job EXCEPT ![w] = Idle]
  /\ UNCHANGED <<severity, manager, linked, notices, ended, moves, told>>

-----------------------------------------------------------------------------
(* The recipient *)

\* Only the recipient reads a Notification, so only the recipient changes its state.
ReadState(n, dismiss) == [n EXCEPT !.read = TRUE, !.dismissed = @ \/ dismiss]

Patch(ns, dismiss) ==
  /\ notices' = (notices \ ns) \cup {ReadState(n, dismiss) : n \in ns}
  /\ UNCHANGED <<severity, manager, linked, job, ended, moves, failures, told>>

Open(n, dismiss) == n \in notices /\ ReadState(n, dismiss) # n /\ Patch({n}, dismiss)
MarkAllRead(u) ==
  LET Unread == {n \in notices : n.to = u /\ ~n.read} IN Unread # {} /\ Patch(Unread, FALSE)

\* The same on the device, over the notifications of the cache that are the user's.
\* Mutant: a dismissed notification stays unread.
DeviceDismissOnly(n, dismiss) == IF dismiss THEN [n EXCEPT !.dismissed = TRUE] ELSE [n EXCEPT !.read = TRUE]

DeviceReadState(n, dismiss) ==
  [n EXCEPT !.read = TRUE, !.dismissed = IF dismiss THEN TRUE ELSE @]
DeviceMarkAllRead(u) ==
  {IF n.to = u THEN DeviceReadState(n, FALSE) ELSE n : n \in notices}

\* org.moveEmployee and employee.linkUser.
Move ==
  /\ moves < MaxMoves
  /\ moves' = moves + 1
  /\ \/ manager' \in (Managers \cup {Nobody}) \ {manager} /\ UNCHANGED linked
     \/ (\E m \in Managers \ linked : linked' = linked \cup {m}) /\ UNCHANGED manager
  /\ UNCHANGED <<severity, notices, job, ended, failures, told>>

Next ==
  \/ \E w \in Workers :
       \/ (\E rows \in SUBSET (Alerts \cup Flags) \ {{}} : EndScope(w, rows))
       \/ (\E rows \in SUBSET Reminders \ {{}} : SendReminder(w, rows))
       \/ (\E s \in Sources : Resolve(w, s)) \/ Deliver(w) \/ Commit(w) \/ Fail(w)
  \/ \E n \in notices, dismiss \in BOOLEAN : Open(n, dismiss)
  \/ \E u \in {Self} \cup Managers : MarkAllRead(u)
  \/ Move

Spec == Init /\ [][Next]_noticeVars

-----------------------------------------------------------------------------
(* Properties *)

\* However the deliveries of two requests cross, and whatever the recipient has done with
\* it since, nobody is notified twice of the same thing (notification-delivery.ts:108).
NotifiedOnce == \A n, o \in notices : LockOf(n) = LockOf(o) => n.scope = o.scope

\* A delivery that did not fail has left its recipients a notification each, its own
\* or one they had: nobody goes without because another person was told before.
EachIsTold == \A l \in told : \E n \in notices : LockOf(n) = l

\* What the device shows of the call before the server has it is what the server makes of it.
ReadStatesAgree ==
  [][/\ \A n \in notices, dismiss \in BOOLEAN :
          Open(n, dismiss) => notices' = (notices \ {n}) \cup {DeviceReadState(n, dismiss)}
     /\ \A u \in {Self} \cup Managers : MarkAllRead(u) => notices' = DeviceMarkAllRead(u)]_noticeVars
=============================================================================
