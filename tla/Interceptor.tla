---------------------------- MODULE Interceptor ----------------------------
(***************************************************************************)
(* Who may read and write what (services/api/src/permission): the policy   *)
(* table applied to a row of the graph.  A cell that holds only for some   *)
(* rows is judged from the row and from who is asking: the Employee the    *)
(* row concerns, the Employee the member is, and who manages whom.  Every  *)
(* decision reads these anew.                                              *)
(*                                                                         *)
(* A record is named by its type, and there is one of each; the Employees  *)
(* are apart.  Out of scope: support principals, other workspaces, and the *)
(* wording of an audit entry.                                              *)
(***************************************************************************)
EXTENDS PolicyTable, Naturals, Sequences, FiniteSets

CONSTANTS Users,          \* the people with a login
          Employees,      \* names of Employee nodes
          Records,        \* the other nodes, named by their type
          Judged,         \* those whose readers are compared
          EmployeeIdOf,   \* what the employee_id of a record says
          Drawable,       \* edges that may be drawn: <<type, from, to>>
          RoleSets,       \* sets of roles a member may be given, {} for none
          MaxLinking,     \* bound: links on their way at once
          MaxPast,        \* bound on the history: edges that are closed
          Nobody

VARIABLES held,           \* user -> stored roles
          linking,        \* <<Employee, login>>: links that were checked and are not written
          linked,         \* Employee -> its login, or Nobody
          found,          \* user -> the Employee that a lookup of the login finds, or Nobody
          edges,          \* the open edges
          past            \* the closed ones

peopleVars == <<linking, linked, found>>
interceptorVars == <<held, peopleVars, edges, past>>

Nodes == Employees \cup Records
TypeOf(n) == IF n \in Employees THEN "Employee" ELSE IF n \in Users THEN "User" ELSE n

Init ==
  /\ held = [u \in Users |-> {}]
  /\ linking = {}
  /\ linked = [e \in Employees |-> Nobody]
  /\ found = [u \in Users |-> Nobody]
  /\ edges = {}
  /\ past = {}

\* The membership of a person is granted, changed or removed.
SetRoles(u, given) ==
  /\ held[u] # given
  /\ held' = [held EXCEPT ![u] = given]
  /\ UNCHANGED <<peopleVars, edges, past>>

\* employee.linkUser looks whether the Employee has a login, and the login an Employee...
LinkUser(e, u) ==
  /\ linked[e] = Nobody
  /\ \A other \in Employees \ {e} : linked[other] # u
  /\ Cardinality(linking) < MaxLinking
  /\ linking' = linking \cup {<<e, u>>}
  /\ UNCHANGED <<held, linked, found, edges, past>>

\* ...and writes the row of the Employee, if it is as it was read.  No index keeps a login
\* from a second Employee, which a request that looked at the same time may give it.
ApplyLink(e, u) ==
  /\ <<e, u>> \in linking
  /\ linking' = linking \ {<<e, u>>}
  /\ IF linked[e] # Nobody THEN UNCHANGED <<linked, found>>
     ELSE /\ linked' = [linked EXCEPT ![e] = u]
          /\ found' = [found EXCEPT ![u] = IF @ = Nobody THEN e ELSE @]
  /\ UNCHANGED <<held, edges, past>>

\* A lookup takes one row and names no order: of two Employees it may come to find the other.
LookupMoves(u, e) ==
  /\ linked[e] = u /\ found[u] # e
  /\ found' = [found EXCEPT ![u] = e]
  /\ UNCHANGED <<held, linking, linked, edges, past>>

\* One open edge of a type leaves a node, and managers do not manage each other.
Draw(edge) ==
  /\ \A drawn \in edges : drawn[1] # edge[1] \/ drawn[2] # edge[2]
  /\ edge[1] = "managed_by" => <<"managed_by", edge[3], edge[2]>> \notin edges
  /\ edges' = edges \cup {edge}
  /\ UNCHANGED <<held, peopleVars, past>>

\* Its row stays, with an end: what names no time when it asks still sees it.
Close(edge) ==
  /\ edge \in edges
  /\ Cardinality(past \cup {edge}) <= MaxPast
  /\ edges' = edges \ {edge}
  /\ past' = past \cup {edge}
  /\ UNCHANGED <<held, peopleVars>>

Next ==
  \/ \E u \in Users, given \in RoleSets : SetRoles(u, given)
  \/ \E e \in Employees, u \in Users : LinkUser(e, u) \/ ApplyLink(e, u) \/ LookupMoves(u, e)
  \/ \E edge \in Drawable : Draw(edge) \/ Close(edge)

-----------------------------------------------------------------------------
(* Who is who *)

\* resolveEmployeeForUser
EmployeeOf(u) == found[u]

Outgoing(n, type) == {edge[3] : edge \in {d \in edges : d[1] = type /\ d[2] = n}}
Incoming(n, type) == {edge[2] : edge \in {d \in edges : d[1] = type /\ d[3] = n}}
TheOnly(some) == IF some = {} THEN Nobody ELSE CHOOSE n \in some : TRUE
ManagerOf(e) == TheOnly(Outgoing(e, "managed_by"))

\* Manager is derived: whoever an open managed_by edge points at is one.
IsManager(u) == EmployeeOf(u) # Nobody /\ Incoming(EmployeeOf(u), "managed_by") # {}
EffectiveRoles(u) == held[u] \cup (IF IsManager(u) THEN {"manager"} ELSE {})

\* The rows that name their Employee in a column.
NamesEmployee ==
  {"TimesheetEntry", "TimesheetWeekSubmission", "UtilizationSnapshot", "LeaveLedgerEntry"}

\* resolveStoredSubjectEmployeeId: the Employee a row is about, for its scope.
StoredSubject(n) ==
  IF n \in Employees THEN n
  ELSE IF n \in {"BurnoutAlert", "TimesheetAnomalyFlag"} THEN TheOnly(Outgoing(n, "triggered_by"))
  ELSE IF n \in NamesEmployee THEN EmployeeIdOf[n]
  ELSE Nobody

\* resolveSubjectEmployee: each hop takes the earliest edge, a closed one included.
FirstEver(n, type) ==
  LET before == {edge[3] : edge \in {d \in past : d[1] = type /\ d[2] = n}}
  IN  TheOnly(IF before # {} THEN before ELSE Outgoing(n, type))
ExcludedSubject(n) ==
  LET path == SubjectPath[TypeOf(n)]
      along[i \in 0..Len(path)] == IF i = 0 THEN n ELSE FirstEver(along[i - 1], path[i])
  IN  along[Len(path)]

\* rowScopeSatisfied, for a row about `subject`
ScopeHolds(scope, u, subject) ==
  LET me == EmployeeOf(u)
      known == me # Nobody /\ subject # Nobody
  IN  \/ scope = "any"
      \/ scope = "own" /\ known /\ me = subject
      \/ scope = "direct-reports" /\ known /\ ManagerOf(subject) = me
      \/ /\ scope = "own-plus-team" /\ known
         /\ me = subject \/ ManagerOf(subject) \in {ManagerOf(me)} \ {Nobody}

\* A notification is for whom its one delivered_to edge and its row name.
ForRecipient(u, n) ==
  n \in DOMAIN EmployeeIdOf /\ EmployeeIdOf[n] = u /\ Outgoing(n, "delivered_to") = {u}

-----------------------------------------------------------------------------
(* Reading *)

\* What the cell of a role grants for a row; for a read a wider scope may do.
Granted(cell, u, n, subject, asRead) ==
  LET Within(scope) == IF scope = "recipient" THEN ForRecipient(u, n)
                       ELSE ScopeHolds(scope, u, subject)
  IN  IF Within(cell.scope) THEN cell.outcome
      ELSE IF asRead /\ cell.outcome \in {"full", "read"} /\ Within(cell.readScope) THEN "read"
      ELSE "none"

\* bestCell
Highest(outcomes) == CHOOSE o \in outcomes : \A other \in outcomes : Rank[other] <= Rank[o]
Best(u, n, key, subject, asRead) ==
  Highest({Granted(PolicyCell(role, TypeOf(n), key), u, n, subject, asRead) :
             role \in EffectiveRoles(u)} \cup {"none"})

\* Mutant: the exclusion looks where a row scope looks.
IsSubject(u, n) ==
  HasExclusion(TypeOf(n)) /\ EmployeeOf(u) # Nobody /\ EmployeeOf(u) = StoredSubject(n)
IsExcluded(u, n) ==
  /\ HasExclusion(TypeOf(n))
  /\ EmployeeOf(u) # Nobody
  /\ EmployeeOf(u) = ExcludedSubject(n)

\* decideRead: the person a record concerns sees that it is there, and no more.
Disclosed(best, u, n) ==
  IF best \in {"full", "read"} /\ IsExcluded(u, n) THEN "restricted" ELSE best
Decision(u, n, key) == Disclosed(Best(u, n, key, StoredSubject(n), TRUE), u, n)
MayRead(u, n, key) == Decision(u, n, key) \in {"full", "read"}

-----------------------------------------------------------------------------
(* The readers of a protected record, found without asking for each of them *)

Unresolvable == [resolved |-> FALSE, users |-> {}]
Holders(role) == {u \in Users : role \in held[u]}
LoginOf(e) == IF e = Nobody THEN Nobody ELSE linked[e]

RolesThatRead(type, key) == {r \in Roles : PolicyCell(r, type, key).outcome \in {"full", "read"}}

\* What a role adds to the readers, when it can be told.
ReadersBy(role, type, key, subject) ==
  IF PolicyCell(role, type, key).scope = "own" THEN Holders(role) \cap {LoginOf(subject)}
  ELSE Holders(role)

CannotTell(role, type, key, subject) ==
  \/ role = "manager"
  \/ PolicyCell(role, type, key).scope \notin {"any", "own"}
  \/ /\ PolicyCell(role, type, key).scope = "own" /\ subject = Nobody
     /\ type = "Employee" \/ HasExclusion(type)

\* resolveReaderSet
ReaderSet(type, key, subject) ==
  LET granting == RolesThatRead(type, key)
      all == UNION {ReadersBy(role, type, key, subject) : role \in granting}
  IN  IF \/ \E role \in granting : CannotTell(role, type, key, subject)
         \/ HasExclusion(type) /\ (subject = Nobody \/ \E u \in all : EmployeeOf(u) = Nobody)
        THEN Unresolvable
      ELSE [resolved |-> TRUE,
            users |-> {u \in all : HasExclusion(type) => EmployeeOf(u) # subject}]

\* The subject a write of the record names, as setCompensation and the gate do.
SubjectOf(n) == IF HasExclusion(TypeOf(n)) THEN ExcludedSubject(n) ELSE StoredSubject(n)

-----------------------------------------------------------------------------
(* Writing *)

Reserved == {"AuditEntry", "Workspace", "WorkspaceMembership", "User"}
Protected(type, key) == TierOf(type, key) \in {1, 3} \/ HasExclusion(type)

\* authorizeWrite of a node: the role, the application, and somebody who can read it.
NodeWrite(u, n, key, subject, application, activated) ==
  LET type == TypeOf(n)
      readers == ReaderSet(type, key, subject)
  IN  /\ type \notin Reserved
      /\ Best(u, n, key, StoredSubject(n), FALSE) = "full"
      /\ HasWriteAuthority(application, type, activated)
      /\ Protected(type, key) => readers.resolved /\ readers.users # {}

\* Which half of an endpoint decides; a split endpoint has to be registered with one.
GoverningHalf(edge, type) ==
  IF ~IsSplit(type) THEN DOMAIN Partitions(type)
  ELSE {k \in DOMAIN Partitions(type) :
          type \in DOMAIN EdgeRegistry[edge].governing /\ EdgeRegistry[edge].governing[type] = k}

\* Where being read is permission enough (mutant: nowhere), as of the project an assignment is on.
ReadNeverSuffices(edge, type) == FALSE
ReadSuffices(edge, type) == type \in EdgeRegistry[edge].readable

\* Whoever an edge of the registered kind joins to the row may draw edges to it.
IsParticipant(u, n) ==
  /\ n \in DOMAIN ParticipantEdge
  /\ EmployeeOf(u) # Nobody
  /\ n \in Outgoing(EmployeeOf(u), ParticipantEdge[n])

Suffices(outcome, u, edge, n) ==
  \/ outcome = "full"
  \/ outcome = "read" /\ ReadSuffices(edge, TypeOf(n))
  \/ IsParticipant(u, n)
EndpointSuffices(u, edge, n) ==
  \E key \in GoverningHalf(edge, TypeOf(n)) :
    Suffices(Best(u, n, key, StoredSubject(n), FALSE), u, edge, n)

\* edgeRoleDecision
EdgeWrite(u, edge, from, to) ==
  /\ edge \notin {"membership_of", "membership_in"}
  /\ IsRegistered(edge, TypeOf(from), TypeOf(to))
  /\ EndpointSuffices(u, edge, from)
  /\ EndpointSuffices(u, edge, to)

-----------------------------------------------------------------------------
(* authorizeTraversal: along incoming or outgoing edges, breadth first, without maxResults *)

RowDecision(u, n) == Decision(u, n, RowPartition(TypeOf(n)))

\* Without a time, edges are followed whether they are open or closed.
Neighbours(n, types, outward) ==
  LET drawn == {edge \in edges \cup past : edge[1] \in types}
  IN  IF outward THEN {edge[3] : edge \in {d \in drawn : d[2] = n}}
      ELSE {edge[2] : edge \in {d \in drawn : d[3] = n}}

\* What is met is expanded when it may be read; a restricted neighbour is only shown.
IsShown(u, n) == RowDecision(u, n) # "none"
Expandable(u, n) == RowDecision(u, n) \in {"full", "read"}

\* A layer holds what was met, and which of it may be expanded.
FirstLayer(u, start) ==
  [visited |-> {start}, frontier |-> {n \in {start} : Expandable(u, n)}, hits |-> {}]
MetNext(layer, types, outward) ==
  (UNION {Neighbours(n, types, outward) : n \in layer.frontier}) \ layer.visited
NextLayer(u, layer, types, outward) ==
  LET met == MetNext(layer, types, outward)
  IN  [visited |-> layer.visited \cup met,
       frontier |-> {n \in met : Expandable(u, n)},
       hits |-> layer.hits \cup {n \in met : IsShown(u, n)}]

Layers(u, start, types, outward, maxDepth) ==
  LET layer[d \in 0..maxDepth] ==
        IF d = 0 THEN FirstLayer(u, start) ELSE NextLayer(u, layer[d - 1], types, outward)
  IN  layer
Walk(u, start, types, outward, maxDepth) == Layers(u, start, types, outward, maxDepth)[maxDepth].hits

-----------------------------------------------------------------------------
(* Properties *)

\* What is judged, in parts.
Parts(n) == DOMAIN Partitions(TypeOf(n))

\* Nothing but a look before the write keeps a login to one Employee.
OneRecord(u) == \A e, other \in Employees : linked[e] = u /\ linked[other] = u => e = other

\* The readers named for a protected record are the members a read of it is granted to,
\* one by one (resolveReaderSet and decideRead are two computations, from the Employee to
\* the login and from the login to the Employee): whoever is one Employee, and where a
\* record is kept from whom it concerns everyone.
ReadersAgree ==
  \A n \in Judged : \A key \in Parts(n) :
    LET readers == ReaderSet(TypeOf(n), key, SubjectOf(n)) IN
    readers.resolved =>
      /\ readers.users \subseteq Users
      /\ \A u \in Users :
           OneRecord(u) \/ HasExclusion(TypeOf(n)) => (u \in readers.users <=> MayRead(u, n, key))

\* Whom a record concerns, by the login of that Employee, does not read it.
ConcernedAreKeptOut ==
  \A n \in Judged : \A key \in Parts(n), u \in Users :
    /\ HasExclusion(TypeOf(n)) /\ OneRecord(u)
    /\ ExcludedSubject(n) \in Employees /\ LoginOf(ExcludedSubject(n)) = u
    => ~MayRead(u, n, key)

\* A protected record nobody could read is never written.
WrittenIsReadable ==
  \A n \in Judged : \A key \in Parts(n), u \in Users :
    (/\ Protected(TypeOf(n), key)
     /\ NodeWrite(u, n, key, SubjectOf(n), "Vulto Roster", {}))
    => \E reader \in Users : MayRead(reader, n, key)

\* What a role is said to have without a row at hand (resolvePermission), its holders
\* have for every row, but for a record that concerns them.
CeilingHolds ==
  \A n \in Judged : \A key \in Parts(n), u \in Users : \A role \in held[u] :
    \/ Rank[Ceiling(role, TypeOf(n), key)] <= Rank[Decision(u, n, key)]
    \/ IsExcluded(u, n)

GrantsAgree == ReadersAgree /\ ConcernedAreKeptOut /\ WrittenIsReadable /\ CeilingHolds

\* A walk meets what a path of readable nodes leads to, and nothing beyond a node
\* its caller may not read.
PathsLeadTo(u, start, n, types, outward, maxDepth) ==
  \E length \in 1..maxDepth : \E path \in [0..length -> Nodes] :
    /\ path[0] = start /\ path[length] = n
    /\ \A i \in 0..length - 1 :
         /\ RowDecision(u, path[i]) \in {"full", "read"}
         /\ path[i + 1] \in Neighbours(path[i], types, outward)
WalkIsExact(start, types, outward, maxDepth) ==
  \A u \in Users :
    Walk(u, start, types, outward, maxDepth) =
      {n \in Nodes \ {start} : /\ RowDecision(u, n) # "none"
                               /\ PathsLeadTo(u, start, n, types, outward, maxDepth)}

\* The edges that the mutations of an Owner or an HR Admin draw.
AdminEdges(e, manager) ==
  {<<"managed_by", e, manager>>, <<"scoped_to_entity", e, "Entity">>,
   <<"has_skill", e, "Skill">>, <<"staffed_on", e, "Pitch">>,
   <<"pattern_for", "WorkingPattern", e>>, <<"assignment_of", "Assignment", e>>,
   <<"assigned_to", "Assignment", "Project">>, <<"governed_by", "Assignment", "RateCard">>,
   <<"governed_by_calendar", "Entity", "WorkingCalendar">>,
   <<"holiday_in", "Holiday", "WorkingCalendar">>, <<"promoted_to", "GhostResource", e>>,
   <<"placeholder_for", "GhostResource", "OpenRole">>, <<"requires_skill", "Project", "Skill">>}
    \cup {<<"supersedes", type, type>> : type \in {"RateCard", "LeavePolicy", "WorkingCalendar"}}

AdminsAreNotStuck ==
  \A u \in Holders("owner") \cup Holders("hr_admin") :
    \A e, manager \in Employees : \A edge \in AdminEdges(e, manager) :
      EdgeWrite(u, edge[1], edge[2], edge[3])

\* Time may be logged by whom it is of: on any assignment, on a pitch if staffed on it.
OwnTimeIsLogged ==
  \A u \in Users :
    held[u] = {"team_member"} /\ ~IsManager(u) =>
      LET mine == EmployeeOf(u) # Nobody /\ EmployeeOf(u) = EmployeeIdOf["TimesheetEntry"] IN
      /\ EdgeWrite(u, "logged_against", "TimesheetEntry", "Assignment") <=> mine
      /\ EdgeWrite(u, "logged_against", "TimesheetEntry", "Pitch") <=> mine /\ IsParticipant(u, "Pitch")

\* A manager staffs whom they manage, and nobody else by being a manager.
ReportsAreStaffed ==
  \A u \in Users :
    held[u] = {"team_member"} /\ IsManager(u) =>
      \A e \in Employees :
        EdgeWrite(u, "staffed_on", e, "Pitch") <=> ManagerOf(e) = EmployeeOf(u)

\* What each job writes, its operation lets it write.
JobWrites ==
  {<<"anomaly_evaluate", "create-flag", "TimesheetAnomalyFlag", "triggered_by", "Employee">>,
   <<"gap_alert_evaluate", "gap-alert", "RevenueGapAlert", "triggered_by", "Employee">>,
   <<"skill_gap_evaluate", "skill-gap", "SkillGap", "gap_for", "Skill">>,
   <<"notification_deliver", "deliver", "Notification", "delivered_to", "User">>}
JobsAreNotStuck ==
  \A work \in JobWrites :
    /\ SystemMayTouch(work[1], work[2], work[3], RowPartition(work[3]))
    /\ SystemMayLink(work[1], work[2], work[4], work[3], work[5])
    /\ IsRegistered(work[4], work[3], work[5])

\* Whoever a mutation is for may write what it writes: no endpoint of an edge is
\* left without a half that governs it, and no one gains another's.
PlansAreWritable ==
  /\ AdminsAreNotStuck
  /\ OwnTimeIsLogged
  /\ ReportsAreStaffed
  /\ JobsAreNotStuck
  /\ \A edge \in DOMAIN EdgeRegistry : WellFormedGroup(edge)
=============================================================================
