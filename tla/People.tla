------------------------------- MODULE People -------------------------------
(***************************************************************************)
(* The employees of a workspace, the logins they are linked to, the        *)
(* entities they are scoped to, and the ghost resources that stand in for  *)
(* people who are not hired yet.                                           *)
(*                                                                         *)
(* entity.deactivate and ghostResource.promote run SERIALIZABLE: one       *)
(* action.  The others run READ COMMITTED.  Where such a mutation looks at *)
(* rows it does not write, it is a read and a later write; where it only   *)
(* compares the version of the row it writes, the comparison is made under *)
(* the row's lock and it is one action.                                    *)
(***************************************************************************)
EXTENDS Integers, Sequences, FiniteSetsExt

CONSTANTS Emails, Logins,
          Unset,            \* null
          MaxInstant,       \* instants are 1..MaxInstant
          MaxEmployees, MaxEntities, MaxGhosts, MaxWritten   \* bounds on what is ever written

VARIABLES employees,   \* Employee rows
          entities,    \* Entity rows
          scoped,      \* scoped_to_entity edges
          ghosts,      \* GhostResource rows
          promoted,    \* promoted_to edges
          roles,       \* placeholder_for edges
          reading,     \* READ COMMITTED mutations that have read, not written
          clock

vars == <<employees, entities, scoped, ghosts, promoted, roles, reading, clock>>

Instants == 1..MaxInstant
Rows(table) == 1..Len(table)
Open == MaxInstant + 1   \* effective_to = null

-----------------------------------------------------------------------------
(* Lookups.                                                                *)

ScopeEdges(e) == {k \in Rows(scoped) : scoped[k].employee = e}
OpenScopes(e) == {k \in ScopeEdges(e) : scoped[k].to = Open}

\* resolveEntityAssignment, as of an instant.
EntitiesAt(e, i) == {scoped[k].entity : k \in {k \in ScopeEdges(e) : scoped[k].from <= i /\ i < scoped[k].to}}

ActiveEmployeesOf(x) ==
  {e \in Rows(employees) : employees[e].status = "Active" /\ x \in EntitiesAt(e, clock)}
ActiveEntities == {x \in Rows(entities) : entities[x].status = "Active"}

\* requireUnique; the employee code is compared in the same way.
EmailIsFree(email, except) == \A e \in Rows(employees) \ except : employees[e].email # email
LoginIsFree(login, except) == \A e \in Rows(employees) \ except : employees[e].user # login

\* What has been written, and the room there is for more.
Versions(table) == MapThenSumSet(LAMBDA k : table[k].version, Rows(table))
Room ==
  Versions(employees) + Versions(entities) + Versions(ghosts) + Len(scoped) + Len(roles) < MaxWritten
Versioned == 1..2   \* the versions a caller may expect

Read(request) ==
  /\ Room /\ Cardinality(reading) < 2
  /\ reading' = reading \cup {request}
  /\ UNCHANGED <<employees, entities, scoped, ghosts, promoted, roles, clock>>
Written(request) == request \in reading /\ reading' = reading \ {request}

-----------------------------------------------------------------------------
(* Entities.                                                               *)

EntityCreate ==
  /\ Room /\ Len(entities) < MaxEntities
  /\ entities' = Append(entities, [status |-> "Active", version |-> 1])
  /\ UNCHANGED <<employees, scoped, ghosts, promoted, roles, reading, clock>>

\* entity.update compares no version.
EntityUpdate(x) ==
  /\ Room
  /\ entities' = [entities EXCEPT ![x].version = @ + 1]
  /\ UNCHANGED <<employees, scoped, ghosts, promoted, roles, reading, clock>>

MayDissolve(x) == ActiveEmployeesOf(x) = {} /\ Cardinality(ActiveEntities) > 1

EntityDeactivate(x, expectedVersion) ==
  /\ Room /\ expectedVersion = entities[x].version
  /\ x \in ActiveEntities /\ MayDissolve(x)
  /\ entities' = [entities EXCEPT ![x].status = "Dissolved", ![x].version = @ + 1]
  /\ UNCHANGED <<employees, scoped, ghosts, promoted, roles, reading, clock>>

-----------------------------------------------------------------------------
(* Employees.                                                              *)

NewEmployee(kind, email) ==
  [kind |-> kind, status |-> "Active", email |-> email, user |-> Unset, version |-> 1]

EmployeeCreateRead(email, x, from) ==
  /\ EmailIsFree(email, {})
  /\ Read([op |-> "create", email |-> email, entity |-> x, from |-> from])

\* The entity need not be active.
EmployeeCreateWrite(r) ==
  /\ Written(r) /\ r.op = "create" /\ Len(employees) < MaxEmployees
  /\ employees' = Append(employees, NewEmployee("Employee", r.email))
  /\ scoped' = Append(scoped, [employee |-> Len(employees) + 1, entity |-> r.entity,
                               from |-> r.from, to |-> Open])
  /\ UNCHANGED <<entities, ghosts, promoted, roles, clock>>

Bumped(e) == [employees EXCEPT ![e].version = @ + 1]

EmployeeUpdateRead(e, expectedVersion, email) ==
  /\ EmailIsFree(email, {e})
  /\ Read([op |-> "update", employee |-> e, version |-> expectedVersion, email |-> email])

\* A write that finds another version is refused: "stale-state".
Refused(r) == Written(r) /\ UNCHANGED <<employees, entities, scoped, ghosts, promoted, roles, clock>>

EmployeeUpdateWrite(r) ==
  /\ r.op = "update"
  /\ IF r.version # employees[r.employee].version THEN Refused(r)
     ELSE /\ Written(r)
          /\ employees' = [Bumped(r.employee) EXCEPT ![r.employee].email = r.email]
          /\ UNCHANGED <<entities, scoped, ghosts, promoted, roles, clock>>

ValidTransition == {<<"Active", "Inactive">>, <<"Active", "Converted">>, <<"Inactive", "Active">>}

EmployeeTransitionStatus(e, expectedVersion, status) ==
  /\ Room /\ expectedVersion = employees[e].version
  /\ <<employees[e].status, status>> \in ValidTransition
  /\ employees' = [Bumped(e) EXCEPT ![e].status = status]
  /\ UNCHANGED <<entities, scoped, ghosts, promoted, roles, reading, clock>>

EmployeeLinkUserRead(e, expectedVersion, login) ==
  /\ employees[e].user = Unset
  /\ LoginIsFree(login, {e})
  /\ Read([op |-> "link", employee |-> e, version |-> expectedVersion, user |-> login])

EmployeeLinkUserWrite(r) ==
  /\ r.op = "link"
  /\ IF r.version # employees[r.employee].version THEN Refused(r)
     ELSE /\ Written(r)
          /\ employees' = [Bumped(r.employee) EXCEPT ![r.employee].user = r.user]
          /\ UNCHANGED <<entities, scoped, ghosts, promoted, roles, clock>>

\* The entity of the date must be known; the edge that is open is the one that ends.
EmployeeSetEntityRead(e, x, from) ==
  /\ x \in ActiveEntities
  /\ EntitiesAt(e, from) # {}
  /\ \E k \in OpenScopes(e) :
       /\ scoped[k].entity # x
       /\ Read([op |-> "move", edge |-> k, entity |-> x, from |-> from])

\* Mutant: an edge that has been closed is closed again.
ClosesAny(k, to) == to > scoped[k].from

\* closeEdge refuses a closed edge and an interval that is empty.
Closes(k, to) == scoped[k].to = Open /\ to > scoped[k].from

EmployeeSetEntityWrite(r) ==
  /\ r.op = "move"
  /\ IF ~Closes(r.edge, r.from) THEN Refused(r)
     ELSE /\ Written(r)
          /\ scoped' = Append([scoped EXCEPT ![r.edge].to = r.from],
                              [employee |-> scoped[r.edge].employee, entity |-> r.entity,
                               from |-> r.from, to |-> Open])
          /\ UNCHANGED <<employees, entities, ghosts, promoted, roles, clock>>

-----------------------------------------------------------------------------
(* Ghost resources.                                                        *)

GhostResourceCreate(withRole) ==
  /\ Room /\ Len(ghosts) < MaxGhosts /\ Len(employees) < MaxEmployees
  /\ employees' = Append(employees, NewEmployee("Ghost", Unset))
  /\ ghosts' = Append(ghosts, [employee |-> Len(employees) + 1, status |-> "Active", version |-> 1])
  /\ roles' = IF withRole THEN Append(roles, [ghost |-> Len(ghosts) + 1, open |-> TRUE]) ELSE roles
  /\ UNCHANGED <<entities, scoped, promoted, reading, clock>>

\* Mutant: the version is not compared.
CancelsAny(g, expectedVersion) == ghosts[g].status # "Canceled"

Cancels(g, expectedVersion) ==
  expectedVersion = ghosts[g].version /\ ghosts[g].status = "Active"

GhostResourceCancel(g, expectedVersion) ==
  /\ Room /\ Cancels(g, expectedVersion)
  /\ ghosts' = [ghosts EXCEPT ![g].status = "Canceled", ![g].version = @ + 1]
  /\ UNCHANGED <<employees, entities, scoped, promoted, roles, reading, clock>>

\* The open edge found is closed and another one opened; the ghost's status is not looked at.
OpenRoles(g) == {k \in Rows(roles) : roles[k].ghost = g /\ roles[k].open}

GhostResourceLinkOpenRoleRead(g) ==
  \/ /\ OpenRoles(g) = {}
     /\ Read([op |-> "role", ghost |-> g, closes |-> 0])
  \/ \E k \in OpenRoles(g) : Read([op |-> "role", ghost |-> g, closes |-> k])

GhostResourceLinkOpenRoleWrite(r) ==
  /\ r.op = "role"
  /\ IF r.closes # 0 /\ ~roles[r.closes].open THEN Refused(r)
     ELSE /\ Written(r)
          /\ roles' = Append(IF r.closes = 0 THEN roles ELSE [roles EXCEPT ![r.closes].open = FALSE],
                             [ghost |-> r.ghost, open |-> TRUE])
          /\ UNCHANGED <<employees, entities, scoped, ghosts, promoted, clock>>

GhostResourcePromote(g, expectedVersion, email) ==
  LET e == ghosts[g].employee
  IN /\ Room
     /\ expectedVersion = ghosts[g].version /\ ghosts[g].status = "Active"
     /\ EmailIsFree(email, {e})
     /\ ghosts' = [ghosts EXCEPT ![g].status = "Promoted", ![g].version = @ + 1]
     /\ employees' = [Bumped(e) EXCEPT ![e].kind = "Employee", ![e].email = email]
     /\ promoted' = Append(promoted, [ghost |-> g, employee |-> e])
     /\ UNCHANGED <<entities, scoped, roles, reading, clock>>

-----------------------------------------------------------------------------
(* The device's cache, before the server has the call (mutators/foundation.ts).  Neither *)
(* uniqueness nor what an entity still holds is looked at there; a promotion waits for   *)
(* the server.                                                                           *)

DeviceWrite(table, k, row) == [table EXCEPT ![k] = [row EXCEPT !.version = table[k].version + 1]]
DeviceScope(e, x, from) == [employee |-> e, entity |-> x, from |-> from, to |-> Open]

DeviceEmployeeCreate(email, x, from) ==
  [employees |-> Append(employees, NewEmployee("Employee", email)),
   scoped |-> Append(scoped, DeviceScope(Len(employees) + 1, x, from))]
DeviceEmployeeUpdate(e, email) ==
  DeviceWrite(employees, e, [employees[e] EXCEPT !.email = email])
DeviceEmployeeTransitionStatus(e, status) ==
  DeviceWrite(employees, e, [employees[e] EXCEPT !.status = status])
DeviceEmployeeLinkUser(e, login) ==
  DeviceWrite(employees, e, [employees[e] EXCEPT !.user = login])

DeviceEntityCreate == Append(entities, [status |-> "Active", version |-> 1])
DeviceEntityUpdate(x) == DeviceWrite(entities, x, entities[x])
DeviceEntityDeactivate(x) == DeviceWrite(entities, x, [entities[x] EXCEPT !.status = "Dissolved"])

\* Mutant: the scope of before stays open.
DeviceEntityAdded(e, x, from) == Append(scoped, DeviceScope(e, x, from))

\* The open edge is found anew, whatever the server's plan will have found.
DeviceEmployeeSetEntity(e, x, from) ==
  LET prior == CHOOSE k \in OpenScopes(e) : \A l \in OpenScopes(e) : scoped[k].from <= scoped[l].from
  IN Append([scoped EXCEPT ![prior].to = from], DeviceScope(e, x, from))

DeviceGhostResourceCreate(withRole) ==
  [employees |-> Append(employees, NewEmployee("Ghost", Unset)),
   ghosts |-> Append(ghosts, [employee |-> Len(employees) + 1, status |-> "Active", version |-> 1]),
   roles |-> roles \o IF withRole THEN <<[ghost |-> Len(ghosts) + 1, open |-> TRUE]>> ELSE <<>>]
DeviceGhostResourceCancel(g) == DeviceWrite(ghosts, g, [ghosts[g] EXCEPT !.status = "Canceled"])

DeviceGhostResourceLinkOpenRole(g) ==
  LET open == OpenRoles(g)
      prior == IF open = {} THEN {} ELSE {CHOOSE k \in open : \A l \in open : k <= l}
  IN Append([k \in Rows(roles) |-> [roles[k] EXCEPT !.open = @ /\ k \notin prior]],
            [ghost |-> g, open |-> TRUE])

Tick ==
  /\ clock < MaxInstant
  /\ clock' = clock + 1
  /\ UNCHANGED <<employees, entities, scoped, ghosts, promoted, roles, reading>>

\* A workspace is founded with its first entity.
Init ==
  /\ employees = <<>> /\ scoped = <<>> /\ ghosts = <<>> /\ promoted = <<>> /\ roles = <<>>
  /\ entities = <<[status |-> "Active", version |-> 1]>>
  /\ reading = {} /\ clock = 1

EntityNext ==
  \/ EntityCreate
  \/ \E x \in Rows(entities) : EntityUpdate(x) \/ \E v \in Versioned : EntityDeactivate(x, v)

EmployeeNext ==
  \/ \E email \in Emails, x \in Rows(entities), i \in Instants : EmployeeCreateRead(email, x, i)
  \/ \E e \in Rows(employees) :
       \/ \E v \in Versioned :
            \/ \E email \in Emails : EmployeeUpdateRead(e, v, email)
            \/ \E login \in Logins : EmployeeLinkUserRead(e, v, login)
            \/ \E s \in {"Active", "Inactive", "Converted"} : EmployeeTransitionStatus(e, v, s)
       \/ \E x \in Rows(entities), i \in Instants : EmployeeSetEntityRead(e, x, i)
  \/ \E r \in reading : \/ EmployeeCreateWrite(r) \/ EmployeeUpdateWrite(r)
                        \/ EmployeeLinkUserWrite(r) \/ EmployeeSetEntityWrite(r)

GhostNext ==
  \/ \E withRole \in BOOLEAN : GhostResourceCreate(withRole)
  \/ \E g \in Rows(ghosts) :
       \/ GhostResourceLinkOpenRoleRead(g)
       \/ \E v \in Versioned : \/ GhostResourceCancel(g, v)
                          \/ \E email \in Emails : GhostResourcePromote(g, v, email)
  \/ \E r \in reading : GhostResourceLinkOpenRoleWrite(r)

Next == Tick \/ EntityNext \/ EmployeeNext \/ GhostNext

Spec == Init /\ [][Next]_vars

-----------------------------------------------------------------------------
(* Properties.                                                             *)

\* An entity stays active whatever is deactivated in whatever order (VRS-F003 G04), and an
\* employee's entities follow each other: one edge is open, no two hold at an instant, and
\* each ends where the next begins, though employee.setEntity reads the open edge in one
\* step and closes it in another.
EntitiesInForce ==
  /\ ActiveEntities # {}
  /\ \A e \in Rows(employees) :
       /\ ScopeEdges(e) # {} => Cardinality(OpenScopes(e)) = 1
       /\ \A i \in Instants : Cardinality(EntitiesAt(e, i)) <= 1
       /\ \A k \in ScopeEdges(e) \ OpenScopes(e) :
            \E l \in ScopeEdges(e) : scoped[l].from = scoped[k].to

\* A ghost is promoted at most once and then stays so: a cancellation that was sent before
\* does not undo it, and the employee row and the edge say the same as the ghost.
PromotedOnce ==
  \A g \in Rows(ghosts) :
    LET edges == {k \in Rows(promoted) : promoted[k].ghost = g}
    IN /\ Cardinality(edges) = IF ghosts[g].status = "Promoted" THEN 1 ELSE 0
       /\ \A k \in edges : promoted[k].employee = ghosts[g].employee
       /\ employees[ghosts[g].employee].kind = "Employee" <=> ghosts[g].status = "Promoted"

\* What the device shows of a mutation that had read before, once it is written.
CallShown(r) ==
  /\ r.op = "create" =>
       [employees |-> employees', scoped |-> scoped'] = DeviceEmployeeCreate(r.email, r.entity, r.from)
  /\ r.op = "update" /\ employees' # employees => employees' = DeviceEmployeeUpdate(r.employee, r.email)
  /\ r.op = "link" /\ employees' # employees => employees' = DeviceEmployeeLinkUser(r.employee, r.user)
  /\ r.op = "move" /\ scoped' # scoped =>
       scoped' = DeviceEmployeeSetEntity(scoped[r.edge].employee, r.entity, r.from)
  /\ r.op = "role" /\ roles' # roles /\ OpenRoles(r.ghost) \subseteq {r.closes} =>
       roles' = DeviceGhostResourceLinkOpenRole(r.ghost)

EntityShown ==
  entities' # entities =>
    \/ entities' = DeviceEntityCreate
    \/ \E x \in Rows(entities) :
         entities' = IF entities'[x].status = entities[x].status
                       THEN DeviceEntityUpdate(x) ELSE DeviceEntityDeactivate(x)

StatusShown ==
  reading' = reading /\ Len(employees') = Len(employees) /\ ghosts' = ghosts =>
    \A e \in Rows(employees) : employees'[e] # employees[e] =>
      employees' = DeviceEmployeeTransitionStatus(e, employees'[e].status)

GhostShown ==
  /\ Len(ghosts') > Len(ghosts) =>
       [employees |-> employees', ghosts |-> ghosts', roles |-> roles']
         = DeviceGhostResourceCreate(roles' # roles)
  /\ Len(ghosts') = Len(ghosts) =>
       \A g \in Rows(ghosts) : ghosts'[g].status = "Canceled" /\ ghosts'[g] # ghosts[g] =>
         ghosts' = DeviceGhostResourceCancel(g)

\* What the device shows of a call is what the server makes of it, if it takes it and the
\* open role it had read is still the open one when it writes.
ShownAsDelivered ==
  [][(\A r \in reading \ reading' : CallShown(r)) /\ EntityShown /\ StatusShown /\ GhostShown]_vars

=============================================================================
