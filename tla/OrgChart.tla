------------------------------ MODULE OrgChart ------------------------------
(***************************************************************************)
(* The reporting hierarchy: `managed_by` edges with the interval they are  *)
(* in force (services/api/src/mutations/foundation.ts moveEmployee;        *)
(* packages/schema/src/mutations/foundation.ts wouldCreateCycle;           *)
(* services/api/src/graph/store.ts insertEdge, closeEdge).  A move runs in *)
(* a serializable transaction, so it is one step.  Its date is the         *)
(* caller's, past or future; the clock is not read.                        *)
(***************************************************************************)
EXTENDS FiniteSets, Naturals

CONSTANTS
  Employees,
  Nobody,         \* new_manager_id null
  MaxTime,        \* bound: the instants a caller names are 1..MaxTime
  MaxLines        \* bound: edges ever written

ASSUME OrgChartAssumption ==
  /\ MaxTime \in Nat /\ MaxLines \in Nat
  /\ Nobody \notin Employees
  /\ IsFiniteSet(Employees)

VARIABLES
  lines,     \* the managed_by edges
  orderly    \* history: only moves so far, each at or after every date named before

vars == <<lines, orderly>>

-----------------------------------------------------------------------------
Instants == 1..MaxTime
Open == MaxTime + 1      \* effective_to null: later than every instant
Lines == [from : Employees, to : Employees, start : Instants, end : Instants \cup {Open}]

TypeOK ==
  /\ lines \subseteq Lines /\ \A x \in lines : x.start < x.end
  /\ orderly \in BOOLEAN

Init == lines = {} /\ orderly = TRUE

InForce(x, at) == x.start <= at /\ at < x.end
ManagersIn(ls, e, at) == {x.to : x \in {y \in ls : y.from = e /\ InForce(y, at)}}
ManagersOf(e, at) == ManagersIn(lines, e, at)

\* The sets of people that hold the managers of whoever is in them.
Upward(at) ==
  {S \in SUBSET Employees : \A k \in S : ManagersOf(k, at) \subseteq S}

\* Everyone above somebody at an instant, the manager included: whom a walk from
\* manager to manager meets.
Above(e, at) ==
  LET Holding == {S \in Upward(at) : ManagersOf(e, at) \subseteq S}
  IN  {m \in Employees : \A S \in Holding : m \in S}

-----------------------------------------------------------------------------
\* Mutant: only the new manager's own manager is looked at.
ManagesTheNewManager(e, m, at) == e = m \/ e \in ManagersOf(m, at)

\* Walking up from the new manager at the move's date meets the employee.
WouldCreateCycle(e, m, at) == e = m \/ e \in Above(m, at)

\* Mutant: the index on open edges alone.
OneOpenLine(ls) ==
  \A x, y \in ls : x.from = y.from /\ x.end = Open /\ y.end = Open => x = y

\* graph_edges_single_active_overlap_excl
Admits(ls) ==
  \A x, y \in ls : x.from = y.from /\ x # y => x.end <= y.start \/ y.end <= x.start

\* Mutant: the prior line stops short of the new one.
ClosedTheDayBefore(x, at) == [x EXCEPT !.end = IF at - 1 > x.start THEN at - 1 ELSE at]

\* edgeRecordSchema: half-open intervals are never empty.
ValidInterval(start, end) == start < end

\* closeEdge gives an open edge an end.
Closed(x, at) == [x EXCEPT !.end = at]

Timely(at) == \A x \in lines : x.start <= at /\ (x.end = Open \/ x.end <= at)

-----------------------------------------------------------------------------
\* org.moveEmployee; m is Nobody to end the line without starting another.
Move(e, m, at) ==
  LET prior == {x \in lines : x.from = e /\ x.end = Open}
      opened == IF m = Nobody THEN {}
                ELSE {[from |-> e, to |-> m, start |-> at, end |-> Open]}
      after == (lines \ prior) \cup {Closed(x, at) : x \in prior} \cup opened
  IN /\ {x.to : x \in prior} # {x.to : x \in opened}    \* no-change
     /\ \A x \in prior : ValidInterval(x.start, at)
     /\ Admits(after) /\ Cardinality(after) <= MaxLines
     /\ m # Nobody => ~WouldCreateCycle(e, m, at)
     /\ lines' = after
     /\ orderly' = (orderly /\ Timely(at))

\* graph.createEdge with a managed_by edge
CreateEdge(e, m, start, end) ==
  LET after == lines \cup {[from |-> e, to |-> m, start |-> start, end |-> end]} IN
  /\ ValidInterval(start, end)
  /\ Admits(after) /\ Cardinality(after) <= MaxLines
  /\ lines' = after
  /\ orderly' = FALSE

\* graph.closeEdge of a managed_by edge
CloseEdge(x, at) ==
  /\ x.end = Open /\ ValidInterval(x.start, at)
  /\ lines' = (lines \ {x}) \cup {Closed(x, at)}
  /\ orderly' = FALSE

Next ==
  \/ \E e \in Employees, m \in Employees \cup {Nobody}, at \in Instants : Move(e, m, at)
  \/ \E e, m \in Employees, start \in Instants, end \in Instants \cup {Open} :
       CreateEdge(e, m, start, end)
  \/ \E x \in lines, at \in Instants : CloseEdge(x, at)

Spec == Init /\ [][Next]_vars

-----------------------------------------------------------------------------
(* Properties *)

\* Nobody has two managers at one instant: permission checks take the first edge
\* they find (permission/interceptor.ts managerOf).
OneManagerAtATime ==
  \A e \in Employees, at \in Instants : Cardinality(ManagersOf(e, at)) <= 1

\* Nobody is their own superior, at any instant past or future: moveEmployee
\* "rejects a loop" (mutations/foundation.ts:375).  It looks at one instant, so
\* this takes moves dated in the order they are made, and no generic edge writes.
NoReportingLoop == orderly => \A e \in Employees, at \in Instants : e \notin Above(e, at)

\* A move changes one thing, who manages one person from a date on: before the date
\* nothing changes, from it on there is one answer, whatever was written before.
MovesAreFromADateOn ==
  [][\A e \in Employees, m \in Employees \cup {Nobody}, date \in Instants :
       Move(e, m, date) =>
         \A f \in Employees, at \in Instants :
           ManagersIn(lines', f, at) =
             IF f = e /\ at >= date THEN {m} \ {Nobody} ELSE ManagersIn(lines, f, at)]_vars
=============================================================================
