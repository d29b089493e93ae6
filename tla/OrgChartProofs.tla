--------------------------- MODULE OrgChartProofs ---------------------------
(***************************************************************************)
(* Proofs about OrgChart: for any number of people, dates and lines nobody *)
(* has two managers at one instant, a move changes nothing before its date *)
(* and, made in the order of the dates, closes no loop.  What carries all  *)
(* three is that the lines of one person never overlap.                    *)
(*                                                                         *)
(* And about the two parts MCOrgChart puts beside it.  Bench: an           *)
(* evaluation leaves an alert exactly where there is a gap.                *)
(* WorkingCalendar: an entity has one calendar in force and an employee    *)
(* one pattern, a change rewrites no day before it and carries exactly the *)
(* holidays that are in force, and the device shows what the server makes  *)
(* of it.                                                                  *)
(***************************************************************************)
EXTENDS MCOrgChart, FiniteSetTheorems, TLAPS

USE OrgChartAssumption

IInv == TypeOK /\ Admits(lines)

-----------------------------------------------------------------------------
(* Lemmas *)

\* A line is what it is made of.
LEMMA LineFields ==
  ASSUME NEW x \in Lines
  PROVE  /\ x.from \in Employees /\ x.to \in Employees
         /\ x.start \in Nat /\ x.end \in Nat /\ x.end <= Open
  BY DEF Lines, Instants, Open

\* Ending an open line at a later date leaves a line with an end.
LEMMA ClosedLine ==
  ASSUME NEW x \in Lines, NEW at \in Instants
  PROVE  /\ Closed(x, at) \in Lines
         /\ Closed(x, at).from = x.from /\ Closed(x, at).to = x.to
         /\ Closed(x, at).start = x.start /\ Closed(x, at).end = at /\ at < Open
  BY DEF Closed, Lines, Instants, Open

\* Two lines of one person that are both in force are one line.
LEMMA OneLineInForce ==
  ASSUME NEW ls \in SUBSET Lines, Admits(ls),
         NEW x \in ls, NEW y \in ls, x.from = y.from,
         NEW at \in Instants, InForce(x, at), InForce(y, at)
  PROVE  x = y
<1>1. x.start \in Nat /\ x.end \in Nat /\ y.start \in Nat /\ y.end \in Nat /\ at \in Nat
  BY LineFields DEF Instants
<1>2. ~(x.end <= y.start \/ y.end <= x.start)
  BY <1>1 DEF InForce
<1> QED
  BY <1>2 DEF Admits

LEMMA ManagersAtMostOne ==
  ASSUME NEW ls \in SUBSET Lines, Admits(ls), NEW e, NEW at \in Instants
  PROVE  Cardinality(ManagersIn(ls, e, at)) <= 1
<1> DEFINE Managers == ManagersIn(ls, e, at)
<1>1. \A m, n \in Managers : m = n
  <2> SUFFICES ASSUME NEW m \in Managers, NEW n \in Managers PROVE m = n
    OBVIOUS
  <2>1. PICK x \in ls : x.from = e /\ InForce(x, at) /\ m = x.to
    BY DEF ManagersIn
  <2>2. PICK y \in ls : y.from = e /\ InForce(y, at) /\ n = y.to
    BY DEF ManagersIn
  <2>3. x = y
    BY <2>1, <2>2, OneLineInForce
  <2> QED
    BY <2>1, <2>2, <2>3
<1>2. CASE Managers = {}
  BY <1>2, FS_EmptySet
<1>3. CASE \E m : Managers = {m}
  BY <1>3, FS_Singleton
<1>4. Managers = {} \/ \E m : Managers = {m}
  BY <1>1
<1> QED
  BY <1>2, <1>3, <1>4

-----------------------------------------------------------------------------
(* The inductive invariant *)

LEMMA InitIInv == Init => IInv
  BY DEF Init, IInv, TypeOK, Admits

LEMMA MoveIInv ==
  ASSUME IInv, NEW e \in Employees, NEW m \in Employees \cup {Nobody}, NEW at \in Instants,
         Move(e, m, at)
  PROVE  IInv'
<1> DEFINE prior == {x \in lines : x.from = e /\ x.end = Open}
           opened == IF m = Nobody THEN {}
                     ELSE {[from |-> e, to |-> m, start |-> at, end |-> Open]}
           after == (lines \ prior) \cup {Closed(x, at) : x \in prior} \cup opened
<1>1. /\ lines' = after /\ Admits(after)
      /\ \A x \in prior : x.start < at
      /\ orderly' = (orderly /\ Timely(at))
  BY DEF Move, ValidInterval
<1>2. \A x \in lines : x \in Lines /\ x.start < x.end
  BY DEF IInv, TypeOK
<1>3. \A x \in prior : Closed(x, at) \in Lines /\ Closed(x, at).start < Closed(x, at).end
  BY <1>1, <1>2, ClosedLine
<1>4. \A x \in opened : x \in Lines /\ x.start < x.end
  BY DEF Lines, Instants, Open
<1>5. \A x \in after : x \in Lines /\ x.start < x.end
  BY <1>2, <1>3, <1>4
<1>6. orderly' \in BOOLEAN
  BY <1>1 DEF IInv, TypeOK
<1> QED
  BY <1>1, <1>5, <1>6 DEF IInv, TypeOK

LEMMA CreateEdgeIInv ==
  ASSUME IInv, NEW e \in Employees, NEW m \in Employees,
         NEW start \in Instants, NEW end \in Instants \cup {Open},
         CreateEdge(e, m, start, end)
  PROVE  IInv'
<1> DEFINE x == [from |-> e, to |-> m, start |-> start, end |-> end]
<1>1. lines' = lines \cup {x} /\ Admits(lines \cup {x}) /\ start < end /\ orderly' = FALSE
  BY DEF CreateEdge, ValidInterval
<1>2. x \in Lines /\ x.start < x.end
  BY <1>1 DEF Lines
<1>3. TypeOK'
  BY <1>1, <1>2 DEF IInv, TypeOK
<1>4. Admits(lines')
  BY <1>1
<1> QED
  BY <1>3, <1>4 DEF IInv

LEMMA CloseEdgeIInv ==
  ASSUME IInv, NEW x \in lines, NEW at \in Instants, CloseEdge(x, at)
  PROVE  IInv'
<1> DEFINE y == Closed(x, at)
<1>1. lines' = (lines \ {x}) \cup {y} /\ x.start < at /\ x.end = Open /\ orderly' = FALSE
  BY DEF CloseEdge, ValidInterval
<1>2. \A z \in lines : z \in Lines /\ z.start < z.end
  BY DEF IInv, TypeOK
<1>3. y \in Lines /\ y.from = x.from /\ y.start = x.start /\ y.end = at /\ at < Open
  BY <1>2, ClosedLine
<1>4. \A z \in lines : z.start \in Nat /\ z.end \in Nat /\ z.end <= Open
  BY <1>2, LineFields
<1>5. \A z \in lines \ {x} : z.from = x.from => z.end <= x.start
  <2> SUFFICES ASSUME NEW z \in lines \ {x}, z.from = x.from PROVE z.end <= x.start
    OBVIOUS
  <2>1. z.end <= x.start \/ x.end <= z.start
    BY DEF IInv, Admits
  <2>2. z.start < z.end /\ z.end <= Open /\ z.start \in Nat /\ z.end \in Nat
    BY <1>2, <1>4
  <2>3. Open \in Nat
    BY DEF Open
  <2> QED
    BY <1>1, <2>1, <2>2, <2>3
<1>6. Admits(lines')
  <2> SUFFICES ASSUME NEW p \in lines', NEW q \in lines', p.from = q.from, p # q
               PROVE  p.end <= q.start \/ q.end <= p.start
    BY DEF Admits
  <2>1. CASE p \in lines \ {x} /\ q \in lines \ {x}
    BY <2>1 DEF IInv, Admits
  <2>2. CASE p = y /\ q \in lines \ {x}
    BY <2>2, <1>3, <1>5
  <2>3. CASE q = y /\ p \in lines \ {x}
    BY <2>3, <1>3, <1>5
  <2> QED
    BY <1>1, <2>1, <2>2, <2>3
<1>7. TypeOK'
  BY <1>1, <1>2, <1>3 DEF TypeOK
<1> QED
  BY <1>6, <1>7 DEF IInv

LEMMA NextIInv == IInv /\ [Next]_vars => IInv'
<1> SUFFICES ASSUME IInv, [Next]_vars PROVE IInv'
  OBVIOUS
<1>1. CASE UNCHANGED vars
  BY <1>1 DEF IInv, TypeOK, Admits, vars
<1>2. CASE Next
  BY <1>2, MoveIInv, CreateEdgeIInv, CloseEdgeIInv DEF Next
<1> QED
  BY <1>1, <1>2

\* The lines are lines whatever is moved, created and closed.
THEOREM TypeCorrect == Spec => []TypeOK
<1>1. Spec => []IInv
  BY InitIInv, NextIInv, PTL DEF Spec
<1>2. IInv => TypeOK
  BY DEF IInv
<1> QED
  BY <1>1, <1>2, PTL

\* Whatever dates the callers name, and whether they move people or write the
\* edges themselves, nobody has two managers at one instant.
THEOREM OneManager == Spec => []OneManagerAtATime
<1>1. Spec => []IInv
  BY InitIInv, NextIInv, PTL DEF Spec
<1>2. IInv => OneManagerAtATime
  BY ManagersAtMostOne DEF IInv, TypeOK, OneManagerAtATime, ManagersOf
<1> QED
  BY <1>1, <1>2, PTL

-----------------------------------------------------------------------------
(* What a move changes *)

LEMMA MoveChanges ==
  ASSUME IInv, NEW e \in Employees, NEW m \in Employees \cup {Nobody}, NEW date \in Instants,
         Move(e, m, date), NEW f \in Employees, NEW at \in Instants
  PROVE  ManagersIn(lines', f, at) =
           IF f = e /\ at >= date THEN {m} \ {Nobody} ELSE ManagersIn(lines, f, at)
<1> DEFINE prior == {x \in lines : x.from = e /\ x.end = Open}
           new == [from |-> e, to |-> m, start |-> date, end |-> Open]
           opened == IF m = Nobody THEN {} ELSE {new}
           after == (lines \ prior) \cup {Closed(x, date) : x \in prior} \cup opened
           Of(ls) == {y \in ls : y.from = f /\ InForce(y, at)}
<1>1. /\ lines' = after /\ Admits(after)
      /\ {x.to : x \in prior} # {x.to : x \in opened}
      /\ \A x \in prior : x.start < date
  BY DEF Move, ValidInterval
<1>2. \A x \in lines : x \in Lines /\ x.start < x.end /\ x.from \in Employees
                       /\ x.start \in Nat /\ x.end \in Nat /\ x.end <= Open /\ x.start < Open
  <2> SUFFICES ASSUME NEW x \in lines
               PROVE  x \in Lines /\ x.start < x.end /\ x.from \in Employees
                      /\ x.start \in Nat /\ x.end \in Nat /\ x.end <= Open /\ x.start < Open
    OBVIOUS
  <2>1. x \in Lines /\ x.start < x.end
    BY DEF IInv, TypeOK
  <2>2. Open \in Nat
    BY DEF Open
  <2> QED
    BY <2>1, <2>2, LineFields
<1>3. \A x \in prior : /\ Closed(x, date).from = e /\ Closed(x, date).to = x.to
                       /\ Closed(x, date).start = x.start /\ Closed(x, date).end = date
  BY <1>2, ClosedLine
<1>4. at \in Nat /\ date \in Nat /\ at < Open /\ date < Open /\ Open \in Nat
  BY DEF Instants, Open
<1>5. CASE f # e
  <2>1. Of(after) = Of(lines)
    BY <1>3, <1>5
  <2> QED
    BY <1>1, <1>5, <2>1 DEF ManagersIn
<1>6. CASE f = e /\ at < date
  <2>1. \A x \in prior : InForce(x, at) <=> InForce(Closed(x, date), at)
    BY <1>2, <1>3, <1>4, <1>6 DEF InForce
  <2>2. \A x \in opened : ~InForce(x, at)
    BY <1>4, <1>6 DEF InForce
  <2>3. ASSUME NEW n PROVE n \in ManagersIn(lines, f, at) => n \in ManagersIn(after, f, at)
    <3> SUFFICES ASSUME NEW x \in Of(lines), n = x.to PROVE n \in ManagersIn(after, f, at)
      BY DEF ManagersIn
    <3>1. CASE x \in prior
      BY <3>1, <1>3, <1>6, <2>1 DEF ManagersIn
    <3>2. CASE x \notin prior
      BY <3>2 DEF ManagersIn
    <3> QED
      BY <3>1, <3>2
  <2>4. ASSUME NEW n PROVE n \in ManagersIn(after, f, at) => n \in ManagersIn(lines, f, at)
    <3> SUFFICES ASSUME NEW y \in Of(after), n = y.to PROVE n \in ManagersIn(lines, f, at)
      BY DEF ManagersIn
    <3>1. CASE y \in lines
      BY <3>1 DEF ManagersIn
    <3>2. CASE \E x \in prior : y = Closed(x, date)
      BY <3>2, <1>3, <1>6, <2>1 DEF ManagersIn
    <3> QED
      BY <3>1, <3>2, <2>2
  <2>5. ManagersIn(after, f, at) = ManagersIn(lines, f, at)
    BY <2>3, <2>4
  <2>6. ~(at >= date)
    BY <1>4, <1>6
  <2> QED
    BY <1>1, <2>5, <2>6
<1>7. CASE f = e /\ at >= date
  \* Lines that were closed before end by the date of the move.
  <2>1. ASSUME NEW y \in lines \ prior, y.from = e PROVE y.end <= date
    <3>1. CASE m = Nobody
      <4>1. PICK x \in prior : TRUE
        BY <1>1, <3>1
      <4>2. x \in lines /\ x.from = y.from /\ x # y /\ x.end = Open /\ x.start < date
        BY <1>1, <2>1, <4>1
      <4>3. x.end <= y.start \/ y.end <= x.start
        BY <4>2 DEF IInv, Admits
      <4> QED
        BY <1>2, <1>4, <4>2, <4>3
    <3>2. CASE m # Nobody
      <4>1. new \in after /\ y \in after
        BY <3>2
      <4>2. y.end # Open /\ y # new
        BY <2>1
      <4>3. new.end <= y.start \/ y.end <= new.start
        BY <1>1, <2>1, <4>1, <4>2 DEF Admits
      <4> QED
        BY <1>2, <1>4, <4>3
    <3> QED
      BY <3>1, <3>2
  <2>2. \A y \in lines \ prior : y.from = e => ~InForce(y, at)
    BY <1>2, <1>4, <1>7, <2>1 DEF InForce
  <2>3. \A x \in prior : ~InForce(Closed(x, date), at)
    BY <1>3, <1>4, <1>7 DEF InForce
  <2>4. InForce(new, at)
    BY <1>4, <1>7 DEF InForce
  <2>5. Of(after) = opened
    BY <1>7, <2>2, <2>3, <2>4
  <2>6. {x.to : x \in opened} = {m} \ {Nobody}
    <3>1. CASE m = Nobody
      BY <3>1
    <3>2. CASE m # Nobody
      <4>1. opened = {new} /\ new.to = m
        BY <3>2
      <4> HIDE DEF opened, new
      <4> QED
        BY <3>2, <4>1
    <3> QED
      BY <3>1, <3>2
  <2> QED
    BY <1>1, <1>7, <2>5, <2>6 DEF ManagersIn
<1>8. at < date \/ at >= date
  BY <1>4
<1> QED
  BY <1>5, <1>6, <1>7, <1>8

\* A move gives one person one manager, or none, from its date on, and leaves
\* everything else about the hierarchy as it was.
THEOREM MovesFromADateOn == Spec => MovesAreFromADateOn
<1>1. Spec => []IInv
  BY InitIInv, NextIInv, PTL DEF Spec
<1>2. IInv /\ [Next]_vars =>
        [\A e \in Employees, m \in Employees \cup {Nobody}, date \in Instants :
           Move(e, m, date) =>
             \A f \in Employees, at \in Instants :
               ManagersIn(lines', f, at) =
                 IF f = e /\ at >= date THEN {m} \ {Nobody} ELSE ManagersIn(lines, f, at)]_vars
  BY MoveChanges
<1> QED
  BY <1>1, <1>2, PTL DEF Spec, MovesAreFromADateOn

-----------------------------------------------------------------------------
(* No reporting loop *)

LEMMA AboveHolds ==
  ASSUME TypeOK, NEW e \in Employees, NEW at \in Instants
  PROVE  Above(e, at) \in Upward(at) /\ ManagersOf(e, at) \subseteq Above(e, at)
<1>1. \A k \in Employees : ManagersOf(k, at) \subseteq Employees
  BY LineFields DEF TypeOK, ManagersOf, ManagersIn
<1>2. ManagersOf(e, at) \subseteq Above(e, at)
  BY <1>1 DEF Above
<1>3. ASSUME NEW k \in Above(e, at), NEW m \in ManagersOf(k, at)
      PROVE  m \in Above(e, at)
  <2>1. m \in Employees
    BY <1>1 DEF Above
  <2> SUFFICES ASSUME NEW S \in Upward(at), ManagersOf(e, at) \subseteq S PROVE m \in S
    BY <2>1 DEF Above
  <2>2. k \in S
    BY DEF Above
  <2> QED
    BY <2>2 DEF Upward
<1> QED
  BY <1>2, <1>3 DEF Upward, Above

LEMMA AboveIsLeast ==
  ASSUME NEW e \in Employees, NEW at \in Instants, NEW S \in Upward(at),
         ManagersOf(e, at) \subseteq S
  PROVE  Above(e, at) \subseteq S
  BY DEF Above

\* From the last date named on nothing changes any more.
LEMMA TimelyStays ==
  ASSUME TypeOK, NEW date \in Instants, Timely(date), NEW f, NEW at \in Instants, at >= date
  PROVE  ManagersOf(f, at) = ManagersOf(f, date)
<1>1. \A x \in lines : x.start \in Nat /\ x.end \in Nat
  BY LineFields DEF TypeOK
<1>2. \A x \in lines : InForce(x, at) <=> InForce(x, date)
  BY <1>1 DEF InForce, Timely, Instants, Open
<1> QED
  BY <1>2 DEF ManagersOf, ManagersIn

\* A move at or after every date named before makes no loop where there was none.
LEMMA MoveMakesNoLoop ==
  ASSUME IInv, NoReportingLoop, orderly,
         NEW e \in Employees, NEW m \in Employees \cup {Nobody}, NEW date \in Instants,
         Move(e, m, date), Timely(date), NEW f \in Employees, NEW at \in Instants
  PROVE  f \notin Above(f, at)'
<1>0. TypeOK
  BY DEF IInv
<1>1. \A k \in Employees : ManagersOf(k, at)' =
        IF k = e /\ at >= date THEN {m} \ {Nobody} ELSE ManagersOf(k, at)
  BY MoveChanges DEF ManagersOf
<1>2. f \notin Above(f, at) /\ Above(f, at) \in Upward(at) /\ ManagersOf(f, at) \subseteq Above(f, at)
  BY <1>0, AboveHolds DEF NoReportingLoop
<1>3. \A S \in SUBSET Employees :
        (\A k \in S : ManagersOf(k, at)' \subseteq S) /\ ManagersOf(f, at)' \subseteq S /\ f \notin S
          => f \notin Above(f, at)'
  BY DEF Above, Upward
<1>4. CASE ~(at >= date) \/ m = Nobody
  <2>1. \A k \in Employees : ManagersOf(k, at)' \subseteq ManagersOf(k, at)
    BY <1>1, <1>4
  <2> QED
    BY <1>2, <1>3, <2>1 DEF Upward
<1>5. CASE at >= date /\ m \in Employees /\ m # Nobody
  <2> DEFINE B == Above(m, at) \cup {m}
  <2>1. e # m /\ e \notin Above(m, date)
    BY <1>5 DEF Move, WouldCreateCycle
  <2>2. Above(m, at) = Above(m, date)
    <3>1. \A k : ManagersOf(k, at) = ManagersOf(k, date)
      BY <1>0, <1>5, TimelyStays
    <3> QED
      BY <3>1 DEF Above, Upward
  <2>3. e \notin B
    BY <2>1, <2>2
  <2>4. B \in SUBSET Employees /\ \A k \in B : ManagersOf(k, at) \subseteq B
    BY <1>0, <1>5, AboveHolds DEF Upward
  <2>5. \A k \in Employees : ManagersOf(k, at)' = IF k = e THEN {m} ELSE ManagersOf(k, at)
    BY <1>1, <1>5
  <2>6. m \in B
    OBVIOUS
  <2> HIDE DEF B
  <2>7. CASE f = e
    BY <1>3, <2>3, <2>4, <2>5, <2>6, <2>7
  <2>8. CASE f # e /\ e \notin Above(f, at)
    BY <1>2, <1>3, <2>5, <2>8 DEF Upward
  <2>9. CASE f # e /\ e \in Above(f, at)
    <3> DEFINE S == Above(f, at) \cup B
    <3>1. f \notin B
      <4> SUFFICES ASSUME f \in B PROVE FALSE
        OBVIOUS
      <4>1. B \in Upward(at) /\ ManagersOf(f, at) \subseteq B
        BY <2>4 DEF Upward
      <4>2. Above(f, at) \subseteq B
        BY <4>1, AboveIsLeast
      <4> QED
        BY <2>3, <2>9, <4>2
    <3>2. f \notin S /\ S \in SUBSET Employees
      BY <1>2, <2>4, <3>1 DEF Upward
    <3>3. \A k \in S : ManagersOf(k, at)' \subseteq S
      BY <1>2, <2>4, <2>5, <2>6, <3>2 DEF Upward
    <3>4. ManagersOf(f, at)' \subseteq S
      BY <1>2, <2>5, <2>9
    <3> QED
      BY <1>3, <3>2, <3>3, <3>4
  <2> QED
    BY <2>7, <2>8, <2>9
<1> QED
  BY <1>4, <1>5

\* Nobody is their own superior while people are moved in the order of the dates.
THEOREM NoLoop == Spec => []NoReportingLoop
<1>1. Init => NoReportingLoop
  <2> SUFFICES ASSUME Init, NEW e \in Employees, NEW at \in Instants
               PROVE  e \notin Above(e, at)
    BY DEF NoReportingLoop
  <2>1. \A k : ManagersOf(k, at) = {}
    BY DEF Init, ManagersOf, ManagersIn
  <2>2. {} \in Upward(at)
    BY DEF Upward
  <2> QED
    BY <2>1, <2>2 DEF Above
<1>2. IInv /\ NoReportingLoop /\ [Next]_vars => NoReportingLoop'
  <2> SUFFICES ASSUME IInv, NoReportingLoop, [Next]_vars, orderly',
                      NEW f \in Employees, NEW at \in Instants
               PROVE  f \notin Above(f, at)'
    BY DEF NoReportingLoop
  <2>1. CASE UNCHANGED vars
    <3>1. f \notin Above(f, at)
      BY <2>1 DEF NoReportingLoop, vars
    <3>2. Above(f, at)' = Above(f, at)
      BY <2>1 DEF vars, Above, Upward, ManagersOf
    <3> QED
      BY <3>1, <3>2
  <2>2. ASSUME NEW e \in Employees, NEW m \in Employees \cup {Nobody}, NEW date \in Instants,
               Move(e, m, date)
        PROVE  f \notin Above(f, at)'
    <3>1. orderly /\ Timely(date)
      BY <2>2 DEF Move
    <3> QED
      BY <2>2, <3>1, MoveMakesNoLoop
  <2>3. ASSUME NEW e \in Employees, NEW m \in Employees, NEW start \in Instants,
               NEW end \in Instants \cup {Open}, CreateEdge(e, m, start, end)
        PROVE  FALSE
    BY <2>3 DEF CreateEdge
  <2>4. ASSUME NEW x \in lines, NEW date \in Instants, CloseEdge(x, date)
        PROVE  FALSE
    BY <2>4 DEF CloseEdge
  <2> QED
    BY <2>1, <2>2, <2>3, <2>4 DEF Next
<1>3. Spec => []IInv
  BY InitIInv, NextIInv, PTL DEF Spec
<1> QED
  BY <1>1, <1>2, <1>3, PTL DEF Spec

-----------------------------------------------------------------------------
(* Numbers *)

\* A non-empty set of numbers has a least element.
LEMMA LeastExists ==
  ASSUME NEW S \in SUBSET Nat, S # {}
  PROVE  \E x \in S : \A y \in S : x <= y
<1> DEFINE UpTo(x) == 1..x
           Initial == {UpTo(x) : x \in S}
           R == StrictSubsetOrdering(Nat)
<1>1. Initial \subseteq FiniteSubsetsOf(Nat)
  <2>1. \A x \in S : IsFiniteSet(UpTo(x)) /\ UpTo(x) \subseteq Nat
    BY FS_Interval
  <2> QED
    BY <2>1 DEF FiniteSubsetsOf
<1>2. PICK low \in Initial : \A other \in Initial : ~(<<other, low>> \in R)
  <2>1. IsWellFoundedOn(R, FiniteSubsetsOf(Nat))
    BY FS_StrictSubsetOrderingWellFounded
  <2>2. Initial # {}
    OBVIOUS
  <2> HIDE DEF Initial, R
  <2> QED
    BY <1>1, <2>1, <2>2, WFMin
<1>3. PICK x \in S : low = UpTo(x)
  OBVIOUS
<1>4. ASSUME NEW y \in S, y < x PROVE FALSE
  <2>1. UpTo(y) \subseteq UpTo(x) /\ UpTo(y) # UpTo(x)
    BY <1>4
  <2>2. UpTo(y) \in SUBSET Nat /\ UpTo(x) \in SUBSET Nat
    OBVIOUS
  <2>3. <<UpTo(y), UpTo(x)>> \in R
    BY <2>1, <2>2 DEF StrictSubsetOrdering
  <2> QED
    BY <1>2, <1>3, <2>3
<1> QED
  BY <1>4

\* One that is bounded has a greatest.
LEMMA GreatestExists ==
  ASSUME NEW S \in SUBSET Nat, S # {}, NEW n \in Nat, \A x \in S : x <= n
  PROVE  \E x \in S : \A y \in S : y <= x
<1> DEFINE T == {n - x : x \in S}
<1>1. T \in SUBSET Nat /\ T # {}
  <2>1. \A x \in S : n - x \in Nat
    OBVIOUS
  <2> QED
    BY <2>1
<1>2. PICK low \in T : \A other \in T : low <= other
  <2> HIDE DEF T
  <2> QED
    BY <1>1, LeastExists
<1>3. PICK x \in S : low = n - x
  OBVIOUS
<1>4. ASSUME NEW y \in S PROVE y <= x
  <2>1. n - x <= n - y
    BY <1>2, <1>3
  <2> QED
    BY <2>1
<1> QED
  BY <1>4

\* Of some rows one is the first of those whose number is the greatest.
LEMMA LatestExists ==
  ASSUME NEW S \in SUBSET Nat, S # {}, NEW key, NEW high \in Nat,
         \A x \in S : key[x] \in 0..high
  PROVE  \E x \in S : \A y \in S : key[y] < key[x] \/ (key[y] = key[x] /\ x <= y)
<1> DEFINE Keys == {key[x] : x \in S}
<1>1. PICK k \in Keys : \A other \in Keys : other <= k
  <2>1. \A x \in S : key[x] \in Nat /\ key[x] <= high
    OBVIOUS
  <2>2. Keys \in SUBSET Nat /\ Keys # {} /\ \A x \in Keys : x <= high
    BY <2>1
  <2> HIDE DEF Keys
  <2> QED
    BY <2>2, GreatestExists
<1> DEFINE Top == {x \in S : key[x] = k}
<1>2. PICK x \in Top : \A y \in Top : x <= y
  <2>1. Top \in SUBSET Nat /\ Top # {}
    OBVIOUS
  <2> HIDE DEF Top
  <2> QED
    BY <2>1, LeastExists
<1>3. ASSUME NEW y \in S PROVE key[y] < key[x] \/ (key[y] = key[x] /\ x <= y)
  <2>1. key[y] \in Keys /\ key[y] \in 0..high
    OBVIOUS
  <2>3. PICK z \in S : k = key[z] /\ key[z] \in 0..high
    OBVIOUS
  <2>2. key[y] <= k
    BY <1>1, <2>1
  <2> QED
    BY <1>2, <2>1, <2>2, <2>3
<1> QED
  BY <1>2, <1>3

\* At most one is none or one.
LEMMA AtMostOneIsOne ==
  ASSUME NEW S, IsFiniteSet(S)
  PROVE  Cardinality(S) <= 1 <=> \A x, y \in S : x = y
<1>1. ASSUME Cardinality(S) <= 1, NEW x \in S, NEW y \in S, x # y PROVE FALSE
  <2>1. Cardinality({x, y}) = 2
    <3>1. Cardinality({x}) = 1 /\ IsFiniteSet({x})
      BY FS_Singleton
    <3>2. Cardinality({x} \cup {y}) = Cardinality({x}) + 1
      BY <1>1, <3>1, FS_AddElement
    <3>3. {x, y} = {x} \cup {y}
      OBVIOUS
    <3> QED
      BY <3>1, <3>2, <3>3
  <2>2. Cardinality({x, y}) <= Cardinality(S) /\ Cardinality(S) \in Nat
    BY FS_Subset, FS_CardinalityType
  <2> QED
    BY <1>1, <2>1, <2>2
<1>2. ASSUME \A x, y \in S : x = y PROVE Cardinality(S) <= 1
  <2>1. ASSUME NEW x \in S PROVE S = {x}
    BY <1>2
  <2> QED
    BY <2>1, FS_EmptySet, FS_Singleton
<1>3. Cardinality(S) <= 1 => \A x, y \in S : x = y
  BY <1>1
<1> QED
  BY <1>2, <1>3

-----------------------------------------------------------------------------
(* The bench *)

HIDE OrgChartAssumption
USE BenchAssumption, CalendarAssumption

Severities == {"Low", "Medium", "High"}
Found == [start : Nat, days : Nat, daily : Nat, accumulated : Nat, severity : Severities]
Alert == [employee : Consultants, status : {"Active", "Resolved"}, found : Found,
          escalated : BOOLEAN, dismissed : BOOLEAN, by : Nat]
Booking == [employee : Consultants, status : {"Active", "Canceled"}, start : 1..MaxDay,
            end : 1..MaxDay, rate : Rates, version : Nat]

BenchType == assignments \in Seq(Booking) /\ alerts \in Seq(Alert) /\ now \in 1..MaxDay

\* Nobody has two alerts in force.
OneAlert == \A e \in Consultants : \A x, y \in OnTheBench!ActiveAlerts(e) : x = y

BenchInv == BenchType /\ OneAlert

\* The assignment that ended last is one, if any has ended.
LEMMA LatestEndedIs ==
  ASSUME BenchType, NEW e \in Consultants
  PROVE  LET last == OnTheBench!LatestEnded(e)
         IN last = 0 \/ (/\ last \in 1..Len(assignments)
                         /\ assignments[last].end \in 1..MaxDay /\ assignments[last].rate \in Rates)
<1> DEFINE last == OnTheBench!LatestEnded(e)
           ended == OnTheBench!Ended(e)
<1>1. /\ Len(assignments) \in Nat /\ ended \subseteq 1..Len(assignments)
      /\ \A a \in ended : assignments[a].end \in 1..MaxDay /\ assignments[a].rate \in Rates
  <2>1. \A a \in 1..Len(assignments) : assignments[a] \in Booking
    BY DEF BenchType
  <2>2. \A x \in Booking : x.end \in 1..MaxDay /\ x.rate \in Rates
    BY DEF Booking
  <2>3. ended \subseteq 1..Len(assignments)
    BY DEF OnTheBench!Ended, OnTheBench!ActiveOf, OnTheBench!Rows
  <2> HIDE DEF ended
  <2> QED
    BY <2>1, <2>2, <2>3 DEF BenchType
<1>2. CASE ended = {}
  BY <1>2 DEF OnTheBench!LatestEnded, OnTheBench!None
<1>3. CASE ended # {}
  <2> DEFINE end == [a \in 1..Len(assignments) |-> assignments[a].end]
  <2>1. /\ ended \in SUBSET Nat /\ MaxDay \in Nat
        /\ \A a \in ended : end[a] \in 0..MaxDay /\ end[a] = assignments[a].end
    BY <1>1
  <2> HIDE DEF end
  <2>2. \E a \in ended : \A b \in ended : end[b] < end[a] \/ (end[b] = end[a] /\ a <= b)
    <3> HIDE DEF ended
    <3> QED
      BY <1>1, <1>3, <2>1, LatestExists
  <2>3. \E a \in ended : \A b \in ended :
          \/ assignments[b].end < assignments[a].end
          \/ assignments[b].end = assignments[a].end /\ a <= b
    BY <2>1, <2>2
  <2>4. last = CHOOSE a \in ended : \A b \in ended :
                 \/ assignments[b].end < assignments[a].end
                 \/ assignments[b].end = assignments[a].end /\ a <= b
    BY <1>3 DEF OnTheBench!LatestEnded
  <2> HIDE DEF ended, last
  <2>5. last \in ended
    BY <2>3, <2>4, Zenon
  <2> QED
    BY <1>1, <2>5 DEF last
<1> QED
  BY <1>2, <1>3

\* Bench days are days up to today that nobody is assigned on.
LEMMA BenchDaysAre ==
  ASSUME BenchType, NEW e \in Consultants
  PROVE  /\ OnTheBench!BenchDays(e) \subseteq 1..MaxDay
         /\ IsFiniteSet(OnTheBench!BenchDays(e))
         /\ \A d \in OnTheBench!BenchDays(e) : ~OnTheBench!Covered(e, d) /\ d <= now
<1> DEFINE last == OnTheBench!LatestEnded(e)
<1>1. OnTheBench!BenchDays(e) \subseteq 1..MaxDay
  BY DEF OnTheBench!BenchDays, OnTheBench!BenchDaysIn
<1>3. last # 0 => assignments[last].end + 1 \in Int
  BY LatestEndedIs
<1>4. ASSUME NEW d \in OnTheBench!BenchDays(e) PROVE ~OnTheBench!Covered(e, d) /\ d <= now
  <2> HIDE DEF last
  <2>1. PICK from \in Int : d \in OnTheBench!BenchDaysIn(e, from, now)
    BY <1>3, <1>4 DEF OnTheBench!BenchDays, OnTheBench!Hired, OnTheBench!None, last
  <2> QED
    BY <2>1 DEF OnTheBench!BenchDaysIn, BenchType
<1>5. IsFiniteSet(1..MaxDay)
  BY FS_Interval
<1> QED
  BY <1>1, <1>4, <1>5, FS_Subset

\* What is found has its type.
LEMMA FindingsAre ==
  ASSUME BenchType, NEW e \in Consultants, OnTheBench!BenchDays(e) # {}
  PROVE  /\ OnTheBench!Findings(e) \in Found
         /\ OnTheBench!Findings(e).days = Cardinality(OnTheBench!BenchDays(e))
<1> DEFINE days == OnTheBench!BenchDays(e)
           last == OnTheBench!LatestEnded(e)
<1>1. Cardinality(days) \in Nat
  BY BenchDaysAre, FS_CardinalityType
<1>2. OnTheBench!BenchStart(e) \in Nat
  <2>1. days \in SUBSET Nat
    BY BenchDaysAre
  <2>2. \E x \in days : \A y \in days : x <= y
    BY <2>1, LeastExists
  <2>3. OnTheBench!Min(days) \in days
    BY <2>2 DEF OnTheBench!Min
  <2> QED
    BY <2>1, <2>3, LatestEndedIs DEF OnTheBench!BenchStart, OnTheBench!None
<1>3. OnTheBench!ResolveDailyCost(e) \in Nat
  <2>1. last = 0 \/ assignments[last].rate \in Nat
    BY LatestEndedIs
  <2>2. DefaultDaily \in Nat
    OBVIOUS
  <2> HIDE DEF last
  <2>3. ~(last # OnTheBench!None /\ assignments[last].rate # NoRate) =>
          OnTheBench!ResolveDailyCost(e) = DefaultDaily
    BY DEF OnTheBench!ResolveDailyCost, last
  <2>4. last # OnTheBench!None /\ assignments[last].rate # NoRate =>
          OnTheBench!ResolveDailyCost(e) = assignments[last].rate * 8
    BY DEF OnTheBench!ResolveDailyCost, last
  <2> QED
    BY <2>1, <2>2, <2>3, <2>4 DEF OnTheBench!None
<1>4. OnTheBench!SeverityFor(Cardinality(days)) \in Severities
  BY DEF OnTheBench!SeverityFor, Severities
<1>5. OnTheBench!Cardinality(days) = Cardinality(days)
  BY DEF OnTheBench!Cardinality, Cardinality
<1>6. PICK n \in Nat : n = Cardinality(days)
  BY <1>1
<1>7. PICK daily \in Nat : daily = OnTheBench!ResolveDailyCost(e)
  BY <1>3
<1>8. OnTheBench!Findings(e) =
        [start |-> OnTheBench!BenchStart(e), days |-> n, daily |-> daily,
         accumulated |-> daily * n, severity |-> OnTheBench!SeverityFor(n)]
  BY <1>5, <1>6, <1>7, Zenon DEF OnTheBench!Findings
<1>9. daily * n \in Nat
  OBVIOUS
<1> QED
  BY <1>2, <1>4, <1>6, <1>8, <1>9 DEF Found

\* Rewriting an alert of an employee leaves the alerts in force, but the one it resolves.
LEMMA AlertRewritten ==
  ASSUME BenchType, NEW x \in 1..Len(alerts), NEW y \in Alert, y.employee = alerts[x].employee,
         alerts' = [alerts EXCEPT ![x] = y]
  PROVE  /\ alerts' \in Seq(Alert) /\ Len(alerts') = Len(alerts) /\ alerts'[x] = y
         /\ \A f : OnTheBench!ActiveAlerts(f)' \subseteq OnTheBench!ActiveAlerts(f) \cup {x}
         /\ y.status = alerts[x].status =>
              \A f : OnTheBench!ActiveAlerts(f)' = OnTheBench!ActiveAlerts(f)
         /\ y.status = "Resolved" =>
              \A f : OnTheBench!ActiveAlerts(f)' = OnTheBench!ActiveAlerts(f) \ {x}
<1>1. /\ alerts' \in Seq(Alert) /\ Len(alerts') = Len(alerts) /\ alerts'[x] = y
      /\ \A k \in 1..Len(alerts) : k # x => alerts'[k] = alerts[k]
  BY DEF BenchType
<1> QED
  BY <1>1 DEF OnTheBench!ActiveAlerts, OnTheBench!Rows

\* One more alert is in force for its employee alone.
LEMMA AlertAdded ==
  ASSUME BenchType, NEW y \in Alert, y.status = "Active", alerts' = Append(alerts, y)
  PROVE  /\ alerts' \in Seq(Alert) /\ alerts'[Len(alerts) + 1] = y
         /\ \A f : OnTheBench!ActiveAlerts(f)' =
              OnTheBench!ActiveAlerts(f) \cup (IF f = y.employee THEN {Len(alerts) + 1} ELSE {})
<1>1. /\ alerts' \in Seq(Alert) /\ Len(alerts') = Len(alerts) + 1 /\ Len(alerts) \in Nat
      /\ alerts'[Len(alerts) + 1] = y
      /\ \A k \in 1..Len(alerts) : alerts'[k] = alerts[k]
  BY DEF BenchType
<1> QED
  BY <1>1 DEF OnTheBench!ActiveAlerts, OnTheBench!Rows

\* What an evaluation makes of the alerts, and what it was decided by.
LEMMA EvaluationIs ==
  ASSUME BenchInv, NEW e \in Consultants, OnTheBench!RevenueGapAlertEvaluate(e)
  PROVE  LET days == OnTheBench!BenchDays(e)
             active == OnTheBench!ActiveAlerts(e)
             found == OnTheBench!Findings(e)
         IN \/ alerts' = alerts
               /\ (IF days = {} THEN active = {} \/ OnTheBench!Covering(e) = {}
                   ELSE Cardinality(days) < Threshold)
            \/ /\ days = {} /\ OnTheBench!Covering(e) # {}
               /\ \E x \in active : \E y \in Alert :
                    /\ active = {x} /\ alerts' = [alerts EXCEPT ![x] = y]
                    /\ y.employee = e /\ y.status = "Resolved"
            \/ /\ days # {} /\ active = {}
               /\ \E y \in Alert : /\ alerts' = Append(alerts, y)
                                   /\ y.employee = e /\ y.status = "Active"
                                   /\ y.found.days = Cardinality(days)
            \/ /\ days # {}
               /\ \E x \in active : \E y \in Alert :
                    /\ active = {x} /\ alerts' = [alerts EXCEPT ![x] = y]
                    /\ y.employee = e /\ y.status = "Active"
                    /\ y.found.days = Cardinality(days)
<1> DEFINE days == OnTheBench!BenchDays(e)
           active == OnTheBench!ActiveAlerts(e)
           found == OnTheBench!Findings(e)
           covering == OnTheBench!Covering(e)
           first == CHOOSE a \in covering : \A b \in covering : a <= b
<1>1. /\ \A x, y \in active : x = y
      /\ \A x \in active : /\ x \in 1..Len(alerts) /\ alerts[x] \in Alert
                           /\ alerts[x].employee = e /\ alerts[x].status = "Active"
  BY DEF BenchInv, BenchType, OneAlert, OnTheBench!ActiveAlerts, OnTheBench!Rows
<1>2. OnTheBench!Cardinality(days) = Cardinality(days)
  BY DEF OnTheBench!Cardinality, Cardinality
<1>3. alerts' = OnTheBench!Evaluated(e)
  BY DEF OnTheBench!RevenueGapAlertEvaluate
<1>4. CASE days = {}
  <2>1. CASE active = {} \/ covering = {}
    BY <1>3, <1>4, <2>1 DEF OnTheBench!Evaluated
  <2>2. CASE active # {} /\ covering # {}
    <3>1. PICK x \in active : x = CHOOSE z \in active : TRUE
      BY <2>2
    <3>2. alerts' = OnTheBench!Resolved(x, first)
      BY <1>3, <1>4, <2>2, <3>1 DEF OnTheBench!Evaluated
    <3>3. first \in Nat
      <4>1. covering \in SUBSET Nat
        BY DEF OnTheBench!Covering, OnTheBench!ActiveOf, OnTheBench!Rows
      <4> HIDE DEF covering
      <4>2. \E a \in covering : \A b \in covering : a <= b
        BY <2>2, <4>1, LeastExists
      <4> QED
        BY <4>1, <4>2
    <3> HIDE DEF first
    <3> DEFINE y == [alerts[x] EXCEPT !.status = "Resolved", !.by = first]
    <3>4. /\ alerts' = [alerts EXCEPT ![x] = y] /\ y \in Alert
          /\ y.employee = e /\ y.status = "Resolved" /\ active = {x}
      BY <1>1, <3>2, <3>3 DEF OnTheBench!Resolved, Alert, BenchInv, BenchType
    <3> QED
      BY <1>4, <2>2, <3>1, <3>4
  <2> QED
    BY <2>1, <2>2
<1>5. CASE days # {} /\ Cardinality(days) < Threshold
  BY <1>2, <1>3, <1>5 DEF OnTheBench!Evaluated
<1>6. CASE days # {} /\ ~(Cardinality(days) < Threshold)
  <2>1. found \in Found /\ found.days = Cardinality(days)
    BY <1>6, FindingsAre DEF BenchInv
  <2>2. CASE active = {}
    <3> DEFINE y == OnTheBench!NewAlert(e, found)
    <3>1. alerts' = Append(alerts, y)
      BY <1>2, <1>3, <1>6, <2>2 DEF OnTheBench!Evaluated
    <3>2. y \in Alert /\ y.employee = e /\ y.status = "Active" /\ y.found = found
      BY <2>1 DEF OnTheBench!NewAlert, Alert, OnTheBench!None
    <3> QED
      BY <1>6, <2>1, <2>2, <3>1, <3>2
  <2>3. CASE active # {}
    <3>1. PICK x \in active : x = CHOOSE z \in active : TRUE
      BY <2>3
    <3>2. alerts' = OnTheBench!Refreshed(x, found)
      BY <1>2, <1>3, <1>6, <2>3, <3>1 DEF OnTheBench!Evaluated
    <3> DEFINE rises == OnTheBench!Rank[found.severity] > OnTheBench!Rank[alerts[x].found.severity]
               y == [alerts[x] EXCEPT !.found = found, !.escalated = alerts[x].escalated \/ rises]
    <3> HIDE DEF rises
    <3>3. alerts' = [alerts EXCEPT ![x] = y]
      BY <1>1, <3>2 DEF OnTheBench!Refreshed, BenchInv, BenchType, rises
    <3>4. y \in Alert /\ y.employee = e /\ y.status = "Active" /\ y.found = found
      BY <1>1, <2>1 DEF Alert
    <3>5. active = {x}
      BY <1>1
    <3> QED
      BY <1>6, <2>1, <3>3, <3>4, <3>5
  <2> QED
    BY <2>2, <2>3
<1> QED
  BY <1>4, <1>5, <1>6

\* An evaluation keeps the alerts and tells the gap.
LEMMA EvaluationTells ==
  ASSUME BenchInv, NEW e \in Consultants, OnTheBench!RevenueGapAlertEvaluate(e)
  PROVE  BenchInv' /\ OnTheBench!TellsTheGap(e)
<1> DEFINE days == OnTheBench!BenchDays(e)
           active == OnTheBench!ActiveAlerts(e)
           covering == OnTheBench!Covering(e)
           Tells(n) == \E x \in active' : alerts'[x].employee = e /\ alerts'[x].found.days = n
<1>1. assignments' = assignments /\ now' = now
  BY DEF OnTheBench!RevenueGapAlertEvaluate
<1>2. OnTheBench!Cardinality(days) = Cardinality(days)
  BY DEF OnTheBench!Cardinality, Cardinality
<1>3. /\ Cardinality(days) \in Nat /\ (days = {} => Cardinality(days) = 0)
      /\ \A d \in days : ~OnTheBench!Covered(e, d) /\ d <= now
  BY BenchDaysAre, FS_CardinalityType, FS_EmptySet DEF BenchInv
<1>4. covering # {} => days = {}
  BY DEF OnTheBench!Covering, OnTheBench!BenchDays, OnTheBench!Covered
<1>5. \A x \in active : x \in 1..Len(alerts) /\ alerts[x].employee = e /\ alerts[x].status = "Active"
  BY DEF OnTheBench!ActiveAlerts, OnTheBench!Rows
<1>6. BenchType
  BY DEF BenchInv
<1> SUFFICES /\ alerts' \in Seq(Alert)
             /\ \A f \in Consultants : \A x, y \in OnTheBench!ActiveAlerts(f)' : x = y
             /\ Cardinality(days) >= Threshold => Tells(Cardinality(days))
             /\ covering # {} => active' = {}
             /\ active # active' /\ active # {} => covering # {}
  <2>1. active' \subseteq OnTheBench!ListActive'
    BY DEF OnTheBench!ListActive
  <2> HIDE DEF days, active, covering
  <2>2. OnTheBench!TellsTheGap(e)
    BY <1>2, <1>3, <2>1 DEF OnTheBench!TellsTheGap, days, active, covering
  <2>3. BenchInv'
    BY <1>1 DEF BenchInv, BenchType, OneAlert
  <2> QED
    BY <2>2, <2>3
<1>7. CASE /\ alerts' = alerts
           /\ (IF days = {} THEN active = {} \/ covering = {} ELSE Cardinality(days) < Threshold)
  <2>1. \A f : OnTheBench!ActiveAlerts(f)' = OnTheBench!ActiveAlerts(f)
    BY <1>7 DEF OnTheBench!ActiveAlerts, OnTheBench!Rows
  <2> HIDE DEF days, active, covering
  <2>2. ~(Cardinality(days) >= Threshold)
    BY <1>3, <1>7
  <2>3. covering # {} => active = {}
    BY <1>4, <1>7
  <2> QED
    BY <1>7, <2>1, <2>2, <2>3 DEF BenchInv, BenchType, OneAlert, active
<1>8. CASE /\ days = {} /\ covering # {}
           /\ \E x \in active : \E y \in Alert :
                /\ active = {x} /\ alerts' = [alerts EXCEPT ![x] = y]
                /\ y.employee = e /\ y.status = "Resolved"
  <2>1. PICK x \in active : \E y \in Alert :
                /\ active = {x} /\ alerts' = [alerts EXCEPT ![x] = y]
                /\ y.employee = e /\ y.status = "Resolved"
    BY <1>8
  <2>2. /\ alerts' \in Seq(Alert)
        /\ \A f : OnTheBench!ActiveAlerts(f)' = OnTheBench!ActiveAlerts(f) \ {x}
    BY <1>5, <1>6, <2>1, AlertRewritten
  <2>3. ~(Cardinality(days) >= Threshold)
    BY <1>3, <1>8
  <2>4. active' = {}
    BY <2>1, <2>2
  <2> QED
    BY <1>8, <2>2, <2>3, <2>4 DEF BenchInv, OneAlert
<1>9. CASE /\ days # {} /\ active = {}
           /\ \E y \in Alert : /\ alerts' = Append(alerts, y)
                               /\ y.employee = e /\ y.status = "Active"
                               /\ y.found.days = Cardinality(days)
  <2>1. PICK y \in Alert : /\ alerts' = Append(alerts, y)
                           /\ y.employee = e /\ y.status = "Active"
                           /\ y.found.days = Cardinality(days)
    BY <1>9
  <2>2. /\ alerts' \in Seq(Alert) /\ alerts'[Len(alerts) + 1] = y
        /\ \A f : OnTheBench!ActiveAlerts(f)' =
              OnTheBench!ActiveAlerts(f) \cup (IF f = e THEN {Len(alerts) + 1} ELSE {})
    BY <1>6, <2>1, AlertAdded
  <2>3. active' = {Len(alerts) + 1}
    BY <1>9, <2>2
  <2>4. Tells(Cardinality(days))
    BY <2>1, <2>2, <2>3
  <2>5. \A f \in Consultants : \A x, z \in OnTheBench!ActiveAlerts(f)' : x = z
    BY <1>9, <2>2 DEF BenchInv, OneAlert
  <2> QED
    BY <1>4, <1>9, <2>2, <2>4, <2>5
<1>10. CASE /\ days # {}
            /\ \E x \in active : \E y \in Alert :
                 /\ active = {x} /\ alerts' = [alerts EXCEPT ![x] = y]
                 /\ y.employee = e /\ y.status = "Active"
                 /\ y.found.days = Cardinality(days)
  <2>1. PICK x \in active : \E y \in Alert :
                 /\ active = {x} /\ alerts' = [alerts EXCEPT ![x] = y]
                 /\ y.employee = e /\ y.status = "Active"
                 /\ y.found.days = Cardinality(days)
    BY <1>10
  <2>2. PICK y \in Alert : /\ alerts' = [alerts EXCEPT ![x] = y]
                           /\ y.employee = e /\ y.status = "Active"
                           /\ y.found.days = Cardinality(days)
    BY <2>1
  <2>0. /\ x \in 1..Len(alerts)
        /\ y.employee = alerts[x].employee /\ y.status = alerts[x].status
    BY <1>5, <2>2
  <2>3. /\ alerts' \in Seq(Alert) /\ alerts'[x] = y
        /\ \A f : OnTheBench!ActiveAlerts(f)' = OnTheBench!ActiveAlerts(f)
    BY <1>6, <2>0, <2>2, AlertRewritten
  <2>4. Tells(Cardinality(days)) /\ active' = active
    BY <2>1, <2>2, <2>3
  <2> QED
    BY <1>4, <1>10, <2>3, <2>4 DEF BenchInv, OneAlert
<1> QED
  <2> HIDE DEF days, active, covering, Tells
  <2> QED
    BY <1>7, <1>8, <1>9, <1>10, EvaluationIs DEF days, active, covering

\* Bookings, days and dismissals leave the alerts in force.
LEMMA BenchStep == BenchInv /\ [OnTheBench!Next]_OnTheBench!vars => BenchInv'
<1> SUFFICES ASSUME BenchInv, [OnTheBench!Next]_OnTheBench!vars PROVE BenchInv'
  OBVIOUS
<1>1. ASSUME assignments' \in Seq(Booking), now' \in 1..MaxDay, alerts' = alerts PROVE BenchInv'
  BY <1>1 DEF BenchInv, BenchType, OneAlert, OnTheBench!ActiveAlerts, OnTheBench!Rows
<1>2. assignments \in Seq(Booking) /\ now \in 1..MaxDay /\ alerts \in Seq(Alert) /\ BenchType
  BY DEF BenchInv, BenchType
<1>3. CASE UNCHANGED OnTheBench!vars
  BY <1>1, <1>2, <1>3 DEF OnTheBench!vars
<1>4. ASSUME OnTheBench!NextDay PROVE BenchInv'
  BY <1>1, <1>2, <1>4 DEF OnTheBench!NextDay
<1>5. ASSUME NEW e \in Consultants, NEW start \in OnTheBench!Days, NEW end \in OnTheBench!Days,
             NEW rate \in Rates, OnTheBench!Assign(e, start, end, rate)
      PROVE  BenchInv'
  <2> DEFINE booking == [employee |-> e, status |-> "Active", start |-> start,
                         end |-> end, rate |-> rate, version |-> 1]
  <2>1. booking \in Booking
    BY DEF Booking, OnTheBench!Days
  <2>2. /\ assignments' = Append(assignments, booking)
        /\ UNCHANGED <<alerts, now>>
    BY <1>5 DEF OnTheBench!Assign
  <2> HIDE DEF booking
  <2> QED
    BY <1>1, <1>2, <2>1, <2>2
<1>6. ASSUME NEW e \in Consultants, NEW d, OnTheBench!LogPitch(e, d) PROVE BenchInv'
  BY <1>1, <1>2, <1>6 DEF OnTheBench!LogPitch
<1>7. ASSUME NEW e \in Consultants,
             \/ OnTheBench!EvaluateAfterCommit(e) \/ OnTheBench!EvaluationIsLost(e)
             \/ OnTheBench!Sweep(e)
      PROVE  BenchInv'
  BY <1>1, <1>2, <1>7, EvaluationTells
  DEF OnTheBench!EvaluateAfterCommit, OnTheBench!EvaluationIsLost, OnTheBench!Sweep
<1>8. ASSUME NEW a \in OnTheBench!Rows(assignments),
             \/ OnTheBench!Cancel(a)
             \/ \E start, end \in OnTheBench!Days : OnTheBench!Move(a, start, end)
      PROVE  BenchInv'
  <2>1. assignments[a] \in Booking /\ a \in DOMAIN assignments
    BY <1>2 DEF OnTheBench!Rows
  <2>0. PICK v \in Nat : v = assignments[a].version + 1
    BY <2>1 DEF Booking
  <2>2. CASE OnTheBench!Cancel(a)
    <3> DEFINE booking == [assignments[a] EXCEPT !.status = "Canceled", !.version = v]
    <3>1. booking \in Booking
      BY <2>1 DEF Booking
    <3>2. assignments' = [assignments EXCEPT ![a] = booking] /\ UNCHANGED <<alerts, now>>
      BY <1>2, <2>0, <2>1, <2>2 DEF OnTheBench!Cancel
    <3> HIDE DEF booking
    <3> QED
      BY <1>1, <1>2, <2>1, <3>1, <3>2
  <2>3. ASSUME NEW start \in OnTheBench!Days, NEW end \in OnTheBench!Days,
               OnTheBench!Move(a, start, end)
        PROVE  BenchInv'
    <3> DEFINE booking == [assignments[a] EXCEPT !.start = start, !.end = end, !.version = v]
    <3>1. booking \in Booking
      BY <2>1 DEF Booking, OnTheBench!Days
    <3>2. assignments' = [assignments EXCEPT ![a] = booking] /\ UNCHANGED <<alerts, now>>
      BY <1>2, <2>0, <2>1, <2>3 DEF OnTheBench!Move
    <3> HIDE DEF booking
    <3> QED
      BY <1>1, <1>2, <2>1, <3>1, <3>2
  <2> QED
    BY <1>8, <2>2, <2>3
<1>9. ASSUME NEW x \in OnTheBench!Rows(alerts),
             OnTheBench!DismissRead(x) \/ OnTheBench!DismissWrite(x)
      PROVE  BenchInv'
  <2>1. CASE OnTheBench!DismissRead(x)
    BY <1>1, <1>2, <2>1 DEF OnTheBench!DismissRead
  <2>2. CASE OnTheBench!DismissWrite(x)
    <3> DEFINE y == [alerts[x] EXCEPT !.dismissed = TRUE]
    <3>0. x \in 1..Len(alerts) /\ alerts[x] \in Alert
      BY <1>2 DEF OnTheBench!Rows
    <3>1. /\ y \in Alert
          /\ y.employee = alerts[x].employee /\ y.status = alerts[x].status
      BY <3>0 DEF Alert
    <3>2. alerts' = [alerts EXCEPT ![x] = y] /\ UNCHANGED <<assignments, now>>
      BY <1>2, <2>2, <3>0 DEF OnTheBench!DismissWrite
    <3> HIDE DEF y
    <3>3. /\ alerts' \in Seq(Alert)
          /\ \A f : OnTheBench!ActiveAlerts(f)' = OnTheBench!ActiveAlerts(f)
      BY <1>2, <3>0, <3>1, <3>2, AlertRewritten
    <3> QED
      BY <1>2, <3>2, <3>3 DEF BenchInv, BenchType, OneAlert
  <2> QED
    BY <1>9, <2>1, <2>2
<1> QED
  BY <1>3, <1>4, <1>5, <1>6, <1>7, <1>8, <1>9 DEF OnTheBench!Next

\* Every behaviour of the workforce is one of each of its parts.
LEMMA WorkforceIsItsParts == WorkforceSpec => Spec /\ Calendar!Spec /\ OnTheBench!Spec
<1>1. WorkforceInit => Init /\ Calendar!Init /\ OnTheBench!Init
  BY DEF WorkforceInit
<1>2. [WorkforceNext]_allVars => [Next]_vars /\ [Calendar!Next]_Calendar!vars
                                 /\ [OnTheBench!Next]_OnTheBench!vars
  BY DEF WorkforceNext, allVars, OfLine, OfCalendar, OfBench, calendarVars, benchVars, vars,
         Calendar!vars, OnTheBench!vars
<1> QED
  BY <1>1, <1>2, PTL DEF WorkforceSpec, Spec, Calendar!Spec, OnTheBench!Spec

\* Whatever is booked, moved, lost, dismissed and swept, an evaluation leaves the truth
\* behind, and there is never a second alert in force for it to stumble over.
THEOREM GapIsTold == WorkforceSpec => []OneAlert /\ AlertsTellTheGap
<1>1. OnTheBench!Init => BenchInv
  BY DEF OnTheBench!Init, BenchInv, BenchType, OneAlert, OnTheBench!ActiveAlerts, OnTheBench!Rows
<1>2. BenchInv => OneAlert
  BY DEF BenchInv
<1> DEFINE Told == \A e \in Consultants :
             OnTheBench!EvaluateAfterCommit(e) \/ OnTheBench!Sweep(e) => OnTheBench!TellsTheGap(e)
<1>3. BenchInv /\ [OnTheBench!Next]_OnTheBench!vars => [Told]_OnTheBench!vars
  BY EvaluationTells DEF OnTheBench!EvaluateAfterCommit, OnTheBench!Sweep
<1>4. OnTheBench!AlertsTellTheGap <=> [][Told]_OnTheBench!vars
  BY DEF OnTheBench!AlertsTellTheGap
<1> HIDE DEF Told
<1> QED
  BY <1>1, <1>2, <1>3, <1>4, BenchStep, WorkforceIsItsParts, PTL DEF AlertsTellTheGap, OnTheBench!Spec

-----------------------------------------------------------------------------
(* The calendar *)

HIDE CalendarAssumption
HIDE BenchAssumption

\* A step of the walk back along the versions, and the walk.
StepBy(walk, cs, d, c) ==
  IF c = 0 THEN 0 ELSE IF cs[c].created <= d THEN c ELSE walk[cs[c].supersedes]
IsWalk(walk, cs, n, d) == walk = [c \in 0..n |-> StepBy(walk, cs, d, c)]
WalkBy(cs, n, d) == CHOOSE walk : IsWalk(walk, cs, n, d)

\* Versions supersede earlier ones.
Backwards(cs, n) == \A c \in 1..n : cs[c].supersedes \in 0..(c - 1)
\* The rows of one table are those of the other, as far as a walk sees them.
SameSteps(cs, ds, n) ==
  \A c \in 1..n : ds[c].supersedes = cs[c].supersedes /\ ds[c].created = cs[c].created
Steps(walk, cs, n, d) == \A c \in 0..n : walk[c] = StepBy(walk, cs, d, c)
Alike(f, g, n) == \A c \in 0..n : g[c] = f[c] /\ f[c] \in 0..c

\* A walk back along a table ends: there is one function that describes it.
LEMMA WalkExists ==
  ASSUME NEW n \in Nat, NEW cs, Backwards(cs, n), NEW d
  PROVE  \E f : IsWalk(f, cs, n, d)
<1> USE DEF Backwards, IsWalk
<1> DEFINE Walks(f, m) ==
             f = [c \in 0..m |-> StepBy(f, cs, d, c)]
           Bad == {m \in 0..n : ~\E f : Walks(f, m)}
<1>1. CASE Bad = {}
  <2>1. n \in 0..n
    OBVIOUS
  <2> QED
    BY <1>1, <2>1
<1>2. CASE Bad # {}
  <2>1. Bad \in SUBSET Nat
    OBVIOUS
  <2>2. \A x : x \in Bad <=> x \in 0..n /\ ~\E f : Walks(f, x)
    OBVIOUS
  <2> HIDE DEF Bad
  <2>3. PICK m \in Bad : \A other \in Bad : m <= other
    BY <1>2, <2>1, LeastExists
  <2>4. m \in 0..n /\ ~\E f : Walks(f, m)
    BY <2>2
  <2>5. CASE m = 0
    <3> DEFINE f == [c \in 0..m |-> 0]
    <3>1. \A c \in 0..m : c = 0
      BY <2>5
    <3>2. Walks(f, m)
      BY <3>1 DEF StepBy
    <3> QED
      BY <2>4, <3>2
  <2>6. CASE m # 0
    <3>1. m - 1 \in 0..n /\ m - 1 \notin Bad /\ m \in 1..n
      BY <2>3, <2>4, <2>6
    <3>2. PICK f : Walks(f, m - 1)
      BY <2>2, <3>1
    <3> DEFINE g == [c \in 0..m |-> IF c # m THEN f[c]
                                    ELSE IF cs[c].created <= d THEN c ELSE f[cs[c].supersedes]]
    <3>3. \A c \in 0..m : g[c] = IF c = 0 THEN 0 ELSE IF cs[c].created <= d THEN c
                                                  ELSE g[cs[c].supersedes]
      <4>1. ASSUME NEW c \in 0..m, c # 0
            PROVE  /\ cs[c].supersedes \in 0..(m - 1)
                   /\ g[cs[c].supersedes] = f[cs[c].supersedes]
        <5>1. cs[c].supersedes \in 0..(c - 1)
          BY <2>4, <4>1
        <5> QED
          BY <4>1, <5>1, <3>1
      <4>2. ASSUME NEW c \in 0..(m - 1)
            PROVE  f[c] = IF c = 0 THEN 0 ELSE IF cs[c].created <= d THEN c ELSE f[cs[c].supersedes]
        BY <3>2 DEF StepBy
      <4>3. ASSUME NEW c \in 0..m, c # m PROVE c \in 0..(m - 1) /\ g[c] = f[c]
        BY <3>1, <4>3
      <4>4. g[m] = (IF cs[m].created <= d THEN m ELSE f[cs[m].supersedes])
        BY <3>1
      <4> HIDE DEF g
      <4> QED
        BY <2>6, <4>1, <4>2, <4>3, <4>4
    <3>4. g = [c \in 0..m |-> g[c]]
      OBVIOUS
    <3> HIDE DEF g
    <3>5. Walks(g, m)
      BY <3>3, <3>4 DEF StepBy
    <3> QED
      BY <2>4, <3>5
  <2> QED
    BY <2>5, <2>6
<1> QED
  BY <1>1, <1>2

\* And two that walk the same edges and stop at the same rows agree.
LEMMA WalksAgree ==
  ASSUME NEW n \in Nat, NEW m \in Nat, n <= m, NEW cs, NEW ds, NEW d, NEW f, NEW g,
         Backwards(cs, n), SameSteps(cs, ds, n), Steps(f, cs, n, d), Steps(g, ds, m, d)
  PROVE  Alike(f, g, n)
<1> USE DEF Backwards, SameSteps, Steps, Alike
<1> DEFINE Bad == {c \in 0..n : ~(g[c] = f[c] /\ f[c] \in 0..c)}
<1>1. CASE Bad = {}
  BY <1>1
<1>2. CASE Bad # {}
  <2>1. Bad \in SUBSET Nat
    OBVIOUS
  <2>2. \A x : x \in Bad <=> x \in 0..n /\ ~(g[x] = f[x] /\ f[x] \in 0..x)
    OBVIOUS
  <2> HIDE DEF Bad
  <2>3. PICK c \in Bad : \A other \in Bad : c <= other
    BY <1>2, <2>1, LeastExists
  <2>4. c \in 0..n /\ c \in 0..m /\ ~(g[c] = f[c] /\ f[c] \in 0..c)
    BY <2>2
  <2>5. CASE c = 0
    BY <2>4, <2>5 DEF StepBy
  <2>6. CASE c # 0
    <3>1. /\ c \in 1..n /\ cs[c].supersedes \in 0..(c - 1) /\ ds[c].supersedes = cs[c].supersedes
          /\ cs[c].created = ds[c].created
      BY <2>4, <2>6
    <3>2. PICK b \in 0..(c - 1) : b = cs[c].supersedes /\ b = ds[c].supersedes
      BY <3>1
    <3>3. b \in 0..n /\ ~(c <= b)
      BY <3>1, <3>2
    <3>4. b \notin Bad
      BY <2>3, <3>3
    <3>5. g[b] = f[b] /\ f[b] \in 0..b
      BY <2>2, <3>3, <3>4
    <3>6. f[c] = (IF cs[c].created <= d THEN c ELSE f[b])
          /\ g[c] = (IF ds[c].created <= d THEN c ELSE g[b])
      BY <2>4, <2>6, <3>2 DEF StepBy
    <3>7. f[b] \in 0..c /\ c \in 0..c
      BY <3>1, <3>2, <3>5
    <3> QED
      BY <2>4, <3>1, <3>5, <3>6, <3>7
  <2> QED
    BY <2>5, <2>6
<1> QED
  BY <1>1, <1>2

Version == [entity : Entities, status : {"Active", "Superseded"}, version : Nat, created : Nat,
            week : Weeks, start : StartDays \cup {1}, reduced : ReducedDays \cup {{}},
            supersedes : Nat]
Where == {kind.where : kind \in HolidayKinds}
Half == {kind.half : kind \in HolidayKinds}
Holiday == [calendar : Nat, status : {"Active", "Canceled"}, version : Nat, date : HolidayDates,
            where : Where, half : Half, confirmed : BOOLEAN]
Pattern == [employee : Residents, status : {"Active", "Superseded"}, version : Nat,
            week : PatternWeeks, from : 1..MaxDay, to : 1..(MaxDay + 1)]

CalendarType ==
  /\ calendars \in Seq(Version) /\ holidays \in Seq(Holiday) /\ patterns \in Seq(Pattern)
  /\ today \in 1..MaxDay

\* A version supersedes an earlier one, and an entity has one in force.
VersionsOK ==
  /\ \A c \in 1..Len(calendars) : calendars[c].supersedes < c
  /\ \A entity \in Entities : \A c, x \in Calendar!ActiveCalendars(entity) : c = x

\* A holiday is one of a version there is.
HolidaysOK == \A h \in 1..Len(holidays) : holidays[h].calendar \in 1..Len(calendars)

\* A pattern does not end before it begins, a current one does not end, and an employee has
\* one.
PatternsOK ==
  /\ \A p \in 1..Len(patterns) : /\ patterns[p].from <= patterns[p].to
                                 /\ patterns[p].status = "Active" => patterns[p].to = MaxDay + 1
  /\ \A e \in Residents : \A p, q \in Calendar!CurrentPatterns(e) : p = q

\* What a transaction in flight has read is still there.
RequestOK(r) ==
  /\ r.op \in {"add", "confirm", "cancel"}
  /\ r.op = "add" =>
       r.calendar \in 1..Len(calendars) /\ r.date \in HolidayDates /\ r.kind \in HolidayKinds
  /\ r.op = "confirm" => r.holiday \in 1..Len(holidays) /\ r.date \in HolidayDates
  /\ r.op = "cancel" => r.holiday \in 1..Len(holidays)
RequestsOK == \A r \in pending : RequestOK(r)

CalendarInv == CalendarType /\ VersionsOK /\ HolidaysOK /\ PatternsOK /\ RequestsOK

-----------------------------------------------------------------------------
\* What an update does to the versions.
Updated(c, week, start, reduced) ==
  LET n == Len(calendars) + 1
  IN /\ calendars' \in Seq(Version) /\ Len(calendars') = n /\ n \in Nat
     /\ calendars'[n] = Calendar!NewCalendar(calendars[c].entity, week, start, reduced, c)
     /\ \A x \in 1..Len(calendars) :
          /\ calendars'[x].supersedes = calendars[x].supersedes
          /\ calendars'[x].created = calendars[x].created
          /\ calendars'[x].entity = calendars[x].entity
          /\ calendars'[x].week = calendars[x].week
          /\ calendars'[x].reduced = calendars[x].reduced
          /\ x # c => calendars'[x] = calendars[x]
     /\ calendars[c].status = "Active" /\ calendars'[c].status = "Superseded"
     /\ \A entity \in Entities : Calendar!ActiveCalendars(entity)' =
          IF entity = calendars[c].entity THEN {n} ELSE Calendar!ActiveCalendars(entity)

\* An update of a calendar leaves one version in force where there was one.
LEMMA UpdateVersions ==
  ASSUME CalendarInv, NEW c \in Calendar!Rows(calendars), NEW v,
         NEW week \in Weeks, NEW start \in StartDays, NEW reduced \in ReducedDays,
         Calendar!CalendarUpdate(c, v, week, start, reduced)
  PROVE  Updated(c, week, start, reduced)
<1> DEFINE n == Len(calendars) + 1
           new == Calendar!NewCalendar(calendars[c].entity, week, start, reduced, c)
<1>1. /\ calendars \in Seq(Version) /\ Len(calendars) \in Nat /\ n \in Nat /\ today \in Nat
      /\ c \in 1..Len(calendars) /\ calendars[c] \in Version
  BY DEF CalendarInv, CalendarType, Calendar!Rows
<1>2. new \in Version /\ new.entity = calendars[c].entity /\ new.status = "Active"
  BY <1>1 DEF Calendar!NewCalendar, Version
<1>3. PICK next \in Nat : next = calendars[c].version + 1
  BY <1>1 DEF Version
<1> DEFINE row == [calendars[c] EXCEPT !.status = "Superseded", !.version = next]
<1>4. /\ row \in Version /\ row.supersedes = calendars[c].supersedes /\ row.status = "Superseded"
      /\ row.created = calendars[c].created /\ row.entity = calendars[c].entity
      /\ row.week = calendars[c].week /\ row.reduced = calendars[c].reduced
  BY <1>1 DEF Version
<1>5. calendars[c].status = "Active" /\ calendars' = Append([calendars EXCEPT ![c] = row], new)
  BY <1>1, <1>3 DEF Calendar!CalendarUpdate
<1> HIDE DEF row, new
<1>6. /\ calendars' \in Seq(Version) /\ Len(calendars') = n
      /\ calendars'[n] = new /\ calendars'[c] = row
      /\ \A x \in 1..Len(calendars) : x # c => calendars'[x] = calendars[x]
  BY <1>1, <1>2, <1>4, <1>5
<1>7. ASSUME NEW entity \in Entities
      PROVE  Calendar!ActiveCalendars(entity)' =
               IF entity = calendars[c].entity THEN {n} ELSE Calendar!ActiveCalendars(entity)
  <2>1. \A x : x \in Calendar!ActiveCalendars(entity)' <=>
                 x \in 1..n /\ calendars'[x].entity = entity /\ calendars'[x].status = "Active"
    BY <1>6 DEF Calendar!ActiveCalendars, Calendar!Rows
  <2>2. \A x : x \in Calendar!ActiveCalendars(entity) <=>
                 /\ x \in 1..Len(calendars) /\ calendars[x].entity = entity
                 /\ calendars[x].status = "Active"
    BY DEF Calendar!ActiveCalendars, Calendar!Rows
  <2>3. \A x \in 1..n : x = n \/ x \in 1..Len(calendars)
    BY <1>1
  <2>4. n \in 1..n /\ n \notin 1..Len(calendars) /\ \A x \in 1..Len(calendars) : x \in 1..n
    BY <1>1
  <2>5. CASE entity = calendars[c].entity
    <3>1. c \in Calendar!ActiveCalendars(entity)
      BY <1>1, <1>5, <2>2, <2>5
    <3>2. \A x \in Calendar!ActiveCalendars(entity) : x = c
      BY <3>1 DEF CalendarInv, VersionsOK
    <3>3. \A x : x \in Calendar!ActiveCalendars(entity)' <=> x = n
      BY <1>2, <1>4, <1>6, <2>1, <2>2, <2>3, <2>4, <2>5, <3>2
    <3> QED
      BY <2>5, <3>3
  <2>6. CASE entity # calendars[c].entity
    <3>1. \A x : x \in Calendar!ActiveCalendars(entity)' <=> x \in Calendar!ActiveCalendars(entity)
      BY <1>2, <1>4, <1>6, <2>1, <2>2, <2>3, <2>4, <2>6
    <3> QED
      BY <2>6, <3>1
  <2> QED
    BY <2>5, <2>6
<1> QED
  BY <1>1, <1>4, <1>5, <1>6, <1>7 DEF new, Updated

\* A holiday as it is carried to another version.
CarriedTo(n, h) == [holidays[h] EXCEPT !.calendar = n, !.version = 1]

\* Ids that are listed are all of them.
LEMMA IdsAre ==
  ASSUME NEW S, IsFiniteSet(S)
  PROVE  LET ids == Calendar!SetToSeq(S)
         IN /\ Len(ids) \in Nat /\ ids \in [1..Len(ids) -> S]
            /\ \A h \in S : \E i \in 1..Len(ids) : ids[i] = h
<1> DEFINE ids == Calendar!SetToSeq(S)
           size == Cardinality(S)
<1>1. size \in Nat
  BY FS_CardinalityType
<1>2. PICK bijection : bijection \in Bijection(1..size, S)
  BY FS_CardinalityType DEF ExistsBijection
<1>3. Calendar!Cardinality(S) = size
  BY DEF Calendar!Cardinality, Cardinality
<1>4. ids = CHOOSE f \in [1..size -> S] : Calendar!IsInjective(f)
  BY <1>3 DEF Calendar!SetToSeq
<1>5. bijection \in [1..size -> S] /\ Calendar!IsInjective(bijection)
  BY <1>2 DEF Bijection, Injection, IsInjective, Calendar!IsInjective
<1> HIDE DEF ids, size
<1>6. ids \in [1..size -> S] /\ Calendar!IsInjective(ids)
  BY <1>4, <1>5, Zenon
<1>7. ids \in Injection(1..size, S)
  BY <1>6 DEF Injection, IsInjective, Calendar!IsInjective
<1>8. ids \in Surjection(1..size, S)
  <2>1. IsFiniteSet(1..size) /\ Cardinality(1..size) = size
    BY <1>1, FS_Interval
  <2> QED
    BY <1>7, <2>1, FS_Injection DEF size
<1>9. \A h \in S : \E i \in 1..size : ids[i] = h
  BY <1>8 DEF Surjection
<1>10. Len(ids) = size
  BY <1>1, <1>6
<1> QED
  BY <1>1, <1>6, <1>9, <1>10 DEF ids

\* The active holidays of a version are finitely many.
LEMMA HolidaysAreFinite ==
  ASSUME CalendarInv, NEW c
  PROVE  /\ IsFiniteSet(Calendar!HolidaysOf(c))
         /\ \A h \in Calendar!HolidaysOf(c) : holidays[h] \in Holiday /\ holidays[h].status = "Active"
<1>1. /\ holidays \in Seq(Holiday) /\ Len(holidays) \in Nat
      /\ Calendar!HolidaysOf(c) \subseteq 1..Len(holidays)
      /\ \A h \in Calendar!HolidaysOf(c) : holidays[h] \in Holiday /\ holidays[h].status = "Active"
  BY DEF CalendarInv, CalendarType, Calendar!HolidaysOf, Calendar!Rows
<1>2. IsFiniteSet(1..Len(holidays))
  <2>1. Len(holidays) \in Nat
    BY <1>1
  <2> QED
    BY <2>1, FS_Interval
<1> QED
  BY <1>1, <1>2, FS_Subset

\* The carried holidays are the active ones of the version that is replaced, and each of
\* them once.
LEMMA HolidaysCarried ==
  ASSUME CalendarInv, NEW c, NEW n \in Nat
  PROVE  LET S == Calendar!HolidaysOf(c)
             carried == Calendar!CarriedHolidays(c, n)
         IN /\ IsFiniteSet(S) /\ Len(carried) \in Nat
            /\ carried \in Seq(Holiday)
            /\ \A i \in 1..Len(carried) :
                 \E h \in S : carried[i] = CarriedTo(n, h)
            /\ \A h \in S : \E i \in 1..Len(carried) :
                 carried[i] = CarriedTo(n, h)
<1> DEFINE S == Calendar!HolidaysOf(c)
           ids == Calendar!SetToSeq(S)
           size == Len(ids)
           carried == Calendar!CarriedHolidays(c, n)
<1>1. IsFiniteSet(S) /\ \A h \in S : holidays[h] \in Holiday
  BY HolidaysAreFinite
<1> HIDE DEF S
<1>2. /\ size \in Nat /\ ids \in [1..size -> S]
      /\ \A h \in S : \E i \in 1..size : ids[i] = h
  BY <1>1, IdsAre
<1>3. carried = [i \in 1..size |-> CarriedTo(n, ids[i])]
  BY DEF Calendar!CarriedHolidays, Calendar!Rows, CarriedTo, ids, S
<1> HIDE DEF ids, size
<1>4. \A h \in S : CarriedTo(n, h) \in Holiday
  BY <1>1 DEF Holiday, CarriedTo
<1> HIDE DEF carried
<1>5. carried \in Seq(Holiday) /\ Len(carried) = size
  <2>1. \A i \in 1..size : CarriedTo(n, ids[i]) \in Holiday
    BY <1>2, <1>4
  <2>2. carried \in [1..size -> Holiday]
    BY <1>3, <2>1
  <2> QED
    BY <1>2, <2>2
<1>6. \A i \in 1..size : ids[i] \in S /\ carried[i] = CarriedTo(n, ids[i])
  BY <1>2, <1>3
<1>7. /\ \A i \in 1..size : \E h \in S : carried[i] = CarriedTo(n, h)
      /\ \A h \in S : \E i \in 1..size : carried[i] = CarriedTo(n, h)
  BY <1>2, <1>6
<1>8. /\ IsFiniteSet(S) /\ Len(carried) \in Nat /\ carried \in Seq(Holiday)
      /\ \A i \in 1..Len(carried) : \E h \in S : carried[i] = CarriedTo(n, h)
      /\ \A h \in S : \E i \in 1..Len(carried) : carried[i] = CarriedTo(n, h)
  BY <1>1, <1>2, <1>5, <1>7
<1> QED
  BY <1>8 DEF S, carried

\* Rows that are added leave what a transaction in flight has read.
LEMMA RequestsStay ==
  ASSUME CalendarInv, Len(calendars') \in Nat, Len(calendars) <= Len(calendars'),
         Len(holidays') \in Nat, Len(holidays) <= Len(holidays'),
         \A r \in pending' : r \in pending \/ RequestOK(r)
  PROVE  RequestsOK'
<1>1. /\ 1..Len(calendars) \subseteq 1..Len(calendars')
      /\ 1..Len(holidays) \subseteq 1..Len(holidays')
  BY DEF CalendarInv, CalendarType
<1>2. \A r \in pending' : RequestOK(r)
  BY DEF CalendarInv, RequestsOK
<1> QED
  BY <1>1, <1>2 DEF RequestsOK, RequestOK

\* One table after another.
LEMMA TablesJoin ==
  ASSUME NEW Row, NEW s \in Seq(Row), NEW t \in Seq(Row)
  PROVE  /\ s \o t \in Seq(Row) /\ Len(s \o t) = Len(s) + Len(t)
         /\ Len(s) \in Nat /\ Len(t) \in Nat
         /\ \A k \in 1..Len(s) : (s \o t)[k] = s[k]
         /\ \A k \in 1..Len(s \o t) : k \notin 1..Len(s) =>
              k - Len(s) \in 1..Len(t) /\ (s \o t)[k] = t[k - Len(s)]
<1>1. Len(s) \in Nat /\ Len(t) \in Nat /\ s \o t \in Seq(Row) /\ Len(s \o t) = Len(s) + Len(t)
  OBVIOUS
<1>2. \A k \in 1..Len(s) : (s \o t)[k] = s[k]
  BY <1>1
<1>3. ASSUME NEW k \in 1..Len(s \o t), k \notin 1..Len(s)
      PROVE  k - Len(s) \in 1..Len(t) /\ (s \o t)[k] = t[k - Len(s)]
  BY <1>1, <1>3
<1> QED
  BY <1>1, <1>2, <1>3

\* An update of a calendar adds the holidays it carries after those there are.
LEMMA UpdateHolidays ==
  ASSUME CalendarInv, NEW c \in Calendar!Rows(calendars), NEW v,
         NEW week, NEW start, NEW reduced, Calendar!CalendarUpdate(c, v, week, start, reduced)
  PROVE  LET n == Len(calendars) + 1
         IN /\ holidays' \in Seq(Holiday) /\ Len(holidays') \in Nat /\ Len(holidays) \in Nat
            /\ Len(holidays) <= Len(holidays')
            /\ \A k \in 1..Len(holidays) : holidays'[k] = holidays[k]
            /\ \A k \in 1..Len(holidays') : k \notin 1..Len(holidays) =>
                 \E h \in Calendar!HolidaysOf(c) : holidays'[k] = CarriedTo(n, h)
            /\ \A h \in Calendar!HolidaysOf(c) : \E k \in 1..Len(holidays') :
                 k \notin 1..Len(holidays) /\ holidays'[k] = CarriedTo(n, h)
            /\ \A h \in Calendar!HolidaysOf(c) :
                 CarriedTo(n, h).calendar = n /\ CarriedTo(n, h).status = "Active"
            /\ UNCHANGED <<patterns, today, pending>>
<1> DEFINE n == Len(calendars) + 1
           S == Calendar!HolidaysOf(c)
           carried == Calendar!CarriedHolidays(c, n)
<1>1. n \in Nat
  BY DEF CalendarInv, CalendarType
<1>2. /\ carried \in Seq(Holiday) /\ Len(carried) \in Nat
      /\ \A i \in 1..Len(carried) : \E h \in S : carried[i] = CarriedTo(n, h)
      /\ \A h \in S : \E i \in 1..Len(carried) : carried[i] = CarriedTo(n, h)
  <2>1. ASSUME NEW m \in Nat
        PROVE  LET new == Calendar!CarriedHolidays(c, m)
               IN /\ new \in Seq(Holiday) /\ Len(new) \in Nat
                  /\ \A i \in 1..Len(new) : \E h \in S : new[i] = CarriedTo(m, h)
                  /\ \A h \in S : \E i \in 1..Len(new) : new[i] = CarriedTo(m, h)
    BY HolidaysCarried
  <2> HIDE DEF n
  <2> QED
    BY <1>1, <2>1
<1>3. /\ holidays' = holidays \o carried /\ UNCHANGED <<patterns, today, pending>>
  BY DEF Calendar!CalendarUpdate
<1>4. holidays \in Seq(Holiday)
  BY DEF CalendarInv, CalendarType
<1>5. \A h \in S : CarriedTo(n, h).calendar = n /\ CarriedTo(n, h).status = "Active"
  <2>1. \A h \in S : /\ h \in 1..Len(holidays) /\ holidays[h] \in Holiday
                     /\ holidays[h].status = "Active"
    BY <1>4 DEF Calendar!HolidaysOf, Calendar!Rows
  <2> QED
    BY <2>1 DEF Holiday, CarriedTo
<1> HIDE DEF carried, S, n
<1>6. PICK s \in Seq(Holiday), t \in Seq(Holiday) : s = holidays /\ t = carried
  BY <1>2, <1>4
<1>7. /\ s \o t \in Seq(Holiday) /\ Len(s \o t) = Len(s) + Len(t)
      /\ Len(s) \in Nat /\ Len(t) \in Nat
      /\ \A k \in 1..Len(s) : (s \o t)[k] = s[k]
      /\ \A k \in 1..Len(s \o t) : k \notin 1..Len(s) =>
           k - Len(s) \in 1..Len(t) /\ (s \o t)[k] = t[k - Len(s)]
  BY TablesJoin
<1>8. PICK u : u = s \o t
  OBVIOUS
<1>9. /\ u \in Seq(Holiday) /\ Len(u) = Len(s) + Len(t) /\ Len(s) <= Len(u) /\ Len(u) \in Nat
      /\ \A k \in 1..Len(s) : u[k] = s[k]
      /\ \A k \in 1..Len(u) : k \notin 1..Len(s) =>
           k - Len(s) \in 1..Len(t) /\ u[k] = t[k - Len(s)]
  BY <1>7, <1>8
<1>10. \A h \in S : \E k \in 1..Len(u) : k \notin 1..Len(s) /\ u[k] = CarriedTo(n, h)
  <2> SUFFICES ASSUME NEW h \in S
               PROVE  \E k \in 1..Len(u) : k \notin 1..Len(s) /\ u[k] = CarriedTo(n, h)
    OBVIOUS
  <2>1. PICK i \in 1..Len(t) : t[i] = CarriedTo(n, h)
    BY <1>2, <1>6
  <2>2. PICK k : k = Len(s) + i
    OBVIOUS
  <2>3. k \in 1..Len(u) /\ k \notin 1..Len(s) /\ k - Len(s) = i
    BY <1>7, <1>9, <2>2
  <2>4. u[k] = t[i]
    BY <1>9, <2>3
  <2> QED
    BY <2>1, <2>3, <2>4
<1>11. \A k \in 1..Len(u) : k \notin 1..Len(s) => \E h \in S : u[k] = CarriedTo(n, h)
  BY <1>2, <1>6, <1>9
<1>12. holidays' = u
  BY <1>3, <1>6, <1>8
<1> QED
  BY <1>3, <1>5, <1>6, <1>7, <1>9, <1>10, <1>11, <1>12 DEF S, n

\* The rows of a calendar stay well formed when it is updated.
LEMMA UpdateKeeps ==
  ASSUME CalendarInv, NEW c \in Calendar!Rows(calendars), NEW v,
         NEW week \in Weeks, NEW start \in StartDays, NEW reduced \in ReducedDays,
         Calendar!CalendarUpdate(c, v, week, start, reduced)
  PROVE  CalendarInv'
<1> DEFINE n == Len(calendars) + 1
<1>1. /\ calendars' \in Seq(Version) /\ Len(calendars') = n /\ n \in Nat
      /\ calendars'[n] = Calendar!NewCalendar(calendars[c].entity, week, start, reduced, c)
      /\ \A x \in 1..Len(calendars) :
           /\ calendars'[x].supersedes = calendars[x].supersedes
           /\ calendars'[x].created = calendars[x].created
           /\ calendars'[x].entity = calendars[x].entity
           /\ calendars'[x].week = calendars[x].week
           /\ calendars'[x].reduced = calendars[x].reduced
           /\ x # c => calendars'[x] = calendars[x]
      /\ calendars[c].status = "Active" /\ calendars'[c].status = "Superseded"
      /\ \A entity \in Entities : Calendar!ActiveCalendars(entity)' =
           IF entity = calendars[c].entity THEN {n} ELSE Calendar!ActiveCalendars(entity)
  <2>1. Updated(c, week, start, reduced)
    BY UpdateVersions
  <2> QED
    BY <2>1 DEF Updated
<1>2. /\ holidays' \in Seq(Holiday) /\ Len(holidays') \in Nat /\ Len(holidays) <= Len(holidays')
      /\ \A k \in 1..Len(holidays) : holidays'[k] = holidays[k]
      /\ \A k \in 1..Len(holidays') : k \notin 1..Len(holidays) => holidays'[k].calendar = n
      /\ UNCHANGED <<patterns, today, pending>>
  BY UpdateHolidays
<1>4. /\ calendars \in Seq(Version) /\ holidays \in Seq(Holiday) /\ Len(calendars) \in Nat
      /\ Len(holidays) \in Nat
      /\ \A h \in 1..Len(holidays) : holidays[h].calendar \in 1..Len(calendars)
      /\ \A x \in 1..Len(calendars) : calendars[x].supersedes < x
      /\ c \in 1..Len(calendars)
  BY DEF CalendarInv, CalendarType, HolidaysOK, VersionsOK, Calendar!Rows
<1>7. HolidaysOK'
  <2> SUFFICES ASSUME NEW h \in 1..Len(holidays') PROVE holidays'[h].calendar \in 1..n
    BY <1>1 DEF HolidaysOK
  <2>1. CASE h \in 1..Len(holidays)
    <3>1. holidays'[h].calendar \in 1..Len(calendars)
      BY <1>2, <1>4, <2>1
    <3>2. Len(calendars) \in Nat /\ n = Len(calendars) + 1
      BY <1>4
    <3> QED
      BY <3>1, <3>2
  <2>2. CASE h \notin 1..Len(holidays)
    <3>1. holidays'[h].calendar = n
      BY <1>2, <2>2
    <3> QED
      BY <1>1, <3>1
  <2> QED
    BY <2>1, <2>2
<1>8. VersionsOK'
  <2>1. calendars'[n].supersedes = c /\ c < n
    BY <1>1, <1>4 DEF Calendar!NewCalendar
  <2>0. Len(calendars) \in Nat
    BY <1>4
  <2>2. \A x \in 1..n : x = n \/ x \in 1..Len(calendars)
    BY <2>0
  <2>3. \A x \in 1..Len(calendars') : calendars'[x].supersedes < x
    BY <1>1, <1>4, <2>1, <2>2
  <2> QED
    BY <1>1, <2>3 DEF CalendarInv, VersionsOK
<1>9. CalendarType' /\ PatternsOK'
  <2>1. CalendarType'
    BY <1>1, <1>2 DEF CalendarInv, CalendarType
  <2>2. patterns' = patterns /\ PatternsOK
    BY <1>2 DEF CalendarInv
  <2>3. \A e : Calendar!CurrentPatterns(e)' = Calendar!CurrentPatterns(e)
    BY <2>2 DEF Calendar!CurrentPatterns, Calendar!Rows
  <2> QED
    BY <2>1, <2>2, <2>3 DEF PatternsOK
<1>10. RequestsOK'
  <2>1. Len(calendars) <= n /\ n \in Nat
    <3>1. Len(calendars) \in Nat
      BY <1>4
    <3> QED
      BY <3>1
  <2> HIDE DEF n
  <2>2. Len(calendars') \in Nat /\ Len(calendars) <= Len(calendars')
    BY <1>1, <2>1
  <2> QED
    BY <1>2, <2>2, RequestsStay
<1> QED
  BY <1>7, <1>8, <1>9, <1>10 DEF CalendarInv

\* An entity's first version.
LEMMA InitialVersions ==
  ASSUME CalendarInv, NEW entity \in Entities, Calendar!CreateInitialCalendar(entity)
  PROVE  LET n == Len(calendars) + 1
         IN /\ calendars' \in Seq(Version) /\ Len(calendars') = n /\ n \in Nat
            /\ calendars'[n].supersedes = 0 /\ calendars'[n].created = today
            /\ \A x \in 1..Len(calendars) : calendars'[x] = calendars[x]
            /\ Calendar!ActiveCalendars(entity) = {}
            /\ \A other \in Entities : Calendar!ActiveCalendars(other)' =
                 IF other = entity THEN {n} ELSE Calendar!ActiveCalendars(other)
<1> DEFINE n == Len(calendars) + 1
           new == Calendar!NewCalendar(entity, Calendar!InitialWorkingWeekFor(entity), 1, {}, 0)
<1>1. /\ calendars \in Seq(Version) /\ Len(calendars) \in Nat /\ n \in Nat /\ today \in Nat
  BY DEF CalendarInv, CalendarType
<1>2. /\ new \in Version /\ new.entity = entity /\ new.status = "Active"
      /\ new.supersedes = 0 /\ new.created = today
  <2>1. PICK week \in Weeks : week = Calendar!InitialWorkingWeekFor(entity)
    BY CalendarAssumption DEF Calendar!InitialWorkingWeekFor
  <2> QED
    BY <1>1, <2>1 DEF Calendar!NewCalendar, Version
<1>3. /\ calendars' = Append(calendars, new)
      /\ \A x \in 1..Len(calendars) : calendars[x].entity # entity
  BY DEF Calendar!CreateInitialCalendar, Calendar!Rows
<1> HIDE DEF new
<1>4. /\ calendars' \in Seq(Version) /\ Len(calendars') = n /\ calendars'[n] = new
      /\ \A x \in 1..Len(calendars) : calendars'[x] = calendars[x]
  BY <1>1, <1>2, <1>3
<1>5. ASSUME NEW other \in Entities
      PROVE  Calendar!ActiveCalendars(other)' =
               IF other = entity THEN {n} ELSE Calendar!ActiveCalendars(other)
  <2>1. \A x : x \in Calendar!ActiveCalendars(other)' <=>
                 x \in 1..n /\ calendars'[x].entity = other /\ calendars'[x].status = "Active"
    BY <1>4 DEF Calendar!ActiveCalendars, Calendar!Rows
  <2>2. \A x : x \in Calendar!ActiveCalendars(other) <=>
                 /\ x \in 1..Len(calendars) /\ calendars[x].entity = other
                 /\ calendars[x].status = "Active"
    BY DEF Calendar!ActiveCalendars, Calendar!Rows
  <2>3. /\ \A x \in 1..n : x = n \/ x \in 1..Len(calendars)
        /\ n \in 1..n /\ n \notin 1..Len(calendars) /\ \A x \in 1..Len(calendars) : x \in 1..n
    BY <1>1
  <2>4. \A x : x \in Calendar!ActiveCalendars(other)' <=>
                 (other = entity /\ x = n) \/ x \in Calendar!ActiveCalendars(other)
    BY <1>2, <1>4, <2>1, <2>2, <2>3
  <2>5. other = entity => Calendar!ActiveCalendars(other) = {}
    BY <1>3, <2>2
  <2> QED
    BY <2>4, <2>5
<1> QED
  BY <1>1, <1>2, <1>3, <1>4, <1>5 DEF Calendar!ActiveCalendars, Calendar!Rows

\* And when it is the first of its entity.
LEMMA InitialKeeps ==
  ASSUME CalendarInv, NEW entity \in Entities, Calendar!CreateInitialCalendar(entity)
  PROVE  CalendarInv'
<1> DEFINE n == Len(calendars) + 1
<1>1. /\ calendars' \in Seq(Version) /\ Len(calendars') = n /\ n \in Nat
      /\ calendars'[n].supersedes = 0
      /\ \A x \in 1..Len(calendars) : calendars'[x] = calendars[x]
      /\ \A other \in Entities : Calendar!ActiveCalendars(other)' =
           IF other = entity THEN {n} ELSE Calendar!ActiveCalendars(other)
  BY InitialVersions
<1>2. UNCHANGED <<holidays, patterns, today, pending>>
  BY DEF Calendar!CreateInitialCalendar
<1>3. /\ Len(calendars) \in Nat /\ Len(holidays) \in Nat
      /\ \A x \in 1..n : x = n \/ x \in 1..Len(calendars)
  BY DEF CalendarInv, CalendarType
<1>4. VersionsOK'
  <2>1. \A x \in 1..Len(calendars') : calendars'[x].supersedes < x
    BY <1>1, <1>3 DEF CalendarInv, VersionsOK
  <2> QED
    BY <1>1, <2>1 DEF CalendarInv, VersionsOK
<1>5. CalendarType' /\ PatternsOK'
  BY <1>1, <1>2 DEF CalendarInv, CalendarType, PatternsOK, Calendar!CurrentPatterns, Calendar!Rows
<1>6. HolidaysOK'
  BY <1>1, <1>2, <1>3 DEF CalendarInv, HolidaysOK
<1>7. RequestsOK'
  BY <1>1, <1>2, <1>3, RequestsStay
<1> QED
  BY <1>4, <1>5, <1>6, <1>7 DEF CalendarInv

\* A transaction reads a row, and nothing else changes.
LEMMA ReadKeeps ==
  ASSUME CalendarInv, NEW r, RequestOK(r), Calendar!Begin(r)
  PROVE  CalendarInv'
<1>1. UNCHANGED <<calendars, holidays, patterns, today>> /\ pending' = pending \cup {r}
  BY DEF Calendar!Begin
<1>2. \A q \in pending' : q \in pending \/ RequestOK(q)
  BY <1>1
<1>3. CalendarType' /\ Len(calendars') \in Nat /\ Len(holidays') \in Nat
  BY <1>1 DEF CalendarInv, CalendarType
<1>4. Len(calendars') = Len(calendars) /\ Len(holidays') = Len(holidays)
  BY <1>1
<1>5. RequestsOK'
  BY <1>2, <1>3, <1>4, RequestsStay
<1>6. VersionsOK' /\ HolidaysOK' /\ PatternsOK'
  BY <1>1 DEF CalendarInv, VersionsOK, HolidaysOK, PatternsOK, Calendar!ActiveCalendars,
              Calendar!CurrentPatterns, Calendar!Rows
<1> QED
  BY <1>3, <1>5, <1>6 DEF CalendarInv

\* A transaction writes holidays of versions there are.
LEMMA WriteKeeps ==
  ASSUME CalendarInv, UNCHANGED <<calendars, patterns, today>>, pending' \subseteq pending,
         holidays' \in Seq(Holiday), Len(holidays') \in Nat, Len(holidays) <= Len(holidays'),
         \A h \in 1..Len(holidays') : holidays'[h].calendar \in 1..Len(calendars)
  PROVE  CalendarInv'
<1>1. CalendarType' /\ Len(calendars') \in Nat /\ Len(calendars') = Len(calendars)
  BY DEF CalendarInv, CalendarType
<1>2. RequestsOK'
  BY <1>1, RequestsStay
<1>3. VersionsOK' /\ HolidaysOK' /\ PatternsOK'
  BY DEF CalendarInv, VersionsOK, HolidaysOK, PatternsOK, Calendar!ActiveCalendars,
         Calendar!CurrentPatterns, Calendar!Rows
<1> QED
  BY <1>1, <1>2, <1>3 DEF CalendarInv

\* A holiday is added, or patched in place.
LEMMA HolidaysKeep ==
  ASSUME CalendarInv, NEW r \in pending,
         \/ Calendar!HolidayAddWrite(r) \/ Calendar!HolidayConfirmWrite(r)
         \/ Calendar!HolidayCancelWrite(r)
  PROVE  CalendarInv'
<1>1. /\ holidays \in Seq(Holiday) /\ Len(holidays) \in Nat /\ RequestOK(r)
      /\ \A h \in 1..Len(holidays) : /\ holidays[h].calendar \in 1..Len(calendars)
                                     /\ holidays[h] \in Holiday
      /\ Len(calendars) \in Nat
  BY DEF CalendarInv, CalendarType, HolidaysOK, RequestsOK
<1>2. UNCHANGED <<calendars, patterns, today>> /\ pending' \subseteq pending
  BY DEF Calendar!HolidayAddWrite, Calendar!HolidayConfirmWrite, Calendar!HolidayCancelWrite
<1>3. ASSUME NEW h \in 1..Len(holidays), NEW row \in Holiday, row.calendar = holidays[h].calendar,
             holidays' = [holidays EXCEPT ![h] = row]
      PROVE  CalendarInv'
  <2>1. /\ holidays' \in Seq(Holiday) /\ Len(holidays') = Len(holidays)
        /\ \A k \in 1..Len(holidays) : holidays'[k].calendar = holidays[k].calendar
    BY <1>1, <1>3
  <2> QED
    BY <1>1, <1>2, <2>1, WriteKeeps
<1>4. CASE Calendar!HolidayAddWrite(r)
  <2> DEFINE row == [calendar |-> r.calendar, status |-> "Active", version |-> 1, date |-> r.date,
                     where |-> r.kind.where, half |-> r.kind.half, confirmed |-> FALSE]
  <2>1. r.calendar \in 1..Len(calendars) /\ r.date \in HolidayDates /\ r.kind \in HolidayKinds
    BY <1>1, <1>4 DEF RequestOK, Calendar!HolidayAddWrite
  <2>2. r.calendar \in Nat /\ r.kind.where \in Where /\ r.kind.half \in Half
    BY <1>1, <2>1 DEF Where, Half
  <2>3. row \in Holiday /\ row.calendar \in 1..Len(calendars)
    BY <2>1, <2>2 DEF Holiday
  <2>4. holidays' = Append(holidays, row)
    BY <1>4 DEF Calendar!HolidayAddWrite
  <2> HIDE DEF row
  <2>5. /\ holidays' \in Seq(Holiday) /\ Len(holidays') = Len(holidays) + 1
        /\ holidays'[Len(holidays) + 1] = row
        /\ \A k \in 1..Len(holidays) : holidays'[k] = holidays[k]
    BY <1>1, <2>3, <2>4
  <2>6. \A k \in 1..(Len(holidays) + 1) : k = Len(holidays) + 1 \/ k \in 1..Len(holidays)
    BY <1>1
  <2>7. \A k \in 1..Len(holidays') : holidays'[k].calendar \in 1..Len(calendars)
    BY <1>1, <2>3, <2>5, <2>6
  <2> QED
    BY <1>1, <1>2, <2>5, <2>7, WriteKeeps
<1>5. CASE Calendar!HolidayConfirmWrite(r)
  <2>1. r.holiday \in 1..Len(holidays) /\ r.date \in HolidayDates
    BY <1>1, <1>5 DEF RequestOK, Calendar!HolidayConfirmWrite
  <2>2. PICK h \in 1..Len(holidays) : h = r.holiday
    BY <2>1
  <2>3. PICK next \in Nat : next = holidays[h].version + 1
    BY <1>1 DEF Holiday
  <2> DEFINE row == [holidays[h] EXCEPT !.date = r.date, !.confirmed = TRUE, !.version = next]
  <2>4. row \in Holiday /\ row.calendar = holidays[h].calendar
    BY <1>1, <2>1 DEF Holiday
  <2>5. holidays' = [holidays EXCEPT ![h] = row]
    BY <1>1, <1>5, <2>2, <2>3 DEF Calendar!HolidayConfirmWrite
  <2> HIDE DEF row
  <2> QED
    BY <1>3, <2>4, <2>5
<1>6. CASE Calendar!HolidayCancelWrite(r)
  <2>1. r.holiday \in 1..Len(holidays)
    BY <1>1, <1>6 DEF RequestOK, Calendar!HolidayCancelWrite
  <2>2. PICK h \in 1..Len(holidays) : h = r.holiday
    BY <2>1
  <2>3. PICK next \in Nat : next = holidays[h].version + 1
    BY <1>1 DEF Holiday
  <2>4. CASE holidays' = holidays
    BY <1>1, <1>2, <2>4, WriteKeeps
  <2>5. CASE holidays' # holidays
    <3> DEFINE row == [holidays[h] EXCEPT !.status = "Canceled", !.version = next]
    <3>1. row \in Holiday /\ row.calendar = holidays[h].calendar
      BY <1>1 DEF Holiday
    <3>2. holidays' = [holidays EXCEPT ![h] = row]
      BY <1>1, <1>6, <2>2, <2>3, <2>5 DEF Calendar!HolidayCancelWrite
    <3> HIDE DEF row
    <3> QED
      BY <1>3, <3>1, <3>2
  <2> QED
    BY <2>4, <2>5
<1> QED
  BY <1>4, <1>5, <1>6

-----------------------------------------------------------------------------
\* A current pattern that is closed ends on the day given and keeps its beginning.
LEMMA PatternCloses ==
  ASSUME CalendarInv, NEW e \in Residents, NEW p \in Calendar!CurrentPatterns(e),
         NEW from \in PatternDates, from >= patterns[p].from
  PROVE  LET closed == Calendar!ClosedPattern(p, from)
         IN /\ closed \in Seq(Pattern) /\ Len(closed) = Len(patterns) /\ Len(closed) \in Nat
            /\ p \in 1..Len(patterns) /\ patterns[p].to = MaxDay + 1
            /\ closed[p].status = "Superseded" /\ closed[p].to = from
            /\ closed[p].from = patterns[p].from /\ closed[p].employee = e
            /\ closed[p].week = patterns[p].week /\ patterns[p].employee = e
            /\ \A q \in 1..Len(patterns) : q # p => closed[q] = patterns[q]
            /\ \A q \in 1..Len(patterns) : q \in Calendar!CurrentPatterns(e) => q = p
<1>1. /\ patterns \in Seq(Pattern) /\ Len(patterns) \in Nat /\ p \in 1..Len(patterns)
      /\ patterns[p] \in Pattern /\ patterns[p].employee = e /\ patterns[p].to = MaxDay + 1
      /\ \A q \in Calendar!CurrentPatterns(e) : q = p
  BY DEF CalendarInv, CalendarType, PatternsOK, Calendar!CurrentPatterns, Calendar!Rows
<1>2. from \in 1..(MaxDay + 1)
  BY CalendarAssumption
<1>3. PICK next \in Nat : next = patterns[p].version + 1
  BY <1>1 DEF Pattern
<1> DEFINE row == [patterns[p] EXCEPT !.status = "Superseded", !.to = from, !.version = next]
<1>4. /\ row \in Pattern /\ row.status = "Superseded" /\ row.to = from
      /\ row.from = patterns[p].from /\ row.employee = e /\ row.week = patterns[p].week
  BY <1>1, <1>2 DEF Pattern
<1>5. Calendar!ClosedPattern(p, from) = [patterns EXCEPT ![p] = row]
  BY <1>1, <1>3 DEF Calendar!ClosedPattern
<1> HIDE DEF row
<1>6. /\ [patterns EXCEPT ![p] = row] \in Seq(Pattern)
      /\ Len([patterns EXCEPT ![p] = row]) = Len(patterns) /\ [patterns EXCEPT ![p] = row][p] = row
      /\ \A q \in 1..Len(patterns) : q # p => [patterns EXCEPT ![p] = row][q] = patterns[q]
  BY <1>1, <1>4
<1> QED
  BY <1>1, <1>4, <1>5, <1>6

\* Patterns are rewritten, and nothing else is.
LEMMA PatternsChange ==
  ASSUME CalendarInv, UNCHANGED <<calendars, holidays, today, pending>>,
         patterns' \in Seq(Pattern), PatternsOK'
  PROVE  CalendarInv'
<1>1. CalendarType' /\ Len(calendars') \in Nat /\ Len(holidays') \in Nat
  BY DEF CalendarInv, CalendarType
<1>2. RequestsOK'
  BY <1>1, RequestsStay
<1>3. VersionsOK' /\ HolidaysOK'
  BY DEF CalendarInv, VersionsOK, HolidaysOK, Calendar!ActiveCalendars, Calendar!Rows
<1> QED
  BY <1>1, <1>2, <1>3 DEF CalendarInv

\* A pattern is set or cleared.
LEMMA PatternsKeep ==
  ASSUME CalendarInv, NEW e \in Residents, NEW from \in PatternDates, NEW v,
         \/ \E week \in PatternWeeks : Calendar!PatternSet(e, week, from, v)
         \/ Calendar!PatternClear(e, from, v)
  PROVE  CalendarInv'
<1>1. UNCHANGED <<calendars, holidays, today, pending>>
  BY DEF Calendar!PatternSet, Calendar!PatternClear
<1>2. /\ patterns \in Seq(Pattern) /\ Len(patterns) \in Nat
      /\ \A p \in 1..Len(patterns) : /\ patterns[p].from <= patterns[p].to
                                     /\ patterns[p].status = "Active" => patterns[p].to = MaxDay + 1
      /\ \A f \in Residents : \A p, q \in Calendar!CurrentPatterns(f) : p = q
  BY DEF CalendarInv, CalendarType, PatternsOK
<1>3. from \in 1..MaxDay /\ from <= MaxDay + 1
  BY CalendarAssumption
\* The table after the current pattern, if any, is closed.
<1> DEFINE Shut(t) ==
             /\ t \in Seq(Pattern) /\ Len(t) = Len(patterns)
             /\ \A p \in 1..Len(t) : /\ t[p].from <= t[p].to
                                     /\ t[p].status = "Active" => t[p].to = MaxDay + 1
             /\ \A p \in 1..Len(t) : t[p].status = "Active" =>
                  t[p] = patterns[p] /\ t[p].employee # e
<1>4. ASSUME NEW p \in Calendar!CurrentPatterns(e), from >= patterns[p].from
      PROVE  Shut(Calendar!ClosedPattern(p, from))
  <2>1. PICK t : t = Calendar!ClosedPattern(p, from)
    OBVIOUS
  <2>2. /\ t \in Seq(Pattern) /\ Len(t) = Len(patterns) /\ p \in 1..Len(patterns)
        /\ t[p].status = "Superseded" /\ t[p].to = from /\ t[p].from = patterns[p].from
        /\ \A q \in 1..Len(patterns) : q # p => t[q] = patterns[q]
        /\ \A q \in 1..Len(patterns) : q \in Calendar!CurrentPatterns(e) => q = p
    BY <1>4, <2>1, PatternCloses
  <2>3. \A q \in 1..Len(patterns) : patterns[q].status = "Active" /\ patterns[q].employee = e => q = p
    BY <2>2 DEF Calendar!CurrentPatterns, Calendar!Rows
  <2>4. patterns[p].from \in Nat /\ from \in Nat
    <3>1. patterns[p] \in Pattern
      BY <1>2, <2>2
    <3> QED
      BY <1>3, <3>1 DEF Pattern
  <2>5. t[p].from <= t[p].to
    BY <1>4, <2>2, <2>4
  <2>6. Shut(t)
    BY <1>2, <2>2, <2>3, <2>5
  <2> QED
    BY <2>1, <2>6
<1>5. ASSUME Calendar!CurrentPatterns(e) = {} PROVE Shut(patterns)
  <2>1. \A q \in 1..Len(patterns) : patterns[q].status = "Active" => patterns[q].employee # e
    BY <1>5 DEF Calendar!CurrentPatterns, Calendar!Rows
  <2> QED
    BY <1>2, <2>1
<1>6. PICK t : /\ Shut(t)
               /\ \/ patterns' = t
                  \/ \E week \in PatternWeeks : patterns' = Append(t, Calendar!NewPattern(e, week, from))
  <2> HIDE DEF Shut
  <2>1. CASE Calendar!CurrentPatterns(e) = {}
    BY <1>5, <2>1 DEF Calendar!PatternSet, Calendar!PatternClear
  <2>2. CASE Calendar!CurrentPatterns(e) # {}
    <3>1. PICK p \in Calendar!CurrentPatterns(e) :
            /\ from >= patterns[p].from
            /\ \/ patterns' = Calendar!ClosedPattern(p, from)
               \/ \E week \in PatternWeeks :
                    patterns' = Append(Calendar!ClosedPattern(p, from),
                                       Calendar!NewPattern(e, week, from))
      BY <2>2 DEF Calendar!PatternSet, Calendar!PatternClear
    <3> QED
      BY <1>4, <3>1
  <2> QED
    BY <2>1, <2>2
<1>7. CASE patterns' = t
  <2>1. \A f : \A p \in Calendar!CurrentPatterns(f)' : p \in Calendar!CurrentPatterns(f)
    BY <1>2, <1>6, <1>7 DEF Calendar!CurrentPatterns, Calendar!Rows
  <2>2. PatternsOK'
    BY <1>2, <1>6, <1>7, <2>1 DEF PatternsOK
  <2> QED
    BY <1>1, <1>6, <1>7, <2>2, PatternsChange
<1>8. ASSUME NEW week \in PatternWeeks, patterns' = Append(t, Calendar!NewPattern(e, week, from))
      PROVE  CalendarInv'
  <2> DEFINE new == Calendar!NewPattern(e, week, from)
             n == Len(patterns) + 1
  <2>1. /\ new \in Pattern /\ new.employee = e /\ new.from = from /\ new.to = MaxDay + 1
    BY <1>3, CalendarAssumption DEF Calendar!NewPattern, Pattern, Calendar!Forever
  <2> HIDE DEF new
  <2>2. /\ patterns' \in Seq(Pattern) /\ Len(patterns') = n /\ n \in Nat /\ patterns'[n] = new
        /\ \A p \in 1..Len(patterns) : patterns'[p] = t[p]
    BY <1>2, <1>6, <1>8, <2>1 DEF new
  <2>3. /\ \A p \in 1..n : p = n \/ p \in 1..Len(patterns)
        /\ n \notin 1..Len(patterns)
    BY <1>2
  <2> HIDE DEF n
  <2>4. ASSUME NEW f \in Residents, NEW p \in Calendar!CurrentPatterns(f)'
        PROVE  IF f = e THEN p = n ELSE p \in Calendar!CurrentPatterns(f)
    <3>1. p \in 1..n /\ patterns'[p].employee = f /\ patterns'[p].status = "Active"
      BY <2>2, <2>4 DEF Calendar!CurrentPatterns, Calendar!Rows
    <3>2. CASE p = n
      BY <2>1, <2>2, <3>1, <3>2
    <3>3. CASE p \in 1..Len(patterns)
      <4>1. t[p].status = "Active" /\ t[p].employee = f /\ p \in 1..Len(t)
        BY <1>6, <2>2, <3>1, <3>3
      <4>2. t[p] = patterns[p] /\ f # e
        BY <1>6, <4>1
      <4> QED
        BY <3>3, <4>1, <4>2 DEF Calendar!CurrentPatterns, Calendar!Rows
    <3> QED
      BY <2>3, <3>1, <3>2, <3>3
  <2>5. \A f \in Residents : \A p, q \in Calendar!CurrentPatterns(f)' : p = q
    BY <1>2, <2>4
  <2>6. \A p \in 1..Len(patterns') :
          /\ patterns'[p].from <= patterns'[p].to
          /\ patterns'[p].status = "Active" => patterns'[p].to = MaxDay + 1
    BY <1>3, <1>6, <2>1, <2>2, <2>3
  <2>7. PatternsOK'
    BY <2>5, <2>6 DEF PatternsOK
  <2> QED
    BY <1>1, <2>2, <2>7, PatternsChange
<1> QED
  BY <1>6, <1>7, <1>8

-----------------------------------------------------------------------------
\* Every step keeps the rows well formed.
LEMMA CalendarStep == CalendarInv /\ [Calendar!Next]_Calendar!vars => CalendarInv'
<1> SUFFICES ASSUME CalendarInv, [Calendar!Next]_Calendar!vars PROVE CalendarInv'
  OBVIOUS
<1>1. /\ \A h \in Calendar!Rows(holidays) :
           h \in 1..Len(holidays) /\ holidays[h].calendar \in 1..Len(calendars)
      /\ \A c \in Calendar!Rows(calendars) : c \in 1..Len(calendars)
  BY DEF CalendarInv, HolidaysOK, Calendar!Rows
<1>2. CASE UNCHANGED Calendar!vars
  BY <1>2 DEF Calendar!vars, CalendarInv, CalendarType, VersionsOK, HolidaysOK, PatternsOK,
              RequestsOK, RequestOK, Calendar!ActiveCalendars, Calendar!CurrentPatterns, Calendar!Rows
<1>3. ASSUME Calendar!Tick PROVE CalendarInv'
  <2>1. UNCHANGED <<calendars, holidays, patterns, pending>> /\ today' \in 1..MaxDay
    BY <1>3, CalendarAssumption DEF Calendar!Tick, CalendarInv, CalendarType
  <2> QED
    BY <2>1 DEF CalendarInv, CalendarType, VersionsOK, HolidaysOK, PatternsOK,
              RequestsOK, RequestOK, Calendar!ActiveCalendars, Calendar!CurrentPatterns, Calendar!Rows
<1>4. ASSUME NEW c \in Calendar!Rows(calendars), NEW d \in HolidayDates, NEW kind \in HolidayKinds,
             Calendar!HolidayAddRead(c, d, kind)
      PROVE  CalendarInv'
  BY <1>1, <1>4, ReadKeeps DEF Calendar!HolidayAddRead, RequestOK
<1>5. ASSUME NEW h \in Calendar!Rows(holidays), NEW d \in HolidayDates,
             Calendar!HolidayConfirmRead(h, d)
      PROVE  CalendarInv'
  BY <1>1, <1>5, ReadKeeps DEF Calendar!HolidayConfirmRead, RequestOK
<1>6. ASSUME NEW h \in Calendar!Rows(holidays), NEW v, Calendar!HolidayCancelRead(h, v)
      PROVE  CalendarInv'
  BY <1>1, <1>6, ReadKeeps DEF Calendar!HolidayCancelRead, RequestOK
<1>7. ASSUME NEW e \in Residents, NEW from \in PatternDates, NEW v,
             \/ \E week \in PatternWeeks : Calendar!PatternSet(e, week, from, v)
             \/ Calendar!PatternClear(e, from, v)
      PROVE  CalendarInv'
  BY <1>7, PatternsKeep
<1>8. ASSUME NEW r \in pending,
             \/ Calendar!HolidayAddWrite(r) \/ Calendar!HolidayConfirmWrite(r)
             \/ Calendar!HolidayCancelWrite(r)
      PROVE  CalendarInv'
  BY <1>8, HolidaysKeep
<1>9. ASSUME NEW c \in Calendar!Rows(calendars), NEW v, NEW week \in Weeks, NEW start \in StartDays,
             NEW reduced \in ReducedDays, Calendar!CalendarUpdate(c, v, week, start, reduced)
      PROVE  CalendarInv'
  BY <1>9, UpdateKeeps
<1>10. ASSUME NEW entity \in Entities, Calendar!CreateInitialCalendar(entity) PROVE CalendarInv'
  BY <1>10, InitialKeeps
<1> QED
  BY <1>2, <1>3, <1>4, <1>5, <1>6, <1>7, <1>8, <1>9, <1>10 DEF Calendar!Next

\* There is none at first.
LEMMA CalendarInitially == Calendar!Init => CalendarInv
  BY CalendarAssumption
  DEF Calendar!Init, CalendarInv, CalendarType, VersionsOK, HolidaysOK, PatternsOK, RequestsOK,
      Calendar!ActiveCalendars, Calendar!CurrentPatterns, Calendar!Rows

\* So they always are.
LEMMA CalendarInvHolds == WorkforceSpec => []CalendarInv
  BY CalendarStep, CalendarInitially, WorkforceIsItsParts, PTL DEF Calendar!Spec

\* The rows are well formed, an entity has one calendar in force and an employee one
\* current pattern, whatever is written and in whatever order.
THEOREM CalendarIsOne == WorkforceSpec => []Calendar!OneInForce
<1>1. ASSUME CalendarInv PROVE Calendar!OneInForce
  <2>1. /\ Len(calendars) \in Nat /\ Len(patterns) \in Nat
        /\ \A c \in 1..Len(calendars) : calendars[c].supersedes < c
        /\ \A p \in 1..Len(patterns) : patterns[p].from <= patterns[p].to
    BY <1>1 DEF CalendarInv, CalendarType, VersionsOK, PatternsOK
  <2>2. ASSUME NEW entity \in Entities
        PROVE  Calendar!Cardinality(Calendar!ActiveCalendars(entity)) <= 1
    <3>1. IsFiniteSet(Calendar!ActiveCalendars(entity))
      <4>1. IsFiniteSet(1..Len(calendars))
        BY <2>1, FS_Interval
      <4>2. Calendar!ActiveCalendars(entity) \subseteq 1..Len(calendars)
        BY DEF Calendar!ActiveCalendars, Calendar!Rows
      <4> QED
        BY <4>1, <4>2, FS_Subset
    <3>2. Cardinality(Calendar!ActiveCalendars(entity)) <= 1
      BY <1>1, <3>1, AtMostOneIsOne DEF CalendarInv, VersionsOK
    <3> QED
      BY <3>2 DEF Calendar!Cardinality, Cardinality
  <2>3. ASSUME NEW e \in Residents PROVE Calendar!Cardinality(Calendar!CurrentPatterns(e)) <= 1
    <3>1. IsFiniteSet(Calendar!CurrentPatterns(e))
      <4>1. IsFiniteSet(1..Len(patterns))
        BY <2>1, FS_Interval
      <4>2. Calendar!CurrentPatterns(e) \subseteq 1..Len(patterns)
        BY DEF Calendar!CurrentPatterns, Calendar!Rows
      <4> QED
        BY <4>1, <4>2, FS_Subset
    <3>2. Cardinality(Calendar!CurrentPatterns(e)) <= 1
      BY <1>1, <3>1, AtMostOneIsOne DEF CalendarInv, PatternsOK
    <3> QED
      BY <3>2 DEF Calendar!Cardinality, Cardinality
  <2> QED
    BY <2>1, <2>2, <2>3 DEF Calendar!OneInForce, Calendar!Rows
<1> QED
  BY <1>1, CalendarInvHolds, PTL

\* The walk is what its rows say.
LEMMA WalkIs ==
  ASSUME NEW cs, NEW n \in Nat, NEW d, Backwards(cs, n)
  PROVE  Steps(WalkBy(cs, n, d), cs, n, d)
<1>1. \E f : IsWalk(f, cs, n, d)
  BY WalkExists
<1>2. IsWalk(WalkBy(cs, n, d), cs, n, d)
  BY <1>1, Zenon DEF WalkBy
<1> QED
  BY <1>2 DEF IsWalk, Steps

\* Versions that are added, or marked, leave the walks from the versions before them.
LEMMA WalksStay ==
  ASSUME NEW cs, NEW n \in Nat, NEW ds, NEW m \in Nat, NEW d, n <= m,
         Backwards(cs, n), Backwards(ds, m), SameSteps(cs, ds, n)
  PROVE  Alike(WalkBy(cs, n, d), WalkBy(ds, m, d), n)
  BY WalkIs, WalksAgree

-----------------------------------------------------------------------------
\* A day by the rows that are named.
DayBy(calendar, week, rows, hols, d, location) ==
  LET reaching == {h \in hols : /\ rows[h].date = d
                                /\ \/ rows[h].where = Everywhere
                                   \/ location # Nowhere /\ location \in rows[h].where}
      first == CHOOSE h \in reaching : \A g \in reaching : h <= g
      usual == IF Calendar!Weekday(d) \in DOMAIN week THEN week[Calendar!Weekday(d)]
                                                      ELSE calendar.week[Calendar!Weekday(d)]
      hours == IF reaching = {} THEN usual
               ELSE IF rows[first].half THEN DailyHours \div 2 ELSE 0
  IN IF d \in calendar.reduced THEN hours \div 2 ELSE hours

\* What is left of its hours.
Reckoned(usual, reaching, half, d, reduced) ==
  LET hours == IF reaching = {} THEN usual ELSE IF half THEN DailyHours \div 2 ELSE 0
  IN IF d \in reduced THEN hours \div 2 ELSE hours

\* A day is one of the week, the reduced days and the holidays it is resolved with.
LEMMA DaysAlike ==
  ASSUME NEW one, NEW other, one.week = other.week, one.reduced = other.reduced,
         NEW week, NEW d, NEW location, NEW hols \in SUBSET Nat, NEW rows, NEW also,
         \A h \in hols : rows[h] = also[h]
  PROVE  DayBy(one, week, rows, hols, d, location) = DayBy(other, week, also, hols, d, location)
<1> DEFINE Reaching(table) ==
             {h \in hols : /\ table[h].date = d
                           /\ \/ table[h].where = Everywhere
                              \/ location # Nowhere /\ location \in table[h].where}
           First(table) == CHOOSE h \in Reaching(table) : \A g \in Reaching(table) : h <= g
<1>1. Reaching(rows) = Reaching(also)
  OBVIOUS
<1>2. First(rows) = First(also)
  <2> HIDE DEF Reaching
  <2> QED
    BY <1>1, Zenon
<1>3. Reaching(rows) # {} => First(rows) \in hols
  <2>1. Reaching(rows) \in SUBSET Nat /\ Reaching(rows) \subseteq hols
    OBVIOUS
  <2> HIDE DEF Reaching
  <2> SUFFICES ASSUME Reaching(rows) # {} PROVE First(rows) \in Reaching(rows)
    BY <2>1
  <2>2. \E h \in Reaching(rows) : \A g \in Reaching(rows) : h <= g
    BY <2>1, LeastExists
  <2> QED
    BY <2>2, Zenon
<1> HIDE DEF Reaching, First
<1>4. Reaching(rows) # {} => rows[First(rows)].half = also[First(also)].half
  BY <1>2, <1>3
<1>5. PICK usual : usual = IF Calendar!Weekday(d) \in DOMAIN week THEN week[Calendar!Weekday(d)]
                           ELSE one.week[Calendar!Weekday(d)]
  OBVIOUS
<1>6. DayBy(one, week, rows, hols, d, location) =
        Reckoned(usual, Reaching(rows), rows[First(rows)].half, d, one.reduced)
  BY <1>5, Zenon DEF DayBy, First, Reaching, Reckoned
<1>7. DayBy(other, week, also, hols, d, location) =
        Reckoned(usual, Reaching(also), also[First(also)].half, d, one.reduced)
  BY <1>5, Zenon DEF DayBy, First, Reaching, Reckoned
<1>8. CASE Reaching(rows) = {}
  <2>1. \A half, otherwise :
          Reckoned(usual, {}, half, d, one.reduced) = Reckoned(usual, {}, otherwise, d, one.reduced)
    BY DEF Reckoned
  <2> QED
    BY <1>1, <1>6, <1>7, <1>8, <2>1, Zenon
<1>9. CASE Reaching(rows) # {}
  BY <1>1, <1>4, <1>6, <1>7, <1>9, Zenon
<1> QED
  BY <1>8, <1>9

\* The hours of a day, by the rows.
HoursBy(cs, c, ps, p, rows, hols, d, e) ==
  IF c = 0 THEN -1
  ELSE DayBy(cs[c], IF p = 0 THEN <<>> ELSE ps[p].week, rows, hols, d, LocationOf[e])

\* The hours of a day are those, before a step and after it.
LEMMA HoursAre ==
  ASSUME NEW e, NEW d
  PROVE  LET c == Calendar!CalendarOn(EntityOf[e], d)
             p == Calendar!PatternOn(e, d)
         IN /\ Calendar!HoursOn(e, d) =
                 HoursBy(calendars, c, patterns, p, holidays, Calendar!HolidaysOf(c), d, e)
            /\ Calendar!HoursOn(e, d)' =
                 HoursBy(calendars', c', patterns', p', holidays', (Calendar!HolidaysOf(c))', d, e)
  BY DEF Calendar!HoursOn, Calendar!ResolveWorkingDay, HoursBy, DayBy

\* The walk the code takes is the one of its rows.
LEMMA VersionIs ==
  ASSUME NEW d
  PROVE  /\ Calendar!VersionBy(d) = WalkBy(calendars, Len(calendars), d)
         /\ Calendar!VersionBy(d)' = WalkBy(calendars', Len(calendars'), d')
  BY DEF Calendar!VersionBy, WalkBy, IsWalk, StepBy

\* A version that is written today is walked past by every day before today.
LEMMA WalkPastNew ==
  ASSUME NEW cs, NEW n \in Nat, NEW ds, NEW d \in Nat, Backwards(cs, n), SameSteps(cs, ds, n),
         ds[n + 1].supersedes \in 0..n, ds[n + 1].created \in Nat, d < ds[n + 1].created
  PROVE  /\ Alike(WalkBy(cs, n, d), WalkBy(ds, n + 1, d), n)
         /\ WalkBy(ds, n + 1, d)[n + 1] = WalkBy(cs, n, d)[ds[n + 1].supersedes]
<1>1. PICK m \in Nat : m = n + 1
  OBVIOUS
<1>2. Backwards(ds, m)
  BY <1>1 DEF Backwards, SameSteps
<1>3. n <= m /\ m # 0 /\ m \in 0..m /\ ~(ds[m].created <= d) /\ ds[m].supersedes \in 0..n
  BY <1>1
<1>4. Alike(WalkBy(cs, n, d), WalkBy(ds, m, d), n)
  BY <1>2, <1>3, WalksStay
<1>5. Steps(WalkBy(ds, m, d), ds, m, d)
  BY <1>2, WalkIs
<1>6. WalkBy(ds, m, d)[m] = WalkBy(ds, m, d)[ds[m].supersedes]
  BY <1>3, <1>5 DEF Steps, StepBy
<1>7. WalkBy(ds, m, d)[ds[m].supersedes] = WalkBy(cs, n, d)[ds[m].supersedes]
  BY <1>3, <1>4 DEF Alike
<1> QED
  BY <1>1, <1>4, <1>6, <1>7

\* A new version of an entity's calendar answers no day before the one it is written on.
LEMMA CalendarOnStays ==
  ASSUME CalendarInv, NEW entity \in Entities, NEW c \in 0..Len(calendars),
         LET n == Len(calendars) + 1
         IN /\ Len(calendars') = n /\ SameSteps(calendars, calendars', Len(calendars))
            /\ calendars'[n].supersedes = c /\ calendars'[n].created = today
            /\ Calendar!ActiveCalendars(entity) = (IF c = 0 THEN {} ELSE {c})
            /\ \A other \in Entities : Calendar!ActiveCalendars(other)' =
                 IF other = entity THEN {n} ELSE Calendar!ActiveCalendars(other),
         NEW other \in Entities, NEW d \in Nat, d < today
  PROVE  /\ Calendar!CalendarOn(other, d)' = Calendar!CalendarOn(other, d)
         /\ Calendar!CalendarOn(other, d) \in 0..Len(calendars)
<1>1. PICK n \in Nat : n = Len(calendars)
  BY DEF CalendarInv, CalendarType
<1>2. Backwards(calendars, n)
  <2>1. \A x \in 1..n : calendars[x].supersedes \in Nat /\ calendars[x].supersedes < x
    <3>1. \A x \in 1..n : calendars[x] \in Version /\ calendars[x].supersedes < x
      BY <1>1 DEF CalendarInv, CalendarType, VersionsOK
    <3> QED
      BY <3>1 DEF Version
  <2> QED
    BY <2>1 DEF Backwards
<1>3. today \in Nat /\ calendars'[n + 1].created = today /\ calendars'[n + 1].supersedes = c
  BY <1>1 DEF CalendarInv, CalendarType
<1>4. PICK f, g : /\ f = WalkBy(calendars, n, d) /\ g = WalkBy(calendars', n + 1, d)
                  /\ Alike(f, g, n) /\ g[n + 1] = f[c]
  <2>1. SameSteps(calendars, calendars', n)
    BY <1>1
  <2>2. PICK cs, ds : cs = calendars /\ ds = calendars'
    OBVIOUS
  <2> QED
    BY <1>1, <1>2, <1>3, <2>1, <2>2, WalkPastNew
<1>5. Calendar!VersionBy(d) = f /\ Calendar!VersionBy(d)' = g
  BY <1>1, <1>4, VersionIs
<1>6. f[0] = 0
  BY <1>1, <1>4 DEF Alike
<1>7. Calendar!CalendarOn(other, d) =
        IF Calendar!ActiveCalendars(other) = {} THEN 0
        ELSE f[CHOOSE x \in Calendar!ActiveCalendars(other) : TRUE]
  BY <1>5 DEF Calendar!CalendarOn
<1>8. Calendar!CalendarOn(other, d)' =
        IF Calendar!ActiveCalendars(other)' = {} THEN 0
        ELSE g[CHOOSE x \in Calendar!ActiveCalendars(other)' : TRUE]
  BY <1>5 DEF Calendar!CalendarOn
<1>9. CASE other = entity
  <2>1. Calendar!ActiveCalendars(other)' = {n + 1}
    BY <1>1, <1>9
  <2>2. (CHOOSE x \in {n + 1} : TRUE) = n + 1
    OBVIOUS
  <2>3. Calendar!CalendarOn(other, d)' = f[c]
    BY <1>4, <1>8, <2>1, <2>2
  <2>4. Calendar!CalendarOn(other, d) = f[c]
    <3>1. CASE c = 0
      BY <1>6, <1>7, <1>9, <3>1
    <3>2. CASE c # 0
      <4>1. (CHOOSE x \in {c} : TRUE) = c
        OBVIOUS
      <4>2. Calendar!ActiveCalendars(other) = {c}
        BY <1>9, <3>2
      <4> QED
        BY <1>7, <4>1, <4>2
    <3> QED
      BY <3>1, <3>2
  <2>5. f[c] \in 0..n
    BY <1>1, <1>4 DEF Alike
  <2> QED
    BY <1>1, <2>3, <2>4, <2>5
<1>10. CASE other # entity
  <2>1. Calendar!ActiveCalendars(other)' = Calendar!ActiveCalendars(other)
    BY <1>10
  <2>2. CASE Calendar!ActiveCalendars(other) = {}
    BY <1>1, <1>7, <1>8, <2>1, <2>2
  <2>3. CASE Calendar!ActiveCalendars(other) # {}
    <3>1. PICK x : x = CHOOSE y \in Calendar!ActiveCalendars(other) : TRUE
      OBVIOUS
    <3>2. x \in 0..n
      <4>1. x \in Calendar!ActiveCalendars(other)
        BY <2>3, <3>1
      <4> QED
        BY <1>1, <4>1 DEF Calendar!ActiveCalendars, Calendar!Rows
    <3>3. g[x] = f[x] /\ f[x] \in 0..n
      BY <1>4, <3>2 DEF Alike
    <3> QED
      BY <1>1, <1>7, <1>8, <2>1, <2>3, <3>1, <3>3
  <2> QED
    BY <2>2, <2>3
<1> QED
  BY <1>9, <1>10

\* A day is what it was when its version, its pattern and its holidays are.
LEMMA HoursStay ==
  ASSUME CalendarInv, NEW e \in Residents, NEW d,
         Calendar!CalendarOn(EntityOf[e], d)' = Calendar!CalendarOn(EntityOf[e], d),
         Calendar!CalendarOn(EntityOf[e], d) \in 0..Len(calendars),
         UNCHANGED patterns,
         \A x \in 1..Len(calendars) :
           calendars'[x].week = calendars[x].week /\ calendars'[x].reduced = calendars[x].reduced,
         Len(holidays') \in Nat, Len(holidays) <= Len(holidays'),
         \A k \in 1..Len(holidays) : holidays'[k] = holidays[k],
         \A k \in 1..Len(holidays') :
           k \notin 1..Len(holidays) => holidays'[k].calendar \notin 1..Len(calendars)
  PROVE  Calendar!HoursOn(e, d)' = Calendar!HoursOn(e, d)
<1>1. PICK k \in 0..Len(calendars) : k = Calendar!CalendarOn(EntityOf[e], d)
  OBVIOUS
<1>2. PICK p : p = Calendar!PatternOn(e, d)
  OBVIOUS
<1>3. Calendar!PatternOn(e, d)' = p
  BY <1>2 DEF Calendar!PatternOn, Calendar!Rows
<1>4. /\ Calendar!HoursOn(e, d) =
           HoursBy(calendars, k, patterns, p, holidays, Calendar!HolidaysOf(k), d, e)
      /\ Calendar!HoursOn(e, d)' =
           HoursBy(calendars', k, patterns, p, holidays', (Calendar!HolidaysOf(k))', d, e)
  BY <1>1, <1>2, <1>3, HoursAre
<1>5. CASE k = 0
  BY <1>4, <1>5 DEF HoursBy
<1>6. CASE k # 0
  <2>1. Len(holidays) \in Nat /\ Len(calendars) \in Nat /\ k \in 1..Len(calendars)
    BY <1>6 DEF CalendarInv, CalendarType
  <2>2. PICK hols : hols = Calendar!HolidaysOf(k)
    OBVIOUS
  <2>3. hols \in SUBSET Nat /\ \A h \in hols : holidays[h] = holidays'[h]
    BY <2>1, <2>2 DEF Calendar!HolidaysOf, Calendar!Rows
  <2>4. (Calendar!HolidaysOf(k))' = hols
    <3>1. \A h \in 1..Len(holidays) : h \in 1..Len(holidays')
      BY <2>1
    <3> QED
      BY <2>1, <2>2, <3>1 DEF Calendar!HolidaysOf, Calendar!Rows
  <2>5. PICK one, other, week, rows, also :
          /\ one = calendars[k] /\ other = calendars'[k] /\ rows = holidays /\ also = holidays'
          /\ week = IF p = 0 THEN <<>> ELSE patterns[p].week
    OBVIOUS
  <2>6. one.week = other.week /\ one.reduced = other.reduced
    BY <2>1, <2>5
  <2>7. DayBy(one, week, rows, hols, d, LocationOf[e])
          = DayBy(other, week, also, hols, d, LocationOf[e])
    BY <2>3, <2>5, <2>6, DaysAlike
  <2>8. /\ Calendar!HoursOn(e, d) = DayBy(one, week, rows, hols, d, LocationOf[e])
        /\ Calendar!HoursOn(e, d)' = DayBy(other, week, also, hols, d, LocationOf[e])
    BY <1>4, <1>6, <2>2, <2>4, <2>5 DEF HoursBy
  <2> QED
    BY <2>7, <2>8
<1> QED
  BY <1>5, <1>6

\* An update of a calendar rewrites no day before today.
LEMMA UpdateKeepsDays ==
  ASSUME CalendarInv, NEW c \in Calendar!Rows(calendars), NEW v,
         NEW week \in Weeks, NEW start \in StartDays, NEW reduced \in ReducedDays,
         Calendar!CalendarUpdate(c, v, week, start, reduced),
         NEW e \in Residents, NEW d \in Nat, d < today
  PROVE  Calendar!HoursOn(e, d)' = Calendar!HoursOn(e, d)
<1> DEFINE n == Len(calendars) + 1
<1>1. /\ Len(calendars') = n /\ n \in Nat
      /\ calendars'[n] = Calendar!NewCalendar(calendars[c].entity, week, start, reduced, c)
      /\ \A x \in 1..Len(calendars) :
           /\ calendars'[x].supersedes = calendars[x].supersedes
           /\ calendars'[x].created = calendars[x].created
           /\ calendars'[x].entity = calendars[x].entity
           /\ calendars'[x].week = calendars[x].week
           /\ calendars'[x].reduced = calendars[x].reduced
           /\ x # c => calendars'[x] = calendars[x]
      /\ calendars[c].status = "Active"
      /\ \A entity \in Entities : Calendar!ActiveCalendars(entity)' =
           IF entity = calendars[c].entity THEN {n} ELSE Calendar!ActiveCalendars(entity)
  <2>1. Updated(c, week, start, reduced)
    BY UpdateVersions
  <2> QED
    BY <2>1 DEF Updated
<1>2. /\ Len(calendars) \in Nat /\ c \in 1..Len(calendars) /\ calendars[c] \in Version
      /\ EntityOf[e] \in Entities
  BY CalendarAssumption DEF CalendarInv, CalendarType, Calendar!Rows
<1>3. PICK entity \in Entities : entity = calendars[c].entity
  BY <1>2 DEF Version
<1>4. Calendar!ActiveCalendars(entity) = {c} /\ c # 0
  <2>1. c \in Calendar!ActiveCalendars(entity)
    BY <1>1, <1>2, <1>3 DEF Calendar!ActiveCalendars, Calendar!Rows
  <2> QED
    BY <1>2, <2>1 DEF CalendarInv, VersionsOK
<1>5. /\ Len(calendars') = n /\ SameSteps(calendars, calendars', Len(calendars))
      /\ calendars'[n].supersedes = c /\ calendars'[n].created = today
      /\ Calendar!ActiveCalendars(entity) = (IF c = 0 THEN {} ELSE {c})
      /\ \A other \in Entities : Calendar!ActiveCalendars(other)' =
           IF other = entity THEN {n} ELSE Calendar!ActiveCalendars(other)
  BY <1>1, <1>3, <1>4 DEF SameSteps, Calendar!NewCalendar
<1>6. c \in 0..Len(calendars)
  BY <1>2
<1>7. /\ Calendar!CalendarOn(EntityOf[e], d)' = Calendar!CalendarOn(EntityOf[e], d)
      /\ Calendar!CalendarOn(EntityOf[e], d) \in 0..Len(calendars)
  BY <1>2, <1>5, <1>6, CalendarOnStays
<1>8. /\ Len(holidays') \in Nat /\ Len(holidays) <= Len(holidays') /\ UNCHANGED patterns
      /\ \A k \in 1..Len(holidays) : holidays'[k] = holidays[k]
      /\ \A k \in 1..Len(holidays') :
           k \notin 1..Len(holidays) => holidays'[k].calendar = Len(calendars) + 1
  BY UpdateHolidays
<1>9. Len(calendars) + 1 \notin 1..Len(calendars)
  BY <1>2
<1> QED
  BY <1>1, <1>7, <1>8, <1>9, HoursStay

\* Nor does an entity's first calendar.
LEMMA InitialKeepsDays ==
  ASSUME CalendarInv, NEW entity \in Entities, Calendar!CreateInitialCalendar(entity),
         NEW e \in Residents, NEW d \in Nat, d < today
  PROVE  Calendar!HoursOn(e, d)' = Calendar!HoursOn(e, d)
<1>1. LET n == Len(calendars) + 1
      IN /\ Len(calendars') = n
         /\ calendars'[n].supersedes = 0 /\ calendars'[n].created = today
         /\ \A x \in 1..Len(calendars) : calendars'[x] = calendars[x]
         /\ Calendar!ActiveCalendars(entity) = {}
         /\ \A other \in Entities : Calendar!ActiveCalendars(other)' =
              IF other = entity THEN {n} ELSE Calendar!ActiveCalendars(other)
  BY InitialVersions
<1>2. UNCHANGED <<holidays, patterns, today, pending>>
  BY DEF Calendar!CreateInitialCalendar
<1>3. Len(calendars) \in Nat /\ EntityOf[e] \in Entities /\ 0 \in 0..Len(calendars)
  BY CalendarAssumption DEF CalendarInv, CalendarType
<1>4. PICK c \in 0..Len(calendars) : c = 0
  BY <1>3
<1>5. LET n == Len(calendars) + 1
      IN /\ Len(calendars') = n /\ SameSteps(calendars, calendars', Len(calendars))
         /\ calendars'[n].supersedes = c /\ calendars'[n].created = today
         /\ Calendar!ActiveCalendars(entity) = (IF c = 0 THEN {} ELSE {c})
         /\ \A other \in Entities : Calendar!ActiveCalendars(other)' =
              IF other = entity THEN {n} ELSE Calendar!ActiveCalendars(other)
  BY <1>1, <1>4 DEF SameSteps
<1>6. /\ Calendar!CalendarOn(EntityOf[e], d)' = Calendar!CalendarOn(EntityOf[e], d)
      /\ Calendar!CalendarOn(EntityOf[e], d) \in 0..Len(calendars)
  BY <1>3, <1>5, CalendarOnStays
<1>7. Len(holidays') \in Nat /\ Len(holidays) <= Len(holidays')
  BY <1>2 DEF CalendarInv, CalendarType
<1> QED
  BY <1>1, <1>2, <1>6, <1>7, HoursStay

\* Setting or clearing a pattern ends the current one on the day given, and adds at most one
\* that begins there.
LEMMA PatternRows ==
  ASSUME CalendarInv, NEW f \in Residents, NEW from \in PatternDates, NEW v,
         \/ \E week \in PatternWeeks : Calendar!PatternSet(f, week, from, v)
         \/ Calendar!PatternClear(f, from, v)
  PROVE  /\ Len(patterns') \in Nat /\ Len(patterns) \in Nat /\ Len(patterns) <= Len(patterns')
         /\ \A q \in 1..Len(patterns) :
              /\ patterns'[q].employee = patterns[q].employee
              /\ patterns'[q].from = patterns[q].from /\ patterns'[q].week = patterns[q].week
              /\ \/ patterns'[q].to = patterns[q].to
                 \/ patterns'[q].to = from /\ patterns[q].to = MaxDay + 1
         /\ \A q \in 1..Len(patterns') : q \notin 1..Len(patterns) => patterns'[q].from = from
<1> DEFINE Ended(t) ==
             /\ t \in Seq(Pattern) /\ Len(t) = Len(patterns)
             /\ \A q \in 1..Len(patterns) :
                  /\ t[q].employee = patterns[q].employee
                  /\ t[q].from = patterns[q].from /\ t[q].week = patterns[q].week
                  /\ t[q].to = patterns[q].to \/ (t[q].to = from /\ patterns[q].to = MaxDay + 1)
<1>1. patterns \in Seq(Pattern) /\ Len(patterns) \in Nat
  BY DEF CalendarInv, CalendarType
<1>2. Ended(patterns)
  BY <1>1
<1>3. ASSUME NEW p \in Calendar!CurrentPatterns(f), from >= patterns[p].from
      PROVE  Ended(Calendar!ClosedPattern(p, from))
  <2>1. PICK t : t = Calendar!ClosedPattern(p, from)
    OBVIOUS
  <2>2. /\ t \in Seq(Pattern) /\ Len(t) = Len(patterns)
        /\ p \in 1..Len(patterns) /\ patterns[p].to = MaxDay + 1
        /\ t[p].to = from /\ t[p].from = patterns[p].from /\ t[p].employee = f
        /\ t[p].week = patterns[p].week /\ patterns[p].employee = f
        /\ \A q \in 1..Len(patterns) : q # p => t[q] = patterns[q]
    BY <1>3, <2>1, PatternCloses
  <2>3. Ended(t)
    BY <2>2
  <2> QED
    BY <2>1, <2>3
<1>4. PICK t : /\ Ended(t)
               /\ \/ patterns' = t
                  \/ \E week \in PatternWeeks : patterns' = Append(t, Calendar!NewPattern(f, week, from))
  <2> HIDE DEF Ended
  <2>1. CASE Calendar!CurrentPatterns(f) = {}
    BY <1>2, <2>1 DEF Calendar!PatternSet, Calendar!PatternClear
  <2>2. CASE Calendar!CurrentPatterns(f) # {}
    <3>1. PICK p \in Calendar!CurrentPatterns(f) :
            /\ from >= patterns[p].from
            /\ \/ patterns' = Calendar!ClosedPattern(p, from)
               \/ \E week \in PatternWeeks :
                    patterns' = Append(Calendar!ClosedPattern(p, from),
                                       Calendar!NewPattern(f, week, from))
      BY <2>2 DEF Calendar!PatternSet, Calendar!PatternClear
    <3> QED
      BY <1>3, <3>1
  <2> QED
    BY <2>1, <2>2
<1>5. CASE patterns' = t
  BY <1>1, <1>4, <1>5
<1>6. ASSUME NEW week \in PatternWeeks, patterns' = Append(t, Calendar!NewPattern(f, week, from))
      PROVE  /\ Len(patterns') = Len(patterns) + 1
             /\ \A q \in 1..Len(patterns) : patterns'[q] = t[q]
             /\ \A q \in 1..Len(patterns') : q \notin 1..Len(patterns) => patterns'[q].from = from
  <2>1. PICK new : new = Calendar!NewPattern(f, week, from)
    OBVIOUS
  <2>2. new.from = from
    BY <2>1 DEF Calendar!NewPattern
  <2> HIDE DEF Ended
  <2>3. t \in Seq(Pattern) /\ Len(t) = Len(patterns)
    BY <1>4 DEF Ended
  <2>4. patterns' = Append(t, new)
    BY <1>6, <2>1
  <2>5. /\ Len(patterns') = Len(patterns) + 1 /\ patterns'[Len(patterns) + 1] = new
        /\ \A q \in 1..Len(patterns) : patterns'[q] = t[q]
    BY <1>1, <2>3, <2>4
  <2>6. \A q \in 1..(Len(patterns) + 1) : q \notin 1..Len(patterns) => q = Len(patterns) + 1
    BY <1>1
  <2> QED
    BY <2>2, <2>5, <2>6
<1> QED
  BY <1>1, <1>4, <1>5, <1>6

\* A day before the one given is answered by the pattern that answered it.
LEMMA PatternKeepsDays ==
  ASSUME CalendarInv, NEW f \in Residents, NEW from \in PatternDates, NEW v,
         \/ \E week \in PatternWeeks : Calendar!PatternSet(f, week, from, v)
         \/ Calendar!PatternClear(f, from, v),
         NEW e \in Residents, NEW d \in 1..(from - 1)
  PROVE  Calendar!HoursOn(e, d)' = Calendar!HoursOn(e, d)
<1>1. /\ Len(patterns') \in Nat /\ Len(patterns) \in Nat /\ Len(patterns) <= Len(patterns')
      /\ \A q \in 1..Len(patterns) :
           /\ patterns'[q].employee = patterns[q].employee
           /\ patterns'[q].from = patterns[q].from /\ patterns'[q].week = patterns[q].week
           /\ \/ patterns'[q].to = patterns[q].to
              \/ patterns'[q].to = from /\ patterns[q].to = MaxDay + 1
      /\ \A q \in 1..Len(patterns') : q \notin 1..Len(patterns) => patterns'[q].from = from
  BY PatternRows
<1>2. UNCHANGED <<calendars, holidays, today, pending>>
  BY DEF Calendar!PatternSet, Calendar!PatternClear
<1>3. MaxDay \in Nat /\ from \in 1..MaxDay /\ d \in Nat /\ d < from /\ d < MaxDay + 1 /\ ~(from <= d)
  BY CalendarAssumption
<1>4. \A q \in 1..Len(patterns) : patterns[q].from \in 0..MaxDay
  <2>1. \A q \in 1..Len(patterns) : patterns[q] \in Pattern
    BY DEF CalendarInv, CalendarType
  <2> QED
    BY <1>3, <2>1 DEF Pattern
<1> DEFINE Covering(table) == {p \in 1..Len(table) : /\ table[p].employee = e
                                                     /\ table[p].from <= d /\ d < table[p].to}
           Latest(table) == {p \in Covering(table) :
                               \A q \in Covering(table) :
                                 \/ table[q].from < table[p].from
                                 \/ table[q].from = table[p].from /\ p <= q}
<1>5. Covering(patterns') = Covering(patterns)
  <2>1. \A q \in 1..Len(patterns) : q \in 1..Len(patterns')
    BY <1>1
  <2>2. \A q \in 1..Len(patterns) : d < patterns'[q].to <=> d < patterns[q].to
    BY <1>1, <1>3
  <2>3. \A q : q \in Covering(patterns') <=> q \in Covering(patterns)
    BY <1>1, <1>3, <2>1, <2>2
  <2> HIDE DEF Covering
  <2> QED
    BY <2>3
<1>6. /\ Covering(patterns) \in SUBSET Nat
      /\ \A q \in Covering(patterns) : q \in 1..Len(patterns)
  OBVIOUS
<1>7. Latest(patterns') = Latest(patterns)
  <2> HIDE DEF Covering
  <2>1. \A q \in Covering(patterns) : patterns'[q].from = patterns[q].from
    BY <1>1, <1>6
  <2> QED
    BY <1>5, <2>1
<1>8. /\ Calendar!PatternOn(e, d) =
           IF Covering(patterns) = {} THEN 0 ELSE CHOOSE p \in Latest(patterns) : TRUE
      /\ Calendar!PatternOn(e, d)' =
           IF Covering(patterns') = {} THEN 0 ELSE CHOOSE p \in Latest(patterns') : TRUE
  BY DEF Calendar!PatternOn, Calendar!Rows
<1>9. Covering(patterns) # {} => Latest(patterns) # {} /\ Latest(patterns) \subseteq 1..Len(patterns)
  <2> SUFFICES ASSUME Covering(patterns) # {}
               PROVE  Latest(patterns) # {} /\ Latest(patterns) \subseteq 1..Len(patterns)
    OBVIOUS
  <2>1. PICK key : key = [q \in 1..Len(patterns) |-> patterns[q].from]
    OBVIOUS
  <2>2. \A q \in 1..Len(patterns) : key[q] = patterns[q].from
    BY <2>1
  <2>3. PICK S \in SUBSET Nat : S = Covering(patterns)
    BY <1>6
  <2> HIDE DEF Covering
  <2>4. S # {} /\ \A q \in S : key[q] \in 0..MaxDay
    BY <1>4, <1>6, <2>2, <2>3
  <2>5. PICK p \in S : \A q \in S : key[q] < key[p] \/ (key[q] = key[p] /\ p <= q)
    BY <1>3, <2>4, LatestExists
  <2>6. \A q \in S : key[q] = patterns[q].from
    BY <1>6, <2>2, <2>3
  <2>7. p \in Latest(patterns)
    BY <2>3, <2>5, <2>6
  <2>8. Latest(patterns) \subseteq Covering(patterns)
    OBVIOUS
  <2> QED
    BY <1>6, <2>7, <2>8
<1> HIDE DEF Covering, Latest
<1>10. PICK p : p = Calendar!PatternOn(e, d)
  OBVIOUS
<1>11. Calendar!PatternOn(e, d)' = p /\ (p = 0 \/ p \in 1..Len(patterns))
  <2>1. PICK some : some = CHOOSE q \in Latest(patterns) : TRUE
    OBVIOUS
  <2>2. Covering(patterns) # {} => some \in 1..Len(patterns)
    BY <1>9, <2>1
  <2> QED
    BY <1>5, <1>7, <1>8, <1>10, <2>1, <2>2
<1>12. PICK k : k = Calendar!CalendarOn(EntityOf[e], d)
  OBVIOUS
<1>13. Calendar!CalendarOn(EntityOf[e], d)' = k
  BY <1>2, <1>12 DEF Calendar!CalendarOn, Calendar!VersionBy, Calendar!ActiveCalendars, Calendar!Rows
<1>14. /\ Calendar!HoursOn(e, d) =
            HoursBy(calendars, k, patterns, p, holidays, Calendar!HolidaysOf(k), d, e)
       /\ Calendar!HoursOn(e, d)' =
            HoursBy(calendars', k, patterns', p, holidays', (Calendar!HolidaysOf(k))', d, e)
  BY <1>10, <1>11, <1>12, <1>13, HoursAre
<1>15. (Calendar!HolidaysOf(k))' = Calendar!HolidaysOf(k)
  BY <1>2 DEF Calendar!HolidaysOf, Calendar!Rows
<1>16. (IF p = 0 THEN <<>> ELSE patterns'[p].week) = (IF p = 0 THEN <<>> ELSE patterns[p].week)
  <2>1. p # 0 => patterns'[p].week = patterns[p].week
    BY <1>1, <1>11
  <2> QED
    BY <2>1, Zenon
<1> QED
  BY <1>2, <1>14, <1>15, <1>16 DEF HoursBy

-----------------------------------------------------------------------------
\* What a change of the calendar's rows is.
LEMMA CalendarChanges ==
  ASSUME [Calendar!Next]_Calendar!vars, calendars' # calendars
  PROVE  \/ \E entity \in Entities : Calendar!CreateInitialCalendar(entity)
         \/ \E c \in Calendar!Rows(calendars), v \in 1..2, week \in Weeks, start \in StartDays,
               reduced \in ReducedDays : Calendar!CalendarUpdate(c, v, week, start, reduced)
  BY Zenon
  DEF Calendar!Next, Calendar!vars, Calendar!Tick, Calendar!HolidayAddRead,
         Calendar!HolidayConfirmRead, Calendar!HolidayCancelRead, Calendar!Begin,
         Calendar!HolidayAddWrite, Calendar!HolidayConfirmWrite, Calendar!HolidayCancelWrite,
         Calendar!PatternSet, Calendar!PatternClear

\* A new version of a calendar leaves the hours of the days before it is written as they were,
\* and a new pattern those of the days before it begins, for every order of writes.
LEMMA DaysAreKept == WorkforceSpec => Calendar!HistoryIsKept
<1> DEFINE Kept == /\ calendars' # calendars =>
                        \A e \in Residents, d \in Calendar!Days :
                          d < today => Calendar!HoursOn(e, d)' = Calendar!HoursOn(e, d)
                   /\ \A f \in Residents, from \in PatternDates, v \in 0..2, week \in PatternWeeks :
                        Calendar!PatternSet(f, week, from, v) \/ Calendar!PatternClear(f, from, v) =>
                          \A e \in Residents, d \in 1..(from - 1) :
                            Calendar!HoursOn(e, d)' = Calendar!HoursOn(e, d)
<1>1. ASSUME CalendarInv, [Calendar!Next]_Calendar!vars PROVE Kept
  <2>1. ASSUME calendars' # calendars, NEW e \in Residents, NEW d \in Calendar!Days, d < today
        PROVE  Calendar!HoursOn(e, d)' = Calendar!HoursOn(e, d)
    <3>1. d \in Nat
      BY CalendarAssumption DEF Calendar!Days
    <3>2. CASE \E entity \in Entities : Calendar!CreateInitialCalendar(entity)
      BY <1>1, <2>1, <3>1, <3>2, InitialKeepsDays
    <3>3. CASE \E c \in Calendar!Rows(calendars), v \in 1..2, week \in Weeks, start \in StartDays,
                  reduced \in ReducedDays : Calendar!CalendarUpdate(c, v, week, start, reduced)
      BY <1>1, <2>1, <3>1, <3>3, UpdateKeepsDays
    <3> QED
      BY <1>1, <2>1, <3>2, <3>3, CalendarChanges
  <2>2. ASSUME NEW f \in Residents, NEW from \in PatternDates, NEW v \in 0..2,
               NEW week \in PatternWeeks,
               Calendar!PatternSet(f, week, from, v) \/ Calendar!PatternClear(f, from, v),
               NEW e \in Residents, NEW d \in 1..(from - 1)
        PROVE  Calendar!HoursOn(e, d)' = Calendar!HoursOn(e, d)
    BY <1>1, <2>2, PatternKeepsDays
  <2> QED
    BY <2>1, <2>2
<1>2. CalendarInv /\ [Calendar!Next]_Calendar!vars
      => [\A e \in Residents :
            /\ calendars' # calendars =>
                 \A d \in Calendar!Days : d < today => Calendar!HoursOn(e, d)' = Calendar!HoursOn(e, d)
            /\ \A f \in Residents, from \in PatternDates, v \in 0..2, week \in PatternWeeks :
                 Calendar!PatternSet(f, week, from, v) \/ Calendar!PatternClear(f, from, v) =>
                   \A d \in 1..(from - 1) : Calendar!HoursOn(e, d)' = Calendar!HoursOn(e, d)]_Calendar!vars
  BY <1>1
<1> QED
  BY <1>2, CalendarInvHolds, WorkforceIsItsParts, PTL DEF Calendar!Spec, Calendar!HistoryIsKept

\* What is known of a holiday, whichever row holds it.
KnownOf(row) ==
  [date |-> row.date, where |-> row.where, half |-> row.half, confirmed |-> row.confirmed]

\* The holidays that are known are those of the versions in force.
LEMMA KnownIs ==
  ASSUME NEW entity
  PROVE  /\ \A x : x \in Calendar!KnownHolidays(entity) <=>
              \E c \in Calendar!ActiveCalendars(entity) : \E h \in Calendar!HolidaysOf(c) :
                x = KnownOf(holidays[h])
         /\ \A x : x \in (Calendar!KnownHolidays(entity))' <=>
              \E c \in (Calendar!ActiveCalendars(entity))' : \E h \in 1..Len(holidays') :
                /\ holidays'[h].calendar = c /\ holidays'[h].status = "Active"
                /\ x = KnownOf(holidays'[h])
  BY DEF Calendar!KnownHolidays, Calendar!HolidaysOf, Calendar!Rows, KnownOf

\* Carrying a holiday keeps what is known of it.
LEMMA CarriedIsKnown ==
  ASSUME CalendarInv, NEW c, NEW h \in Calendar!HolidaysOf(c), NEW n
  PROVE  KnownOf(CarriedTo(n, h)) = KnownOf(holidays[h])
<1>1. holidays[h] \in Holiday
  BY DEF CalendarInv, CalendarType, Calendar!HolidaysOf, Calendar!Rows
<1> QED
  BY <1>1 DEF KnownOf, CarriedTo, Holiday

\* The holidays of a version there was are the ones it had.
LEMMA OthersKeepHolidays ==
  ASSUME CalendarInv, NEW entity \in Entities,
         (Calendar!ActiveCalendars(entity))' = Calendar!ActiveCalendars(entity),
         Len(holidays') \in Nat, Len(holidays) <= Len(holidays'),
         \A k \in 1..Len(holidays) : holidays'[k] = holidays[k],
         \A k \in 1..Len(holidays') :
           k \notin 1..Len(holidays) => holidays'[k].calendar \notin 1..Len(calendars)
  PROVE  (Calendar!KnownHolidays(entity))' = Calendar!KnownHolidays(entity)
<1>1. /\ \A c \in Calendar!ActiveCalendars(entity) : c \in 1..Len(calendars)
      /\ Len(holidays) \in Nat
  BY DEF CalendarInv, CalendarType, Calendar!ActiveCalendars, Calendar!Rows
<1>2. \A k \in 1..Len(holidays) : k \in 1..Len(holidays')
  BY <1>1
<1>3. \A c \in 1..Len(calendars) : \A h :
        h \in Calendar!HolidaysOf(c) <=>
          h \in 1..Len(holidays') /\ holidays'[h].calendar = c /\ holidays'[h].status = "Active"
  BY <1>2 DEF Calendar!HolidaysOf, Calendar!Rows
<1>4. \A c : \A h \in Calendar!HolidaysOf(c) : holidays'[h] = holidays[h]
  BY DEF Calendar!HolidaysOf, Calendar!Rows
<1>5. \A x : x \in (Calendar!KnownHolidays(entity))' <=> x \in Calendar!KnownHolidays(entity)
  BY <1>1, <1>3, <1>4, KnownIs
<1> QED
  BY <1>5

\* The holidays that are in force, and only those, are carried to the new version.
LEMMA UpdateCarries ==
  ASSUME CalendarInv, NEW c \in Calendar!Rows(calendars), NEW v,
         NEW week \in Weeks, NEW start \in StartDays, NEW reduced \in ReducedDays,
         Calendar!CalendarUpdate(c, v, week, start, reduced), NEW entity \in Entities
  PROVE  /\ (Calendar!KnownHolidays(entity))' = Calendar!KnownHolidays(entity)
         /\ \A h \in Calendar!Rows(holidays) : holidays'[h] = holidays[h]
<1> DEFINE n == Len(calendars) + 1
<1>1. /\ calendars[c].status = "Active"
      /\ \A other \in Entities : Calendar!ActiveCalendars(other)' =
           IF other = calendars[c].entity THEN {n} ELSE Calendar!ActiveCalendars(other)
  <2>1. Updated(c, week, start, reduced)
    BY UpdateVersions
  <2> QED
    BY <2>1 DEF Updated
<1>2. /\ holidays' \in Seq(Holiday) /\ Len(holidays') \in Nat /\ Len(holidays) \in Nat
      /\ Len(holidays) <= Len(holidays')
      /\ \A k \in 1..Len(holidays) : holidays'[k] = holidays[k]
      /\ \A k \in 1..Len(holidays') : k \notin 1..Len(holidays) =>
           \E h \in Calendar!HolidaysOf(c) : holidays'[k] = CarriedTo(n, h)
      /\ \A h \in Calendar!HolidaysOf(c) : \E k \in 1..Len(holidays') :
           k \notin 1..Len(holidays) /\ holidays'[k] = CarriedTo(n, h)
      /\ \A h \in Calendar!HolidaysOf(c) :
           CarriedTo(n, h).calendar = n /\ CarriedTo(n, h).status = "Active"
      /\ UNCHANGED <<patterns, today, pending>>
  BY UpdateHolidays
<1>3. /\ Len(calendars) \in Nat /\ c \in 1..Len(calendars)
      /\ \A k \in 1..Len(holidays) : holidays[k].calendar \in 1..Len(calendars)
  BY DEF CalendarInv, CalendarType, HolidaysOK, Calendar!Rows
<1>4. n \notin 1..Len(calendars)
  BY <1>3
<1>5. CASE entity # calendars[c].entity
  <2>1. \A k \in 1..Len(holidays') :
          k \notin 1..Len(holidays) => holidays'[k].calendar \notin 1..Len(calendars)
    BY <1>2, <1>4
  <2>2. (Calendar!ActiveCalendars(entity))' = Calendar!ActiveCalendars(entity)
    BY <1>1, <1>5
  <2> QED
    BY <1>2, <2>1, <2>2, OthersKeepHolidays DEF Calendar!Rows
<1>6. CASE entity = calendars[c].entity
  <2>1. Calendar!ActiveCalendars(entity) = {c}
    <3>1. c \in Calendar!ActiveCalendars(entity)
      BY <1>1, <1>3, <1>6 DEF Calendar!ActiveCalendars, Calendar!Rows
    <3> QED
      BY <3>1 DEF CalendarInv, VersionsOK
  <2>2. (Calendar!ActiveCalendars(entity))' = {n}
    BY <1>1, <1>6
  <2> HIDE DEF n
  <2>3. \A h \in Calendar!HolidaysOf(c) : KnownOf(CarriedTo(n, h)) = KnownOf(holidays[h])
    BY CarriedIsKnown
  <2>4. \A x : x \in Calendar!KnownHolidays(entity) <=>
                 \E h \in Calendar!HolidaysOf(c) : x = KnownOf(holidays[h])
    BY <2>1, KnownIs
  <2>5. \A x : x \in (Calendar!KnownHolidays(entity))' <=>
                 \E k \in 1..Len(holidays') : /\ holidays'[k].calendar = n
                                              /\ holidays'[k].status = "Active"
                                              /\ x = KnownOf(holidays'[k])
    <3>1. \A x : x \in (Calendar!KnownHolidays(entity))' <=>
            \E y \in (Calendar!ActiveCalendars(entity))' : \E h \in 1..Len(holidays') :
              /\ holidays'[h].calendar = y /\ holidays'[h].status = "Active"
              /\ x = KnownOf(holidays'[h])
      BY KnownIs
    <3> QED
      BY <2>2, <3>1
  <2>6. \A k \in 1..Len(holidays') : holidays'[k].calendar = n => k \notin 1..Len(holidays)
    BY <1>2, <1>3, <1>4
  <2>7. ASSUME NEW x \in Calendar!KnownHolidays(entity)
        PROVE  x \in (Calendar!KnownHolidays(entity))'
    <3>1. PICK h \in Calendar!HolidaysOf(c) : x = KnownOf(holidays[h])
      BY <2>4
    <3>2. PICK k \in 1..Len(holidays') : holidays'[k] = CarriedTo(n, h)
      BY <1>2
    <3>3. /\ holidays'[k].calendar = n /\ holidays'[k].status = "Active"
          /\ KnownOf(holidays'[k]) = x
      BY <1>2, <2>3, <3>1, <3>2
    <3> QED
      BY <2>5, <3>3
  <2>8. ASSUME NEW x \in (Calendar!KnownHolidays(entity))'
        PROVE  x \in Calendar!KnownHolidays(entity)
    <3>1. PICK k \in 1..Len(holidays') : holidays'[k].calendar = n /\ x = KnownOf(holidays'[k])
      BY <2>5
    <3>2. PICK h \in Calendar!HolidaysOf(c) : holidays'[k] = CarriedTo(n, h)
      BY <1>2, <2>6, <3>1
    <3>3. x = KnownOf(holidays[h])
      BY <2>3, <3>1, <3>2
    <3> QED
      BY <2>4, <3>3
  <2>9. (Calendar!KnownHolidays(entity))' = Calendar!KnownHolidays(entity)
    BY <2>7, <2>8
  <2> QED
    BY <1>2, <2>9 DEF Calendar!Rows
<1> QED
  BY <1>5, <1>6

\* An entity's first calendar has no holidays, and there were none.
LEMMA InitialCarries ==
  ASSUME CalendarInv, NEW first \in Entities, Calendar!CreateInitialCalendar(first),
         NEW entity \in Entities
  PROVE  /\ (Calendar!KnownHolidays(entity))' = Calendar!KnownHolidays(entity)
         /\ \A h \in Calendar!Rows(holidays) : holidays'[h] = holidays[h]
<1> DEFINE n == Len(calendars) + 1
<1>1. /\ Calendar!ActiveCalendars(first) = {}
      /\ \A other \in Entities : Calendar!ActiveCalendars(other)' =
           IF other = first THEN {n} ELSE Calendar!ActiveCalendars(other)
  BY InitialVersions
<1>2. holidays' = holidays
  BY DEF Calendar!CreateInitialCalendar
<1>3. /\ Len(calendars) \in Nat /\ Len(holidays) \in Nat
      /\ \A k \in 1..Len(holidays) : holidays[k].calendar \in 1..Len(calendars)
  BY DEF CalendarInv, CalendarType, HolidaysOK
<1>4. n \notin 1..Len(calendars)
  BY <1>3
<1>5. CASE entity # first
  <2>1. (Calendar!ActiveCalendars(entity))' = Calendar!ActiveCalendars(entity)
    BY <1>1, <1>5
  <2>2. /\ Len(holidays') \in Nat /\ Len(holidays) <= Len(holidays')
        /\ \A k \in 1..Len(holidays') :
             k \notin 1..Len(holidays) => holidays'[k].calendar \notin 1..Len(calendars)
    BY <1>2, <1>3
  <2> QED
    BY <1>2, <2>1, <2>2, OthersKeepHolidays
<1>6. CASE entity = first
  <2>1. \A x : x \notin Calendar!KnownHolidays(entity)
    BY <1>1, <1>6, KnownIs
  <2>2. (Calendar!ActiveCalendars(entity))' = {n}
    BY <1>1, <1>6
  <2>3. \A k \in 1..Len(holidays') : holidays'[k].calendar # n
    BY <1>2, <1>3, <1>4
  <2>4. \A x : x \notin (Calendar!KnownHolidays(entity))'
    BY <2>2, <2>3, KnownIs
  <2> QED
    BY <1>2, <2>1, <2>4
<1> QED
  BY <1>5, <1>6

\* A change of the calendar or of a pattern leaves the days before it, whichever employee asks,
\* and carries exactly the holidays that are in force, for every order of writes.
THEOREM HistoryKept == WorkforceSpec => HistoryIsKept
<1>1. ASSUME CalendarInv, [Calendar!Next]_Calendar!vars, calendars' # calendars
      PROVE  /\ \A entity \in Entities :
                  (Calendar!KnownHolidays(entity))' = Calendar!KnownHolidays(entity)
             /\ \A h \in Calendar!Rows(holidays) : holidays'[h] = holidays[h]
  <2>1. Entities # {}
    BY <1>1, CalendarChanges DEF CalendarInv, CalendarType, Version, Calendar!Rows
  <2>2. CASE \E entity \in Entities : Calendar!CreateInitialCalendar(entity)
    BY <1>1, <2>1, <2>2, InitialCarries
  <2>3. CASE \E c \in Calendar!Rows(calendars), v \in 1..2, week \in Weeks, start \in StartDays,
                reduced \in ReducedDays : Calendar!CalendarUpdate(c, v, week, start, reduced)
    BY <1>1, <2>1, <2>3, UpdateCarries
  <2> QED
    BY <1>1, <2>2, <2>3, CalendarChanges
<1>2. WorkforceSpec => Calendar!HolidaysAreCarried
  BY <1>1, CalendarInvHolds, WorkforceIsItsParts, PTL DEF Calendar!Spec, Calendar!HolidaysAreCarried
<1> QED
  BY <1>2, DaysAreKept, PTL DEF HistoryIsKept

\* A row at the end of a table is a table of one row after it.
LEMMA AppendIs ==
  ASSUME NEW Row, NEW s \in Seq(Row), NEW e \in Row
  PROVE  Append(s, e) = s \o <<e>>
  OBVIOUS

\* A holiday as the device copies it.
ShownCarried(n, h) == [holidays[h] EXCEPT !.calendar = n, !.status = "Active", !.version = 1]

\* A version as the device writes it from the one it replaces, and written out.
Rewritten(row, week, start, reduced, day, prior) ==
  [row EXCEPT !.week = week, !.start = start, !.reduced = reduced, !.status = "Active",
              !.created = day, !.version = 1, !.supersedes = prior]
WrittenOut(entity, week, start, reduced, day, prior) ==
  [entity |-> entity, status |-> "Active", version |-> 1, created |-> day,
   week |-> week, start |-> start, reduced |-> reduced, supersedes |-> prior]

\* The two are one row.
LEMMA VersionRewritten ==
  ASSUME NEW row \in Version, NEW week, NEW start, NEW reduced, NEW day, NEW prior
  PROVE  Rewritten(row, week, start, reduced, day, prior)
           = WrittenOut(row.entity, week, start, reduced, day, prior)
<1> DEFINE a == Rewritten(row, week, start, reduced, day, prior)
           b == WrittenOut(row.entity, week, start, reduced, day, prior)
<1> USE DEF Rewritten, WrittenOut
<1>1. DOMAIN a = DOMAIN row
  OBVIOUS
<1>2. /\ DOMAIN row = {"entity", "status", "version", "created", "week", "start", "reduced",
                       "supersedes"}
      /\ DOMAIN b = DOMAIN row
  BY DEF Version
<1>3. /\ a.entity = b.entity /\ a.status = b.status /\ a.version = b.version
      /\ a.created = b.created /\ a.week = b.week /\ a.start = b.start
      /\ a.reduced = b.reduced /\ a.supersedes = b.supersedes
  BY <1>2
<1>4. a = [f \in DOMAIN row |-> a[f]] /\ b = [f \in DOMAIN row |-> b[f]]
  BY <1>1, <1>2
<1> HIDE DEF a, b
<1>5. \A f \in DOMAIN row : a[f] = b[f]
  BY <1>2, <1>3
<1>6. [f \in DOMAIN row |-> a[f]] = [f \in DOMAIN row |-> b[f]]
  BY <1>5
<1>7. a = b
  BY <1>4, <1>6, Zenon
<1> QED
  BY <1>7 DEF a, b

\* The device writes the version the server writes, and copies the same holidays.
LEMMA UpdateShown ==
  ASSUME CalendarInv, NEW c \in Calendar!Rows(calendars), NEW v,
         NEW week \in Weeks, NEW start \in StartDays, NEW reduced \in ReducedDays,
         Calendar!CalendarUpdate(c, v, week, start, reduced)
  PROVE  Calendar!DeviceCalendarUpdate(c, v, week, start, reduced)
<1> DEFINE n == Len(calendars) + 1
           S == Calendar!HolidaysOf(c)
           ids == Calendar!SetToSeq(S)
           new == Calendar!NewCalendar(calendars[c].entity, week, start, reduced, c)
           shown == [calendars[c] EXCEPT !.week = week, !.start = start, !.reduced = reduced,
                                         !.status = "Active", !.created = today, !.version = 1,
                                         !.supersedes = c]
           marked == [calendars EXCEPT ![c].status = "Superseded", ![c].version = @ + 1]
<1>1. /\ calendars \in Seq(Version) /\ c \in 1..Len(calendars) /\ calendars[c] \in Version
      /\ today \in Nat /\ c \in Nat
  BY DEF CalendarInv, CalendarType, Calendar!Rows
<1>2. v = calendars[c].version /\ calendars[c].status = "Active"
  BY DEF Calendar!CalendarUpdate
<1>3. shown = new /\ new \in Version
  <2>1. new \in Version
    BY <1>1 DEF Version, Calendar!NewCalendar
  <2>2. Rewritten(calendars[c], week, start, reduced, today, c)
          = WrittenOut(calendars[c].entity, week, start, reduced, today, c)
    BY <1>1, VersionRewritten
  <2>3. shown = Rewritten(calendars[c], week, start, reduced, today, c)
    BY DEF Rewritten
  <2>4. new = WrittenOut(calendars[c].entity, week, start, reduced, today, c)
    BY DEF WrittenOut, Calendar!NewCalendar
  <2> QED
    BY <2>1, <2>2, <2>3, <2>4, Zenon
<1>4. marked \in Seq(Version)
  <2>1. PICK next \in Nat : next = calendars[c].version + 1
    BY <1>1 DEF Version
  <2>2. [calendars[c] EXCEPT !.status = "Superseded", !.version = next] \in Version
    BY <1>1 DEF Version
  <2>3. marked = [calendars EXCEPT ![c] =
                    [calendars[c] EXCEPT !.status = "Superseded", !.version = next]]
    BY <1>1, <2>1
  <2> HIDE DEF marked
  <2> QED
    BY <1>1, <2>2, <2>3
<1>5. calendars' = marked \o <<shown>>
  <2>1. calendars' = Append(marked, new)
    BY DEF Calendar!CalendarUpdate
  <2>2. PICK s \in Seq(Version), e \in Version : s = marked /\ e = new
    BY <1>3, <1>4
  <2>3. Append(s, e) = s \o <<e>>
    BY AppendIs
  <2> HIDE DEF marked, new, shown
  <2> QED
    BY <1>3, <2>1, <2>2, <2>3
<1>6. IsFiniteSet(S) /\ \A h \in S : holidays[h] \in Holiday /\ holidays[h].status = "Active"
  BY HolidaysAreFinite
<1>7. Len(ids) \in Nat /\ ids \in [1..Len(ids) -> S]
  <2> HIDE DEF S
  <2> QED
    BY <1>6, IdsAre
<1>8. \A h \in S : CarriedTo(n, h) = ShownCarried(n, h)
  BY <1>6 DEF CarriedTo, ShownCarried, Holiday
<1>9. [i \in 1..Len(ids) |-> CarriedTo(n, ids[i])] = [i \in 1..Len(ids) |-> ShownCarried(n, ids[i])]
  <2> HIDE DEF ids, S, n
  <2>1. \A i \in 1..Len(ids) : CarriedTo(n, ids[i]) = ShownCarried(n, ids[i])
    BY <1>7, <1>8
  <2> QED
    BY <2>1
<1>10. holidays' = holidays \o [i \in 1..Len(ids) |-> CarriedTo(n, ids[i])]
  BY DEF Calendar!CalendarUpdate, Calendar!CarriedHolidays, Calendar!Rows, CarriedTo
<1>11. holidays' = holidays \o [i \in 1..Len(ids) |-> ShownCarried(n, ids[i])]
  BY <1>9, <1>10, Zenon
<1> QED
  BY <1>2, <1>5, <1>11, Zenon
  DEF Calendar!DeviceCalendarUpdate, ShownCarried, Calendar!HolidaysOf, Calendar!Rows

\* A pattern that is set on the device closes the current one as the server does.
LEMMA PatternSetShown ==
  ASSUME CalendarInv, NEW e \in Residents, NEW from \in PatternDates, NEW v,
         NEW week \in PatternWeeks, Calendar!PatternSet(e, week, from, v)
  PROVE  Calendar!DevicePatternSet(e, week, from, v)
<1> DEFINE current == {p \in Calendar!Rows(patterns) :
                         patterns[p].employee = e /\ patterns[p].status = "Active"}
           closed == [p \in Calendar!Rows(patterns) |->
                        IF p \notin current THEN patterns[p]
                        ELSE [patterns[p] EXCEPT !.status = "Superseded", !.to = from,
                                                 !.version = @ + 1]]
           new == Calendar!NewPattern(e, week, from)
<1>1. /\ patterns \in Seq(Pattern) /\ Len(patterns) \in Nat
      /\ current = Calendar!CurrentPatterns(e) /\ current \subseteq 1..Len(patterns)
      /\ patterns = [p \in 1..Len(patterns) |-> patterns[p]]
  BY DEF CalendarInv, CalendarType, Calendar!CurrentPatterns, Calendar!Rows
<1>2. from \in 1..MaxDay /\ MaxDay \in Nat
  BY CalendarAssumption
<1>3. new \in Pattern
  BY <1>2 DEF Calendar!NewPattern, Pattern, Calendar!Forever
<1>4. CASE current = {}
  <2>1. v = Calendar!NoVersion /\ patterns' = Append(patterns, new)
    BY <1>1, <1>4 DEF Calendar!PatternSet
  <2>2. closed = patterns
    BY <1>1, <1>4 DEF Calendar!Rows
  <2>3. patterns' = patterns \o <<new>>
    BY <1>1, <1>3, <2>1, AppendIs
  <2> HIDE DEF current, closed
  <2>4. patterns' = closed \o <<new>>
    BY <2>2, <2>3
  <2> QED
    BY <1>4, <2>1, <2>4 DEF Calendar!DevicePatternSet, current, closed, Calendar!NewPattern
<1>5. CASE current # {}
  <2>1. PICK p \in Calendar!CurrentPatterns(e) :
          /\ v = patterns[p].version /\ from >= patterns[p].from
          /\ patterns' = Append(Calendar!ClosedPattern(p, from), new)
    BY <1>1, <1>5 DEF Calendar!PatternSet
  <2>2. current = {p}
    BY <1>1, <2>1 DEF CalendarInv, PatternsOK
  <2>3. PICK t : t = Calendar!ClosedPattern(p, from)
    OBVIOUS
  <2>4. t \in Seq(Pattern)
    BY <2>1, <2>3, PatternCloses
  <2>5. closed = t
    BY <1>1, <2>2, <2>3 DEF Calendar!ClosedPattern, Calendar!Rows
  <2>6. patterns' = t \o <<new>>
    BY <1>3, <2>1, <2>3, <2>4, AppendIs
  <2> HIDE DEF current, closed
  <2>7. \A q \in current : v = patterns[q].version /\ from >= patterns[q].from
    BY <2>1, <2>2
  <2>8. patterns' = closed \o <<new>>
    BY <2>5, <2>6
  <2> QED
    BY <1>5, <2>7, <2>8 DEF Calendar!DevicePatternSet, current, closed, Calendar!NewPattern
<1> QED
  BY <1>4, <1>5

\* And one that is cleared.
LEMMA PatternClearShown ==
  ASSUME NEW e, NEW from, NEW v, Calendar!PatternClear(e, from, v)
  PROVE  Calendar!DevicePatternClear(e, from, v)
  BY DEF Calendar!PatternClear, Calendar!DevicePatternClear, Calendar!CurrentPatterns,
         Calendar!ClosedPattern

\* A holiday that is written is the one the device shows, while its calendar is in force.
LEMMA HolidayShown ==
  ASSUME CalendarInv, NEW r \in pending
  PROVE  /\ Calendar!HolidayAddWrite(r) /\ calendars[r.calendar].status = "Active"
              => Calendar!DeviceHolidayAdd(r.calendar, r.date, r.kind)
         /\ Calendar!HolidayConfirmWrite(r) /\ calendars[holidays[r.holiday].calendar].status = "Active"
              => Calendar!DeviceHolidayConfirm(r.holiday, r.date)
         /\ Calendar!HolidayCancelWrite(r) /\ calendars[holidays[r.holiday].calendar].status = "Active"
              /\ holidays[r.holiday].version = r.version
              => Calendar!DeviceHolidayCancel(r.holiday, r.version)
<1>1. ASSUME Calendar!HolidayAddWrite(r), calendars[r.calendar].status = "Active"
      PROVE  Calendar!DeviceHolidayAdd(r.calendar, r.date, r.kind)
  <2> DEFINE row == [calendar |-> r.calendar, status |-> "Active", version |-> 1, date |-> r.date,
                     where |-> r.kind.where, half |-> r.kind.half, confirmed |-> FALSE]
  <2>1. holidays \in Seq(Holiday) /\ RequestOK(r) /\ Len(calendars) \in Nat
    BY DEF CalendarInv, CalendarType, RequestsOK
  <2>2. r.calendar \in 1..Len(calendars) /\ r.date \in HolidayDates /\ r.kind \in HolidayKinds
    BY <1>1, <2>1 DEF RequestOK, Calendar!HolidayAddWrite
  <2>3. r.calendar \in Nat /\ r.kind.where \in Where /\ r.kind.half \in Half
    BY <2>1, <2>2 DEF Where, Half
  <2>4. row \in Holiday
    BY <2>2, <2>3 DEF Holiday
  <2>5. holidays' = Append(holidays, row)
    BY <1>1 DEF Calendar!HolidayAddWrite
  <2> HIDE DEF row
  <2>6. holidays' = holidays \o <<row>>
    BY <2>1, <2>4, <2>5, AppendIs
  <2> QED
    BY <1>1, <2>6 DEF Calendar!DeviceHolidayAdd, row
<1>2. ASSUME Calendar!HolidayConfirmWrite(r),
             calendars[holidays[r.holiday].calendar].status = "Active"
      PROVE  Calendar!DeviceHolidayConfirm(r.holiday, r.date)
  BY <1>2 DEF Calendar!HolidayConfirmWrite, Calendar!DeviceHolidayConfirm
<1>3. ASSUME Calendar!HolidayCancelWrite(r),
             calendars[holidays[r.holiday].calendar].status = "Active",
             holidays[r.holiday].version = r.version
      PROVE  Calendar!DeviceHolidayCancel(r.holiday, r.version)
  BY <1>3 DEF Calendar!HolidayCancelWrite, Calendar!DeviceHolidayCancel
<1> QED
  BY <1>1, <1>2, <1>3

\* Whatever the server makes of a change of a calendar, a holiday or a pattern, the device has
\* shown on the same rows.
THEOREM CalendarIsShown == WorkforceSpec => ShownAsDelivered
<1>1. ASSUME CalendarInv
      PROVE  /\ \A c \in Calendar!Rows(calendars), v \in 1..2, week \in Weeks, start \in StartDays,
                   reduced \in ReducedDays :
                  Calendar!CalendarUpdate(c, v, week, start, reduced)
                    => Calendar!DeviceCalendarUpdate(c, v, week, start, reduced)
             /\ \A e \in Residents, from \in PatternDates, v \in 0..2 :
                  /\ \A week \in PatternWeeks :
                       Calendar!PatternSet(e, week, from, v)
                         => Calendar!DevicePatternSet(e, week, from, v)
                  /\ Calendar!PatternClear(e, from, v) => Calendar!DevicePatternClear(e, from, v)
             /\ \A r \in pending :
                  /\ Calendar!HolidayAddWrite(r) /\ calendars[r.calendar].status = "Active"
                       => Calendar!DeviceHolidayAdd(r.calendar, r.date, r.kind)
                  /\ Calendar!HolidayConfirmWrite(r)
                     /\ calendars[holidays[r.holiday].calendar].status = "Active"
                       => Calendar!DeviceHolidayConfirm(r.holiday, r.date)
                  /\ Calendar!HolidayCancelWrite(r)
                     /\ calendars[holidays[r.holiday].calendar].status = "Active"
                     /\ holidays[r.holiday].version = r.version
                       => Calendar!DeviceHolidayCancel(r.holiday, r.version)
  <2>1. \A c \in Calendar!Rows(calendars), v \in 1..2, week \in Weeks, start \in StartDays,
           reduced \in ReducedDays :
          Calendar!CalendarUpdate(c, v, week, start, reduced)
            => Calendar!DeviceCalendarUpdate(c, v, week, start, reduced)
    BY <1>1, UpdateShown
  <2>2. \A e \in Residents, from \in PatternDates, v \in 0..2 :
          /\ \A week \in PatternWeeks :
               Calendar!PatternSet(e, week, from, v) => Calendar!DevicePatternSet(e, week, from, v)
          /\ Calendar!PatternClear(e, from, v) => Calendar!DevicePatternClear(e, from, v)
    BY <1>1, PatternSetShown, PatternClearShown
  <2> QED
    BY <1>1, <2>1, <2>2, HolidayShown
<1> QED
  BY <1>1, CalendarInvHolds, WorkforceIsItsParts, PTL
  DEF Calendar!Spec, ShownAsDelivered, Calendar!ShownAsDelivered

-----------------------------------------------------------------------------
(* Loops over days and rows *)

\* What holds at the start of a loop, and after a pass when it held before, holds after each.
LEMMA Climbs ==
  ASSUME NEW m \in Nat, NEW n \in Nat, NEW Holds, m \in Holds,
         \A d \in (m + 1)..n : d - 1 \in Holds => d \in Holds
  PROVE  \A d \in m..n : d \in Holds
<1> DEFINE Bad == {d \in m..n : d \notin Holds}
<1>1. CASE Bad = {}
  BY <1>1
<1>2. CASE Bad # {}
  <2>1. Bad \in SUBSET Nat
    OBVIOUS
  <2>2. \A x : x \in Bad <=> x \in m..n /\ x \notin Holds
    OBVIOUS
  <2> HIDE DEF Bad
  <2>3. PICK d \in Bad : \A other \in Bad : d <= other
    BY <1>2, <2>1, LeastExists
  <2>4. d \in m..n /\ d # m
    BY <2>2
  <2>5. d \in (m + 1)..n /\ d - 1 \in m..n /\ ~(d <= d - 1)
    BY <2>4
  <2>6. d - 1 \in Holds
    BY <2>2, <2>3, <2>5
  <2> QED
    BY <2>2, <2>5, <2>6
<1> QED
  BY <1>1, <1>2

\* A loop as a function of the pass: where it begins, and what a pass makes of it.
IsLoop(f, m, n, base, step) == f = [d \in m..n |-> IF d = m THEN base ELSE step[<<f[d - 1], d>>]]
Passes(f, m, n, S, base, step) ==
  f \in [m..n -> S] /\ f[m] = base /\ \A d \in (m + 1)..n : f[d] = step[<<f[d - 1], d>>]

\* Every loop ends: there is a function that describes it.
LEMMA LoopExists ==
  ASSUME NEW m \in Nat, NEW n \in Nat, m <= n, NEW S, NEW base \in S,
         NEW step \in [S \X ((m + 1)..n) -> S]
  PROVE  \E f : IsLoop(f, m, n, base, step) /\ Passes(f, m, n, S, base, step)
<1> DEFINE Up(k) == \E f : Passes(f, m, k, S, base, step)
           Holds == {k \in m..n : Up(k)}
<1>1. m \in Holds
  <2> DEFINE f == [d \in m..m |-> base]
  <2>1. m \in m..n /\ m \in m..m /\ (m + 1)..m = {}
    OBVIOUS
  <2>2. Passes(f, m, m, S, base, step)
    BY <2>1 DEF Passes
  <2> QED
    BY <2>1, <2>2
<1>2. ASSUME NEW k \in (m + 1)..n, k - 1 \in Holds PROVE k \in Holds
  <2>1. PICK f : Passes(f, m, k - 1, S, base, step)
    BY <1>2
  <2>2. k - 1 \in m..(k - 1) /\ f[k - 1] \in S /\ m \in m..(k - 1) /\ k \in m..n
    BY <2>1 DEF Passes
  <2> DEFINE g == [d \in m..k |-> IF d = k THEN step[<<f[k - 1], k>>] ELSE f[d]]
  <2>3. step[<<f[k - 1], k>>] \in S
    BY <2>2
  <2>4. \A d \in m..k : d # k => d \in m..(k - 1) /\ g[d] = f[d]
    OBVIOUS
  <2>5. g \in [m..k -> S]
    BY <2>1, <2>3, <2>4 DEF Passes
  <2>6. g[m] = base
    BY <2>1, <2>2 DEF Passes
  <2>7. ASSUME NEW d \in (m + 1)..k PROVE g[d] = step[<<g[d - 1], d>>]
    <3>1. d - 1 \in m..k /\ d \in m..k /\ d - 1 # k
      OBVIOUS
    <3>2. g[d - 1] = f[d - 1]
      BY <2>4, <3>1
    <3>3. CASE d = k
      BY <3>1, <3>2, <3>3
    <3>4. CASE d # k
      <4>1. d \in (m + 1)..(k - 1) /\ g[d] = f[d]
        BY <2>4, <3>1, <3>4
      <4> QED
        BY <2>1, <3>2, <4>1 DEF Passes
    <3> QED
      BY <3>3, <3>4
  <2> HIDE DEF g
  <2>8. Passes(g, m, k, S, base, step)
    BY <2>5, <2>6, <2>7 DEF Passes
  <2> QED
    BY <2>2, <2>8
<1>3. n \in m..n
  OBVIOUS
<1> HIDE DEF Holds
<1>4. n \in Holds
  BY <1>1, <1>2, <1>3, Climbs
<1>5. PICK f : Passes(f, m, n, S, base, step)
  BY <1>4 DEF Holds
<1>6. IsLoop(f, m, n, base, step)
  <2>1. f = [d \in m..n |-> f[d]]
    BY <1>5 DEF Passes
  <2>2. ASSUME NEW d \in m..n PROVE f[d] = IF d = m THEN base ELSE step[<<f[d - 1], d>>]
    <3>1. d # m => d \in (m + 1)..n
      OBVIOUS
    <3> QED
      BY <1>5, <3>1 DEF Passes
  <2> QED
    BY <2>1, <2>2 DEF IsLoop
<1> QED
  BY <1>5, <1>6

\* How many days after a day, up to another, are among some.
CountIn(m, to, wanted) == Cardinality(((m + 1)..to) \cap wanted)

\* One day more counts if it is wanted.
LEMMA CountOneMore ==
  ASSUME NEW m \in Nat, NEW n \in Nat, NEW d \in (m + 1)..n, NEW Wanted
  PROVE  /\ CountIn(m, d, Wanted) \in Nat /\ CountIn(m, d - 1, Wanted) \in Nat
         /\ CountIn(m, d, Wanted) =
              IF d \in Wanted THEN CountIn(m, d - 1, Wanted) + 1 ELSE CountIn(m, d - 1, Wanted)
<1> DEFINE Until(to) == ((m + 1)..to) \cap Wanted
<1>1. ASSUME NEW to \in Nat PROVE IsFiniteSet(Until(to)) /\ Cardinality(Until(to)) \in Nat
  <2>1. IsFiniteSet((m + 1)..to)
    BY FS_Interval
  <2> QED
    BY <2>1, FS_Subset, FS_CardinalityType
<1>2. Until(d) = IF d \in Wanted THEN Until(d - 1) \cup {d} ELSE Until(d - 1)
  OBVIOUS
<1>3. d \notin Until(d - 1) /\ d - 1 \in Nat /\ d \in Nat
  OBVIOUS
<1> HIDE DEF Until
<1>4. Cardinality(Until(d - 1) \cup {d}) = Cardinality(Until(d - 1)) + 1
  BY <1>1, <1>3, FS_AddElement
<1>5. /\ Cardinality(Until(d)) \in Nat /\ Cardinality(Until(d - 1)) \in Nat
      /\ Cardinality(Until(d)) =
           IF d \in Wanted THEN Cardinality(Until(d - 1)) + 1 ELSE Cardinality(Until(d - 1))
  BY <1>1, <1>2, <1>3, <1>4
<1> QED
  BY <1>5 DEF Until, CountIn

\* None yet are counted at the start.
LEMMA CountNone == ASSUME NEW m \in Nat, NEW Wanted PROVE CountIn(m, m, Wanted) = 0
<1>1. ((m + 1)..m) \cap Wanted = {}
  OBVIOUS
<1> QED
  BY <1>1, FS_EmptySet DEF CountIn

\* How many of the days are left to count, day by day, and the days somebody works.
IsCountdown(f, e, from, k) ==
  f = [d \in from..MaxDay |->
         IF d = from THEN k
         ELSE IF f[d - 1] > 0 /\ Calendar!IsWorking(e, d) THEN f[d - 1] - 1 ELSE f[d - 1]]
Countdown(e, from, k) == CHOOSE f : IsCountdown(f, e, from, k)
CountsDown(f, e, from, k) ==
  /\ f \in [from..MaxDay -> Nat] /\ f[from] = k
  /\ \A d \in (from + 1)..MaxDay :
       f[d] = IF f[d - 1] > 0 /\ Calendar!IsWorking(e, d) THEN f[d - 1] - 1 ELSE f[d - 1]
Worked(e) == {d \in 1..MaxDay : Calendar!IsWorking(e, d)}
WorkedFrom(e, from, d) == CountIn(from, d, Worked(e))

\* The countdown is a loop over the days.
LEMMA CountdownPasses ==
  ASSUME CalendarAssumption, NEW e, NEW from \in 1..MaxDay, NEW k \in Nat
  PROVE  CountsDown(Countdown(e, from, k), e, from, k)
<1> DEFINE step == [x \in Nat \X ((from + 1)..MaxDay) |->
                      IF x[1] > 0 /\ Calendar!IsWorking(e, x[2]) THEN x[1] - 1 ELSE x[1]]
<1>1. from \in Nat /\ MaxDay \in Nat /\ from <= MaxDay
  BY DEF CalendarAssumption
<1>2. step \in [Nat \X ((from + 1)..MaxDay) -> Nat]
  OBVIOUS
<1>3. \A y \in Nat, d \in (from + 1)..MaxDay :
        step[<<y, d>>] = IF y > 0 /\ Calendar!IsWorking(e, d) THEN y - 1 ELSE y
  OBVIOUS
<1> HIDE DEF step
<1>4. PICK f : IsLoop(f, from, MaxDay, k, step) /\ Passes(f, from, MaxDay, Nat, k, step)
  BY <1>1, <1>2, LoopExists
<1>5. ASSUME NEW d \in from..MaxDay, d # from
      PROVE  /\ d \in (from + 1)..MaxDay /\ f[d - 1] \in Nat
             /\ step[<<f[d - 1], d>>] =
                  IF f[d - 1] > 0 /\ Calendar!IsWorking(e, d) THEN f[d - 1] - 1 ELSE f[d - 1]
  <2>1. d \in (from + 1)..MaxDay /\ d - 1 \in from..MaxDay
    BY <1>1, <1>5
  <2>2. f[d - 1] \in Nat
    BY <1>4, <2>1 DEF Passes
  <2> QED
    BY <1>3, <2>1, <2>2
<1>6. IsCountdown(f, e, from, k)
  BY <1>4, <1>5 DEF IsLoop, IsCountdown
<1>7. IsCountdown(Countdown(e, from, k), e, from, k)
  BY <1>6, Zenon DEF Countdown
<1> DEFINE g == Countdown(e, from, k)
<1>8. /\ g = [d \in from..MaxDay |-> g[d]] /\ g[from] = k
      /\ \A d \in (from + 1)..MaxDay :
           g[d] = IF g[d - 1] > 0 /\ Calendar!IsWorking(e, d) THEN g[d - 1] - 1 ELSE g[d - 1]
  <2> HIDE DEF g
  <2>1. from \in from..MaxDay
    BY <1>1
  <2>2. \A d \in (from + 1)..MaxDay : d \in from..MaxDay /\ d # from
    BY <1>1
  <2>3. IsCountdown(g, e, from, k)
    BY <1>7 DEF g
  <2> QED
    BY <2>1, <2>2, <2>3 DEF IsCountdown
<1> DEFINE Holds == {d \in from..MaxDay : g[d] \in Nat}
<1> HIDE DEF g
<1>9. \A d \in from..MaxDay : d \in Holds
  <2>1. from \in Holds
    BY <1>1, <1>8
  <2>2. ASSUME NEW d \in (from + 1)..MaxDay, d - 1 \in Holds PROVE d \in Holds
    <3>1. d \in from..MaxDay /\ g[d - 1] \in Nat
      BY <1>1, <2>2
    <3>2. g[d] = IF g[d - 1] > 0 /\ Calendar!IsWorking(e, d) THEN g[d - 1] - 1 ELSE g[d - 1]
      BY <1>8
    <3>3. g[d] \in Nat
      BY <3>1, <3>2
    <3> QED
      BY <3>1, <3>3
  <2> HIDE DEF Holds
  <2> QED
    BY <1>1, <2>1, <2>2, Climbs
<1>10. g \in [from..MaxDay -> Nat]
  BY <1>8, <1>9
<1> QED
  BY <1>8, <1>10 DEF g, CountsDown

\* A day more is counted if it is worked.
LEMMA WorkedOneMore ==
  ASSUME NEW e, NEW from \in Nat, MaxDay \in Nat, NEW d \in (from + 1)..MaxDay
  PROVE  /\ WorkedFrom(e, from, d) \in Nat /\ WorkedFrom(e, from, d - 1) \in Nat
         /\ WorkedFrom(e, from, d) = IF d \in Worked(e) THEN WorkedFrom(e, from, d - 1) + 1
                                                        ELSE WorkedFrom(e, from, d - 1)
  BY CountOneMore DEF WorkedFrom

\* What is left is what there was, less the days that are worked.
LEMMA CountdownCounts ==
  ASSUME CalendarAssumption, NEW e, NEW from \in 1..MaxDay, NEW k \in Nat
  PROVE  \A d \in from..MaxDay :
           /\ WorkedFrom(e, from, d) \in Nat
           /\ Countdown(e, from, k)[d] =
                IF WorkedFrom(e, from, d) < k THEN k - WorkedFrom(e, from, d) ELSE 0
<1>0. CountsDown(Countdown(e, from, k), e, from, k)
  BY CountdownPasses
<1> DEFINE f == Countdown(e, from, k)
           Count(d) == WorkedFrom(e, from, d)
           Holds == {d \in from..MaxDay : Count(d) \in Nat /\ f[d] = IF Count(d) < k THEN k - Count(d) ELSE 0}
<1>1. from \in Nat /\ MaxDay \in Nat /\ from <= MaxDay /\ from \in from..MaxDay
  BY DEF CalendarAssumption
<1>2. /\ f[from] = k
      /\ \A d \in (from + 1)..MaxDay :
           f[d] = IF f[d - 1] > 0 /\ d \in Worked(e) THEN f[d - 1] - 1 ELSE f[d - 1]
  <2>1. \A d \in (from + 1)..MaxDay : Calendar!IsWorking(e, d) <=> d \in Worked(e)
    BY <1>1 DEF Worked
  <2> HIDE DEF f
  <2>2. CountsDown(f, e, from, k)
    BY <1>0 DEF f
  <2> QED
    BY <2>1, <2>2 DEF CountsDown
<1> HIDE DEF f
<1>3. Count(from) = 0
  BY <1>1, CountNone DEF WorkedFrom
<1>4. from \in Holds
  BY <1>1, <1>2, <1>3
<1>5. ASSUME NEW d \in (from + 1)..MaxDay, d - 1 \in Holds PROVE d \in Holds
  <2>1. /\ Count(d) \in Nat /\ Count(d - 1) \in Nat
        /\ Count(d) = IF d \in Worked(e) THEN Count(d - 1) + 1 ELSE Count(d - 1)
    BY <1>1, WorkedOneMore
  <2>2. f[d - 1] = IF Count(d - 1) < k THEN k - Count(d - 1) ELSE 0
    BY <1>5
  <2>3. f[d] = IF f[d - 1] > 0 /\ d \in Worked(e) THEN f[d - 1] - 1 ELSE f[d - 1]
    BY <1>2
  <2>4. d \in from..MaxDay
    BY <1>1
  <2> HIDE DEF Count
  <2> QED
    BY <2>1, <2>2, <2>3, <2>4
<1> HIDE DEF Holds
<1>6. \A d \in from..MaxDay : d \in Holds
  BY <1>1, <1>4, <1>5, Climbs
<1> QED
  BY <1>6 DEF Holds, f

\* The next working day is the day on which the n-th of them is counted.
NextIs(e, from, k, day) ==
  IF day = MaxDay + 1 THEN WorkedFrom(e, from, MaxDay) < k
  ELSE /\ day \in (from + 1)..MaxDay /\ day \in Worked(e)
       /\ WorkedFrom(e, from, day) = k /\ WorkedFrom(e, from, day - 1) = k - 1

\* The walk over the days finds the n-th working day, or that there is none.
LEMMA NextWorkingDayCounts ==
  ASSUME CalendarAssumption, NEW e, NEW from \in 1..MaxDay, NEW k \in Nat \ {0}
  PROVE  NextIs(e, from, k, Calendar!NextWorkingDay(e, from, k))
<1> DEFINE f == Countdown(e, from, k)
           reached == {d \in from..MaxDay : f[d] = 0}
           Count(d) == WorkedFrom(e, from, d)
<1>1. /\ from \in Nat /\ MaxDay \in Nat /\ from <= MaxDay /\ from \in from..MaxDay
      /\ MaxDay \in from..MaxDay /\ k \in Nat /\ k # 0
  BY DEF CalendarAssumption
<1>2. /\ f[from] = k
      /\ \A d \in (from + 1)..MaxDay :
           f[d] = IF f[d - 1] > 0 /\ d \in Worked(e) THEN f[d - 1] - 1 ELSE f[d - 1]
  <2>1. \A d \in (from + 1)..MaxDay : Calendar!IsWorking(e, d) <=> d \in Worked(e)
    BY <1>1 DEF Worked
  <2>2. CountsDown(Countdown(e, from, k), e, from, k)
    BY <1>1, CountdownPasses
  <2> HIDE DEF f
  <2>3. CountsDown(f, e, from, k)
    BY <2>2 DEF f
  <2> QED
    BY <2>1, <2>3 DEF CountsDown
<1>3. \A d \in from..MaxDay :
        Count(d) \in Nat /\ f[d] = IF Count(d) < k THEN k - Count(d) ELSE 0
  BY <1>1, CountdownCounts
<1>4. Calendar!NextWorkingDay(e, from, k) =
        IF reached = {} THEN MaxDay + 1 ELSE Calendar!Min(reached)
  BY DEF Calendar!NextWorkingDay, Countdown, IsCountdown, Calendar!Forever
<1> HIDE DEF f, Count
<1>5. CASE reached = {}
  <2>1. MaxDay \notin reached
    BY <1>5
  <2> HIDE DEF reached
  <2>2. f[MaxDay] # 0
    BY <1>1, <2>1 DEF reached
  <2>3. Count(MaxDay) < k
    BY <1>1, <1>3, <2>2
  <2> QED
    BY <1>4, <1>5, <2>3 DEF NextIs, Count
<1>6. CASE reached # {}
  <2> DEFINE day == Calendar!Min(reached)
  <2>1. reached \in SUBSET Nat
    BY <1>1
  <2>2. day \in reached /\ \A d \in reached : day <= d
    <3> HIDE DEF reached
    <3>1. \E x \in reached : \A y \in reached : x <= y
      BY <1>6, <2>1, LeastExists
    <3> QED
      BY <3>1, Zenon DEF Calendar!Min
  <2> HIDE DEF day
  <2>3. day \in from..MaxDay /\ f[day] = 0 /\ day # from
    BY <1>2, <2>2
  <2>4. day \in (from + 1)..MaxDay /\ day - 1 \in from..MaxDay /\ ~(day <= day - 1)
        /\ day # MaxDay + 1
    BY <1>1, <2>3
  <2>5. f[day - 1] # 0
    BY <2>2, <2>4
  <2>6. Count(day - 1) < k /\ f[day - 1] = k - Count(day - 1) /\ Count(day - 1) \in Nat
    BY <1>3, <2>4, <2>5
  <2>7. day \in Worked(e) /\ f[day - 1] = 1
    BY <1>2, <2>3, <2>4, <2>5, <2>6
  <2>8. Count(day) = Count(day - 1) + 1
    BY <1>1, <2>4, <2>7, WorkedOneMore DEF Count
  <2>9. Count(day) = k /\ Count(day - 1) = k - 1
    BY <1>1, <2>6, <2>7, <2>8
  <2>10. Calendar!NextWorkingDay(e, from, k) = day
    BY <1>4, <1>6 DEF day
  <2> QED
    BY <2>4, <2>7, <2>9, <2>10 DEF NextIs, Count
<1> QED
  BY <1>5, <1>6

-----------------------------------------------------------------------------
(* The weeks *)

\* Whole weeks and a rest are so in one way.
LEMMA WeeksAndRest ==
  ASSUME NEW n \in Nat \ {0}, NEW p \in Int, NEW q \in Int, NEW r \in 0..(n - 1), NEW s \in 0..(n - 1),
         n * p + r = n * q + s
  PROVE  p = q
  OBVIOUS

\* What is left over from less than a week is itself, and of a week more the same.
LEMMA RestOfLess ==
  ASSUME NEW n \in Nat \ {0}, NEW r \in 0..(n - 1)
  PROVE  r % n = r /\ (r + n) % n = r
  OBVIOUS

\* A week begins its length or less before a day of it, on its day of the week.
LEMMA WeekStartIs ==
  ASSUME CalendarAssumption, NEW d \in Nat, NEW s \in 1..WeekLength
  PROVE  LET start == Calendar!WeekStart(d, s)
         IN /\ start \in Int /\ start <= d /\ d < start + WeekLength
            /\ \E q \in Int : start = WeekLength * q + (s - 1)
<1> DEFINE r == d % WeekLength
           whole == d \div WeekLength
<1>1. WeekLength \in Nat \ {0}
  BY DEF CalendarAssumption
<1>2. r \in 0..(WeekLength - 1) /\ whole \in Int
  BY <1>1
<1>3. d = WeekLength * whole + r
  BY <1>1
<1> HIDE DEF r, whole
<1>4. PICK x \in 1..(2 * WeekLength - 1) : x = (r + 1) - s + WeekLength
  BY <1>1, <1>2
<1>5. Calendar!WeekStart(d, s) = d - (x % WeekLength)
  BY <1>4 DEF Calendar!WeekStart, Calendar!Weekday, r
<1>6. CASE x < WeekLength
  <2>4. x \in 0..(WeekLength - 1) /\ x \in Int
    BY <1>1, <1>4, <1>6
  <2>1. x % WeekLength = x
    BY <1>1, <2>4, RestOfLess
  <2>2. whole - 1 \in Int /\ WeekLength * (whole - 1) = WeekLength * whole - WeekLength
    BY <1>1, <1>2
  <2>3. d - x = WeekLength * (whole - 1) + (s - 1)
    BY <1>1, <1>2, <1>3, <1>4, <2>2
  <2>5. d - x \in Int /\ d - x <= d /\ d < (d - x) + WeekLength
    BY <1>6, <2>4
  <2> QED
    BY <1>2, <1>5, <2>1, <2>2, <2>3, <2>5
<1>7. CASE x >= WeekLength
  <2>4. x - WeekLength \in 0..(WeekLength - 1) /\ x = (x - WeekLength) + WeekLength
    BY <1>1, <1>4, <1>7
  <2>1. PICK y \in 0..(WeekLength - 1) : x = y + WeekLength
    BY <2>4
  <2>2. x % WeekLength = y
    BY <1>1, <2>1, RestOfLess
  <2>3. d - y = WeekLength * whole + (s - 1)
    BY <1>1, <1>2, <1>3, <1>4, <2>1
  <2>5. d - y \in Int /\ d - y <= d /\ d < (d - y) + WeekLength
    BY <1>1, <2>1
  <2> QED
    BY <1>2, <1>5, <2>2, <2>3, <2>5
<1> QED
  BY <1>1, <1>4, <1>6, <1>7

\* A later day is of the same week just when the week has not run out.
LEMMA WeeksDoNotOverlap ==
  ASSUME CalendarAssumption, NEW from \in Nat, NEW d \in Nat, from <= d, NEW s \in 1..WeekLength
  PROVE  LET start == Calendar!WeekStart(from, s)
         IN Calendar!WeekStart(d, s) = start <=> d < start + WeekLength
<1> DEFINE start == Calendar!WeekStart(from, s)
           other == Calendar!WeekStart(d, s)
<1>1. WeekLength \in Nat \ {0}
  BY DEF CalendarAssumption
<1>2. /\ start \in Int /\ start <= from /\ from < start + WeekLength
      /\ \E q \in Int : start = WeekLength * q + (s - 1)
  BY WeekStartIs
<1>3. /\ other \in Int /\ other <= d /\ d < other + WeekLength
      /\ \E q \in Int : other = WeekLength * q + (s - 1)
  BY WeekStartIs
<1> HIDE DEF start, other
<1>4. PICK p \in Int : start = WeekLength * p + (s - 1)
  BY <1>2
<1>5. PICK q \in Int : other = WeekLength * q + (s - 1)
  BY <1>3
<1>6. ASSUME d < start + WeekLength PROVE other = start
  <2>1. PICK x \in 0..(WeekLength - 1) : d = start + x
    BY <1>1, <1>2, <1>6
  <2>2. PICK y \in 0..(WeekLength - 1) : d = other + y
    BY <1>1, <1>3
  <2>3. PICK u \in Int, v \in Int : u = WeekLength * p /\ v = WeekLength * q
    BY <1>1
  <2>4. u + x = v + y
    BY <1>1, <1>4, <1>5, <2>1, <2>2, <2>3
  <2>5. WeekLength * p + x = WeekLength * q + y
    BY <2>3, <2>4
  <2>6. p = q
    BY <1>1, <2>5, WeeksAndRest
  <2> QED
    BY <1>4, <1>5, <2>6
<1>7. other = start => d < start + WeekLength
  BY <1>3
<1> QED
  BY <1>6, <1>7 DEF start, other

-----------------------------------------------------------------------------
(* The hours of a day *)

\* A version in force on a day is followed by one on each later day.
LEMMA VersionsFollow ==
  ASSUME NEW cs, NEW n \in Nat, Backwards(cs, n), \A c \in 1..n : cs[c].created \in Nat,
         NEW d \in Nat, NEW later \in Nat, d <= later, NEW a \in 0..n, WalkBy(cs, n, d)[a] # 0
  PROVE  WalkBy(cs, n, later)[a] # 0
<1> DEFINE f == WalkBy(cs, n, d)
           g == WalkBy(cs, n, later)
           Kept(c) == f[c] # 0 => g[c] # 0
           Holds == {c \in 0..n : \A b \in 0..c : Kept(b)}
<1>1. Steps(f, cs, n, d) /\ Steps(g, cs, n, later)
  BY WalkIs
<1> HIDE DEF f, g
<1>2. 0 \in Holds
  BY <1>1 DEF Steps, StepBy
<1>3. ASSUME NEW c \in (0 + 1)..n, c - 1 \in Holds PROVE c \in Holds
  <2>1. c \in 0..n /\ c # 0 /\ cs[c].supersedes \in 0..(c - 1) /\ cs[c].created \in Nat
    BY DEF Backwards
  <2>2. \A b \in 0..(c - 1) : Kept(b)
    BY <1>3
  <2>3. Kept(cs[c].supersedes)
    BY <2>1, <2>2
  <2>4. /\ f[c] = IF cs[c].created <= d THEN c ELSE f[cs[c].supersedes]
        /\ g[c] = IF cs[c].created <= later THEN c ELSE g[cs[c].supersedes]
    BY <1>1, <2>1 DEF Steps, StepBy
  <2>5. cs[c].created <= d => cs[c].created <= later
    BY <2>1
  <2>6. Kept(c)
    BY <2>1, <2>3, <2>4, <2>5
  <2>7. \A b \in 0..c : b = c \/ b \in 0..(c - 1)
    OBVIOUS
  <2> HIDE DEF Kept
  <2> QED
    BY <2>1, <2>2, <2>6, <2>7
<1> HIDE DEF Holds
<1>4. \A c \in 0..n : c \in Holds
  BY <1>2, <1>3, Climbs
<1>5. Kept(a)
  BY <1>4 DEF Holds
<1> QED
  BY <1>5 DEF f, g

\* The version on a day is one there is, and every later day has one too.
LEMMA CalendarOnFollows ==
  ASSUME CalendarInv, NEW entity \in Entities, NEW d \in Nat, NEW later \in Nat, d <= later,
         Calendar!CalendarOn(entity, d) # 0
  PROVE  /\ Calendar!CalendarOn(entity, d) \in 1..Len(calendars)
         /\ Calendar!CalendarOn(entity, later) # 0
<1> DEFINE n == Len(calendars)
           a == CHOOSE c \in Calendar!ActiveCalendars(entity) : TRUE
<1>1. /\ n \in Nat /\ Backwards(calendars, n)
      /\ \A c \in 1..n : calendars[c].created \in Nat
  <2>1. n \in Nat /\ \A c \in 1..n : calendars[c] \in Version /\ calendars[c].supersedes < c
    BY DEF CalendarInv, CalendarType, VersionsOK
  <2>2. \A c \in 1..n : calendars[c].created \in Nat /\ calendars[c].supersedes \in 0..(c - 1)
    BY <2>1 DEF Version
  <2> QED
    BY <2>1, <2>2 DEF Backwards
<1>2. Calendar!ActiveCalendars(entity) # {}
  BY DEF Calendar!CalendarOn
<1>3. a \in Calendar!ActiveCalendars(entity)
  BY <1>2, Zenon
<1>4. Calendar!ActiveCalendars(entity) \subseteq 1..n
  BY DEF Calendar!ActiveCalendars, Calendar!Rows
<1> HIDE DEF a
<1>5. a \in 0..n
  BY <1>1, <1>3, <1>4
<1>6. /\ Calendar!CalendarOn(entity, d) = WalkBy(calendars, n, d)[a]
      /\ Calendar!CalendarOn(entity, later) = WalkBy(calendars, n, later)[a]
  <2>1. ASSUME NEW x PROVE Calendar!CalendarOn(entity, x) = Calendar!VersionBy(x)[a]
    BY <1>2, Zenon DEF Calendar!CalendarOn, a
  <2> QED
    BY <2>1, VersionIs
<1> HIDE DEF n
<1>7. Alike(WalkBy(calendars, n, d), WalkBy(calendars, n, d), n)
  <2>1. n <= n /\ SameSteps(calendars, calendars, n)
    BY <1>1 DEF SameSteps
  <2> QED
    BY <1>1, <2>1, WalksStay
<1>8. WalkBy(calendars, n, d)[a] \in 0..n
  BY <1>1, <1>5, <1>7 DEF Alike
<1>9. WalkBy(calendars, n, later)[a] # 0
  BY <1>1, <1>5, <1>6, VersionsFollow
<1> QED
  BY <1>6, <1>8, <1>9 DEF n

\* The pattern on a day is one there is, or none.
LEMMA PatternOnIs ==
  ASSUME CalendarInv, CalendarAssumption, NEW e \in Residents, NEW d
  PROVE  Calendar!PatternOn(e, d) \in {0} \cup 1..Len(patterns)
<1> DEFINE covering == {p \in Calendar!Rows(patterns) :
                          /\ patterns[p].employee = e
                          /\ patterns[p].from <= d /\ d < patterns[p].to}
           key == [p \in Calendar!Rows(patterns) |-> patterns[p].from]
           latest == {p \in covering :
                        \A q \in covering : \/ patterns[q].from < patterns[p].from
                                            \/ patterns[q].from = patterns[p].from /\ p <= q}
<1>1. Len(patterns) \in Nat /\ \A p \in 1..Len(patterns) : patterns[p].from \in 0..MaxDay
  <2>1. Len(patterns) \in Nat /\ \A p \in 1..Len(patterns) : patterns[p] \in Pattern
    BY DEF CalendarInv, CalendarType
  <2> QED
    BY <2>1 DEF Pattern, CalendarAssumption
<1>2. Calendar!PatternOn(e, d) = IF covering = {} THEN 0 ELSE CHOOSE p \in latest : TRUE
  BY DEF Calendar!PatternOn
<1>3. CASE covering = {}
  BY <1>2, <1>3
<1>4. CASE covering # {}
  <2>1. covering \in SUBSET Nat /\ covering \subseteq 1..Len(patterns)
    BY <1>1 DEF Calendar!Rows
  <2>2. \A p \in covering : key[p] = patterns[p].from /\ key[p] \in 0..MaxDay
    BY <1>1 DEF Calendar!Rows
  <2>3. \E p \in covering : \A q \in covering : key[q] < key[p] \/ (key[q] = key[p] /\ p <= q)
    <3> HIDE DEF covering, key
    <3>1. MaxDay \in Nat
      BY DEF CalendarAssumption
    <3> QED
      BY <1>4, <2>1, <2>2, <3>1, LatestExists
  <2>4. latest # {} /\ latest \subseteq 1..Len(patterns)
    <3> HIDE DEF covering, key
    <3> QED
      BY <2>1, <2>2, <2>3
  <2> HIDE DEF latest, covering
  <2>5. (CHOOSE p \in latest : TRUE) \in latest
    BY <2>4, Zenon
  <2>6. Calendar!PatternOn(e, d) \in latest
    BY <1>2, <1>4, <2>5, Zenon
  <2> QED
    BY <2>4, <2>6
<1> QED
  BY <1>3, <1>4

\* What is left of the hours of a day is a number.
LEMMA ReckonedIsNumber ==
  ASSUME CalendarAssumption, NEW usual \in Nat, NEW reaching, NEW half, NEW d, NEW reduced
  PROVE  Reckoned(usual, reaching, half, d, reduced) \in Nat
<1>1. DailyHours \in Nat /\ DailyHours \div 2 \in Nat
  BY DEF CalendarAssumption
<1>2. PICK hours \in Nat :
        hours = IF reaching = {} THEN usual ELSE IF half THEN DailyHours \div 2 ELSE 0
  BY <1>1
<1>3. Reckoned(usual, reaching, half, d, reduced) = IF d \in reduced THEN hours \div 2 ELSE hours
  BY <1>2 DEF Reckoned
<1> QED
  BY <1>2, <1>3

\* A day with a version in force has a number of hours.
LEMMA HoursAreNumbers ==
  ASSUME CalendarInv, CalendarAssumption, NEW e \in Residents, NEW d \in Nat,
         Calendar!CalendarOn(EntityOf[e], d) # 0
  PROVE  Calendar!HoursOn(e, d) \in Nat
<1> DEFINE c == Calendar!CalendarOn(EntityOf[e], d)
           p == Calendar!PatternOn(e, d)
           week == IF p = 0 THEN <<>> ELSE patterns[p].week
           day == Calendar!Weekday(d)
<1>1. EntityOf[e] \in Entities
  BY DEF CalendarAssumption
<1>2. c \in 1..Len(calendars)
  BY <1>1, CalendarOnFollows
<1>3. calendars[c].week \in [1..WeekLength -> Nat] /\ day \in 1..WeekLength
  <2>1. calendars[c] \in Version
    BY <1>2 DEF CalendarInv, CalendarType
  <2>2. calendars[c].week \in Weeks
    BY <2>1 DEF Version
  <2>3. d % WeekLength \in 0..(WeekLength - 1) /\ WeekLength \in Nat
    BY DEF CalendarAssumption
  <2>4. day \in 1..WeekLength
    BY <2>3 DEF Calendar!Weekday
  <2> QED
    BY <2>2, <2>4 DEF CalendarAssumption
<1>4. week \in Seq(Nat)
  <2>1. p \in {0} \cup 1..Len(patterns)
    BY PatternOnIs
  <2>2. p # 0 => patterns[p] \in Pattern
    BY <2>1 DEF CalendarInv, CalendarType
  <2>3. p # 0 => patterns[p].week \in Seq(Nat)
    BY <2>2 DEF Pattern, CalendarAssumption
  <2> QED
    BY <2>3
<1> DEFINE usual == IF day \in DOMAIN week THEN week[day] ELSE calendars[c].week[day]
<1>5. usual \in Nat
  <2> HIDE DEF c, week, day
  <2> QED
    BY <1>3, <1>4
<1> DEFINE hols == Calendar!HolidaysOf(c)
           location == LocationOf[e]
           reaching == {h \in hols : /\ holidays[h].date = d
                                     /\ \/ holidays[h].where = Everywhere
                                        \/ location # Nowhere /\ location \in holidays[h].where}
           first == CHOOSE h \in reaching : \A g \in reaching : h <= g
<1>6. Calendar!HoursOn(e, d) = DayBy(calendars[c], week, holidays, hols, d, location)
  BY HoursAre DEF HoursBy
<1>7. DayBy(calendars[c], week, holidays, hols, d, location) =
        Reckoned(usual, reaching, holidays[first].half, d, calendars[c].reduced)
  <2> HIDE DEF week, hols, location, c
  <2> QED
    BY Zenon DEF DayBy, Reckoned
<1> HIDE DEF usual, reaching, first
<1>8. Reckoned(usual, reaching, holidays[first].half, d, calendars[c].reduced) \in Nat
  BY <1>5, ReckonedIsNumber
<1> QED
  BY <1>6, <1>7, <1>8

-----------------------------------------------------------------------------
\* Two ways to add up the hours of a week are one.
LEMMA WeekAddsUp ==
  ASSUME CalendarInv, CalendarAssumption, NEW e \in Residents, NEW from \in 1..MaxDay,
         Calendar!CalendarOn(EntityOf[e], from) # 0, from + WeekLength <= Calendar!Forever
  PROVE  Calendar!ExpectedWeek(e, from) = Calendar!CountWorkingHours(e, from, from + WeekLength - 1)
<1> DEFINE to == from + WeekLength - 1
           ByColumn(f) == [d \in (from - 1)..to |->
                             IF d < from THEN 0
                             ELSE f[d - 1] + (IF d \in 1..MaxDay /\ Calendar!IsWorking(e, d)
                                              THEN Calendar!HoursOn(e, d) ELSE 0)]
           ByDay(f) == [d \in (from - 1)..to |->
                          IF d < from THEN 0 ELSE f[d - 1] + Calendar!HoursOn(e, d)]
<1>1. MaxDay \in Nat /\ WeekLength \in Nat /\ from \in Nat /\ EntityOf[e] \in Entities
      /\ from + WeekLength <= MaxDay + 1 /\ to \in Int
  BY DEF CalendarAssumption, Calendar!Forever
<1>2. ASSUME NEW d \in (from - 1)..to, ~(d < from)
      PROVE  (IF d \in 1..MaxDay /\ Calendar!IsWorking(e, d) THEN Calendar!HoursOn(e, d) ELSE 0)
               = Calendar!HoursOn(e, d)
  <2>1. d \in 1..MaxDay /\ d \in Nat /\ from <= d
    BY <1>1, <1>2
  <2>2. Calendar!CalendarOn(EntityOf[e], d) # 0
    BY <1>1, <2>1, CalendarOnFollows
  <2>3. Calendar!HoursOn(e, d) \in Nat
    BY <2>1, <2>2, HoursAreNumbers
  <2> QED
    BY <2>1, <2>3 DEF Calendar!IsWorking
<1> HIDE DEF to
<1>3. ASSUME NEW f PROVE ByColumn(f) = ByDay(f)
  <2>1. ASSUME NEW d \in (from - 1)..to
        PROVE  (IF d < from THEN 0
                ELSE f[d - 1] + (IF d \in 1..MaxDay /\ Calendar!IsWorking(e, d)
                                 THEN Calendar!HoursOn(e, d) ELSE 0)) =
               (IF d < from THEN 0 ELSE f[d - 1] + Calendar!HoursOn(e, d))
    BY <1>2, Zenon
  <2> QED
    BY <2>1, Zenon
<1>4. Calendar!ExpectedWeek(e, from) = (CHOOSE f : f = ByColumn(f))[to]
  BY Zenon DEF Calendar!ExpectedWeek, Calendar!Days, to
<1>5. Calendar!CountWorkingHours(e, from, to) = (CHOOSE f : f = ByDay(f))[to]
  BY Zenon DEF Calendar!CountWorkingHours
<1> HIDE DEF ByColumn, ByDay
<1>6. (CHOOSE f : f = ByColumn(f)) = (CHOOSE f : f = ByDay(f))
  <2>1. \A f : (f = ByColumn(f)) <=> (f = ByDay(f))
    BY <1>3
  <2> QED
    BY <2>1, Zenon
<1>7. Calendar!ExpectedWeek(e, from) = Calendar!CountWorkingHours(e, from, to)
  BY <1>4, <1>5, <1>6
<1> QED
  BY <1>7 DEF to

\* Where every holiday is one everywhere, a place makes no difference.
LEMMA PlacesAlike ==
  ASSUME NEW calendar, NEW week, NEW rows, NEW hols, NEW d, NEW here, NEW there,
         \A h \in hols : rows[h].where = Everywhere
  PROVE  DayBy(calendar, week, rows, hols, d, here) = DayBy(calendar, week, rows, hols, d, there)
<1> DEFINE Reaching(location) ==
             {h \in hols : /\ rows[h].date = d
                           /\ \/ rows[h].where = Everywhere
                              \/ location # Nowhere /\ location \in rows[h].where}
           First(location) == CHOOSE h \in Reaching(location) : \A g \in Reaching(location) : h <= g
           usual == IF Calendar!Weekday(d) \in DOMAIN week THEN week[Calendar!Weekday(d)]
                                                           ELSE calendar.week[Calendar!Weekday(d)]
<1>1. Reaching(here) = Reaching(there)
  OBVIOUS
<1>2. ASSUME NEW location
      PROVE  DayBy(calendar, week, rows, hols, d, location) =
               Reckoned(usual, Reaching(location), rows[First(location)].half, d, calendar.reduced)
  BY Zenon DEF DayBy, Reckoned
<1>3. First(here) = First(there)
  <2> HIDE DEF Reaching
  <2> QED
    BY <1>1, Zenon
<1> HIDE DEF Reaching, First, usual
<1> QED
  BY <1>1, <1>2, <1>3, Zenon

\* What one conjunct after another of CountsAgree says of an employee and a day.
NextDaysCount(e, from) ==
  LET upTo(d) == Calendar!Cardinality({x \in (from + 1)..d : Calendar!IsWorking(e, x)})
  IN \A n \in 1..2 :
       LET day == Calendar!AddWorkingDays(e, from, n)
       IN IF day = Calendar!Forever THEN upTo(MaxDay) < n
          ELSE Calendar!IsWorking(e, day) /\ upTo(day) = n /\ upTo(day - 1) = n - 1
WeeksCut(e, from, c) ==
  LET start == Calendar!WeekStartFor(e, from)
  IN /\ start <= from
     /\ \A d \in from..MaxDay :
          Calendar!CalendarOn(EntityOf[e], d) = c =>
            (Calendar!WeekStartFor(e, d) = start <=> d < start + WeekLength)
ProjectsAlike(e, from, c) ==
  Calendar!PatternOn(e, from) = 0 /\ (\A h \in Calendar!HolidaysOf(c) : holidays[h].where = Everywhere)
    => Calendar!EntityHoursOn(EntityOf[e], from) = Calendar!HoursOn(e, from)

\* A deadline of some working days falls on the day on which they are counted.
LEMMA NextDays ==
  ASSUME CalendarAssumption, NEW e, NEW from \in 1..MaxDay
  PROVE  NextDaysCount(e, from)
<1> DEFINE upTo(d) == Calendar!Cardinality({x \in (from + 1)..d : Calendar!IsWorking(e, x)})
<1>1. MaxDay \in Nat /\ from \in Nat
  BY DEF CalendarAssumption
<1>2. ASSUME NEW d \in Int, d <= MaxDay PROVE upTo(d) = WorkedFrom(e, from, d)
  <2>1. {x \in (from + 1)..d : Calendar!IsWorking(e, x)} = ((from + 1)..d) \cap Worked(e)
    BY <1>1, <1>2 DEF Worked
  <2> QED
    BY <2>1 DEF WorkedFrom, CountIn, Calendar!Cardinality, Cardinality
<1> HIDE DEF upTo
<1>3. ASSUME NEW n \in 1..2
      PROVE  LET day == Calendar!AddWorkingDays(e, from, n)
             IN IF day = Calendar!Forever THEN upTo(MaxDay) < n
                ELSE Calendar!IsWorking(e, day) /\ upTo(day) = n /\ upTo(day - 1) = n - 1
  <2> DEFINE day == Calendar!NextWorkingDay(e, from, n)
  <2>1. n \in Nat \ {0} /\ n # 0
    OBVIOUS
  <2>2. Calendar!AddWorkingDays(e, from, n) = day
    BY <2>1 DEF Calendar!AddWorkingDays
  <2>3. NextIs(e, from, n, day)
    BY <2>1, NextWorkingDayCounts
  <2> HIDE DEF day
  <2>4. CASE day = MaxDay + 1
    <3>1. upTo(MaxDay) < n
      BY <1>1, <1>2, <2>3, <2>4 DEF NextIs
    <3> QED
      BY <2>2, <2>4, <3>1 DEF Calendar!Forever
  <2>5. CASE day # MaxDay + 1
    <3>1. /\ day \in (from + 1)..MaxDay /\ day \in Worked(e)
          /\ WorkedFrom(e, from, day) = n /\ WorkedFrom(e, from, day - 1) = n - 1
      BY <2>3, <2>5 DEF NextIs
    <3>2. day \in Int /\ day - 1 \in Int /\ day <= MaxDay /\ day - 1 <= MaxDay
      BY <1>1, <3>1
    <3>3. upTo(day) = n /\ upTo(day - 1) = n - 1 /\ Calendar!IsWorking(e, day)
      BY <1>2, <3>1, <3>2 DEF Worked
    <3> QED
      BY <2>2, <2>5, <3>3 DEF Calendar!Forever
  <2> QED
    BY <2>4, <2>5
<1> QED
  BY <1>3 DEF upTo, NextDaysCount

\* A calendar cuts the days into weeks.
LEMMA WeeksAreCut ==
  ASSUME CalendarInv, CalendarAssumption, NEW e \in Residents, NEW from \in 1..MaxDay,
         Calendar!CalendarOn(EntityOf[e], from) # 0
  PROVE  WeeksCut(e, from, Calendar!CalendarOn(EntityOf[e], from))
<1> DEFINE c == Calendar!CalendarOn(EntityOf[e], from)
           s == calendars[c].start
<1>1. MaxDay \in Nat /\ from \in Nat /\ EntityOf[e] \in Entities
  BY DEF CalendarAssumption
<1>2. c \in 1..Len(calendars) /\ c # 0
  BY <1>1, CalendarOnFollows
<1>3. s \in 1..WeekLength
  <2>1. calendars[c] \in Version
    BY <1>2 DEF CalendarInv, CalendarType
  <2>2. s \in StartDays \cup {1}
    BY <2>1 DEF Version
  <2>3. 1 \in 1..WeekLength /\ StartDays \subseteq 1..WeekLength
    BY DEF CalendarAssumption
  <2> HIDE DEF c, s
  <2> QED
    BY <2>2, <2>3
<1>4. ASSUME NEW d, Calendar!CalendarOn(EntityOf[e], d) = c
      PROVE  Calendar!WeekStartFor(e, d) = Calendar!WeekStart(d, s)
  BY <1>2, <1>4 DEF Calendar!WeekStartFor
<1>5. Calendar!WeekStartFor(e, from) = Calendar!WeekStart(from, s)
  BY <1>4
<1> HIDE DEF c, s
<1>6. Calendar!WeekStart(from, s) <= from
  BY <1>1, <1>3, WeekStartIs
<1>7. ASSUME NEW d \in from..MaxDay, Calendar!CalendarOn(EntityOf[e], d) = c
      PROVE  Calendar!WeekStartFor(e, d) = Calendar!WeekStart(from, s)
               <=> d < Calendar!WeekStart(from, s) + WeekLength
  <2>1. d \in Nat /\ from <= d
    BY <1>1
  <2>2. Calendar!WeekStart(d, s) = Calendar!WeekStart(from, s)
          <=> d < Calendar!WeekStart(from, s) + WeekLength
    BY <1>1, <1>3, <2>1, WeeksDoNotOverlap
  <2> QED
    BY <1>4, <1>7, <2>2
<1> QED
  BY <1>5, <1>6, <1>7 DEF WeeksCut, c

\* The days of a project are those of its people, where nothing makes them differ.
LEMMA ProjectDays ==
  ASSUME NEW e, NEW from
  PROVE  ProjectsAlike(e, from, Calendar!CalendarOn(EntityOf[e], from))
<1> DEFINE c == Calendar!CalendarOn(EntityOf[e], from)
           hols == Calendar!HolidaysOf(c)
<1> SUFFICES ASSUME Calendar!PatternOn(e, from) = 0, \A h \in hols : holidays[h].where = Everywhere
             PROVE  Calendar!EntityHoursOn(EntityOf[e], from) = Calendar!HoursOn(e, from)
  BY DEF ProjectsAlike
<1>1. Calendar!HoursOn(e, from) =
        IF c = 0 THEN -1 ELSE DayBy(calendars[c], <<>>, holidays, hols, from, LocationOf[e])
  BY HoursAre DEF HoursBy
<1>2. Calendar!EntityHoursOn(EntityOf[e], from) =
        IF c = 0 THEN -1 ELSE DayBy(calendars[c], <<>>, holidays, hols, from, Nowhere)
  BY Zenon DEF Calendar!EntityHoursOn, Calendar!ResolveWorkingDay, DayBy
<1> HIDE DEF c, hols
<1>3. DayBy(calendars[c], <<>>, holidays, hols, from, LocationOf[e]) =
        DayBy(calendars[c], <<>>, holidays, hols, from, Nowhere)
  BY PlacesAlike
<1> QED
  BY <1>1, <1>2, <1>3

\* The pieces of code that walk the days of a calendar agree.
LEMMA CalendarCounts == CalendarInv /\ CalendarAssumption => Calendar!CountsAgree
<1> SUFFICES ASSUME CalendarInv, CalendarAssumption, NEW e \in Residents, NEW from \in today..MaxDay,
                    Calendar!CalendarOn(EntityOf[e], from) # 0
             PROVE  /\ NextDaysCount(e, from)
                    /\ from + WeekLength <= Calendar!Forever =>
                         Calendar!ExpectedWeek(e, from)
                           = Calendar!CountWorkingHours(e, from, from + WeekLength - 1)
                    /\ WeeksCut(e, from, Calendar!CalendarOn(EntityOf[e], from))
                    /\ ProjectsAlike(e, from, Calendar!CalendarOn(EntityOf[e], from))
  BY Zenon DEF Calendar!CountsAgree, NextDaysCount, WeeksCut, ProjectsAlike
<1>1. from \in 1..MaxDay
  BY DEF CalendarInv, CalendarType, CalendarAssumption
<1> QED
  BY <1>1, NextDays, WeekAddsUp, WeeksAreCut, ProjectDays

-----------------------------------------------------------------------------
(* The periods and the regions of the bench *)

Span == [from : Nat, to : Nat, days : Nat]

IsGrouping(f, wanted) ==
  f = [d \in 0..MaxDay |->
         IF d = 0 THEN <<>>
         ELSE IF d \in wanted THEN OnTheBench!Grown(f[d - 1], d) ELSE f[d - 1]]
Grouping(wanted) == CHOOSE f : IsGrouping(f, wanted)

\* A list of periods with a day more is a list of periods.
LEMMA GrownIs ==
  ASSUME NEW periods \in Seq(Span), NEW d \in Nat
  PROVE  LET n == Len(periods)
             one == [from |-> d, to |-> d, days |-> 1]
             longer == [from |-> periods[n].from, to |-> d, days |-> periods[n].days + 1]
             next == OnTheBench!Grown(periods, d)
         IN /\ next \in Seq(Span)
            /\ \/ /\ n > 0 /\ periods[n].to + 1 = d /\ Len(next) = n /\ next[n] = longer
                  /\ \A i \in 1..(n - 1) : next[i] = periods[i]
               \/ /\ ~(n > 0 /\ periods[n].to + 1 = d) /\ Len(next) = n + 1 /\ next[n + 1] = one
                  /\ \A i \in 1..n : next[i] = periods[i]
<1> DEFINE n == Len(periods)
           one == [from |-> d, to |-> d, days |-> 1]
           longer == [from |-> periods[n].from, to |-> d, days |-> periods[n].days + 1]
           next == OnTheBench!Grown(periods, d)
<1>1. n \in Nat /\ one \in Span
  BY DEF Span
<1>2. CASE n > 0 /\ periods[n].to + 1 = d
  <2>1. periods[n] \in Span
    BY <1>1, <1>2
  <2>2. longer \in Span
    BY <2>1 DEF Span
  <2>3. next = [periods EXCEPT ![n] = longer]
    BY <1>2 DEF OnTheBench!Grown
  <2> HIDE DEF longer, next
  <2>4. /\ next \in Seq(Span) /\ Len(next) = n /\ next[n] = longer
        /\ \A i \in 1..(n - 1) : next[i] = periods[i]
    BY <1>1, <1>2, <2>2, <2>3
  <2> QED
    BY <1>2, <2>4 DEF longer, next
<1>3. CASE ~(n > 0 /\ periods[n].to + 1 = d)
  <2>1. next = Append(periods, one)
    BY <1>3 DEF OnTheBench!Grown
  <2> HIDE DEF one, next
  <2>2. /\ next \in Seq(Span) /\ Len(next) = n + 1 /\ next[n + 1] = one
        /\ \A i \in 1..n : next[i] = periods[i]
    BY <1>1, <2>1
  <2> QED
    BY <1>3, <2>2 DEF one, next
<1> QED
  BY <1>2, <1>3

\* Grouping is a loop over the days.
LEMMA GroupingPasses ==
  ASSUME CalendarAssumption, NEW wanted
  PROVE  LET f == Grouping(wanted)
         IN /\ f[0] = <<>>
            /\ \A d \in 1..MaxDay :
                 f[d] = IF d \in wanted THEN OnTheBench!Grown(f[d - 1], d) ELSE f[d - 1]
<1> DEFINE step == [x \in Seq(Span) \X ((0 + 1)..MaxDay) |->
                      IF x[2] \in wanted THEN OnTheBench!Grown(x[1], x[2]) ELSE x[1]]
<1>1. MaxDay \in Nat /\ 0 <= MaxDay /\ <<>> \in Seq(Span)
  BY DEF CalendarAssumption
<1>2. step \in [Seq(Span) \X ((0 + 1)..MaxDay) -> Seq(Span)]
  <2>1. ASSUME NEW x \in Seq(Span) \X ((0 + 1)..MaxDay)
        PROVE  (IF x[2] \in wanted THEN OnTheBench!Grown(x[1], x[2]) ELSE x[1]) \in Seq(Span)
    <3>1. x[1] \in Seq(Span) /\ x[2] \in Nat
      OBVIOUS
    <3> QED
      BY <3>1, GrownIs
  <2> QED
    BY <2>1
<1>3. \A p \in Seq(Span), d \in (0 + 1)..MaxDay :
        step[<<p, d>>] = IF d \in wanted THEN OnTheBench!Grown(p, d) ELSE p
  OBVIOUS
<1> HIDE DEF step
<1>4. PICK f : IsLoop(f, 0, MaxDay, <<>>, step) /\ Passes(f, 0, MaxDay, Seq(Span), <<>>, step)
  BY <1>1, <1>2, LoopExists
<1>5. ASSUME NEW d \in 0..MaxDay, d # 0
      PROVE  step[<<f[d - 1], d>>] = IF d \in wanted THEN OnTheBench!Grown(f[d - 1], d) ELSE f[d - 1]
  <2>1. d \in (0 + 1)..MaxDay /\ d - 1 \in 0..MaxDay
    BY <1>1, <1>5
  <2>2. f[d - 1] \in Seq(Span)
    BY <1>4, <2>1 DEF Passes
  <2> QED
    BY <1>3, <2>1, <2>2
<1>6. IsGrouping(f, wanted)
  BY <1>4, <1>5 DEF IsLoop, IsGrouping
<1>7. IsGrouping(Grouping(wanted), wanted)
  BY <1>6, Zenon DEF Grouping
<1>8. 0 \in 0..MaxDay /\ \A d \in 1..MaxDay : d \in 0..MaxDay /\ d # 0
  BY <1>1
<1> QED
  BY <1>7, <1>8 DEF IsGrouping

\* The periods of the days up to one: each is made of such days and counts them, none runs
\* into the next, and every such day is in one.
PeriodsOK(periods, d, wanted) ==
  /\ periods \in Seq(Span)
  /\ \A i \in 1..Len(periods) :
       /\ 1 <= periods[i].from /\ periods[i].from <= periods[i].to /\ periods[i].to <= d
       /\ periods[i].days = periods[i].to - periods[i].from + 1
       /\ \A x \in periods[i].from..periods[i].to : x \in wanted
       /\ i > 1 => periods[i - 1].to + 1 < periods[i].from
  /\ \A x \in 1..d : x \in wanted =>
       \E i \in 1..Len(periods) : x \in periods[i].from..periods[i].to

\* A day more keeps it so.
LEMMA PeriodsGrow ==
  ASSUME NEW d \in Nat \ {0}, NEW wanted, NEW periods, PeriodsOK(periods, d - 1, wanted)
  PROVE  PeriodsOK(IF d \in wanted THEN OnTheBench!Grown(periods, d) ELSE periods, d, wanted)
<1> DEFINE n == Len(periods)
           next == OnTheBench!Grown(periods, d)
<1>1. periods \in Seq(Span) /\ n \in Nat /\ d \in Nat /\ d - 1 \in Nat
  BY DEF PeriodsOK
<1>2. ASSUME NEW i \in 1..n
      PROVE  /\ periods[i].from \in Nat /\ periods[i].to \in Nat /\ periods[i].days \in Nat
             /\ 1 <= periods[i].from /\ periods[i].from <= periods[i].to /\ periods[i].to <= d - 1
             /\ periods[i].days = periods[i].to - periods[i].from + 1
             /\ \A x \in periods[i].from..periods[i].to : x \in wanted
             /\ i > 1 => periods[i - 1].to + 1 < periods[i].from
  <2>1. periods[i] \in Span
    BY <1>1
  <2> QED
    BY <2>1 DEF Span, PeriodsOK
<1>3. \A x \in 1..(d - 1) : x \in wanted => \E i \in 1..n : x \in periods[i].from..periods[i].to
  BY DEF PeriodsOK
<1>4. \A x \in 1..d : x = d \/ x \in 1..(d - 1)
  BY <1>1
<1>5. CASE d \notin wanted
  <2>1. \A i \in 1..n : periods[i].to <= d
    BY <1>1, <1>2
  <2>2. \A x \in 1..d : x \in wanted => \E i \in 1..n : x \in periods[i].from..periods[i].to
    BY <1>3, <1>4, <1>5
  <2>3. PeriodsOK(periods, d, wanted)
    BY <1>1, <1>2, <2>1, <2>2 DEF PeriodsOK
  <2> QED
    BY <1>5, <2>3
<1>6. CASE d \in wanted /\ n > 0 /\ periods[n].to + 1 = d
  <2>1. /\ next \in Seq(Span) /\ Len(next) = n
        /\ next[n] = [from |-> periods[n].from, to |-> d, days |-> periods[n].days + 1]
        /\ \A i \in 1..(n - 1) : next[i] = periods[i]
    BY <1>1, <1>6, GrownIs
  <2> HIDE DEF next
  <2>2. n \in 1..n /\ \A i \in 1..n : i = n \/ i \in 1..(n - 1)
    BY <1>1, <1>6
  <2>3. next[n].from = periods[n].from /\ next[n].to = d /\ next[n].days = periods[n].days + 1
    BY <2>1
  <2>4. ASSUME NEW i \in 1..n
        PROVE  /\ 1 <= next[i].from /\ next[i].from <= next[i].to /\ next[i].to <= d
               /\ next[i].days = next[i].to - next[i].from + 1
               /\ \A x \in next[i].from..next[i].to : x \in wanted
               /\ i > 1 => next[i - 1].to + 1 < next[i].from
    <3>1. CASE i = n
      <4>1. \A x \in periods[n].from..d : x = d \/ x \in periods[n].from..periods[n].to
        <5>1. PICK a \in Nat, b \in Nat : a = periods[n].from /\ b = periods[n].to /\ b + 1 = d
          BY <1>2, <1>6, <2>2
        <5>2. \A x \in a..(b + 1) : x = b + 1 \/ x \in a..b
          OBVIOUS
        <5> QED
          BY <5>1, <5>2
      <4>2. n > 1 => n - 1 \in 1..(n - 1) /\ next[n - 1] = periods[n - 1]
        BY <1>1, <2>1
      <4>3. \A x \in periods[n].from..d : x \in wanted
        BY <1>2, <1>6, <2>2, <4>1
      <4>6. /\ periods[n].from \in Nat /\ periods[n].to \in Nat /\ periods[n].days \in Nat
            /\ 1 <= periods[n].from /\ periods[n].from <= periods[n].to
            /\ periods[n].days = periods[n].to - periods[n].from + 1
        BY <1>2, <2>2
      <4>7. PICK a \in Nat, b \in Nat, k \in Nat :
              /\ a = periods[n].from /\ b = periods[n].to /\ k = periods[n].days
              /\ 1 <= a /\ a <= b /\ k = b - a + 1 /\ b + 1 = d
        BY <1>6, <4>6
      <4>4. /\ 1 <= periods[n].from /\ periods[n].from <= d /\ d <= d
            /\ periods[n].days + 1 = d - periods[n].from + 1
        <5>2. k = b - a + 1 /\ b + 1 = d /\ a <= b /\ 1 <= a
          BY <4>7
        <5>1. 1 <= a /\ a <= d /\ d <= d /\ k + 1 = d - a + 1
          BY <5>2
        <5> HIDE DEF n
        <5> QED
          BY <4>7, <5>1, Zenon
      <4>5. n > 1 => next[n - 1].to + 1 < periods[n].from
        BY <1>2, <2>2, <4>2
      <4> QED
        BY <2>3, <3>1, <4>3, <4>4, <4>5
    <3>2. CASE i \in 1..(n - 1)
      <4>1. next[i] = periods[i] /\ (i > 1 => i - 1 \in 1..(n - 1) /\ next[i - 1] = periods[i - 1])
        BY <1>1, <2>1, <3>2
      <4>2. periods[i].to <= d
        BY <1>1, <1>2
      <4> QED
        BY <1>2, <4>1, <4>2
    <3> QED
      BY <2>2, <3>1, <3>2
  <2>5. ASSUME NEW x \in 1..d, x \in wanted PROVE \E i \in 1..n : x \in next[i].from..next[i].to
    <3>1. CASE x = d
      <4>1. x \in next[n].from..next[n].to
        BY <1>1, <1>2, <1>6, <2>2, <2>3, <3>1
      <4> QED
        BY <2>2, <4>1
    <3>2. CASE x \in 1..(d - 1)
      <4>1. PICK i \in 1..n : x \in periods[i].from..periods[i].to
        BY <1>3, <2>5, <3>2
      <4>2. x \in next[i].from..next[i].to
        BY <1>1, <1>2, <1>6, <2>1, <2>2, <2>3, <4>1
      <4> QED
        BY <4>2
    <3> QED
      BY <1>4, <3>1, <3>2
  <2> QED
    BY <1>6, <2>1, <2>4, <2>5 DEF PeriodsOK, next
<1>7. CASE d \in wanted /\ ~(n > 0 /\ periods[n].to + 1 = d)
  <2>1. /\ next \in Seq(Span) /\ Len(next) = n + 1
        /\ next[n + 1] = [from |-> d, to |-> d, days |-> 1]
        /\ \A i \in 1..n : next[i] = periods[i]
    BY <1>1, <1>7, GrownIs
  <2> HIDE DEF next
  <2>2. n + 1 \in 1..(n + 1) /\ \A i \in 1..(n + 1) : i = n + 1 \/ i \in 1..n
    BY <1>1
  <2>3. next[n + 1].from = d /\ next[n + 1].to = d /\ next[n + 1].days = 1
    BY <2>1
  <2>4. ASSUME NEW i \in 1..(n + 1)
        PROVE  /\ 1 <= next[i].from /\ next[i].from <= next[i].to /\ next[i].to <= d
               /\ next[i].days = next[i].to - next[i].from + 1
               /\ \A x \in next[i].from..next[i].to : x \in wanted
               /\ i > 1 => next[i - 1].to + 1 < next[i].from
    <3>1. CASE i = n + 1
      <4>1. i > 1 => n \in 1..n /\ n > 0 /\ next[i - 1] = periods[n]
        BY <1>1, <2>1, <3>1
      <4>2. \A x \in d..d : x \in wanted
        BY <1>1, <1>7
      <4>3. i > 1 => periods[n].to + 1 < d
        BY <1>1, <1>2, <1>7, <4>1
      <4> QED
        BY <1>1, <2>3, <3>1, <4>1, <4>2, <4>3
    <3>2. CASE i \in 1..n
      <4>1. next[i] = periods[i] /\ (i > 1 => i - 1 \in 1..n /\ next[i - 1] = periods[i - 1])
        BY <1>1, <2>1, <3>2
      <4>2. periods[i].to <= d
        BY <1>1, <1>2, <3>2
      <4> QED
        BY <1>2, <3>2, <4>1, <4>2
    <3> QED
      BY <2>2, <3>1, <3>2
  <2>5. ASSUME NEW x \in 1..d, x \in wanted
        PROVE  \E i \in 1..(n + 1) : x \in next[i].from..next[i].to
    <3>1. CASE x = d
      BY <1>1, <2>2, <2>3, <3>1
    <3>2. CASE x \in 1..(d - 1)
      <4>1. PICK i \in 1..n : x \in periods[i].from..periods[i].to
        BY <1>3, <2>5, <3>2
      <4> QED
        BY <1>1, <2>1, <4>1
    <3> QED
      BY <1>4, <3>1, <3>2
  <2> QED
    BY <1>7, <2>1, <2>4, <2>5 DEF PeriodsOK, next
<1> QED
  BY <1>5, <1>6, <1>7

\* The forecast's periods are those of all the days.
LEMMA PeriodsAre ==
  ASSUME CalendarAssumption, NEW wanted
  PROVE  PeriodsOK(OnTheBench!GroupBench(wanted), MaxDay, wanted)
<1> DEFINE f == Grouping(wanted)
           Holds == {d \in 0..MaxDay : PeriodsOK(f[d], d, wanted)}
<1>1. MaxDay \in Nat
  BY DEF CalendarAssumption
<1>2. /\ f[0] = <<>>
      /\ \A d \in 1..MaxDay :
           f[d] = IF d \in wanted THEN OnTheBench!Grown(f[d - 1], d) ELSE f[d - 1]
  BY GroupingPasses
<1>3. OnTheBench!GroupBench(wanted) = f[MaxDay]
  BY DEF OnTheBench!GroupBench, Grouping, IsGrouping
<1> HIDE DEF f
<1>4. 0 \in Holds
  <2>1. PeriodsOK(<<>>, 0, wanted)
    BY DEF PeriodsOK
  <2> QED
    BY <1>1, <1>2, <2>1
<1>5. ASSUME NEW d \in (0 + 1)..MaxDay, d - 1 \in Holds PROVE d \in Holds
  <2>1. d \in Nat \ {0} /\ d \in 0..MaxDay /\ d \in 1..MaxDay
    BY <1>1
  <2>2. PeriodsOK(f[d - 1], d - 1, wanted)
    BY <1>5
  <2>3. PeriodsOK(IF d \in wanted THEN OnTheBench!Grown(f[d - 1], d) ELSE f[d - 1], d, wanted)
    BY <2>1, <2>2, PeriodsGrow
  <2>4. f[d] = IF d \in wanted THEN OnTheBench!Grown(f[d - 1], d) ELSE f[d - 1]
    BY <1>2, <2>1
  <2>5. PeriodsOK(f[d], d, wanted)
    BY <2>3, <2>4
  <2> QED
    BY <2>1, <2>5
<1> HIDE DEF Holds
<1>6. \A d \in 0..MaxDay : d \in Holds
  BY <1>1, <1>4, <1>5, Climbs
<1> QED
  BY <1>1, <1>3, <1>6 DEF Holds

RunState == [begun : Nat, worked : Nat, regions : Seq(Span)]
NoRun == [begun |-> OnTheBench!None, worked |-> 0, regions |-> <<>>]
IsRunning(f, e) ==
  f = [d \in 0..MaxDay |-> IF d = 0 THEN NoRun ELSE OnTheBench!RunOn(e, f[d - 1], d)]
Running(e) == CHOOSE f : IsRunning(f, e)

\* A day somebody is free on, for the screen.
Free(e, d) == ~(OnTheBench!Covered(e, d) \/ d \in pitch[e])

\* A run that is closed is a region if it has a working day.
LEMMA CloseIs ==
  ASSUME NEW s \in RunState, NEW d \in Nat
  PROVE  LET next == OnTheBench!CloseRun(s, d + 1)
             n == Len(s.regions)
         IN /\ next \in Seq(Span)
            /\ IF s.begun = 0 \/ s.worked = 0 THEN next = s.regions
               ELSE /\ Len(next) = n + 1 /\ \A i \in 1..n : next[i] = s.regions[i]
                    /\ next[n + 1] = [from |-> s.begun, to |-> d, days |-> s.worked]
<1> DEFINE next == OnTheBench!CloseRun(s, d + 1)
           one == [from |-> s.begun, to |-> d, days |-> s.worked]
<1>1. s.regions \in Seq(Span) /\ one \in Span /\ (d + 1) - 1 = d /\ Len(s.regions) \in Nat
  BY DEF RunState, Span
<1>2. next = IF s.begun = 0 \/ s.worked = 0 THEN s.regions ELSE Append(s.regions, one)
  BY <1>1 DEF OnTheBench!CloseRun, OnTheBench!None
<1> HIDE DEF next, one
<1>3. CASE s.begun = 0 \/ s.worked = 0
  BY <1>1, <1>2, <1>3 DEF next
<1>4. CASE ~(s.begun = 0 \/ s.worked = 0)
  <2>1. next = Append(s.regions, one)
    BY <1>2, <1>4
  <2>2. /\ next \in Seq(Span) /\ Len(next) = Len(s.regions) + 1
        /\ \A i \in 1..Len(s.regions) : next[i] = s.regions[i]
        /\ next[Len(s.regions) + 1] = one
    BY <1>1, <2>1
  <2> QED
    BY <1>4, <2>2 DEF next, one
<1> QED
  BY <1>3, <1>4

\* A day more leaves a state of the loop.
LEMMA RunOnIs ==
  ASSUME NEW e, NEW s \in RunState, NEW d \in Nat
  PROVE  LET next == OnTheBench!RunOn(e, s, d + 1)
         IN /\ next \in RunState
            /\ ~Free(e, d + 1) =>
                 next.begun = 0 /\ next.worked = 0 /\ next.regions = OnTheBench!CloseRun(s, d + 1)
            /\ Free(e, d + 1) =>
                 /\ next.begun = IF s.begun = 0 THEN d + 1 ELSE s.begun
                 /\ next.worked = IF d + 1 \in Working[e] THEN s.worked + 1 ELSE s.worked
                 /\ next.regions = s.regions
<1>1. s.begun \in Nat /\ s.worked \in Nat /\ s.regions \in Seq(Span)
      /\ OnTheBench!CloseRun(s, d + 1) \in Seq(Span)
  BY CloseIs DEF RunState
<1>2. CASE Free(e, d + 1)
  <2>1. PICK b \in Nat : b = IF s.begun = 0 THEN d + 1 ELSE s.begun
    BY <1>1
  <2>2. PICK w \in Nat : w = IF d + 1 \in Working[e] THEN s.worked + 1 ELSE s.worked
    BY <1>1
  <2>3. OnTheBench!RunOn(e, s, d + 1) = [s EXCEPT !.begun = b, !.worked = w]
    BY <1>2, <2>1, <2>2 DEF Free, OnTheBench!RunOn, OnTheBench!None
  <2> QED
    BY <1>1, <1>2, <2>1, <2>2, <2>3 DEF RunState
<1>3. CASE ~Free(e, d + 1)
  <2>1. OnTheBench!RunOn(e, s, d + 1) =
          [begun |-> 0, worked |-> 0, regions |-> OnTheBench!CloseRun(s, d + 1)]
    BY <1>3 DEF Free, OnTheBench!RunOn, OnTheBench!None
  <2> QED
    BY <1>1, <1>3, <2>1 DEF RunState
<1> QED
  BY <1>2, <1>3

\* The regions are a loop over the days.
LEMMA RunningPasses ==
  ASSUME CalendarAssumption, NEW e
  PROVE  LET f == Running(e)
         IN f[0] = NoRun /\ \A d \in 1..MaxDay : f[d] = OnTheBench!RunOn(e, f[d - 1], d)
<1> DEFINE step == [x \in RunState \X ((0 + 1)..MaxDay) |-> OnTheBench!RunOn(e, x[1], x[2])]
<1>1. MaxDay \in Nat /\ 0 <= MaxDay /\ NoRun \in RunState
  BY DEF CalendarAssumption, NoRun, RunState, OnTheBench!None
<1>2. step \in [RunState \X ((0 + 1)..MaxDay) -> RunState]
  <2>1. ASSUME NEW x \in RunState \X ((0 + 1)..MaxDay)
        PROVE  OnTheBench!RunOn(e, x[1], x[2]) \in RunState
    <3>1. PICK d \in Nat : x[2] = d + 1
      <4>1. x[2] - 1 \in Nat /\ x[2] = (x[2] - 1) + 1
        OBVIOUS
      <4> QED
        BY <4>1
    <3>2. x[1] \in RunState
      OBVIOUS
    <3> QED
      BY <3>1, <3>2, RunOnIs
  <2> QED
    BY <2>1
<1>3. \A s \in RunState, d \in (0 + 1)..MaxDay : step[<<s, d>>] = OnTheBench!RunOn(e, s, d)
  OBVIOUS
<1> HIDE DEF step
<1>4. PICK f : IsLoop(f, 0, MaxDay, NoRun, step) /\ Passes(f, 0, MaxDay, RunState, NoRun, step)
  BY <1>1, <1>2, LoopExists
<1>5. ASSUME NEW d \in 0..MaxDay, d # 0
      PROVE  step[<<f[d - 1], d>>] = OnTheBench!RunOn(e, f[d - 1], d)
  <2>1. d \in (0 + 1)..MaxDay /\ d - 1 \in 0..MaxDay
    BY <1>1, <1>5
  <2>2. f[d - 1] \in RunState
    BY <1>4, <2>1 DEF Passes
  <2> QED
    BY <1>3, <2>1, <2>2
<1>6. IsRunning(f, e)
  BY <1>4, <1>5 DEF IsLoop, IsRunning
<1>7. IsRunning(Running(e), e)
  BY <1>6, Zenon DEF Running
<1>8. 0 \in 0..MaxDay /\ \A d \in 1..MaxDay : d \in 0..MaxDay /\ d # 0
  BY <1>1
<1> QED
  BY <1>7, <1>8 DEF IsRunning

\* The regions up to a day: days somebody is free on, counted, and a day somebody is not
\* between any two.
Within(regions, d, e) ==
  \A i \in 1..Len(regions) :
    /\ 1 <= regions[i].from /\ regions[i].from <= regions[i].to /\ regions[i].to <= d
    /\ regions[i].days = CountIn(regions[i].from - 1, regions[i].to, Working[e])
    /\ \A x \in regions[i].from..regions[i].to : Free(e, x)
Apart(regions, e) ==
  \A i, j \in 1..Len(regions) : j < i =>
    \E x \in (regions[j].to + 1)..(regions[i].from - 1) : ~Free(e, x)
\* Nor do they run into what follows.
Ended(regions, d, e) ==
  \A i \in 1..Len(regions) : \E x \in (regions[i].to + 1)..d : ~Free(e, x)
\* Each working day somebody is free on is in one.
Shown(regions, d, e) ==
  \A x \in 1..d : Free(e, x) /\ x \in Working[e] =>
    \E i \in 1..Len(regions) : x \in regions[i].from..regions[i].to
RegionsOK(regions, d, e) ==
  regions \in Seq(Span) /\ Within(regions, d, e) /\ Apart(regions, e) /\ Shown(regions, d, e)

\* And so is the run that is open.
BeforeRun(s, d) == IF s.begun = 0 THEN d ELSE s.begun - 1
RunOK(s, d, e) ==
  /\ s \in RunState /\ s.begun <= d
  /\ RegionsOK(s.regions, BeforeRun(s, d), e) /\ Ended(s.regions, BeforeRun(s, d), e)
  /\ s.begun = 0 => s.worked = 0
  /\ s.begun # 0 => /\ s.worked = CountIn(s.begun - 1, d, Working[e])
                    /\ \A x \in s.begun..d : Free(e, x)

\* A span that counts no wanted day has none.
LEMMA CountZero ==
  ASSUME NEW m \in Nat, NEW d \in Nat, NEW wanted, CountIn(m, d, wanted) = 0
  PROVE  \A x \in (m + 1)..d : x \notin wanted
<1>1. IsFiniteSet((m + 1)..d)
  BY FS_Interval
<1>2. IsFiniteSet(((m + 1)..d) \cap wanted)
  BY <1>1, FS_Subset
<1>3. ((m + 1)..d) \cap wanted = {}
  BY <1>2, FS_EmptySet DEF CountIn
<1> QED
  BY <1>3

\* Closing the run leaves the regions up to the day.
LEMMA CloseKeeps ==
  ASSUME NEW e, NEW d \in Nat, NEW s, RunOK(s, d, e)
  PROVE  RegionsOK(OnTheBench!CloseRun(s, d + 1), d, e)
<1> DEFINE next == OnTheBench!CloseRun(s, d + 1)
           old == s.regions
           n == Len(old)
<1>1. /\ s \in RunState /\ s.begun \in Nat /\ s.worked \in Nat /\ old \in Seq(Span) /\ n \in Nat
      /\ s.begun <= d
  BY DEF RunOK, RunState
<1>2. \A i \in 1..n : old[i].from \in Nat /\ old[i].to \in Nat /\ old[i].days \in Nat
  <2>1. \A i \in 1..n : old[i] \in Span
    BY <1>1
  <2> HIDE DEF old
  <2> QED
    BY <2>1 DEF Span
<1>3. RegionsOK(old, BeforeRun(s, d), e) /\ Ended(old, BeforeRun(s, d), e)
  BY DEF RunOK
<1>4. BeforeRun(s, d) \in Nat /\ BeforeRun(s, d) <= d
  BY <1>1 DEF BeforeRun
<1>5. Within(old, d, e) /\ Apart(old, e)
  <2>1. ASSUME NEW i \in 1..n PROVE old[i].to <= d
    <3>1. old[i].to <= BeforeRun(s, d) /\ old[i].to \in Nat
      BY <1>2, <1>3 DEF RegionsOK, Within
    <3> QED
      BY <1>4, <3>1
  <2> QED
    BY <1>3, <2>1 DEF RegionsOK, Within
<1>6. CASE s.begun = 0
  <2>1. next = old /\ BeforeRun(s, d) = d
    BY <1>1, <1>6, CloseIs DEF BeforeRun
  <2> QED
    BY <1>3, <2>1
<1>7. CASE s.begun # 0 /\ s.worked = 0
  <2>1. next = old
    BY <1>1, <1>7, CloseIs
  <2>2. s.begun - 1 \in Nat /\ (s.begun - 1) + 1 = s.begun /\ BeforeRun(s, d) = s.begun - 1
    BY <1>1, <1>7 DEF BeforeRun
  <2>3. CountIn(s.begun - 1, d, Working[e]) = 0
    BY <1>7 DEF RunOK
  <2>4. \A x \in s.begun..d : x \notin Working[e]
    BY <2>2, <2>3, CountZero
  <2>5. \A x \in 1..d : x \in 1..(s.begun - 1) \/ x \in s.begun..d
    BY <1>1
  <2>6. Shown(old, d, e)
    BY <1>3, <2>2, <2>4, <2>5 DEF RegionsOK, Shown
  <2> QED
    BY <1>1, <1>5, <2>1, <2>6 DEF RegionsOK
<1>8. CASE s.begun # 0 /\ s.worked # 0
  <2>1. /\ next \in Seq(Span) /\ Len(next) = n + 1 /\ \A i \in 1..n : next[i] = old[i]
        /\ next[n + 1] = [from |-> s.begun, to |-> d, days |-> s.worked]
    BY <1>1, <1>8, CloseIs
  <2> HIDE DEF next, old
  <2>2. n + 1 \in 1..(n + 1) /\ \A i \in 1..(n + 1) : i = n + 1 \/ i \in 1..n
    BY <1>1
  <2>3. next[n + 1].from = s.begun /\ next[n + 1].to = d /\ next[n + 1].days = s.worked
    BY <2>1
  <2>4. /\ 1 <= s.begun /\ BeforeRun(s, d) = s.begun - 1
        /\ s.worked = CountIn(s.begun - 1, d, Working[e]) /\ \A x \in s.begun..d : Free(e, x)
    BY <1>1, <1>8 DEF RunOK, BeforeRun
  <2>5. Within(next, d, e)
    <3>1. ASSUME NEW i \in 1..(n + 1)
          PROVE  /\ 1 <= next[i].from /\ next[i].from <= next[i].to /\ next[i].to <= d
                 /\ next[i].days = CountIn(next[i].from - 1, next[i].to, Working[e])
                 /\ \A x \in next[i].from..next[i].to : Free(e, x)
      <4>1. CASE i = n + 1
        BY <1>1, <2>3, <2>4, <4>1
      <4>2. CASE i \in 1..n
        BY <1>5, <2>1, <4>2 DEF Within
      <4> QED
        BY <2>2, <4>1, <4>2
    <3> QED
      BY <2>1, <3>1 DEF Within
  <2>6. Apart(next, e)
    <3>1. ASSUME NEW i \in 1..(n + 1), NEW j \in 1..(n + 1), j < i
          PROVE  \E x \in (next[j].to + 1)..(next[i].from - 1) : ~Free(e, x)
      <4>1. j \in 1..n /\ next[j] = old[j]
        BY <1>1, <2>1, <3>1
      <4>2. CASE i = n + 1
        <5>1. \E x \in (old[j].to + 1)..(s.begun - 1) : ~Free(e, x)
          BY <1>3, <2>4, <4>1 DEF Ended
        <5> QED
          BY <2>3, <4>1, <4>2, <5>1
      <4>3. CASE i \in 1..n
        BY <1>5, <2>1, <3>1, <4>1, <4>3 DEF Apart
      <4> QED
        BY <2>2, <4>2, <4>3
    <3> QED
      BY <2>1, <3>1 DEF Apart
  <2>7. Shown(next, d, e)
    <3>1. ASSUME NEW x \in 1..d, Free(e, x), x \in Working[e]
          PROVE  \E i \in 1..(n + 1) : x \in next[i].from..next[i].to
      <4>1. CASE x \in s.begun..d
        BY <2>2, <2>3, <4>1
      <4>2. CASE x \notin s.begun..d
        <5>1. x \in 1..(s.begun - 1)
          BY <1>1, <4>2
        <5>2. PICK i \in 1..n : x \in old[i].from..old[i].to
          BY <1>3, <2>4, <3>1, <5>1 DEF RegionsOK, Shown
        <5>3. i \in 1..(n + 1) /\ x \in next[i].from..next[i].to
          BY <1>1, <2>1, <5>2
        <5> QED
          BY <5>3
      <4> QED
        BY <4>1, <4>2
    <3> QED
      BY <2>1, <3>1 DEF Shown
  <2> QED
    BY <2>1, <2>5, <2>6, <2>7 DEF RegionsOK, next
<1> QED
  BY <1>6, <1>7, <1>8

\* A day more keeps it so.
LEMMA RunKeeps ==
  ASSUME NEW e, NEW d \in Nat, NEW s, RunOK(s, d, e)
  PROVE  RunOK(OnTheBench!RunOn(e, s, d + 1), d + 1, e)
<1> DEFINE next == OnTheBench!RunOn(e, s, d + 1)
           closed == OnTheBench!CloseRun(s, d + 1)
<1>1. s \in RunState /\ s.begun \in Nat /\ s.worked \in Nat /\ s.begun <= d
  BY DEF RunOK, RunState
<1>2. /\ next \in RunState
      /\ ~Free(e, d + 1) => next.begun = 0 /\ next.worked = 0 /\ next.regions = closed
      /\ Free(e, d + 1) =>
           /\ next.begun = IF s.begun = 0 THEN d + 1 ELSE s.begun
           /\ next.worked = IF d + 1 \in Working[e] THEN s.worked + 1 ELSE s.worked
           /\ next.regions = s.regions
  BY <1>1, RunOnIs
<1>3. RegionsOK(closed, d, e)
  BY CloseKeeps
<1> HIDE DEF next, closed
<1>4. CASE ~Free(e, d + 1)
  <2>1. /\ Len(closed) \in Nat
        /\ \A i \in 1..Len(closed) : closed[i].to \in Nat /\ closed[i].to <= d
    <3>1. \A i \in 1..Len(closed) : closed[i] \in Span /\ closed[i].to <= d
      BY <1>3 DEF RegionsOK, Within
    <3>2. Len(closed) \in Nat
      BY <1>3 DEF RegionsOK
    <3> QED
      BY <3>1, <3>2 DEF Span
  <2>2. Within(closed, d + 1, e)
    <3>1. \A i \in 1..Len(closed) : closed[i].to <= d + 1
      BY <2>1
    <3> QED
      BY <1>3, <3>1 DEF RegionsOK, Within
  <2>3. Ended(closed, d + 1, e)
    <3>1. \A i \in 1..Len(closed) : d + 1 \in (closed[i].to + 1)..(d + 1)
      BY <2>1
    <3> QED
      BY <1>4, <3>1 DEF Ended
  <2>4. Shown(closed, d + 1, e)
    <3>1. \A x \in 1..(d + 1) : x = d + 1 \/ x \in 1..d
      OBVIOUS
    <3> QED
      BY <1>3, <1>4, <3>1 DEF RegionsOK, Shown
  <2>5. RegionsOK(closed, d + 1, e)
    BY <1>3, <2>2, <2>4 DEF RegionsOK
  <2>6. BeforeRun(next, d + 1) = d + 1 /\ next.begun <= d + 1
    BY <1>2, <1>4 DEF BeforeRun
  <2> QED
    BY <1>2, <1>4, <2>3, <2>5, <2>6 DEF RunOK, next
<1>5. CASE Free(e, d + 1)
  <2>1. PICK b \in 1..(d + 1) : b = next.begun /\ b = IF s.begun = 0 THEN d + 1 ELSE s.begun
    BY <1>1, <1>2, <1>5
  <2>2. BeforeRun(next, d + 1) = BeforeRun(s, d)
    BY <1>1, <2>1 DEF BeforeRun
  <2>3. RegionsOK(next.regions, BeforeRun(next, d + 1), e) /\ Ended(next.regions, BeforeRun(next, d + 1), e)
    BY <1>2, <1>5, <2>2 DEF RunOK
  <2>4. \A x \in b..(d + 1) : Free(e, x)
    <3>1. CASE s.begun = 0
      BY <1>5, <2>1, <3>1
    <3>2. CASE s.begun # 0
      <4>1. \A x \in s.begun..(d + 1) : x = d + 1 \/ x \in s.begun..d
        BY <1>1
      <4> QED
        BY <1>5, <2>1, <3>2, <4>1 DEF RunOK
    <3> QED
      BY <3>1, <3>2
  <2>5. next.worked = CountIn(b - 1, d + 1, Working[e])
    <3>1. b - 1 \in Nat /\ d + 1 \in Nat /\ d + 1 \in ((b - 1) + 1)..(d + 1) /\ (d + 1) - 1 = d
      BY <2>1
    <3>2. CountIn(b - 1, d + 1, Working[e]) =
            IF d + 1 \in Working[e] THEN CountIn(b - 1, d, Working[e]) + 1 ELSE CountIn(b - 1, d, Working[e])
      BY <3>1, CountOneMore
    <3>3. CountIn(b - 1, d, Working[e]) = s.worked
      <4>1. CASE s.begun = 0
        <5>1. b - 1 = d /\ s.worked = 0
          BY <2>1, <4>1 DEF RunOK
        <5> QED
          BY <5>1, CountNone
      <4>2. CASE s.begun # 0
        BY <2>1, <4>2 DEF RunOK
      <4> QED
        BY <4>1, <4>2
    <3> QED
      BY <1>2, <1>5, <3>2, <3>3
  <2>6. next.begun # 0 /\ next.begun <= d + 1
    BY <2>1
  <2> QED
    BY <1>2, <2>1, <2>3, <2>4, <2>5, <2>6 DEF RunOK, next
<1> QED
  BY <1>4, <1>5

\* The regions a screen shows are those of all the days.
LEMMA RegionsAre ==
  ASSUME CalendarAssumption, NEW e
  PROVE  RegionsOK(OnTheBench!Regions(e), MaxDay, e)
<1> DEFINE f == Running(e)
           Holds == {d \in 0..MaxDay : RunOK(f[d], d, e)}
<1>1. MaxDay \in Nat
  BY DEF CalendarAssumption
<1>2. f[0] = NoRun /\ \A d \in 1..MaxDay : f[d] = OnTheBench!RunOn(e, f[d - 1], d)
  BY RunningPasses
<1>3. OnTheBench!Regions(e) = OnTheBench!CloseRun(f[MaxDay], MaxDay + 1)
  BY DEF OnTheBench!Regions, Running, IsRunning, NoRun
<1> HIDE DEF f
<1>4. 0 \in Holds
  <2>1. NoRun \in RunState /\ NoRun.begun = 0 /\ NoRun.worked = 0 /\ NoRun.regions = <<>>
    BY DEF NoRun, RunState, OnTheBench!None
  <2>2. RegionsOK(<<>>, 0, e) /\ Ended(<<>>, 0, e)
    BY DEF RegionsOK, Within, Apart, Shown, Ended
  <2>3. BeforeRun(NoRun, 0) = 0
    BY <2>1 DEF BeforeRun
  <2>4. RunOK(NoRun, 0, e)
    BY <2>1, <2>2, <2>3 DEF RunOK
  <2> QED
    BY <1>1, <1>2, <2>4
<1>5. ASSUME NEW d \in (0 + 1)..MaxDay, d - 1 \in Holds PROVE d \in Holds
  <2>1. d - 1 \in Nat /\ (d - 1) + 1 = d /\ d \in 0..MaxDay /\ d \in 1..MaxDay
    BY <1>1
  <2>2. RunOK(f[d - 1], d - 1, e)
    BY <1>5
  <2>3. RunOK(OnTheBench!RunOn(e, f[d - 1], (d - 1) + 1), (d - 1) + 1, e)
    BY <2>1, <2>2, RunKeeps
  <2>4. RunOK(f[d], d, e)
    BY <1>2, <2>1, <2>3
  <2> QED
    BY <2>1, <2>4
<1> HIDE DEF Holds
<1>6. \A d \in 0..MaxDay : d \in Holds
  BY <1>1, <1>4, <1>5, Climbs
<1>7. RunOK(f[MaxDay], MaxDay, e)
  BY <1>1, <1>6 DEF Holds
<1> QED
  BY <1>1, <1>3, <1>7, CloseKeeps

-----------------------------------------------------------------------------
(* What is counted of the regions *)

IsTally(f, regions, day) ==
  f = [i \in 0..Len(regions) |->
         IF i = 0 THEN 0
         ELSE IF regions[i].from < day THEN f[i - 1] + regions[i].days ELSE f[i - 1]]
Tally(regions, day) == CHOOSE f : IsTally(f, regions, day)

\* The tally is a loop over the regions.
LEMMA TallyPasses ==
  ASSUME NEW regions \in Seq(Span), NEW day
  PROVE  LET f == Tally(regions, day)
         IN /\ f[0] = 0
            /\ \A i \in 1..Len(regions) :
                 f[i] = IF regions[i].from < day THEN f[i - 1] + regions[i].days ELSE f[i - 1]
<1> DEFINE n == Len(regions)
           step == [x \in Nat \X ((0 + 1)..n) |->
                      IF regions[x[2]].from < day THEN x[1] + regions[x[2]].days ELSE x[1]]
<1>1. n \in Nat /\ 0 <= n /\ 0 \in Nat /\ \A i \in 1..n : regions[i].days \in Nat
  <2>1. n \in Nat /\ \A i \in 1..n : regions[i] \in Span
    OBVIOUS
  <2> QED
    BY <2>1 DEF Span
<1> HIDE DEF n
<1>2. step \in [Nat \X ((0 + 1)..n) -> Nat]
  <2>1. ASSUME NEW x \in Nat \X ((0 + 1)..n)
        PROVE  (IF regions[x[2]].from < day THEN x[1] + regions[x[2]].days ELSE x[1]) \in Nat
    <3>1. x[1] \in Nat /\ x[2] \in 1..n
      OBVIOUS
    <3> QED
      BY <1>1, <3>1
  <2> QED
    BY <2>1
<1>3. \A y \in Nat, i \in (0 + 1)..n :
        step[<<y, i>>] = IF regions[i].from < day THEN y + regions[i].days ELSE y
  OBVIOUS
<1> HIDE DEF step
<1>4. PICK f : IsLoop(f, 0, n, 0, step) /\ Passes(f, 0, n, Nat, 0, step)
  BY <1>1, <1>2, LoopExists
<1>5. ASSUME NEW i \in 0..n, i # 0
      PROVE  step[<<f[i - 1], i>>] =
               IF regions[i].from < day THEN f[i - 1] + regions[i].days ELSE f[i - 1]
  <2>1. i \in (0 + 1)..n /\ i - 1 \in 0..n
    BY <1>1, <1>5
  <2>2. f[i - 1] \in Nat
    BY <1>4, <2>1 DEF Passes
  <2> QED
    BY <1>3, <2>1, <2>2
<1>6. IsTally(f, regions, day)
  BY <1>4, <1>5 DEF IsLoop, IsTally, n
<1>7. IsTally(Tally(regions, day), regions, day)
  BY <1>6, Zenon DEF Tally
<1>8. 0 \in 0..n /\ \A i \in 1..n : i \in 0..n /\ i # 0
  BY <1>1
<1> QED
  BY <1>7, <1>8 DEF IsTally, n

\* The wanted days of the regions that begin before a day, and of the first of them.
DaysBefore(regions, k, day, wanted) ==
  {x \in wanted : \E j \in 1..k : regions[j].from < day /\ x \in regions[j].from..regions[j].to}

\* The tally of the regions is the number of those days.
LEMMA TallyCounts ==
  ASSUME NEW e, NEW d \in Nat, NEW regions, RegionsOK(regions, d, e), NEW day \in Nat
  PROVE  OnTheBench!WorkedBefore(regions, day) =
           Cardinality(DaysBefore(regions, Len(regions), day, Working[e]))
<1> DEFINE n == Len(regions)
           f == Tally(regions, day)
           Before(k) == DaysBefore(regions, k, day, Working[e])
           Holds == {k \in 0..n : IsFiniteSet(Before(k)) /\ f[k] = Cardinality(Before(k))}
<1>1. n \in Nat /\ regions \in Seq(Span)
  BY DEF RegionsOK
<1>2. ASSUME NEW i \in 1..n
      PROVE  /\ regions[i].from \in Nat /\ regions[i].to \in Nat /\ 1 <= regions[i].from
             /\ regions[i].days = CountIn(regions[i].from - 1, regions[i].to, Working[e])
  <2>1. regions[i] \in Span
    BY <1>1
  <2> QED
    BY <2>1 DEF Span, RegionsOK, Within
<1>3. \A i, j \in 1..n : j < i => regions[j].to < regions[i].from
  <2> SUFFICES ASSUME NEW i \in 1..n, NEW j \in 1..n, j < i PROVE regions[j].to < regions[i].from
    OBVIOUS
  <2>1. PICK x \in (regions[j].to + 1)..(regions[i].from - 1) : ~Free(e, x)
    BY DEF RegionsOK, Apart
  <2> QED
    BY <1>2, <2>1
<1>4. /\ f[0] = 0
      /\ \A i \in 1..n :
           f[i] = IF regions[i].from < day THEN f[i - 1] + regions[i].days ELSE f[i - 1]
  BY <1>1, TallyPasses
<1>5. OnTheBench!WorkedBefore(regions, day) = f[n]
  BY DEF OnTheBench!WorkedBefore, Tally, IsTally
<1> HIDE DEF f
<1>6. 0 \in Holds
  <2>1. Before(0) = {}
    BY DEF DaysBefore
  <2>2. IsFiniteSet({}) /\ Cardinality({}) = 0
    BY FS_EmptySet
  <2> HIDE DEF Before
  <2>3. IsFiniteSet(Before(0)) /\ f[0] = Cardinality(Before(0))
    BY <1>4, <2>1, <2>2
  <2>4. 0 \in 0..n
    BY <1>1
  <2> QED
    BY <2>3, <2>4, Zenon
<1>7. ASSUME NEW k \in (0 + 1)..n, k - 1 \in Holds PROVE k \in Holds
  <2>1. k \in 1..n /\ k \in 0..n /\ k - 1 \in Nat /\ \A j \in 1..k : j = k \/ j \in 1..(k - 1)
    BY <1>1
  <2> DEFINE own == (regions[k].from..regions[k].to) \cap Working[e]
  <2>2. IsFiniteSet(Before(k - 1)) /\ f[k - 1] = Cardinality(Before(k - 1))
    BY <1>7
  <2>3. CASE ~(regions[k].from < day)
    <3>1. Before(k) = Before(k - 1)
      BY <2>1, <2>3 DEF DaysBefore
    <3>2. f[k] = f[k - 1]
      BY <1>4, <2>1, <2>3
    <3> QED
      BY <2>1, <2>2, <3>1, <3>2
  <2>4. CASE regions[k].from < day
    <3>1. Before(k) = Before(k - 1) \cup own
      BY <2>1, <2>4 DEF DaysBefore
    <3>2. Before(k - 1) \cap own = {}
      <4>1. ASSUME NEW x \in own, NEW j \in 1..(k - 1), x \in regions[j].from..regions[j].to
            PROVE  FALSE
        <5>1. j \in 1..n /\ j < k
          BY <2>1
        <5>2. regions[j].to < regions[k].from /\ regions[j].to \in Nat /\ regions[k].from \in Nat
          BY <1>2, <1>3, <2>1, <5>1
        <5> QED
          BY <4>1, <5>2
      <4> QED
        BY <4>1 DEF DaysBefore
    <3>3. IsFiniteSet(own) /\ Cardinality(own) = regions[k].days
      <4>1. (regions[k].from - 1) + 1 = regions[k].from /\ regions[k].to \in Nat /\ regions[k].from \in Nat
        BY <1>2, <2>1
      <4>2. IsFiniteSet(regions[k].from..regions[k].to)
        <5>1. PICK a \in Int, b \in Int : a = regions[k].from /\ b = regions[k].to
          BY <4>1
        <5>2. IsFiniteSet(a..b)
          BY FS_Interval
        <5> QED
          BY <5>1, <5>2
      <4>3. Cardinality(own) = CountIn(regions[k].from - 1, regions[k].to, Working[e])
        BY <4>1 DEF CountIn
      <4> QED
        BY <1>2, <2>1, <4>2, <4>3, FS_Subset
    <3> HIDE DEF own, Before
    <3>4. /\ IsFiniteSet(Before(k - 1) \cup own)
          /\ Cardinality(Before(k - 1) \cup own) =
               Cardinality(Before(k - 1)) + Cardinality(own) - Cardinality(Before(k - 1) \cap own)
      BY <2>2, <3>3, FS_Union
    <3>5. /\ Cardinality(Before(k - 1) \cap own) = 0 /\ Cardinality(Before(k - 1)) \in Nat
          /\ Cardinality(own) \in Nat
      BY <2>2, <3>2, <3>3, FS_EmptySet, FS_CardinalityType
    <3>6. f[k] = f[k - 1] + regions[k].days
      BY <1>4, <2>1, <2>4
    <3>7. Cardinality(Before(k - 1) \cup own) = Cardinality(Before(k - 1)) + Cardinality(own)
      BY <3>4, <3>5
    <3>8. f[k] = Cardinality(Before(k)) /\ IsFiniteSet(Before(k))
      BY <2>2, <3>1, <3>3, <3>4, <3>6, <3>7
    <3> QED
      BY <2>1, <3>8
  <2> QED
    BY <2>3, <2>4
<1> HIDE DEF Holds
<1>8. \A k \in 0..n : k \in Holds
  BY <1>1, <1>6, <1>7, Climbs
<1>9. n \in 0..n
  BY <1>1
<1> QED
  BY <1>5, <1>8, <1>9 DEF Holds

-----------------------------------------------------------------------------
(* Utilization *)

IsUtilizing(f, e) ==
  f = [d \in 0..MaxDay |->
         IF d = 0 THEN 0
         ELSE IF d \in Working[e] THEN f[d - 1] + OnTheBench!Weight(e, d) ELSE f[d - 1]]
Utilizing(e) == CHOOSE f : IsUtilizing(f, e)

\* A day weighs no more than itself, and nothing when it is not covered.
LEMMA WeightIs ==
  ASSUME BenchAssumption, BenchInv, NEW e, NEW d
  PROVE  /\ OnTheBench!Weight(e, d) \in 0..100
         /\ ~OnTheBench!Covered(e, d) => OnTheBench!Weight(e, d) = 0
<1> DEFINE booked == {a \in OnTheBench!ActiveOf(e) : OnTheBench!AssignmentCovers(a, d)}
<1>1. Percent \in Nat /\ Len(assignments) \in Nat
  BY DEF BenchAssumption, BenchInv, BenchType
<1>2. IsFiniteSet(booked)
  <2>1. IsFiniteSet(1..Len(assignments))
    BY <1>1, FS_Interval
  <2>2. booked \subseteq 1..Len(assignments)
    BY DEF OnTheBench!ActiveOf, OnTheBench!Rows
  <2> QED
    BY <2>1, <2>2, FS_Subset
<1>3. ~OnTheBench!Covered(e, d) => booked = {}
  BY DEF OnTheBench!Covered
<1>4. PICK k \in Nat : k = Cardinality(booked) /\ (booked = {} => k = 0)
  BY <1>2, FS_CardinalityType, FS_EmptySet
<1>5. OnTheBench!Weight(e, d) = IF Percent * k > 100 THEN 100 ELSE Percent * k
  BY <1>4 DEF OnTheBench!Weight, OnTheBench!Cardinality, Cardinality
<1> HIDE DEF booked
<1>6. PICK w \in Nat : w = Percent * k /\ (k = 0 => w = 0)
  BY <1>1
<1>7. OnTheBench!Weight(e, d) = IF w > 100 THEN 100 ELSE w
  BY <1>5, <1>6
<1>8. OnTheBench!Weight(e, d) \in 0..100
  BY <1>6, <1>7
<1>9. k = 0 => OnTheBench!Weight(e, d) = 0
  BY <1>6, <1>7
<1> QED
  BY <1>3, <1>4, <1>8, <1>9

\* Utilization is a loop over the days.
LEMMA UtilizingPasses ==
  ASSUME CalendarAssumption, BenchAssumption, BenchInv, NEW e
  PROVE  LET f == Utilizing(e)
         IN /\ f[0] = 0
            /\ \A d \in 1..MaxDay :
                 f[d] = IF d \in Working[e] THEN f[d - 1] + OnTheBench!Weight(e, d) ELSE f[d - 1]
<1> DEFINE step == [x \in Nat \X ((0 + 1)..MaxDay) |->
                      IF x[2] \in Working[e] THEN x[1] + OnTheBench!Weight(e, x[2]) ELSE x[1]]
<1>1. MaxDay \in Nat /\ 0 <= MaxDay /\ 0 \in Nat
  BY DEF CalendarAssumption
<1>2. step \in [Nat \X ((0 + 1)..MaxDay) -> Nat]
  <2>1. ASSUME NEW x \in Nat \X ((0 + 1)..MaxDay)
        PROVE  (IF x[2] \in Working[e] THEN x[1] + OnTheBench!Weight(e, x[2]) ELSE x[1]) \in Nat
    <3>1. x[1] \in Nat
      OBVIOUS
    <3>2. PICK w \in 0..100 : w = OnTheBench!Weight(e, x[2])
      BY WeightIs
    <3>3. PICK y \in Nat : y = x[1]
      BY <3>1
    <3>4. y + w \in Nat
      OBVIOUS
    <3> QED
      BY <3>2, <3>3, <3>4
  <2> QED
    BY <2>1
<1>3. \A y \in Nat, d \in (0 + 1)..MaxDay :
        step[<<y, d>>] = IF d \in Working[e] THEN y + OnTheBench!Weight(e, d) ELSE y
  OBVIOUS
<1> HIDE DEF step
<1>4. PICK f : IsLoop(f, 0, MaxDay, 0, step) /\ Passes(f, 0, MaxDay, Nat, 0, step)
  BY <1>1, <1>2, LoopExists
<1>5. ASSUME NEW d \in 0..MaxDay, d # 0
      PROVE  step[<<f[d - 1], d>>] =
               IF d \in Working[e] THEN f[d - 1] + OnTheBench!Weight(e, d) ELSE f[d - 1]
  <2>1. d \in (0 + 1)..MaxDay /\ d - 1 \in 0..MaxDay
    BY <1>1, <1>5
  <2>2. f[d - 1] \in Nat
    BY <1>4, <2>1 DEF Passes
  <2> QED
    BY <1>3, <2>1, <2>2
<1>6. IsUtilizing(f, e)
  BY <1>4, <1>5 DEF IsLoop, IsUtilizing
<1>7. IsUtilizing(Utilizing(e), e)
  BY <1>6, Zenon DEF Utilizing
<1>8. 0 \in 0..MaxDay /\ \A d \in 1..MaxDay : d \in 0..MaxDay /\ d # 0
  BY <1>1
<1> QED
  BY <1>7, <1>8 DEF IsUtilizing

\* More is not rounded to less.
LEMMA RoundedGrows ==
  ASSUME NEW n \in Nat \ {0}, NEW a \in Nat, NEW b \in Nat, a <= b
  PROVE  OnTheBench!Rounded(a, n) <= OnTheBench!Rounded(b, n)
<1>1. ASSUME NEW m \in Nat \ {0}, NEW x \in Nat, NEW y \in Nat, x <= y PROVE x \div m <= y \div m
  BY <1>1
<1>2. PICK m \in Nat \ {0}, x \in Nat, y \in Nat : m = 2 * n /\ x = 2 * a + n /\ y = 2 * b + n /\ x <= y
  OBVIOUS
<1>3. x \div m <= y \div m
  BY <1>1, <1>2
<1> QED
  BY <1>2, <1>3 DEF OnTheBench!Rounded

\* The days somebody is to work, and of them those that are covered.
AtWork(e) == (1..MaxDay) \cap Working[e]
Taken(e) == {d \in AtWork(e) : OnTheBench!Covered(e, d)}

\* Counting from the first day, one day more counts if it is wanted.
LEMMA TakenOneMore ==
  ASSUME NEW n \in Nat, NEW d \in (0 + 1)..n, NEW wanted
  PROVE  /\ CountIn(0, d - 1, wanted) \in Nat
         /\ CountIn(0, d, wanted) = IF d \in wanted THEN CountIn(0, d - 1, wanted) + 1
                                   ELSE CountIn(0, d - 1, wanted)
<1>1. PICK m \in Nat : m = 0
  OBVIOUS
<1>2. d \in (m + 1)..n
  BY <1>1
<1>3. /\ CountIn(m, d - 1, wanted) \in Nat
      /\ CountIn(m, d, wanted) = IF d \in wanted THEN CountIn(m, d - 1, wanted) + 1
                                ELSE CountIn(m, d - 1, wanted)
  BY <1>2, CountOneMore
<1> QED
  BY <1>1, <1>3

\* What is booked of a day more is at most the day.
LEMMA DayMoreIsBounded ==
  ASSUME NEW g \in Nat, NEW p \in Nat, NEW w \in 0..100, g <= 100 * p
  PROVE  g + w \in Nat /\ g + w <= 100 * (p + 1)
OBVIOUS

\* Over-booking does not make the utilization exceed the share of the days covered.
LEMMA UtilizationIsAShare ==
  ASSUME CalendarAssumption, BenchAssumption, BenchInv, NEW e, AtWork(e) # {}
  PROVE  OnTheBench!UtilizationOf(e) <=
           OnTheBench!Rounded(100 * Cardinality(Taken(e)), Cardinality(AtWork(e)))
<1> DEFINE f == Utilizing(e)
           Count(d) == CountIn(0, d, Taken(e))
           Holds == {d \in 0..MaxDay : f[d] \in Nat /\ Count(d) \in Nat /\ f[d] <= 100 * Count(d)}
<1>1. MaxDay \in Nat
  BY DEF CalendarAssumption
<1>2. /\ f[0] = 0
      /\ \A d \in 1..MaxDay :
           f[d] = IF d \in Working[e] THEN f[d - 1] + OnTheBench!Weight(e, d) ELSE f[d - 1]
  BY UtilizingPasses
<1>3. IsFiniteSet(AtWork(e)) /\ IsFiniteSet(Taken(e))
  <2>1. IsFiniteSet(1..MaxDay)
    BY <1>1, FS_Interval
  <2>2. AtWork(e) \subseteq 1..MaxDay /\ Taken(e) \subseteq 1..MaxDay
    BY DEF AtWork, Taken
  <2> QED
    BY <2>1, <2>2, FS_Subset
<1>4. PICK n \in Nat \ {0} : n = Cardinality(AtWork(e))
  BY <1>3, FS_CardinalityType, FS_EmptySet
<1>5. OnTheBench!UtilizationOf(e) = OnTheBench!Rounded(f[MaxDay], n)
  <2>1. OnTheBench!Cardinality(OnTheBench!Days \cap Working[e]) = n
    BY <1>4 DEF AtWork, OnTheBench!Days, OnTheBench!Cardinality, Cardinality
  <2> QED
    BY <1>4, <2>1 DEF OnTheBench!UtilizationOf, Utilizing, IsUtilizing
<1> HIDE DEF f
<1>6. 0 \in Holds
  <2>1. Count(0) = 0
    BY CountNone
  <2> HIDE DEF Count
  <2> QED
    BY <1>1, <1>2, <2>1
<1>7. ASSUME NEW d \in (0 + 1)..MaxDay, d - 1 \in Holds PROVE d \in Holds
  <2>1. d \in 0..MaxDay /\ d \in 1..MaxDay
    BY <1>1
  <2>2. /\ Count(d) \in Nat /\ Count(d - 1) \in Nat
        /\ Count(d) = IF d \in Taken(e) THEN Count(d - 1) + 1 ELSE Count(d - 1)
    <3>1. /\ Count(d - 1) \in Nat
          /\ Count(d) = IF d \in Taken(e) THEN Count(d - 1) + 1 ELSE Count(d - 1)
      BY <1>1, TakenOneMore
    <3> HIDE DEF Count, Holds
    <3> QED
      BY <3>1
  <2>3. d \in Taken(e) <=> d \in Working[e] /\ OnTheBench!Covered(e, d)
    BY <2>1 DEF Taken, AtWork
  <2>4. f[d - 1] \in Nat /\ f[d - 1] <= 100 * Count(d - 1)
    BY <1>7
  <2>5. f[d] = IF d \in Working[e] THEN f[d - 1] + OnTheBench!Weight(e, d) ELSE f[d - 1]
    BY <1>2, <2>1
  <2>6. /\ OnTheBench!Weight(e, d) \in 0..100
        /\ ~OnTheBench!Covered(e, d) => OnTheBench!Weight(e, d) = 0
    BY WeightIs
  <2> HIDE DEF Count
  <2>7. f[d] \in Nat /\ f[d] <= 100 * Count(d)
    <3>1. PICK w \in 0..100, p \in Nat, g \in Nat :
            w = OnTheBench!Weight(e, d) /\ p = Count(d - 1) /\ g = f[d - 1] /\ g <= 100 * p
      BY <2>2, <2>4, <2>6
    <3>2. CASE d \in Taken(e)
      <4>1. f[d] = g + w /\ Count(d) = p + 1
        BY <2>2, <2>3, <2>5, <3>1, <3>2
      <4>2. g + w \in Nat /\ g + w <= 100 * (p + 1)
        BY <3>1, DayMoreIsBounded
      <4> QED
        BY <4>1, <4>2
    <3>3. CASE d \notin Taken(e)
      <4>1. Count(d) = p
        BY <2>2, <3>1, <3>3
      <4>2. d \in Working[e] => w = 0
        BY <2>3, <2>6, <3>1, <3>3
      <4>3. f[d] = g
        BY <2>5, <3>1, <4>2
      <4> QED
        BY <3>1, <4>1, <4>3
    <3> QED
      BY <3>2, <3>3
  <2> QED
    BY <2>1, <2>2, <2>7
<1> HIDE DEF Holds
<1>8. \A d \in 0..MaxDay : d \in Holds
  BY <1>1, <1>6, <1>7, Climbs
<1>9. f[MaxDay] \in Nat /\ Count(MaxDay) \in Nat /\ f[MaxDay] <= 100 * Count(MaxDay)
  BY <1>1, <1>8 DEF Holds
<1>10. Count(MaxDay) = Cardinality(Taken(e))
  <2>1. ((0 + 1)..MaxDay) \cap Taken(e) = Taken(e)
    BY DEF Taken, AtWork
  <2> QED
    BY <2>1 DEF CountIn
<1> HIDE DEF Count
<1>11. 100 * Count(MaxDay) \in Nat
  BY <1>9
<1>12. OnTheBench!Rounded(f[MaxDay], n) <= OnTheBench!Rounded(100 * Count(MaxDay), n)
  BY <1>9, <1>11, RoundedGrows
<1> QED
  BY <1>4, <1>5, <1>10, <1>12

-----------------------------------------------------------------------------
(* The screens *)

\* What the conjuncts of ScreensAgree say.
RegionsTell(e) ==
  LET regions == OnTheBench!Regions(e)
      bench == OnTheBench!BenchDaysIn(e, 1, MaxDay)
      shownIn(i) == regions[i].from..regions[i].to
      rows == OnTheBench!Rows(regions)
      costed == UNION {shownIn(i) : i \in {j \in rows : regions[j].from < now + CostHorizon}}
  IN /\ bench = (UNION {shownIn(i) : i \in rows}) \cap Working[e]
     /\ OnTheBench!WorkedBefore(regions, MaxDay + 1) = OnTheBench!Cardinality(bench)
     /\ OnTheBench!WorkedBefore(regions, now + CostHorizon)
          = OnTheBench!Cardinality(costed \cap Working[e])
     /\ \A i \in rows : i > 1 =>
          \E d \in (regions[i - 1].to + 1)..(regions[i].from - 1) :
            OnTheBench!Covered(e, d) \/ d \in pitch[e]
PeriodsTell(e) ==
  LET periods == OnTheBench!GroupBench(OnTheBench!DeviceBenchDays(e))
      daysOf(i) == periods[i].from..periods[i].to
      rows == OnTheBench!Rows(periods)
  IN /\ OnTheBench!ChargedDays(e) = UNION {daysOf(i) : i \in rows}
     /\ OnTheBench!BenchDaysIn(e, 1, MaxDay) = OnTheBench!ChargedDays(e) \ pitch[e]
     /\ \A i \in rows : /\ periods[i].days = OnTheBench!Cardinality(daysOf(i))
                        /\ i > 1 => periods[i - 1].to + 1 < periods[i].from

\* The regions hold the bench days, count them, and stay apart.
LEMMA RegionsTellTheBench ==
  ASSUME CalendarAssumption, BenchAssumption, BenchInv, NEW e \in Consultants
  PROVE  RegionsTell(e)
<1> DEFINE regions == OnTheBench!Regions(e)
           n == Len(regions)
           bench == OnTheBench!BenchDaysIn(e, 1, MaxDay)
           until == now + CostHorizon
           costed == UNION {regions[i].from..regions[i].to : i \in {j \in 1..n : regions[j].from < until}}
<1>1. RegionsOK(regions, MaxDay, e)
  BY RegionsAre
<1> HIDE DEF regions
<1>2. MaxDay \in Nat /\ MaxDay + 1 \in Nat /\ until \in Nat /\ Working[e] \subseteq 1..MaxDay
  BY DEF CalendarAssumption, BenchAssumption, BenchInv, BenchType
<1>3. n \in Nat /\ \A i \in 1..n : /\ regions[i].from \in Nat /\ regions[i].to \in Nat
                                   /\ 1 <= regions[i].from /\ regions[i].from <= regions[i].to
                                   /\ regions[i].to <= MaxDay
                                   /\ \A x \in regions[i].from..regions[i].to : Free(e, x)
  <2>1. n \in Nat /\ \A i \in 1..n : regions[i] \in Span
    BY <1>1 DEF RegionsOK
  <2>2. \A i \in 1..n : regions[i].from \in Nat /\ regions[i].to \in Nat
    BY <2>1 DEF Span
  <2> QED
    BY <1>1, <2>1, <2>2 DEF RegionsOK, Within
<1>4. \A x : x \in bench <=> x \in 1..MaxDay /\ x \in Working[e] /\ Free(e, x)
  BY DEF OnTheBench!BenchDaysIn, Free
<1>5. \A x \in 1..MaxDay : Free(e, x) /\ x \in Working[e] =>
        \E i \in 1..n : x \in regions[i].from..regions[i].to
  BY <1>1 DEF RegionsOK, Shown
<1>6. \A x : x \in bench <=> x \in Working[e] /\ \E i \in 1..n : x \in regions[i].from..regions[i].to
  <2>1. ASSUME NEW i \in 1..n, NEW x \in regions[i].from..regions[i].to
        PROVE  x \in 1..MaxDay /\ Free(e, x)
    BY <1>2, <1>3
  <2> QED
    BY <1>4, <1>5, <2>1
<1> HIDE DEF bench
<1>7. bench = (UNION {regions[i].from..regions[i].to : i \in 1..n}) \cap Working[e]
  BY <1>6
<1>8. DaysBefore(regions, n, MaxDay + 1, Working[e]) = bench
  <2>1. \A i \in 1..n : regions[i].from < MaxDay + 1
    BY <1>2, <1>3
  <2> QED
    BY <1>6, <2>1 DEF DaysBefore
<1>9. DaysBefore(regions, n, until, Working[e]) = costed \cap Working[e]
  BY DEF DaysBefore
<1>10. /\ OnTheBench!WorkedBefore(regions, MaxDay + 1) =
            Cardinality(DaysBefore(regions, n, MaxDay + 1, Working[e]))
       /\ OnTheBench!WorkedBefore(regions, until) =
            Cardinality(DaysBefore(regions, n, until, Working[e]))
  BY <1>1, <1>2, TallyCounts
<1>11. ASSUME NEW i \in 1..n, i > 1
       PROVE  \E d \in (regions[i - 1].to + 1)..(regions[i].from - 1) :
                OnTheBench!Covered(e, d) \/ d \in pitch[e]
  <2>1. i - 1 \in 1..n /\ i - 1 < i
    BY <1>3, <1>11
  <2> QED
    BY <1>1, <2>1 DEF RegionsOK, Apart, Free
<1>12. /\ OnTheBench!WorkedBefore(regions, MaxDay + 1) = OnTheBench!Cardinality(bench)
       /\ OnTheBench!WorkedBefore(regions, until) = OnTheBench!Cardinality(costed \cap Working[e])
  BY <1>8, <1>9, <1>10 DEF OnTheBench!Cardinality, Cardinality
<1> QED
  BY <1>7, <1>11, <1>12, Zenon DEF RegionsTell, regions, bench, OnTheBench!Rows

\* A span of days holds the days from the first to the last.
LEMMA SpanHolds ==
  ASSUME NEW a \in Nat, NEW b \in Nat, a <= b
  PROVE  Cardinality(a..b) = b - a + 1
<1>1. Cardinality(a..b) = IF a > b THEN 0 ELSE b - a + 1
  BY FS_Interval
<1> QED
  BY <1>1

\* So do the periods, and the days that are charged for are theirs.
LEMMA PeriodsTellTheBench ==
  ASSUME CalendarAssumption, BenchAssumption, BenchInv, NEW e \in Consultants
  PROVE  PeriodsTell(e)
<1> DEFINE wanted == OnTheBench!DeviceBenchDays(e)
           periods == OnTheBench!GroupBench(wanted)
           n == Len(periods)
           charged == OnTheBench!ChargedDays(e)
<1>1. PeriodsOK(periods, MaxDay, wanted)
  BY PeriodsAre
<1> HIDE DEF periods
<1>2. MaxDay \in Nat /\ Working[e] \subseteq 1..MaxDay
  BY DEF CalendarAssumption, BenchAssumption
<1>3. charged = wanted
  BY DEF OnTheBench!ChargedDays, OnTheBench!DeviceBenchDays, OnTheBench!Covered
<1>4. OnTheBench!BenchDaysIn(e, 1, MaxDay) = charged \ pitch[e]
  BY DEF OnTheBench!ChargedDays, OnTheBench!BenchDaysIn, OnTheBench!Covered, OnTheBench!Days
<1>5. wanted \subseteq 1..MaxDay
  BY DEF OnTheBench!DeviceBenchDays, OnTheBench!Days
<1> HIDE DEF wanted, charged
<1>6. charged = UNION {periods[i].from..periods[i].to : i \in 1..n}
  <2>1. \A i \in 1..n : \A x \in periods[i].from..periods[i].to : x \in wanted
    BY <1>1 DEF PeriodsOK
  <2>2. \A x \in wanted : \E i \in 1..n : x \in periods[i].from..periods[i].to
    BY <1>1, <1>5 DEF PeriodsOK
  <2> QED
    BY <1>3, <2>1, <2>2
<1>7. ASSUME NEW i \in 1..n
      PROVE  /\ periods[i].days = OnTheBench!Cardinality(periods[i].from..periods[i].to)
             /\ i > 1 => periods[i - 1].to + 1 < periods[i].from
  <2>1. periods[i] \in Span
    BY <1>1 DEF PeriodsOK
  <2>2. PICK a \in Nat, b \in Nat : /\ a = periods[i].from /\ b = periods[i].to /\ a <= b
                                    /\ periods[i].days = b - a + 1
    BY <1>1, <2>1 DEF PeriodsOK, Span
  <2>3. Cardinality(a..b) = b - a + 1
    BY <2>2, SpanHolds
  <2> QED
    BY <1>1, <2>2, <2>3 DEF PeriodsOK, OnTheBench!Cardinality, Cardinality
<1> QED
  BY <1>4, <1>6, <1>7, Zenon DEF PeriodsTell, periods, wanted, charged, OnTheBench!Rows

\* The screens and the server agree on the bench.
LEMMA BenchIsShown ==
  CalendarAssumption /\ BenchAssumption /\ BenchInv => OnTheBench!ScreensAgree
<1> SUFFICES ASSUME CalendarAssumption, BenchAssumption, BenchInv, NEW e \in Consultants
             PROVE  /\ RegionsTell(e) /\ PeriodsTell(e)
                    /\ LET working == OnTheBench!Days \cap Working[e]
                       IN working # {} =>
                            OnTheBench!UtilizationOf(e) <=
                              OnTheBench!Rounded(
                                100 * OnTheBench!Cardinality({d \in working : OnTheBench!Covered(e, d)}),
                                OnTheBench!Cardinality(working))
  BY Zenon DEF OnTheBench!ScreensAgree, RegionsTell, PeriodsTell
<1>1. RegionsTell(e) /\ PeriodsTell(e)
  BY RegionsTellTheBench, PeriodsTellTheBench
<1>2. AtWork(e) # {} => OnTheBench!UtilizationOf(e) <=
        OnTheBench!Rounded(100 * Cardinality(Taken(e)), Cardinality(AtWork(e)))
  BY UtilizationIsAShare
<1> QED
  BY <1>1, <1>2 DEF AtWork, Taken, OnTheBench!Days, OnTheBench!Cardinality, Cardinality

-----------------------------------------------------------------------------
(* The days *)

\* The pieces of code that walk the days of a calendar agree on them, the ways a screen, a
\* device and the server compute a bench agree on its days, and one calendar and one pattern
\* is in force while they do.
THEOREM EveryScreenAgrees == WorkforceSpec => []DaysAgree
<1>1. OnTheBench!Init => BenchInv
  BY CalendarAssumption
  DEF CalendarAssumption, OnTheBench!Init, BenchInv, BenchType, OneAlert, OnTheBench!ActiveAlerts, OnTheBench!Rows
<1>2. WorkforceSpec => []BenchInv
  BY <1>1, BenchStep, WorkforceIsItsParts, PTL DEF OnTheBench!Spec
<1>3. CalendarInv /\ BenchInv /\ Calendar!OneInForce => DaysAgree
  BY CalendarCounts, BenchIsShown, CalendarAssumption, BenchAssumption DEF DaysAgree
<1> QED
  BY <1>2, <1>3, CalendarInvHolds, CalendarIsOne, PTL
=============================================================================
