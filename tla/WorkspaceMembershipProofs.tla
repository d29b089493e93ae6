--------------------- MODULE WorkspaceMembershipProofs ---------------------
(***************************************************************************)
(* Proofs about the people of a workspace.  WorkspaceMembership: for any   *)
(* number of people, rows and overlapping calls, a revoked membership      *)
(* stays revoked.  What carries it is the lock on the member row: what a   *)
(* transaction found there when it began is still there when it commits.   *)
(* People: for any number of employees, entities and ghosts, the edges of  *)
(* an employee follow each other and a ghost is promoted at most once.     *)
(* What carries it is that an edge is closed only while it is the open     *)
(* one, though it was read before.  MCWorkspaceMembership: both.           *)
(***************************************************************************)
EXTENDS MCWorkspaceMembership, Sequences, FiniteSetTheorems, TLAPS

USE WorkspaceMembershipAssumption, PeopleAssumption

\* The call's transaction has written, and so locked, its member row.
Holds(c) == InTransaction(c) /\ Op(c) # "create row"

\* The row of a transaction in progress is as its first write found it.
FoundStays == \A c \in Calls : Holds(c) => status[Target(c)] \in ProceedsFrom(Op(c))

\* No two transactions hold one row.
OneHolder == \A b, c \in Calls : Holds(b) /\ Holds(c) /\ Target(b) = Target(c) => b = c

\* A call that writes a row names it.
RowNamed == \A c \in Calls : call[c].step # "idle" /\ Op(c) = "create row" => call[c].row \in Rows

IInv == TypeOK /\ RowNamed /\ FoundStays /\ OneHolder

-----------------------------------------------------------------------------
(* Calls *)

\* A call that is somewhere else than idle has its parts.
LEMMA CallTypes ==
  ASSUME TypeOK, NEW c \in Calls, NEW step \in Steps, At(c, step)
  PROVE  call[c] \in CallStates /\ Op(c) \in Operations /\ Target(c) \in Users
<1>1. call[c] \in CallStates
  BY DEF TypeOK, At, NoCall, Steps
<1> QED
  BY <1>1 DEF CallStates, Op, Target

\* A step of a call changes where it is and nothing else of it.
LEMMA StepKept ==
  ASSUME NEW x \in CallStates, NEW step \in Steps
  PROVE  LET y == [x EXCEPT !.step = step]
         IN  y \in CallStates /\ y.step = step /\ y.op = x.op /\ y.target = x.target
             /\ y.row = x.row
  BY DEF CallStates

\* What a call does next leaves the others' locks alone; it keeps or drops its own.
LEMMA MovesCall ==
  ASSUME TypeOK, NEW c \in Calls, call[c] \in CallStates, NEW step \in Steps, Moves(c, step)
  PROVE  /\ call' \in [Calls -> CallStates \cup {NoCall}]
         /\ \A b \in Calls \ {c} : call'[b] = call[b]
         /\ call'[c].step = step /\ call'[c].op = call[c].op /\ call'[c].target = call[c].target
         /\ call'[c].row = call[c].row
<1>1. call' = [call EXCEPT ![c] = [call[c] EXCEPT !.step = step]]
  BY DEF Moves
<1>2. [call[c] EXCEPT !.step = step] \in CallStates
  BY StepKept
<1>3. call'[c] = [call[c] EXCEPT !.step = step]
  BY <1>1 DEF TypeOK
<1> QED
  BY <1>1, <1>2, <1>3, StepKept DEF TypeOK

LEMMA ReturnsCall ==
  ASSUME TypeOK, NEW c \in Calls, Returns(c)
  PROVE  /\ call' \in [Calls -> CallStates \cup {NoCall}]
         /\ \A b \in Calls \ {c} : call'[b] = call[b]
         /\ call'[c].step = "idle"
  BY DEF TypeOK, Returns, NoCall

\* A step that changes no member row and takes no lock keeps what is held.
LEMMA NothingTaken ==
  ASSUME IInv, NEW c \in Calls, status' = status,
         \A b \in Calls \ {c} : call'[b] = call[b],
         \/ call'[c].step \notin {"recompute", "commit"}
         \/ Holds(c) /\ call'[c].op = call[c].op /\ call'[c].target = call[c].target
         \/ call'[c].op = "create row"
  PROVE  FoundStays' /\ OneHolder'
<1>1. \A b \in Calls : Holds(b)' => Holds(b) /\ Op(b)' = Op(b) /\ Target(b)' = Target(b)
  BY DEF Holds, InTransaction, Op, Target
<1>2. FoundStays'
  BY <1>1 DEF IInv, FoundStays, ProceedsFrom
<1>3. OneHolder'
  BY <1>1 DEF IInv, OneHolder
<1> QED
  BY <1>2, <1>3

-----------------------------------------------------------------------------
(* The inductive invariant *)

\* A call that stays what it was, or ends, keeps the row it names.
LEMMA RowKept ==
  ASSUME RowNamed, NEW c \in Calls, \A b \in Calls \ {c} : call'[b] = call[b],
         \/ call'[c].step = "idle"
         \/ call'[c].op = "create row" => call'[c].row \in Rows
         \/ /\ call[c].step # "idle"
            /\ call'[c].op = call[c].op /\ call'[c].row = call[c].row
  PROVE  RowNamed'
  BY DEF RowNamed, Op, Rows

LEMMA InitIInv == Init => IInv
<1> SUFFICES ASSUME Init PROVE IInv
  OBVIOUS
<1> DEFINE first == [op |-> "confirm", step |-> "begin", actor |-> Founder, target |-> Founder,
                     asOwner |-> TRUE, row |-> NoRow, want |-> {}]
<1>1. first \in CallStates
  BY DEF CallStates, Operations, Steps
<1>2. \A c \in Calls : call[c] = first \/ call[c] = NoCall
  BY DEF Init
<1>3. call \in [Calls -> CallStates \cup {NoCall}]
  BY <1>1 DEF Init
<1>4. \A c \in Calls : ~InTransaction(c)
  BY <1>2 DEF InTransaction, NoCall
<1>5. made \in 0..MaxCalls
  BY DEF Init
<1>6. TypeOK
  BY <1>3, <1>5 DEF Init, TypeOK, Statuses
<1>7. NoCall.step = "idle" /\ first.op # "create row"
  BY DEF NoCall
<1> HIDE DEF first
<1>8. RowNamed
  BY <1>2, <1>7 DEF RowNamed, Op
<1> QED
  BY <1>4, <1>6, <1>8 DEF IInv, FoundStays, OneHolder, Holds

LEMMA RequestIInv ==
  ASSUME IInv, NEW c \in Calls, NEW op \in Operations, NEW actor \in Users, NEW target \in Users,
         NEW asOwner \in BOOLEAN, NEW r \in Rows \cup {NoRow},
         Request(c, op, actor, target, asOwner, r)
  PROVE  IInv'
<1> DEFINE new == [op |-> op, step |-> FirstStep(op), actor |-> actor, target |-> target,
                   asOwner |-> asOwner, row |-> r, want |-> {}]
<1>1. new \in CallStates /\ new.step \notin {"recompute", "commit"}
  BY DEF CallStates, FirstStep, Steps
<1>2. call' = [call EXCEPT ![c] = new]
  BY DEF Request
<1>3. call' \in [Calls -> CallStates \cup {NoCall}] /\ call'[c] = new
      /\ \A b \in Calls \ {c} : call'[b] = call[b]
  BY <1>1, <1>2 DEF IInv, TypeOK
<1>4. made' \in 0..MaxCalls
  <2>1. made < MaxCalls /\ made' = made + 1
    BY Zenon DEF Request
  <2>2. made \in 0..MaxCalls
    BY DEF IInv, TypeOK
  <2> QED
    BY <2>1, <2>2
<1>5. TypeOK'
  <2>1. crossed' \subseteq Calls
    BY DEF Request
  <2>2. /\ status' = status /\ owner' = owner /\ rows' = rows /\ audience' = audience
        /\ unsettled' = unsettled
    BY DEF Request
  <2> QED
    BY <1>3, <1>4, <2>1, <2>2 DEF IInv, TypeOK
<1>6. status' = status
  BY DEF Request
<1>7. FoundStays' /\ OneHolder'
  BY <1>1, <1>3, <1>6, NothingTaken
<1>8. op = "create row" => r \in Rows
  BY DEF Request
<1>9. RowNamed'
  <2>1. new.op = op /\ new.row = r
    OBVIOUS
  <2> HIDE DEF new
  <2>2. call'[c].op = "create row" => call'[c].row \in Rows
    BY <1>3, <1>8, <2>1
  <2> QED
    BY <1>3, <2>2, RowKept DEF IInv
<1> QED
  BY <1>5, <1>7, <1>9 DEF IInv

\* The checks before the transaction only move the call on or end it.
LEMMA ChecksIInv ==
  ASSUME IInv, NEW c \in Calls, CheckActor(c) \/ CheckTarget(c) \/ CheckCap(c)
  PROVE  IInv'
<1>1. call[c] \in CallStates
  BY CallTypes DEF IInv, CheckActor, CheckTarget, CheckCap, Steps
<1>2. /\ Returns(c) \/ \E step \in {"target", "owners", "begin"} : Moves(c, step)
      /\ Reads
  BY DEF CheckActor, CheckTarget, CheckCap
<1>3. /\ call' \in [Calls -> CallStates \cup {NoCall}]
      /\ \A b \in Calls \ {c} : call'[b] = call[b]
      /\ call'[c].step \notin {"recompute", "commit"}
      /\ \/ call'[c].step = "idle"
         \/ call'[c].op = call[c].op /\ call'[c].row = call[c].row
  BY <1>1, <1>2, MovesCall, ReturnsCall DEF IInv, Steps
<1>4. TypeOK'
  BY <1>2, <1>3 DEF IInv, TypeOK, Reads
<1>5. FoundStays' /\ OneHolder'
  BY <1>2, <1>3, NothingTaken DEF Reads
<1>6. call[c].step # "idle"
  BY DEF CheckActor, CheckTarget, CheckCap, At
<1>7. RowNamed'
  BY <1>3, <1>6, RowKept DEF IInv
<1> QED
  BY <1>4, <1>5, <1>7 DEF IInv

\* The lock is taken only while nobody has it, on a row in the state asked for.
LEMMA BeginMemberIInv ==
  ASSUME IInv, NEW c \in Calls, BeginMember(c)
  PROVE  IInv'
<1>1. call[c] \in CallStates
  BY CallTypes DEF IInv, BeginMember, Steps
<1>2. CASE Returns(c)
  <2>1. /\ call' \in [Calls -> CallStates \cup {NoCall}]
        /\ \A b \in Calls \ {c} : call'[b] = call[b]
        /\ call'[c].step = "idle"
    BY <1>2, ReturnsCall DEF IInv
  <2>2. TypeOK' /\ status' = status
    BY <2>1 DEF IInv, TypeOK, Reads, BeginMember
  <2>3. RowNamed'
    BY <2>1, RowKept DEF IInv
  <2> QED
    BY <2>1, <2>2, <2>3, NothingTaken DEF IInv
<1>3. CASE status[Target(c)] \in ProceedsFrom(Op(c)) /\ Moves(c, "recompute")
  <2>1. /\ call' \in [Calls -> CallStates \cup {NoCall}]
        /\ \A b \in Calls \ {c} : call'[b] = call[b]
        /\ call'[c].step = "recompute" /\ call'[c].op = call[c].op
        /\ call'[c].target = call[c].target /\ call'[c].row = call[c].row
    BY <1>1, <1>3, MovesCall DEF IInv, Steps
  <2>2. TypeOK' /\ status' = status
    BY <2>1 DEF IInv, TypeOK, Reads, BeginMember
  <2>3. \A b \in Calls : Op(b)' = Op(b) /\ Target(b)' = Target(b)
    BY <2>1 DEF Op, Target
  <2>4. \A b \in Calls \ {c} : Holds(b)' => Holds(b)
    BY <2>1 DEF Holds, InTransaction, Op
  <2>5. \A b \in Calls : Holds(b) => Target(b) # Target(c)
    BY DEF BeginMember, Unlocked, Holds
  <2>6. FoundStays'
    <3> SUFFICES ASSUME NEW b \in Calls, Holds(b)'
                 PROVE  status'[Target(b)'] \in ProceedsFrom(Op(b)')
      BY DEF FoundStays, ProceedsFrom
    <3> QED
      BY <1>3, <2>2, <2>3, <2>4 DEF IInv, FoundStays
  <2>7. OneHolder'
    BY <2>3, <2>4, <2>5 DEF IInv, OneHolder
  <2>8. RowNamed'
    BY <2>1, RowKept DEF IInv, BeginMember, At
  <2> QED
    BY <2>2, <2>6, <2>7, <2>8 DEF IInv
<1> QED
  BY <1>2, <1>3 DEF BeginMember

LEMMA BeginRowIInv ==
  ASSUME IInv, NEW c \in Calls, BeginRow(c)
  PROVE  IInv'
<1>1. call[c] \in CallStates /\ call[c].op = "create row"
  BY CallTypes DEF IInv, BeginRow, Steps, Op
<1>2. (Returns(c) \/ Moves(c, "recompute")) /\ Reads
  BY DEF BeginRow
<1>3. /\ call' \in [Calls -> CallStates \cup {NoCall}]
      /\ \A b \in Calls \ {c} : call'[b] = call[b]
      /\ \/ call'[c].step = "idle"
         \/ call'[c].op = "create row" /\ call'[c].row = call[c].row
  BY <1>1, <1>2, MovesCall, ReturnsCall DEF IInv, Steps
<1>4. TypeOK'
  BY <1>2, <1>3 DEF IInv, TypeOK, Reads
<1>5. FoundStays' /\ OneHolder'
  BY <1>2, <1>3, NothingTaken, ReturnsCall DEF Reads
<1>6. call[c].step # "idle"
  BY DEF BeginRow, At
<1>7. RowNamed'
  BY <1>1, <1>3, <1>6, RowKept DEF IInv
<1> QED
  BY <1>4, <1>5, <1>7 DEF IInv

LEMMA RecomputeIInv ==
  ASSUME IInv, NEW c \in Calls, Recompute(c)
  PROVE  IInv'
<1>1. call[c] \in CallStates
  BY CallTypes DEF IInv, Recompute, Steps
<1> DEFINE seen == IF Op(c) = "create row" THEN {call[c].row} ELSE rows
           want == Readable(MembersSeen(c), OwnersSeen(c), seen)
           new == [call[c] EXCEPT !.step = "commit", !.want = want]
<1>2. call' = [call EXCEPT ![c] = new] /\ Reads
  BY DEF Recompute
<1>3. call'[c] = new
  BY <1>2 DEF IInv, TypeOK
<1>4. \A b \in Calls \ {c} : call'[b] = call[b]
  BY <1>2 DEF IInv, TypeOK
<1>5. new.op = call[c].op /\ new.target = call[c].target /\ new.row = call[c].row
  BY <1>1 DEF CallStates
<1>6. FoundStays' /\ OneHolder'
  <2>1. Holds(c) \/ new.op = "create row"
    BY <1>5 DEF Recompute, At, Holds, InTransaction, Op
  <2> QED
    BY <1>2, <1>3, <1>4, <1>5, <2>1, NothingTaken DEF Reads
<1>7. call[c].step # "idle"
  BY DEF Recompute, At
<1>8. RowNamed'
  BY <1>3, <1>4, <1>5, <1>7, RowKept DEF IInv
<1>9. want \in SUBSET (Users \X Rows)
  <2>1. seen \subseteq Rows
    BY <1>7 DEF IInv, TypeOK, RowNamed
  <2>2. MembersSeen(c) \subseteq Users
    BY DEF MembersSeen
  <2> QED
    BY <2>1, <2>2 DEF Readable
<1>10. new \in CallStates
  BY <1>1, <1>9 DEF CallStates, Steps
<1>11. TypeOK'
  BY <1>2, <1>10 DEF IInv, TypeOK, Reads
<1> QED
  BY <1>6, <1>8, <1>11 DEF IInv

\* A commit writes its own row, which nobody else holds.
LEMMA CommitIInv ==
  ASSUME IInv, NEW c \in Calls, Commit(c)
  PROVE  IInv'
<1>1. call[c] \in CallStates /\ Op(c) \in Operations /\ Target(c) \in Users
  BY CallTypes DEF IInv, Commit, Steps
<1>2. /\ call' \in [Calls -> CallStates \cup {NoCall}]
      /\ \A b \in Calls \ {c} : call'[b] = call[b]
      /\ call'[c].step = "idle"
  BY ReturnsCall DEF IInv, Commit
<1>3. RowNamed'
  BY <1>2, RowKept DEF IInv
<1>4. status' \in [Users -> Statuses]
  BY <1>1 DEF IInv, TypeOK, Commit, Statuses
<1>5. owner' \subseteq Users
  BY <1>1 DEF IInv, TypeOK, Commit, OwnersSeen
<1>6. Op(c) = "create row" => call[c].row \in Rows
  BY DEF IInv, RowNamed, Commit, At
<1>7. rows' \subseteq Rows
  BY <1>6 DEF IInv, TypeOK, Commit, RowsAfter
<1>8. audience' \subseteq Users \X Rows
  BY <1>6 DEF IInv, TypeOK, Commit, Scope
<1>9. unsettled' \in BOOLEAN /\ made' \in 0..MaxCalls /\ crossed' \subseteq Calls
  BY DEF IInv, TypeOK, Commit
<1>10. TypeOK'
  BY <1>2, <1>4, <1>5, <1>7, <1>8, <1>9 DEF TypeOK
<1>11. \A b \in Calls : Holds(b)' => Holds(b) /\ b # c /\ Op(b)' = Op(b) /\ Target(b)' = Target(b)
  BY <1>2 DEF Holds, InTransaction, Op, Target
<1>12. OneHolder'
  BY <1>11 DEF IInv, OneHolder
<1>13. FoundStays'
  <2> SUFFICES ASSUME NEW b \in Calls, Holds(b)'
               PROVE  status'[Target(b)] \in ProceedsFrom(Op(b))
    BY <1>11 DEF FoundStays, ProceedsFrom
  <2>1. status[Target(b)] \in ProceedsFrom(Op(b))
    BY <1>11 DEF IInv, FoundStays
  <2>2. CASE Op(c) = "create row"
    <3>1. status'[Target(b)] = status[Target(b)]
      BY <2>2, <1>1 DEF Commit, IInv, TypeOK
    <3> QED
      BY <2>1, <3>1
  <2>3. CASE Op(c) # "create row"
    <3>1. Target(b) # Target(c)
      BY <2>3, <1>11 DEF IInv, OneHolder, Holds, Commit, InTransaction, At
    <3>2. Target(b) \in Users
      BY <1>11, CallTypes DEF IInv, Holds, InTransaction, At, Steps
    <3>3. status'[Target(b)] = status[Target(b)]
      BY <3>1, <3>2, <1>1 DEF Commit, IInv, TypeOK
    <3> QED
      BY <2>1, <3>3
  <2> QED
    BY <2>2, <2>3
<1> QED
  BY <1>3, <1>10, <1>12, <1>13 DEF IInv

LEMMA CrashIInv ==
  ASSUME IInv, NEW c \in Calls, Crash(c)
  PROVE  IInv'
<1>1. /\ call' \in [Calls -> CallStates \cup {NoCall}]
      /\ \A b \in Calls \ {c} : call'[b] = call[b]
      /\ call'[c].step = "idle"
  BY ReturnsCall DEF IInv, Crash
<1>2. TypeOK' /\ RowNamed'
  BY <1>1, RowKept DEF IInv, TypeOK, Crash, Reads
<1>3. FoundStays' /\ OneHolder'
  BY <1>1, NothingTaken DEF Crash, Reads
<1> QED
  BY <1>2, <1>3 DEF IInv

LEMMA NextIInv == IInv /\ [Next]_vars => IInv'
<1> SUFFICES ASSUME IInv, [Next]_vars PROVE IInv'
  OBVIOUS
<1>1. CASE UNCHANGED vars
  BY <1>1 DEF IInv, TypeOK, RowNamed, FoundStays, OneHolder, Holds, InTransaction, Op, Target, vars
<1>2. ASSUME NEW c \in Calls,
             \/ CheckActor(c) \/ CheckTarget(c) \/ CheckCap(c)
             \/ BeginMember(c) \/ BeginRow(c) \/ Recompute(c) \/ Commit(c) \/ Crash(c)
      PROVE  IInv'
  BY <1>2, ChecksIInv, BeginMemberIInv, BeginRowIInv, RecomputeIInv, CommitIInv, CrashIInv
<1> QED
  BY <1>1, <1>2, RequestIInv DEF Next

-----------------------------------------------------------------------------
(* A call nobody crossed *)

InProgress(c) == call[c].step # "idle"
Alone(c) == InProgress(c) /\ c \notin crossed

\* A call that is in progress and was not crossed is the only one.
AloneIsAlone == \A c \in Calls : Alone(c) => \A b \in Calls \ {c} : ~InProgress(b)

\* What it found is so until it commits: the members and rows of its recompute,
Wants(c) ==
  Readable(MembersSeen(c), OwnersSeen(c), IF Op(c) = "create row" THEN {call[c].row} ELSE rows)
WantsCurrent(c) == At(c, "commit") => call[c].want = Wants(c)

\* and the room for the Owner it makes.
Promotes(c) == Op(c) = "change" /\ call[c].asOwner /\ Target(c) \notin owner
HasRoom(c) ==
  call[c].step \in {"begin", "recompute", "commit"} /\ Promotes(c) => RoomForAnOwner

FoundHolds == \A c \in Calls : Alone(c) => WantsCurrent(c) /\ HasRoom(c)
NoOwnerAdmitted == \A c \in Calls : InProgress(c) /\ Op(c) = "admit" => ~call[c].asOwner

Members == {u \in Users : Active(u)}
AudienceSettled == ~unsettled => audience = Readable(Members, owner, rows)

\* The inductive invariant of the calls nobody crosses.
AInv ==
  IsFiniteSet(owner) /\ AloneIsAlone /\ FoundHolds /\ NoOwnerAdmitted /\ AudienceSettled

\* Who reads what, pair by pair.
LEMMA ReadablePairs ==
  ASSUME NEW M \in SUBSET Users, NEW O, NEW R \in SUBSET Rows
  PROVE  /\ Readable(M, O, R) \subseteq Users \X Rows
         /\ \A u \in Users, r \in Rows :
              <<u, r>> \in Readable(M, O, R) <=> u \in M /\ r \in R /\ MayRead(u \in O, r)
  BY DEF Readable

\* Two relations with the same pairs are one.
LEMMA SamePairs ==
  ASSUME NEW A \in SUBSET (Users \X Rows), NEW B \in SUBSET (Users \X Rows),
         \A u \in Users, r \in Rows : <<u, r>> \in A <=> <<u, r>> \in B
  PROVE  A = B
  OBVIOUS

\* While a call acts no other one is alone.
LEMMA OnlyTheActor ==
  ASSUME AloneIsAlone, NEW c \in Calls, InProgress(c), crossed' = crossed,
         \A b \in Calls \ {c} : call'[b] = call[b]
  PROVE  AloneIsAlone' /\ \A b \in Calls : Alone(b)' => b = c /\ Alone(c)
<1>1. ASSUME NEW b \in Calls, Alone(b)' PROVE b = c /\ Alone(c)
  BY <1>1 DEF AloneIsAlone, Alone, InProgress
<1>2. AloneIsAlone'
  BY <1>1 DEF AloneIsAlone, Alone, InProgress
<1> QED
  BY <1>1, <1>2

\* A step of a call that commits nothing: it ends, or goes on as it was.
LEMMA MovesAInv ==
  ASSUME IInv, AInv, NEW c \in Calls, InProgress(c), Reads,
         \A b \in Calls \ {c} : call'[b] = call[b],
         \/ call'[c].step = "idle"
         \/ /\ call'[c].op = call[c].op /\ call'[c].target = call[c].target
            /\ call'[c].asOwner = call[c].asOwner
            /\ Alone(c) => (WantsCurrent(c) /\ HasRoom(c))'
  PROVE  AInv'
<1>1. AloneIsAlone' /\ \A b \in Calls : Alone(b)' => b = c /\ Alone(c)
  BY OnlyTheActor DEF AInv, Reads
<1>2. FoundHolds'
  BY <1>1 DEF FoundHolds, Alone, InProgress
<1>3. NoOwnerAdmitted'
  BY DEF AInv, NoOwnerAdmitted, InProgress, Op
<1>4. AudienceSettled' /\ IsFiniteSet(owner')
  BY DEF AInv, AudienceSettled, Members, Active, Readable, MayRead, Reads
<1> QED
  BY <1>1, <1>2, <1>3, <1>4 DEF AInv

\* A step of a call keeps who it is about.
LEMMA StepKeepsRole ==
  ASSUME NEW x \in CallStates, NEW step \in Steps
  PROVE  LET y == [x EXCEPT !.step = step]
         IN  y.asOwner = x.asOwner /\ y.want = x.want
  BY DEF CallStates

LEMMA MovesRole ==
  ASSUME TypeOK, NEW c \in Calls, call[c] \in CallStates, NEW step \in Steps, Moves(c, step)
  PROVE  call'[c].asOwner = call[c].asOwner
<1>1. call'[c] = [call[c] EXCEPT !.step = step]
  BY DEF Moves, TypeOK
<1> QED
  BY <1>1, StepKeepsRole

LEMMA InitAInv == Init => AInv
<1> SUFFICES ASSUME Init PROVE AInv
  OBVIOUS
<1> DEFINE first == [op |-> "confirm", step |-> "begin", actor |-> Founder, target |-> Founder,
                     asOwner |-> TRUE, row |-> NoRow, want |-> {}]
<1>1. PICK c \in Calls : call = [b \in Calls |-> IF b = c THEN first ELSE NoCall]
  BY DEF Init
<1>2. NoCall.step = "idle" /\ first.op = "confirm" /\ first.step = "begin"
  BY DEF NoCall
<1> HIDE DEF first
<1>3. /\ call[c].op = "confirm" /\ call[c].step = "begin"
      /\ \A b \in Calls \ {c} : call[b].step = "idle"
  BY <1>1, <1>2
<1>4. AloneIsAlone /\ FoundHolds /\ NoOwnerAdmitted
  BY <1>3 DEF AloneIsAlone, FoundHolds, NoOwnerAdmitted, Alone, InProgress, WantsCurrent, HasRoom,
              Promotes, Op, At
<1>5. IsFiniteSet(owner)
  BY FS_Singleton DEF Init
<1>6. AudienceSettled
  BY DEF Init, AudienceSettled, Readable, Members, Active
<1> QED
  BY <1>4, <1>5, <1>6 DEF AInv

LEMMA RequestAInv ==
  ASSUME IInv, AInv, NEW c \in Calls, NEW op \in Operations, NEW actor \in Users,
         NEW target \in Users, NEW asOwner \in BOOLEAN, NEW r \in Rows \cup {NoRow},
         Request(c, op, actor, target, asOwner, r)
  PROVE  AInv'
<1> DEFINE new == [op |-> op, step |-> FirstStep(op), actor |-> actor, target |-> target,
                   asOwner |-> asOwner, row |-> r, want |-> {}]
           busy == {b \in Calls : call[b] # NoCall}
<1>1. /\ new.op = op /\ new.step = FirstStep(op) /\ new.asOwner = asOwner
      /\ FirstStep(op) \in {"actor", "begin"} /\ (FirstStep(op) = "begin" => op # "change")
  BY DEF FirstStep
<1>2. call' = [call EXCEPT ![c] = new]
  BY DEF Request
<1>3. call'[c] = new /\ \A b \in Calls \ {c} : call'[b] = call[b]
  BY <1>2 DEF IInv, TypeOK
<1>4. crossed' = IF busy = {} THEN {} ELSE busy \cup {c}
  BY DEF Request
<1>5. \A b \in Calls : InProgress(b) => b \in busy
  BY DEF InProgress, NoCall
<1> HIDE DEF new, busy
<1>6. \A b \in Calls : Alone(b)' => b = c /\ busy = {}
  BY <1>3, <1>4, <1>5 DEF Alone, InProgress
<1>7. AloneIsAlone'
  BY <1>3, <1>5, <1>6 DEF AloneIsAlone, InProgress
<1>8. FoundHolds'
  <2>1. ~At(c, "commit")'
    BY <1>1, <1>3 DEF At
  <2>2. call'[c].step \in {"begin", "recompute", "commit"} => call'[c].op # "change"
    BY <1>1, <1>3
  <2>3. WantsCurrent(c)' /\ HasRoom(c)'
    BY <2>1, <2>2 DEF WantsCurrent, HasRoom, Promotes, Op
  <2> QED
    BY <1>6, <2>3 DEF FoundHolds
<1>9. NoOwnerAdmitted'
  <2>1. op = "admit" => ~asOwner
    BY DEF Request
  <2> QED
    BY <1>1, <1>3, <2>1 DEF AInv, NoOwnerAdmitted, InProgress, Op
<1>10. AudienceSettled' /\ IsFiniteSet(owner')
  BY DEF AInv, AudienceSettled, Members, Active, Readable, MayRead, Request
<1> QED
  BY <1>7, <1>8, <1>9, <1>10 DEF AInv

\* A promotion reaches its transaction past the cap check only.
LEMMA ChecksAInv ==
  ASSUME IInv, AInv, NEW c \in Calls, CheckActor(c) \/ CheckTarget(c) \/ CheckCap(c)
  PROVE  AInv'
<1>1. call[c] \in CallStates
  BY CallTypes DEF IInv, CheckActor, CheckTarget, CheckCap, Steps
<1>2. InProgress(c) /\ Reads
  BY DEF CheckActor, CheckTarget, CheckCap, At, InProgress
<1>3. CASE Returns(c)
  BY <1>2, <1>3, ReturnsCall, MovesAInv DEF IInv
<1>4. ASSUME NEW step \in {"target", "owners", "begin"}, Moves(c, step),
             step = "begin" => ~Promotes(c) \/ RoomForAnOwner
      PROVE  AInv'
  <2>1. /\ \A b \in Calls \ {c} : call'[b] = call[b]
        /\ call'[c].step = step /\ call'[c].op = call[c].op /\ call'[c].target = call[c].target
        /\ call'[c].asOwner = call[c].asOwner
    BY <1>1, <1>4, MovesCall, MovesRole DEF IInv, Steps
  <2>2. WantsCurrent(c)'
    BY <2>1 DEF WantsCurrent, At
  <2>3. HasRoom(c)'
    BY <1>2, <1>4, <2>1
       DEF HasRoom, Promotes, RoomForAnOwner, Op, Target, Reads, Active
  <2> QED
    BY <1>2, <2>1, <2>2, <2>3, MovesAInv
<1>5. CheckActor(c) => Returns(c) \/ Moves(c, "target")
  BY DEF CheckActor
<1>6. CheckCap(c) => Returns(c) \/ (Moves(c, "begin") /\ RoomForAnOwner)
  BY DEF CheckCap
<1>7. CheckTarget(c) =>
        Returns(c) \/ Moves(c, "owners") \/ (Moves(c, "begin") /\ ~Promotes(c))
  BY DEF CheckTarget, Promotes
<1> QED
  BY <1>3, <1>4, <1>5, <1>6, <1>7

LEMMA BeginAInv ==
  ASSUME IInv, AInv, NEW c \in Calls, BeginMember(c) \/ BeginRow(c)
  PROVE  AInv'
<1>1. call[c] \in CallStates
  BY CallTypes DEF IInv, BeginMember, BeginRow, Steps
<1>2. InProgress(c) /\ Reads /\ At(c, "begin")
  BY DEF BeginMember, BeginRow, At, InProgress
<1>3. CASE Returns(c)
  BY <1>2, <1>3, ReturnsCall, MovesAInv DEF IInv
<1>4. CASE Moves(c, "recompute")
  <2>1. /\ \A b \in Calls \ {c} : call'[b] = call[b]
        /\ call'[c].step = "recompute" /\ call'[c].op = call[c].op
        /\ call'[c].target = call[c].target /\ call'[c].asOwner = call[c].asOwner
    BY <1>1, <1>4, MovesCall, MovesRole DEF IInv, Steps
  <2>2. WantsCurrent(c)'
    BY <2>1 DEF WantsCurrent, At
  <2>3. ASSUME Alone(c) PROVE HasRoom(c)'
    <3>1. HasRoom(c)
      BY <2>3 DEF AInv, FoundHolds
    <3> QED
      BY <1>2, <2>1, <3>1 DEF HasRoom, Promotes, RoomForAnOwner, Op, Target, Reads, Active, At
  <2> QED
    BY <1>2, <2>1, <2>2, <2>3, MovesAInv
<1> QED
  BY <1>3, <1>4 DEF BeginMember, BeginRow

\* The recompute wants what the committed state, with the call's own write, says.
LEMMA RecomputeAInv ==
  ASSUME IInv, AInv, NEW c \in Calls, Recompute(c)
  PROVE  AInv'
<1>1. call[c] \in CallStates
  BY CallTypes DEF IInv, Recompute, Steps
<1> DEFINE new == [call[c] EXCEPT !.step = "commit", !.want = Wants(c)]
<1>2. call' = [call EXCEPT ![c] = new] /\ Reads /\ InProgress(c) /\ At(c, "recompute")
  BY DEF Recompute, Wants, InProgress, At
<1>3. call'[c] = new /\ \A b \in Calls \ {c} : call'[b] = call[b]
  BY <1>2 DEF IInv, TypeOK
<1>4. /\ new.op = call[c].op /\ new.target = call[c].target /\ new.row = call[c].row
      /\ new.asOwner = call[c].asOwner /\ new.want = Wants(c)
  BY <1>1 DEF CallStates
<1> HIDE DEF new
<1>5. Wants(c)' = Wants(c)
  BY <1>2, <1>3, <1>4
     DEF Wants, Readable, MembersSeen, OwnersSeen, MayRead, Active, Op, Target, Reads
<1>6. WantsCurrent(c)'
  BY <1>3, <1>4, <1>5 DEF WantsCurrent
<1>7. ASSUME Alone(c) PROVE HasRoom(c)'
  <2>1. HasRoom(c)
    BY <1>7 DEF AInv, FoundHolds
  <2> QED
    BY <1>2, <1>3, <1>4, <2>1 DEF HasRoom, Promotes, RoomForAnOwner, Op, Target, Reads, Active, At
<1> QED
  BY <1>2, <1>3, <1>4, <1>6, <1>7, MovesAInv

\* The members after a commit are those its recompute saw.
LEMMA MembersAfter ==
  ASSUME IInv, NEW c \in Calls, Commit(c)
  PROVE  Members' = MembersSeen(c)
<1>1. Target(c) \in Users /\ Op(c) \in Operations
  BY CallTypes DEF IInv, Commit, Steps
<1>2. Op(c) = "change" => status[Target(c)] = "active"
  BY DEF IInv, FoundStays, Holds, InTransaction, Commit, At, ProceedsFrom
<1>3. ASSUME NEW u \in Users PROVE u \in Members' <=> u \in MembersSeen(c)
  <2>1. CASE u # Target(c)
    BY <1>1, <2>1 DEF Commit, IInv, TypeOK, Members, MembersSeen, Active
  <2>2. CASE u = Target(c)
    <3>1. status'[u] = IF Op(c) \in {"confirm", "admit"} THEN "active"
                       ELSE IF Op(c) = "revoke" THEN "revoked" ELSE status[u]
      BY <1>1, <2>2 DEF Commit, IInv, TypeOK
    <3> QED
      BY <1>1, <1>2, <2>2, <3>1 DEF Members, MembersSeen, Active, Operations
  <2> QED
    BY <2>1, <2>2
<1> QED
  BY <1>3 DEF Members, MembersSeen

\* A commit nobody crossed writes the audience of what it commits.
LEMMA CommitAInv ==
  ASSUME IInv, AInv, NEW c \in Calls, Commit(c)
  PROVE  AInv'
<1>1. /\ \A b \in Calls \ {c} : call'[b] = call[b]
      /\ call'[c].step = "idle"
  BY ReturnsCall DEF IInv, Commit
<1>2. InProgress(c) /\ At(c, "commit") /\ crossed' = crossed
  BY DEF Commit, InProgress, At
<1>3. AloneIsAlone' /\ \A b \in Calls : Alone(b)' => b = c /\ Alone(c)
  BY <1>1, <1>2, OnlyTheActor DEF AInv
<1>4. FoundHolds'
  BY <1>1, <1>3 DEF FoundHolds, Alone, InProgress
<1>5. NoOwnerAdmitted'
  BY <1>1 DEF AInv, NoOwnerAdmitted, InProgress, Op
<1>6. IsFiniteSet(owner')
  <2>1. owner' \in {owner, owner \cup {Target(c)}, owner \ {Target(c)}}
    BY DEF Commit, OwnersSeen
  <2> QED
    BY <2>1, FS_AddElement, FS_RemoveElement DEF AInv
<1>7. ASSUME ~unsettled' PROVE audience' = Readable(Members', owner', rows')
  <2>1. Alone(c) /\ (Op(c) = "create row" => ~unsettled)
    BY <1>2, <1>7 DEF Commit, Alone
  <2>2. call[c].want = Wants(c)
    BY <1>2, <2>1 DEF AInv, FoundHolds, WantsCurrent
  <2>3. Members' = MembersSeen(c) /\ owner' = OwnersSeen(c) /\ rows' = RowsAfter(c)
    BY MembersAfter DEF Commit
  <2>4. audience' = (audience \ Scope(c)) \cup (call[c].want \cap Scope(c))
    BY DEF Commit
  <2>5. /\ MembersSeen(c) \in SUBSET Users /\ rows \in SUBSET Rows /\ Members \in SUBSET Users
        /\ audience \subseteq Users \X Rows
    BY DEF MembersSeen, IInv, TypeOK, Members
  <2>6. CASE Op(c) # "create row"
    <3>1. call[c].want = Readable(MembersSeen(c), OwnersSeen(c), rows) /\ rows' = rows
      BY <2>2, <2>3, <2>6 DEF Wants, RowsAfter
    <3>2. Scope(c) = Users \X Rows
      BY <2>6 DEF Scope
    <3>3. call[c].want \subseteq Users \X Rows
      <4> DEFINE M == MembersSeen(c)
                 O == OwnersSeen(c)
      <4>1. M \in SUBSET Users
        BY <2>5
      <4> HIDE DEF M, O
      <4>2. Readable(M, O, rows) \subseteq Users \X Rows
        BY <2>5, <4>1, ReadablePairs
      <4> QED
        BY <3>1, <4>2 DEF M, O
    <3> QED
      BY <2>3, <2>4, <2>5, <3>1, <3>2, <3>3
  <2>7. CASE Op(c) = "create row"
    <3> DEFINE r == call[c].row
    <3>1. r \in Rows
      BY <1>2, <2>7 DEF IInv, RowNamed, InProgress
    <3>2. Members' = Members /\ owner' = owner /\ rows' = rows \cup {r}
      BY <2>3, <2>7 DEF MembersSeen, Members, OwnersSeen, RowsAfter
    <3>3. call[c].want = Readable(Members, owner, {r}) /\ Scope(c) = Users \X {r}
      BY <2>2, <2>3, <2>7, <3>2 DEF Wants, Scope
    <3>4. audience = Readable(Members, owner, rows)
      BY <2>1, <2>7 DEF AInv, AudienceSettled
    <3> HIDE DEF r
    <3>5. audience' \subseteq Users \X Rows
      BY <2>4, <2>5, <3>1, <3>3, ReadablePairs
    <3>6. ASSUME NEW u \in Users, NEW q \in Rows
          PROVE  <<u, q>> \in audience' <=> <<u, q>> \in Readable(Members, owner, rows \cup {r})
      <4>1. <<u, q>> \in Scope(c) <=> q = r
        BY <3>3
      <4>2. <<u, q>> \in call[c].want <=> u \in Members /\ q = r /\ MayRead(u \in owner, q)
        <5>1. PICK one : one = {r}
          OBVIOUS
        <5>2. one \in SUBSET Rows
          BY <3>1, <5>1
        <5>3. <<u, q>> \in Readable(Members, owner, one) <=>
                u \in Members /\ q \in one /\ MayRead(u \in owner, q)
          BY <2>5, <5>2, ReadablePairs
        <5>4. call[c].want = Readable(Members, owner, one)
          BY <3>3, <5>1
        <5> QED
          BY <5>1, <5>3, <5>4
      <4>3. <<u, q>> \in audience <=> u \in Members /\ q \in rows /\ MayRead(u \in owner, q)
        BY <2>5, <3>4, ReadablePairs
      <4>4. <<u, q>> \in Readable(Members, owner, rows \cup {r})
              <=> u \in Members /\ (q \in rows \/ q = r) /\ MayRead(u \in owner, q)
        BY <2>5, <3>1, ReadablePairs
      <4> QED
        BY <2>4, <4>1, <4>2, <4>3, <4>4
    <3>7. Readable(Members, owner, rows \cup {r}) \subseteq Users \X Rows
      BY <2>5, <3>1, ReadablePairs
    <3> QED
      <4> DEFINE B == Readable(Members, owner, rows \cup {r})
      <4> HIDE DEF B
      <4>1. audience' = B
        <5> DEFINE A == audience'
        <5>1. A \in SUBSET (Users \X Rows) /\ B \in SUBSET (Users \X Rows)
          BY <3>5, <3>7 DEF B
        <5>2. \A u \in Users, q \in Rows : <<u, q>> \in A <=> <<u, q>> \in B
          BY <3>6 DEF B
        <5> HIDE DEF A
        <5>3. A = B
          BY <5>1, <5>2, SamePairs
        <5> QED
          BY <5>3 DEF A
      <4>2. Readable(Members', owner', rows') = B
        BY <3>2 DEF B
      <4> QED
        BY <4>1, <4>2
  <2> QED
    BY <2>6, <2>7
<1>8. AudienceSettled'
  BY <1>7 DEF AudienceSettled
<1> QED
  BY <1>3, <1>4, <1>5, <1>6, <1>8 DEF AInv

LEMMA CrashAInv ==
  ASSUME IInv, AInv, NEW c \in Calls, Crash(c)
  PROVE  AInv'
<1>1. InProgress(c)
  BY DEF Crash, IInv, TypeOK, CallStates, InProgress, Steps
<1> QED
  BY <1>1, ReturnsCall, MovesAInv DEF Crash, IInv

LEMMA NextAInv == IInv /\ AInv /\ [Next]_vars => AInv'
<1> SUFFICES ASSUME IInv, AInv, [Next]_vars PROVE AInv'
  OBVIOUS
<1>1. CASE UNCHANGED vars
  BY <1>1 DEF AInv, AloneIsAlone, FoundHolds, NoOwnerAdmitted, AudienceSettled, Alone, InProgress,
              WantsCurrent, HasRoom, Wants, Promotes, RoomForAnOwner, Members, MembersSeen,
              OwnersSeen, Readable, MayRead, Active, Op, Target, At, vars
<1>2. ASSUME NEW c \in Calls,
             \/ CheckActor(c) \/ CheckTarget(c) \/ CheckCap(c)
             \/ BeginMember(c) \/ BeginRow(c) \/ Recompute(c) \/ Commit(c) \/ Crash(c)
      PROVE  AInv'
  BY <1>2, ChecksAInv, BeginAInv, RecomputeAInv, CommitAInv, CrashAInv
<1> QED
  BY <1>1, <1>2, RequestAInv DEF Next

-----------------------------------------------------------------------------
(* Theorems *)

\* Types hold of any number of people, rows and calls.
THEOREM TypeCorrect == Spec => []TypeOK
<1>1. Spec => []IInv
  BY InitIInv, NextIInv, PTL DEF Spec
<1>2. IInv => TypeOK
  BY DEF IInv
<1> QED
  BY <1>1, <1>2, PTL

\* No confirmation, admission, role change or removal, in any order and any
\* overlap, makes a revoked membership anything but revoked.
THEOREM Revoked == Spec => RevokedForGood
<1>1. Spec => []IInv
  BY InitIInv, NextIInv, PTL DEF Spec
<1>2. IInv /\ [Next]_vars =>
        [\A u \in Users : status[u] = "revoked" => status'[u] = "revoked"]_vars
  <2> SUFFICES ASSUME IInv, Next, NEW u \in Users, status[u] = "revoked"
               PROVE  status'[u] = "revoked"
    OBVIOUS
  <2>1. ASSUME NEW c \in Calls, Commit(c) PROVE status'[u] = "revoked"
    <3>1. Target(c) \in Users
      BY <2>1, CallTypes DEF IInv, Commit, Steps
    <3>2. CASE u # Target(c)
      BY <2>1, <3>1, <3>2 DEF Commit, IInv, TypeOK
    <3>3. CASE u = Target(c)
      <4>1. Op(c) \notin {"confirm", "admit"}
        <5>1. Op(c) # "create row" => "revoked" \in ProceedsFrom(Op(c))
          BY <2>1, <3>3 DEF IInv, FoundStays, Holds, InTransaction, Commit, At
        <5> QED
          BY <5>1 DEF ProceedsFrom
      <4> QED
        BY <2>1, <3>1, <3>3, <4>1 DEF Commit, IInv, TypeOK
    <3> QED
      BY <3>2, <3>3
  <2>2. ASSUME NEW c \in Calls,
               \/ CheckActor(c) \/ CheckTarget(c) \/ CheckCap(c)
               \/ BeginMember(c) \/ BeginRow(c) \/ Recompute(c) \/ Crash(c)
        PROVE  status' = status
    BY <2>2 DEF CheckActor, CheckTarget, CheckCap, BeginMember, BeginRow, Recompute, Crash, Reads
  <2>3. ASSUME NEW c \in Calls, NEW op, NEW actor, NEW target, NEW asOwner, NEW r,
               Request(c, op, actor, target, asOwner, r)
        PROVE  status' = status
    BY <2>3 DEF Request
  <2> QED
    BY <2>1, <2>2, <2>3 DEF Next
<1> QED
  BY <1>1, <1>2, PTL DEF Spec, RevokedForGood

\* Between transactions the audience is who may read what, after any sequence of admissions,
\* role changes, removals and new rows, until calls cross; a full recompute settles that.
THEOREM AudienceFollowsTheMembers == Spec => []AudienceIsCurrent
<1>1. Spec => [](IInv /\ AInv)
  BY InitIInv, NextIInv, InitAInv, NextAInv, PTL DEF Spec
<1>2. IInv /\ AInv => AudienceIsCurrent
  BY DEF AInv, AudienceSettled, AudienceIsCurrent, Members
<1> QED
  BY <1>1, <1>2, PTL

\* A promotion nobody crossed leaves no more Owners than the cap (workspace-session.ts).
THEOREM CapHolds == Spec => OwnersCapped
<1>1. Spec => [](IInv /\ AInv)
  BY InitIInv, NextIInv, InitAInv, NextAInv, PTL DEF Spec
<1> DEFINE Capped == \A c \in Calls :
             At(c, "commit") /\ call'[c] = NoCall /\ c \notin crossed /\ ~(owner' \subseteq owner)
               => Cardinality({u \in owner' : status'[u] = "active"}) <= OwnerCap
<1>2. ASSUME IInv, AInv, Next PROVE Capped
  <2> SUFFICES ASSUME NEW c \in Calls, At(c, "commit"), call'[c] = NoCall, c \notin crossed,
                      ~(owner' \subseteq owner)
               PROVE  Cardinality({u \in owner' : status'[u] = "active"}) <= OwnerCap
    OBVIOUS
  <2>1. Alone(c)
    BY DEF Alone, InProgress, At
  <2>2. PICK b \in Calls : Commit(b)
    <3>1. ASSUME NEW b \in Calls,
                 \/ CheckActor(b) \/ CheckTarget(b) \/ CheckCap(b)
                 \/ BeginMember(b) \/ BeginRow(b) \/ Recompute(b) \/ Crash(b)
          PROVE  owner' = owner
      BY <3>1 DEF CheckActor, CheckTarget, CheckCap, BeginMember, BeginRow, Recompute, Crash, Reads
    <3>2. ASSUME NEW b \in Calls, NEW op \in Operations, NEW actor \in Users,
                 NEW target \in Users, NEW asOwner \in BOOLEAN, NEW r \in Rows \cup {NoRow},
                 Request(b, op, actor, target, asOwner, r)
          PROVE  owner' = owner
      BY <3>2 DEF Request
    <3> QED
      BY <1>2, <3>1, <3>2 DEF Next
  <2>3. b = c
    BY <1>2, <2>1, <2>2 DEF AInv, AloneIsAlone, InProgress, Commit, At
  <2>4. Target(c) \in Users /\ Op(c) \in Operations
    BY <1>2, CallTypes DEF IInv, Steps
  <2>5. Promotes(c) /\ owner' = owner \cup {Target(c)}
    <3>1. owner' = OwnersSeen(c)
      BY <2>2, <2>3 DEF Commit
    <3>2. Op(c) # "admit" \/ ~call[c].asOwner
      BY <1>2, <2>1 DEF AInv, NoOwnerAdmitted, Alone
    <3> QED
      BY <3>1, <3>2 DEF OwnersSeen, Promotes
  <2>6. RoomForAnOwner
    BY <1>2, <2>1, <2>5 DEF AInv, FoundHolds, HasRoom, At
  <2> DEFINE before == {u \in owner : Active(u)}
             after == {u \in owner' : status'[u] = "active"}
  <2>7. status' = status
    BY <1>2, <2>2, <2>3, <2>4, <2>5 DEF Commit, Promotes, IInv, TypeOK
  <2>8. after \subseteq before \cup {Target(c)}
    BY <2>5, <2>7 DEF Active
  <2>9. IsFiniteSet(before)
    BY <1>2, FS_Subset DEF AInv
  <2>10. /\ IsFiniteSet(before \cup {Target(c)})
         /\ Cardinality(before \cup {Target(c)}) <= Cardinality(before) + 1
         /\ Cardinality(before) \in Nat
    <3> HIDE DEF before
    <3>1. Cardinality(before) \in Nat
      BY <2>9, FS_CardinalityType
    <3>2. /\ IsFiniteSet(before \cup {Target(c)})
          /\ Cardinality(before \cup {Target(c)}) =
               IF Target(c) \in before THEN Cardinality(before) ELSE Cardinality(before) + 1
      BY <2>9, FS_AddElement, Zenon
    <3> QED
      BY <3>1, <3>2
  <2>11. Cardinality(after) <= Cardinality(before \cup {Target(c)}) /\ Cardinality(after) \in Nat
         /\ Cardinality(before \cup {Target(c)}) \in Nat
    BY <2>8, <2>10, FS_Subset, FS_CardinalityType
  <2>12. Cardinality(before) < OwnerCap
    BY <2>6 DEF RoomForAnOwner
  <2> HIDE DEF before, after
  <2>13. Cardinality(after) <= OwnerCap
    BY <2>10, <2>11, <2>12
  <2> QED
    BY <2>13 DEF after
<1>3. IInv /\ AInv /\ [Next]_vars => [Capped]_vars
  BY <1>2
<1> QED
  BY <1>1, <1>3, PTL DEF Spec, OwnersCapped

-----------------------------------------------------------------------------
(* The people: rows *)

\* The people count as everybody does.
LEMMA PeopleCardinality == \A S : Employed!Cardinality(S) = Cardinality(S)
  BY DEF Employed!Cardinality, Cardinality

EmployeeRow ==
  [kind : {"Employee", "Ghost"}, status : {"Active", "Inactive", "Converted"},
   email : Emails \cup {Unset}, user : Logins \cup {Unset}, version : Nat]
EntityRow == [status : {"Active", "Dissolved"}, version : Nat]
ScopeEdge ==
  [employee : Nat, entity : Nat, from : Employed!Instants,
   to : Employed!Instants \cup {Employed!Open}]
GhostRow == [employee : Nat, status : {"Active", "Canceled", "Promoted"}, version : Nat]

\* What a mutation that has read will write names rows there are.
RequestOK(r) ==
  /\ r.op = "create" => r.email \in Emails /\ r.entity \in Nat /\ r.from \in Employed!Instants
  /\ r.op = "update" => r.employee \in Employed!Rows(employees) /\ r.email \in Emails
  /\ r.op = "link" => r.employee \in Employed!Rows(employees) /\ r.user \in Logins
  /\ r.op = "move" =>
       /\ r.edge \in Employed!Rows(scoped) /\ r.entity \in Nat /\ r.from \in Employed!Instants

PeopleType ==
  /\ employees \in Seq(EmployeeRow)
  /\ entities \in Seq(EntityRow)
  /\ scoped \in Seq(ScopeEdge)
  /\ ghosts \in Seq(GhostRow)
  /\ promoted \in Seq([ghost : Nat, employee : Nat])
  /\ \A k \in Employed!Rows(scoped) : scoped[k].employee \in Employed!Rows(employees)
  /\ \A g \in Employed!Rows(ghosts) : ghosts[g].employee \in Employed!Rows(employees)
  /\ \A r \in reading : RequestOK(r)

\* A row changed in place, a row added.
LEMMA RowChanged ==
  ASSUME NEW S, NEW table \in Seq(S), NEW k \in Employed!Rows(table), NEW row \in S,
         NEW new, new = [table EXCEPT ![k] = row]
  PROVE  /\ new \in Seq(S) /\ Len(new) = Len(table)
         /\ new[k] = row
         /\ \A j \in Employed!Rows(table) : j # k => new[j] = table[j]
  BY DEF Employed!Rows

\* new is old with one more row.
Added(old, new, row) ==
  /\ Len(old) \in Nat /\ Len(new) = Len(old) + 1
  /\ new[Len(old) + 1] = row
  /\ \A j \in Employed!Rows(old) : new[j] = old[j]

\* So a row appended is a row added.
LEMMA RowAdded ==
  ASSUME NEW S, NEW table \in Seq(S), NEW row \in S
  PROVE  Append(table, row) \in Seq(S) /\ Added(table, Append(table, row), row)
  BY DEF Employed!Rows, Added

\* The same rows, their kinds the same.
KindsStay(old, new) ==
  /\ new \in Seq(EmployeeRow) /\ Len(new) = Len(old)
  /\ \A e \in Employed!Rows(old) : new[e].kind = old[e].kind

\* Setting another field of an employee leaves the kinds.
LEMMA FieldsSet ==
  ASSUME NEW table \in Seq(EmployeeRow), NEW e \in Employed!Rows(table)
  PROVE  /\ KindsStay(table, [table EXCEPT ![e].version = table[e].version + 1])
         /\ \A email \in Emails : KindsStay(table, [table EXCEPT ![e].email = email])
         /\ \A user \in Logins : KindsStay(table, [table EXCEPT ![e].user = user])
         /\ \A becomes \in {"Active", "Inactive", "Converted"} :
              KindsStay(table, [table EXCEPT ![e].status = becomes])
<1>1. table[e] \in EmployeeRow
  BY DEF Employed!Rows
<1>2. ASSUME NEW row \in EmployeeRow, row.kind = table[e].kind
      PROVE  KindsStay(table, [table EXCEPT ![e] = row])
  BY <1>2, RowChanged DEF KindsStay, Employed!Rows
<1>3. KindsStay(table, [table EXCEPT ![e].version = table[e].version + 1])
  <2> DEFINE next == table[e].version + 1
  <2>0. next \in Nat
    BY <1>1 DEF EmployeeRow
  <2> HIDE DEF next
  <2>1. [table[e] EXCEPT !.version = next] \in EmployeeRow
    BY <1>1, <2>0 DEF EmployeeRow
  <2>2. [table[e] EXCEPT !.version = next].kind = table[e].kind
    BY <1>1 DEF EmployeeRow
  <2>3. KindsStay(table, [table EXCEPT ![e].version = next])
    BY <1>2, <2>1, <2>2
  <2> QED
    BY <2>3 DEF next
<1>4. ASSUME NEW email \in Emails PROVE KindsStay(table, [table EXCEPT ![e].email = email])
  <2>1. [table[e] EXCEPT !.email = email] \in EmployeeRow
    BY <1>1 DEF EmployeeRow
  <2> QED
    BY <1>1, <1>2, <2>1 DEF EmployeeRow
<1>5. ASSUME NEW user \in Logins PROVE KindsStay(table, [table EXCEPT ![e].user = user])
  <2>1. [table[e] EXCEPT !.user = user] \in EmployeeRow
    BY <1>1 DEF EmployeeRow
  <2> QED
    BY <1>1, <1>2, <2>1 DEF EmployeeRow
<1>6. ASSUME NEW becomes \in {"Active", "Inactive", "Converted"}
      PROVE  KindsStay(table, [table EXCEPT ![e].status = becomes])
  <2>1. [table[e] EXCEPT !.status = becomes] \in EmployeeRow
    BY <1>1 DEF EmployeeRow
  <2> QED
    BY <1>1, <1>2, <2>1 DEF EmployeeRow
<1> QED
  BY <1>3, <1>4, <1>5, <1>6

\* A higher version leaves the kinds,
LEMMA BumpedKinds ==
  ASSUME employees \in Seq(EmployeeRow), NEW e \in Employed!Rows(employees)
  PROVE  KindsStay(employees, Employed!Bumped(e))
<1>1. employees[e] \in EmployeeRow
  BY DEF Employed!Rows
<1>2. Employed!Bumped(e) = [employees EXCEPT ![e].version = employees[e].version + 1]
  BY DEF Employed!Bumped
<1> QED
  BY <1>2, FieldsSet

\* and so does what an update, a login or a status writes with it.
LEMMA UpdateKinds ==
  ASSUME employees \in Seq(EmployeeRow), NEW e \in Employed!Rows(employees)
  PROVE  /\ \A email \in Emails : KindsStay(employees, [Employed!Bumped(e) EXCEPT ![e].email = email])
         /\ \A user \in Logins : KindsStay(employees, [Employed!Bumped(e) EXCEPT ![e].user = user])
         /\ \A becomes \in {"Active", "Inactive", "Converted"} :
              KindsStay(employees, [Employed!Bumped(e) EXCEPT ![e].status = becomes])
<1>1. KindsStay(employees, Employed!Bumped(e))
  BY BumpedKinds
<1>2. PICK b : b = Employed!Bumped(e)
  OBVIOUS
<1>3. b \in Seq(EmployeeRow) /\ e \in Employed!Rows(b)
  BY <1>1, <1>2 DEF KindsStay, Employed!Rows
<1>4. ASSUME NEW c, KindsStay(b, c) PROVE KindsStay(employees, c)
  BY <1>1, <1>2, <1>4 DEF KindsStay, Employed!Rows
<1> QED
  BY <1>2, <1>3, <1>4, FieldsSet

\* Promotion changes the kind of one employee.
Hired(e, email) == [Employed!Bumped(e) EXCEPT ![e].kind = "Employee", ![e].email = email]

LEMMA PromoteKinds ==
  ASSUME employees \in Seq(EmployeeRow), NEW e \in Employed!Rows(employees), NEW email \in Emails
  PROVE  /\ Hired(e, email) \in Seq(EmployeeRow) /\ Len(Hired(e, email)) = Len(employees)
         /\ Hired(e, email)[e].kind = "Employee"
         /\ \A f \in Employed!Rows(employees) :
              f # e => Hired(e, email)[f].kind = employees[f].kind
<1>0. PICK b : b = Hired(e, email)
  OBVIOUS
<1>1. KindsStay(employees, Employed!Bumped(e))
  BY BumpedKinds
<1>2. PICK c : c = Employed!Bumped(e)
  OBVIOUS
<1>3. c \in Seq(EmployeeRow) /\ e \in Employed!Rows(c) /\ c[e] \in EmployeeRow
  BY <1>1, <1>2 DEF KindsStay, Employed!Rows
<1>4. PICK row : row = [c[e] EXCEPT !.kind = "Employee", !.email = email]
  OBVIOUS
<1>5. row \in EmployeeRow /\ row.kind = "Employee"
  BY <1>3, <1>4 DEF EmployeeRow
<1>6. b = [c EXCEPT ![e] = row]
  BY <1>0, <1>2, <1>3, <1>4 DEF EmployeeRow, Employed!Rows, Hired
<1>7. ASSUME NEW d, d = [c EXCEPT ![e] = row]
      PROVE  /\ d \in Seq(EmployeeRow) /\ Len(d) = Len(c) /\ d[e] = row
             /\ \A f \in Employed!Rows(c) : f # e => d[f] = c[f]
  BY <1>3, <1>5, <1>7 DEF Employed!Rows
<1>8. /\ b \in Seq(EmployeeRow) /\ Len(b) = Len(employees)
      /\ b[e].kind = "Employee"
      /\ \A f \in Employed!Rows(employees) : f # e => b[f].kind = employees[f].kind
  BY <1>1, <1>2, <1>5, <1>6, <1>7 DEF KindsStay, Employed!Rows
<1> QED
  BY <1>0, <1>8

\* The rows that are added are employee rows.
LEMMA NewEmployeeRow ==
  /\ \A email \in Emails : Employed!NewEmployee("Employee", email) \in EmployeeRow
  /\ Employed!NewEmployee("Ghost", Unset) \in EmployeeRow
  BY DEF Employed!NewEmployee, EmployeeRow

\* Whatever a step does, the employees there are keep their numbers, and but for the one
\* that is promoted their kinds.
EmployeesAfter(old, new) ==
  \/ new = old
  \/ KindsStay(old, new)
  \/ \E row \in EmployeeRow : new = Append(old, row)

PromotesGhost(g) ==
  \E v \in Employed!Versioned, email \in Emails : Employed!GhostResourcePromote(g, v, email)

\* A step that promotes nobody does one of these.
LEMMA EmployeesStep ==
  ASSUME PeopleType, Employed!Next, \A g \in Employed!Rows(ghosts) : ~PromotesGhost(g)
  PROVE  EmployeesAfter(employees, employees')
<1> USE DEF EmployeesAfter
<1>1. CASE UNCHANGED employees
  BY <1>1
<1>2. ASSUME NEW r \in reading, Employed!EmployeeCreateWrite(r)
      PROVE  EmployeesAfter(employees, employees')
  BY <1>2, NewEmployeeRow DEF Employed!EmployeeCreateWrite, PeopleType, RequestOK
<1>3. ASSUME NEW r \in reading, Employed!EmployeeUpdateWrite(r)
      PROVE  EmployeesAfter(employees, employees')
  <2>1. r.employee \in Employed!Rows(employees) /\ r.email \in Emails
    BY <1>3 DEF Employed!EmployeeUpdateWrite, PeopleType, RequestOK
  <2>2. \/ employees' = employees
        \/ employees' = [Employed!Bumped(r.employee) EXCEPT ![r.employee].email = r.email]
    BY <1>3 DEF Employed!EmployeeUpdateWrite, Employed!Refused
  <2> QED
    BY <2>1, <2>2, UpdateKinds DEF PeopleType
<1>4. ASSUME NEW r \in reading, Employed!EmployeeLinkUserWrite(r)
      PROVE  EmployeesAfter(employees, employees')
  <2>1. r.employee \in Employed!Rows(employees) /\ r.user \in Logins
    BY <1>4 DEF Employed!EmployeeLinkUserWrite, PeopleType, RequestOK
  <2>2. \/ employees' = employees
        \/ employees' = [Employed!Bumped(r.employee) EXCEPT ![r.employee].user = r.user]
    BY <1>4 DEF Employed!EmployeeLinkUserWrite, Employed!Refused
  <2> QED
    BY <2>1, <2>2, UpdateKinds DEF PeopleType
<1>5. ASSUME NEW e \in Employed!Rows(employees), NEW v \in Employed!Versioned,
             NEW s \in {"Active", "Inactive", "Converted"}, Employed!EmployeeTransitionStatus(e, v, s)
      PROVE  EmployeesAfter(employees, employees')
  BY <1>5, UpdateKinds DEF Employed!EmployeeTransitionStatus, PeopleType
<1>6. ASSUME NEW withRole \in BOOLEAN, Employed!GhostResourceCreate(withRole)
      PROVE  EmployeesAfter(employees, employees')
  BY <1>6, NewEmployeeRow DEF Employed!GhostResourceCreate
<1>7. CASE Employed!Tick \/ Employed!EntityNext
  BY <1>1, <1>7 DEF Employed!Tick, Employed!EntityNext, Employed!EntityCreate,
                    Employed!EntityUpdate, Employed!EntityDeactivate
<1>8. CASE Employed!EmployeeNext
  BY <1>1, <1>2, <1>3, <1>4, <1>5, <1>8
  DEF Employed!EmployeeNext, Employed!EmployeeCreateRead, Employed!EmployeeUpdateRead,
      Employed!EmployeeLinkUserRead, Employed!EmployeeSetEntityRead, Employed!Read,
      Employed!EmployeeSetEntityWrite, Employed!Refused
<1>9. CASE Employed!GhostNext
  BY <1>1, <1>6, <1>9
  DEF Employed!GhostNext, PromotesGhost, Employed!GhostResourceLinkOpenRoleRead, Employed!Read,
      Employed!GhostResourceCancel, Employed!GhostResourceLinkOpenRoleWrite, Employed!Refused
<1> QED
  BY <1>7, <1>8, <1>9 DEF Employed!Next

\* So numbers of employees stay numbers of employees.
LEMMA EmployeesGrow ==
  ASSUME PeopleType, Employed!Next
  PROVE  employees' \in Seq(EmployeeRow) /\ Len(employees) <= Len(employees')
<1>1. ASSUME NEW g \in Employed!Rows(ghosts), PromotesGhost(g)
      PROVE  employees' \in Seq(EmployeeRow) /\ Len(employees) <= Len(employees')
  <2>0. PICK v \in Employed!Versioned, email \in Emails : Employed!GhostResourcePromote(g, v, email)
    BY <1>1 DEF PromotesGhost
  <2> DEFINE e == ghosts[g].employee
  <2>1. employees' = Hired(e, email)
    BY <2>0 DEF Employed!GhostResourcePromote, Hired
  <2>2. e \in Employed!Rows(employees) /\ employees \in Seq(EmployeeRow)
    BY DEF PeopleType
  <2> HIDE DEF e
  <2>3. employees' \in Seq(EmployeeRow) /\ Len(employees') = Len(employees)
    BY <2>1, <2>2, PromoteKinds
  <2> QED
    BY <2>2, <2>3
<1>2. CASE EmployeesAfter(employees, employees')
  <2>1. ASSUME NEW row \in EmployeeRow, employees' = Append(employees, row)
        PROVE  employees' \in Seq(EmployeeRow) /\ Len(employees) <= Len(employees')
    <3>1. employees \in Seq(EmployeeRow)
      BY DEF PeopleType
    <3> QED
      BY <2>1, <3>1, RowAdded DEF Added
  <2> QED
    BY <1>2, <2>1 DEF PeopleType, EmployeesAfter, KindsStay
<1> QED
  BY <1>1, <1>2, EmployeesStep

-----------------------------------------------------------------------------
(* The people: entities *)

\* The edge k ends at an instant where one to x begins.
Moved(k, x, from, new) ==
  /\ new \in Seq(ScopeEdge) /\ Len(scoped) \in Nat /\ Len(new) = Len(scoped) + 1
  /\ new[Len(scoped) + 1] = [employee |-> scoped[k].employee, entity |-> x,
                             from |-> from, to |-> Employed!Open]
  /\ new[k] = [employee |-> scoped[k].employee, entity |-> scoped[k].entity,
               from |-> scoped[k].from, to |-> from]
  /\ \A j \in Employed!Rows(scoped) : j # k => new[j] = scoped[j]

\* What employee.setEntity writes moves the edge.
LEMMA MovedShape ==
  ASSUME scoped \in Seq(ScopeEdge), NEW k \in Employed!Rows(scoped), NEW x \in Nat,
         NEW from \in Employed!Instants, NEW new,
         new = Append([scoped EXCEPT ![k].to = from],
                      [employee |-> scoped[k].employee, entity |-> x, from |-> from,
                       to |-> Employed!Open])
  PROVE  Moved(k, x, from, new)
<1>1. scoped[k] \in ScopeEdge
  BY DEF Employed!Rows
<1>2. PICK row : row = [scoped[k] EXCEPT !.to = from]
  OBVIOUS
<1>3. /\ row \in ScopeEdge
      /\ row = [employee |-> scoped[k].employee, entity |-> scoped[k].entity,
                from |-> scoped[k].from, to |-> from]
  BY <1>1, <1>2 DEF ScopeEdge
<1>4. PICK mid : mid = [scoped EXCEPT ![k] = row]
  OBVIOUS
<1>5. mid = [scoped EXCEPT ![k].to = from]
  BY <1>2, <1>4
<1>6. /\ mid \in Seq(ScopeEdge) /\ Len(mid) = Len(scoped) /\ mid[k] = row
      /\ \A j \in Employed!Rows(scoped) : j # k => mid[j] = scoped[j]
  BY <1>3, <1>4 DEF Employed!Rows
<1>7. PICK edge : edge = [employee |-> scoped[k].employee, entity |-> x, from |-> from,
                          to |-> Employed!Open]
  OBVIOUS
<1>8. edge \in ScopeEdge
  BY <1>1, <1>7 DEF ScopeEdge
<1>9. new = Append(mid, edge)
  BY <1>5, <1>7
<1>10. Append(mid, edge) \in Seq(ScopeEdge) /\ Added(mid, Append(mid, edge), edge)
  BY <1>6, <1>8, RowAdded
<1>11. new \in Seq(ScopeEdge) /\ Added(mid, new, edge)
  BY <1>9, <1>10
<1>12. k \in 1..Len(mid)
  BY <1>6 DEF Employed!Rows
<1>13. /\ Len(scoped) \in Nat /\ Len(new) = Len(scoped) + 1 /\ new[Len(scoped) + 1] = edge
       /\ \A j \in Employed!Rows(scoped) : new[j] = mid[j]
  BY <1>6, <1>11 DEF Added, Employed!Rows
<1> QED
  BY <1>3, <1>6, <1>7, <1>11, <1>13 DEF Moved

Hires(r) == Employed!EmployeeCreateWrite(r)
Reassigns(r) ==
  /\ r.op = "move" /\ Employed!Closes(r.edge, r.from)
  /\ Moved(r.edge, r.entity, r.from, scoped')
  /\ UNCHANGED employees

\* Scopes change when somebody is hired and when somebody moves,
LEMMA ScopedStep ==
  ASSUME PeopleType, Employed!Next
  PROVE  UNCHANGED scoped \/ \E r \in reading : Hires(r) \/ Reassigns(r)
<1>1. ASSUME NEW r \in reading, Employed!EmployeeSetEntityWrite(r)
      PROVE  UNCHANGED scoped \/ Reassigns(r)
  <2>1. r.op = "move" /\ r.edge \in Employed!Rows(scoped) /\ r.entity \in Nat
          /\ r.from \in Employed!Instants /\ scoped \in Seq(ScopeEdge)
    BY <1>1 DEF Employed!EmployeeSetEntityWrite, PeopleType, RequestOK
  <2>2. CASE ~Employed!Closes(r.edge, r.from)
    BY <1>1, <2>2 DEF Employed!EmployeeSetEntityWrite, Employed!Refused
  <2>3. CASE Employed!Closes(r.edge, r.from)
    <3>1. /\ UNCHANGED employees
          /\ scoped' = Append([scoped EXCEPT ![r.edge].to = r.from],
                              [employee |-> scoped[r.edge].employee, entity |-> r.entity,
                               from |-> r.from, to |-> Employed!Open])
      BY <1>1, <2>3 DEF Employed!EmployeeSetEntityWrite
    <3>2. Moved(r.edge, r.entity, r.from, scoped')
      BY <2>1, <3>1, MovedShape
    <3> QED
      BY <2>1, <2>3, <3>1, <3>2 DEF Reassigns
  <2> QED
    BY <2>2, <2>3
<1>2. CASE Employed!EmployeeNext
  BY <1>1, <1>2
  DEF Employed!EmployeeNext, Employed!EmployeeCreateRead, Employed!EmployeeUpdateRead,
      Employed!EmployeeLinkUserRead, Employed!EmployeeSetEntityRead, Employed!Read, Hires,
      Employed!EmployeeUpdateWrite, Employed!EmployeeLinkUserWrite, Employed!Refused,
      Employed!EmployeeTransitionStatus
<1>3. CASE Employed!Tick \/ Employed!EntityNext \/ Employed!GhostNext
  BY <1>3
  DEF Employed!Tick, Employed!EntityNext, Employed!EntityCreate, Employed!EntityUpdate,
      Employed!EntityDeactivate, Employed!GhostNext, Employed!GhostResourceCreate,
      Employed!GhostResourceLinkOpenRoleRead, Employed!Read, Employed!GhostResourceCancel,
      Employed!GhostResourcePromote, Employed!GhostResourceLinkOpenRoleWrite, Employed!Refused
<1> QED
  BY <1>2, <1>3 DEF Employed!Next

\* a new employee gets an open edge,
LEMMA HiresShape ==
  ASSUME PeopleType, NEW r \in reading, Hires(r)
  PROVE  \E edge \in ScopeEdge :
           /\ edge.employee = Len(employees) + 1 /\ edge.to = Employed!Open
           /\ edge.from \in Employed!Instants
           /\ scoped' \in Seq(ScopeEdge) /\ Added(scoped, scoped', edge)
           /\ Len(employees') = Len(employees) + 1
<1> DEFINE edge == [employee |-> Len(employees) + 1, entity |-> r.entity, from |-> r.from,
                    to |-> Employed!Open]
<1>1. r.entity \in Nat /\ r.from \in Employed!Instants /\ r.email \in Emails
  BY DEF Hires, Employed!EmployeeCreateWrite, PeopleType, RequestOK
<1>2. edge \in ScopeEdge
  BY <1>1 DEF ScopeEdge, PeopleType
<1>3. scoped' = Append(scoped, edge)
      /\ employees' = Append(employees, Employed!NewEmployee("Employee", r.email))
  BY DEF Hires, Employed!EmployeeCreateWrite
<1>4. Len(employees') = Len(employees) + 1
  BY <1>1, <1>3, NewEmployeeRow DEF PeopleType
<1>5. Append(scoped, edge) \in Seq(ScopeEdge) /\ Added(scoped, Append(scoped, edge), edge)
  BY <1>2, RowAdded DEF PeopleType
<1> QED
  BY <1>1, <1>2, <1>3, <1>4, <1>5

\* and every edge stays the edge of an employee there is.
LEMMA ScopedTypeStep ==
  ASSUME PeopleType, Employed!Next
  PROVE  /\ scoped' \in Seq(ScopeEdge) /\ Len(scoped) <= Len(scoped')
         /\ \A k \in Employed!Rows(scoped)' : scoped'[k].employee \in Employed!Rows(employees)'
<1>0. Len(employees) <= Len(employees') /\ Len(employees) \in Nat /\ Len(employees') \in Nat
      /\ Len(scoped) \in Nat /\ scoped \in Seq(ScopeEdge)
  BY EmployeesGrow DEF PeopleType
<1>1. \A k \in 1..Len(scoped) : scoped[k].employee \in 1..Len(employees)
  BY DEF PeopleType, Employed!Rows
<1>2. CASE UNCHANGED scoped
  BY <1>0, <1>2 DEF PeopleType, Employed!Rows
<1>3. ASSUME NEW r \in reading, Hires(r)
      PROVE  /\ scoped' \in Seq(ScopeEdge) /\ Len(scoped) <= Len(scoped')
             /\ \A k \in Employed!Rows(scoped)' : scoped'[k].employee \in Employed!Rows(employees)'
  <2>1. PICK edge \in ScopeEdge :
               /\ edge.employee = Len(employees) + 1
               /\ scoped' \in Seq(ScopeEdge) /\ Added(scoped, scoped', edge)
               /\ Len(employees') = Len(employees) + 1
    BY <1>3, HiresShape
  <2> QED
    BY <1>0, <1>1, <2>1 DEF Employed!Rows, Added
<1>4. ASSUME NEW r \in reading, Reassigns(r)
      PROVE  /\ scoped' \in Seq(ScopeEdge) /\ Len(scoped) <= Len(scoped')
             /\ \A k \in Employed!Rows(scoped)' : scoped'[k].employee \in Employed!Rows(employees)'
  <2>1. r.edge \in Employed!Rows(scoped)
    BY <1>4 DEF Reassigns, PeopleType, RequestOK
  <2>2. Moved(r.edge, r.entity, r.from, scoped') /\ UNCHANGED employees
    BY <1>4 DEF Reassigns
  <2>3. \A k \in Employed!Rows(scoped)' : \E j \in Employed!Rows(scoped) :
          scoped'[k].employee = scoped[j].employee
    BY <1>0, <2>1, <2>2 DEF Moved, Employed!Rows
  <2>4. scoped' \in Seq(ScopeEdge) /\ Len(scoped) <= Len(scoped')
    BY <1>0, <2>2 DEF Moved
  <2>5. \A k \in Employed!Rows(scoped)' : scoped'[k].employee \in Employed!Rows(employees)
    BY <1>1, <2>3 DEF Employed!Rows
  <2>6. Employed!Rows(employees)' = Employed!Rows(employees)
    BY <2>2 DEF Employed!Rows
  <2> QED
    BY <2>4, <2>5, <2>6
<1> QED
  BY <1>2, <1>3, <1>4, ScopedStep

\* An entity stays active: the last one is not dissolved.
LEMMA EntitiesStep ==
  ASSUME PeopleType, Employed!Next, Employed!ActiveEntities # {}
  PROVE  entities' \in Seq(EntityRow) /\ Employed!ActiveEntities' # {}
<1> USE DEF Employed!ActiveEntities, Employed!Rows
<1>0. entities \in Seq(EntityRow) /\ Len(entities) \in Nat
  BY DEF PeopleType
<1>1. CASE UNCHANGED entities
  BY <1>0, <1>1
<1>2. CASE Employed!EntityCreate
  <2>1. [status |-> "Active", version |-> 1] \in EntityRow
    BY DEF EntityRow
  <2>2. entities' = Append(entities, [status |-> "Active", version |-> 1])
    BY <1>2 DEF Employed!EntityCreate
  <2> QED
    BY <1>0, <2>1, <2>2
<1>3. ASSUME NEW x \in Employed!Rows(entities), Employed!EntityUpdate(x)
      PROVE  entities' \in Seq(EntityRow) /\ Employed!ActiveEntities' # {}
  <2>1. entities[x] \in EntityRow
    BY <1>0
  <2> DEFINE row == [entities[x] EXCEPT !.version = entities[x].version + 1]
  <2>2. row \in EntityRow /\ row.status = entities[x].status
    BY <2>1 DEF EntityRow
  <2>3. entities' = [entities EXCEPT ![x] = row]
    BY <1>3, <2>1 DEF Employed!EntityUpdate, EntityRow
  <2> HIDE DEF row
  <2>4. entities' \in Seq(EntityRow) /\ Len(entities') = Len(entities)
    BY <1>0, <2>2, <2>3
  <2>5. \A y \in 1..Len(entities) : entities'[y].status = entities[y].status
    BY <1>0, <2>2, <2>3
  <2> QED
    BY <2>4, <2>5
<1>4. ASSUME NEW x \in Employed!Rows(entities), NEW v, Employed!EntityDeactivate(x, v)
      PROVE  entities' \in Seq(EntityRow) /\ Employed!ActiveEntities' # {}
  <2>1. entities[x] \in EntityRow
    BY <1>0
  <2> DEFINE row == [entities[x] EXCEPT !.status = "Dissolved", !.version = entities[x].version + 1]
  <2>2. row \in EntityRow
    <3>1. entities[x].version + 1 \in Nat
      BY <2>1 DEF EntityRow
    <3> QED
      BY <2>1, <3>1 DEF EntityRow
  <2>3. entities' = [entities EXCEPT ![x] = row]
    BY <1>4, <2>1 DEF Employed!EntityDeactivate, EntityRow
  <2> HIDE DEF row
  <2>4. entities' \in Seq(EntityRow) /\ Len(entities') = Len(entities)
    BY <1>0, <2>2, <2>3
  <2>5. \A y \in 1..Len(entities) : y # x => entities'[y] = entities[y]
    BY <1>0, <2>2, <2>3
  <2>6. Cardinality(Employed!ActiveEntities) > 1
    <3> HIDE DEF Employed!ActiveEntities
    <3>1. Employed!Cardinality(Employed!ActiveEntities) > 1
      BY <1>4 DEF Employed!EntityDeactivate, Employed!MayDissolve
    <3> QED
      BY <3>1, PeopleCardinality
  <2>7. PICK y \in Employed!ActiveEntities : y # x
    <3> HIDE DEF Employed!ActiveEntities
    <3>1. Employed!ActiveEntities # {x}
      <4>1. Cardinality({x}) = 1
        BY FS_Singleton
      <4>2. Cardinality(Employed!ActiveEntities) # 1
        BY <2>6
      <4> QED
        BY <4>1, <4>2, Zenon
    <3>2. Employed!ActiveEntities # {}
      BY <2>6, FS_EmptySet
    <3> QED
      BY <3>1, <3>2
  <2> QED
    BY <2>4, <2>5, <2>7
<1>5. CASE Employed!Tick \/ Employed!EmployeeNext \/ Employed!GhostNext
  <2>1. UNCHANGED entities
    BY <1>5
    DEF Employed!Tick, Employed!EmployeeNext, Employed!EmployeeCreateRead,
        Employed!EmployeeUpdateRead, Employed!EmployeeLinkUserRead, Employed!Read,
        Employed!EmployeeSetEntityRead, Employed!EmployeeCreateWrite,
        Employed!EmployeeUpdateWrite, Employed!EmployeeLinkUserWrite,
        Employed!EmployeeSetEntityWrite, Employed!Refused, Employed!EmployeeTransitionStatus,
        Employed!GhostNext, Employed!GhostResourceCreate, Employed!GhostResourceCancel,
        Employed!GhostResourceLinkOpenRoleRead, Employed!GhostResourcePromote,
        Employed!GhostResourceLinkOpenRoleWrite
  <2> QED
    BY <1>1, <2>1
<1> QED
  BY <1>2, <1>3, <1>4, <1>5 DEF Employed!Next, Employed!EntityNext

-----------------------------------------------------------------------------
(* The people: ghosts *)

\* The four things a step does to the ghosts.
GhostsStay == UNCHANGED <<ghosts, promoted>> /\ EmployeesAfter(employees, employees')
GhostAdded ==
  /\ UNCHANGED promoted
  /\ \E row \in GhostRow, employee \in EmployeeRow :
       /\ row.employee = Len(employees) + 1 /\ row.status = "Active"
       /\ ghosts' \in Seq(GhostRow) /\ Added(ghosts, ghosts', row)
       /\ employee.kind = "Ghost"
       /\ employees' \in Seq(EmployeeRow) /\ Added(employees, employees', employee)
StatusBecomes(g, becomes) ==
  /\ ghosts' \in Seq(GhostRow) /\ Len(ghosts') = Len(ghosts)
  /\ ghosts[g].status = "Active"
  /\ ghosts'[g].status = becomes /\ ghosts'[g].employee = ghosts[g].employee
  /\ \A h \in Employed!Rows(ghosts) : h # g => ghosts'[h] = ghosts[h]
GhostCanceled(g) == UNCHANGED <<promoted, employees>> /\ StatusBecomes(g, "Canceled")
GhostPromoted(g) ==
  /\ StatusBecomes(g, "Promoted")
  /\ employees' \in Seq(EmployeeRow) /\ Len(employees') = Len(employees)
  /\ employees'[ghosts[g].employee].kind = "Employee"
  /\ \A e \in Employed!Rows(employees) : e # ghosts[g].employee =>
       employees'[e].kind = employees[e].kind
  /\ \E edge \in [ghost : Nat, employee : Nat] :
       /\ edge = [ghost |-> g, employee |-> ghosts[g].employee]
       /\ promoted' \in Seq([ghost : Nat, employee : Nat]) /\ Added(promoted, promoted', edge)

\* Writing the status and the version of a ghost changes nothing else of it.
LEMMA StatusShape ==
  ASSUME ghosts \in Seq(GhostRow), NEW g \in Employed!Rows(ghosts), ghosts[g].status = "Active",
         NEW becomes \in {"Canceled", "Promoted"},
         ghosts' = [ghosts EXCEPT ![g].status = becomes, ![g].version = ghosts[g].version + 1]
  PROVE  StatusBecomes(g, becomes)
<1>1. ghosts[g] \in GhostRow
  BY DEF Employed!Rows
<1> DEFINE next == ghosts[g].version + 1
<1>2. next \in Nat
  BY <1>1 DEF GhostRow
<1> HIDE DEF next
<1> DEFINE row == [ghosts[g] EXCEPT !.status = becomes, !.version = next]
<1>3. row \in GhostRow /\ row.status = becomes /\ row.employee = ghosts[g].employee
  BY <1>1, <1>2 DEF GhostRow
<1>4. ghosts' = [ghosts EXCEPT ![g] = row]
  BY <1>1 DEF GhostRow, next
<1> HIDE DEF row
<1>5. \A new : new = [ghosts EXCEPT ![g] = row] =>
        /\ new \in Seq(GhostRow) /\ Len(new) = Len(ghosts) /\ new[g] = row
        /\ \A h \in Employed!Rows(ghosts) : h # g => new[h] = ghosts[h]
  BY <1>3 DEF Employed!Rows
<1>6. /\ ghosts' \in Seq(GhostRow) /\ Len(ghosts') = Len(ghosts) /\ ghosts'[g] = row
      /\ \A h \in Employed!Rows(ghosts) : h # g => ghosts'[h] = ghosts[h]
  BY <1>4, <1>5
<1> QED
  BY <1>3, <1>6 DEF StatusBecomes

\* Every step does one of the four.
LEMMA GhostsStep ==
  ASSUME PeopleType, Employed!Next
  PROVE  \/ GhostsStay \/ GhostAdded
         \/ \E g \in Employed!Rows(ghosts) : GhostCanceled(g) \/ GhostPromoted(g)
<1>1. ASSUME NEW withRole \in BOOLEAN, Employed!GhostResourceCreate(withRole)
      PROVE  GhostAdded
  <2> DEFINE row == [employee |-> Len(employees) + 1, status |-> "Active", version |-> 1]
             employee == Employed!NewEmployee("Ghost", Unset)
  <2>1. /\ UNCHANGED promoted
        /\ employees' = Append(employees, employee)
        /\ ghosts' = Append(ghosts, row)
    BY <1>1 DEF Employed!GhostResourceCreate
  <2>2. row \in GhostRow /\ row.employee = Len(employees) + 1 /\ row.status = "Active"
    BY DEF GhostRow, PeopleType
  <2>3. employee \in EmployeeRow /\ employee.kind = "Ghost"
    BY NewEmployeeRow DEF Employed!NewEmployee
  <2> HIDE DEF row, employee
  <2>4. Append(ghosts, row) \in Seq(GhostRow) /\ Added(ghosts, Append(ghosts, row), row)
    BY <2>2, RowAdded DEF PeopleType
  <2>5. /\ Append(employees, employee) \in Seq(EmployeeRow)
        /\ Added(employees, Append(employees, employee), employee)
    BY <2>3, RowAdded DEF PeopleType
  <2> QED
    BY <2>1, <2>2, <2>3, <2>4, <2>5 DEF GhostAdded
<1>2. ASSUME NEW g \in Employed!Rows(ghosts), NEW v \in Employed!Versioned,
             Employed!GhostResourceCancel(g, v)
      PROVE  GhostCanceled(g)
  <2>1. /\ ghosts \in Seq(GhostRow) /\ ghosts[g].status = "Active" /\ UNCHANGED <<promoted, employees>>
        /\ ghosts' = [ghosts EXCEPT ![g].status = "Canceled", ![g].version = ghosts[g].version + 1]
    BY <1>2 DEF Employed!GhostResourceCancel, Employed!Cancels, PeopleType
  <2> QED
    BY <2>1, StatusShape DEF GhostCanceled
<1>3. ASSUME NEW g \in Employed!Rows(ghosts), PromotesGhost(g)
      PROVE  GhostPromoted(g)
  <2>0. PICK v \in Employed!Versioned, email \in Emails : Employed!GhostResourcePromote(g, v, email)
    BY <1>3 DEF PromotesGhost
  <2> DEFINE e == ghosts[g].employee
             edge == [ghost |-> g, employee |-> e]
  <2>1. /\ ghosts \in Seq(GhostRow) /\ ghosts[g].status = "Active"
        /\ ghosts' = [ghosts EXCEPT ![g].status = "Promoted", ![g].version = ghosts[g].version + 1]
        /\ employees' = Hired(e, email)
        /\ promoted' = Append(promoted, edge)
    BY <2>0 DEF Employed!GhostResourcePromote, Hired, PeopleType
  <2>2. e \in Employed!Rows(employees) /\ employees \in Seq(EmployeeRow)
    BY DEF PeopleType
  <2>3. StatusBecomes(g, "Promoted")
    BY <2>1, StatusShape
  <2>4. g \in Nat /\ e \in Nat
    BY <2>2 DEF Employed!Rows
  <2> HIDE DEF e
  <2>5. /\ employees' \in Seq(EmployeeRow) /\ Len(employees') = Len(employees)
        /\ employees'[e].kind = "Employee"
        /\ \A f \in Employed!Rows(employees) : f # e => employees'[f].kind = employees[f].kind
    BY <2>1, <2>2, PromoteKinds
  <2>6. edge \in [ghost : Nat, employee : Nat]
    BY <2>4
  <2> HIDE DEF edge
  <2>7. /\ Append(promoted, edge) \in Seq([ghost : Nat, employee : Nat])
        /\ Added(promoted, Append(promoted, edge), edge)
    BY <2>6, RowAdded DEF PeopleType
  <2> QED
    BY <2>1, <2>3, <2>5, <2>6, <2>7 DEF GhostPromoted, e, edge
<1>4. CASE Employed!GhostNext
  <2>1. UNCHANGED <<ghosts, promoted>> \/ GhostAdded
          \/ \E g \in Employed!Rows(ghosts) : GhostCanceled(g) \/ PromotesGhost(g)
    BY <1>1, <1>2, <1>4
    DEF Employed!GhostNext, Employed!GhostResourceLinkOpenRoleRead, Employed!Read, PromotesGhost,
        Employed!GhostResourceLinkOpenRoleWrite, Employed!Refused
  <2>2. ASSUME NEW g \in Employed!Rows(ghosts), PromotesGhost(g), UNCHANGED ghosts PROVE FALSE
    BY <1>3, <2>2 DEF GhostPromoted, StatusBecomes
  <2> QED
    BY <1>3, <2>1, <2>2, EmployeesStep DEF GhostsStay
<1>5. CASE Employed!Tick \/ Employed!EntityNext \/ Employed!EmployeeNext
  <2>1. UNCHANGED <<ghosts, promoted>>
    BY <1>5
    DEF Employed!Tick, Employed!EntityNext, Employed!EntityCreate, Employed!EntityUpdate,
        Employed!EntityDeactivate, Employed!EmployeeNext, Employed!EmployeeCreateRead,
        Employed!EmployeeUpdateRead, Employed!EmployeeLinkUserRead, Employed!Read,
        Employed!EmployeeSetEntityRead, Employed!EmployeeCreateWrite,
        Employed!EmployeeUpdateWrite, Employed!EmployeeLinkUserWrite,
        Employed!EmployeeSetEntityWrite, Employed!Refused, Employed!EmployeeTransitionStatus
  <2>2. ASSUME NEW g \in Employed!Rows(ghosts), PromotesGhost(g), UNCHANGED ghosts PROVE FALSE
    BY <1>3, <2>2 DEF GhostPromoted, StatusBecomes
  <2> QED
    BY <2>1, <2>2, EmployeesStep DEF GhostsStay
<1> QED
  BY <1>4, <1>5 DEF Employed!Next

\* The kinds of the employees there are.
LEMMA KindsKept ==
  ASSUME NEW old \in Seq(EmployeeRow), NEW new, EmployeesAfter(old, new)
  PROVE  \A e \in Employed!Rows(old) : new[e].kind = old[e].kind
  BY RowAdded DEF EmployeesAfter, KindsStay, Employed!Rows

\* What the rows of ghosts, employees and promotions say of each other.
PromotionsOK ==
  /\ \A g, h \in Employed!Rows(ghosts) : ghosts[g].employee = ghosts[h].employee => g = h
  /\ \A k \in Employed!Rows(promoted) :
       /\ promoted[k].ghost \in Employed!Rows(ghosts)
       /\ ghosts[promoted[k].ghost].status = "Promoted"
       /\ promoted[k].employee = ghosts[promoted[k].ghost].employee
  /\ \A k, l \in Employed!Rows(promoted) : promoted[k].ghost = promoted[l].ghost => k = l
  /\ \A g \in Employed!Rows(ghosts) :
       /\ ghosts[g].status = "Promoted" =>
            \E k \in Employed!Rows(promoted) : promoted[k].ghost = g
       /\ employees[ghosts[g].employee].kind = "Employee" <=> ghosts[g].status = "Promoted"

GhostsType ==
  /\ ghosts \in Seq(GhostRow)
  /\ promoted \in Seq([ghost : Nat, employee : Nat])
  /\ \A g \in Employed!Rows(ghosts) : ghosts[g].employee \in Employed!Rows(employees)

\* A step keeps what the rows say of each other: only an active ghost is promoted or
\* canceled, and a ghost that is added stands for an employee of its own.
LEMMA PromotionsStep ==
  ASSUME PeopleType, PromotionsOK, Employed!Next
  PROVE  GhostsType' /\ PromotionsOK'
<1>0. /\ employees \in Seq(EmployeeRow) /\ Len(employees) \in Nat /\ GhostsType
      /\ Len(ghosts) \in Nat /\ Len(promoted) \in Nat
      /\ employees' \in Seq(EmployeeRow) /\ Len(employees') \in Nat
      /\ Len(employees) <= Len(employees')
  BY EmployeesGrow DEF PeopleType, GhostsType
<1>1. CASE GhostsStay
  <2>1. \A e \in Employed!Rows(employees) : employees'[e].kind = employees[e].kind
    BY <1>0, <1>1, KindsKept DEF GhostsStay
  <2>2. /\ UNCHANGED <<ghosts, promoted>>
        /\ Employed!Rows(ghosts)' = Employed!Rows(ghosts)
        /\ Employed!Rows(promoted)' = Employed!Rows(promoted)
        /\ Employed!Rows(employees) \subseteq Employed!Rows(employees)'
    BY <1>0, <1>1 DEF GhostsStay, Employed!Rows
  <2>3. GhostsType'
    BY <1>0, <2>2 DEF GhostsType
  <2>4. \A g \in Employed!Rows(ghosts) :
          employees'[ghosts[g].employee].kind = employees[ghosts[g].employee].kind
    BY <1>0, <2>1 DEF GhostsType
  <2> QED
    BY <2>2, <2>3, <2>4 DEF PromotionsOK
<1>2. CASE GhostAdded
  <2>1. PICK row \in GhostRow, employee \in EmployeeRow :
          /\ row.employee = Len(employees) + 1 /\ row.status = "Active"
          /\ ghosts' \in Seq(GhostRow) /\ Added(ghosts, ghosts', row)
          /\ employee.kind = "Ghost"
          /\ employees' \in Seq(EmployeeRow) /\ Added(employees, employees', employee)
    BY <1>2 DEF GhostAdded
  <2>2. UNCHANGED promoted
    BY <1>2 DEF GhostAdded
  <2>5. \A g \in Employed!Rows(ghosts) :
          /\ ghosts'[g] = ghosts[g]
          /\ employees'[ghosts[g].employee] = employees[ghosts[g].employee]
    BY <1>0, <2>1 DEF GhostsType, Added, Employed!Rows
  <2>6. PICK n : n = Len(ghosts) + 1
    OBVIOUS
  <2>7. /\ Employed!Rows(ghosts)' = Employed!Rows(ghosts) \cup {n}
        /\ Employed!Rows(employees) \subseteq Employed!Rows(employees)'
    BY <1>0, <2>1, <2>6 DEF Added, Employed!Rows
  <2>11. /\ ghosts'[n].employee \in Employed!Rows(employees)'
         /\ ghosts'[n].employee \notin Employed!Rows(employees)
         /\ ghosts'[n].status = "Active"
         /\ employees'[ghosts'[n].employee].kind = "Ghost"
    BY <1>0, <2>1, <2>6 DEF Added, Employed!Rows
  <2>3. GhostsType'
    BY <1>0, <2>1, <2>2, <2>5, <2>7, <2>11 DEF GhostsType
  <2>4. \A g, h \in Employed!Rows(ghosts)' : ghosts'[g].employee = ghosts'[h].employee => g = h
    <3>1. \A g \in Employed!Rows(ghosts) : ghosts'[g].employee # ghosts'[n].employee
      BY <1>0, <2>5, <2>11 DEF GhostsType
    <3>2. \A g, h \in Employed!Rows(ghosts) : ghosts'[g].employee = ghosts'[h].employee => g = h
      BY <2>5 DEF PromotionsOK
    <3> QED
      BY <2>7, <3>1, <3>2
  <2>8. Employed!Rows(promoted)' = Employed!Rows(promoted)
    BY <2>2 DEF Employed!Rows
  <2>9. \A k \in Employed!Rows(promoted)' :
          /\ promoted'[k].ghost \in Employed!Rows(ghosts)'
          /\ ghosts'[promoted'[k].ghost].status = "Promoted"
          /\ promoted'[k].employee = ghosts'[promoted'[k].ghost].employee
    BY <2>2, <2>5, <2>7, <2>8 DEF PromotionsOK
  <2>10. \A g \in Employed!Rows(ghosts)' :
           /\ ghosts'[g].status = "Promoted" =>
                \E k \in Employed!Rows(promoted)' : promoted'[k].ghost = g
           /\ employees'[ghosts'[g].employee].kind = "Employee" <=> ghosts'[g].status = "Promoted"
    BY <2>2, <2>5, <2>7, <2>8, <2>11 DEF PromotionsOK
  <2> QED
    BY <2>2, <2>3, <2>4, <2>8, <2>9, <2>10 DEF PromotionsOK
<1>3. ASSUME NEW g \in Employed!Rows(ghosts), NEW becomes, StatusBecomes(g, becomes)
      PROVE  /\ Employed!Rows(ghosts)' = Employed!Rows(ghosts)
             /\ ghosts' \in Seq(GhostRow)
             /\ \A h \in Employed!Rows(ghosts) :
                  /\ ghosts'[h].employee = ghosts[h].employee
                  /\ ghosts'[h].status = IF h = g THEN becomes ELSE ghosts[h].status
  BY <1>3 DEF StatusBecomes, Employed!Rows
<1>4. ASSUME NEW g \in Employed!Rows(ghosts), GhostCanceled(g)
      PROVE  GhostsType' /\ PromotionsOK'
  <2>1. UNCHANGED <<promoted, employees>> /\ StatusBecomes(g, "Canceled")
    BY <1>4 DEF GhostCanceled
  <2>2. /\ Employed!Rows(promoted)' = Employed!Rows(promoted)
        /\ Employed!Rows(employees)' = Employed!Rows(employees)
    BY <2>1 DEF Employed!Rows
  <2>3. ghosts[g].status = "Active"
    BY <2>1 DEF StatusBecomes
  <2>4. GhostsType'
    BY <1>0, <1>3, <2>1, <2>2 DEF GhostsType
  <2> QED
    BY <1>3, <2>1, <2>2, <2>3, <2>4 DEF PromotionsOK
<1>5. ASSUME NEW g \in Employed!Rows(ghosts), GhostPromoted(g)
      PROVE  GhostsType' /\ PromotionsOK'
  <2>1. StatusBecomes(g, "Promoted") /\ ghosts[g].status = "Active"
    BY <1>5 DEF GhostPromoted, StatusBecomes
  <2>2. PICK edge \in [ghost : Nat, employee : Nat] :
          /\ edge.ghost = g /\ edge.employee = ghosts[g].employee
          /\ promoted' \in Seq([ghost : Nat, employee : Nat]) /\ Added(promoted, promoted', edge)
    BY <1>5 DEF GhostPromoted
  <2>13. PICK n : n = Len(promoted) + 1
    OBVIOUS
  <2>3. /\ Employed!Rows(promoted)' = Employed!Rows(promoted) \cup {n}
        /\ n \notin Employed!Rows(promoted)
        /\ promoted'[n].ghost = g /\ promoted'[n].employee = ghosts[g].employee
        /\ \A k \in Employed!Rows(promoted) : promoted'[k] = promoted[k]
    <3>1. /\ Len(promoted') = n /\ n \in Nat /\ n = Len(promoted) + 1 /\ promoted'[n] = edge
          /\ \A k \in Employed!Rows(promoted) : promoted'[k] = promoted[k]
      BY <2>2, <2>13 DEF Added
    <3>2. Employed!Rows(promoted)' = 1..n /\ Employed!Rows(promoted) = 1..(n - 1)
      BY <1>0, <3>1 DEF Employed!Rows
    <3>3. \A m \in Nat \ {0} : 1..m = 1..(m - 1) \cup {m} /\ m \notin 1..(m - 1)
      OBVIOUS
    <3>4. n # 0
      BY <1>0, <3>1
    <3> QED
      BY <2>2, <3>1, <3>2, <3>3, <3>4
  <2>4. /\ employees'[ghosts[g].employee].kind = "Employee"
        /\ Employed!Rows(employees)' = Employed!Rows(employees)
        /\ \A e \in Employed!Rows(employees) : e # ghosts[g].employee =>
             employees'[e].kind = employees[e].kind
    BY <1>5 DEF GhostPromoted, Employed!Rows
  <2>5. /\ Employed!Rows(ghosts)' = Employed!Rows(ghosts)
        /\ ghosts' \in Seq(GhostRow)
        /\ \A h \in Employed!Rows(ghosts) :
             /\ ghosts'[h].employee = ghosts[h].employee
             /\ ghosts'[h].status = IF h = g THEN "Promoted" ELSE ghosts[h].status
    BY <1>3, <2>1
  <2>6. GhostsType'
    BY <1>0, <2>2, <2>4, <2>5 DEF GhostsType
  <2>7. \A k \in Employed!Rows(promoted) : promoted[k].ghost # g
    BY <2>1 DEF PromotionsOK
  <2>8. \A g1, h \in Employed!Rows(ghosts)' : ghosts'[g1].employee = ghosts'[h].employee => g1 = h
    BY <2>5 DEF PromotionsOK
  <2>9. \A k \in Employed!Rows(promoted)' :
          /\ promoted'[k].ghost \in Employed!Rows(ghosts)'
          /\ ghosts'[promoted'[k].ghost].status = "Promoted"
          /\ promoted'[k].employee = ghosts'[promoted'[k].ghost].employee
    BY <2>3, <2>5, <2>7 DEF PromotionsOK
  <2>10. \A k, l \in Employed!Rows(promoted)' : promoted'[k].ghost = promoted'[l].ghost => k = l
    BY <2>3, <2>7 DEF PromotionsOK
  <2>11. \A h \in Employed!Rows(ghosts)' :
           ghosts'[h].status = "Promoted" =>
             \E k \in Employed!Rows(promoted)' : promoted'[k].ghost = h
    BY <2>3, <2>5 DEF PromotionsOK
  <2>12. \A h \in Employed!Rows(ghosts)' :
           employees'[ghosts'[h].employee].kind = "Employee" <=> ghosts'[h].status = "Promoted"
    <3> TAKE h \in Employed!Rows(ghosts)'
    <3>1. CASE h = g
      BY <2>4, <2>5, <3>1
    <3>2. CASE h # g
      <4>1. ghosts[h].employee # ghosts[g].employee /\ h \in Employed!Rows(ghosts)
        BY <2>5, <3>2 DEF PromotionsOK
      <4>2. employees'[ghosts[h].employee].kind = employees[ghosts[h].employee].kind
        BY <1>0, <2>4, <4>1 DEF GhostsType
      <4>3. employees[ghosts[h].employee].kind = "Employee" <=> ghosts[h].status = "Promoted"
        BY <4>1 DEF PromotionsOK
      <4> QED
        BY <2>5, <3>2, <4>1, <4>2, <4>3
    <3> QED
      BY <3>1, <3>2
  <2> QED
    BY <2>6, <2>8, <2>9, <2>10, <2>11, <2>12 DEF PromotionsOK
<1> QED
  BY <1>1, <1>2, <1>4, <1>5, GhostsStep

-----------------------------------------------------------------------------
(* The people: what has been read *)

\* A request that was good stays so: rows are added, never taken away.
LEMMA RequestsStay ==
  ASSUME PeopleType, Employed!Next
  PROVE  \A r \in reading : RequestOK(r)'
<1>1. /\ Len(employees) \in Nat /\ Len(employees') \in Nat /\ Len(employees) <= Len(employees')
      /\ Len(scoped) \in Nat /\ Len(scoped') \in Nat /\ Len(scoped) <= Len(scoped')
  BY EmployeesGrow, ScopedTypeStep DEF PeopleType
<1>2. /\ Employed!Rows(employees) \subseteq Employed!Rows(employees)'
      /\ Employed!Rows(scoped) \subseteq Employed!Rows(scoped)'
  BY <1>1 DEF Employed!Rows
<1> QED
  BY <1>2 DEF PeopleType, RequestOK, Employed!Instants

\* What is read names rows there are.
LEMMA RequestsRead ==
  ASSUME PeopleType, Employed!Next, NEW r \in reading', r \notin reading
  PROVE  RequestOK(r)'
<1>0. \A x \in Employed!Rows(entities) : x \in Nat
  BY DEF Employed!Rows
<1>1. ASSUME NEW email \in Emails, NEW x \in Employed!Rows(entities), NEW i \in Employed!Instants,
             Employed!EmployeeCreateRead(email, x, i)
      PROVE  RequestOK(r)'
  <2>1. r = [op |-> "create", email |-> email, entity |-> x, from |-> i]
    BY <1>1 DEF Employed!EmployeeCreateRead, Employed!Read
  <2> QED
    BY <1>0, <2>1 DEF RequestOK, Employed!Instants
<1>2. ASSUME NEW e \in Employed!Rows(employees), NEW v, NEW email \in Emails,
             Employed!EmployeeUpdateRead(e, v, email)
      PROVE  RequestOK(r)'
  <2>1. r = [op |-> "update", employee |-> e, version |-> v, email |-> email] /\ UNCHANGED employees
    BY <1>2 DEF Employed!EmployeeUpdateRead, Employed!Read
  <2> QED
    BY <2>1 DEF RequestOK, Employed!Rows
<1>3. ASSUME NEW e \in Employed!Rows(employees), NEW v, NEW login \in Logins,
             Employed!EmployeeLinkUserRead(e, v, login)
      PROVE  RequestOK(r)'
  <2>1. r = [op |-> "link", employee |-> e, version |-> v, user |-> login] /\ UNCHANGED employees
    BY <1>3 DEF Employed!EmployeeLinkUserRead, Employed!Read
  <2> QED
    BY <2>1 DEF RequestOK, Employed!Rows
<1>4. ASSUME NEW e \in Employed!Rows(employees), NEW x \in Employed!Rows(entities),
             NEW i \in Employed!Instants, Employed!EmployeeSetEntityRead(e, x, i)
      PROVE  RequestOK(r)'
  <2>1. PICK k \in Employed!Rows(scoped) :
          r = [op |-> "move", edge |-> k, entity |-> x, from |-> i] /\ UNCHANGED scoped
    BY <1>4 DEF Employed!EmployeeSetEntityRead, Employed!Read, Employed!OpenScopes, Employed!ScopeEdges
  <2> QED
    BY <1>0, <2>1 DEF RequestOK, Employed!Rows, Employed!Instants
<1>5. ASSUME NEW g, Employed!GhostResourceLinkOpenRoleRead(g)
      PROVE  RequestOK(r)'
  <2>1. \E k : r = [op |-> "role", ghost |-> g, closes |-> k]
    BY <1>5 DEF Employed!GhostResourceLinkOpenRoleRead, Employed!Read
  <2> QED
    BY <2>1 DEF RequestOK
<1>6. ~Employed!Tick /\ ~Employed!EntityNext
  BY DEF Employed!Tick, Employed!EntityNext, Employed!EntityCreate, Employed!EntityUpdate,
         Employed!EntityDeactivate
<1>7. CASE Employed!EmployeeNext
  BY <1>1, <1>2, <1>3, <1>4, <1>7
  DEF Employed!EmployeeNext, Employed!EmployeeCreateWrite, Employed!EmployeeUpdateWrite,
      Employed!EmployeeLinkUserWrite, Employed!EmployeeSetEntityWrite, Employed!Refused,
      Employed!Written, Employed!EmployeeTransitionStatus
<1>8. CASE Employed!GhostNext
  BY <1>5, <1>8
  DEF Employed!GhostNext, Employed!GhostResourceCreate, Employed!GhostResourceCancel,
      Employed!GhostResourcePromote, Employed!GhostResourceLinkOpenRoleWrite, Employed!Refused,
      Employed!Written
<1> QED
  BY <1>6, <1>7, <1>8 DEF Employed!Next

-----------------------------------------------------------------------------
(* The people: scopes *)

\* An employee's edges follow each other: the last is open, each closed one ends where
\* another begins, and no two overlap.
ScopesOK ==
  /\ \A k \in Employed!Rows(scoped) : scoped[k].from \in Employed!Instants
  /\ \A k, l \in Employed!Rows(scoped) :
       k # l /\ scoped[k].employee = scoped[l].employee =>
         scoped[k].to <= scoped[l].from \/ scoped[l].to <= scoped[k].from
  /\ \A k \in Employed!Rows(scoped) :
       /\ \E l \in Employed!Rows(scoped) :
            scoped[l].employee = scoped[k].employee /\ scoped[l].to = Employed!Open
       /\ scoped[k].to # Employed!Open =>
            \E l \in Employed!Rows(scoped) :
              scoped[l].employee = scoped[k].employee /\ scoped[l].from = scoped[k].to

\* A step keeps the edges in sequence: the one that is closed was the open one, so all others
\* of the employee end before it begins.
LEMMA ScopesStep ==
  ASSUME PeopleType, ScopesOK, Employed!Next
  PROVE  ScopesOK'
<1>0. /\ scoped \in Seq(ScopeEdge) /\ Len(scoped) \in Nat /\ Len(employees) \in Nat
      /\ \A k \in Employed!Rows(scoped) :
           scoped[k] \in ScopeEdge /\ scoped[k].employee \in 1..Len(employees)
  BY DEF PeopleType, Employed!Rows
<1>1. CASE UNCHANGED scoped
  BY <1>1 DEF ScopesOK, Employed!Rows, Employed!Instants, Employed!Open
<1>2. ASSUME NEW r \in reading, Hires(r)
      PROVE  ScopesOK'
  <2>1. PICK edge \in ScopeEdge :
               /\ edge.employee = Len(employees) + 1 /\ edge.to = Employed!Open
               /\ edge.from \in Employed!Instants
               /\ scoped' \in Seq(ScopeEdge) /\ Added(scoped, scoped', edge)
    BY <1>2, HiresShape
  <2>2. PICK n : n = Len(scoped) + 1
    OBVIOUS
  <2>3. /\ Len(scoped') = n /\ n \in Nat /\ scoped'[n] = edge
        /\ \A k \in Employed!Rows(scoped) : scoped'[k] = scoped[k]
    BY <2>1, <2>2 DEF Added
  <2>4. /\ Employed!Rows(scoped)' = Employed!Rows(scoped) \cup {n}
        /\ n \notin Employed!Rows(scoped)
    BY <1>0, <2>2, <2>3 DEF Employed!Rows
  <2>5. \A k \in Employed!Rows(scoped) : scoped[k].employee # edge.employee
    BY <1>0, <2>1
  <2>6. Employed!Instants' = Employed!Instants /\ Employed!Open' = Employed!Open
    BY DEF Employed!Instants, Employed!Open
  <2> HIDE DEF ScopesOK
  <2>7. \A k \in Employed!Rows(scoped)' : scoped'[k].from \in Employed!Instants'
    BY <2>1, <2>3, <2>4, <2>6 DEF ScopesOK
  <2>8. \A k, l \in Employed!Rows(scoped)' :
          k # l /\ scoped'[k].employee = scoped'[l].employee =>
            scoped'[k].to <= scoped'[l].from \/ scoped'[l].to <= scoped'[k].from
    BY <2>3, <2>4, <2>5 DEF ScopesOK
  <2>9. \A k \in Employed!Rows(scoped)' :
          /\ \E l \in Employed!Rows(scoped)' :
               scoped'[l].employee = scoped'[k].employee /\ scoped'[l].to = Employed!Open'
          /\ scoped'[k].to # Employed!Open' =>
               \E l \in Employed!Rows(scoped)' :
                 scoped'[l].employee = scoped'[k].employee /\ scoped'[l].from = scoped'[k].to
    <3> TAKE k \in Employed!Rows(scoped)'
    <3>1. CASE k = n
      BY <2>1, <2>3, <2>4, <2>6, <3>1
    <3>2. CASE k \in Employed!Rows(scoped)
      <4>1. PICK l \in Employed!Rows(scoped) :
              scoped[l].employee = scoped[k].employee /\ scoped[l].to = Employed!Open
        BY <3>2 DEF ScopesOK
      <4>2. ASSUME scoped[k].to # Employed!Open
            PROVE  \E j \in Employed!Rows(scoped)' :
                     scoped'[j].employee = scoped[k].employee /\ scoped'[j].from = scoped[k].to
        <5>1. PICK j \in Employed!Rows(scoped) :
                scoped[j].employee = scoped[k].employee /\ scoped[j].from = scoped[k].to
          BY <3>2, <4>2 DEF ScopesOK
        <5> QED
          BY <2>3, <2>4, <5>1
      <4> QED
        BY <2>3, <2>4, <2>6, <3>2, <4>1, <4>2
    <3> QED
      BY <2>4, <3>1, <3>2
  <2> QED
    BY <2>7, <2>8, <2>9 DEF ScopesOK
<1>3. ASSUME NEW r \in reading, Reassigns(r)
      PROVE  ScopesOK'
  <2> DEFINE m == r.edge
             f == r.from
  <2>1. m \in Employed!Rows(scoped) /\ f \in Employed!Instants /\ r.entity \in Nat
    BY <1>3 DEF Reassigns, PeopleType, RequestOK
  <2>2. scoped[m].to = Employed!Open /\ f > scoped[m].from
    BY <1>3 DEF Reassigns, Employed!Closes
  <2>3. Moved(m, r.entity, f, scoped')
    BY <1>3 DEF Reassigns
  <2> HIDE DEF m, f
  <2>4. PICK n : n = Len(scoped) + 1
    OBVIOUS
  <2>5. /\ Len(scoped') = n /\ n \in Nat /\ scoped' \in Seq(ScopeEdge)
        /\ scoped'[n].employee = scoped[m].employee
        /\ scoped'[n].from = f /\ scoped'[n].to = Employed!Open
        /\ scoped'[m].employee = scoped[m].employee
        /\ scoped'[m].from = scoped[m].from /\ scoped'[m].to = f
        /\ \A k \in Employed!Rows(scoped) : k # m => scoped'[k] = scoped[k]
    BY <2>3, <2>4 DEF Moved
  <2>6. /\ Employed!Rows(scoped)' = Employed!Rows(scoped) \cup {n}
        /\ n \notin Employed!Rows(scoped)
    BY <1>0, <2>4, <2>5 DEF Employed!Rows
  <2>7. /\ Employed!Instants' = Employed!Instants /\ Employed!Open' = Employed!Open
        /\ Employed!Open \in Nat /\ f \in Nat /\ f # Employed!Open
        /\ \A i \in Employed!Instants : i \in Nat /\ i < Employed!Open
    BY <2>1 DEF Employed!Instants, Employed!Open
  <2>8. \A k \in Employed!Rows(scoped) :
          scoped[k].from \in Employed!Instants /\ scoped[k].to \in Nat
    BY <1>0, <2>7 DEF ScopesOK, ScopeEdge
  <2>9. \A k \in Employed!Rows(scoped) :
          k # m /\ scoped[k].employee = scoped[m].employee => scoped[k].to <= scoped[m].from
    <3> TAKE k \in Employed!Rows(scoped)
    <3> HAVE k # m /\ scoped[k].employee = scoped[m].employee
    <3>1. scoped[k].to <= scoped[m].from \/ scoped[m].to <= scoped[k].from
      BY <2>1 DEF ScopesOK
    <3>2. scoped[k].from < Employed!Open /\ scoped[k].from \in Nat
      BY <2>7, <2>8
    <3>3. ~(Employed!Open <= scoped[k].from)
      BY <2>7, <3>2
    <3> QED
      BY <2>2, <3>1, <3>3
  <2>10. \A k \in Employed!Rows(scoped)' : scoped'[k].from \in Employed!Instants'
    BY <2>1, <2>5, <2>6, <2>7, <2>8
  <2>11. \A k, l \in Employed!Rows(scoped)' :
           k # l /\ scoped'[k].employee = scoped'[l].employee =>
             scoped'[k].to <= scoped'[l].from \/ scoped'[l].to <= scoped'[k].from
    <3>1. ASSUME NEW k \in Employed!Rows(scoped), k # m, scoped[k].employee = scoped[m].employee
          PROVE  /\ scoped'[k].to <= scoped'[m].from /\ scoped'[k].to <= scoped'[n].from
      <4>1. scoped[k].to <= scoped[m].from
        BY <2>9, <3>1
      <4>2. scoped[k].to \in Nat /\ scoped[m].from \in Nat /\ f \in Nat /\ scoped[m].from < f
        BY <2>1, <2>2, <2>7, <2>8
      <4>3. scoped[k].to <= f
        BY <4>1, <4>2
      <4>4. /\ scoped'[k] = scoped[k] /\ scoped'[m].from = scoped[m].from /\ scoped'[n].from = f
        BY <2>5, <3>1
      <4> QED
        BY <4>1, <4>3, <4>4
    <3>2. scoped'[m].to <= scoped'[n].from
      BY <2>5, <2>7
    <3>3. ASSUME NEW k \in Employed!Rows(scoped), k # m, NEW l \in Employed!Rows(scoped), l # m, k # l,
                 scoped[k].employee = scoped[l].employee
          PROVE  scoped'[k].to <= scoped'[l].from \/ scoped'[l].to <= scoped'[k].from
      BY <2>5, <3>3 DEF ScopesOK
    <3>4. \A k \in Employed!Rows(scoped) : scoped'[k].employee = scoped[k].employee
      BY <2>5
    <3> TAKE k, l \in Employed!Rows(scoped)'
    <3> HAVE k # l /\ scoped'[k].employee = scoped'[l].employee
    <3>5. CASE k = n
      BY <2>5, <2>6, <3>1, <3>2, <3>4, <3>5
    <3>6. CASE l = n
      BY <2>5, <2>6, <3>1, <3>2, <3>4, <3>6
    <3>7. CASE k # n /\ l # n
      BY <2>5, <2>6, <3>1, <3>3, <3>4, <3>7
    <3> QED
      BY <3>5, <3>6, <3>7
  <2>12. \A k \in Employed!Rows(scoped)' :
           /\ \E l \in Employed!Rows(scoped)' :
                scoped'[l].employee = scoped'[k].employee /\ scoped'[l].to = Employed!Open'
           /\ scoped'[k].to # Employed!Open' =>
                \E l \in Employed!Rows(scoped)' :
                  scoped'[l].employee = scoped'[k].employee /\ scoped'[l].from = scoped'[k].to
    <3>1. \A k \in Employed!Rows(scoped) : /\ scoped'[k].employee = scoped[k].employee
                                           /\ scoped'[k].from = scoped[k].from
      BY <2>5
    <3> TAKE k \in Employed!Rows(scoped)'
    <3>2. CASE scoped'[k].employee = scoped[m].employee /\ (k = n \/ k = m)
      BY <2>5, <2>6, <2>7, <3>2
    <3>3. CASE k \in Employed!Rows(scoped) /\ k # m
      <4>1. scoped'[k] = scoped[k]
        BY <2>5, <3>3
      <4>2. PICK l \in Employed!Rows(scoped) :
              scoped[l].employee = scoped[k].employee /\ scoped[l].to = Employed!Open
        BY <3>3 DEF ScopesOK
      <4>3. \E j \in Employed!Rows(scoped)' :
              scoped'[j].employee = scoped'[k].employee /\ scoped'[j].to = Employed!Open'
        BY <2>5, <2>6, <2>7, <4>1, <4>2
      <4>4. ASSUME scoped'[k].to # Employed!Open'
            PROVE  \E j \in Employed!Rows(scoped)' :
                     scoped'[j].employee = scoped'[k].employee /\ scoped'[j].from = scoped'[k].to
        <5>1. PICK j \in Employed!Rows(scoped) :
                scoped[j].employee = scoped[k].employee /\ scoped[j].from = scoped[k].to
          BY <2>7, <3>3, <4>1, <4>4 DEF ScopesOK
        <5> QED
          BY <2>6, <3>1, <4>1, <5>1
      <4> QED
        BY <4>3, <4>4
    <3> QED
      BY <2>1, <2>5, <2>6, <3>2, <3>3
  <2> QED
    BY <2>10, <2>11, <2>12 DEF ScopesOK
<1> QED
  BY <1>1, <1>2, <1>3, ScopedStep

-----------------------------------------------------------------------------
(* The people: together *)

PeopleIInv == PeopleType /\ PromotionsOK /\ ScopesOK /\ Employed!ActiveEntities # {}

\* It holds at first,
LEMMA PeopleInit == Employed!Init => PeopleIInv
<1> SUFFICES ASSUME Employed!Init PROVE PeopleIInv
  OBVIOUS
<1>1. PeopleType
  BY DEF Employed!Init, PeopleType, EntityRow, Employed!Rows
<1>2. PromotionsOK /\ ScopesOK
  BY DEF Employed!Init, PromotionsOK, ScopesOK, Employed!Rows
<1>3. 1 \in Employed!ActiveEntities
  BY DEF Employed!Init, Employed!ActiveEntities, Employed!Rows
<1> QED
  BY <1>1, <1>2, <1>3 DEF PeopleIInv

\* and every step keeps it,
LEMMA PeopleStep == PeopleIInv /\ [Employed!Next]_Employed!vars => PeopleIInv'
<1> SUFFICES ASSUME PeopleIInv, [Employed!Next]_Employed!vars PROVE PeopleIInv'
  OBVIOUS
<1>1. CASE Employed!Next
  <2>1. PeopleType /\ PromotionsOK /\ ScopesOK /\ Employed!ActiveEntities # {}
    BY DEF PeopleIInv
  <2>2. employees' \in Seq(EmployeeRow)
    BY <1>1, <2>1, EmployeesGrow
  <2>3. entities' \in Seq(EntityRow) /\ Employed!ActiveEntities' # {}
    BY <1>1, <2>1, EntitiesStep
  <2>4. /\ scoped' \in Seq(ScopeEdge)
        /\ \A k \in Employed!Rows(scoped)' : scoped'[k].employee \in Employed!Rows(employees)'
    BY <1>1, <2>1, ScopedTypeStep
  <2>5. GhostsType' /\ PromotionsOK'
    BY <1>1, <2>1, PromotionsStep
  <2>6. ScopesOK'
    BY <1>1, <2>1, ScopesStep
  <2>7. \A r \in reading' : RequestOK(r)'
    BY <1>1, <2>1, RequestsStay, RequestsRead
  <2>8. PeopleType'
    BY <2>2, <2>3, <2>4, <2>5, <2>7 DEF PeopleType, GhostsType
  <2> QED
    BY <2>3, <2>5, <2>6, <2>8 DEF PeopleIInv
<1>2. CASE UNCHANGED Employed!vars
  <2>1. UNCHANGED <<employees, entities, scoped, ghosts, promoted, reading>>
    BY <1>2 DEF Employed!vars
  <2>2. PeopleType'
    BY <2>1 DEF PeopleIInv, PeopleType, RequestOK, Employed!Rows, Employed!Instants
  <2>3. PromotionsOK'
    BY <2>1 DEF PeopleIInv, PromotionsOK, Employed!Rows
  <2>4. ScopesOK'
    BY <2>1 DEF PeopleIInv, ScopesOK, Employed!Rows, Employed!Instants, Employed!Open
  <2>5. Employed!ActiveEntities' # {}
    BY <2>1 DEF PeopleIInv, Employed!ActiveEntities, Employed!Rows
  <2> QED
    BY <2>2, <2>3, <2>4, <2>5 DEF PeopleIInv
<1> QED
  BY <1>1, <1>2

\* so it holds always.
LEMMA PeopleInvariant == Employed!Spec => []PeopleIInv
  BY PeopleInit, PeopleStep, PTL DEF Employed!Spec

\* A promoted ghost has one edge, another none.
LEMMA PromotedHolds == ASSUME PeopleIInv PROVE Employed!PromotedOnce
<1> SUFFICES ASSUME NEW g \in Employed!Rows(ghosts)
             PROVE  LET edges == {k \in Employed!Rows(promoted) : promoted[k].ghost = g}
                    IN /\ Employed!Cardinality(edges) = IF ghosts[g].status = "Promoted" THEN 1 ELSE 0
                       /\ \A k \in edges : promoted[k].employee = ghosts[g].employee
                       /\ employees[ghosts[g].employee].kind = "Employee" <=> ghosts[g].status = "Promoted"
  BY DEF Employed!PromotedOnce
<1> DEFINE edges == {k \in Employed!Rows(promoted) : promoted[k].ghost = g}
<1>1. PromotionsOK
  BY DEF PeopleIInv
<1>2. CASE ghosts[g].status = "Promoted"
  <2>1. PICK k \in Employed!Rows(promoted) : promoted[k].ghost = g
    BY <1>1, <1>2 DEF PromotionsOK
  <2>2. edges = {k}
    BY <1>1, <2>1 DEF PromotionsOK
  <2>3. Cardinality(edges) = 1
    BY <2>2, FS_Singleton
  <2> QED
    BY <1>1, <1>2, <2>3, PeopleCardinality DEF PromotionsOK
<1>3. CASE ghosts[g].status # "Promoted"
  <2>1. edges = {}
    BY <1>1, <1>3 DEF PromotionsOK
  <2>2. Cardinality(edges) = 0
    BY <2>1, FS_EmptySet
  <2> QED
    BY <1>1, <1>3, <2>2, PeopleCardinality DEF PromotionsOK
<1> QED
  BY <1>2, <1>3

\* Two open edges, or two that hold at one instant, would overlap.
LEMMA InForceHolds == ASSUME PeopleIInv PROVE Employed!EntitiesInForce
<1>0. /\ ScopesOK /\ scoped \in Seq(ScopeEdge)
      /\ \A i \in Employed!Instants : i \in Nat /\ i < Employed!Open
      /\ Employed!Open \in Nat
  BY DEF PeopleIInv, PeopleType, Employed!Instants, Employed!Open
<1>1. \A k \in Employed!Rows(scoped) :
        scoped[k].from \in Nat /\ scoped[k].from < Employed!Open /\ scoped[k].to \in Nat
  <2> TAKE k \in Employed!Rows(scoped)
  <2>1. scoped[k] \in ScopeEdge
    BY <1>0 DEF Employed!Rows
  <2>2. scoped[k].from \in Employed!Instants /\ scoped[k].to \in Employed!Instants \cup {Employed!Open}
    BY <2>1 DEF ScopeEdge
  <2> QED
    BY <1>0, <2>2
<1> SUFFICES ASSUME NEW e \in Employed!Rows(employees)
             PROVE  /\ Employed!ScopeEdges(e) # {} => Employed!Cardinality(Employed!OpenScopes(e)) = 1
                    /\ \A i \in Employed!Instants :
                         Employed!Cardinality(Employed!EntitiesAt(e, i)) <= 1
                    /\ \A k \in Employed!ScopeEdges(e) \ Employed!OpenScopes(e) :
                         \E l \in Employed!ScopeEdges(e) : scoped[l].from = scoped[k].to
  BY DEF Employed!EntitiesInForce, PeopleIInv
<1>2. ASSUME Employed!ScopeEdges(e) # {} PROVE Employed!Cardinality(Employed!OpenScopes(e)) = 1
  <2>1. PICK k \in Employed!OpenScopes(e) : TRUE
    BY <1>0, <1>2 DEF ScopesOK, Employed!ScopeEdges, Employed!OpenScopes
  <2>2. ASSUME NEW l \in Employed!OpenScopes(e) PROVE l = k
    <3>1. /\ k \in Employed!Rows(scoped) /\ scoped[k].employee = e /\ scoped[k].to = Employed!Open
          /\ l \in Employed!Rows(scoped) /\ scoped[l].employee = e /\ scoped[l].to = Employed!Open
      BY <2>1, <2>2 DEF Employed!ScopeEdges, Employed!OpenScopes
    <3>2. /\ scoped[k].from \in Nat /\ scoped[k].from < Employed!Open
          /\ scoped[l].from \in Nat /\ scoped[l].from < Employed!Open
      BY <1>1, <3>1
    <3>3. k # l => Employed!Open <= scoped[l].from \/ Employed!Open <= scoped[k].from
      BY <1>0, <3>1 DEF ScopesOK
    <3> QED
      BY <1>0, <3>2, <3>3
  <2>3. Employed!OpenScopes(e) = {k}
    BY <2>1, <2>2
  <2>4. Cardinality(Employed!OpenScopes(e)) = 1
    BY <2>3, FS_Singleton
  <2> QED
    BY <2>4, PeopleCardinality
<1>3. ASSUME NEW i \in Employed!Instants
      PROVE  Employed!Cardinality(Employed!EntitiesAt(e, i)) <= 1
  <2> DEFINE S == Employed!EntitiesAt(e, i)
  <2>1. ASSUME NEW x \in S, NEW y \in S PROVE x = y
    <3>1. PICK k \in Employed!Rows(scoped) :
            scoped[k].employee = e /\ scoped[k].entity = x /\ scoped[k].from <= i /\ i < scoped[k].to
      BY <2>1 DEF Employed!EntitiesAt, Employed!ScopeEdges
    <3>2. PICK l \in Employed!Rows(scoped) :
            scoped[l].employee = e /\ scoped[l].entity = y /\ scoped[l].from <= i /\ i < scoped[l].to
      BY <2>1 DEF Employed!EntitiesAt, Employed!ScopeEdges
    <3>4. /\ scoped[k].from \in Nat /\ scoped[k].to \in Nat /\ i \in Nat
          /\ scoped[l].from \in Nat /\ scoped[l].to \in Nat
      BY <1>0, <1>1, <3>1, <3>2
    <3>5. k # l => scoped[k].to <= scoped[l].from \/ scoped[l].to <= scoped[k].from
      BY <1>0, <3>1, <3>2 DEF ScopesOK
    <3>3. k = l
      BY <3>1, <3>2, <3>4, <3>5
    <3> QED
      BY <3>1, <3>2, <3>3
  <2> HIDE DEF S
  <2>2. CASE S = {}
    <3>1. Cardinality(S) = 0
      BY <2>2, FS_EmptySet
    <3> QED
      BY <3>1, PeopleCardinality DEF S
  <2>3. CASE S # {}
    <3>1. PICK x \in S : TRUE
      BY <2>3
    <3>2. S = {x}
      BY <2>1, <3>1
    <3>3. Cardinality(S) = 1
      BY <3>2, FS_Singleton
    <3> QED
      BY <3>3, PeopleCardinality DEF S
  <2> QED
    BY <2>2, <2>3
<1>4. ASSUME NEW k \in Employed!ScopeEdges(e) \ Employed!OpenScopes(e)
      PROVE  \E l \in Employed!ScopeEdges(e) : scoped[l].from = scoped[k].to
  BY <1>0 DEF ScopesOK, Employed!ScopeEdges, Employed!OpenScopes
<1> QED
  BY <1>2, <1>3, <1>4

-----------------------------------------------------------------------------
(* The workspace: its members and its people *)

\* Each part runs as its own specification says while the other rests.
THEOREM WorkspaceIsItsParts == WorkspaceSpec => Spec /\ Employed!Spec
<1>1. WorkspaceInit => Init /\ Employed!Init
  BY DEF WorkspaceInit
<1>2. [WorkspaceNext]_allVars => [Next]_vars /\ [Employed!Next]_Employed!vars
  BY DEF WorkspaceNext, OfMembers, OfPeople, allVars, peopleVars, Employed!vars
<1> QED
  BY <1>1, <1>2, PTL DEF WorkspaceSpec, Spec, Employed!Spec

\* Whatever mutations overlap, a ghost is promoted at most once and for good: its employee and
\* the one edge of the promotion say the same as the ghost.
THEOREM PromotedStays == WorkspaceSpec => []PromotedOnce
<1>1. PeopleIInv => PromotedOnce
  BY PromotedHolds DEF PromotedOnce
<1> QED
  BY <1>1, PeopleInvariant, WorkspaceIsItsParts, PTL

\* Whatever is deactivated an entity stays active, and whatever moves overlap an employee is in
\* one entity at a time, without a gap.
THEOREM EntitiesFollow == WorkspaceSpec => []EntitiesInForce
<1>1. PeopleIInv => EntitiesInForce
  BY InForceHolds DEF EntitiesInForce
<1> QED
  BY <1>1, PeopleInvariant, WorkspaceIsItsParts, PTL

\* What holds of the members alone holds in the workspace.
COROLLARY MembersInTheWorkspace == WorkspaceSpec => []AudienceIsCurrent /\ OwnersCapped
  BY AudienceFollowsTheMembers, CapHolds, WorkspaceIsItsParts, PTL

-----------------------------------------------------------------------------
(* What the device shows of the people *)

RoleEdge == [ghost : Nat, open : BOOLEAN]

\* What a link will close is a role of the ghost it is for.
RoleRequestOK(r) ==
  r.op = "role" =>
    /\ r.ghost \in Nat
    /\ r.closes # 0 => r.closes \in Employed!Rows(roles) /\ roles[r.closes].ghost = r.ghost
RolesOK == roles \in Seq(RoleEdge) /\ \A r \in reading : RoleRequestOK(r)

\* A role that is written keeps the ghost of every role before it.
RolesKept(new) ==
  /\ new \in Seq(RoleEdge) /\ Len(new) \in Nat /\ Len(new) >= Len(roles)
  /\ \A k \in Employed!Rows(roles) : new[k].ghost = roles[k].ghost

\* The roles of a state in which roles were kept, and nothing new was read.
LEMMA RolesStay ==
  ASSUME RolesOK, RolesKept(roles'), reading' \subseteq reading
  PROVE  RolesOK'
<1>1. Len(roles) \in Nat /\ Employed!Rows(roles) \subseteq Employed!Rows(roles')
  BY DEF RolesOK, RolesKept, Employed!Rows
<1>2. ASSUME NEW r \in reading' PROVE RoleRequestOK(r)'
  <2>1. RoleRequestOK(r)
    BY <1>2 DEF RolesOK
  <2> QED
    BY <1>1, <2>1 DEF RoleRequestOK, RolesKept, Employed!Rows
<1> QED
  BY <1>2 DEF RolesOK, RolesKept

\* One role more.
LEMMA RoleAdded ==
  ASSUME NEW table \in Seq(RoleEdge), NEW edge \in RoleEdge,
         \A k \in Employed!Rows(roles) : table[k].ghost = roles[k].ghost,
         Len(table) = Len(roles)
  PROVE  RolesKept(Append(table, edge))
<1>1. PICK n : n = Len(roles)
  OBVIOUS
<1>2. n \in Nat /\ Len(table) = n
  BY <1>1
<1>3. PICK new : new = Append(table, edge)
  OBVIOUS
<1>4. new \in Seq(RoleEdge) /\ Len(new) = n + 1 /\ \A k \in 1..n : new[k] = table[k]
  BY <1>2, <1>3
<1> QED
  BY <1>1, <1>2, <1>3, <1>4 DEF RolesKept, Employed!Rows

\* A role closed in place.
RoleClosed(k) == [roles EXCEPT ![k].open = FALSE]
LEMMA RoleCloses ==
  ASSUME roles \in Seq(RoleEdge), NEW k \in Employed!Rows(roles)
  PROVE  /\ RoleClosed(k) \in Seq(RoleEdge) /\ Len(RoleClosed(k)) = Len(roles)
         /\ \A l \in Employed!Rows(roles) : RoleClosed(k)[l].ghost = roles[l].ghost
<1>1. PICK row : row = [roles[k] EXCEPT !.open = FALSE]
  OBVIOUS
<1>2. roles[k] \in RoleEdge
  BY DEF Employed!Rows
<1>3. row \in RoleEdge /\ row.ghost = roles[k].ghost
  BY <1>1, <1>2 DEF RoleEdge
<1>4. RoleClosed(k) = [roles EXCEPT ![k] = row]
  BY <1>1, <1>2 DEF RoleEdge, RoleClosed, Employed!Rows
<1> QED
  BY <1>3, <1>4 DEF Employed!Rows

\* Every call keeps what is known of the roles.
LEMMA RolesStep == RolesOK /\ [Employed!Next]_Employed!vars => RolesOK'
<1> SUFFICES ASSUME RolesOK, [Employed!Next]_Employed!vars PROVE RolesOK'
  OBVIOUS
<1>0. roles \in Seq(RoleEdge) /\ Len(roles) \in Nat
  BY DEF RolesOK
<1>1. RolesKept(roles)
  BY <1>0 DEF RolesKept
<1>2. ASSUME UNCHANGED roles, reading' \subseteq reading PROVE RolesOK'
  BY <1>1, <1>2, RolesStay
<1>3. ASSUME NEW q, Employed!Read(q), RoleRequestOK(q) PROVE RolesOK'
  <2>1. UNCHANGED roles /\ reading' = reading \cup {q}
    BY <1>3 DEF Employed!Read
  <2> QED
    BY <1>3, <2>1 DEF RolesOK, RoleRequestOK, Employed!Rows
<1>4. ASSUME NEW r, Employed!Refused(r) PROVE RolesOK'
  BY <1>2, <1>4 DEF Employed!Refused, Employed!Written
<1>5. CASE Employed!EntityNext \/ Employed!Tick \/ UNCHANGED Employed!vars
  BY <1>2, <1>5 DEF Employed!EntityNext, Employed!EntityCreate, Employed!EntityUpdate,
     Employed!EntityDeactivate, Employed!Tick, Employed!vars
<1>6. ASSUME NEW email, NEW x, NEW i, Employed!EmployeeCreateRead(email, x, i) PROVE RolesOK'
  BY <1>3, <1>6 DEF Employed!EmployeeCreateRead, RoleRequestOK
<1>7. ASSUME NEW e, NEW v, NEW email, Employed!EmployeeUpdateRead(e, v, email) PROVE RolesOK'
  BY <1>3, <1>7 DEF Employed!EmployeeUpdateRead, RoleRequestOK
<1>8. ASSUME NEW e, NEW v, NEW login, Employed!EmployeeLinkUserRead(e, v, login) PROVE RolesOK'
  BY <1>3, <1>8 DEF Employed!EmployeeLinkUserRead, RoleRequestOK
<1>9. ASSUME NEW e, NEW v, NEW s, Employed!EmployeeTransitionStatus(e, v, s) PROVE RolesOK'
  BY <1>2, <1>9 DEF Employed!EmployeeTransitionStatus
<1>10. ASSUME NEW e, NEW x, NEW i, Employed!EmployeeSetEntityRead(e, x, i) PROVE RolesOK'
  BY <1>3, <1>10 DEF Employed!EmployeeSetEntityRead, RoleRequestOK
<1>11. ASSUME NEW r,
              \/ Employed!EmployeeCreateWrite(r) \/ Employed!EmployeeUpdateWrite(r)
              \/ Employed!EmployeeLinkUserWrite(r) \/ Employed!EmployeeSetEntityWrite(r)
       PROVE  RolesOK'
  BY <1>2, <1>4, <1>11 DEF Employed!EmployeeCreateWrite, Employed!EmployeeUpdateWrite,
     Employed!EmployeeLinkUserWrite, Employed!EmployeeSetEntityWrite, Employed!Written
<1>12. ASSUME NEW withRole, Employed!GhostResourceCreate(withRole) PROVE RolesOK'
  <2>1. Len(ghosts) + 1 \in Nat => [ghost |-> Len(ghosts) + 1, open |-> TRUE] \in RoleEdge
    BY DEF RoleEdge
  <2> QED
    BY <1>0, <1>1, <1>12, <2>1, RoleAdded, RolesStay DEF Employed!GhostResourceCreate
<1>13. ASSUME NEW g \in Employed!Rows(ghosts), Employed!GhostResourceLinkOpenRoleRead(g) PROVE RolesOK'
  <2>1. g \in Nat
    BY DEF Employed!Rows
  <2>2. \A k \in Employed!OpenRoles(g) : k \in Employed!Rows(roles) /\ roles[k].ghost = g
    BY DEF Employed!OpenRoles
  <2> QED
    BY <1>3, <1>13, <2>1, <2>2 DEF Employed!GhostResourceLinkOpenRoleRead, RoleRequestOK
<1>14. ASSUME NEW g, NEW v, NEW email,
              Employed!GhostResourceCancel(g, v) \/ Employed!GhostResourcePromote(g, v, email)
       PROVE  RolesOK'
  BY <1>2, <1>14 DEF Employed!GhostResourceCancel, Employed!GhostResourcePromote
<1>15. ASSUME NEW r \in reading, Employed!GhostResourceLinkOpenRoleWrite(r) PROVE RolesOK'
  <2>1. CASE r.closes # 0 /\ ~roles[r.closes].open
    BY <1>4, <1>15, <2>1 DEF Employed!GhostResourceLinkOpenRoleWrite
  <2>2. CASE ~(r.closes # 0 /\ ~roles[r.closes].open)
    <3>1. r.ghost \in Nat /\ (r.closes # 0 => r.closes \in Employed!Rows(roles))
      BY <1>15 DEF RolesOK, RoleRequestOK, Employed!GhostResourceLinkOpenRoleWrite
    <3>2. /\ roles' = Append(IF r.closes = 0 THEN roles ELSE RoleClosed(r.closes),
                             [ghost |-> r.ghost, open |-> TRUE])
          /\ reading' \subseteq reading
      BY <1>15, <2>2 DEF Employed!GhostResourceLinkOpenRoleWrite, Employed!Written, RoleClosed
    <3>3. PICK edge : edge = [ghost |-> r.ghost, open |-> TRUE]
      OBVIOUS
    <3>4. edge \in RoleEdge
      BY <3>1, <3>3 DEF RoleEdge
    <3>5. RolesKept(roles')
      BY <1>0, <3>1, <3>2, <3>3, <3>4, RoleCloses, RoleAdded
    <3> QED
      BY <3>2, <3>5, RolesStay
  <2> QED
    BY <2>1, <2>2
<1> QED
  BY <1>5, <1>6, <1>7, <1>8, <1>9, <1>10, <1>11, <1>12, <1>13, <1>14, <1>15
  DEF Employed!Next, Employed!EmployeeNext, Employed!GhostNext

\* What the device writes in a row besides its version.
LEMMA DeviceRow ==
  ASSUME employees \in Seq(EmployeeRow), NEW e \in Employed!Rows(employees)
  PROVE  /\ \A email : [Employed!Bumped(e) EXCEPT ![e].email = email]
                         = Employed!DeviceEmployeeUpdate(e, email)
         /\ \A user : [Employed!Bumped(e) EXCEPT ![e].user = user]
                        = Employed!DeviceEmployeeLinkUser(e, user)
         /\ \A becomes : [Employed!Bumped(e) EXCEPT ![e].status = becomes]
                           = Employed!DeviceEmployeeTransitionStatus(e, becomes)
<1> DEFINE next == employees[e].version + 1
           b == [employees[e] EXCEPT !.version = next]
<1>1. employees[e] \in EmployeeRow /\ e \in DOMAIN employees
  BY DEF Employed!Rows
<1>2. Employed!Bumped(e) = [employees EXCEPT ![e] = b]
  BY <1>1 DEF Employed!Bumped
<1> HIDE DEF next
<1>3. \A x : /\ [b EXCEPT !.email = x] = [[employees[e] EXCEPT !.email = x] EXCEPT !.version = next]
             /\ [b EXCEPT !.user = x] = [[employees[e] EXCEPT !.user = x] EXCEPT !.version = next]
             /\ [b EXCEPT !.status = x] = [[employees[e] EXCEPT !.status = x] EXCEPT !.version = next]
  BY <1>1 DEF EmployeeRow
<1>4. \A new : [[employees EXCEPT ![e] = b] EXCEPT ![e] = new] = [employees EXCEPT ![e] = new]
  BY <1>1
<1>5. [employees EXCEPT ![e] = b][e] = b
  BY <1>1
<1> HIDE DEF b
<1>6. PICK t : t = Employed!Bumped(e)
  OBVIOUS
<1>7. \A x : /\ [t EXCEPT ![e].email = x] = [t EXCEPT ![e] = [t[e] EXCEPT !.email = x]]
             /\ [t EXCEPT ![e].user = x] = [t EXCEPT ![e] = [t[e] EXCEPT !.user = x]]
             /\ [t EXCEPT ![e].status = x] = [t EXCEPT ![e] = [t[e] EXCEPT !.status = x]]
  OBVIOUS
<1>8. ASSUME NEW x
      PROVE  /\ [t EXCEPT ![e].email = x] = Employed!DeviceEmployeeUpdate(e, x)
             /\ [t EXCEPT ![e].user = x] = Employed!DeviceEmployeeLinkUser(e, x)
             /\ [t EXCEPT ![e].status = x] = Employed!DeviceEmployeeTransitionStatus(e, x)
  <2>1. t[e] = b /\ \A new : [t EXCEPT ![e] = new] = [employees EXCEPT ![e] = new]
    BY <1>2, <1>4, <1>5, <1>6
  <2>2. [t EXCEPT ![e].email = x] = Employed!DeviceEmployeeUpdate(e, x)
    BY <1>3, <1>7, <2>1 DEF Employed!DeviceEmployeeUpdate, Employed!DeviceWrite, next
  <2>3. [t EXCEPT ![e].user = x] = Employed!DeviceEmployeeLinkUser(e, x)
    BY <1>3, <1>7, <2>1 DEF Employed!DeviceEmployeeLinkUser, Employed!DeviceWrite, next
  <2>4. [t EXCEPT ![e].status = x] = Employed!DeviceEmployeeTransitionStatus(e, x)
    BY <1>3, <1>7, <2>1 DEF Employed!DeviceEmployeeTransitionStatus, Employed!DeviceWrite, next
  <2> QED
    BY <2>2, <2>3, <2>4
<1> QED
  BY <1>6, <1>8

\* A version counted up, and a status that changes, as the device writes them.
LEMMA DeviceEntityRow ==
  ASSUME entities \in Seq(EntityRow), NEW x \in Employed!Rows(entities)
  PROVE  /\ [entities EXCEPT ![x].version = entities[x].version + 1] = Employed!DeviceEntityUpdate(x)
         /\ [entities EXCEPT ![x].status = "Dissolved", ![x].version = entities[x].version + 1]
              = Employed!DeviceEntityDeactivate(x)
<1>1. entities[x] \in EntityRow /\ x \in DOMAIN entities
  BY DEF Employed!Rows
<1> QED
  BY <1>1 DEF EntityRow, Employed!DeviceEntityUpdate, Employed!DeviceEntityDeactivate,
              Employed!DeviceWrite

\* The same of a ghost.
LEMMA DeviceGhostRow ==
  ASSUME ghosts \in Seq(GhostRow), NEW g \in Employed!Rows(ghosts)
  PROVE  [ghosts EXCEPT ![g].status = "Canceled", ![g].version = ghosts[g].version + 1]
           = Employed!DeviceGhostResourceCancel(g)
<1>1. ghosts[g] \in GhostRow /\ g \in DOMAIN ghosts
  BY DEF Employed!Rows
<1> QED
  BY <1>1 DEF GhostRow, Employed!DeviceGhostResourceCancel, Employed!DeviceWrite

\* Of an employee's edges one is open.
LEMMA OpenIsOne ==
  ASSUME PeopleIInv, NEW k \in Employed!Rows(scoped), scoped[k].to = Employed!Open
  PROVE  Employed!OpenScopes(scoped[k].employee) = {k}
<1> DEFINE e == scoped[k].employee
<1>0. ScopesOK /\ scoped \in Seq(ScopeEdge)
  BY DEF PeopleIInv, PeopleType
<1>1. ASSUME NEW l \in Employed!OpenScopes(e) PROVE l = k
  <2>1. l \in Employed!Rows(scoped) /\ scoped[l].employee = e /\ scoped[l].to = Employed!Open
    BY <1>1 DEF Employed!ScopeEdges, Employed!OpenScopes
  <2>2. scoped[k].from \in Employed!Instants /\ scoped[l].from \in Employed!Instants
    BY <1>0, <2>1 DEF ScopesOK
  <2>3. \A i \in Employed!Instants : ~(Employed!Open <= i)
    BY PeopleAssumption DEF Employed!Instants, Employed!Open
  <2>4. k # l => Employed!Open <= scoped[l].from \/ Employed!Open <= scoped[k].from
    BY <1>0, <2>1 DEF ScopesOK
  <2> QED
    BY <2>2, <2>3, <2>4
<1>2. k \in Employed!OpenScopes(e)
  BY DEF Employed!ScopeEdges, Employed!OpenScopes
<1> QED
  BY <1>1, <1>2

\* A move writes the edges the device has shown.
LEMMA MoveIsShown ==
  ASSUME PeopleIInv, NEW r \in reading, Employed!EmployeeSetEntityWrite(r), scoped' # scoped
  PROVE  scoped' = Employed!DeviceEmployeeSetEntity(scoped[r.edge].employee, r.entity, r.from)
<1> DEFINE e == scoped[r.edge].employee
<1>1. r.op = "move" /\ r.edge \in Employed!Rows(scoped)
  BY DEF Employed!EmployeeSetEntityWrite, PeopleIInv, PeopleType, RequestOK
<1>2. /\ Employed!Closes(r.edge, r.from)
      /\ scoped' = Append([scoped EXCEPT ![r.edge].to = r.from],
                          [employee |-> e, entity |-> r.entity, from |-> r.from, to |-> Employed!Open])
  BY DEF Employed!EmployeeSetEntityWrite, Employed!Refused
<1>3. Employed!OpenScopes(e) = {r.edge}
  BY <1>1, <1>2, OpenIsOne DEF Employed!Closes
<1>4. scoped[r.edge].from \in Nat
  BY <1>1 DEF PeopleIInv, ScopesOK, Employed!Instants
<1>5. (CHOOSE k \in {r.edge} : \A l \in {r.edge} : scoped[k].from <= scoped[l].from) = r.edge
  BY <1>4
<1> QED
  BY <1>2, <1>3, <1>5 DEF Employed!DeviceEmployeeSetEntity, Employed!DeviceScope

\* A role that is linked is the one the device has shown, unless another was linked meanwhile.
LEMMA LinkIsShown ==
  ASSUME RolesOK, NEW r \in reading, Employed!GhostResourceLinkOpenRoleWrite(r), roles' # roles,
         Employed!OpenRoles(r.ghost) \subseteq {r.closes}
  PROVE  roles' = Employed!DeviceGhostResourceLinkOpenRole(r.ghost)
<1> DEFINE c == r.closes
           open == Employed!OpenRoles(r.ghost)
           prior == IF open = {} THEN {} ELSE {CHOOSE k \in open : \A l \in open : k <= l}
           shown == [k \in Employed!Rows(roles) |-> [roles[k] EXCEPT !.open = roles[k].open /\ k \notin prior]]
<1>0. roles \in Seq(RoleEdge) /\ DOMAIN roles = Employed!Rows(roles)
      /\ \A k \in Employed!Rows(roles) : roles[k] \in RoleEdge
  BY DEF RolesOK, Employed!Rows
<1>1. /\ c # 0 => c \in Employed!Rows(roles) /\ roles[c].ghost = r.ghost
      /\ c # 0 => roles[c].open
      /\ roles' = Append(IF c = 0 THEN roles ELSE [roles EXCEPT ![c].open = FALSE],
                         [ghost |-> r.ghost, open |-> TRUE])
  BY DEF RolesOK, RoleRequestOK, Employed!GhostResourceLinkOpenRoleWrite, Employed!Refused
<1>2. Employed!DeviceGhostResourceLinkOpenRole(r.ghost)
        = Append(shown, [ghost |-> r.ghost, open |-> TRUE])
  BY DEF Employed!DeviceGhostResourceLinkOpenRole
<1>3. CASE c = 0
  <2>1. open = {}
    BY <1>3 DEF Employed!OpenRoles, Employed!Rows
  <2>2. prior = {}
    BY <2>1
  <2> HIDE DEF prior
  <2>3. \A k \in Employed!Rows(roles) : [roles[k] EXCEPT !.open = roles[k].open /\ k \notin prior] = roles[k]
    BY <1>0, <2>2 DEF RoleEdge
  <2>4. shown = roles
    BY <1>0, <2>3
  <2> QED
    BY <1>1, <1>2, <1>3, <2>4
<1>4. CASE c # 0
  <2>1. open = {c} /\ c \in Nat
    BY <1>1, <1>4 DEF Employed!OpenRoles, Employed!Rows
  <2>2. (CHOOSE k \in {c} : \A l \in {c} : k <= l) = c
    BY <2>1
  <2>3. prior = {c}
    BY <2>1, <2>2
  <2> HIDE DEF prior
  <2>4. \A k \in Employed!Rows(roles) :
          [roles[k] EXCEPT !.open = roles[k].open /\ k \notin prior]
            = IF k = c THEN [roles[c] EXCEPT !.open = FALSE] ELSE roles[k]
    BY <1>0, <2>3 DEF RoleEdge
  <2>5. shown = [roles EXCEPT ![c].open = FALSE]
    BY <1>0, <1>1, <1>4, <2>4
  <2> QED
    BY <1>1, <1>2, <1>4, <2>5
<1> QED
  BY <1>3, <1>4

PeopleShown ==
  (\A r \in reading \ reading' : Employed!CallShown(r))
    /\ Employed!EntityShown /\ Employed!StatusShown /\ Employed!GhostShown

\* A step that takes no call up again and leaves entities, employees and ghosts shows nothing.
LEMMA NothingShown ==
  ASSUME reading \subseteq reading', UNCHANGED <<entities, employees, ghosts>>
  PROVE  PeopleShown
  BY DEF PeopleShown, Employed!EntityShown, Employed!StatusShown, Employed!GhostShown

\* A refused write shows nothing either, but a create is never refused.
LEMMA RefusedShown ==
  ASSUME NEW r, Employed!Refused(r), r.op # "create"
  PROVE  PeopleShown
<1>1. /\ UNCHANGED <<entities, employees, scoped, ghosts, roles>>
      /\ \A q \in reading \ reading' : q = r
  BY DEF Employed!Refused, Employed!Written
<1> QED
  BY <1>1 DEF PeopleShown, Employed!CallShown, Employed!EntityShown, Employed!StatusShown,
     Employed!GhostShown

\* A write of employees or of edges by a call that had read.
LEMMA WrittenShown ==
  ASSUME NEW r \in reading, Employed!Written(r), UNCHANGED <<entities, ghosts>>,
         Employed!CallShown(r)
  PROVE  PeopleShown
<1>1. reading' # reading /\ \A q \in reading \ reading' : q = r
  BY DEF Employed!Written
<1> QED
  BY <1>1 DEF PeopleShown, Employed!EntityShown, Employed!StatusShown, Employed!GhostShown

\* The calls on entities.
LEMMA EntitiesShown ==
  ASSUME PeopleIInv, Employed!EntityNext
  PROVE  PeopleShown
<1>0. entities \in Seq(EntityRow)
  BY DEF PeopleIInv, PeopleType
<1>1. UNCHANGED <<employees, ghosts, reading>>
  BY DEF Employed!EntityNext, Employed!EntityCreate, Employed!EntityUpdate, Employed!EntityDeactivate
<1>2. Employed!EntityShown
  <2>1. CASE Employed!EntityCreate
    BY <2>1 DEF Employed!EntityCreate, Employed!EntityShown, Employed!DeviceEntityCreate
  <2>2. ASSUME NEW x \in Employed!Rows(entities), Employed!EntityUpdate(x) PROVE Employed!EntityShown
    <3>1. entities' = [entities EXCEPT ![x].version = entities[x].version + 1]
      BY <2>2 DEF Employed!EntityUpdate
    <3>2. entities[x] \in EntityRow /\ x \in DOMAIN entities
      BY <1>0 DEF Employed!Rows
    <3>3. entities'[x].status = entities[x].status
      BY <3>1, <3>2 DEF EntityRow
    <3>4. entities' = Employed!DeviceEntityUpdate(x)
      BY <1>0, <3>1, DeviceEntityRow
    <3> QED
      BY <3>3, <3>4 DEF Employed!EntityShown
  <2>3. ASSUME NEW x \in Employed!Rows(entities), NEW v, Employed!EntityDeactivate(x, v)
        PROVE  Employed!EntityShown
    <3>1. /\ entities' = [entities EXCEPT ![x].status = "Dissolved",
                                          ![x].version = entities[x].version + 1]
          /\ entities[x].status = "Active"
      BY <2>3 DEF Employed!EntityDeactivate, Employed!ActiveEntities
    <3>2. entities[x] \in EntityRow /\ x \in DOMAIN entities
      BY <1>0 DEF Employed!Rows
    <3>3. entities'[x].status # entities[x].status
      BY <3>1, <3>2 DEF EntityRow
    <3>4. entities' = Employed!DeviceEntityDeactivate(x)
      BY <1>0, <3>1, DeviceEntityRow
    <3> QED
      BY <3>3, <3>4 DEF Employed!EntityShown
  <2> QED
    BY <2>1, <2>2, <2>3 DEF Employed!EntityNext
<1> QED
  BY <1>1, <1>2 DEF PeopleShown, Employed!StatusShown, Employed!GhostShown

\* The calls on ghosts that are not told apart by a request.
LEMMA GhostsShown ==
  ASSUME PeopleIInv, RolesOK,
         \/ \E withRole \in BOOLEAN : Employed!GhostResourceCreate(withRole)
         \/ \E g \in Employed!Rows(ghosts) : \E v :
              \/ Employed!GhostResourceCancel(g, v)
              \/ \E email : Employed!GhostResourcePromote(g, v, email)
  PROVE  PeopleShown
<1>0. /\ ghosts \in Seq(GhostRow) /\ Len(ghosts) \in Nat
      /\ \A g \in Employed!Rows(ghosts) : ghosts[g] \in GhostRow /\ g \in DOMAIN ghosts
      /\ roles \in Seq(RoleEdge) /\ Len(roles) \in Nat
  BY DEF PeopleIInv, PeopleType, RolesOK, Employed!Rows
<1>1. UNCHANGED <<entities, reading>>
  BY DEF Employed!GhostResourceCreate, Employed!GhostResourceCancel, Employed!GhostResourcePromote
<1>2. ASSUME NEW withRole \in BOOLEAN, Employed!GhostResourceCreate(withRole) PROVE PeopleShown
  <2>1. Len(ghosts') > Len(ghosts) /\ Len(ghosts') # Len(ghosts) /\ ghosts' # ghosts
    BY <1>0, <1>2 DEF Employed!GhostResourceCreate
  <2>2. PICK edge : edge = [ghost |-> Len(ghosts) + 1, open |-> TRUE]
    OBVIOUS
  <2>3. roles' # roles <=> withRole
    <3>1. withRole => Len(roles') = Len(roles) + 1
      BY <1>0, <1>2 DEF Employed!GhostResourceCreate
    <3>2. ~withRole => roles' = roles
      BY <1>2 DEF Employed!GhostResourceCreate
    <3>3. withRole => Len(roles') # Len(roles)
      BY <1>0, <3>1
    <3> QED
      BY <3>2, <3>3
  <2>4. roles \o <<edge>> = Append(roles, edge) /\ roles \o <<>> = roles
    BY <1>0
  <2>5. roles' = roles \o (IF withRole THEN <<edge>> ELSE <<>>)
    BY <1>2, <2>2, <2>4 DEF Employed!GhostResourceCreate
  <2>6. [employees |-> employees', ghosts |-> ghosts', roles |-> roles']
          = Employed!DeviceGhostResourceCreate(withRole)
    BY <1>2, <2>2, <2>5 DEF Employed!GhostResourceCreate, Employed!DeviceGhostResourceCreate
  <2>7. Employed!DeviceGhostResourceCreate(roles' # roles) = Employed!DeviceGhostResourceCreate(withRole)
    BY <2>3 DEF Employed!DeviceGhostResourceCreate
  <2> QED
    BY <1>1, <2>1, <2>6, <2>7 DEF PeopleShown, Employed!EntityShown, Employed!StatusShown, Employed!GhostShown
<1>3. ASSUME NEW g \in Employed!Rows(ghosts), NEW v, Employed!GhostResourceCancel(g, v) PROVE PeopleShown
  <2>1. /\ ghosts' = [ghosts EXCEPT ![g].status = "Canceled", ![g].version = ghosts[g].version + 1]
        /\ employees' = employees
    BY <1>3 DEF Employed!GhostResourceCancel
  <2>2. ghosts' = Employed!DeviceGhostResourceCancel(g)
    BY <1>0, <2>1, DeviceGhostRow
  <2>3. /\ Len(ghosts') = Len(ghosts)
        /\ \A h \in Employed!Rows(ghosts) : h # g => ghosts'[h] = ghosts[h]
    BY <1>0, <2>1 DEF Employed!Rows
  <2>4. Employed!GhostShown
    <3>1. ~(Len(ghosts') > Len(ghosts))
      BY <1>0, <2>3
    <3>2. ASSUME NEW h \in Employed!Rows(ghosts), ghosts'[h] # ghosts[h]
          PROVE  ghosts' = Employed!DeviceGhostResourceCancel(h)
      BY <2>2, <2>3, <3>2
    <3> QED
      BY <3>1, <3>2 DEF Employed!GhostShown
  <2>5. Employed!StatusShown
    BY <2>1 DEF Employed!StatusShown
  <2> QED
    BY <1>1, <2>4, <2>5 DEF PeopleShown, Employed!EntityShown
<1>4. ASSUME NEW g \in Employed!Rows(ghosts), NEW v, NEW email, Employed!GhostResourcePromote(g, v, email)
      PROVE  PeopleShown
  <2>1. /\ ghosts' = [ghosts EXCEPT ![g].status = "Promoted", ![g].version = ghosts[g].version + 1]
        /\ ghosts[g].status = "Active"
    BY <1>4 DEF Employed!GhostResourcePromote
  <2>2. /\ Len(ghosts') = Len(ghosts) /\ ghosts'[g].status = "Promoted"
        /\ \A h \in Employed!Rows(ghosts) : h # g => ghosts'[h] = ghosts[h]
    BY <1>0, <2>1 DEF Employed!Rows, GhostRow
  <2>3. ghosts' # ghosts
    BY <2>1, <2>2
  <2> QED
    BY <1>0, <1>1, <2>2, <2>3
    DEF PeopleShown, Employed!EntityShown, Employed!StatusShown, Employed!GhostShown
<1> QED
  BY <1>2, <1>3, <1>4

\* The writes of calls that had read.
LEMMA CallsShown ==
  ASSUME PeopleIInv, RolesOK, NEW r \in reading,
         \/ Employed!EmployeeCreateWrite(r) \/ Employed!EmployeeUpdateWrite(r)
         \/ Employed!EmployeeLinkUserWrite(r) \/ Employed!EmployeeSetEntityWrite(r)
         \/ Employed!GhostResourceLinkOpenRoleWrite(r)
  PROVE  PeopleShown
<1>0. employees \in Seq(EmployeeRow) /\ RequestOK(r)
  BY DEF PeopleIInv, PeopleType
<1>1. CASE Employed!EmployeeCreateWrite(r)
  <2>1. /\ r.op = "create" /\ Employed!Written(r) /\ UNCHANGED <<entities, ghosts>>
        /\ [employees |-> employees', scoped |-> scoped'] =
             Employed!DeviceEmployeeCreate(r.email, r.entity, r.from)
    BY <1>1 DEF Employed!EmployeeCreateWrite, Employed!DeviceEmployeeCreate, Employed!DeviceScope
  <2>2. Employed!CallShown(r)
    BY <2>1 DEF Employed!CallShown
  <2> QED
    BY <2>1, <2>2, WrittenShown
<1>2. CASE Employed!EmployeeUpdateWrite(r)
  <2>1. r.op = "update" /\ r.employee \in Employed!Rows(employees)
    BY <1>0, <1>2 DEF Employed!EmployeeUpdateWrite, RequestOK
  <2>2. CASE Employed!Refused(r)
    BY <2>1, <2>2, RefusedShown
  <2>3. CASE ~Employed!Refused(r)
    <3>1. /\ Employed!Written(r) /\ UNCHANGED <<entities, ghosts>>
          /\ employees' = [Employed!Bumped(r.employee) EXCEPT ![r.employee].email = r.email]
      BY <1>2, <2>3 DEF Employed!EmployeeUpdateWrite
    <3>2. employees' = Employed!DeviceEmployeeUpdate(r.employee, r.email)
      BY <1>0, <2>1, <3>1, DeviceRow
    <3>3. Employed!CallShown(r)
      BY <2>1, <3>2 DEF Employed!CallShown
    <3> QED
      BY <3>1, <3>3, WrittenShown
  <2> QED
    BY <2>2, <2>3
<1>3. CASE Employed!EmployeeLinkUserWrite(r)
  <2>1. r.op = "link" /\ r.employee \in Employed!Rows(employees)
    BY <1>0, <1>3 DEF Employed!EmployeeLinkUserWrite, RequestOK
  <2>2. CASE Employed!Refused(r)
    BY <2>1, <2>2, RefusedShown
  <2>3. CASE ~Employed!Refused(r)
    <3>1. /\ Employed!Written(r) /\ UNCHANGED <<entities, ghosts>>
          /\ employees' = [Employed!Bumped(r.employee) EXCEPT ![r.employee].user = r.user]
      BY <1>3, <2>3 DEF Employed!EmployeeLinkUserWrite
    <3>2. employees' = Employed!DeviceEmployeeLinkUser(r.employee, r.user)
      BY <1>0, <2>1, <3>1, DeviceRow
    <3>3. Employed!CallShown(r)
      BY <2>1, <3>2 DEF Employed!CallShown
    <3> QED
      BY <3>1, <3>3, WrittenShown
  <2> QED
    BY <2>2, <2>3
<1>4. CASE Employed!EmployeeSetEntityWrite(r)
  <2>1. r.op = "move"
    BY <1>4 DEF Employed!EmployeeSetEntityWrite
  <2>2. CASE Employed!Refused(r)
    BY <2>1, <2>2, RefusedShown
  <2>3. CASE ~Employed!Refused(r)
    <3>1. Employed!Written(r) /\ UNCHANGED <<entities, ghosts>>
      BY <1>4, <2>3 DEF Employed!EmployeeSetEntityWrite
    <3>2. Employed!CallShown(r)
      BY <1>4, <2>1, MoveIsShown DEF Employed!CallShown
    <3> QED
      BY <3>1, <3>2, WrittenShown
  <2> QED
    BY <2>2, <2>3
<1>5. CASE Employed!GhostResourceLinkOpenRoleWrite(r)
  <2>1. r.op = "role"
    BY <1>5 DEF Employed!GhostResourceLinkOpenRoleWrite
  <2>2. CASE Employed!Refused(r)
    BY <2>1, <2>2, RefusedShown
  <2>3. CASE ~Employed!Refused(r)
    <3>1. Employed!Written(r) /\ UNCHANGED <<entities, ghosts>>
      BY <1>5, <2>3 DEF Employed!GhostResourceLinkOpenRoleWrite
    <3>2. Employed!CallShown(r)
      BY <1>5, <2>1, LinkIsShown DEF Employed!CallShown
    <3> QED
      BY <3>1, <3>2, WrittenShown
  <2> QED
    BY <2>2, <2>3
<1> QED
  BY <1>1, <1>2, <1>3, <1>4, <1>5

\* A change of status.
LEMMA StatusIsShown ==
  ASSUME PeopleIInv, NEW e \in Employed!Rows(employees), NEW v, NEW becomes,
         Employed!EmployeeTransitionStatus(e, v, becomes)
  PROVE  PeopleShown
<1>0. employees \in Seq(EmployeeRow) /\ UNCHANGED <<entities, ghosts, reading>>
  BY DEF PeopleIInv, PeopleType, Employed!EmployeeTransitionStatus
<1>1. employees' = Employed!DeviceEmployeeTransitionStatus(e, becomes)
  BY <1>0, DeviceRow DEF Employed!EmployeeTransitionStatus
<1> DEFINE next == employees[e].version + 1
           row == [[employees[e] EXCEPT !.status = becomes] EXCEPT !.version = next]
<1>2. employees' = [employees EXCEPT ![e] = row]
  BY <1>1 DEF Employed!DeviceEmployeeTransitionStatus, Employed!DeviceWrite
<1> HIDE DEF next
<1>3. row.status = becomes
  <2>1. employees[e] \in EmployeeRow
    BY <1>0 DEF Employed!Rows
  <2> QED
    BY <2>1 DEF EmployeeRow
<1> HIDE DEF row
<1>4. /\ employees'[e] = row
      /\ \A f \in Employed!Rows(employees) : f # e => employees'[f] = employees[f]
  BY <1>0, <1>2 DEF Employed!Rows
<1>5. Employed!StatusShown
  BY <1>1, <1>3, <1>4 DEF Employed!StatusShown
<1> QED
  BY <1>0, <1>5 DEF PeopleShown, Employed!EntityShown, Employed!GhostShown

\* Whatever call commits, the device has shown it.
LEMMA PeopleShownStep ==
  PeopleIInv /\ RolesOK /\ [Employed!Next]_Employed!vars => [PeopleShown]_Employed!vars
<1> SUFFICES ASSUME PeopleIInv, RolesOK, Employed!Next PROVE PeopleShown
  OBVIOUS
<1>1. CASE Employed!Tick
  BY <1>1, NothingShown DEF Employed!Tick
<1>2. CASE Employed!EntityNext
  BY <1>2, EntitiesShown
<1>3. ASSUME NEW q, Employed!Read(q) PROVE PeopleShown
  BY <1>3, NothingShown DEF Employed!Read
<1>4. CASE Employed!EmployeeNext
  <2>1. ASSUME NEW email, NEW x, NEW i, Employed!EmployeeCreateRead(email, x, i) PROVE PeopleShown
    BY <1>3, <2>1 DEF Employed!EmployeeCreateRead
  <2>2. ASSUME NEW e, NEW v, NEW email, Employed!EmployeeUpdateRead(e, v, email) PROVE PeopleShown
    BY <1>3, <2>2 DEF Employed!EmployeeUpdateRead
  <2>3. ASSUME NEW e, NEW v, NEW login, Employed!EmployeeLinkUserRead(e, v, login) PROVE PeopleShown
    BY <1>3, <2>3 DEF Employed!EmployeeLinkUserRead
  <2>4. ASSUME NEW e, NEW x, NEW i, Employed!EmployeeSetEntityRead(e, x, i) PROVE PeopleShown
    BY <1>3, <2>4 DEF Employed!EmployeeSetEntityRead
  <2> QED
    BY <1>4, <2>1, <2>2, <2>3, <2>4, CallsShown, StatusIsShown DEF Employed!EmployeeNext
<1>5. CASE Employed!GhostNext
  <2>1. ASSUME NEW g, Employed!GhostResourceLinkOpenRoleRead(g) PROVE PeopleShown
    BY <1>3, <2>1 DEF Employed!GhostResourceLinkOpenRoleRead
  <2> QED
    BY <1>5, <2>1, CallsShown, GhostsShown DEF Employed!GhostNext
<1> QED
  BY <1>1, <1>2, <1>4, <1>5 DEF Employed!Next

\* Whatever the server makes of a call on employees, entities or ghosts, the device has shown it.
THEOREM PeopleAreShown == WorkspaceSpec => ShownAsDelivered
<1>1. Employed!Init => RolesOK
  BY DEF Employed!Init, RolesOK
<1>2. Employed!Spec => [](PeopleIInv /\ RolesOK)
  BY <1>1, PeopleInvariant, RolesStep, PTL DEF Employed!Spec
<1>3. Employed!ShownAsDelivered <=> [][PeopleShown]_Employed!vars
  BY DEF Employed!ShownAsDelivered, PeopleShown
<1> QED
  BY <1>2, <1>3, PeopleShownStep, WorkspaceIsItsParts, PTL DEF ShownAsDelivered, Employed!Spec

=============================================================================
