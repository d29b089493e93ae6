-------------------------- MODULE SyncEngineProofs --------------------------
(***************************************************************************)
(* What TLAPS proves of the devices of a person, for every number of       *)
(* mutations, rows, faults, tabs, engines, workspaces and calls: of the    *)
(* upload path, of the engine that adds a cache to it, of the sessions of  *)
(* the worker that holds engines, of the trust in the devices, and of the  *)
(* composition of the three that TLC checks.                               *)
(***************************************************************************)
EXTENDS MCSyncEngine, FiniteSetTheorems, TLAPS

USE SyncUploadAssumption, SyncEngineAssumption

-----------------------------------------------------------------------------
(* The inductive invariant *)

\* Rows exist up to the last seq only.
IssuedPrefix == \A m \in Muts : m > issued => status[m] = "none" /\ m \notin seen

\* A request never skips an undecided mutation older than one it carries, and
\* its answers are the stored outcomes.
RequestOK(r, decided) ==
  /\ \A m \in r.todo : \A k \in 1..(m - 1) : k \in r.todo \/ decided[k] # "none"
  /\ \A m \in Muts : r.answers[m] \in {"applied", "rejected"} => decided[m] = r.answers[m]

RequestsOK ==
  /\ phase \in {"upload", "answered", "settle"} => RequestOK(wire, stored)
  /\ \A r \in late : RequestOK(r, stored)

\* The rows in flight are those of the request the run waits for.
WireMatchesRows ==
  /\ phase \in {"answered", "settle"} => wire.todo = {}
  /\ phase \in {"upload", "answered", "settle"} =>
       \A m \in Muts : status[m] = "inflight" <=> (m \in wire.todo \/ wire.answers[m] # "none")

Safe ==
  /\ DecidedInOrder
  /\ NeverSilentlyDropped
  /\ ShownAsDecided
  /\ NothingStranded

IInv == TypeOK /\ IssuedPrefix /\ RequestsOK /\ WireMatchesRows /\ Safe

-----------------------------------------------------------------------------
(* Lemmas about the operators *)

\* A batch takes no row before an older one that waits as well.
LEMMA NextPendingIsPrefix ==
  ASSUME NEW m \in NextPending, NEW k \in RowsWith("pending"), k <= m
  PROVE  k \in NextPending
<1> DEFINE UpTo(n) == {j \in RowsWith("pending") : j <= n}
<1>1. IsFiniteSet(UpTo(m))
  <2>1. IsFiniteSet(1..MaxMutations)
    BY FS_Interval
  <2>2. UpTo(m) \subseteq 1..MaxMutations
    BY DEF RowsWith, Muts
  <2> QED
    BY <2>1, <2>2, FS_Subset
<1>2. UpTo(k) \subseteq UpTo(m)
  BY DEF RowsWith, Muts, NextPending
<1>3. Cardinality(UpTo(k)) <= Cardinality(UpTo(m)) /\ IsFiniteSet(UpTo(k))
  BY <1>1, <1>2, FS_Subset
<1>4. Cardinality(UpTo(k)) \in Nat /\ Cardinality(UpTo(m)) \in Nat
  BY <1>1, <1>3, FS_CardinalityType
<1>5. Cardinality(UpTo(m)) <= UploadBatch
  BY DEF NextPending
<1>6. Cardinality(UpTo(k)) <= UploadBatch
  BY <1>3, <1>4, <1>5
<1> QED
  BY <1>6 DEF NextPending

LEMMA NextPendingIsPending == NextPending \subseteq RowsWith("pending")
  BY DEF NextPending

\* Settling one mutation keeps every other outcome, and decides that one.
LEMMA SettledAsKeeps ==
  ASSUME TypeOK, NEW m \in Muts, NEW o \in {"applied", "rejected"}, SettledAs(m, o)
  PROVE  /\ stored' \in [Muts -> Outcomes]
         /\ stored'[m] = o
         /\ \A k \in Muts : stored[k] # "none" => stored'[k] = stored[k]
         /\ \A k \in Muts : k # m => stored'[k] = stored[k]
  BY DEF SettledAs, TypeOK, Outcomes

-----------------------------------------------------------------------------
(* Type correctness *)

LEMMA AnsweredWithType ==
  ASSUME NEW r \in Request, NEW m \in r.todo, NEW o \in {"applied", "rejected"}
  PROVE  AnsweredWith(r, m, o) \in Request
<1>1. r.todo \in SUBSET Muts /\ r.answers \in [Muts -> Answers]
  BY DEF Request
<1>2. CASE o = "rejected"
  <2>1. [k \in Muts |-> IF k = m THEN "rejected" ELSE IF k \in r.todo THEN "blocked"
                         ELSE r.answers[k]] \in [Muts -> Answers]
    BY <1>1 DEF Answers, Outcomes
  <2> QED
    BY <1>2, <2>1 DEF AnsweredWith, Request
<1>3. CASE o = "applied"
  <2>1. [r.answers EXCEPT ![m] = "applied"] \in [Muts -> Answers]
    BY <1>1 DEF Answers, Outcomes
  <2>2. r.todo \ {m} \in SUBSET Muts
    BY <1>1
  <2> QED
    BY <1>3, <2>1, <2>2 DEF AnsweredWith, Request
<1> QED
  BY <1>2, <1>3

LEMMA NoRequestType == NoRequest \in Request
  BY DEF NoRequest, NoAnswers, Request, Answers, Outcomes

LEMMA TypeInit == Init => TypeOK
<1> SUFFICES ASSUME Init
             PROVE  TypeOK
  OBVIOUS
<1>1. status \in [Muts -> Status] /\ stored \in [Muts -> Outcomes]
  BY DEF Init, Status, Outcomes
<1>2. wire \in Request
  BY NoRequestType DEF Init
<1>3. late \in SUBSET Request /\ calls \in SUBSET Calls /\ seen \in SUBSET Muts
  BY Zenon DEF Init
<1>4. issued \in 0..MaxMutations /\ faults \in 0..MaxFaults
  BY DEF Init
<1> QED
  BY <1>1, <1>2, <1>3, <1>4 DEF Init, TypeOK, Phases

LEMMA RequeuedType == TypeOK => Requeued \in [Muts -> Status]
  BY DEF TypeOK, Requeued, Status

LEMMA TypeStep == TypeOK /\ [Next]_vars => TypeOK'
<1> SUFFICES ASSUME TypeOK, [Next]_vars
             PROVE  TypeOK'
  OBVIOUS
<1> USE DEF TypeOK
<1>1. CASE Start
  BY <1>1, RequeuedType DEF Start, Calls, Phases
<1>2. CASE DrainCall
  BY <1>2 DEF DrainCall, DrainOrJoin, Phases
<1>3. CASE SelectNothing
  BY <1>3 DEF SelectNothing, LoopOrClose, Phases
<1>4. CASE SelectBatch
  <2>1. NextPending \in SUBSET Muts
    BY NextPendingIsPending DEF RowsWith
  <2>2. wire' \in Request
    BY <1>4, <2>1 DEF SelectBatch, Request, NoAnswers, Answers, Outcomes
  <2> QED
    BY <1>4, <2>2 DEF SelectBatch, Phases, Status
<1>5. CASE ReceiveOutcomes
  BY <1>5 DEF ReceiveOutcomes, Phases
<1>6. CASE BeginSettle
  BY <1>6 DEF BeginSettle, Phases
<1>7. CASE SettleOne
  <2> PICK m \in First({k \in Muts : wire.answers[k] # "none"}) :
        /\ status' = [status EXCEPT ![m] = RowAfter(wire.answers[m])]
        /\ wire' = [todo |-> wire.todo, answers |-> [wire.answers EXCEPT ![m] = "none"]]
    BY <1>7 DEF SettleOne
  <2>1. m \in Muts /\ wire.answers[m] \in {"applied", "rejected", "blocked"}
    BY DEF First, Request, Answers, Outcomes
  <2>2. RowAfter(wire.answers[m]) \in Status
    BY <2>1 DEF RowAfter, Status
  <2>3. wire' \in Request
    BY <2>1 DEF Request, Answers, Outcomes
  <2> QED
    BY <1>7, <2>1, <2>2, <2>3 DEF SettleOne
<1>8. CASE SettleDone
  BY <1>8 DEF SettleDone, Phases
<1>9. CASE RequeueInflight
  BY <1>9, RequeuedType DEF RequeueInflight, LoopOrClose, Phases
<1>10. CASE CloseRun
  BY <1>10 DEF CloseRun, Phases
<1>11. CASE Mutate
  <2>1. status' \in [Muts -> Status] /\ issued' \in 0..MaxMutations
    BY <1>11 DEF Mutate, Muts, Status
  <2> QED
    BY <1>11, <2>1 DEF Mutate, Calls
<1>12. CASE ShapeEvent
  BY <1>12 DEF ShapeEvent, Calls
<1>13. CASE TimerFires
  BY <1>13 DEF TimerFires, DrainOrJoin, Phases
<1>14. ASSUME NEW error \in Errors, NEW reaches \in BOOLEAN, UploadFails(error, reaches)
       PROVE  TypeOK'
  <2>1. NoRequest \in Request
    BY NoRequestType
  <2>2. late' \in SUBSET Request
    BY <1>14 DEF UploadFails
  <2>3. timer' \in BOOLEAN
    BY <1>14 DEF UploadFails
  <2> QED
    BY <1>14, <2>1, <2>2, <2>3 DEF UploadFails, Phases
<1>15. ASSUME NEW m \in Muts, DismissRejected(m)
       PROVE  TypeOK'
  BY <1>15 DEF DismissRejected, Status
<1>16. ASSUME NEW reaches \in BOOLEAN, Crash(reaches)
       PROVE  TypeOK'
  <2>1. wire' \in Request
    BY <1>16, NoRequestType DEF Crash
  <2>2. late' \in SUBSET Request
    BY <1>16 DEF Crash
  <2>3. calls' \in SUBSET Calls
    BY <1>16, Zenon DEF Crash
  <2>4. faults' \in 0..MaxFaults
    BY <1>16 DEF Crash
  <2>5. phase' \in Phases /\ again' \in BOOLEAN /\ timer' \in BOOLEAN
    BY <1>16 DEF Crash, Phases
  <2>6. UNCHANGED <<issued, status, stored, seen>>
    BY <1>16 DEF Crash
  <2> QED
    BY <2>1, <2>2, <2>3, <2>4, <2>5, <2>6
<1>17. CASE ServerHandlesCurrent
  <2> PICK m \in First(wire.todo), o \in {"applied", "rejected"} :
        SettledAs(m, o) /\ wire' = AnsweredWith(wire, m, o)
    BY <1>17 DEF ServerHandlesCurrent
  <2>1. m \in wire.todo /\ m \in Muts
    BY DEF First, Request
  <2>2. wire' \in Request
    BY <2>1, AnsweredWithType
  <2>3. stored' \in [Muts -> Outcomes]
    BY <2>1, SettledAsKeeps
  <2> QED
    BY <1>17, <2>2, <2>3 DEF ServerHandlesCurrent, clientVars
<1>18. CASE ServerHandlesLate
  <2> PICK r \in late : \E m \in First(r.todo), o \in {"applied", "rejected"} :
        /\ SettledAs(m, o)
        /\ late' = (late \ {r}) \cup (IF AnsweredWith(r, m, o).todo = {} THEN {}
                                      ELSE {AnsweredWith(r, m, o)})
    BY <1>18 DEF ServerHandlesLate
  <2> PICK m \in First(r.todo), o \in {"applied", "rejected"} :
        /\ SettledAs(m, o)
        /\ late' = (late \ {r}) \cup (IF AnsweredWith(r, m, o).todo = {} THEN {}
                                      ELSE {AnsweredWith(r, m, o)})
    OBVIOUS
  <2>1. r \in Request /\ m \in r.todo /\ m \in Muts
    BY DEF First, Request
  <2>2. late' \in SUBSET Request
    BY <2>1, AnsweredWithType
  <2>3. stored' \in [Muts -> Outcomes]
    BY <2>1, SettledAsKeeps
  <2> QED
    BY <1>18, <2>2, <2>3 DEF ServerHandlesLate, clientVars
<1>19. CASE ServerDropsLate
  BY <1>19 DEF ServerDropsLate, clientVars
<1>20. CASE UNCHANGED vars
  BY <1>20 DEF vars
<1> QED
  BY <1>1, <1>2, <1>3, <1>4, <1>5, <1>6, <1>7, <1>8, <1>9, <1>10, <1>11, <1>12, <1>13,
     <1>14, <1>15, <1>16, <1>17, <1>18, <1>19, <1>20 DEF Next, RunStep

\* Every variable keeps its type, whatever crashes and whatever is lost.
THEOREM TypeCorrect == Spec => []TypeOK
  BY TypeInit, TypeStep, PTL DEF Spec

-----------------------------------------------------------------------------
(* Requests stay sound while the server decides *)

LEMMA RequestOKGrows ==
  ASSUME NEW s, NEW t, NEW r \in Request, RequestOK(r, s),
         \A k \in Muts : s[k] # "none" => t[k] = s[k]
  PROVE  RequestOK(r, t)
<1>1. \A m \in r.todo : m \in Muts /\ \A k \in 1..(m - 1) : k \in Muts
  BY DEF Request, Muts
<1> QED
  BY <1>1 DEF RequestOK

LEMMA RequestOKAnswered ==
  ASSUME NEW s, NEW t, NEW r \in Request, NEW m \in First(r.todo),
         NEW o \in {"applied", "rejected"}, RequestOK(r, s), t[m] = o,
         \A k \in Muts : s[k] # "none" => t[k] = s[k]
  PROVE  RequestOK(AnsweredWith(r, m, o), t)
<1> USE DEF RequestOK
<1>1. /\ r.todo \subseteq Muts /\ m \in r.todo /\ m \in Muts
      /\ r.answers \in [Muts -> Answers]
  BY DEF Request, First
<1>2. \A n \in r.todo : \A k \in 1..(n - 1) : k \in Muts
  BY <1>1 DEF Muts
<1>3. CASE o = "rejected"
  <2>1. AnsweredWith(r, m, o).todo = {}
    BY <1>3 DEF AnsweredWith
  <2>2. ASSUME NEW n \in Muts, AnsweredWith(r, m, o).answers[n] \in {"applied", "rejected"}
        PROVE  t[n] = AnsweredWith(r, m, o).answers[n]
    BY <1>1, <1>3, <2>2 DEF AnsweredWith
  <2> QED
    BY <2>1, <2>2
<1>4. CASE o = "applied"
  <2>1. AnsweredWith(r, m, o).todo = r.todo \ {m}
    BY <1>4 DEF AnsweredWith
  <2>2. ASSUME NEW n \in r.todo \ {m}, NEW k \in 1..(n - 1)
        PROVE  k \in r.todo \ {m} \/ t[k] # "none"
    BY <1>1, <1>2, <1>4
  <2>3. ASSUME NEW n \in Muts, AnsweredWith(r, m, o).answers[n] \in {"applied", "rejected"}
        PROVE  t[n] = AnsweredWith(r, m, o).answers[n]
    BY <1>1, <1>4, <2>3 DEF AnsweredWith
  <2> QED
    BY <2>1, <2>2, <2>3
<1> QED
  BY <1>3, <1>4

\* Deciding the oldest mutation of a sound request keeps the order of decisions.
LEMMA DecidingKeepsOrder ==
  ASSUME TypeOK, DecidedInOrder, NEW r \in Request, RequestOK(r, stored),
         NEW m \in First(r.todo), NEW o \in {"applied", "rejected"}, SettledAs(m, o)
  PROVE  DecidedInOrder'
<1>1. m \in r.todo /\ m \in Muts /\ \A k \in r.todo : m <= k
  BY DEF Request, First
<1>2. \A k \in 1..(m - 1) : stored[k] # "none"
  BY <1>1 DEF RequestOK, Request, Muts
<1>3. \A k \in Muts : k # m => stored'[k] = stored[k]
  BY <1>1, SettledAsKeeps
<1>4. stored'[m] # "none"
  BY <1>1, SettledAsKeeps
<1>5. ASSUME NEW n \in Muts, stored'[n] # "none", NEW k \in 1..n
      PROVE  stored'[k] # "none"
  <2>1. k \in Muts
    BY DEF Muts
  <2>2. CASE n = m
    BY <1>1, <1>2, <1>3, <1>4, <2>1, <2>2 DEF Muts
  <2>3. CASE n # m
    BY <1>3, <1>4, <1>5, <2>1, <2>3 DEF DecidedInOrder
  <2> QED
    BY <2>2, <2>3
<1> QED
  BY <1>5 DEF DecidedInOrder

-----------------------------------------------------------------------------
(* The invariant is inductive *)

LEMMA InvInit == Init => IInv
<1> SUFFICES ASSUME Init
             PROVE  IInv
  OBVIOUS
<1>1. TypeOK
  BY TypeInit
<1>2. IssuedPrefix /\ RequestsOK /\ WireMatchesRows
  BY DEF Init, IssuedPrefix, RequestsOK, WireMatchesRows
<1>3. Safe
  BY DEF Init, Safe, DecidedInOrder, NeverSilentlyDropped, ShownAsDecided, NothingStranded
<1> QED
  BY <1>1, <1>2, <1>3 DEF IInv

LEMMA InvStep == IInv /\ [Next]_vars => IInv'
<1> SUFFICES ASSUME IInv, [Next]_vars
             PROVE  IInv'
  OBVIOUS
<1>0. TypeOK /\ TypeOK'
  BY TypeStep DEF IInv
<1> USE DEF IInv
<1>1. CASE Start
  <2>1. /\ UNCHANGED <<issued, stored, wire, late, seen>>
        /\ phase' \in {"idle", "select", "closing"} /\ status' = Requeued
    BY <1>1 DEF Start
  <2>2. \A m \in Muts : status'[m] = IF status[m] = "inflight" THEN "pending" ELSE status[m]
    BY <2>1 DEF Requeued
  <2>3. IssuedPrefix'
    BY <2>1, <2>2 DEF IssuedPrefix
  <2>4. RequestsOK' /\ WireMatchesRows'
    BY <2>1 DEF RequestsOK, WireMatchesRows
  <2>5. DecidedInOrder' /\ ShownAsDecided'
    BY <2>1, <2>2 DEF Safe, DecidedInOrder, ShownAsDecided
  <2>6. NothingStranded'
    BY <2>2 DEF NothingStranded, RowsWith
  <2>7. 1..issued \subseteq Muts
    BY <1>0 DEF TypeOK, Muts
  <2>8. NeverSilentlyDropped'
    BY <2>1, <2>2, <2>7 DEF Safe, NeverSilentlyDropped
  <2> QED
    BY <1>0, <2>3, <2>4, <2>5, <2>6, <2>8 DEF Safe
<1>2. CASE DrainCall
  <2>1. IssuedPrefix' /\ RequestsOK' /\ WireMatchesRows'
    BY <1>0, <1>2 DEF DrainCall, DrainOrJoin, IssuedPrefix, RequestsOK, WireMatchesRows
  <2>2. Safe'
    BY <1>0, <1>2 DEF DrainCall, DrainOrJoin, Safe, DecidedInOrder, NeverSilentlyDropped,
       ShownAsDecided, NothingStranded, RowsWith
  <2> QED
    BY <1>0, <2>1, <2>2
<1>3. CASE SelectNothing
  <2>1. IssuedPrefix' /\ RequestsOK' /\ WireMatchesRows'
    BY <1>0, <1>3 DEF SelectNothing, LoopOrClose, IssuedPrefix, RequestsOK, WireMatchesRows
  <2>2. Safe'
    BY <1>0, <1>3 DEF SelectNothing, LoopOrClose, Safe, DecidedInOrder,
       NeverSilentlyDropped, ShownAsDecided, NothingStranded, RowsWith
  <2> QED
    BY <1>0, <2>1, <2>2
<1>4. CASE SelectBatch
  <2>1. NextPending \subseteq Muts /\ \A m \in NextPending : status[m] = "pending"
    BY NextPendingIsPending DEF RowsWith
  <2>2. \A m \in Muts : status[m] # "inflight"
    BY <1>4 DEF SelectBatch, Safe, NothingStranded, RowsWith
  <2>3. ASSUME NEW m \in NextPending, NEW k \in 1..(m - 1)
        PROVE  k \in NextPending \/ stored[k] # "none"
    <3>1. k \in Muts /\ k \in 1..issued /\ k <= m
      BY <1>0, <2>1 DEF IssuedPrefix, TypeOK, Muts
    <3>2. status[k] \in {"none", "pending", "rejected"}
      BY <1>0, <2>2, <3>1 DEF TypeOK, Status
    <3>3. CASE status[k] = "pending"
      BY <3>1, <3>3, NextPendingIsPrefix DEF RowsWith
    <3>4. CASE status[k] \in {"none", "rejected"}
      BY <3>1, <3>4 DEF Safe, NeverSilentlyDropped, ShownAsDecided
    <3> QED
      BY <3>2, <3>3, <3>4
  <2>4. RequestOK(wire', stored)
    BY <1>4, <2>3 DEF SelectBatch, RequestOK, NoAnswers
  <2>5. IssuedPrefix'
    BY <1>0, <1>4, <2>1 DEF SelectBatch, IssuedPrefix, TypeOK
  <2>6. RequestsOK'
    BY <1>4, <2>4 DEF SelectBatch, RequestsOK
  <2>7. WireMatchesRows'
    BY <1>0, <1>4, <2>1, <2>2 DEF SelectBatch, WireMatchesRows, NoAnswers, TypeOK
  <2>8. Safe'
    BY <1>0, <1>4, <2>1 DEF SelectBatch, Safe, DecidedInOrder, NeverSilentlyDropped,
       ShownAsDecided, NothingStranded, TypeOK, Muts
  <2> QED
    BY <1>0, <2>5, <2>6, <2>7, <2>8
<1>5. CASE ReceiveOutcomes
  <2>1. IssuedPrefix' /\ RequestsOK' /\ WireMatchesRows'
    BY <1>0, <1>5 DEF ReceiveOutcomes, IssuedPrefix, RequestsOK, WireMatchesRows
  <2>2. Safe'
    BY <1>0, <1>5 DEF ReceiveOutcomes, Safe, DecidedInOrder, NeverSilentlyDropped,
       ShownAsDecided, NothingStranded
  <2> QED
    BY <1>0, <2>1, <2>2
<1>6. CASE BeginSettle
  <2>1. IssuedPrefix' /\ RequestsOK' /\ WireMatchesRows'
    BY <1>0, <1>6 DEF BeginSettle, IssuedPrefix, RequestsOK, WireMatchesRows
  <2>2. Safe'
    BY <1>0, <1>6 DEF BeginSettle, Safe, DecidedInOrder, NeverSilentlyDropped,
       ShownAsDecided, NothingStranded
  <2> QED
    BY <1>0, <2>1, <2>2
<1>7. CASE SettleOne
  <2> PICK m \in First({k \in Muts : wire.answers[k] # "none"}) :
        /\ status' = [status EXCEPT ![m] = RowAfter(wire.answers[m])]
        /\ wire' = [todo |-> wire.todo, answers |-> [wire.answers EXCEPT ![m] = "none"]]
    BY <1>7 DEF SettleOne
  <2>1. m \in Muts /\ wire.answers[m] # "none" /\ phase = "settle" /\ phase' = "settle"
    BY <1>7 DEF First, SettleOne
  <2>2. wire.answers \in [Muts -> Answers] /\ wire.todo = {}
    BY <1>0, <2>1 DEF TypeOK, Request, WireMatchesRows
  <2>3. status[m] = "inflight"
    BY <2>1 DEF WireMatchesRows
  <2>4. UNCHANGED <<issued, stored, late, seen>>
    BY <1>7 DEF SettleOne
  <2>5. wire.answers[m] \in {"applied", "rejected"} => stored[m] = wire.answers[m]
    BY <2>1 DEF RequestsOK, RequestOK
  <2>6. status' \in [Muts -> Status] /\ status \in [Muts -> Status]
    BY <1>0 DEF TypeOK
  <2>7. /\ \A k \in Muts : k # m => status'[k] = status[k]
        /\ status'[m] = RowAfter(wire.answers[m])
        /\ \A k \in Muts : k # m => wire'.answers[k] = wire.answers[k]
        /\ wire'.answers[m] = "none" /\ wire'.todo = {}
    BY <2>1, <2>2, <2>6
  <2>8. status'[m] # "inflight" /\ wire'.todo = {}
    BY <2>2, <2>7 DEF RowAfter
  <2>9. IssuedPrefix'
    BY <2>3, <2>4, <2>7 DEF IssuedPrefix
  <2>10. RequestsOK'
    BY <2>1, <2>2, <2>4, <2>7, <2>8 DEF RequestsOK, RequestOK
  <2>11. WireMatchesRows'
    BY <2>1, <2>2, <2>7, <2>8 DEF WireMatchesRows
  <2>12. DecidedInOrder' /\ NothingStranded'
    BY <2>1, <2>4 DEF Safe, DecidedInOrder, NothingStranded
  <2>13. NeverSilentlyDropped'
    <3>1. wire.answers[m] \in {"applied", "rejected", "blocked"}
      BY <2>1, <2>2 DEF Answers, Outcomes
    <3>2. 1..issued \subseteq Muts
      BY <1>0 DEF TypeOK, Muts
    <3>3. status'[m] = "none" => stored[m] = "applied"
      BY <2>5, <2>7, <3>1 DEF RowAfter
    <3> QED
      BY <2>4, <2>7, <3>2, <3>3 DEF Safe, NeverSilentlyDropped
  <2>14. ShownAsDecided'
    BY <2>2, <2>3, <2>4, <2>5, <2>7 DEF Safe, ShownAsDecided, RowAfter
  <2> QED
    BY <1>0, <2>9, <2>10, <2>11, <2>12, <2>13, <2>14 DEF Safe
<1>8. CASE SettleDone
  <2>1. \A m \in Muts : status[m] # "inflight"
    BY <1>8 DEF SettleDone, WireMatchesRows, NoAnswers
  <2>2. IssuedPrefix' /\ RequestsOK' /\ WireMatchesRows'
    BY <1>0, <1>8 DEF SettleDone, IssuedPrefix, RequestsOK, WireMatchesRows
  <2>3. Safe'
    BY <1>0, <1>8, <2>1 DEF SettleDone, Safe, DecidedInOrder, NeverSilentlyDropped,
       ShownAsDecided, NothingStranded, RowsWith
  <2> QED
    BY <1>0, <2>2, <2>3
<1>9. CASE RequeueInflight
  <2>1. /\ UNCHANGED <<issued, stored, wire, late, seen>>
        /\ phase' \in {"idle", "select", "closing"} /\ status' = Requeued
    BY <1>9 DEF RequeueInflight, LoopOrClose
  <2>2. \A m \in Muts : status'[m] = IF status[m] = "inflight" THEN "pending" ELSE status[m]
    BY <2>1 DEF Requeued
  <2>3. IssuedPrefix'
    BY <2>1, <2>2 DEF IssuedPrefix
  <2>4. RequestsOK' /\ WireMatchesRows'
    BY <2>1 DEF RequestsOK, WireMatchesRows
  <2>5. DecidedInOrder' /\ ShownAsDecided'
    BY <2>1, <2>2 DEF Safe, DecidedInOrder, ShownAsDecided
  <2>6. NothingStranded'
    BY <2>2 DEF NothingStranded, RowsWith
  <2>7. 1..issued \subseteq Muts
    BY <1>0 DEF TypeOK, Muts
  <2>8. NeverSilentlyDropped'
    BY <2>1, <2>2, <2>7 DEF Safe, NeverSilentlyDropped
  <2> QED
    BY <1>0, <2>3, <2>4, <2>5, <2>6, <2>8 DEF Safe
<1>10. CASE CloseRun
  <2>1. IssuedPrefix' /\ RequestsOK' /\ WireMatchesRows'
    BY <1>0, <1>10 DEF CloseRun, IssuedPrefix, RequestsOK, WireMatchesRows
  <2>2. Safe'
    BY <1>0, <1>10 DEF CloseRun, Safe, DecidedInOrder, NeverSilentlyDropped,
       ShownAsDecided, NothingStranded, RowsWith
  <2> QED
    BY <1>0, <2>1, <2>2
<1>11. CASE Mutate
  <2> DEFINE n == issued + 1
  <2>1. n \in Muts /\ status[n] = "none" /\ issued \in Nat
    BY <1>0, <1>11 DEF Mutate, TypeOK, IssuedPrefix, Muts
  <2>2. status'[n] = "pending" /\ \A k \in Muts : k # n => status'[k] = status[k]
    BY <1>0, <1>11, <2>1 DEF Mutate, TypeOK
  <2>3. issued' = n /\ n \notin seen' /\ n \in Muts
    BY <1>0, <1>11, <2>1 DEF Mutate, IssuedPrefix, TypeOK
  <2>4. IssuedPrefix'
    BY <1>0, <1>11, <2>1, <2>2, <2>3 DEF Mutate, IssuedPrefix, Muts
  <2>5. RequestsOK'
    BY <1>11 DEF Mutate, RequestsOK
  <2>6. WireMatchesRows'
    BY <1>11, <2>1, <2>2 DEF Mutate, WireMatchesRows
  <2>7. Safe'
    BY <1>0, <1>11, <2>1, <2>2, <2>3 DEF Mutate, Safe, DecidedInOrder,
       NeverSilentlyDropped, ShownAsDecided, NothingStranded, RowsWith, TypeOK, Muts
  <2> QED
    BY <1>0, <2>4, <2>5, <2>6, <2>7
<1>12. CASE ShapeEvent
  <2>1. IssuedPrefix' /\ RequestsOK' /\ WireMatchesRows'
    BY <1>12 DEF ShapeEvent, IssuedPrefix, RequestsOK, WireMatchesRows
  <2>2. Safe'
    BY <1>12 DEF ShapeEvent, Safe, DecidedInOrder, NeverSilentlyDropped, ShownAsDecided,
       NothingStranded, RowsWith
  <2> QED
    BY <1>0, <2>1, <2>2
<1>13. CASE TimerFires
  <2>1. IssuedPrefix' /\ RequestsOK' /\ WireMatchesRows'
    BY <1>0, <1>13 DEF TimerFires, DrainOrJoin, IssuedPrefix, RequestsOK, WireMatchesRows
  <2>2. Safe'
    BY <1>0, <1>13 DEF TimerFires, DrainOrJoin, Safe, DecidedInOrder, NeverSilentlyDropped,
       ShownAsDecided, NothingStranded, RowsWith
  <2> QED
    BY <1>0, <2>1, <2>2
<1>14. ASSUME NEW error \in Errors, NEW reaches \in BOOLEAN, UploadFails(error, reaches)
       PROVE  IInv'
  <2>1. late' \in {late, late \cup {wire}} /\ phase = "upload"
    BY <1>14 DEF UploadFails
  <2>2. RequestsOK'
    BY <1>14, <2>1 DEF UploadFails, RequestsOK
  <2>3. IssuedPrefix' /\ WireMatchesRows'
    BY <1>14 DEF UploadFails, IssuedPrefix, WireMatchesRows
  <2>4. Safe'
    BY <1>14 DEF UploadFails, Safe, DecidedInOrder, NeverSilentlyDropped, ShownAsDecided,
       NothingStranded, RowsWith
  <2> QED
    BY <1>0, <2>2, <2>3, <2>4
<1>15. ASSUME NEW m \in Muts, DismissRejected(m)
       PROVE  IInv'
  <2>1. status[m] = "rejected" /\ stored[m] = "rejected" /\ seen' = seen \cup {m}
    BY <1>15 DEF DismissRejected, Safe, ShownAsDecided
  <2>2. status'[m] = "none" /\ \A k \in Muts : k # m => status'[k] = status[k]
    BY <1>0, <1>15 DEF DismissRejected, TypeOK
  <2>3. IssuedPrefix' /\ RequestsOK'
    BY <1>15, <2>1, <2>2 DEF DismissRejected, IssuedPrefix, RequestsOK
  <2>4. WireMatchesRows'
    BY <1>15, <2>1, <2>2 DEF DismissRejected, WireMatchesRows
  <2>5. Safe'
    BY <1>0, <1>15, <2>1, <2>2 DEF DismissRejected, Safe, DecidedInOrder,
       NeverSilentlyDropped, ShownAsDecided, NothingStranded, RowsWith, TypeOK, Muts
  <2> QED
    BY <1>0, <2>3, <2>4, <2>5
<1>16. ASSUME NEW reaches \in BOOLEAN, Crash(reaches)
       PROVE  IInv'
  <2>1. late' = late \/ (phase = "upload" /\ late' = late \cup {wire})
    BY <1>16 DEF Crash
  <2>2. RequestsOK'
    BY <1>16, <2>1 DEF Crash, RequestsOK
  <2>3. IssuedPrefix' /\ WireMatchesRows'
    BY <1>16 DEF Crash, IssuedPrefix, WireMatchesRows
  <2>4. Safe'
    BY <1>16 DEF Crash, Safe, DecidedInOrder, NeverSilentlyDropped, ShownAsDecided,
       NothingStranded, RowsWith
  <2> QED
    BY <1>0, <2>2, <2>3, <2>4
<1>17. ASSUME NEW r \in Request, NEW m \in First(r.todo), NEW o \in {"applied", "rejected"},
              RequestOK(r, stored), SettledAs(m, o), UNCHANGED clientVars
       PROVE  /\ IssuedPrefix' /\ Safe'
              /\ RequestOK(AnsweredWith(r, m, o), stored')
              /\ \A q \in Request : RequestOK(q, stored) => RequestOK(q, stored')
  <2>1. m \in Muts
    BY DEF First, Request
  <2>2. /\ \A k \in Muts : stored[k] # "none" => stored'[k] = stored[k]
        /\ stored'[m] = o
    BY <1>0, <1>17, <2>1, SettledAsKeeps
  <2>3. IssuedPrefix'
    BY <1>17 DEF clientVars, IssuedPrefix
  <2>4. RequestOK(AnsweredWith(r, m, o), stored')
    BY <1>17, <2>2, RequestOKAnswered
  <2>5. \A q \in Request : RequestOK(q, stored) => RequestOK(q, stored')
    BY <2>2, RequestOKGrows
  <2>6. DecidedInOrder'
    BY <1>0, <1>17, DecidingKeepsOrder DEF Safe
  <2>7. NeverSilentlyDropped' /\ ShownAsDecided' /\ NothingStranded'
    BY <1>0, <1>17, <2>2 DEF clientVars, Safe, NeverSilentlyDropped, ShownAsDecided,
       NothingStranded, RowsWith, TypeOK, Muts
  <2> QED
    BY <2>3, <2>4, <2>5, <2>6, <2>7 DEF Safe
<1>18. CASE ServerHandlesCurrent
  <2> PICK m \in First(wire.todo), o \in {"applied", "rejected"} :
        SettledAs(m, o) /\ wire' = AnsweredWith(wire, m, o)
    BY <1>18 DEF ServerHandlesCurrent
  <2>1. /\ phase = "upload" /\ UNCHANGED clientVars /\ late' = late
        /\ wire \in Request /\ RequestOK(wire, stored)
    BY <1>0, <1>18 DEF ServerHandlesCurrent, TypeOK, RequestsOK
  <2>2. /\ IssuedPrefix' /\ Safe' /\ RequestOK(wire', stored')
        /\ \A q \in Request : RequestOK(q, stored) => RequestOK(q, stored')
    BY <1>17, <2>1
  <2>3. RequestsOK'
    BY <1>0, <2>1, <2>2 DEF RequestsOK, TypeOK
  <2>4. WireMatchesRows'
    <3>1. m \in wire.todo /\ wire.todo \subseteq Muts /\ wire.answers \in [Muts -> Answers]
      BY <2>1 DEF First, Request
    <3>2. \A k \in Muts : (k \in wire'.todo \/ wire'.answers[k] # "none")
                       <=> (k \in wire.todo \/ wire.answers[k] # "none")
      BY <3>1 DEF AnsweredWith
    <3> QED
      BY <2>1, <3>2 DEF WireMatchesRows, clientVars
  <2> QED
    BY <1>0, <2>2, <2>3, <2>4
<1>19. CASE ServerHandlesLate
  <2> PICK r \in late : \E m \in First(r.todo), o \in {"applied", "rejected"} :
        /\ SettledAs(m, o)
        /\ late' = (late \ {r}) \cup (IF AnsweredWith(r, m, o).todo = {} THEN {}
                                      ELSE {AnsweredWith(r, m, o)})
    BY <1>19 DEF ServerHandlesLate
  <2> PICK m \in First(r.todo), o \in {"applied", "rejected"} :
        /\ SettledAs(m, o)
        /\ late' = (late \ {r}) \cup (IF AnsweredWith(r, m, o).todo = {} THEN {}
                                      ELSE {AnsweredWith(r, m, o)})
    OBVIOUS
  <2>1. UNCHANGED clientVars /\ wire' = wire /\ r \in Request /\ RequestOK(r, stored)
    BY <1>0, <1>19 DEF ServerHandlesLate, TypeOK, RequestsOK
  <2>2. /\ IssuedPrefix' /\ Safe' /\ RequestOK(AnsweredWith(r, m, o), stored')
        /\ \A q \in Request : RequestOK(q, stored) => RequestOK(q, stored')
    BY <1>17, <2>1
  <2>3. \A q \in late' : q \in late \/ q = AnsweredWith(r, m, o)
    OBVIOUS
  <2>4. RequestsOK'
    BY <1>0, <2>1, <2>2, <2>3 DEF RequestsOK, TypeOK, clientVars
  <2>5. WireMatchesRows'
    BY <2>1 DEF WireMatchesRows, clientVars
  <2> QED
    BY <1>0, <2>2, <2>4, <2>5
<1>20. CASE ServerDropsLate
  <2>1. late' \subseteq late
    BY <1>20 DEF ServerDropsLate
  <2>2. IssuedPrefix' /\ RequestsOK' /\ WireMatchesRows'
    BY <1>20, <2>1 DEF ServerDropsLate, clientVars, IssuedPrefix, RequestsOK, WireMatchesRows
  <2>3. Safe'
    BY <1>20 DEF ServerDropsLate, clientVars, Safe, DecidedInOrder, NeverSilentlyDropped,
       ShownAsDecided, NothingStranded, RowsWith
  <2> QED
    BY <1>0, <2>2, <2>3
<1>21. CASE UNCHANGED vars
  <2>1. IssuedPrefix' /\ RequestsOK' /\ WireMatchesRows'
    BY <1>21 DEF vars, IssuedPrefix, RequestsOK, WireMatchesRows
  <2>2. Safe'
    BY <1>21 DEF vars, Safe, DecidedInOrder, NeverSilentlyDropped, ShownAsDecided,
       NothingStranded, RowsWith
  <2> QED
    BY <1>0, <2>1, <2>2
<1> QED
  BY <1>1, <1>2, <1>3, <1>4, <1>5, <1>6, <1>7, <1>8, <1>9, <1>10, <1>11, <1>12, <1>13,
     <1>14, <1>15, <1>16, <1>18, <1>19, <1>20, <1>21 DEF Next, RunStep

\* The invariant holds in every reachable state.
LEMMA InvAlways == Spec => []IInv
  BY InvInit, InvStep, PTL DEF Spec

\* Uploads take effect in the order the person made them, for any number of
\* mutations, failures, restarts and late requests, and any batch size.
THEOREM UploadOrder == Spec => []DecidedInOrder
<1>1. IInv => DecidedInOrder
  BY DEF IInv, Safe
<1> QED
  BY InvAlways, <1>1, PTL

\* A queued mutation leaves the outbox only once it is applied, or once the
\* person dismissed its rejection.
THEOREM NothingDropped == Spec => []NeverSilentlyDropped
<1>1. IInv => NeverSilentlyDropped
  BY DEF IInv, Safe
<1> QED
  BY InvAlways, <1>1, PTL

\* What the person is told is what the server stored.
THEOREM ToldTheTruth == Spec => []ShownAsDecided
<1>1. IInv => ShownAsDecided
  BY DEF IInv, Safe
<1> QED
  BY InvAlways, <1>1, PTL

-----------------------------------------------------------------------------
(* SyncUpload implements MutationDelivery *)

\* A step that neither decides, submits nor changes what the person sees.
LEMMA Stutter ==
  ASSUME UNCHANGED <<issued, stored, View>>
  PROVE  [Delivery!DeliveryNext]_Delivery!deliveryVars
  BY DEF Delivery!deliveryVars

LEMMA ViewUnchanged ==
  ASSUME UNCHANGED status
  PROVE  UNCHANGED View
  BY DEF View

LEMMA RequeuedView ==
  ASSUME TypeOK, status' = Requeued
  PROVE  UNCHANGED View
<1>1. \A m \in Muts : status'[m] = IF status[m] = "inflight" THEN "pending" ELSE status[m]
  BY DEF Requeued
<1> QED
  BY <1>1 DEF View

\* Settling a mutation is the abstract decision, or a replay nobody notices.
LEMMA SettledAsDecides ==
  ASSUME IInv, NEW r \in Request, RequestOK(r, stored), NEW m \in First(r.todo),
         NEW o \in {"applied", "rejected"}, SettledAs(m, o), UNCHANGED <<issued, status>>,
         \A k \in r.todo : k <= issued
  PROVE  [Delivery!DeliveryNext]_Delivery!deliveryVars
<1>1. m \in r.todo /\ m \in Muts /\ m <= issued /\ \A k \in r.todo : m <= k
  BY DEF First, Request
<1>2. UNCHANGED View
  BY ViewUnchanged
<1>3. CASE stored[m] # "none"
  <2>1. UNCHANGED stored
    BY <1>3 DEF SettledAs
  <2> QED
    BY <1>2, <2>1, Stutter
<1>4. CASE stored[m] = "none"
  <2>1. stored' = [stored EXCEPT ![m] = o]
    BY <1>4 DEF SettledAs
  <2>2. \A k \in 1..(m - 1) : stored[k] # "none"
    BY <1>1 DEF RequestOK, Muts
  <2>3. m \in 1..issued /\ m \in Delivery!Muts
    BY <1>1 DEF IInv, TypeOK, Muts, Delivery!Muts
  <2>4. Delivery!Decide(m)
    BY <1>2, <1>4, <2>1, <2>2, <2>3 DEF Delivery!Decide
  <2> QED
    BY <2>3, <2>4 DEF Delivery!DeliveryNext
<1> QED
  BY <1>3, <1>4

\* Requests carry issued rows only.
RequestIssued(r) == \A m \in r.todo : m <= issued
Carried == RequestIssued(wire) /\ \A r \in late : RequestIssued(r)

LEMMA CarriedStep == IInv /\ Carried /\ [Next]_vars => Carried'
<1> SUFFICES ASSUME IInv, Carried, [Next]_vars
             PROVE  Carried'
  OBVIOUS
<1>0. TypeOK /\ TypeOK'
  BY TypeStep DEF IInv
<1> USE DEF Carried, RequestIssued
<1>1. CASE SelectBatch
  <2>1. \A m \in NextPending : m \in Muts /\ status[m] = "pending"
    BY NextPendingIsPending DEF RowsWith
  <2>2. \A m \in NextPending : m <= issued
    BY <1>0, <2>1 DEF IInv, IssuedPrefix, TypeOK, Muts
  <2> QED
    BY <1>1, <2>2 DEF SelectBatch
<1>2. CASE Mutate
  BY <1>0, <1>2 DEF Mutate, TypeOK, Request, Muts
<1>3. CASE ServerHandlesCurrent
  <2> PICK m \in First(wire.todo), o \in {"applied", "rejected"} :
        SettledAs(m, o) /\ wire' = AnsweredWith(wire, m, o)
    BY <1>3 DEF ServerHandlesCurrent
  <2>1. wire'.todo \subseteq wire.todo
    BY DEF AnsweredWith
  <2> QED
    BY <1>3, <2>1 DEF ServerHandlesCurrent, clientVars
<1>4. CASE ServerHandlesLate
  <2> PICK r \in late : \E m \in First(r.todo), o \in {"applied", "rejected"} :
        late' = (late \ {r}) \cup (IF AnsweredWith(r, m, o).todo = {} THEN {}
                                    ELSE {AnsweredWith(r, m, o)})
    BY <1>4 DEF ServerHandlesLate
  <2> PICK m \in First(r.todo), o \in {"applied", "rejected"} :
        late' = (late \ {r}) \cup (IF AnsweredWith(r, m, o).todo = {} THEN {}
                                    ELSE {AnsweredWith(r, m, o)})
    OBVIOUS
  <2>1. AnsweredWith(r, m, o).todo \subseteq r.todo
    BY DEF AnsweredWith
  <2>2. \A q \in late' : q \in late \/ q = AnsweredWith(r, m, o)
    OBVIOUS
  <2>3. UNCHANGED <<wire, issued>>
    BY <1>4 DEF ServerHandlesLate, clientVars
  <2> QED
    BY <2>1, <2>2, <2>3
<1>5. CASE ServerDropsLate
  BY <1>5 DEF ServerDropsLate, clientVars
<1>6. ASSUME NEW error \in Errors, NEW reaches \in BOOLEAN, UploadFails(error, reaches)
      PROVE  Carried'
  BY <1>6 DEF UploadFails, NoRequest
<1>7. ASSUME NEW reaches \in BOOLEAN, Crash(reaches)
      PROVE  Carried'
  BY <1>7 DEF Crash, NoRequest
<1>8. CASE SettleOne
  <2>1. wire'.todo = wire.todo /\ UNCHANGED <<issued, late>>
    BY <1>8 DEF SettleOne
  <2> QED
    BY <2>1
<1>9. CASE UNCHANGED <<issued, wire, late>>
  BY <1>9
<1> QED
  BY <1>1, <1>2, <1>3, <1>4, <1>5, <1>6, <1>7, <1>8, <1>9
  DEF Next, RunStep, vars, Start, DrainCall, SelectNothing, ReceiveOutcomes, BeginSettle,
      SettleDone, RequeueInflight, CloseRun, ShapeEvent, TimerFires, DismissRejected

LEMMA DeliveryStep == IInv /\ Carried
  /\ [Next]_vars => [Delivery!DeliveryNext]_Delivery!deliveryVars
<1> SUFFICES ASSUME IInv, Carried, [Next]_vars
             PROVE  [Delivery!DeliveryNext]_Delivery!deliveryVars
  OBVIOUS
<1>0. TypeOK /\ TypeOK'
  BY TypeStep DEF IInv
<1>1. CASE UNCHANGED <<issued, stored, status>>
  BY <1>1, Stutter, ViewUnchanged
<1>2. CASE UNCHANGED <<issued, stored>> /\ status' = Requeued
  BY <1>0, <1>2, Stutter, RequeuedView
<1>3. CASE SelectBatch
  <2>1. \A m \in Muts : status'[m] = IF m \in NextPending THEN "inflight" ELSE status[m]
    BY <1>3 DEF SelectBatch
  <2>2. \A m \in NextPending : status[m] = "pending"
    BY NextPendingIsPending DEF RowsWith
  <2>3. UNCHANGED View
    BY <2>1, <2>2 DEF View
  <2> QED
    BY <1>3, <2>3, Stutter DEF SelectBatch
<1>4. CASE SettleOne
  <2> PICK m \in First({k \in Muts : wire.answers[k] # "none"}) :
        status' = [status EXCEPT ![m] = RowAfter(wire.answers[m])]
    BY <1>4 DEF SettleOne
  <2>1. /\ m \in Muts /\ wire.answers[m] \in {"applied", "rejected", "blocked"}
        /\ phase = "settle" /\ UNCHANGED <<issued, stored>>
    BY <1>0, <1>4 DEF First, SettleOne, TypeOK, Request, Answers, Outcomes
  <2>2. status[m] = "inflight" /\ status \in [Muts -> Status]
    BY <1>0, <2>1 DEF IInv, WireMatchesRows, TypeOK
  <2>3. wire.answers[m] \in {"applied", "rejected"} => stored[m] = wire.answers[m]
    BY <2>1 DEF IInv, RequestsOK, RequestOK
  <2>4. CASE wire.answers[m] = "blocked"
    <3>1. UNCHANGED View
      BY <2>1, <2>2, <2>4 DEF RowAfter, View
    <3> QED
      BY <2>1, <3>1, Stutter
  <2>5. CASE wire.answers[m] \in {"applied", "rejected"}
    <3>1. View[m] = "waiting" /\ stored[m] # "none"
      BY <2>1, <2>2, <2>3, <2>5 DEF View
    <3>2. View' = [View EXCEPT ![m] = IF stored[m] = "applied" THEN "none" ELSE "rejected"]
      BY <2>1, <2>2, <2>3, <2>5 DEF RowAfter, View
    <3>3. Delivery!Tell(m) /\ m \in Delivery!Muts
      BY <2>1, <3>1, <3>2 DEF Delivery!Tell, Delivery!Muts, Muts
    <3> QED
      BY <3>3 DEF Delivery!DeliveryNext
  <2> QED
    BY <2>1, <2>4, <2>5
<1>5. CASE Mutate
  <2>1. issued < MaxMutations /\ issued' = issued + 1 /\ UNCHANGED stored
    BY <1>5 DEF Mutate
  <2>2. status' = [status EXCEPT ![issued + 1] = "pending"] /\ status \in [Muts -> Status]
    BY <1>0, <1>5 DEF Mutate, TypeOK
  <2>3. View' = [View EXCEPT ![issued + 1] = "waiting"]
    BY <2>2 DEF View
  <2>4. Delivery!Submit
    BY <2>1, <2>3 DEF Delivery!Submit
  <2> QED
    BY <2>4 DEF Delivery!DeliveryNext
<1>6. ASSUME NEW m \in Muts, DismissRejected(m)
      PROVE  [Delivery!DeliveryNext]_Delivery!deliveryVars
  <2>1. /\ status' = [status EXCEPT ![m] = "none"] /\ status[m] = "rejected"
        /\ UNCHANGED <<issued, stored>>
    BY <1>6 DEF DismissRejected
  <2>2. View' = [View EXCEPT ![m] = "none"] /\ View[m] = "rejected"
    BY <1>0, <2>1 DEF View, TypeOK
  <2>3. Delivery!Dismiss(m) /\ m \in Delivery!Muts
    BY <2>1, <2>2 DEF Delivery!Dismiss, Delivery!Muts, Muts
  <2> QED
    BY <2>3 DEF Delivery!DeliveryNext
<1>7. CASE ServerHandlesCurrent
  <2> PICK m \in First(wire.todo), o \in {"applied", "rejected"} : SettledAs(m, o)
    BY <1>7 DEF ServerHandlesCurrent
  <2>1. /\ wire \in Request /\ RequestOK(wire, stored) /\ UNCHANGED <<issued, status>>
        /\ \A k \in wire.todo : k <= issued
    BY <1>0, <1>7 DEF ServerHandlesCurrent, clientVars, IInv, TypeOK, RequestsOK, Carried,
       RequestIssued
  <2> QED
    BY <2>1, SettledAsDecides
<1>8. CASE ServerHandlesLate
  <2> PICK r \in late : \E m \in First(r.todo), o \in {"applied", "rejected"} : SettledAs(m, o)
    BY <1>8 DEF ServerHandlesLate
  <2> PICK m \in First(r.todo), o \in {"applied", "rejected"} : SettledAs(m, o)
    OBVIOUS
  <2>1. /\ r \in Request /\ RequestOK(r, stored) /\ UNCHANGED <<issued, status>>
        /\ \A k \in r.todo : k <= issued
    BY <1>0, <1>8 DEF ServerHandlesLate, clientVars, IInv, TypeOK, RequestsOK, Carried,
       RequestIssued
  <2> QED
    BY <2>1, SettledAsDecides
<1> QED
  BY <1>1, <1>2, <1>3, <1>4, <1>5, <1>6, <1>7, <1>8
  DEF Next, RunStep, vars, clientVars, Start, DrainCall, SelectNothing, ReceiveOutcomes,
      BeginSettle, SettleDone, RequeueInflight, CloseRun, ShapeEvent, TimerFires, UploadFails,
      Crash, ServerDropsLate

\* The outbox, the drain loop, the retries and the server together are an
\* ordered, exactly-once delivery whose every verdict reaches the person.
THEOREM UploadImplementsDelivery == Spec => ImplementsDelivery
<1>1. Init => Delivery!DeliveryInit
  BY DEF Init, View, Delivery!DeliveryInit, Delivery!Muts, Muts
<1>2. Init => Carried
  BY DEF Init, Carried, RequestIssued, NoRequest
<1>3. IInv /\ Carried /\ [Next]_vars => [Delivery!DeliveryNext]_Delivery!deliveryVars
  BY DeliveryStep
<1> QED
  BY <1>1, <1>2, <1>3, CarriedStep, InvAlways, PTL DEF Spec, ImplementsDelivery,
    Delivery!DeliverySpec

-----------------------------------------------------------------------------
(* Replaying a log *)

\* A nonempty set of positions has a last one.
LEMMA LastExists ==
  ASSUME NEW b \in Nat, NEW W \in SUBSET (1..b), W # {}
  PROVE  \E i \in W : \A j \in W : j <= i
<1> DEFINE Beyond(i) == {j \in 1..b : i < j}
           Sets == {Beyond(i) : i \in W}
           R == StrictSubsetOrdering(Nat)
<1>1. Sets \subseteq FiniteSubsetsOf(Nat)
  <2>1. IsFiniteSet(1..b)
    BY FS_Interval
  <2>2. \A i \in W : IsFiniteSet(Beyond(i)) /\ Beyond(i) \subseteq Nat
    BY <2>1, FS_Subset
  <2> QED
    BY <2>2 DEF FiniteSubsetsOf
<1>2. PICK low \in Sets : \A other \in Sets : ~(<<other, low>> \in R)
  <2>1. IsWellFoundedOn(R, FiniteSubsetsOf(Nat))
    BY FS_StrictSubsetOrderingWellFounded
  <2>2. Sets # {}
    OBVIOUS
  <2> HIDE DEF Sets, R
  <2> QED
    BY <1>1, <2>1, <2>2, WFMin
<1>3. PICK i \in W : low = Beyond(i)
  OBVIOUS
<1>4. ASSUME NEW j \in W, i < j PROVE FALSE
  <2>1. Beyond(j) \subseteq Beyond(i) /\ j \in Beyond(i) /\ j \notin Beyond(j)
    BY <1>4
  <2>2. Beyond(j) \in SUBSET Nat /\ Beyond(i) \in SUBSET Nat
    OBVIOUS
  <2>3. <<Beyond(j), Beyond(i)>> \in R
    BY <2>1, <2>2 DEF StrictSubsetOrdering
  <2> QED
    BY <1>2, <1>3, <2>3
<1> QED
  BY <1>4

\* Replayed over any sequence of changes: the log before a step or after it.
ReplayOf(lg, r, a, b, v) ==
  LET Writes == {i \in a..b : lg[i].row = r}
  IN  IF Writes = {} THEN v ELSE lg[CHOOSE i \in Writes : \A j \in Writes : j <= i].value

LastOf(lg, r, a, b, i) ==
  i \in a..b /\ lg[i].row = r /\ \A j \in (i + 1)..b : lg[j].row # r

LEMMA NoWrite ==
  ASSUME NEW lg, NEW r, NEW a, NEW b, NEW v, \A i \in a..b : lg[i].row # r
  PROVE  ReplayOf(lg, r, a, b, v) = v
  BY DEF ReplayOf

LEMMA LastWrite ==
  ASSUME NEW lg, NEW r, NEW a \in Nat, NEW b \in Nat, NEW v, NEW i, LastOf(lg, r, a, b, i)
  PROVE  ReplayOf(lg, r, a, b, v) = lg[i].value
<1> DEFINE W == {j \in a..b : lg[j].row = r}
<1>1. i \in W /\ i \in Nat /\ \A j \in W : j \in Nat /\ j <= i
  BY DEF LastOf
<1>2. \A k \in W : (\A j \in W : j <= k) => k = i
  BY <1>1
<1>3. (CHOOSE k \in W : \A j \in W : j <= k) = i
  <2> HIDE DEF W
  <2> QED
    BY <1>1, <1>2
<1> QED
  BY <1>1, <1>3 DEF ReplayOf

LEMMA WriteOrNone ==
  ASSUME NEW lg, NEW r, NEW a \in Nat \ {0}, NEW b \in Nat
  PROVE  (\A i \in a..b : lg[i].row # r) \/ \E i \in a..b : LastOf(lg, r, a, b, i)
<1> DEFINE W == {j \in a..b : lg[j].row = r}
<1> SUFFICES ASSUME W # {} PROVE \E i \in a..b : LastOf(lg, r, a, b, i)
  OBVIOUS
<1>1. W \in SUBSET (1..b)
  OBVIOUS
<1>2. PICK i \in W : \A j \in W : j <= i
  <2> HIDE DEF W
  <2> QED
    BY <1>1, LastExists
<1>3. \A j \in (i + 1)..b : lg[j].row # r
  BY <1>2
<1> QED
  BY <1>2, <1>3 DEF LastOf

\* What a replay gives depends on the entries it reads only.
LEMMA ReplaySame ==
  ASSUME NEW lg, NEW lh, NEW r, NEW a \in Nat \ {0}, NEW b \in Nat, NEW v,
         \A i \in a..b : lg[i] = lh[i]
  PROVE  ReplayOf(lg, r, a, b, v) = ReplayOf(lh, r, a, b, v)
<1>1. CASE \A i \in a..b : lg[i].row # r
  BY <1>1, NoWrite
<1>2. ASSUME NEW i \in a..b, LastOf(lg, r, a, b, i)
      PROVE  ReplayOf(lg, r, a, b, v) = ReplayOf(lh, r, a, b, v)
  <2>1. LastOf(lh, r, a, b, i)
    BY <1>2 DEF LastOf
  <2> QED
    BY <1>2, <2>1, LastWrite
<1> QED
  BY <1>1, <1>2, WriteOrNone

\* Replaying a..c and then the rest up to b is replaying a..b.
LEMMA ReplayInTwo ==
  ASSUME NEW lg, NEW r, NEW a \in Nat \ {0}, NEW c \in Nat, NEW b \in Nat, NEW v,
         a <= c + 1, c <= b
  PROVE  ReplayOf(lg, r, c + 1, b, ReplayOf(lg, r, a, c, v)) = ReplayOf(lg, r, a, b, v)
<1>1. CASE \A i \in (c + 1)..b : lg[i].row # r
  <2>1. ReplayOf(lg, r, c + 1, b, ReplayOf(lg, r, a, c, v)) = ReplayOf(lg, r, a, c, v)
    BY <1>1, NoWrite
  <2>2. CASE \A i \in a..c : lg[i].row # r
    <3>1. \A i \in a..b : i \in a..c \/ i \in (c + 1)..b
      OBVIOUS
    <3>2. \A i \in a..b : lg[i].row # r
      BY <1>1, <2>2, <3>1
    <3> QED
      BY <2>1, <2>2, <3>2, NoWrite
  <2>3. ASSUME NEW i \in a..c, LastOf(lg, r, a, c, i)
        PROVE  ReplayOf(lg, r, c + 1, b, ReplayOf(lg, r, a, c, v)) = ReplayOf(lg, r, a, b, v)
    <3>1. \A j \in (i + 1)..b : j \in (i + 1)..c \/ j \in (c + 1)..b
      OBVIOUS
    <3>2. LastOf(lg, r, a, b, i)
      BY <1>1, <2>3, <3>1 DEF LastOf
    <3> QED
      BY <2>1, <2>3, <3>2, LastWrite
  <2> QED
    BY <2>2, <2>3, WriteOrNone
<1>2. ASSUME NEW i \in (c + 1)..b, LastOf(lg, r, c + 1, b, i)
      PROVE  ReplayOf(lg, r, c + 1, b, ReplayOf(lg, r, a, c, v)) = ReplayOf(lg, r, a, b, v)
  <2>1. LastOf(lg, r, a, b, i)
    BY <1>2 DEF LastOf
  <2> QED
    BY <1>2, <2>1, LastWrite
<1>3. c + 1 \in Nat \ {0}
  OBVIOUS
<1> QED
  BY <1>1, <1>2, <1>3, WriteOrNone

\* Replaying the end of the log over what the whole log gives changes nothing.
LEMMA ReplayAgain ==
  ASSUME NEW lg, NEW r, NEW c \in Nat, NEW b \in Nat, NEW v, c <= b
  PROVE  ReplayOf(lg, r, c + 1, b, ReplayOf(lg, r, 1, b, v)) = ReplayOf(lg, r, 1, b, v)
<1>1. CASE \A i \in (c + 1)..b : lg[i].row # r
  BY <1>1, NoWrite
<1>2. ASSUME NEW i \in (c + 1)..b, LastOf(lg, r, c + 1, b, i)
      PROVE  ReplayOf(lg, r, c + 1, b, ReplayOf(lg, r, 1, b, v)) = ReplayOf(lg, r, 1, b, v)
  <2>1. LastOf(lg, r, 1, b, i)
    BY <1>2 DEF LastOf
  <2> QED
    BY <1>2, <2>1, LastWrite
<1>3. c + 1 \in Nat \ {0}
  OBVIOUS
<1> QED
  BY <1>1, <1>2, <1>3, WriteOrNone

\* What a replay gives was there or is a value of the log.
LEMMA ReplayType ==
  ASSUME NEW lg \in Seq(Change), NEW r, NEW a \in Nat \ {0}, NEW b \in 0..Len(lg),
         NEW v \in Values
  PROVE  ReplayOf(lg, r, a, b, v) \in Values
<1>1. ASSUME NEW i \in a..b, LastOf(lg, r, a, b, i)
      PROVE  ReplayOf(lg, r, a, b, v) \in Values
  <2>1. ReplayOf(lg, r, a, b, v) = lg[i].value
    BY <1>1, LastWrite
  <2>2. lg[i] \in Change
    OBVIOUS
  <2> QED
    BY <2>1, <2>2 DEF Change
<1>2. b \in Nat
  OBVIOUS
<1>3. CASE \A i \in a..b : lg[i].row # r
  <2>1. ReplayOf(lg, r, a, b, v) = v
    BY <1>3, NoWrite
  <2> QED
    BY <2>1
<1>4. (\A i \in a..b : lg[i].row # r) \/ \E i \in a..b : LastOf(lg, r, a, b, i)
  BY <1>2, WriteOrNone
<1> QED
  BY <1>1, <1>3, <1>4

\* lh is lg and one more change.
Grown(lg, lh, e) ==
  /\ Len(lg) \in Nat
  /\ Len(lh) = Len(lg) + 1
  /\ lh[Len(lg) + 1] = e
  /\ \A i \in 1..Len(lg) : lh[i] = lg[i]

LEMMA Appended ==
  ASSUME NEW lg \in Seq(Change), NEW e \in Change
  PROVE  Append(lg, e) \in Seq(Change) /\ Grown(lg, Append(lg, e), e)
  BY DEF Grown

-----------------------------------------------------------------------------
(* The engine is an upload path *)

\* Seen by the outbox and the server, an engine with a cache does what SyncUpload
\* says: the cache adds no step of its own to either.
LEMMA EngineStepIsUploadStep == [EngineNext]_engineVars => [Next]_vars
<1> SUFFICES ASSUME [EngineNext]_engineVars
             PROVE  [Next]_vars
  OBVIOUS
<1>1. CASE UNCHANGED engineVars
  BY <1>1 DEF engineVars
<1>2. CASE EngineMutate \/ EngineSettleOne
  BY <1>2 DEF EngineMutate, EngineSettleOne, Next, RunStep
<1>3. CASE ApplyUndo \/ \E r \in Rows : OtherWrites(r)
  BY <1>3 DEF ApplyUndo, OtherWrites
<1>4. CASE ReceiveChanges \/ MustRefetch
  BY <1>4 DEF ReceiveChanges, MustRefetch, Next
<1>5. CASE EngineCrash
  BY <1>5 DEF EngineCrash, Next
<1>6. CASE EngineServer
  BY <1>6 DEF EngineServer, Next
<1>7. CASE UploadOnly
  BY <1>7 DEF UploadOnly, Next, RunStep
<1> QED
  BY <1>1, <1>2, <1>3, <1>4, <1>5, <1>6, <1>7 DEF EngineNext

\* The whole engine implements the upload path.
THEOREM EngineImplementsUpload == EngineSpec => Spec
<1>1. EngineInit => Init
  BY DEF EngineInit
<1> QED
  BY <1>1, EngineStepIsUploadStep, PTL DEF EngineSpec, Spec

-----------------------------------------------------------------------------
(* Type correctness *)

LEMMA EngineTypeInit == EngineInit => EngineTypeOK
<1> SUFFICES ASSUME EngineInit
             PROVE  EngineTypeOK
  OBVIOUS
<1>1. TypeOK
  BY TypeInit DEF EngineInit
<1>2. cache \in [Rows -> Values] /\ undo \in [Muts -> Values] /\ base \in [Muts -> Nat]
  BY DEF EngineInit, Values
<1>3. log \in Seq(Change) /\ cursor \in 0..Len(log)
  BY DEF EngineInit
<1> QED
  BY <1>1, <1>2, <1>3 DEF EngineInit, EngineTypeOK

LEMMA ValuesOfMutations == Muts \subseteq Values
  BY DEF Muts, Values

\* The server's part of a step that stores an outcome.
LEMMA LogAppliedType ==
  ASSUME EngineTypeOK, LogApplied
  PROVE  log' \in Seq(Change) /\ Len(log) <= Len(log')
<1>1. CASE UNCHANGED log
  BY <1>1 DEF EngineTypeOK
<1>2. ASSUME NEW m \in Muts, log' = Append(log, [row |-> rowOf[m], value |-> m])
      PROVE  log' \in Seq(Change) /\ Len(log) <= Len(log')
  <2>1. [row |-> rowOf[m], value |-> m] \in Change
    BY ValuesOfMutations DEF EngineTypeOK, Change
  <2> QED
    BY <1>2, <2>1, Appended DEF EngineTypeOK, Grown
<1> QED
  BY <1>1, <1>2 DEF LogApplied

\* The value of somebody else's next write.
LEMMA OtherWritesType ==
  ASSUME EngineTypeOK, NEW r \in Rows, OtherWrites(r)
  PROVE  \E v \in Values \ Muts :
           [row |-> r, value |-> v] \in Change /\ log' = Append(log, [row |-> r, value |-> v])
<1> DEFINE written == Cardinality({i \in DOMAIN log : log[i].value > MaxMutations})
<1>1. written \in Nat
  <2>1. IsFiniteSet(1..Len(log))
    BY FS_Interval DEF EngineTypeOK
  <2>2. {i \in DOMAIN log : log[i].value > MaxMutations} \subseteq 1..Len(log)
    BY DEF EngineTypeOK
  <2> QED
    BY <2>1, <2>2, FS_Subset, FS_CardinalityType
<1>2. written < MaxOthers /\ log' = Append(log, [row |-> r, value |-> MaxMutations + written + 1])
  BY DEF OtherWrites
<1>3. MaxMutations + written + 1 \in Values \ Muts
  <2> HIDE DEF written
  <2> QED
    BY <1>1, <1>2 DEF Values, Muts
<1> QED
  BY <1>2, <1>3 DEF Change

LEMMA EngineTypeStep == EngineTypeOK /\ [EngineNext]_engineVars => EngineTypeOK'
<1> SUFFICES ASSUME EngineTypeOK, [EngineNext]_engineVars
             PROVE  EngineTypeOK'
  OBVIOUS
<1>0. TypeOK'
  BY TypeStep, EngineStepIsUploadStep DEF EngineTypeOK
<1> USE DEF EngineTypeOK
<1>1. CASE UNCHANGED cacheVars
  BY <1>0, <1>1 DEF cacheVars
<1>2. CASE EngineMutate
  <2>1. issued + 1 \in Muts
    BY <1>2 DEF EngineMutate, Mutate, TypeOK, Muts
  <2>2. cache[rowOf[issued + 1]] \in Values /\ issued + 1 \in Values
    BY <2>1, ValuesOfMutations
  <2>3. undo' \in [Muts -> Values]
    BY <1>2, <2>1, <2>2 DEF EngineMutate, BeforeImage
  <2>4. cache' \in [Rows -> Values]
    BY <1>2, <2>1, <2>2 DEF EngineMutate
  <2>5. base' \in [Muts -> Nat]
    BY <1>2, <2>1 DEF EngineMutate
  <2> QED
    BY <1>0, <1>2, <2>3, <2>4, <2>5 DEF EngineMutate
<1>3. CASE ApplyUndo
  <2>1. PICK m \in Muts : cache' = [cache EXCEPT ![rowOf[m]] = undo[m]]
    BY <1>3 DEF ApplyUndo
  <2>2. cache' \in [Rows -> Values]
    BY <2>1
  <2> QED
    BY <1>0, <1>3, <2>2 DEF ApplyUndo
<1>4. CASE EngineSettleOne \/ EngineCrash
  BY <1>0, <1>4 DEF EngineSettleOne, EngineCrash
<1>5. CASE ReceiveChanges
  <2>1. PICK n \in (cursor + 1)..Len(log) :
               /\ cache' = [r \in Rows |-> Replayed(r, cursor + 1, n, cache[r])]
               /\ cursor' = n
    BY <1>5 DEF ReceiveChanges, ApplyBatch
  <2>2. cursor + 1 \in Nat \ {0} /\ n \in 0..Len(log)
    OBVIOUS
  <2>3. \A r \in Rows : Replayed(r, cursor + 1, n, cache[r]) \in Values
    <3> TAKE r \in Rows
    <3>1. ReplayOf(log, r, cursor + 1, n, cache[r]) \in Values
      BY <2>2, ReplayType
    <3> QED
      BY <3>1 DEF Replayed, ReplayOf
  <2>4. cache' \in [Rows -> Values]
    BY <2>1, <2>3
  <2> QED
    BY <1>0, <1>5, <2>1, <2>2, <2>4 DEF ReceiveChanges
<1>6. CASE MustRefetch
  BY <1>0, <1>6 DEF MustRefetch, ResetTemplate, Values
<1>7. CASE EngineServer
  <2>1. log' \in Seq(Change) /\ Len(log) <= Len(log')
    BY <1>7, LogAppliedType DEF EngineServer
  <2> QED
    BY <1>0, <1>7, <2>1 DEF EngineServer
<1>8. CASE \E r \in Rows : OtherWrites(r)
  <2>1. PICK r \in Rows : OtherWrites(r)
    BY <1>8
  <2>2. PICK v \in Values \ Muts :
               [row |-> r, value |-> v] \in Change /\ log' = Append(log, [row |-> r, value |-> v])
    BY <2>1, OtherWritesType
  <2>3. log' \in Seq(Change) /\ Len(log) <= Len(log')
    BY <2>2, Appended DEF Grown
  <2> QED
    BY <1>0, <2>1, <2>3 DEF OtherWrites
<1> QED
  BY <1>1, <1>2, <1>3, <1>4, <1>5, <1>6, <1>7, <1>8 DEF EngineNext, UploadOnly, engineVars

\* Every variable of an engine with a cache keeps its type.
THEOREM EngineTypeCorrect == EngineSpec => []EngineTypeOK
  BY EngineTypeInit, EngineTypeStep, PTL DEF EngineSpec

-----------------------------------------------------------------------------
(* The inductive invariant of the cache *)

\* Somebody's mutation is in the log only once the server applied it.
LogIsDecided ==
  \A i \in DOMAIN log :
    log[i].value \in Muts => log[i].value <= issued /\ stored[log[i].value] = "applied"

\* CacheFollowsLog, said of ReplayOf.
FollowsLog ==
  \A r \in Rows :
    (\A m \in 1..issued : rowOf[m] = r => Replicated(m))
      => cache[r] = ReplayOf(log, r, 1, cursor, 0)

\* The person made no other write to the row of m.
Sole(m) == \A k \in 1..issued : rowOf[k] = rowOf[m] => k = m

\* ... and nobody changed the row since.
Quiet(m) == Sole(m) /\ \A i \in (base[m] + 1)..Len(log) : log[i].row # rowOf[m]

\* The before-image of a sole mutation is the row at the cursor it was made at.
UndoIsBefore ==
  \A m \in 1..issued :
    /\ base[m] <= Len(log)
    /\ Sole(m) => undo[m] = ReplayOf(log, rowOf[m], 1, base[m], 0)

\* Whatever the row holds, the rest of the log makes it the server's.
CatchesUp(r) ==
  ReplayOf(log, r, cursor + 1, Len(log), cache[r]) = ReplayOf(log, r, 1, Len(log), 0)

\* The optimistic effect of m is gone: its row in the outbox says so, or applyUndo
\* ran and reject() did not yet.
TakenBack(m) == status[m] \in {"none", "rejected"} \/ (undone /\ NextIsRejection(m))

RejectionCatchesUp ==
  \A m \in 1..issued :
    stored[m] = "rejected" /\ TakenBack(m) /\ Quiet(m) => CatchesUp(rowOf[m])

UndoneForRejection == undone => phase = "settle" /\ \E m \in Muts : NextIsRejection(m)

EngineIInv ==
  /\ EngineTypeOK
  /\ IInv
  /\ Carried
  /\ LogIsDecided
  /\ FollowsLog
  /\ UndoIsBefore
  /\ UndoneForRejection
  /\ RejectionCatchesUp

LEMMA EngineInvInit == EngineInit => EngineIInv
<1> SUFFICES ASSUME EngineInit
             PROVE  EngineIInv
  OBVIOUS
<1>1. EngineTypeOK
  BY EngineTypeInit
<1>2. Init
  BY DEF EngineInit
<1>3. IInv /\ issued = 0
  BY <1>2, InvInit DEF Init
<1>4. Carried
  BY <1>2 DEF Init, Carried, RequestIssued, NoRequest
<1>5. log = <<>> /\ cursor = 0 /\ ~undone /\ cache = [r \in Rows |-> 0]
  BY DEF EngineInit
<1>6. LogIsDecided /\ UndoneForRejection
  BY <1>5 DEF LogIsDecided, UndoneForRejection
<1>7. UndoIsBefore /\ RejectionCatchesUp
  BY <1>3 DEF UndoIsBefore, RejectionCatchesUp
<1>8. \A r \in Rows : ReplayOf(log, r, 1, 0, 0) = 0
  BY NoWrite
<1>9. FollowsLog
  BY <1>5, <1>8 DEF FollowsLog
<1> QED
  BY <1>1, <1>3, <1>4, <1>6, <1>7, <1>9 DEF EngineIInv

-----------------------------------------------------------------------------
(* What the steps of the two sides do *)

\* The server decides one mutation that was issued; while outcomes are settled the
\* answer the engine holds does not change.
LEMMA ServerDecides ==
  ASSUME IInv, Carried, ServerHandlesCurrent \/ ServerHandlesLate
  PROVE  /\ \E m \in 1..issued, o \in {"applied", "rejected"} : SettledAs(m, o)
         /\ UNCHANGED clientVars
         /\ phase = "settle" => UNCHANGED wire
<1>0. wire \in Request /\ late \in SUBSET Request
  BY DEF IInv, TypeOK
<1>1. \A r \in Request : RequestIssued(r) => \A m \in First(r.todo) : m \in 1..issued
  BY DEF Request, First, RequestIssued, Muts, IInv, TypeOK
<1>2. CASE ServerHandlesCurrent
  <2>1. PICK m \in First(wire.todo), o \in {"applied", "rejected"} : SettledAs(m, o)
    BY <1>2 DEF ServerHandlesCurrent
  <2>2. m \in 1..issued
    BY <1>0, <1>1 DEF Carried
  <2> QED
    BY <1>2, <2>1, <2>2 DEF ServerHandlesCurrent
<1>3. CASE ServerHandlesLate
  <2>1. PICK r \in late : \E m \in First(r.todo), o \in {"applied", "rejected"} : SettledAs(m, o)
    BY <1>3 DEF ServerHandlesLate
  <2>2. PICK m \in First(r.todo), o \in {"applied", "rejected"} : SettledAs(m, o)
    BY <2>1
  <2>3. m \in 1..issued
    BY <1>0, <1>1 DEF Carried
  <2> QED
    BY <1>3, <2>2, <2>3 DEF ServerHandlesLate
<1> QED
  BY <1>2, <1>3

\* The log grows by the change of the mutation that was applied, if one was.
LEMMA ServerLogs ==
  ASSUME EngineIInv, EngineServer
  PROVE  /\ \A k \in Muts : stored[k] # "none" => stored'[k] = stored[k]
         /\ \/ UNCHANGED log
            \/ \E m \in 1..issued :
                 /\ m \in Muts /\ stored[m] = "none" /\ stored'[m] = "applied"
                 /\ log' = Append(log, [row |-> rowOf[m], value |-> m])
<1>0. TypeOK /\ IInv /\ Carried /\ 1..issued \subseteq Muts
  BY DEF EngineIInv, EngineTypeOK, TypeOK, Muts
<1>1. PICK m \in 1..issued, o \in {"applied", "rejected"} : SettledAs(m, o)
  BY <1>0, ServerDecides DEF EngineServer
<1>2. \A k \in Muts : stored[k] # "none" => stored'[k] = stored[k]
  BY <1>0, <1>1, SettledAsKeeps
<1>3. \A k \in Muts : k # m => stored'[k] = stored[k]
  BY <1>0, <1>1, SettledAsKeeps
<1>4. LogApplied
  BY DEF EngineServer
<1>5. \A k \in {n \in Muts : stored[n] = "none" /\ stored'[n] = "applied"} : k = m
  BY <1>3
<1> QED
  BY <1>0, <1>2, <1>4, <1>5 DEF LogApplied

\* The other steps of the upload path leave the stored outcomes and the last seq
\* alone, take no row out of the queue, and leave an undone rejection where it is.
LEMMA UploadOnlyKeeps ==
  ASSUME EngineIInv, UploadOnly
  PROVE  /\ UNCHANGED <<issued, stored>>
         /\ \A m \in Muts : status'[m] \in {"none", "rejected"} => status[m]
              \in {"none", "rejected"}
         /\ undone => UNCHANGED <<phase, wire, status>>
<1>0. TypeOK /\ status \in [Muts -> Status]
  BY DEF EngineIInv, IInv, TypeOK
<1>1. undone => phase = "settle" /\ wire.answers # NoAnswers
  <2>1. ASSUME NEW m \in Muts, NextIsRejection(m) PROVE wire.answers # NoAnswers
    BY <2>1 DEF NextIsRejection, NoAnswers
  <2> QED
    BY <2>1 DEF EngineIInv, UndoneForRejection
<1>2. CASE Start
  BY <1>0, <1>1, <1>2 DEF Start, Requeued
<1>3. CASE RequeueInflight
  BY <1>0, <1>1, <1>3 DEF RequeueInflight, Requeued
<1>4. CASE DrainCall \/ TimerFires
  BY <1>0, <1>1, <1>4 DEF DrainCall, TimerFires, DrainOrJoin
<1>5. CASE SelectBatch
  BY <1>0, <1>1, <1>5, NextPendingIsPending DEF SelectBatch, RowsWith
<1>6. CASE SelectNothing \/ ReceiveOutcomes \/ BeginSettle \/ SettleDone \/ CloseRun
  BY <1>0, <1>1, <1>6 DEF SelectNothing, ReceiveOutcomes, BeginSettle, SettleDone, CloseRun
<1>7. CASE ShapeEvent \/ ServerDropsLate
  BY <1>0, <1>1, <1>7 DEF ShapeEvent, ServerDropsLate, clientVars
<1>8. CASE \E error \in Errors, reaches \in BOOLEAN : UploadFails(error, reaches)
  BY <1>0, <1>1, <1>8 DEF UploadFails
<1>9. CASE \E m \in Muts : DismissRejected(m)
  BY <1>0, <1>1, <1>9 DEF DismissRejected, DatabaseFree
<1> QED
  BY <1>2, <1>3, <1>4, <1>5, <1>6, <1>7, <1>8, <1>9 DEF UploadOnly

-----------------------------------------------------------------------------
(* The invariant is inductive, conjunct by conjunct *)

LEMMA GrownIsDecided ==
  ASSUME EngineIInv, NEW e, log' \in Seq(Change), Grown(log, log', e), UNCHANGED issued,
         \A i \in DOMAIN log : log[i].value \in Muts => stored'[log[i].value] = "applied",
         e.value \in Muts => e.value <= issued /\ stored'[e.value] = "applied"
  PROVE  LogIsDecided'
<1>1. log \in Seq(Change) /\ LogIsDecided
  BY DEF EngineIInv, EngineTypeOK
<1> SUFFICES ASSUME NEW i \in DOMAIN log', log'[i].value \in Muts
             PROVE  log'[i].value <= issued /\ stored'[log'[i].value] = "applied"
  BY DEF LogIsDecided
<1>2. CASE i \in 1..Len(log)
  <2>1. log'[i] = log[i] /\ i \in DOMAIN log
    BY <1>1, <1>2 DEF Grown
  <2> QED
    BY <1>1, <2>1 DEF LogIsDecided
<1>3. CASE i = Len(log) + 1
  BY <1>3 DEF Grown
<1> QED
  BY <1>1, <1>2, <1>3 DEF Grown

LEMMA LogIsDecidedStep == EngineIInv /\ [EngineNext]_engineVars => LogIsDecided'
<1> SUFFICES ASSUME EngineIInv, [EngineNext]_engineVars
             PROVE  LogIsDecided'
  OBVIOUS
<1>0. EngineTypeOK /\ LogIsDecided /\ TypeOK /\ issued \in Nat
  BY DEF EngineIInv, EngineTypeOK, TypeOK
<1>1. issued' \in Nat /\ issued <= issued' /\ UNCHANGED stored /\ UNCHANGED log
        => LogIsDecided'
  BY <1>0 DEF LogIsDecided, Muts
<1>2. CASE UNCHANGED engineVars
  BY <1>0, <1>1, <1>2 DEF engineVars, vars, cacheVars
<1>3. CASE EngineMutate
  BY <1>0, <1>1, <1>3 DEF EngineMutate, Mutate
<1>4. CASE ApplyUndo
  BY <1>0, <1>1, <1>4 DEF ApplyUndo, vars
<1>5. CASE EngineSettleOne \/ EngineCrash
  BY <1>0, <1>1, <1>5 DEF EngineSettleOne, SettleOne, EngineCrash, Crash
<1>6. CASE ReceiveChanges \/ MustRefetch
  BY <1>0, <1>1, <1>6 DEF ReceiveChanges, MustRefetch, ShapeEvent
<1>7. CASE UploadOnly
  BY <1>0, <1>1, <1>7, UploadOnlyKeeps DEF UploadOnly, cacheVars
<1>8. CASE EngineServer
  <2>1. /\ \A k \in Muts : stored[k] # "none" => stored'[k] = stored[k]
        /\ \/ UNCHANGED log
           \/ \E m \in 1..issued :
                /\ m \in Muts /\ stored[m] = "none" /\ stored'[m] = "applied"
                /\ log' = Append(log, [row |-> rowOf[m], value |-> m])
    BY <1>8, ServerLogs
  <2>2. UNCHANGED issued
    BY <1>0, <1>8, ServerDecides DEF EngineServer, EngineIInv, clientVars
  <2>3. CASE UNCHANGED log
    BY <1>0, <2>1, <2>2, <2>3 DEF LogIsDecided
  <2>4. ASSUME NEW m \in 1..issued, m \in Muts, stored'[m] = "applied",
               log' = Append(log, [row |-> rowOf[m], value |-> m])
        PROVE  LogIsDecided'
    <3>1. [row |-> rowOf[m], value |-> m] \in Change
      BY <1>0, <2>4, ValuesOfMutations DEF EngineTypeOK, Change
    <3>2. log' \in Seq(Change) /\ Grown(log, log', [row |-> rowOf[m], value |-> m])
      BY <1>0, <2>4, <3>1, Appended DEF EngineTypeOK
    <3>3. \A i \in DOMAIN log : log[i].value \in Muts => stored'[log[i].value] = "applied"
      BY <1>0, <2>1 DEF LogIsDecided
    <3>4. m <= issued
      BY <1>0
    <3> QED
      BY <2>2, <2>4, <3>2, <3>3, <3>4, GrownIsDecided DEF LogIsDecided
  <2> QED
    BY <2>1, <2>3, <2>4
<1>9. CASE \E r \in Rows : OtherWrites(r)
  <2>1. PICK r \in Rows : OtherWrites(r)
    BY <1>9
  <2>2. PICK v \in Values \ Muts :
               [row |-> r, value |-> v] \in Change /\ log' = Append(log, [row |-> r, value |-> v])
    BY <1>0, <2>1, OtherWritesType
  <2>3. log' \in Seq(Change) /\ Grown(log, log', [row |-> r, value |-> v])
    BY <1>0, <2>2, Appended DEF EngineTypeOK
  <2>4. UNCHANGED <<stored, issued>>
    BY <2>1 DEF OtherWrites, vars
  <2> QED
    BY <1>0, <2>2, <2>3, <2>4, GrownIsDecided DEF LogIsDecided
<1> QED
  BY <1>2, <1>3, <1>4, <1>5, <1>6, <1>7, <1>8, <1>9 DEF EngineNext

\* A longer log changes nothing of what the cache has replayed.
LEMMA LogGrowsUnread ==
  ASSUME EngineIInv, NEW e \in Change, Grown(log, log', e),
         UNCHANGED <<issued, rowOf, cache, undo, base, cursor>>
  PROVE  FollowsLog' /\ UndoIsBefore'
<1>0. /\ log \in Seq(Change) /\ cursor \in 0..Len(log) /\ issued \in Nat
      /\ base \in [Muts -> Nat] /\ \A m \in 1..issued : m \in Muts /\ base[m] \in Nat
  BY DEF EngineIInv, EngineTypeOK, TypeOK, Muts
<1>1. /\ Len(log') = Len(log) + 1 /\ Len(log) \in Nat
      /\ \A i \in 1..Len(log) : log'[i] = log[i]
  BY DEF Grown
<1>2. \A r, n, v : n \in 0..Len(log) => ReplayOf(log', r, 1, n, v) = ReplayOf(log, r, 1, n, v)
  <2> TAKE r, n, v
  <2> HAVE n \in 0..Len(log)
  <2>1. n \in Nat /\ \A i \in 1..n : log'[i] = log[i]
    BY <1>1
  <2> QED
    BY <2>1, ReplaySame
<1>3. \A m : Replicated(m)' <=> Replicated(m)
  <2>1. \A i \in 1..cursor : log'[i] = log[i]
    BY <1>0, <1>1
  <2> QED
    BY <2>1 DEF Replicated
<1>4. FollowsLog'
  BY <1>0, <1>2, <1>3 DEF FollowsLog, EngineIInv
<1>5. UndoIsBefore'
  <2> SUFFICES ASSUME NEW m \in 1..issued
               PROVE  /\ base[m] <= Len(log')
                      /\ Sole(m)' => undo[m] = ReplayOf(log', rowOf[m], 1, base[m], 0)
    BY DEF UndoIsBefore
  <2>1. base[m] <= Len(log) /\ base[m] \in 0..Len(log)
    BY <1>0, <1>1 DEF EngineIInv, UndoIsBefore
  <2>2. Sole(m)' <=> Sole(m)
    BY DEF Sole
  <2> QED
    BY <1>0, <1>1, <1>2, <2>1, <2>2 DEF EngineIInv, UndoIsBefore
<1> QED
  BY <1>4, <1>5

LEMMA LogGrowsCatchUp ==
  ASSUME EngineIInv, NEW e \in Change, Grown(log, log', e),
         UNCHANGED <<issued, rowOf, cache, base, cursor>>,
         \A m \in 1..issued :
           stored'[m] = "rejected" /\ TakenBack(m)' => stored[m] = "rejected" /\ TakenBack(m)
  PROVE  RejectionCatchesUp'
<1>0. /\ log \in Seq(Change) /\ cursor \in 0..Len(log) /\ issued \in Nat
      /\ base \in [Muts -> Nat] /\ \A m \in 1..issued : m \in Muts /\ base[m] \in Nat
  BY DEF EngineIInv, EngineTypeOK, TypeOK, Muts
<1>1. /\ Len(log') = Len(log) + 1 /\ Len(log) \in Nat /\ log'[Len(log) + 1] = e
      /\ \A i \in 1..Len(log) : log'[i] = log[i]
  BY DEF Grown
<1> SUFFICES ASSUME NEW m \in 1..issued, stored'[m] = "rejected", TakenBack(m)', Quiet(m)'
             PROVE  CatchesUp(rowOf[m])'
  BY DEF RejectionCatchesUp
<1> DEFINE r == rowOf[m]
           L == Len(log)
<1>2. base[m] <= L
  BY DEF EngineIInv, UndoIsBefore
<1>3. e.row # r
  BY <1>0, <1>1, <1>2 DEF Quiet
<1>4. Quiet(m)
  <2>1. Sole(m)
    BY DEF Quiet, Sole
  <2>2. ASSUME NEW i \in (base[m] + 1)..L PROVE log[i].row # r
    <3>1. i \in 1..L /\ i \in (base[m] + 1)..(L + 1)
      BY <1>0, <1>1
    <3>2. log'[i] = log[i]
      BY <1>1, <3>1
    <3>3. log'[i].row # r
      BY <1>1, <3>1 DEF Quiet
    <3> QED
      BY <3>2, <3>3
  <2> QED
    BY <2>1, <2>2 DEF Quiet
<1>5. CatchesUp(r)
  BY <1>4 DEF EngineIInv, RejectionCatchesUp
<1>6. ASSUME NEW a \in Nat \ {0}, a <= L + 1, NEW v
      PROVE  ReplayOf(log', r, a, L + 1, v) = ReplayOf(log, r, a, L, v)
  <2>1. ReplayOf(log', r, a, L, v) = ReplayOf(log, r, a, L, v)
    <3>1. \A i \in a..L : log'[i] = log[i]
      BY <1>1
    <3> QED
      BY <1>1, <3>1, ReplaySame
  <2>2. ReplayOf(log', r, L + 1, L + 1, ReplayOf(log', r, a, L, v)) = ReplayOf(log', r, a, L, v)
    <3>1. \A i \in (L + 1)..(L + 1) : log'[i].row # r
      BY <1>1, <1>3
    <3> QED
      BY <3>1, NoWrite
  <2>3. ReplayOf(log', r, L + 1, L + 1, ReplayOf(log', r, a, L, v)) = ReplayOf(log', r, a, L + 1, v)
    BY <1>1, <1>6, ReplayInTwo
  <2> QED
    BY <2>1, <2>2, <2>3
<1>7. cursor + 1 \in Nat \ {0} /\ cursor + 1 <= L + 1 /\ 1 <= L + 1
  BY <1>0, <1>1
<1> QED
  BY <1>1, <1>5, <1>6, <1>7 DEF CatchesUp

\* A step that leaves the cache and its log alone.
LEMMA CacheAtRest ==
  ASSUME EngineIInv, UNCHANGED <<issued, rowOf, cache, undo, base, cursor, log>>
  PROVE  /\ FollowsLog' /\ UndoIsBefore'
         /\ (\A m \in 1..issued :
               stored'[m] = "rejected" /\ TakenBack(m)' => stored[m] = "rejected" /\ TakenBack(m))
              => RejectionCatchesUp'
<1>1. \A m : Replicated(m)' = Replicated(m) /\ Sole(m)' = Sole(m) /\ Quiet(m)' = Quiet(m)
  BY DEF Replicated, Sole, Quiet
<1>2. \A r \in Rows : CatchesUp(r)' = CatchesUp(r)
  BY DEF CatchesUp
<1>3. FollowsLog' /\ UndoIsBefore'
  BY <1>1 DEF EngineIInv, FollowsLog, UndoIsBefore
<1>4. \A m \in 1..issued : rowOf[m] \in Rows
  BY DEF EngineIInv, EngineTypeOK, TypeOK, Muts
<1> QED
  BY <1>1, <1>2, <1>3, <1>4 DEF EngineIInv, RejectionCatchesUp

\* mutate(): the new row of the outbox comes with the row of the cache as it was.
LEMMA MutateStep ==
  ASSUME EngineIInv, EngineMutate
  PROVE  FollowsLog' /\ UndoIsBefore' /\ UndoneForRejection' /\ RejectionCatchesUp'
<1>a. issued + 1 \in Muts
  BY DEF EngineIInv, EngineTypeOK, TypeOK, Muts, EngineMutate, Mutate
<1>b. PICK n \in Muts : n = issued + 1
  BY <1>a
<1>0. /\ n \in Muts /\ issued \in Nat /\ issued' = n /\ n \notin 1..issued
      /\ 1..n = (1..issued) \cup {n} /\ 1..issued \subseteq Muts
  BY <1>b DEF EngineIInv, EngineTypeOK, TypeOK, Muts, EngineMutate, Mutate
<1>1. /\ undo' = [undo EXCEPT ![n] = cache[rowOf[n]]]
      /\ cache' = [cache EXCEPT ![rowOf[n]] = n]
      /\ base' = [base EXCEPT ![n] = cursor]
      /\ UNCHANGED <<rowOf, undone, log, cursor, stored, wire, phase>>
      /\ phase # "settle"
      /\ status' = [status EXCEPT ![n] = "pending"]
  BY <1>b DEF EngineMutate, BeforeImage, Mutate, DatabaseFree
<1>2. /\ rowOf \in [Muts -> Rows] /\ cache \in [Rows -> Values] /\ undo \in [Muts -> Values]
      /\ base \in [Muts -> Nat] /\ status \in [Muts -> Status]
      /\ log \in Seq(Change) /\ cursor \in 0..Len(log) /\ ~undone
  BY <1>1 DEF EngineIInv, EngineTypeOK, TypeOK, UndoneForRejection
<1>3. ~Replicated(n)'
  <2>1. \A i \in 1..cursor : i \in DOMAIN log
    BY <1>2
  <2>2. \A i \in DOMAIN log : log[i].value # n
    BY <1>0 DEF EngineIInv, LogIsDecided
  <2> QED
    BY <1>1, <2>1, <2>2 DEF Replicated
<1>4. \A m \in 1..issued : Replicated(m)' = Replicated(m)
  BY <1>1 DEF Replicated
<1>5. FollowsLog'
  <2> SUFFICES ASSUME NEW r \in Rows, \A m \in 1..n : rowOf[m] = r => Replicated(m)'
               PROVE  cache'[r] = ReplayOf(log, r, 1, cursor, 0)
    BY <1>0, <1>1 DEF FollowsLog
  <2>1. r # rowOf[n]
    BY <1>0, <1>3
  <2>2. \A m \in 1..issued : rowOf[m] = r => Replicated(m)
    BY <1>0, <1>4
  <2> QED
    BY <1>1, <1>2, <2>1, <2>2 DEF EngineIInv, FollowsLog
<1>6. \A m \in 1..issued : Sole(m)' => Sole(m) /\ rowOf[m] # rowOf[n]
  BY <1>0, <1>1 DEF Sole
<1>7. UndoIsBefore'
  <2> SUFFICES ASSUME NEW m \in 1..n
               PROVE  /\ base'[m] <= Len(log)
                      /\ Sole(m)' => undo'[m] = ReplayOf(log, rowOf[m], 1, base'[m], 0)
    BY <1>0, <1>1 DEF UndoIsBefore
  <2>1. CASE m = n
    <3>1. base'[m] = cursor /\ undo'[m] = cache[rowOf[n]]
      BY <1>0, <1>1, <1>2, <2>1
    <3>2. ASSUME Sole(m)' PROVE \A k \in 1..issued : rowOf[k] # rowOf[n]
      BY <1>0, <1>1, <2>1, <3>2 DEF Sole
    <3>3. ASSUME \A k \in 1..issued : rowOf[k] # rowOf[n]
          PROVE  cache[rowOf[n]] = ReplayOf(log, rowOf[n], 1, cursor, 0)
      BY <1>0, <1>2, <3>3 DEF EngineIInv, FollowsLog
    <3> QED
      BY <1>2, <2>1, <3>1, <3>2, <3>3
  <2>2. CASE m \in 1..issued
    <3>1. m # n /\ base'[m] = base[m] /\ undo'[m] = undo[m]
      BY <1>0, <1>1, <1>2, <2>2
    <3> QED
      BY <1>6, <2>2, <3>1 DEF EngineIInv, UndoIsBefore
  <2> QED
    BY <1>0, <2>1, <2>2
<1>8. UndoneForRejection'
  BY <1>1, <1>2 DEF UndoneForRejection
<1>9. RejectionCatchesUp'
  <2> SUFFICES ASSUME NEW m \in 1..n, stored[m] = "rejected", TakenBack(m)', Quiet(m)'
               PROVE  CatchesUp(rowOf[m])'
    BY <1>0, <1>1 DEF RejectionCatchesUp
  <2>1. status'[m] \in {"none", "rejected"}
    BY <1>1, <1>2 DEF TakenBack
  <2>2. m # n /\ m \in 1..issued
    BY <1>0, <1>1, <1>2, <2>1
  <2>3. status[m] \in {"none", "rejected"} /\ base'[m] = base[m]
    BY <1>0, <1>1, <1>2, <2>1, <2>2
  <2>4. Sole(m) /\ rowOf[m] # rowOf[n]
    BY <1>6, <2>2 DEF Quiet
  <2>5. Quiet(m) /\ TakenBack(m)
    BY <1>1, <2>3, <2>4 DEF Quiet, TakenBack
  <2>6. CatchesUp(rowOf[m])
    BY <2>2, <2>5 DEF EngineIInv, RejectionCatchesUp
  <2>7. cache'[rowOf[m]] = cache[rowOf[m]]
    BY <1>0, <1>1, <1>2, <2>2, <2>4
  <2> QED
    BY <1>1, <2>6, <2>7 DEF CatchesUp
<1> QED
  BY <1>5, <1>7, <1>8, <1>9

\* applyUndo(): a rejected mutation is not in the log, and the before-image of a
\* quiet one is the server's row.
LEMMA ApplyUndoStep ==
  ASSUME EngineIInv, ApplyUndo
  PROVE  FollowsLog' /\ UndoIsBefore' /\ UndoneForRejection' /\ RejectionCatchesUp'
<1>1. PICK n \in Muts : NextIsRejection(n) /\ cache' = [cache EXCEPT ![rowOf[n]] = undo[n]]
  BY DEF ApplyUndo
<1>2. /\ UNCHANGED <<rowOf, undo, log, cursor, base, issued, status, stored, phase, wire>>
      /\ phase = "settle" /\ undone'
  BY DEF ApplyUndo, vars
<1>3. /\ rowOf \in [Muts -> Rows] /\ cache \in [Rows -> Values] /\ base \in [Muts -> Nat]
      /\ status \in [Muts -> Status] /\ log \in Seq(Change) /\ cursor \in 0..Len(log)
      /\ issued \in Nat /\ 1..issued \subseteq Muts /\ wire \in Request
  BY DEF EngineIInv, EngineTypeOK, TypeOK, Muts
<1>4. stored[n] = "rejected" /\ n \in 1..issued
  <2>1. stored[n] = "rejected"
    BY <1>1, <1>2 DEF EngineIInv, IInv, RequestsOK, RequestOK, NextIsRejection
  <2>2. status[n] = "inflight"
    BY <1>1, <1>2 DEF EngineIInv, IInv, WireMatchesRows, NextIsRejection
  <2>3. n <= issued
    BY <1>3, <2>2 DEF EngineIInv, IInv, IssuedPrefix, Muts
  <2> QED
    BY <1>3, <2>1, <2>3 DEF Muts
<1>5. \A m \in Muts : NextIsRejection(m) => m = n
  BY <1>1 DEF NextIsRejection, First, Muts
<1>6. \A m : Replicated(m)' = Replicated(m) /\ Sole(m)' = Sole(m) /\ Quiet(m)' = Quiet(m)
             /\ NextIsRejection(m)' = NextIsRejection(m)
  BY <1>2 DEF Replicated, Sole, Quiet, NextIsRejection, First
<1>7. FollowsLog'
  <2>1. ~Replicated(n)
    <3>1. \A i \in 1..cursor : i \in DOMAIN log
      BY <1>3
    <3>2. \A i \in DOMAIN log : log[i].value # n
      BY <1>4 DEF EngineIInv, LogIsDecided
    <3> QED
      BY <3>1, <3>2 DEF Replicated
  <2> SUFFICES ASSUME NEW r \in Rows, \A m \in 1..issued : rowOf[m] = r => Replicated(m)
               PROVE  cache'[r] = ReplayOf(log, r, 1, cursor, 0)
    BY <1>2, <1>6 DEF FollowsLog
  <2>2. r # rowOf[n]
    BY <1>4, <2>1
  <2> QED
    BY <1>1, <1>3, <2>2 DEF EngineIInv, FollowsLog
<1>8. UndoIsBefore'
  BY <1>2, <1>6 DEF EngineIInv, UndoIsBefore
<1>9. UndoneForRejection'
  BY <1>1, <1>2, <1>6 DEF UndoneForRejection
<1>10. RejectionCatchesUp'
  <2> SUFFICES ASSUME NEW m \in 1..issued, stored[m] = "rejected", TakenBack(m)', Quiet(m)
               PROVE  CatchesUp(rowOf[m])'
    BY <1>2, <1>6 DEF RejectionCatchesUp
  <2>1. CASE m = n
    <3> DEFINE r == rowOf[n]
    <3>1. cache'[r] = ReplayOf(log, r, 1, base[n], 0)
      BY <1>1, <1>3, <1>4, <2>1 DEF EngineIInv, UndoIsBefore, Quiet
    <3>2. base[n] \in Nat /\ base[n] <= Len(log) /\ Len(log) \in Nat
      BY <1>3, <1>4 DEF EngineIInv, UndoIsBefore
    <3>3. ReplayOf(log, r, 1, base[n], 0) = ReplayOf(log, r, 1, Len(log), 0)
      <4>1. \A i \in (base[n] + 1)..Len(log) : log[i].row # r
        BY <2>1 DEF Quiet
      <4>2. ReplayOf(log, r, base[n] + 1, Len(log), ReplayOf(log, r, 1, base[n], 0))
              = ReplayOf(log, r, 1, base[n], 0)
        BY <4>1, NoWrite
      <4> QED
        BY <3>2, <4>2, ReplayInTwo
    <3>4. ReplayOf(log, r, cursor + 1, Len(log), ReplayOf(log, r, 1, Len(log), 0))
            = ReplayOf(log, r, 1, Len(log), 0)
      BY <1>3, <3>2, ReplayAgain
    <3> QED
      BY <1>2, <2>1, <3>1, <3>3, <3>4 DEF CatchesUp
  <2>2. CASE m # n
    <3>1. rowOf[m] # rowOf[n]
      BY <1>4, <2>2 DEF Quiet, Sole
    <3>2. TakenBack(m)
      BY <1>2, <1>3, <1>5, <1>6, <2>2 DEF TakenBack
    <3>3. CatchesUp(rowOf[m])
      BY <3>2 DEF EngineIInv, RejectionCatchesUp
    <3>4. cache'[rowOf[m]] = cache[rowOf[m]]
      BY <1>1, <1>3, <3>1
    <3> QED
      BY <1>2, <3>3, <3>4 DEF CatchesUp
  <2> QED
    BY <2>1, <2>2
<1> QED
  BY <1>7, <1>8, <1>9, <1>10

\* A row of an answered mutation leaves the queue with its verdict.
LEMMA SettleOneStep ==
  ASSUME EngineIInv, EngineSettleOne
  PROVE  FollowsLog' /\ UndoIsBefore' /\ UndoneForRejection' /\ RejectionCatchesUp'
<1>1. /\ UNCHANGED <<rowOf, cache, undo, log, cursor, base, issued, stored>> /\ ~undone'
      /\ phase = "settle"
  BY DEF EngineSettleOne, SettleOne
<1>2. PICK n \in First({k \in Muts : wire.answers[k] # "none"}) :
             status' = [status EXCEPT ![n] = RowAfter(wire.answers[n])]
  BY DEF EngineSettleOne, SettleOne
<1>3. /\ status \in [Muts -> Status] /\ n \in Muts /\ issued \in Nat /\ 1..issued \subseteq Muts
      /\ wire.answers[n] \in Answers
  BY <1>2 DEF EngineIInv, EngineTypeOK, TypeOK, Muts, First, Request
<1>4. ASSUME NEW m \in 1..issued, stored[m] = "rejected", TakenBack(m)'
      PROVE  TakenBack(m)
  <2>1. status'[m] \in {"none", "rejected"}
    BY <1>1, <1>4 DEF TakenBack
  <2>2. CASE m = n
    <3>1. wire.answers[n] # "applied"
      BY <1>1, <1>3, <1>4, <2>2 DEF EngineIInv, IInv, RequestsOK, RequestOK
    <3>2. wire.answers[n] = "rejected"
      BY <1>2, <1>3, <2>1, <2>2, <3>1 DEF RowAfter, First, Answers, Outcomes
    <3>3. NextIsRejection(n)
      BY <1>2, <3>2 DEF NextIsRejection
    <3>4. undone
      BY <1>3, <3>3 DEF EngineSettleOne
    <3> QED
      BY <2>2, <3>3, <3>4 DEF TakenBack
  <2>3. CASE m # n
    BY <1>2, <1>3, <2>1, <2>3 DEF TakenBack
  <2> QED
    BY <2>2, <2>3
<1>5. FollowsLog' /\ UndoIsBefore' /\ RejectionCatchesUp'
  BY <1>1, <1>4, CacheAtRest
<1> QED
  BY <1>1, <1>5 DEF UndoneForRejection

\* applyBatch(): a row the batch writes has the log's last value of it, another row
\* was as far as the log already.
LEMMA ReceiveChangesStep ==
  ASSUME EngineIInv, ReceiveChanges
  PROVE  FollowsLog' /\ UndoIsBefore' /\ UndoneForRejection' /\ RejectionCatchesUp'
<1>1. PICK n \in (cursor + 1)..Len(log) :
             /\ cache' = [r \in Rows |-> Replayed(r, cursor + 1, n, cache[r])]
             /\ cursor' = n
  BY DEF ReceiveChanges, ApplyBatch
<1>2. /\ UNCHANGED <<rowOf, undo, undone, log, base, issued, stored, status>>
      /\ phase # "settle"
  BY DEF ReceiveChanges, ShapeEvent, DatabaseFree
<1>3. /\ rowOf \in [Muts -> Rows] /\ log \in Seq(Change) /\ cursor \in Nat /\ n \in Nat
      /\ Len(log) \in Nat /\ cursor < n /\ n <= Len(log)
      /\ issued \in Nat /\ 1..issued \subseteq Muts /\ ~undone
  BY <1>2 DEF EngineIInv, EngineTypeOK, TypeOK, Muts, UndoneForRejection
<1>4. \A r \in Rows : cache'[r] = ReplayOf(log, r, cursor + 1, n, cache[r])
  BY <1>1 DEF Replayed, ReplayOf
<1>5. \A m : Sole(m)' = Sole(m) /\ Quiet(m)' = Quiet(m)
  BY <1>2 DEF Sole, Quiet
<1>6. FollowsLog'
  <2> SUFFICES ASSUME NEW r \in Rows, \A m \in 1..issued : rowOf[m] = r => Replicated(m)'
               PROVE  cache'[r] = ReplayOf(log, r, 1, n, 0)
    BY <1>1, <1>2 DEF FollowsLog
  <2>1. CASE \A i \in (cursor + 1)..n : log[i].row # r
    <3>1. ASSUME NEW m \in 1..issued, rowOf[m] = r PROVE Replicated(m)
      <4>1. PICK i \in 1..n : log[i] = [row |-> rowOf[m], value |-> m]
        BY <1>1, <1>2, <3>1 DEF Replicated
      <4>2. log[i].row = r
        BY <3>1, <4>1
      <4>3. i \in 1..cursor
        BY <1>3, <2>1, <4>2
      <4> QED
        BY <4>1, <4>3 DEF Replicated
    <3>2. cache[r] = ReplayOf(log, r, 1, cursor, 0)
      BY <3>1 DEF EngineIInv, FollowsLog
    <3>3. ReplayOf(log, r, cursor + 1, n, ReplayOf(log, r, 1, cursor, 0))
            = ReplayOf(log, r, 1, n, 0)
      BY <1>3, ReplayInTwo
    <3> QED
      BY <1>4, <3>2, <3>3
  <2>2. ASSUME NEW i \in (cursor + 1)..n, LastOf(log, r, cursor + 1, n, i)
        PROVE  cache'[r] = ReplayOf(log, r, 1, n, 0)
    <3>1. LastOf(log, r, 1, n, i)
      BY <1>3, <2>2 DEF LastOf
    <3>2. cursor + 1 \in Nat
      BY <1>3
    <3>3. ReplayOf(log, r, cursor + 1, n, cache[r]) = log[i].value
      BY <1>3, <2>2, <3>2, LastWrite
    <3>4. ReplayOf(log, r, 1, n, 0) = log[i].value
      BY <1>3, <3>1, LastWrite
    <3> QED
      BY <1>4, <3>3, <3>4
  <2>3. cursor + 1 \in Nat \ {0}
    BY <1>3
  <2> QED
    BY <1>3, <2>1, <2>2, <2>3, WriteOrNone
<1>7. UndoIsBefore'
  BY <1>2, <1>5 DEF EngineIInv, UndoIsBefore
<1>8. UndoneForRejection'
  BY <1>2, <1>3 DEF UndoneForRejection
<1>9. RejectionCatchesUp'
  <2> SUFFICES ASSUME NEW m \in 1..issued, stored[m] = "rejected", TakenBack(m)', Quiet(m)
               PROVE  CatchesUp(rowOf[m])'
    BY <1>2, <1>5 DEF RejectionCatchesUp
  <2> DEFINE r == rowOf[m]
  <2>1. TakenBack(m)
    BY <1>2, <1>3 DEF TakenBack
  <2>2. CatchesUp(r)
    BY <2>1 DEF EngineIInv, RejectionCatchesUp
  <2>3. ReplayOf(log, r, n + 1, Len(log), ReplayOf(log, r, cursor + 1, n, cache[r]))
          = ReplayOf(log, r, cursor + 1, Len(log), cache[r])
    BY <1>3, ReplayInTwo
  <2>4. r \in Rows
    BY <1>3
  <2> QED
    BY <1>1, <1>2, <1>4, <2>2, <2>3, <2>4 DEF CatchesUp
<1> QED
  BY <1>6, <1>7, <1>8, <1>9

\* resetTemplate(): nothing is replayed yet, nothing is there.
LEMMA MustRefetchStep ==
  ASSUME EngineIInv, MustRefetch
  PROVE  FollowsLog' /\ UndoIsBefore' /\ UndoneForRejection' /\ RejectionCatchesUp'
<1>1. /\ UNCHANGED <<rowOf, undo, undone, log, base, issued, stored, status>>
      /\ phase # "settle" /\ cursor' = 0 /\ cache' = [r \in Rows |-> 0]
  BY DEF MustRefetch, ResetTemplate, ShapeEvent, DatabaseFree
<1>2. \A r \in Rows : cache'[r] = 0 /\ ReplayOf(log, r, 1, 0, 0) = 0
  BY <1>1, NoWrite
<1>3. FollowsLog'
  BY <1>1, <1>2 DEF FollowsLog
<1>4. \A m : Sole(m)' = Sole(m)
  BY <1>1 DEF Sole
<1>5. UndoIsBefore'
  BY <1>1, <1>4 DEF EngineIInv, UndoIsBefore
<1>6. UndoneForRejection'
  BY <1>1 DEF EngineIInv, UndoneForRejection
<1>7. \A m \in 1..issued : rowOf[m] \in Rows
  BY DEF EngineIInv, EngineTypeOK, TypeOK, Muts
<1>8. \A r \in Rows : CatchesUp(r)'
  BY <1>1, <1>2 DEF CatchesUp
<1>9. RejectionCatchesUp'
  BY <1>1, <1>7, <1>8 DEF RejectionCatchesUp
<1> QED
  BY <1>3, <1>5, <1>6, <1>9

LEMMA UploadOnlyStep ==
  ASSUME EngineIInv, UploadOnly \/ UNCHANGED engineVars
  PROVE  FollowsLog' /\ UndoIsBefore' /\ UndoneForRejection' /\ RejectionCatchesUp'
<1>1. /\ UNCHANGED <<rowOf, cache, undo, undone, log, cursor, base, issued, stored>>
      /\ \A m \in Muts : status'[m] \in {"none", "rejected"} => status[m] \in {"none", "rejected"}
      /\ undone => UNCHANGED <<phase, wire, status>>
  <2>1. CASE UNCHANGED engineVars
    BY <2>1 DEF engineVars, vars, cacheVars
  <2>2. CASE UploadOnly
    BY <2>2, UploadOnlyKeeps DEF UploadOnly, cacheVars
  <2> QED
    BY <2>1, <2>2
<1>2. undone => \A m \in Muts : NextIsRejection(m)' = NextIsRejection(m)
  BY <1>1 DEF NextIsRejection, First
<1>3. 1..issued \subseteq Muts
  BY DEF EngineIInv, EngineTypeOK, TypeOK, Muts
<1>4. UndoneForRejection'
  BY <1>1, <1>2 DEF EngineIInv, UndoneForRejection
<1>5. \A m \in 1..issued : TakenBack(m)' => TakenBack(m)
  BY <1>1, <1>2, <1>3 DEF TakenBack
<1> QED
  BY <1>1, <1>4, <1>5, CacheAtRest

LEMMA CrashStep ==
  ASSUME EngineIInv, EngineCrash
  PROVE  FollowsLog' /\ UndoIsBefore' /\ UndoneForRejection' /\ RejectionCatchesUp'
<1>1. UNCHANGED <<rowOf, cache, undo, log, cursor, base, issued, stored, status>> /\ ~undone'
  BY DEF EngineCrash, Crash
<1>2. UndoneForRejection'
  BY <1>1 DEF UndoneForRejection
<1>3. \A m \in 1..issued : TakenBack(m)' => TakenBack(m)
  BY <1>1 DEF TakenBack
<1> QED
  BY <1>1, <1>2, <1>3, CacheAtRest

\* What the server decides it decides once: a rejection the engine took back was
\* one before the step.
LEMMA EngineServerStep ==
  ASSUME EngineIInv, EngineServer
  PROVE  FollowsLog' /\ UndoIsBefore' /\ UndoneForRejection' /\ RejectionCatchesUp'
<1>1. /\ UNCHANGED <<rowOf, cache, undo, undone, cursor, base, issued, status, phase>>
      /\ phase = "settle" => UNCHANGED wire
  BY ServerDecides DEF EngineServer, EngineIInv, clientVars
<1>2. /\ \A k \in Muts : stored[k] # "none" => stored'[k] = stored[k]
      /\ \/ UNCHANGED log
         \/ \E m \in 1..issued :
              /\ m \in Muts /\ stored[m] = "none" /\ stored'[m] = "applied"
              /\ log' = Append(log, [row |-> rowOf[m], value |-> m])
  BY ServerLogs
<1>3. /\ 1..issued \subseteq Muts /\ rowOf \in [Muts -> Rows] /\ log \in Seq(Change)
  BY DEF EngineIInv, EngineTypeOK, TypeOK, Muts
<1>4. undone => phase = "settle" /\ \A m \in Muts : NextIsRejection(m)' = NextIsRejection(m)
  BY <1>1 DEF EngineIInv, UndoneForRejection, NextIsRejection, First
<1>5. UndoneForRejection'
  BY <1>1, <1>4 DEF EngineIInv, UndoneForRejection
<1>6. ASSUME NEW m \in 1..issued, stored'[m] = "rejected", TakenBack(m)'
      PROVE  stored[m] = "rejected" /\ TakenBack(m)
  <2>1. TakenBack(m)
    BY <1>1, <1>3, <1>4, <1>6 DEF TakenBack
  <2>2. stored[m] # "none"
    <3>1. CASE status[m] \in {"none", "rejected"}
      BY <1>3, <3>1 DEF EngineIInv, IInv, Safe, NeverSilentlyDropped, ShownAsDecided
    <3>2. CASE undone /\ NextIsRejection(m)
      BY <1>3, <1>4, <3>2 DEF EngineIInv, IInv, RequestsOK, RequestOK, NextIsRejection
    <3> QED
      BY <2>1, <3>1, <3>2 DEF TakenBack
  <2> QED
    BY <1>2, <1>3, <1>6, <2>1, <2>2
<1>7. CASE UNCHANGED log
  BY <1>1, <1>5, <1>6, <1>7, CacheAtRest
<1>8. ASSUME NEW m \in 1..issued, log' = Append(log, [row |-> rowOf[m], value |-> m])
      PROVE  FollowsLog' /\ UndoIsBefore' /\ RejectionCatchesUp'
  <2>1. PICK e \in Change : e = [row |-> rowOf[m], value |-> m]
    BY <1>3, ValuesOfMutations DEF Change
  <2>2. Grown(log, log', e)
    BY <1>3, <1>8, <2>1, Appended
  <2> QED
    BY <1>1, <1>6, <2>2, LogGrowsUnread, LogGrowsCatchUp
<1> QED
  BY <1>2, <1>5, <1>7, <1>8

LEMMA OtherWritesStep ==
  ASSUME EngineIInv, NEW r \in Rows, OtherWrites(r)
  PROVE  FollowsLog' /\ UndoIsBefore' /\ UndoneForRejection' /\ RejectionCatchesUp'
<1>1. UNCHANGED <<vars, rowOf, cache, undo, undone, cursor, base>>
  BY DEF OtherWrites
<1>2. UNCHANGED <<issued, status, stored, phase, wire>>
  BY <1>1 DEF vars
<1>3. PICK v \in Values \ Muts :
             [row |-> r, value |-> v] \in Change /\ log' = Append(log, [row |-> r, value |-> v])
  BY OtherWritesType DEF EngineIInv
<1>4. PICK e \in Change : e = [row |-> r, value |-> v]
  BY <1>3
<1>5. Grown(log, log', e)
  BY <1>3, <1>4, Appended DEF EngineIInv, EngineTypeOK
<1>6. \A m : TakenBack(m)' = TakenBack(m) /\ NextIsRejection(m)' = NextIsRejection(m)
  BY <1>1, <1>2 DEF TakenBack, NextIsRejection, First
<1>7. UndoneForRejection'
  BY <1>1, <1>2, <1>6 DEF EngineIInv, UndoneForRejection
<1> QED
  BY <1>1, <1>2, <1>5, <1>6, <1>7, LogGrowsUnread, LogGrowsCatchUp

LEMMA EngineInvStep == EngineIInv /\ [EngineNext]_engineVars => EngineIInv'
<1> SUFFICES ASSUME EngineIInv, [EngineNext]_engineVars
             PROVE  EngineIInv'
  OBVIOUS
<1>1. EngineTypeOK' /\ LogIsDecided'
  BY EngineTypeStep, LogIsDecidedStep DEF EngineIInv
<1>2. IInv' /\ Carried'
  BY EngineStepIsUploadStep, InvStep, CarriedStep DEF EngineIInv
<1>3. FollowsLog' /\ UndoIsBefore' /\ UndoneForRejection' /\ RejectionCatchesUp'
  BY MutateStep, ApplyUndoStep, SettleOneStep, ReceiveChangesStep, MustRefetchStep,
     CrashStep, EngineServerStep, OtherWritesStep, UploadOnlyStep DEF EngineNext
<1> QED
  BY <1>1, <1>2, <1>3 DEF EngineIInv

LEMMA EngineInvAlways == EngineSpec => []EngineIInv
  BY EngineInvInit, EngineInvStep, PTL DEF EngineSpec

\* Once a row's local writes have all come back through the shape, the cache holds
\* what the log says at the stored cursor: after any optimistic write, undo, batch,
\* refetch, crash or retry, for any number of rows, mutations and foreign writes.
THEOREM CacheIsTheLog == EngineSpec => []CacheFollowsLog
<1>1. EngineIInv => CacheFollowsLog
  BY DEF EngineIInv, FollowsLog, CacheFollowsLog, Replayed, ReplayOf
<1> QED
  BY EngineInvAlways, <1>1, PTL

\* A rejected mutation that was the only local write to a row nobody changed since
\* leaves the server's row in the cache once the cache has read the whole log.
THEOREM RejectionRestores == EngineSpec => []SoleRejectionRestores
<1>1. ASSUME EngineIInv
      PROVE  SoleRejectionRestores
  <2> SUFFICES ASSUME NEW m \in 1..issued, TakenBack(m), stored[m] = "rejected", Quiet(m),
                      cursor = Len(log)
               PROVE  cache[rowOf[m]] = ServerRow(rowOf[m])
    BY DEF SoleRejectionRestores, TakenBack, Quiet, Sole
  <2>1. CatchesUp(rowOf[m])
    BY <1>1 DEF EngineIInv, RejectionCatchesUp
  <2>2. ReplayOf(log, rowOf[m], cursor + 1, Len(log), cache[rowOf[m]]) = cache[rowOf[m]]
    <3>1. \A i \in (cursor + 1)..Len(log) : log[i].row # rowOf[m]
      BY <1>1 DEF EngineIInv, EngineTypeOK
    <3> QED
      BY <3>1, NoWrite
  <2> QED
    BY <2>1, <2>2 DEF CatchesUp, ServerRow, Replayed, ReplayOf
<1> QED
  BY EngineInvAlways, <1>1, PTL

\* So the promises of the upload path are promises of the whole engine.
COROLLARY EngineKeepsPromises ==
  EngineSpec => [](DecidedInOrder /\ NeverSilentlyDropped /\ ShownAsDecided) /\ ImplementsDelivery
<1>1. IInv => DecidedInOrder /\ NeverSilentlyDropped /\ ShownAsDecided
  BY DEF IInv, Safe
<1> QED
  BY <1>1, EngineImplementsUpload, InvAlways, UploadImplementsDelivery, PTL

-----------------------------------------------------------------------------
(* The sessions of the worker *)

\* The map has an engine that was made.  A tab has an engine once its init was handled,
\* and is attached to it once it was answered; only answered tabs can have been refused.
TabsOK ==
  /\ current <= made
  /\ \A p \in Ports : port[p] # "new" => by[p] \in 1..made
  /\ \A p \in refused : port[p] = "answered"

SessionsType == Sessions!TypeOK /\ TabsOK

\* Inits are handled one after the other, and the engine that runs is the one of
\* the map, or the one that init is making.
OneInit ==
  /\ \A p, q \in Ports : port[p] = "waiting" /\ port[q] = "waiting" => p = q
  /\ (\E p \in Ports : port[p] = "waiting") => current = Sessions!NoEngine

RunsForTheTabs ==
  \A e \in Sessions!Engines : engine[e] \in {"running", "revoking"} =>
    e = current \/ \E p \in Ports : port[p] = "waiting" /\ by[p] = e

\* An answered tab belongs to the engine of the map unless its access is gone.
AnsweredByCurrent ==
  \A p \in Ports : port[p] = "answered" /\ engine[by[p]] # "revoked" => by[p] = current

SessionsIInv ==
  /\ SessionsType
  /\ ~crossed => OneInit /\ RunsForTheTabs /\ AnsweredByCurrent
  /\ ~crossed => \A p \in refused : engine[by[p]] = "revoked"

LEMMA SessionsInvInit == Sessions!Init => SessionsIInv
<1> SUFFICES ASSUME Sessions!Init
             PROVE  SessionsIInv
  OBVIOUS
<1> USE DEF Sessions!Init, Sessions!Engines, Sessions!NoEngine
<1>1. Sessions!TypeOK
  <2>1. made \in 0..MaxEngines /\ current \in Sessions!Engines \cup {Sessions!NoEngine}
    BY SessionsAssumption
  <2>2. engine \in [Sessions!Engines -> Sessions!EngineStates]
    BY DEF Sessions!EngineStates
  <2>3. port \in [Ports -> Sessions!PortStates] /\ \A p \in Ports : port[p] # "answered"
    BY DEF Sessions!PortStates
  <2>4. \A e \in Sessions!Engines : engine[e] = "none" /\ e > made
    OBVIOUS
  <2>5. attached \in [Sessions!Engines -> SUBSET Ports]
    OBVIOUS
  <2>6. by \in [Ports -> Sessions!Engines \cup {Sessions!NoEngine}]
    OBVIOUS
  <2>7. refused \in SUBSET Ports /\ crossed \in BOOLEAN
    OBVIOUS
  <2> HIDE DEF Sessions!Init, Sessions!Engines, Sessions!NoEngine
  <2> QED
    BY <2>1, <2>2, <2>3, <2>4, <2>5, <2>6, <2>7 DEF Sessions!TypeOK
<1>2. \A p \in Ports : port[p] = "new"
  OBVIOUS
<1>3. \A e \in Sessions!Engines : engine[e] = "none"
  OBVIOUS
<1>4. refused = {} /\ current <= made
  OBVIOUS
<1> QED
  BY <1>1, <1>2, <1>3, <1>4
  DEF SessionsIInv, SessionsType, TabsOK, OneInit, RunsForTheTabs, AnsweredByCurrent

LEMMA SessionsTypeStep == SessionsType /\ Sessions!Next => SessionsType'
<1> SUFFICES ASSUME SessionsType, Sessions!Next
             PROVE  SessionsType'
  OBVIOUS
<1> USE DEF SessionsType, Sessions!TypeOK, TabsOK, Sessions!Engines, Sessions!NoEngine
<1>0. MaxEngines \in Nat
  BY SessionsAssumption
<1>1. ASSUME NEW p \in Ports, Sessions!JoinSession(p)
      PROVE  SessionsType'
  <2>1. Sessions!Kept \in 1..made
    BY <1>1 DEF Sessions!JoinSession, Sessions!Kept
  <2> QED
    BY <1>0, <1>1, <2>1 DEF Sessions!JoinSession, Sessions!InitArrives, Sessions!Attached,
      Sessions!PortStates
<1>2. ASSUME NEW p \in Ports, Sessions!BeginSession(p)
      PROVE  SessionsType'
  <2>1. /\ made' = made + 1 /\ made + 1 \in 1..MaxEngines
        /\ current' \in 0..made
    BY <1>0, <1>2 DEF Sessions!BeginSession, Sessions!Kept
  <2>2. /\ engine' = [engine EXCEPT ![made + 1] = "running"]
        /\ port' = [port EXCEPT ![p] = "waiting"] /\ by' = [by EXCEPT ![p] = made + 1]
        /\ UNCHANGED <<attached, refused>> /\ port[p] = "new" /\ crossed' \in BOOLEAN
    BY <1>2 DEF Sessions!BeginSession, Sessions!InitArrives
  <2>3. engine' \in [1..MaxEngines -> Sessions!EngineStates]
    BY <2>1, <2>2 DEF Sessions!EngineStates
  <2>4. \A e \in 1..MaxEngines : engine'[e] = "none" <=> e > made + 1
    BY <2>1, <2>2
  <2> QED
    BY <1>0, <2>1, <2>2, <2>3, <2>4 DEF Sessions!PortStates
<1>3. ASSUME NEW p \in Ports, Sessions!SessionCreated(p)
      PROVE  SessionsType'
  BY <1>0, <1>3 DEF Sessions!SessionCreated, Sessions!Attached, Sessions!PortsWith,
    Sessions!PortStates
<1>4. ASSUME NEW p \in Ports, Sessions!Request(p) \/ Sessions!CloseTab(p)
      PROVE  SessionsType'
  BY <1>0, <1>4 DEF Sessions!Request, Sessions!CloseTab, Sessions!PortStates
<1>5. ASSUME NEW e \in 1..MaxEngines, NEW old \in Sessions!EngineStates \ {"none"},
             NEW new \in Sessions!EngineStates \ {"none"}, Sessions!Become(e, old, new),
             UNCHANGED <<made, current, attached, port, by, refused, crossed>>
      PROVE  SessionsType'
  BY <1>0, <1>5 DEF Sessions!Become
<1>6. ASSUME NEW p \in Ports, Sessions!SignOut(p)
      PROVE  SessionsType'
  BY <1>5, <1>6 DEF Sessions!SignOut, Sessions!HasSession, Sessions!EngineStates
<1>7. ASSUME NEW e \in Sessions!Engines, Sessions!Revoked(e) \/ Sessions!Erased(e)
      PROVE  SessionsType'
  BY <1>5, <1>7 DEF Sessions!Revoked, Sessions!Erased, Sessions!EngineStates
<1> QED
  BY <1>1, <1>2, <1>3, <1>4, <1>6, <1>7 DEF Sessions!Next

\* The parts of the invariant that hold as long as no init crossed another.
InTurn ==
  OneInit /\ RunsForTheTabs /\ AnsweredByCurrent /\ \A p \in refused : engine[by[p]] = "revoked"

LEMMA InTurnStep ==
  ASSUME SessionsType, SessionsType', InTurn, Sessions!Next, ~crossed'
  PROVE  InTurn'
<1> USE DEF SessionsType, Sessions!TypeOK, TabsOK, Sessions!Engines, Sessions!NoEngine,
            InTurn, OneInit, RunsForTheTabs, AnsweredByCurrent
<1>0. MaxEngines \in Nat
  BY SessionsAssumption
<1>1. ASSUME NEW p \in Ports, Sessions!JoinSession(p)
      PROVE  InTurn'
  <2>1. \A q \in Ports : port[q] # "waiting" /\ port'[q] # "waiting"
    <3>1. \A q \in Ports : port[q] # "waiting"
      BY <1>1 DEF Sessions!JoinSession, Sessions!InitArrives
    <3>2. port' = [port EXCEPT ![p] = "answered"]
      BY <1>1 DEF Sessions!JoinSession, Sessions!Attached
    <3> QED
      BY <3>1, <3>2
  <2>2. current # 0 /\ Sessions!Kept = current
    BY <1>1 DEF Sessions!JoinSession, Sessions!Kept
  <2> QED
    BY <1>1, <2>1, <2>2 DEF Sessions!JoinSession, Sessions!Attached
<1>2. ASSUME NEW p \in Ports, Sessions!BeginSession(p)
      PROVE  InTurn'
  <2>1. \A q \in Ports : port[q] # "waiting"
    BY <1>2 DEF Sessions!BeginSession, Sessions!InitArrives
  <2>2. /\ current' = 0
        /\ current = 0 \/ engine[current] = "revoked"
    BY <1>2 DEF Sessions!BeginSession, Sessions!Kept
  <2>3. /\ engine' = [engine EXCEPT ![made + 1] = "running"] /\ made + 1 \in 1..MaxEngines
        /\ port' = [port EXCEPT ![p] = "waiting"] /\ by' = [by EXCEPT ![p] = made + 1]
        /\ UNCHANGED <<attached, refused>> /\ port[p] = "new"
    BY <1>0, <1>2 DEF Sessions!BeginSession
  <2>4. \A e \in 1..MaxEngines : engine'[e] \in {"running", "revoking"} => e = made + 1
    BY <2>1, <2>2, <2>3
  <2>5. \A q \in Ports : port[q] = "answered" => engine[by[q]] = "revoked"
    BY <2>2
  <2>6. \A q \in Ports : port[q] = "answered" => by'[q] = by[q] /\ engine'[by[q]] = engine[by[q]]
    BY <2>3
  <2>7. OneInit' /\ RunsForTheTabs'
    BY <2>1, <2>2, <2>3, <2>4
  <2>8. AnsweredByCurrent'
    BY <2>3, <2>5, <2>6
  <2> QED
    BY <2>3, <2>6, <2>7, <2>8
<1>3. ASSUME NEW p \in Ports, Sessions!SessionCreated(p)
      PROVE  InTurn'
  <2>1. current = 0 /\ current' = by[p] /\ by[p] \in 1..MaxEngines
    BY <1>0, <1>3 DEF Sessions!SessionCreated
  <2>2. \A q \in Ports \ {p} : port[q] # "waiting"
    BY <1>3 DEF Sessions!SessionCreated
  <2>3. /\ port' = [port EXCEPT ![p] = "answered"] /\ by' = by
        /\ UNCHANGED <<engine, refused>> /\ port[p] = "waiting"
    BY <1>3 DEF Sessions!SessionCreated, Sessions!Attached
  <2> QED
    BY <2>1, <2>2, <2>3
<1>4. ASSUME NEW p \in Ports, Sessions!Request(p)
      PROVE  InTurn'
  <2>1. UNCHANGED <<made, engine, current, attached, port, by>> /\ port[p] = "answered"
    BY <1>4 DEF Sessions!Request
  <2>2. ~Sessions!HasSession(p) => engine[by[p]] = "revoked"
    BY <1>0, <2>1 DEF Sessions!HasSession
  <2>3. \A q \in refused' : q \in refused \/ (q = p /\ ~Sessions!HasSession(p))
    BY <1>4 DEF Sessions!Request
  <2> QED
    BY <1>4, <2>1, <2>2, <2>3 DEF Sessions!Request
<1>5. ASSUME NEW p \in Ports, Sessions!CloseTab(p)
      PROVE  InTurn'
  BY <1>5 DEF Sessions!CloseTab
<1>6. ASSUME NEW e \in 1..MaxEngines, NEW old, NEW new,
             Sessions!Become(e, old, new), old \notin {"none", "revoked"},
             new \in {"running", "revoking"} => old \in {"running", "revoking"},
             UNCHANGED <<made, current, attached, port, by, refused, crossed>>
      PROVE  InTurn'
  <2>1. /\ engine'[e] = new /\ engine[e] = old
        /\ \A f \in (1..MaxEngines) \ {e} : engine'[f] = engine[f]
    BY <1>6 DEF Sessions!Become
  <2> QED
    BY <1>0, <1>6, <2>1
<1>7. ASSUME NEW p \in Ports, Sessions!SignOut(p)
      PROVE  InTurn'
  BY <1>6, <1>7 DEF Sessions!SignOut, Sessions!HasSession
<1>8. ASSUME NEW e \in Sessions!Engines, Sessions!Revoked(e) \/ Sessions!Erased(e)
      PROVE  InTurn'
  BY <1>6, <1>8 DEF Sessions!Revoked, Sessions!Erased
<1> QED
  BY <1>1, <1>2, <1>3, <1>4, <1>5, <1>7, <1>8 DEF Sessions!Next

LEMMA CrossedStays == Sessions!Next /\ crossed /\ SessionsType => crossed'
<1> SUFFICES ASSUME Sessions!Next, crossed, SessionsType
             PROVE  crossed'
  OBVIOUS
<1>1. crossed' = crossed \/ \E p \in Ports : Sessions!InitArrives
  BY DEF Sessions!Next, Sessions!JoinSession, Sessions!BeginSession, Sessions!SessionCreated,
         Sessions!Request, Sessions!SignOut, Sessions!CloseTab, Sessions!Revoked, Sessions!Erased
<1> QED
  BY <1>1, Zenon DEF Sessions!InitArrives, SessionsType, Sessions!TypeOK

LEMMA SessionsInvStep == SessionsIInv /\ [Sessions!Next]_Sessions!vars => SessionsIInv'
<1> SUFFICES ASSUME SessionsIInv, [Sessions!Next]_Sessions!vars
             PROVE  SessionsIInv'
  OBVIOUS
<1>1. CASE Sessions!Next
  <2>1. SessionsType'
    BY <1>1, SessionsTypeStep DEF SessionsIInv
  <2>2. ~crossed' => ~crossed
    BY <1>1, CrossedStays DEF SessionsIInv
  <2> QED
    BY <1>1, <2>1, <2>2, InTurnStep DEF SessionsIInv, InTurn
<1>2. CASE UNCHANGED Sessions!vars
  BY <1>2 DEF Sessions!vars, SessionsIInv, SessionsType, Sessions!TypeOK, TabsOK, OneInit,
              RunsForTheTabs, AnsweredByCurrent
<1> QED
  BY <1>1, <1>2

LEMMA SessionsInvAlways == Sessions!Spec => []SessionsIInv
  BY SessionsInvInit, SessionsInvStep, PTL DEF Sessions!Spec

\* host.ts:34: never two engines on the same cache and outbox, unless an init arrived
\* in the middle of another.
THEOREM TabsShareOneEngine == Sessions!Spec => []Sessions!OneEngine
<1>1. SessionsIInv => Sessions!OneEngine
  BY DEF SessionsIInv, OneInit, RunsForTheTabs, SessionsType, Sessions!TypeOK,
         Sessions!OneEngine, Sessions!Engines, Sessions!NoEngine
<1> QED
  BY <1>1, SessionsInvAlways, PTL

\* Under the same condition a tab whose init was answered is refused only once the
\* access of its engine was revoked.
THEOREM AnsweredTabsAreHeard == Sessions!Spec => []Sessions!HeardUntilRevoked
<1>1. SessionsIInv => Sessions!HeardUntilRevoked
  BY DEF SessionsIInv, Sessions!HeardUntilRevoked
<1> QED
  BY <1>1, SessionsInvAlways, PTL

-----------------------------------------------------------------------------
(* The trust in the devices: types *)

LEMMA LoggedIsTyped ==
  ASSUME Trust!TypeOK, NEW w \in Workspaces, NEW devices, NEW type \in Trust!Events, NEW at \in Nat
  PROVE  Trust!Logged(w, devices, type, at)
           \in [Workspaces -> [Devices -> [type : Trust!Events, at : Nat]]]
  BY DEF Trust!TypeOK, Trust!Logged

LEMMA RevokedAlsoIsTyped ==
  ASSUME Trust!TypeOK, NEW w \in Workspaces, NEW devices, NEW reason \in Trust!Reasons
  PROVE  Trust!RevokedAlso(w, devices, reason)
           \in [Workspaces -> [Devices -> Trust!Reasons \cup {Trust!NotRevoked}]]
  BY DEF Trust!TypeOK, Trust!RevokedAlso

\* A call that is somewhere else than idle has its operation and its target.
LEMMA CallTypes ==
  ASSUME Trust!TypeOK, NEW c \in ApiCalls, NEW step \in {"check", "latest", "begin",
         "commit"}, Trust!At(c, step)
  PROVE  /\ call[c] \in Trust!CallStates
         /\ Trust!Op(c) \in Trust!Operations /\ Trust!Device(c) \in Devices
              /\ Trust!Workspace(c) \in Workspaces
         /\ call[c].at \in Nat
<1>1. call[c] \in Trust!CallStates
  BY DEF Trust!TypeOK, Trust!At, Trust!NoCall
<1> QED
  BY <1>1 DEF Trust!CallStates, Trust!Op, Trust!Device, Trust!Workspace

LEMMA MovesKeepsTypes ==
  ASSUME Trust!TypeOK, NEW c \in ApiCalls, NEW step \in {"check", "latest", "begin", "commit"},
         call[c] \in Trust!CallStates, Trust!Moves(c, step)
  PROVE  call' \in [ApiCalls -> Trust!CallStates \cup {Trust!NoCall}]
<1>1. [call[c] EXCEPT !.step = step] \in Trust!CallStates
  BY DEF Trust!CallStates
<1> QED
  BY <1>1 DEF Trust!TypeOK, Trust!Moves

LEMMA ReturnsKeepsTypes ==
  ASSUME Trust!TypeOK, NEW c \in ApiCalls, Trust!Returns(c)
  PROVE  call' \in [ApiCalls -> Trust!CallStates \cup {Trust!NoCall}]
  BY DEF Trust!TypeOK, Trust!Returns

LEMMA TrustTypeStep == Trust!TypeOK /\ [Trust!Next]_Trust!vars => Trust!TypeOK'
<1> SUFFICES ASSUME Trust!TypeOK, [Trust!Next]_Trust!vars PROVE Trust!TypeOK'
  OBVIOUS
<1>1. CASE UNCHANGED Trust!vars
  BY <1>1 DEF Trust!TypeOK, Trust!vars
<1>2. ASSUME NEW c \in ApiCalls, NEW op \in Trust!Operations, NEW w \in Workspaces, NEW d
             \in Devices,
             Trust!Request(c, op, w, d)
      PROVE  Trust!TypeOK'
  <2>1. [step |-> Trust!FirstStep(op), op |-> op, device |-> d, workspace |-> w, at |-> 0]
          \in Trust!CallStates
    BY DEF Trust!CallStates, Trust!FirstStep
  <2> QED
    BY <1>2, <2>1 DEF Trust!TypeOK, Trust!Request
<1>3. ASSUME NEW c \in ApiCalls, Trust!Begin(c)
      PROVE  Trust!TypeOK'
  <2>1. clock + 1 \in Nat
    BY <1>3 DEF Trust!TypeOK, Trust!Begin
  <2>2. call[c] \in Trust!CallStates
    BY <1>3, CallTypes DEF Trust!Begin
  <2>3. [call[c] EXCEPT !.step = "commit", !.at = clock + 1] \in Trust!CallStates
    BY <2>1, <2>2 DEF Trust!CallStates
  <2>4. call' = [call EXCEPT ![c] = [call[c] EXCEPT !.step = "commit", !.at = clock + 1]]
    BY <1>3, <2>2 DEF Trust!Begin, Trust!TypeOK, Trust!CallStates
  <2>5. call' \in [ApiCalls -> Trust!CallStates \cup {Trust!NoCall}]
    BY <2>3, <2>4 DEF Trust!TypeOK
  <2> QED
    BY <1>3, <2>1, <2>5 DEF Trust!TypeOK, Trust!Begin
<1>4. ASSUME NEW c \in ApiCalls,
             Trust!RegisterUnknown(c) \/ Trust!ReapproveCheck(c) \/ Trust!ReapproveLatest(c)
      PROVE  Trust!TypeOK'
  <2>1. call[c] \in Trust!CallStates
    BY <1>4, CallTypes DEF Trust!RegisterUnknown, Trust!ReapproveCheck, Trust!ReapproveLatest
  <2>2. call' \in [ApiCalls -> Trust!CallStates \cup {Trust!NoCall}]
    BY <1>4, <2>1, MovesKeepsTypes, ReturnsKeepsTypes
    DEF Trust!RegisterUnknown, Trust!ReapproveCheck, Trust!ReapproveLatest
  <2> QED
    BY <1>4, <2>2
    DEF Trust!TypeOK, Trust!RegisterUnknown, Trust!ReapproveCheck, Trust!ReapproveLatest
<1>5. ASSUME NEW c \in ApiCalls, NEW push \in BOOLEAN, Trust!RegisterKnown(c, push)
             \/ Trust!RegisterCommit(c, push)
      PROVE  Trust!TypeOK'
  <2>1. Trust!Device(c) \in Devices /\ call' \in [ApiCalls -> Trust!CallStates \cup {Trust!NoCall}]
    BY <1>5, CallTypes, ReturnsKeepsTypes DEF Trust!RegisterKnown, Trust!RegisterCommit
  <2> QED
    BY <1>5, <2>1 DEF Trust!TypeOK, Trust!RegisterKnown, Trust!RegisterCommit, Trust!RegisteredAgain
<1>6. ASSUME NEW c \in ApiCalls, Trust!RevokeCommit(c)
      PROVE  Trust!TypeOK'
  <2>1. /\ Trust!Device(c) \in Devices /\ Trust!Workspace(c) \in Workspaces /\ call[c].at \in Nat
        /\ call' \in [ApiCalls -> Trust!CallStates \cup {Trust!NoCall}]
    BY <1>6, CallTypes, ReturnsKeepsTypes DEF Trust!RevokeCommit
  <2>2. "stale-flagged" \in Trust!Events /\ "revoked-explicit" \in Trust!Events
        /\ "stale" \in Trust!Reasons /\ "explicit" \in Trust!Reasons
    BY DEF Trust!Events, Trust!Reasons
  <2> QED
    <3>1. ASSUME NEW reason \in Trust!Reasons, NEW type \in Trust!Events,
                 Trust!Revokes(Trust!Workspace(c), Trust!Device(c), reason, type, call[c].at)
          PROVE  /\ retired' = retired
                 /\ revocation' \in [Workspaces -> [Devices -> Trust!Reasons \cup {Trust!NotRevoked}]]
                 /\ latest' \in [Workspaces -> [Devices -> [type : Trust!Events, at : Nat]]]
      <4>1. revocation' = Trust!RevokedAlso(Trust!Workspace(c), {Trust!Device(c)}, reason)
        BY <3>1 DEF Trust!Revokes
      <4>2. latest' = Trust!Logged(Trust!Workspace(c), {Trust!Device(c)}, type, call[c].at)
              \/ latest' = latest
        BY <3>1 DEF Trust!Revokes
      <4> QED
        <5>1. Trust!Logged(Trust!Workspace(c), {Trust!Device(c)}, type, call[c].at)
                \in [Workspaces -> [Devices -> [type : Trust!Events, at : Nat]]]
          BY <2>1, LoggedIsTyped
        <5>2. Trust!RevokedAlso(Trust!Workspace(c), {Trust!Device(c)}, reason)
                \in [Workspaces -> [Devices -> Trust!Reasons \cup {Trust!NotRevoked}]]
          BY <2>1, RevokedAlsoIsTyped
        <5>3. retired' = retired
          BY <3>1 DEF Trust!Revokes
        <5> QED
          BY <4>1, <4>2, <5>1, <5>2, <5>3 DEF Trust!TypeOK
    <3>2. /\ retired' = retired
          /\ revocation' \in [Workspaces -> [Devices -> Trust!Reasons \cup {Trust!NotRevoked}]]
          /\ latest' \in [Workspaces -> [Devices -> [type : Trust!Events, at : Nat]]]
      <4>1. \/ Trust!Revokes(Trust!Workspace(c), Trust!Device(c), "stale", "stale-flagged",
                 call[c].at)
            \/ Trust!Revokes(Trust!Workspace(c), Trust!Device(c), "explicit",
                 "revoked-explicit", call[c].at)
            \/ UNCHANGED <<retired, revocation, latest>>
        BY <1>6 DEF Trust!RevokeCommit
      <4> QED
        BY <2>2, <3>1, <4>1 DEF Trust!TypeOK
    <3>3. judged' \subseteq Workspaces \X Devices
      BY <1>6, <2>1 DEF Trust!TypeOK, Trust!RevokeCommit
    <3> QED
      BY <1>6, <2>1, <3>2, <3>3 DEF Trust!TypeOK, Trust!RevokeCommit
<1>7. ASSUME NEW c \in ApiCalls, Trust!ReapproveCommit(c)
      PROVE  Trust!TypeOK'
  <2>1. /\ Trust!Device(c) \in Devices /\ Trust!Workspace(c) \in Workspaces /\ call[c].at \in Nat
        /\ call' \in [ApiCalls -> Trust!CallStates \cup {Trust!NoCall}]
    BY <1>7, CallTypes, ReturnsKeepsTypes DEF Trust!ReapproveCommit
  <2>2. "re-approved" \in Trust!Events
    BY DEF Trust!Events
  <2> QED
    <3>1. latest' \in [Workspaces -> [Devices -> [type : Trust!Events, at : Nat]]]
      <4>1. latest' = Trust!Logged(Trust!Workspace(c), {Trust!Device(c)}, "re-approved",
              call[c].at) \/ latest' = latest
        BY <1>7 DEF Trust!ReapproveCommit
      <4> QED
        <5>1. Trust!Logged(Trust!Workspace(c), {Trust!Device(c)}, "re-approved", call[c].at)
                \in [Workspaces -> [Devices -> [type : Trust!Events, at : Nat]]]
          BY <2>1, <2>2, LoggedIsTyped
        <5> QED
          BY <4>1, <5>1 DEF Trust!TypeOK
    <3>2. revocation' \in [Workspaces -> [Devices -> Trust!Reasons \cup {Trust!NotRevoked}]]
      <4>1. [revocation[Trust!Workspace(c)] EXCEPT ![Trust!Device(c)] = Trust!NotRevoked]
              \in [Devices -> Trust!Reasons \cup {Trust!NotRevoked}]
        BY <2>1 DEF Trust!TypeOK
      <4>2. \/ revocation' = revocation
            \/ revocation' = [revocation EXCEPT ![Trust!Workspace(c)] =
                               [revocation[Trust!Workspace(c)] EXCEPT ![Trust!Device(c)]
                                 = Trust!NotRevoked]]
        BY <1>7, <2>1 DEF Trust!ReapproveCommit, Trust!TypeOK
      <4> QED
        BY <2>1, <4>1, <4>2 DEF Trust!TypeOK
    <3> QED
      BY <1>7, <2>1, <3>1, <3>2 DEF Trust!TypeOK, Trust!ReapproveCommit
<1>8. ASSUME NEW c \in ApiCalls, Trust!RemoveCommit(c)
      PROVE  Trust!TypeOK'
  <2>1. /\ Trust!Workspace(c) \in Workspaces /\ call[c].at \in Nat
        /\ call' \in [ApiCalls -> Trust!CallStates \cup {Trust!NoCall}]
    BY <1>8, CallTypes, ReturnsKeepsTypes DEF Trust!RemoveCommit
  <2>2. "revoked-membership" \in Trust!Events /\ "membership-revoked" \in Trust!Reasons
    BY DEF Trust!Events, Trust!Reasons
  <2> QED
    BY <1>8, <2>1, <2>2, LoggedIsTyped, RevokedAlsoIsTyped DEF Trust!TypeOK, Trust!RemoveCommit
<1>9. ASSUME NEW c \in ApiCalls, Trust!SuspendCommit(c)
      PROVE  Trust!TypeOK'
  <2>1. call' \in [ApiCalls -> Trust!CallStates \cup {Trust!NoCall}]
          /\ "user-suspended" \in Trust!Reasons
    BY <1>9, CallTypes, ReturnsKeepsTypes DEF Trust!SuspendCommit, Trust!Reasons
  <2>2. revocation' \in [Workspaces -> [Devices -> Trust!Reasons \cup {Trust!NotRevoked}]]
    BY <1>9, <2>1, RevokedAlsoIsTyped DEF Trust!TypeOK, Trust!SuspendCommit
  <2> QED
    BY <1>9, <2>1, <2>2 DEF Trust!TypeOK, Trust!SuspendCommit
<1>10. ASSUME NEW d \in Devices, Trust!Retire(d)
       PROVE  Trust!TypeOK'
  BY <1>10 DEF Trust!TypeOK, Trust!Retire
<1> QED
  BY <1>1, <1>2, <1>3, <1>4, <1>5, <1>6, <1>7, <1>8, <1>9, <1>10 DEF Trust!Next

\* Type correctness.
THEOREM TrustTypeCorrect == Trust!Spec => []Trust!TypeOK
<1>1. Trust!Init => Trust!TypeOK
  <2> SUFFICES ASSUME Trust!Init PROVE Trust!TypeOK
    OBVIOUS
  <2>1. "none" \in Trust!Events /\ 0 \in Nat
    BY DEF Trust!Events
  <2>2. latest \in [Workspaces -> [Devices -> [type : Trust!Events, at : Nat]]]
    BY <2>1 DEF Trust!Init
  <2>3. revocation \in [Workspaces -> [Devices -> Trust!Reasons \cup {Trust!NotRevoked}]]
    BY DEF Trust!Init
  <2> QED
    BY <2>1, <2>2, <2>3 DEF Trust!Init, Trust!TypeOK
<1> QED
  BY <1>1, TrustTypeStep, PTL DEF Trust!Spec

-----------------------------------------------------------------------------
StaysRetired == \A d \in retired : \A w \in Workspaces : ~Trust!Accepted(w, d)'

LEMMA RetiredStep == [Trust!Next]_Trust!vars => StaysRetired
<1> SUFFICES ASSUME [Trust!Next]_Trust!vars PROVE retired \subseteq retired'
  BY DEF StaysRetired, Trust!Accepted
<1> QED
  BY DEF Trust!Next, Trust!vars, Trust!Request, Trust!Begin, Trust!RegisterUnknown,
         Trust!RegisterKnown, Trust!RegisteredAgain, Trust!RegisterCommit,
         Trust!RevokeCommit, Trust!Revokes, Trust!ReapproveCheck, Trust!ReapproveLatest,
         Trust!ReapproveCommit, Trust!RemoveCommit, Trust!SuspendCommit, Trust!Retire

\* A device its person retired is never accepted again, in any workspace,
\* whatever is registered, re-approved or in progress (retireOwnDevice).
THEOREM RetirementIsFinal == Trust!Spec => Trust!RetiredForGood
  BY RetiredStep, PTL DEF Trust!Spec, Trust!RetiredForGood, StaysRetired

-----------------------------------------------------------------------------
DecidesHere(c) ==
  call[c] # call'[c] /\ Trust!At(c, "commit") /\ Trust!Op(c) \in {"revoke", "flag",
    "reapprove", "remove"}

NothingElsewhere ==
  \A c \in ApiCalls : DecidesHere(c) =>
    \A w \in Workspaces \ {Trust!Workspace(c)}, d \in Devices :
      Trust!Accepted(w, d)' = Trust!Accepted(w, d)

\* Only the call itself changes where it is.
LEMMA OwnStep ==
  ASSUME Trust!TypeOK, [Trust!Next]_Trust!vars, NEW c \in ApiCalls, DecidesHere(c)
  PROVE  Trust!RevokeCommit(c) \/ Trust!ReapproveCommit(c) \/ Trust!RemoveCommit(c)
<1>1. call[c] \in Trust!CallStates /\ call[c] # Trust!NoCall
  BY CallTypes DEF DecidesHere, Trust!CallStates, Trust!NoCall
<1>2. ASSUME NEW b \in ApiCalls, b # c
      PROVE  /\ \A step : Trust!Moves(b, step) => call'[c] = call[c]
             /\ Trust!Returns(b) => call'[c] = call[c]
             /\ Trust!Begin(b) => call'[c] = call[c]
             /\ \A op, w, d : Trust!Request(b, op, w, d) => call'[c] = call[c]
  BY <1>2 DEF Trust!TypeOK, Trust!Moves, Trust!Returns, Trust!Begin, Trust!Request
<1>3. ASSUME NEW b \in ApiCalls,
             \/ \E op \in Trust!Operations, w \in Workspaces, d \in Devices :
                  Trust!Request(b, op, w, d)
             \/ Trust!Begin(b) \/ Trust!RegisterUnknown(b) \/ Trust!ReapproveCheck(b)
                  \/ Trust!ReapproveLatest(b)
             \/ \E push \in BOOLEAN : Trust!RegisterKnown(b, push) \/ Trust!RegisterCommit(b, push)
             \/ Trust!SuspendCommit(b)
      PROVE  FALSE
  <2>1. CASE b = c
    BY <1>1, <1>3, <2>1
    DEF DecidesHere, Trust!At, Trust!Request, Trust!Begin, Trust!RegisterUnknown,
        Trust!RegisterKnown, Trust!RegisterCommit, Trust!ReapproveCheck,
        Trust!ReapproveLatest, Trust!SuspendCommit
  <2>2. CASE b # c
    <3>1. call'[c] = call[c]
      BY <1>2, <1>3, <2>2
      DEF Trust!RegisterUnknown, Trust!RegisterKnown, Trust!RegisterCommit,
          Trust!ReapproveCheck, Trust!ReapproveLatest, Trust!SuspendCommit
    <3> QED
      BY <3>1 DEF DecidesHere
  <2> QED
    BY <2>1, <2>2
<1>4. ASSUME NEW b \in ApiCalls, Trust!RevokeCommit(b) \/ Trust!ReapproveCommit(b)
             \/ Trust!RemoveCommit(b)
      PROVE  b = c
  <2>1. Trust!Returns(b)
    BY <1>4 DEF Trust!RevokeCommit, Trust!ReapproveCommit, Trust!RemoveCommit
  <2> QED
    BY <1>2, <2>1 DEF DecidesHere
<1>5. call' # call
  BY DEF DecidesHere
<1> QED
  BY <1>3, <1>4, <1>5 DEF Trust!Next, Trust!vars, Trust!Retire

LEMMA ScopeStep == Trust!TypeOK /\ [Trust!Next]_Trust!vars => NothingElsewhere
<1> SUFFICES ASSUME Trust!TypeOK, [Trust!Next]_Trust!vars, NEW c \in ApiCalls, DecidesHere(c),
                    NEW w \in Workspaces \ {Trust!Workspace(c)}, NEW d \in Devices
             PROVE  Trust!Accepted(w, d)' = Trust!Accepted(w, d)
  BY DEF NothingElsewhere
<1>1. Trust!RevokeCommit(c) \/ Trust!ReapproveCommit(c) \/ Trust!RemoveCommit(c)
  BY OwnStep
<1>2. revocation'[w] = revocation[w] /\ UNCHANGED <<registered, retired, suspended>>
  <2>1. \A devices, reason : Trust!RevokedAlso(Trust!Workspace(c), devices, reason)[w]
          = revocation[w]
    BY DEF Trust!TypeOK, Trust!RevokedAlso
  <2>2. CASE Trust!RevokeCommit(c)
    BY <2>1, <2>2 DEF Trust!RevokeCommit, Trust!Revokes
  <2>3. CASE Trust!ReapproveCommit(c)
    BY <2>3 DEF Trust!ReapproveCommit, Trust!TypeOK
  <2>4. CASE Trust!RemoveCommit(c)
    BY <2>1, <2>4 DEF Trust!RemoveCommit
  <2> QED
    BY <1>1, <2>2, <2>3, <2>4
<1>3. w \in member' <=> w \in member
  BY <1>1 DEF Trust!RevokeCommit, Trust!ReapproveCommit, Trust!RemoveCommit
<1> QED
  BY <1>2, <1>3 DEF Trust!Accepted

\* F191: a revocation, a re-approval or a removal in one workspace changes the
\* acceptance of no device in another.
THEOREM DecisionsAreScoped == Trust!Spec => Trust!ScopedToItsWorkspace
  BY TrustTypeCorrect, ScopeStep, PTL
  DEF Trust!Spec, Trust!ScopedToItsWorkspace, NothingElsewhere, DecidesHere

-----------------------------------------------------------------------------
(* ApiCalls that do not overlap *)

InProgress(c) == call[c].step # "idle"
OneCall == \A b, c \in ApiCalls : InProgress(b) /\ InProgress(c) => b = c

\* The newest entry of the log says stale only while the revocation is that one.
LogTells ==
  \A w \in Workspaces, d \in Devices :
    latest[w][d].type = "stale-flagged" => revocation[w][d] = "stale"

\* A commit's entry is newer than every entry before it.
LogIsPast ==
  /\ \A w \in Workspaces, d \in Devices : latest[w][d].at <= clock
  /\ \A c \in ApiCalls : Trust!At(c, "commit") =>
       /\ call[c].at <= clock
       /\ \A w \in Workspaces, d \in Devices : latest[w][d].at < call[c].at

\* What a re-approval read in the log is still so when it deletes the revocation.
Looked ==
  \A c \in ApiCalls : call[c].step \in {"begin", "commit"} /\ Trust!Op(c) = "reapprove" =>
    latest[Trust!Workspace(c)][Trust!Device(c)].type = "stale-flagged"

Sequential == OneCall /\ LogTells /\ LogIsPast /\ Looked

TrustIInv == Trust!TypeOK /\ (~overlapped => Sequential)

\* An entry about some devices of a workspace, read device by device.
LEMMA LoggedAt ==
  ASSUME Trust!TypeOK, NEW w \in Workspaces, NEW devices, NEW type, NEW at \in Nat,
         NEW v \in Workspaces, NEW d \in Devices
  PROVE  Trust!Logged(w, devices, type, at)[v][d] =
           IF v = w /\ d \in devices /\ at > latest[v][d].at THEN [type |-> type, at |-> at]
           ELSE latest[v][d]
  BY DEF Trust!TypeOK, Trust!Logged

LEMMA RevokedAlsoAt ==
  ASSUME Trust!TypeOK, NEW w \in Workspaces, NEW devices, NEW reason,
         NEW v \in Workspaces, NEW d \in Devices
  PROVE  Trust!RevokedAlso(w, devices, reason)[v][d] =
           IF v = w /\ d \in devices /\ revocation[v][d] = Trust!NotRevoked THEN reason
           ELSE revocation[v][d]
  BY DEF Trust!TypeOK, Trust!RevokedAlso

\* A call that moves on is about the same operation on the same device.
LEMMA MovesCall ==
  ASSUME Trust!TypeOK, NEW c \in ApiCalls, NEW step \in {"check", "latest", "begin", "commit"},
         call[c] \in Trust!CallStates, Trust!Moves(c, step)
  PROVE  /\ call'[c].step = step /\ call'[c].op = call[c].op
         /\ call'[c].device = call[c].device /\ call'[c].workspace = call[c].workspace
         /\ \A b \in ApiCalls : b # c => call'[b] = call[b]
<1>1. call' = [call EXCEPT ![c] = [call[c] EXCEPT !.step = step]]
  BY DEF Trust!Moves, Trust!CallStates, Trust!TypeOK
<1>2. call'[c] = [call[c] EXCEPT !.step = step] /\ \A b \in ApiCalls : b # c => call'[b] = call[b]
  BY <1>1 DEF Trust!TypeOK
<1> QED
  BY <1>2 DEF Trust!CallStates

LEMMA ReturnsCall ==
  ASSUME Trust!TypeOK, NEW c \in ApiCalls, Trust!Returns(c)
  PROVE  call'[c].step = "idle" /\ \A b \in ApiCalls : b # c => call'[b] = call[b]
  BY DEF Trust!TypeOK, Trust!Returns, Trust!NoCall

\* A step before the commit, alone: the log and the revocations are as they were.
LEMMA MovesSequential ==
  ASSUME Trust!TypeOK, Sequential, NEW c \in ApiCalls, InProgress(c),
         UNCHANGED <<revocation, latest, clock>>,
         \A b \in ApiCalls : b # c => call'[b] = call[b],
         \/ call'[c].step = "idle"
         \/ /\ call'[c].step \in {"latest", "begin"}
            /\ call'[c].op = call[c].op /\ call'[c].device = call[c].device
            /\ call'[c].workspace = call[c].workspace
            /\ call'[c].step = "begin" /\ Trust!Op(c) = "reapprove"
                 => latest[Trust!Workspace(c)][Trust!Device(c)].type = "stale-flagged"
  PROVE  Sequential'
<1>1. \A b \in ApiCalls : b # c => ~InProgress(b) /\ ~InProgress(b)'
  BY DEF Sequential, OneCall, InProgress
<1>2. OneCall'
  BY <1>1 DEF OneCall
<1>3. LogTells'
  BY DEF Sequential, LogTells
<1>4. LogIsPast'
  BY <1>1 DEF Sequential, LogIsPast, Trust!At, InProgress
<1>5. Looked'
  BY <1>1 DEF Looked, Trust!Op, Trust!Workspace, Trust!Device, InProgress
<1> QED
  BY <1>2, <1>3, <1>4, <1>5 DEF Sequential

\* A commit, alone: afterwards nothing is in progress.
LEMMA CommitSequential ==
  ASSUME Trust!TypeOK, Sequential, NEW c \in ApiCalls, InProgress(c), clock'
         = clock, Trust!Returns(c),
         LogTells', \A w \in Workspaces, d \in Devices : latest'[w][d].at <= clock
  PROVE  Sequential'
<1>1. \A b \in ApiCalls : ~InProgress(b)'
  BY ReturnsCall DEF Sequential, OneCall, InProgress
<1>2. OneCall' /\ LogIsPast' /\ Looked'
  BY <1>1 DEF OneCall, LogIsPast, Looked, InProgress, Trust!At
<1> QED
  BY <1>2 DEF Sequential

\* The first call of a quiet moment.
LEMMA RequestSequential ==
  ASSUME Trust!TypeOK, Sequential, NEW c \in ApiCalls, NEW op \in Trust!Operations, NEW w
         \in Workspaces,
         NEW d \in Devices, Trust!Request(c, op, w, d), ~overlapped'
  PROVE  Sequential'
<1> DEFINE new == [step |-> Trust!FirstStep(op), op |-> op, device |-> d, workspace |-> w, at |-> 0]
<1>1. new.step = Trust!FirstStep(op) /\ new.op = op
  OBVIOUS
<1>2. Trust!FirstStep(op) \in {"check", "begin"} /\ (Trust!FirstStep(op)
        = "begin" => op # "reapprove")
  BY DEF Trust!FirstStep
<1>3. call' = [call EXCEPT ![c] = new] /\ \A b \in ApiCalls : call[b] = Trust!NoCall
  BY DEF Trust!Request
<1> HIDE DEF new
<1>4. call'[c] = new /\ \A b \in ApiCalls : b # c => ~InProgress(b)'
  BY <1>3 DEF Trust!TypeOK, InProgress, Trust!NoCall
<1>5. UNCHANGED <<revocation, latest, clock>>
  BY DEF Trust!Request
<1>6. OneCall' /\ LogTells'
  BY <1>4, <1>5 DEF Sequential, OneCall, LogTells
<1>7. LogIsPast'
  BY <1>1, <1>2, <1>4, <1>5 DEF Sequential, LogIsPast, Trust!At, InProgress
<1>8. Looked'
  BY <1>1, <1>2, <1>4 DEF Looked, Trust!Op, InProgress
<1> QED
  BY <1>6, <1>7, <1>8 DEF Sequential

\* A transaction's time is later than all that is in the log.
LEMMA BeginSequential ==
  ASSUME Trust!TypeOK, Sequential, NEW c \in ApiCalls, Trust!Begin(c)
  PROVE  Sequential'
<1>1. call[c] \in Trust!CallStates
  BY CallTypes DEF Trust!Begin
<1> DEFINE new == [call[c] EXCEPT !.step = "commit", !.at = clock + 1]
<1>2. call' = [call EXCEPT ![c] = new]
  BY <1>1 DEF Trust!Begin, Trust!TypeOK, Trust!CallStates
<1>3. /\ new.step = "commit" /\ new.at = clock + 1 /\ new.op = call[c].op
      /\ new.device = call[c].device /\ new.workspace = call[c].workspace
  BY <1>1 DEF Trust!CallStates
<1> HIDE DEF new
<1>4. call'[c] = new /\ \A b \in ApiCalls : b # c => call'[b] = call[b]
  BY <1>2 DEF Trust!TypeOK
<1>5. \A b \in ApiCalls : b # c => ~InProgress(b)'
  BY <1>4 DEF Sequential, OneCall, InProgress, Trust!Begin, Trust!At
<1>6. UNCHANGED <<revocation, latest>> /\ clock' = clock + 1 /\ clock \in Nat
  BY DEF Trust!Begin, Trust!TypeOK
<1>7. OneCall' /\ LogTells'
  BY <1>5, <1>6 DEF Sequential, OneCall, LogTells
<1>8. LogIsPast'
  <2>1. \A w \in Workspaces, d \in Devices :
          latest[w][d].at \in Nat /\ latest[w][d].at <= clock
    BY DEF Sequential, LogIsPast, Trust!TypeOK
  <2>2. \A b \in ApiCalls : Trust!At(b, "commit")' => b = c
    BY <1>5 DEF Trust!At, InProgress
  <2> QED
    BY <1>3, <1>4, <1>6, <2>1, <2>2 DEF LogIsPast
<1>9. Looked'
  <2>1. \A b \in ApiCalls : call'[b].step \in {"begin", "commit"} => b = c
    BY <1>5 DEF InProgress
  <2> QED
    <3>1. Trust!Op(c)' = Trust!Op(c) /\ Trust!Workspace(c)' = Trust!Workspace(c)
            /\ Trust!Device(c)' = Trust!Device(c)
      BY <1>3, <1>4 DEF Trust!Op, Trust!Workspace, Trust!Device
    <3>2. Trust!Op(c) = "reapprove" => latest[Trust!Workspace(c)][Trust!Device(c)].type
            = "stale-flagged"
      BY DEF Sequential, Looked, Trust!Begin, Trust!At
    <3>3. latest' = latest
      BY <1>6
    <3> QED
      BY <2>1, <3>1, <3>2, <3>3 DEF Looked
<1> QED
  BY <1>7, <1>8, <1>9 DEF Sequential

\* What an entry of a commit, alone, makes of the log.
LEMMA CommitLogs ==
  ASSUME Trust!TypeOK, Sequential, NEW c \in ApiCalls, Trust!At(c, "commit")
  PROVE  /\ call[c].at \in Nat /\ call[c].at <= clock
         /\ Trust!Workspace(c) \in Workspaces /\ Trust!Device(c) \in Devices /\ InProgress(c)
         /\ \A w \in Workspaces, d \in Devices :
              /\ latest[w][d].at <= clock
              /\ call[c].at > latest[w][d].at
<1>1. call[c].at \in Nat /\ Trust!Workspace(c) \in Workspaces /\ Trust!Device(c) \in Devices
  BY CallTypes
<1>2. \A w \in Workspaces, d \in Devices : latest[w][d].at \in Nat
  BY DEF Trust!TypeOK
<1> QED
  BY <1>1, <1>2 DEF Sequential, LogIsPast, Trust!At, InProgress

\* A revocation enters the log with its reason, in one transaction.
LEMMA RevokeSequential ==
  ASSUME Trust!TypeOK, Sequential, NEW c \in ApiCalls, Trust!RevokeCommit(c)
  PROVE  Sequential'
<1> DEFINE w == Trust!Workspace(c)
           d == Trust!Device(c)
           at == call[c].at
<1>1. /\ at \in Nat /\ at <= clock /\ w \in Workspaces /\ d \in Devices /\ InProgress(c)
      /\ \A v \in Workspaces, e \in Devices : latest[v][e].at <= clock /\ at > latest[v][e].at
  BY CommitLogs DEF Trust!RevokeCommit
<1>2. ASSUME NEW reason, NEW type, Trust!Revokes(w, d, reason, type, at),
             type = "stale-flagged" => reason = "stale"
      PROVE  /\ LogTells'
             /\ \A v \in Workspaces, e \in Devices : latest'[v][e].at <= clock
  <2> HIDE DEF w, d, at
  <2>1. \A v \in Workspaces, e \in Devices :
          revocation'[v][e] = IF v = w /\ e = d /\ revocation[v][e] = Trust!NotRevoked THEN reason
                              ELSE revocation[v][e]
    BY <1>1, <1>2, RevokedAlsoAt DEF Trust!Revokes
  <2>2. \A v \in Workspaces, e \in Devices :
          latest'[v][e] = IF v = w /\ e = d /\ revocation[v][e] = Trust!NotRevoked
                            THEN [type |-> type, at |-> at] ELSE latest[v][e]
    BY <1>1, <1>2, LoggedAt DEF Trust!Revokes
  <2>3. LogTells'
    BY <1>2, <2>1, <2>2 DEF Sequential, LogTells
  <2>4. \A v \in Workspaces, e \in Devices : latest'[v][e].at <= clock
    BY <1>1, <2>2
  <2> QED
    BY <2>3, <2>4
<1>3. CASE UNCHANGED <<retired, revocation, latest>>
  BY <1>1, <1>3, CommitSequential DEF Sequential, LogTells, Trust!RevokeCommit
<1>4. \/ Trust!Revokes(w, d, "stale", "stale-flagged", at)
      \/ Trust!Revokes(w, d, "explicit", "revoked-explicit", at)
      \/ UNCHANGED <<retired, revocation, latest>>
  BY DEF Trust!RevokeCommit
<1>5. Trust!Returns(c) /\ clock' = clock
  BY DEF Trust!RevokeCommit
<1> HIDE DEF w, d, at
<1>6. CASE Trust!Revokes(w, d, "stale", "stale-flagged", at)
  BY <1>1, <1>2, <1>5, <1>6, CommitSequential
<1>7. CASE Trust!Revokes(w, d, "explicit", "revoked-explicit", at)
  BY <1>1, <1>2, <1>5, <1>7, CommitSequential
<1> QED
  BY <1>3, <1>4, <1>6, <1>7

\* A re-approval leaves an entry that is not a revocation.
LEMMA ReapproveSequential ==
  ASSUME Trust!TypeOK, Sequential, NEW c \in ApiCalls, Trust!ReapproveCommit(c)
  PROVE  Sequential'
<1> DEFINE w == Trust!Workspace(c)
           d == Trust!Device(c)
           at == call[c].at
<1>1. /\ at \in Nat /\ at <= clock /\ w \in Workspaces /\ d \in Devices /\ InProgress(c)
      /\ \A v \in Workspaces, e \in Devices : latest[v][e].at <= clock /\ at > latest[v][e].at
  BY CommitLogs DEF Trust!ReapproveCommit
<1>2. Trust!Returns(c) /\ clock' = clock
  BY DEF Trust!ReapproveCommit
<1>3. CASE UNCHANGED <<revocation, latest>>
  BY <1>1, <1>2, <1>3, CommitSequential DEF Sequential, LogTells
<1>4. CASE /\ revocation' = [revocation EXCEPT ![w] = [revocation[w] EXCEPT ![d]
                = Trust!NotRevoked]]
           /\ latest' = Trust!Logged(w, {d}, "re-approved", at)
  <2> HIDE DEF w, d, at
  <2>1. \A v \in Workspaces, e \in Devices : v # w \/ e # d => revocation'[v][e] = revocation[v][e]
    BY <1>1, <1>4 DEF Trust!TypeOK
  <2>2. \A v \in Workspaces, e \in Devices :
          latest'[v][e] = IF v = w /\ e = d THEN [type |-> "re-approved", at |-> at]
                          ELSE latest[v][e]
    BY <1>1, <1>4, LoggedAt
  <2>3. LogTells'
    BY <2>1, <2>2 DEF Sequential, LogTells
  <2>4. \A v \in Workspaces, e \in Devices : latest'[v][e].at <= clock
    BY <1>1, <2>2
  <2> QED
    BY <1>1, <1>2, <2>3, <2>4, CommitSequential
<1> QED
  BY <1>3, <1>4 DEF Trust!ReapproveCommit

\* A removal and a suspension revoke what is not revoked, and keep why the rest is.
LEMMA RemoveSequential ==
  ASSUME Trust!TypeOK, Sequential, NEW c \in ApiCalls, Trust!RemoveCommit(c)
  PROVE  Sequential'
<1> DEFINE w == Trust!Workspace(c)
           at == call[c].at
<1>1. /\ at \in Nat /\ at <= clock /\ w \in Workspaces /\ InProgress(c)
      /\ \A v \in Workspaces, e \in Devices : latest[v][e].at <= clock /\ at > latest[v][e].at
  BY CommitLogs DEF Trust!RemoveCommit
<1>2. /\ Trust!Returns(c) /\ clock' = clock
      /\ revocation' = Trust!RevokedAlso(w, registered, "membership-revoked")
      /\ latest' = Trust!Logged(w, registered, "revoked-membership", at)
  BY DEF Trust!RemoveCommit
<1> HIDE DEF w, at
<1>3. \A v \in Workspaces, e \in Devices :
        /\ revocation[v][e] = "stale" => revocation'[v][e] = "stale"
        /\ \/ latest'[v][e] = latest[v][e]
           \/ latest'[v][e] = [type |-> "revoked-membership", at |-> at]
  <2> SUFFICES ASSUME NEW v \in Workspaces, NEW e \in Devices
               PROVE  /\ revocation[v][e] = "stale" => revocation'[v][e] = "stale"
                      /\ \/ latest'[v][e] = latest[v][e]
                         \/ latest'[v][e] = [type |-> "revoked-membership", at |-> at]
    OBVIOUS
  <2>1. revocation'[v][e] = IF v = w /\ e \in registered /\ revocation[v][e] = Trust!NotRevoked
                              THEN "membership-revoked" ELSE revocation[v][e]
    BY <1>1, <1>2, RevokedAlsoAt
  <2>2. latest'[v][e] = IF v = w /\ e \in registered /\ at > latest[v][e].at
                          THEN [type |-> "revoked-membership", at |-> at] ELSE latest[v][e]
    BY <1>1, <1>2, LoggedAt
  <2> QED
    BY <2>1, <2>2 DEF Trust!NotRevoked
<1>4. LogTells'
  BY <1>3 DEF Sequential, LogTells
<1>5. \A v \in Workspaces, e \in Devices : latest'[v][e].at <= clock
  BY <1>1, <1>3
<1> QED
  BY <1>1, <1>2, <1>4, <1>5, CommitSequential

LEMMA SuspendSequential ==
  ASSUME Trust!TypeOK, Sequential, NEW c \in ApiCalls, Trust!SuspendCommit(c)
  PROVE  Sequential'
<1>1. /\ Trust!Returns(c) /\ clock' = clock /\ latest' = latest /\ InProgress(c)
      /\ \A v \in Workspaces, e \in Devices : latest[v][e].at <= clock
  BY CommitLogs DEF Trust!SuspendCommit
<1>2. \A v \in Workspaces, e \in Devices :
        revocation[v][e] = "stale" => revocation'[v][e] = "stale"
  <2> SUFFICES ASSUME NEW v \in Workspaces, NEW e \in Devices, revocation[v][e] = "stale"
               PROVE  revocation'[v][e] = "stale"
    OBVIOUS
  <2>1. Trust!RevokedAlso(v, registered, "user-suspended")[v][e] = "stale"
    <3>1. Trust!RevokedAlso(v, registered, "user-suspended")[v][e] =
            IF e \in registered /\ revocation[v][e] = Trust!NotRevoked THEN "user-suspended"
            ELSE revocation[v][e]
      BY RevokedAlsoAt
    <3> QED
      BY <3>1 DEF Trust!NotRevoked
  <2>2. \/ revocation' = revocation
        \/ revocation' = [w \in Workspaces |-> Trust!RevokedAlso(w, registered,
             "user-suspended")[w]]
    BY DEF Trust!SuspendCommit
  <2> QED
    BY <2>1, <2>2
<1>3. LogTells'
  BY <1>1, <1>2 DEF Sequential, LogTells
<1> QED
  BY <1>1, <1>3, CommitSequential

\* The steps that look before a transaction, and those that touch no revocation.
LEMMA ChecksSequential ==
  ASSUME Trust!TypeOK, Sequential, NEW c \in ApiCalls,
         Trust!RegisterUnknown(c) \/ Trust!ReapproveCheck(c) \/ Trust!ReapproveLatest(c)
  PROVE  Sequential'
<1>1. call[c] \in Trust!CallStates /\ InProgress(c)
  BY CallTypes
  DEF Trust!RegisterUnknown, Trust!ReapproveCheck, Trust!ReapproveLatest, Trust!At,
      InProgress
<1>2. UNCHANGED <<revocation, latest, clock>>
  BY DEF Trust!RegisterUnknown, Trust!ReapproveCheck, Trust!ReapproveLatest
<1>3. CASE Trust!Returns(c)
  BY <1>1, <1>2, <1>3, ReturnsCall, MovesSequential
<1>4. CASE Trust!RegisterUnknown(c)
  <2>1. Trust!Moves(c, "begin") /\ Trust!Op(c) # "reapprove"
    BY <1>4 DEF Trust!RegisterUnknown
  <2> QED
    BY <1>1, <1>2, <2>1, MovesCall, MovesSequential
<1>5. CASE Trust!Moves(c, "latest")
  BY <1>1, <1>2, <1>5, MovesCall, MovesSequential
<1>6. CASE Trust!Moves(c, "begin") /\ Trust!Reapprovable(Trust!Workspace(c), Trust!Device(c))
  BY <1>1, <1>2, <1>6, MovesCall, MovesSequential DEF Trust!Reapprovable
<1> QED
  BY <1>3, <1>4, <1>5, <1>6 DEF Trust!ReapproveCheck, Trust!ReapproveLatest

LEMMA RegisterSequential ==
  ASSUME Trust!TypeOK, Sequential, NEW c \in ApiCalls, NEW push \in BOOLEAN,
         Trust!RegisterKnown(c, push) \/ Trust!RegisterCommit(c, push)
  PROVE  Sequential'
<1>1. InProgress(c) /\ UNCHANGED <<revocation, latest, clock>> /\ Trust!Returns(c)
  BY DEF Trust!RegisterKnown, Trust!RegisterCommit, Trust!At, InProgress
<1> QED
  BY <1>1, ReturnsCall, MovesSequential

LEMMA TrustInvStep == TrustIInv /\ [Trust!Next]_Trust!vars => TrustIInv'
<1> SUFFICES ASSUME TrustIInv, [Trust!Next]_Trust!vars PROVE TrustIInv'
  OBVIOUS
<1>1. Trust!TypeOK /\ Trust!TypeOK'
  BY TrustTypeStep DEF TrustIInv
<1>2. ASSUME ~overlapped' PROVE Sequential'
  <2>1. overlapped => overlapped'
    BY DEF Trust!Next, Trust!Request, Trust!Begin, Trust!RegisterUnknown,
           Trust!RegisterKnown, Trust!RegisterCommit, Trust!RevokeCommit,
           Trust!ReapproveCheck, Trust!ReapproveLatest, Trust!ReapproveCommit,
           Trust!RemoveCommit, Trust!SuspendCommit, Trust!Retire, Trust!vars
  <2>2. Sequential
    BY <1>2, <2>1 DEF TrustIInv
  <2>3. CASE UNCHANGED <<revocation, latest, clock, call>>
    BY <2>2, <2>3
    DEF Sequential, OneCall, LogTells, LogIsPast, Looked, InProgress, Trust!At, Trust!Op,
        Trust!Workspace, Trust!Device
  <2>4. ASSUME NEW d \in Devices, Trust!Retire(d) PROVE Sequential'
    BY <2>3, <2>4 DEF Trust!Retire
  <2> QED
    BY <1>1, <1>2, <2>2, <2>3, <2>4, RequestSequential, BeginSequential, RevokeSequential,
       ReapproveSequential, RemoveSequential, SuspendSequential, ChecksSequential,
       RegisterSequential
    DEF Trust!Next, Trust!vars
<1> QED
  BY <1>1, <1>2 DEF TrustIInv

LEMMA InitSequential == Trust!Init => Sequential
<1> SUFFICES ASSUME Trust!Init PROVE Sequential
  OBVIOUS
<1>1. \A c \in ApiCalls : call[c].step = "idle"
  BY DEF Trust!Init, Trust!NoCall
<1>2. \A w \in Workspaces, d \in Devices : latest[w][d].type = "none" /\ latest[w][d].at = 0
  BY DEF Trust!Init
<1> QED
  BY <1>1, <1>2
  DEF Trust!Init, Sequential, OneCall, LogTells, LogIsPast, Looked, InProgress, Trust!At

\* A re-approval takes back a revocation that was recorded as stale and no other, as long as
\* calls do not overlap (device-registry.ts).
THEOREM TakesBackOnlyStale == Trust!Spec => Trust!OnlyStaleIsTakenBack
<1>1. Trust!Spec => []TrustIInv
  <2>1. Trust!Spec => []Trust!TypeOK
    BY TrustTypeCorrect
  <2>2. Trust!Init /\ Trust!TypeOK => TrustIInv
    BY InitSequential DEF TrustIInv
  <2> QED
    BY <2>1, <2>2, TrustInvStep, PTL DEF Trust!Spec
<1> DEFINE KeptUnlessStale == \A w \in Workspaces, d \in Devices :
             ~overlapped /\ revocation[w][d] # Trust!NotRevoked
               /\ revocation'[w][d] = Trust!NotRevoked
               => revocation[w][d] = "stale"
<1>2. ASSUME TrustIInv, Trust!Next PROVE KeptUnlessStale
  <2> SUFFICES ASSUME NEW w \in Workspaces, NEW d \in Devices, ~overlapped,
                      revocation[w][d] # Trust!NotRevoked, revocation'[w][d] = Trust!NotRevoked
               PROVE  revocation[w][d] = "stale"
    OBVIOUS
  <2>1. Trust!TypeOK /\ Sequential
    BY <1>2 DEF TrustIInv
  <2>2. ASSUME NEW c \in ApiCalls, Trust!ReapproveCommit(c) PROVE revocation[w][d] = "stale"
    <3>1. w = Trust!Workspace(c) /\ d = Trust!Device(c)
      BY <2>1, <2>2, CallTypes DEF Trust!ReapproveCommit, Trust!TypeOK
    <3> QED
      BY <2>1, <2>2, <3>1 DEF Trust!ReapproveCommit, Sequential, Looked, LogTells, Trust!At
  <2>3. ASSUME NEW c \in ApiCalls, Trust!RevokeCommit(c) \/ Trust!RemoveCommit(c) PROVE FALSE
    <3>1. Trust!Workspace(c) \in Workspaces
      BY <2>1, <2>3, CallTypes DEF Trust!RevokeCommit, Trust!RemoveCommit
    <3>2. \/ revocation' = revocation
          \/ \E devices, reason : revocation' = Trust!RevokedAlso(Trust!Workspace(c), devices,
               reason)
      BY <2>3 DEF Trust!RevokeCommit, Trust!RemoveCommit, Trust!Revokes
    <3> QED
      BY <2>1, <3>1, <3>2, RevokedAlsoAt
  <2>4. ASSUME NEW c \in ApiCalls, Trust!SuspendCommit(c) PROVE FALSE
    BY <2>1, <2>4, RevokedAlsoAt DEF Trust!SuspendCommit
  <2>5. revocation' # revocation
    OBVIOUS
  <2> QED
    BY <1>2, <2>2, <2>3, <2>4, <2>5
    DEF Trust!Next, Trust!Request, Trust!Begin, Trust!RegisterUnknown, Trust!RegisterKnown,
        Trust!RegisterCommit, Trust!ReapproveCheck, Trust!ReapproveLatest, Trust!Retire
<1>3. TrustIInv /\ [Trust!Next]_Trust!vars => [KeptUnlessStale]_Trust!vars
  BY <1>2
<1> QED
  BY <1>1, <1>3, PTL DEF Trust!Spec, Trust!OnlyStaleIsTakenBack

-----------------------------------------------------------------------------
(* The three parts together *)

LEMMA DeviceStep ==
  [DeviceNext]_allVars =>
    [EngineNext]_engineVars /\ [Sessions!Next]_Sessions!vars /\ [Trust!Next]_Trust!vars
<1> SUFFICES ASSUME [DeviceNext]_allVars
             PROVE  /\ [EngineNext]_engineVars
                    /\ [Sessions!Next]_Sessions!vars
                    /\ [Trust!Next]_Trust!vars
  OBVIOUS
<1>1. UNCHANGED sessionVars => UNCHANGED Sessions!vars
  BY DEF sessionVars, Sessions!vars
<1>2. UNCHANGED trustVars => UNCHANGED Trust!vars
  BY DEF trustVars, Trust!vars
<1>3. CASE OfEngine /\ EngineNext
  BY <1>1, <1>2, <1>3 DEF OfEngine
<1>4. CASE OfSessions /\ Sessions!Next
  BY <1>2, <1>4 DEF OfSessions
<1>5. CASE OfTrust /\ Trust!Next
  BY <1>1, <1>5 DEF OfTrust
<1>6. CASE UNCHANGED allVars
  BY <1>1, <1>2, <1>6 DEF allVars
<1> QED
  BY <1>3, <1>4, <1>5, <1>6 DEF DeviceNext

\* What a run checks of the three parts at once it checks of each: a behaviour of the
\* composition is one of every part.
THEOREM DeviceIsItsParts == DeviceSpec => EngineSpec /\ Sessions!Spec /\ Trust!Spec
<1>1. DeviceInit => EngineInit /\ Sessions!Init /\ Trust!Init
  BY DEF DeviceInit
<1> QED
  BY <1>1, DeviceStep, PTL DEF DeviceSpec, EngineSpec, Sessions!Spec, Trust!Spec

\* So the parts keep together what they keep alone: the cache of an engine follows the
\* log whatever tabs and devices do ...
THEOREM DevicesFollowTheLog == DeviceSpec => [](CacheFollowsLog /\ SoleRejectionRestores)
  BY DeviceIsItsParts, CacheIsTheLog, RejectionRestores, PTL

\* ... the tabs of a worker share one engine (host.ts:34) ...
THEOREM DevicesShareOneEngine == DeviceSpec => []OneEngine
  BY DeviceIsItsParts, TabsShareOneEngine, PTL DEF OneEngine

\* ... and a re-approval takes back what was recorded as stale (device-registry.ts:455).
THEOREM DevicesTakeBackOnlyStale == DeviceSpec => OnlyStaleIsTakenBack
  BY DeviceIsItsParts, TakesBackOnlyStale, PTL DEF OnlyStaleIsTakenBack
=============================================================================
