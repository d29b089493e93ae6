------------------------ MODULE DedicatedTabsProofs ------------------------
(***************************************************************************)
(* Proofs about module DedicatedTabs: no row of the shared outbox is lost, *)
(* left in flight by nobody, or decided out of order.                      *)
(***************************************************************************)
EXTENDS DedicatedTabs, FiniteSetTheorems, TLAPS

\* A non-empty set of numbers has a least element.
LEMMA LeastExists ==
  ASSUME NEW S \in SUBSET Nat, S # {}
  PROVE  \E x \in S : \A y \in S : x <= y
<1> DEFINE UpTo(x) == 1..x
           Initial == {UpTo(x) : x \in S}
           R == StrictSubsetOrdering(Nat)
<1>1. Initial \subseteq FiniteSubsetsOf(Nat)
  <2>1. \A x \in S : IsFiniteSet(UpTo(x)) /\ UpTo(x) \subseteq Nat
    BY FS_Interval
  <2> QED
    BY <2>1 DEF FiniteSubsetsOf
<1>2. PICK low \in Initial : \A other \in Initial : ~(<<other, low>> \in R)
  <2>1. IsWellFoundedOn(R, FiniteSubsetsOf(Nat))
    BY FS_StrictSubsetOrderingWellFounded
  <2>2. Initial # {}
    OBVIOUS
  <2> HIDE DEF Initial, R
  <2> QED
    BY <1>1, <2>1, <2>2, WFMin
<1>3. PICK x \in S : low = UpTo(x)
  OBVIOUS
<1>4. ASSUME NEW y \in S, y < x PROVE FALSE
  <2>1. UpTo(y) \subseteq UpTo(x) /\ UpTo(y) # UpTo(x)
    BY <1>4
  <2>2. UpTo(y) \in SUBSET Nat /\ UpTo(x) \in SUBSET Nat
    OBVIOUS
  <2>3. <<UpTo(y), UpTo(x)>> \in R
    BY <2>1, <2>2 DEF StrictSubsetOrdering
  <2> QED
    BY <1>2, <1>3, <2>3
<1> QED
  BY <1>4

\* Min of the community modules picks it.
LEMMA MinIsLeast ==
  ASSUME NEW S \in SUBSET Nat, S # {}
  PROVE  Min(S) \in S /\ \A y \in S : Min(S) <= y
  BY LeastExists DEF Min

-----------------------------------------------------------------------------
\* What a run holds of the outcomes: an answer is what the server stored, a row it no
\* longer waits for has an answer, and it goes on only when it waits for none.
RunsHoldOutcomes ==
  /\ \A t \in Tabs : \A m \in Muts :
       batch[t].answers[m] \in {"applied", "rejected"} => stored[m] = batch[t].answers[m]
  /\ \A t \in Tabs :
       /\ phase[t] = "mark" => batch[t].rows \subseteq batch[t].todo
       /\ phase[t] \in {"upload", "settle"} =>
            \A m \in batch[t].rows : m \in batch[t].todo \/ batch[t].answers[m] # "none"
       /\ phase[t] = "settle" => batch[t].todo = {}

\* What the outbox holds of them.
RowsHoldOutcomes ==
  /\ NeverSilentlyDropped
  /\ \A m \in Muts : status[m] = "rejected" => stored[m] = "rejected"
  /\ \A m \in Muts : status[m] # "none" => m <= issued

\* A run that started apart from every other has all that is undecided before its rows.
RunsHavePrefixes ==
  \A t \in Tabs : phase[t] \in {"mark", "upload"} =>
    \A m \in batch[t].todo : \A k \in 1..m : k \in batch[t].todo \/ stored[k] # "none"

\* The inductive invariant.
IInv ==
  /\ TypeOK
  /\ RunsHoldOutcomes
  /\ RowsHoldOutcomes
  /\ NothingStranded
  /\ ~mixed => RunsHavePrefixes
  /\ DecidedInOrder

\* What the model keeps of a run.
Run == [rows : SUBSET Muts, todo : SUBSET Muts, answers : [Muts -> Answers]]

\* A run has no rows before it selects some.
LEMMA NoRowsShape ==
  /\ NoRows \in Run /\ NoRows.rows = {}
  /\ \A S \in SUBSET Muts : [NoRows EXCEPT !.rows = S, !.todo = S] \in Run
  BY DEF NoRows, Answers, Run

\* A drain() call starts a run where none is, and changes no other phase.
LEMMA DrainsTypes ==
  ASSUME TypeOK, NEW t \in Tabs, Drains(t)
  PROVE  /\ phase' \in [Tabs -> Phases] /\ again' \in SUBSET Tabs
         /\ \A u \in Tabs : phase'[u] = phase[u] \/ (phase[u] = "idle" /\ phase'[u] = "select")
<1>1. phase \in [Tabs -> Phases] /\ again \in SUBSET Tabs
  BY DEF TypeOK
<1>2. CASE phase[t] = "idle"
  BY <1>1, <1>2 DEF Drains, Phases
<1>3. CASE phase[t] = "closing"
  BY <1>1, <1>3 DEF Drains
<1>4. CASE phase[t] \notin {"idle", "closing"}
  BY <1>1, <1>4 DEF Drains
<1> QED
  BY <1>2, <1>3, <1>4

\* Every step keeps the types.
LEMMA TypeStep == TypeOK /\ [Next]_vars => TypeOK'
<1> SUFFICES ASSUME TypeOK, [Next]_vars PROVE TypeOK'
  OBVIOUS
<1> USE DedicatedTabsAssumption DEF TypeOK, Muts, Phases, Status, runs
<1>1. ASSUME NEW t \in Tabs, OpenTab(t)
      PROVE  TypeOK'
  BY <1>1 DEF OpenTab
<1>2. ASSUME NEW t \in Tabs, Promote(t)
      PROVE  TypeOK'
  BY <1>2 DEF Promote, Requeued, Drains
<1>3. ASSUME NEW t \in Tabs, CloseTab(t)
      PROVE  TypeOK'
  <2>1. batch' \in [Tabs -> Run] /\ batch'[t].rows = {}
    BY <1>3, NoRowsShape DEF CloseTab, Run
  <2>2. \A u \in Tabs : u # t => batch'[u] = batch[u]
    BY <1>3 DEF CloseTab
  <2> QED
    BY <1>3, <2>1, <2>2 DEF CloseTab, Run, LockAfter
<1>4. ASSUME NEW t \in Tabs, ShapeEvent(t)
      PROVE  TypeOK'
  BY <1>4 DEF ShapeEvent, Drains
<1>5. ASSUME NEW t \in Tabs, Mutate(t)
      PROVE  TypeOK'
  <2>1. /\ phase' \in [Tabs -> Phases] /\ again' \in SUBSET Tabs
        /\ \A u \in Tabs : phase'[u] = phase[u] \/ (phase[u] = "idle" /\ phase'[u] = "select")
    BY <1>5, DrainsTypes DEF Mutate
  <2>2. wanted' \in SUBSET Tabs
    BY <1>5 DEF Mutate
  <2>3. /\ issued' \in 0..MaxMutations /\ status' \in [Muts -> Status]
        /\ UNCHANGED <<stored, leader, batch, faults, seen, mixed, cut>>
    BY <1>5 DEF Mutate
  <2> QED
    BY <2>1, <2>2, <2>3
<1>6. ASSUME NEW t \in Tabs, DrainCall(t)
      PROVE  TypeOK'
  BY <1>6 DEF DrainCall, Drains
<1>7. ASSUME NEW t \in Tabs, SelectRows(t)
      PROVE  TypeOK'
  <2>1. NextPending \in SUBSET Muts
    BY DEF NextPending, RowsWith
  <2>2. batch' \in [Tabs -> Run]
    <3>1. [NoRows EXCEPT !.rows = NextPending, !.todo = NextPending] \in Run
      BY <2>1, NoRowsShape
    <3> QED
      BY <1>7, <3>1 DEF SelectRows, Run
  <2>3. \A u \in Tabs : u # t => batch'[u] = batch[u]
    BY <1>7 DEF SelectRows
  <2>4. mixed' \in BOOLEAN
    BY <1>7 DEF SelectRows
  <2> QED
    BY <1>7, <2>2, <2>3, <2>4 DEF SelectRows, Run
<1>8. ASSUME NEW t \in Tabs, MarkInflight(t)
      PROVE  TypeOK'
  BY <1>8 DEF MarkInflight, Marked
<1>9. ASSUME NEW t \in Tabs, NEW o \in {"applied", "rejected"}, ServerHandles(t, o)
      PROVE  TypeOK'
  <2> DEFINE b == batch[t]
             m == Min(b.todo)
             left == IF o = "rejected" THEN {} ELSE b.todo \ {m}
             answered == [k \in Muts |-> IF k = m THEN o
                                         ELSE IF o = "rejected" /\ k \in b.todo THEN "blocked"
                                         ELSE b.answers[k]]
  <2>1. stored' \in [Muts -> {"none", "applied", "rejected"}]
    BY <1>9 DEF ServerHandles
  <2>2. left \in SUBSET Muts /\ answered \in [Muts -> Answers] /\ b.rows \in SUBSET Muts
    BY DEF Answers
  <2>3. batch' = [batch EXCEPT ![t] = [rows |-> b.rows, todo |-> left, answers |-> answered]]
    BY <1>9 DEF ServerHandles
  <2> HIDE DEF left, answered
  <2>4. [rows |-> b.rows, todo |-> left, answers |-> answered] \in Run
    BY <2>2 DEF Run
  <2>5. batch' \in [Tabs -> Run]
    BY <2>3, <2>4 DEF Run
  <2>6. \A u \in Tabs : batch'[u].rows = batch[u].rows
    BY <2>3
  <2> QED
    BY <1>9, <2>1, <2>5, <2>6 DEF ServerHandles, Run
<1>10. ASSUME NEW t \in Tabs, Receive(t)
      PROVE  TypeOK'
  BY <1>10 DEF Receive
<1>11. ASSUME NEW t \in Tabs, Settle(t)
      PROVE  TypeOK'
  BY <1>11 DEF Settle, RowAfter
<1>12. ASSUME NEW t \in Tabs, Finish(t)
      PROVE  TypeOK'
  <2>1. batch' \in [Tabs -> Run] /\ batch'[t].rows = {}
    BY <1>12, NoRowsShape DEF Finish, Run
  <2>2. \A u \in Tabs : u # t => batch'[u] = batch[u]
    BY <1>12 DEF Finish
  <2> QED
    BY <1>12, <2>1, <2>2 DEF Finish, Run
<1>13. ASSUME NEW t \in Tabs, NEW timed \in BOOLEAN, RequeueInflight(t, timed)
      PROVE  TypeOK'
  BY <1>13 DEF RequeueInflight, Requeued, EndRound
<1>14. ASSUME NEW t \in Tabs, UploadFails(t)
      PROVE  TypeOK'
  <2>1. batch' \in [Tabs -> Run] /\ batch'[t].rows = {}
    BY <1>14, NoRowsShape DEF UploadFails, Run
  <2>2. \A u \in Tabs : u # t => batch'[u] = batch[u]
    BY <1>14 DEF UploadFails
  <2> QED
    BY <1>14, <2>1, <2>2 DEF UploadFails, Run
<1>15. ASSUME NEW t \in Tabs, NEW m \in Muts, DismissRejected(t, m)
      PROVE  TypeOK'
  BY <1>15 DEF DismissRejected
<1>16. ASSUME NEW t \in Tabs, SelectNothing(t)
       PROVE  TypeOK'
  BY <1>16 DEF SelectNothing, EndRound
<1>17. ASSUME NEW t \in Tabs, EndRun(t)
       PROVE  TypeOK'
  BY <1>17 DEF EndRun
<1>18. CASE UNCHANGED vars
  BY <1>18 DEF vars
<1> QED
  BY <1>1, <1>2, <1>3, <1>4, <1>5, <1>6, <1>7, <1>8,
     <1>9, <1>10, <1>11, <1>12, <1>13, <1>14, <1>15, <1>16,
     <1>17, <1>18
     DEF Next, RunStep

\* The outcomes a run holds stay those the server stored.
LEMMA RunsStep ==
  ASSUME TypeOK, RunsHoldOutcomes, [Next]_vars
  PROVE  RunsHoldOutcomes'
<1> USE DedicatedTabsAssumption DEF TypeOK, RunsHoldOutcomes, runs
<1>1. ASSUME NEW t \in Tabs, OpenTab(t)
      PROVE  RunsHoldOutcomes'
  BY <1>1 DEF OpenTab
<1>2. ASSUME NEW t \in Tabs, Promote(t)
      PROVE  RunsHoldOutcomes'
  BY <1>2 DEF Promote, Drains
<1>3. ASSUME NEW t \in Tabs, CloseTab(t)
      PROVE  RunsHoldOutcomes'
  BY <1>3 DEF CloseTab, NoRows
<1>4. ASSUME NEW t \in Tabs, ShapeEvent(t)
      PROVE  RunsHoldOutcomes'
  BY <1>4 DEF ShapeEvent, Drains
<1>5. ASSUME NEW t \in Tabs, Mutate(t)
      PROVE  RunsHoldOutcomes'
  BY <1>5 DEF Mutate, Drains
<1>6. ASSUME NEW t \in Tabs, DrainCall(t)
      PROVE  RunsHoldOutcomes'
  BY <1>6 DEF DrainCall, Drains
<1>7. ASSUME NEW t \in Tabs, SelectRows(t)
      PROVE  RunsHoldOutcomes'
  BY <1>7 DEF SelectRows, NoRows, NextPending
<1>8. ASSUME NEW t \in Tabs, MarkInflight(t)
      PROVE  RunsHoldOutcomes'
  BY <1>8 DEF MarkInflight
<1>9. ASSUME NEW t \in Tabs, NEW o \in {"applied", "rejected"}, ServerHandles(t, o)
      PROVE  RunsHoldOutcomes'
  BY <1>9 DEF ServerHandles
<1>10. ASSUME NEW t \in Tabs, Receive(t)
      PROVE  RunsHoldOutcomes'
  BY <1>10 DEF Receive
<1>11. ASSUME NEW t \in Tabs, Settle(t)
      PROVE  RunsHoldOutcomes'
  BY <1>11 DEF Settle
<1>12. ASSUME NEW t \in Tabs, Finish(t)
      PROVE  RunsHoldOutcomes'
  BY <1>12 DEF Finish, NoRows
<1>13. ASSUME NEW t \in Tabs, NEW timed \in BOOLEAN, RequeueInflight(t, timed)
      PROVE  RunsHoldOutcomes'
  BY <1>13 DEF RequeueInflight, EndRound
<1>14. ASSUME NEW t \in Tabs, UploadFails(t)
      PROVE  RunsHoldOutcomes'
  BY <1>14 DEF UploadFails, NoRows
<1>15. ASSUME NEW t \in Tabs, NEW m \in Muts, DismissRejected(t, m)
      PROVE  RunsHoldOutcomes'
  BY <1>15 DEF DismissRejected
<1>16. ASSUME NEW t \in Tabs, SelectNothing(t)
       PROVE  RunsHoldOutcomes'
  BY <1>16 DEF SelectNothing, EndRound
<1>17. ASSUME NEW t \in Tabs, EndRun(t)
       PROVE  RunsHoldOutcomes'
  BY <1>17 DEF EndRun
<1>18. CASE UNCHANGED vars
  BY <1>18 DEF vars
<1> QED
  BY <1>1, <1>2, <1>3, <1>4, <1>5, <1>6, <1>7, <1>8,
     <1>9, <1>10, <1>11, <1>12, <1>13, <1>14, <1>15, <1>16,
     <1>17, <1>18
     DEF Next, RunStep

\* A row goes only with an outcome, or when its rejection is dismissed.
LEMMA RowsStep ==
  ASSUME TypeOK, RunsHoldOutcomes, RowsHoldOutcomes, [Next]_vars
  PROVE  RowsHoldOutcomes'
<1> USE DedicatedTabsAssumption
    DEF TypeOK, RowsHoldOutcomes, NeverSilentlyDropped, Muts, Status, runs
<1>1. ASSUME NEW t \in Tabs, OpenTab(t)
      PROVE  RowsHoldOutcomes'
  BY <1>1 DEF OpenTab
<1>2. ASSUME NEW t \in Tabs, Promote(t)
      PROVE  RowsHoldOutcomes'
  BY <1>2 DEF Promote, Requeued, Drains
<1>3. ASSUME NEW t \in Tabs, CloseTab(t)
      PROVE  RowsHoldOutcomes'
  BY <1>3 DEF CloseTab
<1>4. ASSUME NEW t \in Tabs, ShapeEvent(t)
      PROVE  RowsHoldOutcomes'
  BY <1>4 DEF ShapeEvent, Drains
<1>5. ASSUME NEW t \in Tabs, Mutate(t)
      PROVE  RowsHoldOutcomes'
  BY <1>5 DEF Mutate, Drains
<1>6. ASSUME NEW t \in Tabs, DrainCall(t)
      PROVE  RowsHoldOutcomes'
  BY <1>6 DEF DrainCall, Drains
<1>7. ASSUME NEW t \in Tabs, SelectRows(t)
      PROVE  RowsHoldOutcomes'
  BY <1>7 DEF SelectRows
<1>8. ASSUME NEW t \in Tabs, MarkInflight(t)
      PROVE  RowsHoldOutcomes'
  BY <1>8 DEF MarkInflight, Marked
<1>9. ASSUME NEW t \in Tabs, NEW o \in {"applied", "rejected"}, ServerHandles(t, o)
      PROVE  RowsHoldOutcomes'
  BY <1>9 DEF ServerHandles
<1>10. ASSUME NEW t \in Tabs, Receive(t)
      PROVE  RowsHoldOutcomes'
  BY <1>10 DEF Receive
<1>11. ASSUME NEW t \in Tabs, Settle(t)
      PROVE  RowsHoldOutcomes'
  <2> DEFINE m == Min(batch[t].rows)
  <2>1. m \in batch[t].rows /\ m \in Muts
    <3>1. batch[t].rows \in SUBSET Nat /\ batch[t].rows # {}
      BY <1>11 DEF Settle
    <3> QED
      BY <3>1, MinIsLeast
  <2>2. batch[t].answers[m] \in {"applied", "rejected", "blocked"}
    BY <1>11, <2>1 DEF Settle, RunsHoldOutcomes, Answers
  <2>3. batch[t].answers[m] \in {"applied", "rejected"} => stored[m] = batch[t].answers[m]
    BY <2>1 DEF RunsHoldOutcomes
  <2>4. /\ status' = [status EXCEPT ![m] = RowAfter(m, batch[t].answers[m])]
        /\ UNCHANGED <<issued, stored, seen>>
    BY <1>11 DEF Settle
  <2> HIDE DEF m
  <2>5. \A k \in Muts : k # m => status'[k] = status[k]
    BY <2>4
  <2>6. /\ status'[m] = "none" => status[m] = "none" \/ stored[m] = "applied"
        /\ status'[m] = "rejected" => stored[m] = "rejected"
        /\ status'[m] # "none" => status[m] # "none"
    BY <2>1, <2>2, <2>3, <2>4 DEF RowAfter
  <2> QED
    BY <2>1, <2>4, <2>5, <2>6
<1>12. ASSUME NEW t \in Tabs, Finish(t)
      PROVE  RowsHoldOutcomes'
  BY <1>12 DEF Finish
<1>13. ASSUME NEW t \in Tabs, NEW timed \in BOOLEAN, RequeueInflight(t, timed)
      PROVE  RowsHoldOutcomes'
  BY <1>13 DEF RequeueInflight, Requeued, EndRound
<1>14. ASSUME NEW t \in Tabs, UploadFails(t)
      PROVE  RowsHoldOutcomes'
  BY <1>14 DEF UploadFails
<1>15. ASSUME NEW t \in Tabs, NEW m \in Muts, DismissRejected(t, m)
      PROVE  RowsHoldOutcomes'
  BY <1>15 DEF DismissRejected
<1>16. ASSUME NEW t \in Tabs, SelectNothing(t)
       PROVE  RowsHoldOutcomes'
  BY <1>16 DEF SelectNothing, EndRound
<1>17. ASSUME NEW t \in Tabs, EndRun(t)
       PROVE  RowsHoldOutcomes'
  BY <1>17 DEF EndRun
<1>18. CASE UNCHANGED vars
  BY <1>18 DEF vars
<1> QED
  BY <1>1, <1>2, <1>3, <1>4, <1>5, <1>6, <1>7, <1>8,
     <1>9, <1>10, <1>11, <1>12, <1>13, <1>14, <1>15, <1>16,
     <1>17, <1>18
     DEF Next, RunStep

\* A row is in flight in a run, unless a follower was cut or nobody leads.
LEMMA StrandedStep ==
  ASSUME TypeOK, NothingStranded, [Next]_vars
  PROVE  NothingStranded'
<1> USE DedicatedTabsAssumption DEF TypeOK, NothingStranded, RowsWith, OpenTabs, runs
<1>1. ASSUME NEW t \in Tabs, OpenTab(t)
      PROVE  NothingStranded'
  BY <1>1 DEF OpenTab
<1>2. ASSUME NEW t \in Tabs, Promote(t)
      PROVE  NothingStranded'
  BY <1>2 DEF Promote, Requeued, Drains
<1>3. ASSUME NEW t \in Tabs, CloseTab(t)
      PROVE  NothingStranded'
  BY <1>3 DEF CloseTab, InRun, LockAfter, NoRows
<1>4. ASSUME NEW t \in Tabs, ShapeEvent(t)
      PROVE  NothingStranded'
  BY <1>4 DEF ShapeEvent, Drains
<1>5. ASSUME NEW t \in Tabs, Mutate(t)
      PROVE  NothingStranded'
  BY <1>5 DEF Mutate, Drains
<1>6. ASSUME NEW t \in Tabs, DrainCall(t)
      PROVE  NothingStranded'
  BY <1>6 DEF DrainCall, Drains
<1>7. ASSUME NEW t \in Tabs, SelectRows(t)
      PROVE  NothingStranded'
  BY <1>7 DEF SelectRows
<1>8. ASSUME NEW t \in Tabs, MarkInflight(t)
      PROVE  NothingStranded'
  BY <1>8 DEF MarkInflight, Marked
<1>9. ASSUME NEW t \in Tabs, NEW o \in {"applied", "rejected"}, ServerHandles(t, o)
      PROVE  NothingStranded'
  BY <1>9 DEF ServerHandles
<1>10. ASSUME NEW t \in Tabs, Receive(t)
      PROVE  NothingStranded'
  BY <1>10 DEF Receive
<1>11. ASSUME NEW t \in Tabs, Settle(t)
      PROVE  NothingStranded'
  BY <1>11 DEF Settle, RowAfter
<1>12. ASSUME NEW t \in Tabs, Finish(t)
      PROVE  NothingStranded'
  BY <1>12 DEF Finish
<1>13. ASSUME NEW t \in Tabs, NEW timed \in BOOLEAN, RequeueInflight(t, timed)
      PROVE  NothingStranded'
  BY <1>13 DEF RequeueInflight, Requeued, EndRound
<1>14. ASSUME NEW t \in Tabs, UploadFails(t)
      PROVE  NothingStranded'
  BY <1>14 DEF UploadFails
<1>15. ASSUME NEW t \in Tabs, NEW m \in Muts, DismissRejected(t, m)
      PROVE  NothingStranded'
  BY <1>15 DEF DismissRejected
<1>16. ASSUME NEW t \in Tabs, SelectNothing(t)
       PROVE  NothingStranded'
  BY <1>16 DEF SelectNothing, EndRound
<1>17. ASSUME NEW t \in Tabs, EndRun(t)
       PROVE  NothingStranded'
  BY <1>17 DEF EndRun
<1>18. CASE UNCHANGED vars
  BY <1>18 DEF vars
<1> QED
  BY <1>1, <1>2, <1>3, <1>4, <1>5, <1>6, <1>7, <1>8,
     <1>9, <1>10, <1>11, <1>12, <1>13, <1>14, <1>15, <1>16,
     <1>17, <1>18
     DEF Next, RunStep

\* As long as no run was mixed with another, each has all that is undecided before its rows.
LEMMA PrefixStep ==
  ASSUME TypeOK, RowsHoldOutcomes, ~mixed => RunsHavePrefixes, ~mixed', [Next]_vars
  PROVE  RunsHavePrefixes'
<1> USE DedicatedTabsAssumption DEF TypeOK, RunsHavePrefixes, runs
<1>1. ASSUME NEW t \in Tabs, OpenTab(t)
      PROVE  RunsHavePrefixes'
  BY <1>1 DEF OpenTab
<1>2. ASSUME NEW t \in Tabs, Promote(t)
      PROVE  RunsHavePrefixes'
  BY <1>2 DEF Promote, Drains
<1>3. ASSUME NEW t \in Tabs, CloseTab(t)
      PROVE  RunsHavePrefixes'
  BY <1>3 DEF CloseTab, NoRows
<1>4. ASSUME NEW t \in Tabs, ShapeEvent(t)
      PROVE  RunsHavePrefixes'
  BY <1>4 DEF ShapeEvent, Drains
<1>5. ASSUME NEW t \in Tabs, Mutate(t)
      PROVE  RunsHavePrefixes'
  BY <1>5 DEF Mutate, Drains
<1>6. ASSUME NEW t \in Tabs, DrainCall(t)
      PROVE  RunsHavePrefixes'
  BY <1>6 DEF DrainCall, Drains
<1>7. ASSUME NEW t \in Tabs, SelectRows(t)
      PROVE  RunsHavePrefixes'
  <2>1. \A m \in RowsWith("pending") : \A k \in 1..m :
          k \in RowsWith("pending") \/ stored[k] # "none"
    <3> SUFFICES ASSUME NEW m \in Muts, status[m] = "pending", NEW k \in 1..m, status[k] # "pending"
                 PROVE  stored[k] # "none"
      BY DEF RowsWith, Muts
    <3>1. m <= issued
      BY DEF RowsHoldOutcomes
    <3>2. k \in 1..issued /\ k \in Muts
      BY <3>1 DEF Muts
    <3>3. status[k] # "inflight"
      BY <1>7, <3>2 DEF SelectRows, RowsWith
    <3>4. status[k] \in {"none", "rejected"}
      BY <3>2, <3>3 DEF Status
    <3> QED
      BY <3>2, <3>4 DEF RowsHoldOutcomes, NeverSilentlyDropped
  <2>2. batch'[t].todo = RowsWith("pending") /\ stored' = stored
    BY <1>7 DEF SelectRows, NextPending, NoRows
  <2>3. \A u \in Tabs : u # t => batch'[u] = batch[u] /\ phase'[u] = phase[u]
    BY <1>7 DEF SelectRows
  <2>4. RunsHavePrefixes
    BY <1>7 DEF SelectRows
  <2> SUFFICES ASSUME NEW u \in Tabs, phase'[u] \in {"mark", "upload"}
               PROVE  \A m \in batch'[u].todo : \A k \in 1..m :
                        k \in batch'[u].todo \/ stored'[k] # "none"
    OBVIOUS
  <2>5. CASE u = t
    BY <2>1, <2>2, <2>5
  <2>6. CASE u # t
    BY <2>2, <2>3, <2>4, <2>6
  <2> QED
    BY <2>5, <2>6
<1>8. ASSUME NEW t \in Tabs, MarkInflight(t)
      PROVE  RunsHavePrefixes'
  BY <1>8 DEF MarkInflight
<1>9. ASSUME NEW t \in Tabs, NEW o \in {"applied", "rejected"}, ServerHandles(t, o)
      PROVE  RunsHavePrefixes'
  <2> DEFINE m == Min(batch[t].todo)
  <2>1. m \in batch[t].todo /\ m \in Muts
    <3>1. batch[t].todo \in SUBSET Nat /\ batch[t].todo # {}
      BY <1>9 DEF ServerHandles, Muts
    <3>2. batch[t].todo \in SUBSET Muts
      OBVIOUS
    <3> QED
      BY <3>1, <3>2, MinIsLeast
  <2>2. stored'[m] # "none" /\ \A k \in Muts : stored[k] # "none" => stored'[k] # "none"
    BY <1>9, <2>1 DEF ServerHandles
  <2>3. batch'[t].todo \in {{}, batch[t].todo \ {m}}
    BY <1>9 DEF ServerHandles
  <2>4. phase' = phase /\ \A u \in Tabs : u # t => batch'[u] = batch[u]
    BY <1>9 DEF ServerHandles
  <2>5. \A k \in Muts : \A j \in 1..k : j \in Muts
    BY DEF Muts
  <2>6. RunsHavePrefixes
    BY <1>9 DEF ServerHandles
  <2> HIDE DEF m
  <2>7. ASSUME NEW u \in Tabs, phase[u] \in {"mark", "upload"},
               NEW n \in batch'[u].todo, NEW k \in 1..n
        PROVE  k \in batch'[u].todo \/ stored'[k] # "none"
    <3>1. n \in batch[u].todo /\ n \in Muts /\ k \in Muts
      BY <2>3, <2>4, <2>5, <2>7
    <3>2. k \in batch[u].todo \/ stored[k] # "none"
      BY <2>6, <2>7, <3>1
    <3> QED
      BY <2>2, <2>3, <2>4, <2>7, <3>1, <3>2
  <2> QED
    BY <2>4, <2>7
<1>10. ASSUME NEW t \in Tabs, Receive(t)
      PROVE  RunsHavePrefixes'
  BY <1>10 DEF Receive
<1>11. ASSUME NEW t \in Tabs, Settle(t)
      PROVE  RunsHavePrefixes'
  BY <1>11 DEF Settle
<1>12. ASSUME NEW t \in Tabs, Finish(t)
      PROVE  RunsHavePrefixes'
  BY <1>12 DEF Finish, NoRows
<1>13. ASSUME NEW t \in Tabs, NEW timed \in BOOLEAN, RequeueInflight(t, timed)
      PROVE  RunsHavePrefixes'
  BY <1>13 DEF RequeueInflight, EndRound
<1>14. ASSUME NEW t \in Tabs, UploadFails(t)
      PROVE  RunsHavePrefixes'
  BY <1>14 DEF UploadFails, NoRows
<1>15. ASSUME NEW t \in Tabs, NEW m \in Muts, DismissRejected(t, m)
      PROVE  RunsHavePrefixes'
  BY <1>15 DEF DismissRejected
<1>16. ASSUME NEW t \in Tabs, SelectNothing(t)
       PROVE  RunsHavePrefixes'
  BY <1>16 DEF SelectNothing, EndRound
<1>17. ASSUME NEW t \in Tabs, EndRun(t)
       PROVE  RunsHavePrefixes'
  BY <1>17 DEF EndRun
<1>18. CASE UNCHANGED vars
  BY <1>18 DEF vars
<1> QED
  BY <1>1, <1>2, <1>3, <1>4, <1>5, <1>6, <1>7, <1>8,
     <1>9, <1>10, <1>11, <1>12, <1>13, <1>14, <1>15, <1>16,
     <1>17, <1>18
     DEF Next, RunStep

\* The server takes the least row it waits for, and all before it are decided.
LEMMA OrderStep ==
  ASSUME TypeOK, ~mixed => RunsHavePrefixes, DecidedInOrder, [Next]_vars
  PROVE  DecidedInOrder'
<1> USE DedicatedTabsAssumption DEF TypeOK, RunsHavePrefixes, DecidedInOrder, runs
<1>1. ASSUME NEW t \in Tabs, OpenTab(t)
      PROVE  DecidedInOrder'
  BY <1>1 DEF OpenTab
<1>2. ASSUME NEW t \in Tabs, Promote(t)
      PROVE  DecidedInOrder'
  BY <1>2 DEF Promote, Drains
<1>3. ASSUME NEW t \in Tabs, CloseTab(t)
      PROVE  DecidedInOrder'
  BY <1>3 DEF CloseTab
<1>4. ASSUME NEW t \in Tabs, ShapeEvent(t)
      PROVE  DecidedInOrder'
  BY <1>4 DEF ShapeEvent, Drains
<1>5. ASSUME NEW t \in Tabs, Mutate(t)
      PROVE  DecidedInOrder'
  BY <1>5 DEF Mutate, Drains
<1>6. ASSUME NEW t \in Tabs, DrainCall(t)
      PROVE  DecidedInOrder'
  BY <1>6 DEF DrainCall, Drains
<1>7. ASSUME NEW t \in Tabs, SelectRows(t)
      PROVE  DecidedInOrder'
  BY <1>7 DEF SelectRows
<1>8. ASSUME NEW t \in Tabs, MarkInflight(t)
      PROVE  DecidedInOrder'
  BY <1>8 DEF MarkInflight
<1>9. ASSUME NEW t \in Tabs, NEW o \in {"applied", "rejected"}, ServerHandles(t, o)
      PROVE  DecidedInOrder'
  <2> DEFINE m == Min(batch[t].todo)
  <2>1. m \in batch[t].todo /\ m \in Muts /\ \A k \in batch[t].todo : m <= k
    <3>1. batch[t].todo \in SUBSET Nat /\ batch[t].todo # {}
      BY <1>9 DEF ServerHandles, Muts
    <3>2. batch[t].todo \in SUBSET Muts
      OBVIOUS
    <3> QED
      BY <3>1, <3>2, MinIsLeast
  <2>2. stored' \in {stored, [stored EXCEPT ![m] = o]} /\ o # "none" /\ mixed' = mixed
    BY <1>9 DEF ServerHandles
  <2> SUFFICES ASSUME ~mixed, NEW n \in Muts, stored'[n] # "none", NEW k \in 1..n
               PROVE  stored'[k] # "none"
    BY <2>2
  <2>3. k \in Muts /\ (stored[k] # "none" => stored'[k] # "none")
    BY <2>1, <2>2 DEF Muts
  <2>4. CASE stored[n] # "none"
    BY <2>3, <2>4
  <2>5. CASE n = m
    <3>1. k = m \/ k \notin batch[t].todo
      BY <2>1, <2>5 DEF Muts
    <3>2. k = m => stored'[k] # "none"
      BY <1>9, <2>1 DEF ServerHandles
    <3>3. k \notin batch[t].todo => stored[k] # "none"
      BY <1>9, <2>1, <2>5 DEF ServerHandles
    <3> QED
      BY <2>3, <3>1, <3>2, <3>3
  <2>6. stored[n] # "none" \/ n = m
    BY <2>1, <2>2
  <2> QED
    BY <2>4, <2>5, <2>6
<1>10. ASSUME NEW t \in Tabs, Receive(t)
      PROVE  DecidedInOrder'
  BY <1>10 DEF Receive
<1>11. ASSUME NEW t \in Tabs, Settle(t)
      PROVE  DecidedInOrder'
  BY <1>11 DEF Settle
<1>12. ASSUME NEW t \in Tabs, Finish(t)
      PROVE  DecidedInOrder'
  BY <1>12 DEF Finish
<1>13. ASSUME NEW t \in Tabs, NEW timed \in BOOLEAN, RequeueInflight(t, timed)
      PROVE  DecidedInOrder'
  BY <1>13 DEF RequeueInflight, EndRound
<1>14. ASSUME NEW t \in Tabs, UploadFails(t)
      PROVE  DecidedInOrder'
  BY <1>14 DEF UploadFails
<1>15. ASSUME NEW t \in Tabs, NEW m \in Muts, DismissRejected(t, m)
      PROVE  DecidedInOrder'
  BY <1>15 DEF DismissRejected
<1>16. ASSUME NEW t \in Tabs, SelectNothing(t)
       PROVE  DecidedInOrder'
  BY <1>16 DEF SelectNothing, EndRound
<1>17. ASSUME NEW t \in Tabs, EndRun(t)
       PROVE  DecidedInOrder'
  BY <1>17 DEF EndRun
<1>18. CASE UNCHANGED vars
  BY <1>18 DEF vars
<1> QED
  BY <1>1, <1>2, <1>3, <1>4, <1>5, <1>6, <1>7, <1>8,
     <1>9, <1>10, <1>11, <1>12, <1>13, <1>14, <1>15, <1>16,
     <1>17, <1>18
     DEF Next, RunStep

\* The invariant holds before the first tab opens.
LEMMA InitIInv == Init => IInv
<1> SUFFICES ASSUME Init PROVE IInv
  OBVIOUS
<1>1. TypeOK
  <2>1. batch \in [Tabs -> [rows : SUBSET Muts, todo : SUBSET Muts, answers : [Muts -> Answers]]]
    BY NoRowsShape DEF Init, Run
  <2>2. mixed \in BOOLEAN /\ cut \in BOOLEAN
    BY Zenon DEF Init
  <2> QED
    BY <2>1, <2>2, DedicatedTabsAssumption DEF Init, TypeOK, Status, Phases, NoRows
<1>2. RunsHoldOutcomes
  BY DEF Init, RunsHoldOutcomes, NoRows
<1>3. RowsHoldOutcomes
  BY DEF Init, RowsHoldOutcomes, NeverSilentlyDropped
<1>4. NothingStranded /\ RunsHavePrefixes /\ DecidedInOrder
  BY DEF Init, NothingStranded, RunsHavePrefixes, DecidedInOrder
<1> QED
  BY <1>1, <1>2, <1>3, <1>4 DEF IInv

\* The invariant is inductive.
LEMMA StepIInv == IInv /\ [Next]_vars => IInv'
  BY TypeStep, RunsStep, RowsStep, StrandedStep, PrefixStep, OrderStep DEF IInv

\* Every reachable state satisfies the invariant.
LEMMA Invariant == Spec => []IInv
  BY InitIInv, StepIInv, PTL DEF Spec

\* The variables of the tabs keep their types in every reachable state.
THEOREM TypeCorrect == Spec => []TypeOK
<1>1. IInv => TypeOK
  BY DEF IInv
<1> QED
  BY <1>1, Invariant, PTL

\* However the runs of the tabs overlap, a row leaves the outbox only applied, or rejected
\* and dismissed (outbox.ts).
THEOREM NoRowLost == Spec => []NeverSilentlyDropped
<1>1. IInv => NeverSilentlyDropped
  BY DEF IInv, RowsHoldOutcomes
<1> QED
  BY <1>1, Invariant, PTL

\* While a tab leads and no follower's run was cut, a row in flight is in some run.
THEOREM NoneLeftInFlight == Spec => []NothingStranded
<1>1. IInv => NothingStranded
  BY DEF IInv
<1> QED
  BY <1>1, Invariant, PTL

\* The server decides the mutations of an outbox in their order, as long as no run began
\* while rows of another were in flight.
THEOREM InOrder == Spec => []DecidedInOrder
<1>1. IInv => DecidedInOrder
  BY DEF IInv
<1> QED
  BY <1>1, Invariant, PTL
=============================================================================
