--------------------------- MODULE DedicatedTabs ---------------------------
(***************************************************************************)
(* Where the browser has no SharedWorker every tab has an engine of its    *)
(* own over the one cache database (sync-client/host.ts).  The tab that    *)
(* holds the Web Lock leads; the others follow until the lock reaches      *)
(* them.  The outbox is shared, but nothing keeps the engines' statements  *)
(* on it apart: #exclusive orders those of one engine only.                *)
(*                                                                         *)
(* The drain run is module SyncUpload's; here its steps are the statements *)
(* another tab can get between.                                            *)
(***************************************************************************)
EXTENDS Naturals, FiniteSets, FiniteSetsExt

CONSTANTS
  Tabs,
  MaxMutations,   \* bound: mutations made in all tabs together
  MaxFaults       \* bound: failed uploads and closed tabs

ASSUME DedicatedTabsAssumption == MaxMutations \in Nat /\ MaxFaults \in Nat

Muts == 1..MaxMutations
NoTab == "no tab"

VARIABLES
  issued,   \* the last seq of the outbox
  status,   \* the shared outbox: the status of each row
  stored,   \* the server: the outcome stored for each mutation
  leader,   \* the tab holding the lock
  phase,    \* each tab: "closed", or where its drain run is
  wanted,   \* tabs a drain() call is on its way in
  again,    \* tabs whose run was asked to go around again (#drainAgain)
  batch,    \* the rows each tab's run carries, and what the server answered
  faults,
  seen,     \* history: rejections the person dismissed
  mixed,    \* history: a run began while rows of another one, maybe dead, were in flight
  cut       \* history: a follower was closed in the middle of a run

vars == <<issued, status, stored, leader, phase, wanted, again, batch, faults,
          seen, mixed, cut>>
runs == <<mixed, cut>>

-----------------------------------------------------------------------------
Status == {"none", "pending", "inflight", "rejected"}
Phases == {"closed", "idle", "select", "mark", "upload", "settle", "failed", "closing"}
Answers == {"none", "applied", "rejected", "blocked"}
NoRows == [rows |-> {}, todo |-> {}, answers |-> [m \in Muts |-> "none"]]

TypeOK ==
  /\ issued \in 0..MaxMutations
  /\ status \in [Muts -> Status]
  /\ stored \in [Muts -> {"none", "applied", "rejected"}]
  /\ leader \in Tabs \cup {NoTab}
  /\ phase \in [Tabs -> Phases]
  /\ wanted \in SUBSET Tabs /\ again \in SUBSET Tabs
  /\ batch \in [Tabs -> [rows : SUBSET Muts, todo : SUBSET Muts, answers : [Muts -> Answers]]]
  /\ faults \in 0..MaxFaults
  /\ seen \in SUBSET Muts
  /\ mixed \in BOOLEAN /\ cut \in BOOLEAN
  /\ leader # NoTab => phase[leader] # "closed"
  /\ \A t \in Tabs : batch[t].rows # {} => phase[t] \in {"mark", "upload", "settle"}

Init ==
  /\ issued = 0
  /\ status = [m \in Muts |-> "none"]
  /\ stored = [m \in Muts |-> "none"]
  /\ leader = NoTab
  /\ phase = [t \in Tabs |-> "closed"]
  /\ wanted = {} /\ again = {}
  /\ batch = [t \in Tabs |-> NoRows]
  /\ faults = 0
  /\ seen = {}
  /\ mixed = FALSE /\ cut = FALSE

RowsWith(s) == {m \in Muts : status[m] = s}
\* Mutant: the rows of a failed request stay marked.
RequeuedNothing == status

Requeued == [m \in Muts |-> IF status[m] = "inflight" THEN "pending" ELSE status[m]]
\* The tab's run may have rows marked in flight.
InRun(t) == phase[t] \in {"mark", "upload", "settle", "failed"}
OpenTabs == {t \in Tabs : phase[t] # "closed"}

-----------------------------------------------------------------------------
(* Tabs *)

\* startFollower(): reads the cursors and leaves the outbox alone.
OpenTab(t) ==
  /\ phase[t] = "closed"
  /\ phase' = [phase EXCEPT ![t] = "idle"]
  /\ UNCHANGED <<issued, status, stored, leader, wanted, again, batch, faults, seen, runs>>

\* drain() starts a run, or only sets the flag of the one under way.  A run that is
\* refreshing the state at its end does not look at it any more, and the next clears it.
Drains(t) ==
  \/ phase[t] = "idle" /\ phase' = [phase EXCEPT ![t] = "select"] /\ UNCHANGED again
  \/ phase[t] = "closing" /\ UNCHANGED <<phase, again>>
  \/ phase[t] \notin {"idle", "closing"} /\ again' = again \cup {t} /\ UNCHANGED phase

\* The lock is granted: promote() requeues what was in flight, in every tab, and drains.
Promote(t) ==
  /\ leader = NoTab
  /\ phase[t] # "closed"
  /\ leader' = t
  /\ status' = Requeued
  /\ Drains(t)
  /\ UNCHANGED <<issued, stored, wanted, batch, faults, seen, runs>>

\* The lock is held for the life of the worker.
LockAfter(t) == IF leader = t THEN NoTab ELSE leader

\* The tab goes away, a run of its own with it.
CloseTab(t) ==
  /\ phase[t] # "closed"
  /\ faults < MaxFaults
  /\ faults' = faults + 1
  /\ phase' = [phase EXCEPT ![t] = "closed"]
  /\ batch' = [batch EXCEPT ![t] = NoRows]
  /\ wanted' = wanted \ {t} /\ again' = again \ {t}
  /\ leader' = LockAfter(t)
  /\ cut' = (cut \/ (InRun(t) /\ leader \notin {t, NoTab}))
  /\ UNCHANGED <<issued, status, stored, seen, mixed>>

\* onEvents(): only the leader replicates; an up-to-date event ends in a drain() call.
\* So does "changed" on the channel, by which the other tabs tell of what they wrote.
ShapeEvent(t) ==
  /\ t = leader
  /\ Drains(t)
  /\ UNCHANGED <<issued, status, stored, leader, wanted, batch, faults, seen, runs>>

\* mutate(): in whichever tab the person is; it drains without asking who leads.  The
\* call waits for the database behind the refresh of a run that is closing.
Mutate(t) ==
  /\ phase[t] # "closed"
  /\ issued < MaxMutations
  /\ issued' = issued + 1
  /\ status' = [status EXCEPT ![issued + 1] = "pending"]
  /\ wanted' = IF phase[t] = "closing" THEN wanted \cup {t} ELSE wanted
  /\ Drains(t)
  /\ UNCHANGED <<stored, leader, batch, faults, seen, runs>>

DismissRejected(t, m) ==
  /\ phase[t] # "closed"
  /\ status[m] = "rejected"
  /\ status' = [status EXCEPT ![m] = "none"]
  /\ seen' = seen \cup {m}
  /\ UNCHANGED <<issued, stored, leader, phase, wanted, again, batch, faults, runs>>

-----------------------------------------------------------------------------
(* The drain run of a tab *)

\* A drain() call on its way arrives.
DrainCall(t) ==
  /\ t \in wanted
  /\ wanted' = wanted \ {t}
  /\ Drains(t)
  /\ UNCHANGED <<issued, status, stored, leader, batch, faults, seen, runs>>

\* A round is over, well or not: somebody asked for another meanwhile, or the run ends.
EndRound(t) ==
  /\ phase' = [phase EXCEPT ![t] = IF t \in again THEN "select" ELSE "closing"]
  /\ again' = again \ {t}

\* Nothing is waiting: drainOnce() has finished.
SelectNothing(t) ==
  /\ phase[t] = "select"
  /\ RowsWith("pending") = {}
  /\ EndRound(t)
  /\ UNCHANGED <<issued, status, stored, leader, wanted, again, batch, faults, seen, runs>>

\* The state is refreshed, and the run is over.
EndRun(t) ==
  /\ phase[t] = "closing"
  /\ phase' = [phase EXCEPT ![t] = "idle"]
  /\ UNCHANGED <<issued, status, stored, leader, wanted, again, batch, faults, seen, runs>>

\* Mutant: newest first.
NewestFirst == LET Waiting == RowsWith("pending") IN {m \in Waiting : m = Max(Waiting)}

\* nextPending(): the oldest rows waiting; UPLOAD_BATCH is more than there are here.
NextPending == RowsWith("pending")

\* One statement ...
SelectRows(t) ==
  /\ phase[t] = "select"
  /\ RowsWith("pending") # {}
  /\ phase' = [phase EXCEPT ![t] = "mark"]
  /\ batch' = [batch EXCEPT ![t] = [NoRows EXCEPT !.rows = NextPending,
                                                  !.todo = NextPending]]
  /\ mixed' = (mixed \/ RowsWith("inflight") # {} \/ \E u \in Tabs : phase[u] = "mark")
  /\ UNCHANGED <<issued, status, stored, leader, wanted, again, faults, seen, cut>>

\* markInflight(): an UPDATE, of the rows that are still there.
Marked(t) ==
  [m \in Muts |-> IF m \in batch[t].rows /\ status[m] # "none" THEN "inflight" ELSE status[m]]

MarkInflight(t) ==
  /\ phase[t] = "mark"
  /\ phase' = [phase EXCEPT ![t] = "upload"]
  /\ status' = Marked(t)
  /\ UNCHANGED <<issued, stored, leader, wanted, again, batch, faults, seen, runs>>

\* applyMutations() handles the next mutation: its stored outcome, or one it
\* decides now; the first rejection blocks the rest.
ServerHandles(t, o) ==
  /\ phase[t] = "upload"
  /\ batch[t].todo # {}
  /\ LET b == batch[t]
         m == Min(b.todo)
     IN  /\ IF stored[m] = "none" THEN stored' = [stored EXCEPT ![m] = o]
                                  ELSE o = stored[m] /\ UNCHANGED stored
         /\ batch' = [batch EXCEPT ![t] =
              [rows |-> b.rows,
               todo |-> IF o = "rejected" THEN {} ELSE b.todo \ {m},
               answers |-> [k \in Muts |-> IF k = m THEN o
                                           ELSE IF o = "rejected" /\ k \in b.todo THEN "blocked"
                                           ELSE b.answers[k]]]]
  /\ UNCHANGED <<issued, status, leader, phase, wanted, again, faults, seen, runs>>

Receive(t) ==
  /\ phase[t] = "upload"
  /\ batch[t].todo = {}
  /\ phase' = [phase EXCEPT ![t] = "settle"]
  /\ UNCHANGED <<issued, status, stored, leader, wanted, again, batch, faults, seen, runs>>

\* Mutant: a blocked mutation is done.
BlockedAsDone(m, answer) == IF answer = "rejected" THEN "rejected" ELSE "none"

\* What one turn of the loop makes of the row; UPDATE finds no row that is gone.
RowAfter(m, answer) ==
  IF answer = "applied" \/ status[m] = "none" THEN "none"
  ELSE IF answer = "blocked" THEN "pending" ELSE "rejected"

Settle(t) ==
  /\ phase[t] = "settle"
  /\ batch[t].rows # {}
  /\ LET m == Min(batch[t].rows)
     IN  /\ status' = [status EXCEPT ![m] = RowAfter(m, batch[t].answers[m])]
         /\ batch' = [batch EXCEPT ![t] = [@ EXCEPT !.rows = batch[t].rows \ {m}]]
  /\ UNCHANGED <<issued, stored, leader, phase, wanted, again, faults, seen, runs>>

\* The answered rows are settled: the round selects again, until nothing is pending.
Finish(t) ==
  /\ phase[t] = "settle"
  /\ batch[t].rows = {}
  /\ phase' = [phase EXCEPT ![t] = "select"]
  /\ batch' = [batch EXCEPT ![t] = NoRows]
  /\ UNCHANGED <<issued, status, stored, leader, wanted, again, faults, seen, runs>>

\* The await threw: whatever any tab has in flight waits again.  A timer calls drain()
\* later, except after the server's own error or a refused session; then nothing does
\* unless somebody asked while the run was under way.
UploadFails(t) ==
  /\ phase[t] = "upload"
  /\ faults < MaxFaults
  /\ faults' = faults + 1
  /\ phase' = [phase EXCEPT ![t] = "failed"]
  /\ batch' = [batch EXCEPT ![t] = NoRows]
  /\ UNCHANGED <<issued, status, stored, leader, wanted, again, seen, runs>>

RequeueInflight(t, timed) ==
  /\ phase[t] = "failed"
  /\ status' = Requeued
  /\ EndRound(t)
  /\ wanted' = IF timed THEN wanted \cup {t} ELSE wanted
  /\ UNCHANGED <<issued, stored, leader, batch, faults, seen, runs>>

-----------------------------------------------------------------------------
RunStep(t) ==
  \/ SelectNothing(t) \/ EndRun(t) \/ SelectRows(t) \/ MarkInflight(t)
  \/ (\E o \in {"applied", "rejected"} : ServerHandles(t, o))
  \/ Receive(t) \/ Settle(t) \/ Finish(t) \/ (\E timed \in BOOLEAN : RequeueInflight(t, timed))

Next ==
  \E t \in Tabs :
    \/ OpenTab(t) \/ Promote(t) \/ CloseTab(t) \/ ShapeEvent(t) \/ Mutate(t)
    \/ DrainCall(t) \/ RunStep(t) \/ UploadFails(t)
    \/ \E m \in Muts : DismissRejected(t, m)

Spec == Init /\ [][Next]_vars

\* Runs go on, a free lock is granted, and the leader's live shape request keeps being
\* answered.  Nobody is made to open a tab, no timer to fire, and a run that failed is
\* not made to start again.
FairSpec ==
  /\ Spec
  /\ \A t \in Tabs : WF_vars(RunStep(t))
  /\ WF_vars(\E t \in Tabs : Promote(t)) /\ WF_vars(\E t \in Tabs : ShapeEvent(t))

-----------------------------------------------------------------------------
(* Properties *)

\* Whatever the tabs do to each other's runs, a row leaves the outbox only
\* because the server applied it or the person dismissed its rejection.
NeverSilentlyDropped ==
  \A m \in 1..issued :
    status[m] = "none" => stored[m] = "applied" \/ (stored[m] = "rejected" /\ m \in seen)

\* Uploads are in seq order: the server never decides a mutation before an earlier
\* one of the same outbox (engine.ts:398, outbox.ts:6), as long as the runs of the tabs
\* do not mix (a follower that mutates uploads too).
DecidedInOrder ==
  ~mixed => \A m \in Muts : stored[m] # "none" => \A k \in 1..m : stored[k] # "none"

\* outbox.ts:89: whatever was in flight is waiting again after a restart or a failed
\* upload.  While some tab leads, a row in flight is one a run carries, unless a
\* follower was closed in the middle of its run.
NothingStranded ==
  (leader # NoTab /\ ~cut) =>
    \A m \in RowsWith("inflight") :
      \E t \in OpenTabs : m \in batch[t].rows \/ phase[t] = "failed"

\* What is queued in any tab is settled in the end, whoever uploads it and whatever
\* fails on the way, as long as a tab stays open and no follower's run was cut.
SettledInTheEnd ==
  \A m \in Muts : (status[m] = "pending" /\ ~cut)
                   ~> (status[m] \in {"none", "rejected"} \/ cut \/ OpenTabs = {})
=============================================================================
