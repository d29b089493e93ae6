----------------------------- MODULE SyncUpload -----------------------------
(***************************************************************************)
(* The upload path of one device: the durable outbox                       *)
(* (sync-client/outbox.ts), the drain loop of its SyncEngine               *)
(* (sync-client/engine.ts), the requests on the wire, and the server that  *)
(* settles each mutation once (mutations/pipeline.ts).                     *)
(*                                                                         *)
(* Mutation m is the m-th row ever appended to the outbox: seq is          *)
(* AUTOINCREMENT, so the numbers are never reused.  The engine runs in one *)
(* SharedWorker; every step below is what happens between two awaits of    *)
(* one of its asynchronous functions.  The server is here the contract of  *)
(* applyMutation (one stored outcome per mutation_id, replayed ever        *)
(* after); module MutationPipeline looks inside it.                        *)
(***************************************************************************)
EXTENDS Naturals, FiniteSets

CONSTANTS
  MaxMutations,   \* bound: the mutations one device queues
  MaxFaults,      \* bound: the failures, restarts and lost requests of a behaviour
  UploadBatch     \* UPLOAD_BATCH: how many rows one request carries

ASSUME SyncUploadAssumption ==
  /\ MaxMutations \in Nat
  /\ MaxFaults \in Nat
  /\ UploadBatch \in Nat \ {0}

Muts == 1..MaxMutations

VARIABLES
  issued,    \* how many rows were ever appended: the last seq
  status,    \* the outbox, durable: the status of each row, "none" when there is none
  stored,    \* graph_mutations, durable: the stored outcome of each mutation
  phase,     \* where the engine's drain run is ("idle": #drainRun is null)
  again,     \* #drainAgain
  calls,     \* drain() calls on their way from asynchronous functions
  timer,     \* #cancelDrainTimer is armed
  wire,      \* the request the drain run is waiting for, or the answer it is applying
  late,      \* requests the client gave up on and the server may still be working through
  faults,    \* how many faults happened (bounded by MaxFaults)
  seen       \* history: the rejections the person dismissed

clientVars == <<issued, status, phase, again, calls, timer, seen>>
vars == <<issued, status, stored, phase, again, calls, timer, wire, late, faults, seen>>

-----------------------------------------------------------------------------
Status == {"none", "pending", "inflight", "rejected"}
Outcomes == {"none", "applied", "rejected"}
Answers == Outcomes \cup {"blocked"}
Phases == {"down", "idle", "select", "upload", "answered", "settle", "failed", "closing"}
\* A drain() call comes straight from a callback, or from an asynchronous function
\* whose last use of the database is queued behind the refresh that closes a run.
Calls == {"free", "queued"}
\* What applyMutations can throw; the first two arm the retry timer.
TimedErrors == {"network", "workspace-mismatch"}
Errors == TimedErrors \cup {"server"}

\* A request: the mutations the server has not reached yet, and the answers so
\* far, which become the response body once todo is empty.
Request == [todo : SUBSET Muts, answers : [Muts -> Answers]]
NoAnswers == [m \in Muts |-> "none"]
NoRequest == [todo |-> {}, answers |-> NoAnswers]

RowsWith(s) == {m \in Muts : status[m] = s}
First(S) == {m \in S : \A k \in S : m <= k}

\* Mutant: newest first.
NewestPending ==
  LET Waiting == RowsWith("pending")
  IN  {m \in Waiting : Cardinality({k \in Waiting : k >= m}) <= UploadBatch}

\* outbox.nextPending(UPLOAD_BATCH): the oldest rows still waiting, in seq order.
NextPending ==
  LET Waiting == RowsWith("pending")
  IN  {m \in Waiting : Cardinality({k \in Waiting : k <= m}) <= UploadBatch}

\* Mutant: the rows of a lost request stay marked.
RequeuedNothing == status

Requeued == [m \in Muts |-> IF status[m] = "inflight" THEN "pending" ELSE status[m]]

TypeOK ==
  /\ issued \in 0..MaxMutations
  /\ status \in [Muts -> Status]
  /\ stored \in [Muts -> Outcomes]
  /\ phase \in Phases
  /\ again \in BOOLEAN
  /\ calls \in SUBSET Calls
  /\ timer \in BOOLEAN
  /\ wire \in Request
  /\ late \in SUBSET Request
  /\ faults \in 0..MaxFaults
  /\ seen \in SUBSET Muts

Init ==
  /\ issued = 0
  /\ status = [m \in Muts |-> "none"]
  /\ stored = [m \in Muts |-> "none"]
  /\ phase = "down"
  /\ again = FALSE
  /\ calls = {}
  /\ timer = FALSE
  /\ wire = NoRequest
  /\ late = {}
  /\ faults = 0
  /\ seen = {}

-----------------------------------------------------------------------------
(* The engine *)

\* #exclusive: the loop over the outcomes holds the database until it is done.
DatabaseFree == phase \notin {"down", "settle"}

\* start() and promote(): whatever was in flight is waiting again, then drain().
Start ==
  /\ phase = "down"
  /\ phase' = "idle"
  /\ status' = Requeued
  /\ calls' = {"free"}
  /\ UNCHANGED <<issued, stored, again, timer, wire, late, faults, seen>>

\* mutate(): the row is appended in the transaction of the optimistic change;
\* the drain() call follows once the state is refreshed, which waits for the
\* database behind the refresh of a run that is closing.
Mutate ==
  /\ DatabaseFree
  /\ issued < MaxMutations
  /\ issued' = issued + 1
  /\ status' = [status EXCEPT ![issued + 1] = "pending"]
  /\ calls' = calls \cup {IF phase = "closing" THEN "queued" ELSE "free"}
  /\ UNCHANGED <<stored, phase, again, timer, wire, late, faults, seen>>

\* onEvents() and notifyOnline() end in a drain() call as well.
ShapeEvent ==
  /\ phase # "down"
  /\ calls' = calls \cup {"free"}
  /\ UNCHANGED <<issued, status, stored, phase, again, timer, wire, late, faults, seen>>

\* drain(): starts a run, or asks the one under way to go around once more.
DrainOrJoin ==
  IF phase = "idle"
    THEN phase' = "select" /\ again' = FALSE
    ELSE again' = TRUE /\ UNCHANGED phase

DrainCall ==
  /\ phase # "down"
  /\ \E c \in calls :
       /\ c = "queued" => phase # "closing"
       /\ calls' = calls \ {c}
  /\ DrainOrJoin
  /\ UNCHANGED <<issued, status, stored, timer, wire, late, faults, seen>>

TimerFires ==
  /\ phase # "down"
  /\ timer
  /\ timer' = FALSE
  /\ DrainOrJoin
  /\ UNCHANGED <<issued, status, stored, calls, wire, late, faults, seen>>

\* drainOnce() is over.  drainLoop goes around if it was asked to, else it
\* refreshes the published state, and only then is #drainRun null again.
LoopOrClose ==
  IF again
    THEN phase' = "select" /\ again' = FALSE
    ELSE phase' = "closing" /\ UNCHANGED again

SelectNothing ==
  /\ phase = "select"
  /\ NextPending = {}
  /\ LoopOrClose
  /\ UNCHANGED <<issued, status, stored, calls, timer, wire, late, faults, seen>>

SelectBatch ==
  /\ phase = "select"
  /\ NextPending # {}
  /\ phase' = "upload"
  /\ status' = [m \in Muts |-> IF m \in NextPending THEN "inflight" ELSE status[m]]
  /\ wire' = [todo |-> NextPending, answers |-> NoAnswers]
  /\ UNCHANGED <<issued, stored, again, calls, timer, late, faults, seen>>

\* The response arrived: the retry state is cleared, the outcomes are applied
\* once the database is free.
ReceiveOutcomes ==
  /\ phase = "upload"
  /\ wire.todo = {}
  /\ phase' = "answered"
  /\ UNCHANGED <<issued, status, stored, again, calls, timer, wire, late, faults, seen>>

\* Mutants: a blocked mutation is treated as rejected; as done; stored as answered.
BlockedAsRejected(answer) == IF answer = "applied" THEN "none" ELSE "rejected"
RejectedAsDone(answer) == IF answer = "blocked" THEN "pending" ELSE "none"
StoredAsAnswered(answer) == answer

BeginSettle ==
  /\ phase = "answered"
  /\ phase' = "settle"
  /\ UNCHANGED <<issued, status, stored, again, calls, timer, wire, late, faults, seen>>

\* What becomes of the row of an answered mutation; the row's optimistic effect is
\* undone when it is rejected (module SyncEngine).
RowAfter(answer) ==
  IF answer = "blocked" THEN "pending" ELSE IF answer = "rejected" THEN "rejected" ELSE "none"

\* One turn of the loop over the outcomes.  The turns share the database lock
\* but no transaction, so a crash can fall between two of them.
SettleOne ==
  /\ phase = "settle"
  /\ \E m \in First({k \in Muts : wire.answers[k] # "none"}) :
       /\ status' = [status EXCEPT ![m] = RowAfter(wire.answers[m])]
       /\ wire' = [todo |-> wire.todo, answers |-> [wire.answers EXCEPT ![m] = "none"]]
  /\ UNCHANGED <<issued, stored, phase, again, calls, timer, late, faults, seen>>

SettleDone ==
  /\ phase = "settle"
  /\ wire.answers = NoAnswers
  /\ phase' = "select"
  /\ UNCHANGED <<issued, status, stored, again, calls, timer, wire, late, faults, seen>>

\* The await threw.  A request nobody waits for any more is lost, or the server
\* goes on working through it ("late").
UploadFails(error, reaches) ==
  /\ phase = "upload"
  /\ faults < MaxFaults
  \* Refused before the first mutation: another workspace is active.
  /\ error = "workspace-mismatch" => wire.answers = NoAnswers
  /\ faults' = faults + 1
  /\ phase' = "failed"
  /\ timer' = (timer \/ error \in TimedErrors)
  /\ late' = IF error = "network" /\ reaches /\ wire.todo # {} THEN late \cup {wire} ELSE late
  /\ wire' = NoRequest
  /\ UNCHANGED <<issued, status, stored, again, calls, seen>>

\* catch: every row in flight is waiting again.
RequeueInflight ==
  /\ phase = "failed"
  /\ status' = Requeued
  /\ LoopOrClose
  /\ UNCHANGED <<issued, stored, calls, timer, wire, late, faults, seen>>

\* Mutant: #drainRun is never reset.
RunNeverClosed == FALSE /\ UNCHANGED vars

CloseRun ==
  /\ phase = "closing"
  /\ phase' = "idle"
  /\ UNCHANGED <<issued, status, stored, again, calls, timer, wire, late, faults, seen>>

\* dismissRejected(): the person clears a rejection the state listed.
DismissRejected(m) ==
  /\ DatabaseFree
  /\ status[m] = "rejected"
  /\ status' = [status EXCEPT ![m] = "none"]
  /\ seen' = seen \cup {m}
  /\ UNCHANGED <<issued, stored, phase, again, calls, timer, wire, late, faults>>

\* The browser or the worker ends: memory is gone, the database is not.
Crash(reaches) ==
  /\ phase # "down"
  /\ faults < MaxFaults
  /\ faults' = faults + 1
  /\ phase' = "down"
  /\ again' = FALSE
  /\ calls' = {}
  /\ timer' = FALSE
  /\ late' = IF phase = "upload" /\ reaches /\ wire.todo # {} THEN late \cup {wire} ELSE late
  /\ wire' = NoRequest
  /\ UNCHANGED <<issued, status, stored, seen>>

-----------------------------------------------------------------------------
(* The server *)

\* Mutant: the lookup of the stored outcome is dropped.
SettledAfresh(m, o) == stored' = [stored EXCEPT ![m] = o]

\* applyMutations() reaches the next mutation of a request: a stored outcome is
\* replayed, otherwise the mutation is settled one way or the other and stored.
SettledAs(m, o) ==
  IF stored[m] # "none" THEN o = stored[m] /\ UNCHANGED stored
                        ELSE stored' = [stored EXCEPT ![m] = o]

\* The first rejection blocks the rest of the request.
AnsweredWith(r, m, o) ==
  IF o = "rejected"
    THEN [todo |-> {},
          answers |-> [k \in Muts |-> IF k = m THEN "rejected"
                                      ELSE IF k \in r.todo THEN "blocked"
                                      ELSE r.answers[k]]]
    ELSE [todo |-> r.todo \ {m}, answers |-> [r.answers EXCEPT ![m] = "applied"]]

ServerHandlesCurrent ==
  /\ phase = "upload"
  /\ \E m \in First(wire.todo), o \in {"applied", "rejected"} :
       /\ SettledAs(m, o)
       /\ wire' = AnsweredWith(wire, m, o)
  /\ UNCHANGED <<clientVars, late, faults>>

\* A request nobody waits for is forgotten once it is worked through.
ServerHandlesLate ==
  /\ \E r \in late : \E m \in First(r.todo), o \in {"applied", "rejected"} :
       /\ SettledAs(m, o)
       /\ LET s == AnsweredWith(r, m, o)
          IN  late' = (late \ {r}) \cup (IF s.todo = {} THEN {} ELSE {s})
  /\ UNCHANGED <<clientVars, wire, faults>>

\* The API process goes away with the request.
ServerDropsLate ==
  /\ \E r \in late : late' = late \ {r}
  /\ UNCHANGED <<clientVars, stored, wire, faults>>

-----------------------------------------------------------------------------
RunStep ==
  \/ SelectNothing \/ SelectBatch \/ ReceiveOutcomes \/ BeginSettle
  \/ SettleOne \/ SettleDone \/ RequeueInflight \/ CloseRun

Next ==
  \/ Start \/ DrainCall \/ RunStep
  \/ Mutate \/ ShapeEvent \/ TimerFires
  \/ \E error \in Errors, reaches \in BOOLEAN : UploadFails(error, reaches)
  \/ \E m \in Muts : DismissRejected(m)
  \/ \E reaches \in BOOLEAN : Crash(reaches)
  \/ ServerHandlesCurrent \/ ServerHandlesLate \/ ServerDropsLate

Spec == Init /\ [][Next]_vars

\* JavaScript runs what is queued, timers fire, the server answers what it accepted,
\* and the live shape request, reopened each time it returns, keeps delivering
\* up-to-date events.
Fairness ==
  /\ WF_vars(Start) /\ WF_vars(DrainCall) /\ WF_vars(RunStep) /\ WF_vars(TimerFires)
  /\ WF_vars(ServerHandlesCurrent) /\ WF_vars(ShapeEvent)

FairSpec == Spec /\ Fairness

-----------------------------------------------------------------------------
(* Properties *)

\* Mutations take effect on the server in the order the person made them
\* (outbox.ts: "uploaded in seq order"), whatever is retried, late or replayed.
DecidedInOrder ==
  \A m \in Muts : stored[m] # "none" => \A k \in 1..m : stored[k] # "none"

\* A row leaves the outbox only because the server applied it, or because the
\* person dismissed the server's rejection of it ("never silently dropped").
NeverSilentlyDropped ==
  \A m \in 1..issued :
    status[m] = "none" => \/ stored[m] = "applied"
                          \/ stored[m] = "rejected" /\ m \in seen

\* The person is shown a rejection only of what the server rejected, and an
\* applied mutation never comes back to the queue once the client knows.
ShownAsDecided ==
  \A m \in Muts : /\ status[m] = "rejected" => stored[m] = "rejected"
                  /\ m \in seen => stored[m] = "rejected" /\ status[m] = "none"

\* No two runs race for the rows: outside a run nothing is left marked inflight
\* (such a row would not be selected again before the next restart).
NothingStranded ==
  phase \in {"idle", "select", "closing"} => RowsWith("inflight") = {}

\* Everything queued is settled and reported in the end.
EventuallyTold ==
  \A m \in Muts : (status[m] = "pending") ~> (status[m] \in {"none", "rejected"})

\* The upload path implements its contract: seen from outside, a mutation waits
\* until the person is told what the workspace decided, in order and once.
View == [m \in Muts |-> IF status[m] \in {"pending", "inflight"} THEN "waiting" ELSE status[m]]
Delivery == INSTANCE MutationDelivery WITH
  submitted <- issued, outcome <- stored, view <- View
ImplementsDelivery == Delivery!DeliverySpec
=============================================================================
