-------------------------- MODULE MutationPipeline --------------------------
(***************************************************************************)
(* The named-mutation pipeline (services/api/src/mutations/pipeline.ts):   *)
(* several requests handle mutations at once, each attempt in a PostgreSQL *)
(* transaction of its own, with row locks, READ COMMITTED reads for most   *)
(* mutations and SERIALIZABLE ones for some, retries, and a rejection      *)
(* recorded after the transaction that produced it rolled back.            *)
(*                                                                         *)
(* A request carries an envelope: a mutation id and its arguments.  What a *)
(* mutation does to the graph is a body: it creates the one contended row, *)
(* updates it from the version it expects (0: any), or has arguments no    *)
(* schema accepts.  A step of a handler is one statement of its            *)
(* transaction.                                                            *)
(***************************************************************************)
EXTENDS Naturals

CONSTANTS
  Workers,        \* requests the API handles at the same time
  Ids,            \* mutation ids
  Args,           \* the arguments an id may come with (their digests)
  Envelopes,      \* what clients send: a mutation id and arguments
  Serializable,   \* the ids of mutations that run serializable
  MaxAttempts     \* MAX_ATTEMPTS

ASSUME MutationPipelineAssumption ==
  /\ Envelopes \subseteq [id : Ids, args : Args]
  /\ Serializable \subseteq Ids
  /\ MaxAttempts \in Nat \ {0}

VARIABLES
  body,      \* what each envelope does to the row (fixed)
  log,       \* graph_mutations, committed: the outcome stored for each id
  row,       \* graph_nodes, committed: the version of the row, 0 when absent
  holder,    \* the transactions that wrote or locked the row, not committed
  claim,     \* the transactions that inserted an id, not committed
  pc,        \* where each handler is
  job,       \* the envelope each handler works on
  attempt,   \* which attempt it is making
  seen,      \* the row in the snapshot a serializable transaction reads from
  answer,    \* the last answer each handler returned, for the envelope in job
  effects    \* history: how often each envelope's effect was committed

tables == <<log, row, holder, claim>>
handlers == <<pc, job, attempt, seen, answer>>
vars == <<body, tables, handlers, effects>>

-----------------------------------------------------------------------------
Bodies == [kind : {"invalid", "create"}] \cup [kind : {"update"}, expects : 0..2]
Stored == [status : {"applied", "rejected"}, args : Args]
NotStored == [status |-> "none"]
Places == {"idle", "lookup", "plan", "authorize", "deny", "apply", "record",
           "commit", "after", "reject", "constraint", "retry"}
Statuses == {"none", "applied", "duplicate", "rejected", "mutation-id-conflict", "error"}
NoSnapshot == 0
NoJob == [id |-> "none"]

TypeOK ==
  /\ body \in [Envelopes -> Bodies]
  /\ log \in [Ids -> Stored \cup {NotStored}]
  /\ row \in Nat
  /\ holder \in SUBSET Workers
  /\ claim \in [Ids -> SUBSET Workers]
  /\ pc \in [Workers -> Places]
  /\ job \in [Workers -> Envelopes \cup {NoJob}]
  /\ attempt \in [Workers -> 1..MaxAttempts]
  /\ seen \in [Workers -> Nat]
  /\ answer \in [Workers -> Statuses]
  /\ effects \in [Envelopes -> Nat]

Init ==
  /\ body \in [Envelopes -> Bodies]
  /\ log = [m \in Ids |-> NotStored]
  /\ row \in {0, 1}
  /\ holder = {}
  /\ claim = [m \in Ids |-> {}]
  /\ pc = [w \in Workers |-> "idle"]
  /\ job = [w \in Workers |-> NoJob]
  /\ attempt = [w \in Workers |-> 1]
  /\ seen = [w \in Workers |-> NoSnapshot]
  /\ answer = [w \in Workers |-> "none"]
  /\ effects = [e \in Envelopes |-> 0]

-----------------------------------------------------------------------------
Id(w) == job[w].id
Body(w) == body[job[w]]
Isolated(w) == Id(w) \in Serializable

Goes(w, place) == pc' = [pc EXCEPT ![w] = place]

\* What a statement of the transaction reads: its snapshot, or what is committed.
RowSeen(w) == IF Isolated(w) THEN seen[w] ELSE row

\* Rollback and commit release what the transaction holds.
Released(w) ==
  /\ holder' = holder \ {w}
  /\ claim' = [m \in Ids |-> claim[m] \ {w}]

\* The handler is done: its transaction and its retry loop are gone.
Ends(w, status) ==
  /\ Goes(w, "idle")
  /\ answer' = [answer EXCEPT ![w] = status]
  /\ attempt' = [attempt EXCEPT ![w] = 1]
  /\ seen' = [seen EXCEPT ![w] = NoSnapshot]

Continues(w, place) == Goes(w, place) /\ UNCHANGED <<answer, attempt, seen>>

-----------------------------------------------------------------------------
\* A request arrives with an envelope: the first one, or a repeat of it.
Receive(w, e) ==
  /\ pc[w] = "idle"
  /\ Goes(w, "lookup")
  /\ job' = [job EXCEPT ![w] = e]
  /\ answer' = [answer EXCEPT ![w] = "none"]
  /\ UNCHANGED <<body, tables, attempt, seen, effects>>

\* Mutant: a stored outcome is replayed whatever arguments it was stored for.
ReplayAnyArgs(w, stored) ==
  IF stored.status = "applied" THEN "duplicate" ELSE "rejected"

\* 1. Idempotency: what the stored outcome of this id answers.
Replay(w, stored) ==
  IF stored.args # job[w].args THEN "mutation-id-conflict"
  ELSE IF stored.status = "applied" THEN "duplicate" ELSE "rejected"

\* The first statement; it fixes the snapshot of a serializable transaction.
Lookup(w) ==
  /\ pc[w] = "lookup"
  /\ IF log[Id(w)] # NotStored
       THEN Ends(w, Replay(w, log[Id(w)]))
       ELSE /\ Goes(w, IF Body(w).kind = "invalid" THEN "reject" ELSE "plan")
            /\ seen' = IF Isolated(w) THEN [seen EXCEPT ![w] = row] ELSE seen
            /\ UNCHANGED <<answer, attempt>>
  /\ UNCHANGED <<body, tables, job, effects>>

\* The implementation's reads: an update needs the row to be there.
ReadPlan(w) ==
  /\ pc[w] = "plan"
  /\ Continues(w, IF Body(w).kind = "update" /\ RowSeen(w) = 0 THEN "reject" ELSE "authorize")
  /\ UNCHANGED <<body, tables, job, effects>>

\* 2. Authorize: what the person may do can change between two attempts.
Authorize(w, allowed) ==
  /\ pc[w] = "authorize"
  /\ Continues(w, IF allowed THEN "apply" ELSE "deny")
  /\ UNCHANGED <<body, tables, job, effects>>

\* Mutant: the rejection is written over what is there.
RejectionWins(w) ==
  log' = [log EXCEPT ![Id(w)] = [status |-> "rejected", args |-> job[w].args]]

\* recordOutcome: insert ... on conflict do nothing.
RecordRejection(w) ==
  log' = IF log[Id(w)] = NotStored
           THEN [log EXCEPT ![Id(w)] = [status |-> "rejected", args |-> job[w].args]]
           ELSE log

\* A denial commits: the audit entry and the outcome, nothing else.  The insert
\* waits for a transaction that has inserted the same id.
Deny(w) ==
  /\ pc[w] = "deny"
  /\ claim[Id(w)] = {}
  /\ IF Isolated(w) /\ log[Id(w)] # NotStored
       THEN Continues(w, "retry") /\ UNCHANGED log
       ELSE RecordRejection(w) /\ Ends(w, "rejected")
  /\ UNCHANGED <<body, row, holder, claim, job, effects>>

\* The version a body was made against is not the row's any more.
Stale(w) == Body(w).kind = "update" /\ Body(w).expects \notin {0, row}

\* Mutant: the version is compared with what the plan read.
VersionUnchecked(w) ==
  IF Body(w).kind = "create" /\ row # 0 THEN "constraint" ELSE "record"

\* What the write meets once nobody else holds the row: the row as committed,
\* which a serializable transaction may not have seen.
WriteMeets(w) ==
  IF Body(w).kind = "create" /\ row # 0 THEN "constraint"
  ELSE IF Isolated(w) /\ row # seen[w] THEN "retry"
  ELSE IF Stale(w) THEN "reject"
  ELSE "record"

\* 3-4. Apply: the write locks the row, or fails and the transaction with it.
Apply(w) ==
  /\ pc[w] = "apply"
  /\ holder = {}
  /\ Continues(w, WriteMeets(w))
  /\ holder' = IF WriteMeets(w) = "record" THEN {w} ELSE {}
  /\ UNCHANGED <<body, log, row, claim, job, effects>>

\* Mutant: a concurrent attempt's log row does not start this one over.
RecordOver(w) ==
  /\ Continues(w, "commit")
  /\ claim' = [claim EXCEPT ![Id(w)] = {w}]
  /\ UNCHANGED holder

\* Mutant: a lost race goes on to the next attempt with the transaction open.
RetriedInside(w) ==
  IF log[Id(w)] = NotStored
    THEN /\ Continues(w, "commit")
         /\ claim' = [claim EXCEPT ![Id(w)] = {w}]
         /\ UNCHANGED holder
    ELSE Continues(w, "retry") /\ UNCHANGED <<holder, claim>>

\* Inserting the applied outcome: a concurrent attempt that won starts it over.
InsertOutcome(w) ==
  IF log[Id(w)] = NotStored
    THEN /\ Continues(w, "commit")
         /\ claim' = [claim EXCEPT ![Id(w)] = {w}]
         /\ UNCHANGED holder
    ELSE Continues(w, "retry") /\ Released(w)

\* 6-7. The audience seam and the mutation log.
Record(w) ==
  /\ pc[w] = "record"
  /\ claim[Id(w)] = {}
  /\ InsertOutcome(w)
  /\ UNCHANGED <<body, log, row, job, effects>>

\* 8. Commit: graph, audit, audience and log together.
Commit(w) ==
  /\ pc[w] = "commit"
  /\ log' = [log EXCEPT ![Id(w)] = [status |-> "applied", args |-> job[w].args]]
  /\ row' = row + 1
  /\ effects' = [effects EXCEPT ![job[w]] = @ + 1]
  /\ Released(w)
  /\ Continues(w, "after")
  /\ UNCHANGED <<body, job>>

\* A serializable transaction may fail at any statement (40001).
SerializationFailure(w) ==
  /\ pc[w] \in {"plan", "authorize", "deny", "apply", "record", "commit"}
  /\ Isolated(w)
  /\ Released(w)
  /\ Continues(w, "retry")
  /\ UNCHANGED <<body, log, row, job, effects>>

\* afterCommit never turns a committed mutation into a failure.
Answer(w) ==
  /\ pc[w] = "after"
  /\ Ends(w, "applied")
  /\ UNCHANGED <<body, tables, job, effects>>

StartOver(w) ==
  /\ Goes(w, "lookup")
  /\ attempt' = [attempt EXCEPT ![w] = @ + 1]
  /\ seen' = [seen EXCEPT ![w] = NoSnapshot]
  /\ UNCHANGED answer

\* Mutant: one attempt too many.
MayRetryOnceMore(w) == attempt[w] <= MaxAttempts

MayRetry(w) == attempt[w] < MaxAttempts

\* A lost race or a serialization failure; the last attempt's error is thrown.
Retry(w) ==
  /\ pc[w] = "retry"
  /\ IF MayRetry(w) THEN StartOver(w) ELSE Ends(w, "error")
  /\ UNCHANGED <<body, tables, job, effects>>

\* A unique violation: the losing side of an attempt at the same mutation, or a
\* real one.
ConstraintViolated(w) ==
  /\ pc[w] = "constraint"
  /\ IF MayRetry(w) /\ log[Id(w)] # NotStored THEN StartOver(w) ELSE Continues(w, "reject")
  /\ UNCHANGED <<body, tables, job, effects>>

\* A rejection is recorded in a small transaction of its own.
Reject(w) ==
  /\ pc[w] = "reject"
  /\ claim[Id(w)] = {}
  /\ RecordRejection(w)
  /\ Ends(w, "rejected")
  /\ UNCHANGED <<body, row, holder, claim, job, effects>>

\* The API process or its connection goes away; an open transaction is rolled back.
Crash(w) ==
  /\ pc[w] # "idle"
  /\ Released(w)
  /\ Ends(w, "none")
  /\ UNCHANGED <<body, log, row, job, effects>>

-----------------------------------------------------------------------------
Handles(w) ==
  \/ Lookup(w) \/ ReadPlan(w) \/ \E allowed \in BOOLEAN : Authorize(w, allowed)
  \/ Deny(w) \/ Apply(w) \/ Record(w) \/ Commit(w) \/ Answer(w)
  \/ Retry(w) \/ ConstraintViolated(w) \/ Reject(w)

Next ==
  \E w \in Workers :
    \/ Handles(w) \/ SerializationFailure(w) \/ Crash(w)
    \/ \E e \in Envelopes : Receive(w, e)

Spec == Init /\ [][Next]_vars

-----------------------------------------------------------------------------
(* Properties *)

\* The graph holds the effect of a mutation exactly when the log says applied,
\* once, and only the effect of the arguments the log names.
AppliedExactlyOnce ==
  \A e \in Envelopes :
    effects[e] = IF log[e.id] = [status |-> "applied", args |-> e.args] THEN 1 ELSE 0

\* A stored outcome is final: no later attempt, with whatever arguments, and no
\* late rejection replaces it.
OutcomeIsFinal ==
  [][\A m \in Ids : log[m] # NotStored => log'[m] = log[m]]_vars

\* No update is lost: an update that was applied met the version it was made
\* against, so two updates of one version are never both applied.
NoLostUpdate ==
  \A e, f \in Envelopes :
    /\ effects[e] > 0 /\ effects[f] > 0 /\ e # f
    /\ body[e].kind = "update" /\ body[e] = body[f]
    => body[e].expects = 0

\* Who was told a mutation is in the workspace was told the truth of the very
\* arguments sent; who was told of an id conflict had sent others.
AnswersAreTrue ==
  \A w \in Workers :
    /\ answer[w] \in {"applied", "duplicate"} =>
         log[Id(w)] = [status |-> "applied", args |-> job[w].args]
    /\ answer[w] = "rejected" => log[Id(w)] # NotStored
    /\ answer[w] = "mutation-id-conflict" =>
         log[Id(w)] # NotStored /\ log[Id(w)].args # job[w].args

\* pipeline.ts:91: "the same mutation_id and arguments return the stored
\* outcome": nobody is told "rejected" of what the log says was applied.
SameAnswerForSameEnvelope ==
  \A w \in Workers :
    answer[w] = "rejected" =>
      log[Id(w)] # [status |-> "applied", args |-> job[w].args]

\* Who a statement waits for: the row's holder, or whoever inserted the id.
WaitsFor(w) ==
  IF pc[w] = "apply" THEN holder
  ELSE IF pc[w] \in {"deny", "record", "reject"} THEN claim[Id(w)]
  ELSE {}

\* Requests never wait in a circle: a wait is for someone who can go on, or who
\* waits for one who can.  Row before log, never the other way around, and a
\* rollback keeps nothing.
NobodyWaitsInACircle ==
  \A w \in Workers : \A v \in WaitsFor(w) : \A u \in WaitsFor(v) : WaitsFor(u) = {}
=============================================================================
