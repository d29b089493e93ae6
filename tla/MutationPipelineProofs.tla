----------------------- MODULE MutationPipelineProofs -----------------------
(***************************************************************************)
(* Proofs about the two parts of a mutation.                               *)
(*                                                                         *)
(* MutationPipeline: whatever the number of requests, ids and              *)
(* attempts, an outcome is final, the graph holds the effect of a mutation *)
(* exactly when the log says so, no update is lost, and nobody is told of  *)
(* an application that did not happen.  The invariant says who holds what: *)
(* the row's lock and the ids' claims belong to the transactions that are  *)
(* past their writes, one each, and a claimed id has no outcome yet.       *)
(*                                                                         *)
(* Interceptor: whatever the members, the Employees, the roles held and    *)
(* the edges drawn, the three properties of the decisions follow from a    *)
(* small invariant and from the tables of the policy and the registry,     *)
(* which are looked into group by group ("The policy, as data").  A walk   *)
(* is the recursive sequence of its layers, about which things are shown   *)
(* by the least layer that would refute them.                              *)
(***************************************************************************)
EXTENDS MCMutationPipeline, FiniteSetTheorems, WellFoundedInduction, TLAPS

\* What an envelope is made of.
LEMMA EnvelopeFields == \A e \in Envelopes : e.id \in Ids /\ e.args \in Args
  BY MutationPipelineAssumption

LEMMA EnvelopesDiffer ==
  \A e, f \in Envelopes : e.id = f.id /\ e.args = f.args => e = f
  BY MutationPipelineAssumption

USE EnvelopeFields

Busy == \A w \in Workers : (pc[w] # "idle" \/ answer[w] # "none") => job[w] \in Envelopes

Answered == \A w \in Workers : answer[w] # "none" => pc[w] = "idle"

Locks ==
  /\ holder = {w \in Workers : pc[w] \in {"record", "commit"}}
  /\ \A v, w \in holder : v = w

Claims ==
  /\ \A m \in Ids : claim[m] = {w \in Workers : pc[w] = "commit" /\ job[w].id = m}
  /\ \A w \in Workers : pc[w] = "commit" => log[job[w].id] = NotStored

\* A transaction past its write holds the version it was made against; an
\* applied update has moved the row beyond its version.
Fresh ==
  /\ \A w \in Workers :
       (pc[w] \in {"record", "commit"} /\ body[job[w]].kind = "update"
         /\ body[job[w]].expects # 0) => row = body[job[w]].expects
  /\ \A e \in Envelopes :
       (effects[e] > 0 /\ body[e].kind = "update") => row > body[e].expects

Committed ==
  \A w \in Workers :
    pc[w] = "after" => log[job[w].id] = [status |-> "applied", args |-> job[w].args]

Inv ==
  /\ TypeOK /\ Busy /\ Answered /\ Locks /\ Claims /\ Fresh
  /\ AppliedExactlyOnce /\ Committed /\ AnswersAreTrue

-----------------------------------------------------------------------------
(* Lemmas *)

\* What is stored is never mistaken for nothing stored.
LEMMA StoredIsNotNothing == NotStored \notin Stored
  BY DEF Stored, NotStored

LEMMA AppliedIsStored ==
  \A a : /\ NotStored # [status |-> "applied", args |-> a]
         /\ [status |-> "applied", args |-> a].status # "rejected"
  BY DEF NotStored

\* The bodies are of three kinds; only updates expect a version.
LEMMA BodyKinds ==
  ASSUME TypeOK, NEW e \in Envelopes
  PROVE  body[e].kind = "update" => body[e].expects \in 0..2
  BY DEF TypeOK, Bodies

\* The handler's own variables stay in their sets, wherever it goes.
HandlerTypes ==
  /\ pc \in [Workers -> Places]
  /\ attempt \in [Workers -> 1..MaxAttempts]
  /\ seen \in [Workers -> Nat]
  /\ answer \in [Workers -> Statuses]

LEMMA EndsKeepsTypes ==
  ASSUME TypeOK, NEW w \in Workers, NEW status \in Statuses, Ends(w, status)
  PROVE  HandlerTypes'
  BY MutationPipelineAssumption
  DEF TypeOK, HandlerTypes, Ends, Goes, Places, NoSnapshot

LEMMA ContinuesKeepsTypes ==
  ASSUME TypeOK, NEW w \in Workers, NEW place \in Places, Continues(w, place)
  PROVE  HandlerTypes'
  BY DEF TypeOK, HandlerTypes, Continues, Goes

LEMMA StartOverKeepsTypes ==
  ASSUME TypeOK, NEW w \in Workers, MayRetry(w), StartOver(w)
  PROVE  HandlerTypes'
<1>1. attempt[w] + 1 \in 1..MaxAttempts
  BY MutationPipelineAssumption DEF TypeOK, MayRetry
<1>2. NoSnapshot \in Nat
  BY DEF NoSnapshot
<1> QED
  BY <1>1, <1>2 DEF TypeOK, HandlerTypes, StartOver, Goes, Places

\* A rejection is recorded only where nothing was stored.
LEMMA RejectionKeepsStored ==
  ASSUME TypeOK, NEW w \in Workers, job[w] \in Envelopes, RecordRejection(w)
  PROVE  /\ log' \in [Ids -> Stored \cup {NotStored}]
         /\ log'[job[w].id] # NotStored
         /\ \A m \in Ids : log[m] # NotStored => log'[m] = log[m]
         /\ \A m \in Ids : log'[m] # log[m] => m = job[w].id
         /\ \A m \in Ids, a \in Args :
              log'[m] = [status |-> "applied", args |-> a]
                <=> log[m] = [status |-> "applied", args |-> a]
<1>1. [status |-> "rejected", args |-> job[w].args] \in Stored
  BY DEF Stored
<1>2. \A a \in Args : [status |-> "rejected", args |-> job[w].args] # [status |-> "applied", args |-> a]
  OBVIOUS
<1>3. \A a \in Args : NotStored # [status |-> "applied", args |-> a]
  BY DEF NotStored
<1> QED
  BY <1>1, <1>2, <1>3, StoredIsNotNothing DEF TypeOK, RecordRejection, Id

\* An answer stays true while what is stored stays, and a new one rests on it.
LEMMA AnswersStayTrue ==
  ASSUME Inv, UNCHANGED job, NEW w \in Workers,
         \A v \in Workers : v # w => answer'[v] = answer[v],
         answer'[w] = "none" \/ (answer'[w] = "rejected" /\ log'[job[w].id] # NotStored),
         \A m \in Ids : log[m] # NotStored => log'[m] = log[m]
  PROVE  AnswersAreTrue'
<1> SUFFICES ASSUME NEW v \in Workers
             PROVE  /\ answer'[v] \in {"applied", "duplicate"} =>
                         log'[job[v].id] = [status |-> "applied", args |-> job[v].args]
                    /\ answer'[v] = "rejected" => log'[job[v].id] # NotStored
                    /\ answer'[v] = "mutation-id-conflict" =>
                         log'[job[v].id] # NotStored /\ log'[job[v].id].args # job[v].args
  BY DEF AnswersAreTrue, Id
<1>1. CASE v = w
  BY <1>1
<1>2. CASE v # w /\ answer[v] # "none"
  <2>1. job[v].id \in Ids
    BY <1>2 DEF Inv, Busy
  <2> QED
    BY <1>2, <2>1, AppliedIsStored DEF Inv, AnswersAreTrue, Id
<1>3. CASE v # w /\ answer[v] = "none"
  BY <1>3
<1> QED
  BY <1>1, <1>2, <1>3

-----------------------------------------------------------------------------
(* The invariant *)

LEMMA InvInit == Init => Inv
<1> SUFFICES ASSUME Init PROVE Inv
  OBVIOUS
<1>1. TypeOK
  BY MutationPipelineAssumption DEF Init, TypeOK, Places, Statuses, NoSnapshot
<1>2. Busy /\ Answered /\ Locks /\ Claims /\ Committed /\ AnswersAreTrue
  BY DEF Init, Busy, Answered, Locks, Claims, Committed, AnswersAreTrue
<1>3. Fresh
  BY DEF Init, Fresh
<1>4. AppliedExactlyOnce
  BY DEF Init, AppliedExactlyOnce, NotStored
<1> QED
  BY <1>1, <1>2, <1>3, <1>4 DEF Inv

LEMMA InvStep == Inv /\ [Next]_vars => Inv'
<1> SUFFICES ASSUME Inv, [Next]_vars PROVE Inv'
  OBVIOUS
<1> USE StoredIsNotNothing
<1>1. CASE UNCHANGED vars
  BY <1>1 DEF vars, tables, handlers, Inv, TypeOK, Busy, Answered, Locks, Claims, Fresh,
              AppliedExactlyOnce, Committed, AnswersAreTrue, Id
<1>2. ASSUME NEW w \in Workers, NEW e \in Envelopes, Receive(w, e)
      PROVE  Inv'
  <2> USE <1>2 DEF Receive, Goes, tables
  <2>1. TypeOK'
    BY DEF Inv, TypeOK, Places, Statuses
  <2>2. Busy' /\ Answered'
    BY DEF Inv, TypeOK, Busy, Answered
  <2>3. Locks' /\ Claims' /\ Fresh'
    BY DEF Inv, TypeOK, Locks, Claims, Fresh
  <2>4. AppliedExactlyOnce' /\ Committed' /\ AnswersAreTrue'
    BY DEF Inv, TypeOK, AppliedExactlyOnce, Committed, AnswersAreTrue, Id
  <2> QED
    BY <2>1, <2>2, <2>3, <2>4 DEF Inv
<1>3. ASSUME NEW w \in Workers, Lookup(w)
      PROVE  Inv'
  <2> USE <1>3 DEF Lookup, Goes, tables, Ends
  <2> job[w] \in Envelopes
    BY DEF Inv, Busy
  <2>1. TypeOK'
    <3>1. CASE log[Id(w)] # NotStored
      <4>1. Replay(w, log[Id(w)]) \in Statuses
        BY DEF Replay, Statuses
      <4> QED
        BY <3>1, <4>1, EndsKeepsTypes DEF Inv, TypeOK, HandlerTypes
    <3>2. CASE log[Id(w)] = NotStored
      BY <3>2 DEF Inv, TypeOK, Places
    <3> QED
      BY <3>1, <3>2
  <2>2. Busy' /\ Answered'
    BY DEF Inv, TypeOK, Busy, Answered
  <2>3. Locks' /\ Claims' /\ Fresh'
    BY DEF Inv, TypeOK, Locks, Claims, Fresh
  <2>4. AppliedExactlyOnce' /\ Committed'
    BY DEF Inv, TypeOK, AppliedExactlyOnce, Committed
  <2>5. AnswersAreTrue'
    BY DEF Inv, TypeOK, AnswersAreTrue, Id, Replay, Answered, Stored
  <2> QED
    BY <2>1, <2>2, <2>3, <2>4, <2>5 DEF Inv
<1>4. ASSUME NEW w \in Workers, ReadPlan(w)
      PROVE  Inv'
  <2> USE <1>4 DEF ReadPlan, Continues, Goes, tables, Id
  <2> job[w] \in Envelopes
    BY DEF Inv, Busy
  <2>1. TypeOK'
    BY MutationPipelineAssumption
    DEF Inv, TypeOK, Places, Statuses, NoSnapshot, Stored
  <2>2. Busy' /\ Answered'
    BY DEF Inv, TypeOK, Busy, Answered
  <2>3. Locks'
    BY DEF Inv, TypeOK, Locks
  <2>4. Claims'
    BY DEF Inv, TypeOK, Claims
  <2>5. Fresh'
    BY BodyKinds DEF Inv, TypeOK, Fresh, Locks
  <2>6. AppliedExactlyOnce'
    BY DEF Inv, TypeOK, AppliedExactlyOnce, Claims, Stored, NotStored
  <2>7. Committed'
    BY DEF Inv, TypeOK, Committed, Claims, Stored, NotStored
  <2>8. AnswersAreTrue'
    BY DEF Inv, TypeOK, AnswersAreTrue, Answered, Committed, Busy, Claims, Stored, NotStored
  <2> QED
    BY <2>1, <2>2, <2>3, <2>4, <2>5, <2>6, <2>7, <2>8 DEF Inv
<1>5. ASSUME NEW w \in Workers, NEW allowed \in BOOLEAN, Authorize(w, allowed)
      PROVE  Inv'
  <2> USE <1>5 DEF Authorize, Continues, Goes, tables, Id
  <2> job[w] \in Envelopes
    BY DEF Inv, Busy
  <2>1. TypeOK'
    BY MutationPipelineAssumption
    DEF Inv, TypeOK, Places, Statuses, NoSnapshot, Stored
  <2>2. Busy' /\ Answered'
    BY DEF Inv, TypeOK, Busy, Answered
  <2>3. Locks'
    BY DEF Inv, TypeOK, Locks
  <2>4. Claims'
    BY DEF Inv, TypeOK, Claims
  <2>5. Fresh'
    BY BodyKinds DEF Inv, TypeOK, Fresh, Locks
  <2>6. AppliedExactlyOnce'
    BY DEF Inv, TypeOK, AppliedExactlyOnce, Claims, Stored, NotStored
  <2>7. Committed'
    BY DEF Inv, TypeOK, Committed, Claims, Stored, NotStored
  <2>8. AnswersAreTrue'
    BY DEF Inv, TypeOK, AnswersAreTrue, Answered, Committed, Busy, Claims, Stored, NotStored
  <2> QED
    BY <2>1, <2>2, <2>3, <2>4, <2>5, <2>6, <2>7, <2>8 DEF Inv
<1>6. ASSUME NEW w \in Workers, Deny(w)
      PROVE  Inv'
  <2> USE <1>6 DEF Deny, Continues, Ends, RecordRejection, Goes, tables, Id
  <2> job[w] \in Envelopes
    BY DEF Inv, Busy
  <2>0. /\ \A m \in Ids : log[m] # NotStored => log'[m] = log[m]
        /\ \A m \in Ids : log'[m] # log[m] => m = job[w].id
        /\ pc'[w] = "idle" => log'[job[w].id] # NotStored
        /\ \A m \in Ids, a \in Args :
             log'[m] = [status |-> "applied", args |-> a]
               <=> log[m] = [status |-> "applied", args |-> a]
    BY RejectionKeepsStored DEF Inv, TypeOK
  <2>1. TypeOK'
    <3>1. HandlerTypes'
      BY EndsKeepsTypes, ContinuesKeepsTypes DEF Inv, Statuses, Places
    <3>2. log' \in [Ids -> Stored \cup {NotStored}]
      BY RejectionKeepsStored DEF Inv, TypeOK
    <3> QED
      BY <3>1, <3>2 DEF Inv, TypeOK, HandlerTypes
  <2>2. Busy' /\ Answered'
    BY DEF Inv, TypeOK, Busy, Answered
  <2>3. Locks'
    BY DEF Inv, TypeOK, Locks
  <2>4. Claims'
    <3>1. claim' = claim /\ \A v \in Workers : pc'[v] = "commit" <=> pc[v] = "commit"
      BY DEF Inv, TypeOK
    <3>2. \A v \in Workers : pc[v] = "commit" => job[v].id # job[w].id
      BY DEF Inv, Claims
    <3>3. \A v \in Workers : pc[v] = "commit" => job[v].id \in Ids
      BY DEF Inv, Busy
    <3> QED
      BY <2>0, <3>1, <3>2, <3>3 DEF Inv, Claims
  <2>5. Fresh'
    BY BodyKinds DEF Inv, TypeOK, Fresh, Locks
  <2>6. AppliedExactlyOnce'
    <3>1. effects' = effects
      OBVIOUS
    <3>2. \A e \in Envelopes :
            log'[e.id] = [status |-> "applied", args |-> e.args]
              <=> log[e.id] = [status |-> "applied", args |-> e.args]
      BY <2>0
    <3> HIDE DEF Deny, Reject, RecordRejection, Continues, Ends, Goes, tables, Id
    <3> QED
      BY <3>1, <3>2 DEF Inv, AppliedExactlyOnce
  <2>7. Committed'
    BY <2>0 DEF Inv, TypeOK, Committed, Busy
  <2>8. AnswersAreTrue'
    <3>1. /\ answer'[w] = "none" \/ (answer'[w] = "rejected" /\ log'[job[w].id] # NotStored)
          /\ \A v \in Workers : v # w => answer'[v] = answer[v]
      BY <2>0 DEF Inv, TypeOK, Answered
    <3> QED
      BY <3>1, <2>0, AnswersStayTrue
  <2> QED
    BY <2>1, <2>2, <2>3, <2>4, <2>5, <2>6, <2>7, <2>8 DEF Inv
<1>7. ASSUME NEW w \in Workers, Apply(w)
      PROVE  Inv'
  <2> USE <1>7 DEF Apply, Continues, Goes, tables, Id
  <2> job[w] \in Envelopes
    BY DEF Inv, Busy
  <2>1. TypeOK'
    BY MutationPipelineAssumption
    DEF Inv, TypeOK, Places, Statuses, NoSnapshot, Stored, WriteMeets, Body
  <2>2. Busy' /\ Answered'
    BY DEF Inv, TypeOK, Busy, Answered
  <2>3. Locks'
    BY DEF Inv, TypeOK, Locks, WriteMeets, Body
  <2>4. Claims'
    BY DEF Inv, TypeOK, Claims, WriteMeets, Body
  <2>5. Fresh'
    BY BodyKinds DEF Inv, TypeOK, Fresh, Locks, WriteMeets, Body, Stale
  <2>6. AppliedExactlyOnce'
    BY DEF Inv, TypeOK, AppliedExactlyOnce, Claims, Stored, NotStored
  <2>7. Committed'
    BY DEF Inv, TypeOK, Committed, Claims, Stored, NotStored, WriteMeets, Body
  <2>8. AnswersAreTrue'
    BY DEF Inv, TypeOK, AnswersAreTrue, Answered, Committed, Busy, Claims, Stored, NotStored
  <2> QED
    BY <2>1, <2>2, <2>3, <2>4, <2>5, <2>6, <2>7, <2>8 DEF Inv
<1>8. ASSUME NEW w \in Workers, Record(w)
      PROVE  Inv'
  <2> USE <1>8 DEF Record, InsertOutcome, Continues, Released, Goes, tables, Id
  <2> job[w] \in Envelopes
    BY DEF Inv, Busy
  <2>1. TypeOK'
    <3>1. HandlerTypes'
      BY ContinuesKeepsTypes DEF Inv, Places
    <3> QED
      BY <3>1 DEF Inv, TypeOK, HandlerTypes
  <2>2. Busy' /\ Answered'
    BY DEF Inv, TypeOK, Busy, Answered
  <2>3. Locks'
    BY DEF Inv, TypeOK, Locks
  <2>4. Claims'
    BY DEF Inv, TypeOK, Claims
  <2>5. Fresh'
    BY BodyKinds DEF Inv, TypeOK, Fresh, Locks
  <2>6. AppliedExactlyOnce'
    BY DEF Inv, TypeOK, AppliedExactlyOnce, Claims, Stored, NotStored
  <2>7. Committed'
    BY DEF Inv, TypeOK, Committed, Claims, Stored, NotStored
  <2>8. AnswersAreTrue'
    BY DEF Inv, TypeOK, AnswersAreTrue, Answered, Committed, Busy, Claims, Stored, NotStored
  <2> QED
    BY <2>1, <2>2, <2>3, <2>4, <2>5, <2>6, <2>7, <2>8 DEF Inv
<1>9. ASSUME NEW w \in Workers, Commit(w)
      PROVE  Inv'
  <2> USE <1>9 DEF Commit, Continues, Released, Goes, tables, Id
  <2> job[w] \in Envelopes
    BY DEF Inv, Busy
  <2>0. log[Id(w)] = NotStored
    BY DEF Inv, Claims
  <2> DEFINE applied == [status |-> "applied", args |-> job[w].args]
  <2>9. \A m \in Ids : log'[m] = IF m = Id(w) THEN applied ELSE log[m]
    BY DEF Inv, TypeOK
  <2>1. TypeOK'
    <3>1. HandlerTypes'
      BY ContinuesKeepsTypes DEF Inv, Places
    <3>2. applied \in Stored
      BY DEF Stored
    <3>3. log' \in [Ids -> Stored \cup {NotStored}]
      BY <3>2 DEF Inv, TypeOK
    <3>4. row' \in Nat /\ effects' \in [Envelopes -> Nat]
      BY DEF Inv, TypeOK
    <3>5. holder' \in SUBSET Workers /\ claim' \in [Ids -> SUBSET Workers]
      BY DEF Inv, TypeOK
    <3> QED
      BY <3>1, <3>3, <3>4, <3>5 DEF Inv, TypeOK, HandlerTypes
  <2>2. Busy' /\ Answered'
    BY DEF Inv, TypeOK, Busy, Answered
  <2>3. Locks'
    BY DEF Inv, TypeOK, Locks
  <2>4. Claims'
    <3>1. \A v \in Workers : pc[v] = "commit" => v = w
      BY DEF Inv, Locks
    <3> QED
      BY <3>1, <2>9 DEF Inv, TypeOK, Claims
  <2>5. Fresh'
    BY BodyKinds DEF Inv, TypeOK, Fresh, Locks
  <2>6. AppliedExactlyOnce'
    <3> SUFFICES ASSUME NEW e \in Envelopes
                 PROVE  effects'[e] = IF log'[e.id] = [status |-> "applied", args |-> e.args]
                                        THEN 1 ELSE 0
      BY DEF AppliedExactlyOnce
    <3>1. CASE e = job[w]
      <4>1. effects[e] = 0
        BY <3>1, <2>0, AppliedIsStored DEF Inv, AppliedExactlyOnce
      <4>2. e.id \in Ids /\ log'[e.id] = [status |-> "applied", args |-> e.args]
        BY <3>1, <2>9
      <4> QED
        BY <3>1, <4>1, <4>2 DEF Inv, TypeOK
    <3>2. CASE e # job[w] /\ e.id = job[w].id
      <4>1. e.args # job[w].args
        BY <3>2, EnvelopesDiffer
      <4> QED
        BY <3>2, <4>1, <2>0, <2>9, AppliedIsStored DEF Inv, TypeOK, AppliedExactlyOnce
    <3>3. CASE e.id # job[w].id
      BY <3>3, <2>9 DEF Inv, TypeOK, AppliedExactlyOnce
    <3> QED
      BY <3>1, <3>2, <3>3
  <2>7. Committed'
    BY DEF Inv, TypeOK, Committed, Claims, Stored, NotStored
  <2>8. AnswersAreTrue'
    <3>1. answer[w] = "none" /\ \A m \in Ids : log[m] # NotStored => log'[m] = log[m]
      BY <2>0, <2>9 DEF Inv, Answered
    <3> QED
      BY <3>1, AnswersStayTrue
  <2> QED
    BY <2>1, <2>2, <2>3, <2>4, <2>5, <2>6, <2>7, <2>8 DEF Inv
<1>10. ASSUME NEW w \in Workers, SerializationFailure(w)
      PROVE  Inv'
  <2> USE <1>10 DEF SerializationFailure, Continues, Released, Goes, tables, Id
  <2> job[w] \in Envelopes
    BY DEF Inv, Busy
  <2>1. TypeOK'
    BY MutationPipelineAssumption
    DEF Inv, TypeOK, Places, Statuses, NoSnapshot, Stored
  <2>2. Busy' /\ Answered'
    BY DEF Inv, TypeOK, Busy, Answered
  <2>3. Locks'
    BY DEF Inv, TypeOK, Locks
  <2>4. Claims'
    BY DEF Inv, TypeOK, Claims
  <2>5. Fresh'
    BY BodyKinds DEF Inv, TypeOK, Fresh, Locks
  <2>6. AppliedExactlyOnce'
    BY DEF Inv, TypeOK, AppliedExactlyOnce, Claims, Stored, NotStored
  <2>7. Committed'
    BY DEF Inv, TypeOK, Committed, Claims, Stored, NotStored
  <2>8. AnswersAreTrue'
    BY DEF Inv, TypeOK, AnswersAreTrue, Answered, Committed, Busy, Claims, Stored, NotStored
  <2> QED
    BY <2>1, <2>2, <2>3, <2>4, <2>5, <2>6, <2>7, <2>8 DEF Inv
<1>11. ASSUME NEW w \in Workers, Answer(w)
      PROVE  Inv'
  <2> USE <1>11 DEF Answer, Ends, Goes, tables, Id
  <2> job[w] \in Envelopes
    BY DEF Inv, Busy
  <2>1. TypeOK'
    BY MutationPipelineAssumption
    DEF Inv, TypeOK, Places, Statuses, NoSnapshot, Stored
  <2>2. Busy' /\ Answered'
    BY DEF Inv, TypeOK, Busy, Answered
  <2>3. Locks'
    BY DEF Inv, TypeOK, Locks
  <2>4. Claims'
    BY DEF Inv, TypeOK, Claims
  <2>5. Fresh'
    BY BodyKinds DEF Inv, TypeOK, Fresh, Locks
  <2>6. AppliedExactlyOnce'
    BY DEF Inv, TypeOK, AppliedExactlyOnce, Claims, Stored, NotStored
  <2>7. Committed'
    BY DEF Inv, TypeOK, Committed, Claims, Stored, NotStored
  <2>8. AnswersAreTrue'
    BY DEF Inv, TypeOK, AnswersAreTrue, Answered, Committed, Busy, Claims, Stored, NotStored
  <2> QED
    BY <2>1, <2>2, <2>3, <2>4, <2>5, <2>6, <2>7, <2>8 DEF Inv
<1>12. ASSUME NEW w \in Workers, Retry(w)
      PROVE  Inv'
  <2> USE <1>12 DEF Retry, StartOver, Ends, Goes, tables, Id
  <2> job[w] \in Envelopes
    BY DEF Inv, Busy
  <2>1. TypeOK'
    <3>1. HandlerTypes'
      BY EndsKeepsTypes, StartOverKeepsTypes DEF Inv, Statuses
    <3> QED
      BY <3>1 DEF Inv, TypeOK, HandlerTypes
  <2>2. Busy' /\ Answered'
    BY DEF Inv, TypeOK, Busy, Answered
  <2>3. Locks'
    BY DEF Inv, TypeOK, Locks
  <2>4. Claims'
    BY DEF Inv, TypeOK, Claims
  <2>5. Fresh'
    BY BodyKinds DEF Inv, TypeOK, Fresh, Locks
  <2>6. AppliedExactlyOnce'
    BY DEF Inv, TypeOK, AppliedExactlyOnce, Claims, Stored, NotStored
  <2>7. Committed'
    BY DEF Inv, TypeOK, Committed, Claims, Stored, NotStored
  <2>8. AnswersAreTrue'
    BY DEF Inv, TypeOK, AnswersAreTrue, Answered, Committed, Busy, Claims, Stored, NotStored
  <2> QED
    BY <2>1, <2>2, <2>3, <2>4, <2>5, <2>6, <2>7, <2>8 DEF Inv
<1>13. ASSUME NEW w \in Workers, ConstraintViolated(w)
      PROVE  Inv'
  <2> USE <1>13 DEF ConstraintViolated, StartOver, Continues, Goes, tables, Id
  <2> job[w] \in Envelopes
    BY DEF Inv, Busy
  <2>1. TypeOK'
    <3>1. HandlerTypes'
      BY ContinuesKeepsTypes, StartOverKeepsTypes DEF Inv, Places
    <3> QED
      BY <3>1 DEF Inv, TypeOK, HandlerTypes
  <2>2. Busy' /\ Answered'
    BY DEF Inv, TypeOK, Busy, Answered
  <2>3. Locks'
    BY DEF Inv, TypeOK, Locks
  <2>4. Claims'
    BY DEF Inv, TypeOK, Claims
  <2>5. Fresh'
    BY BodyKinds DEF Inv, TypeOK, Fresh, Locks
  <2>6. AppliedExactlyOnce'
    BY DEF Inv, TypeOK, AppliedExactlyOnce, Claims, Stored, NotStored
  <2>7. Committed'
    BY DEF Inv, TypeOK, Committed, Claims, Stored, NotStored
  <2>8. AnswersAreTrue'
    BY DEF Inv, TypeOK, AnswersAreTrue, Answered, Committed, Busy, Claims, Stored, NotStored
  <2> QED
    BY <2>1, <2>2, <2>3, <2>4, <2>5, <2>6, <2>7, <2>8 DEF Inv
<1>14. ASSUME NEW w \in Workers, Reject(w)
      PROVE  Inv'
  <2> USE <1>14 DEF Reject, Ends, RecordRejection, Goes, tables, Id
  <2> job[w] \in Envelopes
    BY DEF Inv, Busy
  <2>0. /\ \A m \in Ids : log[m] # NotStored => log'[m] = log[m]
        /\ \A m \in Ids : log'[m] # log[m] => m = job[w].id
        /\ pc'[w] = "idle" => log'[job[w].id] # NotStored
        /\ \A m \in Ids, a \in Args :
             log'[m] = [status |-> "applied", args |-> a]
               <=> log[m] = [status |-> "applied", args |-> a]
    BY RejectionKeepsStored DEF Inv, TypeOK
  <2>1. TypeOK'
    <3>1. HandlerTypes'
      BY EndsKeepsTypes DEF Inv, Statuses, Places
    <3>2. log' \in [Ids -> Stored \cup {NotStored}]
      BY RejectionKeepsStored DEF Inv, TypeOK
    <3> QED
      BY <3>1, <3>2 DEF Inv, TypeOK, HandlerTypes
  <2>2. Busy' /\ Answered'
    BY DEF Inv, TypeOK, Busy, Answered
  <2>3. Locks'
    BY DEF Inv, TypeOK, Locks
  <2>4. Claims'
    <3>1. claim' = claim /\ \A v \in Workers : pc'[v] = "commit" <=> pc[v] = "commit"
      BY DEF Inv, TypeOK
    <3>2. \A v \in Workers : pc[v] = "commit" => job[v].id # job[w].id
      BY DEF Inv, Claims
    <3>3. \A v \in Workers : pc[v] = "commit" => job[v].id \in Ids
      BY DEF Inv, Busy
    <3> QED
      BY <2>0, <3>1, <3>2, <3>3 DEF Inv, Claims
  <2>5. Fresh'
    BY BodyKinds DEF Inv, TypeOK, Fresh, Locks
  <2>6. AppliedExactlyOnce'
    <3>1. effects' = effects
      OBVIOUS
    <3>2. \A e \in Envelopes :
            log'[e.id] = [status |-> "applied", args |-> e.args]
              <=> log[e.id] = [status |-> "applied", args |-> e.args]
      BY <2>0
    <3> HIDE DEF Deny, Reject, RecordRejection, Continues, Ends, Goes, tables, Id
    <3> QED
      BY <3>1, <3>2 DEF Inv, AppliedExactlyOnce
  <2>7. Committed'
    BY <2>0 DEF Inv, TypeOK, Committed, Busy
  <2>8. AnswersAreTrue'
    <3>1. /\ answer'[w] = "none" \/ (answer'[w] = "rejected" /\ log'[job[w].id] # NotStored)
          /\ \A v \in Workers : v # w => answer'[v] = answer[v]
      BY <2>0 DEF Inv, TypeOK, Answered
    <3> QED
      BY <3>1, <2>0, AnswersStayTrue
  <2> QED
    BY <2>1, <2>2, <2>3, <2>4, <2>5, <2>6, <2>7, <2>8 DEF Inv
<1>15. ASSUME NEW w \in Workers, Crash(w)
      PROVE  Inv'
  <2> USE <1>15 DEF Crash, Ends, Released, Goes, tables, Id
  <2> job[w] \in Envelopes
    BY DEF Inv, Busy
  <2>1. TypeOK'
    BY MutationPipelineAssumption
    DEF Inv, TypeOK, Places, Statuses, NoSnapshot, Stored
  <2>2. Busy' /\ Answered'
    BY DEF Inv, TypeOK, Busy, Answered
  <2>3. Locks'
    BY DEF Inv, TypeOK, Locks
  <2>4. Claims'
    BY DEF Inv, TypeOK, Claims
  <2>5. Fresh'
    BY BodyKinds DEF Inv, TypeOK, Fresh, Locks
  <2>6. AppliedExactlyOnce'
    BY DEF Inv, TypeOK, AppliedExactlyOnce, Claims, Stored, NotStored
  <2>7. Committed'
    BY DEF Inv, TypeOK, Committed, Claims, Stored, NotStored
  <2>8. AnswersAreTrue'
    BY DEF Inv, TypeOK, AnswersAreTrue, Answered, Committed, Busy, Claims, Stored, NotStored
  <2> QED
    BY <2>1, <2>2, <2>3, <2>4, <2>5, <2>6, <2>7, <2>8 DEF Inv
<1> QED
  BY <1>1, <1>2, <1>3, <1>4, <1>5, <1>6, <1>7, <1>8, <1>9, <1>10, <1>11, <1>12, <1>13, <1>14, <1>15 DEF Next, Handles

-----------------------------------------------------------------------------
(* The theorems *)

LEMMA InvAlways == Spec => []Inv
  BY InvInit, InvStep, PTL DEF Spec

\* Type correctness.
THEOREM TypeCorrect == Spec => []TypeOK
<1>1. Inv => TypeOK
  BY DEF Inv
<1> QED
  BY <1>1, InvAlways, PTL

\* The graph and the mutation log agree: whatever repeats, races, retries and
\* crashes there are, a mutation's effect is there once exactly when the log has
\* it applied, with those arguments (pipeline.ts: 1, 7, 8).
THEOREM AppliedOnce == Spec => []AppliedExactlyOnce
<1>1. Inv => AppliedExactlyOnce
  BY DEF Inv
<1> QED
  BY <1>1, InvAlways, PTL

\* Nobody is told of an application, or of an id conflict, that is not in the log.
THEOREM TruthfulAnswers == Spec => []AnswersAreTrue
<1>1. Inv => AnswersAreTrue
  BY DEF Inv
<1> QED
  BY <1>1, InvAlways, PTL

-----------------------------------------------------------------------------
(* A stored outcome is never replaced *)

OutcomesKept == \A m \in Ids : log[m] # NotStored => log'[m] = log[m]

LEMMA StepKeepsOutcomes == Inv /\ [Next]_vars => OutcomesKept
<1> SUFFICES ASSUME Inv, [Next]_vars PROVE OutcomesKept
  OBVIOUS
<1>1. CASE UNCHANGED log
  BY <1>1 DEF OutcomesKept
<1>2. ASSUME NEW w \in Workers, Deny(w) \/ Reject(w)
      PROVE  OutcomesKept
  <2>1. job[w] \in Envelopes
    BY <1>2 DEF Inv, Busy, Deny, Reject
  <2>2. RecordRejection(w) \/ UNCHANGED log
    BY <1>2 DEF Deny, Reject
  <2> QED
    BY <2>1, <2>2, RejectionKeepsStored DEF Inv, OutcomesKept
<1>3. ASSUME NEW w \in Workers, Commit(w)
      PROVE  OutcomesKept
  <2>1. job[w] \in Envelopes /\ log[job[w].id] = NotStored
    BY <1>3 DEF Inv, Busy, Claims, Commit
  <2> QED
    BY <1>3, <2>1 DEF Inv, TypeOK, Commit, OutcomesKept, Id
<1> QED
  BY <1>1, <1>2, <1>3
  DEF Next, Handles, vars, tables, Receive, Lookup, ReadPlan, Authorize, Apply, Record,
      SerializationFailure, Answer, Retry, ConstraintViolated, Crash

\* A stored outcome is final: no later attempt, with whatever arguments, and no
\* late rejection replaces it (recordOutcome, pipeline.ts:222).
THEOREM FinalOutcomes == Spec => OutcomeIsFinal
<1>1. OutcomesKept => [OutcomesKept]_vars
  OBVIOUS
<1> QED
  BY <1>1, InvAlways, StepKeepsOutcomes, PTL DEF Spec, OutcomeIsFinal, OutcomesKept

-----------------------------------------------------------------------------
(* No update is lost *)

Undisturbed == Inv /\ NoLostUpdate

LEMMA StepLosesNoUpdate == Undisturbed /\ [Next]_vars => NoLostUpdate'
<1> SUFFICES ASSUME Undisturbed, [Next]_vars,
                    NEW e \in Envelopes, NEW f \in Envelopes,
                    effects'[e] > 0, effects'[f] > 0, e # f,
                    body'[e].kind = "update", body'[e] = body'[f], body'[e].expects # 0
             PROVE  FALSE
  BY DEF NoLostUpdate
<1>1. body' = body
  BY DEF Next, Handles, vars, Receive, Lookup, ReadPlan, Authorize, Deny, Apply, Record, Commit,
         SerializationFailure, Answer, Retry, ConstraintViolated, Reject, Crash
<1>2. CASE UNCHANGED effects
  BY <1>1, <1>2 DEF Undisturbed, NoLostUpdate
<1>3. ASSUME NEW w \in Workers, Commit(w)
      PROVE  FALSE
  <2>1. job[w] \in Envelopes /\ effects' = [effects EXCEPT ![job[w]] = @ + 1]
    BY <1>3 DEF Commit, Undisturbed, Inv, Busy
  <2>2. \A g \in Envelopes : g # job[w] => effects'[g] = effects[g]
    BY <2>1 DEF Undisturbed, Inv, TypeOK
  <2>3. \A g \in Envelopes : (effects[g] > 0 /\ body[g] = body[e]) => job[w] \notin {e, f}
    <3> SUFFICES ASSUME NEW g \in Envelopes, effects[g] > 0, body[g] = body[e], job[w] \in {e, f}
                 PROVE  FALSE
      OBVIOUS
    <3>1. body[job[w]] = body[e]
      BY <1>1
    <3>2. row = body[e].expects
      BY <1>1, <1>3, <3>1 DEF Commit, Undisturbed, Inv, Fresh
    <3>3. row > body[e].expects
      BY <1>1 DEF Undisturbed, Inv, Fresh
    <3>4. row \in Nat
      BY DEF Undisturbed, Inv, TypeOK
    <3> QED
      BY <3>2, <3>3, <3>4
  <2>4. CASE job[w] = e
    BY <1>1, <2>2, <2>3, <2>4
  <2>5. CASE job[w] = f
    BY <1>1, <2>2, <2>3, <2>5
  <2>6. CASE job[w] \notin {e, f}
    BY <1>1, <2>2, <2>6 DEF Undisturbed, NoLostUpdate
  <2> QED
    BY <2>4, <2>5, <2>6
<1> QED
  BY <1>2, <1>3
  DEF Next, Handles, vars, Receive, Lookup, ReadPlan, Authorize, Deny, Apply, Record,
      SerializationFailure, Answer, Retry, ConstraintViolated, Reject, Crash

\* Two updates made against the same version are never both applied: the row is
\* locked before its version is compared (graph/store.ts:392).
THEOREM NoUpdateLost == Spec => []NoLostUpdate
<1>1. Init => NoLostUpdate
  BY DEF Init, NoLostUpdate
<1> QED
  BY <1>1, InvAlways, StepLosesNoUpdate, PTL DEF Spec, Undisturbed

-----------------------------------------------------------------------------
(* Waiting *)

\* Requests never wait in a circle: the row is locked before the log is written
\* (pipeline.ts:270 to :352), and a handler that has written the log waits for
\* nobody.
THEOREM NoCircularWait == Spec => []NobodyWaitsInACircle
<1>1. Inv => NobodyWaitsInACircle
  <2> SUFFICES ASSUME Inv, NEW w \in Workers, NEW v \in WaitsFor(w), NEW u \in WaitsFor(v)
               PROVE  WaitsFor(u) = {}
    BY DEF NobodyWaitsInACircle
  <2>1. \A x \in Workers : pc[x] # "idle" => Id(x) \in Ids
    BY DEF Inv, Busy, Id
  <2>2. \A x \in Workers : WaitsFor(x) # {} => pc[x] \in {"apply", "deny", "record", "reject"}
    BY DEF WaitsFor
  <2>3. \A x \in Workers : \A y \in WaitsFor(x) :
          y \in Workers /\ (pc[y] = "commit" \/ (pc[x] = "apply" /\ pc[y] = "record"))
    BY <2>1, <2>2 DEF WaitsFor, Inv, Locks, Claims
  <2>4. v \in Workers /\ pc[v] = "record"
    BY <2>2, <2>3
  <2>5. u \in Workers /\ pc[u] = "commit"
    BY <2>3, <2>4
  <2> QED
    BY <2>2, <2>5
<1> QED
  BY <1>1, InvAlways, PTL

-----------------------------------------------------------------------------
(* The policy, as data *)

HIDE EnvelopeFields

\* What a cell may grant, and what a cell is: a read of one's own goes with a right to one's own.
Outcomes == {"full", "read", "restricted", "none"}
GoodCell(cell) ==
  /\ cell.outcome \in Outcomes
  /\ cell.scope = "own" => cell.readScope = "own"
GoodRow(cells) == \A role \in Decisions!Roles : GoodCell(cells[role])

\* The cells the policy is written with are such cells.
LEMMA CellsAreGood ==
  /\ \A scope : GoodCell(Decisions!FullFor(scope)) /\ GoodCell(Decisions!ReadFor(scope))
                  /\ GoodCell(Decisions!NoneFor(scope))
  /\ GoodCell(Decisions!Full) /\ GoodCell(Decisions!Read) /\ GoodCell(Decisions!None)
  /\ GoodCell(Decisions!Restricted) /\ GoodCell(Decisions!InSum) /\ GoodCell(Decisions!OwnPost)
  /\ GoodCell(Decisions!ReadByAll(Decisions!FullFor("direct-reports")))
  /\ GoodCell(Decisions!ReadByAll(Decisions!ReadFor("own-plus-team")))
  BY DEF GoodCell, Outcomes, Decisions!FullFor, Decisions!ReadFor, Decisions!NoneFor, Decisions!Full,
         Decisions!Read, Decisions!None, Decisions!Restricted, Decisions!InSum, Decisions!OwnPost,
         Decisions!ReadByAll, Decisions!Cell

\* A row of five good cells is good for every role.
LEMMA RowIsGood ==
  ASSUME NEW c1, NEW c2, NEW c3, NEW c4, NEW c5,
         GoodCell(c1), GoodCell(c2), GoodCell(c3), GoodCell(c4), GoodCell(c5)
  PROVE  GoodRow(Decisions!Row(c1, c2, c3, c4, c5))
  BY DEF GoodRow, Decisions!Row, Decisions!Roles

\* A table of rows, for the parts of a record, with good rows only.
RowsAreGood(table) == \A x \in DOMAIN table : GoodRow(table[x])

\* Adding good rows to a good table leaves it good.
LEMMA EachIsGood ==
  ASSUME NEW names, NEW value, NEW rest, GoodRow(value), RowsAreGood(rest)
  PROVE  RowsAreGood(Decisions!Each(names, value, rest))
<1> SUFFICES ASSUME NEW x \in DOMAIN Decisions!Each(names, value, rest)
             PROVE  GoodRow(Decisions!Each(names, value, rest)[x])
  BY DEF RowsAreGood
<1>1. CASE x \in names
  BY <1>1 DEF Decisions!Each
<1>2. CASE x \notin names
  BY <1>2 DEF RowsAreGood, Decisions!Each
<1> QED
  BY <1>1, <1>2

\* The empty table is good.
LEMMA NoRowsAreGood == RowsAreGood(Decisions!NoRows)
  BY DEF RowsAreGood, Decisions!NoRows

\* Every privacy class has a good row.
LEMMA ClassRowsAreGood == RowsAreGood(Decisions!ClassRows)
  BY CellsAreGood, RowIsGood, EachIsGood, NoRowsAreGood DEF Decisions!ClassRows, Decisions!AdminsOnly

\* A table of record types, each with good rows only.
TableIsGood(table) == \A type \in DOMAIN table : RowsAreGood(table[type])

\* Adding types whose halves have good rows leaves a table good.
LEMMA HalvesAreGood ==
  ASSUME NEW names, NEW value, NEW rest, RowsAreGood(value), TableIsGood(rest)
  PROVE  TableIsGood(Decisions!Halves(names, value, rest))
<1> DEFINE T == Decisions!Halves(names, value, rest)
<1> SUFFICES ASSUME NEW x \in DOMAIN T
             PROVE  RowsAreGood(T[x])
  BY DEF TableIsGood
<1>1. CASE x \in names
  BY <1>1 DEF Decisions!Halves, Decisions!Each
<1>2. CASE x \notin names
  BY <1>2 DEF TableIsGood, Decisions!Halves, Decisions!Each
<1> QED
  BY <1>1, <1>2

\* Adding types that have one good row leaves a table good.
LEMMA RowsGood ==
  ASSUME NEW names, NEW cells, NEW rest, GoodRow(cells), TableIsGood(rest)
  PROVE  TableIsGood(Decisions!Rows(names, cells, rest))
<1>1. RowsAreGood([any |-> cells])
  BY DEF RowsAreGood
<1>2. TableIsGood(Decisions!Halves(names, [any |-> cells], rest))
  BY <1>1, HalvesAreGood
<1> QED
  BY <1>2 DEF Decisions!Rows, Decisions!Halves

\* Two good tables make a good table.
LEMMA JoinedIsGood ==
  ASSUME NEW f, NEW g, TableIsGood(f), TableIsGood(g)
  PROVE  TableIsGood(Decisions!Joined(f, g))
<1> SUFFICES ASSUME NEW x \in DOMAIN Decisions!Joined(f, g)
             PROVE  RowsAreGood(Decisions!Joined(f, g)[x])
  BY DEF TableIsGood
<1>1. CASE x \in DOMAIN f
  BY <1>1 DEF TableIsGood, Decisions!Joined
<1>2. CASE x \notin DOMAIN f
  BY <1>2 DEF TableIsGood, Decisions!Joined
<1> QED
  BY <1>1, <1>2

\* The empty table of types is good.
LEMMA NoTableIsGood == TableIsGood(Decisions!NoRows)
  BY DEF TableIsGood, Decisions!NoRows

\* A type with an exception for one of its halves.
LEMMA OnlyRowIsGood ==
  ASSUME NEW a, GoodRow(a)
  PROVE  RowsAreGood([identifying |-> a]) /\ RowsAreGood([billing |-> a])
  BY DEF RowsAreGood

\* A type with a row for each of its halves.
LEMMA TwoRowsAreGood ==
  ASSUME NEW a, NEW b, GoodRow(a), GoodRow(b)
  PROVE  /\ RowsAreGood([identifying |-> a, content |-> b])
         /\ RowsAreGood([operational |-> a, compensation |-> b])
         /\ RowsAreGood([identifying |-> a, terms |-> b])
         /\ RowsAreGood([identifying |-> a, budget |-> b])
  BY DEF RowsAreGood

\* The four groups of the matrix have good rows only.
LEMMA DeliveryRowsAreGood == TableIsGood(Decisions!DeliveryRows)
  BY CellsAreGood, RowIsGood, OnlyRowIsGood, TwoRowsAreGood, HalvesAreGood, RowsGood, NoTableIsGood
     DEF Decisions!DeliveryRows, Decisions!OpenToRead

LEMMA SignalRowsAreGood == TableIsGood(Decisions!SignalRows)
  BY CellsAreGood, RowIsGood, OnlyRowIsGood, TwoRowsAreGood, HalvesAreGood, RowsGood, NoTableIsGood
     DEF Decisions!SignalRows, Decisions!AdminsOnly

LEMMA PeopleRowsAreGood == TableIsGood(Decisions!PeopleRows)
  BY CellsAreGood, RowIsGood, OnlyRowIsGood, TwoRowsAreGood, HalvesAreGood, RowsGood, NoTableIsGood
     DEF Decisions!PeopleRows, Decisions!AdminsOnly

LEMMA OtherRowsAreGood == TableIsGood(Decisions!OtherRows)
  BY CellsAreGood, RowIsGood, OnlyRowIsGood, TwoRowsAreGood, HalvesAreGood, RowsGood, NoTableIsGood
     DEF Decisions!OtherRows, Decisions!AdminsOnly

\* So has the matrix.
LEMMA MatrixIsGood == TableIsGood(Decisions!Matrix)
  BY DeliveryRowsAreGood, SignalRowsAreGood, PeopleRowsAreGood, OtherRowsAreGood, JoinedIsGood DEF Decisions!Matrix

\* The privacy classes of the registry.
Classes == {"Standard", "Finance-restricted", "Self and Finance-restricted", "HR-restricted",
            "Manager-restricted", "Owner and HR Admin only", "HR Admin only", "Owner only",
            "Sensitive", "Self only", "Self-only, absolute", "Recipient-only"}

\* The policy has a row for each of them.
LEMMA ClassesAre == \A class \in Classes : class \in DOMAIN Decisions!ClassRows
<1>1. "Standard" \in DOMAIN Decisions!ClassRows
  BY DEF Decisions!ClassRows, Decisions!Each, Decisions!NoRows
<1>2. "Finance-restricted" \in DOMAIN Decisions!ClassRows
  BY DEF Decisions!ClassRows, Decisions!Each, Decisions!NoRows
<1>3. "Self and Finance-restricted" \in DOMAIN Decisions!ClassRows
  BY DEF Decisions!ClassRows, Decisions!Each, Decisions!NoRows
<1>4. "HR-restricted" \in DOMAIN Decisions!ClassRows
  BY DEF Decisions!ClassRows, Decisions!Each, Decisions!NoRows
<1>5. "Manager-restricted" \in DOMAIN Decisions!ClassRows
  BY DEF Decisions!ClassRows, Decisions!Each, Decisions!NoRows
<1>6. "Owner and HR Admin only" \in DOMAIN Decisions!ClassRows
  BY DEF Decisions!ClassRows, Decisions!Each, Decisions!NoRows
<1>7. "HR Admin only" \in DOMAIN Decisions!ClassRows
  BY DEF Decisions!ClassRows, Decisions!Each, Decisions!NoRows
<1>8. "Owner only" \in DOMAIN Decisions!ClassRows
  BY DEF Decisions!ClassRows, Decisions!Each, Decisions!NoRows
<1>9. "Sensitive" \in DOMAIN Decisions!ClassRows
  BY DEF Decisions!ClassRows, Decisions!Each, Decisions!NoRows
<1>10. "Self only" \in DOMAIN Decisions!ClassRows
  BY DEF Decisions!ClassRows, Decisions!Each, Decisions!NoRows
<1>11. "Self-only, absolute" \in DOMAIN Decisions!ClassRows
  BY DEF Decisions!ClassRows, Decisions!Each, Decisions!NoRows
<1>12. "Recipient-only" \in DOMAIN Decisions!ClassRows
  BY DEF Decisions!ClassRows, Decisions!Each, Decisions!NoRows
<1> QED
  BY <1>1, <1>2, <1>3, <1>4, <1>5, <1>6, <1>7, <1>8, <1>9, <1>10, <1>11, <1>12 DEF Classes

\* A registry whose records have classes the policy knows.
PartsAreGood(parts) == \A key \in DOMAIN parts : parts[key].class \in Classes
RegistryIsGood(table) == \A type \in DOMAIN table : PartsAreGood(table[type])

\* Adding such records leaves it so.
LEMMA EachPartsGood ==
  ASSUME NEW names, NEW value, NEW rest, PartsAreGood(value), RegistryIsGood(rest)
  PROVE  RegistryIsGood(Decisions!Each(names, value, rest))
<1> SUFFICES ASSUME NEW x \in DOMAIN Decisions!Each(names, value, rest)
             PROVE  PartsAreGood(Decisions!Each(names, value, rest)[x])
  BY DEF RegistryIsGood
<1>1. CASE x \in names
  BY <1>1 DEF Decisions!Each
<1>2. CASE x \notin names
  BY <1>2 DEF RegistryIsGood, Decisions!Each
<1> QED
  BY <1>1, <1>2

\* Two such registries make one.
LEMMA JoinedPartsGood ==
  ASSUME NEW f, NEW g, RegistryIsGood(f), RegistryIsGood(g)
  PROVE  RegistryIsGood(Decisions!Joined(f, g))
<1> SUFFICES ASSUME NEW x \in DOMAIN Decisions!Joined(f, g)
             PROVE  PartsAreGood(Decisions!Joined(f, g)[x])
  BY DEF RegistryIsGood
<1>1. CASE x \in DOMAIN f
  BY <1>1 DEF RegistryIsGood, Decisions!Joined
<1>2. CASE x \notin DOMAIN f
  BY <1>2 DEF RegistryIsGood, Decisions!Joined
<1> QED
  BY <1>1, <1>2

\* The empty registry is one, and what inherits its policy has no part of its own.
LEMMA NoPartsGood == RegistryIsGood(Decisions!NoRows) /\ PartsAreGood(Decisions!Inherited)
  BY DEF RegistryIsGood, Decisions!NoRows, PartsAreGood, Decisions!Inherited

\* A record in one part has its class.
LEMMA FixedIsGood ==
  ASSUME NEW class \in Classes, NEW tier
  PROVE  PartsAreGood(Decisions!Fixed(class, tier))
  BY DEF PartsAreGood, Decisions!Fixed, Decisions!Half

\* A record in two halves has a class for each.
LEMMA SplitIsGood ==
  ASSUME NEW key1, NEW class1 \in Classes, NEW tier1, NEW key2, NEW class2 \in Classes, NEW tier2
  PROVE  PartsAreGood(Decisions!Split(key1, class1, tier1, key2, class2, tier2))
  BY DEF PartsAreGood, Decisions!Split, Decisions!Half

\* The groups of the node registry have known classes only.
LEMMA NodesAreGood ==
  /\ RegistryIsGood(Decisions!IdentityNodes) /\ RegistryIsGood(Decisions!CapacityNodes)
  /\ RegistryIsGood(Decisions!PeopleNodes) /\ RegistryIsGood(Decisions!RecruitmentNodes)
  /\ RegistryIsGood(Decisions!SignalNodes) /\ RegistryIsGood(Decisions!FinanceNodes)
  /\ RegistryIsGood(Decisions!DevelopmentNodes) /\ RegistryIsGood(Decisions!PlatformNodes)
  /\ RegistryIsGood(Decisions!ProjectsNodes)
<1>0. /\ PartsAreGood(Decisions!Standard)
      /\ \A class \in Classes : \A tier : PartsAreGood(Decisions!Fixed(class, tier))
  BY FixedIsGood DEF Decisions!Standard, Classes
<1>1. RegistryIsGood(Decisions!IdentityNodes)
  BY <1>0, SplitIsGood, NoPartsGood, EachPartsGood DEF Classes, Decisions!IdentityNodes
<1>2. RegistryIsGood(Decisions!CapacityNodes)
  BY <1>0, SplitIsGood, NoPartsGood, EachPartsGood DEF Classes, Decisions!CapacityNodes
<1>3. RegistryIsGood(Decisions!PeopleNodes)
  BY <1>0, SplitIsGood, NoPartsGood, EachPartsGood DEF Classes, Decisions!PeopleNodes
<1>4. RegistryIsGood(Decisions!RecruitmentNodes)
  BY <1>0, SplitIsGood, NoPartsGood, EachPartsGood DEF Classes, Decisions!RecruitmentNodes
<1>5. RegistryIsGood(Decisions!SignalNodes)
  BY <1>0, SplitIsGood, NoPartsGood, EachPartsGood DEF Classes, Decisions!SignalNodes
<1>6. RegistryIsGood(Decisions!FinanceNodes)
  BY <1>0, SplitIsGood, NoPartsGood, EachPartsGood DEF Classes, Decisions!FinanceNodes
<1>7. RegistryIsGood(Decisions!DevelopmentNodes)
  BY <1>0, SplitIsGood, NoPartsGood, EachPartsGood DEF Classes, Decisions!DevelopmentNodes
<1>8. RegistryIsGood(Decisions!PlatformNodes)
  BY <1>0, SplitIsGood, NoPartsGood, EachPartsGood DEF Classes, Decisions!PlatformNodes
<1>9. RegistryIsGood(Decisions!ProjectsNodes)
  BY <1>0, SplitIsGood, NoPartsGood, EachPartsGood DEF Classes, Decisions!ProjectsNodes
<1> QED
  BY <1>1, <1>2, <1>3, <1>4, <1>5, <1>6, <1>7, <1>8, <1>9

\* So has the node registry.
LEMMA NodeRegistryIsGood == RegistryIsGood(Decisions!NodeRegistry)
  BY NodesAreGood, JoinedPartsGood DEF Decisions!NodeRegistry

\* Whatever the role, the type and the part, the policy has a good cell.
LEMMA PolicyCellIsGood ==
  ASSUME NEW role \in Decisions!Roles, NEW type \in Decisions!NodeTypes,
         NEW key \in DOMAIN Decisions!Partitions(type)
  PROVE  GoodCell(Decisions!PolicyCell(role, type, key))
<1>1. GoodCell(Decisions!NoneFor("inherited-unresolvable"))
  BY CellsAreGood
<1>2. CASE type \in Decisions!InheritedTypes
  BY <1>1, <1>2 DEF Decisions!PolicyCell
<1>3. CASE type \notin Decisions!InheritedTypes
  <2>1. GoodRow(Decisions!RowIn(Decisions!Matrix, type, key))
    <3>1. CASE type \in DOMAIN Decisions!Matrix /\ key \in DOMAIN Decisions!Matrix[type]
      BY <3>1, MatrixIsGood DEF TableIsGood, RowsAreGood, Decisions!RowIn
    <3>2. CASE /\ ~(type \in DOMAIN Decisions!Matrix /\ key \in DOMAIN Decisions!Matrix[type])
               /\ type \in DOMAIN Decisions!Matrix /\ "any" \in DOMAIN Decisions!Matrix[type]
      BY <3>2, MatrixIsGood DEF TableIsGood, RowsAreGood, Decisions!RowIn
    <3>3. CASE /\ ~(type \in DOMAIN Decisions!Matrix /\ key \in DOMAIN Decisions!Matrix[type])
               /\ ~(type \in DOMAIN Decisions!Matrix /\ "any" \in DOMAIN Decisions!Matrix[type])
      <4>1. Decisions!Partitions(type)[key].class \in DOMAIN Decisions!ClassRows
        BY NodeRegistryIsGood, ClassesAre
           DEF RegistryIsGood, PartsAreGood, Decisions!Partitions, Decisions!NodeTypes
      <4> QED
        BY <3>3, <4>1, ClassRowsAreGood DEF RowsAreGood, Decisions!RowIn
    <3> QED
      BY <3>1, <3>2, <3>3
  <2> QED
    BY <1>3, <2>1 DEF GoodRow, Decisions!PolicyCell
<1> QED
  BY <1>2, <1>3

-----------------------------------------------------------------------------
\* The records that have a subject who may not read them are all-or-nothing by role.
LEMMA ExcludedRows ==
  ASSUME NEW type \in {"HRCase", "CaseEvent"}
  PROVE  /\ type \in DOMAIN Decisions!Matrix
         /\ Decisions!Matrix[type] =
              [identifying |-> Decisions!AdminsOnly, content |-> Decisions!AdminsOnly]
         /\ DOMAIN Decisions!Partitions(type) = {"identifying", "content"}
<1>1. type \notin DOMAIN Decisions!DeliveryRows /\ type \notin DOMAIN Decisions!SignalRows
  BY DEF Decisions!DeliveryRows, Decisions!SignalRows, Decisions!Each, Decisions!Rows,
         Decisions!Halves, Decisions!NoRows
<1>2. /\ type \in DOMAIN Decisions!PeopleRows
      /\ Decisions!PeopleRows[type] =
           [identifying |-> Decisions!AdminsOnly, content |-> Decisions!AdminsOnly]
  BY DEF Decisions!PeopleRows, Decisions!Each, Decisions!Rows, Decisions!Halves, Decisions!NoRows
<1>3. type \notin DOMAIN Decisions!IdentityNodes /\ type \notin DOMAIN Decisions!CapacityNodes
  BY DEF Decisions!IdentityNodes, Decisions!CapacityNodes, Decisions!Each, Decisions!NoRows
<1>4. /\ type \in DOMAIN Decisions!PeopleNodes
      /\ DOMAIN Decisions!PeopleNodes[type] = {"identifying", "content"}
  BY DEF Decisions!PeopleNodes, Decisions!Each, Decisions!NoRows, Decisions!Split
<1>5. type \in DOMAIN Decisions!Matrix /\ Decisions!Matrix[type] = Decisions!PeopleRows[type]
  BY <1>1, <1>2 DEF Decisions!Matrix, Decisions!Joined
<1>6. Decisions!NodeRegistry[type] = Decisions!PeopleNodes[type]
  BY <1>3, <1>4 DEF Decisions!NodeRegistry, Decisions!Joined
<1> QED
  BY <1>2, <1>4, <1>5, <1>6 DEF Decisions!Partitions

\* For them no role is limited in scope, and a manager has nothing.
LEMMA ExcludedCells ==
  ASSUME NEW role \in Decisions!Roles, NEW type, Decisions!HasExclusion(type),
         NEW key \in DOMAIN Decisions!Partitions(type)
  PROVE  /\ Decisions!PolicyCell(role, type, key).scope = "any"
         /\ role = "manager" => Decisions!PolicyCell(role, type, key).outcome = "none"
<1>1. type \in {"HRCase", "CaseEvent"}
  BY DEF Decisions!HasExclusion, Decisions!SubjectPath
<1>2. type \notin Decisions!InheritedTypes
  BY <1>1 DEF Decisions!InheritedTypes
<1>3. Decisions!RowIn(Decisions!Matrix, type, key) = Decisions!AdminsOnly
  BY <1>1, ExcludedRows DEF Decisions!RowIn
<1>4. Decisions!PolicyCell(role, type, key) = Decisions!AdminsOnly[role]
  BY <1>2, <1>3 DEF Decisions!PolicyCell
<1> QED
  BY <1>4 DEF Decisions!Roles, Decisions!AdminsOnly, Decisions!Row, Decisions!Full, Decisions!None,
              Decisions!FullFor, Decisions!NoneFor, Decisions!Cell

\* The node types, group by group.
LEMMA NodeTypesAre ==
  /\ Decisions!NodeTypes =
       DOMAIN Decisions!IdentityNodes \cup DOMAIN Decisions!CapacityNodes \cup
       DOMAIN Decisions!PeopleNodes \cup DOMAIN Decisions!RecruitmentNodes \cup
       DOMAIN Decisions!SignalNodes \cup DOMAIN Decisions!FinanceNodes \cup
       DOMAIN Decisions!DevelopmentNodes \cup DOMAIN Decisions!PlatformNodes \cup DOMAIN Decisions!ProjectsNodes
  /\ DOMAIN Decisions!IdentityNodes =
       {"LeaveLedgerEntry", "User", "WorkspaceMembership", "Device", "Entity",
        "WorkingCalendar", "Holiday", "WorkingPattern", "Workspace"}
  /\ DOMAIN Decisions!CapacityNodes =
       {"Candidate", "GhostResource", "Assignment", "Project", "Client", "OpenRole", "Skill",
        "Employee", "Pitch"}
  /\ DOMAIN Decisions!PeopleNodes =
       {"LeavePolicy", "LeaveRequest", "Asset", "Certification", "TrainingRecord", "SubVendor",
        "Policy", "PolicyAcknowledgment", "Document", "WellnessTriggerEvent", "Contract",
        "SignatureRequest", "Departure", "WorkAuthorization", "HRCase", "CaseEvent",
        "OrgScenario"}
  /\ DOMAIN Decisions!RecruitmentNodes =
       {"JobPosting", "Referral", "DraftHiringRecord", "HeadcountPlan", "Requisition",
        "TalentPool", "InterviewRound", "FeedbackEntry", "Offer", "BackgroundCheckProvider",
        "BackgroundCheckRecord"}
  /\ DOMAIN Decisions!SignalNodes =
       {"TimesheetEntry", "TimesheetWeekSubmission", "UtilizationSnapshot", "RevenueGapAlert",
        "SkillGap", "PulseCycle", "PulseAggregateContribution", "SharedCoffeeMoment",
        "WellnessAggregateContribution", "TimesheetAnomalyFlag", "BurnoutAlert",
        "ProbationCheckIn", "PulseEntry", "CoffeePulseEntry", "FlightRiskSignal",
        "HeadcountSnapshot"}
  /\ DOMAIN Decisions!FinanceNodes =
       {"Expense", "ApprovalStage", "RateCard", "RateCardLine", "CompensationBand",
        "CompensationChange", "PayrollPolicy", "PayRun", "TaxConfig", "ExchangeRate",
        "DisbursementBatch", "DisbursementInstruction", "Invoice", "PaySlip"}
  /\ DOMAIN Decisions!DevelopmentNodes =
       {"OnboardingTemplate", "OnboardingPlan", "OnboardingTask", "ReviewCycle", "CareerPath",
        "CareerMilestone", "DevelopmentGoal", "ReviewEntry"}
  /\ DOMAIN Decisions!PlatformNodes =
       {"ReportDefinition", "BenchmarkReference", "ApplicationActivation",
        "CustomFieldDefinition", "Insight", "ReportRun", "CustomFieldValue", "GraphReference",
        "Notification", "AuditEntry", "ImportBatch", "RetentionPolicy", "ErasureRequest",
        "BriefingNode", "BenchmarkRange", "IntegrationConfig", "ClientPortalAccess"}
  /\ DOMAIN Decisions!ProjectsNodes =
       {"Deliverable", "Task", "Brief", "Approval", "RevisionRound", "ProjectTemplate",
        "ClientStakeholder", "ChangeOrder", "ProjectBudget", "BillingMilestone"}
<1>1. DOMAIN Decisions!IdentityNodes =
        {"LeaveLedgerEntry", "User", "WorkspaceMembership", "Device", "Entity",
         "WorkingCalendar", "Holiday", "WorkingPattern", "Workspace"}
  BY DEF Decisions!IdentityNodes, Decisions!Each, Decisions!NoRows
<1>2. DOMAIN Decisions!CapacityNodes =
        {"Candidate", "GhostResource", "Assignment", "Project", "Client", "OpenRole", "Skill",
         "Employee", "Pitch"}
  BY DEF Decisions!CapacityNodes, Decisions!Each, Decisions!NoRows
<1>3. DOMAIN Decisions!PeopleNodes =
        {"LeavePolicy", "LeaveRequest", "Asset", "Certification", "TrainingRecord",
         "SubVendor", "Policy", "PolicyAcknowledgment", "Document", "WellnessTriggerEvent",
         "Contract", "SignatureRequest", "Departure", "WorkAuthorization", "HRCase",
         "CaseEvent", "OrgScenario"}
  BY DEF Decisions!PeopleNodes, Decisions!Each, Decisions!NoRows
<1>4. DOMAIN Decisions!RecruitmentNodes =
        {"JobPosting", "Referral", "DraftHiringRecord", "HeadcountPlan", "Requisition",
         "TalentPool", "InterviewRound", "FeedbackEntry", "Offer", "BackgroundCheckProvider",
         "BackgroundCheckRecord"}
  BY DEF Decisions!RecruitmentNodes, Decisions!Each, Decisions!NoRows
<1>5. DOMAIN Decisions!SignalNodes =
        {"TimesheetEntry", "TimesheetWeekSubmission", "UtilizationSnapshot", "RevenueGapAlert",
         "SkillGap", "PulseCycle", "PulseAggregateContribution", "SharedCoffeeMoment",
         "WellnessAggregateContribution", "TimesheetAnomalyFlag", "BurnoutAlert",
         "ProbationCheckIn", "PulseEntry", "CoffeePulseEntry", "FlightRiskSignal",
         "HeadcountSnapshot"}
  BY DEF Decisions!SignalNodes, Decisions!Each, Decisions!NoRows
<1>6. DOMAIN Decisions!FinanceNodes =
        {"Expense", "ApprovalStage", "RateCard", "RateCardLine", "CompensationBand",
         "CompensationChange", "PayrollPolicy", "PayRun", "TaxConfig", "ExchangeRate",
         "DisbursementBatch", "DisbursementInstruction", "Invoice", "PaySlip"}
  BY DEF Decisions!FinanceNodes, Decisions!Each, Decisions!NoRows
<1>7. DOMAIN Decisions!DevelopmentNodes =
        {"OnboardingTemplate", "OnboardingPlan", "OnboardingTask", "ReviewCycle", "CareerPath",
         "CareerMilestone", "DevelopmentGoal", "ReviewEntry"}
  BY DEF Decisions!DevelopmentNodes, Decisions!Each, Decisions!NoRows
<1>8. DOMAIN Decisions!PlatformNodes =
        {"ReportDefinition", "BenchmarkReference", "ApplicationActivation",
         "CustomFieldDefinition", "Insight", "ReportRun", "CustomFieldValue", "GraphReference",
         "Notification", "AuditEntry", "ImportBatch", "RetentionPolicy", "ErasureRequest",
         "BriefingNode", "BenchmarkRange", "IntegrationConfig", "ClientPortalAccess"}
  BY DEF Decisions!PlatformNodes, Decisions!Each, Decisions!NoRows
<1>9. DOMAIN Decisions!ProjectsNodes =
        {"Deliverable", "Task", "Brief", "Approval", "RevisionRound", "ProjectTemplate",
         "ClientStakeholder", "ChangeOrder", "ProjectBudget", "BillingMilestone"}
  BY DEF Decisions!ProjectsNodes, Decisions!Each, Decisions!NoRows
<1>10. Decisions!NodeTypes =
       DOMAIN Decisions!IdentityNodes \cup DOMAIN Decisions!CapacityNodes \cup
       DOMAIN Decisions!PeopleNodes \cup DOMAIN Decisions!RecruitmentNodes \cup
       DOMAIN Decisions!SignalNodes \cup DOMAIN Decisions!FinanceNodes \cup
       DOMAIN Decisions!DevelopmentNodes \cup DOMAIN Decisions!PlatformNodes \cup DOMAIN Decisions!ProjectsNodes
  BY DEF Decisions!NodeTypes, Decisions!NodeRegistry, Decisions!Joined
<1> QED
  BY <1>1, <1>2, <1>3, <1>4, <1>5, <1>6, <1>7, <1>8, <1>9, <1>10

\* What an edge group may name: a node type, or one of the groups of node types.
Endpoints ==
  Decisions!NodeTypes \cup {Decisions!NonAnonymousNode, Decisions!MentionableNode,
                           Decisions!CustomFieldEnabledNode, Decisions!ImportableNode}

\* The types the edge groups name are node types.
LEMMA EndpointsAre ==
  ASSUME NEW type \in
           {"WorkspaceMembership", "User", "Workspace", "Device", "Employee", "Entity",
            "WorkingCalendar", "WorkingPattern", "Holiday", "Notification", "Assignment",
            "Project", "Pitch", "Client", "GhostResource", "OpenRole", "TimesheetEntry",
            "PayRun", "Invoice", "SubVendor", "Skill", "CareerMilestone", "Requisition",
            "Certification", "TrainingRecord", "SkillGap", "Candidate", "HeadcountPlan",
            "JobPosting", "TalentPool", "Referral", "InterviewRound", "FeedbackEntry", "Offer",
            "BackgroundCheckRecord", "Contract", "SignatureRequest", "HRCase",
            "WorkAuthorization", "PaySlip", "Document", "LeaveRequest", "Asset", "Departure",
            "OnboardingPlan", "PolicyAcknowledgment", "Policy", "CaseEvent", "OrgScenario",
            "ReviewEntry", "ReviewCycle", "PulseEntry", "PulseCycle",
            "PulseAggregateContribution", "DevelopmentGoal", "CoffeePulseEntry",
            "WellnessTriggerEvent", "ProbationCheckIn", "BurnoutAlert", "FlightRiskSignal",
            "RevenueGapAlert", "TimesheetAnomalyFlag", "Insight", "RateCard", "LeavePolicy",
            "PayrollPolicy", "TaxConfig", "CompensationBand", "CompensationChange",
            "ApprovalStage", "DisbursementBatch", "DisbursementInstruction", "Expense",
            "GraphReference", "CustomFieldValue", "CustomFieldDefinition", "ImportBatch",
            "ErasureRequest"}
  PROVE  type \in Endpoints
  BY NodeTypesAre DEF Endpoints
\* The halves that govern edges.
IsHalf(type, key) ==
  \/ type = "Employee" /\ key = "operational"
  \/ type \in {"Pitch", "Requisition"} /\ key = "identifying"
  \/ type = "Workspace" /\ key = "display"
\* What WellFormedGroup asks of an edge group.
GoodGroup(group) ==
  /\ \A pair \in group.pairs : pair[1] \in Endpoints /\ pair[2] \in Endpoints
  /\ \A t \in DOMAIN group.governing :
       /\ \E pair \in group.pairs : t = pair[1] \/ t = pair[2]
       /\ IsHalf(t, group.governing[t])
\* A registry of good groups.
GroupsAreGood(table) == \A edge \in DOMAIN table : GoodGroup(table[edge])

\* One pair of endpoints, with no half that governs, is a good group.
LEMMA PairIsGood ==
  ASSUME NEW a \in Endpoints, NEW b \in Endpoints
  PROVE  GoodGroup(Decisions!Plain({<<a, b>>}))
  BY DEF GoodGroup, Decisions!Plain, Decisions!Governed, Decisions!Group, Decisions!NoPartitions

\* So are the pairs of two sets of endpoints.
LEMMA PairsAreGood ==
  ASSUME NEW A, NEW B, A \subseteq Endpoints, B \subseteq Endpoints
  PROVE  GoodGroup(Decisions!Plain(A \X B))
  BY DEF GoodGroup, Decisions!Plain, Decisions!Governed, Decisions!Group, Decisions!NoPartitions

\* So is one pair whose ends are governed by halves they have.
LEMMA GovernedIsGood ==
  ASSUME NEW a \in Endpoints, NEW b \in Endpoints, NEW governing,
         \A t \in DOMAIN governing : t \in {a, b} /\ IsHalf(t, governing[t])
  PROVE  GoodGroup(Decisions!Governed({<<a, b>>}, governing))
<1> DEFINE group == Decisions!Governed({<<a, b>>}, governing)
<1>1. group.pairs = {<<a, b>>} /\ group.governing = governing
  BY DEF Decisions!Governed, Decisions!Group
<1>2. ASSUME NEW t \in {a, b} PROVE \E pair \in {<<a, b>>} : t = pair[1] \/ t = pair[2]
  <2>1. <<a, b>>[1] = a /\ <<a, b>>[2] = b
    OBVIOUS
  <2> QED
    BY <2>1
<1>3. \A pair \in {<<a, b>>} : pair[1] \in Endpoints /\ pair[2] \in Endpoints
  OBVIOUS
<1> HIDE DEF group
<1>4. GoodGroup(group)
  BY <1>1, <1>2, <1>3 DEF GoodGroup
<1> QED
  BY <1>4 DEF group

\* So are the pairs of two sets whose members are.
LEMMA ProductIsGood ==
  ASSUME NEW A, NEW B, A \subseteq Endpoints, B \subseteq Endpoints, A # {}, B # {},
         NEW governing, NEW readable,
         \A t \in DOMAIN governing : t \in A \cup B /\ IsHalf(t, governing[t])
  PROVE  GoodGroup(Decisions!Group(A \X B, governing, readable))
<1> DEFINE group == Decisions!Group(A \X B, governing, readable)
<1>1. group.pairs = A \X B /\ group.governing = governing
  BY DEF Decisions!Group
<1>2. ASSUME NEW t \in A \cup B PROVE \E pair \in A \X B : t = pair[1] \/ t = pair[2]
  <2>1. PICK a \in A, b \in B : t = a \/ t = b
    OBVIOUS
  <2>2. <<a, b>> \in A \X B /\ <<a, b>>[1] = a /\ <<a, b>>[2] = b
    OBVIOUS
  <2> QED
    BY <2>1, <2>2
<1>3. \A pair \in A \X B : pair[1] \in Endpoints /\ pair[2] \in Endpoints
  OBVIOUS
<1> HIDE DEF group
<1>4. GoodGroup(group)
  BY <1>1, <1>2, <1>3 DEF GoodGroup
<1> QED
  BY <1>4 DEF group

\* The groups of node types are endpoints.
LEMMA OtherEndpoints ==
  /\ Decisions!NonAnonymousNode \in Endpoints /\ Decisions!MentionableNode \in Endpoints
  /\ Decisions!CustomFieldEnabledNode \in Endpoints /\ Decisions!ImportableNode \in Endpoints
  BY DEF Endpoints

\* The edge groups of each part of the registry are good.
LEMMA StructureEdgesGood == GroupsAreGood(Decisions!StructureEdges)
<1>1. /\ "WorkspaceMembership" \in Endpoints /\ "User" \in Endpoints /\ "Workspace" \in Endpoints
      /\ "Device" \in Endpoints /\ "Employee" \in Endpoints /\ "Entity" \in Endpoints
      /\ "WorkingCalendar" \in Endpoints /\ "WorkingPattern" \in Endpoints
      /\ "Holiday" \in Endpoints /\ "Notification" \in Endpoints
  BY EndpointsAre
<1>2. GoodGroup(Decisions!Governed({<<"WorkspaceMembership", "Workspace">>}, [Workspace |->
        "display"]))
  BY <1>1, GovernedIsGood DEF IsHalf
<1>3. GoodGroup(Decisions!Governed({<<"Employee", "Employee">>}, [Employee |-> "operational"]))
  BY <1>1, GovernedIsGood DEF IsHalf
<1>4. GoodGroup(Decisions!Governed({<<"Employee", "Entity">>}, [Employee |-> "operational"]))
  BY <1>1, GovernedIsGood DEF IsHalf
<1>5. GoodGroup(Decisions!Governed({<<"WorkingPattern", "Employee">>}, [Employee |->
        "operational"]))
  BY <1>1, GovernedIsGood DEF IsHalf
<1> QED
  BY <1>1, <1>2, <1>3, <1>4, <1>5, PairIsGood, OtherEndpoints DEF GroupsAreGood, Decisions!StructureEdges

LEMMA DeliveryEdgesGood == GroupsAreGood(Decisions!DeliveryEdges)
<1>1. /\ "Assignment" \in Endpoints /\ "Employee" \in Endpoints /\ "Project" \in Endpoints
      /\ "Pitch" \in Endpoints /\ "Client" \in Endpoints /\ "GhostResource" \in Endpoints
      /\ "OpenRole" \in Endpoints /\ "TimesheetEntry" \in Endpoints /\ "PayRun" \in Endpoints
      /\ "Invoice" \in Endpoints /\ "SubVendor" \in Endpoints
  BY EndpointsAre
<1>2. GoodGroup(Decisions!Governed({<<"Assignment", "Employee">>}, [Employee |->
        "operational"]))
  BY <1>1, GovernedIsGood DEF IsHalf
<1>3. GoodGroup(Decisions!Group({<<"Assignment", "Project">>}, Decisions!NoPartitions,
        {"Project"}))
  BY <1>1 DEF GoodGroup, IsHalf, Decisions!Plain, Decisions!Governed, Decisions!Group,
             Decisions!NoPartitions
<1>4. GoodGroup(Decisions!Governed({<<"Employee", "Pitch">>}, [Employee |-> "operational", Pitch
        |-> "identifying"]))
  BY <1>1, GovernedIsGood DEF IsHalf
<1>5. GoodGroup(Decisions!Governed({<<"GhostResource", "Employee">>}, [Employee |->
        "operational"]))
  BY <1>1, GovernedIsGood DEF IsHalf
<1>6. GoodGroup(Decisions!Group({"TimesheetEntry"} \X {"Assignment", "Pitch"}, [Pitch |->
        "identifying"], {"Assignment"}))
  <2> DEFINE A == {"TimesheetEntry"}
             B == {"Assignment", "Pitch"}
             governing == [Pitch |-> "identifying"]
  <2>1. A \subseteq Endpoints /\ B \subseteq Endpoints /\ A # {} /\ B # {}
    BY <1>1
  <2>2. \A t \in DOMAIN governing : t \in A \cup B /\ IsHalf(t, governing[t])
    BY DEF IsHalf
  <2> HIDE DEF A, B, governing
  <2>3. \A readable : GoodGroup(Decisions!Group(A \X B, governing, readable))
    BY <2>1, <2>2, ProductIsGood
  <2> QED
    BY <2>3 DEF A, B, governing
<1>7. GoodGroup(Decisions!Plain({"TimesheetEntry"} \X {"PayRun", "Invoice"}))
  BY <1>1, PairsAreGood
<1> QED
  BY <1>1, <1>2, <1>3, <1>4, <1>5, <1>6, <1>7, PairIsGood, OtherEndpoints DEF GroupsAreGood, Decisions!DeliveryEdges

LEMMA SkillEdgesGood == GroupsAreGood(Decisions!SkillEdges)
<1>1. /\ "Employee" \in Endpoints /\ "Skill" \in Endpoints /\ "Project" \in Endpoints
      /\ "OpenRole" \in Endpoints /\ "Pitch" \in Endpoints /\ "CareerMilestone" \in Endpoints
      /\ "Requisition" \in Endpoints /\ "Certification" \in Endpoints
      /\ "TrainingRecord" \in Endpoints /\ "SkillGap" \in Endpoints
  BY EndpointsAre
<1>2. GoodGroup(Decisions!Governed({<<"Employee", "Skill">>}, [Employee |-> "operational"]))
  BY <1>1, GovernedIsGood DEF IsHalf
<1>3. GoodGroup(Decisions!Group({"Project", "OpenRole", "Pitch", "CareerMilestone",
        "Requisition"} \X {"Skill"}, [Pitch |-> "identifying", Requisition |-> "identifying"],
        {"Project"}))
  <2> DEFINE A == {"Project", "OpenRole", "Pitch", "CareerMilestone", "Requisition"}
             B == {"Skill"}
             governing == [Pitch |-> "identifying", Requisition |-> "identifying"]
  <2>1. A \subseteq Endpoints /\ B \subseteq Endpoints /\ A # {} /\ B # {}
    BY <1>1
  <2>2. \A t \in DOMAIN governing : t \in A \cup B /\ IsHalf(t, governing[t])
    BY DEF IsHalf
  <2> HIDE DEF A, B, governing
  <2>3. \A readable : GoodGroup(Decisions!Group(A \X B, governing, readable))
    BY <2>1, <2>2, ProductIsGood
  <2> QED
    BY <2>3 DEF A, B, governing
<1>4. GoodGroup(Decisions!Governed({<<"Employee", "Certification">>}, [Employee |->
        "operational"]))
  BY <1>1, GovernedIsGood DEF IsHalf
<1> QED
  BY <1>1, <1>2, <1>3, <1>4, PairIsGood, OtherEndpoints DEF GroupsAreGood, Decisions!SkillEdges

LEMMA RecruitmentEdgesGood == GroupsAreGood(Decisions!RecruitmentEdges)
<1>1. /\ "Employee" \in Endpoints /\ "Candidate" \in Endpoints /\ "OpenRole" \in Endpoints
      /\ "Requisition" \in Endpoints /\ "HeadcountPlan" \in Endpoints
      /\ "JobPosting" \in Endpoints /\ "TalentPool" \in Endpoints /\ "Referral" \in Endpoints
      /\ "InterviewRound" \in Endpoints /\ "FeedbackEntry" \in Endpoints /\ "Offer" \in Endpoints
      /\ "BackgroundCheckRecord" \in Endpoints
  BY EndpointsAre
<1> QED
  BY <1>1, PairIsGood, OtherEndpoints DEF GroupsAreGood, Decisions!RecruitmentEdges

LEMMA HrEdgesGood == GroupsAreGood(Decisions!HrEdges)
<1>1. /\ "Employee" \in Endpoints /\ "Contract" \in Endpoints /\ "SignatureRequest" \in Endpoints
      /\ "Offer" \in Endpoints /\ "HRCase" \in Endpoints /\ "WorkAuthorization" \in Endpoints
      /\ "BackgroundCheckRecord" \in Endpoints /\ "PaySlip" \in Endpoints
      /\ "Document" \in Endpoints /\ "LeaveRequest" \in Endpoints /\ "Asset" \in Endpoints
      /\ "Departure" \in Endpoints /\ "OnboardingPlan" \in Endpoints
      /\ "PolicyAcknowledgment" \in Endpoints /\ "Policy" \in Endpoints
      /\ "CaseEvent" \in Endpoints /\ "OrgScenario" \in Endpoints /\ "Workspace" \in Endpoints
  BY EndpointsAre
<1>2. GoodGroup(Decisions!Plain({"Contract", "Offer", "HRCase", "WorkAuthorization",
        "BackgroundCheckRecord", "PaySlip"} \X {"Document"}))
  BY <1>1, PairsAreGood
<1> QED
  BY <1>1, <1>2, PairIsGood, OtherEndpoints DEF GroupsAreGood, Decisions!HrEdges

LEMMA SignalEdgesGood == GroupsAreGood(Decisions!SignalEdges)
<1>1. /\ "Employee" \in Endpoints /\ "ReviewEntry" \in Endpoints /\ "ReviewCycle" \in Endpoints
      /\ "PulseEntry" \in Endpoints /\ "PulseCycle" \in Endpoints
      /\ "PulseAggregateContribution" \in Endpoints /\ "CareerMilestone" \in Endpoints
      /\ "DevelopmentGoal" \in Endpoints /\ "CoffeePulseEntry" \in Endpoints
      /\ "WellnessTriggerEvent" \in Endpoints /\ "ProbationCheckIn" \in Endpoints
      /\ "BurnoutAlert" \in Endpoints /\ "FlightRiskSignal" \in Endpoints
      /\ "RevenueGapAlert" \in Endpoints /\ "TimesheetAnomalyFlag" \in Endpoints
      /\ "Insight" \in Endpoints
  BY EndpointsAre
<1>2. GoodGroup(Decisions!Plain({<<"ReviewEntry", "ReviewCycle">>, <<"PulseEntry",
        "PulseCycle">>, <<"PulseAggregateContribution", "PulseCycle">>}))
  BY <1>1 DEF GoodGroup, IsHalf, Decisions!Plain, Decisions!Governed, Decisions!Group,
             Decisions!NoPartitions
<1>3. GoodGroup(Decisions!Plain({"PulseEntry", "CoffeePulseEntry"} \X {"Employee"}))
  BY <1>1, PairsAreGood
<1>4. GoodGroup(Decisions!Plain({"BurnoutAlert", "FlightRiskSignal", "RevenueGapAlert",
        "TimesheetAnomalyFlag"} \X {"Employee"}))
  BY <1>1, PairsAreGood
<1> QED
  BY <1>1, <1>2, <1>3, <1>4, PairIsGood, OtherEndpoints DEF GroupsAreGood, Decisions!SignalEdges

LEMMA FinanceEdgesGood == GroupsAreGood(Decisions!FinanceEdges)
<1>1. /\ "Assignment" \in Endpoints /\ "RateCard" \in Endpoints /\ "Employee" \in Endpoints
      /\ "LeavePolicy" \in Endpoints /\ "PayRun" \in Endpoints /\ "PayrollPolicy" \in Endpoints
      /\ "TaxConfig" \in Endpoints /\ "CompensationBand" \in Endpoints
      /\ "CompensationChange" \in Endpoints /\ "Requisition" \in Endpoints
      /\ "Offer" \in Endpoints /\ "ApprovalStage" \in Endpoints /\ "PaySlip" \in Endpoints
      /\ "Invoice" \in Endpoints /\ "DisbursementBatch" \in Endpoints
      /\ "DisbursementInstruction" \in Endpoints /\ "SubVendor" \in Endpoints
      /\ "Project" \in Endpoints /\ "Expense" \in Endpoints
  BY EndpointsAre
<1>2. GoodGroup(Decisions!Plain({<<"Assignment", "RateCard">>, <<"Employee", "LeavePolicy">>,
        <<"PayRun", "PayrollPolicy">>, <<"PayRun", "TaxConfig">>}))
  BY <1>1 DEF GoodGroup, IsHalf, Decisions!Plain, Decisions!Governed, Decisions!Group,
             Decisions!NoPartitions
<1>3. GoodGroup(Decisions!Plain({"PayRun", "CompensationChange", "Requisition", "Offer"} \X
        {"ApprovalStage"}))
  BY <1>1, PairsAreGood
<1>4. GoodGroup(Decisions!Plain({"PaySlip", "Invoice"} \X {"DisbursementBatch"}))
  BY <1>1, PairsAreGood
<1>5. GoodGroup(Decisions!Plain({"Invoice"} \X {"Employee", "SubVendor"}))
  BY <1>1, PairsAreGood
<1> QED
  BY <1>1, <1>2, <1>3, <1>4, <1>5, PairIsGood, OtherEndpoints DEF GroupsAreGood, Decisions!FinanceEdges

LEMMA PlatformEdgesGood == GroupsAreGood(Decisions!PlatformEdges)
<1>1. /\ "RateCard" \in Endpoints /\ "LeavePolicy" \in Endpoints /\ "TaxConfig" \in Endpoints
      /\ "Policy" \in Endpoints /\ "WorkingCalendar" \in Endpoints
      /\ "CompensationBand" \in Endpoints /\ "GraphReference" \in Endpoints
      /\ "CustomFieldValue" \in Endpoints /\ "CustomFieldDefinition" \in Endpoints
      /\ "ImportBatch" \in Endpoints /\ "ErasureRequest" \in Endpoints
      /\ "Employee" \in Endpoints /\ "Candidate" \in Endpoints
  BY EndpointsAre
<1>2. GoodGroup(Decisions!Plain({<<t, t>> : t \in {"RateCard", "LeavePolicy", "TaxConfig",
        "Policy", "WorkingCalendar", "CompensationBand"}}))
  BY <1>1 DEF GoodGroup, IsHalf, Decisions!Plain, Decisions!Governed, Decisions!Group,
             Decisions!NoPartitions
<1>3. GoodGroup(Decisions!Plain({"ErasureRequest"} \X {"Employee", "Candidate"}))
  BY <1>1, PairsAreGood
<1> QED
  BY <1>1, <1>2, <1>3, PairIsGood, OtherEndpoints DEF GroupsAreGood, Decisions!PlatformEdges

\* Two registries of good groups make one.
LEMMA JoinedGroupsGood ==
  ASSUME NEW f, NEW g, GroupsAreGood(f), GroupsAreGood(g)
  PROVE  GroupsAreGood(Decisions!Joined(f, g))
<1> SUFFICES ASSUME NEW x \in DOMAIN Decisions!Joined(f, g)
             PROVE  GoodGroup(Decisions!Joined(f, g)[x])
  BY DEF GroupsAreGood
<1>1. CASE x \in DOMAIN f
  BY <1>1 DEF GroupsAreGood, Decisions!Joined
<1>2. CASE x \notin DOMAIN f
  BY <1>2 DEF GroupsAreGood, Decisions!Joined
<1> QED
  BY <1>1, <1>2

\* The edge registry has good groups only.
LEMMA EdgeRegistryGood == GroupsAreGood(Decisions!EdgeRegistry)
  BY StructureEdgesGood, DeliveryEdgesGood, SkillEdgesGood, RecruitmentEdgesGood, HrEdgesGood,
     SignalEdgesGood, FinanceEdgesGood, PlatformEdgesGood, JoinedGroupsGood
     DEF Decisions!EdgeRegistry

\* A half that governs is a half its type has.
LEMMA HalvesAre ==
  ASSUME NEW type, NEW key, IsHalf(type, key)
  PROVE  /\ type \in Decisions!NodeTypes /\ Decisions!IsSplit(type)
         /\ key \in DOMAIN Decisions!Partitions(type)
<1>1. /\ "Workspace" \in DOMAIN Decisions!IdentityNodes
      /\ DOMAIN Decisions!IdentityNodes["Workspace"] = {"display", "billing"}
  BY DEF Decisions!IdentityNodes, Decisions!Each, Decisions!Split, Decisions!NoRows
<1>2. /\ "Employee" \in DOMAIN Decisions!CapacityNodes
      /\ DOMAIN Decisions!CapacityNodes["Employee"] = {"operational", "compensation"}
  BY DEF Decisions!CapacityNodes, Decisions!Each, Decisions!Split, Decisions!NoRows
<1>3. /\ "Pitch" \in DOMAIN Decisions!CapacityNodes
      /\ DOMAIN Decisions!CapacityNodes["Pitch"] = {"identifying", "commercial"}
  BY DEF Decisions!CapacityNodes, Decisions!Each, Decisions!Split, Decisions!NoRows
<1>4. /\ "Requisition" \in DOMAIN Decisions!RecruitmentNodes
      /\ DOMAIN Decisions!RecruitmentNodes["Requisition"] = {"identifying", "budget"}
  BY DEF Decisions!RecruitmentNodes, Decisions!Each, Decisions!Split, Decisions!NoRows
<1>5. /\ Decisions!NodeRegistry["Workspace"] = Decisions!IdentityNodes["Workspace"]
      /\ Decisions!NodeRegistry["Employee"] = Decisions!CapacityNodes["Employee"]
      /\ Decisions!NodeRegistry["Pitch"] = Decisions!CapacityNodes["Pitch"]
      /\ Decisions!NodeRegistry["Requisition"] = Decisions!RecruitmentNodes["Requisition"]
  BY <1>1, <1>2, <1>3, <1>4, NodeTypesAre DEF Decisions!NodeRegistry, Decisions!Joined
<1>6. type \in Decisions!NodeTypes
  BY NodeTypesAre DEF IsHalf
<1>7. \A t : Decisions!IsSplit(t) <=> DOMAIN Decisions!NodeRegistry[t] \notin {{}, {"record"}}
  BY DEF Decisions!IsSplit, Decisions!Partitions
<1>8. /\ DOMAIN Decisions!NodeRegistry[type] \notin {{}, {"record"}}
      /\ key \in DOMAIN Decisions!NodeRegistry[type]
  BY <1>1, <1>2, <1>3, <1>4, <1>5 DEF IsHalf
<1> QED
  BY <1>6, <1>7, <1>8 DEF Decisions!Partitions

\* Every registered edge joins registered types, and is governed by halves they have.
LEMMA GroupsAreWellFormed ==
  ASSUME NEW edge \in DOMAIN Decisions!EdgeRegistry
  PROVE  Decisions!WellFormedGroup(edge)
<1> DEFINE group == Decisions!EdgeRegistry[edge]
           Mentioned == UNION {{pair[1], pair[2]} : pair \in group.pairs}
<1>1. GoodGroup(group)
  BY EdgeRegistryGood DEF GroupsAreGood
<1>2. Mentioned \subseteq Endpoints
  BY <1>1 DEF GoodGroup
<1>3. ASSUME NEW t \in DOMAIN group.governing
      PROVE  /\ t \in Mentioned /\ Decisions!IsSplit(t)
             /\ group.governing[t] \in DOMAIN Decisions!Partitions(t)
  BY <1>1, HalvesAre DEF GoodGroup
<1> QED
  BY <1>2, <1>3 DEF Decisions!WellFormedGroup, Endpoints

\* Types of which the mutations write records that are not split.
WholeTypes ==
  {"Entity", "WorkingPattern", "WorkingCalendar", "Holiday", "Skill", "Assignment", "Project",
   "GhostResource", "OpenRole", "LeavePolicy", "TimesheetEntry", "TimesheetAnomalyFlag",
   "RevenueGapAlert", "SkillGap", "RateCard", "Notification"}

\* They have one part, the record.
LEMMA WholeTypesAre ==
  ASSUME NEW type \in WholeTypes
  PROVE  type \in Decisions!NodeTypes /\ DOMAIN Decisions!Partitions(type) = {"record"}
<1>1. \A class, tier : DOMAIN Decisions!Fixed(class, tier) = {"record"}
  BY DEF Decisions!Fixed
<1>2. DOMAIN Decisions!Standard = {"record"}
  BY <1>1 DEF Decisions!Standard
<1>3. type \in Decisions!NodeTypes
  BY NodeTypesAre DEF WholeTypes
<1>4. CASE type \in {"Entity", "WorkingPattern", "WorkingCalendar", "Holiday"}
  <2>1. /\ type \in DOMAIN Decisions!IdentityNodes
        /\ Decisions!IdentityNodes[type] = Decisions!Standard
    BY <1>4 DEF Decisions!IdentityNodes, Decisions!Each
  <2>2. Decisions!NodeRegistry[type] = Decisions!Standard
    BY <2>1 DEF Decisions!NodeRegistry, Decisions!Joined
  <2> QED
    BY <1>2, <1>3, <2>2 DEF Decisions!Partitions
<1>5. CASE type \in {"Skill", "Assignment", "Project", "GhostResource", "OpenRole"}
  <2>1. /\ type \in DOMAIN Decisions!CapacityNodes
        /\ Decisions!CapacityNodes[type] = Decisions!Standard
    BY <1>5 DEF Decisions!CapacityNodes, Decisions!Each
  <2>2. Decisions!NodeRegistry[type] = Decisions!Standard
    BY <1>5, <2>1, NodeTypesAre DEF Decisions!NodeRegistry, Decisions!Joined
  <2> QED
    BY <1>2, <1>3, <2>2 DEF Decisions!Partitions
<1>6. CASE type = "LeavePolicy"
  <2>1. /\ type \in DOMAIN Decisions!PeopleNodes
        /\ Decisions!PeopleNodes[type] = Decisions!Standard
    BY <1>6 DEF Decisions!PeopleNodes, Decisions!Each
  <2>2. Decisions!NodeRegistry[type] = Decisions!Standard
    BY <1>6, <2>1, NodeTypesAre DEF Decisions!NodeRegistry, Decisions!Joined
  <2> QED
    BY <1>2, <1>3, <2>2 DEF Decisions!Partitions
<1>7. CASE type \in {"TimesheetEntry", "TimesheetAnomalyFlag", "RevenueGapAlert", "SkillGap"}
  <2>1. /\ type \in DOMAIN Decisions!SignalNodes
        /\ Decisions!SignalNodes[type] \in
             {Decisions!Standard, Decisions!Fixed("Manager-restricted", 2)}
    BY <1>7 DEF Decisions!SignalNodes, Decisions!Each
  <2>2. Decisions!NodeRegistry[type] = Decisions!SignalNodes[type]
    BY <1>7, <2>1, NodeTypesAre DEF Decisions!NodeRegistry, Decisions!Joined
  <2> QED
    BY <1>1, <1>2, <1>3, <2>1, <2>2 DEF Decisions!Partitions
<1>8. CASE type = "RateCard"
  <2>1. /\ type \in DOMAIN Decisions!FinanceNodes
        /\ Decisions!FinanceNodes[type] = Decisions!Fixed("Finance-restricted", 1)
    BY <1>8 DEF Decisions!FinanceNodes, Decisions!Each
  <2>2. Decisions!NodeRegistry[type] = Decisions!FinanceNodes[type]
    BY <1>8, <2>1, NodeTypesAre DEF Decisions!NodeRegistry, Decisions!Joined
  <2> QED
    BY <1>1, <1>3, <2>1, <2>2 DEF Decisions!Partitions
<1>9. CASE type = "Notification"
  <2>1. /\ type \in DOMAIN Decisions!PlatformNodes
        /\ Decisions!PlatformNodes[type] = Decisions!Fixed("Recipient-only", 0)
    BY <1>9 DEF Decisions!PlatformNodes, Decisions!Each
  <2>2. Decisions!NodeRegistry[type] = Decisions!PlatformNodes[type]
    BY <1>9, <2>1, NodeTypesAre DEF Decisions!NodeRegistry, Decisions!Joined
  <2> QED
    BY <1>1, <1>3, <2>1, <2>2 DEF Decisions!Partitions
<1> QED
  BY <1>4, <1>5, <1>6, <1>7, <1>8, <1>9 DEF WholeTypes

\* The types of the first group of the matrix.
LEMMA DeliveryTypesAre ==
  DOMAIN Decisions!DeliveryRows =
    {"Project", "Client", "SkillGap", "OpenRole", "Entity", "WorkingCalendar", "LeavePolicy",
     "Holiday", "WorkingPattern", "GhostResource", "RevenueGapAlert", "Skill",
     "LeaveLedgerEntry", "Pitch", "Workspace", "Employee"}
  BY DEF Decisions!DeliveryRows, Decisions!Each, Decisions!NoRows, Decisions!Rows, Decisions!Halves

\* The rows of the matrix that the mutations of an Owner, a manager and a team member meet.
LEMMA OpenRows ==
  /\ \A type \in {"Project", "OpenRole", "Entity", "WorkingCalendar", "LeavePolicy", "Holiday",
                  "WorkingPattern"} :
       type \in DOMAIN Decisions!Matrix /\ Decisions!Matrix[type] = [any |-> Decisions!OpenToRead]
  /\ \A type \in {"GhostResource", "Skill"} :
       /\ type \in DOMAIN Decisions!Matrix
       /\ Decisions!Matrix[type] =
            [any |-> Decisions!Row(Decisions!Full, Decisions!Full, Decisions!Read, Decisions!Full,
                                   Decisions!Read)]
<1>1. ASSUME NEW type \in {"Project", "OpenRole", "Entity", "WorkingCalendar", "LeavePolicy",
                           "Holiday", "WorkingPattern"}
      PROVE  /\ type \in DOMAIN Decisions!Matrix
             /\ Decisions!Matrix[type] = [any |-> Decisions!OpenToRead]
  <2>1. /\ type \in DOMAIN Decisions!DeliveryRows
        /\ Decisions!DeliveryRows[type] = [any |-> Decisions!OpenToRead]
    BY DEF Decisions!DeliveryRows, Decisions!Each, Decisions!Rows
  <2> QED
    BY <2>1 DEF Decisions!Matrix, Decisions!Joined
<1>2. ASSUME NEW type \in {"GhostResource", "Skill"}
      PROVE  /\ type \in DOMAIN Decisions!Matrix
             /\ Decisions!Matrix[type] =
                  [any |-> Decisions!Row(Decisions!Full, Decisions!Full, Decisions!Read,
                                         Decisions!Full, Decisions!Read)]
  <2>1. /\ type \in DOMAIN Decisions!DeliveryRows
        /\ Decisions!DeliveryRows[type] =
             [any |-> Decisions!Row(Decisions!Full, Decisions!Full, Decisions!Read,
                                    Decisions!Full, Decisions!Read)]
    BY DEF Decisions!DeliveryRows, Decisions!Each, Decisions!Rows
  <2> QED
    BY <2>1 DEF Decisions!Matrix, Decisions!Joined
<1> QED
  BY <1>1, <1>2

\* The rows of the matrix for time, for assignments, for pitches and for people.
TimeRow == Decisions!Row(Decisions!Full, Decisions!Full, Decisions!Read,
                         Decisions!ReadFor("direct-reports"), Decisions!FullFor("own"))
AssignmentRow == Decisions!Row(Decisions!Full, Decisions!Full, Decisions!Read, Decisions!Full,
                               Decisions!Read)
PitchRow == Decisions!Row(Decisions!Full, Decisions!Full, Decisions!Read, Decisions!Full,
                          Decisions!None)
EmployeeRow ==
  Decisions!Row(Decisions!Full, Decisions!Full, Decisions!Read,
                Decisions!ReadByAll(Decisions!FullFor("direct-reports")),
                Decisions!ReadByAll(Decisions!ReadFor("own-plus-team")))

\* The rows that time, an assignment, a pitch, an Employee and a rate card meet.
LEMMA OtherRowsMet ==
  /\ {"TimesheetEntry", "Assignment", "Pitch", "Employee"} \subseteq DOMAIN Decisions!Matrix
  /\ Decisions!Matrix["TimesheetEntry"] = [any |-> TimeRow]
  /\ Decisions!Matrix["Assignment"] = [any |-> AssignmentRow]
  /\ Decisions!Matrix["Pitch"] = [identifying |-> PitchRow]
  /\ "operational" \in DOMAIN Decisions!Matrix["Employee"]
  /\ Decisions!Matrix["Employee"]["operational"] = EmployeeRow
  /\ "RateCard" \notin DOMAIN Decisions!Matrix
<1>1. /\ "TimesheetEntry" \in DOMAIN Decisions!SignalRows
      /\ Decisions!SignalRows["TimesheetEntry"] = [any |-> TimeRow]
  BY DEF Decisions!SignalRows, Decisions!Each, Decisions!Rows, TimeRow
<1>2. /\ "Assignment" \in DOMAIN Decisions!SignalRows
      /\ Decisions!SignalRows["Assignment"] = [any |-> AssignmentRow]
  BY DEF Decisions!SignalRows, Decisions!Each, Decisions!Rows, AssignmentRow
<1>3. /\ "Pitch" \in DOMAIN Decisions!DeliveryRows
      /\ Decisions!DeliveryRows["Pitch"] = [identifying |-> PitchRow]
  BY DEF Decisions!DeliveryRows, Decisions!Each, Decisions!Rows, Decisions!Halves, PitchRow
<1>4. /\ "Employee" \in DOMAIN Decisions!DeliveryRows
      /\ "operational" \in DOMAIN Decisions!DeliveryRows["Employee"]
      /\ Decisions!DeliveryRows["Employee"]["operational"] = EmployeeRow
  BY DEF Decisions!DeliveryRows, Decisions!Each, Decisions!Rows, Decisions!Halves, EmployeeRow
<1>5. "RateCard" \notin DOMAIN Decisions!SignalRows
  BY DEF Decisions!SignalRows, Decisions!Each, Decisions!NoRows, Decisions!Rows
<1>6. "RateCard" \notin DOMAIN Decisions!PeopleRows
  BY DEF Decisions!PeopleRows, Decisions!Each, Decisions!NoRows, Decisions!Rows, Decisions!Halves
<1>7. "RateCard" \notin DOMAIN Decisions!OtherRows
  BY DEF Decisions!OtherRows, Decisions!Each, Decisions!NoRows, Decisions!Rows
<1>8. /\ "TimesheetEntry" \notin DOMAIN Decisions!DeliveryRows
      /\ "Assignment" \notin DOMAIN Decisions!DeliveryRows
      /\ "RateCard" \notin DOMAIN Decisions!DeliveryRows
  BY DeliveryTypesAre
<1>9. DOMAIN Decisions!Matrix = DOMAIN Decisions!DeliveryRows \cup DOMAIN Decisions!SignalRows \cup
                               DOMAIN Decisions!PeopleRows \cup DOMAIN Decisions!OtherRows
  BY DEF Decisions!Matrix, Decisions!Joined
<1>10. /\ Decisions!Matrix["TimesheetEntry"] = Decisions!SignalRows["TimesheetEntry"]
       /\ Decisions!Matrix["Assignment"] = Decisions!SignalRows["Assignment"]
       /\ Decisions!Matrix["Pitch"] = Decisions!DeliveryRows["Pitch"]
       /\ Decisions!Matrix["Employee"] = Decisions!DeliveryRows["Employee"]
  BY <1>1, <1>2, <1>3, <1>4, <1>8 DEF Decisions!Matrix, Decisions!Joined
<1> QED
  BY <1>1, <1>2, <1>3, <1>4, <1>5, <1>6, <1>7, <1>8, <1>9, <1>10

\* What an Owner and an HR Admin write whole, and the row the policy has for it.
AdminTypes ==
  {"Entity", "WorkingPattern", "WorkingCalendar", "Holiday", "Skill", "Assignment", "Project",
   "GhostResource", "OpenRole", "LeavePolicy", "TimesheetEntry", "RateCard"}
MetRow(type) ==
  CASE type \in {"Project", "OpenRole", "Entity", "WorkingCalendar", "LeavePolicy", "Holiday",
                 "WorkingPattern"} -> Decisions!OpenToRead
    [] type \in {"GhostResource", "Skill", "Assignment"} -> AssignmentRow
    [] type = "TimesheetEntry" -> TimeRow
    [] type = "RateCard" -> Decisions!Row(Decisions!Full, Decisions!Full, Decisions!Full,
                                          Decisions!None, Decisions!ReadFor("own"))

\* The cell of a whole record is that of its row.
LEMMA WholeCells ==
  ASSUME NEW type \in AdminTypes, NEW role
  PROVE  Decisions!PolicyCell(role, type, "record") = MetRow(type)[role]
<1>1. type \notin Decisions!InheritedTypes
  BY DEF AdminTypes, Decisions!InheritedTypes
<1>2. CASE type \in {"Project", "OpenRole", "Entity", "WorkingCalendar", "LeavePolicy", "Holiday",
                     "WorkingPattern"}
  <2>1. Decisions!RowIn(Decisions!Matrix, type, "record") = Decisions!OpenToRead
    BY <1>2, OpenRows DEF Decisions!RowIn
  <2> QED
    BY <1>1, <1>2, <2>1 DEF Decisions!PolicyCell, MetRow
<1>3. CASE type \in {"GhostResource", "Skill"}
  <2>1. Decisions!RowIn(Decisions!Matrix, type, "record") = AssignmentRow
    BY <1>3, OpenRows DEF Decisions!RowIn, AssignmentRow
  <2> QED
    BY <1>1, <1>3, <2>1 DEF Decisions!PolicyCell, MetRow
<1>4. CASE type = "Assignment"
  <2>1. Decisions!RowIn(Decisions!Matrix, type, "record") = AssignmentRow
    BY <1>4, OtherRowsMet DEF Decisions!RowIn
  <2> QED
    BY <1>1, <1>4, <2>1 DEF Decisions!PolicyCell, MetRow
<1>5. CASE type = "TimesheetEntry"
  <2>1. Decisions!RowIn(Decisions!Matrix, type, "record") = TimeRow
    BY <1>5, OtherRowsMet DEF Decisions!RowIn
  <2> QED
    BY <1>1, <1>5, <2>1 DEF Decisions!PolicyCell, MetRow
<1>6. CASE type = "RateCard"
  <2>1. /\ "RateCard" \in DOMAIN Decisions!FinanceNodes
        /\ Decisions!FinanceNodes["RateCard"] = Decisions!Fixed("Finance-restricted", 1)
    BY DEF Decisions!FinanceNodes, Decisions!Each
  <2>2. Decisions!NodeRegistry["RateCard"] = Decisions!Fixed("Finance-restricted", 1)
    BY <2>1, NodeTypesAre DEF Decisions!NodeRegistry, Decisions!Joined
  <2>3. Decisions!Partitions(type)["record"].class = "Finance-restricted"
    BY <1>6, <2>2 DEF Decisions!Partitions, Decisions!Fixed, Decisions!Half
  <2>4. Decisions!ClassRows["Finance-restricted"] = MetRow("RateCard")
    BY DEF Decisions!ClassRows, Decisions!Each, MetRow
  <2>5. Decisions!RowIn(Decisions!Matrix, type, "record") = MetRow("RateCard")
    BY <1>6, <2>3, <2>4, OtherRowsMet DEF Decisions!RowIn
  <2> QED
    BY <1>1, <1>6, <2>5 DEF Decisions!PolicyCell
<1> QED
  BY <1>2, <1>3, <1>4, <1>5, <1>6 DEF AdminTypes

\* The cells of an Employee and of a pitch, for the halves their edges are governed by.
LEMMA HalfCells ==
  ASSUME NEW role
  PROVE  /\ Decisions!PolicyCell(role, "Employee", "operational") = EmployeeRow[role]
         /\ Decisions!PolicyCell(role, "Pitch", "identifying") = PitchRow[role]
<1>1. "Employee" \notin Decisions!InheritedTypes /\ "Pitch" \notin Decisions!InheritedTypes
  BY DEF Decisions!InheritedTypes
<1>2. /\ Decisions!RowIn(Decisions!Matrix, "Employee", "operational") = EmployeeRow
      /\ Decisions!RowIn(Decisions!Matrix, "Pitch", "identifying") = PitchRow
  BY OtherRowsMet DEF Decisions!RowIn
<1> QED
  BY <1>1, <1>2 DEF Decisions!PolicyCell

\* An Owner and an HR Admin have all of what they write.
AdminKey(type, key) ==
  \/ type \in AdminTypes /\ key = "record"
  \/ type = "Employee" /\ key = "operational"
  \/ type = "Pitch" /\ key = "identifying"

\* All of them are full for an Owner and for an HR Admin.
LEMMA AdminCells ==
  ASSUME NEW type, NEW key, AdminKey(type, key), NEW role \in {"owner", "hr_admin"}
  PROVE  Decisions!PolicyCell(role, type, key) = Decisions!Full
<1>1. ASSUME NEW t \in AdminTypes PROVE MetRow(t)[role] = Decisions!Full
  BY DEF AdminTypes, MetRow, Decisions!OpenToRead, AssignmentRow, TimeRow, Decisions!Row
<1>2. EmployeeRow[role] = Decisions!Full /\ PitchRow[role] = Decisions!Full
  BY DEF EmployeeRow, PitchRow, Decisions!Row
<1> QED
  BY <1>1, <1>2, WholeCells, HalfCells DEF AdminKey

\* The edges that the mutations draw.
LEMMA EdgesAre ==
  /\ \A edge \in {"managed_by", "scoped_to_entity", "governed_by_calendar", "pattern_for",
                  "holiday_in", "delivered_to"} :
       Decisions!EdgeRegistry[edge] = Decisions!StructureEdges[edge]
  /\ \A edge \in {"assignment_of", "assigned_to", "staffed_on", "placeholder_for", "promoted_to",
                  "logged_against"} :
       Decisions!EdgeRegistry[edge] = Decisions!DeliveryEdges[edge]
  /\ \A edge \in {"has_skill", "requires_skill", "gap_for"} :
       Decisions!EdgeRegistry[edge] = Decisions!SkillEdges[edge]
  /\ Decisions!EdgeRegistry["triggered_by"] = Decisions!SignalEdges["triggered_by"]
  /\ Decisions!EdgeRegistry["governed_by"] = Decisions!FinanceEdges["governed_by"]
  /\ Decisions!EdgeRegistry["supersedes"] = Decisions!PlatformEdges["supersedes"]
<1>1. DOMAIN Decisions!StructureEdges =
        {"membership_of", "membership_in", "registered_on", "managed_by", "scoped_to_entity",
         "governed_by_calendar", "pattern_for", "holiday_in", "delivered_to"}
  BY DEF Decisions!StructureEdges
<1>2. DOMAIN Decisions!DeliveryEdges =
        {"assignment_of", "assigned_to", "staffed_on", "belongs_to", "originated_from",
         "placeholder_for", "promoted_to", "logged_against", "processed_in", "contracted_with"}
  BY DEF Decisions!DeliveryEdges
<1>3. DOMAIN Decisions!SkillEdges =
        {"has_skill", "requires_skill", "holds_certification", "resulted_in", "gap_for"}
  BY DEF Decisions!SkillEdges
<1>4. \A edge \in {"triggered_by", "governed_by", "supersedes"} :
        edge \notin DOMAIN Decisions!RecruitmentEdges /\ edge \notin DOMAIN Decisions!HrEdges
  BY DEF Decisions!RecruitmentEdges, Decisions!HrEdges
<1>5. /\ "triggered_by" \in DOMAIN Decisions!SignalEdges
      /\ "governed_by" \notin DOMAIN Decisions!SignalEdges
      /\ "supersedes" \notin DOMAIN Decisions!SignalEdges
  BY DEF Decisions!SignalEdges
<1>6. /\ "governed_by" \in DOMAIN Decisions!FinanceEdges
      /\ "supersedes" \notin DOMAIN Decisions!FinanceEdges
  BY DEF Decisions!FinanceEdges
<1>7. "supersedes" \in DOMAIN Decisions!PlatformEdges
  BY DEF Decisions!PlatformEdges
<1> QED
  BY <1>1, <1>2, <1>3, <1>4, <1>5, <1>6, <1>7 DEF Decisions!EdgeRegistry, Decisions!Joined

\* The edges the mutations draw are registered for the types they join.
LEMMA EdgesJoin ==
  /\ Decisions!IsRegistered("managed_by", "Employee", "Employee")
  /\ Decisions!IsRegistered("scoped_to_entity", "Employee", "Entity")
  /\ Decisions!IsRegistered("has_skill", "Employee", "Skill")
  /\ Decisions!IsRegistered("staffed_on", "Employee", "Pitch")
  /\ Decisions!IsRegistered("pattern_for", "WorkingPattern", "Employee")
  /\ Decisions!IsRegistered("assignment_of", "Assignment", "Employee")
  /\ Decisions!IsRegistered("assigned_to", "Assignment", "Project")
  /\ Decisions!IsRegistered("governed_by", "Assignment", "RateCard")
  /\ Decisions!IsRegistered("governed_by_calendar", "Entity", "WorkingCalendar")
  /\ Decisions!IsRegistered("holiday_in", "Holiday", "WorkingCalendar")
  /\ Decisions!IsRegistered("promoted_to", "GhostResource", "Employee")
  /\ Decisions!IsRegistered("placeholder_for", "GhostResource", "OpenRole")
  /\ Decisions!IsRegistered("requires_skill", "Project", "Skill")
  /\ Decisions!IsRegistered("supersedes", "RateCard", "RateCard")
  /\ Decisions!IsRegistered("supersedes", "LeavePolicy", "LeavePolicy")
  /\ Decisions!IsRegistered("supersedes", "WorkingCalendar", "WorkingCalendar")
  /\ Decisions!IsRegistered("logged_against", "TimesheetEntry", "Assignment")
  /\ Decisions!IsRegistered("logged_against", "TimesheetEntry", "Pitch")
  /\ Decisions!IsRegistered("triggered_by", "TimesheetAnomalyFlag", "Employee")
  /\ Decisions!IsRegistered("triggered_by", "RevenueGapAlert", "Employee")
  /\ Decisions!IsRegistered("gap_for", "SkillGap", "Skill")
  /\ Decisions!IsRegistered("delivered_to", "Notification", "User")
<1>0. ASSUME NEW edge, NEW a, NEW b, <<a, b>> \in Decisions!EdgeRegistry[edge].pairs
      PROVE  Decisions!IsRegistered(edge, a, b)
  <2>1. <<a, b>>[1] = a /\ <<a, b>>[2] = b
    OBVIOUS
  <2> QED
    BY <1>0, <2>1 DEF Decisions!IsRegistered, Decisions!MatchesEndpoint
<1>1. /\ <<"Employee", "Employee">> \in Decisions!StructureEdges["managed_by"].pairs
      /\ <<"Employee", "Entity">> \in Decisions!StructureEdges["scoped_to_entity"].pairs
      /\ <<"WorkingPattern", "Employee">> \in Decisions!StructureEdges["pattern_for"].pairs
      /\ <<"Entity", "WorkingCalendar">> \in Decisions!StructureEdges["governed_by_calendar"].pairs
      /\ <<"Holiday", "WorkingCalendar">> \in Decisions!StructureEdges["holiday_in"].pairs
      /\ <<"Notification", "User">> \in Decisions!StructureEdges["delivered_to"].pairs
  BY DEF Decisions!StructureEdges, Decisions!Plain, Decisions!Governed, Decisions!Group
<1>2. /\ <<"Employee", "Pitch">> \in Decisions!DeliveryEdges["staffed_on"].pairs
      /\ <<"Assignment", "Employee">> \in Decisions!DeliveryEdges["assignment_of"].pairs
      /\ <<"Assignment", "Project">> \in Decisions!DeliveryEdges["assigned_to"].pairs
      /\ <<"GhostResource", "Employee">> \in Decisions!DeliveryEdges["promoted_to"].pairs
      /\ <<"GhostResource", "OpenRole">> \in Decisions!DeliveryEdges["placeholder_for"].pairs
      /\ <<"TimesheetEntry", "Assignment">> \in Decisions!DeliveryEdges["logged_against"].pairs
      /\ <<"TimesheetEntry", "Pitch">> \in Decisions!DeliveryEdges["logged_against"].pairs
  BY DEF Decisions!DeliveryEdges, Decisions!Plain, Decisions!Governed, Decisions!Group
<1>3. /\ <<"Employee", "Skill">> \in Decisions!SkillEdges["has_skill"].pairs
      /\ <<"Project", "Skill">> \in Decisions!SkillEdges["requires_skill"].pairs
      /\ <<"SkillGap", "Skill">> \in Decisions!SkillEdges["gap_for"].pairs
  BY DEF Decisions!SkillEdges, Decisions!Plain, Decisions!Governed, Decisions!Group
<1>4. /\ <<"TimesheetAnomalyFlag", "Employee">> \in Decisions!SignalEdges["triggered_by"].pairs
      /\ <<"RevenueGapAlert", "Employee">> \in Decisions!SignalEdges["triggered_by"].pairs
  BY DEF Decisions!SignalEdges, Decisions!Plain, Decisions!Governed, Decisions!Group
<1>5. /\ <<"Assignment", "RateCard">> \in Decisions!FinanceEdges["governed_by"].pairs
  BY DEF Decisions!FinanceEdges, Decisions!Plain, Decisions!Governed, Decisions!Group
<1>6. /\ <<"RateCard", "RateCard">> \in Decisions!PlatformEdges["supersedes"].pairs
      /\ <<"LeavePolicy", "LeavePolicy">> \in Decisions!PlatformEdges["supersedes"].pairs
      /\ <<"WorkingCalendar", "WorkingCalendar">> \in Decisions!PlatformEdges["supersedes"].pairs
  BY DEF Decisions!PlatformEdges, Decisions!Plain, Decisions!Governed, Decisions!Group
<1> QED
  BY <1>0, <1>1, <1>2, <1>3, <1>4, <1>5, <1>6, EdgesAre

\* The edges at an Employee are governed by its operational half.
EmployeeEdges == {"managed_by", "scoped_to_entity", "has_skill", "staffed_on", "pattern_for",
                  "assignment_of", "promoted_to"}

LEMMA EmployeeIsGoverned ==
  ASSUME NEW edge \in EmployeeEdges
  PROVE  /\ "Employee" \in DOMAIN Decisions!EdgeRegistry[edge].governing
         /\ Decisions!EdgeRegistry[edge].governing["Employee"] = "operational"
<1>1. ASSUME NEW e \in {"managed_by", "scoped_to_entity", "pattern_for"}
      PROVE  /\ "Employee" \in DOMAIN Decisions!StructureEdges[e].governing
             /\ Decisions!StructureEdges[e].governing["Employee"] = "operational"
  BY DEF Decisions!StructureEdges, Decisions!Governed, Decisions!Group
<1>2. ASSUME NEW e \in {"assignment_of", "staffed_on", "promoted_to"}
      PROVE  /\ "Employee" \in DOMAIN Decisions!DeliveryEdges[e].governing
             /\ Decisions!DeliveryEdges[e].governing["Employee"] = "operational"
  BY DEF Decisions!DeliveryEdges, Decisions!Governed, Decisions!Group
<1>3. /\ "Employee" \in DOMAIN Decisions!SkillEdges["has_skill"].governing
      /\ Decisions!SkillEdges["has_skill"].governing["Employee"] = "operational"
  BY DEF Decisions!SkillEdges, Decisions!Governed, Decisions!Group
<1> QED
  BY <1>1, <1>2, <1>3, EdgesAre DEF EmployeeEdges

\* The edges at a pitch are governed by its identifying half.
LEMMA PitchIsGoverned ==
  ASSUME NEW edge \in {"staffed_on", "logged_against"}
  PROVE  /\ "Pitch" \in DOMAIN Decisions!EdgeRegistry[edge].governing
         /\ Decisions!EdgeRegistry[edge].governing["Pitch"] = "identifying"
<1>1. /\ "Pitch" \in DOMAIN Decisions!DeliveryEdges[edge].governing
      /\ Decisions!DeliveryEdges[edge].governing["Pitch"] = "identifying"
  BY DEF Decisions!DeliveryEdges, Decisions!Governed, Decisions!Group
<1> QED
  BY <1>1, EdgesAre

\* What governs an endpoint of the edges the mutations draw.
LEMMA HalvesGovern ==
  /\ \A edge, type : type \in WholeTypes => Decisions!GoverningHalf(edge, type) = {"record"}
  /\ \A edge \in EmployeeEdges : Decisions!GoverningHalf(edge, "Employee") = {"operational"}
  /\ \A edge \in {"staffed_on", "logged_against"} :
       Decisions!GoverningHalf(edge, "Pitch") = {"identifying"}
<1>1. ASSUME NEW edge, NEW type \in WholeTypes
      PROVE  Decisions!GoverningHalf(edge, type) = {"record"}
  <2>1. DOMAIN Decisions!Partitions(type) = {"record"}
    BY WholeTypesAre
  <2>2. ~Decisions!IsSplit(type)
    BY <2>1 DEF Decisions!IsSplit
  <2> QED
    BY <2>1, <2>2 DEF Decisions!GoverningHalf
<1>2. ASSUME NEW edge \in EmployeeEdges
      PROVE  Decisions!GoverningHalf(edge, "Employee") = {"operational"}
  <2>1. Decisions!IsSplit("Employee") /\ "operational" \in DOMAIN Decisions!Partitions("Employee")
    BY HalvesAre DEF IsHalf
  <2> QED
    BY <2>1, EmployeeIsGoverned DEF Decisions!GoverningHalf
<1>3. ASSUME NEW edge \in {"staffed_on", "logged_against"}
      PROVE  Decisions!GoverningHalf(edge, "Pitch") = {"identifying"}
  <2>1. Decisions!IsSplit("Pitch") /\ "identifying" \in DOMAIN Decisions!Partitions("Pitch")
    BY HalvesAre DEF IsHalf
  <2> QED
    BY <2>1, PitchIsGoverned DEF Decisions!GoverningHalf
<1> QED
  BY <1>1, <1>2, <1>3

\* To log time on an assignment it is enough to read it; to log it on a pitch it is not.
LEMMA ReadSufficesFor ==
  /\ Decisions!ReadSuffices("logged_against", "Assignment")
  /\ ~Decisions!ReadSuffices("logged_against", "TimesheetEntry")
  /\ ~Decisions!ReadSuffices("logged_against", "Pitch")
  /\ ~Decisions!ReadSuffices("staffed_on", "Employee")
<1>1. /\ Decisions!DeliveryEdges["logged_against"].readable = {"Assignment"}
      /\ Decisions!DeliveryEdges["staffed_on"].readable = {}
  BY DEF Decisions!DeliveryEdges, Decisions!Governed, Decisions!Group
<1> QED
  BY <1>1, EdgesAre DEF Decisions!ReadSuffices

-----------------------------------------------------------------------------
(* Grants *)

USE DecisionsAssumption

\* The five roles.
LEMMA RolesAre == Decisions!Roles = {"owner", "hr_admin", "finance_admin", "manager", "team_member"}
  BY DEF Decisions!Roles

\* The invariant of the decisions: roles are roles, what a lookup finds is linked to the
\* login, nobody is found when nobody is linked, and the edges are among those that may be
\* drawn.  A login may be linked to several Employees.
DecisionsInv ==
  /\ held \in [Members -> SUBSET Decisions!Roles]
  /\ linking \subseteq Employees \X Members
  /\ linked \in [Employees -> Members \cup {NoEmployee}]
  /\ found \in [Members -> Employees \cup {NoEmployee}]
  /\ \A u \in Members, e \in Employees : found[u] = e => linked[e] = u
  /\ \A u \in Members, e \in Employees : linked[e] = u => found[u] # NoEmployee
  /\ edges \subseteq Drawable /\ past \subseteq Drawable

\* It holds at first.
LEMMA DecisionsInitInv == ASSUME Decisions!Init PROVE DecisionsInv
  BY DEF Decisions!Init, DecisionsInv, Decisions!Roles

\* Setting roles, checking and writing a link, another lookup, and drawing and ending edges
\* keep it.
LEMMA DecisionsNextInv == ASSUME DecisionsInv, Decisions!Next PROVE DecisionsInv'
<1> USE DEF DecisionsInv, Decisions!peopleVars
<1>1. ASSUME NEW u \in Members, NEW given \in RoleSets, Decisions!SetRoles(u, given)
      PROVE  DecisionsInv'
  BY <1>1 DEF Decisions!SetRoles
<1>2. ASSUME NEW e \in Employees, NEW u \in Members, Decisions!LinkUser(e, u)
      PROVE  DecisionsInv'
  BY <1>2 DEF Decisions!LinkUser
<1>3. ASSUME NEW e \in Employees, NEW u \in Members, Decisions!ApplyLink(e, u)
      PROVE  DecisionsInv'
  <2>1. CASE linked[e] # NoEmployee
    BY <1>3, <2>1 DEF Decisions!ApplyLink
  <2>2. CASE linked[e] = NoEmployee
    <3>1. /\ linked' = [linked EXCEPT ![e] = u]
          /\ found' = [found EXCEPT ![u] = IF @ = NoEmployee THEN e ELSE @]
          /\ UNCHANGED <<held, edges, past>> /\ linking' \subseteq linking
      BY <1>3, <2>2 DEF Decisions!ApplyLink
    <3>2. \A f \in Employees : linked'[f] = IF f = e THEN u ELSE linked[f]
      BY <3>1
    <3>3. \A v \in Members :
            found'[v] = IF v = u /\ found[u] = NoEmployee THEN e ELSE found[v]
      BY <3>1
    <3>4. linked' \in [Employees -> Members \cup {NoEmployee}] /\ found' \in [Members -> Employees \cup {NoEmployee}]
      BY <3>1
    <3> QED
      BY <2>2, <3>1, <3>2, <3>3, <3>4
  <2> QED
    BY <2>1, <2>2
<1>4. ASSUME NEW e \in Employees, NEW u \in Members, Decisions!LookupMoves(u, e)
      PROVE  DecisionsInv'
  BY <1>4 DEF Decisions!LookupMoves
<1>5. ASSUME NEW edge \in Drawable, Decisions!Draw(edge)
      PROVE  DecisionsInv'
  BY <1>5 DEF Decisions!Draw
<1>6. ASSUME NEW edge \in Drawable, Decisions!Close(edge)
      PROVE  DecisionsInv'
  BY <1>6 DEF Decisions!Close
<1> QED
  BY <1>1, <1>2, <1>3, <1>4, <1>5, <1>6 DEF Decisions!Next

\* What a lookup finds is linked to the login, and is all that is, if that is one Employee.
LEMMA EmployeeOfIs ==
  ASSUME DecisionsInv, NEW u \in Members, NEW e \in Employees
  PROVE  /\ Decisions!EmployeeOf(u) = e => linked[e] = u
         /\ Decisions!OneRecord(u) /\ linked[e] = u => Decisions!EmployeeOf(u) = e
<1>1. Decisions!EmployeeOf(u) = e => linked[e] = u
  BY DEF Decisions!EmployeeOf, DecisionsInv
<1>2. ASSUME Decisions!OneRecord(u), linked[e] = u PROVE Decisions!EmployeeOf(u) = e
  <2>1. found[u] \in Employees /\ linked[found[u]] = u
    BY <1>2 DEF DecisionsInv
  <2> QED
    BY <1>2, <2>1 DEF Decisions!OneRecord, Decisions!EmployeeOf
<1> QED
  BY <1>1, <1>2

\* A member is an Employee, or nobody.
LEMMA EmployeeOfType ==
  ASSUME DecisionsInv, NEW u \in Members
  PROVE  Decisions!EmployeeOf(u) \in Employees \cup {NoEmployee}
  BY DEF Decisions!EmployeeOf, DecisionsInv

\* What there is only one of is what was found.
LEMMA TheOnlyIs ==
  ASSUME NEW some
  PROVE  some # {} => Decisions!TheOnly(some) \in some
<1> SUFFICES ASSUME some # {} PROVE Decisions!TheOnly(some) \in some
  OBVIOUS
<1>1. \E n \in some : TRUE
  OBVIOUS
<1>2. (CHOOSE n \in some : TRUE) \in some
  BY <1>1, Zenon
<1> QED
  BY <1>2 DEF Decisions!TheOnly

\* A record is about an Employee, or about nobody.
LEMMA StoredSubjectType ==
  ASSUME DecisionsInv, NEW n \in Judged
  PROVE  Decisions!StoredSubject(n) \in Employees \cup {NoEmployee}
<1> DEFINE triggers == Decisions!Outgoing(n, "triggered_by")
<1>1. triggers \subseteq Employees
  BY DEF Decisions!Outgoing, DecisionsInv
<1>2. Decisions!TheOnly(triggers) \in Employees \cup {NoEmployee}
  <2>1. CASE triggers = {}
    BY <2>1 DEF Decisions!TheOnly
  <2>2. CASE triggers # {}
    BY <2>2, <1>1, TheOnlyIs
  <2> QED
    BY <2>1, <2>2
<1>3. n \in Decisions!NamesEmployee => EmployeeIdOf[n] \in Employees
  OBVIOUS
<1> HIDE DEF triggers
<1> QED
  BY <1>2, <1>3 DEF Decisions!StoredSubject, triggers

\* What is judged has a registered type.
LEMMA TypeOfJudged ==
  ASSUME NEW n \in Judged
  PROVE  Decisions!TypeOf(n) \in Decisions!NodeTypes
<1> QED
  BY NodeTypesAre DEF Decisions!TypeOf

\* Of the outcomes a member is granted, the highest.
LEMMA HighestIs ==
  ASSUME NEW S, S \subseteq Outcomes, S # {}
  PROVE  /\ Decisions!Highest(S) \in S
         /\ \A other \in S : Decisions!Rank[other] <= Decisions!Rank[Decisions!Highest(S)]
<1>1. \E o \in S : \A other \in S : Decisions!Rank[other] <= Decisions!Rank[o]
  <2>1. CASE "full" \in S
    BY <2>1 DEF Outcomes, Decisions!Rank
  <2>2. CASE "full" \notin S /\ "read" \in S
    BY <2>2 DEF Outcomes, Decisions!Rank
  <2>3. CASE "full" \notin S /\ "read" \notin S /\ "restricted" \in S
    BY <2>3 DEF Outcomes, Decisions!Rank
  <2>4. CASE S = {"none"}
    BY <2>4 DEF Outcomes, Decisions!Rank
  <2> QED
    BY <2>1, <2>2, <2>3, <2>4 DEF Outcomes
<1> DEFINE it == CHOOSE o \in S : \A other \in S : Decisions!Rank[other] <= Decisions!Rank[o]
<1>2. it \in S /\ \A other \in S : Decisions!Rank[other] <= Decisions!Rank[it]
  BY <1>1, Zenon
<1> QED
  BY <1>2 DEF Decisions!Highest

\* What the roles of a member grant for a part of a record.
GrantsOf(u, n, key, subject, asRead) ==
  {Decisions!Granted(Decisions!PolicyCell(role, Decisions!TypeOf(n), key), u, n, subject, asRead) :
     role \in Decisions!EffectiveRoles(u)} \cup {"none"}

\* A member acts in the roles they hold, and as a manager if they manage.
LEMMA EffectiveRolesType ==
  ASSUME DecisionsInv, NEW u \in Members
  PROVE  /\ Decisions!EffectiveRoles(u) \subseteq Decisions!Roles
         /\ held[u] \subseteq Decisions!EffectiveRoles(u)
         /\ Decisions!EffectiveRoles(u) \subseteq held[u] \cup {"manager"}
  BY RolesAre DEF DecisionsInv, Decisions!EffectiveRoles

\* A cell grants an outcome, and a read only if it is a cell of reading.
LEMMA GrantedType ==
  ASSUME NEW cell, GoodCell(cell), NEW u, NEW n, NEW subject, NEW asRead
  PROVE  /\ Decisions!Granted(cell, u, n, subject, asRead) \in Outcomes
         /\ Decisions!Granted(cell, u, n, subject, asRead) \in {"full", "read"} =>
              cell.outcome \in {"full", "read"}
  BY DEF GoodCell, Outcomes, Decisions!Granted

\* The best of the grants is one of them, and none is better.
LEMMA BestIs ==
  ASSUME DecisionsInv, NEW u \in Members, NEW n, Decisions!TypeOf(n) \in Decisions!NodeTypes,
         NEW key \in Decisions!Parts(n), NEW subject, NEW asRead
  PROVE  /\ GrantsOf(u, n, key, subject, asRead) \subseteq Outcomes
         /\ Decisions!Best(u, n, key, subject, asRead) \in GrantsOf(u, n, key, subject, asRead)
         /\ \A other \in GrantsOf(u, n, key, subject, asRead) :
              Decisions!Rank[other] <= Decisions!Rank[Decisions!Best(u, n, key, subject, asRead)]
<1>1. GrantsOf(u, n, key, subject, asRead) \subseteq Outcomes
  <2> SUFFICES ASSUME NEW role \in Decisions!EffectiveRoles(u)
               PROVE  Decisions!Granted(Decisions!PolicyCell(role, Decisions!TypeOf(n), key), u, n,
                                        subject, asRead) \in Outcomes
    BY DEF GrantsOf, Outcomes
  <2>1. GoodCell(Decisions!PolicyCell(role, Decisions!TypeOf(n), key))
    BY EffectiveRolesType, PolicyCellIsGood DEF Decisions!Parts
  <2> QED
    BY <2>1, GrantedType
<1>2. Decisions!Best(u, n, key, subject, asRead) =
        Decisions!Highest(GrantsOf(u, n, key, subject, asRead))
  BY DEF Decisions!Best, GrantsOf
<1>3. GrantsOf(u, n, key, subject, asRead) # {}
  BY DEF GrantsOf
<1> QED
  BY <1>1, <1>2, <1>3, HighestIs

\* Some role lets the member read the row, the person it concerns apart.
LEMMA MayReadIs ==
  ASSUME DecisionsInv, NEW u \in Members, NEW n \in Judged, NEW key \in Decisions!Parts(n)
  PROVE  Decisions!MayRead(u, n, key) <=>
           /\ ~Decisions!IsExcluded(u, n)
           /\ \E role \in Decisions!EffectiveRoles(u) :
                Decisions!Granted(Decisions!PolicyCell(role, Decisions!TypeOf(n), key), u, n,
                                  Decisions!StoredSubject(n), TRUE) \in {"full", "read"}
<1> DEFINE best == Decisions!Best(u, n, key, Decisions!StoredSubject(n), TRUE)
           grants == GrantsOf(u, n, key, Decisions!StoredSubject(n), TRUE)
<1>1. /\ grants \subseteq Outcomes /\ best \in grants
      /\ \A other \in grants : Decisions!Rank[other] <= Decisions!Rank[best]
  BY BestIs, TypeOfJudged
<1>2. Decisions!MayRead(u, n, key) <=> best \in {"full", "read"} /\ ~Decisions!IsExcluded(u, n)
  BY DEF Decisions!MayRead, Decisions!Decision, Decisions!Disclosed
<1>3. best \in {"full", "read"} <=> \E other \in grants : other \in {"full", "read"}
  <2> HIDE DEF best, grants
  <2> QED
    BY <1>1 DEF Outcomes, Decisions!Rank
<1>4. (\E other \in grants : other \in {"full", "read"}) <=>
      \E role \in Decisions!EffectiveRoles(u) :
        Decisions!Granted(Decisions!PolicyCell(role, Decisions!TypeOf(n), key), u, n,
                          Decisions!StoredSubject(n), TRUE) \in {"full", "read"}
  BY DEF GrantsOf
<1> QED
  BY <1>2, <1>3, <1>4

\* What a role adds to the readers named is who reads the row by it.
LEMMA ReadersByIs ==
  ASSUME DecisionsInv, NEW u \in Members, NEW n \in Judged, NEW key \in Decisions!Parts(n),
         NEW role \in Decisions!Roles, role # "manager",
         NEW subject \in Employees \cup {NoEmployee},
         Decisions!PolicyCell(role, Decisions!TypeOf(n), key).outcome \in {"full", "read"},
         Decisions!PolicyCell(role, Decisions!TypeOf(n), key).scope \in {"any", "own"},
         Decisions!OneRecord(u)
  PROVE  u \in Decisions!ReadersBy(role, Decisions!TypeOf(n), key, subject) <=>
           /\ role \in held[u]
           /\ Decisions!Granted(Decisions!PolicyCell(role, Decisions!TypeOf(n), key), u, n,
                                subject, TRUE) \in {"full", "read"}
<1> DEFINE cell == Decisions!PolicyCell(role, Decisions!TypeOf(n), key)
<1>1. GoodCell(cell)
  BY TypeOfJudged, PolicyCellIsGood DEF Decisions!Parts
<1>2. u \in Decisions!Holders(role) <=> role \in held[u]
  BY DEF Decisions!Holders
<1>3. CASE cell.scope = "any"
  <2>1. Decisions!Granted(cell, u, n, subject, TRUE) \in {"full", "read"}
    BY <1>3 DEF Decisions!Granted, Decisions!ScopeHolds
  <2> QED
    BY <1>2, <1>3, <2>1 DEF Decisions!ReadersBy
<1>4. CASE cell.scope = "own"
  <2>1. Decisions!ScopeHolds("own", u, subject) <=> u = Decisions!LoginOf(subject)
    BY EmployeeOfIs, EmployeeOfType DEF Decisions!ScopeHolds, Decisions!LoginOf, DecisionsInv
  <2>2. cell.readScope = "own"
    BY <1>1, <1>4 DEF GoodCell
  <2>3. Decisions!Granted(cell, u, n, subject, TRUE) \in {"full", "read"} <=>
          Decisions!ScopeHolds("own", u, subject)
    BY <1>4, <2>2 DEF Decisions!Granted
  <2> QED
    BY <1>2, <1>4, <2>1, <2>3 DEF Decisions!ReadersBy
<1> QED
  BY <1>3, <1>4

\* Whom the reader set names for a record are those who may read it.
LEMMA ReadersAreReaders ==
  ASSUME DecisionsInv, NEW n \in Judged, NEW key \in Decisions!Parts(n),
         Decisions!ReaderSet(Decisions!TypeOf(n), key, Decisions!SubjectOf(n)).resolved
  PROVE  LET users == Decisions!ReaderSet(Decisions!TypeOf(n), key, Decisions!SubjectOf(n)).users IN
         /\ users \subseteq Members
         /\ \A u \in Members :
              Decisions!OneRecord(u) \/ Decisions!HasExclusion(Decisions!TypeOf(n)) =>
                (u \in users <=> Decisions!MayRead(u, n, key))
<1> DEFINE type == Decisions!TypeOf(n)
           subject == Decisions!SubjectOf(n)
           granting == Decisions!RolesThatRead(type, key)
           all == UNION {Decisions!ReadersBy(role, type, key, subject) : role \in granting}
           readers == {u \in all : Decisions!HasExclusion(type) => Decisions!EmployeeOf(u) # subject}
<1>1. /\ \A role \in granting : ~Decisions!CannotTell(role, type, key, subject)
      /\ Decisions!HasExclusion(type) => subject # NoEmployee
      /\ Decisions!ReaderSet(type, key, subject).users = readers
  BY DEF Decisions!ReaderSet, Decisions!Unresolvable
<1>2. all \subseteq Members
  BY DEF Decisions!ReadersBy, Decisions!Holders
<1>3. ASSUME NEW u \in Members, Decisions!OneRecord(u) \/ Decisions!HasExclusion(type)
      PROVE  u \in readers <=> Decisions!MayRead(u, n, key)
  <2> DEFINE Reads(role, whose) ==
               Decisions!Granted(Decisions!PolicyCell(role, type, key), u, n, whose, TRUE)
                 \in {"full", "read"}
  <2>1. Decisions!MayRead(u, n, key) <=>
          /\ ~Decisions!IsExcluded(u, n)
          /\ \E role \in Decisions!EffectiveRoles(u) : Reads(role, Decisions!StoredSubject(n))
    BY MayReadIs
  <2>2. ASSUME NEW role \in Decisions!EffectiveRoles(u), NEW whose, Reads(role, whose)
        PROVE  role \in granting
    BY <2>2, EffectiveRolesType, GrantedType, TypeOfJudged, PolicyCellIsGood
       DEF Decisions!RolesThatRead, Decisions!Parts
  <2>3. ASSUME NEW role \in granting
        PROVE  /\ role \in Decisions!Roles /\ role # "manager"
               /\ Decisions!PolicyCell(role, type, key).outcome \in {"full", "read"}
               /\ Decisions!PolicyCell(role, type, key).scope \in {"any", "own"}
    BY <1>1, <2>3 DEF Decisions!CannotTell, Decisions!RolesThatRead
  <2>4. CASE ~Decisions!HasExclusion(type)
    <3>1. subject = Decisions!StoredSubject(n) /\ subject \in Employees \cup {NoEmployee}
      BY <2>4, StoredSubjectType DEF Decisions!SubjectOf
    <3>2. ~Decisions!IsExcluded(u, n)
      BY <2>4 DEF Decisions!IsExcluded
    <3>3. u \in readers <=>
            \E role \in granting : u \in Decisions!ReadersBy(role, type, key, subject)
      BY <2>4
    <3>4. ASSUME NEW role \in granting
          PROVE  u \in Decisions!ReadersBy(role, type, key, subject) <=>
                   role \in held[u] /\ Reads(role, subject)
      BY <1>3, <2>3, <2>4, <3>1, ReadersByIs
    <3>5. \A role \in granting : role \in Decisions!EffectiveRoles(u) <=> role \in held[u]
      BY <2>3, EffectiveRolesType
    <3> HIDE DEF type, subject, granting, all, readers, Reads
    <3> QED
      BY <2>1, <2>2, <3>1, <3>2, <3>3, <3>4, <3>5
  <2>5. CASE Decisions!HasExclusion(type)
    <3>1. Decisions!IsExcluded(u, n) <=> Decisions!EmployeeOf(u) = subject
      BY <1>1, <2>5 DEF Decisions!IsExcluded, Decisions!SubjectOf
    <3>2. ASSUME NEW role \in granting
          PROVE  /\ Decisions!ReadersBy(role, type, key, subject) = Decisions!Holders(role)
                 /\ \A whose : Reads(role, whose)
      <4>1. Decisions!PolicyCell(role, type, key).scope = "any"
        BY <2>5, <2>3, ExcludedCells DEF Decisions!Parts
      <4> QED
        BY <2>3, <4>1 DEF Decisions!ReadersBy, Decisions!Granted, Decisions!ScopeHolds
    <3>3. u \in all <=> \E role \in granting : role \in held[u]
      <4>1. \A role \in granting :
              u \in Decisions!ReadersBy(role, type, key, subject) <=> role \in held[u]
        BY <3>2 DEF Decisions!Holders
      <4>2. u \in all <=>
              \E role \in granting : u \in Decisions!ReadersBy(role, type, key, subject)
        OBVIOUS
      <4> HIDE DEF all, granting
      <4> QED
        BY <4>1, <4>2
    <3>4. \A role \in granting : role \in Decisions!EffectiveRoles(u) <=> role \in held[u]
      BY <2>3, EffectiveRolesType
    <3>5. u \in readers <=> u \in all /\ Decisions!EmployeeOf(u) # subject
      BY <2>5
    <3> HIDE DEF type, subject, granting, all, readers, Reads
    <3> QED
      BY <2>1, <2>2, <3>1, <3>2, <3>3, <3>4, <3>5
  <2> QED
    BY <2>4, <2>5
<1> HIDE DEF all
<1> QED
  BY <1>1, <1>2, <1>3

\* What a role is said to have without a row at hand, its holders have for every row.
LEMMA CeilingIsHeld ==
  ASSUME DecisionsInv, NEW n \in Judged, NEW key \in Decisions!Parts(n), NEW u \in Members,
         NEW role \in held[u], ~Decisions!IsExcluded(u, n)
  PROVE  Decisions!Rank[Decisions!Ceiling(role, Decisions!TypeOf(n), key)] <=
           Decisions!Rank[Decisions!Decision(u, n, key)]
<1> DEFINE cell == Decisions!PolicyCell(role, Decisions!TypeOf(n), key)
           subject == Decisions!StoredSubject(n)
           best == Decisions!Best(u, n, key, subject, TRUE)
<1>1. Decisions!Decision(u, n, key) = best
  BY DEF Decisions!Decision, Decisions!Disclosed
<1>2. Decisions!Granted(cell, u, n, subject, TRUE) \in GrantsOf(u, n, key, subject, TRUE)
  BY EffectiveRolesType DEF GrantsOf
<1>3. "none" \in GrantsOf(u, n, key, subject, TRUE)
  BY DEF GrantsOf
<1>4. CASE cell.scope = "any"
  <2>1. Decisions!Granted(cell, u, n, subject, TRUE) = cell.outcome
    BY <1>4 DEF Decisions!Granted, Decisions!ScopeHolds
  <2>2. Decisions!Ceiling(role, Decisions!TypeOf(n), key) = cell.outcome
    BY <1>4 DEF Decisions!Ceiling, Decisions!Unqualified
  <2> QED
    BY <1>1, <1>2, <2>1, <2>2, BestIs, TypeOfJudged
<1>5. CASE cell.scope # "any"
  <2>1. Decisions!Ceiling(role, Decisions!TypeOf(n), key) = "none"
    BY <1>5 DEF Decisions!Ceiling, Decisions!Unqualified
  <2> QED
    BY <1>1, <1>3, <2>1, BestIs, TypeOfJudged
<1> QED
  BY <1>4, <1>5

\* Whoever writes a row may read it, the person it concerns apart.
LEMMA WriterReads ==
  ASSUME DecisionsInv, NEW u \in Members, NEW n \in Judged, NEW key \in Decisions!Parts(n),
         Decisions!Best(u, n, key, Decisions!StoredSubject(n), FALSE) = "full",
         ~Decisions!HasExclusion(Decisions!TypeOf(n))
  PROVE  Decisions!MayRead(u, n, key)
<1> DEFINE subject == Decisions!StoredSubject(n)
<1>1. "full" \in GrantsOf(u, n, key, subject, FALSE)
  <2>1. Decisions!TypeOf(n) \in Decisions!NodeTypes
    BY TypeOfJudged
  <2>2. Decisions!Best(u, n, key, subject, FALSE) \in GrantsOf(u, n, key, subject, FALSE)
    BY <2>1, BestIs
  <2> QED
    BY <2>2
<1>2. PICK role \in Decisions!EffectiveRoles(u) :
        Decisions!Granted(Decisions!PolicyCell(role, Decisions!TypeOf(n), key), u, n, subject, FALSE) = "full"
  BY <1>1 DEF GrantsOf
<1>3. Decisions!Granted(Decisions!PolicyCell(role, Decisions!TypeOf(n), key), u, n, subject, TRUE) = "full"
  BY <1>2 DEF Decisions!Granted
<1>4. ~Decisions!IsExcluded(u, n)
  BY DEF Decisions!IsExcluded
<1> QED
  BY <1>3, <1>4, MayReadIs

\* The four parts of GrantsAgree.
LEMMA GrantsAgreeIn == ASSUME DecisionsInv PROVE Decisions!GrantsAgree
<1>1. Decisions!ReadersAgree
  BY ReadersAreReaders DEF Decisions!ReadersAgree
<1>2. Decisions!ConcernedAreKeptOut
  <2> SUFFICES ASSUME NEW n \in Judged, NEW key \in Decisions!Parts(n), NEW u \in Members,
                      Decisions!HasExclusion(Decisions!TypeOf(n)), Decisions!OneRecord(u),
                      Decisions!ExcludedSubject(n) \in Employees,
                      Decisions!LoginOf(Decisions!ExcludedSubject(n)) = u
               PROVE  ~Decisions!MayRead(u, n, key)
    BY DEF Decisions!ConcernedAreKeptOut
  <2>1. Decisions!EmployeeOf(u) = Decisions!ExcludedSubject(n)
    BY EmployeeOfIs DEF Decisions!LoginOf
  <2>2. Decisions!IsExcluded(u, n)
    BY <2>1 DEF Decisions!IsExcluded
  <2> QED
    BY <2>2, MayReadIs
<1>3. Decisions!WrittenIsReadable
  <2> SUFFICES ASSUME NEW n \in Judged, NEW key \in Decisions!Parts(n), NEW u \in Members,
                      Decisions!Protected(Decisions!TypeOf(n), key),
                      Decisions!NodeWrite(u, n, key, Decisions!SubjectOf(n), "Vulto Roster", {})
               PROVE  \E reader \in Members : Decisions!MayRead(reader, n, key)
    BY DEF Decisions!WrittenIsReadable
  <2>1. CASE Decisions!HasExclusion(Decisions!TypeOf(n))
    BY <1>1, <2>1 DEF Decisions!ReadersAgree, Decisions!NodeWrite
  <2>2. CASE ~Decisions!HasExclusion(Decisions!TypeOf(n))
    BY <2>2, WriterReads DEF Decisions!NodeWrite
  <2> QED
    BY <2>1, <2>2
<1>4. Decisions!CeilingHolds
  BY CeilingIsHeld DEF Decisions!CeilingHolds
<1> QED
  BY <1>1, <1>2, <1>3, <1>4 DEF Decisions!GrantsAgree

-----------------------------------------------------------------------------
(* Walks *)

\* A non-empty set of numbers has a least element.
LEMMA LeastExists ==
  ASSUME NEW S \in SUBSET Nat, S # {}
  PROVE  \E x \in S : \A y \in S : x <= y
<1> DEFINE UpTo(x) == 1..x
           Initial == {UpTo(x) : x \in S}
           R == StrictSubsetOrdering(Nat)
<1>1. Initial \subseteq FiniteSubsetsOf(Nat)
  <2>1. \A x \in S : IsFiniteSet(UpTo(x)) /\ UpTo(x) \subseteq Nat
    BY FS_Interval
  <2> QED
    BY <2>1 DEF FiniteSubsetsOf
<1>2. PICK low \in Initial : \A other \in Initial : ~(<<other, low>> \in R)
  <2>1. IsWellFoundedOn(R, FiniteSubsetsOf(Nat))
    BY FS_StrictSubsetOrderingWellFounded
  <2>2. Initial # {}
    OBVIOUS
  <2> HIDE DEF Initial, R
  <2> QED
    BY <1>1, <2>1, <2>2, WFMin
<1>3. PICK x \in S : low = UpTo(x)
  OBVIOUS
<1>4. ASSUME NEW y \in S, y < x PROVE FALSE
  <2>1. UpTo(y) \subseteq UpTo(x) /\ UpTo(y) # UpTo(x)
    BY <1>4
  <2>2. UpTo(y) \in SUBSET Nat /\ UpTo(x) \in SUBSET Nat
    OBVIOUS
  <2>3. <<UpTo(y), UpTo(x)>> \in R
    BY <2>1, <2>2 DEF StrictSubsetOrdering
  <2> QED
    BY <1>2, <1>3, <2>3
<1> QED
  BY <1>4

\* The neighbours and the layers of the walks that are taken; f is the sequence of layers
\* up to m, as the recursion defines it.
Near(n) == Decisions!Neighbours(n, WalkTypes, FALSE)
LayerAfter(u, layer) == Decisions!NextLayer(u, layer, WalkTypes, FALSE)
LayersAre(f, u, m) ==
  f = [d \in 0..m |-> IF d = 0 THEN Decisions!FirstLayer(u, WalkStart) ELSE LayerAfter(u, f[d - 1])]

\* A path of expandable nodes from the start of the walk to n.
IsPath(u, path, length, n) ==
  /\ path \in [0..length -> Decisions!Nodes] /\ path[0] = WalkStart /\ path[length] = n
  /\ \A i \in 0..length - 1 : Decisions!Expandable(u, path[i]) /\ path[i + 1] \in Near(path[i])

\* What holds of the layer at distance d: what it visited was reached by paths, everything
\* it visited is expanded but its frontier, and its hits are what was met and is shown.
LayerOK(u, layer, d) ==
  /\ WalkStart \in layer.visited /\ layer.visited \subseteq Decisions!Nodes
  /\ layer.frontier \subseteq {n \in layer.visited : Decisions!Expandable(u, n)}
  /\ \A n \in layer.visited \ layer.frontier :
       Decisions!Expandable(u, n) => Near(n) \subseteq layer.visited
  /\ layer.hits = {n \in layer.visited \ {WalkStart} : Decisions!IsShown(u, n)}
  /\ \A n \in layer.visited : \E length \in 0..d : \E path : IsPath(u, path, length, n)

\* The recursion has a solution: the least m without one would have one by the layer before.
LEMMA LayersExist ==
  ASSUME NEW u, NEW n \in Nat
  PROVE  \E f : LayersAre(f, u, n)
<1> DEFINE Bad == {m \in 0..n : ~\E f : LayersAre(f, u, m)}
<1>1. CASE Bad = {}
  <2>1. n \in 0..n
    OBVIOUS
  <2> QED
    BY <1>1, <2>1
<1>2. CASE Bad # {}
  <2>1. Bad \in SUBSET Nat
    OBVIOUS
  <2>2. \A x : x \in Bad <=> x \in 0..n /\ ~\E f : LayersAre(f, u, x)
    OBVIOUS
  <2> HIDE DEF Bad
  <2>3. PICK m \in Bad : \A other \in Bad : m <= other
    BY <1>2, <2>1, LeastExists
  <2>4. m \in 0..n /\ ~\E f : LayersAre(f, u, m)
    BY <2>2
  <2>5. CASE m = 0
    <3> DEFINE f == [d \in 0..m |-> Decisions!FirstLayer(u, WalkStart)]
    <3>1. \A d \in 0..m : d = 0
      BY <2>5
    <3>2. LayersAre(f, u, m)
      BY <3>1 DEF LayersAre
    <3> QED
      BY <2>4, <3>2
  <2>6. CASE m # 0
    <3>1. m - 1 \in 0..n /\ m - 1 \notin Bad
      BY <2>3, <2>4, <2>6
    <3>2. PICK f : LayersAre(f, u, m - 1)
      BY <2>2, <3>1
    <3> DEFINE g == [d \in 0..m |-> IF d # m THEN f[d] ELSE LayerAfter(u, f[m - 1])]
    <3>3. \A d \in 0..m : g[d] = IF d = 0 THEN Decisions!FirstLayer(u, WalkStart)
                                 ELSE LayerAfter(u, g[d - 1])
      <4>1. ASSUME NEW d \in 0..(m - 1)
            PROVE  f[d] = IF d = 0 THEN Decisions!FirstLayer(u, WalkStart) ELSE LayerAfter(u, f[d - 1])
        BY <3>2 DEF LayersAre
      <4>2. ASSUME NEW d \in 0..m, d # m
            PROVE  d \in 0..(m - 1) /\ g[d] = f[d] /\ (d # 0 => g[d - 1] = f[d - 1])
        BY <2>4, <4>2
      <4>3. g[m] = LayerAfter(u, f[m - 1]) /\ g[m - 1] = f[m - 1]
        BY <2>4, <2>6
      <4> HIDE DEF g
      <4> QED
        BY <2>6, <4>1, <4>2, <4>3
    <3>4. g = [d \in 0..m |-> g[d]]
      OBVIOUS
    <3> HIDE DEF g
    <3>5. LayersAre(g, u, m)
      BY <3>3, <3>4 DEF LayersAre
    <3> QED
      BY <2>4, <3>5
  <2> QED
    BY <2>5, <2>6
<1> QED
  BY <1>1, <1>2

\* The layers of the walk are that solution.
LayersOf(u) == Decisions!Layers(u, WalkStart, WalkTypes, FALSE, WalkDepth)

LEMMA LayersOfAre ==
  ASSUME NEW u
  PROVE  LayersAre(LayersOf(u), u, WalkDepth)
<1>1. \E f : LayersAre(f, u, WalkDepth)
  BY LayersExist
<1>2. LayersOf(u) = CHOOSE f : LayersAre(f, u, WalkDepth)
  BY DEF LayersOf, Decisions!Layers, LayersAre, LayerAfter
<1> QED
  BY <1>1, <1>2, Zenon

\* The neighbours of a node are nodes.
LEMMA NearIsNodes ==
  ASSUME DecisionsInv, NEW n
  PROVE  Near(n) \subseteq Decisions!Nodes
<1> SUFFICES ASSUME NEW edge \in edges \cup past, edge[1] \in WalkTypes
             PROVE  edge[2] \in Decisions!Nodes
  BY DEF Near, Decisions!Neighbours
<1> QED
  BY DEF DecisionsInv

\* The first layer is the start alone.
LEMMA FirstLayerIsOK ==
  ASSUME NEW u
  PROVE  LayerOK(u, Decisions!FirstLayer(u, WalkStart), 0)
<1> DEFINE path == [i \in 0..0 |-> WalkStart]
<1>1. IsPath(u, path, 0, WalkStart)
  BY DEF IsPath
<1>2. 0 \in 0..0
  OBVIOUS
<1> HIDE DEF path
<1> QED
  BY <1>1, <1>2 DEF LayerOK, Decisions!FirstLayer

\* A path to an expandable node goes on to its neighbours.
LEMMA PathGoesOn ==
  ASSUME NEW u, NEW length \in Nat, NEW path, NEW k, NEW n \in Decisions!Nodes,
         IsPath(u, path, length, k), Decisions!Expandable(u, k), n \in Near(k)
  PROVE  \E longer : IsPath(u, longer, length + 1, n)
<1> DEFINE longer == [i \in 0..length + 1 |-> IF i <= length THEN path[i] ELSE n]
<1>1. longer \in [0..length + 1 -> Decisions!Nodes] /\ longer[0] = WalkStart /\ longer[length + 1] = n
  BY DEF IsPath
<1>2. ASSUME NEW i \in 0..(length + 1) - 1
      PROVE  Decisions!Expandable(u, longer[i]) /\ longer[i + 1] \in Near(longer[i])
  <2>1. CASE i = length
    BY <2>1 DEF IsPath
  <2>2. CASE i # length
    BY <2>2 DEF IsPath
  <2> QED
    BY <2>1, <2>2
<1> HIDE DEF longer
<1>3. IsPath(u, longer, length + 1, n)
  BY <1>1, <1>2 DEF IsPath
<1> QED
  BY <1>3

\* A layer after a sound one is sound, and holds the neighbours of what that one visited.
LEMMA NextLayerIsOK ==
  ASSUME DecisionsInv, NEW u, NEW layer, NEW d \in Nat, LayerOK(u, layer, d)
  PROVE  /\ LayerOK(u, LayerAfter(u, layer), d + 1)
         /\ layer.visited \subseteq LayerAfter(u, layer).visited
         /\ \A n \in layer.visited :
              Decisions!Expandable(u, n) => Near(n) \subseteq LayerAfter(u, layer).visited
<1> DEFINE met == Decisions!MetNext(layer, WalkTypes, FALSE)
           after == LayerAfter(u, layer)
<1>1. /\ after.visited = layer.visited \cup met
      /\ after.frontier = {n \in met : Decisions!Expandable(u, n)}
      /\ after.hits = layer.hits \cup {n \in met : Decisions!IsShown(u, n)}
  BY DEF LayerAfter, Decisions!NextLayer
<1>2. /\ \A n \in met : n \notin layer.visited /\ \E k \in layer.frontier : n \in Near(k)
      /\ \A k \in layer.frontier : Near(k) \subseteq layer.visited \cup met
  <2>1. met = (UNION {Near(n) : n \in layer.frontier}) \ layer.visited
    BY DEF Decisions!MetNext, Near
  <2> HIDE DEF met
  <2> QED
    BY <2>1
<1>3. met \subseteq Decisions!Nodes
  BY <1>2, NearIsNodes
<1> HIDE DEF met, after
<1>4. \A n \in layer.visited : Decisions!Expandable(u, n) => Near(n) \subseteq after.visited
  BY <1>1, <1>2 DEF LayerOK
<1>5. ASSUME NEW n \in after.visited
      PROVE  \E length \in 0..(d + 1) : \E path : IsPath(u, path, length, n)
  <2>1. CASE n \in layer.visited
    <3>1. PICK length \in 0..d : \E path : IsPath(u, path, length, n)
      BY <2>1 DEF LayerOK
    <3>2. length \in 0..(d + 1)
      OBVIOUS
    <3> QED
      BY <3>1, <3>2
  <2>2. CASE n \in met
    <3>1. PICK k \in layer.frontier : n \in Near(k)
      BY <1>2, <2>2
    <3>2. k \in layer.visited /\ Decisions!Expandable(u, k) /\ n \in Decisions!Nodes
      BY <1>3, <2>2 DEF LayerOK
    <3>3. PICK length \in 0..d : \E path : IsPath(u, path, length, k)
      BY <3>2 DEF LayerOK
    <3>4. length \in Nat /\ length + 1 \in 0..(d + 1)
      OBVIOUS
    <3>5. \E longer : IsPath(u, longer, length + 1, n)
      BY <3>1, <3>2, <3>3, <3>4, PathGoesOn
    <3> QED
      BY <3>4, <3>5
  <2> QED
    BY <1>1, <2>1, <2>2
<1>6. LayerOK(u, after, d + 1)
  <2>1. WalkStart \in after.visited /\ after.visited \subseteq Decisions!Nodes
    BY <1>1, <1>3 DEF LayerOK
  <2>2. after.frontier \subseteq {n \in after.visited : Decisions!Expandable(u, n)}
    BY <1>1
  <2>3. \A n \in after.visited \ after.frontier :
          Decisions!Expandable(u, n) => Near(n) \subseteq after.visited
    BY <1>1, <1>4
  <2>4. after.hits = {n \in after.visited \ {WalkStart} : Decisions!IsShown(u, n)}
    BY <1>1, <1>2 DEF LayerOK
  <2> QED
    BY <1>5, <2>1, <2>2, <2>3, <2>4 DEF LayerOK
<1> QED
  BY <1>1, <1>4, <1>6 DEF after

\* Every layer is sound, and closed under the steps from the one before it.
LEMMA LayersAreOK ==
  ASSUME DecisionsInv, NEW u, NEW d \in 0..WalkDepth
  PROVE  LayerOK(u, LayersOf(u)[d], d)
<1> DEFINE L == LayersOf(u)
           Bad == {k \in 0..WalkDepth : ~LayerOK(u, L[k], k)}
<1>1. CASE Bad = {}
  BY <1>1
<1>2. CASE Bad # {}
  <2>1. Bad \in SUBSET Nat
    OBVIOUS
  <2>2. \A x : x \in Bad <=> x \in 0..WalkDepth /\ ~LayerOK(u, L[x], x)
    OBVIOUS
  <2>0. \A x \in 0..WalkDepth : L[x] = IF x = 0 THEN Decisions!FirstLayer(u, WalkStart)
                                       ELSE LayerAfter(u, L[x - 1])
    BY LayersOfAre DEF LayersAre
  <2> HIDE DEF Bad, L
  <2>3. PICK m \in Bad : \A other \in Bad : m <= other
    BY <1>2, <2>1, LeastExists
  <2>4. m \in 0..WalkDepth /\ ~LayerOK(u, L[m], m)
    BY <2>2
  <2>5. CASE m = 0
    BY <2>0, <2>4, <2>5, FirstLayerIsOK
  <2>6. CASE m # 0
    <3>1. m - 1 \in 0..WalkDepth /\ m - 1 \in Nat /\ m - 1 \notin Bad /\ (m - 1) + 1 = m
      BY <2>3, <2>4, <2>6
    <3>2. LayerOK(u, L[m - 1], m - 1)
      BY <2>2, <3>1
    <3>3. LayerOK(u, LayerAfter(u, L[m - 1]), (m - 1) + 1)
      BY <3>1, <3>2, NextLayerIsOK
    <3> QED
      BY <2>0, <2>4, <2>6, <3>1, <3>3
  <2> QED
    BY <2>5, <2>6
<1> QED
  BY <1>1, <1>2

\* Each layer holds the one before it, and the neighbours of what that one visited.
LEMMA LayersGrow ==
  ASSUME DecisionsInv, NEW u, NEW d \in 0..(WalkDepth - 1)
  PROVE  /\ LayersOf(u)[d].visited \subseteq LayersOf(u)[d + 1].visited
         /\ \A n \in LayersOf(u)[d].visited :
              Decisions!Expandable(u, n) => Near(n) \subseteq LayersOf(u)[d + 1].visited
<1>1. d \in 0..WalkDepth /\ d \in Nat /\ d + 1 \in 0..WalkDepth /\ d + 1 # 0 /\ (d + 1) - 1 = d
  OBVIOUS
<1> DEFINE L == LayersOf(u)
<1>2. \A x \in 0..WalkDepth : L[x] = IF x = 0 THEN Decisions!FirstLayer(u, WalkStart)
                                     ELSE LayerAfter(u, L[x - 1])
  <2>1. LayersAre(L, u, WalkDepth)
    BY LayersOfAre
  <2> HIDE DEF L
  <2> QED
    BY <2>1 DEF LayersAre
<1> HIDE DEF L
<1>3. L[d + 1] = LayerAfter(u, L[d])
  BY <1>1, <1>2
<1>4. LayerOK(u, L[d], d)
  BY <1>1, LayersAreOK DEF L
<1> QED
  BY <1>1, <1>3, <1>4, NextLayerIsOK DEF L

\* A path is followed, a layer at a time, to the last of them.
LEMMA PathIsFollowed ==
  ASSUME DecisionsInv, NEW u, NEW length \in 0..WalkDepth, NEW n, NEW path,
         IsPath(u, path, length, n), NEW d \in 0..WalkDepth
  PROVE  IF d <= length THEN path[d] \in LayersOf(u)[d].visited ELSE n \in LayersOf(u)[d].visited
<1> DEFINE L == LayersOf(u)
           Reached(k) == IF k <= length THEN path[k] \in L[k].visited ELSE n \in L[k].visited
           Bad == {k \in 0..WalkDepth : ~Reached(k)}
<1>1. CASE Bad = {}
  BY <1>1
<1>2. CASE Bad # {}
  <2>1. Bad \in SUBSET Nat
    OBVIOUS
  <2>2. \A x : x \in Bad <=> x \in 0..WalkDepth /\ ~Reached(x)
    OBVIOUS
  <2> HIDE DEF Bad, L
  <2>3. PICK m \in Bad : \A other \in Bad : m <= other
    BY <1>2, <2>1, LeastExists
  <2>4. m \in 0..WalkDepth /\ ~Reached(m)
    BY <2>2
  <2>5. CASE m = 0
    <3>1. LayerOK(u, L[0], 0)
      BY LayersAreOK DEF L
    <3> QED
      BY <2>4, <2>5, <3>1 DEF LayerOK, IsPath
  <2>6. CASE m # 0
    <3>1. m - 1 \in 0..WalkDepth /\ m - 1 \notin Bad /\ m - 1 \in 0..(WalkDepth - 1)
          /\ (m - 1) + 1 = m
      BY <2>3, <2>4, <2>6
    <3>2. Reached(m - 1)
      BY <2>2, <3>1
    <3>3. /\ L[m - 1].visited \subseteq L[m].visited
          /\ \A k \in L[m - 1].visited : Decisions!Expandable(u, k) => Near(k) \subseteq L[m].visited
      BY <3>1, LayersGrow DEF L
    <3>4. CASE m <= length
      <4>1. m - 1 \in 0..length - 1
        BY <3>1, <3>4
      <4>2. Decisions!Expandable(u, path[m - 1]) /\ path[m] \in Near(path[m - 1])
        BY <3>1, <4>1 DEF IsPath
      <4> QED
        BY <2>4, <3>1, <3>2, <3>3, <3>4, <4>2
    <3>5. CASE ~(m <= length)
      <4>1. n \in L[m - 1].visited
        <5>1. CASE m - 1 <= length
          <6>1. m - 1 = length
            BY <3>1, <3>5, <5>1
          <6> QED
            BY <3>2, <5>1, <6>1 DEF IsPath
        <5>2. CASE ~(m - 1 <= length)
          BY <3>2, <5>2
        <5> QED
          BY <5>1, <5>2
      <4> QED
        BY <2>4, <3>3, <3>5, <4>1
    <3> QED
      BY <3>4, <3>5
  <2> QED
    BY <2>5, <2>6
<1> QED
  BY <1>1, <1>2

\* The last layer holds what paths lead to, and its hits are what of it is shown.
LEMMA WalkIsExactIn ==
  ASSUME DecisionsInv
  PROVE  Decisions!WalkIsExact(WalkStart, WalkTypes, FALSE, WalkDepth)
<1> DEFINE Met(u) == Decisions!Walk(u, WalkStart, WalkTypes, FALSE, WalkDepth)
           Led(u, n) == Decisions!PathsLeadTo(u, WalkStart, n, WalkTypes, FALSE, WalkDepth)
<1>1. ASSUME NEW u \in Members
      PROVE  Met(u) = {n \in Decisions!Nodes \ {WalkStart} :
                         Decisions!RowDecision(u, n) # "none" /\ Led(u, n)}
  <2> DEFINE last == LayersOf(u)[WalkDepth]
  <2>1. LayerOK(u, last, WalkDepth)
    BY LayersAreOK
  <2>2. Met(u) = last.hits
    BY DEF Decisions!Walk, LayersOf
  <2>3. \A n : Decisions!IsShown(u, n) <=> Decisions!RowDecision(u, n) # "none"
    BY DEF Decisions!IsShown
  <2>4. \A n : Led(u, n) <=> \E length \in 1..WalkDepth : \E path : IsPath(u, path, length, n)
    BY DEF Decisions!PathsLeadTo, IsPath, Decisions!Expandable, Near
  <2> HIDE DEF Met, Led, last
  <2>5. ASSUME NEW n \in Decisions!Nodes \ {WalkStart}, Led(u, n) PROVE n \in last.visited
    <3>1. PICK length \in 1..WalkDepth : \E path : IsPath(u, path, length, n)
      BY <2>4, <2>5
    <3>2. PICK path : IsPath(u, path, length, n)
      BY <3>1
    <3>3. IF WalkDepth <= length THEN path[WalkDepth] \in last.visited ELSE n \in last.visited
      BY <3>2, PathIsFollowed DEF last
    <3>4. WalkDepth <= length => path[WalkDepth] = n
      <4> SUFFICES ASSUME WalkDepth <= length PROVE path[WalkDepth] = n
        OBVIOUS
      <4>1. WalkDepth = length
        OBVIOUS
      <4> QED
        BY <3>2, <4>1 DEF IsPath
    <3> QED
      BY <3>3, <3>4
  <2>6. ASSUME NEW n \in last.visited, n # WalkStart PROVE n \in Decisions!Nodes /\ Led(u, n)
    <3>1. PICK length \in 0..WalkDepth : \E path : IsPath(u, path, length, n)
      BY <2>1 DEF LayerOK
    <3>2. length # 0
      BY <2>6, <3>1 DEF IsPath
    <3>3. length \in 1..WalkDepth
      BY <3>2
    <3> QED
      BY <2>1, <2>4, <3>1, <3>3 DEF LayerOK
  <2> QED
    BY <2>1, <2>2, <2>3, <2>5, <2>6 DEF LayerOK
<1> QED
  BY <1>1 DEF Decisions!WalkIsExact

-----------------------------------------------------------------------------
(* Plans *)

\* An Employee is of the type Employee, and a type stands for a record of it.
LEMMA TypesApart ==
  /\ \A e \in Employees : Decisions!TypeOf(e) = "Employee"
  /\ \A n \in WholeTypes \cup {"Pitch"} : n \notin Employees /\ Decisions!TypeOf(n) = n
<1>1. \A n \in WholeTypes \cup {"Pitch"} : n \in Decisions!NodeTypes
  BY WholeTypesAre, HalvesAre DEF IsHalf
<1> QED
  BY <1>1 DEF Decisions!TypeOf

\* What a role grants in full, its holders have in full.
LEMMA BestIsFull ==
  ASSUME DecisionsInv, NEW u \in Members, NEW n, Decisions!TypeOf(n) \in Decisions!NodeTypes,
         NEW key \in Decisions!Parts(n), NEW subject, NEW asRead,
         NEW role \in Decisions!EffectiveRoles(u),
         Decisions!PolicyCell(role, Decisions!TypeOf(n), key) = Decisions!Full
  PROVE  Decisions!Best(u, n, key, subject, asRead) = "full"
<1>1. Decisions!Granted(Decisions!Full, u, n, subject, asRead) = "full"
  BY DEF Decisions!Granted, Decisions!ScopeHolds, Decisions!Full, Decisions!FullFor, Decisions!Cell
<1>2. "full" \in GrantsOf(u, n, key, subject, asRead)
  BY <1>1 DEF GrantsOf
<1>3. /\ Decisions!Best(u, n, key, subject, asRead) \in Outcomes
      /\ Decisions!Rank["full"] <= Decisions!Rank[Decisions!Best(u, n, key, subject, asRead)]
  BY <1>2, BestIs
<1> QED
  BY <1>3 DEF Outcomes, Decisions!Rank

\* Who holds one of these roles may write the endpoint of an edge by its governing half.
Admins == Decisions!Holders("owner") \cup Decisions!Holders("hr_admin")

LEMMA AdminSuffices ==
  ASSUME DecisionsInv, NEW u \in Admins, NEW edge, NEW n, NEW key,
         AdminKey(Decisions!TypeOf(n), key), Decisions!TypeOf(n) \in Decisions!NodeTypes,
         key \in Decisions!Parts(n), key \in Decisions!GoverningHalf(edge, Decisions!TypeOf(n))
  PROVE  Decisions!EndpointSuffices(u, edge, n)
<1>1. PICK role \in {"owner", "hr_admin"} : u \in Members /\ role \in held[u]
  BY DEF Admins, Decisions!Holders
<1>2. role \in Decisions!EffectiveRoles(u)
  BY <1>1, EffectiveRolesType
<1>3. Decisions!Best(u, n, key, Decisions!StoredSubject(n), FALSE) = "full"
  BY <1>1, <1>2, AdminCells, BestIsFull
<1> QED
  BY <1>3 DEF Decisions!EndpointSuffices, Decisions!Suffices

\* An endpoint that is not split.
LEMMA AdminOfWhole ==
  ASSUME DecisionsInv, NEW u \in Admins, NEW edge, NEW n \in AdminTypes
  PROVE  Decisions!EndpointSuffices(u, edge, n)
<1>1. n \in WholeTypes
  BY DEF AdminTypes, WholeTypes
<1>2. /\ Decisions!TypeOf(n) = n /\ n \in Decisions!NodeTypes
      /\ Decisions!GoverningHalf(edge, n) = {"record"} /\ Decisions!Parts(n) = {"record"}
  BY <1>1, TypesApart, WholeTypesAre, HalvesGovern DEF Decisions!Parts
<1>3. AdminKey(n, "record")
  BY DEF AdminKey
<1> QED
  BY <1>2, <1>3, AdminSuffices

\* An Employee.
LEMMA AdminOfEmployee ==
  ASSUME DecisionsInv, NEW u \in Admins, NEW edge \in EmployeeEdges, NEW e \in Employees
  PROVE  Decisions!EndpointSuffices(u, edge, e)
<1>1. /\ Decisions!TypeOf(e) = "Employee" /\ "Employee" \in Decisions!NodeTypes
      /\ Decisions!GoverningHalf(edge, "Employee") = {"operational"}
      /\ "operational" \in Decisions!Parts(e)
  BY TypesApart, HalvesAre, HalvesGovern DEF IsHalf, Decisions!Parts
<1>2. AdminKey("Employee", "operational")
  BY DEF AdminKey
<1> QED
  BY <1>1, <1>2, AdminSuffices

\* A pitch.
LEMMA AdminOfPitch ==
  ASSUME DecisionsInv, NEW u \in Admins
  PROVE  Decisions!EndpointSuffices(u, "staffed_on", "Pitch")
<1>1. /\ Decisions!TypeOf("Pitch") = "Pitch" /\ "Pitch" \in Decisions!NodeTypes
      /\ Decisions!GoverningHalf("staffed_on", "Pitch") = {"identifying"}
      /\ "identifying" \in Decisions!Parts("Pitch")
  BY TypesApart, HalvesAre, HalvesGovern DEF IsHalf, Decisions!Parts
<1>2. AdminKey("Pitch", "identifying")
  BY DEF AdminKey
<1> QED
  BY <1>1, <1>2, AdminSuffices

\* An Owner and an HR Admin may draw every edge that their mutations draw.
LEMMA AdminsAreNotStuckIn == ASSUME DecisionsInv PROVE Decisions!AdminsAreNotStuck
<1> SUFFICES ASSUME NEW u \in Admins, NEW e \in Employees, NEW manager \in Employees,
                    NEW edge \in Decisions!AdminEdges(e, manager)
             PROVE  Decisions!EdgeWrite(u, edge[1], edge[2], edge[3])
  BY DEF Decisions!AdminsAreNotStuck, Admins
<1>1. /\ Decisions!TypeOf(e) = "Employee" /\ Decisions!TypeOf(manager) = "Employee"
      /\ Decisions!TypeOf("Pitch") = "Pitch"
      /\ \A n \in AdminTypes : Decisions!TypeOf(n) = n
  BY TypesApart DEF AdminTypes, WholeTypes
<1>2. ASSUME NEW type \in {"RateCard", "LeavePolicy", "WorkingCalendar"}
      PROVE  Decisions!EdgeWrite(u, "supersedes", type, type)
  BY <1>1, AdminOfWhole, EdgesJoin DEF Decisions!EdgeWrite, AdminTypes
<1>3. /\ Decisions!EdgeWrite(u, "managed_by", e, manager)
      /\ Decisions!EdgeWrite(u, "scoped_to_entity", e, "Entity")
      /\ Decisions!EdgeWrite(u, "has_skill", e, "Skill")
      /\ Decisions!EdgeWrite(u, "pattern_for", "WorkingPattern", e)
      /\ Decisions!EdgeWrite(u, "assignment_of", "Assignment", e)
      /\ Decisions!EdgeWrite(u, "promoted_to", "GhostResource", e)
  BY <1>1, AdminOfWhole, AdminOfEmployee, EdgesJoin DEF Decisions!EdgeWrite, AdminTypes, EmployeeEdges
<1>4. Decisions!EdgeWrite(u, "staffed_on", e, "Pitch")
  BY <1>1, AdminOfPitch, AdminOfEmployee, EdgesJoin DEF Decisions!EdgeWrite, EmployeeEdges
<1>5. /\ Decisions!EdgeWrite(u, "assigned_to", "Assignment", "Project")
      /\ Decisions!EdgeWrite(u, "governed_by", "Assignment", "RateCard")
      /\ Decisions!EdgeWrite(u, "governed_by_calendar", "Entity", "WorkingCalendar")
      /\ Decisions!EdgeWrite(u, "holiday_in", "Holiday", "WorkingCalendar")
      /\ Decisions!EdgeWrite(u, "placeholder_for", "GhostResource", "OpenRole")
      /\ Decisions!EdgeWrite(u, "requires_skill", "Project", "Skill")
  BY <1>1, AdminOfWhole, EdgesJoin DEF Decisions!EdgeWrite, AdminTypes
<1> QED
  BY <1>2, <1>3, <1>4, <1>5 DEF Decisions!AdminEdges

\* A member who acts in one role, or in two, and the cells that these have.
OneRole(u, n, key, role, cell) ==
  /\ Decisions!EffectiveRoles(u) = {role}
  /\ Decisions!TypeOf(n) \in Decisions!NodeTypes
  /\ key \in Decisions!Parts(n)
  /\ Decisions!PolicyCell(role, Decisions!TypeOf(n), key) = cell
TwoRoles(u, n, key, r1, c1, r2, c2) ==
  /\ Decisions!EffectiveRoles(u) = {r1, r2}
  /\ Decisions!TypeOf(n) \in Decisions!NodeTypes
  /\ key \in Decisions!Parts(n)
  /\ Decisions!PolicyCell(r1, Decisions!TypeOf(n), key) = c1
  /\ Decisions!PolicyCell(r2, Decisions!TypeOf(n), key) = c2

FullByEither(u, n, key, c1, c2, subject) ==
  Decisions!Best(u, n, key, subject, FALSE) = "full" <=>
    \/ Decisions!Granted(c1, u, n, subject, FALSE) = "full"
    \/ Decisions!Granted(c2, u, n, subject, FALSE) = "full"

\* Who has one role has what it grants.
LEMMA BestOfOne ==
  ASSUME DecisionsInv, NEW u \in Members, NEW n, NEW key, NEW role, NEW cell,
         OneRole(u, n, key, role, cell), NEW subject
  PROVE  Decisions!Best(u, n, key, subject, FALSE) = Decisions!Granted(cell, u, n, subject, FALSE)
<1> DEFINE g == Decisions!Granted(cell, u, n, subject, FALSE)
           best == Decisions!Best(u, n, key, subject, FALSE)
<1>1. GrantsOf(u, n, key, subject, FALSE) = {g, "none"}
  BY DEF GrantsOf, OneRole
<1>2. /\ best \in {g, "none"} /\ g \in Outcomes
      /\ Decisions!Rank[g] <= Decisions!Rank[best]
  BY <1>1, BestIs DEF OneRole
<1> HIDE DEF g, best
<1>3. best = g
  BY <1>2 DEF Outcomes, Decisions!Rank
<1> QED
  BY <1>3 DEF g, best

\* Who has two roles has a part in full when one of them grants it in full.
LEMMA BestOfTwo ==
  ASSUME DecisionsInv, NEW u \in Members, NEW n, NEW key, NEW r1, NEW c1, NEW r2, NEW c2,
         TwoRoles(u, n, key, r1, c1, r2, c2), NEW subject
  PROVE  FullByEither(u, n, key, c1, c2, subject)
<1> DEFINE g1 == Decisions!Granted(c1, u, n, subject, FALSE)
           g2 == Decisions!Granted(c2, u, n, subject, FALSE)
           best == Decisions!Best(u, n, key, subject, FALSE)
<1>1. GrantsOf(u, n, key, subject, FALSE) = {g1, g2, "none"}
  BY DEF GrantsOf, TwoRoles
<1>2. /\ best \in {g1, g2, "none"} /\ g1 \in Outcomes /\ g2 \in Outcomes
      /\ Decisions!Rank[g1] <= Decisions!Rank[best]
      /\ Decisions!Rank[g2] <= Decisions!Rank[best]
  BY <1>1, BestIs DEF TwoRoles
<1> HIDE DEF g1, g2, best
<1>3. best = "full" <=> g1 = "full" \/ g2 = "full"
  BY <1>2 DEF Outcomes, Decisions!Rank
<1> QED
  BY <1>3 DEF g1, g2, best, FullByEither

\* Only in a pitch does one take part.
LEMMA ParticipantsAre ==
  ASSUME NEW u, NEW n, n # "Pitch"
  PROVE  ~Decisions!IsParticipant(u, n)
  BY DEF Decisions!IsParticipant, Decisions!ParticipantEdge

\* A team member logs their own time, and nobody else's.
LEMMA OwnTimeIsLoggedIn == ASSUME DecisionsInv PROVE Decisions!OwnTimeIsLogged
<1> DEFINE Mine(u) == /\ Decisions!EmployeeOf(u) # NoEmployee
                      /\ Decisions!EmployeeOf(u) = EmployeeIdOf["TimesheetEntry"]
<1> SUFFICES ASSUME NEW u \in Members, held[u] = {"team_member"}, ~Decisions!IsManager(u)
             PROVE  /\ Decisions!EdgeWrite(u, "logged_against", "TimesheetEntry", "Assignment") <=> Mine(u)
                    /\ Decisions!EdgeWrite(u, "logged_against", "TimesheetEntry", "Pitch") <=>
                         Mine(u) /\ Decisions!IsParticipant(u, "Pitch")
  BY DEF Decisions!OwnTimeIsLogged
<1>1. Decisions!EffectiveRoles(u) = {"team_member"}
  BY DEF Decisions!EffectiveRoles
<1>2. /\ Decisions!TypeOf("TimesheetEntry") = "TimesheetEntry"
      /\ Decisions!TypeOf("Assignment") = "Assignment" /\ Decisions!TypeOf("Pitch") = "Pitch"
      /\ "TimesheetEntry" \notin Employees
  BY TypesApart DEF WholeTypes
<1>3. /\ Decisions!GoverningHalf("logged_against", "TimesheetEntry") = {"record"}
      /\ Decisions!GoverningHalf("logged_against", "Assignment") = {"record"}
      /\ Decisions!GoverningHalf("logged_against", "Pitch") = {"identifying"}
  BY HalvesGovern DEF WholeTypes
<1>4. /\ "TimesheetEntry" \in Decisions!NodeTypes /\ "Assignment" \in Decisions!NodeTypes
      /\ "Pitch" \in Decisions!NodeTypes /\ "record" \in Decisions!Parts("TimesheetEntry")
      /\ "record" \in Decisions!Parts("Assignment") /\ "identifying" \in Decisions!Parts("Pitch")
  BY <1>2, WholeTypesAre, HalvesAre DEF WholeTypes, IsHalf, Decisions!Parts
<1>5. /\ Decisions!PolicyCell("team_member", "TimesheetEntry", "record") = Decisions!FullFor("own")
      /\ Decisions!PolicyCell("team_member", "Assignment", "record") = Decisions!Read
      /\ Decisions!PolicyCell("team_member", "Pitch", "identifying") = Decisions!None
  <2>1. /\ MetRow("TimesheetEntry") = TimeRow /\ MetRow("Assignment") = AssignmentRow
        /\ "TimesheetEntry" \in AdminTypes /\ "Assignment" \in AdminTypes
    BY DEF MetRow, AdminTypes
  <2>2. /\ TimeRow["team_member"] = Decisions!FullFor("own")
        /\ AssignmentRow["team_member"] = Decisions!Read /\ PitchRow["team_member"] = Decisions!None
    BY DEF TimeRow, AssignmentRow, PitchRow, Decisions!Row
  <2> QED
    BY <2>1, <2>2, WholeCells, HalfCells
<1>6. Decisions!EndpointSuffices(u, "logged_against", "TimesheetEntry") <=> Mine(u)
  <2> DEFINE subject == Decisions!StoredSubject("TimesheetEntry")
  <2>1. subject = EmployeeIdOf["TimesheetEntry"]
    BY <1>2 DEF Decisions!StoredSubject, Decisions!NamesEmployee
  <2> HIDE DEF subject
  <2>2. Decisions!Best(u, "TimesheetEntry", "record", subject, FALSE) =
          Decisions!Granted(Decisions!FullFor("own"), u, "TimesheetEntry", subject, FALSE)
    <3>1. OneRole(u, "TimesheetEntry", "record", "team_member", Decisions!FullFor("own"))
      BY <1>1, <1>2, <1>4, <1>5 DEF OneRole
    <3> QED
      BY <3>1, BestOfOne
  <2>3. Decisions!Granted(Decisions!FullFor("own"), u, "TimesheetEntry", subject, FALSE) =
          IF Mine(u) THEN "full" ELSE "none"
    BY <2>1 DEF Decisions!Granted, Decisions!FullFor, Decisions!Cell, Decisions!ScopeHolds
  <2> QED
    BY <1>2, <1>3, <2>2, <2>3, ReadSufficesFor, ParticipantsAre
       DEF Decisions!EndpointSuffices, Decisions!Suffices, subject
<1>7. Decisions!EndpointSuffices(u, "logged_against", "Assignment")
  <2> DEFINE subject == Decisions!StoredSubject("Assignment")
  <2> HIDE DEF subject
  <2>1. Decisions!Best(u, "Assignment", "record", subject, FALSE) =
          Decisions!Granted(Decisions!Read, u, "Assignment", subject, FALSE)
    <3>1. OneRole(u, "Assignment", "record", "team_member", Decisions!Read)
      BY <1>1, <1>2, <1>4, <1>5 DEF OneRole
    <3> QED
      BY <3>1, BestOfOne
  <2>2. Decisions!Granted(Decisions!Read, u, "Assignment", subject, FALSE) = "read"
    BY DEF Decisions!Granted, Decisions!Read, Decisions!ReadFor, Decisions!Cell, Decisions!ScopeHolds
  <2> QED
    BY <1>2, <1>3, <2>1, <2>2, ReadSufficesFor
       DEF Decisions!EndpointSuffices, Decisions!Suffices, subject
<1>8. Decisions!EndpointSuffices(u, "logged_against", "Pitch") <=> Decisions!IsParticipant(u, "Pitch")
  <2> DEFINE subject == Decisions!StoredSubject("Pitch")
  <2> HIDE DEF subject
  <2>1. Decisions!Best(u, "Pitch", "identifying", subject, FALSE) =
          Decisions!Granted(Decisions!None, u, "Pitch", subject, FALSE)
    <3>1. OneRole(u, "Pitch", "identifying", "team_member", Decisions!None)
      BY <1>1, <1>2, <1>4, <1>5 DEF OneRole
    <3> QED
      BY <3>1, BestOfOne
  <2>2. Decisions!Granted(Decisions!None, u, "Pitch", subject, FALSE) = "none"
    BY DEF Decisions!Granted, Decisions!None, Decisions!NoneFor, Decisions!Cell
  <2> QED
    BY <1>2, <1>3, <2>1, <2>2, ReadSufficesFor
       DEF Decisions!EndpointSuffices, Decisions!Suffices, subject
<1> HIDE DEF Mine
<1> QED
  BY <1>2, <1>6, <1>7, <1>8, EdgesJoin DEF Decisions!EdgeWrite

\* A manager staffs whom they manage, and nobody else.
LEMMA ReportsAreStaffedIn == ASSUME DecisionsInv PROVE Decisions!ReportsAreStaffed
<1> SUFFICES ASSUME NEW u \in Members, held[u] = {"team_member"}, Decisions!IsManager(u),
                    NEW e \in Employees
             PROVE  Decisions!EdgeWrite(u, "staffed_on", e, "Pitch") <=>
                      Decisions!ManagerOf(e) = Decisions!EmployeeOf(u)
  BY DEF Decisions!ReportsAreStaffed
<1>1. Decisions!EffectiveRoles(u) = {"team_member", "manager"}
  BY DEF Decisions!EffectiveRoles
<1>2. Decisions!TypeOf(e) = "Employee" /\ Decisions!TypeOf("Pitch") = "Pitch" /\ e # "Pitch"
  BY TypesApart
<1>3. /\ Decisions!GoverningHalf("staffed_on", "Employee") = {"operational"}
      /\ Decisions!GoverningHalf("staffed_on", "Pitch") = {"identifying"}
  BY HalvesGovern DEF EmployeeEdges
<1>4. /\ "Employee" \in Decisions!NodeTypes /\ "operational" \in Decisions!Parts(e)
      /\ "Pitch" \in Decisions!NodeTypes /\ "identifying" \in Decisions!Parts("Pitch")
  BY <1>2, HalvesAre DEF IsHalf, Decisions!Parts
<1>5. /\ Decisions!PolicyCell("team_member", "Employee", "operational") =
           Decisions!ReadByAll(Decisions!ReadFor("own-plus-team"))
      /\ Decisions!PolicyCell("manager", "Employee", "operational") =
           Decisions!ReadByAll(Decisions!FullFor("direct-reports"))
      /\ Decisions!PolicyCell("manager", "Pitch", "identifying") = Decisions!Full
  BY HalfCells DEF EmployeeRow, PitchRow, Decisions!Row
<1>6. Decisions!EndpointSuffices(u, "staffed_on", "Pitch")
  <2>1. Decisions!Best(u, "Pitch", "identifying", Decisions!StoredSubject("Pitch"), FALSE) = "full"
    BY <1>1, <1>2, <1>4, <1>5, BestIsFull
  <2> QED
    BY <1>2, <1>3, <2>1 DEF Decisions!EndpointSuffices, Decisions!Suffices
<1>7. Decisions!EndpointSuffices(u, "staffed_on", e) <=>
        Decisions!ManagerOf(e) = Decisions!EmployeeOf(u)
  <2> DEFINE own == Decisions!ReadByAll(Decisions!ReadFor("own-plus-team"))
             direct == Decisions!ReadByAll(Decisions!FullFor("direct-reports"))
  <2>1. Decisions!StoredSubject(e) = e
    BY DEF Decisions!StoredSubject
  <2>2. TwoRoles(u, e, "operational", "team_member", own, "manager", direct)
    BY <1>1, <1>2, <1>4, <1>5 DEF TwoRoles
  <2>3. Decisions!Granted(own, u, e, e, FALSE) # "full"
    BY DEF Decisions!Granted, Decisions!ReadByAll, Decisions!ReadFor, Decisions!Cell
  <2>4. Decisions!EmployeeOf(u) # NoEmployee
    BY DEF Decisions!IsManager
  <2>5. Decisions!Granted(direct, u, e, e, FALSE) = "full" <=>
          Decisions!ManagerOf(e) = Decisions!EmployeeOf(u)
    BY <2>4
       DEF Decisions!Granted, Decisions!ReadByAll, Decisions!FullFor, Decisions!Cell, Decisions!ScopeHolds
  <2> HIDE DEF own, direct
  <2>6. Decisions!Best(u, e, "operational", e, FALSE) = "full" <=>
          \/ Decisions!Granted(own, u, e, e, FALSE) = "full"
          \/ Decisions!Granted(direct, u, e, e, FALSE) = "full"
    <3>1. FullByEither(u, e, "operational", own, direct, e)
      BY <2>2, BestOfTwo
    <3> QED
      BY <3>1 DEF FullByEither
  <2>7. Decisions!EndpointSuffices(u, "staffed_on", e) <=>
          Decisions!Suffices(Decisions!Best(u, e, "operational", e, FALSE), u, "staffed_on", e)
    <3>1. Decisions!GoverningHalf("staffed_on", Decisions!TypeOf(e)) = {"operational"}
      BY <1>2, <1>3
    <3>2. Decisions!EndpointSuffices(u, "staffed_on", e) <=>
            \E key \in {"operational"} :
              Decisions!Suffices(Decisions!Best(u, e, key, e, FALSE), u, "staffed_on", e)
      BY <2>1, <3>1 DEF Decisions!EndpointSuffices
    <3> QED
      BY <3>2
  <2>8. ~Decisions!IsParticipant(u, e)
    BY <1>2, ParticipantsAre
  <2>9. Decisions!Suffices(Decisions!Best(u, e, "operational", e, FALSE), u, "staffed_on", e) <=>
          Decisions!Best(u, e, "operational", e, FALSE) = "full"
    BY <1>2, <2>8, ReadSufficesFor DEF Decisions!Suffices
  <2> QED
    BY <2>3, <2>5, <2>6, <2>7, <2>9
<1> QED
  BY <1>2, <1>6, <1>7, EdgesJoin DEF Decisions!EdgeWrite

\* The part by which the row of a whole record is judged.
LEMMA RecordIsRow ==
  ASSUME NEW type \in WholeTypes
  PROVE  Decisions!RowPartition(type) = "record"
<1>1. DOMAIN Decisions!Partitions(type) = {"record"}
  BY WholeTypesAre
<1>2. type \notin DOMAIN Decisions!FirstHalf
  BY DEF Decisions!FirstHalf, WholeTypes
<1>3. CASE \E k \in DOMAIN Decisions!Partitions(type) : Decisions!TierOf(type, k) = 0
  <2> DEFINE it == CHOOSE k \in DOMAIN Decisions!Partitions(type) : Decisions!TierOf(type, k) = 0
  <2>1. it \in DOMAIN Decisions!Partitions(type)
    BY <1>3, Zenon
  <2>2. Decisions!RowPartition(type) = it
    BY <1>3 DEF Decisions!RowPartition
  <2> QED
    BY <1>1, <2>1, <2>2
<1>4. CASE ~\E k \in DOMAIN Decisions!Partitions(type) : Decisions!TierOf(type, k) = 0
  BY <1>2, <1>4 DEF Decisions!RowPartition
<1> QED
  BY <1>3, <1>4

\* What a job writes, its operation lists.
LEMMA JobsAreNotStuckIn == Decisions!JobsAreNotStuck
<1>1. /\ Decisions!RowPartition("TimesheetAnomalyFlag") = "record"
      /\ Decisions!RowPartition("RevenueGapAlert") = "record"
      /\ Decisions!RowPartition("SkillGap") = "record"
      /\ Decisions!RowPartition("Notification") = "record"
  BY RecordIsRow DEF WholeTypes
<1>2. /\ "create-flag" \in Decisions!OperationsOf["anomaly_evaluate"]
      /\ "gap-alert" \in Decisions!OperationsOf["gap_alert_evaluate"]
      /\ "skill-gap" \in Decisions!OperationsOf["skill_gap_evaluate"]
      /\ "deliver" \in Decisions!OperationsOf["notification_deliver"]
  BY DEF Decisions!OperationsOf
<1>3. /\ <<"TimesheetAnomalyFlag", "record">> \in Decisions!NodeTargets["create-flag"]
      /\ <<"RevenueGapAlert", "record">> \in Decisions!NodeTargets["gap-alert"]
      /\ <<"SkillGap", "record">> \in Decisions!NodeTargets["skill-gap"]
      /\ <<"Notification", "record">> \in Decisions!NodeTargets["deliver"]
  BY DEF Decisions!NodeTargets, Decisions!Each
<1>4. /\ {"create-flag", "gap-alert", "skill-gap", "deliver"} \subseteq DOMAIN Decisions!EdgeTargets
      /\ <<"triggered_by", "TimesheetAnomalyFlag", "Employee">> \in Decisions!EdgeTargets["create-flag"]
      /\ <<"triggered_by", "RevenueGapAlert", "Employee">> \in Decisions!EdgeTargets["gap-alert"]
      /\ <<"gap_for", "SkillGap", "Skill">> \in Decisions!EdgeTargets["skill-gap"]
      /\ <<"delivered_to", "Notification", "User">> \in Decisions!EdgeTargets["deliver"]
  BY DEF Decisions!EdgeTargets, Decisions!Each
<1> QED
  BY <1>1, <1>2, <1>3, <1>4, EdgesJoin
     DEF Decisions!JobsAreNotStuck, Decisions!JobWrites, Decisions!SystemMayTouch, Decisions!SystemMayLink

\* The parts of PlansAreWritable.
LEMMA PlansAreWritableIn == ASSUME DecisionsInv PROVE Decisions!PlansAreWritable
  BY AdminsAreNotStuckIn, OwnTimeIsLoggedIn, ReportsAreStaffedIn, JobsAreNotStuckIn, GroupsAreWellFormed
     DEF Decisions!PlansAreWritable

-----------------------------------------------------------------------------
(* In every state *)

\* The invariant of the decisions, in every state of a behaviour.
LEMMA DecisionsAlways == MutationSpec => []DecisionsInv
<1>1. MutationInit => DecisionsInv
  BY DecisionsInitInv DEF MutationInit
<1>2. DecisionsInv /\ [MutationNext]_allVars => DecisionsInv'
  <2> SUFFICES ASSUME DecisionsInv, [MutationNext]_allVars PROVE DecisionsInv'
    OBVIOUS
  <2>1. CASE OfDecisions /\ Decisions!Next
    BY <2>1, DecisionsNextInv
  <2>2. CASE UNCHANGED decisionVars
    BY <2>2 DEF decisionVars, DecisionsInv
  <2> QED
    BY <2>1, <2>2 DEF MutationNext, OfPipeline, allVars
<1> QED
  BY <1>1, <1>2, PTL DEF MutationSpec

\* Whatever the members, Employees, roles held and edges drawn, the readers named for a
\* protected record (resolveReaderSet, reader-set.ts) are the members whom decideRead
\* (interceptor.ts) lets read it, computed from the edges instead of from the policy: all of
\* them where a record is kept from whom it concerns, and otherwise those whose login is one
\* Employee's, since two requests of employee.linkUser may give it to two.  Whom a record
\* concerns, if one Employee, does not read it; no protected record is written that nobody
\* could read; and what resolvePermission says a role has without a row, its holders have for
\* every row but one that concerns them.
THEOREM GrantsAlwaysAgree == MutationSpec => []GrantsAgree
<1>1. DecisionsInv => GrantsAgree
  BY GrantsAgreeIn DEF GrantsAgree
<1> QED
  BY <1>1, DecisionsAlways, PTL

\* A graph walk (authorizeTraversal, interceptor.ts; the cap on results apart) meets exactly the
\* nodes that a path of at most maxDepth edges leads to along nodes its caller may read, less
\* those the caller has no access to, whatever the graph, the edge types and the depth.  Asked
\* without a time, as it is by default, the edges are the closed ones as well as the open.
THEOREM WalksAreExact == MutationSpec => []WalkIsExact
<1>1. DecisionsInv => WalkIsExact
  BY WalkIsExactIn DEF WalkIsExact
<1> QED
  BY <1>1, DecisionsAlways, PTL

\* Whoever a mutation is for may draw the edges it draws (edgeRoleDecision, interceptor.ts): an
\* Owner and an HR Admin all of theirs, a team member those of their own time and no other's,
\* a manager those of their reports and no other's, a job what its operation lists; and every
\* registered edge is governed by halves its endpoints have.
THEOREM PlansAlwaysWritable == MutationSpec => []PlansAreWritable
<1>1. DecisionsInv => PlansAreWritable
  BY PlansAreWritableIn DEF PlansAreWritable
<1> QED
  BY <1>1, DecisionsAlways, PTL
=============================================================================
