--------------------------- MODULE DeviceErasure ---------------------------
(***************************************************************************)
(* Erasing the cache databases of a browser (sync-client/erasure.ts) when  *)
(* access is revoked or the person signs out (engine.ts, host.ts), and the *)
(* start of a session, which finishes an erase that did not complete       *)
(* before it opens its cache.                                              *)
(*                                                                         *)
(* There is one worker per cache (a SharedWorker), or one per tab where    *)
(* there are none: CacheOf says which cache a worker opens.  All of them   *)
(* share one list of names still to delete, in the device database, which  *)
(* each reads and writes back in transactions of their own.                *)
(***************************************************************************)
EXTENDS Naturals, FiniteSets

CONSTANTS
  Workers, Caches, CacheOf,
  MaxFaults,   \* bound: the crashes and failed deletes of a behaviour
  MaxOpens     \* bound: the sessions opened in a behaviour

ASSUME DeviceErasureAssumption ==
  /\ CacheOf \in [Workers -> Caches]
  /\ MaxFaults \in Nat
  /\ MaxOpens \in Nat

VARIABLES
  pending,   \* the device database: "erase-pending"
  data,      \* the cache databases that exist
  queued,    \* deletes a worker gave up on that wait in the browser: <<worker, cache>>
  state,     \* each worker
  told,      \* workers an "erase" or "erase-all" message is on its way to
  job,       \* the erase each worker is in
  due,       \* history: databases whose erasure was recorded and that still exist
  crossed,   \* history: a start or erase began while another worker's was under way
  faults, opens

vars == <<pending, data, queued, state, told, job, due, crossed, faults, opens>>

-----------------------------------------------------------------------------
States == {"down", "starting", "ready", "running", "stopped"}
Steps == {"none", "list", "read", "record", "delete"}
\* asked: what the worker itself wants erased; left, failed: the loop over wanted.
Job == [at : Steps, asked : SUBSET Caches, left : SUBSET Caches, failed : SUBSET Caches]
NoJob == [at |-> "none", asked |-> {}, left |-> {}, failed |-> {}]

TypeOK ==
  /\ pending \in SUBSET Caches
  /\ data \in SUBSET Caches
  /\ queued \in SUBSET (Workers \X Caches)
  /\ state \in [Workers -> States]
  /\ told \in SUBSET Workers
  /\ job \in [Workers -> Job]
  /\ due \in SUBSET data
  /\ crossed \in BOOLEAN
  /\ faults \in 0..MaxFaults
  /\ opens \in 0..MaxOpens
  \* No worker erases while it holds a connection of its own.
  /\ \A w \in Workers : state[w] \in {"down", "ready", "running"} => job[w] = NoJob

Init ==
  /\ pending = {}
  /\ data = {}
  /\ queued = {}
  /\ state = [w \in Workers |-> "down"]
  /\ told = {}
  /\ job = [w \in Workers |-> NoJob]
  /\ due = {}
  /\ crossed = FALSE
  /\ faults = 0
  /\ opens = 0

Open(c) == \E w \in Workers : state[w] = "running" /\ CacheOf[w] = c
Awaited(c) == \E w \in Workers : <<w, c>> \in queued

Busy(w) == state[w] \in {"starting", "ready"} \/ job[w].at # "none"
Begins(w) == crossed' = (crossed \/ \E v \in Workers \ {w} : Busy(v))

Fault == faults < MaxFaults /\ faults' = faults + 1

-----------------------------------------------------------------------------
(* eraseDatabases *)

\* eraseAllCaches: every cache of the origin, whosever it is.
List(w) ==
  /\ job[w].at = "list"
  /\ job' = [job EXCEPT ![w] = [@ EXCEPT !.at = "read", !.asked = job[w].asked \cup data]]
  /\ UNCHANGED <<pending, data, queued, state, told, due, crossed, faults, opens>>

ReadPending(w) ==
  /\ job[w].at = "read"
  /\ job' = [job EXCEPT ![w] = [@ EXCEPT !.at = "record", !.left = pending \cup job[w].asked]]
  /\ UNCHANGED <<pending, data, queued, state, told, due, crossed, faults, opens>>

\* Mutant: nothing is recorded before the deletes.
RecordedAfterwards(wanted) == pending

Recorded(wanted) == wanted

Record(w) ==
  /\ job[w].at = "record"
  /\ pending' = Recorded(job[w].left)
  /\ due' = due \cup (job[w].asked \cap data)
  /\ job' = [job EXCEPT ![w] = [@ EXCEPT !.at = "delete"]]
  /\ UNCHANGED <<data, queued, state, told, crossed, faults, opens>>

\* The database is gone, from here on.
Gone(c) ==
  /\ data' = data \ {c}
  /\ due' = due \ {c}
  /\ queued' = queued \ (Workers \X {c})

Delete(w, c) ==
  /\ job[w].at = "delete"
  /\ c \in job[w].left
  /\ ~Open(c)
  /\ Gone(c)
  /\ job' = [job EXCEPT ![w] = [@ EXCEPT !.left = job[w].left \ {c}]]
  /\ UNCHANGED <<pending, state, told, crossed, faults, opens>>

\* Blocked by an open connection for ten seconds (the request stays with the
\* browser), or failed outright.
DeleteFails(w, c) ==
  /\ job[w].at = "delete"
  /\ c \in job[w].left
  /\ job' = [job EXCEPT ![w] = [@ EXCEPT !.left = job[w].left \ {c},
                                         !.failed = job[w].failed \cup {c}]]
  /\ queued' = IF Open(c) THEN queued \cup {<<w, c>>} ELSE queued
  /\ Fault
  /\ UNCHANGED <<pending, data, state, told, due, crossed, opens>>

\* The connection that blocked a delete has closed.
BrowserDeletes(c) ==
  /\ Awaited(c)
  /\ ~Open(c)
  /\ Gone(c)
  /\ UNCHANGED <<pending, state, told, job, crossed, faults, opens>>

\* Mutants: a failed delete is forgotten; a finished one is not.
NothingLeft(failed) == {}
StillListed(failed) == pending

LeftToDo(failed) == failed

\* EraseIncompleteError ends a start; a revoked or signed-out session is over anyway.
AfterErase(w) ==
  IF state[w] # "starting" THEN state[w] ELSE IF job[w].failed = {} THEN "ready" ELSE "down"

FinishErase(w) ==
  /\ job[w].at = "delete"
  /\ job[w].left = {}
  /\ pending' = LeftToDo(job[w].failed)
  /\ state' = [state EXCEPT ![w] = AfterErase(w)]
  /\ job' = [job EXCEPT ![w] = NoJob]
  /\ UNCHANGED <<data, queued, told, due, crossed, faults, opens>>

-----------------------------------------------------------------------------
(* Sessions *)

\* Mutant: a start does not look for an erase that did not complete.
NothingPending == TRUE

NonePending == pending = {}

\* createSession: completePendingErase() comes first.
Start(w) ==
  /\ state[w] = "down"
  /\ NonePending => opens < MaxOpens
  /\ Begins(w)
  /\ IF NonePending
       THEN state' = [state EXCEPT ![w] = "ready"] /\ UNCHANGED job
       ELSE /\ state' = [state EXCEPT ![w] = "starting"]
            /\ job' = [job EXCEPT ![w] = [NoJob EXCEPT !.at = "read"]]
  /\ UNCHANGED <<pending, data, queued, told, due, faults, opens>>

\* openSyncDatabase: an open waits behind the deletes the browser has queued.
OpenCache(w) ==
  /\ state[w] = "ready"
  /\ opens < MaxOpens
  /\ ~Awaited(CacheOf[w])
  /\ data' = data \cup {CacheOf[w]}
  /\ state' = [state EXCEPT ![w] = "running"]
  /\ opens' = opens + 1
  /\ UNCHANGED <<pending, queued, told, job, due, crossed, faults>>

Released(w) == "stopped"

\* eraseLocalData("workspace"): tell the other tabs of this cache, let go of it, erase it.
Revoked(w) ==
  /\ state[w] = "running"
  /\ Begins(w)
  /\ told' = told \cup {v \in Workers \ {w} : state[v] = "running" /\ CacheOf[v] = CacheOf[w]}
  /\ state' = [state EXCEPT ![w] = Released(w)]
  /\ job' = [job EXCEPT ![w] = [NoJob EXCEPT !.at = "read", !.asked = {CacheOf[w]}]]
  /\ UNCHANGED <<pending, data, queued, due, faults, opens>>

\* eraseLocalData("all"): every session of the origin lets go.
SignOut(w) ==
  /\ state[w] = "running"
  /\ Begins(w)
  /\ told' = told \cup {v \in Workers \ {w} : state[v] = "running"}
  /\ state' = [state EXCEPT ![w] = Released(w)]
  /\ job' = [job EXCEPT ![w] = [NoJob EXCEPT !.at = "list", !.asked = {CacheOf[w]}]]
  /\ UNCHANGED <<pending, data, queued, due, faults, opens>>

\* The message arrives: the session closes its database.
LetGo(w) ==
  /\ w \in told
  /\ told' = told \ {w}
  /\ state' = [state EXCEPT ![w] = IF @ = "running" THEN "stopped" ELSE @]
  /\ UNCHANGED <<pending, data, queued, job, due, crossed, faults, opens>>

\* The tabs of the worker close; its memory, its connection and, maybe, the
\* deletes it asked the browser for are gone.
Ended(w, drops) ==
  /\ state' = [state EXCEPT ![w] = "down"]
  /\ job' = [job EXCEPT ![w] = NoJob]
  /\ told' = told \ {w}
  /\ queued' = IF drops THEN queued \ ({w} \X Caches) ELSE queued
  /\ UNCHANGED <<pending, data, due, crossed, opens>>

Close(w, drops) ==
  /\ state[w] \in {"running", "stopped"}
  /\ job[w] = NoJob
  /\ Ended(w, drops)
  /\ UNCHANGED faults

Crash(w, drops) ==
  /\ state[w] # "down"
  /\ Fault
  /\ Ended(w, drops)

-----------------------------------------------------------------------------
EraseStep(w) ==
  \/ List(w) \/ ReadPending(w) \/ Record(w)
  \/ (\E c \in Caches : Delete(w, c))
  \/ FinishErase(w)

Next ==
  \/ \E w \in Workers :
       \/ Start(w) \/ OpenCache(w) \/ Revoked(w) \/ SignOut(w) \/ LetGo(w) \/ EraseStep(w)
       \/ \E c \in Caches : DeleteFails(w, c)
       \/ \E drops \in BOOLEAN : Close(w, drops) \/ Crash(w, drops)
  \/ \E c \in Caches : BrowserDeletes(c)

Spec == Init /\ [][Next]_vars

\* Promises settle, messages arrive, tabs of an ended session are closed, and
\* the application is opened again.
FairSpec ==
  /\ Spec
  /\ \A w \in Workers :
       /\ WF_vars(EraseStep(w)) /\ WF_vars(LetGo(w)) /\ WF_vars(Start(w))
       /\ WF_vars(OpenCache(w))
       /\ WF_vars(state[w] = "stopped" /\ Close(w, FALSE))
  /\ \A c \in Caches : WF_vars(BrowserDeletes(c))

-----------------------------------------------------------------------------
(* Properties *)

\* The list of databases to delete is read and written back without a lock, so what
\* follows is promised as long as no start or erase crossed another.

\* erasure.ts: the databases still to delete are recorded before anything is
\* deleted, so whatever fails or crashes, the intent is there until they are gone.
NothingForgotten == ~crossed => due \subseteq pending

\* "the next start finishes the job BEFORE it opens a cache": no session opens
\* data that a revocation or a sign-out was to erase.
OpensNothingDue ==
  [][\A w \in Workers : ~crossed /\ OpenCache(w) => CacheOf[w] \notin due]_vars

\* Only what a revocation or sign-out covers is deleted: the cache of a session
\* opened since, with its outbox, is not taken by an erase of before.
KeepsWhatIsNew == [][crossed \/ data \ data' \subseteq due]_vars

\* What is to be erased is erased in the end, as long as the application is opened again.
ErasedInTheEnd ==
  \A c \in Caches : (c \in due /\ ~crossed) ~> (c \notin due \/ crossed)
=============================================================================
