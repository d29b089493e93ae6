------------------------ MODULE DeviceErasureProofs ------------------------
(***************************************************************************)
(* Proofs about module DeviceErasure: as long as no start or erase crosses *)
(* another, what was recorded for erasure stays listed until it is gone,   *)
(* is not opened before, and is all that is deleted.                       *)
(***************************************************************************)
EXTENDS DeviceErasure, TLAPS

\* What the missing lock would give: one start or erase at a time.
OneAtATime == \A v, w \in Workers : Busy(v) /\ Busy(w) => v = w

\* Between the transaction that reads the list and the one that writes it, the
\* loop's own variables account for it.
ListAccounted ==
  /\ due \subseteq pending
  /\ \A w \in Workers :
       /\ job[w].at = "record" => job[w].left = pending \cup job[w].asked
       /\ job[w].at = "delete" => due \subseteq job[w].left \cup job[w].failed
       /\ state[w] = "ready" => pending = {}

\* Nothing that exists is listed, being deleted or awaited unless it is due.
OnlyWhatIsDue ==
  /\ pending \cap data \subseteq due
  /\ \A w \in Workers :
       IF job[w].at = "delete" THEN (job[w].left \cup job[w].failed) \cap data \subseteq due
                               ELSE job[w].failed = {}
  /\ \A c \in data : Awaited(c) => c \in due

Calm == OneAtATime /\ ListAccounted /\ OnlyWhatIsDue

\* The inductive invariant.
IInv == TypeOK /\ (~crossed => Calm)

\* A worker that erases nothing.
LEMMA NoJobIsOne == NoJob \in Job /\ NoJob.at = "none"
  BY DEF Job, NoJob, Steps

\* An erase is written one field at a time, and keeps its shape.
LEMMA JobShape ==
  ASSUME NEW j \in Job, NEW s \in Steps, NEW A \in SUBSET Caches, NEW B \in SUBSET Caches
  PROVE  /\ j.at # "none" => j # NoJob
         /\ j.asked \in SUBSET Caches /\ j.left \in SUBSET Caches /\ j.failed \in SUBSET Caches
         /\ [j EXCEPT !.at = s] \in Job
         /\ [j EXCEPT !.at = s, !.asked = A] \in Job
         /\ [j EXCEPT !.at = s, !.left = A] \in Job
         /\ [j EXCEPT !.left = A] \in Job
         /\ [j EXCEPT !.left = A, !.failed = B] \in Job
<1>1. j.at # "none" => j # NoJob
  BY DEF NoJob
<1>2. j.asked \in SUBSET Caches /\ j.left \in SUBSET Caches /\ j.failed \in SUBSET Caches
  BY DEF Job
<1>3. [j EXCEPT !.at = s] \in Job /\ [j EXCEPT !.left = A] \in Job
  BY DEF Job
<1>4. [j EXCEPT !.at = s, !.asked = A] \in Job
  BY DEF Job
<1>5. [j EXCEPT !.at = s, !.left = A] \in Job
  BY DEF Job
<1>6. [j EXCEPT !.left = A, !.failed = B] \in Job
  BY DEF Job
<1> QED
  BY <1>1, <1>2, <1>3, <1>4, <1>5, <1>6

\* Every step keeps the types, and keeps a worker that has a connection out of an erase.
LEMMA TypeStep == TypeOK /\ [Next]_vars => TypeOK'
<1> SUFFICES ASSUME TypeOK, [Next]_vars PROVE TypeOK'
  OBVIOUS
<1> USE DeviceErasureAssumption DEF TypeOK
<1>0. \A w \in Workers :
        job[w] \in Job /\ (job[w].at # "none" => state[w] \notin {"down", "ready", "running"})
  <2>1. \A w \in Workers : job[w] \in Job
    OBVIOUS
  <2> QED
    BY <2>1, NoJobIsOne
<1>1. ASSUME NEW w \in Workers, List(w) PROVE TypeOK'
  <2>1. job' \in [Workers -> Job]
    <3>1. [job[w] EXCEPT !.at = "read", !.asked = job[w].asked \cup data] \in Job
      BY <1>1, <1>0, JobShape DEF List, Steps
    <3> QED
      BY <1>1, <3>1 DEF List
  <2> QED
    BY <1>1, <1>0, <2>1 DEF List
<1>2. ASSUME NEW w \in Workers, ReadPending(w) PROVE TypeOK'
  <2>1. job' \in [Workers -> Job]
    <3>1. [job[w] EXCEPT !.at = "record", !.left = pending \cup job[w].asked] \in Job
      BY <1>2, <1>0, JobShape DEF ReadPending, Steps
    <3> QED
      BY <1>2, <3>1 DEF ReadPending
  <2> QED
    BY <1>2, <1>0, <2>1 DEF ReadPending
<1>3. ASSUME NEW w \in Workers, Record(w) PROVE TypeOK'
  <2>1. job' \in [Workers -> Job]
    <3>1. [job[w] EXCEPT !.at = "delete"] \in Job
      BY <1>3, <1>0, JobShape DEF Record, Steps
    <3> QED
      BY <1>3, <3>1 DEF Record
  <2>2. job[w].left \in SUBSET Caches
    BY <1>0, JobShape DEF Steps
  <2>3. state[w] \notin {"down", "ready", "running"}
    BY <1>3, <1>0 DEF Record
  <2>4. \A v \in Workers : state'[v] \in {"down", "ready", "running"} => job'[v] = NoJob
    BY <1>3, <2>3 DEF Record
  <2> QED
    BY <1>3, <2>1, <2>2, <2>4 DEF Record, Recorded
<1>4. ASSUME NEW w \in Workers, NEW c \in Caches, Delete(w, c) PROVE TypeOK'
  <2>1. job' \in [Workers -> Job]
    <3>1. [job[w] EXCEPT !.left = job[w].left \ {c}] \in Job
      BY <1>4, <1>0, JobShape DEF Delete, Steps
    <3> QED
      BY <1>4, <3>1 DEF Delete
  <2> QED
    BY <1>4, <1>0, <2>1 DEF Delete, Gone
<1>5. ASSUME NEW w \in Workers, NEW c \in Caches, DeleteFails(w, c) PROVE TypeOK'
  <2>1. job' \in [Workers -> Job]
    <3>1. [job[w] EXCEPT !.left = job[w].left \ {c}, !.failed = job[w].failed \cup {c}] \in Job
      <4>1. job[w].left \ {c} \in SUBSET Caches /\ job[w].failed \cup {c} \in SUBSET Caches
        BY <1>0, JobShape DEF Steps
      <4> QED
        BY <4>1, <1>0, JobShape DEF Steps
    <3> QED
      BY <1>5, <3>1 DEF DeleteFails
  <2> QED
    BY <1>5, <1>0, <2>1 DEF DeleteFails, Fault
<1>6. ASSUME NEW c \in Caches, BrowserDeletes(c) PROVE TypeOK'
  BY <1>6 DEF BrowserDeletes, Gone
<1>7. ASSUME NEW w \in Workers, FinishErase(w) PROVE TypeOK'
  BY <1>7, <1>0, JobShape, NoJobIsOne DEF FinishErase, LeftToDo, AfterErase, States, Steps
<1>8. ASSUME NEW w \in Workers, Start(w) PROVE TypeOK'
  <2>1. crossed' \in BOOLEAN
    BY <1>8 DEF Start, Begins
  <2>2. [NoJob EXCEPT !.at = "read"] \in Job
    BY NoJobIsOne, JobShape DEF Steps
  <2>3. job' \in [Workers -> Job]
    BY <1>8, <2>2 DEF Start
  <2> QED
    BY <1>8, <2>1, <2>3 DEF Start, States
<1>9. ASSUME NEW w \in Workers, OpenCache(w) PROVE TypeOK'
  BY <1>9 DEF OpenCache, States
<1>10. ASSUME NEW w \in Workers, Revoked(w) PROVE TypeOK'
  <2>1. crossed' \in BOOLEAN
    BY <1>10 DEF Revoked, Begins
  <2>2. [NoJob EXCEPT !.at = "read", !.asked = {CacheOf[w]}] \in Job
    <3>1. {CacheOf[w]} \in SUBSET Caches
      OBVIOUS
    <3> QED
      BY <3>1, NoJobIsOne, JobShape DEF Steps
  <2>3. job' \in [Workers -> Job]
    BY <1>10, <2>2 DEF Revoked
  <2> QED
    BY <1>10, <2>1, <2>3 DEF Revoked, Released, States
<1>11. ASSUME NEW w \in Workers, SignOut(w) PROVE TypeOK'
  <2>1. crossed' \in BOOLEAN
    BY <1>11 DEF SignOut, Begins
  <2>2. [NoJob EXCEPT !.at = "list", !.asked = {CacheOf[w]}] \in Job
    <3>1. {CacheOf[w]} \in SUBSET Caches
      OBVIOUS
    <3> QED
      BY <3>1, NoJobIsOne, JobShape DEF Steps
  <2>3. job' \in [Workers -> Job]
    BY <1>11, <2>2 DEF SignOut
  <2> QED
    BY <1>11, <2>1, <2>3 DEF SignOut, Released, States
<1>12. ASSUME NEW w \in Workers, LetGo(w) PROVE TypeOK'
  BY <1>12 DEF LetGo, States
<1>13. ASSUME NEW w \in Workers, NEW drops \in BOOLEAN, Close(w, drops) \/ Crash(w, drops)
       PROVE TypeOK'
  <2>1. faults' \in 0..MaxFaults
    BY <1>13 DEF Close, Crash, Fault
  <2>2. Ended(w, drops)
    BY <1>13 DEF Close, Crash
  <2>3. NoJob \in Job
    BY NoJobIsOne
  <2> QED
    BY <2>1, <2>2, <2>3 DEF Ended, States
<1>14. CASE UNCHANGED vars
  BY <1>14 DEF vars
<1> QED
  BY <1>1, <1>2, <1>3, <1>4, <1>5, <1>6, <1>7, <1>8, <1>9, <1>10, <1>11, <1>12, <1>13, <1>14
     DEF Next, EraseStep

\* A start or an erase that finds another one under way is noted for good, and no other
\* step makes a worker busy: until then there is one at a time.
LEMMA OneAtATimeStep ==
  ASSUME TypeOK, ~crossed => OneAtATime, [Next]_vars, ~crossed'
  PROVE  ~crossed /\ OneAtATime'
<1> USE DEF TypeOK, NoJob, Busy, OneAtATime, Job, Steps, States
<1>1. ASSUME NEW w \in Workers, List(w) PROVE ~crossed /\ OneAtATime'
  BY <1>1 DEF List
<1>2. ASSUME NEW w \in Workers, ReadPending(w) PROVE ~crossed /\ OneAtATime'
  BY <1>2 DEF ReadPending
<1>3. ASSUME NEW w \in Workers, Record(w) PROVE ~crossed /\ OneAtATime'
  BY <1>3 DEF Record
<1>4. ASSUME NEW w \in Workers, NEW c \in Caches, Delete(w, c) PROVE ~crossed /\ OneAtATime'
  BY <1>4 DEF Delete
<1>5. ASSUME NEW w \in Workers, NEW c \in Caches, DeleteFails(w, c)
      PROVE ~crossed /\ OneAtATime'
  BY <1>5 DEF DeleteFails
<1>6. ASSUME NEW c \in Caches, BrowserDeletes(c) PROVE ~crossed /\ OneAtATime'
  BY <1>6 DEF BrowserDeletes
<1>7. ASSUME NEW w \in Workers, FinishErase(w) PROVE ~crossed /\ OneAtATime'
  BY <1>7 DEF FinishErase, AfterErase
<1>8. ASSUME NEW w \in Workers, Start(w) PROVE ~crossed /\ OneAtATime'
  <2>1. ~crossed /\ \A v \in Workers \ {w} : ~Busy(v)
    BY <1>8 DEF Start, Begins
  <2>2. \A v \in Workers \ {w} : ~Busy(v)'
    BY <1>8, <2>1 DEF Start
  <2> QED
    BY <2>1, <2>2
<1>9. ASSUME NEW w \in Workers, OpenCache(w) PROVE ~crossed /\ OneAtATime'
  BY <1>9 DEF OpenCache
<1>10. ASSUME NEW w \in Workers, Revoked(w) \/ SignOut(w) PROVE ~crossed /\ OneAtATime'
  <2>1. ~crossed /\ \A v \in Workers \ {w} : ~Busy(v)
    BY <1>10 DEF Revoked, SignOut, Begins
  <2>2. \A v \in Workers \ {w} : ~Busy(v)'
    BY <1>10, <2>1 DEF Revoked, SignOut, Released
  <2> QED
    BY <2>1, <2>2
<1>11. ASSUME NEW w \in Workers, LetGo(w) PROVE ~crossed /\ OneAtATime'
  BY <1>11 DEF LetGo
<1>12. ASSUME NEW w \in Workers, NEW drops \in BOOLEAN, Close(w, drops) \/ Crash(w, drops)
       PROVE ~crossed /\ OneAtATime'
  BY <1>12 DEF Close, Crash, Ended
<1>13. CASE UNCHANGED vars
  BY <1>13 DEF vars
<1> QED
  BY <1>1, <1>2, <1>3, <1>4, <1>5, <1>6, <1>7, <1>8, <1>9, <1>10, <1>11, <1>12, <1>13
     DEF Next, EraseStep

\* The erase under way is the only one that touches the list, so between its two
\* transactions its own variables say what is still to be deleted.
LEMMA ListStep ==
  ASSUME TypeOK, OneAtATime, ListAccounted, OneAtATime', [Next]_vars
  PROVE  ListAccounted'
<1> USE DEF TypeOK, NoJob, Busy, Job, Steps, States, ListAccounted
<1>1. ASSUME NEW w \in Workers, List(w) PROVE ListAccounted'
  BY <1>1 DEF List
<1>2. ASSUME NEW w \in Workers, ReadPending(w) PROVE ListAccounted'
  BY <1>2 DEF ReadPending
<1>3. ASSUME NEW w \in Workers, Record(w) PROVE ListAccounted'
  <2>1. job[w].left = pending \cup job[w].asked /\ pending' = job[w].left
    BY <1>3 DEF Record, Recorded
  <2>2. due' \subseteq pending'
    BY <1>3, <2>1 DEF Record
  <2>3. ASSUME NEW v \in Workers, v # w
        PROVE  job'[v] = job[v] /\ job[v].at = "none" /\ state'[v] = state[v] /\ state[v] # "ready"
    BY <1>3, <2>3 DEF Record, OneAtATime
  <2>4. job'[w] = [job[w] EXCEPT !.at = "delete"] /\ state' = state
    BY <1>3 DEF Record
  <2>5. job'[w].at = "delete" /\ job'[w].left = pending'
    BY <2>1, <2>4
  <2>6. state'[w] # "ready"
    BY <1>3, <2>4 DEF Record
  <2> QED
    BY <2>2, <2>3, <2>5, <2>6
<1>4. ASSUME NEW w \in Workers, NEW c \in Caches, Delete(w, c) PROVE ListAccounted'
  BY <1>4 DEF Delete, Gone, OneAtATime
<1>5. ASSUME NEW w \in Workers, NEW c \in Caches, DeleteFails(w, c) PROVE ListAccounted'
  BY <1>5 DEF DeleteFails
<1>6. ASSUME NEW c \in Caches, BrowserDeletes(c) PROVE ListAccounted'
  BY <1>6 DEF BrowserDeletes, Gone
<1>7. ASSUME NEW w \in Workers, FinishErase(w) PROVE ListAccounted'
  <2>1. due' \subseteq pending' /\ pending' = job[w].failed
    BY <1>7 DEF FinishErase, LeftToDo
  <2>2. ASSUME NEW v \in Workers, v # w
        PROVE  job'[v] = job[v] /\ job[v].at = "none" /\ state'[v] = state[v] /\ state[v] # "ready"
    BY <1>7, <2>2 DEF FinishErase, OneAtATime
  <2>3. job'[w].at = "none" /\ (state'[w] = "ready" => pending' = {})
    BY <1>7, <2>1 DEF FinishErase, AfterErase
  <2> QED
    BY <2>1, <2>2, <2>3
<1>8. ASSUME NEW w \in Workers, Start(w) PROVE ListAccounted'
  BY <1>8 DEF Start, NonePending
<1>9. ASSUME NEW w \in Workers, OpenCache(w) PROVE ListAccounted'
  BY <1>9 DEF OpenCache
<1>10. ASSUME NEW w \in Workers, Revoked(w) \/ SignOut(w) PROVE ListAccounted'
  <2>1. job'[w].at \in {"read", "list"} /\ state'[w] = "stopped"
    <3>1. \/ job' = [job EXCEPT ![w] = [NoJob EXCEPT !.at = "read", !.asked = {CacheOf[w]}]]
          \/ job' = [job EXCEPT ![w] = [NoJob EXCEPT !.at = "list", !.asked = {CacheOf[w]}]]
      BY <1>10 DEF Revoked, SignOut
    <3>2. \/ job'[w] = [NoJob EXCEPT !.at = "read", !.asked = {CacheOf[w]}]
          \/ job'[w] = [NoJob EXCEPT !.at = "list", !.asked = {CacheOf[w]}]
      BY <3>1
    <3>3. job'[w].at \in {"read", "list"}
      BY <3>2
    <3> QED
      BY <1>10, <3>3 DEF Revoked, SignOut, Released
  <2>2. \A v \in Workers : v # w => job'[v] = job[v] /\ state'[v] = state[v]
    BY <1>10 DEF Revoked, SignOut
  <2>3. UNCHANGED <<pending, due>>
    BY <1>10 DEF Revoked, SignOut
  <2> QED
    BY <2>1, <2>2, <2>3
<1>11. ASSUME NEW w \in Workers, LetGo(w) PROVE ListAccounted'
  BY <1>11 DEF LetGo
<1>12. ASSUME NEW w \in Workers, NEW drops \in BOOLEAN, Close(w, drops) \/ Crash(w, drops)
       PROVE ListAccounted'
  BY <1>12 DEF Close, Crash, Ended
<1>13. CASE UNCHANGED vars
  BY <1>13 DEF vars
<1> QED
  BY <1>1, <1>2, <1>3, <1>4, <1>5, <1>6, <1>7, <1>8, <1>9, <1>10, <1>11, <1>12, <1>13
     DEF Next, EraseStep
\* Whatever exists and is listed, in a loop or with the browser is due, because the
\* worker that opens a cache is then the only one at work and finds nothing listed.
LEMMA DueStep ==
  ASSUME TypeOK, OneAtATime, ListAccounted, OnlyWhatIsDue, OneAtATime', [Next]_vars
  PROVE  OnlyWhatIsDue'
<1> USE DEF TypeOK, Busy, OnlyWhatIsDue, Awaited, Job
<1>0. \A w \in Workers : job[w].at # "none" => state[w] \notin {"down", "ready", "running"}
  BY NoJobIsOne
<1>1. ASSUME NEW w \in Workers, List(w) PROVE OnlyWhatIsDue'
  BY <1>1 DEF List
<1>2. ASSUME NEW w \in Workers, ReadPending(w) PROVE OnlyWhatIsDue'
  BY <1>2 DEF ReadPending
<1>3. ASSUME NEW w \in Workers, Record(w) PROVE OnlyWhatIsDue'
  <2>1. job[w].left = pending \cup job[w].asked /\ pending' = job[w].left /\ data' = data
    BY <1>3 DEF Record, Recorded, ListAccounted
  <2>2. due' = due \cup (job[w].asked \cap data)
    BY <1>3 DEF Record
  <2>3. ASSUME NEW v \in Workers, v # w PROVE job'[v] = job[v] /\ job[v].at = "none"
    BY <1>3, <2>3 DEF Record, OneAtATime
  <2>4. job'[w].left = job[w].left /\ job'[w].failed = job[w].failed
    BY <1>3 DEF Record
  <2>5. pending \cap data \subseteq due /\ job[w].failed = {}
    BY <1>3 DEF Record
  <2>6. queued' = queued
    BY <1>3 DEF Record
  <2>7. pending' \cap data' \subseteq due'
    BY <2>1, <2>2, <2>5
  <2>8. ASSUME NEW v \in Workers
        PROVE  IF job'[v].at = "delete"
                 THEN (job'[v].left \cup job'[v].failed) \cap data' \subseteq due'
                 ELSE job'[v].failed = {}
    <3>1. CASE v = w
      BY <2>1, <2>4, <2>5, <2>7, <3>1
    <3>2. CASE v # w
      BY <2>3, <3>2
    <3> QED
      BY <3>1, <3>2
  <2>9. \A c \in data' : Awaited(c)' => c \in due'
    BY <2>1, <2>2, <2>6
  <2> QED
    BY <2>7, <2>8, <2>9
<1>4. ASSUME NEW w \in Workers, NEW c \in Caches, Delete(w, c) PROVE OnlyWhatIsDue'
  BY <1>4 DEF Delete, Gone
<1>5. ASSUME NEW w \in Workers, NEW c \in Caches, DeleteFails(w, c) PROVE OnlyWhatIsDue'
  <2>1. /\ job'[w].at = "delete" /\ job[w].at = "delete"
        /\ job'[w].left \cup job'[w].failed = job[w].left \cup job[w].failed
    BY <1>5 DEF DeleteFails
  <2>2. \A v \in Workers : v # w => job'[v] = job[v]
    BY <1>5 DEF DeleteFails
  <2>3. UNCHANGED <<pending, data, due>>
    BY <1>5 DEF DeleteFails
  <2>4. \A d \in data : Awaited(d)' => Awaited(d) \/ d = c
    BY <1>5 DEF DeleteFails
  <2>5. c \in data => c \in due
    BY <1>5 DEF DeleteFails
  <2> QED
    BY <2>1, <2>2, <2>3, <2>4, <2>5
<1>6. ASSUME NEW c \in Caches, BrowserDeletes(c) PROVE OnlyWhatIsDue'
  BY <1>6 DEF BrowserDeletes, Gone
<1>7. ASSUME NEW w \in Workers, FinishErase(w) PROVE OnlyWhatIsDue'
  BY <1>7 DEF FinishErase, LeftToDo, NoJob
<1>8. ASSUME NEW w \in Workers, Start(w) PROVE OnlyWhatIsDue'
  <2>1. \/ job' = job
        \/ job' = [job EXCEPT ![w] = [NoJob EXCEPT !.at = "read"]]
    BY <1>8 DEF Start
  <2>2. ASSUME NEW v \in Workers
        PROVE  \/ job'[v] = job[v]
               \/ job'[v] = [NoJob EXCEPT !.at = "read"]
    BY <2>1
  <2>3. ASSUME NEW v \in Workers
        PROVE  job'[v] = job[v] \/ (job'[v].at = "read" /\ job'[v].failed = {})
    BY <2>2 DEF NoJob
  <2>4. UNCHANGED <<pending, data, due, queued>>
    BY <1>8 DEF Start
  <2> QED
    BY <2>3, <2>4
<1>9. ASSUME NEW w \in Workers, OpenCache(w) PROVE OnlyWhatIsDue'
  <2>1. pending = {} /\ ~Awaited(CacheOf[w]) /\ data' = data \cup {CacheOf[w]}
    BY <1>9 DEF OpenCache, ListAccounted
  <2>2. \A v \in Workers : job[v].at # "delete"
    BY <1>9, <1>0 DEF OpenCache, OneAtATime
  <2>3. UNCHANGED <<pending, queued, job, due>>
    BY <1>9 DEF OpenCache
  <2> QED
    BY <2>1, <2>2, <2>3
<1>10. ASSUME NEW w \in Workers, Revoked(w) PROVE OnlyWhatIsDue'
  BY <1>10 DEF Revoked, NoJob
<1>11. ASSUME NEW w \in Workers, SignOut(w) PROVE OnlyWhatIsDue'
  BY <1>11 DEF SignOut, NoJob
<1>12. ASSUME NEW w \in Workers, LetGo(w) PROVE OnlyWhatIsDue'
  BY <1>12 DEF LetGo
<1>13. ASSUME NEW w \in Workers, NEW drops \in BOOLEAN, Close(w, drops) \/ Crash(w, drops)
       PROVE OnlyWhatIsDue'
  <2>1. Ended(w, drops)
    BY <1>13 DEF Close, Crash
  <2>2. \A v \in Workers : job'[v] = job[v] \/ job'[v] = NoJob
    BY <2>1 DEF Ended
  <2>3. UNCHANGED <<pending, data, due>> /\ queued' \subseteq queued
    BY <2>1 DEF Ended
  <2>4. NoJob.at = "none" /\ NoJob.failed = {}
    BY DEF NoJob
  <2> QED
    BY <2>2, <2>3, <2>4
<1>14. CASE UNCHANGED vars
  BY <1>14 DEF vars
<1> QED
  BY <1>1, <1>2, <1>3, <1>4, <1>5, <1>6, <1>7, <1>8, <1>9, <1>10, <1>11, <1>12, <1>13, <1>14
     DEF Next, EraseStep

\* The invariant holds when nothing has been opened yet.
LEMMA InitIInv == Init => IInv
<1> SUFFICES ASSUME Init PROVE IInv
  OBVIOUS
<1>1. TypeOK
  <2>1. job \in [Workers -> Job]
    BY NoJobIsOne DEF Init
  <2>2. state \in [Workers -> States] /\ \A w \in Workers : job[w] = NoJob
    BY DEF Init, States
  <2>3. /\ pending \in SUBSET Caches /\ data \in SUBSET Caches /\ due \in SUBSET data
        /\ queued \in SUBSET (Workers \X Caches) /\ told \in SUBSET Workers
    BY DEF Init
  <2>4. faults \in 0..MaxFaults /\ opens \in 0..MaxOpens
    BY DeviceErasureAssumption DEF Init
  <2>5. crossed \in BOOLEAN
    BY Zenon DEF Init
  <2> QED
    BY <2>1, <2>2, <2>3, <2>4, <2>5 DEF TypeOK
<1>2. OneAtATime /\ ListAccounted
  BY NoJobIsOne DEF Init, OneAtATime, ListAccounted, Busy
<1>3. OnlyWhatIsDue
  BY DEF Init, OnlyWhatIsDue, NoJob
<1> QED
  BY <1>1, <1>2, <1>3 DEF IInv, Calm

\* The invariant is inductive.
LEMMA StepIInv == IInv /\ [Next]_vars => IInv'
<1> SUFFICES ASSUME IInv, [Next]_vars PROVE IInv'
  OBVIOUS
<1>1. TypeOK'
  BY TypeStep DEF IInv
<1>2. ASSUME ~crossed' PROVE Calm'
  <2>1. ~crossed /\ OneAtATime'
    BY <1>2, OneAtATimeStep DEF IInv, Calm
  <2> QED
    BY <2>1, ListStep, DueStep DEF IInv, Calm
<1> QED
  BY <1>1, <1>2 DEF IInv

\* Every reachable state satisfies the invariant.
LEMMA Invariant == Spec => []IInv
  BY InitIInv, StepIInv, PTL DEF Spec

\* The variables of the erasure keep their types in every reachable state.
THEOREM TypeCorrect == Spec => []TypeOK
<1>1. IInv => TypeOK
  BY DEF IInv
<1> QED
  BY <1>1, Invariant, PTL

\* What a revocation or a sign-out recorded stays on the list until it is gone, whatever
\* crashes, fails or is blocked on the way (erasure.ts).
THEOREM StaysListed == Spec => []NothingForgotten
<1>1. IInv => NothingForgotten
  BY DEF IInv, Calm, ListAccounted, NothingForgotten
<1> QED
  BY <1>1, Invariant, PTL

\* No session opens a cache that is still to be erased (completePendingErase comes first).
THEOREM OpensNoErasedCache == Spec => OpensNothingDue
<1>1. IInv /\ [Next]_vars =>
        [\A w \in Workers : ~crossed /\ OpenCache(w) => CacheOf[w] \notin due]_vars
  BY DEF IInv, Calm, ListAccounted, OpenCache
<1> QED
  BY <1>1, Invariant, PTL DEF Spec, OpensNothingDue

\* An erase takes no database but those that were to be erased: not the cache of a
\* session opened since.
THEOREM TakesOnlyWhatIsDue == Spec => KeepsWhatIsNew
<1> DEFINE Kept == crossed \/ data \ data' \subseteq due
<1>1. ASSUME IInv, Next PROVE Kept
  <2> SUFFICES ASSUME ~crossed, NEW c \in data, c \notin data' PROVE c \in due
    OBVIOUS
  <2>1. OnlyWhatIsDue /\ TypeOK
    BY <1>1 DEF IInv, Calm
  <2>2. ASSUME NEW w \in Workers, NEW d \in Caches, Delete(w, d) PROVE c \in due
    BY <2>1, <2>2 DEF Delete, Gone, OnlyWhatIsDue
  <2>3. ASSUME NEW d \in Caches, BrowserDeletes(d) PROVE c \in due
    BY <2>1, <2>3 DEF BrowserDeletes, Gone, OnlyWhatIsDue
  <2>4. ASSUME NEW w \in Workers, Start(w) \/ OpenCache(w) \/ Revoked(w) \/ SignOut(w) \/ LetGo(w)
        PROVE FALSE
    BY <2>4 DEF Start, OpenCache, Revoked, SignOut, LetGo
  <2>5. ASSUME NEW w \in Workers, List(w) \/ ReadPending(w) \/ Record(w) \/ FinishErase(w)
        PROVE FALSE
    BY <2>5 DEF List, ReadPending, Record, FinishErase
  <2>6. ASSUME NEW w \in Workers, NEW d \in Caches, DeleteFails(w, d) PROVE FALSE
    BY <2>6 DEF DeleteFails
  <2>7. ASSUME NEW w \in Workers, NEW drops \in BOOLEAN, Close(w, drops) \/ Crash(w, drops)
        PROVE FALSE
    BY <2>7 DEF Close, Crash, Ended
  <2> QED
    BY <1>1, <2>2, <2>3, <2>4, <2>5, <2>6, <2>7 DEF Next, EraseStep
<1>2. IInv /\ [Next]_vars => [Kept]_vars
  BY <1>1
<1> QED
  BY <1>2, Invariant, PTL DEF Spec, KeepsWhatIsNew
=============================================================================
