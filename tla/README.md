# A verification development for Vulto Roster

Vulto Roster is a professional-services application: people, assignments,
timesheets, rate cards and alerts, kept as a graph of nodes and edges. A browser
works from a local replica of the part of the graph its person may see, writes
optimistically through a durable outbox, and an API decides every write in
PostgreSQL. This directory holds TLA+ modules that model the parts of the program
whose correctness depends on the order in which things happen, TLC configurations
that check them on small instances, and proofs of the most important properties
for every value of the constants.

`PROJECT.json` is the index: components, runs, the source lines behind every
definition, the deliberate faults every property must catch, findings, hazards and
theorems.

## 1. The system

| Part | Source | State it keeps | Operations |
| --- | --- | --- | --- |
| Sync engine | `packages/graph/src/sync-client/engine.ts` | the drain run, retry timer, shape sources, published state (memory) | `start`, `promote`, `mutate`, `drain`, `dismissRejected`, shape events and failures, `signOut`, `stop` |
| Outbox | `sync-client/outbox.ts` | one row per queued mutation: `pending`, `inflight`, `rejected` (IndexedDB) | `append`, `nextPending`, `markInflight`, `requeueInflight`, `requeue`, `reject`, `remove` |
| Device cache | `sync-client/cache.ts`, `mutators/cache.ts` | rows, audience tags, a cursor per shape (IndexedDB) | optimistic writes and before-images, `applyBatch`, `resetTemplate`, `applyUndo` |
| Worker host | `sync-client/host.ts`, `client.ts` | a session per workspace and person; who leads | `init`, leader lock, broadcast channels |
| Local erasure | `sync-client/erasure.ts`, `device-identity.ts` | the list of databases still to delete (IndexedDB) | `eraseDatabases`, `eraseAllCaches`, `completePendingErase` |
| Protected values | `sync-client/protected-store.ts`, `engine.ts` | decrypted values (memory) | `protectedRead`, `protectedMutate`, `clear` |
| Optimistic mutators and queries | `packages/graph/src/mutators/foundation.ts`, `queries/` | none of their own | one mutator and one query per feature |
| Mutation pipeline | `services/api/src/mutations/pipeline.ts` | `graph_mutations`: one stored outcome per mutation id | `applyMutation`, `applyMutations` |
| Feature mutations | `services/api/src/mutations/*.ts` | nodes, edges and their audit entries | assignment, timesheet, calendar, employee, rate card, ... |
| Shape proxy | `services/api/src/sync/shape-proxy.ts` | none | per-request admission of a device to a shape |
| Audience | `services/api/src/audience/materializer.ts` | who may replicate which row | `onRowsChanged`, `recomputeWorkspace` |
| Workspaces and membership | `services/api/src/auth/workspace-projection.ts`, `workspace-session.ts` | memberships, roles, sessions | create, admit, confirm, change role, revoke, suspend |
| Device trust | `services/api/src/auth/device-registry.ts`, `device-revocation.ts`, `device-trust-log.ts` | devices, revocations per workspace, trust log | register, retire, revoke, flag stale, re-approve |
| Keys and protected content | `services/api/src/crypto/`, `protected/` | wrapped data keys, ciphertext, an in-memory key cache | `ensureDataKey`, write, read, `eraseErasureDomain` |
| Audit journal | `services/api/src/audit/` | an append-only journal | `appendAudit`, pseudonyms, queries |
| Permission | `packages/schema/src/policy/`, `packages/schema/src/registry/`, `services/api/src/permission/` | none: a table and a registry, read with the rows of the graph | read and write gates, reader sets, traversals |
| Domain algorithms | `packages/schema/src/*.ts` | none | leave balance, bench forecast, time off in lieu, classification, anomalies, matching |
| Web app | `apps/roster-web`, `packages/ui`, `packages/tokens` | view state | screens |

### How the parts interact

* A tab (or the one SharedWorker) runs an **engine**. `mutate` writes the cache and the
  outbox in one database transaction and calls `drain`; `drain` posts batches of outbox
  rows to the API, which runs the **pipeline** for each; the answers settle the rows, undo
  rejected ones, and the rows the API wrote come back through a **shape** (replication
  stream) admitted by the **shape proxy**.
* The pipeline calls a **feature mutation**, which calls the **permission interceptor**,
  the **store** and, for protected values, **keys**; the **audience materializer** runs in
  the same transaction and decides who will replicate the rows that changed.
* A removal, a suspension or a device revocation is a transaction of the **membership** or
  **device trust** part. The proxy answers the device's next request with a revocation; the
  engine tells its **host**, which **erases** the local data and tells the origin's other
  workers through a broadcast channel.

### What is hard here

| Kind | Where |
| --- | --- |
| Interleaving of asynchronous functions in one thread | the engine's runs, its retry timers and shape events (an `await` between a look and an act), the host's `init`, the erasure's read-modify-write of the pending list |
| Interleaving of PostgreSQL transactions, most of them READ COMMITTED | the pipeline's repeats, the audience's recomputation, the Owner cap, re-approval, key creation against erasure, holidays against a new version of their calendar, links of a login, skills and their gaps |
| Work that follows a commit and may be lost, late or crossed | alerts, anomaly flags, snapshots, skill gaps, notifications |
| Two implementations of one thing | the optimistic mutators against the server's mutations; the device's, the screen's and the server's walks over the days; the reader sets against the read decision |
| Several workers on one database | two tabs' engines over one outbox; deletes blocked by another worker's connection |
| Lost, late and repeated requests | uploads whose answer is lost while the server still works |
| Crashes and restarts | rows in flight, a batch half settled, an erase half done, a workspace half created |
| Bounds | `UPLOAD_BATCH`, `MAX_ATTEMPTS`, `OWNER_CAP`, a day's capacity and hours, the cap of time off in lieu, the alert threshold |
| Order of dates against order of events | moves in the reporting line, entity changes, policy and calendar versions, the week an entry was stored with, trust events ordered by the start of their transactions |

## 2. What makes each part correct

| Part | Properties |
| --- | --- |
| Upload path | decided in order and once; a row leaves the outbox only when applied or dismissed; shown as rejected only if rejected; nothing left in flight with nobody carrying it; everything settled in the end |
| Cache | equals the log at its cursor where no local write is outstanding; a lone rejection restores the row |
| Pipeline | applied exactly once; outcome final; no lost update; answers true of what is stored; no circular wait |
| Device trust | retirement final; decisions stay in their workspace; only staleness is reversible |
| Membership | a removal is final; the audience is what the members may read; the Owner cap |
| Reporting line | one manager at an instant; no loop; a move changes nothing before its date |
| Keys | one live key per domain; nothing read after erasure; never re-created; other domains untouched |
| Local erasure | nothing forgotten, nothing due opened, nothing newer taken, finished in the end |
| Tabs and sessions | as the upload path, over several engines; one engine per SharedWorker |
| Permission | the readers named for a row are those it is readable for; a walk shows what a path of readable nodes leads to; whoever a mutation is for may write all it writes |
| Calendar | one version in force; the pieces of code that walk the days agree; a change leaves the days before it and carries the holidays |
| Bench | an evaluation leaves an alert exactly where there is a gap; server, device and screen count the same days |
| Assignments and cards | a day over capacity carries its override; cards, edges and assignments name the same card |
| Timesheets | one entry per cell, a day at most; a snapshot is what its entries add up to; unlocking a week unlocks it |
| Overtime and leave | a week's overtime is granted once, under the cap, by a policy in force that day |
| People | an employee is in one entity at a time; a ghost is promoted once, for good |
| Notifications | everybody a delivery is for is told, and nobody twice |
| Skills | one active gap; a gap exactly where nobody available meets the requirement, as of the last evaluation |
| Optimistic mutators | the device shows of a call what the server makes of it |

## 3. Modules

| Module | Stands for | Notes |
| --- | --- | --- |
| `MutationDelivery` | the promise of the upload path | abstract: submit, decide in order, tell, dismiss |
| `SyncUpload` | `engine.ts` (drain, settle, timers), `outbox.ts`, and the server's contract | one action per stretch of code between two `await`s; `phase` is where the run is. Refines `MutationDelivery` |
| `SyncEngine` | adds `cache.ts`, `mutators/cache.ts` and shape batches to `SyncUpload` | extends it: every step of the upload path is a step here with its effect on the cache |
| `MutationPipeline` | `pipeline.ts`, `graph/store.ts` row writes | one action per statement group; `holder` and `claim` are PostgreSQL's row lock and unique-index wait |
| `DeviceTrust` | `auth/device-*.ts`, the proxy's decision | checks before a transaction, its begin (`now()`), its commit |
| `WorkspaceMembership` | `workspace-projection.ts`, `workspace-session.ts`, `audience/materializer.ts` | first write, recomputation, commit are separate steps |
| `OrgChart` | `moveEmployee` and generic `managed_by` edges | a move is SERIALIZABLE, so one step; dates are the caller's |
| `ProtectedContent` | `crypto/keys.ts`, `crypto/key-cache.ts`, `protected/*.ts` | ideal ciphers; the key cache is the process's, the tables the database's |
| `DeviceErasure` | `erasure.ts`, `device-identity.ts`, `database.ts`, the host's messages | one worker per tab and cache; a delete waits for connections |
| `DedicatedTabs` | `host.ts` without SharedWorker, the engines of several tabs | `leader` is the Web Lock; `again` each engine's `#drainAgain` |
| `WorkerSessions` | `host.ts` session map, `sync-worker.ts` | `init` is two steps around `await createSession` |
| `WorkingCalendar` | `mutations/calendar.ts`, `graph/calendar-resolution.ts`, `graph/working-days.ts`, `schema/working-day.ts`, and the device's calendar mutators | a calendar is a list of versions; holidays READ COMMITTED, hence a read and a write |
| `Bench` | `mutations/revenue-gap-alert.ts`, `permission/bench-forecast-queries.ts`, the device's forecast, the screen's regions | the evaluation follows a commit and may be lost |
| `Staffing` | `mutations/assignment.ts`, `mutations/rate-card.ts`, their device mutators | capacity per working day; the rate an assignment was last priced with |
| `Timesheets` | `mutations/timesheet.ts`, `mutations/utilization-snapshot.ts`, their device mutators | an entry keeps the week it was saved in, while calendars and entities change |
| `Overtime` | `mutations/timesheet-anomaly.ts`, `mutations/leave-policy.ts`, `permission/leave-queries.ts`, `schema/toil.ts` | the evaluation follows the submission |
| `People` | `mutations/employee.ts`, `entity.ts`, `ghost-resource.ts`, their device mutators | READ COMMITTED calls are `...Read` and `...Write` |
| `Notices` | `mutations/notification*.ts`, `schema/notification-rules.ts` | a write scope, its delivery's advisory locks, its commit |
| `SkillMatching` | `mutations/skill-matcher.ts`, skills and staffing of `employee.ts` and `pitch.ts` | an evaluation is a snapshot and a commit, as of the time its request began |
| `GraphRegistry` | `schema/registry/` | every node and edge type, its partitions and endpoints |
| `PolicyTable` | `schema/policy/` | every cell of the matrix, ceilings, system principals |
| `Interceptor` | `permission/interceptor.ts`, `reader-set.ts`, `roles.ts`, `employee-link.ts` | decisions, reader sets, walks, and the links and edges they depend on; linking a login is a look and a write |
| `MC*` | model values, symmetry, named constants for TLC, and the modules that share a run | |
| `*Proofs` | theorems of the module they are named after | |

### Modules that share a run

Modules with disjoint state that one run checks are put side by side in its `MC` module.
The variable `part` names the module whose steps a behaviour takes; the others keep their
initial state. The state graph is the disjoint union of the parts', so each is checked
exactly as if it had a run of its own: `MCSyncEngine` holds `SyncEngine`, `WorkerSessions`
and `DeviceTrust`; `MCMutationPipeline` `MutationPipeline` and `Interceptor`, the
latter once over the edges that reads depend on and once over those that writes do;
`MCWorkspaceMembership` `WorkspaceMembership` and `People`; `MCOrgChart` `OrgChart`,
`WorkingCalendar` and `Bench`; `MCProtectedContent` `ProtectedContent` and `Staffing`;
`MCTimesheets` `Timesheets`, `Overtime`, `Notices` and `SkillMatching`. This is bookkeeping and not
composition: the parts do not interact in these models. Composition in the proper sense is
`SyncEngine`, which extends `SyncUpload`, and `SyncUpload`, which implements
`MutationDelivery`; `Interceptor` extends `PolicyTable`, which extends `GraphRegistry`.

### Transactions in the feature modules

The pipeline runs a mutation SERIALIZABLE or READ COMMITTED, as its registration says. A
SERIALIZABLE mutation is one action: it reads its snapshot and fails, and is tried again, when
another one changed what it read (`MutationPipeline` has the retries). A READ COMMITTED one
that looks at rows it does not write is a `Read` and a later `Write` with other transactions
in between; one that only compares the version of the row it writes is one action, the
comparison being made under that row's lock. What runs after a commit is an action that
may be late or never come.

A `Device*` definition is the optimistic mutator of the same name in
`packages/graph/src/mutators/foundation.ts`. The `ShownAsDelivered` properties compare it with
the server's action: if the server takes the call in the state the device saw, what it writes
is what the device shows.

`SyncUpload` takes the server at its contract: an id is settled once and a repeat is
answered with what is stored. `MutationPipeline` looks inside and shows how far the code
keeps to it: applied exactly once holds; the answer of a repeat that overtakes the first
attempt may differ (finding `pipeline_same_answer`). An engine that got that answer would
show, and undo, a mutation that was applied.

State and code correspond name by name: `status` is the outbox row's column, `again`
`#drainAgain`, `timer` `#retryTimer`, `stored` and `log` the rows of `graph_mutations`,
`cursor` the stored shape offset, `undo` the outbox row's before-image, `revocation` and
`latest` the device tables, `attached` a session's `ports`, `pending` the list written by
`writePendingErase`. `PROJECT.json` gives the lines of each definition.

### Variables that are not in the code

Some variables only record what has happened, so that a property can refer to it; no
guard of an action reads them.

* `WorkspaceMembership.crossed`, `unsettled`; `DeviceTrust.overlapped`;
  `DeviceErasure.crossed`; `WorkerSessions.crossed`; `DedicatedTabs.mixed`, `cut`;
  `OrgChart.orderly`. In each, the property they qualify fails without the qualification:
  the code has a window (section 7), and the property says that the window is the only
  thing that is wrong. All behaviours stay in the model, the ones in the window too.
* `Staffing.opened`: days a calendar change made working days after assignments were
  accepted. `Timesheets.behind`: weeks whose last computation was lost or was for another
  key. `SkillMatching.settled`: the time the last evaluation asked for, while nothing it read
  has changed since.
  `Notices.told`: who was to be told.
* `DeviceTrust.judged`, `ProtectedContent`'s `gone`, `SyncUpload.seen`,
  `DeviceErasure.due`: what was decided, destroyed, dismissed or due.

Definitions headed "Mutant" are not part of a specification. Each is a plausible slip in
the definition it follows; put in its place, it makes the property named for it in
`PROJECT.json` fail.

## 4. Runs

`tlc -config <cfg> <module>` in this directory repeats a run.

| Run | Bounds | Shows |
| --- | --- | --- |
| `sync_upload` | 3 mutations, batch of 2, 2 faults | A batch smaller than the queue makes a second round; a third mutation can be overtaken; two faults allow a lost answer whose late work meets a crash. `ImplementsDelivery`: decided in order and once, never silently dropped, shown as decided, as the contract says; `EventuallyTold` under fairness |
| `sync_engine` | engine: 2 rows, 2 own mutations, 1 foreign write, 1 fault; sessions: 3 ports, 3 engines; trust: 1 device, 2 workspaces, 2 calls at once, 4 clock ticks | Two writes of one row and of two rows, a foreign write before, between and after, refetch at any cursor. Two generations of an engine and a tab that comes in between. Every pair of trust calls overlaps |
| `pipeline` | 2 requests at once, repeats, 2 ids, 3 envelopes, 2 attempts; permission: 2 members, 5 role sets, 2 employees, 2 links on their way at once; reads: every edge of 4 open or not, 1 of them ended at some time, walks of 3; writes: every edge of 3 | One id READ COMMITTED, the other SERIALIZABLE, one id with two argument lists; two attempts reach the last retry. Every role for every link and edge: a login that two crossing links give to two employees, a case that comes to concern another person, a walk along an edge that has ended, managers in either direction, somebody staffed |
| `pipeline_same_answer` | the same | Finding: one envelope, two answers |
| `device_trust_explicit` | 1 device, 1 workspace, 1 call | Finding: no race is needed |
| `membership` | 3 people, an open and an Owners' row, cap 2, 2 calls at once, 5 calls; people: 2 employees, 2 entities, 1 ghost, 3 instants, 6 writes | Enough calls to promote two people at once, admit, confirm and remove. Two entity changes with dates in either order around a deactivation, a cancellation around a promotion |
| `org_chart` | 3 employees, 3 instants, 4 lines; calendar: 3 days, weeks of 2, 2 versions, 2 holidays, 2 locations; bench: 3 days, 3 assignment writes, threshold 1 | A loop of length three, moves before, on and after an existing line. Half and whole holidays, a reduced day, a partial pattern, a week that turns over, a version that starts in the middle. A gap that opens, is dismissed, escalates and closes |
| `protected` | 2 domains, 3 keys, 3 calls at once, 4 calls; staffing: 2 days, 2 assignments, 2 card versions, 4 writes, halves and whole days | Two writers and an eraser; a destroyed key, its successor that must not be, and another domain's. A call that opens a key while its row is destroyed. A day over capacity with and without an override, a card superseded under an assignment |
| `erasure` | 2 tabs on one cache and a worker on another, 1 fault, 2 openings | Two connections block a delete; two workspaces share the list |
| `tabs` | 2 tabs, 2 mutations, 1 failed upload or closed tab | A leader and a follower uploading at once, either of which may fail without a timer or go, and a call that a finishing run does not see. With 2 faults both properties hold as well, in a run three times as large; that no row is dropped is a theorem for any number |
| `hours` | timesheets: 2 entities whose weeks begin on different days, 2 days, 3 writes, 1 change; overtime: 2 weeks, 3 submissions, 3 flags, 2 policies; notices: 3 kinds, 2 managers, 2 scopes at once, 1 failure; skills: 2 employees, 2 requests at once, 2 levels, 3 calls, 1 lost evaluation | A date whose week moves with a changed entity or calendar; a week submitted again, evaluated late, cleared, and a grant the cap cuts; crossing deliveries after a change of manager; two evaluations of one gap, the earlier request's after the later one's edge |
| `skill_gap_resolved` | 1 employee, 1 request at a time, 2 levels, 4 calls | Finding: no race is needed |

Larger values repeat cases: each bound is one more than the number of steps the hazard it is
there for takes, and every property fails in its run when a plausible slip is put into the
code's definitions (the "Mutant" definitions).

Deadlock is checked where the system should never stop (`sync_upload` and `pipeline`). The
other runs say `CHECK_DEADLOCK FALSE`: their calls, clocks, openings or ports are used up in
the end, and the real system then waits for the next person.

Symmetry is used in runs of safety properties only. A module with a theorem `TypeCorrect`
states its type invariant as `TypeOK`, which section 5 proves; the runs leave it out.

### Fairness

* `SyncUpload`: a run's next continuation, a called `drain` and a set timer go on because
  the event loop runs what is queued; the server works through the requests it holds; the
  live shape request is reopened each time it returns, so up-to-date events keep coming.
  Nothing is assumed of the person (`Mutate`, `DismissRejected`), of faults, or of the
  server's work on a request whose answer nobody awaits.
* `DedicatedTabs`: each tab's run goes on, the browser grants a free lock to a tab that waits,
  and the leader's shape request is reopened. Nobody is made to open a tab, and no `drain` call
  on its way, a timer's included, to arrive. A run that failed ends, unless somebody asked for
  another round meanwhile (`EndRound`): after a server error or a refused session it is the
  shape's next up-to-date event that starts the next.
* `DeviceErasure`: promises settle, messages arrive, the browser carries out a delete
  once nothing blocks it, the tabs of an ended session are closed, and the application is
  opened again. The last two are about people; without them an erase that was interrupted
  waits, as it does in the code.

All fairness is weak.

## 5. Proofs

Each theorem holds for every value of the constants the module's assumption allows. Some of
the properties proved are not repeated by a run, because the theorem says more:
`DecidedInOrder`, `NeverSilentlyDropped` and `ShownAsDecided` of `SyncUpload`,
`AnswersAreTrue` and `OutcomeIsFinal`, `RetiredForGood` and `ScopedToItsWorkspace`,
`MovesAreFromADateOn`, `RevokedForGood`, `NeverRecreated`, `ErasureIsScoped`,
`ErasedKeysLeaveTheCache`, `KeepsWhatIsNew`, and `DecidedInOrder` and `NothingStranded` of
`DedicatedTabs`.

Where modules share a run, the proof module extends the run's module, and its theorems are
about the run's specification: a first lemma or theorem (`DeviceIsItsParts`,
`WorkspaceIsItsParts`, `HoursIsItsParts`, `ContentIsItsParts`) says that a behaviour of all
parts is, for each, one of its own or one in which it rests; then each part has its own
inductive invariant.

**`SyncEngineProofs`** (`SyncUploadAssumption`: a batch of at least one, the bounds are
naturals; `SyncEngineAssumption` and `SessionsAssumption`: so are those of foreign writes and of
engines). Four parts:

* *Upload.* `DecidedInOrder` is not inductive: it needs to know what is on the wire. `IInv`
  adds that a request never skips an older undecided mutation and that its answers are what
  is stored (`RequestOK`, for the current request and for each late one), and that the rows
  in flight are exactly those of the request the run waits for (`WireMatchesRows`). From it:
  `TypeCorrect`, `UploadOrder`, `NothingDropped`, `ToldTheTruth`, and
  `UploadImplementsDelivery`: under the mapping *pending or in flight is waiting*, the
  initial state is the contract's and each step is one of its steps or changes nothing of it.
* *Cache.* `EngineImplementsUpload`: a step of `SyncEngine` is a step of `SyncUpload` or
  leaves it alone, so all of the above holds of the engine (`EngineKeepsPromises`).
  `CacheIsTheLog` and `RejectionRestores` need `EngineIInv`: a mutation is in the log only if it
  was applied (`LogIsDecided`), a row of which every own write was replicated is the replay of
  the log up to the cursor (`FollowsLog`), the before-image of a row's only own write is the
  replay up to the cursor it was made at (`UndoIsBefore`), and where that write was rejected and
  taken back, the rest of the log makes the row the server's (`RejectionCatchesUp`).
* *Sessions.* `TabsShareOneEngine`, `AnsweredTabsAreHeard`: one `init` is between its two steps
  as long as none crosses another (`OneInit`); the engine that runs is the session map's or the
  one that `init` is making (`RunsForTheTabs`), and an answered tab belongs to the map's
  (`AnsweredByCurrent`).
* *Trust.* `TrustTypeCorrect`, `RetirementIsFinal` (no action shrinks `retired`, and a retired
  device is accepted nowhere), `DecisionsAreScoped` (each deciding commit writes its own
  workspace only; the one that ends sessions is not a workspace's decision),
  `TakesBackOnlyStale`. The last needs `Sequential`: as long as calls do not overlap, a
  commit's entry is the newest in the log (`LogIsPast`), so the newest entry says *stale* only
  while that is why the device is revoked (`LogTells`), and what a re-approval read there is
  still so when it deletes (`Looked`).

`DevicesFollowTheLog`, `DevicesShareOneEngine` and `DevicesTakeBackOnlyStale` say the same of
the run's specification.

**`MutationPipelineProofs`** (`MutationPipelineAssumption`: an envelope is an id with
arguments; `DecisionsAssumption`: people, Employees and record types are apart, what is judged has a
registered type, rows that name an Employee name one, and walked edges join nodes). Applying a
mutation: `Inv` says who holds what: the row's lock belongs to the one transaction past its
write, an id's claim to the one past its insert, for which nothing is stored yet (`Locks`,
`Claims`); a transaction past its write holds the version it was made against (`Fresh`). From
it: `TypeCorrect`, `AppliedOnce`, `TruthfulAnswers`, `FinalOutcomes`, `NoUpdateLost`,
`NoCircularWait`.

Deciding who may make it: `DecisionsInv` is small (roles are roles, the Employee a lookup
finds is linked to the login, and some is found if one is, edges are among those that may be drawn); the work is in the tables and in the
walk. Every cell of the policy is one of a few kinds and every registered record has a class the
policy knows (`MatrixIsGood`, `NodeRegistryIsGood`, `PolicyCellIsGood`, shown table by table), the
rows that mutations meet are looked up (`WholeCells`, `HalfCells`), and every edge group is governed
by halves its ends have (`EdgeRegistryGood`). `GrantsAlwaysAgree` then compares role by role: a cell
grants a row to its holder exactly when the holder is among those the edges name for that role
(`ReadersByIs`); excluded records have cells without a scope, so an exclusion is the same set on both
sides. A cell of scope *own* goes from the login to an Employee in the decision and from the
Employee to its login in the reader set; the two meet where the login is one Employee's
(`OneRecord`), which nothing in the database ensures, so it is a condition there and not an
invariant. `PlansAlwaysWritable` adds that one role has what it grants, two the higher
(`BestOfOne`, `BestOfTwo`). `WalksAreExact`: a layer of the breadth-first walk is *sound*
(`LayerOK`: what it visited was reached by a path, its hits are what is shown of that, all but its
frontier is expanded), the layer after a sound one is sound and holds its neighbours, so a path is
followed a layer at a time (`PathIsFollowed`). The recursion over layers has a solution, and all its
layers are sound, by the least layer that would refute it.

**`OrgChartProofs`** (`OrgChartAssumption`, `CalendarAssumption`, `BenchAssumption`). The
reporting line: the inductive invariant is `TypeOK` with `Admits(lines)`, that two lines of one
person never overlap, which is the exclusion constraint of the database. From it: `OneManager`,
and `MovesFromADateOn`: who manages whom before and after a move is computed line by line, for
the lines that were closed before, the one the move closes and the one it opens. `NoLoop` needs
paths of any length. `Above` is therefore not computed but defined, as what every set closed
upwards (`Upward`) that has the manager in it contains: a move whose person is not above the new
manager leaves a closed set without them, and that set witnesses that nobody is above themselves
after it. The bench: `GapIsTold` needs that an employee has one active alert (`BenchInv`), which
the evaluation rewrites, adds or resolves, and that of finitely many bookings one ended last
(`LatestExists`). The calendar: `CalendarIsOne`, `HistoryKept`, `CalendarIsShown`. `CalendarInv`
says that versions supersede earlier ones, that one is in force, that holidays belong to
versions there are, and what a holiday transaction has read is still there (`RequestOK`). The
version of a day is found by a walk along the superseded ones; such a walk exists because it
goes down (`WalkExists`), two that see the same rows agree (`WalksAgree`), and a version written
today is walked past by every day before (`WalkPastNew`).

`EveryScreenAgrees` proves `DaysAgree`, all of it, from `CalendarInv` and `BenchInv`.
`CalendarAssumption` and `BenchAssumption` say of the constants what the schemas demand of the
data: hours, percents and the horizon are naturals, a week begins on one of its days, a calendar's
week states the hours of each of them. Neither the length of a week nor the number of days is
fixed. The loops of the code are recursive functions on days or rows here, and a proof about one
needs two facts the prover does not have: that there is such a function (`LoopExists`, which makes
it one pass longer at a time), and that what holds at the start and is kept from one pass to the
next holds throughout (`Climbs`, by a least counterexample). The calendar (`CalendarCounts`): a day
more adds one to a count if it is wanted (`CountOneMore`), so the walk of `NextWorkingDay` ends on
the day at which the count is reached (`NextWorkingDayCounts`); the hours of a week are the same
added up column by column and day by day (`WeekAddsUp`); the beginnings of weeks lie a week apart,
also when a week turns over (`WeeksAreCut`); a project's day differs from a person's by pattern and
place only (`ProjectDays`). The bench (`BenchIsShown`) has four loops, each with an invariant that
says what it has made of the days so far: `PeriodsOK` for the device's periods (they hold the days,
count them, and touch nowhere), `RegionsOK` and `RunOK` for the screen's regions and the one that
is open (a free working day is in one; between two lies a day that is covered or pitched),
`TallyCounts` for the sums over the regions, and a bound on the days covered so far for the
utilization (`UtilizationIsAShare`).

**`WorkspaceMembershipProofs`** (`WorkspaceMembershipAssumption`, `PeopleAssumption`):
`Revoked`, `AudienceFollowsTheMembers`, `CapHolds`. `IInv` adds to `TypeOK` that what a
transaction's first write found in the member row is still there (`FoundStays`), because no
other transaction holds that row (`OneHolder`); so an admission or a confirmation that commits
did not find a revoked member. `AInv` is about the calls nobody crosses: such a call is the only
one in progress (`AloneIsAlone`), so the members and rows its recompute saw, and the room for
the Owner it makes, are those it commits with (`FoundHolds`); then the part of the audience it
replaces is exactly what its own commit lets people read. The people: `EntitiesFollow` needs
that of an employee's entity edges one is open and each closed one ends where another begins
(`ScopesOK`); `PromotedStays`, that a ghost's promotion and its edge are written together and
only while it is open (`PromotionsOK`). `PeopleAreShown` needs that the role edge a link read,
and will close, is still of the ghost it links to (`RolesOK`).

**`DeviceErasureProofs`** (`DeviceErasureAssumption`): `StaysListed`, `OpensNoErasedCache`,
`TakesOnlyWhatIsDue`. Everything rests on what the missing lock would give, `OneAtATime`, which
holds until a start or an erase crosses another. Then the erase between its two transactions is
the only one that touches the list: what it read and what it still has to delete account for all
that is due (`ListAccounted`), and nothing that exists is listed, being deleted or awaited in
the browser without being due (`OnlyWhatIsDue`).

**`DedicatedTabsProofs`** (`DedicatedTabsAssumption`): `NoRowLost`, `NoneLeftInFlight`,
`InOrder`. That no row is lost needs no lock at all: a run's answers are the outcomes the server
stored, whoever else uploads the same rows, and a run settles a row only with an answer
(`RunsHoldOutcomes`); a row marked rejected has that outcome stored (`RowsHoldOutcomes`). The
order needs that a run begins while nothing is in flight; its rows are then all that is
undecided (`RunsHavePrefixes`). `Min` of a set of numbers is one of them because the finite
intervals below them are well founded (`LeastExists`).

**`ProtectedContentProofs`** (`ProtectedContentAssumption`, `StaffingAssumption`: percents and
days are naturals). The keys: `LiveKeyIsOne`, `ReadsEndWithTheKey`, `ErasedForGood`,
`ErasureStaysInItsDomain` and `DeadKeysAreNotCached`. `IInv` says what each call knows of the
key in its hand (`Sound`): the keys destroyed before it began are destroyed still, a write that
may make a key found none destroyed for its domain, an erasure's key is of its domain. The
others' steps keep that because keys only age (`Ages`): unused, inserted, live, destroyed.
`OneKey` counts inserted keys with the live ones, which is what the unique index does;
`EvictedUnlessCrossed` says that nobody but an overlapping call puts an evicted key back
before the erasure commits; after it, a call may that had selected the row and not yet opened
it (`OpenKey`), and no other. The
assignments: `OvercommitsAreExplained`, `CardsAgree`, `StaffingIsShown`. That a day is
overcommitted only with an override is not inductive, since the one with the override may be
cancelled, and the others must then fit; `OrdinaryFits` is: the assignments that were *not*
overridden fit into the day by themselves, unless the day was opened later. A sum of percents
over a set is the size of a set of portions (`Portions`, `Total`), so that the library's
theorems on finite sets say that it grows and shrinks with the set. `CardsInLine` (each version
of a card supersedes the one before, and the last is active) and `EdgesNameTheCard` are what
`CardsInForce` says, with the closed edges told apart; `RequestsOK` says what a rate on its way
will be written with.

**`TimesheetsProofs`** (`TimesheetsAssumption`, `OvertimeAssumption`): all properties of the run
`hours`. Weeks: every entity has had a calendar from the beginning, so a date has a week
(`DatesHaveWeeks`), a cell has one entry (`OnePerCell`), a day no more hours than its limit
(`WithinADay`), and a snapshot of a week that is not *behind* is the sum of its entries
(`SnapshotsAgree`). Overtime: a week has one open flag of a reason and one of overtime that is
open or approved (`OneStandingFlag`), and what was granted belongs to approved ones
(`GrantsAreApproved`). The balance: policies are a line of versions (`PoliciesInLine`), a grant
was priced by one in force on its day (`GrantsArePriced`), and the cap of the last grant is
still some version's (`UnderACap`). Notices: a lock has one holder (`OneLockHolder`), which
knows whether there is a notice as long as it holds it (`KnownUnderLock`). Skills: one gap is
active, and it says what was so at the time the last evaluation asked for, as long as nothing
it read has changed (`settled`). Sums over
finite sets are taken apart by a least counterexample among the subsets (`WFMin` with the
strict-subset ordering), as the prover cannot instantiate an induction rule.

**Only model-checked.** Liveness (`EventuallyTold`, `ErasedInTheEnd`, `SettledInTheEnd`), as the
prover has no ENABLED. Every safety property and every action property a run checks has a theorem.

## 6. Abstractions and what is not modelled

* Mutations, rows, keys and people are model values or small numbers; a mutation's
  arguments matter only where two envelopes share an id. A value of a row is the number of
  the write that put it there.
* The database: a committed write is visible to the next statement of a READ COMMITTED
  transaction, a SERIALIZABLE one reads its snapshot and fails when what it writes has
  changed. Row locks and unique indexes make the second writer wait. `moveEmployee` is
  SERIALIZABLE, reads what it writes and retries, hence one step of `OrgChart`.
* `WorkspaceMembership` admits people as non-Owners: the invitation flow that would name a
  role is not built. A suspension appears in `DeviceTrust` only; it recomputes no audience.
* `ProtectedContent` has `eraseErasureDomain` as an operation although nothing outside the
  tests calls it yet.
* `SyncUpload` has three kinds of failed upload (network, wrong workspace, server); the
  revocation that also ends an upload is in `DeviceErasure` and `WorkerSessions`.
* `SyncEngine` has one shape and one audience: rows that move out of a person's audience
  and edges are not told apart.
* `WorkingCalendar`, `Bench`, `Staffing`, `Timesheets`, `Overtime`: dates are numbers, time of
  day matters in `Timesheets` only (the device asks for the entity at noon, the server at
  midnight). Hours and money keep their arithmetic; currencies, names and notes are left out.
* `Overtime`: usage of leave is zero, as in the code until leave requests exist.
* `Notices`: one employee whom every row is about; a notice's wording is left out, its lock key
  and recipient are kept. `SkillMatching`: one project and one skill; who is available is a set
  that changes; severity and the ranking of matches are left out. A request reads the clock once and
  every edge as of then; no two begin in the same millisecond, and all of them on one day. An evaluation is a snapshot and
  a commit that fails when another commit crossed it, and its failure is swallowed, as in the code.
* `Interceptor`: one record of each type, several employees. A lookup of a login takes one row
  of those there are (`found`) and the same one until it takes another (`LookupMoves`). Walks are
  taken without a clock, which is the default; the other lookups always have one. Support principals, other
  workspaces and the audit entry of a denial are left out. `authorizeTraversal` and the ceiling
  lookup (`resolvePermission`) have no caller outside the tests; both are checked against the
  decisions that do. No mutation writes an HR case yet; cases change in the model as the generic
  edge mutation would change them.
* Not modelled: audit, sign-in and passkeys (the authentication library's protocol), transport,
  live queries, the screens other than the bench's regions, the schemas of record fields,
  departments and positions, compensation, the skill catalogue and match scores, contextual
  notes. `PROJECT.json` lists them with the reason.

## 7. Where the code and what is said of it differ

Shown by a run:

* `pipeline_same_answer`: a repeat that looked its id up before the first attempt
  committed, and then fails its authorisation or version check, is answered *rejected*
  although *applied* is stored (`pipeline.ts:419`, against `pipeline.ts:91`).
* `device_trust_explicit`: an explicit revocation of a device already flagged stale
  inserts nothing and logs nothing, so the device can be re-approved
  (`device-revocation.ts:102`, against `device-registry.ts:461`).

* `skill_gap_resolved`: a requirement is attached at a high level and lowered; a skill that meets
  the lowered level, but not the one stored in the gap, does not resolve the gap
  (`employee.ts:453`, against VRS-F013 G08).

Met while modelling. The behaviours are in the models; the property each of them would
break is stated under the condition named in brackets, and without it TLC finds the
counterexample described:

* `engine.ts:402`: a `drain()` call between the last look at `#drainAgain` and the end of
  the run is lost until another trigger, although "a call while one is running is not lost".
  `EventuallyTold` holds because the shape's events are such a trigger.
* `engine.ts:485`: `applyUndo` restores a before-image whatever the row holds now. After
  two rejected writes of one row the first one's value stays; after a foreign change was
  replicated it is overwritten. [`SoleRejectionRestores`: the person's only write, row
  unchanged since.]
* `device-registry.ts:519`: re-approval looks at the trust log before its transaction and
  deletes whatever revocation it then finds, a removal's included. [`OnlyStaleIsTakenBack`:
  `overlapped`.]
* `device-registry.ts:195`: a retired device that registers again has a push token stored,
  against `device-registry.ts:348`. (`pushable` in `DeviceTrust`; no property.)
* `workspace-projection.ts:233`: the Owner cap is read outside the promoting transaction.
  [`OwnersCapped`: `crossed`.]
* `materializer.ts:185`: two transactions recompute the audience, neither seeing the
  other's change: a removed member may keep a row written meanwhile until the next full
  recomputation. [`AudienceIsCurrent`: `unsettled`.]
* `workspace-projection.ts:111`: `createWorkspace` is two transactions; a crash in between
  leaves a workspace whose founder's membership is pending for ever. `workspace-projection.ts:308`:
  another Owner may remove the founder.
* `mutations/foundation.ts:394`: `moveEmployee` looks for a loop at the move's date only, so
  moves made out of date order, and the generic edge mutations (`foundation.ts:242`), can
  make one. [`NoReportingLoop`: `orderly`.]
* `crypto/keys.ts:146`: a write that looked before an erasure committed makes a new key for
  the erased domain; a read or write in progress that had selected the row puts the unwrapped key back in the cache,
  also after the erasure committed. [`NeverRecreated`: writes begun after;
  `ErasedKeysLeaveTheCache`: `crossed`, and the step `open`.]
* `erasure.ts:34` and `host.ts:104`: the pending list is read and written back without a
  lock, by every worker of the origin. Two erases at once forget each other's databases, a
  start may open a cache that is due, and a start with an old list may delete a new
  session's cache with its outbox. [`crossed`.]
* `engine.ts:395`: a follower drains when it mutates, although `engine.ts:129` says it does
  not upload; two tabs' requests may be decided out of order [`mixed`], and a follower
  closed during its upload leaves rows in flight that nobody requeues while another leads
  (`engine.ts:132`) [`cut`].
* `host.ts:225`: two `init`s during `createSession` make two engines on one database, and
  the first tab is no longer heard. [`crossed`.] `sync-worker.ts:23`: a closed tab's port is
  never detached (`messageerror` is not raised by a close).

* `calendar.ts:378`: a holiday that is added while `calendar.update` commits is written to the
  superseded version and is in no version in force, although it was answered. (No property.)
* `employee.ts:304`: two calls at once link one login to two employees, or give two employees
  one e-mail address, against `permission/employee-link.ts:9`: the look and the insert are
  READ COMMITTED and nothing is unique. (In `People` and `Interceptor`.) With two employees of one
  login, a reader set names the login for both, a read is granted for the one a lookup finds, and
  the exclusion of whom a record concerns looks at that one only. [`GrantsAgree`: `OneRecord`.]
* `interceptor.ts:721`: a walk without a clock follows edges that have ended, as
  `store.ts:700` says of a lookup without a time. [`WalkIsExact`: along open and closed edges.]
* `assignment.ts:560`: `setRateOverride` and `clearRateOverride` price with the card they read
  earlier, so a rate stored after a crossing `setRateCard` is the old card's. [`CardsInForce`
  says what edges and fields name, not what was priced.]
* `timesheet.ts:249`: after a change of entity or calendar a date belongs to another week than the
  one its entry was stored with; submitting the one locks the other's days.
  [`SnapshotsAgree`: `behind`.] `mutators/foundation.ts:1285`: the device looks up the entity at
  noon, the server at midnight, so on the day of a change they show different weeks.
  [`ShownAsDelivered` of `Timesheets`.]
* `skill-matcher.ts:228`, `pitch.ts`: concurrent attachments of one skill or person insert an open
  edge each. [`AttachedAsShown`: the plan's look is still true, and its edge the only one.]
* `skill-matcher.ts:212`: an evaluation reads as of the time its request began, however late it
  runs; an edge of a later request that committed first is not there for it, and the gap it writes
  is untrue of the present until the next evaluation. [`GapsAreTrue`: as of `settled`.]
* `notification-delivery.ts:206`: rows are locked in the order the database returns them, without
  ORDER BY, so two deliveries may deadlock; the one the database ends loses its notices.
  [`EachIsTold`: deliveries that did not fail.]
* `reader-set.ts:72`: the subject of a case is looked up through closed edges too, so the person
  a case concerned before it was re-pointed stays excluded. (In `Interceptor`.)

## 8. Plan

Done: the upload path with its contract and proofs; the cache; the pipeline with proofs;
device trust with proofs; membership and audience, the reporting line, keys and protected
content, with proofs; local erasure and tabs, with proofs; sessions; calendars, assignments, rate cards,
the bench; timesheets, overtime and time off in lieu; employees, entities and ghosts;
notifications; skills, with proofs; the registry, the policy table and the interceptor; the optimistic
mutators of these features.

Next, in this order:

1. **Cache, continued**: audience tags, rows that move out of a shape, edges.
2. **Session revocation**: the protected store and the engine's revoked states as one with
   `DeviceErasure`.
3. **Composition of features**: an assignment's commit with the bench evaluation and the
   notification that follow it in one behaviour; calendars under timesheets.
4. **Generic nodes**: departments, positions, the skill catalogue, compensation.
