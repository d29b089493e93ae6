----------------------------- MODULE SyncEngine -----------------------------
(***************************************************************************)
(* One device's SyncEngine as a whole: the upload path of SyncUpload       *)
(* composed with the device cache it shares a database with                *)
(* (sync-client/cache.ts), the optimistic writes and their before-images   *)
(* (mutators/cache.ts), and the stream of committed changes a shape        *)
(* delivers.                                                               *)
(*                                                                         *)
(* A row of the cache is one value: 0 when there is none, m when its last  *)
(* writer is this person's mutation m, and MaxMutations + i when it is     *)
(* the i-th write of somebody else.  Audience tags and the second shape    *)
(* are not in this module; there is one shape, whose log is the            *)
(* workspace's history of these rows.                                      *)
(***************************************************************************)
EXTENDS SyncUpload, Sequences

CONSTANTS
  Rows,        \* the rows mutations write
  MaxOthers    \* bound: the writes other people make

ASSUME SyncEngineAssumption == MaxOthers \in Nat

VARIABLES
  rowOf,    \* the row each mutation writes (an argument of the mutation, fixed)
  cache,    \* cache_nodes, durable: the device's value of each row
  undo,     \* outbox.undo_json, durable: the before-image each mutation took
  undone,   \* applyUndo ran for the outcome being settled, reject() did not yet
  log,      \* the committed changes of the shape, in order
  cursor,   \* sync_cursor, durable: how much of the log the cache has applied
  base      \* history: the cursor when each mutation was made

cacheVars == <<rowOf, cache, undo, undone, log, cursor, base>>
engineVars == <<vars, cacheVars>>

Values == 0..(MaxMutations + MaxOthers)
Change == [row : Rows, value : Values]

EngineTypeOK ==
  /\ TypeOK
  /\ rowOf \in [Muts -> Rows]
  /\ cache \in [Rows -> Values]
  /\ undo \in [Muts -> Values]
  /\ undone \in BOOLEAN
  /\ log \in Seq(Change)
  /\ cursor \in 0..Len(log)
  /\ base \in [Muts -> Nat]

EngineInit ==
  /\ Init
  /\ rowOf \in [Muts -> Rows]
  /\ cache = [r \in Rows |-> 0]
  /\ undo = [m \in Muts |-> 0]
  /\ undone = FALSE
  /\ log = <<>>
  /\ cursor = 0
  /\ base = [m \in Muts |-> 0]

\* What row r holds once the entries a..b of the log are applied over value v.
Replayed(r, a, b, v) ==
  LET Writes == {i \in a..b : log[i].row = r}
  IN  IF Writes = {} THEN v ELSE log[CHOOSE i \in Writes : \A j \in Writes : j <= i].value

ServerRow(r) == Replayed(r, 1, Len(log), 0)

-----------------------------------------------------------------------------
(* The engine and its cache *)

\* Mutant: the before-image is taken after the write.
UndoAfterWrite(m) == m

\* runOptimistic reads the row before it writes it.
BeforeImage(m) == cache[rowOf[m]]

\* mutate(): optimistic write, before-image and outbox row in one transaction.
EngineMutate ==
  /\ Mutate
  /\ LET m == issued + 1
     IN  /\ undo' = [undo EXCEPT ![m] = BeforeImage(m)]
         /\ cache' = [cache EXCEPT ![rowOf[m]] = m]
         /\ base' = [base EXCEPT ![m] = cursor]
  /\ UNCHANGED <<rowOf, undone, log, cursor>>

\* The next outcome to settle is a rejection of the mutation itself.
NextIsRejection(m) ==
  /\ m \in First({k \in Muts : wire.answers[k] # "none"})
  /\ wire.answers[m] = "rejected"

\* applyUndo(): the row gets its before-image back, whatever it holds by now.
ApplyUndo ==
  /\ phase = "settle"
  /\ ~undone
  /\ \E m \in Muts :
       /\ NextIsRejection(m)
       /\ cache' = [cache EXCEPT ![rowOf[m]] = undo[m]]
  /\ undone' = TRUE
  /\ UNCHANGED <<vars, rowOf, undo, log, cursor, base>>

EngineSettleOne ==
  /\ SettleOne
  /\ (\E m \in Muts : NextIsRejection(m)) => undone
  /\ undone' = FALSE
  /\ UNCHANGED <<rowOf, cache, undo, log, cursor, base>>

\* Mutant: the cursor is stored although a row of the batch was not.
BatchWithoutLast(n) ==
  /\ cache' = [r \in Rows |-> Replayed(r, cursor + 1, n - 1, cache[r])]
  /\ cursor' = n

\* applyBatch(): rows and cursor in one transaction.
ApplyBatch(n) ==
  /\ cache' = [r \in Rows |-> Replayed(r, cursor + 1, n, cache[r])]
  /\ cursor' = n

\* Mutant: must-refetch drops the rows and keeps the cursor.
ResetRowsOnly ==
  /\ cache' = [r \in Rows |-> 0]
  /\ UNCHANGED cursor

\* resetTemplate(): every row of the shape goes, the optimistic ones too.
ResetTemplate ==
  /\ cache' = [r \in Rows |-> 0]
  /\ cursor' = 0

\* onEvents() with a "changes" event; it ends in a drain() call.
ReceiveChanges ==
  /\ DatabaseFree
  /\ ShapeEvent
  /\ \E n \in (cursor + 1)..Len(log) : ApplyBatch(n)
  /\ UNCHANGED <<rowOf, undo, undone, log, base>>

MustRefetch ==
  /\ DatabaseFree
  /\ ShapeEvent
  /\ ResetTemplate
  /\ UNCHANGED <<rowOf, undo, undone, log, base>>

EngineCrash ==
  /\ \E reaches \in BOOLEAN : Crash(reaches)
  /\ undone' = FALSE
  /\ UNCHANGED <<rowOf, cache, undo, log, cursor, base>>

-----------------------------------------------------------------------------
(* The server *)

\* A mutation applied for the first time changes its row; a replay changes nothing.
LogApplied ==
  LET New == {m \in Muts : stored[m] = "none" /\ stored'[m] = "applied"}
  IN  IF New = {}
        THEN UNCHANGED log
        ELSE \E m \in New : log' = Append(log, [row |-> rowOf[m], value |-> m])

EngineServer ==
  /\ ServerHandlesCurrent \/ ServerHandlesLate
  /\ LogApplied
  /\ UNCHANGED <<rowOf, cache, undo, undone, cursor, base>>

OtherWrites(r) ==
  LET written == Cardinality({i \in DOMAIN log : log[i].value > MaxMutations})
  IN  /\ written < MaxOthers
      /\ log' = Append(log, [row |-> r, value |-> MaxMutations + written + 1])
      /\ UNCHANGED <<vars, rowOf, cache, undo, undone, cursor, base>>

-----------------------------------------------------------------------------
\* Upload steps that leave the cache alone.
UploadOnly ==
  /\ \/ Start \/ DrainCall \/ SelectNothing \/ SelectBatch
     \/ ReceiveOutcomes \/ BeginSettle \/ SettleDone \/ RequeueInflight \/ CloseRun
     \/ ShapeEvent \/ TimerFires \/ ServerDropsLate
     \/ \E error \in Errors, reaches \in BOOLEAN : UploadFails(error, reaches)
     \/ \E m \in Muts : DismissRejected(m)
  /\ UNCHANGED cacheVars

EngineNext ==
  \/ EngineMutate \/ ApplyUndo \/ EngineSettleOne
  \/ ReceiveChanges \/ MustRefetch \/ EngineCrash
  \/ EngineServer \/ \E r \in Rows : OtherWrites(r)
  \/ UploadOnly

EngineSpec == EngineInit /\ [][EngineNext]_engineVars

-----------------------------------------------------------------------------
(* Properties *)

\* The mutation is in the part of the log the cache has applied.
Replicated(m) == \E i \in 1..cursor : log[i] = [row |-> rowOf[m], value |-> m]

\* A row whose every local write has come back through the shape holds exactly
\* what the log says at the stored cursor, whatever was optimistic before,
\* whatever batch, refetch or restart came between.
CacheFollowsLog ==
  \A r \in Rows :
    (\A m \in 1..issued : rowOf[m] = r => Replicated(m))
      => cache[r] = Replayed(r, 1, cursor, 0)

\* Rejecting a mutation puts its row right when the person made no other write
\* to the row and the row did not change since the mutation was made: then the
\* cache holds the server's row again, after any crash, retry or refetch.
SoleRejectionRestores ==
  \A m \in 1..issued :
    /\ status[m] \in {"none", "rejected"}
    /\ stored[m] = "rejected"
    /\ \A k \in 1..issued : rowOf[k] = rowOf[m] => k = m
    /\ \A i \in (base[m] + 1)..Len(log) : log[i].row # rowOf[m]
    /\ cursor = Len(log)
    => cache[rowOf[m]] = ServerRow(rowOf[m])
=============================================================================
