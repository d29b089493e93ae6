-------------------------- MODULE ProtectedContent --------------------------
(***************************************************************************)
(* Encrypted Tier 1 content of one workspace and its keys: one key that    *)
(* wraps (KEK), one data key per erasure domain, made on first use, and    *)
(* its destruction, which is the erasure (services/api/src: crypto/keys.ts,*)
(* crypto/key-cache.ts, protected/write.ts, read.ts, erasure.ts).          *)
(*                                                                         *)
(* A call is one READ COMMITTED transaction: each statement sees what is   *)
(* committed when it runs.  Unique indexes make an insert wait for another *)
(* transaction's uncommitted row and fail if that one commits.  The cache  *)
(* of unwrapped keys is the process's, outside every transaction.          *)
(***************************************************************************)
EXTENDS Naturals, FiniteSets

CONSTANTS
  Domains,    \* erasure domains, each with one protected partition
  Calls,      \* transactions open at the same time
  MaxKeys,    \* bound: data keys ever made
  MaxCalls    \* bound: calls ever made

NoDomain == "no domain"

ASSUME ProtectedContentAssumption ==
  MaxKeys \in Nat /\ MaxCalls \in Nat /\ NoDomain \notin Domains

VARIABLES
  kek,        \* a live KEK is stored
  domainOf,   \* protected_data_keys: the data key's domain
  state,      \* and whether it has its wrapped bytes
  fragment,   \* graph_protected_fragments: the key it is sealed with
  cache,      \* KeyCache: data keys held unwrapped
  call,
  made,       \* calls made so far
  crossed     \* history: the calls that were in progress together with another

vars == <<kek, domainOf, state, fragment, cache, call, made, crossed>>

-----------------------------------------------------------------------------
Keys == 1..MaxKeys
NoKey == 0
Operations == {"write", "read", "erase"}
Steps == {"begin", "open", "kek", "key", "fragment", "store", "load", "release", "destroy", "commit"}
CallStates ==
  [op : Operations, step : Steps, domain : Domains,
   key : Keys \cup {NoKey},       \* the data key in hand
   own : BOOLEAN,                 \* which this transaction inserted
   ownKek : BOOLEAN,              \* it inserted the KEK as well
   found : BOOLEAN,               \* the fragment existed when looked for
   gone : SUBSET Keys]            \* keys destroyed before the call began
NoCall == [step |-> "idle"]

TypeOK ==
  /\ kek \in BOOLEAN
  /\ domainOf \in [Keys -> Domains \cup {NoDomain}]
  /\ state \in [Keys -> {"unused", "inserted", "live", "destroyed"}]
  /\ fragment \in [Domains -> Keys \cup {NoKey}]
  /\ cache \subseteq Keys
  /\ call \in [Calls -> CallStates \cup {NoCall}]
  /\ made \in 0..MaxCalls /\ crossed \subseteq Calls
  /\ \A k \in Keys :
       /\ state[k] = "unused" <=> domainOf[k] = NoDomain
       /\ state[k] = "inserted" => \E c \in Calls : call[c] # NoCall /\ call[c].own /\ call[c].key = k

Init ==
  /\ kek = FALSE
  /\ domainOf = [k \in Keys |-> NoDomain] /\ state = [k \in Keys |-> "unused"]
  /\ fragment = [d \in Domains |-> NoKey]
  /\ cache = {} /\ call = [c \in Calls |-> NoCall] /\ made = 0 /\ crossed = {}

-----------------------------------------------------------------------------
At(c, op, step) == call[c] # NoCall /\ call[c].op = op /\ call[c].step = step
Domain(c) == call[c].domain
Moves(c, step) == call' = [call EXCEPT ![c] = [@ EXCEPT !.step = step]]
Returns(c) == call' = [call EXCEPT ![c] = NoCall]
KeepsKeys == UNCHANGED <<kek, domainOf, state, fragment>>
Stored(d, states) == {k \in Keys : domainOf[k] = d /\ state[k] \in states}

Request(c, op, d) ==
  /\ call[c] = NoCall /\ made < MaxCalls
  /\ made' = made + 1
  /\ crossed' = LET busy == {b \in Calls : call[b] # NoCall}
                IN  IF busy = {} THEN {} ELSE busy \cup {c}
  /\ call' = [call EXCEPT ![c] =
       [op |-> op, step |-> "begin", domain |-> d, key |-> NoKey, own |-> FALSE,
        ownKek |-> FALSE, found |-> FALSE,
        gone |-> {k \in Keys : state[k] = "destroyed"}]]
  /\ KeepsKeys /\ UNCHANGED cache

-----------------------------------------------------------------------------
\* writeProtected

\* Mutant: destroyed keys are not looked at.
NotErasedAnyway(d) == TRUE

\* No key of the domain was ever destroyed.
NotErased(d) == Stored(d, {"destroyed"}) = {}

\* ensureDataKey: the live key, or a new one for a domain that never had one.
FindKey(c) ==
  /\ At(c, "write", "begin")
  /\ LET live == Stored(Domain(c), {"live"}) IN
     \/ \E k \in live :
          call' = [call EXCEPT ![c] = [@ EXCEPT !.step = "open", !.key = k]]
     \/ live = {} /\ NotErased(Domain(c)) /\ Moves(c, "kek")
     \/ live = {} /\ ~NotErased(Domain(c)) /\ Returns(c)
  /\ KeepsKeys /\ UNCHANGED <<cache, made, crossed>>

\* openDataKey: the key of the row selected before is unwrapped and cached, whatever
\* has become of the row; one found in the cache is taken from there.
OpenKey(c) ==
  /\ call[c] # NoCall /\ call[c].step = "open"
  /\ cache' = cache \cup {call[c].key}
  /\ Moves(c, IF call[c].op = "write" THEN "fragment" ELSE "release")
  /\ KeepsKeys /\ UNCHANGED <<made, crossed>>

\* ensureWorkspaceKek: insert it unless it is there, or lose to who did first.
FindKek(c) ==
  /\ At(c, "write", "kek")
  /\ IF kek THEN Moves(c, "key")
     ELSE /\ \A b \in Calls : call[b] # NoCall => ~call[b].ownKek
          /\ call' = [call EXCEPT ![c] = [@ EXCEPT !.step = "key", !.ownKek = TRUE]]
  /\ KeepsKeys /\ UNCHANGED <<cache, made, crossed>>

\* Mutant: no unique index on live data keys.
FreeOfAnyKey(d) == TRUE

\* protected_data_keys_live_tier1_dek_uidx
FreeOfLiveKeys(d) == Stored(d, {"live"}) = {}

InsertKey(c) ==
  /\ At(c, "write", "key")
  /\ FreeOfLiveKeys(Domain(c)) => Stored(Domain(c), {"inserted"}) = {}
  /\ IF FreeOfLiveKeys(Domain(c)) /\ (call[c].ownKek \/ kek)
       THEN \E k \in Keys :
              /\ state[k] = "unused"
              /\ state' = [state EXCEPT ![k] = "inserted"]
              /\ domainOf' = [domainOf EXCEPT ![k] = Domain(c)]
              /\ cache' = cache \cup {k}
              /\ call' = [call EXCEPT ![c] =
                   [@ EXCEPT !.step = "fragment", !.key = k, !.own = TRUE]]
       ELSE Returns(c) /\ UNCHANGED <<state, domainOf, cache>>
  /\ UNCHANGED <<kek, fragment, made, crossed>>

FindFragment(c) ==
  /\ At(c, "write", "fragment")
  /\ call' = [call EXCEPT ![c] =
       [@ EXCEPT !.step = "store", !.found = fragment[Domain(c)] # NoKey]]
  /\ KeepsKeys /\ UNCHANGED <<cache, made, crossed>>

\* What a transaction that ends leaves of a key it inserted.
KeyAfter(c, outcome) ==
  [k \in Keys |-> IF call[c].own /\ k = call[c].key THEN outcome ELSE state[k]]

Abandon(c) ==
  /\ state' = KeyAfter(c, "unused")
  /\ domainOf' = [k \in Keys |->
       IF call[c].own /\ k = call[c].key THEN NoDomain ELSE domainOf[k]]
  /\ Returns(c)

\* The fragment is inserted or updated, once nobody else is writing it.
StoreFragment(c) ==
  /\ At(c, "write", "store")
  /\ \A b \in Calls \ {c} : ~(At(b, "write", "commit") /\ Domain(b) = Domain(c))
  /\ IF call[c].found \/ fragment[Domain(c)] = NoKey
       THEN Moves(c, "commit") /\ UNCHANGED <<state, domainOf>>
       ELSE Abandon(c)
  /\ UNCHANGED <<kek, fragment, cache, made, crossed>>

CommitWrite(c) ==
  /\ At(c, "write", "commit")
  /\ kek' = (kek \/ call[c].ownKek)
  /\ state' = KeyAfter(c, "live")
  /\ fragment' = [fragment EXCEPT ![Domain(c)] = call[c].key]
  /\ Returns(c)
  /\ UNCHANGED <<domainOf, cache, made, crossed>>

-----------------------------------------------------------------------------
\* readProtected

ReadFragment(c) ==
  /\ At(c, "read", "begin")
  /\ IF fragment[Domain(c)] = NoKey THEN Returns(c)
     ELSE call' = [call EXCEPT ![c] = [@ EXCEPT !.step = "load", !.key = fragment[Domain(c)]]]
  /\ KeepsKeys /\ UNCHANGED <<cache, made, crossed>>

\* Mutant: a cached key is used without looking at its row.
HeldOrOpenable(k) == k \in cache \/ state[k] = "live"

\* loadDataKey: the row decides, the cache only saves unwrapping.
Openable(k) == state[k] = "live"

LoadKey(c) ==
  /\ At(c, "read", "load")
  /\ IF Openable(call[c].key) THEN Moves(c, "open") ELSE Returns(c)
  /\ KeepsKeys /\ UNCHANGED <<cache, made, crossed>>

Release(c) ==
  /\ At(c, "read", "release")
  /\ Returns(c)
  /\ KeepsKeys /\ UNCHANGED <<cache, made, crossed>>

-----------------------------------------------------------------------------
\* eraseErasureDomain

\* Mutant: the domain is left out of the condition.
LiveKeysOfTheWorkspace(d) == {k \in Keys : state[k] = "live"}

LiveKeys(d) == Stored(d, {"live"})

SelectKeys(c) ==
  /\ At(c, "erase", "begin")
  /\ IF LiveKeys(Domain(c)) = {} THEN Returns(c)
     ELSE \E k \in LiveKeys(Domain(c)) :
            call' = [call EXCEPT ![c] = [@ EXCEPT !.step = "destroy", !.key = k]]
  /\ KeepsKeys /\ UNCHANGED <<cache, made, crossed>>

\* Mutant: the unwrapped key stays in memory.
KeepCached(k) == cache

EvictKey(k) == cache \ {k}

\* The row is updated, and locked, and the key evicted at once.
DestroyKey(c) ==
  /\ At(c, "erase", "destroy")
  /\ \A b \in Calls : ~(At(b, "erase", "commit") /\ call[b].key = call[c].key)
  /\ cache' = EvictKey(call[c].key)
  /\ Moves(c, "commit")
  /\ KeepsKeys /\ UNCHANGED <<made, crossed>>

CommitErase(c) ==
  /\ At(c, "erase", "commit")
  /\ state' = [state EXCEPT ![call[c].key] = "destroyed"]
  /\ Returns(c)
  /\ UNCHANGED <<kek, domainOf, fragment, cache, made, crossed>>

-----------------------------------------------------------------------------
\* A transaction that fails rolls back; the cache is not part of it.
RollBack(c) ==
  /\ call[c] # NoCall
  /\ Abandon(c)
  /\ UNCHANGED <<kek, fragment, cache, made, crossed>>

\* KEY_CACHE_TTL_MS passes, or the cache is full.
Expire(k) ==
  /\ k \in cache
  /\ cache' = cache \ {k}
  /\ KeepsKeys /\ UNCHANGED <<call, made, crossed>>

Next ==
  \/ \E c \in Calls :
       \/ \E op \in Operations, d \in Domains : Request(c, op, d)
       \/ FindKey(c) \/ OpenKey(c) \/ FindKek(c) \/ InsertKey(c) \/ FindFragment(c)
       \/ StoreFragment(c) \/ CommitWrite(c)
       \/ ReadFragment(c) \/ LoadKey(c) \/ Release(c)
       \/ SelectKeys(c) \/ DestroyKey(c) \/ CommitErase(c)
       \/ RollBack(c)
  \/ \E k \in Keys : Expire(k)

Spec == Init /\ [][Next]_vars

-----------------------------------------------------------------------------
(* Properties *)

\* However many first writes race, a domain has one live key at most.
OneLiveKey == \A d \in Domains : Cardinality(Stored(d, {"live"})) <= 1

\* A read that began after a key's destruction returns no content sealed with it,
\* whatever the cache still holds.
NothingReadAfterErasure ==
  \A c \in Calls : At(c, "read", "release") => call[c].key \notin call[c].gone

\* A key is never destroyed by the erasure of another domain.
ErasureIsScoped ==
  [][\A k \in Keys : state[k] = "live" /\ state'[k] = "destroyed" =>
       \E c \in Calls : At(c, "erase", "commit") /\ Domain(c) = domainOf[k]]_vars

\* crypto/keys.ts:124, "a Tier 1 domain whose key was destroyed stays erased: it
\* is never re-created": no write that began after an erasure makes a key for the
\* domain (one already in progress may: it looked before).
NeverRecreated ==
  \A c \in Calls : call[c] # NoCall /\ call[c].own =>
    \A k \in call[c].gone : domainOf[k] # Domain(c)

\* protected/erasure.ts:19, destroyed keys "are evicted from the cache": a key that
\* its erasure leaves in the cache was put back during it, by another call, and a
\* destroyed key comes into the cache only with a call that began before the key was
\* destroyed and had selected its row.
ErasedKeysLeaveTheCache ==
  [][\A k \in Keys : state'[k] = "destroyed" /\ k \in cache' =>
       \/ state[k] = "destroyed" /\ k \in cache
       \/ \E c \in crossed : At(c, "erase", "commit") /\ call[c].key = k
       \/ \E c \in Calls : /\ call[c] # NoCall /\ call[c].step = "open"
                          /\ call[c].key = k /\ k \notin call[c].gone]_vars
=============================================================================
