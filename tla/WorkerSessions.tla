--------------------------- MODULE WorkerSessions ---------------------------
(***************************************************************************)
(* The worker side of the sync client as the tabs see it                   *)
(* (sync-client/host.ts): one SharedWorker for a (workspace, user), a map  *)
(* of sessions with at most one entry for them, and requests handled one   *)
(* after the other up to their first await.  A tab sends init, and other   *)
(* requests once init is answered (sync-client/client.ts).                 *)
(*                                                                         *)
(* Engines are numbered as they are created; each has its own connection   *)
(* to the one cache database.                                              *)
(***************************************************************************)
EXTENDS Naturals

CONSTANTS
  Ports,        \* tabs
  MaxEngines    \* bound: engines ever created

Engines == 1..MaxEngines
NoEngine == 0

VARIABLES
  made,       \* engines created so far
  engine,     \* the state of each
  current,    \* the entry of the sessions map
  attached,   \* session.ports of each engine's session
  port,       \* each tab: "new", "waiting" for createSession, "answered", "closed"
  by,         \* the engine its init created or met
  refused,    \* tabs whose last request was answered "not initialized"
  crossed     \* history: an init arrived while another was being handled

vars == <<made, engine, current, attached, port, by, refused, crossed>>

-----------------------------------------------------------------------------
\* "revoking" and "signing out" last while the cache is being erased.
EngineStates == {"none", "running", "revoking", "revoked", "signing out", "signed out"}
PortStates == {"new", "waiting", "answered", "closed"}

TypeOK ==
  /\ made \in 0..MaxEngines
  /\ engine \in [Engines -> EngineStates]
  /\ current \in Engines \cup {NoEngine}
  /\ attached \in [Engines -> SUBSET Ports]
  /\ port \in [Ports -> PortStates]
  /\ by \in [Ports -> Engines \cup {NoEngine}]
  /\ refused \in SUBSET Ports /\ crossed \in BOOLEAN
  /\ \A e \in Engines : engine[e] = "none" <=> e > made
  /\ \A p \in Ports : port[p] = "answered" => p \in attached[by[p]]

Init ==
  /\ made = 0
  /\ engine = [e \in Engines |-> "none"]
  /\ current = NoEngine
  /\ attached = [e \in Engines |-> {}]
  /\ port = [p \in Ports |-> "new"]
  /\ by = [p \in Ports |-> NoEngine]
  /\ refused = {} /\ crossed = FALSE

Become(e, old, new) ==
  /\ engine[e] = old
  /\ engine' = [engine EXCEPT ![e] = new]

Attached(p, e) ==
  /\ port' = [port EXCEPT ![p] = "answered"]
  /\ by' = [by EXCEPT ![p] = e]

-----------------------------------------------------------------------------
(* init *)

\* Mutant: the map is not looked at.
NoEntry == NoEngine

\* A session whose access was revoked is dropped from the map.
Kept == IF current # NoEngine /\ engine[current] = "revoked" THEN NoEngine ELSE current

InitArrives == crossed' = (crossed \/ \E p \in Ports : port[p] = "waiting")

\* The session is there: the tab joins it.
JoinSession(p) ==
  /\ port[p] = "new"
  /\ InitArrives
  /\ Kept # NoEngine
  /\ Attached(p, Kept)
  /\ attached' = [attached EXCEPT ![Kept] = @ \cup {p}]
  /\ UNCHANGED <<made, engine, current, refused>>

\* It is not: createSession() makes an engine and starts it, which takes awaits.
BeginSession(p) ==
  /\ port[p] = "new"
  /\ InitArrives
  /\ Kept = NoEngine
  /\ made < MaxEngines
  /\ made' = made + 1
  /\ current' = Kept
  /\ engine' = [engine EXCEPT ![made + 1] = "running"]
  /\ port' = [port EXCEPT ![p] = "waiting"]
  /\ by' = [by EXCEPT ![p] = made + 1]
  /\ UNCHANGED <<attached, refused>>

PortsWith(p) == attached[by[p]] \cup {p}

\* sessions.set(key, session), whatever is there by now.
SessionCreated(p) ==
  /\ port[p] = "waiting"
  /\ current' = by[p]
  /\ Attached(p, by[p])
  /\ attached' = [attached EXCEPT ![by[p]] = PortsWith(p)]
  /\ UNCHANGED <<made, engine, refused, crossed>>

-----------------------------------------------------------------------------
(* Requests, and what ends a session *)

\* Mutant: a session that has stopped does not answer.
RunningSession(p) ==
  current # NoEngine /\ engine[current] = "running" /\ p \in attached[current]

\* The session among those in the map that has the port.
HasSession(p) == current # NoEngine /\ p \in attached[current]

Request(p) ==
  /\ port[p] = "answered"
  /\ refused' = IF HasSession(p) THEN refused \ {p} ELSE refused \cup {p}
  /\ UNCHANGED <<made, engine, current, attached, port, by, crossed>>

SignOut(p) ==
  /\ port[p] = "answered"
  /\ HasSession(p)
  /\ Become(current, "running", "signing out")
  /\ UNCHANGED <<made, current, attached, port, by, refused, crossed>>

\* The server refuses the engine's device or membership: in the map or not.
Revoked(e) ==
  /\ Become(e, "running", "revoking")
  /\ UNCHANGED <<made, current, attached, port, by, refused, crossed>>

\* The cache is erased (or its erasure recorded) and the state published.
Erased(e) ==
  /\ \/ Become(e, "revoking", "revoked")
     \/ Become(e, "signing out", "signed out")
  /\ UNCHANGED <<made, current, attached, port, by, refused, crossed>>

\* The tab goes away.  Its port closes, for which the worker has no handler:
\* messageerror is about messages that cannot be read.
CloseTab(p) ==
  /\ port[p] = "answered"
  /\ port' = [port EXCEPT ![p] = "closed"]
  /\ refused' = refused \ {p}
  /\ UNCHANGED <<made, engine, current, attached, by, crossed>>

Next ==
  \/ \E p \in Ports :
       \/ JoinSession(p) \/ BeginSession(p) \/ SessionCreated(p)
       \/ Request(p) \/ SignOut(p) \/ CloseTab(p)
  \/ \E e \in Engines : Revoked(e) \/ Erased(e)

Spec == Init /\ [][Next]_vars

-----------------------------------------------------------------------------
(* Properties *)

\* host.ts:34: every tab connects to the one worker, "which holds the one
\* engine": never two of them on the same cache and outbox, unless an init arrived
\* in the middle of another.
OneEngine ==
  ~crossed =>
    \A e, f \in Engines : engine[e] = "running" /\ engine[f] = "running" => e = f

\* A tab whose init was answered is heard from then on, until its access is revoked,
\* under the same condition.
HeardUntilRevoked == ~crossed => \A p \in refused : engine[by[p]] = "revoked"
=============================================================================
