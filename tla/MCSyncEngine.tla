---------------------------- MODULE MCSyncEngine ----------------------------
(***************************************************************************)
(* Three parts of a person's devices for TLC, each on an instance of its   *)
(* own: an engine and its cache (SyncEngine), the sessions of the worker   *)
(* that holds engines (WorkerSessions), and the trust the workspaces put   *)
(* in the devices (DeviceTrust).  They share no state: a behaviour is one  *)
(* of the part its initial state names, and the others rest.               *)
(***************************************************************************)
EXTENDS SyncEngine, TLC

CONSTANTS Ports, MaxEngines, Devices, Workspaces, ApiCalls, MaxClock

ASSUME SessionsAssumption == MaxEngines \in Nat

VARIABLES part,
          made, engine, current, attached, port, by, refused, crossed,
          registered, retired, pushable, revocation, latest, member, suspended,
          clock, call, judged, overlapped

sessionVars == <<made, engine, current, attached, port, by, refused, crossed>>
trustVars == <<registered, retired, pushable, revocation, latest, member, suspended,
               clock, call, judged, overlapped>>
allVars == <<part, engineVars, sessionVars, trustVars>>

Sessions == INSTANCE WorkerSessions
Trust == INSTANCE DeviceTrust WITH Calls <- ApiCalls

OfEngine == part = "engine" /\ UNCHANGED <<part, sessionVars, trustVars>>
OfSessions == part = "sessions" /\ UNCHANGED <<part, engineVars, trustVars>>
OfTrust == part = "trust" /\ UNCHANGED <<part, engineVars, sessionVars>>

\* An engine that rests writes one row: which does not matter then.
DeviceInit ==
  /\ part \in {"engine", "sessions", "trust"}
  /\ EngineInit
  /\ Sessions!Init
  /\ Trust!Init
  /\ part # "engine" => \A m, n \in Muts : rowOf[m] = rowOf[n]
DeviceNext ==
  \/ OfEngine /\ EngineNext
  \/ OfSessions /\ Sessions!Next
  \/ OfTrust /\ Trust!Next
DeviceSpec == DeviceInit /\ [][DeviceNext]_allVars

DeviceSymmetry ==
  Permutations(Rows) \cup Permutations(Workspaces) \cup Permutations(ApiCalls)

-----------------------------------------------------------------------------
\* The tabs of a worker share one engine, unless an init arrived in another.
OneEngine == Sessions!OneEngine

\* What a re-approval takes back was recorded as stale, unless calls overlapped.
OnlyStaleIsTakenBack == Trust!OnlyStaleIsTakenBack
=============================================================================
