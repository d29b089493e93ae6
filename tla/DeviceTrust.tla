---------------------------- MODULE DeviceTrust ----------------------------
(***************************************************************************)
(* The devices of one person, and the workspaces that trust them           *)
(* (services/api/src/auth: device-registry.ts, device-revocation.ts,       *)
(* device-revocation-store.ts, device-trust-log.ts, workspace-session.ts). *)
(*                                                                         *)
(* A device is registered once and retired once, by its own person, for    *)
(* every workspace.  An Owner of a workspace revokes it there, for good or *)
(* because it looks stale, and may re-approve a stale one.  A removal and  *)
(* a suspension revoke whatever devices the person has.  Every decision is *)
(* written to a trust log, whose entries carry the time their transaction  *)
(* began, and re-approval asks the log for the newest one.                 *)
(*                                                                         *)
(* Calls overlap: what a call reads before its transaction may have        *)
(* changed when the transaction commits.                                   *)
(***************************************************************************)
EXTENDS Naturals

CONSTANTS
  Devices,      \* the devices of the person
  Workspaces,   \* the workspaces the person is a member of at first
  Calls,        \* API calls handled at the same time
  MaxClock      \* bound: transactions that begin


VARIABLES
  registered,   \* device rows
  retired,      \* device.is_revoked
  pushable,     \* devices with a push token
  revocation,   \* device_workspace_revocation: why, for each workspace and device
  latest,       \* device_trust_event: the newest entry of a device in a workspace
  member,       \* workspaces where the membership is active and confirmed
  suspended,    \* user.status
  clock,        \* the database's clock: transactions begun
  call,         \* the calls in progress
  judged,       \* history: the devices an Owner has revoked explicitly, and where
  overlapped    \* history: some call began while another was in progress

vars == <<registered, retired, pushable, revocation, latest, member, suspended,
          clock, call, judged, overlapped>>

-----------------------------------------------------------------------------
NotRevoked == "not revoked"
Reasons == {"explicit", "stale", "membership-revoked", "user-suspended"}
Events == {"none", "revoked-explicit", "stale-flagged", "revoked-membership", "re-approved"}
Operations == {"register", "revoke", "flag", "reapprove", "remove", "suspend"}
CallStates ==
  [step : {"check", "latest", "begin", "commit"}, op : Operations,
   device : Devices, workspace : Workspaces, at : Nat]
NoCall == [step |-> "idle"]

TypeOK ==
  /\ registered \subseteq Devices /\ retired \subseteq registered
  /\ pushable \subseteq registered
  /\ revocation \in [Workspaces -> [Devices -> Reasons \cup {NotRevoked}]]
  /\ latest \in [Workspaces -> [Devices -> [type : Events, at : Nat]]]
  /\ member \subseteq Workspaces /\ suspended \in BOOLEAN
  /\ clock \in Nat
  /\ call \in [Calls -> CallStates \cup {NoCall}]
  /\ judged \subseteq Workspaces \X Devices
  /\ overlapped \in BOOLEAN

Init ==
  /\ registered = {} /\ retired = {} /\ pushable = {}
  /\ revocation = [w \in Workspaces |-> [d \in Devices |-> NotRevoked]]
  /\ latest = [w \in Workspaces |-> [d \in Devices |-> [type |-> "none", at |-> 0]]]
  /\ member = Workspaces /\ suspended = FALSE
  /\ clock = 0
  /\ call = [c \in Calls |-> NoCall]
  /\ judged = {} /\ overlapped = FALSE

-----------------------------------------------------------------------------
\* What the session path and the shape proxy ask on every request.
Accepted(w, d) ==
  /\ w \in member /\ ~suspended
  /\ d \in registered \ retired
  /\ revocation[w][d] = NotRevoked

\* Whoever has a session may register and retire; suspension deletes sessions.
SignedIn == ~suspended

Op(c) == call[c].op
Device(c) == call[c].device
Workspace(c) == call[c].workspace
At(c, step) == call[c].step = step
Moves(c, step) == call' = [call EXCEPT ![c].step = step]
Returns(c) == call' = [call EXCEPT ![c] = NoCall]

\* Where each operation starts: registration and re-approval look first.
FirstStep(op) == IF op \in {"register", "reapprove"} THEN "check" ELSE "begin"

Request(c, op, w, d) ==
  /\ call[c] = NoCall
  /\ op = "register" => SignedIn
  /\ call' = [call EXCEPT ![c] =
       [step |-> FirstStep(op), op |-> op, device |-> d, workspace |-> w, at |-> 0]]
  /\ overlapped' = (overlapped \/ \E b \in Calls : call[b] # NoCall)
  /\ UNCHANGED <<registered, retired, pushable, revocation, latest, member, suspended,
                 clock, judged>>

\* A transaction begins: its log entries will carry this time.
Begin(c) ==
  /\ At(c, "begin")
  /\ clock < MaxClock
  /\ clock' = clock + 1
  /\ call' = [call EXCEPT ![c].step = "commit", ![c].at = clock + 1]
  /\ UNCHANGED <<registered, retired, pushable, revocation, latest, member, suspended, judged, overlapped>>

\* The log after an entry about each of the devices: the newest by time counts.
Logged(w, devices, type, at) ==
  [latest EXCEPT ![w] = [d \in Devices |->
     IF d \in devices /\ at > latest[w][d].at THEN [type |-> type, at |-> at]
     ELSE latest[w][d]]]

\* The revocations after insert ... on conflict do nothing.
RevokedAlso(w, devices, reason) ==
  [revocation EXCEPT ![w] = [d \in Devices |->
     IF d \in devices /\ revocation[w][d] = NotRevoked THEN reason
     ELSE revocation[w][d]]]

-----------------------------------------------------------------------------
\* Mutant: registering again makes the device good again.
RegisteredAfresh(d, push) ==
  /\ retired' = retired \ {d}
  /\ pushable' = IF push THEN pushable \cup {d} ELSE pushable \ {d}

\* Registering again updates the name and the push token, and clears nothing.
RegisteredAgain(d, push) ==
  /\ pushable' = IF push THEN pushable \cup {d} ELSE pushable \ {d}
  /\ UNCHANGED retired

RegisterKnown(c, push) ==
  /\ At(c, "check") /\ Op(c) = "register"
  /\ Device(c) \in registered
  /\ RegisteredAgain(Device(c), push)
  /\ Returns(c)
  /\ UNCHANGED <<registered, revocation, latest, member, suspended, clock, judged, overlapped>>

RegisterUnknown(c) ==
  /\ At(c, "check") /\ Op(c) = "register"
  /\ Device(c) \notin registered
  /\ Moves(c, "begin")
  /\ UNCHANGED <<registered, retired, pushable, revocation, latest, member, suspended,
                 clock, judged, overlapped>>

\* The insert fails on the primary key when a second call was faster.
RegisterCommit(c, push) ==
  /\ At(c, "commit") /\ Op(c) = "register"
  /\ registered' = registered \cup {Device(c)}
  /\ pushable' = IF push /\ Device(c) \notin registered
                   THEN pushable \cup {Device(c)} ELSE pushable
  /\ Returns(c)
  /\ UNCHANGED <<retired, revocation, latest, member, suspended, clock, judged, overlapped>>

\* Mutant: whose device it is, and whether it exists, is not asked.
RetireUnowned(d) ==
  /\ SignedIn
  /\ retired' = retired \cup {d}
  /\ pushable' = IF d \in retired THEN pushable ELSE pushable \ {d}
  /\ UNCHANGED <<registered, revocation, latest, member, suspended, clock, call, judged, overlapped>>

\* The device's own person retires it everywhere; the transaction's only
\* condition is the one it checks.
Retire(d) ==
  /\ SignedIn
  /\ d \in registered
  /\ retired' = retired \cup {d}
  /\ pushable' = IF d \in retired THEN pushable ELSE pushable \ {d}
  /\ UNCHANGED <<registered, revocation, latest, member, suspended, clock, call, judged, overlapped>>

-----------------------------------------------------------------------------
\* Mutant: revoking in one workspace retires the device.
RevokesEverywhere(w, d, reason, type, at) ==
  /\ retired' = retired \cup {d}
  /\ revocation' = RevokedAlso(w, {d}, reason)
  /\ latest' = Logged(w, {d}, type, at)

\* A revocation of one device in one workspace, logged if it is a new one.
Revokes(w, d, reason, type, at) ==
  /\ revocation' = RevokedAlso(w, {d}, reason)
  /\ latest' = IF revocation[w][d] = NotRevoked THEN Logged(w, {d}, type, at) ELSE latest
  /\ UNCHANGED retired

\* An Owner revokes a device of a member, explicitly or as stale.
RevokeCommit(c) ==
  /\ At(c, "commit") /\ Op(c) \in {"revoke", "flag"}
  /\ IF Device(c) \in registered
       THEN IF Op(c) = "flag"
              THEN Revokes(Workspace(c), Device(c), "stale", "stale-flagged", call[c].at)
              ELSE Revokes(Workspace(c), Device(c), "explicit", "revoked-explicit", call[c].at)
       ELSE UNCHANGED <<retired, revocation, latest>>
  /\ judged' = IF Op(c) = "revoke" /\ Device(c) \in registered
                 THEN judged \cup {<<Workspace(c), Device(c)>>} ELSE judged
  /\ Returns(c)
  /\ UNCHANGED <<registered, pushable, member, suspended, clock, overlapped>>

\* Re-approval: the device exists and its person has not retired it ...
ReapproveCheck(c) ==
  /\ At(c, "check") /\ Op(c) = "reapprove"
  /\ IF Device(c) \in registered \ retired THEN Moves(c, "latest") ELSE Returns(c)
  /\ UNCHANGED <<registered, retired, pushable, revocation, latest, member, suspended,
                 clock, judged, overlapped>>

\* Mutant: the log is not asked.
ReapprovableAnyway(w, d) == TRUE

\* ... the newest entry of this workspace says stale ...
Reapprovable(w, d) == latest[w][d].type = "stale-flagged"

ReapproveLatest(c) ==
  /\ At(c, "latest")
  /\ IF Reapprovable(Workspace(c), Device(c)) THEN Moves(c, "begin") ELSE Returns(c)
  /\ UNCHANGED <<registered, retired, pushable, revocation, latest, member, suspended,
                 clock, judged, overlapped>>

\* ... and in a transaction of its own the revocation is deleted, whatever it is.
ReapproveCommit(c) ==
  LET w == Workspace(c)  d == Device(c) IN
  /\ At(c, "commit") /\ Op(c) = "reapprove"
  /\ IF revocation[w][d] # NotRevoked
       THEN /\ revocation' = [revocation EXCEPT ![w] = [@ EXCEPT ![d] = NotRevoked]]
            /\ latest' = Logged(w, {d}, "re-approved", call[c].at)
       ELSE UNCHANGED <<revocation, latest>>
  /\ Returns(c)
  /\ UNCHANGED <<registered, retired, pushable, member, suspended, clock, judged, overlapped>>

\* A member is removed: the devices registered by now are revoked there.
RemoveCommit(c) ==
  /\ At(c, "commit") /\ Op(c) = "remove"
  /\ member' = member \ {Workspace(c)}
  /\ revocation' = RevokedAlso(Workspace(c), registered, "membership-revoked")
  /\ latest' = Logged(Workspace(c), registered, "revoked-membership", call[c].at)
  /\ Returns(c)
  /\ UNCHANGED <<registered, retired, pushable, suspended, clock, judged, overlapped>>

\* The account is suspended: every workspace, logged without one.
SuspendCommit(c) ==
  /\ At(c, "commit") /\ Op(c) = "suspend"
  /\ suspended' = TRUE
  /\ revocation' = IF suspended THEN revocation
                   ELSE [w \in Workspaces |-> RevokedAlso(w, registered, "user-suspended")[w]]
  /\ Returns(c)
  /\ UNCHANGED <<registered, retired, pushable, latest, member, clock, judged, overlapped>>

Next ==
  \/ \E c \in Calls :
       \/ \E op \in Operations, w \in Workspaces, d \in Devices : Request(c, op, w, d)
       \/ Begin(c)
       \/ RegisterUnknown(c)
       \/ \E push \in BOOLEAN : RegisterKnown(c, push) \/ RegisterCommit(c, push)
       \/ RevokeCommit(c)
       \/ ReapproveCheck(c) \/ ReapproveLatest(c) \/ ReapproveCommit(c)
       \/ RemoveCommit(c) \/ SuspendCommit(c)
  \/ \E d \in Devices : Retire(d)

Spec == Init /\ [][Next]_vars

-----------------------------------------------------------------------------
(* Properties *)

\* F191: what is decided for one workspace never decides for another.
ScopedToItsWorkspace ==
  [][\A c \in Calls :
       (call[c] # call'[c] /\ At(c, "commit") /\ Op(c) \in {"revoke", "flag", "reapprove", "remove"})
         => \A w \in Workspaces \ {Workspace(c)}, d \in Devices :
              Accepted(w, d)' = Accepted(w, d)]_vars

\* A device its person retired is never accepted again, anywhere, whatever is
\* registered, re-approved or still in progress.
RetiredForGood ==
  [][\A d \in retired : \A w \in Workspaces : ~Accepted(w, d)']_vars

\* device-registry.ts:455: "exactly one revocation reason is reversible": what a
\* re-approval takes back was recorded as stale, unless calls have overlapped (a
\* re-approval looks before its transaction, and deletes whatever it then finds).
OnlyStaleIsTakenBack ==
  [][\A w \in Workspaces, d \in Devices :
       ~overlapped /\ revocation[w][d] # NotRevoked /\ revocation'[w][d] = NotRevoked
         => revocation[w][d] = "stale"]_vars

\* device-registry.ts:461: "a device flagged stale and then explicitly revoked is
\* not reversible": an explicit revocation is never followed by acceptance.
ExplicitIsIrreversible ==
  \A w \in Workspaces, d \in Devices : <<w, d>> \in judged => ~Accepted(w, d)
=============================================================================
