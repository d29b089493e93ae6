------------------------ MODULE MCWorkspaceMembership ------------------------
(***************************************************************************)
(* The people of a workspace for TLC, in two parts, each on an instance of *)
(* its own: its members (WorkspaceMembership), and its employees, entities *)
(* and ghosts (People).  They share no rows: a behaviour is one of the     *)
(* part its initial state names, and the other rests.  Calls and the       *)
(* members but the founder are interchangeable.                            *)
(***************************************************************************)
EXTENDS WorkspaceMembership, TLC

CONSTANTS Emails, Logins, Unset,     \* of the employees
          MaxInstant, MaxEmployees, MaxEntities, MaxGhosts, MaxWritten

ASSUME PeopleAssumption == MaxInstant \in Nat

VARIABLES part,
          employees, entities, scoped, ghosts, promoted, roles, reading, clock

peopleVars == <<employees, entities, scoped, ghosts, promoted, roles, reading, clock>>
allVars == <<part, vars, peopleVars>>

-----------------------------------------------------------------------------
Employed == INSTANCE People

OfMembers == part = "members" /\ UNCHANGED <<part, peopleVars>>
OfPeople == part = "people" /\ UNCHANGED <<part, vars>>

WorkspaceInit == part \in {"members", "people"} /\ Init /\ Employed!Init
WorkspaceNext == (OfMembers /\ Next) \/ (OfPeople /\ Employed!Next)
WorkspaceSpec == WorkspaceInit /\ [][WorkspaceNext]_allVars

MembershipSymmetry == Permutations(Calls) \cup Permutations(Users \ {Founder})

-----------------------------------------------------------------------------
\* An entity stays, and an employee is in one at a time.
EntitiesInForce == Employed!EntitiesInForce

\* A ghost is promoted at most once, for good.
PromotedOnce == Employed!PromotedOnce

\* What the device shows of a call is what the server makes of it.
ShownAsDelivered == Employed!ShownAsDelivered
=============================================================================
