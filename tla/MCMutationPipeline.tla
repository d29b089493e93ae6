------------------------- MODULE MCMutationPipeline -------------------------
(***************************************************************************)
(* A mutation for TLC: how often it is applied and what is answered        *)
(* (MutationPipeline), and who may make it (Interceptor), the second twice *)
(* over: for what is read, and for what is written.  A behaviour is one of *)
(* the part its initial state names, and the other module rests.  One id   *)
(* is sent with its arguments and, by mistake, with others; another id is  *)
(* sent with one set of arguments.  Handlers, and members, are             *)
(* interchangeable.                                                        *)
(***************************************************************************)
EXTENDS MutationPipeline, TLC

CONSTANTS m1, m2, a1, a2,
          Members, Employees, NoEmployee, Records, Judged,   \* of the decisions
          EmployeeIdOf, Drawable, RoleSets,
          MaxLinking, MaxPast,
          ReadEdges, WrittenEdges,                           \* edges drawn in each part
          WalkStart, WalkTypes, WalkDepth                    \* where a walk goes

VARIABLES part, held, linking, linked, found, edges, past

decisionVars == <<held, linking, linked, found, edges, past>>
allVars == <<part, vars, decisionVars>>

SentEnvelopes == {[id |-> m1, args |-> a1], [id |-> m1, args |-> a2], [id |-> m2, args |-> a1]}

Decisions == INSTANCE Interceptor WITH Users <- Members, Nobody <- NoEmployee

MCEmployeeIdOf == [n \in {"TimesheetEntry"} |-> "e1"]

\* An Employee another one may come to manage, a case that may come to concern either,
\* and an event in it.
MCReadEdges ==
  {<<"managed_by", "e2", "e1">>, <<"event_in", "CaseEvent", "HRCase">>,
   <<"case_concerns", "HRCase", "e1">>, <<"case_concerns", "HRCase", "e2">>}
\* Two Employees either of which may manage the other, one of them on a pitch.
MCWrittenEdges ==
  {<<"managed_by", "e1", "e2">>, <<"managed_by", "e2", "e1">>, <<"staffed_on", "e1", "Pitch">>}
MCDrawable == MCReadEdges \cup MCWrittenEdges

\* People, Employees and types are apart; what is judged has a registered type; roles are
\* those of the policy; a row is triggered by, and its employee_id names, an Employee; and
\* the edges that are walked join nodes.
ASSUME DecisionsAssumption ==
  /\ NoEmployee \notin Members \cup Employees
  /\ Members \cap (Employees \cup Decisions!NodeTypes) = {}
  /\ Employees \cap Decisions!NodeTypes = {}
  /\ Judged \subseteq Employees \cup Decisions!NodeTypes
  /\ RoleSets \subseteq SUBSET Decisions!Roles
  /\ \A n \in Judged \cap Decisions!NamesEmployee :
       n \in DOMAIN EmployeeIdOf /\ EmployeeIdOf[n] \in Employees
  /\ \A edge \in Drawable : edge[1] = "triggered_by" => edge[3] \in Employees
  /\ \A edge \in Drawable : edge[1] \in WalkTypes => {edge[2], edge[3]} \subseteq Decisions!Nodes
  /\ WalkStart \in Decisions!Nodes /\ WalkDepth \in Nat

OfPipeline == part = "pipeline" /\ UNCHANGED <<part, decisionVars>>
OfDecisions ==
  /\ \/ part = "reads" /\ edges' \subseteq ReadEdges
     \/ part = "writes" /\ edges' \subseteq WrittenEdges
  /\ UNCHANGED <<part, vars>>

MutationInit ==
  /\ part \in {"pipeline", "reads", "writes"} /\ Init /\ Decisions!Init
  /\ part # "pipeline" => row = 0 /\ body = [e \in Envelopes |-> [kind |-> "create"]]
MutationNext == (OfPipeline /\ Next) \/ (Decisions!Next /\ OfDecisions)
MutationSpec == MutationInit /\ [][MutationNext]_allVars

HandlerSymmetry == Permutations(Workers) \cup Permutations(Members)

-----------------------------------------------------------------------------
\* The readers named for a record are those it is readable for, and somebody is.
GrantsAgree == part = "reads" => Decisions!GrantsAgree

\* A walk stops where its caller may not read.
WalkIsExact ==
  part = "reads" =>
    Decisions!WalkIsExact(WalkStart, WalkTypes, FALSE, WalkDepth)

\* Whoever a mutation is for may write what it writes.
PlansAreWritable == part = "writes" => Decisions!PlansAreWritable
=============================================================================
