---------------------------- MODULE PolicyTable ----------------------------
(***************************************************************************)
(* Who may do what with which type (packages/schema/src/policy): for each  *)
(* role a cell, the outcome it grants and the rows it grants it for.       *)
(* A type, or a half of it, that the matrix does not list falls back on    *)
(* its privacy class.  System principals hold no role: they have closed    *)
(* lists of nodes and edges, one per operation.                            *)
(***************************************************************************)
EXTENDS GraphRegistry

Roles == {"owner", "hr_admin", "finance_admin", "manager", "team_member"}
Rank == [full |-> 3, read |-> 2, restricted |-> 1, none |-> 0]

-----------------------------------------------------------------------------
\* Outcome, the rows it holds for, and the rows that may at least be read.
Cell(outcome, scope) == [outcome |-> outcome, scope |-> scope, readScope |-> scope]
FullFor(scope) == Cell("full", scope)
ReadFor(scope) == Cell("read", scope)
NoneFor(scope) == Cell("none", scope)
ReadByAll(cell) == [cell EXCEPT !.readScope = "any"]
Full == FullFor("any")
Read == ReadFor("any")
None == NoneFor("any")
Restricted == Cell("restricted", "any")
InSum == NoneFor("aggregate-only")
OwnPost == FullFor("recipient")

Row(theirs, hr, finance, managing, member) ==
  [owner |-> theirs, hr_admin |-> hr, finance_admin |-> finance, manager |-> managing,
   team_member |-> member]
AdminsOnly == Row(Full, Full, None, None, None)
OpenToRead == Row(Full, Full, Read, Read, Read)

\* DEFAULT_CLASS_MAPPING
ClassRows ==
     Each({"Standard"},
          Row(Full, Full, Read, FullFor("direct-reports"), ReadFor("own-plus-team")),
     Each({"Finance-restricted", "Self and Finance-restricted"},
          Row(Full, Full, Full, None, ReadFor("own")),
     Each({"HR-restricted"}, Row(Full, Full, Read, None, ReadFor("own")),
     Each({"Manager-restricted"}, Row(Full, Full, None, ReadFor("direct-reports"), None),
     Each({"Owner and HR Admin only"}, AdminsOnly,
     Each({"HR Admin only"}, Row(Read, Full, None, None, None),
     Each({"Owner only"}, Row(Full, None, None, None, None),
     Each({"Sensitive"},
          Row(InSum, InSum, None, None, FullFor("own")),
     Each({"Self only", "Self-only, absolute"}, Row(None, None, None, None, FullFor("own")),
     Each({"Recipient-only"},
          Row(OwnPost, OwnPost, OwnPost, OwnPost, OwnPost), NoRows))))))))))

-----------------------------------------------------------------------------
(* MATRIX_OVERRIDES: a row for every half of a type, or one for each half *)

Rows(types, cells, rest) == Each(types, [any |-> cells], rest)
Halves(types, perHalf, rest) == Each(types, perHalf, rest)

DeliveryRows ==
     Rows({"Project", "Client", "SkillGap", "OpenRole", "Entity", "WorkingCalendar",
           "LeavePolicy", "Holiday", "WorkingPattern"}, OpenToRead,
     Rows({"GhostResource", "RevenueGapAlert", "Skill"}, Row(Full, Full, Read, Full, Read),
     Rows({"LeaveLedgerEntry"},
          Row(Read, Read, Read, ReadFor("direct-reports"), ReadFor("own")),
     Halves({"Pitch"}, [identifying |-> Row(Full, Full, Read, Full, None)],
     Halves({"Workspace"},
       [billing |-> Row(Full, Restricted, Restricted, Restricted, Restricted)],
     Halves({"Employee"},
       [operational |-> Row(Full, Full, Read, ReadByAll(FullFor("direct-reports")),
           ReadByAll(ReadFor("own-plus-team"))),
        compensation |-> Row(Full, Full, Full, Restricted, ReadFor("own"))], NoRows))))))

SignalRows ==
     Rows({"WellnessTriggerEvent"}, Row(None, None, None, None, FullFor("own")),
     Rows({"PulseEntry", "CoffeePulseEntry"},
          Row(InSum, InSum, None, None, FullFor("own")),
     Rows({"BurnoutAlert", "TimesheetAnomalyFlag", "ProbationCheckIn"},
          Row(Full, Full, None, FullFor("direct-reports"), None),
     Rows({"FlightRiskSignal"}, AdminsOnly,
     Rows({"Assignment"}, Row(Full, Full, Read, Full, Read),
     Rows({"TimesheetEntry", "TimesheetWeekSubmission"},
          Row(Full, Full, Read, ReadFor("direct-reports"), FullFor("own")),
     Rows({"UtilizationSnapshot"},
          Row(Full, Full, Read, FullFor("direct-reports"), ReadFor("own")),
     Rows({"LeaveRequest"},
          Row(Full, Full, Read, FullFor("direct-reports-for-approval"), FullFor("own")),
     Rows({"Expense"}, Row(Full, Full, Full, ReadFor("direct-reports"), FullFor("own")),
     Rows({"Invoice"}, Row(Full, Read, Full, None, FullFor("own")),
     Rows({"PayRun"}, Row(Full, Full, Full, None, None),
     Rows({"PaySlip"}, Row(Full, Full, Full, None, ReadFor("own")), NoRows))))))))))))

PeopleRows ==
     Rows({"WorkAuthorization"}, Row(Full, Full, None, None, ReadFor("own")),
     Rows({"OrgScenario"}, AdminsOnly,
     Rows({"Candidate", "DraftHiringRecord"},
          Row(Full, Full, None, ReadFor("pipeline"), None),
     Rows({"InterviewRound"},
          Row(Full, Full, None, ReadFor("pipeline"), NoneFor("pipeline-plus-participant")),
     Rows({"FeedbackEntry"},
          Row(Full, Full, None, ReadFor("pipeline"), NoneFor("pipeline-plus-own-entry")),
     Halves({"Contract"},
       [identifying |-> Row(Full, Full, Read, Restricted, ReadFor("own")),
        content |-> Row(Full, Full, Full, Restricted, ReadFor("own"))],
     Halves({"HRCase", "CaseEvent"}, [identifying |-> AdminsOnly,
        content |-> AdminsOnly],
     Halves({"Offer"}, [identifying |-> Row(Full, Full, Read, None, None),
        terms |-> Row(Full, Full, Full, None, None)],
     Halves({"Requisition"}, [identifying |-> Row(Full, Full, Read, Read, None),
        budget |-> Row(Full, Read, Full, Restricted, None)], NoRows)))))))))

OtherRows ==
     Rows({"HeadcountPlan"}, Row(Full, Read, Full, None, None),
     Rows({"CompensationBand"}, Row(Full, Read, Full, None, ReadFor("own-band")),
     Rows({"CompensationChange"}, Row(Full, Full, Full, None, ReadFor("own")),
     Rows({"Referral"}, Row(Full, Full, None, Read, FullFor("own-submissions")),
     Rows({"TalentPool"}, Row(Full, Full, None, Read, None),
     Rows({"ReviewEntry"},
          Row(Full, Full, None, FullFor("direct-reports"), FullFor("own-self-assessment")),
     Rows({"OnboardingTask"},
          Row(Full, Full, Read, ReadFor("direct-reports"),
           ReadFor("own-plan-plus-assignee")),
     Rows({"DevelopmentGoal", "TrainingRecord"},
          Row(Full, Full, Read, FullFor("direct-reports"), FullFor("own")),
     Rows({"SubVendor"}, Row(Full, Full, Full, Read, None),
     Rows({"HeadcountSnapshot"}, Row(Full, Full, Read, None, None),
     Rows({"AuditEntry", "ImportBatch", "ErasureRequest", "RetentionPolicy"}, AdminsOnly,
     Rows({"ApplicationActivation"}, Row(Full, Read, Read, Read, Read), NoRows))))))))))))

Matrix ==

  Joined(DeliveryRows, Joined(SignalRows, Joined(PeopleRows, OtherRows)))

InheritedTypes ==
  {"Document", "ApprovalStage", "GraphReference", "Insight", "ReportRun", "CustomFieldValue"}

\* resolvePolicyCell: the half's own row, else the type's, else its class's.
RowIn(matrix, type, key) ==
  IF type \in DOMAIN matrix /\ key \in DOMAIN matrix[type] THEN matrix[type][key]
  ELSE IF type \in DOMAIN matrix /\ "any" \in DOMAIN matrix[type] THEN matrix[type]["any"]
  ELSE ClassRows[Partitions(type)[key].class]

PolicyCell(role, type, key) ==
  IF type \in InheritedTypes THEN NoneFor("inherited-unresolvable")
  ELSE RowIn(Matrix, type, key)[role]

\* toResolution: without a row at hand only an unqualified cell counts.
Unqualified(cell) == IF cell.scope = "any" THEN cell.outcome ELSE "none"
Ceiling(role, type, key) == Unqualified(PolicyCell(role, type, key))

-----------------------------------------------------------------------------
(* Exclusions, participants, and the principals that are not people *)

\* SUBJECT_EXCLUSIONS: the edges from a record to the Employee it concerns.
SubjectPath == [HRCase |-> <<"case_concerns">>, CaseEvent |-> <<"event_in", "case_concerns">>]
HasExclusion(type) == type \in DOMAIN SubjectPath

\* PARTICIPANT_GRANTS: whoever has such an edge to the row may write edges to it.
ParticipantEdge == [Pitch |-> "staffed_on"]

OperationsOf ==
  [anomaly_evaluate |-> {"create-flag", "read-flags"},
   snapshot_compute |-> {"snapshot", "read-snapshots"},
   gap_alert_evaluate |-> {"gap-alert"},
   skill_gap_evaluate |-> {"skill-gap", "read-skilled"},
   notification_deliver |-> {"deliver"},
   leave_ledger_write |-> {"leave-ledger"}]
Systems == DOMAIN OperationsOf

\* SYSTEM_OPERATION_TARGETS and SYSTEM_EDGE_OPERATION_TARGETS
NodeTargets ==
     Each({"create-flag", "read-flags"}, {<<"TimesheetAnomalyFlag", "record">>},
     Each({"snapshot"}, {<<"UtilizationSnapshot", "record">>},
     Each({"read-snapshots"}, {<<"Employee", "operational">>, <<"UtilizationSnapshot", "record">>},
     Each({"gap-alert"}, {<<"RevenueGapAlert", "record">>},
     Each({"skill-gap"}, {<<"SkillGap", "record">>},
     Each({"read-skilled"}, {<<"Employee", "operational">>},
     Each({"deliver"}, {<<"Notification", "record">>},
     Each({"leave-ledger"}, {<<"LeaveLedgerEntry", "record">>}, NoRows))))))))

EdgeTargets ==
     Each({"create-flag"}, {<<"triggered_by", "TimesheetAnomalyFlag", "Employee">>},
     Each({"gap-alert"}, {<<"triggered_by", "RevenueGapAlert", "Employee">>},
     Each({"skill-gap"}, {<<"gap_for", "SkillGap", "Skill">>},
     Each({"deliver"}, {<<"delivered_to", "Notification", "User">>}, NoRows))))

SystemMayTouch(system, operation, type, key) ==
  operation \in OperationsOf[system] /\ <<type, key>> \in NodeTargets[operation]

SystemMayLink(system, operation, edge, from, to) ==
  /\ operation \in OperationsOf[system] \cap DOMAIN EdgeTargets
  /\ <<edge, from, to>> \in EdgeTargets[operation]
=============================================================================
