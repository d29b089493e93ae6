--------------------------- MODULE GraphRegistry ---------------------------
(***************************************************************************)
(* What the graph may hold (packages/schema/src/registry): every node type *)
(* with its privacy partitions, every edge type with the endpoints it may  *)
(* join, and the application each type belongs to.  A partition has a      *)
(* privacy class and a tier; a type of inherited protection has none.      *)
(* Lifecycle statuses, owners of the registrations and their wording are   *)
(* left out: no decision modelled here depends on them.                    *)
(***************************************************************************)
LOCAL INSTANCE Naturals

\* A table, written row by row: the same value for each of a set of names, and the
\* rest of it.  Where two rows have a name, the first one counts.
Each(names, value, rest) ==
  [n \in names \cup DOMAIN rest |-> IF n \in names THEN value ELSE rest[n]]
NoRows == [n \in {} |-> {}]

\* Two tables as one.
Joined(f, g) == [x \in DOMAIN f \cup DOMAIN g |-> IF x \in DOMAIN f THEN f[x] ELSE g[x]]

-----------------------------------------------------------------------------
(* Node types: partition key -> privacy class and tier *)

Half(class, tier) == [class |-> class, tier |-> tier]
Fixed(class, tier) == [record |-> Half(class, tier)]
Split(key1, class1, tier1, key2, class2, tier2) ==
  [k \in {key1, key2} |-> IF k = key1 THEN Half(class1, tier1) ELSE Half(class2, tier2)]
Standard == Fixed("Standard", 0)
Inherited == [k \in {} |-> Half("Inherited", 3)]

IdentityNodes ==
     Each({"LeaveLedgerEntry", "User", "WorkspaceMembership", "Device", "Entity",
        "WorkingCalendar", "Holiday", "WorkingPattern"},
       Standard,
     Each({"Workspace"}, Split("display", "Standard", 0, "billing", "Owner only", 2), NoRows))

CapacityNodes ==
     Each({"Candidate", "GhostResource", "Assignment", "Project", "Client", "OpenRole",
         "Skill"},
       Standard,
     Each({"Employee"},
          Split("operational", "Standard", 0, "compensation", "Finance-restricted", 1),
     Each({"Pitch"},
          Split("identifying", "Standard", 0, "commercial", "Finance-restricted", 1), NoRows)))

PeopleNodes ==
     Each({"LeavePolicy", "LeaveRequest", "Asset", "Certification", "TrainingRecord",
        "SubVendor", "Policy", "PolicyAcknowledgment"},
       Standard,
     Each({"Document"}, Inherited,
     Each({"WellnessTriggerEvent"}, Fixed("Self-only, absolute", 3),
     Each({"Contract"},
          Split("identifying", "HR-restricted", 2, "content", "Finance-restricted", 1),
     Each({"SignatureRequest", "Departure", "WorkAuthorization"}, Fixed("HR-restricted", 2),
     Each({"HRCase", "CaseEvent"},
          Split("identifying", "Owner and HR Admin only", 2, "content",
          "Owner and HR Admin only", 1),
     Each({"OrgScenario"}, Fixed("Owner and HR Admin only", 2), NoRows)))))))

RecruitmentNodes ==
     Each({"JobPosting", "Referral", "DraftHiringRecord"}, Standard,
     Each({"HeadcountPlan"}, Fixed("Finance-restricted", 1),
     Each({"Requisition"},
          Split("identifying", "Standard", 0, "budget", "Finance-restricted", 1),
     Each({"TalentPool", "InterviewRound", "FeedbackEntry"}, Fixed("HR-restricted", 2),
     Each({"Offer"},
          Split("identifying", "HR-restricted", 2, "terms", "Finance-restricted", 1),
     Each({"BackgroundCheckProvider", "BackgroundCheckRecord"}, Fixed("HR Admin only", 2), NoRows))))))

SignalNodes ==
     Each({"TimesheetEntry", "TimesheetWeekSubmission", "UtilizationSnapshot",
        "RevenueGapAlert", "SkillGap", "PulseCycle", "PulseAggregateContribution",
        "SharedCoffeeMoment", "WellnessAggregateContribution"},
       Standard,
     Each({"TimesheetAnomalyFlag", "BurnoutAlert", "ProbationCheckIn"},
          Fixed("Manager-restricted", 2),
     Each({"PulseEntry", "CoffeePulseEntry"}, Fixed("Sensitive", 3),
     Each({"FlightRiskSignal"}, Fixed("Owner and HR Admin only", 2),
     Each({"HeadcountSnapshot"}, Fixed("HR-restricted", 0), NoRows)))))

FinanceNodes ==
     Each({"Expense"}, Standard,
     Each({"ApprovalStage"}, Inherited,
     Each({"RateCard", "RateCardLine", "CompensationBand", "CompensationChange",
        "PayrollPolicy", "PayRun", "TaxConfig", "ExchangeRate", "DisbursementBatch",
        "DisbursementInstruction", "Invoice"},
       Fixed("Finance-restricted", 1),
     Each({"PaySlip"}, Fixed("Self and Finance-restricted", 1), NoRows))))

DevelopmentNodes ==
     Each({"OnboardingTemplate", "OnboardingPlan", "OnboardingTask", "ReviewCycle",
        "CareerPath", "CareerMilestone", "DevelopmentGoal"},
       Standard,
     Each({"ReviewEntry"}, Fixed("HR-restricted", 2), NoRows))

PlatformNodes ==
     Each({"ReportDefinition", "BenchmarkReference", "ApplicationActivation",
         "CustomFieldDefinition"}, Standard,
     Each({"Insight", "ReportRun", "CustomFieldValue", "GraphReference"}, Inherited,
     Each({"Notification"}, Fixed("Recipient-only", 0),
     Each({"AuditEntry", "ImportBatch", "RetentionPolicy", "ErasureRequest"},
          Fixed("Owner and HR Admin only", 2),
     Each({"BriefingNode"}, Fixed("Self only", 0),
     Each({"BenchmarkRange"}, Fixed("Finance-restricted", 1),
     Each({"IntegrationConfig"}, Fixed("Owner only", 2),
     Each({"ClientPortalAccess"}, Fixed("HR Admin only", 2), NoRows))))))))

ProjectsNodes ==
     Each({"Deliverable", "Task", "Brief", "Approval", "RevisionRound", "ProjectTemplate",
        "ClientStakeholder"},
       Standard,
     Each({"ChangeOrder"},
          Split("identifying", "Standard", 0, "commercial", "Finance-restricted", 1),
     Each({"ProjectBudget", "BillingMilestone"}, Fixed("Finance-restricted", 1), NoRows)))

NodeRegistry ==
  Joined(IdentityNodes, Joined(CapacityNodes, Joined(PeopleNodes,
    Joined(RecruitmentNodes, Joined(SignalNodes, Joined(FinanceNodes,
      Joined(DevelopmentNodes, Joined(PlatformNodes, ProjectsNodes))))))))

NodeTypes == DOMAIN NodeRegistry

\* Types whose rows carry no author, so that nobody can be told from them.
AnonymousTypes == {"PulseAggregateContribution", "WellnessAggregateContribution"}

Partitions(type) == NodeRegistry[type]
IsSplit(type) == DOMAIN Partitions(type) \notin {{}, {"record"}}

\* Protection nobody registered a tier for counts as the most protected.
TierOf(type, key) == IF key \in DOMAIN Partitions(type) THEN Partitions(type)[key].tier ELSE 3

\* The partition a stored row stands for: its Tier 0 half, else its first.
FirstHalf == [Contract |-> "identifying", HRCase |-> "identifying", CaseEvent |-> "identifying",
              Offer |-> "identifying"]
RowPartition(type) ==
  IF \E k \in DOMAIN Partitions(type) : TierOf(type, k) = 0
    THEN CHOOSE k \in DOMAIN Partitions(type) : TierOf(type, k) = 0
  ELSE IF type \in DOMAIN FirstHalf THEN FirstHalf[type] ELSE "record"

-----------------------------------------------------------------------------
(* Edge types: the endpoints they join, the half of a split endpoint that governs *)
(* a write of the edge, and the endpoints where reading is permission enough.     *)

NonAnonymousNode == "Any non-anonymity-protected node"
MentionableNode == "Mentionable Node"
CustomFieldEnabledNode == "Custom-field-enabled Node"
ImportableNode == "Importable Node"

Group(pairs, governing, readable) ==
  [pairs |-> pairs, governing |-> governing, readable |-> readable]
NoPartitions == [t \in {} |-> "record"]
Governed(pairs, governing) == Group(pairs, governing, {})
Plain(pairs) == Governed(pairs, NoPartitions)

StructureEdges ==
  [membership_of |-> Plain({<<"WorkspaceMembership", "User">>}),
   membership_in |-> Governed({<<"WorkspaceMembership", "Workspace">>},
       [Workspace |-> "display"]),
   registered_on |-> Plain({<<"Device", "User">>}),
   managed_by |-> Governed({<<"Employee", "Employee">>}, [Employee |-> "operational"]),
   scoped_to_entity |-> Governed({<<"Employee", "Entity">>}, [Employee |-> "operational"]),
   governed_by_calendar |-> Plain({<<"Entity", "WorkingCalendar">>}),
   pattern_for |-> Governed({<<"WorkingPattern", "Employee">>},
       [Employee |-> "operational"]),
   holiday_in |-> Plain({<<"Holiday", "WorkingCalendar">>}),
   delivered_to |-> Plain({<<"Notification", "User">>})]

DeliveryEdges ==
  [assignment_of |-> Governed({<<"Assignment", "Employee">>}, [Employee |-> "operational"]),
   assigned_to |-> Group({<<"Assignment", "Project">>}, NoPartitions, {"Project"}),
   staffed_on |-> Governed({<<"Employee", "Pitch">>},
       [Employee |-> "operational", Pitch |-> "identifying"]),
   belongs_to |-> Plain({<<"Project", "Client">>}),
   originated_from |-> Plain({<<"Project", "Pitch">>}),
   placeholder_for |-> Plain({<<"GhostResource", "OpenRole">>}),
   promoted_to |-> Governed({<<"GhostResource", "Employee">>},
       [Employee |-> "operational"]),
   logged_against |-> Group({"TimesheetEntry"} \X {"Assignment", "Pitch"},
       [Pitch |-> "identifying"], {"Assignment"}),
   processed_in |-> Plain({"TimesheetEntry"} \X {"PayRun", "Invoice"}),
   contracted_with |-> Plain({<<"SubVendor", "Project">>})]

SkillEdges ==
  [has_skill |-> Governed({<<"Employee", "Skill">>}, [Employee |-> "operational"]),
   requires_skill |-> Group({"Project", "OpenRole", "Pitch", "CareerMilestone",
       "Requisition"} \X {"Skill"}, [Pitch |-> "identifying",
       Requisition |-> "identifying"], {"Project"}),
   holds_certification |-> Governed({<<"Employee", "Certification">>},
       [Employee |-> "operational"]),
   resulted_in |-> Plain({<<"TrainingRecord", "Skill">>}),
   gap_for |-> Plain({<<"SkillGap", "Skill">>})]

RecruitmentEdges ==
  [converted_from |-> Plain({<<"Employee", "Candidate">>}),
   filled_by |-> Plain({<<"OpenRole", "Candidate">>}),
   requisition_for |-> Plain({<<"Requisition", "HeadcountPlan">>}),
   opened_from |-> Plain({<<"OpenRole", "Requisition">>}),
   posted_as |-> Plain({<<"OpenRole", "JobPosting">>}),
   pooled_in |-> Plain({<<"Candidate", "TalentPool">>}),
   referred_by |-> Plain({<<"Referral", "Employee">>}),
   referral_for |-> Plain({<<"Referral", "Candidate">>}),
   interview_for |-> Plain({<<"InterviewRound", "Candidate">>}),
   participating_in |-> Plain({<<"Employee", "InterviewRound">>}),
   has_feedback |-> Plain({<<"InterviewRound", "FeedbackEntry">>}),
   offer_for |-> Plain({<<"Offer", "Candidate">>}),
   check_for |-> Plain({<<"BackgroundCheckRecord", "Candidate">>})]

HrEdges ==
  [employed_under |-> Plain({<<"Employee", "Contract">>}),
   signature_for |-> Plain({<<"SignatureRequest", "Contract">>}),
   has_document |-> Plain({"Contract", "Offer", "HRCase", "WorkAuthorization",
         "BackgroundCheckRecord",
       "PaySlip"} \X {"Document"}),
   requested_by |-> Plain({<<"LeaveRequest", "Employee">>}),
   approved_by |-> Plain({<<"LeaveRequest", "Employee">>}),
   allocated_to |-> Plain({<<"Asset", "Employee">>}),
   departing |-> Plain({<<"Departure", "Employee">>}),
   enrolled_in |-> Plain({<<"Employee", "OnboardingPlan">>}),
   acknowledged_by |-> Plain({<<"PolicyAcknowledgment", "Employee">>}),
   acknowledgment_of |-> Plain({<<"PolicyAcknowledgment", "Policy">>}),
   authorization_for |-> Plain({<<"WorkAuthorization", "Employee">>}),
   case_concerns |-> Plain({<<"HRCase", "Employee">>}),
   event_in |-> Plain({<<"CaseEvent", "HRCase">>}),
   scenario_of |-> Plain({<<"OrgScenario", "Workspace">>})]

SignalEdges ==
  [reviewed_in |-> Plain({<<"Employee", "ReviewEntry">>}),
   part_of |-> Plain({<<"ReviewEntry", "ReviewCycle">>, <<"PulseEntry", "PulseCycle">>,
       <<"PulseAggregateContribution", "PulseCycle">>}),
   at_milestone |-> Plain({<<"Employee", "CareerMilestone">>}),
   targeting |-> Plain({<<"Employee", "CareerMilestone">>}),
   working_towards |-> Plain({<<"Employee", "DevelopmentGoal">>}),
   submitted_by |-> Plain({"PulseEntry", "CoffeePulseEntry"} \X {"Employee"}),
   logged_by |-> Plain({<<"WellnessTriggerEvent", "Employee">>}),
   checked_in_on |-> Plain({<<"ProbationCheckIn", "Employee">>}),
   triggered_by |-> Plain({"BurnoutAlert", "FlightRiskSignal", "RevenueGapAlert",
         "TimesheetAnomalyFlag"} \X {"Employee"}),
   affects |-> Plain({<<"Insight", NonAnonymousNode>>})]

FinanceEdges ==
  [governed_by |-> Plain({<<"Assignment", "RateCard">>, <<"Employee", "LeavePolicy">>,
       <<"PayRun", "PayrollPolicy">>, <<"PayRun", "TaxConfig">>}),
   banded_by |-> Plain({<<"Employee", "CompensationBand">>}),
   changes_compensation_for |-> Plain({<<"CompensationChange", "Employee">>}),
   gated_by |-> Plain({"PayRun", "CompensationChange", "Requisition",
         "Offer"} \X {"ApprovalStage"}),
   contains |-> Plain({<<"PayRun", "PaySlip">>}),
   issued_to |-> Plain({<<"PaySlip", "Employee">>}),
   disbursed_in |-> Plain({"PaySlip", "Invoice"} \X {"DisbursementBatch"}),
   instruction_in |-> Plain({<<"DisbursementInstruction", "DisbursementBatch">>}),
   billed_by |-> Plain({"Invoice"} \X {"Employee", "SubVendor"}),
   generated_from |-> Plain({<<"Invoice", "Project">>}),
   incurred_by |-> Plain({<<"Expense", "Employee">>}),
   attributed_to |-> Plain({<<"Expense", "Project">>})]

PlatformEdges ==
  [supersedes |-> Plain({<<t, t>> : t \in {"RateCard", "LeavePolicy", "TaxConfig",
         "Policy", "WorkingCalendar",
       "CompensationBand"}}),
   references |-> Plain({<<"GraphReference", MentionableNode>>}),
   referenced_in |-> Plain({<<MentionableNode, "GraphReference">>}),
   has_custom_value |-> Plain({<<CustomFieldEnabledNode, "CustomFieldValue">>}),
   defined_by |-> Plain({<<"CustomFieldValue", "CustomFieldDefinition">>}),
   imported_in |-> Plain({<<ImportableNode, "ImportBatch">>}),
   erasure_targets |-> Plain({"ErasureRequest"} \X {"Employee", "Candidate"})]

EdgeRegistry ==
  Joined(StructureEdges, Joined(DeliveryEdges, Joined(SkillEdges, Joined(RecruitmentEdges,
    Joined(HrEdges, Joined(SignalEdges, Joined(FinanceEdges, PlatformEdges)))))))

CustomFieldTypes ==
  {"Employee", "Project", "Client", "Candidate", "Assignment", "OpenRole", "SubVendor"}
ImportableTypes == {"Employee", "Assignment", "Project", "Client", "Skill"}
MentionableTypes == {t \in NodeTypes : \E k \in DOMAIN Partitions(t) : TierOf(t, k) = 0}

\* An endpoint set never takes in a type whose rows are anonymous.
MatchesEndpoint(registered, type) ==
  \/ registered = type
  \/ /\ type \notin AnonymousTypes
     /\ \/ registered = NonAnonymousNode
        \/ registered = MentionableNode /\ type \in MentionableTypes
        \/ registered = CustomFieldEnabledNode /\ type \in CustomFieldTypes
        \/ registered = ImportableNode /\ type \in ImportableTypes

\* assertRegisteredRelationship
IsRegistered(edge, from, to) ==
  \E pair \in EdgeRegistry[edge].pairs :
    MatchesEndpoint(pair[1], from) /\ MatchesEndpoint(pair[2], to)

\* What validate.ts holds every edge group to when the registry is loaded.
WellFormedGroup(edge) ==
  LET group == EdgeRegistry[edge]
      Endpoints == UNION {{pair[1], pair[2]} : pair \in group.pairs}
  IN  /\ Endpoints \subseteq
           NodeTypes \cup {NonAnonymousNode, MentionableNode, CustomFieldEnabledNode, ImportableNode}
      /\ \A t \in DOMAIN group.governing :
           t \in Endpoints /\ IsSplit(t) /\ group.governing[t] \in DOMAIN Partitions(t)

-----------------------------------------------------------------------------
(* Which application a type belongs to, and how it is handed over *)

Owned(mode, application) == [mode |-> mode, by |-> application]

Ownership ==
     Each({"Employee", "Assignment", "Entity", "WorkingCalendar", "Holiday", "WorkingPattern"},
          Owned("permanent", "Vulto Roster"),
     Each({"Client"}, Owned("activation-handoff", "Vulto Sales"),
     Each({"Project", "TimesheetEntry"}, Owned("concurrent", "Vulto Projects"),
     Each({"Contract"}, Owned("activation-handoff", "Vulto Legal"),
     Each({"RateCard", "Invoice", "BillingMilestone"}, Owned("activation-handoff", "Vulto Accounts"),
     Each({"PayRun", "PaySlip", "DisbursementBatch"}, Owned("activation-handoff", "Vulto Payroll"),
     Each({"Deliverable", "Task", "Brief", "Approval", "RevisionRound", "ChangeOrder",
           "ProjectTemplate", "ClientStakeholder"},
          Owned("permanent", "Vulto Projects"), NoRows)))))))

\* The applications that can be activated; another owner has nothing to take over.
ActivatableOwners == {"Vulto Projects", "Vulto Accounts", "Vulto Legal", "Vulto Payroll"}

\* checkWriteAuthority: it only ever narrows what a role permits.
HasWriteAuthority(application, type, activated) ==
  type \in DOMAIN Ownership =>
    LET owned == Ownership[type] IN
    \/ owned.mode = "concurrent"
    \/ owned.mode = "permanent" /\ application = owned.by
    \/ /\ owned.mode = "activation-handoff"
       /\ owned.by \in ActivatableOwners \cap activated => application = owned.by
=============================================================================
