--------------------------- MODULE SkillMatching ---------------------------
(***************************************************************************)
(* One project's requirement for one skill, the employees who hold it, and *)
(* the SkillGap that says nobody fits (mutations/skill-matcher.ts,         *)
(* employee.ts, permission/skill-matcher-queries.ts), with the staffing of *)
(* employees on a pitch, written the same way (mutations/pitch.ts).        *)
(*                                                                         *)
(* A request reads the clock when it begins (ctx.now) and every edge as of *)
(* then, its plan as well as the evaluation that follows it, however often *)
(* that one is tried: an edge of a later request is there for it only when *)
(* it changes one that had begun.  Attaching is READ COMMITTED: the plan   *)
(* reads the open edge, the apply changes that one or inserts another.     *)
(* What follows the commit is a SERIALIZABLE evaluation, tried again when  *)
(* it lost a race and given up when it fails: its snapshot and its commit  *)
(* are two steps here.  No two requests begin in the same millisecond, and *)
(* all of them on one day, so that `free' needs no time.                   *)
(***************************************************************************)
EXTENDS Naturals, Sequences, FiniteSetsExt

CONSTANTS
  Employees, Project,
  Workers,    \* the API's requests
  MaxLevel,   \* PROFICIENCY_LEVELS: 1 is Beginner
  MaxCalls, MaxMoves, MaxLosses   \* bounds

VARIABLES
  edges,     \* level of the has_skill or requires_skill edge since each time, or 0
  free,      \* Active employees available within thirty days
  gaps,      \* SkillGap nodes, oldest first
  staffed,   \* open staffed_on edges of each employee to the pitch
  call,      \* the request each worker is in
  calls,     \* requests so far, which is also the clock
  moves, losses,
  settled    \* history: the time the last evaluation asked for, or 0 when something it
             \* read, or what it left behind, has changed since

matchVars == <<edges, free, gaps, staffed, call, calls, moves, losses, settled>>

-----------------------------------------------------------------------------
Levels == 1..MaxLevel
Times == 1..MaxCalls
Ends == Employees \cup {Project}
Idle == [at |-> "idle"]

Init ==
  /\ edges = [n \in Ends |-> [t \in Times |-> 0]]
  /\ free = Employees
  /\ gaps = <<>>
  /\ staffed = [e \in Employees |-> 0]
  /\ call = [w \in Workers |-> Idle]
  /\ calls = 0 /\ moves = 0 /\ losses = 0
  /\ settled = 0

Goes(w, step) == call' = [call EXCEPT ![w] = step]

\* outgoing(..., now): the open edges that had begun, of which the oldest is the first.
InForce(n, now) == {t \in Times : t <= now /\ edges[n][t] > 0}
Level(n, now) == IF InForce(n, now) = {} THEN 0 ELSE edges[n][Min(InForce(n, now))]

\* schema/skill-matcher.ts.
ProficiencyMeets(held, required) == held >= required

\* matchCandidates
Candidates(level, now) ==
  {e \in free : InForce(e, now) # {} /\ ProficiencyMeets(Level(e, now), level)}

ActiveGaps == {g \in DOMAIN gaps : gaps[g].active}

-----------------------------------------------------------------------------
(* employee.attachSkill, project.attachSkillRequirement *)

\* The transaction reads the clock; the live employee, project and Skill are taken for
\* granted.
Begin(w, n, level) ==
  /\ call[w] = Idle
  /\ calls < MaxCalls
  /\ calls' = calls + 1
  /\ Goes(w, [at |-> "plan", node |-> n, level |-> level, now |-> calls'])
  /\ UNCHANGED <<edges, free, gaps, staffed, moves, losses, settled>>

\* The edge to write: the one found, or a new one that begins now.
Edge(n, now) == IF InForce(n, now) = {} THEN now ELSE Min(InForce(n, now))

PlanAttach(w) ==
  LET c == call[w] IN
  /\ c.at = "plan"
  /\ Goes(w, [at |-> "apply", node |-> c.node, level |-> c.level, now |-> c.now,
              edge |-> Edge(c.node, c.now)])
  /\ UNCHANGED <<edges, free, gaps, staffed, calls, moves, losses, settled>>

ApplyAttach(w) ==
  LET c == call[w] IN
  /\ c.at = "apply"
  /\ edges' = [edges EXCEPT ![c.node][c.edge] = c.level]
  /\ IF c.node = Project THEN Goes(w, [at |-> "evaluate", now |-> c.now])
       ELSE Goes(w, [at |-> "list", level |-> c.level, now |-> c.now])
  /\ settled' = 0
  /\ UNCHANGED <<free, gaps, staffed, calls, moves, losses>>

\* attachSkill's afterCommit: an Active gap is evaluated when the level written meets
\* the one the gap was created with.
ListGaps(w) ==
  LET c == call[w] IN
  /\ c.at = "list"
  /\ IF \E g \in ActiveGaps : ProficiencyMeets(c.level, gaps[g].level)
       THEN Goes(w, [at |-> "evaluate", now |-> c.now]) ELSE Goes(w, Idle)
  /\ UNCHANGED <<edges, free, gaps, staffed, calls, moves, losses, settled>>

-----------------------------------------------------------------------------
(* skillGapEvaluate *)

World == [edges |-> edges, free |-> free]

Snapshot(w) ==
  LET now == call[w].now
      need == Level(Project, now) IN
  /\ call[w].at = "evaluate"
  /\ Goes(w, [at |-> "write", now |-> now, world |-> World, gaps |-> gaps, need |-> need,
              met |-> Candidates(need, now) # {}])
  /\ UNCHANGED <<edges, free, gaps, staffed, calls, moves, losses, settled>>

\* Mutant: it returns before it has looked for a match when there is no gap yet.
ResolvesOnly(c) ==
  IF c.met THEN [g \in DOMAIN c.gaps |-> [c.gaps[g] EXCEPT !.active = FALSE]] ELSE c.gaps

\* evaluateInTransaction: a match resolves the gap, none leaves the one there is as it
\* is or creates one with the level required then; the severity is left out.
Evaluated(c) ==
  LET Active == {g \in DOMAIN c.gaps : c.gaps[g].active} IN
  IF c.need = 0 THEN c.gaps
  ELSE IF c.met THEN [g \in DOMAIN c.gaps |-> [c.gaps[g] EXCEPT !.active = FALSE]]
  ELSE IF Active # {} THEN c.gaps
  ELSE Append(c.gaps, [level |-> c.need, active |-> TRUE])

\* Two evaluations of which one wrote what the other had read.
Conflicts(c) == c.gaps # gaps

\* The evaluation lost a race: it begins again, for the same time.
Retry(w) ==
  /\ call[w].at = "write"
  /\ Conflicts(call[w])
  /\ Goes(w, [at |-> "evaluate", now |-> call[w].now])
  /\ UNCHANGED <<edges, free, gaps, staffed, calls, moves, losses, settled>>

\* Rows another evaluation added are not touched.
Commit(w) ==
  LET c == call[w] IN
  /\ c.at = "write"
  /\ ~Conflicts(c)
  /\ gaps' = Evaluated(c) \o SubSeq(gaps, Len(c.gaps) + 1, Len(gaps))
  /\ settled' = IF World = c.world THEN c.now ELSE IF gaps' = gaps THEN settled ELSE 0
  /\ Goes(w, Idle)
  /\ UNCHANGED <<edges, free, staffed, calls, moves, losses>>

\* The process stops after the commit, or the evaluation fails: nobody repeats it.
Lost(w) ==
  /\ call[w].at \in {"list", "evaluate", "write"}
  /\ losses < MaxLosses
  /\ losses' = losses + 1
  /\ Goes(w, Idle)
  /\ UNCHANGED <<edges, free, gaps, staffed, calls, moves, settled>>

\* Assignments and employment change elsewhere; no gap is evaluated.
Moves(e) ==
  /\ moves < MaxMoves
  /\ moves' = moves + 1
  /\ free' = IF e \in free THEN free \ {e} ELSE free \cup {e}
  /\ settled' = 0
  /\ UNCHANGED <<edges, gaps, staffed, call, calls, losses>>

-----------------------------------------------------------------------------
(* pitch.staffEmployee, pitch.unstaffEmployee *)

PlanStaffing(w, e, staff) ==
  /\ call[w] = Idle
  /\ calls < MaxCalls
  /\ calls' = calls + 1
  /\ Goes(w, [at |-> "staff", node |-> e, staff |-> staff, found |-> staffed[e] > 0])
  /\ UNCHANGED <<edges, free, gaps, staffed, moves, losses, settled>>

\* A staffed employee is not staffed again, and the edge found is closed; closeEdge
\* refuses one that another request has closed since.
Staffing(n, staff, found) ==
  IF staff THEN (IF found THEN n ELSE n + 1) ELSE IF found /\ n > 0 THEN n - 1 ELSE n

ApplyStaffing(w) ==
  LET c == call[w] IN
  /\ c.at = "staff"
  /\ staffed' = [staffed EXCEPT ![c.node] = Staffing(@, c.staff, c.found)]
  /\ Goes(w, Idle)
  /\ UNCHANGED <<edges, free, gaps, calls, moves, losses, settled>>

-----------------------------------------------------------------------------
(* The device's cache, before the server has the call (mutators/foundation.ts) *)

\* Mutant: an attached skill is always a new edge.
DeviceAppends(levels, now, level) == [levels EXCEPT ![now] = level]

\* The first open edge the cache holds, whatever time it begins.
DeviceAttach(levels, now, level) ==
  LET held == {t \in Times : levels[t] > 0}
  IN [levels EXCEPT ![IF held = {} THEN now ELSE CHOOSE t \in held : TRUE] = level]
DeviceStaff(n) == IF n > 0 THEN n ELSE 1
DeviceUnstaff(n) == IF n > 0 THEN n - 1 ELSE 0

Next ==
  \E w \in Workers :
    \/ \E n \in Ends, level \in Levels : Begin(w, n, level)
    \/ PlanAttach(w) \/ ApplyAttach(w) \/ ListGaps(w) \/ Snapshot(w) \/ Retry(w) \/ Commit(w) \/ Lost(w)
    \/ (\E e \in Employees : Moves(e))
    \/ \E e \in Employees, staff \in BOOLEAN : PlanStaffing(w, e, staff)
    \/ ApplyStaffing(w)

Spec == Init /\ [][Next]_matchVars

-----------------------------------------------------------------------------
(* Properties *)

\* "Exactly one SkillGap ... no duplicate for an already-Active gap" (VRS-F013): however
\* evaluations cross, there is never a second Active gap, with which every later
\* evaluation would fail (skill-matcher.ts:78).
OneActiveGap == \A g, h \in ActiveGaps : g = h

\* Somebody available holds the skill at the level required, as of a time.
Fits(now) ==
  \E e \in free : InForce(e, now) # {} /\ Level(e, now) >= Level(Project, now)

\* A requirement nobody meets shows its gap and one somebody meets shows none, as of the
\* time of the last evaluation, when what it read is still so and no other one has
\* written since.  It is the present only for a request that began after every edge did.
GapsAreTrue ==
  InForce(Project, settled) # {} => (ActiveGaps # {} <=> ~Fits(settled))

\* VRS-F013 G08: a gap is resolved by any write of a skill that meets the requirement.
\* Checked with one worker, so that no two requests cross.
ResolvedOnEveryWrite ==
  (losses = 0 /\ moves = 0 /\ \A w \in Workers : call[w] = Idle)
    => (ActiveGaps # {} => ~Fits(calls))

\* What the device shows of a call is what the server makes of it, when what the plan
\* found is all there is.
AttachedAsShown ==
  [][\A w \in Workers :
       LET c == call[w]
       IN /\ ApplyAttach(w) /\ c.edge = Edge(c.node, c.now)
            /\ (\A t \in Times : edges[c.node][t] > 0 => t = c.edge)
               => edges'[c.node] = DeviceAttach(edges[c.node], c.now, c.level)
          /\ ApplyStaffing(w) /\ c.found = (staffed[c.node] > 0)
               => staffed'[c.node] = IF c.staff THEN DeviceStaff(staffed[c.node])
                                     ELSE DeviceUnstaff(staffed[c.node])]_matchVars
=============================================================================
