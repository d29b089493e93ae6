------------------------ MODULE WorkspaceMembership ------------------------
(***************************************************************************)
(* The members of one workspace, their roles, and the sync audience: which *)
(* person may replicate which graph row (services/api/src/auth:            *)
(* workspace-projection.ts, workspace-session.ts; audience/materializer.ts).*)
(*                                                                         *)
(* A call checks who may do what before its transaction begins.  In the    *)
(* transaction it writes the member's row, which stays locked, recomputes  *)
(* the audience from what it reads, and writes the difference to what is   *)
(* recorded.  Transactions are READ COMMITTED: a statement sees what has   *)
(* been committed when it runs, and the transaction's own writes.          *)
(***************************************************************************)
EXTENDS FiniteSets, Naturals

CONSTANTS
  Users,       \* people with an account
  Founder,     \* who creates the workspace
  OpenRows,    \* graph rows every member may read
  OwnerRows,   \* graph rows only an Owner may read
  OwnerCap,    \* OWNER_CAP
  Calls,       \* API calls handled at the same time
  MaxCalls     \* bound: calls ever made

ASSUME WorkspaceMembershipAssumption ==
  /\ Founder \in Users
  /\ OwnerCap \in Nat \ {0} /\ MaxCalls \in Nat \ {0}
  /\ OpenRows \cap OwnerRows = {}

VARIABLES
  status,     \* member.status; "none" where there is no row
  owner,      \* the people whose member.role names owner
  rows,       \* graph rows written
  audience,   \* sync_node_audience: <<person, row>>
  call,       \* the calls in progress
  made,       \* calls made so far
  crossed,    \* history: the calls that were in progress together with another
  unsettled   \* history: a crossed call committed, no uncrossed full recompute since

vars == <<status, owner, rows, audience, call, made, crossed, unsettled>>

-----------------------------------------------------------------------------
Rows == OpenRows \cup OwnerRows
Statuses == {"none", "pending", "active", "revoked"}
Operations == {"confirm", "admit", "change", "revoke", "create row"}
Steps == {"actor", "target", "owners", "begin", "recompute", "commit"}
NoRow == "no row"
CallStates ==
  [op : Operations, step : Steps, actor : Users, target : Users, asOwner : BOOLEAN,
   row : Rows \cup {NoRow}, want : SUBSET (Users \X Rows)]
NoCall == [step |-> "idle"]

TypeOK ==
  /\ status \in [Users -> Statuses] /\ owner \subseteq Users
  /\ rows \subseteq Rows /\ audience \subseteq Users \X Rows
  /\ call \in [Calls -> CallStates \cup {NoCall}]
  /\ made \in 0..MaxCalls /\ crossed \subseteq Calls /\ unsettled \in BOOLEAN

\* createWorkspace's first transaction has committed, its second has not begun.
Init ==
  /\ status = [u \in Users |-> IF u = Founder THEN "pending" ELSE "none"]
  /\ owner = {Founder}
  /\ rows = {} /\ audience = {}
  /\ \E c \in Calls :
       call = [b \in Calls |->
         IF b = c THEN [op |-> "confirm", step |-> "begin", actor |-> Founder, target |-> Founder,
                        asOwner |-> TRUE, row |-> NoRow, want |-> {}]
         ELSE NoCall]
  /\ made = 1 /\ crossed = {} /\ unsettled = FALSE

-----------------------------------------------------------------------------
Op(c) == call[c].op
Target(c) == call[c].target
At(c, step) == call[c].step = step
Moves(c, step) == call' = [call EXCEPT ![c] = [@ EXCEPT !.step = step]]
Returns(c) == call' = [call EXCEPT ![c] = NoCall]
Reads == UNCHANGED <<status, owner, rows, audience, made, crossed, unsettled>>

Active(u) == status[u] = "active"
ConfirmedOwner(u) == Active(u) /\ u \in owner

\* decideRead, for a person with the role asked about.
MayRead(asOwner, r) == r \in OpenRows \/ asOwner

\* Who reads what, of the given rows, if these are the members and Owners.
Readable(members, owners, seenRows) ==
  {pair \in members \X seenRows : MayRead(pair[1] \in owners, pair[2])}

\* A transaction past its first write holds the lock on its member row.
InTransaction(c) == call[c].step \in {"recompute", "commit"}
Unlocked(u) ==
  \A b \in Calls : ~(InTransaction(b) /\ Op(b) # "create row" /\ Target(b) = u)

-----------------------------------------------------------------------------
\* Where each operation starts.
FirstStep(op) == IF op \in {"change", "revoke"} THEN "actor" ELSE "begin"

Request(c, op, actor, target, asOwner, r) ==
  /\ call[c] = NoCall
  /\ made < MaxCalls
  /\ op # "confirm"
  /\ (r # NoRow) <=> (op = "create row")
  /\ op = "create row" => (Active(actor) /\ actor = target /\ MayRead(actor \in owner, r))
  /\ op \in {"admit", "revoke"} => ~asOwner   \* an invitation names no Owner
  /\ made' = made + 1
  /\ crossed' = LET busy == {b \in Calls : call[b] # NoCall}
                IN  IF busy = {} THEN {} ELSE busy \cup {c}
  /\ call' = [call EXCEPT ![c] =
       [op |-> op, step |-> FirstStep(op), actor |-> actor, target |-> target,
        asOwner |-> asOwner, row |-> r, want |-> {}]]
  /\ UNCHANGED <<status, owner, rows, audience, unsettled>>

\* requireConfirmedOwner
CheckActor(c) ==
  /\ At(c, "actor")
  /\ IF ConfirmedOwner(call[c].actor) THEN Moves(c, "target") ELSE Returns(c)
  /\ Reads

\* A role change needs an active member; a removal any member but oneself.
CheckTarget(c) ==
  /\ At(c, "target")
  /\ \/ /\ Op(c) = "revoke"
        /\ IF status[Target(c)] # "none" /\ Target(c) # call[c].actor
             THEN Moves(c, "begin") ELSE Returns(c)
     \/ Op(c) = "change" /\ ~Active(Target(c)) /\ Returns(c)
     \/ /\ Op(c) = "change" /\ Active(Target(c))
        /\ Moves(c, IF call[c].asOwner /\ Target(c) \notin owner THEN "owners" ELSE "begin")
  /\ Reads

\* Mutant: the cap admits one Owner too many.
RoomForOneMoreThanThat == Cardinality({u \in owner : Active(u)}) <= OwnerCap

RoomForAnOwner == Cardinality({u \in owner : Active(u)}) < OwnerCap

CheckCap(c) ==
  /\ At(c, "owners")
  /\ IF RoomForAnOwner THEN Moves(c, "begin") ELSE Returns(c)
  /\ Reads

-----------------------------------------------------------------------------
\* The statuses a transaction's first write finds and still goes on.
\* Mutant: an admission revives the row of a removed member.
ProceedsFromRevived(op) ==
  {s \in Statuses : /\ op = "confirm" => s = "pending"
                    /\ op = "admit" => s \in {"none", "revoked"}
                    /\ op = "change" => s = "active"
                    /\ op = "revoke" => s # "none"}

ProceedsFrom(op) ==
  {s \in Statuses : /\ op = "confirm" => s = "pending"
                    /\ op = "admit" => s = "none"
                    /\ op = "change" => s = "active"
                    /\ op = "revoke" => s # "none"}

\* The first write: it waits for whoever holds the member row, and fails when the
\* row is not in the state the statement asks for.
BeginMember(c) ==
  /\ At(c, "begin") /\ Op(c) # "create row"
  /\ Unlocked(Target(c))
  /\ IF status[Target(c)] \in ProceedsFrom(Op(c)) THEN Moves(c, "recompute") ELSE Returns(c)
  /\ Reads

BeginRow(c) ==
  /\ At(c, "begin") /\ Op(c) = "create row"
  /\ \A b \in Calls : ~(InTransaction(b) /\ call[b].row = call[c].row)
  /\ IF call[c].row \in rows THEN Returns(c) ELSE Moves(c, "recompute")
  /\ Reads

\* The members and Owners this transaction sees, its own write included.
MembersSeen(c) ==
  {u \in Users : IF u = Target(c) /\ Op(c) # "create row" THEN Op(c) # "revoke" ELSE Active(u)}

OwnersSeen(c) ==
  IF Op(c) \notin {"admit", "change"} THEN owner
  ELSE IF call[c].asOwner THEN owner \cup {Target(c)} ELSE owner \ {Target(c)}

\* Mutant: only the person concerned is looked at again.
ScopeTarget(c) == {Target(c)} \X (IF Op(c) = "create row" THEN {call[c].row} ELSE Rows)

\* The part of the audience a transaction decides anew.
Scope(c) == Users \X (IF Op(c) = "create row" THEN {call[c].row} ELSE Rows)

\* What the recompute wants, from the rows it can see.
Recompute(c) ==
  /\ At(c, "recompute")
  /\ call' = [call EXCEPT ![c] = [@ EXCEPT !.step = "commit",
       !.want = Readable(MembersSeen(c), OwnersSeen(c),
                         IF Op(c) = "create row" THEN {call[c].row} ELSE rows)]]
  /\ Reads

RowsAfter(c) == IF Op(c) = "create row" THEN rows \cup {call[c].row} ELSE rows

\* The difference to what is recorded is written, and the transaction commits.
Commit(c) ==
  /\ At(c, "commit")
  /\ status' = [status EXCEPT ![Target(c)] = IF Op(c) \in {"confirm", "admit"} THEN "active"
                                             ELSE IF Op(c) = "revoke" THEN "revoked" ELSE @]
  /\ owner' = OwnersSeen(c)
  /\ rows' = RowsAfter(c)
  /\ audience' = (audience \ Scope(c)) \cup (call[c].want \cap Scope(c))
  /\ unsettled' = (c \in crossed \/ (unsettled /\ Op(c) = "create row"))
  /\ Returns(c)
  /\ UNCHANGED <<made, crossed>>

\* The API process or its connection goes away; an open transaction rolls back.
Crash(c) ==
  /\ call[c] # NoCall
  /\ Returns(c)
  /\ Reads

Next ==
  \E c \in Calls :
    \/ \E op \in Operations, actor, target \in Users, asOwner \in BOOLEAN, r \in Rows \cup {NoRow} :
         Request(c, op, actor, target, asOwner, r)
    \/ CheckActor(c) \/ CheckTarget(c) \/ CheckCap(c)
    \/ BeginMember(c) \/ BeginRow(c) \/ Recompute(c) \/ Commit(c)
    \/ Crash(c)

Spec == Init /\ [][Next]_vars

-----------------------------------------------------------------------------
(* Properties *)

\* Once revoked, a membership never counts again, whatever confirmation, role
\* change or admission was in progress.
RevokedForGood ==
  [][\A u \in Users : status[u] = "revoked" => status'[u] = "revoked"]_vars

Quiet == \A c \in Calls : ~InTransaction(c)

\* Between transactions the audience is exactly who may read what: nobody keeps
\* a row that is not theirs, nobody misses one that is (workspace-session.ts:266:
\* "a removed member's audience rows go with the membership").  Calls in progress
\* together may each recompute from a snapshot without the other's change; the next
\* full recompute nobody crosses puts that right.
AudienceIsCurrent ==
  Quiet /\ ~unsettled => audience = Readable({u \in Users : Active(u)}, owner, rows)

\* VPS-F001:288, "rejected with an error naming the three-Owner maximum": a
\* promotion never takes the Owners over the cap, unless it was crossed by a call
\* that was promoting too.
OwnersCapped ==
  [][\A c \in Calls :
       At(c, "commit") /\ call'[c] = NoCall /\ c \notin crossed /\ ~(owner' \subseteq owner)
         => Cardinality({u \in owner' : status'[u] = "active"}) <= OwnerCap]_vars
=============================================================================
