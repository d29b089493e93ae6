------------------------- MODULE MCProtectedContent -------------------------
(***************************************************************************)
(* Protected content, and the part of the workforce data whose rates it    *)
(* holds, for TLC, each on an instance of its own: the keys and their      *)
(* erasure (ProtectedContent), and assignments and rate cards (Staffing).  *)
(* They share no rows: a behaviour is one of the part its initial state    *)
(* names, and the other rests.  Calls and domains of the protected content *)
(* are interchangeable.                                                    *)
(***************************************************************************)
EXTENDS ProtectedContent, TLC

CONSTANTS
  Employees, Callers, Overriders, CardReaders, Percents, Lines, Overrides, NoRate,   \* of staffing
  DefaultDaily, MaxDay, MaxAssignments, MaxCards, MaxWrites, MaxPending

VARIABLES part,
          assignments, governed, cards, pending, working, opened

staffingVars == <<assignments, governed, cards, pending, working, opened>>
allVars == <<part, vars, staffingVars>>

-----------------------------------------------------------------------------
\* A percentage is 0 to 100 (schema/mutations/assignment.ts); here only that it is not negative
\* matters.
ASSUME StaffingAssumption == Percents \subseteq Nat /\ MaxDay \in Nat

\* Two days, a caller who reads cards and one who may override.
Staffed == INSTANCE Staffing

OfContent == part = "content" /\ UNCHANGED <<part, staffingVars>>
OfStaffing == part = "staffing" /\ UNCHANGED <<part, vars>>

\* Of what a part that rests may begin with, one value will do.
ContentInit ==
  /\ part \in {"content", "staffing"}
  /\ Init /\ Staffed!Init
  /\ part # "staffing" => working = Staffed!Days
ContentNext == (OfContent /\ Next) \/ (OfStaffing /\ Staffed!Next)
ContentSpec == ContentInit /\ [][ContentNext]_allVars

ContentSymmetry == Permutations(Calls) \cup Permutations(Domains)

-----------------------------------------------------------------------------
\* A day over capacity has a recorded override on it.
OvercommitIsExplained == Staffed!OvercommitIsExplained

\* Assignments, governed_by edges and card versions name the same card.
CardsInForce == Staffed!CardsInForce

\* The device shows of an assignment what the server makes of it.
ShownAsDelivered == Staffed!ShownAsDelivered
=============================================================================
