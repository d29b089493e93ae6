-------------------------- MODULE MutationDelivery --------------------------
(***************************************************************************)
(* What the upload path promises, with no queue, no network and no         *)
(* restart.  A person submits mutations; the workspace decides each of     *)
(* them, once, in the order they were submitted; the person is then told.  *)
(* An applied mutation leaves the person's view, a rejected one stays in   *)
(* it until the person dismisses it, so nothing is silently dropped        *)
(* (outbox.ts, header comment).                                            *)
(***************************************************************************)
EXTENDS Naturals

CONSTANT MaxMutations       \* bound: the mutations one device submits

VARIABLES
  submitted,  \* the number of mutations submitted so far; they are 1..submitted
  outcome,    \* what the workspace decided of each mutation
  view        \* what the person sees of each mutation

deliveryVars == <<submitted, outcome, view>>

Muts == 1..MaxMutations

DeliveryTypeOK ==
  /\ submitted \in 0..MaxMutations
  /\ outcome \in [Muts -> {"none", "applied", "rejected"}]
  /\ view \in [Muts -> {"none", "waiting", "rejected"}]

DeliveryInit ==
  /\ submitted = 0
  /\ outcome = [m \in Muts |-> "none"]
  /\ view = [m \in Muts |-> "none"]

Submit ==
  /\ submitted < MaxMutations
  /\ submitted' = submitted + 1
  /\ view' = [view EXCEPT ![submitted + 1] = "waiting"]
  /\ UNCHANGED outcome

\* The workspace decides the oldest undecided mutation, and no other.
Decide(m) ==
  /\ m \in 1..submitted
  /\ outcome[m] = "none"
  /\ \A k \in 1..(m - 1) : outcome[k] # "none"
  /\ \E o \in {"applied", "rejected"} : outcome' = [outcome EXCEPT ![m] = o]
  /\ UNCHANGED <<submitted, view>>

\* The person learns what was decided, never anything else.
Tell(m) ==
  /\ view[m] = "waiting"
  /\ outcome[m] # "none"
  /\ view' = [view EXCEPT ![m] = IF outcome[m] = "applied" THEN "none" ELSE "rejected"]
  /\ UNCHANGED <<submitted, outcome>>

Dismiss(m) ==
  /\ view[m] = "rejected"
  /\ view' = [view EXCEPT ![m] = "none"]
  /\ UNCHANGED <<submitted, outcome>>

DeliveryNext ==
  \/ Submit
  \/ \E m \in Muts : Decide(m) \/ Tell(m) \/ Dismiss(m)

DeliverySpec == DeliveryInit /\ [][DeliveryNext]_deliveryVars
=============================================================================
