------------------------------- MODULE TeamRules -------------------------------
(***************************************************************************)
(* What the team is promised about a rule page (docs: surfaces/team-page): *)
(* nobody sees a change until the owner approves it, turning one down      *)
(* changes nothing, a proposal written against an older page cannot be     *)
(* approved, and a decision is final.  One page, its proposals, and edits  *)
(* somebody makes to it outside the program.                               *)
(***************************************************************************)
CONSTANTS
    Prop,        \* proposals; each stands for the page content it proposes too
    Original,    \* the page as it is at first
    Edited,      \* the page as edited outside
    Mixed,       \* ... and here, before anybody has looked at it
    NoBase       \* not proposed yet

VARIABLES
    page,        \* the page everybody sees
    status,      \* per proposal: "none", "pending", "approved" or "rejected"
    basis        \* per proposal: the page it was written against

vars == <<page, status, basis>>

Pages == Prop \cup {Original, Edited, Mixed}

Init ==
    /\ page = Original
    /\ status = [q \in Prop |-> "none"]
    /\ basis = [q \in Prop |-> NoBase]

\* What a proposal is written against is settled once.
Propose(q) ==
    /\ basis[q] = NoBase
    /\ basis' \in {[basis EXCEPT ![q] = c] : c \in Pages}
    /\ UNCHANGED <<page, status>>

Queue(S) ==
    /\ \A q \in S : status[q] = "none" /\ basis[q] # NoBase
    /\ status' = [q \in Prop |-> IF q \in S THEN "pending" ELSE status[q]]
    /\ UNCHANGED <<page, basis>>

Approve(q) ==
    /\ status[q] = "pending"
    /\ page = basis[q]
    /\ page' = q
    /\ status' = [status EXCEPT ![q] = "approved"]
    /\ UNCHANGED basis

Reject(q) ==
    /\ status[q] = "pending"
    /\ status' = [status EXCEPT ![q] = "rejected"]
    /\ UNCHANGED <<page, basis>>

Edit ==
    /\ page' = Edited
    /\ UNCHANGED <<status, basis>>

Next ==
    \/ \E q \in Prop : Propose(q) \/ Approve(q) \/ Reject(q)
    \/ \E S \in SUBSET Prop : Queue(S)
    \/ Edit

Spec == Init /\ [][Next]_vars
=============================================================================
