------------------------- MODULE PromotionLifecycle -------------------------
(***************************************************************************)
(* What the reviewed promotion workflow promises about one promotion, with *)
(* reviewers, stores and retries left out: the stages a promotion may go   *)
(* through.  The status "approved" of the code is two stages here, because *)
(* approve and rollback both use it as their claim and a promotion claimed *)
(* by one of them may only be settled by that one.                         *)
(* PromotionWorkflow implements this specification.                        *)
(***************************************************************************)
CONSTANT Promotion      \* the event IDs promotions are keyed by

VARIABLE stage          \* stage[p]: where promotion p is in its life

InReview == {"approving", "rolling_back"}
Terminal == {"rejected", "rolled_back", "conflict", "expired"}
Stages   == {"unrecorded", "pending", "applied"} \cup InReview \cup Terminal

Move(p, from, to) == /\ stage[p] \in from
                     /\ stage' = [stage EXCEPT ![p] = to]

Init == stage = [p \in Promotion |-> "unrecorded"]

Record(p)        == Move(p, {"unrecorded"}, "pending")
ClaimApproval(p) == Move(p, {"pending"}, "approving")
Reject(p)        == Move(p, {"pending"}, "rejected")
Apply(p)         == Move(p, {"approving"}, "applied")
ClaimRollback(p) == Move(p, {"applied"}, "rolling_back")
RollBack(p)      == Move(p, {"rolling_back"}, "rolled_back")
Conflict(p)      == Move(p, {"pending", "applied"} \cup InReview, "conflict")
Expire(p)        == Move(p, Stages \ {"unrecorded", "expired"}, "expired")

Next == \E p \in Promotion :
            \/ Record(p) \/ ClaimApproval(p) \/ Reject(p) \/ Apply(p)
            \/ ClaimRollback(p) \/ RollBack(p) \/ Conflict(p) \/ Expire(p)

Spec == Init /\ [][Next]_stage
=============================================================================
