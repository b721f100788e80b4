------------------------- MODULE CampaignRefinement -------------------------
(***************************************************************************)
(* A campaign is an Escrow: its cap is total_supply, it holds what the     *)
(* handlers take for the vault balance, it has released total_claimed, and *)
(* it is frozen by whichever of cancel_campaign, cancel_stream and         *)
(* instant_refund_campaign sets cancelled_at.  update_root, pause, unpause,*)
(* set_milestone_released and close_claim_record are invisible.            *)
(***************************************************************************)
EXTENDS Campaign

phaseBar    == IF ~Live THEN "none" ELSE IF Cancelled THEN "frozen" ELSE "open"
capBar      == IF Live THEN tree.total_supply ELSE 0
heldBar     == IF Live THEN Balance ELSE 0
releasedBar == IF Live THEN tree.total_claimed ELSE 0
frozenAtBar == IF Live THEN tree.cancelled_at ELSE None

E == INSTANCE Escrow WITH
        Grace <- GracePeriod, Reserve <- Rent, Never <- None,
        phase <- phaseBar, cap <- capBar,
        held <- heldBar, released <- releasedBar,
        frozenAt <- frozenAtBar, owner <- returned

(* Every behaviour of a campaign is one of an escrow: whatever mixture of  *)
(* claims, withdrawals, rotations and cancellations happens, no payment    *)
(* exceeds the cap or the holdings, nothing goes back to the creator       *)
(* before the grace period but in the step that cancels, and a cancelled   *)
(* campaign is never open again.                                           *)
RefinesEscrow == E!Spec
=============================================================================
