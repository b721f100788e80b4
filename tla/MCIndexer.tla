----------------------------- MODULE MCIndexer -----------------------------
(***************************************************************************)
(* One campaign, a few transactions, pages of one or two.                  *)
(***************************************************************************)
EXTENDS IndexerProperties, TLC

MoneyHandlers    == {"Pay", "CancelStream", "InstantRefund", "CancelCampaign"}
CronHandlers     == {"Pay", "CancelCampaign", "CancelStream", "InstantRefund", "UpdateRoot",
                     "TogglePause", "ReleaseMilestone", "WithdrawUnvested", "Unreported"}

(* Invocations are alike. *)
Symmetry == Permutations(Workers)
=============================================================================
