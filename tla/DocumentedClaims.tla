-------------------------- MODULE DocumentedClaims --------------------------
(***************************************************************************)
(* What the repository's documents, comments and tests say of the program  *)
(* and the program does not do.  Each is checked by a run of its own that  *)
(* shows a behaviour of Campaign that violates it.                         *)
(***************************************************************************)
EXTENDS CampaignProperties

(* A closed ClaimRecord cannot be initialised again                        *)
(* (tests/sealevel-attacks-gap.spec.ts:487), so that no leaf is ever paid  *)
(* more than its amount.                                                   *)
NoLeafPaidTwice ==
    \A leaf \in Leaves : paid[EntitlementOf(leaf)] <= leaf.amount

(* The ledger is kept consistent so that a claim after a withdraw on a     *)
(* single-leaf record computes the correct delta                           *)
(* (instructions/withdraw.rs:203), whatever the layout the record had.     *)
ClaimAfterWithdrawIsExact ==
    Live => \A leaf \in tree.root :
        Undisturbed(leaf) /\ leaf.release_type # Milestone =>
            paid[EntitlementOf(leaf)] <= Vested(leaf, Effective)
=============================================================================
