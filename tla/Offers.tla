------------------------------- MODULE Offers -------------------------------
(***************************************************************************)
(* What the campaign's page (app/(app)/campaign/[id]/page.tsx and the      *)
(* buttons it renders) offers to the wallet that looks at it, and what the *)
(* routes under api/campaigns/[treeAddress] prepare for a wallet that      *)
(* asks, both from a fresh view of the campaign's accounts or rows.  Every *)
(* offer is what one instruction of Campaign is sent on; the page works    *)
(* the amounts out again from the leaves, the tree and the wallet's own    *)
(* ClaimRecord, of which it reads the running sum and the bitmap but not   *)
(* the ledger.                                                             *)
(***************************************************************************)
EXTENDS Campaign, FiniteSetsExt

\* the seconds of a minute
CONSTANT Minute

ASSUME MinuteAssumption == Minute \in Nat \ {0}

MyRecord(viewer) ==
    IF viewer \in Beneficiaries /\ record[viewer] # NoRecord
    THEN [claimed |-> record[viewer].claimed_amount, bitmap |-> record[viewer].milestone_bitmap]
    ELSE [claimed |-> 0, bitmap |-> {}]

IsSingleLeaf == tree.leaf_count = 1

TotalClaimed(viewer) ==
    IF IsSingleLeaf THEN Max({tree.total_claimed, MyRecord(viewer).claimed})
                    ELSE tree.total_claimed

LeafIsReleased(leaf) == leaf.release_type = Milestone => leaf.milestone_idx \in tree.released

(* lib/vesting/schedule.ts: the curve once more, in TypeScript. *)
Curve(leaf, t) ==
    IF leaf.release_type = Linear /\ t < leaf.end_time
    THEN IF t <= leaf.cliff_time THEN 0
         ELSE (leaf.amount * (t - leaf.cliff_time)) \div (leaf.end_time - leaf.cliff_time)
    ELSE IF leaf.release_type = Linear \/ t >= leaf.cliff_time THEN leaf.amount ELSE 0

(* getVestedAmount *)
ScheduledAt(leaf, t) ==
    Curve(leaf, IF Cancelled /\ tree.cancelled_at < t THEN tree.cancelled_at ELSE t)

ScheduledAmount(leaf) == ScheduledAt(leaf, now)

(* Mutant: a time is rounded to the next minute. *)
InMinutesRounded(t) == ((t + Minute - 1) \div Minute) * Minute

(* lib/stream/datetime.ts: a time written to a datetime-local input and    *)
(* read back is cut to the minute.  Where the clocks go back an hour and   *)
(* the local time comes twice, which is not modelled, to the first of them.*)
InMinutes(t) == t - (t % Minute)

(* applyScheduleToForm: the page of a stream works with the times of its   *)
(* form, and only its two instructions send the seconds that it also       *)
(* keeps; of a campaign it has the leaves as the route returned them.      *)
InForm(leaf) ==
    IF IsSingleLeaf
    THEN [leaf EXCEPT !.start_time = InMinutes(@), !.cliff_time = InMinutes(@),
                      !.end_time = InMinutes(@)]
    ELSE leaf

(* vestedAmount of the page: unlike the program it wants a milestone's     *)
(* cliff to have passed as well as its release.                            *)
VestedShown(leaf) == IF LeafIsReleased(leaf) THEN ScheduledAmount(InForm(leaf)) ELSE 0
-----------------------------------------------------------------------------
(* ------------------------------- funding ------------------------------- *)
FundingRemaining(viewer) ==
    IF Cancelled THEN 0
    ELSE SatSub(SatSub(tree.total_supply, TotalClaimed(viewer)), Balance)

FundOffered(viewer) == viewer = Creator /\ FundingRemaining(viewer) > 0

(* handleFundExistingCampaign: what is missing, by the mint's instruction. *)
FundExisting(viewer) ==
    LET amount == FundingRemaining(viewer)
    IN  FundOffered(viewer) /\ IF tree.native THEN FundCampaignNative(amount) ELSE FundCampaign(amount)

(* ------------------------------- control ------------------------------- *)
Unfinished(viewer) == ~Cancelled /\ TotalClaimed(viewer) < tree.total_supply

PauseOffered(viewer) == Unfinished(viewer) /\ viewer = tree.pause_authority

CancelOffered(viewer) ==
    Unfinished(viewer) /\ tree.cancellable /\ viewer = tree.cancel_authority

(* The dialog that the cancel button opens, on a stream. *)
SettleOffered(viewer) ==
    CancelOffered(viewer) /\ IsSingleLeaf /\ viewer = Creator

RotateOffered(viewer) ==
    ~Cancelled /\ ~IsSingleLeaf /\ tree.cancellable /\ viewer = tree.cancel_authority

ReleaseOffered(viewer, leaf) ==
    ~Cancelled /\ viewer = Creator /\ leaf.release_type = Milestone /\ ~LeafIsReleased(leaf)

RefundOffered(viewer) ==
    /\ tree.cancellable /\ Unfinished(viewer)
    /\ ~tree.instant_refunded
    /\ ~IsSingleLeaf
    /\ viewer = Creator
    /\ now < tree.min_cliff_time
    /\ tree.released = {}

(* getGracePeriodState *)
GraceExpired == Cancelled /\ ~(now < tree.cancelled_at + GracePeriod)

SweepOffered(viewer) == GraceExpired /\ viewer = Creator /\ ~tree.instant_refunded

CloseOffered(viewer) ==
    /\ viewer \in Beneficiaries /\ record[viewer] # NoRecord
    /\ \/ record[viewer].total_entitled > 0
          /\ record[viewer].claimed_amount >= record[viewer].total_entitled
       \/ GraceExpired
(* The handlers behind the buttons: each sends its instruction, and puts   *)
(* down the tree that it expects without asking the chain again.           *)
HandleToggle(viewer) ==
    PauseOffered(viewer) /\ IF tree.paused THEN UnpauseCampaign(viewer) ELSE PauseCampaign(viewer)

(* Both buttons, of a cancellation and of a refund, open the dialog. *)
DialogOffered(viewer) == CancelOffered(viewer) \/ RefundOffered(viewer)

HandleCancel(viewer) == DialogOffered(viewer) /\ CancelCampaign(viewer)

AfterCancel == [tree EXCEPT !.cancelled_at = now, !.paused = FALSE]

HandleCancelStream(viewer, leaf) == SettleOffered(viewer) /\ CancelStream(viewer, leaf)

(* Mutant: what the settlement pays is not added. *)
AfterCancelStreamUnpaid(viewer, leaf) ==
    [AfterCancel EXCEPT !.total_claimed = TotalClaimed(viewer)]

AfterCancelStream(viewer, leaf) ==
    [AfterCancel EXCEPT !.total_claimed = Max({VestedShown(leaf), TotalClaimed(viewer)})]

HandleInstantRefund(viewer) == RefundOffered(viewer) /\ InstantRefundCampaign(viewer)

AfterInstantRefund == [AfterCancel EXCEPT !.instant_refunded = TRUE]

(* CancelConfirmDialog.  Its mode is what was chosen last, and first what  *)
(* the page could tell of a refund when it opened, the wallet perhaps not  *)
(* yet being known; loaded, that the stream's schedule is.                 *)
DialogModes == {"instant", "grace"} \cup {mode \in {"refund"} : ~IsSingleLeaf}

EffectiveMode(viewer, mode, loaded) ==
    IF RefundOffered(viewer) \/ (SettleOffered(viewer) /\ loaded) THEN mode ELSE "grace"

EffectiveModes(viewer) ==
    {EffectiveMode(viewer, mode, loaded) : mode \in DialogModes, loaded \in BOOLEAN}

HandleConfirm(viewer, chosen, leaf) ==
    CASE chosen = "refund"                           -> HandleInstantRefund(viewer)
      [] chosen = "instant" /\ SettleOffered(viewer) -> HandleCancelStream(viewer, leaf)
      [] OTHER                                       -> HandleCancel(viewer)

HandleSweep(viewer) == SweepOffered(viewer) /\ WithdrawUnvested(viewer)

HandleClose(viewer) == CloseOffered(viewer) /\ CloseClaimRecord(viewer)

(* A stream has one button. *)
HandleTrigger(viewer, leaf) ==
    /\ IsSingleLeaf /\ ReleaseOffered(viewer, leaf)
    /\ SetMilestoneReleased(viewer, leaf.milestone_idx)

(* MilestoneReleasePanel: a button for each milestone of a campaign, a     *)
(* page of them at a time, and one for the first that is not released.     *)
MilestoneIndices ==
    {leaf.milestone_idx : leaf \in {l \in tree.root : l.release_type = Milestone}}

PanelMilestones(viewer) ==
    IF viewer = Creator /\ ~Cancelled /\ ~IsSingleLeaf THEN MilestoneIndices ELSE {}

NextUnreleased(viewer) ==
    LET waiting == PanelMilestones(viewer) \ tree.released
    IN  IF waiting = {} THEN None ELSE Min(waiting)

TotalPages(viewer, size) == (Cardinality(PanelMilestones(viewer)) + size - 1) \div size

PageItems(viewer, page, size) ==
    {idx \in PanelMilestones(viewer) :
        Cardinality({i \in PanelMilestones(viewer) : i < idx}) \div size = page}

HandleRelease(viewer, idx) ==
    idx \in PanelMilestones(viewer) \ tree.released /\ SetMilestoneReleased(viewer, idx)

(* The flags are 32 bytes of eight milestones each; the page writes a one  *)
(* to the byte that has the milestone's number.                            *)
AfterRelease(idx) ==
    [tree EXCEPT !.released = (@ \ (8 * idx .. 8 * idx + 7)) \cup {8 * idx}]
-----------------------------------------------------------------------------
(* -------------------------------- claims ------------------------------- *)
(* On a stream: what has vested less everything that was claimed.          *)
StreamClaimable(leaf) == SatSub(VestedShown(leaf), TotalClaimed(leaf.beneficiary))

WithdrawOffered(leaf) ==
    /\ IsSingleLeaf
    /\ ~tree.paused
    /\ StreamClaimable(leaf) > 0
    /\ LeafIsReleased(leaf)
    /\ ~tree.instant_refunded
    /\ FundingRemaining(leaf.beneficiary) = 0

HandleWithdraw(leaf) == WithdrawOffered(leaf) /\ Withdraw(leaf)

AfterWithdraw(leaf) ==
    [tree EXCEPT !.total_claimed = TotalClaimed(leaf.beneficiary) + StreamClaimable(leaf)]

LeavesOf(viewer) == {leaf \in tree.root : leaf.beneficiary = viewer}

Total(leaves) == MapThenSumSet(LAMBDA leaf : leaf.amount, leaves)

(* The figure above the button: everything that has vested less everything *)
(* that was claimed, whichever leaf it was for.                            *)
RecipientClaimable(viewer) ==
    SatSub(MapThenSumSet(VestedShown, LeavesOf(viewer)),
           Earlier(MyRecord(viewer).claimed, Total(LeavesOf(viewer))))

(* Mutant: the running sum is not split. *)
LeafClaimedWhole(leaf) == MyRecord(leaf.beneficiary).claimed

(* The running sum is split over the leaves in their order, each filled    *)
(* before the next.                                                        *)
LeafClaimed(leaf) ==
    LET before == {l \in LeavesOf(leaf.beneficiary) : l.leaf_index < leaf.leaf_index}
    IN  Earlier(leaf.amount, SatSub(MyRecord(leaf.beneficiary).claimed, Total(before)))

LeafClaimable(leaf) ==
    IF leaf.release_type = Milestone
    THEN IF leaf.milestone_idx \in MyRecord(leaf.beneficiary).bitmap THEN 0
         ELSE VestedShown(leaf)
    ELSE SatSub(VestedShown(leaf), LeafClaimed(leaf))

LeafFullyClaimed(leaf) ==
    IF leaf.release_type = Milestone
    THEN leaf.milestone_idx \in MyRecord(leaf.beneficiary).bitmap
    ELSE LeafClaimed(leaf) >= leaf.amount

(* The claim button is there unless claimFundingDisabledReason is.         *)
ClaimOffered(leaf) ==
    /\ ~IsSingleLeaf
    /\ ~tree.instant_refunded
    /\ ~(Cancelled /\ RecipientClaimable(leaf.beneficiary) = 0)
    /\ FundingRemaining(leaf.beneficiary) = 0
    /\ ~LeafFullyClaimed(leaf)
    /\ now >= leaf.cliff_time
    /\ ~tree.paused
    /\ LeafIsReleased(leaf)
    /\ LeafClaimable(leaf) > 0

HandleClaim(leaf) == ClaimOffered(leaf) /\ Claim(leaf)
-----------------------------------------------------------------------------
(* -------------------------------- routes ------------------------------- *)
(* Each looks at the campaign's row for the wallet that asks and makes a   *)
(* transaction of one instruction; those of a settlement and of a sweep    *)
(* name the vault of a token, which a native tree does not have.           *)
CancelPrepared(wallet) ==
    /\ tree.cancellable
    /\ ~Cancelled
    /\ ~(tree.total_claimed >= tree.total_supply /\ tree.total_supply > 0)
    /\ tree.cancel_authority # None /\ wallet = tree.cancel_authority

CancelTx(wallet) == CancelPrepared(wallet) /\ CancelCampaign(wallet)

SettlePrepared(wallet) ==
    tree.leaf_count = 1 /\ tree.cancellable /\ ~Cancelled /\ wallet = Creator

SettleTx(wallet, leaf) ==
    SettlePrepared(wallet) /\ ~tree.native /\ CancelStream(wallet, leaf)

(* computeInstantRefundEligible; it does not ask whether all was claimed.  *)
RefundEligible ==
    /\ tree.leaf_count > 1 /\ tree.cancellable /\ ~Cancelled
    /\ ~tree.instant_refunded
    /\ now < tree.min_cliff_time
    /\ tree.released = {}

RefundPrepared(wallet) == RefundEligible /\ wallet = Creator

RefundTx(wallet) == RefundPrepared(wallet) /\ InstantRefundCampaign(wallet)

SweepPrepared(wallet) ==
    Cancelled /\ now >= tree.cancelled_at + GracePeriod /\ wallet = Creator

SweepTx(wallet) == SweepPrepared(wallet) /\ ~tree.native /\ WithdrawUnvested(wallet)

ReleasePrepared(wallet, idx) ==
    idx \in 0 .. 255 /\ wallet = Creator /\ ~Cancelled /\ idx \notin tree.released

ReleaseTx(wallet, idx) == ReleasePrepared(wallet, idx) /\ SetMilestoneReleased(wallet, idx)
=============================================================================
