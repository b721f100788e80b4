------------------------- MODULE CampaignProperties -------------------------
(***************************************************************************)
(* What a campaign promises its creator and its beneficiaries, over the    *)
(* state of Campaign.                                                      *)
(***************************************************************************)
EXTENDS CampaignRefinement, Sums

(* The type invariant; no counter leaves u64. *)
TypeOK ==
    /\ now \in 0 .. MaxTime
    /\ tree \in TreeType \cup {NoTree}
    /\ vault \in Nat
    /\ lamports \in Nat
    /\ record \in [Beneficiaries -> RecordType \cup {NoRecord}]
    /\ creations \in 0 .. MaxCreations
    /\ paid \in [Entitlements -> Nat]
    /\ deposited \in Nat
    /\ paidOut \in Nat
    /\ returned \in Nat
    /\ archived \in Nat
    /\ disturbed \subseteq Beneficiaries
    /\ rotated \in BOOLEAN
-----------------------------------------------------------------------------
(* --------------------------- the vault --------------------------- *)

(* The bank and the books agree: every unit that came in is in the vault,  *)
(* with a beneficiary or with the creator, and as long as the tree exists  *)
(* total_claimed is what the beneficiaries received, whichever of claim,   *)
(* withdraw and cancel_stream paid it and however often records were       *)
(* closed or the root rotated.                                             *)
BooksMatchBank ==
    /\ vault + lamports + paidOut + returned = deposited
    /\ Live => paidOut = tree.total_claimed

(* OverClaim: a campaign never pays out more than total_supply, and a      *)
(* native tree that exists holds at least its rent.                        *)
SupplyCap ==
    Live => /\ tree.total_claimed <= tree.total_supply
            /\ lamports >= Rent

(* total_claimed is the sum of the records' claimed_amount, those of       *)
(* closed records included.                                                *)
Claimed == [b \in Beneficiaries |->
               IF record[b] = NoRecord THEN 0 ELSE record[b].claimed_amount]

RecordsMatchBooks ==
    Live /\ creations = 1 =>
        tree.total_claimed = archived + SumOf(Claimed, Beneficiaries)
-----------------------------------------------------------------------------
(* ------------------------- entitlements ------------------------- *)

Undisturbed(leaf) == leaf.beneficiary \notin disturbed

(* What the records remember of a leaf is what was paid against it: the    *)
(* ledger the exact amount, the bitmap that it was paid.                   *)
RecordsMatchPayments ==
    \A leaf \in Leaves : Undisturbed(leaf) =>
        LET cr == record[leaf.beneficiary]
            p  == paid[EntitlementOf(leaf)]
        IN  IF cr = NoRecord THEN p = 0
            ELSE IF leaf.release_type = Milestone
                 THEN leaf.milestone_idx \in cr.milestone_bitmap <=> p > 0
                 ELSE p = LeafPriorClaimed(cr, leaf.leaf_index)

(* The leaves that may have been paid so far. *)
Carriers == IF rotated THEN Leaves ELSE tree.root

(* No beneficiary is ever ahead of schedule: what was paid against an      *)
(* entitlement is at most what get_vested_amount reports for some leaf     *)
(* that carries it, now and frozen at the cancellation, whichever          *)
(* instruction paid; until the root is rotated for a leaf of that root.    *)
NeverAheadOfSchedule ==
    Live => \A e \in Entitlements :
        e[1] \notin disturbed /\ paid[e] > 0 =>
            \E leaf \in Carriers :
                /\ EntitlementOf(leaf) = e
                /\ paid[e] <= GetVestedAmount(leaf, tree.cancelled_at, now, tree.released)

(* What a leaf would be paid now. *)
Outstanding(leaf) ==
    SatSub(GetVestedAmount(leaf, tree.cancelled_at, now, tree.released),
           paid[EntitlementOf(leaf)])

RootWithinSupply ==
    SumOf([leaf \in tree.root |-> leaf.amount], tree.root) <= tree.total_supply

FullyBacked == tree.total_claimed + Balance >= tree.total_supply

(* Within its first root, a campaign that was funded in full can pay every *)
(* leaf what has vested, whatever the other leaves were paid and in which  *)
(* order: neither InsufficientVault nor OverClaim stops an honest claim.   *)
EveryClaimCovered ==
    Live /\ ~rotated /\ disturbed = {} /\ FullyBacked /\ RootWithinSupply =>
        \A leaf \in tree.root :
            /\ Outstanding(leaf) <= Balance
            /\ tree.total_claimed + Outstanding(leaf) <= tree.total_supply

(* On a single-leaf tree the cumulative amount withdraw and cancel_stream  *)
(* subtract is the per-leaf amount claim subtracts, so the two paths pay   *)
(* the same and may be mixed.                                              *)
TwoPathsAgree ==
    Live /\ ~rotated => \A leaf \in tree.root :
        IsStreamLeaf(leaf) /\ leaf.release_type # Milestone /\ Undisturbed(leaf) =>
            ClaimableByWithdraw(LoadForStream(leaf), leaf)
              = ClaimableByClaim(LoadForClaim(leaf), leaf)
-----------------------------------------------------------------------------
(* ----------------------- what a step may never do ----------------------- *)

SameTree == Live /\ tree' # NoTree

(* A cancellation is final: afterwards no step changes its time, rotates   *)
(* the root, pauses the claims again or adds funds.                        *)
CancelIsFinal ==
    [][SameTree /\ Cancelled =>
         /\ tree'.cancelled_at = tree.cancelled_at
         /\ tree'.root = tree.root
         /\ ~tree'.paused
         /\ deposited' = deposited]_vars

(* While a campaign is paused nothing leaves it but by a step that cancels *)
(* it for good.                                                            *)
PauseHolds ==
    [][Live /\ tree.paused /\ vault' + lamports' < vault + lamports =>
         tree' = NoTree \/ tree'.cancelled_at # None]_vars

(* What stops a campaign, for a while or for good, stops it: a pause races *)
(* claims and cancellations, and a cancellation lifts it.                  *)
StopsHold == CancelIsFinal /\ PauseHolds

(* The cliff that gates an instant refund is the earliest of the root. *)
CliffIsHonest == \A leaf \in tree.root : tree.min_cliff_time <= leaf.cliff_time

EntitlementsOf(b) == {e \in Entitlements : e[1] = b}

(* What a beneficiary received for a leaf.  After a rotation to a single   *)
(* leaf the stream handlers count what was paid for its earlier leaves.    *)
Received(leaf) ==
    IF ~rotated THEN paid[EntitlementOf(leaf)]
    ELSE SumOf(paid, EntitlementsOf(leaf.beneficiary))

(* The creator takes money back only after the grace period, or in the     *)
(* step that cancels; then every leaf of the root has been paid what had   *)
(* vested by that moment.                                                  *)
NoEarlyClawback ==
    [][Live /\ returned' > returned /\ ~GraceOver =>
         /\ ~Cancelled
         /\ CliffIsHonest =>
              \A leaf \in tree.root : Undisturbed(leaf) /\ WellFormed(leaf) =>
                Received(leaf)' >= GetVestedAmount(leaf, None, now, tree.released)]_vars

(* Every entitlement of a root is that of one leaf. *)
Unambiguous(root) ==
    \A l, m \in root : EntitlementOf(l) = EntitlementOf(m) => l = m

(* A record that closes before the grace period is over has no unpaid part *)
(* of any leaf its beneficiary ever claimed on.                            *)
CloseLosesNothing ==
    [][Live /\ ~GraceOver /\ ~rotated /\ Unambiguous(tree.root) =>
         \A leaf \in tree.root :
            Undisturbed(leaf) /\ record[leaf.beneficiary] # NoRecord
              /\ record'[leaf.beneficiary] = NoRecord =>
                paid[EntitlementOf(leaf)] \in {0, leaf.amount}]_vars

(* The instruction that migrates the version 0 record of a stream pays     *)
(* exactly what had vested beyond what the earlier release paid, whichever *)
(* it is; then, unless the schedule was rotated in between, everything     *)
(* that has vested is paid.  A record that outlived its tree is none of    *)
(* this tree's payments.                                                   *)
MigrationPaysExactly ==
    [][Live => \A leaf \in tree.root :
         LET b       == leaf.beneficiary
             earlier == paid[EntitlementOf(leaf)]
             later   == paid'[EntitlementOf(leaf)]
             vested  == Vested(leaf, Effective)
         IN
         Undisturbed(leaf) /\ record[b] # NoRecord /\ record'[b] # NoRecord
           /\ IsStreamLeaf(leaf) /\ leaf.release_type # Milestone
           /\ record[b].version = 0 /\ record'[b].version = 1 =>
             /\ later = earlier + SatSub(vested, earlier)
             /\ ~rotated => later = vested]_vars
-----------------------------------------------------------------------------
(* --------------------------- liveness --------------------------- *)

(* Time passes, a beneficiary who has something to claim goes on trying,   *)
(* and so does a creator who may sweep.                                    *)
Fairness ==
    /\ WF_vars(Tick)
    /\ \A leaf \in Leaves : WF_vars(Claim(leaf))
    /\ WF_vars(WithdrawUnvested(Creator))

LiveSpec == Spec /\ Fairness

(* Neither cancelled nor paused by anybody, ever. *)
Firm == ~tree.cancellable /\ tree.pause_authority = None

(* A firm campaign that was funded in full pays every scheduled leaf in    *)
(* full, up to the cap on leaves per record, unless somebody closes a      *)
(* record first.                                                           *)
EveryLeafPaid ==
    \A leaf \in Leaves :
        (/\ Live /\ Firm /\ FullyBacked /\ RootWithinSupply
         /\ leaf \in tree.root /\ leaf.release_type # Milestone)
        ~> (paid[EntitlementOf(leaf)] = leaf.amount \/ disturbed # {})

(* Nothing stays in a cancelled campaign: its vault is empty or its        *)
(* account gone in the end.                                                *)
SweepCompletes ==
    (Live /\ Cancelled /\ tree.cancelled_at + GracePeriod <= MaxTime)
        ~> (~Live \/ Balance = 0)
=============================================================================
