-------------------------------- MODULE Lists --------------------------------
(***************************************************************************)
(* What the pages that list campaigns (campaigns, dashboard, portfolio,    *)
(* the badge of the sidebar), the routes they read and the figures of the  *)
(* campaign's page say of a campaign to the wallet that looks, from rows   *)
(* that have caught up with the chain.                                     *)
(*                                                                         *)
(* Two things the rows know and the accounts do not: settled, that a       *)
(* stream_cancel_events row exists, and which of two rows of a leaf list a *)
(* page has before it, the one the routes return or the one this browser   *)
(* made of the stream it created.                                          *)
(***************************************************************************)
EXTENDS Offers

(* A settlement leaves nothing in the vault of the stream that it ends. *)
Settlements == {FALSE} \cup {settled \in {TRUE} : IsSingleLeaf /\ Cancelled /\ Balance = 0}

GracePeriodVisible(settled) == Cancelled /\ ~tree.instant_refunded /\ ~settled

SenderStatus(settled) ==
    IF settled THEN "Settled"
    ELSE IF tree.instant_refunded THEN "Refunded"
    ELSE IF Cancelled THEN "Grace Period"
    ELSE IF tree.paused THEN "Paused"
    ELSE IF tree.total_supply > 0 /\ FullyPaid THEN "Claimed"
    ELSE "Active"

(* ------------------------- rows of a recipient ------------------------- *)
Row(leaves, claimed, settled) ==
    [leaves |-> leaves, claimed |-> claimed, refunded |-> tree.instant_refunded,
     settled |-> settled]

(* One row of the route for each of the wallet's leaves, all with its      *)
(* whole sum; a page that groups them by campaign takes it once.           *)
CampaignRow(viewer, settled) ==
    Row(LeavesOf(viewer), MyRecord(viewer).claimed, settled)

LeafRow(leaf, settled) == Row({leaf}, MyRecord(leaf.beneficiary).claimed, settled)

(* ------------------ streams that this browser created ------------------ *)
(* What lib/stream/persist.ts keeps of one, None if nothing: its schedule  *)
(* and the last that was seen of it.  An old version kept the schedule     *)
(* alone.                                                                  *)
Parsed(stored) ==
    IF stored = None \/ "schedule" \in DOMAIN stored THEN stored
    ELSE [schedule |-> stored, cached |-> None]

SaveSchedule(stored, leaf) ==
    [schedule |-> leaf,
     cached   |-> IF stored = None THEN None ELSE Parsed(stored).cached]

SaveSnapshot(stored, snapshot) ==
    IF stored = None THEN None ELSE [Parsed(stored) EXCEPT !.cached = snapshot]

(* fetchOne: the accounts as they are, kept for the next time, with what   *)
(* the wallet that looks has claimed, which is zero for all others.        *)
ReadStream(viewer, leaf) ==
    [creator |-> Creator, leaf_count |-> tree.leaf_count,
     total_supply |-> tree.total_supply, total_claimed |-> tree.total_claimed,
     cancellable |-> tree.cancellable, paused |-> tree.paused,
     cancelled_at |-> tree.cancelled_at, refunded |-> tree.instant_refunded,
     myClaimed |-> IF viewer = leaf.beneficiary THEN MyRecord(viewer).claimed ELSE 0]

(* A row of the sender; that it was settled is a flag of its own. *)
SenderRow(viewer, read, settled) ==
    IF viewer # read.creator THEN None
    ELSE [read |-> [field \in DOMAIN read \ {"myClaimed"} |-> read[field]],
          settled |-> settled,
          grace   |-> read.cancelled_at # None /\ ~read.refunded /\ ~settled]

(* The row of the recipient, whose one leaf has the whole supply; of a     *)
(* refund and of a settlement it says nothing.                             *)
LocalRow(leaf) ==
    [Row({[leaf EXCEPT !.amount = tree.total_supply]},
         MyRecord(leaf.beneficiary).claimed, FALSE) EXCEPT !.refunded = FALSE]

(* buildRecipientCampaign, from what was kept, if the chain cannot be read. *)
CachedRow(viewer, stored) ==
    LET leaf == stored.schedule
    IN  IF viewer # leaf.beneficiary THEN None
        ELSE [leaves |-> {leaf}, claimed |-> stored.cached.myClaimed,
              refunded |-> FALSE, settled |-> FALSE]

RowVested(row)    == MapThenSumSet(ScheduledAmount, row.leaves)
RowClaimable(row) == SatSub(RowVested(row), row.claimed)

RecipientStatus(row) ==
    IF Total(row.leaves) > 0 /\ row.claimed >= Total(row.leaves) THEN "Claimed"
    ELSE IF row.settled THEN "Settled"
    ELSE IF row.refunded THEN "Cancelled"
    ELSE IF tree.paused THEN "Paused"
    ELSE IF RowClaimable(row) > 0 THEN "Claimable"
    ELSE IF Cancelled THEN "Cancelled"
    ELSE "Scheduled"

(* ---------------------------- list and badge ---------------------------- *)
IsRecipient(viewer) == LeavesOf(viewer) # {}

(* The row counts as waiting for the wallet that looks. *)
NeedsAction(viewer, settled) ==
    \/ viewer = Creator /\ SenderStatus(settled) = "Grace Period"
    \/ IsRecipient(viewer) /\ RecipientStatus(CampaignRow(viewer, settled)) = "Claimable"

(* The figures of the row: what was claimed is added once for each leaf. *)
ListedAllocation(viewer) == Total(LeavesOf(viewer))
ListedClaimed(viewer)    == Cardinality(LeavesOf(viewer)) * MyRecord(viewer).claimed

(* getReleaseStateText, of who has one leaf; a linear one "starts" at its  *)
(* cliff.                                                                  *)
ReleaseText(leaf, settled) ==
    LET status == RecipientStatus(LeafRow(leaf, settled))
    IN  IF status # "Scheduled" THEN status
        ELSE IF leaf.release_type = Linear
             THEN IF now < leaf.cliff_time THEN "starts" ELSE "ends"
        ELSE IF now >= leaf.cliff_time THEN "reached" ELSE "unlocks"

(* Where the page has a campaign from: the routes, once it was indexed, or *)
(* this browser, if it created the stream.  Either may know that it was    *)
(* settled: the routes by the event, the browser by having done it.        *)
Sources ==
    [indexed : BOOLEAN, settled : Settlements,
     kept : {FALSE, IsSingleLeaf}, settledHere : Settlements]

ListedAsSender(viewer, src) ==
    IF viewer = Creator /\ (src.indexed \/ src.kept)
    THEN SenderStatus(IF src.indexed THEN src.settled ELSE src.settledHere)
    ELSE "none"

ListedAsRecipient(viewer, src) ==
    IF ~IsRecipient(viewer) \/ ~(src.indexed \/ src.kept) THEN None
    ELSE IF src.indexed THEN CampaignRow(viewer, src.settled \/ src.settledHere)
    ELSE LocalRow(CHOOSE leaf \in tree.root : TRUE)

(* The row of the page, None if there is none; of who is both it is the    *)
(* recipient's.                                                            *)
ListedRow(viewer, src) ==
    LET sender == ListedAsSender(viewer, src)
        mine   == ListedAsRecipient(viewer, src)
    IN  IF mine # None
        THEN [role |-> IF sender = "none" THEN "recipient" ELSE "both",
              status |-> RecipientStatus(mine), amount |-> Total(mine.leaves),
              claimable |-> RowClaimable(mine)]
        ELSE IF sender # "none"
        THEN [role |-> "sender", status |-> sender, amount |-> tree.total_supply, claimable |-> 0]
        ELSE None

(* filteredRows *)
InTab(viewer, tab, src) ==
    LET row == ListedRow(viewer, src)
    IN  /\ row # None
        /\ CASE tab = "recipient" -> row.role # "sender"
             [] tab = "sender"    -> row.role # "recipient"
             [] tab = "action"    -> \/ ListedAsSender(viewer, src) = "Grace Period"
                                     \/ row.status = "Claimable"
             [] OTHER             -> TRUE

(* The badge counts the rows as the routes return them, a leaf at a time. *)
BadgeCount(viewer, settled) ==
    (IF viewer = Creator /\ GracePeriodVisible(settled) THEN 1 ELSE 0)
      + Cardinality({leaf \in LeavesOf(viewer) :
                        RecipientStatus(LeafRow(leaf, settled)) = "Claimable"})
-----------------------------------------------------------------------------
(* ------------------------------- dashboard ------------------------------ *)
LockedValue(settled) ==
    IF tree.instant_refunded \/ settled THEN 0
    ELSE SatSub(tree.total_supply, tree.total_claimed)

(* The rows, one for a campaign: a sender's and a recipient's status.  The *)
(* recipient's is that of whichever leaf the route returned last.          *)
DashboardRows(viewer, settled) ==
    LET sender   == IF viewer = Creator THEN SenderStatus(settled) ELSE "none"
        statuses == {RecipientStatus(LeafRow(leaf, settled)) : leaf \in LeavesOf(viewer)}
        role     == IF ~IsRecipient(viewer) THEN "sender"
                    ELSE IF viewer = Creator THEN "both" ELSE "recipient"
    IN  {[role |-> role, sender |-> sender, recipient |-> status] :
            status \in IF IsRecipient(viewer) THEN statuses
                       ELSE IF viewer = Creator THEN {"none"} ELSE {}}

(* What one of them adds to the figures above the rings. *)
DashboardCounts(row) ==
    [active    |-> IF row.sender = "Active" \/ row.recipient = "Claimable" THEN 1 ELSE 0,
     sender    |-> IF row.role \in {"sender", "both"} THEN 1 ELSE 0,
     recipient |-> IF row.role \in {"recipient", "both"} THEN 1 ELSE 0,
     claimable |-> IF row.recipient = "Claimable" THEN 1 ELSE 0,
     tvl       |-> IF row.sender = "none" THEN 0
                   ELSE SatSub(tree.total_supply, tree.total_claimed)]

(* The notice of campaigns in their grace period and after it. *)
NeedsAttention(viewer, settled) == viewer = Creator /\ GracePeriodVisible(settled)

(* The sectors of the two rings. *)
ReceivingSector(status) ==
    CASE status \in {"Claimable", "Paused"} -> "Ongoing"
      [] status = "Scheduled"               -> "Scheduled"
      [] status \in {"Claimed", "Settled"}  -> "Completed"
      [] status = "Cancelled"               -> "Canceled"
      [] OTHER                              -> "none"

CreatedSector(status) ==
    CASE status \in {"Active", "Paused"}                       -> "Ongoing"
      [] status \in {"Claimed", "Settled"}                     -> "Completed"
      [] status \in {"Cancelled", "Grace Period", "Refunded"}  -> "Canceled"
      [] OTHER                                                 -> "none"

(* ------------------------------- portfolio ------------------------------ *)
(* computeNextUnlock: when more vests, None when nothing will. *)
NextUnlock(leaf) ==
    IF Cancelled THEN None
    ELSE IF now < leaf.cliff_time THEN leaf.cliff_time
    ELSE IF leaf.release_type = Linear /\ now < leaf.end_time THEN now + 1
    ELSE None

(* vesting-progress: the whole sum is taken off every leaf, and a          *)
(* settlement counts as paid what had vested.                              *)
Progress(leaf, settled) ==
    LET vested  == ScheduledAmount(leaf)
        claimed == IF settled THEN vested ELSE MyRecord(leaf.beneficiary).claimed
    IN  [entitled  |-> leaf.amount,
         vested    |-> vested,
         claimed   |-> claimed,
         claimable |-> IF tree.instant_refunded \/ ~LeafIsReleased(leaf) THEN 0
                       ELSE SatSub(vested, claimed),
         next      |-> NextUnlock(leaf)]

(* useVestingProgressSummary: of each figure the sum over all leaves, and  *)
(* how many of the leaves can be claimed.                                  *)
Summary(viewer, settled) ==
    LET of(leaf)  == Progress(leaf, settled)
        Sum(f(_)) == MapThenSumSet(f, LeavesOf(viewer))
    IN  [entitled  |-> Sum(LAMBDA l : of(l).entitled),
         vested    |-> Sum(LAMBDA l : of(l).vested),
         claimed   |-> Sum(LAMBDA l : of(l).claimed),
         claimable |-> Sum(LAMBDA l : of(l).claimable),
         claimableCampaigns |-> Cardinality({l \in LeavesOf(viewer) : of(l).claimable > 0})]

(* The page sums them for each token, here a wallet's only campaign of it, *)
(* and counts what will never vest as never entitled to.                   *)
Portfolio(viewer, settled) ==
    [Summary(viewer, settled) EXCEPT !.entitled = IF Cancelled THEN Summary(viewer, settled).vested ELSE @]

(* The cards below, one for each leaf. *)
CardStatus(leaf, settled) ==
    LET of == Progress(leaf, settled)
    IN  IF of.entitled > 0 /\ of.claimed >= of.entitled THEN "Claimed"
        ELSE IF Cancelled THEN "Cancelled"
        ELSE IF tree.paused THEN "Paused"
        ELSE IF of.claimable > 0 THEN "Claimable"
        ELSE IF ~LeafIsReleased(leaf) THEN "Scheduled"
        ELSE "Active"

CardUnlock(leaf) ==
    IF ~LeafIsReleased(leaf) THEN "not released"
    ELSE IF NextUnlock(leaf) = None THEN "fully vested" ELSE "counts down"

PortfolioValue(viewer, settled) ==
    Portfolio(viewer, settled).entitled - Portfolio(viewer, settled).claimed

(* ------------------------------ simulation ------------------------------ *)
(* POST /api/simulate-vesting: the dates are those of the day of the start *)
(* in every month, at midnight, and then the end; of each what has vested  *)
(* by then and since the one before.                                       *)
SimulationAccepts(leaf) == leaf.amount > 0 /\ WellFormed(leaf) /\ leaf.start_time < leaf.end_time

MonthlyTimestamps(leaf, day, month) ==
    LET midnight == leaf.start_time - (leaf.start_time % day)
        months   == 1 + (leaf.end_time - 1 - midnight) \div month
    IN  [i \in 1 .. months + 1 |->
            IF i <= months THEN midnight + (i - 1) * month ELSE leaf.end_time]

Simulated(leaf, day, month) ==
    LET dates      == MonthlyTimestamps(leaf, day, month)
        Reached(i) == IF i = 0 THEN 0 ELSE Curve(leaf, dates[i])
    IN  [i \in DOMAIN dates |->
            [date |-> dates[i], cumulative |-> Reached(i),
             vested |-> Reached(i) - Reached(i - 1)]]

(* Cancelled campaigns a recipient is told to claim from. *)
GraceAction(leaf, settled) ==
    GracePeriodVisible(settled) /\ Progress(leaf, settled).claimable > 0
-----------------------------------------------------------------------------
(* -------------------------- the campaign's page ------------------------- *)
(* GET campaigns/[treeAddress] *)
Recipients ==
    [b \in {leaf.beneficiary : leaf \in tree.root} |->
        [allocation |-> Total(LeavesOf(b)), leafCount |-> Cardinality(LeavesOf(b)),
         claimedAmount |-> MyRecord(b).claimed]]

\* in hundredths of a percent
PercentClaimed ==
    IF tree.total_supply > 0 THEN (tree.total_claimed * 10000) \div tree.total_supply ELSE 0

GraceRemaining == SatSub(tree.cancelled_at + GracePeriod, now)

(* buildVestingCurve: a hundred samples between the first start and the    *)
(* last end, here one on every tick of a range that is shorter than that.  *)
VestingCurve ==
    LET from == Min({leaf.start_time : leaf \in tree.root})
        to   == Max({leaf.end_time : leaf \in tree.root})
    IN  [t \in from .. to |->
            MapThenSumSet(LAMBDA leaf : ScheduledAt(leaf, t), tree.root)]

(* What the page reads off the curve: nothing up to its first sample. *)
CampaignTotalVested ==
    LET at    == IF Cancelled THEN Min({tree.cancelled_at, now}) ELSE now
        first == Min(DOMAIN VestingCurve)
        last  == Max(DOMAIN VestingCurve)
    IN  IF at <= first THEN 0
        ELSE VestingCurve[Min({at, last})]

(* vestedPctAt, the line of a stream's chart, as an amount.  The step of   *)
(* its milestone is at the end, which a cancellation moves.                *)
ChartEnd(leaf) ==
    IF Cancelled /\ tree.cancelled_at < leaf.end_time THEN tree.cancelled_at ELSE leaf.end_time

ChartedAt(leaf, t) ==
    LET Part(at) == (leaf.amount * (at - leaf.cliff_time))
                       \div (leaf.end_time - leaf.cliff_time)
    IN  IF t <= leaf.start_time THEN 0
        ELSE IF leaf.release_type = Cliff
             THEN IF t >= leaf.cliff_time THEN leaf.amount ELSE 0
        ELSE IF leaf.release_type = Milestone
             THEN IF t >= ChartEnd(leaf) THEN leaf.amount ELSE 0
        ELSE IF t <= leaf.cliff_time THEN 0
        ELSE IF t < ChartEnd(leaf) THEN Part(t)
        ELSE IF ChartEnd(leaf) = leaf.end_time THEN leaf.amount
        ELSE IF ChartEnd(leaf) <= leaf.cliff_time THEN 0 ELSE Part(ChartEnd(leaf))

(* The dot on it, of the schedule in the form. *)
ChartedNow(leaf) ==
    LET shown == InForm(leaf) IN ChartedAt(shown, Min({now, ChartEnd(shown)}))

(* The dialog of a settlement names what the beneficiary and the creator   *)
(* will get.                                                               *)
UnclaimedVested(viewer, leaf) == SatSub(VestedShown(leaf), TotalClaimed(viewer))
ReturnedToCreator(leaf)       == SatSub(tree.total_supply, VestedShown(leaf))

(* What it says each side gets, in the body of the chosen mode. *)
DialogFigures(viewer, mode, leaf) ==
    IF mode = "refund" THEN [toRecipients |-> 0, toCreator |-> tree.total_supply]
    ELSE [toRecipients |-> UnclaimedVested(viewer, leaf) + TotalClaimed(viewer),
          toCreator    |-> ReturnedToCreator(leaf)]

(* CampaignStatusBanner, shown to the creator. *)
Banner(viewer, settled) ==
    IF viewer # Creator THEN "none"
    ELSE IF tree.instant_refunded THEN "refunded"
    ELSE IF Cancelled
    THEN IF settled THEN "settled"
         ELSE IF ~GraceExpired THEN "grace" ELSE "withdraw"
    ELSE IF FundingRemaining(viewer) > 0 THEN "not funded"
    ELSE "none"

(* MilestoneCarouselCard *)
MilestoneStatus(viewer, leaf) ==
    IF leaf.milestone_idx \in MyRecord(viewer).bitmap THEN "Claimed"
    ELSE IF ~LeafIsReleased(leaf) THEN "Awaiting Release"
    ELSE IF Effective >= InForm(leaf).cliff_time /\ viewer # Creator THEN "Ready To Claim"
    ELSE "Released"

(* Its line of the claim, for all but the creator. *)
MilestoneClaim(leaf) ==
    IF MilestoneStatus(leaf.beneficiary, leaf) = "Claimed" THEN "completed"
    ELSE IF ~LeafIsReleased(leaf) THEN "awaiting release"
    ELSE IF Effective >= InForm(leaf).cliff_time THEN "available" ELSE "opens"

(* MilestoneStatusBadge, of a stream; its clock does not stop when the     *)
(* campaign is cancelled.                                                  *)
MilestoneBadge(leaf) ==
    IF leaf.milestone_idx \in MyRecord(leaf.beneficiary).bitmap THEN "claimed"
    ELSE IF ~LeafIsReleased(leaf) THEN "awaiting release"
    ELSE IF now >= InForm(leaf).cliff_time THEN "ready" ELSE "unlocks"

(* The schedule that the page of a stream has in its form (InForm says how *)
(* it stands there), each time one of its questions is answered: stored is *)
(* what this browser kept of the stream, for which the wallet's proof is   *)
(* not asked, link what is in the address of the page.                     *)
LoadSchedule(form, answers, stored, link, leaf) ==
    LET From(source, schedule) == [source |-> source, leaf |-> schedule]
    IN  IF "proof" \in answers /\ stored = None THEN From("api", leaf)
        ELSE IF form.source = "api" \/ (stored = None /\ "refused" \notin answers) THEN form
        ELSE IF stored # None THEN From("local", stored)
        ELSE IF link # None THEN From("url", link)
        ELSE IF "detail" \in answers THEN From("api", leaf)
        ELSE IF form.source = "none" THEN From("manual", None)
        ELSE form

(* ------------------------ the button of a stream ------------------------ *)
(* getWithdrawDisabledReason *)
WithdrawReason(leaf) ==
    LET none  == StreamClaimable(leaf) = 0
        Is(type) == leaf.release_type = type
    IN  IF tree.paused THEN "paused"
        ELSE IF Cancelled /\ none THEN "cancelled"
        ELSE IF none /\ ~Is(Linear) /\ now < InForm(leaf).cliff_time THEN "locked"
        ELSE IF ~LeafIsReleased(leaf) THEN "not released"
        ELSE IF none /\ Is(Milestone) /\ leaf.milestone_idx \in MyRecord(leaf.beneficiary).bitmap
             THEN "claimed"
        ELSE IF none THEN "nothing"
        ELSE "none"

FundingReason(leaf, settled) ==
    IF tree.instant_refunded THEN "refunded"
    ELSE IF settled /\ tree.cancelled_at < InForm(leaf).cliff_time THEN "never started"
    ELSE IF settled THEN "settled"
    ELSE IF Cancelled /\ StreamClaimable(leaf) = 0 THEN "cancelled"
    ELSE IF FundingRemaining(leaf.beneficiary) > 0 THEN "not funded"
    ELSE "none"

(* What stands on it; it can be pressed when there is neither reason. *)
ClaimLabel(leaf, settled) ==
    LET none == StreamClaimable(leaf) = 0
    IN  IF tree.paused THEN "paused"
        ELSE IF FundingReason(leaf, settled) # "none" THEN FundingReason(leaf, settled)
        ELSE IF none /\ ~Cancelled /\ now < InForm(leaf).cliff_time THEN "wait"
        ELSE IF none /\ ~LeafIsReleased(leaf)
                /\ leaf.milestone_idx \notin MyRecord(leaf.beneficiary).bitmap THEN "not released"
        ELSE IF (Cancelled /\ ~none) \/ WithdrawReason(leaf) = "none" THEN "claim"
        ELSE WithdrawReason(leaf)

ClaimEnabled(leaf, settled) ==
    WithdrawReason(leaf) = "none" /\ FundingReason(leaf, settled) = "none"

(* The panel of a campaign's recipient, and its button for the leaf that   *)
(* is chosen.                                                              *)
PanelShown(viewer) ==
    /\ ~IsSingleLeaf /\ IsRecipient(viewer)
    /\ ~tree.instant_refunded
    /\ Cancelled => RecipientClaimable(viewer) > 0
    /\ FundingRemaining(viewer) = 0

LeafLabel(leaf) ==
    IF LeafFullyClaimed(leaf) THEN "claimed"
    ELSE IF tree.paused THEN "paused"
    ELSE IF now < leaf.cliff_time THEN "wait"
    ELSE IF ~LeafIsReleased(leaf) THEN "not released"
    ELSE IF LeafClaimable(leaf) = 0 THEN "nothing"
    ELSE "claim"

(* The label above everything: of a recipient's share, or of the whole. *)
StatusLabel(viewer, settled) ==
    LET shared  == ~IsSingleLeaf /\ IsRecipient(viewer)
        supply  == IF shared THEN Total(LeavesOf(viewer)) ELSE tree.total_supply
        claimed == IF shared THEN Earlier(MyRecord(viewer).claimed, supply)
                             ELSE TotalClaimed(viewer)
    IN  IF tree.instant_refunded THEN "Refunded"
        ELSE IF tree.paused THEN "Paused"
        ELSE IF settled THEN "Settled"
        ELSE IF Cancelled THEN "Cancelled"
        ELSE IF supply > 0 /\ claimed >= supply THEN "Claimed"
        ELSE "Active"

(* The milestones the page shows; to who has no leaf of a campaign, as     *)
(* many as it has leaves.                                                  *)
MilestoneEntries(viewer) ==
    IF IsSingleLeaf THEN {<<leaf, leaf.milestone_idx>> : leaf \in tree.root}
    ELSE IF IsRecipient(viewer)
    THEN {<<leaf, leaf.milestone_idx>> : leaf \in {l \in LeavesOf(viewer) : l.release_type = Milestone}}
    ELSE {<<i, i>> : i \in 0 .. tree.leaf_count - 1}

ReleasedLabel(viewer) ==
    LET released == {e \in MilestoneEntries(viewer) : e[2] \in tree.released}
    IN  IF released = {} THEN "none"
        ELSE IF released = MilestoneEntries(viewer) THEN "all" ELSE "some"
=============================================================================
