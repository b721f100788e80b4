-------------------------- MODULE OfferProperties ---------------------------
(***************************************************************************)
(* What the page and the routes say of a campaign against what the program *)
(* does with it, over the states of Campaign.                              *)
(***************************************************************************)
EXTENDS Lists, DocumentedClaims

(* A milestone that was released before its cliff: the program pays it, to *)
(* the page it is still locked.                                            *)
ReleasedEarly(leaf) ==
    leaf.release_type = Milestone /\ LeafIsReleased(leaf) /\ Effective < leaf.cliff_time

(* The page of a stream cuts its times to the minute and so is ahead of    *)
(* the program, by less than a minute: what it shows has vested, or will   *)
(* within the minute.  It is right to the second when the times are whole  *)
(* minutes, and of a milestone, which is all or nothing.                   *)
ToTheSecond(leaf) == leaf.release_type = Milestone \/ InForm(leaf) = leaf

OutstandingSoon(leaf) ==
    SatSub(Vested(leaf, Effective + Minute - 1), paid[EntitlementOf(leaf)])

(* A button that is shown can be pressed and leaves the tree as the page   *)
(* then has it, and who may do a thing has a button for it: but the page   *)
(* asks for both authorities before it settles a stream, offers a sweep    *)
(* also when there is nothing left, and hides the release of a milestone   *)
(* once the campaign is cancelled.  The dialog confirms, in each mode that  *)
(* it offers, what the mode is called and returns to the creator what it   *)
(* says; a creator who may refund but not cancel is offered the grace      *)
(* period in vain.  Every milestone of a campaign is on one page of the    *)
(* panel, and its button is alive while the program would release it.      *)
ControlsAgree ==
    \A viewer \in Keys \ disturbed :
        /\ PauseOffered(viewer) <=> ENABLED (PauseCampaign(viewer) \/ UnpauseCampaign(viewer))
        /\ PauseOffered(viewer) => ENABLED HandleToggle(viewer)
        /\ CancelOffered(viewer) <=> ENABLED CancelCampaign(viewer)
        /\ CancelOffered(viewer) =>
             ENABLED (HandleConfirm(viewer, "grace", None) /\ tree' = AfterCancel)
        /\ RefundOffered(viewer) /\ Balance > 0 =>
             ENABLED ( /\ HandleConfirm(viewer, "refund", None)
                       /\ tree' = AfterInstantRefund
                       /\ Balance + tree.total_claimed = tree.total_supply /\ ~rotated =>
                            returned' = returned
                                        + DialogFigures(viewer, "refund", None).toCreator )
        /\ DialogOffered(viewer) =>
             /\ "refund" \in EffectiveModes(viewer) <=> RefundOffered(viewer)
             /\ "instant" \in EffectiveModes(viewer) =>
                  SettleOffered(viewer) \/ RefundOffered(viewer)
        /\ RefundOffered(viewer) /\ Balance > 0 <=> ENABLED InstantRefundCampaign(viewer)
        /\ ENABLED HandleSweep(viewer) <=> ENABLED WithdrawUnvested(viewer)
        /\ CloseOffered(viewer) => ENABLED HandleClose(viewer)
        /\ CloseOffered(viewer) <=> viewer \in Beneficiaries /\ ENABLED CloseClaimRecord(viewer)
        /\ FundOffered(viewer) => ENABLED FundExisting(viewer)
        /\ RotateOffered(viewer) =>
             \A args \in RootArgs : args.root # tree.root => ENABLED UpdateRoot(viewer, args)
        /\ \A leaf \in tree.root : IsSingleLeaf /\ ReleaseOffered(viewer, leaf) =>
             /\ ENABLED HandleTrigger(viewer, leaf)
             /\ leaf.milestone_idx = 0 =>
                  ENABLED (HandleTrigger(viewer, leaf) /\ tree' = AfterRelease(0))
        /\ PanelMilestones(viewer) # {} =>
             LET next == NextUnreleased(viewer)
             IN  /\ \A idx \in MilestoneIndices :
                      ENABLED HandleRelease(viewer, idx) <=> ENABLED SetMilestoneReleased(viewer, idx)
                 /\ next # None => ENABLED HandleRelease(viewer, next)
                 /\ next = None <=> ~\E idx \in MilestoneIndices : ENABLED HandleRelease(viewer, idx)
                 /\ ENABLED HandleRelease(viewer, 0) =>
                      ENABLED (HandleRelease(viewer, 0) /\ tree' = AfterRelease(0))
                 /\ \A size \in 1 .. 2, idx \in MilestoneIndices :
                      \E page \in 0 .. TotalPages(viewer, size) - 1 :
                        /\ idx \in PageItems(viewer, page, size)
                        /\ Cardinality(PageItems(viewer, page, size)) <= size
        /\ SettleOffered(viewer) /\ ~rotated /\ FullyBacked =>
             \A leaf \in tree.root : Undisturbed(leaf) /\ ~ReleasedEarly(leaf) =>
               ENABLED ( /\ HandleConfirm(viewer, "instant", leaf)
                         /\ ToTheSecond(leaf) =>
                              tree' \in {NoTree, AfterCancelStream(viewer, leaf)} )

(* The same of the guards alone: a button, or a route, is there exactly    *)
(* when the program's conditions on the signer and the tree are met; and   *)
(* what is missing still fits the tree.                                    *)
MayRefund(signer) ==
    /\ signer = Creator
    /\ tree.cancellable /\ ~Cancelled /\ ~FullyPaid
    /\ tree.leaf_count > 1
    /\ NothingVestedYet

ControlsFit ==
    /\ \A viewer \in Keys \ disturbed :
         /\ PauseOffered(viewer) <=> MayPause(viewer)
         /\ CancelOffered(viewer) <=> MayCancel(viewer) /\ ~FullyPaid
         /\ RotateOffered(viewer) => MayCancel(viewer)
         /\ RefundOffered(viewer) <=> MayRefund(viewer)
         /\ FundOffered(viewer) => Balance + FundingRemaining(viewer) <= tree.total_supply
         /\ CloseOffered(viewer) <=>
              /\ viewer \in Beneficiaries /\ record[viewer] # NoRecord
              /\ Settled(record[viewer]) \/ GraceOver
    /\ \A wallet \in Keys :
         /\ SweepOffered(wallet) /\ Balance > 0 <=>
              wallet = Creator /\ GraceOver /\ Balance > 0
         /\ SweepPrepared(wallet) <=> wallet = Creator /\ GraceOver
         /\ CancelPrepared(wallet) <=> MayCancel(wallet) /\ ~FullyPaid
         /\ RefundPrepared(wallet) /\ ~FullyPaid <=> MayRefund(wallet)
         /\ \A idx \in MilestoneIdx : ReleasePrepared(wallet, idx) =>
              wallet = Creator /\ ~tree.instant_refunded /\ idx \notin tree.released

(* A route prepares what the program then takes, and for the asking of     *)
(* whoever may.                                                            *)
RoutesAgree ==
    \A wallet \in Keys :
        /\ ENABLED CancelTx(wallet) <=> ENABLED CancelCampaign(wallet)
        /\ CancelPrepared(wallet) => ENABLED CancelTx(wallet)
        /\ ENABLED RefundTx(wallet) <=> ENABLED InstantRefundCampaign(wallet)
        /\ RefundPrepared(wallet) /\ Balance > 0 /\ ~FullyPaid => ENABLED RefundTx(wallet)
        /\ ~tree.native => (ENABLED SweepTx(wallet) <=> ENABLED WithdrawUnvested(wallet))
        /\ SettlePrepared(wallet) /\ ~FullyPaid /\ ~rotated /\ FullyBacked /\ ~tree.native =>
             \A leaf \in tree.root : Undisturbed(leaf) => ENABLED SettleTx(wallet, leaf)
        /\ \A idx \in MilestoneIdx :
             ReleasePrepared(wallet, idx) => ENABLED ReleaseTx(wallet, idx)

(* The beneficiary claimed no leaf before the earlier ones were paid in    *)
(* full.                                                                   *)
InOrder(leaf) ==
    \A l1, l2 \in LeavesOf(leaf.beneficiary) :
        l1.leaf_index < l2.leaf_index /\ paid[EntitlementOf(l2)] > 0 =>
            paid[EntitlementOf(l1)] = l1.amount

(* What the claim panel shows is what the beneficiary gets: the figure of  *)
(* a campaign is what is left of all leaves together, in whichever order   *)
(* they were paid; and for who takes the leaves in order that of a leaf    *)
(* what is left of it.  That of a stream is never less than what is left,  *)
(* nor more than what will be within the minute.                           *)
FiguresAgree ==
    \A leaf \in tree.root :
        ~(\E l \in LeavesOf(leaf.beneficiary) : ReleasedEarly(l)) =>
            /\ ~IsSingleLeaf =>
                 RecipientClaimable(leaf.beneficiary) =
                   MapThenSumSet(Outstanding, LeavesOf(leaf.beneficiary))
            /\ IsStreamLeaf(leaf) =>
                 /\ StreamClaimable(leaf) \in Outstanding(leaf) .. OutstandingSoon(leaf)
                 /\ ToTheSecond(leaf) => StreamClaimable(leaf) = Outstanding(leaf)
            /\ ~IsSingleLeaf /\ InOrder(leaf) => LeafClaimable(leaf) = Outstanding(leaf)

(* And the button pays the amount that stands on it and is there whenever  *)
(* the program would pay and the campaign is funded; that of a stream may  *)
(* be there before the program pays, within the minute, and by as much     *)
(* show more than it pays.                                                 *)
ClaimsAgree ==
    \A leaf \in tree.root :
        ~(\E l \in LeavesOf(leaf.beneficiary) : ReleasedEarly(l))
          /\ Outstanding(leaf) <= Balance =>
            /\ IsStreamLeaf(leaf) =>
                 /\ ENABLED Withdraw(leaf) /\ FundingRemaining(leaf.beneficiary) = 0 =>
                      WithdrawOffered(leaf)
                 /\ WithdrawOffered(leaf) =>
                      /\ FundingRemaining(leaf.beneficiary) = 0 /\ OutstandingSoon(leaf) > 0
                      /\ Outstanding(leaf) > 0 \/ ToTheSecond(leaf) =>
                           ENABLED ( /\ HandleWithdraw(leaf)
                                     /\ ToTheSecond(leaf) => tree' \in {NoTree, AfterWithdraw(leaf)} )
            /\ ~IsSingleLeaf /\ InOrder(leaf) =>
                 /\ ClaimOffered(leaf) <=>
                      ENABLED Claim(leaf) /\ FundingRemaining(leaf.beneficiary) = 0
                 /\ ClaimOffered(leaf) => ENABLED HandleClaim(leaf)

(* A milestone is due when its cliff has passed; the rows know no release. *)
DueLeaf(leaf) == LeafIsReleased(leaf) /\ ~ReleasedEarly(leaf)

(* What the lists say of a recipient is what the program still pays: a row *)
(* is claimed when every leaf is, waits for a claim when one would be paid *)
(* and never of a stream that was settled, and the badge counts nothing    *)
(* that the list does not; the row this browser made of a stream says the  *)
(* same.  The portfolio, which takes the whole sum off every leaf, is      *)
(* right for who has one: what is claimable, what will ever be, and that   *)
(* nothing vests before the next unlock it names.                          *)
RecipientListsAgree ==
    \A viewer \in Beneficiaries, settled \in Settlements :
        LET mine == LeavesOf(viewer)
            row  == CampaignRow(viewer, settled)
            due  == MapThenSumSet(Outstanding, mine)
        IN  /\ ReceivingSector(RecipientStatus(row)) # "none"
            /\ BadgeCount(viewer, settled) > 0 => NeedsAction(viewer, settled)
            /\ Cardinality(mine) = 1 => (NeedsAction(viewer, settled) <=> BadgeCount(viewer, settled) > 0)
            /\ mine # {} /\ (\A leaf \in mine : DueLeaf(leaf)) =>
                 /\ RecipientStatus(row) = "Claimed" <=>
                      \A leaf \in mine : IF IsSingleLeaf THEN FullyPaid
                                          ELSE paid[EntitlementOf(leaf)] = leaf.amount
                 /\ RowClaimable(row) = due
                 /\ RecipientStatus(row) = "Claimable" <=> ~settled /\ ~tree.paused /\ due > 0
            /\ \A leaf \in tree.root :
                 IsSingleLeaf /\ viewer = leaf.beneficiary /\ ~settled =>
                   RecipientStatus(LocalRow(leaf)) = RecipientStatus(row)
            /\ \A leaf \in mine : mine = {leaf} /\ ~ReleasedEarly(leaf) =>
                 LET progress == Progress(leaf, settled)
                     sums     == Portfolio(viewer, settled)
                     Paid(t)  == Vested(leaf, EffectiveNow(tree.cancelled_at, t))
                 IN  /\ progress.claimable = (IF settled THEN 0 ELSE Outstanding(leaf))
                     /\ ListedClaimed(viewer) <= ListedAllocation(viewer)
                     /\ sums.claimed <= sums.vested /\ sums.vested <= sums.entitled
                     /\ Cancelled /\ LeafIsReleased(leaf) =>
                          PortfolioValue(viewer, settled) = (IF settled THEN 0 ELSE Outstanding(leaf))
                     /\ GraceAction(leaf, settled) <=>
                          Cancelled /\ ~tree.instant_refunded /\ progress.claimable > 0
                     /\ \A t \in now .. MaxTime :
                          progress.next = None \/ t < progress.next => Paid(t) = Paid(now)

(* And of a sender: the grace period it shows is the time after which the  *)
(* creator may take the rest and until which the banner says otherwise,    *)
(* the value locked covers what every leaf would be paid, the figures of   *)
(* the recipients add up to the campaign's, and, once the first leaf has   *)
(* started and every milestone is due, what the curve reads now is what    *)
(* was paid and what would be.                                             *)
SenderListsAgree ==
    /\ \A settled \in Settlements, viewer \in Keys :
         /\ CreatedSector(SenderStatus(settled)) # "none"
         /\ Banner(viewer, settled) = "withdraw" /\ Balance > 0 <=>
              ENABLED WithdrawUnvested(viewer)
         /\ Banner(viewer, settled) = "withdraw" =>
              SenderStatus(settled) = "Grace Period" /\ GraceRemaining = 0
         /\ Banner(viewer, settled) = "grace" => GraceRemaining > 0
         /\ Banner(viewer, settled) = "not funded" <=> FundOffered(viewer)
         /\ ~Cancelled \/ tree.instant_refunded \/ settled =>
              LockedValue(settled) <= Balance + FundingRemaining(Creator)
         /\ LockedValue(settled) >=
              MapThenSumSet(LAMBDA leaf : IF settled THEN 0 ELSE Outstanding(leaf), tree.root)
    /\ tree.total_claimed =
         MapThenSumSet(LAMBDA b : Recipients[b].claimedAmount, DOMAIN Recipients)
    /\ PercentClaimed = 10000 <=> tree.total_supply > 0 /\ FullyPaid
    /\ MilestoneIndices \subseteq tree.released <=>
         \A leaf \in tree.root : LeafIsReleased(leaf)
    /\ \A t \in DOMAIN VestingCurve :
         t + 1 \in DOMAIN VestingCurve => VestingCurve[t] <= VestingCurve[t + 1]
    /\ (\A leaf \in tree.root : DueLeaf(leaf))
         /\ ~IsSingleLeaf /\ Effective > Min(DOMAIN VestingCurve) =>
           CampaignTotalVested =
             MapThenSumSet(LAMBDA leaf : paid[EntitlementOf(leaf)] + Outstanding(leaf), tree.root)

(* The page of a stream: its chart at this moment is what it shows as      *)
(* vested, unless all of it falls into one minute, and the dialog that     *)
(* settles it shares out the whole supply and names what each side gets.   *)
StreamPageAgrees ==
    \A leaf \in tree.root : IsStreamLeaf(leaf) =>
        /\ /\ leaf.release_type # Milestone /\ Effective > InForm(leaf).start_time
           /\ leaf.release_type = Linear => InForm(leaf).cliff_time < InForm(leaf).end_time
           => ChartedNow(leaf) = VestedShown(leaf)
        /\ ~Cancelled /\ ~ReleasedEarly(leaf)
             /\ tree.total_claimed + Balance = tree.total_supply =>
               /\ UnclaimedVested(Creator, leaf) \in Outstanding(leaf) .. OutstandingSoon(leaf)
               /\ LET figures == DialogFigures(Creator, "instant", leaf)
                  IN  figures.toRecipients + figures.toCreator = tree.total_supply
               /\ ENABLED CancelStream(Creator, leaf) /\ ToTheSecond(leaf) =>
                    ENABLED ( /\ CancelStream(Creator, leaf)
                              /\ paidOut' = paidOut + UnclaimedVested(Creator, leaf)
                              /\ returned' = returned + ReturnedToCreator(leaf)
                                               + (IF tree' = NoTree THEN Rent ELSE 0) )

(* That a milestone would be paid is said when it would and time has       *)
(* reached its unlock: of a campaign no sooner, on the page of a stream    *)
(* less than a minute before.                                              *)
UnlockSaid(leaf, said, time) ==
    LET due == Outstanding(leaf) > 0
    IN  /\ due /\ time >= leaf.cliff_time => said
        /\ said => due /\ time + Minute > leaf.cliff_time
        /\ said /\ ~IsSingleLeaf => time >= leaf.cliff_time

(* A milestone's card: so say its status, the line of the claim and, of a  *)
(* stream that was not settled, the badge; what they call claimed has been.*)
MilestonesAgree ==
    \A leaf \in tree.root : leaf.release_type = Milestone =>
        LET status  == MilestoneStatus(leaf.beneficiary, leaf)
            done    == paid[EntitlementOf(leaf)] = leaf.amount
        IN  /\ UnlockSaid(leaf, status = "Ready To Claim", Effective)
            /\ status = "Claimed" <=> done
            /\ UnlockSaid(leaf, MilestoneClaim(leaf) = "available", Effective)
            /\ MilestoneClaim(leaf) = "opens" => ReleasedEarly(leaf) /\ ~done
            /\ IsSingleLeaf /\ Balance > 0 =>
                 /\ UnlockSaid(leaf, MilestoneBadge(leaf) = "ready", now)
                 /\ MilestoneBadge(leaf) = "claimed" <=> done

(* In whichever order the answers come, the form of a stream has the       *)
(* stream's own schedule once one of them or this browser knows it, but    *)
(* that who has no leaf of it is shown the one of the link; and it is only *)
(* asked for when none does.                                               *)
ScheduleAgrees ==
    \A leaf \in tree.root, stored \in {None} \cup tree.root, link \in {None} \cup Leaves,
       order \in {<<>>, <<"detail">>}
                   \cup UNION {{<<p>>, <<p, "detail">>, <<"detail", p>>} : p \in {"proof", "refused"}} :
        IsSingleLeaf =>
            LET Form[i \in {0} \cup DOMAIN order] ==
                  LoadSchedule(IF i = 0 THEN [source |-> "none", leaf |-> None] ELSE Form[i - 1],
                               {order[j] : j \in 1 .. i}, stored, link, leaf)
                form    == Form[Cardinality(DOMAIN order)]
                answers == {order[j] : j \in DOMAIN order}
            IN  /\ form.source \in {"api", "local"} => form.leaf = leaf
                /\ form.source = "none" => stored = None /\ answers \subseteq {"detail"}
                /\ form.source = "manual" =>
                     stored = None /\ link = None /\ answers = {"refused"}
                /\ form.source = "url" => "refused" \in answers

(* The button of a stream says claim when it can be pressed, which is when *)
(* a withdrawal is sent; what it says instead is so: the wait ends when    *)
(* something vests, nothing is left to be paid where it says so, and a     *)
(* campaign that it calls settled or cancelled is.  The label above is the *)
(* one the lists have, and counts as claimed a share that is.              *)
LabelsAgree ==
    \A settled \in Settlements :
        /\ \A leaf \in tree.root : IsStreamLeaf(leaf) =>
             LET label == ClaimLabel(leaf, settled)
             IN  /\ label = "claim" <=> ClaimEnabled(leaf, settled)
                 /\ label = "claim" <=> WithdrawOffered(leaf) /\ ~settled
                 /\ label = "wait" => VestedShown(leaf) = 0 /\ Effective < leaf.cliff_time
                 /\ label \in {"locked", "not released", "claimed", "nothing", "cancelled"} =>
                      Outstanding(leaf) = 0 \/ ReleasedEarly(leaf)
                 /\ label \in {"claimed", "nothing"} =>
                      FullyPaid \/ leaf.release_type = Linear
                 /\ label = "never started" => Vested(leaf, tree.cancelled_at) = 0
        /\ \A leaf \in tree.root : PanelShown(leaf.beneficiary) =>
             /\ LeafLabel(leaf) = "claim" <=> ClaimOffered(leaf)
             /\ LeafLabel(leaf) = "claimed" /\ InOrder(leaf) =>
                  paid[EntitlementOf(leaf)] = leaf.amount
             /\ LeafLabel(leaf) \in {"wait", "not released", "nothing"} /\ InOrder(leaf) =>
                  Outstanding(leaf) = 0 \/ ReleasedEarly(leaf)
        /\ \A viewer \in Keys :
             LET label  == StatusLabel(viewer, settled)
                 shared == ~IsSingleLeaf /\ IsRecipient(viewer)
             IN  IF ~shared
                 THEN /\ label # "Cancelled" => SenderStatus(settled) = label
                      /\ label = "Cancelled" <=> SenderStatus(settled) = "Grace Period"
                 ELSE label \in {"Active", "Claimed"} =>
                        (label = "Claimed" <=>
                           RecipientStatus(CampaignRow(viewer, settled)) = "Claimed")
        /\ \A viewer \in Beneficiaries :
             \A leaf \in LeavesOf(viewer) : leaf.release_type = Milestone =>
                ReleasedLabel(viewer) = "all" <=>
                  \A l \in LeavesOf(viewer) : LeafIsReleased(l)

(* The card and the line of a wallet's only leaf of a campaign: both call  *)
(* it claimable when it is, but for one that was cancelled, of which the   *)
(* card says only that.  A card counts down, and a line tells of a start,  *)
(* an end or an unlock, only to what is still to come; no line says that   *)
(* an unlock was reached, for the leaf can be claimed then.                *)
CardsAgree ==
    \A leaf \in tree.root, settled \in Settlements :
        LeavesOf(leaf.beneficiary) = {leaf} /\ DueLeaf(leaf) =>
            LET card == CardStatus(leaf, settled)
                row  == RecipientStatus(LeafRow(leaf, settled))
                text == ReleaseText(leaf, settled)
            IN  /\ ~Cancelled => (card = "Active" /\ row = "Scheduled") \/ card = row
                /\ Cancelled /\ ~settled => (card = "Claimed" <=> row = "Claimed")
                /\ card = "Active" => Outstanding(leaf) = 0
                /\ CardUnlock(leaf) = "fully vested" <=>
                     \A t \in now .. MaxTime + 2 :
                       Vested(leaf, EffectiveNow(tree.cancelled_at, t)) = Vested(leaf, Effective)
                /\ text # "reached"
                /\ text \in {"starts", "unlocks"} =>
                     Effective < leaf.cliff_time /\ ScheduledAmount(leaf) = 0
                /\ text = "ends" => ScheduledAmount(leaf) < leaf.amount /\ now < leaf.end_time

(* The dashboard's row of a campaign: whichever leaf it has the status of, *)
(* it waits for a claim only where the badge and the list do, and of one   *)
(* leaf always then; the notice is for the campaigns of the list that are  *)
(* in their grace period; and a recipient is told that there is something  *)
(* to claim when the portfolio says how much.                              *)
DashboardAgrees ==
    \A viewer \in Keys, settled \in Settlements :
        LET notice == IF NeedsAttention(viewer, settled) THEN 1 ELSE 0
            badge  == BadgeCount(viewer, settled)
        IN  /\ \A row \in DashboardRows(viewer, settled) :
                 LET counts == DashboardCounts(row)
                 IN  /\ counts.claimable = 1 => NeedsAction(viewer, settled)
                     /\ Cardinality(LeavesOf(viewer)) = 1 => badge = counts.claimable + notice
                     /\ row.sender = "Grace Period" <=> notice = 1
                     /\ counts.sender = 1 <=> viewer = Creator
                     /\ counts.recipient = 1 <=> IsRecipient(viewer)
            /\ ~settled /\ ~tree.paused /\ (\A leaf \in LeavesOf(viewer) : DueLeaf(leaf)) =>
                 Summary(viewer, settled).claimableCampaigns = badge - notice

(* The list has a campaign when either source knows it, under the tabs of  *)
(* the wallet's roles, and counts as waiting the rows that it then shows;  *)
(* the browser's row of a stream, before the routes have one, is the row   *)
(* they will have; and nobody is sent to claim from a stream of which      *)
(* either source knows that it was settled.                                *)
ListedRowAgrees ==
    \A viewer \in Keys, src \in Sources :
        LET row     == ListedRow(viewer, src)
            settled == src.settled \/ src.settledHere
            known   == src.indexed \/ src.kept
        IN  /\ row # None <=> known /\ (viewer = Creator \/ IsRecipient(viewer))
            /\ InTab(viewer, "sender", src) <=> known /\ viewer = Creator
            /\ InTab(viewer, "recipient", src) <=> known /\ IsRecipient(viewer)
            /\ src.indexed /\ src.settled = settled =>
                 (InTab(viewer, "action", src) <=> NeedsAction(viewer, settled))
            /\ src.indexed /\ src.kept /\ ~settled =>
                 row = ListedRow(viewer, [src EXCEPT !.indexed = FALSE])
            /\ src.indexed /\ settled /\ IsRecipient(viewer) =>
                 row.status \in {"Settled", "Claimed"}

(* A stream of this browser, read by one wallet and shown to another when  *)
(* the chain cannot be read: the row that was kept is the row that was     *)
(* read, but for what a wallet claimed that was not looking, and the       *)
(* sender's says grace period when the routes' does.                       *)
KeptStreamsAgree ==
    \A leaf \in tree.root, reader, viewer \in Keys, settled \in Settlements :
        LET Kept(stored) == SaveSnapshot(SaveSchedule(stored, leaf), ReadStream(reader, leaf))
            kept         == Kept(None)
        IN  /\ Kept(leaf) = kept /\ Kept(kept) = kept
            /\ SaveSnapshot(leaf, kept.cached) = kept
            /\ SenderRow(viewer, kept.cached, settled)
                 = SenderRow(viewer, ReadStream(viewer, leaf), settled)
            /\ viewer = Creator =>
                 (SenderRow(viewer, kept.cached, settled).grace <=> GracePeriodVisible(settled))
            /\ IsSingleLeaf /\ viewer = leaf.beneficiary =>
                 LET row == CachedRow(viewer, kept)
                 IN  /\ row.claimed <= LocalRow(leaf).claimed
                     /\ reader = viewer => row = LocalRow(leaf)

(* The simulation of a schedule is what the program would pay by each of   *)
(* its dates, of which there is one at most before the start; its parts    *)
(* are never negative and add up to the whole amount.                      *)
SimulationAgrees ==
    \A leaf \in tree.root, day \in 1 .. 2, month \in 2 .. 3 :
        SimulationAccepts(leaf) =>
            LET rows == Simulated(leaf, day, month)
            IN  /\ \A i \in DOMAIN rows :
                     /\ rows[i].cumulative = Vested(leaf, rows[i].date)
                     /\ rows[i].vested >= 0
                     /\ i > 1 => rows[i - 1].date < rows[i].date /\ rows[i].date > leaf.start_time
                /\ MapThenSumSet(LAMBDA i : rows[i].vested, DOMAIN rows) = leaf.amount

(* A step of the program against the page as it was before: whoever an     *)
(* instruction was accepted from had the button for it, when the campaign  *)
(* was funded, or, of a settlement, with both authorities; a stream whose  *)
(* times are whole minutes pays the amount that stood on the button and in *)
(* the dialog, the creator gets back what the dialog said, and the tree is *)
(* left as the page has it from then on; any other pays no more than was   *)
(* shown, less only by what vests within the minute, and its creator gets  *)
(* no less; and a milestone pays the amount on its card.  That a button    *)
(* which is shown can be pressed is said above.                            *)
PaysWhatIsShown ==
    [][Live /\ ~rotated /\ disturbed = {} =>
         \A leaf \in tree.root : ~ReleasedEarly(leaf) =>
            LET Receives(amount) == paid' = [paid EXCEPT ![EntitlementOf(leaf)] = @ + amount]
            IN  /\ Withdraw(leaf) =>
                     /\ Receives(Outstanding(leaf))
                     /\ StreamClaimable(leaf) \in Outstanding(leaf) .. OutstandingSoon(leaf)
                     /\ ToTheSecond(leaf) =>
                          /\ Receives(StreamClaimable(leaf))
                          /\ tree' \in {NoTree, AfterWithdraw(leaf)}
                     /\ FundingRemaining(leaf.beneficiary) = 0 => WithdrawOffered(leaf)
                /\ \A signer \in Keys : CancelStream(signer, leaf) =>
                     /\ signer = tree.cancel_authority => SettleOffered(signer)
                     /\ Receives(Outstanding(leaf))
                     /\ UnclaimedVested(signer, leaf) \in Outstanding(leaf) .. OutstandingSoon(leaf)
                     /\ ToTheSecond(leaf) =>
                          /\ Receives(UnclaimedVested(signer, leaf))
                          /\ tree' \in {NoTree, AfterCancelStream(signer, leaf)}
                     /\ tree.total_claimed + Balance = tree.total_supply =>
                          LET said == returned + ReturnedToCreator(leaf)
                                        + (IF tree.native THEN Rent ELSE 0)
                          IN  returned' >= said /\ (ToTheSecond(leaf) => returned' = said)
                /\ leaf.release_type = Milestone /\ Claim(leaf) =>
                     Receives(LeafClaimable(leaf))]_vars

ListsAgree ==
    /\ RecipientListsAgree
    /\ ListedRowAgrees
    /\ KeptStreamsAgree
    /\ SimulationAgrees
    /\ SenderListsAgree
    /\ StreamPageAgrees
    /\ MilestonesAgree
    /\ ScheduleAgrees
    /\ LabelsAgree
    /\ DashboardAgrees
    /\ CardsAgree

(* The page, the lists and the routes agree with the program, whatever was *)
(* claimed, paused, released, cancelled, refunded or closed before: none   *)
(* of the buttons is missing and, but for that of a stream in the minute   *)
(* before it vests, none sends a transaction that is bound to fail; the    *)
(* amount on it is, up to what vests in that minute, the amount that       *)
(* arrives; and what the lists add up is what is left to pay.              *)
OffersMatchProgram ==
    Live => /\ ControlsAgree
            /\ ControlsFit
            /\ RoutesAgree
            /\ ~rotated /\ disturbed = {} => FiguresAgree /\ ClaimsAgree /\ ListsAgree
=============================================================================
