--------------------------- MODULE DraftProperties --------------------------
(***************************************************************************)
(* What the pages on which allocations are written promise to those who    *)
(* write them and to those they are written for.                           *)
(***************************************************************************)
EXTENDS Editor, Client, Review

ShownType == [mint : Tokens, amounts : Seq(Nat \cup {None}), times : Seq(Entry) \cup Seq(Row),
              mode : {"single", "bulk"}, stale : BOOLEAN]

FlowType == [step : {"painting", "creating", "funding", "again", "listed"}, mint : Tokens,
             rows : Seq(Allocated), since : Nat, shown : ShownType]

AccountOf(supply) ==
    [mint : Tokens, leaves : Seq(TreeLeaf), total_supply : {supply},
     pools : [Tokens -> {0, supply}], shown : ShownType, pending : BOOLEAN, card : BOOLEAN]

(* The type invariant: pools are empty or hold the supply, and nothing     *)
(* that is on its way is without amount, times or token.                   *)
TypeOK ==
    /\ now \in Nat /\ now >= FirstTime
    /\ kind \in Pages /\ mode \in {"single", "bulk"} /\ mint \in Tokens \cup {None}
    /\ entries \in Seq(Entry) /\ recipient \in Wallets
    /\ csvText = None \/ csvText \in Files[kind]
    /\ csvResult = None \/ csvResult \in ParsedFile
    /\ txState \in [rows : Seq(Allocated), type : {"idle", "ready", "loading", "error",
                                                  "success", "unfunded", "funded"}]
    /\ flow = None \/ flow \in FlowType
    /\ chain = None \/ chain \in AccountOf(chain.total_supply)
    /\ editor = None \/ editor \in PageType
    /\ stored \in Seq(TreeLeaf)

(* Tokens are paid into the pool of the campaign's own mint, and all of    *)
(* them when the page says so, unless another token was selected before    *)
(* "Resume funding" was pressed on the card of the new campaign: then the  *)
(* lamports of a native transfer go where no claim looks for them.         *)
FundedInItsToken ==
    chain # None =>
        /\ \A t \in Tokens : chain.pools[t] > 0 => t = chain.mint \/ (t = Native /\ chain.card)
        /\ txState.type \in {"funded", "success"} /\ ~chain.card =>
             chain.pools[chain.mint] = chain.total_supply

(* What the chain holds is what was written, in the token that stood       *)
(* beside it: not what a field, a file or a token was before or after.     *)
(* The one exception is a file that the milestone page read for another    *)
(* token.  The editor sends every amount that nobody touched as it is on   *)
(* the chain, unless its leaves are those of before a rotation or the      *)
(* mint's decimals came after the table was filled.                        *)
WrittenIsSent ==
    /\ chain # None /\ editor = None /\ ~(kind = Milestone /\ chain.shown.stale) =>
         /\ chain.mint = chain.shown.mint
         /\ DOMAIN chain.leaves = DOMAIN chain.shown.amounts
         /\ \A i \in DOMAIN chain.leaves :
              chain.leaves[i].amount * Unit
                = chain.shown.amounts[i] * 10^Decimals[chain.mint]
    /\ editor # None /\ editor.sending # None /\ editor.rotations = 0
         /\ ~editor.sending.late =>
         \A i \in DOMAIN editor.sending.rows : editor.sending.from[i] # None =>
            editor.sending.rows[i].amount = chain.leaves[editor.sending.from[i]].amount

(* A leaf with a time that the program refuses in every claim: the unlock  *)
(* time of a milestone that was typed in is not checked at all, and a      *)
(* linear entry without a start is checked with the time of before.        *)
Unchecked(i) ==
    /\ editor = None \/ editor.rotations = 0
    /\ chain.shown.mode = "single"
    /\ kind = Milestone \/ (kind = Linear /\ chain.shown.times[i].start = None)

(* Every other leaf of a campaign, new or rotated, can be claimed: its     *)
(* times are in order, nobody has a milestone twice or more leaves than a  *)
(* record has slots for, and the supply is what they add up to, and enough *)
(* after a rotation.                                                       *)
EveryLeafCanBePaid ==
    chain # None =>
        /\ \A i \in DOMAIN chain.leaves : WellFormed(chain.leaves[i]) \/ Unchecked(i)
        /\ PrepareAccepts([i \in DOMAIN chain.leaves |->
             IF WellFormed(chain.leaves[i]) THEN chain.leaves[i]
             ELSE [chain.leaves[i] EXCEPT !.start_time = 0, !.cliff_time = 0, !.end_time = 0]])
        /\ IF editor = None \/ editor.rotations = 0
           THEN TotalOf(chain.leaves) = chain.total_supply
           ELSE TotalOf(chain.leaves) <= chain.total_supply

(* What the library prepares of some rows is what the pages would, and of  *)
(* one row what the page of a stream posts.                                *)
PreparedAlike(rows) ==
    LET client == PrepareCampaign(rows)
        page   == Prepared(rows)
    IN  /\ client.leaves = page.leaves /\ client.leaf_count = Len(page.leaves)
        /\ client.total_supply = page.total_supply
        /\ client.min_cliff_time = page.min_cliff_time
        /\ Len(rows) = 1 => StreamPayload(rows[1]) = client

(* What the program takes the server's schemas take too, so that no        *)
(* campaign is on the chain that its row cannot follow.                    *)
NoRowRefused(rows) ==
    LET client == PrepareCampaign(rows)
    IN  /\ CreateAccepts(Prepared(rows)) => CampaignRequestValid(client)
        /\ Len(rows) = 1 /\ CreateStreamAccepts(rows[1]) =>
              CampaignRequestValid(StreamPayload(rows[1]))
        /\ PrepareAccepts(rows) /\ UpdateAccepts(Prepared(rows), <<>>) =>
              RootVersionRequestValid(PrepareRootRotation(rows))

(* Rows, or a file with all of them twice, pass the import without an      *)
(* error when the prepare route takes them, and only then, but for doubled *)
(* milestones, which the import lets through.                              *)
ImportFitsPrepare(rows) ==
    \A file \in {rows, rows \o rows} :
        LET Which(row) == <<row.beneficiary, row.release_type, row.milestone_idx>>
            doubled == \E i, j \in DOMAIN file :
                          /\ i # j /\ Which(file[i]) = Which(file[j])
                          /\ file[i].release_type = Milestone
        IN  PrepareAccepts(file) <=> Imported(file).errors = 0 /\ ~doubled

(* Of every tree that a page or the prepare route builds, the program and  *)
(* the server accept exactly the proofs that the builder makes; the        *)
(* builder of the pages and that of the route, which are written twice,    *)
(* make the same tree of the same rows; and what one of the server's       *)
(* routes or the program takes of them the others do not refuse.           *)
ProofsAreExact ==
    LET Sound(rows) == /\ Exact(Prepared(rows).leaves) /\ Agrees(rows)
                       /\ PreparedAlike(rows) /\ NoRowRefused(rows)
                       /\ ImportFitsPrepare(rows)
    IN  /\ flow # None /\ flow.step = "creating" => Sound(flow.rows)
        /\ editor # None /\ editor.sending # None /\ Buildable(editor.sending.rows) =>
             Sound(editor.sending.rows)
-----------------------------------------------------------------------------
(* What the rounding of n entries and of a balance can come to. *)
RoundOff(n) == (2 * n + 1) * Slip

(* Who types a campaign in sees the number of transactions it takes and    *)
(* the sum that will be paid, up to rounding.  Whose balance is not known, *)
(* or more than the sum, may submit, and whoever has less may not, as long *)
(* as what was rounded off is less than the smallest amount; whoever has   *)
(* the sum and no more is sure to be let through with one entry only: of   *)
(* several, what was rounded may add up to more.                           *)
EntriesAreSummed ==
    mode = "single" /\ mint # None /\ EntriesFit(kind, entries, Decimals[mint], now) =>
        LET rows == RowsOf(kind, entries, recipient, Decimals[mint], now)
            sum  == Written(TotalOf(rows), Decimals[mint])
            off  == RoundOff(Len(rows))
        IN  /\ GasFee = (IF Len(rows) = 1 THEN 1 ELSE 2)
            /\ CanSubmit(None) <=> ~Busy
            /\ (sum + 1) * Grain + off <= Largest =>
                 /\ ShownDeposit <= sum * Grain + off /\ sum * Grain <= ShownDeposit + off
                 /\ Len(rows) = 1 => ShownDeposit = Number(sum) /\ (CanSubmit(sum) <=> ~Busy)
                 /\ off < Grain => /\ CanSubmit(sum + 1) <=> ~Busy
                                   /\ sum > 0 => ~CanSubmit(sum - 1)

(* A file that is ready to be sent has passed the sections before.  The    *)
(* amounts in its table are those of its leaves, unless the milestone page *)
(* read it for another token; the table and the rows it leaves out are all *)
(* of them; the sums agree, with decimals cut off; and whoever has the     *)
(* whole sum may submit: it was rounded as the balance is.                 *)
FileIsSummed ==
    mode = "bulk" /\ txState.type = "ready" =>
        LET leaves == ReviewedLeaves
            sum    == Written(TotalOf(leaves), Decimals[mint])
        IN  /\ StepStates = <<"done", "done", "done", "active">> /\ Banner = "no errors"
            /\ Len(PreviewLines) + MoreLines = Len(leaves)
            /\ \A i \in DOMAIN PreviewLines :
                 /\ PreviewLines[i].beneficiary = leaves[i].beneficiary
                 /\ PreviewLines[i].amount = Written(leaves[i].amount, Decimals[mint])
                      \/ (kind = Milestone /\ csvResult.mint # mint)
            /\ ShownDeposit = CampaignSummary.totalSupply * Grain
            /\ CampaignSummary.totalSupply \in (sum - Place + 1) .. sum
            /\ ReleaseTypeLabel = kind /\ CampaignSummary.counts = <<>>
            /\ CanSubmit(None)
            /\ (sum + 1) * Grain <= Largest =>
                 /\ CanSubmit(sum)
                 /\ RoundOff(1) < Grain =>
                      CanSubmit(sum + 1) /\ (sum > 0 => ~CanSubmit(sum - 1))

(* Nothing of a leaf whose times are in order vests before the earliest    *)
(* time that is shown of a campaign, and everything has by the latest.     *)
(* The sidebar and the section of the file show the same span, but for     *)
(* milestones, whose sidebar begins at a start that does not matter.       *)
SpanIsRight ==
    mode = "bulk" /\ ReviewedLeaves # <<>> /\ editor = None =>
        LET Spans(earliest, latest) ==
                \A i \in DOMAIN ReviewedLeaves : WellFormed(ReviewedLeaves[i]) =>
                    /\ Vested(ReviewedLeaves[i], earliest - 1) = 0
                    /\ Vested(ReviewedLeaves[i], latest) = ReviewedLeaves[i].amount
        IN  /\ Spans(EarliestStart, LatestEnd)
            /\ ScheduleMetrics # None =>
                /\ Spans(ScheduleMetrics.earliest, ScheduleMetrics.latest)
                /\ ScheduleMetrics.latest = LatestEnd
                /\ ScheduleMetrics.earliest >= EarliestStart
                /\ kind # Milestone => ScheduleMetrics.earliest = EarliestStart

(* What a creation page shows and what it makes of it agree, and so do the *)
(* page, the server and the program about the tree.                        *)
ReviewTells == EntriesAreSummed /\ FileIsSummed /\ SpanIsRight

PagesAgree == ProofsAreExact /\ ReviewTells
=============================================================================
