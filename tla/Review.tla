------------------------------- MODULE Review -------------------------------
(***************************************************************************)
(* What a creation page shows of the campaign it is about to make: the     *)
(* table and the summaries of a CSV file (BulkCsvSection) and the sidebar  *)
(* with its button (FormSummary).  The page keeps none of it; it is put    *)
(* together from parts that change apart from one another: the table and   *)
(* the schedule from the file, the totals from what is ready to be sent,   *)
(* the decimals from the token that is selected.                           *)
(***************************************************************************)
EXTENDS Form

CONSTANTS
    ShownDecimals,      \* decimals of an amount that are shown: 4
    PreviewRows,        \* rows of a file that are shown: 5
    Grain,              \* parts of the smallest amount, to tell numbers apart
    Largest,            \* values in such parts that are considered
    Double,             \* the number of JavaScript that is nearest to a value
    Slip                \* by how much it is off, at most

ASSUME ReviewAssumption ==
    ShownDecimals \in 0 .. DefaultDecimals /\ PreviewRows \in Nat

(* A value becomes a number within the slip, and a number is one already.  *)
ASSUME NumberAssumption ==
    /\ Grain \in Nat \ {0} /\ Largest \in Nat /\ Slip \in Nat
    /\ Double \in [0 .. Largest -> 0 .. Largest]
    /\ \A x \in 0 .. Largest : /\ x <= Double[x] + Slip /\ Double[x] <= x + Slip
                               /\ Double[Double[x]] = Double[x]

(* What one in the last decimal that is shown is worth. *)
Place == 10^(DefaultDecimals - ShownDecimals)

(* Mutant: shown with the decimals of before a token is known. *)
FormatByDefault(raw, decimals) == raw - (raw % Place)

(* formatTokenAmount cuts off the decimals beyond. *)
FormatTokenAmount(raw, decimals) ==
    LET written == Written(raw, decimals) IN written - (written % Place)

-----------------------------------------------------------------------------
(* -------------------------------- a file ------------------------------- *)
(* prepared: what is ready to be sent, or what the card is about. *)
ReviewedLeaves ==
    IF txState.type = "ready" THEN Prepared(txState.rows).leaves
    ELSE IF txState.type \in {"unfunded", "funded"} THEN chain.leaves
    ELSE <<>>

IsValid == csvResult # None /\ csvResult.rows # <<>>

(* Where the four sections stand. *)
StepStates ==
    LET file == IF mint = None THEN "pending" ELSE IF IsValid THEN "done" ELSE "active"
    IN  <<IF mint = None THEN "active" ELSE "done", file,
          IF file # "done" THEN "pending" ELSE IF ReviewedLeaves = <<>> THEN "active" ELSE "done",
          IF ReviewedLeaves = <<>> THEN "pending" ELSE "active">>

(* The banner over the rows: of a file with something to object, red. *)
Banner == IF csvResult = None THEN None ELSE IF IsValid THEN "no errors" ELSE "issues"

(* The first rows, with the amounts as they stand in the file, and below   *)
(* them the sum of what is ready.                                          *)
PreviewLines ==
    [i \in 1 .. Min({PreviewRows, Len(csvResult.rows)}) |->
        [beneficiary   |-> csvResult.rows[i].beneficiary, amount |-> csvText[i].amount,
         release_type  |-> csvResult.rows[i].release_type,
         milestone_idx |-> csvResult.rows[i].milestone_idx]]

MoreLines == Len(csvResult.rows) - Len(PreviewLines)

PreviewTotal == [recipients  |-> Len(ReviewedLeaves),
                 totalSupply |-> FormatTokenAmount(TotalOf(ReviewedLeaves), Decimals[mint])]

(* The schedule under the banner.  Of a milestone only its unlock time     *)
(* counts, and nothing is shown if none has one.                           *)
ScheduleMetrics ==
    LET rows   == csvResult.rows
        starts == {IF kind = Milestone THEN rows[i].cliff_time ELSE rows[i].start_time :
                    i \in DOMAIN rows}
        ends   == {IF kind = Milestone THEN rows[i].cliff_time ELSE rows[i].end_time :
                    i \in DOMAIN rows}
    IN  IF ~IsValid \/ (kind = Milestone /\ starts \cup ends = {0}) THEN None
        ELSE [earliest |-> Min(starts), latest |-> Max(ends)]

(* releaseTypeLabel, releaseMix *)
OfType(type)     == {i \in DOMAIN ReviewedLeaves : ReviewedLeaves[i].release_type = type}
ReleaseTypeLabel ==
    IF \E type \in Pages : OfType(type) = DOMAIN ReviewedLeaves
    THEN CHOOSE type \in Pages : OfType(type) = DOMAIN ReviewedLeaves
    ELSE "mixed"

(* The fourth section; of types that the label names no count is given. *)
CampaignSummary ==
    [recipients  |-> PreviewTotal.recipients, totalSupply |-> PreviewTotal.totalSupply,
     releaseType |-> ReleaseTypeLabel, schedule |-> ScheduleMetrics,
     counts      |-> [type \in {t \in Pages : OfType(t) # {} /\ t # ReleaseTypeLabel} |->
                        Cardinality(OfType(type))]]
-----------------------------------------------------------------------------
(* ------------------------------ the sidebar ---------------------------- *)
(* bulkReview: from the leaves, and of a milestone too its start. *)
EarliestStart == Min({ReviewedLeaves[i].start_time : i \in DOMAIN ReviewedLeaves})
LatestEnd     == Max({ReviewedLeaves[i].end_time : i \in DOMAIN ReviewedLeaves})
BulkReview ==
    [recipients  |-> Len(ReviewedLeaves),
     totalSupply |-> FormatTokenAmount(TotalOf(ReviewedLeaves), Decimals[mint]),
     releaseType |-> ReleaseTypeLabel, earliest |-> EarliestStart, latest |-> LatestEnd]

(* The sidebar reckons in numbers of JavaScript: one that is read, or      *)
(* comes of a sum, is rounded.                                             *)
Number(amount) == Double[amount * Grain]

(* What the page hands to the sidebar: its entries added up one by one, or *)
(* the supply of its leaves divided once.                                  *)
TotalAmount ==
    LET sum[i \in 0 .. Len(entries)] ==
          IF i = 0 THEN 0
          ELSE Double[sum[i - 1] + Number(IF entries[i].amount = None THEN 0 ELSE entries[i].amount)]
    IN  sum[Len(entries)]

Amount ==
    IF mode = "single" THEN TotalAmount
    ELSE IF ReviewedLeaves = <<>> THEN 0
    ELSE Number(Written(TotalOf(ReviewedLeaves), Decimals[mint]))

StreamCount == IF mode = "single" THEN Len(entries) ELSE 1

(* Mutant: entries that become a campaign are taken for single streams. *)
ModeOfPage  == mode
SummaryMode == IF mode = "bulk" \/ Len(entries) > 1 THEN "bulk" ELSE "single"

(* What the sidebar makes of it.  Fees are counted in transactions; the    *)
(* deposit is shown as the number it is, or as the text of the review.     *)
GasFee       == IF SummaryMode = "bulk" THEN 2 ELSE StreamCount
TotalDeposit == IF SummaryMode = "single" THEN Amount * StreamCount ELSE Amount
ShownDeposit == IF mode = "bulk" /\ ReviewedLeaves # <<>> THEN BulkReview.totalSupply * Grain
                ELSE TotalDeposit

InsufficientBalance(balance) ==
    balance # None /\ TotalDeposit > 0 /\ TotalDeposit > Number(balance)

(* What must not be empty, on each page. *)
FilledIn(entry) ==
    /\ entry.amount # None
    /\ kind # Milestone => entry.recipient # None
    /\ kind = Linear => entry.end # None
    /\ kind = Cliff  => entry.cliff # None

CanSubmit(balance) ==
    /\ ~Busy /\ ~InsufficientBalance(balance)
    /\ IF mode = "bulk" THEN txState.type = "ready"
       ELSE mint # None /\ \A i \in DOMAIN entries : FilledIn(entries[i])
=============================================================================
