-------------------------------- MODULE Form --------------------------------
(***************************************************************************)
(* One of the three creation pages (app/(app)/campaign/create: cliff,      *)
(* linear and milestone) from the fields that are filled in, by hand or    *)
(* with a CSV file, to the campaign on the chain.                          *)
(*                                                                         *)
(* Creation has the same pages as one step and looks at what happens to    *)
(* their transactions; here a transaction succeeds or fails at once, and   *)
(* the question is whether the chain gets what the form says.              *)
(***************************************************************************)
EXTENDS Allocation

CONSTANTS
    Wallets,            \* recipients
    Entries,            \* [page -> what may be typed in as one entry]
    Files,              \* [page -> CSV files that may be pasted]
    MaxEntries,         \* bound: entries
    FirstTime, MaxTime  \* bounds: the clock

Pages == {Cliff, Linear, Milestone}

(* One stream, or milestone, as it is typed in; one row of a file. *)
Entry == [recipient : Wallets \cup {None}, amount : Nat \cup {None},
          start : Nat \cup {None}, cliff : Nat \cup {None}, end : Nat \cup {None}]

Row == [beneficiary : Wallets, amount : Nat \cup {None}, release_type : Pages,
        start : Nat \cup {None}, cliff : Nat \cup {None}, end : Nat \cup {None}, idx : Nat]

(* What is made of them, and the leaves of the tree they become. *)
Allocated == [beneficiary : Wallets, amount : Nat, release_type : Pages, start_time : Nat,
              cliff_time : Nat, end_time : Nat, milestone_idx : Nat]

TreeLeaf == [leaf_index : Nat, beneficiary : Wallets, amount : Nat, release_type : Pages,
             start_time : Nat, cliff_time : Nat, end_time : Nat, milestone_idx : Nat]

(* What csvResult holds of a file. *)
ParsedFile == [rows : Seq(Allocated), mint : Tokens]

(* The clock is Unix time. *)
ASSUME FormAssumption ==
    /\ Wallets # {} /\ None \notin Wallets \cup ParsedFile
    /\ \A page \in Pages :
         Entries[page] \subseteq Entry /\ Files[page] \subseteq Seq(Row)
    /\ FirstTime \in Nat /\ MaxTime \in Nat /\ Minute <= FirstTime

VARIABLES
    now,
    kind,       \* which page: its release type
    mode,       \* "single": by hand; "bulk": CSV
    mint,       \* the token that is selected
    entries,    \* the streams, or milestones, typed in
    recipient,  \* the milestone page's only recipient
    csvText,    \* the file, or None
    csvResult,  \* what was made of it: its rows (none if it had issues) and,
                \* as a history, the token it was read for; or None
    txState,    \* what the page shows of its progress, with rows that are ready
    flow,       \* the handler that is awaiting something, with what it captured
    chain       \* the campaign, with what its creator was shown (history)

form == <<kind, mode, mint, entries, recipient, csvText, csvResult, txState>>
vars == <<now, form, flow, chain>>

Blank == [recipient |-> None, amount |-> None, start |-> None, cliff |-> None, end |-> None]
Idle  == [type |-> "idle", rows |-> <<>>]
Show(type)  == [type |-> type, rows |-> <<>>]
Ready(rows) == [type |-> "ready", rows |-> rows]

FormInit ==
    /\ now = FirstTime
    /\ kind \in Pages
    /\ mode = "single" /\ mint = None
    /\ entries = <<Blank>> /\ recipient = (CHOOSE wallet \in Wallets : TRUE)
    /\ csvText = None /\ csvResult = None
    /\ txState = Idle /\ flow = None /\ chain = None

Tick == now < MaxTime /\ now' = now + 1 /\ UNCHANGED <<form, flow, chain>>
-----------------------------------------------------------------------------
(* ------------------------------- the fields ---------------------------- *)
(* Another token by hand leaves everything else as it is, the file of the  *)
(* other mode too.                                                         *)
SelectByHand(token) ==
    /\ mode = "single"
    /\ mint' = token
    /\ UNCHANGED <<now, kind, mode, entries, recipient, csvText, csvResult, txState, flow, chain>>

(* Another token for a file: the file is taken away. *)
SelectForFile(token) ==
    /\ mode = "bulk" /\ token # mint
    /\ mint' = token
    /\ csvText' = None /\ csvResult' = None /\ txState' = Idle
    /\ UNCHANGED <<now, kind, mode, entries, recipient, flow, chain>>

(* Where the tree cannot be built, nothing more happens.                   *)
IfBuilt(rows) == IF Buildable(rows) THEN Ready(rows) ELSE txState

(* runBulkParse *)
RunBulkParse(token) ==
    LET rows == ParseBulkCsv(kind, csvText, Decimals[token])
    IN  /\ csvResult' = [rows |-> rows, mint |-> token]
        /\ txState' = IF rows = <<>> THEN Idle ELSE IfBuilt(rows)

(* The same token once more: the file is read again, but for the milestone *)
(* page, which takes the rows that it has.                                 *)
SelectAgain ==
    /\ mode = "bulk" /\ mint # None /\ csvText # None
    /\ IF kind = Milestone /\ csvResult # None /\ csvResult.rows # <<>>
       THEN txState' = IfBuilt(csvResult.rows) /\ UNCHANGED csvResult
       ELSE RunBulkParse(mint)
    /\ UNCHANGED <<now, kind, mode, mint, entries, recipient, csvText, flow, chain>>

SwitchMode ==
    /\ mode' = IF mode = "single" THEN "bulk" ELSE "single"
    /\ txState' = Idle
    /\ UNCHANGED <<now, kind, mint, entries, recipient, csvText, csvResult, flow, chain>>

(* By hand.  Bounds: who has a file does not touch the entries, nor who    *)
(* has submitted them or has a campaign.                                   *)
Filling == flow = None /\ chain = None

SetEntries(next) ==
    /\ mode = "single" /\ csvText = None /\ Filling
    /\ entries' = next
    /\ UNCHANGED <<now, kind, mode, mint, recipient, csvText, csvResult, txState, flow, chain>>

FillIn(i, entry) == SetEntries([entries EXCEPT ![i] = entry])
RemoveEntry(i)   ==
    /\ Len(entries) > 1
    /\ SetEntries(SubSeq(entries, 1, i - 1) \o SubSeq(entries, i + 1, Len(entries)))

(* The milestone page stops adding at one per index, but copies on. *)
AddEntry ==
    /\ Len(entries) < MaxEntries
    /\ kind = Milestone => Len(entries) <= MaxMilestone
    /\ SetEntries(Append(entries, Blank))

(* A copy has no recipient of its own yet. *)
DuplicateEntry(i) ==
    /\ Len(entries) < MaxEntries
    /\ SetEntries(SubSeq(entries, 1, i) \o <<[entries[i] EXCEPT !.recipient = None]>>
                    \o SubSeq(entries, i + 1, Len(entries)))

(* The times of one entry for all of them; the two pages that have times.  *)
Kept(time, other) == IF time # None THEN time ELSE other

ApplyToAll(i) ==
    /\ kind # Milestone /\ Len(entries) > 1
    /\ (IF kind = Linear THEN entries[i].end ELSE entries[i].cliff) # None
    /\ SetEntries([j \in DOMAIN entries |->
         [entries[j] EXCEPT !.start = Kept(entries[i].start, entries[j].start),
                            !.cliff = Kept(entries[i].cliff, entries[j].cliff),
                            !.end   = entries[i].end]])

(* A file needs a token; pasting one throws away what was made of the last. *)
PasteFile(text) ==
    /\ mode = "bulk" /\ mint # None /\ entries = <<Blank>> /\ Filling
    /\ csvText' = text /\ csvResult' = None /\ txState' = Idle
    /\ UNCHANGED <<now, kind, mode, mint, entries, recipient, flow, chain>>

ReadFile ==
    /\ mode = "bulk" /\ mint # None /\ csvText # None
    /\ RunBulkParse(mint)
    /\ UNCHANGED <<now, kind, mode, mint, entries, recipient, csvText, flow, chain>>
-----------------------------------------------------------------------------
(* ----------------------------- the handlers ---------------------------- *)
(* What the creator was shown: the amounts as they stand in the form or in *)
(* the file, and the token beside them.                                    *)
Shown(written) ==
    [mint |-> mint, amounts |-> [i \in DOMAIN written |-> written[i].amount],
     times |-> written, mode |-> mode,
     stale |-> mode = "bulk" /\ csvResult.mint # mint]

Busy == txState.type = "loading"

(* handleSubmit: the form is checked, then the page paints "loading" for a *)
(* quarter of a second.  Bounds: one handler at a time, one campaign.      *)
Submit ==
    /\ mode = "single" /\ mint # None /\ ~Busy
    /\ flow = None /\ chain = None
    /\ EntriesFit(kind, entries, Decimals[mint], now)
    /\ flow' = [step |-> "painting", mint |-> mint, rows |-> <<>>, since |-> now,
                shown |-> Shown(entries)]
    /\ txState' = Show("loading")
    /\ UNCHANGED <<now, kind, mode, mint, entries, recipient, csvText, csvResult, chain>>

(* The rows are made with the time of then, from the entries of before.    *)
Build ==
    /\ flow # None /\ flow.step = "painting"
    /\ now <= flow.since + 1
    /\ LET rows == RowsOf(kind, flow.shown.times, recipient, Decimals[flow.mint], now)
       IN  IF Buildable(rows)
           THEN flow' = [flow EXCEPT !.step = "creating", !.rows = rows, !.since = FirstTime] /\ UNCHANGED txState
           ELSE flow' = None /\ txState' = Show("error")
    /\ UNCHANGED <<now, kind, mode, mint, entries, recipient, csvText, csvResult, chain>>

(* handleBulkCreate takes the rows that are ready. *)
SubmitFile ==
    /\ mode = "bulk" /\ txState.type = "ready"
    /\ flow = None /\ chain = None
    /\ flow' = [step |-> "creating", mint |-> mint, rows |-> txState.rows, since |-> FirstTime,
                shown |-> Shown(csvText)]
    /\ txState' = Show("loading")
    /\ UNCHANGED <<now, kind, mode, mint, entries, recipient, csvText, csvResult, chain>>

IsStream == flow.shown.mode = "single" /\ Len(flow.rows) = 1

Account(prepared, paid) ==
    [mint |-> flow.mint, leaves |-> prepared.leaves, total_supply |-> prepared.total_supply,
     pools |-> [t \in Tokens |-> IF t = flow.mint THEN paid ELSE 0],
     shown |-> flow.shown, pending |-> paid = 0, card |-> FALSE]

Cleared == entries' = <<Blank>> /\ UNCHANGED <<csvText, csvResult>>

(* A single entry becomes a stream, which is created and funded at once.   *)
StreamLands ==
    /\ flow # None /\ flow.step = "creating" /\ IsStream
    /\ LET prepared == Prepared(flow.rows)
       IN  /\ CreateStreamAccepts(prepared.leaves[1])
           /\ chain' = Account(prepared, prepared.total_supply)
    /\ flow' = None /\ txState' = Show("success") /\ Cleared
    /\ UNCHANGED <<now, kind, mode, mint, recipient>>

CampaignLands ==
    /\ flow # None /\ flow.step = "creating" /\ ~IsStream
    /\ CreateAccepts(Prepared(flow.rows))
    /\ chain' = Account(Prepared(flow.rows), 0)
    /\ flow' = [flow EXCEPT !.step = "funding"]
    /\ txState' = Show("loading")
    /\ UNCHANGED <<now, kind, mode, mint, entries, recipient, csvText, csvResult>>

(* Refused by the wallet, which leaves the page of entries idle, or by the *)
(* program.                                                                *)
CreateFails ==
    /\ flow # None /\ flow.step = "creating"
    /\ flow' = None
    /\ txState' \in {Show("error")} \cup (IF flow.shown.mode = "single" THEN {Idle} ELSE {})
    /\ UNCHANGED <<now, kind, mode, mint, entries, recipient, csvText, csvResult, chain>>

(* fund_campaign asks for the campaign's own mint and vault; its native    *)
(* variant asks for neither.                                               *)
FundAccepts(token) == chain.pools[token] = 0 /\ token \in {chain.mint, Native}

(* After its own campaign the page is cleared; after one that was resumed  *)
(* it is not.                                                              *)
FundLands ==
    /\ flow # None /\ flow.step \in {"funding", "again", "listed"}
    /\ FundAccepts(flow.mint)
    /\ chain' = [chain EXCEPT !.pools[flow.mint] = chain.total_supply, !.pending = FALSE]
    /\ flow' = None
    /\ txState' = IF flow.step = "listed" THEN Idle ELSE Show("funded")
    /\ IF flow.step # "funding" THEN UNCHANGED <<entries, csvText, csvResult>>
       ELSE IF flow.shown.mode = "bulk"
            THEN csvText' = None /\ csvResult' = None /\ UNCHANGED entries
            ELSE Cleared
    /\ UNCHANGED <<now, kind, mode, mint, recipient>>

FundFails ==
    /\ flow # None /\ flow.step \in {"funding", "again", "listed"}
    /\ flow' = None
    /\ txState' = IF flow.step = "funding" THEN Show("unfunded") ELSE Show("error")
    /\ UNCHANGED <<now, kind, mode, mint, entries, recipient, csvText, csvResult, chain>>
-----------------------------------------------------------------------------
(* ------------------------------- resuming ------------------------------ *)
Resume(step, token) ==
    /\ flow = None /\ chain # None
    /\ flow' = [step |-> step, mint |-> token, rows |-> <<>>, since |-> FirstTime,
                shown |-> chain.shown]
    /\ txState' = Show("loading")
    /\ UNCHANGED <<now, kind, mode, mint, entries, recipient, csvText, csvResult>>

(* The card of the campaign that was just created: with the token that is  *)
(* selected now.                                                           *)
ResumeFromCard ==
    /\ txState.type = "unfunded"
    /\ Resume("again", mint)
    /\ chain' = [chain EXCEPT !.card = chain.card \/ mint # chain.mint]

(* Mutant: the list, too, takes the token of the form. *)
ResumeWithForm ==
    chain # None /\ chain.pending /\ mint # None /\ Resume("listed", mint) /\ UNCHANGED chain

(* The list of unfunded campaigns: with the token that was noted. *)
ResumeFromPanel ==
    chain # None /\ chain.pending /\ Resume("listed", chain.mint) /\ UNCHANGED chain

FormNext ==
    \/ Tick \/ SwitchMode \/ SelectAgain \/ AddEntry \/ ReadFile
    \/ \E token \in Tokens : SelectByHand(token) \/ SelectForFile(token)
    \/ \E i \in DOMAIN entries :
         \/ RemoveEntry(i) \/ DuplicateEntry(i) \/ ApplyToAll(i)
         \/ \E entry \in Entries[kind] : FillIn(i, entry)
    \/ \E text \in Files[kind] : PasteFile(text)
    \/ Submit \/ Build \/ SubmitFile \/ StreamLands \/ CampaignLands \/ CreateFails
    \/ FundLands \/ FundFails \/ ResumeFromCard \/ ResumeFromPanel
=============================================================================
