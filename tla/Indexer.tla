------------------------------ MODULE Indexer ------------------------------
(***************************************************************************)
(* The event indexer of the web server: server invocations read the log    *)
(* of the chain, newest transaction first and page by page, and write each *)
(* event to its table, to the campaign row and to the checkpoint in one    *)
(* database transaction.  Invocations may run side by side (the scheduled  *)
(* pass, an operator's pass or backfill, one per signature a browser       *)
(* posts) and may die between any two steps.  The page that sent a pause,  *)
(* a cancellation or a refund also writes the row itself, without waiting  *)
(* for the event.                                                          *)
(***************************************************************************)
EXTENDS ChainLog

CONSTANTS
    Workers,        \* invocations that may run at the same time
    PageSize,       \* limit of getSignaturesForAddress
    Skew,           \* bound: how far a browser's clock is ahead of the chain's
    NoRow,          \* the campaign has not been posted
    Idle            \* the invocation has ended

VARIABLES
    rows,           \* campaigns: one row per tree
    tables,         \* the event tables
    checkpoint,     \* sync_state.last_synced_slot
    worker,         \* local state of each invocation
    patched,        \* history: the events whose page has written the row
    owed            \* history: the events a pass set out to index

dbVars == <<rows, tables, checkpoint>>
vars   == <<chain, log, slot, rows, tables, checkpoint, worker, patched, owed>>

(* A settlement its page has written is added by its event once more.      *)
Row == [paused : BOOLEAN, root : Roots, total_claimed : 0 .. 2 * Supply,
        cancelled_at : Nat \cup {None}, instant_refunded : BOOLEAN]

Entry == [sig : Nat, event : EventType]

(* start: startSlot; before: the cursor of the next page; page: the        *)
(* signatures still to be read, the newest first; events: what the         *)
(* transaction sig still has to be indexed; claims_only: the backfill of   *)
(* claim-events.ts.                                                        *)
Invocation == [start : Nat, before : Nat \cup {None}, more : BOOLEAN,
               page : SUBSET Nat, sig : Nat, events : Seq(EventType),
               claims_only : BOOLEAN]

IndexerAssumption ==
    /\ PageSize \in Nat \ {0} /\ Skew \in Nat
    /\ NoRow \notin Row /\ Idle \notin Invocation
ASSUME IndexerAssumption

TypeOK ==
    /\ ChainTypeOK
    /\ rows \in [Trees -> Row \cup {NoRow}]
    /\ tables \subseteq Entry
    /\ checkpoint \in Nat
    /\ worker \in [Workers -> Invocation \cup {Idle}]
    /\ owed \in [Workers -> SUBSET Entry]
    /\ patched \subseteq Entry

Init ==
    /\ ChainInit
    /\ rows = [t \in Trees |-> NoRow]
    /\ tables = {}
    /\ checkpoint = 0
    /\ worker = [w \in Workers |-> Idle]
    /\ patched = {}
    /\ owed = [w \in Workers |-> {}]
-----------------------------------------------------------------------------
(* POST /api/campaigns, sent by the creator's browser after the campaign   *)
(* was created on chain, perhaps long after.                               *)
PostCampaign(t) ==
    /\ rows[t] = NoRow
    /\ rows' = [rows EXCEPT ![t] = [paused |-> FALSE, root |-> FirstRoot,
                                    total_claimed |-> 0, cancelled_at |-> None,
                                    instant_refunded |-> FALSE]]
    /\ UNCHANGED <<chain, log, slot, tables, checkpoint, worker, patched, owed>>

EventsAfter(start) ==
    UNION {{[sig |-> sig, event |-> log[sig].events[k]] : k \in DOMAIN log[sig].events} :
              sig \in {s \in Visible : start = 0 \/ log[s].slot > start}}

Run(start, page, more, claims_only) ==
    [start |-> start, before |-> None, more |-> more, page |-> page, sig |-> 0,
     events |-> <<>>, claims_only |-> claims_only]

(* indexAllEvents from the checkpoint, or from a slot the operator gives. *)
StartPass(w, start) ==
    /\ worker[w] = Idle
    /\ worker' = [worker EXCEPT ![w] = Run(start, {}, TRUE, FALSE)]
    /\ owed' = [owed EXCEPT ![w] = {entry \in EventsAfter(start) :
                                       rows[entry.event.tree] # NoRow}]
    /\ UNCHANGED <<chain, log, slot, rows, tables, checkpoint, patched>>

CronSync(w)         == StartPass(w, checkpoint)
AdminSync(w, start) == StartPass(w, start)

ReadOnly(w, sig, claims_only) ==
    /\ worker[w] = Idle
    /\ sig \in Visible
    /\ worker' = [worker EXCEPT ![w] = Run(0, {sig}, FALSE, claims_only)]
    /\ UNCHANGED <<chain, log, slot, rows, tables, checkpoint, patched, owed>>

(* The signature a browser posts, and the one an operator does: of the     *)
(* latter only the claims are read.                                        *)
SyncSignature(w, sig) == ReadOnly(w, sig, FALSE)
SyncClaims(w, sig)    == ReadOnly(w, sig, TRUE)
-----------------------------------------------------------------------------
Running(w)  == worker[w] # Idle
AtEvent(w)  == Running(w) /\ worker[w].events # <<>>
AtTx(w)     == Running(w) /\ worker[w].events = <<>> /\ worker[w].page # {}
AtPage(w)   == Running(w) /\ worker[w].events = <<>> /\ worker[w].page = {}

(* Mutant: the next page begins one signature too low. *)
NewestSkippingOne(before) ==
    IF before = None THEN Cardinality(Visible) ELSE before - 2

Newest(before) == IF before = None THEN Cardinality(Visible) ELSE before - 1

(* Ended, or one more page: the newest signatures below the cursor, those  *)
(* at or before the start slot dropped; a page without others ends it.     *)
FetchPage(w) ==
    /\ AtPage(w)
    /\ LET me     == worker[w]
           newest == Newest(me.before)
           size   == IF newest < PageSize THEN newest ELSE PageSize
           valid  == {sig \in newest + 1 - size .. newest :
                         me.start = 0 \/ log[sig].slot > me.start}
       IN IF ~me.more \/ valid = {}
          THEN /\ worker' = [worker EXCEPT ![w] = Idle]
               /\ owed' = [owed EXCEPT ![w] = {}]
          ELSE /\ worker' = [worker EXCEPT ![w] =
                               [me EXCEPT !.page = valid, !.more = (size = PageSize),
                                          !.before = newest + 1 - size]]
               /\ UNCHANGED owed
    /\ UNCHANGED <<chain, log, slot, rows, tables, checkpoint, patched>>

(* The newest signature of the page that is still to be read. *)
NextSignature(w, sig) ==
    sig \in worker[w].page /\ \A other \in worker[w].page : other <= sig

ReadTransaction(w) ==
    /\ AtTx(w)
    /\ \E sig \in worker[w].page :
         /\ NextSignature(w, sig)
         /\ worker' = [worker EXCEPT ![w].page = @ \ {sig}, ![w].sig = sig,
                                     ![w].events = log[sig].events]
    /\ UNCHANGED <<chain, log, slot, rows, tables, checkpoint, patched, owed>>

(* The node knows the signature but not (yet) the transaction. *)
MissTransaction(w) ==
    /\ AtTx(w)
    /\ \E sig \in worker[w].page :
         /\ NextSignature(w, sig)
         /\ worker' = [worker EXCEPT ![w].page = @ \ {sig}]
         /\ owed' = [owed EXCEPT ![w] = {e \in @ : e.sig # sig}]
    /\ UNCHANGED <<chain, log, slot, rows, tables, checkpoint, patched>>

(* An error or the platform's time limit; what is committed stays. *)
Crash(w) ==
    /\ Running(w)
    /\ worker' = [worker EXCEPT ![w] = Idle]
    /\ owed' = [owed EXCEPT ![w] = {}]
    /\ UNCHANGED <<chain, log, slot, rows, tables, checkpoint, patched>>
-----------------------------------------------------------------------------
(* pause_events holds both kinds; each other kind has a table of its own,  *)
(* and each table holds a signature once.                                  *)
Table(kind) == IF kind = "unpaused" THEN "paused" ELSE kind

Taken(sig, event) ==
    \E entry \in tables : entry.sig = sig /\ Table(entry.event.kind) = Table(event.kind)

Larger(a, b) == IF a > b THEN a ELSE b

(* Mutants: the settlement is added however often its event is read; a     *)
(* claim's total is taken as it comes.                                     *)
AddedEachTime(row, event, inserted) ==
    [row EXCEPT !.cancelled_at = event.at, !.total_claimed = @ + event.value]
TotalOf(row, event) == [row EXCEPT !.total_claimed = event.value]

SettledRow(row, event, inserted) ==
    IF inserted
    THEN [row EXCEPT !.cancelled_at = event.at, !.total_claimed = @ + event.value]
    ELSE row

ClaimedRow(row, event) == [row EXCEPT !.total_claimed = Larger(@, event.value)]

Reflected(row, event, inserted) ==
    CASE event.kind = "claimed"            -> ClaimedRow(row, event)
      [] event.kind = "campaign_cancelled" -> [row EXCEPT !.cancelled_at = event.at]
      [] event.kind = "instant_refunded"   -> [row EXCEPT !.cancelled_at = event.at,
                                                          !.instant_refunded = TRUE]
      [] event.kind = "paused"             -> [row EXCEPT !.paused = TRUE]
      [] event.kind = "unpaused"           -> [row EXCEPT !.paused = FALSE]
      [] event.kind = "root_updated"       -> [row EXCEPT !.root = event.value]
      [] event.kind = "stream_cancelled"   -> SettledRow(row, event, inserted)
      [] OTHER                             -> row

(* Mutants: the checkpoint never goes down; it is the chain's slot. *)
Highest(sig)   == Larger(checkpoint, log[sig].slot)
ChainHead(sig) == slot

(* persistSyncCheckpoint: the slot of this event, be it below or above. *)
Persisted(sig) == log[sig].slot

(* One event, in one database transaction: its table, the row, which       *)
(* becomes row, and the checkpoint.  The event of a campaign without a row *)
(* is dropped and leaves no trace.                                         *)
Store(w, sig, event, row) ==
    /\ IF rows[event.tree] = NoRow
       THEN UNCHANGED dbVars
       ELSE /\ tables' = IF Taken(sig, event) THEN tables
                         ELSE tables \cup {[sig |-> sig, event |-> event]}
            /\ rows' = [rows EXCEPT ![event.tree] = row]
            /\ checkpoint' = Persisted(sig)
    /\ worker' = [worker EXCEPT ![w].events = Tail(@)]
    /\ UNCHANGED <<chain, log, slot, patched, owed>>

IndexEvent(w) ==
    /\ AtEvent(w) /\ ~worker[w].claims_only
    /\ LET sig   == worker[w].sig
           event == Head(worker[w].events)
       IN  Store(w, sig, event, Reflected(rows[event.tree], event, ~Taken(sig, event)))

(* The backfill of claims passes over every other event. *)
PassOver(w) ==
    /\ worker' = [worker EXCEPT ![w].events = Tail(@)]
    /\ UNCHANGED <<chain, log, slot, rows, tables, checkpoint, patched, owed>>

IndexClaim(w) ==
    /\ AtEvent(w) /\ worker[w].claims_only
    /\ LET event == Head(worker[w].events)
       IN  IF event.kind = "claimed"
           THEN Store(w, worker[w].sig, event, ClaimedRow(rows[event.tree], event))
           ELSE PassOver(w)
-----------------------------------------------------------------------------
(* What the page has in hand when its transaction is confirmed: its own    *)
(* clock, and for a settlement what had vested by that clock.              *)
PageTimes(event) == event.at .. event.at + Skew

PageTotals(event) ==
    LET total == chain[event.tree].total_claimed
    IN {total, IF total < Supply THEN total + 1 ELSE total}

(* The route's update; a pause of a row that is cancelled is refused. *)
Patched(row, event, at, total) ==
    CASE event.kind = "paused" ->
           IF row.cancelled_at = None THEN [row EXCEPT !.paused = TRUE] ELSE row
      [] event.kind = "unpaused" -> [row EXCEPT !.paused = FALSE]
      [] event.kind = "stream_cancelled" ->
           [row EXCEPT !.cancelled_at = at, !.paused = FALSE,
                       !.total_claimed = Larger(@, total)]
      [] OTHER ->
           [row EXCEPT !.cancelled_at = at, !.paused = FALSE,
                       !.instant_refunded = @ \/ event.kind = "instant_refunded"]

FromPages == {"paused", "unpaused", "campaign_cancelled", "stream_cancelled",
              "instant_refunded"}

(* PATCH /api/campaigns/:treeAddress/status, sent once and not waited for: *)
(* it arrives at any later time or never.                                  *)
PatchStatus(entry) ==
    LET event == entry.event IN
    /\ event.kind \in FromPages
    /\ entry \notin patched
    /\ rows[event.tree] # NoRow
    /\ patched' = patched \cup {entry}
    /\ \E at \in PageTimes(event), total \in PageTotals(event) :
         rows' = [rows EXCEPT ![event.tree] = Patched(@, event, at, total)]
    /\ UNCHANGED <<chain, log, slot, tables, checkpoint, worker, owed>>
-----------------------------------------------------------------------------
(* ------------------------------- readers ------------------------------- *)
(* At most limit entries, newest first; those of one second stand in any   *)
(* order, so that any of them may be the ones cut off.                     *)
Pages(entries, limit) ==
    {page \in SUBSET entries :
        /\ \/ Cardinality(page) = limit /\ limit <= Cardinality(entries)
           \/ page = entries /\ Cardinality(entries) < limit
        /\ \A shown \in page, cut \in entries \ page : shown.event.at >= cut.event.at}

(* The pages that may be shown of the eight tables together, and how many  *)
(* entries there are: of a campaign between two times, of the campaigns an *)
(* address created or ever had a leaf in, and of a campaign's claims.      *)
Timeline(t, from, to, limit) ==
    LET found == {entry \in tables : entry.event.tree = t /\ entry.event.at \in from .. to}
    IN  [pages |-> Pages(found, limit), total |-> Cardinality(found)]

Activity(mine, limit) ==
    LET found == {entry \in tables : entry.event.tree \in mine}
    IN  [pages |-> Pages(found, limit), total |-> Cardinality(found)]

Claims(t, fromSlot, limit) ==
    LET found == {entry \in tables : /\ entry.event.tree = t
                                     /\ entry.event.kind = "claimed"
                                     /\ log[entry.sig].slot >= fromSlot}
    IN  [pages |-> Pages(found, limit), total |-> Cardinality(found)]

(* fetchTree: what the page of a campaign shows next, from the account     *)
(* (NoRow if the node does not have it or does not answer in time), the    *)
(* row, and what it shows now.                                             *)
TreeState(shown, account, row) ==
    IF account # NoRow
    THEN [account EXCEPT !.cancelled_at = IF @ = None /\ row # NoRow THEN row.cancelled_at ELSE @]
    ELSE IF row = NoRow THEN shown
    ELSE IF shown = NoRow THEN row
    ELSE [row EXCEPT !.total_claimed = Larger(@, shown.total_claimed)]
-----------------------------------------------------------------------------
Chain == ChainNext /\ UNCHANGED <<rows, tables, checkpoint, worker, patched, owed>>

Step(w) == FetchPage(w) \/ ReadTransaction(w) \/ IndexEvent(w)

Next ==
    \/ Chain
    \/ \E t \in Trees : PostCampaign(t)
    \/ \E entry \in EventsAfter(0) : PatchStatus(entry)
    \/ \E w \in Workers :
         \/ CronSync(w)
         \/ \E start \in 0 .. slot : AdminSync(w, start)
         \/ \E sig \in Visible : SyncSignature(w, sig) \/ SyncClaims(w, sig)
         \/ FetchPage(w) \/ ReadTransaction(w) \/ MissTransaction(w)
         \/ IndexEvent(w) \/ IndexClaim(w) \/ Crash(w)

Spec == Init /\ [][Next]_vars

(* The scheduled pass alone: one invocation at a time, none dies, the node *)
(* answers; it comes round again, and blocks are confirmed.  A page's own  *)
(* write arrives before its event is read.                                 *)
CronNext ==
    \/ Chain
    \/ \E t \in Trees : PostCampaign(t)
    \/ \E entry \in EventsAfter(0) : ~Taken(entry.sig, entry.event) /\ PatchStatus(entry)
    \/ \E w \in Workers : CronSync(w) \/ Step(w)

CronSpec ==
    /\ Init
    /\ [][CronNext]_vars
    /\ WF_vars(Confirm /\ UNCHANGED <<rows, tables, checkpoint, worker, patched, owed>>)
    /\ \A w \in Workers : WF_vars(CronSync(w)) /\ WF_vars(Step(w))

(* The scheduled pass alone, when an invocation may die. *)
CrashNext == CronNext \/ \E w \in Workers : Crash(w)

CrashSpec == Init /\ [][CrashNext]_vars
=============================================================================
