------------------------- MODULE IndexerProperties -------------------------
(***************************************************************************)
(* What the database promises of the chain it follows.                     *)
(***************************************************************************)
EXTENDS Indexer

SettledByPage(t) ==
    \E entry \in patched : entry.event.tree = t /\ entry.event.kind = "stream_cancelled"

(* Whoever lists events of a campaign, over whatever stretch and however   *)
(* many, is shown nothing the row does not know of: no more claims than it *)
(* counts (each of one unit here), no cancellation and no refund that it   *)
(* has not; the claims by themselves are those of the timeline.            *)
ReadersSeeNoMore ==
    \A t \in Trees, limit \in 1 .. MaxTx : rows[t] # NoRow =>
        LET Of(page, kinds) == {e \in page : e.event.tree = t /\ e.event.kind \in kinds}
        IN  /\ \A page \in Timeline(t, 0, slot, limit).pages
                       \cup Activity(Trees, limit).pages \cup Claims(t, 0, limit).pages :
                 /\ Cardinality(Of(page, {"claimed"})) <= rows[t].total_claimed
                 /\ Of(page, {"campaign_cancelled", "stream_cancelled"}) # {} =>
                       rows[t].cancelled_at # None
                 /\ Of(page, {"instant_refunded"}) # {} =>
                       rows[t].instant_refunded /\ rows[t].cancelled_at # None
            /\ Claims(t, 0, limit).total <= Timeline(t, 0, slot, limit).total
            /\ Activity({t}, limit).total = Timeline(t, 0, slot, limit).total

(* And the page of a campaign, whether the node answers it or not, shows   *)
(* no more claimed than was, no less than it did, and a cancellation only  *)
(* if there was one and always if the row has it.                          *)
PageShowsNoMore ==
    \A t \in Trees : \A shown \in {NoRow, chain[t], rows[t]}, account \in {NoRow, chain[t]} :
        LET next == TreeState(shown, account, rows[t])
        IN  rows[t] # NoRow =>
              /\ next.total_claimed <= chain[t].total_claimed \/ SettledByPage(t)
              /\ account = NoRow /\ shown # NoRow => next.total_claimed >= shown.total_claimed
              /\ next.cancelled_at # None => chain[t].cancelled_at # None
              /\ rows[t].cancelled_at # None => next.cancelled_at # None

(* The facts of a row that the program never takes back are facts of the   *)
(* account: whatever is read late, twice, newest first or by several       *)
(* invocations at once, the row counts at most what the beneficiaries      *)
(* received, though claims set the total and a settlement adds to it; and  *)
(* its cancellation is one that happened, at most a browser's clock late.  *)
(* A settlement its page wrote ahead is counted twice and so left out.     *)
(* The lists of events say no more than the row, nor does the page.        *)
RowBehindChain ==
    /\ ReadersSeeNoMore /\ PageShowsNoMore
    /\ \A t \in Trees : rows[t] # NoRow =>
        /\ rows[t].total_claimed <= chain[t].total_claimed \/ SettledByPage(t)
        /\ rows[t].cancelled_at # None =>
             /\ chain[t].cancelled_at # None
             /\ rows[t].cancelled_at - chain[t].cancelled_at \in 0 .. Skew
        /\ rows[t].instant_refunded => chain[t].instant_refunded

(* Old news does not undo new: no event read and no page's write, however  *)
(* late, lowers the total or lets go of a cancellation or a refund.        *)
RowsNeverForget ==
    [][\A t \in Trees : rows[t] # NoRow =>
          /\ rows'[t] # NoRow
          /\ rows[t].total_claimed <= rows'[t].total_claimed
          /\ rows[t].cancelled_at # None => rows'[t].cancelled_at # None
          /\ rows[t].instant_refunded => rows'[t].instant_refunded]_vars

(* The table of the event's kind holds its signature (two events of one    *)
(* kind in one transaction share that entry), and the row counts it.       *)
Covered(entry) ==
    /\ Taken(entry.sig, entry.event)
    /\ entry.event.kind = "claimed" =>
         rows[entry.event.tree].total_claimed >= entry.event.value

(* A pass that comes to its end has indexed every event it set out to:     *)
(* those visible beyond its start when it began, over all pages, whatever  *)
(* landed meanwhile and whatever other invocations did.                    *)
PassCoversItsRange ==
    [][\A w \in Workers : FetchPage(w) /\ worker'[w] = Idle =>
          \A entry \in owed[w] : Covered(entry)]_vars

Confirmed == EventsAfter(0)

(* Between scheduled passes nothing at or below the checkpoint is missing, *)
(* so that the next pass may start there ("idempotent replay from the last *)
(* checkpoint. No skip/duplicate gap", docs/internal/week9/BUG_LIST.md:117).*)
(* It holds for one campaign with one event per slot while no invocation   *)
(* dies.                                                                   *)
NothingBehindCheckpoint ==
    (\A w \in Workers : worker[w] = Idle) =>
        \A entry \in Confirmed :
            log[entry.sig].slot <= checkpoint => Taken(entry.sig, entry.event)

Settled(t) == \E sig \in DOMAIN log : \E k \in DOMAIN log[sig].events :
                 /\ log[sig].events[k].tree = t
                 /\ log[sig].events[k].kind = "stream_cancelled"

(* The row tells what the account tells.  Two fields have exceptions: a    *)
(* cancellation lifts the pause without an event, and a settlement read    *)
(* before older claims is not added to them.                               *)
Mirrors(t) ==
    /\ rows[t].root = chain[t].root
    /\ rows[t].cancelled_at = chain[t].cancelled_at
    /\ rows[t].instant_refunded = chain[t].instant_refunded
    /\ chain[t].cancelled_at = None => rows[t].paused = chain[t].paused
    /\ ~Settled(t) => rows[t].total_claimed = chain[t].total_claimed

(* Once the chain is quiet the scheduled pass brings the row into line and *)
(* keeps it there: each pass applies the newest events first and so ends   *)
(* on its oldest, but also leaves the checkpoint there, and the next pass  *)
(* starts one slot later.                                                  *)
RowsConverge == <>[](\A t \in Trees : rows[t] # NoRow => Mirrors(t))
=============================================================================
