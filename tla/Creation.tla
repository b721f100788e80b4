------------------------------ MODULE Creation ------------------------------
(***************************************************************************)
(* How the browser creates a campaign (hooks/useCreateCampaign.ts,         *)
(* useCreateStream.ts and the creation pages): a transaction that creates  *)
(* the tree, a POST that stores its leaves, and a transaction that funds   *)
(* it.  What is left over when one of them fails is kept in localStorage,  *)
(* which all tabs share: an index queue that every open tab empties in the *)
(* background, and a list of unfunded campaigns that the user goes through.*)
(*                                                                         *)
(* A draft is what the form or the CSV file holds when it is submitted;    *)
(* its address is that of the tree, derived from creator, mint and the     *)
(* campaign id a page takes from the clock when it is opened, so that two  *)
(* pages, or two attempts of one page, may well have the same.  A tree is  *)
(* known here by the draft it was created from.  A native tree is deleted  *)
(* by its last payment, and its address may be taken again.                *)
(***************************************************************************)
EXTENDS Integers, Sequences

CONSTANTS
    None,
    Addresses,    \* trees that can be created
    Native,       \* those whose mint, which is part of the address, is SOL
    Drafts,
    Streams,      \* drafts of one recipient: created and funded in one transaction
    Supply,       \* total_supply of a draft
    Tabs,
    MaxTx         \* bound: transactions sent

ASSUME DraftsAssumption ==
    /\ Native \subseteq Addresses /\ Streams \subseteq Drafts /\ Supply \in [Drafts -> Nat \ {0}] /\ MaxTx \in Nat
    /\ None \notin Drafts

VARIABLES
    \* the chain
    tree,         \* of an address: the draft it was created from, or None
    vault, paid,  \* balance, and what has left it
    cancelled,
    txs,          \* transactions sent
    \* the database
    row,          \* of an address: the draft whose leaves are stored, or None
    \* localStorage
    toIndex,      \* pending-index: the draft queued under an address, or None
    toFund,       \* pending-fund: the amount listed under an address, or 0
    \* the tabs
    page, offered, flush,
    \* history
    made,         \* of an address: the drafts whose trees have stood there
    gone,         \* addresses of which a tree was deleted
    dropped,      \* work that a page let go of without noting it down
    masked,       \* addresses whose failed transaction passed for a success
    refused       \* addresses whose queue entry the user refused to sign

chain   == <<tree, vault, paid, cancelled>>
storage == <<toIndex, toFund>>
deleted == <<made, gone>>
history == <<deleted, dropped, masked, refused>>
vars    == <<chain, txs, row, storage, page, offered, flush, history>>

Queues == [Addresses -> Drafts \cup {None}]
Empty  == [a \in Addresses |-> None]
Idle   == [step |-> "form", a |-> None, d |-> None, tx |-> 0]

Init ==
    /\ tree = Empty /\ row = Empty /\ toIndex = Empty
    /\ vault = [a \in Addresses |-> 0] /\ paid = vault /\ toFund = vault
    /\ cancelled = {} /\ txs = <<>>
    /\ page = [t \in Tabs |-> Idle]
    /\ offered = [t \in Tabs |-> toFund]
    /\ flush = [t \in Tabs |-> Empty]
    /\ made = [a \in Addresses |-> {}] /\ gone = {}
    /\ dropped = {} /\ masked = {} /\ refused = {}
-----------------------------------------------------------------------------
(* ----------------------------- transactions ---------------------------- *)
(* create_campaign and create_stream: the address must be free.            *)
CanCreate(a) == tree[a] = None

CanFund(a, amount) ==
    /\ tree[a] # None /\ a \notin cancelled
    /\ vault[a] + amount <= Supply[tree[a]]

(* sendTransaction: the wallet simulates first, then sends. *)
Send(t, step, kind, a, d, amount) ==
    /\ Len(txs) < MaxTx
    /\ IF kind = "create" THEN CanCreate(a) ELSE CanFund(a, amount)
    /\ txs' = Append(txs, [kind |-> kind, a |-> a, d |-> d, amount |-> amount,
                           state |-> "sent"])
    /\ page' = [page EXCEPT ![t] = [step |-> step, a |-> a, d |-> d, tx |-> Len(txs) + 1]]

Result(i, state) == txs' = [txs EXCEPT ![i].state = state]

LandCreate(i) == LET x == txs[i] IN
    /\ x.state = "sent" /\ x.kind = "create" /\ CanCreate(x.a)
    /\ Result(i, "ok")
    /\ tree' = [tree EXCEPT ![x.a] = x.d]
    /\ vault' = [vault EXCEPT ![x.a] = IF x.d \in Streams THEN Supply[x.d] ELSE 0]
    /\ made' = [made EXCEPT ![x.a] = @ \cup {x.d}]
    /\ UNCHANGED <<paid, cancelled, row, storage, page, offered, flush, gone,
                   dropped, masked, refused>>

LandFund(i) == LET x == txs[i] IN
    /\ x.state = "sent" /\ x.kind = "fund" /\ CanFund(x.a, x.amount)
    /\ Result(i, "ok")
    /\ vault' = [vault EXCEPT ![x.a] = @ + x.amount]
    /\ UNCHANGED <<tree, paid, cancelled, row, storage, page, offered, flush, history>>

(* The chain has moved on since the simulation. *)
Fail(i) == LET x == txs[i] IN
    /\ x.state = "sent"
    /\ ~ IF x.kind = "create" THEN CanCreate(x.a) ELSE CanFund(x.a, x.amount)
    /\ Result(i, "failed")
    /\ UNCHANGED <<chain, row, storage, page, offered, flush, history>>

Expire(i) ==
    /\ txs[i].state = "sent"
    /\ Result(i, "expired")
    /\ UNCHANGED <<chain, row, storage, page, offered, flush, history>>

(* Others: a beneficiary is paid, the campaign is cancelled.  By its last  *)
(* payment a native tree is deleted, and so is a settled stream's.         *)
Delete(a) ==
    /\ tree' = [tree EXCEPT ![a] = None] /\ gone' = gone \cup {a}
    /\ vault' = [vault EXCEPT ![a] = 0] /\ paid' = [paid EXCEPT ![a] = 0]
    /\ cancelled' = cancelled \ {a}

Move(a, amount) ==
    /\ vault' = [vault EXCEPT ![a] = @ - amount]
    /\ paid' = [paid EXCEPT ![a] = @ + amount]

Pay(a) ==
    /\ tree[a] # None /\ vault[a] > 0 /\ paid[a] < Supply[tree[a]]
    /\ IF a \in Native /\ paid[a] + 1 = Supply[tree[a]]
       THEN Delete(a)
       ELSE Move(a, 1) /\ UNCHANGED <<tree, cancelled, gone>>
    /\ UNCHANGED <<txs, row, storage, page, offered, flush, made, dropped, masked, refused>>

MayCancel(a) == tree[a] # None /\ a \notin cancelled /\ paid[a] < Supply[tree[a]]

Cancel(a) ==
    /\ MayCancel(a)
    /\ cancelled' = cancelled \cup {a}
    /\ UNCHANGED <<tree, vault, paid, txs, row, storage, page, offered, flush, history>>

(* The creator takes back what is left, the rent of a native tree excepted. *)
Sweep(a) ==
    /\ a \in cancelled /\ vault[a] > 0
    /\ Move(a, vault[a])
    /\ UNCHANGED <<tree, cancelled, txs, row, storage, page, offered, flush, history>>

(* cancel_stream pays both sides at once. *)
Settle(a) ==
    /\ MayCancel(a) /\ tree[a] \in Streams /\ vault[a] > 0
    /\ IF a \in Native
       THEN Delete(a)
       ELSE /\ Move(a, vault[a])
            /\ cancelled' = cancelled \cup {a}
            /\ UNCHANGED <<tree, gone>>
    /\ UNCHANGED <<txs, row, storage, page, offered, flush, made, dropped, masked, refused>>
-----------------------------------------------------------------------------
(* --------------------------- a creation page --------------------------- *)
SubmitCampaign(t, a, d) ==
    /\ page[t].step = "form" /\ d \notin Streams
    /\ Send(t, "creating", "create", a, d, 0)
    /\ UNCHANGED <<chain, row, storage, offered, flush, history>>

SubmitStream(t, a, d) ==
    /\ page[t].step = "form" /\ d \in Streams
    /\ Send(t, "creating", "create", a, d, 0)
    /\ UNCHANGED <<chain, row, storage, offered, flush, history>>

(* Mutant: the page goes on as soon as the wallet has sent. *)
SentOff(t) == page[t].tx # 0

(* confirmTransaction returns for a transaction that failed as well, and   *)
(* its value is not looked at.                                             *)
Confirmed(t) == page[t].tx # 0 /\ txs[page[t].tx].state \in {"ok", "failed"}

Masked(t) ==
    IF txs[page[t].tx].state = "failed" THEN masked \cup {page[t].a} ELSE masked

(* localStorage may refuse an entry (quota, private mode): silently.       *)
Note(a, what, kept) == dropped' = IF kept THEN dropped ELSE dropped \cup {<<a, what>>}

(* createCampaign lists the campaign as unfunded before anything else;     *)
(* a stream is funded already.                                             *)
CampaignCreated(t, kept) == LET a == page[t].a IN
    /\ page[t].step = "creating" /\ page[t].d \notin Streams /\ Confirmed(t)
    /\ toFund' = IF kept THEN [toFund EXCEPT ![a] = Supply[page[t].d]] ELSE toFund
    /\ Note(a, "fund", kept)
    /\ page' = [page EXCEPT ![t].step = "posting"]
    /\ masked' = Masked(t)
    /\ UNCHANGED <<chain, txs, row, toIndex, offered, flush, deleted, refused>>

StreamCreated(t) ==
    /\ page[t].step = "creating" /\ page[t].d \in Streams /\ Confirmed(t)
    /\ page' = [page EXCEPT ![t].step = "posting"]
    /\ masked' = Masked(t)
    /\ UNCHANGED <<chain, txs, row, storage, offered, flush, deleted, dropped, refused>>

(* POST /api/campaigns: the first draft posted under an address stays.     *)
Import(a, d) == row' = [row EXCEPT ![a] = IF @ = None THEN d ELSE @]

(* After the POST: on to funding, or done; refreshPendingFundings.         *)
Onward(t) ==
    IF page[t].d \in Streams
    THEN page' = [page EXCEPT ![t] = Idle] /\ UNCHANGED offered
    ELSE /\ page' = [page EXCEPT ![t].step = "created"]
         /\ offered' = [offered EXCEPT ![t] = toFund]

(* indexCampaign, when the answer is 200 or 201. *)
Posted(t) ==
    /\ page[t].step = "posting"
    /\ Import(page[t].a, page[t].d)
    /\ toIndex' = [toIndex EXCEPT ![page[t].a] = None]
    /\ Onward(t)
    /\ UNCHANGED <<chain, txs, toFund, flush, history>>

(* Any other end, the row stored or not: queued for retry. *)
PostFailed(t, stored, kept) == LET a == page[t].a IN
    /\ page[t].step = "posting"
    /\ IF stored THEN Import(a, page[t].d) ELSE UNCHANGED row
    /\ toIndex' = IF kept THEN [toIndex EXCEPT ![a] = page[t].d] ELSE toIndex
    /\ Note(a, "index", kept)
    /\ Onward(t)
    /\ UNCHANGED <<chain, txs, toFund, flush, deleted, masked, refused>>

Fund(t) ==
    /\ page[t].step = "created"
    /\ Send(t, "funding", "fund", page[t].a, None, Supply[page[t].d])
    /\ UNCHANGED <<chain, row, storage, offered, flush, history>>

(* Mutant: the entry is removed however the funding ends. *)
DeclineForGood(t) ==
    /\ page[t].step = "created"
    /\ page' = [page EXCEPT ![t] = Idle]
    /\ toFund' = [toFund EXCEPT ![page[t].a] = 0]
    /\ UNCHANGED <<chain, txs, row, toIndex, offered, flush, history>>

(* The user says no, or the simulation does. *)
Decline(t) ==
    /\ page[t].step = "created"
    /\ page' = [page EXCEPT ![t] = Idle]
    /\ UNCHANGED <<chain, txs, row, storage, offered, flush, history>>

(* "Resume funding", of the list as this page has it.  *)
Resume(t, a) ==
    /\ page[t].step = "form" /\ offered[t][a] > 0
    /\ Send(t, "funding", "fund", a, None, offered[t][a])
    /\ UNCHANGED <<chain, row, storage, offered, flush, history>>

(* The campaign's own page asks the chain how much is missing.  What leads *)
(* to it are lists made from the database and from localStorage.           *)
Missing(a) == Supply[tree[a]] - paid[a] - vault[a]
Linked(a)  == row[a] # None \/ toFund[a] > 0

Recover(t, a) ==
    /\ page[t].step = "form" /\ Linked(a) /\ tree[a] # None /\ Missing(a) > 0
    /\ Send(t, "funding", "fund", a, None, Missing(a))
    /\ UNCHANGED <<chain, row, storage, offered, flush, history>>

(* Mutant: the entry is left to the panel, which does not remove it. *)
FundedKept(t) ==
    /\ page[t].step = "funding" /\ Confirmed(t)
    /\ page' = [page EXCEPT ![t] = Idle]
    /\ masked' = Masked(t)
    /\ UNCHANGED <<chain, txs, row, storage, offered, flush, deleted, dropped, refused>>

Funded(t) == LET a == page[t].a IN
    /\ page[t].step = "funding" /\ Confirmed(t)
    /\ toFund' = [toFund EXCEPT ![a] = 0]
    /\ offered' = [offered EXCEPT ![t] = toFund']
    /\ page' = [page EXCEPT ![t] = Idle]
    /\ masked' = Masked(t)
    /\ UNCHANGED <<chain, txs, row, toIndex, flush, deleted, dropped, refused>>

(* What is noted down nowhere when the page is left now. *)
Unnoted(t) == LET a == page[t].a IN
    CASE page[t].step = "creating" -> {<<a, "index">>, <<a, "fund">>}
      [] page[t].step = "posting"  -> {<<a, "index">>}
      [] page[t].step = "funding"  -> {<<a, "fund">>}
      [] OTHER -> {}

(* confirmTransaction gives up after a while, whatever happens then.       *)
TimeOut(t) ==
    /\ page[t].step \in {"creating", "funding"}
    /\ page' = [page EXCEPT ![t] = Idle]
    /\ dropped' = dropped \cup Unnoted(t)
    /\ UNCHANGED <<chain, txs, row, storage, offered, flush, deleted, masked, refused>>

(* The tab is closed, crashes or is reloaded, and opened again. *)
Reload(t) ==
    /\ page' = [page EXCEPT ![t] = Idle]
    /\ offered' = [offered EXCEPT ![t] = toFund]
    /\ flush' = [flush EXCEPT ![t] = Empty]
    /\ dropped' = dropped \cup Unnoted(t)
    /\ UNCHANGED <<chain, txs, row, storage, deleted, masked, refused>>
-----------------------------------------------------------------------------
(* ------------------------ PendingCampaignIndexer ----------------------- *)
(* Mutant: campaigns are stored once they are funded. *)
StartFlushFunded(t) ==
    /\ flush[t] = Empty /\ toIndex # Empty
    /\ flush' = [flush EXCEPT ![t] = [a \in Addresses |->
                                        IF toFund[a] = 0 THEN toIndex[a] ELSE None]]
    /\ UNCHANGED <<chain, txs, row, storage, page, offered, history>>

(* On mount, every 15 seconds, on focus and when online again: one pass at *)
(* a time in each tab, over the entries there are when it starts.          *)
StartFlush(t) ==
    /\ flush[t] = Empty /\ toIndex # Empty
    /\ flush' = [flush EXCEPT ![t] = toIndex]
    /\ UNCHANGED <<chain, txs, row, storage, page, offered, history>>

Past(t, a) == flush' = [flush EXCEPT ![t][a] = None]

Flushed(t, a) ==
    /\ flush[t][a] # None
    /\ Import(a, flush[t][a])
    /\ toIndex' = [toIndex EXCEPT ![a] = None]
    /\ Past(t, a)
    /\ UNCHANGED <<chain, txs, toFund, page, offered, history>>

(* Mutant: an entry that fails is given up. *)
FlushFailedForGood(t, a, stored) ==
    /\ flush[t][a] # None
    /\ IF stored THEN Import(a, flush[t][a]) ELSE UNCHANGED row
    /\ toIndex' = [toIndex EXCEPT ![a] = None]
    /\ Past(t, a)
    /\ UNCHANGED <<chain, txs, toFund, page, offered, history>>

FlushFailed(t, a, stored) ==
    /\ flush[t][a] # None
    /\ IF stored THEN Import(a, flush[t][a]) ELSE UNCHANGED row
    /\ Past(t, a)
    /\ UNCHANGED <<chain, txs, storage, page, offered, history>>

(* The user does not sign the message: the entry is removed. *)
Refuse(t, a) ==
    /\ flush[t][a] # None
    /\ toIndex' = [toIndex EXCEPT ![a] = None]
    /\ refused' = refused \cup {a}
    /\ Past(t, a)
    /\ UNCHANGED <<chain, txs, row, toFund, page, offered, deleted, dropped, masked>>
-----------------------------------------------------------------------------
OnChain ==
    \/ \E i \in DOMAIN txs : LandCreate(i) \/ LandFund(i) \/ Fail(i) \/ Expire(i)
    \/ \E a \in Addresses : Pay(a) \/ Cancel(a) \/ Sweep(a) \/ Settle(a)

OnPage(t) ==
    \/ \E a \in Addresses, d \in Drafts : SubmitCampaign(t, a, d) \/ SubmitStream(t, a, d)
    \/ \E kept \in BOOLEAN : CampaignCreated(t, kept)
    \/ StreamCreated(t) \/ Posted(t)
    \/ \E stored, kept \in BOOLEAN : PostFailed(t, stored, kept)
    \/ Fund(t) \/ Decline(t) \/ Funded(t) \/ TimeOut(t) \/ Reload(t)
    \/ \E a \in Addresses : Resume(t, a) \/ Recover(t, a)

InBackground(t) ==
    \/ StartFlush(t)
    \/ \E a \in Addresses : \/ Flushed(t, a) \/ Refuse(t, a)
                            \/ \E stored \in BOOLEAN : FlushFailed(t, a, stored)

Next == OnChain \/ \E t \in Tabs : OnPage(t) \/ InBackground(t)

Spec == Init /\ [][Next]_vars

(* Tabs that are open keep trying, and a server that can be reached again  *)
(* and again answers at some time.                                         *)
LiveSpec ==
    /\ Spec
    /\ \A t \in Tabs : /\ WF_vars(StartFlush(t))
                       /\ \A a \in Addresses : SF_vars(Flushed(t, a))
=============================================================================
