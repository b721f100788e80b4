--------------------------- MODULE CreationProofs ---------------------------
(***************************************************************************)
(* Theorems about Creation, for any number of tabs, addresses, drafts and  *)
(* transactions.                                                           *)
(***************************************************************************)
EXTENDS CreationProperties, TLAPS

Tx == [kind : {"create", "fund"}, a : Addresses, d : Drafts \cup {None},
       amount : Nat, state : {"sent", "ok", "failed", "expired"}]

Page(n) == [step : Steps, a : Addresses \cup {None}, d : Drafts \cup {None}, tx : 0 .. n]

Sending(i, t, step) == page[t].step = step /\ page[t].tx = i

(* A page's address, draft and transaction go together, and no two pages   *)
(* have a transaction in common.                                           *)
PagesSound ==
    /\ \A t \in Tabs :
         /\ page[t].step # "form" => page[t].a \in Addresses /\ page[t].tx # 0
         /\ page[t].step = "form" => page[t].a = None /\ page[t].tx = 0
         /\ page[t].step \in {"creating", "posting", "created"} => page[t].d \in Drafts
         /\ page[t].step = "created" => page[t].d \notin Streams
         /\ page[t].step = "creating" =>
              /\ txs[page[t].tx].kind = "create"
              /\ txs[page[t].tx].a = page[t].a /\ txs[page[t].tx].d = page[t].d
         /\ page[t].step = "funding" =>
              txs[page[t].tx].kind = "fund" /\ txs[page[t].tx].a = page[t].a
    /\ \A t, u \in Tabs : page[t].tx = page[u].tx => t = u \/ page[t].tx = 0

(* Until one is deleted, a tree is the only one there was at its address,  *)
MadeSound == \A a \in Addresses : a \notin gone => made[a] \subseteq {tree[a]}

(* and what the one transaction that created it says.                      *)
Made(i) == txs[i].kind = "create" /\ txs[i].state = "ok"

TxsSound ==
    /\ \A i \in 1 .. Len(txs) :
         /\ txs[i].kind = "create" => txs[i].d \in Drafts
         /\ txs[i].kind = "fund" => txs[i].amount > 0
         /\ txs[i].kind = "create" /\ txs[i].state = "ok" => txs[i].d \in made[txs[i].a]
         /\ txs[i].kind = "fund" /\ txs[i].state = "ok" /\ txs[i].a \notin gone =>
              vault[txs[i].a] + paid[txs[i].a] > 0
    /\ \A i, j \in 1 .. Len(txs) :
         Made(i) /\ Made(j) /\ txs[i].a = txs[j].a /\ txs[i].a \notin gone => i = j

(* Somebody is waiting for a transaction that may still land, or was.      *)
Awaited ==
    \A i \in 1 .. Len(txs) : txs[i].state = "sent" =>
        /\ txs[i].kind = "create" =>
             \/ \E t \in Tabs : Sending(i, t, "creating")
             \/ <<txs[i].a, "index">> \in dropped /\ <<txs[i].a, "fund">> \in dropped
        /\ txs[i].kind = "fund" =>
             \/ \E t \in Tabs : Sending(i, t, "funding")
             \/ <<txs[i].a, "fund">> \in dropped

(* What is posted, queued or being flushed is what a tree was made from.   *)
DraftsMatch ==
    /\ \A a \in Addresses : toIndex[a] # None => toIndex[a] \in made[a] \/ a \in masked
    /\ \A t \in Tabs, a \in Addresses :
         flush[t][a] # None => flush[t][a] \in made[a] \/ a \in masked
    /\ \A t \in Tabs : page[t].step \in {"posting", "created"} =>
         page[t].d \in made[page[t].a] \/ page[t].a \in masked

(* A campaign has been funded if it is a stream or a transaction funded it *)
(* and not otherwise.                                                      *)
FundedBy(a, i) == txs[i].kind = "fund" /\ txs[i].a = a /\ txs[i].state = "ok"

MoneyFlows ==
    \A a \in Addresses :
        /\ tree[a] \in Streams => vault[a] + paid[a] > 0
        /\ tree[a] \notin Streams /\ vault[a] + paid[a] > 0 =>
             tree[a] # None /\ \E i \in 1 .. Len(txs) : FundedBy(a, i)

(* Nobody has heard of a first tree before the page that creates it goes   *)
(* on.                                                                     *)
Unheard(a) ==
    /\ row[a] = None /\ toIndex[a] = None /\ toFund[a] = 0
    /\ \A t \in Tabs :
         /\ offered[t][a] = 0 /\ flush[t][a] = None
         /\ page[t].step \in {"posting", "created", "funding"} => page[t].a # a
    /\ \A i \in 1 .. Len(txs) : txs[i].a = a => txs[i].kind = "create"

Landed(t, a) == /\ page[t].step = "creating" /\ page[t].a = a
                /\ txs[page[t].tx].state = "ok"

HeardOfLater ==
    \A a \in Addresses :
        tree[a] = None \/ (\E t \in Tabs : Landed(t, a)) => a \in masked \cup gone \/ Unheard(a)

IInv == /\ TypeOK /\ PagesSound /\ MadeSound /\ TxsSound /\ Awaited /\ DraftsMatch /\ MoneyFlows
        /\ HeardOfLater
        /\ RowMatchesTree /\ NothingForgotten /\ UnfundedIsListed /\ ListedIsUnfunded
-----------------------------------------------------------------------------
LEMMA Appended ==
  ASSUME NEW S, NEW q \in Seq(S), NEW e \in S
  PROVE  /\ Append(q, e) \in Seq(S) /\ Len(Append(q, e)) = Len(q) + 1
         /\ \A i \in 1 .. Len(q) : Append(q, e)[i] = q[i]
         /\ Append(q, e)[Len(q) + 1] = e
OBVIOUS

LEMMA Replaced ==
  ASSUME NEW S, NEW q \in Seq(S), NEW i \in 1 .. Len(q), NEW e \in S
  PROVE  /\ [q EXCEPT ![i] = e] \in Seq(S) /\ Len([q EXCEPT ![i] = e]) = Len(q)
         /\ \A j \in 1 .. Len(q) : j # i => [q EXCEPT ![i] = e][j] = q[j]
         /\ [q EXCEPT ![i] = e][i] = e
OBVIOUS

LEMMA Types ==
  TypeOK <=>
    /\ tree \in Queues /\ row \in Queues /\ toIndex \in Queues
    /\ vault \in [Addresses -> Nat] /\ paid \in [Addresses -> Nat]
    /\ toFund \in [Addresses -> Nat] /\ cancelled \subseteq Addresses
    /\ txs \in Seq(Tx) /\ page \in [Tabs -> Page(Len(txs))]
    /\ offered \in [Tabs -> [Addresses -> Nat]] /\ flush \in [Tabs -> Queues]
    /\ made \in [Addresses -> SUBSET Drafts] /\ gone \subseteq Addresses
    /\ dropped \subseteq Addresses \X {"index", "fund"}
    /\ masked \subseteq Addresses /\ refused \subseteq Addresses
BY DEF TypeOK, Tx, Page

(* The fields of a page and of a transaction. *)
LEMMA PageFields ==
  ASSUME TypeOK, NEW t \in Tabs
  PROVE  /\ page[t] \in Page(Len(txs)) /\ page[t].step \in Steps
         /\ page[t].a \in Addresses \cup {None} /\ page[t].d \in Drafts \cup {None}
         /\ page[t].tx \in 0 .. Len(txs) /\ Len(txs) \in Nat
         /\ page[t].tx # 0 => page[t].tx \in 1 .. Len(txs)
<1>1. page[t] \in Page(Len(txs)) /\ Len(txs) \in Nat
  BY Types
<1> QED BY <1>1 DEF Page

LEMMA TxFields ==
  ASSUME TypeOK, NEW i \in 1 .. Len(txs)
  PROVE  /\ txs[i] \in Tx /\ txs[i].kind \in {"create", "fund"} /\ txs[i].a \in Addresses
         /\ txs[i].d \in Drafts \cup {None} /\ txs[i].amount \in Nat
         /\ txs[i].state \in {"sent", "ok", "failed", "expired"}
<1>1. txs[i] \in Tx
  BY Types
<1> QED BY <1>1 DEF Tx

(* A page turns to another step. *)
Turned(t, step, a, d, i) ==
    /\ page' \in [Tabs -> Page(Len(txs'))]
    /\ page'[t].step = step /\ page'[t].a = a /\ page'[t].d = d /\ page'[t].tx = i
    /\ \A u \in Tabs : u # t => page'[u] = page[u]

LEMMA PageMoves ==
  ASSUME TypeOK, NEW t \in Tabs, NEW step \in Steps, page' = [page EXCEPT ![t].step = step],
         txs' = txs
  PROVE  Turned(t, step, page[t].a, page[t].d, page[t].tx)
<1> DEFINE new == [page[t] EXCEPT !.step = step]
<1>1. /\ new \in Page(Len(txs)) /\ new.step = step
      /\ new.a = page[t].a /\ new.d = page[t].d /\ new.tx = page[t].tx
  BY PageFields DEF Page
<1>2. page' = [page EXCEPT ![t] = new]
  OBVIOUS
<1> HIDE DEF new
<1>3. page \in [Tabs -> Page(Len(txs))]
  BY Types
<1> QED BY <1>1, <1>2, <1>3 DEF Turned

LEMMA PageIdles ==
  ASSUME TypeOK, NEW t \in Tabs, page' = [page EXCEPT ![t] = Idle], txs' = txs
  PROVE  Turned(t, "form", None, None, 0)
<1>1. /\ Idle \in Page(Len(txs)) /\ Idle.step = "form" /\ Idle.a = None /\ Idle.d = None
      /\ Idle.tx = 0
  BY Types DEF Page, Idle, Steps
<1>2. page \in [Tabs -> Page(Len(txs))]
  BY Types
<1> QED BY <1>1, <1>2 DEF Turned

(* A transaction is sent. *)
Added(t, step, kind, a, d, amount) ==
    /\ txs' \in Seq(Tx) /\ Len(txs') = Len(txs) + 1
    /\ \A i \in 1 .. Len(txs) : txs'[i] = txs[i]
    /\ LET x == txs'[Len(txs) + 1] IN
       /\ x.kind = kind /\ x.a = a /\ x.d = d /\ x.amount = amount /\ x.state = "sent"
    /\ Turned(t, step, a, d, Len(txs) + 1)

LEMMA SendAdds ==
  ASSUME TypeOK, NEW t \in Tabs, NEW step \in Steps, NEW kind \in {"create", "fund"},
         NEW a \in Addresses, NEW d \in Drafts \cup {None}, NEW amount \in Nat,
         Send(t, step, kind, a, d, amount)
  PROVE  Added(t, step, kind, a, d, amount)
<1> DEFINE x == [kind |-> kind, a |-> a, d |-> d, amount |-> amount, state |-> "sent"]
           p == [step |-> step, a |-> a, d |-> d, tx |-> Len(txs) + 1]
<1>1. txs \in Seq(Tx) /\ Len(txs) \in Nat /\ page \in [Tabs -> Page(Len(txs))]
  BY Types
<1>2. /\ x \in Tx /\ x.kind = kind /\ x.a = a /\ x.d = d /\ x.amount = amount
      /\ x.state = "sent"
  BY DEF Tx
<1>3. /\ p \in Page(Len(txs) + 1) /\ p.step = step /\ p.a = a /\ p.d = d
      /\ p.tx = Len(txs) + 1
  BY <1>1 DEF Page
<1>4. txs' = Append(txs, x) /\ page' = [page EXCEPT ![t] = p]
  BY DEF Send
<1> HIDE DEF x, p
<1>5. /\ txs' \in Seq(Tx) /\ Len(txs') = Len(txs) + 1 /\ txs'[Len(txs) + 1] = x
      /\ \A i \in 1 .. Len(txs) : txs'[i] = txs[i]
  BY <1>1, <1>2, <1>4, Appended
<1>6. Page(Len(txs)) \subseteq Page(Len(txs) + 1)
  BY <1>1 DEF Page
<1>7. /\ page' \in [Tabs -> Page(Len(txs) + 1)] /\ page'[t] = p
      /\ \A u \in Tabs : u # t => page'[u] = page[u]
  BY <1>1, <1>3, <1>4, <1>6
<1> QED BY <1>2, <1>3, <1>5, <1>7 DEF Added, Turned

(* A transaction comes to its end. *)
Ended(i, state) ==
    /\ txs' \in Seq(Tx) /\ Len(txs') = Len(txs)
    /\ \A j \in 1 .. Len(txs) : j # i => txs'[j] = txs[j]
    /\ txs'[i].kind = txs[i].kind /\ txs'[i].a = txs[i].a /\ txs'[i].d = txs[i].d
    /\ txs'[i].amount = txs[i].amount /\ txs'[i].state = state

LEMMA ResultEnds ==
  ASSUME TypeOK, NEW i \in 1 .. Len(txs), NEW state \in {"ok", "failed", "expired"},
         Result(i, state)
  PROVE  Ended(i, state)
<1> DEFINE x == [txs[i] EXCEPT !.state = state]
<1>1. /\ x \in Tx /\ x.kind = txs[i].kind /\ x.a = txs[i].a /\ x.d = txs[i].d
      /\ x.amount = txs[i].amount /\ x.state = state
  BY TxFields DEF Tx
<1>2. txs' = [txs EXCEPT ![i] = x]
  BY DEF Result
<1> HIDE DEF x
<1>3. txs \in Seq(Tx)
  BY Types
<1> QED BY <1>1, <1>2, <1>3, Replaced DEF Ended
-----------------------------------------------------------------------------
(* The steps, as far as the invariants look at them: what the chain or     *)
(* others do, *)
Sum(a) == vault[a] + paid[a]

Ledgers == tree' \in Queues /\ vault' \in [Addresses -> Nat] /\ paid' \in [Addresses -> Nat]

Others == UNCHANGED <<row, storage, page, offered, flush, dropped, masked, refused>>

Elsewhere ==
    /\ Ledgers /\ cancelled' \subseteq Addresses
    /\ \A a \in Addresses : vault'[a] + paid'[a] = Sum(a)
    /\ UNCHANGED <<tree, txs, deleted>> /\ Others

Deleted(a) ==
    /\ Ledgers /\ cancelled' \subseteq Addresses
    /\ tree'[a] = None /\ vault'[a] + paid'[a] = 0
    /\ \A b \in Addresses : b # a => tree'[b] = tree[b] /\ vault'[b] + paid'[b] = Sum(b)
    /\ gone' = gone \cup {a} /\ UNCHANGED <<made, txs>> /\ Others

Created(i) ==
    /\ txs[i].state = "sent" /\ txs[i].kind = "create" /\ tree[txs[i].a] = None
    /\ Ended(i, "ok") /\ Ledgers
    /\ tree'[txs[i].a] = txs[i].d
    /\ vault'[txs[i].a] + paid'[txs[i].a] > 0 <=> paid[txs[i].a] > 0 \/ txs[i].d \in Streams
    /\ \A a \in Addresses : a # txs[i].a => tree'[a] = tree[a] /\ vault'[a] = vault[a]
    /\ made' = [made EXCEPT ![txs[i].a] = @ \cup {txs[i].d}]
    /\ UNCHANGED <<paid, cancelled, gone>> /\ Others

Paid(i) ==
    /\ txs[i].state = "sent" /\ txs[i].kind = "fund" /\ tree[txs[i].a] # None
    /\ Ended(i, "ok") /\ Ledgers
    /\ vault'[txs[i].a] = vault[txs[i].a] + txs[i].amount
    /\ \A a \in Addresses : a # txs[i].a => vault'[a] = vault[a]
    /\ UNCHANGED <<tree, paid, cancelled, deleted>> /\ Others

Died(i) ==
    /\ txs[i].state = "sent"
    /\ \E state \in {"failed", "expired"} : Ended(i, state)
    /\ UNCHANGED <<chain, deleted>> /\ Others

(* what the pages do, *)
Heard(t, a) ==
    \/ page[t].step = "created" /\ page[t].a = a
    \/ page[t].step = "form" /\ (offered[t][a] > 0 \/ row[a] # None \/ toFund[a] > 0)

Sent(t) ==
    /\ \E a \in Addresses, d \in Drafts \cup {None}, amount \in Nat :
         \/ page[t].step = "form" /\ d \in Drafts /\ Added(t, "creating", "create", a, d, amount)
         \/ Heard(t, a) /\ amount > 0 /\ Added(t, "funding", "fund", a, d, amount)
    /\ UNCHANGED <<chain, row, storage, offered, flush, history>>

Confirming(t) ==
    /\ page[t].tx # 0 /\ txs[page[t].tx].state \in {"ok", "failed"}
    /\ masked \subseteq masked' /\ masked' \subseteq Addresses
    /\ txs[page[t].tx].state = "failed" => page[t].a \in masked'
    /\ UNCHANGED <<chain, txs, row, toIndex, flush, deleted, refused>>

Stays(t, step) == Turned(t, step, page[t].a, page[t].d, page[t].tx)
Leaves(t)      == Turned(t, "form", None, None, 0)
Drops          == dropped \subseteq dropped' /\ dropped' \subseteq Addresses \X {"index", "fund"}

Refreshed ==
    /\ offered' \in [Tabs -> [Addresses -> Nat]]
    /\ \A t \in Tabs : offered'[t] = offered[t] \/ offered'[t] = toFund'

ListedBy(t) ==
    /\ page[t].step = "creating" /\ page[t].d \notin Streams /\ Confirming(t)
    /\ Stays(t, "posting")
    /\ \/ toFund' = [toFund EXCEPT ![page[t].a] = Supply[page[t].d]]
       \/ toFund' = toFund /\ <<page[t].a, "fund">> \in dropped'
    /\ Drops /\ offered' = offered

StreamedBy(t) ==
    /\ page[t].step = "creating" /\ page[t].d \in Streams /\ Confirming(t)
    /\ Stays(t, "posting")
    /\ UNCHANGED <<toFund, dropped, offered>>

PaidBy(t) ==
    /\ page[t].step = "funding" /\ Confirming(t) /\ Leaves(t)
    /\ toFund' = [toFund EXCEPT ![page[t].a] = 0]
    /\ Refreshed /\ dropped' = dropped

Stored(a, d) == row' = row \/ Import(a, d)

PostedBy(t) == LET a == page[t].a IN
    /\ page[t].step = "posting" /\ Stored(a, page[t].d)
    /\ \/ row'[a] # None /\ toIndex' = [toIndex EXCEPT ![a] = None]
       \/ toIndex' = [toIndex EXCEPT ![a] = page[t].d]
       \/ toIndex' = toIndex /\ <<a, "index">> \in dropped'
    /\ Leaves(t) \/ (page[t].d \notin Streams /\ Stays(t, "created"))
    /\ Drops /\ Refreshed
    /\ UNCHANGED <<chain, txs, toFund, flush, deleted, masked, refused>>

Left(t) ==
    /\ Leaves(t) /\ Drops /\ Refreshed
    /\ page[t].step \in {"creating", "posting"} => <<page[t].a, "index">> \in dropped'
    /\ page[t].step \in {"creating", "funding"} => <<page[t].a, "fund">> \in dropped'
    /\ flush' \in [Tabs -> Queues]
    /\ \A u \in Tabs : flush'[u] = flush[u] \/ flush'[u] = Empty
    /\ UNCHANGED <<chain, txs, row, storage, deleted, masked, refused>>

(* and what happens in the background.                                     *)
Started ==
    /\ flush' \in [Tabs -> Queues]
    /\ \A u \in Tabs : flush'[u] = flush[u] \/ flush'[u] = toIndex
    /\ UNCHANGED <<chain, txs, row, storage, page, offered, history>>

Flushing(t, a) ==
    /\ flush[t][a] # None /\ Stored(a, flush[t][a])
    /\ \/ toIndex' = toIndex
       \/ toIndex' = [toIndex EXCEPT ![a] = None] /\ (row'[a] # None \/ a \in refused')
    /\ refused \subseteq refused' /\ refused' \subseteq Addresses
    /\ flush' \in [Tabs -> Queues]
    /\ \A u \in Tabs, b \in Addresses : flush'[u][b] = flush[u][b] \/ flush'[u][b] = None
    /\ UNCHANGED <<chain, txs, toFund, page, offered, deleted, dropped, masked>>

Cases ==
    \/ Elsewhere \/ \E a \in Addresses : Deleted(a)
    \/ \E i \in 1 .. Len(txs) : Created(i) \/ Paid(i) \/ Died(i)
    \/ \E t \in Tabs : \/ Sent(t) \/ ListedBy(t) \/ StreamedBy(t) \/ PaidBy(t)
                       \/ PostedBy(t) \/ Left(t)
    \/ Started
    \/ \E t \in Tabs, a \in Addresses : Flushing(t, a)

LEMMA ChainCases ==
  ASSUME TypeOK, OnChain \/ UNCHANGED vars
  PROVE  Cases
<1> USE Types
<1>1. CASE UNCHANGED vars
  BY <1>1 DEF vars, chain, storage, history, Elsewhere, Cases, Ledgers, Others, Sum
<1>a. ASSUME NEW a \in Addresses, Delete(a), made' = made, txs' = txs, Others PROVE Deleted(a)
  BY <1>a DEF Delete, Deleted, Ledgers, Queues, Sum
<1>b. ASSUME NEW a \in Addresses, NEW amount \in Nat, amount <= vault[a], Move(a, amount),
             cancelled' \subseteq Addresses, UNCHANGED <<tree, txs, deleted>>, Others
      PROVE  Elsewhere
  <2>1. vault[a] \in Nat /\ vault[a] - amount \in Nat /\ paid[a] \in Nat
    BY <1>b
  <2>2. vault' \in [Addresses -> Nat] /\ paid' \in [Addresses -> Nat]
    BY <1>b, <2>1 DEF Move
  <2>3. \A b \in Addresses : vault'[b] + paid'[b] = vault[b] + paid[b]
    BY <1>b, <2>1 DEF Move
  <2> QED BY <1>b, <2>2, <2>3 DEF Elsewhere, Ledgers, Sum
<1>2. ASSUME NEW a \in Addresses, Pay(a) PROVE Deleted(a) \/ Elsewhere
  <2>1. Others /\ txs' = txs /\ made' = made
    BY <1>2 DEF Pay, Others
  <2>2. CASE Delete(a)
    BY <1>a, <2>1, <2>2
  <2>3. CASE Move(a, 1) /\ UNCHANGED <<tree, cancelled, gone>>
    <3>1. 1 \in Nat /\ 1 <= vault[a] /\ cancelled' \subseteq Addresses
      BY <1>2, <2>3 DEF Pay
    <3> QED BY <1>b, <2>1, <2>3, <3>1 DEF deleted
  <2> QED BY <1>2, <2>2, <2>3 DEF Pay
<1>c. ASSUME NEW a \in Addresses, Settle(a) PROVE Deleted(a) \/ Elsewhere
  <2>1. Others /\ txs' = txs /\ made' = made
    BY <1>c DEF Settle, Others
  <2>2. CASE Delete(a)
    BY <1>a, <2>1, <2>2
  <2>3. CASE Move(a, vault[a]) /\ cancelled' = cancelled \cup {a} /\ UNCHANGED <<tree, gone>>
    <3>1. vault[a] \in Nat /\ vault[a] <= vault[a] /\ cancelled' \subseteq Addresses
      BY <2>3
    <3> QED BY <1>b, <2>1, <2>3, <3>1 DEF deleted
  <2> QED BY <1>c, <2>2, <2>3 DEF Settle
<1>d. ASSUME NEW a \in Addresses, Sweep(a) PROVE Elsewhere
  <2>1. vault[a] \in Nat /\ vault[a] <= vault[a] /\ cancelled' \subseteq Addresses
    BY <1>d DEF Sweep
  <2> QED BY <1>b, <1>d, <2>1 DEF Sweep, Others, history
<1>3. ASSUME NEW a \in Addresses, Cancel(a) PROVE Elsewhere
  BY <1>3 DEF Cancel, Elsewhere, Ledgers, Others, history, Sum
<1>4. ASSUME NEW i \in 1 .. Len(txs), LandCreate(i) PROVE Created(i)
  <2>1. Ended(i, "ok")
    BY <1>4, ResultEnds DEF LandCreate
  <2>2. /\ txs[i].a \in Addresses /\ txs[i].d \in Drafts \cup {None}
        /\ txs[i].d \in Streams => Supply[txs[i].d] \in Nat \ {0}
    BY TxFields, DraftsAssumption
  <2>3. /\ tree' = [tree EXCEPT ![txs[i].a] = txs[i].d]
        /\ vault' = [vault EXCEPT ![txs[i].a] =
                                     IF txs[i].d \in Streams THEN Supply[txs[i].d] ELSE 0]
        /\ made' = [made EXCEPT ![txs[i].a] = @ \cup {txs[i].d}]
        /\ UNCHANGED <<paid, cancelled, gone>>
        /\ txs[i].state = "sent" /\ txs[i].kind = "create" /\ tree[txs[i].a] = None
        /\ Others
    BY <1>4 DEF LandCreate, CanCreate, Others
  <2>4. Ledgers
    BY <2>2, <2>3 DEF Ledgers, Queues
  <2>5. /\ tree'[txs[i].a] = txs[i].d
        /\ vault'[txs[i].a] + paid'[txs[i].a] > 0 <=> paid[txs[i].a] > 0 \/ txs[i].d \in Streams
        /\ \A a \in Addresses : a # txs[i].a => tree'[a] = tree[a] /\ vault'[a] = vault[a]
    BY <2>2, <2>3 DEF Queues
  <2> QED BY <2>1, <2>3, <2>4, <2>5 DEF Created
<1>5. ASSUME NEW i \in 1 .. Len(txs), LandFund(i) PROVE Paid(i)
  <2>1. Ended(i, "ok")
    BY <1>5, ResultEnds DEF LandFund
  <2>2. txs[i].a \in Addresses /\ txs[i].amount \in Nat
    BY TxFields
  <2>3. /\ vault' = [vault EXCEPT ![txs[i].a] = @ + txs[i].amount]
        /\ UNCHANGED <<tree, paid, cancelled, deleted>> /\ Others
        /\ txs[i].state = "sent" /\ txs[i].kind = "fund" /\ tree[txs[i].a] # None
    BY <1>5 DEF LandFund, CanFund, Others, history
  <2>4. Ledgers
    BY <2>2, <2>3 DEF Ledgers
  <2> QED BY <2>1, <2>2, <2>3, <2>4 DEF Paid
<1>6. ASSUME NEW i \in 1 .. Len(txs), Fail(i) \/ Expire(i) PROVE Died(i)
  <2>1. \E state \in {"failed", "expired"} : Result(i, state)
    BY <1>6 DEF Fail, Expire
  <2>2. \E state \in {"failed", "expired"} : Ended(i, state)
    BY <2>1, ResultEnds
  <2> QED BY <1>6, <2>2 DEF Fail, Expire, Died, Others, history
<1>7. DOMAIN txs = 1 .. Len(txs)
  OBVIOUS
<1> QED BY <1>1, <1>2, <1>c, <1>d, <1>3, <1>4, <1>5, <1>6, <1>7 DEF OnChain, Cases

LEMMA SendCases ==
  ASSUME TypeOK, PagesSound, NEW t \in Tabs,
         \/ \E a \in Addresses, d \in Drafts : SubmitCampaign(t, a, d) \/ SubmitStream(t, a, d)
         \/ Fund(t)
         \/ \E a \in Addresses : Resume(t, a) \/ Recover(t, a)
  PROVE  Sent(t)
<1>0. /\ Supply \in [Drafts -> Nat \ {0}] /\ None \notin Drafts
      /\ \A a \in Addresses : /\ tree[a] \in Drafts \cup {None}
                              /\ vault[a] \in Nat /\ paid[a] \in Nat /\ offered[t][a] \in Nat
  BY Types, DraftsAssumption DEF Queues
<1>1. ASSUME NEW a \in Addresses, NEW d \in Drafts, SubmitCampaign(t, a, d) \/ SubmitStream(t, a, d)
      PROVE Sent(t)
  <2>1. page[t].step = "form" /\ Send(t, "creating", "create", a, d, 0)
    BY <1>1 DEF SubmitCampaign, SubmitStream
  <2>2. Added(t, "creating", "create", a, d, 0)
    BY <2>1, SendAdds DEF Steps
  <2>3. 0 \in Nat /\ d \in Drafts \cup {None}
    OBVIOUS
  <2> QED BY <1>1, <2>1, <2>2, <2>3 DEF SubmitCampaign, SubmitStream, Sent
<1>2. CASE Fund(t)
  <2> DEFINE a == page[t].a
             amount == Supply[page[t].d]
  <2>1. page[t].step = "created" /\ Send(t, "funding", "fund", a, None, amount)
    BY <1>2 DEF Fund
  <2>2. a \in Addresses /\ page[t].d \in Drafts
    BY <2>1 DEF PagesSound
  <2>3. amount \in Nat /\ amount > 0
    BY <1>0, <2>2
  <2> HIDE DEF amount
  <2>4. Added(t, "funding", "fund", a, None, amount)
    BY <2>1, <2>2, <2>3, SendAdds DEF Steps
  <2> QED BY <1>2, <2>1, <2>2, <2>3, <2>4 DEF Fund, Sent, Heard
<1>3. ASSUME NEW a \in Addresses, Resume(t, a) PROVE Sent(t)
  <2> DEFINE amount == offered[t][a]
  <2>1. page[t].step = "form" /\ amount > 0 /\ Send(t, "funding", "fund", a, None, amount)
    BY <1>3 DEF Resume
  <2>2. Added(t, "funding", "fund", a, None, amount)
    BY <1>0, <2>1, SendAdds DEF Steps
  <2> QED BY <1>0, <1>3, <2>1, <2>2 DEF Resume, Sent, Heard
<1>4. ASSUME NEW a \in Addresses, Recover(t, a) PROVE Sent(t)
  <2> DEFINE amount == Missing(a)
  <2>1. /\ page[t].step = "form" /\ amount > 0 /\ Linked(a) /\ tree[a] # None
        /\ Send(t, "funding", "fund", a, None, amount)
    BY <1>4 DEF Recover
  <2>2. amount \in Nat
    <3>1. Supply[tree[a]] \in Nat /\ vault[a] \in Nat /\ paid[a] \in Nat
      BY <1>0, <2>1
    <3> QED BY <2>1, <3>1 DEF Missing
  <2> HIDE DEF amount
  <2>3. Added(t, "funding", "fund", a, None, amount)
    BY <2>1, <2>2, SendAdds DEF Steps
  <2> QED BY <1>4, <2>1, <2>2, <2>3 DEF Recover, Linked, Sent, Heard
<1> QED BY <1>1, <1>2, <1>3, <1>4

LEMMA ConfirmCases ==
  ASSUME TypeOK, PagesSound, NEW t \in Tabs,
         (\E kept \in BOOLEAN : CampaignCreated(t, kept)) \/ StreamCreated(t) \/ Funded(t)
  PROVE  ListedBy(t) \/ StreamedBy(t) \/ PaidBy(t)
<1>0. /\ masked \subseteq Addresses /\ dropped \subseteq Addresses \X {"index", "fund"}
      /\ offered \in [Tabs -> [Addresses -> Nat]] /\ toFund \in [Addresses -> Nat]
  BY Types
<1>1. /\ page[t].step # "form" /\ page[t].a \in Addresses
      /\ page[t].tx # 0 /\ txs[page[t].tx].state \in {"ok", "failed"}
      /\ masked' = Masked(t)
  <2>1. page[t].step # "form" /\ Confirmed(t) /\ masked' = Masked(t)
    BY DEF CampaignCreated, StreamCreated, Funded
  <2> QED BY <2>1 DEF PagesSound, Confirmed
<1>2. /\ masked \subseteq masked' /\ masked' \subseteq Addresses
      /\ txs[page[t].tx].state = "failed" => page[t].a \in masked'
  BY <1>0, <1>1 DEF Masked
<1>a. UNCHANGED <<chain, txs, row, toIndex, flush, deleted, refused>>
  <2>1. ASSUME NEW kept \in BOOLEAN, CampaignCreated(t, kept)
        PROVE UNCHANGED <<chain, txs, row, toIndex, flush, deleted, refused>>
    BY <2>1 DEF CampaignCreated
  <2>2. CASE StreamCreated(t)
    BY <2>2 DEF StreamCreated, storage
  <2>3. CASE Funded(t)
    BY <2>3 DEF Funded
  <2> QED BY <2>1, <2>2, <2>3
<1>3. Confirming(t)
  BY <1>1, <1>2, <1>a DEF Confirming
<1>4. ASSUME NEW kept \in BOOLEAN, CampaignCreated(t, kept) PROVE ListedBy(t)
  <2>1. Stays(t, "posting")
    BY <1>4, PageMoves DEF CampaignCreated, Stays, Steps
  <2>2. /\ page[t].step = "creating" /\ page[t].d \notin Streams /\ offered' = offered
        /\ toFund' = IF kept THEN [toFund EXCEPT ![page[t].a] = Supply[page[t].d]] ELSE toFund
        /\ dropped' = IF kept THEN dropped ELSE dropped \cup {<<page[t].a, "fund">>}
    BY <1>4 DEF CampaignCreated, Note
  <2>3. Drops /\ (kept \/ <<page[t].a, "fund">> \in dropped')
    BY <1>0, <1>1, <2>2 DEF Drops
  <2> QED BY <1>3, <2>1, <2>2, <2>3 DEF ListedBy
<1>5. CASE StreamCreated(t)
  <2>1. Stays(t, "posting")
    BY <1>5, PageMoves DEF StreamCreated, Stays, Steps
  <2> QED BY <1>3, <1>5, <2>1 DEF StreamCreated, StreamedBy, storage
<1>6. CASE Funded(t)
  <2>1. Leaves(t)
    BY <1>6, PageIdles DEF Funded, Leaves
  <2>2. /\ page[t].step = "funding" /\ toFund' = [toFund EXCEPT ![page[t].a] = 0]
        /\ offered' = [offered EXCEPT ![t] = toFund'] /\ dropped' = dropped
    BY <1>6 DEF Funded
  <2>3. Refreshed
    BY <1>0, <1>1, <2>2 DEF Refreshed
  <2> QED BY <1>3, <2>1, <2>2, <2>3 DEF PaidBy
<1> QED BY <1>4, <1>5, <1>6

LEMMA PostCases ==
  ASSUME TypeOK, PagesSound, NEW t \in Tabs,
         Posted(t) \/ \E stored, kept \in BOOLEAN : PostFailed(t, stored, kept)
  PROVE  PostedBy(t)
<1>0. /\ dropped \subseteq Addresses \X {"index", "fund"} /\ row \in Queues
      /\ offered \in [Tabs -> [Addresses -> Nat]] /\ toFund \in [Addresses -> Nat]
      /\ None \notin Drafts
  BY Types, DraftsAssumption
<1>1. page[t].step = "posting" /\ Onward(t) /\ UNCHANGED <<chain, txs, toFund, flush, deleted, masked, refused>>
  BY DEF Posted, PostFailed, history
<1>2. page[t].a \in Addresses /\ page[t].d \in Drafts
  BY <1>1 DEF PagesSound
<1>3. Leaves(t) \/ (page[t].d \notin Streams /\ Stays(t, "created"))
  BY <1>1, PageIdles, PageMoves DEF Onward, Leaves, Stays, Steps
<1>4. Refreshed
  BY <1>0, <1>1 DEF Onward, Refreshed
<1>5. CASE Posted(t)
  <2>1. /\ Import(page[t].a, page[t].d) /\ toIndex' = [toIndex EXCEPT ![page[t].a] = None]
        /\ dropped' = dropped
    BY <1>5 DEF Posted, history
  <2>2. row'[page[t].a] # None
    BY <1>0, <1>2, <2>1 DEF Import, Queues
  <2> QED BY <1>0, <1>1, <1>3, <1>4, <2>1, <2>2 DEF PostedBy, Stored, Drops
<1>6. ASSUME NEW stored \in BOOLEAN, NEW kept \in BOOLEAN, PostFailed(t, stored, kept)
      PROVE  PostedBy(t)
  <2>1. /\ IF stored THEN Import(page[t].a, page[t].d) ELSE row' = row
        /\ toIndex' = IF kept THEN [toIndex EXCEPT ![page[t].a] = page[t].d] ELSE toIndex
        /\ dropped' = IF kept THEN dropped ELSE dropped \cup {<<page[t].a, "index">>}
    BY <1>6 DEF PostFailed, Note
  <2>2. Stored(page[t].a, page[t].d)
    BY <2>1 DEF Stored
  <2>3. Drops /\ (kept \/ <<page[t].a, "index">> \in dropped')
    BY <1>0, <1>2, <2>1 DEF Drops
  <2> QED BY <1>1, <1>3, <1>4, <2>1, <2>2, <2>3 DEF PostedBy
<1> QED BY <1>5, <1>6

LEMMA LeaveCases ==
  ASSUME TypeOK, PagesSound, NEW t \in Tabs, Decline(t) \/ TimeOut(t) \/ Reload(t)
  PROVE  Left(t)
<1>0. /\ dropped \subseteq Addresses \X {"index", "fund"} /\ flush \in [Tabs -> Queues]
      /\ offered \in [Tabs -> [Addresses -> Nat]] /\ toFund \in [Addresses -> Nat]
      /\ Empty \in Queues
  BY Types DEF Queues, Empty
<1>1. Leaves(t)
  BY PageIdles DEF Decline, TimeOut, Reload, Leaves
<1>2. Refreshed
  BY <1>0 DEF Decline, TimeOut, Reload, storage, Refreshed
<1>3. flush' \in [Tabs -> Queues] /\ \A u \in Tabs : flush'[u] = flush[u] \/ flush'[u] = Empty
  BY <1>0 DEF Decline, TimeOut, Reload
<1>4. UNCHANGED <<chain, txs, row, storage, deleted, masked, refused>>
  BY DEF Decline, TimeOut, Reload, history
<1>5. /\ Drops
      /\ page[t].step \in {"creating", "posting"} => <<page[t].a, "index">> \in dropped'
      /\ page[t].step \in {"creating", "funding"} => <<page[t].a, "fund">> \in dropped'
  <2>1. CASE Decline(t)
    BY <1>0, <2>1 DEF Decline, history, Drops
  <2>2. CASE TimeOut(t) \/ Reload(t)
    <3>1. dropped' = dropped \cup Unnoted(t)
      BY <2>2 DEF TimeOut, Reload
    <3>2. CASE page[t].step \in {"creating", "posting", "funding"}
      <4>1. page[t].a \in Addresses
        BY <3>2 DEF PagesSound
      <4> QED BY <1>0, <3>1, <3>2, <4>1 DEF Unnoted, Drops
    <3>3. CASE page[t].step \notin {"creating", "posting", "funding"}
      BY <1>0, <3>1, <3>3 DEF Unnoted, Drops
    <3> QED BY <3>2, <3>3
  <2> QED BY <2>1, <2>2
<1> QED BY <1>1, <1>2, <1>3, <1>4, <1>5 DEF Left

LEMMA FlushCases ==
  ASSUME TypeOK, NEW t \in Tabs, InBackground(t)
  PROVE  Started \/ \E a \in Addresses : Flushing(t, a)
<1>0. /\ flush \in [Tabs -> Queues] /\ toIndex \in Queues /\ row \in Queues
      /\ refused \subseteq Addresses /\ None \notin Drafts
  BY Types, DraftsAssumption
<1>1. CASE StartFlush(t)
  BY <1>0, <1>1 DEF StartFlush, Started
<1>2. ASSUME NEW a \in Addresses, flush' = [flush EXCEPT ![t][a] = None]
      PROVE  /\ flush' \in [Tabs -> Queues]
             /\ \A u \in Tabs, b \in Addresses :
                  flush'[u][b] = flush[u][b] \/ flush'[u][b] = None
  <2>1. [flush[t] EXCEPT ![a] = None] \in Queues
    BY <1>0 DEF Queues
  <2>2. flush' = [flush EXCEPT ![t] = [flush[t] EXCEPT ![a] = None]]
    BY <1>2
  <2>3. flush' \in [Tabs -> Queues]
    BY <1>0, <2>1, <2>2
  <2> QED BY <1>0, <2>2, <2>3 DEF Queues
<1>3. ASSUME NEW a \in Addresses, Flushed(t, a) PROVE Flushing(t, a)
  <2>1. /\ flush[t][a] # None /\ Import(a, flush[t][a]) /\ toIndex' = [toIndex EXCEPT ![a] = None]
        /\ flush' = [flush EXCEPT ![t][a] = None]
        /\ UNCHANGED <<chain, txs, toFund, page, offered, deleted, dropped, masked, refused>>
    BY <1>3 DEF Flushed, Past, history
  <2>2. row'[a] # None
    BY <1>0, <2>1 DEF Import, Queues
  <2> QED BY <1>0, <1>2, <2>1, <2>2 DEF Flushing, Stored
<1>4. ASSUME NEW a \in Addresses, NEW stored \in BOOLEAN, FlushFailed(t, a, stored)
      PROVE  Flushing(t, a)
  <2>1. /\ flush[t][a] # None /\ Stored(a, flush[t][a]) /\ toIndex' = toIndex
        /\ flush' = [flush EXCEPT ![t][a] = None]
        /\ UNCHANGED <<chain, txs, toFund, page, offered, deleted, dropped, masked, refused>>
    BY <1>4 DEF FlushFailed, Past, history, storage, Stored
  <2> QED BY <1>0, <1>2, <2>1 DEF Flushing
<1>5. ASSUME NEW a \in Addresses, Refuse(t, a) PROVE Flushing(t, a)
  <2>1. /\ flush[t][a] # None /\ row' = row /\ toIndex' = [toIndex EXCEPT ![a] = None]
        /\ flush' = [flush EXCEPT ![t][a] = None] /\ refused' = refused \cup {a}
        /\ UNCHANGED <<chain, txs, toFund, page, offered, deleted, dropped, masked>>
    BY <1>5 DEF Refuse, Past
  <2> QED BY <1>0, <1>2, <2>1 DEF Flushing, Stored
<1> QED BY <1>1, <1>3, <1>4, <1>5 DEF InBackground

LEMMA NextCases == TypeOK /\ PagesSound /\ [Next]_vars => Cases
<1> SUFFICES ASSUME TypeOK, PagesSound, [Next]_vars PROVE Cases
  OBVIOUS
<1>1. CASE OnChain \/ UNCHANGED vars
  BY <1>1, ChainCases
<1>2. ASSUME NEW t \in Tabs, OnPage(t) PROVE Cases
  BY <1>2, SendCases, ConfirmCases, PostCases, LeaveCases DEF OnPage, Cases
<1>3. ASSUME NEW t \in Tabs, InBackground(t) PROVE Cases
  BY <1>3, FlushCases DEF Cases
<1> QED BY <1>1, <1>2, <1>3 DEF Next
-----------------------------------------------------------------------------
(* Each part of the invariant is kept by every step. *)
TypeList ==
    /\ tree \in Queues /\ row \in Queues /\ toIndex \in Queues
    /\ vault \in [Addresses -> Nat] /\ paid \in [Addresses -> Nat]
    /\ toFund \in [Addresses -> Nat] /\ cancelled \subseteq Addresses
    /\ txs \in Seq(Tx) /\ page \in [Tabs -> Page(Len(txs))]
    /\ offered \in [Tabs -> [Addresses -> Nat]] /\ flush \in [Tabs -> Queues]
    /\ made \in [Addresses -> SUBSET Drafts] /\ gone \subseteq Addresses
    /\ dropped \subseteq Addresses \X {"index", "fund"}
    /\ masked \subseteq Addresses /\ refused \subseteq Addresses

LEMMA TypeStep ==
  ASSUME TypeOK, PagesSound, TxsSound, Cases
  PROVE  TypeOK'
<1>0. TypeList /\ None \notin Drafts /\ Supply \in [Drafts -> Nat \ {0}]
  BY Types, DraftsAssumption DEF TypeList
<1> SUFFICES TypeList'
  BY DEF TypeOK, TypeList, Tx, Page
<1>1. CASE Elsewhere
  BY <1>0, <1>1 DEF Elsewhere, Ledgers, Others, storage, deleted, TypeList
<1>a. ASSUME NEW a \in Addresses, Deleted(a) PROVE TypeList'
  BY <1>0, <1>a DEF Deleted, Ledgers, Others, storage, TypeList
<1>2. ASSUME NEW i \in 1 .. Len(txs), Created(i) \/ Paid(i) \/ Died(i) PROVE TypeList'
  <2>1. txs' \in Seq(Tx) /\ Len(txs') = Len(txs)
    BY <1>2 DEF Created, Paid, Died, Ended
  <2>2. tree' \in Queues /\ vault' \in [Addresses -> Nat] /\ paid' \in [Addresses -> Nat]
        /\ cancelled' = cancelled /\ Others
    BY <1>0, <1>2 DEF Created, Paid, Died, Ledgers, chain, TypeList
  <2>3. made' \in [Addresses -> SUBSET Drafts] /\ gone' = gone
    <3>1. CASE Created(i)
      <4>1. /\ made' = [made EXCEPT ![txs[i].a] = @ \cup {txs[i].d}] /\ gone' = gone
            /\ txs[i].kind = "create" /\ txs[i].a \in Addresses
        BY <3>1, TxFields DEF Created
      <4>2. txs[i].d \in Drafts
        BY <4>1 DEF TxsSound
      <4> QED BY <1>0, <4>1, <4>2 DEF TypeList
    <3>2. CASE Paid(i) \/ Died(i)
      BY <1>0, <3>2 DEF Paid, Died, deleted, TypeList
    <3> QED BY <1>2, <3>1, <3>2
  <2> QED BY <1>0, <2>1, <2>2, <2>3 DEF Others, storage, TypeList
<1>3. ASSUME NEW t \in Tabs, Sent(t) PROVE TypeList'
  <2>1. txs' \in Seq(Tx) /\ page' \in [Tabs -> Page(Len(txs'))]
    BY <1>3 DEF Sent, Added, Turned
  <2>2. UNCHANGED <<chain, row, storage, offered, flush, history>>
    BY <1>3 DEF Sent
  <2> QED BY <1>0, <2>1, <2>2 DEF chain, storage, history, deleted, TypeList
<1>4. ASSUME NEW t \in Tabs, ListedBy(t) \/ StreamedBy(t) \/ PaidBy(t) PROVE TypeList'
  <2>1. Confirming(t) /\ page' \in [Tabs -> Page(Len(txs'))]
    BY <1>4 DEF ListedBy, StreamedBy, PaidBy, Stays, Leaves, Turned
  <2>2. page[t].a \in Addresses /\ (page[t].step = "creating" => page[t].d \in Drafts)
    BY <1>4 DEF PagesSound, ListedBy, StreamedBy, PaidBy
  <2>3. toFund' \in [Addresses -> Nat]
    <3>1. toFund \in [Addresses -> Nat] /\ (page[t].d \in Drafts => Supply[page[t].d] \in Nat)
      BY <1>0 DEF TypeList
    <3>2. CASE ListedBy(t)
      <4>1. /\ page[t].d \in Drafts
            /\ \/ toFund' = [toFund EXCEPT ![page[t].a] = Supply[page[t].d]]
               \/ toFund' = toFund
        BY <2>2, <3>2 DEF ListedBy
      <4> QED BY <2>2, <3>1, <4>1
    <3>3. CASE StreamedBy(t) \/ PaidBy(t)
      <4>1. toFund' = toFund \/ toFund' = [toFund EXCEPT ![page[t].a] = 0]
        BY <3>3 DEF StreamedBy, PaidBy
      <4> QED BY <2>2, <3>1, <4>1
    <3> QED BY <1>4, <3>2, <3>3
  <2>4. dropped' \subseteq Addresses \X {"index", "fund"}
    BY <1>0, <1>4 DEF ListedBy, StreamedBy, PaidBy, Drops, TypeList
  <2>5. offered' \in [Tabs -> [Addresses -> Nat]]
    BY <1>0, <1>4 DEF ListedBy, StreamedBy, PaidBy, Refreshed, TypeList
  <2> QED BY <1>0, <2>1, <2>3, <2>4, <2>5 DEF Confirming, chain, deleted, TypeList
<1>5. ASSUME NEW a \in Addresses, NEW d \in Drafts, Stored(a, d) PROVE row' \in Queues
  BY <1>0, <1>5 DEF Stored, Import, Queues, TypeList
<1>6. ASSUME NEW t \in Tabs, PostedBy(t) PROVE TypeList'
  <2>1. page[t].a \in Addresses /\ page[t].d \in Drafts
    BY <1>6 DEF PagesSound, PostedBy
  <2>2. row' \in Queues
    BY <1>5, <1>6, <2>1 DEF PostedBy
  <2>3. toIndex' \in Queues
    BY <1>0, <1>6, <2>1 DEF PostedBy, Queues, TypeList
  <2>4. page' \in [Tabs -> Page(Len(txs'))] /\ offered' \in [Tabs -> [Addresses -> Nat]]
        /\ dropped' \subseteq Addresses \X {"index", "fund"}
        /\ UNCHANGED <<chain, txs, toFund, flush, deleted, masked, refused>>
    BY <1>6 DEF PostedBy, Leaves, Stays, Turned, Refreshed, Drops
  <2> QED BY <1>0, <2>2, <2>3, <2>4 DEF chain, deleted, TypeList
<1>7. ASSUME NEW t \in Tabs, Left(t) PROVE TypeList'
  BY <1>0, <1>7 DEF Left, Leaves, Turned, Refreshed, Drops, chain, storage, deleted, TypeList
<1>8. CASE Started
  BY <1>0, <1>8 DEF Started, chain, storage, history, deleted, TypeList
<1>9. ASSUME NEW t \in Tabs, NEW a \in Addresses, Flushing(t, a) PROVE TypeList'
  <2>1. flush[t][a] \in Drafts
    BY <1>0, <1>9 DEF Flushing, TypeList, Queues
  <2>2. row' \in Queues /\ toIndex' \in Queues
    BY <1>0, <1>5, <1>9, <2>1 DEF Flushing, TypeList, Queues
  <2> QED BY <1>0, <1>9, <2>2 DEF Flushing, chain, deleted, TypeList
<1> QED BY <1>1, <1>a, <1>2, <1>3, <1>4, <1>6, <1>7, <1>8, <1>9 DEF Cases

(* The steps that neither send nor turn a page, those that turn one, and   *)
(* the rest.                                                               *)
Kept == /\ Len(txs') = Len(txs)
        /\ \A i \in 1 .. Len(txs) : /\ txs'[i].kind = txs[i].kind /\ txs'[i].a = txs[i].a
                                    /\ txs'[i].d = txs[i].d /\ txs'[i].amount = txs[i].amount

Kinds ==
    \/ page' = page /\ Kept
    \/ \E t \in Tabs : /\ txs' = txs
                       /\ \/ page[t].step = "creating" /\ Stays(t, "posting")
                          \/ /\ page[t].step = "posting" /\ page[t].d \notin Streams
                             /\ Stays(t, "created")
                          \/ Leaves(t)
    \/ \E t \in Tabs : Sent(t)

LEMMA CaseKinds ==
  ASSUME TypeOK, Cases
  PROVE  Kinds
<1>1. ASSUME NEW i \in 1 .. Len(txs), Created(i) \/ Paid(i) \/ Died(i) PROVE page' = page /\ Kept
  <2>1. (\E state \in {"ok", "failed", "expired"} : Ended(i, state)) /\ page' = page
    BY <1>1 DEF Created, Paid, Died, Others
  <2> QED BY <2>1 DEF Ended, Kept
<1>2. \/ Elsewhere \/ Started \/ \E a \in Addresses : Deleted(a)
      \/ \E t \in Tabs, a \in Addresses : Flushing(t, a)
      => page' = page /\ Kept
  BY DEF Elsewhere, Deleted, Others, Started, Flushing, Kept
<1>3. ASSUME NEW t \in Tabs, ListedBy(t) \/ StreamedBy(t) \/ PaidBy(t) \/ PostedBy(t) \/ Left(t)
      PROVE  Kinds
  BY <1>3 DEF ListedBy, StreamedBy, PaidBy, PostedBy, Left, Confirming, Kinds
<1> QED BY <1>1, <1>2, <1>3 DEF Cases, Kinds

LEMMA PagesStep ==
  ASSUME TypeOK, PagesSound, Kinds
  PROVE  PagesSound'
<1>0. /\ Len(txs) \in Nat
      /\ \A t \in Tabs : page[t].tx \in 0 .. Len(txs)
      /\ \A t \in Tabs : page[t].tx # 0 => page[t].tx \in 1 .. Len(txs)
  BY PageFields, Types
<1>1. CASE page' = page /\ Kept
  BY <1>0, <1>1 DEF PagesSound, Kept
<1>2. ASSUME NEW t \in Tabs, txs' = txs,
             \/ page[t].step = "creating" /\ Stays(t, "posting")
             \/ page[t].step = "posting" /\ page[t].d \notin Streams /\ Stays(t, "created")
             \/ Leaves(t)
      PROVE  PagesSound'
  BY <1>0, <1>2 DEF PagesSound, Stays, Leaves, Turned
<1>3. ASSUME NEW t \in Tabs, Sent(t) PROVE PagesSound'
  <2>1. PICK a \in Addresses, d \in Drafts \cup {None}, amount \in Nat :
             \/ d \in Drafts /\ Added(t, "creating", "create", a, d, amount)
             \/ Added(t, "funding", "fund", a, d, amount)
    BY <1>3 DEF Sent
  <2>2. CASE d \in Drafts /\ Added(t, "creating", "create", a, d, amount)
    BY <1>0, <2>2 DEF PagesSound, Added, Turned
  <2>3. CASE Added(t, "funding", "fund", a, d, amount)
    BY <1>0, <2>3 DEF PagesSound, Added, Turned
  <2> QED BY <2>1, <2>2, <2>3
<1> QED BY <1>1, <1>2, <1>3 DEF Kinds

(* What the steps of the chain and of the pages have in common. *)
LEMMA Indices ==
  ASSUME TypeOK
  PROVE  /\ Len(txs) \in Nat /\ None \notin Drafts /\ Streams \subseteq Drafts
         /\ Supply \in [Drafts -> Nat \ {0}]
         /\ \A t \in Tabs : page[t].tx \in 0 .. Len(txs)
         /\ \A t \in Tabs : page[t].tx # 0 => page[t].tx \in 1 .. Len(txs)
         /\ \A a \in Addresses : vault[a] \in Nat /\ paid[a] \in Nat /\ tree[a] \in Drafts \cup {None}
         /\ \A i \in 1 .. Len(txs) : txs[i].a \in Addresses /\ txs[i].amount \in Nat
<1>1. \A t \in Tabs : /\ page[t].tx \in 0 .. Len(txs)
                      /\ page[t].tx # 0 => page[t].tx \in 1 .. Len(txs)
  BY PageFields
<1>2. \A i \in 1 .. Len(txs) : txs[i].a \in Addresses /\ txs[i].amount \in Nat
  BY TxFields
<1>3. /\ Len(txs) \in Nat /\ tree \in Queues
      /\ vault \in [Addresses -> Nat] /\ paid \in [Addresses -> Nat]
  BY Types
<1> QED BY <1>1, <1>2, <1>3, DraftsAssumption DEF Queues

(* What there was once, a tree but for its deletion.                       *)
LEMMA TreeStays ==
  ASSUME TypeOK, Cases
  PROVE  /\ masked \subseteq masked' /\ dropped \subseteq dropped' /\ refused \subseteq refused'
         /\ gone \subseteq gone' /\ \A a \in Addresses : made[a] \subseteq made'[a]
         /\ \A a \in Addresses : tree[a] # None => tree'[a] = tree[a] \/ a \in gone'
<1>1. ASSUME NEW i \in 1 .. Len(txs), Created(i)
      PROVE  /\ gone \subseteq gone' /\ \A a \in Addresses : made[a] \subseteq made'[a]
             /\ \A a \in Addresses : tree[a] # None => tree'[a] = tree[a]
  BY <1>1, Types DEF Created
<1>2. ASSUME NEW b \in Addresses, Deleted(b)
      PROVE  /\ gone \subseteq gone' /\ made' = made
             /\ \A a \in Addresses : tree[a] # None => tree'[a] = tree[a] \/ a \in gone'
  BY <1>2 DEF Deleted
<1>3. \/ \E i \in 1 .. Len(txs) : Created(i)
      \/ \E a \in Addresses : Deleted(a)
      \/ UNCHANGED <<tree, made, gone>>
  BY DEF Cases, Elsewhere, Paid, Died, Sent, ListedBy, StreamedBy, PaidBy, PostedBy,
         Left, Started, Flushing, Confirming, chain, history, deleted
<1>4. masked \subseteq masked' /\ dropped \subseteq dropped' /\ refused \subseteq refused'
  BY DEF Cases, Elsewhere, Deleted, Created, Paid, Died, Others, Sent, ListedBy, StreamedBy,
         PaidBy, PostedBy, Left, Started, Flushing, Confirming, Drops, history
<1> QED BY <1>1, <1>2, <1>3, <1>4

LEMMA MadeStep ==
  ASSUME TypeOK, TxsSound, MadeSound, Cases
  PROVE  MadeSound'
<1>0. made \in [Addresses -> SUBSET Drafts] /\ None \notin Drafts
  BY Types, DraftsAssumption
<1>1. ASSUME NEW i \in 1 .. Len(txs), Created(i) PROVE MadeSound'
  <2>1. /\ tree[txs[i].a] = None /\ tree'[txs[i].a] = txs[i].d /\ gone' = gone
        /\ txs[i].a \in Addresses /\ made' = [made EXCEPT ![txs[i].a] = @ \cup {txs[i].d}]
        /\ \A a \in Addresses : a # txs[i].a => tree'[a] = tree[a]
    BY <1>1, TxFields DEF Created
  <2> QED BY <1>0, <2>1 DEF MadeSound
<1>2. ASSUME NEW b \in Addresses, Deleted(b) PROVE MadeSound'
  BY <1>2 DEF Deleted, MadeSound
<1>3. \/ \E i \in 1 .. Len(txs) : Created(i)
      \/ \E a \in Addresses : Deleted(a)
      \/ UNCHANGED <<tree, made, gone>>
  BY DEF Cases, Elsewhere, Paid, Died, Sent, ListedBy, StreamedBy, PaidBy, PostedBy,
         Left, Started, Flushing, Confirming, chain, history, deleted
<1> QED BY <1>1, <1>2, <1>3 DEF MadeSound

LEMMA TxsStep ==
  ASSUME TypeOK, MadeSound, TxsSound, MoneyFlows, Cases
  PROVE  TxsSound'
<1>0. /\ Len(txs) \in Nat /\ None \notin Drafts /\ Streams \subseteq Drafts
      /\ \A a \in Addresses : vault[a] \in Nat /\ paid[a] \in Nat
      /\ \A i \in 1 .. Len(txs) : txs[i].a \in Addresses /\ txs[i].amount \in Nat
  BY Indices
<1>1. CASE Elsewhere
  BY <1>0, <1>1 DEF Elsewhere, Sum, deleted, TxsSound, Made
<1>a. ASSUME NEW b \in Addresses, Deleted(b) PROVE TxsSound'
  <2>1. /\ txs' = txs /\ made' = made /\ gone' = gone \cup {b}
        /\ \A a \in Addresses : a # b => vault'[a] + paid'[a] = vault[a] + paid[a]
    BY <1>a DEF Deleted, Sum
  <2> QED BY <1>0, <2>1 DEF TxsSound, Made
<1>2. ASSUME NEW i \in 1 .. Len(txs), Created(i) PROVE TxsSound'
  <2>1. /\ Ended(i, "ok") /\ txs[i].kind = "create" /\ txs[i].state = "sent"
        /\ tree[txs[i].a] = None /\ tree'[txs[i].a] = txs[i].d /\ paid' = paid
        /\ \A a \in Addresses : a # txs[i].a => tree'[a] = tree[a] /\ vault'[a] = vault[a]
        /\ made' = [made EXCEPT ![txs[i].a] = @ \cup {txs[i].d}] /\ gone' = gone
    BY <1>2 DEF Created
  <2>2. vault[txs[i].a] + paid[txs[i].a] = 0
    BY <1>0, <2>1 DEF MoneyFlows
  <2>3. \A j \in 1 .. Len(txs) :
            txs[j].state = "ok" /\ txs[i].a \notin gone => txs[j].a # txs[i].a
    <3> SUFFICES ASSUME NEW j \in 1 .. Len(txs), txs[j].state = "ok", txs[j].a = txs[i].a,
                        txs[i].a \notin gone
                 PROVE  FALSE
      OBVIOUS
    <3>1. txs[j].kind \in {"create", "fund"}
      BY TxFields
    <3> QED BY <1>0, <2>1, <2>2, <3>1 DEF TxsSound, MadeSound, Made
  <2>4. /\ Len(txs') = Len(txs) /\ txs[i].a \in Addresses
        /\ \A j \in 1 .. Len(txs) : /\ txs'[j].kind = txs[j].kind /\ txs'[j].a = txs[j].a
                                    /\ txs'[j].d = txs[j].d /\ txs'[j].amount = txs[j].amount
                                    /\ j # i => txs'[j].state = txs[j].state
    BY <1>0, <2>1 DEF Ended
  <2>5. ASSUME NEW j \in 1 .. Len(txs')
        PROVE  /\ txs'[j].kind = "create" => txs'[j].d \in Drafts
               /\ txs'[j].kind = "fund" => txs'[j].amount > 0
               /\ Made(j)' => txs'[j].d \in made'[txs'[j].a]
               /\ txs'[j].kind = "fund" /\ txs'[j].state = "ok" /\ txs'[j].a \notin gone' =>
                    vault'[txs'[j].a] + paid'[txs'[j].a] > 0
    <3>1. txs'[j].kind = "create" => txs'[j].d \in Drafts
      BY <2>4 DEF TxsSound
    <3>2. txs'[j].kind = "fund" => txs'[j].amount > 0
      BY <2>4 DEF TxsSound
    <3>3. Made(j)' => txs'[j].d \in made'[txs'[j].a]
      BY <1>0, <2>1, <2>4, Types DEF TxsSound, Made
    <3>4. txs'[j].kind = "fund" /\ txs'[j].state = "ok" /\ txs'[j].a \notin gone' =>
            vault'[txs'[j].a] + paid'[txs'[j].a] > 0
      BY <1>0, <2>1, <2>3, <2>4 DEF TxsSound
    <3> QED BY <3>1, <3>2, <3>3, <3>4
  <2>6. ASSUME NEW j \in 1 .. Len(txs'), NEW k \in 1 .. Len(txs'),
               Made(j)', Made(k)', txs'[j].a = txs'[k].a, txs'[j].a \notin gone'
        PROVE  j = k
    BY <2>1, <2>3, <2>4, <2>6 DEF TxsSound, Made
  <2> QED BY <2>5, <2>6 DEF TxsSound, Made
<1>3. ASSUME NEW i \in 1 .. Len(txs), Paid(i) PROVE TxsSound'
  <2>1. /\ Ended(i, "ok") /\ txs[i].kind = "fund" /\ txs[i].state = "sent"
        /\ vault'[txs[i].a] = vault[txs[i].a] + txs[i].amount
        /\ \A a \in Addresses : a # txs[i].a => vault'[a] = vault[a]
        /\ UNCHANGED <<tree, paid, made, gone>>
    BY <1>3 DEF Paid, deleted
  <2>2. txs[i].amount > 0
    BY <2>1 DEF TxsSound, Made
  <2>3. \A a \in Addresses : vault'[a] + paid'[a] >= vault[a] + paid[a]
    BY <1>0, <2>1, <2>2
  <2>4. vault'[txs[i].a] + paid'[txs[i].a] > 0
    BY <1>0, <2>1, <2>2
  <2>5. \A a \in Addresses : vault[a] + paid[a] > 0 => vault'[a] + paid'[a] > 0
    BY <1>0, <2>1, <2>2
  <2>6. \A j \in 1 .. Len(txs) :
           txs[j].kind = "fund" /\ ((txs[j].state = "ok" /\ txs[j].a \notin gone) \/ j = i) =>
             vault'[txs[j].a] + paid'[txs[j].a] > 0
    BY <1>0, <2>4, <2>5 DEF TxsSound, Made
  <2>7. /\ Len(txs') = Len(txs) /\ txs'[i].state = "ok"
        /\ \A j \in 1 .. Len(txs) : /\ txs'[j].kind = txs[j].kind /\ txs'[j].a = txs[j].a
                                    /\ txs'[j].d = txs[j].d /\ txs'[j].amount = txs[j].amount
                                    /\ j # i => txs'[j].state = txs[j].state
    BY <1>0, <2>1 DEF Ended
  <2>8. \A j \in 1 .. Len(txs) : Made(j)' <=> Made(j)
    BY <2>1, <2>7 DEF Made
  <2>9. ASSUME NEW j \in 1 .. Len(txs')
        PROVE  /\ txs'[j].kind = "create" => txs'[j].d \in Drafts
               /\ txs'[j].kind = "fund" => txs'[j].amount > 0
               /\ Made(j)' => txs'[j].d \in made'[txs'[j].a]
               /\ txs'[j].kind = "fund" /\ txs'[j].state = "ok" /\ txs'[j].a \notin gone' =>
                    vault'[txs'[j].a] + paid'[txs'[j].a] > 0
    BY <2>1, <2>6, <2>7, <2>8 DEF TxsSound, Made
  <2>10. ASSUME NEW j \in 1 .. Len(txs'), NEW k \in 1 .. Len(txs'),
                Made(j)', Made(k)', txs'[j].a = txs'[k].a, txs'[j].a \notin gone'
         PROVE  j = k
    BY <2>1, <2>7, <2>8, <2>10 DEF TxsSound
  <2> QED BY <2>9, <2>10 DEF TxsSound, Made
<1>4. ASSUME NEW i \in 1 .. Len(txs), Died(i) PROVE TxsSound'
  <2>1. /\ Len(txs') = Len(txs) /\ txs'[i].state \in {"failed", "expired"}
        /\ txs[i].state = "sent"
        /\ \A j \in 1 .. Len(txs) : /\ txs'[j].kind = txs[j].kind /\ txs'[j].a = txs[j].a
                                    /\ txs'[j].d = txs[j].d /\ txs'[j].amount = txs[j].amount
                                    /\ j # i => txs'[j].state = txs[j].state
    BY <1>0, <1>4 DEF Died, Ended
  <2>2. UNCHANGED <<vault, paid, made, gone>>
    BY <1>4 DEF Died, chain, deleted
  <2>3. \A j \in 1 .. Len(txs) : Made(j)' => Made(j)
    BY <2>1 DEF Made
  <2>4. ASSUME NEW j \in 1 .. Len(txs')
        PROVE  /\ txs'[j].kind = "create" => txs'[j].d \in Drafts
               /\ txs'[j].kind = "fund" => txs'[j].amount > 0
               /\ Made(j)' => txs'[j].d \in made'[txs'[j].a]
               /\ txs'[j].kind = "fund" /\ txs'[j].state = "ok" /\ txs'[j].a \notin gone' =>
                    vault'[txs'[j].a] + paid'[txs'[j].a] > 0
    BY <2>1, <2>2, <2>3 DEF TxsSound, Made
  <2>5. ASSUME NEW j \in 1 .. Len(txs'), NEW k \in 1 .. Len(txs'),
               Made(j)', Made(k)', txs'[j].a = txs'[k].a, txs'[j].a \notin gone'
        PROVE  j = k
    BY <2>1, <2>2, <2>3, <2>5 DEF TxsSound
  <2> QED BY <2>4, <2>5 DEF TxsSound, Made
<1>5. ASSUME NEW t \in Tabs, Sent(t) PROVE TxsSound'
  <2>1. PICK a \in Addresses, d \in Drafts \cup {None}, amount \in Nat :
             \/ d \in Drafts /\ Added(t, "creating", "create", a, d, amount)
             \/ amount > 0 /\ Added(t, "funding", "fund", a, d, amount)
    BY <1>5 DEF Sent
  <2>2. /\ Len(txs') = Len(txs) + 1 /\ \A i \in 1 .. Len(txs) : txs'[i] = txs[i]
        /\ txs'[Len(txs) + 1].state = "sent"
        /\ txs'[Len(txs) + 1].kind = "create" => txs'[Len(txs) + 1].d \in Drafts
        /\ txs'[Len(txs) + 1].kind = "fund" => txs'[Len(txs) + 1].amount > 0
    BY <2>1 DEF Added
  <2>3. UNCHANGED <<vault, paid, made, gone>>
    BY <1>5 DEF Sent, chain, history, deleted
  <2>4. \A i \in 1 .. Len(txs') : \/ i \in 1 .. Len(txs) /\ txs'[i] = txs[i]
                                  \/ i = Len(txs) + 1
    BY <1>0, <2>2
  <2>5. \A i \in 1 .. Len(txs') : /\ txs'[i].kind = "create" => txs'[i].d \in Drafts
                                  /\ txs'[i].kind = "fund" => txs'[i].amount > 0
    BY <2>2, <2>4 DEF TxsSound, Made
  <2>6. \A i \in 1 .. Len(txs') :
            txs'[i].state = "ok" => i \in 1 .. Len(txs) /\ txs'[i] = txs[i]
    BY <2>2, <2>4
  <2>7. ASSUME NEW i \in 1 .. Len(txs'), txs'[i].state = "ok"
        PROVE  /\ txs'[i].kind = "create" => txs'[i].d \in made'[txs'[i].a]
               /\ txs'[i].kind = "fund" /\ txs'[i].a \notin gone' =>
                    vault'[txs'[i].a] + paid'[txs'[i].a] > 0
    <3>1. i \in 1 .. Len(txs) /\ txs'[i] = txs[i]
      BY <2>6, <2>7
    <3> QED BY <2>3, <2>7, <3>1 DEF TxsSound, Made
  <2>8. ASSUME NEW i \in 1 .. Len(txs'), NEW j \in 1 .. Len(txs'), txs'[i].a = txs'[j].a,
               txs'[i].a \notin gone', txs'[i].kind = "create", txs'[i].state = "ok",
               txs'[j].kind = "create", txs'[j].state = "ok"
        PROVE  i = j
    <3>1. i \in 1 .. Len(txs) /\ txs'[i] = txs[i] /\ j \in 1 .. Len(txs) /\ txs'[j] = txs[j]
      BY <2>6, <2>8
    <3> QED BY <2>3, <2>8, <3>1 DEF TxsSound, Made
  <2>9. \A i \in 1 .. Len(txs') :
           /\ txs'[i].kind = "create" => txs'[i].d \in Drafts
           /\ txs'[i].kind = "fund" => txs'[i].amount > 0
           /\ txs'[i].kind = "create" /\ txs'[i].state = "ok" =>
                txs'[i].d \in made'[txs'[i].a]
           /\ txs'[i].kind = "fund" /\ txs'[i].state = "ok" /\ txs'[i].a \notin gone' =>
                vault'[txs'[i].a] + paid'[txs'[i].a] > 0
    BY <2>5, <2>7
  <2>10. \A i, j \in 1 .. Len(txs') :
            Made(i)' /\ Made(j)' /\ txs'[i].a = txs'[j].a /\ txs'[i].a \notin gone' => i = j
    BY <2>8 DEF Made
  <2> QED BY <2>9, <2>10 DEF TxsSound, Made
<1>6. UNCHANGED <<chain, txs, deleted>> => TxsSound'
  BY DEF chain, deleted, TxsSound, Made
<1> QED BY <1>1, <1>a, <1>2, <1>3, <1>4, <1>5, <1>6 DEF Cases, ListedBy, StreamedBy, PaidBy, PostedBy,
                                                 Left, Started, Flushing, Confirming, history

LEMMA AwaitedStep ==
  ASSUME TypeOK, PagesSound, Awaited, Cases
  PROVE  Awaited'
<1>0. /\ Len(txs) \in Nat
      /\ \A t \in Tabs : page[t].tx \in 0 .. Len(txs)
      /\ \A t \in Tabs : page[t].tx # 0 => page[t].tx \in 1 .. Len(txs)
  BY Indices
<1>1. ASSUME UNCHANGED <<txs, page>>, dropped \subseteq dropped' PROVE Awaited'
  BY <1>1 DEF Awaited, Sending
<1>2. ASSUME NEW i \in 1 .. Len(txs), Created(i) \/ Paid(i) \/ Died(i) PROVE Awaited'
  <2>1. PICK state \in {"ok", "failed", "expired"} : Ended(i, state)
    BY <1>2 DEF Created, Paid, Died
  <2>2. page' = page /\ dropped' = dropped
    BY <1>2 DEF Created, Paid, Died, Others, history
  <2> QED BY <1>0, <2>1, <2>2 DEF Ended, Awaited, Sending
<1>3. ASSUME NEW t \in Tabs, Sent(t) PROVE Awaited'
  <2>1. PICK a \in Addresses, d \in Drafts \cup {None}, amount \in Nat :
             \/ Added(t, "creating", "create", a, d, amount)
             \/ Added(t, "funding", "fund", a, d, amount)
    BY <1>3 DEF Sent
  <2>2. page[t].step \in {"form", "created"} /\ dropped' = dropped
    BY <1>3 DEF Sent, Heard, history
  <2>0. PICK new \in Nat : new = Len(txs) + 1
    BY <1>0
  <2>3. /\ Len(txs') = new /\ \A i \in 1 .. Len(txs) : txs'[i] = txs[i]
        /\ page'[t].tx = new /\ \A u \in Tabs : u # t => page'[u] = page[u]
        /\ txs'[new].kind = "create" => page'[t].step = "creating"
        /\ txs'[new].kind = "fund" => page'[t].step = "funding"
    BY <2>0, <2>1 DEF Added, Turned
  <2>4. \A i \in 1 .. Len(txs') : i \in 1 .. Len(txs) \/ i = new
    BY <1>0, <2>0, <2>3
  <2>5. \A i \in 1 .. Len(txs), u \in Tabs, step \in {"creating", "funding"} :
            Sending(i, u, step) => Sending(i, u, step)'
    BY <2>2, <2>3 DEF Sending
  <2>6. /\ txs'[new].kind = "create" => Sending(new, t, "creating")'
        /\ txs'[new].kind = "fund" => Sending(new, t, "funding")'
    BY <2>3 DEF Sending
  <2> QED BY <2>2, <2>3, <2>4, <2>5, <2>6 DEF Awaited
<1>4. ASSUME NEW t \in Tabs, txs' = txs, Leaves(t) \/ Stays(t, "posting") \/ Stays(t, "created"),
             dropped \subseteq dropped',
             page[t].step \in {"creating", "funding"} =>
                \/ /\ <<page[t].a, "fund">> \in dropped'
                   /\ page[t].step = "creating" => <<page[t].a, "index">> \in dropped'
                \/ txs[page[t].tx].state # "sent"
      PROVE  Awaited'
  <2> SUFFICES ASSUME NEW i \in 1 .. Len(txs), txs[i].state = "sent"
               PROVE  /\ txs[i].kind = "create" =>
                           \/ \E u \in Tabs : Sending(i, u, "creating")'
                           \/ <<txs[i].a, "index">> \in dropped' /\ <<txs[i].a, "fund">> \in dropped'
                      /\ txs[i].kind = "fund" =>
                           \/ \E u \in Tabs : Sending(i, u, "funding")'
                           \/ <<txs[i].a, "fund">> \in dropped'
    BY <1>4 DEF Awaited
  <2>1. \A u \in Tabs, step \in {"creating", "funding"} :
            Sending(i, u, step) /\ u # t => Sending(i, u, step)'
    BY <1>4 DEF Sending, Leaves, Stays, Turned
  <2>2. Sending(i, t, "creating") =>
           <<txs[i].a, "index">> \in dropped' /\ <<txs[i].a, "fund">> \in dropped'
    BY <1>0, <1>4 DEF Sending, PagesSound
  <2>3. Sending(i, t, "funding") => <<txs[i].a, "fund">> \in dropped'
    BY <1>0, <1>4 DEF Sending, PagesSound
  <2> QED BY <1>4, <2>1, <2>2, <2>3 DEF Awaited
<1>5. \/ Elsewhere \/ Started \/ \E a \in Addresses : Deleted(a)
      \/ \E t \in Tabs, a \in Addresses : Flushing(t, a)
      => Awaited'
  BY <1>1 DEF Elsewhere, Deleted, Others, Started, Flushing, history
<1>6. ASSUME NEW t \in Tabs, ListedBy(t) \/ StreamedBy(t) \/ PaidBy(t) PROVE Awaited'
  BY <1>4, <1>6 DEF ListedBy, StreamedBy, PaidBy, Confirming, Drops
<1>7. ASSUME NEW t \in Tabs, PostedBy(t) PROVE Awaited'
  BY <1>4, <1>7 DEF PostedBy, Drops
<1>8. ASSUME NEW t \in Tabs, Left(t) PROVE Awaited'
  BY <1>4, <1>8 DEF Left, Drops
<1> QED BY <1>2, <1>3, <1>5, <1>6, <1>7, <1>8 DEF Cases

(* A page whose transaction was confirmed knows what is on the chain. *)
LEMMA Confirmation ==
  ASSUME TypeOK, PagesSound, MadeSound, TxsSound, NEW t \in Tabs, Confirming(t),
         page[t].step \in {"creating", "funding"}
  PROVE  /\ page[t].a \in Addresses
         /\ page[t].step = "creating" => page[t].d \in made[page[t].a] \/ page[t].a \in masked'
         /\ \/ page[t].a \in masked' \cup gone
            \/ /\ page[t].step = "creating"
               /\ Landed(t, page[t].a) /\ tree[page[t].a] = page[t].d /\ page[t].d \in Drafts
               /\ \A u \in Tabs : u # t => ~ Landed(u, page[t].a)
            \/ page[t].step = "funding" /\ Sum(page[t].a) > 0
<1>1. /\ page[t].tx \in 1 .. Len(txs) /\ txs[page[t].tx].state \in {"ok", "failed"}
      /\ page[t].a \in Addresses
      /\ txs[page[t].tx].state = "failed" => page[t].a \in masked'
  BY Indices DEF Confirming, PagesSound
<1>2. CASE page[t].step = "creating" /\ txs[page[t].tx].state = "ok"
  <2>1. Landed(t, page[t].a) /\ page[t].d \in Drafts
    BY <1>1, <1>2 DEF Landed, PagesSound
  <2>3. page[t].d \in made[page[t].a]
    BY <1>1, <1>2 DEF PagesSound, TxsSound
  <2>4. page[t].a \in gone \/ tree[page[t].a] = page[t].d
    BY <1>1, <2>3 DEF MadeSound
  <2>2. ASSUME NEW u \in Tabs, u # t, Landed(u, page[t].a), page[t].a \notin gone PROVE FALSE
    <3>1. page[u].tx \in 1 .. Len(txs) /\ txs[page[u].tx].a = page[t].a
          /\ txs[page[u].tx].kind = "create" /\ txs[page[u].tx].state = "ok"
      BY <2>2, Indices DEF Landed, PagesSound
    <3>2. page[u].tx = page[t].tx
      BY <1>1, <1>2, <2>2, <3>1 DEF PagesSound, TxsSound, Made
    <3> QED BY <2>2, <3>1, <3>2 DEF PagesSound
  <2> QED BY <1>1, <1>2, <2>1, <2>2, <2>3, <2>4
<1>3. CASE page[t].step = "funding" /\ txs[page[t].tx].state = "ok"
  BY <1>1, <1>3 DEF PagesSound, TxsSound, Made, Sum
<1> QED BY <1>1, <1>2, <1>3

LEMMA DraftsStep ==
  ASSUME TypeOK, PagesSound, MadeSound, TxsSound, DraftsMatch, Cases
  PROVE  DraftsMatch'
<1>0. /\ None \notin Drafts /\ toIndex \in Queues /\ flush \in [Tabs -> Queues]
      /\ \A t \in Tabs : page[t].step \in {"posting", "created"} =>
                           page[t].a \in Addresses /\ page[t].d \in Drafts
  BY Types, DraftsAssumption DEF PagesSound
<1>a. masked \subseteq masked' /\ \A a \in Addresses : made[a] \subseteq made'[a]
  BY TreeStays
<1>1. ASSUME
             \A a \in Addresses : toIndex'[a] # None =>
                toIndex'[a] = toIndex[a] \/ toIndex'[a] \in made[a] \/ a \in masked',
             \A t \in Tabs, a \in Addresses : flush'[t][a] # None =>
                flush'[t][a] = flush[t][a] \/ flush'[t][a] = toIndex[a],
             \A t \in Tabs : page'[t].step \in {"posting", "created"} =>
                \/ page'[t].a \in Addresses /\ page'[t].d \in made[page'[t].a]
                \/ page'[t].a \in masked'
                \/ /\ page[t].step \in {"posting", "created"}
                   /\ page'[t].a = page[t].a /\ page'[t].d = page[t].d
      PROVE  DraftsMatch'
  <2>1. \A t \in Tabs : page'[t].step \in {"posting", "created"} =>
            \/ page'[t].a \in masked'
            \/ page'[t].a \in Addresses /\ page'[t].d \in made[page'[t].a]
    BY <1>0, <1>a, <1>1 DEF DraftsMatch
  <2> QED BY <1>a, <1>1, <2>1 DEF DraftsMatch
<1>2. CASE \/ Elsewhere \/ Started \/ \E a \in Addresses : Deleted(a)
           \/ \E i \in 1 .. Len(txs) : Created(i) \/ Paid(i) \/ Died(i)
  <2>1. /\ UNCHANGED <<toIndex, page>>
        /\ \A t \in Tabs : flush'[t] = flush[t] \/ flush'[t] = toIndex
    BY <1>2 DEF Elsewhere, Deleted, Started, Created, Paid, Died, Others, storage
  <2> QED BY <1>1, <2>1
<1>4. ASSUME NEW t \in Tabs, Sent(t) PROVE DraftsMatch'
  <2>1. UNCHANGED <<tree, masked, toIndex, flush>>
    BY <1>4 DEF Sent, chain, storage, history
  <2>2. \A u \in Tabs : u # t => page'[u] = page[u]
    BY <1>4 DEF Sent, Added, Turned
  <2>3. page'[t].step \in {"creating", "funding"}
    BY <1>4 DEF Sent, Added, Turned
  <2> QED BY <1>1, <2>1, <2>2, <2>3
<1>5. ASSUME NEW t \in Tabs, ListedBy(t) \/ StreamedBy(t) PROVE DraftsMatch'
  <2>1. /\ Confirming(t) /\ Stays(t, "posting") /\ page[t].step = "creating"
    BY <1>5 DEF ListedBy, StreamedBy
  <2>2. /\ masked \subseteq masked' /\ UNCHANGED <<tree, toIndex, flush>>
    BY <2>1 DEF Confirming, chain
  <2>3. page[t].a \in Addresses /\ (page[t].d \in made[page[t].a] \/ page[t].a \in masked')
    BY <2>1, Confirmation
  <2>4. /\ page'[t].a = page[t].a /\ page'[t].d = page[t].d
        /\ \A u \in Tabs : u # t => page'[u] = page[u]
    BY <2>1 DEF Stays, Turned
  <2> QED BY <1>1, <2>2, <2>3, <2>4
<1>6. ASSUME NEW t \in Tabs, PaidBy(t) PROVE DraftsMatch'
  BY <1>1, <1>6 DEF PaidBy, Confirming, Leaves, Turned, chain
<1>7. ASSUME NEW t \in Tabs, PostedBy(t) PROVE DraftsMatch'
  <2>1. /\ page[t].step = "posting" /\ UNCHANGED <<tree, flush, masked>>
        /\ \/ toIndex' = [toIndex EXCEPT ![page[t].a] = None]
           \/ toIndex' = [toIndex EXCEPT ![page[t].a] = page[t].d]
           \/ toIndex' = toIndex
        /\ Leaves(t) \/ Stays(t, "created")
    BY <1>7 DEF PostedBy, chain
  <2>2. page[t].d \in made[page[t].a] \/ page[t].a \in masked
    BY <2>1 DEF DraftsMatch
  <2>3. \A a \in Addresses : toIndex'[a] # None =>
            toIndex'[a] = toIndex[a] \/ toIndex'[a] \in made[a] \/ a \in masked'
    BY <1>0, <1>a, <2>1, <2>2 DEF Queues
  <2>4. \A u \in Tabs : page'[u].step \in {"posting", "created"} =>
            /\ page[u].step \in {"posting", "created"}
            /\ page'[u].a = page[u].a /\ page'[u].d = page[u].d
    BY <2>1 DEF Leaves, Stays, Turned
  <2> QED BY <1>1, <2>1, <2>3, <2>4
<1>8. ASSUME NEW t \in Tabs, Left(t) PROVE DraftsMatch'
  <2>1. UNCHANGED <<tree, masked, toIndex>> /\ Leaves(t)
    BY <1>8 DEF Left, chain, storage
  <2>2. \A u \in Tabs, a \in Addresses : flush'[u][a] = flush[u][a] \/ flush'[u][a] = None
    BY <1>8 DEF Left, Empty
  <2> QED BY <1>1, <2>1, <2>2 DEF Leaves, Turned
<1>9. ASSUME NEW t \in Tabs, NEW a \in Addresses, Flushing(t, a) PROVE DraftsMatch'
  <2>1. /\ UNCHANGED <<tree, masked, page>>
        /\ toIndex' = toIndex \/ toIndex' = [toIndex EXCEPT ![a] = None]
        /\ \A u \in Tabs, b \in Addresses : flush'[u][b] = flush[u][b] \/ flush'[u][b] = None
    BY <1>9 DEF Flushing, chain
  <2>2. \A b \in Addresses : toIndex'[b] # None => toIndex'[b] = toIndex[b]
    BY <1>0, <2>1 DEF Queues
  <2> QED BY <1>1, <2>1, <2>2
<1> QED BY <1>2, <1>4, <1>5, <1>6, <1>7, <1>8, <1>9 DEF Cases

LEMMA MoneyStep ==
  ASSUME TypeOK, MoneyFlows, Cases
  PROVE  MoneyFlows'
<1>0. /\ Len(txs) \in Nat /\ None \notin Drafts /\ Streams \subseteq Drafts
      /\ \A a \in Addresses : vault[a] \in Nat /\ paid[a] \in Nat
      /\ \A i \in 1 .. Len(txs) : txs[i].a \in Addresses /\ txs[i].amount \in Nat
  BY Indices
<1>1. ASSUME tree' = tree, \A a \in Addresses : vault'[a] + paid'[a] = Sum(a),
             \A a \in Addresses, i \in 1 .. Len(txs) :
                FundedBy(a, i) => i \in 1 .. Len(txs') /\ FundedBy(a, i)'
      PROVE  MoneyFlows'
  BY <1>1 DEF MoneyFlows, Sum
<1>2. UNCHANGED <<chain, txs>> => MoneyFlows'
  BY <1>1 DEF chain, FundedBy, Sum
<1>a. ASSUME NEW b \in Addresses, Deleted(b) PROVE MoneyFlows'
  <2>1. /\ tree'[b] = None /\ vault'[b] + paid'[b] = 0 /\ txs' = txs
        /\ \A a \in Addresses : a # b => tree'[a] = tree[a] /\ vault'[a] + paid'[a] = Sum(a)
    BY <1>a DEF Deleted
  <2>2. ASSUME NEW a \in Addresses
        PROVE  /\ tree'[a] \in Streams => vault'[a] + paid'[a] > 0
               /\ tree'[a] \notin Streams /\ vault'[a] + paid'[a] > 0 =>
                    tree'[a] # None /\ \E i \in 1 .. Len(txs') : FundedBy(a, i)'
    <3>1. CASE a = b
      BY <1>0, <2>1, <3>1
    <3>2. CASE a # b
      BY <2>1, <3>2 DEF MoneyFlows, FundedBy, Sum
    <3> QED BY <3>1, <3>2
  <2> QED BY <2>2 DEF MoneyFlows
<1>3. CASE Elsewhere
  BY <1>1, <1>3 DEF Elsewhere, FundedBy
<1>4. ASSUME NEW i \in 1 .. Len(txs), Ended(i, "ok") \/ Ended(i, "failed") \/ Ended(i, "expired"),
             txs[i].state = "sent"
      PROVE  /\ Len(txs') = Len(txs)
             /\ \A a \in Addresses, j \in 1 .. Len(txs) : FundedBy(a, j) => FundedBy(a, j)'
  BY <1>4 DEF Ended, FundedBy
<1>5. ASSUME NEW i \in 1 .. Len(txs), Created(i) PROVE MoneyFlows'
  <2>1. /\ txs[i].state = "sent" /\ txs[i].kind = "create" /\ tree[txs[i].a] = None
        /\ Ended(i, "ok") /\ tree'[txs[i].a] = txs[i].d /\ paid' = paid
        /\ vault'[txs[i].a] + paid'[txs[i].a] > 0 <=> paid[txs[i].a] > 0 \/ txs[i].d \in Streams
        /\ \A a \in Addresses : a # txs[i].a => tree'[a] = tree[a] /\ vault'[a] = vault[a]
    BY <1>5 DEF Created
  <2>2. paid[txs[i].a] = 0
    BY <1>0, <2>1 DEF MoneyFlows
  <2>3. ASSUME NEW a \in Addresses, a # txs[i].a
        PROVE  /\ tree'[a] \in Streams => vault'[a] + paid'[a] > 0
               /\ tree'[a] \notin Streams /\ vault'[a] + paid'[a] > 0 =>
                    tree'[a] # None /\ \E j \in 1 .. Len(txs') : FundedBy(a, j)'
    BY <1>4, <2>1, <2>3 DEF MoneyFlows
  <2>4. /\ tree'[txs[i].a] \in Streams => vault'[txs[i].a] + paid'[txs[i].a] > 0
        /\ tree'[txs[i].a] \notin Streams => ~ (vault'[txs[i].a] + paid'[txs[i].a] > 0)
    BY <1>0, <2>1, <2>2
  <2> QED BY <2>3, <2>4 DEF MoneyFlows
<1>6. ASSUME NEW i \in 1 .. Len(txs), Paid(i) PROVE MoneyFlows'
  <2>1. PICK b \in Addresses : b = txs[i].a
    BY <1>0
  <2>2. /\ txs[i].state = "sent" /\ txs[i].kind = "fund" /\ tree[b] # None
        /\ Ended(i, "ok") /\ vault'[b] = vault[b] + txs[i].amount
        /\ \A a \in Addresses : a # b => vault'[a] = vault[a]
        /\ tree' = tree /\ paid' = paid
    BY <1>6, <2>1 DEF Paid
  <2>3. Len(txs') = Len(txs) /\ FundedBy(b, i)'
    BY <2>1, <2>2 DEF Ended, FundedBy
  <2>4. ASSUME NEW a \in Addresses
        PROVE  /\ tree'[a] \in Streams => vault'[a] + paid'[a] > 0
               /\ tree'[a] \notin Streams /\ vault'[a] + paid'[a] > 0 =>
                    tree'[a] # None /\ \E j \in 1 .. Len(txs') : FundedBy(a, j)'
    <3>1. CASE a = b
      BY <1>0, <2>2, <2>3, <3>1 DEF MoneyFlows
    <3>2. CASE a # b
      BY <1>4, <2>2, <3>2 DEF MoneyFlows
    <3> QED BY <3>1, <3>2
  <2> QED BY <2>4 DEF MoneyFlows
<1>7. ASSUME NEW i \in 1 .. Len(txs), Died(i) PROVE MoneyFlows'
  <2>1. txs[i].state = "sent" /\ (Ended(i, "failed") \/ Ended(i, "expired")) /\ UNCHANGED chain
    BY <1>7 DEF Died
  <2> QED BY <1>1, <1>4, <2>1 DEF chain, Sum
<1>8. ASSUME NEW t \in Tabs, Sent(t) PROVE MoneyFlows'
  <2>1. /\ Len(txs') = Len(txs) + 1 /\ \A i \in 1 .. Len(txs) : txs'[i] = txs[i]
        /\ UNCHANGED chain
    BY <1>8 DEF Sent, Added
  <2> QED BY <1>0, <1>1, <2>1 DEF chain, FundedBy, Sum
<1> QED BY <1>a, <1>2, <1>3, <1>5, <1>6, <1>7, <1>8 DEF Cases, ListedBy, StreamedBy, PaidBy, PostedBy,
                                                 Left, Started, Flushing, Confirming

LEMMA HeardStep ==
  ASSUME TypeOK, PagesSound, MadeSound, TxsSound, HeardOfLater, Cases
  PROVE  HeardOfLater'
<1>0. /\ Len(txs) \in Nat /\ None \notin Drafts
      /\ \A t \in Tabs : page[t].tx \in 0 .. Len(txs)
      /\ \A t \in Tabs : page[t].tx # 0 => page[t].tx \in 1 .. Len(txs)
  BY Indices
<1>a. /\ flush \in [Tabs -> Queues] /\ row \in Queues /\ toIndex \in Queues
      /\ toFund \in [Addresses -> Nat] /\ offered \in [Tabs -> [Addresses -> Nat]]
  BY Types
<1>b. \A t \in Tabs, a \in Addresses :
          Landed(t, a) => /\ page[t].tx \in 1 .. Len(txs) /\ txs[page[t].tx].kind = "create"
                          /\ txs[page[t].tx].a = a
  BY <1>0 DEF Landed, PagesSound
<1> SUFFICES ASSUME NEW a \in Addresses, a \notin masked', a \notin gone',
                    tree'[a] = None \/ \E t \in Tabs : Landed(t, a)'
             PROVE  Unheard(a)'
  BY DEF HeardOfLater
<1>c. a \notin masked /\ a \notin gone
  BY TreeStays
<1>1. ASSUME tree[a] = None \/ \E t \in Tabs : Landed(t, a) PROVE Unheard(a)
  BY <1>1, <1>c DEF HeardOfLater
<1>2. CASE Elsewhere \/ Started \/ \E b \in Addresses : Deleted(b)
  <2>1. UNCHANGED <<txs, row, storage, page, offered>>
    BY <1>2 DEF Elsewhere, Deleted, Started, Others, chain
  <2>2. \A t \in Tabs : flush'[t] = flush[t] \/ flush'[t] = toIndex
    BY <1>2 DEF Elsewhere, Deleted, Started, Others
  <2>4. tree'[a] = tree[a]
    BY <1>2 DEF Elsewhere, Deleted, Started, chain
  <2>3. Unheard(a)
    BY <1>1, <2>1, <2>4 DEF Landed
  <2> QED BY <2>1, <2>2, <2>3 DEF Unheard, storage
<1>3. ASSUME NEW i \in 1 .. Len(txs), Created(i) \/ Paid(i) \/ Died(i) PROVE Unheard(a)'
  <2>1. /\ Len(txs') = Len(txs)
        /\ \A j \in 1 .. Len(txs) : /\ txs'[j].kind = txs[j].kind /\ txs'[j].a = txs[j].a
                                    /\ j # i => txs'[j] = txs[j]
        /\ UNCHANGED <<row, storage, page, offered, flush>>
    BY <1>3 DEF Created, Paid, Died, Ended, Others
  <2>2. Unheard(a)
    <3>1. CASE Created(i)
      <4>1. txs[i].kind = "create" /\ tree[txs[i].a] = None
            /\ \A b \in Addresses : b # txs[i].a => tree'[b] = tree[b]
        BY <3>1 DEF Created
      <4>2. CASE a = txs[i].a
        BY <1>1, <2>1, <4>1, <4>2
      <4>3. CASE a # txs[i].a
        <5>1. tree'[a] = tree[a] /\ \A t \in Tabs : Landed(t, a)' => Landed(t, a)
          BY <1>0, <2>1, <4>1, <4>3 DEF Landed, PagesSound
        <5> QED BY <1>1, <2>1, <5>1
      <4> QED BY <4>2, <4>3
    <3>2. CASE Paid(i)
      <4>1. txs[i].kind = "fund" /\ tree' = tree
        BY <3>2 DEF Paid
      <4>2. \A t \in Tabs : Landed(t, a)' => Landed(t, a)
        BY <1>0, <2>1, <4>1 DEF Landed, PagesSound
      <4> QED BY <1>1, <2>1, <4>1, <4>2
    <3>3. CASE Died(i)
      <4>1. txs'[i].state \in {"failed", "expired"} /\ tree' = tree
        BY <3>3 DEF Died, Ended, chain
      <4>2. \A t \in Tabs : Landed(t, a)' => Landed(t, a)
        BY <1>0, <2>1, <4>1 DEF Landed, PagesSound
      <4> QED BY <1>1, <2>1, <4>1, <4>2
    <3> QED BY <1>3, <3>1, <3>2, <3>3
  <2> QED BY <2>1, <2>2 DEF Unheard, storage
<1>4. ASSUME NEW t \in Tabs, Sent(t) PROVE Unheard(a)'
  <2>1. PICK b \in Addresses, d \in Drafts \cup {None}, amount \in Nat :
             \/ Added(t, "creating", "create", b, d, amount)
             \/ Heard(t, b) /\ Added(t, "funding", "fund", b, d, amount)
    BY <1>4 DEF Sent
  <2>2. PICK new \in Nat : new = Len(txs) + 1
    BY <1>0
  <2>3. /\ Len(txs') = new /\ \A i \in 1 .. Len(txs) : txs'[i] = txs[i]
        /\ page'[t].tx = new /\ \A u \in Tabs : u # t => page'[u] = page[u]
        /\ txs'[new].state = "sent" /\ page'[t].a = b /\ txs'[new].a = b
        /\ \/ txs'[new].kind = "create" /\ page'[t].step = "creating"
           \/ txs'[new].kind = "fund" /\ page'[t].step = "funding" /\ Heard(t, b)
    BY <2>1, <2>2 DEF Added, Turned
  <2>4. UNCHANGED <<tree, row, storage, offered, flush, history>>
    BY <1>4 DEF Sent, chain
  <2>5. \A u \in Tabs : Landed(u, a)' => Landed(u, a)
    BY <1>0, <2>3 DEF Landed, PagesSound
  <2>6. Unheard(a)
    BY <1>1, <2>4, <2>5
  <2>7. ~ Heard(t, a)
    BY <2>6 DEF Heard, Unheard
  <2>8. \A i \in 1 .. Len(txs') : i \in 1 .. Len(txs) \/ i = new
    BY <1>0, <2>2, <2>3
  <2>9. \A i \in 1 .. Len(txs') : txs'[i].a = a => txs'[i].kind = "create"
    BY <2>3, <2>6, <2>7, <2>8 DEF Unheard
  <2> QED BY <2>3, <2>4, <2>6, <2>7, <2>9 DEF Unheard, storage
<1>5. ASSUME NEW t \in Tabs, ListedBy(t) \/ StreamedBy(t) PROVE Unheard(a)'
  <2>1. /\ Confirming(t) /\ Stays(t, "posting") /\ page[t].step = "creating" /\ offered' = offered
        /\ \/ toFund' = [toFund EXCEPT ![page[t].a] = Supply[page[t].d]]
           \/ toFund' = toFund
    BY <1>5 DEF ListedBy, StreamedBy
  <2>2. /\ masked \subseteq masked' /\ UNCHANGED <<tree, txs, row, toIndex, flush>>
    BY <2>1 DEF Confirming, chain
  <2>3. /\ page'[t].step = "posting" /\ page'[t].a = page[t].a
        /\ \A u \in Tabs : u # t => page'[u] = page[u]
    BY <2>1 DEF Stays, Turned
  <2>4. \A u \in Tabs : Landed(u, a)' => Landed(u, a) /\ u # t
    BY <2>2, <2>3 DEF Landed
  <2>5. a # page[t].a
    BY <1>0, <1>c, <2>1, <2>2, <2>4, Confirmation
  <2>6. Unheard(a)
    BY <1>1, <2>2, <2>4
  <2>7. toFund'[a] = toFund[a]
    BY <1>a, <2>1, <2>5
  <2> QED BY <2>1, <2>2, <2>3, <2>5, <2>6, <2>7 DEF Unheard
<1>6. ASSUME NEW t \in Tabs, page[t].step # "creating" \/ Leaves(t), txs' = txs, tree' = tree,
             Leaves(t) \/ Stays(t, "created"), masked \subseteq masked'
      PROVE  /\ Unheard(a)
             /\ page[t].step \in {"posting", "created", "funding"} => page[t].a # a
             /\ \A u \in Tabs : page'[u].step \in {"posting", "created", "funding"} =>
                  page'[u].a = page[u].a
             /\ \A u \in Tabs : page'[u].step \in {"posting", "created", "funding"} /\ u # t =>
                  page[u].a # a
  <2>1. \A u \in Tabs : Landed(u, a)' => Landed(u, a)
    BY <1>6 DEF Landed, Leaves, Stays, Turned
  <2>2. Unheard(a)
    BY <1>1, <1>6, <2>1
  <2> QED BY <1>6, <2>2 DEF Unheard, Leaves, Stays, Turned
<1>7. ASSUME NEW t \in Tabs, PaidBy(t) PROVE Unheard(a)'
  <2>1. /\ page[t].step = "funding" /\ Confirming(t) /\ Leaves(t) /\ Refreshed
        /\ toFund' = [toFund EXCEPT ![page[t].a] = 0]
    BY <1>7 DEF PaidBy
  <2>2. masked \subseteq masked' /\ UNCHANGED <<tree, txs, row, toIndex, flush>>
    BY <2>1 DEF Confirming, chain
  <2>3. Unheard(a)
    BY <1>6, <2>1, <2>2
  <2>4. toFund'[a] = 0 /\ \A u \in Tabs : offered'[u][a] = 0
    BY <1>a, <2>1, <2>3 DEF Refreshed, Unheard
  <2> QED BY <2>1, <2>2, <2>3, <2>4 DEF Unheard, Leaves, Turned
<1>8. ASSUME NEW t \in Tabs, PostedBy(t) PROVE Unheard(a)'
  <2>1. /\ page[t].step = "posting" /\ Stored(page[t].a, page[t].d) /\ Refreshed
        /\ \/ toIndex' = [toIndex EXCEPT ![page[t].a] = None]
           \/ toIndex' = [toIndex EXCEPT ![page[t].a] = page[t].d]
           \/ toIndex' = toIndex
        /\ Leaves(t) \/ Stays(t, "created")
        /\ UNCHANGED <<tree, txs, toFund, flush, masked>>
    BY <1>8 DEF PostedBy, chain
  <2>2. Unheard(a) /\ page[t].a # a
    BY <1>6, <2>1
  <2>3. row'[a] = None /\ toIndex'[a] = None /\ toFund'[a] = 0
    BY <1>a, <2>1, <2>2 DEF Stored, Import, Unheard, Queues
  <2>4. \A u \in Tabs : offered'[u][a] = 0
    BY <2>1, <2>2, <2>3 DEF Refreshed, Unheard
  <2>5. \A u \in Tabs : page'[u].step \in {"posting", "created", "funding"} => page'[u].a # a
    BY <2>1, <2>2 DEF Leaves, Stays, Turned, Unheard
  <2> QED BY <2>1, <2>2, <2>3, <2>4, <2>5 DEF Unheard
<1>9. ASSUME NEW t \in Tabs, Left(t) PROVE Unheard(a)'
  <2>1. /\ Leaves(t) /\ Refreshed /\ UNCHANGED <<tree, txs, row, toIndex, toFund, masked>>
        /\ \A u \in Tabs : flush'[u] = flush[u] \/ flush'[u] = Empty
    BY <1>9 DEF Left, chain, storage
  <2>2. Unheard(a)
    BY <1>6, <2>1
  <2>3. \A u \in Tabs : offered'[u][a] = 0 /\ flush'[u][a] = None
    BY <2>1, <2>2 DEF Refreshed, Unheard, Empty
  <2> QED BY <2>1, <2>2, <2>3 DEF Unheard, Leaves, Turned
<1>10. ASSUME NEW t \in Tabs, NEW b \in Addresses, Flushing(t, b) PROVE Unheard(a)'
  <2>1. /\ flush[t][b] # None /\ Stored(b, flush[t][b])
        /\ toIndex' = toIndex \/ toIndex' = [toIndex EXCEPT ![b] = None]
        /\ \A u \in Tabs : flush'[u][a] = flush[u][a] \/ flush'[u][a] = None
        /\ UNCHANGED <<tree, txs, toFund, page, offered, masked>>
    BY <1>10 DEF Flushing, chain
  <2>2. Unheard(a)
    BY <1>1, <2>1 DEF Landed
  <2>3. a # b
    BY <2>1, <2>2 DEF Unheard
  <2>4. row'[a] = None /\ toIndex'[a] = None
    BY <1>a, <2>1, <2>2, <2>3 DEF Stored, Import, Unheard, Queues
  <2> QED BY <2>1, <2>2, <2>4 DEF Unheard
<1> QED BY <1>2, <1>3, <1>4, <1>5, <1>7, <1>8, <1>9, <1>10 DEF Cases

(* The database keeps what was stored first. *)
LEMMA RowStays ==
  ASSUME TypeOK, Cases, NEW a \in Addresses, row[a] # None
  PROVE  row'[a] = row[a]
<1>1. ASSUME NEW b \in Addresses, NEW d, Stored(b, d) PROVE row'[a] = row[a]
  BY <1>1, Types DEF Stored, Import, Queues
<1>2. ASSUME NEW t \in Tabs, PostedBy(t) PROVE row'[a] = row[a]
  <2>1. Stored(page[t].a, page[t].d)
    BY <1>2 DEF PostedBy
  <2> QED BY <2>1, Types DEF Stored, Import, Queues
<1>3. ASSUME NEW t \in Tabs, NEW b \in Addresses, Flushing(t, b) PROVE row'[a] = row[a]
  BY <1>1, <1>3 DEF Flushing
<1> QED BY <1>2, <1>3 DEF Cases, Elsewhere, Deleted, Created, Paid, Died, Others, Sent, ListedBy, StreamedBy,
                          PaidBy, Confirming, Left, Started

LEMMA RowStep ==
  ASSUME TypeOK, PagesSound, DraftsMatch, RowMatchesTree, MadeSound', Cases
  PROVE  RowMatchesTree'
<1>0. /\ None \notin Drafts /\ row \in Queues /\ masked \subseteq masked'
      /\ \A a \in Addresses : made[a] \subseteq made'[a]
      /\ \A a \in Addresses : row[a] # None => row'[a] = row[a]
  BY Types, DraftsAssumption, RowStays, TreeStays
<1> DEFINE Matched(a) == row'[a] \in made'[a] \/ a \in masked'
<1>1. \A a \in Addresses : row[a] # None => Matched(a)
  BY <1>0 DEF RowMatchesTree
<1>2. ASSUME NEW t \in Tabs, PostedBy(t)
      PROVE  \A a \in Addresses : row'[a] = row[a] \/ Matched(a)
  <2>1. /\ page[t].step = "posting" /\ page[t].a \in Addresses /\ page[t].d \in Drafts
        /\ Stored(page[t].a, page[t].d)
    BY <1>2 DEF PostedBy, PagesSound
  <2>2. page[t].d \in made[page[t].a] \/ page[t].a \in masked
    BY <2>1 DEF DraftsMatch
  <2>3. \A a \in Addresses : row'[a] = row[a] \/ (a = page[t].a /\ row'[a] = page[t].d)
    BY <1>0, <2>1 DEF Stored, Import, Queues
  <2> QED BY <1>0, <2>1, <2>2, <2>3
<1>3. ASSUME NEW t \in Tabs, NEW b \in Addresses, Flushing(t, b)
      PROVE  \A a \in Addresses : row'[a] = row[a] \/ Matched(a)
  <2>1. flush[t][b] # None /\ Stored(b, flush[t][b])
    BY <1>3 DEF Flushing
  <2>2. flush[t][b] \in made[b] \/ b \in masked
    BY <2>1 DEF DraftsMatch
  <2>3. \A a \in Addresses : row'[a] = row[a] \/ (a = b /\ row'[a] = flush[t][b])
    BY <1>0, <2>1 DEF Stored, Import, Queues
  <2> QED BY <1>0, <2>1, <2>2, <2>3
<1>4. \/ row' = row
      \/ \E t \in Tabs : PostedBy(t)
      \/ \E t \in Tabs, b \in Addresses : Flushing(t, b)
  BY DEF Cases, Elsewhere, Deleted, Created, Paid, Died, Others, Sent, ListedBy,
         StreamedBy, PaidBy, Confirming, Left, Started
<1>5. \A a \in Addresses : row'[a] # None => Matched(a)
  BY <1>1, <1>2, <1>3, <1>4
<1> QED BY <1>5 DEF MadeSound, RowMatchesTree

LEMMA ForgottenStep ==
  ASSUME TypeOK, PagesSound, Awaited, NothingForgotten, Cases
  PROVE  NothingForgotten'
<1>0. /\ None \notin Drafts /\ row \in Queues /\ toIndex \in Queues
      /\ dropped \subseteq dropped' /\ refused \subseteq refused'
      /\ \A a \in Addresses : row[a] # None => row'[a] = row[a]
  BY Types, DraftsAssumption, RowStays, TreeStays
<1> SUFFICES ASSUME NEW a \in Addresses, tree'[a] # None, row'[a] = None
             PROVE  \/ toIndex'[a] # None
                    \/ At(a, {"creating", "posting"})'
                    \/ <<a, "index">> \in dropped'
                    \/ a \in refused'
  BY DEF NothingForgotten
<1>1. row[a] = None
  BY <1>0
<1>2. ASSUME NEW i \in 1 .. Len(txs), Created(i), a = txs[i].a
      PROVE  At(a, {"creating", "posting"})' \/ <<a, "index">> \in dropped'
  <2>1. txs[i].state = "sent" /\ txs[i].kind = "create" /\ page' = page
    BY <1>2 DEF Created, Others
  <2>2. (\E t \in Tabs : Sending(i, t, "creating")) \/ <<a, "index">> \in dropped
    BY <1>2, <2>1 DEF Awaited
  <2> QED BY <1>0, <1>2, <2>1, <2>2 DEF Sending, At, PagesSound
<1>3. ASSUME ~ \E i \in 1 .. Len(txs) : Created(i) /\ a = txs[i].a
      PROVE  tree[a] # None
  BY <1>3 DEF Cases, Elsewhere, Deleted, Created, Paid, Died, Sent, ListedBy, StreamedBy, PaidBy, PostedBy,
              Left, Started, Flushing, Confirming, chain
<1>4. ASSUME tree[a] # None
      PROVE  \/ toIndex[a] # None \/ <<a, "index">> \in dropped \/ a \in refused
             \/ \E u \in Tabs : page[u].a = a /\ page[u].step \in {"creating", "posting"}
  BY <1>1, <1>4 DEF NothingForgotten, At
<1>5. ASSUME toIndex[a] # None
      PROVE  toIndex'[a] # None \/ a \in refused'
  <2>1. ASSUME NEW t \in Tabs, PostedBy(t) PROVE toIndex'[a] # None
    <3>1. /\ page[t].a \in Addresses /\ page[t].d \in Drafts
          /\ \/ row'[page[t].a] # None /\ toIndex' = [toIndex EXCEPT ![page[t].a] = None]
             \/ toIndex' = [toIndex EXCEPT ![page[t].a] = page[t].d]
             \/ toIndex' = toIndex
      BY <2>1 DEF PostedBy, PagesSound
    <3> QED BY <1>0, <1>5, <3>1 DEF Queues
  <2>2. ASSUME NEW t \in Tabs, NEW b \in Addresses, Flushing(t, b)
        PROVE  toIndex'[a] # None \/ a \in refused'
    BY <1>0, <1>5, <2>2 DEF Flushing, Queues
  <2> QED BY <1>5, <2>1, <2>2 DEF Cases, Elsewhere, Deleted, Created, Paid, Died, Others, Sent, ListedBy,
                                  StreamedBy, PaidBy, Confirming, Left, Started, storage
<1>6. ASSUME NEW u \in Tabs, page[u].a = a, page[u].step \in {"creating", "posting"}
      PROVE  \/ toIndex'[a] # None \/ <<a, "index">> \in dropped'
             \/ page'[u].a = a /\ page'[u].step \in {"creating", "posting"}
  <2>1. CASE page' = page
    BY <1>6, <2>1
  <2>2. ASSUME NEW t \in Tabs, Sent(t)
        PROVE  page'[u].a = a /\ page'[u].step \in {"creating", "posting"}
    BY <1>6, <2>2 DEF Sent, Heard, Added, Turned
  <2>3. ASSUME NEW t \in Tabs, ListedBy(t) \/ StreamedBy(t) \/ PaidBy(t)
        PROVE  page'[u].a = a /\ page'[u].step \in {"creating", "posting"}
    BY <1>6, <2>3 DEF ListedBy, StreamedBy, PaidBy, Stays, Leaves, Turned
  <2>4. ASSUME NEW t \in Tabs, PostedBy(t)
        PROVE  \/ toIndex'[a] # None \/ <<a, "index">> \in dropped'
               \/ page'[u].a = a /\ page'[u].step \in {"creating", "posting"}
    <3>1. CASE u = t
      <4>1. /\ page[t].d \in Drafts
            /\ toIndex' = [toIndex EXCEPT ![a] = page[t].d] \/ <<a, "index">> \in dropped'
        BY <1>6, <2>4, <3>1 DEF PostedBy, PagesSound
      <4> QED BY <1>0, <4>1 DEF Queues
    <3>2. CASE u # t
      BY <1>6, <2>4, <3>2 DEF PostedBy, Stays, Leaves, Turned
    <3> QED BY <3>1, <3>2
  <2>5. ASSUME NEW t \in Tabs, Left(t)
        PROVE  \/ <<a, "index">> \in dropped'
               \/ page'[u].a = a /\ page'[u].step \in {"creating", "posting"}
    BY <1>6, <2>5 DEF Left, Leaves, Turned
  <2> QED BY <2>1, <2>2, <2>3, <2>4, <2>5 DEF Cases, Elsewhere, Deleted, Created, Paid, Died, Others,
                                              Started, Flushing
<1> QED BY <1>0, <1>2, <1>3, <1>4, <1>5, <1>6 DEF At

LEMMA ListedStep ==
  ASSUME TypeOK, PagesSound, MadeSound, TxsSound, Awaited, MoneyFlows, UnfundedIsListed, Cases
  PROVE  UnfundedIsListed'
<1>0. /\ toFund \in [Addresses -> Nat]
      /\ masked \subseteq masked' /\ dropped \subseteq dropped'
      /\ \A a \in Addresses : vault[a] \in Nat /\ paid[a] \in Nat
      /\ \A i \in 1 .. Len(txs) : txs[i].a \in Addresses /\ txs[i].amount \in Nat
  BY Types, Indices, TreeStays
<1> SUFFICES ASSUME NEW a \in Addresses, a \notin gone', tree'[a] # None, vault'[a] + paid'[a] = 0
             PROVE  \/ toFund'[a] = Supply[tree'[a]] \/ At(a, {"creating"})'
                    \/ <<a, "fund">> \in dropped' \/ a \in masked'
  BY DEF UnfundedIsListed
<1>a. a \notin gone
  BY TreeStays
<1>1. ASSUME tree[a] # None, Sum(a) = 0
      PROVE  \/ toFund[a] = Supply[tree[a]] \/ <<a, "fund">> \in dropped' \/ a \in masked'
             \/ \E u \in Tabs : page[u].a = a /\ page[u].step = "creating"
  BY <1>0, <1>1, <1>a DEF UnfundedIsListed, At, Sum
<1>2. ASSUME UNCHANGED <<tree, toFund>>, vault'[a] + paid'[a] = 0 => Sum(a) = 0,
             \A u \in Tabs : page[u].a = a /\ page[u].step = "creating" =>
                \/ page'[u].a = a /\ page'[u].step = "creating"
                \/ <<a, "fund">> \in dropped' \/ a \in masked'
      PROVE  \/ toFund'[a] = Supply[tree'[a]] \/ At(a, {"creating"})'
             \/ <<a, "fund">> \in dropped' \/ a \in masked'
  BY <1>1, <1>2 DEF At
<1> DEFINE Holds == \/ toFund'[a] = Supply[tree'[a]] \/ At(a, {"creating"})'
                    \/ <<a, "fund">> \in dropped' \/ a \in masked'
<1>3. CASE Elsewhere \/ Started
  BY <1>2, <1>3 DEF Elsewhere, Started, Others, chain, storage, Sum
<1>b. ASSUME NEW b \in Addresses, Deleted(b) PROVE Holds
  <2>1. /\ tree'[a] = tree[a] /\ vault'[a] + paid'[a] = Sum(a) /\ a # b
        /\ page' = page /\ toFund' = toFund
    BY <1>b DEF Deleted, Others, storage
  <2> QED BY <1>1, <2>1 DEF At
<1>4. ASSUME NEW i \in 1 .. Len(txs), Created(i) PROVE Holds
  <2>1. /\ txs[i].state = "sent" /\ txs[i].kind = "create" /\ page' = page /\ dropped' = dropped
        /\ toFund' = toFund /\ paid' = paid
        /\ \A b \in Addresses : b # txs[i].a => tree'[b] = tree[b] /\ vault'[b] = vault[b]
    BY <1>4 DEF Created, Others, storage, history
  <2>2. CASE a = txs[i].a
    <3>1. (\E t \in Tabs : Sending(i, t, "creating")) \/ <<a, "fund">> \in dropped
      BY <2>1, <2>2 DEF Awaited
    <3> QED BY <2>1, <2>2, <3>1 DEF Sending, At, PagesSound
  <2>3. CASE a # txs[i].a
    BY <1>1, <2>1, <2>3 DEF At, Sum
  <2> QED BY <2>2, <2>3
<1>5. ASSUME NEW i \in 1 .. Len(txs), Paid(i) PROVE Holds
  <2>1. /\ UNCHANGED <<tree, toFund, page, paid>>
        /\ vault'[txs[i].a] = vault[txs[i].a] + txs[i].amount
        /\ \A b \in Addresses : b # txs[i].a => vault'[b] = vault[b]
    BY <1>5 DEF Paid, Others, storage
  <2>2. vault'[a] + paid'[a] = 0 => Sum(a) = 0
    <3>1. /\ vault[a] \in Nat /\ paid[a] \in Nat /\ txs[i].amount \in Nat /\ paid' = paid
          /\ vault'[a] = vault[a] \/ vault'[a] = vault[a] + txs[i].amount
      BY <1>0, <2>1
    <3> QED BY <3>1 DEF Sum
  <2> QED BY <1>2, <2>1, <2>2
<1>6. ASSUME NEW i \in 1 .. Len(txs), Died(i) PROVE Holds
  BY <1>2, <1>6 DEF Died, Others, chain, storage, Sum
<1>7. ASSUME NEW t \in Tabs, Sent(t) PROVE Holds
  <2>1. /\ UNCHANGED <<chain, toFund>> /\ page[t].step # "creating"
        /\ \A u \in Tabs : u # t => page'[u] = page[u]
    BY <1>7 DEF Sent, Heard, Added, Turned, storage
  <2> QED BY <1>2, <2>1 DEF chain, Sum
<1>8. ASSUME NEW t \in Tabs, ListedBy(t) PROVE Holds
  <2>1. /\ page[t].step = "creating" /\ Confirming(t) /\ Stays(t, "posting")
        /\ \/ toFund' = [toFund EXCEPT ![page[t].a] = Supply[page[t].d]]
           \/ toFund' = toFund /\ <<page[t].a, "fund">> \in dropped'
    BY <1>8 DEF ListedBy
  <2>2. UNCHANGED <<tree, vault, paid>> /\ \A u \in Tabs : u # t => page'[u] = page[u]
    BY <2>1 DEF Confirming, Stays, Turned, chain
  <2>3. CASE a = page[t].a
    <3>1. a \in masked' \/ tree[a] = page[t].d
      BY <2>1, <2>3, <1>a, Confirmation
    <3> QED BY <1>0, <2>1, <2>2, <2>3, <3>1
  <2>4. CASE a # page[t].a
    <3>1. toFund'[a] = toFund[a]
      BY <1>0, <2>1, <2>4
    <3> QED BY <1>1, <2>2, <2>4, <3>1 DEF At, Sum
  <2> QED BY <2>3, <2>4
<1>9. ASSUME NEW t \in Tabs, StreamedBy(t) PROVE Holds
  <2>1. /\ page[t].step = "creating" /\ page[t].d \in Streams /\ Confirming(t)
        /\ Stays(t, "posting") /\ toFund' = toFund
    BY <1>9 DEF StreamedBy
  <2>2. UNCHANGED <<tree, vault, paid>> /\ \A u \in Tabs : u # t => page'[u] = page[u]
    BY <2>1 DEF Confirming, Stays, Turned, chain
  <2>3. a = page[t].a => a \in masked'
    <3>1. a = page[t].a => a \in masked' \/ tree[a] = page[t].d
      BY <2>1, <1>a, Confirmation
    <3> QED BY <1>0, <2>1, <2>2, <3>1 DEF MoneyFlows
  <2> QED BY <1>2, <2>1, <2>2, <2>3 DEF Sum
<1>10. ASSUME NEW t \in Tabs, PaidBy(t) PROVE Holds
  <2>1. /\ page[t].step = "funding" /\ Confirming(t) /\ Leaves(t)
        /\ toFund' = [toFund EXCEPT ![page[t].a] = 0]
    BY <1>10 DEF PaidBy
  <2>2. UNCHANGED <<tree, vault, paid>> /\ \A u \in Tabs : u # t => page'[u] = page[u]
    BY <2>1 DEF Confirming, Leaves, Turned, chain
  <2>3. a = page[t].a => a \in masked'
    BY <1>0, <2>1, <2>2, <1>a, Confirmation DEF Sum
  <2>4. a # page[t].a => toFund'[a] = toFund[a]
    BY <1>0, <2>1
  <2> QED BY <1>1, <2>1, <2>2, <2>3, <2>4 DEF At, Sum
<1>11. ASSUME NEW t \in Tabs, PostedBy(t) PROVE Holds
  <2>1. /\ page[t].step = "posting" /\ UNCHANGED <<chain, toFund>>
        /\ Leaves(t) \/ Stays(t, "created")
    BY <1>11 DEF PostedBy
  <2> QED BY <1>2, <2>1 DEF Leaves, Stays, Turned, chain, Sum
<1>12. ASSUME NEW t \in Tabs, Left(t) PROVE Holds
  BY <1>2, <1>12 DEF Left, Leaves, Turned, chain, storage, Sum
<1>13. ASSUME NEW t \in Tabs, NEW b \in Addresses, Flushing(t, b) PROVE Holds
  BY <1>2, <1>13 DEF Flushing, chain, Sum
<1> QED BY <1>3, <1>b, <1>4, <1>5, <1>6, <1>7, <1>8, <1>9, <1>10, <1>11, <1>12, <1>13 DEF Cases

LEMMA FundsStep ==
  ASSUME TypeOK, PagesSound, MadeSound, TxsSound, Awaited, MoneyFlows, HeardOfLater, ListedIsUnfunded, Cases
  PROVE  ListedIsUnfunded'
<1>0. /\ toFund \in [Addresses -> Nat]
      /\ masked \subseteq masked' /\ dropped \subseteq dropped'
      /\ \A i \in 1 .. Len(txs) : txs[i].a \in Addresses
  BY Types, Indices, TreeStays
<1> SUFFICES ASSUME NEW a \in Addresses, a \notin gone', toFund'[a] > 0, tree'[a] # None, vault'[a] + paid'[a] > 0
             PROVE  \/ At(a, {"creating", "funding"})'
                    \/ <<a, "fund">> \in dropped' \/ a \in masked'
  BY DEF ListedIsUnfunded
<1> DEFINE Holds == \/ At(a, {"creating", "funding"})'
                    \/ <<a, "fund">> \in dropped' \/ a \in masked'
<1>a. a \notin gone
  BY TreeStays
<1>1. ASSUME toFund[a] > 0, tree[a] # None, Sum(a) > 0
      PROVE  \/ <<a, "fund">> \in dropped' \/ a \in masked'
             \/ \E u \in Tabs : page[u].a = a /\ page[u].step \in {"creating", "funding"}
  BY <1>0, <1>1, <1>a DEF ListedIsUnfunded, At, Sum
<1>2. ASSUME tree' = tree, Sum(a) > 0, toFund'[a] > 0 => toFund[a] > 0,
             \A u \in Tabs : page[u].a = a /\ page[u].step \in {"creating", "funding"} =>
                \/ page'[u].a = a /\ page'[u].step \in {"creating", "funding"}
                \/ <<a, "fund">> \in dropped' \/ a \in masked'
      PROVE  Holds
  BY <1>1, <1>2 DEF At
<1>3. CASE Elsewhere \/ Started
  BY <1>2, <1>3 DEF Elsewhere, Started, Others, chain, storage, Sum
<1>b. ASSUME NEW b \in Addresses, Deleted(b) PROVE Holds
  <2>1. /\ tree'[a] = tree[a] /\ vault'[a] + paid'[a] = Sum(a) /\ a # b
        /\ page' = page /\ toFund' = toFund
    BY <1>b DEF Deleted, Others, storage
  <2> QED BY <1>1, <2>1 DEF At
<1>4. ASSUME NEW i \in 1 .. Len(txs), Created(i) \/ Paid(i) PROVE Holds
  <2>1. /\ txs[i].state = "sent" /\ txs[i].kind \in {"create", "fund"}
        /\ page' = page /\ dropped' = dropped /\ toFund' = toFund /\ paid' = paid
        /\ \A b \in Addresses : b # txs[i].a => tree'[b] = tree[b] /\ vault'[b] = vault[b]
    BY <1>4 DEF Created, Paid, Others, storage, history
  <2>2. CASE a = txs[i].a
    <3>1. \/ \E t \in Tabs : Sending(i, t, "creating") \/ Sending(i, t, "funding")
          \/ <<a, "fund">> \in dropped
      BY <2>1, <2>2 DEF Awaited
    <3> QED BY <2>1, <2>2, <3>1 DEF Sending, At, PagesSound
  <2>3. CASE a # txs[i].a
    BY <1>1, <2>1, <2>3 DEF At, Sum
  <2> QED BY <2>2, <2>3
<1>5. ASSUME NEW i \in 1 .. Len(txs), Died(i) PROVE Holds
  BY <1>2, <1>5 DEF Died, Others, chain, storage, Sum
<1>6. ASSUME NEW t \in Tabs, Sent(t) PROVE Holds
  <2>1. /\ UNCHANGED <<chain, toFund>> /\ page[t].step \notin {"creating", "funding"}
        /\ \A u \in Tabs : u # t => page'[u] = page[u]
    BY <1>6 DEF Sent, Heard, Added, Turned, storage
  <2> QED BY <1>2, <2>1 DEF chain, Sum
<1>7. ASSUME NEW t \in Tabs, ListedBy(t) \/ StreamedBy(t) PROVE Holds
  <2>1. /\ page[t].step = "creating" /\ Confirming(t) /\ Stays(t, "posting")
        /\ \/ page[t].d \notin Streams
           \/ toFund' = toFund
        /\ toFund' = toFund \/ toFund' = [toFund EXCEPT ![page[t].a] = Supply[page[t].d]]
    BY <1>7 DEF ListedBy, StreamedBy
  <2>2. UNCHANGED <<tree, vault, paid>> /\ \A u \in Tabs : u # t => page'[u] = page[u]
    BY <2>1 DEF Confirming, Stays, Turned, chain
  <2>3. CASE a = page[t].a
    <3>1. a \in masked' \/ (Landed(t, a) /\ tree[a] = page[t].d)
      BY <2>1, <2>3, <1>a, Confirmation
    <3>2. masked \subseteq masked'
      BY <1>0
    <3>3. CASE a \notin masked'
      <4>1. Unheard(a) /\ tree[a] = page[t].d
        BY <3>1, <3>2, <3>3, <1>a DEF HeardOfLater
      <4>2. ~ \E i \in 1 .. Len(txs) : FundedBy(a, i)
        BY <4>1 DEF Unheard, FundedBy
      <4>3. page[t].d \in Streams
        BY <2>2, <4>1, <4>2 DEF MoneyFlows
      <4> QED BY <2>1, <4>1, <4>3 DEF Unheard
    <3> QED BY <3>3
  <2>4. CASE a # page[t].a
    <3>1. toFund'[a] = toFund[a]
      BY <1>0, <2>1, <2>4
    <3> QED BY <1>2, <2>2, <2>4, <3>1 DEF Sum
  <2> QED BY <2>3, <2>4
<1>8. ASSUME NEW t \in Tabs, PaidBy(t) PROVE Holds
  <2>1. /\ page[t].step = "funding" /\ Confirming(t) /\ Leaves(t) /\ page[t].a \in Addresses
        /\ toFund' = [toFund EXCEPT ![page[t].a] = 0]
    BY <1>8 DEF PaidBy, PagesSound
  <2>2. UNCHANGED <<tree, vault, paid>> /\ \A u \in Tabs : u # t => page'[u] = page[u]
    BY <2>1 DEF Confirming, Leaves, Turned, chain
  <2>3. a # page[t].a /\ toFund'[a] = toFund[a]
    BY <1>0, <2>1
  <2> QED BY <1>2, <2>1, <2>2, <2>3 DEF Sum
<1>9. ASSUME NEW t \in Tabs, PostedBy(t) PROVE Holds
  <2>1. /\ page[t].step = "posting" /\ UNCHANGED <<chain, toFund>>
        /\ Leaves(t) \/ Stays(t, "created")
    BY <1>9 DEF PostedBy
  <2> QED BY <1>2, <2>1 DEF Leaves, Stays, Turned, chain, Sum
<1>10. ASSUME NEW t \in Tabs, Left(t) PROVE Holds
  BY <1>2, <1>10 DEF Left, Leaves, Turned, chain, storage, Sum
<1>11. ASSUME NEW t \in Tabs, NEW b \in Addresses, Flushing(t, b) PROVE Holds
  BY <1>2, <1>11 DEF Flushing, chain, Sum
<1> QED BY <1>3, <1>b, <1>4, <1>5, <1>6, <1>7, <1>8, <1>9, <1>10, <1>11 DEF Cases
-----------------------------------------------------------------------------
LEMMA Initially == Init => IInv
<1> SUFFICES ASSUME Init PROVE IInv
  OBVIOUS
<1>1. /\ tree = Empty /\ row = Empty /\ toIndex = Empty /\ txs = <<>>
      /\ vault = [a \in Addresses |-> 0] /\ paid = vault /\ toFund = vault
      /\ page = [t \in Tabs |-> Idle] /\ offered = [t \in Tabs |-> toFund]
      /\ flush = [t \in Tabs |-> Empty]
      /\ made = [a \in Addresses |-> {}] /\ gone = {}
      /\ cancelled = {} /\ dropped = {} /\ masked = {} /\ refused = {}
  BY DEF Init
<1>2. Empty \in Queues /\ \A a \in Addresses : Empty[a] = None
  BY DEF Empty, Queues
<1>3. txs \in Seq(Tx) /\ Len(txs) = 0 /\ Idle \in Page(0)
  BY <1>1 DEF Idle, Page, Steps
<1>4. TypeOK
  BY <1>1, <1>2, <1>3, Types
<1>5. \A t \in Tabs : page[t] = Idle
  BY <1>1
<1>6. None \notin Streams
  BY DraftsAssumption
<1>7. PagesSound /\ MadeSound /\ TxsSound /\ Awaited /\ DraftsMatch
  BY <1>1, <1>2, <1>3, <1>5 DEF PagesSound, MadeSound, TxsSound, Made, Awaited, DraftsMatch, Idle
<1>8. MoneyFlows
  BY <1>1, <1>2, <1>6 DEF MoneyFlows
<1>9. HeardOfLater
  BY <1>1, <1>2, <1>3, <1>5 DEF HeardOfLater, Unheard, Idle
<1>10. RowMatchesTree /\ NothingForgotten /\ UnfundedIsListed /\ ListedIsUnfunded
  BY <1>1, <1>2 DEF RowMatchesTree, NothingForgotten, UnfundedIsListed, ListedIsUnfunded
<1> QED BY <1>4, <1>7, <1>8, <1>9, <1>10 DEF IInv

LEMMA Inductive == IInv /\ [Next]_vars => IInv'
<1> SUFFICES ASSUME IInv, [Next]_vars PROVE IInv'
  OBVIOUS
<1> USE DEF IInv
<1>1. Cases
  BY NextCases
<1>2. TypeOK' /\ PagesSound' /\ MadeSound'
  BY <1>1, TypeStep, CaseKinds, PagesStep, MadeStep
<1>3. TxsSound' /\ Awaited' /\ DraftsMatch' /\ MoneyFlows' /\ HeardOfLater'
  BY <1>1, TxsStep, AwaitedStep, DraftsStep, MoneyStep, HeardStep
<1>4. RowMatchesTree' /\ NothingForgotten' /\ UnfundedIsListed' /\ ListedIsUnfunded'
  BY <1>1, <1>2, RowStep, ForgottenStep, ListedStep, FundsStep
<1> QED BY <1>2, <1>3, <1>4

LEMMA Invariant == Spec => []IInv
<1>1. Init => IInv
  BY Initially
<1>2. IInv /\ [Next]_vars => IInv'
  BY Inductive
<1> QED BY <1>1, <1>2, PTL DEF Spec

(* The type invariant of the creation pages. *)
THEOREM CreationTypeCorrect == Spec => []TypeOK
<1>1. IInv => TypeOK
  BY DEF IInv
<1> QED BY <1>1, Invariant, PTL

(* Whatever is interrupted, and in however many tabs: the leaves that      *)
(* POST /api/campaigns stores are those of the tree at the address, or,    *)
(* once one was deleted, of a tree that has stood there; unless a failed   *)
(* transaction passed for a success.                                       *)
THEOREM StoredLeavesAreTheTrees == Spec => []RowMatchesTree
<1>1. IInv => RowMatchesTree
  BY DEF IInv
<1> QED BY <1>1, Invariant, PTL

(* useCreateCampaign loses no campaign between the transaction and the     *)
(* POST, but for a page that was left meanwhile.                           *)
THEOREM NoCampaignIsForgotten == Spec => []NothingForgotten
<1>1. IInv => NothingForgotten
  BY DEF IInv
<1> QED BY <1>1, Invariant, PTL

(* pending-fund lists every campaign that was created and not funded. *)
THEOREM EveryUnfundedIsListed == Spec => []UnfundedIsListed
<1>1. IInv => UnfundedIsListed
  BY DEF IInv
<1> QED BY <1>1, Invariant, PTL

(* And no other, so that "Resume funding" pays what is missing.            *)
THEOREM NothingListedTwice == Spec => []ListedIsUnfunded
<1>1. IInv => ListedIsUnfunded
  BY DEF IInv
<1> QED BY <1>1, Invariant, PTL
=============================================================================
