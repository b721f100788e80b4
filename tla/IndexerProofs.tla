--------------------------- MODULE IndexerProofs ---------------------------
(***************************************************************************)
(* What the database says is what happened: the facts of the log, of the   *)
(* invocations that read it and of the rows they write, and from them the  *)
(* properties of the indexer for any number of campaigns, invocations and  *)
(* transactions, any page size and any clocks.                             *)
(***************************************************************************)
EXTENDS IndexerProperties, FiniteSetTheorems, TLAPS

(* ------------------------- the inductive invariant ---------------------- *)

(* What the log tells. *)
Recorded ==
    UNION {{[sig |-> sig, event |-> log[sig].events[k]] : k \in DOMAIN log[sig].events} :
              sig \in DOMAIN log}

(* Blocks follow one another. *)
LogInOrder ==
    /\ \A sig \in DOMAIN log : log[sig].slot <= slot
    /\ \A a, b \in DOMAIN log : a <= b => log[a].slot <= log[b].slot

(* An event tells a fact of its account, and the account keeps it.         *)
True(e, account) ==
    /\ e.kind = "claimed" => e.value \in 1 .. account.total_claimed
    /\ e.kind \in {"campaign_cancelled", "instant_refunded", "stream_cancelled"} =>
         account.cancelled_at # None /\ e.at = account.cancelled_at
    /\ e.kind = "instant_refunded" => account.instant_refunded
    /\ e.kind = "stream_cancelled" =>
         account.drained /\ e.value \in 0 .. account.total_claimed
    /\ e.kind = "root_updated" => e.value \in Roots

EventsTrue ==
    \A entry \in Recorded : entry.event.at <= slot /\ True(entry.event, chain[entry.event.tree])

(* No claim is told twice; a campaign is settled once, after its claims.   *)
EventsDistinct ==
    \A e1, e2 \in Recorded : e1.event.tree = e2.event.tree =>
        /\ e1.event.kind = "claimed" /\ e2.event.kind = "claimed"
             /\ e1.event.value = e2.event.value => e1 = e2
        /\ e1.event.kind = "stream_cancelled" /\ e2.event.kind = "stream_cancelled" => e1 = e2
        /\ e1.event.kind = "claimed" /\ e2.event.kind = "stream_cancelled" =>
             e1.event.value + e2.event.value <= chain[e1.event.tree].total_claimed

LogInv == ChainTypeOK /\ LogInOrder /\ EventsTrue /\ EventsDistinct

(* What an invocation has in hand, what is stored and what pages have      *)
(* written come from the log.                                              *)
InHand(me) ==
    /\ me.page \subseteq DOMAIN log
    /\ me.before # None => me.before \in DOMAIN log
    /\ \A k \in DOMAIN me.events : [sig |-> me.sig, event |-> me.events[k]] \in Recorded

FromTheLog ==
    /\ tables \subseteq Recorded /\ IsFiniteSet(tables)
    /\ patched \subseteq Recorded
    /\ \A w \in Workers : worker[w] # Idle => InHand(worker[w])

SettlementStored(t) ==
    \E entry \in tables : entry.event.tree = t /\ entry.event.kind = "stream_cancelled"

(* The row lies between what is stored and what happened, and keeps room   *)
(* for a settlement that is not stored yet.                                *)
RowBetween(t) ==
    /\ rows[t].cancelled_at # None =>
         /\ chain[t].cancelled_at # None
         /\ rows[t].cancelled_at - chain[t].cancelled_at \in 0 .. Skew
    /\ rows[t].instant_refunded => chain[t].instant_refunded
    /\ ~SettledByPage(t) => rows[t].total_claimed <= chain[t].total_claimed
    /\ ~SettlementStored(t) =>
         /\ rows[t].total_claimed <= Supply
         /\ ~SettledByPage(t) => \A entry \in Recorded :
              entry.event.tree = t /\ entry.event.kind = "stream_cancelled" =>
                rows[t].total_claimed + entry.event.value <= chain[t].total_claimed
    /\ \A entry \in tables : entry.event.tree = t =>
         /\ entry.event.kind = "claimed" => entry.event.value <= rows[t].total_claimed
         /\ entry.event.kind \in {"campaign_cancelled", "stream_cancelled", "instant_refunded"} =>
              rows[t].cancelled_at # None
         /\ entry.event.kind = "instant_refunded" => rows[t].instant_refunded

RowsInv ==
    \A t \in Trees :
        IF rows[t] = NoRow THEN \A entry \in tables : entry.event.tree # t ELSE RowBetween(t)

(* What is left to do of a pass: the events in hand, the transactions of   *)
(* the page, and the pages below the cursor.                               *)
Pending(me, entry) ==
    \/ entry.sig = me.sig /\ \E k \in DOMAIN me.events : me.events[k] = entry.event
    \/ entry.sig \in me.page
    \/ me.more /\ (me.before # None => entry.sig < me.before)

Owes(me, entry) ==
    /\ entry \in Recorded /\ entry.sig \in Visible
    /\ rows[entry.event.tree] # NoRow
    /\ me # Idle /\ ~me.claims_only
    /\ me.start = 0 \/ log[entry.sig].slot > me.start
    /\ Covered(entry) \/ Pending(me, entry)

OwedInv == \A w \in Workers : \A entry \in owed[w] : Owes(worker[w], entry)

Inv == TypeOK /\ LogInv /\ FromTheLog /\ RowsInv /\ OwedInv

(* ------------------------------- the log -------------------------------- *)

LEMMA RecordedIs ==
    \A entry : entry \in Recorded <=>
        \E sig \in DOMAIN log : \E k \in DOMAIN log[sig].events :
            entry = [sig |-> sig, event |-> log[sig].events[k]]
BY DEF Recorded

LEMMA RecordedFields ==
    ASSUME ChainTypeOK
    PROVE  \A entry \in Recorded :
             /\ entry \in Entry /\ entry.event \in EventType
             /\ entry.sig \in DOMAIN log
             /\ \E k \in DOMAIN log[entry.sig].events : log[entry.sig].events[k] = entry.event
<1> SUFFICES ASSUME NEW entry \in Recorded
             PROVE  /\ entry \in Entry /\ entry.event \in EventType
                    /\ entry.sig \in DOMAIN log
                    /\ \E k \in DOMAIN log[entry.sig].events : log[entry.sig].events[k] = entry.event
  OBVIOUS
<1>1. PICK sig \in DOMAIN log : \E k \in DOMAIN log[sig].events :
            entry = [sig |-> sig, event |-> log[sig].events[k]]
  BY RecordedIs
<1>2. PICK k \in DOMAIN log[sig].events : entry = [sig |-> sig, event |-> log[sig].events[k]]
  BY <1>1
<1>3. sig \in Nat /\ log[sig].events \in Seq(EventType)
  <2>1. log \in Seq(Transaction)
    BY DEF ChainTypeOK
  <2>2. DOMAIN log = 1 .. Len(log) /\ log[sig] \in Transaction
    BY <2>1
  <2> QED BY <2>2 DEF Transaction
<1>4. log[sig].events[k] \in EventType
  BY <1>2, <1>3
<1> QED BY <1>2, <1>3, <1>4 DEF Entry

(* What a call that emits events leaves of the log: whatever it held, and  *)
(* in one transaction the events.                                          *)
LEMMA EmitWrites ==
    ASSUME ChainTypeOK, LogInOrder, NEW events \in Seq(EventType), Emit(events)
    PROVE  /\ slot' = slot
           /\ log' \in Seq(Transaction)
           /\ LogInOrder'
           /\ \A sig \in DOMAIN log : sig \in DOMAIN log' /\ log'[sig].slot = log[sig].slot
           /\ Recorded \subseteq Recorded'
           /\ \E new \in DOMAIN log' : \A entry \in Recorded' :
                entry \in Recorded \/ (entry.sig = new /\ \E j \in DOMAIN events : entry.event = events[j])
<1>0. log \in Seq(Transaction) /\ slot \in Nat /\ slot' = slot
  BY DEF ChainTypeOK, Emit
<1>1. CASE log' = Append(log, [slot |-> slot, events |-> events])
  <2> DEFINE new == Len(log) + 1
  <2>1. [slot |-> slot, events |-> events] \in Transaction
    BY <1>0 DEF Transaction
  <2>2. /\ log' \in Seq(Transaction) /\ DOMAIN log' = 1 .. new /\ DOMAIN log = 1 .. Len(log) /\ Len(log) \in Nat
        /\ log'[new] = [slot |-> slot, events |-> events]
        /\ \A sig \in DOMAIN log : sig \in DOMAIN log' /\ log'[sig] = log[sig]
    BY <1>0, <1>1, <2>1
  <2>3. LogInOrder'
    <3>1. \A sig \in DOMAIN log' : sig \in DOMAIN log \/ sig = new
      BY <2>2
    <3>2. \A sig \in DOMAIN log' : log'[sig].slot <= slot'
      <4>1. log'[new].slot = slot'
        BY <1>0, <2>2
      <4>2. \A sig \in DOMAIN log : log'[sig].slot <= slot'
        BY <1>0, <2>2 DEF LogInOrder
      <4> QED BY <4>1, <4>2, <3>1, <1>0
    <3>3. ASSUME NEW a \in DOMAIN log', NEW b \in DOMAIN log', a <= b
          PROVE  log'[a].slot <= log'[b].slot
      <4>1. CASE b = new
        BY <4>1, <1>0, <2>2, <3>2
      <4>2. CASE b \in DOMAIN log
        BY <4>2, <3>3, <2>2 DEF LogInOrder
      <4> QED BY <4>1, <4>2, <3>1
    <3> QED BY <3>2, <3>3 DEF LogInOrder
  <2>4. \A entry : entry \in Recorded' <=>
          \E sig \in DOMAIN log' : \E k \in DOMAIN log'[sig].events :
            entry = [sig |-> sig, event |-> log'[sig].events[k]]
    BY DEF Recorded
  <2>5. Recorded \subseteq Recorded'
    BY <2>2, <2>4, RecordedIs
  <2>6. ASSUME NEW entry \in Recorded'
        PROVE  entry \in Recorded \/ (entry.sig = new /\ \E j \in DOMAIN events : entry.event = events[j])
    <3>1. PICK sig \in DOMAIN log' : \E k \in DOMAIN log'[sig].events :
            entry = [sig |-> sig, event |-> log'[sig].events[k]]
      BY <2>4
    <3>2. CASE sig \in DOMAIN log
      BY <3>1, <3>2, <2>2, RecordedIs
    <3>3. CASE sig = new
      BY <3>1, <3>3, <2>2
    <3> QED BY <3>2, <3>3, <2>2
  <2> QED BY <1>0, <2>2, <2>3, <2>5, <2>6
<1>2. CASE /\ InBlock > 0 /\ events # <<>>
           /\ Len(log[Len(log)].events) < MaxEvents
           /\ log' = [log EXCEPT ![Len(log)].events = @ \o events]
  <2> DEFINE new == Len(log)
  <2>1. log # <<>>
    <3>1. SUFFICES ASSUME log = <<>> PROVE FALSE
      OBVIOUS
    <3>2. {sig \in DOMAIN log : log[sig].slot = slot} = {}
      BY <3>1
    <3>3. InBlock = 0
      BY <3>2, FS_EmptySet DEF InBlock
    <3> QED BY <3>3, <1>2
  <2>2. new \in DOMAIN log /\ DOMAIN log = 1 .. new /\ new \in Nat
    BY <1>0, <2>1
  <2>3. log[new] \in Transaction /\ log[new].events \in Seq(EventType)
    <3>1. log[new] \in Transaction
      BY <1>0, <2>2
    <3> QED BY <3>1 DEF Transaction
  <2> DEFINE more == log[new].events \o events
  <2>4. more \in Seq(EventType)
    BY <2>3
  <2> DEFINE tx == [log[new] EXCEPT !.events = more]
  <2>5. tx \in Transaction /\ tx.slot = log[new].slot /\ tx.events = more
    BY <2>3, <2>4 DEF Transaction
  <2>6. log' = [log EXCEPT ![new] = tx]
    BY <1>2, <2>2
  <2>7. log' \in Seq(Transaction) /\ DOMAIN log' = DOMAIN log /\ log'[new] = tx
    BY <1>0, <2>2, <2>5, <2>6
  <2>8. \A sig \in DOMAIN log : sig # new => log'[sig] = log[sig]
    BY <2>6
  <2>9. \A sig \in DOMAIN log : log'[sig].slot = log[sig].slot
    BY <2>5, <2>7, <2>8
  <2>10. LogInOrder'
    BY <1>0, <2>7, <2>9 DEF LogInOrder
  <2>11. /\ \A k \in DOMAIN log[new].events : k \in DOMAIN more /\ more[k] = log[new].events[k]
         /\ \A k \in DOMAIN more :
              \/ k \in DOMAIN log[new].events /\ more[k] = log[new].events[k]
              \/ \E j \in DOMAIN events : more[k] = events[j]
    <3> DEFINE n == Len(log[new].events)
    <3>1. DOMAIN log[new].events = 1 .. n /\ DOMAIN events = 1 .. Len(events) /\ n \in Nat /\ Len(events) \in Nat
      BY <2>3
    <3>2. DOMAIN more = 1 .. n + Len(events)
      BY <2>3
    <3>3. \A k \in DOMAIN more : more[k] = IF k <= n THEN log[new].events[k] ELSE events[k - n]
      BY <2>3, <3>2
    <3>4. \A k \in DOMAIN more : k > n => k - n \in DOMAIN events
      BY <3>1, <3>2
    <3> QED BY <3>1, <3>2, <3>3, <3>4
  <2> HIDE DEF more
  <2>12. \A entry : entry \in Recorded' <=>
          \E sig \in DOMAIN log' : \E k \in DOMAIN log'[sig].events :
            entry = [sig |-> sig, event |-> log'[sig].events[k]]
    BY DEF Recorded
  <2> HIDE DEF tx, new
  <2>13. Recorded \subseteq Recorded'
    <3> SUFFICES ASSUME NEW entry \in Recorded PROVE entry \in Recorded'
      OBVIOUS
    <3>1. PICK sig \in DOMAIN log : \E k \in DOMAIN log[sig].events :
            entry = [sig |-> sig, event |-> log[sig].events[k]]
      BY RecordedIs
    <3>2. \E k \in DOMAIN log'[sig].events :
            entry = [sig |-> sig, event |-> log'[sig].events[k]]
      BY <3>1, <2>5, <2>7, <2>8, <2>11
    <3> QED BY <3>2, <2>7, <2>12
  <2>14. ASSUME NEW entry \in Recorded'
        PROVE  entry \in Recorded \/ (entry.sig = new /\ \E j \in DOMAIN events : entry.event = events[j])
    <3>1. PICK sig \in DOMAIN log' : \E k \in DOMAIN log'[sig].events :
            entry = [sig |-> sig, event |-> log'[sig].events[k]]
      BY <2>12
    <3>2. CASE sig # new
      BY <3>1, <3>2, <2>7, <2>8, RecordedIs
    <3>3. CASE sig = new
      <4>1. PICK k \in DOMAIN more : entry = [sig |-> new, event |-> more[k]]
        BY <3>1, <3>3, <2>5, <2>7
      <4>2. CASE k \in DOMAIN log[new].events /\ more[k] = log[new].events[k]
        BY <4>1, <4>2, <2>2, RecordedIs
      <4>3. CASE \E j \in DOMAIN events : more[k] = events[j]
        BY <4>1, <4>3
      <4> QED BY <4>2, <4>3, <2>11
    <3> QED BY <3>2, <3>3
  <2> QED BY <1>0, <2>2, <2>7, <2>9, <2>10, <2>13, <2>14
<1> QED BY <1>1, <1>2 DEF Emit

(* ----------------------------- the handlers ----------------------------- *)

(* An account never loses what an event may have told of it.               *)
Keeps(old, new) ==
    /\ old.total_claimed <= new.total_claimed
    /\ old.cancelled_at # None => new.cancelled_at = old.cancelled_at
    /\ old.instant_refunded => new.instant_refunded
    /\ old.drained => new.drained

(* What a handler of campaign t has in common with the others: the event   *)
(* e is news, and true of the account it leaves.                           *)
Reports(t, e, account) ==
    /\ e \in EventType /\ e.tree = t /\ e.at = slot
    /\ account \in TreeType /\ Keeps(chain[t], account) /\ True(e, account)
    /\ e.kind = "claimed" => ~chain[t].drained /\ e.value > chain[t].total_claimed
    /\ e.kind = "stream_cancelled" =>
         /\ chain[t].cancelled_at = None
         /\ chain[t].total_claimed + e.value <= account.total_claimed
    /\ Emit(<<e>>) /\ Becomes(t, account)

TreeStep(t) ==
    \/ Pay(t) \/ CancelCampaign(t) \/ CancelStream(t) \/ InstantRefund(t)
    \/ UpdateRoot(t) \/ TogglePause(t) \/ ReleaseMilestone(t)
    \/ WithdrawUnvested(t)

LEMMA EventIs ==
    ASSUME ChainTypeOK, NEW t \in Trees, NEW kind \in Kinds, NEW value \in Int \cup Roots \cup {None}
    PROVE  \E e \in EventType : /\ Event(t, kind, value) = <<e>>
                                /\ e.kind = kind /\ e.tree = t /\ e.value = value /\ e.at = slot
<1> DEFINE e == [kind |-> kind, tree |-> t, value |-> value, at |-> slot]
<1>1. e \in EventType
  BY DEF ChainTypeOK, EventType
<1> QED BY <1>1 DEF Event

LEMMA HandlersReport ==
    ASSUME ChainTypeOK, NEW t \in Trees, TreeStep(t)
    PROVE  \E e, account : Reports(t, e, account)
<1> DEFINE me == chain[t]
<1>0. /\ me \in TreeType /\ slot \in Nat /\ Supply \in Nat /\ None \notin Int
      /\ me.total_claimed \in 0 .. Supply /\ me.cancelled_at \in Nat \cup {None}
      /\ me.drained \in BOOLEAN /\ me.instant_refunded \in BOOLEAN
  BY ChainAssumption DEF ChainAssumption, ChainTypeOK, TreeType
<1> DEFINE Values == Int \cup Roots \cup {None}
<1>v. None \in Values /\ Roots \subseteq Values /\ Int \subseteq Values
  OBVIOUS
<1>k. Kinds = {"claimed", "campaign_cancelled", "instant_refunded", "paused", "unpaused",
               "root_updated", "withdrawn", "milestone_released", "stream_cancelled"}
  BY DEF Kinds
<1>e. \A kind \in Kinds, value \in Values :
         \E e \in EventType : /\ Event(t, kind, value) = <<e>>
                              /\ e.kind = kind /\ e.tree = t /\ e.value = value /\ e.at = slot
  BY EventIs
<1> HIDE DEF Values
<1>1. CASE Pay(t)
  <2> DEFINE account == [me EXCEPT !.total_claimed = me.total_claimed + 1]
  <2>1. account \in TreeType
    BY <1>0, <1>1 DEF TreeType, Pay
  <2>2. PICK e \in EventType : /\ Event(t, "claimed", me.total_claimed + 1) = <<e>>
                               /\ e.kind = "claimed" /\ e.tree = t /\ e.value = me.total_claimed + 1 /\ e.at = slot
    BY <1>0, <1>e, <1>k, <1>v
  <2>3. Emit(<<e>>) /\ Becomes(t, account)
    BY <1>1, <2>2 DEF Pay
  <2>4. Keeps(me, account) /\ True(e, account) /\ ~me.drained
    BY <1>0, <1>1, <2>2 DEF Keeps, True, TreeType, Pay
  <2> QED BY <1>0, <2>1, <2>2, <2>3, <2>4 DEF Reports
<1>2. CASE CancelCampaign(t)
  <2> DEFINE account == [me EXCEPT !.cancelled_at = slot, !.paused = FALSE]
  <2>1. account \in TreeType
    BY <1>0 DEF TreeType
  <2>2. PICK e \in EventType : /\ Event(t, "campaign_cancelled", None) = <<e>>
                               /\ e.kind = "campaign_cancelled" /\ e.tree = t /\ e.value = None /\ e.at = slot
    BY <1>e, <1>k, <1>v
  <2>3. Emit(<<e>>) /\ Becomes(t, account)
    BY <1>2, <2>2 DEF CancelCampaign
  <2>4. Keeps(me, account) /\ True(e, account)
    BY <1>0, <1>2, <2>2 DEF Keeps, True, TreeType, CancelCampaign, Open
  <2> QED BY <1>0, <2>1, <2>2, <2>3, <2>4 DEF Reports
<1>3. CASE CancelStream(t)
  <2>0. PICK due \in 0 .. Supply - me.total_claimed :
          /\ Becomes(t, [me EXCEPT !.cancelled_at = slot, !.paused = FALSE,
                                   !.total_claimed = me.total_claimed + due, !.drained = TRUE])
          /\ Emit(Event(t, "stream_cancelled", due))
    BY <1>3 DEF CancelStream
  <2> DEFINE account == [me EXCEPT !.cancelled_at = slot, !.paused = FALSE,
                                   !.total_claimed = me.total_claimed + due, !.drained = TRUE]
  <2>1. account \in TreeType
    <3>1. me.total_claimed + due \in 0 .. Supply
      BY <1>0, <2>0
    <3> QED BY <1>0, <3>1 DEF TreeType
  <2>2. PICK e \in EventType : /\ Event(t, "stream_cancelled", due) = <<e>>
                               /\ e.kind = "stream_cancelled" /\ e.tree = t /\ e.value = due /\ e.at = slot
    BY <1>e, <1>k, <1>v
  <2>3. Emit(<<e>>) /\ Becomes(t, account)
    BY <2>0, <2>2
  <2>4. /\ Keeps(me, account) /\ True(e, account) /\ me.cancelled_at = None
        /\ me.total_claimed + e.value <= account.total_claimed
    BY <1>0, <1>3, <2>2 DEF Keeps, True, TreeType, CancelStream, Open
  <2> QED BY <1>0, <2>1, <2>2, <2>3, <2>4 DEF Reports
<1>4. CASE InstantRefund(t)
  <2> DEFINE account == [me EXCEPT !.cancelled_at = slot, !.paused = FALSE,
                                   !.instant_refunded = TRUE, !.drained = TRUE]
  <2>1. account \in TreeType
    BY <1>0 DEF TreeType
  <2>2. PICK e \in EventType : /\ Event(t, "instant_refunded", None) = <<e>>
                               /\ e.kind = "instant_refunded" /\ e.tree = t /\ e.value = None /\ e.at = slot
    BY <1>e, <1>k, <1>v
  <2>3. Emit(<<e>>) /\ Becomes(t, account)
    BY <1>4, <2>2 DEF InstantRefund
  <2>4. Keeps(me, account) /\ True(e, account)
    BY <1>0, <1>4, <2>2 DEF Keeps, True, TreeType, InstantRefund, Open
  <2> QED BY <1>0, <2>1, <2>2, <2>3, <2>4 DEF Reports
<1>5. CASE UpdateRoot(t)
  <2>0. PICK root \in Roots : /\ Becomes(t, [me EXCEPT !.root = root])
                              /\ Emit(Event(t, "root_updated", root))
    BY <1>5 DEF UpdateRoot
  <2> DEFINE account == [me EXCEPT !.root = root]
  <2>1. account \in TreeType
    BY <1>0 DEF TreeType
  <2>2. PICK e \in EventType : /\ Event(t, "root_updated", root) = <<e>>
                               /\ e.kind = "root_updated" /\ e.tree = t /\ e.value = root /\ e.at = slot
    BY <1>e, <1>k, <1>v
  <2>3. Emit(<<e>>) /\ Becomes(t, account)
    BY <2>0, <2>2
  <2>4. Keeps(me, account) /\ True(e, account)
    BY <1>0, <2>2 DEF Keeps, True, TreeType
  <2> QED BY <1>0, <2>1, <2>2, <2>3, <2>4 DEF Reports
<1>6. CASE TogglePause(t)
  <2> DEFINE account == [me EXCEPT !.paused = ~me.paused]
             kind == IF me.paused THEN "unpaused" ELSE "paused"
  <2>1. account \in TreeType
    BY <1>0 DEF TreeType
  <2>2. PICK e \in EventType : /\ Event(t, kind, None) = <<e>>
                               /\ e.kind = kind /\ e.tree = t /\ e.value = None /\ e.at = slot
    BY <1>e, <1>k, <1>v
  <2>3. Emit(<<e>>) /\ Becomes(t, account)
    BY <1>6, <2>2 DEF TogglePause
  <2>4. Keeps(me, account) /\ True(e, account)
    BY <1>0, <2>2 DEF Keeps, True, TreeType
  <2> QED BY <1>0, <2>1, <2>2, <2>3, <2>4 DEF Reports
<1>7. CASE ReleaseMilestone(t)
  <2> DEFINE account == [me EXCEPT !.released = TRUE]
  <2>1. account \in TreeType
    BY <1>0 DEF TreeType
  <2>2. PICK e \in EventType : /\ Event(t, "milestone_released", None) = <<e>>
                               /\ e.kind = "milestone_released" /\ e.tree = t /\ e.value = None /\ e.at = slot
    BY <1>e, <1>k, <1>v
  <2>3. Emit(<<e>>) /\ Becomes(t, account)
    BY <1>7, <2>2 DEF ReleaseMilestone
  <2>4. Keeps(me, account) /\ True(e, account)
    BY <1>0, <2>2 DEF Keeps, True, TreeType
  <2> QED BY <1>0, <2>1, <2>2, <2>3, <2>4 DEF Reports
<1>8. CASE WithdrawUnvested(t)
  <2> DEFINE account == [me EXCEPT !.drained = TRUE]
  <2>1. account \in TreeType
    BY <1>0 DEF TreeType
  <2>2. PICK e \in EventType : /\ Event(t, "withdrawn", None) = <<e>>
                               /\ e.kind = "withdrawn" /\ e.tree = t /\ e.value = None /\ e.at = slot
    BY <1>e, <1>k, <1>v
  <2>3. Emit(<<e>>) /\ Becomes(t, account)
    BY <1>8, <2>2 DEF WithdrawUnvested
  <2>4. Keeps(me, account) /\ True(e, account)
    BY <1>0, <2>2 DEF Keeps, True, TreeType
  <2> QED BY <1>0, <2>1, <2>2, <2>3, <2>4 DEF Reports
<1> QED BY <1>1, <1>2, <1>3, <1>4, <1>5, <1>6, <1>7, <1>8 DEF TreeStep

(* What every step of the chain leaves of it. *)
LEMMA ReportKeepsLog ==
    ASSUME LogInv, NEW t \in Trees, NEW e, NEW account, Reports(t, e, account)
    PROVE  LogInv'
<1>0. ChainTypeOK /\ LogInOrder /\ EventsTrue /\ EventsDistinct
  BY DEF LogInv
<1>1. <<e>> \in Seq(EventType) /\ DOMAIN <<e>> = {1} /\ <<e>>[1] = e
  BY DEF Reports
<1>2. /\ slot' = slot /\ log' \in Seq(Transaction) /\ LogInOrder'
      /\ \E new \in DOMAIN log' : \A entry \in Recorded' :
           entry \in Recorded \/ (entry.sig = new /\ entry.event = e)
  BY <1>0, <1>1, EmitWrites DEF Reports
<1>3. PICK new : \A entry \in Recorded' : entry \in Recorded \/ (entry.sig = new /\ entry.event = e)
  BY <1>2
<1>4. /\ chain' = [chain EXCEPT ![t] = account] /\ chain \in [Trees -> TreeType] /\ account \in TreeType
      /\ slot \in Nat
  BY <1>0 DEF ChainTypeOK, Reports, Becomes
<1>5. ChainTypeOK'
  BY <1>2, <1>4 DEF ChainTypeOK
<1>6. /\ \A u \in Trees : chain'[u] = IF u = t THEN account ELSE chain[u]
      /\ Keeps(chain[t], account) /\ True(e, account) /\ e \in EventType /\ e.tree = t /\ e.at = slot
  BY <1>4 DEF Reports
<1>7. \A u \in Trees : chain[u].total_claimed \in Nat /\ chain'[u].total_claimed \in Nat
  BY <1>4, <1>5, ChainAssumption DEF ChainTypeOK, TreeType
<1>8. \A entry \in Recorded : entry.event \in EventType /\ entry.event.tree \in Trees
  BY <1>0, RecordedFields DEF EventType
<1>9. \A entry \in Recorded : True(entry.event, chain'[entry.event.tree])
  <2> SUFFICES ASSUME NEW entry \in Recorded PROVE True(entry.event, chain'[entry.event.tree])
    OBVIOUS
  <2>1. True(entry.event, chain[entry.event.tree]) /\ entry.event.tree \in Trees
    BY <1>0, <1>8 DEF EventsTrue
  <2>2. CASE entry.event.tree # t
    BY <2>1, <2>2, <1>6
  <2>3. CASE entry.event.tree = t
    BY <2>1, <2>3, <1>6, <1>7 DEF True, Keeps
  <2> QED BY <2>2, <2>3
<1>10. EventsTrue'
  <2> SUFFICES ASSUME NEW entry \in Recorded'
               PROVE  entry.event.at <= slot' /\ True(entry.event, chain'[entry.event.tree])
    BY DEF EventsTrue
  <2>1. CASE entry \in Recorded
    BY <1>0, <1>2, <1>9, <2>1 DEF EventsTrue
  <2>2. CASE entry.event = e
    BY <1>2, <1>4, <1>6, <2>2
  <2> QED BY <1>3, <2>1, <2>2
<1>11. EventsDistinct'
  <2> SUFFICES ASSUME NEW e1 \in Recorded', NEW e2 \in Recorded', e1.event.tree = e2.event.tree
               PROVE  /\ e1.event.kind = "claimed" /\ e2.event.kind = "claimed"
                           /\ e1.event.value = e2.event.value => e1 = e2
                      /\ e1.event.kind = "stream_cancelled" /\ e2.event.kind = "stream_cancelled" => e1 = e2
                      /\ e1.event.kind = "claimed" /\ e2.event.kind = "stream_cancelled" =>
                           e1.event.value + e2.event.value <= chain'[e1.event.tree].total_claimed
    BY DEF EventsDistinct
  <2>0. e1 = [sig |-> e1.sig, event |-> e1.event] /\ e2 = [sig |-> e2.sig, event |-> e2.event]
    BY DEF Recorded
  <2>1. CASE e1 \in Recorded /\ e2 \in Recorded
    <3>1. True(e1.event, chain[e1.event.tree]) /\ True(e2.event, chain[e2.event.tree]) /\ e1.event.tree \in Trees
      BY <1>0, <1>8, <2>1 DEF EventsTrue
    <3>2. chain[e1.event.tree].total_claimed <= chain'[e1.event.tree].total_claimed
      BY <1>6, <1>7, <3>1 DEF Keeps
    <3>3. e1.event.kind = "claimed" /\ e2.event.kind = "stream_cancelled" =>
             e1.event.value \in Int /\ e2.event.value \in Int
      BY <3>1 DEF True
    <3> QED BY <2>1, <3>1, <3>2, <3>3, <1>0, <1>7 DEF EventsDistinct
  <2>2. CASE e1 \in Recorded /\ e2.sig = new /\ e2.event = e
    <3>1. True(e1.event, chain[t]) /\ e1.event.tree = t
      BY <1>0, <1>6, <2>2 DEF EventsTrue
    <3>2. e.kind = "claimed" => ~chain[t].drained /\ e.value > chain[t].total_claimed
      BY DEF Reports
    <3>3. e.kind = "stream_cancelled" => chain[t].cancelled_at = None
            /\ chain[t].total_claimed + e.value <= account.total_claimed /\ e.value \in Int
      BY <1>6 DEF Reports, True
    <3>4. account.total_claimed \in Int
      BY <1>6, <1>7
    <3> QED BY <2>2, <3>1, <3>2, <3>3, <3>4, <1>6, <1>7 DEF True
  <2>3. CASE e2 \in Recorded /\ e1.sig = new /\ e1.event = e
    <3>1. True(e2.event, chain[t]) /\ e2.event.tree = t
      BY <1>0, <1>6, <2>3 DEF EventsTrue
    <3>2. e.kind = "claimed" => ~chain[t].drained /\ e.value > chain[t].total_claimed
      BY DEF Reports
    <3>3. e.kind = "stream_cancelled" => chain[t].cancelled_at = None
      BY DEF Reports
    <3> QED BY <2>3, <3>1, <3>2, <3>3, <1>7 DEF True
  <2>4. CASE e1.sig = new /\ e1.event = e /\ e2.sig = new /\ e2.event = e
    BY <2>0, <2>4
  <2> QED BY <1>3, <2>1, <2>2, <2>3, <2>4
<1> QED BY <1>2, <1>5, <1>10, <1>11 DEF LogInv

(* What a step leaves of the log and of the accounts. *)
Grows ==
    /\ Recorded \subseteq Recorded' /\ Visible \subseteq Visible'
    /\ slot <= slot'
    /\ \A sig \in DOMAIN log : sig \in DOMAIN log' /\ log'[sig].slot = log[sig].slot
    /\ \A t \in Trees : Keeps(chain[t], chain'[t])
    /\ \A entry \in Recorded' :
         entry.event.kind = "stream_cancelled" /\ entry \notin Recorded =>
            chain[entry.event.tree].total_claimed + entry.event.value
               <= chain'[entry.event.tree].total_claimed

LEMMA KeepsItself ==
    ASSUME ChainTypeOK
    PROVE  \A t \in Trees : chain[t] \in TreeType /\ Keeps(chain[t], chain[t])
BY ChainAssumption DEF ChainAssumption, ChainTypeOK, TreeType, Keeps

LEMMA LogSame ==
    ASSUME LogInv, UNCHANGED chainVars
    PROVE  LogInv' /\ Grows /\ Recorded' = Recorded /\ Visible' = Visible
<1>1. chain' = chain /\ log' = log /\ slot' = slot
  BY DEF chainVars
<1>2. Recorded' = Recorded /\ Visible' = Visible
  BY <1>1 DEF Recorded, Visible
<1>3. ChainTypeOK' /\ LogInOrder'
  BY <1>1 DEF LogInv, ChainTypeOK, LogInOrder
<1>4. EventsTrue' /\ EventsDistinct'
  BY <1>1, <1>2 DEF LogInv, EventsTrue, EventsDistinct
<1>5. Grows
  BY <1>1, <1>2, KeepsItself DEF Grows, LogInv, ChainTypeOK
<1> QED BY <1>2, <1>3, <1>4, <1>5 DEF LogInv

LEMMA ReportGrows ==
    ASSUME LogInv, NEW t \in Trees, NEW e, NEW account, Reports(t, e, account)
    PROVE  Grows
<1>0. ChainTypeOK /\ LogInOrder
  BY DEF LogInv
<1>1. <<e>> \in Seq(EventType) /\ DOMAIN <<e>> = {1} /\ <<e>>[1] = e
  BY DEF Reports
<1>2. /\ slot' = slot
      /\ \A sig \in DOMAIN log : sig \in DOMAIN log' /\ log'[sig].slot = log[sig].slot
      /\ Recorded \subseteq Recorded'
      /\ \E new \in DOMAIN log' : \A entry \in Recorded' :
           entry \in Recorded \/ (entry.sig = new /\ entry.event = e)
  BY <1>0, <1>1, EmitWrites DEF Reports
<1>3. Visible \subseteq Visible' /\ slot <= slot'
  BY <1>0, <1>2 DEF Visible, ChainTypeOK
<1>4. \A u \in Trees : chain'[u] = IF u = t THEN account ELSE chain[u]
  BY <1>0 DEF ChainTypeOK, Reports, Becomes
<1>5. \A u \in Trees : Keeps(chain[u], chain'[u])
  BY <1>0, <1>4, KeepsItself DEF Reports
<1>6. \A entry \in Recorded' :
         entry.event.kind = "stream_cancelled" /\ entry \notin Recorded =>
            chain[entry.event.tree].total_claimed + entry.event.value
               <= chain'[entry.event.tree].total_claimed
  BY <1>2, <1>4 DEF Reports
<1> QED BY <1>2, <1>3, <1>5, <1>6 DEF Grows

LEMMA ChainGrows ==
    ASSUME LogInv, ChainNext
    PROVE  LogInv' /\ Grows
<1>0. ChainTypeOK /\ LogInOrder /\ EventsTrue /\ EventsDistinct
  BY DEF LogInv
<1>1. CASE \E t \in Trees : TreeStep(t)
  <2>1. PICK t \in Trees : TreeStep(t)
    BY <1>1
  <2>2. PICK e, account : Reports(t, e, account)
    BY <1>0, <2>1, HandlersReport
  <2> QED BY <2>1, <2>2, ReportKeepsLog, ReportGrows
<1>2. CASE Unreported
  <2>1. <<>> \in Seq(EventType) /\ DOMAIN <<>> = {} /\ Emit(<<>>) /\ chain' = chain
    BY <1>2 DEF Unreported
  <2>2. /\ slot' = slot /\ log' \in Seq(Transaction) /\ LogInOrder'
        /\ \A sig \in DOMAIN log : sig \in DOMAIN log' /\ log'[sig].slot = log[sig].slot
        /\ Recorded' = Recorded
    <3>1. PICK new : \A entry \in Recorded' :
             entry \in Recorded \/ (entry.sig = new /\ \E j \in DOMAIN <<>> : entry.event = <<>>[j])
      BY <1>0, <2>1, EmitWrites
    <3>2. \A entry \in Recorded' : entry \in Recorded
      BY <2>1, <3>1
    <3> QED BY <1>0, <2>1, <3>2, EmitWrites
  <2>3. ChainTypeOK' /\ EventsTrue' /\ EventsDistinct'
    BY <1>0, <2>1, <2>2 DEF ChainTypeOK, EventsTrue, EventsDistinct
  <2>4. Grows
    BY <1>0, <2>1, <2>2, KeepsItself DEF Grows, Visible, ChainTypeOK
  <2> QED BY <2>2, <2>3, <2>4 DEF LogInv
<1>3. CASE Confirm
  <2>1. chain' = chain /\ log' = log /\ slot' = slot + 1 /\ slot \in Nat
    BY <1>0, <1>3 DEF Confirm, ChainTypeOK
  <2>2. Recorded' = Recorded
    BY <2>1 DEF Recorded
  <2>3. ChainTypeOK'
    BY <1>0, <2>1 DEF ChainTypeOK
  <2>4. \A sig \in DOMAIN log : log[sig].slot \in Nat
    <3>1. log \in Seq(Transaction)
      BY <1>0 DEF ChainTypeOK
    <3>2. \A sig \in DOMAIN log : log[sig] \in Transaction
      BY <3>1
    <3> QED BY <3>2 DEF Transaction
  <2>5. LogInOrder'
    BY <1>0, <2>1, <2>4 DEF LogInOrder
  <2>6. EventsTrue' /\ EventsDistinct'
    <3>1. \A entry \in Recorded : entry.event.at \in Nat
      BY <1>0, RecordedFields DEF EventType
    <3> QED BY <1>0, <2>1, <2>2, <3>1 DEF EventsTrue, EventsDistinct
  <2>7. Grows
    BY <1>0, <2>1, <2>2, <2>4, KeepsItself DEF Grows, Visible
  <2> QED BY <2>3, <2>5, <2>6, <2>7 DEF LogInv
<1> QED BY <1>1, <1>2, <1>3 DEF ChainNext, TreeStep

(* A node shows the oldest transactions, as many as are confirmed.         *)
LEMMA VisibleIsPrefix ==
    ASSUME LogInv
    PROVE  /\ Cardinality(Visible) \in 0 .. Len(log)
           /\ Visible = 1 .. Cardinality(Visible)
<1> DEFINE c == Cardinality(Visible)
<1>1. DOMAIN log = 1 .. Len(log) /\ Len(log) \in Nat /\ Len(log) \in Int /\ 1 \in Int
  BY DEF LogInv, ChainTypeOK
<1>2. IsFiniteSet(1 .. Len(log)) /\ Cardinality(1 .. Len(log)) = Len(log)
  <2>1. IsFiniteSet(1 .. Len(log))
    BY <1>1, FS_Interval
  <2>2. Cardinality(1 .. Len(log)) = IF 1 > Len(log) THEN 0 ELSE Len(log) - 1 + 1
    BY <1>1, FS_Interval
  <2> QED BY <1>1, <2>1, <2>2
<1>3. Visible \in SUBSET (1 .. Len(log))
  BY <1>1 DEF Visible
<1>4. IsFiniteSet(Visible) /\ c <= Len(log) /\ c \in Nat
  BY <1>2, <1>3, FS_Subset, FS_CardinalityType
<1>5. \A i \in Visible : i <= c
  <2> SUFFICES ASSUME NEW i \in Visible PROVE i <= c
    OBVIOUS
  <2>1. i \in DOMAIN log /\ i \in Nat /\ i >= 1 /\ log[i].slot < slot
    BY <1>1, <1>3 DEF Visible
  <2>2. \A j \in 1 .. i : j \in Visible
    <3> SUFFICES ASSUME NEW j \in 1 .. i PROVE j \in Visible
      OBVIOUS
    <3>1. j \in DOMAIN log /\ j <= i
      BY <1>1, <2>1
    <3>2. log[j].slot <= log[i].slot
      BY <2>1, <3>1 DEF LogInv, LogInOrder
    <3>3. log[j] \in Transaction /\ log[i] \in Transaction /\ slot \in Nat
      BY <2>1, <3>1 DEF LogInv, ChainTypeOK
    <3>4. log[j].slot \in Nat /\ log[i].slot \in Nat
      BY <3>3 DEF Transaction
    <3> QED BY <2>1, <3>1, <3>2, <3>3, <3>4 DEF Visible
  <2>3. 1 .. i \in SUBSET Visible
    BY <2>2
  <2>4. Cardinality(1 .. i) = i
    <3>1. 1 \in Int /\ i \in Int
      BY <2>1
    <3>2. Cardinality(1 .. i) = IF 1 > i THEN 0 ELSE i - 1 + 1
      BY <3>1, FS_Interval
    <3> QED BY <2>1, <3>2
  <2>5. Cardinality(1 .. i) <= Cardinality(Visible)
    BY <1>4, <2>3, FS_Subset
  <2> QED BY <2>4, <2>5
<1>6. Visible \in SUBSET (1 .. c)
  BY <1>3, <1>5
<1>7. IsFiniteSet(1 .. c) /\ Cardinality(1 .. c) = c
  <2>1. 1 \in Int /\ c \in Int /\ c >= 0
    BY <1>4
  <2>2. IsFiniteSet(1 .. c) /\ Cardinality(1 .. c) = IF 1 > c THEN 0 ELSE c - 1 + 1
    BY <2>1, FS_Interval
  <2> QED BY <2>1, <2>2
<1>8. 1 .. c = Visible
  BY <1>6, <1>7, FS_Subset
<1> QED BY <1>4, <1>8

(* --------------------- the invocations and the rows --------------------- *)

LEMMA InitInv ==
    ASSUME Init
    PROVE  Inv
<1>0. /\ log = <<>> /\ slot = 1 /\ tables = {} /\ patched = {} /\ checkpoint = 0
      /\ rows = [t \in Trees |-> NoRow] /\ worker = [w \in Workers |-> Idle]
      /\ owed = [w \in Workers |-> {}]
  BY DEF Init, ChainInit
<1>1. chain \in [Trees -> TreeType]
  BY ChainAssumption DEF ChainAssumption, Init, ChainInit, TreeType
<1>2. <<>> \in Seq(Transaction) /\ DOMAIN <<>> = {}
  OBVIOUS
<1>3. ChainTypeOK
  BY <1>0, <1>1, <1>2 DEF ChainTypeOK
<1>4. TypeOK
  BY <1>0, <1>3 DEF TypeOK
<1>5. Recorded = {}
  BY <1>0 DEF Recorded
<1>6. LogInv
  BY <1>0, <1>2, <1>3, <1>5 DEF LogInv, LogInOrder, EventsTrue, EventsDistinct
<1>7. FromTheLog
  BY <1>0, FS_EmptySet DEF FromTheLog
<1>8. RowsInv /\ OwedInv
  BY <1>0 DEF RowsInv, OwedInv
<1> QED BY <1>4, <1>6, <1>7, <1>8 DEF Inv

(* Old news does not undo new. *)
RowsKeep ==
    \A t \in Trees : rows[t] # NoRow =>
          /\ rows'[t] # NoRow
          /\ rows[t].total_claimed <= rows'[t].total_claimed
          /\ rows[t].cancelled_at # None => rows'[t].cancelled_at # None
          /\ rows[t].instant_refunded => rows'[t].instant_refunded

LEMMA RowTypes ==
    ASSUME TypeOK
    PROVE  \A t \in Trees : rows[t] # NoRow =>
              /\ rows[t] \in Row /\ rows[t].total_claimed \in 0 .. 2 * Supply
              /\ rows[t].total_claimed \in Int /\ rows[t].cancelled_at \in Nat \cup {None}
              /\ rows[t].paused \in BOOLEAN /\ rows[t].instant_refunded \in BOOLEAN /\ rows[t].root \in Roots
<1> SUFFICES ASSUME NEW t \in Trees, rows[t] # NoRow
             PROVE  /\ rows[t] \in Row /\ rows[t].total_claimed \in 0 .. 2 * Supply
                    /\ rows[t].total_claimed \in Int /\ rows[t].cancelled_at \in Nat \cup {None}
                    /\ rows[t].paused \in BOOLEAN /\ rows[t].instant_refunded \in BOOLEAN
                    /\ rows[t].root \in Roots
  OBVIOUS
<1>1. rows[t] \in Row
  BY DEF TypeOK
<1> QED BY <1>1 DEF Row

LEMMA RowsStay ==
    ASSUME TypeOK, rows' = rows
    PROVE  RowsKeep
BY RowTypes DEF RowsKeep

LEMMA CoveredStays ==
    ASSUME RowsKeep, tables \subseteq tables', TypeOK, TypeOK', NEW entry \in Recorded, ChainTypeOK,
           rows[entry.event.tree] # NoRow, Covered(entry),
           entry.event.kind = "claimed" => entry.event.value \in Int
    PROVE  Covered(entry)'
<1> DEFINE t == entry.event.tree
<1>1. t \in Trees
  BY RecordedFields DEF EventType
<1>2. Taken(entry.sig, entry.event)'
  BY DEF Covered, Taken
<1>3. rows'[t] # NoRow /\ rows[t].total_claimed <= rows'[t].total_claimed
  BY <1>1 DEF RowsKeep
<1>4. rows[t].total_claimed \in Int
  BY <1>1, RowTypes
<1>5. rows'[t].total_claimed \in Int
  <2>1. rows'[t] \in Row
    BY <1>1, <1>3 DEF TypeOK
  <2> QED BY <2>1 DEF Row
<1> QED BY <1>2, <1>3, <1>4, <1>5 DEF Covered

(* A step that leaves the database alone. *)
LEMMA RowsFollowChain ==
    ASSUME Inv, LogInv', Grows, rows' = rows, tables' = tables, patched' = patched
    PROVE  RowsInv'
<1> USE DEF Inv
<1>0. ChainTypeOK /\ ChainTypeOK'
  BY DEF LogInv
<1> SUFFICES ASSUME NEW t \in Trees
             PROVE  IF rows[t] = NoRow THEN \A entry \in tables : entry.event.tree # t ELSE RowBetween(t)'
  BY DEF RowsInv
<1>1. CASE rows[t] = NoRow
  BY <1>1 DEF RowsInv
<1>2. CASE rows[t] # NoRow
  <2>1. RowBetween(t)
    BY <1>2 DEF RowsInv
  <2>2. Keeps(chain[t], chain'[t])
    BY DEF Grows
  <2>3. /\ chain[t].total_claimed \in Nat /\ chain'[t].total_claimed \in Nat
        /\ rows[t].total_claimed \in Int
    BY <1>0, <1>2, RowTypes, ChainAssumption DEF ChainAssumption, ChainTypeOK, TreeType
  <2>4. (SettledByPage(t)' <=> SettledByPage(t)) /\ (SettlementStored(t)' <=> SettlementStored(t))
    BY DEF SettledByPage, SettlementStored
  <2>5. ASSUME ~SettlementStored(t), ~SettledByPage(t),
               NEW entry \in Recorded', entry.event.tree = t, entry.event.kind = "stream_cancelled"
        PROVE  rows[t].total_claimed + entry.event.value <= chain'[t].total_claimed
    <3>1. entry.event.value \in Int
      BY <2>5 DEF LogInv, EventsTrue, True
    <3>2. CASE entry \in Recorded
      BY <2>1, <2>2, <2>3, <2>5, <3>1, <3>2 DEF RowBetween, Keeps
    <3>3. CASE entry \notin Recorded
      <4>1. chain[t].total_claimed + entry.event.value <= chain'[t].total_claimed
        BY <2>5, <3>3 DEF Grows
      <4>2. rows[t].total_claimed <= chain[t].total_claimed
        BY <2>1, <2>5 DEF RowBetween
      <4> QED BY <2>3, <3>1, <4>1, <4>2
    <3> QED BY <3>2, <3>3
  <2> QED BY <1>2, <2>1, <2>2, <2>3, <2>4, <2>5 DEF RowBetween, Keeps
<1> QED BY <1>1, <1>2

LEMMA InHandStays ==
    ASSUME LogInv, Grows, NEW me, InHand(me)
    PROVE  InHand(me)'
BY DEF Grows, InHand

LEMMA OwesStays ==
    ASSUME Inv, Grows, LogInv', RowsKeep, tables \subseteq tables', TypeOK', NEW me, NEW entry, Owes(me, entry)
    PROVE  Owes(me, entry)'
<1>1. entry \in Recorded /\ entry.sig \in DOMAIN log
  BY RecordedFields DEF Owes, Inv, LogInv
<1>2. entry.event.tree \in Trees
  BY <1>1, RecordedFields DEF Inv, LogInv, EventType
<1>3. /\ entry \in Recorded' /\ entry.sig \in Visible' /\ rows'[entry.event.tree] # NoRow
      /\ log'[entry.sig].slot = log[entry.sig].slot
  BY <1>1, <1>2 DEF Owes, Grows, RowsKeep
<1>4. entry.event.kind = "claimed" => entry.event.value \in Int
  BY <1>1 DEF Inv, LogInv, EventsTrue, True
<1>5. Covered(entry) => Covered(entry)'
  BY <1>1, <1>4, CoveredStays DEF Owes, Inv, LogInv
<1> QED BY <1>3, <1>5 DEF Owes, Pending

LEMMA ChainStepInv ==
    ASSUME Inv, Chain
    PROVE  Inv' /\ RowsKeep
<1>1. /\ LogInv' /\ Grows /\ rows' = rows /\ tables' = tables /\ checkpoint' = checkpoint
      /\ worker' = worker /\ patched' = patched /\ owed' = owed
  BY ChainGrows DEF Inv, Chain
<1>2. TypeOK'
  BY <1>1 DEF Inv, TypeOK, LogInv
<1>3. FromTheLog'
  BY <1>1, InHandStays DEF Inv, FromTheLog, Grows
<1>4. RowsInv'
  BY <1>1, RowsFollowChain
<1>5. RowsKeep
  BY <1>1, RowsStay DEF Inv
<1>6. OwedInv'
  BY <1>1, <1>2, <1>5, OwesStays DEF Inv, OwedInv
<1> QED BY <1>1, <1>2, <1>3, <1>4, <1>5, <1>6 DEF Inv

(* An invocation goes on, by itself. *)
LEMMA WorkInv ==
    ASSUME Inv, UNCHANGED <<chain, log, slot, rows, tables, checkpoint, patched>>,
           NEW w \in Workers, NEW me \in Invocation \cup {Idle}, me # Idle => InHand(me),
           worker' = [worker EXCEPT ![w] = me],
           NEW mine \in SUBSET Entry, \A entry \in mine : Owes(me, entry),
           owed' = [owed EXCEPT ![w] = mine]
    PROVE  Inv' /\ RowsKeep
<1>1. /\ LogInv' /\ Grows /\ rows' = rows /\ tables' = tables /\ patched' = patched
      /\ checkpoint' = checkpoint
  BY LogSame DEF Inv, chainVars
<1>2. /\ worker \in [Workers -> Invocation \cup {Idle}] /\ owed \in [Workers -> SUBSET Entry]
      /\ \A v \in Workers : worker'[v] = IF v = w THEN me ELSE worker[v]
      /\ \A v \in Workers : owed'[v] = IF v = w THEN mine ELSE owed[v]
  BY DEF Inv, TypeOK
<1>3. PICK next : next = worker'
  OBVIOUS
<1>4. TypeOK'
  BY <1>1, <1>2 DEF Inv, TypeOK, LogInv
<1>5. FromTheLog'
  <2>1. \A v \in Workers : next[v] # Idle => InHand(next[v])
    BY <1>2, <1>3 DEF Inv, FromTheLog
  <2>2. \A v \in Workers : next[v] # Idle => InHand(next[v])'
    BY <1>1, <2>1, InHandStays DEF Inv
  <2>3. \A v \in Workers : worker'[v] # Idle => InHand(worker[v])'
    BY <1>3, <2>2 DEF InHand
  <2> QED BY <1>1, <2>3 DEF Inv, FromTheLog, Grows
<1>6. RowsInv'
  BY <1>1, RowsFollowChain
<1>7. RowsKeep
  BY <1>1, RowsStay DEF Inv
<1>8. OwedInv'
  <2>1. \A v \in Workers : \A entry \in owed'[v] : Owes(next[v], entry)
    BY <1>2, <1>3 DEF Inv, OwedInv
  <2>2. \A v \in Workers : \A entry \in owed'[v] : Owes(next[v], entry)'
    BY <1>1, <1>4, <1>7, <2>1, OwesStays
  <2>3. \A v \in Workers : \A entry \in owed'[v] : Owes(worker[v], entry)'
    BY <1>3, <2>2 DEF Owes, Pending
  <2> QED BY <2>3 DEF OwedInv
<1> QED BY <1>1, <1>4, <1>5, <1>6, <1>7, <1>8 DEF Inv

LEMMA RunIs ==
    ASSUME NEW start \in Nat, NEW page \in SUBSET (DOMAIN log), LogInv, NEW more \in BOOLEAN,
           NEW claims_only \in BOOLEAN
    PROVE  /\ Run(start, page, more, claims_only) \in Invocation
           /\ Run(start, page, more, claims_only) # Idle
           /\ InHand(Run(start, page, more, claims_only))
<1>1. DOMAIN log \subseteq Nat
  BY DEF LogInv, ChainTypeOK
<1>2. <<>> \in Seq(EventType) /\ DOMAIN <<>> = {}
  OBVIOUS
<1>3. Run(start, page, more, claims_only) \in Invocation
  BY <1>1, <1>2 DEF Run, Invocation
<1>4. InHand(Run(start, page, more, claims_only))
  BY <1>2 DEF Run, InHand
<1> QED BY <1>3, <1>4, IndexerAssumption DEF IndexerAssumption

LEMMA RecordedAfter ==
    ASSUME LogInv, NEW start, NEW entry \in EventsAfter(start)
    PROVE  /\ entry \in Recorded /\ entry.sig \in Visible
           /\ start = 0 \/ log[entry.sig].slot > start
<1>1. PICK sig \in {s \in Visible : start = 0 \/ log[s].slot > start} :
         \E k \in DOMAIN log[sig].events : entry = [sig |-> sig, event |-> log[sig].events[k]]
  BY DEF EventsAfter
<1>2. sig \in Visible /\ (start = 0 \/ log[sig].slot > start) /\ sig \in DOMAIN log
  BY <1>1 DEF Visible
<1>3. entry.sig = sig /\ entry \in Recorded
  BY <1>1, <1>2, RecordedIs
<1> QED BY <1>2, <1>3

LEMMA StartPassInv ==
    ASSUME Inv, NEW w \in Workers, NEW start \in Nat, StartPass(w, start)
    PROVE  Inv' /\ RowsKeep
<1> DEFINE me == Run(start, {}, TRUE, FALSE)
           mine == {entry \in EventsAfter(start) : rows[entry.event.tree] # NoRow}
<1>1. me \in Invocation /\ me # Idle /\ InHand(me)
  BY RunIs DEF Inv
<1>2. \A entry \in mine : Owes(me, entry)
  <2> SUFFICES ASSUME NEW entry \in mine PROVE Owes(me, entry)
    OBVIOUS
  <2>1. /\ entry \in Recorded /\ entry.sig \in Visible
        /\ start = 0 \/ log[entry.sig].slot > start
    BY RecordedAfter DEF Inv
  <2>2. ~me.claims_only /\ me.start = start /\ Pending(me, entry)
    BY DEF Run, Pending
  <2> QED BY <1>1, <2>1, <2>2 DEF Owes
<1>3. mine \in SUBSET Entry
  BY <1>2, RecordedFields DEF Owes, Inv, LogInv
<1>4. worker' = [worker EXCEPT ![w] = me] /\ owed' = [owed EXCEPT ![w] = mine]
      /\ UNCHANGED <<chain, log, slot, rows, tables, checkpoint, patched>>
  BY DEF StartPass
<1> HIDE DEF me, mine
<1> QED BY <1>1, <1>2, <1>3, <1>4, WorkInv

(* What an idle invocation owes, and what one owes that reads claims.      *)
LEMMA OwesNothing ==
    ASSUME Inv, NEW w \in Workers, worker[w] = Idle \/ worker[w].claims_only
    PROVE  owed[w] = {}
BY DEF Inv, OwedInv, Owes

LEMMA OwedSame ==
    ASSUME Inv, NEW w \in Workers, NEW mine, owed[w] = mine, owed' = owed
    PROVE  owed' = [owed EXCEPT ![w] = mine] /\ mine \in SUBSET Entry
BY DEF Inv, TypeOK

LEMMA ReadOnlyInv ==
    ASSUME Inv, NEW w \in Workers, NEW sig \in Visible, NEW claims_only \in BOOLEAN,
           ReadOnly(w, sig, claims_only)
    PROVE  Inv' /\ RowsKeep
<1> DEFINE me == Run(0, {sig}, FALSE, claims_only)
<1>1. me \in Invocation /\ me # Idle /\ InHand(me)
  BY RunIs DEF Inv, Visible
<1>2. worker[w] = Idle /\ owed[w] = {}
  BY OwesNothing DEF ReadOnly
<1>3. worker' = [worker EXCEPT ![w] = me] /\ owed' = [owed EXCEPT ![w] = {}]
      /\ UNCHANGED <<chain, log, slot, rows, tables, checkpoint, patched>>
  BY <1>2, OwedSame DEF ReadOnly
<1> HIDE DEF me
<1> QED BY <1>1, <1>3, WorkInv

LEMMA EndInv ==
    ASSUME Inv, NEW w \in Workers, worker' = [worker EXCEPT ![w] = Idle], owed' = [owed EXCEPT ![w] = {}],
           UNCHANGED <<chain, log, slot, rows, tables, checkpoint, patched>>
    PROVE  Inv' /\ RowsKeep
BY WorkInv

(* The invocation that has the transactions of its page to read. *)
LEMMA RunningIs ==
    ASSUME Inv, NEW w \in Workers, Running(w)
    PROVE  /\ worker[w] \in Invocation /\ worker[w] # Idle /\ InHand(worker[w])
           /\ worker[w].start \in Nat /\ worker[w].before \in Nat \cup {None}
           /\ worker[w].more \in BOOLEAN /\ worker[w].page \in SUBSET Nat /\ worker[w].sig \in Nat
           /\ worker[w].events \in Seq(EventType) /\ worker[w].claims_only \in BOOLEAN
<1>1. worker[w] \in Invocation /\ worker[w] # Idle /\ InHand(worker[w])
  BY DEF Inv, TypeOK, FromTheLog, Running
<1> QED BY <1>1 DEF Invocation

LEMMA ReadTransactionInv ==
    ASSUME Inv, NEW w \in Workers, ReadTransaction(w)
    PROVE  Inv' /\ RowsKeep
<1>0. PICK sig \in worker[w].page :
         worker' = [worker EXCEPT ![w].page = @ \ {sig}, ![w].sig = sig, ![w].events = log[sig].events]
  BY DEF ReadTransaction
<1>1. /\ worker[w] \in Invocation /\ worker[w] # Idle /\ InHand(worker[w])
      /\ worker[w].page \in SUBSET Nat /\ worker[w].events = <<>>
  BY RunningIs DEF ReadTransaction, AtTx
<1> DEFINE me == [worker[w] EXCEPT !.page = worker[w].page \ {sig}, !.sig = sig, !.events = log[sig].events]
<1>2. worker' = [worker EXCEPT ![w] = me]
  BY <1>0
<1>3. sig \in DOMAIN log /\ sig \in Nat /\ log[sig].events \in Seq(EventType)
  <2>1. sig \in DOMAIN log /\ log \in Seq(Transaction)
    BY <1>1 DEF InHand, Inv, LogInv, ChainTypeOK
  <2>2. log[sig] \in Transaction /\ sig \in Nat
    BY <2>1
  <2> QED BY <2>1, <2>2 DEF Transaction
<1>4. me \in Invocation
  BY <1>1, <1>3 DEF Invocation
<1>5. me # Idle
  BY <1>4, IndexerAssumption DEF IndexerAssumption
<1>6. /\ me.page = worker[w].page \ {sig} /\ me.sig = sig /\ me.events = log[sig].events
      /\ me.before = worker[w].before /\ me.start = worker[w].start /\ me.more = worker[w].more
      /\ me.claims_only = worker[w].claims_only
  BY <1>1 DEF Invocation
<1> HIDE DEF me
<1>7. InHand(me)
  BY <1>1, <1>3, <1>6, RecordedIs DEF InHand
<1>8. ASSUME NEW entry \in owed[w] PROVE Owes(me, entry)
  <2>1. Owes(worker[w], entry)
    BY DEF Inv, OwedInv
  <2>2. ASSUME Pending(worker[w], entry) PROVE Pending(me, entry)
    <3>1. CASE entry.sig = sig
      BY <2>1, <3>1, <1>6, RecordedFields DEF Pending, Owes, Inv, LogInv
    <3>2. CASE entry.sig # sig
      BY <2>2, <3>2, <1>1, <1>6 DEF Pending
    <3> QED BY <3>1, <3>2
  <2> QED BY <2>1, <2>2, <1>5, <1>6 DEF Owes
<1>9. owed' = [owed EXCEPT ![w] = owed[w]] /\ owed[w] \in SUBSET Entry
  BY OwedSame DEF ReadTransaction
<1>10. UNCHANGED <<chain, log, slot, rows, tables, checkpoint, patched>>
  BY DEF ReadTransaction
<1> QED BY <1>2, <1>4, <1>7, <1>8, <1>9, <1>10, WorkInv

LEMMA MissTransactionInv ==
    ASSUME Inv, NEW w \in Workers, MissTransaction(w)
    PROVE  Inv' /\ RowsKeep
<1>0. PICK sig \in worker[w].page :
         /\ worker' = [worker EXCEPT ![w].page = @ \ {sig}]
         /\ owed' = [owed EXCEPT ![w] = {e \in @ : e.sig # sig}]
  BY DEF MissTransaction
<1>1. /\ worker[w] \in Invocation /\ worker[w] # Idle /\ InHand(worker[w])
      /\ worker[w].page \in SUBSET Nat /\ worker[w].events \in Seq(EventType)
  BY RunningIs DEF MissTransaction, AtTx
<1> DEFINE me == [worker[w] EXCEPT !.page = worker[w].page \ {sig}]
           mine == {e \in owed[w] : e.sig # sig}
<1>2. worker' = [worker EXCEPT ![w] = me] /\ owed' = [owed EXCEPT ![w] = mine]
  BY <1>0
<1>4. me \in Invocation
  BY <1>1 DEF Invocation
<1>5. me # Idle
  BY <1>4, IndexerAssumption DEF IndexerAssumption
<1>6. /\ me.page = worker[w].page \ {sig} /\ me.sig = worker[w].sig /\ me.events = worker[w].events
      /\ me.before = worker[w].before /\ me.start = worker[w].start /\ me.more = worker[w].more
      /\ me.claims_only = worker[w].claims_only
  BY <1>1 DEF Invocation
<1> HIDE DEF me
<1>7. InHand(me)
  BY <1>1, <1>6 DEF InHand
<1>8. ASSUME NEW entry \in mine PROVE Owes(me, entry)
  <2>1. Owes(worker[w], entry) /\ entry.sig # sig
    BY DEF Inv, OwedInv
  <2> QED BY <2>1, <1>5, <1>6 DEF Owes, Pending
<1>9. mine \in SUBSET Entry
  BY DEF Inv, TypeOK
<1>10. UNCHANGED <<chain, log, slot, rows, tables, checkpoint, patched>>
  BY DEF MissTransaction
<1> HIDE DEF mine
<1> QED BY <1>2, <1>4, <1>7, <1>8, <1>9, <1>10, WorkInv

(* The page an invocation fetches: from the newest signature down to the   *)
(* cursor it keeps, and all that is owed below it.                         *)
LEMMA FetchPageInv ==
    ASSUME Inv, NEW w \in Workers, FetchPage(w)
    PROVE  /\ Inv' /\ RowsKeep
           /\ worker'[w] = Idle => \A entry \in owed[w] : Covered(entry)
<1> DEFINE me     == worker[w]
           newest == Newest(me.before)
           size   == IF newest < PageSize THEN newest ELSE PageSize
           valid  == {sig \in newest + 1 - size .. newest :
                         me.start = 0 \/ log[sig].slot > me.start}
           next   == [me EXCEPT !.page = valid, !.more = (size = PageSize), !.before = newest + 1 - size]
<1>0. /\ me \in Invocation /\ me # Idle /\ InHand(me) /\ me.start \in Nat
      /\ me.before \in Nat \cup {None} /\ me.more \in BOOLEAN
      /\ me.events = <<>> /\ me.page = {}
  BY RunningIs DEF FetchPage, AtPage
<1>1. UNCHANGED <<chain, log, slot, rows, tables, checkpoint, patched>>
  BY DEF FetchPage
<1>2. /\ DOMAIN log = 1 .. Len(log) /\ Len(log) \in Nat
      /\ \A sig \in DOMAIN log : log[sig].slot \in Nat
  <2>1. log \in Seq(Transaction)
    BY DEF Inv, LogInv, ChainTypeOK
  <2>2. \A sig \in DOMAIN log : log[sig] \in Transaction
    BY <2>1
  <2> QED BY <2>1, <2>2 DEF Transaction
<1>3. newest \in 0 .. Len(log)
  <2>1. CASE me.before = None
    BY <2>1, VisibleIsPrefix DEF Newest, Inv
  <2>2. CASE me.before # None
    BY <2>2, <1>0, <1>2 DEF Newest, InHand
  <2> QED BY <2>1, <2>2
<1>4. PageSize \in Nat /\ PageSize > 0 /\ None \notin Int
  BY IndexerAssumption, ChainAssumption DEF IndexerAssumption, ChainAssumption
<1>5. size \in 0 .. newest /\ (newest > 0 => size > 0) /\ (size # PageSize => size = newest)
  BY <1>3, <1>4
<1>6. \A entry \in owed[w] : me.more /\ (me.before # None => entry.sig < me.before) => entry.sig \in 1 .. newest
  <2> SUFFICES ASSUME NEW entry \in owed[w], me.more, me.before # None => entry.sig < me.before
               PROVE  entry.sig \in 1 .. newest
    OBVIOUS
  <2>1. entry.sig \in Visible
    BY DEF Inv, OwedInv, Owes
  <2>2. entry.sig \in DOMAIN log
    BY <2>1 DEF Visible
  <2>3. CASE me.before = None
    BY <2>1, <2>3, VisibleIsPrefix DEF Newest, Inv
  <2>4. CASE me.before # None
    BY <2>2, <2>4, <1>0, <1>2 DEF Newest
  <2> QED BY <2>3, <2>4
<1>7. ASSUME NEW entry \in owed[w]
      PROVE  Covered(entry) \/ (me.more /\ entry.sig \in 1 .. newest)
  <2>1. Covered(entry) \/ Pending(me, entry)
    BY DEF Inv, OwedInv, Owes
  <2>2. DOMAIN me.events = {}
    BY <1>0
  <2> QED BY <2>1, <2>2, <1>0, <1>6 DEF Pending
<1>8. ASSUME NEW entry \in owed[w]
      PROVE  entry.sig \in DOMAIN log /\ (me.start = 0 \/ log[entry.sig].slot > me.start)
  BY DEF Inv, OwedInv, Owes, Visible
<1>9. CASE ~me.more \/ valid = {}
  <2>1. worker' = [worker EXCEPT ![w] = Idle] /\ owed' = [owed EXCEPT ![w] = {}]
    BY <1>9 DEF FetchPage
  <2>2. ASSUME NEW entry \in owed[w], ~Covered(entry) PROVE FALSE
    <3>1. me.more /\ entry.sig \in 1 .. newest
      BY <1>7, <2>2
    <3>2. newest \in newest + 1 - size .. newest /\ newest \in DOMAIN log
      BY <3>1, <1>2, <1>3, <1>5
    <3>3. me.start # 0 /\ ~(log[newest].slot > me.start)
      BY <3>1, <3>2, <1>9
    <3>4. log[entry.sig].slot <= log[newest].slot
      BY <3>1, <3>2, <1>8, <2>2 DEF Inv, LogInv, LogInOrder
    <3> QED BY <3>2, <3>3, <3>4, <1>0, <1>2, <1>8, <2>2
  <2> QED BY <1>1, <2>1, <2>2, EndInv
<1>10. CASE ~(~me.more \/ valid = {})
  <2>1. worker' = [worker EXCEPT ![w] = next] /\ owed' = owed
    BY <1>10 DEF FetchPage
  <2>2. newest > 0 /\ newest + 1 - size \in DOMAIN log /\ valid \subseteq DOMAIN log
    BY <1>2, <1>3, <1>5, <1>10
  <2> HIDE DEF valid, newest, size
  <2>3. next \in Invocation
    <3>1. newest + 1 - size \in Nat /\ valid \in SUBSET Nat /\ (size = PageSize) \in BOOLEAN
      BY <2>2, <1>2
    <3> QED BY <3>1, <1>0 DEF Invocation
  <2>4. next # Idle
    BY <2>3, IndexerAssumption DEF IndexerAssumption
  <2>5. /\ next.page = valid /\ next.more = (size = PageSize) /\ next.before = newest + 1 - size
        /\ next.events = <<>> /\ next.start = me.start /\ next.claims_only = me.claims_only
    BY <1>0 DEF Invocation
  <2> HIDE DEF next
  <2>6. InHand(next)
    BY <2>2, <2>5 DEF InHand
  <2>7. ASSUME NEW entry \in owed[w] PROVE Owes(next, entry)
    <3>1. Owes(me, entry)
      BY DEF Inv, OwedInv
    <3>2. ASSUME ~Covered(entry) PROVE Pending(next, entry)
      <4>1. me.more /\ entry.sig \in 1 .. newest
        BY <1>7, <3>2
      <4>2. CASE entry.sig >= newest + 1 - size
        <5>1. entry.sig \in newest + 1 - size .. newest
          BY <4>1, <4>2, <1>3, <1>5
        <5>2. entry.sig \in valid
          BY <5>1, <1>8 DEF valid
        <5> QED BY <5>2, <2>5 DEF Pending
      <4>3. CASE entry.sig < newest + 1 - size
        <5>1. size = PageSize
          BY <4>1, <4>3, <1>3, <1>5
        <5> QED BY <5>1, <4>3, <2>5 DEF Pending
      <4> QED BY <4>1, <4>2, <4>3, <1>3, <1>5
    <3> QED BY <3>1, <3>2, <2>4, <2>5 DEF Owes
  <2>8. owed' = [owed EXCEPT ![w] = owed[w]] /\ owed[w] \in SUBSET Entry
    BY <2>1, OwedSame
  <2>9. worker'[w] = next
    BY <2>1 DEF Inv, TypeOK
  <2> QED BY <1>1, <2>1, <2>3, <2>4, <2>6, <2>7, <2>8, <2>9, WorkInv
<1> QED BY <1>9, <1>10

LEMMA PostCampaignInv ==
    ASSUME Inv, NEW t \in Trees, PostCampaign(t)
    PROVE  Inv' /\ RowsKeep
<1> DEFINE row == [paused |-> FALSE, root |-> FirstRoot, total_claimed |-> 0, cancelled_at |-> None,
                   instant_refunded |-> FALSE]
<1>0. /\ rows[t] = NoRow /\ rows' = [rows EXCEPT ![t] = row]
      /\ UNCHANGED <<chain, log, slot, tables, checkpoint, worker, patched, owed>>
  BY DEF PostCampaign
<1>1. LogInv' /\ Grows /\ Recorded' = Recorded
  BY <1>0, LogSame DEF Inv, chainVars
<1>2. row \in Row
  BY ChainAssumption DEF ChainAssumption, Row
<1>3. row # NoRow
  BY <1>2, IndexerAssumption DEF IndexerAssumption
<1>4. \A u \in Trees : rows'[u] = IF u = t THEN row ELSE rows[u]
  BY <1>0 DEF Inv, TypeOK
<1>5. /\ row.total_claimed = 0 /\ row.cancelled_at = None /\ row.instant_refunded = FALSE
  OBVIOUS
<1> HIDE DEF row
<1>6. TypeOK'
  BY <1>0, <1>1, <1>2 DEF Inv, TypeOK, LogInv
<1>7. RowsKeep
  BY <1>0, <1>4, RowTypes DEF RowsKeep, Inv
<1>8. FromTheLog'
  BY <1>0, <1>1, InHandStays DEF Inv, FromTheLog, Grows
<1>9. OwedInv'
  BY <1>0, <1>1, <1>6, <1>7, OwesStays DEF Inv, OwedInv
<1>10. RowsInv'
  <2> SUFFICES ASSUME NEW u \in Trees
               PROVE IF rows'[u] = NoRow THEN \A entry \in tables : entry.event.tree # u ELSE RowBetween(u)'
    BY <1>0 DEF RowsInv
  <2>1. CASE u # t
    <3>1. rows'[u] = rows[u]
      BY <1>4, <2>1
    <3>2. (SettledByPage(u)' <=> SettledByPage(u)) /\ (SettlementStored(u)' <=> SettlementStored(u))
      BY <1>0 DEF SettledByPage, SettlementStored
    <3> QED BY <3>1, <3>2, <1>0, <1>1 DEF Inv, RowsInv, RowBetween
  <2>2. CASE u = t
    <3>1. rows'[t] = row /\ \A entry \in tables : entry.event.tree # t
      BY <1>0, <1>4 DEF Inv, RowsInv
    <3>2. chain[t].total_claimed \in Nat /\ Supply \in Nat
      BY ChainAssumption DEF ChainAssumption, Inv, LogInv, ChainTypeOK, TreeType
    <3>3. \A entry \in Recorded : entry.event.tree = t /\ entry.event.kind = "stream_cancelled" =>
            0 + entry.event.value <= chain[t].total_claimed
      BY <3>2 DEF Inv, LogInv, EventsTrue, True
    <3> QED BY <2>2, <3>1, <3>2, <3>3, <1>0, <1>1, <1>3, <1>5 DEF RowBetween
  <2> QED BY <2>1, <2>2
<1> QED BY <1>1, <1>6, <1>7, <1>8, <1>9, <1>10 DEF Inv

(* What the page that sent a transaction writes into the row. *)
LEMMA PatchStatusInv ==
    ASSUME Inv, NEW entry \in EventsAfter(0), PatchStatus(entry)
    PROVE  Inv' /\ RowsKeep
<1> DEFINE event == entry.event
           t == event.tree
           old == rows[t]
<1>0. /\ event.kind \in FromPages /\ old # NoRow /\ patched' = patched \cup {entry}
      /\ UNCHANGED <<chain, log, slot, tables, checkpoint, worker, owed>>
  BY DEF PatchStatus
<1>1. LogInv' /\ Grows /\ Recorded' = Recorded
  BY <1>0, LogSame DEF Inv, chainVars
<1>2. PICK at \in PageTimes(event), total \in PageTotals(event) :
         rows' = [rows EXCEPT ![t] = Patched(old, event, at, total)]
  BY DEF PatchStatus
<1> DEFINE row == Patched(old, event, at, total)
<1>3. entry \in Recorded /\ event \in EventType /\ t \in Trees /\ event.at \in Nat /\ entry \in Entry
  <2>1. entry \in Recorded
    BY RecordedAfter DEF Inv
  <2> QED BY <2>1, RecordedFields DEF Inv, LogInv, EventType
<1>4. /\ old \in Row /\ old.total_claimed \in 0 .. 2 * Supply
      /\ old.total_claimed \in Int /\ old.cancelled_at \in Nat \cup {None}
      /\ old.paused \in BOOLEAN /\ old.instant_refunded \in BOOLEAN /\ old.root \in Roots
  BY <1>0, <1>3, RowTypes DEF Inv
<1>5. /\ chain[t].total_claimed \in 0 .. Supply /\ Supply \in Nat /\ Skew \in Nat /\ None \notin Int
      /\ chain[t].cancelled_at \in Nat \cup {None} /\ chain[t].instant_refunded \in BOOLEAN
  BY <1>3, ChainAssumption, IndexerAssumption
     DEF ChainAssumption, IndexerAssumption, Inv, LogInv, ChainTypeOK, TreeType
<1>6. at \in Nat /\ at - event.at \in 0 .. Skew
  BY <1>3, <1>5 DEF PageTimes
<1>7. total \in 0 .. Supply
  BY <1>5 DEF PageTotals
<1>8. True(event, chain[t])
  BY <1>3 DEF Inv, LogInv, EventsTrue
<1> HIDE DEF row
<1>9. /\ row \in Row /\ old.total_claimed <= row.total_claimed
      /\ event.kind # "stream_cancelled" => row.total_claimed = old.total_claimed
      /\ row.total_claimed <= Larger(old.total_claimed, Supply)
      /\ old.cancelled_at # None => row.cancelled_at # None
      /\ old.instant_refunded => row.instant_refunded
      /\ row.cancelled_at = old.cancelled_at
           \/ (row.cancelled_at = at /\ event.kind \in {"campaign_cancelled", "instant_refunded", "stream_cancelled"})
      /\ row.instant_refunded => old.instant_refunded \/ event.kind = "instant_refunded"
  <2>1. CASE event.kind = "paused"
    <3>1. row = IF old.cancelled_at = None THEN [old EXCEPT !.paused = TRUE] ELSE old
      BY <2>1 DEF Patched, row
    <3>2. row \in Row
      BY <3>1, <1>4 DEF Row
    <3>3. /\ row.total_claimed = old.total_claimed /\ row.cancelled_at = old.cancelled_at
          /\ row.instant_refunded = old.instant_refunded
      BY <3>1, <1>4 DEF Row
    <3> QED BY <2>1, <3>2, <3>3, <1>4, <1>5 DEF Larger
  <2>2. CASE event.kind = "unpaused"
    <3>1. row = [old EXCEPT !.paused = FALSE]
      BY <2>2 DEF Patched, row
    <3>2. row \in Row
      BY <3>1, <1>4 DEF Row
    <3>3. /\ row.total_claimed = old.total_claimed /\ row.cancelled_at = old.cancelled_at
          /\ row.instant_refunded = old.instant_refunded
      BY <3>1, <1>4 DEF Row
    <3> QED BY <2>2, <3>2, <3>3, <1>4, <1>5 DEF Larger
  <2>3. CASE event.kind = "stream_cancelled"
    <3>1. row = [old EXCEPT !.cancelled_at = at, !.paused = FALSE,
                            !.total_claimed = Larger(old.total_claimed, total)]
      BY <2>3 DEF Patched, row
    <3>2. Larger(old.total_claimed, total) \in 0 .. 2 * Supply
      BY <1>4, <1>5, <1>7 DEF Larger
    <3>3. row \in Row
      BY <3>1, <3>2, <1>4, <1>6 DEF Row
    <3>4. /\ row.total_claimed = Larger(old.total_claimed, total) /\ row.cancelled_at = at
          /\ row.instant_refunded = old.instant_refunded
      BY <3>1, <1>4 DEF Row
    <3> QED BY <2>3, <3>3, <3>4, <1>4, <1>5, <1>6, <1>7 DEF Larger
  <2>4. CASE event.kind \in {"campaign_cancelled", "instant_refunded"}
    <3>1. row = [old EXCEPT !.cancelled_at = at, !.paused = FALSE,
                            !.instant_refunded = old.instant_refunded \/ event.kind = "instant_refunded"]
      BY <2>4 DEF Patched, row
    <3>2. row \in Row
      BY <3>1, <1>4, <1>6 DEF Row
    <3>3. /\ row.total_claimed = old.total_claimed /\ row.cancelled_at = at
          /\ row.instant_refunded = (old.instant_refunded \/ event.kind = "instant_refunded")
      BY <3>1, <1>4 DEF Row
    <3> QED BY <2>4, <3>2, <3>3, <1>4, <1>5, <1>6 DEF Larger
  <2> QED BY <1>0, <2>1, <2>2, <2>3, <2>4 DEF FromPages
<1>10. row # NoRow /\ row.total_claimed \in Int /\ row.cancelled_at \in Nat \cup {None}
  BY <1>9, IndexerAssumption DEF IndexerAssumption, Row
<1>11. \A u \in Trees : rows'[u] = IF u = t THEN row ELSE rows[u]
  BY <1>2 DEF Inv, TypeOK, row
<1>12. TypeOK'
  BY <1>0, <1>1, <1>2, <1>3, <1>9 DEF Inv, TypeOK, LogInv, row
<1>13. RowsKeep
  BY <1>9, <1>10, <1>11, RowTypes DEF RowsKeep, Inv
<1>14. FromTheLog'
  BY <1>0, <1>1, <1>3, InHandStays DEF Inv, FromTheLog, Grows
<1>15. OwedInv'
  BY <1>0, <1>1, <1>12, <1>13, OwesStays DEF Inv, OwedInv
<1>16. RowsInv'
  <2> SUFFICES ASSUME NEW u \in Trees
               PROVE IF rows'[u] = NoRow THEN \A e \in tables : e.event.tree # u ELSE RowBetween(u)'
    BY <1>0 DEF RowsInv
  <2>0. /\ SettledByPage(u) => SettledByPage(u)'
        /\ SettlementStored(u)' <=> SettlementStored(u)
    BY <1>0 DEF SettledByPage, SettlementStored
  <2>1. CASE u # t
    <3>1. rows'[u] = rows[u]
      BY <1>11, <2>1
    <3> QED BY <2>0, <3>1, <1>0, <1>1 DEF Inv, RowsInv, RowBetween
  <2>2. CASE u = t
    <3>1. rows'[t] = row /\ RowBetween(t)
      BY <1>0, <1>3, <1>11 DEF Inv, RowsInv
    <3>2. event.kind = "stream_cancelled" => SettledByPage(t)'
      BY <1>0 DEF SettledByPage
    <3>3. row.cancelled_at # None =>
            chain[t].cancelled_at # None /\ row.cancelled_at - chain[t].cancelled_at \in 0 .. Skew
      BY <3>1, <1>6, <1>8, <1>9 DEF RowBetween, True
    <3>4. row.instant_refunded => chain[t].instant_refunded
      BY <3>1, <1>8, <1>9 DEF RowBetween, True
    <3>5. ~SettledByPage(t)' => row.total_claimed <= chain[t].total_claimed
      BY <2>0, <2>2, <3>1, <3>2, <1>9 DEF RowBetween
    <3>6. ~SettlementStored(t)' =>
            /\ row.total_claimed <= Supply
            /\ ~SettledByPage(t)' => \A e \in Recorded :
                 e.event.tree = t /\ e.event.kind = "stream_cancelled" =>
                   row.total_claimed + e.event.value <= chain[t].total_claimed
      BY <2>0, <2>2, <3>1, <3>2, <1>4, <1>5, <1>9 DEF RowBetween, Larger
    <3>7. \A e \in tables : e.event.tree = t =>
            /\ e.event.kind = "claimed" => e.event.value <= row.total_claimed
            /\ e.event.kind \in {"campaign_cancelled", "stream_cancelled", "instant_refunded"} =>
                 row.cancelled_at # None
            /\ e.event.kind = "instant_refunded" => row.instant_refunded
      <4>1. \A e \in tables : e.event.kind = "claimed" => e.event.value \in Int
        BY DEF Inv, FromTheLog, LogInv, EventsTrue, True
      <4> QED BY <4>1, <3>1, <1>4, <1>9, <1>10 DEF RowBetween
    <3> QED BY <2>2, <3>1, <3>3, <3>4, <3>5, <3>6, <3>7, <1>0, <1>1, <1>10 DEF RowBetween
  <2> QED BY <2>1, <2>2
<1> QED BY <1>1, <1>12, <1>13, <1>14, <1>15, <1>16 DEF Inv

(* What an event does to the row of its campaign. *)
LEMMA RowReflects ==
    ASSUME Inv, NEW entry \in Recorded, rows[entry.event.tree] # NoRow,
           NEW row, row = Reflected(rows[entry.event.tree], entry.event, ~Taken(entry.sig, entry.event))
    PROVE  LET e == entry.event
               t == e.tree
               old == rows[t]
           IN  /\ row \in Row /\ row # NoRow
               /\ old.total_claimed <= row.total_claimed
               /\ old.cancelled_at # None => row.cancelled_at # None
               /\ old.instant_refunded => row.instant_refunded
               /\ row.cancelled_at = old.cancelled_at \/ (row.cancelled_at = e.at
                    /\ e.kind \in {"campaign_cancelled", "instant_refunded", "stream_cancelled"})
               /\ e.kind \in {"campaign_cancelled", "instant_refunded"} => row.cancelled_at # None
               /\ e.kind = "stream_cancelled" /\ ~Taken(entry.sig, e) =>
                    row.cancelled_at # None /\ row.total_claimed = old.total_claimed + e.value
               /\ e.kind = "stream_cancelled" /\ Taken(entry.sig, e) => row = old
               /\ e.kind = "claimed" => row.total_claimed = Larger(old.total_claimed, e.value)
               /\ e.kind \notin {"claimed", "stream_cancelled"} => row.total_claimed = old.total_claimed
               /\ row.instant_refunded <=> old.instant_refunded \/ e.kind = "instant_refunded"
<1> DEFINE e == entry.event
           t == e.tree
           old == rows[t]
           inserted == ~Taken(entry.sig, e)
<1>1. e \in EventType /\ t \in Trees /\ e.at \in Nat /\ e.kind \in Kinds
  BY RecordedFields DEF Inv, LogInv, EventType
<1>2. /\ old \in Row /\ old.total_claimed \in 0 .. 2 * Supply
      /\ old.total_claimed \in Int /\ old.cancelled_at \in Nat \cup {None}
      /\ old.paused \in BOOLEAN /\ old.instant_refunded \in BOOLEAN /\ old.root \in Roots
  BY <1>1, RowTypes DEF Inv
<1>3. /\ chain[t].total_claimed \in 0 .. Supply /\ Supply \in Nat /\ None \notin Int
  BY <1>1, ChainAssumption DEF ChainAssumption, Inv, LogInv, ChainTypeOK, TreeType
<1>4. True(e, chain[t]) /\ RowBetween(t)
  BY <1>1 DEF Inv, LogInv, EventsTrue, RowsInv
<1>5. row = Reflected(old, e, inserted)
  OBVIOUS
<1> HIDE DEF inserted
<1>6. CASE e.kind = "claimed"
  <2>1. row = [old EXCEPT !.total_claimed = Larger(old.total_claimed, e.value)]
    BY <1>5, <1>6 DEF Reflected, ClaimedRow
  <2>2. Larger(old.total_claimed, e.value) \in 0 .. 2 * Supply
        /\ old.total_claimed <= Larger(old.total_claimed, e.value)
    BY <1>2, <1>3, <1>4, <1>6 DEF Larger, True
  <2>3. row \in Row
    BY <2>1, <2>2, <1>2 DEF Row
  <2>4. /\ row.total_claimed = Larger(old.total_claimed, e.value)
        /\ row.cancelled_at = old.cancelled_at /\ row.instant_refunded = old.instant_refunded
    BY <2>1, <1>2 DEF Row
  <2> QED BY <1>2, <1>6, <2>2, <2>3, <2>4, IndexerAssumption DEF IndexerAssumption
<1>7. CASE e.kind = "campaign_cancelled"
  <2>1. row = [old EXCEPT !.cancelled_at = e.at]
    BY <1>5, <1>7 DEF Reflected
  <2>2. row \in Row
    BY <2>1, <1>1, <1>2 DEF Row
  <2>3. /\ row.total_claimed = old.total_claimed
        /\ row.cancelled_at = e.at /\ row.instant_refunded = old.instant_refunded
    BY <2>1, <1>2 DEF Row
  <2> QED BY <1>1, <1>2, <1>3, <1>7, <2>2, <2>3, IndexerAssumption DEF IndexerAssumption
<1>8. CASE e.kind = "instant_refunded"
  <2>1. row = [old EXCEPT !.cancelled_at = e.at, !.instant_refunded = TRUE]
    BY <1>5, <1>8 DEF Reflected
  <2>2. row \in Row
    BY <2>1, <1>1, <1>2 DEF Row
  <2>3. /\ row.total_claimed = old.total_claimed
        /\ row.cancelled_at = e.at /\ row.instant_refunded = TRUE
    BY <2>1, <1>2 DEF Row
  <2> QED BY <1>1, <1>2, <1>3, <1>8, <2>2, <2>3, IndexerAssumption DEF IndexerAssumption
<1>9. CASE e.kind = "stream_cancelled" /\ inserted
  <2>1. row = [old EXCEPT !.cancelled_at = e.at, !.total_claimed = old.total_claimed + e.value]
    BY <1>5, <1>9 DEF Reflected, SettledRow
  <2>2. ~SettlementStored(t)
    <3>1. SUFFICES ASSUME NEW other \in tables, other.event.tree = t, other.event.kind = "stream_cancelled"
                   PROVE  FALSE
      BY DEF SettlementStored
    <3>2. other \in Recorded
      BY DEF Inv, FromTheLog
    <3>3. other = entry
      BY <1>9, <3>1, <3>2 DEF Inv, LogInv, EventsDistinct
    <3> QED BY <1>9, <3>3 DEF Taken, inserted
  <2>3. old.total_claimed <= Supply /\ e.value \in 0 .. Supply
    BY <1>3, <1>4, <1>9, <2>2 DEF RowBetween, True
  <2>4. old.total_claimed + e.value \in 0 .. 2 * Supply
    BY <1>2, <1>3, <2>3
  <2>5. row \in Row
    BY <2>1, <2>4, <1>1, <1>2 DEF Row
  <2>6. /\ row.total_claimed = old.total_claimed + e.value
        /\ row.cancelled_at = e.at /\ row.instant_refunded = old.instant_refunded
    BY <2>1, <1>2 DEF Row
  <2> QED BY <1>1, <1>2, <1>3, <1>9, <2>3, <2>5, <2>6, IndexerAssumption DEF IndexerAssumption, inserted
<1>10. CASE e.kind = "stream_cancelled" /\ ~inserted
  <2>1. row = old
    BY <1>5, <1>10 DEF Reflected, SettledRow
  <2> QED BY <1>2, <1>10, <2>1 DEF inserted
<1>11. CASE e.kind \in {"paused", "unpaused", "root_updated"}
  <2>1. row = CASE e.kind = "paused" -> [old EXCEPT !.paused = TRUE]
                [] e.kind = "unpaused" -> [old EXCEPT !.paused = FALSE]
                [] e.kind = "root_updated" -> [old EXCEPT !.root = e.value]
    BY <1>5, <1>11 DEF Reflected
  <2>2. row \in Row
    BY <2>1, <1>2, <1>4, <1>11 DEF Row, True
  <2>3. /\ row.total_claimed = old.total_claimed
        /\ row.cancelled_at = old.cancelled_at /\ row.instant_refunded = old.instant_refunded
    BY <2>1, <1>2, <1>11 DEF Row
  <2> QED BY <1>2, <1>11, <2>2, <2>3, IndexerAssumption DEF IndexerAssumption
<1>12. CASE e.kind \in {"withdrawn", "milestone_released"}
  <2>1. row = old
    BY <1>5, <1>12 DEF Reflected
  <2> QED BY <1>2, <1>12, <2>1
<1> QED BY <1>1, <1>6, <1>7, <1>8, <1>9, <1>10, <1>11, <1>12 DEF Kinds

(* The row of the campaign whose event was read. *)
LEMMA StoredRow ==
    ASSUME Inv, NEW entry \in Recorded, rows[entry.event.tree] # NoRow,
           NEW row, row = Reflected(rows[entry.event.tree], entry.event, ~Taken(entry.sig, entry.event)),
           rows' = [rows EXCEPT ![entry.event.tree] = row],
           tables' = IF Taken(entry.sig, entry.event) THEN tables ELSE tables \cup {entry},
           UNCHANGED <<chain, log, slot, patched>>
    PROVE  RowBetween(entry.event.tree)'
<1> DEFINE e == entry.event
           t == e.tree
           old == rows[t]
<1>0. chain' = chain /\ Recorded' = Recorded /\ (SettledByPage(t)' <=> SettledByPage(t))
  BY DEF Recorded, SettledByPage
<1>1. t \in Trees /\ rows'[t] = row
  BY RecordedFields DEF Inv, LogInv, EventType, TypeOK
<1>2. RowBetween(t) /\ True(e, chain[t])
  BY <1>1 DEF Inv, RowsInv, LogInv, EventsTrue
<1>3. /\ row \in Row
      /\ old.total_claimed <= row.total_claimed
      /\ old.cancelled_at # None => row.cancelled_at # None
      /\ old.instant_refunded => row.instant_refunded
      /\ row.cancelled_at = old.cancelled_at \/ (row.cancelled_at = e.at
           /\ e.kind \in {"campaign_cancelled", "instant_refunded", "stream_cancelled"})
      /\ e.kind \in {"campaign_cancelled", "instant_refunded"} => row.cancelled_at # None
      /\ e.kind = "stream_cancelled" /\ ~Taken(entry.sig, e) =>
           row.cancelled_at # None /\ row.total_claimed = old.total_claimed + e.value
      /\ e.kind = "stream_cancelled" /\ Taken(entry.sig, e) => row = old
      /\ e.kind = "claimed" => row.total_claimed = Larger(old.total_claimed, e.value)
      /\ e.kind \notin {"claimed", "stream_cancelled"} => row.total_claimed = old.total_claimed
      /\ row.instant_refunded <=> old.instant_refunded \/ e.kind = "instant_refunded"
  BY RowReflects
<1>4. /\ chain[t].total_claimed \in 0 .. Supply /\ Supply \in Nat /\ None \notin Int /\ Skew \in Nat
      /\ old.total_claimed \in Int /\ row.total_claimed \in Int
      /\ chain[t].cancelled_at \in Nat \cup {None}
  BY <1>1, <1>3, RowTypes, ChainAssumption, IndexerAssumption
     DEF ChainAssumption, IndexerAssumption, Inv, LogInv, ChainTypeOK, TreeType, Row
<1>5. \A other \in Recorded : other.event.kind \in {"claimed", "stream_cancelled"} => other.event.value \in Int
  BY DEF Inv, LogInv, EventsTrue, True
<1>6. tables \subseteq tables' /\ tables \subseteq Recorded
  BY DEF Inv, FromTheLog
<1>7. SettlementStored(t) => SettlementStored(t)'
  BY <1>6 DEF SettlementStored
<1>8. e.kind = "stream_cancelled" /\ ~Taken(entry.sig, e) => SettlementStored(t)' /\ ~SettlementStored(t)
  <2> SUFFICES ASSUME e.kind = "stream_cancelled", ~Taken(entry.sig, e)
               PROVE  SettlementStored(t)' /\ ~SettlementStored(t)
    OBVIOUS
  <2>1. entry \in tables'
    OBVIOUS
  <2>2. ASSUME NEW other \in tables, other.event.tree = t, other.event.kind = "stream_cancelled" PROVE FALSE
    <3>1. other = entry
      BY <1>6, <2>2 DEF Inv, LogInv, EventsDistinct
    <3> QED BY <3>1 DEF Taken
  <2> QED BY <2>1, <2>2 DEF SettlementStored
<1>9. row.cancelled_at # None =>
        chain[t].cancelled_at # None /\ row.cancelled_at - chain[t].cancelled_at \in 0 .. Skew
  BY <1>2, <1>3, <1>4 DEF RowBetween, True
<1>10. row.instant_refunded => chain[t].instant_refunded
  BY <1>2, <1>3 DEF RowBetween, True
<1>11. ~SettledByPage(t) => row.total_claimed <= chain[t].total_claimed
  <2> SUFFICES ASSUME ~SettledByPage(t) PROVE row.total_claimed <= chain[t].total_claimed
    OBVIOUS
  <2>1. CASE e.kind = "stream_cancelled" /\ ~Taken(entry.sig, e)
    BY <2>1, <1>2, <1>3, <1>8 DEF RowBetween
  <2>2. CASE e.kind = "claimed"
    BY <2>2, <1>2, <1>3, <1>4 DEF RowBetween, True, Larger
  <2> QED BY <2>1, <2>2, <1>2, <1>3 DEF RowBetween
<1>12. ~SettlementStored(t)' =>
         /\ row.total_claimed <= Supply
         /\ ~SettledByPage(t) => \A other \in Recorded :
              other.event.tree = t /\ other.event.kind = "stream_cancelled" =>
                row.total_claimed + other.event.value <= chain[t].total_claimed
  <2> SUFFICES ASSUME ~SettlementStored(t)'
               PROVE  /\ row.total_claimed <= Supply
                      /\ ~SettledByPage(t) => \A other \in Recorded :
                           other.event.tree = t /\ other.event.kind = "stream_cancelled" =>
                             row.total_claimed + other.event.value <= chain[t].total_claimed
    OBVIOUS
  <2>1. ~SettlementStored(t) /\ ~(e.kind = "stream_cancelled" /\ ~Taken(entry.sig, e))
    BY <1>7, <1>8
  <2>2. CASE e.kind = "claimed"
    <3>1. e.value \in Int /\ e.value <= chain[t].total_claimed
      BY <2>2, <1>2, <1>4 DEF True
    <3>2. row.total_claimed = old.total_claimed \/ row.total_claimed = e.value
      BY <2>2, <1>3 DEF Larger
    <3>3. \A other \in Recorded : other.event.tree = t /\ other.event.kind = "stream_cancelled" =>
             e.value + other.event.value <= chain[t].total_claimed
      BY <2>2 DEF Inv, LogInv, EventsDistinct
    <3> QED BY <2>1, <3>1, <3>2, <3>3, <1>2, <1>4 DEF RowBetween
  <2>3. CASE e.kind # "claimed"
    <3>1. row.total_claimed = old.total_claimed
      BY <2>1, <2>3, <1>3
    <3> QED BY <2>1, <3>1, <1>2 DEF RowBetween
  <2> QED BY <2>2, <2>3
<1>13. \A other \in tables' : other.event.tree = t =>
         /\ other.event.kind = "claimed" => other.event.value <= row.total_claimed
         /\ other.event.kind \in {"campaign_cancelled", "stream_cancelled", "instant_refunded"} =>
              row.cancelled_at # None
         /\ other.event.kind = "instant_refunded" => row.instant_refunded
  <2> SUFFICES ASSUME NEW other \in tables', other.event.tree = t
               PROVE  /\ other.event.kind = "claimed" => other.event.value <= row.total_claimed
                      /\ other.event.kind \in {"campaign_cancelled", "stream_cancelled", "instant_refunded"} =>
                           row.cancelled_at # None
                      /\ other.event.kind = "instant_refunded" => row.instant_refunded
    OBVIOUS
  <2>1. CASE other \in tables
    <3>1. other.event.kind = "claimed" =>
            other.event.value <= old.total_claimed /\ other.event.value \in Int
      BY <2>1, <1>2, <1>5, <1>6 DEF RowBetween
    <3> QED BY <2>1, <3>1, <1>2, <1>3, <1>4 DEF RowBetween
  <2>2. CASE other = entry /\ ~Taken(entry.sig, e)
    <3>1. e.kind = "claimed" => e.value <= row.total_claimed
      BY <1>2, <1>3, <1>4 DEF Larger, True
    <3> QED BY <2>2, <3>1, <1>3
  <2> QED BY <2>1, <2>2
<1> QED BY <1>0, <1>1, <1>9, <1>10, <1>11, <1>12, <1>13 DEF RowBetween

LEMMA HeadAndTail ==
    ASSUME NEW events \in Seq(EventType), events # <<>>
    PROVE  /\ 1 \in DOMAIN events /\ Head(events) = events[1] /\ Head(events) \in EventType
           /\ Tail(events) \in Seq(EventType)
           /\ \A k \in DOMAIN Tail(events) : k + 1 \in DOMAIN events /\ Tail(events)[k] = events[k + 1]
           /\ \A k \in DOMAIN events : k = 1 \/ (k - 1 \in DOMAIN Tail(events) /\ Tail(events)[k - 1] = events[k])
OBVIOUS

(* The events in hand, less the first. *)
LEMMA NextEvent ==
    ASSUME Inv, NEW w \in Workers, AtEvent(w),
           NEW me, me = [worker[w] EXCEPT !.events = Tail(worker[w].events)]
    PROVE  /\ me \in Invocation /\ me # Idle /\ InHand(me)
           /\ [sig |-> worker[w].sig, event |-> Head(worker[w].events)] \in Recorded
           /\ me.start = worker[w].start /\ me.claims_only = worker[w].claims_only
           /\ \A entry : Pending(worker[w], entry) =>
                \/ Pending(me, entry)
                \/ entry.sig = worker[w].sig /\ entry.event = Head(worker[w].events)
<1>1. /\ worker[w] \in Invocation /\ worker[w] # Idle /\ InHand(worker[w])
      /\ worker[w].events \in Seq(EventType) /\ worker[w].events # <<>>
  BY RunningIs DEF AtEvent
<1> DEFINE events == worker[w].events
<1>2. /\ 1 \in DOMAIN events /\ Head(events) = events[1] /\ Head(events) \in EventType
      /\ Tail(events) \in Seq(EventType)
      /\ \A k \in DOMAIN Tail(events) : k + 1 \in DOMAIN events /\ Tail(events)[k] = events[k + 1]
      /\ \A k \in DOMAIN events : k = 1 \/ (k - 1 \in DOMAIN Tail(events) /\ Tail(events)[k - 1] = events[k])
  BY <1>1, HeadAndTail
<1>3. me \in Invocation
  BY <1>1, <1>2 DEF Invocation
<1>4. /\ me.events = Tail(events) /\ me.page = worker[w].page /\ me.sig = worker[w].sig
      /\ me.before = worker[w].before /\ me.start = worker[w].start /\ me.more = worker[w].more
      /\ me.claims_only = worker[w].claims_only
  BY <1>1 DEF Invocation
<1>5. InHand(me)
  BY <1>1, <1>2, <1>4 DEF InHand
<1>6. [sig |-> worker[w].sig, event |-> Head(events)] \in Recorded
  BY <1>1, <1>2 DEF InHand
<1>7. ASSUME NEW entry, Pending(worker[w], entry)
      PROVE  \/ Pending(me, entry)
             \/ entry.sig = worker[w].sig /\ entry.event = Head(worker[w].events)
  BY <1>2, <1>4, <1>7 DEF Pending
<1> QED BY <1>3, <1>4, <1>5, <1>6, <1>7, IndexerAssumption DEF IndexerAssumption

LEMMA StoreInv ==
    ASSUME Inv, NEW w \in Workers, AtEvent(w), NEW row, NEW entry,
           entry = [sig |-> worker[w].sig, event |-> Head(worker[w].events)],
           row = Reflected(rows[entry.event.tree], entry.event, ~Taken(entry.sig, entry.event)),
           Store(w, entry.sig, entry.event, row)
    PROVE  Inv' /\ RowsKeep
<1> DEFINE e == entry.event
           t == e.tree
<1>a. PICK me : me = [worker[w] EXCEPT !.events = Tail(worker[w].events)]
  OBVIOUS
<1>0. /\ worker' = [worker EXCEPT ![w] = me]
      /\ UNCHANGED <<chain, log, slot, patched, owed>>
  BY <1>a DEF Store
<1>1. /\ me \in Invocation /\ me # Idle /\ InHand(me) /\ entry \in Recorded
      /\ me.start = worker[w].start /\ me.claims_only = worker[w].claims_only
      /\ \A other : Pending(worker[w], other) =>
                \/ Pending(me, other)
                \/ other.sig = worker[w].sig /\ other.event = Head(worker[w].events)
  BY <1>a, NextEvent
<1>2. entry.sig \in DOMAIN log /\ t \in Trees /\ entry \in Entry
  BY <1>1, RecordedFields DEF Inv, LogInv, EventType
<1>3. CASE rows[t] = NoRow
  <2>1. UNCHANGED <<rows, tables, checkpoint>>
    BY <1>3 DEF Store, dbVars
  <2>2. ASSUME NEW other \in owed[w] PROVE Owes(me, other)
    <3>1. Owes(worker[w], other)
      BY DEF Inv, OwedInv
    <3>2. other.event # e
      BY <3>1, <1>3 DEF Owes
    <3> QED BY <3>1, <3>2, <1>1 DEF Owes
  <2>3. owed' = [owed EXCEPT ![w] = owed[w]] /\ owed[w] \in SUBSET Entry
    BY <1>0, OwedSame
  <2> QED BY <1>0, <1>1, <2>1, <2>2, <2>3, WorkInv
<1>4. CASE rows[t] # NoRow
  <2>1. /\ tables' = IF Taken(entry.sig, entry.event) THEN tables ELSE tables \cup {entry}
        /\ rows' = [rows EXCEPT ![t] = row] /\ checkpoint' = log[entry.sig].slot
    BY <1>4, <1>2 DEF Store, Persisted, Entry
  <2>2. LogInv' /\ Grows /\ Recorded' = Recorded
    BY <1>0, LogSame DEF Inv, chainVars
  <2>3. /\ row \in Row /\ row # NoRow
        /\ rows[t].total_claimed <= row.total_claimed
        /\ rows[t].cancelled_at # None => row.cancelled_at # None
        /\ rows[t].instant_refunded => row.instant_refunded
        /\ e.kind = "claimed" => row.total_claimed = Larger(rows[t].total_claimed, e.value)
    BY <1>1, <1>4, RowReflects
  <2>4. \A u \in Trees : rows'[u] = IF u = t THEN row ELSE rows[u]
    BY <2>1 DEF Inv, TypeOK
  <2>5. \A v \in Workers : worker'[v] = IF v = w THEN me ELSE worker[v]
    BY <1>0 DEF Inv, TypeOK
  <2>6. tables \subseteq tables' /\ tables' \subseteq tables \cup {entry}
    BY <2>1
  <2>7. TypeOK'
    <3>1. log[entry.sig].slot \in Nat
      <4>1. log \in Seq(Transaction)
        BY DEF Inv, LogInv, ChainTypeOK
      <4>2. log[entry.sig] \in Transaction
        BY <1>2, <4>1
      <4> QED BY <4>2 DEF Transaction
    <3> QED BY <1>0, <1>1, <1>2, <2>1, <2>2, <2>3, <2>6, <3>1 DEF Inv, TypeOK, LogInv
  <2>8. RowsKeep
    BY <2>3, <2>4, RowTypes DEF RowsKeep, Inv
  <2>9. FromTheLog'
    <3>1. IsFiniteSet(tables')
      BY <2>1, FS_AddElement DEF Inv, FromTheLog
    <3>2. ASSUME NEW v \in Workers, worker'[v] # Idle PROVE InHand(worker[v])'
      <4>1. InHand(worker[v]) \/ v = w
        BY <2>5, <3>2 DEF Inv, FromTheLog
      <4>2. PICK her : her = worker'[v]
        OBVIOUS
      <4>3. InHand(her)
        BY <4>1, <4>2, <2>5, <1>1
      <4>4. InHand(her)'
        BY <4>3, <2>2, InHandStays DEF Inv
      <4> QED BY <4>2, <4>4 DEF InHand
    <3> QED BY <1>0, <1>1, <2>2, <2>6, <3>1, <3>2 DEF Inv, FromTheLog
  <2>10. RowsInv'
    <3> SUFFICES ASSUME NEW u \in Trees
                 PROVE IF rows'[u] = NoRow THEN \A other \in tables' : other.event.tree # u ELSE RowBetween(u)'
      BY DEF RowsInv
    <3>1. CASE u = t
      <4>1. RowBetween(t)'
        BY <1>0, <1>1, <1>4, <2>1, StoredRow
      <4> QED BY <3>1, <4>1, <2>3, <2>4
    <3>2. CASE u # t
      <4>1. rows'[u] = rows[u]
        BY <2>4, <3>2
      <4>2. \A other : other \in tables' /\ other.event.tree = u => other \in tables
        BY <2>6, <3>2
      <4>3. (SettledByPage(u)' <=> SettledByPage(u)) /\ (SettlementStored(u)' <=> SettlementStored(u))
        BY <1>0, <2>6, <4>2 DEF SettledByPage, SettlementStored
      <4>4. CASE rows[u] = NoRow
        BY <4>1, <4>2, <4>4 DEF Inv, RowsInv
      <4>5. CASE rows[u] # NoRow
        BY <4>1, <4>2, <4>3, <4>5, <1>0, <2>2 DEF Inv, RowsInv, RowBetween
      <4> QED BY <4>4, <4>5
    <3> QED BY <3>1, <3>2
  <2>11. OwedInv'
    <3>1. ASSUME NEW other \in owed[w] PROVE Owes(me, other)'
      <4>1. Owes(worker[w], other)
        BY DEF Inv, OwedInv
      <4>2. PICK mine : mine = worker[w]
        OBVIOUS
      <4>3. Owes(mine, other)'
        BY <4>1, <4>2, <2>2, <2>6, <2>7, <2>8, OwesStays
      <4>4. CASE other.sig = entry.sig /\ other.event = e
        <5>1. Taken(other.sig, other.event)'
          BY <4>4, <2>1 DEF Taken
        <5>2. e.kind = "claimed" => row.total_claimed >= e.value
          <6>1. e.kind = "claimed" => e.value \in Int
            BY <1>1 DEF Inv, LogInv, EventsTrue, True
          <6>2. rows[t].total_claimed \in Int
            BY <1>2, <1>4, RowTypes DEF Inv
          <6> QED BY <6>1, <6>2, <2>3 DEF Larger
        <5>3. Covered(other)'
          BY <4>4, <5>1, <5>2, <1>2, <2>4 DEF Covered
        <5> QED BY <4>2, <4>3, <5>3, <1>1 DEF Owes
      <4>5. CASE ~(other.sig = entry.sig /\ other.event = e)
        <5>1. Pending(mine, other) => Pending(me, other)
          BY <4>2, <4>5, <1>1
        <5>2. Pending(mine, other)' => Pending(me, other)'
          BY <5>1 DEF Pending
        <5> QED BY <4>2, <4>3, <5>2, <1>1 DEF Owes
      <4> QED BY <4>4, <4>5
    <3>2. ASSUME NEW v \in Workers, v # w, NEW other \in owed[v] PROVE Owes(worker[v], other)'
      <4>1. PICK hers : hers = worker[v]
        OBVIOUS
      <4>2. Owes(hers, other)
        BY <4>1 DEF Inv, OwedInv
      <4>3. Owes(hers, other)'
        BY <4>2, <2>2, <2>6, <2>7, <2>8, OwesStays
      <4>4. worker'[v] = hers
        BY <4>1, <3>2, <2>5
      <4> QED BY <4>3, <4>4 DEF Owes, Pending
    <3>3. worker'[w] = me
      BY <2>5
    <3>4. \A other \in owed[w] : Owes(worker[w], other)'
      BY <3>1, <3>3 DEF Owes, Pending
    <3>5. \A v \in Workers : \A other \in owed[v] : Owes(worker[v], other)'
      BY <3>2, <3>4
    <3> QED BY <3>5, <1>0 DEF OwedInv
  <2> QED BY <2>2, <2>7, <2>8, <2>9, <2>10, <2>11 DEF Inv
<1> QED BY <1>3, <1>4

LEMMA IndexEventInv ==
    ASSUME Inv, NEW w \in Workers, IndexEvent(w)
    PROVE  Inv' /\ RowsKeep
<1> DEFINE entry == [sig |-> worker[w].sig, event |-> Head(worker[w].events)]
<1>1. entry.sig = worker[w].sig /\ entry.event = Head(worker[w].events)
  OBVIOUS
<1>2. PICK row : row = Reflected(rows[entry.event.tree], entry.event, ~Taken(entry.sig, entry.event))
  OBVIOUS
<1>3. AtEvent(w) /\ Store(w, entry.sig, entry.event, row)
  BY <1>1, <1>2 DEF IndexEvent
<1> QED BY <1>2, <1>3, StoreInv

LEMMA IndexClaimInv ==
    ASSUME Inv, NEW w \in Workers, IndexClaim(w)
    PROVE  Inv' /\ RowsKeep
<1> DEFINE entry == [sig |-> worker[w].sig, event |-> Head(worker[w].events)]
<1>0. AtEvent(w) /\ worker[w].claims_only /\ owed[w] = {}
  BY OwesNothing DEF IndexClaim
<1>1. entry.sig = worker[w].sig /\ entry.event = Head(worker[w].events)
  OBVIOUS
<1>2. CASE entry.event.kind = "claimed"
  <2>1. PICK row : row = Reflected(rows[entry.event.tree], entry.event, ~Taken(entry.sig, entry.event))
    OBVIOUS
  <2>2. row = ClaimedRow(rows[entry.event.tree], entry.event)
    BY <1>2, <2>1 DEF Reflected
  <2>3. Store(w, entry.sig, entry.event, row)
    BY <1>1, <1>2, <2>2 DEF IndexClaim
  <2> QED BY <1>0, <2>1, <2>3, StoreInv
<1>3. CASE entry.event.kind # "claimed"
  <2>1. PassOver(w)
    BY <1>1, <1>3 DEF IndexClaim
  <2>2. PICK me : me = [worker[w] EXCEPT !.events = Tail(worker[w].events)]
    OBVIOUS
  <2>3. me \in Invocation /\ me # Idle /\ InHand(me)
    BY <1>0, <2>2, NextEvent
  <2>4. worker' = [worker EXCEPT ![w] = me]
    BY <2>1, <2>2 DEF PassOver
  <2>5. owed' = [owed EXCEPT ![w] = {}] /\ UNCHANGED <<chain, log, slot, rows, tables, checkpoint, patched>>
    BY <1>0, <2>1, OwedSame DEF PassOver
  <2> QED BY <2>3, <2>4, <2>5, WorkInv
<1> QED BY <1>2, <1>3

(* --------------------------- the theorems ------------------------------- *)

LEMMA NextInv ==
    ASSUME Inv, [Next]_vars
    PROVE  Inv' /\ RowsKeep
<1>0. slot \in Nat /\ checkpoint \in Nat
  BY DEF Inv, TypeOK, ChainTypeOK
<1>1. CASE Chain
  BY <1>1, ChainStepInv
<1>2. CASE \E t \in Trees : PostCampaign(t)
  BY <1>2, PostCampaignInv
<1>3. CASE \E entry \in EventsAfter(0) : PatchStatus(entry)
  BY <1>3, PatchStatusInv
<1>4. ASSUME NEW w \in Workers,
             \/ CronSync(w)
             \/ \E start \in 0 .. slot : AdminSync(w, start)
             \/ \E sig \in Visible : SyncSignature(w, sig) \/ SyncClaims(w, sig)
             \/ FetchPage(w) \/ ReadTransaction(w) \/ MissTransaction(w)
             \/ IndexEvent(w) \/ IndexClaim(w) \/ Crash(w)
      PROVE  Inv' /\ RowsKeep
  <2>1. CASE CronSync(w)
    BY <2>1, <1>0, StartPassInv DEF CronSync
  <2>2. CASE \E start \in 0 .. slot : AdminSync(w, start)
    BY <2>2, <1>0, StartPassInv DEF AdminSync
  <2>3. CASE \E sig \in Visible : SyncSignature(w, sig) \/ SyncClaims(w, sig)
    BY <2>3, ReadOnlyInv DEF SyncSignature, SyncClaims
  <2>4. CASE FetchPage(w)
    BY <2>4, FetchPageInv
  <2>5. CASE ReadTransaction(w)
    BY <2>5, ReadTransactionInv
  <2>6. CASE MissTransaction(w)
    BY <2>6, MissTransactionInv
  <2>7. CASE IndexEvent(w)
    BY <2>7, IndexEventInv
  <2>8. CASE IndexClaim(w)
    BY <2>8, IndexClaimInv
  <2>9. CASE Crash(w)
    BY <2>9, EndInv DEF Crash
  <2> QED BY <1>4, <2>1, <2>2, <2>3, <2>4, <2>5, <2>6, <2>7, <2>8, <2>9
<1>5. CASE UNCHANGED vars
  <2>2. /\ UNCHANGED chainVars /\ rows' = rows /\ tables' = tables /\ checkpoint' = checkpoint
        /\ worker' = worker /\ patched' = patched /\ owed' = owed
    BY <1>5 DEF vars, chainVars
  <2>3. LogInv' /\ Grows
    BY <2>2, LogSame DEF Inv
  <2>4. TypeOK'
    BY <2>2, <2>3 DEF Inv, TypeOK, LogInv
  <2>5. FromTheLog'
    BY <2>2, <2>3, InHandStays DEF Inv, FromTheLog, Grows
  <2>6. RowsInv'
    BY <2>2, <2>3, RowsFollowChain
  <2>7. RowsKeep
    BY <2>2, RowsStay DEF Inv
  <2>8. OwedInv'
    BY <2>2, <2>3, <2>4, <2>7, OwesStays DEF Inv, OwedInv
  <2> QED BY <2>3, <2>4, <2>5, <2>6, <2>7, <2>8 DEF Inv
<1> QED BY <1>1, <1>2, <1>3, <1>4, <1>5 DEF Next

THEOREM IndexerInvariant == Spec => []Inv
<1>1. Init => Inv
  BY InitInv
<1>2. Inv /\ [Next]_vars => Inv'
  BY NextInv
<1> QED BY <1>1, <1>2, PTL DEF Spec

(* The types hold: the total of a row never exceeds twice the supply, and  *)
(* no cursor leaves the log.                                               *)
THEOREM IndexerTypes == Spec => []TypeOK
<1>1. Inv => TypeOK
  BY DEF Inv
<1> QED BY <1>1, IndexerInvariant, PTL

(* The claims of a campaign are told with totals of their own, so no page  *)
(* has more of them than the row has counted.                              *)
LEMMA ClaimsCounted ==
    ASSUME Inv, NEW t \in Trees, rows[t] # NoRow, NEW page \in SUBSET tables
    PROVE  Cardinality({e \in page : e.event.tree = t /\ e.event.kind \in {"claimed"}}) <= rows[t].total_claimed
<1> DEFINE S == {e \in page : e.event.tree = t /\ e.event.kind \in {"claimed"}}
           n == rows[t].total_claimed
           f == [e \in S |-> e.event.value]
<1>1. n \in Nat
  BY RowTypes, ChainAssumption DEF Inv, ChainAssumption
<1>2. \A e \in S : e \in Recorded /\ e \in tables /\ e.event.tree = t /\ e.event.kind = "claimed"
  BY DEF Inv, FromTheLog
<1>3. \A e \in S : e.event.value \in 1 .. n
  <2> SUFFICES ASSUME NEW e \in S PROVE e.event.value \in 1 .. n
    OBVIOUS
  <2>1. e.event.value \in Int /\ e.event.value >= 1
    BY <1>2 DEF Inv, LogInv, EventsTrue, True
  <2>2. e.event.value <= n
    BY <1>2 DEF Inv, RowsInv, RowBetween
  <2> QED BY <1>1, <2>1, <2>2
<1>4. \A a, b \in S : a.event.value = b.event.value => a = b
  BY <1>2 DEF Inv, LogInv, EventsDistinct
<1>5. f \in Injection(S, 1 .. n)
  BY <1>3, <1>4 DEF Injection, IsInjective
<1>6. IsFiniteSet(1 .. n) /\ Cardinality(1 .. n) = n
  <2>1. 1 \in Int /\ n \in Int /\ n >= 0
    BY <1>1
  <2>2. IsFiniteSet(1 .. n) /\ Cardinality(1 .. n) = IF 1 > n THEN 0 ELSE n - 1 + 1
    BY <2>1, FS_Interval
  <2> QED BY <2>1, <2>2
<1>7. Cardinality(S) <= Cardinality(1 .. n)
  BY <1>5, <1>6, FS_Injection
<1> QED BY <1>6, <1>7

LEMMA ReadersBehind ==
    ASSUME Inv
    PROVE  ReadersSeeNoMore
<1> SUFFICES ASSUME NEW t \in Trees, NEW limit \in 1 .. MaxTx, rows[t] # NoRow
    PROVE LET Of(page, kinds) == {e \in page : e.event.tree = t /\ e.event.kind \in kinds}
          IN  /\ \A page \in Timeline(t, 0, slot, limit).pages
                         \cup Activity(Trees, limit).pages \cup Claims(t, 0, limit).pages :
                   /\ Cardinality(Of(page, {"claimed"})) <= rows[t].total_claimed
                   /\ Of(page, {"campaign_cancelled", "stream_cancelled"}) # {} =>
                         rows[t].cancelled_at # None
                   /\ Of(page, {"instant_refunded"}) # {} =>
                         rows[t].instant_refunded /\ rows[t].cancelled_at # None
              /\ Claims(t, 0, limit).total <= Timeline(t, 0, slot, limit).total
              /\ Activity({t}, limit).total = Timeline(t, 0, slot, limit).total
  BY DEF ReadersSeeNoMore
<1> DEFINE Of(page, kinds) == {e \in page : e.event.tree = t /\ e.event.kind \in kinds}
           onTimeline == {entry \in tables : entry.event.tree = t /\ entry.event.at \in 0 .. slot}
           claims == {entry \in tables : /\ entry.event.tree = t
                                         /\ entry.event.kind = "claimed"
                                         /\ log[entry.sig].slot >= 0}
           everything == {entry \in tables : entry.event.tree \in Trees}
           ofTree == {entry \in tables : entry.event.tree \in {t}}
<1>1. /\ Timeline(t, 0, slot, limit).pages = Pages(onTimeline, limit)
      /\ Timeline(t, 0, slot, limit).total = Cardinality(onTimeline)
      /\ Activity(Trees, limit).pages = Pages(everything, limit)
      /\ Activity({t}, limit).total = Cardinality(ofTree)
      /\ Claims(t, 0, limit).pages = Pages(claims, limit)
      /\ Claims(t, 0, limit).total = Cardinality(claims)
  BY DEF Timeline, Activity, Claims
<1>2. \A entry \in tables : entry.event.at \in 0 .. slot
  <2>1. \A entry \in tables : entry \in Recorded /\ entry.event.at \in Nat /\ slot \in Nat
    BY RecordedFields DEF Inv, FromTheLog, LogInv, ChainTypeOK, EventType
  <2>2. \A entry \in tables : entry.event.at <= slot
    BY <2>1 DEF Inv, LogInv, EventsTrue
  <2> QED BY <2>1, <2>2
<1>3. ofTree = onTimeline
  BY <1>2
<1>4. claims \in SUBSET onTimeline
  BY <1>2
<1>5. IsFiniteSet(onTimeline)
  BY FS_Subset DEF Inv, FromTheLog
<1>6. Cardinality(claims) <= Cardinality(onTimeline)
  BY <1>4, <1>5, FS_Subset
<1>7. ASSUME NEW page \in Pages(onTimeline, limit) \cup Pages(everything, limit) \cup Pages(claims, limit)
      PROVE  /\ Cardinality(Of(page, {"claimed"})) <= rows[t].total_claimed
             /\ Of(page, {"campaign_cancelled", "stream_cancelled"}) # {} => rows[t].cancelled_at # None
             /\ Of(page, {"instant_refunded"}) # {} =>
                   rows[t].instant_refunded /\ rows[t].cancelled_at # None
  <2>1. page \in SUBSET tables
    BY DEF Pages
  <2>2. Cardinality(Of(page, {"claimed"})) <= rows[t].total_claimed
    BY <2>1, ClaimsCounted
  <2>3. RowBetween(t)
    BY DEF Inv, RowsInv
  <2> QED BY <2>1, <2>2, <2>3 DEF RowBetween
<1> HIDE DEF onTimeline, everything, claims, ofTree
<1> QED BY <1>1, <1>3, <1>6, <1>7

LEMMA PageBehind ==
    ASSUME Inv
    PROVE  PageShowsNoMore
<1> SUFFICES ASSUME NEW t \in Trees, NEW shown \in {NoRow, chain[t], rows[t]},
                    NEW account \in {NoRow, chain[t]}, NEW next,
                    next = TreeState(shown, account, rows[t]), rows[t] # NoRow
             PROVE  /\ next.total_claimed <= chain[t].total_claimed \/ SettledByPage(t)
                    /\ account = NoRow /\ shown # NoRow => next.total_claimed >= shown.total_claimed
                    /\ next.cancelled_at # None => chain[t].cancelled_at # None
                    /\ rows[t].cancelled_at # None => next.cancelled_at # None
  BY DEF PageShowsNoMore
<1>1. RowBetween(t) /\ rows[t] \in Row
  BY RowTypes DEF Inv, RowsInv
<1>2. /\ rows[t].total_claimed \in Int /\ rows[t].cancelled_at \in Nat \cup {None}
      /\ chain[t] \in TreeType /\ chain[t].total_claimed \in Int /\ chain[t].cancelled_at \in Nat \cup {None}
  BY RowTypes, ChainAssumption DEF Inv, LogInv, ChainTypeOK, TreeType, ChainAssumption
<1>3. CASE account # NoRow
  <2>1. next = [chain[t] EXCEPT !.cancelled_at = IF chain[t].cancelled_at = None /\ rows[t] # NoRow
                                                 THEN rows[t].cancelled_at ELSE chain[t].cancelled_at]
    BY <1>3 DEF TreeState
  <2>2. /\ next.total_claimed = chain[t].total_claimed
        /\ next.cancelled_at = IF chain[t].cancelled_at = None THEN rows[t].cancelled_at
                               ELSE chain[t].cancelled_at
    BY <2>1, <1>2 DEF TreeType
  <2> QED BY <1>1, <1>2, <1>3, <2>2 DEF RowBetween
<1>4. CASE account = NoRow /\ shown = NoRow
  <2>1. next = rows[t]
    BY <1>4 DEF TreeState
  <2> QED BY <1>1, <1>2, <1>4, <2>1 DEF RowBetween
<1>5. CASE account = NoRow /\ shown # NoRow
  <2>1. next = [rows[t] EXCEPT !.total_claimed = Larger(rows[t].total_claimed, shown.total_claimed)]
    BY <1>5 DEF TreeState
  <2>2. /\ next.total_claimed = Larger(rows[t].total_claimed, shown.total_claimed)
        /\ next.cancelled_at = rows[t].cancelled_at
    BY <2>1, <1>1 DEF Row
  <2>3. shown.total_claimed \in Int
    BY <1>2, <1>5
  <2>4. shown.total_claimed <= chain[t].total_claimed \/ SettledByPage(t)
    BY <1>1, <1>2, <1>5 DEF RowBetween
  <2>5. next.total_claimed <= chain[t].total_claimed \/ SettledByPage(t)
    BY <1>1, <1>2, <2>2, <2>3, <2>4 DEF RowBetween, Larger
  <2>6. next.total_claimed >= shown.total_claimed
    BY <1>2, <2>2, <2>3 DEF Larger
  <2> QED BY <1>1, <2>2, <2>5, <2>6 DEF RowBetween
<1> QED BY <1>3, <1>4, <1>5

(* What the row says of a campaign, and what lists and pages show of it,   *)
(* happened on chain, for any number of campaigns, of invocations and of   *)
(* transactions they read in any order, twice or never.                    *)
THEOREM RowsStayBehindChain == Spec => []RowBehindChain
<1>1. Inv => RowBehindChain
  <2> SUFFICES ASSUME Inv PROVE RowBehindChain
    OBVIOUS
  <2>1. ReadersSeeNoMore /\ PageShowsNoMore
    BY ReadersBehind, PageBehind
  <2>2. \A t \in Trees : rows[t] # NoRow => RowBetween(t)
    BY DEF Inv, RowsInv
  <2> QED BY <2>1, <2>2 DEF RowBehindChain, RowBetween
<1> QED BY <1>1, IndexerInvariant, PTL

(* No event read late and no page's write takes back what a row says.      *)
THEOREM RowsForgetNothing == Spec => RowsNeverForget
<1>1. Inv /\ [Next]_vars => [RowsKeep]_vars
  BY NextInv
<1>2. RowsKeep => \A t \in Trees : rows[t] # NoRow =>
          /\ rows'[t] # NoRow
          /\ rows[t].total_claimed <= rows'[t].total_claimed
          /\ rows[t].cancelled_at # None => rows'[t].cancelled_at # None
          /\ rows[t].instant_refunded => rows'[t].instant_refunded
  BY DEF RowsKeep
<1> QED BY <1>1, <1>2, IndexerInvariant, PTL DEF Spec, RowsNeverForget

(* A pass that ends has indexed every event it set out to, over all its    *)
(* pages and whatever was written meanwhile.                               *)
THEOREM PassesCoverTheirRange == Spec => PassCoversItsRange
<1>1. Inv => \A w \in Workers : FetchPage(w) /\ worker'[w] = Idle => \A entry \in owed[w] : Covered(entry)
  BY FetchPageInv
<1> QED BY <1>1, IndexerInvariant, PTL DEF Spec, PassCoversItsRange

(* ------------------------ the scheduled pass alone ---------------------- *)

(* One invocation that never dies, one campaign, one event a slot.         *)
Scheduled ==
    /\ \E t : Trees = {t}
    /\ \E w : Workers = {w}
    /\ MaxPerBlock = 1 /\ MaxEvents = 1

SlotOf(entry) == log[entry.sig].slot

OneEventPerSlot ==
    /\ slot >= 1
    /\ \A sig \in DOMAIN log : log[sig].slot >= 1 /\ Len(log[sig].events) <= 1
    /\ \A a, b \in DOMAIN log : log[a].slot = log[b].slot => a = b

Beyond(me, entry) == me.start = 0 \/ SlotOf(entry) > me.start

(* A pass works downward: what is older than something it has yet to do,   *)
(* and beyond its start, it has yet to do.  So whatever the checkpoint has *)
(* come down to, what lies below is stored or will be.                     *)
Descends(me) ==
    /\ ~me.claims_only /\ me.start < slot
    /\ me.page \subseteq Visible /\ (me.events # <<>> => me.sig \in Visible)
    /\ me.before # None => me.before \in Visible
    /\ \A sig \in me.page : me.before # None /\ me.before <= sig
    /\ me.events # <<>> =>
         me.before # None /\ me.before <= me.sig /\ \A sig \in me.page : sig < me.sig
    /\ \A entry \in Recorded : SlotOf(entry) <= me.start => Taken(entry.sig, entry.event)
    /\ \A entry \in Recorded : SlotOf(entry) <= checkpoint =>
         Taken(entry.sig, entry.event) \/ (Pending(me, entry) /\ Beyond(me, entry))
    /\ \A older, newer \in Recorded :
         Pending(me, newer) /\ older.sig < newer.sig /\ Beyond(me, older) => Pending(me, older)

CronInv ==
    /\ OneEventPerSlot /\ checkpoint < slot
    /\ \A t \in Trees : rows[t] = NoRow => checkpoint = 0
    /\ \A w \in Workers :
         IF worker[w] = Idle
         THEN \A entry \in Recorded : SlotOf(entry) <= checkpoint => Taken(entry.sig, entry.event)
         ELSE Descends(worker[w])

(* What is new in the log belongs to the block being filled, and is last.  *)
Newest1(entry) ==
    /\ log'[entry.sig].slot = slot
    /\ \A sig \in DOMAIN log : sig <= entry.sig

LEMMA EmitOne ==
    ASSUME ChainTypeOK, LogInOrder, OneEventPerSlot, MaxPerBlock = 1, MaxEvents = 1,
           NEW events \in Seq(EventType), Len(events) <= 1, Emit(events)
    PROVE  /\ OneEventPerSlot'
           /\ \A entry \in Recorded' : entry \notin Recorded => Newest1(entry)
<1>0. /\ log \in Seq(Transaction) /\ slot \in Nat /\ slot' = slot /\ slot >= 1
      /\ DOMAIN log = 1 .. Len(log) /\ Len(log) \in Nat
      /\ \A sig \in DOMAIN log : log[sig] \in Transaction
  BY DEF ChainTypeOK, Emit, OneEventPerSlot
<1>a. \A sig \in DOMAIN log : log[sig].slot \in Nat /\ log[sig].events \in Seq(EventType)
  BY <1>0 DEF Transaction
<1>r. \A entry : entry \in Recorded' <=>
          \E sig \in DOMAIN log' : \E k \in DOMAIN log'[sig].events :
            entry = [sig |-> sig, event |-> log'[sig].events[k]]
  BY DEF Recorded
<1>1. CASE InBlock < MaxPerBlock /\ log' = Append(log, [slot |-> slot, events |-> events])
  <2> DEFINE new == Len(log) + 1
  <2>1. /\ DOMAIN log' = 1 .. new
        /\ log'[new].slot = slot /\ log'[new].events = events
        /\ \A sig \in DOMAIN log : sig \in DOMAIN log' /\ log'[sig] = log[sig]
        /\ \A sig \in DOMAIN log' : sig \in DOMAIN log \/ sig = new
    BY <1>0, <1>1
  <2>2. \A sig \in DOMAIN log : log[sig].slot # slot
    <3>1. SUFFICES ASSUME NEW sig \in DOMAIN log, log[sig].slot = slot PROVE FALSE
      OBVIOUS
    <3> DEFINE S == {s \in DOMAIN log : log[s].slot = slot}
    <3>2. IsFiniteSet(S)
      <4>1. 1 \in Int /\ Len(log) \in Int
        BY <1>0
      <4>2. IsFiniteSet(1 .. Len(log))
        BY <4>1, FS_Interval
      <4> QED BY <4>2, <1>0, FS_Subset
    <3>3. Cardinality(S) \in Nat /\ Cardinality(S) = 0
      BY <1>1, <3>2, FS_CardinalityType DEF InBlock
    <3>4. S = {}
      BY <3>2, <3>3, FS_EmptySet
    <3> QED BY <3>1, <3>4
  <2>3. OneEventPerSlot'
    <3>1. \A sig \in DOMAIN log' : log'[sig].slot >= 1 /\ Len(log'[sig].events) <= 1
      BY <1>0, <2>1 DEF OneEventPerSlot
    <3>2. \A a, b \in DOMAIN log' : log'[a].slot = log'[b].slot => a = b
      BY <2>1, <2>2 DEF OneEventPerSlot
    <3> QED BY <1>0, <3>1, <3>2 DEF OneEventPerSlot
  <2>4. ASSUME NEW entry \in Recorded', entry \notin Recorded PROVE Newest1(entry)
    <3>1. PICK sig \in DOMAIN log' : \E k \in DOMAIN log'[sig].events :
            entry = [sig |-> sig, event |-> log'[sig].events[k]]
      BY <1>r
    <3>2. sig = new
      BY <2>1, <2>4, <3>1, RecordedIs
    <3> QED BY <1>0, <2>1, <3>1, <3>2 DEF Newest1
  <2> QED BY <2>3, <2>4
<1>2. CASE /\ InBlock > 0 /\ events # <<>>
           /\ Len(log[Len(log)].events) < MaxEvents
           /\ log' = [log EXCEPT ![Len(log)].events = @ \o events]
  <2> DEFINE new == Len(log)
  <2>0. \E sig \in DOMAIN log : log[sig].slot = slot
    <3>1. SUFFICES ASSUME \A sig \in DOMAIN log : log[sig].slot # slot PROVE FALSE
      OBVIOUS
    <3>2. {sig \in DOMAIN log : log[sig].slot = slot} = {}
      BY <3>1
    <3>3. InBlock = 0
      BY <3>2, FS_EmptySet DEF InBlock
    <3> QED BY <3>3, <1>2
  <2>1. new \in DOMAIN log /\ log[new].slot = slot
    <3>1. PICK sig \in DOMAIN log : log[sig].slot = slot
      BY <2>0
    <3>2. new \in DOMAIN log /\ sig <= new
      BY <1>0
    <3>3. log[sig].slot <= log[new].slot /\ log[new].slot <= slot
      BY <3>1, <3>2 DEF LogInOrder
    <3> QED BY <1>0, <1>a, <3>1, <3>2, <3>3
  <2>2. log[new].events \in Seq(EventType) /\ log[new] \in Transaction
    BY <1>0, <1>a, <2>1
  <2> DEFINE more == log[new].events \o events
  <2>3. /\ DOMAIN log' = DOMAIN log /\ log'[new].slot = slot /\ log'[new].events = more
        /\ \A sig \in DOMAIN log : sig # new => log'[sig] = log[sig]
    BY <1>0, <1>2, <2>1, <2>2 DEF Transaction
  <2>4. Len(more) <= 1
    <3>1. Len(log[new].events) = 0
      BY <1>2, <2>2
    <3> QED BY <2>2, <3>1
  <2>5. OneEventPerSlot'
    <3>1. \A sig \in DOMAIN log' : log'[sig].slot = log[sig].slot
      BY <2>1, <2>3
    <3>2. \A sig \in DOMAIN log' : Len(log'[sig].events) <= 1
      BY <2>3, <2>4 DEF OneEventPerSlot
    <3> QED BY <1>0, <2>3, <3>1, <3>2 DEF OneEventPerSlot
  <2>6. ASSUME NEW entry \in Recorded', entry \notin Recorded PROVE Newest1(entry)
    <3>1. PICK sig \in DOMAIN log' : \E k \in DOMAIN log'[sig].events :
            entry = [sig |-> sig, event |-> log'[sig].events[k]]
      BY <1>r
    <3>2. sig = new
      BY <2>3, <2>6, <3>1, RecordedIs
    <3> QED BY <1>0, <2>3, <3>1, <3>2 DEF Newest1
  <2> QED BY <2>5, <2>6
<1> QED BY <1>1, <1>2 DEF Emit

(* The chain, with one event a slot. *)
LEMMA ChainOne ==
    ASSUME LogInv, OneEventPerSlot, Scheduled, ChainNext
    PROVE  /\ OneEventPerSlot'
           /\ \A entry \in Recorded' : entry \notin Recorded => Newest1(entry)
<1>0. ChainTypeOK /\ LogInOrder /\ MaxPerBlock = 1 /\ MaxEvents = 1
  BY DEF LogInv, Scheduled
<1>1. CASE \E t \in Trees : TreeStep(t)
  <2>1. PICK t \in Trees : TreeStep(t)
    BY <1>1
  <2>2. PICK e, account : Reports(t, e, account)
    BY <1>0, <2>1, HandlersReport
  <2>3. <<e>> \in Seq(EventType) /\ Len(<<e>>) <= 1 /\ Emit(<<e>>)
    BY <2>2 DEF Reports
  <2> QED BY <1>0, <2>3, EmitOne
<1>2. CASE Unreported
  <2>1. <<>> \in Seq(EventType) /\ Len(<<>>) <= 1 /\ Emit(<<>>)
    BY <1>2 DEF Unreported
  <2> QED BY <1>0, <2>1, EmitOne
<1>3. CASE Confirm
  <2>1. log' = log /\ slot' = slot + 1 /\ slot \in Nat
    BY <1>0, <1>3 DEF Confirm, ChainTypeOK
  <2>2. Recorded' = Recorded
    BY <2>1 DEF Recorded
  <2> QED BY <2>1, <2>2 DEF OneEventPerSlot
<1> QED BY <1>1, <1>2, <1>3 DEF ChainNext, TreeStep

LEMMA SlotTypes ==
    ASSUME Inv
    PROVE  /\ slot \in Nat /\ checkpoint \in Nat
           /\ \A sig \in DOMAIN log : sig \in Nat /\ log[sig].slot \in Nat
           /\ \A entry \in Recorded : entry.sig \in DOMAIN log /\ SlotOf(entry) \in Nat
<1>1. log \in Seq(Transaction) /\ slot \in Nat /\ checkpoint \in Nat
  BY DEF Inv, TypeOK, LogInv, ChainTypeOK
<1>2. \A sig \in DOMAIN log : sig \in Nat /\ log[sig] \in Transaction
  BY <1>1
<1>3. \A sig \in DOMAIN log : sig \in Nat /\ log[sig].slot \in Nat
  BY <1>2 DEF Transaction
<1>4. \A entry \in Recorded : entry.sig \in DOMAIN log
  BY RecordedFields DEF Inv, LogInv
<1> QED BY <1>1, <1>3, <1>4 DEF SlotOf

LEMMA CronChain ==
    ASSUME Scheduled, Inv, CronInv, Chain
    PROVE  CronInv'
<1>0. /\ rows' = rows /\ tables' = tables /\ checkpoint' = checkpoint /\ worker' = worker
      /\ ChainNext /\ LogInv /\ OneEventPerSlot /\ checkpoint < slot
  BY DEF Chain, Inv, CronInv
<1>1. OneEventPerSlot' /\ \A entry \in Recorded' : entry \notin Recorded => Newest1(entry)
  BY <1>0, ChainOne
<1>2. Grows /\ LogInv'
  BY <1>0, ChainGrows
<1>3. /\ slot \in Nat /\ checkpoint \in Nat
      /\ \A sig \in DOMAIN log : sig \in Nat /\ log[sig].slot \in Nat
      /\ \A entry \in Recorded : entry.sig \in DOMAIN log /\ SlotOf(entry) \in Nat
  BY SlotTypes
<1>4. \A sig \in DOMAIN log : sig \in DOMAIN log' /\ log'[sig].slot = log[sig].slot
  BY <1>2 DEF Grows
<1>5. slot <= slot' /\ slot' \in Nat /\ Visible \subseteq Visible' /\ Recorded \subseteq Recorded'
  BY <1>2 DEF Grows, LogInv, ChainTypeOK
<1>6. \A entry \in Recorded : SlotOf(entry)' = SlotOf(entry)
  BY <1>3, <1>4 DEF SlotOf
<1>7. \A entry \in Recorded' : entry \notin Recorded => SlotOf(entry)' = slot
  BY <1>1 DEF SlotOf, Newest1
<1>8. \A entry : Taken(entry.sig, entry.event)' <=> Taken(entry.sig, entry.event)
  BY <1>0 DEF Taken
<1>9. \A entry \in Recorded' : SlotOf(entry)' <= checkpoint => entry \in Recorded
  BY <1>0, <1>3, <1>7
<1>14. \A entry \in Recorded' : entry.sig \in Nat
  <2>1. \A entry \in Recorded' : entry.sig \in DOMAIN log'
    BY DEF Recorded
  <2>2. DOMAIN log' = 1 .. Len(log')
    BY <1>2 DEF LogInv, ChainTypeOK
  <2> QED BY <2>1, <2>2
<1>10. ASSUME NEW w \in Workers, worker[w] # Idle PROVE Descends(worker[w])'
  <2> DEFINE me == worker[w]
  <2>0. PICK my : my = worker[w]
    OBVIOUS
  <2>1. Descends(my) /\ my.start < slot /\ my.start \in Nat
    BY <1>10, <2>0, RunningIs DEF CronInv, Running, Descends
  <2>2. my.start < slot'
    BY <1>3, <1>5, <2>1
  <2>3. /\ my.page \subseteq Visible' /\ (my.events # <<>> => my.sig \in Visible')
        /\ my.before # None => my.before \in Visible'
    BY <1>5, <2>1 DEF Descends
  <2>4. \A entry \in Recorded' : SlotOf(entry)' <= my.start => entry \in Recorded
    BY <1>3, <1>7, <2>1
  <2>5. \A entry \in Recorded' : SlotOf(entry)' <= my.start => Taken(entry.sig, entry.event)'
    BY <1>6, <1>8, <2>1, <2>4 DEF Descends
  <2>6. \A entry : Pending(my, entry)' <=> Pending(my, entry)
    BY DEF Pending
  <2>7. \A entry \in Recorded : Beyond(my, entry)' <=> Beyond(my, entry)
    BY <1>6 DEF Beyond
  <2>8. \A entry \in Recorded' : SlotOf(entry)' <= checkpoint' =>
         Taken(entry.sig, entry.event)' \/ (Pending(my, entry)' /\ Beyond(my, entry)')
    BY <1>0, <1>6, <1>8, <1>9, <2>1, <2>6, <2>7 DEF Descends
  <2>9. ASSUME NEW older \in Recorded', NEW newer \in Recorded',
               Pending(my, newer), older.sig < newer.sig, Beyond(my, older)'
        PROVE  Pending(my, older)
    <3>1. CASE newer \in Recorded
      <4>1. older \in Recorded
        <5>1. SUFFICES ASSUME older \notin Recorded PROVE FALSE
          OBVIOUS
        <5>2. newer.sig <= older.sig /\ newer.sig \in Nat
          BY <1>1, <1>3, <3>1, <5>1 DEF Newest1
        <5>3. older.sig \in Nat
          BY <1>14
        <5> QED BY <2>9, <5>2, <5>3
      <4> QED BY <2>1, <2>7, <2>9, <3>1, <4>1 DEF Descends
    <3>2. CASE newer \notin Recorded
      <4>1. log'[newer.sig].slot = slot
        BY <1>1, <3>2 DEF Newest1
      <4>2. newer.sig \notin Visible
        <5>1. \A sig \in Visible : log[sig].slot < slot /\ log'[sig].slot = log[sig].slot
          BY <1>4 DEF Visible
        <5> QED BY <1>3, <4>1, <5>1 DEF Visible
      <4>3. newer.sig \notin my.page /\ (my.events # <<>> => newer.sig # my.sig)
        BY <2>1, <4>2 DEF Descends
      <4>4. my.events = <<>> => DOMAIN my.events = {}
        OBVIOUS
      <4>5. my.more /\ (my.before # None => newer.sig < my.before)
        BY <2>9, <4>3, <4>4 DEF Pending
      <4>6. my.before = None
        <5>1. SUFFICES ASSUME my.before # None PROVE FALSE
          OBVIOUS
        <5>2. my.before \in DOMAIN log
          BY <1>10, <2>0, <5>1, RunningIs DEF Running, InHand
        <5>3. my.before <= newer.sig /\ my.before \in Nat
          BY <1>1, <1>3, <3>2, <5>2 DEF Newest1
        <5>4. newer.sig \in Nat
          BY <1>14
        <5> QED BY <4>5, <5>1, <5>3, <5>4
      <4> QED BY <4>5, <4>6 DEF Pending
    <3> QED BY <3>1, <3>2
  <2>10. Descends(my)'
    BY <2>1, <2>2, <2>3, <2>5, <2>6, <2>8, <2>9 DEF Descends
  <2>11. worker'[w] = my
    BY <1>0, <2>0
  <2> QED BY <2>10, <2>11 DEF Descends, Pending, Beyond
<1>11. ASSUME NEW w \in Workers, worker[w] = Idle, NEW entry \in Recorded', SlotOf(entry)' <= checkpoint
       PROVE  Taken(entry.sig, entry.event)'
  BY <1>6, <1>8, <1>9, <1>11 DEF CronInv
<1>12. \A t \in Trees : rows'[t] = NoRow => checkpoint' = 0
  BY <1>0 DEF CronInv
<1>13. checkpoint' < slot'
  BY <1>0, <1>3, <1>5
<1> QED BY <1>0, <1>1, <1>10, <1>11, <1>12, <1>13 DEF CronInv

(* A step of the invocation that leaves the database alone. *)
LEMMA CronWork ==
    ASSUME Scheduled, Inv, CronInv, UNCHANGED <<chain, log, slot, tables, checkpoint>>,
           \A t \in Trees : rows[t] # NoRow => rows'[t] # NoRow,
           \A w \in Workers : worker'[w] = Idle =>
               \A entry \in Recorded : SlotOf(entry) <= checkpoint => Taken(entry.sig, entry.event),
           \A w \in Workers : worker'[w] # Idle => Descends(worker'[w])
    PROVE  CronInv'
<1>1. Recorded' = Recorded /\ Visible' = Visible
  BY DEF Recorded, Visible
<1>2. \A entry : (Taken(entry.sig, entry.event)' <=> Taken(entry.sig, entry.event)) /\ SlotOf(entry)' = SlotOf(entry)
  BY DEF Taken, SlotOf
<1>3. OneEventPerSlot' /\ checkpoint' < slot'
  BY DEF CronInv, OneEventPerSlot
<1>4. ASSUME NEW w \in Workers, worker'[w] # Idle PROVE Descends(worker[w])'
  <2>1. PICK my : my = worker'[w]
    OBVIOUS
  <2>2. Descends(my)
    BY <1>4, <2>1
  <2>3. Descends(my)'
    BY <1>1, <1>2, <2>2 DEF Descends, Pending, Beyond
  <2> QED BY <2>1, <2>3 DEF Descends, Pending, Beyond
<1> QED BY <1>1, <1>2, <1>3, <1>4 DEF CronInv

LEMMA CronStart ==
    ASSUME Scheduled, Inv, CronInv, NEW w \in Workers, CronSync(w)
    PROVE  CronInv'
<1> DEFINE me == Run(checkpoint, {}, TRUE, FALSE)
<1>1. /\ worker[w] = Idle /\ worker' = [worker EXCEPT ![w] = me]
      /\ UNCHANGED <<chain, log, slot, rows, tables, checkpoint>>
  BY DEF CronSync, StartPass
<1>2. /\ me.start = checkpoint /\ me.before = None /\ me.more = TRUE /\ me.page = {} /\ me.events = <<>>
      /\ me.claims_only = FALSE
  BY DEF Run
<1> HIDE DEF me
<1>3. \A entry : Pending(me, entry)
  BY <1>2 DEF Pending
<1>4. Descends(me)
  BY <1>1, <1>2, <1>3 DEF CronInv, Descends
<1>5. \A v \in Workers : v = w /\ worker'[v] = me
  BY <1>1 DEF Scheduled, Inv, TypeOK
<1>6. me # Idle
  <2>1. checkpoint \in Nat
    BY SlotTypes
  <2> QED BY <2>1, RunIs DEF me, Inv
<1> QED BY <1>1, <1>4, <1>5, <1>6, CronWork

LEMMA CronFetch ==
    ASSUME Scheduled, Inv, CronInv, NEW w \in Workers, FetchPage(w)
    PROVE  CronInv'
<1> DEFINE me     == worker[w]
           newest == Newest(me.before)
           size   == IF newest < PageSize THEN newest ELSE PageSize
           valid  == {sig \in newest + 1 - size .. newest :
                         me.start = 0 \/ log[sig].slot > me.start}
           next   == [me EXCEPT !.page = valid, !.more = (size = PageSize), !.before = newest + 1 - size]
<1>0. /\ me \in Invocation /\ me # Idle /\ InHand(me) /\ me.start \in Nat
      /\ me.before \in Nat \cup {None} /\ me.more \in BOOLEAN
      /\ me.events = <<>> /\ me.page = {} /\ DOMAIN me.events = {}
  BY RunningIs DEF FetchPage, AtPage
<1>1. UNCHANGED <<chain, log, slot, rows, tables, checkpoint>>
  BY DEF FetchPage
<1>2. /\ DOMAIN log = 1 .. Len(log) /\ Len(log) \in Nat
      /\ \A sig \in DOMAIN log : log[sig].slot \in Nat
      /\ \A entry \in Recorded : entry.sig \in DOMAIN log /\ entry.sig \in Nat /\ SlotOf(entry) = log[entry.sig].slot
  BY SlotTypes DEF Inv, LogInv, ChainTypeOK, SlotOf
<1>3. newest \in 0 .. Len(log) /\ \A sig \in 1 .. newest : sig \in Visible
  <2>1. CASE me.before = None
    BY <2>1, VisibleIsPrefix DEF Newest, Inv
  <2>2. CASE me.before # None
    <3>1. me.before \in DOMAIN log /\ newest = me.before - 1
      BY <2>2, <1>0 DEF Newest, InHand
    <3>2. me.before \in Visible
      BY <2>2, <1>0 DEF CronInv, Descends
    <3> QED BY <3>1, <3>2, <1>2, VisibleIsPrefix DEF Inv
  <2> QED BY <2>1, <2>2
<1>4. PageSize \in Nat /\ PageSize > 0 /\ None \notin Int
  BY IndexerAssumption, ChainAssumption DEF IndexerAssumption, ChainAssumption
<1>5. size \in 0 .. newest /\ (newest > 0 => size > 0) /\ (size # PageSize => size = newest)
  BY <1>3, <1>4
<1>6. Descends(me)
  BY <1>0 DEF CronInv
<1>7. \A entry \in Recorded : Pending(me, entry) <=> me.more /\ (me.before # None => entry.sig < me.before)
  BY <1>0 DEF Pending
<1>8. ASSUME NEW entry \in Recorded, Pending(me, entry), SlotOf(entry) <= checkpoint
      PROVE  me.more /\ entry.sig \in 1 .. newest
  <2>1. me.more /\ (me.before # None => entry.sig < me.before)
    BY <1>7, <1>8
  <2>2. entry.sig \in Visible
    BY <1>2, <1>8, SlotTypes DEF Visible, CronInv
  <2>3. CASE me.before = None
    BY <2>1, <2>2, <2>3, VisibleIsPrefix DEF Newest, Inv
  <2>4. CASE me.before # None
    BY <2>1, <2>4, <1>0, <1>2 DEF Newest
  <2> QED BY <2>1, <2>3, <2>4
<1>9. \A v \in Workers : v = w
  BY DEF Scheduled
<1>10. CASE ~me.more \/ valid = {}
  <2>1. worker' = [worker EXCEPT ![w] = Idle] /\ worker'[w] = Idle
    BY <1>10 DEF FetchPage, Inv, TypeOK
  <2>2. ASSUME NEW entry \in Recorded, SlotOf(entry) <= checkpoint, ~Taken(entry.sig, entry.event)
        PROVE  FALSE
    <3>1. Pending(me, entry) /\ Beyond(me, entry)
      BY <1>6, <2>2 DEF Descends
    <3>2. me.more /\ entry.sig \in 1 .. newest
      BY <1>8, <2>2, <3>1
    <3>3. newest \in newest + 1 - size .. newest /\ newest \in DOMAIN log
      BY <3>2, <1>2, <1>3, <1>5
    <3>4. me.start # 0 /\ ~(log[newest].slot > me.start)
      BY <3>2, <3>3, <1>10
    <3>5. log[entry.sig].slot <= log[newest].slot
      BY <3>2, <3>3, <1>2, <2>2 DEF Inv, LogInv, LogInOrder
    <3> QED BY <3>1, <3>3, <3>4, <3>5, <1>0, <1>2, <2>2 DEF Beyond
  <2> QED BY <1>1, <1>9, <2>1, <2>2, CronWork
<1>11. CASE ~(~me.more \/ valid = {})
  <2>1. worker' = [worker EXCEPT ![w] = next]
    BY <1>11 DEF FetchPage
  <2>2. /\ newest > 0 /\ newest + 1 - size \in DOMAIN log /\ valid \subseteq Visible
        /\ newest + 1 - size \in Visible /\ newest + 1 - size \in Int
    BY <1>2, <1>3, <1>5, <1>11
  <2>3. \A sig \in Nat : sig \in valid <=>
           sig >= newest + 1 - size /\ sig <= newest /\ (me.start = 0 \/ log[sig].slot > me.start)
    BY <1>3, <1>5, <2>2
  <2> HIDE DEF valid, newest, size
  <2>5. /\ next.page = valid /\ next.more = (size = PageSize) /\ next.before = newest + 1 - size
        /\ next.events = <<>> /\ next.start = me.start /\ next.claims_only = me.claims_only
        /\ next.sig = me.sig
    BY <1>0 DEF Invocation
  <2>6. worker'[w] = next
    BY <2>1 DEF Inv, TypeOK
  <2> HIDE DEF next
  <2>7. \A entry \in Recorded : Pending(next, entry) <=>
          entry.sig \in valid \/ (size = PageSize /\ entry.sig < newest + 1 - size)
    <3>1. DOMAIN next.events = {}
      BY <2>5
    <3>2. newest + 1 - size # None
      BY <1>4, <2>2
    <3> QED BY <2>5, <3>1, <3>2 DEF Pending
  <2>8. \A entry \in Recorded : Beyond(next, entry) <=> Beyond(me, entry)
    BY <2>5 DEF Beyond
  <2>9. \A entry \in Recorded : entry.sig \in 1 .. newest /\ Beyond(me, entry) => Pending(next, entry)
    <3> SUFFICES ASSUME NEW entry \in Recorded, entry.sig \in 1 .. newest, Beyond(me, entry)
                 PROVE  Pending(next, entry)
      OBVIOUS
    <3>1. CASE entry.sig >= newest + 1 - size
      BY <3>1, <1>2, <1>3, <2>3, <2>7 DEF Beyond
    <3>2. CASE entry.sig < newest + 1 - size
      <4>1. size = PageSize
        BY <3>2, <1>3, <1>5
      <4> QED BY <3>2, <4>1, <2>7
    <3> QED BY <3>1, <3>2, <1>3, <1>5
  <2>10. \A entry \in Recorded : SlotOf(entry) <= checkpoint =>
         Taken(entry.sig, entry.event) \/ (Pending(next, entry) /\ Beyond(next, entry))
    BY <1>6, <1>8, <2>8, <2>9 DEF Descends
  <2>11. ASSUME NEW older \in Recorded, NEW newer \in Recorded,
                Pending(next, newer), older.sig < newer.sig, Beyond(next, older)
         PROVE  Pending(next, older)
    <3>1. newer.sig <= newest /\ newer.sig \in Nat /\ older.sig \in Nat /\ older.sig >= 1
      BY <1>2, <1>3, <1>5, <2>2, <2>3, <2>7, <2>11
    <3>2. older.sig \in 1 .. newest
      BY <3>1, <1>3, <2>11
    <3> QED BY <3>2, <2>8, <2>9, <2>11
  <2>12. Descends(next)
    <3>1. \A sig \in valid : next.before <= sig
      BY <1>2, <2>2, <2>3, <2>5 DEF Visible
    <3>2. next.before # None /\ next.before \in Visible /\ next.page \subseteq Visible
      BY <1>4, <2>2, <2>5
    <3> QED BY <1>6, <2>5, <2>10, <2>11, <3>1, <3>2 DEF Descends
  <2>13. next # Idle
    <3>1. newest + 1 - size \in Nat /\ valid \in SUBSET Nat /\ (size = PageSize) \in BOOLEAN
      BY <1>2, <2>2 DEF Visible
    <3>2. next \in Invocation
      BY <3>1, <1>0 DEF Invocation, next
    <3> QED BY <3>2, IndexerAssumption DEF IndexerAssumption
  <2> QED BY <1>1, <1>9, <2>6, <2>12, <2>13, CronWork
<1> QED BY <1>10, <1>11

(* The transaction just read is the newest of what is left.                *)
LEMMA CronRead ==
    ASSUME Scheduled, Inv, CronInv, NEW w \in Workers, ReadTransaction(w)
    PROVE  CronInv'
<1>0. PICK sig \in worker[w].page :
         /\ NextSignature(w, sig)
         /\ worker' = [worker EXCEPT ![w].page = @ \ {sig}, ![w].sig = sig, ![w].events = log[sig].events]
  BY DEF ReadTransaction
<1> DEFINE old == worker[w]
           me  == [old EXCEPT !.page = old.page \ {sig}, !.sig = sig, !.events = log[sig].events]
<1>1. /\ old \in Invocation /\ old # Idle /\ InHand(old) /\ old.page \in SUBSET Nat
      /\ old.before \in Nat \cup {None} /\ old.events = <<>> /\ DOMAIN old.events = {}
  BY RunningIs DEF ReadTransaction, AtTx
<1>2. Descends(old)
  BY <1>1 DEF CronInv
<1>3. UNCHANGED <<chain, log, slot, rows, tables, checkpoint>>
  BY DEF ReadTransaction
<1>4. sig \in Visible /\ sig \in DOMAIN log /\ sig \in Nat /\ log[sig].events \in Seq(EventType)
  <2>1. sig \in Visible /\ sig \in DOMAIN log /\ log \in Seq(Transaction)
    BY <1>2 DEF Descends, Visible, Inv, LogInv, ChainTypeOK
  <2>2. log[sig] \in Transaction /\ sig \in Nat
    BY <2>1
  <2> QED BY <2>1, <2>2 DEF Transaction
<1>5. me # Idle
  <2>1. me \in Invocation
    BY <1>1, <1>4 DEF Invocation
  <2> QED BY <2>1, IndexerAssumption DEF IndexerAssumption
<1>6. /\ me.page = old.page \ {sig} /\ me.sig = sig /\ me.events = log[sig].events
      /\ me.before = old.before /\ me.start = old.start /\ me.more = old.more
      /\ me.claims_only = old.claims_only
  BY <1>1 DEF Invocation
<1>7. worker'[w] = me
  BY <1>0 DEF Inv, TypeOK
<1> HIDE DEF me
<1>8. \A entry \in Recorded : entry.sig \in Nat /\ (entry.sig = sig =>
         \E k \in DOMAIN log[sig].events : log[sig].events[k] = entry.event)
  BY RecordedFields, SlotTypes DEF Inv, LogInv
<1>9. \A entry \in Recorded : Pending(old, entry) => Pending(me, entry)
  BY <1>1, <1>6, <1>8 DEF Pending
<1>10. \A entry \in Recorded : Pending(me, entry) => Pending(old, entry)
  BY <1>1, <1>6 DEF Pending
<1>11. \A entry \in Recorded : Beyond(me, entry) <=> Beyond(old, entry)
  BY <1>6 DEF Beyond
<1>12. \A other \in me.page : other \in old.page /\ other < sig
  BY <1>0, <1>1, <1>4, <1>6 DEF NextSignature
<1>13. old.before # None /\ old.before <= sig
  BY <1>2 DEF Descends
<1>14. Descends(me)
  <2>1. \A entry \in Recorded : SlotOf(entry) <= checkpoint =>
         Taken(entry.sig, entry.event) \/ (Pending(me, entry) /\ Beyond(me, entry))
    BY <1>2, <1>9, <1>11 DEF Descends
  <2>2. \A older, newer \in Recorded :
         Pending(me, newer) /\ older.sig < newer.sig /\ Beyond(me, older) => Pending(me, older)
    BY <1>2, <1>9, <1>10, <1>11 DEF Descends
  <2>3. /\ me.page \subseteq Visible
        /\ \A other \in me.page : me.before # None /\ me.before <= other
    BY <1>2, <1>6, <1>12 DEF Descends
  <2>4. me.before # None /\ me.before <= me.sig /\ \A other \in me.page : other < me.sig
    BY <1>6, <1>12, <1>13
  <2> QED BY <1>2, <1>4, <1>6, <2>1, <2>2, <2>3, <2>4 DEF Descends
<1>15. \A v \in Workers : v = w
  BY DEF Scheduled
<1> QED BY <1>3, <1>5, <1>7, <1>14, <1>15, CronWork

(* An event is stored: its own block is done, the blocks below are done or *)
(* still to be read, and that is where the checkpoint now stands.          *)
LEMMA CronIndex ==
    ASSUME Scheduled, Inv, CronInv, NEW w \in Workers, IndexEvent(w)
    PROVE  CronInv'
<1> DEFINE old == worker[w]
<1>a. PICK me : me = [old EXCEPT !.events = Tail(old.events)]
  OBVIOUS
<1>b. PICK entry : entry = [sig |-> old.sig, event |-> Head(old.events)]
  OBVIOUS
<1>0. AtEvent(w) /\ Store(w, entry.sig, entry.event,
                          Reflected(rows[entry.event.tree], entry.event, ~Taken(entry.sig, entry.event)))
  BY <1>b DEF IndexEvent
<1>1. /\ me \in Invocation /\ me # Idle /\ entry \in Recorded
      /\ \A other : Pending(old, other) =>
           Pending(me, other) \/ (other.sig = old.sig /\ other.event = Head(old.events))
  BY <1>a, <1>b, <1>0, NextEvent
<1>2. Inv' /\ RowsKeep
  BY IndexEventInv
<1>3. /\ worker'[w] = me /\ chain' = chain /\ log' = log /\ slot' = slot
  BY <1>0, <1>a DEF Store, Inv, TypeOK
<1>4. /\ old \in Invocation /\ old # Idle /\ InHand(old) /\ old.events \in Seq(EventType)
      /\ old.events # <<>> /\ old.page \in SUBSET Nat /\ old.before \in Nat \cup {None}
      /\ old.start \in Nat
  BY <1>0, RunningIs DEF AtEvent
<1>5. Descends(old)
  BY <1>4 DEF CronInv
<1>6. /\ me.events = Tail(old.events) /\ me.page = old.page /\ me.sig = old.sig
      /\ me.before = old.before /\ me.start = old.start /\ me.more = old.more
      /\ me.claims_only = old.claims_only
  BY <1>4, <1>a DEF Invocation
<1>7. /\ slot \in Nat /\ checkpoint \in Nat
      /\ \A sig \in DOMAIN log : sig \in Nat /\ log[sig].slot \in Nat
      /\ \A other \in Recorded : other.sig \in DOMAIN log /\ SlotOf(other) \in Nat
  BY SlotTypes
<1>8. /\ entry.sig = old.sig /\ entry.event = Head(old.events) /\ old.sig \in DOMAIN log
      /\ old.sig \in Visible /\ SlotOf(entry) = log[old.sig].slot /\ SlotOf(entry) < slot
      /\ entry.event.tree \in Trees
  <2>1. entry.sig = old.sig /\ entry.event = Head(old.events) /\ old.sig \in Visible
    BY <1>4, <1>5, <1>b DEF Descends
  <2>2. entry.event.tree \in Trees
    BY <1>1, RecordedFields DEF Inv, LogInv, EventType
  <2> QED BY <2>1, <2>2 DEF Visible, SlotOf
<1>9. Pending(old, entry)
  <2>1. 1 \in DOMAIN old.events /\ Head(old.events) = old.events[1]
    BY <1>4, HeadAndTail
  <2> QED BY <1>8, <2>1 DEF Pending
<1>10. \A other \in Recorded : Pending(me, other) => Pending(old, other)
  <2>1. \A k \in DOMAIN Tail(old.events) : k + 1 \in DOMAIN old.events /\ Tail(old.events)[k] = old.events[k + 1]
    BY <1>4, HeadAndTail
  <2> QED BY <1>6, <2>1 DEF Pending
<1>11. \A other \in Recorded : Beyond(me, other) <=> Beyond(old, other)
  BY <1>6 DEF Beyond
<1>12. \A other \in Recorded : other.sig = old.sig => other = entry
  <2> SUFFICES ASSUME NEW other \in Recorded, other.sig = old.sig PROVE other = entry
    OBVIOUS
  <2>1. PICK k \in DOMAIN log[old.sig].events : other = [sig |-> old.sig, event |-> log[old.sig].events[k]]
    BY RecordedIs
  <2>2. PICK j \in DOMAIN log[old.sig].events : entry = [sig |-> old.sig, event |-> log[old.sig].events[j]]
    BY <1>1, <1>8, RecordedIs
  <2>3. Len(log[old.sig].events) <= 1 /\ log[old.sig].events \in Seq(EventType)
    <3>1. log \in Seq(Transaction)
      BY DEF Inv, LogInv, ChainTypeOK
    <3>2. log[old.sig] \in Transaction
      BY <1>8, <3>1
    <3> QED BY <1>8, <3>2 DEF Transaction, CronInv, OneEventPerSlot
  <2>4. k = 1 /\ j = 1
    BY <2>1, <2>2, <2>3
  <2> QED BY <2>1, <2>2, <2>4
<1>13. \A older, newer \in Recorded :
         Pending(me, newer) /\ older.sig < newer.sig /\ Beyond(me, older) => Pending(me, older)
  <2> SUFFICES ASSUME NEW older \in Recorded, NEW newer \in Recorded,
                      Pending(me, newer), older.sig < newer.sig, Beyond(me, older)
               PROVE  Pending(me, older)
    OBVIOUS
  <2>1. Pending(old, older)
    BY <1>5, <1>10, <1>11 DEF Descends
  <2>2. CASE older.sig # old.sig
    BY <1>1, <2>1, <2>2
  <2>3. CASE older.sig = old.sig
    <3>1. newer.sig \in Nat /\ old.sig \in Nat /\ newer.sig > old.sig
      BY <1>7, <1>8, <2>3
    <3>2. newer.sig \in old.page \/ (old.before # None => newer.sig < old.before)
      BY <1>6, <3>1 DEF Pending
    <3>3. old.before \in Nat /\ old.before <= old.sig /\ \A sig \in old.page : sig < old.sig
      BY <1>4, <1>5 DEF Descends
    <3>4. old.before # None
      BY <1>4, <1>5 DEF Descends
    <3> QED BY <1>4, <3>1, <3>2, <3>3, <3>4
  <2> QED BY <2>2, <2>3
<1>14. \A other \in Recorded : Taken(other.sig, other.event) => Taken(other.sig, other.event)'
  BY <1>0 DEF Store, Taken, dbVars
<1>15. \A t \in Trees : t = entry.event.tree
  BY <1>8 DEF Scheduled
<1>16. CASE rows[entry.event.tree] = NoRow
  <2>1. UNCHANGED <<rows, tables, checkpoint>> /\ checkpoint = 0
    BY <1>0, <1>8, <1>16 DEF Store, dbVars, CronInv
  <2>2. \A other \in Recorded : ~(SlotOf(other) <= checkpoint)
    BY <1>7, <2>1 DEF CronInv, OneEventPerSlot, SlotOf
  <2>3. Descends(me)
    <3>1. me.events # <<>> => old.events # <<>>
      BY <1>4
    <3> QED BY <1>5, <1>6, <1>13, <2>2, <3>1 DEF Descends
  <2>4. \A v \in Workers : v = w
    BY DEF Scheduled
  <2> QED BY <1>1, <1>3, <2>1, <2>3, <2>4, CronWork
<1>17. CASE rows[entry.event.tree] # NoRow
  <2>1. /\ checkpoint' = SlotOf(entry)
        /\ tables' = IF Taken(entry.sig, entry.event) THEN tables ELSE tables \cup {entry}
    <3>1. [sig |-> entry.sig, event |-> entry.event] = entry
      BY <1>b
    <3> QED BY <1>0, <1>8, <1>17, <3>1 DEF Store, Persisted
  <2>2. Taken(entry.sig, entry.event)'
    <3>1. CASE Taken(entry.sig, entry.event)
      BY <2>1, <3>1 DEF Taken
    <3>2. CASE ~Taken(entry.sig, entry.event)
      BY <2>1, <3>2 DEF Taken
    <3> QED BY <3>1, <3>2
  <2>3. ASSUME NEW other \in Recorded, SlotOf(other) <= SlotOf(entry)
        PROVE  Taken(other.sig, other.event)' \/ (Pending(me, other) /\ Beyond(me, other))
    <3>1. CASE other.sig = old.sig
      BY <1>12, <2>2, <3>1
    <3>2. CASE other.sig # old.sig
      <4>1. CASE ~Beyond(me, other)
        <5>1. SlotOf(other) <= old.start
          BY <1>4, <1>6, <1>7, <4>1 DEF Beyond
        <5> QED BY <1>5, <1>14, <5>1 DEF Descends
      <4>2. CASE Beyond(me, other)
        <5>1. other.sig < old.sig
          <6>1. SUFFICES ASSUME old.sig < other.sig PROVE FALSE
            BY <1>7, <1>8, <3>2
          <6>2. log[old.sig].slot <= log[other.sig].slot
            BY <1>7, <1>8, <6>1 DEF Inv, LogInv, LogInOrder
          <6>3. log[old.sig].slot = log[other.sig].slot
            BY <1>7, <1>8, <2>3, <6>2 DEF SlotOf
          <6> QED BY <1>7, <1>8, <3>2, <6>3 DEF CronInv, OneEventPerSlot
        <5>2. Pending(old, other)
          BY <1>1, <1>5, <1>8, <1>9, <1>11, <4>2, <5>1 DEF Descends
        <5> QED BY <1>1, <3>2, <4>2, <5>2
      <4> QED BY <4>1, <4>2
    <3> QED BY <3>1, <3>2
  <2>4. Descends(me)'
    <3>1. Recorded' = Recorded /\ Visible' = Visible
      BY <1>3 DEF Recorded, Visible
    <3>2. \A other : Pending(me, other)' <=> Pending(me, other)
      BY DEF Pending
    <3>3. \A other : SlotOf(other)' = SlotOf(other) /\ (Beyond(me, other)' <=> Beyond(me, other))
      BY <1>3 DEF SlotOf, Beyond
    <3>4. me.events # <<>> => old.events # <<>>
      BY <1>4
    <3>5. \A other \in Recorded : SlotOf(other) <= me.start => Taken(other.sig, other.event)'
      BY <1>5, <1>6, <1>14 DEF Descends
    <3>6. /\ ~me.claims_only /\ me.start < slot /\ me.page \subseteq Visible
          /\ (me.events # <<>> => me.sig \in Visible) /\ (me.before # None => me.before \in Visible)
          /\ \A sig \in me.page : me.before # None /\ me.before <= sig
          /\ me.events # <<>> =>
               me.before # None /\ me.before <= me.sig /\ \A sig \in me.page : sig < me.sig
      BY <1>5, <1>6, <3>4 DEF Descends
    <3> QED BY <1>3, <1>13, <2>1, <2>3, <3>1, <3>2, <3>3, <3>5, <3>6 DEF Descends
  <2>5. \A v \in Workers : v = w /\ worker'[v] # Idle
    BY <1>1, <1>3 DEF Scheduled
  <2>6. checkpoint' < slot' /\ OneEventPerSlot'
    BY <1>3, <1>8, <2>1 DEF CronInv, OneEventPerSlot
  <2>7. \A t \in Trees : rows'[t] # NoRow
    BY <1>2, <1>15, <1>17 DEF RowsKeep
  <2>8. Descends(worker[w])'
    BY <1>3, <2>4 DEF Descends, Pending, Beyond
  <2> QED BY <2>5, <2>6, <2>7, <2>8 DEF CronInv
<1> QED BY <1>16, <1>17

LEMMA CronNextInv ==
    ASSUME Scheduled, Inv, CronInv, CronNext
    PROVE  Inv' /\ CronInv'
<1>1. Next
  <2>1. \A w \in Workers : Step(w) => FetchPage(w) \/ ReadTransaction(w) \/ IndexEvent(w)
    BY DEF Step
  <2> QED BY <2>1 DEF CronNext, Next
<1>2. Inv'
  <2>1. [Next]_vars
    BY <1>1
  <2> QED BY <2>1, NextInv
<1>3. CASE Chain
  BY <1>2, <1>3, CronChain
<1>4. CASE \E t \in Trees : PostCampaign(t)
  <2>1. PICK t \in Trees : PostCampaign(t)
    BY <1>4
  <2>2. RowsKeep
    BY <2>1, PostCampaignInv
  <2>3. UNCHANGED <<chain, log, slot, tables, checkpoint, worker>>
    BY <2>1 DEF PostCampaign
  <2>4. \A tree \in Trees : rows[tree] # NoRow => rows'[tree] # NoRow
    BY <2>2 DEF RowsKeep
  <2>5. \A w \in Workers : worker'[w] # Idle => Descends(worker'[w])
    BY <2>3 DEF CronInv
  <2>6. \A w \in Workers : worker'[w] = Idle =>
          \A other \in Recorded : SlotOf(other) <= checkpoint => Taken(other.sig, other.event)
    BY <2>3 DEF CronInv
  <2> QED BY <1>2, <2>3, <2>4, <2>5, <2>6, CronWork
<1>5. CASE \E entry \in EventsAfter(0) : ~Taken(entry.sig, entry.event) /\ PatchStatus(entry)
  <2>1. PICK entry \in EventsAfter(0) : PatchStatus(entry)
    BY <1>5
  <2>2. RowsKeep
    BY <2>1, PatchStatusInv
  <2>3. UNCHANGED <<chain, log, slot, tables, checkpoint, worker>>
    BY <2>1 DEF PatchStatus
  <2>4. \A tree \in Trees : rows[tree] # NoRow => rows'[tree] # NoRow
    BY <2>2 DEF RowsKeep
  <2>5. \A w \in Workers : worker'[w] # Idle => Descends(worker'[w])
    BY <2>3 DEF CronInv
  <2>6. \A w \in Workers : worker'[w] = Idle =>
          \A other \in Recorded : SlotOf(other) <= checkpoint => Taken(other.sig, other.event)
    BY <2>3 DEF CronInv
  <2> QED BY <1>2, <2>3, <2>4, <2>5, <2>6, CronWork
<1>6. CASE \E w \in Workers : CronSync(w) \/ Step(w)
  <2>1. PICK w \in Workers : CronSync(w) \/ Step(w)
    BY <1>6
  <2>2. CASE CronSync(w)
    BY <1>2, <2>2, CronStart
  <2>3. CASE Step(w)
    BY <1>2, <2>3, CronFetch, CronRead, CronIndex DEF Step
  <2> QED BY <2>1, <2>2, <2>3
<1> QED BY <1>2, <1>3, <1>4, <1>5, <1>6 DEF CronNext

(* Between scheduled passes everything at or below the checkpoint is in    *)
(* the tables, though a pass writes the newest events first and the        *)
(* checkpoint comes down with it: for any page size, any number of         *)
(* transactions and any clocks, when one campaign has one event a slot     *)
(* and no invocation dies.                                                 *)
THEOREM NothingIsBehindCheckpoint ==
    Scheduled => (CronSpec => []NothingBehindCheckpoint)
<1> SUFFICES ASSUME Scheduled PROVE CronSpec => []NothingBehindCheckpoint
  OBVIOUS
<1>1. Init => Inv /\ CronInv
  <2> SUFFICES ASSUME Init PROVE Inv /\ CronInv
    OBVIOUS
  <2>1. Inv
    BY InitInv
  <2>2. log = <<>> /\ DOMAIN log = {} /\ slot = 1 /\ checkpoint = 0 /\ worker = [w \in Workers |-> Idle]
    BY DEF Init, ChainInit
  <2>3. Recorded = {}
    BY <2>2 DEF Recorded
  <2>4. OneEventPerSlot
    BY <2>2 DEF OneEventPerSlot
  <2> QED BY <2>1, <2>2, <2>3, <2>4 DEF CronInv
<1>2. Inv /\ CronInv /\ [CronNext]_vars => (Inv /\ CronInv)'
  <2> SUFFICES ASSUME Inv, CronInv, [CronNext]_vars PROVE (Inv /\ CronInv)'
    OBVIOUS
  <2>1. CASE CronNext
    BY <2>1, CronNextInv
  <2>2. CASE UNCHANGED vars
    <3>1. UNCHANGED <<chain, log, slot, rows, tables, checkpoint, worker, patched, owed>>
      BY <2>2 DEF vars
    <3>2. [Next]_vars
      BY <2>2
    <3>3. Inv'
      BY <3>2, NextInv
    <3>4. CronInv'
      BY <3>1, CronWork DEF CronInv
    <3> QED BY <3>3, <3>4
  <2> QED BY <2>1, <2>2
<1>3. Inv /\ CronInv => NothingBehindCheckpoint
  <2> SUFFICES ASSUME Inv, CronInv, \A w \in Workers : worker[w] = Idle, NEW entry \in Confirmed,
                      log[entry.sig].slot <= checkpoint
               PROVE  Taken(entry.sig, entry.event)
    BY DEF NothingBehindCheckpoint
  <2>1. entry \in Recorded
    BY DEF Confirmed, EventsAfter, Recorded, Visible
  <2>2. PICK w : w \in Workers
    BY DEF Scheduled
  <2> QED BY <2>1, <2>2 DEF CronInv, SlotOf
<1> QED BY <1>1, <1>2, <1>3, PTL DEF CronSpec
=============================================================================
