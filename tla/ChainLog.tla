------------------------------ MODULE ChainLog ------------------------------
(***************************************************************************)
(* The program as its followers see it: per campaign the part of the       *)
(* VestingTree account its events tell of, and the log of transactions.    *)
(* The handlers are those of module Campaign, reduced to what they emit    *)
(* and to the guards that decide which event may follow which.             *)
(*                                                                         *)
(* Transactions land in the block of the current slot, which also serves   *)
(* as the clock; an RPC node shows a block once it is confirmed.           *)
(***************************************************************************)
EXTENDS Integers, Sequences, FiniteSets

CONSTANTS
    Trees,          \* VestingTree addresses
    Roots,          \* Merkle roots
    FirstRoot,      \* the root a campaign is created with
    Supply,         \* total_supply of a campaign
    Grace,          \* slots between a cancellation and the sweep
    Handlers,       \* bound: the handlers that are called
    MaxTx,          \* bound: transactions in the log
    MaxPerBlock,    \* bound: transactions in a block
    MaxEvents,      \* bound: events of a transaction
    None

ChainAssumption ==
    /\ FirstRoot \in Roots
    /\ Supply \in Nat /\ Grace \in Nat
    /\ MaxTx \in Nat /\ MaxPerBlock \in Nat /\ MaxEvents \in Nat
    /\ None \notin Int
ASSUME ChainAssumption

VARIABLES
    chain,          \* the accounts
    log,            \* transactions in the order the chain runs them
    slot            \* the slot whose block is being filled

chainVars == <<chain, log, slot>>

Kinds == {"claimed", "campaign_cancelled", "instant_refunded", "paused", "unpaused",
          "root_updated", "withdrawn", "milestone_released", "stream_cancelled"}

(* An event as the parsers read it: the kind by its discriminator, the     *)
(* tree, and of the rest what a row can come to hold.                      *)
EventType == [kind : Kinds, tree : Trees, value : Int \cup Roots \cup {None}, at : Nat]

(* The "Program data" lines of a transaction's logs, in their order.       *)
Transaction == [slot : Nat, events : Seq(EventType)]

TreeType == [paused : BOOLEAN, root : Roots, total_claimed : 0 .. Supply,
             cancelled_at : Nat \cup {None}, instant_refunded : BOOLEAN,
             released : BOOLEAN, drained : BOOLEAN]

ChainTypeOK ==
    /\ chain \in [Trees -> TreeType]
    /\ log \in Seq(Transaction)
    /\ slot \in Nat

ChainInit ==
    /\ chain = [t \in Trees |->
                  [paused |-> FALSE, root |-> FirstRoot, total_claimed |-> 0,
                   cancelled_at |-> None, instant_refunded |-> FALSE,
                   released |-> FALSE, drained |-> FALSE]]
    /\ log = <<>>
    /\ slot = 1

InBlock == Cardinality({sig \in DOMAIN log : log[sig].slot = slot})

(* The instruction opens a transaction of its own, or joins the last one   *)
(* of the block.                                                           *)
Emit(events) ==
    /\ slot' = slot
    /\ \/ /\ Len(log) < MaxTx /\ InBlock < MaxPerBlock
          /\ log' = Append(log, [slot |-> slot, events |-> events])
       \/ /\ InBlock > 0 /\ events # <<>>
          /\ Len(log[Len(log)].events) < MaxEvents
          /\ log' = [log EXCEPT ![Len(log)].events = @ \o events]

Event(t, kind, value) == <<[kind |-> kind, tree |-> t, value |-> value, at |-> slot]>>

Open(t)   == chain[t].cancelled_at = None /\ chain[t].total_claimed < Supply
Becomes(t, tree) == chain' = [chain EXCEPT ![t] = tree]

(* claim and withdraw *)
Pay(t) ==
    /\ "Pay" \in Handlers
    /\ ~chain[t].paused /\ ~chain[t].instant_refunded /\ ~chain[t].drained
    /\ chain[t].total_claimed < Supply
    /\ LET total == chain[t].total_claimed + 1 IN
         /\ Becomes(t, [chain[t] EXCEPT !.total_claimed = total])
         /\ Emit(Event(t, "claimed", total))

CancelCampaign(t) ==
    /\ "CancelCampaign" \in Handlers
    /\ Open(t)
    /\ Becomes(t, [chain[t] EXCEPT !.cancelled_at = slot, !.paused = FALSE])
    /\ Emit(Event(t, "campaign_cancelled", None))

(* What had vested goes to the beneficiary, the rest to the creator. *)
CancelStream(t) ==
    /\ "CancelStream" \in Handlers
    /\ Open(t)
    /\ \E due \in 0 .. Supply - chain[t].total_claimed :
         /\ Becomes(t, [chain[t] EXCEPT !.cancelled_at = slot, !.paused = FALSE,
                                        !.total_claimed = @ + due, !.drained = TRUE])
         /\ Emit(Event(t, "stream_cancelled", due))

InstantRefund(t) ==
    /\ "InstantRefund" \in Handlers
    /\ Open(t) /\ ~chain[t].released
    /\ Becomes(t, [chain[t] EXCEPT !.cancelled_at = slot, !.paused = FALSE,
                                   !.instant_refunded = TRUE, !.drained = TRUE])
    /\ Emit(Event(t, "instant_refunded", None))

UpdateRoot(t) ==
    /\ "UpdateRoot" \in Handlers
    /\ chain[t].cancelled_at = None
    /\ \E root \in Roots \ {chain[t].root} :
         /\ Becomes(t, [chain[t] EXCEPT !.root = root])
         /\ Emit(Event(t, "root_updated", root))

TogglePause(t) ==
    /\ "TogglePause" \in Handlers
    /\ Open(t)
    /\ Becomes(t, [chain[t] EXCEPT !.paused = ~@])
    /\ Emit(Event(t, IF chain[t].paused THEN "unpaused" ELSE "paused", None))

ReleaseMilestone(t) ==
    /\ "ReleaseMilestone" \in Handlers
    /\ ~chain[t].instant_refunded /\ ~chain[t].released
    /\ Becomes(t, [chain[t] EXCEPT !.released = TRUE])
    /\ Emit(Event(t, "milestone_released", None))

WithdrawUnvested(t) ==
    /\ "WithdrawUnvested" \in Handlers
    /\ chain[t].cancelled_at # None /\ slot >= chain[t].cancelled_at + Grace
    /\ ~chain[t].drained
    /\ Becomes(t, [chain[t] EXCEPT !.drained = TRUE])
    /\ Emit(Event(t, "withdrawn", None))

(* Creating, funding and closing emit nothing a follower reads. *)
Unreported ==
    /\ "Unreported" \in Handlers
    /\ UNCHANGED chain
    /\ Emit(<<>>)

(* The block is complete and visible. *)
Confirm ==
    /\ InBlock > 0
    /\ slot' = slot + 1
    /\ UNCHANGED <<chain, log>>

ChainNext ==
    \/ \E t \in Trees :
         \/ Pay(t) \/ CancelCampaign(t) \/ CancelStream(t) \/ InstantRefund(t)
         \/ UpdateRoot(t) \/ TogglePause(t) \/ ReleaseMilestone(t)
         \/ WithdrawUnvested(t)
    \/ Unreported
    \/ Confirm

(* What getSignaturesForAddress lists: a prefix of the log. *)
Visible == {sig \in DOMAIN log : log[sig].slot < slot}
=============================================================================
