----------------------------- MODULE MCCampaign -----------------------------
(***************************************************************************)
(* A multi-leaf campaign of three leaves and two beneficiaries: alice has  *)
(* a linear and a cliff leaf, bob a milestone; and single-leaf streams,    *)
(* alice's linear leaf, whose times are cut in the page's form, one with   *)
(* times of whole minutes, or a milestone of bob's, at the same address,   *)
(* which a native tree may free for a second use.                          *)
(*                                                                         *)
(* The campaign's root is rotated once or twice: alice's leaf 0 is         *)
(* enlarged and delayed and she gets a third leaf that her ledger may have *)
(* no slot left for; bob's milestone is re-issued under another leaf       *)
(* index; and a last root is a single leaf of the whole supply, so that    *)
(* the stream handlers apply as well.                                      *)
(*                                                                         *)
(* And a linear stream of alice's that an earlier release of the program   *)
(* created and paid from, whose record the next instruction that touches   *)
(* it migrates (state/claim_record.rs, layout history).                    *)
(***************************************************************************)
EXTENDS OfferProperties

CONSTANTS creator, dao, alice, bob

(* Counting units is adding up. *)
ASSUME SumsAreSums ==
    \A f \in [1 .. 3 -> 0 .. 3] :
        /\ SumOf(f, 1 .. 3) = f[1] + f[2] + f[3]
        /\ SumOf(f, {1, 3}) = f[1] + f[3]

MCKeys == {creator, dao, alice, bob}

Leaf(idx, who, amount, type, cliff, end, milestone) ==
    [leaf_index |-> idx, beneficiary |-> who, amount |-> amount,
     release_type |-> type, start_time |-> 1, cliff_time |-> cliff,
     end_time |-> end, milestone_idx |-> milestone]

LinearLeaf    == Leaf(0, alice, 3, Linear, 1, 3, 0)
CliffLeaf     == Leaf(1, alice, 1, Cliff, 2, 2, 0)
MilestoneLeaf == Leaf(2, bob, 2, Milestone, 1, 1, 0)

\* of whole minutes, at two seconds to the minute
EvenLeaf == [Leaf(0, alice, 3, Linear, 2, 4, 0) EXCEPT !.start_time = 2]

StreamMilestone == Leaf(0, bob, 2, Milestone, 1, 1, 0)

Longer == Leaf(0, alice, 4, Linear, 3, 4, 0)
Extra  == Leaf(3, alice, 1, Cliff, 3, 3, 0)
Bigger == Leaf(1, bob, 1, Milestone, 3, 3, 0)
Whole  == Leaf(0, alice, 6, Cliff, 3, 3, 0)

Second == [root |-> {Longer, Extra, Bigger}, leaf_count |-> 3, min_cliff_time |-> 3]
Third  == [root |-> {Whole}, leaf_count |-> 1, min_cliff_time |-> 3]
MCRoots == {Second, Third}

CampaignLeaves == {LinearLeaf, CliffLeaf, MilestoneLeaf}
MCLeaves       == CampaignLeaves \cup {EvenLeaf, StreamMilestone} \cup Second.root \cup Third.root

Args(native, cancellable, pause_authority) ==
    [native |-> native, root |-> CampaignLeaves, leaf_count |-> 3, total_supply |-> 6,
     min_cliff_time |-> 1, cancellable |-> cancellable,
     cancel_authority |-> dao, pause_authority |-> pause_authority]

BothArgs == {Args(native, TRUE, dao) : native \in BOOLEAN}
SplArgs  == {Args(FALSE, TRUE, dao)}
LiveArgs == {Args(native, cancellable, IF cancellable THEN dao ELSE None) :
                native \in BOOLEAN, cancellable \in BOOLEAN}
MCStreams ==
    {[native |-> native, leaf |-> leaf, cancellable |-> TRUE,
      cancel_authority |-> IF native THEN creator ELSE dao, pause_authority |-> dao] :
        native \in BOOLEAN, leaf \in {LinearLeaf, EvenLeaf, StreamMilestone}}
NoArgs   == {}
Amounts  == {3, 6}
-----------------------------------------------------------------------------
OldStream == Leaf(0, alice, 4, Linear, 1, 5, 0)

OldLeaves  == {OldStream}
LiveLeaves == MCLeaves \cup OldLeaves

(* In tokens and in lamports. *)
LegacyStreams ==
    {[native |-> native, leaf |-> OldStream, cancellable |-> TRUE,
      cancel_authority |-> dao, pause_authority |-> dao] : native \in BOOLEAN}

LegacySpec == LegacyInit(LegacyStreams) /\ [][Next]_vars

(* A fresh address or one of those streams. *)
FreshOrLegacy == (Init \/ LegacyInit(LegacyStreams)) /\ [][Next]_vars /\ Fairness
=============================================================================
