--------------------------- MODULE CampaignProofs ---------------------------
(***************************************************************************)
(* Proofs about VestingMath and Campaign for every set of leaves,          *)
(* arguments and bounds: the curve of a leaf, the type invariant, the      *)
(* books and the cap; then what a step does: it never undoes a             *)
(* cancellation, lets nothing leave while the campaign is paused, and is   *)
(* one step of an Escrow, or none.                                         *)
(***************************************************************************)
EXTENDS CampaignProperties, TLAPS

(* ----------------------- the curve of a leaf ----------------------- *)

IsLeaf(leaf) ==
    leaf.amount \in Nat /\ leaf.cliff_time \in Int /\ leaf.end_time \in Int

(* A share of a product, rounded down, is at most the whole, and grows     *)
(* with the numerator.                                                     *)
LEMMA ShareBounds ==
    ASSUME NEW a \in Nat, NEW e \in Nat, NEW d \in Nat, 0 < d, e <= d
    PROVE  (a * e) \div d \in 0 .. a
<1>1. a * e \in Nat /\ a * d \in Nat
  OBVIOUS
<1>2. a * e <= a * d
  OBVIOUS
<1> DEFINE q == (a * e) \div d
<1>3. q \in Int /\ d * q <= a * e /\ a * e < d * q + d
  BY <1>1
<1>4. 0 <= q
  <2>1. SUFFICES ASSUME q <= -1 PROVE FALSE
    BY <1>3
  <2>2. d * q <= -d
    BY <1>3, <2>1
  <2> QED BY <1>1, <1>3, <2>2
<1>5. q <= a
  <2>1. SUFFICES ASSUME q >= a + 1 PROVE FALSE
    BY <1>3
  <2>2. d * q >= d * (a + 1)
    BY <1>3, <2>1
  <2>3. d * (a + 1) = a * d + d
    OBVIOUS
  <2> QED BY <1>1, <1>2, <1>3, <2>2, <2>3
<1> QED BY <1>3, <1>4, <1>5

LEMMA ShareMonotone ==
    ASSUME NEW p \in Nat, NEW r \in Nat, NEW d \in Nat, 0 < d, p <= r
    PROVE  p \div d <= r \div d
<1> DEFINE x == p \div d
           y == r \div d
<1>1. x \in Int /\ d * x <= p
  OBVIOUS
<1>2. y \in Int /\ r < d * y + d
  OBVIOUS
<1>3. SUFFICES ASSUME x >= y + 1 PROVE FALSE
  BY <1>1, <1>2
<1>4. d * x >= d * (y + 1)
  BY <1>1, <1>2, <1>3
<1>5. d * (y + 1) = d * y + d
  BY <1>2
<1> QED BY <1>1, <1>2, <1>4, <1>5

(* The linear share, strictly inside the schedule. *)
LEMMA LinearShareBounds ==
    ASSUME NEW leaf, IsLeaf(leaf), NEW t \in Int,
           leaf.cliff_time < t, t < leaf.end_time
    PROVE  LinearShare(leaf, t) \in 0 .. leaf.amount
<1> DEFINE e == t - leaf.cliff_time
           d == leaf.end_time - leaf.cliff_time
<1>1. e \in Nat /\ d \in Nat /\ 0 < d /\ e <= d /\ leaf.amount \in Nat
  BY DEF IsLeaf
<1>2. (leaf.amount * e) \div d \in 0 .. leaf.amount
  <2> HIDE DEF e, d
  <2> QED BY <1>1, ShareBounds
<1> QED BY <1>2 DEF LinearShare

(* Nobody's vested amount exceeds the leaf's amount, at any time.          *)
THEOREM VestedBounded ==
    ASSUME NEW leaf, IsLeaf(leaf), NEW t \in Int
    PROVE  Vested(leaf, t) \in 0 .. leaf.amount
<1>1. leaf.amount \in Nat /\ leaf.cliff_time \in Int /\ leaf.end_time \in Int
  BY DEF IsLeaf
<1>2. CASE leaf.release_type = Linear /\ leaf.cliff_time < t /\ t < leaf.end_time
  BY <1>1, <1>2, LinearShareBounds DEF Vested
<1>3. CASE ~(leaf.release_type = Linear /\ leaf.cliff_time < t /\ t < leaf.end_time)
  BY <1>1, <1>3 DEF Vested
<1> QED BY <1>2, <1>3

(* What has vested stays vested: no leaf's curve falls as time passes, not *)
(* even that of a leaf whose cliff is after its end.                       *)
THEOREM VestedMonotone ==
    ASSUME NEW leaf, IsLeaf(leaf), NEW s \in Int, NEW t \in Int, s <= t
    PROVE  Vested(leaf, s) <= Vested(leaf, t)
<1>1. leaf.amount \in Nat /\ leaf.cliff_time \in Int /\ leaf.end_time \in Int
  BY DEF IsLeaf
<1>2. Vested(leaf, s) \in 0 .. leaf.amount /\ Vested(leaf, t) \in 0 .. leaf.amount
  BY VestedBounded
<1>3. CASE leaf.release_type = Linear /\ leaf.cliff_time < s /\ t < leaf.end_time
  <2> DEFINE p == leaf.amount * (s - leaf.cliff_time)
             r == leaf.amount * (t - leaf.cliff_time)
             d == leaf.end_time - leaf.cliff_time
  <2>1. p \in Nat /\ r \in Nat /\ d \in Nat /\ 0 < d
    BY <1>1, <1>3
  <2>2. p <= r
    BY <1>1, <1>3
  <2>3. p \div d <= r \div d
    <3> HIDE DEF p, r, d
    <3> QED BY <2>1, <2>2, ShareMonotone
  <2> QED BY <1>1, <1>3, <2>3 DEF Vested, LinearShare
<1>4. CASE ~(leaf.release_type = Linear /\ leaf.cliff_time < s /\ t < leaf.end_time)
  <2>1. CASE leaf.release_type = Linear
    <3>1. s <= leaf.cliff_time \/ leaf.end_time <= t
      BY <1>1, <1>4, <2>1
    <3>2. CASE leaf.end_time <= t
      BY <1>2, <2>1, <3>2 DEF Vested
    <3>3. CASE s <= leaf.cliff_time /\ t < leaf.end_time
      BY <1>1, <1>2, <2>1, <3>3 DEF Vested
    <3> QED BY <1>1, <3>1, <3>2, <3>3
  <2>2. CASE leaf.release_type # Linear
    BY <1>1, <2>2 DEF Vested
  <2> QED BY <2>1, <2>2
<1> QED BY <1>3, <1>4

(* A cancellation freezes time, and only delays or stops it: what is       *)
(* vested for a cancelled campaign is vested at the cancellation, and      *)
(* never more than without the cancellation.                               *)
THEOREM CancelFreezes ==
    ASSUME NEW leaf, IsLeaf(leaf), NEW c \in Int, NEW s \in Int, NEW t \in Int,
           c <= s, s <= t, None \notin Int
    PROVE  /\ Vested(leaf, EffectiveNow(c, t)) = Vested(leaf, EffectiveNow(c, s))
           /\ Vested(leaf, EffectiveNow(c, t)) <= Vested(leaf, EffectiveNow(None, t))
<1>1. c # None
  OBVIOUS
<1>2. EffectiveNow(c, t) = c /\ EffectiveNow(c, s) = c /\ EffectiveNow(None, t) = t
  BY <1>1 DEF EffectiveNow, Earlier
<1> QED BY <1>2, VestedMonotone
-----------------------------------------------------------------------------
USE DEF U64

LEMMA LeafFacts ==
    ASSUME NEW leaf \in Leaves
    PROVE  /\ leaf.leaf_index \in Indices /\ leaf.leaf_index \in Nat
           /\ leaf.beneficiary \in Beneficiaries
           /\ leaf.milestone_idx \in MilestoneIdx
           /\ leaf.amount \in U64 /\ leaf.amount \in Nat
           /\ IsLeaf(leaf)
           /\ EntitlementOf(leaf) \in Entitlements
<1>1. leaf \in LeafType
  BY LeavesAssumption
<1>2. U64 \subseteq Nat
  BY BoundsAssumption
<1>3. leaf.leaf_index \in Nat /\ leaf.amount \in U64 /\ leaf.amount \in Nat /\ IsLeaf(leaf)
  BY <1>1, <1>2 DEF LeafType, IsLeaf
<1>4. leaf.leaf_index \in Indices /\ leaf.beneficiary \in Beneficiaries
        /\ leaf.milestone_idx \in MilestoneIdx
  BY DEF Indices, Beneficiaries, MilestoneIdx
<1>5. EntitlementOf(leaf) \in Entitlements
  BY DEF Entitlements
<1> QED BY <1>3, <1>4, <1>5

LEMMA VestedType ==
    ASSUME NEW leaf \in Leaves, NEW t \in Int
    PROVE  Vested(leaf, t) \in 0 .. leaf.amount
BY LeafFacts, VestedBounded

LEMMA SatSubType ==
    ASSUME NEW a \in Int, NEW b \in Int
    PROVE  SatSub(a, b) \in Nat /\ (0 <= a /\ 0 <= b => SatSub(a, b) <= a)
BY DEF SatSub

LEMMA EffectiveType ==
    ASSUME TypeOK, Live
    PROVE  Effective \in Int
BY BoundsAssumption DEF TypeOK, Live, TreeType, Effective, EffectiveNow, Earlier

(* ----------------------------- records ----------------------------- *)

LEMMA FreshRecordType ==
    ASSUME NEW entitled \in U64
    PROVE  FreshRecord(entitled) \in RecordType
BY BoundsAssumption DEF FreshRecord, RecordType, EmptyLedger

LEMMA LoadForClaimType ==
    ASSUME TypeOK, NEW leaf \in Leaves
    PROVE  LoadForClaim(leaf) \in RecordType
<1> DEFINE cr == record[leaf.beneficiary]
<1>1. cr \in RecordType \cup {NoRecord}
  BY LeafFacts DEF TypeOK
<1>2. CASE cr = NoRecord
  BY <1>2, FreshRecordType, BoundsAssumption DEF LoadForClaim
<1>3. CASE cr # NoRecord
  <2>1. cr \in RecordType
    BY <1>1, <1>3
  <2>2. cr.claimed_amount \in Nat
    BY <2>1, BoundsAssumption DEF RecordType
  <2>3. EmptyLedger \in [Indices -> Nat \cup {None}]
    BY DEF EmptyLedger
  <2>4. [EmptyLedger EXCEPT ![leaf.leaf_index] = cr.claimed_amount]
          \in [Indices -> Nat \cup {None}]
    BY <2>2, <2>3
  <2> QED BY <1>3, <2>1, <2>3, <2>4 DEF LoadForClaim, RecordType
<1> QED BY <1>2, <1>3

LEMMA LoadForStreamType ==
    ASSUME TypeOK, NEW leaf \in Leaves
    PROVE  LoadForStream(leaf) \in RecordType
<1> DEFINE cr == record[leaf.beneficiary]
<1>1. cr \in RecordType \cup {NoRecord}
  BY LeafFacts DEF TypeOK
<1>2. CASE cr = NoRecord
  BY <1>2, FreshRecordType, LeafFacts DEF LoadForStream
<1>3. CASE cr # NoRecord
  <2>1. cr \in RecordType
    BY <1>1, <1>3
  <2>2. EmptyLedger \in [Indices -> Nat \cup {None}]
    BY DEF EmptyLedger
  <2> QED BY <1>3, <2>1, <2>2 DEF LoadForStream, RecordType
<1> QED BY <1>2, <1>3

LEMMA CountLeafType ==
    ASSUME NEW leaf \in Leaves, NEW cr \in RecordType,
           CountLeaf(cr, leaf).total_entitled <= U64Max
    PROVE  CountLeaf(cr, leaf) \in RecordType
<1>1. leaf.amount \in Nat /\ cr.total_entitled \in Nat
  BY LeafFacts, BoundsAssumption DEF RecordType
<1>2. CASE LeafAlreadyCounted(cr, leaf)
  BY <1>2 DEF CountLeaf
<1>3. CASE ~LeafAlreadyCounted(cr, leaf)
  <2>1. CountLeaf(cr, leaf) = [cr EXCEPT !.total_entitled = cr.total_entitled + leaf.amount]
    BY <1>3 DEF CountLeaf
  <2>2. cr.total_entitled + leaf.amount \in U64
    BY <1>1, <2>1, BoundsAssumption DEF RecordType
  <2> QED BY <2>1, <2>2 DEF RecordType
<1> QED BY <1>2, <1>3

LEMMA LeafPriorClaimedType ==
    ASSUME NEW cr \in RecordType, NEW i \in Indices
    PROVE  LeafPriorClaimed(cr, i) \in Nat
BY DEF LeafPriorClaimed, RecordType

LEMMA CreditType ==
    ASSUME NEW leaf \in Leaves, NEW cr \in RecordType, NEW amount \in Nat,
           cr.claimed_amount + amount <= U64Max
    PROVE  Credit(cr, leaf, amount) \in RecordType
<1>1. cr.claimed_amount + amount \in U64
  BY BoundsAssumption DEF RecordType
<1>2. LeafPriorClaimed(cr, leaf.leaf_index) + amount \in Nat
  BY LeafFacts, LeafPriorClaimedType
<1>3. [cr.ledger EXCEPT ![leaf.leaf_index] =
         LeafPriorClaimed(cr, leaf.leaf_index) + amount] \in [Indices -> Nat \cup {None}]
  BY <1>2 DEF RecordType
<1>4. cr.milestone_bitmap \cup {leaf.milestone_idx} \in SUBSET MilestoneIdx
  BY LeafFacts DEF RecordType
<1> QED BY <1>1, <1>3, <1>4 DEF Credit, RecordType
-----------------------------------------------------------------------------
(* ------------------------------ the vault ------------------------------ *)

LEMMA BalanceType ==
    ASSUME TypeOK, Live
    PROVE  /\ tree \in TreeType
           /\ tree.total_claimed \in Nat /\ tree.total_supply \in Nat
           /\ Balance \in Nat
           /\ tree.native => Balance <= lamports
           /\ ~tree.native => Balance = vault
<1>1. tree \in TreeType /\ lamports \in Nat /\ vault \in Nat
  BY DEF TypeOK, Live
<1>2. tree.total_claimed \in Nat /\ tree.total_supply \in Nat
  BY <1>1, BoundsAssumption DEF TreeType
<1>3. SatSub(lamports, Rent) \in Nat /\ SatSub(lamports, Rent) <= lamports
  BY <1>1, BoundsAssumption, SatSubType
<1> QED BY <1>1, <1>2, <1>3 DEF Balance

(* The tree after a payment is booked. *)
LEMMA BookedTree ==
    ASSUME TypeOK, Live, NEW amount \in Nat,
           tree.total_claimed + amount <= tree.total_supply,
           NEW t, t = [tree EXCEPT !.total_claimed = @ + amount]
    PROVE  /\ t \in TreeType
           /\ t.native = tree.native
           /\ t.total_supply = tree.total_supply
           /\ t.total_claimed = tree.total_claimed + amount
           /\ t.cancelled_at = tree.cancelled_at /\ t.paused = tree.paused
           /\ t.root = tree.root
<1>1. tree \in TreeType
  BY BalanceType
<1>2. tree.total_claimed + amount \in U64
  BY <1>1, BalanceType, BoundsAssumption DEF TreeType
<1> QED BY <1>1, <1>2 DEF TreeType

(* What a claim or a withdrawal does to the vault: it moves money, makes   *)
(* and loses none, and what a tree that stays holds and has booked is in   *)
(* step.                                                                   *)
LEMMA PayBeneficiaryBooks ==
    ASSUME TypeOK, Live, lamports >= Rent,
           NEW amount \in Nat, 0 < amount, Balance >= amount,
           NEW t \in TreeType, t.native = tree.native, PayBeneficiary(t, amount)
    PROVE  /\ tree' \in {t, NoTree}
           /\ vault' \in Nat /\ lamports' \in Nat /\ paidOut' \in Nat
           /\ vault' + lamports' + paidOut' = vault + lamports + paidOut
           /\ Live' => tree' = t /\ paidOut' = paidOut + amount /\ lamports' >= Rent
<1>1. vault \in Nat /\ lamports \in Nat /\ paidOut \in Nat /\ Rent \in Nat
  BY BoundsAssumption DEF TypeOK
<1>2. CASE ~t.native
  <2>1. vault' = vault - amount /\ paidOut' = paidOut + amount /\ tree' = t
          /\ lamports' = lamports
    BY <1>2 DEF PayBeneficiary, PayLamports, PayTokens
  <2>2. vault >= amount
    BY <1>2, BalanceType
  <2> QED BY <1>1, <2>1, <2>2
<1>3. CASE t.native /\ t.total_claimed = t.total_supply
  <2>1. lamports' = 0 /\ paidOut' = paidOut + lamports /\ tree' = NoTree /\ vault' = vault
    BY <1>3 DEF PayBeneficiary, PayLamports, PayTokens
  <2> QED BY <1>1, <2>1 DEF Live
<1>4. CASE t.native /\ t.total_claimed # t.total_supply
  <2>1. SatSub(lamports, amount) >= Rent /\ lamports' = lamports - amount
          /\ paidOut' = paidOut + amount /\ tree' = t /\ vault' = vault
    BY <1>4 DEF PayBeneficiary, PayLamports, PayTokens
  <2>2. lamports >= amount
    BY <1>1, <1>4, BalanceType
  <2>3. lamports - amount >= Rent
    BY <1>1, <2>1, <2>2 DEF SatSub
  <2> QED BY <1>1, <2>1, <2>2, <2>3
<1> QED BY <1>2, <1>3, <1>4
-----------------------------------------------------------------------------
(* --------------------- the inductive invariant --------------------- *)

(* Whatever cancels a campaign lifts its pause, and nothing pauses it      *)
(* again.                                                                  *)
CancelledNotPaused == Live /\ Cancelled => ~tree.paused

IInv == TypeOK /\ BooksMatchBank /\ SupplyCap /\ CancelledNotPaused

(* What both claim and withdraw end with. *)
LEMMA PayOutStep ==
    ASSUME IInv, Live, NEW leaf \in Leaves, NEW cr \in RecordType,
           NEW amount \in Nat, PayOut(cr, leaf, amount)
    PROVE  IInv'
<1> DEFINE t == [tree EXCEPT !.total_claimed = @ + amount]
<1>1. TypeOK /\ lamports >= Rent
  BY DEF IInv, SupplyCap
<1>2. /\ amount > 0
      /\ Balance >= amount
      /\ tree.total_claimed + amount <= tree.total_supply
      /\ cr.claimed_amount + amount <= U64Max
      /\ record' = [record EXCEPT ![leaf.beneficiary] = Credit(cr, leaf, amount)]
      /\ paid' = [paid EXCEPT ![EntitlementOf(leaf)] = @ + amount]
      /\ PayBeneficiary(t, amount)
      /\ UNCHANGED <<now, creations, deposited, returned, archived, disturbed, rotated>>
  BY DEF PayOut, Payable, Booked
<1>3. /\ t \in TreeType
      /\ t.native = tree.native
      /\ t.total_supply = tree.total_supply
      /\ t.total_claimed = tree.total_claimed + amount
      /\ t.cancelled_at = tree.cancelled_at /\ t.paused = tree.paused
  BY <1>1, <1>2, BookedTree
<1>4. /\ tree' \in {t, NoTree}
      /\ vault' \in Nat /\ lamports' \in Nat /\ paidOut' \in Nat
      /\ vault' + lamports' + paidOut' = vault + lamports + paidOut
      /\ Live' => tree' = t /\ paidOut' = paidOut + amount /\ lamports' >= Rent
  <2> HIDE DEF t
  <2> QED BY <1>1, <1>2, <1>3, PayBeneficiaryBooks
<1>5. TypeOK'
  <2>1. record' \in [Beneficiaries -> RecordType \cup {NoRecord}]
    BY <1>1, <1>2, CreditType, LeafFacts DEF TypeOK
  <2>2. paid' \in [Entitlements -> Nat]
    BY <1>1, <1>2, LeafFacts DEF TypeOK
  <2>3. tree' \in TreeType \cup {NoTree}
    BY <1>3, <1>4
  <2> QED BY <1>1, <1>2, <1>4, <2>1, <2>2, <2>3 DEF TypeOK
<1>6. BooksMatchBank'
  <2>1. vault' + lamports' + paidOut' + returned' = deposited'
    BY <1>1, <1>2, <1>4 DEF IInv, BooksMatchBank, TypeOK
  <2>2. Live' => paidOut' = tree'.total_claimed
    BY <1>3, <1>4 DEF IInv, BooksMatchBank
  <2> QED BY <2>1, <2>2 DEF BooksMatchBank
<1>7. SupplyCap'
  BY <1>2, <1>3, <1>4 DEF SupplyCap
<1>8. CancelledNotPaused'
  BY <1>3, <1>4 DEF IInv, CancelledNotPaused, Live, Cancelled
<1> QED BY <1>5, <1>6, <1>7, <1>8 DEF IInv

LEMMA InitInv == Init => IInv
<1> SUFFICES ASSUME Init PROVE IInv
  OBVIOUS
<1>1. TypeOK
  <2>1. record \in [Beneficiaries -> RecordType \cup {NoRecord}]
    BY DEF Init
  <2>2. paid \in [Entitlements -> Nat]
    BY DEF Init
  <2>3. now \in 0 .. MaxTime /\ creations \in 0 .. MaxCreations
    BY BoundsAssumption DEF Init
  <2>4. tree \in TreeType \cup {NoTree} /\ disturbed \subseteq Beneficiaries
    BY DEF Init
  <2> QED BY <2>1, <2>2, <2>3, <2>4 DEF Init, TypeOK
<1>2. BooksMatchBank /\ SupplyCap /\ CancelledNotPaused
  BY DEF Init, BooksMatchBank, SupplyCap, CancelledNotPaused, Live
<1> QED BY <1>1, <1>2 DEF IInv

(* Both create instructions, with the tree they write and what they move.  *)
LEMMA OpenStep ==
    ASSUME IInv, NEW t \in TreeType, NEW amount \in Nat, t.total_claimed = 0, ~t.paused,
           Open(t, amount)
    PROVE  IInv'
<1>1. TypeOK /\ Rent \in Nat
  BY BoundsAssumption DEF IInv
<1>2. /\ creations < MaxCreations
      /\ tree' = t
      /\ vault' = IF t.native THEN 0 ELSE amount
      /\ lamports' = Rent + (IF t.native THEN amount ELSE 0)
      /\ creations' = creations + 1
      /\ paid' = [e \in Entitlements |-> 0]
      /\ deposited' = Rent + amount
      /\ paidOut' = 0 /\ returned' = 0 /\ archived' = 0
      /\ disturbed' = disturbed \cup {b \in Beneficiaries : record[b] # NoRecord}
      /\ rotated' = FALSE
      /\ now' = now /\ record' = record
  BY DEF Open
<1>3. TypeOK'
  <2>1. tree' \in TreeType \cup {NoTree}
    BY <1>2
  <2>2. vault' \in Nat /\ lamports' \in Nat /\ deposited' \in Nat
    BY <1>1, <1>2
  <2>3. paid' \in [Entitlements -> Nat]
    BY <1>2
  <2>4. creations' \in 0 .. MaxCreations
    BY <1>1, <1>2, BoundsAssumption DEF TypeOK
  <2>5. disturbed' \subseteq Beneficiaries
    BY <1>1, <1>2 DEF TypeOK
  <2>6. now' \in 0 .. MaxTime /\ record' \in [Beneficiaries -> RecordType \cup {NoRecord}]
    BY <1>1, <1>2 DEF TypeOK
  <2> QED BY <1>2, <2>1, <2>2, <2>3, <2>4, <2>5, <2>6 DEF TypeOK
<1>4. vault' + lamports' + paidOut' + returned' = deposited'
  BY <1>1, <1>2
<1>5. tree'.total_claimed = 0 /\ tree'.total_supply \in Nat /\ lamports' >= Rent
  BY <1>1, <1>2, BoundsAssumption DEF TreeType
<1> QED BY <1>2, <1>3, <1>4, <1>5 DEF IInv, BooksMatchBank, SupplyCap, CancelledNotPaused

LEMMA CreateCampaignStep ==
    ASSUME IInv, NEW args \in CampaignArgs, CreateCampaign(args)
    PROVE  IInv'
<1> DEFINE t == [native |-> args.native, root |-> args.root,
                 leaf_count |-> args.leaf_count, total_supply |-> args.total_supply,
                 total_claimed |-> 0, cancellable |-> args.cancellable,
                 cancel_authority |-> args.cancel_authority, cancelled_at |-> None,
                 paused |-> FALSE, pause_authority |-> args.pause_authority,
                 released |-> {}, min_cliff_time |-> args.min_cliff_time,
                 instant_refunded |-> FALSE]
<1>1. t \in TreeType
  BY ArgsAssumption, BoundsAssumption DEF TreeType
<1>2. t.total_claimed = 0 /\ ~t.paused
  OBVIOUS
<1>3. Open(t, 0)
  BY DEF CreateCampaign
<1> HIDE DEF t
<1> QED BY <1>1, <1>2, <1>3, OpenStep

LEMMA CreateStreamStep ==
    ASSUME IInv, NEW args \in StreamArgs, CreateStream(args)
    PROVE  IInv'
<1> DEFINE t == [native |-> args.native, root |-> {args.leaf},
                 leaf_count |-> 1, total_supply |-> args.leaf.amount,
                 total_claimed |-> 0, cancellable |-> args.cancellable,
                 cancel_authority |-> args.cancel_authority, cancelled_at |-> None,
                 paused |-> FALSE, pause_authority |-> args.pause_authority,
                 released |-> {}, min_cliff_time |-> 0,
                 instant_refunded |-> FALSE]
<1>1. args.leaf \in Leaves
  BY ArgsAssumption
<1>2. args.leaf.amount \in U64 /\ args.leaf.amount \in Nat
  BY <1>1, LeafFacts
<1>3. t \in TreeType
  BY <1>1, <1>2, ArgsAssumption, BoundsAssumption DEF TreeType
<1>4. t.total_claimed = 0 /\ ~t.paused
  OBVIOUS
<1>5. Open(t, args.leaf.amount)
  BY DEF CreateStream, StreamTree
<1> HIDE DEF t
<1> QED BY <1>2, <1>3, <1>4, <1>5, OpenStep

LEMMA FundCampaignStep ==
    ASSUME IInv, NEW amount \in FundAmounts,
           FundCampaign(amount) \/ FundCampaignNative(amount)
    PROVE  IInv'
<1>1. amount \in Nat
  BY BoundsAssumption
<1>2. CASE FundCampaign(amount)
  BY <1>1, <1>2 DEF FundCampaign, IInv, TypeOK, BooksMatchBank, SupplyCap, CancelledNotPaused,
                       Live, Cancelled
<1>3. CASE FundCampaignNative(amount)
  BY <1>1, <1>3, BoundsAssumption
     DEF FundCampaignNative, IInv, TypeOK, BooksMatchBank, SupplyCap, CancelledNotPaused,
         Live, Cancelled
<1> QED BY <1>2, <1>3

LEMMA ClaimStep ==
    ASSUME IInv, NEW leaf \in Leaves, Claim(leaf)
    PROVE  IInv'
<1> DEFINE loaded == LoadForClaim(leaf)
           cr     == CountLeaf(loaded, leaf)
           amount == ClaimableByClaim(cr, leaf)
<1>1. TypeOK /\ Live
  BY DEF IInv, Claim
<1>2. cr.total_entitled <= U64Max /\ PayOut(cr, leaf, amount)
  BY DEF Claim
<1>3. cr \in RecordType
  <2>1. loaded \in RecordType
    BY <1>1, LoadForClaimType
  <2> HIDE DEF loaded
  <2> QED BY <1>2, <2>1, CountLeafType
<1>4. amount \in Nat
  <2> HIDE DEF cr
  <2>1. LeafPriorClaimed(cr, leaf.leaf_index) \in Nat
    BY <1>3, LeafFacts, LeafPriorClaimedType
  <2>2. Vested(leaf, Effective) \in Nat
    BY <1>1, EffectiveType, VestedType, LeafFacts
  <2> QED BY <2>1, <2>2, LeafFacts, SatSubType DEF ClaimableByClaim
<1> HIDE DEF cr, amount
<1> QED BY <1>1, <1>2, <1>3, <1>4, PayOutStep

LEMMA WithdrawStep ==
    ASSUME IInv, NEW leaf \in Leaves, Withdraw(leaf)
    PROVE  IInv'
<1> DEFINE cr     == LoadForStream(leaf)
           amount == ClaimableByWithdraw(cr, leaf)
<1>1. TypeOK /\ Live
  BY DEF IInv, Withdraw
<1>2. PayOut(cr, leaf, amount)
  BY DEF Withdraw
<1>3. cr \in RecordType
  BY <1>1, LoadForStreamType
<1>4. amount \in Nat
  <2> HIDE DEF cr
  <2>1. cr.claimed_amount \in Nat
    BY <1>3, BoundsAssumption DEF RecordType
  <2>2. Vested(leaf, Effective) \in Nat
    BY <1>1, EffectiveType, VestedType, LeafFacts
  <2>3. SatSub(Vested(leaf, Effective), cr.claimed_amount) \in Nat
    BY <2>1, <2>2 DEF SatSub
  <2> QED BY <2>3, LeafFacts DEF ClaimableByWithdraw
<1> HIDE DEF cr, amount
<1> QED BY <1>1, <1>2, <1>3, <1>4, PayOutStep

(* The steps that change only fields of the tree. *)
LEMMA TreeOnlyStep ==
    ASSUME IInv, Live, NEW t \in TreeType,
           t.total_claimed = tree.total_claimed, t.total_supply = tree.total_supply,
           t.cancelled_at # None => ~t.paused,
           tree' = t, rotated' \in BOOLEAN,
           UNCHANGED <<now, vault, lamports, record, creations, paid, deposited,
                       paidOut, returned, archived, disturbed>>
    PROVE  IInv'
<1>1. TypeOK'
  BY DEF IInv, TypeOK
<1>2. BooksMatchBank' /\ SupplyCap' /\ CancelledNotPaused'
  BY DEF IInv, BooksMatchBank, SupplyCap, CancelledNotPaused, Live, Cancelled
<1> QED BY <1>1, <1>2 DEF IInv

LEMMA CancelCampaignStep ==
    ASSUME IInv, NEW signer \in Keys, CancelCampaign(signer)
    PROVE  IInv'
<1> DEFINE t == [tree EXCEPT !.cancelled_at = now, !.paused = FALSE]
<1>1. Live /\ tree' = t
        /\ UNCHANGED <<now, vault, lamports, record, history>>
  BY DEF CancelCampaign, MayCancel
<1>2. tree \in TreeType /\ now \in Nat /\ rotated \in BOOLEAN
  BY <1>1, BoundsAssumption DEF IInv, TypeOK, Live
<1>3. t \in TreeType /\ t.total_claimed = tree.total_claimed
        /\ t.total_supply = tree.total_supply /\ ~t.paused
  BY <1>2 DEF TreeType
<1> HIDE DEF t
<1> QED BY <1>1, <1>2, <1>3, TreeOnlyStep DEF history

LEMMA UpdateRootStep ==
    ASSUME IInv, NEW signer \in Keys, NEW args \in RootArgs, UpdateRoot(signer, args)
    PROVE  IInv'
<1> DEFINE t == [tree EXCEPT !.root = args.root, !.leaf_count = args.leaf_count,
                             !.min_cliff_time = args.min_cliff_time]
<1>1. Live /\ ~Cancelled /\ tree' = t /\ rotated' = TRUE
        /\ UNCHANGED <<now, vault, lamports, record, creations, paid, deposited,
                       paidOut, returned, archived, disturbed>>
  BY DEF UpdateRoot, MayCancel, Rotated
<1>2. tree \in TreeType
  BY <1>1 DEF IInv, TypeOK, Live
<1>3. args.root \in SUBSET Leaves /\ args.leaf_count \in Nat /\ args.min_cliff_time \in Int
  BY ArgsAssumption
<1>4. t \in TreeType /\ t.total_claimed = tree.total_claimed
        /\ t.total_supply = tree.total_supply /\ t.cancelled_at = None
  BY <1>1, <1>2, <1>3 DEF TreeType, Cancelled
<1> HIDE DEF t
<1> QED BY <1>1, <1>4, TreeOnlyStep

LEMMA PauseStep ==
    ASSUME IInv, NEW signer \in Keys, PauseCampaign(signer) \/ UnpauseCampaign(signer)
    PROVE  IInv'
<1>1. PICK p \in BOOLEAN :
        /\ Live /\ ~Cancelled /\ tree' = [tree EXCEPT !.paused = p]
        /\ UNCHANGED <<now, vault, lamports, record, history>>
  BY DEF PauseCampaign, UnpauseCampaign, MayPause
<1> DEFINE t == [tree EXCEPT !.paused = p]
<1>2. tree \in TreeType /\ rotated \in BOOLEAN
  BY <1>1 DEF IInv, TypeOK, Live
<1>3. t \in TreeType /\ t.total_claimed = tree.total_claimed
        /\ t.total_supply = tree.total_supply /\ t.cancelled_at = None
  BY <1>1, <1>2 DEF TreeType, Cancelled
<1>4. tree' = t
  BY <1>1
<1> HIDE DEF t
<1> QED BY <1>1, <1>2, <1>3, <1>4, TreeOnlyStep DEF history

LEMMA SetMilestoneReleasedStep ==
    ASSUME IInv, NEW signer \in Keys, NEW idx \in MilestoneIdx,
           SetMilestoneReleased(signer, idx)
    PROVE  IInv'
<1> DEFINE t == [tree EXCEPT !.released = @ \cup {idx}]
<1>1. Live /\ tree' = t /\ UNCHANGED <<now, vault, lamports, record, history>>
  BY DEF SetMilestoneReleased
<1>2. tree \in TreeType /\ rotated \in BOOLEAN
  BY <1>1 DEF IInv, TypeOK, Live
<1>3. t \in TreeType /\ t.total_claimed = tree.total_claimed
        /\ t.total_supply = tree.total_supply
        /\ t.cancelled_at = tree.cancelled_at /\ t.paused = tree.paused
  BY <1>2 DEF TreeType
<1>4. t.cancelled_at # None => ~t.paused
  BY <1>1, <1>3 DEF IInv, CancelledNotPaused, Cancelled
<1> HIDE DEF t
<1> QED BY <1>1, <1>2, <1>3, <1>4, TreeOnlyStep DEF history

(* What goes back to the creator leaves the vault, and never the rent.     *)
LEMMA ReturnBalanceBooks ==
    ASSUME TypeOK, Live, ReturnBalance, lamports >= Rent
    PROVE  /\ vault' \in Nat /\ lamports' \in Nat /\ returned' \in Nat
           /\ vault' + lamports' + paidOut + returned' = vault + lamports + paidOut + returned
           /\ lamports' >= Rent
<1>1. vault \in Nat /\ lamports \in Nat /\ returned \in Nat /\ paidOut \in Nat /\ Rent \in Nat
  BY BoundsAssumption DEF TypeOK
<1>2. Balance \in Nat /\ returned' = returned + Balance
  BY BalanceType DEF ReturnBalance
<1>3. CASE tree.native
  <2>1. lamports' = lamports - Balance /\ vault' = vault
    BY <1>3 DEF ReturnBalance
  <2>2. lamports - Balance >= Rent
    BY <1>1, <1>3 DEF Balance, SatSub
  <2> QED BY <1>1, <1>2, <2>1, <2>2
<1>4. CASE ~tree.native
  <2>1. vault' = 0 /\ lamports' = lamports /\ Balance = vault
    BY <1>4 DEF ReturnBalance, Balance
  <2> QED BY <1>1, <1>2, <2>1
<1> QED BY <1>3, <1>4

(* A sweep or a refund that leaves the tree as t. *)
LEMMA ReturnBalanceStep ==
    ASSUME IInv, Live, ReturnBalance, NEW t \in TreeType,
           t.total_claimed = tree.total_claimed, t.total_supply = tree.total_supply,
           t.cancelled_at # None => ~t.paused,
           tree' = t,
           UNCHANGED <<now, record, creations, paid, deposited, paidOut, archived,
                       disturbed, rotated>>
    PROVE  IInv'
<1>1. TypeOK /\ lamports >= Rent
  BY DEF IInv, SupplyCap
<1>2. /\ vault' \in Nat /\ lamports' \in Nat /\ returned' \in Nat
      /\ vault' + lamports' + paidOut + returned' = vault + lamports + paidOut + returned
      /\ lamports' >= Rent
  BY <1>1, ReturnBalanceBooks
<1>3. TypeOK'
  BY <1>1, <1>2 DEF TypeOK
<1>4. BooksMatchBank'
  <2>1. vault + lamports + paidOut + returned = deposited /\ paidOut = tree.total_claimed
    BY DEF IInv, BooksMatchBank
  <2>2. paidOut' = paidOut /\ deposited' = deposited
    OBVIOUS
  <2> QED BY <1>2, <2>1, <2>2 DEF BooksMatchBank
<1>5. SupplyCap' /\ CancelledNotPaused'
  BY <1>2 DEF IInv, SupplyCap, CancelledNotPaused, Live, Cancelled
<1> QED BY <1>3, <1>4, <1>5 DEF IInv

LEMMA WithdrawUnvestedStep ==
    ASSUME IInv, NEW signer \in Keys, WithdrawUnvested(signer)
    PROVE  IInv'
<1>1. Live /\ ReturnBalance /\ tree' = tree
        /\ UNCHANGED <<now, record, creations, paid, deposited, paidOut, archived,
                       disturbed, rotated>>
  BY DEF WithdrawUnvested
<1>2. tree \in TreeType /\ (tree.cancelled_at # None => ~tree.paused)
  BY <1>1 DEF IInv, TypeOK, Live, CancelledNotPaused, Cancelled
<1> QED BY <1>1, <1>2, ReturnBalanceStep

LEMMA InstantRefundStep ==
    ASSUME IInv, NEW signer \in Keys, InstantRefundCampaign(signer)
    PROVE  IInv'
<1> DEFINE t == [tree EXCEPT !.cancelled_at = now, !.paused = FALSE,
                             !.instant_refunded = TRUE]
<1>1. Live /\ ReturnBalance /\ tree' = t
        /\ UNCHANGED <<now, record, creations, paid, deposited, paidOut, archived,
                       disturbed, rotated>>
  BY DEF InstantRefundCampaign
<1>2. tree \in TreeType /\ now \in Nat
  BY <1>1, BoundsAssumption DEF IInv, TypeOK, Live
<1>3. t \in TreeType /\ t.total_claimed = tree.total_claimed
        /\ t.total_supply = tree.total_supply /\ ~t.paused
  BY <1>2 DEF TreeType
<1> HIDE DEF t
<1> QED BY <1>1, <1>3, ReturnBalanceStep

LEMMA CloseClaimRecordStep ==
    ASSUME IInv, NEW b \in Beneficiaries, CloseClaimRecord(b)
    PROVE  IInv'
<1>1. /\ record[b] # NoRecord
      /\ record' = [record EXCEPT ![b] = NoRecord]
      /\ archived' = archived + record[b].claimed_amount
      /\ disturbed' = disturbed \cup {b}
      /\ UNCHANGED <<now, tree, vault, lamports, creations, paid, deposited,
                     paidOut, returned, rotated>>
  BY DEF CloseClaimRecord
<1>2. record[b].claimed_amount \in Nat
  BY <1>1, BoundsAssumption DEF IInv, TypeOK, RecordType
<1>3. record' \in [Beneficiaries -> RecordType \cup {NoRecord}]
  BY <1>1 DEF IInv, TypeOK
<1>4. TypeOK'
  BY <1>1, <1>2, <1>3 DEF IInv, TypeOK
<1>5. BooksMatchBank' /\ SupplyCap' /\ CancelledNotPaused'
  BY <1>1 DEF IInv, BooksMatchBank, SupplyCap, CancelledNotPaused, Live, Cancelled
<1> QED BY <1>4, <1>5 DEF IInv

LEMMA DueAtCancelType ==
    ASSUME TypeOK, NEW leaf \in Leaves, NEW cr \in RecordType
    PROVE  DueAtCancel(cr, leaf) \in Nat
<1>1. cr.claimed_amount \in Nat
  BY BoundsAssumption DEF RecordType
<1>2. now \in Int
  BY DEF TypeOK
<1>3. Vested(leaf, now) \in Nat
  BY <1>2, VestedType, LeafFacts
<1>4. SatSub(Vested(leaf, now), cr.claimed_amount) \in Nat
  BY <1>1, <1>3 DEF SatSub
<1>5. SatSub(leaf.amount, cr.claimed_amount) \in Nat
  BY <1>1, LeafFacts DEF SatSub
<1> QED BY <1>4, <1>5 DEF DueAtCancel

LEMMA CancelStreamStep ==
    ASSUME IInv, NEW signer \in Keys, NEW leaf \in Leaves, CancelStream(signer, leaf)
    PROVE  IInv'
<1> DEFINE cr  == LoadForStream(leaf)
           due == DueAtCancel(cr, leaf)
           t   == [Booked(due) EXCEPT !.cancelled_at = now, !.paused = FALSE]
<1>1. TypeOK /\ Live /\ lamports >= Rent
  BY DEF IInv, SupplyCap, CancelStream, DrainTree, DrainVault
<1>2. /\ ~FullyPaid
      /\ Balance >= due
      /\ due > 0 => /\ cr.claimed_amount + due <= U64Max
                    /\ tree.total_claimed + due <= tree.total_supply
      /\ record' = [record EXCEPT ![leaf.beneficiary] =
                       IF due > 0 THEN Credit(cr, leaf, due) ELSE cr]
      /\ paid' = [paid EXCEPT ![EntitlementOf(leaf)] = @ + due]
      /\ paidOut' = paidOut + due
      /\ IF tree.native
         THEN /\ tree' = NoTree
              /\ lamports' = 0
              /\ returned' = returned + (lamports - due)
              /\ UNCHANGED vault
         ELSE /\ tree' = t
              /\ vault' = 0
              /\ returned' = returned + (vault - due)
              /\ UNCHANGED lamports
      /\ UNCHANGED <<now, creations, deposited, archived, disturbed, rotated>>
  BY DEF CancelStream, DrainTree, DrainVault
<1>3. cr \in RecordType
  BY <1>1, LoadForStreamType
<1>4. due \in Nat
  <2> HIDE DEF cr
  <2> QED BY <1>1, <1>3, DueAtCancelType
<1>5. vault \in Nat /\ lamports \in Nat /\ paidOut \in Nat /\ returned \in Nat
        /\ now \in Nat /\ tree \in TreeType
        /\ tree.total_claimed \in Nat /\ tree.total_supply \in Nat
  BY <1>1, BalanceType, BoundsAssumption DEF TypeOK
<1>6. tree.total_claimed + due \in 0 .. tree.total_supply
  <2> HIDE DEF due
  <2> QED BY <1>2, <1>4, <1>5 DEF FullyPaid
<1>7. /\ t \in TreeType /\ t.total_claimed = tree.total_claimed + due
      /\ t.total_supply = tree.total_supply /\ ~t.paused
  <2> HIDE DEF due
  <2>1. tree.total_claimed + due \in U64
    BY <1>5, <1>6, BoundsAssumption DEF TreeType
  <2> QED BY <1>5, <2>1 DEF TreeType, Booked
<1>8. record' \in [Beneficiaries -> RecordType \cup {NoRecord}]
  <2> HIDE DEF cr, due
  <2>1. (IF due > 0 THEN Credit(cr, leaf, due) ELSE cr) \in RecordType
    BY <1>2, <1>3, <1>4, CreditType
  <2> QED BY <1>1, <1>2, <2>1 DEF TypeOK
<1>9. paid' \in [Entitlements -> Nat]
  <2> HIDE DEF due
  <2> QED BY <1>1, <1>2, <1>4, LeafFacts DEF TypeOK
<1> HIDE DEF cr, due, t
<1>10. CASE tree.native
  <2>1. lamports - due \in Nat
    BY <1>2, <1>4, <1>5, <1>10, <1>1, BalanceType
  <2>2. vault' = vault /\ lamports' = 0 /\ returned' = returned + (lamports - due)
          /\ tree' = NoTree
    BY <1>2, <1>10
  <2>3. TypeOK'
    BY <1>1, <1>2, <1>4, <1>5, <1>8, <1>9, <2>1, <2>2 DEF TypeOK
  <2>4. BooksMatchBank' /\ SupplyCap' /\ CancelledNotPaused'
    BY <1>2, <1>4, <1>5, <2>2
       DEF IInv, BooksMatchBank, SupplyCap, CancelledNotPaused, Live
  <2> QED BY <2>3, <2>4 DEF IInv
<1>11. CASE ~tree.native
  <2>1. vault - due \in Nat
    BY <1>2, <1>4, <1>5, <1>11, <1>1, BalanceType
  <2>2. vault' = 0 /\ lamports' = lamports /\ returned' = returned + (vault - due)
          /\ tree' = t
    BY <1>2, <1>11
  <2>3. TypeOK'
    BY <1>1, <1>2, <1>4, <1>5, <1>7, <1>8, <1>9, <2>1, <2>2 DEF TypeOK
  <2>4. BooksMatchBank'
    BY <1>1, <1>2, <1>4, <1>5, <1>7, <2>2 DEF IInv, BooksMatchBank
  <2>5. SupplyCap' /\ CancelledNotPaused'
    BY <1>1, <1>6, <1>7, <2>2 DEF SupplyCap, CancelledNotPaused
  <2> QED BY <2>3, <2>4, <2>5 DEF IInv
<1> QED BY <1>10, <1>11
-----------------------------------------------------------------------------
LEMMA NextInv == IInv /\ [Next]_vars => IInv'
<1> SUFFICES ASSUME IInv, [Next]_vars PROVE IInv'
  OBVIOUS
<1>1. CASE Tick
  <2>1. TypeOK'
    BY <1>1, BoundsAssumption DEF Tick, IInv, TypeOK, accounts, history
  <2> QED BY <1>1, <2>1 DEF Tick, IInv, BooksMatchBank, SupplyCap, CancelledNotPaused,
                           Live, Cancelled, accounts, history
<1>2. CASE UNCHANGED vars
  BY <1>2 DEF vars, accounts, history, IInv, TypeOK, BooksMatchBank, SupplyCap,
              CancelledNotPaused, Live, Cancelled
<1>3. CASE \E args \in CampaignArgs : CreateCampaign(args)
  BY <1>3, CreateCampaignStep
<1>4. CASE \E args \in StreamArgs : CreateStream(args)
  BY <1>4, CreateStreamStep
<1>5. CASE \E amount \in FundAmounts : FundCampaign(amount) \/ FundCampaignNative(amount)
  BY <1>5, FundCampaignStep
<1>6. CASE \E leaf \in Leaves : Claim(leaf)
  BY <1>6, ClaimStep
<1>7. CASE \E leaf \in Leaves : Withdraw(leaf)
  BY <1>7, WithdrawStep
<1>8. CASE \E signer \in Keys : CancelCampaign(signer)
  BY <1>8, CancelCampaignStep
<1>9. CASE \E signer \in Keys, leaf \in Leaves : CancelStream(signer, leaf)
  BY <1>9, CancelStreamStep
<1>10. CASE \E signer \in Keys, args \in RootArgs : UpdateRoot(signer, args)
  BY <1>10, UpdateRootStep
<1>11. CASE \E signer \in Keys : PauseCampaign(signer) \/ UnpauseCampaign(signer)
  BY <1>11, PauseStep
<1>12. CASE \E signer \in Keys, idx \in MilestoneIdx : SetMilestoneReleased(signer, idx)
  BY <1>12, SetMilestoneReleasedStep
<1>13. CASE \E signer \in Keys : WithdrawUnvested(signer)
  BY <1>13, WithdrawUnvestedStep
<1>14. CASE \E signer \in Keys : InstantRefundCampaign(signer)
  BY <1>14, InstantRefundStep
<1>15. CASE \E b \in Beneficiaries : CloseClaimRecord(b)
  BY <1>15, CloseClaimRecordStep
<1> QED BY <1>1, <1>2, <1>3, <1>4, <1>5, <1>6, <1>7, <1>8, <1>9, <1>10, <1>11,
           <1>12, <1>13, <1>14, <1>15 DEF Next

(* The inductive invariant holds of every campaign: types, books, cap, and *)
(* no pause after a cancellation.                                          *)
THEOREM InductiveInvariant == Spec => []IInv
BY InitInv, NextInv, PTL DEF Spec

(* Every account and every counter keeps its type: no sum of the program   *)
(* leaves u64, whatever is claimed, rotated, cancelled or closed.          *)
THEOREM TypeCorrect == Spec => []TypeOK
<1>1. IInv => TypeOK
  BY DEF IInv
<1> QED BY <1>1, InductiveInvariant, PTL

(* The vault and the books agree in every campaign: nothing is created or  *)
(* lost, and total_claimed is what the beneficiaries received.             *)
THEOREM BooksAlwaysMatch == Spec => []BooksMatchBank
<1>1. IInv => BooksMatchBank
  BY DEF IInv
<1> QED BY <1>1, InductiveInvariant, PTL

(* No mixture of claims, withdrawals, rotations and cancellations pays out *)
(* more than total_supply.                                                 *)
THEOREM SupplyNeverExceeded == Spec => []SupplyCap
<1>1. IInv => SupplyCap
  BY DEF IInv
<1> QED BY <1>1, InductiveInvariant, PTL
-----------------------------------------------------------------------------
(* ------------------ what a step may never do ------------------ *)

(* A payment is booked on the tree, or it is the last and the tree goes.   *)
LEMMA PayOutTree ==
    ASSUME NEW leaf, NEW cr, NEW amount, PayOut(cr, leaf, amount)
    PROVE  /\ tree' = Booked(amount) \/ tree' = NoTree
           /\ deposited' = deposited
BY DEF PayOut, PayBeneficiary, PayLamports, PayTokens

LEMMA ClaimTree ==
    ASSUME NEW leaf, Claim(leaf) \/ Withdraw(leaf)
    PROVE  /\ Live /\ NotBlocked
           /\ (\E amount : tree' = Booked(amount)) \/ tree' = NoTree
           /\ deposited' = deposited
<1>1. CASE Claim(leaf)
  <2> DEFINE cr     == CountLeaf(LoadForClaim(leaf), leaf)
             amount == ClaimableByClaim(cr, leaf)
  <2>1. Live /\ NotBlocked /\ PayOut(cr, leaf, amount)
    BY <1>1 DEF Claim
  <2> HIDE DEF cr, amount
  <2> QED BY <2>1, PayOutTree
<1>2. CASE Withdraw(leaf)
  <2> DEFINE cr     == LoadForStream(leaf)
             amount == ClaimableByWithdraw(cr, leaf)
  <2>1. Live /\ NotBlocked /\ PayOut(cr, leaf, amount)
    BY <1>2 DEF Withdraw
  <2> HIDE DEF cr, amount
  <2> QED BY <2>1, PayOutTree
<1> QED BY <1>1, <1>2

(* The steps that a cancellation rules out. *)
LEMMA NotAfterCancel ==
    ASSUME Live, Cancelled
    PROVE  /\ \A args : ~CreateCampaign(args) /\ ~CreateStream(args)
           /\ \A amount : ~FundCampaign(amount) /\ ~FundCampaignNative(amount)
           /\ \A signer : /\ ~CancelCampaign(signer) /\ ~InstantRefundCampaign(signer)
                          /\ ~PauseCampaign(signer) /\ ~UnpauseCampaign(signer)
           /\ \A signer, leaf : ~CancelStream(signer, leaf)
           /\ \A signer, args : ~UpdateRoot(signer, args)
<1>1. \A args : ~CreateCampaign(args) /\ ~CreateStream(args)
  BY DEF CreateCampaign, CreateStream, Open, Live
<1>2. \A amount : ~FundCampaign(amount) /\ ~FundCampaignNative(amount)
  BY DEF FundCampaign, FundCampaignNative
<1>3. \A signer : /\ ~CancelCampaign(signer) /\ ~InstantRefundCampaign(signer)
                  /\ ~PauseCampaign(signer) /\ ~UnpauseCampaign(signer)
  BY DEF CancelCampaign, MayCancel, InstantRefundCampaign, PauseCampaign,
         UnpauseCampaign, MayPause
<1>4. \A signer, leaf : ~CancelStream(signer, leaf)
  BY DEF CancelStream
<1>5. \A signer, args : ~UpdateRoot(signer, args)
  BY DEF UpdateRoot, MayCancel
<1> QED BY <1>1, <1>2, <1>3, <1>4, <1>5

(* A cancellation is final (CancelIsFinal): its time, the root and the     *)
(* lifted pause stay, and no funds are added.                              *)
THEOREM CancellationIsFinal == Spec => CancelIsFinal
<1> DEFINE Final == SameTree /\ Cancelled =>
                      /\ tree'.cancelled_at = tree.cancelled_at
                      /\ tree'.root = tree.root
                      /\ ~tree'.paused
                      /\ deposited' = deposited
<1>1. ASSUME IInv, [Next]_vars PROVE Final
  <2> SUFFICES ASSUME SameTree, Cancelled
               PROVE  /\ tree'.cancelled_at = tree.cancelled_at
                      /\ tree'.root = tree.root
                      /\ ~tree'.paused
                      /\ deposited' = deposited
    OBVIOUS
  <2>1. Live /\ tree' # NoTree
    BY DEF SameTree
  <2>2. tree \in TreeType /\ ~tree.paused
    BY <1>1, <2>1 DEF IInv, TypeOK, CancelledNotPaused, Live
  <2>3. CASE tree' = tree /\ deposited' = deposited
    BY <2>2, <2>3
  <2>4. CASE Tick \/ UNCHANGED vars
    BY <2>3, <2>4 DEF Tick, vars, accounts, history
  <2>5. CASE \E leaf \in Leaves : Claim(leaf) \/ Withdraw(leaf)
    <3>1. PICK amount : tree' = Booked(amount)
      BY <2>1, <2>5, ClaimTree
    <3>2. deposited' = deposited
      BY <2>5, ClaimTree
    <3> QED BY <2>2, <3>1, <3>2 DEF Booked, TreeType
  <2>6. CASE \E signer \in Keys, idx \in MilestoneIdx : SetMilestoneReleased(signer, idx)
    BY <2>2, <2>6 DEF SetMilestoneReleased, history, TreeType
  <2>7. CASE \E signer \in Keys : WithdrawUnvested(signer)
    BY <2>3, <2>7 DEF WithdrawUnvested
  <2>8. CASE \E b \in Beneficiaries : CloseClaimRecord(b)
    BY <2>3, <2>8 DEF CloseClaimRecord
  <2> QED BY <1>1, <2>1, <2>4, <2>5, <2>6, <2>7, <2>8, NotAfterCancel DEF Next
<1>2. IInv /\ [Next]_vars => [Final]_vars
  BY <1>1
<1> QED BY <1>2, InductiveInvariant, PTL DEF Spec, CancelIsFinal

(* While a campaign is paused nothing leaves it but by a step that cancels *)
(* it (PauseHolds).                                                        *)
THEOREM PauseAlwaysHolds == Spec => PauseHolds
<1> DEFINE Held == Live /\ tree.paused /\ vault' + lamports' < vault + lamports =>
                     tree' = NoTree \/ tree'.cancelled_at # None
<1>1. ASSUME IInv, [Next]_vars PROVE Held
  <2> SUFFICES ASSUME Live, tree.paused, vault' + lamports' < vault + lamports
               PROVE  tree' = NoTree \/ tree'.cancelled_at # None
    OBVIOUS
  <2>1. tree \in TreeType /\ ~Cancelled
    BY <1>1 DEF IInv, TypeOK, CancelledNotPaused, Live
  <2>2. now \in Int /\ vault \in Nat /\ lamports \in Nat
    BY <1>1, BoundsAssumption DEF IInv, TypeOK
  <2>3. ~(vault' = vault /\ lamports' = lamports)
    BY <2>2
  <2>4. CASE Tick \/ UNCHANGED vars
    BY <2>3, <2>4 DEF Tick, vars, accounts, history
  <2>5. CASE \E args : CreateCampaign(args) \/ CreateStream(args)
    BY <2>5 DEF CreateCampaign, CreateStream, Open, Live
  <2>6. CASE \E amount \in FundAmounts : FundCampaign(amount) \/ FundCampaignNative(amount)
    <3>1. PICK amount \in FundAmounts : FundCampaign(amount) \/ FundCampaignNative(amount)
      BY <2>6
    <3>2. amount \in Nat
      BY BoundsAssumption DEF U64
    <3>3. vault' + lamports' = vault + lamports + amount
      BY <2>2, <3>1, <3>2 DEF FundCampaign, FundCampaignNative
    <3> QED BY <2>2, <3>2, <3>3
  <2>7. CASE \E leaf \in Leaves : Claim(leaf) \/ Withdraw(leaf)
    <3>1. NotBlocked
      BY <2>7, ClaimTree
    <3> QED BY <2>1, <3>1 DEF NotBlocked
  <2>8. CASE \E signer \in Keys : CancelCampaign(signer) \/ PauseCampaign(signer)
                                  \/ UnpauseCampaign(signer)
    BY <2>3, <2>8 DEF CancelCampaign, PauseCampaign, UnpauseCampaign
  <2>9. CASE \E signer \in Keys, leaf \in Leaves : CancelStream(signer, leaf)
    <3>1. PICK signer \in Keys, leaf \in Leaves : CancelStream(signer, leaf)
      BY <2>9
    <3> DEFINE due == DueAtCancel(LoadForStream(leaf), leaf)
    <3>2. \/ tree' = NoTree
          \/ tree' = [Booked(due) EXCEPT !.cancelled_at = now, !.paused = FALSE]
      BY <3>1 DEF CancelStream, DrainTree, DrainVault
    <3> HIDE DEF due
    <3> QED BY <2>1, <2>2, <3>2, AbsenceAssumption DEF Booked, TreeType
  <2>10. CASE \/ \E signer \in Keys, args \in RootArgs : UpdateRoot(signer, args)
              \/ \E signer \in Keys, idx \in MilestoneIdx : SetMilestoneReleased(signer, idx)
              \/ \E b \in Beneficiaries : CloseClaimRecord(b)
    BY <2>3, <2>10 DEF UpdateRoot, SetMilestoneReleased, CloseClaimRecord
  <2>11. CASE \E signer \in Keys : WithdrawUnvested(signer)
    BY <2>1, <2>11 DEF WithdrawUnvested, GraceOver
  <2>12. CASE \E signer \in Keys : InstantRefundCampaign(signer)
    BY <2>1, <2>2, <2>12, AbsenceAssumption DEF InstantRefundCampaign, TreeType
  <2> QED BY <1>1, <2>4, <2>5, <2>6, <2>7, <2>8, <2>9, <2>10, <2>11, <2>12 DEF Next
<1>2. IInv /\ [Next]_vars => [Held]_vars
  BY <1>1
<1> QED BY <1>2, InductiveInvariant, PTL DEF Spec, PauseHolds

(* Pause and cancellation hold together (StopsHold). *)
THEOREM StopsAlwaysHold == Spec => StopsHold
BY CancellationIsFinal, PauseAlwaysHolds DEF StopsHold
-----------------------------------------------------------------------------
(* ------------------------ the escrow ------------------------ *)

(* What the mapping shows of a tree that exists. *)
LEMMA BarFacts ==
    ASSUME TypeOK, Live
    PROVE  /\ phaseBar = IF Cancelled THEN "frozen" ELSE "open"
           /\ capBar = tree.total_supply /\ heldBar = Balance
           /\ releasedBar = tree.total_claimed /\ frozenAtBar = tree.cancelled_at
           /\ capBar \in Nat /\ heldBar \in Nat /\ releasedBar \in Nat
           /\ Cancelled => frozenAtBar \in Nat
BY BalanceType DEF phaseBar, capBar, heldBar, releasedBar, frozenAtBar, TypeOK,
                   TreeType, Cancelled

(* And of the tree a step leaves. *)
LEMMA BarFactsAfter ==
    ASSUME NEW t \in TreeType, tree' = t
    PROVE  /\ phaseBar' = IF t.cancelled_at # None THEN "frozen" ELSE "open"
           /\ capBar' = t.total_supply /\ releasedBar' = t.total_claimed
           /\ frozenAtBar' = t.cancelled_at
           /\ heldBar' = IF t.native THEN SatSub(lamports', Rent) ELSE vault'
BY AbsenceAssumption
   DEF phaseBar, capBar, heldBar, releasedBar, frozenAtBar, Live, Cancelled, Balance

LEMMA BarNone ==
    ASSUME tree' = NoTree
    PROVE  E!Forget
BY DEF phaseBar, capBar, heldBar, releasedBar, frozenAtBar, Live, E!Forget

(* A step that leaves the tree, the money and the clock alone is none of   *)
(* the escrow's.                                                           *)
LEMMA NoStep ==
    ASSUME UNCHANGED <<now, tree, vault, lamports, returned>>
    PROVE  UNCHANGED E!vars
BY DEF E!vars, phaseBar, capBar, heldBar, releasedBar, frozenAtBar, Live, Cancelled,
       Balance

(* Nor is one that changes nothing the escrow shows of the tree.           *)
LEMMA NoStepButTree ==
    ASSUME TypeOK, Live, NEW t \in TreeType, tree' = t,
           t.native = tree.native, t.total_supply = tree.total_supply,
           t.total_claimed = tree.total_claimed, t.cancelled_at = tree.cancelled_at,
           UNCHANGED <<now, vault, lamports, returned>>
    PROVE  UNCHANGED E!vars
<1>1. /\ phaseBar' = phaseBar /\ capBar' = capBar /\ heldBar' = heldBar
      /\ releasedBar' = releasedBar /\ frozenAtBar' = frozenAtBar
  BY BarFacts, BarFactsAfter DEF Cancelled, Balance
<1> QED BY <1>1 DEF E!vars
-----------------------------------------------------------------------------
LEMMA OpenRefines ==
    ASSUME TypeOK, NEW t \in TreeType, NEW amount \in Nat, Open(t, amount),
           t.total_claimed = 0, t.cancelled_at = None, t.total_supply > 0,
           amount <= t.total_supply
    PROVE  E!Open
<1>1. /\ tree = NoTree /\ tree' = t
      /\ vault' = IF t.native THEN 0 ELSE amount
      /\ lamports' = Rent + (IF t.native THEN amount ELSE 0)
      /\ returned' = 0 /\ now' = now
  BY DEF Open
<1>2. t.total_supply \in Nat \ {0}
  BY BoundsAssumption DEF TreeType, U64
<1>3. heldBar' = amount
  BY <1>1, BarFactsAfter, BoundsAssumption DEF SatSub
<1>4. phaseBar = "none" /\ phaseBar' = "open" /\ capBar' = t.total_supply
        /\ releasedBar' = 0 /\ frozenAtBar' = None
  BY <1>1, BarFactsAfter DEF phaseBar, Live
<1> QED BY <1>1, <1>2, <1>3, <1>4 DEF E!Open

LEMMA CreateRefines ==
    ASSUME IInv, \/ \E args \in CampaignArgs : CreateCampaign(args)
                 \/ \E args \in StreamArgs : CreateStream(args)
    PROVE  E!Open
<1>0. TypeOK
  BY DEF IInv
<1>1. CASE \E args \in CampaignArgs : CreateCampaign(args)
  <2>1. PICK args \in CampaignArgs : CreateCampaign(args)
    BY <1>1
  <2> DEFINE t == [native |-> args.native, root |-> args.root,
             leaf_count |-> args.leaf_count, total_supply |-> args.total_supply,
             total_claimed |-> 0, cancellable |-> args.cancellable,
             cancel_authority |-> args.cancel_authority, cancelled_at |-> None,
             paused |-> FALSE, pause_authority |-> args.pause_authority,
             released |-> {}, min_cliff_time |-> args.min_cliff_time,
             instant_refunded |-> FALSE]
  <2>2. t \in TreeType
    BY ArgsAssumption, BoundsAssumption DEF TreeType, U64
  <2>3. t.total_claimed = 0 /\ t.cancelled_at = None /\ t.total_supply > 0
    BY <2>1 DEF CreateCampaign
  <2>4. Open(t, 0)
    BY <2>1 DEF CreateCampaign
  <2> HIDE DEF t
  <2>5. 0 <= t.total_supply
    BY <2>2, BoundsAssumption DEF TreeType, U64
  <2> QED BY <1>0, <2>2, <2>3, <2>4, <2>5, OpenRefines
<1>2. CASE \E args \in StreamArgs : CreateStream(args)
  <2>1. PICK args \in StreamArgs : CreateStream(args)
    BY <1>2
  <2> DEFINE t == [native |-> args.native, root |-> {args.leaf},
             leaf_count |-> 1, total_supply |-> args.leaf.amount,
             total_claimed |-> 0, cancellable |-> args.cancellable,
             cancel_authority |-> args.cancel_authority, cancelled_at |-> None,
             paused |-> FALSE, pause_authority |-> args.pause_authority,
             released |-> {}, min_cliff_time |-> 0,
             instant_refunded |-> FALSE]
  <2>2. args.leaf \in Leaves /\ args.leaf.amount \in U64 /\ args.leaf.amount \in Nat
    BY ArgsAssumption, LeafFacts, LeavesAssumption DEF LeafType
  <2>3. t \in TreeType
    BY <2>2, ArgsAssumption, BoundsAssumption DEF TreeType, U64
  <2>4. t.total_claimed = 0 /\ t.cancelled_at = None /\ t.total_supply > 0
          /\ t.total_supply = args.leaf.amount
    BY <2>1 DEF CreateStream, StreamTree
  <2>5. Open(t, args.leaf.amount)
    BY <2>1 DEF CreateStream, StreamTree
  <2> HIDE DEF t
  <2> QED BY <1>0, <2>2, <2>3, <2>4, <2>5, OpenRefines
<1> QED BY <1>1, <1>2

LEMMA FundRefines ==
    ASSUME IInv, NEW amount \in FundAmounts,
           FundCampaign(amount) \/ FundCampaignNative(amount)
    PROVE  E!Deposit \/ UNCHANGED E!vars
<1>1. TypeOK /\ Live /\ lamports >= Rent
  BY DEF IInv, SupplyCap, FundCampaign, FundCampaignNative
<1>2. amount \in Nat /\ amount > 0 /\ ~Cancelled /\ tree' = tree
        /\ now' = now /\ returned' = returned
  BY BoundsAssumption DEF U64, FundCampaign, FundCampaignNative
<1>3. /\ phaseBar = "open" /\ phaseBar' = phaseBar /\ capBar' = capBar
      /\ releasedBar' = releasedBar /\ frozenAtBar' = frozenAtBar
      /\ capBar = tree.total_supply
  BY <1>1, <1>2, BarFacts DEF phaseBar, capBar, releasedBar, frozenAtBar, Live, Cancelled
<1>4. vault \in Nat /\ lamports \in Nat /\ Rent \in Nat
  BY <1>1, BoundsAssumption DEF TypeOK
<1>5. heldBar = Balance /\ heldBar' = IF tree.native THEN SatSub(lamports', Rent) ELSE vault'
  BY <1>1, <1>2, BarFacts DEF heldBar, Live, Balance
<1>6. CASE FundCampaign(amount)
  <2>1. heldBar' = heldBar + amount /\ heldBar' <= capBar /\ heldBar \in Nat
    BY <1>3, <1>4, <1>5, <1>6 DEF FundCampaign, Balance
  <2>2. heldBar < heldBar'
    BY <1>2, <2>1
  <2> QED BY <1>2, <1>3, <2>1, <2>2 DEF E!Deposit
<1>7. CASE FundCampaignNative(amount)
  <2>1. lamports' = lamports + amount /\ vault' = vault
          /\ SatSub(lamports, Rent) + amount <= tree.total_supply
    BY <1>7 DEF FundCampaignNative
  <2>2. CASE tree.native
    <3>1. heldBar = SatSub(lamports, Rent) /\ heldBar' = SatSub(lamports', Rent)
      BY <1>5, <2>2 DEF Balance
    <3>2. heldBar' = heldBar + amount /\ heldBar \in Nat
      BY <1>1, <1>2, <1>4, <2>1, <3>1 DEF SatSub
    <3>3. heldBar < heldBar' /\ heldBar' <= capBar
      BY <1>2, <1>3, <2>1, <3>1, <3>2
    <3> QED BY <1>2, <1>3, <3>3 DEF E!Deposit
  <2>3. CASE ~tree.native
    <3>1. heldBar' = heldBar
      BY <1>5, <2>1, <2>3 DEF Balance
    <3> QED BY <1>2, <1>3, <3>1 DEF E!vars
  <2> QED BY <2>2, <2>3
<1> QED BY <1>6, <1>7

(* A payment is a release, and the last of a native campaign closes it.    *)
LEMMA PayOutRefines ==
    ASSUME IInv, Live, NEW leaf, NEW cr, NEW amount \in Nat, PayOut(cr, leaf, amount)
    PROVE  E!Release \/ E!ReleaseAndClose
<1> DEFINE t == Booked(amount)
<1>1. TypeOK /\ lamports >= Rent
  BY DEF IInv, SupplyCap
<1>2. amount > 0 /\ Balance >= amount /\ tree.total_claimed + amount <= tree.total_supply
  BY DEF PayOut, Payable
<1>3. PayBeneficiary(t, amount) /\ now' = now /\ returned' = returned
  BY DEF PayOut
<1>4. /\ t \in TreeType /\ t.total_claimed = tree.total_claimed + amount
      /\ t.total_supply = tree.total_supply /\ t.native = tree.native
      /\ t.cancelled_at = tree.cancelled_at
  <2>1. t = [tree EXCEPT !.total_claimed = @ + amount]
    BY DEF Booked
  <2>2. tree \in TreeType
    BY <1>1, BalanceType
  <2> HIDE DEF t
  <2>3. t \in TreeType /\ t.total_claimed = tree.total_claimed + amount
          /\ t.total_supply = tree.total_supply /\ t.native = tree.native
    BY <1>1, <1>2, <2>1, BookedTree
  <2> QED BY <2>1, <2>2, <2>3 DEF TreeType
<1> HIDE DEF t
<1>5. tree.total_claimed \in Nat /\ tree.total_supply \in Nat /\ Balance \in Nat
        /\ vault \in Nat /\ lamports \in Nat /\ Rent \in Nat
  BY <1>1, BalanceType, BoundsAssumption DEF TypeOK
<1>6. /\ phaseBar # "none" /\ capBar = tree.total_supply /\ heldBar = Balance
      /\ releasedBar = tree.total_claimed /\ frozenAtBar = tree.cancelled_at
      /\ phaseBar = IF Cancelled THEN "frozen" ELSE "open"
  BY <1>1, BarFacts
<1>7. CASE tree' = NoTree
  <2>1. t.total_claimed = t.total_supply
    BY <1>3, <1>4, <1>7, AbsenceAssumption DEF PayBeneficiary, PayLamports, PayTokens
  <2>2. releasedBar < capBar /\ capBar - releasedBar <= heldBar
    BY <1>2, <1>4, <1>5, <1>6, <2>1
  <2> QED BY <1>3, <1>6, <1>7, <2>2, BarNone DEF E!ReleaseAndClose
<1>8. CASE tree' # NoTree
  <2>1. /\ tree' = t
        /\ IF t.native THEN /\ SatSub(lamports, amount) >= Rent
                            /\ lamports' = lamports - amount
                       ELSE vault' = vault - amount
    BY <1>3, <1>8 DEF PayBeneficiary, PayLamports, PayTokens
  <2>2. /\ phaseBar' = phaseBar /\ capBar' = capBar /\ frozenAtBar' = frozenAtBar
        /\ releasedBar' = releasedBar + amount
        /\ heldBar' = IF t.native THEN SatSub(lamports', Rent) ELSE vault'
    BY <1>4, <1>6, <2>1, BarFactsAfter DEF Cancelled
  <2>3. heldBar' = heldBar - amount
    <3>1. CASE tree.native
      <4>1. Balance = lamports - Rent /\ lamports' = lamports - amount
              /\ lamports - amount >= Rent
        BY <1>1, <1>2, <1>4, <1>5, <2>1, <3>1 DEF Balance, SatSub
      <4> QED BY <1>4, <1>5, <1>6, <2>2, <3>1, <4>1 DEF SatSub
    <3>2. CASE ~tree.native
      BY <1>4, <1>6, <2>1, <2>2, <3>2 DEF Balance
    <3> QED BY <3>1, <3>2
  <2>4. /\ releasedBar < releasedBar' /\ releasedBar' <= capBar
        /\ 0 <= heldBar' /\ heldBar' + releasedBar' = heldBar + releasedBar
    BY <1>2, <1>5, <1>6, <2>2, <2>3
  <2> QED BY <1>3, <1>6, <2>2, <2>4 DEF E!Release
<1> QED BY <1>7, <1>8

LEMMA ClaimRefines ==
    ASSUME IInv, NEW leaf \in Leaves, Claim(leaf) \/ Withdraw(leaf)
    PROVE  E!Release \/ E!ReleaseAndClose
<1>0. TypeOK
  BY DEF IInv
<1>1. Live
  BY DEF Claim, Withdraw
<1>2. Effective \in Int
  BY <1>0, <1>1, EffectiveType
<1>3. Vested(leaf, Effective) \in Nat /\ leaf.amount \in Nat
  BY <1>2, VestedType, LeafFacts
<1>4. CASE Claim(leaf)
  <2> DEFINE cr     == CountLeaf(LoadForClaim(leaf), leaf)
             amount == ClaimableByClaim(cr, leaf)
  <2>1. PayOut(cr, leaf, amount) /\ cr.total_entitled <= U64Max
    BY <1>4 DEF Claim
  <2>2. LoadForClaim(leaf) \in RecordType
    BY <1>0, LoadForClaimType
  <2>3. cr \in RecordType
    BY <2>1, <2>2, CountLeafType
  <2> HIDE DEF cr
  <2>4. LeafPriorClaimed(cr, leaf.leaf_index) \in Nat
    BY <2>3, LeafFacts, LeafPriorClaimedType
  <2>5. amount \in Nat
    BY <1>3, <2>4 DEF ClaimableByClaim, SatSub
  <2> HIDE DEF amount
  <2> QED BY <1>1, <2>1, <2>5, PayOutRefines
<1>5. CASE Withdraw(leaf)
  <2> DEFINE cr     == LoadForStream(leaf)
             amount == ClaimableByWithdraw(cr, leaf)
  <2>1. PayOut(cr, leaf, amount)
    BY <1>5 DEF Withdraw
  <2>2. cr \in RecordType
    BY <1>0, LoadForStreamType
  <2> HIDE DEF cr
  <2>3. cr.claimed_amount \in Nat
    BY <2>2, BoundsAssumption DEF RecordType, U64
  <2>4. amount \in Nat
    BY <1>3, <2>3 DEF ClaimableByWithdraw, SatSub
  <2> HIDE DEF amount
  <2> QED BY <1>1, <2>1, <2>4, PayOutRefines
<1> QED BY <1>4, <1>5

LEMMA CancelCampaignRefines ==
    ASSUME IInv, NEW signer, CancelCampaign(signer)
    PROVE  E!Freeze
<1> DEFINE t == [tree EXCEPT !.cancelled_at = now, !.paused = FALSE]
<1>1. TypeOK /\ Live /\ ~Cancelled /\ tree' = t
        /\ UNCHANGED <<now, vault, lamports, returned>>
  BY DEF IInv, CancelCampaign, MayCancel, history
<1>2. tree \in TreeType /\ now \in Nat
  BY <1>1, BoundsAssumption DEF TypeOK, Live
<1>3. /\ t \in TreeType /\ t.cancelled_at = now /\ t.native = tree.native
      /\ t.total_supply = tree.total_supply /\ t.total_claimed = tree.total_claimed
  BY <1>2 DEF TreeType
<1>4. now # None
  BY <1>2, AbsenceAssumption
<1> HIDE DEF t
<1>5. /\ phaseBar = "open" /\ phaseBar' = "frozen" /\ capBar' = capBar
      /\ heldBar' = heldBar /\ releasedBar' = releasedBar /\ frozenAtBar' = now
  BY <1>1, <1>3, <1>4, BarFacts, BarFactsAfter DEF Balance
<1> QED BY <1>1, <1>5 DEF E!Freeze

(* What goes back to the creator in full leaves nothing behind. *)
LEMMA ReturnEmpties ==
    ASSUME TypeOK, Live, ReturnBalance, lamports >= Rent
    PROVE  /\ Balance > 0 /\ returned' = returned + Balance
           /\ (IF tree.native THEN SatSub(lamports', Rent) ELSE vault') = 0
<1>1. vault \in Nat /\ lamports \in Nat /\ Rent \in Nat
  BY BoundsAssumption DEF TypeOK
<1> QED BY <1>1 DEF ReturnBalance, Balance, SatSub

LEMMA WithdrawUnvestedRefines ==
    ASSUME IInv, NEW signer, WithdrawUnvested(signer)
    PROVE  E!Reclaim
<1>1. TypeOK /\ Live /\ lamports >= Rent /\ ReturnBalance /\ GraceOver
        /\ tree' = tree /\ now' = now
  BY DEF IInv, SupplyCap, WithdrawUnvested
<1>2. tree \in TreeType
  BY <1>1, BalanceType
<1>3. /\ Balance > 0 /\ returned' = returned + Balance
      /\ (IF tree.native THEN SatSub(lamports', Rent) ELSE vault') = 0
  BY <1>1, ReturnEmpties
<1>4. /\ phaseBar = "frozen" /\ phaseBar' = phaseBar /\ capBar' = capBar
      /\ heldBar = Balance /\ heldBar' = 0 /\ releasedBar' = releasedBar
      /\ frozenAtBar' = frozenAtBar /\ frozenAtBar = tree.cancelled_at
  BY <1>1, <1>2, <1>3, BarFacts, BarFactsAfter DEF GraceOver, Cancelled
<1>5. now >= frozenAtBar + GracePeriod
  BY <1>1, <1>4 DEF GraceOver
<1> QED BY <1>1, <1>3, <1>4, <1>5 DEF E!Reclaim

LEMMA InstantRefundRefines ==
    ASSUME IInv, NEW signer, InstantRefundCampaign(signer)
    PROVE  E!Settle
<1> DEFINE t == [tree EXCEPT !.cancelled_at = now, !.paused = FALSE,
                             !.instant_refunded = TRUE]
<1>1. TypeOK /\ Live /\ lamports >= Rent /\ ReturnBalance /\ ~Cancelled /\ tree' = t
        /\ now' = now /\ tree.total_claimed <= tree.total_supply
  BY DEF IInv, SupplyCap, InstantRefundCampaign
<1>2. tree \in TreeType /\ now \in Nat /\ returned \in Nat
  BY <1>1, BoundsAssumption DEF TypeOK, Live
<1>3. /\ t \in TreeType /\ t.cancelled_at = now /\ t.native = tree.native
      /\ t.total_supply = tree.total_supply /\ t.total_claimed = tree.total_claimed
  BY <1>2 DEF TreeType
<1>4. now # None
  BY <1>2, AbsenceAssumption
<1>5. /\ Balance > 0 /\ returned' = returned + Balance
      /\ (IF tree.native THEN SatSub(lamports', Rent) ELSE vault') = 0
  BY <1>1, ReturnEmpties
<1> HIDE DEF t
<1>6. /\ phaseBar = "open" /\ phaseBar' = "frozen" /\ capBar' = capBar
      /\ heldBar = Balance /\ heldBar' = 0 /\ releasedBar' = releasedBar
      /\ frozenAtBar' = now /\ releasedBar = tree.total_claimed
      /\ capBar = tree.total_supply
  BY <1>1, <1>3, <1>4, <1>5, BarFacts, BarFactsAfter
<1>7. releasedBar \in Nat /\ heldBar \in Nat
  BY <1>1, BarFacts
<1>8. /\ releasedBar' <= capBar /\ releasedBar <= releasedBar'
      /\ releasedBar' - releasedBar <= heldBar /\ 0 < heldBar
      /\ returned' = returned + heldBar - (releasedBar' - releasedBar)
  BY <1>1, <1>2, <1>5, <1>6, <1>7
<1> QED BY <1>1, <1>6, <1>8 DEF E!Settle

LEMMA CancelStreamRefines ==
    ASSUME IInv, NEW signer, NEW leaf \in Leaves, CancelStream(signer, leaf)
    PROVE  E!Settle \/ E!SettleAndClose
<1> DEFINE due == DueAtCancel(LoadForStream(leaf), leaf)
           t   == [Booked(due) EXCEPT !.cancelled_at = now, !.paused = FALSE]
<1>1. TypeOK /\ Live /\ ~Cancelled /\ lamports >= Rent
        /\ tree.total_claimed <= tree.total_supply
  BY DEF IInv, SupplyCap, CancelStream, DrainTree, DrainVault
<1>2. due \in Nat
  BY <1>1, LoadForStreamType, DueAtCancelType
<1>3. /\ Balance >= due /\ Balance > 0 /\ now' = now
      /\ due > 0 => tree.total_claimed + due <= tree.total_supply
      /\ IF tree.native
         THEN /\ tree' = NoTree /\ returned' = returned + (lamports - due)
         ELSE /\ tree' = t /\ vault' = 0 /\ returned' = returned + (vault - due)
  BY DEF CancelStream, DrainTree, DrainVault
<1>4. /\ tree \in TreeType /\ now \in Nat /\ returned \in Nat /\ vault \in Nat
      /\ lamports \in Nat /\ Rent \in Nat
      /\ tree.total_claimed \in Nat /\ tree.total_supply \in Nat /\ tree.total_supply \in U64
  BY <1>1, BalanceType, BoundsAssumption DEF TypeOK, TreeType
<1>5. tree.total_claimed + due <= tree.total_supply
  <2> HIDE DEF due
  <2> QED BY <1>1, <1>2, <1>3, <1>4
<1>6. /\ phaseBar = "open" /\ capBar = tree.total_supply /\ heldBar = Balance
      /\ releasedBar = tree.total_claimed
  BY <1>1, BarFacts
<1> HIDE DEF due
<1>7. CASE tree.native
  <2>1. Balance = lamports - Rent
    BY <1>1, <1>4, <1>7 DEF Balance, SatSub
  <2>2. returned' = returned + heldBar + Rent - due /\ due \in 0 .. heldBar
    BY <1>2, <1>3, <1>4, <1>6, <1>7, <2>1
  <2>3. E!Forget
    BY <1>3, <1>7, BarNone
  <2> QED BY <1>3, <1>5, <1>6, <2>2, <2>3 DEF E!SettleAndClose
<1>8. CASE ~tree.native
  <2>1. tree.total_claimed + due \in U64
    BY <1>2, <1>4, <1>5, BoundsAssumption DEF U64
  <2>2. /\ t \in TreeType /\ t.cancelled_at = now /\ t.native = tree.native
        /\ t.total_supply = tree.total_supply
        /\ t.total_claimed = tree.total_claimed + due
    BY <1>4, <2>1 DEF TreeType, Booked
  <2>3. now # None
    BY <1>4, AbsenceAssumption
  <2>4. tree' = t /\ vault' = 0 /\ returned' = returned + (vault - due) /\ Balance = vault
    BY <1>3, <1>8 DEF Balance
  <2> HIDE DEF t
  <2>5. /\ phaseBar' = "frozen" /\ capBar' = capBar /\ heldBar' = 0
        /\ releasedBar' = releasedBar + due /\ frozenAtBar' = now
    BY <1>6, <1>8, <2>2, <2>3, <2>4, BarFactsAfter
  <2>6. /\ 0 < heldBar /\ releasedBar <= releasedBar' /\ releasedBar' <= capBar
        /\ releasedBar' - releasedBar <= heldBar
        /\ returned' = returned + heldBar - (releasedBar' - releasedBar)
    BY <1>2, <1>3, <1>4, <1>5, <1>6, <2>4, <2>5
  <2> QED BY <1>3, <1>6, <2>5, <2>6 DEF E!Settle
<1> QED BY <1>7, <1>8

(* What changes the tree in a way the escrow does not see. *)
LEMMA TreeOnlyRefines ==
    ASSUME IInv,
           \/ \E signer \in Keys, args \in RootArgs : UpdateRoot(signer, args)
           \/ \E signer \in Keys : PauseCampaign(signer) \/ UnpauseCampaign(signer)
           \/ \E signer \in Keys, idx \in MilestoneIdx : SetMilestoneReleased(signer, idx)
    PROVE  UNCHANGED E!vars
<1>1. TypeOK
  BY DEF IInv
<1>2. CASE \E signer \in Keys, args \in RootArgs : UpdateRoot(signer, args)
  <2>1. PICK signer \in Keys, args \in RootArgs : UpdateRoot(signer, args)
    BY <1>2
  <2> DEFINE t == Rotated(args)
  <2>2. Live /\ tree' = t /\ UNCHANGED <<now, vault, lamports, returned>>
    BY <2>1 DEF UpdateRoot, MayCancel
  <2>3. /\ t \in TreeType /\ t.native = tree.native /\ t.total_supply = tree.total_supply
        /\ t.total_claimed = tree.total_claimed /\ t.cancelled_at = tree.cancelled_at
    BY <1>1, <2>2, BalanceType, ArgsAssumption DEF TreeType, Rotated
  <2> HIDE DEF t
  <2> QED BY <1>1, <2>2, <2>3, NoStepButTree
<1>3. CASE \E signer \in Keys : PauseCampaign(signer) \/ UnpauseCampaign(signer)
  <2>1. PICK p \in BOOLEAN : /\ Live /\ tree' = [tree EXCEPT !.paused = p]
                             /\ UNCHANGED <<now, vault, lamports, returned>>
    BY <1>3 DEF PauseCampaign, UnpauseCampaign, MayPause, history
  <2> DEFINE t == [tree EXCEPT !.paused = p]
  <2>2. /\ t \in TreeType /\ t.native = tree.native /\ t.total_supply = tree.total_supply
        /\ t.total_claimed = tree.total_claimed /\ t.cancelled_at = tree.cancelled_at
    BY <1>1, <2>1, BalanceType DEF TreeType
  <2>3. tree' = t
    BY <2>1
  <2> HIDE DEF t
  <2> QED BY <1>1, <2>1, <2>2, <2>3, NoStepButTree
<1>4. CASE \E signer \in Keys, idx \in MilestoneIdx : SetMilestoneReleased(signer, idx)
  <2>1. PICK idx \in MilestoneIdx : /\ Live /\ tree' = [tree EXCEPT !.released = @ \cup {idx}]
                                    /\ UNCHANGED <<now, vault, lamports, returned>>
    BY <1>4 DEF SetMilestoneReleased, history
  <2> DEFINE t == [tree EXCEPT !.released = @ \cup {idx}]
  <2>2. /\ t \in TreeType /\ t.native = tree.native /\ t.total_supply = tree.total_supply
        /\ t.total_claimed = tree.total_claimed /\ t.cancelled_at = tree.cancelled_at
    BY <1>1, <2>1, BalanceType DEF TreeType
  <2>3. tree' = t
    BY <2>1
  <2> HIDE DEF t
  <2> QED BY <1>1, <2>1, <2>2, <2>3, NoStepButTree
<1> QED BY <1>2, <1>3, <1>4
-----------------------------------------------------------------------------
LEMMA InitRefines == Init => E!Init
BY DEF Init, E!Init, E!Empty, phaseBar, capBar, heldBar, releasedBar, frozenAtBar, Live

LEMMA StepRefines == IInv /\ [Next]_vars => [E!Next]_(E!vars)
<1> SUFFICES ASSUME IInv, [Next]_vars PROVE E!Next \/ UNCHANGED E!vars
  OBVIOUS
<1>1. CASE Tick
  <2>1. /\ phaseBar' = phaseBar /\ capBar' = capBar /\ heldBar' = heldBar
        /\ releasedBar' = releasedBar /\ frozenAtBar' = frozenAtBar
        /\ returned' = returned /\ now' = now + 1
    BY <1>1 DEF Tick, accounts, history, phaseBar, capBar, heldBar, releasedBar,
                frozenAtBar, Live, Cancelled, Balance
  <2> QED BY <2>1 DEF E!Wait, E!Next
<1>2. CASE \/ UNCHANGED vars
           \/ \E b \in Beneficiaries : CloseClaimRecord(b)
  BY <1>2, NoStep DEF vars, accounts, history, CloseClaimRecord
<1>3. CASE \/ \E args \in CampaignArgs : CreateCampaign(args)
           \/ \E args \in StreamArgs : CreateStream(args)
  BY <1>3, CreateRefines DEF E!Next
<1>4. CASE \E amount \in FundAmounts : FundCampaign(amount) \/ FundCampaignNative(amount)
  BY <1>4, FundRefines DEF E!Next
<1>5. CASE \E leaf \in Leaves : Claim(leaf) \/ Withdraw(leaf)
  BY <1>5, ClaimRefines DEF E!Next
<1>6. CASE \E signer \in Keys : CancelCampaign(signer)
  BY <1>6, CancelCampaignRefines DEF E!Next
<1>7. CASE \E signer \in Keys, leaf \in Leaves : CancelStream(signer, leaf)
  BY <1>7, CancelStreamRefines DEF E!Next
<1>8. CASE \/ \E signer \in Keys, args \in RootArgs : UpdateRoot(signer, args)
           \/ \E signer \in Keys : PauseCampaign(signer) \/ UnpauseCampaign(signer)
           \/ \E signer \in Keys, idx \in MilestoneIdx : SetMilestoneReleased(signer, idx)
  BY <1>8, TreeOnlyRefines
<1>9. CASE \E signer \in Keys : WithdrawUnvested(signer)
  BY <1>9, WithdrawUnvestedRefines DEF E!Next
<1>10. CASE \E signer \in Keys : InstantRefundCampaign(signer)
  BY <1>10, InstantRefundRefines DEF E!Next
<1> QED BY <1>1, <1>2, <1>3, <1>4, <1>5, <1>6, <1>7, <1>8, <1>9, <1>10 DEF Next

(* A campaign implements the abstract escrow (RefinesEscrow): whatever     *)
(* instructions run and in which order, payments stay within the cap and   *)
(* the holdings, and the creator gets money back only in the step that     *)
(* freezes the campaign or after the grace period.                         *)
THEOREM CampaignImplementsEscrow == Spec => RefinesEscrow
BY InitRefines, StepRefines, InductiveInvariant, PTL DEF Spec, RefinesEscrow, E!Spec
=============================================================================
