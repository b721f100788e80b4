------------------------- MODULE CampaignLedgerProofs -------------------------
(***************************************************************************)
(* The records tell what was paid, and nobody is paid ahead of schedule:   *)
(* across leaves, root rotations, the three instructions that pay, and a   *)
(* cancellation at any time.  Then the totals: total_claimed is the sum of *)
(* what the records hold and of what was paid, and a record's running sum  *)
(* that of what its beneficiary was paid.  From them follows what money a  *)
(* campaign still owes.  Then, what an upgrade from a release that kept no *)
(* ledgers does to a stream that release paid from; and last, that what    *)
(* the campaign's page offers is what the program takes and pays, and that *)
(* its figures, worked out from a running sum, are what is left to pay.    *)
(***************************************************************************)
EXTENDS OfferProperties, CampaignProofs, FiniteSetTheorems

(* What record cr says of leaf is that p was paid against it. *)
Tells(cr, leaf, p) ==
    IF leaf.release_type = Milestone
    THEN leaf.milestone_idx \in cr.milestone_bitmap <=> p > 0
    ELSE p = LeafPriorClaimed(cr, leaf.leaf_index)

(* A record of the current layout whose running sum covers its ledger, and *)
(* whose slots all hold something.                                         *)
Sound(cr) ==
    /\ cr.version = 1
    /\ \A i \in Indices : /\ LeafPriorClaimed(cr, i) <= cr.claimed_amount
                          /\ cr.ledger[i] # None => cr.ledger[i] > 0

RecordsSound == \A b \in Beneficiaries : record[b] # NoRecord => Sound(record[b])

LedgerInv == IInv /\ RecordsSound /\ RecordsMatchPayments /\ NeverAheadOfSchedule

Due(leaf) == GetVestedAmount(leaf, tree.cancelled_at, now, tree.released)
-----------------------------------------------------------------------------
(* ------------------------- one record ------------------------- *)

LEMMA EntitlementFacts ==
    ASSUME NEW l \in Leaves, NEW leaf \in Leaves
    PROVE  /\ EntitlementOf(l) \in Entitlements /\ EntitlementOf(l)[1] = l.beneficiary
           /\ EntitlementOf(l) = EntitlementOf(leaf) <=>
                /\ l.beneficiary = leaf.beneficiary
                /\ \/ /\ l.release_type = Milestone /\ leaf.release_type = Milestone
                      /\ l.milestone_idx = leaf.milestone_idx
                   \/ /\ l.release_type # Milestone /\ leaf.release_type # Milestone
                      /\ l.leaf_index = leaf.leaf_index
BY DEF EntitlementOf, Entitlements

(* Crediting a leaf changes what the record says of that entitlement, by   *)
(* the amount credited, and of no other.                                   *)
LEMMA CreditTells ==
    ASSUME NEW leaf \in Leaves, NEW l \in Leaves, l.beneficiary = leaf.beneficiary,
           NEW cr \in RecordType, NEW amount \in Nat, amount > 0, NEW p \in Nat,
           Tells(cr, l, p), NEW new, new = Credit(cr, leaf, amount)
    PROVE  Tells(new, l,
                 IF EntitlementOf(l) = EntitlementOf(leaf) THEN p + amount ELSE p)
<1>1. leaf.leaf_index \in Indices /\ l.leaf_index \in Indices
  BY LeafFacts
<1>2. LeafPriorClaimed(cr, leaf.leaf_index) + amount # None
  BY <1>1, LeafPriorClaimedType, AbsenceAssumption
<1>3. CASE leaf.release_type = Milestone
  <2>1. /\ new.milestone_bitmap = cr.milestone_bitmap \cup {leaf.milestone_idx}
        /\ new.ledger = cr.ledger
    BY <1>3 DEF Credit, RecordType
  <2>2. CASE l.release_type = Milestone
    <3>1. l.milestone_idx \in new.milestone_bitmap
            <=> l.milestone_idx \in cr.milestone_bitmap \/ EntitlementOf(l) = EntitlementOf(leaf)
      BY <1>3, <2>1, <2>2, EntitlementFacts
    <3> QED BY <2>2, <3>1 DEF Tells
  <2>3. CASE l.release_type # Milestone
    <3>1. EntitlementOf(l) # EntitlementOf(leaf)
      BY <1>3, <2>3, EntitlementFacts
    <3> QED BY <2>1, <2>3, <3>1 DEF Tells, LeafPriorClaimed
  <2> QED BY <2>2, <2>3
<1>4. CASE leaf.release_type # Milestone
  <2>1. /\ new.milestone_bitmap = cr.milestone_bitmap
        /\ new.ledger = [cr.ledger EXCEPT ![leaf.leaf_index] =
                           LeafPriorClaimed(cr, leaf.leaf_index) + amount]
    BY <1>4 DEF Credit, RecordType
  <2>2. CASE l.release_type = Milestone
    <3>1. EntitlementOf(l) # EntitlementOf(leaf)
      BY <1>4, <2>2, EntitlementFacts
    <3> QED BY <2>1, <2>2, <3>1 DEF Tells
  <2>3. CASE l.release_type # Milestone /\ l.leaf_index = leaf.leaf_index
    <3>1. EntitlementOf(l) = EntitlementOf(leaf)
      BY <1>4, <2>3, EntitlementFacts
    <3>2. LeafPriorClaimed(new, l.leaf_index) = LeafPriorClaimed(cr, l.leaf_index) + amount
      BY <1>1, <1>2, <2>1, <2>3 DEF LeafPriorClaimed, RecordType
    <3> QED BY <2>3, <3>1, <3>2 DEF Tells
  <2>4. CASE l.release_type # Milestone /\ l.leaf_index # leaf.leaf_index
    <3>1. EntitlementOf(l) # EntitlementOf(leaf)
      BY <2>4, EntitlementFacts
    <3>2. LeafPriorClaimed(new, l.leaf_index) = LeafPriorClaimed(cr, l.leaf_index)
      BY <1>1, <2>1, <2>4 DEF LeafPriorClaimed, RecordType
    <3> QED BY <2>4, <3>1, <3>2 DEF Tells
  <2> QED BY <2>2, <2>3, <2>4
<1> QED BY <1>3, <1>4

LEMMA CreditSound ==
    ASSUME NEW leaf \in Leaves, NEW cr \in RecordType, Sound(cr), NEW amount \in Nat,
           amount > 0, NEW new, new = Credit(cr, leaf, amount)
    PROVE  Sound(new)
<1>1. new.version = 1 /\ new.claimed_amount = cr.claimed_amount + amount
  BY DEF Credit, RecordType, Sound
<1>2. cr.claimed_amount \in Nat
  BY BoundsAssumption DEF RecordType, U64
<1>3. ASSUME NEW i \in Indices
      PROVE  /\ LeafPriorClaimed(new, i) <= LeafPriorClaimed(cr, i) + amount
             /\ LeafPriorClaimed(new, i) \in Int
             /\ new.ledger[i] # None => new.ledger[i] > 0
  <2>1. LeafPriorClaimed(cr, i) \in Nat /\ leaf.leaf_index \in Indices
    BY <1>3, LeafPriorClaimedType, LeafFacts
  <2>2. CASE leaf.release_type # Milestone /\ i = leaf.leaf_index
    <3>1. LeafPriorClaimed(cr, i) + amount # None
      BY <2>1, AbsenceAssumption
    <3>2. new.ledger[i] = LeafPriorClaimed(cr, i) + amount
      BY <2>1, <2>2 DEF Credit, RecordType
    <3> QED BY <2>1, <3>1, <3>2 DEF LeafPriorClaimed
  <2>3. CASE ~(leaf.release_type # Milestone /\ i = leaf.leaf_index)
    <3>1. new.ledger[i] = cr.ledger[i]
      BY <1>3, <2>1, <2>3 DEF Credit, RecordType
    <3>2. new.ledger[i] # None => new.ledger[i] > 0
      BY <1>3, <3>1 DEF Sound
    <3> QED BY <2>1, <3>1, <3>2 DEF LeafPriorClaimed
  <2> QED BY <2>2, <2>3
<1>4. ASSUME NEW i \in Indices PROVE LeafPriorClaimed(new, i) <= new.claimed_amount
  <2>1. LeafPriorClaimed(cr, i) \in Nat /\ LeafPriorClaimed(cr, i) <= cr.claimed_amount
    BY <1>4, LeafPriorClaimedType DEF Sound
  <2>2. LeafPriorClaimed(new, i) <= LeafPriorClaimed(cr, i) + amount
          /\ LeafPriorClaimed(new, i) \in Int
    BY <1>3, <1>4
  <2> QED BY <1>1, <1>2, <2>1, <2>2
<1> QED BY <1>1, <1>3, <1>4 DEF Sound

LEMMA FreshTells ==
    ASSUME NEW l \in Leaves, NEW entitled
    PROVE  Tells(FreshRecord(entitled), l, 0) /\ Sound(FreshRecord(entitled))
<1>1. \A i \in Indices : /\ LeafPriorClaimed(FreshRecord(entitled), i) = 0
                        /\ FreshRecord(entitled).ledger[i] = None
  BY DEF LeafPriorClaimed, FreshRecord, EmptyLedger
<1>2. l.leaf_index \in Indices
  BY LeafFacts
<1> QED BY <1>1, <1>2 DEF Tells, Sound, FreshRecord

(* The record an instruction starts from tells what was paid so far. *)
LEMMA LoadedTells ==
    ASSUME TypeOK, RecordsSound, RecordsMatchPayments, NEW leaf \in Leaves,
           NEW cr, cr = LoadForClaim(leaf) \/ cr = LoadForStream(leaf)
    PROVE  /\ cr \in RecordType /\ Sound(cr)
           /\ \A l \in Leaves : l.beneficiary = leaf.beneficiary /\ Undisturbed(l) =>
                Tells(cr, l, paid[EntitlementOf(l)])
<1> DEFINE b == leaf.beneficiary
<1>1. b \in Beneficiaries
  BY LeafFacts
<1>2. cr \in RecordType
  BY LoadForClaimType, LoadForStreamType
<1>3. CASE record[b] = NoRecord
  <2>1. PICK entitled : cr = FreshRecord(entitled)
    BY <1>3 DEF LoadForClaim, LoadForStream
  <2>2. ASSUME NEW l \in Leaves, l.beneficiary = b, Undisturbed(l)
        PROVE  Tells(cr, l, paid[EntitlementOf(l)])
    <3>1. paid[EntitlementOf(l)] = 0
      BY <1>3, <2>2 DEF RecordsMatchPayments
    <3> QED BY <2>1, <3>1, FreshTells
  <2>3. Sound(cr)
    BY <2>1, FreshTells
  <2> QED BY <1>2, <2>2, <2>3
<1>4. CASE record[b] # NoRecord
  <2>1. Sound(record[b])
    BY <1>1, <1>4 DEF RecordsSound
  <2>2. cr = record[b]
    BY <1>4, <2>1 DEF LoadForClaim, LoadForStream, Sound
  <2>3. ASSUME NEW l \in Leaves, l.beneficiary = b, Undisturbed(l)
        PROVE  Tells(cr, l, paid[EntitlementOf(l)])
    BY <1>4, <2>2, <2>3 DEF RecordsMatchPayments, Tells
  <2> QED BY <1>2, <2>1, <2>2, <2>3
<1> QED BY <1>3, <1>4

LEMMA CountLeafTells ==
    ASSUME NEW leaf \in Leaves, NEW loaded \in RecordType, Sound(loaded),
           NEW cr, cr = CountLeaf(loaded, leaf)
    PROVE  /\ Sound(cr)
           /\ cr.milestone_bitmap = loaded.milestone_bitmap
           /\ \A l, p : Tells(loaded, l, p) => Tells(cr, l, p)
<1>1. /\ cr.milestone_bitmap = loaded.milestone_bitmap /\ cr.ledger = loaded.ledger
      /\ cr.version = loaded.version /\ cr.claimed_amount = loaded.claimed_amount
  BY DEF CountLeaf, RecordType
<1> QED BY <1>1 DEF Tells, Sound, LeafPriorClaimed
-----------------------------------------------------------------------------
(* ------------------------- the records ------------------------- *)

LEMMA RecordStep ==
    ASSUME TypeOK, RecordsSound, RecordsMatchPayments, NEW leaf \in Leaves,
           NEW cr \in RecordType, Sound(cr),
           record' = [record EXCEPT ![leaf.beneficiary] = cr], disturbed' = disturbed,
           \A e \in Entitlements : e # EntitlementOf(leaf) => paid'[e] = paid[e],
           \A l \in Leaves : l.beneficiary = leaf.beneficiary /\ Undisturbed(l) =>
                Tells(cr, l, paid'[EntitlementOf(l)])
    PROVE  RecordsMatchPayments' /\ RecordsSound'
<1>1. leaf.beneficiary \in Beneficiaries /\ cr # NoRecord
  BY LeafFacts, AbsenceAssumption
<1>2. RecordsSound'
  BY <1>1 DEF RecordsSound, Sound, TypeOK, LeafPriorClaimed
<1>3. ASSUME NEW l \in Leaves, Undisturbed(l)'
      PROVE  LET r == record'[l.beneficiary]
                 p == paid'[EntitlementOf(l)]
             IN  IF r = NoRecord THEN p = 0 ELSE Tells(r, l, p)
  <2>1. Undisturbed(l) /\ l.beneficiary \in Beneficiaries
    BY <1>3, LeafFacts DEF Undisturbed
  <2>2. CASE l.beneficiary = leaf.beneficiary
    BY <1>1, <2>1, <2>2 DEF TypeOK
  <2>3. CASE l.beneficiary # leaf.beneficiary
    <3>1. record'[l.beneficiary] = record[l.beneficiary]
      BY <1>1, <2>1, <2>3 DEF TypeOK
    <3>2. paid'[EntitlementOf(l)] = paid[EntitlementOf(l)]
      BY <2>3, EntitlementFacts
    <3> QED BY <2>1, <3>1, <3>2 DEF RecordsMatchPayments, Tells
  <2> QED BY <2>2, <2>3
<1>4. RecordsMatchPayments'
  BY <1>3 DEF RecordsMatchPayments, Tells
<1> QED BY <1>2, <1>4

LEMMA CreditStep ==
    ASSUME TypeOK, RecordsSound, RecordsMatchPayments, NEW leaf \in Leaves,
           NEW cr \in RecordType, Sound(cr), NEW amount \in Nat, amount > 0,
           cr.claimed_amount + amount <= U64Max,
           \A l \in Leaves : l.beneficiary = leaf.beneficiary /\ Undisturbed(l) =>
                Tells(cr, l, paid[EntitlementOf(l)]),
           record' = [record EXCEPT ![leaf.beneficiary] = Credit(cr, leaf, amount)],
           paid' = [paid EXCEPT ![EntitlementOf(leaf)] = @ + amount],
           disturbed' = disturbed
    PROVE  RecordsMatchPayments' /\ RecordsSound'
<1>1. PICK new : new = Credit(cr, leaf, amount)
  OBVIOUS
<1>2. new \in RecordType /\ Sound(new)
  BY <1>1, CreditType, CreditSound
<1>3. paid \in [Entitlements -> Nat] /\ EntitlementOf(leaf) \in Entitlements
  BY LeafFacts DEF TypeOK
<1>4. \A e \in Entitlements : e # EntitlementOf(leaf) => paid'[e] = paid[e]
  BY <1>3
<1>5. ASSUME NEW l \in Leaves, l.beneficiary = leaf.beneficiary, Undisturbed(l)
      PROVE  Tells(new, l, paid'[EntitlementOf(l)])
  <2>1. paid[EntitlementOf(l)] \in Nat /\ EntitlementOf(l) \in Entitlements
    BY <1>3, LeafFacts
  <2>2. Tells(new, l, IF EntitlementOf(l) = EntitlementOf(leaf)
                      THEN paid[EntitlementOf(l)] + amount ELSE paid[EntitlementOf(l)])
    BY <1>1, <1>5, <2>1, CreditTells
  <2>3. paid'[EntitlementOf(l)] = IF EntitlementOf(l) = EntitlementOf(leaf)
                                  THEN paid[EntitlementOf(l)] + amount
                                  ELSE paid[EntitlementOf(l)]
    BY <1>3, <2>1
  <2> QED BY <2>2, <2>3
<1>6. record' = [record EXCEPT ![leaf.beneficiary] = new]
  BY <1>1
<1> QED BY <1>2, <1>4, <1>5, <1>6, RecordStep
-----------------------------------------------------------------------------
(* ------------------------- the schedule ------------------------- *)

LEMMA DueValue ==
    ASSUME NEW leaf \in Leaves, NEW c \in Nat \cup {None}, NEW t \in Int, NEW flags
    PROVE  GetVestedAmount(leaf, c, t, flags) \in 0 .. leaf.amount
<1>1. EffectiveNow(c, t) \in Int
  BY DEF EffectiveNow, Earlier
<1>2. Vested(leaf, EffectiveNow(c, t)) \in 0 .. leaf.amount
  BY <1>1, VestedType
<1> QED BY <1>2, LeafFacts DEF GetVestedAmount

(* What is due never falls: not as time passes or milestones are released, *)
(* nor by a cancellation at that very moment.                              *)
LEMMA DueGrows ==
    ASSUME NEW leaf \in Leaves, NEW c \in Nat \cup {None}, NEW d \in Nat \cup {None},
           NEW t \in Int, NEW u \in Int, NEW flags, NEW more,
           flags \subseteq more,
           \/ d = c /\ t <= u
           \/ c = None /\ d = t /\ u = t
    PROVE  GetVestedAmount(leaf, c, t, flags) <= GetVestedAmount(leaf, d, u, more)
<1>1. EffectiveNow(c, t) \in Int /\ EffectiveNow(d, u) \in Int
        /\ EffectiveNow(c, t) <= EffectiveNow(d, u)
  BY AbsenceAssumption DEF EffectiveNow, Earlier
<1>2. Vested(leaf, EffectiveNow(c, t)) <= Vested(leaf, EffectiveNow(d, u))
  BY <1>1, VestedMonotone, LeafFacts
<1>3. leaf.amount \in Nat
  BY LeafFacts
<1> QED BY <1>2, <1>3 DEF GetVestedAmount

LEMMA CarriersAre ==
    ASSUME TypeOK, Live
    PROVE  tree.root \subseteq Carriers /\ Carriers \subseteq Leaves
BY DEF TypeOK, Live, TreeType, Carriers

(* A step that keeps the root, unless it is rotated, keeps the carriers. *)
LEMMA CarriersStay ==
    ASSUME TypeOK, Live, rotated' = TRUE \/ (rotated' = rotated /\ tree'.root = tree.root)
    PROVE  Carriers \subseteq Carriers'
BY CarriersAre DEF Carriers

(* A step keeps everybody within the schedule when no due amount falls and *)
(* every payment is within what is due after it.                           *)
LEMMA ScheduleStep ==
    ASSUME TypeOK, TypeOK', Live, NeverAheadOfSchedule, disturbed \subseteq disturbed',
           Live' => Carriers \subseteq Carriers' /\ Carriers \subseteq Leaves,
           Live' => \A l \in Leaves : Due(l) <= Due(l)',
           Live' => \A e \in Entitlements : e[1] \notin disturbed' =>
              \/ paid'[e] = paid[e]
              \/ \E l \in Carriers' : EntitlementOf(l) = e /\ paid'[e] <= Due(l)'
    PROVE  NeverAheadOfSchedule'
<1> SUFFICES ASSUME Live', NEW e \in Entitlements, e[1] \notin disturbed', paid'[e] > 0
             PROVE  \E l \in Carriers' : EntitlementOf(l) = e /\ paid'[e] <= Due(l)'
  BY DEF NeverAheadOfSchedule, Due
<1>1. CASE paid'[e] = paid[e]
  <2>1. PICK l \in Carriers : EntitlementOf(l) = e /\ paid[e] <= Due(l)
    BY <1>1 DEF NeverAheadOfSchedule, Due
  <2>2. paid[e] \in Nat
    BY DEF TypeOK
  <2>3. tree \in TreeType /\ tree' \in TreeType /\ now \in Int /\ now' \in Int
    BY BoundsAssumption DEF TypeOK, Live
  <2>4. Due(l) \in Int /\ Due(l)' \in Int
    <3>1. tree.cancelled_at \in Nat \cup {None} /\ tree'.cancelled_at \in Nat \cup {None}
            /\ l \in Leaves
      BY <2>3 DEF TreeType
    <3>2. Due(l) \in 0 .. l.amount
      BY <2>3, <3>1, DueValue DEF Due
    <3>3. Due(l)' \in 0 .. l.amount
      BY <2>3, <3>1, DueValue DEF Due
    <3> QED BY <3>2, <3>3
  <2>5. Due(l) <= Due(l)'
    OBVIOUS
  <2>6. paid'[e] <= Due(l)'
    BY <1>1, <2>1, <2>2, <2>4, <2>5
  <2> QED BY <2>1, <2>6
<1>2. CASE paid'[e] # paid[e]
  BY <1>2
<1> QED BY <1>1, <1>2

(* The clock, the release flags and the cancellation only move forward. *)
Onward ==
    /\ tree.released \subseteq tree'.released
    /\ \/ tree'.cancelled_at = tree.cancelled_at /\ now <= now'
       \/ tree.cancelled_at = None /\ tree'.cancelled_at = now /\ now' = now

LEMMA DueStep ==
    ASSUME TypeOK, TypeOK', Live, Live', Onward, NEW l \in Leaves
    PROVE  Due(l) <= Due(l)'
<1>1. tree \in TreeType /\ tree' \in TreeType /\ now \in Int /\ now' \in Int
  BY BoundsAssumption DEF TypeOK, Live
<1>2. tree.cancelled_at \in Nat \cup {None} /\ tree'.cancelled_at \in Nat \cup {None}
  BY <1>1 DEF TreeType
<1>3. Due(l)' = GetVestedAmount(l, tree'.cancelled_at, now', tree'.released)
  BY DEF Due
<1>4. GetVestedAmount(l, tree.cancelled_at, now, tree.released)
        <= GetVestedAmount(l, tree'.cancelled_at, now', tree'.released)
  BY <1>1, <1>2, DueGrows DEF Onward
<1> QED BY <1>3, <1>4 DEF Due

LEMMA DueIsInt ==
    ASSUME TypeOK, TypeOK', Live, Live', NEW l \in Leaves
    PROVE  Due(l) \in Int /\ Due(l)' \in Int
<1>1. tree \in TreeType /\ tree' \in TreeType /\ now \in Int /\ now' \in Int
  BY BoundsAssumption DEF TypeOK, Live
<1>2. tree.cancelled_at \in Nat \cup {None} /\ tree'.cancelled_at \in Nat \cup {None}
  BY <1>1 DEF TreeType
<1>3. Due(l) \in 0 .. l.amount
  BY <1>1, <1>2, DueValue DEF Due
<1>4. Due(l)' \in 0 .. l.amount
  BY <1>1, <1>2, DueValue DEF Due
<1> QED BY <1>3, <1>4, LeafFacts

(* A rotation, a pause or a release moves nothing. *)
LEMMA FlagStep ==
    ASSUME TypeOK,
           \/ \E signer \in Keys, args \in RootArgs : UpdateRoot(signer, args)
           \/ \E signer \in Keys : PauseCampaign(signer) \/ UnpauseCampaign(signer)
           \/ \E signer \in Keys, idx \in MilestoneIdx : SetMilestoneReleased(signer, idx)
    PROVE  /\ UNCHANGED <<record, paid, disturbed>> /\ Live /\ Onward
           /\ rotated' = TRUE \/ (rotated' = rotated /\ tree'.root = tree.root)
<1>1. /\ UNCHANGED <<record, paid, disturbed>> /\ Live /\ now' = now
      /\ \/ rotated' = TRUE /\ \E args \in RootArgs : tree' = Rotated(args)
         \/ rotated' = rotated /\ \E p \in BOOLEAN : tree' = [tree EXCEPT !.paused = p]
         \/ /\ rotated' = rotated
            /\ \E idx \in MilestoneIdx : tree' = [tree EXCEPT !.released = @ \cup {idx}]
  BY DEF UpdateRoot, MayCancel, PauseCampaign, UnpauseCampaign, MayPause,
         SetMilestoneReleased, history
<1>2. tree \in TreeType /\ now \in Int
  BY <1>1, BoundsAssumption DEF TypeOK, Live
<1>3. /\ tree'.cancelled_at = tree.cancelled_at /\ tree.released \subseteq tree'.released
      /\ rotated' = TRUE \/ (rotated' = rotated /\ tree'.root = tree.root)
  <2>1. CASE rotated' = TRUE /\ \E args \in RootArgs : tree' = Rotated(args)
    BY <1>2, <2>1 DEF TreeType, Rotated
  <2>2. CASE rotated' = rotated /\ \E p \in BOOLEAN : tree' = [tree EXCEPT !.paused = p]
    BY <1>2, <2>2 DEF TreeType
  <2>3. CASE /\ rotated' = rotated
             /\ \E idx \in MilestoneIdx : tree' = [tree EXCEPT !.released = @ \cup {idx}]
    BY <1>2, <2>3 DEF TreeType
  <2> QED BY <1>1, <2>1, <2>2, <2>3
<1> QED BY <1>1, <1>2, <1>3 DEF Onward

(* A step that pays nothing. *)
LEMMA QuietStep ==
    ASSUME LedgerInv, IInv', UNCHANGED <<record, paid, disturbed>>,
           Live' => Live /\ Onward /\ Carriers \subseteq Carriers'
    PROVE  LedgerInv'
<1>1. TypeOK /\ TypeOK'
  BY DEF LedgerInv, IInv
<1>2. RecordsMatchPayments' /\ RecordsSound'
  BY DEF LedgerInv, RecordsMatchPayments, RecordsSound, Undisturbed
<1>3. NeverAheadOfSchedule'
  <2>1. CASE ~Live'
    BY <2>1 DEF NeverAheadOfSchedule
  <2>2. CASE Live'
    <3>1. \A l \in Leaves : Due(l) <= Due(l)'
      BY <1>1, <2>2, DueStep
    <3> QED BY <1>1, <2>2, <3>1, CarriersAre, ScheduleStep DEF LedgerInv
  <2> QED BY <2>1, <2>2
<1> QED BY <1>2, <1>3 DEF LedgerInv

(* A step that pays amount against leaf, out of the record cr. *)
LEMMA PayStep ==
    ASSUME LedgerInv, IInv', Live, NEW leaf \in Leaves,
           NEW cr \in RecordType, Sound(cr), NEW amount \in Nat, amount > 0,
           cr.claimed_amount + amount <= U64Max,
           \A l \in Leaves : l.beneficiary = leaf.beneficiary /\ Undisturbed(l) =>
                Tells(cr, l, paid[EntitlementOf(l)]),
           Undisturbed(leaf) => paid[EntitlementOf(leaf)] + amount <= Due(leaf),
           record' = [record EXCEPT ![leaf.beneficiary] = Credit(cr, leaf, amount)],
           paid' = [paid EXCEPT ![EntitlementOf(leaf)] = @ + amount],
           disturbed' = disturbed,
           Live' => Onward /\ leaf \in Carriers /\ Carriers \subseteq Carriers'
    PROVE  LedgerInv'
<1>1. TypeOK /\ TypeOK' /\ RecordsSound /\ RecordsMatchPayments
  BY DEF LedgerInv, IInv
<1>2. RecordsMatchPayments' /\ RecordsSound'
  BY <1>1, CreditStep
<1>3. NeverAheadOfSchedule'
  <2>1. CASE ~Live'
    BY <2>1 DEF NeverAheadOfSchedule
  <2>2. CASE Live'
    <3>1. \A l \in Leaves : Due(l) <= Due(l)'
      BY <1>1, <2>2, DueStep
    <3>2. ASSUME NEW e \in Entitlements, e[1] \notin disturbed'
          PROVE  \/ paid'[e] = paid[e]
                 \/ \E l \in Carriers' : EntitlementOf(l) = e /\ paid'[e] <= Due(l)'
      <4>1. CASE e # EntitlementOf(leaf)
        BY <1>1, <3>2, <4>1 DEF TypeOK
      <4>2. CASE e = EntitlementOf(leaf)
        <5>1. Undisturbed(leaf)
          BY <3>2, <4>2, EntitlementFacts DEF Undisturbed
        <5>2. paid'[e] = paid[e] + amount /\ paid[e] \in Nat
          BY <1>1, <3>2, <4>2 DEF TypeOK
        <5>3. Due(leaf) <= Due(leaf)' /\ Due(leaf) \in Int /\ Due(leaf)' \in Int
          <6>1. tree \in TreeType /\ tree' \in TreeType /\ now \in Int /\ now' \in Int
            BY <1>1, <2>2, BoundsAssumption DEF TypeOK, Live
          <6>2. tree.cancelled_at \in Nat \cup {None} /\ tree'.cancelled_at \in Nat \cup {None}
            BY <6>1 DEF TreeType
          <6>3. Due(leaf) \in 0 .. leaf.amount
            BY <6>1, <6>2, DueValue DEF Due
          <6>4. Due(leaf)' \in 0 .. leaf.amount
            BY <6>1, <6>2, DueValue DEF Due
          <6> QED BY <3>1, <6>3, <6>4
        <5>4. paid'[e] <= Due(leaf)'
          BY <4>2, <5>1, <5>2, <5>3
        <5> QED BY <2>2, <4>2, <5>4
      <4> QED BY <4>1, <4>2
    <3> QED BY <1>1, <2>2, <3>1, <3>2, CarriersAre, ScheduleStep DEF LedgerInv
  <2> QED BY <2>1, <2>2
<1> QED BY <1>2, <1>3 DEF LedgerInv
-----------------------------------------------------------------------------
(* ------------------------- the instructions ------------------------- *)

(* Of a record that tells the truth, what is still to be paid on a leaf is *)
(* within what is due.                                                     *)
LEMMA MilestoneWithin ==
    ASSUME LedgerInv, Live, NEW leaf \in Leaves, leaf.release_type = Milestone,
           leaf.milestone_idx \in tree.released,
           NEW cr, Tells(cr, leaf, paid[EntitlementOf(leaf)]), MilestoneUnclaimed(cr, leaf),
           NEW amount \in Nat, amount <= leaf.amount
    PROVE  paid[EntitlementOf(leaf)] + amount <= Due(leaf)
<1>1. paid[EntitlementOf(leaf)] \in Nat
  BY LeafFacts DEF LedgerInv, IInv, TypeOK
<1>2. paid[EntitlementOf(leaf)] = 0
  BY <1>1 DEF Tells, MilestoneUnclaimed
<1>3. Due(leaf) = leaf.amount
  BY DEF Due, GetVestedAmount
<1> QED BY <1>2, <1>3

LEMMA PayOutLedger ==
    ASSUME LedgerInv, IInv', Live, NEW leaf \in Leaves,
           NEW cr \in RecordType, Sound(cr), NEW amount \in Nat, PayOut(cr, leaf, amount),
           \A l \in Leaves : l.beneficiary = leaf.beneficiary /\ Undisturbed(l) =>
                Tells(cr, l, paid[EntitlementOf(l)]),
           leaf \in tree.root,
           Undisturbed(leaf) => paid[EntitlementOf(leaf)] + amount <= Due(leaf)
    PROVE  LedgerInv'
<1>1. /\ amount > 0 /\ cr.claimed_amount + amount <= U64Max
      /\ record' = [record EXCEPT ![leaf.beneficiary] = Credit(cr, leaf, amount)]
      /\ paid' = [paid EXCEPT ![EntitlementOf(leaf)] = @ + amount]
      /\ disturbed' = disturbed /\ now' = now /\ rotated' = rotated
      /\ tree' = Booked(amount) \/ tree' = NoTree
  BY DEF PayOut, Payable, PayBeneficiary, PayLamports, PayTokens
<1>2. tree \in TreeType /\ now \in Int /\ TypeOK
  BY BoundsAssumption DEF LedgerInv, IInv, TypeOK, Live
<1>3. Live' => Onward /\ tree'.root = tree.root
  BY <1>1, <1>2 DEF Live, Onward, Booked, TreeType
<1>4. leaf \in Carriers /\ (Live' => Carriers \subseteq Carriers')
  BY <1>1, <1>2, <1>3, CarriersAre, CarriersStay
<1> QED BY <1>1, <1>3, <1>4, PayStep

LEMMA ClaimLedger ==
    ASSUME LedgerInv, IInv', NEW leaf \in Leaves, Claim(leaf)
    PROVE  LedgerInv'
<1>1. TypeOK /\ RecordsSound /\ RecordsMatchPayments /\ Live
  BY DEF LedgerInv, IInv, Claim
<1>2. PICK loaded : loaded = LoadForClaim(leaf)
  OBVIOUS
<1>3. PICK cr : cr = CountLeaf(loaded, leaf)
  OBVIOUS
<1>4. PICK amount : amount = ClaimableByClaim(cr, leaf)
  OBVIOUS
<1>5. /\ MilestoneUnclaimed(loaded, leaf) /\ cr.total_entitled <= U64Max
      /\ leaf.release_type = Milestone => leaf.milestone_idx \in tree.released
      /\ PayOut(cr, leaf, amount) /\ leaf \in tree.root
  BY <1>2, <1>3, <1>4 DEF Claim, ProofAccepted
<1>6. /\ loaded \in RecordType /\ Sound(loaded)
      /\ \A l \in Leaves : l.beneficiary = leaf.beneficiary /\ Undisturbed(l) =>
           Tells(loaded, l, paid[EntitlementOf(l)])
  BY <1>1, <1>2, LoadedTells
<1>7. /\ cr \in RecordType /\ Sound(cr) /\ MilestoneUnclaimed(cr, leaf)
      /\ \A l \in Leaves : l.beneficiary = leaf.beneficiary /\ Undisturbed(l) =>
           Tells(cr, l, paid[EntitlementOf(l)])
  <2>1. cr \in RecordType
    BY <1>3, <1>5, <1>6, CountLeafType
  <2>2. /\ Sound(cr) /\ cr.milestone_bitmap = loaded.milestone_bitmap
        /\ \A l, p : Tells(loaded, l, p) => Tells(cr, l, p)
    BY <1>3, <1>6, CountLeafTells
  <2>3. MilestoneUnclaimed(cr, leaf)
    BY <1>5, <2>2 DEF MilestoneUnclaimed
  <2> QED BY <1>6, <2>1, <2>2, <2>3
<1>8. Vested(leaf, Effective) \in Nat /\ leaf.amount \in Nat
  BY <1>1, EffectiveType, VestedType, LeafFacts
<1>9. LeafPriorClaimed(cr, leaf.leaf_index) \in Nat
  BY <1>7, LeafFacts, LeafPriorClaimedType
<1>10. amount \in Nat
  BY <1>4, <1>8, <1>9 DEF ClaimableByClaim, SatSub
<1>11. ASSUME Undisturbed(leaf)
       PROVE  paid[EntitlementOf(leaf)] + amount <= Due(leaf)
  <2>1. Tells(cr, leaf, paid[EntitlementOf(leaf)])
    BY <1>7, <1>11
  <2>2. CASE leaf.release_type = Milestone
    <3>1. amount <= leaf.amount
      BY <1>4, <1>8, <2>2 DEF ClaimableByClaim
    <3> QED BY <1>1, <1>5, <1>7, <1>10, <2>1, <2>2, <3>1, MilestoneWithin
  <2>3. CASE leaf.release_type # Milestone
    <3>1. paid[EntitlementOf(leaf)] = LeafPriorClaimed(cr, leaf.leaf_index)
      BY <2>1, <2>3 DEF Tells
    <3>2. Due(leaf) = Vested(leaf, Effective)
      BY <2>3 DEF Due, GetVestedAmount, Effective
    <3>3. amount > 0 /\ amount = SatSub(Vested(leaf, Effective),
                                        LeafPriorClaimed(cr, leaf.leaf_index))
      BY <1>4, <1>5, <2>3 DEF ClaimableByClaim, PayOut, Payable
    <3> QED BY <1>8, <1>9, <3>1, <3>2, <3>3 DEF SatSub
  <2> QED BY <2>2, <2>3
<1> QED BY <1>1, <1>5, <1>7, <1>10, <1>11, PayOutLedger

(* What withdraw and cancel_stream pay beyond the running sum is within    *)
(* what is due, since the running sum covers the leaf's entry.             *)
LEMMA BeyondSumWithin ==
    ASSUME LedgerInv, Live, NEW leaf \in Leaves, leaf.release_type # Milestone,
           NEW cr \in RecordType, Sound(cr), Tells(cr, leaf, paid[EntitlementOf(leaf)]),
           NEW amount, amount > 0,
           amount = SatSub(Vested(leaf, Effective), cr.claimed_amount)
    PROVE  paid[EntitlementOf(leaf)] + amount <= Due(leaf)
<1>1. TypeOK
  BY DEF LedgerInv, IInv
<1>2. Vested(leaf, Effective) \in Nat
  BY <1>1, EffectiveType, VestedType, LeafFacts
<1>3. cr.claimed_amount \in Nat
  BY BoundsAssumption DEF RecordType, U64
<1>4. paid[EntitlementOf(leaf)] = LeafPriorClaimed(cr, leaf.leaf_index)
        /\ leaf.leaf_index \in Indices
  BY LeafFacts DEF Tells
<1>5. LeafPriorClaimed(cr, leaf.leaf_index) \in Nat
        /\ LeafPriorClaimed(cr, leaf.leaf_index) <= cr.claimed_amount
  BY <1>4, LeafPriorClaimedType DEF Sound
<1>6. Due(leaf) = Vested(leaf, Effective)
  BY DEF Due, GetVestedAmount, Effective
<1> QED BY <1>2, <1>3, <1>4, <1>5, <1>6 DEF SatSub

LEMMA WithdrawLedger ==
    ASSUME LedgerInv, IInv', NEW leaf \in Leaves, Withdraw(leaf)
    PROVE  LedgerInv'
<1>1. TypeOK /\ RecordsSound /\ RecordsMatchPayments /\ Live
  BY DEF LedgerInv, IInv, Withdraw
<1>2. PICK cr : cr = LoadForStream(leaf)
  OBVIOUS
<1>3. PICK amount : amount = ClaimableByWithdraw(cr, leaf)
  OBVIOUS
<1>4. /\ MilestoneUnclaimed(cr, leaf)
      /\ leaf.release_type = Milestone => leaf.milestone_idx \in tree.released
      /\ PayOut(cr, leaf, amount) /\ leaf \in tree.root
  BY <1>2, <1>3 DEF Withdraw, IsStreamLeaf
<1>5. /\ cr \in RecordType /\ Sound(cr)
      /\ \A l \in Leaves : l.beneficiary = leaf.beneficiary /\ Undisturbed(l) =>
           Tells(cr, l, paid[EntitlementOf(l)])
  BY <1>1, <1>2, LoadedTells
<1>6. Vested(leaf, Effective) \in Nat /\ leaf.amount \in Nat /\ cr.claimed_amount \in Nat
  BY <1>1, <1>5, EffectiveType, VestedType, LeafFacts, BoundsAssumption DEF RecordType, U64
<1>7. amount \in Nat
  BY <1>3, <1>6 DEF ClaimableByWithdraw, SatSub
<1>8. ASSUME Undisturbed(leaf)
      PROVE  paid[EntitlementOf(leaf)] + amount <= Due(leaf)
  <2>1. Tells(cr, leaf, paid[EntitlementOf(leaf)])
    BY <1>5, <1>8
  <2>2. CASE leaf.release_type = Milestone
    <3>1. amount <= leaf.amount
      BY <1>3, <1>6, <2>2 DEF ClaimableByWithdraw
    <3> QED BY <1>1, <1>4, <1>7, <2>1, <2>2, <3>1, MilestoneWithin
  <2>3. CASE leaf.release_type # Milestone
    <3>1. amount > 0 /\ amount = SatSub(Vested(leaf, Effective), cr.claimed_amount)
      BY <1>3, <1>4, <2>3 DEF ClaimableByWithdraw, PayOut, Payable
    <3> QED BY <1>1, <1>5, <2>1, <2>3, <3>1, BeyondSumWithin
  <2> QED BY <2>2, <2>3
<1> QED BY <1>1, <1>4, <1>5, <1>7, <1>8, PayOutLedger

LEMMA CancelStreamLedger ==
    ASSUME LedgerInv, IInv', NEW signer, NEW leaf \in Leaves, CancelStream(signer, leaf)
    PROVE  LedgerInv'
<1>1. TypeOK /\ TypeOK' /\ RecordsSound /\ RecordsMatchPayments /\ Live /\ ~Cancelled
  BY DEF LedgerInv, IInv, CancelStream, DrainTree, DrainVault
<1>2. PICK cr : cr = LoadForStream(leaf)
  OBVIOUS
<1>3. PICK due : due = DueAtCancel(cr, leaf)
  OBVIOUS
<1>4. /\ MilestoneUnclaimed(cr, leaf)
      /\ due > 0 => cr.claimed_amount + due <= U64Max
      /\ record' = [record EXCEPT ![leaf.beneficiary] =
                       IF due > 0 THEN Credit(cr, leaf, due) ELSE cr]
      /\ paid' = [paid EXCEPT ![EntitlementOf(leaf)] = @ + due]
      /\ \/ tree' = NoTree
         \/ tree' = [Booked(due) EXCEPT !.cancelled_at = now, !.paused = FALSE]
      /\ now' = now /\ disturbed' = disturbed /\ rotated' = rotated /\ leaf \in tree.root
  BY <1>2, <1>3 DEF CancelStream, DrainTree, DrainVault, IsStreamLeaf
<1>5. /\ cr \in RecordType /\ Sound(cr)
      /\ \A l \in Leaves : l.beneficiary = leaf.beneficiary /\ Undisturbed(l) =>
           Tells(cr, l, paid[EntitlementOf(l)])
  BY <1>1, <1>2, LoadedTells
<1>6. tree \in TreeType /\ now \in Int /\ leaf.amount \in Nat /\ cr.claimed_amount \in Nat
  BY <1>1, <1>5, LeafFacts, BoundsAssumption DEF TypeOK, Live, RecordType, U64
<1>7. due \in Nat
  BY <1>1, <1>3, <1>5, DueAtCancelType
<1>8. Live' => Onward /\ leaf \in Carriers /\ Carriers \subseteq Carriers'
  <2>1. Live' => Onward /\ tree'.root = tree.root
    BY <1>1, <1>4, <1>6 DEF Live, Onward, Booked, TreeType, Cancelled
  <2> QED BY <1>1, <1>4, <2>1, CarriersAre, CarriersStay
<1>9. CASE due = 0
  <2>1. /\ record' = [record EXCEPT ![leaf.beneficiary] = cr] /\ paid' = paid
    BY <1>1, <1>4, <1>7, <1>9, LeafFacts DEF TypeOK
  <2>2. RecordsMatchPayments' /\ RecordsSound'
    BY <1>1, <1>4, <1>5, <2>1, RecordStep
  <2>3. NeverAheadOfSchedule'
    <3>1. CASE ~Live'
      BY <3>1 DEF NeverAheadOfSchedule
    <3>2. CASE Live'
      <4>1. \A l \in Leaves : Due(l) <= Due(l)'
        BY <1>1, <1>8, <3>2, DueStep
      <4> QED BY <1>1, <1>4, <1>8, <2>1, <3>2, <4>1, CarriersAre, ScheduleStep DEF LedgerInv
    <3> QED BY <3>1, <3>2
  <2> QED BY <2>2, <2>3 DEF LedgerInv
<1>10. CASE due > 0
  <2>1. ASSUME Undisturbed(leaf)
        PROVE  paid[EntitlementOf(leaf)] + due <= Due(leaf)
    <3>1. Tells(cr, leaf, paid[EntitlementOf(leaf)])
      BY <1>5, <2>1
    <3>2. CASE leaf.release_type = Milestone
      <4>1. leaf.milestone_idx \in tree.released /\ due <= leaf.amount
        BY <1>3, <1>6, <1>10, <3>2 DEF DueAtCancel, SatSub
      <4> QED BY <1>1, <1>4, <1>7, <3>1, <3>2, <4>1, MilestoneWithin
    <3>3. CASE leaf.release_type # Milestone
      <4>1. Effective = now
        BY <1>1 DEF Effective, EffectiveNow, Cancelled
      <4>2. due = SatSub(Vested(leaf, Effective), cr.claimed_amount)
        BY <1>3, <3>3, <4>1 DEF DueAtCancel
      <4> QED BY <1>1, <1>5, <1>10, <3>1, <3>3, <4>2, BeyondSumWithin
    <3> QED BY <3>2, <3>3
  <2>2. record' = [record EXCEPT ![leaf.beneficiary] = Credit(cr, leaf, due)]
    BY <1>4, <1>10
  <2>3. cr.claimed_amount + due <= U64Max
    BY <1>4, <1>10
  <2> QED BY <1>1, <1>4, <1>5, <1>7, <1>8, <1>10, <2>1, <2>2, <2>3, PayStep
<1> QED BY <1>7, <1>9, <1>10

(* A new tree owes nothing yet, and whoever has a record from an earlier   *)
(* tree counts as disturbed.                                               *)
LEMMA OpenLedger ==
    ASSUME LedgerInv, IInv', NEW t, NEW amount, Open(t, amount)
    PROVE  LedgerInv'
<1>1. /\ paid' = [e \in Entitlements |-> 0] /\ record' = record
      /\ disturbed' = disturbed \cup {b \in Beneficiaries : record[b] # NoRecord}
  BY DEF Open
<1>2. RecordsSound'
  BY <1>1 DEF LedgerInv, RecordsSound
<1>3. NeverAheadOfSchedule'
  BY <1>1 DEF NeverAheadOfSchedule
<1>4. ASSUME NEW leaf \in Leaves, Undisturbed(leaf)'
      PROVE  record'[leaf.beneficiary] = NoRecord /\ paid'[EntitlementOf(leaf)] = 0
  BY <1>1, <1>4, LeafFacts DEF Undisturbed
<1>5. RecordsMatchPayments'
  BY <1>4 DEF RecordsMatchPayments
<1> QED BY <1>2, <1>3, <1>5 DEF LedgerInv

LEMMA CloseLedger ==
    ASSUME LedgerInv, IInv', NEW b \in Beneficiaries, CloseClaimRecord(b)
    PROVE  LedgerInv'
<1>1. /\ Live /\ record' = [record EXCEPT ![b] = NoRecord] /\ tree' = tree
      /\ paid' = paid /\ now' = now /\ disturbed' = disturbed \cup {b}
  BY DEF CloseClaimRecord
<1>2. TypeOK /\ TypeOK' /\ now \in Int
  BY BoundsAssumption DEF LedgerInv, IInv, TypeOK
<1>3. RecordsSound'
  BY <1>1, <1>2 DEF LedgerInv, RecordsSound, TypeOK
<1>4. ASSUME NEW leaf \in Leaves, Undisturbed(leaf)'
      PROVE  Undisturbed(leaf) /\ record'[leaf.beneficiary] = record[leaf.beneficiary]
  BY <1>1, <1>2, <1>4, LeafFacts DEF Undisturbed, TypeOK
<1>5. RecordsMatchPayments'
  BY <1>1, <1>4 DEF LedgerInv, RecordsMatchPayments
<1>6. \A l \in Leaves : Due(l)' = Due(l) /\ Due(l) \in Int
  <2>1. tree.cancelled_at \in Nat \cup {None}
    BY <1>1, <1>2 DEF TypeOK, TreeType, Live
  <2>2. \A l \in Leaves : Due(l) \in 0 .. l.amount
    BY <1>2, <2>1, DueValue DEF Due
  <2>3. \A l \in Leaves : Due(l)' = Due(l)
    BY <1>1 DEF Due
  <2> QED BY <2>2, <2>3, LeafFacts
<1>7. Carriers \subseteq Carriers'
  BY <1>1, <1>2, CarriersStay DEF CloseClaimRecord
<1>8. NeverAheadOfSchedule'
  BY <1>1, <1>2, <1>6, <1>7, CarriersAre, ScheduleStep DEF LedgerInv
<1> QED BY <1>3, <1>5, <1>8 DEF LedgerInv
-----------------------------------------------------------------------------
LEMMA InitLedger == Init => LedgerInv
<1> SUFFICES ASSUME Init PROVE LedgerInv
  OBVIOUS
<1>1. \A leaf \in Leaves : record[leaf.beneficiary] = NoRecord /\ paid[EntitlementOf(leaf)] = 0
  BY LeafFacts DEF Init
<1>2. RecordsSound /\ RecordsMatchPayments
  BY <1>1 DEF Init, RecordsSound, RecordsMatchPayments
<1>3. NeverAheadOfSchedule
  BY DEF Init, NeverAheadOfSchedule, Live
<1> QED BY <1>2, <1>3, InitInv DEF LedgerInv

LEMMA NextLedger == LedgerInv /\ [Next]_vars => LedgerInv'
<1> SUFFICES ASSUME LedgerInv, [Next]_vars PROVE LedgerInv'
  OBVIOUS
<1>1. IInv' /\ TypeOK
  BY NextInv DEF LedgerInv, IInv
<1>2. now \in Int /\ (Live => tree \in TreeType)
  BY <1>1, BoundsAssumption DEF TypeOK, Live
<1>3. CASE Tick \/ UNCHANGED vars
  <2>1. /\ UNCHANGED <<record, paid, disturbed, rotated>>
        /\ tree' = tree /\ (now' = now \/ now' = now + 1)
    BY <1>3 DEF Tick, vars, accounts, history
  <2>2. Live' => Live /\ Onward /\ Carriers \subseteq Carriers'
    BY <1>1, <1>2, <2>1, CarriersStay DEF Live, Onward
  <2> QED BY <1>1, <2>1, <2>2, QuietStep
<1>4. CASE \/ \E args \in CampaignArgs : CreateCampaign(args)
           \/ \E args \in StreamArgs : CreateStream(args)
  BY <1>1, <1>4, OpenLedger DEF CreateCampaign, CreateStream, StreamTree
<1>5. CASE \/ \E amount \in FundAmounts : FundCampaign(amount) \/ FundCampaignNative(amount)
           \/ \E signer \in Keys : WithdrawUnvested(signer)
  <2>1. /\ UNCHANGED <<record, paid, disturbed, rotated>>
        /\ Live /\ tree' = tree /\ now' = now
    BY <1>5 DEF FundCampaign, FundCampaignNative, WithdrawUnvested
  <2>2. Onward /\ Carriers \subseteq Carriers'
    BY <1>1, <1>2, <2>1, CarriersStay DEF Onward
  <2> QED BY <1>1, <2>1, <2>2, QuietStep
<1>6. CASE \E leaf \in Leaves : Claim(leaf) \/ Withdraw(leaf)
  BY <1>1, <1>6, ClaimLedger, WithdrawLedger
<1>7. CASE \E signer \in Keys : CancelCampaign(signer) \/ InstantRefundCampaign(signer)
  <2>1. /\ UNCHANGED <<record, paid, disturbed, rotated>>
        /\ Live /\ ~Cancelled /\ now' = now
        /\ \/ tree' = [tree EXCEPT !.cancelled_at = now, !.paused = FALSE]
           \/ tree' = [tree EXCEPT !.cancelled_at = now, !.paused = FALSE,
                                   !.instant_refunded = TRUE]
    BY <1>7 DEF CancelCampaign, MayCancel, InstantRefundCampaign, history
  <2>2. Onward /\ tree'.root = tree.root
    BY <1>2, <2>1 DEF Onward, TreeType, Cancelled
  <2>3. Carriers \subseteq Carriers'
    BY <1>1, <2>1, <2>2, CarriersStay
  <2> QED BY <1>1, <2>1, <2>2, <2>3, QuietStep
<1>8. CASE \E signer \in Keys, leaf \in Leaves : CancelStream(signer, leaf)
  BY <1>1, <1>8, CancelStreamLedger
<1>9. CASE \/ \E signer \in Keys, args \in RootArgs : UpdateRoot(signer, args)
           \/ \E signer \in Keys : PauseCampaign(signer) \/ UnpauseCampaign(signer)
           \/ \E signer \in Keys, idx \in MilestoneIdx : SetMilestoneReleased(signer, idx)
  <2>1. /\ UNCHANGED <<record, paid, disturbed>> /\ Live /\ Onward
        /\ rotated' = TRUE \/ (rotated' = rotated /\ tree'.root = tree.root)
    BY <1>1, <1>9, FlagStep
  <2> QED BY <1>1, <2>1, CarriersStay, QuietStep
<1>10. CASE \E b \in Beneficiaries : CloseClaimRecord(b)
  BY <1>1, <1>10, CloseLedger
<1> QED BY <1>3, <1>4, <1>5, <1>6, <1>7, <1>8, <1>9, <1>10 DEF Next

LEMMA LedgerInvariant == Spec => []LedgerInv
BY InitLedger, NextLedger, PTL DEF Spec

(* The records remember what was paid (RecordsMatchPayments): the ledger   *)
(* the exact amount per leaf index, the bitmap that a milestone was paid,  *)
(* in every order of claims on several leaves of one beneficiary, across   *)
(* withdrawals and root rotations.                                         *)
THEOREM RecordsAlwaysMatch == Spec => []RecordsMatchPayments
<1>1. LedgerInv => RecordsMatchPayments
  BY DEF LedgerInv
<1> QED BY <1>1, LedgerInvariant, PTL

(* Nobody is ever ahead of schedule (NeverAheadOfSchedule): what was paid  *)
(* against an entitlement is at most what some leaf that carries it has    *)
(* vested, frozen at the cancellation.                                     *)
THEOREM NobodyAhead == Spec => []NeverAheadOfSchedule
<1>1. LedgerInv => NeverAheadOfSchedule
  BY DEF LedgerInv
<1> QED BY <1>1, LedgerInvariant, PTL

(* ----------------------------- sums ----------------------------- *)

LEMMA UnitsAre ==
    ASSUME NEW f, NEW S, NEW u
    PROVE  u \in Units(f, S) <=> \E x \in S : \E i \in 1 .. f[x] : u = <<x, i>>
BY DEF Units

LEMMA UnitIs ==
    ASSUME NEW f, NEW S, NEW x, NEW i
    PROVE  <<x, i>> \in Units(f, S) <=> x \in S /\ i \in 1 .. f[x]
BY UnitsAre

LEMMA UnitsFinite ==
    ASSUME NEW S, IsFiniteSet(S), NEW f, \A x \in S : f[x] \in Nat
    PROVE  IsFiniteSet(Units(f, S))
<1> DEFINE of == [x \in S |-> {x} \X (1 .. f[x])]
           C  == {{x} \X (1 .. f[x]) : x \in S}
<1>1. of \in Surjection(S, C)
  BY DEF Surjection
<1>2. IsFiniteSet(C)
  BY <1>1, FS_Surjection
<1>3. ASSUME NEW T \in C PROVE IsFiniteSet(T)
  <2>1. PICK x \in S : T = {x} \X (1 .. f[x])
    OBVIOUS
  <2>2. f[x] \in Int /\ 1 \in Int
    OBVIOUS
  <2>3. IsFiniteSet(1 .. f[x])
    BY <2>2, FS_Interval
  <2>4. IsFiniteSet({x})
    BY FS_Singleton
  <2> QED BY <2>1, <2>3, <2>4, FS_Product
<1> HIDE DEF C
<1>4. IsFiniteSet(UNION C)
  BY <1>2, <1>3, FS_UNION
<1> QED BY <1>4 DEF Units, C

LEMMA SumType ==
    ASSUME NEW S, IsFiniteSet(S), NEW f, \A x \in S : f[x] \in Nat
    PROVE  SumOf(f, S) \in Nat
BY UnitsFinite, FS_CardinalityType DEF SumOf

LEMMA SumSame ==
    ASSUME NEW S, NEW f, NEW g, \A x \in S : f[x] = g[x]
    PROVE  SumOf(f, S) = SumOf(g, S)
<1>1. \A u : u \in Units(f, S) <=> u \in Units(g, S)
  BY UnitsAre
<1> QED BY <1>1 DEF SumOf

(* More per element is more in all; and as much in all is the same. *)
LEMMA SumMonotone ==
    ASSUME NEW S, IsFiniteSet(S), NEW f, NEW g,
           \A x \in S : f[x] \in Nat /\ g[x] \in Nat /\ f[x] <= g[x]
    PROVE  /\ SumOf(f, S) <= SumOf(g, S)
           /\ SumOf(f, S) = SumOf(g, S) => \A x \in S : f[x] = g[x]
<1>1. Units(f, S) \subseteq Units(g, S)
  <2> SUFFICES ASSUME NEW u \in Units(f, S) PROVE u \in Units(g, S)
    OBVIOUS
  <2>1. PICK x \in S : \E i \in 1 .. f[x] : u = <<x, i>>
    BY UnitsAre
  <2>2. PICK i \in 1 .. f[x] : u = <<x, i>>
    BY <2>1
  <2>3. i \in 1 .. g[x]
    OBVIOUS
  <2> QED BY <2>2, <2>3, UnitsAre
<1>2. IsFiniteSet(Units(g, S))
  BY UnitsFinite
<1>3. /\ Cardinality(Units(f, S)) <= Cardinality(Units(g, S))
      /\ Cardinality(Units(g, S)) = Cardinality(Units(f, S)) => Units(g, S) = Units(f, S)
  BY <1>1, <1>2, FS_Subset
<1>4. ASSUME Units(g, S) = Units(f, S), NEW x \in S PROVE f[x] = g[x]
  <2>1. CASE g[x] = 0
    BY <2>1
  <2>2. CASE g[x] # 0
    <3>1. <<x, g[x]>> \in Units(g, S)
      BY <2>2, UnitIs
    <3>2. g[x] \in 1 .. f[x]
      BY <1>4, <3>1, UnitIs
    <3> QED BY <3>2
  <2> QED BY <2>1, <2>2
<1> QED BY <1>3, <1>4 DEF SumOf

(* An amount added to one element is added to the sum. *)
LEMMA SumAdd ==
    ASSUME NEW S, IsFiniteSet(S), NEW f, NEW g, NEW y \in S, NEW k \in Nat,
           \A x \in S : f[x] \in Nat /\ (x # y => g[x] = f[x]),
           g[y] = f[y] + k
    PROVE  SumOf(g, S) = SumOf(f, S) + k
<1> DEFINE more == {y} \X (f[y] + 1 .. f[y] + k)
<1>0. \A x \in S : g[x] \in Nat /\ f[x] <= g[x]
  OBVIOUS
<1>1a. f[y] \in Nat /\ f[y] + 1 \in Int /\ f[y] + k \in Int
  OBVIOUS
<1>1. Units(g, S) = Units(f, S) \cup more
  <2>1. ASSUME NEW u \in Units(g, S) PROVE u \in Units(f, S) \cup more
    <3>1. PICK x \in S : \E i \in 1 .. g[x] : u = <<x, i>>
      BY <2>1, UnitsAre
    <3>2. PICK i \in 1 .. g[x] : u = <<x, i>>
      BY <3>1
    <3>3. CASE x = y /\ i > f[y]
      <4>1. i \in f[y] + 1 .. f[y] + k
        BY <1>0, <3>2, <3>3
      <4> QED BY <3>2, <3>3, <4>1
    <3>4. CASE ~(x = y /\ i > f[y])
      <4>1. i \in 1 .. f[x]
        BY <1>0, <3>2, <3>4
      <4> QED BY <3>2, <4>1, UnitsAre
    <3> QED BY <3>3, <3>4
  <2>2. ASSUME NEW u \in Units(f, S) PROVE u \in Units(g, S)
    <3>1. PICK x \in S : \E i \in 1 .. f[x] : u = <<x, i>>
      BY <2>2, UnitsAre
    <3>2. PICK i \in 1 .. f[x] : u = <<x, i>>
      BY <3>1
    <3>3. i \in 1 .. g[x]
      BY <1>0
    <3> QED BY <3>2, <3>3, UnitsAre
  <2>3. ASSUME NEW u \in more PROVE u \in Units(g, S)
    <3>1. PICK i \in f[y] + 1 .. f[y] + k : u = <<y, i>>
      BY <2>3
    <3>2. i \in 1 .. g[y]
      BY <1>0, <3>1
    <3> QED BY <3>1, <3>2, UnitsAre
  <2> HIDE DEF more
  <2> QED BY <2>1, <2>2, <2>3
<1>2. Units(f, S) \cap more = {}
  <2> SUFFICES ASSUME NEW u \in Units(f, S), u \in more PROVE FALSE
    OBVIOUS
  <2>1. PICK x \in S : \E i \in 1 .. f[x] : u = <<x, i>>
    BY UnitsAre
  <2>2. PICK j \in f[y] + 1 .. f[y] + k : u = <<y, j>>
    OBVIOUS
  <2>3. PICK i \in 1 .. f[x] : u = <<x, i>>
    BY <2>1
  <2>4. x = y /\ i = j
    BY <2>2, <2>3
  <2> QED BY <2>4
<1>3. IsFiniteSet(more) /\ Cardinality(more) = k
  <2>1. IsFiniteSet(f[y] + 1 .. f[y] + k) /\ Cardinality(f[y] + 1 .. f[y] + k) = k
    <3>1. IsFiniteSet(f[y] + 1 .. f[y] + k)
      BY <1>1a, FS_Interval
    <3>2. f[y] + 1 > f[y] + k => k = 0
      BY <1>1a
    <3>3. Cardinality(f[y] + 1 .. f[y] + k)
            = IF f[y] + 1 > f[y] + k THEN 0 ELSE (f[y] + k) - (f[y] + 1) + 1
      BY <1>1a, FS_Interval
    <3> QED BY <1>1a, <3>1, <3>2, <3>3
  <2>2. IsFiniteSet({y}) /\ Cardinality({y}) = 1
    BY FS_Singleton
  <2>3. PICK I : I = f[y] + 1 .. f[y] + k
    OBVIOUS
  <2>4. IsFiniteSet({y} \X I) /\ Cardinality({y} \X I) = Cardinality({y}) * Cardinality(I)
    BY <2>1, <2>2, <2>3, FS_Product
  <2>5. Cardinality({y} \X I) = 1 * k
    BY <2>1, <2>2, <2>3, <2>4
  <2> QED BY <2>3, <2>4, <2>5
<1>4. IsFiniteSet(Units(f, S)) /\ Cardinality(Units(f, S)) \in Nat
  BY UnitsFinite, FS_CardinalityType
<1>5. Cardinality(Units(f, S) \cap more) = 0
  BY <1>2, FS_EmptySet
<1> HIDE DEF more
<1>6. Cardinality(Units(f, S) \cup more)
        = Cardinality(Units(f, S)) + Cardinality(more) - Cardinality(Units(f, S) \cap more)
  BY <1>3, <1>4, FS_Union
<1>7. Cardinality(Units(f, S) \cup more) = Cardinality(Units(f, S)) + k
  BY <1>3, <1>4, <1>5, <1>6
<1> QED BY <1>1, <1>7 DEF SumOf

LEMMA SumZero ==
    ASSUME NEW S, NEW f, \A x \in S : f[x] = 0
    PROVE  SumOf(f, S) = 0
<1>1. Units(f, S) = {}
  <2> SUFFICES ASSUME NEW u \in Units(f, S) PROVE FALSE
    OBVIOUS
  <2>1. PICK x \in S : \E i \in 1 .. f[x] : u = <<x, i>>
    BY UnitsAre
  <2> QED BY <2>1
<1> QED BY <1>1, FS_EmptySet DEF SumOf

(* The only amount that is not zero is the sum. *)
LEMMA SumSingle ==
    ASSUME NEW S, IsFiniteSet(S), NEW f, NEW y \in S, f[y] \in Nat,
           \A x \in S : x # y => f[x] = 0
    PROVE  SumOf(f, S) = f[y]
<1> DEFINE none == [x \in S |-> 0]
<1>1. SumOf(none, S) = 0
  BY SumZero
<1>2. SumOf(f, S) = SumOf(none, S) + f[y]
  <2>1. \A x \in S : none[x] \in Nat /\ (x # y => f[x] = none[x])
    OBVIOUS
  <2>2. f[y] = none[y] + f[y]
    OBVIOUS
  <2> HIDE DEF none
  <2> QED BY <2>1, <2>2, SumAdd
<1> QED BY <1>1, <1>2

(* Elements whose amounts others can stand for, one for one. *)
LEMMA SumInto ==
    ASSUME NEW S, NEW f, NEW R, IsFiniteSet(R), NEW g,
           \A x \in S : f[x] \in Nat, \A x \in R : g[x] \in Nat,
           NEW rep,
           \A x \in S : f[x] > 0 => rep[x] \in R /\ f[x] <= g[rep[x]],
           \A x, y \in S : f[x] > 0 /\ f[y] > 0 /\ rep[x] = rep[y] => x = y
    PROVE  SumOf(f, S) <= SumOf(g, R)
<1> DEFINE to == [u \in Units(f, S) |-> <<rep[u[1]], u[2]>>]
<1>1. \A u \in Units(f, S) : u[1] \in S /\ u[2] \in 1 .. f[u[1]] /\ u = <<u[1], u[2]>>
  BY UnitsAre
<1>2. \A u \in Units(f, S) : to[u] \in Units(g, R)
  <2> SUFFICES ASSUME NEW u \in Units(f, S) PROVE <<rep[u[1]], u[2]>> \in Units(g, R)
    OBVIOUS
  <2>1. u[1] \in S /\ u[2] \in 1 .. f[u[1]] /\ f[u[1]] > 0
    BY <1>1
  <2>2. rep[u[1]] \in R /\ u[2] \in 1 .. g[rep[u[1]]]
    BY <2>1
  <2> QED BY <2>2, UnitIs
<1>3. \A u, v \in Units(f, S) : to[u] = to[v] => u = v
  <2> SUFFICES ASSUME NEW u \in Units(f, S), NEW v \in Units(f, S), to[u] = to[v]
               PROVE  u = v
    OBVIOUS
  <2>1. rep[u[1]] = rep[v[1]] /\ u[2] = v[2]
    OBVIOUS
  <2>2. u[1] = v[1]
    <3>1. u[1] \in S /\ v[1] \in S /\ f[u[1]] > 0 /\ f[v[1]] > 0
      BY <1>1
    <3> QED BY <2>1, <3>1
  <2> QED BY <1>1, <2>1, <2>2
<1>4. to \in Injection(Units(f, S), Units(g, R))
  BY <1>2, <1>3 DEF Injection, IsInjective
<1>5. IsFiniteSet(Units(g, R))
  BY UnitsFinite
<1> HIDE DEF to
<1> QED BY <1>4, <1>5, FS_Injection DEF SumOf
-----------------------------------------------------------------------------
(* ------------------------- the invariant ------------------------- *)

(* Before the address is first initialised there is nothing. *)
NotYet == creations = 0 => tree = NoTree /\ \A b \in Beneficiaries : record[b] = NoRecord

(* total_claimed is what was paid against all entitlements. *)
PaidIsBooked == Live => tree.total_claimed = SumOf(paid, Entitlements)

(* A record's running sum is what its beneficiary was paid. *)
SumsRight ==
    \A b \in Beneficiaries \ disturbed : Claimed[b] = SumOf(paid, EntitlementsOf(b))

(* What the root promised against the entitlements paid so far. *)
AmountOf(e) == (CHOOSE leaf \in tree.root : EntitlementOf(leaf) = e).amount
Promised    == [e \in Entitlements |-> IF paid[e] > 0 THEN AmountOf(e) ELSE 0]

(* A record's total_entitled covers every leaf it was ever paid for. *)
Covers(cr, b) ==
    /\ Unambiguous(tree.root) => SumOf(Promised, EntitlementsOf(b)) <= cr.total_entitled
    /\ \A leaf \in tree.root :
         tree.root = {leaf} /\ leaf.beneficiary = b => leaf.amount <= cr.total_entitled

Entitled ==
    Live /\ ~rotated =>
        \A b \in Beneficiaries \ disturbed :
            record[b] # NoRecord => Covers(record[b], b)

TotalsInv ==
    /\ LedgerInv
    /\ NotYet
    /\ PaidIsBooked
    /\ RecordsMatchBooks
    /\ SumsRight
    /\ Entitled
-----------------------------------------------------------------------------
LEMMA Finite ==
    /\ IsFiniteSet(Beneficiaries) /\ IsFiniteSet(Entitlements)
    /\ \A b : IsFiniteSet(EntitlementsOf(b)) /\ EntitlementsOf(b) \subseteq Entitlements
    /\ \A root \in SUBSET Leaves : IsFiniteSet(root)
<1>1. IsFiniteSet(Beneficiaries)
  <2> DEFINE f == [leaf \in Leaves |-> leaf.beneficiary]
  <2>1. f \in Surjection(Leaves, Beneficiaries)
    BY DEF Surjection, Beneficiaries
  <2> QED BY <2>1, FS_Surjection, LeavesAssumption
<1>2. IsFiniteSet(Entitlements)
  <2> DEFINE f == [leaf \in Leaves |-> EntitlementOf(leaf)]
  <2>1. f \in Surjection(Leaves, Entitlements)
    BY DEF Surjection, Entitlements
  <2> QED BY <2>1, FS_Surjection, LeavesAssumption
<1>3. \A b : EntitlementsOf(b) \subseteq Entitlements
  BY DEF EntitlementsOf
<1>4. \A b : IsFiniteSet(EntitlementsOf(b))
  BY <1>2, <1>3, FS_Subset
<1>5. \A root \in SUBSET Leaves : IsFiniteSet(root)
  BY FS_Subset, LeavesAssumption
<1> QED BY <1>1, <1>2, <1>3, <1>4, <1>5

LEMMA PaidType ==
    ASSUME TypeOK
    PROVE  /\ \A e \in Entitlements : paid[e] \in Nat
           /\ \A b : \A e \in EntitlementsOf(b) : e \in Entitlements /\ paid[e] \in Nat
           /\ SumOf(paid, Entitlements) \in Nat
           /\ \A b : SumOf(paid, EntitlementsOf(b)) \in Nat
<1>1. \A e \in Entitlements : paid[e] \in Nat
  BY DEF TypeOK
<1>2. \A b : \A e \in EntitlementsOf(b) : e \in Entitlements /\ paid[e] \in Nat
  BY <1>1 DEF EntitlementsOf
<1>3. SumOf(paid, Entitlements) \in Nat
  BY <1>1, Finite, SumType
<1>4. ASSUME NEW b PROVE SumOf(paid, EntitlementsOf(b)) \in Nat
  BY <1>2, Finite, SumType
<1> QED BY <1>1, <1>2, <1>3, <1>4

LEMMA ClaimedType ==
    ASSUME TypeOK
    PROVE  /\ \A b \in Beneficiaries : Claimed[b] \in Nat
           /\ \A b \in Beneficiaries : record[b] # NoRecord =>
                record[b] \in RecordType /\ Claimed[b] = record[b].claimed_amount
<1>1. \A b \in Beneficiaries : record[b] # NoRecord =>
        record[b] \in RecordType /\ record[b].claimed_amount \in Nat
  BY BoundsAssumption DEF TypeOK, RecordType, U64
<1> QED BY <1>1 DEF Claimed

(* Paying amount against leaf adds it to the sum of all entitlements and   *)
(* to that of the leaf's beneficiary.                                      *)
LEMMA PaymentSums ==
    ASSUME TypeOK, NEW leaf \in Leaves, NEW amount \in Nat,
           paid' = [paid EXCEPT ![EntitlementOf(leaf)] = @ + amount]
    PROVE  /\ SumOf(paid', Entitlements) = SumOf(paid, Entitlements) + amount
           /\ \A b : SumOf(paid', EntitlementsOf(b))
                       = SumOf(paid, EntitlementsOf(b))
                           + (IF b = leaf.beneficiary THEN amount ELSE 0)
<1> DEFINE e0 == EntitlementOf(leaf)
<1>1. e0 \in Entitlements /\ e0[1] = leaf.beneficiary
  BY EntitlementFacts
<1>2. PICK after : after = paid'
  OBVIOUS
<1>3. /\ \A e \in Entitlements : paid[e] \in Nat /\ (e # e0 => after[e] = paid[e])
      /\ after[e0] = paid[e0] + amount
  BY <1>1, <1>2 DEF TypeOK
<1> HIDE DEF e0
<1>4. SumOf(after, Entitlements) = SumOf(paid, Entitlements) + amount
  BY <1>1, <1>3, Finite, SumAdd
<1>5. ASSUME NEW b, b = leaf.beneficiary
      PROVE  SumOf(after, EntitlementsOf(b)) = SumOf(paid, EntitlementsOf(b)) + amount
  <2>1. e0 \in EntitlementsOf(b)
    BY <1>1, <1>5 DEF EntitlementsOf
  <2>2. \A e \in EntitlementsOf(b) : paid[e] \in Nat /\ (e # e0 => after[e] = paid[e])
    BY <1>3, Finite
  <2>3. IsFiniteSet(EntitlementsOf(b))
    BY Finite
  <2> QED BY <1>3, <2>1, <2>2, <2>3, SumAdd
<1>6. ASSUME NEW b, b # leaf.beneficiary
      PROVE  SumOf(after, EntitlementsOf(b)) = SumOf(paid, EntitlementsOf(b)) + 0
  <2>1. \A e \in EntitlementsOf(b) : after[e] = paid[e]
    BY <1>1, <1>3, <1>6 DEF EntitlementsOf
  <2>2. SumOf(after, EntitlementsOf(b)) = SumOf(paid, EntitlementsOf(b))
    BY <2>1, SumSame
  <2> QED BY <2>2, PaidType
<1> QED BY <1>2, <1>4, <1>5, <1>6

(* Until the root is rotated, an undisturbed entitlement that was paid is  *)
(* one of a leaf of the root, and no more than its amount was paid.        *)
LEMMA PaidLeaf ==
    ASSUME LedgerInv, Live, ~rotated, NEW e \in Entitlements, e[1] \notin disturbed,
           paid[e] > 0
    PROVE  \E leaf \in tree.root :
              /\ leaf \in Leaves /\ EntitlementOf(leaf) = e
              /\ paid[e] <= Due(leaf) /\ Due(leaf) \in 0 .. leaf.amount
<1>1. TypeOK
  BY DEF LedgerInv, IInv
<1>2. tree \in TreeType /\ now \in Int
  BY <1>1, BoundsAssumption DEF TypeOK, Live
<1>3. PICK leaf \in tree.root : EntitlementOf(leaf) = e /\ paid[e] <= Due(leaf)
  BY DEF LedgerInv, NeverAheadOfSchedule, Carriers, Due
<1>4. leaf \in Leaves /\ tree.cancelled_at \in Nat \cup {None}
  BY <1>2 DEF TreeType
<1>5. Due(leaf) \in 0 .. leaf.amount
  BY <1>2, <1>4, DueValue DEF Due
<1> QED BY <1>3, <1>4, <1>5

(* In a root of one leaf, its entitlement is all its beneficiary was paid. *)
LEMMA SoleLeaf ==
    ASSUME LedgerInv, Live, ~rotated, NEW leaf \in Leaves, tree.root = {leaf},
           Undisturbed(leaf)
    PROVE  /\ SumOf(paid, EntitlementsOf(leaf.beneficiary)) = paid[EntitlementOf(leaf)]
           /\ \A e \in EntitlementsOf(leaf.beneficiary) :
                e # EntitlementOf(leaf) => paid[e] = 0
<1> DEFINE b == leaf.beneficiary
<1>1. TypeOK
  BY DEF LedgerInv, IInv
<1>2. EntitlementOf(leaf) \in EntitlementsOf(b) /\ b \notin disturbed
  BY EntitlementFacts DEF EntitlementsOf, Undisturbed
<1>3. ASSUME NEW e \in EntitlementsOf(b), e # EntitlementOf(leaf)
      PROVE  paid[e] = 0
  <2>1. e \in Entitlements /\ e[1] \notin disturbed /\ paid[e] \in Nat
    BY <1>1, <1>2, <1>3, PaidType DEF EntitlementsOf
  <2>2. CASE paid[e] > 0
    <3>1. \E l \in tree.root : EntitlementOf(l) = e
      BY <2>1, <2>2, PaidLeaf
    <3> QED BY <1>3, <3>1
  <2> QED BY <2>1, <2>2
<1>4. SumOf(paid, EntitlementsOf(b)) = paid[EntitlementOf(leaf)]
  BY <1>1, <1>2, <1>3, Finite, PaidType, SumSingle
<1> QED BY <1>3, <1>4

(* Nothing was paid to a beneficiary who has no record. *)
LEMMA NothingPaid ==
    ASSUME LedgerInv, NEW b \in Beneficiaries, b \notin disturbed, record[b] = NoRecord
    PROVE  \A e \in EntitlementsOf(b) : paid[e] = 0
<1> SUFFICES ASSUME NEW e \in EntitlementsOf(b) PROVE paid[e] = 0
  OBVIOUS
<1>1. PICK leaf \in Leaves : e = EntitlementOf(leaf) /\ leaf.beneficiary = b
  BY EntitlementFacts DEF EntitlementsOf, Entitlements
<1> QED BY <1>1 DEF LedgerInv, RecordsMatchPayments, Undisturbed

LEMMA PromisedFacts ==
    ASSUME LedgerInv, Live, ~rotated, NEW b, b \notin disturbed
    PROVE  /\ \A e \in EntitlementsOf(b) : Promised[e] \in Nat
           /\ SumOf(Promised, EntitlementsOf(b)) \in Nat
           /\ Unambiguous(tree.root) =>
                \A leaf \in tree.root : AmountOf(EntitlementOf(leaf)) = leaf.amount
           /\ Unambiguous(tree.root) =>
                \A e \in EntitlementsOf(b) : paid[e] <= Promised[e]
<1>1. TypeOK /\ tree.root \subseteq Leaves
  BY CarriersAre DEF LedgerInv, IInv, TypeOK, Live, TreeType
<1>2. ASSUME NEW e \in EntitlementsOf(b), paid[e] > 0
      PROVE  /\ Promised[e] = AmountOf(e) /\ AmountOf(e) \in Nat
             /\ \E leaf \in tree.root : /\ EntitlementOf(leaf) = e /\ leaf.amount \in Nat
                                        /\ paid[e] <= leaf.amount
  <2>1. e \in Entitlements /\ e[1] \notin disturbed /\ paid[e] \in Nat
    BY <1>1, <1>2, PaidType DEF EntitlementsOf
  <2>2. PICK leaf \in tree.root : /\ leaf \in Leaves /\ EntitlementOf(leaf) = e
                                  /\ paid[e] <= Due(leaf) /\ Due(leaf) \in 0 .. leaf.amount
    BY <1>2, <2>1, PaidLeaf
  <2>3. leaf.amount \in Nat
    BY <2>2, LeafFacts
  <2>4. AmountOf(e) \in Nat
    <3>1. PICK l : l = (CHOOSE m \in tree.root : EntitlementOf(m) = e)
      OBVIOUS
    <3>2. l \in tree.root
      BY <2>2, <3>1
    <3> QED BY <1>1, <3>1, <3>2, LeafFacts DEF AmountOf
  <2> QED BY <1>2, <2>1, <2>2, <2>3, <2>4 DEF Promised
<1>3. ASSUME NEW e \in EntitlementsOf(b), ~(paid[e] > 0)
      PROVE  Promised[e] = 0 /\ paid[e] = 0
  <2>1. e \in Entitlements /\ paid[e] \in Nat
    BY <1>1, <1>3, PaidType
  <2> QED BY <1>3, <2>1 DEF Promised
<1>4. \A e \in EntitlementsOf(b) : Promised[e] \in Nat
  BY <1>2, <1>3
<1>5. SumOf(Promised, EntitlementsOf(b)) \in Nat
  BY <1>4, Finite, SumType
<1>6. ASSUME Unambiguous(tree.root), NEW leaf \in tree.root
      PROVE  AmountOf(EntitlementOf(leaf)) = leaf.amount
  <2>1. PICK l : l = (CHOOSE m \in tree.root : EntitlementOf(m) = EntitlementOf(leaf))
    OBVIOUS
  <2>2. l \in tree.root /\ EntitlementOf(l) = EntitlementOf(leaf)
    BY <2>1
  <2>3. l = leaf
    BY <1>6, <2>2 DEF Unambiguous
  <2> QED BY <2>1, <2>3 DEF AmountOf
<1>7. ASSUME Unambiguous(tree.root), NEW e \in EntitlementsOf(b)
      PROVE  paid[e] <= Promised[e]
  <2>1. CASE paid[e] > 0
    <3>1. PICK leaf \in tree.root : /\ EntitlementOf(leaf) = e /\ leaf.amount \in Nat
                                    /\ paid[e] <= leaf.amount
      BY <1>2, <2>1
    <3> QED BY <1>2, <1>6, <1>7, <2>1, <3>1
  <2>2. CASE ~(paid[e] > 0)
    BY <1>3, <2>2
  <2> QED BY <2>1, <2>2
<1> QED BY <1>4, <1>5, <1>6, <1>7

(* In a root of one leaf, a record entitled to the leaf covers it. *)
LEMMA SoleCovers ==
    ASSUME LedgerInv, Live, ~rotated, NEW leaf \in Leaves, tree.root = {leaf},
           Undisturbed(leaf), NEW cr \in RecordType, leaf.amount <= cr.total_entitled
    PROVE  Covers(cr, leaf.beneficiary)
<1> DEFINE b  == leaf.beneficiary
           e0 == EntitlementOf(leaf)
<1>1. TypeOK /\ b \notin disturbed /\ leaf.amount \in Nat /\ cr.total_entitled \in Nat
  BY LeafFacts, BoundsAssumption DEF LedgerInv, IInv, Undisturbed, RecordType, U64
<1>2. e0 \in EntitlementsOf(b) /\ e0 \in Entitlements
  BY EntitlementFacts DEF EntitlementsOf
<1>3. ASSUME Unambiguous(tree.root)
      PROVE  SumOf(Promised, EntitlementsOf(b)) <= cr.total_entitled
  <2>1. \A e \in EntitlementsOf(b) : e # e0 => Promised[e] = 0
    <3>1. \A e \in EntitlementsOf(b) : e # e0 => paid[e] = 0
      BY SoleLeaf
    <3>2. \A e \in EntitlementsOf(b) : e \in Entitlements
      BY Finite
    <3> QED BY <3>1, <3>2 DEF Promised
  <2>2. Promised[e0] \in Nat
    BY <1>1, <1>2, PromisedFacts
  <2>3. SumOf(Promised, EntitlementsOf(b)) = Promised[e0]
    BY <1>2, <2>1, <2>2, Finite, SumSingle
  <2>4. AmountOf(e0) = leaf.amount
    BY <1>1, <1>3, PromisedFacts
  <2>5. Promised[e0] <= leaf.amount
    BY <1>1, <1>2, <2>4 DEF Promised
  <2> QED BY <1>1, <2>2, <2>3, <2>5
<1>4. ASSUME NEW l \in tree.root PROVE l.amount <= cr.total_entitled
  BY <1>4
<1> QED BY <1>3, <1>4 DEF Covers

LEMMA SoleCoversAll ==
    \A leaf \in Leaves, cr \in RecordType :
        /\ LedgerInv /\ Live /\ ~rotated /\ tree.root = {leaf} /\ Undisturbed(leaf)
        /\ leaf.amount <= cr.total_entitled
        => Covers(cr, leaf.beneficiary)
BY SoleCovers

LEMMA SoleCoversAfter ==
    (\A leaf \in Leaves, cr \in RecordType :
        /\ LedgerInv /\ Live /\ ~rotated /\ tree.root = {leaf} /\ Undisturbed(leaf)
        /\ leaf.amount <= cr.total_entitled
        => Covers(cr, leaf.beneficiary))'
BY SoleCoversAll, PTL
-----------------------------------------------------------------------------
(* ------------------------- payments ------------------------- *)

(* A step that pays amount against leaf and leaves the record new. *)
Payment(leaf, new, amount) ==
    /\ Live /\ leaf \in tree.root
    /\ new \in RecordType /\ amount \in Nat
    /\ new.claimed_amount = Claimed[leaf.beneficiary] + amount
    /\ record' = [record EXCEPT ![leaf.beneficiary] = new]
    /\ paid' = [paid EXCEPT ![EntitlementOf(leaf)] = @ + amount]
    /\ Live' => /\ tree'.root = tree.root
                /\ tree'.total_claimed = tree.total_claimed + amount
    /\ UNCHANGED <<creations, archived, disturbed, rotated>>

LEMMA LoadedClaimed ==
    ASSUME TypeOK, RecordsSound, NEW leaf \in Leaves,
           NEW cr, cr = LoadForClaim(leaf) \/ cr = LoadForStream(leaf)
    PROVE  /\ cr.claimed_amount = Claimed[leaf.beneficiary]
           /\ record[leaf.beneficiary] # NoRecord => cr = record[leaf.beneficiary]
<1>1. leaf.beneficiary \in Beneficiaries
  BY LeafFacts
<1>2. CASE record[leaf.beneficiary] = NoRecord
  BY <1>1, <1>2 DEF LoadForClaim, LoadForStream, FreshRecord, Claimed
<1>3. CASE record[leaf.beneficiary] # NoRecord
  BY <1>1, <1>3 DEF LoadForClaim, LoadForStream, RecordsSound, Sound, Claimed
<1> QED BY <1>2, <1>3

LEMMA CreditClaimed ==
    ASSUME NEW leaf \in Leaves, NEW cr \in RecordType, NEW amount \in Nat,
           cr.claimed_amount + amount <= U64Max
    PROVE  /\ Credit(cr, leaf, amount) \in RecordType
           /\ Credit(cr, leaf, amount).claimed_amount = cr.claimed_amount + amount
           /\ Credit(cr, leaf, amount).total_entitled = cr.total_entitled
BY CreditType DEF Credit, RecordType

LEMMA CountLeafKeeps ==
    ASSUME NEW cr \in RecordType, NEW leaf
    PROVE  /\ CountLeaf(cr, leaf).claimed_amount = cr.claimed_amount
           /\ CountLeaf(cr, leaf).total_entitled
                = cr.total_entitled + (IF LeafAlreadyCounted(cr, leaf) THEN 0 ELSE leaf.amount)
<1>1. cr.total_entitled + 0 = cr.total_entitled
  BY BoundsAssumption DEF RecordType, U64
<1> QED BY <1>1 DEF CountLeaf, RecordType

LEMMA PayOutPayment ==
    ASSUME TypeOK, Live, NEW leaf \in Leaves, leaf \in tree.root, NEW cr \in RecordType,
           cr.claimed_amount = Claimed[leaf.beneficiary],
           NEW amount \in Nat, PayOut(cr, leaf, amount)
    PROVE  Payment(leaf, Credit(cr, leaf, amount), amount)
<1>1. cr.claimed_amount + amount <= U64Max
  BY DEF PayOut, Payable
<1>2. /\ tree' = Booked(amount) \/ tree' = NoTree
      /\ record' = [record EXCEPT ![leaf.beneficiary] = Credit(cr, leaf, amount)]
      /\ paid' = [paid EXCEPT ![EntitlementOf(leaf)] = @ + amount]
      /\ UNCHANGED <<creations, archived, disturbed, rotated>>
  BY DEF PayOut, PayBeneficiary, PayLamports, PayTokens
<1>3. Live' => /\ tree'.root = tree.root
               /\ tree'.total_claimed = tree.total_claimed + amount
  BY <1>2 DEF Live, Booked, TypeOK, TreeType
<1> QED BY <1>1, <1>2, <1>3, CreditClaimed DEF Payment

(* What a claim pays, and what it makes of the record it loads. *)
LEMMA ClaimPayment ==
    ASSUME LedgerInv, NEW leaf \in Leaves, Claim(leaf)
    PROVE  \E amount \in Nat :
             LET cr  == CountLeaf(LoadForClaim(leaf), leaf)
                 new == Credit(cr, leaf, amount)
             IN  /\ amount > 0 /\ Payment(leaf, new, amount)
                 /\ new.total_entitled = cr.total_entitled
<1>1. TypeOK /\ RecordsSound /\ Live
  BY DEF LedgerInv, IInv, Claim
<1>2. PICK loaded : loaded = LoadForClaim(leaf)
  OBVIOUS
<1>3. PICK cr : cr = CountLeaf(loaded, leaf)
  OBVIOUS
<1>4. PICK amount : amount = ClaimableByClaim(cr, leaf)
  OBVIOUS
<1>5. cr.total_entitled <= U64Max /\ PayOut(cr, leaf, amount) /\ leaf \in tree.root
  BY <1>2, <1>3, <1>4 DEF Claim, ProofAccepted
<1>6. loaded \in RecordType /\ loaded.claimed_amount = Claimed[leaf.beneficiary]
  BY <1>1, <1>2, LoadForClaimType, LoadedClaimed
<1>7. cr \in RecordType /\ cr.claimed_amount = Claimed[leaf.beneficiary]
  BY <1>3, <1>5, <1>6, CountLeafType, CountLeafKeeps
<1>8. amount \in Nat /\ amount > 0
  <2>1. Vested(leaf, Effective) \in Nat /\ leaf.amount \in Nat
    BY <1>1, EffectiveType, VestedType, LeafFacts
  <2>2. LeafPriorClaimed(cr, leaf.leaf_index) \in Nat
    BY <1>7, LeafFacts, LeafPriorClaimedType
  <2>3. amount \in Nat
    BY <1>4, <2>1, <2>2 DEF ClaimableByClaim, SatSub
  <2> QED BY <1>5, <2>3 DEF PayOut, Payable
<1>9. Payment(leaf, Credit(cr, leaf, amount), amount)
  BY <1>1, <1>5, <1>7, <1>8, PayOutPayment
<1>10. Credit(cr, leaf, amount).total_entitled = cr.total_entitled
  BY <1>5, <1>7, <1>8, CreditClaimed DEF PayOut, Payable
<1> QED BY <1>2, <1>3, <1>8, <1>9, <1>10

(* withdraw and cancel_stream pay the sole leaf of the root. *)
LEMMA StreamPayment ==
    ASSUME LedgerInv, NEW leaf \in Leaves,
           Withdraw(leaf) \/ \E signer \in Keys : CancelStream(signer, leaf)
    PROVE  /\ tree.root = {leaf}
           /\ \E amount \in Nat, new \in RecordType :
                /\ Payment(leaf, new, amount)
                /\ new.total_entitled = LoadForStream(leaf).total_entitled
<1>1. TypeOK /\ RecordsSound /\ Live /\ tree.root = {leaf}
  BY DEF LedgerInv, IInv, Withdraw, CancelStream, IsStreamLeaf
<1>2. PICK cr : cr = LoadForStream(leaf)
  OBVIOUS
<1>3. /\ cr \in RecordType /\ cr.claimed_amount = Claimed[leaf.beneficiary]
      /\ cr.claimed_amount \in Nat
  BY <1>1, <1>2, LoadForStreamType, LoadedClaimed, BoundsAssumption DEF RecordType, U64
<1>4. CASE Withdraw(leaf)
  <2>1. PICK amount : amount = ClaimableByWithdraw(cr, leaf)
    OBVIOUS
  <2>2. PayOut(cr, leaf, amount)
    BY <1>2, <1>4, <2>1 DEF Withdraw
  <2>3. Vested(leaf, Effective) \in Nat /\ leaf.amount \in Nat
    BY <1>1, EffectiveType, VestedType, LeafFacts
  <2>4. amount \in Nat
    BY <1>3, <2>1, <2>3 DEF ClaimableByWithdraw, SatSub
  <2>5. Payment(leaf, Credit(cr, leaf, amount), amount)
    BY <1>1, <1>3, <2>2, <2>4, PayOutPayment
  <2>6. Credit(cr, leaf, amount) \in RecordType
          /\ Credit(cr, leaf, amount).total_entitled = cr.total_entitled
    BY <1>3, <2>2, <2>4, CreditClaimed DEF PayOut, Payable
  <2> QED BY <1>1, <1>2, <2>4, <2>5, <2>6
<1>5. CASE \E signer \in Keys : CancelStream(signer, leaf)
  <2>1. PICK due : due = DueAtCancel(cr, leaf)
    OBVIOUS
  <2>2. PICK new : new = IF due > 0 THEN Credit(cr, leaf, due) ELSE cr
    OBVIOUS
  <2>3. /\ due > 0 => cr.claimed_amount + due <= U64Max
        /\ record' = [record EXCEPT ![leaf.beneficiary] = new]
        /\ paid' = [paid EXCEPT ![EntitlementOf(leaf)] = @ + due]
        /\ \/ tree' = NoTree
           \/ tree' = [Booked(due) EXCEPT !.cancelled_at = now, !.paused = FALSE]
        /\ UNCHANGED <<creations, archived, disturbed, rotated>>
    BY <1>2, <1>5, <2>1, <2>2 DEF CancelStream, DrainTree, DrainVault
  <2>4. due \in Nat
    BY <1>1, <1>3, <2>1, DueAtCancelType
  <2>5. /\ new \in RecordType /\ new.claimed_amount = cr.claimed_amount + due
        /\ new.total_entitled = cr.total_entitled
    <3>1. CASE due > 0
      BY <1>3, <2>2, <2>3, <2>4, <3>1, CreditClaimed
    <3>2. CASE ~(due > 0)
      BY <1>3, <2>2, <2>4, <3>2
    <3> QED BY <3>1, <3>2
  <2>6. Live' => /\ tree'.root = tree.root
                 /\ tree'.total_claimed = tree.total_claimed + due
    BY <1>1, <2>3 DEF Live, Booked, TypeOK, TreeType
  <2>7. Payment(leaf, new, due)
    BY <1>1, <1>3, <2>3, <2>4, <2>5, <2>6 DEF Payment
  <2> QED BY <1>1, <1>2, <2>4, <2>5, <2>7
<1> QED BY <1>1, <1>4, <1>5
-----------------------------------------------------------------------------
(* ------------------------- the steps ------------------------- *)

(* A payment moves every total by its amount. *)
LEMMA PaymentTotals ==
    ASSUME TotalsInv, LedgerInv', NEW leaf \in Leaves, NEW new, NEW amount,
           Payment(leaf, new, amount),
           Live' /\ ~rotated /\ Undisturbed(leaf) => Covers(new, leaf.beneficiary)'
    PROVE  TotalsInv'
<1> DEFINE b == leaf.beneficiary
<1>1. /\ Live /\ new \in RecordType /\ amount \in Nat
      /\ new.claimed_amount = Claimed[b] + amount
      /\ record' = [record EXCEPT ![b] = new]
      /\ paid' = [paid EXCEPT ![EntitlementOf(leaf)] = @ + amount]
      /\ Live' => /\ tree'.root = tree.root
                  /\ tree'.total_claimed = tree.total_claimed + amount
      /\ creations' = creations /\ archived' = archived
      /\ disturbed' = disturbed /\ rotated' = rotated
  BY DEF Payment
<1>2. TypeOK /\ b \in Beneficiaries /\ new # NoRecord
  BY <1>1, LeafFacts, AbsenceAssumption DEF TotalsInv, LedgerInv, IInv
<1>3. creations # 0
  BY <1>1 DEF TotalsInv, NotYet, Live
<1>4. NotYet'
  BY <1>1, <1>3 DEF NotYet
<1>5. PaidIsBooked'
  BY <1>1, <1>2, PaymentSums DEF TotalsInv, PaidIsBooked
<1>6. PICK after : after = Claimed'
  OBVIOUS
<1>7. \A c \in Beneficiaries :
        /\ Claimed[c] \in Nat
        /\ c # b => after[c] = Claimed[c] /\ record'[c] = record[c]
  BY <1>1, <1>2, <1>6, ClaimedType DEF Claimed, TypeOK
<1>8. after[b] = Claimed[b] + amount /\ record'[b] = new
  BY <1>1, <1>2, <1>6 DEF Claimed, TypeOK
<1>9. SumOf(after, Beneficiaries) = SumOf(Claimed, Beneficiaries) + amount
  <2>1. \A c \in Beneficiaries : Claimed[c] \in Nat /\ (c # b => after[c] = Claimed[c])
    BY <1>7
  <2>2. b \in Beneficiaries /\ amount \in Nat /\ after[b] = Claimed[b] + amount
    BY <1>1, <1>2, <1>8
  <2> HIDE DEF b
  <2> QED BY <2>1, <2>2, Finite, SumAdd
<1>10. RecordsMatchBooks'
  <2> SUFFICES ASSUME Live', creations = 1
               PROVE  tree'.total_claimed = archived + SumOf(after, Beneficiaries)
    BY <1>1, <1>6 DEF RecordsMatchBooks
  <2>1. tree.total_claimed = archived + SumOf(Claimed, Beneficiaries)
    BY <1>1 DEF TotalsInv, RecordsMatchBooks
  <2>2. SumOf(Claimed, Beneficiaries) \in Nat
    BY <1>7, Finite, SumType
  <2>3. archived \in Nat
    BY <1>2 DEF TypeOK
  <2> QED BY <1>1, <1>9, <2>1, <2>2, <2>3
<1>11. SumsRight'
  <2> SUFFICES ASSUME NEW c \in Beneficiaries, c \notin disturbed
               PROVE  after[c] = SumOf(paid', EntitlementsOf(c))
    BY <1>1, <1>6 DEF SumsRight, EntitlementsOf
  <2>1. Claimed[c] = SumOf(paid, EntitlementsOf(c))
    BY DEF TotalsInv, SumsRight
  <2>2. SumOf(paid', EntitlementsOf(c))
          = SumOf(paid, EntitlementsOf(c)) + (IF c = b THEN amount ELSE 0)
    BY <1>1, <1>2, PaymentSums
  <2>3. CASE c = b
    BY <1>8, <2>1, <2>2, <2>3
  <2>4. CASE c # b
    BY <1>7, <2>1, <2>2, <2>4
  <2> QED BY <2>3, <2>4
<1>12. Entitled'
  <2> SUFFICES ASSUME Live', ~rotated, NEW c \in Beneficiaries, c \notin disturbed,
                      record'[c] # NoRecord
               PROVE  Covers(record[c], c)'
    BY <1>1 DEF Entitled
  <2>1. CASE c = b
    BY <1>8, <2>1 DEF Undisturbed
  <2>2. CASE c # b
    <3>1. record'[c] = record[c] /\ Covers(record[c], c)
      BY <1>1, <1>7, <2>2 DEF TotalsInv, Entitled
    <3>2. \A e \in EntitlementsOf(c) : Promised'[e] = Promised[e]
      <4>1. \A e \in EntitlementsOf(c) : e \in Entitlements /\ paid'[e] = paid[e]
        BY <1>1, <1>2, <2>2, EntitlementFacts DEF EntitlementsOf, TypeOK
      <4>2. \A e : AmountOf(e)' = AmountOf(e)
        BY <1>1 DEF AmountOf
      <4> QED BY <4>1, <4>2 DEF Promised
    <3>3. PICK promise : promise = Promised'
      OBVIOUS
    <3>4. SumOf(promise, EntitlementsOf(c)) = SumOf(Promised, EntitlementsOf(c))
      BY <3>2, <3>3, SumSame
    <3> QED BY <1>1, <3>1, <3>3, <3>4 DEF Covers, EntitlementsOf
  <2> QED BY <2>1, <2>2
<1> QED BY <1>4, <1>5, <1>10, <1>11, <1>12 DEF TotalsInv

(* A claim counts its leaf at the first payment, and at no other. *)
LEMMA ClaimCovers ==
    ASSUME TotalsInv, LedgerInv', NEW leaf \in Leaves, Live, Live', ~rotated,
           Undisturbed(leaf), NEW amount \in Nat, amount > 0, NEW new,
           Payment(leaf, new, amount),
           new.total_entitled = CountLeaf(LoadForClaim(leaf), leaf).total_entitled
    PROVE  Covers(new, leaf.beneficiary)'
<1> DEFINE b  == leaf.beneficiary
           e0 == EntitlementOf(leaf)
<1>1. /\ LedgerInv /\ TypeOK /\ RecordsSound /\ RecordsMatchPayments
      /\ b \in Beneficiaries /\ b \notin disturbed /\ leaf.amount \in Nat
  BY LeafFacts DEF TotalsInv, LedgerInv, IInv, Undisturbed
<1>2. /\ tree'.root = tree.root /\ leaf \in tree.root
      /\ paid' = [paid EXCEPT ![EntitlementOf(leaf)] = @ + amount]
      /\ new \in RecordType
  BY DEF Payment
<1>3. PICK cr : cr = LoadForClaim(leaf)
  OBVIOUS
<1>4. /\ cr \in RecordType /\ Sound(cr) /\ cr.total_entitled \in Nat
      /\ Tells(cr, leaf, paid[e0])
      /\ record[b] # NoRecord => cr = record[b]
  BY <1>1, <1>3, LoadedTells, LoadedClaimed, BoundsAssumption
     DEF RecordType, U64, Undisturbed
<1>5. e0 \in EntitlementsOf(b) /\ e0 \in Entitlements /\ paid[e0] \in Nat
  BY <1>1, EntitlementFacts, PaidType DEF EntitlementsOf
<1>6. LeafAlreadyCounted(cr, leaf) <=> paid[e0] > 0
  <2>1. CASE leaf.release_type = Milestone
    BY <1>4, <2>1 DEF LeafAlreadyCounted, Tells
  <2>2. CASE leaf.release_type # Milestone
    BY <1>4, <2>2, LeafFacts DEF LeafAlreadyCounted, Tells, LeafPriorClaimed, Sound
  <2> QED BY <2>1, <2>2
<1>7. new.total_entitled = cr.total_entitled + (IF paid[e0] > 0 THEN 0 ELSE leaf.amount)
  BY <1>3, <1>4, <1>6, CountLeafKeeps
<1>8. record[b] # NoRecord => Covers(cr, b)
  BY <1>1, <1>4 DEF TotalsInv, Entitled
<1>9. record[b] = NoRecord => \A e \in EntitlementsOf(b) : paid[e] = 0
  BY <1>1, NothingPaid
<1>10. ASSUME Unambiguous(tree.root)
       PROVE  SumOf(Promised', EntitlementsOf(b)) <= new.total_entitled
  <2>1. PICK promise : promise = Promised'
    OBVIOUS
  <2>2. \A e \in EntitlementsOf(b) : Promised[e] \in Nat
    BY <1>1, PromisedFacts
  <2>3. SumOf(Promised, EntitlementsOf(b)) \in Nat
    BY <1>1, PromisedFacts
  <2>4. \A e : AmountOf(e)' = AmountOf(e)
    BY <1>2 DEF AmountOf
  <2>5. AmountOf(e0) = leaf.amount
    BY <1>1, <1>2, <1>10, PromisedFacts
  <2>6. promise[e0] = leaf.amount
    BY <1>1, <1>2, <1>5, <2>1, <2>4, <2>5 DEF Promised, TypeOK
  <2>7. \A e \in EntitlementsOf(b) : e # e0 => promise[e] = Promised[e]
    <3>1. \A e \in EntitlementsOf(b) : e \in Entitlements /\ (e # e0 => paid'[e] = paid[e])
      BY <1>1, <1>2, <1>5 DEF EntitlementsOf, TypeOK
    <3> QED BY <2>1, <2>4, <3>1 DEF Promised
  <2>8. SumOf(Promised, EntitlementsOf(b)) <= cr.total_entitled
    <3>1. CASE record[b] # NoRecord
      BY <1>8, <1>10, <3>1 DEF Covers
    <3>2. CASE record[b] = NoRecord
      <4>1. \A e \in EntitlementsOf(b) : Promised[e] = 0
        BY <1>9, <3>2, Finite DEF Promised
      <4>2. SumOf(Promised, EntitlementsOf(b)) = 0
        BY <4>1, SumZero
      <4> QED BY <1>4, <4>2
    <3> QED BY <3>1, <3>2
  <2>9. CASE paid[e0] > 0
    <3>1. Promised[e0] = leaf.amount
      BY <1>5, <2>5, <2>9 DEF Promised
    <3>2. SumOf(promise, EntitlementsOf(b)) = SumOf(Promised, EntitlementsOf(b))
      BY <2>6, <2>7, <3>1, SumSame
    <3> QED BY <1>4, <1>7, <2>1, <2>8, <2>9, <3>2
  <2>10. CASE ~(paid[e0] > 0)
    <3>1. Promised[e0] = 0
      BY <1>5, <2>10 DEF Promised
    <3>2. promise[e0] = Promised[e0] + leaf.amount
      BY <1>1, <2>6, <3>1
    <3>3. SumOf(promise, EntitlementsOf(b)) = SumOf(Promised, EntitlementsOf(b)) + leaf.amount
      BY <1>1, <1>5, <2>2, <2>7, <3>2, Finite, SumAdd
    <3> QED BY <1>1, <1>4, <1>7, <2>1, <2>3, <2>8, <2>10, <3>3
  <2> QED BY <2>9, <2>10
<1>11. ASSUME tree.root = {leaf} PROVE leaf.amount <= new.total_entitled
  <2>1. CASE paid[e0] > 0
    <3>1. record[b] # NoRecord
      BY <1>5, <1>9, <2>1
    <3>2. leaf.amount <= cr.total_entitled
      BY <1>8, <1>11, <3>1 DEF Covers
    <3> QED BY <1>1, <1>4, <1>7, <2>1, <3>2
  <2>2. CASE ~(paid[e0] > 0)
    BY <1>1, <1>4, <1>7, <2>2
  <2> QED BY <2>1, <2>2
<1>12. \A l \in tree.root : tree.root = {l} => l = leaf
  BY <1>2
<1> QED BY <1>2, <1>10, <1>11, <1>12 DEF Covers, EntitlementsOf

LEMMA ClaimTotals ==
    ASSUME TotalsInv, LedgerInv', NEW leaf \in Leaves, Claim(leaf)
    PROVE  TotalsInv'
<1>1. PICK amount \in Nat :
        LET cr  == CountLeaf(LoadForClaim(leaf), leaf)
            new == Credit(cr, leaf, amount)
        IN  /\ amount > 0 /\ Payment(leaf, new, amount)
            /\ new.total_entitled = cr.total_entitled
  BY ClaimPayment DEF TotalsInv
<1>2. PICK new : new = Credit(CountLeaf(LoadForClaim(leaf), leaf), leaf, amount)
  OBVIOUS
<1>3. /\ amount > 0 /\ Payment(leaf, new, amount) /\ Live
      /\ new.total_entitled = CountLeaf(LoadForClaim(leaf), leaf).total_entitled
  BY <1>1, <1>2 DEF Payment
<1>4. Live' /\ ~rotated /\ Undisturbed(leaf) => Covers(new, leaf.beneficiary)'
  BY <1>3, ClaimCovers
<1> QED BY <1>3, <1>4, PaymentTotals

LEMMA StreamTotals ==
    ASSUME TotalsInv, LedgerInv', NEW leaf \in Leaves,
           Withdraw(leaf) \/ \E signer \in Keys : CancelStream(signer, leaf)
    PROVE  TotalsInv'
<1>1. tree.root = {leaf} /\ LedgerInv
  BY StreamPayment DEF TotalsInv
<1>2. PICK amount \in Nat, new \in RecordType :
        /\ Payment(leaf, new, amount)
        /\ new.total_entitled = LoadForStream(leaf).total_entitled
  BY <1>1, StreamPayment
<1>3. ASSUME Live', ~rotated, Undisturbed(leaf)
      PROVE  Covers(new, leaf.beneficiary)'
  <2>1. /\ Live /\ tree'.root = {leaf} /\ ~rotated' /\ Undisturbed(leaf)'
        /\ leaf.beneficiary \in Beneficiaries /\ leaf.beneficiary \notin disturbed
        /\ leaf.amount \in Nat
    BY <1>1, <1>2, <1>3, LeafFacts DEF Payment, Undisturbed
  <2>2. leaf.amount <= LoadForStream(leaf).total_entitled
    <3>1. CASE record[leaf.beneficiary] = NoRecord
      BY <2>1, <3>1 DEF LoadForStream, FreshRecord
    <3>2. CASE record[leaf.beneficiary] # NoRecord
      <4>1. LoadForStream(leaf) = record[leaf.beneficiary]
        BY <1>1, <3>2, LoadedClaimed DEF LedgerInv, IInv
      <4>2. Covers(record[leaf.beneficiary], leaf.beneficiary)
        BY <1>3, <2>1, <3>2 DEF TotalsInv, Entitled
      <4> QED BY <1>1, <4>1, <4>2 DEF Covers
    <3> QED BY <3>1, <3>2
  <2> QED BY <1>2, <1>3, <2>1, <2>2, SoleCoversAfter
<1> QED BY <1>2, <1>3, PaymentTotals

(* A step that touches neither the records nor total_claimed, and keeps    *)
(* the root unless it rotates it.                                          *)
LEMMA QuietTotals ==
    ASSUME TotalsInv, LedgerInv',
           UNCHANGED <<record, paid, disturbed, archived, creations>>,
           Live' => Live /\ tree'.total_claimed = tree.total_claimed,
           Live' /\ ~rotated' => ~rotated /\ tree'.root = tree.root,
           creations = 0 => tree' = tree
    PROVE  TotalsInv'
<1>1. NotYet' /\ PaidIsBooked'
  BY DEF TotalsInv, NotYet, PaidIsBooked
<1>2. Claimed' = Claimed
  BY DEF Claimed
<1>3. RecordsMatchBooks' /\ SumsRight'
  BY <1>2 DEF TotalsInv, RecordsMatchBooks, SumsRight, EntitlementsOf
<1>4. Entitled'
  <2> SUFFICES ASSUME Live', ~rotated', NEW b \in Beneficiaries, b \notin disturbed,
                      record[b] # NoRecord
               PROVE  Covers(record[b], b)'
    BY DEF Entitled
  <2>1. Covers(record[b], b) /\ tree'.root = tree.root
    BY DEF TotalsInv, Entitled
  <2>2. Promised' = Promised
    BY <2>1 DEF Promised, AmountOf
  <2> QED BY <2>1, <2>2 DEF Covers, EntitlementsOf
<1> QED BY <1>1, <1>3, <1>4 DEF TotalsInv

LEMMA OpenTotals ==
    ASSUME TotalsInv, LedgerInv', NEW t, NEW amount, Open(t, amount), t.total_claimed = 0
    PROVE  TotalsInv'
<1>1. /\ paid' = [e \in Entitlements |-> 0] /\ record' = record /\ archived' = 0
      /\ disturbed' = disturbed \cup {b \in Beneficiaries : record[b] # NoRecord}
      /\ creations' = creations + 1 /\ tree' = t /\ ~rotated'
  BY DEF Open
<1>2. TypeOK /\ creations \in Nat
  BY BoundsAssumption DEF TotalsInv, LedgerInv, IInv, TypeOK
<1>3. NotYet'
  BY <1>1, <1>2 DEF NotYet
<1>4. PICK none : none = paid'
  OBVIOUS
<1>5. \A e \in Entitlements : none[e] = 0
  BY <1>1, <1>4
<1>6. SumOf(none, Entitlements) = 0
  BY <1>5, SumZero
<1>7. \A b : SumOf(none, EntitlementsOf(b)) = 0
  <2> SUFFICES ASSUME NEW b PROVE SumOf(none, EntitlementsOf(b)) = 0
    OBVIOUS
  <2>1. \A e \in EntitlementsOf(b) : none[e] = 0
    BY <1>5, Finite
  <2> QED BY <2>1, SumZero
<1>8. PaidIsBooked'
  BY <1>1, <1>4, <1>6 DEF PaidIsBooked
<1>9. Claimed' = Claimed
  BY <1>1 DEF Claimed
<1>10. RecordsMatchBooks'
  <2>1. CASE creations = 0
    <3>1. \A b \in Beneficiaries : Claimed[b] = 0
      BY <2>1 DEF TotalsInv, NotYet, Claimed
    <3>2. SumOf(Claimed, Beneficiaries) = 0
      BY <3>1, SumZero
    <3> QED BY <1>1, <1>9, <3>2 DEF RecordsMatchBooks
  <2>2. CASE creations # 0
    BY <1>1, <1>2, <2>2 DEF RecordsMatchBooks
  <2> QED BY <2>1, <2>2
<1>11. SumsRight'
  <2> SUFFICES ASSUME NEW b \in Beneficiaries, b \notin disturbed'
               PROVE  Claimed[b] = SumOf(none, EntitlementsOf(b))
    BY <1>4, <1>9 DEF SumsRight, EntitlementsOf
  <2>1. record[b] = NoRecord
    BY <1>1
  <2> QED BY <1>7, <2>1 DEF Claimed
<1>12. Entitled'
  BY <1>1 DEF Entitled
<1> QED BY <1>3, <1>8, <1>10, <1>11, <1>12 DEF TotalsInv

(* The record that closes takes its part of the sum into the archive.      *)
LEMMA CloseTotals ==
    ASSUME TotalsInv, LedgerInv', NEW b \in Beneficiaries, CloseClaimRecord(b)
    PROVE  TotalsInv'
<1>1. /\ Live /\ record[b] # NoRecord /\ record' = [record EXCEPT ![b] = NoRecord]
      /\ archived' = archived + record[b].claimed_amount /\ disturbed' = disturbed \cup {b}
      /\ tree' = tree /\ paid' = paid /\ creations' = creations /\ rotated' = rotated
  BY DEF CloseClaimRecord
<1>2. TypeOK /\ Claimed[b] = record[b].claimed_amount
  BY <1>1, ClaimedType DEF TotalsInv, LedgerInv, IInv
<1>3. NotYet' /\ PaidIsBooked'
  BY <1>1 DEF TotalsInv, NotYet, PaidIsBooked, Live
<1>4. PICK after : after = Claimed'
  OBVIOUS
<1>5. \A c \in Beneficiaries :
        /\ after[c] \in Nat /\ Claimed[c] \in Nat
        /\ c # b => Claimed[c] = after[c] /\ record'[c] = record[c]
  BY <1>1, <1>2, <1>4, ClaimedType DEF Claimed, TypeOK
<1>6. after[b] = 0 /\ Claimed[b] = after[b] + Claimed[b]
  BY <1>1, <1>2, <1>4, ClaimedType DEF Claimed, TypeOK
<1>7. SumOf(Claimed, Beneficiaries) = SumOf(after, Beneficiaries) + Claimed[b]
  <2>1. \A c \in Beneficiaries : after[c] \in Nat /\ (c # b => Claimed[c] = after[c])
    BY <1>5
  <2> QED BY <1>5, <1>6, <2>1, Finite, SumAdd
<1>8. RecordsMatchBooks'
  <2>1. SumOf(after, Beneficiaries) \in Nat /\ archived \in Nat /\ Claimed[b] \in Nat
    BY <1>2, <1>5, Finite, SumType DEF TypeOK
  <2> QED BY <1>1, <1>2, <1>4, <1>7, <2>1 DEF TotalsInv, RecordsMatchBooks
<1>9. SumsRight'
  BY <1>1, <1>4, <1>5 DEF TotalsInv, SumsRight, EntitlementsOf
<1>10. Entitled'
  <2> SUFFICES ASSUME ~rotated, NEW c \in Beneficiaries, c \notin disturbed, c # b,
                      record[c] # NoRecord
               PROVE  Covers(record[c], c)'
    BY <1>1, <1>5 DEF Entitled
  <2>1. Covers(record[c], c) /\ record'[c] = record[c]
    BY <1>1, <1>5 DEF TotalsInv, Entitled
  <2>2. Promised' = Promised
    BY <1>1 DEF Promised, AmountOf
  <2> QED BY <1>1, <2>1, <2>2 DEF Covers, EntitlementsOf
<1> QED BY <1>3, <1>8, <1>9, <1>10 DEF TotalsInv
-----------------------------------------------------------------------------
LEMMA InitTotals == Init => TotalsInv
<1> SUFFICES ASSUME Init PROVE TotalsInv
  OBVIOUS
<1>1. LedgerInv
  BY InitLedger
<1>2. NotYet /\ PaidIsBooked /\ RecordsMatchBooks /\ Entitled
  BY DEF Init, NotYet, PaidIsBooked, RecordsMatchBooks, Entitled, Live
<1>3. SumsRight
  <2> SUFFICES ASSUME NEW b \in Beneficiaries
               PROVE  Claimed[b] = SumOf(paid, EntitlementsOf(b))
    BY DEF SumsRight
  <2>1. Claimed[b] = 0
    BY DEF Init, Claimed
  <2>2. \A e \in EntitlementsOf(b) : paid[e] = 0
    BY Finite DEF Init
  <2> QED BY <2>1, <2>2, SumZero
<1> QED BY <1>1, <1>2, <1>3 DEF TotalsInv

LEMMA NextTotals == TotalsInv /\ [Next]_vars => TotalsInv'
<1> SUFFICES ASSUME TotalsInv, [Next]_vars PROVE TotalsInv'
  OBVIOUS
<1>1. LedgerInv' /\ LedgerInv /\ TypeOK
  BY NextLedger DEF TotalsInv, LedgerInv, IInv
<1>2. Live => tree \in TreeType /\ creations # 0
  BY <1>1 DEF TotalsInv, NotYet, TypeOK, Live
<1>3. CASE Tick \/ UNCHANGED vars
  <2>1. UNCHANGED <<tree, record, paid, disturbed, archived, creations, rotated>>
    BY <1>3 DEF Tick, vars, accounts, history
  <2> QED BY <1>1, <2>1, QuietTotals DEF Live
<1>4. CASE \/ \E args \in CampaignArgs : CreateCampaign(args)
           \/ \E args \in StreamArgs : CreateStream(args)
  <2>1. CASE \E args \in CampaignArgs : CreateCampaign(args)
    <3>1. PICK args \in CampaignArgs : CreateCampaign(args)
      BY <2>1
    <3>2. PICK t : /\ t.total_claimed = 0 /\ Open(t, 0)
      BY <3>1 DEF CreateCampaign
    <3> QED BY <1>1, <3>2, OpenTotals
  <2>2. CASE \E args \in StreamArgs : CreateStream(args)
    <3>1. PICK args \in StreamArgs : CreateStream(args)
      BY <2>2
    <3>2. StreamTree(args).total_claimed = 0 /\ Open(StreamTree(args), args.leaf.amount)
      BY <3>1 DEF CreateStream, StreamTree
    <3> QED BY <1>1, <3>2, OpenTotals
  <2> QED BY <1>4, <2>1, <2>2
<1>5. CASE \/ \E amount \in FundAmounts : FundCampaign(amount) \/ FundCampaignNative(amount)
           \/ \E signer \in Keys : WithdrawUnvested(signer)
  BY <1>1, <1>5, QuietTotals DEF FundCampaign, FundCampaignNative, WithdrawUnvested, Live
<1>6. CASE \E leaf \in Leaves : Claim(leaf)
  BY <1>1, <1>6, ClaimTotals
<1>7. CASE \E leaf \in Leaves :
             Withdraw(leaf) \/ \E signer \in Keys : CancelStream(signer, leaf)
  BY <1>1, <1>7, StreamTotals
<1>8. CASE \/ \E signer \in Keys : CancelCampaign(signer) \/ InstantRefundCampaign(signer)
           \/ \E signer \in Keys : PauseCampaign(signer) \/ UnpauseCampaign(signer)
           \/ \E signer \in Keys, idx \in MilestoneIdx : SetMilestoneReleased(signer, idx)
  <2>1. /\ UNCHANGED <<record, paid, disturbed, archived, creations, rotated>> /\ Live
        /\ \/ tree' = [tree EXCEPT !.cancelled_at = now, !.paused = FALSE]
           \/ tree' = [tree EXCEPT !.cancelled_at = now, !.paused = FALSE,
                                   !.instant_refunded = TRUE]
           \/ \E p \in BOOLEAN : tree' = [tree EXCEPT !.paused = p]
           \/ \E idx \in MilestoneIdx : tree' = [tree EXCEPT !.released = @ \cup {idx}]
    BY <1>8 DEF CancelCampaign, MayCancel, InstantRefundCampaign, PauseCampaign,
                UnpauseCampaign, MayPause, SetMilestoneReleased, history
  <2>2. tree'.total_claimed = tree.total_claimed /\ tree'.root = tree.root
    BY <1>2, <2>1 DEF TreeType
  <2> QED BY <1>1, <1>2, <2>1, <2>2, QuietTotals
<1>9. CASE \E signer \in Keys, args \in RootArgs : UpdateRoot(signer, args)
  <2>1. /\ UNCHANGED <<record, paid, disturbed, archived, creations>> /\ Live
        /\ rotated' = TRUE /\ \E args \in RootArgs : tree' = Rotated(args)
    BY <1>9 DEF UpdateRoot, MayCancel
  <2>2. tree'.total_claimed = tree.total_claimed
    BY <1>2, <2>1 DEF TreeType, Rotated
  <2> QED BY <1>1, <1>2, <2>1, <2>2, QuietTotals
<1>10. CASE \E b \in Beneficiaries : CloseClaimRecord(b)
  BY <1>1, <1>10, CloseTotals
<1> QED BY <1>3, <1>4, <1>5, <1>6, <1>7, <1>8, <1>9, <1>10 DEF Next

LEMMA TotalsInvariant == Spec => []TotalsInv
BY InitTotals, NextTotals, PTL DEF Spec
-----------------------------------------------------------------------------
(* ------------------------- what follows ------------------------- *)

(* The books are the records (RecordsMatchBooks): total_claimed, which     *)
(* claim, withdraw and cancel_stream keep, is the sum of the records'      *)
(* claimed_amount, those of the closed records included.                   *)
THEOREM RecordsAlwaysMatchBooks == Spec => []RecordsMatchBooks
<1>1. TotalsInv => RecordsMatchBooks
  BY DEF TotalsInv
<1> QED BY <1>1, TotalsInvariant, PTL

(* On a single leaf the running sum that withdraw subtracts is the ledger  *)
(* entry that claim subtracts (TwoPathsAgree).                             *)
THEOREM PathsAlwaysAgree == Spec => []TwoPathsAgree
<1>1. ASSUME TotalsInv PROVE TwoPathsAgree
  <2> SUFFICES ASSUME Live, ~rotated, NEW leaf \in tree.root, IsStreamLeaf(leaf),
                      leaf.release_type # Milestone, Undisturbed(leaf)
               PROVE  ClaimableByWithdraw(LoadForStream(leaf), leaf)
                        = ClaimableByClaim(LoadForClaim(leaf), leaf)
    BY DEF TwoPathsAgree
  <2> DEFINE b == leaf.beneficiary
  <2>1. /\ LedgerInv /\ TypeOK /\ RecordsSound /\ RecordsMatchPayments
        /\ leaf \in Leaves /\ tree.root = {leaf}
    BY <1>1, CarriersAre DEF TotalsInv, LedgerInv, IInv, IsStreamLeaf, Carriers,
                             TypeOK, Live, TreeType
  <2>2. b \in Beneficiaries /\ b \notin disturbed
    BY <2>1, LeafFacts DEF Undisturbed
  <2>3. /\ LoadForStream(leaf).claimed_amount = Claimed[b]
        /\ record[b] # NoRecord => LoadForClaim(leaf) = record[b]
    BY <2>1, LoadedClaimed
  <2>4. Tells(LoadForClaim(leaf), leaf, paid[EntitlementOf(leaf)])
    BY <2>1, LoadedTells
  <2>5. Claimed[b] = paid[EntitlementOf(leaf)]
    BY <1>1, <2>1, <2>2, SoleLeaf DEF TotalsInv, SumsRight
  <2>6. LoadForStream(leaf).claimed_amount
          = LeafPriorClaimed(LoadForClaim(leaf), leaf.leaf_index)
    BY <2>3, <2>4, <2>5 DEF Tells
  <2> QED BY <2>6 DEF ClaimableByWithdraw, ClaimableByClaim
<1>2. TotalsInv => TwoPathsAgree
  BY <1>1
<1> QED BY <1>2, TotalsInvariant, PTL

(* Whoever claims next can be paid (EveryClaimCovered): in the first root  *)
(* of a campaign funded in full, what a leaf is due fits into the vault    *)
(* and under the cap, whatever the other leaves were paid before.  What    *)
(* was paid, with the next claim in it, can be told apart among the leaves *)
(* of the root, each up to its amount, and these fit the supply.           *)
THEOREM ClaimsAlwaysCovered == Spec => []EveryClaimCovered
<1>1. ASSUME TotalsInv PROVE EveryClaimCovered
  <2> SUFFICES ASSUME Live, ~rotated, disturbed = {}, FullyBacked, RootWithinSupply,
                      NEW leaf \in tree.root
               PROVE  /\ Outstanding(leaf) <= Balance
                      /\ tree.total_claimed + Outstanding(leaf) <= tree.total_supply
    BY DEF EveryClaimCovered
  <2> DEFINE e0 == EntitlementOf(leaf)
  <2>1. /\ LedgerInv /\ TypeOK /\ tree.root \in SUBSET Leaves /\ leaf \in Leaves
        /\ tree.cancelled_at \in Nat \cup {None} /\ now \in Int
    BY <1>1, BoundsAssumption DEF TotalsInv, LedgerInv, IInv, TypeOK, Live, TreeType
  <2>2. /\ tree.total_claimed \in Nat /\ tree.total_supply \in Nat /\ Balance \in Nat
        /\ e0 \in Entitlements /\ paid[e0] \in Nat
    BY <2>1, BalanceType, EntitlementFacts, PaidType
  <2>3. Due(leaf) \in 0 .. leaf.amount /\ leaf.amount \in Nat
    BY <2>1, DueValue, LeafFacts DEF Due
  <2>4. PICK more \in Nat : /\ more = Outstanding(leaf)
                            /\ more > 0 => paid[e0] + more = Due(leaf)
    BY <2>2, <2>3 DEF Outstanding, Due, SatSub
  <2>5. PICK after : after = [paid EXCEPT ![e0] = @ + more]
    OBVIOUS
  <2>6. /\ \A e \in Entitlements : /\ paid[e] \in Nat /\ after[e] \in Nat
                                   /\ e # e0 => after[e] = paid[e]
        /\ after[e0] = paid[e0] + more
    BY <2>1, <2>2, <2>5 DEF TypeOK
  <2> HIDE DEF e0
  <2>7. SumOf(after, Entitlements) = tree.total_claimed + more
    <3>1. SumOf(after, Entitlements) = SumOf(paid, Entitlements) + more
      BY <2>2, <2>6, Finite, SumAdd
    <3> QED BY <1>1, <3>1 DEF TotalsInv, PaidIsBooked
  <2>8. PICK due : due = [l \in tree.root |-> l.amount]
    OBVIOUS
  <2>9. PICK rep : rep = [e \in Entitlements |->
                            IF e = e0 /\ more > 0 THEN leaf
                            ELSE CHOOSE l \in tree.root :
                                   /\ l \in Leaves /\ EntitlementOf(l) = e
                                   /\ paid[e] <= Due(l) /\ Due(l) \in 0 .. l.amount]
    OBVIOUS
  <2>10. ASSUME NEW e \in Entitlements, after[e] > 0
         PROVE  rep[e] \in tree.root /\ EntitlementOf(rep[e]) = e /\ after[e] <= due[rep[e]]
    <3>1. CASE e = e0 /\ more > 0
      <4>1. rep[e] = leaf /\ EntitlementOf(leaf) = e0
        BY <2>9, <2>10, <3>1 DEF e0
      <4> QED BY <2>3, <2>4, <2>6, <2>8, <3>1, <4>1
    <3>2. CASE ~(e = e0 /\ more > 0)
      <4>1. after[e] = paid[e] /\ e[1] \notin disturbed
        BY <2>2, <2>6, <2>10, <3>2
      <4>2. \E l \in tree.root : /\ l \in Leaves /\ EntitlementOf(l) = e
                                 /\ paid[e] <= Due(l) /\ Due(l) \in 0 .. l.amount
        BY <2>1, <2>10, <4>1, PaidLeaf
      <4>3. /\ rep[e] \in tree.root /\ rep[e] \in Leaves /\ EntitlementOf(rep[e]) = e
            /\ paid[e] <= Due(rep[e]) /\ Due(rep[e]) \in 0 .. rep[e].amount
        BY <2>9, <2>10, <3>2, <4>2
      <4>4. rep[e].amount \in Nat /\ paid[e] \in Nat /\ due[rep[e]] = rep[e].amount
        BY <2>6, <2>8, <2>10, <4>3, LeafFacts
      <4> QED BY <4>1, <4>3, <4>4
    <3> QED BY <3>1, <3>2
  <2>11. SumOf(after, Entitlements) <= SumOf(due, tree.root)
    <3>1. \A e \in Entitlements : after[e] \in Nat
      BY <2>6
    <3>2. \A l \in tree.root : due[l] \in Nat
      BY <2>1, <2>8, LeafFacts
    <3>3. \A e \in Entitlements : after[e] > 0 => rep[e] \in tree.root /\ after[e] <= due[rep[e]]
      BY <2>10
    <3>4. \A e, f \in Entitlements :
            after[e] > 0 /\ after[f] > 0 /\ rep[e] = rep[f] => e = f
      BY <2>10
    <3>5. IsFiniteSet(tree.root)
      BY <2>1, Finite
    <3> QED BY <3>1, <3>2, <3>3, <3>4, <3>5, SumInto
  <2>12. SumOf(due, tree.root) <= tree.total_supply
    BY <2>8 DEF RootWithinSupply
  <2>13. SumOf(due, tree.root) \in Nat
    BY <2>1, <2>8, Finite, LeafFacts, SumType
  <2>14. tree.total_claimed + more <= tree.total_supply
    BY <2>2, <2>7, <2>11, <2>12, <2>13
  <2> QED BY <2>2, <2>4, <2>14 DEF FullyBacked
<1>2. TotalsInv => EveryClaimCovered
  BY <1>1
<1> QED BY <1>2, TotalsInvariant, PTL

(* A record only goes away by closing it. *)
LEMMA OnlyClosed ==
    ASSUME TotalsInv, [Next]_vars, NEW b \in Beneficiaries,
           record[b] # NoRecord, record'[b] = NoRecord
    PROVE  CloseClaimRecord(b)
<1>1. LedgerInv /\ TypeOK
  BY DEF TotalsInv, LedgerInv, IInv
<1>2. ASSUME NEW leaf \in Leaves, NEW new, NEW amount, Payment(leaf, new, amount)
      PROVE  FALSE
  <2>1. /\ record' = [record EXCEPT ![leaf.beneficiary] = new] /\ new # NoRecord
    BY <1>2, AbsenceAssumption DEF Payment
  <2> QED BY <1>1, <2>1 DEF TypeOK
<1>3. CASE UNCHANGED record
  BY <1>3
<1>4. CASE Tick \/ UNCHANGED vars
  BY <1>3, <1>4 DEF Tick, vars, accounts
<1>5. CASE \/ \E args \in CampaignArgs : CreateCampaign(args)
           \/ \E args \in StreamArgs : CreateStream(args)
           \/ \E amount \in FundAmounts : FundCampaign(amount) \/ FundCampaignNative(amount)
  BY <1>3, <1>5 DEF CreateCampaign, CreateStream, Open, FundCampaign, FundCampaignNative
<1>6. CASE \E leaf \in Leaves : Claim(leaf)
  BY <1>1, <1>2, <1>6, ClaimPayment
<1>7. CASE \E leaf \in Leaves :
             Withdraw(leaf) \/ \E signer \in Keys : CancelStream(signer, leaf)
  BY <1>1, <1>2, <1>7, StreamPayment
<1>8. CASE \/ \E signer \in Keys : \/ CancelCampaign(signer)
                                   \/ InstantRefundCampaign(signer)
                                   \/ PauseCampaign(signer)
                                   \/ UnpauseCampaign(signer)
                                   \/ WithdrawUnvested(signer)
           \/ \E signer \in Keys, idx \in MilestoneIdx : SetMilestoneReleased(signer, idx)
           \/ \E signer \in Keys, args \in RootArgs : UpdateRoot(signer, args)
  BY <1>3, <1>8 DEF CancelCampaign, InstantRefundCampaign, PauseCampaign,
                    UnpauseCampaign, SetMilestoneReleased, WithdrawUnvested, UpdateRoot
<1>9. CASE \E c \in Beneficiaries : CloseClaimRecord(c)
  <2>1. PICK c \in Beneficiaries : CloseClaimRecord(c)
    BY <1>9
  <2>2. c = b
    BY <1>1, <2>1 DEF CloseClaimRecord, TypeOK
  <2> QED BY <2>1, <2>2
<1> QED BY <1>4, <1>5, <1>6, <1>7, <1>8, <1>9 DEF Next

(* A record that closes before the grace period is over owes nothing on    *)
(* any leaf it was ever paid for (CloseLosesNothing): its running sum has  *)
(* reached its total_entitled, which covers those leaves, and no leaf was  *)
(* paid more than its amount; so each was paid in full.                    *)
THEOREM ClosingLosesNothing == Spec => CloseLosesNothing
<1> DEFINE Kept == Live /\ ~GraceOver /\ ~rotated /\ Unambiguous(tree.root) =>
                     \A leaf \in tree.root :
                        Undisturbed(leaf) /\ record[leaf.beneficiary] # NoRecord
                          /\ record'[leaf.beneficiary] = NoRecord =>
                            paid[EntitlementOf(leaf)] \in {0, leaf.amount}
<1>1. ASSUME TotalsInv, [Next]_vars PROVE Kept
  <2> SUFFICES ASSUME Live, ~GraceOver, ~rotated, Unambiguous(tree.root),
                      NEW leaf \in tree.root, Undisturbed(leaf),
                      record[leaf.beneficiary] # NoRecord,
                      record'[leaf.beneficiary] = NoRecord
               PROVE  paid[EntitlementOf(leaf)] \in {0, leaf.amount}
    OBVIOUS
  <2>1. /\ LedgerInv /\ TypeOK /\ leaf \in Leaves
    BY <1>1, CarriersAre DEF TotalsInv, LedgerInv, IInv, TypeOK, Live, TreeType
  <2>2. PICK b \in Beneficiaries : b = leaf.beneficiary /\ b \notin disturbed
    BY <2>1, LeafFacts DEF Undisturbed
  <2>3. Settled(record[b])
    BY <1>1, <2>2, OnlyClosed DEF CloseClaimRecord
  <2>4. record[b].total_entitled <= Claimed[b] /\ record[b].total_entitled \in Nat
    BY <2>1, <2>2, <2>3, ClaimedType, BoundsAssumption DEF Settled, RecordType, U64
  <2>5. SumOf(Promised, EntitlementsOf(b)) <= SumOf(paid, EntitlementsOf(b))
    <3>1. Claimed[b] = SumOf(paid, EntitlementsOf(b))
      BY <1>1, <2>2 DEF TotalsInv, SumsRight
    <3>2. SumOf(Promised, EntitlementsOf(b)) <= record[b].total_entitled
      BY <1>1, <2>2 DEF TotalsInv, Entitled, Covers
    <3>3. SumOf(Promised, EntitlementsOf(b)) \in Nat /\ SumOf(paid, EntitlementsOf(b)) \in Nat
      BY <2>1, <2>2, PromisedFacts, PaidType
    <3> QED BY <2>4, <3>1, <3>2, <3>3
  <2>6. \A e \in EntitlementsOf(b) :
          paid[e] \in Nat /\ Promised[e] \in Nat /\ paid[e] <= Promised[e]
    BY <2>1, <2>2, PromisedFacts, PaidType
  <2>7. \A e \in EntitlementsOf(b) : paid[e] = Promised[e]
    <3>1. /\ SumOf(paid, EntitlementsOf(b)) <= SumOf(Promised, EntitlementsOf(b))
          /\ SumOf(paid, EntitlementsOf(b)) = SumOf(Promised, EntitlementsOf(b)) =>
               \A e \in EntitlementsOf(b) : paid[e] = Promised[e]
      BY <2>6, Finite, SumMonotone
    <3>2. SumOf(Promised, EntitlementsOf(b)) \in Nat /\ SumOf(paid, EntitlementsOf(b)) \in Nat
      BY <2>1, <2>2, PromisedFacts, PaidType
    <3> QED BY <2>5, <3>1, <3>2
  <2>8. EntitlementOf(leaf) \in EntitlementsOf(b) /\ EntitlementOf(leaf) \in Entitlements
    BY <2>1, <2>2, EntitlementFacts DEF EntitlementsOf
  <2>9. AmountOf(EntitlementOf(leaf)) = leaf.amount
    BY <2>1, <2>2, PromisedFacts
  <2> QED BY <2>7, <2>8, <2>9 DEF Promised
<1>2. TotalsInv /\ [Next]_vars => [Kept]_vars
  BY <1>1
<1> QED BY <1>2, TotalsInvariant, PTL DEF Spec, CloseLosesNothing

(* Before the earliest cliff nothing is due. *)
LEMMA NothingDue ==
    ASSUME TypeOK, Live, CliffIsHonest, NothingVestedYet, NEW leaf \in tree.root,
           WellFormed(leaf)
    PROVE  GetVestedAmount(leaf, None, now, tree.released) = 0
<1>1. /\ now < leaf.cliff_time /\ now < leaf.end_time /\ tree.released = {}
  <2>1. tree.min_cliff_time \in Int /\ now \in Int /\ IsLeaf(leaf)
    BY BoundsAssumption, LeafFacts DEF TypeOK, Live, TreeType
  <2> QED BY <2>1 DEF CliffIsHonest, NothingVestedYet, WellFormed, IsLeaf
<1>2. now \in Int /\ leaf.cliff_time \in Int /\ leaf.end_time \in Int
  BY BoundsAssumption, LeafFacts DEF TypeOK, Live, TreeType, IsLeaf
<1> QED BY <1>1, <1>2 DEF GetVestedAmount, Vested, EffectiveNow

(* The creator takes nothing back early (NoEarlyClawback): in the step     *)
(* that cancels, cancel_stream pays its leaf what vested beyond the        *)
(* record's running sum, which is what its beneficiary was paid, and an    *)
(* instant refund comes before anything vested.                            *)
THEOREM NeverClawedBackEarly == Spec => NoEarlyClawback
<1> DEFINE Fair == Live /\ returned' > returned /\ ~GraceOver =>
                     /\ ~Cancelled
                     /\ CliffIsHonest =>
                          \A leaf \in tree.root : Undisturbed(leaf) /\ WellFormed(leaf) =>
                            Received(leaf)' >= GetVestedAmount(leaf, None, now, tree.released)
<1>1. ASSUME TotalsInv, [Next]_vars PROVE Fair
  <2> SUFFICES ASSUME Live, returned' > returned, ~GraceOver PROVE Fair
    OBVIOUS
  <2>1. LedgerInv /\ LedgerInv' /\ TypeOK /\ TypeOK' /\ returned \in Nat
    BY <1>1, NextLedger DEF TotalsInv, LedgerInv, IInv, TypeOK
  <2>2. CASE returned' = returned
    BY <2>1, <2>2
  <2>3. CASE \E signer \in Keys : InstantRefundCampaign(signer)
    <3>1. ~Cancelled /\ NothingVestedYet
      BY <2>3 DEF InstantRefundCampaign
    <3>2. ASSUME CliffIsHonest, NEW leaf \in tree.root, WellFormed(leaf)
          PROVE  Received(leaf)' >= GetVestedAmount(leaf, None, now, tree.released)
      <4>1. GetVestedAmount(leaf, None, now, tree.released) = 0
        BY <2>1, <3>1, <3>2, NothingDue
      <4>2. paid' = paid /\ leaf \in Leaves
        BY <2>1, <2>3 DEF InstantRefundCampaign, TypeOK, Live, TreeType
      <4>3. paid[EntitlementOf(leaf)] \in Nat
              /\ SumOf(paid, EntitlementsOf(leaf.beneficiary)) \in Nat
        BY <2>1, <4>2, EntitlementFacts, PaidType
      <4> QED BY <4>1, <4>2, <4>3 DEF Received, EntitlementsOf
    <3> QED BY <3>1, <3>2
  <2>4. CASE \E signer \in Keys, leaf \in Leaves : CancelStream(signer, leaf)
    <3>1. PICK signer \in Keys, leaf \in Leaves : CancelStream(signer, leaf)
      BY <2>4
    <3>2. PICK cr : cr = LoadForStream(leaf)
      OBVIOUS
    <3>3. PICK due : due = DueAtCancel(cr, leaf)
      OBVIOUS
    <3>4. /\ ~Cancelled /\ tree.root = {leaf} /\ MilestoneUnclaimed(cr, leaf)
          /\ paid' = [paid EXCEPT ![EntitlementOf(leaf)] = @ + due] /\ rotated' = rotated
      BY <3>1, <3>2, <3>3 DEF CancelStream, IsStreamLeaf
    <3>5. ASSUME Undisturbed(leaf)
          PROVE  Received(leaf)' >= GetVestedAmount(leaf, None, now, tree.released)
      <4> DEFINE b  == leaf.beneficiary
                 e0 == EntitlementOf(leaf)
      <4>1. /\ b \in Beneficiaries /\ b \notin disturbed
            /\ leaf.amount \in Nat /\ e0 \in Entitlements /\ paid[e0] \in Nat
        BY <2>1, <3>5, LeafFacts, PaidType DEF Undisturbed
      <4>2. /\ cr \in RecordType /\ cr.claimed_amount \in Nat
            /\ cr.claimed_amount = SumOf(paid, EntitlementsOf(b))
            /\ Tells(cr, leaf, paid[e0])
        BY <1>1, <2>1, <3>2, <3>5, <4>1, LoadedClaimed, LoadedTells, PaidType
           DEF TotalsInv, SumsRight, LedgerInv
      <4>3. due \in Nat
        BY <2>1, <3>3, <4>2, DueAtCancelType
      <4>4. SumOf(paid', EntitlementsOf(b)) = cr.claimed_amount + due
        BY <2>1, <3>4, <4>2, <4>3, PaymentSums
      <4>5. paid'[e0] = paid[e0] + due
        BY <2>1, <3>4, <4>1 DEF TypeOK
      <4>6. ~rotated => paid[e0] = cr.claimed_amount
        BY <2>1, <3>4, <3>5, <4>2, SoleLeaf
      <4>7. Received(leaf)' = cr.claimed_amount + due
        BY <3>4, <4>4, <4>5, <4>6 DEF Received, EntitlementsOf
      <4>8. CASE leaf.release_type = Milestone
        BY <3>3, <4>1, <4>2, <4>3, <4>7, <4>8 DEF DueAtCancel, SatSub, GetVestedAmount
      <4>9. CASE leaf.release_type # Milestone
        <5>1. Vested(leaf, now) \in 0 .. leaf.amount
          BY <2>1, VestedType, BoundsAssumption DEF TypeOK
        <5> QED BY <3>3, <4>1, <4>2, <4>3, <4>7, <4>9, <5>1
                DEF DueAtCancel, SatSub, GetVestedAmount, EffectiveNow
      <4> QED BY <4>8, <4>9
    <3> QED BY <3>4, <3>5
  <2>5. CASE Tick \/ UNCHANGED vars
    BY <2>2, <2>5 DEF Tick, vars, accounts, history
  <2>6. CASE \/ \E args \in CampaignArgs : CreateCampaign(args)
             \/ \E args \in StreamArgs : CreateStream(args)
    BY <2>6 DEF CreateCampaign, CreateStream, Open, Live
  <2>7. CASE \E amount \in FundAmounts : FundCampaign(amount) \/ FundCampaignNative(amount)
    BY <2>2, <2>7 DEF FundCampaign, FundCampaignNative
  <2>8. CASE \E leaf \in Leaves : Claim(leaf) \/ Withdraw(leaf)
    BY <2>2, <2>8 DEF Claim, Withdraw, PayOut
  <2>9. CASE \/ \E signer \in Keys : \/ CancelCampaign(signer)
                                     \/ PauseCampaign(signer)
                                     \/ UnpauseCampaign(signer)
             \/ \E signer \in Keys, idx \in MilestoneIdx : SetMilestoneReleased(signer, idx)
             \/ \E signer \in Keys, args \in RootArgs : UpdateRoot(signer, args)
    BY <2>2, <2>9 DEF CancelCampaign, PauseCampaign, UnpauseCampaign,
                      SetMilestoneReleased, UpdateRoot, history
  <2>10. CASE \E signer \in Keys : WithdrawUnvested(signer)
    BY <2>10 DEF WithdrawUnvested
  <2>11. CASE \E b \in Beneficiaries : CloseClaimRecord(b)
    BY <2>2, <2>11 DEF CloseClaimRecord
  <2> QED BY <1>1, <2>3, <2>4, <2>5, <2>6, <2>7, <2>8, <2>9, <2>10, <2>11 DEF Next
<1>2. TotalsInv /\ [Next]_vars => [Fair]_vars
  BY <1>1
<1> QED BY <1>2, TotalsInvariant, PTL DEF Spec, NoEarlyClawback
-----------------------------------------------------------------------------
(* ---------------------- records of an earlier release ------------------- *)

(* What LegacyInit may be given. *)
StreamArgsType ==
    [native : BOOLEAN, leaf : {l \in Leaves : l.leaf_index = 0},
     cancellable : BOOLEAN, cancel_authority : Keys \cup {None},
     pause_authority : Keys \cup {None}]

(* The behaviours of an upgraded program. *)
UpgradedSpec(streams) == (Init \/ LegacyInit(streams)) /\ [][Next]_vars

(* The running sum of a record that is still of version 0 is what was paid *)
(* against index 0, and within what has vested until the root is rotated.  *)
OldRecordsTell ==
    \A leaf \in Leaves :
        LET cr == record[leaf.beneficiary]
            p  == paid[EntitlementOf(leaf)]
        IN  Undisturbed(leaf) /\ cr # NoRecord /\ cr.version = 0
              /\ leaf.release_type # Milestone =>
                /\ leaf.leaf_index = 0 => p = cr.claimed_amount
                /\ Live /\ ~rotated /\ leaf \in tree.root => p <= Due(leaf)

OldInv == IInv /\ OldRecordsTell

(* A stream that was paid from is in order. *)
LEMMA LegacyInitInv ==
    ASSUME NEW streams \in SUBSET StreamArgsType, LegacyInit(streams)
    PROVE  OldInv
<1>1. PICK args \in streams, at \in 0 .. MaxTime :
        LET leaf    == args.leaf
            claimed == Vested(leaf, at)
            held    == leaf.amount - claimed
        IN
        /\ leaf.release_type # Milestone
        /\ claimed > 0
        /\ args.native => held > 0
        /\ now = at
        /\ tree = [StreamTree(args) EXCEPT !.total_claimed = claimed]
        /\ vault = IF args.native THEN 0 ELSE held
        /\ lamports = Rent + (IF args.native THEN held ELSE 0)
        /\ \E entitled \in {0, leaf.amount} :
             record = [b \in Beneficiaries |->
                         IF b = leaf.beneficiary
                         THEN [FreshRecord(entitled) EXCEPT !.claimed_amount = claimed,
                                                            !.version = 0]
                         ELSE NoRecord]
        /\ creations = 1 /\ MaxCreations > 0
        /\ paid = [e \in Entitlements |-> IF e = EntitlementOf(leaf) THEN claimed ELSE 0]
        /\ deposited = Rent + leaf.amount
        /\ paidOut = claimed
        /\ returned = 0
        /\ archived = 0
        /\ disturbed = {}
        /\ rotated = FALSE
  BY DEF LegacyInit
<1>2. PICK leaf : leaf = args.leaf
  OBVIOUS
<1>3. PICK claimed : claimed = Vested(leaf, at)
  OBVIOUS
<1>4. PICK held : held = leaf.amount - claimed
  OBVIOUS
<1>5. /\ leaf \in Leaves /\ leaf.leaf_index = 0 /\ leaf.amount \in U64 /\ leaf.amount \in Nat
      /\ at \in Int /\ leaf.beneficiary \in Beneficiaries
      /\ EntitlementOf(leaf) \in Entitlements
  BY <1>2, LeafFacts, BoundsAssumption DEF StreamArgsType
<1>6. claimed \in 0 .. leaf.amount /\ claimed \in U64 /\ held \in Nat
  BY <1>3, <1>4, <1>5, VestedType, BoundsAssumption DEF U64
<1>7. PICK t : t = StreamTree(args)
  OBVIOUS
<1>8. /\ t \in TreeType /\ t.root = {leaf} /\ t.total_supply = leaf.amount
      /\ t.cancelled_at = None /\ t.paused = FALSE /\ t.native = args.native
      /\ t.released = {}
  BY <1>2, <1>5, <1>7, BoundsAssumption DEF StreamTree, StreamArgsType, TreeType, U64
<1>9. tree = [t EXCEPT !.total_claimed = claimed]
  BY <1>1, <1>2, <1>3, <1>7
<1>10. /\ tree \in TreeType /\ tree.root = {leaf} /\ tree.total_supply = leaf.amount
       /\ tree.cancelled_at = None /\ tree.paused = FALSE /\ tree.total_claimed = claimed
       /\ tree.released = {} /\ Live
  BY <1>6, <1>8, <1>9, AbsenceAssumption DEF TreeType, Live
<1>11. PICK entitled \in {0, leaf.amount} :
         record = [b \in Beneficiaries |->
                     IF b = leaf.beneficiary
                     THEN [FreshRecord(entitled) EXCEPT !.claimed_amount = claimed,
                                                        !.version = 0]
                     ELSE NoRecord]
  BY <1>1, <1>2, <1>3
<1>12. FreshRecord(entitled) \in RecordType
  BY <1>5, FreshRecordType, BoundsAssumption DEF U64
<1>13. PICK old : old = [FreshRecord(entitled) EXCEPT !.claimed_amount = claimed, !.version = 0]
  OBVIOUS
<1>14. old \in RecordType /\ old.claimed_amount = claimed /\ old # NoRecord
  BY <1>6, <1>12, <1>13, AbsenceAssumption DEF RecordType
<1>15. record = [b \in Beneficiaries |-> IF b = leaf.beneficiary THEN old ELSE NoRecord]
  BY <1>11, <1>13
<1>16. record \in [Beneficiaries -> RecordType \cup {NoRecord}]
  BY <1>14, <1>15
<1>17. /\ now = at /\ creations = 1 /\ MaxCreations > 0 /\ claimed > 0
       /\ paid = [e \in Entitlements |-> IF e = EntitlementOf(leaf) THEN claimed ELSE 0]
       /\ deposited = Rent + leaf.amount /\ paidOut = claimed /\ returned = 0
       /\ archived = 0 /\ disturbed = {} /\ rotated = FALSE
       /\ leaf.release_type # Milestone
  BY <1>1, <1>2, <1>3
<1>18. /\ vault = IF args.native THEN 0 ELSE held
       /\ lamports = Rent + (IF args.native THEN held ELSE 0)
  BY <1>1, <1>2, <1>3, <1>4
<1>19. /\ vault \in Nat /\ lamports \in Nat /\ lamports >= Rent
       /\ vault + lamports = Rent + held
  <2>1. CASE args.native
    BY <1>6, <1>18, <2>1, BoundsAssumption
  <2>2. CASE ~args.native
    BY <1>6, <1>18, <2>2, BoundsAssumption
  <2> QED BY <2>1, <2>2
<1>20. TypeOK
  <2>1. paid \in [Entitlements -> Nat]
    BY <1>6, <1>17
  <2>2. creations \in 0 .. MaxCreations /\ deposited \in Nat /\ now \in 0 .. MaxTime
    BY <1>5, <1>17, BoundsAssumption
  <2>3. paidOut \in Nat
    BY <1>5, <1>6, <1>17
  <2> QED BY <1>10, <1>16, <1>17, <1>19, <2>1, <2>2, <2>3 DEF TypeOK
<1>21. BooksMatchBank /\ SupplyCap /\ CancelledNotPaused
  <2>1. vault + lamports + paidOut + returned = deposited
    BY <1>4, <1>5, <1>6, <1>17, <1>19, BoundsAssumption
  <2> QED BY <1>6, <1>10, <1>17, <1>19, <2>1
          DEF BooksMatchBank, SupplyCap, CancelledNotPaused, Cancelled
<1>22. OldRecordsTell
  <2> SUFFICES ASSUME NEW l \in Leaves, record[l.beneficiary] # NoRecord,
                      l.release_type # Milestone
               PROVE  /\ l.leaf_index = 0 =>
                           paid[EntitlementOf(l)] = record[l.beneficiary].claimed_amount
                      /\ l \in tree.root => paid[EntitlementOf(l)] <= Due(l)
    BY DEF OldRecordsTell
  <2>1. l.beneficiary = leaf.beneficiary /\ record[l.beneficiary] = old
    BY <1>15, LeafFacts
  <2>2. l.leaf_index = 0 => EntitlementOf(l) = EntitlementOf(leaf)
    BY <1>5, <1>17, <2>1 DEF EntitlementOf
  <2>3. paid[EntitlementOf(leaf)] = claimed
    BY <1>5, <1>17
  <2>4. Due(leaf) = claimed
    BY <1>3, <1>10, <1>17 DEF Due, GetVestedAmount, EffectiveNow
  <2>5. l \in tree.root => l = leaf
    BY <1>10
  <2> QED BY <1>6, <1>14, <2>1, <2>2, <2>3, <2>4, <2>5
<1> QED BY <1>20, <1>21, <1>22 DEF OldInv, IInv

(* What a step does that leaves the old record of b alone. *)
KeepsOld(b) ==
    /\ record'[b] = record[b]
    /\ \A e \in Entitlements : e[1] = b => paid'[e] = paid[e]
    /\ Live' => /\ Live /\ Onward
                /\ rotated' = TRUE \/ (rotated' = rotated /\ tree'.root = tree.root)

LEMMA OldStep ==
    ASSUME OldInv, IInv', disturbed \subseteq disturbed',
           \A b \in Beneficiaries \ disturbed' :
              record'[b] # NoRecord /\ record'[b].version = 0 => KeepsOld(b)
    PROVE  OldInv'
<1>1. TypeOK /\ TypeOK'
  BY DEF OldInv, IInv
<1> SUFFICES ASSUME NEW leaf \in Leaves, Undisturbed(leaf)',
                    record'[leaf.beneficiary] # NoRecord,
                    record'[leaf.beneficiary].version = 0, leaf.release_type # Milestone
             PROVE  /\ leaf.leaf_index = 0 =>
                         paid'[EntitlementOf(leaf)] = record'[leaf.beneficiary].claimed_amount
                    /\ Live' /\ ~rotated' /\ leaf \in tree'.root =>
                         paid'[EntitlementOf(leaf)] <= Due(leaf)'
  BY DEF OldInv, OldRecordsTell
<1>2. leaf.beneficiary \in Beneficiaries \ disturbed' /\ Undisturbed(leaf)
  BY LeafFacts DEF Undisturbed
<1>3. KeepsOld(leaf.beneficiary)
  BY <1>2
<1>4. /\ record'[leaf.beneficiary] = record[leaf.beneficiary]
      /\ paid'[EntitlementOf(leaf)] = paid[EntitlementOf(leaf)]
      /\ paid[EntitlementOf(leaf)] \in Nat
  BY <1>1, <1>3, EntitlementFacts DEF KeepsOld, TypeOK
<1>5. leaf.leaf_index = 0 =>
        paid'[EntitlementOf(leaf)] = record'[leaf.beneficiary].claimed_amount
  BY <1>2, <1>4 DEF OldInv, OldRecordsTell
<1>6. ASSUME Live', ~rotated', leaf \in tree'.root
      PROVE  paid'[EntitlementOf(leaf)] <= Due(leaf)'
  <2>1. Live /\ Onward /\ ~rotated /\ leaf \in tree.root
    BY <1>3, <1>6 DEF KeepsOld
  <2>2. paid[EntitlementOf(leaf)] <= Due(leaf)
    BY <1>2, <1>4, <2>1 DEF OldInv, OldRecordsTell
  <2>3. Due(leaf) <= Due(leaf)'
    BY <1>1, <1>6, <2>1, DueStep
  <2>4. Due(leaf) \in Int /\ Due(leaf)' \in Int
    BY <1>1, <1>6, <2>1, DueIsInt
  <2> QED BY <1>4, <2>2, <2>3, <2>4
<1> QED BY <1>5, <1>6

(* Loading a record for a payment migrates it. *)
LEMMA LoadedIsNew ==
    ASSUME TypeOK, NEW leaf \in Leaves, NEW cr,
           cr = LoadForClaim(leaf) \/ cr = LoadForStream(leaf)
    PROVE  /\ cr \in RecordType /\ cr.version = 1
           /\ CountLeaf(cr, leaf).version = 1
           /\ record[leaf.beneficiary] # NoRecord =>
                cr.claimed_amount = record[leaf.beneficiary].claimed_amount
<1>1. cr \in RecordType /\ leaf.beneficiary \in Beneficiaries
  BY LoadForClaimType, LoadForStreamType, LeafFacts
<1>2. CASE record[leaf.beneficiary] = NoRecord
  <2>1. cr.version = 1
    BY <1>2 DEF LoadForClaim, LoadForStream, FreshRecord
  <2> QED BY <1>1, <1>2, <2>1 DEF CountLeaf, RecordType
<1>3. CASE record[leaf.beneficiary] # NoRecord
  <2>1. PICK old : old = record[leaf.beneficiary]
    OBVIOUS
  <2>2. old \in RecordType
    BY <1>1, <1>3, <2>1 DEF TypeOK
  <2>3. cr.version = 1 /\ cr.claimed_amount = old.claimed_amount
    BY <1>3, <2>1, <2>2 DEF LoadForClaim, LoadForStream, RecordType
  <2> QED BY <1>1, <2>1, <2>3 DEF CountLeaf, RecordType
<1> QED BY <1>2, <1>3

(* A payment writes a record of the current layout. *)
LEMMA OldPaid ==
    ASSUME OldInv, IInv', NEW leaf \in Leaves, NEW new, new.version = 1,
           record' = [record EXCEPT ![leaf.beneficiary] = new],
           \A e \in Entitlements : e # EntitlementOf(leaf) => paid'[e] = paid[e],
           disturbed' = disturbed,
           Live' => /\ Live /\ Onward
                    /\ rotated' = TRUE \/ (rotated' = rotated /\ tree'.root = tree.root)
    PROVE  OldInv'
<1>1. record \in [Beneficiaries -> RecordType \cup {NoRecord}]
  BY DEF OldInv, IInv, TypeOK
<1>2. ASSUME NEW b \in Beneficiaries, record'[b] # NoRecord, record'[b].version = 0
      PROVE  KeepsOld(b)
  <2>1. b # leaf.beneficiary
    BY <1>1, <1>2, LeafFacts
  <2>2. record'[b] = record[b]
    BY <1>1, <1>2, <2>1
  <2>3. EntitlementOf(leaf)[1] = leaf.beneficiary
    BY DEF EntitlementOf
  <2> QED BY <2>1, <2>2, <2>3 DEF KeepsOld
<1> QED BY <1>2, OldStep

LEMMA OldPayOut ==
    ASSUME OldInv, IInv', Live, NEW leaf \in Leaves, NEW cr \in RecordType,
           cr.version = 1, NEW amount, PayOut(cr, leaf, amount)
    PROVE  OldInv'
<1>1. PICK new : new = Credit(cr, leaf, amount)
  OBVIOUS
<1>2. new.version = 1
  BY <1>1 DEF Credit, RecordType
<1>3. /\ record' = [record EXCEPT ![leaf.beneficiary] = new]
      /\ paid' = [paid EXCEPT ![EntitlementOf(leaf)] = @ + amount]
      /\ disturbed' = disturbed /\ now' = now /\ rotated' = rotated
      /\ tree' = Booked(amount) \/ tree' = NoTree
  BY <1>1 DEF PayOut, PayBeneficiary, PayLamports, PayTokens
<1>4. tree \in TreeType /\ now \in Int /\ paid \in [Entitlements -> Nat]
  BY BoundsAssumption DEF OldInv, IInv, TypeOK, Live
<1>5. Live' => Onward /\ tree'.root = tree.root
  BY <1>3, <1>4 DEF Live, Onward, Booked, TreeType
<1>6. \A e \in Entitlements : e # EntitlementOf(leaf) => paid'[e] = paid[e]
  BY <1>3, <1>4
<1> QED BY <1>2, <1>3, <1>5, <1>6, OldPaid

LEMMA OldCancelStream ==
    ASSUME OldInv, IInv', NEW signer, NEW leaf \in Leaves, CancelStream(signer, leaf)
    PROVE  OldInv'
<1>1. PICK cr : cr = LoadForStream(leaf)
  OBVIOUS
<1>2. PICK due : due = DueAtCancel(cr, leaf)
  OBVIOUS
<1>3. PICK new : new = IF due > 0 THEN Credit(cr, leaf, due) ELSE cr
  OBVIOUS
<1>4. /\ Live /\ ~Cancelled
      /\ record' = [record EXCEPT ![leaf.beneficiary] = new]
      /\ paid' = [paid EXCEPT ![EntitlementOf(leaf)] = @ + due]
      /\ \/ tree' = NoTree
         \/ tree' = [Booked(due) EXCEPT !.cancelled_at = now, !.paused = FALSE]
      /\ disturbed' = disturbed /\ now' = now /\ rotated' = rotated
  BY <1>1, <1>2, <1>3 DEF CancelStream, DrainTree, DrainVault
<1>5. TypeOK /\ tree \in TreeType /\ now \in Int /\ paid \in [Entitlements -> Nat]
  BY <1>4, BoundsAssumption DEF OldInv, IInv, TypeOK, Live
<1>6. new.version = 1
  <2>1. cr \in RecordType /\ cr.version = 1
    BY <1>1, <1>5, LoadedIsNew
  <2> QED BY <1>3, <2>1 DEF Credit, RecordType
<1>7. Live' => Onward /\ tree'.root = tree.root
  BY <1>4, <1>5 DEF Live, Onward, Booked, TreeType, Cancelled
<1>8. \A e \in Entitlements : e # EntitlementOf(leaf) => paid'[e] = paid[e]
  BY <1>4, <1>5
<1> QED BY <1>4, <1>6, <1>7, <1>8, OldPaid

LEMMA OldQuiet ==
    ASSUME OldInv, IInv', UNCHANGED <<record, paid, disturbed>>,
           Live' => /\ Live /\ Onward
                    /\ rotated' = TRUE \/ (rotated' = rotated /\ tree'.root = tree.root)
    PROVE  OldInv'
<1>1. \A b \in Beneficiaries \ disturbed' : KeepsOld(b)
  BY DEF KeepsOld
<1> QED BY <1>1, OldStep

LEMMA NextOld == OldInv /\ [Next]_vars => OldInv'
<1> SUFFICES ASSUME OldInv, [Next]_vars PROVE OldInv'
  OBVIOUS
<1>1. IInv' /\ TypeOK
  BY NextInv DEF OldInv, IInv
<1>2. now \in Int /\ (Live => tree \in TreeType)
  BY <1>1, BoundsAssumption DEF TypeOK, Live
<1>3. CASE Tick \/ UNCHANGED vars
  <2>1. /\ UNCHANGED <<record, paid, disturbed, rotated>>
        /\ tree' = tree /\ (now' = now \/ now' = now + 1)
    BY <1>3 DEF Tick, vars, accounts, history
  <2>2. Live' => Live /\ Onward
    BY <1>2, <2>1 DEF Live, Onward
  <2> QED BY <1>1, <2>1, <2>2, OldQuiet
<1>4. CASE \/ \E args \in CampaignArgs : CreateCampaign(args)
           \/ \E args \in StreamArgs : CreateStream(args)
  <2>1. /\ record' = record
        /\ disturbed' = disturbed \cup {b \in Beneficiaries : record[b] # NoRecord}
    BY <1>4 DEF CreateCampaign, CreateStream, Open
  <2> QED BY <1>1, <2>1, OldStep
<1>5. CASE \/ \E amount \in FundAmounts : FundCampaign(amount) \/ FundCampaignNative(amount)
           \/ \E signer \in Keys : WithdrawUnvested(signer)
  <2>1. /\ UNCHANGED <<record, paid, disturbed, rotated>>
        /\ Live /\ tree' = tree /\ now' = now
    BY <1>5 DEF FundCampaign, FundCampaignNative, WithdrawUnvested
  <2>2. Onward
    BY <1>2, <2>1 DEF Onward
  <2> QED BY <1>1, <2>1, <2>2, OldQuiet
<1>6. CASE \E leaf \in Leaves : Claim(leaf)
  <2>1. PICK leaf \in Leaves : Claim(leaf)
    BY <1>6
  <2>2. PICK loaded : loaded = LoadForClaim(leaf)
    OBVIOUS
  <2>3. PICK cr : cr = CountLeaf(loaded, leaf)
    OBVIOUS
  <2>4. Live /\ cr.total_entitled <= U64Max /\ \E amount : PayOut(cr, leaf, amount)
    BY <2>1, <2>2, <2>3 DEF Claim
  <2>5. cr \in RecordType /\ cr.version = 1
    BY <1>1, <2>2, <2>3, <2>4, LoadedIsNew, CountLeafType
  <2> QED BY <1>1, <2>4, <2>5, OldPayOut
<1>7. CASE \E leaf \in Leaves : Withdraw(leaf)
  <2>1. PICK leaf \in Leaves : Withdraw(leaf)
    BY <1>7
  <2>2. PICK cr : cr = LoadForStream(leaf)
    OBVIOUS
  <2>3. Live /\ \E amount : PayOut(cr, leaf, amount)
    BY <2>1, <2>2 DEF Withdraw
  <2>4. cr \in RecordType /\ cr.version = 1
    BY <1>1, <2>2, LoadedIsNew
  <2> QED BY <1>1, <2>3, <2>4, OldPayOut
<1>8. CASE \E signer \in Keys : CancelCampaign(signer) \/ InstantRefundCampaign(signer)
  <2>1. /\ UNCHANGED <<record, paid, disturbed, rotated>>
        /\ Live /\ ~Cancelled /\ now' = now
        /\ \/ tree' = [tree EXCEPT !.cancelled_at = now, !.paused = FALSE]
           \/ tree' = [tree EXCEPT !.cancelled_at = now, !.paused = FALSE,
                                   !.instant_refunded = TRUE]
    BY <1>8 DEF CancelCampaign, MayCancel, InstantRefundCampaign, history
  <2>2. Onward /\ tree'.root = tree.root
    BY <1>2, <2>1 DEF Onward, TreeType, Cancelled
  <2> QED BY <1>1, <2>1, <2>2, OldQuiet
<1>9. CASE \E signer \in Keys, leaf \in Leaves : CancelStream(signer, leaf)
  BY <1>1, <1>9, OldCancelStream
<1>10. CASE \/ \E signer \in Keys, args \in RootArgs : UpdateRoot(signer, args)
            \/ \E signer \in Keys : PauseCampaign(signer) \/ UnpauseCampaign(signer)
            \/ \E signer \in Keys, idx \in MilestoneIdx : SetMilestoneReleased(signer, idx)
  BY <1>1, <1>10, FlagStep, OldQuiet
<1>11. CASE \E b \in Beneficiaries : CloseClaimRecord(b)
  <2>1. PICK c \in Beneficiaries : CloseClaimRecord(c)
    BY <1>11
  <2>2. /\ Live /\ record' = [record EXCEPT ![c] = NoRecord] /\ tree' = tree
        /\ paid' = paid /\ now' = now /\ disturbed' = disturbed \cup {c} /\ rotated' = rotated
    BY <2>1 DEF CloseClaimRecord
  <2>3. Onward
    BY <1>2, <2>2 DEF Onward
  <2>4. \A b \in Beneficiaries \ disturbed' : KeepsOld(b)
    BY <1>1, <2>2, <2>3 DEF KeepsOld, TypeOK
  <2> QED BY <1>1, <2>2, <2>4, OldStep
<1> QED BY <1>3, <1>4, <1>5, <1>6, <1>7, <1>8, <1>9, <1>10, <1>11 DEF Next

LEMMA UpgradedInvariant ==
    ASSUME NEW streams \in SUBSET StreamArgsType
    PROVE  UpgradedSpec(streams) => []OldInv
<1>1. Init \/ LegacyInit(streams) => OldInv
  <2>1. Init => OldRecordsTell
    BY LeafFacts DEF Init, OldRecordsTell
  <2> QED BY <2>1, InitInv, LegacyInitInv DEF OldInv
<1> QED BY <1>1, NextOld, PTL DEF UpgradedSpec

(* ---------------------- what an upgrade keeps ---------------------- *)

(* A version 0 record of a stream is paid exactly what had vested beyond   *)
(* it by the instruction that migrates it (MigrationPaysExactly): claim    *)
(* moves the running sum into the ledger and subtracts it there, withdraw  *)
(* and cancel_stream empty the ledger but subtract the running sum.        *)
THEOREM MigrationAlwaysPaysExactly ==
    ASSUME NEW streams \in SUBSET StreamArgsType
    PROVE  UpgradedSpec(streams) => MigrationPaysExactly
<1> DEFINE Exact ==
      Live => \A leaf \in tree.root :
         LET b       == leaf.beneficiary
             earlier == paid[EntitlementOf(leaf)]
             later   == paid'[EntitlementOf(leaf)]
             vested  == Vested(leaf, Effective)
         IN
         Undisturbed(leaf) /\ record[b] # NoRecord /\ record'[b] # NoRecord
           /\ IsStreamLeaf(leaf) /\ leaf.release_type # Milestone
           /\ record[b].version = 0 /\ record'[b].version = 1 =>
             /\ later = earlier + SatSub(vested, earlier)
             /\ ~rotated => later = vested
<1>1. ASSUME OldInv, [Next]_vars PROVE Exact
  <2> SUFFICES ASSUME Live, NEW leaf \in tree.root, Undisturbed(leaf),
                      record[leaf.beneficiary] # NoRecord,
                      record'[leaf.beneficiary] # NoRecord,
                      IsStreamLeaf(leaf), leaf.release_type # Milestone,
                      record[leaf.beneficiary].version = 0,
                      record'[leaf.beneficiary].version = 1
               PROVE  /\ paid'[EntitlementOf(leaf)] = paid[EntitlementOf(leaf)]
                           + SatSub(Vested(leaf, Effective), paid[EntitlementOf(leaf)])
                      /\ ~rotated => paid'[EntitlementOf(leaf)] = Vested(leaf, Effective)
    OBVIOUS
  <2>1. PICK earlier : earlier = paid[EntitlementOf(leaf)]
    OBVIOUS
  <2>2. PICK vested : vested = Vested(leaf, Effective)
    OBVIOUS
  <2>3. /\ TypeOK /\ leaf \in Leaves /\ leaf.leaf_index = 0 /\ tree.root = {leaf}
        /\ leaf.beneficiary \in Beneficiaries /\ leaf.leaf_index \in Indices
    BY <1>1, LeafFacts DEF OldInv, IInv, TypeOK, Live, TreeType, IsStreamLeaf
  <2>4. /\ vested \in Nat /\ EntitlementOf(leaf) \in Entitlements
        /\ paid \in [Entitlements -> Nat] /\ earlier \in Nat
    BY <2>1, <2>2, <2>3, LeafFacts, EffectiveType, VestedType DEF TypeOK
  <2>5. /\ earlier = record[leaf.beneficiary].claimed_amount
        /\ ~rotated => earlier <= vested
    BY <1>1, <2>1, <2>2, <2>3 DEF OldInv, OldRecordsTell, Due, GetVestedAmount, Effective
  <2>6. record'[leaf.beneficiary] # record[leaf.beneficiary]
    OBVIOUS
  <2>7. SUFFICES paid' = [paid EXCEPT ![EntitlementOf(leaf)] = @ + SatSub(vested, earlier)]
    BY <2>1, <2>2, <2>4, <2>5 DEF SatSub
  <2>8. CASE \E l \in Leaves : Claim(l)
    <3>1. PICK l \in Leaves : Claim(l)
      BY <2>8
    <3>2. l = leaf
      BY <2>3, <3>1 DEF Claim, ProofAccepted
    <3>3. PICK loaded : loaded = LoadForClaim(leaf)
      OBVIOUS
    <3>4. PICK cr : cr = CountLeaf(loaded, leaf)
      OBVIOUS
    <3>5. PICK amount : amount = ClaimableByClaim(cr, leaf)
      OBVIOUS
    <3>6. paid' = [paid EXCEPT ![EntitlementOf(leaf)] = @ + amount]
      BY <3>1, <3>2, <3>3, <3>4, <3>5 DEF Claim, PayOut
    <3>7. LeafPriorClaimed(cr, leaf.leaf_index) = earlier
      <4>1. PICK old : old = record[leaf.beneficiary]
        OBVIOUS
      <4>2. old \in RecordType
        BY <2>3, <4>1 DEF TypeOK
      <4>3. loaded.ledger = IF old.claimed_amount > 0
                            THEN [EmptyLedger EXCEPT ![leaf.leaf_index] = old.claimed_amount]
                            ELSE EmptyLedger
        BY <3>3, <4>1, <4>2 DEF LoadForClaim, RecordType
      <4>4. cr.ledger = loaded.ledger
        BY <2>3, <3>3, <3>4, LoadedIsNew DEF CountLeaf, RecordType
      <4> QED BY <2>3, <2>4, <2>5, <4>1, <4>3, <4>4, AbsenceAssumption
              DEF LeafPriorClaimed, EmptyLedger
    <3> QED BY <2>2, <3>5, <3>6, <3>7 DEF ClaimableByClaim
  <2>9. CASE \E l \in Leaves : Withdraw(l)
    <3>1. PICK l \in Leaves : Withdraw(l)
      BY <2>9
    <3>2. l = leaf
      BY <2>3, <3>1 DEF Withdraw, IsStreamLeaf
    <3>3. PICK cr : cr = LoadForStream(leaf)
      OBVIOUS
    <3>4. PICK amount : amount = ClaimableByWithdraw(cr, leaf)
      OBVIOUS
    <3>5. paid' = [paid EXCEPT ![EntitlementOf(leaf)] = @ + amount]
      BY <3>1, <3>2, <3>3, <3>4 DEF Withdraw, PayOut
    <3>6. cr.claimed_amount = earlier
      BY <2>3, <2>5, <3>3, LoadedIsNew
    <3> QED BY <2>2, <3>4, <3>5, <3>6 DEF ClaimableByWithdraw
  <2>10. CASE \E signer \in Keys, l \in Leaves : CancelStream(signer, l)
    <3>1. PICK signer \in Keys, l \in Leaves : CancelStream(signer, l)
      BY <2>10
    <3>2. l = leaf /\ ~Cancelled
      BY <2>3, <3>1 DEF CancelStream, IsStreamLeaf
    <3>3. PICK cr : cr = LoadForStream(leaf)
      OBVIOUS
    <3>4. PICK due : due = DueAtCancel(cr, leaf)
      OBVIOUS
    <3>5. paid' = [paid EXCEPT ![EntitlementOf(leaf)] = @ + due]
      BY <3>1, <3>2, <3>3, <3>4 DEF CancelStream
    <3>6. cr.claimed_amount = earlier
      BY <2>3, <2>5, <3>3, LoadedIsNew
    <3>7. Effective = now
      BY <3>2 DEF Effective, EffectiveNow, Cancelled
    <3> QED BY <2>2, <3>4, <3>5, <3>6, <3>7 DEF DueAtCancel
  <2>11. CASE \E b \in Beneficiaries : CloseClaimRecord(b)
    BY <2>3, <2>6, <2>11 DEF CloseClaimRecord, TypeOK
  <2>12. CASE record' = record
    BY <2>6, <2>12
  <2>13. CASE \/ Tick \/ UNCHANGED vars
              \/ \E args \in CampaignArgs : CreateCampaign(args)
              \/ \E args \in StreamArgs : CreateStream(args)
              \/ \E amount \in FundAmounts : FundCampaign(amount) \/ FundCampaignNative(amount)
    BY <2>12, <2>13 DEF Tick, CreateCampaign, CreateStream, Open, FundCampaign,
                        FundCampaignNative, vars, accounts
  <2>14. CASE \/ \E signer \in Keys, args \in RootArgs : UpdateRoot(signer, args)
              \/ \E signer \in Keys : \/ PauseCampaign(signer)
                                      \/ UnpauseCampaign(signer)
                                      \/ CancelCampaign(signer)
                                      \/ WithdrawUnvested(signer)
                                      \/ InstantRefundCampaign(signer)
              \/ \E signer \in Keys, idx \in MilestoneIdx : SetMilestoneReleased(signer, idx)
    BY <2>12, <2>14 DEF UpdateRoot, PauseCampaign, UnpauseCampaign, CancelCampaign,
                        WithdrawUnvested, InstantRefundCampaign, SetMilestoneReleased
  <2> QED BY <1>1, <2>8, <2>9, <2>10, <2>11, <2>13, <2>14 DEF Next
<1>2. OldInv /\ [Next]_vars => [Exact]_vars
  BY <1>1
<1> QED BY <1>2, UpgradedInvariant, PTL DEF UpgradedSpec, MigrationPaysExactly

(* The bank, the books and the cap survive the upgrade: whatever withdraw  *)
(* forgets of a version 0 record, a campaign pays no more than its supply  *)
(* and total_claimed is what the beneficiaries received.                   *)
THEOREM UpgradeKeepsBooks ==
    ASSUME NEW streams \in SUBSET StreamArgsType
    PROVE  UpgradedSpec(streams) => [](TypeOK /\ BooksMatchBank /\ SupplyCap)
<1>1. OldInv => TypeOK /\ BooksMatchBank /\ SupplyCap
  BY DEF OldInv, IInv
<1> QED BY <1>1, UpgradedInvariant, PTL
-----------------------------------------------------------------------------
(* --------------------------- the campaign's page ------------------------ *)

(* A refund takes everything, and nothing comes in after it; a tree has    *)
(* leaves and a supply.                                                    *)
TreeSound ==
    Live => /\ tree.instant_refunded => Cancelled /\ Balance = 0
            /\ tree.leaf_count > 0 /\ tree.total_supply > 0

(* A new tree is sound. *)
LEMMA OpenedSound ==
    ASSUME \/ \E args \in CampaignArgs : CreateCampaign(args)
           \/ \E args \in StreamArgs : CreateStream(args)
    PROVE  TreeSound'
<1>1. CASE \E args \in CampaignArgs : CreateCampaign(args)
  <2>1. PICK args \in CampaignArgs : CreateCampaign(args)
    BY <1>1
  <2>2. /\ ~tree'.instant_refunded /\ tree'.leaf_count = args.leaf_count
        /\ tree'.total_supply = args.total_supply
        /\ args.leaf_count > 0 /\ args.total_supply > 0
    BY <2>1 DEF CreateCampaign, Open
  <2> QED BY <2>2 DEF TreeSound
<1>2. CASE \E args \in StreamArgs : CreateStream(args)
  <2>1. PICK args \in StreamArgs : CreateStream(args)
    BY <1>2
  <2>2. /\ ~tree'.instant_refunded /\ tree'.leaf_count = 1
        /\ tree'.total_supply = args.leaf.amount /\ args.leaf.amount > 0
    BY <2>1 DEF CreateStream, Open, StreamTree
  <2> QED BY <2>2 DEF TreeSound
<1> QED BY <1>1, <1>2

(* A step that pays or changes a tree that was not refunded.               *)
LEMMA StaysSound ==
    ASSUME TypeOK, TreeSound, Live, ~tree.instant_refunded,
           Live' => /\ ~tree'.instant_refunded
                    /\ tree'.total_supply = tree.total_supply
                    /\ tree'.leaf_count = tree.leaf_count \/ tree'.leaf_count > 0
    PROVE  TreeSound'
BY DEF TreeSound

(* Every instruction keeps the tree sound. *)
LEMMA NextSound ==
    ASSUME TypeOK, TreeSound, [Next]_vars
    PROVE  TreeSound'
<1>1. CASE \/ \E args \in CampaignArgs : CreateCampaign(args)
           \/ \E args \in StreamArgs : CreateStream(args)
  BY <1>1, OpenedSound
<1>2. CASE Tick \/ UNCHANGED vars \/ \E b \in Beneficiaries : CloseClaimRecord(b)
  <2>1. UNCHANGED <<tree, vault, lamports>>
    BY <1>2 DEF Tick, vars, accounts, CloseClaimRecord
  <2> QED BY <2>1 DEF TreeSound, Live, Cancelled, Balance
<1>3. CASE \E amount \in FundAmounts : FundCampaign(amount) \/ FundCampaignNative(amount)
  <2>1. Live /\ ~Cancelled /\ tree' = tree
    BY <1>3 DEF FundCampaign, FundCampaignNative
  <2>2. ~tree.instant_refunded
    BY <2>1 DEF TreeSound
  <2> QED BY <2>1, <2>2, StaysSound
<1>4. CASE \E leaf \in Leaves : Claim(leaf) \/ Withdraw(leaf)
  <2>1. /\ Live /\ ~tree.instant_refunded
        /\ (\E amount : tree' = Booked(amount)) \/ tree' = NoTree
    BY <1>4, ClaimTree DEF NotBlocked
  <2>2. Live' => /\ tree'.instant_refunded = tree.instant_refunded
                 /\ tree'.total_supply = tree.total_supply
                 /\ tree'.leaf_count = tree.leaf_count
    BY <2>1 DEF Live, Booked, TypeOK, TreeType
  <2> QED BY <2>1, <2>2, StaysSound
<1>5. CASE \/ \E signer \in Keys : CancelCampaign(signer)
           \/ \E signer \in Keys, leaf \in Leaves : CancelStream(signer, leaf)
  <2>1. /\ Live /\ ~Cancelled
        /\ \/ tree' = NoTree
           \/ \E c : tree' = [tree EXCEPT !.cancelled_at = now, !.paused = FALSE]
           \/ \E due : tree' = [Booked(due) EXCEPT !.cancelled_at = now, !.paused = FALSE]
    BY <1>5 DEF CancelCampaign, MayCancel, CancelStream, DrainTree, DrainVault
  <2>2. ~tree.instant_refunded
    BY <2>1 DEF TreeSound
  <2>3. Live' => /\ tree'.instant_refunded = tree.instant_refunded
                 /\ tree'.total_supply = tree.total_supply
                 /\ tree'.leaf_count = tree.leaf_count
    BY <2>1 DEF Live, Booked, TypeOK, TreeType
  <2> QED BY <2>1, <2>2, <2>3, StaysSound
<1>6. CASE \E signer \in Keys, args \in RootArgs : UpdateRoot(signer, args)
  <2>1. PICK args \in RootArgs : /\ Live /\ ~Cancelled /\ args.leaf_count > 0
                                 /\ tree' = Rotated(args)
    BY <1>6 DEF UpdateRoot, MayCancel
  <2>2. ~tree.instant_refunded
    BY <2>1 DEF TreeSound
  <2>3. Live' => /\ tree'.instant_refunded = tree.instant_refunded
                 /\ tree'.total_supply = tree.total_supply
                 /\ tree'.leaf_count = args.leaf_count
    BY <2>1 DEF Live, Rotated, TypeOK, TreeType
  <2> QED BY <2>1, <2>2, <2>3, StaysSound
<1>7. CASE \E signer \in Keys : PauseCampaign(signer) \/ UnpauseCampaign(signer)
  <2>1. /\ Live /\ ~Cancelled /\ \E p \in BOOLEAN : tree' = [tree EXCEPT !.paused = p]
    BY <1>7 DEF PauseCampaign, UnpauseCampaign, MayPause
  <2>2. ~tree.instant_refunded
    BY <2>1 DEF TreeSound
  <2>3. /\ tree'.instant_refunded = tree.instant_refunded
        /\ tree'.total_supply = tree.total_supply
        /\ tree'.leaf_count = tree.leaf_count
    BY <2>1 DEF Live, TypeOK, TreeType
  <2> QED BY <2>1, <2>2, <2>3, StaysSound
<1>8. CASE \E signer \in Keys, idx \in MilestoneIdx : SetMilestoneReleased(signer, idx)
  <2>1. /\ Live /\ ~tree.instant_refunded
        /\ \E idx : tree' = [tree EXCEPT !.released = @ \cup {idx}]
    BY <1>8 DEF SetMilestoneReleased
  <2>2. /\ tree'.instant_refunded = tree.instant_refunded
        /\ tree'.total_supply = tree.total_supply
        /\ tree'.leaf_count = tree.leaf_count
    BY <2>1 DEF Live, TypeOK, TreeType
  <2> QED BY <2>1, <2>2, StaysSound
<1>9. CASE \E signer \in Keys : WithdrawUnvested(signer)
  <2>1. Live /\ Balance > 0 /\ tree' = tree
    BY <1>9 DEF WithdrawUnvested, ReturnBalance
  <2>2. ~tree.instant_refunded
    BY <2>1 DEF TreeSound
  <2> QED BY <2>1, <2>2, StaysSound
<1>10. CASE \E signer \in Keys : InstantRefundCampaign(signer)
  <2>1. /\ Live /\ ReturnBalance
        /\ tree' = [tree EXCEPT !.cancelled_at = now, !.paused = FALSE,
                                !.instant_refunded = TRUE]
    BY <1>10 DEF InstantRefundCampaign
  <2>2. /\ tree'.native = tree.native /\ tree'.cancelled_at = now
        /\ tree'.total_supply = tree.total_supply
        /\ tree'.leaf_count = tree.leaf_count
    BY <2>1 DEF Live, TypeOK, TreeType
  <2>3. now # None
    BY BoundsAssumption, AbsenceAssumption DEF TypeOK
  <2>4. Balance' = 0
    <3>1. CASE tree.native
      <4>1. lamports' = lamports - Balance /\ Balance = SatSub(lamports, Rent) /\ Balance > 0
        BY <2>1, <3>1 DEF ReturnBalance, Balance
      <4>2. lamports \in Nat /\ Rent \in Nat
        BY BoundsAssumption DEF TypeOK
      <4>3. lamports' = Rent
        BY <4>1, <4>2 DEF SatSub
      <4> QED BY <2>2, <3>1, <4>2, <4>3 DEF Balance, SatSub
    <3>2. CASE ~tree.native
      <4>1. vault' = 0
        BY <2>1, <3>2 DEF ReturnBalance
      <4> QED BY <2>2, <3>2, <4>1 DEF Balance
    <3> QED BY <3>1, <3>2
  <2> QED BY <2>1, <2>2, <2>3, <2>4 DEF TreeSound, Cancelled
<1> QED BY <1>1, <1>2, <1>3, <1>4, <1>5, <1>6, <1>7, <1>8, <1>9, <1>10 DEF Next

(* The tree is always sound. *)
LEMMA SoundInvariant == Spec => []TreeSound
<1>1. Init => TreeSound
  BY DEF Init, TreeSound, Live
<1>2. IInv /\ TreeSound /\ [Next]_vars => TreeSound'
  BY NextSound DEF IInv
<1> QED BY <1>1, <1>2, InductiveInvariant, PTL DEF Spec

LEMMA MaxOfTwo ==
    ASSUME NEW a \in Int, NEW b \in Int
    PROVE  Max({a, b}) = IF a >= b THEN a ELSE b
<1> DEFINE m == IF a >= b THEN a ELSE b
<1>1. m \in {a, b} /\ \A y \in {a, b} : m >= y
  OBVIOUS
<1>2. \A x \in {a, b} : (\A y \in {a, b} : x >= y) => x = m
  OBVIOUS
<1> HIDE DEF m
<1>3. Max({a, b}) = m
  BY <1>1, <1>2 DEF Max
<1> QED BY <1>3 DEF m

(* An undisturbed record holds no more than was paid in all.               *)
LEMMA ClaimedWithin ==
    ASSUME TotalsInv, Live, NEW b \in Beneficiaries, b \notin disturbed
    PROVE  Claimed[b] <= tree.total_claimed /\ Claimed[b] \in Nat
<1> DEFINE S    == EntitlementsOf(b)
           same == [e \in S |-> e]
<1>1. TypeOK
  BY DEF TotalsInv, LedgerInv, IInv
<1>2. /\ \A e \in S : paid[e] \in Nat /\ e \in Entitlements
      /\ \A e \in Entitlements : paid[e] \in Nat
  BY <1>1, PaidType
<1>3. SumOf(paid, S) <= SumOf(paid, Entitlements)
  <2>1. \A e \in S : same[e] = e
    OBVIOUS
  <2>2. \A e \in S : paid[e] > 0 => same[e] \in Entitlements /\ paid[e] <= paid[same[e]]
    BY <1>2, <2>1
  <2>3. \A x, y \in S : paid[x] > 0 /\ paid[y] > 0 /\ same[x] = same[y] => x = y
    BY <2>1
  <2>4. IsFiniteSet(Entitlements)
    BY Finite
  <2> HIDE DEF S, same
  <2> QED BY <1>2, <2>2, <2>3, <2>4, SumInto
<1>4. Claimed[b] = SumOf(paid, S) /\ tree.total_claimed = SumOf(paid, Entitlements)
  BY DEF TotalsInv, SumsRight, PaidIsBooked
<1> QED BY <1>1, <1>3, <1>4, ClaimedType

(* To who looks, on a stream too, total_claimed is what was claimed.       *)
LEMMA TotalSeen ==
    ASSUME TotalsInv, Live, NEW viewer, viewer \notin disturbed
    PROVE  TotalClaimed(viewer) = tree.total_claimed
<1>1. TypeOK
  BY DEF TotalsInv, LedgerInv, IInv
<1>2. tree.total_claimed \in Nat
  BY <1>1, BalanceType
<1>3. MyRecord(viewer).claimed \in Nat /\ MyRecord(viewer).claimed <= tree.total_claimed
  <2>1. CASE viewer \in Beneficiaries /\ record[viewer] # NoRecord
    <3>1. MyRecord(viewer).claimed = Claimed[viewer]
      BY <2>1 DEF MyRecord, Claimed
    <3> QED BY <2>1, <3>1, ClaimedWithin
  <2>2. CASE ~(viewer \in Beneficiaries /\ record[viewer] # NoRecord)
    <3>1. MyRecord(viewer).claimed = 0
      BY <2>2 DEF MyRecord
    <3> QED BY <1>2, <3>1
  <2> QED BY <2>1, <2>2
<1>4. Max({tree.total_claimed, MyRecord(viewer).claimed}) = tree.total_claimed
  BY <1>2, <1>3, MaxOfTwo
<1> QED BY <1>4 DEF TotalClaimed

(* A button, or a route, is there exactly when the program's conditions on *)
(* the signer and the tree are met (ControlsFit of OffersMatchProgram),    *)
(* whatever was paid, paused, cancelled, refunded or rotated before: on a  *)
(* stream the page takes the larger of total_claimed and the wallet's      *)
(* record, and the second is never the larger; and what it hides after a   *)
(* refund has nothing left to be swept.                                    *)
THEOREM ControlsAlwaysFit == Spec => [](Live => ControlsFit)
<1>1. ASSUME TotalsInv, TreeSound, Live PROVE ControlsFit
  <2>1. /\ TypeOK /\ tree \in TreeType /\ tree.total_claimed \in Nat
        /\ tree.total_supply \in Nat /\ Balance \in Nat /\ now \in Nat
    BY <1>1, BalanceType, BoundsAssumption DEF TotalsInv, LedgerInv, IInv, TypeOK
  <2>2. /\ tree.cancelled_at \in Nat \cup {None} /\ tree.leaf_count \in Nat
        /\ tree.min_cliff_time \in Int /\ GracePeriod \in Nat /\ None \notin Int
    BY <2>1, BoundsAssumption, AbsenceAssumption DEF TreeType
  <2>3. /\ tree.instant_refunded => Cancelled /\ Balance = 0
        /\ tree.leaf_count > 0 /\ tree.total_supply > 0
    BY <1>1 DEF TreeSound
  <2>4. IsSingleLeaf <=> ~(tree.leaf_count > 1)
    BY <2>2, <2>3 DEF IsSingleLeaf
  <2>5. GraceExpired <=> GraceOver
    BY <2>1, <2>2 DEF GraceExpired, GraceOver, Cancelled
  <2>6. FullyPaid <=> ~(tree.total_claimed < tree.total_supply)
    BY <2>1 DEF FullyPaid
  <2>7. None \notin Keys
    BY AbsenceAssumption
  <2>8. ASSUME NEW viewer \in Keys \ disturbed
        PROVE  /\ PauseOffered(viewer) <=> MayPause(viewer)
               /\ CancelOffered(viewer) <=> MayCancel(viewer) /\ ~FullyPaid
               /\ RotateOffered(viewer) => MayCancel(viewer)
               /\ RefundOffered(viewer) <=> MayRefund(viewer)
               /\ FundOffered(viewer) =>
                    Balance + FundingRemaining(viewer) <= tree.total_supply
               /\ CloseOffered(viewer) <=>
                    /\ viewer \in Beneficiaries /\ record[viewer] # NoRecord
                    /\ Settled(record[viewer]) \/ GraceOver
    <3>1. TotalClaimed(viewer) = tree.total_claimed
      BY <1>1, TotalSeen
    <3>2. Unfinished(viewer) <=> ~Cancelled /\ ~FullyPaid
      BY <2>6, <3>1 DEF Unfinished
    <3>3. PauseOffered(viewer) <=> MayPause(viewer)
      BY <1>1, <2>7, <3>2 DEF PauseOffered, MayPause
    <3>4. CancelOffered(viewer) <=> MayCancel(viewer) /\ ~FullyPaid
      BY <1>1, <3>2 DEF CancelOffered, MayCancel
    <3>5. RotateOffered(viewer) => MayCancel(viewer)
      BY <1>1 DEF RotateOffered, MayCancel
    <3>6. RefundOffered(viewer) <=> MayRefund(viewer)
      BY <2>3, <2>4, <3>2 DEF RefundOffered, MayRefund, NothingVestedYet
    <3>7. FundOffered(viewer) => Balance + FundingRemaining(viewer) <= tree.total_supply
      BY <2>1, <3>1 DEF FundOffered, FundingRemaining, SatSub
    <3>8. CloseOffered(viewer) <=>
            /\ viewer \in Beneficiaries /\ record[viewer] # NoRecord
            /\ Settled(record[viewer]) \/ GraceOver
      BY <2>5 DEF CloseOffered, Settled
    <3> QED BY <3>3, <3>4, <3>5, <3>6, <3>7, <3>8
  <2>9. ASSUME NEW wallet \in Keys
        PROVE  /\ SweepOffered(wallet) /\ Balance > 0 <=>
                    wallet = Creator /\ GraceOver /\ Balance > 0
               /\ SweepPrepared(wallet) <=> wallet = Creator /\ GraceOver
               /\ CancelPrepared(wallet) <=> MayCancel(wallet) /\ ~FullyPaid
               /\ RefundPrepared(wallet) /\ ~FullyPaid <=> MayRefund(wallet)
               /\ \A idx \in MilestoneIdx : ReleasePrepared(wallet, idx) =>
                    wallet = Creator /\ ~tree.instant_refunded /\ idx \notin tree.released
    <3>1. SweepOffered(wallet) /\ Balance > 0 <=>
            wallet = Creator /\ GraceOver /\ Balance > 0
      BY <2>1, <2>3, <2>5 DEF SweepOffered
    <3>2. SweepPrepared(wallet) <=> wallet = Creator /\ GraceOver
      BY DEF SweepPrepared, GraceOver
    <3>3. CancelPrepared(wallet) <=> MayCancel(wallet) /\ ~FullyPaid
      BY <1>1, <2>3, <2>7 DEF CancelPrepared, MayCancel, FullyPaid
    <3>4. RefundPrepared(wallet) /\ ~FullyPaid <=> MayRefund(wallet)
      BY <2>3 DEF RefundPrepared, RefundEligible, MayRefund, NothingVestedYet
    <3>5. \A idx \in MilestoneIdx : ReleasePrepared(wallet, idx) =>
            wallet = Creator /\ ~tree.instant_refunded /\ idx \notin tree.released
      BY <2>3 DEF ReleasePrepared
    <3> QED BY <3>1, <3>2, <3>3, <3>4, <3>5
  <2> QED BY <2>8, <2>9 DEF ControlsFit
<1>2. TotalsInv /\ TreeSound => (Live => ControlsFit)
  BY <1>1
<1> QED BY <1>2, TotalsInvariant, SoundInvariant, PTL

(* lib/vesting/schedule.ts computes the curve of math/schedule.rs, for     *)
(* every leaf that the instructions accept and at every time.              *)
THEOREM CurvesAgree ==
    ASSUME NEW leaf, IsLeaf(leaf), NEW t \in Int,
           leaf.release_type \in {Cliff, Linear, Milestone}
    PROVE  Curve(leaf, t) = Vested(leaf, t)
<1>1. CASE leaf.release_type = Linear
  BY <1>1 DEF Curve, Vested, LinearShare, IsLeaf
<1>2. CASE leaf.release_type \in {Cliff, Milestone}
  BY <1>2 DEF Curve, Vested, Cliff, Linear, Milestone, IsLeaf
<1> QED BY <1>1, <1>2

(* The greater of two shares, rounded down, is not the less. *)
LEMMA RatioGrows ==
    ASSUME NEW n \in Nat, NEW d \in Nat, 0 < d, NEW m \in Nat, NEW e \in Nat, 0 < e,
           n * e <= m * d
    PROVE  n \div d <= m \div e
<1> DEFINE x == n \div d
           y == m \div e
<1>1. x \in Int /\ d * x <= n
  OBVIOUS
<1>2. y \in Int /\ m < e * y + e
  OBVIOUS
<1>3. SUFFICES ASSUME x >= y + 1 PROVE FALSE
  BY <1>1, <1>2
<1> HIDE DEF x, y
<1>4. (d * x) * e <= n * e
  BY <1>1
<1>5. m * d < (e * y + e) * d
  BY <1>2
<1>6. (e * y + e) * d = (d * e) * (y + 1) /\ (d * x) * e = (d * e) * x /\ d * e \in Nat
  BY <1>1, <1>2
<1>7. (d * e) * (y + 1) <= (d * e) * x
  BY <1>1, <1>2, <1>3, <1>6
<1>8. n * e \in Nat /\ m * d \in Nat
  OBVIOUS
<1> QED BY <1>1, <1>2, <1>4, <1>5, <1>6, <1>7, <1>8

(* So also of a common factor. *)
LEMMA SharesGrow ==
    ASSUME NEW A \in Nat, NEW x \in Nat, NEW d \in Nat, 0 < d,
           NEW y \in Nat, NEW e \in Nat, 0 < e, x * e <= y * d
    PROVE  (A * x) \div d <= (A * y) \div e
<1>1. A * (x * e) <= A * (y * d)
  <2>1. x * e \in Nat /\ y * d \in Nat
    OBVIOUS
  <2> QED BY <2>1
<1>2. (A * x) * e = A * (x * e) /\ (A * y) * d = A * (y * d)
  OBVIOUS
<1>3. A * x \in Nat /\ A * y \in Nat
  OBVIOUS
<1> QED BY <1>1, <1>2, <1>3, RatioGrows

(* A schedule that starts and ends sooner, each by less than a minute, has *)
(* vested no less at any time, and no more than the other a minute later.  *)
LEMMA SoonerCurve ==
    ASSUME NEW leaf, IsLeaf(leaf), NEW cut, IsLeaf(cut), NEW t \in Int,
           cut.amount = leaf.amount, cut.release_type = leaf.release_type,
           cut.cliff_time <= leaf.cliff_time, leaf.cliff_time < cut.cliff_time + Minute,
           cut.end_time <= leaf.end_time, leaf.end_time < cut.end_time + Minute
    PROVE  /\ Vested(leaf, t) <= Vested(cut, t)
           /\ Vested(cut, t) <= Vested(leaf, t + Minute - 1)
<1>1. /\ leaf.amount \in Nat /\ leaf.cliff_time \in Int /\ leaf.end_time \in Int
      /\ cut.cliff_time \in Int /\ cut.end_time \in Int
      /\ Minute \in Nat /\ Minute > 0 /\ t + Minute - 1 \in Int
  BY MinuteAssumption DEF IsLeaf
<1>2. /\ Vested(leaf, t) \in 0 .. leaf.amount
      /\ Vested(cut, t) \in 0 .. leaf.amount
      /\ Vested(leaf, t + Minute - 1) \in 0 .. leaf.amount
  BY <1>1, VestedBounded
<1>3. CASE leaf.release_type # Linear
  BY <1>1, <1>2, <1>3 DEF Vested
<1>4. CASE leaf.release_type = Linear
  <2> DEFINE A == leaf.amount
             c == leaf.cliff_time
             e == leaf.end_time
             u == cut.cliff_time
             v == cut.end_time
             s == t + Minute - 1
  <2>1. ASSUME c < t, t < v PROVE LinearShare(leaf, t) <= LinearShare(cut, t)
    <3>1. (t - c) * (v - u) <= (t - u) * (e - c)
      <4>1. PICK x \in Nat : x = t - c
        BY <1>1, <2>1
      <4>2. PICK a \in Nat : a = c - u
        BY <1>1
      <4>3. PICK b \in Nat : b = e - v
        BY <1>1
      <4>4. PICK d \in Nat : d = e - c
        BY <1>1, <2>1
      <4>5. v - u = d + a - b /\ t - u = x + a /\ x <= d
        BY <1>1, <2>1, <4>1, <4>2, <4>3, <4>4
      <4>6. x * a <= a * d /\ x * b \in Nat
        BY <4>1, <4>2, <4>3, <4>4, <4>5
      <4>7. /\ x * (d + a - b) = x * d + x * a - x * b
            /\ (x + a) * d = x * d + a * d
        OBVIOUS
      <4> QED BY <4>1, <4>4, <4>5, <4>6, <4>7
    <3>2. /\ t - c \in Nat /\ e - c \in Nat /\ 0 < e - c
          /\ t - u \in Nat /\ v - u \in Nat /\ 0 < v - u
      BY <1>1, <2>1
    <3>3. (A * (t - c)) \div (e - c) <= (A * (t - u)) \div (v - u)
      BY <1>1, <3>1, <3>2, SharesGrow
    <3> QED BY <3>3 DEF LinearShare
  <2>2. ASSUME u < t, t < v, s < e PROVE LinearShare(cut, t) <= LinearShare(leaf, s)
    <3>1. (t - u) * (e - c) <= (s - c) * (v - u)
      <4>1. PICK x \in Nat : x = t - u
        BY <1>1, <2>2
      <4>2. PICK a \in Nat : a = Minute - 1 - (c - u)
        BY <1>1
      <4>3. PICK b \in Nat : b = Minute - 1 - (e - v)
        BY <1>1
      <4>4. PICK d \in Nat : d = v - u
        BY <1>1, <2>2
      <4>5. e - c = d + a - b /\ s - c = x + a /\ x <= d
        BY <1>1, <2>2, <4>1, <4>2, <4>3, <4>4
      <4>6. x * a <= a * d /\ x * b \in Nat
        BY <4>1, <4>2, <4>3, <4>4, <4>5
      <4>7. /\ x * (d + a - b) = x * d + x * a - x * b
            /\ (x + a) * d = x * d + a * d
        OBVIOUS
      <4> QED BY <4>1, <4>4, <4>5, <4>6, <4>7
    <3>2. c < s
      BY <1>1, <2>2
    <3> QED BY <1>1, <2>2, <3>1, <3>2, SharesGrow DEF LinearShare
  <2>3. Vested(leaf, t) <= Vested(cut, t)
    <3>1. CASE t <= c \/ t >= v
      BY <1>1, <1>2, <1>4, <3>1 DEF Vested
    <3>2. CASE c < t /\ t < v
      BY <1>1, <1>4, <2>1, <3>2 DEF Vested
    <3> QED BY <1>1, <3>1, <3>2
  <2>4. Vested(cut, t) <= Vested(leaf, s)
    <3>1. CASE t <= u \/ s >= e
      BY <1>1, <1>2, <1>4, <3>1 DEF Vested
    <3>2. CASE u < t /\ s < e
      BY <1>1, <1>4, <2>2, <3>2 DEF Vested
    <3> QED BY <1>1, <3>1, <3>2
  <2> QED BY <2>3, <2>4
<1> QED BY <1>3, <1>4

(* A time in the form is less than a minute behind. *)
LEMMA MinuteFacts ==
    ASSUME NEW t \in Int
    PROVE  InMinutes(t) \in Int /\ InMinutes(t) <= t /\ t < InMinutes(t) + Minute
<1>1. t % Minute \in 0 .. Minute - 1
  BY MinuteAssumption
<1> QED BY <1>1, MinuteAssumption DEF InMinutes

(* What the page shows as vested is what the program reports, or on the    *)
(* page of a stream no less than that and no more than it will report      *)
(* before a minute has passed.                                             *)
LEMMA ShownIsVested ==
    ASSUME TypeOK, Live, NEW leaf \in Leaves, WellFormed(leaf), ~ReleasedEarly(leaf)
    PROVE  /\ VestedShown(leaf) \in Int
           /\ Due(leaf) <= VestedShown(leaf) /\ VestedShown(leaf) <= leaf.amount
           /\ VestedShown(leaf) <= Vested(leaf, Effective + Minute - 1)
           /\ ToTheSecond(leaf) => VestedShown(leaf) = Due(leaf)
           /\ ~IsSingleLeaf => ToTheSecond(leaf)
<1>1. /\ tree \in TreeType /\ now \in Int /\ tree.cancelled_at \in Nat \cup {None}
      /\ Effective \in Int /\ leaf.amount \in Nat
  BY BoundsAssumption, EffectiveType, LeafFacts DEF TypeOK, Live, TreeType
<1>2. PICK cut : cut = InForm(leaf)
  OBVIOUS
<1>3. /\ IsLeaf(leaf) /\ IsLeaf(cut)
      /\ cut.amount = leaf.amount /\ cut.release_type = leaf.release_type
      /\ cut.cliff_time <= leaf.cliff_time /\ leaf.cliff_time < cut.cliff_time + Minute
      /\ cut.end_time <= leaf.end_time /\ leaf.end_time < cut.end_time + Minute
  <2>1. leaf \in LeafType /\ IsLeaf(leaf)
    BY LeavesAssumption, LeafFacts
  <2>2. CASE IsSingleLeaf
    <3>1. cut = [leaf EXCEPT !.start_time = InMinutes(leaf.start_time),
                             !.cliff_time = InMinutes(leaf.cliff_time),
                             !.end_time = InMinutes(leaf.end_time)]
      BY <1>2, <2>2 DEF InForm
    <3>2. /\ cut.amount = leaf.amount /\ cut.release_type = leaf.release_type
          /\ cut.cliff_time = InMinutes(leaf.cliff_time)
          /\ cut.end_time = InMinutes(leaf.end_time)
      BY <2>1, <3>1 DEF LeafType
    <3> QED BY <2>1, <3>2, MinuteFacts DEF IsLeaf
  <2>3. CASE ~IsSingleLeaf
    BY <1>2, <2>1, <2>3, MinuteAssumption DEF InForm, IsLeaf
  <2> QED BY <2>2, <2>3
<1>4. ScheduledAmount(cut) = Vested(cut, Effective)
  <2>1. PICK t : t = IF Cancelled /\ tree.cancelled_at < now THEN tree.cancelled_at ELSE now
    OBVIOUS
  <2>2. t = Effective
    BY <1>1, <2>1 DEF Effective, EffectiveNow, Earlier, Cancelled
  <2>3. Curve(cut, t) = Vested(cut, t)
    BY <1>1, <1>3, <2>2, CurvesAgree DEF WellFormed
  <2> QED BY <2>1, <2>2, <2>3 DEF ScheduledAmount, ScheduledAt
<1>5. /\ Vested(leaf, Effective) <= Vested(cut, Effective)
      /\ Vested(cut, Effective) <= Vested(leaf, Effective + Minute - 1)
  BY <1>1, <1>3, SoonerCurve
<1>6. /\ Vested(leaf, Effective) \in 0 .. leaf.amount
      /\ Vested(cut, Effective) \in 0 .. leaf.amount
      /\ Vested(leaf, Effective + Minute - 1) \in 0 .. leaf.amount
  BY <1>1, <1>3, MinuteAssumption, VestedBounded
<1>7. ~IsSingleLeaf => ToTheSecond(leaf)
  BY DEF ToTheSecond, InForm
<1>8. CASE leaf.release_type # Milestone
  <2>1. Due(leaf) = Vested(leaf, Effective) /\ VestedShown(leaf) = Vested(cut, Effective)
    BY <1>2, <1>4, <1>8
       DEF VestedShown, LeafIsReleased, Due, GetVestedAmount, Effective
  <2>2. ToTheSecond(leaf) => cut = leaf
    BY <1>2, <1>8 DEF ToTheSecond
  <2> QED BY <1>5, <1>6, <1>7, <2>1, <2>2
<1>9. CASE leaf.release_type = Milestone
  <2>1. CASE leaf.milestone_idx \in tree.released
    <3>1. ~(Effective < leaf.cliff_time)
      BY <1>9, <2>1 DEF ReleasedEarly, LeafIsReleased
    <3>2. Effective >= leaf.cliff_time
      BY <1>1, <1>3, <3>1 DEF IsLeaf
    <3>3. Vested(leaf, Effective) = leaf.amount
      BY <1>9, <3>2 DEF Vested, Milestone, Linear
    <3>4. VestedShown(leaf) = Vested(cut, Effective) /\ Due(leaf) = leaf.amount
      BY <1>2, <1>4, <1>9, <2>1 DEF VestedShown, LeafIsReleased, Due, GetVestedAmount
    <3>5. VestedShown(leaf) = leaf.amount
      BY <1>1, <1>5, <1>6, <3>3, <3>4
    <3> QED BY <1>1, <1>5, <1>7, <3>4, <3>5
  <2>2. CASE leaf.milestone_idx \notin tree.released
    <3>1. VestedShown(leaf) = 0 /\ Due(leaf) = 0
      BY <1>9, <2>2 DEF VestedShown, LeafIsReleased, Due, GetVestedAmount
    <3> QED BY <1>1, <1>6, <1>7, <3>1
  <2> QED BY <2>1, <2>2
<1> QED BY <1>8, <1>9

(* So is what it shows as left to be paid. *)
LEMMA ShownIsLeft ==
    ASSUME TypeOK, Live, NEW leaf \in Leaves, WellFormed(leaf), ~ReleasedEarly(leaf),
           NEW p \in Nat, p = paid[EntitlementOf(leaf)]
    PROVE  /\ SatSub(VestedShown(leaf), p) \in Outstanding(leaf) .. OutstandingSoon(leaf)
           /\ ToTheSecond(leaf) => SatSub(VestedShown(leaf), p) = Outstanding(leaf)
           /\ Outstanding(leaf) = SatSub(Due(leaf), p)
           /\ Due(leaf) \in Nat /\ VestedShown(leaf) \in Nat
<1>1. /\ tree.cancelled_at \in Nat \cup {None} /\ now \in Int
      /\ Effective + Minute - 1 \in Int
  <2>1. tree \in TreeType /\ now \in Int /\ Effective \in Int
    BY EffectiveType, BoundsAssumption DEF TypeOK, Live
  <2>2. tree.cancelled_at \in Nat \cup {None}
    BY <2>1 DEF TreeType
  <2> QED BY <2>1, <2>2, MinuteAssumption
<1>2. Due(leaf) \in Nat /\ Vested(leaf, Effective + Minute - 1) \in Nat
  <2>1. Due(leaf) \in 0 .. leaf.amount
    BY <1>1, DueValue DEF Due
  <2>2. Vested(leaf, Effective + Minute - 1) \in 0 .. leaf.amount
    BY <1>1, VestedType
  <2> QED BY <2>1, <2>2, LeafFacts
<1>3. /\ VestedShown(leaf) \in Int /\ Due(leaf) <= VestedShown(leaf)
      /\ VestedShown(leaf) <= Vested(leaf, Effective + Minute - 1)
      /\ ToTheSecond(leaf) => VestedShown(leaf) = Due(leaf)
  BY ShownIsVested
<1>4. /\ Outstanding(leaf) = SatSub(Due(leaf), p)
      /\ OutstandingSoon(leaf) = SatSub(Vested(leaf, Effective + Minute - 1), p)
  BY DEF Outstanding, OutstandingSoon, Due
<1> QED BY <1>2, <1>3, <1>4 DEF SatSub

(* In a root of one leaf, its entitlement is all that was paid, and what   *)
(* the record an instruction starts from has summed up.                    *)
LEMMA SoleTotal ==
    ASSUME TotalsInv, Live, ~rotated, disturbed = {}, NEW leaf \in Leaves,
           tree.root = {leaf}, NEW cr, cr = LoadForStream(leaf)
    PROVE  /\ tree.total_claimed = paid[EntitlementOf(leaf)]
           /\ cr.claimed_amount = paid[EntitlementOf(leaf)]
           /\ paid[EntitlementOf(leaf)] \in Nat
           /\ paid[EntitlementOf(leaf)] <= Due(leaf)
           /\ Tells(cr, leaf, paid[EntitlementOf(leaf)])
<1> DEFINE b  == leaf.beneficiary
           e0 == EntitlementOf(leaf)
<1>1. LedgerInv /\ TypeOK /\ RecordsSound /\ RecordsMatchPayments
  BY DEF TotalsInv, LedgerInv, IInv
<1>2. /\ e0 \in Entitlements /\ paid[e0] \in Nat /\ b \in Beneficiaries
      /\ Undisturbed(leaf) /\ b \notin disturbed
  BY <1>1, LeafFacts, PaidType DEF Undisturbed
<1>3. ASSUME NEW e \in Entitlements, paid[e] > 0
      PROVE  e = e0 /\ paid[e] <= Due(leaf)
  BY <1>1, <1>3, PaidLeaf
<1>4. tree.total_claimed = paid[e0]
  <2>1. \A e \in Entitlements : paid[e] \in Nat /\ (e # e0 => paid[e] = 0)
    BY <1>1, <1>3, PaidType
  <2>2. SumOf(paid, Entitlements) = paid[e0]
    BY <1>2, <2>1, Finite, SumSingle
  <2> QED BY <2>2 DEF TotalsInv, PaidIsBooked
<1>5. cr.claimed_amount = paid[e0]
  <2>1. cr.claimed_amount = Claimed[b]
    BY <1>1, LoadedClaimed
  <2>2. Claimed[b] = SumOf(paid, EntitlementsOf(b))
    BY <1>2 DEF TotalsInv, SumsRight
  <2> QED BY <1>1, <1>2, <2>1, <2>2, SoleLeaf
<1>6. Tells(cr, leaf, paid[e0])
  BY <1>1, <1>2, LoadedTells
<1>7. paid[e0] <= Due(leaf)
  <2>1. CASE paid[e0] > 0
    BY <1>2, <1>3, <2>1
  <2>2. CASE paid[e0] = 0
    <3>1. tree \in TreeType /\ now \in Int
      BY <1>1, BoundsAssumption DEF TypeOK, Live
    <3>2. tree.cancelled_at \in Nat \cup {None}
      BY <3>1 DEF TreeType
    <3>3. Due(leaf) \in 0 .. leaf.amount
      BY <3>1, <3>2, DueValue DEF Due
    <3> QED BY <2>2, <3>3, LeafFacts
  <2> QED BY <1>2, <2>1, <2>2
<1> QED BY <1>2, <1>4, <1>5, <1>6, <1>7

(* Balances of amounts: what is due beyond what was paid. *)
LEMMA Remainder ==
    ASSUME NEW v \in Nat, NEW p \in Nat
    PROVE  p + SatSub(v, p) = Max({v, p}) /\ SatSub(v, p) \in Nat
BY MaxOfTwo DEF SatSub

(* withdraw pays what stood on its button. *)
LEMMA WithdrawPaysShown ==
    ASSUME TotalsInv, NEW leaf \in Leaves, ~rotated, disturbed = {},
           ~ReleasedEarly(leaf), Withdraw(leaf)
    PROVE  /\ paid' = [paid EXCEPT ![EntitlementOf(leaf)] = @ + Outstanding(leaf)]
           /\ StreamClaimable(leaf) \in Outstanding(leaf) .. OutstandingSoon(leaf)
           /\ ToTheSecond(leaf) =>
                /\ paid' = [paid EXCEPT ![EntitlementOf(leaf)] = @ + StreamClaimable(leaf)]
                /\ tree' \in {NoTree, AfterWithdraw(leaf)}
           /\ FundingRemaining(leaf.beneficiary) = 0 => WithdrawOffered(leaf)
<1>1. /\ Live /\ NotBlocked /\ WellFormed(leaf) /\ tree.root = {leaf} /\ IsSingleLeaf
      /\ leaf.release_type = Milestone => leaf.milestone_idx \in tree.released
  BY DEF Withdraw, IsStreamLeaf, IsSingleLeaf
<1>2. TypeOK /\ tree \in TreeType /\ (Cancelled => ~tree.paused)
  BY <1>1 DEF TotalsInv, LedgerInv, IInv, CancelledNotPaused, TypeOK, Live
<1>3. PICK cr : cr = LoadForStream(leaf)
  OBVIOUS
<1>4. PICK p : p = paid[EntitlementOf(leaf)]
  OBVIOUS
<1>5. /\ tree.total_claimed = p /\ cr.claimed_amount = p /\ p \in Nat
      /\ Tells(cr, leaf, p)
  BY <1>1, <1>3, <1>4, SoleTotal
<1>6. PICK amount : amount = ClaimableByWithdraw(cr, leaf)
  OBVIOUS
<1>7. PayOut(cr, leaf, amount) /\ MilestoneUnclaimed(cr, leaf)
  BY <1>3, <1>6 DEF Withdraw
<1>8. /\ SatSub(VestedShown(leaf), p) \in Outstanding(leaf) .. OutstandingSoon(leaf)
      /\ ToTheSecond(leaf) => SatSub(VestedShown(leaf), p) = Outstanding(leaf)
      /\ Outstanding(leaf) = SatSub(Due(leaf), p)
      /\ TotalClaimed(leaf.beneficiary) = tree.total_claimed
  BY <1>1, <1>2, <1>4, <1>5, ShownIsLeft, TotalSeen, LeafFacts
<1>9. /\ amount = Outstanding(leaf)
      /\ StreamClaimable(leaf) \in Outstanding(leaf) .. OutstandingSoon(leaf)
      /\ ToTheSecond(leaf) => StreamClaimable(leaf) = amount
  <2>1. StreamClaimable(leaf) = SatSub(VestedShown(leaf), p)
    BY <1>5, <1>8 DEF StreamClaimable
  <2>2. CASE leaf.release_type = Milestone
    <3>1. p = 0
      BY <1>5, <1>7, <2>2 DEF Tells, MilestoneUnclaimed
    <3>2. Due(leaf) = leaf.amount /\ amount = leaf.amount /\ leaf.amount \in Nat
      BY <1>1, <1>6, <2>2, LeafFacts DEF Due, GetVestedAmount, ClaimableByWithdraw
    <3> QED BY <1>8, <2>1, <3>1, <3>2 DEF SatSub
  <2>3. CASE leaf.release_type # Milestone
    BY <1>5, <1>6, <1>8, <2>1, <2>3 DEF Due, GetVestedAmount, ClaimableByWithdraw, Effective
  <2> QED BY <2>2, <2>3
<1>10. amount > 0 /\ paid' = [paid EXCEPT ![EntitlementOf(leaf)] = @ + amount]
  BY <1>7 DEF PayOut, Payable
<1>11. ASSUME ToTheSecond(leaf) PROVE tree' \in {NoTree, AfterWithdraw(leaf)}
  <2>1. tree' = Booked(amount) \/ tree' = NoTree
    BY <1>7, PayOutTree
  <2>2. Booked(amount) = AfterWithdraw(leaf)
    BY <1>8, <1>9, <1>11 DEF Booked, AfterWithdraw
  <2> QED BY <2>1, <2>2
<1>12. FundingRemaining(leaf.beneficiary) = 0 => WithdrawOffered(leaf)
  <2>1. ~tree.paused /\ ~tree.instant_refunded
    BY <1>1, <1>2 DEF NotBlocked
  <2>2. StreamClaimable(leaf) > 0
    <3>1. Outstanding(leaf) \in Int
      BY <1>1, <1>2, <1>4, <1>5, <1>8, ShownIsLeft DEF SatSub
    <3> QED BY <1>9, <1>10, <3>1
  <2> QED BY <1>1, <2>1, <2>2 DEF WithdrawOffered, LeafIsReleased
<1> QED BY <1>9, <1>10, <1>11, <1>12

(* cancel_stream pays and returns the figures of its dialog. *)
LEMMA SettlementPaysShown ==
    ASSUME TotalsInv, NEW leaf \in Leaves, ~rotated, disturbed = {},
           ~ReleasedEarly(leaf), NEW signer \in Keys, CancelStream(signer, leaf)
    PROVE  /\ signer = tree.cancel_authority => SettleOffered(signer)
           /\ paid' = [paid EXCEPT ![EntitlementOf(leaf)] = @ + Outstanding(leaf)]
           /\ UnclaimedVested(signer, leaf) \in Outstanding(leaf) .. OutstandingSoon(leaf)
           /\ ToTheSecond(leaf) =>
                /\ paid' = [paid EXCEPT ![EntitlementOf(leaf)] = @ + UnclaimedVested(signer, leaf)]
                /\ tree' \in {NoTree, AfterCancelStream(signer, leaf)}
           /\ tree.total_claimed + Balance = tree.total_supply =>
                LET said == returned + ReturnedToCreator(leaf)
                              + (IF tree.native THEN Rent ELSE 0)
                IN  returned' >= said /\ (ToTheSecond(leaf) => returned' = said)
<1>1. /\ Live /\ WellFormed(leaf) /\ tree.root = {leaf} /\ IsSingleLeaf
      /\ signer = Creator /\ tree.cancellable /\ ~Cancelled /\ ~FullyPaid
      /\ leaf.amount = tree.total_supply
  BY DEF CancelStream, IsStreamLeaf, IsSingleLeaf
<1>2. /\ TypeOK /\ tree \in TreeType /\ tree.total_claimed \in Nat
      /\ tree.total_supply \in Nat /\ lamports \in Nat /\ vault \in Nat /\ Rent \in Nat
      /\ returned \in Nat /\ lamports >= Rent
  BY <1>1, BalanceType, BoundsAssumption DEF TotalsInv, LedgerInv, IInv, TypeOK, SupplyCap
<1>3. PICK cr : cr = LoadForStream(leaf)
  OBVIOUS
<1>4. PICK p : p = paid[EntitlementOf(leaf)]
  OBVIOUS
<1>5. /\ tree.total_claimed = p /\ cr.claimed_amount = p /\ p \in Nat
      /\ p <= Due(leaf) /\ Tells(cr, leaf, p)
  BY <1>1, <1>3, <1>4, SoleTotal
<1>6. PICK due : due = DueAtCancel(cr, leaf)
  OBVIOUS
<1>7. /\ MilestoneUnclaimed(cr, leaf)
      /\ paid' = [paid EXCEPT ![EntitlementOf(leaf)] = @ + due]
      /\ IF tree.native THEN DrainTree(due) ELSE DrainVault(due)
  BY <1>3, <1>6 DEF CancelStream
<1>8. PICK v : v = VestedShown(leaf)
  OBVIOUS
<1>9. /\ v \in Nat /\ Due(leaf) \in Nat /\ Due(leaf) <= v /\ v <= leaf.amount
      /\ ToTheSecond(leaf) => v = Due(leaf)
      /\ SatSub(v, p) \in Outstanding(leaf) .. OutstandingSoon(leaf)
      /\ Outstanding(leaf) = SatSub(Due(leaf), p)
      /\ TotalClaimed(signer) = p
  <2>1. /\ Due(leaf) <= v /\ v <= leaf.amount
        /\ ToTheSecond(leaf) => v = Due(leaf)
    BY <1>1, <1>2, <1>8, ShownIsVested
  <2>2. /\ SatSub(v, p) \in Outstanding(leaf) .. OutstandingSoon(leaf)
        /\ Outstanding(leaf) = SatSub(Due(leaf), p)
        /\ v \in Nat /\ Due(leaf) \in Nat
    BY <1>1, <1>2, <1>4, <1>5, <1>8, ShownIsLeft
  <2>3. TotalClaimed(signer) = p
    BY <1>1, <1>2, <1>5, TotalSeen, LeafFacts
  <2> QED BY <2>1, <2>2, <2>3
<1>10. due = SatSub(Due(leaf), p)
  <2>1. CASE leaf.release_type = Milestone
    BY <1>5, <1>6, <1>9, <2>1 DEF Due, GetVestedAmount, DueAtCancel, SatSub
  <2>2. CASE leaf.release_type # Milestone
    <3>1. Due(leaf) = Vested(leaf, now)
      BY <1>1, <2>2 DEF Due, GetVestedAmount, EffectiveNow, Cancelled
    <3> QED BY <1>5, <1>6, <1>9, <2>2, <3>1 DEF DueAtCancel
  <2> QED BY <2>1, <2>2
<1>11. /\ UnclaimedVested(signer, leaf) = SatSub(v, p)
       /\ ToTheSecond(leaf) => due = UnclaimedVested(signer, leaf)
  BY <1>8, <1>9, <1>10 DEF UnclaimedVested
<1>12. signer = tree.cancel_authority => SettleOffered(signer)
  <2>1. Unfinished(signer)
    BY <1>1, <1>2, <1>5, <1>9 DEF Unfinished, FullyPaid
  <2> QED BY <1>1, <2>1 DEF SettleOffered, CancelOffered
<1>13. ASSUME ToTheSecond(leaf) PROVE tree' \in {NoTree, AfterCancelStream(signer, leaf)}
  <2>1. \/ tree' = NoTree
        \/ tree' = [Booked(due) EXCEPT !.cancelled_at = now, !.paused = FALSE]
    BY <1>7 DEF DrainTree, DrainVault
  <2>2. Max({VestedShown(leaf), TotalClaimed(signer)}) = tree.total_claimed + due
    BY <1>5, <1>8, <1>9, <1>10, <1>13, Remainder
  <2>3. PICK m : m = tree.total_claimed + due
    OBVIOUS
  <2>4. AfterCancelStream(signer, leaf) = [AfterCancel EXCEPT !.total_claimed = m]
    BY <2>2, <2>3 DEF AfterCancelStream
  <2>5. Booked(due) = [tree EXCEPT !.total_claimed = m]
    BY <2>3 DEF Booked
  <2>6. [Booked(due) EXCEPT !.cancelled_at = now, !.paused = FALSE]
          = [AfterCancel EXCEPT !.total_claimed = m]
    BY <1>2, <2>5 DEF AfterCancel, TreeType
  <2> QED BY <2>1, <2>4, <2>6
<1>14. ASSUME tree.total_claimed + Balance = tree.total_supply
       PROVE  LET said == returned + ReturnedToCreator(leaf)
                            + (IF tree.native THEN Rent ELSE 0)
              IN  returned' >= said /\ (ToTheSecond(leaf) => returned' = said)
  <2>1. due = Due(leaf) - p /\ ReturnedToCreator(leaf) = tree.total_supply - v
    BY <1>1, <1>2, <1>5, <1>8, <1>9, <1>10 DEF SatSub, ReturnedToCreator
  <2>2. CASE tree.native
    <3>1. Balance = lamports - Rent
      BY <1>2, <2>2 DEF Balance, SatSub
    <3>2. returned' = returned + (lamports - due)
      BY <1>7, <2>2 DEF DrainTree
    <3> QED BY <1>1, <1>2, <1>5, <1>9, <1>14, <2>1, <2>2, <3>1, <3>2
  <2>3. CASE ~tree.native
    <3>1. Balance = vault
      BY <2>3 DEF Balance
    <3>2. returned' = returned + (vault - due)
      BY <1>7, <2>3 DEF DrainVault
    <3> QED BY <1>1, <1>2, <1>5, <1>9, <1>14, <2>1, <2>3, <3>1, <3>2
  <2> QED BY <2>2, <2>3
<1> QED BY <1>7, <1>9, <1>10, <1>11, <1>12, <1>13, <1>14

(* A claim of a milestone pays the amount on its card. *)
LEMMA MilestonePaysShown ==
    ASSUME TotalsInv, NEW leaf \in Leaves, ~ReleasedEarly(leaf),
           leaf.release_type = Milestone, Claim(leaf)
    PROVE  paid' = [paid EXCEPT ![EntitlementOf(leaf)] = @ + LeafClaimable(leaf)]
<1> DEFINE loaded == LoadForClaim(leaf)
           cr     == CountLeaf(loaded, leaf)
<1>1. /\ Live /\ WellFormed(leaf) /\ MilestoneUnclaimed(loaded, leaf)
      /\ leaf.milestone_idx \in tree.released
      /\ PayOut(cr, leaf, ClaimableByClaim(cr, leaf))
  BY DEF Claim
<1>2. /\ TypeOK /\ RecordsSound /\ leaf.beneficiary \in Beneficiaries
  BY LeafFacts DEF TotalsInv, LedgerInv, IInv
<1>3. ClaimableByClaim(cr, leaf) = leaf.amount
  BY DEF ClaimableByClaim
<1>4. paid' = [paid EXCEPT ![EntitlementOf(leaf)] = @ + leaf.amount]
  <2> HIDE DEF cr
  <2> QED BY <1>1, <1>3 DEF PayOut
<1>5. leaf.milestone_idx \notin MyRecord(leaf.beneficiary).bitmap
  <2>1. CASE record[leaf.beneficiary] = NoRecord
    BY <2>1 DEF MyRecord
  <2>2. CASE record[leaf.beneficiary] # NoRecord
    <3>1. loaded = record[leaf.beneficiary]
      BY <1>2, <2>2, LoadedClaimed
    <3>2. leaf.milestone_idx \notin record[leaf.beneficiary].milestone_bitmap
      BY <1>1, <3>1 DEF MilestoneUnclaimed
    <3> QED BY <1>2, <2>2, <3>2 DEF MyRecord
  <2> QED BY <2>1, <2>2
<1>6. VestedShown(leaf) = leaf.amount
  BY <1>1, <1>2, ShownIsVested DEF Due, GetVestedAmount, ToTheSecond
<1> QED BY <1>4, <1>5, <1>6 DEF LeafClaimable

(* What a step pays and leaves is what the page said before                *)
(* (PaysWhatIsShown): withdraw the amount on the button, cancel_stream the *)
(* two figures of the dialog, a claim of a milestone the one on its card.  *)
(* It is so exactly if the stream's times are whole minutes; if they are   *)
(* not, the page, which cuts them to the minute, says too much by at most  *)
(* what vests before a minute has passed, whatever the curve and the       *)
(* length of a minute.                                                     *)
THEOREM ShownIsPaid == Spec => PaysWhatIsShown
<1> DEFINE Receives(leaf, amount) ==
             paid' = [paid EXCEPT ![EntitlementOf(leaf)] = @ + amount]
           Shown ==
             Live /\ ~rotated /\ disturbed = {} =>
               \A leaf \in tree.root : ~ReleasedEarly(leaf) =>
                 /\ Withdraw(leaf) =>
                      /\ Receives(leaf, Outstanding(leaf))
                      /\ StreamClaimable(leaf) \in Outstanding(leaf) .. OutstandingSoon(leaf)
                      /\ ToTheSecond(leaf) =>
                           /\ Receives(leaf, StreamClaimable(leaf))
                           /\ tree' \in {NoTree, AfterWithdraw(leaf)}
                      /\ FundingRemaining(leaf.beneficiary) = 0 => WithdrawOffered(leaf)
                 /\ \A signer \in Keys : CancelStream(signer, leaf) =>
                      /\ signer = tree.cancel_authority => SettleOffered(signer)
                      /\ Receives(leaf, Outstanding(leaf))
                      /\ UnclaimedVested(signer, leaf) \in Outstanding(leaf) .. OutstandingSoon(leaf)
                      /\ ToTheSecond(leaf) =>
                           /\ Receives(leaf, UnclaimedVested(signer, leaf))
                           /\ tree' \in {NoTree, AfterCancelStream(signer, leaf)}
                      /\ tree.total_claimed + Balance = tree.total_supply =>
                           LET said == returned + ReturnedToCreator(leaf)
                                         + (IF tree.native THEN Rent ELSE 0)
                           IN  returned' >= said /\ (ToTheSecond(leaf) => returned' = said)
                 /\ leaf.release_type = Milestone /\ Claim(leaf) =>
                      Receives(leaf, LeafClaimable(leaf))
<1>1. ASSUME TotalsInv PROVE Shown
  <2> SUFFICES ASSUME Live, ~rotated, disturbed = {}, NEW leaf \in tree.root,
                      ~ReleasedEarly(leaf)
               PROVE  /\ Withdraw(leaf) =>
                           /\ Receives(leaf, Outstanding(leaf))
                           /\ StreamClaimable(leaf) \in Outstanding(leaf) .. OutstandingSoon(leaf)
                           /\ ToTheSecond(leaf) =>
                                /\ Receives(leaf, StreamClaimable(leaf))
                                /\ tree' \in {NoTree, AfterWithdraw(leaf)}
                           /\ FundingRemaining(leaf.beneficiary) = 0 => WithdrawOffered(leaf)
                      /\ \A signer \in Keys : CancelStream(signer, leaf) =>
                           /\ signer = tree.cancel_authority => SettleOffered(signer)
                           /\ Receives(leaf, Outstanding(leaf))
                           /\ UnclaimedVested(signer, leaf) \in Outstanding(leaf) .. OutstandingSoon(leaf)
                           /\ ToTheSecond(leaf) =>
                                /\ Receives(leaf, UnclaimedVested(signer, leaf))
                                /\ tree' \in {NoTree, AfterCancelStream(signer, leaf)}
                           /\ tree.total_claimed + Balance = tree.total_supply =>
                                LET said == returned + ReturnedToCreator(leaf)
                                              + (IF tree.native THEN Rent ELSE 0)
                                IN  returned' >= said /\ (ToTheSecond(leaf) => returned' = said)
                      /\ leaf.release_type = Milestone /\ Claim(leaf) =>
                           Receives(leaf, LeafClaimable(leaf))
    OBVIOUS
  <2>1. leaf \in Leaves
    BY <1>1, CarriersAre DEF TotalsInv, LedgerInv, IInv, TypeOK, Live, TreeType
  <2> QED BY <1>1, <2>1, WithdrawPaysShown, SettlementPaysShown, MilestonePaysShown
<1>2. TotalsInv => [Shown]_vars
  BY <1>1
<1> QED BY <1>2, TotalsInvariant, PTL DEF PaysWhatIsShown
-----------------------------------------------------------------------------
(* ----------------------- sums that the page makes ---------------------- *)

(* What holds of zero, and of a number when of the one before. *)
LEMMA Induction ==
    ASSUME NEW S, 0 \in S, \A n \in Nat : n \in S => n + 1 \in S
    PROVE  \A n \in Nat : n \in S
<1> DEFINE R == {ss \in Nat \X Nat : ss[1] < ss[2]}
<1>1. IsWellFoundedOn(R, Nat)
  BY NatLessThanWellFounded DEF OpToRel
<1>2. ASSUME NEW x \in Nat, NEW y \in Nat, <<y, x>> \notin R PROVE x <= y
  BY <1>2
<1> HIDE DEF R
<1> SUFFICES ASSUME Nat \ S # {} PROVE FALSE
  OBVIOUS
<1>3. PICK x \in Nat \ S : \A y \in Nat \ S : ~ (<<y, x>> \in R)
  BY <1>1, WFMin
<1>4. x # 0 /\ x - 1 \in Nat /\ x - 1 \notin Nat \ S
  <2>1. \A y \in Nat \ S : x <= y
    BY <1>2, <1>3
  <2> QED BY <2>1
<1>5. x \in S
  BY <1>4
<1> QED BY <1>3, <1>5

(* One element after the other. *)
LEMMA SumWithout ==
    ASSUME NEW S, IsFiniteSet(S), NEW f, \A x \in S : f[x] \in Nat, NEW y \in S
    PROVE  SumOf(f, S) = f[y] + SumOf(f, S \ {y})
<1> DEFINE none == [x \in S |-> IF x = y THEN 0 ELSE f[x]]
<1>1. SumOf(f, S) = SumOf(none, S) + f[y]
  <2>1. \A x \in S : none[x] \in Nat /\ (x # y => f[x] = none[x])
    OBVIOUS
  <2>2. f[y] = none[y] + f[y] /\ f[y] \in Nat
    OBVIOUS
  <2> HIDE DEF none
  <2> QED BY <2>1, <2>2, SumAdd
<1>2. Units(none, S) = Units(f, S \ {y})
  <2>1. ASSUME NEW x, NEW i PROVE <<x, i>> \in Units(none, S) <=> <<x, i>> \in Units(f, S \ {y})
    BY UnitIs
  <2>2. ASSUME NEW u \in Units(none, S) PROVE u \in Units(f, S \ {y})
    BY <2>1, UnitsAre
  <2>3. ASSUME NEW u \in Units(f, S \ {y}) PROVE u \in Units(none, S)
    BY <2>1, UnitsAre
  <2> HIDE DEF none
  <2> QED BY <2>2, <2>3
<1>3. SumOf(none, S) = SumOf(f, S \ {y})
  BY <1>2 DEF SumOf
<1>4. SumOf(f, S \ {y}) \in Nat /\ f[y] \in Nat
  BY FS_Subset, SumType
<1> QED BY <1>1, <1>3, <1>4

(* The folds of the community modules take one element after the other. *)
Folded(f, S, g) ==
    [s \in SUBSET S |->
        IF s = {} THEN 0
        ELSE f[CHOOSE x \in s : TRUE] + g[s \ {CHOOSE x \in s : TRUE}]]

LEMMA FoldIsSum ==
    ASSUME NEW S, IsFiniteSet(S), NEW f, \A x \in S : f[x] \in Nat
    PROVE  /\ \E g : g = Folded(f, S, g)
           /\ \A g : g = Folded(f, S, g) => g[S] = SumOf(f, S)
<1>1. ASSUME NEW s \in SUBSET S, s # {}
      PROVE  LET x == CHOOSE x \in s : TRUE
             IN  x \in s /\ SumOf(f, s) = f[x] + SumOf(f, s \ {x})
  <2> DEFINE x == CHOOSE x \in s : TRUE
  <2>1. x \in s
    BY <1>1
  <2>2. IsFiniteSet(s) /\ \A y \in s : f[y] \in Nat
    BY FS_Subset
  <2> QED BY <2>1, <2>2, SumWithout
<1>2. SumOf(f, {}) = 0
  BY SumZero
<1>3. \E g : g = Folded(f, S, g)
  <2> DEFINE g == [s \in SUBSET S |-> SumOf(f, s)]
  <2>1. ASSUME NEW s \in SUBSET S
        PROVE  g[s] = IF s = {} THEN 0
                      ELSE f[CHOOSE x \in s : TRUE] + g[s \ {CHOOSE x \in s : TRUE}]
    BY <1>1, <1>2
  <2>2. g = [s \in SUBSET S |-> g[s]]
    OBVIOUS
  <2> HIDE DEF g
  <2>3. g = Folded(f, S, g)
    BY <2>1, <2>2 DEF Folded
  <2> QED BY <2>3
<1>4. ASSUME NEW g, g = Folded(f, S, g) PROVE g[S] = SumOf(f, S)
  <2> DEFINE T == {n \in Nat : \A s \in SUBSET S : Cardinality(s) = n => g[s] = SumOf(f, s)}
  <2>1. ASSUME NEW s \in SUBSET S
        PROVE  g[s] = IF s = {} THEN 0
                      ELSE f[CHOOSE x \in s : TRUE] + g[s \ {CHOOSE x \in s : TRUE}]
    BY <1>4 DEF Folded
  <2>2. \A s \in SUBSET S : IsFiniteSet(s)
    BY FS_Subset
  <2>3. 0 \in T
    BY <1>2, <2>1, <2>2, FS_EmptySet
  <2>4. ASSUME NEW n \in Nat, n \in T PROVE n + 1 \in T
    <3> SUFFICES ASSUME NEW s \in SUBSET S, Cardinality(s) = n + 1 PROVE g[s] = SumOf(f, s)
      OBVIOUS
    <3>1. s # {}
      BY FS_EmptySet
    <3>2. PICK x : x = (CHOOSE y \in s : TRUE)
      OBVIOUS
    <3>3. x \in s /\ SumOf(f, s) = f[x] + SumOf(f, s \ {x}) /\ g[s] = f[x] + g[s \ {x}]
      BY <1>1, <2>1, <3>1, <3>2
    <3>4. Cardinality(s \ {x}) = n
      <4>1. Cardinality(s \ {x}) = IF x \in s THEN Cardinality(s) - 1 ELSE Cardinality(s)
        BY <2>2, FS_RemoveElement
      <4> QED BY <3>3, <4>1
    <3>5. g[s \ {x}] = SumOf(f, s \ {x})
      BY <2>4, <3>4
    <3> QED BY <3>3, <3>5
  <2>5. Cardinality(S) \in T
    <3> HIDE DEF T
    <3> QED BY <2>3, <2>4, FS_CardinalityType, Induction
  <2> QED BY <2>5
<1> QED BY <1>3, <1>4

(* What the page adds up of a set of leaves is the sum over them. *)
LEMMA VestedAdded ==
    ASSUME NEW S, IsFiniteSet(S), \A leaf \in S : VestedShown(leaf) \in Nat
    PROVE  MapThenSumSet(VestedShown, S) = SumOf([leaf \in S |-> VestedShown(leaf)], S)
<1> DEFINE f == [leaf \in S |-> VestedShown(leaf)]
           iter == CHOOSE g : g = [s \in SUBSET S |-> IF s = {} THEN 0
                                     ELSE VestedShown(CHOOSE x \in s : TRUE) + g[s \ {CHOOSE x \in s : TRUE}]]
<1>1. MapThenSumSet(VestedShown, S) = iter[S]
  BY DEF MapThenSumSet, MapThenFoldSet
<1>2. \A leaf \in S : f[leaf] = VestedShown(leaf) /\ f[leaf] \in Nat
  OBVIOUS
<1>3. PICK g : g = Folded(f, S, g)
  BY <1>2, FoldIsSum
<1> HIDE DEF f
<1>4. ASSUME NEW h
      PROVE  Folded(f, S, h) = [s \in SUBSET S |-> IF s = {} THEN 0
                  ELSE VestedShown(CHOOSE x \in s : TRUE) + h[s \ {CHOOSE x \in s : TRUE}]]
  BY <1>2 DEF Folded
<1>5. iter = Folded(f, S, iter)
  BY <1>3, <1>4
<1>6. iter[S] = SumOf(f, S)
  BY <1>2, <1>5, FoldIsSum
<1> QED BY <1>1, <1>6 DEF f

(* ------------------------- milestones, all or nothing ------------------- *)

(* Within the first root a milestone was paid in full or not at all. *)
WholeMilestones ==
    Live /\ ~rotated /\ Unambiguous(tree.root) =>
        \A leaf \in tree.root : leaf.release_type = Milestone /\ Undisturbed(leaf) =>
            paid[EntitlementOf(leaf)] \in {0, leaf.amount}

(* An instruction that pays a milestone finds it unpaid, and pays all of   *)
(* it; or, when it settles the stream unreleased, nothing.                 *)
LEMMA WholePayment ==
    ASSUME TotalsInv, ~rotated, NEW leaf \in Leaves, Undisturbed(leaf),
           leaf.release_type = Milestone,
           \/ Claim(leaf) \/ Withdraw(leaf)
           \/ \E signer \in Keys : CancelStream(signer, leaf)
    PROVE  /\ Live /\ leaf \in tree.root /\ (Live' => tree'.root = tree.root)
           /\ UNCHANGED <<disturbed, rotated>>
           /\ paid[EntitlementOf(leaf)] = 0
           /\ \E amount \in {0, leaf.amount} :
                paid' = [paid EXCEPT ![EntitlementOf(leaf)] = @ + amount]
<1> DEFINE e0 == EntitlementOf(leaf)
<1>1. /\ TypeOK /\ LedgerInv /\ RecordsSound /\ RecordsMatchPayments
      /\ leaf.beneficiary \in Beneficiaries /\ leaf.beneficiary \notin disturbed
      /\ e0 \in Entitlements /\ paid[e0] \in Nat /\ leaf.amount \in Nat
  BY LeafFacts, EntitlementFacts, PaidType DEF TotalsInv, LedgerInv, IInv, Undisturbed
<1>2. CASE Claim(leaf)
  <2>1. PICK loaded : loaded = LoadForClaim(leaf)
    OBVIOUS
  <2>2. PICK cr : cr = CountLeaf(loaded, leaf)
    OBVIOUS
  <2>3. /\ Live /\ leaf \in tree.root /\ MilestoneUnclaimed(loaded, leaf)
        /\ PayOut(cr, leaf, leaf.amount)
    BY <1>2, <2>1, <2>2 DEF Claim, ProofAccepted, ClaimableByClaim
  <2>4. Tells(loaded, leaf, paid[e0])
    BY <1>1, <2>1, LoadedTells
  <2>5. paid[e0] = 0
    BY <1>1, <2>3, <2>4 DEF Tells, MilestoneUnclaimed
  <2>6. /\ tree' = Booked(leaf.amount) \/ tree' = NoTree
        /\ UNCHANGED <<disturbed, rotated>>
        /\ paid' = [paid EXCEPT ![e0] = @ + leaf.amount]
    BY <2>3, PayOutTree DEF PayOut
  <2>7. Live' => tree'.root = tree.root
    BY <1>1, <2>3, <2>6 DEF Live, Booked, TypeOK, TreeType
  <2> QED BY <2>3, <2>5, <2>6, <2>7
<1>3. CASE Withdraw(leaf) \/ \E signer \in Keys : CancelStream(signer, leaf)
  <2>1. PICK cr : cr = LoadForStream(leaf)
    OBVIOUS
  <2>2. Live /\ tree.root = {leaf} /\ leaf \in tree.root /\ MilestoneUnclaimed(cr, leaf)
    BY <1>3, <2>1 DEF Withdraw, CancelStream, IsStreamLeaf
  <2>3. Tells(cr, leaf, paid[e0])
    BY <1>1, <2>1, LoadedTells
  <2>4. paid[e0] = 0
    BY <1>1, <2>2, <2>3 DEF Tells, MilestoneUnclaimed
  <2>5. cr.claimed_amount = 0
    <3>1. cr.claimed_amount = Claimed[leaf.beneficiary]
      BY <1>1, <2>1, LoadedClaimed
    <3>2. Claimed[leaf.beneficiary] = SumOf(paid, EntitlementsOf(leaf.beneficiary))
      BY <1>1 DEF TotalsInv, SumsRight
    <3> QED BY <1>1, <2>2, <2>4, <3>1, <3>2, SoleLeaf
  <2>6. CASE Withdraw(leaf)
    <3>1. PayOut(cr, leaf, leaf.amount)
      BY <2>1, <2>6 DEF Withdraw, ClaimableByWithdraw
    <3>2. /\ tree' = Booked(leaf.amount) \/ tree' = NoTree
          /\ UNCHANGED <<disturbed, rotated>>
          /\ paid' = [paid EXCEPT ![e0] = @ + leaf.amount]
      BY <3>1, PayOutTree DEF PayOut
    <3>3. Live' => tree'.root = tree.root
      BY <1>1, <2>2, <3>2 DEF Live, Booked, TypeOK, TreeType
    <3> QED BY <2>2, <2>4, <3>2, <3>3
  <2>7. CASE \E signer \in Keys : CancelStream(signer, leaf)
    <3>1. PICK due : due = DueAtCancel(cr, leaf)
      OBVIOUS
    <3>2. /\ paid' = [paid EXCEPT ![e0] = @ + due]
          /\ \/ tree' = NoTree
             \/ tree' = [Booked(due) EXCEPT !.cancelled_at = now, !.paused = FALSE]
          /\ UNCHANGED <<disturbed, rotated>>
      BY <2>1, <2>7, <3>1 DEF CancelStream, DrainTree, DrainVault
    <3>3. due \in {0, leaf.amount}
      BY <1>1, <2>5, <3>1 DEF DueAtCancel, SatSub
    <3>4. Live' => tree'.root = tree.root
      BY <1>1, <2>2, <3>2 DEF Live, Booked, TypeOK, TreeType
    <3> QED BY <2>2, <2>4, <3>2, <3>3, <3>4
  <2> QED BY <1>3, <2>6, <2>7
<1> QED BY <1>2, <1>3

(* Paying one leaf leaves every milestone of the root whole. *)
LEMMA PaymentWhole ==
    ASSUME TotalsInv, WholeMilestones, NEW leaf \in Leaves,
           \/ Claim(leaf) \/ Withdraw(leaf)
           \/ \E signer \in Keys : CancelStream(signer, leaf)
    PROVE  WholeMilestones'
<1>1. /\ LedgerInv /\ TypeOK
  BY DEF TotalsInv, LedgerInv, IInv
<1>2. \E amount \in Nat : \E new : Payment(leaf, new, amount)
  BY ClaimPayment, StreamPayment DEF TotalsInv
<1>3. PICK amount \in Nat :
        /\ Live /\ leaf \in tree.root
        /\ paid' = [paid EXCEPT ![EntitlementOf(leaf)] = @ + amount]
        /\ Live' => tree'.root = tree.root
        /\ UNCHANGED <<disturbed, rotated>>
  BY <1>2 DEF Payment
<1>4. SUFFICES ASSUME Live', ~rotated, Unambiguous(tree.root), NEW l \in tree.root,
                      l.release_type = Milestone, Undisturbed(l)
               PROVE  paid'[EntitlementOf(l)] \in {0, l.amount}
  BY <1>3 DEF WholeMilestones, Undisturbed, Unambiguous
<1>5. /\ l \in Leaves /\ EntitlementOf(l) \in Entitlements
      /\ paid[EntitlementOf(l)] \in {0, l.amount} /\ l.amount \in Nat
  <2>1. l \in Leaves
    BY <1>1, <1>3 DEF TypeOK, Live, TreeType
  <2> QED BY <1>3, <1>4, <2>1, EntitlementFacts, LeafFacts DEF WholeMilestones
<1>6. CASE EntitlementOf(l) = EntitlementOf(leaf)
  <2>1. l = leaf
    BY <1>3, <1>4, <1>6 DEF Unambiguous
  <2>2. PICK due \in {0, leaf.amount} :
          /\ paid[EntitlementOf(leaf)] = 0
          /\ paid' = [paid EXCEPT ![EntitlementOf(leaf)] = @ + due]
    BY <1>4, <2>1, WholePayment
  <2>3. paid'[EntitlementOf(leaf)] = due
    BY <1>1, <1>5, <2>1, <2>2 DEF TypeOK
  <2> QED BY <2>1, <2>2, <2>3
<1>7. CASE EntitlementOf(l) # EntitlementOf(leaf)
  BY <1>1, <1>3, <1>5, <1>7 DEF TypeOK
<1> QED BY <1>6, <1>7

(* Every instruction leaves them whole. *)
LEMMA NextWhole ==
    ASSUME TotalsInv, WholeMilestones, [Next]_vars
    PROVE  WholeMilestones'
<1>1. TypeOK
  BY DEF TotalsInv, LedgerInv, IInv
<1>2. CASE \/ \E args \in CampaignArgs : CreateCampaign(args)
           \/ \E args \in StreamArgs : CreateStream(args)
  <2>1. paid' = [e \in Entitlements |-> 0] /\ TypeOK'
    <3>1. TypeOK'
      BY NextInv DEF TotalsInv, LedgerInv, IInv
    <3> QED BY <1>2, <3>1 DEF CreateCampaign, CreateStream, Open
  <2>2. ASSUME Live', NEW leaf \in tree'.root PROVE paid'[EntitlementOf(leaf)] = 0
    <3>1. leaf \in Leaves
      BY <2>1, <2>2 DEF TypeOK, Live, TreeType
    <3> QED BY <2>1, <3>1, EntitlementFacts
  <2> QED BY <2>2 DEF WholeMilestones
<1>3. CASE \/ Tick \/ UNCHANGED vars
           \/ \E amount \in FundAmounts : FundCampaign(amount) \/ FundCampaignNative(amount)
           \/ \E signer \in Keys : WithdrawUnvested(signer)
  <2>1. UNCHANGED <<tree, paid, disturbed, rotated>>
    BY <1>3 DEF Tick, vars, accounts, history, FundCampaign, FundCampaignNative, WithdrawUnvested
  <2> QED BY <2>1 DEF WholeMilestones, Live, Undisturbed, Unambiguous
<1>4. CASE \E leaf \in Leaves : \/ Claim(leaf) \/ Withdraw(leaf)
                                \/ \E signer \in Keys : CancelStream(signer, leaf)
  BY <1>4, PaymentWhole
<1>5. CASE \/ \E signer \in Keys : CancelCampaign(signer) \/ InstantRefundCampaign(signer)
           \/ \E signer \in Keys : PauseCampaign(signer) \/ UnpauseCampaign(signer)
           \/ \E signer \in Keys, idx \in MilestoneIdx : SetMilestoneReleased(signer, idx)
  <2>1. /\ UNCHANGED <<paid, disturbed, rotated>> /\ Live
        /\ \/ tree' = [tree EXCEPT !.cancelled_at = now, !.paused = FALSE]
           \/ tree' = [tree EXCEPT !.cancelled_at = now, !.paused = FALSE,
                                   !.instant_refunded = TRUE]
           \/ \E p \in BOOLEAN : tree' = [tree EXCEPT !.paused = p]
           \/ \E idx \in MilestoneIdx : tree' = [tree EXCEPT !.released = @ \cup {idx}]
    BY <1>5 DEF CancelCampaign, MayCancel, InstantRefundCampaign, PauseCampaign,
                UnpauseCampaign, MayPause, SetMilestoneReleased, history
  <2>2. tree'.root = tree.root
    BY <1>1, <2>1 DEF TypeOK, Live, TreeType
  <2> QED BY <2>1, <2>2 DEF WholeMilestones, Undisturbed, Unambiguous
<1>6. CASE \E signer \in Keys, args \in RootArgs : UpdateRoot(signer, args)
  BY <1>6 DEF UpdateRoot, WholeMilestones
<1>7. CASE \E b \in Beneficiaries : CloseClaimRecord(b)
  <2>1. UNCHANGED <<tree, paid, rotated>> /\ disturbed \subseteq disturbed'
    BY <1>7 DEF CloseClaimRecord
  <2> QED BY <2>1 DEF WholeMilestones, Live, Undisturbed, Unambiguous
<1> QED BY <1>2, <1>3, <1>4, <1>5, <1>6, <1>7 DEF Next

(* The milestones are whole in every reachable state. *)
LEMMA WholeInvariant == Spec => []WholeMilestones
<1>1. Init => WholeMilestones
  BY DEF Init, WholeMilestones, Live
<1>2. TotalsInv /\ WholeMilestones /\ [Next]_vars => WholeMilestones'
  BY NextWhole
<1> QED BY <1>1, <1>2, TotalsInvariant, PTL DEF Spec

(* The card of a milestone, in a root that promises each milestone once,   *)
(* each of some amount and to another than the creator: what it calls      *)
(* ready to claim, or available, the program would pay; it calls it so     *)
(* when the unlock has passed, on the page of a stream less than a minute  *)
(* sooner; and claimed exactly when it was paid in full (MilestonesAgree   *)
(* of OffersMatchProgram).                                                 *)
THEOREM MilestoneCardsAgree ==
    Spec => [](Live /\ ~rotated /\ disturbed = {} /\ Unambiguous(tree.root)
                 /\ (\A leaf \in tree.root : leaf.release_type = Milestone =>
                       leaf.amount > 0 /\ leaf.beneficiary # Creator)
                   => MilestonesAgree)
<1> DEFINE Promising ==
             /\ Live /\ ~rotated /\ disturbed = {} /\ Unambiguous(tree.root)
             /\ \A leaf \in tree.root : leaf.release_type = Milestone =>
                  leaf.amount > 0 /\ leaf.beneficiary # Creator
<1>1. ASSUME TotalsInv, WholeMilestones, Promising,
             NEW leaf \in tree.root, leaf.release_type = Milestone
      PROVE  LET status == MilestoneStatus(leaf.beneficiary, leaf)
                 done   == paid[EntitlementOf(leaf)] = leaf.amount
             IN  /\ UnlockSaid(leaf, status = "Ready To Claim", Effective)
                 /\ status = "Claimed" <=> done
                 /\ UnlockSaid(leaf, MilestoneClaim(leaf) = "available", Effective)
                 /\ MilestoneClaim(leaf) = "opens" => ReleasedEarly(leaf) /\ ~done
                 /\ UnlockSaid(leaf, MilestoneBadge(leaf) = "ready", now)
                 /\ MilestoneBadge(leaf) = "claimed" <=> done
  <2>1. /\ TypeOK /\ RecordsMatchPayments /\ leaf \in Leaves
        /\ leaf.beneficiary \in Beneficiaries /\ Undisturbed(leaf)
    <3>1. TypeOK /\ leaf \in Leaves
      BY <1>1 DEF TotalsInv, LedgerInv, IInv, TypeOK, Live, TreeType
    <3> QED BY <1>1, <3>1, LeafFacts DEF TotalsInv, LedgerInv, Undisturbed
  <2>2. PICK p : p = paid[EntitlementOf(leaf)]
    OBVIOUS
  <2>3. /\ p \in {0, leaf.amount} /\ leaf.amount \in Nat /\ leaf.amount > 0
        /\ leaf.beneficiary # Creator
    BY <1>1, <2>1, <2>2, LeafFacts DEF WholeMilestones
  <2>4. leaf.milestone_idx \in MyRecord(leaf.beneficiary).bitmap <=> p = leaf.amount
    <3>1. CASE record[leaf.beneficiary] = NoRecord
      <4>1. p = 0
        BY <2>1, <2>2, <3>1 DEF RecordsMatchPayments
      <4> QED BY <2>3, <3>1, <4>1 DEF MyRecord
    <3>2. CASE record[leaf.beneficiary] # NoRecord
      <4>1. leaf.milestone_idx \in record[leaf.beneficiary].milestone_bitmap <=> p > 0
        BY <1>1, <2>1, <2>2, <3>2 DEF RecordsMatchPayments
      <4> QED BY <2>1, <2>3, <3>2, <4>1 DEF MyRecord
    <3> QED BY <3>1, <3>2
  <2>5. LeafIsReleased(leaf) <=> leaf.milestone_idx \in tree.released
    BY <1>1 DEF LeafIsReleased
  <2>6. Outstanding(leaf) > 0 <=> LeafIsReleased(leaf) /\ p # leaf.amount
    BY <1>1, <2>2, <2>3, <2>5 DEF Outstanding, GetVestedAmount, SatSub
  <2>7. /\ Effective \in Int /\ now \in Int /\ leaf.cliff_time \in Int
        /\ Minute \in Nat /\ Minute > 0
    BY <1>1, <2>1, EffectiveType, LeafFacts, MinuteAssumption, BoundsAssumption
       DEF IsLeaf, TypeOK, Live
  <2>14. PICK shown : shown = InForm(leaf).cliff_time
    OBVIOUS
  <2>15. /\ shown \in Int /\ shown <= leaf.cliff_time /\ leaf.cliff_time < shown + Minute
         /\ ~IsSingleLeaf => shown = leaf.cliff_time
    <3>1. leaf \in LeafType
      BY <2>1, LeavesAssumption
    <3>2. CASE IsSingleLeaf
      <4>1. shown = InMinutes(leaf.cliff_time)
        BY <2>14, <3>1, <3>2 DEF InForm, LeafType
      <4> QED BY <2>7, <3>2, <4>1, MinuteFacts
    <3>3. CASE ~IsSingleLeaf
      BY <2>7, <2>14, <3>3 DEF InForm
    <3> QED BY <3>2, <3>3
  <2>8. ReleasedEarly(leaf) <=> LeafIsReleased(leaf) /\ ~(Effective >= leaf.cliff_time)
    BY <1>1, <2>7 DEF ReleasedEarly
  <2>9. p = 0 <=> p # leaf.amount
    BY <2>3
  <2>10. PICK due \in BOOLEAN : due <=> LeafIsReleased(leaf) /\ p # leaf.amount
    OBVIOUS
  <2>11. Outstanding(leaf) > 0 <=> due
    BY <2>6, <2>10
  <2>12. ASSUME NEW time \in Int
         PROVE  /\ time >= leaf.cliff_time => time >= shown
                /\ time >= shown => time + Minute > leaf.cliff_time
                /\ ~IsSingleLeaf => (time >= shown <=> time >= leaf.cliff_time)
    BY <2>7, <2>15
  <2>13. /\ Effective >= leaf.cliff_time => Effective >= shown
         /\ Effective >= shown => Effective + Minute > leaf.cliff_time
         /\ ~IsSingleLeaf => (Effective >= shown <=> Effective >= leaf.cliff_time)
         /\ now >= leaf.cliff_time => now >= shown
         /\ now >= shown => now + Minute > leaf.cliff_time
         /\ ~IsSingleLeaf => (now >= shown <=> now >= leaf.cliff_time)
    BY <2>7, <2>12
  <2>16. PICK status : status = MilestoneStatus(leaf.beneficiary, leaf)
    OBVIOUS
  <2>17. /\ status = "Ready To Claim" <=> due /\ Effective >= shown
         /\ status = "Claimed" <=> p = leaf.amount
    BY <2>3, <2>4, <2>10, <2>14, <2>16, Zenon DEF MilestoneStatus
  <2>18. /\ MilestoneClaim(leaf) = "available" <=> due /\ Effective >= shown
         /\ MilestoneClaim(leaf) = "opens" <=> due /\ ~(Effective >= shown)
    BY <2>10, <2>14, <2>16, <2>17, Zenon DEF MilestoneClaim
  <2>19. /\ MilestoneBadge(leaf) = "ready" <=> due /\ now >= shown
         /\ MilestoneBadge(leaf) = "claimed" <=> p = leaf.amount
    BY <2>4, <2>10, <2>14, Zenon DEF MilestoneBadge
  <2>20. UnlockSaid(leaf, status = "Ready To Claim", Effective)
    BY <2>11, <2>13, <2>17, Zenon DEF UnlockSaid
  <2>21. UnlockSaid(leaf, MilestoneClaim(leaf) = "available", Effective)
    BY <2>11, <2>13, <2>18, Zenon DEF UnlockSaid
  <2>22. UnlockSaid(leaf, MilestoneBadge(leaf) = "ready", now)
    BY <2>11, <2>13, <2>19, Zenon DEF UnlockSaid
  <2>23. MilestoneClaim(leaf) = "opens" => ReleasedEarly(leaf) /\ p # leaf.amount
    BY <2>8, <2>10, <2>13, <2>18, Zenon
  <2> QED BY <2>2, <2>16, <2>17, <2>19, <2>20, <2>21, <2>22, <2>23, Zenon
<1>2. TotalsInv /\ WholeMilestones => (Promising => MilestonesAgree)
  BY <1>1, Zenon DEF MilestonesAgree
<1> QED BY <1>2, TotalsInvariant, WholeInvariant, PTL

(* ------------------------- the claim panel's figures -------------------- *)

(* Of two amounts per element. *)
LEMMA SumPlus ==
    ASSUME NEW S, IsFiniteSet(S), NEW f, NEW g, NEW h,
           \A x \in S : f[x] \in Nat /\ g[x] \in Nat /\ h[x] = f[x] + g[x]
    PROVE  SumOf(h, S) = SumOf(f, S) + SumOf(g, S)
<1> DEFINE T == {n \in Nat : \A s \in SUBSET S :
                   Cardinality(s) = n => SumOf(h, s) = SumOf(f, s) + SumOf(g, s)}
<1>1. \A s \in SUBSET S : IsFiniteSet(s) /\ \A x \in s : f[x] \in Nat /\ g[x] \in Nat /\ h[x] \in Nat
  <2>1. \A s \in SUBSET S : IsFiniteSet(s)
    BY FS_Subset
  <2> QED BY <2>1
<1>2. 0 \in T
  <2> SUFFICES ASSUME NEW s \in SUBSET S, Cardinality(s) = 0
               PROVE  SumOf(h, s) = SumOf(f, s) + SumOf(g, s)
    OBVIOUS
  <2>1. s = {}
    BY <1>1, FS_EmptySet
  <2>2. SumOf(h, s) = 0 /\ SumOf(f, s) = 0 /\ SumOf(g, s) = 0
    BY <2>1, SumZero
  <2> QED BY <2>2
<1>3. ASSUME NEW n \in Nat, n \in T PROVE n + 1 \in T
  <2> SUFFICES ASSUME NEW s \in SUBSET S, Cardinality(s) = n + 1
               PROVE  SumOf(h, s) = SumOf(f, s) + SumOf(g, s)
    OBVIOUS
  <2>1. s # {}
    BY FS_EmptySet
  <2>2. PICK x \in s : TRUE
    BY <2>1
  <2>3. Cardinality(s \ {x}) = n
    <3>1. Cardinality(s \ {x}) = IF x \in s THEN Cardinality(s) - 1 ELSE Cardinality(s)
      BY <1>1, FS_RemoveElement
    <3> QED BY <3>1
  <2>4. SumOf(h, s \ {x}) = SumOf(f, s \ {x}) + SumOf(g, s \ {x})
    BY <1>3, <2>3
  <2> HIDE DEF T
  <2>5. SumOf(h, s) = h[x] + SumOf(h, s \ {x})
    BY <1>1, SumWithout
  <2>6. SumOf(f, s) = f[x] + SumOf(f, s \ {x})
    BY <1>1, SumWithout
  <2>7. SumOf(g, s) = g[x] + SumOf(g, s \ {x})
    BY <1>1, SumWithout
  <2>8. s \ {x} \in SUBSET S
    OBVIOUS
  <2>9. SumOf(f, s \ {x}) \in Nat /\ SumOf(g, s \ {x}) \in Nat
    BY <1>1, <2>8, SumType
  <2> QED BY <2>4, <2>5, <2>6, <2>7, <2>9
<1>4. Cardinality(S) \in T
  <2> HIDE DEF T
  <2> QED BY <1>2, <1>3, FS_CardinalityType, Induction
<1> QED BY <1>4

(* Of two parts. *)
LEMMA SumSplit ==
    ASSUME NEW A, IsFiniteSet(A), NEW B, IsFiniteSet(B), A \cap B = {}, NEW f,
           \A x \in A \cup B : f[x] \in Nat
    PROVE  SumOf(f, A \cup B) = SumOf(f, A) + SumOf(f, B)
<1>1. Units(f, A \cup B) = Units(f, A) \cup Units(f, B)
  <2>1. ASSUME NEW u \in Units(f, A \cup B) PROVE u \in Units(f, A) \cup Units(f, B)
    <3>1. PICK x \in A \cup B : \E i \in 1 .. f[x] : u = <<x, i>>
      BY <2>1, UnitsAre
    <3> QED BY <3>1, UnitsAre
  <2>2. ASSUME NEW u \in Units(f, A) \cup Units(f, B) PROVE u \in Units(f, A \cup B)
    <3>1. PICK x \in A \cup B : \E i \in 1 .. f[x] : u = <<x, i>>
      BY <2>2, UnitsAre
    <3> QED BY <3>1, UnitsAre
  <2> QED BY <2>1, <2>2
<1>2. Units(f, A) \cap Units(f, B) = {}
  <2> SUFFICES ASSUME NEW u \in Units(f, A), u \in Units(f, B) PROVE FALSE
    OBVIOUS
  <2>1. PICK x \in A : \E i \in 1 .. f[x] : u = <<x, i>>
    BY UnitsAre
  <2>2. PICK y \in B : \E i \in 1 .. f[y] : u = <<y, i>>
    BY UnitsAre
  <2>3. x = y
    BY <2>1, <2>2
  <2> QED BY <2>3
<1>3. /\ IsFiniteSet(Units(f, A)) /\ Cardinality(Units(f, A)) \in Nat
      /\ IsFiniteSet(Units(f, B)) /\ Cardinality(Units(f, B)) \in Nat
  BY UnitsFinite, FS_CardinalityType
<1>4. Cardinality(Units(f, A) \cap Units(f, B)) = 0
  BY <1>2, FS_EmptySet
<1>5. Cardinality(Units(f, A) \cup Units(f, B))
        = Cardinality(Units(f, A)) + Cardinality(Units(f, B))
            - Cardinality(Units(f, A) \cap Units(f, B))
  BY <1>3, FS_Union
<1>6. Cardinality(Units(f, A) \cup Units(f, B))
        = Cardinality(Units(f, A)) + Cardinality(Units(f, B))
  BY <1>3, <1>4, <1>5
<1> QED BY <1>1, <1>6 DEF SumOf

LEMMA OutstandingAdded ==
    ASSUME NEW S, IsFiniteSet(S), \A leaf \in S : Outstanding(leaf) \in Nat
    PROVE  MapThenSumSet(Outstanding, S) = SumOf([leaf \in S |-> Outstanding(leaf)], S)
<1> DEFINE f == [leaf \in S |-> Outstanding(leaf)]
           iter == CHOOSE g : g = [s \in SUBSET S |-> IF s = {} THEN 0
                                     ELSE Outstanding(CHOOSE x \in s : TRUE) + g[s \ {CHOOSE x \in s : TRUE}]]
<1>1. MapThenSumSet(Outstanding, S) = iter[S]
  BY DEF MapThenSumSet, MapThenFoldSet
<1>2. \A leaf \in S : f[leaf] = Outstanding(leaf) /\ f[leaf] \in Nat
  OBVIOUS
<1>3. PICK g : g = Folded(f, S, g)
  BY <1>2, FoldIsSum
<1> HIDE DEF f
<1>4. ASSUME NEW h
      PROVE  Folded(f, S, h) = [s \in SUBSET S |-> IF s = {} THEN 0
                  ELSE Outstanding(CHOOSE x \in s : TRUE) + h[s \ {CHOOSE x \in s : TRUE}]]
  BY <1>2 DEF Folded
<1>5. iter = Folded(f, S, iter)
  BY <1>3, <1>4
<1>6. iter[S] = SumOf(f, S)
  BY <1>2, <1>5, FoldIsSum
<1> QED BY <1>1, <1>6 DEF f

LEMMA AmountsAdded ==
    ASSUME NEW S, IsFiniteSet(S), \A leaf \in S : leaf.amount \in Nat
    PROVE  Total(S) = SumOf([leaf \in S |-> leaf.amount], S)
<1> DEFINE f == [leaf \in S |-> leaf.amount]
           iter == CHOOSE g : g = [s \in SUBSET S |-> IF s = {} THEN 0
                                     ELSE (CHOOSE x \in s : TRUE).amount + g[s \ {CHOOSE x \in s : TRUE}]]
<1>1. Total(S) = iter[S]
  BY DEF Total, MapThenSumSet, MapThenFoldSet
<1>2. \A leaf \in S : f[leaf] = leaf.amount /\ f[leaf] \in Nat
  OBVIOUS
<1>3. PICK g : g = Folded(f, S, g)
  BY <1>2, FoldIsSum
<1> HIDE DEF f
<1>4. ASSUME NEW h
      PROVE  Folded(f, S, h) = [s \in SUBSET S |-> IF s = {} THEN 0
                  ELSE (CHOOSE x \in s : TRUE).amount + h[s \ {CHOOSE x \in s : TRUE}]]
  BY <1>2 DEF Folded
<1>5. iter = Folded(f, S, iter)
  BY <1>3, <1>4
<1>6. iter[S] = SumOf(f, S)
  BY <1>2, <1>5, FoldIsSum
<1> QED BY <1>1, <1>6 DEF f

(* A root whose leaves the instructions accept, each at its own place and  *)
(* with its own entitlement.                                               *)
Orderly(root) ==
    /\ \A leaf \in root : WellFormed(leaf)
    /\ Unambiguous(root)
    /\ \A l, m \in root : l.leaf_index = m.leaf_index => l = m

(* What the panel of a campaign works from: the running sum is what was    *)
(* paid for the viewer's leaves, each of them at most what it shows as     *)
(* vested.                                                                 *)
LEMMA PanelFacts ==
    ASSUME TotalsInv, Live, ~rotated, disturbed = {}, Orderly(tree.root), ~IsSingleLeaf,
           NEW b \in Beneficiaries, NEW L, L = LeavesOf(b),
           ~(\E l \in L : ReleasedEarly(l)),
           NEW P, P = [leaf \in L |-> paid[EntitlementOf(leaf)]]
    PROVE  /\ IsFiniteSet(L)
           /\ \A leaf \in L :
                /\ leaf \in tree.root /\ leaf \in Leaves /\ leaf.beneficiary = b
                /\ leaf.amount \in Nat /\ leaf.leaf_index \in Int
                /\ P[leaf] = paid[EntitlementOf(leaf)] /\ P[leaf] \in Nat
                /\ VestedShown(leaf) = Due(leaf)
                /\ VestedShown(leaf) \in Nat /\ VestedShown(leaf) <= leaf.amount
                /\ P[leaf] <= VestedShown(leaf)
                /\ Outstanding(leaf) = VestedShown(leaf) - P[leaf]
           /\ MyRecord(b).claimed = SumOf(P, L)
<1> DEFINE own == EntitlementsOf(b)
<1>1. /\ LedgerInv /\ TypeOK /\ tree.root \in SUBSET Leaves
      /\ Unambiguous(tree.root) /\ \A leaf \in tree.root : WellFormed(leaf)
  BY DEF TotalsInv, LedgerInv, IInv, TypeOK, Live, TreeType, Orderly
<1>2. L \in SUBSET tree.root /\ L \in SUBSET Leaves /\ IsFiniteSet(L)
  <2>1. L \in SUBSET tree.root
    BY DEF LeavesOf
  <2>2. L \in SUBSET Leaves
    BY <1>1, <2>1
  <2> QED BY <2>1, <2>2, Finite
<1>3. ASSUME NEW leaf \in L
      PROVE  /\ leaf \in tree.root /\ leaf \in Leaves /\ leaf.beneficiary = b
             /\ EntitlementOf(leaf) \in own /\ EntitlementOf(leaf) \in Entitlements
             /\ leaf.amount \in Nat /\ leaf.leaf_index \in Int
             /\ P[leaf] = paid[EntitlementOf(leaf)] /\ P[leaf] \in Nat
             /\ VestedShown(leaf) = Due(leaf)
             /\ VestedShown(leaf) \in Nat /\ VestedShown(leaf) <= leaf.amount
             /\ P[leaf] <= VestedShown(leaf)
             /\ Outstanding(leaf) = VestedShown(leaf) - P[leaf]
  <2>1. leaf \in tree.root /\ leaf \in Leaves /\ leaf.beneficiary = b
    BY <1>2 DEF LeavesOf
  <2>2. EntitlementOf(leaf) \in own /\ EntitlementOf(leaf) \in Entitlements
    BY <2>1, EntitlementFacts DEF EntitlementsOf
  <2>3. leaf.amount \in Nat /\ leaf.leaf_index \in Int
    BY <2>1, LeavesAssumption, BoundsAssumption DEF LeafType, U64
  <2>4. P[leaf] = paid[EntitlementOf(leaf)] /\ P[leaf] \in Nat
    BY <1>1, <2>2, PaidType
  <2>5. /\ VestedShown(leaf) = Due(leaf)
        /\ VestedShown(leaf) \in Nat /\ VestedShown(leaf) <= leaf.amount
    <3>1. /\ Due(leaf) <= VestedShown(leaf) /\ VestedShown(leaf) <= leaf.amount
          /\ ToTheSecond(leaf) => VestedShown(leaf) = Due(leaf)
          /\ ToTheSecond(leaf)
      BY <1>1, <2>1, ShownIsVested
    <3>2. Due(leaf) \in Nat
      BY <1>1, <2>1, <2>4, ShownIsLeft
    <3> QED BY <3>1, <3>2
  <2>6. P[leaf] <= VestedShown(leaf)
    <3>1. CASE P[leaf] > 0
      <4>1. PICK l \in tree.root :
              EntitlementOf(l) = EntitlementOf(leaf) /\ paid[EntitlementOf(leaf)] <= Due(l)
        BY <1>1, <2>2, <2>4, <3>1, PaidLeaf
      <4>2. l = leaf
        BY <1>1, <2>1, <4>1 DEF Unambiguous
      <4> QED BY <2>4, <2>5, <4>1, <4>2
    <3>2. CASE P[leaf] = 0
      BY <2>5, <3>2
    <3> QED BY <2>4, <3>1, <3>2
  <2>7. Outstanding(leaf) = VestedShown(leaf) - P[leaf]
    <3>1. Outstanding(leaf) = SatSub(VestedShown(leaf), P[leaf])
      BY <2>4, <2>5 DEF Outstanding, Due
    <3> QED BY <2>4, <2>5, <2>6, <3>1 DEF SatSub
  <2> QED BY <2>1, <2>2, <2>3, <2>4, <2>5, <2>6, <2>7
<1>4. IsFiniteSet(own) /\ \A e \in own : e \in Entitlements /\ paid[e] \in Nat
  BY <1>1, Finite, PaidType
<1>5. SumOf(P, L) <= SumOf(paid, own)
  <2> DEFINE rep == [leaf \in L |-> EntitlementOf(leaf)]
  <2>1. \A leaf \in L : P[leaf] > 0 => rep[leaf] \in own /\ P[leaf] <= paid[rep[leaf]]
    BY <1>3
  <2>2. \A l, m \in L : P[l] > 0 /\ P[m] > 0 /\ rep[l] = rep[m] => l = m
    BY <1>1, <1>2 DEF Unambiguous
  <2>3. \A leaf \in L : P[leaf] \in Nat
    BY <1>3
  <2> HIDE DEF rep, own
  <2> QED BY <1>4, <2>1, <2>2, <2>3, SumInto
<1>6. SumOf(paid, own) <= SumOf(P, L)
  <2> DEFINE rep == [e \in own |-> CHOOSE leaf \in L : EntitlementOf(leaf) = e]
  <2>1. ASSUME NEW e \in own, paid[e] > 0
        PROVE  rep[e] \in L /\ EntitlementOf(rep[e]) = e
    <3>1. e \in Entitlements /\ e[1] = b
      BY DEF EntitlementsOf
    <3>2. PICK l \in tree.root : l \in Leaves /\ EntitlementOf(l) = e
      BY <1>1, <2>1, <3>1, PaidLeaf
    <3>3. l \in L
      BY <3>1, <3>2, EntitlementFacts DEF LeavesOf
    <3> QED BY <3>2, <3>3
  <2>2. \A e \in own : paid[e] > 0 => rep[e] \in L /\ paid[e] <= P[rep[e]]
    BY <1>3, <1>4, <2>1
  <2>3. \A e, f \in own : paid[e] > 0 /\ paid[f] > 0 /\ rep[e] = rep[f] => e = f
    BY <2>1
  <2>4. \A leaf \in L : P[leaf] \in Nat
    BY <1>3
  <2> HIDE DEF rep, own
  <2> QED BY <1>2, <1>4, <2>2, <2>3, <2>4, SumInto
<1>7. MyRecord(b).claimed = SumOf(P, L)
  <2>1. MyRecord(b).claimed = Claimed[b]
    BY DEF MyRecord, Claimed
  <2>2. Claimed[b] = SumOf(paid, own)
    BY DEF TotalsInv, SumsRight
  <2>3. SumOf(P, L) \in Nat /\ SumOf(paid, own) \in Nat
    BY <1>1, <1>2, <1>3, SumType, PaidType
  <2> QED BY <1>5, <1>6, <2>1, <2>2, <2>3
<1> QED BY <1>2, <1>3, <1>7

(* The figure of a campaign: what is left of all leaves together. *)
LEMMA CampaignFigure ==
    ASSUME TotalsInv, Live, ~rotated, disturbed = {}, Orderly(tree.root), ~IsSingleLeaf,
           NEW b \in Beneficiaries, ~(\E l \in LeavesOf(b) : ReleasedEarly(l))
    PROVE  RecipientClaimable(b) = MapThenSumSet(Outstanding, LeavesOf(b))
<1>1. PICK L : L = LeavesOf(b)
  OBVIOUS
<1>2. PICK P : P = [leaf \in L |-> paid[EntitlementOf(leaf)]]
  OBVIOUS
<1>3. /\ IsFiniteSet(L) /\ MyRecord(b).claimed = SumOf(P, L)
      /\ \A leaf \in L :
           /\ leaf.amount \in Nat /\ P[leaf] \in Nat
           /\ VestedShown(leaf) \in Nat /\ VestedShown(leaf) <= leaf.amount
           /\ P[leaf] <= VestedShown(leaf)
           /\ Outstanding(leaf) = VestedShown(leaf) - P[leaf]
  BY <1>1, <1>2, PanelFacts
<1>4. PICK V : V = [leaf \in L |-> VestedShown(leaf)]
  OBVIOUS
<1>5. PICK O : O = [leaf \in L |-> Outstanding(leaf)]
  OBVIOUS
<1>6. PICK A : A = [leaf \in L |-> leaf.amount]
  OBVIOUS
<1>7. \A leaf \in L : /\ P[leaf] \in Nat /\ O[leaf] \in Nat /\ V[leaf] \in Nat /\ A[leaf] \in Nat
                      /\ V[leaf] = P[leaf] + O[leaf] /\ P[leaf] <= A[leaf]
  BY <1>3, <1>4, <1>5, <1>6
<1>8. /\ MapThenSumSet(VestedShown, L) = SumOf(V, L)
      /\ MapThenSumSet(Outstanding, L) = SumOf(O, L)
      /\ Total(L) = SumOf(A, L)
  <2>1. \A leaf \in L : Outstanding(leaf) \in Nat
    BY <1>5, <1>7
  <2> QED BY <1>3, <1>4, <1>5, <1>6, <2>1, VestedAdded, OutstandingAdded, AmountsAdded
<1>9. SumOf(V, L) = SumOf(P, L) + SumOf(O, L)
  BY <1>3, <1>7, SumPlus
<1>10. SumOf(P, L) <= SumOf(A, L)
  BY <1>3, <1>7, SumMonotone
<1>11. SumOf(P, L) \in Nat /\ SumOf(O, L) \in Nat /\ SumOf(A, L) \in Nat
  BY <1>3, <1>7, SumType
<1>12. RecipientClaimable(b) = SatSub(SumOf(V, L), Earlier(SumOf(P, L), SumOf(A, L)))
  BY <1>1, <1>3, <1>8 DEF RecipientClaimable
<1> QED BY <1>1, <1>8, <1>9, <1>10, <1>11, <1>12 DEF SatSub, Earlier

(* Splitting the running sum over the leaves in their order gives to each  *)
(* what was paid for it, when they were paid in that order.                *)
LEMMA SplitInOrder ==
    ASSUME TotalsInv, Live, ~rotated, disturbed = {}, Orderly(tree.root), ~IsSingleLeaf,
           NEW leaf \in tree.root, InOrder(leaf),
           ~(\E l \in LeavesOf(leaf.beneficiary) : ReleasedEarly(l))
    PROVE  LeafClaimed(leaf) = paid[EntitlementOf(leaf)]
<1>1. PICK b : b = leaf.beneficiary
  OBVIOUS
<1>2. PICK L : L = LeavesOf(b)
  OBVIOUS
<1>3. PICK P : P = [l \in L |-> paid[EntitlementOf(l)]]
  OBVIOUS
<1>4. PICK before : before = {l \in L : l.leaf_index < leaf.leaf_index}
  OBVIOUS
<1>5. PICK after : after = {l \in L : l.leaf_index > leaf.leaf_index}
  OBVIOUS
<1>6. leaf \in L /\ b \in Beneficiaries
  <2>1. leaf \in Leaves
    BY DEF TotalsInv, LedgerInv, IInv, TypeOK, Live, TreeType
  <2> QED BY <1>1, <1>2, <2>1, LeafFacts DEF LeavesOf
<1>7. /\ IsFiniteSet(L) /\ MyRecord(b).claimed = SumOf(P, L)
      /\ \A l \in L :
           /\ l \in tree.root /\ l.amount \in Nat /\ l.leaf_index \in Int
           /\ P[l] = paid[EntitlementOf(l)] /\ P[l] \in Nat /\ P[l] <= l.amount
  <2>1. /\ IsFiniteSet(L) /\ MyRecord(b).claimed = SumOf(P, L)
        /\ \A l \in L :
             /\ l \in tree.root /\ l.amount \in Nat /\ l.leaf_index \in Int
             /\ P[l] = paid[EntitlementOf(l)] /\ P[l] \in Nat
             /\ VestedShown(l) \in Nat /\ VestedShown(l) <= l.amount
             /\ P[l] <= VestedShown(l)
    BY <1>1, <1>2, <1>3, <1>6, PanelFacts
  <2>2. \A l \in L : P[l] <= l.amount
    BY <2>1
  <2> QED BY <2>1, <2>2
<1>8. PICK A : A = [l \in before |-> l.amount]
  OBVIOUS
<1>9. L = before \cup ({leaf} \cup after)
  <2>1. ASSUME NEW l \in L, l \notin before, l \notin after PROVE l = leaf
    <3>1. l.leaf_index = leaf.leaf_index
      BY <1>4, <1>5, <1>6, <1>7, <2>1
    <3> QED BY <1>6, <1>7, <2>1, <3>1 DEF Orderly
  <2> QED BY <1>4, <1>5, <1>6, <2>1
<1>10. /\ before \cap ({leaf} \cup after) = {} /\ {leaf} \cap after = {}
       /\ before \in SUBSET L /\ after \in SUBSET L
  BY <1>4, <1>5, <1>6, <1>7
<1>11. /\ IsFiniteSet(before) /\ IsFiniteSet(after)
       /\ IsFiniteSet({leaf}) /\ IsFiniteSet({leaf} \cup after)
  BY <1>7, <1>9, <1>10, FS_Subset, FS_Singleton
<1>12. SumOf(P, L) = SumOf(P, before) + (P[leaf] + SumOf(P, after))
  <2>1. SumOf(P, L) = SumOf(P, before) + SumOf(P, {leaf} \cup after)
    <3>1. SumOf(P, before \cup ({leaf} \cup after))
            = SumOf(P, before) + SumOf(P, {leaf} \cup after)
      BY <1>6, <1>7, <1>10, <1>11, SumSplit
    <3> QED BY <1>9, <3>1
  <2>2. SumOf(P, {leaf} \cup after) = SumOf(P, {leaf}) + SumOf(P, after)
    BY <1>6, <1>7, <1>10, <1>11, SumSplit
  <2>3. SumOf(P, {leaf}) = P[leaf]
    BY <1>6, <1>7, <1>11, SumSingle
  <2> QED BY <2>1, <2>2, <2>3
<1>13. Total(before) = SumOf(A, before)
  BY <1>7, <1>8, <1>10, <1>11, AmountsAdded
<1>14. \A l \in before : P[l] \in Nat /\ A[l] \in Nat /\ P[l] <= A[l]
  BY <1>7, <1>8, <1>10
<1>15. SumOf(P, before) <= SumOf(A, before)
  BY <1>11, <1>14, SumMonotone
<1>16. /\ SumOf(P, before) \in Nat /\ SumOf(A, before) \in Nat /\ SumOf(P, after) \in Nat
       /\ P[leaf] \in Nat /\ leaf.amount \in Nat /\ P[leaf] <= leaf.amount
  <2>1. SumOf(P, before) \in Nat /\ SumOf(A, before) \in Nat
    BY <1>11, <1>14, SumType
  <2>2. SumOf(P, after) \in Nat
    BY <1>7, <1>10, <1>11, SumType
  <2> QED BY <1>6, <1>7, <2>1, <2>2
<1>17. LeafClaimed(leaf) = Earlier(leaf.amount, SatSub(SumOf(P, L), SumOf(A, before)))
  BY <1>1, <1>2, <1>4, <1>7, <1>13 DEF LeafClaimed
<1>18. \A l, m \in L : l.leaf_index < m.leaf_index /\ P[m] > 0 => P[l] = l.amount
  BY <1>1, <1>2, <1>7 DEF InOrder
<1>19. CASE P[leaf] > 0 \/ \E m \in after : P[m] > 0
  <2>1. ASSUME NEW l \in before PROVE P[l] = A[l]
    <3>1. l \in L /\ l.leaf_index < leaf.leaf_index /\ A[l] = l.amount
      BY <1>4, <1>8, <2>1
    <3>2. PICK m \in L : P[m] > 0 /\ l.leaf_index < m.leaf_index
      <4>1. CASE P[leaf] > 0
        BY <1>6, <3>1, <4>1
      <4>2. CASE \E m \in after : P[m] > 0
        BY <1>5, <1>6, <1>7, <3>1, <4>2
      <4> QED BY <1>19, <4>1, <4>2
    <3> QED BY <1>18, <3>1, <3>2
  <2>2. SumOf(P, before) = SumOf(A, before)
    BY <2>1, SumSame
  <2>3. CASE \E m \in after : P[m] > 0
    <3>1. P[leaf] = leaf.amount
      BY <1>5, <1>6, <1>18, <2>3
    <3> QED BY <1>3, <1>6, <1>12, <1>16, <1>17, <2>2, <3>1 DEF Earlier, SatSub
  <2>4. CASE ~(\E m \in after : P[m] > 0)
    <3>1. \A m \in after : P[m] = 0
      BY <1>7, <1>10, <2>4
    <3>2. SumOf(P, after) = 0
      BY <3>1, SumZero
    <3> QED BY <1>3, <1>6, <1>12, <1>16, <1>17, <2>2, <3>2 DEF Earlier, SatSub
  <2> QED BY <2>3, <2>4
<1>20. CASE ~(P[leaf] > 0 \/ \E m \in after : P[m] > 0)
  <2>1. P[leaf] = 0 /\ \A m \in after : P[m] = 0
    BY <1>6, <1>7, <1>10, <1>20
  <2>2. SumOf(P, after) = 0
    BY <2>1, SumZero
  <2> QED BY <1>3, <1>6, <1>12, <1>15, <1>16, <1>17, <2>1, <2>2 DEF Earlier, SatSub
<1> QED BY <1>19, <1>20

(* What the claim panel shows is what the program would pay (FiguresAgree  *)
(* of OffersMatchProgram), of any number of leaves: the page has only the  *)
(* running sum of the wallet's record, and neither taking it off the sum   *)
(* of everything that has vested, in whichever order the leaves were paid, *)
(* nor splitting it over the leaves, when they were paid in their order,   *)
(* loses or invents an amount.  On a stream total_claimed does as well,    *)
(* with times of whole minutes; with others the figure is never too low,   *)
(* and too high by no more than what vests before a minute has passed.     *)
THEOREM FiguresAlwaysAgree ==
    Spec => [](Live /\ ~rotated /\ disturbed = {} /\ Orderly(tree.root) => FiguresAgree)
<1>1. ASSUME TotalsInv, WholeMilestones, Live, ~rotated, disturbed = {}, Orderly(tree.root)
      PROVE  FiguresAgree
  <2> SUFFICES ASSUME NEW leaf \in tree.root,
                      ~(\E l \in LeavesOf(leaf.beneficiary) : ReleasedEarly(l))
               PROVE  /\ ~IsSingleLeaf =>
                           RecipientClaimable(leaf.beneficiary) =
                             MapThenSumSet(Outstanding, LeavesOf(leaf.beneficiary))
                      /\ IsStreamLeaf(leaf) =>
                           /\ StreamClaimable(leaf) \in Outstanding(leaf) .. OutstandingSoon(leaf)
                           /\ ToTheSecond(leaf) => StreamClaimable(leaf) = Outstanding(leaf)
                      /\ ~IsSingleLeaf /\ InOrder(leaf) => LeafClaimable(leaf) = Outstanding(leaf)
    BY DEF FiguresAgree
  <2> DEFINE b == leaf.beneficiary
             p == paid[EntitlementOf(leaf)]
  <2>1. leaf \in Leaves /\ b \in Beneficiaries /\ leaf \in LeavesOf(b)
    <3>1. leaf \in Leaves
      BY <1>1 DEF TotalsInv, LedgerInv, IInv, TypeOK, Live, TreeType
    <3> QED BY <3>1, LeafFacts DEF LeavesOf
  <2>2. PICK P : P = [l \in LeavesOf(b) |-> paid[EntitlementOf(l)]]
    OBVIOUS
  <2>3. ASSUME ~IsSingleLeaf
        PROVE  /\ p \in Nat /\ VestedShown(leaf) \in Nat /\ p <= VestedShown(leaf)
               /\ VestedShown(leaf) = Due(leaf)
               /\ Outstanding(leaf) = VestedShown(leaf) - p
    BY <1>1, <2>1, <2>2, <2>3, PanelFacts
  <2>4. ASSUME ~IsSingleLeaf
        PROVE  RecipientClaimable(b) = MapThenSumSet(Outstanding, LeavesOf(b))
    BY <1>1, <2>1, <2>4, CampaignFigure
  <2>5. ASSUME IsStreamLeaf(leaf)
        PROVE  /\ StreamClaimable(leaf) \in Outstanding(leaf) .. OutstandingSoon(leaf)
               /\ ToTheSecond(leaf) => StreamClaimable(leaf) = Outstanding(leaf)
    <3>1. tree.total_claimed = p /\ p \in Nat
      BY <1>1, <2>1, <2>5, SoleTotal DEF IsStreamLeaf
    <3>2. TotalClaimed(b) = tree.total_claimed
      BY <1>1, TotalSeen
    <3>3. StreamClaimable(leaf) = SatSub(VestedShown(leaf), p)
      BY <3>1, <3>2 DEF StreamClaimable
    <3>4. TypeOK /\ WellFormed(leaf) /\ ~ReleasedEarly(leaf)
      BY <1>1, <2>1 DEF Orderly, TotalsInv, LedgerInv, IInv
    <3> QED BY <1>1, <2>1, <3>1, <3>3, <3>4, ShownIsLeft
  <2>6. ASSUME ~IsSingleLeaf, InOrder(leaf) PROVE LeafClaimable(leaf) = Outstanding(leaf)
    <3>1. CASE leaf.release_type = Milestone
      <4>1. leaf.milestone_idx \in MyRecord(b).bitmap <=> p > 0
        <5>1. RecordsMatchPayments /\ Undisturbed(leaf)
          BY <1>1 DEF TotalsInv, LedgerInv, Undisturbed
        <5> QED BY <2>1, <2>3, <2>6, <3>1, <5>1 DEF MyRecord, RecordsMatchPayments
      <4>2. p \in {0, leaf.amount}
        BY <1>1, <3>1 DEF WholeMilestones, Orderly, Undisturbed
      <4>3. VestedShown(leaf) <= leaf.amount /\ leaf.amount \in Nat
        BY <1>1, <2>1, <2>2, <2>6, PanelFacts
      <4>4. p > 0 => Outstanding(leaf) = 0
        BY <2>3, <2>6, <4>2, <4>3
      <4> QED BY <2>3, <2>6, <3>1, <4>1, <4>4 DEF LeafClaimable
    <3>2. CASE leaf.release_type # Milestone
      <4>1. LeafClaimed(leaf) = p
        BY <1>1, <2>6, SplitInOrder
      <4> QED BY <2>3, <2>6, <3>2, <4>1 DEF LeafClaimable, SatSub
    <3> QED BY <3>1, <3>2
  <2> QED BY <2>4, <2>5, <2>6
<1>2. TotalsInv /\ WholeMilestones =>
        (Live /\ ~rotated /\ disturbed = {} /\ Orderly(tree.root) => FiguresAgree)
  BY <1>1
<1> QED BY <1>2, TotalsInvariant, WholeInvariant, PTL
=============================================================================
