------------------------------ MODULE Campaign ------------------------------
(***************************************************************************)
(* One campaign of the vesting program: its VestingTree account, the       *)
(* vault that holds its tokens, the ClaimRecord of every beneficiary and   *)
(* the clock sysvar.  Every action is one instruction of the program, in   *)
(* one transaction: Solana runs it alone on the accounts it writes and     *)
(* undoes all of it on an error, so the steps that interleave are whole    *)
(* handlers.                                                               *)
(*                                                                         *)
(* A Merkle root is the set of leaves for which a proof verifies under it  *)
(* (the hash is taken to be collision free); the zero root is the empty    *)
(* set.  A signer is a parameter of the action.                            *)
(***************************************************************************)
EXTENDS VestingMath, FiniteSets

CONSTANTS
    Keys,           \* public keys that sign
    Creator,        \* the key the campaign address is derived from
    Leaves,         \* every leaf some root commits to
    CampaignArgs,   \* arguments create_campaign(_native) is called with
    StreamArgs,     \* arguments create_stream(_native) is called with
    RootArgs,       \* arguments update_root is called with
    FundAmounts,    \* amounts fund_campaign(_native) is called with
    GracePeriod,    \* GRACE_PERIOD_SECS
    PerLeafCap,     \* PER_LEAF_CAP
    Rent,           \* rent-exempt minimum of the VestingTree account
    U64Max,         \* u64::MAX
    MaxTime,        \* bound: the clock stops here
    MaxCreations,   \* bound: how often the address is initialised
    NoTree,         \* no account at the campaign address
    NoRecord        \* no account at a claim-record address

Beneficiaries == {leaf.beneficiary : leaf \in Leaves}
Indices       == {leaf.leaf_index : leaf \in Leaves}
MilestoneIdx  == {leaf.milestone_idx : leaf \in Leaves}
U64           == 0 .. U64Max

LeafType == [leaf_index : Nat, beneficiary : Keys, amount : U64,
             release_type : Nat, start_time : Int, cliff_time : Int,
             end_time : Int, milestone_idx : Nat]

(* struct VestingTree: native stands for mint = NATIVE_SOL_MINT, released  *)
(* for milestone_released_flags.                                           *)
TreeType ==
    [native : BOOLEAN, root : SUBSET Leaves, leaf_count : Nat,
     total_supply : U64, total_claimed : U64, cancellable : BOOLEAN,
     cancel_authority : Keys \cup {None}, cancelled_at : Nat \cup {None},
     paused : BOOLEAN, pause_authority : Keys \cup {None},
     released : SUBSET MilestoneIdx, min_cliff_time : Int,
     instant_refunded : BOOLEAN]

(* struct ClaimRecord: ledger stands for the arrays leaf_claimed_idx and   *)
(* leaf_claimed_amt, None for an index no slot holds.                      *)
RecordType ==
    [claimed_amount : U64, total_entitled : U64,
     milestone_bitmap : SUBSET MilestoneIdx, version : {0, 1},
     ledger : [Indices -> Nat \cup {None}]]

ASSUME BoundsAssumption ==
    /\ GracePeriod \in Nat /\ PerLeafCap \in Nat /\ Rent \in Nat
    /\ U64Max \in Nat /\ MaxTime \in Nat /\ MaxCreations \in Nat
    /\ FundAmounts \subseteq U64

ASSUME LeavesAssumption == Leaves \subseteq LeafType /\ IsFiniteSet(Leaves)

ASSUME ArgsAssumption ==
    /\ Creator \in Keys
    /\ CampaignArgs \subseteq
         [native : BOOLEAN, root : SUBSET Leaves, leaf_count : Nat,
          total_supply : U64, min_cliff_time : Int, cancellable : BOOLEAN,
          cancel_authority : Keys \cup {None}, pause_authority : Keys \cup {None}]
    /\ StreamArgs \subseteq
         [native : BOOLEAN, leaf : {l \in Leaves : l.leaf_index = 0},
          cancellable : BOOLEAN, cancel_authority : Keys \cup {None},
          pause_authority : Keys \cup {None}]
    /\ RootArgs \subseteq
         [root : SUBSET Leaves, leaf_count : Nat, min_cliff_time : Int]

(* Absence is no value. *)
ASSUME AbsenceAssumption ==
    /\ None \notin Int \cup Keys
    /\ NoTree \notin TreeType /\ NoRecord \notin RecordType

VARIABLES
    now,        \* Clock::unix_timestamp
    tree,       \* the VestingTree account, or NoTree
    vault,      \* tokens in the vault token account (SPL campaigns)
    lamports,   \* lamports of the VestingTree account, its rent included
    record      \* beneficiary -> ClaimRecord account, or NoRecord

(* What the chain's history tells and no account stores. *)
VARIABLES
    creations,  \* times the address was initialised
    paid,       \* entitlement -> paid out against it since the creation
    deposited,  \* moved in by the creator, rent included
    paidOut,    \* moved out to beneficiaries
    returned,   \* moved out to the creator
    archived,   \* claimed_amount of the records closed since
    disturbed,  \* beneficiaries whose record was closed, or outlived a tree
    rotated     \* update_root has run

accounts == <<tree, vault, lamports, record>>
history  == <<creations, paid, deposited, paidOut, returned, archived,
              disturbed, rotated>>
vars     == <<now, accounts, history>>
-----------------------------------------------------------------------------
(* The entitlement a leaf stands for: what the record remembers payments   *)
(* by.  Milestone leaves are remembered by milestone index, the others by  *)
(* leaf index.                                                             *)
EntitlementOf(leaf) ==
    IF leaf.release_type = Milestone
    THEN <<leaf.beneficiary, "milestone", leaf.milestone_idx>>
    ELSE <<leaf.beneficiary, "ledger", leaf.leaf_index>>

Entitlements == {EntitlementOf(leaf) : leaf \in Leaves}

(* ------------------------- ClaimRecord ------------------------- *)
EmptyLedger == [i \in Indices |-> None]

FreshRecord(entitled) ==
    [claimed_amount |-> 0, total_entitled |-> entitled, milestone_bitmap |-> {},
     version |-> 1, ledger |-> EmptyLedger]

SlotsUsed(cr) == {i \in Indices : cr.ledger[i] # None}

LeafPriorClaimed(cr, i) == IF cr.ledger[i] = None THEN 0 ELSE cr.ledger[i]

LeafAlreadyCounted(cr, leaf) ==
    IF leaf.release_type = Milestone
    THEN leaf.milestone_idx \in cr.milestone_bitmap
    ELSE cr.ledger[leaf.leaf_index] # None

(* record_leaf_claim and its PerLeafCapExceeded. *)
HasSlotFor(cr, leaf) ==
    \/ leaf.release_type = Milestone
    \/ cr.ledger[leaf.leaf_index] # None
    \/ Cardinality(SlotsUsed(cr)) < PerLeafCap

(* Mutants: the milestone left out of the running sum, the ledger          *)
(* overwritten instead of added to, and the ledger forgotten.              *)
CreditMilestoneUncounted(cr, leaf, amount) ==
    IF leaf.release_type = Milestone
    THEN [cr EXCEPT !.milestone_bitmap = @ \cup {leaf.milestone_idx}]
    ELSE [cr EXCEPT !.ledger[leaf.leaf_index] =
                      LeafPriorClaimed(cr, leaf.leaf_index) + amount,
                    !.claimed_amount = @ + amount]

CreditOverwrites(cr, leaf, amount) ==
    IF leaf.release_type = Milestone
    THEN [cr EXCEPT !.milestone_bitmap = @ \cup {leaf.milestone_idx},
                    !.claimed_amount = @ + amount]
    ELSE [cr EXCEPT !.ledger[leaf.leaf_index] = amount,
                    !.claimed_amount = @ + amount]

CreditSumOnly(cr, leaf, amount) ==
    [cr EXCEPT !.milestone_bitmap = IF leaf.release_type = Milestone
                                    THEN @ \cup {leaf.milestone_idx} ELSE @,
               !.claimed_amount = @ + amount]

(* The record after amount was credited to leaf: the bitmap or the ledger, *)
(* and the running sum.                                                    *)
Credit(cr, leaf, amount) ==
    [cr EXCEPT
       !.milestone_bitmap = IF leaf.release_type = Milestone
                            THEN @ \cup {leaf.milestone_idx} ELSE @,
       !.ledger = IF leaf.release_type = Milestone THEN @
                  ELSE [@ EXCEPT ![leaf.leaf_index] =
                          LeafPriorClaimed(cr, leaf.leaf_index) + amount],
       !.claimed_amount = @ + amount]

(* Mutant: the migration attributes nothing. *)
LoadForClaimUnattributed(leaf) ==
    LET cr == record[leaf.beneficiary] IN
    IF cr = NoRecord THEN FreshRecord(0)
    ELSE IF cr.version = 0
    THEN [cr EXCEPT !.version = 1, !.ledger = EmptyLedger]
    ELSE cr

(* claim: first touch, or the lazy migration of a version 0 record, which  *)
(* attributes what was claimed before to the leaf being claimed.           *)
LoadForClaim(leaf) ==
    LET cr == record[leaf.beneficiary] IN
    IF cr = NoRecord THEN FreshRecord(0)
    ELSE IF cr.version = 0
    THEN [cr EXCEPT !.version = 1,
                    !.ledger = IF leaf.release_type # Milestone /\ cr.claimed_amount > 0
                               THEN [EmptyLedger EXCEPT ![leaf.leaf_index] = cr.claimed_amount]
                               ELSE EmptyLedger]
    ELSE cr

(* withdraw and cancel_stream: entitled at once, migrated to an empty      *)
(* ledger.                                                                 *)
LoadForStream(leaf) ==
    LET cr == record[leaf.beneficiary] IN
    IF cr = NoRecord THEN FreshRecord(leaf.amount)
    ELSE IF cr.version = 0
    THEN [cr EXCEPT !.version = 1, !.ledger = EmptyLedger]
    ELSE cr
-----------------------------------------------------------------------------
(* -------------------------- the vault -------------------------- *)
(* What the handlers take for the vault balance. *)
Balance == IF tree.native THEN SatSub(lamports, Rent) ELSE vault

(* Mutant: total_claimed is not written back. *)
NotBooked(amount) == tree

(* The tree once amount is added to total_claimed. *)
Booked(amount) == [tree EXCEPT !.total_claimed = @ + amount]

(* The payment that reaches total_supply empties a native tree, rent       *)
(* included, and the runtime deletes the account.                          *)
PayLamports(t, amount) ==
    IF t.total_claimed = t.total_supply
    THEN /\ lamports' = 0
         /\ paidOut' = paidOut + lamports
         /\ tree' = NoTree
         /\ UNCHANGED vault
    ELSE /\ SatSub(lamports, amount) >= Rent
         /\ lamports' = lamports - amount
         /\ paidOut' = paidOut + amount
         /\ tree' = t
         /\ UNCHANGED vault

PayTokens(t, amount) ==
    /\ vault' = vault - amount
    /\ paidOut' = paidOut + amount
    /\ tree' = t
    /\ UNCHANGED lamports

(* Move amount to the beneficiary of a claim or withdrawal that leaves the *)
(* tree as t.                                                              *)
PayBeneficiary(t, amount) ==
    IF t.native THEN PayLamports(t, amount) ELSE PayTokens(t, amount)

(* ------------------------- guards ------------------------- *)
Live       == tree # NoTree
Cancelled  == tree.cancelled_at # None
FullyPaid  == tree.total_claimed >= tree.total_supply
Effective  == EffectiveNow(tree.cancelled_at, now)

(* Mutant: no grace. *)
NoGrace    == Cancelled
GraceOver  == Cancelled /\ now >= tree.cancelled_at + GracePeriod

(* Mutant: the pause is not looked at. *)
NotRefunded == ~tree.instant_refunded
NotBlocked == ~tree.instant_refunded /\ (~tree.paused \/ Cancelled)

(* A proof of leaf verifies, and is no longer than leaf_count allows. *)
ProofAccepted(leaf) ==
    /\ leaf \in tree.root
    /\ MaxProofLen(Cardinality(tree.root)) <= MaxProofLen(tree.leaf_count)

(* The stream handlers rebuild the leaf from total_supply and index 0 and  *)
(* compare its hash with the root.                                         *)
IsStreamLeaf(leaf) ==
    /\ tree.leaf_count = 1
    /\ leaf.leaf_index = 0
    /\ leaf.amount = tree.total_supply
    /\ tree.root = {leaf}

MilestoneUnclaimed(cr, leaf) ==
    leaf.release_type = Milestone => leaf.milestone_idx \notin cr.milestone_bitmap

(* Mutant: only the first leaf of a record counts. *)
CountFirstLeaf(cr, leaf) ==
    IF cr.total_entitled > 0 THEN cr ELSE [cr EXCEPT !.total_entitled = leaf.amount]

(* total_entitled grows when a leaf is touched for the first time. *)
CountLeaf(cr, leaf) ==
    IF LeafAlreadyCounted(cr, leaf) THEN cr
    ELSE [cr EXCEPT !.total_entitled = @ + leaf.amount]
-----------------------------------------------------------------------------
Init ==
    /\ now = 0
    /\ tree = NoTree
    /\ vault = 0
    /\ lamports = 0
    /\ record = [b \in Beneficiaries |-> NoRecord]
    /\ creations = 0
    /\ paid = [e \in Entitlements |-> 0]
    /\ deposited = 0
    /\ paidOut = 0
    /\ returned = 0
    /\ archived = 0
    /\ disturbed = {}
    /\ rotated = FALSE

(* The clock sysvar moves on its own. *)
Tick ==
    /\ now < MaxTime
    /\ now' = now + 1
    /\ UNCHANGED <<accounts, history>>

(* The account is initialised with t and holds amount.  The address is     *)
(* derived from the mint, so one that was freed is native again.  Claim    *)
(* records are accounts of their own: those of an earlier tree stay.       *)
Open(t, amount) ==
    /\ tree = NoTree
    /\ creations < MaxCreations
    /\ creations > 0 => t.native
    /\ t.cancellable => t.cancel_authority # None
    /\ tree' = t
    /\ vault' = IF t.native THEN 0 ELSE amount
    /\ lamports' = Rent + (IF t.native THEN amount ELSE 0)
    /\ creations' = creations + 1
    /\ paid' = [e \in Entitlements |-> 0]
    /\ deposited' = Rent + amount
    /\ paidOut' = 0
    /\ returned' = 0
    /\ archived' = 0
    /\ disturbed' = disturbed \cup {b \in Beneficiaries : record[b] # NoRecord}
    /\ rotated' = FALSE
    /\ UNCHANGED <<now, record>>

CreateCampaign(args) ==
    /\ args.root # {}
    /\ args.leaf_count > 0
    /\ args.total_supply > 0
    /\ args.min_cliff_time # 0
    /\ Open([native |-> args.native, root |-> args.root,
             leaf_count |-> args.leaf_count, total_supply |-> args.total_supply,
             total_claimed |-> 0, cancellable |-> args.cancellable,
             cancel_authority |-> args.cancel_authority, cancelled_at |-> None,
             paused |-> FALSE, pause_authority |-> args.pause_authority,
             released |-> {}, min_cliff_time |-> args.min_cliff_time,
             instant_refunded |-> FALSE], 0)

(* A stream is a campaign of one leaf, whose hash is the root. *)
StreamTree(args) ==
    [native |-> args.native, root |-> {args.leaf}, leaf_count |-> 1,
     total_supply |-> args.leaf.amount, total_claimed |-> 0,
     cancellable |-> args.cancellable, cancel_authority |-> args.cancel_authority,
     cancelled_at |-> None, paused |-> FALSE, pause_authority |-> args.pause_authority,
     released |-> {}, min_cliff_time |-> 0, instant_refunded |-> FALSE]

CreateStream(args) ==
    /\ args.leaf.amount > 0
    /\ WellFormed(args.leaf)
    /\ Open(StreamTree(args), args.leaf.amount)

(* An address whose stream, one of streams, an earlier release of the      *)
(* program created and paid from: its ClaimRecord has the version 0        *)
(* layout, with the running sum and no per-leaf ledger, and, when that     *)
(* release made it in withdraw, perhaps no total_entitled.  A native       *)
(* stream that was paid in full is gone.                                   *)
LegacyInit(streams) ==
    \E args \in streams, at \in 0 .. MaxTime :
    LET leaf    == args.leaf
        claimed == Vested(leaf, at)
        held    == leaf.amount - claimed
    IN
    /\ leaf.release_type # Milestone
    /\ WellFormed(leaf)
    /\ args.cancellable => args.cancel_authority # None
    /\ claimed > 0
    /\ args.native => held > 0
    /\ now = at
    /\ tree = [StreamTree(args) EXCEPT !.total_claimed = claimed]
    /\ vault = IF args.native THEN 0 ELSE held
    /\ lamports = Rent + (IF args.native THEN held ELSE 0)
    /\ \E entitled \in {0, leaf.amount} :
         record = [b \in Beneficiaries |->
                     IF b = leaf.beneficiary
                     THEN [FreshRecord(entitled) EXCEPT !.claimed_amount = claimed,
                                                        !.version = 0]
                     ELSE NoRecord]
    /\ creations = 1 /\ MaxCreations > 0
    /\ paid = [e \in Entitlements |-> IF e = EntitlementOf(leaf) THEN claimed ELSE 0]
    /\ deposited = Rent + leaf.amount
    /\ paidOut = claimed
    /\ returned = 0
    /\ archived = 0
    /\ disturbed = {}
    /\ rotated = FALSE

FundCampaign(amount) ==
    /\ Live
    /\ ~tree.native
    /\ amount > 0
    /\ ~Cancelled
    /\ vault + amount <= tree.total_supply
    /\ vault' = vault + amount
    /\ deposited' = deposited + amount
    /\ UNCHANGED <<now, tree, lamports, record, creations, paid, paidOut,
                   returned, archived, disturbed, rotated>>

(* Nothing here asks whether the tree is native. *)
FundCampaignNative(amount) ==
    /\ Live
    /\ amount > 0
    /\ ~Cancelled
    /\ SatSub(lamports, Rent) + amount <= tree.total_supply
    /\ lamports' = lamports + amount
    /\ deposited' = deposited + amount
    /\ UNCHANGED <<now, tree, vault, record, creations, paid, paidOut,
                   returned, archived, disturbed, rotated>>

(* Mutants: no OverClaim, and an OverClaim one early. *)
PayableBeyondSupply(cr, leaf, amount) ==
    /\ amount > 0
    /\ Balance >= amount
    /\ HasSlotFor(cr, leaf)
    /\ cr.claimed_amount + amount <= U64Max

PayableBelowSupply(cr, leaf, amount) ==
    /\ amount > 0
    /\ Balance >= amount
    /\ tree.total_claimed + amount < tree.total_supply
    /\ HasSlotFor(cr, leaf)
    /\ cr.claimed_amount + amount <= U64Max

(* NothingToClaim, InsufficientVault, OverClaim, PerLeafCapExceeded and    *)
(* the overflow of claimed_amount.                                         *)
Payable(cr, leaf, amount) ==
    /\ amount > 0
    /\ Balance >= amount
    /\ tree.total_claimed + amount <= tree.total_supply
    /\ HasSlotFor(cr, leaf)
    /\ cr.claimed_amount + amount <= U64Max

(* What is left of the handlers of claim and withdraw once the payable     *)
(* amount of leaf and the record cr it is credited to are known.           *)
PayOut(cr, leaf, amount) ==
    /\ Payable(cr, leaf, amount)
    /\ record' = [record EXCEPT ![leaf.beneficiary] = Credit(cr, leaf, amount)]
    /\ paid' = [paid EXCEPT ![EntitlementOf(leaf)] = @ + amount]
    /\ PayBeneficiary(Booked(amount), amount)
    /\ UNCHANGED <<now, creations, deposited, returned, archived, disturbed, rotated>>

(* Mutants: the cancellation does not stop the clock, and what was claimed *)
(* before is not subtracted.                                               *)
ClaimableAtNow(cr, leaf) ==
    IF leaf.release_type = Milestone THEN leaf.amount
    ELSE SatSub(Vested(leaf, now), LeafPriorClaimed(cr, leaf.leaf_index))

ClaimableGross(cr, leaf) ==
    IF leaf.release_type = Milestone THEN leaf.amount ELSE Vested(leaf, Effective)

ClaimableByClaim(cr, leaf) ==
    IF leaf.release_type = Milestone THEN leaf.amount
    ELSE SatSub(Vested(leaf, Effective), LeafPriorClaimed(cr, leaf.leaf_index))

Claim(leaf) ==
    /\ Live
    /\ NotBlocked
    /\ WellFormed(leaf)
    /\ ProofAccepted(leaf)
    /\ LET loaded == LoadForClaim(leaf)
           cr     == CountLeaf(loaded, leaf)
       IN  /\ MilestoneUnclaimed(loaded, leaf)
           /\ cr.total_entitled <= U64Max
           /\ leaf.release_type = Milestone => leaf.milestone_idx \in tree.released
           /\ PayOut(cr, leaf, ClaimableByClaim(cr, leaf))

ClaimableByWithdraw(cr, leaf) ==
    IF leaf.release_type = Milestone THEN leaf.amount
    ELSE SatSub(Vested(leaf, Effective), cr.claimed_amount)

Withdraw(leaf) ==
    /\ Live
    /\ NotBlocked
    /\ IsStreamLeaf(leaf)
    /\ WellFormed(leaf)
    /\ LET cr == LoadForStream(leaf)
       IN  /\ MilestoneUnclaimed(cr, leaf)
           /\ leaf.release_type = Milestone => leaf.milestone_idx \in tree.released
           /\ PayOut(cr, leaf, ClaimableByWithdraw(cr, leaf))

(* Mutant: a cancelled campaign may be cancelled again. *)
MayCancelAgain(signer) ==
    /\ Live
    /\ tree.cancellable
    /\ tree.cancel_authority = signer

(* Common to cancel_campaign and update_root. *)
MayCancel(signer) ==
    /\ Live
    /\ tree.cancellable
    /\ ~Cancelled
    /\ tree.cancel_authority = signer

CancelCampaign(signer) ==
    /\ MayCancel(signer)
    /\ ~FullyPaid
    /\ tree' = [tree EXCEPT !.cancelled_at = now, !.paused = FALSE]
    /\ UNCHANGED <<now, vault, lamports, record, history>>

(* The beneficiary's part of a cancelled stream. *)
DueAtCancel(cr, leaf) ==
    IF leaf.release_type = Milestone
    THEN IF leaf.milestone_idx \in tree.released
         THEN SatSub(leaf.amount, cr.claimed_amount) ELSE 0
    ELSE SatSub(Vested(leaf, now), cr.claimed_amount)

(* A native tree is emptied, rent included, and its account deleted. *)
DrainTree(due) ==
    /\ tree' = NoTree
    /\ lamports' = 0
    /\ returned' = returned + (lamports - due)
    /\ UNCHANGED vault

DrainVault(due) ==
    /\ tree' = [Booked(due) EXCEPT !.cancelled_at = now, !.paused = FALSE]
    /\ vault' = 0
    /\ returned' = returned + (vault - due)
    /\ UNCHANGED lamports

(* Settle a stream in one step: the vested part to the beneficiary, the    *)
(* rest to the creator.                                                    *)
CancelStream(signer, leaf) ==
    /\ Live
    /\ signer = Creator
    /\ tree.cancellable
    /\ ~Cancelled
    /\ ~FullyPaid
    /\ IsStreamLeaf(leaf)
    /\ WellFormed(leaf)
    /\ LET cr  == LoadForStream(leaf)
           due == DueAtCancel(cr, leaf)
       IN  /\ MilestoneUnclaimed(cr, leaf)
           /\ Balance >= due
           /\ Balance > 0
           /\ due > 0 => /\ HasSlotFor(cr, leaf)
                         /\ cr.claimed_amount + due <= U64Max
                         /\ tree.total_claimed + due <= tree.total_supply
           /\ record' = [record EXCEPT ![leaf.beneficiary] =
                           IF due > 0 THEN Credit(cr, leaf, due) ELSE cr]
           /\ paid' = [paid EXCEPT ![EntitlementOf(leaf)] = @ + due]
           /\ paidOut' = paidOut + due
           /\ IF tree.native THEN DrainTree(due) ELSE DrainVault(due)
    /\ UNCHANGED <<now, creations, deposited, archived, disturbed, rotated>>

(* The root, its leaf count and the earliest cliff change; records, flags  *)
(* and total_claimed stay.                                                 *)
Rotated(args) ==
    [tree EXCEPT !.root = args.root, !.leaf_count = args.leaf_count,
                 !.min_cliff_time = args.min_cliff_time]

UpdateRoot(signer, args) ==
    /\ MayCancel(signer)
    /\ args.root # {}
    /\ args.leaf_count > 0
    /\ args.min_cliff_time # 0
    /\ args.root # tree.root
    /\ tree' = Rotated(args)
    /\ rotated' = TRUE
    /\ UNCHANGED <<now, vault, lamports, record, creations, paid, deposited,
                   paidOut, returned, archived, disturbed>>

MayPause(signer) ==
    /\ Live
    /\ tree.pause_authority # None
    /\ tree.pause_authority = signer
    /\ ~Cancelled
    /\ ~FullyPaid

PauseCampaign(signer) ==
    /\ MayPause(signer)
    /\ ~tree.paused
    /\ tree' = [tree EXCEPT !.paused = TRUE]
    /\ UNCHANGED <<now, vault, lamports, record, history>>

UnpauseCampaign(signer) ==
    /\ MayPause(signer)
    /\ tree.paused
    /\ tree' = [tree EXCEPT !.paused = FALSE]
    /\ UNCHANGED <<now, vault, lamports, record, history>>

SetMilestoneReleased(signer, idx) ==
    /\ Live
    /\ signer = Creator
    /\ ~tree.instant_refunded
    /\ idx \notin tree.released
    /\ tree' = [tree EXCEPT !.released = @ \cup {idx}]
    /\ UNCHANGED <<now, vault, lamports, record, history>>

(* Everything but the rent goes back to the creator. *)
ReturnBalance ==
    /\ Balance > 0
    /\ IF tree.native THEN lamports' = lamports - Balance /\ UNCHANGED vault
                      ELSE vault' = 0 /\ UNCHANGED lamports
    /\ returned' = returned + Balance

(* Mutant: refused once everything was paid, as cancel_campaign is. *)
WithdrawUnlessPaid(signer) ==
    /\ Live
    /\ signer = Creator
    /\ ~FullyPaid
    /\ GraceOver
    /\ ReturnBalance
    /\ UNCHANGED <<now, tree, record, creations, paid, deposited, paidOut,
                   archived, disturbed, rotated>>

WithdrawUnvested(signer) ==
    /\ Live
    /\ signer = Creator
    /\ GraceOver
    /\ ReturnBalance
    /\ UNCHANGED <<now, tree, record, creations, paid, deposited, paidOut,
                   archived, disturbed, rotated>>

(* Mutant: the earliest cliff is not looked at. *)
NoMilestoneYet == tree.released = {}

NothingVestedYet == now < tree.min_cliff_time /\ tree.released = {}

InstantRefundCampaign(signer) ==
    /\ Live
    /\ signer = Creator
    /\ tree.cancellable
    /\ ~Cancelled
    /\ ~FullyPaid
    /\ tree.leaf_count > 1
    /\ NothingVestedYet
    /\ ReturnBalance
    /\ tree' = [tree EXCEPT !.cancelled_at = now, !.paused = FALSE,
                            !.instant_refunded = TRUE]
    /\ UNCHANGED <<now, record, creations, paid, deposited, paidOut, archived,
                   disturbed, rotated>>

Settled(cr) == cr.total_entitled > 0 /\ cr.claimed_amount >= cr.total_entitled

CloseClaimRecord(b) ==
    /\ Live
    /\ record[b] # NoRecord
    /\ Settled(record[b]) \/ GraceOver
    /\ record' = [record EXCEPT ![b] = NoRecord]
    /\ archived' = archived + record[b].claimed_amount
    /\ disturbed' = disturbed \cup {b}
    /\ UNCHANGED <<now, tree, vault, lamports, creations, paid, deposited,
                   paidOut, returned, rotated>>

Next ==
    \/ Tick
    \/ \E args \in CampaignArgs : CreateCampaign(args)
    \/ \E args \in StreamArgs : CreateStream(args)
    \/ \E amount \in FundAmounts : FundCampaign(amount)
    \/ \E amount \in FundAmounts : FundCampaignNative(amount)
    \/ \E leaf \in Leaves : Claim(leaf)
    \/ \E leaf \in Leaves : Withdraw(leaf)
    \/ \E signer \in Keys : CancelCampaign(signer)
    \/ \E signer \in Keys, leaf \in Leaves : CancelStream(signer, leaf)
    \/ \E signer \in Keys, args \in RootArgs : UpdateRoot(signer, args)
    \/ \E signer \in Keys : PauseCampaign(signer)
    \/ \E signer \in Keys : UnpauseCampaign(signer)
    \/ \E signer \in Keys, idx \in MilestoneIdx : SetMilestoneReleased(signer, idx)
    \/ \E signer \in Keys : WithdrawUnvested(signer)
    \/ \E signer \in Keys : InstantRefundCampaign(signer)
    \/ \E b \in Beneficiaries : CloseClaimRecord(b)

Spec == Init /\ [][Next]_vars
=============================================================================
