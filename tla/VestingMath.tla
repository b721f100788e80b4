---------------------------- MODULE VestingMath ----------------------------
(***************************************************************************)
(* The pure arithmetic of the vesting program: how much of a leaf has      *)
(* vested at a time (math/schedule.rs), the time at which a cancelled      *)
(* campaign is frozen, and the longest Merkle proof a claim may carry      *)
(* (math/merkle.rs).  Amounts are u64 and times i64 in the code; the one   *)
(* product is taken in u128, so Integers lose nothing.                     *)
(***************************************************************************)
EXTENDS Integers

CONSTANT None           \* Rust's Option::None

(* release_type *)
Cliff     == 0
Linear    == 1
Milestone == 2

(* u64::saturating_sub *)
SatSub(a, b) == IF a > b THEN a - b ELSE 0

Earlier(a, b) == IF a < b THEN a ELSE b

(***************************************************************************)
(* vested: all at the cliff, or linearly from the cliff to the end with    *)
(* the quotient rounded down.  The milestone arm is time-based too; the    *)
(* instructions gate it by the release flag instead of using it.           *)
(***************************************************************************)
LinearShare(leaf, now) ==
    (leaf.amount * (now - leaf.cliff_time)) \div (leaf.end_time - leaf.cliff_time)

Vested(leaf, now) ==
    IF leaf.release_type = Linear
    THEN IF now >= leaf.end_time THEN leaf.amount
         ELSE IF now <= leaf.cliff_time THEN 0
         ELSE LinearShare(leaf, now)
    ELSE IF leaf.release_type \in {Cliff, Milestone} /\ now >= leaf.cliff_time
         THEN leaf.amount
         ELSE 0

(* effective_now: time stops at the cancellation. *)
EffectiveNow(cancelled_at, now) ==
    IF cancelled_at = None THEN now ELSE Earlier(now, cancelled_at)

(* The schedule order and the release types the handlers accept. *)
WellFormed(leaf) ==
    /\ leaf.start_time <= leaf.cliff_time
    /\ leaf.cliff_time <= leaf.end_time
    /\ leaf.release_type \in {Cliff, Linear, Milestone}

(* get_vested_amount, the read-only query: a released milestone is vested  *)
(* in full whatever the time.                                              *)
GetVestedAmount(leaf, cancelled_at, now, flags) ==
    IF leaf.release_type = Milestone
    THEN IF leaf.milestone_idx \in flags THEN leaf.amount ELSE 0
    ELSE Vested(leaf, EffectiveNow(cancelled_at, now))

(* index >>= 1, so many times over. *)
Shifted(index, times) ==
    LET idx[k \in 0 .. times] == IF k = 0 THEN index ELSE idx[k - 1] \div 2
    IN  idx[times]

(* The bits of n - 1, which is the depth of a tree of n leaves.  The cap   *)
(* of MAX_MERKLE_PROOF_LEN = 32 follows from leaf_count being a u32.       *)
MaxProofLen(n) ==
    IF n <= 1 THEN 0
    ELSE CHOOSE d \in 0 .. n : /\ Shifted(n - 1, d) = 0
                               /\ \A e \in 0 .. (d - 1) : Shifted(n - 1, e) # 0
=============================================================================
