------------------------------- MODULE Escrow -------------------------------
(***************************************************************************)
(* What a campaign is to its parties once roots, leaves, records and       *)
(* authorities are forgotten: an account with a cap on what it may release *)
(* to the payees.  While it is open it takes deposits and releases; it is  *)
(* frozen at most once, and only then does the owner get money back:       *)
(* in the freezing step itself, or everything that is left once the grace  *)
(* period is over.  It ends by being emptied and forgotten.                *)
(***************************************************************************)
EXTENDS Integers

CONSTANTS
    Grace,      \* how long the payees have after a freeze
    Reserve,    \* what the account itself costs, returned when it is closed
    Never

VARIABLES
    now,
    phase,      \* "none", "open" or "frozen"
    cap,        \* what may be released in all
    held,       \* what the account holds
    released,   \* what the payees have received
    frozenAt,   \* when it was frozen, or Never
    owner       \* what went back to the owner since it was opened

vars == <<now, phase, cap, held, released, frozenAt, owner>>

Empty ==
    /\ phase = "none"
    /\ cap = 0
    /\ held = 0
    /\ released = 0
    /\ frozenAt = Never

Init == now \in Nat /\ Empty /\ owner = 0

Forget ==
    /\ phase' = "none"
    /\ cap' = 0
    /\ held' = 0
    /\ released' = 0
    /\ frozenAt' = Never

Wait ==
    /\ now' = now + 1
    /\ UNCHANGED <<phase, cap, held, released, frozenAt, owner>>

Open ==
    /\ phase = "none"
    /\ phase' = "open"
    /\ cap' \in Nat \ {0}
    /\ held' \in 0 .. cap'
    /\ released' = 0
    /\ frozenAt' = Never
    /\ owner' = 0
    /\ UNCHANGED now

Deposit ==
    /\ phase = "open"
    /\ held < held' /\ held' <= cap
    /\ UNCHANGED <<now, phase, cap, released, frozenAt, owner>>

(* What leaves the account reaches the payees, and no more than the cap. *)
Release ==
    /\ phase # "none"
    /\ released < released' /\ released' <= cap
    /\ 0 <= held' /\ held' + released' = held + released
    /\ UNCHANGED <<now, phase, cap, frozenAt, owner>>

Freeze ==
    /\ phase = "open"
    /\ phase' = "frozen"
    /\ frozenAt' = now
    /\ UNCHANGED <<now, cap, held, released, owner>>

(* Frozen and divided in one step: nothing stays behind. *)
Settle ==
    /\ phase = "open"
    /\ phase' = "frozen"
    /\ frozenAt' = now
    /\ 0 < held
    /\ released <= released' /\ released' <= cap
    /\ released' - released <= held
    /\ held' = 0
    /\ owner' = owner + held - (released' - released)
    /\ UNCHANGED <<now, cap>>

Reclaim ==
    /\ phase = "frozen"
    /\ now >= frozenAt + Grace
    /\ held > 0
    /\ held' = 0
    /\ owner' = owner + held
    /\ UNCHANGED <<now, phase, cap, released, frozenAt>>

(* The release that reaches the cap may close the account: whatever else   *)
(* it holds, its reserve included, goes to the payee too.                  *)
ReleaseAndClose ==
    /\ phase # "none"
    /\ released < cap /\ cap - released <= held
    /\ Forget
    /\ UNCHANGED <<now, owner>>

SettleAndClose ==
    /\ phase = "open"
    /\ 0 < held
    /\ \E due \in 0 .. held :
         /\ released + due <= cap
         /\ owner' = owner + held + Reserve - due
    /\ Forget
    /\ UNCHANGED now

Next == \/ Wait \/ Open \/ Deposit \/ Release \/ Freeze \/ Settle \/ Reclaim
        \/ ReleaseAndClose \/ SettleAndClose

Spec == Init /\ [][Next]_vars
=============================================================================
