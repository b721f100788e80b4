------------------------- MODULE CreationProperties -------------------------
(***************************************************************************)
(* What the creation pages promise to the creator: that a campaign on the  *)
(* chain is not forgotten, neither by the database nor by the list of      *)
(* unfunded campaigns, however its creation was interrupted.               *)
(***************************************************************************)
EXTENDS Creation

Steps == {"form", "creating", "posting", "created", "funding"}

(* The type invariant. *)
TypeOK ==
    /\ tree \in Queues /\ row \in Queues /\ toIndex \in Queues
    /\ vault \in [Addresses -> Nat] /\ paid \in [Addresses -> Nat]
    /\ toFund \in [Addresses -> Nat] /\ cancelled \subseteq Addresses
    /\ txs \in Seq([kind : {"create", "fund"}, a : Addresses, d : Drafts \cup {None},
                    amount : Nat, state : {"sent", "ok", "failed", "expired"}])
    /\ page \in [Tabs -> [step : Steps, a : Addresses \cup {None},
                          d : Drafts \cup {None}, tx : 0 .. Len(txs)]]
    /\ offered \in [Tabs -> [Addresses -> Nat]] /\ flush \in [Tabs -> Queues]
    /\ made \in [Addresses -> SUBSET Drafts] /\ gone \subseteq Addresses
    /\ dropped \subseteq Addresses \X {"index", "fund"}
    /\ masked \subseteq Addresses /\ refused \subseteq Addresses

At(a, steps) == \E t \in Tabs : page[t].a = a /\ page[t].step \in steps

(* The leaves the database serves proofs from are those of the tree at     *)
(* that address, although nothing compares the two: POST /api/campaigns    *)
(* does not ask the chain, and the first leaves posted stay.  Once a tree  *)
(* was deleted they may be an earlier tree's of that address; only a page  *)
(* that took a transaction that failed for one that succeeded can store    *)
(* leaves of which there never was a tree.                                 *)
RowMatchesTree ==
    \A a \in Addresses : row[a] # None /\ a \notin masked =>
        row[a] \in made[a] /\ (a \notin gone => row[a] = tree[a])

(* A campaign on the chain that is not in the database is queued, unless a *)
(* page is still at it, was left before it could queue it, or the user     *)
(* refused to sign.                                                        *)
NothingForgotten ==
    \A a \in Addresses :
        tree[a] # None /\ row[a] = None =>
            \/ toIndex[a] # None
            \/ At(a, {"creating", "posting"})
            \/ <<a, "index">> \in dropped
            \/ a \in refused

(* A campaign that was never funded is on the list of unfunded ones, but   *)
(* for a later tree at its address: the page that hears late that the      *)
(* earlier one was funded takes the entry away.                            *)
UnfundedIsListed ==
    \A a \in Addresses :
        tree[a] # None /\ vault[a] + paid[a] = 0 =>
            \/ toFund[a] = Supply[tree[a]]
            \/ At(a, {"creating"})
            \/ <<a, "fund">> \in dropped
            \/ a \in masked \/ a \in gone

(* A campaign on the list has no funds yet, so that "Resume funding" does  *)
(* not pay a second time: the program itself only compares the balance,    *)
(* which is nothing again when all was paid out.  The entry is late only   *)
(* while a page is funding, or after one was left before it heard of it,   *)
(* and may be an earlier tree's once that was deleted.                     *)
ListedIsUnfunded ==
    \A a \in Addresses :
        toFund[a] > 0 /\ tree[a] # None /\ vault[a] + paid[a] > 0 =>
            \/ At(a, {"creating", "funding"})
            \/ <<a, "fund">> \in dropped
            \/ a \in masked \/ a \in gone

(* A queued campaign is stored in the end, or the user refused to sign.    *)
QueueDrains ==
    \A a \in Addresses : toIndex[a] # None ~> row[a] # None \/ a \in refused
=============================================================================
