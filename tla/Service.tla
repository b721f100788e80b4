------------------------------ MODULE Service ------------------------------
(***************************************************************************)
(* Rotating the root of a campaign and serving its proofs.  The root is on *)
(* chain; the leaves and their proofs are in the database, one root        *)
(* version per rotation.  A rotation is a transaction and then a POST,     *)
(* both made by a page that may be closed, refused or disconnected between *)
(* them, and several pages may rotate at once.  Beneficiaries claim with   *)
(* the proofs their browsers have cached.                                  *)
(*                                                                         *)
(* Of the chain this keeps the root, whether the campaign was cancelled    *)
(* and who has claimed, which is all these pages and routes look at, and   *)
(* of what else a claim can be refused for: whether the campaign pays at   *)
(* all, and whether there is something to claim and enough to pay it with. *)
(* A beneficiary stands for a leaf: the leaves of one wallet are several.  *)
(***************************************************************************)
EXTENDS Integers

CONSTANTS
    Rotations,      \* visits of the allocation editor
    Beneficiaries,
    SameTab,        \* beneficiaries whose position is read in the editor's tab
    Roots,
    FirstRoot,      \* the root the campaign was created with
    Members,        \* root -> the beneficiaries among its leaves
    None

ASSUME ServiceAssumption ==
    /\ SameTab \subseteq Beneficiaries
    /\ FirstRoot \in Roots
    /\ Members \in [Roots -> SUBSET Beneficiaries]
    /\ None \notin Roots

VARIABLES
    root, cancelled, claimed,   \* the chain
    gate,           \* whether the campaign pays: paused, instantly refunded
    payable,        \* those of whose leaf more is released than claimed, and
                    \* covered by vault, supply and the lamports for the rent
    versions,       \* the root_versions of the campaign, each with its leaves
    visit,          \* rotation -> where its page is and what it told its user
    tx,             \* rotation -> its update_root transaction
    post,           \* rotation -> the server's work on its POST
    proof,          \* beneficiary -> the cached query, or None
    answer,         \* beneficiary -> the answer on its way, or None
    claim           \* beneficiary -> its claim transaction, or None

(* What happened: whether each rotation was sent after the one before had  *)
(* come to its end.                                                        *)
VARIABLE alone

chain == <<root, cancelled, claimed, gate, payable>>
pages == <<visit, tx, post>>
users == <<proof, answer, claim>>
vars  == <<chain, versions, pages, users, alone>>

Visit == [step : {"away", "editing", "recheck", "wallet", "confirm", "authorize",
                  "post", "over"},
          root : Roots \cup {None},
          told : {"nothing", "updated", "warned", "failed"}]

(* root: None for a beneficiary without a leaf. *)
Cached == [root : Roots \cup {None}, fresh : BOOLEAN]
Answer == [root : Roots \cup {None}]

(* root: of the proof it carries, until it has landed.  fate: whether the  *)
(* leaf was paid since the simulation, by this transaction or by one of    *)
(* another tab, or else something came in between.                         *)
Claim  == [step : {"sent", "reported"}, root : Roots \cup {None},
           fate : {"simulated", "paid", "overtaken"}]

ASSUME AbsenceAssumption == None \notin Cached /\ None \notin Answer /\ None \notin Claim

Init ==
    /\ root = FirstRoot /\ cancelled = FALSE /\ claimed = {}
    /\ gate = "open" /\ payable = {}
    /\ versions = {[version |-> 1, root |-> FirstRoot]}
    /\ visit = [r \in Rotations |-> [step |-> "away", root |-> None, told |-> "nothing"]]
    /\ tx = [r \in Rotations |-> "none"]
    /\ post = [r \in Rotations |-> [step |-> "none", version |-> 0]]
    /\ proof = [b \in Beneficiaries |-> None]
    /\ answer = [b \in Beneficiaries |-> None]
    /\ claim = [b \in Beneficiaries |-> None]
    /\ alone = TRUE
-----------------------------------------------------------------------------
(* ------------------------ the allocation editor ------------------------ *)
Step(r, from, to) ==
    /\ visit[r].step = from
    /\ visit' = [visit EXCEPT ![r].step = to]

End(r, told) ==
    visit' = [visit EXCEPT ![r] = [@ EXCEPT !.step = "over", !.told = told]]

(* lockedReason.  When the chain does not answer within eight seconds the  *)
(* page goes by the database, which may know of no claim yet.              *)
LoadPage(r, reached) ==
    /\ reached => claimed = {} /\ ~cancelled
    /\ Step(r, "away", "editing")
    /\ UNCHANGED <<chain, versions, tx, post, users, alone>>

Submit(r, new) ==
    /\ visit[r].step = "editing"
    /\ visit' = [visit EXCEPT ![r] = [@ EXCEPT !.step = "recheck", !.root = new]]
    /\ UNCHANGED <<chain, versions, tx, post, users, alone>>

(* Guard 0: another look at total_claimed; when it fails, go on without.   *)
Recheck(r, reached) ==
    /\ visit[r].step = "recheck"
    /\ IF reached /\ claimed # {}
       THEN End(r, "failed")
       ELSE Step(r, "recheck", "wallet")
    /\ UNCHANGED <<chain, versions, tx, post, users, alone>>

(* The new tree cannot be prepared, or the wallet's simulation fails; or   *)
(* the user says no, which the page passes over in silence: neither says   *)
(* that there was an update.                                               *)
GiveUp(r) ==
    /\ visit[r].step \in {"wallet", "authorize"}
    /\ End(r, "failed")
    /\ UNCHANGED <<chain, versions, tx, post, users, alone>>

(* update_root, as far as it can fail here. *)
CanRotate(new) == ~cancelled /\ new # root

InProgress(r) ==
    \/ visit[r].step \in {"confirm", "authorize", "post"}
    \/ tx[r] = "pending"
    \/ post[r].step \in {"received", "read"}

SendRoot(r) ==
    /\ CanRotate(visit[r].root)
    /\ Step(r, "wallet", "confirm")
    /\ tx' = [tx EXCEPT ![r] = "pending"]
    /\ alone' = (alone /\ \A q \in Rotations : ~InProgress(q))
    /\ UNCHANGED <<chain, versions, post, users>>

Sending(b) == claim[b] # None /\ claim[b].step = "sent"

(* The chain moves on under the claims of these beneficiaries. *)
Overtake(bs) ==
    claim' = [b \in Beneficiaries |-> IF b \in bs /\ Sending(b) /\ claim[b].fate = "simulated"
                                     THEN [claim[b] EXCEPT !.fate = "overtaken"]
                                     ELSE claim[b]]

(* Under the new leaves something else may be due. *)
LandRoot(r) ==
    /\ tx[r] = "pending"
    /\ IF CanRotate(visit[r].root)
       THEN /\ tx' = [tx EXCEPT ![r] = "landed"]
            /\ root' = visit[r].root
            /\ payable' \in SUBSET Beneficiaries
            /\ Overtake(Beneficiaries)
       ELSE /\ tx' = [tx EXCEPT ![r] = "refused"]
            /\ UNCHANGED <<root, payable, claim>>
    /\ UNCHANGED <<cancelled, claimed, gate, versions, visit, post, proof, answer, alone>>

ExpireRoot(r) ==
    /\ tx[r] = "pending"
    /\ tx' = [tx EXCEPT ![r] = "expired"]
    /\ UNCHANGED <<chain, versions, visit, post, users, alone>>

(* Mutant: the page does not wait for the chain. *)
Sent(r) == tx[r] # "none"

(* confirmTransaction returns when the transaction is in a block, whether  *)
(* it succeeded there or not, and nobody asks which.                       *)
Processed(r) == tx[r] \in {"landed", "refused"}

(* invalidateQueries: proofs cached in this tab count as stale. *)
Confirmed(r) ==
    /\ Processed(r)
    /\ Step(r, "confirm", "authorize")
    /\ proof' = [b \in Beneficiaries |->
                    IF b \in SameTab /\ proof[b] # None
                    THEN [proof[b] EXCEPT !.fresh = FALSE] ELSE proof[b]]
    /\ UNCHANGED <<chain, versions, tx, post, answer, claim, alone>>

(* No confirmation in time: the transaction may land all the same. *)
TimeOut(r) ==
    /\ visit[r].step = "confirm"
    /\ End(r, "failed")
    /\ UNCHANGED <<chain, versions, tx, post, users, alone>>

(* createAuthHeader, and the POST is sent. *)
Authorize(r) ==
    /\ Step(r, "authorize", "post")
    /\ post' = [post EXCEPT ![r].step = "received"]
    /\ UNCHANGED <<chain, versions, tx, users, alone>>

(* Mutant: any answer will do. *)
AnyVerdict(r) == "updated"

(* The version, or indexWarning. *)
VerdictOf(r) == IF post[r].step = "stored" THEN "updated" ELSE "warned"

Answered(r) ==
    /\ post[r].step \in {"stored", "rejected"}
    /\ visit[r].step = "post"
    /\ End(r, VerdictOf(r))
    /\ UNCHANGED <<chain, versions, tx, post, users, alone>>

(* The connection breaks; the server goes on. *)
LoseAnswer(r) ==
    /\ visit[r].step = "post"
    /\ End(r, "warned")
    /\ UNCHANGED <<chain, versions, tx, post, users, alone>>
-----------------------------------------------------------------------------
(* ----------------------- POST .../root-versions ----------------------- *)
Latest == CHOOSE v \in versions : \A w \in versions : w.version <= v.version

(* The guards, the body, the proofs or the signer are refused, or the      *)
(* database fails.                                                         *)
Reject(r) ==
    /\ post[r].step \in {"received", "read"}
    /\ post' = [post EXCEPT ![r].step = "rejected"]
    /\ UNCHANGED <<chain, versions, visit, tx, users, alone>>

ReadMax(r) ==
    /\ post[r].step = "received"
    /\ post' = [post EXCEPT ![r] = [step |-> "read", version |-> Latest.version + 1]]
    /\ UNCHANGED <<chain, versions, visit, tx, users, alone>>

(* Mutant: no unique constraint. *)
AlwaysFree(version) == TRUE

(* uq_campaign_version *)
Free(version) == \A v \in versions : v.version # version

(* The version with its leaves, and the campaign's row, in one transaction *)
(* of the database.                                                        *)
Insert(r) ==
    /\ post[r].step = "read"
    /\ IF Free(post[r].version)
       THEN /\ versions' = versions \cup
                  {[version |-> post[r].version, root |-> visit[r].root]}
            /\ post' = [post EXCEPT ![r].step = "stored"]
       ELSE /\ post' = [post EXCEPT ![r].step = "rejected"]
            /\ UNCHANGED versions
    /\ UNCHANGED <<chain, visit, tx, users, alone>>
-----------------------------------------------------------------------------
(* ------------------------ proofs and claims ------------------------ *)

(* Mutant: ORDER BY version ASC. *)
OldestVersion == CHOOSE v \in versions : \A w \in versions : v.version <= w.version

(* ORDER BY version DESC LIMIT 1 *)
ServedVersion == Latest

(* GET .../proof, from whatever version is the newest; 404 for a           *)
(* beneficiary without a leaf.  The query asks when it has nothing, or     *)
(* nothing fresh and is mounted again.                                     *)
Serve(b) ==
    /\ answer[b] = None
    /\ proof[b] # None => ~proof[b].fresh
    /\ LET served == ServedVersion.root IN
         answer' = [answer EXCEPT ![b] =
                      [root |-> IF b \in Members[served] THEN served ELSE None]]
    /\ UNCHANGED <<chain, versions, pages, proof, claim, alone>>

Receive(b) ==
    /\ answer[b] # None
    /\ proof' = [proof EXCEPT ![b] = [root |-> answer[b].root, fresh |-> TRUE]]
    /\ answer' = [answer EXCEPT ![b] = None]
    /\ UNCHANGED <<chain, versions, pages, claim, alone>>

FetchFails(b) ==
    /\ answer[b] # None
    /\ answer' = [answer EXCEPT ![b] = None]
    /\ UNCHANGED <<chain, versions, pages, proof, claim, alone>>

(* staleTime passes. *)
Age(b) ==
    /\ proof[b] # None /\ proof[b].fresh
    /\ proof' = [proof EXCEPT ![b].fresh = FALSE]
    /\ UNCHANGED <<chain, versions, pages, answer, claim, alone>>

(* claim: the campaign pays, the proof verifies against the root, and      *)
(* there is something to claim and enough to pay it with.                  *)
CanClaim(b, with) ==
    /\ gate = "open"
    /\ with = root /\ b \in Members[with]
    /\ b \in payable

(* Mutant: no simulation, and the wallet skips its own. *)
Unsimulated(b) == TRUE

(* provider.simulate, and the preflight of sendTransaction *)
Simulates(b) == CanClaim(b, proof[b].root)

StartClaim(b) ==
    /\ proof[b] # None /\ proof[b].root # None
    /\ claim[b] # None => claim[b].step = "reported"
    /\ Simulates(b)
    /\ claim' = [claim EXCEPT ![b] = [step |-> "sent", root |-> proof[b].root,
                                      fate |-> "simulated"]]
    /\ UNCHANGED <<chain, versions, pages, proof, answer, alone>>

Pay(b) == claimed' = claimed \cup {b} /\ payable' = payable \ {b}

(* confirmTransaction returns once the transaction is in a block, and does *)
(* not say how it ended there: the page reports "claimed successfully".    *)
LandClaim(b) ==
    /\ Sending(b)
    /\ LET report(fate) == claim' = [claim EXCEPT ![b] =
                              [step |-> "reported", root |-> None, fate |-> fate]]
       IN  IF CanClaim(b, claim[b].root)
           THEN report("paid") /\ Pay(b)
           ELSE report(claim[b].fate) /\ UNCHANGED <<claimed, payable>>
    /\ UNCHANGED <<root, cancelled, gate, versions, pages, proof, answer, alone>>

(* The blockhash expires, and the page says that the claim failed. *)
ExpireClaim(b) ==
    /\ Sending(b)
    /\ claim' = [claim EXCEPT ![b] = None]
    /\ UNCHANGED <<chain, versions, pages, proof, answer, alone>>
-----------------------------------------------------------------------------
(* ------------- what else moves the chain under these pages ------------- *)

(* A claim or withdraw of the same leaf, in another tab. *)
ClaimElsewhere(b) ==
    /\ CanClaim(b, root)
    /\ Pay(b)
    /\ claim' = IF Sending(b) THEN [claim EXCEPT ![b].fate = "paid"] ELSE claim
    /\ UNCHANGED <<root, cancelled, gate, versions, pages, proof, answer, alone>>

(* The clock, set_milestone_released or a deposit. *)
Replenish(b) ==
    /\ b \notin payable /\ gate # "refunded"
    /\ payable' = payable \cup {b}
    /\ UNCHANGED <<root, cancelled, claimed, gate, versions, pages, users, alone>>

(* The claims of others, the creator's sweep, other expenses. *)
Drain(b) ==
    /\ b \in payable
    /\ payable' = payable \ {b}
    /\ Overtake({b})
    /\ UNCHANGED <<root, cancelled, claimed, gate, versions, pages, proof, answer, alone>>

Pause ==
    /\ gate = "open" /\ ~cancelled
    /\ gate' = "paused"
    /\ Overtake(Beneficiaries)
    /\ UNCHANGED <<root, cancelled, claimed, payable, versions, pages, proof, answer, alone>>

Unpause ==
    /\ gate = "paused"
    /\ gate' = "open"
    /\ UNCHANGED <<root, cancelled, claimed, payable, versions, pages, users, alone>>

(* cancel_campaign lifts a pause, and claims go on. *)
Cancel ==
    /\ ~cancelled
    /\ cancelled' = TRUE /\ gate' = "open"
    /\ UNCHANGED <<root, claimed, payable, versions, pages, users, alone>>

(* instant_refund_campaign returns the whole balance. *)
InstantRefund ==
    /\ ~cancelled
    /\ cancelled' = TRUE /\ gate' = "refunded" /\ payable' = {}
    /\ Overtake(Beneficiaries)
    /\ UNCHANGED <<root, claimed, versions, pages, proof, answer, alone>>

Next ==
    \/ Cancel \/ InstantRefund \/ Pause \/ Unpause
    \/ \E r \in Rotations :
         \/ \E reached \in BOOLEAN : LoadPage(r, reached) \/ Recheck(r, reached)
         \/ \E new \in Roots : Submit(r, new)
         \/ GiveUp(r) \/ SendRoot(r) \/ LandRoot(r) \/ ExpireRoot(r) \/ Confirmed(r) \/ TimeOut(r)
         \/ Authorize(r) \/ Answered(r) \/ LoseAnswer(r)
         \/ Reject(r) \/ ReadMax(r) \/ Insert(r)
    \/ \E b \in Beneficiaries :
         \/ Serve(b) \/ Receive(b) \/ FetchFails(b) \/ Age(b)
         \/ StartClaim(b) \/ LandClaim(b) \/ ExpireClaim(b)
         \/ ClaimElsewhere(b) \/ Replenish(b) \/ Drain(b)

Spec == Init /\ [][Next]_vars

(* Beneficiaries come back to their position and sometimes have a          *)
(* connection that lasts for an answer.                                    *)
Fairness == \A b \in Beneficiaries :
    WF_vars(Serve(b)) /\ SF_vars(Receive(b)) /\ WF_vars(Age(b))

LiveSpec == Spec /\ Fairness
=============================================================================
