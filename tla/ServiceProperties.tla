------------------------- MODULE ServiceProperties -------------------------
(***************************************************************************)
(* What rotations promise to the cancel authority and to the beneficiaries *)
(* whose proofs they replace.                                              *)
(***************************************************************************)
EXTENDS Service

(* The type invariant. *)
TypeOK ==
    /\ root \in Roots /\ cancelled \in BOOLEAN /\ claimed \subseteq Beneficiaries
    /\ gate \in {"open", "paused", "refunded"}
    /\ payable \subseteq Beneficiaries
    /\ versions \subseteq [version : Nat \ {0}, root : Roots]
    /\ visit \in [Rotations -> Visit]
    /\ \A r \in Rotations :
         visit[r].root = None => visit[r].step \in {"away", "editing"} /\ tx[r] = "none"
    /\ tx \in [Rotations -> {"none", "pending", "landed", "refused", "expired"}]
    /\ post \in [Rotations -> [step : {"none", "received", "read", "stored", "rejected"},
                               version : Nat]]
    /\ proof \in [Beneficiaries -> Cached \cup {None}]
    /\ answer \in [Beneficiaries -> Answer \cup {None}]
    /\ claim \in [Beneficiaries -> Claim \cup {None}]
    /\ alone \in BOOLEAN

(* However many rotations are posted at once, the versions of a campaign   *)
(* are numbered without gap or repetition, so that "the newest" is one.    *)
VersionsInOrder ==
    /\ \A v, w \in versions : v.version = w.version => v = w
    /\ {v.version : v \in versions} = 1 .. Latest.version

(* A version is served only for a root whose transaction the chain has     *)
(* processed; one that the chain refused can only come from a rotation     *)
(* that a cancellation or another rotation overtook.                       *)
PostedAfterChain ==
    \A r \in Rotations : post[r].step # "none" =>
        /\ tx[r] \in {"landed", "refused"}
        /\ tx[r] = "refused" => cancelled \/ ~alone

(* When nothing is under way and the proofs that are served do not belong  *)
(* to the live root, nobody who relied on the page was misled: some        *)
(* rotation that landed was not reported as an update, or the campaign was *)
(* cancelled, or two rotations overlapped.                                 *)
NewestIsLive ==
    /\ \A r \in Rotations : ~InProgress(r)
    /\ \A r \in Rotations : tx[r] = "landed" => visit[r].told = "updated"
    /\ ~cancelled /\ alone
    => Latest.root = root

(* "claimed successfully" is said without asking how the transaction       *)
(* ended.  It is wrong only if, after the simulation, a rotation, a pause  *)
(* or a refund landed, or others took what the claim was to be paid from.  *)
(* A claim of the same leaf from another tab, after which this one fails,  *)
(* is no such case: then the beneficiary has been paid all the same.       *)
ReportedIsPaid ==
    \A b \in Beneficiaries :
        claim[b] # None /\ claim[b].step = "reported" =>
            claim[b].fate \in {"paid", "overtaken"}

(* Once the newest version has the live root for good, every beneficiary   *)
(* of it who keeps coming back has the proof that the chain accepts,       *)
(* although nothing tells other browsers of a rotation.                    *)
ProofsCatchUp ==
    \A b \in Beneficiaries :
        <>[](Latest.root = root /\ b \in Members[root])
          => <>[](proof[b] # None /\ proof[b].root = root)
=============================================================================
