--------------------------- MODULE ServiceProofs ---------------------------
(***************************************************************************)
(* Theorems about Service, for any number of visits of the editor, of      *)
(* roots and of beneficiaries.                                             *)
(***************************************************************************)
EXTENDS ServiceProperties, TLAPS

(* A request knows a number that is at most the next one; and versions are *)
(* numbered from 1 to the newest.                                          *)
Numbered ==
    /\ \A v, w \in versions : v.version = w.version => v = w
    /\ \E n \in Nat \ {0} : {v.version : v \in versions} = 1 .. n
    /\ \A r \in Rotations :
         post[r].step = "read" => post[r].version \in 1 .. Latest.version + 1

(* Where a rotation stands on its page, on chain and at the server.        *)
Placed ==
    \A r \in Rotations :
        /\ visit[r].step \in {"away", "editing", "recheck", "wallet"} =>
             tx[r] = "none" /\ visit[r].told = "nothing"
        /\ visit[r].step \in {"authorize", "post"} => tx[r] \in {"landed", "refused"}
        /\ visit[r].step \notin {"post", "over"} => post[r].step = "none"
        /\ post[r].step # "none" => tx[r] \in {"landed", "refused"}
        /\ visit[r].step = "post" => post[r].step # "none"
        /\ visit[r].told = "updated" => visit[r].step = "over" /\ post[r].step = "stored"

(* Rotations that do not overlap: one at a time is in progress; while it   *)
(* is, the root is the one it replaces or the one it put in its place.     *)
OneAtATime ==
    alone =>
      /\ \A q, r \in Rotations : InProgress(q) /\ InProgress(r) => q = r
      /\ \A r \in Rotations : tx[r] = "pending" => visit[r].root # root
      /\ \A r \in Rotations : InProgress(r) /\ tx[r] = "landed" => visit[r].root = root
      /\ \A r \in Rotations : tx[r] = "refused" => cancelled

Behind(r) == tx[r] = "landed" /\ post[r].step # "stored"

(* The newest version is live, or a rotation that landed is not stored.    *)
LiveOrBehind ==
    alone /\ ~cancelled => Latest.root = root \/ \E r \in Rotations : Behind(r)

(* A claim that was simulated would be paid now, was paid, or something    *)
(* came in between.                                                        *)
Stands(b) == claim[b].fate # "simulated" \/ CanClaim(b, claim[b].root)

ClaimsStand ==
    \A b \in Beneficiaries : claim[b] # None =>
        /\ claim[b].step = "sent" => Stands(b)
        /\ claim[b].step = "reported" => claim[b].fate # "simulated"

IInv == TypeOK /\ Numbered /\ Placed /\ OneAtATime /\ LiveOrBehind /\ ClaimsStand
-----------------------------------------------------------------------------
(* CHOOSE finds the newest of numbered versions. *)
LEMMA LatestIsNewest ==
  ASSUME NEW S, S \subseteq [version : Nat \ {0}, root : Roots], NEW n \in Nat \ {0},
         \A v, w \in S : v.version = w.version => v = w,
         {v.version : v \in S} = 1 .. n
  PROVE  LET top == CHOOSE v \in S : \A w \in S : w.version <= v.version IN
         /\ top \in S /\ top.version = n
         /\ \A v \in S : v.version = n => top = v
<1> DEFINE top == CHOOSE v \in S : \A w \in S : w.version <= v.version
<1>1. n \in {v.version : v \in S}
  OBVIOUS
<1>2. PICK v \in S : v.version = n
  BY <1>1
<1>3. \A w \in S : w.version \in 1 .. n
  OBVIOUS
<1>4. \A w \in S : w.version <= v.version
  BY <1>2, <1>3
<1>5. top \in S /\ \A w \in S : w.version <= top.version
  BY <1>4
<1>6. n <= top.version
  BY <1>2, <1>5
<1>7. top.version = n
  <2>1. top.version \in 1 .. n
    BY <1>3, <1>5
  <2> QED BY <2>1, <1>6
<1> QED BY <1>5, <1>7

(* The first state. *)
LEMMA InitIInv == Init => IInv
<1> SUFFICES ASSUME Init PROVE IInv
  OBVIOUS
<1> USE ServiceAssumption, AbsenceAssumption DEF Init
<1>1. TypeOK
  <2>1. visit \in [Rotations -> Visit]
    BY DEF Visit
  <2>2. post \in [Rotations -> [step : {"none", "received", "read", "stored", "rejected"},
                                version : Nat]]
    OBVIOUS
  <2>3. versions \subseteq [version : Nat \ {0}, root : Roots]
    OBVIOUS
  <2>4. tx \in [Rotations -> {"none", "pending", "landed", "refused", "expired"}]
    OBVIOUS
  <2> QED BY <2>1, <2>2, <2>3, <2>4 DEF TypeOK
<1>2. Latest = [version |-> 1, root |-> FirstRoot]
  BY DEF Latest
<1>3. Numbered
  <2>1. {v.version : v \in versions} = 1 .. 1
    OBVIOUS
  <2> QED BY <1>2, <2>1 DEF Numbered
<1>4. Placed /\ OneAtATime
  BY DEF Placed, OneAtATime, InProgress
<1>5. LiveOrBehind /\ ClaimsStand
  BY <1>2 DEF LiveOrBehind, ClaimsStand
<1> QED BY <1>1, <1>3, <1>4, <1>5 DEF IInv
-----------------------------------------------------------------------------
(* What the steps do to one page, and to the server's work on one POST. *)
Steps == {"away", "editing", "recheck", "wallet", "confirm", "authorize", "post", "over"}
Tales == {"nothing", "updated", "warned", "failed"}

Moved(r, step, told) ==
    /\ visit' \in [Rotations -> Visit]
    /\ \A q \in Rotations : q # r => visit'[q] = visit[q]
    /\ visit'[r].step = step /\ visit'[r].told = told /\ visit'[r].root = visit[r].root

LEMMA VisitFields ==
  ASSUME TypeOK, NEW r \in Rotations
  PROVE  /\ visit[r] \in Visit
         /\ visit[r].step \in Steps /\ visit[r].root \in Roots \cup {None}
         /\ visit[r].told \in Tales
         /\ post[r].step \in {"none", "received", "read", "stored", "rejected"}
         /\ post[r].version \in Nat
BY DEF TypeOK, Visit, Steps, Tales

LEMMA StepMoves ==
  ASSUME TypeOK, NEW r \in Rotations, NEW from, NEW to \in Steps, Step(r, from, to)
  PROVE  Moved(r, to, visit[r].told) /\ visit[r].step = from
<1> DEFINE new == [visit[r] EXCEPT !.step = to]
<1>1. new \in Visit /\ new.step = to /\ new.told = visit[r].told /\ new.root = visit[r].root
  BY DEF TypeOK, Visit, Steps
<1>2. visit' = [visit EXCEPT ![r] = new]
  BY DEF Step
<1> HIDE DEF new
<1>3. visit'[r] = new /\ \A q \in Rotations : q # r => visit'[q] = visit[q]
  BY <1>2 DEF TypeOK
<1>4. visit' \in [Rotations -> Visit]
  BY <1>1, <1>2 DEF TypeOK
<1> QED BY <1>1, <1>3, <1>4 DEF Moved, Step

LEMMA EndMoves ==
  ASSUME TypeOK, NEW r \in Rotations, NEW told \in Tales,
         End(r, told)
  PROVE  Moved(r, "over", told)
<1> DEFINE new == [visit[r] EXCEPT !.step = "over", !.told = told]
<1>1. new \in Visit /\ new.step = "over" /\ new.told = told /\ new.root = visit[r].root
  <2>1. told \in {"nothing", "updated", "warned", "failed"}
    BY DEF Tales
  <2>2. visit[r] \in Visit
    BY DEF TypeOK
  <2> QED BY <2>1, <2>2 DEF Visit
<1>2. visit' = [visit EXCEPT ![r] = new]
  BY DEF End
<1> HIDE DEF new
<1>3. visit'[r] = new /\ \A q \in Rotations : q # r => visit'[q] = visit[q]
  BY <1>2 DEF TypeOK
<1>4. visit' \in [Rotations -> Visit]
  BY <1>1, <1>2 DEF TypeOK
<1> QED BY <1>1, <1>3, <1>4 DEF Moved

PostMoved(r, step, version) ==
    /\ post' \in [Rotations -> [step : {"none", "received", "read", "stored", "rejected"},
                                version : Nat]]
    /\ \A q \in Rotations : q # r => post'[q] = post[q]
    /\ post'[r].step = step /\ post'[r].version = version

LEMMA PostMoves ==
  ASSUME TypeOK, NEW r \in Rotations,
         NEW step \in {"none", "received", "read", "stored", "rejected"},
         post' = [post EXCEPT ![r].step = step]
  PROVE  PostMoved(r, step, post[r].version)
<1> DEFINE new == [post[r] EXCEPT !.step = step]
<1>1. /\ new \in [step : {"none", "received", "read", "stored", "rejected"}, version : Nat]
      /\ new.step = step /\ new.version = post[r].version
  BY DEF TypeOK
<1>2. post' = [post EXCEPT ![r] = new]
  OBVIOUS
<1> HIDE DEF new
<1>3. post'[r] = new /\ \A q \in Rotations : q # r => post'[q] = post[q]
  BY <1>2 DEF TypeOK
<1> QED BY <1>1, <1>2, <1>3 DEF PostMoved, TypeOK
-----------------------------------------------------------------------------
(* The pages' steps, as far as the invariants look at them. *)
Walks(r) ==
    \/ \E to \in {"editing", "recheck", "wallet"} :
         /\ visit[r].step \in {"away", "editing", "recheck"}
         /\ visit' \in [Rotations -> Visit]
         /\ \A q \in Rotations : q # r => visit'[q] = visit[q]
         /\ visit'[r].step = to /\ visit'[r].told = visit[r].told
         /\ visit'[r].root # None \/ to = "editing"
    \/ \E told \in {"failed", "warned"} :
         /\ visit[r].step \notin {"away", "editing", "over"}
         /\ Moved(r, "over", told)

Walk(r) == Walks(r) /\ UNCHANGED <<chain, versions, tx, post, users, alone>>

(* A step of a page that changes nothing else. *)
LEMMA WalkStep ==
  ASSUME TypeOK, NEW r \in Rotations,
         \/ \E reached \in BOOLEAN : LoadPage(r, reached) \/ Recheck(r, reached)
         \/ \E new \in Roots : Submit(r, new)
         \/ GiveUp(r)
         \/ TimeOut(r) \/ LoseAnswer(r)
         \/ Answered(r) /\ post[r].step = "rejected"
  PROVE  Walk(r)
<1> USE VisitFields
<1>1. CASE \E reached \in BOOLEAN : LoadPage(r, reached)
  <2>1. Moved(r, "editing", visit[r].told) /\ visit[r].step = "away"
    BY <1>1, StepMoves DEF LoadPage, Steps
  <2> QED BY <1>1, <2>1 DEF LoadPage, Walk, Walks, Moved
<1>2. ASSUME NEW reached \in BOOLEAN, Recheck(r, reached) PROVE Walk(r)
  <2>1. CASE reached /\ claimed # {}
    <3>1. Moved(r, "over", "failed")
      BY <1>2, <2>1, EndMoves DEF Recheck, Tales
    <3> QED BY <1>2, <2>1, <3>1 DEF Recheck, Walk, Walks
  <2>2. CASE ~(reached /\ claimed # {})
    <3>1. Moved(r, "wallet", visit[r].told) /\ visit[r].step = "recheck"
      BY <1>2, <2>2, StepMoves DEF Recheck, Steps
    <3>2. visit[r].root # None
      BY <1>2 DEF TypeOK, Recheck
    <3> QED BY <1>2, <3>1, <3>2 DEF Recheck, Walk, Walks, Moved
  <2> QED BY <2>1, <2>2
<1>3. ASSUME NEW new \in Roots, Submit(r, new) PROVE Walk(r)
  <2> DEFINE v == [visit[r] EXCEPT !.step = "recheck", !.root = new]
  <2>1. v \in Visit /\ v.step = "recheck" /\ v.told = visit[r].told /\ v.root # None
    BY ServiceAssumption DEF TypeOK, Visit
  <2>2. visit' = [visit EXCEPT ![r] = v]
    BY <1>3 DEF Submit
  <2> HIDE DEF v
  <2>3. /\ visit' \in [Rotations -> Visit] /\ visit'[r] = v
        /\ \A q \in Rotations : q # r => visit'[q] = visit[q]
    BY <2>1, <2>2 DEF TypeOK
  <2> QED BY <1>3, <2>1, <2>3 DEF Submit, Walk, Walks
<1>4. CASE GiveUp(r)
  <2>1. Moved(r, "over", "failed")
    BY <1>4, EndMoves DEF GiveUp, Tales
  <2> QED BY <1>4, <2>1 DEF GiveUp, Walk, Walks
<1>5. CASE TimeOut(r)
  <2>1. Moved(r, "over", "failed")
    BY <1>5, EndMoves DEF TimeOut, Tales
  <2> QED BY <1>5, <2>1 DEF TimeOut, Walk, Walks
<1>6. CASE LoseAnswer(r) \/ (Answered(r) /\ post[r].step = "rejected")
  <2>1. Moved(r, "over", "warned")
    BY <1>6, EndMoves DEF LoseAnswer, Answered, VerdictOf, Tales
  <2> QED BY <1>6, <2>1 DEF LoseAnswer, Answered, Walk, Walks
<1> QED BY <1>1, <1>2, <1>3, <1>4, <1>5, <1>6

(* A step of a beneficiary's browser, of nobody, or of the chain that      *)
(* rotations do not look at.                                               *)
Elsewhere == UNCHANGED <<root, cancelled, versions, visit, tx, post, alone>>

Cancels == ~cancelled /\ cancelled' /\ UNCHANGED <<root, versions, pages, alone>>

LEMMA NextCases ==
  ASSUME TypeOK, [Next]_vars
  PROVE  \/ Elsewhere
         \/ Cancels
         \/ \E r \in Rotations :
              \/ Walk(r) \/ SendRoot(r) \/ LandRoot(r) \/ ExpireRoot(r) \/ Confirmed(r)
              \/ Authorize(r)
              \/ Answered(r) /\ post[r].step = "stored"
              \/ Reject(r) \/ ReadMax(r) \/ Insert(r)
<1>1. CASE UNCHANGED vars
  BY <1>1 DEF vars, chain, pages, Elsewhere
<1>2. CASE \E b \in Beneficiaries :
             \/ Serve(b) \/ Receive(b) \/ FetchFails(b) \/ Age(b)
             \/ StartClaim(b) \/ LandClaim(b) \/ ExpireClaim(b)
             \/ ClaimElsewhere(b) \/ Replenish(b) \/ Drain(b)
  BY <1>2 DEF Serve, Receive, FetchFails, Age, StartClaim, LandClaim, ExpireClaim,
              ClaimElsewhere, Replenish, Drain, chain, pages, Elsewhere
<1>3. ASSUME NEW r \in Rotations, Answered(r) PROVE Walk(r) \/ post[r].step = "stored"
  BY <1>3, WalkStep DEF Answered
<1>4. CASE Pause \/ Unpause
  BY <1>4 DEF Pause, Unpause, pages, Elsewhere
<1>5. CASE Cancel \/ InstantRefund
  BY <1>5 DEF Cancel, InstantRefund, Cancels
<1> QED BY <1>1, <1>2, <1>3, <1>4, <1>5, WalkStep DEF Next

(* Where a rotation stands is kept, one step of its page or its POST at a time. *)
LEMMA StepPlaced == TypeOK /\ Placed /\ [Next]_vars => Placed'
<1> SUFFICES ASSUME TypeOK, Placed, [Next]_vars PROVE Placed'
  OBVIOUS
<1> USE VisitFields
<1>1. CASE Elsewhere \/ Cancels
  BY <1>1 DEF Elsewhere, Cancels, pages, Placed
<1>2. ASSUME NEW r \in Rotations, Walk(r) PROVE Placed'
  BY <1>2 DEF Walk, Walks, Moved, Placed
<1>3. ASSUME NEW r \in Rotations, SendRoot(r) PROVE Placed'
  <2>1. Moved(r, "confirm", visit[r].told) /\ visit[r].step = "wallet"
    BY <1>3, StepMoves DEF SendRoot, Steps
  <2>2. tx'[r] = "pending" /\ (\A q \in Rotations : q # r => tx'[q] = tx[q]) /\ post' = post
    BY <1>3 DEF SendRoot, TypeOK
  <2> QED BY <2>1, <2>2 DEF Moved, Placed
<1>4. ASSUME NEW r \in Rotations, LandRoot(r) \/ ExpireRoot(r) PROVE Placed'
  <2>1. /\ tx[r] = "pending" /\ tx'[r] \in {"landed", "refused", "expired"}
        /\ \A q \in Rotations : q # r => tx'[q] = tx[q]
        /\ post' = post /\ visit' = visit
    BY <1>4 DEF LandRoot, ExpireRoot, TypeOK
  <2> QED BY <2>1 DEF Placed
<1>5. ASSUME NEW r \in Rotations, Confirmed(r) PROVE Placed'
  <2>1. Moved(r, "authorize", visit[r].told) /\ visit[r].step = "confirm"
    BY <1>5, StepMoves DEF Confirmed, Steps
  <2> QED BY <1>5, <2>1 DEF Confirmed, Processed, Moved, Placed
<1>6. ASSUME NEW r \in Rotations, Authorize(r) PROVE Placed'
  <2>1. Moved(r, "post", visit[r].told) /\ visit[r].step = "authorize"
    BY <1>6, StepMoves DEF Authorize, Steps
  <2>2. PostMoved(r, "received", post[r].version) /\ tx' = tx
    <3>1. post' = [post EXCEPT ![r].step = "received"] /\ tx' = tx
      BY <1>6 DEF Authorize
    <3> QED BY <3>1, PostMoves
  <2> QED BY <2>1, <2>2 DEF Moved, PostMoved, Placed
<1>7. ASSUME NEW r \in Rotations, Answered(r), post[r].step = "stored" PROVE Placed'
  <2>1. Moved(r, "over", "updated") /\ visit[r].step = "post" /\ tx' = tx /\ post' = post
    BY <1>7, EndMoves DEF Answered, VerdictOf, Tales
  <2> QED BY <1>7, <2>1 DEF Moved, Placed
<1>8. ASSUME NEW r \in Rotations, Reject(r) \/ ReadMax(r) \/ Insert(r) PROVE Placed'
  <2>1. /\ post[r].step \in {"received", "read"}
        /\ post'[r].step # "none" /\ \A q \in Rotations : q # r => post'[q] = post[q]
        /\ visit' = visit /\ tx' = tx
    BY <1>8 DEF Reject, ReadMax, Insert, TypeOK
  <2> QED BY <2>1 DEF Placed
<1> QED BY <1>1, <1>2, <1>3, <1>4, <1>5, <1>6, <1>7, <1>8, NextCases
-----------------------------------------------------------------------------
(* Nothing but SendRoot puts a rotation in progress. *)
LEMMA StepOneAtATime == TypeOK /\ Placed /\ OneAtATime /\ [Next]_vars => OneAtATime'
<1> SUFFICES ASSUME TypeOK, Placed, OneAtATime, [Next]_vars, alone' PROVE OneAtATime'
  BY DEF OneAtATime
<1> USE VisitFields
<1>1. CASE Elsewhere \/ Cancels
  <2>1. UNCHANGED <<root, visit, tx, post, alone>> /\ (cancelled => cancelled')
    <3>1. CASE Elsewhere
      BY <3>1 DEF Elsewhere
    <3>2. CASE Cancels
      BY <3>2 DEF Cancels, pages
    <3> QED BY <1>1, <3>1, <3>2
  <2>2. \A q \in Rotations : InProgress(q)' <=> InProgress(q)
    BY <2>1 DEF InProgress
  <2> QED BY <2>1, <2>2 DEF OneAtATime
<1>2. ASSUME NEW r \in Rotations, Walk(r) PROVE OneAtATime'
  <2>1. alone /\ \A q \in Rotations : InProgress(q)' => InProgress(q) /\ visit'[q].root = visit[q].root
    BY <1>2 DEF Walk, Walks, Moved, Placed, InProgress
  <2>2. \A q \in Rotations : tx[q] = "pending" => visit'[q].root = visit[q].root
    BY <1>2 DEF Walk, Walks, Moved, Placed
  <2> QED BY <1>2, <2>1, <2>2 DEF Walk, Placed, OneAtATime, chain
<1>3. ASSUME NEW r \in Rotations, SendRoot(r) PROVE OneAtATime'
  <2>1. Moved(r, "confirm", visit[r].told) /\ visit[r].step = "wallet"
    BY <1>3, StepMoves DEF SendRoot, Steps
  <2>2. /\ tx'[r] = "pending" /\ \A q \in Rotations : q # r => tx'[q] = tx[q]
        /\ post' = post /\ alone /\ \A q \in Rotations : ~InProgress(q)
        /\ root' = root /\ visit[r].root # root /\ cancelled' = cancelled
    BY <1>3 DEF SendRoot, CanRotate, TypeOK, chain
  <2>3. \A q \in Rotations : q # r => ~InProgress(q)'
    BY <2>1, <2>2 DEF Moved, InProgress
  <2>4. tx'[r] = "pending" /\ visit'[r].root # root'
    BY <2>1, <2>2 DEF Moved
  <2>5. \A q \in Rotations : tx'[q] = "refused" => tx[q] = "refused"
    BY <2>2
  <2>6. \A q \in Rotations : tx'[q] = "pending" => q = r
    BY <2>2, <2>3 DEF InProgress
  <2> QED BY <2>2, <2>3, <2>4, <2>5, <2>6 DEF OneAtATime
<1>4. ASSUME NEW r \in Rotations, LandRoot(r) PROVE OneAtATime'
  <2>1. /\ tx[r] = "pending" /\ InProgress(r)
        /\ \A q \in Rotations : q # r => tx'[q] = tx[q]
        /\ post' = post /\ visit' = visit /\ alone /\ cancelled' = cancelled
    BY <1>4 DEF LandRoot, TypeOK, InProgress
  <2>2. \A q \in Rotations : InProgress(q)' => q = r
    BY <2>1 DEF OneAtATime, InProgress
  <2>3. \/ tx'[r] = "landed" /\ root' = visit'[r].root
        \/ tx'[r] = "refused" /\ root' = root /\ cancelled'
    BY <1>4, <2>1 DEF LandRoot, CanRotate, TypeOK, OneAtATime
  <2>4. \A q \in Rotations : tx'[q] # "pending"
    BY <2>1, <2>2, <2>3 DEF InProgress
  <2>5. \A q \in Rotations : tx'[q] = "refused" => cancelled'
    BY <2>1, <2>3 DEF OneAtATime
  <2> QED BY <2>2, <2>3, <2>4, <2>5 DEF OneAtATime
<1>5. ASSUME NEW r \in Rotations, ExpireRoot(r) PROVE OneAtATime'
  <2>1. /\ tx'[r] = "expired" /\ \A q \in Rotations : q # r => tx'[q] = tx[q]
        /\ post' = post /\ visit' = visit /\ alone /\ cancelled' = cancelled /\ root' = root
    BY <1>5 DEF ExpireRoot, TypeOK, chain
  <2>2. \A q \in Rotations : InProgress(q)' => InProgress(q)
    BY <1>5, <2>1 DEF ExpireRoot, InProgress
  <2> QED BY <2>1, <2>2 DEF OneAtATime
<1>6. ASSUME NEW r \in Rotations, Confirmed(r) \/ Authorize(r) \/ Answered(r)
      PROVE OneAtATime'
  <2>1. /\ visit[r].step \in {"confirm", "authorize", "post"}
        /\ \E to \in Steps, told \in Tales : Moved(r, to, told)
    <3>1. CASE Confirmed(r)
      BY <3>1, StepMoves DEF Confirmed, Steps
    <3>2. CASE Authorize(r)
      BY <3>2, StepMoves DEF Authorize, Steps
    <3>3. CASE Answered(r)
      BY <3>3, EndMoves DEF Answered, VerdictOf, Steps, Tales
    <3> QED BY <1>6, <3>1, <3>2, <3>3
  <2>2. \A q \in Rotations : q # r => post'[q] = post[q]
    BY <1>6 DEF Confirmed, Authorize, Answered, TypeOK
  <2>3. UNCHANGED <<tx, root, cancelled, alone>>
    BY <1>6 DEF Confirmed, Authorize, Answered, chain
  <2>4. \A q \in Rotations : visit'[q].root = visit[q].root /\ (InProgress(q)' => InProgress(q))
    BY <2>1, <2>2, <2>3 DEF Moved, InProgress
  <2> QED BY <2>3, <2>4 DEF OneAtATime
<1>7. ASSUME NEW r \in Rotations, Reject(r) \/ ReadMax(r) \/ Insert(r) PROVE OneAtATime'
  <2>1. /\ post[r].step \in {"received", "read"}
        /\ \A q \in Rotations : q # r => post'[q] = post[q]
        /\ UNCHANGED <<visit, tx, root, cancelled, alone>>
    BY <1>7 DEF Reject, ReadMax, Insert, TypeOK, chain
  <2>2. \A q \in Rotations : InProgress(q)' => InProgress(q)
    BY <2>1 DEF InProgress
  <2> QED BY <2>1, <2>2 DEF OneAtATime
<1> QED BY <1>1, <1>2, <1>3, <1>4, <1>5, <1>6, <1>7, NextCases
-----------------------------------------------------------------------------
LEMMA NewestIsMember ==
  ASSUME TypeOK, Numbered
  PROVE  /\ Latest \in versions /\ Latest.version \in Nat \ {0}
         /\ \A v \in versions : v.version = Latest.version => v = Latest
         /\ VersionsInOrder
<1>1. PICK n \in Nat \ {0} : {v.version : v \in versions} = 1 .. n
  BY DEF Numbered
<1>2. /\ Latest \in versions /\ Latest.version = n
      /\ \A v \in versions : v.version = n => Latest = v
  BY <1>1, LatestIsNewest DEF Latest, TypeOK, Numbered
<1> QED BY <1>1, <1>2 DEF VersionsInOrder, Numbered

(* Storing the next number makes it the newest. *)
LEMMA InsertedIsLatest ==
  ASSUME TypeOK, Numbered, NEW r \in Rotations, Insert(r), Free(post[r].version),
         visit[r].root \in Roots
  PROVE  /\ \A v, w \in versions' : v.version = w.version => v = w
         /\ {v.version : v \in versions'} = 1 .. Latest.version + 1
         /\ Latest'.root = visit[r].root
         /\ Latest'.version = Latest.version + 1
<1> DEFINE n == Latest.version
           new == [version |-> post[r].version, root |-> visit[r].root]
<1>1. n \in Nat \ {0} /\ {v.version : v \in versions} = 1 .. n
  BY NewestIsMember DEF VersionsInOrder
<1>2. post[r].version = n + 1
  <2>1. post[r].version \in 1 .. n + 1
    BY DEF Insert, Numbered
  <2>2. post[r].version \notin 1 .. n
    BY <1>1 DEF Free
  <2> QED BY <1>1, <2>1, <2>2
<1>3. versions' = versions \cup {new} /\ new.version = n + 1 /\ new.root = visit[r].root
  BY <1>2 DEF Insert
<1> HIDE DEF new
<1>4. \A v \in versions : v.version # n + 1
  BY <1>2 DEF Free
<1>5. \A v, w \in versions' : v.version = w.version => v = w
  BY <1>3, <1>4 DEF Numbered
<1>6. {v.version : v \in versions'} = 1 .. n + 1
  <2>1. {v.version : v \in versions'} = {v.version : v \in versions} \cup {n + 1}
    BY <1>3
  <2> HIDE DEF n
  <2> QED BY <1>1, <2>1
<1>7. versions' \subseteq [version : Nat \ {0}, root : Roots]
  <2>1. new \in [version : Nat \ {0}, root : Roots]
    BY <1>1, <1>2 DEF new
  <2> QED BY <1>3, <2>1 DEF TypeOK
<1>8. Latest' \in versions' /\ Latest'.version = n + 1
      /\ \A v \in versions' : v.version = n + 1 => Latest' = v
  <2>1. n + 1 \in Nat \ {0}
    BY <1>1
  <2> HIDE DEF n
  <2> QED BY <1>5, <1>6, <1>7, <2>1, LatestIsNewest DEF Latest
<1>9. Latest' = new
  BY <1>3, <1>8
<1> QED BY <1>3, <1>5, <1>6, <1>8, <1>9

(* The root of a rotation that has been sent is one. *)
LEMMA SentRoot ==
  ASSUME TypeOK, NEW r \in Rotations, tx[r] # "none"
  PROVE  visit[r].root \in Roots
BY VisitFields DEF TypeOK

(* Versions change by Insert alone. *)
LEMMA StepVersions ==
  ASSUME TypeOK, [Next]_vars
  PROVE  \/ UNCHANGED versions
         \/ \E r \in Rotations : Insert(r) /\ Free(post[r].version)
<1>1. \A r \in Rotations : Insert(r) => UNCHANGED versions \/ Free(post[r].version)
  BY DEF Insert
<1> QED BY <1>1, NextCases DEF Elsewhere, Cancels, Walk, SendRoot, LandRoot, ExpireRoot,
             Confirmed, Authorize, Answered, Reject, ReadMax

LEMMA StepNumbered == TypeOK /\ Placed /\ Numbered /\ [Next]_vars => Numbered'
<1> SUFFICES ASSUME TypeOK, Placed, Numbered, [Next]_vars PROVE Numbered'
  OBVIOUS
<1>1. Latest.version \in Nat \ {0}
  BY NewestIsMember
<1>2. \A r \in Rotations :
        post'[r].step = "read" => post'[r].version \in 1 .. Latest.version + 1
  <2>1. ASSUME NEW q \in Rotations, UNCHANGED post \/ Authorize(q) \/ Reject(q) \/ Insert(q)
        PROVE  \A r \in Rotations : post'[r].step = "read" => post'[r] = post[r]
    <3>1. CASE UNCHANGED post
      BY <3>1
    <3>2. CASE ~UNCHANGED post
      <4>1. PICK step \in {"received", "stored", "rejected"} :
              post' = [post EXCEPT ![q].step = step]
        BY <2>1, <3>2 DEF Authorize, Reject, Insert
      <4>2. PostMoved(q, step, post[q].version)
        BY <4>1, PostMoves
      <4> QED BY <4>2 DEF PostMoved
    <3> QED BY <3>1, <3>2
  <2>2. ASSUME NEW q \in Rotations, ReadMax(q)
        PROVE  \A r \in Rotations :
                 post'[r] = post[r] \/ post'[r].version = Latest.version + 1
    BY <2>2 DEF ReadMax, TypeOK
  <2>3. \/ \E q \in Rotations : UNCHANGED post \/ Authorize(q) \/ Reject(q) \/ Insert(q)
        \/ \E q \in Rotations : ReadMax(q)
        \/ UNCHANGED post
    BY NextCases DEF Elsewhere, Cancels, Walk, SendRoot, LandRoot, ExpireRoot, Confirmed,
                     Answered, pages
  <2>4. ASSUME NEW r \in Rotations, post'[r] = post[r], post'[r].step = "read"
        PROVE  post'[r].version \in 1 .. Latest.version + 1
    BY <2>4 DEF Numbered
  <2>5. Latest.version + 1 \in 1 .. Latest.version + 1
    BY <1>1
  <2> QED BY <2>1, <2>2, <2>3, <2>4, <2>5
<1>3. CASE UNCHANGED versions
  BY <1>2, <1>3 DEF Numbered, Latest
<1>4. ASSUME NEW r \in Rotations, Insert(r), Free(post[r].version) PROVE Numbered'
  <2>1. /\ \A v, w \in versions' : v.version = w.version => v = w
        /\ {v.version : v \in versions'} = 1 .. Latest.version + 1
        /\ Latest'.version = Latest.version + 1
    BY <1>4, SentRoot, InsertedIsLatest DEF Insert, Placed
  <2>2. \A q \in Rotations :
          post'[q].step = "read" => post'[q].version \in 1 .. Latest'.version + 1
    BY <1>1, <1>2, <2>1
  <2> QED BY <1>1, <2>1, <2>2 DEF Numbered
<1> QED BY <1>3, <1>4, StepVersions

(* Only a stored POST of a rotation that landed ends its being behind, and *)
(* then the newest version has its root.                                   *)
LEMMA StepLiveOrBehind ==
  TypeOK /\ Placed /\ Numbered /\ OneAtATime /\ LiveOrBehind /\ [Next]_vars => LiveOrBehind'
<1> SUFFICES ASSUME TypeOK, Placed, Numbered, OneAtATime, LiveOrBehind, [Next]_vars,
                    alone', ~cancelled'
             PROVE  Latest'.root = root' \/ \E r \in Rotations : Behind(r)'
  BY DEF LiveOrBehind
<1>1. alone /\ ~cancelled
  <2>1. CASE Cancels
    BY <2>1 DEF Cancels
  <2>2. CASE ~Cancels
    <3>1. \/ Elsewhere
          \/ \E r \in Rotations :
               \/ Walk(r) \/ SendRoot(r) \/ LandRoot(r) \/ ExpireRoot(r) \/ Confirmed(r)
               \/ Authorize(r) \/ Answered(r) \/ Reject(r) \/ ReadMax(r) \/ Insert(r)
      BY <2>2, NextCases
    <3>2. (alone' = alone \/ alone' = (alone /\ \A q \in Rotations : ~InProgress(q)))
          /\ cancelled' = cancelled
      BY <3>1 DEF Elsewhere, Walk, SendRoot, LandRoot, ExpireRoot, Confirmed,
         Authorize, Answered, Reject, ReadMax, Insert, chain
    <3> QED BY <3>2
  <2> QED BY <2>1, <2>2
<1>2. ASSUME NEW r \in Rotations, Insert(r), Free(post[r].version)
      PROVE  Latest'.root = root'
  <2>1. Latest'.root = visit[r].root
    BY <1>2, SentRoot, InsertedIsLatest DEF Insert, Placed
  <2>2. InProgress(r) /\ tx[r] = "landed"
    BY <1>1, <1>2 DEF Insert, InProgress, Placed, OneAtATime
  <2> QED BY <1>1, <1>2, <2>1, <2>2 DEF OneAtATime, Insert, chain
<1>3. ASSUME NEW r \in Rotations, LandRoot(r) PROVE UNCHANGED root \/ Behind(r)'
  BY <1>3 DEF LandRoot, Behind, Placed, TypeOK
<1>4. UNCHANGED root \/ \E r \in Rotations : Behind(r)'
  BY <1>3, NextCases DEF Elsewhere, Cancels, Walk, SendRoot, ExpireRoot, Confirmed,
     Authorize, Answered, Reject, ReadMax, Insert, chain
<1>5. CASE UNCHANGED <<versions, root>>
  <2>1. ASSUME NEW r \in Rotations, Behind(r) PROVE Behind(r)'
    <3>1. tx'[r] = "landed"
      <4>1. ASSUME NEW q \in Rotations, SendRoot(q) PROVE tx'[r] = "landed"
        BY <2>1, <4>1 DEF SendRoot, Step, Behind, Placed, TypeOK
      <4>2. ASSUME NEW q \in Rotations, LandRoot(q) \/ ExpireRoot(q) PROVE tx'[r] = "landed"
        BY <2>1, <4>2 DEF LandRoot, ExpireRoot, Behind, TypeOK
      <4> QED BY <2>1, <4>1, <4>2, NextCases DEF Elsewhere, Cancels, pages, Walk, Confirmed,
                 Authorize, Answered, Reject, ReadMax, Insert, Behind
    <3>2. post'[r].step # "stored"
      <4>1. ASSUME NEW q \in Rotations, Authorize(q) \/ Reject(q) PROVE post'[r].step # "stored"
        BY <2>1, <4>1 DEF Authorize, Reject, Behind, TypeOK
      <4>2. ASSUME NEW q \in Rotations, ReadMax(q) PROVE post'[r].step # "stored"
        BY <2>1, <4>2 DEF ReadMax, Behind, TypeOK
      <4>3. ASSUME NEW q \in Rotations, Insert(q) PROVE post'[r].step # "stored"
        <5>1. ~Free(post[q].version)
          <6> DEFINE new == [version |-> post[q].version, root |-> visit[q].root]
          <6>1. CASE Free(post[q].version)
            <7>1. new \in versions /\ new.version = post[q].version
              BY <1>5, <4>3, <6>1 DEF Insert
            <7> QED BY <6>1, <7>1 DEF Free
          <6> QED BY <6>1
        <5> QED BY <2>1, <4>3, <5>1 DEF Insert, Behind, TypeOK
      <4> QED BY <2>1, <4>1, <4>2, <4>3, NextCases DEF Elsewhere, Cancels, pages, Walk, SendRoot,
                 LandRoot, ExpireRoot, Confirmed, Answered, Behind
    <3> QED BY <3>1, <3>2 DEF Behind
  <2> QED BY <1>1, <1>5, <2>1 DEF LiveOrBehind, Latest
<1> QED BY <1>2, <1>4, <1>5, StepVersions
-----------------------------------------------------------------------------
(* Whatever turns a claim that was simulated into one that is refused is   *)
(* noted: its leaf was paid from elsewhere, or it was overtaken.           *)
LEMMA OvertakeStands ==
  ASSUME TypeOK, ClaimsStand, NEW bs \in SUBSET Beneficiaries, Overtake(bs),
         \A b \in Beneficiaries \ bs : \A with \in Roots : CanClaim(b, with) => CanClaim(b, with)'
  PROVE  ClaimsStand'
<1> SUFFICES ASSUME NEW b \in Beneficiaries, claim'[b] # None
             PROVE  /\ claim'[b].step = "sent" => Stands(b)'
                    /\ claim'[b].step = "reported" => claim'[b].fate # "simulated"
  BY DEF ClaimsStand
<1> USE AbsenceAssumption
<1>1. CASE b \in bs /\ Sending(b) /\ claim[b].fate = "simulated"
  <2>1. claim'[b] = [claim[b] EXCEPT !.fate = "overtaken"]
    BY <1>1 DEF Overtake
  <2>2. claim'[b].fate = "overtaken"
    BY <1>1, <2>1 DEF TypeOK, Claim, Sending
  <2> QED BY <2>2 DEF Stands
<1>2. CASE ~(b \in bs /\ Sending(b) /\ claim[b].fate = "simulated")
  <2>1. claim'[b] = claim[b] /\ claim[b] # None
    BY <1>2 DEF Overtake
  <2>2. claim[b].step = "sent" /\ claim[b].fate = "simulated" => claim[b].root \in Roots
    BY <2>1 DEF TypeOK, ClaimsStand, Stands, CanClaim
  <2> QED BY <1>2, <2>1, <2>2 DEF ClaimsStand, Stands, Sending
<1> QED BY <1>1, <1>2

LEMMA StepClaimsStand == TypeOK /\ ClaimsStand /\ [Next]_vars => ClaimsStand'
<1> SUFFICES ASSUME TypeOK, ClaimsStand, [Next]_vars PROVE ClaimsStand'
  OBVIOUS
<1> USE AbsenceAssumption
<1>1. CASE UNCHANGED <<root, gate, payable, claim>>
  BY <1>1 DEF ClaimsStand, Stands, CanClaim
<1>2. ASSUME NEW r \in Rotations, LandRoot(r) PROVE ClaimsStand'
  <2>1. CASE CanRotate(visit[r].root)
    BY <1>2, <2>1, OvertakeStands DEF LandRoot
  <2>2. CASE ~CanRotate(visit[r].root)
    BY <1>1, <1>2, <2>2 DEF LandRoot
  <2> QED BY <2>1, <2>2
<1>3. ASSUME NEW b \in Beneficiaries,
             StartClaim(b) \/ LandClaim(b) \/ ExpireClaim(b) \/ ClaimElsewhere(b)
      PROVE ClaimsStand'
  <2>1. /\ UNCHANGED <<root, gate>> /\ payable \ {b} \subseteq payable'
        /\ \A c \in Beneficiaries : c # b => claim'[c] = claim[c]
    BY <1>3 DEF StartClaim, LandClaim, ExpireClaim, ClaimElsewhere, Sending, Pay, chain, TypeOK
  <2>2. \/ claim'[b] = None
        \/ claim'[b].step = "sent" /\ Stands(b)'
        \/ claim'[b].step = "reported" /\ claim'[b].fate # "simulated"
        \/ claim'[b] = claim[b] /\ ~Sending(b)
    <3>1. CASE StartClaim(b)
      <4>1. /\ claim'[b] = [step |-> "sent", root |-> proof[b].root, fate |-> "simulated"]
            /\ CanClaim(b, proof[b].root) /\ UNCHANGED <<root, gate, payable>>
        BY <3>1 DEF StartClaim, Simulates, chain, TypeOK
      <4> QED BY <4>1 DEF Stands, CanClaim
    <3>2. CASE LandClaim(b)
      BY <3>2 DEF LandClaim, Sending, ClaimsStand, Stands, TypeOK
    <3>3. CASE ExpireClaim(b)
      BY <3>3 DEF ExpireClaim, TypeOK
    <3>4. CASE ClaimElsewhere(b)
      <4>1. CASE Sending(b)
        <5>1. claim'[b] = [claim[b] EXCEPT !.fate = "paid"] /\ claim[b] \in Claim
          BY <3>4, <4>1 DEF ClaimElsewhere, Sending, TypeOK
        <5>2. claim'[b].step = "sent" /\ claim'[b].fate = "paid"
          BY <4>1, <5>1 DEF Sending, Claim
        <5> QED BY <5>2 DEF Stands
      <4>2. CASE ~Sending(b)
        BY <3>4, <4>2 DEF ClaimElsewhere
      <4> QED BY <4>1, <4>2
    <3> QED BY <1>3, <3>1, <3>2, <3>3, <3>4
  <2>3. \A c \in Beneficiaries : c # b /\ Stands(c) => Stands(c)' \/ claim[c] = None
    BY <2>1 DEF Stands, CanClaim
  <2> QED BY <2>1, <2>2, <2>3 DEF ClaimsStand, Sending
<1>4. ASSUME NEW b \in Beneficiaries, Replenish(b) PROVE ClaimsStand'
  <2>1. UNCHANGED <<root, gate, claim>> /\ payable \subseteq payable'
    BY <1>4 DEF Replenish, users
  <2> QED BY <2>1 DEF ClaimsStand, Stands, CanClaim
<1>5. ASSUME NEW b \in Beneficiaries, Drain(b) PROVE ClaimsStand'
  <2>1. \A c \in Beneficiaries \ {b} : \A with \in Roots : CanClaim(c, with) => CanClaim(c, with)'
    BY <1>5 DEF Drain, CanClaim
  <2>2. Overtake({b})
    BY <1>5 DEF Drain
  <2> QED BY <2>1, <2>2, OvertakeStands
<1>6. CASE Pause \/ InstantRefund
  BY <1>6, OvertakeStands DEF Pause, InstantRefund
<1>7. CASE Cancel \/ Unpause
  <2>1. UNCHANGED <<root, payable, claim>> /\ gate' = "open"
    BY <1>7 DEF Cancel, Unpause, users
  <2> QED BY <2>1 DEF ClaimsStand, Stands, CanClaim
<1>8. ASSUME NEW b \in Beneficiaries, Serve(b) \/ Receive(b) \/ FetchFails(b) \/ Age(b)
      PROVE ClaimsStand'
  BY <1>1, <1>8 DEF Serve, Receive, FetchFails, Age, chain
<1>9. ASSUME NEW r \in Rotations,
             \/ Walk(r) \/ SendRoot(r) \/ ExpireRoot(r) \/ Confirmed(r) \/ Authorize(r)
             \/ Answered(r) \/ Reject(r) \/ ReadMax(r) \/ Insert(r)
      PROVE ClaimsStand'
  BY <1>1, <1>9 DEF Walk, SendRoot, ExpireRoot, Confirmed, Authorize, Answered, Reject,
     ReadMax, Insert, chain, users
<1>10. CASE UNCHANGED vars
  BY <1>1, <1>10 DEF vars, chain, users
<1> QED BY <1>2, <1>3, <1>4, <1>5, <1>6, <1>7, <1>8, <1>9, <1>10, WalkStep DEF Next

LEMMA OvertakeTypes ==
  ASSUME TypeOK, NEW bs, Overtake(bs)
  PROVE  claim' \in [Beneficiaries -> Claim \cup {None}]
<1>1. ASSUME NEW b \in Beneficiaries, claim[b] # None
      PROVE  [claim[b] EXCEPT !.fate = "overtaken"] \in Claim
  BY <1>1 DEF TypeOK, Claim
<1> QED BY <1>1 DEF Overtake, Sending, TypeOK

(* Every step keeps the types. *)
LEMMA StepTypeOK == TypeOK /\ Placed /\ Numbered /\ [Next]_vars => TypeOK'
<1> SUFFICES ASSUME TypeOK, Placed, Numbered, [Next]_vars PROVE TypeOK'
  OBVIOUS
<1> USE ServiceAssumption, AbsenceAssumption
<1> DEFINE HasRoot(r) == visit[r].root = None => visit[r].step \in {"away", "editing"} /\ tx[r] = "none"
           Others == UNCHANGED <<chain, proof, answer, claim>>
           TxType == tx' \in [Rotations -> {"none", "pending", "landed", "refused", "expired"}]
           PostType == post' \in [Rotations -> [step : {"none", "received", "read", "stored", "rejected"},
                                                version : Nat]]
<1>1. CASE UNCHANGED vars
  BY <1>1 DEF vars, chain, pages, users, TypeOK
<1>2. CASE Cancel \/ Unpause
  BY <1>2 DEF Cancel, Unpause, pages, users, TypeOK
<1>3. ASSUME NEW r \in Rotations, Walk(r) PROVE TypeOK'
  <2>1. visit' \in [Rotations -> Visit]
    BY <1>3 DEF Walk, Walks, Moved
  <2>2. \A q \in Rotations : HasRoot(q)'
    <3>1. tx' = tx /\ \A q \in Rotations : q # r => visit'[q] = visit[q]
      BY <1>3 DEF Walk, Walks, Moved
    <3>2. \A q \in Rotations : HasRoot(q)
      BY DEF TypeOK
    <3>3. HasRoot(r)'
      BY <1>3, <3>1, <3>2 DEF Walk, Walks, Moved, Placed
    <3> QED BY <3>1, <3>2, <3>3
  <2> QED BY <1>3, <2>1, <2>2 DEF Walk, chain, users, TypeOK
<1>4. ASSUME NEW r \in Rotations, SendRoot(r) PROVE TypeOK'
  <2>1. Moved(r, "confirm", visit[r].told) /\ visit[r].step = "wallet"
    BY <1>4, StepMoves DEF SendRoot, Steps
  <2>2. TxType /\ (\A q \in Rotations : q # r => tx'[q] = tx[q]) /\ alone' \in BOOLEAN
    BY <1>4 DEF SendRoot, TypeOK
  <2>3. \A q \in Rotations : HasRoot(q)'
    <3>1. \A q \in Rotations : HasRoot(q)
      BY DEF TypeOK
    <3> QED BY <2>1, <2>2, <3>1 DEF Moved
  <2> QED BY <1>4, <2>1, <2>2, <2>3 DEF SendRoot, Moved, chain, users, TypeOK
<1>5. ASSUME NEW r \in Rotations, LandRoot(r) PROVE TypeOK'
  <2>1. visit[r].root \in Roots /\ TxType /\ \A q \in Rotations : q # r => tx'[q] = tx[q]
    BY <1>5, SentRoot DEF LandRoot, TypeOK
  <2>2. \A q \in Rotations : HasRoot(q)'
    <3>1. (\A q \in Rotations : HasRoot(q)) /\ visit[r].root # None
      BY <2>1 DEF TypeOK
    <3>2. visit' = visit
      BY <1>5 DEF LandRoot
    <3> QED BY <2>1, <3>1, <3>2
  <2>3. payable' \subseteq Beneficiaries /\ claim' \in [Beneficiaries -> Claim \cup {None}]
    BY <1>5, OvertakeTypes DEF LandRoot, TypeOK
  <2> QED BY <1>5, <2>1, <2>2, <2>3 DEF LandRoot, users, TypeOK
<1>6. ASSUME NEW r \in Rotations, ExpireRoot(r) PROVE TypeOK'
  <2>1. TxType /\ \A q \in Rotations : q # r => tx'[q] = tx[q]
    BY <1>6 DEF ExpireRoot, TypeOK
  <2>2. \A q \in Rotations : HasRoot(q)'
    BY <1>6, <2>1 DEF ExpireRoot, TypeOK
  <2> QED BY <1>6, <2>1, <2>2 DEF ExpireRoot, chain, users, TypeOK
<1>7. ASSUME NEW r \in Rotations, Confirmed(r) PROVE TypeOK'
  <2>1. Moved(r, "authorize", visit[r].told) /\ visit[r].step = "confirm"
    BY <1>7, StepMoves DEF Confirmed, Steps
  <2>2. proof' \in [Beneficiaries -> Cached \cup {None}]
    <3>1. ASSUME NEW b \in Beneficiaries, proof[b] # None
          PROVE [proof[b] EXCEPT !.fresh = FALSE] \in Cached
      BY <3>1 DEF TypeOK, Cached
    <3> QED BY <1>7, <3>1 DEF Confirmed, TypeOK
  <2>3. \A q \in Rotations : HasRoot(q)'
    BY <1>7, <2>1 DEF Confirmed, Moved, TypeOK
  <2> QED BY <1>7, <2>1, <2>2, <2>3 DEF Confirmed, Moved, chain, TypeOK
<1>8. ASSUME NEW r \in Rotations, Authorize(r) PROVE TypeOK'
  <2>1. Moved(r, "post", visit[r].told) /\ visit[r].step = "authorize"
    BY <1>8, StepMoves DEF Authorize, Steps
  <2>2. PostType
    BY <1>8 DEF Authorize, TypeOK
  <2>3. \A q \in Rotations : HasRoot(q)'
    BY <1>8, <2>1 DEF Authorize, Moved, TypeOK
  <2> QED BY <1>8, <2>1, <2>2, <2>3 DEF Authorize, Moved, chain, users, TypeOK
<1>9. ASSUME NEW r \in Rotations, Answered(r), post[r].step = "stored" PROVE TypeOK'
  <2>1. Moved(r, "over", "updated") /\ visit[r].step = "post"
    BY <1>9, EndMoves DEF Answered, VerdictOf, Tales
  <2>2. \A q \in Rotations : HasRoot(q)'
    BY <1>9, <2>1 DEF Answered, Moved, TypeOK
  <2> QED BY <1>9, <2>1, <2>2 DEF Answered, Moved, chain, users, TypeOK
<1>10. ASSUME NEW r \in Rotations, Reject(r) \/ ReadMax(r) PROVE TypeOK'
  <2>1. PostType
    <3>1. CASE Reject(r)
      BY <3>1, PostMoves DEF Reject, PostMoved
    <3>2. CASE ReadMax(r)
      BY <3>2, NewestIsMember DEF ReadMax, TypeOK
    <3> QED BY <1>10, <3>1, <3>2
  <2> QED BY <1>10, <2>1 DEF Reject, ReadMax, chain, users, TypeOK
<1>11. ASSUME NEW r \in Rotations, Insert(r) PROVE TypeOK'
  <2>1. visit[r].root \in Roots
    BY <1>11, SentRoot DEF Insert, Placed
  <2>2. PostType
    <3>1. PICK step \in {"stored", "rejected"} : post' = [post EXCEPT ![r].step = step]
      BY <1>11 DEF Insert
    <3> QED BY <3>1, PostMoves DEF PostMoved
  <2>3. Free(post[r].version) => versions' \subseteq [version : Nat \ {0}, root : Roots]
    <3>1. post[r].version \in Nat \ {0}
      BY <1>11, NewestIsMember DEF Insert, Numbered
    <3> QED BY <1>11, <2>1, <3>1 DEF Insert, TypeOK
  <2> QED BY <1>11, <2>2, <2>3 DEF Insert, chain, users, TypeOK
<1>12. ASSUME NEW b \in Beneficiaries, Serve(b) PROVE TypeOK'
  <2>1. ServedVersion.root \in Roots
    BY NewestIsMember DEF ServedVersion, TypeOK
  <2>2. answer' \in [Beneficiaries -> Answer \cup {None}]
    BY <1>12, <2>1 DEF Serve, Answer, TypeOK
  <2> QED BY <1>12, <2>2 DEF Serve, chain, pages, TypeOK
<1>13. ASSUME NEW b \in Beneficiaries, Receive(b) PROVE TypeOK'
  <2>1. [root |-> answer[b].root, fresh |-> TRUE] \in Cached
    BY <1>13 DEF Receive, Answer, Cached, TypeOK
  <2> QED BY <1>13, <2>1 DEF Receive, chain, pages, TypeOK
<1>14. ASSUME NEW b \in Beneficiaries, FetchFails(b) PROVE TypeOK'
  BY <1>14 DEF FetchFails, chain, pages, TypeOK
<1>15. ASSUME NEW b \in Beneficiaries, Age(b) PROVE TypeOK'
  <2>1. [proof[b] EXCEPT !.fresh = FALSE] \in Cached
    BY <1>15 DEF Age, Cached, TypeOK
  <2> QED BY <1>15, <2>1 DEF Age, chain, pages, TypeOK
<1>16. ASSUME NEW b \in Beneficiaries, StartClaim(b) PROVE TypeOK'
  <2>1. [step |-> "sent", root |-> proof[b].root, fate |-> "simulated"] \in Claim
    BY <1>16 DEF StartClaim, Claim, Cached, TypeOK
  <2> QED BY <1>16, <2>1 DEF StartClaim, chain, pages, TypeOK
<1>17. ASSUME NEW b \in Beneficiaries, LandClaim(b) \/ ClaimElsewhere(b) PROVE TypeOK'
  <2>1. /\ Sending(b) => [claim[b] EXCEPT !.fate = "paid"] \in Claim
        /\ Sending(b) => [step |-> "reported", root |-> None, fate |-> claim[b].fate] \in Claim
        /\ [step |-> "reported", root |-> None, fate |-> "paid"] \in Claim
    BY DEF Sending, Claim, TypeOK
  <2>2. claim' \in [Beneficiaries -> Claim \cup {None}]
    BY <1>17, <2>1 DEF LandClaim, ClaimElsewhere, TypeOK
  <2>3. claimed' \subseteq Beneficiaries /\ payable' \subseteq Beneficiaries
    BY <1>17 DEF LandClaim, ClaimElsewhere, Pay, TypeOK
  <2> QED BY <1>17, <2>2, <2>3 DEF LandClaim, ClaimElsewhere, chain, pages, TypeOK
<1>18. ASSUME NEW b \in Beneficiaries, ExpireClaim(b) PROVE TypeOK'
  BY <1>18 DEF ExpireClaim, chain, pages, TypeOK
<1>19. ASSUME NEW b \in Beneficiaries, Replenish(b) \/ Drain(b) PROVE TypeOK'
  BY <1>19, OvertakeTypes DEF Replenish, Drain, pages, users, TypeOK
<1>20. CASE Pause \/ InstantRefund
  BY <1>20, OvertakeTypes DEF Pause, InstantRefund, pages, TypeOK
<1>21. ASSUME NEW r \in Rotations, Answered(r) PROVE TypeOK'
  BY <1>3, <1>9, <1>21, WalkStep DEF Answered
<1> QED BY <1>1, <1>2, <1>3, <1>4, <1>5, <1>6, <1>7, <1>8, <1>10, <1>11, <1>12, <1>13,
           <1>14, <1>15, <1>16, <1>17, <1>18, <1>19, <1>20, <1>21, WalkStep DEF Next
-----------------------------------------------------------------------------
(* The invariant, and what follows from it. *)
THEOREM ServiceInvariant == Spec => []IInv
<1>1. IInv /\ [Next]_vars => IInv'
  BY StepTypeOK, StepNumbered, StepPlaced, StepOneAtATime, StepLiveOrBehind, StepClaimsStand
     DEF IInv
<1> QED BY <1>1, InitIInv, PTL DEF Spec

(* Pages, requests, versions, cached proofs and claims keep their types. *)
THEOREM ServiceTypeCorrect == Spec => []TypeOK
<1>1. IInv => TypeOK
  BY DEF IInv
<1> QED BY <1>1, ServiceInvariant, PTL

(* However many rotations are posted at once, versions are numbered from 1 *)
(* without gap or repetition.                                              *)
THEOREM VersionsAreNumbered == Spec => []VersionsInOrder
<1>1. IInv => VersionsInOrder
  BY NewestIsMember DEF IInv
<1> QED BY <1>1, ServiceInvariant, PTL

(* Only what the chain has processed is posted, and it was refused there   *)
(* only if something overtook it.                                          *)
THEOREM PostsFollowTheChain == Spec => []PostedAfterChain
<1>1. IInv => PostedAfterChain
  BY DEF IInv, Placed, OneAtATime, PostedAfterChain
<1> QED BY <1>1, ServiceInvariant, PTL

(* Without overlap and cancellation, a page that said "updated" for every  *)
(* rotation that landed has left the live root the newest.                 *)
THEOREM UpdatedMeansLive == Spec => []NewestIsLive
<1>1. IInv => NewestIsLive
  BY DEF IInv, Placed, LiveOrBehind, Behind, NewestIsLive
<1> QED BY <1>1, ServiceInvariant, PTL

(* A claim said to have succeeded left its beneficiary paid, by itself or  *)
(* from another tab, unless something overtook it after its simulation.    *)
THEOREM ReportsArePaid == Spec => []ReportedIsPaid
<1>1. IInv => ReportedIsPaid
  BY DEF IInv, TypeOK, Claim, ClaimsStand, ReportedIsPaid
<1> QED BY <1>1, ServiceInvariant, PTL
=============================================================================
