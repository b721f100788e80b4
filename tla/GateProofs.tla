----------------------------- MODULE GateProofs -----------------------------
(***************************************************************************)
(* Theorems about Gate: a nonce opens a route once, a header lasts no      *)
(* longer than its nonce, no counter lets through more than its quota, and *)
(* who is prompt is served, for any number of instances, requests,         *)
(* browsers and nonces, and at any times.                                  *)
(***************************************************************************)
EXTENDS GateProperties, FiniteSetTheorems, TLAPS

(* A nonce is in one store at most, or with one request at most, or spent  *)
(* for good.                                                               *)
Verifying(r, n) == At(r, "verify") /\ request[r].nonce = n

OnePlace ==
    /\ \A n \in Nonces, p, q \in Places :
         store[p][n] # None => /\ n \notin spent
                               /\ store[q][n] # None => p = q
    /\ \A n \in Nonces, r, q \in Requests :
         Verifying(r, n) => /\ n \in spent
                            /\ Verifying(q, n) => r = q
    /\ \A a \in accepted : /\ a.nonce \in spent
                           /\ \A r \in Requests : ~Verifying(r, a.nonce)

(* Only what was issued is stored or spent, and it expires in time.        *)
Dated ==
    /\ \A n \in Nonces : issued[n] = None =>
         n \notin spent /\ draft[n] = None /\ \A p \in Places : store[p][n] = None
    /\ \A n \in Nonces, p \in Places :
         store[p][n] # None => store[p][n] = issued[n] + NonceTTL
    /\ \A n \in Nonces : issued[n] # None => issued[n] <= now
    /\ \A n \in Nonces : draft[n] # None => issued[n] <= draft[n].at

(* Only signed headers arrive, and a request that verifies took its nonce  *)
(* in time.                                                                *)
Signed ==
    \A r \in Requests : request[r] # Idle /\ request[r].nonce # None =>
        LET n == request[r].nonce IN
        /\ draft[n] # None /\ draft[n].signer # None
        /\ request[r].step = "verify" => request[r].taken < issued[n] + NonceTTL

AcceptedSigned ==
    \A a \in accepted : draft[a.nonce] # None /\ draft[a.nonce].signer # None

IInv == TypeOK /\ OnePlace /\ Dated /\ Signed /\ AcceptedSigned /\ NonceUsedOnce /\ HeaderExpires
-----------------------------------------------------------------------------
(* The first state has no nonce and no request. *)
LEMMA InitIInv == Init => IInv
<1> SUFFICES ASSUME Init PROVE IInv
  OBVIOUS
<1> USE GateAssumption, AbsenceAssumption DEF Init
<1>1. TypeOK
  BY DEF TypeOK, Places, Keys, At
<1>2. OnePlace
  BY DEF OnePlace, Verifying, At
<1>3. Dated /\ Signed /\ AcceptedSigned /\ NonceUsedOnce /\ HeaderExpires
  BY DEF Dated, Signed, AcceptedSigned, NonceUsedOnce, HeaderExpires
<1> QED BY <1>1, <1>2, <1>3 DEF IInv

(* What the steps of a request do to the requests in progress. *)
LEMMA LeaveType ==
  ASSUME TypeOK, NEW r \in Requests, Leave(r)
  PROVE  /\ request' \in [Requests -> InProgress \cup {Idle}]
         /\ \A q \in Requests : q # r => request'[q] = request[q]
         /\ request'[r] = Idle
         /\ \A q \in Requests : At(q, "take")' \/ At(q, "verify")' => request'[q].nonce # None
<1>1. /\ request' \in [Requests -> InProgress \cup {Idle}]
      /\ \A q \in Requests : q # r => request'[q] = request[q]
      /\ request'[r] = Idle
  BY DEF Leave, TypeOK
<1> QED BY <1>1 DEF TypeOK, At

LEMMA ProceedType ==
  ASSUME TypeOK, NEW r \in Requests, At(r, "limit"), Proceed(r)
  PROVE  /\ request' \in [Requests -> InProgress \cup {Idle}]
         /\ \A q \in Requests : q # r => request'[q] = request[q]
         /\ request'[r] \in InProgress /\ request'[r].nonce = request[r].nonce
         /\ request'[r].step \in {"issue", "take"}
         /\ \A q \in Requests : At(q, "take")' \/ At(q, "verify")' => request'[q].nonce # None
<1>1. request[r] \in InProgress
  BY DEF TypeOK, At
<1>2. request'[r] = [request[r] EXCEPT !.step = IF request[r].nonce = None THEN "issue" ELSE "take"]
  BY DEF TypeOK, Proceed
<1>3. /\ request'[r] \in InProgress /\ request'[r].nonce = request[r].nonce
      /\ request'[r].step = IF request[r].nonce = None THEN "issue" ELSE "take"
  BY <1>1, <1>2 DEF InProgress
<1>4. \A q \in Requests : q # r => request'[q] = request[q]
  BY DEF TypeOK, Proceed
<1>5. request' \in [Requests -> InProgress \cup {Idle}]
  BY <1>3 DEF TypeOK, Proceed
<1> QED BY <1>3, <1>4, <1>5 DEF TypeOK, At

LEMMA WithoutType ==
  ASSUME TypeOK, NEW p \in Places, NEW n \in Nonces
  PROVE  /\ Without(p, n) \in [Places -> [Nonces -> Nat \cup {None}]]
         /\ Without(p, n)[p][n] = None
         /\ \A q \in Places, m \in Nonces :
              <<q, m>> # <<p, n>> => Without(p, n)[q][m] = store[q][m]
BY DEF Without, TypeOK

(* A request at "take" or "verify" has a nonce, and a place to look it up. *)
LEMMA AtType ==
  ASSUME TypeOK, NEW r \in Requests, At(r, "take") \/ At(r, "verify")
  PROVE  /\ request[r] \in InProgress /\ request[r].nonce \in Nonces
         /\ PlaceOf(r) \in Places
BY DEF TypeOK, At, InProgress, PlaceOf, Places

(* Every step keeps the types. *)
LEMMA TypeStep == TypeOK /\ [Next]_vars => TypeOK'
<1> SUFFICES ASSUME TypeOK, [Next]_vars PROVE TypeOK'
  OBVIOUS
<1> USE GateAssumption
<1>1. CASE Tick
  BY <1>1 DEF Tick, server, history, TypeOK, At
<1>2. ASSUME NEW n \in Nonces, NEW w \in Wallets, NEW skew \in Skews, Compose(n, w, skew)
      PROVE TypeOK'
  BY <1>2 DEF Compose, server, history, Message, TypeOK, At
<1>3. ASSUME NEW n \in Nonces, NEW w \in Wallets, Sign(n, w) PROVE TypeOK'
  BY <1>3 DEF Sign, server, history, Message, TypeOK, At
<1>4. ASSUME NEW i \in Instances, Reboot(i) PROVE TypeOK'
  BY <1>4 DEF Reboot, Places, TypeOK, At
<1>5. ASSUME NEW r \in Requests, NEW i \in Instances, NEW c \in Clients,
             NEW n \in Nonces \cup {None}, Arrive(r, i, c, n)
      PROVE TypeOK'
  BY <1>5 DEF Arrive, InProgress, TypeOK, At
<1>6. ASSUME NEW r \in Requests, RateLimit(r) PROVE TypeOK'
  <2> USE <1>6
  <2>1. request[r] \in InProgress /\ Key(r) \in Keys
    BY AbsenceAssumption DEF RateLimit, At, InProgress, Key, Keys, TypeOK
  <2>2. Proceed(r) \/ Leave(r)
    BY DEF RateLimit, SharedLimit, MemoryLimit, Verdict
  <2>3. /\ request' \in [Requests -> InProgress \cup {Idle}]
        /\ \A q \in Requests : At(q, "take")' \/ At(q, "verify")' => request'[q].nonce # None
    BY <2>2, LeaveType, ProceedType DEF RateLimit
  <2>4. /\ counter' \in [Keys -> [window : Nat, count : Nat]]
        /\ bucket' \in [Instances -> [Keys -> Bucket \cup {None}]]
    <3>1. CASE SharedLimit(r)
      <4>1. now \in Nat /\ Window \in Nat \ {0}
        BY DEF TypeOK
      <4>2. now \div Window \in Nat
        BY <4>1, Z3
      <4> QED BY <2>1, <3>1, <4>2 DEF SharedLimit, TypeOK
    <3>2. CASE MemoryLimit(r)
      <4> DEFINE i == request[r].instance
                 b == bucket[i][Key(r)]
      <4>1. i \in Instances /\ b \in Bucket \cup {None}
        BY <2>1 DEF InProgress, TypeOK
      <4>2. [count |-> 1, reset |-> now + Window] \in Bucket
        BY DEF Bucket, TypeOK
      <4>3. b # None => Counted(b) \in Bucket
        BY <4>1 DEF Counted, Bucket
      <4>4. \E new \in Bucket \cup {None} : bucket' = [bucket EXCEPT ![i][Key(r)] = new]
        BY <4>1, <4>2, <4>3, <3>2 DEF MemoryLimit
      <4> QED BY <2>1, <4>1, <4>4, <3>2 DEF MemoryLimit, TypeOK
    <3> QED BY <3>1, <3>2 DEF RateLimit
  <2> QED BY <2>3, <2>4 DEF RateLimit, TypeOK
<1>7. ASSUME NEW r \in Requests, NEW n \in Nonces, IssueNonce(r, n) PROVE TypeOK'
  <2>1. PlaceOf(r) \in Places
    BY <1>7 DEF TypeOK, IssueNonce, At, InProgress, PlaceOf, Places
  <2>2. store' \in [Places -> [Nonces -> Nat \cup {None}]]
    BY <1>7, <2>1 DEF TypeOK, IssueNonce
  <2> QED BY <1>7, <2>2, LeaveType DEF TypeOK, IssueNonce
<1>8. ASSUME NEW r \in Requests, LoseNonce(r) PROVE TypeOK'
  BY <1>8, LeaveType DEF LoseNonce, TypeOK
<1>9. ASSUME NEW r \in Requests, TakeNonce(r) PROVE TypeOK'
  <2> DEFINE n == request[r].nonce
  <2>1. request[r] \in InProgress /\ n \in Nonces /\ PlaceOf(r) \in Places
    BY <1>9, AtType DEF TakeNonce
  <2>2. CASE Held(PlaceOf(r), n)
    <3>1. /\ request' = [request EXCEPT ![r].step = "verify", ![r].taken = now]
          /\ store' = Without(PlaceOf(r), n) /\ spent' = spent \cup {n}
      BY <1>9, <2>2 DEF TakeNonce
    <3>2. request'[r] = [request[r] EXCEPT !.step = "verify", !.taken = now]
      BY <3>1 DEF TypeOK
    <3>. now \in Nat
      BY GateAssumption DEF TypeOK
    <3>3. request'[r] \in InProgress /\ request'[r].nonce = n
      BY <2>1, <3>2 DEF InProgress
    <3>4. \A q \in Requests : q # r => request'[q] = request[q]
      BY <3>1 DEF TypeOK
    <3>5. request' \in [Requests -> InProgress \cup {Idle}]
      BY <3>1, <3>3, <3>4 DEF TypeOK
    <3>6. \A q \in Requests : At(q, "take")' \/ At(q, "verify")' => request'[q].nonce # None
      BY <2>1, <3>3, <3>4 DEF TypeOK, At
    <3> QED BY <1>9, <2>1, <3>1, <3>5, <3>6, WithoutType DEF TakeNonce, TypeOK
  <2>3. CASE ~Held(PlaceOf(r), n)
    BY <1>9, <2>3, LeaveType DEF TakeNonce, TypeOK
  <2> QED BY <2>2, <2>3
<1>10. ASSUME NEW r \in Requests, TakeFails(r) PROVE TypeOK'
  BY <1>10, LeaveType, AtType, WithoutType DEF TakeFails, TypeOK, Places
<1>11. ASSUME NEW r \in Requests, Verify(r) PROVE TypeOK'
  BY <1>11, LeaveType, AtType DEF Verify, TypeOK
<1>12. CASE UNCHANGED vars
  BY <1>12 DEF vars, server, history, TypeOK, At
<1> QED
  BY <1>1, <1>2, <1>3, <1>4, <1>5, <1>6, <1>7, <1>8, <1>9, <1>10, <1>11, <1>12
  DEF Next, AskNonce, SendHeader
-----------------------------------------------------------------------------
Inv == OnePlace /\ Dated /\ Signed /\ AcceptedSigned /\ NonceUsedOnce /\ HeaderExpires

(* Steps that leave nonces and messages alone, and bring no request to its *)
(* verification.                                                           *)
LEMMA QuietStep ==
  ASSUME IInv, TypeOK', now' \in {now, now + 1}, UNCHANGED <<store, issued, spent, accepted, draft>>,
         \A q \in Requests : \/ request'[q] = Idle
                            \/ request'[q] = request[q]
                            \/ /\ request'[q].step # "verify"
                               /\ request'[q].nonce # None =>
                                    /\ request'[q].nonce \in Nonces
                                    /\ draft[request'[q].nonce] # None
                                    /\ draft[request'[q].nonce].signer # None
  PROVE  Inv'
<1> USE DEF IInv
<1>1. \A q \in Requests, n \in Nonces : Verifying(q, n)' => Verifying(q, n)
  BY DEF Verifying, At
<1>2. OnePlace'
  BY <1>1 DEF OnePlace, TypeOK
<1>3. Signed'
  BY DEF Signed
<1>4. Dated'
  <2>1. now \in Nat /\ \A n \in Nonces : issued[n] \in Nat \cup {None}
    BY GateAssumption DEF TypeOK
  <2> QED BY <2>1 DEF Dated
<1> QED BY <1>2, <1>3, <1>4 DEF Inv, AcceptedSigned, NonceUsedOnce, HeaderExpires

(* Every step keeps the invariant. *)
LEMMA InvStep == IInv /\ [Next]_vars => IInv'
<1> SUFFICES ASSUME IInv, [Next]_vars PROVE IInv'
  OBVIOUS
<1>0. TypeOK /\ TypeOK'
  BY TypeStep DEF IInv
<1> SUFFICES Inv'
  BY <1>0 DEF IInv, Inv
<1> USE GateAssumption
<1>1. CASE Tick \/ UNCHANGED vars
  BY <1>0, <1>1, QuietStep DEF Tick, vars, server, history
<1>2. ASSUME NEW n \in Nonces, NEW w \in Wallets, NEW skew \in Skews, Compose(n, w, skew)
      PROVE Inv'
  <2> DEFINE message == [timestamp |-> now + skew, wallet |-> w, signer |-> None, at |-> now]
  <2>1. /\ UNCHANGED <<now, store, issued, spent, accepted, request>>
        /\ issued[n] # None /\ draft[n] = None /\ draft' = [draft EXCEPT ![n] = message]
    BY <1>2 DEF Compose, server, history
  <2>2. /\ draft'[n].at = now /\ issued[n] <= now
        /\ \A m \in Nonces : m # n => draft'[m] = draft[m]
    BY <1>0, <2>1 DEF TypeOK, IInv, Dated
  <2>3. OnePlace'
    BY <2>1 DEF IInv, OnePlace, Verifying, At
  <2>4. Dated'
    BY <2>1, <2>2 DEF IInv, Dated
  <2>5. Signed'
    BY <1>0, <2>1, <2>2 DEF IInv, Signed, TypeOK, InProgress
  <2>6. \A a \in accepted : a.nonce \in Nonces /\ a.nonce # n
    BY <1>0, <2>1 DEF IInv, AcceptedSigned, TypeOK
  <2> QED
    BY <2>1, <2>2, <2>3, <2>4, <2>5, <2>6
    DEF IInv, Inv, AcceptedSigned, NonceUsedOnce, HeaderExpires
<1>3. ASSUME NEW n \in Nonces, NEW w \in Wallets, Sign(n, w) PROVE Inv'
  <2>1. /\ UNCHANGED <<now, store, issued, spent, accepted, request>>
        /\ draft[n] # None /\ draft[n].signer = None
        /\ draft' = [draft EXCEPT ![n].signer = w]
    BY <1>3 DEF Sign, server, history
  <2>2. draft[n] \in Message /\ draft'[n] = [draft[n] EXCEPT !.signer = w]
    BY <1>0, <2>1 DEF TypeOK
  <2>3. draft'[n] \in Message /\ draft'[n].signer # None /\ draft'[n].at = draft[n].at
    BY <2>2 DEF Message
  <2>4. \A m \in Nonces : m # n => draft'[m] = draft[m]
    BY <1>0, <2>1 DEF TypeOK
  <2>5. OnePlace'
    BY <2>1 DEF IInv, OnePlace, Verifying, At
  <2>6. Dated'
    BY <2>1, <2>3, <2>4 DEF IInv, Dated
  <2>7. Signed'
    BY <1>0, <2>1, <2>3, <2>4, AbsenceAssumption DEF IInv, Signed, TypeOK, InProgress
  <2>8. \A a \in accepted : a.nonce \in Nonces /\ a.nonce # n
    BY <1>0, <2>1 DEF IInv, AcceptedSigned, TypeOK
  <2> QED
    BY <2>1, <2>4, <2>5, <2>6, <2>7, <2>8
    DEF IInv, Inv, AcceptedSigned, NonceUsedOnce, HeaderExpires
<1>4. ASSUME NEW i \in Instances, Reboot(i) PROVE Inv'
  <2>1. /\ UNCHANGED <<now, issued, spent, accepted, draft>>
        /\ \A p \in Places, n \in Nonces : store'[p][n] \in {None, store[p][n]}
        /\ \A q \in Requests : request'[q] \in {Idle, request[q]}
    BY <1>0, <1>4 DEF Reboot, TypeOK
  <2>2. \A q \in Requests, n \in Nonces : Verifying(q, n)' => Verifying(q, n)
    BY <2>1 DEF Verifying, At
  <2>3. OnePlace'
    BY <1>0, <2>1, <2>2 DEF IInv, OnePlace, TypeOK
  <2>4. Dated'
    BY <2>1 DEF IInv, Dated
  <2> QED
    BY <2>1, <2>3, <2>4 DEF IInv, Inv, Signed, AcceptedSigned, NonceUsedOnce, HeaderExpires
<1>5. ASSUME NEW r \in Requests, NEW i \in Instances, NEW c \in Clients,
             NEW n \in Nonces \cup {None}, Arrive(r, i, c, n),
             n # None => draft[n] # None /\ draft[n].signer # None
      PROVE Inv'
  BY <1>0, <1>5, QuietStep DEF Arrive, TypeOK
<1>6. ASSUME NEW r \in Requests, RateLimit(r) PROVE Inv'
  <2>1. At(r, "limit") /\ (Proceed(r) \/ Leave(r))
    BY <1>6 DEF RateLimit, SharedLimit, MemoryLimit, Verdict
  <2>2. CASE Proceed(r)
    <3>1. /\ \A q \in Requests : q # r => request'[q] = request[q]
          /\ request'[r].nonce = request[r].nonce /\ request'[r].step # "verify"
      BY <1>0, <2>1, <2>2, ProceedType
    <3>2. request[r].nonce # None => request[r].nonce \in Nonces
      BY <1>0, <2>1 DEF TypeOK, At, InProgress
    <3> QED BY <1>0, <1>6, <2>1, <3>1, <3>2, QuietStep DEF RateLimit, At, IInv, Signed
  <2>3. CASE Leave(r)
    BY <1>0, <1>6, <2>3, LeaveType, QuietStep DEF RateLimit
  <2> QED BY <2>1, <2>2, <2>3
<1>7. ASSUME NEW r \in Requests, NEW n \in Nonces, IssueNonce(r, n) PROVE Inv'
  <2>1. PlaceOf(r) \in Places
    BY <1>0, <1>7 DEF TypeOK, IssueNonce, At, InProgress, PlaceOf, Places
  <2>2. /\ UNCHANGED <<spent, accepted, draft>>
        /\ issued[n] = None /\ issued' = [issued EXCEPT ![n] = now]
        /\ store' = [store EXCEPT ![PlaceOf(r)][n] = now + NonceTTL]
        /\ \A q \in Requests : request'[q] \in {Idle, request[q]}
    BY <1>0, <1>7, LeaveType DEF IssueNonce
  <2>3. /\ n \notin spent /\ draft[n] = None /\ \A p \in Places : store[p][n] = None
    BY <2>2 DEF IInv, Dated
  <2>4. /\ UNCHANGED now
        /\ \A p \in Places, m \in Nonces :
             store'[p][m] = IF p = PlaceOf(r) /\ m = n THEN now + NonceTTL ELSE store[p][m]
        /\ \A m \in Nonces : issued'[m] = IF m = n THEN now ELSE issued[m]
        /\ now + NonceTTL \in Nat /\ now \in Nat
    BY <1>0, <1>7, <2>1, <2>2 DEF TypeOK, IssueNonce
  <2>5. \A q \in Requests, m \in Nonces : Verifying(q, m)' => Verifying(q, m)
    BY <2>2 DEF Verifying, At
  <2>6. OnePlace'
    BY <1>0, <2>2, <2>3, <2>4, <2>5 DEF IInv, OnePlace, TypeOK
  <2>7. Dated'
    BY <1>0, <2>2, <2>3, <2>4 DEF IInv, Dated, TypeOK
  <2>8. Signed'
    <3> SUFFICES ASSUME NEW q \in Requests, request[q] # Idle, request[q].nonce # None,
                        request'[q] = request[q]
                 PROVE  LET m == request[q].nonce IN
                        /\ draft[m] # None /\ draft[m].signer # None
                        /\ request[q].step = "verify" => request[q].taken < issued'[m] + NonceTTL
      BY <2>2 DEF Signed
    <3>1. request[q].nonce \in Nonces
      BY <1>0 DEF TypeOK, InProgress
    <3> QED BY <2>3, <2>4, <3>1 DEF IInv, Signed
  <2> QED BY <2>2, <2>6, <2>7, <2>8 DEF IInv, Inv, AcceptedSigned, NonceUsedOnce, HeaderExpires
<1>8. ASSUME NEW r \in Requests, LoseNonce(r) PROVE Inv'
  BY <1>0, <1>8, LeaveType, QuietStep DEF LoseNonce
<1>9. ASSUME NEW r \in Requests, TakeNonce(r) \/ TakeFails(r) PROVE Inv'
  <2> DEFINE n == request[r].nonce
  <2>1. At(r, "take") /\ n \in Nonces /\ PlaceOf(r) \in Places
    BY <1>0, <1>9, AtType DEF TakeNonce, TakeFails
  <2>2. CASE Leave(r) /\ UNCHANGED <<store, spent>>
    BY <1>0, <1>9, <2>2, LeaveType, QuietStep DEF TakeNonce, TakeFails
  <2>3. CASE /\ Held(PlaceOf(r), n)
             /\ store' = Without(PlaceOf(r), n) /\ spent' = spent \cup {n}
             /\ Leave(r) \/ request' = [request EXCEPT ![r].step = "verify", ![r].taken = now]
    <3>1. UNCHANGED <<now, issued, draft, accepted>>
      BY <1>9 DEF TakeNonce, TakeFails
    <3>2. /\ store[PlaceOf(r)][n] # None /\ now < store[PlaceOf(r)][n] /\ n \notin spent
          /\ store[PlaceOf(r)][n] = issued[n] + NonceTTL /\ issued[n] # None
      BY <2>1, <2>3, <1>0 DEF Held, IInv, Dated, OnePlace, TypeOK
    <3>3. \A p \in Places, m \in Nonces :
            store'[p][m] = IF p = PlaceOf(r) /\ m = n THEN None ELSE store[p][m]
      BY <1>0, <2>1, <2>3, WithoutType
    <3>4. \A p \in Places : store'[p][n] = None
      BY <2>1, <3>2, <3>3 DEF IInv, OnePlace
    <3>5. /\ \A q \in Requests : q # r => request'[q] = request[q]
          /\ \/ request'[r] = Idle
             \/ /\ request'[r].step = "verify" /\ request'[r].taken = now
                /\ request'[r].nonce = n
      <4>1. CASE Leave(r)
        BY <1>0, <4>1, LeaveType
      <4>2. CASE request' = [request EXCEPT ![r].step = "verify", ![r].taken = now]
        <5>1. request[r] \in InProgress
          BY <1>0, <2>1 DEF TypeOK, At
        <5>2. request'[r] = [request[r] EXCEPT !.step = "verify", !.taken = now]
          BY <1>0, <4>2 DEF TypeOK
        <5>3. \A q \in Requests : q # r => request'[q] = request[q]
          BY <1>0, <4>2 DEF TypeOK
        <5> QED BY <5>1, <5>2, <5>3 DEF InProgress
      <4> QED BY <2>3, <4>1, <4>2
    <3>6. \A q \in Requests, m \in Nonces :
            Verifying(q, m)' => (q = r /\ m = n) \/ Verifying(q, m)
      BY <3>5 DEF Verifying, At
    <3>7. \A q \in Requests : ~Verifying(q, n)
      BY <2>1, <3>2 DEF IInv, OnePlace
    <3>8. OnePlace'
      <4>1. \A m \in Nonces, p, q \in Places :
              store'[p][m] # None => m \notin spent' /\ (store'[q][m] # None => p = q)
        BY <2>1, <2>3, <3>3, <3>4 DEF IInv, OnePlace
      <4>2. \A m \in Nonces, p, q \in Requests :
              Verifying(p, m)' => m \in spent' /\ (Verifying(q, m)' => p = q)
        BY <2>1, <2>3, <3>6, <3>7 DEF IInv, OnePlace
      <4>3. \A a \in accepted : a.nonce \in spent'
                               /\ \A q \in Requests : ~Verifying(q, a.nonce)'
        BY <1>0, <2>3, <3>2, <3>6 DEF IInv, OnePlace, TypeOK
      <4> QED BY <3>1, <4>1, <4>2, <4>3 DEF OnePlace
    <3>9. Dated'
      BY <1>0, <2>1, <2>3, <3>1, <3>2, <3>3 DEF IInv, Dated, TypeOK
    <3>10. Signed'
      BY <1>0, <2>1, <3>1, <3>2, <3>5 DEF IInv, Signed, At
    <3> QED BY <3>1, <3>8, <3>9, <3>10 DEF IInv, Inv, AcceptedSigned, NonceUsedOnce, HeaderExpires
  <2> QED BY <1>9, <2>2, <2>3 DEF TakeNonce, TakeFails, PlaceOf
<1>10. ASSUME NEW r \in Requests, Verify(r) PROVE Inv'
  <2> DEFINE n == request[r].nonce
  <2>1. /\ At(r, "verify") /\ n \in Nonces
        /\ UNCHANGED <<now, store, issued, draft, spent>>
        /\ \A q \in Requests : request'[q] = IF q = r THEN Idle ELSE request[q]
    BY <1>0, <1>10, AtType, LeaveType DEF Verify
  <2>2. /\ draft[n] # None /\ draft[n].signer # None /\ request[r].taken < issued[n] + NonceTTL
        /\ n \in spent /\ Verifying(r, n)
    BY <2>1 DEF IInv, Signed, OnePlace, Verifying, At
  <2>3. issued[n] \in Nat /\ draft[n].at \in Nat /\ issued[n] <= draft[n].at
        /\ request[r].taken \in Nat
    BY <1>0, <2>1, <2>2 DEF IInv, Dated, TypeOK, Message, At, InProgress
  <2>4. \A q \in Requests, m \in Nonces : Verifying(q, m)' => Verifying(q, m) /\ q # r
    BY <2>1, AbsenceAssumption DEF Verifying, At
  <2>5. \A q \in Requests, m \in Nonces : m = n => ~Verifying(q, m)'
    BY <2>1, <2>2, <2>4 DEF IInv, OnePlace
  <2>6. \A a \in accepted : a.nonce # n
    BY <2>2 DEF IInv, OnePlace
  <2>7. CASE accepted' = accepted
    <3>1. OnePlace'
      <4>1. \A b \in accepted : /\ b.nonce \in spent
                               /\ \A q \in Requests : ~Verifying(q, b.nonce)'
        BY <1>0, <2>4 DEF IInv, OnePlace, TypeOK
      <4> QED BY <2>1, <2>4, <2>7, <4>1 DEF IInv, OnePlace
    <3>2. Dated' /\ Signed' /\ AcceptedSigned' /\ NonceUsedOnce' /\ HeaderExpires'
      BY <2>1, <2>7 DEF IInv, Dated, Signed, AcceptedSigned, NonceUsedOnce, HeaderExpires
    <3> QED BY <3>1, <3>2 DEF Inv
  <2>8. CASE \E a : /\ accepted' = accepted \cup {a} /\ a.nonce = n
                    /\ a.taken = request[r].taken /\ Genuine(draft[n])
    <3>1. PICK a : /\ accepted' = accepted \cup {a} /\ a.nonce = n
                   /\ a.taken = request[r].taken /\ Genuine(draft[n])
      BY <2>8
    <3>2. OnePlace'
      <4>1. \A b \in accepted' : /\ b.nonce \in spent'
                                /\ \A q \in Requests : ~Verifying(q, b.nonce)'
        BY <1>0, <2>1, <2>2, <2>4, <2>5, <3>1 DEF IInv, OnePlace, TypeOK
      <4> QED BY <2>1, <2>4, <4>1 DEF IInv, OnePlace
    <3>3. NonceUsedOnce' /\ AcceptedSigned'
      BY <2>1, <2>2, <2>6, <3>1 DEF IInv, NonceUsedOnce, AcceptedSigned
    <3>4. HeaderExpires'
      BY <2>1, <2>2, <2>3, <3>1 DEF IInv, HeaderExpires, Genuine
    <3>5. Dated' /\ Signed'
      BY <2>1 DEF IInv, Dated, Signed
    <3> QED BY <3>2, <3>3, <3>4, <3>5 DEF Inv
  <2> QED BY <1>10, <2>7, <2>8 DEF Verify
<1> QED
  BY <1>1, <1>2, <1>3, <1>4, <1>5, <1>6, <1>7, <1>8, <1>9, <1>10
  DEF Next, AskNonce, SendHeader
-----------------------------------------------------------------------------
LEMMA Invariance == Spec => []IInv
BY InitIInv, InvStep, PTL DEF Spec

(* The nonce check of auth-middleware.ts admits a nonce once, for every    *)
(* number of instances and requests.                                       *)
THEOREM NonceAcceptedOnce == Spec => []NonceUsedOnce
BY Invariance, PTL DEF IInv

(* A header is good for less than NonceTTL, whatever the browser's clock.  *)
THEOREM HeadersExpire == Spec => []HeaderExpires
BY Invariance, PTL DEF IInv

(* The state of the guards keeps its type. *)
THEOREM GateTypeCorrect == Spec => []TypeOK
BY Invariance, PTL DEF IInv
-----------------------------------------------------------------------------
(* ------------------------------ the limiter ----------------------------- *)

Same(set, key, place) == {b \in set : b.key = key /\ b.place = place}

Admissions ==
    /\ IsFiniteSet(admitted)
    /\ \A b \in admitted :
         /\ b.at \in 0 .. now
         /\ \/ b.place = <<Shared, 0>>
            \/ \E i \in Instances : \E n \in 1 .. boots[i] : b.place = <<i, n>>

(* A counter of Upstash knows its window: at most its count and at most    *)
(* the limit were let through in it, and before it at most the limit for   *)
(* each window since any that none came before.                            *)
SharedCounted(same, window, count) ==
    /\ \A b \in same : b.at \div Window <= window
    /\ Cardinality({b \in same : b.at \div Window = window}) <= count
    /\ Cardinality({b \in same : b.at \div Window = window}) <= Limit
    /\ \A t \in 0 .. window : (\A b \in same : t <= b.at \div Window) =>
         Cardinality({b \in same : b.at \div Window < window}) <= Limit * (window - t)

SharedTally ==
    \A k \in Keys :
        /\ counter[k].window <= now \div Window
        /\ SharedCounted(Same(admitted, k, <<Shared, 0>>), counter[k].window, counter[k].count)

(* A bucket's window begins with a request that was let through.           *)
MemoryCounted(same, start, count) ==
    /\ \E b \in same : b.at = start
    /\ \A b \in same : b.at < start + Window
    /\ Cardinality({b \in same : b.at >= start}) <= count
    /\ \A t \in 0 .. start : (\A b \in same : t <= b.at) =>
         Cardinality({b \in same : b.at < start}) <= Limit * ((start - t) \div Window)

BucketTally(b, same, time) ==
    IF b = None THEN same = {}
    ELSE /\ b.reset - Window \in 0 .. time /\ b.count \in 1 .. Limit
         /\ MemoryCounted(same, b.reset - Window, b.count)

MemoryTally ==
    \A i \in Instances, k \in Keys :
        BucketTally(bucket[i][k], Same(admitted, k, <<i, boots[i]>>), now)

QInv == TypeOK /\ Admissions /\ SharedTally /\ MemoryTally /\ QuotaHolds

(* The windows begun have had no more than they allow, whenever the first  *)
(* of those let through came.                                              *)
SharedTotal(same, current) ==
    \A t \in 0 .. current : (\A b \in same : t <= b.at \div Window) =>
        Cardinality(same) <= Limit * (current - t + 1)

MemoryTotal(same, time) ==
    \A t \in 0 .. time : (\A b \in same : t <= b.at) =>
        Cardinality(same) <= Limit * ((time - t) \div Window + 1)

(* Windows: one follows another, and later is in no earlier one.           *)
LEMMA WindowType ==
    ASSUME NEW a \in Nat
    PROVE  /\ a \div Window \in Nat
           /\ Window * (a \div Window) <= a /\ a < Window * (a \div Window) + Window
<1> DEFINE q == a \div Window
<1>1. Window \in Nat /\ 0 < Window
  BY GateAssumption
<1>2. q \in Int /\ Window * q <= a /\ a < Window * q + Window
  BY <1>1
<1>3. 0 <= q
  <2>1. SUFFICES ASSUME q <= -1 PROVE FALSE
    BY <1>2
  <2>2. Window * q <= -Window
    BY <1>1, <1>2, <2>1
  <2> QED BY <1>1, <1>2, <2>2
<1> QED BY <1>2, <1>3

LEMMA WindowOrder ==
    ASSUME NEW a \in Nat, NEW b \in Nat, a <= b
    PROVE  a \div Window <= b \div Window
<1> DEFINE x == a \div Window
           y == b \div Window
<1>1. /\ x \in Nat /\ y \in Nat /\ Window * x <= a /\ b < Window * y + Window
      /\ Window \in Nat /\ 0 < Window
  BY WindowType, GateAssumption
<1> HIDE DEF x, y
<1>2. SUFFICES ASSUME x >= y + 1 PROVE FALSE
  BY <1>1 DEF x, y
<1>3. Window * x >= Window * (y + 1)
  BY <1>1, <1>2
<1>4. Window * (y + 1) = Window * y + Window
  BY <1>1
<1> QED BY <1>1, <1>3, <1>4

LEMMA NextWindow ==
    ASSUME NEW a \in Nat
    PROVE  (a + Window) \div Window = a \div Window + 1
<1> DEFINE x == a \div Window
           y == (a + Window) \div Window
<1>1. /\ x \in Nat /\ y \in Nat /\ Window * x <= a /\ a < Window * x + Window
      /\ Window * y <= a + Window /\ a + Window < Window * y + Window
      /\ Window \in Nat /\ 0 < Window
  BY WindowType, GateAssumption
<1> HIDE DEF x, y
<1>2. CASE y >= x + 2
  <2>1. Window * y >= Window * (x + 2)
    BY <1>1, <1>2
  <2>2. Window * (x + 2) = Window * x + Window + Window
    BY <1>1
  <2> QED BY <1>1, <2>1, <2>2
<1>3. CASE y <= x
  <2>1. Window * y <= Window * x
    BY <1>1, <1>3
  <2> QED BY <1>1, <2>1
<1> QED BY <1>1, <1>2, <1>3 DEF x, y

LEMMA Quotas ==
    ASSUME NEW m \in Nat, NEW n \in Nat, m <= n
    PROVE  /\ Limit * m \in Nat /\ Limit * n \in Nat /\ Limit * m <= Limit * n
           /\ Limit * (m + 1) = Limit * m + Limit
<1>1. Limit \in Nat
  BY GateAssumption
<1>2. PICK d \in Nat : n = m + d
  <2>1. n - m \in Nat /\ n = m + (n - m)
    OBVIOUS
  <2> QED BY <2>1
<1>3. Limit * n = Limit * m + Limit * d
  BY <1>1, <1>2
<1>4. Limit * m \in Nat /\ Limit * d \in Nat /\ Limit * n \in Nat
  BY <1>1
<1>5. Limit * (m + 1) = Limit * m + Limit
  BY <1>1
<1> QED BY <1>3, <1>4, <1>5

LEMMA OneMore ==
    ASSUME NEW S, IsFiniteSet(S), NEW x, NEW T, T \subseteq S \cup {x}
    PROVE  /\ IsFiniteSet(T) /\ Cardinality(S) \in Nat /\ Cardinality(T) \in Nat
           /\ Cardinality(T) <= Cardinality(S) + 1
           /\ T \subseteq S => Cardinality(T) <= Cardinality(S)
<1>1. /\ IsFiniteSet(S \cup {x}) /\ Cardinality(S) \in Nat
      /\ Cardinality(S \cup {x}) <= Cardinality(S) + 1
  <2>1. Cardinality(S) \in Nat
    BY FS_CardinalityType
  <2> QED BY <2>1, FS_AddElement
<1>2. IsFiniteSet(T) /\ Cardinality(T) <= Cardinality(S \cup {x})
  BY <1>1, FS_Subset
<1>3. Cardinality(T) \in Nat /\ Cardinality(S \cup {x}) \in Nat
  BY <1>1, <1>2, FS_CardinalityType
<1>4. T \subseteq S => Cardinality(T) <= Cardinality(S)
  BY FS_Subset
<1> QED BY <1>1, <1>2, <1>3, <1>4

LEMMA TwoParts ==
    ASSUME NEW S, IsFiniteSet(S), NEW A, NEW B, A \subseteq S, B \subseteq S, S \subseteq A \cup B
    PROVE  /\ Cardinality(S) \in Nat /\ Cardinality(A) \in Nat /\ Cardinality(B) \in Nat
           /\ Cardinality(S) <= Cardinality(A) + Cardinality(B)
<1>1. IsFiniteSet(A) /\ IsFiniteSet(B) /\ S = A \cup B
  BY FS_Subset
<1>2. IsFiniteSet(A \cap B)
  BY <1>1, FS_Subset
<1>3. /\ Cardinality(A) \in Nat /\ Cardinality(B) \in Nat /\ Cardinality(A \cap B) \in Nat
      /\ Cardinality(S) \in Nat
  BY <1>1, <1>2, FS_CardinalityType
<1>4. Cardinality(S) = Cardinality(A) + Cardinality(B) - Cardinality(A \cap B)
  BY <1>1, FS_Union
<1> QED BY <1>3, <1>4

(* Upstash: the window goes on, or a later one begins.                     *)
LEMMA SharedCount ==
    ASSUME NEW old, IsFiniteSet(old), \A b \in old : b.at \in Nat,
           NEW window \in Nat, NEW count \in Nat, NEW current \in Nat, window <= current,
           SharedCounted(old, window, count),
           NEW so_far \in Nat, so_far = (IF window = current THEN count ELSE 0),
           NEW new, NEW x, x.at \in Nat, x.at \div Window = current,
           new = old \/ (so_far < Limit /\ new = old \cup {x})
    PROVE  SharedCounted(new, current, so_far + 1) /\ SharedTotal(new, current)
<1> DEFINE before(set, w) == {b \in set : b.at \div Window < w}
           within(set, w) == {b \in set : b.at \div Window = w}
<1>0. Limit \in Nat /\ 0 < Limit
  BY GateAssumption
<1>a. /\ \A b \in old : b.at \div Window <= window
      /\ Cardinality({b \in old : b.at \div Window = window}) <= count
      /\ Cardinality({b \in old : b.at \div Window = window}) <= Limit
      /\ \A t \in 0 .. window : (\A b \in old : t <= b.at \div Window) =>
           Cardinality({b \in old : b.at \div Window < window}) <= Limit * (window - t)
  BY DEF SharedCounted
<1>1. \A b \in old : b.at \div Window \in Nat
  BY WindowType
<1>2. IsFiniteSet(new) /\ old \subseteq new /\ new \subseteq old \cup {x}
  BY OneMore
<1>3. \A b \in new : b.at \in Nat /\ b.at \div Window \in Nat /\ b.at \div Window <= current
  BY <1>1, <1>2, <1>a
<1>4. /\ IsFiniteSet(within(old, window)) /\ IsFiniteSet(before(old, window))
      /\ Cardinality(within(old, window)) \in Nat /\ Cardinality(before(old, window)) \in Nat
      /\ Cardinality(old) \in Nat
      /\ Cardinality(old) <= Cardinality(before(old, window)) + Cardinality(within(old, window))
  <2>1. old \subseteq before(old, window) \cup within(old, window)
    BY <1>1, <1>a
  <2>2. before(old, window) \subseteq old /\ within(old, window) \subseteq old
    OBVIOUS
  <2> HIDE DEF before, within
  <2> QED BY <2>1, <2>2, TwoParts, FS_Subset
<1>5. /\ IsFiniteSet(within(new, current)) /\ IsFiniteSet(before(new, current))
      /\ Cardinality(within(new, current)) \in Nat /\ Cardinality(before(new, current)) \in Nat
      /\ Cardinality(new) \in Nat
      /\ Cardinality(new) <= Cardinality(before(new, current)) + Cardinality(within(new, current))
  <2>1. new \subseteq before(new, current) \cup within(new, current)
    BY <1>3
  <2>2. before(new, current) \subseteq new /\ within(new, current) \subseteq new
    OBVIOUS
  <2> HIDE DEF before, within
  <2> QED BY <1>2, <2>1, <2>2, TwoParts, FS_Subset
<1>6. /\ Cardinality(within(new, current)) <= so_far + 1
      /\ Cardinality(within(new, current)) <= Limit
  <2>1. CASE window = current
    <3>1. new = old \/ within(new, current) \subseteq within(old, window) \cup {x}
      BY <2>1
    <3>2. CASE new = old
      BY <2>1, <3>2, <1>4, <1>a
    <3>3. CASE new # old
      <4>1. Cardinality(within(new, current)) <= Cardinality(within(old, window)) + 1
        BY <1>4, <3>1, <3>3, OneMore
      <4> QED BY <1>0, <1>4, <1>5, <1>a, <2>1, <3>3, <4>1
    <3> QED BY <3>2, <3>3
  <2>2. CASE window # current
    <3>1. within(new, current) \subseteq {x}
      BY <1>1, <1>2, <1>a, <2>2
    <3>2. Cardinality(within(new, current)) <= 1
      <4>1. IsFiniteSet({x}) /\ Cardinality({x}) = 1
        BY FS_Singleton
      <4> HIDE DEF within
      <4> QED BY <3>1, <4>1, FS_Subset
    <3> QED BY <1>0, <1>5, <3>2
  <2> QED BY <2>1, <2>2
<1>7. ASSUME NEW t \in 0 .. current, \A b \in new : t <= b.at \div Window
      PROVE  /\ Cardinality(before(new, current)) <= Limit * (current - t)
             /\ Cardinality(new) <= Limit * (current - t + 1)
  <2>1. Cardinality(before(new, current)) <= Limit * (current - t)
    <3>1. before(new, current) = before(old, current)
      BY <1>2
    <3>2. \A b \in old : t <= b.at \div Window
      BY <1>2, <1>7
    <3>3. CASE window = current
      BY <1>a, <3>1, <3>2, <3>3
    <3>4. CASE window # current /\ old # {}
      <4>1. t \in 0 .. window
        BY <1>1, <1>a, <3>2, <3>4
      <4>2. Cardinality(before(old, window)) <= Limit * (window - t)
        BY <1>a, <3>2, <4>1
      <4>3. before(old, current) \subseteq old \cup {x}
        OBVIOUS
      <4>4. Cardinality(before(old, current)) <= Cardinality(old)
        BY FS_Subset
      <4>5. window - t \in Nat /\ current - t \in Nat /\ window - t + 1 \in Nat /\ window - t + 1 <= current - t
        BY <3>4, <4>1
      <4>6. Limit * (window - t + 1) = Limit * (window - t) + Limit /\ Limit * (window - t) \in Nat
        BY <4>5, Quotas
      <4>7. Limit * (window - t + 1) <= Limit * (current - t) /\ Limit * (current - t) \in Nat
        BY <4>5, Quotas
      <4>8. Cardinality(within(old, window)) <= Limit
        BY <1>a
      <4> HIDE DEF before, within
      <4> QED BY <1>0, <1>4, <1>5, <3>1, <4>2, <4>4, <4>6, <4>7, <4>8
    <3>5. CASE old = {}
      <4>1. Cardinality(before(new, current)) = 0
        BY <3>1, <3>5, FS_EmptySet
      <4>2. Limit * (current - t) \in Nat
        BY <1>0, <1>7
      <4> QED BY <4>1, <4>2
    <3> QED BY <3>3, <3>4, <3>5
  <2>2. current - t \in Nat
    BY <1>7
  <2>3. Limit * (current - t + 1) = Limit * (current - t) + Limit /\ Limit * (current - t) \in Nat
    BY <2>2, Quotas
  <2> HIDE DEF before, within
  <2> QED BY <1>0, <1>5, <1>6, <2>1, <2>3
<1> QED BY <1>3, <1>6, <1>7 DEF SharedCounted, SharedTotal

(* Memory: the bucket goes on, or a later one begins.                      *)
LEMMA MemoryCount ==
    ASSUME NEW old, IsFiniteSet(old), NEW time \in Nat, \A b \in old : b.at \in 0 .. time,
           NEW start \in 0 .. time, NEW count \in 1 .. Limit,
           MemoryCounted(old, start, count),
           NEW x, x.at = time,
           NEW begin \in Nat, NEW so_far \in Nat,
           \/ start + Window <= time /\ begin = time /\ so_far = 0
           \/ time < start + Window /\ count < Limit /\ begin = start /\ so_far = count
    PROVE  /\ begin \in 0 .. time /\ so_far + 1 \in 1 .. Limit
           /\ MemoryCounted(old \cup {x}, begin, so_far + 1)
           /\ MemoryTotal(old \cup {x}, time)
<1> DEFINE new == old \cup {x}
           before(set, s) == {b \in set : b.at < s}
           within(set, s) == {b \in set : b.at >= s}
<1>0. Limit \in Nat /\ 0 < Limit /\ Window \in Nat /\ 0 < Window
  BY GateAssumption
<1>a. /\ \E b \in old : b.at = start
      /\ \A b \in old : b.at < start + Window
      /\ Cardinality({b \in old : b.at >= start}) <= count
      /\ \A t \in 0 .. start : (\A b \in old : t <= b.at) =>
           Cardinality({b \in old : b.at < start}) <= Limit * ((start - t) \div Window)
  BY DEF MemoryCounted
<1>1. \A b \in old : b.at \in Nat
  OBVIOUS
<1>2. IsFiniteSet(new)
  BY OneMore
<1>3. begin \in 0 .. time /\ so_far + 1 \in 1 .. Limit
  BY <1>0
<1>4. /\ IsFiniteSet(within(old, start)) /\ IsFiniteSet(before(old, start))
      /\ Cardinality(within(old, start)) \in Nat /\ Cardinality(before(old, start)) \in Nat
      /\ Cardinality(old) \in Nat
      /\ Cardinality(old) <= Cardinality(before(old, start)) + Cardinality(within(old, start))
  <2>1. old \subseteq before(old, start) \cup within(old, start)
    BY <1>1
  <2>2. before(old, start) \subseteq old /\ within(old, start) \subseteq old
    OBVIOUS
  <2> HIDE DEF before, within
  <2> QED BY <2>1, <2>2, TwoParts, FS_Subset
<1>5. /\ IsFiniteSet(within(new, begin)) /\ IsFiniteSet(before(new, begin))
      /\ Cardinality(within(new, begin)) \in Nat /\ Cardinality(before(new, begin)) \in Nat
      /\ Cardinality(new) \in Nat
      /\ Cardinality(new) <= Cardinality(before(new, begin)) + Cardinality(within(new, begin))
  <2>1. new \subseteq before(new, begin) \cup within(new, begin)
    BY <1>1
  <2>2. before(new, begin) \subseteq new /\ within(new, begin) \subseteq new
    OBVIOUS
  <2> HIDE DEF before, within
  <2> QED BY <1>2, <2>1, <2>2, TwoParts, FS_Subset
<1>6. \E b \in new : b.at = begin
  BY <1>a
<1>7. \A b \in new : b.at \in 0 .. time /\ b.at < begin + Window
  BY <1>0, <1>a
<1>8. Cardinality(within(new, begin)) <= so_far + 1
  <2>1. CASE start + Window <= time
    <3>1. within(new, begin) \subseteq {x}
      BY <1>0, <1>a, <2>1
    <3>2. Cardinality(within(new, begin)) <= 1
      <4>1. IsFiniteSet({x}) /\ Cardinality({x}) = 1
        BY FS_Singleton
      <4> HIDE DEF within
      <4> QED BY <3>1, <4>1, FS_Subset
    <3> QED BY <1>5, <3>2
  <2>2. CASE time < start + Window
    <3>1. within(new, begin) \subseteq within(old, start) \cup {x} /\ so_far = count
      BY <1>0, <1>a, <2>2
    <3>2. Cardinality(within(new, begin)) <= Cardinality(within(old, start)) + 1
      BY <1>4, <3>1, OneMore
    <3> QED BY <1>4, <1>5, <1>a, <3>1, <3>2
  <2> QED BY <1>0, <2>1, <2>2
<1>9. ASSUME NEW t \in 0 .. begin, \A b \in new : t <= b.at
      PROVE  Cardinality(before(new, begin)) <= Limit * ((begin - t) \div Window)
  <2>1. before(new, begin) \subseteq old /\ before(new, begin) = before(old, begin)
    OBVIOUS
  <2>2. t \in 0 .. start /\ \A b \in old : t <= b.at
    BY <1>9, <1>a
  <2>3. Cardinality(before(old, start)) <= Limit * ((start - t) \div Window)
    BY <1>a, <2>2
  <2>4. CASE begin = start
    BY <2>1, <2>3, <2>4
  <2>5. CASE start + Window <= time /\ begin = time
    <3>1. start - t \in Nat /\ begin - t \in Nat /\ start - t + Window <= begin - t
          /\ start - t + Window \in Nat
      BY <1>0, <2>2, <2>5
    <3>2. (start - t + Window) \div Window = (start - t) \div Window + 1
      BY <3>1, NextWindow
    <3>3. (start - t) \div Window + 1 <= (begin - t) \div Window
      BY <3>1, <3>2, WindowOrder
    <3>4. (start - t) \div Window \in Nat /\ (begin - t) \div Window \in Nat
      BY <3>1, WindowType
    <3> DEFINE p == (start - t) \div Window
               q == (begin - t) \div Window
    <3> HIDE DEF p, q
    <3>5. p \in Nat /\ q \in Nat /\ p + 1 \in Nat /\ p + 1 <= q
      BY <3>3, <3>4 DEF p, q
    <3>6. Limit * (p + 1) = Limit * p + Limit /\ Limit * (p + 1) <= Limit * q
          /\ Limit * p \in Nat /\ Limit * q \in Nat
      BY <3>5, Quotas
    <3>7. Cardinality(before(new, begin)) <= Cardinality(old)
      BY <2>1, OneMore
    <3>8. Cardinality(within(old, start)) <= Limit
      BY <1>0, <1>4, <1>a
    <3>9. Cardinality(before(old, start)) <= Limit * p
      BY <2>3 DEF p
    <3> HIDE DEF before, within, new
    <3>10. Cardinality(before(new, begin)) <= Limit * q
      BY <1>0, <1>4, <1>5, <3>6, <3>7, <3>8, <3>9
    <3> QED BY <3>10 DEF q
  <2> QED BY <2>4, <2>5
<1>10. ASSUME NEW t \in 0 .. time, \A b \in new : t <= b.at
       PROVE  Cardinality(new) <= Limit * ((time - t) \div Window + 1)
  <2>1. t \in 0 .. begin
    BY <1>6, <1>10
  <2>2. Cardinality(before(new, begin)) <= Limit * ((begin - t) \div Window)
    BY <1>9, <1>10, <2>1
  <2>3. begin - t \in Nat /\ time - t \in Nat /\ begin - t <= time - t
    BY <1>3, <2>1
  <2> DEFINE p == (begin - t) \div Window
             q == (time - t) \div Window
  <2>4. p \in Nat /\ q \in Nat /\ p <= q
    BY <2>3, WindowType, WindowOrder
  <2>5. Cardinality(before(new, begin)) <= Limit * p
    BY <2>2
  <2> HIDE DEF p, q
  <2>6. Limit * p <= Limit * q /\ Limit * p \in Nat /\ Limit * q \in Nat
    BY <2>4, Quotas
  <2>7. Limit * (q + 1) = Limit * q + Limit
    BY <2>4, Quotas
  <2> HIDE DEF before, within, new
  <2>8. Cardinality(new) <= Limit * (q + 1)
    BY <1>0, <1>3, <1>5, <1>8, <2>5, <2>6, <2>7
  <2> QED BY <2>8 DEF q
<1> QED BY <1>3, <1>6, <1>7, <1>8, <1>9, <1>10 DEF MemoryCounted, MemoryTotal

(* What the limiter lets through keeps the quota, when its key and place   *)
(* have had no more so far than the windows begun allow.                   *)
LEMMA QuotaStep ==
    ASSUME TypeOK, Admissions, QuotaHolds, now' = now,
           NEW x, admitted' = admitted \cup {x}, x.at = now,
           NEW new, new = Same(admitted', x.key, x.place),
           \A t \in 0 .. now : (\A b \in new : t <= b.at) =>
             Cardinality(new) <= Limit * WindowsBegun(x.place, t, now)
    PROVE  QuotaHolds'
<1>0. now \in Nat /\ \A b \in admitted : b.at \in Nat /\ b.at <= now
  BY GateAssumption DEF TypeOK, Admissions
<1> SUFFICES ASSUME NEW a \in admitted', NEW last \in Same(admitted', a.key, a.place),
                    \A b \in Same(admitted', a.key, a.place) : b.at >= a.at
             PROVE  Cardinality({b \in Same(admitted', a.key, a.place) : b.at <= last.at})
                      <= Limit * WindowsBegun(a.place, a.at, last.at)
  BY DEF QuotaHolds, Same, WindowsBegun
<1>1. /\ IsFiniteSet(admitted') /\ last \in admitted' /\ a.at \in 0 .. now /\ last.at \in 0 .. now
      /\ a \in Same(admitted', a.key, a.place) /\ a.at <= last.at
  BY <1>0, FS_AddElement DEF Admissions, Same
<1>2. CASE last.at = now /\ x.key = a.key /\ x.place = a.place
  <2> DEFINE w == WindowsBegun(a.place, a.at, now)
             some == {b \in new : b.at <= last.at}
  <2>1. Cardinality(new) <= Limit * w
    BY <1>1, <1>2
  <2>2. some \subseteq new /\ IsFiniteSet(new)
    BY <1>1, FS_Subset DEF Same
  <2>3. IsFiniteSet(some) /\ Cardinality(some) <= Cardinality(new)
    <3> HIDE DEF some
    <3> QED BY <2>2, FS_Subset
  <2>4. Cardinality(some) \in Nat /\ Cardinality(new) \in Nat
    BY <2>2, <2>3, FS_CardinalityType
  <2>5. Limit \in Nat /\ w \in Int
    <3>1. a.at \in Nat /\ a.at \div Window \in Nat /\ now \div Window \in Nat
      BY <1>0, <1>1, WindowType
    <3>2. now - a.at \in Nat /\ (now - a.at) \div Window \in Nat
      BY <1>0, <1>1, WindowType
    <3> QED BY <3>1, <3>2, GateAssumption DEF WindowsBegun
  <2> HIDE DEF w
  <2>6. Limit * w \in Int
    BY <2>5
  <2>7. some = {b \in Same(admitted', a.key, a.place) : b.at <= last.at}
    BY <1>2
  <2> HIDE DEF some
  <2>8. Cardinality(some) <= Limit * w
    BY <2>1, <2>3, <2>4, <2>6
  <2> QED BY <1>2, <2>7, <2>8 DEF w
<1>3. CASE ~(last.at = now /\ x.key = a.key /\ x.place = a.place)
  <2>1. a \in admitted /\ last \in Same(admitted, a.key, a.place)
    BY <1>0, <1>1, <1>3 DEF Same
  <2>2. {b \in Same(admitted', a.key, a.place) : b.at <= last.at}
          = {b \in Same(admitted, a.key, a.place) : b.at <= last.at}
    BY <1>0, <1>1, <1>3 DEF Same
  <2>3. \A b \in Same(admitted, a.key, a.place) : b.at >= a.at
    BY DEF Same
  <2> QED BY <2>1, <2>2, <2>3 DEF QuotaHolds, Same
<1> QED BY <1>2, <1>3

(* The limiter's verdict lets one request through, or none.                *)
LEMMA VerdictIs ==
    ASSUME NEW r \in Requests, NEW place, NEW success \in BOOLEAN, Verdict(r, place, success)
    PROVE  /\ ~success => admitted' = admitted
           /\ success => \E x : /\ admitted' = admitted \cup {x}
                                /\ x.key = Key(r) /\ x.place = place /\ x.at = now
<1>1. CASE ~success
  BY <1>1 DEF Verdict
<1>2. CASE success
  <2>1. PICK s : admitted' = admitted \cup {[key |-> Key(r), place |-> place, at |-> now, serial |-> s]}
    BY <1>2 DEF Verdict
  <2> DEFINE y == [key |-> Key(r), place |-> place, at |-> now, serial |-> s]
  <2>2. y.key = Key(r) /\ y.place = place /\ y.at = now /\ admitted' = admitted \cup {y}
    BY <2>1
  <2> HIDE DEF y
  <2> QED BY <1>2, <2>2
<1> QED BY <1>1, <1>2

LEMMA AdmissionsStep ==
    ASSUME TypeOK, Admissions, now' = now, boots' = boots, NEW x, x.at = now,
           \/ x.place = <<Shared, 0>>
           \/ \E i \in Instances : \E n \in 1 .. boots[i] : x.place = <<i, n>>,
           admitted' = admitted \/ admitted' = admitted \cup {x}
    PROVE  Admissions'
<1>1. IsFiniteSet(admitted')
  BY FS_AddElement DEF Admissions
<1>2. now \in Nat
  BY GateAssumption DEF TypeOK
<1> QED BY <1>1, <1>2 DEF Admissions

(* What the tallies say of the state before.                               *)
LEMMA Counters ==
    ASSUME QInv
    PROVE  /\ now \in Nat /\ IsFiniteSet(admitted) /\ Limit \in Nat /\ 0 < Limit
           /\ \A k, place : /\ IsFiniteSet(Same(admitted, k, place))
                            /\ \A b \in Same(admitted, k, place) : b.at \in 0 .. now
           /\ \A k \in Keys : counter[k].window \in Nat /\ counter[k].count \in Nat
<1>1. /\ now \in Nat /\ IsFiniteSet(admitted) /\ Limit \in Nat /\ 0 < Limit
      /\ \A b \in admitted : b.at \in 0 .. now
  BY GateAssumption DEF QInv, TypeOK, Admissions
<1>2. ASSUME NEW k, NEW place PROVE IsFiniteSet(Same(admitted, k, place))
  BY <1>1, FS_Subset DEF Same
<1>3. ASSUME NEW k, NEW place, NEW b \in Same(admitted, k, place) PROVE b.at \in 0 .. now
  BY <1>1 DEF Same
<1>4. \A k \in Keys : counter[k] \in [window : Nat, count : Nat]
  BY DEF QInv, TypeOK
<1> QED BY <1>1, <1>2, <1>3, <1>4

(* The first request a bucket lets through.                                *)
LEMMA FirstCount ==
    ASSUME NEW time \in Nat, NEW x, x.at = time
    PROVE  MemoryCounted({x}, time, 1) /\ MemoryTotal({x}, time)
<1>0. Limit \in Nat /\ 0 < Limit /\ Window \in Nat /\ 0 < Window
  BY GateAssumption
<1>1. IsFiniteSet({x}) /\ Cardinality({x}) = 1 /\ Cardinality({}) = 0
  BY FS_Singleton, FS_EmptySet
<1>2. {b \in {x} : b.at >= time} = {x} /\ {b \in {x} : b.at < time} = {}
  OBVIOUS
<1>3. \A t \in 0 .. time : (time - t) \div Window \in Nat
  BY WindowType
<1>4. ASSUME NEW n \in Nat PROVE Limit * n \in Nat /\ Limit * n + Limit = Limit * (n + 1)
  BY <1>0
<1>5. \A t \in 0 .. time : 0 <= Limit * ((time - t) \div Window)
  BY <1>3, <1>4
<1>6. \A t \in 0 .. time : 1 <= Limit * ((time - t) \div Window + 1)
  BY <1>0, <1>3, <1>4
<1>7. MemoryCounted({x}, time, 1)
  <2>1. (\E b \in {x} : b.at = time) /\ \A b \in {x} : b.at < time + Window
    BY <1>0
  <2>2. /\ Cardinality({b \in {x} : b.at >= time}) <= 1
        /\ Cardinality({b \in {x} : b.at < time}) = 0
    BY <1>1, <1>2
  <2> QED BY <1>5, <2>1, <2>2 DEF MemoryCounted
<1>8. MemoryTotal({x}, time)
  BY <1>1, <1>6 DEF MemoryTotal
<1> QED BY <1>7, <1>8

LEMMA SharedLimitStep ==
    ASSUME QInv, NEW r \in Requests, Key(r) \in Keys, SharedLimit(r), now' = now, boots' = boots
    PROVE  Admissions' /\ SharedTally' /\ MemoryTally' /\ QuotaHolds'
<1> DEFINE k       == Key(r)
           place   == <<Shared, 0>>
           current == now \div Window
           so_far  == IF counter[k].window = current THEN counter[k].count ELSE 0
<1>1. /\ now \in Nat /\ IsFiniteSet(admitted) /\ counter[k].window \in Nat /\ counter[k].count \in Nat
      /\ current \in Nat /\ so_far \in Nat
  BY Counters, WindowType
<1>2. /\ bucket' = bucket
      /\ counter' = [counter EXCEPT ![k] = [window |-> current, count |-> so_far + 1]]
      /\ Verdict(r, place, so_far < Limit)
  BY DEF SharedLimit
<1>3. /\ counter'[k].window = current /\ counter'[k].count = so_far + 1
      /\ \A q \in Keys : q # k => counter'[q] = counter[q]
  BY <1>2 DEF QInv, TypeOK
<1>4. PICK x : /\ x.at = now /\ x.key = k /\ x.place = place
               /\ admitted' = admitted \/ (so_far < Limit /\ admitted' = admitted \cup {x})
  <2>0. (so_far < Limit) \in BOOLEAN
    OBVIOUS
  <2>1. CASE ~(so_far < Limit)
    <3> DEFINE y == [key |-> k, place |-> place, at |-> now]
    <3>1. y.key = k /\ y.place = place /\ y.at = now
      OBVIOUS
    <3>2. admitted' = admitted
      BY <1>2, <2>0, <2>1, VerdictIs
    <3> HIDE DEF y
    <3> QED BY <3>1, <3>2
  <2>2. CASE so_far < Limit
    <3>1. PICK y : /\ admitted' = admitted \cup {y}
                   /\ y.key = Key(r) /\ y.place = place /\ y.at = now
      <4> HIDE DEF so_far, place
      <4> QED BY <1>2, <2>0, <2>2, VerdictIs
    <3> QED BY <2>2, <3>1
  <2> QED BY <2>1, <2>2
<1>5. PICK old, new, f : /\ old = Same(admitted, k, place) /\ new = Same(admitted', k, place)
                         /\ f = so_far
  OBVIOUS
<1>6. /\ new = old \/ (f < Limit /\ new = old \cup {x})
      /\ admitted' = admitted \cup {x} => new = old \cup {x}
      /\ \A key, p : key # k \/ p # place => Same(admitted', key, p) = Same(admitted, key, p)
  <2>1. new = old \/ (f < Limit /\ new = old \cup {x})
    BY <1>4, <1>5 DEF Same
  <2>2. admitted' = admitted \cup {x} => new = old \cup {x}
    BY <1>4, <1>5 DEF Same
  <2>3. ASSUME NEW key, NEW p, key # k \/ p # place
        PROVE  Same(admitted', key, p) = Same(admitted, key, p)
    BY <1>4, <2>3 DEF Same
  <2> QED BY <2>1, <2>2, <2>3
<1>7. PICK c, w, m : c = current /\ w = counter[k].window /\ m = counter[k].count
  OBVIOUS
<1>8. SharedCounted(new, c, f + 1) /\ SharedTotal(new, c)
  <2>1. /\ IsFiniteSet(old) /\ (\A b \in old : b.at \in Nat)
        /\ w \in Nat /\ m \in Nat /\ c \in Nat /\ w <= c /\ SharedCounted(old, w, m)
    BY <1>1, <1>5, <1>7, Counters DEF QInv, SharedTally
  <2>2. /\ f \in Nat /\ f = (IF w = c THEN m ELSE 0) /\ x.at \in Nat /\ x.at \div Window = c
    BY <1>1, <1>4, <1>5, <1>7
  <2> HIDE DEF current, so_far, k, place
  <2> QED BY <1>6, <2>1, <2>2, SharedCount
<1>9. Admissions'
  BY <1>4, AdmissionsStep DEF QInv
<1>10. SharedTally'
  <2> SUFFICES ASSUME NEW q \in Keys
               PROVE  /\ counter'[q].window <= now \div Window
                      /\ SharedCounted(Same(admitted', q, place), counter'[q].window, counter'[q].count)
    BY DEF SharedTally
  <2>1. CASE q = k
    BY <1>1, <1>3, <1>5, <1>7, <1>8, <2>1
  <2>2. CASE q # k
    BY <1>3, <1>6, <2>2 DEF QInv, SharedTally
  <2> QED BY <2>1, <2>2
<1>11. MemoryTally'
  <2> SUFFICES ASSUME NEW i \in Instances, NEW q \in Keys
               PROVE  BucketTally(bucket[i][q], Same(admitted', q, <<i, boots[i]>>), now)
    BY <1>2 DEF MemoryTally
  <2>1. <<i, boots[i]>> # place
    BY GateAssumption
  <2>2. Same(admitted', q, <<i, boots[i]>>) = Same(admitted, q, <<i, boots[i]>>)
    BY <1>6, <2>1
  <2> QED BY <2>2 DEF QInv, MemoryTally
<1>12. QuotaHolds'
  <2>1. CASE admitted' = admitted
    BY <2>1 DEF QInv, QuotaHolds, WindowsBegun
  <2>2. CASE admitted' = admitted \cup {x}
    <3>1. ASSUME NEW t \in 0 .. now, \A b \in new : t <= b.at
          PROVE  Cardinality(new) <= Limit * WindowsBegun(x.place, t, now)
      <4>1. t \in Nat /\ t \div Window \in 0 .. c
        BY <1>1, <1>7, WindowType, WindowOrder
      <4>2. \A b \in new : b.at \in Nat
        BY <1>1, <1>4, <1>5, <1>6, Counters
      <4>3. \A b \in new : t \div Window <= b.at \div Window
        BY <3>1, <4>1, <4>2, WindowOrder
      <4>4. Cardinality(new) <= Limit * (c - t \div Window + 1)
        BY <1>8, <4>1, <4>3 DEF SharedTotal
      <4>5. WindowsBegun(x.place, t, now) = c - t \div Window + 1
        BY <1>4, <1>7 DEF WindowsBegun
      <4> QED BY <4>4, <4>5
    <3> QED BY <1>4, <1>5, <2>2, <3>1, QuotaStep DEF QInv
  <2> QED BY <1>4, <2>1, <2>2
<1> QED BY <1>9, <1>10, <1>11, <1>12

LEMMA MemoryLimitStep ==
    ASSUME QInv, NEW r \in Requests, Key(r) \in Keys, request[r].instance \in Instances,
           MemoryLimit(r), now' = now, boots' = boots
    PROVE  Admissions' /\ SharedTally' /\ MemoryTally' /\ QuotaHolds'
<1> DEFINE k     == Key(r)
           i     == request[r].instance
           place == <<i, boots[i]>>
           b0    == bucket[i][k]
           fresh == b0 = None \/ b0.reset <= now
           b1    == IF fresh THEN [count |-> 1, reset |-> now + Window]
                    ELSE IF b0.count < Limit THEN Counted(b0) ELSE b0
<1>1. /\ now \in Nat /\ IsFiniteSet(admitted) /\ boots[i] \in 1 .. MaxBoots
      /\ b0 \in Bucket \cup {None} /\ Window \in Nat /\ 0 < Window /\ Limit \in Nat /\ 0 < Limit
      /\ place # <<Shared, 0>>
  BY Counters, GateAssumption DEF QInv, TypeOK
<1>2. /\ counter' = counter /\ bucket' = [bucket EXCEPT ![i][k] = b1]
      /\ Verdict(r, place, fresh \/ b0.count < Limit)
  BY DEF MemoryLimit
<1>3. /\ bucket'[i][k] = b1
      /\ \A j \in Instances, q \in Keys : j # i \/ q # k => bucket'[j][q] = bucket[j][q]
  BY <1>2 DEF QInv, TypeOK
<1>4. PICK x : /\ x.at = now /\ x.key = k /\ x.place = place
               /\ admitted' = IF fresh \/ b0.count < Limit THEN admitted \cup {x} ELSE admitted
  <2>1. CASE ~(fresh \/ b0.count < Limit)
    <3> DEFINE y == [key |-> k, place |-> place, at |-> now]
    <3>1. y.key = k /\ y.place = place /\ y.at = now
      OBVIOUS
    <3>2. admitted' = admitted
      BY <1>2, <2>1, VerdictIs
    <3> HIDE DEF y
    <3> QED BY <2>1, <3>1, <3>2
  <2>2. CASE fresh \/ b0.count < Limit
    BY <1>2, <2>2, VerdictIs
  <2> QED BY <2>1, <2>2
<1>5. PICK old, new : old = Same(admitted, k, place) /\ new = Same(admitted', k, place)
  OBVIOUS
<1>6. /\ new = IF fresh \/ b0.count < Limit THEN old \cup {x} ELSE old
      /\ \A key, p : key # k \/ p # place => Same(admitted', key, p) = Same(admitted, key, p)
  <2>1. new = IF fresh \/ b0.count < Limit THEN old \cup {x} ELSE old
    BY <1>4, <1>5 DEF Same
  <2>2. ASSUME NEW key, NEW p, key # k \/ p # place
        PROVE  Same(admitted', key, p) = Same(admitted, key, p)
    BY <1>4, <2>2 DEF Same
  <2> QED BY <2>1, <2>2
<1>7. BucketTally(b0, old, now) /\ IsFiniteSet(old) /\ \A b \in old : b.at \in 0 .. now
  BY <1>5, Counters DEF QInv, MemoryTally
<1>8. BucketTally(b1, new, now) /\ (fresh \/ b0.count < Limit => MemoryTotal(new, now))
  <2>1. CASE b0 = None
    <3>1. new = {x} /\ b1 = [count |-> 1, reset |-> now + Window] /\ b1 # None
      <4>1. fresh /\ old = {}
        BY <1>7, <2>1 DEF BucketTally
      <4>2. new = {x}
        BY <1>6, <4>1
      <4>3. b1 = [count |-> 1, reset |-> now + Window]
        BY <4>1
      <4>4. [count |-> 1, reset |-> now + Window] \in Bucket
        BY <1>1 DEF Bucket
      <4> QED BY <4>2, <4>3, <4>4, AbsenceAssumption
    <3>2. b1.count = 1 /\ b1.reset - Window = now
      BY <1>1, <3>1
    <3>3. MemoryCounted({x}, now, 1) /\ MemoryTotal({x}, now)
      BY <1>1, <1>4, FirstCount
    <3> QED BY <1>1, <3>1, <3>2, <3>3 DEF BucketTally
  <2>2. CASE b0 # None /\ (fresh \/ b0.count < Limit)
    <3>1. b0 \in Bucket /\ b0.reset \in Nat /\ b0.count \in Nat
      BY <1>1, <2>2 DEF Bucket
    <3>2. PICK start, count : start = b0.reset - Window /\ count = b0.count
      OBVIOUS
    <3>3. start \in 0 .. now /\ count \in 1 .. Limit /\ MemoryCounted(old, start, count)
      BY <1>7, <2>2, <3>2 DEF BucketTally
    <3>4. PICK begin, f : /\ begin = IF fresh THEN now ELSE start
                          /\ f = IF fresh THEN 0 ELSE count
      OBVIOUS
    <3>5. /\ begin \in Nat /\ f \in Nat
          /\ \/ start + Window <= now /\ begin = now /\ f = 0
             \/ now < start + Window /\ count < Limit /\ begin = start /\ f = count
      BY <1>1, <2>2, <3>1, <3>2, <3>3, <3>4
    <3>6. /\ begin \in 0 .. now /\ f + 1 \in 1 .. Limit
          /\ MemoryCounted(old \cup {x}, begin, f + 1) /\ MemoryTotal(old \cup {x}, now)
      <4>1. PICK time : time = now
        OBVIOUS
      <4>2. /\ time \in Nat /\ (\A b \in old : b.at \in 0 .. time) /\ start \in 0 .. time /\ x.at = time
            /\ \/ start + Window <= time /\ begin = time /\ f = 0
               \/ time < start + Window /\ count < Limit /\ begin = start /\ f = count
        BY <1>1, <1>4, <1>7, <3>3, <3>5, <4>1
      <4> HIDE DEF fresh, b0, b1, k, i, place
      <4>3. /\ begin \in 0 .. time /\ f + 1 \in 1 .. Limit
            /\ MemoryCounted(old \cup {x}, begin, f + 1) /\ MemoryTotal(old \cup {x}, time)
        BY <1>7, <3>3, <3>5, <4>2, MemoryCount
      <4> QED BY <4>1, <4>3
    <3>7. b1.reset - Window = begin /\ b1.count = f + 1 /\ b1 # None
      <4>1. CASE fresh
        <5>1. b1 = [count |-> 1, reset |-> now + Window]
          BY <4>1
        <5> QED BY <1>1, <3>4, <4>1, <5>1, AbsenceAssumption DEF Bucket
      <4>2. CASE ~fresh
        <5>1. b1 = [b0 EXCEPT !.count = b0.count + 1]
          BY <2>2, <4>2 DEF Counted
        <5>2. b1 \in Bucket /\ b1.count = b0.count + 1 /\ b1.reset = b0.reset
          BY <3>1, <5>1 DEF Bucket
        <5> QED BY <3>2, <3>4, <4>2, <5>2, AbsenceAssumption
      <4> QED BY <4>1, <4>2
    <3>8. new = old \cup {x}
      BY <1>6, <2>2
    <3> HIDE DEF fresh, b0, b1
    <3> QED BY <3>6, <3>7, <3>8 DEF BucketTally
  <2>3. CASE ~(fresh \/ b0.count < Limit)
    <3>1. b1 = b0 /\ new = old
      BY <1>6, <2>3
    <3> QED BY <1>7, <2>3, <3>1
  <2> QED BY <2>1, <2>2, <2>3
<1>9. Admissions'
  <2>1. \E j \in Instances : \E n \in 1 .. boots[j] : x.place = <<j, n>>
    BY <1>1, <1>4
  <2> QED BY <1>4, <2>1, AdmissionsStep DEF QInv
<1>10. SharedTally'
  <2> SUFFICES ASSUME NEW q \in Keys
               PROVE  /\ counter[q].window <= now \div Window
                      /\ SharedCounted(Same(admitted', q, <<Shared, 0>>), counter[q].window, counter[q].count)
    BY <1>2 DEF SharedTally
  <2>1. Same(admitted', q, <<Shared, 0>>) = Same(admitted, q, <<Shared, 0>>)
    BY <1>1, <1>6
  <2> QED BY <2>1 DEF QInv, SharedTally
<1>11. MemoryTally'
  <2> SUFFICES ASSUME NEW j \in Instances, NEW q \in Keys
               PROVE  BucketTally(bucket'[j][q], Same(admitted', q, <<j, boots[j]>>), now)
    BY DEF MemoryTally
  <2>1. CASE j = i /\ q = k
    BY <1>3, <1>5, <1>8, <2>1
  <2>2. CASE j # i \/ q # k
    <3>1. q # k \/ <<j, boots[j]>> # place
      BY <2>2
    <3>2. Same(admitted', q, <<j, boots[j]>>) = Same(admitted, q, <<j, boots[j]>>)
      BY <1>6, <3>1
    <3> QED BY <1>3, <2>2, <3>2 DEF QInv, MemoryTally
  <2> QED BY <2>1, <2>2
<1>12. QuotaHolds'
  <2>1. CASE ~(fresh \/ b0.count < Limit)
    BY <1>4, <2>1 DEF QInv, QuotaHolds, WindowsBegun
  <2>2. CASE fresh \/ b0.count < Limit
    <3>1. ASSUME NEW t \in 0 .. now, \A b \in new : t <= b.at
          PROVE  Cardinality(new) <= Limit * WindowsBegun(x.place, t, now)
      <4>1. WindowsBegun(x.place, t, now) = (now - t) \div Window + 1
        BY <1>4, GateAssumption DEF WindowsBegun
      <4> QED BY <1>8, <2>2, <3>1, <4>1 DEF MemoryTotal
    <3>2. admitted' = admitted \cup {x}
      BY <1>4, <2>2
    <3> QED BY <1>4, <1>5, <3>1, <3>2, QuotaStep DEF QInv
  <2> QED BY <2>1, <2>2
<1> QED BY <1>9, <1>10, <1>11, <1>12

LEMMA QuotaNext ==
    ASSUME QInv, [Next]_vars
    PROVE  QInv'
<1>0. TypeOK'
  BY TypeStep DEF QInv
<1>1. ASSUME UNCHANGED <<counter, bucket, admitted, boots>>, now' \in {now, now + 1}
      PROVE  QInv'
  <2>1. now \in Nat /\ now' \in Nat /\ now <= now'
    BY <1>1, Counters
  <2>2. Admissions'
    BY <1>1, <2>1 DEF QInv, Admissions
  <2>3. SharedTally'
    <3> SUFFICES ASSUME NEW k \in Keys
                 PROVE  /\ counter[k].window <= now' \div Window
                        /\ SharedCounted(Same(admitted, k, <<Shared, 0>>), counter[k].window, counter[k].count)
      BY <1>1 DEF SharedTally
    <3>1. now \div Window \in Nat /\ now' \div Window \in Nat /\ now \div Window <= now' \div Window
      BY <2>1, WindowType, WindowOrder
    <3>2. counter[k].window \in Nat /\ counter[k].window <= now \div Window
      BY Counters DEF QInv, SharedTally
    <3>3. counter[k].window <= now' \div Window
      BY <3>1, <3>2
    <3> QED BY <3>3 DEF QInv, SharedTally
  <2>4. MemoryTally'
    <3> SUFFICES ASSUME NEW i \in Instances, NEW k \in Keys
                 PROVE  BucketTally(bucket[i][k], Same(admitted, k, <<i, boots[i]>>), now')
      BY <1>1 DEF MemoryTally
    <3>1. BucketTally(bucket[i][k], Same(admitted, k, <<i, boots[i]>>), now)
      BY DEF QInv, MemoryTally
    <3> QED BY <2>1, <3>1 DEF BucketTally
  <2>5. QuotaHolds'
    BY <1>1 DEF QInv, QuotaHolds, WindowsBegun
  <2> QED BY <1>0, <2>2, <2>3, <2>4, <2>5 DEF QInv
<1>2. CASE Tick \/ UNCHANGED vars
  BY <1>1, <1>2 DEF Tick, vars, server, history
<1>3. ASSUME NEW n \in Nonces, NEW w \in Wallets, NEW skew \in Skews, Compose(n, w, skew)
      PROVE  QInv'
  BY <1>1, <1>3 DEF Compose, server, history
<1>4. ASSUME NEW n \in Nonces, NEW w \in Wallets, Sign(n, w) PROVE QInv'
  BY <1>1, <1>4 DEF Sign, server, history
<1>5. ASSUME NEW i \in Instances, Reboot(i) PROVE QInv'
  <2>1. /\ UNCHANGED <<now, counter, admitted>>
        /\ boots' = [boots EXCEPT ![i] = boots[i] + 1]
        /\ bucket' = [bucket EXCEPT ![i] = [k \in Keys |-> None]]
    BY <1>5 DEF Reboot
  <2>2. /\ boots[i] \in Nat /\ boots'[i] = boots[i] + 1
        /\ \A j \in Instances : boots[j] \in Nat /\ (j # i => boots'[j] = boots[j])
    BY <2>1, GateAssumption DEF QInv, TypeOK
  <2>3. Admissions'
    BY <2>1, <2>2 DEF QInv, Admissions
  <2>4. SharedTally'
    BY <2>1 DEF QInv, SharedTally
  <2>5. MemoryTally'
    <3> SUFFICES ASSUME NEW j \in Instances, NEW k \in Keys
                 PROVE  BucketTally(bucket'[j][k], Same(admitted, k, <<j, boots'[j]>>), now)
      BY <2>1 DEF MemoryTally
    <3>1. CASE j = i
      <4>1. bucket'[j][k] = None
        BY <2>1, <3>1 DEF QInv, TypeOK
      <4>2. \A b \in admitted : b.place # <<i, boots[i] + 1>>
        BY <2>2, GateAssumption DEF QInv, Admissions
      <4>3. Same(admitted, k, <<j, boots'[j]>>) = {}
        BY <2>2, <3>1, <4>2 DEF Same
      <4> QED BY <4>1, <4>3 DEF BucketTally
    <3>2. CASE j # i
      <4>1. bucket'[j][k] = bucket[j][k] /\ boots'[j] = boots[j]
        BY <2>1, <2>2, <3>2 DEF QInv, TypeOK
      <4> QED BY <4>1 DEF QInv, MemoryTally
    <3> QED BY <3>1, <3>2
  <2>6. QuotaHolds'
    BY <2>1 DEF QInv, QuotaHolds, WindowsBegun
  <2> QED BY <1>0, <2>3, <2>4, <2>5, <2>6 DEF QInv
<1>6. ASSUME NEW r \in Requests, RateLimit(r) PROVE QInv'
  <2>1. /\ request[r] \in InProgress /\ request[r].instance \in Instances /\ Key(r) \in Keys
        /\ now' = now /\ boots' = boots
    BY <1>6 DEF QInv, RateLimit, At, InProgress, Key, Keys, TypeOK
  <2>2. CASE SharedLimit(r)
    BY <1>0, <2>1, <2>2, SharedLimitStep DEF QInv
  <2>3. CASE MemoryLimit(r)
    BY <1>0, <2>1, <2>3, MemoryLimitStep DEF QInv
  <2> QED BY <1>6, <2>2, <2>3 DEF RateLimit
<1>7. ASSUME NEW r \in Requests,
             \/ \E i \in Instances, c \in Clients : AskNonce(r, i, c)
             \/ \E i \in Instances, c \in Clients, n \in Nonces : SendHeader(r, i, c, n)
             \/ \E n \in Nonces : IssueNonce(r, n)
             \/ LoseNonce(r) \/ TakeNonce(r) \/ TakeFails(r) \/ Verify(r)
      PROVE  QInv'
  <2>1. UNCHANGED <<counter, bucket, admitted, boots, now>>
    BY <1>7 DEF AskNonce, SendHeader, Arrive, IssueNonce, LoseNonce, TakeNonce, TakeFails, Verify
  <2> QED BY <1>1, <2>1
<1> QED BY <1>2, <1>3, <1>4, <1>5, <1>6, <1>7 DEF Next

(* The limiter lets through no more than the limit per window begun since  *)
(* the first request, at each counter: for any number of instances and     *)
(* requests, whenever calls to Upstash fail and instances are replaced.    *)
THEOREM QuotasHold == Spec => []QuotaHolds
<1>1. Init => QInv
  <2> SUFFICES ASSUME Init PROVE QInv
    OBVIOUS
  <2>1. TypeOK
    BY InitIInv DEF IInv
  <2>2. /\ now = 0 /\ admitted = {} /\ bucket = [i \in Instances |-> [k \in Keys |-> None]]
        /\ counter = [k \in Keys |-> [window |-> 0, count |-> 0]]
    BY DEF Init
  <2>3. Admissions /\ QuotaHolds
    BY <2>2, FS_EmptySet DEF Admissions, QuotaHolds
  <2>4. SharedTally
    <3> SUFFICES ASSUME NEW k \in Keys
                 PROVE  /\ counter[k].window <= now \div Window
                        /\ SharedCounted(Same(admitted, k, <<Shared, 0>>), counter[k].window, counter[k].count)
      BY DEF SharedTally
    <3>1. counter[k].window = 0 /\ counter[k].count = 0 /\ 0 \div Window \in Nat
      BY <2>2, WindowType
    <3>2. Same(admitted, k, <<Shared, 0>>) = {}
      BY <2>2 DEF Same
    <3>3. SharedCounted({}, 0, 0)
      <4>1. /\ {b \in {} : b.at \div Window = 0} = {} /\ {b \in {} : b.at \div Window < 0} = {}
            /\ Cardinality({}) = 0 /\ Limit \in Nat
        BY FS_EmptySet, GateAssumption
      <4>2. \A t \in 0 .. 0 : Limit * (0 - t) = 0
        BY <4>1
      <4> QED BY <4>1, <4>2 DEF SharedCounted
    <3> QED BY <2>2, <3>1, <3>2, <3>3
  <2>5. MemoryTally
    BY <2>2 DEF MemoryTally, BucketTally, Same
  <2> QED BY <2>1, <2>3, <2>4, <2>5 DEF QInv
<1>2. QInv /\ [Next]_vars => QInv'
  BY QuotaNext
<1>3. QInv => QuotaHolds
  BY DEF QInv
<1> QED BY <1>1, <1>2, <1>3, PTL DEF Spec

-----------------------------------------------------------------------------
(* ------------------------- who is prompt is served ---------------------- *)

(* With Redis a nonce stays where it was put until a request takes it, and *)
(* no message is of the future.                                            *)
Waiting ==
    upstash => \A n \in Nonces :
        issued[n] # None /\ n \notin spent => store[Shared][n] = issued[n] + NonceTTL

Composed == \A n \in Nonces : draft[n] # None => draft[n].at <= now

LEMMA WaitingStep == IInv /\ Waiting /\ Composed /\ [Next]_vars => (Waiting /\ Composed)'
<1> SUFFICES ASSUME IInv, Waiting, Composed, [Next]_vars PROVE (Waiting /\ Composed)'
  OBVIOUS
<1> USE GateAssumption
<1>0. TypeOK /\ Shared \in Places
  BY DEF IInv, Places
<1>1. CASE Tick \/ UNCHANGED vars
  BY <1>0, <1>1 DEF Tick, vars, server, history, Waiting, Composed, TypeOK, Message
<1>2. ASSUME NEW n \in Nonces, NEW w \in Wallets, NEW skew \in Skews, Compose(n, w, skew)
      PROVE  (Waiting /\ Composed)'
  BY <1>0, <1>2 DEF Compose, server, history, Waiting, Composed, TypeOK
<1>3. ASSUME NEW n \in Nonces, NEW w \in Wallets, Sign(n, w) PROVE (Waiting /\ Composed)'
  <2>1. /\ UNCHANGED <<upstash, store, issued, spent, now>>
        /\ draft[n] # None /\ draft' = [draft EXCEPT ![n].signer = w]
    BY <1>3 DEF Sign, server, history
  <2>2. draft[n] \in Message /\ draft'[n] = [draft[n] EXCEPT !.signer = w]
    BY <1>0, <2>1 DEF TypeOK
  <2>3. draft'[n].at = draft[n].at
    BY <2>2 DEF Message
  <2>4. \A m \in Nonces : m # n => draft'[m] = draft[m]
    BY <1>0, <2>1 DEF TypeOK
  <2> QED BY <2>1, <2>3, <2>4 DEF Waiting, Composed
<1>4. ASSUME NEW i \in Instances, Reboot(i) PROVE (Waiting /\ Composed)'
  <2>1. i # Shared /\ store'[Shared] = store[Shared]
    BY <1>0, <1>4 DEF Reboot, TypeOK
  <2> QED BY <1>4, <2>1 DEF Reboot, Waiting, Composed
<1>5. ASSUME NEW r \in Requests, NEW n \in Nonces, IssueNonce(r, n) PROVE (Waiting /\ Composed)'
  <2>1. /\ UNCHANGED <<upstash, spent, draft, now>>
        /\ store' = [store EXCEPT ![PlaceOf(r)][n] = now + NonceTTL]
        /\ issued' = [issued EXCEPT ![n] = now]
    BY <1>5 DEF IssueNonce
  <2>2. CASE upstash
    <3>1. PlaceOf(r) = Shared
      BY <2>2 DEF PlaceOf
    <3>2. \A m \in Nonces :
            /\ store'[Shared][m] = IF m = n THEN now + NonceTTL ELSE store[Shared][m]
            /\ issued'[m] = IF m = n THEN now ELSE issued[m]
      BY <1>0, <2>1, <3>1 DEF TypeOK
    <3> QED BY <2>1, <2>2, <3>2 DEF Waiting, Composed
  <2>3. CASE ~upstash
    BY <2>1, <2>3 DEF Waiting, Composed
  <2> QED BY <2>2, <2>3
<1>6. ASSUME NEW r \in Requests, TakeNonce(r) \/ TakeFails(r) PROVE (Waiting /\ Composed)'
  <2> DEFINE n == request[r].nonce
  <2>1. UNCHANGED <<upstash, issued, draft, now>>
    BY <1>6 DEF TakeNonce, TakeFails
  <2>2. \/ UNCHANGED <<store, spent>>
        \/ \E p \in Places : store' = Without(p, n) /\ spent' = spent \cup {n}
    <3>1. At(r, "take")
      BY <1>6 DEF TakeNonce, TakeFails
    <3>2. PlaceOf(r) \in Places
      BY <1>0, <3>1, AtType
    <3> QED BY <1>0, <1>6, <3>2 DEF TakeNonce, TakeFails
  <2>3. CASE UNCHANGED <<store, spent>>
    BY <2>1, <2>3 DEF Waiting, Composed
  <2>4. ASSUME NEW p \in Places, store' = Without(p, n), spent' = spent \cup {n}
        PROVE  (Waiting /\ Composed)'
    <3>1. n \in Nonces
      BY <1>0, <1>6, AtType DEF TakeNonce, TakeFails
    <3>2. \A m \in Nonces : m # n => store'[Shared][m] = store[Shared][m]
      BY <1>0, <2>4, <3>1, WithoutType
    <3> QED BY <2>1, <2>4, <3>2 DEF Waiting, Composed
  <2> QED BY <2>2, <2>3, <2>4
<1>7. ASSUME NEW r \in Requests,
             \/ \E i \in Instances, c \in Clients : AskNonce(r, i, c)
             \/ \E i \in Instances, c \in Clients, n \in Nonces : SendHeader(r, i, c, n)
             \/ RateLimit(r) \/ LoseNonce(r) \/ Verify(r)
      PROVE  (Waiting /\ Composed)'
  <2>1. UNCHANGED <<upstash, store, issued, spent, draft, now>>
    BY <1>7 DEF AskNonce, SendHeader, Arrive, RateLimit, LoseNonce, Verify
  <2> QED BY <2>1 DEF Waiting, Composed
<1> QED BY <1>1, <1>2, <1>3, <1>4, <1>5, <1>6, <1>7 DEF Next

(* A genuine header that comes promptly gets its nonce, ...                *)
LEMMA PromptTakes ==
    ASSUME IInv, Waiting, upstash, NEW r \in Requests, NEW n, n = request[r].nonce,
           TakeNonce(r), n \notin spent, Prompt(n)
    PROVE  request'[r] # Idle
<1> USE GateAssumption
<1>1. /\ TypeOK /\ At(r, "take") /\ request[r] \in InProgress /\ n \in Nonces
      /\ PlaceOf(r) = Shared /\ Shared \in Places
  BY AtType DEF IInv, TakeNonce, PlaceOf, Places
<1>2. draft[n] # None /\ issued[n] # None /\ now \in Nat /\ issued[n] \in Nat
  BY <1>1 DEF IInv, Signed, Dated, At, TypeOK
<1>3. store[Shared][n] = issued[n] + NonceTTL
  BY <1>1, <1>2 DEF Waiting
<1>4. Promptly <= NonceTTL - 1 /\ Promptly \in Int
  BY DEF Promptly
<1>5. now < store[Shared][n] /\ store[Shared][n] # None
  BY <1>2, <1>3, <1>4 DEF Prompt
<1>6. Held(PlaceOf(r), n)
  BY <1>1, <1>5 DEF Held
<1>7. request' = [request EXCEPT ![r].step = "verify", ![r].taken = now]
  BY <1>6 DEF TakeNonce
<1>8. request'[r] = [request[r] EXCEPT !.step = "verify", !.taken = now]
  BY <1>1, <1>7 DEF TypeOK
<1>9. request'[r] \in InProgress
  BY <1>1, <1>2, <1>8 DEF InProgress
<1> QED BY <1>9, AbsenceAssumption

(* ... and is accepted, when its browser's clock is within the tolerance.  *)
LEMMA PromptPasses ==
    ASSUME IInv, Composed, NEW r \in Requests, NEW n, n = request[r].nonce,
           Verify(r), Prompt(n)
    PROVE  accepted' # accepted
<1> USE GateAssumption
<1>1. TypeOK /\ At(r, "verify") /\ request[r] \in InProgress /\ n \in Nonces
  BY AtType DEF IInv, Verify
<1>2. draft[n] # None /\ issued[n] # None /\ now \in Nat /\ issued[n] \in Nat
  BY <1>1 DEF IInv, Signed, Dated, At, TypeOK
<1>3. draft[n].timestamp \in Int /\ draft[n].at \in Nat
  BY <1>1, <1>2 DEF TypeOK, Message
<1>4. issued[n] <= draft[n].at /\ draft[n].at <= now
  BY <1>1, <1>2 DEF IInv, Dated, Composed
<1>5. Promptly <= TimestampWindow - SkewTolerance /\ Promptly \in Int
  BY DEF Promptly
<1>6. Timely(draft[n]) /\ Genuine(draft[n])
  BY <1>2, <1>3, <1>4, <1>5 DEF Timely, Prompt, Near
<1>7. \A a \in accepted : a.nonce # n
  BY <1>1 DEF IInv, OnePlace, Verifying
<1> DEFINE a == [nonce |-> n, taken |-> request[r].taken, serial |-> Cardinality(accepted)]
<1>8. accepted' = accepted \cup {a}
  BY <1>6 DEF Verify
<1>9. a.nonce = n
  OBVIOUS
<1> HIDE DEF a
<1> QED BY <1>7, <1>8, <1>9

(* With Redis nobody who is prompt is turned away for the nonce, however   *)
(* many instances there are and whatever befalls them in between.          *)
THEOREM WhoIsPromptIsServed == Spec => PromptIsServed
<1> DEFINE PInv == IInv /\ Waiting /\ Composed
           Served == upstash => \A r \in Requests :
                       LET n == request[r].nonce IN
                       /\ TakeNonce(r) /\ n \notin spent /\ Prompt(n) => request'[r] # Idle
                       /\ Verify(r) /\ Prompt(n) => accepted' # accepted
<1>1. Init => PInv
  <2> SUFFICES ASSUME Init PROVE PInv
    OBVIOUS
  <2>1. Waiting /\ Composed
    BY DEF Init, Waiting, Composed
  <2> QED BY <2>1, InitIInv
<1>2. PInv /\ [Next]_vars => PInv'
  BY InvStep, WaitingStep
<1>3. PInv => Served
  BY PromptTakes, PromptPasses
<1>4. PInv /\ [Next]_vars => [Served]_vars
  BY <1>3
<1> HIDE DEF PInv, Served
<1>5. Spec => [][Served]_vars
  BY <1>1, <1>2, <1>4, PTL DEF Spec
<1> QED BY <1>5 DEF Served, PromptIsServed
=============================================================================
