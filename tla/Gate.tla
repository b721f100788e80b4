-------------------------------- MODULE Gate --------------------------------
(***************************************************************************)
(* What stands before every route of the web server: the rate limiter and, *)
(* on the routes that ask for a wallet, the signed nonce.  A request is a  *)
(* process: each await of its guards is a step, so that requests on one or *)
(* several server instances interleave.                                    *)
(*                                                                         *)
(* With Upstash configured the instances share one Redis; without it each  *)
(* keeps nonces and buckets in its own memory, and it counts there, too,   *)
(* whenever a call to Upstash fails.                                       *)
(***************************************************************************)
EXTENDS Integers, FiniteSets

CONSTANTS
    Instances,      \* server instances
    Requests,       \* requests that may be in progress at once
    Clients,        \* browsers, as getClientIp tells them apart
    Wallets,        \* public keys
    Nonces,         \* values of generateNonce, never drawn twice
    Skews,          \* how far browser clocks are ahead
    NonceTTL,       \* NONCE_TTL_SECONDS
    TimestampWindow,        \* TIMESTAMP_WINDOW_MS
    SkewTolerance,  \* CLOCK_SKEW_TOLERANCE_MS
    Limit, Window,  \* rateLimit: { requests, window }
    MaxTime,        \* bound: the clock stops here
    MaxRequests,    \* bound: requests that arrive
    MaxBoots,       \* bound: starts of an instance
    None, Idle, Shared

ASSUME GateAssumption ==
    /\ Skews \subseteq Int
    /\ NonceTTL \in Nat \ {0} /\ TimestampWindow \in Nat /\ SkewTolerance \in Nat
    /\ Limit \in Nat \ {0} /\ Window \in Nat \ {0}
    /\ MaxTime \in Nat /\ MaxRequests \in Nat /\ MaxBoots \in Nat \ {0}
    /\ None \notin Int \cup Nonces \cup Wallets
    /\ Shared \notin Instances

VARIABLES
    now,
    upstash,        \* hasUpstashRedis()
    store,          \* place -> nonce -> expiresAt, or None
    counter,        \* Upstash: key -> the fixed window and its count
    bucket,         \* memoryBuckets: instance -> key -> bucket, or None
    draft,          \* nonce -> the message a browser has composed, or None
    request         \* the requests in progress

(* What happened. *)
VARIABLES
    issued,         \* nonce -> when it was stored, or None
    spent,          \* nonces taken out of a store
    accepted,       \* requests that reached their handler
    admitted,       \* requests the limiter let through
    arrivals,       \* requests that arrived
    boots           \* instance -> how often it started

server  == <<upstash, store, counter, bucket, request>>
history == <<issued, spent, accepted, admitted, arrivals, boots>>
vars    == <<now, server, draft, history>>

Places == Instances \cup {Shared}
Keys   == ({"ip"} \X Clients) \cup ({"header"} \X Nonces)

(* AuthMessage, the key that signs it once it has been signed, and when    *)
(* it was really composed.                                                 *)
Message == [timestamp : Int, wallet : Wallets, signer : Wallets \cup {None}, at : Nat]

Bucket == [count : Nat, reset : Nat]

(* nonce: that of the Authorization header, None for GET /api/auth/nonce;  *)
(* taken: when it was taken out of the store.                              *)
InProgress == [step : {"limit", "issue", "take", "verify"}, instance : Instances,
               client : Clients, nonce : Nonces \cup {None}, taken : Nat]

ASSUME AbsenceAssumption ==
    None \notin Message /\ None \notin Bucket /\ Idle \notin InProgress

Init ==
    /\ now = 0
    /\ upstash \in BOOLEAN
    /\ store = [p \in Places |-> [n \in Nonces |-> None]]
    /\ counter = [k \in Keys |-> [window |-> 0, count |-> 0]]
    /\ bucket = [i \in Instances |-> [k \in Keys |-> None]]
    /\ draft = [n \in Nonces |-> None]
    /\ request = [r \in Requests |-> Idle]
    /\ issued = [n \in Nonces |-> None]
    /\ spent = {}
    /\ accepted = {}
    /\ admitted = {}
    /\ arrivals = 0
    /\ boots = [i \in Instances |-> 1]

Tick ==
    /\ now < MaxTime
    /\ now' = now + 1
    /\ UNCHANGED <<server, draft, history>>
-----------------------------------------------------------------------------
(* -------------------------- the browser -------------------------- *)

(* createAuthHeader writes its message, with its own time, before it asks  *)
(* the wallet ...                                                          *)
Compose(n, wallet, skew) ==
    /\ issued[n] # None /\ draft[n] = None
    /\ draft' = [draft EXCEPT ![n] = [timestamp |-> now + skew, wallet |-> wallet,
                                      signer |-> None, at |-> now]]
    /\ UNCHANGED <<now, server, history>>

(* ... which signs when its user agrees, with the key selected by then. *)
Sign(n, wallet) ==
    /\ draft[n] # None /\ draft[n].signer = None
    /\ draft' = [draft EXCEPT ![n].signer = wallet]
    /\ UNCHANGED <<now, server, history>>

Arrive(r, i, c, n) ==
    /\ request[r] = Idle
    /\ arrivals < MaxRequests
    /\ request' = [request EXCEPT ![r] = [step |-> "limit", instance |-> i,
                                          client |-> c, nonce |-> n, taken |-> 0]]
    /\ arrivals' = arrivals + 1
    /\ UNCHANGED <<now, upstash, store, counter, bucket, draft, issued, spent, accepted, admitted, boots>>

(* GET /api/auth/nonce *)
AskNonce(r, i, c) == Arrive(r, i, c, None)

(* A signed header arrives at any instance, once or (a retry, a second     *)
(* tab, a proxy) again.                                                    *)
SendHeader(r, i, c, n) ==
    /\ draft[n] # None /\ draft[n].signer # None
    /\ Arrive(r, i, c, n)
-----------------------------------------------------------------------------
(* -------------------------- the limiter -------------------------- *)
At(r, step) == request[r] # Idle /\ request[r].step = step

(* The limiter counts by address, on wallet routes by the header's first   *)
(* characters, which are those of its signature.                           *)
Key(r) ==
    IF request[r].nonce = None THEN <<"ip", request[r].client>>
                               ELSE <<"header", request[r].nonce>>

Proceed(r) ==
    request' = [request EXCEPT ![r].step = IF request[r].nonce = None THEN "issue" ELSE "take"]
Leave(r) == request' = [request EXCEPT ![r] = Idle]

(* The limiter's verdict on r, which the counter of place gave. *)
Verdict(r, place, success) ==
    IF success
    THEN /\ Proceed(r)
         /\ LET equal == {a \in admitted : a.key = Key(r) /\ a.place = place /\ a.at = now}
            IN  admitted' = admitted \cup
                    {[key |-> Key(r), place |-> place, at |-> now,
                      serial |-> Cardinality(equal)]}
    ELSE /\ Leave(r)
         /\ UNCHANGED admitted

(* Ratelimit.fixedWindow *)
SharedLimit(r) ==
    LET window == now \div Window
        c      == counter[Key(r)]
        count  == IF c.window = window THEN c.count ELSE 0
    IN  /\ counter' = [counter EXCEPT ![Key(r)] = [window |-> window, count |-> count + 1]]
        /\ Verdict(r, <<Shared, 0>>, count < Limit)
        /\ UNCHANGED bucket

(* Mutant: a copy of the bucket is counted up. *)
NotCounted(b) == b
Counted(b) == [b EXCEPT !.count = @ + 1]

(* memoryRateLimit *)
MemoryLimit(r) ==
    LET i     == request[r].instance
        b     == bucket[i][Key(r)]
        fresh == b = None \/ b.reset <= now
    IN  /\ bucket' = [bucket EXCEPT ![i][Key(r)] =
                        IF fresh THEN [count |-> 1, reset |-> now + Window]
                        ELSE IF b.count < Limit THEN Counted(b)
                        ELSE b]
        /\ Verdict(r, <<i, boots[i]>>, fresh \/ b.count < Limit)
        /\ UNCHANGED counter

(* rateLimit: Upstash when it is configured and answers, otherwise memory. *)
RateLimit(r) ==
    /\ At(r, "limit")
    /\ (upstash /\ SharedLimit(r)) \/ MemoryLimit(r)
    /\ UNCHANGED <<now, upstash, store, draft, issued, spent, accepted,
                   arrivals, boots>>
-----------------------------------------------------------------------------
(* --------------------------- the nonce --------------------------- *)
PlaceOf(r) == IF upstash THEN Shared ELSE request[r].instance

(* Mutant: what was stored never expires. *)
HeldForEver(place, n) == store[place][n] # None
Held(place, n) == store[place][n] # None /\ store[place][n] > now

(* storeNonce *)
IssueNonce(r, n) ==
    /\ At(r, "issue")
    /\ issued[n] = None
    /\ store' = [store EXCEPT ![PlaceOf(r)][n] = now + NonceTTL]
    /\ issued' = [issued EXCEPT ![n] = now]
    /\ Leave(r)
    /\ UNCHANGED <<now, upstash, counter, bucket, draft, spent, accepted, admitted,
                   arrivals, boots>>

(* The answer does not reach the browser: its nonce is nobody's. *)
LoseNonce(r) ==
    /\ At(r, "issue")
    /\ Leave(r)
    /\ UNCHANGED <<now, upstash, store, counter, bucket, draft, issued, spent,
                   accepted, admitted, arrivals, boots>>

(* Mutant: GET instead of GETDEL. *)
Kept(place, n) == store

(* getdel *)
Without(place, n) == [store EXCEPT ![place][n] = None]

TakeNonce(r) ==
    /\ At(r, "take")
    /\ LET n     == request[r].nonce
           place == PlaceOf(r)
       IN  IF Held(place, n)
           THEN /\ store' = Without(place, n)
                /\ spent' = spent \cup {n}
                /\ request' = [request EXCEPT ![r].step = "verify", ![r].taken = now]
           ELSE /\ Leave(r)
                /\ UNCHANGED <<store, spent>>
    /\ UNCHANGED <<now, upstash, counter, bucket, draft, issued, accepted,
                   admitted, arrivals, boots>>

(* Upstash fails; whether it got as far as deleting is not known. *)
TakeFails(r) ==
    /\ At(r, "take") /\ upstash
    /\ LET n == request[r].nonce IN
         \/ UNCHANGED <<store, spent>>
         \/ /\ Held(Shared, n)
            /\ store' = Without(Shared, n)
            /\ spent' = spent \cup {n}
    /\ Leave(r)
    /\ UNCHANGED <<now, upstash, counter, bucket, draft, issued, accepted,
                   admitted, arrivals, boots>>

(* Mutant: no tolerance for a browser whose clock is ahead. *)
TimelyExactly(message) ==
    message.timestamp <= now /\ now - message.timestamp <= TimestampWindow

Timely(message) ==
    /\ message.timestamp <= now + SkewTolerance
    /\ now - message.timestamp <= TimestampWindow

Genuine(message) == message.signer = message.wallet

(* The timestamp and the signature; then the handler of the route. *)
Verify(r) ==
    /\ At(r, "verify")
    /\ LET n == request[r].nonce IN
         accepted' = IF Timely(draft[n]) /\ Genuine(draft[n])
                     THEN accepted \cup {[nonce |-> n, taken |-> request[r].taken,
                                          serial |-> Cardinality(accepted)]}
                     ELSE accepted
    /\ Leave(r)
    /\ UNCHANGED <<now, upstash, store, counter, bucket, draft, issued, spent, admitted, arrivals, boots>>

(* An instance ends and another takes its place: its memory is lost, and   *)
(* so are its requests.                                                    *)
Reboot(i) ==
    /\ \A j \in Instances : boots[j] < MaxBoots
    /\ boots' = [boots EXCEPT ![i] = @ + 1]
    /\ store' = [store EXCEPT ![i] = [n \in Nonces |-> None]]
    /\ bucket' = [bucket EXCEPT ![i] = [k \in Keys |-> None]]
    /\ request' = [r \in Requests |->
                     IF request[r] # Idle /\ request[r].instance = i THEN Idle ELSE request[r]]
    /\ UNCHANGED <<now, upstash, counter, draft, issued, spent, accepted,
                   admitted, arrivals>>

Next ==
    \/ Tick
    \/ \E n \in Nonces, w \in Wallets, skew \in Skews : Compose(n, w, skew)
    \/ \E n \in Nonces, w \in Wallets : Sign(n, w)
    \/ \E i \in Instances : Reboot(i)
    \/ \E r \in Requests :
         \/ \E i \in Instances, c \in Clients : AskNonce(r, i, c)
         \/ \E i \in Instances, c \in Clients, n \in Nonces : SendHeader(r, i, c, n)
         \/ RateLimit(r)
         \/ \E n \in Nonces : IssueNonce(r, n)
         \/ LoseNonce(r) \/ TakeNonce(r) \/ TakeFails(r) \/ Verify(r)

Spec == Init /\ [][Next]_vars
=============================================================================
