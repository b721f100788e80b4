--------------------------- MODULE GateProperties ---------------------------
(***************************************************************************)
(* What the guards promise to the routes behind them and to the browsers   *)
(* in front of them.                                                       *)
(***************************************************************************)
EXTENDS Gate

(* The type invariant. *)
TypeOK ==
    /\ now \in 0 .. MaxTime
    /\ upstash \in BOOLEAN
    /\ store \in [Places -> [Nonces -> Nat \cup {None}]]
    /\ counter \in [Keys -> [window : Nat, count : Nat]]
    /\ bucket \in [Instances -> [Keys -> Bucket \cup {None}]]
    /\ draft \in [Nonces -> Message \cup {None}]
    /\ request \in [Requests -> InProgress \cup {Idle}]
    /\ \A r \in Requests : At(r, "take") \/ At(r, "verify") => request[r].nonce # None
    /\ issued \in [Nonces -> Nat \cup {None}]
    /\ spent \subseteq Nonces
    /\ \A a \in accepted : a.nonce \in Nonces
    /\ arrivals \in 0 .. MaxRequests
    /\ boots \in [Instances -> 1 .. MaxBoots]

(* A nonce opens a route at most once, though its header may arrive any    *)
(* number of times, at several instances at once, before and after an      *)
(* instance is replaced, and though Upstash may fail while it deletes.     *)
NonceUsedOnce == \A a, b \in accepted : a.nonce = b.nonce => a = b

(* A request that reached its handler was signed by the wallet it speaks   *)
(* for.  It is the nonce that limits how long a header is good: whatever   *)
(* the browser's clock says, it was taken less than NonceTTL after its     *)
(* message was composed.                                                   *)
HeaderExpires ==
    \A a \in accepted : LET message == draft[a.nonce] IN
        /\ message.signer = message.wallet
        /\ a.taken < message.at + NonceTTL

(* Windows a counter has begun between two times: those of Upstash are     *)
(* aligned to the clock, those in memory begin with a request.             *)
WindowsBegun(place, from, to) ==
    IF place[1] = Shared THEN to \div Window - from \div Window + 1
                         ELSE (to - from) \div Window + 1

(* The limiter's promise: since its first request a counter has let        *)
(* through at most the limit per window begun.  There are as many counters *)
(* as places: an instance whose call to Upstash fails counts on its own,   *)
(* and so does the instance that replaces it.                              *)
QuotaHolds ==
    \A a \in admitted :
        LET same == {b \in admitted : b.key = a.key /\ b.place = a.place} IN
        \A last \in same : (\A b \in same : b.at >= a.at) =>
            Cardinality({b \in same : b.at <= last.at})
              <= Limit * WindowsBegun(a.place, a.at, last.at)
-----------------------------------------------------------------------------
Near(a, b, distance) == a - b <= distance /\ b - a <= distance

(* The time a browser has from asking for the nonce to the verification,   *)
(* the user's hesitation over the wallet's dialogue included.              *)
Promptly ==
    IF NonceTTL - 1 < TimestampWindow - SkewTolerance
    THEN NonceTTL - 1 ELSE TimestampWindow - SkewTolerance

Prompt(n) ==
    /\ Genuine(draft[n])
    /\ Near(draft[n].timestamp, draft[n].at, SkewTolerance)
    /\ now <= issued[n] + Promptly

(* With a shared store nobody who is prompt is turned away for the nonce:  *)
(* the first copy of a genuine header to get past the limiter is accepted, *)
(* on whichever instance, if the browser's clock is within the tolerance.  *)
PromptIsServed ==
    [][upstash => \A r \in Requests :
         LET n == request[r].nonce IN
         /\ TakeNonce(r) /\ n \notin spent /\ Prompt(n) => request'[r] # Idle
         /\ Verify(r) /\ Prompt(n) => accepted' # accepted]_vars
=============================================================================
