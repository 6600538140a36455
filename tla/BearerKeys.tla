----------------------------- MODULE BearerKeys -----------------------------
(***************************************************************************)
(* Authentication of requests: the middleware decides by client            *)
(* certificate and bearer token, and the verifier keeps a cache of the     *)
(* provider's signing keys.  Requests that miss the cache refresh it one   *)
(* at a time; refreshes for keys nobody knows are limited to one in an     *)
(* interval, whatever became of them.  A request samples the clock once    *)
(* before it looks for its key.                                            *)
(*                                                                         *)
(* Signatures, claims and the form of tokens are abstracted: a token is    *)
(* malformed or names a key, its claims are in time or not, and its        *)
(* subject agrees with the certificate's or not.  A snapshot is fresh for  *)
(* Ttl seconds, or for none when the answer forbids caching.               *)
(***************************************************************************)
EXTENDS Naturals, FiniteSets

CONSTANTS Requests, Kids, Absent,
          Ttl, RefreshInterval,
          RequestTimeout,    \* of a fetch from the provider
          MaxSeconds,        \* bound on the clock
          MaxRotations       \* bound on changes of the provider's keys

ASSUME BearerAssumption ==
    /\ Ttl \in Nat /\ RefreshInterval \in Nat \ {0} /\ RequestTimeout \in Nat
    /\ Absent \notin Nat

VARIABLES authState,              \* which credentials the server is configured for
          seconds,                \* the clock
          published, rotations,   \* the provider's keys
          lastPublished,          \* ghost: the last second each key was published
          jwks,                   \* the cached snapshot
          refresher,              \* the request that holds refresh_lock
          lastUnknown,            \* last_unknown_refresh
          missed,                 \* ghost: the refreshes for unknown keys since one found its key, with their samples
          request

bearerVars == <<authState, seconds, published, rotations, lastPublished, jwks, refresher, lastUnknown, missed, request>>

Unasked == [at |-> "new", kid |-> Absent, now |-> 0, observed |-> 0,
            unknown |-> FALSE, body |-> {}, freshFor |-> 0, since |-> 0]

BearerInit ==
    /\ authState \in {s \in [bearer : BOOLEAN, mtls : BOOLEAN, required : BOOLEAN] :
                        (s.required => s.mtls) /\ (s.bearer \/ s.mtls)}
    /\ seconds = 0 /\ rotations = 0
    /\ published \in (SUBSET Kids) \ {{}}
    /\ lastPublished = [k \in Kids |-> 0]
    /\ jwks = [keys |-> published, freshUntil |-> Ttl, revision |-> 0]
    /\ refresher = Absent /\ lastUnknown = Absent /\ missed = {}
    /\ request = [r \in Requests |-> Unasked]

Ended(at) == [Unasked EXCEPT !.at = at]
End(r, at) == request' = [request EXCEPT ![r] = Ended(at)]

-----------------------------------------------------------------------------
(* The middleware.  Everything up to the verifier happens at once; a token *)
(* is only looked at when the certificate does not deny the request.       *)
Tokens == Kids \cup {Absent, "malformed"}
Certificates == {"mapped", "unmapped", "absent"}

RefusedByCertificate(certificate) ==
    \/ certificate = "mapped" /\ ~authState.mtls
    \/ certificate = "unmapped"
    \/ authState.required /\ certificate = "absent"

Arrival(certificate, token) ==
    IF RefusedByCertificate(certificate) THEN "denied"
    ELSE IF token = Absent THEN IF certificate = "absent" THEN "denied" ELSE "passed"
    ELSE IF token = "malformed" \/ ~authState.bearer THEN "denied"
    ELSE "lookup"

AuthenticateRequest(r, certificate, token) ==
    LET at == Arrival(certificate, token)
    IN  /\ request[r].at = "new"
        /\ request' = [request EXCEPT ![r] =
                IF at # "lookup" THEN Ended(at)
                ELSE [Unasked EXCEPT !.at = at, !.kid = token, !.now = seconds]]
        /\ UNCHANGED <<authState, seconds, published, rotations, lastPublished, jwks, refresher, lastUnknown, missed>>

-----------------------------------------------------------------------------
(* key_for.  The cache is looked at before and under the refresh lock.     *)
KidOf(r) == request[r].kid
CachedFresh(r) == request[r].now < jwks.freshUntil /\ KidOf(r) \in jwks.keys

Lookup(r) ==
    /\ request[r].at = "lookup"
    /\ request' = [request EXCEPT ![r].at = IF CachedFresh(r) THEN "keyed" ELSE "waiting",
                                  ![r].observed = jwks.revision]
    /\ UNCHANGED <<authState, seconds, published, rotations, lastPublished, jwks, refresher, lastUnknown, missed>>

(* A snapshot stored since the request looked is used though it is stale.  *)
RefreshedKeyAny(r) == KidOf(r) \in jwks.keys
RefreshedKey(r) == jwks.revision # request[r].observed /\ KidOf(r) \in jwks.keys

Refused(r) == lastUnknown # Absent /\ request[r].now < lastUnknown + RefreshInterval

Enter(r) ==
    LET unknown == KidOf(r) \notin jwks.keys
    IN  /\ request[r].at = "waiting" /\ refresher = Absent
        /\ IF CachedFresh(r) \/ RefreshedKey(r)
           THEN request' = [request EXCEPT ![r].at = "keyed"] /\ UNCHANGED <<refresher, lastUnknown, missed>>
           ELSE IF unknown /\ Refused(r)
           THEN End(r, "denied") /\ UNCHANGED <<refresher, lastUnknown, missed>>
           ELSE /\ refresher' = r
                /\ lastUnknown' = IF unknown THEN request[r].now ELSE lastUnknown
                /\ missed' = IF unknown THEN missed \cup {<<r, request[r].now>>} ELSE missed
                /\ request' = [request EXCEPT ![r].at = "fetching", ![r].unknown = unknown, ![r].since = seconds]
        /\ UNCHANGED <<authState, seconds, published, rotations, lastPublished, jwks>>

(* The provider's answer, or none; the failure keeps the reservation.      *)
Fetch(r, freshFor) ==
    /\ request[r].at = "fetching"
    /\ request' = [request EXCEPT ![r].at = "fetched", ![r].body = published, ![r].freshFor = freshFor]
    /\ UNCHANGED <<authState, seconds, published, rotations, lastPublished, jwks, refresher, lastUnknown, missed>>
FetchFails(r) ==
    /\ request[r].at \in {"fetching", "fetched"}
    /\ End(r, "denied")
    /\ refresher' = Absent
    /\ UNCHANGED <<authState, seconds, published, rotations, lastPublished, jwks, lastUnknown, missed>>

ReservationCleared(r) == IF request[r].unknown THEN Absent ELSE lastUnknown
Reservation(r) == IF request[r].unknown /\ KidOf(r) \in request[r].body THEN Absent ELSE lastUnknown

Store(r) ==
    LET found == KidOf(r) \in request[r].body
    IN  /\ request[r].at = "fetched"
        /\ jwks' = [keys |-> request[r].body, revision |-> jwks.revision + 1,
                    freshUntil |-> request[r].now + request[r].freshFor]
        /\ lastUnknown' = Reservation(r)
        /\ missed' = IF request[r].unknown /\ found THEN {} ELSE missed
        /\ refresher' = Absent
        /\ request' = [request EXCEPT ![r] = IF found THEN [@ EXCEPT !.at = "keyed", !.body = {}] ELSE Ended("denied")]
        /\ UNCHANGED <<authState, seconds, published, rotations, lastPublished>>

(* The rest of verify and of the middleware: the signature, the claims and *)
(* the agreement of two credentials.                                       *)
Decide(r, valid) ==
    /\ request[r].at = "keyed"
    /\ request' = [request EXCEPT ![r] = IF valid THEN [@ EXCEPT !.at = "passed"] ELSE Ended("denied")]
    /\ UNCHANGED <<authState, seconds, published, rotations, lastPublished, jwks, refresher, lastUnknown, missed>>

(* The client goes away: the request's future is dropped where it waits,   *)
(* and its lock with it.                                                   *)
Disconnect(r) ==
    /\ request[r].at \in {"lookup", "waiting", "fetching", "fetched"}
    /\ End(r, "gone")
    /\ refresher' = IF refresher = r THEN Absent ELSE refresher
    /\ UNCHANGED <<authState, seconds, published, rotations, lastPublished, jwks, lastUnknown, missed>>

-----------------------------------------------------------------------------
(* The provider changes its keys; the clock ticks, and a fetch does not    *)
(* outlast its timeout.                                                    *)
Rotate(keys) ==
    /\ rotations < MaxRotations /\ keys # published
    /\ published' = keys /\ rotations' = rotations + 1
    /\ lastPublished' = [k \in Kids |-> IF k \in published \cup keys THEN seconds ELSE lastPublished[k]]
    /\ UNCHANGED <<authState, seconds, jwks, refresher, lastUnknown, missed, request>>

SecondPasses ==
    /\ seconds < MaxSeconds
    /\ \A r \in Requests : request[r].at \in {"fetching", "fetched"} => seconds < request[r].since + RequestTimeout
    /\ seconds' = seconds + 1
    /\ lastPublished' = [k \in Kids |-> IF k \in published THEN seconds + 1 ELSE lastPublished[k]]
    /\ UNCHANGED <<authState, published, rotations, jwks, refresher, lastUnknown, missed, request>>

BearerNext ==
    \/ \E r \in Requests :
        \/ \E certificate \in Certificates, token \in Tokens : AuthenticateRequest(r, certificate, token)
        \/ Lookup(r) \/ Enter(r) \/ FetchFails(r) \/ Store(r) \/ Disconnect(r)
        \/ \E freshFor \in {0, Ttl} : Fetch(r, freshFor)
        \/ \E valid \in BOOLEAN : Decide(r, valid)
    \/ \E keys \in (SUBSET Kids) \ {{}} : Rotate(keys)
    \/ SecondPasses

BearerSpec == BearerInit /\ [][BearerNext]_bearerVars

-----------------------------------------------------------------------------
Longest == IF Ttl > RequestTimeout THEN Ttl ELSE RequestTimeout

(* The key of a token that passed was published by the provider after the  *)
(* request arrived, or at most a freshness period or a fetch before,       *)
(* whatever rotations and slow refreshes happened in between (key_for).    *)
AcceptedIsCurrent ==
    \A r \in Requests : request[r].at = "passed" /\ KidOf(r) # Absent =>
        request[r].now <= lastPublished[KidOf(r)] + Longest

(* Refreshes for unknown keys that found nothing, failed or were cut off   *)
(* are an interval apart until one finds its key: requests for unknown     *)
(* keys never become one fetch each, in an outage either (key_for).        *)
UnknownRefreshBounded ==
    \A a, b \in missed : a # b => a[2] + RefreshInterval <= b[2] \/ b[2] + RefreshInterval <= a[2]
=============================================================================
