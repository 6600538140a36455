-------------------------- MODULE BearerKeysProofs --------------------------
(***************************************************************************)
(* Proofs about BearerKeys for any set of requests and keys, any lifetimes *)
(* and any clock.                                                          *)
(*                                                                         *)
(* BearerInv is the inductive invariant.  ClockInv ties what was published *)
(* to the clock, CacheInv the freshness of the snapshot to what was        *)
(* published, RequestInv every stage of a request to the second at which   *)
(* its key was last published, and ReserveInv the refreshes for unknown    *)
(* keys to the reservation that the next one reads.                        *)
(***************************************************************************)
EXTENDS BearerKeys, TLAPS

Stages == {"new", "lookup", "waiting", "fetching", "fetched", "keyed", "passed", "denied", "gone"}
RequestRecords ==
    [at : Stages, kid : Kids \cup {Absent}, now : Nat, observed : Nat,
     unknown : BOOLEAN, body : SUBSET Kids, freshFor : Nat, since : Nat]

TypeInv ==
    /\ seconds \in Nat
    /\ published \in SUBSET Kids
    /\ lastPublished \in [Kids -> Nat]
    /\ jwks \in [keys : SUBSET Kids, freshUntil : Nat, revision : Nat]
    /\ lastUnknown \in Nat \cup {Absent}
    /\ missed \in SUBSET (Requests \X Nat)
    /\ request \in [Requests -> RequestRecords]

ClockInv ==
    /\ \A k \in Kids : lastPublished[k] <= seconds
    /\ \A k \in published : lastPublished[k] = seconds

CacheInv == \A k \in jwks.keys : jwks.freshUntil <= lastPublished[k] + Ttl

(* What is known of the request q at each of its stages.                   *)
Arrived(q) == q.now <= seconds
Named(q) == q.at \in {"lookup", "waiting", "fetching", "fetched", "keyed"} => q.kid \in Kids
Overtaken(q) ==
    q.at = "waiting" /\ q.observed # jwks.revision =>
        \A k \in jwks.keys : q.now <= lastPublished[k] + RequestTimeout
Fetching(q) ==
    q.at \in {"fetching", "fetched"} =>
        q.now <= q.since /\ q.since <= seconds /\ seconds <= q.since + RequestTimeout
Fetched(q) ==
    q.at = "fetched" => q.freshFor <= Ttl /\ \A k \in q.body : q.since <= lastPublished[k]
Keyed(q) ==
    q.at \in {"keyed", "passed"} /\ q.kid # Absent => q.now <= lastPublished[q.kid] + Longest

RequestOk(q) == Arrived(q) /\ Named(q) /\ Overtaken(q) /\ Fetching(q) /\ Fetched(q) /\ Keyed(q)
RequestInv == \A r \in Requests : RequestOk(request[r])

ReserveInv ==
    /\ \A a \in missed : lastUnknown \in Nat /\ a[2] <= lastUnknown
    /\ UnknownRefreshBounded

BearerInv == TypeInv /\ ClockInv /\ CacheInv /\ RequestInv /\ ReserveInv

-----------------------------------------------------------------------------
(* Longest is at least the lifetime of a snapshot and of a fetch.          *)
LEMMA LongestBounds == Longest \in Nat /\ Ttl <= Longest /\ RequestTimeout <= Longest
BY BearerAssumption DEF Longest

(* The records a request takes when it ends are records of a request.      *)
LEMMA EndedTyped == \A at \in Stages : Ended(at) \in RequestRecords /\ Ended(at).at = at /\ Ended(at).kid = Absent /\ Ended(at).now = 0
BY Zenon DEF Ended, Unasked, RequestRecords, Stages

(* So are the records of a request that moves on with an answer.           *)
LEMMA AnsweredTyped ==
  ASSUME NEW q \in RequestRecords, NEW at \in Stages, NEW keys \in SUBSET Kids
  PROVE  /\ [q EXCEPT !.at = at, !.body = keys] \in RequestRecords
         /\ \A n \in Nat : [q EXCEPT !.at = at, !.body = keys, !.freshFor = n] \in RequestRecords
BY Zenon DEF RequestRecords

(* The initial state: the snapshot is what is published at second zero.    *)
LEMMA InitInv == BearerInit => BearerInv
<1> SUFFICES ASSUME BearerInit PROVE BearerInv
  BY Zenon
<1>1. TypeInv
  BY Zenon, BearerAssumption DEF BearerInit, TypeInv, RequestRecords, Unasked, Stages
<1>2. ClockInv /\ CacheInv
  BY BearerAssumption DEF BearerInit, ClockInv, CacheInv
<1>3. RequestInv
  BY DEF BearerInit, RequestInv, RequestOk, Arrived, Named, Overtaken, Fetching, Fetched, Keyed, Unasked
<1>4. ReserveInv
  BY Zenon DEF BearerInit, ReserveInv, UnknownRefreshBounded
<1> QED BY Zenon, <1>1, <1>2, <1>3, <1>4 DEF BearerInv

-----------------------------------------------------------------------------
(* Every step keeps the types.                                             *)
LEMMA TypeStep == TypeInv /\ [BearerNext]_bearerVars => TypeInv'
<1> SUFFICES ASSUME TypeInv, [BearerNext]_bearerVars PROVE TypeInv'
  BY Zenon
<1> USE DEF TypeInv
<1>1. ASSUME NEW r \in Requests, NEW certificate \in Certificates, NEW token \in Tokens,
             AuthenticateRequest(r, certificate, token)
      PROVE  TypeInv'
  <2>1. Arrival(certificate, token) \in Stages
    BY Zenon DEF Arrival, Stages
  <2>2. Arrival(certificate, token) = "lookup" => token \in Kids
    BY Zenon, <1>1 DEF Arrival, Tokens
  <2>3. Arrival(certificate, token) # "lookup" => Ended(Arrival(certificate, token)) \in RequestRecords
    BY Zenon, <2>1, EndedTyped
  <2>4. Arrival(certificate, token) = "lookup" =>
          [Unasked EXCEPT !.at = Arrival(certificate, token), !.kid = token, !.now = seconds] \in RequestRecords
    BY Zenon, <2>2 DEF Unasked, RequestRecords, Stages
  <2> QED BY Zenon, <1>1, <2>3, <2>4 DEF AuthenticateRequest
<1>2. ASSUME NEW r \in Requests, Lookup(r) PROVE TypeInv'
  <2>1. \A at \in Stages, n \in Nat : [request[r] EXCEPT !.at = at, !.observed = n] \in RequestRecords
    BY Zenon DEF RequestRecords
  <2>2. \E at \in Stages : request' = [request EXCEPT ![r] = [request[r] EXCEPT !.at = at, !.observed = jwks.revision]]
    BY Zenon, <1>2 DEF Lookup, Stages
  <2> QED BY Zenon, <1>2, <2>1, <2>2 DEF Lookup
<1>3. ASSUME NEW r \in Requests, Enter(r) PROVE TypeInv'
  <2>1. request' \in [Requests -> RequestRecords]
    BY <1>3, EndedTyped DEF Enter, End, RequestRecords, Stages
  <2>2. lastUnknown' \in Nat \cup {Absent} /\ missed' \in SUBSET (Requests \X Nat)
    BY <1>3 DEF Enter, RequestRecords
  <2> QED BY Zenon, <1>3, <2>1, <2>2 DEF Enter
<1>4. ASSUME NEW r \in Requests, NEW freshFor \in {0, Ttl}, Fetch(r, freshFor) PROVE TypeInv'
  <2>1. [request[r] EXCEPT !.at = "fetched", !.body = published, !.freshFor = freshFor] \in RequestRecords
    BY Zenon, BearerAssumption, AnsweredTyped DEF Stages
  <2> QED BY Zenon, <1>4, <2>1 DEF Fetch
<1>5. ASSUME NEW r \in Requests, FetchFails(r) PROVE TypeInv'
  BY Zenon, <1>5, EndedTyped DEF FetchFails, End, Stages
<1>6. ASSUME NEW r \in Requests, Store(r) PROVE TypeInv'
  <2>1. request' \in [Requests -> RequestRecords]
    <3>1. [request[r] EXCEPT !.at = "keyed", !.body = {}] \in RequestRecords /\ Ended("denied") \in RequestRecords
      BY Zenon, EndedTyped, AnsweredTyped DEF Stages
    <3> QED BY Zenon, <1>6, <3>1 DEF Store
  <2>2. jwks' \in [keys : SUBSET Kids, freshUntil : Nat, revision : Nat]
    BY <1>6 DEF Store, RequestRecords
  <2> QED BY Zenon, <1>6, <2>1, <2>2 DEF Store, Reservation
<1>7. ASSUME NEW r \in Requests, NEW valid \in BOOLEAN, Decide(r, valid) PROVE TypeInv'
  BY <1>7, EndedTyped DEF Decide, RequestRecords, Stages
<1>8. ASSUME NEW r \in Requests, Disconnect(r) PROVE TypeInv'
  BY Zenon, <1>8, EndedTyped DEF Disconnect, End, Stages
<1>9. ASSUME NEW keys \in (SUBSET Kids) \ {{}}, Rotate(keys) PROVE TypeInv'
  BY Zenon, <1>9 DEF Rotate
<1>10. CASE SecondPasses
  BY <1>10 DEF SecondPasses
<1>11. CASE UNCHANGED bearerVars
  BY Zenon, <1>11 DEF bearerVars
<1> QED BY Zenon, <1>1, <1>2, <1>3, <1>4, <1>5, <1>6, <1>7, <1>8, <1>9, <1>10, <1>11 DEF BearerNext

(* The keys that are published were published until this very second.      *)
LEMMA ClockStep == TypeInv /\ ClockInv /\ [BearerNext]_bearerVars => ClockInv'
<1> SUFFICES ASSUME TypeInv, ClockInv, [BearerNext]_bearerVars PROVE ClockInv'
  BY Zenon
<1> USE DEF TypeInv, ClockInv
<1>1. ASSUME NEW keys \in (SUBSET Kids) \ {{}}, Rotate(keys) PROVE ClockInv'
  BY <1>1 DEF Rotate
<1>2. CASE SecondPasses
  BY <1>2 DEF SecondPasses
<1>3. CASE UNCHANGED <<seconds, published, lastPublished>>
  BY Zenon, <1>3
<1> QED
  BY Zenon, <1>1, <1>2, <1>3 DEF BearerNext, bearerVars, AuthenticateRequest, Lookup, Enter, Fetch, FetchFails, Store,
                          Decide, Disconnect

(* The second at which a key was last published never goes back.           *)
LEMMA PublishedGrows ==
  TypeInv /\ ClockInv /\ [BearerNext]_bearerVars =>
    /\ seconds <= seconds'
    /\ \A k \in Kids : lastPublished[k] <= lastPublished'[k]
<1> SUFFICES ASSUME TypeInv, ClockInv, [BearerNext]_bearerVars
             PROVE  seconds <= seconds' /\ \A k \in Kids : lastPublished[k] <= lastPublished'[k]
  BY Zenon
<1> USE DEF TypeInv, ClockInv
<1>1. ASSUME NEW keys \in (SUBSET Kids) \ {{}}, Rotate(keys)
      PROVE  seconds <= seconds' /\ \A k \in Kids : lastPublished[k] <= lastPublished'[k]
  BY <1>1 DEF Rotate
<1>2. CASE SecondPasses
  BY <1>2 DEF SecondPasses
<1>3. CASE UNCHANGED <<seconds, published, lastPublished>>
  BY <1>3
<1> QED
  BY Zenon, <1>1, <1>2, <1>3 DEF BearerNext, bearerVars, AuthenticateRequest, Lookup, Enter, Fetch, FetchFails, Store,
                          Decide, Disconnect

(* A stored snapshot was published when its fetch was answered, so it is   *)
(* not fresh for longer than a lifetime after that.                        *)
LEMMA CacheStep ==
  TypeInv /\ ClockInv /\ CacheInv /\ RequestInv /\ [BearerNext]_bearerVars => CacheInv'
<1> SUFFICES ASSUME TypeInv, ClockInv, CacheInv, RequestInv, [BearerNext]_bearerVars PROVE CacheInv'
  BY Zenon
<1>1. ASSUME NEW r \in Requests, Store(r) PROVE CacheInv'
  <2>1. request[r].now <= request[r].since /\ request[r].freshFor <= Ttl
    BY Zenon, <1>1 DEF Store, RequestInv, RequestOk, Fetching, Fetched
  <2>2. \A k \in request[r].body : k \in Kids /\ request[r].since <= lastPublished[k]
    BY Zenon, <1>1 DEF Store, TypeInv, RequestRecords, RequestInv, RequestOk, Fetched
  <2>3. request[r].now \in Nat /\ request[r].since \in Nat /\ request[r].freshFor \in Nat
    BY Zenon DEF TypeInv, RequestRecords
  <2>4. jwks'.keys = request[r].body /\ jwks'.freshUntil = request[r].now + request[r].freshFor
        /\ lastPublished' = lastPublished
    BY Zenon, <1>1 DEF Store
  <2> QED BY <2>1, <2>2, <2>3, <2>4, BearerAssumption DEF CacheInv, TypeInv
<1>2. CASE UNCHANGED jwks
  <2>1. \A k \in jwks.keys : k \in Kids
    BY Zenon DEF TypeInv
  <2> QED BY <1>2, <2>1, PublishedGrows, TypeStep, BearerAssumption DEF CacheInv, TypeInv
<1> QED
  BY Zenon, <1>1, <1>2 DEF BearerNext, bearerVars, AuthenticateRequest, Lookup, Enter, Fetch, FetchFails,
                    Decide, Disconnect, Rotate, SecondPasses

-----------------------------------------------------------------------------
(* A request that a step leaves alone keeps what is known of it while the  *)
(* clock stands still and the snapshot is not replaced.                    *)
LEMMA RequestKept ==
  ASSUME TypeInv, ClockInv, [BearerNext]_bearerVars, UNCHANGED <<jwks, seconds>>,
         NEW s \in Requests, RequestOk(request[s]), request'[s] = request[s]
  PROVE  RequestOk(request[s])'
<1>1. \A k \in Kids : lastPublished[k] <= lastPublished'[k] /\ lastPublished[k] \in Nat /\ lastPublished'[k] \in Nat
  BY Zenon, PublishedGrows, TypeStep DEF TypeInv
<1>2. request[s] \in RequestRecords /\ jwks.keys \in SUBSET Kids
  BY Zenon DEF TypeInv
<1>3. (Arrived(request[s]) /\ Named(request[s]))'
  BY Zenon DEF RequestOk, Arrived, Named
<1>4. Overtaken(request[s])'
  BY <1>1, <1>2, BearerAssumption DEF RequestOk, Overtaken, RequestRecords
<1>5. Fetching(request[s])'
  BY Zenon DEF RequestOk, Fetching
<1>6. Fetched(request[s])'
  BY <1>1, <1>2 DEF RequestOk, Fetched, RequestRecords
<1>7. Keyed(request[s])'
  BY <1>1, <1>2, LongestBounds DEF RequestOk, Keyed, RequestRecords
<1> QED BY Zenon, <1>3, <1>4, <1>5, <1>6, <1>7 DEF RequestOk

(* Nothing is claimed of a request that has ended without a key.           *)
LEMMA EndedOk ==
  ASSUME TypeInv', NEW r \in Requests, NEW at \in {"denied", "gone", "passed"}, request'[r] = Ended(at)
  PROVE  RequestOk(request[r])'
<1>1. request'[r].at = at /\ request'[r].kid = Absent /\ request'[r].now = 0
  BY Zenon DEF Ended, Unasked
<1> QED
  BY <1>1 DEF RequestOk, Arrived, Named, Overtaken, Fetching, Fetched, Keyed, TypeInv

(* Every step keeps what is known of the requests.                         *)
LEMMA RequestStep ==
  TypeInv /\ ClockInv /\ CacheInv /\ RequestInv /\ [BearerNext]_bearerVars => RequestInv'
<1> SUFFICES ASSUME TypeInv, ClockInv, CacheInv, RequestInv, [BearerNext]_bearerVars, NEW s \in Requests
             PROVE  RequestOk(request[s])'
  BY Zenon DEF RequestInv
<1>0. RequestOk(request[s]) /\ request[s] \in RequestRecords /\ TypeInv'
  BY Zenon, TypeStep DEF RequestInv, TypeInv
<1>1. ASSUME NEW r \in Requests, NEW certificate \in Certificates, NEW token \in Tokens,
             AuthenticateRequest(r, certificate, token)
      PROVE  RequestOk(request[s])'
  <2>1. CASE s # r
    BY Zenon, <1>0, <1>1, <2>1, RequestKept DEF AuthenticateRequest, TypeInv
  <2>2. CASE s = r /\ Arrival(certificate, token) # "lookup"
    <3>1. Arrival(certificate, token) \in {"denied", "passed"}
      BY Zenon, <2>2 DEF Arrival
    <3> QED BY Zenon, <1>0, <1>1, <2>2, <3>1, EndedOk DEF AuthenticateRequest, TypeInv
  <2>3. CASE s = r /\ Arrival(certificate, token) = "lookup"
    <3>1. token \in Kids
      BY Zenon, <1>1, <2>3 DEF Arrival, Tokens
    <3>2. request'[s].at = "lookup" /\ request'[s].kid = token /\ request'[s].now = seconds /\ seconds' = seconds
      BY Zenon, <1>1, <2>3 DEF AuthenticateRequest, TypeInv, Unasked
    <3> QED BY <3>1, <3>2 DEF RequestOk, Arrived, Named, Overtaken, Fetching, Fetched, Keyed, TypeInv
  <2> QED BY Zenon, <2>1, <2>2, <2>3
<1>2. ASSUME NEW r \in Requests, Lookup(r) PROVE RequestOk(request[s])'
  <2>1. CASE s # r
    BY Zenon, <1>0, <1>2, <2>1, RequestKept DEF Lookup, TypeInv
  <2>2. CASE s = r
    <3>1. /\ request'[s].kid = request[s].kid /\ request'[s].now = request[s].now
          /\ request'[s].observed = jwks.revision
          /\ request'[s].at \in {"keyed", "waiting"}
          /\ request'[s].at = "keyed" => CachedFresh(r)
          /\ UNCHANGED <<seconds, jwks, lastPublished>>
      BY Zenon, <1>2, <2>2, <1>0 DEF Lookup, TypeInv, RequestRecords
    <3>2. (Arrived(request[s]) /\ Named(request[s]) /\ Overtaken(request[s]))'
      BY Zenon, <1>0, <1>2, <2>2, <3>1 DEF Lookup, RequestOk, Arrived, Named, Overtaken
    <3>3. Keyed(request[s])'
      BY <1>0, <2>2, <3>1, LongestBounds, BearerAssumption
      DEF CacheInv, CachedFresh, KidOf, Keyed, TypeInv, RequestRecords
    <3> QED BY Zenon, <3>1, <3>2, <3>3 DEF RequestOk, Fetching, Fetched
  <2> QED BY Zenon, <2>1, <2>2
<1>3. ASSUME NEW r \in Requests, Enter(r) PROVE RequestOk(request[s])'
  <2>0. UNCHANGED <<seconds, jwks, lastPublished>> /\ request[r].at = "waiting"
    BY Zenon, <1>3 DEF Enter
  <2>1. CASE s # r
    BY Zenon, <1>0, <1>3, <2>0, <2>1, RequestKept DEF Enter, End, TypeInv
  <2>2. CASE s = r /\ (CachedFresh(r) \/ RefreshedKey(r))
    <3>1. /\ request'[s].kid = request[s].kid /\ request'[s].now = request[s].now
          /\ request'[s].at = "keyed"
      BY <1>0, <1>3, <2>2 DEF Enter, TypeInv, RequestRecords
    <3>2. request[s].now <= lastPublished[request[s].kid] + Longest
      BY <1>0, <2>0, <2>2, LongestBounds, BearerAssumption
      DEF CacheInv, CachedFresh, RefreshedKey, KidOf, TypeInv, RequestRecords, RequestOk, Overtaken
    <3> QED
      BY Zenon, <1>0, <2>0, <2>2, <3>1, <3>2 DEF RequestOk, Arrived, Named, Overtaken, Fetching, Fetched, Keyed
  <2>3. CASE s = r /\ request'[r] = Ended("denied")
    BY Zenon, <1>0, <2>3, EndedOk
  <2>4. CASE s = r /\ request' = [request EXCEPT ![r].at = "fetching", ![r].unknown = (KidOf(r) \notin jwks.keys),
                                                 ![r].since = seconds]
    <3>1. /\ request'[s].kid = request[s].kid /\ request'[s].now = request[s].now
          /\ request'[s].at = "fetching" /\ request'[s].since = seconds
      BY Zenon, <1>0, <2>4 DEF TypeInv, RequestRecords
    <3> QED
      BY <1>0, <2>0, <2>4, <3>1, BearerAssumption
      DEF RequestOk, Arrived, Named, Overtaken, Fetching, Fetched, Keyed, TypeInv, RequestRecords
  <2>5. \/ CachedFresh(r) \/ RefreshedKey(r)
        \/ request' = [request EXCEPT ![r] = Ended("denied")]
        \/ request' = [request EXCEPT ![r].at = "fetching", ![r].unknown = (KidOf(r) \notin jwks.keys),
                                      ![r].since = seconds]
    BY Zenon, <1>3 DEF Enter, End
  <2> QED BY Zenon, <2>1, <2>2, <2>3, <2>4, <2>5 DEF TypeInv
<1>4. ASSUME NEW r \in Requests, NEW freshFor \in {0, Ttl}, Fetch(r, freshFor) PROVE RequestOk(request[s])'
  <2>0. UNCHANGED <<seconds, jwks, lastPublished>> /\ request[r].at = "fetching"
    BY Zenon, <1>4 DEF Fetch
  <2>1. CASE s # r
    BY Zenon, <1>0, <1>4, <2>1, RequestKept DEF Fetch, TypeInv
  <2>2. CASE s = r
    <3>1. /\ request'[s].kid = request[s].kid /\ request'[s].now = request[s].now
          /\ request'[s].since = request[s].since
          /\ request'[s].at = "fetched" /\ request'[s].body = published /\ request'[s].freshFor = freshFor
      BY Zenon, <1>0, <1>4, <2>2 DEF Fetch, TypeInv, RequestRecords
    <3>2. Fetched(request[s])'
      BY <1>0, <2>0, <2>2, <3>1, BearerAssumption DEF Fetched, RequestOk, Fetching, ClockInv, TypeInv, RequestRecords
    <3> QED
      BY Zenon, <1>0, <2>0, <2>2, <3>1, <3>2 DEF RequestOk, Arrived, Named, Overtaken, Fetching, Keyed
  <2> QED BY Zenon, <2>1, <2>2
<1>5. ASSUME NEW r \in Requests, FetchFails(r) \/ Disconnect(r) PROVE RequestOk(request[s])'
  <2>1. CASE s # r
    BY Zenon, <1>0, <1>5, <2>1, RequestKept DEF FetchFails, Disconnect, End, TypeInv
  <2>2. CASE s = r
    BY Zenon, <1>0, <1>5, <2>2, EndedOk DEF FetchFails, Disconnect, End, TypeInv
  <2> QED BY Zenon, <2>1, <2>2
<1>6. ASSUME NEW r \in Requests, Store(r) PROVE RequestOk(request[s])'
  <2>0. UNCHANGED <<seconds, lastPublished>> /\ request[r].at = "fetched" /\ jwks'.keys = request[r].body
    BY Zenon, <1>6 DEF Store
  <2>1. /\ request[r] \in RequestRecords
        /\ request[r].now <= request[r].since
        /\ seconds <= request[r].since + RequestTimeout
        /\ \A k \in request[r].body : k \in Kids /\ request[r].since <= lastPublished[k]
    BY Zenon, <2>0 DEF RequestInv, RequestOk, Fetching, Fetched, TypeInv, RequestRecords
  <2>2. CASE s # r
    <3>1. request'[s] = request[s]
      BY Zenon, <1>6, <2>2 DEF Store, TypeInv
    <3>2. Overtaken(request[s])'
      <4>1. ASSUME NEW k \in request[r].body PROVE request[s].now <= lastPublished[k] + RequestTimeout
        BY <1>0, <2>1, BearerAssumption DEF RequestOk, Arrived, TypeInv, RequestRecords
      <4> QED BY Zenon, <2>0, <3>1, <4>1 DEF Overtaken
    <3> QED
      BY Zenon, <1>0, <2>0, <3>1, <3>2 DEF RequestOk, Arrived, Named, Fetching, Fetched, Keyed
  <2>3. CASE s = r /\ KidOf(r) \in request[r].body
    <3>1. /\ request'[s].kid = request[s].kid /\ request'[s].now = request[s].now
          /\ request'[s].at = "keyed"
      BY Zenon, <1>0, <1>6, <2>3 DEF Store, TypeInv, RequestRecords
    <3>2. request[s].now <= lastPublished[request[s].kid] + Longest
      BY <2>1, <2>3, LongestBounds DEF KidOf, TypeInv, RequestRecords
    <3> QED
      BY Zenon, <1>0, <2>0, <2>3, <3>1, <3>2 DEF RequestOk, Arrived, Named, Overtaken, Fetching, Fetched, Keyed
  <2>4. CASE s = r /\ KidOf(r) \notin request[r].body
    BY Zenon, <1>0, <1>6, <2>4, EndedOk DEF Store, TypeInv
  <2> QED BY Zenon, <2>2, <2>3, <2>4
<1>7. ASSUME NEW r \in Requests, NEW valid \in BOOLEAN, Decide(r, valid) PROVE RequestOk(request[s])'
  <2>0. UNCHANGED <<seconds, jwks, lastPublished>> /\ request[r].at = "keyed"
    BY Zenon, <1>7 DEF Decide
  <2>1. CASE s # r
    BY Zenon, <1>0, <1>7, <2>1, RequestKept DEF Decide, TypeInv
  <2>2. CASE s = r /\ valid
    <3>1. /\ request'[s].kid = request[s].kid /\ request'[s].now = request[s].now
          /\ request'[s].at = "passed"
      BY Zenon, <1>0, <1>7, <2>2 DEF Decide, TypeInv, RequestRecords
    <3> QED
      BY Zenon, <1>0, <2>0, <2>2, <3>1 DEF RequestOk, Arrived, Named, Overtaken, Fetching, Fetched, Keyed
  <2>3. CASE s = r /\ ~valid
    BY Zenon, <1>0, <1>7, <2>3, EndedOk DEF Decide, TypeInv
  <2> QED BY Zenon, <2>1, <2>2, <2>3
<1>8. ASSUME NEW keys \in (SUBSET Kids) \ {{}}, Rotate(keys) PROVE RequestOk(request[s])'
  BY Zenon, <1>0, <1>8, RequestKept DEF Rotate
<1>9. CASE SecondPasses
  <2>1. /\ UNCHANGED <<jwks, request>> /\ seconds' = seconds + 1 /\ seconds \in Nat
        /\ request[s].at \in {"fetching", "fetched"} => seconds < request[s].since + RequestTimeout
    BY Zenon, <1>9 DEF SecondPasses, TypeInv
  <2>2. \A k \in Kids : lastPublished[k] <= lastPublished'[k] /\ lastPublished[k] \in Nat /\ lastPublished'[k] \in Nat
    BY Zenon, <1>0, PublishedGrows DEF TypeInv
  <2>3. (Arrived(request[s]) /\ Named(request[s]) /\ Fetching(request[s]))'
    BY <1>0, <2>1, BearerAssumption DEF RequestOk, Arrived, Named, Fetching, RequestRecords
  <2>4. Overtaken(request[s])'
    BY <1>0, <2>1, <2>2, BearerAssumption DEF RequestOk, Overtaken, RequestRecords, TypeInv
  <2>5. Fetched(request[s])'
    BY <1>0, <2>1, <2>2 DEF RequestOk, Fetched, RequestRecords
  <2>6. Keyed(request[s])'
    BY <1>0, <2>1, <2>2, LongestBounds DEF RequestOk, Keyed, RequestRecords
  <2> QED BY Zenon, <2>3, <2>4, <2>5, <2>6 DEF RequestOk
<1>10. CASE UNCHANGED bearerVars
  BY Zenon, <1>0, <1>10, RequestKept DEF bearerVars
<1> QED BY Zenon, <1>1, <1>2, <1>3, <1>4, <1>5, <1>6, <1>7, <1>8, <1>9, <1>10 DEF BearerNext

(* A refresh for an unknown key is reserved before it is made: it starts   *)
(* an interval after the last one, and only one that finds its key clears  *)
(* the reservation.                                                        *)
LEMMA ReserveStep ==
  TypeInv /\ ReserveInv /\ [BearerNext]_bearerVars => ReserveInv'
<1> SUFFICES ASSUME TypeInv, ReserveInv, [BearerNext]_bearerVars PROVE ReserveInv'
  BY Zenon
<1>1. ASSUME NEW r \in Requests, Enter(r) PROVE ReserveInv'
  <2>1. CASE UNCHANGED <<lastUnknown, missed>>
    BY Zenon, <2>1 DEF ReserveInv, UnknownRefreshBounded
  <2>2. CASE /\ ~Refused(r)
             /\ lastUnknown' = request[r].now
             /\ missed' = missed \cup {<<r, request[r].now>>}
    <3>1. request[r].now \in Nat /\ \A a \in missed : a[2] \in Nat
      BY Zenon DEF TypeInv, RequestRecords
    <3>2. \A a \in missed : a[2] + RefreshInterval <= request[r].now
      BY <2>2, <3>1, BearerAssumption DEF ReserveInv, Refused
    <3>3. \A a \in missed' : lastUnknown' \in Nat /\ a[2] <= lastUnknown'
      BY <2>2, <3>1, <3>2, BearerAssumption
    <3>4. UnknownRefreshBounded'
      BY <2>2, <3>2 DEF ReserveInv, UnknownRefreshBounded
    <3> QED BY Zenon, <3>3, <3>4 DEF ReserveInv
  <2> QED BY Zenon, <1>1, <2>1, <2>2 DEF Enter
<1>2. ASSUME NEW r \in Requests, Store(r) PROVE ReserveInv'
  BY Zenon, <1>2 DEF Store, Reservation, ReserveInv, UnknownRefreshBounded
<1>3. CASE UNCHANGED <<lastUnknown, missed>>
  BY Zenon, <1>3 DEF ReserveInv, UnknownRefreshBounded
<1> QED
  BY Zenon, <1>1, <1>2, <1>3 DEF BearerNext, bearerVars, AuthenticateRequest, Lookup, Fetch, FetchFails,
                          Decide, Disconnect, Rotate, SecondPasses

-----------------------------------------------------------------------------
(* The inductive invariant holds in every reachable state.                 *)
THEOREM BearerInvariance == BearerSpec => []BearerInv
<1>1. BearerInv /\ [BearerNext]_bearerVars => BearerInv'
  BY Zenon, TypeStep, ClockStep, CacheStep, RequestStep, ReserveStep DEF BearerInv
<1> QED BY <1>1, InitInv, PTL DEF BearerSpec

(* key_for: whatever rotations, slow fetches and cancelled requests        *)
(* happen, a token passes only with a key that the provider published at   *)
(* most a freshness period or a fetch before the request sampled its       *)
(* clock.                                                                  *)
THEOREM AcceptedCorrect == BearerSpec => []AcceptedIsCurrent
<1>1. BearerInv => AcceptedIsCurrent
  BY Zenon DEF BearerInv, RequestInv, RequestOk, Keyed, AcceptedIsCurrent, KidOf
<1> QED BY <1>1, BearerInvariance, PTL

(* key_for: the refreshes for unknown keys are an interval apart until one *)
(* finds its key, however many requests miss the cache at once and however *)
(* their fetches end.                                                      *)
THEOREM RefreshCorrect == BearerSpec => []UnknownRefreshBounded
<1>1. BearerInv => UnknownRefreshBounded
  BY Zenon DEF BearerInv, ReserveInv
<1> QED BY <1>1, BearerInvariance, PTL
=============================================================================
