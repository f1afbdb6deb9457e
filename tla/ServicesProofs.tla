--------------------------- MODULE ServicesProofs ---------------------------
(***************************************************************************)
(* The traffic proxy's promises, and that the services beside the sync     *)
(* keep theirs together: one clock moves under all of them while any one   *)
(* of them works.                                                          *)
(***************************************************************************)
EXTENDS Services, PushDispatchProofs, AccessProofs, DiscoveryProofs

-----------------------------------------------------------------------------
(* The traffic proxy *)

Fetching(c) == asking[c].state = "fetching"

\* One request at most has the lock, and the area it fetches was stale when it
\* took it.
FetchInv ==
    /\ \A c \in Travellers : Fetching(c) =>
           /\ locked
           /\ asking[c].at <= now
           /\ cache[asking[c].area] # Empty =>
                  cache[asking[c].area] + CacheLife <= asking[c].at
    /\ \A c, d \in Travellers : Fetching(c) /\ Fetching(d) => c = d

QueueInv ==
    /\ \A i \in DOMAIN waiters : asking[waiters[i]].state = "waiting"
    /\ \A i, j \in DOMAIN waiters : waiters[i] = waiters[j] => i = j

\* The cache holds the last of the answers kept.
CachedIsLast ==
    \A area \in Areas :
        /\ cache[area] = Empty <=> fetched[area] = <<>>
        /\ fetched[area] # <<>> => cache[area] = fetched[area][Len(fetched[area])]

TrafficInv ==
    /\ TrafficTypeOK
    /\ IsFiniteSet(Held(cache))
    /\ FetchInv /\ QueueInv /\ CachedIsLast
    /\ OneFetchPerLife

LEMMA TrafficBegins ==
    ASSUME now = 0, TrafficInit PROVE TrafficInv
  <1>1. Held(cache) = {}
    BY DEF TrafficInit, Held
  <1>2. IsFiniteSet(Held(cache)) /\ Cardinality(Held(cache)) = 0
    BY <1>1, FS_EmptySet
  <1>3. \A c \in Travellers : asking[c].state = "away"
    BY DEF TrafficInit, Away
  <1>4. TrafficTypeOK
    <2>1. asking \in [Travellers -> Request]
      BY DEF TrafficInit, Request
    <2>2. waiters \in Seq(Travellers) /\ fetched \in [Areas -> Seq(Nat)]
      BY DEF TrafficInit
    <2>3. cache \in [Areas -> Nat \cup {Empty}] /\ locked \in BOOLEAN
      BY DEF TrafficInit
    <2>4. Cardinality(Held(cache)) <= CacheMax
      BY <1>2, TrafficAssumption
    <2> QED
      BY <2>1, <2>2, <2>3, <2>4 DEF TrafficTypeOK
  <1>5. FetchInv /\ QueueInv /\ CachedIsLast /\ OneFetchPerLife
    BY <1>3 DEF TrafficInit, FetchInv, Fetching, QueueInv, CachedIsLast, OneFetchPerLife
  <1> QED
    BY <1>2, <1>4, <1>5 DEF TrafficInv

LEMMA RequestStates ==
    ASSUME NEW r \in Request
    PROVE  /\ r.state \in {"away", "waiting", "fetching", "routing"}
           /\ r.state \in {"waiting", "fetching"} => r.area \in Areas
           /\ r.state = "fetching" => r.at \in Nat
           /\ r = Away => r.state = "away"
  BY DEF Request, Away

LEMMA AskKeeps ==
    ASSUME TrafficInv, NEW c \in Travellers, NEW area \in Areas, AskIncidents(c, area)
    PROVE  TrafficInv'
  <1>1. PICK r : r = [state |-> "waiting", area |-> area]
    OBVIOUS
  <1>2. /\ asking[c].state = "away"
        /\ asking' = [asking EXCEPT ![c] = r]
        /\ waiters' = Append(waiters, c)
        /\ UNCHANGED <<now, cache, locked, fetched>>
    BY <1>1 DEF AskIncidents, Away
  <1>3. r \in Request /\ r.state = "waiting"
    BY <1>1 DEF Request
  <1>4. /\ asking \in [Travellers -> Request] /\ waiters \in Seq(Travellers)
        /\ asking' \in [Travellers -> Request] /\ waiters' \in Seq(Travellers)
    BY <1>2, <1>3 DEF TrafficInv, TrafficTypeOK
  <1>5. \A d \in Travellers : asking'[d] = IF d = c THEN r ELSE asking[d]
    BY <1>2, <1>4
  <1>6. TrafficTypeOK'
    BY <1>2, <1>4 DEF TrafficInv, TrafficTypeOK, Held
  <1>7. FetchInv'
    BY <1>2, <1>3, <1>5 DEF TrafficInv, FetchInv, Fetching
  <1>8. QueueInv'
    <2>1. /\ DOMAIN waiters' = 1..(Len(waiters) + 1) /\ DOMAIN waiters = 1..Len(waiters)
          /\ Len(waiters) \in Nat
          /\ waiters'[Len(waiters) + 1] = c
          /\ \A i \in DOMAIN waiters : waiters'[i] = waiters[i] /\ waiters[i] \in Travellers
      BY <1>2, <1>4
    <2>2. \A i \in DOMAIN waiters : asking[waiters[i]].state = "waiting" /\ waiters[i] # c
      BY <1>2 DEF TrafficInv, QueueInv
    <2>3. \A i \in DOMAIN waiters' : i \in DOMAIN waiters \/ i = Len(waiters) + 1
      BY <2>1
    <2>4. \A i \in DOMAIN waiters' : asking'[waiters'[i]].state = "waiting"
      BY <1>3, <1>5, <2>1, <2>2, <2>3
    <2>5. \A i, j \in DOMAIN waiters' : waiters'[i] = waiters'[j] => i = j
      BY <2>1, <2>2, <2>3 DEF TrafficInv, QueueInv
    <2> QED
      BY <2>4, <2>5 DEF QueueInv
  <1>9. CachedIsLast' /\ OneFetchPerLife' /\ IsFiniteSet(Held(cache)')
    BY <1>2 DEF TrafficInv, CachedIsLast, OneFetchPerLife, Held
  <1> QED
    BY <1>6, <1>7, <1>8, <1>9 DEF TrafficInv

LEMMA TakeKeeps ==
    ASSUME TrafficInv, NEW c \in Travellers, TakeLock(c)
    PROVE  TrafficInv'
  <1>1. PICK area : area = asking[c].area
    OBVIOUS
  <1>2. PICK r : r = IF Fresh(area) THEN Away ELSE [state |-> "fetching", area |-> area, at |-> now]
    OBVIOUS
  <1>3. /\ asking \in [Travellers -> Request] /\ waiters \in Seq(Travellers)
        /\ locked \in BOOLEAN /\ now \in Nat
        /\ cache \in [Areas -> Nat \cup {Empty}]
    BY DEF TrafficInv, TrafficTypeOK
  <1>4. /\ waiters # <<>> /\ Head(waiters) = c /\ ~locked
        /\ locked' = ~Fresh(area)
        /\ waiters' = Tail(waiters)
        /\ asking' = [asking EXCEPT ![c] = r]
        /\ UNCHANGED <<now, cache, fetched>>
    BY <1>1, <1>2, <1>3 DEF TakeLock, FetchedMeanwhile
  <1>5. asking[c].state = "waiting" /\ area \in Areas
    <2>1. 1 \in DOMAIN waiters /\ waiters[1] = c
      BY <1>3, <1>4
    <2>2. asking[c].state = "waiting"
      BY <2>1 DEF TrafficInv, QueueInv
    <2> QED
      BY <1>1, <1>3, <2>2, RequestStates
  <1>6. r \in Request /\ (Fresh(area) => r.state = "away")
        /\ (~Fresh(area) => r.state = "fetching" /\ r.area = area /\ r.at = now)
    BY <1>2, <1>3, <1>5 DEF Request, Away
  <1>7. /\ asking' \in [Travellers -> Request]
        /\ \A d \in Travellers : asking'[d] = IF d = c THEN r ELSE asking[d]
        /\ waiters' \in Seq(Travellers)
    BY <1>3, <1>4, <1>6
  <1>8. TrafficTypeOK'
    BY <1>4, <1>7 DEF TrafficInv, TrafficTypeOK, Held
  <1>9. \A d \in Travellers : ~Fetching(d)
    BY <1>4 DEF TrafficInv, FetchInv
  <1>10. FetchInv'
    <2>1. CASE Fresh(area)
      BY <1>6, <1>7, <1>9, <2>1 DEF FetchInv, Fetching
    <2>2. CASE ~Fresh(area)
      <3>1. cache[area] # Empty => cache[area] + CacheLife <= now
        BY <1>3, <1>5, <2>2, TrafficAssumption DEF Fresh
      <3>2. locked'
        BY <1>4, <2>2
      <3>3. \A d \in Travellers : Fetching(d)' => d = c
        BY <1>7, <1>9 DEF Fetching
      <3> QED
        BY <1>3, <1>4, <1>6, <1>7, <2>2, <3>1, <3>2, <3>3 DEF FetchInv
    <2> QED
      BY <2>1, <2>2
  <1>11. QueueInv'
    <2>1. /\ DOMAIN waiters' = 1..(Len(waiters) - 1) /\ DOMAIN waiters = 1..Len(waiters)
          /\ Len(waiters) \in Nat \ {0}
          /\ waiters[1] = c
          /\ \A i \in DOMAIN waiters' : waiters'[i] = waiters[i + 1]
      BY <1>3, <1>4
    <2>2. \A i \in DOMAIN waiters' : i + 1 \in DOMAIN waiters /\ i + 1 # 1 /\ i \in Nat
      BY <2>1
    <2>3. \A i \in DOMAIN waiters' : waiters[i + 1] # c /\ waiters[i + 1] \in Travellers
      BY <1>3, <2>1, <2>2 DEF TrafficInv, QueueInv
    <2>4. \A i \in DOMAIN waiters' : asking'[waiters'[i]].state = "waiting"
      BY <1>7, <2>1, <2>2, <2>3 DEF TrafficInv, QueueInv
    <2>5. \A i, j \in DOMAIN waiters' : waiters'[i] = waiters'[j] => i = j
      BY <2>1, <2>2 DEF TrafficInv, QueueInv
    <2> QED
      BY <2>4, <2>5 DEF QueueInv
  <1>12. CachedIsLast' /\ OneFetchPerLife' /\ IsFiniteSet(Held(cache)')
    BY <1>4 DEF TrafficInv, CachedIsLast, OneFetchPerLife, Held
  <1> QED
    BY <1>8, <1>10, <1>11, <1>12 DEF TrafficInv

\* A request that ends, or one that takes neither lock nor place in the queue:
\* nothing but that request and the lock changes.
LEMMA OneMovesOn ==
    ASSUME TrafficInv, NEW c \in Travellers, asking[c].state # "waiting",
           NEW r \in Request, r.state \notin {"fetching", "waiting"},
           asking' = [asking EXCEPT ![c] = r], locked' \in BOOLEAN,
           \A d \in Travellers : d # c /\ Fetching(d) => locked',
           UNCHANGED <<now, cache, waiters, fetched>>
    PROVE  TrafficInv'
  <1>1. asking \in [Travellers -> Request]
    BY DEF TrafficInv, TrafficTypeOK
  <1>2. /\ asking' \in [Travellers -> Request]
        /\ \A d \in Travellers : asking'[d] = IF d = c THEN r ELSE asking[d]
    BY <1>1
  <1>3. TrafficTypeOK'
    BY <1>2 DEF TrafficInv, TrafficTypeOK, Held
  <1>4. FetchInv'
    BY <1>2 DEF TrafficInv, FetchInv, Fetching
  <1>5. QueueInv'
    <2>1. waiters \in Seq(Travellers)
      BY DEF TrafficInv, TrafficTypeOK
    <2>2. \A i \in DOMAIN waiters : waiters[i] \in Travellers /\ waiters[i] # c
      BY <2>1 DEF TrafficInv, QueueInv
    <2> QED
      BY <1>2, <2>2 DEF TrafficInv, QueueInv
  <1>6. CachedIsLast' /\ OneFetchPerLife' /\ IsFiniteSet(Held(cache)')
    BY DEF TrafficInv, CachedIsLast, OneFetchPerLife, Held
  <1> QED
    BY <1>3, <1>4, <1>5, <1>6 DEF TrafficInv

LEMMA OthersKeep ==
    ASSUME TrafficInv, NEW c \in Travellers,
           FetchFails(c) \/ AskReroute(c) \/ RerouteEnds(c)
    PROVE  TrafficInv'
  <1>1. locked \in BOOLEAN /\ Away \in Request /\ Away.state = "away"
    BY DEF TrafficInv, TrafficTypeOK, Request, Away
  <1>2. CASE FetchFails(c)
    <2>1. \A d \in Travellers : d # c => ~Fetching(d)
      BY <1>2 DEF FetchFails, TrafficInv, FetchInv, Fetching
    <2> QED
      BY <1>1, <1>2, <2>1, OneMovesOn DEF FetchFails, LockedAfterFailure
  <1>3. CASE AskReroute(c)
    <2>1. PICK r : r = [state |-> "routing"]
      OBVIOUS
    <2>2. r \in Request /\ r.state = "routing"
      BY <2>1 DEF Request
    <2>3. /\ asking[c].state = "away" /\ asking' = [asking EXCEPT ![c] = r]
          /\ UNCHANGED <<now, cache, locked, waiters, fetched>>
      BY <1>3, <2>1 DEF AskReroute, Away
    <2>4. \A d \in Travellers : Fetching(d) => locked'
      BY <2>3 DEF TrafficInv, FetchInv
    <2> QED
      BY <1>1, <2>2, <2>3, <2>4, OneMovesOn
  <1>4. CASE RerouteEnds(c)
    <2>1. \A d \in Travellers : Fetching(d) => locked'
      BY <1>4 DEF RerouteEnds, TrafficInv, FetchInv
    <2> QED
      BY <1>1, <1>4, <2>1, OneMovesOn DEF RerouteEnds
  <1> QED
    BY <1>2, <1>3, <1>4

LEMMA TrafficRests ==
    ASSUME TrafficInv, now' \in Nat, now <= now', UNCHANGED trafficVars
    PROVE  TrafficInv'
  <1>1. TrafficTypeOK' /\ IsFiniteSet(Held(cache)')
    BY DEF TrafficInv, TrafficTypeOK, trafficVars, Held
  <1>2. \A c \in Travellers : Fetching(c) => asking[c].at \in Nat
    BY RequestStates DEF TrafficInv, TrafficTypeOK, Fetching
  <1>3. FetchInv'
    <2>1. now \in Nat
      BY DEF TrafficInv, TrafficTypeOK
    <2> QED
      BY <1>2, <2>1 DEF TrafficInv, FetchInv, Fetching, trafficVars
  <1>4. QueueInv' /\ CachedIsLast' /\ OneFetchPerLife'
    BY DEF TrafficInv, QueueInv, CachedIsLast, OneFetchPerLife, trafficVars
  <1> QED
    BY <1>1, <1>3, <1>4 DEF TrafficInv

Fitted(new, stored, area) ==
    \/ Cardinality(Held(stored)) <= CacheMax /\ new = stored
    \/ \E old \in Evictable(stored, area) : new = [stored EXCEPT ![old] = Empty]

\* A cache with one area more, or one area fewer, still holds no more than it may.
LEMMA StoredFits ==
    ASSUME TrafficInv, NEW area \in Areas, NEW at \in Nat,
           NEW stored, stored = [cache EXCEPT ![area] = at],
           NEW new, Fitted(new, stored, area)
    PROVE  /\ new \in [Areas -> Nat \cup {Empty}]
           /\ \A a \in Areas : new[a] \in {Empty, IF a = area THEN at ELSE cache[a]}
           /\ IsFiniteSet(Held(new)) /\ Cardinality(Held(new)) <= CacheMax
  <1>1. cache \in [Areas -> Nat \cup {Empty}] /\ stored \in [Areas -> Nat \cup {Empty}]
    BY DEF TrafficInv, TrafficTypeOK
  <1>2. /\ IsFiniteSet(Held(cache)) /\ Cardinality(Held(cache)) <= CacheMax
        /\ Cardinality(Held(cache)) \in Nat /\ CacheMax \in Nat
    BY FS_CardinalityType, TrafficAssumption DEF TrafficInv, TrafficTypeOK
  <1>3. Held(stored) = Held(cache) \cup {area}
    BY <1>1, TrafficAssumption DEF Held
  <1>4. /\ IsFiniteSet(Held(stored)) /\ Cardinality(Held(stored)) <= CacheMax + 1
        /\ Cardinality(Held(stored)) \in Nat
    <2>1. CASE area \in Held(cache)
      <3>1. Held(stored) = Held(cache)
        BY <1>3, <2>1
      <3> QED
        BY <1>2, <3>1
    <2>2. CASE area \notin Held(cache)
      <3>1. PICK held : held = Held(cache)
        OBVIOUS
      <3>2. IsFiniteSet(held \cup {area}) /\ Cardinality(held \cup {area}) = Cardinality(held) + 1
        BY <1>2, <2>2, <3>1, FS_AddElement
      <3>3. Held(stored) = held \cup {area} /\ held = Held(cache)
        BY <1>3, <3>1
      <3>4. IsFiniteSet(Held(stored)) /\ Cardinality(Held(stored)) = Cardinality(Held(cache)) + 1
        BY <3>2, <3>3, Zenon
      <3> QED
        BY <1>2, <3>4
    <2> QED
      BY <2>1, <2>2
  <1>5. CASE Cardinality(Held(stored)) <= CacheMax /\ new = stored
    BY <1>1, <1>4, <1>5
  <1>6. CASE \E old \in Evictable(stored, area) : new = [stored EXCEPT ![old] = Empty]
    <2>1. PICK old \in Evictable(stored, area) : new = [stored EXCEPT ![old] = Empty]
      BY <1>6
    <2>2. old \in Held(stored) /\ old \in Areas
      BY <2>1 DEF Evictable, Held
    <2>3. Held(new) = Held(stored) \ {old}
      BY <1>1, <2>1, <2>2 DEF Held
    <2>4. IsFiniteSet(Held(new)) /\ Cardinality(Held(new)) = Cardinality(Held(stored)) - 1
      <3>1. PICK held : held = Held(stored)
        OBVIOUS
      <3>2. IsFiniteSet(held \ {old}) /\ Cardinality(held \ {old}) = Cardinality(held) - 1
        BY <1>4, <2>2, <3>1, FS_RemoveElement
      <3> QED
        BY <2>3, <3>1, <3>2
    <2>5. Cardinality(Held(new)) <= CacheMax
      BY <1>2, <1>4, <2>4
    <2> QED
      BY <1>1, <2>1, <2>2, <2>4, <2>5
  <1> QED
    BY <1>5, <1>6 DEF Fitted

LEMMA SuccessKeeps ==
    ASSUME TrafficInv, NEW c \in Travellers, FetchSucceeds(c)
    PROVE  TrafficInv'
  <1>1. PICK area : area = asking[c].area
    OBVIOUS
  <1>2. PICK at : at = asking[c].at
    OBVIOUS
  <1>3. PICK stored : stored = [cache EXCEPT ![area] = at]
    OBVIOUS
  <1>4. /\ asking \in [Travellers -> Request] /\ waiters \in Seq(Travellers) /\ now \in Nat
        /\ cache \in [Areas -> Nat \cup {Empty}] /\ fetched \in [Areas -> Seq(Nat)]
        /\ CacheMax \in Nat /\ CacheLife \in Nat /\ Empty \notin Nat
    BY TrafficAssumption DEF TrafficInv, TrafficTypeOK
  <1>5. /\ asking[c].state = "fetching"
        /\ IF Cardinality(Held(stored)) > CacheMax
           THEN \E old \in Evictable(stored, area) : cache' = [stored EXCEPT ![old] = Empty]
           ELSE cache' = stored
        /\ fetched' = [a \in Areas |-> IF cache'[a] = Empty THEN <<>>
                                       ELSE IF a = area THEN Append(fetched[a], at)
                                       ELSE fetched[a]]
        /\ asking' = [asking EXCEPT ![c] = Away]
        /\ locked' = FALSE
        /\ now' = now /\ waiters' = waiters
    BY <1>1, <1>2, <1>3 DEF FetchSucceeds
  <1>6. area \in Areas /\ at \in Nat /\ at <= now
        /\ (cache[area] # Empty => cache[area] + CacheLife <= at)
    BY <1>1, <1>2, <1>4, <1>5, RequestStates DEF TrafficInv, FetchInv, Fetching
  <1>7. PICK new : new = cache'
    OBVIOUS
  <1>8. Fitted(new, stored, area)
    <2>1. IsFiniteSet(Held(cache)) /\ Held(stored) = Held(cache) \cup {area}
      BY <1>3, <1>4, <1>6 DEF TrafficInv, Held
    <2>2. Cardinality(Held(stored)) \in Nat
      BY <2>1, FS_AddElement, FS_CardinalityType
    <2> QED
      BY <1>4, <1>5, <1>7, <2>2 DEF Fitted
  <1>9. /\ new \in [Areas -> Nat \cup {Empty}]
        /\ \A a \in Areas : new[a] \in {Empty, IF a = area THEN at ELSE cache[a]}
        /\ IsFiniteSet(Held(new)) /\ Cardinality(Held(new)) <= CacheMax
    BY <1>3, <1>6, <1>8, StoredFits
  <1>10. IsFiniteSet(Held(cache)') /\ Cardinality(Held(cache)') <= CacheMax
    BY <1>7, <1>9 DEF Held
  <1>11. \A a \in Areas : /\ cache'[a] = Empty \/ cache'[a] = IF a = area THEN at ELSE cache[a]
                          /\ cache'[a] \in Nat \cup {Empty}
    BY <1>7, <1>9
  <1>12. \A a \in Areas : /\ cache'[a] = Empty => fetched'[a] = <<>>
                          /\ cache'[a] # Empty /\ a # area => fetched'[a] = fetched[a]
                          /\ cache'[a] # Empty /\ a = area => fetched'[a] = Append(fetched[a], at)
    BY <1>5
  <1>13. fetched' \in [Areas -> Seq(Nat)]
    <2>1. \A a \in Areas : fetched'[a] \in Seq(Nat)
      <3> TAKE a \in Areas
      <3>1. PICK s \in Seq(Nat) : s = fetched[a]
        BY <1>4
      <3>2. <<>> \in Seq(Nat) /\ Append(s, at) \in Seq(Nat)
        BY <1>6
      <3> QED
        BY <1>12, <3>1, <3>2
    <2>2. fetched' = [a \in Areas |-> fetched'[a]]
      BY <1>5
    <2> QED
      BY <2>1, <2>2
  <1>14. Away \in Request /\ Away.state = "away"
    BY DEF Request, Away
  <1>15. /\ asking' \in [Travellers -> Request]
         /\ \A d \in Travellers : asking'[d] = IF d = c THEN Away ELSE asking[d]
    BY <1>4, <1>5, <1>14
  <1>16. TrafficTypeOK'
    BY <1>4, <1>5, <1>7, <1>9, <1>10, <1>13, <1>15 DEF TrafficTypeOK
  <1>17. FetchInv'
    <2>1. \A d \in Travellers : ~Fetching(d)'
      BY <1>5, <1>14, <1>15 DEF TrafficInv, FetchInv, Fetching
    <2> QED
      BY <2>1 DEF FetchInv
  <1>18. QueueInv'
    <2>1. \A i \in DOMAIN waiters : waiters[i] \in Travellers /\ waiters[i] # c
      BY <1>4, <1>5 DEF TrafficInv, QueueInv
    <2> QED
      BY <1>5, <1>15, <2>1 DEF TrafficInv, QueueInv
  <1>19. ASSUME NEW a \in Areas, cache'[a] # Empty, a = area
         PROVE  /\ fetched'[a] # <<>> /\ cache'[a] = fetched'[a][Len(fetched'[a])]
                /\ \A i \in 2..Len(fetched'[a]) :
                       fetched'[a][i - 1] + CacheLife <= fetched'[a][i]
    <2>1. PICK s : s = fetched[a]
      OBVIOUS
    <2>2. s \in Seq(Nat) /\ fetched'[a] = Append(s, at) /\ cache'[a] = at
      BY <1>4, <1>11, <1>12, <1>19, <2>1
    <2>2a. PICK t : t = Append(s, at)
      OBVIOUS
    <2>3. /\ Len(t) = Len(s) + 1 /\ Len(s) \in Nat /\ t # <<>>
          /\ t[Len(s) + 1] = at
          /\ \A i \in 1..Len(s) : t[i] = s[i]
      BY <1>6, <2>2, <2>2a
    <2>4. \A i \in 2..Len(s) : s[i - 1] + CacheLife <= s[i]
      BY <2>1 DEF TrafficInv, OneFetchPerLife
    <2>5. s # <<>> => s[Len(s)] + CacheLife <= at
      BY <1>4, <1>6, <1>19, <2>1 DEF TrafficInv, CachedIsLast
    <2>6. ASSUME NEW i \in 2..Len(t)
          PROVE  t[i - 1] + CacheLife <= t[i]
      <3>1. i - 1 \in 1..Len(s)
        BY <2>3
      <3>2. CASE i = Len(s) + 1
        <4>1. s # <<>> /\ i - 1 = Len(s)
          BY <2>2, <2>3, <3>1, <3>2
        <4> QED
          BY <2>3, <2>5, <3>1, <3>2, <4>1
      <3>3. CASE i # Len(s) + 1
        <4>1. i \in 2..Len(s) /\ i \in 1..Len(s)
          BY <2>3, <3>3
        <4> QED
          BY <2>3, <2>4, <3>1, <4>1
      <3> QED
        BY <3>2, <3>3
    <2> QED
      BY <2>2, <2>2a, <2>3, <2>6
  <1>20. CachedIsLast'
    <2> SUFFICES ASSUME NEW a \in Areas
                 PROVE  /\ cache'[a] = Empty <=> fetched'[a] = <<>>
                        /\ fetched'[a] # <<>> => cache'[a] = fetched'[a][Len(fetched'[a])]
      BY DEF CachedIsLast
    <2>1. CASE cache'[a] = Empty
      BY <1>12, <2>1
    <2>2. CASE cache'[a] # Empty /\ a = area
      BY <1>19, <2>2
    <2>3. CASE cache'[a] # Empty /\ a # area
      BY <1>11, <1>12, <2>3 DEF TrafficInv, CachedIsLast
    <2> QED
      BY <2>1, <2>2, <2>3
  <1>21. OneFetchPerLife'
    <2> SUFFICES ASSUME NEW a \in Areas, NEW i \in 2..Len(fetched'[a])
                 PROVE  fetched'[a][i - 1] + CacheLife <= fetched'[a][i]
      BY DEF OneFetchPerLife
    <2>1. CASE cache'[a] = Empty
      BY <1>12, <2>1
    <2>2. CASE cache'[a] # Empty /\ a = area
      BY <1>19, <2>2
    <2>3. CASE cache'[a] # Empty /\ a # area
      BY <1>12, <2>3 DEF TrafficInv, OneFetchPerLife
    <2> QED
      BY <2>1, <2>2, <2>3
  <1> QED
    BY <1>10, <1>16, <1>17, <1>18, <1>20, <1>21 DEF TrafficInv

LEMMA TrafficKeeps ==
    ASSUME TrafficInv, TrafficNext PROVE TrafficInv'
  <1>1. CASE TrafficTick
    <2>1. now' \in Nat /\ now <= now' /\ UNCHANGED trafficVars
      BY <1>1 DEF TrafficTick, TickTo, TrafficInv, TrafficTypeOK
    <2> QED
      BY <2>1, TrafficRests
  <1> QED
    BY <1>1, AskKeeps, TakeKeeps, SuccessKeeps, OthersKeep DEF TrafficNext

\* One request at a time fetches, of an area that was stale when it began, and what
\* the cache holds is the last of the answers kept.
THEOREM TrafficInvariant == TrafficSpec => []TrafficInv
  <1>1. now = 0 /\ TrafficInit => TrafficInv
    BY TrafficBegins
  <1>2. TrafficInv /\ [TrafficNext]_<<now, trafficVars>> => TrafficInv'
    <2> SUFFICES ASSUME TrafficInv, [TrafficNext]_<<now, trafficVars>> PROVE TrafficInv'
      OBVIOUS
    <2>1. CASE UNCHANGED <<now, trafficVars>>
      <3>1. now' \in Nat /\ now <= now' /\ UNCHANGED trafficVars
        BY <2>1 DEF TrafficInv, TrafficTypeOK
      <3> QED
        BY <3>1, TrafficRests
    <2> QED
      BY <2>1, TrafficKeeps
  <1> QED
    BY <1>1, <1>2, PTL DEF TrafficSpec

\* However many travellers miss an area at once, and wherever a fetch fails or an
\* area has to make room, the provider is asked again with success only once its
\* last answer is past its life (traffic.py).
THEOREM OneFetchPerLifeAlways == TrafficSpec => []OneFetchPerLife
  <1>1. TrafficInv => OneFetchPerLife
    BY DEF TrafficInv
  <1> QED
    BY <1>1, TrafficInvariant, PTL

-----------------------------------------------------------------------------
(* The services together *)

\* Nobody registers a code while another desk is open.
NoRegistration == \A t \in Registrars : registering[t] = Ended

ServicesInv ==
    /\ AttemptInv
    /\ PublishInv /\ CapInv
    /\ DiscoveryInv
    /\ RatingTypeOK /\ RatingsAddUp
    /\ CodeInv /\ (desk = "codes" \/ NoRegistration)
    /\ LookupInv
    /\ TrafficInv

\* No step of any of them turns the clock back.
LEMMA ClockForward ==
    ASSUME now \in Nat, PushNext \/ GrantNext \/ DiscoveryNext \/ CodeNext \/ LookupNext \/ TrafficNext
    PROVE  now' \in Nat /\ now <= now'
  <1>1. PushNext => UNCHANGED now \/ PushTick
    BY DEF PushNext, Sync, Register, Revoke, NothingToTell, BeginDispatch,
       AlreadyAttempted, Attempt, CommitDispatch, LoseTask
  <1>2. GrantNext => UNCHANGED now \/ GrantTick
    BY DEF GrantNext, CreateArrives, CreateCounts, CreateCommits, PublishReads,
       PublishWrites, RevokeGrant, PurgeGrants
  <1>3. DiscoveryNext => UNCHANGED now \/ DiscoveryTick
    BY DEF DiscoveryNext, SubmitReads, SubmitCommits, ReviewReads, ReviewCommits,
       ApproveFlushes, ApproveCommits, PurgeSuggestions
  <1>4. CodeNext => UNCHANGED now \/ CodeTick
    BY DEF CodeNext, RegisterReads, RegisterCommits, CreatePlan, PurgeCodes
  <1>5. LookupNext => UNCHANGED now \/ LookupTick
    BY DEF LookupNext, Lookup
  <1>6. TrafficNext => UNCHANGED now \/ TrafficTick
    BY DEF TrafficNext, AskIncidents, TakeLock, FetchSucceeds, FetchFails, AskReroute,
       RerouteEnds
  <1> QED
    BY <1>1, <1>2, <1>3, <1>4, <1>5, <1>6 DEF PushTick, GrantTick, DiscoveryTick, CodeTick,
       LookupTick, TrafficTick, TickTo

\* What the clock's moving does to each of them while another works.
LEMMA AttemptsRest ==
    ASSUME AttemptInv, now' \in Nat, now <= now', UNCHANGED pushVars
    PROVE  AttemptInv'
  <1>1. PushInv'
    BY PushRests DEF AttemptInv
  <1> QED
    BY <1>1, QuietStep DEF pushVars

LEMMA GrantsRest ==
    ASSUME PublishInv, CapInv, now' \in Nat, now <= now', UNCHANGED grantVars
    PROVE  PublishInv' /\ CapInv'
  <1>1. GrantTypeOK /\ GrantTypeOK'
    BY DEF PublishInv, GrantTypeOK, grantVars
  <1>2. PublishInv'
    BY <1>1, GrantsUntouched DEF grantVars
  <1>3. \A c \in Creators : creating[c].state # "resting" => creating[c].at \in Nat
    BY <1>1 DEF GrantTypeOK, Resting
  <1>4. \A c \in Creators : creating'[c].state # "resting" => creating'[c].at <= now'
    BY <1>1, <1>3 DEF CapInv, GrantTypeOK, grantVars
  <1>5. CapInv'
    BY <1>1, <1>4, CapKept DEF CapInv, Counted, Exists, InUse, grantVars
  <1> QED
    BY <1>2, <1>5

LEMMA CodesRest ==
    ASSUME CodeInv, NoRegistration, now' \in Nat, UNCHANGED codeVars
    PROVE  CodeInv' /\ NoRegistration'
  <1>1. \A t \in Registrars : ~Active(t)'
    BY DEF NoRegistration, Active, Ended, codeVars
  <1>2. CodeTypeOK'
    BY DEF CodeInv, CodeTypeOK, codeVars
  <1> QED
    BY <1>1, <1>2 DEF CodeInv, NoRegistration, codeVars

LEMMA RatingsRest ==
    ASSUME RatingTypeOK, RatingsAddUp, UNCHANGED ratingVars
    PROVE  RatingTypeOK' /\ RatingsAddUp'
  BY DEF RatingTypeOK, RatingsAddUp, ratingVars

LEMMA ServicesBegin == ServicesInit => ServicesInv
  <1> SUFFICES ASSUME ServicesInit PROVE ServicesInv
    OBVIOUS
  <1>1. AttemptInv
    BY AttemptBegins DEF ServicesInit
  <1>2. PublishInv /\ CapInv
    BY PublishBegins, CapBegins DEF ServicesInit
  <1>3. DiscoveryInv /\ RatingTypeOK /\ RatingsAddUp
    BY DiscoveryInitially, RatingsBegin DEF ServicesInit
  <1>4. CodeInv /\ NoRegistration
    BY CodesInit DEF ServicesInit, CodeInit, NoRegistration
  <1>5. LookupInv /\ TrafficInv
    BY LookupBegins, TrafficBegins DEF ServicesInit
  <1> QED
    BY <1>1, <1>2, <1>3, <1>4, <1>5 DEF ServicesInv

LEMMA ServicesKeep ==
    ASSUME ServicesInv, [ServicesNext]_servicesVars
    PROVE  ServicesInv'
  <1>1. now \in Nat
    BY DEF ServicesInv, LookupInv
  <1>2. ASSUME now' \in Nat, now <= now', UNCHANGED pushVars PROVE AttemptInv'
    BY <1>2, AttemptsRest DEF ServicesInv
  <1>3. ASSUME now' \in Nat, now <= now', UNCHANGED grantVars PROVE PublishInv' /\ CapInv'
    BY <1>3, GrantsRest DEF ServicesInv
  <1>4. ASSUME now' \in Nat, now <= now', UNCHANGED discoveryVars PROVE DiscoveryInv'
    BY <1>4, DiscoveryIdles DEF ServicesInv
  <1>5. ASSUME UNCHANGED ratingVars PROVE RatingTypeOK' /\ RatingsAddUp'
    BY <1>5, RatingsRest DEF ServicesInv
  <1>6. ASSUME desk # "codes", now' \in Nat, now <= now', UNCHANGED codeVars
        PROVE  CodeInv' /\ NoRegistration'
    BY <1>6, CodesRest DEF ServicesInv
  <1>7. ASSUME now' \in Nat, now <= now', UNCHANGED lookupVars PROVE LookupInv'
    BY <1>7, LookupTicks DEF ServicesInv
  <1>8. ASSUME now' \in Nat, now <= now', UNCHANGED trafficVars PROVE TrafficInv'
    BY <1>8, TrafficRests DEF ServicesInv
  <1>9. CASE /\ desk = "push" /\ PushNext
             /\ UNCHANGED <<desk, grantVars, discoveryVars, ratingVars, codeVars, lookupVars,
                            trafficVars>>
    <2>1. now' \in Nat /\ now <= now'
      BY <1>1, <1>9, ClockForward
    <2>2. AttemptInv'
      BY <1>9, PushKeeps, AttemptKept DEF ServicesInv, AttemptInv
    <2> QED
      BY <1>3, <1>4, <1>5, <1>6, <1>7, <1>8, <1>9, <2>1, <2>2 DEF ServicesInv
  <1>10. CASE /\ desk = "observers" /\ GrantNext
              /\ UNCHANGED <<desk, pushVars, discoveryVars, ratingVars, codeVars, lookupVars,
                             trafficVars>>
    <2>1. now' \in Nat /\ now <= now'
      BY <1>1, <1>10, ClockForward
    <2>2. PublishInv' /\ CapInv'
      BY <1>10, PublishKeeps, CapKeeps DEF ServicesInv
    <2> QED
      BY <1>2, <1>4, <1>5, <1>6, <1>7, <1>8, <1>10, <2>1, <2>2 DEF ServicesInv
  <1>11. CASE /\ desk = "discovery" /\ DiscoveryNext
              /\ UNCHANGED <<desk, pushVars, grantVars, ratingVars, codeVars, lookupVars,
                             trafficVars>>
    <2>1. now' \in Nat /\ now <= now'
      BY <1>1, <1>11, ClockForward
    <2>2. DiscoveryInv'
      BY <1>11, DiscoveryKeeps DEF ServicesInv
    <2> QED
      BY <1>2, <1>3, <1>5, <1>6, <1>7, <1>8, <1>11, <2>1, <2>2 DEF ServicesInv
  <1>12. CASE /\ desk = "ratings" /\ RatingNext
              /\ UNCHANGED <<now, desk, pushVars, grantVars, discoveryVars, codeVars, lookupVars,
                             trafficVars>>
    <2>1. now' \in Nat /\ now <= now'
      BY <1>1, <1>12
    <2>2. RatingTypeOK' /\ RatingsAddUp'
      BY <1>12, RatingsKeep DEF ServicesInv
    <2> QED
      BY <1>2, <1>3, <1>4, <1>6, <1>7, <1>8, <1>12, <2>1, <2>2 DEF ServicesInv
  <1>13. CASE /\ desk = "codes" /\ CodeNext
              /\ UNCHANGED <<desk, pushVars, grantVars, discoveryVars, ratingVars, lookupVars,
                             trafficVars>>
    <2>1. now' \in Nat /\ now <= now'
      BY <1>1, <1>13, ClockForward
    <2>2. CodeInv' /\ desk' = "codes"
      BY <1>13, CodesKept DEF ServicesInv
    <2> QED
      BY <1>2, <1>3, <1>4, <1>5, <1>7, <1>8, <1>13, <2>1, <2>2 DEF ServicesInv
  <1>14. CASE /\ desk = "lookups" /\ LookupNext
              /\ UNCHANGED <<desk, pushVars, grantVars, discoveryVars, ratingVars, codeVars,
                             trafficVars>>
    <2>1. now' \in Nat /\ now <= now'
      BY <1>1, <1>14, ClockForward
    <2>2. LookupInv'
      BY <1>14, LookupStep DEF ServicesInv
    <2> QED
      BY <1>2, <1>3, <1>4, <1>5, <1>6, <1>8, <1>14, <2>1, <2>2 DEF ServicesInv
  <1>15. CASE /\ desk = "traffic" /\ TrafficNext
              /\ UNCHANGED <<desk, pushVars, grantVars, discoveryVars, ratingVars, codeVars,
                             lookupVars>>
    <2>1. now' \in Nat /\ now <= now'
      BY <1>1, <1>15, ClockForward
    <2>2. TrafficInv'
      BY <1>15, TrafficKeeps DEF ServicesInv
    <2> QED
      BY <1>2, <1>3, <1>4, <1>5, <1>6, <1>7, <1>15, <2>1, <2>2 DEF ServicesInv
  <1>16. CASE UNCHANGED servicesVars
    <2>1. /\ now' \in Nat /\ now <= now' /\ UNCHANGED <<now, desk, codeVars, ratingVars>>
          /\ UNCHANGED <<pushVars, grantVars, discoveryVars, lookupVars, trafficVars>>
      BY <1>1, <1>16 DEF servicesVars
    <2>2. CodeInv'
      BY <2>1, CodesKept DEF ServicesInv
    <2>3. NoRegistration => NoRegistration'
      BY <2>1 DEF NoRegistration, codeVars
    <2> QED
      BY <1>2, <1>3, <1>4, <1>5, <1>7, <1>8, <2>1, <2>2, <2>3 DEF ServicesInv
  <1> QED
    BY <1>9, <1>10, <1>11, <1>12, <1>13, <1>14, <1>15, <1>16 DEF ServicesNext

\* Whichever of them works, and however the clock moves under the others, every
\* service's invariant stands.
THEOREM ServicesInvariant == ServicesSpec => []ServicesInv
  <1>1. ServicesInv /\ [ServicesNext]_servicesVars => ServicesInv'
    BY ServicesKeep
  <1> QED
    BY <1>1, ServicesBegin, PTL DEF ServicesSpec

\* The services keep the types of their state, their queues and their caches.
THEOREM ServicesTyped == ServicesSpec => []ServicesTypeOK
  <1>1. ServicesInv => ServicesTypeOK
    BY LookupImplies DEF ServicesInv, ServicesTypeOK, AttemptInv, PushInv, PublishInv,
       DiscoveryInv, CodeInv, TrafficInv
  <1> QED
    BY <1>1, ServicesInvariant, PTL

\* What each of them promises by itself it also promises beside the others.
THEOREM ServicesKeepTheirPromises ==
    ServicesSpec => [](/\ AtMostOneAttempt /\ ProjectionIsTheJournal
                       /\ RevokedHoldsNothing /\ ActiveGrantsCapped /\ StaleNeverShownFresh
                       /\ RevisionOnFile /\ OneSubmissionPerClient
                       /\ RatingsAddUp /\ RecommendedByMany
                       /\ AnswersAreInvites
                       /\ GuessRateBounded /\ AddressRateBounded
                       /\ OneFetchPerLife)
  <1>1. ServicesInv => /\ AtMostOneAttempt /\ ProjectionIsTheJournal
                       /\ AnswersAreInvites
    BY AttemptsCounted, ProjectionKept, AnswersKept DEF ServicesInv
  <1>2. ServicesInv => /\ RevokedHoldsNothing /\ ActiveGrantsCapped /\ StaleNeverShownFresh
                       /\ RevisionOnFile /\ OneSubmissionPerClient
                       /\ RatingsAddUp /\ RecommendedByMany
    BY FreshIsFresh, EnoughAnswers DEF ServicesInv, PublishInv, CapInv, DiscoveryInv
  <1>3. ServicesInv => GuessRateBounded /\ AddressRateBounded /\ OneFetchPerLife
    BY LookupImplies DEF ServicesInv, TrafficInv
  <1> QED
    BY <1>1, <1>2, <1>3, ServicesInvariant, PTL
=============================================================================
