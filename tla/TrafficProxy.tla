---------------------------- MODULE TrafficProxy ----------------------------
(***************************************************************************)
(* The relay's proxy to a commercial traffic service.  Handlers are        *)
(* coroutines of one event loop; incidents are cached by area, and a miss  *)
(* takes its turn at one lock, looks again, and asks the provider while it *)
(* holds the lock.  Reroutes are neither cached nor locked.                *)
(*                                                                         *)
(* A request is one that passed the viewport checks and the rate limit of  *)
(* a configured provider.  The answers' contents, and which of the ways to *)
(* fail a call met, are left out.                                          *)
(***************************************************************************)
EXTENDS RelayClock, Sequences, FiniteSets

CONSTANTS
    Areas,          \* viewports, rounded outwards
    Travellers,     \* requests in progress at once
    CacheLife,      \* traffic_incident_cache_seconds
    CacheMax,       \* areas the cache holds (128)
    TrafficMaxNow,  \* bound: last instant of the clock
    Empty           \* no entry

ASSUME TrafficAssumption ==
    /\ {CacheLife, CacheMax, TrafficMaxNow} \subseteq Nat
    /\ CacheMax > 0
    /\ Empty \notin Nat

VARIABLES
    cache,      \* per area, when the fetch of the answer it holds began, or Empty
    locked,     \* the lock
    asking,     \* the requests
    waiters,    \* those waiting for the lock, in order
    fetched     \* per area, when the fetches of answers still kept began, a history

trafficVars == <<cache, locked, asking, waiters, fetched>>

Away == [state |-> "away"]

Request ==
    {Away} \cup [state : {"waiting"}, area : Areas] \cup
    [state : {"fetching"}, area : Areas, at : Nat] \cup [state : {"routing"}]

TrafficInit ==
    /\ cache = [area \in Areas |-> Empty]
    /\ locked = FALSE
    /\ asking = [c \in Travellers |-> Away]
    /\ waiters = <<>>
    /\ fetched = [area \in Areas |-> <<>>]

Fresh(area) == cache[area] # Empty /\ now < cache[area] + CacheLife

\* A miss queues for the lock; a hit is answered and changes nothing.
AskIncidents(c, area) ==
    /\ asking[c] = Away
    /\ ~Fresh(area)
    /\ asking' = [asking EXCEPT ![c] = [state |-> "waiting", area |-> area]]
    /\ waiters' = Append(waiters, c)
    /\ UNCHANGED <<now, cache, locked, fetched>>

NoSecondLookMutant(area) == FALSE
\* Someone who held the lock before may have fetched the area meanwhile.
FetchedMeanwhile(area) == Fresh(area)

TakeLock(c) ==
    /\ waiters # <<>> /\ Head(waiters) = c
    /\ ~locked
    /\ locked' = ~FetchedMeanwhile(asking[c].area)
    /\ waiters' = Tail(waiters)
    /\ asking' = [asking EXCEPT ![c] =
           IF FetchedMeanwhile(@.area) THEN Away
           ELSE [state |-> "fetching", area |-> @.area, at |-> now]]
    /\ UNCHANGED <<now, cache, fetched>>

Held(entries) == {area \in Areas : entries[area] # Empty}

\* The entry to drop from a cache over its size: one of the oldest, the new one
\* only if it alone is.
Evictable(entries, new) ==
    LET oldest == {area \in Held(entries) :
                      \A other \in Held(entries) : entries[area] <= entries[other]}
    IN  IF oldest = {new} THEN oldest ELSE oldest \ {new}

FetchSucceeds(c) ==
    LET area == asking[c].area
        stored == [cache EXCEPT ![area] = asking[c].at]
        over == Cardinality(Held(stored)) > CacheMax
    IN  /\ asking[c].state = "fetching"
        /\ IF over THEN \E old \in Evictable(stored, area) :
                            cache' = [stored EXCEPT ![old] = Empty]
                   ELSE cache' = stored
        /\ fetched' = [a \in Areas |->
               IF cache'[a] = Empty THEN <<>>
               ELSE IF a = area THEN Append(fetched[a], asking[c].at) ELSE fetched[a]]
        /\ asking' = [asking EXCEPT ![c] = Away]
        /\ locked' = FALSE
        /\ UNCHANGED <<now, waiters>>

KeepsLockMutant == TRUE
\* The lock is released on the way out of a failed call too.
LockedAfterFailure == FALSE

FetchFails(c) ==
    /\ asking[c].state = "fetching"
    /\ asking' = [asking EXCEPT ![c] = Away]
    /\ locked' = LockedAfterFailure
    /\ UNCHANGED <<now, cache, waiters, fetched>>

AskReroute(c) ==
    /\ asking[c] = Away
    /\ asking' = [asking EXCEPT ![c] = [state |-> "routing"]]
    /\ UNCHANGED <<now, cache, locked, waiters, fetched>>

\* An alternative, or no usable one, or any other failure.
RerouteEnds(c) ==
    /\ asking[c].state = "routing"
    /\ asking' = [asking EXCEPT ![c] = Away]
    /\ UNCHANGED <<now, cache, locked, waiters, fetched>>

TrafficTick == TickTo(TrafficMaxNow) /\ UNCHANGED trafficVars

TrafficNext ==
    \/ \E c \in Travellers, area \in Areas : AskIncidents(c, area)
    \/ \E c \in Travellers : TakeLock(c) \/ FetchSucceeds(c) \/ FetchFails(c)
                             \/ AskReroute(c) \/ RerouteEnds(c)
    \/ TrafficTick

FetchEnds(c) == FetchSucceeds(c) \/ FetchFails(c)

\* asyncio.Lock wakes its waiters in order, and every call has a timeout.
TrafficFairness ==
    \A c \in Travellers : /\ WF_trafficVars(TakeLock(c))
                          /\ WF_trafficVars(FetchEnds(c))
                          /\ WF_trafficVars(RerouteEnds(c))

TrafficSpec ==
    now = 0 /\ TrafficInit /\ [][TrafficNext]_<<now, trafficVars>> /\ TrafficFairness

----------------------------------------------------------------------------
(* Properties *)

TrafficTypeOK ==
    /\ now \in Nat
    /\ cache \in [Areas -> Nat \cup {Empty}]
    /\ Cardinality(Held(cache)) <= CacheMax
    /\ locked \in BOOLEAN
    /\ asking \in [Travellers -> Request]
    /\ waiters \in Seq(Travellers)
    /\ fetched \in [Areas -> Seq(Nat)]

\* However many requests miss an area at once, the provider's good answer for
\* it is used for the cache's whole life: the next fetch that succeeds begins
\* after that, unless the answer had to make room for others.
OneFetchPerLife ==
    \A area \in Areas : \A i \in 2..Len(fetched[area]) :
        fetched[area][i - 1] + CacheLife <= fetched[area][i]

\* Every request ends, whatever becomes of the calls before it in the queue.
EveryTrafficRequestEnds ==
    \A c \in Travellers : asking[c].state # "away" ~> asking[c].state = "away"
=============================================================================
