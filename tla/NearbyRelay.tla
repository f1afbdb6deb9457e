---------------------------- MODULE NearbyRelay ----------------------------
(***************************************************************************)
(* The phones of a voyage that carry its events over the radio, without    *)
(* the internet.                                                           *)
(*                                                                         *)
(* Each phone keeps, beside its journal, a durable queue of the events it  *)
(* still carries for others: how many hops an event has come, when it is   *)
(* dropped, and the endpoints that acknowledged it.  Every few seconds it  *)
(* flushes the queue to the endpoints it believes are connected.  A phone  *)
(* that receives a frame appends what it does not know to its journal,     *)
(* queues it for the others, and acknowledges; an event of a kind its app  *)
(* is too old for it skips.  Dart runs one callback at a time and another  *)
(* may run at every await, so a phone can be inside several frames at      *)
(* once; a flush, of which one runs at a time, is a step.                  *)
(*                                                                         *)
(* Left out: presence, authentication, the age of frames, events as urgent *)
(* as each other (the queue orders them by age), an event's own expiry (it *)
(* can only shorten the default), events that come over the internet, and  *)
(* an update of the app, after which it understands more.                  *)
(***************************************************************************)
EXTENDS Naturals, Sequences, FiniteSets
LOCAL INSTANCE FiniteSetsExt
LOCAL INSTANCE Functions

CONSTANTS
    Phones,
    InRange,        \* the pairs of phones that can meet
    Events,
    Author,         \* who recorded an event
    Voyages,        \* who is aboard, what has been recorded, and (bound) how
                    \* often two phones will meet
    Urgency,        \* its priority, no two alike
    Weight,         \* its size in a frame
    Understood,     \* the events a phone's build can read: describeUnsupportedRelayEvent
    Lifetime,       \* how long a phone carries it: 2 h to 72 h
    MaxHops,        \* maxRelayHops (8)
    FrameEvents,    \* maxEventsPerFrame (12)
    FrameWeight,    \* maxFrameBytes (28 KiB)
    EventWeight,    \* maxEventBytes (8 KiB)
    MaxQueued,      \* maxQueuedEvents (512)
    Frames,         \* bound: the frames a phone is inside of at once
    MaxClock,       \* bound: last instant of the clock
    Stoppers,       \* bound: the phones that die, leave or lose their radio
    MaxStops        \* bound: how often they do

ASSUME NearbyAssumption ==
    /\ IsFiniteSet(Phones) /\ IsFiniteSet(Events) /\ Frames # {}
    /\ \A pair \in InRange : pair \subseteq Phones /\ Cardinality(pair) = 2
    /\ Author \in [Events -> Phones]
    /\ Understood \in [Phones -> SUBSET Events]
    /\ \A e \in Events : e \in Understood[Author[e]]
    /\ \A v \in Voyages :
           v.crew \subseteq Phones /\ v.events \subseteq Events /\ v.meetings \in Nat
    /\ {Urgency, Weight} \subseteq [Events -> Nat] /\ IsInjective(Urgency)
    /\ Lifetime \in [Events -> Nat \ {0}]
    /\ {MaxHops, FrameEvents, MaxQueued} \subseteq Nat \ {0}
    /\ {FrameWeight, EventWeight, MaxClock, MaxStops} \subseteq Nat

VARIABLES
    clock,
    store,    \* the voyage's rows in a phone's event store
    queue,      \* relay_queue: [event, hops, expires, acked]
    running,    \* the phones whose engine runs
    published,  \* _publishedEventIds: what the app has put in the queue
    name,       \* times a phone's transport was started: its endpoint's name
    links,      \* the radio's connections
    wire,       \* frames under way from one phone to another
    peers,      \* _status.peerIds: the endpoints an engine believes connected,
                \* in the order they connected
    receiving,  \* the frames a phone is inside of
    left,       \* phones that have left the voyage, a history
    meetings,   \* connections to come
    stops

durable == <<store, queue, left>>
engine == <<running, published, name, peers, receiving>>
radio == <<links, wire>>
nearbyVars == <<clock, durable, engine, radio, meetings, stops>>

Endpoint(p) == <<p, name[p]>>
Reached(p) == {Endpoint(q) : q \in {q \in Phones : {p, q} \in links}}

\* What is queued, what is sent, and a frame a phone is inside of: an event comes
\* at most MaxHops hops and is passed on after fewer.
QueueRow == [event : Events, hops : 0..MaxHops, expires : Nat, acked : SUBSET (Phones \X Nat)]
Item == [event : Events, hops : 0..(MaxHops - 1), expires : Nat]
WireFrame == [kind : {"events", "acknowledgement"}, ids : SUBSET Events, items : SUBSET Item]
Receipt == [from : {<<>>} \cup (Phones \X Nat), todo : SUBSET Item, item : SUBSET Item,
            step : 0..2, ids : SUBSET Events]

NoFrame == [from |-> <<>>, todo |-> {}, item |-> {}, step |-> 0, ids |-> {}]

----------------------------------------------------------------------------
(* The queue *)

Row(e, hops, expires, acked) ==
    [event |-> e, hops |-> hops, expires |-> expires, acked |-> acked]

Queued(p) == {row.event : row \in queue[p]}

InsertsAgainMutant(p, row) == queue[p] \cup {row}
\* INSERT OR IGNORE.
WithRow(p, row) == IF row.event \in Queued(p) THEN queue[p] ELSE queue[p] \cup {row}

\* The n most urgent of some rows.
MostUrgent(rows, n) ==
    {row \in rows :
        Cardinality({other \in rows : Urgency[other.event] > Urgency[row.event]}) < n}

Pruned(rows, at) == MostUrgent({row \in rows : row.expires > at}, MaxQueued)

\* Rows when an endpoint has acknowledged some events.
Noted(rows, ids, endpoint) ==
    {IF row.event \in ids THEN [row EXCEPT !.acked = @ \cup {endpoint}] ELSE row : row \in rows}

\* What a phone has to send to an endpoint.
Pending(p, endpoint, at) ==
    {row \in queue[p] : /\ row.expires > at
                        /\ row.hops < MaxHops
                        /\ endpoint \notin row.acked}

Batch(p, endpoint, at) == MostUrgent(Pending(p, endpoint, at), FrameEvents)

\* A frame with an event over its byte limit, or over its own, cannot be encoded.
Fits(batch) ==
    /\ \A row \in batch : Weight[row.event] <= EventWeight
    /\ MapThenSumSet(LAMBDA row : Weight[row.event], batch) <= FrameWeight

----------------------------------------------------------------------------
NearbyInit ==
    /\ clock = 0
    /\ \E v \in Voyages :
           /\ running = v.crew
           /\ name = [p \in Phones |-> IF p \in v.crew THEN 1 ELSE 0]
           /\ store = [p \in Phones |-> {e \in v.events : Author[e] = p}]
           /\ meetings = v.meetings
    /\ queue = [p \in Phones |-> {}]
    /\ published = [p \in Phones |-> {}]
    /\ links = {}
    /\ wire = [way \in Phones \X Phones |-> <<>>]
    /\ peers = [p \in Phones |-> <<>>]
    /\ receiving = [p \in Phones |-> [f \in Frames |-> NoFrame]]
    /\ left = {}
    /\ stops = 0

\* A frame is put on its way unless the same one is: to handle it twice is
\* what sending it again comes to.
SendEach(p, frames) ==
    wire' = [way \in Phones \X Phones |->
                IF way[1] = p /\ way[2] \in DOMAIN frames
                   /\ \A i \in DOMAIN wire[way] : wire[way][i] # frames[way[2]]
                THEN Append(wire[way], frames[way[2]]) ELSE wire[way]]

----------------------------------------------------------------------------
(* The app *)

\* The app hands each event of the voyage to the engine once, whoever it is
\* from; the flush that follows is Flush, as are all others.  It hears of one
\* that is being received only when it has been put in the queue.
Publish(p, e) ==
    /\ p \in running
    /\ e \in store[p] \ published[p]
    /\ \A f \in Frames : \A item \in receiving[p][f].item : item.event # e
    /\ queue' = [queue EXCEPT ![p] = Pruned(WithRow(p, Row(e, 0, clock + Lifetime[e], {})), clock)]
    /\ published' = [published EXCEPT ![p] = @ \cup {e}]
    /\ UNCHANGED <<clock, store, left, running, name, peers, receiving,
                   radio, meetings, stops>>

----------------------------------------------------------------------------
(* flush: called by a timer, and early by whoever has changed the queue *)

Sendable(p, endpoint) ==
    endpoint \in Reached(p) /\ Fits(Batch(p, endpoint, clock))

Frame(batch) ==
    [kind |-> "events", ids |-> {},
     items |-> {[event |-> row.event, hops |-> row.hops, expires |-> row.expires] :
                row \in batch}]

\* A frame that is too large, or an endpoint that is gone, ends a flush for the
\* endpoints after that one too.
Flush(p) ==
    /\ p \in running
    /\ \/ \E i \in DOMAIN peers[p] : Pending(p, peers[p][i], clock) # {}
       \/ peers[p] # <<>> /\ queue[p] # Pruned(queue[p], clock)
    /\ LET Owes(i) == Pending(p, peers[p][i], clock) # {}
           Gets(i) == \A j \in 1..i : Owes(j) => Sendable(p, peers[p][j])
           sent == {peers[p][i] : i \in {i \in DOMAIN peers[p] : Owes(i) /\ Gets(i)}}
       IN  SendEach(p, [q \in {endpoint[1] : endpoint \in sent} |->
                           Frame(Batch(p, Endpoint(q), clock))])
    /\ queue' = [queue EXCEPT ![p] = Pruned(queue[p], clock)]
    /\ UNCHANGED <<clock, store, left, engine, links, meetings, stops>>

----------------------------------------------------------------------------
(* _onPacket *)

AllOrNothingMutant(p, items) ==
    {item \in items : item.expires > clock /\ \A other \in items : other.event \in Understood[p]}
\* What a phone keeps of a frame's items.  It acknowledges nothing else, so the
\* sender goes on sending the rest until it expires.
Taken(p, items) == {item \in items : item.event \in Understood[p] /\ item.expires > clock}

\* The first frame from q; one of which nothing is kept is rejected.
ReceiveFrame(p, q) ==
    /\ p \in running
    /\ wire[<<q, p>>] # <<>>
    /\ wire' = [wire EXCEPT ![<<q, p>>] = Tail(@)]
    /\ LET frame == Head(wire[<<q, p>>])
           kept == Taken(p, frame.items)
       IN  \/ /\ frame.kind = "acknowledgement"
              /\ queue' = [queue EXCEPT ![p] = Noted(@, frame.ids, Endpoint(q))]
              /\ UNCHANGED receiving
           \/ /\ frame.kind = "events" /\ kept = {}
              /\ UNCHANGED <<queue, receiving>>
           \/ /\ frame.kind = "events" /\ kept # {}
              /\ \E f \in Frames :
                     /\ receiving[p][f] = NoFrame
                     /\ receiving' = [receiving EXCEPT ![p][f] =
                            [from |-> Endpoint(q), todo |-> kept, item |-> {}, step |-> 0,
                             ids |-> {item.event : item \in kept}]]
              /\ UNCHANGED queue
    /\ UNCHANGED <<clock, store, left, running, published, name, peers,
                   links, meetings, stops>>

QueuesFirstMutant == <<"enqueue", "append">>

\* An event that is not in the queue is written twice, in this order.
Writes == <<"append", "enqueue">>

\* Is the next event of the frame in the queue?
LookUp(p, f) ==
    /\ receiving[p][f].step = 0
    /\ \E item \in receiving[p][f].todo :
           receiving' = [receiving EXCEPT
               ![p][f].todo = @ \ {item},
               ![p][f].item = IF item.event \in Queued(p) THEN {} ELSE {item},
               ![p][f].step = IF item.event \in Queued(p) THEN 0 ELSE 1]
    /\ UNCHANGED <<clock, durable, running, published, name, peers, radio,
                   meetings, stops>>

Written(p, f) ==
    receiving' = [receiving EXCEPT
        ![p][f].step = (@ + 1) % 3,
        ![p][f].item = IF receiving[p][f].step = 2 THEN {} ELSE @]

AppendEvent(p, f) ==
    /\ receiving[p][f].step # 0 /\ Writes[receiving[p][f].step] = "append"
    /\ store' = [store EXCEPT
           ![p] = @ \cup {item.event : item \in receiving[p][f].item}]
    /\ Written(p, f)
    /\ UNCHANGED <<clock, queue, left, running, published, name, peers, radio,
                   meetings, stops>>

Enqueue(p, f) ==
    /\ receiving[p][f].step # 0 /\ Writes[receiving[p][f].step] = "enqueue"
    /\ \E item \in receiving[p][f].item :
           queue' = [queue EXCEPT ![p] =
               WithRow(p, Row(item.event, item.hops + 1, item.expires,
                              {receiving[p][f].from}))]
    /\ published' = [published EXCEPT
           ![p] = @ \cup {item.event : item \in receiving[p][f].item}]
    /\ Written(p, f)
    /\ UNCHANGED <<clock, store, left, running, name, peers, radio,
                   meetings, stops>>

\* All that was kept of the frame is acknowledged, what was known included.
Acknowledge(p, f) ==
    LET frame == receiving[p][f]
    IN  /\ frame # NoFrame /\ frame.step = 0 /\ frame.todo = {}
        /\ receiving' = [receiving EXCEPT ![p][f] = NoFrame]
        /\ \/ /\ p \in running /\ frame.from \in Reached(p)
              /\ SendEach(p, [q \in {frame.from[1]} |->
                     [kind |-> "acknowledgement", ids |-> frame.ids, items |-> {}]])
              /\ queue' = [queue EXCEPT ![p] = Pruned(queue[p], clock)]
           \/ /\ p \notin running \/ frame.from \notin Reached(p)
              /\ UNCHANGED <<wire, queue>>
        /\ UNCHANGED <<clock, store, left, running, published, name, peers,
                       links, meetings, stops>>

----------------------------------------------------------------------------
(* The radio, and the life of the app *)

Connected(order, endpoint) ==
    Append(SelectSeq(order, LAMBDA other : other # endpoint), endpoint)

Meet(p, q) ==
    /\ meetings > 0
    /\ {p, q} \in InRange \ links /\ {p, q} \subseteq running
    /\ links' = links \cup {{p, q}}
    /\ meetings' = meetings - 1
    /\ peers' = [peers EXCEPT ![p] = Connected(@, Endpoint(q)),
                              ![q] = Connected(@, Endpoint(p))]
    /\ UNCHANGED <<clock, durable, running, published, name, receiving, wire, stops>>

\* What was under way on a connection that breaks is lost.
Unwired(broken) == [way \in Phones \X Phones |->
                       IF {way[1], way[2]} \in broken THEN <<>> ELSE wire[way]]

Part(pair) ==
    /\ pair \in links
    /\ links' = links \ {pair}
    /\ wire' = Unwired({pair})
    /\ UNCHANGED <<clock, durable, engine, meetings, stops>>

AddsHeardMutant(p) == Range(peers[p])
Heard(p) == Reached(p)

\* The status that says who has gone gets to the engine.
HearStatus(p) ==
    /\ p \in running
    /\ ~(Range(peers[p]) \subseteq Heard(p))
    /\ peers' = [peers EXCEPT ![p] = SelectSeq(@, LAMBDA endpoint : endpoint \in Heard(p))]
    /\ UNCHANGED <<clock, durable, running, published, name, receiving, radio,
                   meetings, stops>>

Halt(p) ==
    /\ p \in running \cap Stoppers /\ stops < MaxStops
    /\ stops' = stops + 1
    /\ running' = running \ {p}
    /\ peers' = [peers EXCEPT ![p] = <<>>]
    /\ links' = {pair \in links : p \notin pair}
    /\ wire' = Unwired({pair \in links : p \in pair})
    /\ UNCHANGED <<clock, queue, published, name, meetings>>

\* The operating system ends the app.
Die(p) ==
    /\ Halt(p)
    /\ receiving' = [receiving EXCEPT ![p] = [f \in Frames |-> NoFrame]]
    /\ UNCHANGED <<store, left>>

\* The sailor leaves: the voyage's events are deleted and the engine is
\* stopped, but the queue keeps its rows and the frames being handled go on.
Leave(p) ==
    /\ Halt(p)
    /\ store' = [store EXCEPT ![p] = {}]
    /\ left' = left \cup {p}
    /\ UNCHANGED receiving

\* The transport fails, and is started again after a while.
Reconnect(p) ==
    /\ p \in running \cap Stoppers /\ stops < MaxStops
    /\ stops' = stops + 1
    /\ name' = [name EXCEPT ![p] = @ + 1]
    /\ links' = {pair \in links : p \notin pair}
    /\ wire' = Unwired({pair \in links : p \in pair})
    /\ UNCHANGED <<clock, durable, running, published, peers, receiving, meetings>>

\* The app is opened, or the voyage joined again, under a new endpoint name.
Start(p) ==
    /\ p \notin running /\ name[p] > 0
    /\ running' = running \cup {p}
    /\ name' = [name EXCEPT ![p] = @ + 1]
    /\ queue' = [queue EXCEPT ![p] = Pruned(queue[p], clock)]
    /\ published' = [published EXCEPT ![p] = {}]
    /\ UNCHANGED <<clock, store, left, peers, receiving, radio, meetings, stops>>

\* Hours, beside the milliseconds of a frame: the clock stands (bound) while one
\* is being handled.
NearbyTick ==
    /\ clock < MaxClock
    /\ \A p \in Phones, f \in Frames : receiving[p][f] = NoFrame
    /\ clock' = clock + 1
    /\ UNCHANGED <<durable, engine, radio, meetings, stops>>

Handling(p, f) == LookUp(p, f) \/ AppendEvent(p, f) \/ Enqueue(p, f) \/ Acknowledge(p, f)

NearbyNext ==
    \/ \E p \in Phones, e \in Events : Publish(p, e)
    \/ \E p \in Phones : \/ Flush(p) \/ HearStatus(p)
                         \/ Die(p) \/ Leave(p) \/ Start(p) \/ Reconnect(p)
    \/ \E p, q \in Phones : ReceiveFrame(p, q) \/ Meet(p, q)
    \/ \E p \in Phones, f \in Frames : Handling(p, f)
    \/ \E pair \in links : Part(pair)
    \/ NearbyTick

\* A timer calls flush for as long as the engine runs, the event loop resumes
\* what awaits, and a connection that lasts delivers; nothing makes phones meet
\* or sailors act.
NearbyFairness ==
    /\ \A p \in Phones : /\ WF_nearbyVars(Flush(p))
                         /\ WF_nearbyVars(HearStatus(p))
    /\ \A p, q \in Phones : {p, q} \in InRange => SF_nearbyVars(ReceiveFrame(p, q))
    /\ \A p \in Phones, f \in Frames : WF_nearbyVars(Handling(p, f))

NearbySpec == NearbyInit /\ [][NearbyNext]_nearbyVars
NearbyFairSpec == NearbySpec /\ NearbyFairness

----------------------------------------------------------------------------
(* Properties *)

NearbyTypeOK ==
    /\ clock \in Nat
    /\ store \in [Phones -> SUBSET Events]
    /\ queue \in [Phones -> SUBSET QueueRow]
    /\ \A p \in Phones : \A row, other \in queue[p] : row.event = other.event => row = other
    /\ running \subseteq Phones /\ left \subseteq Phones
    /\ published \in [Phones -> SUBSET Events]
    /\ name \in [Phones -> Nat]
    /\ links \subseteq InRange
    /\ wire \in [Phones \X Phones -> Seq(WireFrame)]
    /\ receiving \in [Phones -> [Frames -> Receipt]]
    /\ meetings \in Nat /\ stops \in Nat

\* "Application acknowledgements prevent needless repeats": what a phone no
\* longer sends to another, because it was acknowledged or came from there, is
\* in the other's journal, whatever has died between which writes and however
\* often frames were repeated, unless the other has since left the voyage.
AcknowledgedIsHeld ==
    \A p \in Phones : \A row \in queue[p] : \A endpoint \in row.acked :
        endpoint[1] \in left \/ row.event \in store[endpoint[1]]

\* p has e for q, which is connected and lacks it.
Owed(p, q, e) ==
    /\ {p, q} \in links
    /\ e \notin store[q]
    /\ \E row \in Pending(p, Endpoint(q), clock) : row.event = e

FlushFits(p) == \A endpoint \in Reached(p) : Fits(Batch(p, endpoint, clock))

\* What q cannot read of what p has for it leaves room in a frame.
LeavesRoom(p, q) ==
    Cardinality({row \in Pending(p, Endpoint(q), clock) : row.event \notin Understood[q]})
        < FrameEvents

\* An event queued for a phone that stays connected and can read it gets there,
\* however the radio of a third comes and goes, as long as what the sender has
\* for each of those it is connected to fits a frame, and what that phone cannot
\* read is less than fills one.  (A frame's worth of such events is sent again
\* and again until they expire, ahead of everything less urgent.)
EveryPeerIsReached ==
    \A q \in Phones : \A e \in Understood[q] : Author[e] # q =>
        LET Waits == \E p \in Phones : Owed(p, q, e) /\ FlushFits(p) /\ LeavesRoom(p, q)
        IN  Waits ~> ~Waits

\* "Delivery is at-least-once" (relay_engine.dart): the same, of any batch.
DeliveryIsAtLeastOnce ==
    \A q \in Phones : \A e \in Understood[q] : Author[e] # q =>
        ((\E p \in Phones : Owed(p, q, e)) ~> ~ \E p \in Phones : Owed(p, q, e))
=============================================================================
