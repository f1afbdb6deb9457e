------------------------- MODULE InternetRelayWorker -------------------------
(***************************************************************************)
(* The app's side of events:sync: on each device a local journal of one    *)
(* voyage (SQLite), a cursor into the relay's journal (preferences), and a *)
(* worker that uploads what is pending, downloads a page and then, write   *)
(* by write, marks, appends and saves.  Dart runs one callback at a time:  *)
(* an action is the code between two awaits, and the app may be stopped,   *)
(* killed or told to remove the voyage at each await.                      *)
(*                                                                         *)
(* Events are numbered in the order of their createdAt.  The relay is one  *)
(* atomic step per request here; RelaySync is why it may be.  Signatures   *)
(* are not modelled: every event is authentic.  The snapshot of known      *)
(* events only spares inserts that INSERT OR IGNORE would ignore, and the  *)
(* status shown to the sailor is left out, as is the length of every delay *)
(* (a sync ends with a timer, and the timer may fire at once).             *)
(***************************************************************************)
EXTENDS Integers, FiniteSets

CONSTANTS
    Devices,        \* devices of the voyage's sailors
    Events,         \* the events they may record, numbered by createdAt
    Elsewhere,      \* stands for devices whose inside is not modelled
    Author,         \* the device that records an event, or Elsewhere
    Ends,           \* which of them are voyageEnded
    Reopens,        \* which of them are voyageReopened
    Refused,        \* events the relay refuses, whatever comes with them
    Supported,      \* events whose capability the relay advertises
    Understood,     \* events this build can decode
    Expiring,       \* events the relay may forget, or find past their life
    UploadLimit,    \* maximumUploadEvents
    DownloadLimit,  \* maximum_download_events
    MaxSequence,    \* bound: rows the relay may store
    MaxRestarts     \* bound: starts, stops, deaths and faults of storage or relay

ASSUME EventsAssumption ==
    /\ Events \subseteq Nat /\ IsFiniteSet(Events)
    /\ Elsewhere \notin Devices /\ Author \in [Events -> Devices \cup {Elsewhere}]
    /\ (Ends \cup Reopens \cup Refused \cup Supported \cup Understood
          \cup Expiring) \subseteq Events
    /\ Ends \cap Reopens = {}

ASSUME LimitsAssumption ==
    /\ {UploadLimit, DownloadLimit} \subseteq Nat \ {0}
    /\ {MaxSequence, MaxRestarts} \subseteq Nat

VARIABLES
    recorded,     \* events recorded so far, on any device
    store,        \* table voyage_events of the device's journal
    cursor,       \* the saved cursor of the device, 0 if there is none
    joined,       \* the device keeps this voyage's session
    leaving,      \* the device is about to remove the session
    running,      \* _running: the worker is started
    timer,        \* _timer is set
    quarantined,  \* _quarantinedEventIds
    probing,      \* _uploadProbeSize is 1
    downloadOnly, \* _downloadOnlyNextAttempt
    sync,         \* the synchronisation in progress
    rows,         \* the relay's rows
    nextSequence, \* the relay's next sequence number
    taken,        \* events the relay has ever stored
    filed,        \* devices that have deleted the voyage's events
    restarts      \* what MaxRestarts bounds, so far

durable == <<recorded, store, cursor, joined, leaving, filed>>
worker == <<running, timer, quarantined, probing, downloadOnly, sync>>
relay == <<rows, nextSequence, taken>>
vars == <<durable, worker, relay, restarts>>

Row == [sequence : Nat, event : Events]
Reply == [to : Nat, accepted : SUBSET Events, events : SUBSET Events]
Idle == [pc |-> "idle", stale |-> FALSE, upload |-> {}, from |-> 0,
         reply |-> [to |-> 0, accepted |-> {}, events |-> {}]]
Sync == [pc : {"idle", "offer", "send", "sent", "replied", "acknowledge",
               "append"},
         stale : BOOLEAN,           \* _isCurrent is false
         upload : SUBSET Events,    \* the events sent
         from : Nat,                \* the cursor sent
         reply : Reply]

-----------------------------------------------------------------------------
EventsIn(table) == {x.event : x \in table}
In(d, pc) == sync[d].pc = pc
Current(d) == ~sync[d].stale
Pending(d) == {e \in Events : store[d][e] = "pending"}
Held(d) == {e \in Events : store[d][e] # "absent"}

\* The first n of a set of events, in the order of createdAt.
FirstN(events, n) ==
    {e \in events : Cardinality({f \in events : f < e}) < n}

\* By the later of its end and reopen events, as far as the device knows.
VoyageEnded(d) ==
    \E e \in Ends \cap Held(d) :
        \A f \in (Ends \cup Reopens) \cap Held(d) : f <= e

Init ==
    /\ recorded = {}
    /\ store = [d \in Devices |-> [e \in Events |-> "absent"]]
    /\ cursor = [d \in Devices |-> 0]
    /\ joined = [d \in Devices |-> FALSE]
    /\ leaving = [d \in Devices |-> FALSE]
    /\ running = [d \in Devices |-> FALSE]
    /\ timer = [d \in Devices |-> FALSE]
    /\ quarantined = [d \in Devices |-> {}]
    /\ probing = [d \in Devices |-> FALSE]
    /\ downloadOnly = [d \in Devices |-> FALSE]
    /\ sync = [d \in Devices |-> Idle]
    /\ rows = {} /\ nextSequence = 1 /\ taken = {}
    /\ filed = {}
    /\ restarts = 0

-----------------------------------------------------------------------------
(* start, stop and synchronizeNow *)

\* The first synchronisation of a started worker, unless an older one is still
\* in flight: that one's end will schedule it.
FirstSync(d) ==
    IF In(d, "idle") THEN [Idle EXCEPT !.pc = "offer"]
    ELSE [sync[d] EXCEPT !.stale = TRUE]

Start(d) ==
    /\ joined[d] /\ restarts < MaxRestarts
    /\ restarts' = restarts + 1
    /\ running' = [running EXCEPT ![d] = TRUE]
    /\ timer' = [timer EXCEPT ![d] = FALSE]
    /\ quarantined' = [quarantined EXCEPT ![d] = {}]
    /\ probing' = [probing EXCEPT ![d] = FALSE]
    /\ downloadOnly' = [downloadOnly EXCEPT ![d] = FALSE]
    /\ sync' = [sync EXCEPT ![d] = FirstSync(d)]
    /\ UNCHANGED <<durable, relay>>

Stop(d) ==
    /\ running[d] /\ restarts < MaxRestarts
    /\ restarts' = restarts + 1
    /\ running' = [running EXCEPT ![d] = FALSE]
    /\ timer' = [timer EXCEPT ![d] = FALSE]
    /\ sync' = [sync EXCEPT ![d] = IF In(d, "idle") THEN Idle
                                   ELSE [@ EXCEPT !.stale = TRUE]]
    /\ UNCHANGED <<durable, quarantined, probing, downloadOnly, relay>>

\* The timer fires, an event was recorded, or the sailor asks.
Wake(d) ==
    /\ running[d] /\ In(d, "idle")
    /\ timer' = [timer EXCEPT ![d] = FALSE]
    /\ sync' = [sync EXCEPT ![d].pc = "offer"]
    /\ UNCHANGED <<durable, running, quarantined, probing, downloadOnly,
                   relay, restarts>>

\* Mutants (here and below, a name in ...Mutant): what a plausible bug would
\* make of the definition that follows.
EndOnlyIfCurrentMutant(d) ==
    /\ sync' = [sync EXCEPT ![d] = Idle]
    /\ timer' = [timer EXCEPT ![d] = running[d] /\ Current(d)]

\* The finally block: a worker that runs gets a timer.
End(d) ==
    /\ sync' = [sync EXCEPT ![d] = Idle]
    /\ timer' = [timer EXCEPT ![d] = running[d]]

\* The pending events are read and the upload chosen from them.
Offer(d) ==
    LET offerable == (Pending(d) \ quarantined[d]) \cap Supported
        limit == IF downloadOnly[d] THEN 0
                 ELSE IF probing[d] THEN 1 ELSE UploadLimit
    IN  /\ In(d, "offer")
        /\ downloadOnly' = [downloadOnly EXCEPT ![d] = FALSE]
        /\ IF Current(d)
           THEN /\ sync' = [sync EXCEPT
                              ![d].pc = "send",
                              ![d].upload = FirstN(offerable, limit)]
                /\ UNCHANGED timer
           ELSE End(d)
        /\ UNCHANGED <<durable, running, quarantined, probing, relay, restarts>>

\* The cursor is loaded and the request leaves, stopped or not.
Send(d) ==
    /\ In(d, "send")
    /\ sync' = [sync EXCEPT ![d].pc = "sent", ![d].from = cursor[d]]
    /\ UNCHANGED <<durable, running, timer, quarantined, probing, downloadOnly,
                   relay, restarts>>

-----------------------------------------------------------------------------
(* The relay: RelaySync's transaction as one step *)

Fresh(d) == sync[d].upload \ EventsIn(rows)
NewRows(stored) ==
    {[sequence |-> nextSequence + Cardinality({f \in stored : f < e}),
      event |-> e] : e \in stored}

\* The last sequence of the page, or the cursor it was asked for.
NextCursor(page, from) ==
    {s \in {from} \cup {x.sequence : x \in page} :
        \A x \in page : x.sequence <= s}

\* It stores the upload, but for what comes past its life: that it accepts and
\* forgets.  It answers with the next page, cut off at its limits.
RelayAnswers(d) ==
    \E stored \in SUBSET Fresh(d) :
        LET held == rows \cup NewRows(stored)
            after == {x \in held : x.sequence > sync[d].from}
        IN  /\ In(d, "sent") /\ sync[d].upload \cap Refused = {}
            /\ Fresh(d) \ stored \subseteq Expiring
            /\ nextSequence + Cardinality(stored) <= MaxSequence + 1
            /\ rows' = held
            /\ nextSequence' = nextSequence + Cardinality(stored)
            /\ taken' = taken \cup stored
            /\ \E page \in SUBSET after :
                \E to \in NextCursor(page, sync[d].from) :
                    /\ Cardinality(page) <= DownloadLimit
                    /\ page = {} => after = {}
                    /\ \A x \in page, y \in after :
                            y.sequence < x.sequence => y \in page
                    /\ sync' = [sync EXCEPT
                         ![d].pc = "replied",
                         ![d].reply = [to |-> to, accepted |-> sync[d].upload,
                                       events |-> EventsIn(page) \cap Understood]]
            /\ UNCHANGED <<durable, running, timer, quarantined, probing,
                           downloadOnly, restarts>>

\* Another device uploads an event of its own.
UploadElsewhere(e) ==
    /\ Author[e] = Elsewhere /\ e \notin taken \cup Refused
    /\ nextSequence <= MaxSequence
    /\ rows' = rows \cup {[sequence |-> nextSequence, event |-> e]}
    /\ nextSequence' = nextSequence + 1
    /\ taken' = taken \cup {e}
    /\ UNCHANGED <<durable, worker, restarts>>

\* A row expires, as long as the bound leaves room to store its event again.
Forget(x) ==
    /\ x \in rows /\ x.event \in Expiring
    /\ nextSequence + Cardinality((Events \ Refused) \ EventsIn(rows \ {x}))
          <= MaxSequence + 1
    /\ rows' = rows \ {x}
    /\ UNCHANGED <<durable, worker, nextSequence, taken, restarts>>

-----------------------------------------------------------------------------
(* What the worker does with the answer *)

Receive(d) ==
    /\ In(d, "replied") /\ Current(d)
    /\ sync' = [sync EXCEPT ![d].pc = "acknowledge"]
    /\ UNCHANGED <<durable, running, timer, quarantined, probing, downloadOnly,
                   relay, restarts>>

AcknowledgesAllPendingMutant(d) ==
    /\ In(d, "acknowledge") /\ Current(d)
    /\ store' = [store EXCEPT ![d] = [e \in Events |->
                    IF store[d][e] = "pending" THEN "acknowledged"
                    ELSE store[d][e]]]
    /\ sync' = [sync EXCEPT ![d].pc = "append"]
    /\ UNCHANGED <<recorded, cursor, joined, leaving, filed, running, timer,
                   quarantined, probing, downloadOnly, relay, restarts>>

\* One accepted event is marked; after the last comes the download.
Acknowledge(d) ==
    /\ In(d, "acknowledge") /\ Current(d)
    /\ IF sync[d].reply.accepted = {}
       THEN /\ sync' = [sync EXCEPT ![d].pc = "append"]
            /\ UNCHANGED store
       ELSE \E e \in sync[d].reply.accepted :
            /\ sync' = [sync EXCEPT ![d].reply.accepted = @ \ {e}]
            /\ store' = [store EXCEPT ![d][e] =
                           IF @ = "absent" THEN @ ELSE "acknowledged"]
    /\ UNCHANGED <<recorded, cursor, joined, leaving, filed, running, timer,
                   quarantined, probing, downloadOnly, relay, restarts>>

\* One downloaded event is appended, unless the journal has it.
AppendEvent(d) ==
    /\ In(d, "append") /\ Current(d)
    /\ \E e \in sync[d].reply.events :
        /\ store' = [store EXCEPT ![d][e] =
                       IF @ = "absent" THEN "acknowledged" ELSE @]
        /\ sync' = [sync EXCEPT ![d].reply.events = @ \ {e}]
    /\ UNCHANGED <<recorded, cursor, joined, leaving, filed, running, timer,
                   quarantined, probing, downloadOnly, relay, restarts>>

SaveFirstMutant(d) ==
    /\ In(d, "append") /\ Current(d)
    /\ cursor' = [cursor EXCEPT ![d] = sync[d].reply.to]
    /\ IF sync[d].reply.events = {}
       THEN /\ probing' = [probing EXCEPT ![d] = @ /\ sync[d].upload = {}]
            /\ End(d)
       ELSE UNCHANGED <<probing, timer, sync>>
    /\ UNCHANGED <<recorded, store, joined, leaving, filed, running,
                   quarantined, downloadOnly, relay, restarts>>

\* Last of all the cursor is saved, and a probe that was accepted is over.
Save(d) ==
    /\ In(d, "append") /\ Current(d) /\ sync[d].reply.events = {}
    /\ cursor' = [cursor EXCEPT ![d] = sync[d].reply.to]
    /\ probing' = [probing EXCEPT ![d] = @ /\ sync[d].upload = {}]
    /\ End(d)
    /\ UNCHANGED <<recorded, store, joined, leaving, filed, running,
                   quarantined, downloadOnly, relay, restarts>>

\* Stopped or restarted meanwhile: what is left of the answer is dropped.
Abandon(d) ==
    /\ In(d, "replied") \/ In(d, "acknowledge") \/ In(d, "append")
    /\ ~Current(d)
    /\ End(d)
    /\ UNCHANGED <<durable, running, quarantined, probing, downloadOnly,
                   relay, restarts>>

-----------------------------------------------------------------------------
(* Failures *)

\* The next attempt only downloads; then the batch is narrowed to one event,
\* and a single event is set aside for good.
NoIsolationMutant(d) ==
    UNCHANGED <<quarantined, probing, downloadOnly>>

IsolateRefusedUpload(d) ==
    IF sync[d].upload = {} \/ ~Current(d)
    THEN UNCHANGED <<quarantined, probing, downloadOnly>>
    ELSE /\ downloadOnly' = [downloadOnly EXCEPT ![d] = TRUE]
         /\ IF Cardinality(sync[d].upload) = 1
            THEN /\ quarantined' = [quarantined EXCEPT ![d] =
                                      @ \cup sync[d].upload]
                 /\ probing' = [probing EXCEPT ![d] = FALSE]
            ELSE /\ probing' = [probing EXCEPT ![d] = TRUE]
                 /\ UNCHANGED quarantined

\* A timeout, a lost answer, an unreachable, busy or outdated relay, or a
\* credential it rejects: nothing but the next attempt.
FailToExchange(d) ==
    /\ In(d, "offer") \/ In(d, "sent") \/ In(d, "replied")
    /\ End(d)
    /\ UNCHANGED <<durable, running, quarantined, probing, downloadOnly,
                   relay, restarts>>

\* Reading or writing the device's own storage fails.
FailToStore(d) ==
    /\ ~In(d, "idle")
    /\ restarts < MaxRestarts
    /\ restarts' = restarts + 1
    /\ End(d)
    /\ UNCHANGED <<durable, running, quarantined, probing, downloadOnly, relay>>

\* The relay refuses the upload: 400, 409, 413.
RelayRefuses(d) ==
    /\ In(d, "sent") /\ sync[d].upload \cap Refused # {}
    /\ IsolateRefusedUpload(d)
    /\ End(d)
    /\ UNCHANGED <<durable, running, relay, restarts>>

\* What came back is no answer of the relay's that this app can read: a
\* redirect or a web page of the network in between, an answer beyond a limit.
UnreadableAnswer(d) ==
    /\ In(d, "sent") \/ In(d, "replied")
    /\ IsolateRefusedUpload(d)
    /\ End(d)
    /\ UNCHANGED <<durable, running, relay, restarts>>

\* The relay was restarted with another key and refuses the cursor it signed
\* with the old one: the download starts over.
CursorRefused(d) ==
    /\ In(d, "sent") /\ sync[d].from # 0
    /\ restarts < MaxRestarts
    /\ restarts' = restarts + 1
    /\ cursor' = [cursor EXCEPT ![d] = IF Current(d) THEN 0 ELSE @]
    /\ End(d)
    /\ UNCHANGED <<recorded, store, joined, leaving, filed, running,
                   quarantined, probing, downloadOnly, relay>>

-----------------------------------------------------------------------------
(* The app around the worker *)

\* An event is recorded in the local journal, and the worker woken.
Record(d, e) ==
    /\ joined[d]
    /\ e \notin recorded /\ Author[e] = d
    /\ \A f \in recorded : Author[f] = d => f < e
    /\ recorded' = recorded \cup {e}
    /\ store' = [store EXCEPT ![d][e] = "pending"]
    /\ UNCHANGED <<cursor, joined, leaving, filed, worker, relay, restarts>>

\* An event arrives from a device nearby, without the relay; its own even, if
\* it no longer holds it.
ReceiveNearby(d, e) ==
    /\ joined[d] /\ store[d][e] = "absent"
    /\ e \in recorded \/ Author[e] = Elsewhere
    /\ store' = [store EXCEPT ![d][e] = "pending"]
    /\ UNCHANGED <<recorded, cursor, joined, leaving, filed, worker, relay,
                   restarts>>

\* The worker goes with the screen that owns it, or with the process.
WorkerGone(d) ==
    /\ running' = [running EXCEPT ![d] = FALSE]
    /\ timer' = [timer EXCEPT ![d] = FALSE]
    /\ quarantined' = [quarantined EXCEPT ![d] = {}]
    /\ probing' = [probing EXCEPT ![d] = FALSE]
    /\ downloadOnly' = [downloadOnly EXCEPT ![d] = FALSE]
    /\ sync' = [sync EXCEPT ![d] = Idle]

\* The app dies and the device keeps what was written.
Die(d) ==
    /\ running[d] \/ leaving[d]
    /\ restarts < MaxRestarts
    /\ restarts' = restarts + 1
    /\ leaving' = [leaving EXCEPT ![d] = FALSE]
    /\ WorkerGone(d)
    /\ UNCHANGED <<recorded, store, cursor, joined, filed, relay>>

\* A voyage is joined, again perhaps: its journal and cursor are those left.
Join(d) ==
    /\ ~joined[d]
    /\ joined' = [joined EXCEPT ![d] = TRUE]
    /\ UNCHANGED <<recorded, store, cursor, leaving, filed, worker, relay,
                   restarts>>

\* Leaving, or filing, begins with forgetting the cursor; a voyage that is left
\* keeps its events.
ClearCursor(d) ==
    /\ joined[d] /\ ~leaving[d]
    /\ cursor' = [cursor EXCEPT ![d] = 0]
    /\ leaving' = [leaving EXCEPT ![d] = TRUE]
    /\ UNCHANGED <<recorded, store, joined, filed, worker, relay, restarts>>

\* The session is removed, and the worker goes with the screen.
RemoveSession(d) ==
    /\ leaving[d]
    /\ joined' = [joined EXCEPT ![d] = FALSE]
    /\ leaving' = [leaving EXCEPT ![d] = FALSE]
    /\ WorkerGone(d)
    /\ UNCHANGED <<recorded, store, cursor, filed, relay, restarts>>

\* A voyage that has ended is removed with its events: by its sailor, who has
\* cleared the cursor first, by the timer, or by joining another.  The events go
\* first, and the session in a step of its own.
DeleteEvents(d) ==
    /\ joined[d] /\ VoyageEnded(d)
    /\ store' = [store EXCEPT ![d] = [e \in Events |-> "absent"]]
    /\ filed' = filed \cup {d}
    /\ leaving' = [leaving EXCEPT ![d] = TRUE]
    /\ UNCHANGED <<recorded, cursor, joined, worker, relay, restarts>>

-----------------------------------------------------------------------------
Exchange(d) ==
    \/ Offer(d) \/ Send(d) \/ Receive(d)
    \/ Acknowledge(d) \/ AppendEvent(d) \/ Save(d) \/ Abandon(d)

RelayReplies(d) == RelayAnswers(d) \/ RelayRefuses(d)

Failure(d) ==
    \/ FailToExchange(d) \/ FailToStore(d)
    \/ UnreadableAnswer(d) \/ CursorRefused(d)

App(d) ==
    \/ Start(d) \/ Stop(d) \/ Die(d)
    \/ Join(d) \/ ClearCursor(d) \/ DeleteEvents(d) \/ RemoveSession(d)
    \/ \E e \in Events : Record(d, e) \/ ReceiveNearby(d, e)

Next ==
    \/ \E d \in Devices :
        Wake(d) \/ Exchange(d) \/ RelayReplies(d) \/ Failure(d) \/ App(d)
    \/ \E e \in Events : UploadElsewhere(e)
    \/ \E x \in rows : Forget(x)

Spec == Init /\ [][Next]_vars

\* The event loop runs what is due; timers fire; and the network, however
\* often it fails, lets an exchange through again and again.
Fairness ==
    \A d \in Devices :
        /\ WF_vars(Wake(d)) /\ WF_vars(Exchange(d))
        /\ SF_vars(Offer(d)) /\ SF_vars(RelayReplies(d)) /\ SF_vars(Receive(d))

FairSpec == Spec /\ Fairness

-----------------------------------------------------------------------------
TypeOK ==
    /\ recorded \subseteq Events
    /\ store \in [Devices -> [Events -> {"absent", "pending", "acknowledged"}]]
    /\ cursor \in [Devices -> Nat]
    /\ joined \in [Devices -> BOOLEAN]
    /\ leaving \in [Devices -> BOOLEAN]
    /\ running \in [Devices -> BOOLEAN]
    /\ timer \in [Devices -> BOOLEAN]
    /\ quarantined \in [Devices -> SUBSET Events]
    /\ probing \in [Devices -> BOOLEAN]
    /\ downloadOnly \in [Devices -> BOOLEAN]
    /\ sync \in [Devices -> Sync]
    /\ rows \subseteq Row
    /\ nextSequence \in Nat
    /\ taken \subseteq Events
    /\ filed \subseteq Devices
    /\ restarts \in Nat

\* A saved cursor never runs past an event the device does not hold: whatever
\* is interrupted, the next download brings what is missing.  Of a device that
\* has removed the voyage nothing is said here.
CoveredBy(d) ==
    \A x \in rows :
        x.sequence <= cursor[d] /\ x.event \in Understood
            => store[d][x.event] # "absent"

SavedCursorCovered == \A d \in Devices \ filed : CoveredBy(d)

\* The same of every device: joining a voyage again brings all of it back.
JoiningAgainStartsOver ==
    \A d \in Devices : joined[d] /\ ~leaving[d] => CoveredBy(d)

\* An event that a device no longer offers was stored by the relay, or is one
\* that it may forget.
AcknowledgedWasTaken ==
    \A d \in Devices, e \in Events :
        store[d][e] = "acknowledged" => e \in taken \cup Expiring

\* A worker that is started is in a synchronisation or has one scheduled,
\* however starts and stops fall into the one in flight.
NeverAsleep ==
    \A d \in Devices : running[d] => timer[d] \/ ~In(d, "idle")

\* Only an event the relay refuses is set aside.
OnlyRefusedQuarantined == \A d \in Devices : quarantined[d] \subseteq Refused

\* A refused event holds up neither the events queued behind it ...
QueueMovesOn ==
    \A d \in Devices, e \in Supported :
        e \in Pending(d) /\ running[d]
            ~> e \notin Pending(d) \/ e \in quarantined[d] \/ ~running[d]

\* ... nor what the device receives.
DownloadsMoveOn ==
    \A d \in Devices, e \in Understood :
        e \in EventsIn(rows) /\ running[d]
            ~> e \in Held(d) \/ e \notin EventsIn(rows) \/ ~running[d] \/ d \in filed
=============================================================================
