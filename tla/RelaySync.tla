------------------------------ MODULE RelaySync ------------------------------
(***************************************************************************)
(* The relay's event store for one voyage: the transaction behind          *)
(* POST events:sync, the one behind POST presence:sync, and the hourly     *)
(* clean-up process, all on the voyage's database rows.                    *)
(*                                                                         *)
(* A sync reads the voyage row, then locks it (SELECT ... FOR UPDATE),     *)
(* purges, stores the uploaded events one by one, builds the download and  *)
(* commits.  The ORM keeps the attributes of the FIRST read: the locking   *)
(* read does not refresh them.  So a transaction carries the row as it     *)
(* first saw it and writes back the attributes it changed.  The database   *)
(* is PostgreSQL at READ COMMITTED: every other read sees what is          *)
(* committed when it runs, which, under the voyage's lock, is `rows' and   *)
(* `replays' as they stand here.                                           *)
(*                                                                         *)
(* All events have the same size, so stored_event_bytes moves with         *)
(* stored_event_count and is not modelled.  Credentials, rate limits and   *)
(* the shape checks on a request leave the database alone: the requests    *)
(* here are those that pass them.  One of these checks is that the         *)
(* idempotency key is the hash of the request's body, so here the request  *)
(* is its own key, and a key is never used for two requests.               *)
(***************************************************************************)
EXTENDS Integers, Sequences, FiniteSets

CONSTANTS
    Relays,             \* sync requests that can be in progress at once
    Sailors,            \* devices that share a live position
    Batches,            \* the uploads a device may send: sequences of events
    JournalRetention,   \* default life of an event (72 h)
    HazardRetention,    \* life of a hazard report (24 h)
    MessageRetention,   \* life of a message or a shared contact (2 h)
    PositionRetention,  \* life of a location or a rejoin route (30 min)
    VoyageRetention,    \* voyage_retention_hours
    EndedVoyageGrace,   \* ended_voyage_grace_hours
    ReplayRetention,    \* idempotency_retention_hours
    PresenceTTL,        \* pre_start_presence_ttl_seconds
    MaxEvents,          \* maximum_events_per_voyage
    MaxReplays,         \* maximum_replays_per_voyage
    MaxDownload,        \* maximum_download_events
    MaxPositions,       \* maximum_pre_start_presence_sailors
    Cleaning,           \* whether the clean-up process is scheduled
    Prompt,             \* whether the clock stands still during a transaction
    MaxNow,             \* bound: last instant of the clock
    MaxRequests,        \* bound: sync requests in a behaviour
    NoVoyage, None, Nobody, Cleaner, NoTxn

Event == [id : STRING, type : STRING, body : Nat, expires : Nat]

RangeOf(batch) == {batch[i] : i \in DOMAIN batch}
IdsOf(events) == {e.id : e \in events}
EventsIn(table) == {x.event : x \in table}

ASSUME BatchesAssumption ==
    \A batch \in Batches :
        /\ batch \in Seq(Event)
        /\ \A i, j \in DOMAIN batch : batch[i].id = batch[j].id => i = j

ASSUME RetentionAssumption ==
    /\ {JournalRetention, HazardRetention, MessageRetention, PositionRetention,
        VoyageRetention, EndedVoyageGrace, ReplayRetention, PresenceTTL}
          \subseteq Nat \ {0}
    /\ {MaxEvents, MaxReplays, MaxDownload, MaxPositions, MaxNow, MaxRequests}
          \subseteq Nat
    /\ Cleaning \in BOOLEAN /\ Prompt \in BOOLEAN

ASSUME NamesAssumption ==
    /\ None \notin Nat
    /\ Nobody \notin Relays /\ Cleaner \notin Relays /\ Cleaner # Nobody

VARIABLES
    now,          \* the clock of the relay host
    voyage,       \* the committed row of table voyages, or NoVoyage
    rows,         \* table voyage_events
    replays,      \* table idempotency_replays
    positions,    \* table pre_start_positions: sailor -> expires_at, 0 if absent
    nextSequence, \* the next value of voyage_events.sequence
    lock,         \* who holds the voyage's row lock
    txn,          \* the sync transaction of each relay worker
    cleaner,      \* the clean-up transaction
    answers,      \* every response sent; a response may be lost or arrive late
    requests      \* how many sync requests were received

db == <<voyage, rows, replays, positions>>
vars == <<now, voyage, rows, replays, positions, nextSequence, lock, txn,
          cleaner, answers, requests>>

VoyageRow == [count : Nat, endedAt : Nat \cup {None}, deleteAfter : Nat,
              lastSeen : Nat]
Attributes == {"count", "endedAt", "deleteAfter", "lastSeen"}

ASSUME NoVoyageAssumption == NoVoyage \notin VoyageRow

StoredEvent == [sequence : Nat, event : Event, expires : Nat]
Request == [device : Sailors, cursor : Nat, batch : Batches]
Replay == [request : Request, accepted : SUBSET STRING, expires : Nat]
Answer == [device : Sailors, from : Nat, to : Nat, events : SUBSET STRING,
           accepted : SUBSET STRING]
Txn == [pc : {"claim", "lock", "store", "replay"},
        at : Nat,                        \* `now', read when the request arrived
        request : Request,
        mine : VoyageRow \cup {NoVoyage},    \* the ORM's copy of the row
        loaded : VoyageRow \cup {NoVoyage},  \* that copy at the last flush
        dirty : SUBSET Attributes,
        added : SUBSET StoredEvent,      \* rows inserted, not yet committed
        step : Nat \ {0}]                \* the event of the batch to store next

-----------------------------------------------------------------------------
Earlier(s, t) == IF s <= t THEN s ELSE t
Later(s, t) == IF s <= t THEN t ELSE s
\* Mutants (here and below, a name in ...Mutant): what a plausible bug would
\* make of the definition that follows; no specification uses them.
LessUnclampedMutant(n, k) == n - k
LessForgottenMutant(n, k) == n
Less(n, k) == IF k <= n THEN n - k ELSE 0

ExpiredEarlyMutant(table, t) == {x \in table : x.expires <= t + 1}
Expired(table, t) == {x \in table : x.expires <= t}

\* How long the relay keeps an event of this type, whatever its sender asks.
MaximumEventRetention(type) ==
    CASE type \in {"sailorLocationUpdated", "rejoinRouteShared"} ->
            PositionRetention
      [] type \in {"statusMessage", "routeDeviationChanged",
                   "routeAlertAcknowledged", "iceInfoShared", "iceInfoViewed",
                   "sailorContactShared", "sweeperRoleRequested",
                   "sweeperRoleResponded"} -> MessageRetention
      [] type \in {"hazardReported", "hazardCleared"} -> HazardRetention
      [] OTHER -> JournalRetention

LifecycleTypes == {"voyageEnded", "voyageReopened"}

\* What storing an event of the lifecycle does to the voyage row.
AfterLifecycle(row, type, t) ==
    CASE type = "voyageEnded" /\ row.endedAt = None ->
            [row EXCEPT !.endedAt = t,
                        !.deleteAfter = Earlier(@, t + EndedVoyageGrace)]
      [] type = "voyageReopened" /\ row.endedAt # None ->
            [row EXCEPT !.endedAt = None,
                        !.deleteAfter = Later(@, t + VoyageRetention)]
      [] OTHER -> row

AfterSyncEndedTooMutant(row, t) ==
    [row EXCEPT !.lastSeen = t, !.deleteAfter = t + VoyageRetention]

\* Every sync that commits keeps a running voyage for another window.
AfterSync(row, t) ==
    [row EXCEPT !.lastSeen = t,
                !.deleteAfter = IF row.endedAt = None THEN t + VoyageRetention
                                ELSE @]

EndsVoyageByFirstMutant(batch) ==
    \E i \in DOMAIN batch :
        /\ batch[i].type = "voyageEnded"
        /\ \A j \in DOMAIN batch : j < i => batch[j].type \notin LifecycleTypes

\* The batch's last lifecycle event, stored now or before, is an end.
EndsVoyage(batch) ==
    \E i \in DOMAIN batch :
        /\ batch[i].type = "voyageEnded"
        /\ \A j \in DOMAIN batch : j > i => batch[j].type \notin LifecycleTypes

PhaseOfASetMutant ==
    LET types == {x.event.type : x \in rows}
    IN  CASE "voyageReopened" \in types -> "started"
          [] OTHER -> IF "voyageEnded" \in types THEN "ended" ELSE "open"

\* The voyage's phase, read off the stored lifecycle events in their order.
Phase ==
    LET of(types) == {x \in rows : x.event.type \in types}
    IN  CASE \E x \in of({"voyageEnded"}) :
                \A y \in of(LifecycleTypes) : y.sequence <= x.sequence -> "ended"
          [] OTHER -> IF of({"voyageStarted"}) # {} THEN "started" ELSE "open"

-----------------------------------------------------------------------------
Init ==
    /\ now = 1
    /\ voyage = NoVoyage
    /\ rows = {} /\ replays = {}
    /\ positions = [s \in Sailors |-> 0]
    /\ nextSequence = 1
    /\ lock = Nobody
    /\ txn = [r \in Relays |-> NoTxn]
    /\ cleaner = [pc |-> "idle", at |-> 0, usage |-> 0]
    /\ answers = {}
    /\ requests = 0

-----------------------------------------------------------------------------
(* POST events:sync *)

In(r, pc) == txn[r] # NoTxn /\ txn[r].pc = pc

RollbackKeepsLockMutant(r) ==
    /\ txn' = [txn EXCEPT ![r] = NoTxn]
    /\ UNCHANGED <<now, db, nextSequence, lock, cleaner, answers, requests>>

\* The transaction ends without effect: an error answer, or the process died.
Rollback(r) ==
    /\ txn' = [txn EXCEPT ![r] = NoTxn]
    /\ lock' = IF lock = r THEN Nobody ELSE lock
    /\ UNCHANGED <<now, db, nextSequence, cleaner, answers, requests>>

\* A request arrives: the time is read, then the voyage row, without a lock.
BeginSync(r, request) ==
    /\ txn[r] = NoTxn
    /\ requests < MaxRequests
    /\ requests' = requests + 1
    /\ txn' = [txn EXCEPT ![r] =
                [pc |-> IF voyage = NoVoyage THEN "claim" ELSE "lock",
                 at |-> now, request |-> request,
                 mine |-> voyage, loaded |-> voyage, dirty |-> {},
                 added |-> {}, step |-> 1]]
    /\ UNCHANGED <<now, db, nextSequence, lock, cleaner, answers>>

\* The first sync of a voyage inserts its row; the insert waits for another
\* uncommitted one, and finding a committed one reads that instead.
ClaimVoyage(r) ==
    LET t == txn[r].at
        claimed == [count |-> 0, endedAt |-> None,
                    deleteAfter |-> t + VoyageRetention, lastSeen |-> t]
        row == IF voyage = NoVoyage THEN claimed ELSE voyage
    IN  /\ In(r, "claim")
        /\ voyage = NoVoyage => lock = Nobody
        /\ lock' = IF voyage = NoVoyage THEN r ELSE lock
        /\ txn' = [txn EXCEPT ![r].pc = "lock", ![r].mine = row,
                              ![r].loaded = row]
        /\ UNCHANGED <<now, db, nextSequence, cleaner, answers, requests>>

LocksWithoutWaitingMutant(r) ==
    /\ In(r, "lock")
    /\ lock = r \/ voyage # NoVoyage

\* SELECT ... FOR UPDATE returns the row: its own claim or the committed one.
Locks(r) ==
    /\ In(r, "lock")
    /\ lock = r \/ (lock = Nobody /\ voyage # NoVoyage)

\* The clean-up deleted the voyage between the two reads: 500.
VoyageVanished(r) ==
    /\ In(r, "lock") /\ lock = Nobody /\ voyage = NoVoyage
    /\ Rollback(r)

\* What the transaction reads once it has purged.
LiveRows(r) == rows \ Expired(rows, txn[r].at)
LiveReplays(r) == replays \ Expired(replays, txn[r].at)
EarlierAnswers(r) ==
    IF txn[r].request.batch = <<>> THEN {}
    ELSE {p \in LiveReplays(r) : p.request = txn[r].request}

EventConflict(r) ==
    \E e \in RangeOf(txn[r].request.batch), x \in LiveRows(r) :
        e.id = x.event.id /\ e # x.event

\* 409: an event of the batch is stored with another body.
Conflict(r) ==
    /\ Locks(r)
    /\ EarlierAnswers(r) = {} /\ EventConflict(r)
    /\ Rollback(r)

\* The lock is taken and what has expired is purged; the counter goes down in
\* the ORM's copy, which the lock did not refresh.
Purge(r, pc) ==
    LET count == Less(txn[r].mine.count, Cardinality(Expired(rows, txn[r].at)))
        row == [txn[r].mine EXCEPT !.count = count]
    IN  /\ lock' = r
        /\ txn' = [txn EXCEPT
                     ![r].pc = pc, ![r].mine = row, ![r].loaded = row,
                     ![r].dirty = IF row = txn[r].mine THEN {} ELSE {"count"}]
        /\ UNCHANGED <<now, db, nextSequence, cleaner, answers, requests>>

EnterReplay(r) ==
    /\ Locks(r)
    /\ EarlierAnswers(r) # {}
    /\ Purge(r, "replay")

EnterStore(r) ==
    /\ Locks(r)
    /\ EarlierAnswers(r) = {} /\ ~EventConflict(r)
    /\ Purge(r, "store")

\* One turn of the loop over the batch.
Storing(r) == In(r, "store") /\ txn[r].step <= Len(txn[r].request.batch)
CurrentEvent(r) == txn[r].request.batch[txn[r].step]
KeptUntil(r) ==
    Earlier(Earlier(txn[r].at + MaximumEventRetention(CurrentEvent(r).type),
                    CurrentEvent(r).expires),
            txn[r].mine.deleteAfter)
StoresAgainMutant(r) == KeptUntil(r) > txn[r].at
LooksUpUnpurgedMutant(r) ==
    /\ CurrentEvent(r).id \notin IdsOf(EventsIn(rows))
    /\ KeptUntil(r) > txn[r].at
Stores(r) ==
    /\ CurrentEvent(r).id \notin IdsOf(EventsIn(LiveRows(r)))
    /\ KeptUntil(r) > txn[r].at

QuotaReachedLateMutant(r) == txn[r].mine.count > MaxEvents
QuotaReached(r) == txn[r].mine.count + 1 > MaxEvents

\* Already stored, or dead on arrival: accepted, and that is all.
SkipEvent(r) ==
    /\ Storing(r) /\ ~Stores(r)
    /\ txn' = [txn EXCEPT ![r].step = @ + 1]
    /\ UNCHANGED <<now, db, nextSequence, lock, cleaner, answers, requests>>

StoreEvent(r) ==
    LET e == CurrentEvent(r)
        row == [txn[r].mine EXCEPT !.count = @ + 1]
    IN  /\ Storing(r) /\ Stores(r) /\ ~QuotaReached(r)
        /\ txn' = [txn EXCEPT
                     ![r].added = @ \cup
                        {[sequence |-> nextSequence, event |-> e,
                          expires |-> KeptUntil(r)]},
                     ![r].mine = AfterLifecycle(row, e.type, txn[r].at),
                     ![r].step = @ + 1]
        /\ nextSequence' = nextSequence + 1
        /\ UNCHANGED <<now, db, lock, cleaner, answers, requests>>

\* 413: the voyage's events are at their limit.
EventQuota(r) ==
    /\ Storing(r) /\ Stores(r) /\ QuotaReached(r)
    /\ Rollback(r)

\* The download: unexpired rows after the cursor, in order, cut off by the
\* event limit or earlier by the byte limit, but never before the first.
IsPage(page, available) ==
    /\ Cardinality(page) <= MaxDownload
    /\ page = {} => available = {}
    /\ \A x \in page, y \in available : y.sequence < x.sequence => y \in page

\* The new cursor: the last sequence of the page, or the old one.
NextCursor(page, from, to) ==
    /\ to \in {from} \cup {x.sequence : x \in page}
    /\ \A x \in page : x.sequence <= to

\* What the ORM writes at the end: the attributes it changed, or a whole row.
WriteBack(committed, mine, changed) ==
    LET Written(f) == IF f \in changed THEN mine[f] ELSE committed[f]
    IN  IF committed = NoVoyage THEN mine
        ELSE [count |-> Written("count"), endedAt |-> Written("endedAt"),
              deleteAfter |-> Written("deleteAfter"),
              lastSeen |-> Written("lastSeen")]

\* The end of both kinds of sync: response, retention, commit.
Finish(r, accepted) ==
    LET t == txn[r]
        visible == LiveRows(r) \cup t.added
        available == {x \in visible : x.sequence > t.request.cursor}
        row == AfterSync(t.mine, t.at)
        changed == t.dirty \cup {f \in Attributes : row[f] # t.loaded[f]}
    IN  /\ \E page \in SUBSET available, to \in 0..nextSequence :
            /\ IsPage(page, available)
            /\ NextCursor(page, t.request.cursor, to)
            /\ answers' = answers \cup
                 {[device |-> t.request.device, from |-> t.request.cursor,
                   to |-> to, events |-> IdsOf(EventsIn(page)), accepted |-> accepted]}
        /\ voyage' = WriteBack(voyage, row, changed)
        /\ rows' = visible
        /\ txn' = [txn EXCEPT ![r] = NoTxn]
        /\ lock' = Nobody
        /\ UNCHANGED <<now, nextSequence, cleaner, requests>>

\* A retry of an upload: its acceptance is replayed, its download rebuilt.
FinishReplay(r) ==
    /\ In(r, "replay")
    /\ \E p \in EarlierAnswers(r) : Finish(r, p.accepted)
    /\ replays' = LiveReplays(r)
    /\ UNCHANGED positions

Stored(r) == In(r, "store") /\ txn[r].step > Len(txn[r].request.batch)

FinishStore(r) ==
    LET t == txn[r]
        accepted == IdsOf(RangeOf(t.request.batch))
        replay == [request |-> t.request, accepted |-> accepted,
                   expires |-> t.at + ReplayRetention]
        recorded == IF t.request.batch = <<>> THEN {} ELSE {replay}
    IN  /\ Stored(r)
        /\ recorded # {} => Cardinality(LiveReplays(r)) + 1 <= MaxReplays
        /\ Finish(r, accepted)
        /\ replays' = LiveReplays(r) \cup recorded
        /\ positions' = IF EndsVoyage(t.request.batch)
                        THEN [s \in Sailors |-> 0] ELSE positions

\* 413: the voyage's recorded answers are at their limit.
ReplayQuota(r) ==
    /\ Stored(r) /\ txn[r].request.batch # <<>>
    /\ Cardinality(LiveReplays(r)) + 1 > MaxReplays
    /\ Rollback(r)

\* The relay process dies, or loses its database connection.
Crash(r) == txn[r] # NoTxn /\ Rollback(r)

-----------------------------------------------------------------------------
(* POST presence:sync: one transaction, all of it under the voyage's lock *)

LivePositions == [s \in Sailors |-> IF positions[s] <= now THEN 0
                                    ELSE positions[s]]
Occupied(table) == {s \in Sailors : table[s] # 0}

Presence ==
    /\ lock = Nobody /\ voyage # NoVoyage
    /\ UNCHANGED <<now, voyage, rows, replays, nextSequence, lock, txn,
                   cleaner, answers, requests>>

\* Once the voyage has ended nobody's position is kept or taken.
PresenceEnded ==
    /\ Presence /\ Phase = "ended"
    /\ positions' = [s \in Sailors |-> 0]

\* A sailor shares a position; at the limit a newcomer is refused (409).
SharePosition(s) ==
    /\ Presence /\ Phase # "ended"
    /\ s \in Occupied(LivePositions)
          \/ Cardinality(Occupied(LivePositions)) < MaxPositions
    /\ positions' = [LivePositions EXCEPT ![s] = now + PresenceTTL]

ClearPosition(s) ==
    /\ Presence /\ Phase # "ended"
    /\ positions' = [LivePositions EXCEPT ![s] = 0]

\* A sailor only looks; what has expired is purged.
ReadPositions ==
    /\ Presence /\ Phase # "ended"
    /\ positions' = LivePositions

-----------------------------------------------------------------------------
(* tide-and-seek-cleanup, every hour in a process of its own *)

\* It first counts what has expired, before it locks anything.
CleanupCount ==
    LET usage == Cardinality(Expired(rows, now))
    IN  /\ Cleaning /\ cleaner.pc = "idle"
        /\ cleaner' = [pc |-> IF usage = 0 THEN "delete" ELSE "lock",
                       at |-> now, usage |-> usage]
        /\ UNCHANGED <<now, db, nextSequence, lock, txn, answers, requests>>

CleanupLock ==
    /\ cleaner.pc = "lock" /\ lock = Nobody
    /\ lock' = IF voyage = NoVoyage THEN Nobody ELSE Cleaner
    /\ cleaner' = [cleaner EXCEPT !.pc = "delete"]
    /\ UNCHANGED <<now, db, nextSequence, txn, answers, requests>>

\* The voyage row it updates is read under the lock, so it is not stale; the
\* usage is.  Its DELETEs wait for the sync that holds the voyage; a voyage
\* takes its events, answers and positions along (ON DELETE CASCADE).
CleanupDelete ==
    LET t == cleaner.at
        counted == IF lock = Cleaner
                   THEN [voyage EXCEPT !.count = Less(@, cleaner.usage)]
                   ELSE voyage
        kept == voyage # NoVoyage /\ voyage.deleteAfter > t
    IN  /\ cleaner.pc = "delete" /\ lock \in {Nobody, Cleaner}
        /\ voyage' = IF kept THEN counted ELSE NoVoyage
        /\ rows' = IF kept THEN rows \ Expired(rows, t) ELSE {}
        /\ replays' = IF kept THEN replays \ Expired(replays, t) ELSE {}
        /\ positions' = [s \in Sailors |->
                           IF ~kept \/ positions[s] <= t THEN 0
                           ELSE positions[s]]
        /\ lock' = Nobody
        /\ cleaner' = [pc |-> "idle", at |-> 0, usage |-> 0]
        /\ UNCHANGED <<now, nextSequence, txn, answers, requests>>

\* The clean-up process dies: its transaction rolls back.
CleanupCrash ==
    /\ cleaner.pc # "idle"
    /\ lock' = IF lock = Cleaner THEN Nobody ELSE lock
    /\ cleaner' = [pc |-> "idle", at |-> 0, usage |-> 0]
    /\ UNCHANGED <<now, db, nextSequence, txn, answers, requests>>

-----------------------------------------------------------------------------
Tick ==
    /\ now < MaxNow
    /\ Prompt => cleaner.pc = "idle" /\ \A r \in Relays : txn[r] = NoTxn
    /\ now' = now + 1
    /\ UNCHANGED <<db, nextSequence, lock, txn, cleaner, answers, requests>>

\* A device sends the cursor of some answer it received, or none.
KnownCursors(device) ==
    {0} \cup {a.to : a \in {b \in answers : b.device = device}}

Receive(r) ==
    \E device \in Sailors, batch \in Batches :
        \E cursor \in KnownCursors(device) :
            BeginSync(r, [device |-> device, cursor |-> cursor,
                          batch |-> batch])

Work(r) ==
    \/ ClaimVoyage(r) \/ VoyageVanished(r) \/ Conflict(r)
    \/ EnterReplay(r) \/ EnterStore(r)
    \/ SkipEvent(r) \/ StoreEvent(r) \/ EventQuota(r)
    \/ FinishReplay(r) \/ FinishStore(r) \/ ReplayQuota(r)

Cleanup == CleanupCount \/ CleanupLock \/ CleanupDelete \/ CleanupCrash

Next ==
    \/ \E r \in Relays : Receive(r) \/ Work(r) \/ Crash(r)
    \/ PresenceEnded \/ ReadPositions
    \/ \E s \in Sailors : SharePosition(s) \/ ClearPosition(s)
    \/ Cleanup
    \/ Tick

Spec == Init /\ [][Next]_vars

\* A worker's next statement runs in the end.  PostgreSQL queues the waiters of
\* a row lock, so a lock that is free again and again is granted.
Fairness ==
    /\ \A r \in Relays : SF_vars(Work(r))
    /\ SF_vars(CleanupLock \/ CleanupDelete)

FairSpec == Spec /\ Fairness

-----------------------------------------------------------------------------
TypeOK ==
    /\ now \in Nat
    /\ voyage \in VoyageRow \cup {NoVoyage}
    /\ rows \subseteq StoredEvent
    /\ replays \subseteq Replay
    /\ positions \in [Sailors -> Nat]
    /\ nextSequence \in Nat
    /\ lock \in Relays \cup {Nobody, Cleaner}
    /\ txn \in [Relays -> Txn \cup {NoTxn}]
    /\ cleaner \in [pc : {"idle", "lock", "delete"}, at : Nat, usage : Nat]
    /\ answers \subseteq Answer
    /\ requests \in Nat

\* An event has at most one row, whatever retries and workers interleave: the
\* look-up and the insert are under one lock, so the unique constraint on
\* (voyage_id, event_id) is never what stops a request.
OneRowPerEvent ==
    \A x, y \in rows : x.event.id = y.event.id => x = y

\* No cursor runs past an event it has not delivered: a row that the store
\* holds behind the cursor of an answer was in that answer, or before it.
\* A row committed later, with a sequence below a cursor already handed out,
\* would never be downloaded.
AnswersCoverCursor ==
    \A a \in answers, x \in rows :
        a.from < x.sequence /\ x.sequence <= a.to => x.event.id \in a.events

\* Why both hold: only the lock's holder is past the purge, and what it has
\* inserted is new, in identity and in sequence, to everything committed.
InsideLock(r) == In(r, "store") \/ In(r, "replay")

Inserted(r) ==
    \A x \in txn[r].added :
        /\ 0 < x.sequence /\ x.sequence < nextSequence
        /\ \A y \in rows : y.sequence < x.sequence
        /\ \A a \in answers : a.to < x.sequence
        /\ x.event.id \notin IdsOf(EventsIn(LiveRows(r)))
        /\ \E i \in DOMAIN txn[r].request.batch :
              i < txn[r].step /\ txn[r].request.batch[i] = x.event
        /\ \A y \in txn[r].added :
              x.event.id = y.event.id \/ x.sequence = y.sequence => x = y

CommittedJournal ==
    /\ OneRowPerEvent /\ AnswersCoverCursor
    /\ nextSequence > 0
    /\ \A x \in rows : x.sequence < nextSequence
    /\ \A x, y \in rows : x.sequence = y.sequence => x = y
    /\ \A a \in answers : a.to < nextSequence

OpenJournal(r) ==
    txn[r] # NoTxn =>
        /\ InsideLock(r) => lock = r
        /\ ~In(r, "store") => txn[r].added = {}
        /\ txn[r].request.cursor < nextSequence
        /\ Inserted(r)

JournalInv == CommittedJournal /\ \A r \in Relays : OpenJournal(r)

\* The relay keeps the promise of RelayJournal, with its committed rows as
\* the journal: no worker, retry, crash or clean-up shows in it.
Journal == INSTANCE RelayJournal WITH journal <- rows
ImplementsJournal == Journal!Spec

\* What an upload is told was accepted is in the store with its own body, or was
\* past its life when it came, its sender's or its voyage's: a phone stops
\* offering what is accepted, so nothing else may be acknowledged and dropped.
AcceptedIsStored ==
    [][\A r \in Relays : FinishStore(r) =>
         \A e \in RangeOf(txn[r].request.batch) :
            \/ e \in EventsIn(rows')
            \/ e.expires <= txn[r].at
            \/ txn[r].loaded.deleteAfter <= txn[r].at]_vars

\* What is committed stays until it expires or its voyage goes.
NothingForgottenEarly ==
    [][\A x \in rows : x \in rows' \/ x.expires <= now \/ voyage' = NoVoyage]_vars

\* The voyage row's deadline follows its lifecycle: a running voyage is kept
\* for the retention window after its last sync, an ended one for the grace
\* period after its end, however often it is synchronised.
RetentionFollowsLifecycle ==
    voyage # NoVoyage =>
        IF voyage.endedAt = None
        THEN voyage.deleteAfter >= voyage.lastSeen + VoyageRetention
        ELSE voyage.deleteAfter <= voyage.endedAt + EndedVoyageGrace

\* An ended voyage reports itself ended until its deadline, whichever of its
\* lifecycle events have expired by then, so that no position is taken in it.
EndedVoyageReportsEnded ==
    voyage # NoVoyage /\ voyage.endedAt # None /\ now < voyage.deleteAfter
        => Phase = "ended"

\* So an ended voyage takes no position and keeps none alive: a step leaves the
\* positions there are or discards them.
FinishedVoyageTakesNoPosition ==
    [][voyage # NoVoyage /\ voyage.endedAt # None /\ now < voyage.deleteAfter =>
         \A s \in Sailors : positions'[s] \in {0, positions[s]}]_vars

\* A finished voyage, until its deadline, holds no live position: an upload
\* whose last word is an end discards them.  This is a promise to phones that
\* upload in the order they record; a reopening that the relay has before its
\* end does, uploaded again behind that end, leaves an ended voyage's positions.
FinishedVoyageHoldsNoPositions ==
    voyage # NoVoyage /\ voyage.endedAt # None /\ now < voyage.deleteAfter
        => Occupied(positions) = {}

\* stored_event_count is the number of the voyage's rows.
CounterMatchesRows ==
    voyage # NoVoyage => voyage.count = Cardinality(rows)

\* The voyage's events never exceed their limit.
QuotaHolds == Cardinality(rows) <= MaxEvents

\* Storing a batch discards live positions only if the voyage has ended.
OnlyAFinishedVoyageDiscardsPositions ==
    [][\A r \in Relays : FinishStore(r) /\ Occupied(LivePositions) # {}
                            /\ Occupied(positions') = {}
          => voyage'.endedAt # None]_vars

\* A voyage that runs, again or still, does not report itself ended.
RunningVoyageDoesNotReportEnded ==
    voyage # NoVoyage /\ voyage.endedAt = None => Phase # "ended"

\* A request is answered or fails, it never waits for ever.
EveryRequestEnds == \A r \in Relays : txn[r] # NoTxn ~> txn[r] = NoTxn
=============================================================================
