---------------------- MODULE InternetRelayWorkerProofs ----------------------
(***************************************************************************)
(* Theorems about InternetRelayWorker, and about RelayedVoyage, which puts  *)
(* its workers beside the promise of RelayJournal: for any devices, events  *)
(* and limits.                                                              *)
(***************************************************************************)
EXTENDS RelayedVoyage, FiniteSetTheorems, TLAPS

-----------------------------------------------------------------------------
(* The operators the relay's step is built from *)

LEMMA StoredRows ==
    ASSUME TypeOK, NEW stored \in SUBSET Events
    PROVE  /\ IsFiniteSet(stored) /\ Cardinality(stored) \in Nat
           /\ \A x \in NewRows(stored) :
                /\ x \in Row /\ x.event \in stored
                /\ nextSequence <= x.sequence
                /\ x.sequence < nextSequence + Cardinality(stored)
           /\ \A x, y \in NewRows(stored) : x.sequence = y.sequence => x = y
  <1>1. stored \subseteq Events
    OBVIOUS
  <1>2. IsFiniteSet(stored) /\ Cardinality(stored) \in Nat
    BY <1>1, EventsAssumption, FS_Subset, FS_CardinalityType
  <1>3. ASSUME NEW e \in stored
        PROVE  /\ Cardinality({f \in stored : f < e}) \in Nat
               /\ Cardinality({f \in stored : f < e}) < Cardinality(stored)
    <2> DEFINE before == {f \in stored : f < e}
    <2>1. before \subseteq stored /\ e \notin before
      <3>1. e \in Events
        BY <1>1
      <3>2. e \in Nat
        BY <3>1, EventsAssumption
      <3>3. ~(e < e)
        BY <3>2
      <3> QED
        BY <3>3
    <2> HIDE DEF before
    <2>2. /\ IsFiniteSet(before)
          /\ Cardinality(before) <= Cardinality(stored)
          /\ Cardinality(before) # Cardinality(stored)
      BY <1>2, <2>1, FS_Subset
    <2>3. Cardinality(before) \in Nat
      BY <2>2, FS_CardinalityType
    <2> QED
      BY <1>2, <2>2, <2>3 DEF before
  <1>4. ASSUME NEW x \in NewRows(stored)
        PROVE  /\ x \in Row /\ x.event \in stored
               /\ nextSequence <= x.sequence
               /\ x.sequence < nextSequence + Cardinality(stored)
    <2>1. PICK e \in stored :
            x = [sequence |-> nextSequence
                                + Cardinality({f \in stored : f < e}),
                 event |-> e]
      BY DEF NewRows
    <2>2. PICK rank \in Nat :
            /\ x = [sequence |-> nextSequence + rank, event |-> e]
            /\ rank < Cardinality(stored)
      BY <1>3, <2>1
    <2>3. nextSequence \in Nat
      BY DEF TypeOK
    <2> QED
      BY <1>1, <1>2, <2>2, <2>3 DEF Row
  <1>5. ASSUME NEW e \in stored, NEW f \in stored, e < f
        PROVE  Cardinality({g \in stored : g < e})
                 # Cardinality({g \in stored : g < f})
    <2> DEFINE before(h) == {g \in stored : g < h}
    <2>1. \A g \in stored : g \in Nat
      BY <1>1, EventsAssumption
    <2>2. before(e) \subseteq before(f)
      <3>1. \A g \in stored : g < e => g < f
        BY <1>5, <2>1
      <3> QED
        BY <3>1
    <2>3. ~(e < e)
      BY <2>1
    <2>4. e \in before(f) /\ e \notin before(e)
      BY <1>5, <2>3
    <2>5. before(f) \subseteq stored
      OBVIOUS
    <2> HIDE DEF before
    <2>6. IsFiniteSet(before(f))
      BY <1>2, <2>5, FS_Subset
    <2>7. Cardinality(before(e)) # Cardinality(before(f))
      BY <2>2, <2>4, <2>6, FS_Subset
    <2> QED
      BY <2>7 DEF before
  <1>6. ASSUME NEW x \in NewRows(stored), NEW y \in NewRows(stored),
               x.sequence = y.sequence
        PROVE  x = y
    <2> DEFINE rank(e) == Cardinality({f \in stored : f < e})
    <2>1. PICK e \in stored :
            x = [sequence |-> nextSequence + rank(e), event |-> e]
      BY DEF NewRows
    <2>2. PICK f \in stored :
            y = [sequence |-> nextSequence + rank(f), event |-> f]
      BY DEF NewRows
    <2>3. rank(e) \in Nat /\ rank(f) \in Nat /\ nextSequence \in Nat
      BY <1>3 DEF TypeOK
    <2>4. e \in Nat /\ f \in Nat
      BY <1>1, EventsAssumption
    <2>5. (e < f \/ f < e) => rank(e) # rank(f)
      BY <1>5
    <2> HIDE DEF rank
    <2>6. rank(e) = rank(f)
      BY <1>6, <2>1, <2>2, <2>3
    <2>7. e = f
      BY <2>4, <2>5, <2>6
    <2> QED
      BY <2>1, <2>2, <2>7
  <1> QED
    BY <1>1, <1>2, <1>4, <1>6

LEMMA FreshEvents ==
    ASSUME TypeOK, NEW d \in Devices PROVE Fresh(d) \subseteq Events
  BY DEF TypeOK, Sync, Fresh

LEMMA CursorType ==
    ASSUME NEW from \in Nat, NEW page \in SUBSET Row,
           NEW to \in NextCursor(page, from)
    PROVE  to \in Nat
  BY DEF NextCursor, Row

\* The ways a synchronisation changes.
LEMMA SyncUpdates ==
    ASSUME NEW s \in Sync
    PROVE  /\ \A pc \in {"idle", "offer", "send", "sent", "replied",
                          "acknowledge", "append"} : [s EXCEPT !.pc = pc] \in Sync
           /\ \A upload \in SUBSET Events :
                [s EXCEPT !.pc = "send", !.upload = upload] \in Sync
           /\ \A from \in Nat : [s EXCEPT !.pc = "sent", !.from = from] \in Sync
           /\ \A reply \in Reply :
                [s EXCEPT !.pc = "replied", !.reply = reply] \in Sync
           /\ \A e : [s EXCEPT !.reply.accepted = @ \ {e}] \in Sync
           /\ \A e : [s EXCEPT !.reply.events = @ \ {e}] \in Sync
           /\ [s EXCEPT !.stale = TRUE] \in Sync
  <1>1. \A e : [s.reply EXCEPT !.accepted = @ \ {e}] \in Reply
    BY DEF Sync, Reply
  <1>2. \A e : [s.reply EXCEPT !.events = @ \ {e}] \in Reply
    BY DEF Sync, Reply
  <1>3. \A reply \in Reply : [s EXCEPT !.reply = reply] \in Sync
    BY DEF Sync
  <1>4. \A e : [s EXCEPT !.reply.accepted = @ \ {e}] \in Sync
    BY <1>1, <1>3
  <1>5. \A e : [s EXCEPT !.reply.events = @ \ {e}] \in Sync
    BY <1>2, <1>3
  <1>6. [s EXCEPT !.stale = TRUE] \in Sync
    BY DEF Sync
  <1>7. \A upload \in SUBSET Events :
            [s EXCEPT !.pc = "send", !.upload = upload] \in Sync
    BY DEF Sync
  <1>8. \A from \in Nat : [s EXCEPT !.pc = "sent", !.from = from] \in Sync
    BY DEF Sync
  <1>9. \A reply \in Reply :
            [s EXCEPT !.pc = "replied", !.reply = reply] \in Sync
    BY DEF Sync
  <1>10. \A pc \in {"idle", "offer", "send", "sent", "replied",
                     "acknowledge", "append"} : [s EXCEPT !.pc = pc] \in Sync
    BY DEF Sync
  <1> QED
    BY <1>4, <1>5, <1>6, <1>7, <1>8, <1>9, <1>10

-----------------------------------------------------------------------------
(* Type correctness *)

LEMMA IdleType == Idle \in Sync
  BY DEF Idle, Sync, Reply

LEMMA TypeInit == Init => TypeOK
  BY IdleType DEF Init, TypeOK

LEMMA EndType ==
    ASSUME TypeOK, NEW d \in Devices, End(d)
    PROVE  sync' \in [Devices -> Sync] /\ timer' \in [Devices -> BOOLEAN]
  BY IdleType DEF TypeOK, End

LEMMA AnswerType ==
    ASSUME TypeOK, NEW d \in Devices, RelayAnswers(d)
    PROVE  TypeOK'
  <1>0. PICK stored \in SUBSET Fresh(d) :
            /\ rows' = rows \cup NewRows(stored)
            /\ nextSequence' = nextSequence + Cardinality(stored)
            /\ taken' = taken \cup stored
            /\ \E page \in SUBSET {x \in rows \cup NewRows(stored) :
                                     x.sequence > sync[d].from} :
                \E to \in NextCursor(page, sync[d].from) :
                    sync' = [sync EXCEPT
                         ![d].pc = "replied",
                         ![d].reply = [to |-> to, accepted |-> sync[d].upload,
                                       events |-> EventsIn(page) \cap Understood]]
    BY DEF RelayAnswers
  <1> DEFINE after == {x \in rows \cup NewRows(stored) : x.sequence > sync[d].from}
  <1>1. PICK page \in SUBSET after : \E to \in NextCursor(page, sync[d].from) :
            sync' = [sync EXCEPT
                 ![d].pc = "replied",
                 ![d].reply = [to |-> to, accepted |-> sync[d].upload,
                               events |-> EventsIn(page) \cap Understood]]
    BY <1>0
  <1>2. PICK to \in NextCursor(page, sync[d].from) :
            sync' = [sync EXCEPT
                 ![d].pc = "replied",
                 ![d].reply = [to |-> to, accepted |-> sync[d].upload,
                               events |-> EventsIn(page) \cap Understood]]
    BY <1>1
  <1>3. stored \in SUBSET Events /\ page \subseteq Row
    BY FreshEvents, StoredRows DEF TypeOK
  <1>4. to \in Nat
    BY <1>3, CursorType DEF TypeOK, Sync
  <1>5. [to |-> to, accepted |-> sync[d].upload,
         events |-> EventsIn(page) \cap Understood] \in Reply
    BY <1>3, <1>4, EventsAssumption DEF TypeOK, Sync, Reply, EventsIn
  <1>6. sync' \in [Devices -> Sync]
    BY <1>2, <1>5, SyncUpdates DEF TypeOK
  <1>7. rows' \subseteq Row /\ nextSequence' \in Nat /\ taken' \subseteq Events
    BY <1>0, <1>3, StoredRows DEF TypeOK
  <1> QED
    BY <1>6, <1>7 DEF RelayAnswers, TypeOK, durable

LEMMA FirstNIsSubset ==
    ASSUME NEW events, NEW n PROVE FirstN(events, n) \subseteq events
  BY DEF FirstN

LEMMA ExchangeType ==
    ASSUME TypeOK, NEW d \in Devices, Exchange(d)
    PROVE  TypeOK'
  <1>1. CASE Offer(d)
    <2> DEFINE offerable == (Pending(d) \ quarantined[d]) \cap Supported
               limit == IF downloadOnly[d] THEN 0
                        ELSE IF probing[d] THEN 1 ELSE UploadLimit
    <2>1. FirstN(offerable, limit) \subseteq Events
      BY FirstNIsSubset DEF Pending
    <2>2. CASE Current(d)
      <3>1. sync' = [sync EXCEPT ![d].pc = "send",
                                 ![d].upload = FirstN(offerable, limit)]
        BY <1>1, <2>2 DEF Offer
      <3>2. sync' \in [Devices -> Sync]
        BY <2>1, <3>1, SyncUpdates DEF TypeOK
      <3> QED
        BY <1>1, <2>2, <3>2 DEF Offer, TypeOK, durable, relay
    <2>3. CASE ~Current(d)
      <3>1. End(d)
        BY <1>1, <2>3 DEF Offer
      <3> QED
        BY <1>1, <3>1, EndType DEF Offer, TypeOK, durable, relay
    <2> QED
      BY <2>2, <2>3
  <1>2. CASE Send(d)
    BY <1>2, SyncUpdates DEF Send, TypeOK, durable, relay
  <1>3. CASE Receive(d)
    BY <1>3, SyncUpdates DEF Receive, TypeOK, durable, relay
  <1>4. CASE Acknowledge(d)
    <2>1. CASE sync[d].reply.accepted = {}
      <3>1. /\ sync' = [sync EXCEPT ![d].pc = "append"]
            /\ UNCHANGED store
        BY <1>4, <2>1 DEF Acknowledge
      <3> QED
        BY <1>4, <3>1, SyncUpdates DEF Acknowledge, TypeOK, relay
    <2>2. CASE sync[d].reply.accepted # {}
      <3>1. PICK e \in sync[d].reply.accepted :
              /\ sync' = [sync EXCEPT ![d].reply.accepted = @ \ {e}]
              /\ store' = [store EXCEPT ![d][e] =
                             IF @ = "absent" THEN @ ELSE "acknowledged"]
        BY <1>4, <2>2 DEF Acknowledge
      <3>2. sync' \in [Devices -> Sync]
        BY <3>1, SyncUpdates DEF TypeOK
      <3>3. store' \in [Devices -> [Events -> {"absent", "pending", "acknowledged"}]]
        BY <3>1 DEF TypeOK
      <3> QED
        BY <1>4, <3>2, <3>3 DEF Acknowledge, TypeOK, relay
    <2> QED
      BY <2>1, <2>2
  <1>5. CASE AppendEvent(d)
    <2>1. PICK e \in sync[d].reply.events :
            /\ store' = [store EXCEPT ![d][e] =
                           IF @ = "absent" THEN "acknowledged" ELSE @]
            /\ sync' = [sync EXCEPT ![d].reply.events = @ \ {e}]
      BY <1>5 DEF AppendEvent
    <2>2. sync' \in [Devices -> Sync]
      BY <2>1, SyncUpdates DEF TypeOK
    <2>3. store' \in [Devices -> [Events -> {"absent", "pending", "acknowledged"}]]
      BY <2>1 DEF TypeOK
    <2> QED
      BY <1>5, <2>2, <2>3 DEF AppendEvent, TypeOK, relay
  <1>6. CASE Save(d)
    <2>1. cursor' \in [Devices -> Nat] /\ probing' \in [Devices -> BOOLEAN]
      BY <1>6 DEF Save, TypeOK, Sync, Reply
    <2> QED
      BY <1>6, <2>1, EndType DEF Save, TypeOK, relay
  <1>7. CASE Abandon(d)
    BY <1>7, EndType DEF Abandon, TypeOK, durable, relay
  <1> QED
    BY <1>1, <1>2, <1>3, <1>4, <1>5, <1>6, <1>7 DEF Exchange

LEMMA IsolationType ==
    ASSUME TypeOK, NEW d \in Devices, IsolateRefusedUpload(d)
    PROVE  /\ quarantined' \in [Devices -> SUBSET Events]
           /\ probing' \in [Devices -> BOOLEAN]
           /\ downloadOnly' \in [Devices -> BOOLEAN]
  <1>1. sync[d].upload \subseteq Events
    BY DEF TypeOK, Sync
  <1>2. quarantined' \in [Devices -> SUBSET Events]
    <2>1. CASE quarantined' = quarantined
      BY <2>1 DEF TypeOK
    <2>2. CASE quarantined' = [quarantined EXCEPT ![d] = @ \cup sync[d].upload]
      BY <1>1, <2>2 DEF TypeOK
    <2> QED
      BY <2>1, <2>2 DEF IsolateRefusedUpload
  <1>3. probing' \in [Devices -> BOOLEAN]
    <2>1. \/ probing' = probing
          \/ probing' = [probing EXCEPT ![d] = FALSE]
          \/ probing' = [probing EXCEPT ![d] = TRUE]
      BY DEF IsolateRefusedUpload
    <2> QED
      BY <2>1 DEF TypeOK
  <1>4. downloadOnly' \in [Devices -> BOOLEAN]
    <2>1. \/ downloadOnly' = downloadOnly
          \/ downloadOnly' = [downloadOnly EXCEPT ![d] = TRUE]
      BY DEF IsolateRefusedUpload
    <2> QED
      BY <2>1 DEF TypeOK
  <1> QED
    BY <1>2, <1>3, <1>4

LEMMA FailureType ==
    ASSUME TypeOK, NEW d \in Devices, Failure(d) \/ RelayRefuses(d)
    PROVE  TypeOK'
  <1>1. CASE FailToExchange(d)
    BY <1>1, EndType DEF FailToExchange, TypeOK, durable, relay
  <1>2. CASE FailToStore(d)
    BY <1>2, EndType DEF FailToStore, TypeOK, durable, relay
  <1>3. CASE RelayRefuses(d)
    BY <1>3, EndType, IsolationType DEF RelayRefuses, TypeOK, durable, relay
  <1>4. CASE UnreadableAnswer(d)
    BY <1>4, EndType, IsolationType DEF UnreadableAnswer, TypeOK, durable, relay
  <1>5. CASE CursorRefused(d)
    BY <1>5, EndType DEF CursorRefused, TypeOK, relay
  <1> QED
    BY <1>1, <1>2, <1>3, <1>4, <1>5 DEF Failure

LEMMA GoneType ==
    ASSUME TypeOK, NEW d \in Devices, WorkerGone(d)
    PROVE  /\ running' \in [Devices -> BOOLEAN] /\ timer' \in [Devices -> BOOLEAN]
           /\ quarantined' \in [Devices -> SUBSET Events]
           /\ probing' \in [Devices -> BOOLEAN]
           /\ downloadOnly' \in [Devices -> BOOLEAN]
           /\ sync' \in [Devices -> Sync]
  BY IdleType DEF WorkerGone, TypeOK

LEMMA AppType ==
    ASSUME TypeOK, NEW d \in Devices, App(d)
    PROVE  TypeOK'
  <1>1. CASE Start(d)
    <2>1. FirstSync(d) \in Sync
      BY IdleType DEF FirstSync, TypeOK, Sync, Idle
    <2> QED
      BY <1>1, <2>1 DEF Start, TypeOK, durable, relay
  <1>2. CASE Stop(d)
    <2>1. sync' \in [Devices -> Sync]
      BY <1>2, IdleType, SyncUpdates DEF Stop, TypeOK
    <2> QED
      BY <1>2, <2>1 DEF Stop, TypeOK, durable, relay
  <1>3. CASE Die(d)
    BY <1>3, GoneType DEF Die, TypeOK, relay
  <1>4. CASE Join(d)
    BY <1>4 DEF Join, TypeOK, worker, relay
  <1>5. CASE ClearCursor(d)
    BY <1>5 DEF ClearCursor, TypeOK, worker, relay
  <1>6. CASE RemoveSession(d)
    BY <1>6, GoneType DEF RemoveSession, TypeOK, relay
  <1>7. CASE DeleteEvents(d)
    BY <1>7 DEF DeleteEvents, TypeOK, worker, relay
  <1>8. ASSUME NEW e \in Events, Record(d, e) PROVE TypeOK'
    BY <1>8 DEF Record, TypeOK, worker, relay
  <1>9. ASSUME NEW e \in Events, ReceiveNearby(d, e) PROVE TypeOK'
    BY <1>9 DEF ReceiveNearby, TypeOK, worker, relay
  <1> QED
    BY <1>1, <1>2, <1>3, <1>4, <1>5, <1>6, <1>7, <1>8, <1>9 DEF App

LEMMA TypeStep == TypeOK /\ [Next]_vars => TypeOK'
  <1> SUFFICES ASSUME TypeOK, [Next]_vars PROVE TypeOK'
    OBVIOUS
  <1>1. ASSUME NEW d \in Devices, Wake(d) PROVE TypeOK'
    BY <1>1, SyncUpdates DEF Wake, TypeOK, durable, relay
  <1>2. ASSUME NEW e \in Events, UploadElsewhere(e) PROVE TypeOK'
    BY <1>2 DEF UploadElsewhere, TypeOK, Row, durable, worker
  <1>3. ASSUME NEW x \in rows, Forget(x) PROVE TypeOK'
    BY <1>3 DEF Forget, TypeOK, durable, worker
  <1>4. CASE UNCHANGED vars
    BY <1>4 DEF vars, durable, worker, relay, TypeOK
  <1> QED
    BY <1>1, <1>2, <1>3, <1>4, AnswerType, ExchangeType, FailureType, AppType
    DEF Next, RelayReplies

\* Every variable of a device and of the relay keeps its type.
THEOREM WorkerTypeCorrect == Spec => []TypeOK
  BY TypeInit, TypeStep, PTL DEF Spec

-----------------------------------------------------------------------------
(* The cursor: what a device may skip, and why it holds it already *)

\* The device holds, or is about to append, every row up to a sequence number.
Covered(upTo, events) ==
    \A x \in rows :
        x.sequence <= upTo /\ x.event \in Understood => x.event \in events

\* The relay numbers its rows, each number once.
RowsNumbered ==
    /\ 1 <= nextSequence
    /\ \A x \in rows : 1 <= x.sequence /\ x.sequence < nextSequence
    /\ \A x, y \in rows : x.sequence = y.sequence => x = y

\* The saved cursor, the one sent and the one answered are all covered.
DeviceCovered(d) ==
    /\ cursor[d] < nextSequence /\ Covered(cursor[d], Held(d))
    /\ sync[d].from < nextSequence /\ Covered(sync[d].from, Held(d))
    /\ sync[d].reply.to < nextSequence
    /\ Covered(sync[d].reply.to, Held(d) \cup sync[d].reply.events)

\* The relay has stored what it holds, accepted and handed out, and what a
\* device no longer offers.
OnlyTaken ==
    /\ EventsIn(rows) \subseteq taken
    /\ \A d \in Devices :
        /\ sync[d].reply.accepted \subseteq taken \cup Expiring
        /\ sync[d].reply.events \subseteq taken

WorkerInv ==
    /\ TypeOK
    /\ RowsNumbered
    /\ \A d \in Devices \ filed : DeviceCovered(d)
    /\ OnlyTaken
    /\ AcknowledgedWasTaken

\* What a step that is not the relay's may do to a device that keeps its
\* journal: the journal grows by what was answered, or by a pending event; the
\* cursor is kept, cleared or saved from an answer that was appended.
Keeps(d) ==
    /\ Held(d) \subseteq Held(d)'
    /\ \/ cursor'[d] \in {cursor[d], 0}
       \/ cursor'[d] = sync[d].reply.to /\ sync[d].reply.events = {}
    /\ sync'[d].from \in {sync[d].from, cursor[d], 0}
    /\ \/ sync'[d].reply.to = 0
       \/ /\ sync'[d].reply.to = sync[d].reply.to
          /\ sync[d].reply.events \subseteq sync'[d].reply.events \cup Held(d)'

Owes(d) ==
    /\ sync'[d].reply.accepted \subseteq sync[d].reply.accepted
    /\ sync'[d].reply.events \subseteq sync[d].reply.events
    /\ \A e \in Events :
        store'[d][e] = "acknowledged"
            => \/ store[d][e] = "acknowledged"
               \/ e \in sync[d].reply.accepted \cup sync[d].reply.events

-----------------------------------------------------------------------------
\* A device that keeps its storage and its synchronisation.
LEMMA StillKeeps ==
    ASSUME NEW d \in Devices, UNCHANGED <<store, cursor, sync>>
    PROVE  Keeps(d) /\ Owes(d)
  BY DEF Keeps, Owes, Held

LEMMA EndKeeps ==
    ASSUME TypeOK, NEW d \in Devices, NEW c \in Devices,
           sync' = [sync EXCEPT ![c] = Idle], UNCHANGED <<store, cursor>>
    PROVE  Keeps(d) /\ Owes(d)
  BY DEF Keeps, Owes, Held, Idle, TypeOK

LEMMA ExchangeKeeps ==
    ASSUME TypeOK, NEW d \in Devices, NEW c \in Devices, Exchange(c)
    PROVE  Keeps(d) /\ Owes(d) /\ UNCHANGED <<filed, relay>>
  <1>1. CASE Offer(c)
    <2>1. CASE Current(c)
      <3>1. /\ \E upload : sync' = [sync EXCEPT ![c].pc = "send",
                                                ![c].upload = upload]
            /\ UNCHANGED <<store, cursor>>
        BY <1>1, <2>1 DEF Offer, durable
      <3> QED
        BY <1>1, <3>1 DEF Offer, durable, Keeps, Owes, Held, TypeOK
    <2>2. CASE ~Current(c)
      BY <1>1, <2>2, EndKeeps DEF Offer, End, durable
    <2> QED
      BY <2>1, <2>2
  <1>2. CASE Send(c)
    BY <1>2 DEF Send, durable, Keeps, Owes, Held, TypeOK
  <1>3. CASE Receive(c)
    BY <1>3 DEF Receive, durable, Keeps, Owes, Held, TypeOK
  <1>4. CASE Acknowledge(c)
    <2>1. CASE sync[c].reply.accepted = {}
      <3>1. /\ sync' = [sync EXCEPT ![c].pc = "append"]
            /\ UNCHANGED <<store, cursor>>
        BY <1>4, <2>1 DEF Acknowledge
      <3> QED
        BY <1>4, <3>1 DEF Acknowledge, Keeps, Owes, Held, TypeOK
    <2>2. CASE sync[c].reply.accepted # {}
      <3>1. PICK e \in sync[c].reply.accepted :
              /\ sync' = [sync EXCEPT ![c].reply.accepted = @ \ {e}]
              /\ store' = [store EXCEPT ![c][e] =
                             IF @ = "absent" THEN @ ELSE "acknowledged"]
        BY <1>4, <2>2 DEF Acknowledge
      <3>2. Keeps(d)
        BY <1>4, <3>1 DEF Acknowledge, Keeps, Held, TypeOK
      <3>3. Owes(d)
        BY <3>1 DEF Owes, TypeOK
      <3> QED
        BY <1>4, <3>2, <3>3 DEF Acknowledge
    <2> QED
      BY <2>1, <2>2
  <1>5. CASE AppendEvent(c)
    <2>1. PICK e \in sync[c].reply.events :
            /\ store' = [store EXCEPT ![c][e] =
                           IF @ = "absent" THEN "acknowledged" ELSE @]
            /\ sync' = [sync EXCEPT ![c].reply.events = @ \ {e}]
      BY <1>5 DEF AppendEvent
    <2>2. e \in Events
      BY <2>1 DEF TypeOK, Sync, Reply
    <2>3. Held(d) \subseteq Held(d)' /\ (c = d => e \in Held(d)')
      BY <2>1, <2>2 DEF Held, TypeOK
    <2>4. Keeps(d)
      <3>1. sync'[d].from = sync[d].from /\ sync'[d].reply.to = sync[d].reply.to
        BY <2>1 DEF TypeOK, Sync, Reply
      <3>2. sync[d].reply.events \subseteq sync'[d].reply.events \cup Held(d)'
        <4>1. CASE c = d
          <5>1. sync'[d].reply.events = sync[d].reply.events \ {e}
            BY <2>1, <4>1 DEF TypeOK, Sync, Reply
          <5> QED
            BY <2>3, <4>1, <5>1
        <4>2. CASE c # d
          BY <2>1, <4>2 DEF TypeOK
        <4> QED
          BY <4>1, <4>2
      <3>3. UNCHANGED cursor
        BY <1>5 DEF AppendEvent
      <3> QED
        BY <2>3, <3>1, <3>2, <3>3 DEF Keeps
    <2>5. Owes(d)
      BY <2>1 DEF Owes, TypeOK
    <2> QED
      BY <1>5, <2>4, <2>5 DEF AppendEvent
  <1>6. CASE Save(c)
    BY <1>6 DEF Save, End, Keeps, Owes, Held, Idle, TypeOK
  <1>7. CASE Abandon(c)
    BY <1>7, EndKeeps DEF Abandon, End, durable
  <1> QED
    BY <1>1, <1>2, <1>3, <1>4, <1>5, <1>6, <1>7 DEF Exchange

LEMMA FailureKeeps ==
    ASSUME TypeOK, NEW d \in Devices, NEW c \in Devices,
           Failure(c) \/ RelayRefuses(c)
    PROVE  Keeps(d) /\ Owes(d) /\ UNCHANGED <<filed, relay>>
  <1>1. CASE FailToExchange(c)
    BY <1>1, EndKeeps DEF FailToExchange, End, durable
  <1>2. CASE FailToStore(c)
    BY <1>2, EndKeeps DEF FailToStore, End, durable
  <1>3. CASE RelayRefuses(c)
    BY <1>3, EndKeeps DEF RelayRefuses, End, durable
  <1>4. CASE UnreadableAnswer(c)
    BY <1>4, EndKeeps DEF UnreadableAnswer, End, durable
  <1>5. CASE CursorRefused(c)
    BY <1>5 DEF CursorRefused, End, Keeps, Owes, Held, Idle, TypeOK
  <1> QED
    BY <1>1, <1>2, <1>3, <1>4, <1>5 DEF Failure

LEMMA AppKeeps ==
    ASSUME TypeOK, NEW c \in Devices, App(c)
    PROVE  /\ UNCHANGED relay /\ filed \subseteq filed'
           /\ \A d \in Devices : Owes(d) /\ (d \notin filed' => Keeps(d))
  <1> SUFFICES ASSUME NEW d \in Devices
               PROVE  /\ UNCHANGED relay /\ filed \subseteq filed'
                      /\ Owes(d) /\ (d \notin filed' => Keeps(d))
    OBVIOUS
  <1>1. CASE Start(c)
    BY <1>1 DEF Start, FirstSync, durable, Keeps, Owes, Held, Idle, TypeOK
  <1>2. CASE Stop(c)
    BY <1>2 DEF Stop, durable, Keeps, Owes, Held, Idle, TypeOK
  <1>3. CASE Die(c)
    BY <1>3, EndKeeps DEF Die, WorkerGone
  <1>4. CASE Join(c)
    BY <1>4, StillKeeps DEF Join, worker
  <1>5. CASE ClearCursor(c)
    BY <1>5 DEF ClearCursor, worker, Keeps, Owes, Held, TypeOK
  <1>6. CASE RemoveSession(c)
    BY <1>6, EndKeeps DEF RemoveSession, WorkerGone
  <1>7. CASE DeleteEvents(c)
    BY <1>7 DEF DeleteEvents, worker, relay, Keeps, Owes, Held, TypeOK
  <1>8. ASSUME NEW e \in Events, Record(c, e) \/ ReceiveNearby(c, e)
        PROVE  Keeps(d) /\ Owes(d) /\ UNCHANGED <<filed, relay>>
    <2>1. /\ store' = [store EXCEPT ![c][e] = "pending"]
          /\ UNCHANGED <<cursor, sync, filed, relay>>
      BY <1>8 DEF Record, ReceiveNearby, worker
    <2>2. Held(d) \subseteq Held(d)'
      BY <2>1 DEF Held, TypeOK
    <2>3. Keeps(d)
      BY <2>1, <2>2 DEF Keeps
    <2>4. Owes(d)
      BY <2>1 DEF Owes, TypeOK
    <2> QED
      BY <2>1, <2>3, <2>4
  <1> QED
    BY <1>1, <1>2, <1>3, <1>4, <1>5, <1>6, <1>7, <1>8 DEF App, Start, Stop, Die,
       Join, ClearCursor, RemoveSession, durable, worker

-----------------------------------------------------------------------------
(* The invariant *)

LEMMA WorkerInvInit == Init => WorkerInv
  <1> SUFFICES ASSUME Init PROVE WorkerInv
    OBVIOUS
  <1>1. TypeOK
    BY TypeInit
  <1> QED
    BY <1>1 DEF Init, WorkerInv, RowsNumbered, DeviceCovered, Covered, OnlyTaken,
       EventsIn, AcknowledgedWasTaken, Idle

\* A device's part of the invariant outlives a step that is not the relay's.
LEMMA KeepsCovered ==
    ASSUME TypeOK, RowsNumbered, NEW d \in Devices, DeviceCovered(d),
           Keeps(d), UNCHANGED relay
    PROVE  DeviceCovered(d)'
  <1>1. /\ Covered(0, Held(d)') /\ 0 < nextSequence
        /\ Covered(cursor[d], Held(d)') /\ cursor[d] < nextSequence
        /\ Covered(sync[d].from, Held(d)') /\ sync[d].from < nextSequence
        /\ sync[d].reply.to < nextSequence
    BY DEF TypeOK, Row, RowsNumbered, DeviceCovered, Covered, Keeps
  <1>2. Covered(cursor'[d], Held(d)') /\ cursor'[d] < nextSequence
    <2>1. CASE cursor'[d] = sync[d].reply.to /\ sync[d].reply.events = {}
      BY <1>1, <2>1 DEF DeviceCovered, Covered, Keeps
    <2> QED
      BY <1>1, <2>1 DEF Keeps
  <1>3. Covered(sync'[d].from, Held(d)') /\ sync'[d].from < nextSequence
    BY <1>1 DEF Keeps
  <1>4. /\ Covered(sync'[d].reply.to, Held(d)' \cup sync'[d].reply.events)
        /\ sync'[d].reply.to < nextSequence
    <2>1. CASE sync'[d].reply.to = 0
      BY <1>1, <2>1 DEF Covered
    <2>2. CASE sync'[d].reply.to # 0
      BY <1>1, <2>2 DEF Keeps, Covered, DeviceCovered
    <2> QED
      BY <2>1, <2>2
  <1> QED
    BY <1>2, <1>3, <1>4 DEF DeviceCovered, Covered, relay

\* So does what the relay has taken.
LEMMA OwesTaken ==
    ASSUME TypeOK, OnlyTaken, AcknowledgedWasTaken, UNCHANGED relay,
           \A d \in Devices : Owes(d)
    PROVE  OnlyTaken' /\ AcknowledgedWasTaken'
  <1>1. OnlyTaken'
    BY DEF OnlyTaken, Owes, EventsIn, relay
  <1>2. AcknowledgedWasTaken'
    BY DEF AcknowledgedWasTaken, OnlyTaken, Owes, relay
  <1> QED
    BY <1>1, <1>2

\* Rows the relay adds are beyond every cursor.
LEMMA NewRowsKeepCovered ==
    ASSUME TypeOK, NEW d \in Devices, DeviceCovered(d),
           UNCHANGED <<cursor, store>>, UNCHANGED sync[d],
           nextSequence' \in Nat, nextSequence <= nextSequence',
           rows' \subseteq Row,
           \A x \in rows' : x \in rows \/ nextSequence <= x.sequence
    PROVE  DeviceCovered(d)'
  BY DEF TypeOK, Sync, Reply, Row, DeviceCovered, Covered, Held

LEMMA AnswerInv ==
    ASSUME WorkerInv, NEW c \in Devices, RelayAnswers(c)
    PROVE  WorkerInv'
  <1> USE DEF WorkerInv
  <1> DEFINE after == {x \in rows' : x.sequence > sync[c].from}
  <1>1. TypeOK'
    BY AnswerType
  <1>2. PICK stored \in SUBSET Fresh(c) :
          /\ Fresh(c) \ stored \subseteq Expiring
          /\ rows' = rows \cup NewRows(stored)
          /\ nextSequence' = nextSequence + Cardinality(stored)
          /\ taken' = taken \cup stored
          /\ UNCHANGED <<store, cursor, filed>>
          /\ \E page \in SUBSET after : \E to \in NextCursor(page, sync[c].from) :
               /\ page = {} => after = {}
               /\ \A x \in page, y \in after : y.sequence < x.sequence => y \in page
               /\ sync' = [sync EXCEPT
                    ![c].pc = "replied",
                    ![c].reply = [to |-> to, accepted |-> sync[c].upload,
                                  events |-> EventsIn(page) \cap Understood]]
    BY DEF RelayAnswers, durable
  <1>3. stored \in SUBSET Events
    BY FreshEvents
  <1>4. RowsNumbered'
    BY <1>2, <1>3, StoredRows DEF RowsNumbered, TypeOK, Row
  <1>a. PICK page \in SUBSET after : \E to \in NextCursor(page, sync[c].from) :
            /\ page = {} => after = {}
            /\ \A x \in page, y \in after : y.sequence < x.sequence => y \in page
            /\ sync' = [sync EXCEPT
                 ![c].pc = "replied",
                 ![c].reply = [to |-> to, accepted |-> sync[c].upload,
                               events |-> EventsIn(page) \cap Understood]]
    BY <1>2
  <1>5. PICK to \in NextCursor(page, sync[c].from) :
            /\ page = {} => after = {}
            /\ \A x \in page, y \in after : y.sequence < x.sequence => y \in page
            /\ sync' = [sync EXCEPT
                 ![c].pc = "replied",
                 ![c].reply = [to |-> to, accepted |-> sync[c].upload,
                               events |-> EventsIn(page) \cap Understood]]
    BY <1>a
  <1>6. /\ sync'[c].from = sync[c].from
        /\ sync'[c].reply = [to |-> to, accepted |-> sync[c].upload,
                             events |-> EventsIn(page) \cap Understood]
        /\ \A d \in Devices : d # c => UNCHANGED sync[d]
    BY <1>5 DEF TypeOK, Sync
  <1>7. \A x \in rows' : x \in rows \/ nextSequence <= x.sequence
    BY <1>2, <1>3, StoredRows
  <1>8. nextSequence <= nextSequence' /\ nextSequence' \in Nat
    <2>1. Cardinality(stored) \in Nat /\ nextSequence \in Nat
      BY <1>3, StoredRows DEF TypeOK
    <2> QED
      BY <1>2, <2>1
  <1>9. OnlyTaken' /\ AcknowledgedWasTaken'
    <2>1. EventsIn(rows') \subseteq taken'
      BY <1>2, <1>3, StoredRows DEF EventsIn, OnlyTaken
    <2>2. sync[c].upload \subseteq taken' \cup Expiring
      BY <1>2, <2>1 DEF Fresh, EventsIn
    <2>3. EventsIn(page) \subseteq taken'
      BY <2>1 DEF EventsIn
    <2>4. OnlyTaken'
      <3>1. taken \subseteq taken'
        BY <1>2
      <3>2. ASSUME NEW d \in Devices
            PROVE  /\ sync'[d].reply.accepted \subseteq taken' \cup Expiring
                   /\ sync'[d].reply.events \subseteq taken'
        <4>1. CASE d = c
          BY <1>6, <2>2, <2>3, <4>1
        <4>2. CASE d # c
          BY <1>6, <3>1, <4>2 DEF OnlyTaken
        <4> QED
          BY <4>1, <4>2
      <3> QED
        BY <2>1, <3>2 DEF OnlyTaken
    <2>5. AcknowledgedWasTaken'
      BY <1>2 DEF AcknowledgedWasTaken
    <2> QED
      BY <2>4, <2>5
  <1>10. ASSUME NEW d \in Devices \ filed', d # c PROVE DeviceCovered(d)'
    BY <1>1, <1>2, <1>6, <1>7, <1>8, <1>10, NewRowsKeepCovered DEF TypeOK
  <1>11. ASSUME c \notin filed PROVE DeviceCovered(c)'
    <2>1. /\ cursor'[c] < nextSequence' /\ Covered(cursor[c], Held(c))'
          /\ sync'[c].from < nextSequence' /\ Covered(sync[c].from, Held(c))'
      BY <1>1, <1>2, <1>6, <1>7, <1>8, <1>11
      DEF DeviceCovered, Covered, TypeOK, Row, Sync, Held
    <2>2. /\ to \in {sync[c].from} \cup {x.sequence : x \in page}
          /\ \A x \in page : x.sequence <= to
      BY DEF NextCursor
    <2>3. to < nextSequence'
      BY <1>1, <1>4, <1>6, <2>1, <2>2 DEF RowsNumbered, TypeOK, Row
    <2>4. ASSUME NEW x \in rows', x.sequence <= to, x.event \in Understood
          PROVE  x.event \in Held(c)' \cup (EventsIn(page) \cap Understood)
      <3>1. CASE x.sequence <= sync[c].from
        BY <1>6, <2>1, <2>4, <3>1 DEF Covered
      <3>2. CASE x.sequence > sync[c].from
        <4>1. x \in after /\ page # {}
          BY <1>5, <3>2
        <4>2. PICK y \in page : y.sequence = to
          <5>1. to # sync[c].from
            BY <1>1, <2>4, <3>2 DEF TypeOK, Row, Sync
          <5> QED
            BY <2>2, <5>1
        <4>3. x \in page
          <5>1. CASE x.sequence = y.sequence
            BY <1>4, <4>2, <5>1 DEF RowsNumbered
          <5>2. CASE x.sequence # y.sequence
            <6>1. x.sequence \in Nat /\ y.sequence \in Nat
              BY <1>1, <4>1, <4>2 DEF TypeOK, Row
            <6>2. x.sequence < y.sequence
              BY <2>4, <4>2, <5>2, <6>1
            <6> QED
              BY <1>5, <4>1, <4>2, <6>2
          <5> QED
            BY <5>1, <5>2
        <4> QED
          BY <2>4, <4>3 DEF EventsIn
      <3> QED
        BY <1>1, <3>1, <3>2 DEF TypeOK, Row, Sync
    <2>5. /\ sync'[c].reply.to = to
          /\ sync'[c].reply.events = EventsIn(page) \cap Understood
      BY <1>6
    <2> QED
      BY <1>6, <2>1, <2>3, <2>4, <2>5 DEF DeviceCovered, Covered
  <1> QED
    BY <1>1, <1>2, <1>4, <1>9, <1>10, <1>11 DEF TypeOK

LEMMA WorkerInvStep == WorkerInv /\ [Next]_vars => WorkerInv'
  <1> SUFFICES ASSUME WorkerInv, [Next]_vars PROVE WorkerInv'
    OBVIOUS
  <1> USE DEF WorkerInv
  <1>1. TypeOK'
    BY TypeStep
  <1>2. ASSUME UNCHANGED relay, filed \subseteq filed',
               \A d \in Devices : Owes(d) /\ (d \notin filed' => Keeps(d))
        PROVE  WorkerInv'
    <2>1. RowsNumbered'
      BY <1>2 DEF RowsNumbered, relay
    <2>2. ASSUME NEW d \in Devices \ filed' PROVE DeviceCovered(d)'
      BY <1>2, KeepsCovered
    <2>3. OnlyTaken' /\ AcknowledgedWasTaken'
      BY <1>2, OwesTaken
    <2> QED
      BY <1>1, <2>1, <2>2, <2>3
  <1>3. ASSUME NEW c \in Devices, Wake(c) PROVE WorkerInv'
    <2>1. \A d \in Devices : Owes(d) /\ Keeps(d)
      BY <1>3 DEF Wake, durable, Keeps, Owes, Held, TypeOK
    <2> QED
      BY <1>2, <1>3, <2>1 DEF Wake, durable
  <1>4. ASSUME NEW c \in Devices, Exchange(c) PROVE WorkerInv'
    BY <1>2, <1>4, ExchangeKeeps
  <1>5. ASSUME NEW c \in Devices, Failure(c) \/ RelayRefuses(c) PROVE WorkerInv'
    BY <1>2, <1>5, FailureKeeps
  <1>6. ASSUME NEW c \in Devices, App(c) PROVE WorkerInv'
    BY <1>2, <1>6, AppKeeps
  <1>7. ASSUME NEW e \in Events, UploadElsewhere(e) PROVE WorkerInv'
    <2>1. RowsNumbered'
      BY <1>7 DEF UploadElsewhere, RowsNumbered, TypeOK, Row
    <2>2. ASSUME NEW d \in Devices \ filed' PROVE DeviceCovered(d)'
      BY <1>1, <1>7, NewRowsKeepCovered
      DEF UploadElsewhere, durable, worker, TypeOK
    <2>3. OnlyTaken' /\ AcknowledgedWasTaken'
      BY <1>7 DEF UploadElsewhere, OnlyTaken, AcknowledgedWasTaken, EventsIn,
                  durable, worker
    <2> QED
      BY <1>1, <2>1, <2>2, <2>3
  <1>8. ASSUME NEW x \in rows, Forget(x) PROVE WorkerInv'
    <2>1. RowsNumbered'
      BY <1>8 DEF Forget, RowsNumbered
    <2>2. ASSUME NEW d \in Devices \ filed' PROVE DeviceCovered(d)'
      BY <1>8 DEF Forget, durable, worker, DeviceCovered, Covered, Held
    <2>3. OnlyTaken' /\ AcknowledgedWasTaken'
      BY <1>8 DEF Forget, OnlyTaken, AcknowledgedWasTaken, EventsIn, durable,
                  worker
    <2> QED
      BY <1>1, <2>1, <2>2, <2>3
  <1>9. CASE UNCHANGED vars
    BY <1>2, <1>9, StillKeeps DEF vars, durable, worker
  <1> QED
    BY <1>3, <1>4, <1>5, <1>6, <1>7, <1>8, <1>9, AnswerInv DEF Next, RelayReplies

LEMMA WorkerInvImplies == WorkerInv => SavedCursorCovered /\ AcknowledgedWasTaken
  BY DEF WorkerInv, DeviceCovered, Covered, SavedCursorCovered, CoveredBy, Held,
         TypeOK

\* Crashes, stops, lost answers and refused cursors never leave a device with a
\* saved cursor beyond an event it does not hold.
THEOREM SavedCursorAlwaysCovered == Spec => []SavedCursorCovered
  BY WorkerInvInit, WorkerInvStep, WorkerInvImplies, PTL DEF Spec

\* A device stops offering an event only when the relay has stored it, or had no
\* need to any more.
THEOREM AcknowledgedAlwaysTaken == Spec => []AcknowledgedWasTaken
  BY WorkerInvInit, WorkerInvStep, WorkerInvImplies, PTL DEF Spec

-----------------------------------------------------------------------------
(* The worker's schedule *)

AwakeInv == TypeOK /\ NeverAsleep

LEMMA EndAwake ==
    ASSUME AwakeInv, NEW c \in Devices, End(c), UNCHANGED running
    PROVE  NeverAsleep'
  BY DEF AwakeInv, TypeOK, NeverAsleep, End, In

\* A step that leaves the worker alone, or only moves a synchronisation on.
LEMMA BusyAwake ==
    ASSUME AwakeInv, NEW c \in Devices, UNCHANGED <<running, timer>>,
           \A d \in Devices : d # c => UNCHANGED sync[d],
           In(c, "idle")' => In(c, "idle")
    PROVE  NeverAsleep'
  BY DEF AwakeInv, NeverAsleep, In

LEMMA GoneAwake ==
    ASSUME AwakeInv, NEW c \in Devices, WorkerGone(c)
    PROVE  NeverAsleep'
  BY DEF AwakeInv, TypeOK, NeverAsleep, WorkerGone, In

LEMMA AwakeStep == AwakeInv /\ [Next]_vars => AwakeInv'
  <1> SUFFICES ASSUME AwakeInv, [Next]_vars PROVE NeverAsleep'
    BY TypeStep DEF AwakeInv
  <1> USE DEF AwakeInv
  <1>1. ASSUME NEW c \in Devices, Wake(c) PROVE NeverAsleep'
    BY <1>1 DEF Wake, NeverAsleep, In, TypeOK, Sync
  <1>2. ASSUME NEW c \in Devices, Exchange(c) PROVE NeverAsleep'
    <2>1. CASE Offer(c)
      <3>1. CASE Current(c)
        <4>1. /\ \E upload : sync' = [sync EXCEPT ![c].pc = "send",
                                                  ![c].upload = upload]
              /\ UNCHANGED <<running, timer>>
          BY <2>1, <3>1 DEF Offer
        <4> QED
          BY <4>1, BusyAwake DEF In, TypeOK, Sync
      <3>2. CASE ~Current(c)
        BY <2>1, <3>2, EndAwake DEF Offer
      <3> QED
        BY <3>1, <3>2
    <2>2. CASE Send(c)
      BY <2>2, BusyAwake DEF Send, In, TypeOK, Sync
    <2>3. CASE Receive(c)
      BY <2>3, BusyAwake DEF Receive, In, TypeOK, Sync
    <2>4. CASE Acknowledge(c)
      <3>1. CASE sync[c].reply.accepted = {}
        <4>1. sync' = [sync EXCEPT ![c].pc = "append"]
          BY <2>4, <3>1 DEF Acknowledge
        <4> QED
          BY <2>4, <4>1, BusyAwake DEF Acknowledge, In, TypeOK, Sync
      <3>2. CASE sync[c].reply.accepted # {}
        <4>1. PICK e : sync' = [sync EXCEPT ![c].reply.accepted = @ \ {e}]
          BY <2>4, <3>2 DEF Acknowledge
        <4> QED
          BY <2>4, <4>1, BusyAwake DEF Acknowledge, In, TypeOK, Sync
      <3> QED
        BY <3>1, <3>2
    <2>5. CASE AppendEvent(c)
      <3>1. PICK e : sync' = [sync EXCEPT ![c].reply.events = @ \ {e}]
        BY <2>5 DEF AppendEvent
      <3> QED
        BY <2>5, <3>1, BusyAwake DEF AppendEvent, In, TypeOK, Sync
    <2>6. CASE Save(c)
      BY <2>6, EndAwake DEF Save
    <2>7. CASE Abandon(c)
      BY <2>7, EndAwake DEF Abandon
    <2> QED
      BY <1>2, <2>1, <2>2, <2>3, <2>4, <2>5, <2>6, <2>7 DEF Exchange
  <1>3. ASSUME NEW c \in Devices, RelayAnswers(c) PROVE NeverAsleep'
    <2>1. \E reply : sync' = [sync EXCEPT ![c].pc = "replied",
                                         ![c].reply = reply]
      BY <1>3 DEF RelayAnswers
    <2> QED
      BY <1>3, <2>1, BusyAwake DEF RelayAnswers, In, TypeOK, Sync
  <1>4. ASSUME NEW c \in Devices, Failure(c) \/ RelayRefuses(c)
        PROVE  NeverAsleep'
    BY <1>4, EndAwake DEF Failure, FailToExchange, FailToStore, RelayRefuses,
                          UnreadableAnswer, CursorRefused
  <1>5. ASSUME NEW c \in Devices, App(c) PROVE NeverAsleep'
    <2>1. CASE Start(c)
      BY <2>1 DEF Start, FirstSync, NeverAsleep, In, TypeOK, Sync
    <2>2. CASE Stop(c)
      BY <2>2 DEF Stop, NeverAsleep, In, TypeOK, Sync
    <2>3. CASE Die(c) \/ RemoveSession(c)
      BY <2>3, GoneAwake DEF Die, RemoveSession
    <2>4. CASE UNCHANGED worker
      BY <2>4 DEF worker, NeverAsleep, In
    <2> QED
      BY <1>5, <2>1, <2>2, <2>3, <2>4
      DEF App, Join, ClearCursor, DeleteEvents, Record, ReceiveNearby
  <1>6. CASE UNCHANGED worker
    BY <1>6 DEF worker, NeverAsleep, In
  <1> QED
    BY <1>1, <1>2, <1>3, <1>4, <1>5, <1>6
    DEF Next, RelayReplies, UploadElsewhere, Forget, vars

\* However starts and stops fall into a synchronisation, a worker that is
\* started is in one or has its timer set.
THEOREM NeverAsleepAlways == Spec => []NeverAsleep
  <1>1. Init => AwakeInv
    BY TypeInit DEF Init, AwakeInv, NeverAsleep
  <1> QED
    BY <1>1, AwakeStep, PTL DEF Spec, AwakeInv

-----------------------------------------------------------------------------
(* Beside a relay of which only the promise is known *)

\* A number that a device may hold as a cursor: the relay has answered it.
Resumes(n) == n = 0 \/ \E a \in answers : n = a.to

\* What a device may resume from: it was answered, and is covered.
Served(d) ==
    /\ Resumes(cursor[d]) /\ Covered(cursor[d], Held(d))
    /\ Resumes(sync[d].from) /\ Covered(sync[d].from, Held(d))
    /\ Resumes(sync[d].reply.to)
    /\ Covered(sync[d].reply.to, Held(d) \cup sync[d].reply.events)

\* The answers are still good for whoever sent their cursor.
AnswersHold ==
    /\ answers \subseteq Answer
    /\ \A a \in answers : Promise!Covers(a, UnderstoodRows)
    /\ \A x \in UnderstoodRows : x.sequence > 0

RelayedInv ==
    /\ TypeOK
    /\ AnswersHold
    /\ \A d \in Devices \ filed : Served(d)

\* A row that the device understands, as the promise knows it.
LEMMA InUnderstood ==
    ASSUME NEW x \in rows, x.event \in Understood
    PROVE  [sequence |-> x.sequence, event |-> [id |-> x.event]] \in UnderstoodRows
  BY DEF UnderstoodRows

LEMMA RelayedInvInit == InitRelayed => RelayedInv
  <1> SUFFICES ASSUME InitRelayed PROVE RelayedInv
    OBVIOUS
  <1>1. TypeOK
    BY TypeInit DEF InitRelayed
  <1> QED
    BY <1>1 DEF InitRelayed, Init, RelayedInv, AnswersHold, UnderstoodRows,
       Served, Resumes, Covered, Idle

\* A device is served until the relay or the device itself moves.
LEMMA KeepsServed ==
    ASSUME TypeOK, AnswersHold, NEW d \in Devices, Served(d), Keeps(d),
           UNCHANGED <<relay, answers>>
    PROVE  Served(d)'
  <1>1. Covered(0, {})
    <2>1. ASSUME NEW x \in rows, x.event \in Understood PROVE x.sequence > 0
      BY <2>1, InUnderstood DEF AnswersHold
    <2> QED
      BY <2>1 DEF TypeOK, Row, Covered
  <1>2. /\ Covered(0, Held(d)') /\ Resumes(0)
        /\ Covered(cursor[d], Held(d)') /\ Resumes(cursor[d])
        /\ Covered(sync[d].from, Held(d)') /\ Resumes(sync[d].from)
        /\ Resumes(sync[d].reply.to)
    BY <1>1 DEF Served, Covered, Keeps, Resumes
  <1>3. Covered(cursor'[d], Held(d)') /\ Resumes(cursor'[d])
    <2>1. CASE cursor'[d] = sync[d].reply.to /\ sync[d].reply.events = {}
      BY <1>2, <2>1 DEF Served, Covered, Keeps
    <2> QED
      BY <1>2, <2>1 DEF Keeps
  <1>4. Covered(sync'[d].from, Held(d)') /\ Resumes(sync'[d].from)
    BY <1>2 DEF Keeps
  <1>5. /\ Covered(sync'[d].reply.to, Held(d)' \cup sync'[d].reply.events)
        /\ Resumes(sync'[d].reply.to)
    <2>1. CASE sync'[d].reply.to = 0
      BY <1>2, <2>1 DEF Covered
    <2>2. CASE sync'[d].reply.to # 0
      BY <1>2, <2>2 DEF Keeps, Covered, Served
    <2> QED
      BY <2>1, <2>2
  <1> QED
    BY <1>3, <1>4, <1>5 DEF Served, Covered, Resumes, relay

\* What the relay stores comes after every cursor a device may hold.
LEMMA MovesKeepServed ==
    ASSUME RelayedInv, TypeOK', NEW d \in Devices \ filed, Served(d),
           UNCHANGED <<cursor, store, sync>>, answers \subseteq answers',
           \A x \in UnderstoodRows' \ UnderstoodRows :
              x.sequence > 0 /\ \A a \in answers : a.to < x.sequence
    PROVE  Served(d)'
  <1>1. ASSUME NEW n, Resumes(n), NEW events, Covered(n, events),
               NEW x \in rows', x.sequence <= n, x.event \in Understood
        PROVE  x.event \in events
    <2> DEFINE u == [sequence |-> x.sequence, event |-> [id |-> x.event]]
    <2>1. u \in UnderstoodRows'
      BY <1>1 DEF UnderstoodRows
    <2>2. CASE u \in UnderstoodRows
      <3>1. PICK y \in rows :
              y.event \in Understood
                /\ u = [sequence |-> y.sequence, event |-> [id |-> y.event]]
        BY <2>2 DEF UnderstoodRows
      <3>2. y.sequence = x.sequence /\ y.event = x.event
        BY <3>1
      <3> QED
        BY <1>1, <3>1, <3>2 DEF Covered
    <2>3. CASE u \notin UnderstoodRows
      <3>1. x.sequence > 0 /\ \A a \in answers : a.to < x.sequence
        BY <2>1, <2>3
      <3>2. x.sequence \in Nat /\ \A a \in answers : a.to \in Nat
        BY LimitsAssumption DEF TypeOK, Row, RelayedInv, AnswersHold, Answer
      <3> QED
        BY <1>1, <3>1, <3>2 DEF Resumes
    <2> QED
      BY <2>2, <2>3
  <1>2. ASSUME NEW n, Resumes(n), NEW events, Covered(n, events)
        PROVE  /\ n = 0 \/ \E a \in answers' : n = a.to
               /\ \A x \in rows' : x.sequence <= n /\ x.event \in Understood
                    => x.event \in events
    BY <1>1, <1>2 DEF Resumes
  <1> DEFINE all == Held(d) \cup sync[d].reply.events
  <1>3. /\ Resumes(cursor[d]) /\ Covered(cursor[d], Held(d))
        /\ Resumes(sync[d].from) /\ Covered(sync[d].from, Held(d))
        /\ Resumes(sync[d].reply.to) /\ Covered(sync[d].reply.to, all)
    BY DEF Served
  <1>4. Held(d)' = Held(d) /\ all' = all
    BY DEF Held
  <1>5. Resumes(cursor[d])' /\ Covered(cursor[d], Held(d))'
    BY <1>2, <1>3, <1>4 DEF Resumes, Covered
  <1>6. Resumes(sync[d].from)' /\ Covered(sync[d].from, Held(d))'
    BY <1>2, <1>3, <1>4 DEF Resumes, Covered
  <1>7. Resumes(sync[d].reply.to)' /\ Covered(sync[d].reply.to, all)'
    <2> HIDE DEF all
    <2> QED
      BY <1>2, <1>3, <1>4 DEF Resumes, Covered
  <1> QED
    BY <1>5, <1>6, <1>7 DEF Served

\* An answer brings a device from the cursor it sent to the one it is given.
LEMMA DeliverServes ==
    ASSUME RelayedInv, NEW c \in Devices, Deliver(c)
    PROVE  RelayedInv'
  <1> USE DEF RelayedInv
  <1>1. PICK a \in answers : \E accepted \in SUBSET sync[c].upload :
          /\ a.from = sync[c].from
          /\ sync' = [sync EXCEPT
               ![c].pc = "replied",
               ![c].reply = [to |-> a.to, accepted |-> accepted,
                             events |-> a.events]]
    BY DEF Deliver
  <1>2. PICK accepted \in SUBSET sync[c].upload :
          /\ a.from = sync[c].from
          /\ sync' = [sync EXCEPT
               ![c].pc = "replied",
               ![c].reply = [to |-> a.to, accepted |-> accepted,
                             events |-> a.events]]
    BY <1>1
  <1>3. UNCHANGED <<durable, running, timer, quarantined, probing, downloadOnly,
                    relay, restarts, answers>>
    BY DEF Deliver
  <1>4. /\ a.to \in Nat /\ a.from \in Nat /\ a.events \in SUBSET Events
        /\ Promise!Covers(a, UnderstoodRows)
    BY LimitsAssumption, EventsAssumption DEF AnswersHold, Answer
  <1>5. /\ sync'[c].from = sync[c].from
        /\ sync'[c].reply.to = a.to /\ sync'[c].reply.events = a.events
        /\ \A d \in Devices : d # c => UNCHANGED sync[d]
    BY <1>2 DEF TypeOK, Sync
  <1>6. TypeOK'
    <2>1. sync' \in [Devices -> Sync]
      <3> DEFINE reply == [to |-> a.to, accepted |-> accepted,
                           events |-> a.events]
      <3>1. reply \in Reply
        BY <1>2, <1>4 DEF Reply, TypeOK, Sync
      <3> HIDE DEF reply
      <3>2. sync[c] \in Sync
        BY DEF TypeOK
      <3>3. [sync[c] EXCEPT !.pc = "replied", !.reply = reply] \in Sync
        BY <3>1, <3>2, SyncUpdates
      <3> QED
        BY <1>2, <3>3 DEF TypeOK, reply
    <2> QED
      BY <1>3, <2>1 DEF TypeOK, durable, relay
  <1>7. AnswersHold'
    BY <1>3 DEF AnswersHold, UnderstoodRows, Promise!Covers, relay
  <1>8. ASSUME NEW d \in Devices \ filed', d # c PROVE Served(d)'
    BY <1>3, <1>5, <1>8 DEF Served, Resumes, Covered, Held, durable, relay
  <1>9. ASSUME c \notin filed PROVE Served(c)'
    <2>1. Served(c) /\ Held(c)' = Held(c)
      BY <1>3, <1>9 DEF Held, durable
    <2>2. Covered(a.to, Held(c) \cup a.events)
      <3> SUFFICES ASSUME NEW x \in rows, x.sequence <= a.to,
                          x.event \in Understood
                   PROVE  x.event \in Held(c) \cup a.events
        BY DEF Covered
      <3> DEFINE u == [sequence |-> x.sequence, event |-> [id |-> x.event]]
      <3>1. CASE x.sequence <= sync[c].from
        BY <2>1, <3>1 DEF Served, Covered
      <3>2. CASE a.from < x.sequence
        <4>1. u \in UnderstoodRows /\ u.sequence = x.sequence /\ u.event.id = x.event
          BY InUnderstood
        <4> QED
          BY <1>4, <3>2, <4>1 DEF Promise!Covers
      <3> QED
        BY <1>2, <1>4, <3>1, <3>2 DEF TypeOK, Row
    <2>3. Resumes(a.to)
      BY DEF Resumes
    <2> QED
      BY <1>3, <1>5, <2>1, <2>2, <2>3
      DEF Served, Resumes, Covered, durable, relay
  <1> QED
    BY <1>3, <1>6, <1>7, <1>8, <1>9 DEF durable

LEMMA RelaySynchronizesInv ==
    ASSUME RelayedInv, RelaySynchronizes
    PROVE  RelayedInv'
  <1> USE DEF RelayedInv
  <1> DEFINE kept == UnderstoodRows \cap UnderstoodRows'
             new == UnderstoodRows' \ UnderstoodRows
  <1>1. PICK a \in Answer :
          answers' = answers \cup {a} /\ Promise!Sync(kept, new, a)
    BY DEF RelaySynchronizes
  <1>2. /\ rows' \subseteq [sequence : 1..MaxSequence, event : Events]
        /\ UNCHANGED <<durable, worker, nextSequence, taken, restarts>>
    BY DEF RelaySynchronizes
  <1>3. TypeOK'
    BY <1>2, LimitsAssumption DEF TypeOK, Row, durable, worker
  <1>4. UnderstoodRows' = kept \cup new
    OBVIOUS
  <1>5. /\ \A x \in new : x.sequence > 0
                         /\ \A b \in answers : b.to < x.sequence
        /\ Promise!Covers(a, UnderstoodRows')
    BY <1>1, <1>4 DEF Promise!Sync, Promise!Follows
  <1>6. AnswersHold'
    <2>1. ASSUME NEW b \in answers PROVE Promise!Covers(b, UnderstoodRows')
      <3>1. b.to \in Nat /\ \A x \in UnderstoodRows' : x.sequence \in Nat
        BY <1>3, LimitsAssumption DEF AnswersHold, Answer, UnderstoodRows, TypeOK,
           Row
      <3>2. Promise!Covers(b, UnderstoodRows)
        BY DEF AnswersHold
      <3> QED
        BY <1>4, <1>5, <3>1, <3>2 DEF Promise!Covers
    <2>2. \A x \in UnderstoodRows' : x.sequence > 0
      BY <1>4, <1>5 DEF AnswersHold
    <2> QED
      BY <1>1, <1>5, <2>1, <2>2 DEF AnswersHold
  <1>7. ASSUME NEW d \in Devices \ filed' PROVE Served(d)'
    BY <1>1, <1>2, <1>3, <1>5, MovesKeepServed DEF durable, worker
  <1> QED
    BY <1>3, <1>6, <1>7

LEMMA RelayForgetsInv ==
    ASSUME RelayedInv, RelayForgets
    PROVE  RelayedInv'
  <1> USE DEF RelayedInv
  <1>1. /\ rows' \subseteq rows /\ UnderstoodRows' \subseteq UnderstoodRows
        /\ UNCHANGED <<durable, worker, nextSequence, taken, restarts, answers>>
    BY DEF RelayForgets, Promise!Forget
  <1>2. TypeOK'
    BY <1>1 DEF TypeOK, durable, worker
  <1>3. AnswersHold'
    BY <1>1 DEF AnswersHold, Promise!Covers
  <1>4. ASSUME NEW d \in Devices \ filed' PROVE Served(d)'
    BY <1>1, <1>2, MovesKeepServed DEF durable, worker
  <1> QED
    BY <1>2, <1>3, <1>4

LEMMA RelayedInvStep == RelayedInv /\ [RelayedNext]_relayed => RelayedInv'
  <1> SUFFICES ASSUME RelayedInv, [RelayedNext]_relayed PROVE RelayedInv'
    OBVIOUS
  <1> USE DEF RelayedInv
  <1>1. ASSUME UNCHANGED <<relay, answers>>, filed \subseteq filed', TypeOK',
               \A d \in Devices : d \notin filed' => Keeps(d)
        PROVE  RelayedInv'
    <2>1. AnswersHold'
      BY <1>1 DEF AnswersHold, UnderstoodRows, Promise!Covers, relay
    <2>2. ASSUME NEW d \in Devices \ filed' PROVE Served(d)'
      BY <1>1, KeepsServed
    <2> QED
      BY <1>1, <2>1, <2>2
  <1>2. ASSUME NEW c \in Devices, Phone(c), UNCHANGED answers PROVE RelayedInv'
    <2>1. TypeOK'
      BY <1>2, TypeStep DEF Phone, Next, RelayReplies
    <2>2. CASE Wake(c)
      <3>1. \A d \in Devices : Keeps(d)
        BY <2>2 DEF Wake, durable, Keeps, Held, TypeOK
      <3> QED
        BY <1>1, <1>2, <2>1, <2>2, <3>1 DEF Wake, durable
    <2>3. CASE Exchange(c)
      BY <1>1, <1>2, <2>1, <2>3, ExchangeKeeps
    <2>4. CASE Failure(c) \/ RelayRefuses(c)
      BY <1>1, <1>2, <2>1, <2>4, FailureKeeps
    <2>5. CASE App(c)
      BY <1>1, <1>2, <2>1, <2>5, AppKeeps
    <2> QED
      BY <1>2, <2>2, <2>3, <2>4, <2>5 DEF Phone
  <1>3. CASE UNCHANGED relayed
    <2>1. TypeOK' /\ UNCHANGED <<store, cursor, sync, filed, relay, answers>>
      BY <1>3 DEF relayed, vars, durable, worker, relay, TypeOK
    <2> QED
      BY <1>1, <2>1, StillKeeps
  <1> QED
    BY <1>2, <1>3, RelaySynchronizesInv, RelayForgetsInv, DeliverServes
    DEF RelayedNext

\* The promise of RelayJournal is all that the phones need of the relay: beside
\* any relay that keeps it, whose answers may come late, no device is left with
\* a saved cursor beyond an event that it does not hold.
THEOREM PromiseIsEnough == RelayedSpec => []SavedCursorCovered
  <1>1. RelayedInv => SavedCursorCovered
    BY DEF RelayedInv, Served, Covered, SavedCursorCovered, CoveredBy, Held,
           TypeOK
  <1> QED
    BY <1>1, RelayedInvInit, RelayedInvStep, PTL DEF RelayedSpec

-----------------------------------------------------------------------------
(* The one-step relay keeps the promise *)

\* No cursor is ahead of the relay, not even of a device that has removed the
\* voyage and whose cursor says nothing any more.
Bounded(d) ==
    /\ cursor[d] < nextSequence
    /\ sync[d].from < nextSequence
    /\ sync[d].reply.to < nextSequence

OneRowPerEvent == \A x, y \in rows : x.event = y.event => x = y

OneStepInv ==
    /\ WorkerInv
    /\ \A d \in Devices : Bounded(d)
    /\ OneRowPerEvent
    /\ \A a \in answers : a.to \in Nat /\ a.to < nextSequence

\* What a phone does to its cursors: it keeps, clears or saves what it was given.
KeepsCursors(d) ==
    /\ cursor'[d] \in {cursor[d], sync[d].reply.to, 0}
    /\ sync'[d].from \in {sync[d].from, cursor[d], 0}
    /\ sync'[d].reply.to \in {sync[d].reply.to, 0}

LEMMA PhoneKeepsCursors ==
    ASSUME TypeOK, NEW c \in Devices, Phone(c)
    PROVE  UNCHANGED relay /\ \A d \in Devices : KeepsCursors(d)
  <1> SUFFICES ASSUME NEW d \in Devices
               PROVE  UNCHANGED relay /\ KeepsCursors(d)
    BY DEF Phone, Wake, Exchange, App, Failure
  <1>1. ASSUME Keeps(d) PROVE KeepsCursors(d)
    BY <1>1 DEF Keeps, KeepsCursors
  <1>2. CASE Wake(c)
    BY <1>2 DEF Wake, KeepsCursors, durable, TypeOK, Sync
  <1>3. CASE Exchange(c)
    BY <1>1, <1>3, ExchangeKeeps
  <1>4. CASE Failure(c) \/ RelayRefuses(c)
    BY <1>1, <1>4, FailureKeeps
  <1>5. CASE App(c)
    <2>1. CASE DeleteEvents(c)
      BY <2>1 DEF DeleteEvents, KeepsCursors, worker
    <2>2. CASE Start(c)
      BY <2>2 DEF Start, FirstSync, KeepsCursors, durable, Idle, TypeOK
    <2>3. CASE Stop(c)
      BY <2>3 DEF Stop, KeepsCursors, durable, Idle, TypeOK
    <2>4. CASE Die(c) \/ RemoveSession(c)
      BY <1>1, <2>4, EndKeeps DEF Die, RemoveSession, WorkerGone
    <2>5. CASE Join(c) \/ ClearCursor(c)
      BY <2>5 DEF Join, ClearCursor, KeepsCursors, worker, TypeOK
    <2>6. ASSUME NEW e \in Events, Record(c, e) \/ ReceiveNearby(c, e)
          PROVE  UNCHANGED <<cursor, sync>>
      BY <2>6 DEF Record, ReceiveNearby, worker
    <2> QED
      BY <1>5, <2>1, <2>2, <2>3, <2>4, <2>5, <2>6, AppKeeps DEF App, KeepsCursors
  <1> QED
    BY <1>2, <1>3, <1>4, <1>5 DEF Phone, Wake

\* What the single step of the relay does, and that its answer leaves nothing
\* out between the cursor it was sent and the one it gives.
LEMMA AnswerIsGood ==
    ASSUME WorkerInv, NEW c \in Devices, RelayAnswers(c), Bounded(c)
    PROVE  \E stored \in SUBSET Fresh(c) :
             /\ rows' = rows \cup NewRows(stored)
             /\ nextSequence' = nextSequence + Cardinality(stored)
             /\ cursor' = cursor /\ sync'[c].from = sync[c].from
             /\ \A d \in Devices : d # c => UNCHANGED sync[d]
             /\ sync'[c].reply.to < nextSequence'
             /\ \A x \in rows' :
                  /\ sync[c].from < x.sequence /\ x.sequence <= sync'[c].reply.to
                  /\ x.event \in Understood
                  => x.event \in sync'[c].reply.events
  <1> USE DEF WorkerInv
  <1> DEFINE after == {x \in rows' : x.sequence > sync[c].from}
  <1>1. TypeOK'
    BY AnswerType
  <1>2. RowsNumbered'
    BY WorkerInvStep DEF Next, RelayReplies
  <1>3. PICK stored \in SUBSET Fresh(c) :
          /\ rows' = rows \cup NewRows(stored)
          /\ nextSequence' = nextSequence + Cardinality(stored)
          /\ cursor' = cursor
          /\ \E page \in SUBSET after : \E to \in NextCursor(page, sync[c].from) :
               /\ page = {} => after = {}
               /\ \A x \in page, y \in after : y.sequence < x.sequence => y \in page
               /\ sync' = [sync EXCEPT
                    ![c].pc = "replied",
                    ![c].reply = [to |-> to, accepted |-> sync[c].upload,
                                  events |-> EventsIn(page) \cap Understood]]
    BY DEF RelayAnswers, durable
  <1>4. PICK page \in SUBSET after : \E to \in NextCursor(page, sync[c].from) :
          /\ page = {} => after = {}
          /\ \A x \in page, y \in after : y.sequence < x.sequence => y \in page
          /\ sync' = [sync EXCEPT
               ![c].pc = "replied",
               ![c].reply = [to |-> to, accepted |-> sync[c].upload,
                             events |-> EventsIn(page) \cap Understood]]
    BY <1>3
  <1>5. PICK to \in NextCursor(page, sync[c].from) :
          /\ page = {} => after = {}
          /\ \A x \in page, y \in after : y.sequence < x.sequence => y \in page
          /\ sync' = [sync EXCEPT
               ![c].pc = "replied",
               ![c].reply = [to |-> to, accepted |-> sync[c].upload,
                             events |-> EventsIn(page) \cap Understood]]
    BY <1>4
  <1>6. /\ sync'[c].from = sync[c].from
        /\ sync'[c].reply.to = to
        /\ sync'[c].reply.events = EventsIn(page) \cap Understood
        /\ \A d \in Devices : d # c => UNCHANGED sync[d]
    BY <1>5 DEF TypeOK, Sync
  <1>7. /\ to \in {sync[c].from} \cup {x.sequence : x \in page}
        /\ \A x \in page : x.sequence <= to
    BY DEF NextCursor
  <1>8. /\ sync[c].from \in Nat /\ nextSequence \in Nat /\ nextSequence' \in Nat
        /\ \A x \in rows' : x.sequence \in Nat
    BY <1>1 DEF TypeOK, Sync, Row
  <1>9. to < nextSequence'
    <2>1. stored \in SUBSET Events
      BY FreshEvents
    <2>2. nextSequence <= nextSequence'
      BY <1>3, <1>8, <2>1, StoredRows
    <2>3. sync[c].from < nextSequence'
      BY <1>8, <2>2 DEF Bounded
    <2> QED
      BY <1>2, <1>7, <2>3 DEF RowsNumbered
  <1>10. ASSUME NEW x \in rows', sync[c].from < x.sequence, x.sequence <= to
         PROVE  x \in page
    <2>1. x \in after /\ to # sync[c].from
      BY <1>8, <1>10, <1>7
    <2>2. PICK y \in page : y.sequence = to
      BY <1>7, <2>1
    <2>3. CASE x.sequence = y.sequence
      BY <1>2, <2>2, <2>3 DEF RowsNumbered
    <2>4. CASE x.sequence < y.sequence
      BY <1>5, <2>1, <2>2, <2>4
    <2> QED
      BY <1>8, <1>10, <2>2, <2>3, <2>4
  <1>11. \A x \in rows' :
           /\ sync[c].from < x.sequence /\ x.sequence <= sync'[c].reply.to
           /\ x.event \in Understood
           => x.event \in sync'[c].reply.events
    BY <1>6, <1>10 DEF EventsIn
  <1> QED
    BY <1>3, <1>6, <1>9, <1>11

\* A step that only adds rows after all there were is one that was promised.
LEMMA OneStepSync ==
    ASSUME OneStepInv, TypeOK', RowsNumbered', OneRowPerEvent', rows \subseteq rows',
           \A x \in rows' : x \in rows \/ nextSequence <= x.sequence,
           NEW a, answers' = answers \cup {a}, Promise!Covers(a, UnderstoodRows')
    PROVE  Promise!Next
  <1> DEFINE kept == UnderstoodRows \cap UnderstoodRows'
             new == UnderstoodRows' \ UnderstoodRows
  <1>1. kept = UnderstoodRows
    BY DEF UnderstoodRows
  <1>2. \A x \in new : nextSequence <= x.sequence /\ x.sequence \in Nat
    BY DEF UnderstoodRows, TypeOK, Row
  <1>3. /\ nextSequence \in Nat /\ nextSequence > 0
        /\ \A y \in kept : y.sequence \in Nat /\ y.sequence < nextSequence
        /\ \A b \in answers : b.to \in Nat /\ b.to < nextSequence
    BY DEF OneStepInv, WorkerInv, RowsNumbered, TypeOK, Row, UnderstoodRows
  <1>4. Promise!Follows(new, kept)
    <2> HIDE DEF new, kept
    <2> QED
      BY <1>2, <1>3 DEF Promise!Follows
  <1>5. Promise!OneRowEach(kept \cup new)
    <2>1. Promise!OneRowEach(UnderstoodRows')
      BY DEF Promise!OneRowEach, UnderstoodRows, OneRowPerEvent, RowsNumbered
    <2> QED
      BY <2>1
  <1>6. Promise!Sync(kept, new, a)
    BY <1>4, <1>5 DEF Promise!Sync
  <1> QED
    BY <1>6 DEF Promise!Next

LEMMA OneStepInit == InitRelayed => OneStepInv /\ Promise!Init
  <1> SUFFICES ASSUME InitRelayed PROVE OneStepInv /\ Promise!Init
    OBVIOUS
  <1>1. WorkerInv
    BY WorkerInvInit DEF InitRelayed
  <1>2. Promise!Init
    BY DEF InitRelayed, Init, Promise!Init, UnderstoodRows
  <1> QED
    BY <1>1, <1>2 DEF InitRelayed, Init, OneStepInv, Bounded, OneRowPerEvent, Idle

LEMMA BoundedSteps ==
    ASSUME OneStepInv, NEW d \in Devices, KeepsCursors(d), UNCHANGED relay
    PROVE  Bounded(d)'
  BY DEF OneStepInv, WorkerInv, RowsNumbered, TypeOK, Bounded, KeepsCursors, relay

LEMMA OneStepStep ==
    ASSUME OneStepInv, [OneStepNext]_relayed
    PROVE  OneStepInv' /\ [Promise!Next]_<<UnderstoodRows, answers>>
  <1>1. WorkerInv'
    <2>1. [Next]_vars
      BY DEF OneStepNext, relayed, Next, RelayReplies, Phone
    <2> QED
      BY <2>1, WorkerInvStep DEF OneStepInv
  <1>2. TypeOK /\ TypeOK' /\ RowsNumbered /\ RowsNumbered' /\ WorkerInv
    BY <1>1 DEF OneStepInv, WorkerInv
  <1>3. nextSequence \in Nat /\ nextSequence' \in Nat
    BY <1>2 DEF TypeOK
  <1>4. ASSUME UNCHANGED <<relay, answers>>,
               \A d \in Devices : KeepsCursors(d)
        PROVE  OneStepInv' /\ [Promise!Next]_<<UnderstoodRows, answers>>
    <2>1. \A d \in Devices : Bounded(d)'
      BY <1>4, BoundedSteps
    <2> QED
      BY <1>1, <1>4, <2>1 DEF OneStepInv, OneRowPerEvent, UnderstoodRows, relay
  <1>5. ASSUME NEW c \in Devices, RelayAnswers(c),
               answers' = answers \cup {AnswerTo(c)}
        PROVE  OneStepInv' /\ [Promise!Next]_<<UnderstoodRows, answers>>
    <2>1. PICK stored \in SUBSET Fresh(c) :
             /\ rows' = rows \cup NewRows(stored)
             /\ nextSequence' = nextSequence + Cardinality(stored)
             /\ cursor' = cursor /\ sync'[c].from = sync[c].from
             /\ \A d \in Devices : d # c => UNCHANGED sync[d]
             /\ sync'[c].reply.to < nextSequence'
             /\ \A x \in rows' :
                  /\ sync[c].from < x.sequence /\ x.sequence <= sync'[c].reply.to
                  /\ x.event \in Understood
                  => x.event \in sync'[c].reply.events
      BY <1>2, <1>5, AnswerIsGood DEF OneStepInv
    <2>2. /\ stored \in SUBSET Events /\ Cardinality(stored) \in Nat
          /\ nextSequence <= nextSequence'
          /\ \A x \in NewRows(stored) :
                x.event \in stored /\ nextSequence <= x.sequence
      <3>1. stored \in SUBSET Events
        BY <1>2, <2>1, FreshEvents
      <3>2. /\ Cardinality(stored) \in Nat
            /\ \A x \in NewRows(stored) :
                  x.event \in stored /\ nextSequence <= x.sequence
        BY <1>2, <3>1, StoredRows
      <3> QED
        BY <1>3, <2>1, <3>1, <3>2
    <2>3. OneRowPerEvent'
      <3>1. ASSUME NEW x \in NewRows(stored), NEW y \in NewRows(stored),
                   x.event = y.event
            PROVE  x = y
        <4> DEFINE Numbered(e) ==
              [sequence |-> nextSequence + Cardinality({f \in stored : f < e}),
               event |-> e]
        <4>1. PICK e \in stored : x = Numbered(e)
          BY DEF NewRows
        <4>2. PICK g \in stored : y = Numbered(g)
          BY DEF NewRows
        <4>3. x.event = e /\ y.event = g
          BY <4>1, <4>2
        <4>4. e = g
          BY <3>1, <4>3
        <4> HIDE DEF Numbered
        <4> QED
          BY <4>1, <4>2, <4>4
      <3>2. \A x \in NewRows(stored), y \in rows : x.event # y.event
        BY <2>1, <2>2 DEF Fresh, EventsIn
      <3> QED
        BY <2>1, <3>1, <3>2 DEF OneStepInv, OneRowPerEvent
    <2>4. \A d \in Devices : Bounded(d)'
      <3>1. ASSUME NEW d \in Devices
            PROVE  /\ cursor[d] \in Nat /\ sync[d].from \in Nat
                   /\ sync[d].reply.to \in Nat
        BY <1>2 DEF TypeOK, Sync, Reply
      <3> QED
        BY <1>3, <2>1, <2>2, <3>1 DEF OneStepInv, Bounded
    <2>5. \A a \in answers' : a.to \in Nat /\ a.to < nextSequence'
      <3>1. sync'[c].reply.to \in Nat
        BY <1>2 DEF TypeOK, Sync, Reply
      <3> QED
        BY <1>3, <1>5, <2>1, <2>2, <3>1 DEF OneStepInv, AnswerTo
    <2>6. Promise!Covers(AnswerTo(c), UnderstoodRows')
      BY <2>1 DEF Promise!Covers, AnswerTo, UnderstoodRows
    <2>7. Promise!Next
      BY <1>2, <1>5, <2>1, <2>2, <2>3, <2>6, OneStepSync
    <2> QED
      BY <1>1, <2>3, <2>4, <2>5, <2>7 DEF OneStepInv
  <1>6. ASSUME NEW e \in Events, UploadElsewhere(e),
               answers' = answers \cup {NoAnswer}
        PROVE  OneStepInv' /\ [Promise!Next]_<<UnderstoodRows, answers>>
    <2>1. /\ rows' = rows \cup {[sequence |-> nextSequence, event |-> e]}
          /\ nextSequence' = nextSequence + 1 /\ e \notin taken
          /\ UNCHANGED <<cursor, sync>>
      BY <1>6 DEF UploadElsewhere, durable, worker
    <2>2. OneRowPerEvent'
      <3>1. e \notin EventsIn(rows)
        BY <1>2, <2>1 DEF WorkerInv, OnlyTaken
      <3> QED
        BY <2>1, <3>1 DEF OneStepInv, OneRowPerEvent, EventsIn
    <2>3. \A d \in Devices : Bounded(d)'
      BY <1>2, <1>3, <2>1 DEF OneStepInv, Bounded, TypeOK, Sync, Reply
    <2>4. 0 < nextSequence'
      BY <1>2, <1>3 DEF RowsNumbered
    <2>5. \A a \in answers' : a.to \in Nat /\ a.to < nextSequence'
      BY <1>3, <1>6, <2>1, <2>4 DEF OneStepInv, NoAnswer
    <2>6. Promise!Covers(NoAnswer, UnderstoodRows')
      <3>1. \A x \in UnderstoodRows' : x.sequence \in Nat
        BY <1>2 DEF UnderstoodRows, TypeOK, Row
      <3> QED
        BY <3>1 DEF Promise!Covers, NoAnswer
    <2>7. rows \subseteq rows'
          /\ \A x \in rows' : x \in rows \/ nextSequence <= x.sequence
      BY <1>3, <2>1
    <2>8. Promise!Next
      BY <1>2, <1>6, <2>2, <2>6, <2>7, OneStepSync
    <2> QED
      BY <1>1, <2>2, <2>3, <2>5, <2>8 DEF OneStepInv
  <1>7. ASSUME NEW c \in Devices, Phone(c), UNCHANGED answers
        PROVE  OneStepInv' /\ [Promise!Next]_<<UnderstoodRows, answers>>
    BY <1>2, <1>4, <1>7, PhoneKeepsCursors
  <1>8. ASSUME NEW x \in rows, Forget(x), UNCHANGED answers
        PROVE  OneStepInv' /\ [Promise!Next]_<<UnderstoodRows, answers>>
    <2>1. rows' = rows \ {x} /\ UNCHANGED <<cursor, sync, nextSequence>>
      BY <1>8 DEF Forget, durable, worker
    <2>2. Promise!Next
      BY <1>8, <2>1 DEF Promise!Next, Promise!Forget, UnderstoodRows
    <2> QED
      BY <1>1, <1>8, <2>1, <2>2 DEF OneStepInv, OneRowPerEvent, Bounded
  <1>9. CASE UNCHANGED relayed
    BY <1>4, <1>9 DEF relayed, vars, durable, worker, KeepsCursors
  <1> QED
    BY <1>5, <1>6, <1>7, <1>8, <1>9 DEF OneStepNext

\* And the relay the workers were checked with, which serves a request in one
\* step, is a relay that keeps the promise.
THEOREM OneStepAlwaysKeepsPromise == OneStepSpec => OneStepKeepsPromise
  BY OneStepInit, OneStepStep, PTL DEF OneStepSpec, OneStepKeepsPromise, Promise!Spec
=============================================================================
