--------------------------- MODULE RelaySyncProofs ---------------------------
(***************************************************************************)
(* Theorems about RelaySync, for every value of its constants: its types;  *)
(* at most one row per event, and no cursor that runs past an undelivered  *)
(* event, for any number of workers; and RelaySync implements RelayJournal *)
(* with its committed rows as the journal.                                 *)
(***************************************************************************)
EXTENDS RelaySync, FiniteSetTheorems, TLAPS

\* Type correctness is not inductive alone: that the ORM's copy of the voyage is
\* a row once the transaction is past the claim, and that what is counted is
\* finite, come from the steps before.
TxnInv ==
    \A r \in Relays : txn[r] # NoTxn =>
        /\ txn[r] \in Txn
        /\ IsFiniteSet(txn[r].added)
        /\ txn[r].pc # "claim" => /\ txn[r].mine \in VoyageRow
                                  /\ txn[r].loaded \in VoyageRow

TypeInv == TypeOK /\ IsFiniteSet(rows) /\ TxnInv

-----------------------------------------------------------------------------
(* The operators the transactions are built from *)

LEMMA RetentionInNat == \A type \in STRING : MaximumEventRetention(type) \in Nat
  BY RetentionAssumption DEF MaximumEventRetention

LEMMA ConstantsInNat ==
    /\ VoyageRetention \in Nat /\ EndedVoyageGrace \in Nat
    /\ JournalRetention \in Nat /\ ReplayRetention \in Nat
    /\ PresenceTTL \in Nat
  BY RetentionAssumption

LEMMA LifecycleType ==
    ASSUME NEW row \in VoyageRow, NEW type \in STRING, NEW t \in Nat
    PROVE  AfterLifecycle(row, type, t) \in VoyageRow
  <1>1. CASE type = "voyageEnded" /\ row.endedAt = None
    <2>1. Earlier(row.deleteAfter, t + EndedVoyageGrace) \in Nat
      BY ConstantsInNat DEF VoyageRow, Earlier
    <2> QED
      BY <1>1, <2>1 DEF AfterLifecycle, VoyageRow
  <1>2. CASE type = "voyageReopened" /\ row.endedAt # None
    <2>1. Later(row.deleteAfter, t + VoyageRetention) \in Nat
      BY ConstantsInNat DEF VoyageRow, Later
    <2>2. AfterLifecycle(row, type, t) =
            [row EXCEPT !.endedAt = None,
                        !.deleteAfter = Later(@, t + VoyageRetention)]
      BY <1>2 DEF AfterLifecycle
    <2> QED
      BY <2>1, <2>2 DEF VoyageRow
  <1>3. CASE /\ ~(type = "voyageEnded" /\ row.endedAt = None)
             /\ ~(type = "voyageReopened" /\ row.endedAt # None)
    BY <1>3 DEF AfterLifecycle
  <1> QED
    BY <1>1, <1>2, <1>3

LEMMA SyncType ==
    ASSUME NEW row \in VoyageRow, NEW t \in Nat
    PROVE  AfterSync(row, t) \in VoyageRow
  <1> DEFINE d == IF row.endedAt = None THEN t + VoyageRetention
                  ELSE row.deleteAfter
  <1>1. d \in Nat
    BY ConstantsInNat DEF VoyageRow
  <1>2. AfterSync(row, t) = [row EXCEPT !.lastSeen = t, !.deleteAfter = d]
    BY DEF AfterSync
  <1> QED
    BY <1>1, <1>2 DEF VoyageRow

LEMMA WriteBackType ==
    ASSUME NEW old \in VoyageRow \cup {NoVoyage}, NEW row \in VoyageRow,
           NEW changed
    PROVE  WriteBack(old, row, changed) \in VoyageRow
  BY DEF WriteBack, VoyageRow

LEMMA ExpiredCount ==
    ASSUME NEW table, IsFiniteSet(table), NEW t
    PROVE  Cardinality(Expired(table, t)) \in Nat
  BY FS_Subset, FS_CardinalityType DEF Expired
-----------------------------------------------------------------------------
(* Every step keeps the types *)

\* A transaction that moves to a well-formed record, or ends, keeps the others.
LEMMA TxnMoves ==
    ASSUME TypeInv, NEW r \in Relays, NEW t,
           txn' = [txn EXCEPT ![r] = t],
           t # NoTxn => /\ t \in Txn
                        /\ IsFiniteSet(t.added)
                        /\ t.pc # "claim" => /\ t.mine \in VoyageRow
                                             /\ t.loaded \in VoyageRow
    PROVE  txn' \in [Relays -> Txn \cup {NoTxn}] /\ TxnInv'
  <1>1. txn' \in [Relays -> Txn \cup {NoTxn}]
    BY DEF TypeInv, TypeOK
  <1>2. ASSUME NEW q \in Relays, txn'[q] # NoTxn
        PROVE  /\ txn'[q] \in Txn
               /\ IsFiniteSet(txn'[q].added)
               /\ txn'[q].pc # "claim" => /\ txn'[q].mine \in VoyageRow
                                          /\ txn'[q].loaded \in VoyageRow
    <2>1. CASE q = r
      BY <2>1, <1>2 DEF TypeInv, TypeOK
    <2>2. CASE q # r
      BY <2>2, <1>2 DEF TypeInv, TypeOK, TxnInv
    <2> QED
      BY <2>1, <2>2
  <1> QED
    BY <1>1, <1>2 DEF TxnInv

LEMMA RollbackType ==
    ASSUME TypeInv, NEW r \in Relays, Rollback(r)
    PROVE  TypeInv'
  <1>1. txn' \in [Relays -> Txn \cup {NoTxn}] /\ TxnInv'
    BY TxnMoves DEF Rollback
  <1> QED
    BY <1>1 DEF Rollback, TypeInv, TypeOK, db

LEMMA BeginType ==
    ASSUME TypeInv, NEW r \in Relays, NEW request \in Request,
           BeginSync(r, request)
    PROVE  TypeInv'
  <1> DEFINE t == [pc |-> IF voyage = NoVoyage THEN "claim" ELSE "lock",
                   at |-> now, request |-> request,
                   mine |-> voyage, loaded |-> voyage, dirty |-> {},
                   added |-> {}, step |-> 1]
  <1>1. t \in Txn
    BY DEF TypeInv, TypeOK, Txn
  <1>2. IsFiniteSet(t.added)
    BY FS_EmptySet
  <1>3. t.pc # "claim" => t.mine \in VoyageRow /\ t.loaded \in VoyageRow
    BY DEF TypeInv, TypeOK
  <1>4. txn' = [txn EXCEPT ![r] = t]
    BY DEF BeginSync
  <1>5. txn' \in [Relays -> Txn \cup {NoTxn}] /\ TxnInv'
    BY <1>1, <1>2, <1>3, <1>4, TxnMoves
  <1> QED
    BY <1>5 DEF BeginSync, TypeInv, TypeOK, db

LEMMA ClaimType ==
    ASSUME TypeInv, NEW r \in Relays, ClaimVoyage(r)
    PROVE  TypeInv'
  <1> DEFINE claimed == [count |-> 0, endedAt |-> None,
                         deleteAfter |-> txn[r].at + VoyageRetention,
                         lastSeen |-> txn[r].at]
             row == IF voyage = NoVoyage THEN claimed ELSE voyage
             t == [txn[r] EXCEPT !.pc = "lock", !.mine = row, !.loaded = row]
  <1>1. txn[r] \in Txn /\ IsFiniteSet(txn[r].added)
    BY DEF ClaimVoyage, In, TypeInv, TxnInv
  <1>2. claimed \in VoyageRow
    BY <1>1, ConstantsInNat DEF VoyageRow, Txn
  <1>3. row \in VoyageRow
    BY <1>2 DEF TypeInv, TypeOK
  <1>4. t \in Txn /\ t.added = txn[r].added /\ t.mine = row /\ t.loaded = row
    BY <1>1, <1>3 DEF Txn
  <1>5. txn' = [txn EXCEPT ![r] = t]
    BY DEF ClaimVoyage, TypeInv, TypeOK
  <1>6. txn' \in [Relays -> Txn \cup {NoTxn}] /\ TxnInv'
    BY <1>1, <1>3, <1>4, <1>5, TxnMoves
  <1> QED
    BY <1>6 DEF ClaimVoyage, TypeInv, TypeOK, db

LEMMA PurgeType ==
    ASSUME TypeInv, NEW r \in Relays, NEW pc \in {"store", "replay"},
           In(r, "lock"), Purge(r, pc)
    PROVE  TypeInv'
  <1> DEFINE count == Less(txn[r].mine.count,
                           Cardinality(Expired(rows, txn[r].at)))
             row == [txn[r].mine EXCEPT !.count = count]
             dirty == IF row = txn[r].mine THEN {} ELSE {"count"}
             t == [txn[r] EXCEPT !.pc = pc, !.mine = row, !.loaded = row,
                                 !.dirty = dirty]
  <1>1. /\ txn[r] \in Txn /\ IsFiniteSet(txn[r].added)
        /\ txn[r].mine \in VoyageRow
    BY DEF In, TypeInv, TxnInv
  <1>2. Cardinality(Expired(rows, txn[r].at)) \in Nat
    BY ExpiredCount DEF TypeInv
  <1>3. count \in Nat
    BY <1>1, <1>2 DEF Less, VoyageRow
  <1>4. row \in VoyageRow
    BY <1>1, <1>3 DEF VoyageRow
  <1>5. dirty \in SUBSET Attributes
    BY DEF Attributes
  <1> HIDE DEF count, row, dirty
  <1>6. t \in Txn /\ t.added = txn[r].added /\ t.mine = row /\ t.loaded = row
    BY <1>1, <1>4, <1>5 DEF Txn
  <1>7. txn' = [txn EXCEPT ![r] = t]
    BY DEF Purge, TypeInv, TypeOK, count, row, dirty
  <1>8. txn' \in [Relays -> Txn \cup {NoTxn}] /\ TxnInv'
    BY <1>1, <1>4, <1>6, <1>7, TxnMoves
  <1> QED
    BY <1>8 DEF Purge, TypeInv, TypeOK, db

\* The event under the loop's hand is one of the batch.
LEMMA CurrentEventType ==
    ASSUME TypeInv, NEW r \in Relays, Storing(r)
    PROVE  /\ CurrentEvent(r) \in Event
           /\ KeptUntil(r) \in Nat
           /\ txn[r] \in Txn /\ IsFiniteSet(txn[r].added)
           /\ txn[r].mine \in VoyageRow /\ txn[r].loaded \in VoyageRow
  <1>1. /\ txn[r] \in Txn /\ IsFiniteSet(txn[r].added)
        /\ txn[r].mine \in VoyageRow /\ txn[r].loaded \in VoyageRow
    BY DEF Storing, In, TypeInv, TxnInv
  <1>2. txn[r].request.batch \in Seq(Event)
    BY <1>1, BatchesAssumption DEF Txn, Request
  <1>3. CurrentEvent(r) \in Event
    BY <1>1, <1>2 DEF Storing, CurrentEvent, Txn
  <1>4. MaximumEventRetention(CurrentEvent(r).type) \in Nat
    BY <1>3, RetentionInNat DEF Event
  <1>5. /\ txn[r].at \in Nat /\ CurrentEvent(r).expires \in Nat
        /\ txn[r].mine.deleteAfter \in Nat
    BY <1>1, <1>3 DEF Txn, Event, VoyageRow
  <1>6. KeptUntil(r) \in Nat
    BY <1>4, <1>5 DEF KeptUntil, Earlier
  <1> QED
    BY <1>1, <1>3, <1>6

LEMMA SkipType ==
    ASSUME TypeInv, NEW r \in Relays, SkipEvent(r)
    PROVE  TypeInv'
  <1> DEFINE t == [txn[r] EXCEPT !.step = @ + 1]
  <1>1. /\ txn[r] \in Txn /\ IsFiniteSet(txn[r].added)
        /\ txn[r].mine \in VoyageRow /\ txn[r].loaded \in VoyageRow
    BY CurrentEventType DEF SkipEvent
  <1>2. /\ t \in Txn /\ t.added = txn[r].added
        /\ t.mine = txn[r].mine /\ t.loaded = txn[r].loaded
    BY <1>1 DEF Txn
  <1>3. txn' = [txn EXCEPT ![r] = t]
    BY DEF SkipEvent, TypeInv, TypeOK
  <1>4. txn' \in [Relays -> Txn \cup {NoTxn}] /\ TxnInv'
    BY <1>1, <1>2, <1>3, TxnMoves
  <1> QED
    BY <1>4 DEF SkipEvent, TypeInv, TypeOK, db

LEMMA StoreType ==
    ASSUME TypeInv, NEW r \in Relays, StoreEvent(r)
    PROVE  TypeInv'
  <1> DEFINE e == CurrentEvent(r)
             row == [txn[r].mine EXCEPT !.count = @ + 1]
             new == [sequence |-> nextSequence, event |-> e,
                     expires |-> KeptUntil(r)]
             added == txn[r].added \cup {new}
             mine == AfterLifecycle(row, e.type, txn[r].at)
             t == [txn[r] EXCEPT !.added = added, !.mine = mine,
                                 !.step = @ + 1]
  <1>1. /\ e \in Event /\ KeptUntil(r) \in Nat
        /\ txn[r] \in Txn /\ IsFiniteSet(txn[r].added)
        /\ txn[r].mine \in VoyageRow /\ txn[r].loaded \in VoyageRow
    BY CurrentEventType DEF StoreEvent
  <1>2. row \in VoyageRow
    BY <1>1 DEF VoyageRow
  <1>3. mine \in VoyageRow
    BY <1>1, <1>2, LifecycleType DEF Event, Txn
  <1>4. new \in StoredEvent
    BY <1>1 DEF TypeInv, TypeOK, StoredEvent
  <1>5. added \in SUBSET StoredEvent /\ IsFiniteSet(added)
    BY <1>1, <1>4, FS_AddElement DEF Txn
  <1>6. txn' = [txn EXCEPT ![r] = t] /\ nextSequence' = nextSequence + 1
    BY DEF StoreEvent, TypeInv, TypeOK
  <1> HIDE DEF e, row, new, added, mine
  <1>7. /\ t \in Txn /\ t.added = added /\ t.mine = mine
        /\ t.loaded = txn[r].loaded
    <2>1. txn[r].step + 1 \in Nat \ {0}
      BY <1>1 DEF Txn
    <2>2. t.added = added /\ t.mine = mine /\ t.loaded = txn[r].loaded
      BY <1>1 DEF Txn
    <2>3. t \in Txn
      BY <1>1, <1>3, <1>5, <2>1 DEF Txn
    <2> QED
      BY <2>2, <2>3
  <1>8. txn' \in [Relays -> Txn \cup {NoTxn}] /\ TxnInv'
    BY <1>1, <1>3, <1>5, <1>6, <1>7, TxnMoves
  <1> QED
    BY <1>6, <1>8 DEF StoreEvent, TypeInv, TypeOK, db

\* A commit leaves a well-formed row, finite rows and one more answer.
LEMMA FinishType ==
    ASSUME TypeInv, NEW r \in Relays, NEW accepted \in SUBSET STRING,
           In(r, "store") \/ In(r, "replay"), Finish(r, accepted)
    PROVE  /\ voyage' \in VoyageRow
           /\ rows' \subseteq StoredEvent /\ IsFiniteSet(rows')
           /\ txn' \in [Relays -> Txn \cup {NoTxn}] /\ TxnInv'
           /\ answers' \subseteq Answer
  <1> DEFINE t == txn[r]
             visible == LiveRows(r) \cup t.added
             available == {x \in visible : x.sequence > t.request.cursor}
             row == AfterSync(t.mine, t.at)
             changed == t.dirty \cup {f \in Attributes : row[f] # t.loaded[f]}
  <1>1. /\ t \in Txn /\ IsFiniteSet(t.added)
        /\ t.mine \in VoyageRow /\ t.loaded \in VoyageRow
    BY DEF In, TypeInv, TxnInv
  <1>2. voyage' = WriteBack(voyage, row, changed)
    BY DEF Finish
  <1>3. row \in VoyageRow
    BY <1>1, SyncType DEF Txn
  <1>4. voyage' \in VoyageRow
    <2> HIDE DEF row, changed
    <2> QED
      BY <1>2, <1>3, WriteBackType DEF TypeInv, TypeOK
  <1>5. visible \subseteq StoredEvent /\ IsFiniteSet(visible)
    <2>1. IsFiniteSet(LiveRows(r))
      BY FS_Subset DEF LiveRows, TypeInv
    <2> QED
      BY <1>1, <2>1, FS_Union DEF LiveRows, TypeInv, TypeOK, Txn
  <1>6. rows' = visible
    BY DEF Finish
  <1>7. txn' \in [Relays -> Txn \cup {NoTxn}] /\ TxnInv'
    BY TxnMoves DEF Finish
  <1>8. PICK page \in SUBSET available, to \in 0..nextSequence :
          answers' = answers \cup
                 {[device |-> t.request.device, from |-> t.request.cursor,
                   to |-> to, events |-> IdsOf(EventsIn(page)),
                   accepted |-> accepted]}
    BY DEF Finish
  <1>9. answers' \subseteq Answer
    <2>1. IdsOf(EventsIn(page)) \in SUBSET STRING
      BY <1>5 DEF IdsOf, EventsIn, StoredEvent, Event
    <2>2. /\ t.request.device \in Sailors /\ t.request.cursor \in Nat
          /\ to \in Nat
      BY <1>1 DEF Txn, Request, TypeInv, TypeOK
    <2> HIDE DEF t
    <2> QED
      BY <1>8, <2>1, <2>2 DEF Answer, TypeInv, TypeOK
  <1> QED
    BY <1>4, <1>5, <1>6, <1>7, <1>9

LEMMA FinishReplayType ==
    ASSUME TypeInv, NEW r \in Relays, FinishReplay(r)
    PROVE  TypeInv'
  <1>1. PICK p \in EarlierAnswers(r) : Finish(r, p.accepted)
    BY DEF FinishReplay
  <1>2. p.accepted \in SUBSET STRING
    BY DEF EarlierAnswers, LiveReplays, TypeInv, TypeOK, Replay
  <1>3. replays' \subseteq Replay /\ positions' = positions
    BY DEF FinishReplay, LiveReplays, TypeInv, TypeOK
  <1>4. /\ voyage' \in VoyageRow
        /\ rows' \subseteq StoredEvent /\ IsFiniteSet(rows')
        /\ txn' \in [Relays -> Txn \cup {NoTxn}] /\ TxnInv'
        /\ answers' \subseteq Answer
    BY <1>1, <1>2, FinishType DEF FinishReplay
  <1>5. lock' = Nobody /\ UNCHANGED <<now, nextSequence, cleaner, requests>>
    BY <1>1 DEF Finish
  <1> QED
    BY <1>3, <1>4, <1>5 DEF TypeInv, TypeOK

\* The identities of an upload are strings.
LEMMA AcceptedType ==
    ASSUME TypeInv, NEW r \in Relays, In(r, "store") \/ In(r, "replay")
    PROVE  IdsOf(RangeOf(txn[r].request.batch)) \in SUBSET STRING
  <1> DEFINE batch == txn[r].request.batch
  <1>1. txn[r] \in Txn
    BY DEF In, TypeInv, TxnInv
  <1>2. batch \in Seq(Event)
    BY <1>1, BatchesAssumption DEF Txn, Request
  <1>3. \A i \in DOMAIN batch : batch[i] \in Event
    BY <1>2
  <1>4. \A e \in RangeOf(batch) : e.id \in STRING
    <2> HIDE DEF batch
    <2> QED
      BY <1>3 DEF RangeOf, Event
  <1> QED
    BY <1>4 DEF IdsOf

LEMMA FinishStoreType ==
    ASSUME TypeInv, NEW r \in Relays, FinishStore(r)
    PROVE  TypeInv'
  <1> DEFINE request == txn[r].request
             accepted == IdsOf(RangeOf(request.batch))
             replay == [request |-> request, accepted |-> accepted,
                        expires |-> txn[r].at + ReplayRetention]
             recorded == IF request.batch = <<>> THEN {} ELSE {replay}
  <1>1. txn[r] \in Txn /\ In(r, "store")
    BY DEF FinishStore, Stored, In, TypeInv, TxnInv
  <1>2. request \in Request /\ request.batch \in Seq(Event)
    BY <1>1, BatchesAssumption DEF Txn, Request
  <1>3. accepted \in SUBSET STRING
    BY <1>1, AcceptedType
  <1>4. replay \in Replay
    <2>1. txn[r].at + ReplayRetention \in Nat
      BY <1>1, ConstantsInNat DEF Txn
    <2> HIDE DEF request, accepted
    <2> QED
      BY <1>2, <1>3, <2>1 DEF Replay
  <1>5. Finish(r, accepted) /\ replays' = LiveReplays(r) \cup recorded
    BY DEF FinishStore
  <1>6. replays' \subseteq Replay
    BY <1>4, <1>5 DEF LiveReplays, TypeInv, TypeOK
  <1>7. positions' \in [Sailors -> Nat]
    BY DEF FinishStore, TypeInv, TypeOK
  <1>8. /\ voyage' \in VoyageRow
        /\ rows' \subseteq StoredEvent /\ IsFiniteSet(rows')
        /\ txn' \in [Relays -> Txn \cup {NoTxn}] /\ TxnInv'
        /\ answers' \subseteq Answer
    BY <1>1, <1>3, <1>5, FinishType
  <1>9. lock' = Nobody /\ UNCHANGED <<now, nextSequence, cleaner, requests>>
    BY <1>5 DEF Finish
  <1> QED
    BY <1>6, <1>7, <1>8, <1>9 DEF TypeInv, TypeOK

LEMMA PresenceType ==
    ASSUME TypeInv,
           \/ PresenceEnded \/ ReadPositions
           \/ \E s \in Sailors : SharePosition(s) \/ ClearPosition(s)
    PROVE  TypeInv'
  <1>1. LivePositions \in [Sailors -> Nat]
    BY DEF LivePositions, TypeInv, TypeOK
  <1>2. positions' \in [Sailors -> Nat]
    BY <1>1, ConstantsInNat
       DEF PresenceEnded, ReadPositions, SharePosition, ClearPosition,
           TypeInv, TypeOK
  <1>3. UNCHANGED <<now, voyage, rows, replays, nextSequence, lock, txn,
                    cleaner, answers, requests>>
    BY DEF PresenceEnded, ReadPositions, SharePosition, ClearPosition, Presence
  <1> QED
    BY <1>2, <1>3 DEF TypeInv, TypeOK, TxnInv

LEMMA CleanupType ==
    ASSUME TypeInv, Cleanup
    PROVE  TypeInv'
  <1>1. CASE CleanupCount
    <2>1. Cardinality(Expired(rows, now)) \in Nat
      BY ExpiredCount DEF TypeInv
    <2> QED
      BY <1>1, <2>1 DEF CleanupCount, TypeInv, TypeOK, TxnInv, db
  <1>2. CASE CleanupLock
    BY <1>2 DEF CleanupLock, TypeInv, TypeOK, TxnInv, db
  <1>3. CASE CleanupDelete
    <2> DEFINE count == Less(voyage.count, cleaner.usage)
               counted == IF lock = Cleaner
                          THEN [voyage EXCEPT !.count = count] ELSE voyage
               kept == voyage # NoVoyage /\ voyage.deleteAfter > cleaner.at
    <2>1. ASSUME kept PROVE counted \in VoyageRow
      <3>1. voyage \in VoyageRow
        BY <2>1 DEF TypeInv, TypeOK
      <3>2. count \in Nat
        BY <3>1 DEF Less, VoyageRow, TypeInv, TypeOK
      <3> QED
        BY <3>1, <3>2 DEF VoyageRow
    <2>2. voyage' = IF kept THEN counted ELSE NoVoyage
      BY <1>3 DEF CleanupDelete
    <2>3. voyage' \in VoyageRow \cup {NoVoyage}
      BY <2>1, <2>2
    <2>4. rows' \subseteq rows /\ replays' \subseteq replays
      BY <1>3 DEF CleanupDelete
    <2>5. rows' \subseteq StoredEvent /\ IsFiniteSet(rows')
      BY <2>4, FS_Subset DEF TypeInv, TypeOK
    <2>6. positions' \in [Sailors -> Nat]
      BY <1>3 DEF CleanupDelete, TypeInv, TypeOK
    <2>7. /\ lock' = Nobody
          /\ cleaner' = [pc |-> "idle", at |-> 0, usage |-> 0]
          /\ UNCHANGED <<now, nextSequence, txn, answers, requests>>
      BY <1>3 DEF CleanupDelete
    <2> QED
      BY <2>3, <2>4, <2>5, <2>6, <2>7 DEF TypeInv, TypeOK, TxnInv
  <1>4. CASE CleanupCrash
    BY <1>4 DEF CleanupCrash, TypeInv, TypeOK, TxnInv, db
  <1> QED
    BY <1>1, <1>2, <1>3, <1>4 DEF Cleanup

LEMMA RequestType ==
    ASSUME TypeInv, NEW r \in Relays, Receive(r)
    PROVE  TypeInv'
  <1>1. PICK device \in Sailors, batch \in Batches :
          \E cursor \in KnownCursors(device) :
            BeginSync(r, [device |-> device, cursor |-> cursor,
                          batch |-> batch])
    BY DEF Receive
  <1>2. PICK cursor \in KnownCursors(device) :
          BeginSync(r, [device |-> device, cursor |-> cursor,
                        batch |-> batch])
    BY <1>1
  <1>3. cursor \in Nat
    BY DEF KnownCursors, TypeInv, TypeOK, Answer
  <1> QED
    BY <1>2, <1>3, BeginType DEF Request

LEMMA WorkType ==
    ASSUME TypeInv, NEW r \in Relays, Work(r)
    PROVE  TypeInv'
  <1>1. CASE ClaimVoyage(r)
    BY <1>1, ClaimType
  <1>2. CASE \/ VoyageVanished(r) \/ Conflict(r)
             \/ EventQuota(r) \/ ReplayQuota(r)
    BY <1>2, RollbackType DEF VoyageVanished, Conflict, EventQuota, ReplayQuota
  <1>3. CASE EnterReplay(r) \/ EnterStore(r)
    BY <1>3, PurgeType DEF EnterReplay, EnterStore, Locks
  <1>4. CASE SkipEvent(r)
    BY <1>4, SkipType
  <1>5. CASE StoreEvent(r)
    BY <1>5, StoreType
  <1>6. CASE FinishReplay(r)
    BY <1>6, FinishReplayType
  <1>7. CASE FinishStore(r)
    BY <1>7, FinishStoreType
  <1> QED
    BY <1>1, <1>2, <1>3, <1>4, <1>5, <1>6, <1>7 DEF Work

LEMMA TypeInit == Init => TypeInv
  BY FS_EmptySet DEF Init, TypeInv, TypeOK, TxnInv

LEMMA TypeStep == TypeInv /\ [Next]_vars => TypeInv'
  <1> SUFFICES ASSUME TypeInv, [Next]_vars PROVE TypeInv'
    OBVIOUS
  <1>1. ASSUME NEW r \in Relays, Receive(r) \/ Work(r) \/ Crash(r)
        PROVE  TypeInv'
    BY <1>1, RequestType, WorkType, RollbackType DEF Crash
  <1>2. CASE \/ PresenceEnded \/ ReadPositions
             \/ \E s \in Sailors : SharePosition(s) \/ ClearPosition(s)
    BY <1>2, PresenceType
  <1>3. CASE Cleanup
    BY <1>3, CleanupType
  <1>4. CASE Tick
    BY <1>4 DEF Tick, TypeInv, TypeOK, TxnInv, db
  <1>5. CASE UNCHANGED vars
    BY <1>5 DEF vars, TypeInv, TypeOK, TxnInv
  <1> QED
    BY <1>1, <1>2, <1>3, <1>4, <1>5 DEF Next

\* Every variable keeps its type, whatever the number of workers, the batches
\* and the limits: no counter goes below zero, no purged row is written back.
THEOREM TypeCorrect == Spec => []TypeOK
  <1>1. TypeInv => TypeOK
    BY DEF TypeInv
  <1> QED
    BY TypeInit, TypeStep, <1>1, PTL DEF Spec

-----------------------------------------------------------------------------
(* The journal *)

\* Removing rows, or taking sequence numbers, keeps the committed part.
LEMMA CommittedKept ==
    ASSUME TypeInv, CommittedJournal, rows' \subseteq rows, answers' = answers,
           nextSequence' \in {nextSequence, nextSequence + 1}
    PROVE  CommittedJournal'
  <1> USE DEF TypeInv, TypeOK
  <1>1. OneRowPerEvent' /\ AnswersCoverCursor'
    BY DEF CommittedJournal, OneRowPerEvent, AnswersCoverCursor
  <1>2. nextSequence \in Nat /\ nextSequence' >= nextSequence
    OBVIOUS
  <1>3. nextSequence' > 0 /\ (\A x \in rows' : x.sequence < nextSequence')
    BY <1>2 DEF CommittedJournal, StoredEvent
  <1>4. \A a \in answers' : a.to < nextSequence'
    BY <1>2 DEF CommittedJournal, Answer
  <1> QED
    BY <1>1, <1>3, <1>4 DEF CommittedJournal

\* The same steps keep what another transaction has open.
LEMMA OpenKept ==
    ASSUME TypeInv, NEW q \in Relays, OpenJournal(q),
           txn'[q] = txn[q], rows' \subseteq rows, answers' = answers,
           nextSequence' \in {nextSequence, nextSequence + 1},
           lock = q => lock' = q
    PROVE  OpenJournal(q)'
  <1> SUFFICES ASSUME txn[q] # NoTxn PROVE OpenJournal(q)'
    BY DEF OpenJournal
  <1>1. txn[q] \in Txn
    BY DEF TypeInv, TxnInv
  <1>2. nextSequence \in Nat /\ nextSequence' >= nextSequence
    BY DEF TypeInv, TypeOK
  <1>3. (InsideLock(q) => lock = q)' /\ (~In(q, "store") => txn[q].added = {})'
    BY DEF OpenJournal, InsideLock, In
  <1>4. (txn[q].request.cursor < nextSequence)'
    BY <1>1, <1>2 DEF OpenJournal, Txn, Request
  <1>5. LiveRows(q)' \subseteq LiveRows(q)
    BY DEF LiveRows, Expired
  <1>6. ASSUME NEW x \in txn[q].added
        PROVE  /\ x.sequence < nextSequence'
               /\ \A y \in rows' : y.sequence < x.sequence
               /\ \A a \in answers' : a.to < x.sequence
               /\ x.event.id \notin IdsOf(EventsIn(LiveRows(q)'))
    <2>1. x \in StoredEvent
      BY <1>1 DEF Txn
    <2>2. /\ x.sequence < nextSequence
          /\ \A y \in rows : y.sequence < x.sequence
          /\ \A a \in answers : a.to < x.sequence
          /\ x.event.id \notin IdsOf(EventsIn(LiveRows(q)))
      BY DEF OpenJournal, Inserted
    <2>3. x.sequence < nextSequence'
      BY <1>2, <2>1, <2>2 DEF StoredEvent
    <2>4. x.event.id \notin IdsOf(EventsIn(LiveRows(q)'))
      BY <1>5, <2>2 DEF IdsOf, EventsIn
    <2> QED
      BY <2>2, <2>3, <2>4
  <1>7. Inserted(q)'
    BY <1>6 DEF OpenJournal, Inserted
  <1> QED
    BY <1>3, <1>4, <1>7 DEF OpenJournal

LEMMA RollbackJournal ==
    ASSUME TypeInv, JournalInv, NEW r \in Relays, Rollback(r)
    PROVE  JournalInv'
  <1>1. CommittedJournal'
    BY CommittedKept DEF Rollback, JournalInv, db
  <1>2. ASSUME NEW q \in Relays PROVE OpenJournal(q)'
    <2>1. CASE q = r
      BY <2>1 DEF Rollback, OpenJournal, TypeInv, TypeOK
    <2>2. CASE q # r
      <3>1. txn'[q] = txn[q] /\ (lock = q => lock' = q)
        BY <2>2 DEF Rollback, TypeInv, TypeOK
      <3> QED
        BY <3>1, OpenKept DEF Rollback, JournalInv, db
    <2> QED
      BY <2>1, <2>2
  <1> QED
    BY <1>1, <1>2 DEF JournalInv

\* A step of r that commits nothing: what remains is r's own transaction.
LEMMA OnlyOwnTransaction ==
    ASSUME TypeInv, JournalInv, NEW r \in Relays, NEW t,
           txn' = [txn EXCEPT ![r] = t], rows' \subseteq rows,
           answers' = answers,
           nextSequence' \in {nextSequence, nextSequence + 1},
           lock' = lock \/ (lock = Nobody /\ lock' = r) \/ lock = r,
           OpenJournal(r)'
    PROVE  JournalInv'
  <1>1. CommittedJournal'
    BY CommittedKept DEF JournalInv
  <1>2. ASSUME NEW q \in Relays, q # r PROVE OpenJournal(q)'
    <2>1. txn'[q] = txn[q] /\ (lock = q => lock' = q)
      BY <1>2, NamesAssumption DEF TypeInv, TypeOK
    <2> QED
      BY <2>1, OpenKept DEF JournalInv
  <1> QED
    BY <1>1, <1>2 DEF JournalInv

LEMMA BeginJournal ==
    ASSUME TypeInv, JournalInv, NEW r \in Relays, NEW request \in Request,
           request.cursor < nextSequence, BeginSync(r, request)
    PROVE  JournalInv'
  <1> DEFINE t == [pc |-> IF voyage = NoVoyage THEN "claim" ELSE "lock",
                   at |-> now, request |-> request,
                   mine |-> voyage, loaded |-> voyage, dirty |-> {},
                   added |-> {}, step |-> 1]
  <1>1. txn' = [txn EXCEPT ![r] = t] /\ txn'[r] = t
    BY DEF BeginSync, TypeInv, TypeOK
  <1>2. /\ t.pc \in {"claim", "lock"} /\ t.added = {}
        /\ t.request = request
    OBVIOUS
  <1>3. UNCHANGED <<rows, answers, nextSequence, lock>>
    BY DEF BeginSync, db
  <1> HIDE DEF t
  <1>4. OpenJournal(r)'
    BY <1>1, <1>2, <1>3 DEF OpenJournal, InsideLock, In, Inserted
  <1> QED
    BY <1>1, <1>3, <1>4, OnlyOwnTransaction

LEMMA ClaimJournal ==
    ASSUME TypeInv, JournalInv, NEW r \in Relays, ClaimVoyage(r)
    PROVE  JournalInv'
  <1> DEFINE claimed == [count |-> 0, endedAt |-> None,
                         deleteAfter |-> txn[r].at + VoyageRetention,
                         lastSeen |-> txn[r].at]
             row == IF voyage = NoVoyage THEN claimed ELSE voyage
             t == [txn[r] EXCEPT !.pc = "lock", !.mine = row, !.loaded = row]
  <1>1. txn[r] # NoTxn /\ txn[r] \in Txn /\ txn[r].pc = "claim"
    BY DEF ClaimVoyage, In, TypeInv, TxnInv
  <1>2. txn' = [txn EXCEPT ![r] = t] /\ txn'[r] = t
    BY DEF ClaimVoyage, TypeInv, TypeOK
  <1>3. t.pc = "lock" /\ t.added = txn[r].added /\ t.request = txn[r].request
    BY <1>1 DEF Txn
  <1>4. /\ lock' = lock \/ (lock = Nobody /\ lock' = r)
        /\ UNCHANGED <<rows, answers, nextSequence>>
    BY DEF ClaimVoyage, db
  <1>5. txn[r].added = {} /\ txn[r].request.cursor < nextSequence
    BY <1>1 DEF JournalInv, OpenJournal, In
  <1> HIDE DEF t
  <1>6. OpenJournal(r)'
    BY <1>2, <1>3, <1>4, <1>5 DEF OpenJournal, InsideLock, In, Inserted
  <1> QED
    BY <1>2, <1>4, <1>6, OnlyOwnTransaction

LEMMA PurgeJournal ==
    ASSUME TypeInv, JournalInv, NEW r \in Relays,
           NEW pc \in {"store", "replay"}, Locks(r), Purge(r, pc)
    PROVE  JournalInv'
  <1> DEFINE row == [txn[r].mine EXCEPT !.count =
                       Less(txn[r].mine.count,
                            Cardinality(Expired(rows, txn[r].at)))]
             dirty == IF row = txn[r].mine THEN {} ELSE {"count"}
             t == [txn[r] EXCEPT !.pc = pc, !.mine = row, !.loaded = row,
                                 !.dirty = dirty]
  <1>1. txn[r] # NoTxn /\ txn[r] \in Txn /\ txn[r].pc = "lock"
    BY DEF Locks, In, TypeInv, TxnInv
  <1>2. txn' = [txn EXCEPT ![r] = t] /\ txn'[r] = t
    BY DEF Purge, TypeInv, TypeOK
  <1> HIDE DEF row, dirty
  <1>3. t.added = txn[r].added /\ t.request = txn[r].request
    BY <1>1 DEF Txn
  <1> HIDE DEF t
  <1>4. /\ lock' = r /\ lock \in {Nobody, r}
        /\ UNCHANGED <<rows, answers, nextSequence>>
    BY DEF Purge, Locks, db
  <1>5. txn[r].added = {} /\ txn[r].request.cursor < nextSequence
    BY <1>1 DEF JournalInv, OpenJournal, In
  <1>6. OpenJournal(r)'
    BY <1>2, <1>3, <1>4, <1>5 DEF OpenJournal, InsideLock, In, Inserted
  <1> QED
    BY <1>2, <1>4, <1>6, OnlyOwnTransaction

LEMMA SkipJournal ==
    ASSUME TypeInv, JournalInv, NEW r \in Relays, SkipEvent(r)
    PROVE  JournalInv'
  <1> DEFINE t == [txn[r] EXCEPT !.step = @ + 1]
  <1>1. txn[r] # NoTxn /\ txn[r] \in Txn /\ txn[r].pc = "store"
    BY DEF SkipEvent, Storing, In, TypeInv, TxnInv
  <1>2. txn' = [txn EXCEPT ![r] = t] /\ txn'[r] = t
    BY DEF SkipEvent, TypeInv, TypeOK
  <1>3. /\ t.added = txn[r].added /\ t.request = txn[r].request
        /\ t.pc = txn[r].pc /\ t.step = txn[r].step + 1 /\ t.at = txn[r].at
    BY <1>1 DEF Txn
  <1>4. UNCHANGED <<rows, answers, nextSequence, lock>>
    BY DEF SkipEvent, db
  <1>5. OpenJournal(r)
    BY DEF JournalInv
  <1> HIDE DEF t
  <1>6. LiveRows(r)' = LiveRows(r)
    BY <1>2, <1>3, <1>4 DEF LiveRows
  <1>7. ASSUME NEW x \in txn[r].added
        PROVE  \E i \in DOMAIN txn[r].request.batch :
                 /\ i < txn[r].step + 1
                 /\ txn[r].request.batch[i] = x.event
    <2>1. PICK i \in DOMAIN txn[r].request.batch :
                 i < txn[r].step /\ txn[r].request.batch[i] = x.event
      BY <1>1, <1>5 DEF OpenJournal, Inserted
    <2>2. txn[r].request.batch \in Seq(Event) /\ txn[r].step \in Nat
      BY <1>1, BatchesAssumption DEF Txn, Request
    <2>3. i < txn[r].step + 1
      BY <2>1, <2>2
    <2> QED
      BY <2>1, <2>3
  <1>8. Inserted(r)'
    BY <1>1, <1>2, <1>3, <1>4, <1>5, <1>6, <1>7 DEF OpenJournal, Inserted
  <1>9. OpenJournal(r)'
    BY <1>1, <1>2, <1>3, <1>4, <1>5, <1>8 DEF OpenJournal, InsideLock, In
  <1> QED
    BY <1>2, <1>4, <1>9, OnlyOwnTransaction

LEMMA StoreJournal ==
    ASSUME TypeInv, JournalInv, NEW r \in Relays, StoreEvent(r)
    PROVE  JournalInv'
  <1> DEFINE e == CurrentEvent(r)
             row == [txn[r].mine EXCEPT !.count = @ + 1]
             new == [sequence |-> nextSequence, event |-> e,
                     expires |-> KeptUntil(r)]
             mine == AfterLifecycle(row, e.type, txn[r].at)
             t == [txn[r] EXCEPT !.added = @ \cup {new}, !.mine = mine,
                                 !.step = @ + 1]
             batch == txn[r].request.batch
  <1>1. txn[r] # NoTxn /\ txn[r] \in Txn /\ txn[r].pc = "store"
    BY DEF StoreEvent, Storing, In, TypeInv, TxnInv
  <1>2. txn' = [txn EXCEPT ![r] = t] /\ txn'[r] = t
    BY DEF StoreEvent, TypeInv, TypeOK
  <1>3. /\ nextSequence' = nextSequence + 1
        /\ UNCHANGED <<rows, answers, lock>>
    BY DEF StoreEvent, db
  <1>4. /\ e \in Event /\ e.id \notin IdsOf(EventsIn(LiveRows(r)))
        /\ e = batch[txn[r].step] /\ txn[r].step <= Len(batch)
    BY CurrentEventType DEF StoreEvent, Stores, Storing, CurrentEvent
  <1>5. /\ batch \in Seq(Event) /\ txn[r].step \in Nat \ {0}
        /\ \A i, j \in DOMAIN batch : batch[i].id = batch[j].id => i = j
    BY <1>1, BatchesAssumption DEF Txn, Request
  <1>6. txn[r].step \in DOMAIN batch
    BY <1>4, <1>5
  <1>7. OpenJournal(r) /\ CommittedJournal
    BY DEF JournalInv
  <1>8. Inserted(r)
    BY <1>1, <1>7 DEF OpenJournal
  <1>9. /\ new.sequence = nextSequence /\ new.event = e
        /\ nextSequence \in Nat
    BY DEF TypeInv, TypeOK
  <1> HIDE DEF e, row, new, mine
  <1>10. /\ t.added = txn[r].added \cup {new}
         /\ t.request = txn[r].request /\ t.at = txn[r].at
         /\ t.pc = txn[r].pc /\ t.step = txn[r].step + 1
    BY <1>1 DEF Txn
  <1> HIDE DEF t
  <1>11. LiveRows(r)' = LiveRows(r)
    BY <1>2, <1>3, <1>10 DEF LiveRows
  <1>12. ASSUME NEW x \in txn[r].added
         PROVE  /\ x.sequence < nextSequence + 1
                /\ x.sequence # nextSequence
                /\ x.event.id # e.id
                /\ \E i \in DOMAIN batch :
                      i < txn[r].step + 1 /\ batch[i] = x.event
    <2>1. x.sequence \in Nat /\ x.sequence < nextSequence
      BY <1>1, <1>8 DEF Inserted, Txn, StoredEvent
    <2>2. PICK i \in DOMAIN batch : i < txn[r].step /\ batch[i] = x.event
      BY <1>8 DEF Inserted
    <2>3. i \in Nat /\ i # txn[r].step /\ i < txn[r].step + 1
      BY <1>5, <2>2
    <2>4. x.event.id # e.id
      BY <1>4, <1>5, <1>6, <2>2, <2>3
    <2> HIDE DEF batch
    <2> QED
      BY <1>9, <2>1, <2>2, <2>3, <2>4
  <1>13. /\ 0 < nextSequence /\ nextSequence < nextSequence + 1
         /\ \A y \in rows : y.sequence < nextSequence
         /\ \A a \in answers : a.to < nextSequence
         /\ \E i \in DOMAIN batch : i < txn[r].step + 1 /\ batch[i] = e
    <2>1. txn[r].step < txn[r].step + 1
      BY <1>5
    <2> QED
      BY <1>4, <1>6, <1>7, <1>9, <2>1 DEF CommittedJournal
  <1>14. Inserted(r)'
    <2> SUFFICES ASSUME NEW x \in txn[r].added \cup {new}
        PROVE  /\ 0 < x.sequence /\ x.sequence < nextSequence + 1
               /\ \A y \in rows : y.sequence < x.sequence
               /\ \A a \in answers : a.to < x.sequence
               /\ x.event.id \notin IdsOf(EventsIn(LiveRows(r)))
               /\ \E i \in DOMAIN batch :
                     i < txn[r].step + 1 /\ batch[i] = x.event
               /\ \A y \in txn[r].added \cup {new} :
                     x.event.id = y.event.id \/ x.sequence = y.sequence
                       => x = y
      BY <1>2, <1>3, <1>10, <1>11 DEF Inserted
    <2>1. CASE x = new
      BY <2>1, <1>4, <1>9, <1>12, <1>13
    <2>2. CASE x \in txn[r].added
      BY <2>2, <1>8, <1>9, <1>12 DEF Inserted
    <2> QED
      BY <2>1, <2>2
  <1>15. (txn[r].request.cursor < nextSequence)'
    <2>1. txn[r].request.cursor \in Nat /\ txn[r].request.cursor < nextSequence
      BY <1>1, <1>7 DEF OpenJournal, Txn, Request
    <2> QED
      BY <1>2, <1>3, <1>9, <1>10, <2>1
  <1>16. OpenJournal(r)'
    BY <1>1, <1>2, <1>3, <1>7, <1>10, <1>14, <1>15
       DEF OpenJournal, InsideLock, In
  <1> QED
    BY <1>2, <1>3, <1>16, OnlyOwnTransaction

\* The page of a response leaves nothing out below the new cursor.
LEMMA PageCovers ==
    ASSUME NEW available, available \subseteq StoredEvent,
           NEW page \in SUBSET available, NEW from \in Nat, NEW to \in Nat,
           IsPage(page, available), NextCursor(page, from, to),
           \A x, y \in available : x.sequence = y.sequence => x = y,
           NEW x \in available, from < x.sequence, x.sequence <= to
    PROVE  x \in page
  <1>1. x.sequence \in Nat
    BY DEF StoredEvent
  <1>2. PICK y \in page : to = y.sequence
    BY <1>1 DEF NextCursor
  <1>3. y \in available /\ y.sequence \in Nat
    BY DEF StoredEvent
  <1>4. CASE x.sequence = y.sequence
    BY <1>3, <1>4, <1>2
  <1>5. CASE x.sequence < y.sequence
    BY <1>5 DEF IsPage
  <1> QED
    BY <1>1, <1>2, <1>3, <1>4, <1>5

LEMMA FinishJournal ==
    ASSUME TypeInv, JournalInv, NEW r \in Relays, NEW accepted \in SUBSET STRING,
           InsideLock(r), Finish(r, accepted)
    PROVE  JournalInv'
  <1> DEFINE t == txn[r]
             visible == LiveRows(r) \cup t.added
             available == {x \in visible : x.sequence > t.request.cursor}
  <1>1. t # NoTxn /\ t \in Txn /\ lock = r
    BY DEF InsideLock, In, TypeInv, TxnInv, JournalInv, OpenJournal
  <1>2. PICK page \in SUBSET available, to \in 0..nextSequence :
          /\ IsPage(page, available)
          /\ NextCursor(page, t.request.cursor, to)
          /\ answers' = answers \cup
                 {[device |-> t.request.device, from |-> t.request.cursor,
                   to |-> to, events |-> IdsOf(EventsIn(page)),
                   accepted |-> accepted]}
    BY DEF Finish
  <1>3. /\ rows' = visible /\ nextSequence' = nextSequence /\ lock' = Nobody
        /\ txn' = [txn EXCEPT ![r] = NoTxn]
    BY DEF Finish
  <1>4. /\ CommittedJournal /\ OpenJournal(r) /\ Inserted(r)
        /\ t.request.cursor < nextSequence
    BY <1>1 DEF JournalInv, OpenJournal
  <1>5. /\ LiveRows(r) \subseteq rows /\ rows \subseteq StoredEvent
        /\ t.added \subseteq StoredEvent
        /\ t.request.cursor \in Nat /\ to \in Nat /\ nextSequence \in Nat
    BY <1>1 DEF LiveRows, TypeInv, TypeOK, Txn, Request
  <1>6. \A x \in visible : x.sequence < nextSequence
    BY <1>4, <1>5 DEF Inserted, CommittedJournal
  <1>7. \A x, y \in visible :
          x.event.id = y.event.id \/ x.sequence = y.sequence => x = y
    <2>1. ASSUME NEW x \in LiveRows(r), NEW y \in t.added
          PROVE  x.event.id # y.event.id /\ x.sequence # y.sequence
      <3>1. x.event.id # y.event.id
        BY <1>4 DEF Inserted, IdsOf, EventsIn
      <3>2. x.sequence < y.sequence /\ x.sequence \in Nat /\ y.sequence \in Nat
        BY <1>4, <1>5 DEF Inserted, StoredEvent
      <3> QED
        BY <3>1, <3>2
    <2>2. ASSUME NEW x \in LiveRows(r), NEW y \in LiveRows(r)
          PROVE  x.event.id = y.event.id \/ x.sequence = y.sequence => x = y
      BY <1>4, <1>5 DEF CommittedJournal, OneRowPerEvent
    <2>3. ASSUME NEW x \in t.added, NEW y \in t.added
          PROVE  x.event.id = y.event.id \/ x.sequence = y.sequence => x = y
      BY <1>4 DEF Inserted
    <2> QED
      BY <2>1, <2>2, <2>3
  <1>8. to < nextSequence
    <2>1. CASE to = t.request.cursor
      BY <2>1, <1>4
    <2>2. CASE \E x \in page : to = x.sequence
      BY <2>2, <1>6
    <2> QED
      BY <1>2, <2>1, <2>2 DEF NextCursor
  <1>9. ASSUME NEW a \in answers', NEW x \in rows',
               a.from < x.sequence, x.sequence <= a.to
        PROVE  x.event.id \in a.events
    <2>1. CASE a \in answers
      <3>1. x \in LiveRows(r)
        <4>1. a.to \in Nat /\ x.sequence \in Nat
          BY <2>1, <1>3, <1>5, <1>9 DEF TypeInv, TypeOK, Answer, StoredEvent
        <4>2. ASSUME x \in t.added PROVE FALSE
          BY <4>1, <4>2, <2>1, <1>4, <1>9 DEF Inserted
        <4> QED
          BY <4>2, <1>3
      <3> QED
        BY <3>1, <2>1, <1>4, <1>5, <1>9
           DEF CommittedJournal, AnswersCoverCursor
    <2>2. CASE a \notin answers
      <3>1. /\ a.from = t.request.cursor /\ a.to = to
            /\ a.events = IdsOf(EventsIn(page))
        BY <2>2, <1>2
      <3>2. x \in available /\ available \subseteq StoredEvent
        <4>1. x \in visible /\ visible \subseteq StoredEvent
          BY <1>3, <1>5
        <4>2. x.sequence > t.request.cursor
          BY <4>1, <3>1, <1>5, <1>9 DEF StoredEvent
        <4> QED
          BY <4>1, <4>2
      <3>3. x \in page
        <4>1. \A y, z \in available : y.sequence = z.sequence => y = z
          BY <1>7
        <4> HIDE DEF available
        <4> QED
          BY <4>1, <3>1, <3>2, <1>2, <1>5, <1>9, PageCovers
      <3> QED
        BY <3>1, <3>3 DEF IdsOf, EventsIn
    <2> QED
      BY <2>1, <2>2
  <1>10. CommittedJournal'
    <2>1. OneRowPerEvent'
      BY <1>3, <1>7 DEF OneRowPerEvent
    <2>2. AnswersCoverCursor'
      BY <1>9 DEF AnswersCoverCursor
    <2>3. (\A a \in answers : a.to < nextSequence)'
      BY <1>2, <1>3, <1>4, <1>8 DEF CommittedJournal
    <2>4. /\ nextSequence' > 0
          /\ (\A x \in rows : x.sequence < nextSequence)'
          /\ (\A x, y \in rows : x.sequence = y.sequence => x = y)'
      BY <1>3, <1>4, <1>6, <1>7 DEF CommittedJournal
    <2> QED
      BY <2>1, <2>2, <2>3, <2>4 DEF CommittedJournal
  <1>11. ASSUME NEW q \in Relays PROVE OpenJournal(q)'
    <2>1. CASE q = r
      BY <2>1, <1>3 DEF OpenJournal, TypeInv, TypeOK
    <2>2. CASE q # r
      <3>1. txn'[q] = txn[q]
        BY <2>2, <1>3 DEF TypeInv, TypeOK
      <3>2. txn[q] # NoTxn => /\ ~InsideLock(q) /\ txn[q].added = {}
                              /\ txn[q].request.cursor < nextSequence
        BY <2>2, <1>1 DEF JournalInv, OpenJournal, InsideLock
      <3> QED
        BY <3>1, <3>2, <1>3 DEF OpenJournal, InsideLock, In, Inserted
    <2> QED
      BY <2>1, <2>2
  <1> QED
    BY <1>10, <1>11 DEF JournalInv

\* A device sends 0 or the cursor of an answer: a sequence already taken.
LEMMA ReceiveJournal ==
    ASSUME TypeInv, JournalInv, NEW r \in Relays, Receive(r)
    PROVE  JournalInv'
  <1>1. PICK device \in Sailors, batch \in Batches :
          \E cursor \in KnownCursors(device) :
            BeginSync(r, [device |-> device, cursor |-> cursor,
                          batch |-> batch])
    BY DEF Receive
  <1>2. PICK cursor \in KnownCursors(device) :
          BeginSync(r, [device |-> device, cursor |-> cursor,
                        batch |-> batch])
    BY <1>1
  <1>3. cursor \in Nat
    BY DEF KnownCursors, TypeInv, TypeOK, Answer
  <1>4. cursor < nextSequence
    BY DEF KnownCursors, JournalInv, CommittedJournal
  <1> QED
    BY <1>2, <1>3, <1>4, BeginJournal DEF Request

LEMMA WorkJournal ==
    ASSUME TypeInv, JournalInv, NEW r \in Relays, Work(r)
    PROVE  JournalInv'
  <1>1. CASE ClaimVoyage(r)
    BY <1>1, ClaimJournal
  <1>2. CASE \/ VoyageVanished(r) \/ Conflict(r)
             \/ EventQuota(r) \/ ReplayQuota(r)
    BY <1>2, RollbackJournal
       DEF VoyageVanished, Conflict, EventQuota, ReplayQuota
  <1>3. CASE EnterReplay(r) \/ EnterStore(r)
    BY <1>3, PurgeJournal DEF EnterReplay, EnterStore
  <1>4. CASE SkipEvent(r)
    BY <1>4, SkipJournal
  <1>5. CASE StoreEvent(r)
    BY <1>5, StoreJournal
  <1>6. CASE FinishReplay(r)
    <2>1. PICK p \in EarlierAnswers(r) : Finish(r, p.accepted)
      BY <1>6 DEF FinishReplay
    <2>2. p.accepted \in SUBSET STRING
      BY DEF EarlierAnswers, LiveReplays, TypeInv, TypeOK, Replay
    <2>3. InsideLock(r)
      BY <1>6 DEF FinishReplay, InsideLock
    <2> QED
      BY <2>1, <2>2, <2>3, FinishJournal
  <1>7. CASE FinishStore(r)
    <2> DEFINE accepted == IdsOf(RangeOf(txn[r].request.batch))
    <2>1. InsideLock(r) /\ Finish(r, accepted)
      BY <1>7 DEF FinishStore, Stored, InsideLock
    <2>2. accepted \in SUBSET STRING
      BY <2>1, AcceptedType DEF InsideLock
    <2> QED
      BY <2>1, <2>2, FinishJournal
  <1> QED
    BY <1>1, <1>2, <1>3, <1>4, <1>5, <1>6, <1>7 DEF Work

\* Nobody else writes the journal: the clean-up removes rows, the rest none.
LEMMA OthersJournal ==
    ASSUME TypeInv, JournalInv,
           \/ PresenceEnded \/ ReadPositions
           \/ \E s \in Sailors : SharePosition(s) \/ ClearPosition(s)
           \/ Cleanup \/ Tick \/ UNCHANGED vars
    PROVE  JournalInv'
  <1> SUFFICES /\ rows' \subseteq rows
               /\ UNCHANGED <<answers, nextSequence, txn>>
               /\ \A q \in Relays : lock = q => lock' = q
    BY CommittedKept, OpenKept DEF JournalInv
  <1>1. CASE \/ PresenceEnded \/ ReadPositions
             \/ \E s \in Sailors : SharePosition(s) \/ ClearPosition(s)
    BY <1>1 DEF PresenceEnded, ReadPositions, SharePosition, ClearPosition,
                Presence
  <1>2. CASE CleanupCount
    BY <1>2 DEF CleanupCount, db
  <1>3. CASE CleanupLock
    BY <1>3, NamesAssumption DEF CleanupLock, db
  <1>4. CASE CleanupDelete
    BY <1>4, NamesAssumption DEF CleanupDelete
  <1>5. CASE CleanupCrash
    BY <1>5, NamesAssumption DEF CleanupCrash, db
  <1>6. CASE Tick \/ UNCHANGED vars
    BY <1>6 DEF Tick, vars, db
  <1> QED
    BY <1>1, <1>2, <1>3, <1>4, <1>5, <1>6 DEF Cleanup

LEMMA JournalInit == Init => JournalInv
  BY DEF Init, JournalInv, CommittedJournal, OpenJournal, OneRowPerEvent,
         AnswersCoverCursor

LEMMA JournalStep == TypeInv /\ JournalInv /\ [Next]_vars => JournalInv'
  <1> SUFFICES ASSUME TypeInv, JournalInv, [Next]_vars PROVE JournalInv'
    OBVIOUS
  <1>1. ASSUME NEW r \in Relays, Receive(r) \/ Work(r) \/ Crash(r)
        PROVE  JournalInv'
    BY <1>1, ReceiveJournal, WorkJournal, RollbackJournal DEF Crash
  <1>2. CASE \/ PresenceEnded \/ ReadPositions
             \/ \E s \in Sailors : SharePosition(s) \/ ClearPosition(s)
             \/ Cleanup \/ Tick \/ UNCHANGED vars
    BY <1>2, OthersJournal
  <1> QED
    BY <1>1, <1>2 DEF Next

LEMMA JournalAlways == Spec => []JournalInv
  <1>1. Spec => []TypeInv
    BY TypeInit, TypeStep, PTL DEF Spec
  <1> QED
    BY <1>1, JournalInit, JournalStep, PTL DEF Spec

\* However many workers, retries and crashes interleave, an event has at most
\* one row: the voyage's lock spans the look-up and the insert, and a device
\* gives every event of one upload an identity of its own.
THEOREM OneRowPerEventAlways == Spec => []OneRowPerEvent
  <1>1. JournalInv => OneRowPerEvent
    BY DEF JournalInv, CommittedJournal
  <1> QED
    BY JournalAlways, <1>1, PTL

\* However many workers take sequence numbers, crash and leave gaps, the
\* cursor of an answer never runs past an event that the answer left out and
\* the store still holds: numbers are taken under the voyage's lock, so they
\* are committed in their order.
THEOREM AnswersCoverCursorAlways == Spec => []AnswersCoverCursor
  <1>1. JournalInv => AnswersCoverCursor
    BY DEF JournalInv, CommittedJournal
  <1> QED
    BY JournalAlways, <1>1, PTL

----------------------------------------------------------------------------
(* The abstract journal *)

\* What a step that takes no new row and sends no answer is in the abstract.
LEMMA QuietStep ==
    ASSUME rows' \subseteq rows, answers' = answers
    PROVE  Journal!Next
  BY DEF Journal!Next, Journal!Forget

\* A transaction that commits is one abstract synchronisation.
LEMMA FinishImplements ==
    ASSUME TypeInv, JournalInv, NEW r \in Relays, NEW accepted \in SUBSET STRING,
           InsideLock(r), Finish(r, accepted)
    PROVE  Journal!Next
  <1> DEFINE t == txn[r]
             visible == LiveRows(r) \cup t.added
             available == {x \in visible : x.sequence > t.request.cursor}
  <1>1. t # NoTxn /\ t \in Txn
    BY DEF InsideLock, In, TypeInv, TxnInv
  <1>2. PICK page \in SUBSET available, to \in 0..nextSequence :
          answers' = answers \cup
                 {[device |-> t.request.device, from |-> t.request.cursor,
                   to |-> to, events |-> IdsOf(EventsIn(page)),
                   accepted |-> accepted]}
    BY DEF Finish
  <1> DEFINE a == [device |-> t.request.device, from |-> t.request.cursor,
                   to |-> to, events |-> IdsOf(EventsIn(page)),
                   accepted |-> accepted]
             kept == rows \cap rows'
             new == rows' \ rows
  <1>3. rows' = visible /\ kept \cup new = rows' /\ kept \subseteq rows
    BY DEF Finish
  <1>4. a \in answers' /\ answers' = answers \cup {a}
    BY <1>2
  <1>5. JournalInv'
    BY FinishJournal
  <1>6. Journal!OneRowEach(kept \cup new)
    BY <1>3, <1>5
       DEF JournalInv, CommittedJournal, OneRowPerEvent, Journal!OneRowEach
  <1>7. Journal!Covers(a, kept \cup new)
    BY <1>3, <1>4, <1>5
       DEF JournalInv, CommittedJournal, AnswersCoverCursor, Journal!Covers
  <1>8. Journal!Follows(new, kept)
    <2>1. Inserted(r) /\ new \subseteq t.added
      BY <1>1, <1>3 DEF JournalInv, OpenJournal, LiveRows
    <2> QED
      BY <2>1 DEF Inserted, Journal!Follows
  <1>9. Journal!Sync(kept, new, a)
    BY <1>3, <1>4, <1>6, <1>7, <1>8 DEF Journal!Sync
  <1> HIDE DEF a
  <1> QED
    BY <1>4, <1>9 DEF Journal!Next

LEMMA WorkImplements ==
    ASSUME TypeInv, JournalInv, NEW r \in Relays, Work(r)
    PROVE  Journal!Next
  <1>1. CASE ClaimVoyage(r) \/ SkipEvent(r) \/ StoreEvent(r)
    BY <1>1, QuietStep DEF ClaimVoyage, SkipEvent, StoreEvent, db
  <1>2. CASE \/ VoyageVanished(r) \/ Conflict(r)
             \/ EventQuota(r) \/ ReplayQuota(r)
    BY <1>2, QuietStep
       DEF VoyageVanished, Conflict, EventQuota, ReplayQuota, Rollback, db
  <1>3. CASE EnterReplay(r) \/ EnterStore(r)
    BY <1>3, QuietStep DEF EnterReplay, EnterStore, Purge, db
  <1>4. CASE FinishReplay(r)
    <2>1. PICK p \in EarlierAnswers(r) : Finish(r, p.accepted)
      BY <1>4 DEF FinishReplay
    <2>2. p.accepted \in SUBSET STRING
      BY DEF EarlierAnswers, LiveReplays, TypeInv, TypeOK, Replay
    <2>3. InsideLock(r)
      BY <1>4 DEF FinishReplay, InsideLock
    <2> QED
      BY <2>1, <2>2, <2>3, FinishImplements
  <1>5. CASE FinishStore(r)
    <2> DEFINE accepted == IdsOf(RangeOf(txn[r].request.batch))
    <2>1. InsideLock(r) /\ Finish(r, accepted)
      BY <1>5 DEF FinishStore, Stored, InsideLock
    <2>2. accepted \in SUBSET STRING
      BY <2>1, AcceptedType DEF InsideLock
    <2> QED
      BY <2>1, <2>2, FinishImplements
  <1> QED
    BY <1>1, <1>2, <1>3, <1>4, <1>5 DEF Work

LEMMA StepImplements ==
    TypeInv /\ JournalInv /\ [Next]_vars
      => [Journal!Next]_<<rows, answers>>
  <1> SUFFICES ASSUME TypeInv, JournalInv, [Next]_vars
      PROVE  [Journal!Next]_<<rows, answers>>
    OBVIOUS
  <1>1. ASSUME NEW r \in Relays, Receive(r) \/ Work(r) \/ Crash(r)
        PROVE  Journal!Next
    BY <1>1, WorkImplements, QuietStep
       DEF Receive, BeginSync, Crash, Rollback, db
  <1>2. CASE \/ PresenceEnded \/ ReadPositions
             \/ \E s \in Sailors : SharePosition(s) \/ ClearPosition(s)
    BY <1>2, QuietStep
       DEF PresenceEnded, ReadPositions, SharePosition, ClearPosition, Presence
  <1>3. CASE Cleanup
    BY <1>3, QuietStep
       DEF Cleanup, CleanupCount, CleanupLock, CleanupDelete, CleanupCrash, db
  <1>4. CASE Tick
    BY <1>4 DEF Tick, db
  <1>5. CASE UNCHANGED vars
    BY <1>5 DEF vars
  <1> QED
    BY <1>1, <1>2, <1>3, <1>4, <1>5 DEF Next

\* The relay implements the journal it promises: what its transactions commit
\* is always a step that a journal may take, whatever the workers interleave.
THEOREM RelayImplementsJournal == Spec => ImplementsJournal
  <1>1. Init => Journal!Init
    BY DEF Init, Journal!Init
  <1>2. Spec => []TypeInv
    BY TypeInit, TypeStep, PTL DEF Spec
  <1> QED
    BY <1>1, <1>2, JournalAlways, StepImplements, PTL
       DEF Spec, ImplementsJournal, Journal!Spec
-----------------------------------------------------------------------------
(* What is accepted is stored *)

\* An event of an upload is in the store, or it or its voyage was past its life.
Settled(r, e) ==
    \/ e \in EventsIn(LiveRows(r) \cup txn[r].added)
    \/ e.expires <= txn[r].at
    \/ txn[r].loaded.deleteAfter <= txn[r].at

\* The loop has settled the events behind it.  A voyage found past its deadline
\* stays so for the transaction, and no other comes to be in its course.
AcceptedKnown(r) ==
    /\ In(r, "claim") \/ In(r, "lock") => txn[r].step = 1
    /\ In(r, "store") =>
         /\ ~EventConflict(r)
         /\ txn[r].mine.deleteAfter <= txn[r].at =>
                txn[r].loaded.deleteAfter <= txn[r].at
         /\ \A i \in DOMAIN txn[r].request.batch :
                i < txn[r].step => Settled(r, txn[r].request.batch[i])

AcceptedInv == \A r \in Relays : AcceptedKnown(r)

\* While a transaction is past its purge only its own steps change what it sees.
LEMMA HeldRows ==
    ASSUME TypeInv, JournalInv, [Next]_vars, NEW q \in Relays, InsideLock(q),
           ~Work(q), ~Crash(q)
    PROVE  rows' = rows /\ voyage' = voyage /\ txn'[q] = txn[q]
  <1>1. txn[q] # NoTxn /\ lock = q
    BY DEF InsideLock, In, JournalInv, OpenJournal
  <1>2. ASSUME NEW r \in Relays, Receive(r)
        PROVE  rows' = rows /\ voyage' = voyage /\ txn'[q] = txn[q]
    BY <1>1, <1>2 DEF Receive, BeginSync, db, TypeInv, TypeOK
  <1>3. ASSUME NEW r \in Relays, Rollback(r), r # q
        PROVE  rows' = rows /\ voyage' = voyage /\ txn'[q] = txn[q]
    BY <1>3 DEF Rollback, db, TypeInv, TypeOK
  <1>4. ASSUME NEW r \in Relays, Work(r), r # q
        PROVE  rows' = rows /\ voyage' = voyage /\ txn'[q] = txn[q]
    <2>1. ~InsideLock(r)
      BY <1>1, <1>4 DEF JournalInv, OpenJournal, InsideLock, In
    <2>2. ~(\/ FinishReplay(r) \/ FinishStore(r) \/ SkipEvent(r)
            \/ StoreEvent(r) \/ EventQuota(r) \/ ReplayQuota(r))
      BY <2>1 DEF FinishReplay, FinishStore, SkipEvent, StoreEvent, EventQuota,
                  ReplayQuota, Storing, Stored, InsideLock
    <2>3. CASE VoyageVanished(r) \/ Conflict(r)
      BY <1>3, <1>4, <2>3 DEF VoyageVanished, Conflict
    <2>4. CASE ClaimVoyage(r) \/ EnterReplay(r) \/ EnterStore(r)
      BY <1>4, <2>4 DEF ClaimVoyage, EnterReplay, EnterStore, Purge, db,
                        TypeInv, TypeOK
    <2> QED
      BY <1>4, <2>2, <2>3, <2>4 DEF Work
  <1>5. ~CleanupDelete
    BY <1>1, NamesAssumption DEF CleanupDelete
  <1>6. CASE \/ PresenceEnded \/ ReadPositions
             \/ \E s \in Sailors : SharePosition(s) \/ ClearPosition(s)
             \/ Cleanup \/ Tick \/ UNCHANGED vars
    BY <1>5, <1>6 DEF PresenceEnded, ReadPositions, SharePosition,
                      ClearPosition, Presence, Cleanup, CleanupCount,
                      CleanupLock, CleanupCrash, Tick, vars, db
  <1> QED
    BY <1>2, <1>3, <1>4, <1>6 DEF Next, Crash

\* No change of the lifecycle takes a voyage past its deadline.
LEMMA LifecycleLater ==
    ASSUME NEW row \in VoyageRow, NEW type \in STRING, NEW t \in Nat,
           t < row.deleteAfter
    PROVE  t < AfterLifecycle(row, type, t).deleteAfter
  <1>1. /\ EndedVoyageGrace \in Nat \ {0} /\ VoyageRetention \in Nat \ {0}
        /\ row.deleteAfter \in Nat
    BY RetentionAssumption DEF VoyageRow
  <1>2. CASE type = "voyageEnded" /\ row.endedAt = None
    <2>1. AfterLifecycle(row, type, t) =
            [row EXCEPT !.endedAt = t,
                        !.deleteAfter = Earlier(@, t + EndedVoyageGrace)]
      BY <1>2 DEF AfterLifecycle
    <2>2. AfterLifecycle(row, type, t).deleteAfter
            = Earlier(row.deleteAfter, t + EndedVoyageGrace)
      BY <2>1 DEF VoyageRow
    <2> QED
      BY <1>1, <2>2 DEF Earlier
  <1>3. CASE type = "voyageReopened" /\ row.endedAt # None
    <2>1. AfterLifecycle(row, type, t) =
            [row EXCEPT !.endedAt = None,
                        !.deleteAfter = Later(@, t + VoyageRetention)]
      BY <1>3 DEF AfterLifecycle
    <2>2. AfterLifecycle(row, type, t).deleteAfter
            = Later(row.deleteAfter, t + VoyageRetention)
      BY <2>1 DEF VoyageRow
    <2> QED
      BY <1>1, <2>2 DEF Later
  <1>4. CASE /\ ~(type = "voyageEnded" /\ row.endedAt = None)
             /\ ~(type = "voyageReopened" /\ row.endedAt # None)
    BY <1>4 DEF AfterLifecycle
  <1> QED
    BY <1>2, <1>3, <1>4

\* An event not kept beyond now is past its life, or its voyage is.
LEMMA DeadOnArrival ==
    ASSUME TypeInv, NEW r \in Relays, Storing(r)
    PROVE  /\ CurrentEvent(r) \in RangeOf(txn[r].request.batch)
           /\ KeptUntil(r) > txn[r].at <=>
                /\ CurrentEvent(r).expires > txn[r].at
                /\ txn[r].mine.deleteAfter > txn[r].at
  <1>1. /\ CurrentEvent(r) \in Event /\ txn[r] \in Txn
        /\ txn[r].mine \in VoyageRow
    BY CurrentEventType
  <1>2. MaximumEventRetention(CurrentEvent(r).type) \in Nat \ {0}
    BY RetentionAssumption DEF MaximumEventRetention
  <1>3. /\ txn[r].at \in Nat /\ CurrentEvent(r).expires \in Nat
        /\ txn[r].mine.deleteAfter \in Nat
    BY <1>1 DEF Txn, Event, VoyageRow
  <1>4. txn[r].step \in DOMAIN txn[r].request.batch
    BY <1>1, BatchesAssumption DEF Storing, Txn, Request
  <1> QED
    BY <1>2, <1>3, <1>4 DEF KeptUntil, Earlier, RangeOf, CurrentEvent

LEMMA SkipAccepted ==
    ASSUME TypeInv, NEW r \in Relays, AcceptedKnown(r), SkipEvent(r)
    PROVE  AcceptedKnown(r)'
  <1> DEFINE t == [txn[r] EXCEPT !.step = @ + 1]
             batch == txn[r].request.batch
  <1>1. /\ In(r, "store") /\ txn[r] # NoTxn /\ txn[r].pc = "store"
        /\ txn[r] \in Txn /\ Storing(r)
    BY DEF SkipEvent, Storing, In, TypeInv, TxnInv
  <1>2. /\ t.pc = "store" /\ t.at = txn[r].at /\ t.request = txn[r].request
        /\ t.added = txn[r].added /\ t.mine = txn[r].mine
        /\ t.loaded = txn[r].loaded /\ t.step = txn[r].step + 1
    BY <1>1 DEF Txn
  <1>3. txn'[r] = t /\ rows' = rows
    BY DEF SkipEvent, TypeInv, TypeOK, db
  <1> HIDE DEF t
  <1>4. LiveRows(r)' = LiveRows(r)
    BY <1>2, <1>3 DEF LiveRows
  <1>5. /\ ~EventConflict(r)'
        /\ \A e : Settled(r, e) => Settled(r, e)'
    BY <1>1, <1>2, <1>3, <1>4 DEF AcceptedKnown, EventConflict, Settled
  <1>6. Settled(r, CurrentEvent(r))
    <2>1. CASE CurrentEvent(r).id \in IdsOf(EventsIn(LiveRows(r)))
      <3>1. PICK x \in LiveRows(r) : CurrentEvent(r).id = x.event.id
        BY <2>1 DEF IdsOf, EventsIn
      <3>2. CurrentEvent(r) = x.event
        BY <1>1, <3>1, DeadOnArrival DEF AcceptedKnown, EventConflict
      <3> QED
        BY <3>2 DEF Settled, EventsIn
    <2>2. CASE ~(KeptUntil(r) > txn[r].at)
      <3>1. /\ txn[r].at \in Nat /\ CurrentEvent(r).expires \in Nat
            /\ txn[r].mine.deleteAfter \in Nat
        BY <1>1, CurrentEventType DEF Txn, Event, VoyageRow
      <3>2. \/ CurrentEvent(r).expires <= txn[r].at
            \/ txn[r].mine.deleteAfter <= txn[r].at
        BY <1>1, <2>2, <3>1, DeadOnArrival
      <3> QED
        BY <1>1, <3>2 DEF AcceptedKnown, Settled
    <2> QED
      BY <2>1, <2>2 DEF SkipEvent, Stores
  <1>7. ASSUME NEW i \in DOMAIN batch, i < txn[r].step + 1
        PROVE  Settled(r, batch[i])
    <2>1. i \in Nat /\ txn[r].step \in Nat
      BY <1>1, BatchesAssumption DEF Txn, Request
    <2>2. i < txn[r].step \/ i = txn[r].step
      BY <1>7, <2>1
    <2> QED
      BY <1>1, <1>6, <2>2 DEF AcceptedKnown, CurrentEvent
  <1> QED
    BY <1>1, <1>2, <1>3, <1>5, <1>7 DEF AcceptedKnown, In

LEMMA StoreAccepted ==
    ASSUME TypeInv, NEW r \in Relays, AcceptedKnown(r), StoreEvent(r)
    PROVE  AcceptedKnown(r)'
  <1> DEFINE e == CurrentEvent(r)
             row == [txn[r].mine EXCEPT !.count = @ + 1]
             new == [sequence |-> nextSequence, event |-> e,
                     expires |-> KeptUntil(r)]
             added == txn[r].added \cup {new}
             mine == AfterLifecycle(row, e.type, txn[r].at)
             t == [txn[r] EXCEPT !.added = added, !.mine = mine,
                                 !.step = @ + 1]
             batch == txn[r].request.batch
  <1>1. /\ In(r, "store") /\ txn[r] # NoTxn /\ txn[r].pc = "store"
        /\ txn[r] \in Txn /\ Storing(r) /\ e \in Event
        /\ txn[r].mine \in VoyageRow /\ txn[r].at \in Nat
    BY CurrentEventType DEF StoreEvent, Storing, In, Txn
  <1>2. row \in VoyageRow /\ row.deleteAfter = txn[r].mine.deleteAfter
    BY <1>1 DEF VoyageRow
  <1>3. txn[r].at < row.deleteAfter
    <2>1. txn[r].mine.deleteAfter > txn[r].at
      BY <1>1, DeadOnArrival DEF StoreEvent, Stores
    <2> QED
      BY <1>1, <1>2, <2>1 DEF VoyageRow
  <1>4. ~(mine.deleteAfter <= txn[r].at)
    <2>1. txn[r].at < mine.deleteAfter
      BY <1>1, <1>2, <1>3, LifecycleLater DEF Event
    <2>2. mine.deleteAfter \in Nat
      BY <1>1, <1>2, LifecycleType DEF Event, VoyageRow
    <2> QED
      BY <1>1, <2>1, <2>2
  <1>5. txn'[r] = t /\ rows' = rows
    BY DEF StoreEvent, TypeInv, TypeOK, db
  <1>6. new.event = e /\ new \in added /\ txn[r].added \subseteq added
    OBVIOUS
  <1>7. e = batch[txn[r].step]
    BY DEF CurrentEvent
  <1> HIDE DEF e, row, new, added, mine
  <1>8. /\ t.pc = "store" /\ t.at = txn[r].at /\ t.request = txn[r].request
        /\ t.added = added /\ t.mine = mine
        /\ t.loaded = txn[r].loaded /\ t.step = txn[r].step + 1
    BY <1>1 DEF Txn
  <1> HIDE DEF t
  <1>9. LiveRows(r)' = LiveRows(r)
    BY <1>5, <1>8 DEF LiveRows
  <1>10. ~EventConflict(r)'
    BY <1>1, <1>5, <1>8, <1>9 DEF AcceptedKnown, EventConflict
  <1>11. \A f : Settled(r, f) \/ f = e => Settled(r, f)'
    BY <1>5, <1>6, <1>8, <1>9 DEF Settled, EventsIn
  <1>12. ASSUME NEW i \in DOMAIN batch, i < txn[r].step + 1
         PROVE  Settled(r, batch[i]) \/ batch[i] = e
    <2>1. i \in Nat /\ txn[r].step \in Nat
      BY <1>1, BatchesAssumption DEF Txn, Request
    <2>2. i < txn[r].step \/ i = txn[r].step
      BY <1>12, <2>1
    <2> QED
      BY <1>1, <1>7, <2>2 DEF AcceptedKnown
  <1> QED
    BY <1>1, <1>4, <1>5, <1>8, <1>10, <1>11, <1>12 DEF AcceptedKnown, In

\* The other steps of a transaction: before the loop, and its end.
LEMMA WorkAccepted ==
    ASSUME TypeInv, NEW r \in Relays, AcceptedKnown(r), Work(r)
    PROVE  AcceptedKnown(r)'
  <1>1. CASE ClaimVoyage(r)
    <2> DEFINE claimed == [count |-> 0, endedAt |-> None,
                           deleteAfter |-> txn[r].at + VoyageRetention,
                           lastSeen |-> txn[r].at]
               row == IF voyage = NoVoyage THEN claimed ELSE voyage
    <2>1. txn[r] \in Txn /\ txn[r].step = 1
      BY <1>1 DEF ClaimVoyage, In, TypeInv, TxnInv, AcceptedKnown
    <2>2. txn'[r] = [txn[r] EXCEPT !.pc = "lock", !.mine = row, !.loaded = row]
      BY <1>1 DEF ClaimVoyage, TypeInv, TypeOK
    <2> HIDE DEF row
    <2>3. txn'[r].pc = "lock" /\ txn'[r].step = 1
      BY <2>1, <2>2 DEF Txn
    <2> QED
      BY <2>3 DEF AcceptedKnown, In
  <1>2. ASSUME NEW pc \in {"store", "replay"}, Locks(r), Purge(r, pc),
               pc = "store" => ~EventConflict(r)
        PROVE  AcceptedKnown(r)'
    <2> DEFINE row == [txn[r].mine EXCEPT !.count =
                         Less(txn[r].mine.count,
                              Cardinality(Expired(rows, txn[r].at)))]
               dirty == IF row = txn[r].mine THEN {} ELSE {"count"}
    <2>1. txn[r] \in Txn /\ txn[r].step = 1
      BY <1>2 DEF Locks, In, TypeInv, TxnInv, AcceptedKnown
    <2>2. /\ txn'[r] = [txn[r] EXCEPT !.pc = pc, !.mine = row, !.loaded = row,
                                      !.dirty = dirty]
          /\ rows' = rows
      BY <1>2 DEF Purge, TypeInv, TypeOK, db
    <2> HIDE DEF row, dirty
    <2>3. /\ txn'[r].pc = pc /\ txn'[r].step = 1 /\ txn'[r].at = txn[r].at
          /\ txn'[r].mine = row /\ txn'[r].loaded = row
          /\ txn'[r].request = txn[r].request
      BY <2>1, <2>2 DEF Txn
    <2>4. pc = "store" => ~EventConflict(r)'
      BY <1>2, <2>2, <2>3 DEF EventConflict, LiveRows
    <2>5. \A i \in DOMAIN txn[r].request.batch : ~(i < 1)
      BY <2>1, BatchesAssumption DEF Txn, Request
    <2> QED
      BY <1>2, <2>3, <2>4, <2>5 DEF AcceptedKnown, In
  <1>3. CASE EnterReplay(r) \/ EnterStore(r)
    BY <1>2, <1>3 DEF EnterReplay, EnterStore
  <1>4. CASE \/ VoyageVanished(r) \/ Conflict(r) \/ EventQuota(r)
             \/ ReplayQuota(r) \/ FinishReplay(r) \/ FinishStore(r)
    <2>1. txn' = [txn EXCEPT ![r] = NoTxn]
      BY <1>4 DEF VoyageVanished, Conflict, EventQuota, ReplayQuota, Rollback,
                  FinishReplay, FinishStore, Finish
    <2>2. txn'[r] = NoTxn
      BY <2>1 DEF TypeInv, TypeOK
    <2> QED
      BY <2>2 DEF AcceptedKnown, In
  <1>5. CASE SkipEvent(r) \/ StoreEvent(r)
    BY <1>5, SkipAccepted, StoreAccepted
  <1> QED
    BY <1>1, <1>3, <1>4, <1>5 DEF Work

\* A transaction moves by its own steps only.
LEMMA OtherTransaction ==
    ASSUME TypeInv, [Next]_vars, NEW q \in Relays,
           ~Work(q), ~Crash(q), ~Receive(q)
    PROVE  txn'[q] = txn[q]
  <1>1. ASSUME NEW r \in Relays, r # q, Receive(r) \/ Work(r) \/ Crash(r)
        PROVE  txn'[q] = txn[q]
    <2>1. CASE Receive(r)
      BY <1>1, <2>1 DEF Receive, BeginSync, TypeInv, TypeOK
    <2>2. CASE Crash(r) \/ VoyageVanished(r) \/ Conflict(r) \/ EventQuota(r)
                 \/ ReplayQuota(r)
      <3>1. Rollback(r)
        BY <2>2 DEF Crash, VoyageVanished, Conflict, EventQuota, ReplayQuota
      <3> QED
        BY <1>1, <3>1 DEF Rollback, TypeInv, TypeOK
    <2>3. CASE FinishReplay(r) \/ FinishStore(r)
      <3>1. txn' = [txn EXCEPT ![r] = NoTxn]
        BY <2>3 DEF FinishReplay, FinishStore, Finish
      <3> QED
        BY <1>1, <3>1 DEF TypeInv, TypeOK
    <2>4. CASE ClaimVoyage(r) \/ EnterReplay(r) \/ EnterStore(r)
      BY <1>1, <2>4 DEF ClaimVoyage, EnterReplay, EnterStore, Purge,
                        TypeInv, TypeOK
    <2>5. CASE SkipEvent(r) \/ StoreEvent(r)
      BY <1>1, <2>5 DEF SkipEvent, StoreEvent, TypeInv, TypeOK
    <2> QED
      BY <1>1, <2>1, <2>2, <2>3, <2>4, <2>5 DEF Work
  <1>2. CASE \/ PresenceEnded \/ ReadPositions
             \/ \E s \in Sailors : SharePosition(s) \/ ClearPosition(s)
             \/ Cleanup \/ Tick \/ UNCHANGED vars
    BY <1>2 DEF PresenceEnded, ReadPositions, SharePosition, ClearPosition,
                Presence, Cleanup, CleanupCount, CleanupLock, CleanupDelete,
                CleanupCrash, Tick, vars
  <1> QED
    BY <1>1, <1>2 DEF Next

LEMMA AcceptedStep ==
    ASSUME TypeInv, JournalInv, AcceptedInv, [Next]_vars
    PROVE  AcceptedInv'
  <1> SUFFICES ASSUME NEW q \in Relays PROVE AcceptedKnown(q)'
    BY DEF AcceptedInv
  <1>1. AcceptedKnown(q)
    BY DEF AcceptedInv
  <1>2. CASE Work(q)
    BY <1>1, <1>2, WorkAccepted
  <1>3. CASE Crash(q)
    BY <1>3 DEF Crash, Rollback, AcceptedKnown, In, TypeInv, TypeOK
  <1>4. CASE Receive(q)
    <2>1. txn'[q].pc \in {"claim", "lock"} /\ txn'[q].step = 1
      BY <1>4 DEF Receive, BeginSync, TypeInv, TypeOK
    <2> QED
      BY <2>1 DEF AcceptedKnown, In
  <1>5. CASE ~Work(q) /\ ~Crash(q) /\ ~Receive(q)
    <2>1. txn'[q] = txn[q]
      BY <1>5, OtherTransaction
    <2>2. In(q, "store") => rows' = rows
      BY <1>5, HeldRows DEF InsideLock
    <2> QED
      BY <1>1, <2>1, <2>2 DEF AcceptedKnown, In, EventConflict, Settled, LiveRows
  <1> QED
    BY <1>2, <1>3, <1>4, <1>5

\* For any number of relays, uploads and limits: whatever a stored upload is told
\* was accepted is in the store when it is told, under the event's own body, or
\* was past its life; no look-up, purge, quota, retry or race drops another.
THEOREM AcceptedAlwaysStored == Spec => AcceptedIsStored
  <1>1. Init => AcceptedInv
    BY DEF Init, AcceptedInv, AcceptedKnown, In
  <1>2. TypeInv /\ JournalInv /\ AcceptedInv /\ [Next]_vars => AcceptedInv'
    BY AcceptedStep
  <1>3. TypeInv /\ AcceptedInv /\ [Next]_vars =>
          [\A r \in Relays : FinishStore(r) =>
             \A e \in RangeOf(txn[r].request.batch) :
                \/ e \in EventsIn(rows')
                \/ e.expires <= txn[r].at
                \/ txn[r].loaded.deleteAfter <= txn[r].at]_vars
    <2> SUFFICES ASSUME TypeInv, AcceptedInv, NEW r \in Relays, FinishStore(r),
                        NEW e \in RangeOf(txn[r].request.batch)
                 PROVE  \/ e \in EventsIn(rows')
                        \/ e.expires <= txn[r].at
                        \/ txn[r].loaded.deleteAfter <= txn[r].at
      OBVIOUS
    <2>1. In(r, "store") /\ txn[r].step > Len(txn[r].request.batch)
      BY DEF FinishStore, Stored
    <2>2. txn[r] \in Txn
      BY <2>1 DEF In, TypeInv, TxnInv
    <2>3. PICK i \in DOMAIN txn[r].request.batch : e = txn[r].request.batch[i]
      BY DEF RangeOf
    <2>4. i < txn[r].step
      BY <2>1, <2>2, BatchesAssumption DEF Txn, Request
    <2>5. Settled(r, e)
      BY <2>1, <2>3, <2>4 DEF AcceptedInv, AcceptedKnown
    <2>6. rows' = LiveRows(r) \cup txn[r].added
      BY DEF FinishStore, Finish
    <2> QED
      BY <2>5, <2>6 DEF Settled
  <1> QED
    BY <1>1, <1>2, <1>3, TypeInit, TypeStep, JournalAlways, PTL
       DEF Spec, AcceptedIsStored
=============================================================================
