-------------------------- MODULE RelayVoyageProofs --------------------------
(***************************************************************************)
(* The life of a voyage on the relay: nothing is forgotten early, because  *)
(* a transaction purges by the time it started, which is never ahead of    *)
(* the clock; and, on a relay of one process, the voyage row's deadline    *)
(* and counter are what its events make of them, because whatever the ORM  *)
(* has read before its lock is, but for what a clean-up did, still so.     *)
(***************************************************************************)
EXTENDS RelaySyncProofs, RelayVoyage

-----------------------------------------------------------------------------
(* Nothing is forgotten early *)

\* Every time a transaction works with was read off the clock before.
ClockInv ==
    /\ \A r \in Relays : txn[r] # NoTxn => txn[r].at <= now
    /\ cleaner.at <= now

\* A step that leaves the clock and moves one transaction, which keeps its time.
LEMMA ClockKept ==
    ASSUME TypeInv, ClockInv, NEW r \in Relays, NEW t,
           txn' = [txn EXCEPT ![r] = t],
           t = NoTxn \/ t.at = now \/ (txn[r] # NoTxn /\ t.at = txn[r].at),
           now' = now, cleaner' = cleaner
    PROVE  ClockInv'
  <1>1. ASSUME NEW q \in Relays, txn'[q] # NoTxn PROVE txn'[q].at <= now
    <2>1. CASE q = r
      BY <1>1, <2>1 DEF ClockInv, TypeInv, TypeOK
    <2>2. CASE q # r
      BY <1>1, <2>2 DEF ClockInv, TypeInv, TypeOK
    <2> QED
      BY <2>1, <2>2
  <1> QED
    BY <1>1 DEF ClockInv

LEMMA RollbackClock ==
    ASSUME TypeInv, ClockInv, NEW r \in Relays, Rollback(r)
    PROVE  ClockInv'
  BY ClockKept DEF Rollback

LEMMA ReceiveClock ==
    ASSUME TypeInv, ClockInv, NEW r \in Relays, Receive(r)
    PROVE  ClockInv'
  <1>1. PICK request : BeginSync(r, request)
    BY DEF Receive
  <1> DEFINE t == [pc |-> IF voyage = NoVoyage THEN "claim" ELSE "lock",
                   at |-> now, request |-> request,
                   mine |-> voyage, loaded |-> voyage, dirty |-> {},
                   added |-> {}, step |-> 1]
  <1>2. txn' = [txn EXCEPT ![r] = t] /\ UNCHANGED <<now, cleaner>>
    BY <1>1 DEF BeginSync
  <1>3. t.at = now
    OBVIOUS
  <1> HIDE DEF t
  <1> QED
    BY <1>2, <1>3, ClockKept

\* In the course of a transaction its time stands still.
LEMMA WorkClock ==
    ASSUME TypeInv, ClockInv, NEW r \in Relays, Work(r)
    PROVE  ClockInv'
  <1>1. CASE \/ VoyageVanished(r) \/ Conflict(r)
             \/ EventQuota(r) \/ ReplayQuota(r)
    BY <1>1, RollbackClock
       DEF VoyageVanished, Conflict, EventQuota, ReplayQuota
  <1>2. CASE FinishReplay(r) \/ FinishStore(r)
    <2>1. txn' = [txn EXCEPT ![r] = NoTxn] /\ UNCHANGED <<now, cleaner>>
      BY <1>2 DEF FinishReplay, FinishStore, Finish
    <2> QED
      BY <2>1, ClockKept
  <1>3. CASE \/ ClaimVoyage(r) \/ EnterReplay(r) \/ EnterStore(r)
             \/ SkipEvent(r) \/ StoreEvent(r)
    <2>1. txn[r] # NoTxn /\ txn[r] \in Txn
      BY <1>3 DEF ClaimVoyage, EnterReplay, EnterStore, Locks, SkipEvent,
                  StoreEvent, Storing, In, TypeInv, TxnInv
    <2>2. now' = now /\ cleaner' = cleaner
      BY <1>3 DEF ClaimVoyage, EnterReplay, EnterStore, Purge, SkipEvent,
                  StoreEvent
    <2>3. txn'[r].at = txn[r].at /\ txn' = [txn EXCEPT ![r] = txn'[r]]
      <3>1. CASE ClaimVoyage(r)
        BY <3>1, <2>1 DEF ClaimVoyage, TypeInv, TypeOK, Txn
      <3>2. CASE EnterReplay(r) \/ EnterStore(r)
        BY <3>2, <2>1 DEF EnterReplay, EnterStore, Purge, TypeInv, TypeOK, Txn
      <3>3. CASE SkipEvent(r)
        BY <3>3, <2>1 DEF SkipEvent, TypeInv, TypeOK, Txn
      <3>4. CASE StoreEvent(r)
        BY <3>4, <2>1 DEF StoreEvent, TypeInv, TypeOK, Txn
      <3> QED
        BY <1>3, <3>1, <3>2, <3>3, <3>4
    <2> QED
      BY <2>1, <2>2, <2>3, ClockKept
  <1> QED
    BY <1>1, <1>2, <1>3 DEF Work

LEMMA ClockStep == TypeInv /\ ClockInv /\ [Next]_vars => ClockInv'
  <1> SUFFICES ASSUME TypeInv, ClockInv, [Next]_vars PROVE ClockInv'
    OBVIOUS
  <1>1. ASSUME NEW r \in Relays, Receive(r) \/ Work(r) \/ Crash(r)
        PROVE  ClockInv'
    BY <1>1, ReceiveClock, WorkClock, RollbackClock DEF Crash
  <1>2. CASE \/ PresenceEnded \/ ReadPositions
             \/ \E s \in Sailors : SharePosition(s) \/ ClearPosition(s)
    BY <1>2 DEF PresenceEnded, ReadPositions, SharePosition, ClearPosition,
                Presence, ClockInv
  <1>3. CASE Cleanup
    <2>1. UNCHANGED <<now, txn>>
      BY <1>3 DEF Cleanup, CleanupCount, CleanupLock, CleanupDelete,
                  CleanupCrash, db
    <2>2. cleaner'.at \in {cleaner.at, now, 0}
      BY <1>3 DEF Cleanup, CleanupCount, CleanupLock, CleanupDelete,
                  CleanupCrash, TypeInv, TypeOK
    <2>3. cleaner'.at <= now
      BY <2>2 DEF ClockInv, TypeInv, TypeOK
    <2> QED
      BY <2>1, <2>3 DEF ClockInv
  <1>4. CASE Tick
    <2>1. ASSUME NEW r \in Relays, txn[r] # NoTxn PROVE txn[r].at <= now + 1
      <3>1. txn[r].at \in Nat /\ txn[r].at <= now
        BY <2>1 DEF ClockInv, TypeInv, TxnInv, Txn
      <3> QED
        BY <3>1 DEF TypeInv, TypeOK
    <2>2. cleaner.at <= now + 1
      BY DEF ClockInv, TypeInv, TypeOK
    <2> QED
      BY <1>4, <2>1, <2>2 DEF Tick, ClockInv
  <1>5. CASE UNCHANGED vars
    BY <1>5 DEF vars, ClockInv
  <1> QED
    BY <1>1, <1>2, <1>3, <1>4, <1>5 DEF Next

\* A row leaves the table when it has expired or its voyage goes.
LEMMA PurgedRow ==
    ASSUME TypeInv, ClockInv, [Next]_vars, NEW x \in rows, x \notin rows'
    PROVE  x.expires <= now \/ voyage' = NoVoyage
  <1>1. x.expires \in Nat /\ now \in Nat
    BY DEF TypeInv, TypeOK, StoredEvent
  <1>2. ASSUME NEW r \in Relays, FinishReplay(r) \/ FinishStore(r)
        PROVE  x.expires <= now
    <2>1. rows' = LiveRows(r) \cup txn[r].added
      BY <1>2 DEF FinishReplay, FinishStore, Finish
    <2>2. x.expires <= txn[r].at
      BY <2>1 DEF LiveRows, Expired
    <2>3. txn[r].at \in Nat /\ txn[r].at <= now
      BY <1>2 DEF FinishReplay, FinishStore, Stored, In, ClockInv, TypeInv,
                  TxnInv, Txn
    <2> QED
      BY <1>1, <2>2, <2>3
  <1>3. ASSUME NEW r \in Relays, Work(r) PROVE x.expires <= now
    BY <1>2, <1>3
       DEF Work, ClaimVoyage, VoyageVanished, Conflict, EnterReplay,
           EnterStore, Purge, SkipEvent, StoreEvent, EventQuota, ReplayQuota,
           Rollback, db
  <1>4. ASSUME NEW r \in Relays PROVE ~Receive(r) /\ ~Crash(r)
    BY DEF Receive, BeginSync, Crash, Rollback, db
  <1>5. CASE CleanupDelete
    <2>1. CASE voyage # NoVoyage /\ voyage.deleteAfter > cleaner.at
      <3>1. x.expires <= cleaner.at
        BY <1>5, <2>1 DEF CleanupDelete, Expired
      <3> QED
        BY <1>1, <3>1 DEF ClockInv, TypeInv, TypeOK
    <2>2. CASE ~(voyage # NoVoyage /\ voyage.deleteAfter > cleaner.at)
      BY <1>5, <2>2 DEF CleanupDelete
    <2> QED
      BY <2>1, <2>2
  <1>6. ~CleanupCount /\ ~CleanupLock /\ ~CleanupCrash /\ ~Tick
    BY DEF CleanupCount, CleanupLock, CleanupCrash, Tick, db
  <1>7. /\ ~PresenceEnded /\ ~ReadPositions
        /\ \A s \in Sailors : ~SharePosition(s) /\ ~ClearPosition(s)
    BY DEF PresenceEnded, ReadPositions, SharePosition, ClearPosition, Presence
  <1>8. ~(UNCHANGED vars)
    BY DEF vars
  <1> QED
    BY <1>3, <1>4, <1>5, <1>6, <1>7, <1>8 DEF Next, Cleanup

\* No step of a worker or of the clean-up loses a committed event before it
\* expires, unless the whole voyage goes: a transaction that waited for its
\* lock purges by an old time, never by one that is still to come.
THEOREM NothingForgottenEarlyAlways == Spec => NothingForgottenEarly
  <1>1. Init => ClockInv
    BY DEF Init, ClockInv
  <1>2. TypeInv /\ ClockInv /\ [Next]_vars =>
          [\A x \in rows : x \in rows' \/ x.expires <= now
                             \/ voyage' = NoVoyage]_vars
    BY PurgedRow
  <1> QED
    BY <1>1, <1>2, TypeInit, TypeStep, ClockStep, PTL
       DEF Spec, NothingForgottenEarly

-----------------------------------------------------------------------------
(* One relay process *)

\* One server process, whose handler of a sync runs to its end: what the relay
\* is deployed with.
OneRelay == \A q, r \in Relays : q = r

-----------------------------------------------------------------------------
(* The deadline of a voyage follows its lifecycle *)

\* An ended voyage goes no later than the grace period after its end.
EndsInTime(row) ==
    row.endedAt # None => row.deleteAfter <= row.endedAt + EndedVoyageGrace

Deadline == {"endedAt", "deleteAfter", "lastSeen"}

\* The row a transaction works on is the committed one, but for the count, which
\* the clean-up may have changed since, and for what it has changed itself.
DeadlineCopied(r) ==
    txn[r] # NoTxn /\ txn[r].pc # "claim" =>
        /\ EndsInTime(txn[r].mine)
        /\ txn[r].pc = "lock" => txn[r].mine = txn[r].loaded
        /\ voyage # NoVoyage => \A f \in Deadline : txn[r].loaded[f] = voyage[f]

DeadlineInv == RetentionFollowsLifecycle /\ \A r \in Relays : DeadlineCopied(r)

LEMMA LifecycleEnds ==
    ASSUME NEW row \in VoyageRow, NEW type \in STRING, NEW t \in Nat,
           EndsInTime(row)
    PROVE  EndsInTime(AfterLifecycle(row, type, t))
  <1>1. CASE type = "voyageEnded" /\ row.endedAt = None
    <2>1. AfterLifecycle(row, type, t) =
            [row EXCEPT !.endedAt = t,
                        !.deleteAfter = Earlier(@, t + EndedVoyageGrace)]
      BY <1>1 DEF AfterLifecycle
    <2>2. Earlier(row.deleteAfter, t + EndedVoyageGrace) <= t + EndedVoyageGrace
      BY ConstantsInNat DEF Earlier, VoyageRow
    <2> QED
      BY <2>1, <2>2 DEF EndsInTime, VoyageRow
  <1>2. CASE type = "voyageReopened" /\ row.endedAt # None
    <2>1. AfterLifecycle(row, type, t) =
            [row EXCEPT !.endedAt = None,
                        !.deleteAfter = Later(@, t + VoyageRetention)]
      BY <1>2 DEF AfterLifecycle
    <2> QED
      BY <2>1 DEF EndsInTime, VoyageRow
  <1>3. CASE /\ ~(type = "voyageEnded" /\ row.endedAt = None)
             /\ ~(type = "voyageReopened" /\ row.endedAt # None)
    BY <1>3 DEF AfterLifecycle
  <1> QED
    BY <1>1, <1>2, <1>3

\* A step that leaves the voyage's deadline, and one transaction moves.
LEMMA DeadlineMoves ==
    ASSUME OneRelay, TypeInv, DeadlineInv, NEW r \in Relays, NEW t,
           txn' = [txn EXCEPT ![r] = t], voyage' = voyage,
           t # NoTxn /\ t.pc # "claim" =>
               /\ EndsInTime(t.mine)
               /\ t.pc = "lock" => t.mine = t.loaded
               /\ voyage # NoVoyage => \A f \in Deadline : t.loaded[f] = voyage[f]
    PROVE  DeadlineInv'
  <1>1. RetentionFollowsLifecycle'
    BY DEF DeadlineInv, RetentionFollowsLifecycle
  <1>2. ASSUME NEW q \in Relays PROVE DeadlineCopied(q)'
    <2>1. q = r /\ txn'[q] = t
      BY DEF OneRelay, TypeInv, TypeOK
    <2>2. EndsInTime(t.mine)' <=> EndsInTime(t.mine)
      BY DEF EndsInTime
    <2> QED
      BY <2>1, <2>2 DEF DeadlineCopied, EndsInTime
  <1> QED
    BY <1>1, <1>2 DEF DeadlineInv

LEMMA RollbackDeadline ==
    ASSUME OneRelay, TypeInv, DeadlineInv, NEW r \in Relays, Rollback(r)
    PROVE  DeadlineInv'
  BY DeadlineMoves DEF Rollback, db

LEMMA ReceiveDeadline ==
    ASSUME OneRelay, TypeInv, DeadlineInv, NEW r \in Relays, Receive(r)
    PROVE  DeadlineInv'
  <1>1. PICK request : BeginSync(r, request)
    BY DEF Receive
  <1> DEFINE t == [pc |-> IF voyage = NoVoyage THEN "claim" ELSE "lock",
                   at |-> now, request |-> request,
                   mine |-> voyage, loaded |-> voyage, dirty |-> {},
                   added |-> {}, step |-> 1]
  <1>2. txn' = [txn EXCEPT ![r] = t] /\ voyage' = voyage
    BY <1>1 DEF BeginSync, db
  <1>3. t.mine = voyage /\ t.loaded = voyage
    OBVIOUS
  <1>4. t.pc # "claim" => EndsInTime(t.mine)
    BY DEF DeadlineInv, RetentionFollowsLifecycle, EndsInTime
  <1> HIDE DEF t
  <1> QED
    BY <1>2, <1>3, <1>4, DeadlineMoves

LEMMA ClaimDeadline ==
    ASSUME OneRelay, TypeInv, DeadlineInv, NEW r \in Relays, ClaimVoyage(r)
    PROVE  DeadlineInv'
  <1> DEFINE claimed == [count |-> 0, endedAt |-> None,
                         deleteAfter |-> txn[r].at + VoyageRetention,
                         lastSeen |-> txn[r].at]
             row == IF voyage = NoVoyage THEN claimed ELSE voyage
             t == [txn[r] EXCEPT !.pc = "lock", !.mine = row, !.loaded = row]
  <1>1. txn[r] \in Txn
    BY DEF ClaimVoyage, In, TypeInv, TxnInv
  <1>2. txn' = [txn EXCEPT ![r] = t] /\ voyage' = voyage
    BY DEF ClaimVoyage, TypeInv, TypeOK, db
  <1>3. t.mine = row /\ t.loaded = row
    BY <1>1 DEF Txn
  <1>4. EndsInTime(row)
    BY DEF DeadlineInv, RetentionFollowsLifecycle, EndsInTime
  <1>5. voyage # NoVoyage => row = voyage
    OBVIOUS
  <1> HIDE DEF t, row
  <1> QED
    BY <1>2, <1>3, <1>4, <1>5, DeadlineMoves

LEMMA PurgeDeadline ==
    ASSUME OneRelay, TypeInv, DeadlineInv, NEW r \in Relays,
           NEW pc \in {"store", "replay"}, In(r, "lock"), Purge(r, pc)
    PROVE  DeadlineInv'
  <1> DEFINE count == Less(txn[r].mine.count,
                           Cardinality(Expired(rows, txn[r].at)))
             row == [txn[r].mine EXCEPT !.count = count]
             dirty == IF row = txn[r].mine THEN {} ELSE {"count"}
             t == [txn[r] EXCEPT !.pc = pc, !.mine = row, !.loaded = row,
                                 !.dirty = dirty]
  <1>1. txn[r] \in Txn /\ txn[r].mine \in VoyageRow
    BY DEF In, TypeInv, TxnInv
  <1>2. DeadlineCopied(r) /\ txn[r] # NoTxn /\ txn[r].pc = "lock"
    BY DEF DeadlineInv, In
  <1> HIDE DEF count
  <1>3. \A f \in Deadline : row[f] = txn[r].mine[f]
    BY <1>1 DEF Deadline, VoyageRow
  <1>4. txn' = [txn EXCEPT ![r] = t] /\ voyage' = voyage
    BY DEF Purge, TypeInv, TypeOK, count, db
  <1>5. EndsInTime(row)
    BY <1>2, <1>3 DEF EndsInTime, DeadlineCopied, Deadline
  <1> HIDE DEF row, dirty
  <1>6. t.pc = pc /\ t.mine = row /\ t.loaded = row
    BY <1>1 DEF Txn
  <1>7. voyage # NoVoyage => \A f \in Deadline : row[f] = voyage[f]
    BY <1>2, <1>3 DEF DeadlineCopied
  <1> HIDE DEF t
  <1> QED
    BY <1>4, <1>5, <1>6, <1>7, DeadlineMoves

LEMMA SkipDeadline ==
    ASSUME OneRelay, TypeInv, DeadlineInv, NEW r \in Relays, SkipEvent(r)
    PROVE  DeadlineInv'
  <1> DEFINE t == [txn[r] EXCEPT !.step = @ + 1]
  <1>1. txn[r] # NoTxn /\ txn[r].pc = "store"
    BY DEF SkipEvent, Storing, In
  <1>2. /\ t.pc = txn[r].pc /\ t.mine = txn[r].mine
        /\ t.loaded = txn[r].loaded
    BY <1>1 DEF Txn, TypeInv, TxnInv
  <1>3. txn' = [txn EXCEPT ![r] = t] /\ voyage' = voyage
    BY DEF SkipEvent, TypeInv, TypeOK, db
  <1>4. DeadlineCopied(r)
    BY DEF DeadlineInv
  <1>5. /\ EndsInTime(t.mine) /\ t.pc # "lock"
        /\ voyage # NoVoyage => \A f \in Deadline : t.loaded[f] = voyage[f]
    BY <1>1, <1>2, <1>4 DEF DeadlineCopied
  <1> HIDE DEF t
  <1> QED
    BY <1>3, <1>5, DeadlineMoves

LEMMA StoreDeadline ==
    ASSUME OneRelay, TypeInv, DeadlineInv, NEW r \in Relays, StoreEvent(r)
    PROVE  DeadlineInv'
  <1> DEFINE e == CurrentEvent(r)
             row == [txn[r].mine EXCEPT !.count = @ + 1]
             new == [sequence |-> nextSequence, event |-> e,
                     expires |-> KeptUntil(r)]
             added == txn[r].added \cup {new}
             mine == AfterLifecycle(row, e.type, txn[r].at)
             t == [txn[r] EXCEPT !.added = added, !.mine = mine,
                                 !.step = @ + 1]
  <1>1. /\ e \in Event /\ txn[r] \in Txn
        /\ txn[r].mine \in VoyageRow
        /\ txn[r] # NoTxn /\ txn[r].pc = "store"
    BY CurrentEventType DEF StoreEvent, Storing, In
  <1>2. row \in VoyageRow /\ row.endedAt = txn[r].mine.endedAt
        /\ row.deleteAfter = txn[r].mine.deleteAfter
    BY <1>1 DEF VoyageRow
  <1>3. EndsInTime(row)
    BY <1>1, <1>2 DEF DeadlineInv, DeadlineCopied, EndsInTime
  <1>4. EndsInTime(mine)
    BY <1>1, <1>2, <1>3, LifecycleEnds DEF Event, Txn
  <1>5. txn' = [txn EXCEPT ![r] = t] /\ voyage' = voyage
    BY DEF StoreEvent, TypeInv, TypeOK, db
  <1> HIDE DEF e, row, new, added, mine
  <1>6. t.pc = "store" /\ t.mine = mine /\ t.loaded = txn[r].loaded
    BY <1>1 DEF Txn
  <1>7. DeadlineCopied(r)
    BY DEF DeadlineInv
  <1>8. voyage # NoVoyage =>
            \A f \in Deadline : txn[r].loaded[f] = voyage[f]
    BY <1>1, <1>7 DEF DeadlineCopied
  <1> HIDE DEF t
  <1> QED
    BY <1>4, <1>5, <1>6, <1>8, DeadlineMoves

\* What a commit leaves in the attributes of the deadline is the transaction's
\* own row: where it writes nothing back the committed one is the same.
LEMMA DeadlineWritten ==
    ASSUME TypeInv, DeadlineInv, NEW r \in Relays, NEW accepted,
           In(r, "store") \/ In(r, "replay"), Finish(r, accepted)
    PROVE  LET row == AfterSync(txn[r].mine, txn[r].at)
           IN  \A f \in Deadline : voyage'[f] = row[f]
  <1> DEFINE row == AfterSync(txn[r].mine, txn[r].at)
             changed == txn[r].dirty
                          \cup {f \in Attributes : row[f] # txn[r].loaded[f]}
  <1>1. voyage' = WriteBack(voyage, row, changed)
    BY DEF Finish
  <1>2. voyage # NoVoyage => \A f \in Deadline : txn[r].loaded[f] = voyage[f]
    BY DEF In, DeadlineInv, DeadlineCopied
  <1> HIDE DEF row
  <1>3. \A f \in Deadline : f \notin changed => row[f] = txn[r].loaded[f]
    BY DEF Deadline, Attributes
  <1> HIDE DEF changed
  <1> SUFFICES ASSUME NEW f \in Deadline PROVE voyage'[f] = row[f]
    BY DEF row
  <1>4. CASE voyage = NoVoyage
    BY <1>1, <1>4 DEF WriteBack
  <1>5. CASE voyage # NoVoyage
    <2>1. voyage'[f] = IF f \in changed THEN row[f] ELSE voyage[f]
      BY <1>1, <1>5 DEF WriteBack, Deadline
    <2> QED
      BY <1>2, <1>3, <1>5, <2>1
  <1> QED
    BY <1>4, <1>5

LEMMA FinishDeadline ==
    ASSUME OneRelay, TypeInv, DeadlineInv, NEW r \in Relays,
           NEW accepted \in SUBSET STRING,
           In(r, "store") \/ In(r, "replay"), Finish(r, accepted)
    PROVE  DeadlineInv'
  <1> DEFINE row == AfterSync(txn[r].mine, txn[r].at)
  <1>1. \A f \in Deadline : voyage'[f] = row[f]
    BY DeadlineWritten
  <1>2. /\ txn[r].mine \in VoyageRow /\ EndsInTime(txn[r].mine)
        /\ txn[r].at \in Nat
    BY DEF In, DeadlineInv, DeadlineCopied, TypeInv, TxnInv, Txn
  <1>3. IF row.endedAt = None THEN row.deleteAfter >= row.lastSeen + VoyageRetention
        ELSE row.deleteAfter <= row.endedAt + EndedVoyageGrace
    <2> DEFINE d == IF txn[r].mine.endedAt = None THEN txn[r].at + VoyageRetention
                    ELSE txn[r].mine.deleteAfter
    <2>1. row = [txn[r].mine EXCEPT !.lastSeen = txn[r].at, !.deleteAfter = d]
      BY DEF AfterSync
    <2>2. /\ row.endedAt = txn[r].mine.endedAt
          /\ row.deleteAfter = d /\ row.lastSeen = txn[r].at
      BY <1>2, <2>1 DEF VoyageRow
    <2> QED
      BY <1>2, <2>2, ConstantsInNat DEF EndsInTime
  <1>4. RetentionFollowsLifecycle'
    BY <1>1, <1>3 DEF RetentionFollowsLifecycle, Deadline
  <1>5. \A q \in Relays : txn'[q] = NoTxn
    BY DEF OneRelay, Finish, TypeInv, TypeOK
  <1> QED
    BY <1>4, <1>5 DEF DeadlineInv, DeadlineCopied

LEMMA WorkDeadline ==
    ASSUME OneRelay, TypeInv, DeadlineInv, NEW r \in Relays, Work(r)
    PROVE  DeadlineInv'
  <1>1. CASE ClaimVoyage(r)
    BY <1>1, ClaimDeadline
  <1>2. CASE \/ VoyageVanished(r) \/ Conflict(r)
             \/ EventQuota(r) \/ ReplayQuota(r)
    BY <1>2, RollbackDeadline
       DEF VoyageVanished, Conflict, EventQuota, ReplayQuota
  <1>3. CASE EnterReplay(r) \/ EnterStore(r)
    BY <1>3, PurgeDeadline DEF EnterReplay, EnterStore, Locks
  <1>4. CASE SkipEvent(r)
    BY <1>4, SkipDeadline
  <1>5. CASE StoreEvent(r)
    BY <1>5, StoreDeadline
  <1>6. CASE FinishReplay(r)
    <2>1. PICK p \in EarlierAnswers(r) : Finish(r, p.accepted)
      BY <1>6 DEF FinishReplay
    <2>2. p.accepted \in SUBSET STRING
      BY DEF EarlierAnswers, LiveReplays, TypeInv, TypeOK, Replay
    <2> QED
      BY <1>6, <2>1, <2>2, FinishDeadline DEF FinishReplay
  <1>7. CASE FinishStore(r)
    BY <1>7, AcceptedType, FinishDeadline DEF FinishStore, Stored
  <1> QED
    BY <1>1, <1>2, <1>3, <1>4, <1>5, <1>6, <1>7 DEF Work

\* The clean-up changes the count of a voyage, or deletes it.
LEMMA CleanupDeadline ==
    ASSUME TypeInv, DeadlineInv, Cleanup
    PROVE  DeadlineInv'
  <1>1. txn' = txn
    BY DEF Cleanup, CleanupCount, CleanupLock, CleanupDelete, CleanupCrash, db
  <1>2. voyage' # NoVoyage =>
            voyage # NoVoyage /\ \A f \in Deadline : voyage'[f] = voyage[f]
    <2>1. CASE CleanupDelete
      BY <2>1 DEF CleanupDelete, Deadline, TypeInv, TypeOK, VoyageRow
    <2>2. CASE CleanupCount \/ CleanupLock \/ CleanupCrash
      BY <2>2 DEF CleanupCount, CleanupLock, CleanupCrash, db
    <2> QED
      BY <2>1, <2>2 DEF Cleanup
  <1>3. RetentionFollowsLifecycle'
    BY <1>2 DEF DeadlineInv, RetentionFollowsLifecycle, Deadline
  <1>4. ASSUME NEW r \in Relays PROVE DeadlineCopied(r)'
    BY <1>1, <1>2 DEF DeadlineInv, DeadlineCopied, EndsInTime
  <1> QED
    BY <1>3, <1>4 DEF DeadlineInv

LEMMA DeadlineStep ==
    ASSUME OneRelay, TypeInv, DeadlineInv, [Next]_vars
    PROVE  DeadlineInv'
  <1>1. ASSUME NEW r \in Relays, Receive(r) \/ Work(r) \/ Crash(r)
        PROVE  DeadlineInv'
    BY <1>1, ReceiveDeadline, WorkDeadline, RollbackDeadline DEF Crash
  <1>2. CASE Cleanup
    BY <1>2, CleanupDeadline
  <1>3. CASE \/ PresenceEnded \/ ReadPositions
             \/ \E s \in Sailors : SharePosition(s) \/ ClearPosition(s)
             \/ Tick \/ UNCHANGED vars
    <2>1. voyage' = voyage /\ txn' = txn
      BY <1>3 DEF PresenceEnded, ReadPositions, SharePosition, ClearPosition,
                  Presence, Tick, vars, db
    <2> QED
      BY <2>1 DEF DeadlineInv, RetentionFollowsLifecycle, DeadlineCopied,
                  EndsInTime
  <1> QED
    BY <1>1, <1>2, <1>3 DEF Next

\* On a relay of one process a running voyage is kept for the whole window after
\* its last sync and an ended one no longer than the grace period after its
\* end, whatever is uploaded, retried or lost, and however the clean-up runs
\* beside it: the ORM's stale copy of the row never puts an older deadline back.
THEOREM RetentionAlwaysFollows ==
    ASSUME OneRelay PROVE Spec => []RetentionFollowsLifecycle
  <1>1. Init => DeadlineInv
    BY DEF Init, DeadlineInv, RetentionFollowsLifecycle, DeadlineCopied
  <1>2. TypeInv /\ DeadlineInv /\ [Next]_vars => DeadlineInv'
    BY DeadlineStep
  <1>3. DeadlineInv => RetentionFollowsLifecycle
    BY DEF DeadlineInv
  <1> QED
    BY <1>1, <1>2, <1>3, TypeInit, TypeStep, PTL DEF Spec

-----------------------------------------------------------------------------
(* The counter of a voyage is the number of its rows, and its limit holds *)

\* What a transaction of an uncleaned voyage knows of the count: before its
\* purge that of the committed rows, after it that of the rows it keeps with
\* those it has inserted; and if it writes no count back, that is the old one.
CountCopied(r) ==
    LET t == txn[r]
    IN  txn[r] # NoTxn /\ t.pc # "claim" =>
            /\ t.pc = "lock" => t.mine.count = Cardinality(rows)
            /\ t.pc # "lock" =>
                  /\ t.mine.count = Cardinality(LiveRows(r)) + Cardinality(t.added)
                  /\ "count" \notin t.dirty => t.loaded.count = Cardinality(rows)
            /\ t.mine.count <= MaxEvents

UncleanedInv ==
    /\ cleaner.pc = "idle"
    /\ voyage = NoVoyage => rows = {}
    /\ CounterMatchesRows /\ QuotaHolds
    /\ \A r \in Relays : CountCopied(r)

CountInv == ~cleaned => UncleanedInv

\* A step that leaves what is committed and moves one transaction.
LEMMA CountMoves ==
    ASSUME OneRelay, TypeInv, UncleanedInv, NEW r \in Relays, NEW t,
           txn' = [txn EXCEPT ![r] = t],
           voyage' = voyage, rows' = rows, cleaner' = cleaner,
           CountCopied(r)'
    PROVE  UncleanedInv'
  BY DEF OneRelay, UncleanedInv, CounterMatchesRows, QuotaHolds

LEMMA RollbackCount ==
    ASSUME OneRelay, TypeInv, UncleanedInv, NEW r \in Relays, Rollback(r)
    PROVE  UncleanedInv'
  <1>1. txn'[r] = NoTxn
    BY DEF Rollback, TypeInv, TypeOK
  <1>2. CountCopied(r)'
    BY <1>1 DEF CountCopied
  <1> QED
    BY <1>2, CountMoves DEF Rollback, db

LEMMA CountedRows ==
    ASSUME TypeInv, UncleanedInv
    PROVE  /\ Cardinality(rows) \in Nat /\ Cardinality(rows) <= MaxEvents
           /\ voyage # NoVoyage => voyage.count = Cardinality(rows)
           /\ voyage = NoVoyage => Cardinality(rows) = 0
  BY FS_CardinalityType, FS_EmptySet
     DEF TypeInv, UncleanedInv, CounterMatchesRows, QuotaHolds

LEMMA ReceiveCount ==
    ASSUME OneRelay, TypeInv, UncleanedInv, NEW r \in Relays, Receive(r)
    PROVE  UncleanedInv'
  <1>1. PICK request : BeginSync(r, request)
    BY DEF Receive
  <1> DEFINE t == [pc |-> IF voyage = NoVoyage THEN "claim" ELSE "lock",
                   at |-> now, request |-> request,
                   mine |-> voyage, loaded |-> voyage, dirty |-> {},
                   added |-> {}, step |-> 1]
  <1>2. /\ txn' = [txn EXCEPT ![r] = t] /\ txn'[r] = t
        /\ voyage' = voyage /\ rows' = rows /\ cleaner' = cleaner
    BY <1>1 DEF BeginSync, db, TypeInv, TypeOK
  <1>3. CountCopied(r)'
    BY <1>2, CountedRows DEF CountCopied
  <1> HIDE DEF t
  <1> QED
    BY <1>2, <1>3, CountMoves

LEMMA ClaimCount ==
    ASSUME OneRelay, TypeInv, UncleanedInv, NEW r \in Relays, ClaimVoyage(r)
    PROVE  UncleanedInv'
  <1> DEFINE claimed == [count |-> 0, endedAt |-> None,
                         deleteAfter |-> txn[r].at + VoyageRetention,
                         lastSeen |-> txn[r].at]
             row == IF voyage = NoVoyage THEN claimed ELSE voyage
             t == [txn[r] EXCEPT !.pc = "lock", !.mine = row, !.loaded = row]
  <1>1. txn[r] \in Txn /\ txn[r] # NoTxn /\ txn[r].pc = "claim"
    BY DEF ClaimVoyage, In, TypeInv, TxnInv
  <1>2. /\ txn' = [txn EXCEPT ![r] = t] /\ txn'[r] = t
        /\ voyage' = voyage /\ rows' = rows /\ cleaner' = cleaner
    BY DEF ClaimVoyage, TypeInv, TypeOK, db
  <1>3. t.pc = "lock" /\ t.mine = row
    BY <1>1 DEF Txn
  <1>4. row.count = Cardinality(rows) /\ row.count <= MaxEvents
    BY CountedRows
  <1> HIDE DEF t, row
  <1>5. CountCopied(r)'
    BY <1>2, <1>3, <1>4 DEF CountCopied
  <1> QED
    BY <1>2, <1>5, CountMoves

\* The rows that remain are those that were there less those that expired.
LEMMA RemainingCount ==
    ASSUME TypeInv, NEW r \in Relays
    PROVE  LET expired == Cardinality(Expired(rows, txn[r].at))
           IN  /\ expired \in Nat /\ Cardinality(LiveRows(r)) \in Nat
               /\ Cardinality(LiveRows(r)) = Less(Cardinality(rows), expired)
  <1> DEFINE expired == Expired(rows, txn[r].at)
  <1>1. expired \subseteq rows /\ IsFiniteSet(rows) /\ LiveRows(r) = rows \ expired
    BY DEF Expired, LiveRows, TypeInv
  <1> HIDE DEF expired
  <1>2. rows \cap expired = expired /\ IsFiniteSet(expired)
    BY <1>1, FS_Subset
  <1>3. /\ IsFiniteSet(LiveRows(r))
        /\ Cardinality(LiveRows(r)) = Cardinality(rows) - Cardinality(expired)
    BY <1>1, <1>2, FS_Difference
  <1>4. /\ Cardinality(rows) \in Nat /\ Cardinality(expired) \in Nat
        /\ Cardinality(LiveRows(r)) \in Nat
    BY <1>1, <1>2, <1>3, FS_CardinalityType
  <1> QED
    BY <1>3, <1>4 DEF Less, expired

LEMMA PurgeCount ==
    ASSUME OneRelay, TypeInv, JournalInv, UncleanedInv, NEW r \in Relays,
           NEW pc \in {"store", "replay"}, In(r, "lock"), Purge(r, pc)
    PROVE  UncleanedInv'
  <1> DEFINE count == Less(txn[r].mine.count,
                           Cardinality(Expired(rows, txn[r].at)))
             row == [txn[r].mine EXCEPT !.count = count]
             dirty == IF row = txn[r].mine THEN {} ELSE {"count"}
             t == [txn[r] EXCEPT !.pc = pc, !.mine = row, !.loaded = row,
                                 !.dirty = dirty]
  <1>1. txn[r] \in Txn /\ txn[r].mine \in VoyageRow
    BY DEF In, TypeInv, TxnInv
  <1>2. /\ txn[r].mine.count = Cardinality(rows)
        /\ txn[r].mine.count <= MaxEvents
    BY DEF In, UncleanedInv, CountCopied
  <1>3. /\ count = Cardinality(LiveRows(r)) /\ count <= MaxEvents
        /\ Cardinality(LiveRows(r)) \in Nat
    <2>1. count = Cardinality(LiveRows(r)) /\ count \in Nat
      BY <1>2, RemainingCount
    <2>2. count <= Cardinality(rows)
      BY <1>2, RemainingCount, CountedRows DEF Less
    <2>3. MaxEvents \in Nat
      BY RetentionAssumption
    <2> QED
      BY <1>2, <2>1, <2>2, <2>3, CountedRows
  <1>4. txn[r].added = {}
    BY DEF In, JournalInv, OpenJournal
  <1> HIDE DEF count
  <1>5. row.count = count /\ (row = txn[r].mine => row.count = Cardinality(rows))
    BY <1>1, <1>2 DEF VoyageRow
  <1>6. "count" \notin dirty => row = txn[r].mine
    OBVIOUS
  <1>7. /\ txn' = [txn EXCEPT ![r] = t] /\ txn'[r] = t
        /\ voyage' = voyage /\ rows' = rows /\ cleaner' = cleaner
    BY DEF Purge, TypeInv, TypeOK, count, db
  <1> HIDE DEF row, dirty
  <1>8. /\ t.pc = pc /\ t.mine = row /\ t.loaded = row /\ t.dirty = dirty
        /\ t.added = {} /\ t.at = txn[r].at
    BY <1>1, <1>4 DEF Txn
  <1> HIDE DEF t
  <1>9. LiveRows(r)' = LiveRows(r)
    BY <1>7, <1>8 DEF LiveRows
  <1>10. Cardinality(t.added) = 0
    BY <1>8, FS_EmptySet
  <1>11. CountCopied(r)'
    BY <1>3, <1>5, <1>6, <1>7, <1>8, <1>9, <1>10 DEF CountCopied
  <1> QED
    BY <1>7, <1>11, CountMoves

LEMMA SkipCount ==
    ASSUME OneRelay, TypeInv, UncleanedInv, NEW r \in Relays, SkipEvent(r)
    PROVE  UncleanedInv'
  <1> DEFINE t == [txn[r] EXCEPT !.step = @ + 1]
  <1>1. txn[r] # NoTxn /\ txn[r] \in Txn
    BY DEF SkipEvent, Storing, In, TypeInv, TxnInv
  <1>2. /\ t.pc = txn[r].pc /\ t.mine = txn[r].mine /\ t.dirty = txn[r].dirty
        /\ t.loaded = txn[r].loaded /\ t.added = txn[r].added /\ t.at = txn[r].at
    BY <1>1 DEF Txn
  <1>3. /\ txn' = [txn EXCEPT ![r] = t] /\ txn'[r] = t
        /\ voyage' = voyage /\ rows' = rows /\ cleaner' = cleaner
    BY DEF SkipEvent, TypeInv, TypeOK, db
  <1> HIDE DEF t
  <1>4. LiveRows(r)' = LiveRows(r)
    BY <1>2, <1>3 DEF LiveRows
  <1>5. CountCopied(r)
    BY DEF UncleanedInv
  <1>6. CountCopied(r)'
    BY <1>1, <1>2, <1>3, <1>4, <1>5 DEF CountCopied
  <1> QED
    BY <1>3, <1>6, CountMoves

LEMMA LifecycleCount ==
    ASSUME NEW row \in VoyageRow, NEW type \in STRING, NEW t \in Nat
    PROVE  AfterLifecycle(row, type, t).count = row.count
  BY DEF AfterLifecycle, VoyageRow

LEMMA StoreCount ==
    ASSUME OneRelay, TypeInv, JournalInv, UncleanedInv,
           NEW r \in Relays, StoreEvent(r)
    PROVE  UncleanedInv'
  <1> DEFINE e == CurrentEvent(r)
             row == [txn[r].mine EXCEPT !.count = @ + 1]
             new == [sequence |-> nextSequence, event |-> e,
                     expires |-> KeptUntil(r)]
             added == txn[r].added \cup {new}
             mine == AfterLifecycle(row, e.type, txn[r].at)
             t == [txn[r] EXCEPT !.added = added, !.mine = mine,
                                 !.step = @ + 1]
  <1>1. /\ e \in Event /\ txn[r] \in Txn /\ IsFiniteSet(txn[r].added)
        /\ txn[r].mine \in VoyageRow
        /\ txn[r] # NoTxn /\ txn[r].pc = "store"
    BY CurrentEventType DEF StoreEvent, Storing, In
  <1>2. row \in VoyageRow /\ row.count = txn[r].mine.count + 1
    BY <1>1 DEF VoyageRow
  <1>3. mine.count = txn[r].mine.count + 1
    BY <1>1, <1>2, LifecycleCount DEF Event, Txn
  <1>4. txn[r].mine.count + 1 <= MaxEvents
    BY <1>1, RetentionAssumption DEF StoreEvent, QuotaReached, VoyageRow
  <1>5. new \notin txn[r].added
    <2>1. \A x \in txn[r].added : x.sequence < nextSequence
      BY <1>1 DEF JournalInv, OpenJournal, Inserted
    <2> QED
      BY <2>1 DEF TypeInv, TypeOK
  <1>6. /\ Cardinality(added) = Cardinality(txn[r].added) + 1
        /\ Cardinality(txn[r].added) \in Nat
    BY <1>1, <1>5, FS_AddElement, FS_CardinalityType
  <1>7. /\ txn' = [txn EXCEPT ![r] = t] /\ txn'[r] = t
        /\ voyage' = voyage /\ rows' = rows /\ cleaner' = cleaner
    BY DEF StoreEvent, TypeInv, TypeOK, db
  <1> HIDE DEF e, row, new, added, mine
  <1>8. /\ t.pc = "store" /\ t.mine = mine /\ t.loaded = txn[r].loaded
        /\ t.dirty = txn[r].dirty /\ t.added = added /\ t.at = txn[r].at
    BY <1>1 DEF Txn
  <1> HIDE DEF t
  <1>9. LiveRows(r)' = LiveRows(r)
    BY <1>7, <1>8 DEF LiveRows
  <1>10. CountCopied(r) /\ Cardinality(LiveRows(r)) \in Nat
    BY RemainingCount DEF UncleanedInv
  <1>11. CountCopied(r)'
    BY <1>1, <1>3, <1>4, <1>6, <1>7, <1>8, <1>9, <1>10 DEF CountCopied
  <1> QED
    BY <1>7, <1>11, CountMoves

\* The rows a commit leaves are those it kept and those it inserted, none twice.
LEMMA VisibleCount ==
    ASSUME TypeInv, JournalInv, NEW r \in Relays, InsideLock(r)
    PROVE  Cardinality(LiveRows(r) \cup txn[r].added)
             = Cardinality(LiveRows(r)) + Cardinality(txn[r].added)
  <1>1. IsFiniteSet(LiveRows(r)) /\ IsFiniteSet(txn[r].added)
    BY FS_Subset DEF LiveRows, InsideLock, In, TypeInv, TxnInv
  <1>2. LiveRows(r) \cap txn[r].added = {}
    <2> SUFFICES ASSUME NEW x \in txn[r].added, x \in rows PROVE FALSE
      BY DEF LiveRows
    <2>1. x.sequence < x.sequence
      BY DEF InsideLock, In, JournalInv, OpenJournal, Inserted
    <2> QED
      BY <2>1 DEF TypeInv, TypeOK, StoredEvent
  <1>3. Cardinality(LiveRows(r) \cap txn[r].added) = 0
    BY <1>2, FS_EmptySet
  <1>4. /\ Cardinality(LiveRows(r)) \in Nat
        /\ Cardinality(txn[r].added) \in Nat
    BY <1>1, FS_CardinalityType
  <1>5. Cardinality(LiveRows(r) \cup txn[r].added)
          = Cardinality(LiveRows(r)) + Cardinality(txn[r].added)
              - Cardinality(LiveRows(r) \cap txn[r].added)
    BY <1>1, FS_Union
  <1> QED
    BY <1>3, <1>4, <1>5

LEMMA FinishCount ==
    ASSUME OneRelay, TypeInv, JournalInv, UncleanedInv, NEW r \in Relays,
           NEW accepted, InsideLock(r), Finish(r, accepted)
    PROVE  UncleanedInv'
  <1> DEFINE row == AfterSync(txn[r].mine, txn[r].at)
             changed == txn[r].dirty
                          \cup {f \in Attributes : row[f] # txn[r].loaded[f]}
  <1>1. /\ txn[r] # NoTxn /\ txn[r].pc \in {"store", "replay"}
        /\ txn[r] \in Txn /\ txn[r].mine \in VoyageRow
    BY DEF InsideLock, In, TypeInv, TxnInv
  <1>2. /\ txn[r].mine.count = Cardinality(LiveRows(r) \cup txn[r].added)
        /\ txn[r].mine.count <= MaxEvents
        /\ "count" \notin txn[r].dirty => txn[r].loaded.count = Cardinality(rows)
    BY <1>1, VisibleCount DEF UncleanedInv, CountCopied
  <1>3. row.count = txn[r].mine.count
    BY <1>1 DEF AfterSync, VoyageRow
  <1>4. voyage' = WriteBack(voyage, row, changed)
    BY DEF Finish
  <1>5. row \in VoyageRow
    BY <1>1, SyncType DEF Txn
  <1> HIDE DEF row
  <1>6. "count" \notin changed => row.count = txn[r].loaded.count
                                  /\ "count" \notin txn[r].dirty
    BY DEF Attributes
  <1> HIDE DEF changed
  <1>7. voyage' # NoVoyage
    BY <1>4, <1>5, WriteBackType, NoVoyageAssumption DEF TypeInv, TypeOK
  <1>8. voyage'.count = row.count
    <2>1. CASE voyage = NoVoyage
      BY <1>4, <2>1 DEF WriteBack
    <2>2. CASE voyage # NoVoyage
      <3>1. voyage'.count = IF "count" \in changed THEN row.count ELSE voyage.count
        BY <1>4, <2>2 DEF WriteBack
      <3> QED
        BY <1>2, <1>6, <2>2, <3>1, CountedRows
    <2> QED
      BY <2>1, <2>2
  <1>9. rows' = LiveRows(r) \cup txn[r].added /\ cleaner' = cleaner
    BY DEF Finish
  <1>10. \A q \in Relays : txn'[q] = NoTxn
    BY DEF OneRelay, Finish, TypeInv, TypeOK
  <1> QED
    BY <1>2, <1>3, <1>7, <1>8, <1>9, <1>10
       DEF UncleanedInv, CounterMatchesRows, QuotaHolds, CountCopied

LEMMA WorkCount ==
    ASSUME OneRelay, TypeInv, JournalInv, UncleanedInv, NEW r \in Relays, Work(r)
    PROVE  UncleanedInv'
  <1>1. CASE ClaimVoyage(r)
    BY <1>1, ClaimCount
  <1>2. CASE \/ VoyageVanished(r) \/ Conflict(r)
             \/ EventQuota(r) \/ ReplayQuota(r)
    BY <1>2, RollbackCount
       DEF VoyageVanished, Conflict, EventQuota, ReplayQuota
  <1>3. CASE EnterReplay(r) \/ EnterStore(r)
    BY <1>3, PurgeCount DEF EnterReplay, EnterStore, Locks
  <1>4. CASE SkipEvent(r)
    BY <1>4, SkipCount
  <1>5. CASE StoreEvent(r)
    BY <1>5, StoreCount
  <1>6. CASE FinishReplay(r) \/ FinishStore(r)
    BY <1>6, FinishCount DEF FinishReplay, FinishStore, Stored, InsideLock
  <1> QED
    BY <1>1, <1>2, <1>3, <1>4, <1>5, <1>6 DEF Work

\* The first step of a clean-up moves it from where it rests.
LEMMA CleanupMoves ==
    ASSUME TypeInv, cleaner.pc = "idle", Cleanup
    PROVE  cleaner' # cleaner
  BY DEF Cleanup, CleanupCount, CleanupLock, CleanupDelete, CleanupCrash

LEMMA CountStep ==
    ASSUME OneRelay, TypeInv, JournalInv, CountInv, [Next]_vars,
           cleaned' = (cleaned \/ cleaner' # cleaner) \/ UNCHANGED <<vars, cleaned>>
    PROVE  CountInv'
  <1> SUFFICES ASSUME ~cleaned' PROVE UncleanedInv'
    BY DEF CountInv
  <1>1. UncleanedInv /\ cleaner' = cleaner
    BY DEF CountInv, vars
  <1>2. ASSUME NEW r \in Relays, Receive(r) \/ Work(r) \/ Crash(r)
        PROVE  UncleanedInv'
    BY <1>1, <1>2, ReceiveCount, WorkCount, RollbackCount DEF Crash
  <1>3. CASE Cleanup
    BY <1>1, <1>3, CleanupMoves DEF UncleanedInv
  <1>4. CASE \/ PresenceEnded \/ ReadPositions
             \/ \E s \in Sailors : SharePosition(s) \/ ClearPosition(s)
             \/ Tick \/ UNCHANGED vars
    <2>1. voyage' = voyage /\ txn' = txn /\ rows' = rows
      BY <1>4 DEF PresenceEnded, ReadPositions, SharePosition, ClearPosition,
                  Presence, Tick, vars, db
    <2>2. \A r \in Relays : LiveRows(r)' = LiveRows(r)
      BY <2>1 DEF LiveRows
    <2>3. \A r \in Relays : CountCopied(r)'
      BY <1>1, <2>1, <2>2 DEF UncleanedInv, CountCopied
    <2> QED
      BY <1>1, <2>1, <2>3 DEF UncleanedInv, CounterMatchesRows, QuotaHolds
  <1> QED
    BY <1>2, <1>3, <1>4 DEF Next

LEMMA CountInit ==
    ASSUME Init, cleaned = FALSE
    PROVE  CountInv
  <1>1. Cardinality(rows) = 0 /\ MaxEvents \in Nat
    BY FS_EmptySet, RetentionAssumption DEF Init
  <1> QED
    BY <1>1 DEF Init, CountInv, UncleanedInv, CounterMatchesRows, QuotaHolds,
                CountCopied

LEMMA CountAlways ==
    ASSUME OneRelay PROVE VoyageSpec => []CountInv
  <1> DEFINE Step == /\ Next
                     /\ cleaned' = (cleaned \/ cleaner' # cleaner)
  <1>1. Init /\ cleaned = FALSE => TypeInv /\ JournalInv /\ CountInv
    BY TypeInit, JournalInit, CountInit
  <1>2. TypeInv /\ JournalInv /\ CountInv /\ [Step]_<<vars, cleaned>>
          => (TypeInv /\ JournalInv /\ CountInv)'
    <2> SUFFICES ASSUME TypeInv, JournalInv, CountInv, [Step]_<<vars, cleaned>>
                 PROVE  (TypeInv /\ JournalInv /\ CountInv)'
      OBVIOUS
    <2>1. [Next]_vars
      OBVIOUS
    <2> QED
      BY <2>1, TypeStep, JournalStep, CountStep
  <1> QED
    BY <1>1, <1>2, PTL DEF VoyageSpec

\* On a relay of one process, whatever is uploaded, retried, refused half way or
\* lost, and whatever expires, a voyage that no clean-up has reached has as many
\* rows as its counter says: the purge of a sync counts down what it deletes.
THEOREM CounterAlwaysMatches ==
    ASSUME OneRelay PROVE VoyageSpec => []CounterMatchesUncleanedRows
  <1>1. CountInv => CounterMatchesUncleanedRows
    BY DEF CountInv, UncleanedInv, CounterMatchesUncleanedRows
  <1> QED
    BY CountAlways, <1>1, PTL

\* So the limit, which is checked against the counter and not the rows, holds of
\* the rows: a batch cannot get past it event by event.
THEOREM QuotaAlwaysHolds ==
    ASSUME OneRelay PROVE VoyageSpec => []QuotaHoldsUncleaned
  <1>1. CountInv => QuotaHoldsUncleaned
    BY DEF CountInv, UncleanedInv, QuotaHoldsUncleaned
  <1> QED
    BY CountAlways, <1>1, PTL

-----------------------------------------------------------------------------
(* An ended voyage reports itself ended *)

\* The app gives an end no expiry of its own (_record in voyage_controller.dart),
\* so the relay is asked for no shorter life than its own.
EndsAskNoLife ==
    \A batch \in Batches : \A i \in DOMAIN batch :
        batch[i].type = "voyageEnded" =>
            batch[i].expires > MaxNow + JournalRetention

\* The settings allow a grace period of 72 hours at most, the life of an event.
GraceWithinRetention == EndedVoyageGrace <= JournalRetention

\* The table holds an end that outlives the row's deadline, and no event of the
\* lifecycle after it: what is stored while a voyage runs, and what is stored
\* once more after its end, expires no sooner than the deadline an end sets.
EndStands(row, table, t) ==
    row.endedAt # None /\ t < row.deleteAfter =>
        \E x \in table :
            /\ x.event.type = "voyageEnded" /\ x.expires >= row.deleteAfter
            /\ \A y \in table :
                  y.event.type \in LifecycleTypes => y.sequence <= x.sequence

\* What a transaction knows of the end: of one it found, and of one it stores.
EndKnown(r) ==
    LET t == txn[r]
    IN  txn[r] # NoTxn =>
            IF t.pc = "claim" THEN voyage = NoVoyage
            ELSE /\ t.mine.endedAt # None => t.mine.endedAt <= t.at
                 /\ t.pc = "lock" /\ lock = r /\ voyage = NoVoyage =>
                        t.mine.endedAt = None
                 /\ t.pc # "lock" =>
                        EndStands(t.mine, LiveRows(r) \cup t.added, now)

CommittedEnd ==
    voyage # NoVoyage => /\ voyage.endedAt # None => voyage.endedAt <= now
                         /\ EndStands(voyage, rows, now)

LifecycleInv ==
    /\ now <= MaxNow + 1
    /\ CommittedEnd
    /\ \A r \in Relays : EndKnown(r)

LEMMA EndStandsLater ==
    ASSUME NEW row \in VoyageRow, NEW table, NEW t \in Nat, NEW u \in Nat,
           t <= u, EndStands(row, table, t)
    PROVE  EndStands(row, table, u)
  <1>1. u < row.deleteAfter => t < row.deleteAfter
    BY DEF VoyageRow
  <1> QED
    BY <1>1 DEF EndStands

\* A step that leaves what is committed and moves one transaction.
LEMMA EndMoves ==
    ASSUME OneRelay, LifecycleInv, NEW r \in Relays, EndKnown(r)',
           now' = now, voyage' = voyage, rows' = rows
    PROVE  LifecycleInv'
  <1>1. \A q \in Relays : EndKnown(q)'
    BY DEF OneRelay
  <1>2. CommittedEnd'
    BY DEF LifecycleInv, CommittedEnd, EndStands
  <1> QED
    BY <1>1, <1>2 DEF LifecycleInv

LEMMA RollbackEnd ==
    ASSUME OneRelay, TypeInv, LifecycleInv, NEW r \in Relays, Rollback(r)
    PROVE  LifecycleInv'
  <1>1. EndKnown(r)'
    BY DEF Rollback, EndKnown, TypeInv, TypeOK
  <1> QED
    BY <1>1, EndMoves DEF Rollback, db

LEMMA ReceiveEnd ==
    ASSUME OneRelay, TypeInv, LifecycleInv, NEW r \in Relays, Receive(r)
    PROVE  LifecycleInv'
  <1>1. PICK request : BeginSync(r, request)
    BY DEF Receive
  <1> DEFINE t == [pc |-> IF voyage = NoVoyage THEN "claim" ELSE "lock",
                   at |-> now, request |-> request,
                   mine |-> voyage, loaded |-> voyage, dirty |-> {},
                   added |-> {}, step |-> 1]
  <1>2. /\ txn' = [txn EXCEPT ![r] = t] /\ txn'[r] = t /\ lock' = lock
        /\ now' = now /\ voyage' = voyage /\ rows' = rows
    BY <1>1 DEF BeginSync, db, TypeInv, TypeOK
  <1>3. /\ t.mine = voyage /\ t.at = now
        /\ t.pc = IF voyage = NoVoyage THEN "claim" ELSE "lock"
    OBVIOUS
  <1> HIDE DEF t
  <1>4. EndKnown(r)'
    BY <1>2, <1>3 DEF EndKnown, LifecycleInv, CommittedEnd
  <1> QED
    BY <1>2, <1>4, EndMoves

LEMMA ClaimEnd ==
    ASSUME OneRelay, TypeInv, LifecycleInv, NEW r \in Relays, ClaimVoyage(r)
    PROVE  LifecycleInv'
  <1> DEFINE claimed == [count |-> 0, endedAt |-> None,
                         deleteAfter |-> txn[r].at + VoyageRetention,
                         lastSeen |-> txn[r].at]
             row == IF voyage = NoVoyage THEN claimed ELSE voyage
             t == [txn[r] EXCEPT !.pc = "lock", !.mine = row, !.loaded = row]
  <1>1. txn[r] \in Txn /\ txn[r] # NoTxn /\ txn[r].pc = "claim"
    BY DEF ClaimVoyage, In, TypeInv, TxnInv
  <1>2. /\ txn' = [txn EXCEPT ![r] = t] /\ txn'[r] = t
        /\ now' = now /\ voyage' = voyage /\ rows' = rows
    BY DEF ClaimVoyage, TypeInv, TypeOK, db
  <1>3. t.pc = "lock" /\ t.mine = row
    BY <1>1 DEF Txn
  <1>4. row.endedAt = None
    BY <1>1 DEF LifecycleInv, EndKnown
  <1> HIDE DEF t, row
  <1>5. EndKnown(r)'
    BY <1>2, <1>3, <1>4 DEF EndKnown
  <1> QED
    BY <1>2, <1>5, EndMoves

\* What a purge leaves holds the end of a voyage that is not past its deadline.
LEMMA PurgeEnd ==
    ASSUME OneRelay, TypeInv, JournalInv, ClockInv, DeadlineInv, LifecycleInv,
           NEW r \in Relays, NEW pc \in {"store", "replay"},
           Locks(r), Purge(r, pc)
    PROVE  LifecycleInv'
  <1> DEFINE count == Less(txn[r].mine.count,
                           Cardinality(Expired(rows, txn[r].at)))
             row == [txn[r].mine EXCEPT !.count = count]
             dirty == IF row = txn[r].mine THEN {} ELSE {"count"}
             t == [txn[r] EXCEPT !.pc = pc, !.mine = row, !.loaded = row,
                                 !.dirty = dirty]
  <1>1. /\ txn[r] # NoTxn /\ txn[r].pc = "lock"
        /\ txn[r] \in Txn /\ txn[r].mine \in VoyageRow
    BY DEF Locks, In, TypeInv, TxnInv
  <1>2. txn[r].added = {} /\ EndKnown(r) /\ DeadlineCopied(r)
    BY <1>1 DEF In, JournalInv, OpenJournal, LifecycleInv, DeadlineInv
  <1> HIDE DEF count
  <1>3. /\ row.endedAt = txn[r].mine.endedAt
        /\ row.deleteAfter = txn[r].mine.deleteAfter
    BY <1>1 DEF VoyageRow
  <1>4. /\ txn' = [txn EXCEPT ![r] = t] /\ txn'[r] = t
        /\ now' = now /\ voyage' = voyage /\ rows' = rows
    BY DEF Purge, TypeInv, TypeOK, count, db
  <1> HIDE DEF row, dirty
  <1>5. /\ t.pc = pc /\ t.mine = row /\ t.added = {} /\ t.at = txn[r].at
    BY <1>1, <1>2 DEF Txn
  <1> HIDE DEF t
  <1>6. LiveRows(r)' = LiveRows(r)
    BY <1>4, <1>5 DEF LiveRows
  <1>7. EndStands(row, LiveRows(r), now)
    <2>1. CASE voyage = NoVoyage
      BY <1>1, <1>2, <1>3, <2>1 DEF Locks, EndKnown, EndStands
    <2>2. CASE voyage # NoVoyage
      <3> SUFFICES ASSUME row.endedAt # None, now < row.deleteAfter
                   PROVE  \E x \in LiveRows(r) :
                            /\ x.event.type = "voyageEnded"
                            /\ x.expires >= row.deleteAfter
                            /\ \A y \in LiveRows(r) :
                                  y.event.type \in LifecycleTypes
                                    => y.sequence <= x.sequence
        BY DEF EndStands
      <3>1. row.endedAt = voyage.endedAt /\ row.deleteAfter = voyage.deleteAfter
        BY <1>1, <1>2, <1>3, <2>2 DEF DeadlineCopied, Deadline
      <3>2. EndStands(voyage, rows, now)
        BY <2>2 DEF LifecycleInv, CommittedEnd
      <3>3. PICK x \in rows :
                /\ x.event.type = "voyageEnded" /\ x.expires >= row.deleteAfter
                /\ \A y \in rows :
                      y.event.type \in LifecycleTypes => y.sequence <= x.sequence
        BY <3>1, <3>2 DEF EndStands
      <3>4. /\ x.expires \in Nat /\ row.deleteAfter \in Nat
            /\ now \in Nat /\ txn[r].at \in Nat /\ txn[r].at <= now
        BY <1>1, <1>3 DEF TypeInv, TypeOK, StoredEvent, VoyageRow, Txn, ClockInv
      <3>5. ~(x.expires <= txn[r].at)
        BY <3>3, <3>4
      <3>6. x \in LiveRows(r) /\ LiveRows(r) \subseteq rows
        BY <3>5 DEF LiveRows, Expired
      <3> QED
        BY <3>3, <3>6
    <2> QED
      BY <2>1, <2>2
  <1>8. EndStands(t.mine, LiveRows(r) \cup t.added, now)
    BY <1>5, <1>7
  <1>9. EndKnown(r)'
    <2>1. t.mine.endedAt # None => t.mine.endedAt <= t.at
      BY <1>1, <1>2, <1>3, <1>5 DEF EndKnown
    <2>2. t.pc # "claim" /\ t.pc # "lock"
      BY <1>5
    <2> QED
      BY <1>4, <1>6, <1>8, <2>1, <2>2 DEF EndKnown
  <1> QED
    BY <1>4, <1>9, EndMoves

LEMMA SkipEnd ==
    ASSUME OneRelay, TypeInv, LifecycleInv, NEW r \in Relays, SkipEvent(r)
    PROVE  LifecycleInv'
  <1> DEFINE t == [txn[r] EXCEPT !.step = @ + 1]
  <1>1. txn[r] # NoTxn /\ txn[r].pc = "store" /\ txn[r] \in Txn
    BY DEF SkipEvent, Storing, In, TypeInv, TxnInv
  <1>2. /\ t.pc = txn[r].pc /\ t.mine = txn[r].mine
        /\ t.added = txn[r].added /\ t.at = txn[r].at
    BY <1>1 DEF Txn
  <1>3. /\ txn' = [txn EXCEPT ![r] = t] /\ txn'[r] = t
        /\ now' = now /\ voyage' = voyage /\ rows' = rows
    BY DEF SkipEvent, TypeInv, TypeOK, db
  <1> HIDE DEF t
  <1>4. LiveRows(r)' = LiveRows(r) /\ EndKnown(r)
    BY <1>2, <1>3 DEF LiveRows, LifecycleInv
  <1>5. EndKnown(r)'
    BY <1>1, <1>2, <1>3, <1>4 DEF EndKnown
  <1> QED
    BY <1>3, <1>5, EndMoves

\* An event of the lifecycle that is stored now is behind all the others, and
\* an end so stored outlives the deadline that it sets or finds.
LEMMA LifecycleStands ==
    ASSUME GraceWithinRetention,
           NEW row \in VoyageRow, NEW t \in Nat, NEW table, NEW x \in StoredEvent,
           EndsInTime(row), row.endedAt # None => row.endedAt <= t,
           EndStands(row, table, now),
           \A y \in table : y.sequence \in Nat /\ y.sequence < x.sequence,
           x.event.type = "voyageEnded" =>
              x.expires = Earlier(t + JournalRetention, row.deleteAfter)
    PROVE  LET mine == AfterLifecycle(row, x.event.type, t)
           IN  /\ EndStands(mine, table \cup {x}, now)
               /\ mine.endedAt # None => mine.endedAt <= t
  <1> DEFINE mine == AfterLifecycle(row, x.event.type, t)
  <1>1. /\ x.sequence \in Nat /\ row.deleteAfter \in Nat
        /\ row.endedAt \in Nat \cup {None} /\ None \notin Nat
        /\ EndedVoyageGrace \in Nat /\ JournalRetention \in Nat
        /\ EndedVoyageGrace <= JournalRetention
    BY ConstantsInNat, NamesAssumption
       DEF StoredEvent, VoyageRow, GraceWithinRetention
  <1>2. \A y \in table \cup {x} : y.sequence <= x.sequence
    BY <1>1
  <1>3. CASE x.event.type = "voyageEnded" /\ row.endedAt = None
    <2>1. mine = [row EXCEPT !.endedAt = t,
                    !.deleteAfter = Earlier(@, t + EndedVoyageGrace)]
      BY <1>3 DEF AfterLifecycle
    <2>2. /\ mine.endedAt = t
          /\ mine.deleteAfter = Earlier(row.deleteAfter, t + EndedVoyageGrace)
      BY <2>1 DEF VoyageRow
    <2>3. x.expires >= mine.deleteAfter
      BY <1>1, <1>3, <2>2 DEF Earlier
    <2> QED
      BY <1>2, <1>3, <2>2, <2>3 DEF EndStands
  <1>4. CASE x.event.type = "voyageEnded" /\ row.endedAt # None
    <2>1. mine = row
      BY <1>4 DEF AfterLifecycle
    <2>2. /\ row.endedAt \in Nat /\ row.endedAt <= t
          /\ row.deleteAfter <= row.endedAt + EndedVoyageGrace
      BY <1>1, <1>4 DEF EndsInTime
    <2>3. x.expires >= row.deleteAfter
      BY <1>1, <1>4, <2>2 DEF Earlier
    <2> QED
      BY <1>2, <1>4, <2>1, <2>2, <2>3 DEF EndStands
  <1>5. CASE x.event.type = "voyageReopened"
    <2>1. mine.endedAt = None
      BY <1>5 DEF AfterLifecycle, VoyageRow
    <2> QED
      BY <2>1 DEF EndStands
  <1>6. CASE x.event.type \notin LifecycleTypes
    <2>1. mine = row
      BY <1>6 DEF AfterLifecycle, LifecycleTypes
    <2> QED
      BY <1>6, <2>1 DEF EndStands
  <1> QED
    BY <1>3, <1>4, <1>5, <1>6 DEF LifecycleTypes

LEMMA StoreEnd ==
    ASSUME OneRelay, EndsAskNoLife, GraceWithinRetention,
           TypeInv, JournalInv, ClockInv, DeadlineInv, LifecycleInv,
           NEW r \in Relays, StoreEvent(r)
    PROVE  LifecycleInv'
  <1> DEFINE e == CurrentEvent(r)
             row == [txn[r].mine EXCEPT !.count = @ + 1]
             new == [sequence |-> nextSequence, event |-> e,
                     expires |-> KeptUntil(r)]
             added == txn[r].added \cup {new}
             mine == AfterLifecycle(row, e.type, txn[r].at)
             t == [txn[r] EXCEPT !.added = added, !.mine = mine,
                                 !.step = @ + 1]
             table == LiveRows(r) \cup txn[r].added
  <1>1. /\ e \in Event /\ KeptUntil(r) \in Nat
        /\ txn[r] \in Txn /\ txn[r].mine \in VoyageRow
        /\ txn[r] # NoTxn /\ txn[r].pc = "store"
        /\ nextSequence \in Nat /\ now \in Nat /\ txn[r].at \in Nat
        /\ txn[r].at <= now
    BY CurrentEventType
       DEF StoreEvent, Storing, In, TypeInv, TypeOK, Txn, ClockInv
  <1>2. /\ row \in VoyageRow /\ row.endedAt = txn[r].mine.endedAt
        /\ row.deleteAfter = txn[r].mine.deleteAfter
    BY <1>1 DEF VoyageRow
  <1>3. /\ EndsInTime(row)
        /\ row.endedAt # None => row.endedAt <= txn[r].at
        /\ EndStands(row, table, now)
    <2>1. DeadlineCopied(r) /\ EndKnown(r)
      BY DEF DeadlineInv, LifecycleInv
    <2> QED
      BY <1>1, <1>2, <2>1 DEF DeadlineCopied, EndKnown, EndsInTime, EndStands
  <1>4. \A y \in table : y.sequence \in Nat /\ y.sequence < nextSequence
    <2>1. \A y \in rows : y.sequence \in Nat /\ y.sequence < nextSequence
      BY DEF JournalInv, CommittedJournal, TypeInv, TypeOK, StoredEvent
    <2>2. \A y \in txn[r].added : y.sequence \in Nat /\ y.sequence < nextSequence
      BY <1>1 DEF JournalInv, OpenJournal, Inserted, Txn, StoredEvent
    <2> QED
      BY <2>1, <2>2 DEF LiveRows
  <1>5. new \in StoredEvent
    BY <1>1 DEF StoredEvent
  <1>6. e.type = "voyageEnded" =>
            KeptUntil(r) = Earlier(txn[r].at + JournalRetention, row.deleteAfter)
    <2> SUFFICES ASSUME e.type = "voyageEnded"
                 PROVE  KeptUntil(r) = Earlier(txn[r].at + JournalRetention,
                                               row.deleteAfter)
      OBVIOUS
    <2>1. /\ txn[r].request.batch \in Batches
          /\ txn[r].step \in DOMAIN txn[r].request.batch
      BY <1>1, BatchesAssumption DEF StoreEvent, Storing, Txn, Request
    <2>2. e.expires > MaxNow + JournalRetention
      BY <2>1 DEF EndsAskNoLife, CurrentEvent
    <2>3. MaximumEventRetention(e.type) = JournalRetention
      BY DEF MaximumEventRetention
    <2>4. /\ now <= MaxNow + 1 /\ MaxNow \in Nat /\ JournalRetention \in Nat
          /\ e.expires \in Nat
      BY <1>1, RetentionAssumption DEF LifecycleInv, Event
    <2>5. Earlier(txn[r].at + JournalRetention, e.expires)
            = txn[r].at + JournalRetention
      BY <1>1, <2>2, <2>4 DEF Earlier
    <2>6. KeptUntil(r) = Earlier(Earlier(txn[r].at + MaximumEventRetention(e.type),
                                         e.expires), txn[r].mine.deleteAfter)
      BY DEF KeptUntil
    <2> QED
      BY <1>2, <2>3, <2>5, <2>6
  <1>7. /\ txn' = [txn EXCEPT ![r] = t] /\ txn'[r] = t
        /\ now' = now /\ voyage' = voyage /\ rows' = rows
    BY DEF StoreEvent, TypeInv, TypeOK, db
  <1>8. /\ new.sequence = nextSequence /\ new.event = e
        /\ new.expires = KeptUntil(r)
    OBVIOUS
  <1>9. added = txn[r].added \cup {new}
    OBVIOUS
  <1>10. mine = AfterLifecycle(row, new.event.type, txn[r].at)
    OBVIOUS
  <1> HIDE DEF e, row, new, added, mine
  <1>11. /\ t.pc = "store" /\ t.mine = mine /\ t.added = added
         /\ t.at = txn[r].at
    BY <1>1 DEF Txn
  <1> HIDE DEF t
  <1>12. LiveRows(r)' = LiveRows(r)
    BY <1>7, <1>11 DEF LiveRows
  <1> HIDE DEF table
  <1>13. /\ EndStands(mine, table \cup {new}, now)
         /\ mine.endedAt # None => mine.endedAt <= txn[r].at
    BY <1>1, <1>2, <1>3, <1>4, <1>5, <1>6, <1>8, <1>10, LifecycleStands
  <1>14. EndStands(t.mine, LiveRows(r) \cup t.added, now)
    <2>1. table \cup {new} = LiveRows(r) \cup t.added
      BY <1>9, <1>11 DEF table
    <2> QED
      BY <1>11, <1>13, <2>1
  <1>15. EndKnown(r)'
    BY <1>7, <1>11, <1>12, <1>13, <1>14 DEF EndKnown
  <1> QED
    BY <1>7, <1>15, EndMoves

LEMMA FinishEnd ==
    ASSUME OneRelay, TypeInv, ClockInv, DeadlineInv, LifecycleInv,
           NEW r \in Relays, NEW accepted,
           In(r, "store") \/ In(r, "replay"), Finish(r, accepted)
    PROVE  LifecycleInv'
  <1> DEFINE row == AfterSync(txn[r].mine, txn[r].at)
             d == IF txn[r].mine.endedAt = None THEN txn[r].at + VoyageRetention
                  ELSE txn[r].mine.deleteAfter
  <1>1. /\ txn[r] # NoTxn /\ txn[r].pc \in {"store", "replay"}
        /\ txn[r].mine \in VoyageRow /\ txn[r].at \in Nat
        /\ txn[r].at <= now /\ now \in Nat
    BY DEF In, TypeInv, TypeOK, TxnInv, Txn, ClockInv
  <1>2. \A f \in Deadline : voyage'[f] = row[f]
    BY DeadlineWritten
  <1>3. row = [txn[r].mine EXCEPT !.lastSeen = txn[r].at, !.deleteAfter = d]
    BY DEF AfterSync
  <1>4. /\ row.endedAt = txn[r].mine.endedAt
        /\ row.endedAt # None => row.deleteAfter = txn[r].mine.deleteAfter
    BY <1>1, <1>3 DEF VoyageRow
  <1> HIDE DEF row, d
  <1>5. /\ voyage'.endedAt = row.endedAt
        /\ voyage'.deleteAfter = row.deleteAfter
    BY <1>2 DEF Deadline
  <1>6. rows' = LiveRows(r) \cup txn[r].added /\ now' = now
    BY DEF Finish
  <1>7. EndKnown(r)
    BY DEF LifecycleInv
  <1>8. EndStands(txn[r].mine, LiveRows(r) \cup txn[r].added, now)
    BY <1>1, <1>7 DEF EndKnown
  <1>9. voyage'.endedAt # None => voyage'.endedAt <= now
    <2>1. txn[r].mine.endedAt # None => txn[r].mine.endedAt <= txn[r].at
      BY <1>1, <1>7 DEF EndKnown
    <2>2. txn[r].mine.endedAt \in Nat \cup {None}
      BY <1>1 DEF VoyageRow
    <2> QED
      BY <1>1, <1>4, <1>5, <2>1, <2>2
  <1>10. EndStands(voyage, rows, now)'
    BY <1>4, <1>5, <1>6, <1>8 DEF EndStands
  <1>11. CommittedEnd'
    BY <1>6, <1>9, <1>10 DEF CommittedEnd
  <1>12. \A q \in Relays : txn'[q] = NoTxn
    BY DEF OneRelay, Finish, TypeInv, TypeOK
  <1> QED
    BY <1>6, <1>11, <1>12 DEF LifecycleInv, EndKnown

LEMMA WorkEnd ==
    ASSUME OneRelay, EndsAskNoLife, GraceWithinRetention,
           TypeInv, JournalInv, ClockInv, DeadlineInv, LifecycleInv,
           NEW r \in Relays, Work(r)
    PROVE  LifecycleInv'
  <1>1. CASE ClaimVoyage(r)
    BY <1>1, ClaimEnd
  <1>2. CASE \/ VoyageVanished(r) \/ Conflict(r)
             \/ EventQuota(r) \/ ReplayQuota(r)
    BY <1>2, RollbackEnd
       DEF VoyageVanished, Conflict, EventQuota, ReplayQuota
  <1>3. CASE EnterReplay(r) \/ EnterStore(r)
    BY <1>3, PurgeEnd DEF EnterReplay, EnterStore
  <1>4. CASE SkipEvent(r)
    BY <1>4, SkipEnd
  <1>5. CASE StoreEvent(r)
    BY <1>5, StoreEnd
  <1>6. CASE FinishReplay(r)
    BY <1>6, FinishEnd DEF FinishReplay
  <1>7. CASE FinishStore(r)
    BY <1>7, FinishEnd DEF FinishStore, Stored
  <1> QED
    BY <1>1, <1>2, <1>3, <1>4, <1>5, <1>6, <1>7 DEF Work

\* The clean-up deletes no end of a voyage that it leaves before its deadline,
\* and nothing under a transaction that holds the voyage.
LEMMA CleanupEnd ==
    ASSUME TypeInv, JournalInv, ClockInv, LifecycleInv, Cleanup
    PROVE  LifecycleInv'
  <1>1. txn' = txn /\ now' = now
    BY DEF Cleanup, CleanupCount, CleanupLock, CleanupDelete, CleanupCrash, db
  <1>2. CASE CleanupDelete
    <2>1. /\ lock \in {Nobody, Cleaner} /\ lock' = Nobody
          /\ rows' \subseteq rows
          /\ voyage' # NoVoyage =>
                /\ voyage # NoVoyage
                /\ rows' = rows \ Expired(rows, cleaner.at)
                /\ \A f \in Deadline : voyage'[f] = voyage[f]
      BY <1>2 DEF CleanupDelete, Deadline, TypeInv, TypeOK, VoyageRow
    <2>2. CommittedEnd'
      <3> SUFFICES ASSUME voyage' # NoVoyage
                   PROVE  /\ voyage'.endedAt # None => voyage'.endedAt <= now
                          /\ EndStands(voyage', rows', now)
        BY <1>1 DEF CommittedEnd
      <3>1. /\ voyage # NoVoyage /\ rows' = rows \ Expired(rows, cleaner.at)
            /\ voyage'.endedAt = voyage.endedAt
            /\ voyage'.deleteAfter = voyage.deleteAfter
        BY <2>1 DEF Deadline
      <3>2. /\ voyage.endedAt # None => voyage.endedAt <= now
            /\ EndStands(voyage, rows, now)
        BY <3>1 DEF LifecycleInv, CommittedEnd
      <3>3. /\ now \in Nat /\ cleaner.at \in Nat /\ cleaner.at <= now
            /\ voyage.deleteAfter \in Nat
        BY <3>1 DEF TypeInv, TypeOK, VoyageRow, ClockInv
      <3>4. ASSUME NEW x \in rows, now < voyage.deleteAfter,
                   x.expires >= voyage.deleteAfter
            PROVE  x \in rows'
        <4>1. ~(x.expires <= cleaner.at)
          BY <3>3, <3>4 DEF TypeInv, TypeOK, StoredEvent
        <4> QED
          BY <3>1, <4>1 DEF Expired
      <3> QED
        BY <2>1, <3>1, <3>2, <3>4 DEF EndStands
    <2>3. ASSUME NEW r \in Relays PROVE EndKnown(r)'
      <3>1. EndKnown(r)
        BY DEF LifecycleInv
      <3>2. txn[r] # NoTxn => txn[r].pc \notin {"store", "replay"}
        BY <2>1, NamesAssumption DEF JournalInv, OpenJournal, InsideLock, In
      <3>3. txn[r] # NoTxn => txn[r].pc \in {"claim", "lock"}
        BY <3>2 DEF TypeInv, TxnInv, Txn
      <3>4. lock' # r
        BY <2>1, NamesAssumption
      <3> QED
        BY <1>1, <2>1, <3>1, <3>3, <3>4 DEF EndKnown
    <2> QED
      BY <1>1, <2>2, <2>3 DEF LifecycleInv
  <1>3. CASE CleanupCount \/ CleanupLock \/ CleanupCrash
    <2>1. /\ voyage' = voyage /\ rows' = rows
          /\ lock' \in {lock, Nobody, Cleaner}
      BY <1>3 DEF CleanupCount, CleanupLock, CleanupCrash, db
    <2>2. ASSUME NEW r \in Relays PROVE EndKnown(r)'
      <3>1. EndKnown(r)
        BY DEF LifecycleInv
      <3>2. lock' = r => lock = r
        BY <2>1, NamesAssumption
      <3>3. LiveRows(r)' = LiveRows(r)
        BY <1>1, <2>1 DEF LiveRows
      <3> QED
        BY <1>1, <2>1, <3>1, <3>2, <3>3 DEF EndKnown
    <2>3. CommittedEnd'
      BY <1>1, <2>1 DEF LifecycleInv, CommittedEnd, EndStands
    <2> QED
      BY <1>1, <2>2, <2>3 DEF LifecycleInv
  <1> QED
    BY <1>2, <1>3 DEF Cleanup

LEMMA TickEnd ==
    ASSUME TypeInv, LifecycleInv, Tick
    PROVE  LifecycleInv'
  <1>1. /\ now \in Nat /\ now' = now + 1 /\ now' \in Nat /\ now <= now'
        /\ now' <= MaxNow + 1
        /\ voyage' = voyage /\ rows' = rows /\ txn' = txn /\ lock' = lock
    BY RetentionAssumption DEF Tick, db, TypeInv, TypeOK
  <1>2. CommittedEnd'
    <2> SUFFICES ASSUME voyage # NoVoyage
                 PROVE  /\ voyage.endedAt # None => voyage.endedAt <= now'
                        /\ EndStands(voyage, rows, now')
      BY <1>1 DEF CommittedEnd
    <2>1. voyage \in VoyageRow /\ CommittedEnd
      BY DEF TypeInv, TypeOK, LifecycleInv
    <2>2. EndStands(voyage, rows, now')
      BY <1>1, <2>1, EndStandsLater DEF CommittedEnd
    <2>3. voyage.endedAt # None => voyage.endedAt <= now'
      BY <1>1, <2>1 DEF CommittedEnd, VoyageRow
    <2> QED
      BY <2>2, <2>3
  <1>3. ASSUME NEW r \in Relays PROVE EndKnown(r)'
    <2>1. EndKnown(r) /\ LiveRows(r)' = LiveRows(r)
      BY <1>1 DEF LifecycleInv, LiveRows
    <2>2. txn[r] # NoTxn /\ txn[r].pc # "claim" => txn[r].mine \in VoyageRow
      BY DEF TypeInv, TxnInv
    <2>3. txn[r] # NoTxn /\ txn[r].pc \notin {"claim", "lock"} =>
             EndStands(txn[r].mine, LiveRows(r) \cup txn[r].added, now')
      BY <1>1, <2>1, <2>2, EndStandsLater DEF EndKnown
    <2> QED
      BY <1>1, <2>1, <2>3 DEF EndKnown
  <1> QED
    BY <1>1, <1>2, <1>3 DEF LifecycleInv

LEMMA LifecycleStep ==
    ASSUME OneRelay, EndsAskNoLife, GraceWithinRetention,
           TypeInv, JournalInv, ClockInv, DeadlineInv, LifecycleInv, [Next]_vars
    PROVE  LifecycleInv'
  <1>1. ASSUME NEW r \in Relays, Receive(r) \/ Work(r) \/ Crash(r)
        PROVE  LifecycleInv'
    BY <1>1, ReceiveEnd, WorkEnd, RollbackEnd DEF Crash
  <1>2. CASE Cleanup
    BY <1>2, CleanupEnd
  <1>3. CASE Tick
    BY <1>3, TickEnd
  <1>4. CASE \/ PresenceEnded \/ ReadPositions
             \/ \E s \in Sailors : SharePosition(s) \/ ClearPosition(s)
             \/ UNCHANGED vars
    <2>1. /\ now' = now /\ voyage' = voyage /\ rows' = rows
          /\ txn' = txn /\ lock' = lock
      BY <1>4 DEF PresenceEnded, ReadPositions, SharePosition, ClearPosition,
                  Presence, vars, db
    <2>2. CommittedEnd'
      BY <2>1 DEF LifecycleInv, CommittedEnd, EndStands
    <2>3. ASSUME NEW r \in Relays PROVE EndKnown(r)'
      <3>1. EndKnown(r) /\ LiveRows(r)' = LiveRows(r)
        BY <2>1 DEF LifecycleInv, LiveRows
      <3> QED
        BY <2>1, <3>1 DEF EndKnown
    <2> QED
      BY <2>1, <2>2, <2>3 DEF LifecycleInv
  <1> QED
    BY <1>1, <1>2, <1>3, <1>4 DEF Next

LEMMA LifecycleAlways ==
    ASSUME OneRelay, EndsAskNoLife, GraceWithinRetention
    PROVE  Spec => []LifecycleInv
  <1>1. Init => LifecycleInv /\ DeadlineInv /\ ClockInv
    <2> SUFFICES ASSUME Init PROVE LifecycleInv /\ DeadlineInv /\ ClockInv
      OBVIOUS
    <2>1. ClockInv /\ now <= MaxNow + 1
      BY RetentionAssumption DEF Init, ClockInv
    <2> QED
      BY <2>1 DEF Init, DeadlineInv, RetentionFollowsLifecycle, DeadlineCopied,
                  LifecycleInv, CommittedEnd, EndKnown
  <1>2. TypeInv /\ DeadlineInv /\ [Next]_vars => DeadlineInv'
    BY DeadlineStep
  <1>3. /\ TypeInv /\ JournalInv /\ ClockInv /\ DeadlineInv /\ LifecycleInv
        /\ [Next]_vars
        => LifecycleInv'
    BY LifecycleStep
  <1> QED
    BY <1>1, <1>2, <1>3, TypeInit, TypeStep, ClockStep, JournalAlways, PTL
       DEF Spec

\* On a relay of one process an ended voyage reports itself ended until its
\* deadline.  The phase is read off events that expire, one by one and each at a
\* time of its own, the deadline off the voyage row, which other events move:
\* whatever is uploaded, in whatever order, they agree.
THEOREM EndedAlwaysReportsEnded ==
    ASSUME OneRelay, EndsAskNoLife, GraceWithinRetention
    PROVE  Spec => []EndedVoyageReportsEnded
  <1>1. LifecycleInv => EndedVoyageReportsEnded
    <2> SUFFICES ASSUME LifecycleInv, voyage # NoVoyage,
                        voyage.endedAt # None, now < voyage.deleteAfter
                 PROVE  Phase = "ended"
      BY DEF EndedVoyageReportsEnded
    <2>1. PICK x \in rows :
              /\ x.event.type = "voyageEnded"
              /\ \A y \in rows :
                    y.event.type \in LifecycleTypes => y.sequence <= x.sequence
      BY DEF LifecycleInv, CommittedEnd, EndStands
    <2> QED
      BY <2>1 DEF Phase
  <1> QED
    BY <1>1, LifecycleAlways, PTL

\* So nobody's position is taken in, or kept alive in, an ended voyage, however
\* the presence endpoint runs between the syncs and the clean-up.
THEOREM FinishedVoyageNeverTakesAPosition ==
    ASSUME OneRelay, EndsAskNoLife, GraceWithinRetention
    PROVE  Spec => FinishedVoyageTakesNoPosition
  <1>1. EndedVoyageReportsEnded /\ TypeInv /\ [Next]_vars =>
          [voyage # NoVoyage /\ voyage.endedAt # None /\ now < voyage.deleteAfter =>
             \A s \in Sailors : positions'[s] \in {0, positions[s]}]_vars
    <2> SUFFICES ASSUME EndedVoyageReportsEnded, TypeInv, [Next]_vars,
                        voyage # NoVoyage, voyage.endedAt # None,
                        now < voyage.deleteAfter, NEW s \in Sailors
                 PROVE  positions'[s] \in {0, positions[s]}
      OBVIOUS
    <2>1. Phase = "ended"
      BY DEF EndedVoyageReportsEnded
    <2>2. CASE positions' = positions
      BY <2>2
    <2>3. CASE PresenceEnded
      BY <2>3 DEF PresenceEnded
    <2>4. ASSUME NEW r \in Relays, FinishStore(r)
          PROVE  positions'[s] \in {0, positions[s]}
      BY <2>4 DEF FinishStore
    <2>5. CASE CleanupDelete
      BY <2>5 DEF CleanupDelete
    <2>6. ASSUME NEW r \in Relays, Receive(r) \/ Work(r) \/ Crash(r), ~FinishStore(r)
          PROVE  positions' = positions
      BY <2>6 DEF Receive, BeginSync, Work, Crash, ClaimVoyage, VoyageVanished,
                  Conflict, EnterReplay, EnterStore, Purge, SkipEvent,
                  StoreEvent, EventQuota, FinishReplay, ReplayQuota, Rollback, db
    <2>7. CASE CleanupCount \/ CleanupLock \/ CleanupCrash \/ Tick \/ UNCHANGED vars
      BY <2>7 DEF CleanupCount, CleanupLock, CleanupCrash, Tick, vars, db
    <2> QED
      BY <2>1, <2>2, <2>3, <2>4, <2>5, <2>6, <2>7
         DEF Next, Cleanup, ReadPositions, SharePosition, ClearPosition
  <1> QED
    BY <1>1, EndedAlwaysReportsEnded, TypeInit, TypeStep, PTL
       DEF Spec, FinishedVoyageTakesNoPosition

-----------------------------------------------------------------------------
(* A finished voyage holds no live position *)

\* Nor does the app give a reopening an expiry of its own (_record again).
ReopeningsAskNoLife ==
    \A batch \in Batches : \A i \in DOMAIN batch :
        batch[i].type = "voyageReopened" =>
            batch[i].expires > MaxNow + JournalRetention

\* The store has the ends that an upload carries before a reopening it has.
InOrder(r) ==
    LET batch == txn[r].request.batch
        held == IdsOf(EventsIn(LiveRows(r)))
    IN  \A i, j \in DOMAIN batch :
            /\ i < j /\ batch[i].type = "voyageEnded"
            /\ batch[j].type = "voyageReopened" /\ batch[j].id \in held
            => batch[i].id \in held

\* What is asked of the phones: they upload in the order they record, and do
\* not go on uploading an end again until the store has forgotten it.
UploadsInOrder == \A r \in Relays : EnterStore(r) => InOrder(r)

SameEnd(t) ==
    t.mine.endedAt = t.loaded.endedAt /\ t.mine.deleteAfter = t.loaded.deleteAfter

\* An end that the loop has stored, in a voyage that is not past its deadline;
\* and the last lifecycle event behind the loop is an end.
EndedByLoop(r) ==
    LET t == txn[r]
        batch == t.request.batch
    IN  /\ t.at < t.mine.deleteAfter
        /\ \E i \in DOMAIN batch :
              /\ i < t.step /\ batch[i].type = "voyageEnded"
              /\ batch[i].id \notin IdsOf(EventsIn(LiveRows(r)))
        /\ \E k \in DOMAIN batch :
              /\ k < t.step /\ batch[k].type = "voyageEnded"
              /\ \A j \in DOMAIN batch :
                    k < j /\ j < t.step => batch[j].type \notin LifecycleTypes

\* A transaction's ended row is as it found it, or its own loop ended it.
EndOwned(r) ==
    /\ In(r, "replay") => SameEnd(txn[r])
    /\ In(r, "store") =>
          /\ InOrder(r)
          /\ txn[r].mine.endedAt # None => SameEnd(txn[r]) \/ EndedByLoop(r)

Emptied ==
    voyage = NoVoyage \/ (voyage.endedAt # None /\ now < voyage.deleteAfter)
        => Occupied(positions) = {}

EmptiedInv == Emptied /\ \A r \in Relays : EndOwned(r)

LEMMA SkipOwned ==
    ASSUME ReopeningsAskNoLife, TypeInv, ClockInv, LifecycleInv,
           NEW r \in Relays, EndOwned(r), SkipEvent(r)
    PROVE  EndOwned(r)'
  <1> DEFINE t == [txn[r] EXCEPT !.step = @ + 1]
             batch == txn[r].request.batch
             n == txn[r].step
             held == IdsOf(EventsIn(LiveRows(r)))
  <1>1. /\ In(r, "store") /\ txn[r] # NoTxn /\ txn[r].pc = "store"
        /\ txn[r] \in Txn /\ Storing(r)
    BY DEF SkipEvent, Storing, In, TypeInv, TxnInv
  <1>2. /\ t.pc = "store" /\ t.at = txn[r].at /\ t.request = txn[r].request
        /\ t.mine = txn[r].mine
        /\ t.loaded = txn[r].loaded /\ t.step = n + 1
    BY <1>1 DEF Txn
  <1>3. txn'[r] = t /\ rows' = rows
    BY DEF SkipEvent, TypeInv, TypeOK, db
  <1> HIDE DEF t
  <1>4. LiveRows(r)' = LiveRows(r)
    BY <1>2, <1>3 DEF LiveRows
  <1>5. InOrder(r)'
    BY <1>1, <1>2, <1>3, <1>4 DEF EndOwned, InOrder
  <1>6. /\ n \in DOMAIN batch /\ n \in Nat /\ DOMAIN batch \subseteq Nat
        /\ CurrentEvent(r) = batch[n] /\ batch \in Batches
        /\ CurrentEvent(r) \in Event
    BY <1>1, BatchesAssumption, CurrentEventType
       DEF Storing, Txn, Request, CurrentEvent
  <1>7. ASSUME EndedByLoop(r) PROVE EndedByLoop(r)'
    <2>1. PICK i \in DOMAIN batch :
              i < n /\ batch[i].type = "voyageEnded" /\ batch[i].id \notin held
      BY <1>7 DEF EndedByLoop
    <2>2. PICK k \in DOMAIN batch :
              /\ k < n /\ batch[k].type = "voyageEnded"
              /\ \A j \in DOMAIN batch :
                    k < j /\ j < n => batch[j].type \notin LifecycleTypes
      BY <1>7 DEF EndedByLoop
    <2>3. batch[n].type # "voyageReopened"
      <3> SUFFICES ASSUME batch[n].type = "voyageReopened" PROVE FALSE
        OBVIOUS
      <3>1. batch[n].id \notin held
        BY <1>1, <1>6, <2>1 DEF EndOwned, InOrder
      <3>2. /\ txn[r].at \in Nat /\ txn[r].at <= now /\ now \in Nat
            /\ now <= MaxNow + 1 /\ MaxNow \in Nat
            /\ JournalRetention \in Nat \ {0} /\ batch[n].expires \in Nat
        BY <1>1, <1>6, RetentionAssumption
           DEF ClockInv, LifecycleInv, TypeInv, TypeOK, Txn, Event
      <3>3. batch[n].expires > MaxNow + JournalRetention
        BY <1>6 DEF ReopeningsAskNoLife
      <3>4. batch[n].expires > txn[r].at
        BY <3>2, <3>3
      <3>5. txn[r].mine.deleteAfter > txn[r].at
        BY <1>1, <1>7, <3>2 DEF EndedByLoop, Txn, VoyageRow
      <3>6. KeptUntil(r) > txn[r].at
        BY <1>1, <1>6, <3>4, <3>5, DeadOnArrival
      <3> QED
        BY <1>6, <3>1, <3>6 DEF SkipEvent, Stores
    <2>4. \E m \in DOMAIN batch :
            /\ m < n + 1 /\ batch[m].type = "voyageEnded"
            /\ \A j \in DOMAIN batch :
                  m < j /\ j < n + 1 => batch[j].type \notin LifecycleTypes
      <3>1. CASE batch[n].type = "voyageEnded"
        BY <1>6, <3>1
      <3>2. CASE batch[n].type # "voyageEnded"
        <4>1. batch[n].type \notin LifecycleTypes
          BY <2>3, <3>2 DEF LifecycleTypes
        <4>2. ASSUME NEW j \in DOMAIN batch, k < j, j < n + 1
              PROVE  batch[j].type \notin LifecycleTypes
          <5>1. j < n \/ j = n
            BY <1>6, <4>2
          <5> QED
            BY <2>2, <4>1, <4>2, <5>1
        <4>3. k < n + 1
          BY <1>6, <2>2
        <4> QED
          BY <2>2, <4>2, <4>3
      <3> QED
        BY <3>1, <3>2
    <2>5. i < n + 1
      BY <1>6, <2>1
    <2>6. txn[r].at < txn[r].mine.deleteAfter
      BY <1>7 DEF EndedByLoop
    <2> QED
      BY <1>2, <1>3, <1>4, <2>1, <2>4, <2>5, <2>6 DEF EndedByLoop
  <1> QED
    BY <1>1, <1>2, <1>3, <1>5, <1>7 DEF EndOwned, In, SameEnd

LEMMA StoreOwned ==
    ASSUME TypeInv, NEW r \in Relays, EndOwned(r), StoreEvent(r)
    PROVE  EndOwned(r)'
  <1> DEFINE e == CurrentEvent(r)
             row == [txn[r].mine EXCEPT !.count = @ + 1]
             new == [sequence |-> nextSequence, event |-> e,
                     expires |-> KeptUntil(r)]
             added == txn[r].added \cup {new}
             mine == AfterLifecycle(row, e.type, txn[r].at)
             t == [txn[r] EXCEPT !.added = added, !.mine = mine,
                                 !.step = @ + 1]
             batch == txn[r].request.batch
             n == txn[r].step
             held == IdsOf(EventsIn(LiveRows(r)))
  <1>1. /\ In(r, "store") /\ txn[r] # NoTxn /\ txn[r].pc = "store"
        /\ txn[r] \in Txn /\ Storing(r) /\ e \in Event
        /\ txn[r].mine \in VoyageRow /\ txn[r].at \in Nat
    BY CurrentEventType DEF StoreEvent, Storing, In, Txn
  <1>2. /\ row \in VoyageRow /\ row.deleteAfter = txn[r].mine.deleteAfter
        /\ row.endedAt = txn[r].mine.endedAt
    BY <1>1 DEF VoyageRow
  <1>3. txn[r].at < mine.deleteAfter
    <2>1. txn[r].mine.deleteAfter > txn[r].at
      BY <1>1, DeadOnArrival DEF StoreEvent, Stores
    <2>2. txn[r].at < row.deleteAfter
      BY <1>1, <1>2, <2>1 DEF VoyageRow
    <2> QED
      BY <1>1, <1>2, <2>2, LifecycleLater DEF Event
  <1>4. /\ n \in DOMAIN batch /\ n \in Nat /\ DOMAIN batch \subseteq Nat
        /\ e = batch[n]
    BY <1>1, BatchesAssumption DEF Storing, Txn, Request, CurrentEvent
  <1>5. e.id \notin held
    BY DEF StoreEvent, Stores
  <1>6. txn'[r] = t /\ rows' = rows
    BY DEF StoreEvent, TypeInv, TypeOK, db
  <1>7. mine = AfterLifecycle(row, batch[n].type, txn[r].at)
    BY <1>4
  <1>8. batch[n].id \notin held
    BY <1>4, <1>5
  <1> HIDE DEF e, row, new, added, mine
  <1>9. /\ t.pc = "store" /\ t.at = txn[r].at /\ t.request = txn[r].request
        /\ t.mine = mine /\ t.loaded = txn[r].loaded /\ t.step = n + 1
    BY <1>1 DEF Txn
  <1> HIDE DEF t
  <1>10. LiveRows(r)' = LiveRows(r)
    BY <1>6, <1>9 DEF LiveRows
  <1>11. InOrder(r)'
    BY <1>1, <1>6, <1>9, <1>10 DEF EndOwned, InOrder
  <1>12. ASSUME NEW i \in DOMAIN batch, i < n + 1,
                batch[i].type = "voyageEnded", batch[i].id \notin held,
                NEW k \in DOMAIN batch, k < n + 1,
                batch[k].type = "voyageEnded",
                \A j \in DOMAIN batch :
                    k < j /\ j < n + 1 => batch[j].type \notin LifecycleTypes
         PROVE  EndedByLoop(r)'
    BY <1>3, <1>6, <1>9, <1>10, <1>12 DEF EndedByLoop
  <1>13. ASSUME mine.endedAt # None PROVE SameEnd(txn[r])' \/ EndedByLoop(r)'
    <2>1. CASE batch[n].type = "voyageEnded"
      <3>1. CASE row.endedAt = None
        BY <1>4, <1>8, <1>12, <2>1
      <3>2. CASE row.endedAt # None
        <4>1. mine = row
          BY <1>7, <2>1, <3>2 DEF AfterLifecycle
        <4>2. CASE SameEnd(txn[r])
          BY <1>2, <1>6, <1>9, <4>1, <4>2 DEF SameEnd
        <4>3. CASE EndedByLoop(r)
          BY <1>4, <1>8, <1>12, <2>1
        <4> QED
          BY <1>1, <1>2, <3>2, <4>2, <4>3 DEF EndOwned
      <3> QED
        BY <3>1, <3>2
    <2>2. CASE batch[n].type = "voyageReopened"
      <3>1. mine.endedAt = None
        BY <1>2, <1>7, <2>2 DEF AfterLifecycle, VoyageRow
      <3> QED
        BY <1>13, <3>1
    <2>3. CASE batch[n].type \notin LifecycleTypes
      <3>1. mine = row
        BY <1>7, <2>3 DEF AfterLifecycle, LifecycleTypes
      <3>2. CASE SameEnd(txn[r])
        BY <1>2, <1>6, <1>9, <3>1, <3>2 DEF SameEnd
      <3>3. CASE EndedByLoop(r)
        <4>1. PICK i \in DOMAIN batch :
                /\ i < n /\ batch[i].type = "voyageEnded"
                /\ batch[i].id \notin held
          BY <3>3 DEF EndedByLoop
        <4>2. PICK k \in DOMAIN batch :
                /\ k < n /\ batch[k].type = "voyageEnded"
                /\ \A j \in DOMAIN batch :
                      k < j /\ j < n => batch[j].type \notin LifecycleTypes
          BY <3>3 DEF EndedByLoop
        <4>3. ASSUME NEW j \in DOMAIN batch, k < j, j < n + 1
              PROVE  batch[j].type \notin LifecycleTypes
          <5>1. j < n \/ j = n
            BY <1>4, <4>3
          <5> QED
            BY <2>3, <4>2, <4>3, <5>1
        <4>4. i < n + 1 /\ k < n + 1
          BY <1>4, <4>1, <4>2
        <4> QED
          BY <1>12, <4>1, <4>2, <4>3, <4>4
      <3> QED
        BY <1>1, <1>2, <1>13, <3>1, <3>2, <3>3 DEF EndOwned
    <2> QED
      BY <2>1, <2>2, <2>3 DEF LifecycleTypes
  <1> QED
    BY <1>1, <1>6, <1>9, <1>11, <1>13 DEF EndOwned, In

LEMMA WorkOwned ==
    ASSUME ReopeningsAskNoLife, TypeInv, ClockInv, LifecycleInv,
           NEW r \in Relays, EndOwned(r), Work(r), EnterStore(r) => InOrder(r)
    PROVE  EndOwned(r)'
  <1>1. CASE ClaimVoyage(r)
    <2> DEFINE claimed == [count |-> 0, endedAt |-> None,
                           deleteAfter |-> txn[r].at + VoyageRetention,
                           lastSeen |-> txn[r].at]
               row == IF voyage = NoVoyage THEN claimed ELSE voyage
    <2>1. txn[r] \in Txn
      BY <1>1 DEF ClaimVoyage, In, TypeInv, TxnInv
    <2>2. txn'[r] = [txn[r] EXCEPT !.pc = "lock", !.mine = row, !.loaded = row]
      BY <1>1 DEF ClaimVoyage, TypeInv, TypeOK
    <2> HIDE DEF row
    <2>3. txn'[r].pc = "lock"
      BY <2>1, <2>2 DEF Txn
    <2> QED
      BY <2>3 DEF EndOwned, In
  <1>2. ASSUME NEW pc \in {"store", "replay"}, Locks(r), Purge(r, pc),
               pc = "store" => InOrder(r)
        PROVE  EndOwned(r)'
    <2> DEFINE row == [txn[r].mine EXCEPT !.count =
                         Less(txn[r].mine.count,
                              Cardinality(Expired(rows, txn[r].at)))]
               dirty == IF row = txn[r].mine THEN {} ELSE {"count"}
    <2>1. txn[r] \in Txn
      BY <1>2 DEF Locks, In, TypeInv, TxnInv
    <2>2. /\ txn'[r] = [txn[r] EXCEPT !.pc = pc, !.mine = row, !.loaded = row,
                                      !.dirty = dirty]
          /\ rows' = rows
      BY <1>2 DEF Purge, TypeInv, TypeOK, db
    <2> HIDE DEF row, dirty
    <2>3. /\ txn'[r].pc = pc /\ txn'[r].at = txn[r].at
          /\ txn'[r].mine = row /\ txn'[r].loaded = row
          /\ txn'[r].request = txn[r].request
      BY <2>1, <2>2 DEF Txn
    <2>4. pc = "store" => InOrder(r)'
      BY <1>2, <2>2, <2>3 DEF InOrder, LiveRows
    <2> QED
      BY <2>3, <2>4 DEF EndOwned, In, SameEnd
  <1>3. CASE EnterReplay(r) \/ EnterStore(r)
    BY <1>2, <1>3 DEF EnterReplay, EnterStore
  <1>4. CASE \/ VoyageVanished(r) \/ Conflict(r) \/ EventQuota(r)
             \/ ReplayQuota(r) \/ FinishReplay(r) \/ FinishStore(r)
    <2>1. txn' = [txn EXCEPT ![r] = NoTxn]
      BY <1>4 DEF VoyageVanished, Conflict, EventQuota, ReplayQuota, Rollback,
                  FinishReplay, FinishStore, Finish
    <2>2. txn'[r] = NoTxn
      BY <2>1 DEF TypeInv, TypeOK
    <2> QED
      BY <2>2 DEF EndOwned, In
  <1>5. CASE SkipEvent(r) \/ StoreEvent(r)
    BY <1>5, SkipOwned, StoreOwned
  <1> QED
    BY <1>1, <1>3, <1>4, <1>5 DEF Work

LEMMA OwnedStep ==
    ASSUME ReopeningsAskNoLife, TypeInv, JournalInv, ClockInv, LifecycleInv,
           [Next]_vars, NEW q \in Relays, EndOwned(q),
           EnterStore(q) => InOrder(q)
    PROVE  EndOwned(q)'
  <1>1. CASE Work(q)
    BY <1>1, WorkOwned
  <1>2. CASE Crash(q)
    BY <1>2 DEF Crash, Rollback, EndOwned, In, TypeInv, TypeOK
  <1>3. CASE Receive(q)
    <2>1. txn'[q].pc \in {"claim", "lock"}
      BY <1>3 DEF Receive, BeginSync, TypeInv, TypeOK
    <2> QED
      BY <2>1 DEF EndOwned, In
  <1>4. CASE ~Work(q) /\ ~Crash(q) /\ ~Receive(q)
    <2>1. txn'[q] = txn[q]
      BY <1>4, OtherTransaction
    <2>2. In(q, "store") => rows' = rows
      BY <1>4, HeldRows DEF InsideLock
    <2> QED
      BY <2>1, <2>2 DEF EndOwned, In, SameEnd, InOrder, EndedByLoop, LiveRows
  <1> QED
    BY <1>1, <1>2, <1>3, <1>4

\* A commit that leaves an ended voyage found it so, with no position, or ended
\* it by an upload whose last word is the end, and discards them.
LEMMA FinishEmptied ==
    ASSUME TypeInv, DeadlineInv, Emptied, NEW r \in Relays, EndOwned(r),
           FinishStore(r) \/ FinishReplay(r)
    PROVE  Emptied'
  <1> DEFINE row == AfterSync(txn[r].mine, txn[r].at)
             d == IF txn[r].mine.endedAt = None THEN txn[r].at + VoyageRetention
                  ELSE txn[r].mine.deleteAfter
             batch == txn[r].request.batch
  <1>1. PICK accepted \in SUBSET STRING : /\ In(r, "store") \/ In(r, "replay")
                                         /\ Finish(r, accepted)
    <2>1. CASE FinishStore(r)
      BY <2>1, AcceptedType DEF FinishStore, Stored
    <2>2. CASE FinishReplay(r)
      <3>1. PICK p \in EarlierAnswers(r) : Finish(r, p.accepted)
        BY <2>2 DEF FinishReplay
      <3>2. p.accepted \in SUBSET STRING
        BY DEF EarlierAnswers, LiveReplays, TypeInv, TypeOK, Replay
      <3> QED
        BY <2>2, <3>1, <3>2 DEF FinishReplay
    <2> QED
      BY <2>1, <2>2
  <1>2. /\ txn[r] \in Txn /\ txn[r].mine \in VoyageRow /\ txn[r].pc # "claim"
        /\ txn[r] # NoTxn
    BY <1>1 DEF In, TypeInv, TxnInv
  <1>3. \A f \in Deadline : voyage'[f] = row[f]
    BY <1>1, DeadlineWritten
  <1>4. row = [txn[r].mine EXCEPT !.lastSeen = txn[r].at, !.deleteAfter = d]
    BY DEF AfterSync
  <1>5. /\ row.endedAt = txn[r].mine.endedAt
        /\ row.endedAt # None => row.deleteAfter = txn[r].mine.deleteAfter
    BY <1>2, <1>4 DEF VoyageRow
  <1> HIDE DEF row, d
  <1>6. /\ voyage'.endedAt = txn[r].mine.endedAt
        /\ voyage'.endedAt # None => voyage'.deleteAfter = txn[r].mine.deleteAfter
    BY <1>3, <1>5 DEF Deadline
  <1>7. /\ now' = now /\ voyage' = WriteBack(voyage, row,
              txn[r].dirty \cup {f \in Attributes : row[f] # txn[r].loaded[f]})
        /\ positions' \in {positions, [s \in Sailors |-> 0]}
    BY <1>1 DEF Finish, FinishStore, FinishReplay, row
  <1>8. positions' = [s \in Sailors |-> 0] => Occupied(positions)' = {}
    BY DEF Occupied
  <1>9. voyage' # NoVoyage
    BY <1>1, FinishType, NoVoyageAssumption
  <1>10. SUFFICES ASSUME voyage'.endedAt # None, now < voyage'.deleteAfter,
                         positions' = positions
                  PROVE  Occupied(positions) = {}
    BY <1>7, <1>8, <1>9 DEF Emptied, Occupied
  <1>11. CASE SameEnd(txn[r])
    <2>1. voyage # NoVoyage => /\ voyage.endedAt = txn[r].loaded.endedAt
                               /\ voyage.deleteAfter = txn[r].loaded.deleteAfter
      BY <1>2 DEF DeadlineInv, DeadlineCopied, Deadline
    <2> QED
      BY <1>6, <1>10, <1>11, <2>1 DEF Emptied, SameEnd
  <1>12. CASE In(r, "store") /\ EndedByLoop(r)
    <2>1. FinishStore(r) /\ txn[r].step > Len(batch)
      BY <1>12 DEF FinishStore, FinishReplay, Stored, In
    <2>2. PICK k \in DOMAIN batch :
            /\ batch[k].type = "voyageEnded"
            /\ \A j \in DOMAIN batch :
                  k < j /\ j < txn[r].step => batch[j].type \notin LifecycleTypes
      BY <1>12 DEF EndedByLoop
    <2>3. \A j \in DOMAIN batch : j < txn[r].step /\ (j > k <=> k < j)
      BY <1>2, <2>1, BatchesAssumption DEF Txn, Request
    <2>4. EndsVoyage(batch)
      BY <2>2, <2>3 DEF EndsVoyage
    <2>5. positions' = [s \in Sailors |-> 0]
      BY <2>1, <2>4 DEF FinishStore
    <2> QED
      BY <1>10, <2>5 DEF Occupied
  <1> QED
    BY <1>1, <1>6, <1>10, <1>11, <1>12 DEF EndOwned

LEMMA EmptiedStep ==
    ASSUME ReopeningsAskNoLife, TypeInv, JournalInv, ClockInv, DeadlineInv,
           LifecycleInv, EndedVoyageReportsEnded, EmptiedInv, [Next]_vars,
           \A r \in Relays : EnterStore(r) => InOrder(r)
    PROVE  EmptiedInv'
  <1>1. \A q \in Relays : EndOwned(q)'
    BY OwnedStep DEF EmptiedInv
  <1>2. Emptied'
    <2>1. ASSUME NEW r \in Relays, FinishStore(r) \/ FinishReplay(r)
          PROVE  Emptied'
      BY <2>1, FinishEmptied DEF EmptiedInv
    <2>2. CASE voyage' = voyage /\ positions' = positions /\ now' = now
      BY <2>2 DEF EmptiedInv, Emptied, Occupied
    <2>3. ASSUME NEW r \in Relays, Receive(r) \/ Work(r) \/ Crash(r),
                 ~FinishStore(r), ~FinishReplay(r)
          PROVE  Emptied'
      <3>1. CASE \/ Crash(r) \/ VoyageVanished(r) \/ Conflict(r)
                 \/ EventQuota(r) \/ ReplayQuota(r)
        <4>1. Rollback(r)
          BY <3>1 DEF Crash, VoyageVanished, Conflict, EventQuota, ReplayQuota
        <4> QED
          BY <2>2, <4>1 DEF Rollback, db
      <3>2. CASE \/ Receive(r) \/ ClaimVoyage(r) \/ EnterReplay(r)
                 \/ EnterStore(r) \/ SkipEvent(r) \/ StoreEvent(r)
        <4>1. voyage' = voyage /\ positions' = positions /\ now' = now
          <5>1. CASE Receive(r)
            BY <5>1 DEF Receive, BeginSync, db
          <5>2. CASE ClaimVoyage(r)
            BY <5>2 DEF ClaimVoyage, db
          <5>3. CASE EnterReplay(r) \/ EnterStore(r)
            <6>1. PICK pc \in {"store", "replay"} : Purge(r, pc)
              BY <5>3 DEF EnterReplay, EnterStore
            <6> QED
              BY <6>1 DEF Purge, db
          <5>4. CASE SkipEvent(r) \/ StoreEvent(r)
            BY <5>4 DEF SkipEvent, StoreEvent, db
          <5> QED
            BY <3>2, <5>1, <5>2, <5>3, <5>4
        <4> QED
          BY <2>2, <4>1
      <3> QED
        BY <2>3, <3>1, <3>2 DEF Work
    <2>4. CASE CleanupCount \/ CleanupLock \/ CleanupCrash \/ UNCHANGED vars
      BY <2>2, <2>4 DEF CleanupCount, CleanupLock, CleanupCrash, vars, db
    <2>5. CASE PresenceEnded
      BY <2>5 DEF PresenceEnded, Emptied, Occupied
    <2>6. CASE ReadPositions \/ \E s \in Sailors : SharePosition(s) \/ ClearPosition(s)
      <3>1. /\ voyage' = voyage /\ now' = now /\ Phase # "ended"
            /\ voyage # NoVoyage
        BY <2>6 DEF ReadPositions, SharePosition, ClearPosition, Presence
      <3> QED
        BY <3>1 DEF EndedVoyageReportsEnded, Emptied
    <2>7. CASE CleanupDelete
      <3>1. /\ now' = now
            /\ \A s \in Sailors : positions'[s] \in {0, positions[s]}
            /\ voyage' = NoVoyage => \A s \in Sailors : positions'[s] = 0
        <4>1. voyage # NoVoyage =>
                [voyage EXCEPT !.count = Less(@, cleaner.usage)] \in VoyageRow
          BY DEF TypeInv, TypeOK, VoyageRow, Less
        <4> QED
          BY <2>7, <4>1, NoVoyageAssumption DEF CleanupDelete
      <3>2. voyage' # NoVoyage =>
              voyage # NoVoyage /\ \A f \in Deadline : voyage'[f] = voyage[f]
        BY <2>7 DEF CleanupDelete, Deadline, TypeInv, TypeOK, VoyageRow
      <3> QED
        BY <3>1, <3>2 DEF EmptiedInv, Emptied, Occupied, Deadline
    <2>8. CASE Tick
      <3>1. /\ voyage' = voyage /\ positions' = positions /\ now' = now + 1
            /\ now \in Nat
            /\ voyage # NoVoyage => voyage \in VoyageRow
        BY <2>8 DEF Tick, db, TypeInv, TypeOK
      <3>2. voyage # NoVoyage /\ now' < voyage.deleteAfter => now < voyage.deleteAfter
        BY <3>1 DEF VoyageRow
      <3> QED
        BY <3>1, <3>2 DEF EmptiedInv, Emptied, Occupied
    <2> QED
      BY <2>1, <2>2, <2>3, <2>4, <2>5, <2>6, <2>7, <2>8 DEF Next, Cleanup
  <1> QED
    BY <1>1, <1>2 DEF EmptiedInv

\* On a relay of one process a finished voyage holds no live position until its
\* deadline, as long as the phones upload in the order they record: positions
\* are discarded by what a batch says last, the row ends by what is stored of
\* it, and through skipped, repeated and dead events the two do not part.
THEOREM FinishedVoyageIsEmptied ==
    ASSUME OneRelay, EndsAskNoLife, ReopeningsAskNoLife, GraceWithinRetention
    PROVE  Spec /\ [][UploadsInOrder]_vars => []FinishedVoyageHoldsNoPositions
  <1>1. Init => EmptiedInv /\ DeadlineInv /\ ClockInv
    <2> SUFFICES ASSUME Init PROVE EmptiedInv /\ DeadlineInv /\ ClockInv
      OBVIOUS
    <2>1. ClockInv
      BY DEF Init, ClockInv
    <2> QED
      BY <2>1 DEF Init, EmptiedInv, Emptied, Occupied, EndOwned, In,
                  DeadlineInv, RetentionFollowsLifecycle, DeadlineCopied
  <1>2. TypeInv /\ DeadlineInv /\ [Next]_vars => DeadlineInv'
    BY DeadlineStep
  <1>3. /\ TypeInv /\ JournalInv /\ ClockInv /\ DeadlineInv /\ LifecycleInv
        /\ EndedVoyageReportsEnded /\ EmptiedInv
        /\ [Next]_vars /\ [UploadsInOrder]_vars
        => EmptiedInv'
    <2> SUFFICES ASSUME TypeInv, JournalInv, ClockInv, DeadlineInv, LifecycleInv,
                        EndedVoyageReportsEnded, EmptiedInv, [Next]_vars,
                        [UploadsInOrder]_vars
                 PROVE  EmptiedInv'
      OBVIOUS
    <2>1. CASE UploadsInOrder
      BY <2>1, EmptiedStep DEF UploadsInOrder
    <2>2. CASE UNCHANGED vars
      BY <2>2 DEF vars, EmptiedInv, Emptied, Occupied, EndOwned, In, SameEnd,
                  InOrder, EndedByLoop, LiveRows
    <2> QED
      BY <2>1, <2>2
  <1>4. EmptiedInv => FinishedVoyageHoldsNoPositions
    BY DEF EmptiedInv, Emptied, FinishedVoyageHoldsNoPositions
  <1> QED
    BY <1>1, <1>2, <1>3, <1>4, TypeInit, TypeStep, ClockStep, JournalAlways,
       LifecycleAlways, EndedAlwaysReportsEnded, PTL DEF Spec
=============================================================================
