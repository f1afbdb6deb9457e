---------------------------- MODULE PushDispatch ----------------------------
(***************************************************************************)
(* Push notifications of one voyage on the relay.                          *)
(*                                                                         *)
(* A sync that carried events leaves a background task with ALL of them,   *)
(* those it had stored before included.  The task locks the voyage row,    *)
(* reads who is on board from the member rows (rebuilt once from the       *)
(* journal for a voyage older than those rows), reads the registrations    *)
(* without a lock, and for each message and recipient inserts a delivery   *)
(* row, whose unique key is what stops a second attempt, and calls the     *)
(* provider.  It commits once, at the end: until then a rollback or the    *)
(* death of the process forgets the rows, not the calls.                   *)
(*                                                                         *)
(* Titles, bodies, provider formats and credentials are left out; so is    *)
(* the role a registration carries, which no decision reads.  A device     *)
(* has one registration here (the code allows one per provider).           *)
(***************************************************************************)
EXTENDS RelayClock, Sequences, FiniteSets

CONSTANTS
    Devices,        \* installations
    Batches,        \* the uploads: sequences of events
    Earlier,        \* the events of a voyage older than the member rows
    Tokens,         \* provider tokens
    Choices,        \* the sets of categories a device may ask for
    Invalid,        \* tokens the provider rejects for good
    Configured,     \* devices whose provider has credentials on this relay
    Tasks,          \* background tasks that can exist at once
    Deadline,       \* the voyage's delete_after: later events are not stored
    ExpireAfter,    \* silence after which a member is not told (12 h)
    PushMaxNow,     \* bound: last instant of the clock
    MaxSyncs,       \* bound: uploads
    MaxChanges,     \* bound: registrations and revocations
    MaxLosses,      \* bound: rollbacks and deaths of a task
    None

ASSUME PushAssumption ==
    /\ {Deadline, ExpireAfter, PushMaxNow, MaxSyncs, MaxChanges, MaxLosses} \subseteq Nat
    /\ Invalid \subseteq Tokens
    /\ Configured \subseteq Devices

VARIABLES
    journal,    \* the stored events, each under its sequence number
    ready,      \* membership_projection_ready
    members,    \* voyage_members: a record or None per device
    regs,       \* push_registrations: a record or None per device
    deliveries, \* committed push_deliveries: [event, device, status]
    tasks,      \* the background tasks
    attempts,   \* provider calls per <<event, device>>, a history
    syncs, changes, losses

pushVars == <<journal, ready, members, regs, deliveries, tasks, attempts,
              syncs, changes, losses>>

Elements(seq) == {seq[i] : i \in DOMAIN seq}
AllEvents == (UNION {Elements(batch) : batch \in Batches}) \cup Elements(Earlier)
EventIds == {e.id : e \in AllEvents}
StoredIds == {e.id : e \in Elements(journal)}

ASSUME UploadsAssumption ==
    /\ Batches \cup {Earlier} \subseteq Seq(AllEvents)
    /\ \A e \in AllEvents : e.created \in Nat

----------------------------------------------------------------------------
(* Who is on board *)

KnownRoles == {"skipper", "lead", "sailor", "sweeper", "marker"}
CoordinatorRoles == {"skipper", "lead", "sweeper"}

SafeRole(value) == IF value \in KnownRoles THEN value ELSE "sailor"

Member == [role : KnownRoles, state : {"joined", "left"}, seen : Nat]
Registration == [token : Tokens, preferences : Choices, revoked : BOOLEAN]

ASSUME NoneAssumption == None \notin Member \cup Registration

NoMembers == [d \in Devices |-> None]

SetsRole(e) == e.type \in {"sailorJoined", "roleChanged", "markerStarted", "markerEnded"}
SetsState(e) == e.type \in {"sailorJoined", "sailorLeft"}
RoleSet(e) == IF e.type = "markerStarted" THEN "marker" ELSE SafeRole(e.role)
StateSet(e) == IF e.type = "sailorJoined" THEN "joined" ELSE "left"

\* Positions of the events of device d, and the last of a set of positions.
By(d, events) == {i \in DOMAIN events : events[i].device = d}
Last(positions) == CHOOSE i \in positions : \A j \in positions : j <= i

\* The member row of a device after some more of its events, in order of
\* arrival: the last event that sets the role, or the state, wins, and the
\* latest creation time is kept.
Projected(row, events, mine) ==
    LET naming == {i \in mine : SetsRole(events[i])}
        moving == {i \in mine : SetsState(events[i])}
        times == {events[i].created : i \in mine}
                 \cup (IF row = None THEN {} ELSE {row.seen})
    IN  [role |-> IF naming # {} THEN RoleSet(events[Last(naming)])
                  ELSE IF row = None THEN "sailor" ELSE row.role,
         state |-> IF moving # {} THEN StateSet(events[Last(moving)])
                   ELSE IF row = None THEN "joined" ELSE row.state,
         seen |-> Last(times)]

Project(rows, events) ==
    [d \in Devices |-> IF By(d, events) = {} THEN rows[d]
                       ELSE Projected(rows[d], events, By(d, events))]

StillToldMutant(rows, d) == rows[d] # None /\ now < rows[d].seen + ExpireAfter

\* A member who may be told: known, not gone, not silent for too long.
Reachable(rows, d) ==
    /\ rows[d] # None
    /\ rows[d].state # "left"
    /\ now < rows[d].seen + ExpireAfter

----------------------------------------------------------------------------
(* What an event tells whom *)

Message(e, category, critical, ids, roles, everyone) ==
    [event |-> e.id, sender |-> e.device, category |-> category,
     critical |-> critical, ids |-> ids, roles |-> roles, everyone |-> everyone]

NamedOrCoordinators(e) == IF e.recipients = {} THEN CoordinatorRoles ELSE {}

\* The messages of an event: one, or none.
Classify(e) ==
    CASE e.type = "statusMessage" /\ e.detail \in {"emergencyStop", "assistance"} ->
            {Message(e, "safety", TRUE, e.recipients, NamedOrCoordinators(e), FALSE)}
      [] e.type = "statusMessage"
         /\ e.detail \in {"stopped", "mechanical", "fuel", "routeBlocked"} ->
            {Message(e, "safety", FALSE, e.recipients, NamedOrCoordinators(e), FALSE)}
      [] e.type = "statusMessage" /\ e.detail \in {"allPassed", "resolved"} ->
            {Message(e, "status", FALSE, e.recipients,
                     CoordinatorRoles \cup {"marker"}, FALSE)}
      [] e.type = "routeDeviationChanged" /\ e.detail \in {"urgent", "critical"} ->
            {Message(e, "safety", e.detail = "critical", e.recipients \cup e.affected,
                     CoordinatorRoles, e.everyone /\ e.detail = "critical")}
      [] e.type = "iceInfoShared" ->
            {Message(e, "safety", TRUE, e.recipients, {}, e.recipients = {})}
      [] e.type \in {"markerStarted", "markerEnded"} ->
            {Message(e, "status", FALSE, {}, CoordinatorRoles, FALSE)}
      [] e.type \in {"voyagePaused", "voyageResumed", "voyageEnded"} ->
            {Message(e, "administrative", FALSE, {}, {}, TRUE)}
      [] OTHER -> {}

Messages(batch) == UNION {Classify(e) : e \in Elements(batch)}

Targets(m, rows, d) == m.everyone \/ d \in m.ids \/ rows[d].role \in m.roles

PreferenceFirstMutant(m, reg) == m.category \in reg.preferences
PreferenceAllows(m, reg) == m.critical \/ m.category \in reg.preferences

\* The loop of dispatch: which devices hear of which message.
Recipients(m, rows, table) ==
    {d \in Devices : /\ table[d] # None
                     /\ ~table[d].revoked
                     /\ Reachable(rows, d)
                     /\ d # m.sender
                     /\ Targets(m, rows, d)
                     /\ PreferenceAllows(m, table[d])}

----------------------------------------------------------------------------
Delivery == [event : EventIds, device : Devices,
             status : {"delivered", "failed", "not_configured"}]

Task == [state : {"idle", "queued", "sending"}, batch : Batches \cup {<<>>},
         rows : [Devices -> Member \cup {None}],
         table : [Devices -> Registration \cup {None}], rebuilt : BOOLEAN,
         todo : SUBSET (EventIds \X Devices), reserved : SUBSET Delivery,
         revoking : SUBSET Devices, flushed : SUBSET Devices]

Idle == [state |-> "idle", batch |-> <<>>, rows |-> NoMembers, table |-> NoMembers,
         rebuilt |-> FALSE, todo |-> {}, reserved |-> {}, revoking |-> {}, flushed |-> {}]

PushInit ==
    /\ \/ journal = <<>> /\ ready = TRUE      \* claimed by this version
       \/ journal = Earlier /\ ready = FALSE  \* in flight during the upgrade
    /\ members = NoMembers
    /\ regs = NoMembers
    /\ deliveries = {}
    /\ tasks = [t \in Tasks |-> Idle]
    /\ attempts = [p \in EventIds \X Devices |-> 0]
    /\ syncs = 0 /\ changes = 0 /\ losses = 0

\* The voyage row's lock is held from the first read of a dispatch to its commit.
Locked == \E t \in Tasks : tasks[t].state = "sending"

\* Mutants (here and below, a name in ...Mutant): what a plausible bug would
\* make of the definition that follows.
\* What a sync stores of an upload: the events it does not have, unless the
\* voyage is past its deadline.  They are numbered after all that is stored, in
\* the order of the upload; only the order of these numbers is ever read.
Newest == IF DOMAIN journal = {} THEN 0 ELSE Last(DOMAIN journal)
NewEvents(batch) ==
    LET new == {i \in DOMAIN batch : batch[i].id \notin StoredIds /\ now < Deadline}
    IN  [n \in {Newest + i : i \in new} |-> batch[n - Newest]]

Merged(older, newer) ==
    [n \in DOMAIN older \cup DOMAIN newer |->
         IF n \in DOMAIN older THEN older[n] ELSE newer[n]]

AppendsListMutant(batch) ==
    [n \in DOMAIN journal \cup {Newest + 1} |->
         IF n \in DOMAIN journal THEN journal[n] ELSE batch]
JournalAfter(batch) == Merged(journal, NewEvents(batch))

ProjectsRepeatsMutant(batch) == Project(members, batch)
MembersAfter(batch) == Project(members, NewEvents(batch))

\* A sync, as far as this component sees it: under the voyage's lock it stores,
\* projects what it stored, and leaves a task with the whole upload.
Sync(batch) ==
    /\ syncs < MaxSyncs
    /\ ~Locked
    /\ \E t \in Tasks :
           /\ tasks[t].state = "idle"
           /\ tasks' = [tasks EXCEPT ![t] = [Idle EXCEPT !.state = "queued",
                                                         !.batch = batch]]
    /\ journal' = JournalAfter(batch)
    /\ members' = MembersAfter(batch)
    /\ syncs' = syncs + 1
    /\ UNCHANGED <<now, ready, regs, deliveries, attempts, changes, losses>>

\* A dispatch that has flushed its verdict on a registration holds its row.
RowFree(d) == \A t \in Tasks : d \notin tasks[t].flushed

Register(d, token, preferences) ==
    /\ changes < MaxChanges
    /\ RowFree(d)
    /\ regs' = [regs EXCEPT ![d] = [token |-> token, preferences |-> preferences,
                                    revoked |-> FALSE]]
    /\ changes' = changes + 1
    /\ UNCHANGED <<now, journal, ready, members, deliveries, tasks, attempts, syncs, losses>>

Revoke(d) ==
    /\ changes < MaxChanges
    /\ regs[d] # None
    /\ ~regs[d].revoked
    /\ RowFree(d)
    /\ regs' = [regs EXCEPT ![d].revoked = TRUE]
    /\ changes' = changes + 1
    /\ UNCHANGED <<now, journal, ready, members, deliveries, tasks, attempts, syncs, losses>>

\* A batch that tells nobody anything needs no lock.
NothingToTell(t) ==
    /\ tasks[t].state = "queued"
    /\ Messages(tasks[t].batch) = {}
    /\ tasks' = [tasks EXCEPT ![t] = Idle]
    /\ UNCHANGED <<now, journal, ready, members, regs, deliveries, attempts,
                   syncs, changes, losses>>

\* The lock is granted; members, rebuilt if need be, and registrations are read.
BeginDispatch(t) ==
    LET rows == IF ready THEN members ELSE Project(NoMembers, journal)
    IN  /\ tasks[t].state = "queued"
        /\ Messages(tasks[t].batch) # {}
        /\ ~Locked
        /\ tasks' = [tasks EXCEPT ![t].state = "sending",
                                  ![t].rows = rows,
                                  ![t].table = regs,
                                  ![t].rebuilt = ~ready,
                                  ![t].todo = UNION {{m.event} \X Recipients(m, rows, regs) :
                                                     m \in Messages(tasks[t].batch)}]
        /\ UNCHANGED <<now, journal, ready, members, regs, deliveries, attempts,
                       syncs, changes, losses>>

OwnRowsOnlyMutant(t, pair) ==
    \A row \in tasks[t].reserved : <<row.event, row.device>> # pair

\* The unique key of push_deliveries, as an insert of this task meets it.
Reservable(t, pair) ==
    \A row \in deliveries \cup tasks[t].reserved : <<row.event, row.device>> # pair

SkipsNothingMutant(t) == FALSE

\* Another dispatch reserved it: the insert fails inside its savepoint.
AlreadyAttempted(t) ==
    /\ tasks[t].state = "sending"
    /\ \E pair \in tasks[t].todo :
           /\ ~Reservable(t, pair)
           /\ tasks' = [tasks EXCEPT ![t].todo = @ \ {pair}]
    /\ UNCHANGED <<now, journal, ready, members, regs, deliveries, attempts,
                   syncs, changes, losses>>

\* Reserve, which flushes what is pending, and call the provider.
Attempt(t) ==
    /\ tasks[t].state = "sending"
    /\ \E pair \in tasks[t].todo, status \in {"delivered", "failed", "not_configured"} :
           LET d == pair[2]
               rejected == tasks[t].table[d].token \in Invalid
           IN  /\ Reservable(t, pair)
               /\ (status = "not_configured") <=> (d \notin Configured)
               /\ rejected => status # "delivered"
               /\ tasks' = [tasks EXCEPT
                      ![t].todo = @ \ {pair},
                      ![t].reserved = @ \cup {[event |-> pair[1], device |-> d,
                                               status |-> status]},
                      ![t].flushed = @ \cup tasks[t].revoking,
                      ![t].revoking = IF rejected /\ d \in Configured THEN {d} ELSE {}]
               /\ attempts' = IF d \in Configured
                              THEN [attempts EXCEPT ![pair] = @ + 1] ELSE attempts
    /\ UNCHANGED <<now, journal, ready, members, regs, deliveries, syncs, changes, losses>>

\* The one commit of a dispatch.
CommitDispatch(t) ==
    /\ tasks[t].state = "sending"
    /\ tasks[t].todo = {}
    /\ deliveries' = deliveries \cup tasks[t].reserved
    /\ regs' = [d \in Devices |-> IF d \in tasks[t].revoking \cup tasks[t].flushed
                                  THEN [regs[d] EXCEPT !.revoked = TRUE] ELSE regs[d]]
    /\ ready' = TRUE
    /\ members' = IF tasks[t].rebuilt THEN tasks[t].rows ELSE members
    /\ tasks' = [tasks EXCEPT ![t] = Idle]
    /\ UNCHANGED <<now, journal, attempts, syncs, changes, losses>>

\* The database fails and the task rolls back, or the process dies.
LoseTask(t) ==
    /\ losses < MaxLosses
    /\ tasks[t].state # "idle"
    /\ tasks' = [tasks EXCEPT ![t] = Idle]
    /\ losses' = losses + 1
    /\ UNCHANGED <<now, journal, ready, members, regs, deliveries, attempts, syncs, changes>>

PushTick ==
    /\ TickTo(PushMaxNow)
    /\ UNCHANGED <<journal, ready, members, regs, deliveries, tasks, attempts,
                   syncs, changes, losses>>

PushNext ==
    \/ \E batch \in Batches : Sync(batch)
    \/ \E d \in Devices, token \in Tokens, p \in Choices : Register(d, token, p)
    \/ \E d \in Devices : Revoke(d)
    \/ \E t \in Tasks : NothingToTell(t) \/ BeginDispatch(t) \/ AlreadyAttempted(t)
                        \/ Attempt(t) \/ CommitDispatch(t) \/ LoseTask(t)
    \/ PushTick

Dispatching(t) == AlreadyAttempted(t) \/ Attempt(t) \/ CommitDispatch(t)

\* A provider call ends (it has a timeout), and PostgreSQL queues the waiters
\* of a row lock; nothing makes a device upload or register.
PushFairness ==
    \A t \in Tasks : /\ WF_pushVars(NothingToTell(t))
                     /\ SF_pushVars(BeginDispatch(t))
                     /\ WF_pushVars(Dispatching(t))

PushSpec == now = 0 /\ PushInit /\ [][PushNext]_<<now, pushVars>>
PushFairSpec == PushSpec /\ PushFairness

----------------------------------------------------------------------------
(* Properties *)

PushTypeOK ==
    /\ now \in Nat
    /\ DOMAIN journal \subseteq Nat /\ Elements(journal) \subseteq AllEvents
    /\ ready \in BOOLEAN
    /\ members \in [Devices -> Member \cup {None}]
    /\ regs \in [Devices -> Registration \cup {None}]
    /\ deliveries \subseteq Delivery
    /\ tasks \in [Tasks -> Task]
    /\ attempts \in [EventIds \X Devices -> Nat]
    /\ syncs \in Nat /\ changes \in Nat /\ losses \in Nat

\* "One provider attempt per durable event and recipient registration"
\* (models.py), uploads retried and dispatched again included: only a dispatch
\* that was lost before its commit can make the provider hear an event twice.
AtMostOneAttempt == \A p \in DOMAIN attempts : attempts[p] <= 1 + losses

\* Nobody is told of a voyage they have left: the lock a dispatch holds keeps
\* a sync from storing a departure while messages are still going out.
LeftHearNothing ==
    [][\A p \in DOMAIN attempts :
           attempts'[p] > attempts[p] =>
               LET row == Project(NoMembers, journal)[p[2]]
               IN  row # None /\ row.state # "left"]_pushVars

\* The member rows kept up to date by each sync are those a rebuild from the
\* journal would make, through retries, repeated events and an upgrade in
\* the middle of a voyage.
ProjectionIsTheJournal == ready => members = Project(NoMembers, journal)

\* An urgent alert that names nobody has been put to every coordinator the
\* dispatch found registered, whatever they prefer, once it commits.
UrgentReachesCoordinators ==
    [][\A t \in Tasks :
           tasks[t].state = "sending" /\ tasks'[t].state = "idle" /\ losses' = losses =>
               \A e \in Elements(tasks[t].batch), d \in Devices :
                   LET row == Project(NoMembers, journal)[d]
                   IN  /\ e.type = "statusMessage" /\ e.detail = "assistance"
                       /\ e.recipients = {} /\ e.device # d
                       /\ tasks[t].table[d] # None /\ ~tasks[t].table[d].revoked
                       /\ row # None
                       /\ row.role \in CoordinatorRoles /\ Reachable(Project(NoMembers, journal), d)
                       => \E x \in deliveries' : x.event = e.id /\ x.device = d]_pushVars

\* Every dispatch ends: none waits for ever for the voyage's lock.
EveryDispatchEnds ==
    \A t \in Tasks : tasks[t].state # "idle" ~> tasks[t].state = "idle"
=============================================================================
