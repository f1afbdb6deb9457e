--------------------------- MODULE ObserverGrants ---------------------------
(***************************************************************************)
(* Observer access to one voyage: grants that expire and can be revoked,   *)
(* the snapshot a phone publishes to a grant, and the people who read it.  *)
(*                                                                         *)
(* Every request takes the time when it arrives and uses it to its end.    *)
(* Creating a grant counts and inserts under a lock; publishing locks the  *)
(* grant's row, merges what it read with what it was sent and writes;      *)
(* revoking is one conditional statement.  Reading is a function of one    *)
(* row and the clock (Shown): it locks nothing and changes nothing but     *)
(* last_read_at, which nobody reads, so it is an operator here.            *)
(*                                                                         *)
(* A report (status, position, help) is known by the time it carries, 0    *)
(* meaning none.  Tokens, labels, names, routes and encryption are left    *)
(* out, and so are the handlers' rate limits, whose algorithm is           *)
(* RateLimiter, and the wait of a publication for the row's lock: one that *)
(* waits arrives later here.                                               *)
(***************************************************************************)
EXTENDS RelayClock, FiniteSets

CONSTANTS
    Grants,         \* grant identities; none is used twice
    MaxGrants,      \* maximum_observer_grants_per_voyage
    Lives,          \* the durations a creator may ask for
    DeleteAfter,    \* the voyage's delete_after
    Scopes,         \* the scopes asked for: sailor, group
    Creators, Publishers,   \* requests of each kind at once
    Snapshots,      \* what a phone may publish
    Ahead,          \* how far a time may be ahead of the relay's (2 min)
    PositionAge,    \* the oldest position accepted (24 h)
    HelpAge,        \* the oldest call for help accepted (2 h)
    FreshFor, DelayedFor,   \* 90 s and 5 min
    GrantMaxNow,    \* bound: last instant of the clock
    Unmade, Gone    \* a grant not created yet, and one deleted

ASSUME GrantAssumption ==
    /\ {MaxGrants, DeleteAfter, Ahead, PositionAge, HelpAge, FreshFor,
        DelayedFor, GrantMaxNow} \subseteq Nat
    /\ Lives \subseteq Nat
    /\ Scopes \subseteq {"sailor", "group"}
    /\ \A snap \in Snapshots :
          /\ snap.scope \in {"sailor", "group"}
          /\ {snap.version, snap.status, snap.position, snap.helpAt} \subseteq Nat
          /\ snap.help \in BOOLEAN
          /\ snap.party \subseteq Nat
          /\ snap.scope = "sailor" => snap.party = {}
          /\ snap.scope = "group" => snap.position = 0 /\ ~snap.help
    /\ Unmade # Gone

VARIABLES
    grants,     \* observer_grants: a record, Unmade or Gone
    creating,   \* requests to create
    publishing  \* requests to publish

grantVars == <<grants, creating, publishing>>

Stored == [version : Nat, status : Nat, position : Nat, helpAt : Nat,
           help : BOOLEAN, party : SUBSET Nat]
Grant == [scope : {"sailor", "group"}, revoked : BOOLEAN, expires : Nat, snapshot : Stored]

ASSUME GrantNames == Unmade \notin Grant /\ Gone \notin Grant

Exists(g) == grants[g] \notin {Unmade, Gone}
Usable(g, at) == Exists(g) /\ ~grants[g].revoked /\ grants[g].expires > at

NoSnapshot == [version |-> 0, status |-> 0, position |-> 0, helpAt |-> 0,
               help |-> FALSE, party |-> {}]
Resting == [state |-> "resting"]

GrantInit ==
    /\ grants = [g \in Grants |-> Unmade]
    /\ creating = [c \in Creators |-> Resting]
    /\ publishing = [p \in Publishers |-> Resting]

----------------------------------------------------------------------------
(* Creating *)

CreateArrives(c, life, scope) ==
    /\ creating[c] = Resting
    /\ creating' = [creating EXCEPT ![c] = [state |-> "waiting", at |-> now,
                                            life |-> life, scope |-> scope]]
    /\ UNCHANGED <<now, grants, publishing>>

CountsUnlockedMutant == TRUE
\* The process's lock and the voyage row's, taken together.
VoyageFree == \A c \in Creators : creating[c].state # "counted"

\* The count, under the lock; at the limit, or without a voyage, it is refused.
CreateCounts(c) ==
    /\ creating[c].state = "waiting"
    /\ VoyageFree
    /\ creating' = [creating EXCEPT ![c] =
           IF /\ \E g \in Grants : grants[g] = Unmade
              /\ Cardinality({g \in Grants : Usable(g, creating[c].at)}) < MaxGrants
           THEN [@ EXCEPT !.state = "counted"] ELSE Resting]
    /\ UNCHANGED <<now, grants, publishing>>

Expiry(at, life) == IF at + life < DeleteAfter THEN at + life ELSE DeleteAfter

CreateCommits(c) ==
    /\ creating[c].state = "counted"
    /\ \E g \in Grants :
          /\ grants[g] = Unmade
          /\ grants' = [grants EXCEPT ![g] =
                 [scope |-> creating[c].scope, revoked |-> FALSE,
                  expires |-> Expiry(creating[c].at, creating[c].life),
                  snapshot |-> NoSnapshot]]
    /\ creating' = [creating EXCEPT ![c] = Resting]
    /\ UNCHANGED <<now, publishing>>

----------------------------------------------------------------------------
(* Publishing *)

\* The times a phone sends are neither from the future nor too old.
Acceptable(snap) ==
    /\ \A time \in {snap.version, snap.status, snap.helpAt, snap.position} \cup snap.party :
           time <= now + Ahead
    /\ \A time \in ({snap.position} \cup snap.party) \ {0} : time + PositionAge >= now
    /\ snap.help => snap.helpAt + HelpAge >= now

MergesUnlockedMutant(g) == TRUE
\* The row of a grant, locked by a publication from its read to its commit.
GrantFree(g) == \A p \in Publishers : publishing[p].state = "merging" => publishing[p].grant # g

\* The request is checked, and the row locked and read.  A grant that cannot
\* be used, another scope or a version that is not newer refuses it.
PublishReads(p, g, snap) ==
    /\ publishing[p] = Resting
    /\ Acceptable(snap)
    /\ GrantFree(g)
    /\ Usable(g, now)
    /\ grants[g].scope = snap.scope
    /\ grants[g].snapshot.version < snap.version
    /\ publishing' = [publishing EXCEPT ![p] =
           [state |-> "merging", at |-> now, grant |-> g, snap |-> snap,
            read |-> grants[g].snapshot]]
    /\ UNCHANGED <<now, grants, creating>>

Later(a, b) == IF a > b THEN a ELSE b

\* What is stored: the later of each report; a group's is all from the new one.
Merge(current, snap) ==
    [version |-> snap.version,
     status |-> Later(current.status, snap.status),
     position |-> IF snap.scope = "group" THEN 0 ELSE Later(current.position, snap.position),
     helpAt |-> Later(current.helpAt, snap.helpAt),
     help |-> IF snap.helpAt >= current.helpAt THEN snap.help
              ELSE snap.scope = "sailor" /\ current.help,
     party |-> snap.party]

\* The conditional UPDATE and the commit.
PublishWrites(p) ==
    LET g == publishing[p].grant
    IN  /\ publishing[p].state = "merging"
        /\ grants' = IF Usable(g, publishing[p].at)
                     THEN [grants EXCEPT ![g].snapshot =
                               Merge(publishing[p].read, publishing[p].snap)]
                     ELSE grants
        /\ publishing' = [publishing EXCEPT ![p] = Resting]
        /\ UNCHANGED <<now, creating>>

----------------------------------------------------------------------------
(* Revoking, deleting, what a reader is shown *)

KeepsSnapshotMutant(row) == [row EXCEPT !.revoked = TRUE]
Revoked(row) == [row EXCEPT !.revoked = TRUE, !.snapshot = NoSnapshot]

RevokeGrant(g) ==
    /\ GrantFree(g)
    /\ Usable(g, now)
    /\ grants' = [grants EXCEPT ![g] = Revoked(@)]
    /\ UNCHANGED <<now, creating, publishing>>

\* The clean-up: expired grants, and all of them with the voyage.
PurgeGrants ==
    LET due == {g \in Grants : Exists(g) /\ (grants[g].expires <= now \/ DeleteAfter <= now)}
    IN  /\ due # {}
        /\ \A g \in due : GrantFree(g)
        /\ DeleteAfter <= now => VoyageFree
        /\ grants' = [g \in Grants |->
                         IF g \in due \/ (DeleteAfter <= now /\ grants[g] = Unmade)
                         THEN Gone ELSE grants[g]]
        /\ UNCHANGED <<now, creating, publishing>>

Age(time, at) == IF at > time THEN at - time ELSE 0

Freshness(time, at) ==
    CASE time = 0 -> "unavailable"
      [] time # 0 /\ Age(time, at) <= FreshFor -> "fresh"
      [] time # 0 /\ Age(time, at) > FreshFor /\ Age(time, at) <= DelayedFor -> "delayed"
      [] OTHER -> "offline"

FreshestFirstMutant == <<"fresh", "delayed", "offline">>
Ranked == <<"offline", "delayed", "fresh">>

\* A group is as fresh as the stalest of those who have a position at all.
GroupFreshness(party, at) ==
    LET known == {Freshness(time, at) : time \in party \ {0}}
    IN  IF known = {} THEN "unavailable"
        ELSE Ranked[CHOOSE i \in 1..3 : /\ Ranked[i] \in known
                                        /\ \A j \in 1..(i - 1) : Ranked[j] \notin known]

\* What a reader is shown of a row.
Shown(row, at) ==
    [snapshot |-> [row.snapshot EXCEPT !.help = @ /\ row.scope = "sailor"],
     freshness |-> IF row.scope = "sailor" THEN Freshness(row.snapshot.position, at)
                   ELSE GroupFreshness(row.snapshot.party, at)]

GrantTick == TickTo(GrantMaxNow) /\ UNCHANGED grantVars

GrantNext ==
    \/ \E c \in Creators, life \in Lives, scope \in Scopes :
           CreateArrives(c, life, scope)
    \/ \E c \in Creators : CreateCounts(c) \/ CreateCommits(c)
    \/ \E p \in Publishers, g \in Grants, snap \in Snapshots : PublishReads(p, g, snap)
    \/ \E p \in Publishers : PublishWrites(p)
    \/ \E g \in Grants : RevokeGrant(g)
    \/ PurgeGrants
    \/ GrantTick

GrantSpec == now = 0 /\ GrantInit /\ [][GrantNext]_<<now, grantVars>>

----------------------------------------------------------------------------
(* Properties *)

GrantTypeOK ==
    /\ now \in Nat
    /\ grants \in [Grants -> Grant \cup {Unmade, Gone}]
    /\ creating \in [Creators ->
           {Resting} \cup [state : {"waiting", "counted"}, at : Nat, life : Lives,
                          scope : {"sailor", "group"}]]
    /\ publishing \in [Publishers ->
           {Resting} \cup [state : {"merging"}, at : Nat, grant : Grants,
                          snap : Snapshots, read : Stored]]

\* A revoked grant keeps nothing of what was published, whatever publication
\* was on its way when it was revoked.
RevokedHoldsNothing ==
    \A g \in Grants : Exists(g) /\ grants[g].revoked => grants[g].snapshot = NoSnapshot

\* A voyage never has more than its maximum of grants in use, however many
\* requests to create one count at the same time.
ActiveGrantsCapped == Cardinality({g \in Grants : Usable(g, now)}) <= MaxGrants

\* When the voyage's status, a sailor's position and the call for help were
\* reported.  (A group's party is not among these: each publication replaces it.)
NotOlder(old, new) ==
    /\ old.status <= new.status
    /\ old.position <= new.position
    /\ old.helpAt <= new.helpAt

\* Two phones, or one phone's retries, publish to a grant out of order: the
\* stored version grows with every write, and the time of the status, of a
\* sailor's own position and of the call for help never goes back, until the
\* grant is revoked or deleted.  Nothing is said of the positions of a group's
\* party, which may: a newer version brings the ones its phone knows.
StampsNeverGoBack ==
    [][\A g \in Grants :
          Exists(g) /\ Exists(g)' /\ ~(grants[g].revoked)' =>
              \/ UNCHANGED grants[g]
              \/ /\ grants[g].snapshot.version < (grants[g].snapshot.version)'
                 /\ NotOlder(grants[g].snapshot, (grants[g].snapshot)')]_<<now, grantVars>>

\* Whoever reads a grant, whenever, is not told that a boat, or a group, is
\* fresh when a position they are shown is not.
StaleNeverShownFresh ==
    \A g \in Grants : Usable(g, now) =>
        LET answer == Shown(grants[g], now)
        IN  answer.freshness = "fresh" =>
                \A time \in ({answer.snapshot.position} \cup answer.snapshot.party) \ {0} :
                    time + FreshFor >= now
=============================================================================
