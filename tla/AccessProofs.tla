---------------------------- MODULE AccessProofs ----------------------------
(***************************************************************************)
(* Who may watch a voyage, and what its code hands out: nothing published  *)
(* survives a revocation, the times of a voyage's status, of a sailor's    *)
(* own position and of a call for help never go back, the number of        *)
(* observers is capped, no observer is told that old news is fresh, a code *)
(* that is in use keeps its meaning, and no window sees more guesses at    *)
(* codes than the limiters allow; for any number of requests at once.      *)
(***************************************************************************)
EXTENDS ObserverGrants, JoinCodes, CodeLookups, FiniteSetTheorems, WellFoundedInduction, TLAPS

\* A publication between its read and its write: its grant is as it was read.
Stands(p) ==
    LET g == publishing[p].grant
    IN  /\ Exists(g)
        /\ ~grants[g].revoked
        /\ grants[g].snapshot = publishing[p].read
        /\ grants[g].scope = publishing[p].snap.scope
        /\ publishing[p].read.version < publishing[p].snap.version

Merging(p) == publishing[p].state = "merging"

\* A boat's snapshot has no group in it, and a group's no position of its own.
ScopeKept(row) ==
    /\ row.scope = "sailor" => row.snapshot.party = {}
    /\ row.scope = "group" => row.snapshot.position = 0

PublishInv ==
    /\ GrantTypeOK
    /\ RevokedHoldsNothing
    /\ \A p \in Publishers : Merging(p) => Stands(p)
    /\ \A p, q \in Publishers :
           Merging(p) /\ Merging(q) /\ publishing[p].grant = publishing[q].grant => p = q
    /\ \A g \in Grants : Exists(g) => ScopeKept(grants[g])

LEMMA ExistsRow ==
    ASSUME GrantTypeOK, NEW g \in Grants
    PROVE  Exists(g) <=> grants[g] \in Grant
  BY GrantNames DEF GrantTypeOK, Exists

LEMMA EmptyStored == NoSnapshot \in Stored
  BY DEF NoSnapshot, Stored

LEMMA SnapshotsTyped ==
    ASSUME NEW snap \in Snapshots, NEW current \in Stored
    PROVE  Merge(current, snap) \in Stored
  <1>1. /\ snap.scope \in {"sailor", "group"}
        /\ snap.version \in Nat /\ snap.status \in Nat /\ snap.position \in Nat
        /\ snap.helpAt \in Nat /\ snap.help \in BOOLEAN /\ snap.party \in SUBSET Nat
    BY GrantAssumption
  <1> DEFINE merged == Merge(current, snap)
  <1>2. /\ Later(current.status, snap.status) \in Nat
        /\ Later(current.position, snap.position) \in Nat
        /\ Later(current.helpAt, snap.helpAt) \in Nat
    BY <1>1 DEF Later, Stored
  <1>3. (IF snap.helpAt >= current.helpAt THEN snap.help
         ELSE snap.scope = "sailor" /\ current.help) \in BOOLEAN
    BY <1>1 DEF Stored
  <1>4. (IF snap.scope = "group" THEN 0 ELSE Later(current.position, snap.position)) \in Nat
    BY <1>2
  <1> QED
    BY <1>1, <1>2, <1>3, <1>4 DEF Merge, Stored

\* A step that leaves the requests to publish, and the grants they hold, alone.
LEMMA PublishersLeftAlone ==
    ASSUME PublishInv, GrantTypeOK', publishing' = publishing,
           \A g \in Grants : ~GrantFree(g) => grants'[g] = grants[g],
           \A g \in Grants : Exists(g)' =>
               (Exists(g) /\ grants'[g] = grants[g])
               \/ (grants'[g].snapshot = NoSnapshot)
    PROVE  PublishInv'
  <1>1. RevokedHoldsNothing'
    BY DEF PublishInv, RevokedHoldsNothing
  <1>2. ASSUME NEW p \in Publishers, Merging(p)' PROVE Stands(p)'
    <2>1. Merging(p) /\ publishing[p].grant \in Grants /\ Stands(p)
      BY <1>2 DEF Merging, PublishInv, GrantTypeOK, Resting
    <2>2. grants'[publishing[p].grant] = grants[publishing[p].grant]
      BY <2>1 DEF GrantFree, Merging
    <2> QED
      BY <2>1, <2>2 DEF Stands, Exists
  <1>3. ASSUME NEW g \in Grants, Exists(g)' PROVE ScopeKept(grants[g])'
    BY <1>3 DEF PublishInv, ScopeKept, NoSnapshot
  <1> QED
    BY <1>1, <1>2, <1>3 DEF PublishInv, Merging

LEMMA GrantsUntouched ==
    ASSUME PublishInv, GrantTypeOK', UNCHANGED <<grants, publishing>>
    PROVE  PublishInv'
  BY PublishersLeftAlone DEF Exists

LEMMA CreateCommitsPublish ==
    ASSUME PublishInv, NEW c \in Creators, CreateCommits(c)
    PROVE  PublishInv'
  <1> DEFINE row == [scope |-> creating[c].scope, revoked |-> FALSE,
                     expires |-> Expiry(creating[c].at, creating[c].life),
                     snapshot |-> NoSnapshot]
  <1>1. PICK g \in Grants : grants[g] = Unmade /\ grants' = [grants EXCEPT ![g] = row]
    BY DEF CreateCommits
  <1>2. /\ creating[c].scope \in {"sailor", "group"}
        /\ Expiry(creating[c].at, creating[c].life) \in Nat
    <2>1. /\ creating[c].scope \in {"sailor", "group"}
          /\ creating[c].at \in Nat /\ creating[c].life \in Lives
      BY DEF PublishInv, GrantTypeOK, CreateCommits, Resting
    <2>2. creating[c].life \in Nat /\ DeleteAfter \in Nat
      BY <2>1, GrantAssumption
    <2> QED
      BY <2>1, <2>2 DEF Expiry
  <1>3. row \in Grant /\ row.snapshot = NoSnapshot
    BY <1>2, EmptyStored DEF Grant
  <1> HIDE DEF row
  <1>4. GrantTypeOK' /\ publishing' = publishing
    BY <1>1, <1>3 DEF PublishInv, GrantTypeOK, CreateCommits
  <1>5. GrantFree(g)
    <2>1. \A p \in Publishers : Merging(p) => Exists(publishing[p].grant)
      BY DEF PublishInv, Stands
    <2> QED
      BY <1>1, <2>1 DEF GrantFree, Merging, Exists
  <1>6. \A h \in Grants \ {g} : grants'[h] = grants[h]
    BY <1>1 DEF PublishInv, GrantTypeOK
  <1>7. grants'[g].snapshot = NoSnapshot
    BY <1>1, <1>3 DEF PublishInv, GrantTypeOK
  <1> QED
    BY <1>4, <1>5, <1>6, <1>7, PublishersLeftAlone DEF Exists

LEMMA RevokePublish ==
    ASSUME PublishInv, NEW g \in Grants, RevokeGrant(g)
    PROVE  PublishInv'
  <1>1. grants[g] \in Grant
    BY ExistsRow DEF PublishInv, RevokeGrant, Usable
  <1>2. Revoked(grants[g]) \in Grant /\ Revoked(grants[g]).snapshot = NoSnapshot
    BY <1>1, EmptyStored DEF Revoked, Grant
  <1>3. grants' = [grants EXCEPT ![g] = Revoked(grants[g])] /\ GrantFree(g)
        /\ UNCHANGED <<now, creating, publishing>>
    BY DEF RevokeGrant
  <1>4. GrantTypeOK'
    BY <1>2, <1>3 DEF PublishInv, GrantTypeOK
  <1>5. /\ \A h \in Grants \ {g} : grants'[h] = grants[h]
        /\ grants'[g].snapshot = NoSnapshot
    BY <1>2, <1>3 DEF PublishInv, GrantTypeOK
  <1> QED
    BY <1>3, <1>4, <1>5, PublishersLeftAlone DEF Exists

LEMMA PurgePublish ==
    ASSUME PublishInv, PurgeGrants
    PROVE  PublishInv'
  <1>1. PICK due \in SUBSET Grants :
            /\ \A g \in due : GrantFree(g)
            /\ grants' = [g \in Grants |->
                             IF g \in due \/ (DeleteAfter <= now /\ grants[g] = Unmade)
                             THEN Gone ELSE grants[g]]
            /\ UNCHANGED <<now, creating, publishing>>
    BY DEF PurgeGrants
  <1>2. GrantTypeOK'
    BY <1>1 DEF PublishInv, GrantTypeOK
  <1>3. \A g \in Grants : grants'[g] = grants[g] \/ grants'[g] = Gone
    BY <1>1
  <1>4. \A g \in Grants : ~GrantFree(g) => Exists(g)
    BY DEF PublishInv, Stands, GrantFree, Merging
  <1>5. \A g \in Grants : ~GrantFree(g) => grants'[g] = grants[g]
    BY <1>1, <1>4 DEF Exists
  <1> QED
    BY <1>1, <1>2, <1>3, <1>5, PublishersLeftAlone DEF Exists

LEMMA ReadsPublish ==
    ASSUME PublishInv, NEW p \in Publishers, NEW g \in Grants, NEW snap \in Snapshots,
           PublishReads(p, g, snap)
    PROVE  PublishInv'
  <1> DEFINE work == [state |-> "merging", at |-> now, grant |-> g, snap |-> snap,
                      read |-> grants[g].snapshot]
  <1>1. grants[g] \in Grant
    BY ExistsRow DEF PublishInv, PublishReads, Usable
  <1>2. /\ publishing' = [publishing EXCEPT ![p] = work]
        /\ UNCHANGED <<now, grants, creating>>
    BY DEF PublishReads
  <1>3. GrantTypeOK'
    BY <1>1, <1>2 DEF PublishInv, GrantTypeOK, Grant
  <1>4. /\ publishing'[p] = work
        /\ \A q \in Publishers \ {p} : publishing'[q] = publishing[q]
    BY <1>2 DEF PublishInv, GrantTypeOK
  <1>5. ASSUME NEW q \in Publishers, Merging(q)' PROVE Stands(q)'
    <2>1. CASE q = p
      BY <1>2, <1>4, <2>1 DEF Stands, Exists, PublishReads, Usable
    <2>2. CASE q # p
      BY <1>2, <1>4, <1>5, <2>2 DEF Stands, Exists, Merging, PublishInv
    <2> QED
      BY <2>1, <2>2
  <1>6. ASSUME NEW q \in Publishers, NEW r \in Publishers, Merging(q)', Merging(r)',
               publishing'[q].grant = publishing'[r].grant
        PROVE  q = r
    <2>1. GrantFree(g) /\ work.grant = g
      BY DEF PublishReads
    <2> QED
      BY <1>4, <1>6, <2>1 DEF GrantFree, Merging, PublishInv
  <1> QED
    BY <1>2, <1>3, <1>5, <1>6 DEF PublishInv, RevokedHoldsNothing, Exists, ScopeKept

\* What a publication writes, and that it may.
LEMMA WritesMerge ==
    ASSUME PublishInv, NEW p \in Publishers, PublishWrites(p)
    PROVE  LET g == publishing[p].grant
               merged == Merge(publishing[p].read, publishing[p].snap)
           IN  /\ g \in Grants /\ Exists(g) /\ grants[g] \in Grant /\ ~grants[g].revoked
               /\ publishing[p].snap \in Snapshots /\ merged \in Stored
               /\ grants[g].snapshot = publishing[p].read
               /\ publishing[p].read.version < publishing[p].snap.version
               /\ \/ grants' = grants
                  \/ grants' = [grants EXCEPT ![g] = [@ EXCEPT !.snapshot = merged]]
               /\ publishing' = [publishing EXCEPT ![p] = Resting]
               /\ UNCHANGED <<now, creating>>
  <1> DEFINE g == publishing[p].grant
  <1>1. Stands(p) /\ g \in Grants /\ publishing[p].snap \in Snapshots /\ publishing[p].read \in Stored
    BY DEF PublishInv, Merging, PublishWrites, GrantTypeOK, Resting
  <1>2. Exists(g) /\ grants[g] \in Grant
    BY <1>1, ExistsRow DEF PublishInv, Stands
  <1> QED
    BY <1>1, <1>2, SnapshotsTyped DEF PublishWrites, Stands

LEMMA WritesPublish ==
    ASSUME PublishInv, NEW p \in Publishers, PublishWrites(p)
    PROVE  PublishInv'
  <1> DEFINE g == publishing[p].grant
             snap == publishing[p].snap
             merged == Merge(publishing[p].read, snap)
             row == [grants[g] EXCEPT !.snapshot = merged]
  <1>1. /\ g \in Grants /\ Exists(g) /\ grants[g] \in Grant /\ ~grants[g].revoked
        /\ snap \in Snapshots /\ merged \in Stored
        /\ grants' = grants \/ grants' = [grants EXCEPT ![g] = row]
        /\ publishing' = [publishing EXCEPT ![p] = Resting]
        /\ UNCHANGED <<now, creating>>
    BY WritesMerge
  <1>2. row \in Grant /\ ~row.revoked /\ row.snapshot = merged /\ row.scope = grants[g].scope
    BY <1>1 DEF Grant
  <1>3. ScopeKept(row)
    <2>1. /\ snap.scope = "sailor" => merged.party = {}
          /\ snap.scope = "group" => merged.position = 0
      BY <1>1, GrantAssumption DEF Merge
    <2>2. grants[g].scope = snap.scope
      BY DEF PublishInv, Merging, PublishWrites, Stands
    <2> QED
      BY <1>2, <2>1, <2>2 DEF ScopeKept
  <1> HIDE DEF row, merged
  <1>4. GrantTypeOK'
    BY <1>1, <1>2 DEF PublishInv, GrantTypeOK
  <1>5. \A q \in Publishers : Merging(q)' => q # p /\ Merging(q) /\ publishing'[q] = publishing[q]
    BY <1>1 DEF PublishInv, GrantTypeOK, Merging, Resting
  <1>6. \A h \in Grants \ {g} : grants'[h] = grants[h]
    BY <1>1 DEF PublishInv, GrantTypeOK
  <1>7. grants'[g] \in {grants[g], row}
    BY <1>1 DEF PublishInv, GrantTypeOK
  <1>8. RevokedHoldsNothing'
    BY <1>1, <1>2, <1>6, <1>7 DEF PublishInv, RevokedHoldsNothing, Exists
  <1>9. ASSUME NEW q \in Publishers, Merging(q)' PROVE Stands(q)'
    <2>1. q # p /\ Merging(q) /\ publishing'[q] = publishing[q] /\ Stands(q)
      BY <1>5, <1>9 DEF PublishInv
    <2>2. publishing[q].grant \in Grants /\ publishing[q].grant # g
      BY <2>1 DEF PublishInv, PublishWrites, Merging, GrantTypeOK, Resting
    <2> QED
      BY <1>6, <2>1, <2>2 DEF Stands, Exists
  <1>10. \A h \in Grants : Exists(h)' => ScopeKept(grants[h])'
    BY <1>1, <1>3, <1>6, <1>7 DEF PublishInv, ScopeKept, Exists
  <1>11. \A q, r \in Publishers :
            Merging(q)' /\ Merging(r)' /\ publishing'[q].grant = publishing'[r].grant => q = r
    BY <1>5 DEF PublishInv
  <1> QED
    BY <1>4, <1>8, <1>9, <1>10, <1>11 DEF PublishInv

\* Arriving, counting and the clock.
LEMMA OthersPublish ==
    ASSUME PublishInv,
           \/ \E c \in Creators, life \in Lives, scope \in Scopes : CreateArrives(c, life, scope)
           \/ \E c \in Creators : CreateCounts(c)
           \/ GrantTick
           \/ UNCHANGED <<now, grantVars>>
    PROVE  PublishInv'
  <1>1. UNCHANGED <<grants, publishing>>
    BY DEF CreateArrives, CreateCounts, GrantTick, grantVars
  <1>2. now' \in Nat
    <2>1. now' = now \/ GrantTick
      BY DEF CreateArrives, CreateCounts
    <2>2. now \in Nat
      BY DEF PublishInv, GrantTypeOK
    <2> QED
      BY <2>1, <2>2 DEF GrantTick, TickTo
  <1> DEFINE Creating == [state : {"waiting", "counted"}, at : Nat, life : Lives,
                          scope : {"sailor", "group"}]
  <1>3. creating' \in [Creators -> {Resting} \cup Creating]
    <2>1. CASE \E c \in Creators, life \in Lives, scope \in Scopes : CreateArrives(c, life, scope)
      BY <2>1, GrantAssumption DEF CreateArrives, PublishInv, GrantTypeOK
    <2>2. ASSUME NEW c \in Creators, CreateCounts(c)
          PROVE  creating' \in [Creators -> {Resting} \cup Creating]
      <3>1. creating[c] \in Creating
        BY <2>2 DEF CreateCounts, PublishInv, GrantTypeOK, Resting
      <3>2. [creating[c] EXCEPT !.state = "counted"] \in Creating
        BY <3>1
      <3>3. \/ creating' = [creating EXCEPT ![c] = [creating[c] EXCEPT !.state = "counted"]]
            \/ creating' = [creating EXCEPT ![c] = Resting]
        BY <2>2 DEF CreateCounts
      <3> QED
        BY <3>2, <3>3 DEF PublishInv, GrantTypeOK
    <2>3. CASE GrantTick \/ UNCHANGED <<now, grantVars>>
      BY <2>3 DEF GrantTick, grantVars, PublishInv, GrantTypeOK
    <2> QED
      BY <2>1, <2>2, <2>3
  <1> QED
    BY <1>1, <1>2, <1>3, GrantsUntouched DEF PublishInv, GrantTypeOK

LEMMA PublishBegins ==
    ASSUME now = 0, GrantInit PROVE PublishInv
  <1>1. GrantTypeOK
    BY DEF GrantInit, GrantTypeOK
  <1>2. \A g \in Grants : ~Exists(g)
    BY DEF GrantInit, Exists
  <1>3. \A p \in Publishers : ~Merging(p)
    BY DEF GrantInit, Merging, Resting
  <1> QED
    BY <1>1, <1>2, <1>3 DEF PublishInv, RevokedHoldsNothing

LEMMA PublishKeeps ==
    ASSUME PublishInv, [GrantNext]_<<now, grantVars>> PROVE PublishInv'
  <1>1. CASE \/ \E c \in Creators, life \in Lives, scope \in Scopes : CreateArrives(c, life, scope)
             \/ \E c \in Creators : CreateCounts(c)
             \/ GrantTick
             \/ UNCHANGED <<now, grantVars>>
    BY <1>1, OthersPublish
  <1>2. CASE \E c \in Creators : CreateCommits(c)
    BY <1>2, CreateCommitsPublish
  <1>3. CASE \E p \in Publishers, g \in Grants, snap \in Snapshots : PublishReads(p, g, snap)
    BY <1>3, ReadsPublish
  <1>4. CASE \E p \in Publishers : PublishWrites(p)
    BY <1>4, WritesPublish
  <1>5. CASE \E g \in Grants : RevokeGrant(g)
    BY <1>5, RevokePublish
  <1>6. CASE PurgeGrants
    BY <1>6, PurgePublish
  <1> QED
    BY <1>1, <1>2, <1>3, <1>4, <1>5, <1>6 DEF GrantNext

THEOREM PublishInvariant == GrantSpec => []PublishInv
  <1>1. now = 0 /\ GrantInit => PublishInv
    BY PublishBegins
  <1>2. PublishInv /\ [GrantNext]_<<now, grantVars>> => PublishInv'
    BY PublishKeeps
  <1> QED
    BY <1>1, <1>2, PTL DEF GrantSpec

\* A revoked grant keeps nothing, whatever publication was on its way.
THEOREM RevokedAlwaysEmpty == GrantSpec => []RevokedHoldsNothing
  <1>1. PublishInv => RevokedHoldsNothing
    BY DEF PublishInv
  <1> QED
    BY <1>1, PublishInvariant, PTL

-----------------------------------------------------------------------------
(* The times a snapshot reports never go back *)

LEMMA MergeForward ==
    ASSUME NEW current \in Stored, NEW snap \in Snapshots,
           current.version < snap.version,
           snap.scope = "group" => current.position = 0
    PROVE  LET merged == Merge(current, snap)
           IN  current.version < merged.version /\ NotOlder(current, merged)
  <1>1. /\ snap.status \in Nat /\ snap.position \in Nat /\ snap.helpAt \in Nat
        /\ snap.version \in Nat
    BY GrantAssumption
  <1>2. /\ current.status \in Nat /\ current.position \in Nat /\ current.helpAt \in Nat
    BY DEF Stored
  <1>3. \A a, b \in Nat : a <= Later(a, b)
    BY DEF Later
  <1>4. current.position <= Merge(current, snap).position
    BY <1>1, <1>2, <1>3 DEF Merge
  <1>5. /\ current.status <= Merge(current, snap).status
        /\ current.helpAt <= Merge(current, snap).helpAt
    BY <1>1, <1>2, <1>3 DEF Merge
  <1> QED
    BY <1>4, <1>5 DEF NotOlder, Merge

\* However publications and retries of them overlap, the stored version grows
\* with every write, and the times of the status, of a sailor's own position and
\* of the call for help do not go back.  A group's party is not compared.
THEOREM StampsGoForward == GrantSpec => StampsNeverGoBack
  <1> DEFINE Forward == \A g \in Grants :
          Exists(g) /\ Exists(g)' /\ ~(grants[g].revoked)' =>
              \/ UNCHANGED grants[g]
              \/ /\ grants[g].snapshot.version < (grants[g].snapshot.version)'
                 /\ NotOlder(grants[g].snapshot, (grants[g].snapshot)')
  <1>1. PublishInv /\ [GrantNext]_<<now, grantVars>> => [Forward]_<<now, grantVars>>
    <2> SUFFICES ASSUME PublishInv, GrantNext PROVE Forward
      BY DEF GrantNext
    <2>1. CASE UNCHANGED grants
      BY <2>1
    <2>2. ASSUME NEW c \in Creators, CreateCommits(c) PROVE Forward
      <3>1. PICK g \in Grants : grants[g] = Unmade /\ \A h \in Grants \ {g} : grants'[h] = grants[h]
        BY <2>2 DEF CreateCommits, PublishInv, GrantTypeOK
      <3> QED
        BY <3>1 DEF Exists
    <2>3. ASSUME NEW p \in Publishers, PublishWrites(p) PROVE Forward
      <3> DEFINE snap == publishing[p].snap
                 merged == Merge(publishing[p].read, snap)
      <3>1. PICK g \in Grants :
            /\ g = publishing[p].grant /\ grants[g] \in Grant
            /\ snap \in Snapshots /\ merged \in Stored
            /\ grants[g].snapshot = publishing[p].read
            /\ publishing[p].read.version < snap.version
            /\ grants' = grants \/ grants' = [grants EXCEPT ![g] = [@ EXCEPT !.snapshot = merged]]
        BY <2>3, WritesMerge
      <3>2. publishing[p].read \in Stored
        BY <3>1 DEF Grant
      <3>3. snap.scope = "group" => publishing[p].read.position = 0
        BY <2>3 DEF PublishInv, Merging, PublishWrites, Stands, ScopeKept, GrantTypeOK, Resting
      <3>4. publishing[p].read.version < merged.version /\ NotOlder(publishing[p].read, merged)
        BY <3>1, <3>2, <3>3, MergeForward
      <3> HIDE DEF merged
      <3>5. \A h \in Grants \ {g} : grants'[h] = grants[h]
        BY <3>1 DEF PublishInv, GrantTypeOK
      <3>6. grants'[g] = grants[g] \/ grants'[g].snapshot = merged
        BY <3>1 DEF PublishInv, GrantTypeOK, Grant
      <3>7. \/ UNCHANGED grants[g]
            \/ /\ grants[g].snapshot.version < (grants[g].snapshot.version)'
               /\ NotOlder(grants[g].snapshot, (grants[g].snapshot)')
        <4> HIDE DEF snap
        <4>1. CASE grants'[g] = grants[g]
          BY <4>1
        <4>2. CASE grants'[g].snapshot = merged
          BY <3>1, <3>4, <4>2 DEF NotOlder
        <4> QED
          BY <3>6, <4>1, <4>2
      <3>8. \A h \in Grants \ {g} : UNCHANGED grants[h]
        BY <3>5
      <3> QED
        BY <3>7, <3>8
    <2>4. ASSUME NEW g \in Grants, RevokeGrant(g) PROVE Forward
      <3>1. /\ \A h \in Grants \ {g} : grants'[h] = grants[h]
            /\ grants'[g] = Revoked(grants[g]) /\ grants[g] \in Grant
        BY <2>4, ExistsRow DEF RevokeGrant, Usable, PublishInv, GrantTypeOK
      <3>2. grants'[g].revoked
        BY <3>1 DEF Revoked, Grant
      <3> QED
        BY <3>1, <3>2
    <2>5. CASE PurgeGrants
      <3>1. \A g \in Grants : grants'[g] = grants[g] \/ grants'[g] = Gone
        BY <2>5 DEF PurgeGrants
      <3> QED
        BY <3>1 DEF Exists
    <2>6. CASE \/ \E c \in Creators, life \in Lives, scope \in Scopes : CreateArrives(c, life, scope)
               \/ \E c \in Creators : CreateCounts(c)
               \/ \E p \in Publishers, g \in Grants, snap \in Snapshots : PublishReads(p, g, snap)
               \/ GrantTick
      BY <2>1, <2>6 DEF CreateArrives, CreateCounts, PublishReads, GrantTick, grantVars
    <2> QED
      BY <2>2, <2>3, <2>4, <2>5, <2>6 DEF GrantNext
  <1> QED
    BY <1>1, PublishInvariant, PTL DEF GrantSpec, StampsNeverGoBack

-----------------------------------------------------------------------------
(* What a reader is told *)

LEMMA GroupsAreAsFreshAsTheirStalest ==
    ASSUME NEW party \in SUBSET Nat, NEW at \in Nat, GroupFreshness(party, at) = "fresh",
           NEW time \in party \ {0}
    PROVE  Freshness(time, at) = "fresh"
  <1> DEFINE known == {Freshness(t, at) : t \in party \ {0}}
             Lowest(i) == Ranked[i] \in known /\ \A j \in 1..(i - 1) : Ranked[j] \notin known
  <1>1. known \subseteq {"fresh", "delayed", "offline"}
    BY DEF Freshness
  <1>2. Ranked[1] = "offline" /\ Ranked[2] = "delayed" /\ Ranked[3] = "fresh"
    BY DEF Ranked
  <1>3. known # {} /\ Freshness(time, at) \in known
    OBVIOUS
  <1> HIDE DEF known
  <1>4. \E i \in 1..3 : Lowest(i)
    <2>1. CASE "offline" \in known
      BY <1>2, <2>1
    <2>2. CASE "offline" \notin known /\ "delayed" \in known
      <3>1. Lowest(2)
        BY <1>2, <2>2
      <3> QED
        BY <3>1
    <2>3. CASE "offline" \notin known /\ "delayed" \notin known
      <3>1. "fresh" \in known
        BY <1>1, <1>3, <2>3
      <3>2. Lowest(3)
        BY <1>2, <2>3, <3>1
      <3> QED
        BY <3>2
    <2> QED
      BY <2>1, <2>2, <2>3
  <1>5. GroupFreshness(party, at) = Ranked[CHOOSE i \in 1..3 : Lowest(i)]
    BY <1>3 DEF GroupFreshness, known
  <1> DEFINE chosen == CHOOSE i \in 1..3 : Lowest(i)
  <1>6. chosen \in 1..3 /\ Lowest(chosen)
    BY <1>4
  <1> HIDE DEF chosen
  <1>7. Ranked[chosen] = "fresh"
    BY <1>5 DEF chosen
  <1>8. chosen = 3
    BY <1>2, <1>6, <1>7
  <1>9. "offline" \notin known /\ "delayed" \notin known
    BY <1>2, <1>6, <1>8
  <1> QED
    BY <1>1, <1>3, <1>9

LEMMA FreshMeansRecent ==
    ASSUME NEW time \in Nat \ {0}, NEW at \in Nat, Freshness(time, at) = "fresh"
    PROVE  time + FreshFor >= at
  <1>1. FreshFor \in Nat
    BY GrantAssumption
  <1>2. Age(time, at) <= FreshFor
    BY DEF Freshness
  <1> QED
    BY <1>1, <1>2 DEF Age

LEMMA FreshIsFresh ==
    ASSUME PublishInv PROVE StaleNeverShownFresh
  <1> SUFFICES ASSUME NEW g \in Grants, Usable(g, now),
                      Shown(grants[g], now).freshness = "fresh",
                      NEW time \in ({Shown(grants[g], now).snapshot.position}
                                   \cup Shown(grants[g], now).snapshot.party) \ {0}
               PROVE  time + FreshFor >= now
    BY DEF StaleNeverShownFresh
  <1> DEFINE row == grants[g]
  <1>1. row \in Grant /\ ScopeKept(row) /\ now \in Nat
    BY ExistsRow DEF PublishInv, Usable, GrantTypeOK
  <1>2. /\ Shown(row, now).snapshot.position = row.snapshot.position
        /\ Shown(row, now).snapshot.party = row.snapshot.party
    BY <1>1 DEF Shown, Grant, Stored
  <1>3. row.snapshot.position \in Nat /\ row.snapshot.party \in SUBSET Nat
    BY <1>1 DEF Grant, Stored
  <1> HIDE DEF row
  <1>4. CASE row.scope = "sailor"
    <2>1. time = row.snapshot.position
      BY <1>1, <1>2, <1>4 DEF ScopeKept, row
    <2>2. Freshness(time, now) = "fresh"
      BY <1>4, <2>1 DEF Shown, row
    <2> QED
      BY <1>1, <1>3, <2>1, <2>2, FreshMeansRecent
  <1>5. CASE row.scope = "group"
    <2>1. time \in row.snapshot.party \ {0}
      BY <1>1, <1>2, <1>5 DEF ScopeKept, row
    <2>2. GroupFreshness(row.snapshot.party, now) = "fresh"
      BY <1>5 DEF Shown, row
    <2> QED
      BY <1>1, <1>3, <2>1, <2>2, FreshMeansRecent, GroupsAreAsFreshAsTheirStalest
  <1> QED
    BY <1>1, <1>4, <1>5 DEF Grant

\* Nobody who reads a grant is told that what is old is fresh.
THEOREM NobodyIsMisled == GrantSpec => []StaleNeverShownFresh
  <1>1. PublishInv => StaleNeverShownFresh
    BY FreshIsFresh
  <1> QED
    BY <1>1, PublishInvariant, PTL

-----------------------------------------------------------------------------
(* The number of grants in use *)

InUse(at) == {g \in Grants : Usable(g, at)}
Made == {g \in Grants : Exists(g)}
Counted(c) == creating[c].state = "counted"

\* Only one request at a time is between its count and its insert, and what it
\* counted can only have become less since.
CapInv ==
    /\ IsFiniteSet(Made)
    /\ ActiveGrantsCapped
    /\ \A c \in Creators : creating[c].state # "resting" => creating[c].at <= now
    /\ \A c \in Creators : Counted(c) => Cardinality(InUse(creating[c].at)) < MaxGrants
    /\ \A c, d \in Creators : Counted(c) /\ Counted(d) => c = d

\* As time passes, and grants are revoked and deleted, fewer are in use.
LEMMA FewerInUse ==
    ASSUME GrantTypeOK, GrantTypeOK', IsFiniteSet(Made),
           \A g \in Grants : Exists(g)' => /\ Exists(g)
                                           /\ grants'[g].expires = grants[g].expires
                                           /\ grants[g].revoked => grants'[g].revoked
    PROVE  /\ IsFiniteSet(Made')
           /\ \A at, after \in Nat : at <= after =>
                  /\ Cardinality(InUse(at)) \in Nat /\ Cardinality(InUse(after)') \in Nat
                  /\ Cardinality(InUse(after)') <= Cardinality(InUse(at))
  <1>1. Made' \in SUBSET Made
    BY DEF Made, Exists
  <1>2. ASSUME NEW at \in Nat, NEW after \in Nat, at <= after
        PROVE  /\ Cardinality(InUse(at)) \in Nat /\ Cardinality(InUse(after)') \in Nat
               /\ Cardinality(InUse(after)') <= Cardinality(InUse(at))
    <2>1. InUse(at) \in SUBSET Made
      BY DEF InUse, Made, Usable
    <2>2. ASSUME NEW g \in InUse(after)' PROVE g \in InUse(at)
      <3>1. g \in Grants /\ Exists(g)' /\ ~grants'[g].revoked /\ grants'[g].expires > after
        BY <2>2 DEF InUse, Usable, Exists
      <3>2. Exists(g) /\ grants'[g].expires = grants[g].expires
        BY <3>1
      <3>3. ~grants[g].revoked
        BY <3>1, Zenon
      <3>4. grants[g].expires \in Nat
        BY <3>1, <3>2, ExistsRow DEF Grant
      <3> QED
        BY <1>2, <3>1, <3>2, <3>3, <3>4 DEF InUse, Usable
    <2>3. InUse(after)' \in SUBSET InUse(at)
      BY <2>2
    <2>4. IsFiniteSet(InUse(at)) /\ IsFiniteSet(InUse(after)')
      BY <2>1, <2>3, FS_Subset
    <2> QED
      BY <2>3, <2>4, FS_Subset, FS_CardinalityType
  <1> QED
    BY <1>1, <1>2, FS_Subset

LEMMA CapKept ==
    ASSUME GrantTypeOK, GrantTypeOK', CapInv, now <= now',
           \A g \in Grants : Exists(g)' => /\ Exists(g)
                                           /\ grants'[g].expires = grants[g].expires
                                           /\ grants[g].revoked => grants'[g].revoked,
           \A c \in Creators : creating'[c].state # "resting" => creating'[c].at <= now',
           \A c \in Creators : creating'[c].state = "counted" =>
               Cardinality(InUse(creating'[c].at)) < MaxGrants,
           \A c, d \in Creators :
               creating'[c].state = "counted" /\ creating'[d].state = "counted" => c = d
    PROVE  CapInv'
  <1>1. /\ IsFiniteSet(Made) /\ now \in Nat /\ now' \in Nat /\ MaxGrants \in Nat
        /\ Cardinality(InUse(now)) <= MaxGrants
    BY GrantAssumption DEF CapInv, GrantTypeOK, ActiveGrantsCapped, InUse
  <1>2. /\ IsFiniteSet(Made')
        /\ \A at, after \in Nat : at <= after =>
               /\ Cardinality(InUse(at)) \in Nat /\ Cardinality(InUse(after)') \in Nat
               /\ Cardinality(InUse(after)') <= Cardinality(InUse(at))
    BY <1>1, FewerInUse
  <1>4. ActiveGrantsCapped'
    <2>1. PICK after \in Nat : after = now'
      BY <1>1
    <2>2. Cardinality(InUse(after)') <= MaxGrants
      BY <1>1, <1>2, <2>1
    <2> QED
      BY <2>1, <2>2 DEF ActiveGrantsCapped, InUse, Usable, Exists
  <1>5. ASSUME NEW c \in Creators, Counted(c)'
        PROVE  Cardinality(InUse(creating[c].at))' < MaxGrants
    <2>1. PICK at \in Nat : at = creating'[c].at
      BY <1>5 DEF Counted, GrantTypeOK, Resting
    <2>2. Cardinality(InUse(at)') <= Cardinality(InUse(at)) /\ Cardinality(InUse(at)) < MaxGrants
      BY <1>2, <1>5, <2>1 DEF Counted
    <2> QED
      BY <1>1, <1>2, <2>1, <2>2 DEF InUse, Usable, Exists
  <1> QED
    BY <1>2, <1>4, <1>5 DEF CapInv, Counted

\* Steps that leave the requests to create alone.
LEMMA RestCap ==
    ASSUME PublishInv, PublishInv', CapInv,
           \/ \E p \in Publishers, g \in Grants, snap \in Snapshots : PublishReads(p, g, snap)
           \/ \E p \in Publishers : PublishWrites(p)
           \/ \E g \in Grants : RevokeGrant(g)
           \/ PurgeGrants \/ GrantTick \/ UNCHANGED <<now, grantVars>>
    PROVE  CapInv'
  <1> DEFINE Lessened == \A g \in Grants :
                 Exists(g)' => /\ Exists(g)
                               /\ grants'[g].expires = grants[g].expires
                               /\ grants[g].revoked => grants'[g].revoked
  <1>1. creating' = creating /\ now' \in Nat /\ now \in Nat /\ now <= now'
    <2>1. creating' = creating /\ (now' = now \/ GrantTick)
      BY DEF PublishReads, PublishWrites, RevokeGrant, PurgeGrants, GrantTick, grantVars
    <2>2. now \in Nat
      BY DEF PublishInv, GrantTypeOK
    <2> QED
      BY <2>1, <2>2 DEF GrantTick, TickTo
  <1>2. Lessened
    <2>1. CASE UNCHANGED grants
      BY <2>1 DEF Exists
    <2>2. CASE \E p \in Publishers, g \in Grants, snap \in Snapshots : PublishReads(p, g, snap)
      BY <2>1, <2>2 DEF PublishReads
    <2>3. ASSUME NEW p \in Publishers, PublishWrites(p) PROVE Lessened
      <3> DEFINE merged == Merge(publishing[p].read, publishing[p].snap)
      <3>1. PICK g \in Grants :
                /\ Exists(g) /\ grants[g] \in Grant
                /\ grants' = grants
                   \/ grants' = [grants EXCEPT ![g] = [@ EXCEPT !.snapshot = merged]]
        BY <2>3, WritesMerge
      <3> HIDE DEF merged
      <3>2. \A h \in Grants \ {g} : grants'[h] = grants[h]
        BY <3>1 DEF PublishInv, GrantTypeOK
      <3>3. grants'[g].expires = grants[g].expires /\ grants'[g].revoked = grants[g].revoked
        BY <3>1 DEF PublishInv, GrantTypeOK, Grant
      <3> QED
        BY <3>1, <3>2, <3>3 DEF Exists
    <2>4. ASSUME NEW g \in Grants, RevokeGrant(g) PROVE Lessened
      <3>1. /\ Exists(g) /\ grants[g] \in Grant
            /\ \A h \in Grants \ {g} : grants'[h] = grants[h]
            /\ grants'[g] = Revoked(grants[g])
        BY <2>4, ExistsRow DEF RevokeGrant, Usable, PublishInv, GrantTypeOK
      <3>2. grants'[g].revoked /\ grants'[g].expires = grants[g].expires
        BY <3>1 DEF Revoked, Grant
      <3> QED
        BY <3>1, <3>2 DEF Exists
    <2>5. CASE PurgeGrants
      <3>1. \A g \in Grants : grants'[g] = grants[g] \/ grants'[g] = Gone
        BY <2>5 DEF PurgeGrants
      <3> QED
        BY <3>1 DEF Exists
    <2>6. CASE GrantTick \/ UNCHANGED <<now, grantVars>>
      BY <2>1, <2>6 DEF GrantTick, grantVars
    <2> QED
      BY <2>2, <2>3, <2>4, <2>5, <2>6
  <1>3. \A c \in Creators : creating[c].state # "resting" => creating[c].at \in Nat
    BY DEF PublishInv, GrantTypeOK, Resting
  <1>4. \A c \in Creators : creating'[c].state # "resting" => creating'[c].at <= now'
    BY <1>1, <1>3 DEF CapInv
  <1>5. /\ \A c \in Creators : creating'[c].state = "counted" =>
               Cardinality(InUse(creating'[c].at)) < MaxGrants
        /\ \A c, d \in Creators :
               creating'[c].state = "counted" /\ creating'[d].state = "counted" => c = d
    BY <1>1 DEF CapInv, Counted
  <1> QED
    BY <1>1, <1>2, <1>4, <1>5, CapKept DEF PublishInv

LEMMA ArrivesCap ==
    ASSUME PublishInv, PublishInv', CapInv, NEW c \in Creators,
           NEW life \in Lives, NEW scope \in Scopes, CreateArrives(c, life, scope)
    PROVE  CapInv'
  <1>1. /\ creating' = [creating EXCEPT ![c] = [state |-> "waiting", at |-> now,
                                                life |-> life, scope |-> scope]]
        /\ UNCHANGED <<now, grants, publishing>> /\ now \in Nat
    BY DEF CreateArrives, PublishInv, GrantTypeOK
  <1>2. /\ \A d \in Creators \ {c} : creating'[d] = creating[d]
        /\ creating'[c].state = "waiting" /\ creating'[c].at = now
    BY <1>1 DEF PublishInv, GrantTypeOK
  <1>3. \A g \in Grants : Exists(g)' => Exists(g) /\ grants'[g] = grants[g]
    BY <1>1 DEF Exists
  <1>4. \A d \in Creators : creating'[d].state # "resting" => creating'[d].at <= now'
    BY <1>1, <1>2 DEF CapInv
  <1>5. \A d \in Creators : creating'[d].state = "counted" => d # c /\ creating'[d] = creating[d]
    BY <1>2
  <1>6. /\ \A d \in Creators : creating'[d].state = "counted" =>
               Cardinality(InUse(creating'[d].at)) < MaxGrants
        /\ \A d, e \in Creators :
               creating'[d].state = "counted" /\ creating'[e].state = "counted" => d = e
    BY <1>5 DEF CapInv, Counted
  <1> QED
    BY <1>1, <1>3, <1>4, <1>6, CapKept DEF PublishInv

LEMMA CountsCap ==
    ASSUME PublishInv, PublishInv', CapInv, NEW c \in Creators, CreateCounts(c)
    PROVE  CapInv'
  <1> DEFINE room == Cardinality(InUse(creating[c].at)) < MaxGrants
  <1>1. /\ \/ creating' = [creating EXCEPT ![c] = [@ EXCEPT !.state = "counted"]] /\ room
           \/ creating' = [creating EXCEPT ![c] = Resting]
        /\ creating[c].state = "waiting"
        /\ UNCHANGED <<now, grants, publishing>> /\ now \in Nat
    BY DEF CreateCounts, PublishInv, GrantTypeOK, InUse
  <1> HIDE DEF room
  <1>2. \A d \in Creators \ {c} : creating'[d] = creating[d]
    BY <1>1 DEF PublishInv, GrantTypeOK
  <1>3. \/ creating'[c].state = "counted" /\ creating'[c].at = creating[c].at /\ room
        \/ creating'[c].state = "resting"
    BY <1>1 DEF PublishInv, GrantTypeOK, Resting
  <1>4. \A d \in Creators : ~Counted(d)
    BY DEF CreateCounts, VoyageFree, Counted
  <1>5. \A g \in Grants : Exists(g)' => Exists(g) /\ grants'[g] = grants[g]
    BY <1>1 DEF Exists
  <1>6. \A d \in Creators : creating'[d].state # "resting" => creating'[d].at <= now'
    BY <1>1, <1>2, <1>3 DEF CapInv
  <1>7. \A d \in Creators : creating'[d].state = "counted" => d = c
    BY <1>2, <1>4 DEF Counted
  <1>8. \A d \in Creators : creating'[d].state = "counted" =>
            Cardinality(InUse(creating'[d].at)) < MaxGrants
    BY <1>3, <1>7 DEF room
  <1> QED
    BY <1>1, <1>5, <1>6, <1>7, <1>8, CapKept DEF PublishInv

LEMMA CommitsCap ==
    ASSUME PublishInv, PublishInv', CapInv, NEW c \in Creators, CreateCommits(c)
    PROVE  CapInv'
  <1>1. PICK g \in Grants : /\ grants[g] = Unmade
                            /\ \A h \in Grants \ {g} : grants'[h] = grants[h]
    BY DEF CreateCommits, PublishInv, GrantTypeOK
  <1>2. /\ creating' = [creating EXCEPT ![c] = Resting] /\ Counted(c)
        /\ UNCHANGED now /\ now \in Nat /\ MaxGrants \in Nat
    BY GrantAssumption DEF CreateCommits, Counted, PublishInv, GrantTypeOK
  <1>3. PICK at \in Nat : at = creating[c].at
    BY <1>2 DEF Counted, PublishInv, GrantTypeOK, Resting
  <1>4. at <= now /\ Cardinality(InUse(at)) < MaxGrants
    BY <1>2, <1>3 DEF CapInv, Counted
  <1>5. \A d \in Creators : /\ d # c => creating'[d] = creating[d]
                            /\ creating'[d].state # "counted"
    BY <1>2 DEF CapInv, Counted, PublishInv, GrantTypeOK, Resting
  <1>6. IsFiniteSet(Made')
    <2>1. Made' \subseteq Made \cup {g}
      BY <1>1 DEF Made, Exists
    <2>2. IsFiniteSet(Made \cup {g})
      BY FS_AddElement DEF CapInv
    <2> QED
      BY <2>1, <2>2, FS_Subset
  <1>7. ActiveGrantsCapped'
    <2> DEFINE after == {h \in Grants : Usable(h, now)}'
    <2>1. after \subseteq InUse(at) \cup {g}
      <3>1. ASSUME NEW h \in after, h # g PROVE h \in InUse(at)
        <4>1. h \in Grants /\ Usable(h, now)
          BY <1>1, <1>2, <3>1 DEF Usable, Exists
        <4>2. grants[h].expires \in Nat
          BY <4>1, ExistsRow DEF PublishInv, Usable, Grant
        <4> QED
          BY <1>2, <1>4, <4>1, <4>2 DEF InUse, Usable
      <3> QED
        BY <3>1
    <2>2. IsFiniteSet(InUse(at))
      <3>1. InUse(at) \subseteq Made
        BY DEF InUse, Made, Usable
      <3> QED
        BY <3>1, FS_Subset DEF CapInv
    <2>3. /\ IsFiniteSet(InUse(at) \cup {g})
          /\ Cardinality(InUse(at)) \in Nat
          /\ Cardinality(InUse(at) \cup {g}) <= Cardinality(InUse(at)) + 1
      <3>1. Cardinality(InUse(at)) \in Nat
        BY <2>2, FS_CardinalityType
      <3>2. /\ IsFiniteSet(InUse(at) \cup {g})
            /\ \/ Cardinality(InUse(at) \cup {g}) = Cardinality(InUse(at))
               \/ Cardinality(InUse(at) \cup {g}) = Cardinality(InUse(at)) + 1
        BY <2>2, FS_AddElement
      <3> DEFINE before == Cardinality(InUse(at))
                 grown == Cardinality(InUse(at) \cup {g})
      <3>3. before \in Nat /\ (grown = before \/ grown = before + 1)
        BY <3>1, <3>2
      <3> HIDE DEF before, grown
      <3>4. grown <= before + 1
        BY <3>3
      <3> QED
        BY <3>1, <3>2, <3>4 DEF before, grown
    <2> HIDE DEF after
    <2>4. Cardinality(after) <= MaxGrants
      <3>1. Cardinality(after) <= Cardinality(InUse(at) \cup {g}) /\ IsFiniteSet(after)
        BY <2>1, <2>3, FS_Subset
      <3>2. Cardinality(after) \in Nat /\ Cardinality(InUse(at) \cup {g}) \in Nat
        BY <2>3, <3>1, FS_CardinalityType
      <3> QED
        BY <1>2, <1>4, <2>3, <3>1, <3>2
    <2> QED
      BY <2>4 DEF ActiveGrantsCapped, after
  <1>8. \A d \in Creators : creating'[d].state # "resting" => creating'[d].at <= now'
    BY <1>2, <1>5 DEF CapInv, PublishInv, GrantTypeOK, Resting
  <1> QED
    BY <1>5, <1>6, <1>7, <1>8 DEF CapInv, Counted

LEMMA CapBegins ==
    ASSUME now = 0, GrantInit PROVE CapInv
  <1>1. Made = {} /\ {g \in Grants : Usable(g, now)} = {}
    BY DEF GrantInit, Made, Exists, Usable
  <1>2. Cardinality({}) <= MaxGrants /\ IsFiniteSet({})
    BY FS_EmptySet, GrantAssumption
  <1>3. \A c \in Creators : creating[c].state = "resting"
    BY DEF GrantInit, Resting
  <1> QED
    BY <1>1, <1>2, <1>3 DEF CapInv, ActiveGrantsCapped, Counted

LEMMA CapKeeps ==
    ASSUME PublishInv, PublishInv', CapInv, [GrantNext]_<<now, grantVars>> PROVE CapInv'
  BY RestCap, ArrivesCap, CountsCap, CommitsCap DEF GrantNext

\* A voyage never has more grants in use than its maximum, however many
\* requests to create one count at the same time.
THEOREM GrantsAlwaysCapped == GrantSpec => []ActiveGrantsCapped
  <1>1. now = 0 /\ GrantInit => CapInv
    BY CapBegins
  <1>2. PublishInv /\ PublishInv' /\ CapInv /\ [GrantNext]_<<now, grantVars>> => CapInv'
    BY CapKeeps
  <1>3. CapInv => ActiveGrantsCapped
    BY DEF CapInv
  <1> QED
    BY <1>1, <1>2, <1>3, PublishInvariant, PTL DEF GrantSpec

-----------------------------------------------------------------------------
(* Codes and plans *)

Active(t) == registering[t].state # "ended"

\* A registration between its read and its commit: the clock has not moved,
\* and the row it rewrites is the one it was allowed to.
InForce(t) ==
    /\ registering[t].at = now
    /\ registering[t].state = "rewriting" =>
           /\ LiveCode(registering[t].code, now)
           /\ Rewritable(codes[registering[t].code], registering[t].invite)

CodeInv ==
    /\ CodeTypeOK
    /\ \A code \in Codes : codes[code] # Nobody =>
           [voyage |-> codes[code].voyage, secret |-> codes[code].secret] \in Invites
    /\ \A t \in Registrars : Active(t) => InForce(t)

\* What a step keeps of the codes in use.
CodesStay ==
    \A code \in Codes : LiveCode(code, now') =>
        /\ codes'[code] # Nobody
        /\ codes'[code].voyage = codes[code].voyage
        /\ codes'[code].secret = codes[code].secret
        /\ codes'[code].expires = codes[code].expires
PlansStay == \A code \in PlanCodes : LivePlan(code, now') => plans'[code] = plans[code]

LEMMA RegisterReadsKept ==
    ASSUME CodeInv, NEW t \in Registrars, NEW code \in Codes, NEW invite \in Invites,
           NEW token \in JoinTokens, RegisterReads(t, code, invite, token)
    PROVE  CodeInv' /\ CodesStay /\ PlansStay
  <1> DEFINE state == IF LiveCode(code, now) THEN "rewriting" ELSE "inserting"
             fresh == [state |-> state, code |-> code, invite |-> invite,
                       token |-> token, at |-> now]
  <1>1. /\ UNCHANGED <<now, codes, plans, planned>>
        /\ registering' = [registering EXCEPT ![t] = fresh]
        /\ LiveCode(code, now) => Rewritable(codes[code], invite)
    BY DEF RegisterReads
  <1>2. /\ registering'[t] = fresh
        /\ \A u \in Registrars \ {t} : registering'[u] = registering[u]
    BY <1>1 DEF CodeInv, CodeTypeOK
  <1>3. CodeTypeOK'
    BY <1>1 DEF CodeInv, CodeTypeOK
  <1>4. \A u \in Registrars : Active(u)' => InForce(u)'
    <2> SUFFICES ASSUME NEW u \in Registrars, Active(u)' PROVE InForce(u)'
      OBVIOUS
    <2>1. CASE u = t
      BY <1>1, <1>2, <2>1 DEF InForce, LiveCode, Rewritable
    <2>2. CASE u # t
      BY <1>1, <1>2, <2>2 DEF InForce, Active, LiveCode, Rewritable, CodeInv
    <2> QED
      BY <2>1, <2>2
  <1> QED
    BY <1>1, <1>3, <1>4 DEF CodeInv, CodesStay, PlansStay, LiveCode

\* What the deletion of the expired leaves.
LEMMA RemainingRow ==
    ASSUME CodeInv, NEW code \in Codes
    PROVE  /\ LiveCode(code, now) => Remaining(now)[code] = codes[code]
           /\ ~LiveCode(code, now) => Remaining(now)[code] = Nobody
  BY DEF Remaining

LEMMA CommitRow ==
    ASSUME CodeInv, NEW t \in Registrars, RegisterCommits(t), NEW code \in Codes
    PROVE  \/ codes'[code] = codes[code]
           \/ codes'[code] = Remaining(now)[code]
           \/ /\ code = registering[t].code
              /\ ~LiveCode(code, now)
              /\ codes'[code] = Registered(registering[t])
           \/ /\ code = registering[t].code
              /\ registering[t].state = "rewriting"
              /\ LiveCode(code, now)
              /\ codes'[code] = Rewritten(codes[code], registering[t])
  <1> DEFINE r == registering[t]
  <1>1. r.at = now /\ r.state \in {"inserting", "rewriting"} /\ r.code \in Codes
    BY DEF RegisterCommits, CodeInv, Active, InForce, CodeTypeOK, Ended
  <1>2. DOMAIN Remaining(now) = Codes
    BY DEF Remaining
  <1>3. CASE /\ r.state = "inserting" /\ Unregistered(r.code, r.at)
             /\ codes' = [Remaining(now) EXCEPT ![r.code] = Registered(r)]
    <2>1. ~LiveCode(r.code, now)
      BY <1>1, <1>3, RemainingRow DEF Unregistered, LiveCode
    <2>2. /\ codes'[r.code] = Registered(r)
          /\ code # r.code => codes'[code] = Remaining(now)[code]
      BY <1>1, <1>2, <1>3
    <2> QED
      BY <2>1, <2>2
  <1>4. CASE /\ r.state = "rewriting"
             /\ codes' = [Remaining(now) EXCEPT
                             ![r.code] = Rewritten(Remaining(now)[r.code], r)]
    <2>1. LiveCode(r.code, now) /\ Remaining(now)[r.code] = codes[r.code]
      BY <1>1, <1>4, RemainingRow DEF CodeInv, Active, InForce
    <2>2. /\ codes'[r.code] = Rewritten(codes[r.code], r)
          /\ code # r.code => codes'[code] = Remaining(now)[code]
      BY <1>1, <1>2, <1>4, <2>1
    <2> QED
      BY <1>4, <2>1, <2>2
  <1>5. CASE codes' = codes
    BY <1>5
  <1> QED
    BY <1>1, <1>3, <1>4, <1>5 DEF RegisterCommits

LEMMA RegisterCommitsKept ==
    ASSUME CodeInv, NEW t \in Registrars, RegisterCommits(t)
    PROVE  CodeInv' /\ CodesStay /\ PlansStay
  <1> DEFINE r == registering[t]
  <1>1. /\ UNCHANGED <<now, plans, planned>>
        /\ registering' = [registering EXCEPT ![t] = Ended]
        /\ DOMAIN codes' = Codes
        /\ codes' = [c \in Codes |-> codes'[c]]
    <2>1. DOMAIN Remaining(registering[t].at) = Codes /\ DOMAIN codes = Codes
      BY DEF Remaining, CodeInv, CodeTypeOK
    <2>2. codes' = [c \in Codes |-> codes'[c]]
      BY <2>1 DEF RegisterCommits, CodeInv, CodeTypeOK, Remaining
    <2> QED
      BY <2>1, <2>2 DEF RegisterCommits
  <1>2. /\ r.invite \in Invites /\ r.token \in JoinTokens /\ r.at = now
        /\ now + CodeLife \in Nat
        /\ r.state = "rewriting" => Rewritable(codes[r.code], r.invite)
    BY JoinCodeAssumption
       DEF RegisterCommits, CodeInv, Active, InForce, CodeTypeOK, Ended
  <1>3. \A code \in Codes :
           /\ codes'[code] \in CodeRow \cup {Nobody}
           /\ codes'[code] # Nobody =>
                  [voyage |-> codes'[code].voyage, secret |-> codes'[code].secret] \in Invites
           /\ LiveCode(code, now) =>
                  /\ codes'[code] # Nobody
                  /\ codes'[code].voyage = codes[code].voyage
                  /\ codes'[code].secret = codes[code].secret
                  /\ codes'[code].expires = codes[code].expires
    <2> SUFFICES ASSUME NEW code \in Codes
                 PROVE  /\ codes'[code] \in CodeRow \cup {Nobody}
                        /\ codes'[code] # Nobody =>
                               [voyage |-> codes'[code].voyage,
                                secret |-> codes'[code].secret] \in Invites
                        /\ LiveCode(code, now) =>
                               /\ codes'[code] # Nobody
                               /\ codes'[code].voyage = codes[code].voyage
                               /\ codes'[code].secret = codes[code].secret
                               /\ codes'[code].expires = codes[code].expires
      OBVIOUS
    <2>1. CASE codes'[code] = codes[code]
      BY <2>1 DEF CodeInv, CodeTypeOK, LiveCode
    <2>2. CASE codes'[code] = Remaining(now)[code]
      BY <2>1, <2>2, RemainingRow DEF LiveCode
    <2>3. CASE /\ ~LiveCode(code, now)
               /\ codes'[code] = Registered(r)
      <3>1. r.invite = [voyage |-> r.invite.voyage, secret |-> r.invite.secret]
        BY <1>2, JoinCodeAssumption
      <3>2. codes'[code] \in CodeRow
        BY <1>2, <2>3 DEF Registered, CodeRow
      <3> QED
        BY <1>2, <2>3, <3>1, <3>2 DEF Registered
    <2>4. CASE /\ code = r.code /\ r.state = "rewriting"
               /\ LiveCode(code, now)
               /\ codes'[code] = Rewritten(codes[code], r)
      <3>1. codes[code] \in CodeRow
        BY <2>4 DEF LiveCode, CodeInv, CodeTypeOK
      <3>2. /\ codes'[code] \in CodeRow
            /\ codes'[code].voyage = codes[code].voyage
            /\ codes'[code].secret = codes[code].secret
            /\ codes'[code].expires = codes[code].expires
        BY <1>2, <2>4, <3>1 DEF Rewritten, CodeRow, Rewritable
      <3> QED
        BY <2>4, <3>1, <3>2, CodeNames DEF CodeInv, LiveCode
    <2> QED
      BY <2>1, <2>2, <2>3, <2>4, CommitRow
  <1>4. CodeTypeOK'
    <2>1. codes' \in [Codes -> CodeRow \cup {Nobody}]
      BY <1>1, <1>3
    <2>2. registering' \in [Registrars -> {Ended} \cup
             [state : {"inserting", "rewriting"}, code : Codes, invite : Invites,
              token : JoinTokens, at : Nat]]
      BY <1>1 DEF CodeInv, CodeTypeOK
    <2> QED
      BY <1>1, <2>1, <2>2 DEF CodeInv, CodeTypeOK
  <1>5. \A u \in Registrars : Active(u)' => InForce(u)'
    <2> SUFFICES ASSUME NEW u \in Registrars, Active(u)' PROVE InForce(u)'
      OBVIOUS
    <2>1. u # t /\ registering'[u] = registering[u]
      BY <1>1 DEF Active, Ended, CodeInv, CodeTypeOK
    <2>2. Active(u) /\ InForce(u)
      BY <2>1 DEF Active, CodeInv
    <2>3. registering[u].code \in Codes
      BY <2>2 DEF Active, Ended, CodeInv, CodeTypeOK
    <2> QED
      BY <1>1, <1>3, <2>1, <2>2, <2>3 DEF InForce, LiveCode, Rewritable
  <1> QED
    BY <1>1, <1>3, <1>4, <1>5 DEF CodeInv, CodesStay, PlansStay, LiveCode

LEMMA PlansKept ==
    ASSUME CodeInv, PlanLife \in Nat, UNCHANGED <<now, codes, registering>>,
           NEW P, P \in [PlanCodes -> PlanRow \cup {Nobody}], plans' = P,
           planned' \in 0..MaxPlans,
           \A code \in PlanCodes : LivePlan(code, now) => P[code] = plans[code]
    PROVE  CodeInv' /\ CodesStay /\ PlansStay
  <1>1. CodeTypeOK'
    BY DEF CodeInv, CodeTypeOK
  <1>2. \A u \in Registrars : Active(u)' => InForce(u)'
    BY DEF CodeInv, Active, InForce, LiveCode, Rewritable
  <1> QED
    BY <1>1, <1>2 DEF CodeInv, CodesStay, PlansStay, LiveCode, LivePlan

LEMMA CreatePlanKept ==
    ASSUME CodeInv, NEW route \in Routes, CreatePlan(route)
    PROVE  CodeInv' /\ CodesStay /\ PlansStay
  <1> DEFINE left == [code \in PlanCodes |-> IF LivePlan(code, now) THEN plans[code] ELSE Nobody]
             row == [route |-> route, expires |-> now + PlanLife]
  <1>1. PICK drawn \in FreeCodes(left) : plans' = [left EXCEPT ![drawn] = row]
    BY DEF CreatePlan
  <1>2. /\ drawn \in PlanCodes /\ left[drawn] = Nobody
        /\ UNCHANGED <<now, codes, registering>>
        /\ planned' \in 0..MaxPlans
    BY <1>1, JoinCodeAssumption DEF FreeCodes, CreatePlan, CodeInv, CodeTypeOK
  <1>3. ~LivePlan(drawn, now)
    BY <1>2 DEF LivePlan
  <1>4. left \in [PlanCodes -> PlanRow \cup {Nobody}] /\ row \in PlanRow
    BY JoinCodeAssumption DEF CodeInv, CodeTypeOK, PlanRow
  <1>5. /\ plans' \in [PlanCodes -> PlanRow \cup {Nobody}]
        /\ \A code \in PlanCodes : LivePlan(code, now) => plans'[code] = plans[code]
    BY <1>1, <1>2, <1>3, <1>4
  <1> QED
    BY <1>2, <1>5, PlansKept, JoinCodeAssumption

LEMMA PurgeCodesKept ==
    ASSUME CodeInv, PurgeCodes
    PROVE  CodeInv' /\ CodesStay /\ PlansStay
  <1>1. /\ codes' = Remaining(now)
        /\ plans' = [code \in PlanCodes |-> IF LivePlan(code, now) THEN plans[code] ELSE Nobody]
        /\ UNCHANGED <<now, registering, planned>>
    BY DEF PurgeCodes
  <1>2. \A code \in Codes : /\ LiveCode(code, now) => codes'[code] = codes[code]
                            /\ ~LiveCode(code, now) => codes'[code] = Nobody
    BY <1>1, RemainingRow
  <1>3. CodeTypeOK'
    BY <1>1 DEF CodeInv, CodeTypeOK, Remaining
  <1>4. \A u \in Registrars : Active(u)' => InForce(u)'
    <2> SUFFICES ASSUME NEW u \in Registrars, Active(u) PROVE InForce(u)'
      BY <1>1 DEF Active
    <2>1. InForce(u) /\ registering[u].code \in Codes
      BY DEF CodeInv, CodeTypeOK, Active, Ended
    <2> QED
      BY <1>1, <1>2, <2>1 DEF InForce, LiveCode, Rewritable
  <1>5. \A code \in PlanCodes : LivePlan(code, now) => plans'[code] = plans[code]
    BY <1>1
  <1> QED
    BY <1>1, <1>2, <1>3, <1>4, <1>5 DEF CodeInv, CodesStay, PlansStay, LiveCode, LivePlan

LEMMA CodeTickKept ==
    ASSUME CodeInv, CodeTick
    PROVE  CodeInv' /\ CodesStay /\ PlansStay
  <1>1. /\ UNCHANGED codeVars /\ now' \in Nat
        /\ \A t \in Registrars : registering[t] = Ended
    BY DEF CodeTick, TickTo, CodeInv, CodeTypeOK
  <1>2. \A u \in Registrars : ~Active(u)'
    BY <1>1 DEF Active, Ended, codeVars
  <1>3. CodesStay /\ PlansStay
    BY <1>1 DEF codeVars, CodesStay, PlansStay, LiveCode
  <1>4. /\ CodeTypeOK'
        /\ \A code \in Codes : codes'[code] # Nobody =>
               [voyage |-> codes'[code].voyage, secret |-> codes'[code].secret] \in Invites
    BY <1>1 DEF codeVars, CodeInv, CodeTypeOK
  <1> QED
    BY <1>1, <1>2, <1>3, <1>4 DEF CodeInv

LEMMA CodesStutterKept ==
    ASSUME CodeInv, UNCHANGED <<now, codeVars>>
    PROVE  CodeInv' /\ CodesStay /\ PlansStay
  BY DEF codeVars, CodeInv, CodeTypeOK, CodesStay, PlansStay, LiveCode, InForce, Active, Rewritable

LEMMA CodesInit ==
    ASSUME now = 0, CodeInit
    PROVE  CodeInv
  <1>1. CodeTypeOK
    BY JoinCodeAssumption DEF CodeInit, CodeTypeOK
  <1> QED
    BY <1>1 DEF CodeInit, CodeInv, Active, Ended

LEMMA CodesKept ==
    ASSUME CodeInv, [CodeNext]_<<now, codeVars>> PROVE CodeInv' /\ CodesStay /\ PlansStay
  BY RegisterReadsKept, RegisterCommitsKept, CreatePlanKept, PurgeCodesKept, CodeTickKept,
     CodesStutterKept DEF CodeNext

\* Registrations and plans keep their invariant, and what is in use is kept.
THEOREM CodesInvariant == CodeSpec => [](CodeInv /\ CodeTypeOK)
  <1>1. CodeInv /\ [CodeNext]_<<now, codeVars>> => CodeInv'
    BY CodesKept
  <1>2. CodeInv => CodeTypeOK
    BY DEF CodeInv
  <1> QED
    BY <1>1, <1>2, CodesInit, PTL DEF CodeSpec

\* Until it expires a code keeps its voyage, its invitation and its moment.
THEOREM CodesKeepTheirMeaning == CodeSpec => LiveCodesStay
  <1>1. CodeInv /\ [CodeNext]_<<now, codeVars>> => [CodesStay]_<<now, codeVars>>
    BY CodesKept
  <1> QED
    BY <1>1, CodesInvariant, PTL DEF CodeSpec, LiveCodesStay, CodesStay

\* A plan keeps its code and its route until it expires.
THEOREM PlansKeepTheirCodes == CodeSpec => LivePlansStay
  <1>1. CodeInv /\ [CodeNext]_<<now, codeVars>> => [PlansStay]_<<now, codeVars>>
    BY CodesKept
  <1> QED
    BY <1>1, CodesInvariant, PTL DEF CodeSpec, LivePlansStay, PlansStay

LEMMA AnswersKept ==
    ASSUME CodeInv PROVE AnswersAreInvites
  BY DEF CodeInv, AnswersAreInvites, Resolved, LiveCode

\* A lookup answers nothing, or a voyage's name with its own invitation.
THEOREM LookupsAnswerInvites == CodeSpec => []AnswersAreInvites
  <1>1. CodeInv => AnswersAreInvites
    BY AnswersKept
  <1> QED
    BY <1>1, CodesInvariant, PTL

-----------------------------------------------------------------------------
(* How often a code may be looked up *)

LEMMA LeastOf ==
    ASSUME NEW S, S \subseteq Nat, S # {}, IsFiniteSet(S)
    PROVE  \E x \in S : \A y \in S : x <= y
  <1> DEFINE HasLeast(T) == \E x \in T : \A y \in T : x <= y
             Bad == {T \in SUBSET S : T # {} /\ ~HasLeast(T)}
  <1> SUFFICES ASSUME Bad # {} PROVE FALSE
    OBVIOUS
  <1>1. Bad \subseteq FiniteSubsetsOf(S)
    BY FS_Subset DEF FiniteSubsetsOf
  <1>2. PICK T \in Bad : \A U \in Bad : <<U, T>> \notin StrictSubsetOrdering(S)
    <2> HIDE DEF Bad
    <2> QED
      BY <1>1, FS_StrictSubsetOrderingWellFounded, WFMin
  <1>3. PICK x \in T : TRUE
    OBVIOUS
  <1>4. T \ {x} \notin Bad
    <2>1. <<T \ {x}, T>> \in StrictSubsetOrdering(S)
      BY <1>3 DEF StrictSubsetOrdering
    <2> QED
      BY <1>2, <2>1
  <1>5. CASE T \ {x} = {}
    BY <1>3, <1>5
  <1>6. CASE HasLeast(T \ {x})
    <2>1. PICK z \in T \ {x} : \A y \in T \ {x} : z <= y
      BY <1>6
    <2>2. x \in Nat /\ z \in Nat /\ T \subseteq Nat
      BY <1>3, <2>1
    <2>3. CASE z <= x
      BY <2>1, <2>3
    <2>4. CASE x <= z
      <3>1. \A y \in T : x <= y
        BY <1>3, <2>1, <2>2, <2>4
       <3> QED
        BY <1>3, <3>1
    <2> QED
      BY <2>2, <2>3, <2>4
  <1> QED
    BY <1>4, <1>5, <1>6

Limits == [requests : Nat \ {0}, window : Nat \ {0}, keys : Nat \ {0}]

\* A key's instants: in order, none in the future, no more than it may have.
Dated(stamps, limit) ==
    /\ stamps \in Seq(0..now)
    /\ Len(stamps) <= limit.requests
    /\ \A i, j \in DOMAIN stamps : i <= j => stamps[i] <= stamps[j]

TableInv(table, limit) ==
    /\ table = [key \in DOMAIN table |-> table[key]]
    /\ IsFiniteSet(DOMAIN table) /\ Cardinality(DOMAIN table) <= limit.keys
    /\ \A key \in DOMAIN table : Dated(table[key], limit)

LEMMA FirstIs ==
    ASSUME NEW stamps \in Seq(Nat), NEW limit
    PROVE  /\ FirstWithin(stamps, limit) \in 1..(Len(stamps) + 1)
           /\ \A i \in 1..(FirstWithin(stamps, limit) - 1) : ~Within(stamps[i], limit)
  <1> DEFINE ends == 1..(Len(stamps) + 1)
             S == {i \in ends : i <= Len(stamps) => Within(stamps[i], limit)}
  <1>1. Len(stamps) + 1 \in S /\ S \subseteq Nat
    OBVIOUS
  <1>2. IsFiniteSet(S)
    <2>1. IsFiniteSet(1..(Len(stamps) + 1))
      BY FS_Interval
    <2> QED
      BY <2>1, FS_Subset
  <1>3. PICK x \in S : \A y \in S : x <= y
    <2> HIDE DEF S
    <2> QED
      BY <1>1, <1>2, LeastOf
  <1>4. \A i \in 1..(x - 1) : ~Within(stamps[i], limit)
    BY <1>3
  <1>5. \E first \in 1..(Len(stamps) + 1) :
           /\ first <= Len(stamps) => Within(stamps[first], limit)
           /\ \A i \in 1..(first - 1) : ~Within(stamps[i], limit)
    BY <1>3, <1>4
  <1> QED
    BY <1>5 DEF FirstWithin

\* What still counts in the old instants is among the first of the new ones.
Follows(old, new, last, limit) ==
    \E shift \in Nat : \A i \in DOMAIN old : Within(old[i], limit) =>
        i > shift /\ i - shift \in 1..last /\ new[i - shift] = old[i]

\* What is dropped no longer counts, and the rest stays in order.
LEMMA RecentStamps ==
    ASSUME NEW stamps, NEW limit \in Limits, now \in Nat, Dated(stamps, limit),
           NEW first, first = FirstWithin(stamps, limit),
           NEW recent, recent = SubSeq(stamps, first, Len(stamps))
    PROVE  Dated(recent, limit) /\ Follows(stamps, recent, Len(recent), limit)
  <1>1. stamps \in Seq(Nat)
    BY DEF Dated
  <1>2. first \in 1..(Len(stamps) + 1)
    BY <1>1, FirstIs
  <1>3. \A i \in 1..(first - 1) : ~Within(stamps[i], limit)
    BY <1>1, FirstIs
  <1>4. Len(recent) = Len(stamps) - first + 1
    BY <1>1, <1>2
  <1>5. \A i \in 1..Len(recent) : recent[i] = stamps[i + first - 1]
    BY <1>1, <1>2
  <1>6. recent \in Seq(0..now)
    BY <1>2 DEF Dated
  <1>7. \A i, j \in DOMAIN stamps : i <= j => stamps[i] <= stamps[j]
    BY DEF Dated
  <1>8. DOMAIN stamps = 1..Len(stamps) /\ DOMAIN recent = 1..Len(recent) /\ Len(stamps) \in Nat
    BY <1>1, <1>6
  <1>9. Dated(recent, limit)
    <2>1. Len(recent) <= limit.requests
      BY <1>1, <1>2, <1>4 DEF Dated, Limits
    <2>2. \A i, j \in DOMAIN recent : i <= j => recent[i] <= recent[j]
      <3> TAKE i, j \in DOMAIN recent
      <3>1. i + first - 1 \in DOMAIN stamps /\ j + first - 1 \in DOMAIN stamps
        BY <1>8, <1>2, <1>4
      <3> QED
        <4>1. i <= j => i + first - 1 <= j + first - 1
          BY <1>8, <1>2
        <4>2. recent[i] = stamps[i + first - 1] /\ recent[j] = stamps[j + first - 1]
          BY <1>8, <1>5
        <4> QED
          BY <1>7, <3>1, <4>1, <4>2
    <2> QED
      BY <1>6, <2>1, <2>2 DEF Dated
  <1>10. PICK shift \in Nat : shift = first - 1
    BY <1>8, <1>2
  <1>11. \A i \in DOMAIN stamps : Within(stamps[i], limit) =>
           i > shift /\ i - shift \in 1..Len(recent) /\ recent[i - shift] = stamps[i]
    <2> TAKE i \in DOMAIN stamps
    <2> HAVE Within(stamps[i], limit)
    <2>1. i > shift
      BY <1>8, <1>2, <1>3, <1>10
    <2>2. i - shift \in 1..Len(recent)
      BY <1>8, <1>2, <1>4, <1>10, <2>1
    <2>3. recent[i - shift] = stamps[i - shift + first - 1]
      BY <1>5, <2>2
    <2>4. i - shift + first - 1 = i
      BY <1>8, <1>2, <1>10
    <2> QED
      BY <2>1, <2>2, <2>3, <2>4
  <1>12. Follows(stamps, recent, Len(recent), limit)
    BY <1>10, <1>11 DEF Follows
  <1> QED
    BY <1>9, <1>12

LEMMA FollowsStep ==
    ASSUME NEW old, NEW new, NEW limit, NEW x, new \in Seq(0..now), Len(new) \in Nat,
           Follows(old, new, Len(new), limit)
    PROVE  /\ Follows(old, Append(new, x), Len(new), limit)
           /\ Follows(old, Append(new, x), Len(new) + 1, limit)
  <1>1. PICK shift \in Nat : \A i \in DOMAIN old : Within(old[i], limit) =>
            i > shift /\ i - shift \in 1..Len(new) /\ new[i - shift] = old[i]
    BY DEF Follows
  <1>2. \A j \in 1..Len(new) : Append(new, x)[j] = new[j] /\ j \in 1..(Len(new) + 1)
    OBVIOUS
  <1>3. \A i \in DOMAIN old : Within(old[i], limit) =>
            /\ i > shift
            /\ i - shift \in 1..Len(new) /\ i - shift \in 1..(Len(new) + 1)
            /\ Append(new, x)[i - shift] = old[i]
    BY <1>1, <1>2, Zenon
  <1> QED
    BY <1>3 DEF Follows

LEMMA FollowsSame ==
    ASSUME NEW stamps, stamps \in Seq(0..now), NEW limit
    PROVE  Follows(stamps, stamps, Len(stamps), limit)
  <1>1. \A i \in DOMAIN stamps : i > 0 /\ i - 0 \in 1..Len(stamps) /\ stamps[i - 0] = stamps[i]
    OBVIOUS
  <1> QED
    BY <1>1 DEF Follows

LEMMA FollowsNothing ==
    ASSUME NEW old, NEW new, NEW last, NEW limit, \A i \in DOMAIN old : ~Within(old[i], limit)
    PROVE  Follows(old, new, last, limit)
  BY DEF Follows

LEMMA SweptTable ==
    ASSUME NEW table, NEW limit \in Limits, now \in Nat, TableInv(table, limit),
           NEW room, room = Swept(table, limit)
    PROVE  /\ TableInv(room, limit)
           /\ DOMAIN room \subseteq DOMAIN table
           /\ \A k \in DOMAIN room : room[k] = table[k]
           /\ \A k \in DOMAIN table \ DOMAIN room : \A i \in DOMAIN table[k] :
                  ~Within(table[k][i], limit)
  <1>1. CASE Cardinality(DOMAIN table) < limit.keys
    BY <1>1 DEF Swept
  <1>2. CASE ~(Cardinality(DOMAIN table) < limit.keys)
    <2>1. /\ DOMAIN room = {k \in DOMAIN table : Busy(table[k], limit)}
          /\ room = [k \in DOMAIN room |-> room[k]]
          /\ \A k \in DOMAIN room : room[k] = table[k]
      BY <1>2 DEF Swept
    <2>2. IsFiniteSet(DOMAIN room) /\ Cardinality(DOMAIN room) <= Cardinality(DOMAIN table)
      BY <2>1, FS_Subset DEF TableInv
    <2>3. Cardinality(DOMAIN room) <= limit.keys
      <3>1. Cardinality(DOMAIN room) \in Nat /\ Cardinality(DOMAIN table) \in Nat
        BY <2>2, FS_CardinalityType DEF TableInv
      <3> QED
        BY <2>2, <3>1 DEF TableInv, Limits
    <2>4. TableInv(room, limit)
      BY <2>1, <2>2, <2>3 DEF TableInv
    <2>5. ASSUME NEW k \in DOMAIN table \ DOMAIN room, NEW i \in DOMAIN table[k]
          PROVE  ~Within(table[k][i], limit)
      <3>1. PICK stamps : stamps = table[k]
        OBVIOUS
      <3>2. Dated(stamps, limit) /\ ~Busy(stamps, limit)
        BY <2>1, <2>5, <3>1 DEF TableInv
      <3>3. stamps \in Seq(Nat)
        BY <3>2 DEF Dated
      <3>4. DOMAIN stamps = 1..Len(stamps) /\ i \in 1..Len(stamps)
        BY <2>5, <3>1, <3>3
      <3>5. stamps # <<>> /\ Len(stamps) \in DOMAIN stamps
        BY <3>3, <3>4
      <3>6. stamps[i] <= stamps[Len(stamps)]
        BY <3>2, <3>4, <3>5 DEF Dated
      <3>7. ~Within(stamps[Len(stamps)], limit)
        BY <3>2, <3>5 DEF Busy
      <3>8. stamps[i] \in Nat /\ stamps[Len(stamps)] \in Nat
        BY <3>3, <3>4, <3>5
      <3> QED
        BY <3>1, <3>6, <3>7, <3>8 DEF Within, Limits
    <2> QED
      BY <2>1, <2>4, <2>5
  <1> QED
    BY <1>1, <1>2

LEMMA CheckedTable ==
    ASSUME NEW table, NEW key, NEW limit \in Limits, now \in Nat, TableInv(table, limit),
           NEW c, c = Checked(table, key, limit)
    PROVE  /\ TableInv(c.table, limit)
           /\ DOMAIN c.table \subseteq DOMAIN table \cup {key}
           /\ \A k : LET new == Stamps(c.table, k)
                     IN  Follows(Stamps(table, k), new, Len(new), limit)
           /\ c.admitted =>
                  LET new == Stamps(c.table, key)
                  IN  /\ Len(new) \in DOMAIN new /\ new[Len(new)] = now
                      /\ Follows(Stamps(table, key), new, Len(new) - 1, limit)
           /\ c.admitted \in BOOLEAN
  <1> DEFINE known == key \in DOMAIN table
  <1>1. PICK held : held = Stamps(table, key)
    OBVIOUS
  <1>2. PICK room : room = IF known THEN table ELSE Swept(table, limit)
    OBVIOUS
  <1>3. PICK first : first = FirstWithin(held, limit)
    OBVIOUS
  <1>4. PICK recent : recent = SubSeq(held, first, Len(held))
    OBVIOUS
  <1>5. PICK full \in BOOLEAN : full = Full(room, key, limit)
    BY DEF Full
  <1>6. PICK admitted \in BOOLEAN : admitted = (~full /\ Len(recent) < limit.requests)
    OBVIOUS
  <1>7. PICK stamps : stamps = IF admitted THEN Append(recent, now) ELSE recent
    OBVIOUS
  <1>8. PICK after : after =
               IF full THEN room
               ELSE [x \in DOMAIN room \cup {key} |-> IF x = key THEN stamps ELSE room[x]]
    OBVIOUS
  <1>9. c = [admitted |-> admitted, table |-> after]
    BY <1>1, <1>2, <1>3, <1>4, <1>5, <1>6, <1>7, <1>8, Zenon DEF Checked
  <1>10. c.table = after /\ c.admitted = admitted
    BY <1>9
  <1>11. /\ TableInv(room, limit)
         /\ DOMAIN room \subseteq DOMAIN table
         /\ \A k \in DOMAIN room : room[k] = table[k]
         /\ \A k \in DOMAIN table \ DOMAIN room : \A i \in DOMAIN table[k] :
                ~Within(table[k][i], limit)
    BY <1>2, SweptTable
  <1>12. Dated(held, limit)
    <2>1. CASE known
      BY <1>1, <2>1 DEF Stamps, TableInv
    <2>2. CASE ~known
      BY <1>1, <2>2 DEF Stamps, Dated, Limits
    <2> QED
      BY <2>1, <2>2
  <1>13. Dated(recent, limit) /\ Follows(held, recent, Len(recent), limit)
    BY <1>3, <1>4, <1>12, RecentStamps
  <1>14. recent \in Seq(0..now) /\ DOMAIN recent = 1..Len(recent) /\ Len(recent) \in Nat
    BY <1>13 DEF Dated
  <1>15. ASSUME admitted
         PROVE  /\ Dated(stamps, limit)
                /\ Follows(held, stamps, Len(stamps), limit)
                /\ Len(stamps) \in DOMAIN stamps /\ stamps[Len(stamps)] = now
                /\ Follows(held, stamps, Len(stamps) - 1, limit)
    <2>1. /\ stamps \in Seq(0..now)
          /\ Len(stamps) = Len(recent) + 1
          /\ DOMAIN stamps = 1..(Len(recent) + 1)
          /\ stamps[Len(recent) + 1] = now
          /\ \A i \in 1..Len(recent) : stamps[i] = recent[i]
      BY <1>7, <1>14, <1>15
    <2>2. Len(stamps) <= limit.requests
      <3>1. Len(recent) < limit.requests
        BY <1>6, <1>15, Zenon
      <3> QED
        BY <1>14, <2>1, <3>1 DEF Limits
    <2>3. \A i, j \in DOMAIN stamps : i <= j => stamps[i] <= stamps[j]
      <3> SUFFICES ASSUME NEW i \in DOMAIN stamps, NEW j \in DOMAIN stamps, i <= j
                   PROVE  stamps[i] <= stamps[j]
        OBVIOUS
      <3>1. CASE j \in 1..Len(recent)
        <4>1. i \in 1..Len(recent)
          BY <1>14, <2>1, <3>1
        <4>2. recent[i] <= recent[j]
          BY <1>13, <1>14, <3>1, <4>1 DEF Dated
        <4> QED
          BY <2>1, <3>1, <4>1, <4>2
      <3>2. CASE j = Len(recent) + 1
        <4>1. stamps[i] \in 0..now
          BY <2>1
        <4> QED
          BY <2>1, <3>2, <4>1
      <3> QED
        BY <1>14, <2>1, <3>1, <3>2
    <2>4. Follows(held, stamps, Len(stamps) - 1, limit)
      <3>1. Len(stamps) - 1 = Len(recent)
        BY <1>14, <2>1
      <3>2. Follows(held, stamps, Len(recent), limit)
        BY <1>7, <1>13, <1>14, <1>15, FollowsStep
      <3> QED
        BY <3>1, <3>2
    <2>5. Follows(held, stamps, Len(stamps), limit)
      BY <1>7, <1>13, <1>14, <1>15, <2>1, FollowsStep
    <2>6. Dated(stamps, limit)
      BY <2>1, <2>2, <2>3 DEF Dated
    <2>7. Len(stamps) \in DOMAIN stamps /\ stamps[Len(stamps)] = now
      BY <1>14, <2>1
    <2> QED
      BY <2>4, <2>5, <2>6, <2>7, Zenon
  <1>16. ASSUME ~admitted
         PROVE  Dated(stamps, limit) /\ Follows(held, stamps, Len(stamps), limit)
    <2>1. stamps = recent
      BY <1>7, <1>16
    <2> QED
      BY <1>13, <1>16, <2>1, Zenon
  <1>17. /\ Dated(stamps, limit)
         /\ Follows(held, stamps, Len(stamps), limit)
         /\ admitted => /\ Len(stamps) \in DOMAIN stamps /\ stamps[Len(stamps)] = now
                        /\ Follows(held, stamps, Len(stamps) - 1, limit)
    BY <1>15, <1>16, Zenon
  <1>18. ASSUME NEW k
         PROVE  Follows(Stamps(table, k), Stamps(room, k), Len(Stamps(room, k)), limit)
    <2>1. CASE k \in DOMAIN room
      <3>1. Stamps(room, k) = Stamps(table, k) /\ Stamps(table, k) \in Seq(0..now)
        BY <1>11, <2>1 DEF Stamps, TableInv, Dated
      <3> QED
        BY <3>1, FollowsSame
    <2>2. CASE k \notin DOMAIN room
      <3>1. \A i \in DOMAIN Stamps(table, k) : ~Within(Stamps(table, k)[i], limit)
        BY <1>11, <2>2 DEF Stamps
      <3> QED
        BY <3>1, FollowsNothing
    <2> QED
      BY <2>1, <2>2
  <1>19. CASE full
    <2>1. ~known /\ after = room /\ key \notin DOMAIN room
      BY <1>2, <1>5, <1>8, <1>19 DEF Full
    <2>2. ASSUME NEW k
          PROVE  Follows(Stamps(table, k), Stamps(room, k), Len(Stamps(room, k)), limit)
      BY <1>18
    <2> QED
      BY <1>6, <1>10, <1>11, <1>19, <2>1, <2>2, Zenon
  <1>20. CASE ~full
    <2>1. /\ DOMAIN after = DOMAIN room \cup {key}
          /\ after = [k \in DOMAIN after |-> after[k]]
          /\ after[key] = stamps
          /\ \A k \in DOMAIN room : k # key => after[k] = room[k]
      BY <1>8, <1>20
    <2>2. IsFiniteSet(DOMAIN after) /\ Cardinality(DOMAIN after) <= limit.keys
      <3>1. IsFiniteSet(DOMAIN room) /\ Cardinality(DOMAIN room) <= limit.keys
        BY <1>11 DEF TableInv
      <3>2. Cardinality(DOMAIN room) \in Nat
        BY <3>1, FS_CardinalityType
      <3>3. CASE key \in DOMAIN room
        <4>1. DOMAIN after = DOMAIN room
          BY <2>1, <3>3
        <4> QED
          BY <3>1, <4>1
      <3>4. CASE key \notin DOMAIN room
        <4>0. ~(Cardinality(DOMAIN room) >= limit.keys)
          BY <1>5, <1>20, <3>4, Zenon DEF Full
        <4>1. Cardinality(DOMAIN room) < limit.keys
          BY <3>2, <4>0 DEF Limits
        <4>2. IsFiniteSet(DOMAIN after) /\ Cardinality(DOMAIN after) = Cardinality(DOMAIN room) + 1
          BY <2>1, <3>1, <3>4, FS_AddElement
        <4> QED
          BY <3>2, <4>1, <4>2 DEF Limits
      <3> QED
        BY <3>3, <3>4
    <2>3. TableInv(after, limit)
      <3>1. \A k \in DOMAIN after : Dated(after[k], limit)
        BY <1>11, <1>17, <2>1 DEF TableInv
      <3> QED
        BY <2>1, <2>2, <3>1 DEF TableInv
    <2>4. ASSUME NEW k
          PROVE  Follows(Stamps(table, k), Stamps(after, k), Len(Stamps(after, k)), limit)
      <3>1. CASE k = key
        BY <1>1, <1>17, <2>1, <3>1 DEF Stamps
      <3>2. CASE k # key
        <4>1. Stamps(after, k) = Stamps(room, k)
          BY <2>1, <3>2 DEF Stamps
        <4> QED
          BY <1>18, <4>1
      <3> QED
        BY <3>1, <3>2
    <2>5. Stamps(after, key) = stamps
      BY <2>1 DEF Stamps
    <2> QED
      BY <1>1, <1>6, <1>10, <1>11, <1>17, <2>1, <2>3, <2>4, <2>5
  <1> QED
    BY <1>19, <1>20

\* Some requests of a log, each at an instant of its own among a key's first ones.
Covers(log, some, stamps, last) ==
    \E f \in [some -> 1..last] :
        /\ \A i \in some : stamps[f[i]] = log[i].at
        /\ \A i, j \in some : f[i] = f[j] => i = j

\* Requests that another log has too and that still count.
Counting(log, log2, some, limit) ==
    \A i \in some : log2[i] = log[i] /\ Within(log[i].at, limit)

LEMMA CoversBounds ==
    ASSUME NEW log, NEW some, NEW stamps, NEW last \in Nat, Covers(log, some, stamps, last)
    PROVE  IsFiniteSet(some) /\ Cardinality(some) <= last
  <1>1. PICK f \in [some -> 1..last] : \A i, j \in some : f[i] = f[j] => i = j
    BY DEF Covers
  <1>2. f \in Injection(some, 1..last)
    BY <1>1 DEF Injection, IsInjective
  <1>3. IsFiniteSet(1..last) /\ Cardinality(1..last) = last
    BY FS_Interval
  <1> QED
    BY <1>2, <1>3, FS_Injection

LEMMA CoversKept ==
    ASSUME NEW log, NEW log2, NEW some, NEW fewer, fewer \subseteq some, NEW old, NEW new,
           NEW last, NEW limit, old \in Seq(0..now), Covers(log, some, old, Len(old)),
           Follows(old, new, last, limit), Counting(log, log2, fewer, limit)
    PROVE  Covers(log2, fewer, new, last)
  <1>1. DOMAIN old = 1..Len(old) /\ Len(old) \in Nat
    OBVIOUS
  <1>2. PICK f \in [some -> 1..Len(old)] :
            /\ \A i \in some : old[f[i]] = log[i].at
            /\ \A i, j \in some : f[i] = f[j] => i = j
    BY DEF Covers
  <1>3. PICK shift \in Nat : \A i \in DOMAIN old : Within(old[i], limit) =>
            i > shift /\ i - shift \in 1..last /\ new[i - shift] = old[i]
    BY DEF Follows
  <1>4. PICK g : g = [i \in fewer |-> f[i] - shift]
    OBVIOUS
  <1>5. \A i \in fewer : f[i] \in DOMAIN old /\ Within(old[f[i]], limit) /\ old[f[i]] = log2[i].at
    BY <1>1, <1>2 DEF Counting
  <1>6. \A i \in fewer : f[i] > shift /\ g[i] \in 1..last /\ new[g[i]] = log2[i].at
                         /\ g[i] = f[i] - shift
    BY <1>3, <1>4, <1>5
  <1>7. \A i, j \in fewer : g[i] = g[j] => i = j
    <2> SUFFICES ASSUME NEW i \in fewer, NEW j \in fewer, g[i] = g[j] PROVE i = j
      OBVIOUS
    <2>1. f[i] \in Nat /\ f[j] \in Nat
      BY <1>1, <1>5
    <2>2. f[i] - shift = f[j] - shift /\ f[i] > shift /\ f[j] > shift
      BY <1>6
    <2>3. f[i] = f[j]
      BY <2>1, <2>2
    <2> QED
      BY <1>2, <2>3
  <1>8. g \in [fewer -> 1..last]
    BY <1>4, <1>6
  <1> QED
    BY <1>6, <1>7, <1>8 DEF Covers

\* A request let through is covered by the instant it left, besides those before.
LEMMA CoversMore ==
    ASSUME NEW log, NEW log2, NEW some, NEW fewer, fewer \subseteq some, NEW old, NEW new,
           NEW x, NEW limit, old \in Seq(0..now), new \in Seq(0..now),
           Covers(log, some, old, Len(old)), Follows(old, new, Len(new) - 1, limit),
           Len(new) \in DOMAIN new, Counting(log, log2, fewer, limit),
           new[Len(new)] = log2[x].at
    PROVE  Covers(log2, fewer \cup {x}, new, Len(new))
  <1>1. DOMAIN new = 1..Len(new) /\ Len(new) \in Nat /\ Len(new) - 1 \in Nat
    OBVIOUS
  <1>2. PICK last \in Nat : last = Len(new) - 1
    BY <1>1
  <1>3. PICK f \in [fewer -> 1..last] :
            /\ \A i \in fewer : new[f[i]] = log2[i].at
            /\ \A i, j \in fewer : f[i] = f[j] => i = j
    <2>1. Covers(log2, fewer, new, last)
      BY <1>2, CoversKept
    <2> QED
      BY <2>1 DEF Covers
  <1>4. PICK g : g = [i \in fewer \cup {x} |-> IF i = x THEN Len(new) ELSE f[i]]
    OBVIOUS
  <1>5. \A i \in fewer : f[i] \in 1..Len(new) /\ f[i] # Len(new)
    BY <1>2, <1>1
  <1>6. g \in [fewer \cup {x} -> 1..Len(new)]
    BY <1>1, <1>4, <1>5
  <1>7. \A i \in fewer \cup {x} : new[g[i]] = log2[i].at
    BY <1>3, <1>4
  <1>8. \A i, j \in fewer \cup {x} : g[i] = g[j] => i = j
    BY <1>3, <1>4, <1>5
  <1> QED
    BY <1>6, <1>7, <1>8 DEF Covers

Everybody == "join-code-global"

Covered(some, limit, stamps) ==
    Covers(lookups, Recent(some, limit), stamps, Len(stamps))

LookupInv ==
    /\ now \in Nat
    /\ DOMAIN byAddress \subseteq Addresses
    /\ DOMAIN global \subseteq {Everybody}
    /\ TableInv(byAddress, AddressLimit)
    /\ TableInv(global, GlobalLimit)
    /\ lookups \in Seq([at : Nat, address : Addresses, guess : BOOLEAN])
    /\ Len(lookups) <= MaxLookups
    /\ Covered(Guesses, GlobalLimit, Stamps(global, Everybody))
    /\ \A address \in Addresses :
           Covered(LookupsFrom(address), AddressLimit, Stamps(byAddress, address))

LEMMA NothingCovered ==
    ASSUME NEW log, NEW stamps, NEW last
    PROVE  Covers(log, {}, stamps, last)
  <1>1. [i \in {} |-> 1] \in [{} -> 1..last]
    OBVIOUS
  <1> QED
    BY <1>1 DEF Covers

LEMMA LookupBegins ==
    ASSUME now = 0, LookupInit PROVE LookupInv
  <1>1. DOMAIN NoKeys = {} /\ NoKeys = [key \in DOMAIN NoKeys |-> NoKeys[key]]
    BY DEF NoKeys
  <1>2. ASSUME NEW limit \in Limits PROVE TableInv(NoKeys, limit)
    BY <1>1, FS_EmptySet DEF TableInv, Limits
  <1>3. AddressLimit \in Limits /\ GlobalLimit \in Limits /\ MaxLookups \in Nat
    BY LookupAssumption DEF Limits
  <1>4. lookups = <<>> /\ DOMAIN lookups = {} /\ Len(lookups) = 0
    BY DEF LookupInit
  <1>5. Recent(Guesses, GlobalLimit) = {}
    BY <1>4 DEF Recent, Guesses
  <1>6. \A address \in Addresses : Recent(LookupsFrom(address), AddressLimit) = {}
    BY <1>4 DEF Recent, LookupsFrom
  <1>7. Covered(Guesses, GlobalLimit, Stamps(global, Everybody))
    BY <1>5, NothingCovered DEF Covered
  <1>8. \A address \in Addresses :
            Covered(LookupsFrom(address), AddressLimit, Stamps(byAddress, address))
    BY <1>6, NothingCovered DEF Covered
  <1> QED
    BY <1>1, <1>2, <1>3, <1>4, <1>7, <1>8 DEF LookupInv, LookupInit

LEMMA StampsDated ==
    ASSUME NEW table, NEW key, NEW limit \in Limits, now \in Nat, TableInv(table, limit)
    PROVE  Dated(Stamps(table, key), limit)
  <1>1. CASE key \in DOMAIN table
    BY <1>1 DEF TableInv, Stamps
  <1>2. CASE key \notin DOMAIN table
    BY <1>2 DEF Stamps, Dated, Limits
  <1> QED
    BY <1>1, <1>2

\* A log with one request more: those that still count, and the new one.
LEMMA LogGrows ==
    ASSUME LookupInv, NEW entry \in [at : {now}, address : Addresses, guess : BOOLEAN],
           lookups' = Append(lookups, entry), now' = now, NEW limit \in Limits
    PROVE  /\ lookups' \in Seq([at : Nat, address : Addresses, guess : BOOLEAN])
           /\ lookups'[Len(lookups) + 1].at = now
           /\ Counting(lookups, lookups', Recent(Guesses, limit), limit)
           /\ Recent(Guesses, limit)' = Recent(Guesses, limit) \cup
                                        (IF entry.guess THEN {Len(lookups) + 1} ELSE {})
           /\ \A address \in Addresses :
                  /\ Counting(lookups, lookups', Recent(LookupsFrom(address), limit), limit)
                  /\ Recent(LookupsFrom(address), limit)' =
                         Recent(LookupsFrom(address), limit) \cup
                         (IF entry.address = address THEN {Len(lookups) + 1} ELSE {})
  <1>1. /\ lookups \in Seq([at : Nat, address : Addresses, guess : BOOLEAN]) /\ now \in Nat
        /\ entry \in [at : Nat, address : Addresses, guess : BOOLEAN] /\ entry.at = now
    BY DEF LookupInv
  <1>2. PICK n : n = Len(lookups) + 1
    OBVIOUS
  <1>3. /\ DOMAIN lookups' = DOMAIN lookups \cup {n} /\ n \notin DOMAIN lookups
        /\ lookups'[n] = entry
        /\ \A i \in DOMAIN lookups : lookups'[i] = lookups[i]
        /\ lookups' \in Seq([at : Nat, address : Addresses, guess : BOOLEAN])
    BY <1>1, <1>2
  <1>4. now + limit.window > now
    BY <1>1 DEF Limits
  <1>5. Counting(lookups, lookups', Recent(Guesses, limit), limit)
    BY <1>3 DEF Counting, Recent, Guesses, Within
  <1>6. \A address \in Addresses :
            Counting(lookups, lookups', Recent(LookupsFrom(address), limit), limit)
    BY <1>3 DEF Counting, Recent, LookupsFrom, Within
  <1>7. Recent(Guesses, limit)' = Recent(Guesses, limit) \cup
                                  (IF entry.guess THEN {n} ELSE {})
    BY <1>1, <1>3, <1>4 DEF Recent, Guesses
  <1>8. \A address \in Addresses :
            Recent(LookupsFrom(address), limit)' =
                Recent(LookupsFrom(address), limit) \cup
                (IF entry.address = address THEN {n} ELSE {})
    BY <1>1, <1>3, <1>4 DEF Recent, LookupsFrom
  <1> QED
    BY <1>1, <1>2, <1>3, <1>5, <1>6, <1>7, <1>8

\* One limiter's view of a lookup: its table before and after, and those of the
\* lookups it answers for.
LEMMA LimiterKeeps ==
    ASSUME NEW log, NEW log2, NEW some, NEW table, NEW key, NEW k, NEW limit \in Limits,
           now \in Nat, TableInv(table, limit), Counting(log, log2, some, limit),
           Covers(log, some, Stamps(table, k), Len(Stamps(table, k))),
           NEW c, c = Checked(table, key, limit)
    PROVE  /\ Covers(log2, some, Stamps(c.table, k), Len(Stamps(c.table, k)))
           /\ \A x : k = key /\ c.admitted /\ log2[x].at = now =>
                  Covers(log2, some \cup {x}, Stamps(c.table, k), Len(Stamps(c.table, k)))
  <1>1. PICK old : old = Stamps(table, k)
    OBVIOUS
  <1>2. PICK new : new = Stamps(c.table, k)
    OBVIOUS
  <1>3. /\ TableInv(c.table, limit)
        /\ Follows(old, new, Len(new), limit)
        /\ k = key /\ c.admitted => /\ Len(new) \in DOMAIN new /\ new[Len(new)] = now
                                    /\ Follows(old, new, Len(new) - 1, limit)
    BY <1>1, <1>2, CheckedTable
  <1>4. Dated(old, limit) /\ Dated(new, limit)
    BY <1>1, <1>2, <1>3, StampsDated
  <1>5. old \in Seq(0..now) /\ new \in Seq(0..now)
    BY <1>4 DEF Dated
  <1>6. Covers(log, some, old, Len(old)) /\ some \subseteq some
    BY <1>1
  <1>7. Covers(log2, some, new, Len(new))
    BY <1>3, <1>5, <1>6, CoversKept
  <1>8. ASSUME NEW x, k = key, c.admitted, log2[x].at = now
        PROVE  Covers(log2, some \cup {x}, new, Len(new))
    <2>1. new[Len(new)] = log2[x].at
      BY <1>3, <1>8
    <2> QED
      BY <1>3, <1>5, <1>6, <1>8, <2>1, CoversMore
  <1> QED
    BY <1>2, <1>7, <1>8

LEMMA CoversFewer ==
    ASSUME NEW log, NEW some, NEW fewer, NEW stamps, NEW last,
           fewer \subseteq some, Covers(log, some, stamps, last)
    PROVE  Covers(log, fewer, stamps, last)
  <1>1. PICK f \in [some -> 1..last] :
            /\ \A i \in some : stamps[f[i]] = log[i].at
            /\ \A i, j \in some : f[i] = f[j] => i = j
    BY DEF Covers
  <1>2. PICK g : g = [i \in fewer |-> f[i]]
    OBVIOUS
  <1>3. g \in [fewer -> 1..last]
    BY <1>2
  <1>4. /\ \A i \in fewer : stamps[g[i]] = log[i].at
        /\ \A i, j \in fewer : g[i] = g[j] => i = j
    BY <1>1, <1>2
  <1> QED
    BY <1>3, <1>4 DEF Covers

LEMMA SameCovered ==
    ASSUME NEW log, NEW log2, NEW some, NEW stamps, NEW last, NEW limit,
           Counting(log, log2, some, limit), Covers(log, some, stamps, last)
    PROVE  Covers(log2, some, stamps, last)
  BY DEF Counting, Covers

LEMMA LogStays ==
    ASSUME lookups' = lookups, now' = now, NEW limit
    PROVE  /\ Counting(lookups, lookups', Recent(Guesses, limit), limit)
           /\ Recent(Guesses, limit)' = Recent(Guesses, limit)
           /\ \A address \in Addresses :
                  /\ Counting(lookups, lookups', Recent(LookupsFrom(address), limit), limit)
                  /\ Recent(LookupsFrom(address), limit)' = Recent(LookupsFrom(address), limit)
  BY DEF Counting, Recent, Guesses, LookupsFrom, Within

LEMMA LookupKeeps ==
    ASSUME LookupInv, NEW address \in Addresses, NEW guess \in BOOLEAN, Lookup(address, guess)
    PROVE  LookupInv'
  <1>1. PICK first : first = Checked(byAddress, address, AddressLimit)
    OBVIOUS
  <1>2. PICK second : second = Checked(global, Everybody, GlobalLimit)
    OBVIOUS
  <1>3. PICK table : table = IF AsksGlobal(first, guess) THEN second.table ELSE global
    OBVIOUS
  <1>4. PICK through \in BOOLEAN : through = (first.admitted /\ (guess => second.admitted))
    OBVIOUS
  <1>5. PICK entry : entry = [at |-> now, address |-> address, guess |-> guess]
    OBVIOUS
  <1>6. /\ byAddress' = first.table /\ global' = table /\ now' = now
        /\ lookups' = IF through THEN Append(lookups, entry) ELSE lookups
        /\ Len(lookups) < MaxLookups
    BY <1>1, <1>2, <1>3, <1>4, <1>5, Zenon DEF Lookup, Everybody
  <1>7. AddressLimit \in Limits /\ GlobalLimit \in Limits /\ MaxLookups \in Nat
    BY LookupAssumption DEF Limits
  <1>8. /\ now \in Nat
        /\ TableInv(byAddress, AddressLimit) /\ TableInv(global, GlobalLimit)
        /\ DOMAIN byAddress \cup {address} \subseteq Addresses
        /\ DOMAIN global \subseteq {Everybody}
    BY DEF LookupInv
  <1>9. /\ TableInv(first.table, AddressLimit)
        /\ DOMAIN first.table \subseteq Addresses
    BY <1>1, <1>7, <1>8, CheckedTable
  <1>10. /\ TableInv(second.table, GlobalLimit)
         /\ DOMAIN second.table \subseteq {Everybody}
    BY <1>2, <1>7, <1>8, CheckedTable
  <1>11. TableInv(table, GlobalLimit) /\ DOMAIN table \subseteq {Everybody}
    BY <1>3, <1>8, <1>10
  <1>12. /\ Covers(lookups, Recent(Guesses, GlobalLimit), Stamps(global, Everybody),
                   Len(Stamps(global, Everybody)))
         /\ \A a \in Addresses :
                Covers(lookups, Recent(LookupsFrom(a), AddressLimit), Stamps(byAddress, a),
                       Len(Stamps(byAddress, a)))
    BY DEF LookupInv, Covered
  <1>13. ASSUME Counting(lookups, lookups', Recent(Guesses, GlobalLimit), GlobalLimit)
         PROVE  Covers(lookups', Recent(Guesses, GlobalLimit), Stamps(table, Everybody),
                       Len(Stamps(table, Everybody)))
    <2>1. CASE table = global
      BY <1>12, <1>13, <2>1, SameCovered
    <2>2. CASE table = second.table
      BY <1>2, <1>7, <1>8, <1>12, <1>13, <2>2, LimiterKeeps
    <2> QED
      BY <1>3, <2>1, <2>2
  <1>14. TableInv(byAddress, AddressLimit)' /\ TableInv(global, GlobalLimit)'
    BY <1>6, <1>9, <1>11 DEF TableInv, Dated
  <1>15. CASE through
    <2>1. entry \in [at : {now}, address : Addresses, guess : BOOLEAN] /\ entry.guess = guess
          /\ entry.address = address
      BY <1>5
    <2>2. lookups' = Append(lookups, entry) /\ first.admitted /\ (guess => second.admitted)
      BY <1>4, <1>6, <1>15, Zenon
    <2>3. PICK n : n = Len(lookups) + 1
      OBVIOUS
    <2>4. /\ lookups' \in Seq([at : Nat, address : Addresses, guess : BOOLEAN])
          /\ lookups'[n].at = now
          /\ Counting(lookups, lookups', Recent(Guesses, GlobalLimit), GlobalLimit)
          /\ Recent(Guesses, GlobalLimit)' = Recent(Guesses, GlobalLimit) \cup
                                             (IF guess THEN {n} ELSE {})
      BY <1>6, <1>7, <2>1, <2>2, <2>3, LogGrows
    <2>5. \A a \in Addresses :
              /\ Counting(lookups, lookups', Recent(LookupsFrom(a), AddressLimit), AddressLimit)
              /\ Recent(LookupsFrom(a), AddressLimit)' =
                     Recent(LookupsFrom(a), AddressLimit) \cup (IF address = a THEN {n} ELSE {})
      BY <1>6, <1>7, <2>1, <2>2, <2>3, LogGrows
    <2>6. Len(lookups') <= MaxLookups
      BY <1>6, <1>7, <2>2 DEF LookupInv
    <2>7. Covers(lookups', Recent(Guesses, GlobalLimit)', Stamps(table, Everybody),
                 Len(Stamps(table, Everybody)))
      <3>1. CASE guess
        <4>1. table = second.table
          BY <1>3, <2>2, <3>1 DEF AsksGlobal
        <4>2. Covers(lookups', Recent(Guesses, GlobalLimit) \cup {n},
                     Stamps(second.table, Everybody), Len(Stamps(second.table, Everybody)))
          BY <1>2, <1>7, <1>8, <1>12, <2>2, <2>4, <3>1, LimiterKeeps
        <4> QED
          BY <2>4, <3>1, <4>1, <4>2
      <3>2. CASE ~guess
        <4>1. Recent(Guesses, GlobalLimit)' = Recent(Guesses, GlobalLimit)
          BY <2>4, <3>2
        <4> QED
          BY <1>13, <2>4, <4>1
      <3> QED
        BY <3>1, <3>2
    <2>8. ASSUME NEW a \in Addresses
          PROVE  Covers(lookups', Recent(LookupsFrom(a), AddressLimit)', Stamps(first.table, a),
                        Len(Stamps(first.table, a)))
      <3>1. CASE a = address
        <4>1. Covers(lookups', Recent(LookupsFrom(a), AddressLimit) \cup {n},
                     Stamps(first.table, a), Len(Stamps(first.table, a)))
          BY <1>1, <1>7, <1>8, <1>12, <2>2, <2>4, <2>5, <3>1, LimiterKeeps
        <4> QED
          BY <2>5, <3>1, <4>1
      <3>2. CASE a # address
        <4>1. Recent(LookupsFrom(a), AddressLimit)' = Recent(LookupsFrom(a), AddressLimit)
          BY <2>5, <3>2
        <4>2. Covers(lookups', Recent(LookupsFrom(a), AddressLimit),
                     Stamps(first.table, a), Len(Stamps(first.table, a)))
          BY <1>1, <1>7, <1>8, <1>12, <2>5, LimiterKeeps
        <4> QED
          BY <4>1, <4>2
      <3> QED
        BY <3>1, <3>2
    <2> QED
      BY <1>6, <1>8, <1>9, <1>11, <1>14, <2>4, <2>6, <2>7, <2>8 DEF LookupInv, Covered, Stamps
  <1>16. CASE ~through
    <2>1. lookups' = lookups
      BY <1>6, <1>16, Zenon
    <2>2. /\ Counting(lookups, lookups', Recent(Guesses, GlobalLimit), GlobalLimit)
          /\ Recent(Guesses, GlobalLimit)' = Recent(Guesses, GlobalLimit)
      BY <1>6, <2>1, LogStays
    <2>3. \A a \in Addresses :
              /\ Counting(lookups, lookups', Recent(LookupsFrom(a), AddressLimit), AddressLimit)
              /\ Recent(LookupsFrom(a), AddressLimit)' = Recent(LookupsFrom(a), AddressLimit)
      BY <1>6, <2>1, LogStays
    <2>4. \A a \in Addresses :
              Covers(lookups', Recent(LookupsFrom(a), AddressLimit)', Stamps(first.table, a),
                     Len(Stamps(first.table, a)))
      BY <1>1, <1>7, <1>8, <1>12, <2>3, LimiterKeeps
    <2>5. Covers(lookups', Recent(Guesses, GlobalLimit)', Stamps(table, Everybody),
                 Len(Stamps(table, Everybody)))
      BY <1>13, <2>2
    <2> QED
      BY <1>6, <1>8, <1>9, <1>11, <1>14, <2>1, <2>4, <2>5 DEF LookupInv, Covered, Stamps
  <1> QED
    BY <1>15, <1>16

LEMMA SequenceOfMore ==
    ASSUME NEW S, NEW T, S \subseteq T, NEW s \in Seq(S)
    PROVE  s \in Seq(T)
  OBVIOUS

LEMMA ElementOfSequence ==
    ASSUME NEW S, NEW s \in Seq(S), NEW i \in DOMAIN s
    PROVE  s[i] \in S
  OBVIOUS

LEMMA LookupTicks ==
    ASSUME LookupInv, now' \in Nat, now <= now', UNCHANGED lookupVars
    PROVE  LookupInv'
  <1>1. /\ now \in Nat
        /\ TableInv(byAddress, AddressLimit) /\ TableInv(global, GlobalLimit)
        /\ byAddress' = byAddress /\ global' = global /\ lookups' = lookups
    BY DEF LookupInv, lookupVars
  <1>2. \A stamps : stamps \in Seq(0..now) => stamps \in Seq(0..now')
    <2>1. 0..now \subseteq 0..now'
      BY <1>1
    <2> QED
      BY <2>1, SequenceOfMore
  <1>3. TableInv(byAddress, AddressLimit)' /\ TableInv(global, GlobalLimit)'
    BY <1>1, <1>2 DEF TableInv, Dated
  <1>4. \A limit \in Limits :
            /\ Recent(Guesses, limit)' \subseteq Recent(Guesses, limit)
            /\ \A a \in Addresses :
                   Recent(LookupsFrom(a), limit)' \subseteq Recent(LookupsFrom(a), limit)
    <2>1. \A at \in Nat, window \in Nat : at + window > now' => at + window > now
      BY <1>1
    <2>2. lookups \in Seq([at : Nat, address : Addresses, guess : BOOLEAN])
      BY DEF LookupInv
    <2>3. \A i \in DOMAIN lookups : lookups[i].at \in Nat
      <3> TAKE i \in DOMAIN lookups
      <3>1. lookups[i] \in [at : Nat, address : Addresses, guess : BOOLEAN]
        BY <2>2, ElementOfSequence
      <3> QED
        BY <3>1
    <2> QED
      BY <1>1, <2>1, <2>3 DEF Recent, Guesses, LookupsFrom, Limits
  <1>5. \A some, fewer, stamps, last :
            fewer \subseteq some /\ Covers(lookups, some, stamps, last) =>
                Covers(lookups, fewer, stamps, last)
    BY CoversFewer
  <1>6. AddressLimit \in Limits /\ GlobalLimit \in Limits
    BY LookupAssumption DEF Limits
  <1>7. Covered(Guesses, GlobalLimit, Stamps(global, Everybody))'
    BY <1>1, <1>4, <1>5, <1>6 DEF LookupInv, Covered, Stamps
  <1>8. ASSUME NEW a \in Addresses
        PROVE  Covered(LookupsFrom(a), AddressLimit, Stamps(byAddress, a))'
    BY <1>1, <1>4, <1>5, <1>6 DEF LookupInv, Covered, Stamps
  <1> QED
    BY <1>1, <1>3, <1>7, <1>8 DEF LookupInv

LEMMA LookupStep ==
    ASSUME LookupInv, LookupNext PROVE LookupInv'
  <1>1. CASE \E address \in Addresses, guess \in BOOLEAN : Lookup(address, guess)
    BY <1>1, LookupKeeps
  <1>2. CASE LookupTick
    <2>1. now' \in Nat /\ now <= now' /\ UNCHANGED lookupVars
      BY <1>2 DEF LookupTick, TickTo, LookupInv
    <2> QED
      BY <2>1, LookupTicks
  <1> QED
    BY <1>1, <1>2 DEF LookupNext

LEMMA LimitHolds ==
    ASSUME NEW some, NEW table, NEW key, NEW limit \in Limits, now \in Nat,
           TableInv(table, limit), Covered(some, limit, Stamps(table, key))
    PROVE  Cardinality(Recent(some, limit)) <= limit.requests
  <1>1. PICK stamps : stamps = Stamps(table, key)
    OBVIOUS
  <1>2. Dated(stamps, limit)
    BY <1>1, StampsDated
  <1>3. Len(stamps) \in Nat /\ Len(stamps) <= limit.requests /\ limit.requests \in Nat
    BY <1>2 DEF Dated, Limits
  <1>4. /\ IsFiniteSet(Recent(some, limit))
        /\ Cardinality(Recent(some, limit)) <= Len(stamps)
    BY <1>1, <1>3, CoversBounds DEF Covered
  <1>5. Cardinality(Recent(some, limit)) \in Nat
    BY <1>4, FS_CardinalityType
  <1> QED
    BY <1>3, <1>4, <1>5

LEMMA LookupImplies ==
    ASSUME LookupInv PROVE LookupTypeOK /\ GuessRateBounded /\ AddressRateBounded
  <1>1. AddressLimit \in Limits /\ GlobalLimit \in Limits /\ now \in Nat
    BY LookupAssumption DEF Limits, LookupInv
  <1>2. LookupTypeOK
    BY DEF LookupInv, LookupTypeOK, TableInv, Dated, Stamped, Everybody
  <1>3. /\ TableInv(byAddress, AddressLimit) /\ TableInv(global, GlobalLimit)
        /\ Covered(Guesses, GlobalLimit, Stamps(global, Everybody))
        /\ \A address \in Addresses :
               Covered(LookupsFrom(address), AddressLimit, Stamps(byAddress, address))
    BY DEF LookupInv
  <1>4. GuessRateBounded
    BY <1>1, <1>3, LimitHolds DEF GuessRateBounded
  <1>5. AddressRateBounded
    BY <1>1, <1>3, LimitHolds DEF AddressRateBounded
  <1> QED
    BY <1>2, <1>4, <1>5

THEOREM LookupInvariant == LookupSpec => []LookupInv
  <1>1. now = 0 /\ LookupInit => LookupInv
    BY LookupBegins
  <1>2. LookupInv /\ [LookupNext]_<<now, lookupVars>> => LookupInv'
    <2>1. ASSUME LookupInv, UNCHANGED <<now, lookupVars>> PROVE LookupInv'
      <3>1. now' \in Nat /\ now <= now' /\ UNCHANGED lookupVars
        BY <2>1 DEF LookupInv
      <3> QED
        BY <2>1, <3>1, LookupTicks
    <2> QED
      BY <2>1, LookupStep
  <1> QED
    BY <1>1, <1>2, PTL DEF LookupSpec

\* However many addresses guess at voyage codes, in no window are more guesses let
\* through than the global limit, though the limiter's clock, its trimming and its
\* forgetting of quiet keys go on underneath (rate_limit.py, app.py).
THEOREM GuessesAlwaysBounded == LookupSpec => []GuessRateBounded
  <1>1. LookupInv => GuessRateBounded
    BY LookupImplies
  <1> QED
    BY <1>1, LookupInvariant, PTL

\* No address is let through more often than its limit in any window.
THEOREM AddressesAlwaysBounded == LookupSpec => []AddressRateBounded
  <1>1. LookupInv => AddressRateBounded
    BY LookupImplies
  <1> QED
    BY <1>1, LookupInvariant, PTL
=============================================================================
