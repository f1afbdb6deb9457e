----------------------------- MODULE Discovery ------------------------------
(***************************************************************************)
(* The community catalogue: private suggestions, their moderation and the  *)
(* public features that approved revisions make.                           *)
(*                                                                         *)
(* Handlers run in a thread pool, and a suggestion is read, checked and    *)
(* written without a lock.  Approving flushes the suggestion before it     *)
(* looks the feature up, so its row is locked from there to the commit;    *)
(* every other verdict is written at the commit.  An update writes only    *)
(* the columns that changed since they were read.                          *)
(*                                                                         *)
(* Names, reasons, geometry, categories, viewports, the administrator's    *)
(* credential and the rate limits are left out.                            *)
(***************************************************************************)
EXTENDS RelayClock

CONSTANTS
    Ids,            \* suggestion identities; none is used twice
    Submissions,    \* what clients send: [client, action, target]
    Catalogue,      \* features there are without a suggestion
    Submitters, Reviewers,  \* requests of each kind at once
    Actions,        \* what reviewers do: approve, reject, request_changes, supersede
    Retention,      \* discovery_rejected_retention_days
    DiscoveryMaxNow,    \* bound: last instant of the clock
    Absent, Purged  \* no row yet, and a row deleted

ASSUME DiscoveryAssumption ==
    /\ {Retention, DiscoveryMaxNow} \subseteq Nat
    /\ \A sub \in Submissions : /\ sub.action \in {"add", "correct", "remove"}
                                /\ sub.action # "add" => sub.target \in Ids \cup Catalogue
    /\ Actions \subseteq {"approve", "reject", "request_changes", "supersede"}
    /\ Absent # Purged

VARIABLES
    suggestions,    \* discovery_suggestions, with the verdicts in their audit trail
    features,       \* discovery_features
    submitting, reviewing   \* the requests

discoveryVars == <<suggestions, features, submitting, reviewing>>

Suggestion == [submission : Submissions, updated : Nat, trail : SUBSET Actions,
               status : {"pending", "changes_requested", "approved", "rejected", "superseded"}]
Feature == [revision : Ids, status : {"active", "removed"}]

ASSUME DiscoveryNames ==
    /\ Absent \notin Suggestion \cup Feature
    /\ Purged \notin Suggestion

Unused == [state |-> "unused"]

OnFile(id) == suggestions[id] \notin {Absent, Purged}
Filed == {id \in Ids : OnFile(id)}

DiscoveryInit ==
    /\ suggestions = [id \in Ids |-> Absent]
    /\ features = [f \in Ids \cup Catalogue |-> Absent]
    /\ submitting = [s \in Submitters |-> Unused]
    /\ reviewing = [m \in Reviewers |-> Unused]

----------------------------------------------------------------------------
(* Suggesting *)

Repeats(sub) == \E id \in Filed : suggestions[id].submission.client = sub.client

\* No suggestion carries the client's identifier.  (If one does, it is the
\* answer, or the identifier is refused: nothing changes.)
SubmitReads(s, sub) ==
    /\ submitting[s] = Unused
    /\ ~Repeats(sub)
    /\ submitting' = [submitting EXCEPT ![s] = [state |-> "inserting", submission |-> sub]]
    /\ UNCHANGED <<now, suggestions, features, reviewing>>

NoKeyMutant(sub) == TRUE
\* The unique key on the client's identifier.
Insertable(sub) == ~Repeats(sub)

SubmitCommits(s) ==
    /\ submitting[s].state = "inserting"
    /\ IF Insertable(submitting[s].submission)
       THEN \E id \in Ids :
               /\ suggestions[id] = Absent
               /\ suggestions' = [suggestions EXCEPT ![id] =
                      [submission |-> submitting[s].submission, status |-> "pending",
                       updated |-> now, trail |-> {}]]
       ELSE UNCHANGED suggestions
    /\ submitting' = [submitting EXCEPT ![s] = Unused]
    /\ UNCHANGED <<now, features, reviewing>>

----------------------------------------------------------------------------
(* Moderating *)

StatusOf(action) ==
    CASE action = "approve" -> "approved"
      [] action = "reject" -> "rejected"
      [] action = "request_changes" -> "changes_requested"
      [] action = "supersede" -> "superseded"

ReviewReads(m, id, action) ==
    /\ reviewing[m] = Unused
    /\ OnFile(id)
    /\ suggestions[id].status \in {"pending", "changes_requested"}
    /\ reviewing' = [reviewing EXCEPT ![m] =
           [state |-> "read", id |-> id, action |-> action, at |-> now,
            was |-> suggestions[id].status]]
    /\ UNCHANGED <<now, suggestions, features, submitting>>

SuggestionFree(id) == \A m \in Reviewers : reviewing[m].state = "publishing" => reviewing[m].id # id

\* The suggestion's row and its audit event, as a verdict is committed: a
\* status that was the same when it was read is not written.
Judged(review) ==
    [suggestions EXCEPT ![review.id].status = IF review.was = StatusOf(review.action)
                                              THEN @ ELSE StatusOf(review.action),
                        ![review.id].updated = review.at,
                        ![review.id].trail = @ \cup {review.action}]

\* Any verdict but an approval; the row may have been deleted meanwhile.
ReviewCommits(m) ==
    LET review == reviewing[m]
    IN  /\ review.state = "read"
        /\ review.action # "approve"
        /\ SuggestionFree(review.id)
        /\ suggestions' = IF OnFile(review.id) THEN Judged(review) ELSE suggestions
        /\ reviewing' = [reviewing EXCEPT ![m] = Unused]
        /\ UNCHANGED <<now, features, submitting>>

\* The feature a submission is about: its target, or one of its own.
FeatureOf(id) == LET sub == suggestions[id].submission
                 IN  IF sub.action = "add" THEN id ELSE sub.target

\* An approval flushes the suggestion, which locks it, and reads the feature.
ApproveFlushes(m) ==
    LET review == reviewing[m]
    IN  /\ review.state = "read"
        /\ review.action = "approve"
        /\ SuggestionFree(review.id)
        /\ reviewing' = [reviewing EXCEPT ![m] =
               IF OnFile(review.id)
               THEN [state |-> "publishing", id |-> review.id, action |-> "approve",
                     at |-> review.at, was |-> review.was,
                     loaded |-> features[FeatureOf(review.id)]]
               ELSE Unused]
        /\ UNCHANGED <<now, suggestions, features, submitting>>

Published(id) == IF suggestions[id].submission.action = "remove" THEN "removed" ELSE "active"

\* The feature an approval writes: a new row, or the columns that changed
\* since the row was read; the status is not one of them when it was the same.
Revised(id, loaded) ==
    [revision |-> id,
     status |-> IF loaded = Absent \/ loaded.status # Published(id)
                THEN Published(id) ELSE features[FeatureOf(id)].status]

\* The commit of an approval.  Inserting a feature someone else inserted fails.
ApproveCommits(m) ==
    LET review == reviewing[m]
        f == FeatureOf(review.id)
    IN  /\ review.state = "publishing"
        /\ IF review.loaded = Absent /\ features[f] # Absent
           THEN UNCHANGED <<suggestions, features>>
           ELSE /\ suggestions' = Judged(review)
                /\ features' = [features EXCEPT ![f] = Revised(review.id, review.loaded)]
        /\ reviewing' = [reviewing EXCEPT ![m] = Unused]
        /\ UNCHANGED <<now, submitting>>

NoReferenceMutant(ids) == TRUE
\* The foreign key from features to the revisions they show.
Unreferenced(ids) == \A f \in DOMAIN features :
                         features[f] # Absent => features[f].revision \notin ids

\* Reading the moderation queue first deletes what was refused long ago, in one
\* statement: if a feature refers to any of it, all of it stays.
PurgeSuggestions ==
    LET due == {id \in Filed : /\ suggestions[id].status \in {"rejected", "superseded"}
                               /\ suggestions[id].updated + Retention < now}
    IN  /\ due # {}
        /\ \A id \in due : SuggestionFree(id)
        /\ Unreferenced(due)
        /\ suggestions' = [id \in Ids |-> IF id \in due THEN Purged ELSE suggestions[id]]
        /\ UNCHANGED <<now, features, submitting, reviewing>>

\* What the public may read.
PublicFeatures == {f \in DOMAIN features : features[f] # Absent /\ features[f].status = "active"}

----------------------------------------------------------------------------
DiscoveryTick == TickTo(DiscoveryMaxNow) /\ UNCHANGED discoveryVars

DiscoveryNext ==
    \/ \E s \in Submitters, sub \in Submissions : SubmitReads(s, sub)
    \/ \E s \in Submitters : SubmitCommits(s)
    \/ \E m \in Reviewers, id \in Ids, action \in Actions : ReviewReads(m, id, action)
    \/ \E m \in Reviewers : ReviewCommits(m) \/ ApproveFlushes(m) \/ ApproveCommits(m)
    \/ PurgeSuggestions
    \/ DiscoveryTick

DiscoverySpec == now = 0 /\ DiscoveryInit /\ [][DiscoveryNext]_<<now, discoveryVars>>

----------------------------------------------------------------------------
(* Properties *)

DiscoveryTypeOK ==
    /\ now \in Nat
    /\ suggestions \in [Ids -> Suggestion \cup {Absent, Purged}]
    /\ features \in [Ids \cup Catalogue -> Feature \cup {Absent}]
    /\ submitting \in [Submitters ->
           {Unused} \cup [state : {"inserting"}, submission : Submissions]]
    /\ reviewing \in [Reviewers ->
           {Unused} \cup [state : {"read"}, id : Ids, action : Actions, at : Nat,
                           was : {"pending", "changes_requested"}]
           \cup [state : {"publishing"}, id : Ids, action : Actions \cap {"approve"}, at : Nat,
                 was : {"pending", "changes_requested"}, loaded : Feature \cup {Absent}]]

\* "Approved revisions retain their audit provenance" (apps/server/README.md):
\* the revision of every feature, shown or taken down, is on file with the
\* approval that published it, however verdicts and clean-ups interleave.
RevisionOnFile ==
    \A f \in DOMAIN features : features[f] # Absent =>
        LET id == features[f].revision
        IN  OnFile(id) /\ "approve" \in suggestions[id].trail

\* A client's submission, retried or sent twice at once, is filed once.
OneSubmissionPerClient ==
    \A a, b \in Filed :
        suggestions[a].submission.client = suggestions[b].submission.client => a = b

\* "rejected and superseded suggestions never publish" (tests/test_discovery.py):
\* what the public reads has a revision whose verdict is an approval.
RejectedNeverPublished ==
    \A f \in PublicFeatures : suggestions[features[f].revision].status = "approved"
=============================================================================
