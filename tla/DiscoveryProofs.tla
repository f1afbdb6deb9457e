-------------------------- MODULE DiscoveryProofs ---------------------------
(***************************************************************************)
(* Every feature's revision is on file with its approval, a submission is  *)
(* filed once, and the ratings of a road add up, for any number of         *)
(* reviewers, clients and raters.                                          *)
(***************************************************************************)
EXTENDS Discovery, RoadRatings, TLAPS

\* A suggestion whose approval has been flushed is locked, and stays on file; a
\* feature that was read is not deleted.
Approving(review) ==
    /\ OnFile(review.id)
    /\ review.loaded # Absent => features[FeatureOf(review.id)] # Absent

ApprovedStays ==
    \A m \in Reviewers : reviewing[m].state = "publishing" => Approving(reviewing[m])

DiscoveryInv == DiscoveryTypeOK /\ RevisionOnFile /\ ApprovedStays /\ OneSubmissionPerClient

\* What a row on file is.
LEMMA FiledRow ==
    ASSUME DiscoveryTypeOK, NEW id \in Ids
    PROVE  OnFile(id) <=> suggestions[id] \in Suggestion
  BY DiscoveryNames DEF DiscoveryTypeOK, OnFile

\* The feature of a suggestion on file is one there may be.
LEMMA FeatureOfTyped ==
    ASSUME DiscoveryTypeOK, NEW id \in Ids, OnFile(id)
    PROVE  FeatureOf(id) \in Ids \cup Catalogue
  <1>1. suggestions[id].submission \in Submissions
    BY FiledRow DEF Suggestion
  <1> QED
    BY <1>1, DiscoveryAssumption DEF FeatureOf

\* A verdict keeps a suggestion on file, and what it submitted, and every
\* verdict before it.
LEMMA JudgedRow ==
    ASSUME DiscoveryTypeOK, NEW review, review.id \in Ids, OnFile(review.id),
           review.action \in Actions, review.at \in Nat,
           suggestions' = Judged(review)
    PROVE  /\ suggestions' \in [Ids -> Suggestion \cup {Absent, Purged}]
           /\ \A id \in Ids : /\ OnFile(id) <=> OnFile(id)'
                              /\ OnFile(id) =>
                                    /\ suggestions'[id].submission = suggestions[id].submission
                                    /\ suggestions[id].trail \subseteq suggestions'[id].trail
           /\ review.action \in suggestions'[review.id].trail
  <1> DEFINE row == suggestions[review.id]
             status == IF review.was = StatusOf(review.action)
                       THEN row.status ELSE StatusOf(review.action)
             new == [row EXCEPT !.status = status, !.updated = review.at,
                                !.trail = @ \cup {review.action}]
  <1>1. row \in Suggestion
    BY FiledRow
  <1>2. status \in {"pending", "approved", "rejected", "changes_requested", "superseded"}
    <2>1. StatusOf(review.action) \in {"approved", "rejected", "changes_requested", "superseded"}
      BY DiscoveryAssumption DEF StatusOf
    <2> QED
      BY <1>1, <2>1 DEF Suggestion
  <1>3. suggestions' = [suggestions EXCEPT ![review.id] = new]
    BY DEF Judged, DiscoveryTypeOK
  <1> HIDE DEF row, status
  <1>4. new \in Suggestion /\ new.submission = row.submission
        /\ new.trail = row.trail \cup {review.action}
    BY <1>1, <1>2 DEF Suggestion
  <1> HIDE DEF new
  <1>5. suggestions' \in [Ids -> Suggestion \cup {Absent, Purged}]
    BY <1>3, <1>4 DEF DiscoveryTypeOK
  <1>6. ASSUME NEW id \in Ids, id # review.id PROVE suggestions'[id] = suggestions[id]
    BY <1>3, <1>6 DEF DiscoveryTypeOK
  <1>7. new = suggestions'[review.id]
    BY <1>3 DEF DiscoveryTypeOK
  <1>8. OnFile(review.id)'
    BY <1>4, <1>7, DiscoveryNames DEF OnFile
  <1> QED
    BY <1>4, <1>5, <1>6, <1>7, <1>8 DEF OnFile, row

-----------------------------------------------------------------------------
(* Suggestions change in few ways: at most one is filed, or judged, or those *)
(* no feature refers to are deleted.                                         *)

LEMMA DiscoveryInitially == now = 0 /\ DiscoveryInit => DiscoveryInv
  <1> SUFFICES ASSUME now = 0, DiscoveryInit PROVE DiscoveryInv
    OBVIOUS
  <1>1. DiscoveryTypeOK
    BY DEF DiscoveryTypeOK, DiscoveryInit
  <1>2. Filed = {}
    BY DEF DiscoveryInit, Filed, OnFile
  <1>3. RevisionOnFile /\ ApprovedStays /\ OneSubmissionPerClient
    BY <1>2 DEF DiscoveryInit, RevisionOnFile, ApprovedStays, OneSubmissionPerClient, Unused
  <1> QED
    BY <1>1, <1>3 DEF DiscoveryInv

\* What a step may do to the approvals on their way.
LEMMA ApprovalsKept ==
    ASSUME DiscoveryInv,
           \A m \in Reviewers : reviewing'[m].state = "publishing" =>
               \/ reviewing'[m] = reviewing[m]
               \/ reviewing'[m].id \in Ids /\ Approving(reviewing'[m]),
           \A m \in Reviewers : reviewing'[m].state = "publishing" =>
               \A id \in Ids : id = reviewing'[m].id /\ OnFile(id) =>
                   OnFile(id)' /\ suggestions'[id].submission = suggestions[id].submission,
           \A f \in Ids \cup Catalogue : features[f] # Absent => features'[f] # Absent
    PROVE  ApprovedStays'
  <1> SUFFICES ASSUME NEW m \in Reviewers, reviewing'[m].state = "publishing"
               PROVE  Approving(reviewing[m])'
    BY DEF ApprovedStays
  <1>1. PICK id \in Ids : id = reviewing'[m].id /\ Approving(reviewing'[m])
    BY DEF DiscoveryInv, DiscoveryTypeOK, ApprovedStays, Unused
  <1>2. OnFile(id) /\ OnFile(id)' /\ suggestions'[id].submission = suggestions[id].submission
    BY <1>1 DEF Approving
  <1>3. FeatureOf(id) \in Ids \cup Catalogue /\ FeatureOf(id)' = FeatureOf(id)
    BY <1>2, FeatureOfTyped DEF DiscoveryInv, FeatureOf
  <1>4. reviewing'[m].loaded # Absent => features'[FeatureOf(id)'] # Absent
    BY <1>1, <1>3 DEF Approving
  <1> QED
    BY <1>1, <1>2, <1>4 DEF Approving, OnFile, FeatureOf

\* A step that keeps what is on file keeps both properties of the table.
LEMMA FileKept ==
    ASSUME DiscoveryInv, DiscoveryTypeOK',
           \A id \in Ids : /\ OnFile(id)' => OnFile(id)
                           /\ OnFile(id)' =>
                                 /\ suggestions'[id].submission = suggestions[id].submission
    PROVE  OneSubmissionPerClient'
  <1>1. Filed' \subseteq Filed
    BY DEF Filed
  <1>2. \A id \in Filed' : suggestions'[id].submission = suggestions[id].submission
    BY DEF Filed
  <1> QED
    BY <1>1, <1>2 DEF DiscoveryInv, OneSubmissionPerClient

LEMMA SubmitReadsKeeps ==
    ASSUME DiscoveryInv, NEW s \in Submitters, NEW sub \in Submissions, SubmitReads(s, sub)
    PROVE  DiscoveryInv'
  <1>1. DiscoveryTypeOK'
    BY DEF DiscoveryInv, SubmitReads, DiscoveryTypeOK
  <1>2. UNCHANGED <<suggestions, features, reviewing>>
    BY DEF SubmitReads
  <1>3. ApprovedStays'
    BY <1>2, ApprovalsKept DEF OnFile
  <1> QED
    BY <1>1, <1>2, <1>3 DEF DiscoveryInv, RevisionOnFile, OneSubmissionPerClient, Filed, OnFile

LEMMA SubmitCommitsKeeps ==
    ASSUME DiscoveryInv, NEW s \in Submitters, SubmitCommits(s)
    PROVE  DiscoveryInv'
  <1> DEFINE sub == submitting[s].submission
  <1>1. sub \in Submissions
    BY DEF DiscoveryInv, SubmitCommits, DiscoveryTypeOK, Unused
  <1>2. CASE ~Insertable(sub)
    <2>1. DiscoveryTypeOK'
      BY <1>2 DEF DiscoveryInv, SubmitCommits, DiscoveryTypeOK
    <2>2. UNCHANGED <<suggestions, features, reviewing>>
      BY <1>2 DEF SubmitCommits
    <2>3. ApprovedStays'
      BY <2>2, ApprovalsKept DEF OnFile
    <2> QED
      BY <2>1, <2>2, <2>3 DEF DiscoveryInv, RevisionOnFile, OneSubmissionPerClient, Filed, OnFile
  <1>3. CASE Insertable(sub)
    <2> DEFINE row == [submission |-> sub, status |-> "pending", updated |-> now, trail |-> {}]
    <2>1. PICK new \in Ids : /\ suggestions[new] = Absent
                             /\ suggestions' = [suggestions EXCEPT ![new] = row]
      BY <1>3 DEF SubmitCommits
    <2>2. row \in Suggestion
      BY <1>1 DEF Suggestion, DiscoveryInv, DiscoveryTypeOK
    <2>3. row.submission = sub
      OBVIOUS
    <2> HIDE DEF row
    <2>4. DiscoveryTypeOK'
      BY <2>1, <2>2 DEF DiscoveryInv, SubmitCommits, DiscoveryTypeOK
    <2>5. Filed' = Filed \cup {new} /\ new \notin Filed
      BY <2>1, <2>2, DiscoveryNames DEF Filed, OnFile, DiscoveryInv, DiscoveryTypeOK
    <2>6. suggestions'[new].submission = sub
          /\ \A id \in Ids \ {new} : suggestions'[id] = suggestions[id]
      BY <2>1, <2>3 DEF DiscoveryInv, DiscoveryTypeOK
    <2>7. OneSubmissionPerClient'
      <3>1. \A id \in Filed : suggestions[id].submission.client # sub.client
        BY <1>3 DEF Insertable, Repeats
      <3>2. ASSUME NEW a \in Filed', NEW b \in Filed',
                   suggestions'[a].submission.client = suggestions'[b].submission.client
            PROVE  a = b
        BY <2>5, <2>6, <3>1, <3>2 DEF DiscoveryInv, OneSubmissionPerClient, Filed
      <3> QED
        BY <3>2 DEF OneSubmissionPerClient
    <2>8. RevisionOnFile' /\ ApprovedStays'
      <3>1. UNCHANGED <<features, reviewing>>
        BY DEF SubmitCommits
      <3>2. \A id \in Ids : OnFile(id) => suggestions'[id] = suggestions[id]
        BY <2>1, <2>6 DEF OnFile
      <3>3. RevisionOnFile'
        BY <3>1, <3>2 DEF DiscoveryInv, RevisionOnFile, DiscoveryTypeOK, OnFile, Feature
      <3>4. ApprovedStays'
        BY <3>1, <3>2, ApprovalsKept DEF OnFile
      <3> QED
        BY <3>3, <3>4
    <2> QED
      BY <2>4, <2>7, <2>8 DEF DiscoveryInv
  <1> QED
    BY <1>2, <1>3

LEMMA ReviewReadsKeeps ==
    ASSUME DiscoveryInv, NEW m \in Reviewers, NEW id \in Ids, NEW action \in Actions,
           ReviewReads(m, id, action)
    PROVE  DiscoveryInv'
  <1> DEFINE review == [state |-> "read", id |-> id, action |-> action, at |-> now,
                           was |-> suggestions[id].status]
  <1>1. reviewing' = [reviewing EXCEPT ![m] = review]
        /\ UNCHANGED <<now, suggestions, features, submitting>>
    BY DEF ReviewReads
  <1>2. DiscoveryTypeOK'
    <2>1. suggestions[id].status \in {"pending", "changes_requested"}
      BY DEF ReviewReads
    <2>2. review \in [state : {"read"}, id : Ids, action : Actions, at : Nat,
                      was : {"pending", "changes_requested"}]
      BY <2>1 DEF DiscoveryInv, DiscoveryTypeOK
    <2> QED
      BY <1>1, <2>2 DEF DiscoveryInv, DiscoveryTypeOK
  <1>3. ApprovedStays'
    BY <1>1, ApprovalsKept DEF DiscoveryInv, DiscoveryTypeOK, OnFile
  <1> QED
    BY <1>1, <1>2, <1>3 DEF DiscoveryInv, RevisionOnFile, OneSubmissionPerClient, Filed, OnFile

\* A reviewer who is done keeps no suggestion.
LEMMA ReviewerDone ==
    ASSUME DiscoveryInv, NEW m \in Reviewers,
           reviewing' = [reviewing EXCEPT ![m] = Unused],
           \A id \in Ids : OnFile(id) =>
               OnFile(id)' /\ suggestions'[id].submission = suggestions[id].submission,
           \A f \in Ids \cup Catalogue : features[f] # Absent => features'[f] # Absent
    PROVE  ApprovedStays'
  <1>1. \A r \in Reviewers : reviewing'[r].state = "publishing" => reviewing'[r] = reviewing[r]
    BY DEF DiscoveryInv, DiscoveryTypeOK, Unused
  <1> QED
    BY <1>1, ApprovalsKept

LEMMA ReviewCommitsKeeps ==
    ASSUME DiscoveryInv, NEW m \in Reviewers, ReviewCommits(m)
    PROVE  DiscoveryInv'
  <1> DEFINE review == reviewing[m]
  <1>1. review.id \in Ids /\ review.action \in Actions /\ review.at \in Nat
    BY DEF DiscoveryInv, DiscoveryTypeOK, ReviewCommits, Unused
  <1>2. /\ suggestions' = IF OnFile(review.id) THEN Judged(review) ELSE suggestions
        /\ reviewing' = [reviewing EXCEPT ![m] = Unused]
        /\ UNCHANGED <<now, features, submitting>>
    BY DEF ReviewCommits
  <1> HIDE DEF review
  <1>3. /\ suggestions' \in [Ids -> Suggestion \cup {Absent, Purged}]
        /\ \A id \in Ids : /\ OnFile(id) <=> OnFile(id)'
                           /\ OnFile(id) =>
                                 /\ suggestions'[id].submission = suggestions[id].submission
                                 /\ suggestions[id].trail \subseteq suggestions'[id].trail
    <2>1. CASE OnFile(review.id)
      BY <1>1, <1>2, <2>1, JudgedRow DEF DiscoveryInv
    <2>2. CASE ~OnFile(review.id)
      BY <1>2, <2>2 DEF DiscoveryInv, DiscoveryTypeOK, OnFile
    <2> QED
      BY <2>1, <2>2
  <1>4. DiscoveryTypeOK'
    BY <1>2, <1>3 DEF DiscoveryInv, DiscoveryTypeOK
  <1>5. RevisionOnFile'
    BY <1>2, <1>3 DEF DiscoveryInv, RevisionOnFile, DiscoveryTypeOK, Feature
  <1>6. OneSubmissionPerClient'
    BY <1>3, <1>4, FileKept
  <1> QED
    BY <1>2, <1>3, <1>4, <1>5, <1>6, ReviewerDone DEF DiscoveryInv

LEMMA ApproveFlushesKeeps ==
    ASSUME DiscoveryInv, NEW m \in Reviewers, ApproveFlushes(m)
    PROVE  DiscoveryInv'
  <1> DEFINE id == reviewing[m].id
             at == reviewing[m].at
             was == reviewing[m].was
             loaded == features[FeatureOf(id)]
             review == [state |-> "publishing", id |-> id, action |-> "approve", at |-> at,
                        was |-> was, loaded |-> loaded]
  <1>1. /\ id \in Ids /\ at \in Nat /\ "approve" \in Actions
        /\ was \in {"pending", "changes_requested"}
    BY DEF DiscoveryInv, DiscoveryTypeOK, ApproveFlushes, Unused
  <1>2. /\ reviewing' = [reviewing EXCEPT ![m] = IF OnFile(id) THEN review ELSE Unused]
        /\ UNCHANGED <<now, suggestions, features, submitting>>
    BY DEF ApproveFlushes
  <1>3. CASE OnFile(id)
    <2>1. loaded \in Feature \cup {Absent}
      BY <1>1, <1>3, FeatureOfTyped DEF DiscoveryInv, DiscoveryTypeOK
    <2> HIDE DEF id, at, was, loaded
    <2>2. DiscoveryTypeOK'
      BY <1>1, <1>2, <1>3, <2>1 DEF DiscoveryInv, DiscoveryTypeOK
    <2>3. ApprovedStays'
      <3>1. \A r \in Reviewers \ {m} : reviewing'[r] = reviewing[r]
        BY <1>2 DEF DiscoveryInv, DiscoveryTypeOK
      <3>2. reviewing'[m] = review
        BY <1>2, <1>3 DEF DiscoveryInv, DiscoveryTypeOK
      <3>3. reviewing'[m].id \in Ids /\ Approving(reviewing'[m])
        BY <1>1, <1>3, <3>2 DEF Approving, loaded
      <3> QED
        BY <1>2, <3>1, <3>3, ApprovalsKept DEF OnFile
    <2> QED
      BY <1>2, <2>2, <2>3 DEF DiscoveryInv, RevisionOnFile, OneSubmissionPerClient, Filed, OnFile
  <1>4. CASE ~OnFile(id)
    <2>1. reviewing' = [reviewing EXCEPT ![m] = Unused]
      BY <1>2, <1>4
    <2>2. DiscoveryTypeOK'
      BY <1>2, <2>1 DEF DiscoveryInv, DiscoveryTypeOK
    <2>3. ApprovedStays'
      BY <1>2, <2>1, ReviewerDone DEF OnFile
    <2> QED
      BY <1>2, <2>2, <2>3 DEF DiscoveryInv, RevisionOnFile, OneSubmissionPerClient, Filed, OnFile
  <1> QED
    BY <1>3, <1>4

LEMMA ApproveCommitsKeeps ==
    ASSUME DiscoveryInv, NEW m \in Reviewers, ApproveCommits(m)
    PROVE  DiscoveryInv'
  <1> DEFINE review == reviewing[m]
             f == FeatureOf(review.id)
             revised == Revised(review.id, review.loaded)
  <1>1. /\ review.id \in Ids /\ review.action = "approve" /\ review.at \in Nat
        /\ review.loaded \in Feature \cup {Absent} /\ Approving(review)
    BY DEF DiscoveryInv, DiscoveryTypeOK, ApprovedStays, ApproveCommits, Unused
  <1>2. f \in Ids \cup Catalogue
    BY <1>1, FeatureOfTyped DEF DiscoveryInv, Approving
  <1>3. CASE UNCHANGED <<suggestions, features>>
    <2>1. /\ reviewing' = [reviewing EXCEPT ![m] = Unused]
          /\ UNCHANGED <<now, submitting>>
      BY DEF ApproveCommits
    <2>2. DiscoveryTypeOK'
      BY <1>3, <2>1 DEF DiscoveryInv, DiscoveryTypeOK
    <2>3. ApprovedStays'
      BY <1>3, <2>1, ReviewerDone DEF OnFile
    <2> QED
      BY <1>3, <2>2, <2>3 DEF DiscoveryInv, RevisionOnFile, OneSubmissionPerClient, Filed, OnFile
  <1>4. CASE /\ suggestions' = Judged(review)
             /\ features' = [features EXCEPT ![f] = revised]
             /\ ~(review.loaded = Absent /\ features[f] # Absent)
    <2>1. /\ suggestions' \in [Ids -> Suggestion \cup {Absent, Purged}]
          /\ \A id \in Ids : /\ OnFile(id) <=> OnFile(id)'
                             /\ OnFile(id) =>
                                   /\ suggestions'[id].submission = suggestions[id].submission
                                   /\ suggestions[id].trail \subseteq suggestions'[id].trail
          /\ "approve" \in suggestions'[review.id].trail
      <3>1. review.action \in Actions /\ OnFile(review.id)
        BY <1>1 DEF Approving, DiscoveryInv, DiscoveryTypeOK, ApproveCommits, Unused
      <3> HIDE DEF review
      <3> QED
        BY <1>1, <1>4, <3>1, JudgedRow DEF DiscoveryInv
    <2>2. revised.revision = review.id
      BY DEF Revised
    <2>3. OneSubmissionPerClient'
      <3>1. DiscoveryTypeOK /\ suggestions' \in [Ids -> Suggestion \cup {Absent, Purged}]
        BY <2>1 DEF DiscoveryInv
      <3>2. Filed' = Filed /\ \A id \in Filed : suggestions'[id].submission
                                                 = suggestions[id].submission
        BY <2>1 DEF Filed
      <3> QED
        BY <3>2 DEF DiscoveryInv, OneSubmissionPerClient
    <2>4. RevisionOnFile'
      <3>1. ASSUME NEW g \in Ids \cup Catalogue, features'[g] # Absent
            PROVE  \E id \in Ids : /\ id = features'[g].revision /\ OnFile(id)'
                                   /\ "approve" \in suggestions'[id].trail
        <4>1. CASE g = f
          <5>1. features'[g].revision = review.id
            BY <1>2, <1>4, <2>2, <4>1 DEF DiscoveryInv, DiscoveryTypeOK
          <5>2. OnFile(review.id)
            BY <1>1 DEF Approving
          <5> QED
            BY <1>1, <2>1, <5>1, <5>2
        <4>2. CASE g # f
          <5>1. features'[g] = features[g]
            BY <1>4, <4>2 DEF DiscoveryInv, DiscoveryTypeOK
          <5>2. features[g].revision \in Ids
            BY <3>1, <5>1 DEF DiscoveryInv, DiscoveryTypeOK, Feature
          <5>3. OnFile(features[g].revision)
                /\ "approve" \in suggestions[features[g].revision].trail
            BY <3>1, <5>1 DEF DiscoveryInv, RevisionOnFile, DiscoveryTypeOK
          <5> QED
            BY <2>1, <5>1, <5>2, <5>3
        <4> QED
          BY <4>1, <4>2
      <3>2. DOMAIN features' = Ids \cup Catalogue
        BY <1>4 DEF DiscoveryInv, DiscoveryTypeOK
      <3> QED
        BY <3>1, <3>2 DEF RevisionOnFile, OnFile
    <2>5. revised \in Feature
      <3>1. Published(review.id) \in {"active", "removed"}
        BY DEF Published
      <3>2. CASE review.loaded = Absent \/ review.loaded.status # Published(review.id)
        BY <1>1, <3>1, <3>2 DEF Revised, Feature
      <3>3. CASE review.loaded # Absent /\ review.loaded.status = Published(review.id)
        <4>1. features[f] \in Feature
          BY <1>1, <1>2, <3>3 DEF Approving, DiscoveryInv, DiscoveryTypeOK
        <4> QED
          BY <1>1, <3>3, <4>1 DEF Revised, Feature
      <3> QED
        BY <3>2, <3>3
    <2>6. reviewing' = [reviewing EXCEPT ![m] = Unused] /\ UNCHANGED <<now, submitting>>
      BY DEF ApproveCommits
    <2> HIDE DEF revised
    <2>7. DiscoveryTypeOK'
      BY <1>4, <2>1, <2>5, <2>6 DEF DiscoveryInv, DiscoveryTypeOK
    <2>8. \A g \in Ids \cup Catalogue : features[g] # Absent => features'[g] # Absent
      BY <1>4, <2>5, DiscoveryNames DEF DiscoveryInv, DiscoveryTypeOK
    <2>9. ApprovedStays'
      BY <2>1, <2>6, <2>8, ReviewerDone
    <2> QED
      BY <2>3, <2>4, <2>7, <2>9 DEF DiscoveryInv
  <1> QED
    BY <1>3, <1>4 DEF ApproveCommits

LEMMA PurgeKeeps ==
    ASSUME DiscoveryInv, PurgeSuggestions
    PROVE  DiscoveryInv'
  <1>1. PICK due \in SUBSET Filed :
            /\ \A id \in due : SuggestionFree(id)
            /\ Unreferenced(due)
            /\ suggestions' = [id \in Ids |-> IF id \in due THEN Purged ELSE suggestions[id]]
            /\ UNCHANGED <<now, features, submitting, reviewing>>
    BY DEF PurgeSuggestions
  <1>2. DiscoveryTypeOK'
    BY <1>1 DEF DiscoveryInv, DiscoveryTypeOK
  <1>3. \A id \in Ids \ due : suggestions'[id] = suggestions[id]
    BY <1>1
  <1>4. \A id \in Ids : OnFile(id)' => id \notin due
    BY <1>1 DEF OnFile
  <1>5. OneSubmissionPerClient'
    <2>1. Filed' \subseteq Filed /\ \A id \in Filed' : suggestions'[id] = suggestions[id]
      BY <1>3, <1>4 DEF Filed, OnFile
    <2> QED
      BY <2>1 DEF DiscoveryInv, OneSubmissionPerClient
  <1>6. RevisionOnFile'
    <2>1. ASSUME NEW f \in Ids \cup Catalogue, features[f] # Absent
          PROVE  features[f].revision \in Ids \ due
      BY <1>1, <2>1 DEF Unreferenced, DiscoveryInv, DiscoveryTypeOK, Feature
    <2> QED
      BY <1>1, <1>3, <2>1 DEF DiscoveryInv, DiscoveryTypeOK, RevisionOnFile, OnFile
  <1>7. ApprovedStays'
    <2>1. \A m \in Reviewers : reviewing[m].state = "publishing" => reviewing[m].id \notin due
      BY <1>1 DEF SuggestionFree
    <2> QED
      BY <1>1, <1>3, <2>1, ApprovalsKept DEF OnFile
  <1> QED
    BY <1>2, <1>5, <1>6, <1>7 DEF DiscoveryInv

LEMMA DiscoveryIdles ==
    ASSUME DiscoveryInv,
           DiscoveryTick \/ (now' \in {now} \cup Nat /\ UNCHANGED discoveryVars)
    PROVE  DiscoveryInv'
  <1>1. UNCHANGED discoveryVars /\ now' \in Nat
    BY DEF DiscoveryTick, TickTo, DiscoveryInv, DiscoveryTypeOK
  <1>2. DiscoveryTypeOK'
    BY <1>1 DEF DiscoveryInv, DiscoveryTypeOK, discoveryVars
  <1>3. ApprovedStays'
    BY <1>1, ApprovalsKept DEF OnFile, discoveryVars
  <1> QED
    BY <1>1, <1>2, <1>3 DEF DiscoveryInv, RevisionOnFile, OneSubmissionPerClient, Filed, OnFile,
                            discoveryVars

LEMMA DiscoveryKeeps ==
    ASSUME DiscoveryInv, [DiscoveryNext]_<<now, discoveryVars>> PROVE DiscoveryInv'
  <1>1. CASE \E s \in Submitters, sub \in Submissions : SubmitReads(s, sub)
    BY <1>1, SubmitReadsKeeps
  <1>2. CASE \E s \in Submitters : SubmitCommits(s)
    BY <1>2, SubmitCommitsKeeps
  <1>3. CASE \E m \in Reviewers, id \in Ids, action \in Actions : ReviewReads(m, id, action)
    BY <1>3, ReviewReadsKeeps
  <1>4. CASE \E m \in Reviewers : ReviewCommits(m)
    BY <1>4, ReviewCommitsKeeps
  <1>5. CASE \E m \in Reviewers : ApproveFlushes(m)
    BY <1>5, ApproveFlushesKeeps
  <1>6. CASE \E m \in Reviewers : ApproveCommits(m)
    BY <1>6, ApproveCommitsKeeps
  <1>7. CASE PurgeSuggestions
    BY <1>7, PurgeKeeps
  <1>8. CASE DiscoveryTick \/ UNCHANGED <<now, discoveryVars>>
    BY <1>8, DiscoveryIdles
  <1> QED
    BY <1>1, <1>2, <1>3, <1>4, <1>5, <1>6, <1>7, <1>8 DEF DiscoveryNext

THEOREM DiscoveryInvariant == DiscoverySpec => []DiscoveryInv
  <1>1. DiscoveryInv /\ [DiscoveryNext]_<<now, discoveryVars>> => DiscoveryInv'
    BY DiscoveryKeeps
  <1> QED
    BY <1>1, DiscoveryInitially, PTL DEF DiscoverySpec

\* Whatever reviewers and clean-ups do at the same time, the revision behind
\* every feature is on file with its approval.
THEOREM RevisionsStayOnFile == DiscoverySpec => []RevisionOnFile
  <1>1. DiscoveryInv => RevisionOnFile
    BY DEF DiscoveryInv
  <1> QED
    BY <1>1, DiscoveryInvariant, PTL

\* A submission that is retried, or sent twice at once, is filed once.
THEOREM SubmissionsFiledOnce == DiscoverySpec => []OneSubmissionPerClient
  <1>1. DiscoveryInv => OneSubmissionPerClient
    BY DEF DiscoveryInv
  <1> QED
    BY <1>1, DiscoveryInvariant, PTL

-----------------------------------------------------------------------------
(* Ratings *)

LEMMA RatingsBegin ==
    ASSUME RatingInit PROVE RatingTypeOK /\ RatingsAddUp
  BY DEF RatingInit, RatingTypeOK, RatingsAddUp

LEMMA RatingsKeep ==
    ASSUME RatingTypeOK, RatingsAddUp, [RatingNext]_ratingVars
    PROVE  (RatingTypeOK /\ RatingsAddUp)'
  <1> DEFINE Inv == RatingTypeOK /\ RatingsAddUp
  <1>1. ASSUME NEW r \in Raters, NEW v \in Verdicts, RateIncrements(r, v) PROVE Inv'
    <2>1. CASE tally[v] > 0
      <3>1. tally' = [tally EXCEPT ![v] = @ + 1] /\ answered' = [answered EXCEPT ![v] = @ + 1]
            /\ rating' = rating
        BY <1>1, <2>1 DEF RateIncrements
      <3> QED
        BY <3>1 DEF RatingTypeOK, RatingsAddUp
    <2>2. CASE ~(tally[v] > 0)
      <3>1. rating' = [rating EXCEPT ![r] = [state |-> "inserting", verdict |-> v]]
            /\ UNCHANGED <<tally, answered>>
        BY <1>1, <2>2 DEF RateIncrements
      <3> QED
        BY <3>1 DEF RatingTypeOK, RatingsAddUp
    <2> QED
      BY <2>1, <2>2
  <1>2. ASSUME NEW r \in Raters, RateInserts(r) PROVE Inv'
    <2>1. rating[r].verdict \in Verdicts
      BY <1>2 DEF RateInserts, RatingTypeOK, Asking
    <2>2. CountAfter(rating[r].verdict) = tally[rating[r].verdict] + 1
      BY <2>1 DEF CountAfter, RatingTypeOK
    <2>3. rating' = [rating EXCEPT ![r] = Asking]
          /\ tally' = [tally EXCEPT ![rating[r].verdict] = @ + 1]
          /\ answered' = [answered EXCEPT ![rating[r].verdict] = @ + 1]
      BY <1>2, <2>2 DEF RateInserts
    <2> QED
      BY <2>1, <2>3 DEF RatingTypeOK, RatingsAddUp
  <1>3. CASE UNCHANGED ratingVars
    BY <1>3 DEF RatingTypeOK, RatingsAddUp, ratingVars
  <1> QED
    BY <1>1, <1>2, <1>3 DEF RatingNext

\* No rating is lost and none counted twice, whoever inserts the tally first.
THEOREM RatingsAlwaysAddUp == RatingSpec => [](RatingTypeOK /\ RatingsAddUp)
  <1>1. RatingInit => RatingTypeOK /\ RatingsAddUp
    BY RatingsBegin
  <1>2. RatingTypeOK /\ RatingsAddUp /\ [RatingNext]_ratingVars => (RatingTypeOK /\ RatingsAddUp)'
    BY RatingsKeep
  <1> QED
    BY <1>1, <1>2, PTL DEF RatingSpec

LEMMA EnoughAnswers ==
    ASSUME RatingTypeOK, RatingsAddUp PROVE RecommendedByMany
  <1> DEFINE worth == tally["worth_including"]
             notWorth == tally["not_worth_including"]
  <1>1. worth \in Nat /\ notWorth \in Nat /\ answered = tally
        /\ MinimumResponses \in Nat \ {0}
    BY RatingAssumption DEF RatingTypeOK, RatingsAddUp, Verdicts
  <1> HIDE DEF worth, notWorth
  <1>2. Recommendation(worth, notWorth) # "insufficient" => worth + notWorth >= MinimumResponses
    BY <1>1 DEF Recommendation
  <1>3. Recommendation(worth, notWorth) = "promote" =>
            worth + notWorth >= MinimumResponses /\ 10 * worth >= 7 * (worth + notWorth)
    BY <1>1 DEF Recommendation
  <1>4. Recommendation(worth, notWorth) = "promote" => worth > notWorth
    BY <1>1, <1>3
  <1> QED
    BY <1>1, <1>2, <1>4 DEF RecommendedByMany, Report, Answers, worth, notWorth

\* A road is never recommended on fewer answers than the rule asks for, nor for
\* promotion by a minority of them, whoever gave them and however often.
THEOREM RecommendationsAreEarned == RatingSpec => []RecommendedByMany
  <1>1. RatingTypeOK /\ RatingsAddUp => RecommendedByMany
    BY EnoughAnswers
  <1> QED
    BY <1>1, RatingsAlwaysAddUp, PTL
=============================================================================
