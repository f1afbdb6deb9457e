---------------------------- MODULE RoadRatings -----------------------------
(***************************************************************************)
(* Anonymous ratings of one road in one release of the catalogue: a tally  *)
(* per verdict, incremented or inserted without reading it first, and what *)
(* it recommends.  No submission leaves a row of its own, so only the   *)
(* tally can say what was answered.                                        *)
(***************************************************************************)
EXTENDS Naturals

CONSTANTS
    Raters,         \* requests at once
    MinimumResponses,
    MaxAnswers      \* bound: ratings accepted before new ones stop arriving

ASSUME RatingAssumption == MinimumResponses \in Nat \ {0} /\ MaxAnswers \in Nat

VARIABLES
    rating,     \* the requests
    tally,      \* discovery_road_ratings: answers per verdict, 0 for no row
    answered    \* ratings accepted per verdict, a history

ratingVars == <<rating, tally, answered>>

Verdicts == {"worth_including", "not_worth_including"}
Asking == [state |-> "asking"]

RatingInit ==
    /\ rating = [r \in Raters |-> Asking]
    /\ tally = [v \in Verdicts |-> 0]
    /\ answered = [v \in Verdicts |-> 0]

Answers == answered["worth_including"] + answered["not_worth_including"]

\* The increment finds the row, or the request goes on to insert one.
RateIncrements(r, v) ==
    /\ rating[r] = Asking
    /\ Answers < MaxAnswers
    /\ IF tally[v] > 0
       THEN /\ tally' = [tally EXCEPT ![v] = @ + 1]
            /\ answered' = [answered EXCEPT ![v] = @ + 1]
            /\ UNCHANGED rating
       ELSE /\ rating' = [rating EXCEPT ![r] = [state |-> "inserting", verdict |-> v]]
            /\ UNCHANGED <<tally, answered>>

InsertsOverMutant(v) == 1
\* The insert, or the increment once more if another request inserted first.
CountAfter(v) == IF tally[v] = 0 THEN 1 ELSE tally[v] + 1

RateInserts(r) ==
    LET v == rating[r].verdict
    IN  /\ rating[r].state = "inserting"
        /\ tally' = [tally EXCEPT ![v] = CountAfter(v)]
        /\ answered' = [answered EXCEPT ![v] = @ + 1]
        /\ rating' = [rating EXCEPT ![r] = Asking]

\* Shares of 70% and 60%, of integers.
Recommendation(worth, notWorth) ==
    LET total == worth + notWorth
    IN  CASE total < MinimumResponses -> "insufficient"
          [] total >= MinimumResponses /\ 10 * worth >= 7 * total -> "promote"
          [] total >= MinimumResponses /\ 10 * worth < 7 * total
             /\ 10 * notWorth >= 6 * total -> "review-for-removal"
          [] OTHER -> "insufficient"

\* What the catalogue's reviewers are told.
Report == Recommendation(tally["worth_including"], tally["not_worth_including"])

RatingNext ==
    \/ \E r \in Raters, v \in Verdicts : RateIncrements(r, v)
    \/ \E r \in Raters : RateInserts(r)

RatingSpec == RatingInit /\ [][RatingNext]_ratingVars

----------------------------------------------------------------------------
(* Properties *)

RatingTypeOK ==
    /\ \A r \in Raters : rating[r] \in {Asking} \cup [state : {"inserting"}, verdict : Verdicts]
    /\ DOMAIN rating = Raters
    /\ tally \in [Verdicts -> Nat]
    /\ answered \in [Verdicts -> Nat]

\* No answer is lost and none counted twice, the first two of a road, sent at
\* once, included: the tally is the number of ratings accepted.
RatingsAddUp == tally = answered

\* A road is recommended for anything only on as many answers as the rule asks
\* for, and never for promotion by a minority of them.  They are answers, not
\* people: nothing tells two answers of one sailor apart.
RecommendedByMany ==
    /\ Report # "insufficient" => Answers >= MinimumResponses
    /\ Report = "promote" => answered["worth_including"] > answered["not_worth_including"]
=============================================================================
