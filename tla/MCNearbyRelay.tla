--------------------------- MODULE MCNearbyRelay ---------------------------
(* NearbyRelay on three phones in a line with one event, or on two with    *)
(* three: one of a kind the second cannot read, and two that do not fit    *)
(* one frame together.                                                     *)
EXTENDS NearbyRelay

Line == {{"p1", "p2"}, {"p2", "p3"}}
AllAreTheFirsts == [e \in Events |-> "p1"]
Alongside ==
    {[crew |-> Phones, events |-> {"alert"}, meetings |-> 2],
     [crew |-> {"p1", "p2"}, events |-> {"novel", "alert", "chunk"}, meetings |-> 1]}
NovelFirst == [e \in Events |-> CASE e = "novel" -> 3 [] e = "alert" -> 2 [] e = "chunk" -> 1]
Sizes == [e \in Events |-> IF e = "novel" THEN 1 ELSE 2]
OnlyTheFirstIsUpdated == [p \in Phones |-> IF p = "p1" THEN Events ELSE Events \ {"novel"}]
OneHour == [e \in Events |-> 1]
=============================================================================
