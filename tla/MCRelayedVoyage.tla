--------------------------- MODULE MCRelayedVoyage ---------------------------
(* RelayedVoyage on small instances. *)
EXTENDS RelayedVoyage, TLC

CONSTANT d1

\* One device records the odd events, the others come from elsewhere.
OneDevice == [e \in Events |-> IF e % 2 = 1 THEN d1 ELSE Elsewhere]

\* Two answers at most, each of which moves a cursor.
FewAnswers == Cardinality(answers) <= 2 /\ \A a \in answers : a.from < a.to
=============================================================================
