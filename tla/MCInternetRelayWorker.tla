----------------------- MODULE MCInternetRelayWorker -----------------------
(* InternetRelayWorker on small instances. *)
EXTENDS InternetRelayWorker, TLC

CONSTANT d1

\* One device records the odd events, the others come from elsewhere.
OneDevice == [e \in Events |-> IF e % 2 = 1 THEN d1 ELSE Elsewhere]
=============================================================================
