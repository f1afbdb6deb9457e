----------------------------- MODULE MCRelaySync -----------------------------
(* RelaySync on small instances: what the devices of each run may upload. *)
EXTENDS RelaySync, TLC

Far == 100   \* an expiresAt beyond the clock: the sender asked for none

MkEvent(id, type, body, expires) ==
    [id |-> id, type |-> type, body |-> body, expires |-> expires]

Ended == MkEvent("ended", "voyageEnded", 1, Far)
Reopened == MkEvent("reopened", "voyageReopened", 1, Far)
EndedAgain == MkEvent("endedAgain", "voyageEnded", 1, Far)
Location == MkEvent("location", "sailorLocationUpdated", 1, Far)
Hazard == MkEvent("hazard", "hazardReported", 1, Far)
Forged == MkEvent("hazard", "hazardReported", 2, Far)
Message == MkEvent("message", "statusMessage", 1, 2)

Symmetry == Permutations(Sailors) \cup Permutations(Relays)

\* A voyage's life, uploaded in its order, as it happens or after a while offline.
LifecycleBatches ==
    {<<>>, <<Location>>, <<Ended>>, <<Ended, Reopened>>,
     <<Reopened, EndedAgain>>}

\* Uploads that are retried, repeat an identity, or carry two events.
JournalBatches == {<<>>, <<Hazard, Message>>, <<Location>>, <<Forged>>}

\* Such uploads, on a voyage that may also end.
WorkerBatches == {<<>>, <<Hazard, Message>>, <<Ended>>, <<Forged>>}
=============================================================================
