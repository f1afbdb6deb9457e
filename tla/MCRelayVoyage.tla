--------------------------- MODULE MCRelayVoyage ---------------------------
(* RelayVoyage on a small instance. *)
EXTENDS RelayVoyage, MCRelaySync

VoyageBatches == LifecycleBatches \cup JournalBatches
=============================================================================
