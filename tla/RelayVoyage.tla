---------------------------- MODULE RelayVoyage ----------------------------
(* RelaySync with the memory of whether the clean-up has begun to run. *)
EXTENDS RelaySync

VARIABLE cleaned

VoyageSpec ==
    /\ Init /\ cleaned = FALSE
    /\ [][/\ Next
          /\ cleaned' = (cleaned \/ cleaner' # cleaner)]_<<vars, cleaned>>

\* Through crashes, retries, expiry and a voyage's end, stored_event_count is
\* the number of the voyage's rows, until the clean-up first runs.
CounterMatchesUncleanedRows == ~cleaned => CounterMatchesRows

\* The limit that is checked against that count holds for the rows as long.
QuotaHoldsUncleaned == ~cleaned => QuotaHolds
=============================================================================
