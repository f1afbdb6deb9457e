---------------------------- MODULE RateLimiter -----------------------------
(***************************************************************************)
(* The sliding-window limiter every public handler asks first.  A table    *)
(* holds, for each key, the instants of the requests it let through; it    *)
(* knows a bounded number of keys, and makes room by forgetting those that *)
(* have been quiet for a window.                                           *)
(*                                                                         *)
(* The code reads the clock and then takes its lock; here both are one     *)
(* step, so a key's instants are in order.                                 *)
(***************************************************************************)
EXTENDS RelayClock, Sequences, FiniteSets

\* A limit is [requests, window, keys]; a new table knows no key.
NoKeys == [key \in {} |-> <<>>]

ForgetsEarlyMutant(stamp, limit) == stamp + limit.window > now + 1
\* An instant that still counts.
Within(stamp, limit) == stamp + limit.window > now

ForgetsBusyMutant(stamps, limit) == FALSE
Busy(stamps, limit) == stamps # <<>> /\ Within(stamps[Len(stamps)], limit)

\* The table with room made in it, if it is full.
Swept(table, limit) ==
    IF Cardinality(DOMAIN table) < limit.keys THEN table
    ELSE [key \in {k \in DOMAIN table : Busy(table[k], limit)} |-> table[key]]

NeverFullMutant(table, key, limit) == FALSE
\* A key nobody knows, and no room for it.
Full(table, key, limit) == key \notin DOMAIN table /\ Cardinality(DOMAIN table) >= limit.keys

\* A key's instants, none for a key nobody knows.
Stamps(table, key) == IF key \in DOMAIN table THEN table[key] ELSE <<>>

\* The first instant that still counts, or the place after the last.
FirstWithin(stamps, limit) ==
    CHOOSE first \in 1..(Len(stamps) + 1) :
        /\ first <= Len(stamps) => Within(stamps[first], limit)
        /\ \A i \in 1..(first - 1) : ~Within(stamps[i], limit)

\* What a request leaves behind, and whether it is let through.
Checked(table, key, limit) ==
    LET room == IF key \in DOMAIN table THEN table ELSE Swept(table, limit)
        full == Full(room, key, limit)
        held == Stamps(table, key)
        recent == SubSeq(held, FirstWithin(held, limit), Len(held))
        admitted == ~full /\ Len(recent) < limit.requests
        stamps == IF admitted THEN Append(recent, now) ELSE recent
    IN  [admitted |-> admitted,
         table |-> IF full THEN room
                   ELSE [k \in DOMAIN room \cup {key} |-> IF k = key THEN stamps ELSE room[k]]]
=============================================================================
