---------------------------- MODULE CodeLookups -----------------------------
(***************************************************************************)
(* Who may look a voyage code up, and how often: the handler asks the      *)
(* limiter of the client's address and, for a lookup without a resolve     *)
(* token, one limiter for everybody.                                       *)
(***************************************************************************)
EXTENDS RateLimiter

CONSTANTS
    Addresses,      \* client addresses
    AddressLimit, GlobalLimit,  \* [requests, window, keys] of the limiters
    MaxLookups,     \* bound: lookups let through
    LookupMaxNow    \* bound: last instant of the clock

ASSUME LookupAssumption ==
    /\ {MaxLookups, LookupMaxNow} \subseteq Nat
    /\ {AddressLimit, GlobalLimit} \subseteq
           [requests : Nat \ {0}, window : Nat \ {0}, keys : Nat \ {0}]

VARIABLES
    byAddress, global,  \* the limiters' tables
    lookups     \* [at, address, guess] of each lookup let through, a history

lookupVars == <<byAddress, global, lookups>>

LookupInit == byAddress = NoKeys /\ global = NoKeys /\ lookups = <<>>

\* A lookup the first limiter refused never reaches the second.
AsksGlobal(first, guess) == first.admitted /\ guess

\* A lookup by an address; a guess carries no resolve token.
Lookup(address, guess) ==
    LET first == Checked(byAddress, address, AddressLimit)
        second == Checked(global, "join-code-global", GlobalLimit)
    IN  /\ Len(lookups) < MaxLookups
        /\ byAddress' = first.table
        /\ global' = IF AsksGlobal(first, guess) THEN second.table ELSE global
        /\ lookups' = IF first.admitted /\ (guess => second.admitted)
                      THEN Append(lookups, [at |-> now, address |-> address, guess |-> guess])
                      ELSE lookups
        /\ UNCHANGED now

LookupTick == TickTo(LookupMaxNow) /\ UNCHANGED lookupVars

LookupNext ==
    \/ \E address \in Addresses, guess \in BOOLEAN : Lookup(address, guess)
    \/ LookupTick

LookupSpec == now = 0 /\ LookupInit /\ [][LookupNext]_<<now, lookupVars>>

----------------------------------------------------------------------------
(* Properties *)

Stamped(table, limit) ==
    \A key \in DOMAIN table : table[key] \in Seq(0..now) /\ Len(table[key]) <= limit.requests

LookupTypeOK ==
    /\ now \in Nat
    /\ DOMAIN byAddress \subseteq Addresses
    /\ Cardinality(DOMAIN byAddress) <= AddressLimit.keys
    /\ DOMAIN global \subseteq {"join-code-global"}
    /\ Stamped(byAddress, AddressLimit) /\ Stamped(global, GlobalLimit)
    /\ lookups \in Seq([at : Nat, address : Addresses, guess : BOOLEAN])
    /\ Len(lookups) <= MaxLookups

Guesses == {i \in DOMAIN lookups : lookups[i].guess}
LookupsFrom(address) == {i \in DOMAIN lookups : lookups[i].address = address}

\* Those of some lookups that were let through in the last window.
Recent(some, limit) == {i \in some : lookups[i].at + limit.window > now}

\* "the global window bounds the whole keyspace's guess rate regardless of IP
\* diversity" (app.py): in no window are more lookups without a token let
\* through than the global limit, from however many addresses.
GuessRateBounded == Cardinality(Recent(Guesses, GlobalLimit)) <= GlobalLimit.requests

\* No address is let through more often than its limit in any window, though
\* the limiter forgets addresses to make room for others.
AddressRateBounded ==
    \A address \in Addresses :
        Cardinality(Recent(LookupsFrom(address), AddressLimit)) <= AddressLimit.requests
=============================================================================
