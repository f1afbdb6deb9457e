---------------------------- MODULE RelayJournal ----------------------------
(***************************************************************************)
(* What the relay promises the devices of a voyage: a journal of events in *)
(* the order of their sequence numbers, and answers that a device may      *)
(* resume from.  A row is never changed; it goes away when it expires or   *)
(* its voyage does.  Transactions, locks and retries do not show.          *)
(***************************************************************************)
EXTENDS Integers

VARIABLES
    journal,  \* the rows the relay holds
    answers   \* the answers it has sent

OneRowEach(held) ==
    \A x, y \in held :
        x.event.id = y.event.id \/ x.sequence = y.sequence => x = y

\* The device that sent cursor a.from needs nothing up to a.to any more.
Covers(a, held) ==
    \A x \in held :
        a.from < x.sequence /\ x.sequence <= a.to => x.event.id \in a.events

\* New rows come after every row and every cursor a device may hold, 0 for one
\* that holds none.
Follows(new, kept) ==
    \A x \in new :
        /\ x.sequence > 0
        /\ \A y \in kept : y.sequence < x.sequence
        /\ \A a \in answers : a.to < x.sequence

\* A synchronisation: rows expire, an upload is stored, an answer is sent.
Sync(kept, new, a) ==
    /\ kept \subseteq journal
    /\ Follows(new, kept)
    /\ OneRowEach(kept \cup new)
    /\ Covers(a, kept \cup new)
    /\ journal' = kept \cup new
    /\ answers' = answers \cup {a}

Forget ==
    /\ journal' \subseteq journal
    /\ UNCHANGED answers

Init == journal = {} /\ answers = {}

Next ==
    \/ \E a \in answers' : Sync(journal \cap journal', journal' \ journal, a)
    \/ Forget

Spec == Init /\ [][Next]_<<journal, answers>>
=============================================================================
