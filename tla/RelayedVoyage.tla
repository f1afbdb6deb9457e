---------------------------- MODULE RelayedVoyage ----------------------------
(***************************************************************************)
(* The workers of InternetRelayWorker beside a relay of which they know    *)
(* only the promise of RelayJournal, the one RelaySync keeps: it stores,   *)
(* expires and answers when it likes, and an answer reaches any device     *)
(* that sent its cursor, however late, and more than once.  The promise is *)
(* asked for only as far as this build understands the events.             *)
(***************************************************************************)
EXTENDS InternetRelayWorker

VARIABLE answers  \* the answers the relay has sent

relayed == <<vars, answers>>

\* Answers, as far as this build understands them.
Answer == [from : 0..MaxSequence, to : 0..MaxSequence, events : SUBSET Understood]

\* The relay's rows that this build understands, as RelayJournal has them.
UnderstoodRows ==
    {[sequence |-> x.sequence, event |-> [id |-> x.event]] :
        x \in {y \in rows : y.event \in Understood}}

Promise == INSTANCE RelayJournal WITH journal <- UnderstoodRows

InitRelayed == Init /\ answers = {}

-----------------------------------------------------------------------------
(* A relay that does what it promised, and nothing more is known of it *)

\* It answers a request, of a device of the voyage or another, and stores what
\* the request brought.
RelaySynchronizes ==
    /\ rows' \in SUBSET [sequence : 1..MaxSequence, event : Events]
    /\ \E a \in Answer :
        /\ answers' = answers \cup {a}
        /\ Promise!Sync(UnderstoodRows \cap UnderstoodRows',
                        UnderstoodRows' \ UnderstoodRows, a)
    /\ UNCHANGED <<durable, worker, nextSequence, taken, restarts>>

RelayForgets ==
    /\ rows' \in SUBSET rows
    /\ Promise!Forget
    /\ UNCHANGED <<durable, worker, nextSequence, taken, restarts>>

\* A device that sent this cursor is answered.
Deliver(d) ==
    /\ In(d, "sent")
    /\ \E a \in answers, accepted \in SUBSET sync[d].upload :
        /\ a.from = sync[d].from
        /\ sync' = [sync EXCEPT
             ![d].pc = "replied",
             ![d].reply = [to |-> a.to, accepted |-> accepted,
                           events |-> a.events]]
    /\ UNCHANGED <<durable, running, timer, quarantined, probing, downloadOnly,
                   relay, restarts, answers>>

Phone(d) == Wake(d) \/ Exchange(d) \/ RelayRefuses(d) \/ Failure(d) \/ App(d)

RelayedNext ==
    \/ RelaySynchronizes \/ RelayForgets
    \/ \E d \in Devices : Deliver(d) \/ (Phone(d) /\ UNCHANGED answers)

RelayedSpec == InitRelayed /\ [][RelayedNext]_relayed

-----------------------------------------------------------------------------
(* The one-step relay of InternetRelayWorker, with the answers it has sent *)

AnswerTo(d) == [from |-> sync[d].from, to |-> sync'[d].reply.to,
                events |-> sync'[d].reply.events]

\* What other devices were answered is not modelled: nothing is promised them.
NoAnswer == [from |-> 0, to |-> 0, events |-> {}]

OneStepNext ==
    \/ \E d \in Devices :
        RelayAnswers(d) /\ answers' = answers \cup {AnswerTo(d)}
    \/ \E e \in Events :
        UploadElsewhere(e) /\ answers' = answers \cup {NoAnswer}
    \/ /\ \/ \E d \in Devices : Phone(d)
          \/ \E x \in rows : Forget(x)
       /\ UNCHANGED answers

OneStepSpec == InitRelayed /\ [][OneStepNext]_relayed

\* The worker was checked against a relay that keeps the promise: its single
\* step numbers rows past every cursor it has given out, stores no event twice
\* and leaves nothing out below the cursor it answers.
OneStepKeepsPromise == Promise!Spec
=============================================================================
