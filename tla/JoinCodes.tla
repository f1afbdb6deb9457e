----------------------------- MODULE JoinCodes ------------------------------
(***************************************************************************)
(* The relay's short codes: six digits that name a voyage and hand out its *)
(* invitation, and the codes of plans drawn before a voyage.               *)
(*                                                                         *)
(* A registration deletes what has expired, reads its code's row and       *)
(* inserts or rewrites it at the commit; handlers run in a thread pool.  A *)
(* lookup is a function of one row and the clock: its deletion of an       *)
(* expired row is rolled back with the 404.  What limits lookups is in     *)
(* CodeLookups.  Plans are created on the event loop, one at a time.       *)
(*                                                                         *)
(* A credential is derived from voyage and secret, so that two are equal   *)
(* when both are.  Protocol and form checks, GPX, names and encryption are *)
(* left out.                                                               *)
(***************************************************************************)
EXTENDS RelayClock

CONSTANTS
    Codes, PlanCodes,   \* the codes there are
    Invites,        \* [voyage, secret] pairs a phone may register
    JoinTokens,     \* resolve tokens
    Registrars,     \* registrations at once
    Routes,         \* plans' contents
    CodeLife, PlanLife, \* voyage_retention_hours, plan_retention_days
    MaxPlans,       \* bound: plans made
    CodeMaxNow,     \* bound: last instant of the clock
    Nobody          \* no row

ASSUME JoinCodeAssumption ==
    /\ {CodeLife, PlanLife, MaxPlans, CodeMaxNow} \subseteq Nat
    /\ Nobody \notin JoinTokens
    /\ \A invite \in Invites : invite = [voyage |-> invite.voyage, secret |-> invite.secret]

\* A row of voyage_join_codes, and one of voyage_plans.
CodeRow == [voyage : {invite.voyage : invite \in Invites},
            secret : {invite.secret : invite \in Invites},
            token : JoinTokens, expires : Nat]
PlanRow == [route : Routes, expires : Nat]

ASSUME CodeNames == Nobody \notin CodeRow /\ Nobody \notin PlanRow

VARIABLES
    codes,      \* voyage_join_codes: a record or Nobody per code
    plans,      \* voyage_plans: a record or Nobody per code
    registering,    \* the registrations
    planned     \* plans made, for the bound

codeVars == <<codes, plans, registering, planned>>

Ended == [state |-> "ended"]

LiveCode(code, at) == codes[code] # Nobody /\ codes[code].expires > at
LivePlan(code, at) == plans[code] # Nobody /\ plans[code].expires > at

CodeInit ==
    /\ codes = [code \in Codes |-> Nobody]
    /\ plans = [code \in PlanCodes |-> Nobody]
    /\ registering = [t \in Registrars |-> Ended]
    /\ planned = 0

----------------------------------------------------------------------------
(* Registering a voyage's code *)

ExpiredCodes == {code \in Codes : codes[code] # Nobody /\ ~LiveCode(code, now)}

\* Nobody else is deleting the rows this transaction is about to delete.
DeleteFree == ExpiredCodes = {} \/ \A t \in Registrars : registering[t] = Ended

AnyVoyageMutant(row, invite) == TRUE
\* A code is rewritten by the voyage and the credential it was registered by.
Rewritable(row, invite) == row.voyage = invite.voyage /\ row.secret = invite.secret

\* A code in use by another voyage or credential refuses the request.
RegisterReads(t, code, invite, token) ==
    /\ registering[t] = Ended
    /\ DeleteFree
    /\ LiveCode(code, now) => Rewritable(codes[code], invite)
    /\ registering' = [registering EXCEPT ![t] =
           [state |-> IF LiveCode(code, now) THEN "rewriting" ELSE "inserting",
            code |-> code, invite |-> invite, token |-> token, at |-> now]]
    /\ UNCHANGED <<now, codes, plans, planned>>

\* The rows of the codes after what had expired is deleted.
Remaining(at) == [code \in Codes |-> IF LiveCode(code, at) THEN codes[code] ELSE Nobody]

InsertsAnywayMutant(code, at) == TRUE
\* The primary key, as an insert meets it.
Unregistered(code, at) == Remaining(at)[code] = Nobody

Registered(r) ==
    [voyage |-> r.invite.voyage, secret |-> r.invite.secret,
     token |-> r.token, expires |-> r.at + CodeLife]
\* The token may be new, and the secret is written again; the expiry is not.
Rewritten(row, r) ==
    [voyage |-> row.voyage, secret |-> r.invite.secret,
     token |-> r.token, expires |-> row.expires]

\* The commit.  The insert of a code registered meanwhile fails and rolls
\* back; a code that is rewritten was in use when it was read, and still is.
RegisterCommits(t) ==
    LET r == registering[t]
        left == Remaining(r.at)
    IN  /\ \/ /\ r.state = "inserting" /\ Unregistered(r.code, r.at)
              /\ codes' = [left EXCEPT ![r.code] = Registered(r)]
           \/ /\ r.state = "inserting" /\ ~Unregistered(r.code, r.at)
              /\ UNCHANGED codes
           \/ /\ r.state = "rewriting"
              /\ codes' = [left EXCEPT ![r.code] = Rewritten(left[r.code], r)]
        /\ registering' = [registering EXCEPT ![t] = Ended]
        /\ UNCHANGED <<now, plans, planned>>

----------------------------------------------------------------------------
(* Looking a code up *)

\* What a lookup is answered: nothing, or the invitation.
Resolved(code, token) ==
    IF LiveCode(code, now) /\ token \in {Nobody, codes[code].token}
    THEN {[voyage |-> codes[code].voyage, secret |-> codes[code].secret]} ELSE {}

----------------------------------------------------------------------------
(* Plans *)

OverwritesMutant(left) == PlanCodes
\* The codes an insert may take: none that is in use.
FreeCodes(left) == {code \in PlanCodes : left[code] = Nobody}

\* Expired plans go, and one of eight random codes is tried after the other;
\* if all eight are taken, everything is rolled back and nothing changes.
CreatePlan(route) ==
    LET left == [code \in PlanCodes |-> IF LivePlan(code, now) THEN plans[code] ELSE Nobody]
    IN  /\ planned < MaxPlans
        /\ \E code \in FreeCodes(left) :
               plans' = [left EXCEPT ![code] = [route |-> route, expires |-> now + PlanLife]]
        /\ planned' = planned + 1
        /\ UNCHANGED <<now, codes, registering>>

\* The clean-up process.
PurgeCodes ==
    /\ DeleteFree
    /\ codes' = Remaining(now)
    /\ plans' = [code \in PlanCodes |-> IF LivePlan(code, now) THEN plans[code] ELSE Nobody]
    /\ <<codes', plans'>> # <<codes, plans>>
    /\ UNCHANGED <<now, registering, planned>>

\* A registration, milliseconds, ends before the clock (hours) moves.
CodeTick ==
    /\ \A t \in Registrars : registering[t] = Ended
    /\ TickTo(CodeMaxNow)
    /\ UNCHANGED codeVars

CodeNext ==
    \/ \E t \in Registrars, code \in Codes, invite \in Invites, token \in JoinTokens :
           RegisterReads(t, code, invite, token)
    \/ \E t \in Registrars : RegisterCommits(t)
    \/ \E route \in Routes : CreatePlan(route)
    \/ PurgeCodes
    \/ CodeTick

CodeSpec == now = 0 /\ CodeInit /\ [][CodeNext]_<<now, codeVars>>

----------------------------------------------------------------------------
(* Properties *)

CodeTypeOK ==
    /\ now \in Nat
    /\ codes \in [Codes -> CodeRow \cup {Nobody}]
    /\ plans \in [PlanCodes -> PlanRow \cup {Nobody}]
    /\ registering \in [Registrars -> {Ended} \cup
           [state : {"inserting", "rewriting"}, code : Codes, invite : Invites,
            token : JoinTokens, at : Nat]]
    /\ planned \in 0..MaxPlans

\* Until it expires a code names the voyage, the invitation and the moment it
\* was registered with, whoever else registers it at the same time and however
\* often its own phone registers it again.
LiveCodesStay ==
    [][\A code \in Codes : LiveCode(code, now') =>
          /\ codes'[code] # Nobody
          /\ codes'[code].voyage = codes[code].voyage
          /\ codes'[code].secret = codes[code].secret
          /\ codes'[code].expires = codes[code].expires]_<<now, codeVars>>

\* A lookup is never answered with a voyage's name and another's invitation.
AnswersAreInvites ==
    \A code \in Codes, token \in JoinTokens \cup {Nobody} : Resolved(code, token) \subseteq Invites

\* A plan is not replaced by another that drew its code.
LivePlansStay ==
    [][\A code \in PlanCodes : LivePlan(code, now') => plans'[code] = plans[code]]_<<now, codeVars>>
=============================================================================
