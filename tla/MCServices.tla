----------------------------- MODULE MCServices -----------------------------
(* Two or three of everything that can get in one another's way. *)
EXTENDS Services

MkEvent(id, device, type, detail, role) ==
    [id |-> id, device |-> device, type |-> type, detail |-> detail, role |-> role,
     recipients |-> {}, affected |-> {}, everyone |-> FALSE, created |-> 0]

SkipperJoins == MkEvent("skipper", "d1", "sailorJoined", "", "skipper")
CrewJoins == MkEvent("crew", "d2", "sailorJoined", "", "sailor")
CrewSweeps == MkEvent("sweeps", "d2", "roleChanged", "", "sweeper")
SkipperLeaves == MkEvent("leaves", "d1", "sailorLeft", "", "")
Alert == MkEvent("alert", "d2", "statusMessage", "assistance", "")
Ends == MkEvent("ended", "d1", "voyageEnded", "", "")

Boarding == <<SkipperJoins, CrewJoins>>

\* Boarding, a change of role with an alert, and the alert again with an end
\* and a departure.
VoyageBatches == {Boarding, <<CrewSweeps, Alert>>, <<Alert, Ends, SkipperLeaves>>}
Snapshot(scope, version, status, position, helpAt, help, party) ==
    [scope |-> scope, version |-> version, status |-> status, position |-> position,
     helpAt |-> helpAt, help |-> help, party |-> party]

\* A call for help, a later report without one, a retry of older news under a
\* newer version, and a group with a boat that has no position.
SomeSnapshots ==
    {Snapshot("sailor", 1, 1, 1, 1, TRUE, {}), Snapshot("sailor", 2, 2, 2, 0, FALSE, {}),
     Snapshot("sailor", 3, 1, 1, 1, FALSE, {}), Snapshot("group", 2, 1, 0, 1, FALSE, {0, 1, 2})}

\* One client sends two submissions under one identifier, another a third.
SomeSubmissions ==
    {[client |-> "c1", action |-> "remove", target |-> "x"],
     [client |-> "c1", action |-> "add", target |-> "x"],
     [client |-> "c2", action |-> "correct", target |-> "x"]}

SomeInvites ==
    {[voyage |-> "v1", secret |-> "s1"], [voyage |-> "v1", secret |-> "s2"],
     [voyage |-> "v2", secret |-> "s3"]}

TwoEach == [requests |-> 2, window |-> 2, keys |-> 2]
TwoForAll == [requests |-> 2, window |-> 2, keys |-> 1]
=============================================================================
