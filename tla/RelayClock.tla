----------------------------- MODULE RelayClock -----------------------------
(* The relay's clock, shared by the services that run beside the event sync. *)
EXTENDS Naturals

VARIABLE now

\* Time passes, up to a bound.
TickTo(limit) == now < limit /\ now' = now + 1
=============================================================================
