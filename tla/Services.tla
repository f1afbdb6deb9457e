------------------------------ MODULE Services ------------------------------
(***************************************************************************)
(* The relay's services beside the event sync.  They share the clock and   *)
(* the process and nothing else, so one of them moves in a behaviour (the  *)
(* desk that is open) and the others rest: what one run explores is the    *)
(* sum of their state spaces and not the product.                          *)
(***************************************************************************)
EXTENDS PushDispatch, ObserverGrants, Discovery, RoadRatings, JoinCodes, CodeLookups,
        TrafficProxy

VARIABLE desk

servicesVars == <<now, desk, pushVars, grantVars, discoveryVars, ratingVars, codeVars,
                  lookupVars, trafficVars>>

Desks == {"push", "observers", "discovery", "ratings", "codes", "lookups", "traffic"}

ServicesInit ==
    /\ now = 0
    /\ desk \in Desks
    /\ PushInit /\ GrantInit /\ DiscoveryInit /\ RatingInit
    /\ CodeInit /\ LookupInit /\ TrafficInit
    /\ desk = "push" \/ ready

ServicesNext ==
    \/ /\ desk = "push" /\ PushNext
       /\ UNCHANGED <<desk, grantVars, discoveryVars, ratingVars, codeVars, lookupVars,
                      trafficVars>>
    \/ /\ desk = "observers" /\ GrantNext
       /\ UNCHANGED <<desk, pushVars, discoveryVars, ratingVars, codeVars, lookupVars, trafficVars>>
    \/ /\ desk = "discovery" /\ DiscoveryNext
       /\ UNCHANGED <<desk, pushVars, grantVars, ratingVars, codeVars, lookupVars, trafficVars>>
    \/ /\ desk = "ratings" /\ RatingNext
       /\ UNCHANGED <<now, desk, pushVars, grantVars, discoveryVars, codeVars, lookupVars, trafficVars>>
    \/ /\ desk = "codes" /\ CodeNext
       /\ UNCHANGED <<desk, pushVars, grantVars, discoveryVars, ratingVars, lookupVars, trafficVars>>
    \/ /\ desk = "lookups" /\ LookupNext
       /\ UNCHANGED <<desk, pushVars, grantVars, discoveryVars, ratingVars, codeVars, trafficVars>>
    \/ /\ desk = "traffic" /\ TrafficNext
       /\ UNCHANGED <<desk, pushVars, grantVars, discoveryVars, ratingVars, codeVars, lookupVars>>

ServicesSpec == ServicesInit /\ [][ServicesNext]_servicesVars
                /\ PushFairness /\ TrafficFairness

ServicesTypeOK ==
    /\ PushTypeOK /\ GrantTypeOK /\ DiscoveryTypeOK /\ RatingTypeOK
    /\ CodeTypeOK /\ LookupTypeOK /\ TrafficTypeOK
=============================================================================
