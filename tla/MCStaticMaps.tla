---------------------------- MODULE MCStaticMaps ----------------------------
(***************************************************************************)
(* The pages that draw once and keep no state afterwards, checked in one   *)
(* model: the cluster map (ClusterMap), the order's route map              *)
(* (OrderRouteMap) and its geofence map (GeofenceMap).  The pages share    *)
(* nothing: a behaviour loads one of them, chosen by `page`, and the       *)
(* others keep their loading state with no data.                           *)
(***************************************************************************)
EXTENDS ClusterMap

CONSTANTS Points, Null, MaxPoints, Values, MaxEvents

VARIABLES
    page,
    realPath, filteredPath, routeStatus, mapShown, routeMarkers, routes, legendOn,
    events, geoStatus, geoMarkers, geoLegend

Route == INSTANCE OrderRouteMap
             WITH status <- routeStatus, markers <- routeMarkers

Geo == INSTANCE GeofenceMap
           WITH status <- geoStatus, markers <- geoMarkers, legend <- geoLegend

routeVars == <<realPath, filteredPath, routeStatus, mapShown, routeMarkers, routes, legendOn>>

geoVars == <<events, geoStatus, geoMarkers, geoLegend>>

mcVars == <<page, vars, routeVars, geoVars>>

MCInit ==
    /\ page \in {"cluster", "route", "geofence"}
    /\ Init /\ (page # "cluster" => clusters = << >>)
    /\ Route!Init /\ (page # "route" => realPath = Null /\ filteredPath = Null)
    /\ Geo!Init /\ (page # "geofence" => events = << >>)

MCNext ==
    \/ page = "cluster" /\ Next /\ UNCHANGED <<page, routeVars, geoVars>>
    \/ page = "route" /\ Route!Next /\ UNCHANGED <<page, vars, geoVars>>
    \/ page = "geofence" /\ Geo!Next /\ UNCHANGED <<page, vars, routeVars>>

MCSpec == MCInit /\ [][MCNext]_mcVars

\* KnownEventsDrawn of the geofence map (see GeofenceMap).
KnownEventsDrawn == Geo!KnownEventsDrawn
=============================================================================
