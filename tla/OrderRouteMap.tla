---------------------------- MODULE OrderRouteMap ----------------------------
(***************************************************************************)
(* The order's route map, src/tasks/static/order/routes.js.  initMap      *)
(* creates a world map; if the page gave a realPath (an array, even an     *)
(* empty one, is truthy) it converts both paths, creates a second map in   *)
(* the same div centred on the first point, and puts a start and an end   *)
(* marker and the real and the filtered polyline on it; then it fills the  *)
(* legend and pushes it onto the controls of the current map.  A null      *)
(* filteredPath beside a realPath throws at line 16: nothing more is       *)
(* drawn.  A point is a model value; a missing one (realPath[0] or         *)
(* realPath[length-1] of an empty path) is "undefined".                    *)
(***************************************************************************)
EXTENDS Naturals, Sequences

CONSTANTS
    Points,     \* the coordinates a path may pass through
    Null,       \* a path the page did not give
    MaxPoints   \* bound on the length of a path

Path == UNION {[1 .. n -> Points] : n \in 0 .. MaxPoints}

VARIABLES
    realPath, filteredPath,  \* the page's paths (read-only data)
    status,    \* "loading", then "thrown" or "drawn"
    mapShown,  \* the map the div shows: the last one created in it
    markers,   \* the markers on the route map: title -> position
    routes,    \* the polylines on the route map: name -> path
    legendOn   \* the map whose controls hold the legend, or "none"

vars == <<realPath, filteredPath, status, mapShown, markers, routes, legendOn>>

\* p[i - 1] in JavaScript: undefined outside the array.
PositionAt(p, i) == IF i \in 1 .. Len(p) THEN p[i] ELSE "undefined"

\* line 18: realPath[realPath.length-1].
EndPoint == PositionAt(realPath, Len(realPath))

\* line 17: realPath[0].
StartingPoint == PositionAt(realPath, 1)

Init ==
    /\ realPath \in Path \cup {Null}
    /\ filteredPath \in Path \cup {Null}
    /\ status = "loading"
    /\ mapShown = "none"
    /\ markers = << >>
    /\ routes = << >>
    /\ legendOn = "none"

\* initMap, lines 6-83.
InitMap ==
    /\ status = "loading"
    /\ \/ /\ realPath = Null
          /\ status' = "drawn"
          /\ mapShown' = "world"
          /\ legendOn' = "world"
          /\ UNCHANGED <<markers, routes>>
       \/ /\ realPath # Null /\ filteredPath = Null
          /\ status' = "thrown"
          /\ mapShown' = "world"
          /\ UNCHANGED <<markers, routes, legendOn>>
       \/ /\ realPath # Null /\ filteredPath # Null
          /\ status' = "drawn"
          /\ mapShown' = "route"
          /\ markers' = [t \in {"start", "end"} |->
                            IF t = "start" THEN StartingPoint ELSE EndPoint]
          /\ routes' = [r \in {"real", "filtered"} |->
                           IF r = "real" THEN realPath ELSE filteredPath]
          /\ legendOn' = "route"
    /\ UNCHANGED <<realPath, filteredPath>>

Next == InitMap

Spec == Init /\ [][Next]_vars

=============================================================================
