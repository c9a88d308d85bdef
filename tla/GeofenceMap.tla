----------------------------- MODULE GeofenceMap -----------------------------
(***************************************************************************)
(* The order's geofence map, src/tasks/static/order/geofences.js.  initMap *)
(* draws the delivery address and the geofence circle, then a marker per   *)
(* geofence event with the icon images[eventsNameMap[field][new_value]],   *)
(* then a legend row per entry of images.  An event whose field is not a   *)
(* key of eventsNameMap throws at line 65, one whose new_value is not a    *)
(* key of its field's map throws at line 69: forEach stops, and neither    *)
(* the later events nor the legend are drawn.                              *)
(***************************************************************************)
EXTENDS Naturals, Sequences

CONSTANTS
    Values,      \* the new_value strings the events may carry
    MaxEvents    \* bound on the events of the order

\* The event fields eventsNameMap knows, lines 24-32.
Fields == {"geofence_entered", "geofence_entered_on_backend"}

\* images, lines 1-22: the icons, keyed by event name.
Images == {"geofence_entered", "geofence_exited", "geofence_dwell_on_backend",
           "geofence_entered_on_backend", "geofence_exited_on_backend"}

\* Mutant: a name of eventsNameMap misspelt, not a key of images.
EventsNameMapTypo ==
    [geofence_entered |-> [True |-> "geofence_entered",
                           False |-> "geofence_exited"],
     geofence_entered_on_backend |-> [entered |-> "geofence_entered_on_backend",
                                      exited |-> "geofence_exited_on_backend",
                                      dwell |-> "geofence_dwell"]]

\* eventsNameMap, lines 24-32: the object literal, keyed by field, then by
\* new_value.
EventsNameMap ==
    [geofence_entered |-> [True |-> "geofence_entered",
                           False |-> "geofence_exited"],
     geofence_entered_on_backend |-> [entered |-> "geofence_entered_on_backend",
                                      exited |-> "geofence_exited_on_backend",
                                      dwell |-> "geofence_dwell_on_backend"]]

\* An event: its field and new_value (a field other than those of
\* eventsNameMap stands for every unknown one).
Event == [field : Fields \cup {"other"}, new_value : Values]

\* The icon an event is drawn with, or "throws" where the lookups of lines
\* 65 and 69 hit undefined.
IconOf(e) ==
    IF e.field \in DOMAIN EventsNameMap
       /\ e.new_value \in DOMAIN EventsNameMap[e.field]
       /\ EventsNameMap[e.field][e.new_value] \in Images
    THEN EventsNameMap[e.field][e.new_value]
    ELSE "throws"

VARIABLES
    events,    \* the order's geofence events (read-only data)
    status,    \* "loading", then "thrown" or "drawn"
    markers,   \* the event markers drawn: index of the event -> icon
    legend     \* the names the legend lists

vars == <<events, status, markers, legend>>

Init ==
    /\ events \in UNION {[1 .. n -> Event] : n \in 0 .. MaxEvents}
    /\ status = "loading"
    /\ markers = <<>>
    /\ legend = {}

\* initMap, lines 39-85: the events before the first that throws get their
\* markers; the legend is drawn only if none throws.
InitMap ==
    LET throwing == {i \in DOMAIN events : IconOf(events[i]) = "throws"}
        drawnUpTo == IF throwing = {} THEN Len(events)
                     ELSE (CHOOSE i \in throwing : \A j \in throwing : i <= j) - 1
    IN  /\ status = "loading"
        /\ markers' = [i \in 1 .. drawnUpTo |-> IconOf(events[i])]
        /\ status' = IF throwing = {} THEN "drawn" ELSE "thrown"
        /\ legend' = IF throwing = {} THEN Images ELSE {}
        /\ UNCHANGED events

Next == InitMap

Spec == Init /\ [][Next]_vars

-----------------------------------------------------------------------------
(***************************************************************************)
(* When every event carries a field and a value that eventsNameMap knows,  *)
(* the page completes: every event has its marker, with an icon the legend *)
(* explains.  This holds only because every name eventsNameMap gives is a  *)
(* key of images: the two tables must agree.                               *)
(***************************************************************************)
KnownEventsDrawn ==
    /\ status # "loading"
    /\ \A i \in DOMAIN events :
           /\ events[i].field \in DOMAIN EventsNameMap
           /\ events[i].new_value \in DOMAIN EventsNameMap[events[i].field]
    => /\ DOMAIN markers = DOMAIN events
       /\ \A i \in DOMAIN markers : markers[i] \in legend
=============================================================================
