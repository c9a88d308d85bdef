-------------------------- MODULE StaticMapsProofs --------------------------
(***************************************************************************)
(* Proofs about the pages that draw once (MCStaticMaps): whatever page is  *)
(* loaded and whatever geofence events the order has, every known geofence *)
(* event gets a marker whose icon the legend explains.                     *)
(***************************************************************************)
EXTENDS MCStaticMaps, SequenceTheorems, TLAPS

(***************************************************************************)
(* The two tables of geofences.js agree: every name eventsNameMap gives    *)
(* (lines 24-32) is a key of images (lines 1-22).                          *)
(***************************************************************************)
LEMMA TablesAgree ==
    \A f \in DOMAIN Geo!EventsNameMap :
        \A v \in DOMAIN Geo!EventsNameMap[f] : Geo!EventsNameMap[f][v] \in Geo!Images
  BY DEF Geo!EventsNameMap, Geo!Images

\* The geofence map's state, strengthened for induction: the events are a
\* sequence, so that the markers' domain can be compared with theirs.
GeoInv ==
    /\ events \in Seq(Geo!Event)
    /\ KnownEventsDrawn

LEMMA InitGeoInv == MCInit => GeoInv
  <1> SUFFICES ASSUME MCInit PROVE GeoInv
    OBVIOUS
  <1>1. PICK n \in 0 .. MaxEvents : events \in [1 .. n -> Geo!Event]
    BY DEF MCInit, Geo!Init
  <1>2. events \in Seq(Geo!Event)
    BY <1>1
  <1>3. QED
    BY <1>2 DEF MCInit, Geo!Init, GeoInv, KnownEventsDrawn, Geo!KnownEventsDrawn

LEMMA NextGeoInv == GeoInv /\ [MCNext]_mcVars => GeoInv'
  <1> SUFFICES ASSUME GeoInv, [MCNext]_mcVars PROVE GeoInv'
    OBVIOUS
  <1>1. CASE UNCHANGED geoVars
    BY <1>1 DEF geoVars, GeoInv, KnownEventsDrawn, Geo!KnownEventsDrawn
  <1>2. CASE Geo!InitMap
    <2> DEFINE known == \A i \in DOMAIN events :
                   /\ events[i].field \in DOMAIN Geo!EventsNameMap
                   /\ events[i].new_value \in DOMAIN Geo!EventsNameMap[events[i].field]
    <2>1. events' = events /\ events \in Seq(Geo!Event)
      BY <1>2 DEF Geo!InitMap, GeoInv
    <2>2. CASE ~known
      BY <2>1, <2>2 DEF GeoInv, KnownEventsDrawn, Geo!KnownEventsDrawn
    <2>3. CASE known
      <3>1. \A i \in DOMAIN events :
              Geo!IconOf(events[i]) = Geo!EventsNameMap[events[i].field][events[i].new_value]
              /\ Geo!IconOf(events[i]) \in Geo!Images
        BY <2>3, TablesAgree DEF Geo!IconOf
      <3>2. {i \in DOMAIN events : Geo!IconOf(events[i]) = "throws"} = {}
        BY <3>1 DEF Geo!Images
      <3>3. /\ geoMarkers' = [i \in 1 .. Len(events) |-> Geo!IconOf(events[i])]
            /\ geoLegend' = Geo!Images
        BY <1>2, <3>2 DEF Geo!InitMap
      <3>4. DOMAIN events = 1 .. Len(events)
        BY <2>1, LenProperties
      <3>5. QED
        BY <2>1, <3>1, <3>3, <3>4 DEF GeoInv, KnownEventsDrawn, Geo!KnownEventsDrawn
    <2>4. QED
      BY <2>2, <2>3
  <1>3. QED
    BY <1>1, <1>2 DEF MCNext, Geo!Next, mcVars

(***************************************************************************)
(* The geofence map of geofences.js, for every set of event values and     *)
(* every number of events: once initMap has run on events whose fields and *)
(* values eventsNameMap knows, every event has its marker and every        *)
(* marker's icon is one the legend lists; no lookup at lines 65-69 throws.  *)
(***************************************************************************)
THEOREM KnownEventsAlwaysDrawn == MCSpec => []KnownEventsDrawn
  <1>1. GeoInv => KnownEventsDrawn
    BY DEF GeoInv
  <1>2. QED
    BY <1>1, InitGeoInv, NextGeoInv, PTL DEF MCSpec
=============================================================================
