--------------------------- MODULE RouteRenderer ---------------------------
(***************************************************************************)
(* The cluster/tour renderer of the route-optimisation admin page          *)
(* (src/route_optimisation/static/admin/route_optimisation/routes.js).     *)
(*                                                                         *)
(* The page is loaded with a read-only array `clusters`; each cluster has  *)
(* an ordered set of driver tours and each tour an ordered list of points. *)
(* initMap marks every cluster enabled and runs drawRoutes once; after     *)
(* that the user may flip legend checkboxes (a change listener copies the  *)
(* checkbox into enabledClusters) and click the draw button, which runs    *)
(* clear() and then drawRoutes().  All of it runs on the browser's single  *)
(* UI thread, so every handler is one atomic step.                         *)
(*                                                                         *)
(* Data is abstracted to what the properties tell apart: a tour is its     *)
(* number of points and `failAt`, the position of the first hub/location  *)
(* point at which generateDriverTitle is called with an undefined driver   *)
(* (the `find` at line 213 found no driver with that member_id) and throws *)
(* a TypeError, or 0 when no point throws.  A map primitive (marker or     *)
(* polyline) is identified by the draw pass that created it, its cluster,  *)
(* tour and point (0 for the tour's polyline), and carries the palette     *)
(* index of its colour.                                                    *)
(***************************************************************************)
EXTENDS Naturals, Sequences, FiniteSets

CONSTANTS
    NClusters,    \* clusters.length
    MaxTours,     \* bound on the tours of one cluster
    MaxPoints,    \* bound on the points of one tour
    PaletteSize,  \* colors.length (72 in the source)
    MaxDraws      \* bound on the draw passes (initMap's and the clicks')

ASSUME ConstantsAssumption ==
    /\ NClusters \in Nat \ {0}
    /\ MaxTours \in Nat
    /\ MaxPoints \in Nat
    /\ PaletteSize \in Nat \ {0}
    /\ MaxDraws \in Nat \ {0}

VARIABLES
    clusters,       \* the page-global array, fixed at load
    enabledClusters,\* cluster index -> BOOLEAN
    mapObjects,     \* the primitives the renderer keeps for clear()
    onMap,          \* the primitives attached to the map
    legend,         \* the legend rows: cluster, checkbox state, listener
    toursToShow,    \* drawRoutes' count of the tours of enabled clusters
    pass            \* draw passes run so far; 0 before initMap

vars == <<clusters, enabledClusters, mapObjects, onMap, legend, toursToShow, pass>>

ClusterIdx == 0 .. NClusters - 1

TourData == {t \in [points : 0 .. MaxPoints, failAt : 0 .. MaxPoints] :
                t.failAt <= t.points}

ClusterData == UNION {[1 .. n -> TourData] : n \in 0 .. MaxTours}

Primitive == [pass : Nat, cluster : ClusterIdx, tour : Nat, point : Nat,
              color : Nat]

LegendRow == [cluster : ClusterIdx, checked : BOOLEAN, listener : BOOLEAN]

(***************************************************************************)
(* Tours are identified by <<cluster_index, position>>; drawRoutes visits  *)
(* them cluster by cluster, and within a cluster in key order.             *)
(***************************************************************************)
AllTours == UNION {{<<c, t>> : t \in DOMAIN clusters[c]} : c \in ClusterIdx}

EnabledTours(en) == {ct \in AllTours : en[ct[1]]}

Earlier(a, b) == a[1] < b[1] \/ (a[1] = b[1] /\ a[2] < b[2])

\* The tours whose drawing throws, among those drawRoutes visits.
Throwing(en) == {ct \in EnabledTours(en) : clusters[ct[1]][ct[2]].failAt > 0}

\* drawRoutes reaches tour ct (and starts it) iff no earlier tour threw.
Reached(en, ct) == \A f \in Throwing(en) : ~Earlier(f, ct)

\* A tour completes (its polyline is drawn) iff it is reached and does not throw.
Completed(en, ct) == Reached(en, ct) /\ ct \notin Throwing(en)

\* drawRoutes appends the legend row of cluster c iff no tour of an earlier
\* cluster threw.
RowReached(en, c) == \A f \in Throwing(en) : f[1] >= c

(***************************************************************************)
(* Colour striding, lines 185-195 and 236: color_step is                   *)
(* floor(colors.length / toursToShow) and color_index advances by it after *)
(* each tour, so the k-th tour visited (from 0) gets palette index         *)
(* k * color_step.  The step is only used when a tour is drawn, hence when *)
(* toursToShow > 0.                                                        *)
(***************************************************************************)
\* Mutant: Math.ceil in place of Math.floor.
ColorStepCeil(total) == (PaletteSize + total - 1) \div total

ColorStep(total) == PaletteSize \div total

\* Mutant: color_index reset to 0 at the start of every cluster.
ColorOfPerCluster(en, ct) ==
    Cardinality({d \in EnabledTours(en) : d[1] = ct[1] /\ d[2] < ct[2]})
        * ColorStep(Cardinality(EnabledTours(en)))

ColorOf(en, ct) ==
    Cardinality({d \in EnabledTours(en) : Earlier(d, ct)})
        * ColorStep(Cardinality(EnabledTours(en)))

\* Point p of tour ct is drawn by drawRoutes: a marker for a point visited
\* before the throwing one (lines 214-226), the polyline, point 0, for a
\* tour that completed (lines 227-235).
Visible(en, ct, p) ==
    LET tour == clusters[ct[1]][ct[2]] IN
    IF p = 0 THEN Completed(en, ct)
    ELSE /\ Reached(en, ct)
         /\ p <= tour.points
         /\ tour.failAt = 0 \/ p < tour.failAt

\* The primitives drawRoutes creates in pass g.
Drawn(en, g) ==
    {[pass |-> g, cluster |-> x[1][1], tour |-> x[1][2], point |-> x[2],
      color |-> ColorOf(en, x[1])] :
        x \in {y \in EnabledTours(en) \X (0 .. MaxPoints) : Visible(en, y[1], y[2])}}

\* Mutant: the legend loop runs to cluster_index <= clusters.length; the
\* extra index finds enabledClusters undefined and appends its row.
NewRowsOffByOne(en) ==
    LET n == Cardinality({c \in ClusterIdx : RowReached(en, c)}) + 1
    IN  [i \in 1 .. n |-> [cluster |-> i - 1,
                           checked |-> i - 1 \in ClusterIdx /\ en[i - 1],
                           listener |-> FALSE]]

\* The rows drawRoutes appends, in cluster order, for the enabled state en.
NewRows(en) ==
    LET n == Cardinality({c \in ClusterIdx : RowReached(en, c)})
    IN  [i \in 1 .. n |-> [cluster |-> i - 1, checked |-> en[i - 1],
                           listener |-> FALSE]]

\* getCheckboxListener(c) wires the first element with id cluster_index<c>.
FirstRow(rows, c) == CHOOSE i \in DOMAIN rows :
                        /\ rows[i].cluster = c
                        /\ \A j \in 1 .. i - 1 : rows[j].cluster # c

\* legend.appendChild of the new rows, each followed by getCheckboxListener.
AppendRows(rows, en) ==
    LET all == rows \o NewRows(en)
        wired == {FirstRow(all, r.cluster) : r \in {NewRows(en)[i] : i \in DOMAIN NewRows(en)}}
    IN  [i \in DOMAIN all |-> [cluster |-> all[i].cluster,
                                checked |-> all[i].checked,
                                listener |-> all[i].listener \/ i \in wired]]

\* clear(), lines 172-182: detach every kept primitive, forget them, and
\* remove every legend row.
\* Mutant: mapObjects is emptied without setMap(null) on its members.
ClearedMapNoDetach == onMap

ClearedMap == onMap \ mapObjects

\* Mutant: the loop removing the legend's children is left out.
ClearedLegendKept == legend

ClearedLegend == <<>>

\* drawRoutes(), lines 184-239, run on the given map and legend.
DrawRoutes(objs, shown, rows) ==
    LET new == Drawn(enabledClusters, pass + 1) IN
    /\ mapObjects' = objs \cup new
    /\ onMap' = shown \cup new
    /\ legend' = AppendRows(rows, enabledClusters)
    /\ toursToShow' = Cardinality(EnabledTours(enabledClusters))
    /\ pass' = pass + 1

Init ==
    /\ clusters \in [ClusterIdx -> ClusterData]
    /\ enabledClusters = [c \in ClusterIdx |-> FALSE]
    /\ mapObjects = {}
    /\ onMap = {}
    /\ legend = <<>>
    /\ toursToShow = 0
    /\ pass = 0

\* initMap(), lines 137-243: enable every cluster, then drawRoutes() once
\* (mapObjects is still empty; there is no clear()).
InitMap ==
    /\ pass = 0
    /\ enabledClusters' = [c \in ClusterIdx |-> TRUE]
    /\ LET new == Drawn(enabledClusters', 1) IN
       /\ mapObjects' = new
       /\ onMap' = new
       /\ legend' = AppendRows(<<>>, enabledClusters')
       /\ toursToShow' = Cardinality(EnabledTours(enabledClusters'))
       /\ pass' = 1
    /\ UNCHANGED clusters

\* The drawButton click listener, lines 165-168: clear(); drawRoutes().
ClickDraw ==
    /\ pass \in 1 .. MaxDraws - 1
    /\ DrawRoutes({}, ClearedMap, ClearedLegend)
    /\ UNCHANGED <<clusters, enabledClusters>>

\* The user flips the checkbox of legend row i; the change listener of
\* lines 158-163, if one is wired to it, copies the new state into
\* enabledClusters.  Nothing is redrawn.
ToggleCheckbox(i) ==
    /\ pass >= 1
    /\ legend' = [legend EXCEPT ![i].checked = ~@]
    /\ enabledClusters' =
           IF legend[i].listener
           THEN [enabledClusters EXCEPT ![legend[i].cluster] = legend'[i].checked]
           ELSE enabledClusters
    /\ UNCHANGED <<clusters, mapObjects, onMap, toursToShow, pass>>

Next ==
    \/ InitMap
    \/ ClickDraw
    \/ \E i \in DOMAIN legend : ToggleCheckbox(i)

Spec == Init /\ [][Next]_vars

-----------------------------------------------------------------------------
TypeOK ==
    /\ clusters \in [ClusterIdx -> ClusterData]
    /\ enabledClusters \in [ClusterIdx -> BOOLEAN]
    /\ mapObjects \subseteq Primitive
    /\ onMap \subseteq Primitive
    /\ legend \in Seq(LegendRow)
    /\ toursToShow \in Nat
    /\ pass \in 0 .. MaxDraws

(***************************************************************************)
(* Clear-before-draw (spec 8.4): every primitive on the map is kept in     *)
(* mapObjects, so the next clear() detaches it, and was created by the     *)
(* latest draw pass: no marker or polyline of an earlier pass survives a   *)
(* redraw, whatever the user toggled in between and even when a pass threw *)
(* half-way.                                                               *)
(***************************************************************************)
NoStalePrimitives ==
    /\ onMap \subseteq mapObjects
    /\ \A o \in onMap : o.pass = pass

(***************************************************************************)
(* Cluster toggle (spec 8.3): every legend row is the only row of its      *)
(* cluster, has the change listener wired, and its checkbox shows the      *)
(* cluster's enabledClusters entry; so what the user sees checked is       *)
(* exactly what the next click on draw will render.                        *)
(***************************************************************************)
LegendWired ==
    \A i \in DOMAIN legend :
        /\ legend[i].listener
        /\ legend[i].checked = enabledClusters[legend[i].cluster]
        /\ \A j \in DOMAIN legend : legend[j].cluster = legend[i].cluster => j = i

(***************************************************************************)
(* Colour striding (lines 195, 199, 236): every tour drawn gets a defined  *)
(* entry of the palette, colors[color_index] with color_index below        *)
(* colors.length, whatever the number of tours to show.                    *)
(***************************************************************************)
ColorsWithinPalette ==
    \A o \in onMap : o.color < PaletteSize

(***************************************************************************)
(* Colour striding (spec 8.5): when no more tours are shown than the       *)
(* palette has colours, two different tours drawn in the same pass never   *)
(* share a colour.                                                         *)
(***************************************************************************)
DistinctTourColors ==
    toursToShow <= PaletteSize =>
        \A o1, o2 \in onMap :
            <<o1.cluster, o1.tour>> # <<o2.cluster, o2.tour>> => o1.color # o2.color

(***************************************************************************)
(* Spec 4.3 step 2: drawRoutes renders a legend row for every cluster,     *)
(* enabled or not, so every cluster can be toggled after a draw.           *)
(***************************************************************************)
LegendComplete ==
    pass >= 1 => Len(legend) = NClusters
=============================================================================
