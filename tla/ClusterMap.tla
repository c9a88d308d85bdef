------------------------------ MODULE ClusterMap ------------------------------
(***************************************************************************)
(* The cluster map of route optimisation,                                  *)
(* src/route_optimisation/static/admin/route_optimisation/clustering.js.   *)
(* initMap runs once when the Maps script has loaded: it draws, for every  *)
(* cluster of the page's `clusters`, a job marker per job, a start and an  *)
(* end marker per driver who has a hub or a location for them, all in the  *)
(* cluster's colour colors[color_step * cluster_index], and a legend row   *)
(* per cluster.  Nothing changes after it.                                 *)
(*                                                                         *)
(* A cluster is abstracted to its number of jobs and, per driver, where    *)
(* the shift starts and ends (a hub, an ad-hoc location, or neither); a    *)
(* colour is its index in `colors`.  Reading jobs[0] of an empty first     *)
(* cluster throws (line 139) before anything is drawn.                     *)
(***************************************************************************)
EXTENDS Naturals, Sequences

CONSTANTS
    PaletteSize,  \* colors.length (72 in the source)
    MaxClusters,  \* bound on the number of clusters on the page
    MaxJobs,      \* bound on the jobs of a cluster
    MaxDrivers    \* bound on the drivers of a cluster

ASSUME ClusterMapAssumption ==
    /\ PaletteSize \in Nat \ {0}
    /\ MaxClusters \in Nat /\ MaxJobs \in Nat /\ MaxDrivers \in Nat

\* Where a driver's shift starts or ends: start_hub, start_location, none.
Places == {"hub", "location", "none"}

Driver == [start : Places, end : Places]

\* params.drivers of a cluster: at most MaxDrivers of them.
DriverList == UNION {[1 .. n -> Driver] : n \in 0 .. MaxDrivers}

Cluster == [jobs : 0 .. MaxJobs, drivers : DriverList]

\* A marker: the cluster it belongs to (0-based cluster_index), what it
\* marks (a job, a driver's start 'S' or end 'E'), its index in the jobs or
\* drivers, and its colour.
Marker == [cluster : Nat, kind : {"job", "start", "end"}, index : Nat, colour : Nat]

LegendRow == [cluster : Nat, colour : Nat, jobs : Nat, drivers : Nat]

VARIABLES
    clusters,  \* the page's clusters (read-only data)
    status,    \* "loading", then "alerted", "thrown" or "drawn"
    markers,   \* the markers on the map
    legend     \* the rows of the legend, in order

vars == <<clusters, status, markers, legend>>

\* Mutant: Math.ceil instead of Math.floor at line 146.
ColorStepCeil == (PaletteSize + Len(clusters) - 1) \div Len(clusters)

\* Mutant: the stride leaves room for one cluster too many.
ColorStepOffByOne == PaletteSize \div (Len(clusters) + 1)

\* line 146: the stride through the palette.
ColorStep == PaletteSize \div Len(clusters)

\* line 149: colors[color_step * cluster_index]; the for-in index is a
\* string, which `*` converts to its number.
ColorOf(c) == ColorStep * c

\* lines 150-155: a job marker per job.
JobMarkers(c) ==
    {[cluster |-> c, kind |-> "job", index |-> j, colour |-> ColorOf(c)] :
        j \in 0 .. clusters[c + 1].jobs - 1}

\* lines 156-172: a start marker if the driver has a start hub or else a
\* start location, an end marker likewise.
DriverMarkers(c) ==
    LET ds == clusters[c + 1].drivers IN
    UNION {{[cluster |-> c, kind |-> k, index |-> d - 1, colour |-> ColorOf(c)] :
                k \in {k \in {"start", "end"} : ds[d][k] # "none"}} :
            d \in DOMAIN ds}

\* Mutant: the row counts the jobs as jobs.length - 1.
RowJobsOffByOne(c) == [cluster |-> c, colour |-> ColorOf(c), jobs |-> clusters[c + 1].jobs - 1,
                       drivers |-> Len(clusters[c + 1].drivers)]

\* lines 173-175: the legend row of cluster c.
Row(c) == [cluster |-> c, colour |-> ColorOf(c), jobs |-> clusters[c + 1].jobs,
           drivers |-> Len(clusters[c + 1].drivers)]

Init ==
    /\ clusters \in UNION {[1 .. n -> Cluster] : n \in 0 .. MaxClusters}
    /\ status = "loading"
    /\ markers = {}
    /\ legend = <<>>

\* initMap, lines 133-179.
InitMap ==
    /\ status = "loading"
    /\ \/ /\ clusters = <<>>
          /\ status' = "alerted"
          /\ UNCHANGED <<markers, legend>>
       \/ /\ clusters # <<>> /\ clusters[1].jobs = 0
          /\ status' = "thrown"
          /\ UNCHANGED <<markers, legend>>
       \/ /\ clusters # <<>> /\ clusters[1].jobs # 0
          /\ status' = "drawn"
          /\ markers' = UNION {JobMarkers(c) \cup DriverMarkers(c) :
                                  c \in 0 .. Len(clusters) - 1}
          /\ legend' = [i \in 1 .. Len(clusters) |-> Row(i - 1)]
    /\ UNCHANGED clusters

Next == InitMap

Spec == Init /\ [][Next]_vars

-----------------------------------------------------------------------------
TypeOK ==
    /\ clusters \in Seq(Cluster)
    /\ status \in {"loading", "alerted", "thrown", "drawn"}
    /\ markers \subseteq Marker
    /\ legend \in Seq(LegendRow)

(***************************************************************************)
(* Every colour drawn is an entry of the palette (colors[i] with i below   *)
(* colors.length), for any number of clusters: floor(P / n) * (n - 1) < P. *)
(***************************************************************************)
ColorsWithinPalette ==
    /\ \A m \in markers : m.colour < PaletteSize
    /\ \A i \in DOMAIN legend : legend[i].colour < PaletteSize

(***************************************************************************)
(* While there are no more clusters than colours, a marker's colour is the *)
(* colour of its own cluster's legend row and of no other row: the legend  *)
(* tells every cluster's markers apart.                                    *)
(***************************************************************************)
ColorsIdentifyClusters ==
    Len(clusters) <= PaletteSize =>
        \A m \in markers, i \in DOMAIN legend :
            legend[i].colour = m.colour <=> legend[i].cluster = m.cluster
=============================================================================
