--------------------------- MODULE ClusterMapProofs ---------------------------
(***************************************************************************)
(* Proofs about ClusterMap for every palette size and every page: the type *)
(* invariant, and that the colour stride of clustering.js line 146 keeps   *)
(* every colour in the palette and, while there are no more clusters than  *)
(* colours, gives every cluster a colour of its own.                       *)
(***************************************************************************)
EXTENDS ClusterMap, SequenceTheorems, TLAPS

USE ClusterMapAssumption

(***************************************************************************)
(* What initMap leaves behind, strengthened for induction: every marker    *)
(* belongs to a cluster of the page and has that cluster's colour, and the *)
(* i-th legend row is cluster i - 1's, in its colour.                      *)
(***************************************************************************)
IInv == /\ TypeOK
        /\ \A m \in markers : /\ m.cluster \in 0 .. Len(clusters) - 1
                              /\ m.colour = ColorOf(m.cluster)
        /\ \A i \in DOMAIN legend : /\ i \in 1 .. Len(clusters)
                                    /\ legend[i].cluster = i - 1
                                    /\ legend[i].colour = ColorOf(i - 1)

(***************************************************************************)
(* The c-th stride of floor(P / n), for c < n, is an index of the palette. *)
(***************************************************************************)
LEMMA StrideInPalette ==
    ASSUME NEW P \in Nat \ {0}, NEW n \in Nat \ {0}, NEW c \in 0 .. n - 1
    PROVE  c * (P \div n) \in 0 .. P - 1
  <1> DEFINE q == P \div n
  <1>1. q \in Nat /\ n * q <= P
    BY SMT
  <1>2. CASE q = 0
    BY <1>2
  <1>3. CASE q # 0
    <2>1. c * q <= (n - 1) * q
      BY <1>1, <1>3, SMT
    <2>2. (n - 1) * q = n * q - q
      BY <1>1, SMT
    <2>3. QED
      BY <1>1, <1>3, <2>1, <2>2, SMT
  <1>4. QED
    BY <1>2, <1>3

(***************************************************************************)
(* With no more clusters than colours the stride is at least 1, so         *)
(* distinct clusters get distinct strides.                                 *)
(***************************************************************************)
LEMMA StrideInjective ==
    ASSUME NEW P \in Nat \ {0}, NEW n \in 1 .. P,
           NEW c1 \in Nat, NEW c2 \in Nat,
           c1 * (P \div n) = c2 * (P \div n)
    PROVE  c1 = c2
  <1>1. P \div n \in Nat \ {0}
    BY SMT
  <1>2. QED
    BY <1>1, SMT

(***************************************************************************)
(* The colour of a cluster of the page is an index of the palette.         *)
(***************************************************************************)
LEMMA ColorOfType ==
    ASSUME clusters \in Seq(Cluster), NEW c \in 0 .. Len(clusters) - 1
    PROVE  ColorOf(c) \in 0 .. PaletteSize - 1
  <1>1. Len(clusters) \in Nat \ {0}
    BY LenProperties
  <1>2. c * (PaletteSize \div Len(clusters)) \in 0 .. PaletteSize - 1
    BY <1>1, StrideInPalette
  <1>3. QED
    BY <1>2 DEF ColorOf, ColorStep

LEMMA InitIInv == Init => IInv
  <1> SUFFICES ASSUME Init PROVE IInv
    OBVIOUS
  <1>1. clusters \in Seq(Cluster)
    BY SeqDef DEF Init
  <1>2. QED
    BY <1>1 DEF Init, IInv, TypeOK

LEMMA NextIInv == IInv /\ [Next]_vars => IInv'
  <1> SUFFICES ASSUME IInv, [Next]_vars PROVE IInv'
    OBVIOUS
  <1> DEFINE n == Len(clusters)
  <1>1. clusters \in Seq(Cluster) /\ n \in Nat
    BY LenProperties DEF IInv, TypeOK
  <1>2. CASE UNCHANGED vars
    BY <1>2 DEF IInv, TypeOK, ColorOf, ColorStep, vars
  <1>3. CASE Next /\ (clusters = << >> \/ (clusters # << >> /\ clusters[1].jobs = 0))
    <2>1. UNCHANGED <<clusters, markers, legend>>
      BY <1>3 DEF Next, InitMap
    <2>2. status' \in {"alerted", "thrown"}
      BY <1>3 DEF Next, InitMap
    <2>3. QED
      BY <2>1, <2>2 DEF IInv, TypeOK, ColorOf, ColorStep
  <1>4. CASE Next /\ clusters # << >> /\ clusters[1].jobs # 0
    <2>1. /\ status' = "drawn"
          /\ markers' = UNION {JobMarkers(c) \cup DriverMarkers(c) : c \in 0 .. n - 1}
          /\ legend' = [i \in 1 .. n |-> Row(i - 1)]
          /\ clusters' = clusters
      BY <1>4 DEF Next, InitMap
    <2>2. ASSUME NEW c \in 0 .. n - 1
          PROVE  /\ clusters[c + 1] \in Cluster
                 /\ ColorOf(c) \in Nat
      BY <1>1, ColorOfType, ElementOfSeq
    <2>3. ASSUME NEW c \in 0 .. n - 1, NEW m \in JobMarkers(c) \cup DriverMarkers(c)
          PROVE  /\ m \in Marker
                 /\ m.cluster \in 0 .. n - 1
                 /\ m.colour = ColorOf(m.cluster)
      <3>1. clusters[c + 1] \in Cluster /\ ColorOf(c) \in Nat
        BY <2>2
      <3>2. CASE m \in JobMarkers(c)
        BY <3>1, <3>2 DEF JobMarkers, Cluster, Marker
      <3>3. CASE m \in DriverMarkers(c)
        <4>1. clusters[c + 1].drivers \in Seq(Driver)
          BY <3>1, SeqDef DEF Cluster, DriverList
        <4>2. DOMAIN clusters[c + 1].drivers = 1 .. Len(clusters[c + 1].drivers)
          BY <4>1, LenProperties
        <4>3. PICK d \in DOMAIN clusters[c + 1].drivers,
                   k \in {"start", "end"} :
                     m = [cluster |-> c, kind |-> k, index |-> d - 1, colour |-> ColorOf(c)]
          BY <3>3 DEF DriverMarkers
        <4>4. d - 1 \in Nat
          BY <4>1, <4>2, LenProperties
        <4>5. QED
          BY <3>1, <4>3, <4>4 DEF Marker
      <3>4. QED
        BY <3>2, <3>3
    <2>4. ASSUME NEW c \in 0 .. n - 1
          PROVE  Row(c) \in LegendRow
      <3>1. clusters[c + 1] \in Cluster /\ ColorOf(c) \in Nat
        BY <2>2
      <3>2. Len(clusters[c + 1].drivers) \in Nat
        <4>1. clusters[c + 1].drivers \in Seq(Driver)
          BY <3>1, SeqDef DEF Cluster, DriverList
        <4>2. QED
          BY <4>1, LenProperties
      <3>3. QED
        BY <3>1, <3>2 DEF Row, LegendRow, Cluster
    <2>5. TypeOK'
      <3>1. markers' \subseteq Marker
        BY <2>1, <2>3
      <3>2. legend' \in Seq(LegendRow)
        <4>1. \A i \in 1 .. n : Row(i - 1) \in LegendRow
          BY <2>4
        <4>2. QED
          BY <1>1, <2>1, <4>1
      <3>3. QED
        BY <1>1, <2>1, <3>1, <3>2 DEF TypeOK
    <2>6. \A m \in markers' : /\ m.cluster \in 0 .. Len(clusters') - 1
                              /\ m.colour = ColorOf(m.cluster)'
      BY <2>1, <2>3 DEF ColorOf, ColorStep
    <2>7. \A i \in DOMAIN legend' : /\ i \in 1 .. Len(clusters')
                                    /\ legend'[i].cluster = i - 1
                                    /\ legend'[i].colour = ColorOf(i - 1)'
      BY <1>1, <2>1 DEF Row, ColorOf, ColorStep
    <2>8. QED
      BY <2>5, <2>6, <2>7 DEF IInv
  <1>5. Next \/ UNCHANGED vars
    OBVIOUS
  <1>6. QED
    BY <1>2, <1>3, <1>4, <1>5
-----------------------------------------------------------------------------
(***************************************************************************)
(* IInv gives both colour properties: a colour is floor(P / n) * c for a   *)
(* cluster index c < n, and the legend row of index i is cluster i - 1's.  *)
(***************************************************************************)
LEMMA IInvColors == IInv => ColorsWithinPalette /\ ColorsIdentifyClusters
  <1> SUFFICES ASSUME IInv PROVE ColorsWithinPalette /\ ColorsIdentifyClusters
    OBVIOUS
  <1>1. clusters \in Seq(Cluster) /\ Len(clusters) \in Nat
    BY LenProperties DEF IInv, TypeOK
  <1>2. ColorsWithinPalette
    <2>1. ASSUME NEW m \in markers PROVE m.colour < PaletteSize
      BY <1>1, ColorOfType DEF IInv
    <2>2. ASSUME NEW i \in DOMAIN legend PROVE legend[i].colour < PaletteSize
      BY <1>1, ColorOfType DEF IInv
    <2>3. QED
      BY <2>1, <2>2 DEF ColorsWithinPalette
  <1>3. ColorsIdentifyClusters
    <2> SUFFICES ASSUME Len(clusters) <= PaletteSize,
                        NEW m \in markers, NEW i \in DOMAIN legend
                 PROVE  legend[i].colour = m.colour <=> legend[i].cluster = m.cluster
      BY DEF ColorsIdentifyClusters
    <2>1. /\ m.cluster \in 0 .. Len(clusters) - 1
          /\ m.colour = (PaletteSize \div Len(clusters)) * m.cluster
          /\ i - 1 \in 0 .. Len(clusters) - 1
          /\ legend[i].cluster = i - 1
          /\ legend[i].colour = (PaletteSize \div Len(clusters)) * (i - 1)
      BY DEF IInv, ColorOf, ColorStep
    <2>2. Len(clusters) \in 1 .. PaletteSize
      BY <1>1, <2>1
    <2>3. ASSUME legend[i].colour = m.colour
          PROVE  legend[i].cluster = m.cluster
      <3>1. (i - 1) * (PaletteSize \div Len(clusters))
              = m.cluster * (PaletteSize \div Len(clusters))
        BY <2>1, <2>3
      <3>2. i - 1 \in Nat /\ m.cluster \in Nat
        BY <2>1
      <3>3. i - 1 = m.cluster
        BY <3>1, <3>2, <2>2, StrideInjective, Zenon
      <3>4. QED
        BY <3>3, <2>1
    <2>4. QED
      BY <2>1, <2>3
  <1>4. QED
    BY <1>2, <1>3

(***************************************************************************)
(* initMap leaves the markers and the legend well typed, for every page.   *)
(***************************************************************************)
THEOREM TypeCorrect == Spec => []TypeOK
  <1>1. IInv => TypeOK
    BY DEF IInv
  <1>2. QED
    BY <1>1, InitIInv, NextIInv, PTL DEF Spec

(***************************************************************************)
(* The colour stride of clustering.js (floor(colors.length /               *)
(* clusters.length) times the cluster index) never indexes past the        *)
(* palette, however many clusters the page has.                            *)
(***************************************************************************)
THEOREM ColorsInPalette == Spec => []ColorsWithinPalette
  BY InitIInv, NextIInv, IInvColors, PTL DEF Spec

(***************************************************************************)
(* With no more clusters than colours, the colour of a marker is that of   *)
(* its own cluster's legend row and of no other: the legend identifies the *)
(* clusters on the map.                                                    *)
(***************************************************************************)
THEOREM ColorsTellClustersApart == Spec => []ColorsIdentifyClusters
  BY InitIInv, NextIInv, IInvColors, PTL DEF Spec
=============================================================================
