----------------------- MODULE RouteRendererProofs -----------------------
(***************************************************************************)
(* Proofs about RouteRenderer for every value of its constants: the type   *)
(* invariant, that colour striding never indexes past the palette and      *)
(* gives different tours different colours, that clear() leaves no         *)
(* primitive of an earlier pass, and that the legend stays wired.          *)
(***************************************************************************)
EXTENDS RouteRenderer, FiniteSetTheorems, SequenceTheorems, TLAPS

USE ConstantsAssumption

(***************************************************************************)
(* Integer division: floor(P / T) copies of T fit in P.                    *)
(***************************************************************************)
LEMMA DivTimesBound ==
    ASSUME NEW P \in Nat, NEW T \in Nat \ {0}
    PROVE  /\ P \div T \in Nat
           /\ T * (P \div T) <= P
  BY SMT

(***************************************************************************)
(* The k-th stride of floor(P / T), for k < T, stays below P.              *)
(***************************************************************************)
LEMMA StrideBound ==
    ASSUME NEW P \in Nat \ {0}, NEW T \in Nat \ {0}, NEW k \in 0 .. T - 1
    PROVE  k * (P \div T) \in 0 .. P - 1
  <1> DEFINE q == P \div T
  <1>1. q \in Nat /\ T * q <= P
    BY DivTimesBound
  <1>2. CASE q = 0
    BY <1>2
  <1>3. CASE q # 0
    <2>1. k * q <= (T - 1) * q
      BY <1>1, <1>3, SMT
    <2>2. (T - 1) * q = T * q - q
      BY <1>1, SMT
    <2>3. QED
      BY <1>1, <1>3, <2>1, <2>2, SMT
  <1>4. QED
    BY <1>2, <1>3

(***************************************************************************)
(* The tours of a page are pairs of a cluster index and a position, so     *)
(* finitely many.                                                          *)
(***************************************************************************)
LEMMA AllToursFinite ==
    ASSUME clusters \in [ClusterIdx -> ClusterData]
    PROVE  /\ AllTours \subseteq ClusterIdx \X (1 .. MaxTours)
           /\ IsFiniteSet(AllTours)
  <1>1. AllTours \subseteq ClusterIdx \X (1 .. MaxTours)
    <2> SUFFICES ASSUME NEW c \in ClusterIdx, NEW t \in DOMAIN clusters[c]
                 PROVE  <<c, t>> \in ClusterIdx \X (1 .. MaxTours)
      BY DEF AllTours
    <2>1. PICK n \in 0 .. MaxTours : clusters[c] \in [1 .. n -> TourData]
      BY DEF ClusterData
    <2>2. QED
      BY <2>1
  <1>2. IsFiniteSet(ClusterIdx \X (1 .. MaxTours))
    <2>1. IsFiniteSet(ClusterIdx) /\ IsFiniteSet(1 .. MaxTours)
      BY FS_Interval DEF ClusterIdx
    <2>2. QED
      BY <2>1, FS_Product
  <1>3. QED
    BY <1>1, <1>2, FS_Subset

(***************************************************************************)
(* Fewer members of a finite set of pairs of naturals come before x than   *)
(* the set has.                                                            *)
(***************************************************************************)
LEMMA EarlierCount ==
    ASSUME NEW S \in SUBSET (Nat \X Nat), IsFiniteSet(S), NEW x \in S
    PROVE  Cardinality({d \in S : Earlier(d, x)}) \in 0 .. Cardinality(S) - 1
  <1> DEFINE B == {d \in S : Earlier(d, x)}
  <1>1. B \subseteq S \ {x}
    BY DEF Earlier
  <1>2. IsFiniteSet(S \ {x}) /\ Cardinality(S \ {x}) = Cardinality(S) - 1
    BY FS_RemoveElement
  <1>3. IsFiniteSet(B) /\ Cardinality(B) <= Cardinality(S \ {x})
    BY <1>1, <1>2, FS_Subset
  <1>4. Cardinality(B) \in Nat
    BY <1>3, FS_CardinalityType
  <1>5. QED
    BY <1>2, <1>3, <1>4

(***************************************************************************)
(* The palette index drawRoutes gives a tour it visits is below            *)
(* colors.length.                                                          *)
(***************************************************************************)
LEMMA ColorOfInPalette ==
    ASSUME clusters \in [ClusterIdx -> ClusterData],
           NEW en \in [ClusterIdx -> BOOLEAN],
           NEW ct \in EnabledTours(en)
    PROVE  ColorOf(en, ct) \in 0 .. PaletteSize - 1
  <1>1. EnabledTours(en) \subseteq Nat \X Nat /\ IsFiniteSet(EnabledTours(en))
    BY AllToursFinite, FS_Subset DEF EnabledTours, ClusterIdx
  <1> DEFINE T == Cardinality(EnabledTours(en))
             k == Cardinality({d \in EnabledTours(en) : Earlier(d, ct)})
  <1>2. k \in 0 .. T - 1
    BY <1>1, EarlierCount
  <1>3. T \in Nat \ {0}
    BY <1>1, <1>2, FS_CardinalityType
  <1>4. QED
    BY <1>2, <1>3, StrideBound DEF ColorOf, ColorStep

(***************************************************************************)
(* What a draw pass creates: primitives of that pass, coloured from the    *)
(* palette.                                                                *)
(***************************************************************************)
LEMMA DrawnType ==
    ASSUME clusters \in [ClusterIdx -> ClusterData],
           NEW en \in [ClusterIdx -> BOOLEAN], NEW g \in Nat
    PROVE  \A o \in Drawn(en, g) :
               /\ o \in Primitive
               /\ o.pass = g
               /\ o.color < PaletteSize
  <1> SUFFICES ASSUME NEW ct \in EnabledTours(en), NEW p \in 0 .. MaxPoints
               PROVE  LET o == [pass |-> g, cluster |-> ct[1], tour |-> ct[2],
                                point |-> p, color |-> ColorOf(en, ct)]
                      IN  /\ o \in Primitive
                          /\ o.pass = g
                          /\ o.color < PaletteSize
    BY DEF Drawn
  <1>1. ct \in ClusterIdx \X (1 .. MaxTours)
    BY AllToursFinite DEF EnabledTours
  <1>2. ColorOf(en, ct) \in 0 .. PaletteSize - 1
    BY ColorOfInPalette
  <1>3. QED
    BY <1>1, <1>2 DEF Primitive

LEMMA AppendRowsType ==
    ASSUME NEW rows \in Seq(LegendRow), NEW en \in [ClusterIdx -> BOOLEAN]
    PROVE  AppendRows(rows, en) \in Seq(LegendRow)
  <1> DEFINE n == Cardinality({c \in ClusterIdx : RowReached(en, c)})
  <1>1. n \in Nat /\ n <= NClusters
    <2>1. IsFiniteSet(ClusterIdx) /\ Cardinality(ClusterIdx) = NClusters
      BY FS_Interval DEF ClusterIdx
    <2>2. QED
      BY <2>1, FS_Subset, FS_CardinalityType
  <1>2. NewRows(en) \in Seq(LegendRow)
    <2>1. \A i \in 1 .. n : i - 1 \in ClusterIdx
      BY <1>1 DEF ClusterIdx
    <2>2. NewRows(en) \in [1 .. n -> LegendRow]
      BY <2>1 DEF NewRows, LegendRow
    <2>3. QED
      BY <1>1, <2>2, SeqDef
  <1> DEFINE all == rows \o NewRows(en)
  <1>3. all \in Seq(LegendRow)
    BY <1>2, ConcatProperties
  <1>4. AppendRows(rows, en) \in [1 .. Len(all) -> LegendRow]
    <2>1. DOMAIN all = 1 .. Len(all) /\ \A i \in 1 .. Len(all) : all[i] \in LegendRow
      BY <1>3, LenProperties, ElementOfSeq
    <2>2. QED
      BY <2>1, Zenon DEF AppendRows, LegendRow
  <1>5. QED
    BY <1>3, <1>4, LenProperties, SeqDef

(***************************************************************************)
(* drawRoutes' count toursToShow is a natural number.                      *)
(***************************************************************************)
LEMMA ToursToShowType ==
    ASSUME clusters \in [ClusterIdx -> ClusterData],
           NEW en \in [ClusterIdx -> BOOLEAN]
    PROVE  Cardinality(EnabledTours(en)) \in Nat
  <1>1. IsFiniteSet(EnabledTours(en))
    BY AllToursFinite, FS_Subset DEF EnabledTours
  <1>2. QED
    BY <1>1, FS_CardinalityType

-----------------------------------------------------------------------------
(***************************************************************************)
(* The inductive invariant: the type invariant together with the palette   *)
(* bound.  The palette bound is inductive on its own given the types: a    *)
(* draw pass only adds primitives coloured by ColorOf, and clear() only    *)
(* removes primitives.                                                     *)
(***************************************************************************)
IInv == TypeOK /\ ColorsWithinPalette

LEMMA InitIInv == Init => IInv
  <1> SUFFICES ASSUME Init PROVE IInv
    OBVIOUS
  <1>1. TypeOK
    BY EmptySeq DEF Init, TypeOK
  <1>2. ColorsWithinPalette
    BY DEF Init, ColorsWithinPalette
  <1>3. QED
    BY <1>1, <1>2 DEF IInv

LEMMA NextIInv == IInv /\ [Next]_vars => IInv'
  <1> SUFFICES ASSUME IInv, [Next]_vars PROVE IInv'
    OBVIOUS
  <1> USE DEF IInv
  <1>0. /\ clusters \in [ClusterIdx -> ClusterData]
        /\ enabledClusters \in [ClusterIdx -> BOOLEAN]
        /\ legend \in Seq(LegendRow)
    BY DEF TypeOK
  <1>1. CASE InitMap
    <2> DEFINE en == [c \in ClusterIdx |-> TRUE]
    <2>1. en \in [ClusterIdx -> BOOLEAN]
      OBVIOUS
    <2>2. \A o \in Drawn(en, 1) : o \in Primitive /\ o.color < PaletteSize
      BY <1>0, <2>1, DrawnType
    <2>3. AppendRows(<<>>, en) \in Seq(LegendRow)
      BY <2>1, EmptySeq, AppendRowsType
    <2>4. Cardinality(EnabledTours(en)) \in Nat
      BY <1>0, <2>1, ToursToShowType
    <2>0. /\ enabledClusters' = en
          /\ mapObjects' = Drawn(en, 1)
          /\ onMap' = Drawn(en, 1)
          /\ legend' = AppendRows(<<>>, en)
          /\ toursToShow' = Cardinality(EnabledTours(en))
          /\ pass' = 1
          /\ clusters' = clusters
      BY <1>1 DEF InitMap
    <2>5. TypeOK'
      <3>1. mapObjects' \subseteq Primitive /\ onMap' \subseteq Primitive
        BY <2>0, <2>2
      <3>2. pass' \in 0 .. MaxDraws
        BY <2>0
      <3>3. QED
        BY <1>0, <2>0, <2>1, <2>3, <2>4, <3>1, <3>2 DEF TypeOK
    <2>6. ColorsWithinPalette'
      BY <2>0, <2>2 DEF ColorsWithinPalette
    <2>7. QED
      BY <2>5, <2>6
  <1>2. CASE ClickDraw
    <2> DEFINE en == enabledClusters
    <2>1. \A o \in Drawn(en, pass + 1) : o \in Primitive /\ o.color < PaletteSize
      BY <1>0, DrawnType DEF TypeOK
    <2>2. AppendRows(<<>>, en) \in Seq(LegendRow)
      BY <1>0, EmptySeq, AppendRowsType
    <2>3. Cardinality(EnabledTours(en)) \in Nat
      BY <1>0, ToursToShowType
    <2>4. TypeOK'
      BY <1>0, <1>2, <2>1, <2>2, <2>3
      DEF ClickDraw, DrawRoutes, ClearedMap, ClearedLegend, TypeOK
    <2>5. ColorsWithinPalette'
      BY <1>2, <2>1 DEF ClickDraw, DrawRoutes, ClearedMap, ColorsWithinPalette
    <2>6. QED
      BY <2>4, <2>5
  <1>3. ASSUME NEW i \in DOMAIN legend, ToggleCheckbox(i)
        PROVE  IInv'
    <2>1. i \in 1 .. Len(legend) /\ legend[i] \in LegendRow
      BY <1>0, LenProperties, ElementOfSeq
    <2>2. legend' \in Seq(LegendRow)
      BY <1>0, <1>3, <2>1, ExceptSeq DEF ToggleCheckbox, LegendRow
    <2>3. enabledClusters' \in [ClusterIdx -> BOOLEAN]
      BY <1>0, <1>3, <2>1, <2>2 DEF ToggleCheckbox, LegendRow
    <2>4. TypeOK'
      BY <1>3, <2>2, <2>3 DEF ToggleCheckbox, TypeOK
    <2>5. ColorsWithinPalette'
      BY <1>3 DEF ToggleCheckbox, ColorsWithinPalette
    <2>6. QED
      BY <2>4, <2>5
  <1>4. CASE UNCHANGED vars
    BY <1>4 DEF vars, TypeOK, ColorsWithinPalette
  <1>5. QED
    BY <1>1, <1>2, <1>3, <1>4 DEF Next

(***************************************************************************)
(* Type correctness of the renderer's state.                               *)
(***************************************************************************)
THEOREM TypeCorrect == Spec => []TypeOK
  <1>1. Init => IInv
    BY InitIInv
  <1>2. IInv /\ [Next]_vars => IInv'
    BY NextIInv
  <1>3. IInv => TypeOK
    BY DEF IInv
  <1>4. QED
    BY <1>1, <1>2, <1>3, PTL DEF Spec

(***************************************************************************)
(* Colour striding never indexes past the palette: every marker and        *)
(* polyline on the map, in every reachable state and for every palette     *)
(* size, number of clusters and tours, has a defined colour                *)
(* colors[color_index] (routes.js lines 195, 211, 236).                    *)
(***************************************************************************)
THEOREM ColorsInPalette == Spec => []ColorsWithinPalette
  <1>1. Init => IInv
    BY InitIInv
  <1>2. IInv /\ [Next]_vars => IInv'
    BY NextIInv
  <1>3. IInv => ColorsWithinPalette
    BY DEF IInv
  <1>4. QED
    BY <1>1, <1>2, <1>3, PTL DEF Spec

-----------------------------------------------------------------------------
(***************************************************************************)
(* Clear-before-draw.  NoStalePrimitives is inductive given the types: a   *)
(* click detaches onMap \ mapObjects, which the invariant makes empty, and *)
(* then attaches only the primitives of the new pass, which it also keeps. *)
(***************************************************************************)
LEMMA NextNoStale ==
    IInv /\ NoStalePrimitives /\ [Next]_vars => NoStalePrimitives'
  <1> SUFFICES ASSUME IInv, NoStalePrimitives, [Next]_vars
               PROVE  NoStalePrimitives'
    OBVIOUS
  <1>0. /\ clusters \in [ClusterIdx -> ClusterData]
        /\ enabledClusters \in [ClusterIdx -> BOOLEAN]
        /\ pass \in Nat
    BY DEF IInv, TypeOK
  <1>1. CASE InitMap
    <2> DEFINE en == [c \in ClusterIdx |-> TRUE]
    <2>1. \A o \in Drawn(en, 1) : o.pass = 1
      BY <1>0, DrawnType
    <2>2. QED
      BY <1>1, <2>1 DEF InitMap, NoStalePrimitives
  <1>2. CASE ClickDraw
    <2>1. \A o \in Drawn(enabledClusters, pass + 1) : o.pass = pass + 1
      BY <1>0, DrawnType
    <2>2. ClearedMap = {}
      BY DEF ClearedMap, NoStalePrimitives
    <2>3. QED
      BY <1>2, <2>1, <2>2 DEF ClickDraw, DrawRoutes, NoStalePrimitives
  <1>3. ASSUME NEW i \in DOMAIN legend, ToggleCheckbox(i)
        PROVE  NoStalePrimitives'
    BY <1>3 DEF ToggleCheckbox, NoStalePrimitives
  <1>4. CASE UNCHANGED vars
    BY <1>4 DEF vars, NoStalePrimitives
  <1>5. QED
    BY <1>1, <1>2, <1>3, <1>4 DEF Next

(***************************************************************************)
(* Clear-before-draw (spec 8.4): every primitive on the map is one the     *)
(* next clear() detaches and belongs to the latest draw pass, for every    *)
(* page, whatever the user toggled and even when a pass threw half-way.    *)
(***************************************************************************)
THEOREM ClearBeforeDraw == Spec => []NoStalePrimitives
  <1>1. Init => IInv /\ NoStalePrimitives
    BY InitIInv DEF Init, NoStalePrimitives
  <1>2. IInv /\ NoStalePrimitives /\ [Next]_vars => IInv' /\ NoStalePrimitives'
    BY NextIInv, NextNoStale
  <1>3. QED
    BY <1>1, <1>2, PTL DEF Spec
-----------------------------------------------------------------------------
(***************************************************************************)
(* The legend drawRoutes builds after clear(): row i is cluster i - 1's,   *)
(* shows its enabledClusters entry and has the listener wired, because     *)
(* the first row with id cluster_index<i - 1> is row i itself.             *)
(***************************************************************************)
LEMMA FreshLegend ==
    ASSUME NEW en \in [ClusterIdx -> BOOLEAN]
    PROVE  /\ DOMAIN AppendRows(<<>>, en) \subseteq Nat
           /\ \A i \in DOMAIN AppendRows(<<>>, en) :
                 /\ AppendRows(<<>>, en)[i].listener
                 /\ AppendRows(<<>>, en)[i].cluster = i - 1
                 /\ AppendRows(<<>>, en)[i].checked = en[i - 1]
  <1> DEFINE NR == NewRows(en)
             n == Cardinality({c \in ClusterIdx : RowReached(en, c)})
             L == AppendRows(<<>>, en)
             wired == {FirstRow(NR, r.cluster) : r \in {NR[j] : j \in DOMAIN NR}}
  <1>1. n \in Nat /\ n <= NClusters
    <2>1. IsFiniteSet(ClusterIdx) /\ Cardinality(ClusterIdx) = NClusters
      BY FS_Interval DEF ClusterIdx
    <2>2. QED
      BY <2>1, FS_Subset, FS_CardinalityType
  <1>2. DOMAIN NR = 1 .. n
    BY DEF NewRows
  <1>3. \A i \in 1 .. n : /\ NR[i].cluster = i - 1
                          /\ NR[i].checked = en[i - 1]
                          /\ NR[i].listener = FALSE
    BY DEF NewRows
  <1>4. NR \in Seq(LegendRow)
    <2>1. \A i \in 1 .. n : i - 1 \in ClusterIdx
      BY <1>1 DEF ClusterIdx
    <2>2. NR \in [1 .. n -> LegendRow]
      BY <2>1 DEF NewRows, LegendRow
    <2>3. QED
      BY <1>1, <2>2, SeqDef
  <1>5. <<>> \o NR = NR
    BY <1>4, ConcatEmptySeq
  <1>6. ASSUME NEW i \in 1 .. n PROVE FirstRow(NR, i - 1) = i
    <2>1. \A j \in 1 .. i - 1 : NR[j].cluster # i - 1
      BY <1>1, <1>3
    <2>2. \A k \in DOMAIN NR : NR[k].cluster = i - 1 => k = i
      BY <1>1, <1>2, <1>3
    <2>3. i \in DOMAIN NR /\ NR[i].cluster = i - 1
      BY <1>2, <1>3
    <2>4. QED
      BY <2>1, <2>2, <2>3, Zenon DEF FirstRow
  <1>7. 1 .. n \subseteq wired
    <2> SUFFICES ASSUME NEW i \in 1 .. n PROVE i \in wired
      OBVIOUS
    <2>1. i = FirstRow(NR, NR[i].cluster)
      BY <1>3, <1>6
    <2>2. QED
      BY <1>2, <2>1
  <1>8. DOMAIN L = 1 .. n
    BY <1>2, <1>5 DEF AppendRows
  <1>9. \A i \in 1 .. n : /\ L[i].cluster = NR[i].cluster
                          /\ L[i].checked = NR[i].checked
                          /\ L[i].listener = (NR[i].listener \/ i \in wired)
    BY <1>2, <1>5 DEF AppendRows
  <1>10. ASSUME NEW i \in 1 .. n
         PROVE  /\ L[i].listener
                /\ L[i].cluster = i - 1
                /\ L[i].checked = en[i - 1]
    <2>1. L[i].listener = (NR[i].listener \/ i \in wired)
      BY <1>9, Zenon
    <2>2. i \in wired
      BY <1>7
    <2>3. L[i].listener
      BY <2>1, <2>2, Zenon
    <2>4. L[i].cluster = i - 1 /\ L[i].checked = en[i - 1]
      BY <1>3, <1>9
    <2>5. QED
      BY <2>3, <2>4
  <1>11. QED
    BY <1>1, <1>8, <1>10

LEMMA NextLegendWired ==
    IInv /\ LegendWired /\ [Next]_vars => LegendWired'
  <1> SUFFICES ASSUME IInv, LegendWired, [Next]_vars
               PROVE  LegendWired'
    OBVIOUS
  <1>0. /\ enabledClusters \in [ClusterIdx -> BOOLEAN]
        /\ legend \in Seq(LegendRow)
    BY DEF IInv, TypeOK
  <1>1. CASE InitMap
    <2> DEFINE en == [c \in ClusterIdx |-> TRUE]
    <2>1. legend' = AppendRows(<<>>, en) /\ enabledClusters' = en
      BY <1>1 DEF InitMap
    <2>2. en \in [ClusterIdx -> BOOLEAN]
      OBVIOUS
    <2>3. /\ DOMAIN legend' \subseteq Nat
          /\ \A j \in DOMAIN legend' : /\ legend'[j].listener
                                       /\ legend'[j].cluster = j - 1
                                       /\ legend'[j].checked = en[j - 1]
      BY <2>1, <2>2, FreshLegend
    <2>4. ASSUME NEW j \in DOMAIN legend'
          PROVE  /\ legend'[j].listener
                 /\ legend'[j].checked = enabledClusters'[legend'[j].cluster]
                 /\ \A k \in DOMAIN legend' :
                        legend'[k].cluster = legend'[j].cluster => k = j
      <3>1. legend'[j].listener
        BY <2>3
      <3>2. legend'[j].checked = enabledClusters'[legend'[j].cluster]
        BY <2>1, <2>3
      <3>3. \A k \in DOMAIN legend' : legend'[k].cluster = legend'[j].cluster => k = j
        <4>1. \A k \in DOMAIN legend' : k \in Nat /\ legend'[k].cluster = k - 1
          BY <2>3, Zenon
        <4>2. QED
          BY <4>1
      <3>4. QED
        BY <3>1, <3>2, <3>3
    <2>5. QED
      BY <2>4 DEF LegendWired
  <1>2. CASE ClickDraw
    <2>1. legend' = AppendRows(<<>>, enabledClusters)
          /\ enabledClusters' = enabledClusters
      BY <1>2 DEF ClickDraw, DrawRoutes, ClearedLegend
    <2>2. /\ DOMAIN legend' \subseteq Nat
          /\ \A j \in DOMAIN legend' : /\ legend'[j].listener
                                       /\ legend'[j].cluster = j - 1
                                       /\ legend'[j].checked = enabledClusters[j - 1]
      BY <1>0, <2>1, FreshLegend
    <2>3. QED
      BY <2>1, <2>2 DEF LegendWired
  <1>3. ASSUME NEW i \in DOMAIN legend, ToggleCheckbox(i)
        PROVE  LegendWired'
    <2> DEFINE c == legend[i].cluster
    <2>1. legend[i] \in LegendRow /\ legend[i].listener
      BY <1>0, ElementOfSeq, LenProperties DEF LegendWired
    <2>2. /\ legend' = [legend EXCEPT ![i].checked = ~legend[i].checked]
          /\ enabledClusters' = [enabledClusters EXCEPT ![c] = ~legend[i].checked]
      <3>1. legend' = [legend EXCEPT ![i].checked = ~legend[i].checked]
        BY <1>3 DEF ToggleCheckbox
      <3>2. legend'[i].checked = ~legend[i].checked
        BY <3>1, <2>1 DEF LegendRow
      <3>3. QED
        BY <1>3, <2>1, <3>1, <3>2 DEF ToggleCheckbox
    <2>3. ASSUME NEW j \in DOMAIN legend
          PROVE  /\ legend'[j].listener
                 /\ legend'[j].checked = enabledClusters'[legend'[j].cluster]
                 /\ \A k \in DOMAIN legend' :
                        legend'[k].cluster = legend'[j].cluster => k = j
      <3>1. legend[j] \in LegendRow
        BY <1>0, ElementOfSeq, LenProperties
      <3>2. CASE j = i
        BY <1>0, <2>1, <2>2, <3>2 DEF LegendWired, LegendRow
      <3>3. CASE j # i
        <4>1. legend[j].cluster # c
          BY <3>3 DEF LegendWired
        <4>2. QED
          BY <1>0, <2>1, <2>2, <3>1, <4>1 DEF LegendWired, LegendRow
      <3>4. QED
        BY <3>2, <3>3
    <2>4. DOMAIN legend' = DOMAIN legend
      BY <2>2
    <2>5. QED
      BY <2>3, <2>4 DEF LegendWired
  <1>4. CASE UNCHANGED vars
    BY <1>4 DEF vars, LegendWired
  <1>5. QED
    BY <1>1, <1>2, <1>3, <1>4 DEF Next

(***************************************************************************)
(* Cluster toggle (spec 8.3): every legend row is the only one of its      *)
(* cluster, has its change listener, and shows the cluster's               *)
(* enabledClusters entry, for every page and every sequence of toggles     *)
(* and redraws; what the user sees checked is what the next draw renders.  *)
(***************************************************************************)
THEOREM LegendAlwaysWired == Spec => []LegendWired
  <1>1. Init => IInv /\ LegendWired
    BY InitIInv DEF Init, LegendWired
  <1>2. IInv /\ LegendWired /\ [Next]_vars => IInv' /\ LegendWired'
    BY NextIInv, NextLegendWired
  <1>3. QED
    BY <1>1, <1>2, PTL DEF Spec
-----------------------------------------------------------------------------
(***************************************************************************)
(* Colour striding (spec 8.5).  The map only ever shows primitives of one  *)
(* drawRoutes pass, and toursToShow is the count that pass striped the     *)
(* palette with; toggles since then change enabledClusters but neither the *)
(* map nor the count, so the enabled state the pass saw is only known to   *)
(* exist.                                                                  *)
(***************************************************************************)
DrawnWith ==
    \E en \in [ClusterIdx -> BOOLEAN] :
        /\ toursToShow = Cardinality(EnabledTours(en))
        /\ onMap \subseteq Drawn(en, pass)

(***************************************************************************)
(* A tour visited before another gets a smaller palette index, as long as  *)
(* the stride floor(colors.length / toursToShow) is at least 1.            *)
(***************************************************************************)
LEMMA ColorOfStrict ==
    ASSUME clusters \in [ClusterIdx -> ClusterData],
           NEW en \in [ClusterIdx -> BOOLEAN],
           NEW a \in EnabledTours(en), NEW b \in EnabledTours(en),
           Earlier(a, b),
           Cardinality(EnabledTours(en)) <= PaletteSize
    PROVE  ColorOf(en, a) < ColorOf(en, b)
  <1> DEFINE S == EnabledTours(en)
             Ba == {d \in S : Earlier(d, a)}
             Bb == {d \in S : Earlier(d, b)}
             T == Cardinality(S)
  <1>1. S \subseteq Nat \X Nat /\ IsFiniteSet(S)
    BY AllToursFinite, FS_Subset DEF EnabledTours, ClusterIdx
  <1>2. Ba \subseteq Bb \ {a}
    BY <1>1 DEF Earlier
  <1>3. a \in Bb
    OBVIOUS
  <1>4. IsFiniteSet(Bb) /\ Cardinality(Bb) \in Nat
    BY <1>1, FS_Subset, FS_CardinalityType
  <1>5. IsFiniteSet(Bb \ {a}) /\ Cardinality(Bb \ {a}) = Cardinality(Bb) - 1
    BY <1>3, <1>4, FS_RemoveElement
  <1>6. IsFiniteSet(Ba) /\ Cardinality(Ba) <= Cardinality(Bb \ {a})
    BY <1>2, <1>5, FS_Subset
  <1>7. Cardinality(Ba) \in Nat /\ Cardinality(Ba) < Cardinality(Bb)
    BY <1>4, <1>5, <1>6, FS_CardinalityType
  <1>8. T \in 1 .. PaletteSize
    <2>1. T \in Nat /\ T # 0
      BY <1>1, FS_CardinalityType, FS_EmptySet
    <2>2. QED
      BY <2>1
  <1>9. PaletteSize \div T \in Nat \ {0}
    BY <1>8, SMT
  <1>10. Cardinality(Ba) * (PaletteSize \div T) < Cardinality(Bb) * (PaletteSize \div T)
    BY <1>4, <1>7, <1>9, SMT
  <1>11. QED
    BY <1>10 DEF ColorOf, ColorStep

(***************************************************************************)
(* A primitive drawn in a pass belongs to an enabled tour and carries that *)
(* tour's colour.                                                          *)
(***************************************************************************)
LEMMA DrawnTour ==
    ASSUME NEW en, NEW g, NEW o \in Drawn(en, g)
    PROVE  /\ <<o.cluster, o.tour>> \in EnabledTours(en)
           /\ o.color = ColorOf(en, <<o.cluster, o.tour>>)
  <1>1. PICK ct \in EnabledTours(en), p \in 0 .. MaxPoints :
             o = [pass |-> g, cluster |-> ct[1], tour |-> ct[2], point |-> p,
                  color |-> ColorOf(en, ct)]
    BY DEF Drawn
  <1>2. ct = <<ct[1], ct[2]>>
    BY DEF EnabledTours, AllTours
  <1>3. <<o.cluster, o.tour>> = ct
    BY <1>1, <1>2
  <1>4. QED
    BY <1>1, <1>3

(***************************************************************************)
(* DrawnWith after a step that leaves the page's clusters alone, from a    *)
(* witness for the new state.                                              *)
(***************************************************************************)
LEMMA DrawnWithPrime ==
    ASSUME NEW en \in [ClusterIdx -> BOOLEAN],
           clusters' = clusters,
           toursToShow' = Cardinality(EnabledTours(en)),
           onMap' \subseteq Drawn(en, pass')
    PROVE  DrawnWith'
  <1>1. \A e : EnabledTours(e)' = EnabledTours(e)
    BY DEF EnabledTours, AllTours
  <1>2. \A e : Throwing(e)' = Throwing(e)
    BY <1>1 DEF Throwing
  <1>3. \A e, ct : Reached(e, ct)' = Reached(e, ct) /\ Completed(e, ct)' = Completed(e, ct)
    BY <1>2 DEF Reached, Completed, Earlier
  <1>4. \A e, ct : ColorOf(e, ct)' = ColorOf(e, ct)
    BY <1>1 DEF ColorOf, ColorStep, Earlier
  <1>5. \A e, ct, p : Visible(e, ct, p)' = Visible(e, ct, p)
    BY <1>3 DEF Visible
  <1>6. \A e : Drawn(e, pass)' = Drawn(e, pass')
    BY <1>1, <1>4, <1>5 DEF Drawn
  <1>7. QED
    BY <1>1, <1>6 DEF DrawnWith

LEMMA NextDrawnWith ==
    IInv /\ NoStalePrimitives /\ DrawnWith /\ [Next]_vars => DrawnWith'
  <1> SUFFICES ASSUME IInv, NoStalePrimitives, DrawnWith, [Next]_vars
               PROVE  DrawnWith'
    OBVIOUS
  <1>0. enabledClusters \in [ClusterIdx -> BOOLEAN]
    BY DEF IInv, TypeOK
  <1>1. CASE InitMap
    <2> DEFINE en == [c \in ClusterIdx |-> TRUE]
    <2>1. /\ clusters' = clusters
          /\ toursToShow' = Cardinality(EnabledTours(en))
          /\ onMap' = Drawn(en, pass')
      BY <1>1 DEF InitMap
    <2>2. QED
      BY <2>1, DrawnWithPrime
  <1>2. CASE ClickDraw
    <2>1. ClearedMap = {}
      BY DEF ClearedMap, NoStalePrimitives
    <2>2. /\ clusters' = clusters
          /\ toursToShow' = Cardinality(EnabledTours(enabledClusters))
          /\ onMap' = Drawn(enabledClusters, pass')
      BY <1>2, <2>1 DEF ClickDraw, DrawRoutes
    <2>3. QED
      BY <1>0, <2>2, DrawnWithPrime
  <1>3. CASE UNCHANGED <<clusters, onMap, toursToShow, pass>>
    <2>1. PICK en \in [ClusterIdx -> BOOLEAN] :
                 /\ toursToShow = Cardinality(EnabledTours(en))
                 /\ onMap \subseteq Drawn(en, pass)
      BY DEF DrawnWith
    <2>2. QED
      BY <1>3, <2>1, DrawnWithPrime
  <1>4. QED
    BY <1>1, <1>2, <1>3 DEF Next, ToggleCheckbox, vars

(***************************************************************************)
(* Two primitives of different tours on the map, with no more tours shown  *)
(* than colours, have different colours: the pass that drew them visited   *)
(* one tour first and gave it a smaller stride multiple.                   *)
(***************************************************************************)
LEMMA DrawnWithColors == IInv /\ DrawnWith => DistinctTourColors
  <1> SUFFICES ASSUME IInv, DrawnWith, toursToShow <= PaletteSize,
                      NEW o1 \in onMap, NEW o2 \in onMap,
                      <<o1.cluster, o1.tour>> # <<o2.cluster, o2.tour>>
               PROVE  o1.color # o2.color
    BY DEF DistinctTourColors
  <1>0. clusters \in [ClusterIdx -> ClusterData]
    BY DEF IInv, TypeOK
  <1>1. PICK en \in [ClusterIdx -> BOOLEAN] :
               /\ toursToShow = Cardinality(EnabledTours(en))
               /\ onMap \subseteq Drawn(en, pass)
    BY DEF DrawnWith
  <1> DEFINE a == <<o1.cluster, o1.tour>>
             b == <<o2.cluster, o2.tour>>
  <1>2. /\ a \in EnabledTours(en) /\ o1.color = ColorOf(en, a)
        /\ b \in EnabledTours(en) /\ o2.color = ColorOf(en, b)
    BY <1>1, DrawnTour
  <1>3. Earlier(a, b) \/ Earlier(b, a)
    <2>1. a \in Nat \X Nat /\ b \in Nat \X Nat
      BY <1>0, <1>2, AllToursFinite DEF EnabledTours, ClusterIdx
    <2>2. QED
      BY <2>1 DEF Earlier
  <1>4. Cardinality(EnabledTours(en)) <= PaletteSize
    BY <1>1
  <1>5. CASE Earlier(a, b)
    <2>1. ColorOf(en, a) < ColorOf(en, b)
      BY <1>0, <1>2, <1>4, <1>5, ColorOfStrict
    <2>2. ColorOf(en, a) \in Nat /\ ColorOf(en, b) \in Nat
      BY <1>0, <1>2, ColorOfInPalette
    <2>3. QED
      BY <1>2, <2>1, <2>2
  <1>6. CASE Earlier(b, a)
    <2>1. ColorOf(en, b) < ColorOf(en, a)
      BY <1>0, <1>2, <1>4, <1>6, ColorOfStrict
    <2>2. ColorOf(en, a) \in Nat /\ ColorOf(en, b) \in Nat
      BY <1>0, <1>2, ColorOfInPalette
    <2>3. QED
      BY <1>2, <2>1, <2>2
  <1>7. QED
    BY <1>3, <1>5, <1>6

(***************************************************************************)
(* Colour striding (spec 8.5): for every page, palette size and sequence   *)
(* of toggles and redraws, while toursToShow is at most colors.length two  *)
(* different tours on the map never share a colour (routes.js lines 185-   *)
(* 195 and 236).                                                           *)
(***************************************************************************)
THEOREM ToursTellApart == Spec => []DistinctTourColors
  <1>1. Init => IInv /\ NoStalePrimitives /\ DrawnWith
    <2> SUFFICES ASSUME Init PROVE IInv /\ NoStalePrimitives /\ DrawnWith
      OBVIOUS
    <2> DEFINE en == [c \in ClusterIdx |-> FALSE]
    <2>1. EnabledTours(en) = {}
      BY AllToursFinite DEF Init, EnabledTours, ClusterIdx
    <2>2. toursToShow = Cardinality(EnabledTours(en))
      BY <2>1, FS_EmptySet DEF Init
    <2>3. DrawnWith
      BY <2>2 DEF Init, DrawnWith
    <2>4. QED
      BY <2>3, InitIInv DEF Init, NoStalePrimitives
  <1>2. IInv /\ NoStalePrimitives /\ DrawnWith /\ [Next]_vars
          => IInv' /\ NoStalePrimitives' /\ DrawnWith'
    BY NextIInv, NextNoStale, NextDrawnWith
  <1>3. IInv /\ DrawnWith => DistinctTourColors
    BY DrawnWithColors
  <1>4. QED
    BY <1>1, <1>2, <1>3, PTL DEF Spec
=============================================================================
