--------------------- MODULE DriverLocationAnalyzerProofs ---------------------
(***************************************************************************)
(* Proofs about the driver-location analyzer: every reachable state is     *)
(* well typed, every object on the map has its cleaning callback, and      *)
(* cleaningCallbacks implements the disposable scope of DisposableScope,   *)
(* for every set of orders, every response size and every bound.           *)
(***************************************************************************)
EXTENDS DriverLocationAnalyzer, SequenceTheorems, TLAPS

USE AnalyzerAssumption

\* The identities a step creating `new` gives its objects.
NewIds(new) == {NewId(k) : k \in 1 .. Len(new)}

\* What CreateOn does to the objects, the map and the stack: the new
\* objects get identities no object had, are put on the map and have
\* their callbacks pushed.
LEMMA CreateOnFacts ==
    ASSUME objs \in Seq(MapObject),
           NEW att \in SUBSET DOMAIN objs, NEW stack \in Seq(DOMAIN objs),
           NEW new \in Seq(MapObject), CreateOn(att, stack, new)
    PROVE  /\ objs' \in Seq(MapObject)
           /\ Len(objs') = Len(objs) + Len(new)
           /\ NewIds(new) \cap DOMAIN objs = {}
           /\ attached' = att \cup NewIds(new)
           /\ attached' \subseteq DOMAIN objs'
           /\ cleaning' \in Seq(DOMAIN objs')
           /\ Range(cleaning') = Range(stack) \cup NewIds(new)
<1> DEFINE ids == [k \in 1 .. Len(new) |-> NewId(k)]
<1>1. /\ objs' = objs \o new
      /\ attached' = att \cup NewIds(new)
      /\ cleaning' = stack \o ids
  BY DEF CreateOn, NewIds
<1>2. /\ objs' \in Seq(MapObject)
      /\ Len(objs') = Len(objs) + Len(new)
      /\ DOMAIN objs' = 1 .. Len(objs')
  BY <1>1, ConcatProperties, LenProperties
<1>3. /\ Len(objs) \in Nat /\ Len(new) \in Nat
      /\ DOMAIN objs = 1 .. Len(objs)
  BY LenProperties
<1>4. /\ NewIds(new) \cap DOMAIN objs = {}
      /\ NewIds(new) \subseteq DOMAIN objs'
  <2>1. ASSUME NEW k \in 1 .. Len(new)
        PROVE  /\ NewId(k) \notin 1 .. Len(objs)
               /\ NewId(k) \in 1 .. Len(objs) + Len(new)
    BY <1>3 DEF NewId
  <2>2. QED
    BY <1>2, <1>3, <2>1 DEF NewIds
<1>5. ids \in Seq(DOMAIN objs')
  <2>1. ids \in [1 .. Len(new) -> DOMAIN objs']
    BY <1>2, <1>3 DEF NewId
  <2>2. QED
    BY <2>1, <1>3, SeqDef
<1>6. stack \in Seq(DOMAIN objs')
  BY <1>2, <1>3, SeqMonotonic
<1>7. Range(ids) = NewIds(new)
  BY DEF Range, NewIds
<1>8. Range(cleaning') = Range(stack) \cup NewIds(new)
  <2>0. \A s1, s2 \in Seq(DOMAIN objs') : Range(s1 \o s2) = Range(s1) \cup Range(s2)
    BY RangeConcatenation
  <2>1. Range(stack \o ids) = Range(stack) \cup Range(ids)
    BY <1>5, <1>6, <2>0
  <2>2. QED
    BY <2>1, <1>1, <1>7
<1>9. cleaning' \in Seq(DOMAIN objs')
  BY <1>1, <1>5, <1>6, ConcatProperties
<1>10. attached' \subseteq DOMAIN objs'
  BY <1>1, <1>2, <1>3, <1>4
<1>11. QED
  BY <1>1, <1>2, <1>4, <1>8, <1>9, <1>10

\* The inductive invariant: the type, every object on the map tracked, and
\* no more timers pending than orders chosen (so that the request a timer
\* posts is numbered within 1 .. MaxChooses), and every point marker drawn
\* for a point of the response (so that a click selects an Item).
IInv == /\ TypeOK
        /\ TrackedObjects
        /\ Len(timers) <= chooses
        /\ \A i \in DOMAIN objs :
               objs[i].kind = "pointMarker" => objs[i].point \in 0 .. NPoints - 1

\* A step that creates objects on top of the current stack, after some
\* objects were detached by their own callbacks, is an Update of the scope.
LEMMA CreateKeep ==
    ASSUME IInv, NEW att \in SUBSET attached, NEW new \in Seq(MapObject),
           CreateOn(att, cleaning, new)
    PROVE  /\ objs' \in Seq(MapObject)
           /\ attached' \subseteq DOMAIN objs'
           /\ cleaning' \in Seq(DOMAIN objs')
           /\ TrackedObjects'
           /\ Scope!Update
<1>1. /\ objs \in Seq(MapObject) /\ attached \subseteq DOMAIN objs
      /\ cleaning \in Seq(DOMAIN objs) /\ attached \subseteq Registered
  BY DEF IInv, TypeOK, TrackedObjects
<1>2. /\ objs' \in Seq(MapObject)
      /\ NewIds(new) \cap DOMAIN objs = {}
      /\ attached' = att \cup NewIds(new)
      /\ attached' \subseteq DOMAIN objs'
      /\ cleaning' \in Seq(DOMAIN objs')
      /\ Registered' = Registered \cup NewIds(new)
  BY <1>1, CreateOnFacts DEF Registered
<1>3. Registered \subseteq DOMAIN objs
  BY <1>1 DEF Registered, Range
<1>4. TrackedObjects'
  BY <1>1, <1>2 DEF TrackedObjects
<1>5. Scope!Update
  BY <1>1, <1>2, <1>3 DEF Scope!Update
<1>6. QED
  BY <1>2, <1>4, <1>5

\* chooseOrder's step, after a first order was chosen: runCleanCallbacks
\* empties the stack and the new objects start a fresh one.
LEMMA CreateReset ==
    ASSUME IInv, NEW new \in Seq(MapObject),
           CreateOn(attached \ Registered, <<>>, new)
    PROVE  /\ objs' \in Seq(MapObject)
           /\ attached' \subseteq DOMAIN objs'
           /\ cleaning' \in Seq(DOMAIN objs')
           /\ TrackedObjects'
           /\ Scope!DisposeAll
<1>1. /\ objs \in Seq(MapObject) /\ attached \subseteq DOMAIN objs
      /\ cleaning \in Seq(DOMAIN objs) /\ attached \subseteq Registered
  BY DEF IInv, TypeOK, TrackedObjects
<1>2. <<>> \in Seq(DOMAIN objs) /\ Range(<<>>) = {}
  BY DEF Range
<1>3. /\ objs' \in Seq(MapObject)
      /\ NewIds(new) \cap DOMAIN objs = {}
      /\ attached' = (attached \ Registered) \cup NewIds(new)
      /\ attached' \subseteq DOMAIN objs'
      /\ cleaning' \in Seq(DOMAIN objs')
      /\ Registered' = NewIds(new)
  <2>1. attached \ Registered \in SUBSET DOMAIN objs
    BY <1>1
  <2>2. /\ objs' \in Seq(MapObject)
        /\ NewIds(new) \cap DOMAIN objs = {}
        /\ attached' = (attached \ Registered) \cup NewIds(new)
        /\ attached' \subseteq DOMAIN objs'
        /\ cleaning' \in Seq(DOMAIN objs')
        /\ Range(cleaning') = Range(<<>>) \cup NewIds(new)
    BY <1>1, <1>2, <2>1, CreateOnFacts
  <2>3. QED
    BY <2>2, <1>2 DEF Registered
<1>4. Registered \subseteq DOMAIN objs
  BY <1>1 DEF Registered, Range
<1>5. TrackedObjects'
  BY <1>3, <1>1 DEF TrackedObjects
<1>6. Scope!DisposeAll
  BY <1>1, <1>3, <1>4 DEF Scope!DisposeAll
<1>7. QED
  BY <1>3, <1>5, <1>6

\* A step in which some objects are detached by their own callbacks and
\* none is created is an Update of the scope.
LEMMA RemoveStep ==
    ASSUME IInv, NEW S, attached' = attached \ S,
           UNCHANGED <<objs, cleaning>>
    PROVE  /\ attached' \subseteq DOMAIN objs'
           /\ TrackedObjects'
           /\ Scope!Update
BY DEF IInv, TypeOK, TrackedObjects, Registered, Scope!Update

\* The objects the handlers create are map objects.
LEMMA ObjType ==
    ASSUME NEW kind \in Kinds, NEW o \in Orders, NEW p \in Nat
    PROVE  Obj(kind, o, p) \in MapObject
BY DEF Obj, MapObject

LEMMA PairType ==
    ASSUME NEW a \in MapObject, NEW b \in MapObject
    PROVE  <<a, b>> \in Seq(MapObject)
BY DEF MapObject

\* The objects on the map that are point markers carry a point of the
\* response, whatever objects a step appends.
LEMMA PointsKept ==
    ASSUME IInv, NEW new \in Seq(MapObject), objs' = objs \o new,
           \A k \in 1 .. Len(new) :
               new[k].kind = "pointMarker" => new[k].point \in 0 .. NPoints - 1
    PROVE  \A i \in DOMAIN objs' :
               objs'[i].kind = "pointMarker" => objs'[i].point \in 0 .. NPoints - 1
<1>1. objs \in Seq(MapObject)
  BY DEF IInv, TypeOK
<1>2. /\ DOMAIN objs' = 1 .. Len(objs) + Len(new)
      /\ \A i \in 1 .. Len(objs) + Len(new) :
            objs'[i] = IF i <= Len(objs) THEN objs[i] ELSE new[i - Len(objs)]
  BY <1>1, ConcatProperties, LenProperties
<1>3. SUFFICES ASSUME NEW i \in 1 .. Len(objs) + Len(new),
                    objs'[i].kind = "pointMarker"
             PROVE  objs'[i].point \in 0 .. NPoints - 1
  BY <1>2
<1>4. Len(objs) \in Nat /\ Len(new) \in Nat /\ DOMAIN objs = 1 .. Len(objs)
  BY <1>1, LenProperties
<1>5. CASE i <= Len(objs)
  BY <1>2, <1>3, <1>4, <1>5 DEF IInv
<1>6. CASE ~(i <= Len(objs))
  <2>1. i - Len(objs) \in 1 .. Len(new)
    BY <1>4, <1>6
  <2>2. QED
    BY <1>2, <1>3, <1>6, <2>1
<1>7. QED
  BY <1>5, <1>6

LEMMA ChooseOrderStep ==
    ASSUME IInv, NEW o \in Orders, ChooseOrder(o)
    PROVE  IInv' /\ [Scope!Next]_Scope!scopeVars
<1> DEFINE new == <<Obj("delivery", o, 0), Obj("path", o, 0)>>
<1>1. new \in Seq(MapObject)
  BY ObjType, PairType DEF Kinds
<1>2. /\ objs' \in Seq(MapObject)
      /\ attached' \subseteq DOMAIN objs'
      /\ cleaning' \in Seq(DOMAIN objs')
      /\ TrackedObjects'
      /\ Scope!Next
  <2>1. CASE chosenOrder # Null
    <3>1. CreateOn(attached \ Registered, <<>>, new)
      BY <2>1 DEF ChooseOrder
    <3>2. QED
      BY <1>1, <3>1, CreateReset DEF Scope!Next
  <2>2. CASE chosenOrder = Null
    <3>1. CreateOn(attached, cleaning, new) /\ attached \in SUBSET attached
      BY <2>2 DEF ChooseOrder, Create
    <3>2. QED
      BY <1>1, <3>1, CreateKeep DEF Scope!Next
  <2>3. QED
    BY <2>1, <2>2
<1>3. objs' = objs \o new
  BY DEF ChooseOrder, CreateOn, Create
<1>4. \A i \in DOMAIN objs' :
          objs'[i].kind = "pointMarker" => objs'[i].point \in 0 .. NPoints - 1
  <2>1. \A k \in 1 .. Len(new) : new[k].kind # "pointMarker"
    BY DEF Obj
  <2>2. QED
    BY <1>1, <1>3, <2>1, PointsKept
<1>5. /\ timers' \in Seq(Orders) /\ Len(timers') <= chooses'
      /\ chosenOrder' \in Orders /\ chooses' \in 0 .. MaxChooses
  BY DEF ChooseOrder, IInv, TypeOK
<1>6. UNCHANGED <<listed, xhrs, requestsCount, closure, chosenLocation, chosenIndex>>
  BY DEF ChooseOrder
<1>7. QED
  BY <1>2, <1>4, <1>5, <1>6 DEF IInv, TypeOK

\* The response's onload: the closure over the response replaces the old
\* one and its line and marker per point are created and tracked.
LEMMA XhrLoadStep ==
    ASSUME IInv, NEW x \in xhrs, XhrLoad(x)
    PROVE  IInv' /\ [Scope!Next]_Scope!scopeVars
<1> DEFINE new == [k \in 1 .. 2 * NPoints |->
                     Obj(IF k % 2 = 1 THEN "pointLine" ELSE "pointMarker",
                         x.order, (k - 1) \div 2)]
<1>1. x.order \in Orders
  BY DEF IInv, TypeOK
<1>2. new \in Seq(MapObject) /\ Len(new) = 2 * NPoints
  <2>1. new \in [1 .. 2 * NPoints -> MapObject]
    <3>1. \A k \in 1 .. 2 * NPoints : (k - 1) \div 2 \in Nat
      OBVIOUS
    <3>2. \A k \in 1 .. 2 * NPoints :
            (IF k % 2 = 1 THEN "pointLine" ELSE "pointMarker") \in Kinds
      BY DEF Kinds
    <3>3. QED
      BY <1>1, <3>1, <3>2, ObjType
  <2>2. new \in Seq(MapObject)
    <3>1. 2 * NPoints \in Nat
      OBVIOUS
    <3>2. QED
      BY <2>1, <3>1, SeqDef
  <2>3. Len(new) = 2 * NPoints
    BY <2>2, LenProperties
  <2>4. QED
    BY <2>2, <2>3
<1>3. \A k \in 1 .. Len(new) :
          new[k].kind = "pointMarker" => new[k].point \in 0 .. NPoints - 1
  BY <1>2 DEF Obj
<1>4. CreateOn(attached, cleaning, new) /\ objs' = objs \o new
  BY DEF XhrLoad, DrawPath, Create, CreateOn
<1>5. /\ objs' \in Seq(MapObject)
      /\ attached' \subseteq DOMAIN objs'
      /\ cleaning' \in Seq(DOMAIN objs')
      /\ TrackedObjects'
      /\ Scope!Update
  BY <1>2, <1>4, CreateKeep
<1>6. \A i \in DOMAIN objs' :
          objs'[i].kind = "pointMarker" => objs'[i].point \in 0 .. NPoints - 1
  BY <1>2, <1>3, <1>4, PointsKept
<1>7. /\ closure' \in Closure /\ requestsCount' \in Orders
      /\ xhrs' \subseteq xhrs
      /\ UNCHANGED <<listed, chosenOrder, timers, chooses, chosenLocation, chosenIndex>>
  BY <1>1 DEF XhrLoad, DrawPath, NoClosure, Closure
<1>8. QED
  BY <1>5, <1>6, <1>7 DEF IInv, TypeOK, Scope!Next

\* clearExpectedRoute's callbacks only detach objects.
LEMMA ClearedSubset == ClearedAttached \subseteq attached
BY DEF ClearedAttached

\* A handler that detaches the objects of some of the closure's callbacks
\* and creates two objects of order o for point i: setLocation, and
\* chooseOtherLocation inside the response.
LEMMA SelectStep ==
    ASSUME IInv, NEW att \in SUBSET attached, NEW o \in Orders,
           NEW i \in 0 .. NPoints - 1,
           CreateOn(att, cleaning, <<Obj("initial", o, i), Obj("circle", o, i)>>),
           closure' = [closure EXCEPT !.window = TRUE, !.initial = {NewId(1)},
                                      !.circle = {NewId(2)}],
           chosenLocation' = <<o, i>>, chosenIndex' = i,
           UNCHANGED <<listed, chosenOrder, timers, xhrs, chooses, requestsCount>>
    PROVE  IInv' /\ [Scope!Next]_Scope!scopeVars
<1> DEFINE new == <<Obj("initial", o, i), Obj("circle", o, i)>>
<1>1. new \in Seq(MapObject)
  BY ObjType, PairType DEF Kinds
<1>2. /\ objs' \in Seq(MapObject)
      /\ attached' \subseteq DOMAIN objs'
      /\ cleaning' \in Seq(DOMAIN objs')
      /\ TrackedObjects'
      /\ Scope!Update
  BY <1>1, CreateKeep
<1>3. \A i2 \in DOMAIN objs' :
          objs'[i2].kind = "pointMarker" => objs'[i2].point \in 0 .. NPoints - 1
  <2>1. \A k \in 1 .. Len(new) : new[k].kind # "pointMarker"
    BY DEF Obj
  <2>2. objs' = objs \o new
    BY DEF CreateOn
  <2>3. QED
    BY <1>1, <2>1, <2>2, PointsKept
<1>4. /\ closure' \in Closure
      /\ chosenLocation' \in Item
      /\ chosenIndex' \in Int
  <2>1. Len(objs) \in Nat
    BY LenProperties DEF IInv, TypeOK
  <2>2. closure \in Closure
    BY DEF IInv, TypeOK
  <2>3. closure' \in Closure
    <3>1. {NewId(1)} \in SUBSET Nat /\ {NewId(2)} \in SUBSET Nat
      BY <2>1 DEF NewId
    <3>2. QED
      BY <2>2, <3>1 DEF Closure
  <2>4. chosenLocation' \in Item
    BY DEF Item
  <2>5. QED
    BY <2>3, <2>4
<1>5. QED
  BY <1>2, <1>3, <1>4 DEF IInv, TypeOK, Scope!Next

LEMMA ClickLocationStep ==
    ASSUME IInv, NEW m \in attached, ClickLocation(m)
    PROVE  IInv' /\ [Scope!Next]_Scope!scopeVars
<1>1. /\ objs[m] \in MapObject
      /\ objs[m].kind = "pointMarker"
      /\ objs[m].point \in 0 .. NPoints - 1
  BY ElementOfSeq, LenProperties DEF IInv, TypeOK, ClickLocation
<1>2. /\ objs[m].order \in Orders
      /\ <<objs[m].order, objs[m].point>>[1] = objs[m].order
  BY <1>1 DEF MapObject
<1>3. CASE closure.window
  <2>1. ClearedAttached \in SUBSET attached
    BY ClearedSubset
  <2>2. QED
    BY <1>1, <1>2, <1>3, <2>1, SelectStep DEF ClickLocation, SetLocation
<1>4. CASE ~closure.window
  BY <1>1, <1>2, <1>4, SelectStep DEF ClickLocation, SetLocation
<1>5. QED
  BY <1>3, <1>4

\* showExpectedRoute and showPrevExpectedRoute: the closure's previous
\* route is detached by its callback and the new one created and tracked.
LEMMA ShowRouteStep ==
    ASSUME IInv, NEW index \in 0 .. NPoints - 1,
           ShowExpectedRoute(index) \/ ShowPrevExpectedRoute(index)
    PROVE  IInv' /\ [Scope!Next]_Scope!scopeVars
<1>1. /\ closure \in Closure /\ Len(objs) \in Nat
      /\ closure.data # Null => closure.data \in Orders
  BY LenProperties DEF IInv, TypeOK, Closure
<1>2. {NewId(1)} \in SUBSET Nat /\ {NewId(1), NewId(2)} \in SUBSET Nat
  BY <1>1 DEF NewId
<1>3. CASE ShowExpectedRoute(index)
  <2> DEFINE new == <<Obj("expected", closure.data, index)>>
  <2>1. new \in Seq(MapObject) /\ \A k \in 1 .. Len(new) : new[k].kind # "pointMarker"
    BY <1>1, <1>3, ObjType DEF ShowExpectedRoute, Kinds, Obj
  <2>2. CreateOn(attached \ closure.expected, cleaning, new) /\ objs' = objs \o new
    BY <1>3 DEF ShowExpectedRoute, CreateOn
  <2>3. /\ objs' \in Seq(MapObject)
        /\ attached' \subseteq DOMAIN objs'
        /\ cleaning' \in Seq(DOMAIN objs')
        /\ TrackedObjects'
        /\ Scope!Update
    BY <2>1, <2>2, CreateKeep
  <2>4. \A i \in DOMAIN objs' :
          objs'[i].kind = "pointMarker" => objs'[i].point \in 0 .. NPoints - 1
    BY <2>1, <2>2, PointsKept
  <2>5. closure' \in Closure
    BY <1>1, <1>2, <1>3 DEF ShowExpectedRoute, Closure
  <2>6. QED
    BY <1>3, <2>3, <2>4, <2>5 DEF ShowExpectedRoute, IInv, TypeOK, Scope!Next
<1>4. CASE ShowPrevExpectedRoute(index)
  <2> DEFINE new == <<Obj("prevLine", closure.data, index),
                      Obj("prevMarker", closure.data, index)>>
  <2>1. new \in Seq(MapObject) /\ \A k \in 1 .. Len(new) : new[k].kind # "pointMarker"
    BY <1>1, <1>4, ObjType, PairType DEF ShowPrevExpectedRoute, Kinds, Obj
  <2>2. CreateOn(attached \ closure.prev, cleaning, new) /\ objs' = objs \o new
    BY <1>4 DEF ShowPrevExpectedRoute, CreateOn
  <2>3. /\ objs' \in Seq(MapObject)
        /\ attached' \subseteq DOMAIN objs'
        /\ cleaning' \in Seq(DOMAIN objs')
        /\ TrackedObjects'
        /\ Scope!Update
    BY <2>1, <2>2, CreateKeep
  <2>4. \A i \in DOMAIN objs' :
          objs'[i].kind = "pointMarker" => objs'[i].point \in 0 .. NPoints - 1
    BY <2>1, <2>2, PointsKept
  <2>5. closure' \in Closure
    BY <1>1, <1>2, <1>4 DEF ShowPrevExpectedRoute, Closure
  <2>6. QED
    BY <1>4, <2>3, <2>4, <2>5 DEF ShowPrevExpectedRoute, IInv, TypeOK, Scope!Next
<1>5. QED
  BY <1>3, <1>4

\* chooseOtherLocation: inside the response it is a selection; past either
\* end it only detaches (setLocation throws after clearing).
LEMMA ChooseOtherStep ==
    ASSUME IInv, NEW change \in {-1, 1}, ChooseOtherLocation(change)
    PROVE  IInv' /\ [Scope!Next]_Scope!scopeVars
<1> DEFINE index == chosenIndex + change
<1>1. /\ closure \in Closure /\ closure.data \in Orders
      /\ chosenIndex \in Int /\ index \in Int
  <2>1. closure.data # Null /\ chosenIndex \in Int
    BY DEF ChooseOtherLocation
  <2>2. closure \in Closure
    BY DEF IInv, TypeOK
  <2>3. QED
    BY <2>1, <2>2 DEF Closure
<1>2. ClearedAttached \in SUBSET attached
  BY ClearedSubset
<1>3. CASE index \in 0 .. NPoints - 1
  BY <1>1, <1>2, <1>3, SelectStep DEF ChooseOtherLocation
<1>4. CASE index \notin 0 .. NPoints - 1
  <2>1. /\ attached' = attached \ (closure.expected \cup closure.initial
                                    \cup closure.prev \cup closure.circle)
        /\ UNCHANGED <<objs, cleaning>>
    BY <1>4 DEF ChooseOtherLocation, ClearedAttached
  <2>2. /\ attached' \subseteq DOMAIN objs'
        /\ TrackedObjects'
        /\ Scope!Update
    BY <2>1, RemoveStep
  <2>3. /\ closure' \in Closure
        /\ chosenLocation' \in Item \cup {Null, Undefined}
        /\ chosenIndex' \in Int \cup {Null}
        /\ UNCHANGED <<listed, chosenOrder, timers, xhrs, chooses, requestsCount>>
    BY <1>1, <1>4 DEF ChooseOtherLocation, Closure
  <2>4. QED
    BY <2>1, <2>2, <2>3 DEF IInv, TypeOK, Scope!Next
<1>5. QED
  BY <1>3, <1>4

\* The steps that create nothing and detach nothing, or only detach.
LEMMA OtherSteps ==
    ASSUME IInv,
           \/ LoadFile \/ TimerFires \/ ClearExpectedRoute
           \/ \E x \in xhrs : XhrFail(x)
    PROVE  IInv' /\ [Scope!Next]_Scope!scopeVars
<1>1. CASE LoadFile
  BY <1>1 DEF LoadFile, IInv, TypeOK, TrackedObjects, Registered, Scope!scopeVars
<1>2. CASE TimerFires
  <2>1. timers # <<>> /\ timers \in Seq(Orders)
    BY <1>2 DEF TimerFires, IInv, TypeOK
  <2>2. /\ Head(timers) \in Orders /\ Tail(timers) \in Seq(Orders)
        /\ Len(Tail(timers)) = Len(timers) - 1
        /\ Len(timers) \in 1 .. chooses
    BY <2>1, HeadTailProperties, LenProperties, EmptySeq DEF IInv, TypeOK
  <2>3. chooses - Len(timers) + 1 \in 1 .. MaxChooses
    BY <2>2 DEF IInv, TypeOK
  <2>4. QED
    BY <1>2, <2>2, <2>3 DEF TimerFires, IInv, TypeOK, TrackedObjects,
       Registered, Scope!scopeVars
<1>3. CASE ClearExpectedRoute
  <2>1. /\ attached' \subseteq DOMAIN objs'
        /\ TrackedObjects'
        /\ Scope!Update
    BY <1>3, RemoveStep DEF ClearExpectedRoute, ClearedAttached
  <2>2. QED
    BY <1>3, <2>1 DEF ClearExpectedRoute, IInv, TypeOK, Scope!Next
<1>4. CASE \E x \in xhrs : XhrFail(x)
  BY <1>4 DEF XhrFail, IInv, TypeOK, TrackedObjects, Registered, Scope!scopeVars
<1>5. QED
  BY <1>1, <1>2, <1>3, <1>4

LEMMA InitIInv == Init => IInv /\ Scope!Init
<1> SUFFICES ASSUME Init PROVE IInv /\ Scope!Init
  OBVIOUS
<1>1. Registered = {} /\ objs \in Seq(MapObject) /\ cleaning \in Seq(DOMAIN objs)
  BY DEF Init, Registered, Range
<1>2. closure \in Closure
  BY DEF Init, NoClosure, Closure
<1>3. QED
  BY <1>1, <1>2 DEF Init, IInv, TypeOK, TrackedObjects, Scope!Init

\* Every handler and callback keeps the invariant and moves the scope by
\* an Update, a DisposeAll, or not at all.
LEMMA NextIInv ==
    IInv /\ [Next]_vars => IInv' /\ [Scope!Next]_Scope!scopeVars
<1> SUFFICES ASSUME IInv, [Next]_vars
             PROVE  IInv' /\ [Scope!Next]_Scope!scopeVars
  OBVIOUS
<1>1. ASSUME NEW o \in Orders, ChooseOrder(o) PROVE IInv' /\ [Scope!Next]_Scope!scopeVars
  BY <1>1, ChooseOrderStep
<1>2. ASSUME NEW x \in xhrs, XhrLoad(x) PROVE IInv' /\ [Scope!Next]_Scope!scopeVars
  BY <1>2, XhrLoadStep
<1>3. ASSUME NEW m \in attached, ClickLocation(m)
      PROVE IInv' /\ [Scope!Next]_Scope!scopeVars
  BY <1>3, ClickLocationStep
<1>4. ASSUME NEW index \in 0 .. NPoints - 1,
             ShowExpectedRoute(index) \/ ShowPrevExpectedRoute(index)
      PROVE IInv' /\ [Scope!Next]_Scope!scopeVars
  BY <1>4, ShowRouteStep
<1>5. ASSUME NEW change \in {-1, 1}, ChooseOtherLocation(change)
      PROVE IInv' /\ [Scope!Next]_Scope!scopeVars
  BY <1>5, ChooseOtherStep
<1>6. CASE LoadFile \/ TimerFires \/ ClearExpectedRoute \/ \E x \in xhrs : XhrFail(x)
  BY <1>6, OtherSteps
<1>7. CASE UNCHANGED vars
  BY <1>7 DEF vars, IInv, TypeOK, TrackedObjects, Registered, Scope!scopeVars
<1>8. QED
  BY <1>1, <1>2, <1>3, <1>4, <1>5, <1>6, <1>7 DEF Next

\* Every reachable state of the analyzer page is well typed.
THEOREM TypeCorrect == Spec => []TypeOK
<1>1. IInv => TypeOK
  BY DEF IInv
<1>2. QED
  BY <1>1, InitIInv, NextIInv, PTL DEF Spec

\* Whatever the order of choices, responses and clicks, every object on
\* the map has its callback in cleaningCallbacks (lines 80-84 register
\* each object as it is created; runCleanCallbacks detaches all of them).
THEOREM ObjectsTracked == Spec => []TrackedObjects
<1>1. IInv => TrackedObjects
  BY DEF IInv
<1>2. QED
  BY <1>1, InitIInv, NextIInv, PTL DEF Spec

\* The analyzer implements the disposable scope: cleaningCallbacks only
\* grows between runs of runCleanCallbacks, every object is created
\* tracked, and chooseOrder disposes of everything registered.
THEOREM ScopeImplemented == Spec => ScopeRefined
<1>1. Init => Scope!Init
  BY InitIInv
<1>2. IInv /\ [Next]_vars => [Scope!Next]_Scope!scopeVars
  BY NextIInv
<1>3. Spec => []IInv
  BY InitIInv, NextIInv, PTL DEF Spec
<1>4. QED
  BY <1>1, <1>2, <1>3, PTL DEF Spec, ScopeRefined, Scope!Spec

\* chooseOrder after a first order: every object on the map was
\* registered, so runCleanCallbacks detaches all of them, and only the two
\* objects just created, with identities past every earlier one, remain.
LEMMA ChooseClearsStep ==
    ASSUME IInv, NEW o \in Orders, ChooseOrder(o), chosenOrder # Null
    PROVE  \A id \in attached' : id > Len(objs)
<1> DEFINE new == <<Obj("delivery", o, 0), Obj("path", o, 0)>>
<1>1. new \in Seq(MapObject)
  BY ObjType, PairType DEF Kinds
<1>2. CreateOn(attached \ Registered, <<>>, new)
  BY DEF ChooseOrder
<1>3. attached' = (attached \ Registered) \cup NewIds(new)
  BY <1>2 DEF CreateOn, NewIds
<1>4. attached \ Registered = {}
  BY DEF IInv, TrackedObjects
<1>5. \A id \in NewIds(new) : id > Len(objs)
  <2>1. Len(objs) \in Nat /\ Len(new) \in Nat
    BY <1>1, LenProperties DEF IInv, TypeOK
  <2>2. QED
    BY <2>1 DEF NewIds, NewId
<1>6. QED
  BY <1>3, <1>4, <1>5

\* Choosing another order removes every object drawn before from the map:
\* right after chooseOrder only objects created by it are attached, for
\* every set of orders and every interleaving of responses, timers and
\* clicks before it (lines 86-90 run every cleaning callback).
THEOREM ChooseAlwaysClears == Spec => ChooseClearsPrevious
<1>1. IInv /\ [Next]_vars =>
        [\A o \in Orders :
            (ChooseOrder(o) /\ chosenOrder # Null) =>
                \A id \in attached' : id > Len(objs)]_vars
  BY ChooseClearsStep
<1>2. Spec => []IInv
  BY InitIInv, NextIInv, PTL DEF Spec
<1>3. QED
  BY <1>1, <1>2, PTL DEF Spec, ChooseClearsPrevious
=============================================================================
