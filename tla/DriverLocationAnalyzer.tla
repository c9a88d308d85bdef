------------------------ MODULE DriverLocationAnalyzer ------------------------
(***************************************************************************)
(* The driver-location analyzer page                                       *)
(* (src/testing/analyze_drivers_locations/analyze_drivers_locations.js).   *)
(*                                                                         *)
(* The user loads a JSON file of orders, chooses an order (its delivery    *)
(* marker and real path are drawn at once, and a 100 ms timer is set), the *)
(* timer posts the order to the simulation endpoint, and the response's    *)
(* onload runs drawPath: a dashed line and a marker per point, and a fresh *)
(* closure whose handlers ($scope.setLocation, showExpectedRoute, ...)     *)
(* replace the previous ones.  Clicking a point marker selects it (a       *)
(* marker and an accuracy circle); the expected routes of the selected     *)
(* point can be shown, and the previous/next point selected.  Every map    *)
(* object is registered in cleaningCallbacks, which chooseOrder runs.      *)
(*                                                                         *)
(* Timers, responses and clicks are callbacks of one UI thread: each is an *)
(* atomic step, but nothing orders a response after the next click.        *)
(* A map object is a record of its kind, the order it was drawn for and    *)
(* its point; its identity is its position in `objs`.  A point of the      *)
(* response is <<order, index>>.                                           *)
(***************************************************************************)
EXTENDS Integers, Sequences, FiniteSets, Functions

CONSTANTS
    Orders,       \* the orders listed in the loaded file
    NPoints,      \* points in the simulation response of an order
    BadRoute,     \* order -> the points whose bad_route_meta is not null
    Null,         \* null, and an unset callback
    Undefined,    \* data[index] past either end of the response
    MaxChooses,   \* bound on the calls of chooseOrder
    MaxObjects,   \* bound on the map objects created
    MaxLoads      \* bound on the files loaded

ASSUME AnalyzerAssumption ==
    /\ Orders # {}
    /\ NPoints \in Nat \ {0}
    /\ BadRoute \in [Orders -> SUBSET (0 .. NPoints - 1)]
    /\ Null \notin Orders /\ Undefined \notin Orders \X Nat /\ Null # Undefined
    /\ MaxChooses \in Nat /\ MaxObjects \in Nat /\ MaxLoads \in Nat

VARIABLES
    listed,        \* times the file's drivers were pushed to $scope.drivers
    chosenOrder,   \* $scope.chosenOrder
    objs,          \* every map object created, by creation order
    attached,      \* the objects on the map
    cleaning,      \* cleaningCallbacks: a stack of objects to detach
    timers,        \* pending setTimeout(loadPathData) callbacks, FIFO
    xhrs,          \* requests to the simulation endpoint in flight
    chooses,       \* calls of chooseOrder so far
    requestsCount, \* the order whose newRequestsCount is shown, or Null
    closure,       \* the latest drawPath closure's data and callbacks
    chosenLocation,\* $scope.chosenLocation
    chosenIndex    \* $scope.chosenLocationIndex

vars == <<listed, chosenOrder, objs, attached, cleaning, timers, xhrs, chooses,
          requestsCount, closure, chosenLocation, chosenIndex>>

Kinds == {"delivery", "path", "pointLine", "pointMarker", "expected",
          "prevLine", "prevMarker", "initial", "circle"}

MapObject == [kind : Kinds, order : Orders, point : Nat]

Item == Orders \X (0 .. NPoints - 1)

\* The closure of one drawPath call: its data and the callbacks it holds,
\* each the set of objects it detaches ({} for a null callback).
Closure == [data : Orders \cup {Null}, expected : SUBSET Nat,
            prev : SUBSET Nat, initial : SUBSET Nat, circle : SUBSET Nat,
            window : BOOLEAN]

NoClosure == [data |-> Null, expected |-> {}, prev |-> {}, initial |-> {},
              circle |-> {}, window |-> FALSE]

\* The identity the k-th object created by a step gets.
NewId(k) == Len(objs) + k

\* Create the objects of `new`, in order, on a map holding `att`: each is
\* put on the map and its cleaning callback pushed onto `stack`
\* (addCleanCallbacks, lines 80-84).
CreateOn(att, stack, new) ==
    /\ Len(objs) + Len(new) <= MaxObjects
    /\ objs' = objs \o new
    /\ attached' = att \cup {NewId(k) : k \in 1 .. Len(new)}
    /\ cleaning' = stack \o [k \in 1 .. Len(new) |-> NewId(k)]

Create(new) == CreateOn(attached, cleaning, new)

Obj(kind, o, p) == [kind |-> kind, order |-> o, point |-> p]

\* The objects whose callbacks are in cleaningCallbacks; runCleanCallbacks,
\* lines 75-79, pops and runs every one of them.
Registered == Range(cleaning)

\* clearExpectedRoute, lines 160-175: run the closure's callbacks of the
\* expected route, the selection marker, the previous expected route and
\* the circle; the callbacks themselves stay set.
ClearedAttached == attached \ (closure.expected \cup closure.initial
                                \cup closure.prev \cup closure.circle)

Init ==
    /\ listed = 0
    /\ chosenOrder = Null
    /\ objs = <<>>
    /\ attached = {}
    /\ cleaning = <<>>
    /\ timers = <<>>
    /\ xhrs = {}
    /\ chooses = 0
    /\ requestsCount = Null
    /\ closure = NoClosure
    /\ chosenLocation = Null
    /\ chosenIndex = Null

\* $scope.loadFile, lines 308-327: the reader's onload groups the orders by
\* driver and pushes every driver onto $scope.drivers (never emptied).
LoadFile ==
    /\ listed < MaxLoads
    /\ listed' = listed + 1
    /\ UNCHANGED <<chosenOrder, objs, attached, cleaning, timers, xhrs, chooses,
                   requestsCount, closure, chosenLocation, chosenIndex>>

\* Mutant: chooseOrder does not call runCleanCallbacks (line 88 dropped).
ChooseOrderNoClean(o) ==
    /\ listed >= 1
    /\ chooses < MaxChooses
    /\ Create(<<Obj("delivery", o, 0), Obj("path", o, 0)>>)
    /\ chosenOrder' = o
    /\ timers' = Append(timers, o)
    /\ chooses' = chooses + 1
    /\ UNCHANGED <<listed, xhrs, requestsCount, closure, chosenLocation, chosenIndex>>

\* Mutant: the timer is queued with $scope.chosenOrder read before line 91
\* assigns it, so it loads the previously chosen order (or none).
ChooseOrderStaleTimer(o) ==
    /\ listed >= 1
    /\ chooses < MaxChooses
    /\ LET new == <<Obj("delivery", o, 0), Obj("path", o, 0)>> IN
       IF chosenOrder # Null
       THEN CreateOn(attached \ Registered, <<>>, new)
       ELSE Create(new)
    /\ chosenOrder' = o
    /\ timers' = Append(timers, chosenOrder)
    /\ chooses' = chooses + 1
    /\ UNCHANGED <<listed, xhrs, requestsCount, closure, chosenLocation, chosenIndex>>

\* $scope.chooseOrder, lines 86-119: run every cleaning callback if an
\* order was chosen, draw the delivery marker and the real path, and set a
\* 100 ms timer for loadPathData.
ChooseOrder(o) ==
    /\ listed >= 1
    /\ chooses < MaxChooses
    /\ LET new == <<Obj("delivery", o, 0), Obj("path", o, 0)>> IN
       IF chosenOrder # Null
       THEN CreateOn(attached \ Registered, <<>>, new)
       ELSE Create(new)
    /\ chosenOrder' = o
    /\ timers' = Append(timers, o)
    /\ chooses' = chooses + 1
    /\ UNCHANGED <<listed, xhrs, requestsCount, closure, chosenLocation, chosenIndex>>

\* Mutant: line 118 uses setInterval: the callback stays scheduled and
\* posts the order again every 100 ms.
TimerFiresInterval ==
    /\ timers # <<>>
    /\ xhrs' = xhrs \cup {[n |-> chooses - Len(timers) + 1, order |-> Head(timers)]}
    /\ UNCHANGED <<listed, chosenOrder, objs, attached, cleaning, timers, chooses,
                   requestsCount, closure, chosenLocation, chosenIndex>>

\* The timer fires, lines 121-127: loadPathData posts the order.
TimerFires ==
    /\ timers # <<>>
    /\ timers' = Tail(timers)
    /\ xhrs' = xhrs \cup {[n |-> chooses - Len(timers) + 1, order |-> Head(timers)]}
    /\ UNCHANGED <<listed, chosenOrder, objs, attached, cleaning, chooses,
                   requestsCount, closure, chosenLocation, chosenIndex>>

\* drawPath(data), lines 143-150 and 273-299: a fresh closure over the data
\* replaces the $scope handlers; a dashed line and a marker per point.
DrawPath(o) ==
    /\ closure' = [NoClosure EXCEPT !.data = o]
    /\ Create([k \in 1 .. 2 * NPoints |->
                 Obj(IF k % 2 = 1 THEN "pointLine" ELSE "pointMarker",
                     o, (k - 1) \div 2)])

\* The request's onload with status 200, lines 128-140: show the
\* response's request count, then drawPath.
XhrLoad(x) ==
    /\ requestsCount' = x.order
    /\ DrawPath(x.order)
    /\ xhrs' = xhrs \ {x}
    /\ UNCHANGED <<listed, chosenOrder, timers, chooses, chosenLocation, chosenIndex>>

\* The request fails or answers another status, lines 129-131: nothing.
XhrFail(x) ==
    /\ xhrs' = xhrs \ {x}
    /\ UNCHANGED <<listed, chosenOrder, objs, attached, cleaning, timers, chooses,
                   requestsCount, closure, chosenLocation, chosenIndex>>

\* Mutant: the selection marker is not registered with addCleanCallbacks.
SetLocationUntracked(item, i) ==
    /\ Len(objs) + 2 <= MaxObjects
    /\ objs' = objs \o <<Obj("initial", item[1], i), Obj("circle", item[1], i)>>
    /\ attached' = (IF closure.window THEN ClearedAttached ELSE attached)
                       \cup {NewId(1), NewId(2)}
    /\ cleaning' = Append(cleaning, NewId(2))
    /\ closure' = [closure EXCEPT !.window = TRUE, !.initial = {NewId(1)},
                                  !.circle = {NewId(2)}]
    /\ chosenLocation' = item
    /\ chosenIndex' = i

\* $scope.setLocation(item, i) of the latest closure, lines 234-271: run the
\* window callback (clearExpectedRoute) if set, set it, draw the selection
\* marker and the accuracy circle.
SetLocation(item, i) ==
    /\ CreateOn(IF closure.window THEN ClearedAttached ELSE attached, cleaning,
                <<Obj("initial", item[1], i), Obj("circle", item[1], i)>>)
    /\ closure' = [closure EXCEPT !.window = TRUE, !.initial = {NewId(1)},
                                  !.circle = {NewId(2)}]
    /\ chosenLocation' = item
    /\ chosenIndex' = i

\* A click on a point marker, lines 294-298: the listener calls the
\* current $scope.setLocation with the point the marker was drawn for.
ClickLocation(m) ==
    /\ objs[m].kind = "pointMarker"
    /\ SetLocation(<<objs[m].order, objs[m].point>>, objs[m].point)
    /\ UNCHANGED <<listed, chosenOrder, timers, xhrs, chooses, requestsCount>>

\* $scope.clearExpectedRoute, lines 160-175.
ClearExpectedRoute ==
    /\ closure.data # Null
    /\ attached' = ClearedAttached
    /\ chosenLocation' = Null
    /\ chosenIndex' = Null
    /\ UNCHANGED <<listed, chosenOrder, objs, cleaning, timers, xhrs, chooses,
                   requestsCount, closure>>

\* $scope.showExpectedRoute(index), lines 177-199: replace the expected
\* route of the closure by the point's.
ShowExpectedRoute(index) ==
    /\ closure.data # Null
    /\ CreateOn(attached \ closure.expected, cleaning,
                <<Obj("expected", closure.data, index)>>)
    /\ closure' = [closure EXCEPT !.expected = {NewId(1)}]
    /\ UNCHANGED <<listed, chosenOrder, timers, xhrs, chooses, requestsCount,
                   chosenLocation, chosenIndex>>

\* $scope.showPrevExpectedRoute(index), lines 201-232, for a point whose
\* bad_route_meta is set (otherwise it returns at once).
ShowPrevExpectedRoute(index) ==
    /\ closure.data # Null
    /\ index \in BadRoute[closure.data]
    /\ CreateOn(attached \ closure.prev, cleaning,
                <<Obj("prevLine", closure.data, index),
                  Obj("prevMarker", closure.data, index)>>)
    /\ closure' = [closure EXCEPT !.prev = {NewId(1), NewId(2)}]
    /\ UNCHANGED <<listed, chosenOrder, timers, xhrs, chooses, requestsCount,
                   chosenLocation, chosenIndex>>

\* $scope.chooseOtherLocation(change), lines 152-158: clearExpectedRoute,
\* then setLocation(data[index], index).  Past either end data[index] is
\* undefined and setLocation throws reading item.coordinate (line 247),
\* after it has run and replaced the window callback.
ChooseOtherLocation(change) ==
    /\ closure.data # Null
    /\ chosenIndex \in Int
    /\ LET index == chosenIndex + change IN
       IF index \in 0 .. NPoints - 1
       THEN /\ CreateOn(ClearedAttached, cleaning,
                        <<Obj("initial", closure.data, index),
                          Obj("circle", closure.data, index)>>)
            /\ closure' = [closure EXCEPT !.window = TRUE, !.initial = {NewId(1)},
                                          !.circle = {NewId(2)}]
            /\ chosenLocation' = <<closure.data, index>>
            /\ chosenIndex' = index
       ELSE /\ attached' = ClearedAttached
            /\ closure' = [closure EXCEPT !.window = TRUE]
            /\ chosenLocation' = IF closure.window THEN Null ELSE Undefined
            /\ chosenIndex' = IF closure.window THEN Null ELSE index
            /\ UNCHANGED <<objs, cleaning>>
    /\ UNCHANGED <<listed, chosenOrder, timers, xhrs, chooses, requestsCount>>

Next ==
    \/ LoadFile
    \/ \E o \in Orders : ChooseOrder(o)
    \/ TimerFires
    \/ \E x \in xhrs : XhrLoad(x) \/ XhrFail(x)
    \/ \E m \in attached : ClickLocation(m)
    \/ ClearExpectedRoute
    \/ \E index \in 0 .. NPoints - 1 : ShowExpectedRoute(index) \/ ShowPrevExpectedRoute(index)
    \/ \E change \in {-1, 1} : ChooseOtherLocation(change)

Spec == Init /\ [][Next]_vars

\* The browser runs every setTimeout callback once its delay is over, and
\* every XMLHttpRequest sent ends in a load or an error event; the user's
\* clicks and choices are not assumed to happen.
Fairness ==
    /\ WF_vars(TimerFires)
    /\ \A x \in [n : 1 .. MaxChooses, order : Orders] :
           WF_vars(x \in xhrs /\ (XhrLoad(x) \/ XhrFail(x)))

FairSpec == Spec /\ Fairness

\* cleaningCallbacks seen as a scope of disposable handles.
Scope == INSTANCE DisposableScope WITH handles <- Registered, live <- attached

-----------------------------------------------------------------------------
TypeOK ==
    /\ listed \in 0 .. MaxLoads
    /\ chosenOrder \in Orders \cup {Null}
    /\ objs \in Seq(MapObject)
    /\ attached \subseteq DOMAIN objs
    /\ cleaning \in Seq(DOMAIN objs)
    /\ timers \in Seq(Orders)
    /\ xhrs \subseteq [n : 1 .. MaxChooses, order : Orders]
    /\ chooses \in 0 .. MaxChooses
    /\ requestsCount \in Orders \cup {Null}
    /\ closure \in Closure
    /\ chosenLocation \in Item \cup {Null, Undefined}
    /\ chosenIndex \in Int \cup {Null}

(***************************************************************************)
(* Every object on the map has its callback in cleaningCallbacks, so the   *)
(* next chooseOrder removes it, whichever of the closure's callbacks have  *)
(* already run and however the clicks and responses interleave.            *)
(***************************************************************************)
TrackedObjects ==
    attached \subseteq Registered

(***************************************************************************)
(* Choosing an order (after the first) removes from the map every object   *)
(* drawn before: right after chooseOrder only the new delivery marker and  *)
(* real path are on the map.                                               *)
(***************************************************************************)
ChooseClearsPrevious ==
    [][\A o \in Orders :
         (ChooseOrder(o) /\ chosenOrder # Null) =>
             \A id \in attached' : id > Len(objs)]_vars

(***************************************************************************)
(* cleaningCallbacks implements a disposable scope: an object is put on    *)
(* the map only together with its cleaning callback, an object leaves the  *)
(* map only through a registered callback, the list only grows until       *)
(* chooseOrder runs it all, and running it detaches everything registered. *)
(***************************************************************************)
ScopeRefined == Scope!Spec

(***************************************************************************)
(* Every request the page makes is eventually answered and drawn or lost,  *)
(* and no timer stays pending: once the user stops choosing orders, the    *)
(* page stops loading (under the browser's guarantees of Fairness).        *)
(***************************************************************************)
LoadingEnds == <>[](timers = <<>> /\ xhrs = {})

(***************************************************************************)
(* Spec 5: a response of the simulation endpoint is drawn for the order it *)
(* was requested for; every object on the map belongs to the chosen order. *)
(***************************************************************************)
ObjectsOfChosenOrder ==
    \A id \in attached : objs[id].order = chosenOrder

(***************************************************************************)
(* The location panel shows a point of the chosen order, or nothing.       *)
(***************************************************************************)
SelectionOfChosenOrder ==
    chosenLocation \in Item => chosenLocation[1] = chosenOrder
=============================================================================
