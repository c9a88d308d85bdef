# TLA+ models of the delivery_api admin front-end scripts

The repository's `src/` holds the browser-side scripts of the delivery
back-office: Django-admin form helpers that refill dependent selects over
ajax, Google-Maps pages that draw optimised routes, clusters, order paths and
geofences, and a testing page that replays a driver's recorded locations.
Each script runs in one browser tab on the single JavaScript event loop, so
every event handler and every callback runs to completion before the next:
the interleavings that matter are the orders in which user events, timers and
network responses are dispatched, never two handlers at once.  That is the
grain of these models: one TLA+ action per handler or callback, with the
in-flight requests and pending timers as state.

## Inventory

| Part | Source | State | Operations | What makes it correct |
|---|---|---|---|---|
| Route renderer | `route_optimisation/.../routes.js` | map primitives (`mapObjects`), legend rows, `enabledClusters`, colour index | `initMap`, draw button (`clear` + `drawRoutes`), legend checkbox change | a redraw leaves only the new pass's primitives; each cluster has one wired legend row; tour colours are palette entries and distinct while there are enough |
| Group manager form | `base/static/js/groupManagerAdmin.js` | role, merchant select (options, selection, disabled), sub-brand select, show-only checkbox, requests in flight | document ready, role change, merchants change, their three success callbacks | a disabled select is empty; the show-only checkbox follows the sub-brand select; once settled the selects match the selected role |
| Driver hub form | `merchant/static/hub/driverHubAdmin.js` | hub and driver selects, requests in flight | merchant change and its callback | each select lists some merchant's records (an answer for a merchant no longer selected can land last: the same stale-answer race as the group manager's; not given a run of its own) |
| Survey results form | `merchant_extension/static/survey/surveyResultsAdmin.js` | merchant and sub-brand selects, requests in flight | window load, survey change, merchant change | the selects list what the selected survey / merchants allow |
| Driver location analyzer | `testing/analyze_drivers_locations/...js` | objects on the map, the cleaning-callback stack, the 100 ms timers, XHRs in flight, the `drawPath` closure and its callbacks, the selected location | `loadFile`, `chooseOrder`, timer, XHR load/fail, marker click, `setLocation`, `clearExpectedRoute`, `showExpectedRoute`, `showPrevExpectedRoute`, `chooseOtherLocation` | choosing an order removes everything drawn before; every drawn object can be removed; what is shown belongs to the chosen order |
| Cluster map | `route_optimisation/.../clustering.js` | markers, legend rows | `initMap` (once) | colours are palette entries and, while there are enough, tell the clusters apart |
| Order route map | `tasks/static/order/routes.js` | shown map, markers, polylines, legend | `initMap` (once) | none checked: the page is one handler, and any property would restate it; the model's outcomes (world map only, throw at line 16, route map with `undefined` markers for an empty path) are reached by `maps_pass` |
| Order geofence map | `tasks/static/order/geofences.js` | event markers, legend | `initMap` (once) | events of known kinds are all drawn, with icons the legend explains |

The hard behaviours are: responses applied in arrival order rather than
request order (every `$.ajax` and the analyzer's XHR), requests that fail
silently (no error callbacks), a handler that throws half-way and leaves its
work partly done (`drawRoutes`, `chooseOtherLocation`), closures that outlive
the state they captured (`drawPath`), and arithmetic at its edges (the colour
stride when there are more tours than colours).

## Modules

* `RouteRenderer` (+ `MCRouteRenderer`, `RouteRendererProofs`).  State:
  `clusters` (the page's data: per cluster a sequence of tours, each with a
  point count and the first point, if any, whose drawing throws because its
  driver or job lookup failed), `enabledClusters`, `mapObjects` (the JS
  array), `onMap` (primitives attached to the map), `legend` (the legend's
  rows, each with its cluster, checked state and whether a change listener is
  wired to it), `toursToShow`, `pass` (how many times `drawRoutes` ran).
  Actions: `InitMap` (lines 137-243), `ClickDraw` (165-168: `clear` then
  `drawRoutes`, as one step), `ToggleCheckbox(i)` (158-163).  `drawRoutes`
  is computed, not stepped: `Drawn` is the set of primitives it creates
  before the first throwing point (`Reached`, `Completed`), `ColorOf` the
  colour index `k * floor(P / T)` of the k-th shown tour, `AppendRows` the
  rows it appends and which of them `getCheckboxListener` wires (the first
  element with that id, `FirstRow`).
* `GroupManager` (+ `MCGroupManager`, `GroupManagerProofs`).  The selects are abstracted to which
  role's merchant list they show (`merchantOpts`), which merchants are
  selected, and which (role, merchants) pair the sub-brand list was computed
  for.  The backend is the constants `MerchantDisabledFor`,
  `SubBrandDisabledFor`, `MerchantsFor`.  Requests in flight are the set
  `pending` of records carrying what the request sent; `Respond(q)` runs the
  callback of any of them, `Fail(q)` drops one (no error callback exists).
* `DriverLocationAnalyzer` (+ `MCDriverLocationAnalyzer`).  Every Maps
  object created gets an identity (its index in `objs`); `attached` is the set
  on the map; `cleaning` is `cleaningCallbacks` as a stack of identities;
  `closure` is the latest `drawPath` closure: its data and the objects each of
  its callbacks (`currentExpectedRouteCB`, ...) would detach.  `timers` is the
  FIFO queue of `setTimeout(loadPathData)`, `xhrs` the set of requests in
  flight (answered in any order, or failing).  `Registered` is the set of
  objects some cleaning callback detaches.
* `DisposableScope`: what the cleaning-callback list promises, without the
  list: `handles` (registered objects) and `live` (objects on the map);
  `Update` creates fresh objects, registered and attached, and lets
  registered ones be detached; `DisposeAll` detaches every registered
  object and empties the scope.  The analyzer implements it under
  `handles <- Registered, live <- attached` (`Scope` in
  `DriverLocationAnalyzer`): `chooseOrder` is a `DisposeAll`, every other
  handler an `Update` or a stutter.
* `DriverHub` (+ `MCDriverHub`).  The hub and driver selects are the sets
  of merchants whose records they list (every merchant, as rendered, or the
  one answered for).  `ChangeMerchant(m)` is lines 6-13, `Respond(q)` runs
  the success callback (`Success`, lines 14-25) of any request in flight,
  `Fail(q)` loses one.
* `SurveyResults` (+ `MCSurveyResults`).  `merchantOpts` is the survey whose
  merchants the merchant select lists (or `Cleared`), `subBrandOpts` the
  (survey, merchants) pair the sub-brand list was asked for.  Actions:
  `WindowLoad` (lines 7-11, once, at any time), `ChangeSurvey`,
  `ChangeMerchants` (which reads `#id_survey` at the time of the change, line
  37), and the two success callbacks.  The rendered form is assumed
  consistent (its merchant list is the shown survey's), so that every
  violation found comes from the script's event handling.
* `ClusterMap`, `OrderRouteMap`, `GeofenceMap`: the pages that draw once.
  Each has the page's data as a variable chosen by `Init` from a bounded
  set, and one action `InitMap` for the whole of `initMap` with each of its
  outcomes: the cluster map alerts on an empty page, throws on a first
  cluster without jobs (line 139), or draws every cluster's job and driver
  markers and legend row in colour `ColorStep * index`; the route map shows
  the world map alone without a `realPath`, throws at line 16 on a null
  `filteredPath`, or draws the second map with markers at `realPath[0]` and
  `realPath[length-1]` (`"undefined"` for an empty path), both polylines
  and the legend; the geofence map draws the events up to the first whose
  `eventsNameMap` / `images` lookup fails (lines 65, 69) and the legend only
  if none fails.  `MCStaticMaps` extends `ClusterMap`, instantiates the two
  others with renamed variables, and lets `page` pick which page a
  behaviour loads (the pages share nothing, so their product would only
  multiply the states).

Planned next: an abstract specification of the dropdown forms ("the
selects show the answer to the latest request"), with the request-token fix
of spec section 9 as the refinement that meets it; it would also cover the
driver hub's stale-answer race, which has no run of its own.

## Runs

| Run | Checks | Result |
|---|---|---|
| `rr_pass` | `TypeOK`, `NoStalePrimitives`, `LegendWired`, `ColorsWithinPalette`, `DistinctTourColors` | pass, 46,765 states |
| `rr_legend` | `LegendComplete` | violated: a driverless tour in cluster 0 removes cluster 1's legend row |
| `gm_pass` | `TypeOK` (includes: selected merchants are options of the select), `MerchantTwoState`, `ShowOnlyFollowsSubBrand`, with lost requests | pass, 1,599 states |
| `gm_settled` | `SettledMerchantsMatchRole` | violated: the document-ready answer (for the role rendered at load) arrives after the answer to a role change and disables the merchant select for the old role |
| `gm_subbrand` | `SubBrandTwoState` | violated: the document-ready response arrives after a role response disabled the sub-brand select and fills it |
| `dla_pass` | `TypeOK`, `ScopeRefined` (the analyzer implements `DisposableScope`), `ChooseClearsPrevious` (action property), `LoadingEnds` (liveness, under `FairSpec`) | pass, 41,646 states |
| `dla_objects` | `ObjectsOfChosenOrder` | violated: the response for the first order is drawn after the second is chosen |
| `dla_selection` | `SelectionOfChosenOrder` | violated: the selected location survives `chooseOrder` |
| `hub_pass` | `TypeOK` (each select lists some merchant's records), with lost requests | pass, 181 states (symmetry over merchants) |
| `survey_pass` | `TypeOK` (includes: selected merchants are options of the select), with lost requests | pass, 2,273 states |
| `survey_listed` | `SubBrandsOfListedMerchants` | violated: a merchants answer arrives after `window.load` emptied the merchant list |
| `maps_pass` | `TypeOK`, `ColorsWithinPalette`, `ColorsIdentifyClusters` (cluster map), `KnownEventsDrawn` (geofence map) | pass, 17,656 states |

Bounds.  Route renderer: 2 clusters, up to 2 tours each with up to 2 points,
a palette of 3 colours (so 4 tours overflow it and the stride becomes 0),
3 draw passes: enough for a throw in either cluster, a toggle between
passes, and both stride regimes.  Group manager: 3 roles covering the three
backend answers (everything enabled; sub-brands disabled; both disabled),
2 merchants, 3 requests: enough for load + two role changes, or a role and a
merchants change, to race.  Analyzer: 2 orders of 2 points (one with a bad
route meta), 2 order choices, 13 objects: two choose/draw cycles (12 objects),
or one with a location click before the second choice (the second draw is
then cut by the bound).  Driver hub: 3 merchants and 4 requests, so that two
answers race while a third merchant is selected; merchants are symmetric.
Survey results: 2 surveys with different merchant lists, 2 merchants, 3
requests: a survey change, a merchants change and a second survey change.
Static maps: a palette of 2 colours and up to 3 clusters (so both the
exact-fit and the overflowing stride, where colours repeat, occur), clusters
of 0 or 1 job and 0 or 1 driver with every start/end kind; paths of up to 2
of 2 points or null; up to 2 events over both known fields, an unknown one,
and values including the unknown `"true"`, so the abort happens at the
first and at the second event.

Every property of a passing run has a mutant (PROJECT.json) that a plausible
bug in the mapped code would cause and that TLC catches.

Deadlock is not checked: each page ends idle once the bounded user events
are used up and the responses are in, which is the normal end of a page.

Fairness.  User events are never assumed to happen.  The one liveness
property, the analyzer's `LoadingEnds` (eventually no timer is pending and
no request is in flight, for good), is checked under `FairSpec`: weak
fairness of `TimerFires` (the browser runs a due `setTimeout` callback) and
of each request's load-or-error (an `XMLHttpRequest` ends with `onload` or
`onerror`; the analyzer sets no timeout, so this assumes the network and the
browser eventually answer).  The dropdown forms' `$.ajax` calls have no
error callback, so a lost request really is never heard of again, and no
liveness is claimed for them.

## Proofs

`RouteRendererProofs` proves, for every value of the constants satisfying
`ConstantsAssumption` (at least one cluster, a non-empty palette, at least
one draw pass):

* `TypeCorrect`: `Spec => []TypeOK`;
* `ColorsInPalette`: `Spec => []ColorsWithinPalette`, i.e. the colour index
  `k * floor(P / T)` of the k-th of T shown tours stays below P.

Neither invariant is inductive alone (a step's colours can only be bounded
when the clusters' data are known to be well typed, and the type of the
primitives kept needs their colours), so both are proved from
`IInv == TypeOK /\ ColorsWithinPalette`; the argument
rests on `EarlierCount` (a tour has fewer than T tours before it, counted with
`Cardinality` over a finite set) and `StrideBound` (`k < T` implies
`k * (P \div T) < P`, split on whether the stride is 0).  The legend's type
rests on `AppendRowsType` (concatenation of sequences of rows).

It also proves the three other invariants `rr_pass` checks:

* `ClearBeforeDraw`: `Spec => []NoStalePrimitives`.  The invariant is
  inductive given `IInv`: `ClearedMap = onMap \ mapObjects` is empty
  because the invariant puts `onMap` inside `mapObjects`, and a pass adds
  only primitives of the new pass (`DrawnType`).
* `LegendAlwaysWired`: `Spec => []LegendWired`.  `FreshLegend` shows what
  `drawRoutes` appends to the emptied legend: row i is cluster i - 1's,
  shows `en[i - 1]` and is wired, because `FirstRow` of cluster i - 1 is i
  itself.  A toggle flips one row and, the listener being wired, copies it
  into `enabledClusters`; row uniqueness keeps the other rows true.
* `ToursTellApart`: `Spec => []DistinctTourColors`.  The property speaks of
  `toursToShow`, which a toggle does not change although it changes
  `enabledClusters`, so it is proved from
  `DrawnWith == \E en : toursToShow = Cardinality(EnabledTours(en)) /\
  onMap \subseteq Drawn(en, pass)` (the enabled state of the last pass
  existed), together with `NoStalePrimitives` (so a click's cleared map is
  empty).  `ColorOfStrict` does the arithmetic: a tour visited earlier has
  strictly fewer tours before it (`FS_Subset`, `FS_RemoveElement`) and, with
  `toursToShow <= P`, the stride is at least 1.  `DrawnWith` was
  model-checked as an invariant before it was proved.

`GroupManagerProofs` proves, under `GroupManagerAssumption` (the backend's
answers are functions of the role, `NoOptions` is not a role):

* `TypeCorrect`: `Spec => []TypeOK`, including that the selected merchants
  are options of the merchant select;
* `MerchantSelectTwoState`: `Spec => []MerchantTwoState`;
* `ShowOnlyTracksSubBrand`: `Spec => []ShowOnlyFollowsSubBrand`.

The three are proved together from `IInv == TypeOK /\ MerchantTwoState /\
ShowOnlyFollowsSubBrand`: the document-ready callback leaves an enabled
merchant select alone, so it keeps its emptiness only because the previous
state had it (`MerchantTwoState` is needed before the step), and every
response's fields are typed only because `pending` holds well-formed
requests (`TypeOK`).  The proof has one case per handler and per callback
kind, and inside each callback one per backend answer.

`DriverLocationAnalyzerProofs` proves, under `AnalyzerAssumption`:

* `TypeCorrect`: `Spec => []TypeOK`;
* `ObjectsTracked`: `Spec => []TrackedObjects` (every object on the map is
  registered in `cleaningCallbacks`);
* `ScopeImplemented`: `Spec => ScopeRefined`, i.e. the analyzer implements
  `DisposableScope` under the mapping above.

All three rest on `IInv == TypeOK /\ TrackedObjects /\ Len(timers) <=
chooses /\ (every point marker's point is a point of the path)`.  The timer
bound is needed because `TimerFires` reads the head of the queue; the
point bound because `setLocation` indexes the path with the clicked
marker's point.  `NextIInv` shows in one lemma that every step keeps `IInv`
and is a `DisposableScope` step or stutter: per handler, `CreateKeep` (new
objects are pushed onto the stack as they are attached) gives `Update`, and
`CreateReset` (`chooseOrder` runs and empties the stack first) gives
`DisposeAll`.  `ChooseAlwaysClears` proves the action property
`Spec => ChooseClearsPrevious` from `[]IInv`: after a first order, every
attached object is registered (`TrackedObjects`), so `runCleanCallbacks`
detaches all of them and only the two new objects, numbered past
`Len(objs)`, remain.

`ClusterMapProofs` proves, under `ClusterMapAssumption` (a non-empty
palette): `TypeCorrect`, `ColorsInPalette` (`Spec => []ColorsWithinPalette`)
and `ColorsTellClustersApart` (`Spec => []ColorsIdentifyClusters`).  The
invariant is strengthened to `IInv`: every marker belongs to a cluster of
the page and has its colour, and legend row i is cluster i - 1's, in its
colour, because the colour properties speak of colours and only the
cluster indices behind them can be bounded.  `StrideInPalette` (c < n gives
c * floor(P / n) < P) bounds the colours, `StrideInjective` (n <= P gives a
stride of at least 1, so equal strides mean equal indices) separates them.

`DriverHubProofs` proves, under `DriverHubAssumption`, `TypeCorrect`: each
of the hub and driver selects always lists the records of some merchant
(a merchant without hubs still gives no options).  `TypeOK` is inductive as
it stands: the success callback refills both selects from the merchant of a
well-formed request, and the other steps leave them alone.

`SurveyResultsProofs` proves `TypeCorrect` for the survey form; its
`TypeOK` includes that the selected merchants are options of the merchant
select, and is inductive as it stands (the survey callback empties the
selection with the options; a change only picks listed options).  Boolean
record fields are handled by Zenon in separate steps.

`StaticMapsProofs` proves, about `MCStaticMaps`,
`KnownEventsAlwaysDrawn` (`MCSpec => []KnownEventsDrawn`, from `GeoInv`: the
events are a sequence).  The latter rests on `TablesAgree`: every name of
`eventsNameMap` is a key of `images`.  `eventsNameMap` is written as the
record it is in the source, which the provers can expand.

Only model-checked: `LoadingEnds` (liveness, under fairness: TLAPS does not
reason about `ENABLED` and fairness here), and the properties of the
violation runs (`LegendComplete`, `SettledMerchantsMatchRole`,
`SubBrandTwoState`, `ObjectsOfChosenOrder`, `SelectionOfChosenOrder`,
`SubBrandsOfListedMerchants`), which are false of the code.  No recursive
definitions are used.

## Not modelled

The marker and title helpers of `routes.js` (formatting), the map widgets
themselves (a primitive is a record), the positions, titles, labels and
random jitter of the static maps' markers, the geofence map's address marker
and circle (drawn unconditionally before anything can fail), the file
parsing of `loadFile` (a counter of loads), `getLocationIcon`, the AngularJS
digest cycle, and the Django backend (its answers are constants of the
models).
