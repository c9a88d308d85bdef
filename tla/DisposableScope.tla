--------------------------- MODULE DisposableScope ---------------------------
(***************************************************************************)
(* What the analyzer's cleaningCallbacks list promises, stated without the *)
(* list: a scope of disposable handles.  Every object put on the map is    *)
(* registered in the scope when it is created; a single callback may       *)
(* detach a registered object at any time (and may run again: detaching   *)
(* is idempotent); disposing the scope detaches everything registered and  *)
(* empties it.  Objects are identified by numbers.                         *)
(***************************************************************************)
EXTENDS Naturals

VARIABLES
    handles,   \* the objects registered in the scope
    live       \* the objects on the map

scopeVars == <<handles, live>>

Init ==
    /\ handles = {}
    /\ live = {}

\* Some registered objects are detached by their own callbacks, and fresh
\* objects are created, each put on the map and registered.
Update ==
    LET fresh == handles' \ handles IN
    /\ handles \subseteq handles'
    /\ fresh \cap live = {}
    /\ fresh \subseteq live'
    /\ live' \subseteq live \cup fresh
    /\ live \ live' \subseteq handles

\* The whole scope is disposed of, then fresh objects are created in it.
DisposeAll ==
    /\ handles' \cap (handles \cup live) = {}
    /\ live' = (live \ handles) \cup handles'

Next == Update \/ DisposeAll

Spec == Init /\ [][Next]_scopeVars

\* Nothing is on the map that the scope cannot dispose of.
Contained == live \subseteq handles
=============================================================================
