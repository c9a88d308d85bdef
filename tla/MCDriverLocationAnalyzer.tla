-------------------- MODULE MCDriverLocationAnalyzer --------------------
(* Two orders of two points each; order o1's second point has a          *)
(* bad_route_meta.                                                      *)
EXTENDS DriverLocationAnalyzer, TLC

CONSTANTS o1, o2

MCOrders == {o1, o2}
MCBadRoute == (o1 :> {1}) @@ (o2 :> {})
=============================================================================
