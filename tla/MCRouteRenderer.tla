------------------------- MODULE MCRouteRenderer -------------------------
(* Small instance of RouteRenderer for TLC.  A palette of 3 colours with  *)
(* up to 2 clusters of 2 tours lets the shown tours both fit the palette  *)
(* and overflow it (4 > 3, color_step = 0).                               *)
EXTENDS RouteRenderer

MCNClusters == 2
MCMaxTours == 2
MCMaxPoints == 2
MCPaletteSize == 3
MCMaxDraws == 3
=============================================================================
