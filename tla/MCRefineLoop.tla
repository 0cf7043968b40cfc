----------------------------- MODULE MCRefineLoop -----------------------------
(***************************************************************************)
(* Two screens, one edge.  The agent writes a whole router, one without    *)
(* the edge, one with a link that leads nowhere, one with an interpolated  *)
(* link, one without the second screen, or one with a catch-all route.     *)
(***************************************************************************)
EXTENDS RefineLoop

CONSTANTS a, b

MCEdges == {<<a, b>>}
Whole     == [routes |-> {a, b}, covered |-> {}, files |-> {a}, calls |-> {<<a, b>>}]
Unwired   == [Whole EXCEPT !.calls = {<<b, a>>, <<b, b>>}]
Dangling  == [Whole EXCEPT !.calls = {<<a, b>>, <<Router, Elsewhere>>}]
Woven     == [Whole EXCEPT !.calls = {<<a, b>>, <<b, Interpolated>>}]
Missing   == [Whole EXCEPT !.routes = {a}]
CatchAll  == [routes |-> {b}, covered |-> {a, b, Elsewhere}, files |-> {}, calls |-> {<<Router, a>>}]
Of(x, y) == [s \in {a, b} |-> IF s = a THEN x ELSE y]
MCPages  == {Of("fit", "fit"), Of("fit", "blank"), Of("copy", "off"), Of("copy", "copy")}
MCNavs == {Whole, Unwired, Dangling, Woven, Missing, CatchAll}
=============================================================================
