----------------------- MODULE HttpProtocolHandlerMC -----------------------
(* Three transactions; in OtherPlace are those for another host. *)
EXTENDS HttpProtocolHandler

CONSTANTS T1, T2, T3, OtherPlace
PlaceMC == [t \in {T1, T2, T3} |-> IF t \in OtherPlace THEN "B" ELSE "A"]
=============================================================================
