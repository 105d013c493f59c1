---------------------- MODULE HttpConnectionManagerMC ----------------------
(* Small instances of HttpConnectionManager.                               *)
EXTENDS HttpConnectionManager

CONSTANTS T1, T2, T3, H1, H2

OneHost  == [t \in Tx |-> H1]
TwoHosts == [t \in Tx |-> IF t = T3 THEN H2 ELSE H1]
=============================================================================
