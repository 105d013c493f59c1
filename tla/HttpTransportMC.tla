-------------------------- MODULE HttpTransportMC --------------------------
(* Two connection managers, the second one for a secure scheme. *)
EXTENDS HttpTransport

CONSTANTS M1, M2
=============================================================================
