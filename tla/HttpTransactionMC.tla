------------------------- MODULE HttpTransactionMC -------------------------
(* Two transactions, and a chain of four filters of which the inner ones take some events only. *)
EXTENDS HttpTransaction

CONSTANTS U1, U2

Middle == {"ESubmit", "ECancel", "EGotResponseHeaders"}
Four == [f \in 0 .. 3 |-> IF f \in {0, 3} THEN Events
                         ELSE IF f = 1 THEN Middle ELSE {"ESubmit", "ESucceeded", "EFailed"}]
=============================================================================
