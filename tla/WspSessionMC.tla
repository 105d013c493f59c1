---------------------------- MODULE WspSessionMC ----------------------------
(***************************************************************************)
(* Instances of WspSession for TLC: a body in three parts of which the     *)
(* second fills an SDU, with a trailer, and a request without a body; a    *)
(* response in two SDUs of which the last has no data, and one in a        *)
(* single SDU that starts with an empty chunk; gateways with and without   *)
(* large data transfer and suspend/resume.                                 *)
(***************************************************************************)
EXTENDS WspSession

Get == [header |-> 2, body |-> FALSE, parts |-> <<>>, known |-> TRUE, trailer |-> 0]
Post == [header |-> 2, body |-> TRUE, parts |-> <<1, 4, 1>>, known |-> FALSE, trailer |-> 1]
GetAndPost == {Get, Post}

InTwo == <<<<1>>, <<0>>>>
InOne == <<<<0, 1>>>>
OneAndTwo == {InOne, InTwo}

\* The default, smaller.
Small == [mor |-> 1, sdu |-> 6, msg |-> 6, ldt |-> FALSE, resume |-> FALSE]
Large == [mor |-> 2, sdu |-> 4, msg |-> 12, ldt |-> TRUE, resume |-> TRUE]
One == [mor |-> 1, sdu |-> 4, msg |-> 12, ldt |-> TRUE, resume |-> FALSE]
Both == {Large, One}

Usual == {"drops", "redirects", "malformed", "newProxy"}
=============================================================================
