----------------------------- MODULE HttpStreams -----------------------------
(***************************************************************************)
(* What the socket transport promises to a connection manager: a connect   *)
(* request is answered at most once; on an open connection one request is  *)
(* sent at a time, the answers come in the order of the requests, each     *)
(* after the confirmation of its own request, one is held at a time; and   *)
(* the two streams are lost together.                                      *)
(***************************************************************************)
EXTENDS Integers

CONSTANTS Mgr, MaxData

VARIABLES
  phase,      \* what each manager has of the transport
  asked,      \* requests handed to the output stream
  confirmed,  \* ... and confirmed by it
  got,        \* answers delivered by the input stream
  holds       \* the manager has not given back the last answer

vars == <<phase, asked, confirmed, got, holds>>

Phases == {"idle", "connecting", "upgrading", "open"}

Init ==
  /\ phase = [m \in Mgr |-> "idle"]
  /\ asked = [m \in Mgr |-> 0]
  /\ confirmed = [m \in Mgr |-> 0]
  /\ got = [m \in Mgr |-> 0]
  /\ holds = [m \in Mgr |-> FALSE]

Counts == <<asked, confirmed, got, holds>>
Fresh(m) ==
  /\ asked' = [asked EXCEPT ![m] = 0]
  /\ confirmed' = [confirmed EXCEPT ![m] = 0]
  /\ got' = [got EXCEPT ![m] = 0]
  /\ holds' = [holds EXCEPT ![m] = FALSE]

Connect(m) ==
  /\ phase[m] = "idle"
  /\ phase' = [phase EXCEPT ![m] = "connecting"]
  /\ UNCHANGED Counts

Made(m) ==
  /\ phase[m] = "connecting"
  /\ phase' \in {[phase EXCEPT ![m] = p] : p \in {"upgrading", "open"}}
  /\ UNCHANGED Counts

Upgraded(m) ==
  /\ phase[m] = "upgrading"
  /\ phase' = [phase EXCEPT ![m] = "open"]
  /\ UNCHANGED Counts

Send(m) ==
  /\ phase[m] = "open" /\ asked[m] = confirmed[m] /\ asked[m] < MaxData
  /\ asked' = [asked EXCEPT ![m] = @ + 1]
  /\ UNCHANGED <<phase, confirmed, got, holds>>

Confirm(m) ==
  /\ confirmed[m] < asked[m]
  /\ confirmed' = [confirmed EXCEPT ![m] = @ + 1]
  /\ UNCHANGED <<phase, asked, got, holds>>

\* Another answer is delivered when the last has been given back, or in a read
\* that the manager asks for in place.
Deliver(m) ==
  /\ got[m] < confirmed[m]
  /\ got' = [got EXCEPT ![m] = @ + 1]
  /\ holds' \in {[holds EXCEPT ![m] = h] : h \in BOOLEAN}
  /\ UNCHANGED <<phase, asked, confirmed>>

GiveBack(m) ==
  /\ holds[m]
  /\ holds' = [holds EXCEPT ![m] = FALSE]
  /\ UNCHANGED <<phase, asked, confirmed, got>>

\* The end of a connection or of an attempt, by either side; the manager may
\* connect again in the same step.
Lose(m) ==
  /\ phase[m] # "idle"
  /\ phase' \in {[phase EXCEPT ![m] = p] : p \in {"idle", "connecting"}}
  /\ Fresh(m)

Next == \E m \in Mgr : \/ Connect(m) \/ Made(m) \/ Upgraded(m) \/ Send(m) \/ Confirm(m)
                       \/ Deliver(m) \/ GiveBack(m) \/ Lose(m)
Spec == Init /\ [][Next]_vars
=============================================================================
