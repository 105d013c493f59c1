---------------------------- MODULE TelnetOption ----------------------------
(***************************************************************************)
(* TOptionFSM, the state machine of one Telnet option (TELFSM.CPP, after   *)
(* RFC 1143).  An option has two sides, what we do (us) and what the server *)
(* does (him), with the same table: WILL and WONT are to him what DO and   *)
(* DONT are to us.  Every side has a queue, for a request that is made     *)
(* while another is being negotiated.                                      *)
(***************************************************************************)

States == {"ENo", "EYes", "EWantYes", "EWantNo"}
Queues == {"ENone", "EEmpty", "EOpposite"}
Requests == {"EServerWill", "EServerWont", "EServerDo", "EServerDont",
             "EClientWill", "EClientWont", "EClientDo", "EClientDont"}

SideType == [s : States, q : Queues]
OptionType == [us : SideType, him : SideType]
Off == [us |-> [s |-> "ENo", q |-> "EEmpty"], him |-> [s |-> "ENo", q |-> "EEmpty"]]

\* What a request comes to: the side's new state, whether it agrees ("yes"),
\* declines ("no") or says nothing, and the event.
Outcome(state, queue, says, event) == [side |-> [s |-> state, q |-> queue], says |-> says, event |-> event]
Nothing(x) == Outcome(x.s, x.q, "", "")

\* The server says WILL or DO.
HearYes(x, allowed) ==
  CASE x.s = "ENo" /\ allowed -> Outcome("EYes", x.q, "yes", "Enabled")
    [] x.s = "ENo" /\ ~allowed -> Outcome("ENo", x.q, "no", "")
    [] x.s = "EWantNo" /\ x.q = "EEmpty" -> Outcome("ENo", x.q, "", "Disabled")
    [] x.s = "EWantNo" /\ x.q = "EOpposite" -> Outcome("EYes", "EEmpty", "", "Enabled")
    [] x.s = "EWantYes" /\ x.q = "EEmpty" -> Outcome("EYes", x.q, "", "Enabled")
    [] x.s = "EWantYes" /\ x.q = "EOpposite" -> Outcome("EWantNo", "EEmpty", "no", "")
    [] OTHER -> Nothing(x)

\* Mutant: the end of an option is not acknowledged.
HearNoSilent(x) == IF x.s = "EYes" THEN Outcome("ENo", x.q, "", "Disabled") ELSE Outcome("ENo", x.q, "", "")

\* The server says WONT or DONT.
HearNo(x) ==
  CASE x.s = "EYes" -> Outcome("ENo", x.q, "no", "Disabled")
    [] x.s = "EWantNo" /\ x.q = "EOpposite" -> Outcome("EWantYes", "ENone", "yes", "")
    [] x.s = "EWantYes" /\ x.q = "EOpposite" -> Outcome("ENo", "ENone", "", "Disabled")
    [] x.s \in {"EWantNo", "EWantYes"} /\ x.q = "EEmpty" -> Outcome("ENo", x.q, "", "Disabled")
    [] OTHER -> Nothing(x)

\* The client wants DO or WILL.  The queue asked for is that of the other side.
AskYes(x, other, allowed) ==
  CASE ~allowed -> Nothing(x)
    [] allowed /\ x.s = "ENo" -> Outcome("EWantYes", x.q, "yes", "")
    [] allowed /\ x.s = "EWantNo" /\ x.q = "EEmpty" /\ other.q = "EOpposite" -> Outcome(x.s, "EOpposite", "", "")
    [] allowed /\ x.s = "EWantYes" /\ x.q = "EOpposite" -> Outcome(x.s, "EEmpty", "", "")
    [] OTHER -> Nothing(x)

\* The client wants DONT or WONT.
AskNo(x, other) ==
  CASE x.s = "EYes" -> Outcome("EWantNo", x.q, "no", "")
    [] x.s = "EWantNo" /\ x.q = "EOpposite" -> Outcome(x.s, "EEmpty", "", "")
    [] x.s = "EWantYes" /\ x.q = "EEmpty" /\ other.q = "EOpposite" -> Outcome(x.s, "EOpposite", "", "")
    [] OTHER -> Nothing(x)

HimRequests == {"EServerWill", "EServerWont", "EClientDo", "EClientDont"}

Turned(x, other, allowed, r) ==
  CASE r \in {"EServerWill", "EServerDo"} -> HearYes(x, r \in allowed)
    [] r \in {"EServerWont", "EServerDont"} -> HearNo(x)
    [] r \in {"EClientDo", "EClientWill"} -> AskYes(x, other, r \in allowed)
    [] r \in {"EClientDont", "EClientWont"} -> AskNo(x, other)

\* The option with the side turned, what is sent, and the event.
Result(f, him, out) ==
  [option |-> IF him THEN [f EXCEPT !.him = out.side] ELSE [f EXCEPT !.us = out.side],
   action |-> CASE out.says = "" -> ""
                [] out.says = "yes" -> IF him THEN "DO" ELSE "WILL"
                [] out.says = "no" -> IF him THEN "DONT" ELSE "WONT",
   event |-> CASE out.event = "" -> ""
               [] out.event = "Enabled" -> IF him THEN "EServerEnabled" ELSE "EClientEnabled"
               [] out.event = "Disabled" -> IF him THEN "EServerDisabled" ELSE "EClientDisabled"]

\* TOptionFSM::Request.  No caller looks at the errors it returns.
Request(f, allowed, r) ==
  IF r \in HimRequests THEN Result(f, TRUE, Turned(f.him, f.us, allowed, r))
  ELSE Result(f, FALSE, Turned(f.us, f.him, allowed, r))

ClientEnabled(f) == f.us.s = "EYes"
ServerEnabled(f) == f.him.s = "EYes"
=============================================================================
