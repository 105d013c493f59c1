---------------------------- MODULE TelnetSession ----------------------------
(***************************************************************************)
(* The Telnet engine: CTelnetControl behind CTelnetSession's functions,    *)
(* with the resolver that makes and closes the connection                  *)
(* (CTelnetResolver), the buffers in front of the socket                   *)
(* (CIOBufferControl), the active objects that read and write it           *)
(* (CActiveReader, CActiveWriter) and the protocol (CProto), whose options *)
(* are those of TelnetOption.  On the other side a server after RFC 1143.  *)
(*                                                                         *)
(* What is sent to the server is a sequence of tokens, what is received    *)
(* one of bytes, because a read may end anywhere.  A datum is a letter, or *)
(* "IAC" for 255.  Left out: CR and its padding, TCP urgent data from the  *)
(* server (what the socket leaves of it in the stream is not in this       *)
(* repository), failed allocations, and a socket that cannot be opened.    *)
(*                                                                         *)
(* Env lists what may happen beyond a client that obeys TELSESS.H.  The    *)
(* engine stands                                                           *)
(*   "noHost"    the name is not found or the server not reached           *)
(*   "closes"    the server closes first                                   *)
(* and does not stand (README, section 5)                                  *)
(*   "crossing"  both sides close at the same time                         *)
(*   "again"     Disconnect a second time                                  *)
(*   "hasty"     Connect before a cancelled attempt has completed          *)
(*   "late"      a call between the end of the connection and its notice   *)
(*   "writeFail" a write fails                                             *)
(*   "ipQueued"  Interrupt Process while something is queued               *)
(*   "nested"    the window is resized inside OptionsChanged               *)
(***************************************************************************)
EXTENDS Integers, Sequences, FiniteSets, SequencesExt, TelnetOption

CONSTANTS
  Type,      \* the terminal type at first
  Changes,   \* what the client changes in its configuration
  Codes,     \* the control codes it sends
  Letters,   \* the data, in the order they are written
  Agreed,    \* the options the server always agrees to
  Open,      \* those it may agree to or decline
  Asked,     \* those it asks for
  MaxActs,   \* bound: connections, calls, what the server sends of its own, reads cut short
  Env

AllOptions == {"Binary", "Echo", "WindowSize", "TerminalType", "Speed", "SuppressGA", "Logoff", "Status"}
Liberties == {"noHost", "closes", "crossing", "again", "hasty", "late", "writeFail", "ipQueued", "nested"}
Fields == {"window", "echo", "logout", "speed", "type"}

ASSUME ConstantsAssumption ==
  /\ Type \in {"dumb", "vt100"} /\ Changes \subseteq Fields /\ Codes \subseteq {"IP", "AYT", "EC"}
  /\ Agreed \subseteq AllOptions /\ Open \subseteq AllOptions
  /\ Asked \subseteq AllOptions \cup {"Unknown"}
  /\ MaxActs \in Nat /\ Env \subseteq Liberties

VARIABLES
  client,   \* what it did, was told, and is owed
  res,      \* CTelnetResolver
  io,       \* CIOBufferControl
  reader, writer,   \* CActiveReader's request, CActiveWriter's
  proto,    \* CProto
  server,   \* the server and what is on its way to it and from it
  panic

vars == <<client, res, io, reader, writer, proto, server, panic>>
world == [client |-> client, res |-> res, io |-> io, reader |-> reader, writer |-> writer,
          proto |-> proto, server |-> server, panic |-> panic]

Becomes(w) ==
  /\ client' = w.client /\ res' = w.res /\ io' = w.io /\ reader' = w.reader /\ writer' = w.writer
  /\ proto' = w.proto /\ server' = w.server /\ panic' = w.panic

MayAct == client.connects + client.calls + server.asks + client.cuts < MaxActs

Check(w, holds, name) == IF holds THEN w ELSE [w EXCEPT !.panic = @ \cup {name}]
Alive == panic = {}

Verbs == {"WILL", "WONT", "DO", "DONT"}
\* Another speed, type or window is one more than the last (modulo Sizes).
Sizes == 3
Config == [window : 0 .. Sizes - 1, echo : BOOLEAN, logout : BOOLEAN, speed : {0, 1}, type : {"dumb", "vt100"}]
Bytes == Verbs \cup AllOptions \cup {"Unknown", "IAC", "SB", "SE", "SEND", "EOF"} \cup Range(Letters)

TypeOK ==
  /\ client \in [state : {"no", "connecting", "yes"}, left : BOOLEAN, reading : BOOLEAN,
                 sent : Seq(Bytes), got : Seq(Bytes), calls : 0 .. MaxActs, connects : 0 .. MaxActs,
                 cuts : 0 .. MaxActs, writing : BOOLEAN]
  /\ res \in [state : {"EDisconnected", "ELookingUp", "EConnecting", "EConnected", "EShuttingDown", "EDisconnecting"},
              event : {"ENone", "EDoDisconnect", "EEofDetected"}, active : BOOLEAN, triggered : BOOLEAN]
  /\ io.set \in BOOLEAN /\ io.busy \in BOOLEAN
  /\ \A b \in {io.live, io.queue, io.urgent} : \A t \in Range(b) : t \in Seq(STRING)
  /\ io.queue # <<>> \/ io.urgent # <<>> => io.busy
  /\ reader \in {"ERequestNone", "EIOctlRequest", "EReadRequest"}
  /\ writer \in {"idle", "sending", "closed"}
  /\ proto \in [fsm : [AllOptions -> OptionType], echo : BOOLEAN, logout : BOOLEAN, config : Config,
                recv : {"ENormal", "EIAC", "ESubOpt", "ECommand"}, sub : {"ESB", "EOption", "ERequest", "EEndIAC"},
                read : Seq(Bytes)]
  /\ server.option \in [AllOptions -> [us : {"NO", "YES", "WANTNO", "WANTYES"}, him : {"NO", "YES", "WANTNO", "WANTYES"}]]
  /\ server.down \in Seq(Bytes) /\ server.got \in Seq(Bytes) /\ server.said \in Seq(Bytes)
  /\ server.link \in {"down", "up", "fin", "closed"} /\ server.iac \in BOOLEAN /\ server.garbled \in BOOLEAN
  /\ server.window \in 0 .. Sizes - 1 /\ server.asks \in 0 .. MaxActs
  /\ panic \subseteq {"active", "null"}

NoIo == [set |-> FALSE, busy |-> FALSE, live |-> <<>>, queue |-> <<>>, urgent |-> <<>>]
NoOptions == [o \in AllOptions |-> Off]
NoServer(asks) ==
  [option |-> [o \in AllOptions |-> [us |-> "NO", him |-> "NO"]], up |-> <<>>, down |-> <<>>,
   got |-> <<>>, said |-> <<>>, link |-> "down", iac |-> FALSE, garbled |-> FALSE, window |-> 0, asks |-> asks]
NotConnected(c) == [c EXCEPT !.state = "no", !.left = FALSE, !.reading = FALSE]

\* What TTelnetConfig's constructor sets; it leaves iServerEcho uninitialised.
Init ==
  /\ client = [state |-> "no", left |-> FALSE, reading |-> FALSE, sent |-> <<>>, got |-> <<>>, calls |-> 0,
               connects |-> 0, cuts |-> 0, writing |-> FALSE]
  /\ res = [state |-> "EDisconnected", event |-> "ENone", active |-> FALSE, triggered |-> FALSE]
  /\ io = NoIo /\ reader = "ERequestNone" /\ writer = "idle"
  /\ \E echo \in BOOLEAN :
       proto = [fsm |-> NoOptions, echo |-> echo, logout |-> TRUE,
                config |-> [window |-> 0, echo |-> echo, logout |-> TRUE, speed |-> 0, type |-> Type],
                recv |-> "ENormal", sub |-> "ESB", read |-> <<>>]
  /\ server = NoServer(0) /\ panic = {}

-----------------------------------------------------------------------------
(* CActiveWriter, CIOBufferControl *)

\* The socket takes what it is given; after the shutdown it goes nowhere.
Sent(w, b) ==
  [w EXCEPT !.writer = "sending",
            !.server.up = IF w.server.link = "up" THEN @ \o b ELSE @]
IssueWrite(w, b) == IF w.writer # "idle" THEN w ELSE Sent(w, b)
IssueUrgentWrite(w, b) == Sent(Check(w, w.writer = "idle", "active"), b)

\* CIOBufferControl::Write
IoWrite(w, b) ==
  IF w.io.busy THEN [w EXCEPT !.io.queue = @ \o b]
  ELSE IF ~w.io.set THEN Check(w, FALSE, "null")
  ELSE IssueWrite([w EXCEPT !.io.busy = TRUE, !.io.live = b], b)
IoWriteIfAny(w, b) == IF b = <<>> THEN w ELSE IoWrite(w, b)

\* Mutant: what is urgent does not wait for the write in progress.
WriteUrgentAtOnce(w, b) ==
  IF ~w.io.set THEN Check(w, FALSE, "null") ELSE IssueUrgentWrite([w EXCEPT !.io.busy = TRUE, !.io.live = b], b)

\* CIOBufferControl::WriteUrgent, when nothing urgent is queued.
WriteUrgent(w, b) ==
  IF w.io.busy THEN [w EXCEPT !.io.urgent = b]
  ELSE IF ~w.io.set THEN Check(w, FALSE, "null")
  ELSE IssueUrgentWrite([w EXCEPT !.io.busy = TRUE, !.io.live = b], b)

IoRead(w) ==
  IF ~w.io.set THEN Check(w, FALSE, "null")
  ELSE [w EXCEPT !.reader = IF @ = "ERequestNone" THEN "EIOctlRequest" ELSE @]

\* Mutant: what is queued goes before what is urgent.
NextBufferQueueFirst(w) ==
  LET i == w.io IN
  IF i.queue # <<>> THEN IssueWrite([w EXCEPT !.io.live = i.queue, !.io.queue = <<>>], i.queue)
  ELSE IF i.urgent # <<>> THEN IssueUrgentWrite([w EXCEPT !.io.live = i.urgent, !.io.urgent = <<>>], i.urgent)
  ELSE [w EXCEPT !.io.live = <<>>, !.io.busy = FALSE]

\* CIOBufferControl::WriteComplete, up to the notification.
NextBuffer(w) ==
  LET i == w.io IN
  IF i.urgent # <<>> THEN IssueUrgentWrite([w EXCEPT !.io.live = i.urgent, !.io.urgent = <<>>], i.urgent)
  ELSE IF i.queue # <<>> THEN IssueWrite([w EXCEPT !.io.live = i.queue, !.io.queue = <<>>], i.queue)
  ELSE [w EXCEPT !.io.live = <<>>, !.io.busy = FALSE]

IoReset(w) == [w EXCEPT !.io = NoIo]

-----------------------------------------------------------------------------
(* CProto *)

SendBinary(p) == ClientEnabled(p.fsm["Binary"])
ReceiveBinary(p) == ServerEnabled(p.fsm["Binary"])

\* The permissions that ConstructL and ModifyConfig give an option.
Allowed(p, o) ==
  CASE o \in {"WindowSize", "Speed", "TerminalType"} -> {"EServerDo", "EClientWill"}
    [] o \in {"Status", "Binary", "SuppressGA"} -> {"EServerWill", "EClientDo", "EClientWill", "EServerDo"}
    [] o = "Echo" -> IF p.echo THEN {"EServerWill", "EClientDo"} ELSE {}
    [] o = "Logoff" -> IF p.logout THEN {"EServerWill", "EClientDo"} ELSE {}

\* A conversation with the options: the protocol's state, what is to be
\* written, what is for the client, the suboption to append, and the events.
Talk(p) == [p |-> p, out |-> <<>>, data |-> <<>>, subs |-> <<>>, events |-> 0]

WindowSub(p) == <<"SB", "WindowSize", ToString(p.config.window)>>

Say(t, action, o) == IF action = "" THEN t ELSE [t EXCEPT !.out = Append(@, <<action, o>>)]

\* The events of SuppressGA and Logoff are not counted; a window is told at once.
Noted(t, o, event) ==
  IF event = "" THEN t
  ELSE [t EXCEPT !.events = @ + (IF o \in {"SuppressGA", "Logoff"} THEN 0 ELSE 1),
                 !.subs = IF o = "WindowSize" /\ event = "EClientEnabled" THEN Append(@, WindowSub(t.p)) ELSE @]

Done(t, o, q) == Noted(Say([t EXCEPT !.p.fsm[o] = q.option], q.action, o), o, q.event)

\* RequestOption of an option, of CUnknownOption for any other.
RequestOption(t, o, r) ==
  IF o \in AllOptions THEN Done(t, o, Request(t.p.fsm[o], Allowed(t.p, o), r))
  ELSE Say(t, Request(Off, {}, r).action, o)

\* CProto::ClientRequestOption
ClientRequestOption(t, o) ==
  CASE o \in {"Binary", "SuppressGA"} -> RequestOption(RequestOption(t, o, "EClientDo"), o, "EClientWill")
    [] o = "Logoff" -> RequestOption([t EXCEPT !.p.logout = TRUE], o, "EClientDo")
    [] o = "Echo" -> RequestOption(t, o, IF ServerEnabled(t.p.fsm[o]) THEN "EClientDont" ELSE "EClientDo")
    [] OTHER -> RequestOption(t, o, "EClientWill")

GetInitOptions(p) ==
  ClientRequestOption(IF p.config.type = "dumb" THEN Talk(p) ELSE ClientRequestOption(Talk(p), "Binary"), "SuppressGA")

\* Mutant: a window that changes while the option is on is not sent.
TellWindowOnceOnly(t) == IF ClientEnabled(t.p.fsm["WindowSize"]) THEN t ELSE ClientRequestOption(t, "WindowSize")

TellWindow(t) ==
  IF ClientEnabled(t.p.fsm["WindowSize"]) THEN [t EXCEPT !.out = Append(@, WindowSub(t.p))]
  ELSE ClientRequestOption(t, "WindowSize")
NewWindow(t, w) == IF w = t.p.config.window THEN t ELSE TellWindow([t EXCEPT !.p.config.window = w])

NewSpeed(t, s) ==
  IF s = t.p.config.speed \/ ClientEnabled(t.p.fsm["Speed"]) THEN [t EXCEPT !.p.config.speed = s]
  ELSE ClientRequestOption([t EXCEPT !.p.config.speed = s], "Speed")

NewEcho(t) ==
  IF ServerEnabled(t.p.fsm["Echo"]) # t.p.config.echo THEN ClientRequestOption(t, "Echo") ELSE t

\* CProto::ModifyConfig with a connection; without one nothing is requested.
SetTo(t, c) == [t EXCEPT !.p.config = c, !.p.logout = c.logout, !.p.echo = c.echo]
ModifyConfig(p, c) == NewEcho(SetTo(NewWindow(NewSpeed(Talk(p), c.speed), c.window), c))
ModifyQuietly(p, c) == [p EXCEPT !.config = c, !.logout = c.logout, !.echo = c.echo]

\* CProto::ProtoRead, one byte.
SubOption(t, b) ==
  LET p == t.p
      done == [t EXCEPT !.p.recv = "ENormal"]
      kept == [t EXCEPT !.p.read = Append(@, b)] IN
  CASE p.sub = "ESB" -> [kept EXCEPT !.p.sub = "EOption"]
    [] p.sub = "EOption" -> [kept EXCEPT !.p.sub = "ERequest"]
    [] p.sub = "ERequest" -> IF b = "IAC" THEN [kept EXCEPT !.p.sub = "EEndIAC"] ELSE kept
    [] p.sub = "EEndIAC" ->
         IF b = "SE" /\ (p.read[1] \in {"TerminalType", "Speed"} \/ (p.read[1] = "Status" /\ p.read[2] = "SEND"))
         THEN [done EXCEPT !.out = Append(@, <<"SB", p.read[1]>>)]
         ELSE done

ReadByte(t, b) ==
  CASE t.p.recv = "ENormal" -> IF b = "IAC" THEN [t EXCEPT !.p.recv = "EIAC", !.p.read = <<>>]
                               ELSE [t EXCEPT !.data = Append(@, b)]
    [] t.p.recv = "EIAC" ->
         IF b \in Verbs THEN [t EXCEPT !.p.recv = "ECommand", !.p.read = Append(@, b)]
         ELSE IF b = "SB" THEN [t EXCEPT !.p.recv = "ESubOpt", !.p.sub = "ESB"]
         ELSE IF b = "IAC" /\ ReceiveBinary(t.p) THEN [t EXCEPT !.p.recv = "ENormal", !.data = Append(@, b)]
         ELSE [t EXCEPT !.p.recv = "ENormal"]
    [] t.p.recv = "ESubOpt" -> SubOption(t, b)
    [] t.p.recv = "ECommand" ->
         RequestOption([t EXCEPT !.p.recv = "ENormal"], b,
                       CASE t.p.read[1] = "DO" -> "EServerDo" [] t.p.read[1] = "WILL" -> "EServerWill"
                         [] t.p.read[1] = "WONT" -> "EServerWont" [] t.p.read[1] = "DONT" -> "EServerDont")

\* Mutant: a command cut by the end of a read is forgotten.
ProtoReadForgets(p, bytes) == FoldLeft(ReadByte, Talk([p EXCEPT !.recv = "ENormal"]), bytes)

ProtoRead(p, bytes) == FoldLeft(ReadByte, Talk(p), bytes)

\* CProto::Reset
ProtoReset(p) == [p EXCEPT !.fsm = NoOptions, !.recv = "ENormal"]

-----------------------------------------------------------------------------
(* CTelnetResolver *)

TriggerActive(w, event) ==
  [Check(w, ~w.res.active, "active") EXCEPT !.res.event = event, !.res.active = TRUE, !.res.triggered = TRUE]

\* EDisconnected, and ConnectionClosed.
Closed(w) ==
  [w EXCEPT !.res = [state |-> "EDisconnected", event |-> "ENone", active |-> FALSE, triggered |-> FALSE],
            !.writer = IF @ = "idle" THEN @ ELSE "closed",
            !.client = NotConnected(@), !.server = NoServer(@.asks)]

ResolverIs(state) == Alive /\ res.active /\ ~res.triggered /\ res.state = state

\* What the connection before left on the writer has completed by then.
LookedUp(ok) ==
  /\ ResolverIs("ELookingUp") /\ writer # "closed" /\ (ok \/ "noHost" \in Env)
  /\ Becomes(IF ok THEN [world EXCEPT !.res.state = "EConnecting"] ELSE Closed(world))

\* ResolverConnectedL: the options are requested before the client hears of it.
ConnectDone(ok) ==
  /\ ResolverIs("EConnecting") /\ writer # "closed" /\ (ok \/ "noHost" \in Env)
  /\ LET init == GetInitOptions(proto)
         up == [world EXCEPT !.res.state = "EConnected", !.res.active = FALSE, !.io.set = TRUE,
                             !.server.link = "up", !.proto = init.p]
     IN Becomes(IF ok THEN [IoWriteIfAny(up, init.out) EXCEPT !.client.state = "yes"] ELSE Closed(world))

\* The completion of an attempt that Disconnect cancelled.
CancelledRunL == ResolverIs("EDisconnected") /\ Becomes([world EXCEPT !.res.active = FALSE])

ShutdownDone ==
  ResolverIs("EShuttingDown") /\ Becomes([world EXCEPT !.res.active = FALSE, !.res.state = "EDisconnecting"])

\* Mutant: the end is not noticed while disconnecting.
TriggeredDeaf ==
  IF res.event = "EEofDetected" /\ res.state = "EConnected" THEN Closed(world)
  ELSE IF res.event = "EDoDisconnect"
  THEN [world EXCEPT !.res.event = "ENone", !.res.state = "EShuttingDown", !.res.triggered = FALSE,
                     !.server.link = IF @ = "up" THEN "fin" ELSE @]
  ELSE [world EXCEPT !.res.active = FALSE, !.res.triggered = FALSE]

Triggered ==
  IF res.event = "EEofDetected" /\ res.state \in {"EConnected", "EDisconnecting"} THEN Closed(world)
  ELSE IF res.event = "EDoDisconnect" /\ res.state = "EConnected"
  THEN [world EXCEPT !.res.event = "ENone", !.res.state = "EShuttingDown", !.res.triggered = FALSE,
                     !.server.link = IF @ = "up" THEN "fin" ELSE @]
  ELSE [world EXCEPT !.res.active = FALSE, !.res.triggered = FALSE,
                     !.res.state = IF @ = "EShuttingDown" THEN "EDisconnecting" ELSE @]

TriggeredRunL == Alive /\ res.triggered /\ Becomes(Triggered)

-----------------------------------------------------------------------------
(* CActiveWriter::RunL, CActiveReader::RunL.  A triggered resolver, which  *)
(* was added to the scheduler first, runs before them.                     *)

WriteCompleted(w) == [w EXCEPT !.client.writing = FALSE]

Writes ==
  /\ Alive /\ writer # "idle" /\ ~res.triggered
  /\ Becomes(WriteCompleted(NextBuffer([world EXCEPT !.writer = "idle"])))

\* CIOBufferControl::WriteError
WriteFails ==
  /\ Alive /\ ~res.triggered
  /\ writer = "closed" \/ (writer = "sending" /\ "writeFail" \in Env)
  /\ Becomes(IoReset([world EXCEPT !.writer = "idle"]))

ReaderSelects ==
  /\ Alive /\ ~res.triggered /\ reader = "EIOctlRequest" /\ server.down # <<>>
  /\ Becomes([world EXCEPT !.reader = "EReadRequest"])

\* The replies that ProtoRead leaves, after OptionsChanged; and its suboption.
Answered(w, t) == IoWriteIfAny([w EXCEPT !.proto = t.p], t.out \o t.subs)

\* The client may resize its window in OptionsChanged (SetConfig).
Resized(w, t, m) == <<IoWriteIfAny(w, m.out), [t EXCEPT !.p = m.p]>>
InOptionsChanged(w, t) ==
  {<<w, t>>} \cup (IF t.events > 0 /\ "nested" \in Env
                  THEN {Resized(w, t, NewWindow(Talk(t.p), (t.p.config.window + 1) % Sizes))} ELSE {})

\* CTelnetControl::ReadCompleteL
ForClient(w, data) ==
  IF data = <<>> THEN IoRead(w) ELSE [w EXCEPT !.client.got = @ \o data, !.client.reading = FALSE]
ReadComplete(w, t) == \E x \in InOptionsChanged(w, t) : Becomes(ForClient(Answered(x[1], x[2]), x[2].data))

\* A read takes what there is, or ends inside a command (one that ends between
\* two is like the second arriving later).
Cuts(n) == n < Len(server.down) /\ server.down[n + 1] # "EOF"
Reads(n) ==
  /\ Alive /\ ~res.triggered /\ reader = "EReadRequest" /\ n \in DOMAIN server.down
  /\ Head(server.down) # "EOF" /\ server.down[n] # "EOF"
  /\ Cuts(n) => MayAct /\ ProtoRead(proto, SubSeq(server.down, 1, n)).p.recv # "ENormal"
  /\ ReadComplete([world EXCEPT !.reader = "ERequestNone", !.server.down = SubSeq(@, n + 1, Len(@)),
                                !.client.cuts = IF Cuts(n) THEN @ + 1 ELSE @],
                  ProtoRead(proto, SubSeq(server.down, 1, n)))

\* CIOBufferControl::ReadComplete, CTelnetControl::ReadComplete
ReadsEof ==
  /\ Alive /\ ~res.triggered /\ reader = "EReadRequest" /\ server.down # <<>> /\ Head(server.down) = "EOF"
  /\ Becomes(TriggerActive(IoReset([world EXCEPT !.reader = "ERequestNone", !.server.down = Tail(@)]), "EEofDetected"))

-----------------------------------------------------------------------------
(* CTelnetControl: the client's calls                                      *)

Connect(byName) ==
  /\ Alive /\ client.state = "no" /\ MayAct /\ res.state = "EDisconnected"
  /\ ~res.active \/ "hasty" \in Env
  /\ Becomes([IoReset(Check(world, ~res.active, "active"))
        EXCEPT !.res.state = IF byName THEN "ELookingUp" ELSE "EConnecting", !.res.active = TRUE,
               !.proto = ProtoReset(@), !.client.state = "connecting", !.client.connects = @ + 1,
               !.client.writing = FALSE, !.client.sent = <<>>, !.client.got = <<>>])

\* KErrServerBusy: no notice follows.
DisconnectConnecting ==
  /\ Alive /\ client.state = "connecting"
  /\ Becomes([world EXCEPT !.res.state = "EDisconnected", !.res.event = "ENone", !.client.state = "no"])

Disconnect ==
  /\ Alive /\ client.state = "yes" /\ res.state = "EConnected"
  /\ ~client.left \/ "again" \in Env
  /\ server.link # "closed" \/ "crossing" \in Env
  /\ Becomes(TriggerActive([world EXCEPT !.client.left = TRUE], "EDoDisconnect"))

\* The client keeps a read outstanding from Connected to ConnectionClosed.
Read ==
  /\ Alive /\ client.state = "yes" /\ ~client.reading
  /\ Becomes(IoRead([world EXCEPT !.client.reading = TRUE]))

\* A client that was not told of the end, nor made it.
MayCall ==
  /\ Alive /\ client.state = "yes" /\ ~client.left /\ MayAct
  /\ res.event = "EEofDetected" => "late" \in Env
Calls(w) == [w EXCEPT !.client.calls = @ + 1]

\* CProto::ProtoWrite.
ProtoWrite(d) == IF d = "IAC" /\ SendBinary(proto) THEN <<<<d>>, <<d>>>> ELSE <<<<d>>>>
Write(d) ==
  /\ MayCall /\ ~client.writing
  /\ Becomes(IoWrite([Calls(world) EXCEPT !.client.sent = Append(@, d), !.client.writing = TRUE], ProtoWrite(d)))

InterruptProcess ==
  /\ "IP" \in Codes /\ MayCall
  /\ (io.queue = <<>> /\ io.urgent = <<>>) \/ "ipQueued" \in Env
  /\ io.urgent = <<>>    \* KErrInUse
  /\ LET urgent == WriteUrgent(Calls(world), <<<<"IAC IP">>, <<"IAC">>>>)
     IN Becomes(IF urgent.panic # {} THEN urgent ELSE [IoWrite(urgent, <<<<"DM">>>>) EXCEPT !.client.writing = TRUE])

ControlCode(c) ==
  /\ c \in Codes \ {"IP"} /\ MayCall /\ (c = "AYT" \/ ~SendBinary(proto))   \* KErrGeneral
  /\ Becomes([IoWrite(Calls(world), <<<<"IAC " \o c>>>>) EXCEPT !.client.writing = TRUE])

\* What SetConfig, SetOption and OptionStatus leave to be written.
Says(t) == Becomes(IoWriteIfAny([Calls(world) EXCEPT !.proto = t.p], t.out))

SetConfig(c) ==
  IF res.state = "EConnected" THEN MayCall /\ Says(ModifyConfig(proto, c))
  ELSE /\ Alive /\ MayAct /\ ~client.left
       /\ Becomes([Calls(world) EXCEPT !.proto = ModifyQuietly(proto, c)])

DoForceLogout == "logout" \in Changes /\ MayCall /\ Says(ClientRequestOption(Talk(proto), "Logoff"))

OptionStatus ==
  /\ MayCall /\ ServerEnabled(proto.fsm["Status"])
  /\ Says([Talk(proto) EXCEPT !.out = <<<<"SB", "Status", "SEND">>>>])

\* One field at a time.
NewConfigs ==
  LET c == proto.config IN
  {[c EXCEPT !.window = (@ + 1) % Sizes], [c EXCEPT !.echo = ~@], [c EXCEPT !.logout = ~@],
   [c EXCEPT !.speed = 1 - @], [c EXCEPT !.type = IF @ = "dumb" THEN "vt100" ELSE "dumb"]}
SetConfigs == {c \in NewConfigs : \A f \in Fields \ Changes : c[f] = proto.config[f]}

-----------------------------------------------------------------------------
(* The server (external), after RFC 1143, with no queue: it asks for an    *)
(* option when it is not negotiating it.                                   *)

\* What an option's state becomes when the client says yes or no, and what is said.
Obeyed(s, yes, agrees) ==
  IF yes THEN CASE s = "NO" -> IF agrees THEN <<"YES", "yes">> ELSE <<"NO", "no">>
                [] s = "WANTNO" -> <<"NO", "">>
                [] OTHER -> <<"YES", "">>
  ELSE <<"NO", IF s = "YES" THEN "no" ELSE "">>

Said(option, him, says) ==
  CASE says = "" -> <<>>
    [] says = "yes" -> <<"IAC", IF him THEN "DO" ELSE "WILL", option>>
    [] says = "no" -> <<"IAC", IF him THEN "DONT" ELSE "WONT", option>>

Negotiated(s, t, agrees) ==
  LET o == t[2]
      him == t[1] \in {"WILL", "WONT"}
      r == Obeyed(IF him THEN s.option[o].him ELSE s.option[o].us, t[1] \in {"WILL", "DO"}, agrees)
  IN [s EXCEPT !.option[o] = IF him THEN [@ EXCEPT !.him = r[1]] ELSE [@ EXCEPT !.us = r[1]],
               !.down = @ \o Said(o, him, r[2])]

\* The server after one token.
Heard(s, t, agrees) ==
  IF s.iac THEN [s EXCEPT !.iac = FALSE, !.got = IF t = <<"IAC">> THEN Append(@, "IAC") ELSE @,
                          !.garbled = @ \/ t \notin {<<"IAC">>, <<"DM">>}]
  ELSE CASE t[1] \in Verbs -> IF t[2] \in AllOptions THEN Negotiated(s, t, agrees) ELSE s
         [] t = <<"IAC">> -> [s EXCEPT !.iac = TRUE]
         [] t[1] = "SB" /\ t[2] = "WindowSize" ->
              [s EXCEPT !.window = CHOOSE x \in 0 .. Sizes - 1 : ToString(x) = t[3]]
         [] t[1] = "SB" /\ t[2] # "WindowSize" -> s
         [] t[1] \in Range(Letters) -> [s EXCEPT !.got = Append(@, t[1])]
         [] OTHER -> s

ServerDoes(s) == server' = s /\ UNCHANGED <<client, res, io, reader, writer, proto, panic>>

\* The server takes what has come, and agrees to some of the open options.
ServerHears(agrees) ==
  /\ Alive /\ server.link \in {"up", "fin"} /\ server.up # <<>>
  /\ ServerDoes(FoldLeft(LAMBDA s, t : Heard(s, t, t[1] \in Verbs /\ t[2] \in Agreed \cup agrees),
                         [server EXCEPT !.up = <<>>], server.up))

ServerAsks(o, him, yes) ==
  /\ Alive /\ server.link = "up" /\ MayAct /\ o \in Asked
  /\ LET asked == [server EXCEPT !.asks = @ + 1, !.down = @ \o Said(o, him, IF yes THEN "yes" ELSE "no")]
         want == IF yes THEN "WANTYES" ELSE "WANTNO" IN
     IF o = "Unknown" THEN yes /\ ServerDoes(asked)
     ELSE IF him
     THEN /\ server.option[o].him = (IF yes THEN "NO" ELSE "YES")
          /\ ServerDoes([asked EXCEPT !.option[o].him = want])
     ELSE /\ server.option[o].us = (IF yes THEN "NO" ELSE "YES")
          /\ ServerDoes([asked EXCEPT !.option[o].us = want])

\* IAC SB option SEND IAC SE
ServerQueries(o) ==
  /\ Alive /\ server.link = "up" /\ MayAct /\ server.option[o].him = "YES"
  /\ ServerDoes([server EXCEPT !.asks = @ + 1, !.down = @ \o <<"IAC", "SB", o, "SEND", "IAC", "SE">>])

ServerSends(d) ==
  /\ Alive /\ server.link = "up" /\ MayAct
  /\ ServerDoes([server EXCEPT !.asks = @ + 1, !.said = Append(@, d), !.down = @ \o (IF d = "IAC" THEN <<d, d>> ELSE <<d>>)])

ServerCloses ==
  /\ Alive
  /\ \/ server.link = "fin" /\ server.up = <<>> /\ (res.state # "EShuttingDown" \/ "crossing" \in Env)
     \/ server.link = "up" /\ "closes" \in Env /\ (~client.left \/ "crossing" \in Env)
  /\ ServerDoes([server EXCEPT !.link = "closed", !.up = <<>>, !.down = Append(@, "EOF")])

-----------------------------------------------------------------------------
\* The next letter, or 255 in binary mode.
NextData(before, binary) ==
  {Letters[i] : i \in {Len(before) + 1} \cap DOMAIN Letters} \cup (IF binary THEN {"IAC"} ELSE {})

Client ==
  \/ \E byName \in BOOLEAN : Connect(byName)
  \/ DisconnectConnecting \/ Disconnect
  \/ \E d \in NextData(client.sent, SendBinary(proto)) : Write(d)
  \/ InterruptProcess \/ \E c \in Codes : ControlCode(c)
  \/ \E c \in SetConfigs : SetConfig(c)
  \/ DoForceLogout \/ OptionStatus

Resolver ==
  \/ \E ok \in BOOLEAN : LookedUp(ok) \/ ConnectDone(ok)
  \/ CancelledRunL \/ ShutdownDone \/ TriggeredRunL

Socket == Writes \/ WriteFails \/ ReaderSelects \/ (\E n \in 1 .. 12 : Reads(n)) \/ ReadsEof

Server ==
  \/ \E agrees \in SUBSET Open : ServerHears(agrees)
  \/ \E o \in Asked, him, yes \in BOOLEAN : ServerAsks(o, him, yes)
  \/ \E o \in {"TerminalType", "Speed", "Status"} : ServerQueries(o)
  \/ \E d \in NextData(server.said, server.option["Binary"].us = "YES") : ServerSends(d)
  \/ ServerCloses

Next == Client \/ Read \/ Resolver \/ Socket \/ Server

Spec == Init /\ [][Next]_vars

\* Something is to be run, read, answered or closed.
Pending ==
  /\ Alive
  /\ \/ res.active \/ writer # "idle"
     \/ reader # "ERequestNone" /\ server.down # <<>>
     \/ client.state = "yes" /\ ~client.reading
     \/ server.link \in {"up", "fin"} /\ server.up # <<>>
     \/ server.link = "fin" /\ (res.state # "EShuttingDown" \/ "crossing" \in Env)

\* The scheduler runs what completes, the server answers and closes after the
\* client, the client reads: they do not stop while Pending.
Progress == client'.calls = client.calls /\ client'.left = client.left /\ client'.connects = client.connects /\ server'.asks = server.asks
Fairness == []<>~Pending \/ []<><<Progress>>_vars
FairSpec == Spec /\ Fairness

-----------------------------------------------------------------------------
(* Properties *)

Quiet ==
  /\ res.state = "EConnected" /\ server.link = "up" /\ ~res.active /\ ~io.busy
  /\ server.up = <<>> /\ server.down = <<>>

\* Whoever asked first and whatever crossed, when all has been said the two
\* ends agree on every option, none is still waiting (TELFSM.CPP: RFC 1143), and
\* the server knows the window, whenever it was changed.  On the way there no active
\* object is activated twice and no buffer control is used that is gone (IOBUFFER.CPP,
\* ACTIVEIO.CPP).
Agreement ==
  /\ TypeOK /\ Alive
  /\ Quiet => \A o \in AllOptions :
       /\ proto.fsm[o].us.s = (IF server.option[o].him = "YES" THEN "EYes" ELSE "ENo")
       /\ proto.fsm[o].him.s = (IF server.option[o].us = "YES" THEN "EYes" ELSE "ENo")
       /\ server.option[o].us \in {"NO", "YES"} /\ server.option[o].him \in {"NO", "YES"}
  /\ (Quiet /\ ClientEnabled(proto.fsm["WindowSize"])) => server.window = proto.config.window

\* What is written arrives once, in order, with no command broken, and what the
\* server sends arrives, however the reads cut it.
ArrivesOnce ==
  /\ ~server.garbled
  /\ server.link = "up" => IsPrefix(server.got, client.sent)
  /\ Quiet => server.got = client.sent
  /\ server.link # "down" => /\ IsPrefix(client.got, server.said)
                             /\ (server.down = <<>> => client.got = server.said)

\* A connection that either side ends is reported closed.
Ends ==
  /\ (client.state = "connecting" ~> client.state # "connecting")
  /\ ((client.state = "yes" /\ (client.left \/ server.link = "closed")) ~> client.state = "no")
=============================================================================
