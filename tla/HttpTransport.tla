---------------------------- MODULE HttpTransport ----------------------------
(***************************************************************************)
(* The socket transport of the HTTP framework: CTcpTransportLayer with its *)
(* stores of connectors and controllers and its cache of host resolvers,   *)
(* CSocketConnector, CSocketController, CSocketReader and CSocketWriter,   *)
(* and the connection managers as far as they use the streams.             *)
(*                                                                         *)
(* Every object is an active object of one thread: an action is one RunL,  *)
(* or one call out of a manager, with all the calls it makes.  The one     *)
(* exception is ImmediateRead, which waits in a nested active scheduler:   *)
(* `reading' is the connection whose manager is in that call.              *)
(*                                                                         *)
(* All managers are for one host and port, which is where they share       *)
(* resolvers and addresses.                                                *)
(***************************************************************************)
EXTENDS Integers, Sequences, FiniteSets, SequencesExt

CONSTANTS
  Mgr,            \* the connection managers
  Secure,         \* those that upgrade their connections
  MaxConnects,    \* bound: the attempts to connect
  MaxData,        \* bound: the requests sent
  Env             \* what may happen besides, see below

(***************************************************************************)
(* Env is the set of liberties of network and managers:                    *)
(*  "notReady"       the first use of a host resolver says KErrNotReady    *)
(*  "timeouts"       the timers fire                                       *)
(*  "immediate"      a manager that drops a response reads on in place     *)
(*  "immediateReady" it does so although the reader's own read has been    *)
(*                   completed and not yet been handled                    *)
(*  "nestedLoss"     a connection is lost or closed while it is read in    *)
(*                   place                                                 *)
(* The transport owns its connection and its socket server; there is       *)
(* memory for everything; nobody calls ShutdownReq, Shutdown or Restart.   *)
(***************************************************************************)
Liberties == {"notReady", "timeouts", "immediate", "immediateReady", "nestedLoss"}

ASSUME ConstantsAssumption ==
  /\ Secure \subseteq Mgr
  /\ MaxConnects \in Nat /\ MaxData \in Nat
  /\ Env \subseteq Liberties

VARIABLES
  link,       \* the attempts to connect, and what has become of them
  mgr,        \* the managers' part
  store,      \* iControllerStore
  cache,      \* iHostResolverCache, of handles
  handles,    \* the handles of host resolvers that are open
  reading,    \* the connection that is read in place, or 0
  sends,      \* requests sent, for the bound
  panic       \* assertions that have failed, and uses of what is deleted

vars == <<link, mgr, store, cache, handles, reading, sends, panic>>
world == [link |-> link, mgr |-> mgr, store |-> store, cache |-> cache,
          handles |-> handles, reading |-> reading, sends |-> sends, panic |-> panic]

Links == 1 .. MaxConnects

\* A status request: nobody's, with the server, or completed with an error code.
Codes == {"KErrNone", "KErrNotReady", "KErrGeneral", "KErrEof"}
Requests == {"none", "pending"} \cup Codes
Done(r) == r \in Codes

\* "unused" and "gone": before NewL and after Suicide.
ConnectStates == {"unused", "EPendingDNSLookup", "EConnecting", "EConnected", "gone"}
InputStates   == {"EIdle", "ERead", "EReceivedData", "EPendingAck", "EClosed"}
OutputStates  == {"EIdle", "EPendingSend", "ESentData", "EStartSecureHandshake",
                  "ESecureHandshakeComplete", "EClosed"}

Link ==
  [owner : Mgr \cup {"nobody"},
   connector : ConnectStates, connect : Requests, resolver : 0 .. MaxConnects,
   restarted : BOOLEAN,          \* bound: the interface comes up at once
   controller : {"none", "up", "deleted"},
   input : InputStates, read : Requests, suspended : BOOLEAN,
   output : OutputStates, write : Requests,
   timers : SUBSET {"receive", "send"},
   served : 0 .. MaxData,        \* requests the server has
   answers : 0 .. MaxData,       \* its answers, and those read from the socket
   taken : 0 .. MaxData,         \* the last one is in iBuffer
   eof : BOOLEAN]                \* the server has closed

\* iInputStream and iOutputStream name the link, 0 is NULL.
Manager ==
  [phase : {"idle", "connecting", "upgrading", "connected", "closing"},
   connector : 0 .. MaxConnects, in : 0 .. MaxConnects, out : 0 .. MaxConnects,
   asked : 0 .. MaxData, confirmed : 0 .. MaxData, got : 0 .. MaxData,
   holds : BOOLEAN, timedOut : BOOLEAN]

Assertions == {"EBadInputStreamState", "EInputStreamAlreadySuspended", "EInputStreamNotSuspended",
               "EBadOutputStreamState", "EBadHandle", "EUser", "deleted"}

TypeOK ==
  /\ link \in [Links -> Link]
  /\ mgr \in [Mgr -> Manager]
  /\ store \subseteq Links
  /\ cache \in Seq(Links) /\ handles \subseteq Links
  /\ reading \in 0 .. MaxConnects /\ sends \in 0 .. MaxData
  /\ panic \subseteq Assertions

NewLink ==
  [owner |-> "nobody", connector |-> "unused", connect |-> "none", resolver |-> 0,
   restarted |-> FALSE, controller |-> "none",
   input |-> "EIdle", read |-> "none", suspended |-> FALSE,
   output |-> "EIdle", write |-> "none", timers |-> {},
   served |-> 0, answers |-> 0, taken |-> 0, eof |-> FALSE]

NewManager ==
  [phase |-> "idle", connector |-> 0, in |-> 0, out |-> 0, asked |-> 0, confirmed |-> 0,
   got |-> 0, holds |-> FALSE, timedOut |-> FALSE]

Init ==
  /\ link = [i \in Links |-> NewLink]
  /\ mgr = [m \in Mgr |-> NewManager]
  /\ store = {} /\ cache = <<>> /\ handles = {} /\ reading = 0 /\ sends = 0 /\ panic = {}

Becomes(w) ==
  /\ link' = w.link /\ mgr' = w.mgr /\ store' = w.store /\ cache' = w.cache
  /\ handles' = w.handles /\ reading' = w.reading /\ sends' = w.sends /\ panic' = w.panic

Panic(w, name) == [w EXCEPT !.panic = @ \cup {name}]
Check(w, holds, name) == IF holds THEN w ELSE Panic(w, name)
Alive == panic = {}

-----------------------------------------------------------------------------
(* Connectors, and the cache of host resolvers *)

InConnectorStore(w) == {i \in Links : w.link[i].connector \notin {"unused", "gone"}}

EmptyHostResolverCacheIfNeeded(w) ==
  IF InConnectorStore(w) = {} /\ w.store = {}
  THEN [w EXCEPT !.handles = @ \ ToSet(w.cache), !.cache = <<>>]
  ELSE w

AddToHostResolverCache(w, i) == [w EXCEPT !.cache = Append(@, w.link[i].resolver)]

\* Mutant: nobody completes the request.
FailInPlaceSilently(w, i, code) ==
  [w EXCEPT !.link[i].connector = "EPendingDNSLookup", !.link[i].connect = "none"]

\* A connector that fails in place completes itself with the error.
FailInPlace(w, i, code) ==
  [w EXCEPT !.link[i].connector = "EPendingDNSLookup", !.link[i].connect = code]

\* Mutant: the handle stays in the cache.
DoPendingDNSLookupShared(w, i, open) ==
  LET cached == w.cache # <<>>
      h == IF cached THEN Last(w.cache) ELSE CHOOSE k \in Links : k \notin w.handles
  IN IF ~cached /\ open # "KErrNone" THEN FailInPlace(w, i, open)
     ELSE [w EXCEPT !.handles = @ \cup {h}, !.link[i].resolver = h,
                    !.link[i].connector = "EConnecting", !.link[i].connect = "pending"]

\* The last handle of the cache, or a new one, which may fail to open.
DoPendingDNSLookup(w, i, open) ==
  LET cached == w.cache # <<>>
      h == IF cached THEN Last(w.cache) ELSE CHOOSE k \in Links : k \notin w.handles
      v == [w EXCEPT !.cache = IF cached THEN Front(@) ELSE @,
                     !.handles = @ \cup {h},
                     !.link[i].resolver = h,
                     !.link[i].connector = "EConnecting",
                     !.link[i].connect = "pending"]
  IN IF ~cached /\ open # "KErrNone" THEN FailInPlace(w, i, open)
     ELSE Check(v, h \in w.handles \/ ~cached, "EBadHandle")

\* The connection is there or is started, or that fails.
DoConnect(w, i, start) ==
  LET v == IF w.link[i].resolver # 0 THEN AddToHostResolverCache(w, i) ELSE w
  IN IF start = "KErrNone"
     THEN [v EXCEPT !.link[i].connector = "EConnected", !.link[i].connect = "pending"]
     ELSE [v EXCEPT !.link[i].connect = start]

\* CTcpTransportLayer::ConnectL for m.  The address of the host is known from a
\* connection to it that is in the store.
CanConnect(w) == \E i \in Links : w.link[i].connector = "unused"
NextLink(w) == CHOOSE i \in Links : /\ w.link[i].connector = "unused"
                                    /\ \A j \in 1 .. i - 1 : w.link[j].connector # "unused"
ConnectL(w, m, result) ==
  LET i == NextLink(w)
      v == [w EXCEPT !.link[i].owner = m, !.mgr[m].connector = i, !.mgr[m].phase = "connecting"]
      u == DoConnect(v, i, result)
  IN IF w.store = {} THEN DoPendingDNSLookup(v, i, result)
     ELSE IF result = "KErrNone" THEN u
     ELSE FailInPlace(u, i, result)

Suicide(w, i) ==
  EmptyHostResolverCacheIfNeeded(
    [w EXCEPT !.link[i].connector = "gone", !.link[i].connect = "none",
              !.link[i].resolver = 0, !.link[i].restarted = FALSE])

\* DoCancel of a connector; its socket goes with the attempt.
CancelConnect(w, i) ==
  LET v == [w EXCEPT !.link[i].connect = "none"]
  IN IF w.link[i].connect # "none" /\ w.link[i].connector = "EConnecting"
     THEN AddToHostResolverCache(v, i) ELSE v

-----------------------------------------------------------------------------
(* The managers' callbacks for the end of a connection or of an attempt *)

SetIdleState(w, m) ==
  [w EXCEPT !.mgr[m] = [NewManager EXCEPT !.in = w.mgr[m].in, !.out = w.mgr[m].out]]

\* A connection lost before anything was sent on it is made again: `again'.
HandleSocketError(w, m, again) ==
  IF w.mgr[m].phase # "closing" /\ again
  THEN ConnectL(SetIdleState(w, m), m, "KErrNone")
  ELSE SetIdleState(w, m)

InputStreamCloseInd(w, m, again) ==
  LET v == [w EXCEPT !.mgr[m].in = 0]
  IN IF w.mgr[m].out # 0 THEN HandleSocketError(v, m, again) ELSE v

\* Mutant: the manager keeps the stream.
OutputStreamCloseIndKeeps(w, m, again) ==
  IF w.mgr[m].in # 0 THEN HandleSocketError(w, m, again) ELSE w

OutputStreamCloseInd(w, m, again) ==
  LET v == [w EXCEPT !.mgr[m].out = 0]
  IN IF w.mgr[m].in # 0 THEN HandleSocketError(v, m, again) ELSE v

HandleConnectError(w, m) ==
  SetIdleState([w EXCEPT !.mgr[m].connector = 0], m)

-----------------------------------------------------------------------------
(* Reader, writer and controller *)

CancelRead(w, i)  == [w EXCEPT !.link[i].read = "none"]
CancelWrite(w, i) == [w EXCEPT !.link[i].write = "none"]
CompleteRead(w, i) == [w EXCEPT !.link[i].read = "KErrNone"]

InputSocketClosed(w, i, again) ==
  [InputStreamCloseInd(CancelRead(w, i), w.link[i].owner, again)
     EXCEPT !.link[i].input = "EClosed"]

\* Mutant: the stream does not move to EClosed.
OutputSocketClosedOpen(w, i, again) ==
  OutputStreamCloseInd(CancelWrite(w, i), w.link[i].owner, again)

OutputSocketClosed(w, i, again) ==
  [OutputStreamCloseInd(CancelWrite(w, i), w.link[i].owner, again)
     EXCEPT !.link[i].output = "EClosed"]

\* The destructors of the two streams check their states.
DeleteController(w, i) ==
  LET a == Check(w, w.link[i].input \in {"EIdle", "EClosed"}, "EBadInputStreamState")
      b == Check(a, w.link[i].output \in {"EIdle", "EClosed"}, "EBadOutputStreamState")
  IN [b EXCEPT !.link[i] = [NewLink EXCEPT !.controller = "deleted", !.connector = "gone"]]

\* CSocketController::StreamClosed by the input or the output stream.
StreamClosed(w, i, stream, again) ==
  LET v == IF stream = "input" THEN OutputSocketClosed(w, i, again)
           ELSE InputSocketClosed(w, i, again)
      u == EmptyHostResolverCacheIfNeeded([v EXCEPT !.store = @ \ {i}])
  IN IF i \in w.store THEN DeleteController(u, i) ELSE v

\* RunError of either stream: its own observer first, then the other stream.
InputFails(w, i, again) ==
  StreamClosed(InputStreamCloseInd([w EXCEPT !.link[i].input = "EClosed", !.link[i].read = "none"],
                                   w.link[i].owner, again), i, "input", again)
OutputFails(w, i, again) ==
  StreamClosed(OutputStreamCloseInd([w EXCEPT !.link[i].output = "EClosed", !.link[i].write = "none"],
                                    w.link[i].owner, again), i, "output", again)

\* CHttpConnectionManager::CloseConnection and CSocketReader::Close.
CloseConnection(w, m) ==
  LET i == w.mgr[m].in
      v == CancelRead([w EXCEPT !.mgr[m].phase = "closing"], i)
      u == [StreamClosed([v EXCEPT !.link[i].input = "EClosed"], i, "input", FALSE)
              EXCEPT !.mgr[m].in = 0]
  IN Check(u, u.mgr[m].phase = "idle", "EUser")

Suspend(w, i) ==
  LET v == Check(CancelRead(w, i), ~w.link[i].suspended, "EInputStreamAlreadySuspended")
  IN [v EXCEPT !.link[i].input = IF @ = "EReceivedData" THEN "ERead" ELSE @,
               !.link[i].suspended = TRUE]

\* Mutant: the read is not issued again.
ResumeOnly(w, i) == [w EXCEPT !.link[i].suspended = FALSE]

Resume(w, i) ==
  LET v == Check(w, w.link[i].suspended, "EInputStreamNotSuspended")
      u == [v EXCEPT !.link[i].suspended = FALSE]
  IN IF w.link[i].input = "ERead" THEN CompleteRead(u, i) ELSE u

ReceivedDataRes(w, i) ==
  LET v == Check(w, w.link[i].input = "EPendingAck", "EBadInputStreamState")
      u == [v EXCEPT !.link[i].input = "ERead", !.link[i].timers = @ \cup {"receive"}]
  IN IF w.link[i].suspended THEN u ELSE CompleteRead(u, i)

SecureClientReq(w, i) ==
  LET v == Check(w, w.link[i].output = "EPendingSend", "EBadOutputStreamState")
  IN [Suspend(v, i) EXCEPT !.link[i].output = "EStartSecureHandshake",
                           !.link[i].write = "KErrNone"]

\* The controller's streams, as the manager binds them.
ConnectionMade(w, i) ==
  LET m == w.link[i].owner
      v == [w EXCEPT !.link[i].controller = "up", !.link[i].input = "ERead",
                     !.link[i].read = "KErrNone", !.link[i].output = "EPendingSend",
                     !.mgr[m].connector = 0, !.mgr[m].in = i, !.mgr[m].out = i]
  IN IF m \in Secure THEN [SecureClientReq(v, i) EXCEPT !.mgr[m].phase = "upgrading"]
     ELSE [v EXCEPT !.mgr[m].phase = "connected"]

-----------------------------------------------------------------------------
(* Actions of a manager *)

\* While a manager reads in place it does nothing else with that connection.
Free(m) == reading = 0 \/ mgr[m].in # reading \/ "nestedLoss" \in Env

Connect(m, result) ==
  /\ Alive /\ mgr[m].phase = "idle" /\ CanConnect(world)
  /\ result # "KErrNotReady" \/ (store = {} /\ "notReady" \in Env)
  /\ Becomes(ConnectL(world, m, result))

StopConnect(m) ==
  /\ Alive /\ mgr[m].phase = "connecting"
  /\ LET i == mgr[m].connector
     IN Becomes(SetIdleState([Suicide(CancelConnect(world, i), i)
                                EXCEPT !.mgr[m].connector = 0], m))

\* The composer's next piece, after the confirmation of the last.
SendDataReq(m) ==
  /\ Alive /\ mgr[m].phase = "connected" /\ ~mgr[m].timedOut
  /\ mgr[m].asked = mgr[m].confirmed /\ sends < MaxData
  /\ LET i == mgr[m].out
         v == Check(world, link[i].output = "EPendingSend", "EBadOutputStreamState")
     IN Becomes([v EXCEPT !.mgr[m].asked = @ + 1, !.sends = @ + 1,
                          !.link[i].output = "ESentData", !.link[i].write = "pending",
                          !.link[i].timers = @ \cup {"send"}])

GiveBack(m) ==
  /\ Alive /\ mgr[m].holds /\ mgr[m].in # reading
  /\ Becomes(ReceivedDataRes([world EXCEPT !.mgr[m].holds = FALSE], mgr[m].in))

\* CancelSubmission on an open connection; a waiting transaction makes the manager
\* connect again.
Close(m, again) ==
  /\ Alive /\ mgr[m].phase \in {"upgrading", "connected"} /\ Free(m)
  /\ again => CanConnect(world)
  /\ LET w == CloseConnection(world, m)
     IN Becomes(IF again THEN ConnectL(w, m, "KErrNone") ELSE w)

\* DoResponseCompletion: the response that is cancelled is read to its end in
\* place, as far as the socket has data; otherwise the connection is closed.
PendingBytesToRead(w, i) == w.link[i].answers > w.link[i].taken

ImmediateRead(w, i) == [Suspend(w, i) EXCEPT !.reading = i]

ReadOn(w, m) ==
  IF PendingBytesToRead(w, w.mgr[m].in) THEN ImmediateRead(w, w.mgr[m].in)
  ELSE CloseConnection(w, m)

CompleteResponse(m) ==
  /\ Alive /\ "immediate" \in Env /\ reading = 0
  /\ mgr[m].phase = "connected" /\ ~mgr[m].timedOut
  /\ mgr[m].got < mgr[m].confirmed \/ mgr[m].holds
  /\ (Done(link[mgr[m].in].read) /\ link[mgr[m].in].input = "EReceivedData")
       => "immediateReady" \in Env
  /\ PendingBytesToRead(world, mgr[m].in)
  /\ link[mgr[m].in].write = "KErrGeneral" => "nestedLoss" \in Env
  /\ Becomes(ReadOn(world, m))

\* The nested scheduler has stopped.  The parser has seen the end of the response,
\* or wants more, or there is nobody left to read for.  The waiter, too, runs after
\* the writer.
ImmediateReadReturns(then) ==
  /\ Alive /\ reading # 0 /\ ~Done(link[reading].write)
  /\ LET i == reading
         m == link[i].owner
         k == link[i].taken + 1
         v == [world EXCEPT !.reading = 0, !.link[i].taken = k,
                            !.link[i].input = "EPendingAck", !.mgr[m].got = k,
                            !.mgr[m].holds = TRUE]
         u == Resume(v, i)
     IN Becomes(IF link[i].controller = "deleted" THEN Panic(world, "deleted")
                ELSE IF then = "complete"
                     THEN ReceivedDataRes([u EXCEPT !.mgr[m].holds = FALSE], i)
                ELSE IF then = "more" THEN ReadOn(u, m)
                ELSE CloseConnection(u, m))

-----------------------------------------------------------------------------
(* The network and the server *)

\* The interface: a secure handshake takes no request of the server's.
SendCompletes(i, code) ==
  /\ Alive /\ link[i].write = "pending"
  /\ code # "KErrNone" => (reading # i \/ "nestedLoss" \in Env)
  /\ link' = [link EXCEPT ![i].write = code,
                          ![i].served = IF code = "KErrNone" /\ link[i].output = "ESentData"
                                        THEN @ + 1 ELSE @]
  /\ UNCHANGED <<mgr, store, cache, handles, reading, sends, panic>>

Answer(i) ==
  /\ Alive /\ link[i].controller = "up" /\ ~link[i].eof /\ link[i].answers < link[i].served
  /\ link' = [link EXCEPT ![i].answers = @ + 1]
  /\ UNCHANGED <<mgr, store, cache, handles, reading, sends, panic>>

HangUp(i) ==
  /\ Alive /\ link[i].controller = "up" /\ ~link[i].eof
  /\ link' = [link EXCEPT ![i].eof = TRUE]
  /\ UNCHANGED <<mgr, store, cache, handles, reading, sends, panic>>

\* RecvOneOrMore takes what the socket has into the buffer.
RecvCompletes(i) ==
  /\ Alive /\ link[i].read = "pending"
  /\ \/ /\ PendingBytesToRead(world, i)
        /\ link' = [link EXCEPT ![i].read = "KErrNone", ![i].taken = @ + 1]
     \/ /\ ~PendingBytesToRead(world, i) /\ link[i].eof
        /\ link' = [link EXCEPT ![i].read = "KErrEof"]
  /\ UNCHANGED <<mgr, store, cache, handles, reading, sends, panic>>

-----------------------------------------------------------------------------
(* The active objects *)

\* What may be left of a connector's request: its own completion, or an answer.
Outcomes(i) ==
  IF link[i].connect # "pending" THEN {link[i].connect}
  ELSE {"KErrNone", "KErrGeneral"} \cup
       (IF "notReady" \in Env /\ ~link[i].restarted /\ link[i].connector = "EConnecting"
        THEN {"KErrNotReady"} ELSE {})

\* RunL and RunError of a connector.
RunConnector(i, code, next) ==
  /\ Alive /\ link[i].connect # "none" /\ code \in Outcomes(i)
  /\ LET m == link[i].owner
         w == [world EXCEPT !.link[i].connect = "none"]
         Fails(v) == Suicide(HandleConnectError(v, m), i)
         Proceed ==
           CASE link[i].connector = "EPendingDNSLookup" -> DoPendingDNSLookup(w, i, next)
             [] link[i].connector = "EConnecting" ->
                  LET v == DoConnect(w, i, next)
                  IN IF next = "KErrNone" THEN v ELSE Fails(v)
             [] OTHER ->
                  Suicide([ConnectionMade(w, i) EXCEPT !.store = @ \cup {i}], i)
     IN IF code = "KErrNone" THEN Becomes(Proceed)
        ELSE IF code = "KErrNotReady" /\ link[i].connector # "EConnected"
        THEN Becomes([w EXCEPT !.link[i].connect = "KErrNone", !.link[i].restarted = TRUE])
        ELSE Becomes(Fails(w))

\* RunL and RunError of a writer.
RunWriter(i, again) ==
  /\ Alive /\ Done(link[i].write)
  /\ again => (link[i].write # "KErrNone" /\ CanConnect(world))
  /\ LET m == link[i].owner
         w == [world EXCEPT !.link[i].write = "none", !.link[i].timers = @ \ {"send"}]
         state == link[i].output
     IN IF link[i].write # "KErrNone" THEN Becomes(OutputFails(w, i, again))
        ELSE CASE state = "ESentData" ->
                    Becomes([w EXCEPT !.link[i].output = "EPendingSend",
                                      !.mgr[m].confirmed = @ + 1,
                                      !.link[i].timers = (@ \ {"send"}) \cup {"receive"}])
               [] state = "EStartSecureHandshake" ->
                    Becomes([w EXCEPT !.link[i].output = "ESecureHandshakeComplete",
                                      !.link[i].write = "pending"])
               [] OTHER ->
                    Becomes(Resume([w EXCEPT !.link[i].output = "EPendingSend",
                                             !.mgr[m].phase = "connected"], i))

\* Mutant: the reader is made before the writer.
WriterWaits(i) == TRUE

\* The controller has added the writer to the scheduler first: when both are
\* ready, the writer runs first.
WriterFirst(i) == ~Done(link[i].write)

\* RunL and RunError of a reader.
RunReader(i, again) ==
  /\ Alive /\ Done(link[i].read) /\ WriterFirst(i)
  /\ again => (link[i].read # "KErrNone" /\ CanConnect(world))
  /\ LET m == link[i].owner
         w == [world EXCEPT !.link[i].read = "none"]
     IN IF link[i].read # "KErrNone" THEN Becomes(InputFails(w, i, again))
        ELSE IF link[i].input = "ERead"
        THEN Becomes([w EXCEPT !.link[i].input = "EReceivedData", !.link[i].read = "pending"])
        ELSE Becomes([w EXCEPT !.link[i].input = "EPendingAck", !.mgr[m].got = link[i].taken,
                               !.mgr[m].holds = TRUE, !.link[i].timers = @ \ {"receive"}])

\* A timer's RunL: the stream's request is cancelled, and the manager fails the
\* transaction; the client cancels it, which closes the connection.  A timer is made
\* later than the streams, and runs after them.
TimeOut(i, timer) ==
  /\ Alive /\ "timeouts" \in Env /\ timer \in link[i].timers
  /\ ~Done(link[i].read) /\ ~Done(link[i].write)
  /\ LET w == [world EXCEPT !.link[i].timers = @ \ {timer}, !.mgr[link[i].owner].timedOut = TRUE]
     IN Becomes(IF timer = "receive" THEN CancelRead(w, i) ELSE CancelWrite(w, i))

Next ==
  \/ \E m \in Mgr :
       \/ \E result \in {"KErrNone", "KErrNotReady", "KErrGeneral"} : Connect(m, result)
       \/ StopConnect(m) \/ SendDataReq(m) \/ GiveBack(m) \/ CompleteResponse(m)
       \/ \E again \in BOOLEAN : Close(m, again)
  \/ \E then \in {"complete", "more", "close"} : ImmediateReadReturns(then)
  \/ \E i \in Links :
       \/ \E code \in {"KErrNone", "KErrGeneral"} : SendCompletes(i, code)
       \/ Answer(i) \/ HangUp(i) \/ RecvCompletes(i)
       \/ \E code \in Codes, next \in {"KErrNone", "KErrGeneral"} : RunConnector(i, code, next)
       \/ \E again \in BOOLEAN : RunWriter(i, again) \/ RunReader(i, again)
       \/ \E timer \in {"receive", "send"} : TimeOut(i, timer)

Spec == Init /\ [][Next]_vars

-----------------------------------------------------------------------------
(* Properties *)

\* No assertion of the transport or of a manager fails, no resolver is used after
\* its Close, ImmediateRead never returns into a reader that is gone, and nothing
\* loses its type.
NoPanic == TypeOK /\ panic = {}

\* The controller's store holds exactly the connections whose two streams are open
\* (StreamClosed closes the other stream, leaves the store and deletes), both are
\* bound to the manager that made them, and a manager knows no other streams and no
\* connector but the one that works for it.  A host resolver has one query at a time:
\* one that a connector waits for is in nobody else's hands, neither another
\* connector's nor the cache's, and it is open.  No assertion fails.
Query(i) == link[i].connector = "EConnecting" /\ link[i].connect = "pending"
StoreExact ==
  /\ NoPanic
  /\ store = {i \in Links : /\ link[i].controller = "up"
                            /\ link[i].input # "EClosed" /\ link[i].output # "EClosed"}
  /\ \A i \in Links : link[i].controller = "up" => i \in store
  /\ \A i \in store : mgr[link[i].owner].in = i /\ mgr[link[i].owner].out = i
  /\ \A m \in Mgr : {mgr[m].in, mgr[m].out} \subseteq store \cup {0}
  /\ \A m \in Mgr, i \in Links :
       mgr[m].connector = i <=> i \in InConnectorStore(world) /\ link[i].owner = m
  /\ IsInjective(cache) /\ ToSet(cache) \subseteq handles
  /\ \A i \in Links : Query(i) => link[i].resolver \in handles \ ToSet(cache)
  /\ \A i, j \in Links : Query(i) /\ Query(j) /\ i # j => link[i].resolver # link[j].resolver

\* The streams keep what HttpStreams says: one write at a time, answers in order,
\* none lost, each after the confirmation of its request.
Streams ==
  INSTANCE HttpStreams WITH
    phase <- [m \in Mgr |-> IF mgr[m].phase = "connected" THEN "open" ELSE mgr[m].phase],
    asked <- [m \in Mgr |-> mgr[m].asked],
    confirmed <- [m \in Mgr |-> mgr[m].confirmed],
    got <- [m \in Mgr |-> mgr[m].got],
    holds <- [m \in Mgr |-> mgr[m].holds]
KeepsStreams == Streams!Spec

-----------------------------------------------------------------------------
(* Fairness: the scheduler runs what is ready, the network completes what it has
   been asked for, managers give back what they hold and close what has timed out,
   and a nested scheduler stops. *)

FairSpec ==
  /\ Spec
  /\ \A i \in Links :
       /\ []<>(link[i].connect = "none" \/ ~Alive)
            \/ []<><<\E code \in Codes, next \in {"KErrNone", "KErrGeneral"} : RunConnector(i, code, next)>>_vars
       /\ []<>(~Done(link[i].write) \/ ~Alive) \/ []<><<\E again \in BOOLEAN : RunWriter(i, again)>>_vars
       /\ []<>(~Done(link[i].read) \/ Done(link[i].write) \/ ~Alive)
            \/ []<><<\E again \in BOOLEAN : RunReader(i, again)>>_vars
       /\ []<>(link[i].write # "pending" \/ ~Alive)
            \/ []<><<\E code \in {"KErrNone", "KErrGeneral"} : SendCompletes(i, code)>>_vars
       /\ []<>(link[i].read # "pending" \/ ~(PendingBytesToRead(world, i) \/ link[i].eof) \/ ~Alive)
            \/ []<><<RecvCompletes(i)>>_vars
  /\ \A m \in Mgr :
       /\ []<>(~mgr[m].holds \/ mgr[m].in = reading \/ ~Alive) \/ []<><<GiveBack(m)>>_vars
       /\ []<>(~mgr[m].timedOut \/ ~Free(m) \/ ~Alive) \/ []<><<Close(m, FALSE)>>_vars
  /\ []<>(reading = 0 \/ Done(link[reading].write) \/ ~Alive)
       \/ []<><<\E then \in {"complete", "more", "close"} : ImmediateReadReturns(then)>>_vars

\* Every attempt to connect, and every upgrade, comes to an end; and an answer of the
\* server reaches the manager, unless the connection ends first: a reader is never
\* left suspended or without a request.
Answered ==
  /\ \A m \in Mgr : mgr[m].phase \in {"connecting", "upgrading"}
                    ~> mgr[m].phase \notin {"connecting", "upgrading"}
  /\ \A i \in Links, k \in 1 .. MaxData :
       (link[i].controller = "up" /\ link[i].answers >= k)
         ~> (link[i].controller = "deleted" \/ \E m \in Mgr : mgr[m].in = i /\ mgr[m].got >= k)
=============================================================================
