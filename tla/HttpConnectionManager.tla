----------------------- MODULE HttpConnectionManager -----------------------
(***************************************************************************)
(* CHttpConnectionManager: one TCP connection of the HTTP client protocol  *)
(* handler, on which transactions are sent one by one or pipelined.        *)
(*                                                                         *)
(* The manager runs inside one active scheduler: its methods are called    *)
(* back by the socket streams, by the request composer (MHttpRequest) and  *)
(* by the response parser (MHttpResponse) of each transaction, and it      *)
(* calls them back in turn.  A call that the code makes synchronously is   *)
(* an operator from world to world here (world = every variable, as one    *)
(* record), so that an action is a whole active object event with all the  *)
(* nested calls it makes; the order of active object events is free.       *)
(*                                                                         *)
(* A transaction stands for its composer and its parser: the request and   *)
(* the response pointers of the source are both transactions here.         *)
(***************************************************************************)
EXTENDS Naturals, Sequences, SequencesExt, FiniteSets

CONSTANTS
  Tx,                  \* the transactions of the session
  None,                \* the NULL request or response pointer
  HasBody,             \* transactions whose request has an entity body
  Pipelinable,         \* transactions PrepareTransactionL finds pipelinable
  Secure,              \* transactions for the https scheme
  HostOf,              \* host and port each transaction goes to
  Notified,            \* transactions that ask for ENotifyOnDisconnect
  Redirected,          \* transactions the server answers with a 3xx
  OwnConnection,       \* transactions whose request says Connection: close
  MaxToPipeline,       \* iMaxTransactionsToPipeline
  KMaxRetryCount,      \* CHttpClientTransaction::RetryNeeded
  MaxSubmissions,      \* bound: how often a transaction is submitted
  Env                  \* what the environment may do, see below

(***************************************************************************)
(* Env is the set of the environment's liberties:                          *)
(*  "firstUnread" a transaction is submitted while the first one on the    *)
(*                connection is complete but for the client's reading it   *)
(*  "cancel"      the client cancels a transaction while the connection is  *)
(*                being made, or one whose request is held back            *)
(*  "cancelCurrent"  the client cancels the one whose response is the      *)
(*                current one                                              *)
(*  "cancelSent"  the client cancels one whose request is being sent or    *)
(*                was, and whose response is queued behind another one's   *)
(*  "cancelUnread"  the client cancels one that is complete but for the    *)
(*                client's reading it                                      *)
(*  "close"       a response says Connection: close (or is HTTP/1.0)       *)
(*  "unknown"     a response has a body that only the close delimits       *)
(*  "early"       the server answers a request it has not fully received   *)
(*  "overtake"    an answer is read before the write of its request is     *)
(*                confirmed: EDiscardSndDataCnf is for that, although      *)
(*                CSocketController says it cannot happen                  *)
(*  "hangup"      the server closes a connection without announcing it     *)
(*  "fail"        the socket reports another error                         *)
(*  "connectFail" a connection cannot be made                              *)
(*  "malformed"   the parser leaves on a response                          *)
(***************************************************************************)
Liberties == {"firstUnread", "cancel", "cancelCurrent", "cancelSent", "cancelUnread", "close",
              "unknown", "early", "overtake", "hangup", "fail", "connectFail", "malformed"}

ASSUME ConstantsAssumption ==
  /\ None \notin Tx
  /\ HasBody \subseteq Tx /\ Pipelinable \subseteq Tx \ HasBody
  /\ Secure \subseteq Tx /\ Notified \subseteq Tx /\ Redirected \subseteq Tx
  /\ OwnConnection \subseteq Tx
  /\ MaxToPipeline \in Nat /\ KMaxRetryCount \in Nat /\ MaxSubmissions \in Nat
  /\ Env \subseteq Liberties

VARIABLES
  cm,      \* the members of the connection manager
  tx,      \* per transaction: its composer, its parser, what the client knows
  sock,    \* the socket streams, and the server behind them
  panic    \* the source's assertions that have failed, and NULL dereferences

vars == <<cm, tx, sock, panic>>
world == [cm |-> cm, tx |-> tx, sock |-> sock, panic |-> panic]

States == {"EIdle", "EIdleConnected", "EConnecting", "EUpgrading", "EConnected", "EClosing"}
Flags  == {"ECannotPipeline", "EFirstTransaction", "EPendingWriteInConnectedState",
           "EDiscardSndDataCnf"}

\* "start", "part", "last" and "ending": the composer's RunL is due; "headers",
\* "partSent" and "lastSent": its buffer is with the output stream
\* (EWaitingForRelease); "wanted": it waits for the client's next body part.
\* An entity body has two parts.
ComposerStates == {"idle", "start", "headers", "part", "partSent", "wanted", "last",
                   "lastSent", "ending", "sent"}
ComposerReady == {"start", "part", "last", "ending"}
\* "run": data is there and RunL is due; "end": RunL is due in EMessageComplete.
ParserStates == {"wait", "run", "end"}
\* "active": the transaction has a connection manager.  "retry": it was told
\* KErrHttp[Non]PipeliningError and CHttpClientFilter will submit it again.
Statuses == {"new", "active", "completed", "failed", "retry", "cancelled"}
Lengths  == {"none", "sized", "unknown"}
Piece    == [t : Tx, part : {"head", "tail"}, close : BOOLEAN, len : Lengths]
Hosts    == {HostOf[t] : t \in Tx}

\* The assertions of the source, and the NULL pointers it could use.
Assertions ==
  {"CancelSubmission: no pending response", "CancelSubmission: request without response",
   "CloseConnection: not EIdle", "DisablePipelining", "HandleConnectError: not EIdle",
   "RequestComplete: not EConnected", "ResponseDataParsed: not EConnected",
   "ResponseDataParsed: pending responses", "SendRequestDataL: not EConnected",
   "SubmitL: CannotPipeline", "composer not EWaitingForInfo",
   "composer not EWaitingForRelease", "no current request", "no current response",
   "no input stream", "parser not EWaitingForData", "reader not EPendingAck",
   "transaction without connection manager", "writer busy"}

Manager == [state : States, flags : SUBSET Flags,
            curReq : Tx \cup {None}, curResp : Tx \cup {None},
            pendReq : Seq(Tx), pendResp : Seq(Tx), excess : BOOLEAN,
            host : Hosts \cup {None}, secure : BOOLEAN, nonPersistent : BOOLEAN,
            secureRetry : BOOLEAN, connector : BOOLEAN]
Transaction == [status : Statuses, comp : ComposerStates, parse : ParserStates,
                hdr : BOOLEAN, len : Lengths, body : BOOLEAN, unread : BOOLEAN,
                hold : BOOLEAN, msgDone : BOOLEAN, pipeline : BOOLEAN,
                retries : Nat, submissions : Nat]
Socket == [open : BOOLEAN, writer : Tx \cup {None}, reader : {"read", "ack"},
           buf : Seq(Piece), net : Seq(Piece), wire : Seq(Tx), sent : SUBSET Tx,
           hup : BOOLEAN]
World == [cm : Manager, tx : [Tx -> Transaction], sock : Socket, panic : SUBSET Assertions]

TypeOK == world \in World

ClosedSocket == [open |-> FALSE, writer |-> None, reader |-> "read", buf |-> <<>>,
                 net |-> <<>>, wire |-> <<>>, sent |-> {}, hup |-> FALSE]

NewTransaction(t) ==
  [status |-> "new", comp |-> "idle", parse |-> "wait", hdr |-> FALSE, len |-> "none",
   body |-> FALSE, unread |-> FALSE, hold |-> FALSE, msgDone |-> FALSE,
   pipeline |-> t \in Pipelinable, retries |-> 0, submissions |-> 0]

Init ==
  /\ cm = [state |-> "EIdle", flags |-> {}, curReq |-> None, curResp |-> None,
           pendReq |-> <<>>, pendResp |-> <<>>, excess |-> FALSE, host |-> None,
           secure |-> FALSE, nonPersistent |-> FALSE, secureRetry |-> FALSE,
           connector |-> FALSE]
  /\ tx = [t \in Tx |-> NewTransaction(t)]
  /\ sock = ClosedSocket
  /\ panic = {}

\* The world becomes w.  After a panic the program is gone.
Becomes(w) == cm' = w.cm /\ tx' = w.tx /\ sock' = w.sock /\ panic' = w.panic
Alive == panic = {}

\* The message composers and parsers run at CActive::EPriorityStandard + 1, the
\* socket's active objects and the protocol handler at EPriorityStandard: the
\* latter wait until no composer and no parser is ready.
Quiet == Alive /\ \A t \in Tx : /\ tx[t].comp \notin ComposerReady
                              /\ tx[t].parse = "wait"

Panic(w, name) == [w EXCEPT !.panic = @ \cup {name}]

-----------------------------------------------------------------------------
(* Calls the manager makes on composers, parsers and streams.              *)

\* iCurrentRequest->StartRequest(): CHttpMessageComposer::MessageInfoAvailable
\* asserts that the composer is waiting for info.
StartRequest(w) ==
  LET t == w.cm.curReq IN
  IF t = None THEN Panic(w, "no current request")
  ELSE IF w.tx[t].comp # "idle" THEN Panic(w, "composer not EWaitingForInfo")
  ELSE [w EXCEPT !.tx[t].comp = "start"]

\* CHttpRequestComposer::CancelRequest(): what is with the socket stays there.
CancelRequest(w, t) == [w EXCEPT !.tx[t].comp = "idle"]

\* ResponseDataReceived(): CHttpMessageParser::ReceivedMessageData asserts that
\* the parser is waiting for data.
Feed(w, t) ==
  IF w.tx[t].parse # "wait" THEN Panic(w, "parser not EWaitingForData")
  ELSE [w EXCEPT !.tx[t].parse = "run"]

\* iInputStream->ReceivedDataRes(): the received buffer is given back.
ReceivedDataRes(w) ==
  IF ~w.sock.open THEN Panic(w, "no input stream")
  ELSE IF w.sock.reader # "ack" THEN Panic(w, "reader not EPendingAck")
  ELSE [w EXCEPT !.sock.reader = "read", !.sock.buf = <<>>]

-----------------------------------------------------------------------------
(* The outcome of a transaction.                                           *)

\* CHttpResponseParser::ConnectionError: a lost connection is retried on a
\* new one, up to the retry count; otherwise the error goes to the client.
FinalError(t, r, nonPersistent, err) ==
  IF t \in Notified THEN "reported"
  ELSE IF /\ r.len # "unknown" /\ r.status = "active" /\ r.retries < KMaxRetryCount
          /\ err \in {"eof", "disconnected"} /\ ~nonPersistent
       THEN "nonPipelining"
  ELSE err

\* NotifyObserverError and CHttpClientHandler::SetStatus with that error.
Failed(t, r, nonPersistent, err) ==
  LET e == FinalError(t, r, nonPersistent, err) IN
  [r EXCEPT !.status = IF e \in {"pipelining", "nonPipelining"} THEN "retry" ELSE "failed",
            !.pipeline = @ /\ e # "pipelining"]

\* Mutants: the queues are reset and nobody is told; the requests, or the
\* responses, stay in their queue.
NotifyNobody(w, err) == [w EXCEPT !.cm.pendReq = <<>>, !.cm.pendResp = <<>>]
NotifyKeepsRequests(w, err) ==
  [w EXCEPT !.tx = [t \in Tx |-> IF t \in ToSet(w.cm.pendResp)
                                 THEN Failed(t, w.tx[t], w.cm.nonPersistent, err)
                                 ELSE w.tx[t]],
            !.cm.pendResp = <<>>]
NotifyKeepsResponses(w, err) ==
  [w EXCEPT !.tx = [t \in Tx |-> IF t \in ToSet(w.cm.pendResp)
                                 THEN Failed(t, w.tx[t], w.cm.nonPersistent, err)
                                 ELSE w.tx[t]],
            !.cm.pendReq = <<>>]

NotifyPendingTransactions(w, err) ==
  [w EXCEPT !.tx = [t \in Tx |-> IF t \in ToSet(w.cm.pendResp)
                                 THEN Failed(t, w.tx[t], w.cm.nonPersistent, err)
                                 ELSE w.tx[t]],
            !.cm.pendReq = <<>>, !.cm.pendResp = <<>>]

MakeConnectionNonPersistent(w) ==
  IF w.cm.nonPersistent THEN w
  ELSE [NotifyPendingTransactions([w EXCEPT !.cm.nonPersistent = TRUE], "pipelining")
          EXCEPT !.cm.flags = @ \cup {"ECannotPipeline"}, !.cm.curReq = None]

CheckRequestComplete(w, t) ==
  IF "EFirstTransaction" \in w.cm.flags \/ w.cm.curReq # t THEN w
  ELSE LET w1 == IF w.tx[t].comp = "headers" /\ t \notin HasBody
                 THEN [w EXCEPT !.cm.flags = @ \cup {"EDiscardSndDataCnf"}]
                 ELSE MakeConnectionNonPersistent(w)
       IN  IF w1.cm.curReq = None THEN w1
           ELSE [CancelRequest(w1, w1.cm.curReq) EXCEPT !.cm.curReq = None]

\* CHttpClientHandler::SetStatus(EResponseComplete).
TransactionComplete(w, t) ==
  IF w.tx[t].status # "active" THEN Panic(w, "transaction without connection manager")
  ELSE [CheckRequestComplete(w, t) EXCEPT !.tx[t].status = "completed"]

\* Mutant: the last response is taken.
ResponseCompleteTakesLast(w, hasExcess) ==
  IF w.cm.pendResp = <<>> THEN [w EXCEPT !.cm.curResp = None]
  ELSE [w EXCEPT !.cm.curResp = Last(w.cm.pendResp), !.cm.pendResp = Front(@), !.cm.excess = hasExcess]

ResponseComplete(w, hasExcess) ==
  IF w.cm.pendResp = <<>> THEN [w EXCEPT !.cm.curResp = None]
  ELSE IF "EFirstTransaction" \in w.cm.flags
       THEN [w EXCEPT !.cm.curResp = None, !.cm.excess = hasExcess]
  ELSE [w EXCEPT !.cm.curResp = Head(w.cm.pendResp), !.cm.pendResp = Tail(@),
                 !.cm.excess = hasExcess]

\* CHttpResponseParser::ConnectionError for the current response.  A body that
\* only the close delimits is complete when the peer has closed.
ConnectionError(w, t, err) ==
  IF t = None THEN Panic(w, "no current response")
  ELSE LET r == w.tx[t] IN
    IF r.len = "unknown" /\ ~r.msgDone /\ err \in {"eof", "disconnected"}
    THEN IF r.body
         THEN [w EXCEPT !.tx[t].msgDone = TRUE, !.tx[t].unread = TRUE]
         ELSE TransactionComplete(
                ResponseComplete([w EXCEPT !.tx[t].msgDone = TRUE], FALSE), t)
    ELSE [w EXCEPT !.tx[t] = Failed(t, r, w.cm.nonPersistent, err)]

\* CHttpResponseParser::CancelResponse: the parser is flushed, which completes
\* a message whose end was parsed already, and reset.
CancelResponse(w, t) ==
  LET w1 == IF w.tx[t].parse = "end"
            THEN ResponseComplete([w EXCEPT !.tx[t].msgDone = TRUE], w.sock.buf # <<>>)
            ELSE w
  IN  [w1 EXCEPT !.tx[t].parse = "wait", !.tx[t].hdr = FALSE]

-----------------------------------------------------------------------------
(* State changes of the connection.                                        *)

SetIdleState(w) ==
  [w EXCEPT !.cm.state = "EIdle",
            !.cm.flags = @ \ {"ECannotPipeline", "EPendingWriteInConnectedState"}]

\* Mutant: the streams are left open.
CloseConnectionLeavesStreams(w) == IF w.sock.open THEN SetIdleState(w) ELSE w

\* Both streams are closed and the socket controller is deleted.
CloseConnection(w) ==
  IF w.sock.open THEN SetIdleState([w EXCEPT !.sock = ClosedSocket])
  ELSE IF w.cm.state # "EIdle" THEN Panic(w, "CloseConnection: not EIdle") ELSE w

ReconnectSocketL(w) ==
  [w EXCEPT !.cm.flags = @ \ {"EPendingWriteInConnectedState"},
            !.cm.connector = TRUE, !.cm.state = "EConnecting"]

ReportSocketError(w, err) ==
  IF w.cm.curResp = None THEN w
  ELSE LET w1 == IF w.cm.curReq = None THEN w ELSE CancelRequest(w, w.cm.curReq)
           w2 == CancelResponse(w1, w.cm.curResp)
           w3 == ConnectionError(w2, w2.cm.curResp, err)
           e  == IF w3.cm.state # "EConnecting" /\ w3.cm.pendResp # <<>>
                 THEN "pipelining" ELSE err
       IN  [NotifyPendingTransactions(w3, e) EXCEPT !.cm.curReq = None, !.cm.curResp = None]

\* reconnects says whether MSocketFactory::ConnectL succeeds, if it is called.
HandleSocketError(w, error, reconnects) ==
  LET sslRetry == error = "sslAlert" /\ ~w.cm.secureRetry
      err      == IF sslRetry THEN "eof" ELSE error
      w1       == IF sslRetry THEN [w EXCEPT !.cm.secureRetry = TRUE] ELSE w
      resend   == /\ err = "eof"
                  /\ "EPendingWriteInConnectedState" \in w.cm.flags
                  /\ w.cm.curReq # None /\ w.cm.curReq \notin Notified
  IN  IF w.cm.state = "EClosing" THEN SetIdleState(w)
      ELSE IF ~resend THEN SetIdleState(ReportSocketError(w1, err))
      ELSE LET w2 == CancelRequest(w1, w.cm.curReq) IN
           IF reconnects THEN ReconnectSocketL(w2)
           ELSE SetIdleState(ReportSocketError(
                  [w2 EXCEPT !.cm.flags = @ \ {"EPendingWriteInConnectedState"}], err))

\* InputStreamCloseInd and OutputStreamCloseInd: whichever comes first handles
\* the error; the other finds its sibling gone.
StreamClosed(w, err, reconnects) ==
  HandleSocketError([w EXCEPT !.sock = ClosedSocket], err, reconnects)

UpgradeConnectionL(w) == [w EXCEPT !.cm.state = "EUpgrading"]

\* Mutant: the next request is not started.
RequestCompleteStops(w) ==
  IF "EFirstTransaction" \in w.cm.flags THEN w ELSE [w EXCEPT !.cm.curReq = None]

RequestComplete(w) ==
  IF w.cm.state # "EConnected" THEN Panic(w, "RequestComplete: not EConnected")
  ELSE IF "EFirstTransaction" \in w.cm.flags THEN w
  ELSE IF w.cm.pendReq = <<>> THEN [w EXCEPT !.cm.curReq = None]
  ELSE StartRequest([w EXCEPT !.cm.curReq = Head(w.cm.pendReq), !.cm.pendReq = Tail(@)])

\* Mutant: the connection is idle whether it is persistent or not.
NextOnConnectionAlwaysIdle(w) ==
  [w EXCEPT !.cm.state = "EIdleConnected", !.cm.flags = @ \ {"ECannotPipeline", "EFirstTransaction"}]

\* The response has finished with the connection: the next held back request
\* is started, or the connection becomes idle or waits for its close.
NextOnConnection(w) ==
  LET w1 == IF "EFirstTransaction" \in w.cm.flags
            THEN [w EXCEPT !.cm.flags = @ \ {"EFirstTransaction"}, !.cm.curReq = None]
            ELSE w
      c  == w1.cm
  IN  IF c.pendReq # <<>>
      THEN StartRequest(
             [w1 EXCEPT !.cm.curReq = Head(c.pendReq), !.cm.pendReq = Tail(c.pendReq),
                        !.cm.curResp = IF c.pendResp = <<>> THEN None ELSE Head(c.pendResp),
                        !.cm.pendResp = IF c.pendResp = <<>> THEN <<>> ELSE Tail(c.pendResp),
                        !.cm.flags = @ \cup {"EPendingWriteInConnectedState"}])
      ELSE IF c.nonPersistent /\ c.pendResp # <<>>
      THEN Panic(w1, "ResponseDataParsed: pending responses")
      ELSE [w1 EXCEPT !.cm.state = IF c.nonPersistent THEN "EClosing" ELSE "EIdleConnected",
                      !.cm.flags = @ \ {"ECannotPipeline"}]

\* Mutant: the excess data is given away twice.
ResponseDataParsedTwice(w) ==
  IF w.cm.curResp = None THEN ReceivedDataRes(NextOnConnection(w))
  ELSE IF w.cm.excess THEN Feed(w, w.cm.curResp) ELSE ReceivedDataRes(w)

ResponseDataParsed(w) ==
  IF w.cm.state # "EConnected" THEN Panic(w, "ResponseDataParsed: not EConnected")
  ELSE IF w.cm.curResp = None THEN ReceivedDataRes(NextOnConnection(w))
  ELSE IF w.cm.excess THEN Feed([w EXCEPT !.cm.excess = FALSE], w.cm.curResp)
  ELSE ReceivedDataRes(w)

-----------------------------------------------------------------------------
(* Submission.                                                             *)

CannotPipeline == "ECannotPipeline" \in cm.flags

\* Mutant: any connection in use is chosen.
SelectableWhenever(t) == cm.state # "EIdle" => cm.host = HostOf[t]

\* The condition under which SelectConnectionManagerL chooses this manager, in
\* a handler that may not create another one.
Selectable(t) ==
  \/ cm.state \in {"EIdle", "EClosing", "EIdleConnected"}
  \/ /\ cm.state \in {"EConnecting", "EUpgrading", "EConnected"}
     /\ ~CannotPipeline /\ ~cm.nonPersistent
     /\ Len(cm.pendResp) + (IF cm.curResp = None THEN 0 ELSE 1) < MaxToPipeline
     /\ tx[t].pipeline /\ cm.host = HostOf[t] /\ cm.secure = (t \in Secure)

\* The transaction gets a new composer and a new parser.
Assigned(w, t, newConnection) ==
  [w EXCEPT !.tx[t] = [NewTransaction(t) EXCEPT
       !.status = "active", !.pipeline = w.tx[t].pipeline,
       !.retries = w.tx[t].retries + (IF newConnection THEN 1 ELSE 0),
       !.submissions = w.tx[t].submissions + 1]]

\* Mutant: pipelining stays possible.
DisablePipeliningForgotten(w) == w

DisablePipelining(w) ==
  IF "ECannotPipeline" \in w.cm.flags \/ w.cm.state \notin {"EIdle", "EIdleConnected", "EClosing"}
  THEN Panic(w, "DisablePipelining")
  ELSE [w EXCEPT !.cm.flags = @ \cup {"ECannotPipeline"}]

\* Mutant: the newest response is awaited first.
EnqueueFirst(w, t) ==
  LET c == w.cm IN
  [w EXCEPT
    !.cm.host = HostOf[t], !.cm.secure = t \in Secure, !.cm.nonPersistent = t \in OwnConnection,
    !.cm.curReq   = IF c.curReq = None THEN t ELSE c.curReq,
    !.cm.pendReq  = IF c.curReq = None THEN @ ELSE Append(@, t),
    !.cm.curResp  = IF c.curResp = None THEN t ELSE c.curResp,
    !.cm.pendResp = IF c.curResp = None THEN @ ELSE <<t>> \o @]

\* The request and the response take the current places or join the queues.
Enqueue(w, t) ==
  LET c == w.cm IN
  IF (c.curReq # None \/ c.curResp # None) /\ "ECannotPipeline" \in c.flags
  THEN Panic(w, "SubmitL: CannotPipeline")
  ELSE [w EXCEPT
         !.cm.host = HostOf[t], !.cm.secure = t \in Secure, !.cm.nonPersistent = t \in OwnConnection,
         !.cm.curReq   = IF c.curReq = None THEN t ELSE c.curReq,
         !.cm.pendReq  = IF c.curReq = None THEN @ ELSE Append(@, t),
         !.cm.curResp  = IF c.curResp = None THEN t ELSE c.curResp,
         !.cm.pendResp = IF c.curResp = None THEN @ ELSE Append(@, t)]

SubmitL(w, t) ==
  LET oldSecure == w.cm.state = "EIdleConnected" /\ w.cm.secure
      unusable  == \/ w.cm.state = "EClosing"
                   \/ /\ w.cm.state = "EIdleConnected"
                      /\ w.cm.host # HostOf[t] \/ (oldSecure /\ t \notin Secure)
      w1 == Enqueue(IF unusable THEN CloseConnection(w) ELSE w, t)
  IN  CASE w1.cm.state = "EIdle" ->
             [w1 EXCEPT !.cm.connector = TRUE, !.cm.state = "EConnecting",
                        !.cm.flags = IF "ECannotPipeline" \in @ THEN @
                                     ELSE @ \cup {"EFirstTransaction"}]
        [] w1.cm.state = "EIdleConnected" ->
             IF t \in Secure /\ ~oldSecure THEN UpgradeConnectionL(w1)
             ELSE StartRequest([w1 EXCEPT !.cm.state = "EConnected",
                                !.cm.flags = @ \cup {"EPendingWriteInConnectedState"}])
        [] w1.cm.state = "EConnected" /\ w1.cm.curReq = t -> StartRequest(w1)
        [] OTHER -> w1

\* CHttpClientHandler::ServiceL, when it finds this manager.
Submit(t) ==
  /\ Quiet /\ Selectable(t)
  /\ tx[t].status \in {"new", "retry"} /\ tx[t].submissions < MaxSubmissions
  /\ cm.curReq # None /\ cm.curResp = None => "firstUnread" \in Env
  /\ LET available == cm.state = "EIdleConnected" /\ cm.host = HostOf[t]
         busy      == cm.state \in {"EConnecting", "EUpgrading", "EConnected"}
         w1 == Assigned(world, t, ~available /\ ~busy)
     IN  Becomes(SubmitL(IF tx[t].pipeline THEN w1 ELSE DisablePipelining(w1), t))

-----------------------------------------------------------------------------
(* Cancellation.                                                           *)

\* A redirected response is parsed to its end when that is possible, since
\* the client cancels it for the new location: from the received buffer, or
\* by an immediate read when other responses wait.
DoResponseCompletion(w, t) ==
  LET r    == w.tx[t]
      due  == t \in Redirected /\ r.hdr /\ r.len = "sized" /\ ~r.msgDone
      read(q) == q # <<>> /\ Head(q).part = "tail"
  IN  IF ~due \/ r.parse = "end" THEN w
      ELSE IF r.parse = "run" /\ read(w.sock.buf)
           THEN [w EXCEPT !.tx[t].parse = "end", !.sock.buf = Tail(@)]
      ELSE IF r.parse = "wait" /\ w.cm.pendResp # <<>> /\ read(w.sock.net)
           THEN [w EXCEPT !.tx[t].parse = "end", !.sock.buf = Tail(w.sock.net),
                          !.sock.net = <<>>, !.sock.reader = "ack"]
      ELSE w

\* Mutant: the connection is kept although the rest of the answer is to come.
CancelCurrentKeepsConnection(w, t, stop) ==
  LET w1 == IF w.cm.curReq = t THEN CancelRequest(w, t) ELSE w
  IN  IF w1.cm.curResp # t \/ w1.cm.state # "EConnected" THEN w1
      ELSE ResponseDataParsed([CancelResponse(w1, t) EXCEPT !.cm.curResp = None])

\* The current request or response is cancelled on an established connection,
\* which is closed unless the response was complete.
CancelCurrent(w, t, stop) ==
  LET w1 == IF w.cm.curReq = t THEN CancelRequest(w, t) ELSE w
      w2 == IF w1.cm.curResp = None /\ w1.cm.pendResp = <<>>
            THEN [w1 EXCEPT !.cm.curResp = t] ELSE w1
      w3 == CancelResponse(DoResponseCompletion(w2, t), t)
  IN  IF w2.cm.curResp # t THEN w2
      ELSE IF stop \/ (w3.cm.curResp = t /\ ~w3.tx[t].msgDone) THEN CloseConnection(w3)
      ELSE ResponseDataParsed(w3)

ClearCurrent(w, t) ==
  [w EXCEPT !.cm.curReq = IF @ = t THEN None ELSE @, !.cm.curResp = IF @ = t THEN None ELSE @]

AfterCancelCurrent(w, t, stop, reconnects) ==
  LET c == w.cm IN
  IF c.curResp # None /\ c.state = "EIdle"
  THEN LET w1 == IF stop THEN ConnectionError(w, c.curResp, "nonPipelining") ELSE w
       IN  [NotifyPendingTransactions(w1, "nonPipelining")
              EXCEPT !.cm.curReq = None, !.cm.curResp = None]
  ELSE IF c.state = "EIdle" /\ c.pendReq # <<>> /\ c.pendResp = <<>>
  THEN Panic(w, "CancelSubmission: no pending response")
  ELSE IF c.state = "EIdle" /\ c.pendReq # <<>>
  THEN LET w1 == [w EXCEPT !.cm.curReq = Head(c.pendReq), !.cm.curResp = Head(c.pendResp),
                           !.cm.pendReq = Tail(@), !.cm.pendResp = Tail(@)]
       IN  IF reconnects THEN ReconnectSocketL(w1)
           ELSE ReportSocketError([w1 EXCEPT !.cm.flags = @ \ {"EPendingWriteInConnectedState"}],
                                  "fail")
  ELSE ClearCurrent(w, t)

\* Mutant: the entry is set to NULL, not removed.
WithoutSetsNull(queue, t) == [i \in DOMAIN queue |-> IF queue[i] = t THEN None ELSE queue[i]]

\* The entry of t is found and removed.
Without(queue, t) ==
  IF Contains(queue, t) THEN RemoveAt(queue, CHOOSE i \in DOMAIN queue : queue[i] = t) ELSE queue

CancelSubmission(w, t, reconnects) ==
  LET inReq  == Contains(w.cm.pendReq, t)
      inResp == Contains(w.cm.pendResp, t)
      stop   == inResp /\ ~inReq
      w1 == [w EXCEPT !.cm.pendReq = Without(@, t), !.cm.pendResp = Without(@, t)]
      w2 == IF w1.cm.state = "EConnecting" THEN SetIdleState([w1 EXCEPT !.cm.connector = FALSE])
            ELSE CancelCurrent(w1, t, stop)
  IN  IF inReq /\ ~inResp THEN Panic(w, "CancelSubmission: request without response")
      ELSE IF stop \/ t \in {w1.cm.curReq, w1.cm.curResp}
           THEN AfterCancelCurrent(w2, t, stop, reconnects)
      ELSE IF "ECannotPipeline" \in w.cm.flags /\ w.cm.curReq = None /\ w.cm.curResp = None
           THEN CloseConnection(w1)
      ELSE w1

Reconnects == {TRUE} \cup (IF "connectFail" \in Env THEN {FALSE} ELSE {})

\* The socket's writer runs before its reader, so that the write of a request
\* is confirmed before its answer is read (CSocketController::ConstructL).
WritesConfirmed(pieces) ==
  "overtake" \in Env \/ \A i \in DOMAIN pieces : pieces[i].t # sock.writer

\* CHttpClientHandler::CancelTransactionHook.  The write confirmations that come
\* while an immediate read waits are taken to come before it.
Cancel(t) ==
  /\ Alive /\ tx[t].status = "active"
  /\ \/ "cancelUnread" \in Env /\ tx[t].msgDone
     \/ "cancel" \in Env /\ ~tx[t].msgDone /\ (~sock.open \/ Contains(cm.pendReq, t))
     \/ "cancelCurrent" \in Env /\ ~tx[t].msgDone /\ sock.open /\ ~Contains(cm.pendResp, t)
     \/ "cancelSent" \in Env /\ sock.open /\ Contains(cm.pendResp, t) /\ ~Contains(cm.pendReq, t)
  /\ t \in Redirected => WritesConfirmed(sock.net)
  /\ \E reconnects \in Reconnects :
       LET w1 == IF tx[t].msgDone THEN [world EXCEPT !.tx[t].unread = FALSE] ELSE world
       IN  Becomes([CancelSubmission(w1, t, reconnects) EXCEPT !.tx[t].status = "cancelled"])

-----------------------------------------------------------------------------
(* The socket connector.                                                   *)

ConnectionMadeL(w) ==
  LET w1 == [w EXCEPT !.cm.connector = FALSE, !.sock = [ClosedSocket EXCEPT !.open = TRUE]]
  IN  IF w.cm.curReq = None THEN Panic(w1, "no current request")
      ELSE IF w.cm.secure THEN UpgradeConnectionL(w1)
      ELSE StartRequest([w1 EXCEPT !.cm.state = "EConnected"])

ConnectionMade == Quiet /\ cm.connector /\ Becomes(ConnectionMadeL(world))

HandleConnectError(w, err, reconnects) ==
  LET w1 == HandleSocketError([w EXCEPT !.cm.connector = FALSE], err, reconnects)
  IN  IF w1.cm.state # "EIdle" THEN Panic(w1, "HandleConnectError: not EIdle") ELSE w1

ConnectFails ==
  /\ Quiet /\ "connectFail" \in Env /\ cm.connector
  /\ \E err \in {"fail", "disconnected"}, reconnects \in Reconnects :
       Becomes(HandleConnectError(world, err, reconnects))

\* SecureClientCnf: the TLS handshake is done.
SecureClientCnf ==
  /\ Quiet /\ cm.state = "EUpgrading"
  /\ Becomes(StartRequest([world EXCEPT !.cm.secureRetry = FALSE, !.cm.state = "EConnected"]))

-----------------------------------------------------------------------------
(* The request composer and the output stream.                             *)

SendRequestDataL(w, t) ==
  IF w.cm.state # "EConnected" THEN Panic(w, "SendRequestDataL: not EConnected")
  ELSE IF w.sock.writer # None THEN Panic(w, "writer busy")
  ELSE [w EXCEPT !.sock.writer = t]

\* CHttpMessageComposer::RunL, its consecutive runs up to the next data part
\* or the end of the message as one step.  The server receives what is
\* written; a request is there in full with its last part.
ComposerRun(t) ==
  /\ Alive
  /\ \/ /\ tx[t].comp = "start"
        /\ LET w1 == SendRequestDataL([world EXCEPT !.tx[t].comp = "headers"], t)
           IN  Becomes(IF sock.hup THEN w1
                       ELSE [w1 EXCEPT !.sock.wire = Append(@, t),
                                       !.sock.sent = IF t \in HasBody THEN @ ELSE @ \cup {t}])
     \/ /\ tx[t].comp = "part"
        /\ Becomes(SendRequestDataL([world EXCEPT !.tx[t].comp = "partSent"], t))
     \/ /\ tx[t].comp = "last"
        /\ LET w1 == SendRequestDataL([world EXCEPT !.tx[t].comp = "lastSent"], t)
           IN  Becomes([w1 EXCEPT !.sock.sent = IF Contains(w1.sock.wire, t) THEN @ \cup {t} ELSE @])
     \/ /\ tx[t].comp = "ending"
        /\ Becomes([RequestComplete(world) EXCEPT !.tx[t].comp = "idle"])

\* CHttpMessageComposer::ReleaseMessageData.  A request without a body is
\* complete at once, and the composer then keeps its data state.
RequestDataSent(w, t) ==
  CASE w.tx[t].comp = "headers" /\ t \notin HasBody ->
         [RequestComplete(w) EXCEPT !.tx[t].comp = "sent"]
    [] w.tx[t].comp = "headers" /\ t \in HasBody -> [w EXCEPT !.tx[t].comp = "part"]
    [] w.tx[t].comp = "partSent" -> [w EXCEPT !.tx[t].comp = "wanted"]
    [] w.tx[t].comp = "lastSent" -> [w EXCEPT !.tx[t].comp = "ending"]
    [] w.tx[t].comp = "sent" -> [w EXCEPT !.tx[t].comp = "start"]
    [] OTHER -> Panic(w, "composer not EWaitingForRelease")

\* The client has the next part of the request's body: MessageInfoAvailable.
NotifyNewRequestBodyPart(t) ==
  /\ Alive /\ tx[t].status = "active" /\ tx[t].comp = "wanted"
  /\ Becomes([world EXCEPT !.tx[t].comp = "last"])

SendDataCnf ==
  /\ Quiet /\ sock.writer # None
  /\ LET w == [world EXCEPT !.sock.writer = None] IN
     Becomes(
       IF "EDiscardSndDataCnf" \in cm.flags
       THEN LET w1 == [w EXCEPT !.cm.flags = @ \ {"EDiscardSndDataCnf"}]
            IN  IF cm.state = "EConnected" THEN RequestComplete(w1)
                ELSE [w1 EXCEPT !.cm.curReq = None]
       ELSE IF cm.curReq # None
       THEN [RequestDataSent(w, cm.curReq)
               EXCEPT !.cm.flags = @ \ {"EPendingWriteInConnectedState"}]
       ELSE w)

-----------------------------------------------------------------------------
(* The server (external) and the input stream.                             *)

\* The pieces of a reply: the status line and headers, and the body, if any.
Reply(t, close, len) ==
  LET piece(part) == [t |-> t, part |-> part, close |-> close, len |-> len]
  IN  IF len = "none" THEN {<<piece("head")>>}
      ELSE IF len = "sized" THEN {<<piece("head"), piece("tail")>>}
      ELSE {<<piece("head")>>, <<piece("head"), piece("tail")>>}

\* The server answers the requests in the order they came, and hangs up after
\* a reply that says so.
ServerReply ==
  /\ Alive /\ sock.open /\ ~sock.hup /\ sock.wire # <<>>
  /\ LET t == Head(sock.wire) IN
     /\ t \in sock.sent \/ "early" \in Env
     /\ \E close \in BOOLEAN, len \in Lengths :
          /\ close => t \in OwnConnection \/ "close" \in Env
          /\ t \in OwnConnection => close
          /\ len = "unknown" => "unknown" \in Env /\ close
          /\ t \in Redirected => len # "unknown"
          /\ \E reply \in Reply(t, close, len) :
               sock' = [sock EXCEPT !.net = @ \o reply, !.hup = close,
                                    !.wire = IF close THEN <<>> ELSE Tail(@),
                                    !.sent = IF close THEN {} ELSE @ \ {t}]
  /\ UNCHANGED <<cm, tx, panic>>

\* ReceivedDataIndL: the read completes with the next bytes.  The socket's
\* writer runs before its reader (CSocketController::ConstructL): see
\* WritesConfirmed.
ReceivedDataIndL ==
  /\ Quiet /\ sock.open /\ cm.state # "EUpgrading" /\ sock.reader = "read"
  /\ \E n \in 1..Len(sock.net) :
       LET got == SubSeq(sock.net, 1, n)
           w   == [world EXCEPT !.sock.reader = "ack", !.sock.buf = got,
                                !.sock.net = SubSeq(@, n + 1, Len(@))]
       IN  /\ WritesConfirmed(got)
           /\ Becomes(IF cm.curResp = None THEN ReceivedDataRes(w) ELSE Feed(w, cm.curResp))

-----------------------------------------------------------------------------
(* The response parser and the client that reads the response.             *)

\* ReleaseDataPacket: the packet is given back now, or with the body part.
ReleaseDataPacket(w, t) ==
  IF w.tx[t].unread THEN [w EXCEPT !.tx[t].hold = TRUE] ELSE ResponseDataParsed(w)

\* The buffer is parsed: wait for more.
BufferEmpty(w, t) == ReleaseDataPacket([w EXCEPT !.tx[t].parse = "wait"], t)

ParseHead(w, t, piece) ==
  LET w1 == IF piece.close THEN MakeConnectionNonPersistent(w) ELSE w
      w2 == [w1 EXCEPT !.tx[t].hdr = TRUE, !.tx[t].len = piece.len, !.sock.buf = Tail(@)]
  IN  IF piece.len = "none" THEN [w2 EXCEPT !.tx[t].parse = "end"]
      ELSE IF w2.sock.buf = <<>> THEN BufferEmpty(w2, t) ELSE w2

ParseTail(w, t) ==
  LET w1 == [w EXCEPT !.tx[t].unread = TRUE, !.tx[t].body = TRUE, !.sock.buf = Tail(@)]
  IN  IF w.tx[t].len = "sized" THEN [w1 EXCEPT !.tx[t].parse = "end"]
      ELSE IF w1.sock.buf = <<>> THEN BufferEmpty(w1, t) ELSE w1

MessageCompleteL(w, t) ==
  LET w1 == ResponseComplete([w EXCEPT !.tx[t].msgDone = TRUE], w.sock.buf # <<>>)
      w2 == IF w1.tx[t].unread THEN w1 ELSE TransactionComplete(w1, t)
  IN  ReleaseDataPacket([w2 EXCEPT !.tx[t].parse = "wait", !.tx[t].hdr = FALSE], t)

\* CHttpMessageParser::RunL.
ParserRun(t) ==
  /\ Alive
  /\ \/ /\ tx[t].parse = "run" /\ sock.buf # <<>>
        /\ tx[t].hdr = (Head(sock.buf).part = "tail")
        /\ Becomes(IF tx[t].hdr THEN ParseTail(world, t) ELSE ParseHead(world, t, Head(sock.buf)))
     \/ tx[t].parse = "end" /\ Becomes(MessageCompleteL(world, t))

\* CHttpResponseParser::HandleParserError: CancelTransaction.
ParserFails(t) ==
  /\ Alive /\ "malformed" \in Env /\ tx[t].parse = "run" /\ tx[t].status = "active"
  /\ \E reconnects \in Reconnects :
       LET w1 == [world EXCEPT !.tx[t].parse = "wait", !.tx[t].hdr = FALSE]
       IN  Becomes([CancelSubmission(w1, t, reconnects) EXCEPT !.tx[t].status = "failed"])

\* Mutant: the data packet is not given back when the client has read it.
ReleaseDataForgetsPacket(t) ==
  /\ Alive /\ tx[t].status = "active" /\ tx[t].unread
  /\ LET w1 == [world EXCEPT !.tx[t].unread = FALSE] IN
     Becomes(IF tx[t].msgDone THEN TransactionComplete(w1, t) ELSE w1)

\* CHttpResponseParser::ReleaseData: the client has read the body part.
ReleaseData(t) ==
  /\ Alive /\ tx[t].status = "active" /\ tx[t].unread
  /\ LET w1 == [world EXCEPT !.tx[t].unread = FALSE]
         w2 == IF tx[t].hold THEN [ResponseDataParsed(w1) EXCEPT !.tx[t].hold = FALSE] ELSE w1
     IN  Becomes(IF tx[t].msgDone THEN TransactionComplete(w2, t) ELSE w2)

-----------------------------------------------------------------------------
(* The connection is lost.                                                 *)

\* A read reports the end of the stream when everything has been read.
ServerCloses ==
  /\ Quiet /\ sock.open /\ sock.reader = "read" /\ sock.net = <<>>
  /\ sock.hup \/ "hangup" \in Env
  /\ \E reconnects \in Reconnects : Becomes(StreamClosed(world, "eof", reconnects))

\* A read or a write completes with another error.
StreamFails ==
  /\ Quiet /\ sock.open /\ "fail" \in Env
  /\ sock.reader = "read" \/ sock.writer # None \/ cm.state = "EUpgrading"
  /\ \E err \in {"fail", "disconnected"}
              \cup (IF cm.state = "EUpgrading" THEN {"sslAlert"} ELSE {}),
        reconnects \in Reconnects :
       Becomes(StreamClosed(world, err, reconnects))

-----------------------------------------------------------------------------
(***************************************************************************)
(* Properties.                                                             *)
(***************************************************************************)

\* None of the source's debug assertions fails and no NULL pointer is used, in
\* the manager, in the composers and parsers and in the streams it drives.
NoPanic == panic = {}

\* Only a connection that is there is told that its data has been parsed: the
\* assertion of ResponseDataParsed, and the stream it uses afterwards.
DataParsedOnlyConnected == "ResponseDataParsed: not EConnected" \notin panic

\* A composer only hands data to a connection that can send it: the assertion
\* of SendRequestDataL.
SentOnlyConnected == "SendRequestDataL: not EConnected" \notin panic

\* The bytes a transaction's parser is given are those of its own answer,
\* however answers and connections follow each other.
ResponseMatch ==
  \A t \in Tx : tx[t].parse = "run" => sock.buf # <<>> /\ Head(sock.buf).t = t

\* The requests that are held back are the last of those whose response is
\* awaited, in the same order: requests and responses are never paired wrongly
\* when both queues advance.
QueuesAligned ==
  cm.state # "EIdle" => IsSuffix(cm.pendReq, <<cm.curResp>> \o cm.pendResp)

\* The answers that will still arrive on a connection in use are for the first
\* of the transactions that wait for one, in their order: nobody's answer is
\* left behind for the next transaction to read.
HeadsIn(pieces) ==
  LET heads[n \in 0..Len(pieces)] ==
        IF n = 0 THEN <<>>
        ELSE IF pieces[n].part = "head" THEN Append(heads[n - 1], pieces[n].t) ELSE heads[n - 1]
  IN  heads[Len(pieces)]
AnswersDue == HeadsIn(sock.buf \o sock.net) \o sock.wire
AnswersAwaited ==
  (IF cm.curResp = None \/ tx[cm.curResp].hdr THEN <<>> ELSE <<cm.curResp>>) \o cm.pendResp
AnswersExpected == sock.open /\ ~cm.nonPersistent => IsPrefix(AnswersDue, AnswersAwaited)

\* Requests, responses and what is on the wire stay in step (both of the above).
InStep == QueuesAligned /\ AnswersExpected

\* A transaction that has a connection manager is known to it, or only waits for
\* the client to read the rest of its answer: nobody is forgotten.  And the manager
\* awaits responses only for transactions that still belong to it: whoever was told
\* an outcome (completed, failed, retried or cancelled, when its parser may be
\* deleted) has left the queues in the same step.
Known == {cm.curReq, cm.curResp} \cup ToSet(cm.pendReq) \cup ToSet(cm.pendResp)
NoOrphan ==
  \A t \in Tx :
    /\ tx[t].status = "active" => t \in Known \/ (tx[t].msgDone /\ tx[t].unread)
    /\ t \in {cm.curResp} \cup ToSet(cm.pendReq) \cup ToSet(cm.pendResp) => tx[t].status = "active"

\* A transaction that may not be pipelined has the connection for itself:
\* ServiceL disables pipelining for it.  And a connection that the server announced
\* to close, or that an unfinished request spoilt, is never offered for reuse as idle.
InUse == {t \in Known \ {None} : tx[t].status = "active"}
OfferedRightly ==
  /\ \A t \in InUse : tx[t].pipeline \/ InUse = {t}
  /\ cm.state = "EIdleConnected" => ~cm.nonPersistent

\* While no assertion has failed, the state agrees with the sockets: streams
\* exist exactly in the connected states, and a connection is being made exactly
\* in EConnecting, however cancels, losses and reconnections follow each other.
ConnectedStates == {"EIdleConnected", "EUpgrading", "EConnected", "EClosing"}
SocketAgrees ==
  panic = {} => /\ sock.open <=> cm.state \in ConnectedStates
                /\ cm.connector <=> cm.state = "EConnecting"

\* The manager keeps the promise of HttpSubmissions: one line, answered in
\* order, shortened from its end, its members told what became of them.
Promise == INSTANCE HttpSubmissions WITH
             status <- [t \in Tx |-> tx[t].status],
             line <- (IF cm.curResp = None THEN <<>> ELSE <<cm.curResp>>) \o cm.pendResp
Submissions == Promise!Spec

-----------------------------------------------------------------------------
Streams == ConnectionMade \/ SecureClientCnf \/ SendDataCnf \/ ReceivedDataIndL
Parties(t) ==
  ComposerRun(t) \/ NotifyNewRequestBodyPart(t) \/ ParserRun(t) \/ ReleaseData(t)
Losses == ConnectFails \/ ServerCloses \/ StreamFails

Next ==
  \/ Streams \/ ServerReply \/ Losses
  \/ \E t \in Tx : Submit(t) \/ Cancel(t) \/ Parties(t) \/ ParserFails(t)

Spec == Init /\ [][Next]_vars

\* The active scheduler runs every ready active object in the end, the server
\* answers and closes what it said it closes, the client reads the bodies and
\* supplies the parts of its own.
Fairness ==
  /\ WF_vars(ConnectionMade) /\ WF_vars(SecureClientCnf) /\ WF_vars(SendDataCnf)
  /\ WF_vars(ReceivedDataIndL) /\ WF_vars(ServerReply) /\ WF_vars(sock.hup /\ ServerCloses)
  /\ \A t \in Tx : WF_vars(Submit(t)) /\ WF_vars(Parties(t))

FairSpec == Spec /\ Fairness

\* Every transaction gets to a connection and has an outcome there: completed,
\* an error, or an error after which the client filter submits it again.
Served == \A t \in Tx : tx[t].status \in {"new", "active"} ~> tx[t].status \notin {"new", "active"}
=============================================================================
