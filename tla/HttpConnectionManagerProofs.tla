-------------------- MODULE HttpConnectionManagerProofs --------------------
(***************************************************************************)
(* For all transactions, bounds and liberties of the environment: the      *)
(* types of HttpConnectionManager, and that its state agrees with its      *)
(* sockets.  One lemma per call says what the call preserves: either it    *)
(* leaves the state and the sockets alone (Keeps), or it takes a good      *)
(* world to a good one.                                                    *)
(*                                                                         *)
(* Then the invariant of the order of answers, Ordered, with what is       *)
(* needed of queues to state and use it, what it says of a connection in   *)
(* use, and what becomes of it when the connection is lost; its steps are  *)
(* in HttpConnectionManagerOrderProofs.  Ordered: the manager is at rest,  *)
(* making its connection, or running it, and a connection that runs has,   *)
(* in one line, the answers on their way, the requests at the server, the  *)
(* one that starts and those held back, which are the transactions that    *)
(* wait.  Nearly every lemma takes the parts of a world (c the manager, x  *)
(* the transactions, s the socket) rather than the variables, because one  *)
(* action goes through several.                                            *)
(***************************************************************************)
EXTENDS HttpConnectionManager, SequenceTheorems, WellFoundedInduction, TLAPS

Agrees(w) == /\ w.sock.open <=> w.cm.state \in ConnectedStates
             /\ w.cm.connector <=> w.cm.state = "EConnecting"

\* The inductive invariant, of a world.
Good(w) == w \in World /\ (w.panic = {} => Agrees(w))

\* v is a world like w, but for what the connection's state does not depend on.
Keeps(w, v) ==
  /\ v \in World /\ w.panic \subseteq v.panic
  /\ v.cm.state = w.cm.state /\ v.cm.connector = w.cm.connector /\ v.sock.open = w.sock.open

\* What keeps a good world keeps it good.
LEMMA KeepsGood == ASSUME NEW w, Good(w), NEW v, Keeps(w, v) PROVE Good(v)
  BY DEF Good, Keeps, Agrees

\* Two calls that keep the world keep it one after the other.
LEMMA KeepsBoth == ASSUME NEW u, NEW v, NEW w, Keeps(u, v), Keeps(v, w) PROVE Keeps(u, w)
  BY DEF Keeps

\* The members of a world.
LEMMA Members ==
  ASSUME NEW w \in World
  PROVE  /\ w.cm \in Manager /\ w.tx \in [Tx -> Transaction] /\ w.sock \in Socket
         /\ w.panic \in SUBSET Assertions
  BY DEF World

-----------------------------------------------------------------------------
\* An assertion that fails changes nothing else.
LEMMA PanicKeeps ==
  ASSUME NEW w \in World, NEW n \in Assertions
  PROVE  Keeps(w, Panic(w, n)) /\ Panic(w, n).panic # {}
  BY DEF World, Panic, Keeps

\* A change of one transaction keeps the world.
LEMMA TxKeeps ==
  ASSUME NEW w \in World, NEW t \in Tx, NEW r \in Transaction
  PROVE  Keeps(w, [w EXCEPT !.tx[t] = r])
  BY DEF World, Keeps

\* A change of the manager's members that leaves its state alone.
LEMMA ManagerKeeps ==
  ASSUME NEW w \in World, NEW c \in Manager, c.state = w.cm.state, c.connector = w.cm.connector
  PROVE  Keeps(w, [w EXCEPT !.cm = c])
  BY DEF World, Keeps

\* A change of the streams that leaves them open or closed.
LEMMA SocketKeeps ==
  ASSUME NEW w \in World, NEW s \in Socket, s.open = w.sock.open
  PROVE  Keeps(w, [w EXCEPT !.sock = s])
  BY DEF World, Keeps

\* Other queues in the manager, and another buffer in the reader, have their types.
LEMMA QueuesType ==
  ASSUME NEW w \in World, NEW p \in Seq(Tx), NEW q \in Seq(Tx)
  PROVE  [w.cm EXCEPT !.pendReq = p, !.pendResp = q] \in Manager
  BY DEF World, Manager

\* The empty queues.
LEMMA NoQueues ==
  ASSUME NEW w \in World
  PROVE  [w.cm EXCEPT !.pendReq = <<>>, !.pendResp = <<>>] \in Manager
<1>1. PICK e : e = <<>>
  OBVIOUS
<1>2. e \in Seq(Tx)
  BY <1>1
<1>3. [w.cm EXCEPT !.pendReq = e, !.pendResp = e] \in Manager
  BY <1>2, QueuesType
<1> QED BY <1>1, <1>3

\* The reader's buffer is given back: the streams have their type.
LEMMA BufferType ==
  ASSUME NEW w \in World, NEW q \in Seq(Piece)
  PROVE  [w.sock EXCEPT !.reader = "read", !.buf = q] \in Socket
  BY DEF World, Socket

\* StartRequest.
LEMMA StartRequestKeeps == ASSUME NEW w \in World PROVE Keeps(w, StartRequest(w))
<1>1. CASE w.cm.curReq = None
  BY <1>1, PanicKeeps DEF Assertions, StartRequest
<1>2. CASE w.cm.curReq # None
  <2>1. w.cm.curReq \in Tx
    BY <1>2 DEF World, Manager
  <2>2. CASE w.tx[w.cm.curReq].comp # "idle"
    BY <1>2, <2>2, PanicKeeps DEF Assertions, StartRequest
  <2>3. CASE w.tx[w.cm.curReq].comp = "idle"
    BY <1>2, <2>1, <2>3 DEF StartRequest, World, Keeps, Transaction, ComposerStates
  <2> QED BY <2>2, <2>3
<1> QED BY <1>1, <1>2

\* CancelRequest.
LEMMA CancelRequestKeeps ==
  ASSUME NEW w \in World, NEW t \in Tx PROVE Keeps(w, CancelRequest(w, t))
  BY DEF World, Transaction, CancelRequest, ComposerStates, Keeps

\* The parser is given data.
LEMMA FeedKeeps == ASSUME NEW w \in World, NEW t \in Tx PROVE Keeps(w, Feed(w, t))
<1>1. CASE w.tx[t].parse # "wait"
  BY <1>1, PanicKeeps DEF Assertions, Feed
<1>2. CASE w.tx[t].parse = "wait"
  BY <1>2 DEF Feed, World, Transaction, ParserStates, Keeps
<1> QED BY <1>1, <1>2

\* ReceivedDataRes.
LEMMA ReceivedDataResKeeps == ASSUME NEW w \in World PROVE Keeps(w, ReceivedDataRes(w))
<1>1. CASE ~w.sock.open \/ w.sock.reader # "ack"
  BY <1>1, PanicKeeps DEF Assertions, ReceivedDataRes
<1>2. CASE w.sock.open /\ w.sock.reader = "ack"
  <2>1. ReceivedDataRes(w) = [w EXCEPT !.sock.reader = "read", !.sock.buf = <<>>]
    BY <1>2 DEF ReceivedDataRes
  <2>2. [w.sock EXCEPT !.reader = "read", !.buf = <<>>] \in Socket
    <3>1. PICK e : e = <<>>
      OBVIOUS
    <3>2. e \in Seq(Piece)
      BY <3>1
    <3>3. [w.sock EXCEPT !.reader = "read", !.buf = e] \in Socket
      BY <3>2, BufferType
    <3> QED BY <3>1, <3>3
  <2>3. Keeps(w, [w EXCEPT !.sock = [w.sock EXCEPT !.reader = "read", !.buf = <<>>]])
    BY <2>2, SocketKeeps DEF World, Socket
  <2> QED BY <2>1, <2>3 DEF World
<1> QED BY <1>1, <1>2

\* The record of a transaction that is told an error.
LEMMA FailedType ==
  ASSUME NEW t \in Tx, NEW r \in Transaction, NEW n \in BOOLEAN, NEW e
  PROVE  Failed(t, r, n, e) \in Transaction
  BY DEF Transaction, Failed, Statuses

\* NotifyPendingTransactions.
LEMMA NotifyKeeps == ASSUME NEW w \in World, NEW e PROVE Keeps(w, NotifyPendingTransactions(w, e))
<1> DEFINE f == [t \in Tx |-> IF t \in ToSet(w.cm.pendResp)
                              THEN Failed(t, w.tx[t], w.cm.nonPersistent, e) ELSE w.tx[t]]
           w1 == [w EXCEPT !.tx = f]
           c  == [w.cm EXCEPT !.pendReq = <<>>, !.pendResp = <<>>]
<1>1. f \in [Tx -> Transaction]
  BY FailedType DEF World, Manager
<1> HIDE DEF f
<1>2. Keeps(w, w1)
  BY <1>1 DEF World, Keeps
<1>3. c \in Manager /\ c.state = w.cm.state /\ c.connector = w.cm.connector /\ w1.cm = w.cm
  BY NoQueues DEF World, Manager
<1>4. Keeps(w1, [w1 EXCEPT !.cm = c])
  BY <1>2, <1>3, ManagerKeeps DEF Keeps
<1>5. NotifyPendingTransactions(w, e) = [w1 EXCEPT !.cm = c]
  BY DEF World, NotifyPendingTransactions, f
<1> QED BY <1>2, <1>4, <1>5, KeepsBoth

\* MakeConnectionNonPersistent.
LEMMA NonPersistentKeeps == ASSUME NEW w \in World PROVE Keeps(w, MakeConnectionNonPersistent(w))
<1>1. CASE w.cm.nonPersistent
  BY <1>1 DEF MakeConnectionNonPersistent, Keeps
<1>2. CASE ~w.cm.nonPersistent
  <2> DEFINE w1 == [w EXCEPT !.cm.nonPersistent = TRUE]
             w2 == NotifyPendingTransactions(w1, "pipelining")
  <2>1. Keeps(w, w1)
    BY DEF World, Manager, Keeps
  <2>2. Keeps(w1, w2)
    BY <2>1, NotifyKeeps DEF Keeps
  <2> HIDE DEF w1, w2
  <2>3. Keeps(w2, [w2 EXCEPT !.cm.flags = @ \cup {"ECannotPipeline"}, !.cm.curReq = None])
    BY <2>2 DEF World, Manager, Flags, Keeps
  <2> QED BY <1>2, <2>1, <2>2, <2>3, KeepsBoth DEF w1, w2, MakeConnectionNonPersistent
<1> QED BY <1>1, <1>2

\* CheckRequestComplete.
LEMMA CheckRequestCompleteKeeps ==
  ASSUME NEW w \in World, NEW t \in Tx PROVE Keeps(w, CheckRequestComplete(w, t))
<1> DEFINE w1 == IF w.tx[t].comp = "headers" /\ t \notin HasBody
                 THEN [w EXCEPT !.cm.flags = @ \cup {"EDiscardSndDataCnf"}]
                 ELSE MakeConnectionNonPersistent(w)
           w2 == CancelRequest(w1, w1.cm.curReq)
<1>1. Keeps(w, w)
  BY DEF Keeps
<1>2. Keeps(w, w1)
  <2>1. Keeps(w, [w EXCEPT !.cm.flags = @ \cup {"EDiscardSndDataCnf"}])
    BY DEF World, Manager, Flags, Keeps
  <2> QED BY <2>1, NonPersistentKeeps
<1> HIDE DEF w1
<1>3. CASE w1.cm.curReq # None
  <2>1. w1.cm.curReq \in Tx
    BY <1>2, <1>3 DEF World, Manager, Keeps
  <2>2. Keeps(w1, w2)
    BY <1>2, <2>1, CancelRequestKeeps DEF Keeps
  <2> HIDE DEF w2
  <2>3. Keeps(w2, [w2 EXCEPT !.cm.curReq = None])
    BY <2>2 DEF World, Manager, Keeps
  <2>4. Keeps(w, [w2 EXCEPT !.cm.curReq = None])
    BY <1>2, <2>2, <2>3, KeepsBoth
  <2> QED BY <1>1, <1>3, <2>4 DEF CheckRequestComplete, w1, w2
<1>4. CASE w1.cm.curReq = None
  BY <1>1, <1>2, <1>4 DEF CheckRequestComplete, w1
<1> QED BY <1>3, <1>4

\* TransactionComplete.
LEMMA TransactionCompleteKeeps ==
  ASSUME NEW w \in World, NEW t \in Tx PROVE Keeps(w, TransactionComplete(w, t))
<1>1. CASE w.tx[t].status # "active"
  BY <1>1, PanicKeeps DEF Assertions, TransactionComplete
<1>2. CASE w.tx[t].status = "active"
  <2> DEFINE w1 == CheckRequestComplete(w, t)
  <2>1. Keeps(w, w1)
    BY CheckRequestCompleteKeeps
  <2> HIDE DEF w1
  <2>2. w1 \in World
    BY <2>1 DEF Keeps
  <2>3. [w1.tx[t] EXCEPT !.status = "completed"] \in Transaction
    BY <2>2 DEF World, Transaction, Statuses
  <2>4. Keeps(w1, [w1 EXCEPT !.tx[t].status = "completed"])
    BY <2>2, <2>3, TxKeeps
  <2> QED BY <1>2, <2>1, <2>4, KeepsBoth DEF w1, TransactionComplete
<1> QED BY <1>1, <1>2

\* ResponseComplete.
LEMMA ResponseCompleteKeeps ==
  ASSUME NEW w \in World, NEW excess \in BOOLEAN PROVE Keeps(w, ResponseComplete(w, excess))
<1>1. CASE w.cm.pendResp = <<>> \/ "EFirstTransaction" \in w.cm.flags
  BY <1>1 DEF ResponseComplete, World, Manager, Keeps
<1>2. CASE w.cm.pendResp # <<>> /\ "EFirstTransaction" \notin w.cm.flags
  <2>1. Head(w.cm.pendResp) \in Tx /\ Tail(w.cm.pendResp) \in Seq(Tx)
    BY <1>2 DEF World, Manager
  <2> QED BY <1>2, <2>1 DEF ResponseComplete, World, Manager, Keeps
<1> QED BY <1>1, <1>2

\* The end of the message was seen: the parser's record.
LEMMA MsgDoneKeeps ==
  ASSUME NEW w \in World, NEW t \in Tx
  PROVE  /\ Keeps(w, [w EXCEPT !.tx[t].msgDone = TRUE])
         /\ Keeps(w, [w EXCEPT !.tx[t].msgDone = TRUE, !.tx[t].unread = TRUE])
<1> DEFINE r1 == [w.tx[t] EXCEPT !.msgDone = TRUE]
           r2 == [w.tx[t] EXCEPT !.msgDone = TRUE, !.unread = TRUE]
<1>1. r1 \in Transaction /\ r2 \in Transaction
  BY DEF World, Transaction
<1>2. /\ [w EXCEPT !.tx[t].msgDone = TRUE] = [w EXCEPT !.tx[t] = r1]
      /\ [w EXCEPT !.tx[t].msgDone = TRUE, !.tx[t].unread = TRUE] = [w EXCEPT !.tx[t] = r2]
  BY DEF World
<1> QED BY <1>1, <1>2, TxKeeps

\* The parser is reset.
LEMMA ResetParserKeeps ==
  ASSUME NEW w \in World, NEW t \in Tx
  PROVE  Keeps(w, [w EXCEPT !.tx[t].parse = "wait", !.tx[t].hdr = FALSE])
<1> DEFINE r == [w.tx[t] EXCEPT !.parse = "wait", !.hdr = FALSE]
<1>1. r \in Transaction
  BY DEF World, Transaction, ParserStates
<1>2. [w EXCEPT !.tx[t].parse = "wait", !.tx[t].hdr = FALSE] = [w EXCEPT !.tx[t] = r]
  BY DEF World
<1> QED BY <1>1, <1>2, TxKeeps

\* ConnectionError.
LEMMA ConnectionErrorKeeps ==
  ASSUME NEW w \in World, NEW t \in Tx \cup {None}, NEW err
  PROVE  Keeps(w, ConnectionError(w, t, err))
<1>1. CASE t = None
  BY <1>1, PanicKeeps DEF Assertions, ConnectionError
<1>2. CASE t # None
  <2> DEFINE r  == w.tx[t]
             w1 == [w EXCEPT !.tx[t].msgDone = TRUE]
             w2 == ResponseComplete(w1, FALSE)
             w3 == TransactionComplete(w2, t)
  <2>1. t \in Tx
    BY <1>2
  <2>2. Keeps(w, w1) /\ Keeps(w, [w EXCEPT !.tx[t].msgDone = TRUE, !.tx[t].unread = TRUE])
    BY <2>1, MsgDoneKeeps
  <2>3. Keeps(w1, w2)
    BY <2>2, ResponseCompleteKeeps DEF Keeps
  <2>4. Keeps(w2, w3)
    BY <2>1, <2>3, TransactionCompleteKeeps DEF Keeps
  <2>5. Keeps(w, w3)
    BY <2>2, <2>3, <2>4, KeepsBoth
  <2>6. Keeps(w, [w EXCEPT !.tx[t] = Failed(t, r, w.cm.nonPersistent, err)])
    <3>1. Failed(t, r, w.cm.nonPersistent, err) \in Transaction
      BY <2>1, FailedType DEF World, Manager
    <3> QED BY <2>1, <3>1, TxKeeps
  <2> QED BY <1>2, <2>2, <2>5, <2>6 DEF ConnectionError
<1> QED BY <1>1, <1>2

\* CancelResponse.
LEMMA CancelResponseKeeps ==
  ASSUME NEW w \in World, NEW t \in Tx PROVE Keeps(w, CancelResponse(w, t))
<1> DEFINE w0 == [w EXCEPT !.tx[t].msgDone = TRUE]
           w1 == IF w.tx[t].parse = "end" THEN ResponseComplete(w0, w.sock.buf # <<>>) ELSE w
<1>1. Keeps(w, w0) /\ Keeps(w, w)
  BY MsgDoneKeeps DEF Keeps
<1>2. Keeps(w0, ResponseComplete(w0, w.sock.buf # <<>>))
  BY <1>1, ResponseCompleteKeeps DEF Keeps
<1>3. Keeps(w, w1)
  BY <1>1, <1>2, KeepsBoth
<1> HIDE DEF w1
<1>4. Keeps(w1, [w1 EXCEPT !.tx[t].parse = "wait", !.tx[t].hdr = FALSE])
  BY <1>3, ResetParserKeeps DEF Keeps
<1> QED BY <1>3, <1>4, KeepsBoth DEF w1, CancelResponse

-----------------------------------------------------------------------------
\* SetIdleState, once there are no streams and no connector.
LEMMA SetIdleStateGood ==
  ASSUME NEW w \in World, w.panic = {} => ~w.sock.open /\ ~w.cm.connector
  PROVE  Good(SetIdleState(w))
<1>1. SetIdleState(w) \in World
  BY DEF World, Manager, SetIdleState, States
<1>2. /\ SetIdleState(w).cm.state = "EIdle" /\ SetIdleState(w).cm.connector = w.cm.connector
      /\ SetIdleState(w).sock = w.sock /\ SetIdleState(w).panic = w.panic
  BY DEF World, Manager, SetIdleState
<1> QED BY <1>1, <1>2 DEF Good, Agrees, ConnectedStates

\* No streams: the type, and that they are closed.
LEMMA ClosedType ==
  /\ ClosedSocket \in Socket /\ ~ClosedSocket.open
  /\ [ClosedSocket EXCEPT !.open = TRUE] \in Socket /\ [ClosedSocket EXCEPT !.open = TRUE].open
<1>1. PICK e : e = <<>>
  OBVIOUS
<1>2. e \in Seq(Piece) /\ e \in Seq(Tx)
  BY <1>1
<1>3. ClosedSocket = [open |-> FALSE, writer |-> None, reader |-> "read", buf |-> e,
                      net |-> e, wire |-> e, sent |-> {}, hup |-> FALSE]
  BY <1>1 DEF ClosedSocket
<1> QED BY <1>2, <1>3 DEF Socket

\* A world that loses its streams.
LEMMA CloseStreams ==
  ASSUME NEW w \in World
  PROVE  LET v == [w EXCEPT !.sock = ClosedSocket]
         IN  v \in World /\ ~v.sock.open /\ v.cm = w.cm /\ v.panic = w.panic /\ v.tx = w.tx
  BY ClosedType DEF World

\* CloseConnection.
LEMMA CloseConnectionGood == ASSUME NEW w, Good(w) PROVE Good(CloseConnection(w))
<1>0. w \in World
  BY DEF Good
<1>1. CASE w.sock.open
  <2>1. w.panic = {} => ~w.cm.connector
    BY <1>1 DEF Good, Agrees, ConnectedStates
  <2> QED BY <1>0, <1>1, <2>1, CloseStreams, SetIdleStateGood DEF CloseConnection
<1>2. CASE ~w.sock.open /\ w.cm.state # "EIdle"
  <2>1. CloseConnection(w) = Panic(w, "CloseConnection: not EIdle")
    BY <1>2 DEF CloseConnection
  <2>2. Keeps(w, CloseConnection(w)) /\ CloseConnection(w).panic # {}
    BY <1>0, <2>1, PanicKeeps DEF Assertions
  <2> QED BY <2>2 DEF Good, Keeps
<1>3. CASE ~w.sock.open /\ w.cm.state = "EIdle"
  BY <1>3 DEF CloseConnection
<1> QED BY <1>1, <1>2, <1>3

\* ReconnectSocketL, once there are no streams.
LEMMA ReconnectGood ==
  ASSUME NEW w \in World, w.panic = {} => ~w.sock.open
  PROVE  Good(ReconnectSocketL(w))
<1>1. ReconnectSocketL(w) \in World
  BY DEF World, Manager, ReconnectSocketL, States
<1>2. /\ ReconnectSocketL(w).cm.state = "EConnecting" /\ ReconnectSocketL(w).cm.connector
      /\ ReconnectSocketL(w).sock = w.sock /\ ReconnectSocketL(w).panic = w.panic
  BY DEF World, Manager, ReconnectSocketL
<1> QED BY <1>1, <1>2 DEF Good, Agrees, ConnectedStates

\* The current places of the manager are vacated.
LEMMA NoCurrentKeeps ==
  ASSUME NEW w \in World
  PROVE  Keeps(w, [w EXCEPT !.cm.curReq = None, !.cm.curResp = None])
<1> DEFINE c == [w.cm EXCEPT !.curReq = None, !.curResp = None]
<1>1. c \in Manager /\ c.state = w.cm.state /\ c.connector = w.cm.connector
  BY DEF World, Manager
<1>2. [w EXCEPT !.cm.curReq = None, !.cm.curResp = None] = [w EXCEPT !.cm = c]
  BY DEF World
<1> QED BY <1>1, <1>2, ManagerKeeps

\* Those who wait are told an error, and the current places are vacated.
LEMMA NotifyAndVacateKeeps ==
  ASSUME NEW w \in World, NEW e
  PROVE  Keeps(w, [NotifyPendingTransactions(w, e) EXCEPT !.cm.curReq = None, !.cm.curResp = None])
<1>1. Keeps(w, NotifyPendingTransactions(w, e)) /\ NotifyPendingTransactions(w, e) \in World
  BY NotifyKeeps DEF Keeps
<1> QED BY <1>1, NoCurrentKeeps, KeepsBoth

\* ReportSocketError.
LEMMA ReportSocketErrorKeeps ==
  ASSUME NEW w \in World, NEW err PROVE Keeps(w, ReportSocketError(w, err))
<1>1. CASE w.cm.curResp = None
  BY <1>1 DEF ReportSocketError, Keeps
<1>2. CASE w.cm.curResp # None
  <2> DEFINE w1 == IF w.cm.curReq = None THEN w ELSE CancelRequest(w, w.cm.curReq)
             w2 == CancelResponse(w1, w.cm.curResp)
             w3 == ConnectionError(w2, w2.cm.curResp, err)
             e  == IF w3.cm.state # "EConnecting" /\ w3.cm.pendResp # <<>>
                   THEN "pipelining" ELSE err
  <2>1. w.cm.curResp \in Tx /\ (w.cm.curReq # None => w.cm.curReq \in Tx)
    BY <1>2 DEF World, Manager
  <2>2. Keeps(w, w1)
    BY <2>1, CancelRequestKeeps DEF Keeps
  <2> HIDE DEF w1
  <2>3. Keeps(w1, w2)
    BY <2>1, <2>2, CancelResponseKeeps DEF Keeps
  <2> HIDE DEF w2
  <2>4. w2.cm.curResp \in Tx \cup {None}
    BY <2>3 DEF World, Manager, Keeps
  <2>5. Keeps(w2, w3)
    BY <2>3, <2>4, ConnectionErrorKeeps DEF Keeps
  <2> HIDE DEF w3, e
  <2>6. Keeps(w3, [NotifyPendingTransactions(w3, e) EXCEPT !.cm.curReq = None, !.cm.curResp = None])
    <3>1. w3 \in World
      BY <2>5 DEF Keeps
    <3> QED BY <3>1, NotifyAndVacateKeeps
  <2>7. ReportSocketError(w, err)
        = [NotifyPendingTransactions(w3, e) EXCEPT !.cm.curReq = None, !.cm.curResp = None]
    BY <1>2 DEF ReportSocketError, w1, w2, w3, e
  <2> QED BY <2>2, <2>3, <2>5, <2>6, <2>7, KeepsBoth
<1> QED BY <1>1, <1>2

\* HandleSocketError, once there are no streams and no connector.
LEMMA HandleSocketErrorGood ==
  ASSUME NEW w \in World, NEW error, NEW reconnects \in BOOLEAN,
         w.panic = {} => ~w.sock.open /\ ~w.cm.connector
  PROVE  Good(HandleSocketError(w, error, reconnects))
<1> DEFINE sslRetry == error = "sslAlert" /\ ~w.cm.secureRetry
           err == IF sslRetry THEN "eof" ELSE error
           w1  == IF sslRetry THEN [w EXCEPT !.cm.secureRetry = TRUE] ELSE w
           w2  == CancelRequest(w1, w.cm.curReq)
           w3  == [w2 EXCEPT !.cm.flags = @ \ {"EPendingWriteInConnectedState"}]
           resend == /\ err = "eof"
                     /\ "EPendingWriteInConnectedState" \in w.cm.flags
                     /\ w.cm.curReq # None /\ w.cm.curReq \notin Notified
           fails(v) == v \in World /\ (v.panic = {} => ~v.sock.open /\ ~v.cm.connector)
<1>1. ASSUME NEW v, fails(v) PROVE Good(SetIdleState(ReportSocketError(v, err)))
  BY <1>1, ReportSocketErrorKeeps, SetIdleStateGood DEF Keeps
<1>2. fails(w1)
  <2>1. Keeps(w, [w EXCEPT !.cm.secureRetry = TRUE])
    BY DEF World, Manager, Keeps
  <2> QED BY <2>1 DEF Keeps
<1>3. CASE w.cm.curReq # None
  <2>1. w.cm.curReq \in Tx
    BY <1>3 DEF World, Manager
  <2> HIDE DEF w1
  <2>2. Keeps(w1, w2)
    BY <1>2, <2>1, CancelRequestKeeps
  <2>3. fails(w2)
    BY <1>2, <2>2 DEF Keeps
  <2> HIDE DEF w2
  <2>4. Keeps(w2, w3)
    BY <2>3 DEF World, Manager, Keeps
  <2>5. fails(w3)
    BY <2>3, <2>4 DEF Keeps
  <2>6. Good(ReconnectSocketL(w2))
    BY <2>3, ReconnectGood
  <2> HIDE DEF w3
  <2>7. Good(SetIdleState(w)) /\ Good(SetIdleState(ReportSocketError(w1, err)))
        /\ Good(SetIdleState(ReportSocketError(w3, err)))
    BY <1>1, <1>2, <2>5, SetIdleStateGood
  <2> HIDE DEF err, sslRetry
  <2>8. HandleSocketError(w, error, reconnects)
        \in {SetIdleState(w), SetIdleState(ReportSocketError(w1, err)), ReconnectSocketL(w2),
             SetIdleState(ReportSocketError(w3, err))}
    BY DEF HandleSocketError, w1, w2, w3, err, sslRetry
  <2> QED BY <2>6, <2>7, <2>8
<1>4. CASE w.cm.curReq = None
  <2>1. Good(SetIdleState(w)) /\ Good(SetIdleState(ReportSocketError(w1, err)))
    BY <1>1, <1>2, SetIdleStateGood
  <2>2. HandleSocketError(w, error, reconnects)
        \in {SetIdleState(w), SetIdleState(ReportSocketError(w1, err))}
    BY <1>4 DEF HandleSocketError
  <2> QED BY <2>1, <2>2
<1> QED BY <1>3, <1>4

\* A stream is closed by its peer or by an error.
LEMMA StreamClosedGood ==
  ASSUME NEW w, Good(w), w.sock.open, NEW err, NEW reconnects \in BOOLEAN
  PROVE  Good(StreamClosed(w, err, reconnects))
<1> DEFINE v == [w EXCEPT !.sock = ClosedSocket]
<1>1. v \in World /\ ~v.sock.open /\ v.cm = w.cm /\ v.panic = w.panic
  BY CloseStreams DEF Good
<1>2. v.panic = {} => ~v.cm.connector
  BY <1>1 DEF Good, Agrees, ConnectedStates
<1> HIDE DEF v
<1>3. Good(HandleSocketError(v, err, reconnects))
  BY <1>1, <1>2, HandleSocketErrorGood
<1> QED BY <1>3 DEF v, StreamClosed

-----------------------------------------------------------------------------
\* RequestComplete.
LEMMA RequestCompleteKeeps == ASSUME NEW w \in World PROVE Keeps(w, RequestComplete(w))
<1>1. CASE w.cm.state # "EConnected"
  BY <1>1, PanicKeeps DEF Assertions, RequestComplete
<1>2. CASE w.cm.state = "EConnected" /\ ("EFirstTransaction" \in w.cm.flags \/ w.cm.pendReq = <<>>)
  BY <1>2 DEF RequestComplete, World, Manager, Keeps
<1>3. CASE w.cm.state = "EConnected" /\ "EFirstTransaction" \notin w.cm.flags /\ w.cm.pendReq # <<>>
  <2> DEFINE c  == [w.cm EXCEPT !.curReq = Head(w.cm.pendReq), !.pendReq = Tail(w.cm.pendReq)]
             w1 == [w EXCEPT !.cm = c]
  <2>1. Head(w.cm.pendReq) \in Tx /\ Tail(w.cm.pendReq) \in Seq(Tx)
    BY <1>3 DEF World, Manager
  <2>2. c \in Manager /\ c.state = w.cm.state /\ c.connector = w.cm.connector
    BY <2>1 DEF World, Manager
  <2> HIDE DEF c
  <2>3. Keeps(w, w1)
    BY <2>2, ManagerKeeps
  <2>4. Keeps(w1, StartRequest(w1))
    BY <2>3, StartRequestKeeps DEF Keeps
  <2>5. RequestComplete(w) = StartRequest(w1)
    <3>1. w1 = [w EXCEPT !.cm.curReq = Head(w.cm.pendReq), !.cm.pendReq = Tail(@)]
      BY DEF World, c
    <3> QED BY <1>3, <3>1 DEF RequestComplete
  <2> QED BY <2>3, <2>4, <2>5, KeepsBoth
<1> QED BY <1>1, <1>2, <1>3

\* NextOnConnection, on an established connection: the connection stays there,
\* in one of the states in which there are streams.
LEMMA NextOnConnectionGood ==
  ASSUME NEW w, Good(w), w.cm.state = "EConnected"
  PROVE  Good(NextOnConnection(w))
<1> DEFINE w1 == IF "EFirstTransaction" \in w.cm.flags
                 THEN [w EXCEPT !.cm.flags = @ \ {"EFirstTransaction"}, !.cm.curReq = None]
                 ELSE w
           d  == w1.cm
<1>1. w \in World /\ (w.panic = {} => w.sock.open /\ ~w.cm.connector)
  BY DEF Good, Agrees, ConnectedStates
<1>2. Keeps(w, w1)
  <2>1. Keeps(w, [w EXCEPT !.cm.flags = @ \ {"EFirstTransaction"}, !.cm.curReq = None])
    BY <1>1 DEF World, Manager, Keeps
  <2> QED BY <1>1, <2>1 DEF Keeps
<1> HIDE DEF w1
<1>3. w1 \in World /\ Good(w1) /\ w1.cm \in Manager
  BY <1>2, KeepsGood, Members DEF Keeps
<1>4. CASE d.pendReq # <<>>
  <2> DEFINE r  == IF d.pendResp = <<>> THEN None ELSE Head(d.pendResp)
             q  == IF d.pendResp = <<>> THEN <<>> ELSE Tail(d.pendResp)
             h  == Head(d.pendReq)
             k  == Tail(d.pendReq)
             c  == [d EXCEPT !.curReq = h, !.pendReq = k, !.curResp = r, !.pendResp = q,
                             !.flags = @ \cup {"EPendingWriteInConnectedState"}]
             w2 == [w1 EXCEPT !.cm = c]
  <2>1. h \in Tx /\ k \in Seq(Tx) /\ r \in Tx \cup {None}
    BY <1>3, <1>4 DEF Manager
  <2>2. q \in Seq(Tx)
    BY <1>3 DEF Manager
  <2> HIDE DEF r, q, h, k
  <2>3. c \in Manager /\ c.state = d.state /\ c.connector = d.connector
    BY <1>3, <2>1, <2>2 DEF Manager, Flags
  <2>4. w2 = [w1 EXCEPT !.cm.curReq = h, !.cm.pendReq = k, !.cm.curResp = r, !.cm.pendResp = q,
                        !.cm.flags = @ \cup {"EPendingWriteInConnectedState"}]
    BY <1>3 DEF World
  <2> HIDE DEF c
  <2>5. Keeps(w1, w2)
    BY <1>3, <2>3, ManagerKeeps
  <2> HIDE DEF w2
  <2>6. Keeps(w2, StartRequest(w2))
    BY <2>5, StartRequestKeeps DEF Keeps
  <2>7. NextOnConnection(w) = StartRequest(w2)
    BY <1>4, <2>4 DEF NextOnConnection, w1, r, q, h, k
  <2> QED BY <1>3, <2>5, <2>6, <2>7, KeepsGood
<1>5. CASE d.pendReq = <<>> /\ d.nonPersistent /\ d.pendResp # <<>>
  <2>1. NextOnConnection(w) = Panic(w1, "ResponseDataParsed: pending responses")
    BY <1>5 DEF NextOnConnection, w1
  <2>2. Keeps(w1, NextOnConnection(w))
    BY <1>3, <2>1, PanicKeeps DEF Assertions
  <2> QED BY <1>3, <2>2, KeepsGood
<1>6. CASE d.pendReq = <<>> /\ ~(d.nonPersistent /\ d.pendResp # <<>>)
  <2> DEFINE st == IF d.nonPersistent THEN "EClosing" ELSE "EIdleConnected"
             v  == [w1 EXCEPT !.cm.state = st, !.cm.flags = @ \ {"ECannotPipeline"}]
  <2>1. NextOnConnection(w) = v
    BY <1>6 DEF NextOnConnection, w1
  <2>2. st \in ConnectedStates /\ st \in States /\ st # "EConnecting"
    BY DEF ConnectedStates, States
  <2> HIDE DEF st
  <2>3. /\ v \in World /\ v.cm.state = st /\ v.cm.connector = w1.cm.connector
        /\ v.sock = w1.sock /\ v.panic = w1.panic
    BY <1>3, <2>2 DEF World, Manager
  <2>4. v.panic = {} => v.sock.open /\ ~v.cm.connector
    BY <1>1, <1>2, <2>3 DEF Keeps
  <2> HIDE DEF v
  <2> QED BY <2>1, <2>2, <2>3, <2>4 DEF Good, Agrees
<1> QED BY <1>4, <1>5, <1>6

\* ResponseDataParsed.
LEMMA ResponseDataParsedGood == ASSUME NEW w, Good(w) PROVE Good(ResponseDataParsed(w))
<1>1. w \in World
  BY DEF Good
<1>2. CASE w.cm.state # "EConnected"
  <2>1. Keeps(w, Panic(w, "ResponseDataParsed: not EConnected"))
    BY <1>1, PanicKeeps DEF Assertions
  <2> QED BY <1>2, <2>1, KeepsGood DEF ResponseDataParsed
<1>3. CASE w.cm.state = "EConnected" /\ w.cm.curResp = None
  <2> DEFINE w1 == NextOnConnection(w)
  <2>1. Good(w1) /\ w1 \in World
    BY <1>3, NextOnConnectionGood DEF Good
  <2> HIDE DEF w1
  <2>2. Good(ReceivedDataRes(w1))
    BY <2>1, ReceivedDataResKeeps, KeepsGood
  <2> QED BY <1>3, <2>2 DEF ResponseDataParsed, w1
<1>4. CASE w.cm.state = "EConnected" /\ w.cm.curResp # None /\ w.cm.excess
  <2> DEFINE w1 == [w EXCEPT !.cm.excess = FALSE]
  <2>1. w.cm.curResp \in Tx
    BY <1>1, <1>4 DEF World, Manager
  <2>2. Keeps(w, w1)
    BY <1>1 DEF World, Manager, Keeps
  <2> HIDE DEF w1
  <2>3. Keeps(w1, Feed(w1, w.cm.curResp))
    BY <2>1, <2>2, FeedKeeps DEF Keeps
  <2>4. Good(Feed(w1, w.cm.curResp))
    BY <2>2, <2>3, KeepsGood
  <2> QED BY <1>4, <2>4 DEF ResponseDataParsed, w1
<1>5. CASE w.cm.state = "EConnected" /\ w.cm.curResp # None /\ ~w.cm.excess
  <2>1. Good(ReceivedDataRes(w))
    BY <1>1, ReceivedDataResKeeps, KeepsGood
  <2> QED BY <1>5, <2>1 DEF ResponseDataParsed
<1> QED BY <1>2, <1>3, <1>4, <1>5

-----------------------------------------------------------------------------
\* A transaction before its first submission.
LEMMA NewTransactionType == ASSUME NEW t \in Tx PROVE NewTransaction(t) \in Transaction
<1> DEFINE p == t \in Pipelinable
<1>1. p \in BOOLEAN
  OBVIOUS
<1>2. NewTransaction(t)
      = [status |-> "new", comp |-> "idle", parse |-> "wait", hdr |-> FALSE, len |-> "none",
         body |-> FALSE, unread |-> FALSE, hold |-> FALSE, msgDone |-> FALSE,
         pipeline |-> p, retries |-> 0, submissions |-> 0]
  BY DEF NewTransaction
<1> HIDE DEF p
<1> QED BY <1>1, <1>2 DEF Transaction, Statuses, ComposerStates, ParserStates, Lengths

\* A new composer and a new parser for a submitted transaction.
LEMMA AssignedKeeps ==
  ASSUME NEW w \in World, NEW t \in Tx, NEW new \in BOOLEAN
  PROVE  Keeps(w, Assigned(w, t, new))
<1> DEFINE r == [NewTransaction(t) EXCEPT
                   !.status = "active", !.pipeline = w.tx[t].pipeline,
                   !.retries = w.tx[t].retries + (IF new THEN 1 ELSE 0),
                   !.submissions = w.tx[t].submissions + 1]
<1>1. w.tx[t] \in Transaction
  BY DEF World
<1>2. /\ w.tx[t].pipeline \in BOOLEAN
      /\ w.tx[t].retries + (IF new THEN 1 ELSE 0) \in Nat /\ w.tx[t].submissions + 1 \in Nat
  BY <1>1 DEF Transaction
<1>3. NewTransaction(t) \in Transaction
  BY NewTransactionType
<1>4. r \in Transaction
  BY <1>2, <1>3 DEF Transaction, Statuses
<1> HIDE DEF r
<1>5. Keeps(w, [w EXCEPT !.tx[t] = r])
  BY <1>4, TxKeeps
<1> QED BY <1>5 DEF r, Assigned

\* DisablePipelining.
LEMMA DisablePipeliningKeeps == ASSUME NEW w \in World PROVE Keeps(w, DisablePipelining(w))
<1>1. Keeps(w, Panic(w, "DisablePipelining"))
  BY PanicKeeps DEF Assertions
<1>2. Keeps(w, [w EXCEPT !.cm.flags = @ \cup {"ECannotPipeline"}])
  BY DEF World, Manager, Flags, Keeps
<1> QED BY <1>1, <1>2 DEF DisablePipelining

\* The request and the response take their places.
LEMMA EnqueueKeeps ==
  ASSUME NEW w \in World, NEW t \in Tx PROVE Keeps(w, Enqueue(w, t))
<1> DEFINE d == w.cm
           c == [d EXCEPT !.host = HostOf[t], !.secure = t \in Secure,
                          !.nonPersistent = t \in OwnConnection,
                          !.curReq   = IF d.curReq = None THEN t ELSE d.curReq,
                          !.pendReq  = IF d.curReq = None THEN @ ELSE Append(@, t),
                          !.curResp  = IF d.curResp = None THEN t ELSE d.curResp,
                          !.pendResp = IF d.curResp = None THEN @ ELSE Append(@, t)]
<1>1. Keeps(w, Panic(w, "SubmitL: CannotPipeline"))
  BY PanicKeeps DEF Assertions
<1>2. Append(d.pendReq, t) \in Seq(Tx) /\ Append(d.pendResp, t) \in Seq(Tx) /\ HostOf[t] \in Hosts
  BY DEF World, Manager, Hosts
<1> DEFINE req  == IF d.curReq = None THEN t ELSE d.curReq
           reqs == IF d.curReq = None THEN d.pendReq ELSE Append(d.pendReq, t)
           resp == IF d.curResp = None THEN t ELSE d.curResp
           resps == IF d.curResp = None THEN d.pendResp ELSE Append(d.pendResp, t)
           sec == t \in Secure
           own == t \in OwnConnection
           c1 == [d EXCEPT !.host = HostOf[t], !.secure = sec, !.nonPersistent = own,
                           !.curReq = req, !.pendReq = reqs, !.curResp = resp, !.pendResp = resps]
<1>3. req \in Tx \cup {None} /\ resp \in Tx \cup {None} /\ reqs \in Seq(Tx) /\ resps \in Seq(Tx)
      /\ sec \in BOOLEAN /\ own \in BOOLEAN
  BY <1>2 DEF World, Manager
<1>4. c = c1
  BY DEF World, Manager
<1> HIDE DEF req, resp, reqs, resps, sec, own
<1>5. c1 \in Manager /\ c1.state = d.state /\ c1.connector = d.connector
  BY <1>2, <1>3 DEF World, Manager
<1> HIDE DEF c1
<1>6. c \in Manager /\ c.state = d.state /\ c.connector = d.connector
  BY <1>4, <1>5
<1> HIDE DEF c
<1>7. Keeps(w, [w EXCEPT !.cm = c])
  BY <1>6, ManagerKeeps
<1>8. Enqueue(w, t) \in {Panic(w, "SubmitL: CannotPipeline"), [w EXCEPT !.cm = c]}
  BY DEF World, Enqueue, c
<1> QED BY <1>1, <1>7, <1>8

\* UpgradeConnectionL, on a connection in use.
LEMMA UpgradeGood ==
  ASSUME NEW w \in World, w.panic = {} => w.sock.open /\ ~w.cm.connector
  PROVE  Good(UpgradeConnectionL(w))
<1>1. /\ UpgradeConnectionL(w) \in World /\ UpgradeConnectionL(w).cm.state = "EUpgrading"
      /\ UpgradeConnectionL(w).cm.connector = w.cm.connector
      /\ UpgradeConnectionL(w).sock = w.sock /\ UpgradeConnectionL(w).panic = w.panic
  BY DEF World, Manager, States, UpgradeConnectionL
<1> QED BY <1>1 DEF Good, Agrees, ConnectedStates

\* SubmitL.
LEMMA SubmitGood == ASSUME NEW w, Good(w), NEW t \in Tx PROVE Good(SubmitL(w, t))
<1> DEFINE oldSecure == w.cm.state = "EIdleConnected" /\ w.cm.secure
           unusable  == \/ w.cm.state = "EClosing"
                        \/ /\ w.cm.state = "EIdleConnected"
                           /\ w.cm.host # HostOf[t] \/ (oldSecure /\ t \notin Secure)
           w0 == IF unusable THEN CloseConnection(w) ELSE w
           w1 == Enqueue(w0, t)
           making == [w1 EXCEPT !.cm.connector = TRUE, !.cm.state = "EConnecting",
                                !.cm.flags = IF "ECannotPipeline" \in @ THEN @
                                             ELSE @ \cup {"EFirstTransaction"}]
           again  == [w1 EXCEPT !.cm.state = "EConnected",
                                !.cm.flags = @ \cup {"EPendingWriteInConnectedState"}]
<1>1. Good(w0)
  BY CloseConnectionGood
<1> HIDE DEF w0
<1>2. Keeps(w0, w1)
  BY <1>1, EnqueueKeeps DEF Good
<1> HIDE DEF w1
<1>3. Good(w1) /\ w1 \in World
  BY <1>1, <1>2, KeepsGood DEF Good
<1>4. CASE w1.cm.state = "EIdle"
  <2>1. /\ making \in World /\ making.cm.state = "EConnecting" /\ making.cm.connector
        /\ making.sock = w1.sock /\ making.panic = w1.panic
    BY <1>3 DEF World, Manager, States, Flags
  <2>2. w1.panic = {} => ~w1.sock.open
    BY <1>3, <1>4 DEF Good, Agrees, ConnectedStates
  <2>3. SubmitL(w, t) = making
    BY <1>4 DEF SubmitL, w0, w1
  <2> HIDE DEF making
  <2> QED BY <2>1, <2>2, <2>3 DEF Good, Agrees, ConnectedStates
<1>5. CASE w1.cm.state = "EIdleConnected"
  <2>1. w1.panic = {} => w1.sock.open /\ ~w1.cm.connector
    BY <1>3, <1>5 DEF Good, Agrees, ConnectedStates
  <2>2. Good(UpgradeConnectionL(w1))
    BY <1>3, <2>1, UpgradeGood
  <2>3. /\ again \in World /\ again.cm.state = "EConnected"
        /\ again.cm.connector = w1.cm.connector
        /\ again.sock = w1.sock /\ again.panic = w1.panic
    BY <1>3 DEF World, Manager, States, Flags
  <2>4. SubmitL(w, t) \in {UpgradeConnectionL(w1), StartRequest(again)}
    BY <1>5 DEF SubmitL, w0, w1
  <2> HIDE DEF again
  <2>5. Good(again)
    BY <2>1, <2>3 DEF Good, Agrees, ConnectedStates
  <2>6. Good(StartRequest(again))
    BY <2>3, <2>5, StartRequestKeeps, KeepsGood
  <2> QED BY <2>2, <2>4, <2>6
<1>6. CASE w1.cm.state \notin {"EIdle", "EIdleConnected"}
  <2>1. Good(StartRequest(w1))
    BY <1>3, StartRequestKeeps, KeepsGood
  <2>2. SubmitL(w, t) \in {StartRequest(w1), w1}
    BY <1>6 DEF SubmitL, w0, w1
  <2> QED BY <1>3, <2>1, <2>2
<1> QED BY <1>4, <1>5, <1>6

-----------------------------------------------------------------------------
\* A queue without one of its members is a queue.
LEMMA WithoutType == ASSUME NEW q \in Seq(Tx), NEW t \in Tx PROVE Without(q, t) \in Seq(Tx)
<1> DEFINE k == CHOOSE i \in DOMAIN q : q[i] = t
<1>1. CASE Contains(q, t)
  <2>1. k \in 1..Len(q)
    BY <1>1 DEF Contains
  <2> HIDE DEF k
  <2>2. RemoveAt(q, k) \in Seq(Tx)
    BY <2>1 DEF RemoveAt
  <2> QED BY <1>1, <2>2 DEF Without, k
<1> QED BY <1>1 DEF Without

\* DoResponseCompletion.
LEMMA DoResponseCompletionKeeps ==
  ASSUME NEW w \in World, NEW t \in Tx PROVE Keeps(w, DoResponseCompletion(w, t))
<1> DEFINE w1 == [w EXCEPT !.tx[t].parse = "end"]
           nearby == [w EXCEPT !.tx[t].parse = "end", !.sock.buf = Tail(@)]
           read   == [w EXCEPT !.tx[t].parse = "end", !.sock.buf = Tail(w.sock.net),
                               !.sock.net = <<>>, !.sock.reader = "ack"]
<1>1. Keeps(w, w)
  BY DEF Keeps
<1>2. Keeps(w, w1) /\ w1.sock = w.sock
  <2> DEFINE r == [w.tx[t] EXCEPT !.parse = "end"]
  <2>1. r \in Transaction
    BY DEF World, Transaction, ParserStates
  <2>2. w1 = [w EXCEPT !.tx[t] = r] /\ w1.sock = w.sock
    BY DEF World
  <2> QED BY <2>1, <2>2, TxKeeps
<1>3. w.sock.buf # <<>> => Keeps(w, nearby)
  <2> SUFFICES ASSUME w.sock.buf # <<>> PROVE Keeps(w, nearby)
    OBVIOUS
  <2> DEFINE s == [w.sock EXCEPT !.buf = Tail(w.sock.buf)]
  <2>1. Tail(w.sock.buf) \in Seq(Piece)
    BY DEF World, Socket
  <2>2. s \in Socket /\ s.open = w.sock.open
    BY <2>1 DEF World, Socket
  <2>3. nearby = [w1 EXCEPT !.sock = s]
    BY DEF World
  <2> HIDE DEF s, w1
  <2>4. Keeps(w1, [w1 EXCEPT !.sock = s])
    BY <1>2, <2>2, SocketKeeps DEF Keeps
  <2> QED BY <1>2, <2>3, <2>4, KeepsBoth
<1>4. w.sock.net # <<>> => Keeps(w, read)
  <2> SUFFICES ASSUME w.sock.net # <<>> PROVE Keeps(w, read)
    OBVIOUS
  <2>1. PICK e : e = <<>>
    OBVIOUS
  <2> DEFINE rest == Tail(w.sock.net)
             s == [w.sock EXCEPT !.buf = rest, !.net = e, !.reader = "ack"]
  <2>2. rest \in Seq(Piece) /\ e \in Seq(Piece)
    BY <2>1 DEF World, Socket
  <2>3. read = [w1 EXCEPT !.sock = s]
    BY <2>1 DEF World
  <2> HIDE DEF rest
  <2>4. s \in Socket /\ s.open = w.sock.open
    BY <2>2 DEF World, Socket
  <2> HIDE DEF s, w1
  <2>5. Keeps(w1, [w1 EXCEPT !.sock = s])
    BY <1>2, <2>4, SocketKeeps DEF Keeps
  <2> QED BY <1>2, <2>3, <2>5, KeepsBoth
<1> QED BY <1>1, <1>3, <1>4 DEF DoResponseCompletion

\* The part of CancelSubmission that cancels on an established connection.
LEMMA CancelCurrentGood ==
  ASSUME NEW w, Good(w), w.cm.state # "EConnecting", NEW t \in Tx, NEW stop \in BOOLEAN
  PROVE  Good(CancelCurrent(w, t, stop))
<1> DEFINE w1 == IF w.cm.curReq = t THEN CancelRequest(w, t) ELSE w
           w2 == IF w1.cm.curResp = None /\ w1.cm.pendResp = <<>>
                 THEN [w1 EXCEPT !.cm.curResp = t] ELSE w1
           w2a == DoResponseCompletion(w2, t)
           w3 == CancelResponse(w2a, t)
<1>1. w \in World /\ Keeps(w, w)
  BY DEF Good, Keeps
<1>2. Keeps(w, w1)
  BY <1>1, CancelRequestKeeps
<1> HIDE DEF w1
<1>3. Keeps(w1, w2)
  <2>1. w1 \in World
    BY <1>2 DEF Keeps
  <2>2. Keeps(w1, [w1 EXCEPT !.cm.curResp = t]) /\ Keeps(w1, w1)
    BY <2>1 DEF World, Manager, Keeps
  <2> QED BY <2>2
<1> HIDE DEF w2
<1>4. Keeps(w2, w2a)
  BY <1>3, DoResponseCompletionKeeps DEF Keeps
<1> HIDE DEF w2a
<1>5. Keeps(w2a, w3)
  BY <1>4, CancelResponseKeeps DEF Keeps
<1> HIDE DEF w3
<1>6. Good(w2)
  BY <1>2, <1>3, KeepsGood
<1>7. Good(w3) /\ w3.cm.state # "EConnecting" /\ w3 \in World
  BY <1>2, <1>3, <1>4, <1>5, KeepsGood DEF Keeps
<1>8. Good(CloseConnection(w3))
  BY <1>7, CloseConnectionGood
<1>9. Good(ResponseDataParsed(w3))
  BY <1>7, ResponseDataParsedGood
<1>10. CancelCurrent(w, t, stop) \in {w2, CloseConnection(w3), ResponseDataParsed(w3)}
  BY DEF CancelCurrent, w1, w2, w2a, w3
<1> QED BY <1>6, <1>8, <1>9, <1>10

\* The part of CancelSubmission that looks after the other transactions.
LEMMA AfterCancelCurrentGood ==
  ASSUME NEW w, Good(w), NEW t \in Tx, NEW stop \in BOOLEAN, NEW reconnects \in BOOLEAN
  PROVE  Good(AfterCancelCurrent(w, t, stop, reconnects))
<1> DEFINE d == w.cm
<1>1. w \in World /\ d \in Manager
  BY Members DEF Good
<1>2. CASE d.curResp # None /\ d.state = "EIdle"
  <2> DEFINE w1 == IF stop THEN ConnectionError(w, d.curResp, "nonPipelining") ELSE w
             w2 == [NotifyPendingTransactions(w1, "nonPipelining")
                      EXCEPT !.cm.curReq = None, !.cm.curResp = None]
  <2>1. Keeps(w, w) /\ d.curResp \in Tx \cup {None}
    BY <1>1 DEF Keeps, Manager
  <2>2. Keeps(w, w1)
    BY <1>1, <2>1, ConnectionErrorKeeps
  <2> HIDE DEF w1
  <2>3. Keeps(w1, w2)
    BY <2>2, NotifyAndVacateKeeps DEF Keeps
  <2> HIDE DEF w2
  <2>4. AfterCancelCurrent(w, t, stop, reconnects) = w2
    BY <1>2 DEF AfterCancelCurrent, w1, w2
  <2> QED BY <2>2, <2>3, <2>4, KeepsGood
<1>3. CASE /\ ~(d.curResp # None /\ d.state = "EIdle")
           /\ d.state = "EIdle" /\ d.pendReq # <<>> /\ d.pendResp = <<>>
  <2>1. AfterCancelCurrent(w, t, stop, reconnects)
        = Panic(w, "CancelSubmission: no pending response")
    BY <1>3 DEF AfterCancelCurrent
  <2>2. Keeps(w, AfterCancelCurrent(w, t, stop, reconnects))
    BY <1>1, <2>1, PanicKeeps DEF Assertions
  <2> QED BY <2>2, KeepsGood
<1>4. CASE /\ ~(d.curResp # None /\ d.state = "EIdle")
           /\ d.state = "EIdle" /\ d.pendReq # <<>> /\ d.pendResp # <<>>
  <2> DEFINE h == Head(d.pendReq)
             k == Tail(d.pendReq)
             r == Head(d.pendResp)
             q == Tail(d.pendResp)
             c == [d EXCEPT !.curReq = h, !.curResp = r, !.pendReq = k, !.pendResp = q]
             w1 == [w EXCEPT !.cm = c]
             w2 == [w1 EXCEPT !.cm.flags = @ \ {"EPendingWriteInConnectedState"}]
  <2>1. h \in Tx /\ k \in Seq(Tx) /\ r \in Tx /\ q \in Seq(Tx)
    BY <1>1, <1>4 DEF Manager
  <2> HIDE DEF h, k, r, q
  <2>2. c \in Manager /\ c.state = d.state /\ c.connector = d.connector
    BY <1>1, <2>1 DEF Manager
  <2>3. w1 = [w EXCEPT !.cm.curReq = h, !.cm.curResp = r, !.cm.pendReq = k, !.cm.pendResp = q]
    BY <1>1 DEF World
  <2> HIDE DEF c
  <2>4. Keeps(w, w1)
    BY <1>1, <2>2, ManagerKeeps
  <2>5. Good(w1) /\ w1 \in World /\ w1.cm.state = "EIdle"
    BY <1>4, <2>4, KeepsGood DEF Keeps
  <2> HIDE DEF w1
  <2>6. Good(ReconnectSocketL(w1))
    <3>1. w1.panic = {} => ~w1.sock.open
      BY <2>5 DEF Good, Agrees, ConnectedStates
    <3> QED BY <2>5, <3>1, ReconnectGood
  <2>7. Keeps(w1, w2)
    BY <2>5 DEF World, Manager, Keeps
  <2>8. Good(w2) /\ w2 \in World
    BY <2>5, <2>7, KeepsGood DEF Keeps
  <2> HIDE DEF w2
  <2>9. Good(ReportSocketError(w2, "fail"))
    BY <2>8, ReportSocketErrorKeeps, KeepsGood
  <2>10. AfterCancelCurrent(w, t, stop, reconnects)
         \in {ReconnectSocketL(w1), ReportSocketError(w2, "fail")}
    BY <1>4, <2>3 DEF AfterCancelCurrent, w2, h, k, r, q
  <2> QED BY <2>6, <2>9, <2>10
<1>5. CASE ~(d.curResp # None /\ d.state = "EIdle") /\ ~(d.state = "EIdle" /\ d.pendReq # <<>>)
  <2>1. Keeps(w, ClearCurrent(w, t))
    BY <1>1 DEF World, Manager, ClearCurrent, Keeps
  <2>2. AfterCancelCurrent(w, t, stop, reconnects) = ClearCurrent(w, t)
    BY <1>5 DEF AfterCancelCurrent
  <2> QED BY <2>1, <2>2, KeepsGood
<1> QED BY <1>2, <1>3, <1>4, <1>5

\* CancelSubmission.
LEMMA CancelSubmissionGood ==
  ASSUME NEW w, Good(w), NEW t \in Tx, NEW reconnects \in BOOLEAN
  PROVE  Good(CancelSubmission(w, t, reconnects))
<1> DEFINE inReq  == Contains(w.cm.pendReq, t)
           inResp == Contains(w.cm.pendResp, t)
           stop   == inResp /\ ~inReq
           p  == Without(w.cm.pendReq, t)
           q  == Without(w.cm.pendResp, t)
           w1 == [w EXCEPT !.cm.pendReq = p, !.cm.pendResp = q]
           w1a == [w1 EXCEPT !.cm.connector = FALSE]
           w2 == IF w1.cm.state = "EConnecting" THEN SetIdleState(w1a) ELSE CancelCurrent(w1, t, stop)
<1>1. w \in World
  BY DEF Good
<1>2. p \in Seq(Tx) /\ q \in Seq(Tx) /\ stop \in BOOLEAN
  BY <1>1, WithoutType DEF World, Manager
<1> HIDE DEF p, q, stop
<1>3. Keeps(w, w1)
  <2> DEFINE c == [w.cm EXCEPT !.pendReq = p, !.pendResp = q]
  <2>1. c \in Manager /\ c.state = w.cm.state /\ c.connector = w.cm.connector
    BY <1>1, <1>2, QueuesType DEF World, Manager
  <2>2. w1 = [w EXCEPT !.cm = c]
    BY <1>1 DEF World
  <2> HIDE DEF c
  <2> QED BY <1>1, <2>1, <2>2, ManagerKeeps
<1> HIDE DEF w1
<1>4. Good(w1) /\ w1 \in World
  BY <1>3, KeepsGood DEF Keeps
<1>5. Good(w2)
  <2>1. CASE w1.cm.state = "EConnecting"
    <3>1. w1a \in World /\ ~w1a.cm.connector /\ w1a.sock = w1.sock /\ w1a.panic = w1.panic
      BY <1>4 DEF World, Manager
    <3>2. w1.panic = {} => ~w1.sock.open
      BY <1>4, <2>1 DEF Good, Agrees, ConnectedStates
    <3> HIDE DEF w1a
    <3> QED BY <2>1, <3>1, <3>2, SetIdleStateGood
  <2>2. CASE w1.cm.state # "EConnecting"
    BY <1>2, <1>4, <2>2, CancelCurrentGood
  <2> QED BY <2>1, <2>2
<1> HIDE DEF w2
<1>6. Good(AfterCancelCurrent(w2, t, stop, reconnects))
  BY <1>2, <1>5, AfterCancelCurrentGood
<1>7. Good(Panic(w, "CancelSubmission: request without response"))
  BY <1>1, PanicKeeps, KeepsGood DEF Assertions
<1>8. CancelSubmission(w, t, reconnects)
      \in {Panic(w, "CancelSubmission: request without response"),
           AfterCancelCurrent(w2, t, stop, reconnects), CloseConnection(w1), w1}
  BY DEF CancelSubmission, w1, w1a, w2, stop, p, q
<1> QED BY <1>4, <1>6, <1>7, <1>8, CloseConnectionGood

-----------------------------------------------------------------------------
\* A change of a composer, and of what the client knows, keeps the world.
LEMMA ComposerKeeps ==
  ASSUME NEW w \in World, NEW t \in Tx, NEW c \in ComposerStates
  PROVE  Keeps(w, [w EXCEPT !.tx[t].comp = c])
<1>1. [w.tx[t] EXCEPT !.comp = c] \in Transaction
  BY DEF World, Transaction
<1>2. [w EXCEPT !.tx[t].comp = c] = [w EXCEPT !.tx[t] = [w.tx[t] EXCEPT !.comp = c]]
  BY DEF World
<1> QED BY <1>1, <1>2, TxKeeps

\* What the client knows of a transaction.
LEMMA StatusKeeps ==
  ASSUME NEW w \in World, NEW t \in Tx, NEW c \in Statuses
  PROVE  Keeps(w, [w EXCEPT !.tx[t].status = c])
<1>1. [w.tx[t] EXCEPT !.status = c] \in Transaction
  BY DEF World, Transaction
<1>2. [w EXCEPT !.tx[t].status = c] = [w EXCEPT !.tx[t] = [w.tx[t] EXCEPT !.status = c]]
  BY DEF World
<1> QED BY <1>1, <1>2, TxKeeps

\* Whether the client has read the response's body.
LEMMA UnreadKeeps ==
  ASSUME NEW w \in World, NEW t \in Tx
  PROVE  Keeps(w, [w EXCEPT !.tx[t].unread = FALSE]) /\ Keeps(w, [w EXCEPT !.tx[t].hold = FALSE])
         /\ Keeps(w, [w EXCEPT !.tx[t].hold = TRUE])
<1> DEFINE r1 == [w.tx[t] EXCEPT !.unread = FALSE]
           r2 == [w.tx[t] EXCEPT !.hold = FALSE]
           r3 == [w.tx[t] EXCEPT !.hold = TRUE]
<1>1. r1 \in Transaction /\ r2 \in Transaction /\ r3 \in Transaction
  BY DEF World, Transaction
<1>2. /\ [w EXCEPT !.tx[t].unread = FALSE] = [w EXCEPT !.tx[t] = r1]
      /\ [w EXCEPT !.tx[t].hold = FALSE] = [w EXCEPT !.tx[t] = r2]
      /\ [w EXCEPT !.tx[t].hold = TRUE] = [w EXCEPT !.tx[t] = r3]
  BY DEF World
<1> QED BY <1>1, <1>2, TxKeeps

\* ConnectionMadeL.
LEMMA ConnectionMadeLGood ==
  ASSUME NEW w, Good(w) PROVE Good(ConnectionMadeL(w))
<1> DEFINE s  == [ClosedSocket EXCEPT !.open = TRUE]
           w1 == [w EXCEPT !.cm.connector = FALSE, !.sock = s]
           w2 == [w1 EXCEPT !.cm.state = "EConnected"]
<1>1. w \in World /\ s \in Socket /\ s.open
  BY ClosedType DEF Good
<1> HIDE DEF s
<1>2. w1 \in World /\ ~w1.cm.connector /\ w1.sock.open
  BY <1>1 DEF World, Manager
<1>3. Good(Panic(w1, "no current request"))
  <2>1. Keeps(w1, Panic(w1, "no current request")) /\ Panic(w1, "no current request").panic # {}
    BY <1>2, PanicKeeps DEF Assertions
  <2> QED BY <2>1 DEF Good, Keeps
<1>4. ConnectionMadeL(w)
      \in {Panic(w1, "no current request"), UpgradeConnectionL(w1), StartRequest(w2)}
  BY DEF ConnectionMadeL, s
<1> HIDE DEF w1
<1>5. Good(UpgradeConnectionL(w1))
  BY <1>2, UpgradeGood
<1>6. w2 \in World /\ ~w2.cm.connector /\ w2.sock.open /\ w2.cm.state = "EConnected"
  BY <1>2 DEF World, Manager, States
<1> HIDE DEF w2
<1>7. Good(w2)
  BY <1>6 DEF Good, Agrees, ConnectedStates
<1>8. Good(StartRequest(w2))
  BY <1>6, <1>7, StartRequestKeeps, KeepsGood
<1> QED BY <1>3, <1>4, <1>5, <1>8

\* HandleConnectError.
LEMMA HandleConnectErrorGood ==
  ASSUME NEW w, Good(w), w.cm.connector, NEW err, NEW reconnects \in BOOLEAN
  PROVE  Good(HandleConnectError(w, err, reconnects))
<1> DEFINE w0 == [w EXCEPT !.cm.connector = FALSE]
           w1 == HandleSocketError(w0, err, reconnects)
<1>1. w0 \in World /\ ~w0.cm.connector /\ w0.sock = w.sock /\ w0.panic = w.panic
  BY DEF World, Manager, Good
<1>2. w.panic = {} => ~w.sock.open
  BY DEF Good, Agrees, ConnectedStates
<1> HIDE DEF w0
<1>3. Good(w1) /\ w1 \in World
  BY <1>1, <1>2, HandleSocketErrorGood DEF Good
<1> HIDE DEF w1
<1>4. Good(Panic(w1, "HandleConnectError: not EIdle"))
  BY <1>3, PanicKeeps, KeepsGood DEF Assertions
<1>5. HandleConnectError(w, err, reconnects) \in {Panic(w1, "HandleConnectError: not EIdle"), w1}
  BY DEF HandleConnectError, w0, w1
<1> QED BY <1>3, <1>4, <1>5

\* SendRequestDataL.
LEMMA SendRequestDataKeeps ==
  ASSUME NEW w \in World, NEW t \in Tx PROVE Keeps(w, SendRequestDataL(w, t))
<1>1. Keeps(w, Panic(w, "SendRequestDataL: not EConnected")) /\ Keeps(w, Panic(w, "writer busy"))
  BY PanicKeeps DEF Assertions
<1>2. Keeps(w, [w EXCEPT !.sock.writer = t])
  BY DEF World, Socket, Keeps
<1> QED BY <1>1, <1>2 DEF SendRequestDataL

\* A change of a composer that hands a buffer to the output stream.
LEMMA ComposerSendsKeeps ==
  ASSUME NEW w \in World, NEW t \in Tx, NEW c \in ComposerStates
  PROVE  Keeps(w, SendRequestDataL([w EXCEPT !.tx[t].comp = c], t))
<1> DEFINE v == [w EXCEPT !.tx[t].comp = c]
<1>1. Keeps(w, v) /\ v \in World
  BY ComposerKeeps DEF Keeps
<1> HIDE DEF v
<1>2. Keeps(w, SendRequestDataL(v, t))
  BY <1>1, SendRequestDataKeeps, KeepsBoth
<1> QED BY <1>2 DEF v

\* RequestDataSent.
LEMMA RequestDataSentKeeps ==
  ASSUME NEW w \in World, NEW t \in Tx PROVE Keeps(w, RequestDataSent(w, t))
<1> DEFINE w1 == RequestComplete(w)
<1>1. Keeps(w, w1) /\ w1 \in World
  BY RequestCompleteKeeps DEF Keeps
<1> HIDE DEF w1
<1>2. Keeps(w, [w1 EXCEPT !.tx[t].comp = "sent"])
  BY <1>1, ComposerKeeps, KeepsBoth DEF ComposerStates
<1>3. /\ Keeps(w, [w EXCEPT !.tx[t].comp = "part"]) /\ Keeps(w, [w EXCEPT !.tx[t].comp = "wanted"])
      /\ Keeps(w, [w EXCEPT !.tx[t].comp = "ending"])
      /\ Keeps(w, [w EXCEPT !.tx[t].comp = "start"])
  BY ComposerKeeps DEF ComposerStates
<1>4. Keeps(w, Panic(w, "composer not EWaitingForRelease"))
  BY PanicKeeps DEF Assertions
<1> QED BY <1>2, <1>3, <1>4 DEF RequestDataSent, w1

-----------------------------------------------------------------------------
\* ReleaseDataPacket.
LEMMA ReleaseDataPacketGood ==
  ASSUME NEW w, Good(w), NEW t \in Tx PROVE Good(ReleaseDataPacket(w, t))
<1>1. w \in World
  BY DEF Good
<1>2. Good([w EXCEPT !.tx[t].hold = TRUE])
  BY <1>1, UnreadKeeps, KeepsGood
<1> QED BY <1>2, ResponseDataParsedGood DEF ReleaseDataPacket

\* The parser's state.
LEMMA ParserKeeps ==
  ASSUME NEW w \in World, NEW t \in Tx, NEW p \in ParserStates
  PROVE  Keeps(w, [w EXCEPT !.tx[t].parse = p])
<1>1. [w.tx[t] EXCEPT !.parse = p] \in Transaction
  BY DEF World, Transaction
<1>2. [w EXCEPT !.tx[t].parse = p] = [w EXCEPT !.tx[t] = [w.tx[t] EXCEPT !.parse = p]]
  BY DEF World
<1> QED BY <1>1, <1>2, TxKeeps

\* The buffer is parsed.
LEMMA BufferEmptyGood ==
  ASSUME NEW w, Good(w), NEW t \in Tx PROVE Good(BufferEmpty(w, t))
<1> DEFINE w1 == [w EXCEPT !.tx[t].parse = "wait"]
<1>1. Good(w1)
  BY ParserKeeps, KeepsGood DEF Good, ParserStates
<1> HIDE DEF w1
<1>2. Good(ReleaseDataPacket(w1, t))
  BY <1>1, ReleaseDataPacketGood
<1> QED BY <1>2 DEF BufferEmpty, w1

\* MakeConnectionNonPersistent does not touch the streams.
LEMMA NonPersistentSocket ==
  ASSUME NEW w \in World PROVE MakeConnectionNonPersistent(w).sock = w.sock
  BY DEF MakeConnectionNonPersistent, NotifyPendingTransactions, World

\* The headers of a response are parsed.
LEMMA ParseHeadGood ==
  ASSUME NEW w, Good(w), NEW t \in Tx, NEW piece \in Piece, w.sock.buf # <<>>
  PROVE  Good(ParseHead(w, t, piece))
<1> DEFINE w1 == IF piece.close THEN MakeConnectionNonPersistent(w) ELSE w
           r  == [w1.tx[t] EXCEPT !.hdr = TRUE, !.len = piece.len]
           s  == [w1.sock EXCEPT !.buf = Tail(w1.sock.buf)]
           v  == [w1 EXCEPT !.tx[t] = r]
           w2 == [v EXCEPT !.sock = s]
<1>1. w \in World
  BY DEF Good
<1>2. Good(w1) /\ w1 \in World /\ w1.sock.buf # <<>>
  BY <1>1, NonPersistentKeeps, NonPersistentSocket, KeepsGood DEF Good
<1> HIDE DEF w1
<1>3. r \in Transaction
  <2>1. w1.tx[t] \in Transaction
    BY <1>2 DEF World
  <2>2. piece.len \in Lengths
    BY DEF Piece
  <2> QED BY <2>1, <2>2 DEF Transaction
<1>4. Tail(w1.sock.buf) \in Seq(Piece)
  BY <1>2 DEF World, Socket
<1>5. s \in Socket /\ s.open = w1.sock.open
  BY <1>2, <1>4 DEF World, Socket
<1>6. w2 = [w1 EXCEPT !.tx[t].hdr = TRUE, !.tx[t].len = piece.len, !.sock.buf = Tail(@)]
  BY <1>2 DEF World
<1>7. Keeps(w1, v) /\ v.sock = w1.sock
  BY <1>2, <1>3, TxKeeps DEF World
<1> HIDE DEF r, s, v
<1>8. Keeps(v, w2)
  BY <1>5, <1>7, SocketKeeps DEF Keeps
<1> HIDE DEF w2
<1>9. Good(w2) /\ w2 \in World
  BY <1>2, <1>7, <1>8, KeepsGood DEF Keeps
<1>10. Good([w2 EXCEPT !.tx[t].parse = "end"])
  BY <1>9, ParserKeeps, KeepsGood DEF ParserStates
<1>11. Good(BufferEmpty(w2, t))
  BY <1>9, BufferEmptyGood
<1>12. ParseHead(w, t, piece) \in {[w2 EXCEPT !.tx[t].parse = "end"], BufferEmpty(w2, t), w2}
  BY <1>6 DEF ParseHead, w1
<1> QED BY <1>9, <1>10, <1>11, <1>12

\* The body of a response is parsed.
LEMMA ParseTailGood ==
  ASSUME NEW w, Good(w), NEW t \in Tx, w.sock.buf # <<>>
  PROVE  Good(ParseTail(w, t))
<1> DEFINE r  == [w.tx[t] EXCEPT !.unread = TRUE, !.body = TRUE]
           s  == [w.sock EXCEPT !.buf = Tail(w.sock.buf)]
           v  == [w EXCEPT !.tx[t] = r]
           w1 == [v EXCEPT !.sock = s]
<1>1. w \in World
  BY DEF Good
<1>2. r \in Transaction
  BY <1>1 DEF World, Transaction
<1>3. Tail(w.sock.buf) \in Seq(Piece)
  BY <1>1 DEF World, Socket
<1>4. s \in Socket /\ s.open = w.sock.open
  BY <1>1, <1>3 DEF World, Socket
<1>5. w1 = [w EXCEPT !.tx[t].unread = TRUE, !.tx[t].body = TRUE, !.sock.buf = Tail(@)]
  BY <1>1 DEF World
<1>6. Keeps(w, v) /\ v.sock = w.sock
  BY <1>1, <1>2, TxKeeps DEF World
<1> HIDE DEF r, s, v
<1>7. Keeps(v, w1)
  BY <1>4, <1>6, SocketKeeps DEF Keeps
<1> HIDE DEF w1
<1>8. Good(w1) /\ w1 \in World
  BY <1>6, <1>7, KeepsGood DEF Keeps
<1>9. Good([w1 EXCEPT !.tx[t].parse = "end"])
  BY <1>8, ParserKeeps, KeepsGood DEF ParserStates
<1>10. Good(BufferEmpty(w1, t))
  BY <1>8, BufferEmptyGood
<1>11. ParseTail(w, t) \in {[w1 EXCEPT !.tx[t].parse = "end"], BufferEmpty(w1, t), w1}
  BY <1>5 DEF ParseTail
<1> QED BY <1>8, <1>9, <1>10, <1>11

\* MessageCompleteL.
LEMMA MessageCompleteGood ==
  ASSUME NEW w, Good(w), NEW t \in Tx PROVE Good(MessageCompleteL(w, t))
<1> DEFINE w0 == [w EXCEPT !.tx[t].msgDone = TRUE]
           w1 == ResponseComplete(w0, w.sock.buf # <<>>)
           w2 == IF w1.tx[t].unread THEN w1 ELSE TransactionComplete(w1, t)
           w3 == [w2 EXCEPT !.tx[t].parse = "wait", !.tx[t].hdr = FALSE]
<1>1. w \in World
  BY DEF Good
<1>2. Good(w0) /\ w0 \in World
  BY <1>1, MsgDoneKeeps, KeepsGood DEF Keeps
<1> HIDE DEF w0
<1>3. Good(w1) /\ w1 \in World
  BY <1>2, ResponseCompleteKeeps, KeepsGood DEF Good
<1> HIDE DEF w1
<1>4. Good(w2) /\ w2 \in World
  BY <1>3, TransactionCompleteKeeps, KeepsGood DEF Good
<1> HIDE DEF w2
<1>5. Good(w3)
  BY <1>4, ResetParserKeeps, KeepsGood
<1> HIDE DEF w3
<1>6. Good(ReleaseDataPacket(w3, t))
  BY <1>5, ReleaseDataPacketGood
<1> QED BY <1>6 DEF MessageCompleteL, w0, w1, w2, w3

-----------------------------------------------------------------------------
\* The variables become a good world.
LEMMA BecomesGood == ASSUME NEW w, Good(w), Becomes(w) PROVE Good(world)'
<1>1. w = [cm |-> w.cm, tx |-> w.tx, sock |-> w.sock, panic |-> w.panic]
  BY DEF Good, World
<1>2. world' = w
  BY <1>1 DEF Becomes, world
<1> QED BY <1>2 DEF Good, Agrees

\* The variables are the members of the world.
LEMMA WorldIs ==
  /\ world.cm = cm /\ world.tx = tx /\ world.sock = sock /\ world.panic = panic
  BY DEF world

\* Submit.
LEMMA SubmitStep == ASSUME Good(world), NEW t \in Tx, Submit(t) PROVE Good(world)'
<1> DEFINE available == cm.state = "EIdleConnected" /\ cm.host = HostOf[t]
           busy      == cm.state \in {"EConnecting", "EUpgrading", "EConnected"}
           new == ~available /\ ~busy
           w1 == Assigned(world, t, new)
           w2 == IF tx[t].pipeline THEN w1 ELSE DisablePipelining(w1)
<1>1. new \in BOOLEAN /\ world \in World
  BY DEF Good
<1> HIDE DEF new
<1>2. Good(w1) /\ w1 \in World
  BY <1>1, AssignedKeeps, KeepsGood DEF Keeps
<1> HIDE DEF w1
<1>3. Good(w2)
  BY <1>2, DisablePipeliningKeeps, KeepsGood
<1> HIDE DEF w2
<1>4. Good(SubmitL(w2, t))
  BY <1>3, SubmitGood
<1>5. Becomes(SubmitL(w2, t))
  BY DEF Submit, new, w1, w2
<1> QED BY <1>4, <1>5, BecomesGood

\* Cancel.
LEMMA CancelStep == ASSUME Good(world), NEW t \in Tx, Cancel(t) PROVE Good(world)'
<1> DEFINE w1 == IF tx[t].msgDone THEN [world EXCEPT !.tx[t].unread = FALSE] ELSE world
<1>1. PICK reconnects \in Reconnects :
        Becomes([CancelSubmission(w1, t, reconnects) EXCEPT !.tx[t].status = "cancelled"])
  BY DEF Cancel
<1>2. reconnects \in BOOLEAN
  BY DEF Reconnects
<1>3. Good(w1)
  BY UnreadKeeps, KeepsGood DEF Good
<1> HIDE DEF w1
<1>4. Good(CancelSubmission(w1, t, reconnects))
  BY <1>2, <1>3, CancelSubmissionGood
<1>5. Good([CancelSubmission(w1, t, reconnects) EXCEPT !.tx[t].status = "cancelled"])
  BY <1>4, StatusKeeps, KeepsGood DEF Good, Statuses
<1> QED BY <1>1, <1>5, BecomesGood

\* A connection is made, or cannot be made; the handshake is done.
LEMMA ConnectStep ==
  ASSUME Good(world), ConnectionMade \/ ConnectFails \/ SecureClientCnf
  PROVE  Good(world)'
<1>1. CASE ConnectionMade
  BY <1>1, ConnectionMadeLGood, BecomesGood DEF ConnectionMade
<1>2. CASE ConnectFails
  <2>1. PICK err \in {"fail", "disconnected"}, reconnects \in Reconnects :
          Becomes(HandleConnectError(world, err, reconnects))
    BY <1>2 DEF ConnectFails
  <2>2. world.cm.connector /\ reconnects \in BOOLEAN
    BY <1>2 DEF ConnectFails, world, Reconnects
  <2> QED BY <2>1, <2>2, HandleConnectErrorGood, BecomesGood
<1>3. CASE SecureClientCnf
  <2> DEFINE w1 == [world EXCEPT !.cm.secureRetry = FALSE, !.cm.state = "EConnected"]
  <2>1. world \in World /\ world.cm.state = "EUpgrading"
    BY <1>3, WorldIs DEF SecureClientCnf, Good
  <2>2. world.panic = {} => world.sock.open /\ ~world.cm.connector
    BY <2>1 DEF Good, Agrees, ConnectedStates
  <2>3. /\ w1 \in World /\ w1.cm.state = "EConnected" /\ w1.cm.connector = world.cm.connector
        /\ w1.sock = world.sock /\ w1.panic = world.panic
    BY <2>1 DEF World, Manager, States
  <2>4. Becomes(StartRequest(w1))
    BY <1>3 DEF SecureClientCnf
  <2> HIDE DEF w1
  <2>5. Good(w1)
    BY <2>2, <2>3 DEF Good, Agrees, ConnectedStates
  <2>6. Good(StartRequest(w1))
    BY <2>3, <2>5, StartRequestKeeps, KeepsGood
  <2> QED BY <2>4, <2>6, BecomesGood
<1> QED BY <1>1, <1>2, <1>3

\* A stream is closed.
LEMMA LossStep == ASSUME Good(world), ServerCloses \/ StreamFails PROVE Good(world)'
<1>1. world.sock.open /\ Reconnects \subseteq BOOLEAN
  BY WorldIs DEF ServerCloses, StreamFails, Reconnects
<1>2. ASSUME NEW err, NEW reconnects \in Reconnects, Becomes(StreamClosed(world, err, reconnects))
      PROVE  Good(world)'
  BY <1>1, <1>2, StreamClosedGood, BecomesGood
<1>3. CASE ServerCloses
  BY <1>2, <1>3 DEF ServerCloses
<1>4. CASE StreamFails
  BY <1>2, <1>4 DEF StreamFails
<1> QED BY <1>3, <1>4

\* A change of what the server has, or of what is written to it.
LEMMA WrittenKeeps ==
  ASSUME NEW w \in World, NEW wire \in Seq(Tx), NEW sent \in SUBSET Tx
  PROVE  Keeps(w, [w EXCEPT !.sock.wire = wire, !.sock.sent = sent])
<1> DEFINE s == [w.sock EXCEPT !.wire = wire, !.sent = sent]
<1>1. s \in Socket /\ s.open = w.sock.open
  BY DEF World, Socket
<1>2. [w EXCEPT !.sock.wire = wire, !.sock.sent = sent] = [w EXCEPT !.sock = s]
  BY DEF World
<1> QED BY <1>1, <1>2, SocketKeeps

\* ComposerRun.
LEMMA ComposerRunStep == ASSUME Good(world), NEW t \in Tx, ComposerRun(t) PROVE Good(world)'
<1>1. world \in World
  BY DEF Good
<1>2. CASE Becomes(SendRequestDataL([world EXCEPT !.tx[t].comp = "partSent"], t))
  BY <1>1, <1>2, ComposerSendsKeeps, KeepsGood, BecomesGood DEF ComposerStates
<1>3. CASE Becomes([RequestComplete(world) EXCEPT !.tx[t].comp = "idle"])
  <2>1. Good(RequestComplete(world))
    BY <1>1, RequestCompleteKeeps, KeepsGood
  <2>2. Good([RequestComplete(world) EXCEPT !.tx[t].comp = "idle"])
    BY <2>1, ComposerKeeps, KeepsGood DEF Good, ComposerStates
  <2> QED BY <1>3, <2>2, BecomesGood
<1>4. ASSUME LET w1 == SendRequestDataL([world EXCEPT !.tx[t].comp = "headers"], t)
             IN  Becomes(IF sock.hup THEN w1
                         ELSE [w1 EXCEPT !.sock.wire = Append(@, t),
                                         !.sock.sent = IF t \in HasBody THEN @ ELSE @ \cup {t}])
      PROVE  Good(world)'
  <2> DEFINE w1   == SendRequestDataL([world EXCEPT !.tx[t].comp = "headers"], t)
             wire == Append(w1.sock.wire, t)
             sent == IF t \in HasBody THEN w1.sock.sent ELSE w1.sock.sent \cup {t}
             w2   == [w1 EXCEPT !.sock.wire = wire, !.sock.sent = sent]
  <2>1. Good(w1) /\ w1 \in World
    BY <1>1, ComposerSendsKeeps, KeepsGood DEF Good, ComposerStates
  <2>2. Becomes(w1) \/ Becomes(w2)
    BY <1>4
  <2> HIDE DEF w1
  <2>3. wire \in Seq(Tx) /\ sent \in SUBSET Tx
    BY <2>1 DEF World, Socket
  <2> HIDE DEF wire, sent
  <2>4. Good(w2)
    BY <2>1, <2>3, WrittenKeeps, KeepsGood
  <2> HIDE DEF w2
  <2> QED BY <2>1, <2>2, <2>4, BecomesGood
<1>5. ASSUME LET w1 == SendRequestDataL([world EXCEPT !.tx[t].comp = "lastSent"], t)
             IN  Becomes([w1 EXCEPT !.sock.sent = IF Contains(w1.sock.wire, t)
                                                  THEN @ \cup {t} ELSE @])
      PROVE  Good(world)'
  <2> DEFINE w1   == SendRequestDataL([world EXCEPT !.tx[t].comp = "lastSent"], t)
             sent == IF Contains(w1.sock.wire, t) THEN w1.sock.sent \cup {t} ELSE w1.sock.sent
             w2   == [w1 EXCEPT !.sock.sent = sent]
  <2>1. Good(w1) /\ w1 \in World
    BY <1>1, ComposerSendsKeeps, KeepsGood DEF Good, ComposerStates
  <2>2. Becomes(w2)
    BY <1>5
  <2> HIDE DEF w1
  <2>3. sent \in SUBSET Tx
    BY <2>1 DEF World, Socket
  <2> HIDE DEF sent
  <2>4. Keeps(w1, w2)
    BY <2>1, <2>3 DEF World, Socket, Keeps
  <2> HIDE DEF w2
  <2> QED BY <2>1, <2>2, <2>4, KeepsGood, BecomesGood
<1> QED BY <1>2, <1>3, <1>4, <1>5 DEF ComposerRun

\* The client supplies the next part of its request's body.
LEMMA BodyPartStep ==
  ASSUME Good(world), NEW t \in Tx, NotifyNewRequestBodyPart(t) PROVE Good(world)'
<1>1. Good([world EXCEPT !.tx[t].comp = "last"])
  BY ComposerKeeps, KeepsGood DEF Good, ComposerStates
<1> QED BY <1>1, BecomesGood DEF NotifyNewRequestBodyPart

\* SendDataCnf.
LEMMA SendDataCnfStep == ASSUME Good(world), SendDataCnf PROVE Good(world)'
<1> DEFINE w  == [world EXCEPT !.sock.writer = None]
           w1 == [w EXCEPT !.cm.flags = @ \ {"EDiscardSndDataCnf"}]
           w2 == [w1 EXCEPT !.cm.curReq = None]
           w3 == RequestDataSent(w, cm.curReq)
           w4 == [w3 EXCEPT !.cm.flags = @ \ {"EPendingWriteInConnectedState"}]
<1>1. world \in World /\ cm \in Manager
  BY Members, WorldIs DEF Good
<1>2. Keeps(world, w)
  BY <1>1 DEF World, Socket, Keeps
<1>3. Good(w) /\ w \in World
  BY <1>2, KeepsGood DEF Keeps
<1>4. \/ Becomes(RequestComplete(w1)) \/ Becomes(w2) \/ Becomes(w)
      \/ cm.curReq # None /\ Becomes(w4)
  BY DEF SendDataCnf
<1> HIDE DEF w
<1>5. Keeps(w, w1)
  BY <1>3 DEF World, Manager, Keeps
<1>6. Good(w1) /\ w1 \in World
  BY <1>3, <1>5, KeepsGood DEF Keeps
<1> HIDE DEF w1
<1>7. Good(RequestComplete(w1))
  BY <1>6, RequestCompleteKeeps, KeepsGood
<1>8. Keeps(w1, w2)
  BY <1>6 DEF World, Manager, Keeps
<1>9. Good(w2)
  BY <1>6, <1>8, KeepsGood
<1>10. cm.curReq # None => Good(w4)
  <2> SUFFICES ASSUME cm.curReq # None PROVE Good(w4)
    OBVIOUS
  <2>1. cm.curReq \in Tx
    BY <1>1 DEF Manager
  <2>2. Good(w3) /\ w3 \in World
    BY <1>3, <2>1, RequestDataSentKeeps, KeepsGood DEF Good
  <2> HIDE DEF w3
  <2>3. Keeps(w3, w4)
    BY <2>2 DEF World, Manager, Keeps
  <2> QED BY <2>2, <2>3, KeepsGood
<1> HIDE DEF w2, w3, w4
<1> QED BY <1>3, <1>4, <1>7, <1>9, <1>10, BecomesGood

\* A reply is made of pieces.
LEMMA ReplyType ==
  ASSUME NEW t \in Tx, NEW close \in BOOLEAN, NEW len \in Lengths, NEW reply \in Reply(t, close, len)
  PROVE  reply \in Seq(Piece)
<1> DEFINE head == [t |-> t, part |-> "head", close |-> close, len |-> len]
           tail == [t |-> t, part |-> "tail", close |-> close, len |-> len]
<1>1. head \in Piece /\ tail \in Piece
  BY DEF Piece
<1>2. reply \in {<<head>>, <<head, tail>>}
  BY DEF Reply
<1> HIDE DEF head, tail
<1>3. <<head>> \in Seq(Piece) /\ <<head, tail>> \in Seq(Piece)
  BY <1>1
<1> QED BY <1>2, <1>3

\* ServerReply.
LEMMA ServerReplyStep == ASSUME Good(world), ServerReply PROVE Good(world)'
<1>1. PICK close \in BOOLEAN, len \in Lengths : \E reply \in Reply(Head(sock.wire), close, len) :
        sock' = [sock EXCEPT !.net = @ \o reply, !.hup = close,
                             !.wire = IF close THEN <<>> ELSE Tail(@),
                             !.sent = IF close THEN {} ELSE @ \ {Head(sock.wire)}]
  BY DEF ServerReply
<1>2. PICK reply \in Reply(Head(sock.wire), close, len) :
        sock' = [sock EXCEPT !.net = @ \o reply, !.hup = close,
                             !.wire = IF close THEN <<>> ELSE Tail(@),
                             !.sent = IF close THEN {} ELSE @ \ {Head(sock.wire)}]
  BY <1>1
<1> DEFINE net  == sock.net \o reply
           wire == IF close THEN <<>> ELSE Tail(sock.wire)
           sent == IF close THEN {} ELSE sock.sent \ {Head(sock.wire)}
           s    == [sock EXCEPT !.net = net, !.hup = close, !.wire = wire, !.sent = sent]
           w    == [world EXCEPT !.sock = s]
<1>3. world \in World /\ sock \in Socket /\ world.sock = sock /\ sock.wire # <<>>
  BY Members, WorldIs DEF Good, ServerReply
<1>4. Head(sock.wire) \in Tx /\ Tail(sock.wire) \in Seq(Tx) /\ sock.net \in Seq(Piece)
      /\ sock.sent \in SUBSET Tx
  BY <1>3 DEF Socket
<1>5. reply \in Seq(Piece)
  BY <1>4, ReplyType
<1>6. net \in Seq(Piece) /\ sent \in SUBSET Tx
  BY <1>4, <1>5
<1>7. wire \in Seq(Tx)
  BY <1>4
<1>8. sock' = s
  BY <1>2
<1> HIDE DEF net, wire, sent
<1>9. s \in Socket /\ s.open = sock.open
  BY <1>3, <1>6, <1>7 DEF Socket
<1> HIDE DEF s
<1>10. Good(w)
  BY <1>3, <1>9, SocketKeeps, KeepsGood
<1>11. Becomes(w)
  BY <1>8, WorldIs DEF ServerReply, Becomes, world
<1> HIDE DEF w
<1> QED BY <1>10, <1>11, BecomesGood

\* ReceivedDataIndL.
LEMMA ReceivedDataStep == ASSUME Good(world), ReceivedDataIndL PROVE Good(world)'
<1>1. PICK n \in 1..Len(sock.net) :
        LET got == SubSeq(sock.net, 1, n)
            w   == [world EXCEPT !.sock.reader = "ack", !.sock.buf = got,
                                 !.sock.net = SubSeq(@, n + 1, Len(@))]
        IN  Becomes(IF cm.curResp = None THEN ReceivedDataRes(w) ELSE Feed(w, cm.curResp))
  BY DEF ReceivedDataIndL
<1> DEFINE got  == SubSeq(sock.net, 1, n)
           rest == SubSeq(sock.net, n + 1, Len(sock.net))
           s    == [sock EXCEPT !.reader = "ack", !.buf = got, !.net = rest]
           w    == [world EXCEPT !.sock = s]
<1>2. /\ world \in World /\ sock \in Socket /\ world.sock = sock /\ cm \in Manager
      /\ sock.net \in Seq(Piece)
  BY Members, WorldIs DEF Good, Socket
<1>3. got \in Seq(Piece) /\ rest \in Seq(Piece)
  BY <1>2
<1>4. Becomes(IF cm.curResp = None THEN ReceivedDataRes(w) ELSE Feed(w, cm.curResp))
  <2>1. w = [world EXCEPT !.sock.reader = "ack", !.sock.buf = got,
                          !.sock.net = SubSeq(@, n + 1, Len(@))]
    BY <1>2 DEF World
  <2> HIDE DEF w
  <2> QED BY <1>1, <2>1
<1> HIDE DEF got, rest
<1>5. s \in Socket /\ s.open = sock.open
  BY <1>2, <1>3 DEF Socket
<1> HIDE DEF s
<1>6. Good(w) /\ w \in World
  BY <1>2, <1>5, SocketKeeps, KeepsGood DEF Good
<1> HIDE DEF w
<1>7. CASE cm.curResp = None
  BY <1>4, <1>6, <1>7, ReceivedDataResKeeps, KeepsGood, BecomesGood
<1>8. CASE cm.curResp # None
  <2>1. cm.curResp \in Tx
    BY <1>2, <1>8 DEF Manager
  <2> QED BY <1>4, <1>6, <1>8, <2>1, FeedKeeps, KeepsGood, BecomesGood
<1> QED BY <1>7, <1>8

\* ParserRun.
LEMMA ParserRunStep == ASSUME Good(world), NEW t \in Tx, ParserRun(t) PROVE Good(world)'
<1>1. world.sock = sock /\ sock \in Socket
  BY Members, WorldIs DEF Good
<1>2. CASE Becomes(MessageCompleteL(world, t))
  BY <1>2, MessageCompleteGood, BecomesGood
<1>3. CASE /\ sock.buf # <<>>
           /\ Becomes(IF tx[t].hdr THEN ParseTail(world, t)
                      ELSE ParseHead(world, t, Head(sock.buf)))
  <2>1. Head(sock.buf) \in Piece
    BY <1>1, <1>3 DEF Socket
  <2>2. Good(ParseTail(world, t)) /\ Good(ParseHead(world, t, Head(sock.buf)))
    BY <1>1, <1>3, <2>1, ParseTailGood, ParseHeadGood
  <2> QED BY <1>3, <2>2, BecomesGood
<1> QED BY <1>2, <1>3 DEF ParserRun

\* HandleParserError.
LEMMA ParserFailsStep == ASSUME Good(world), NEW t \in Tx, ParserFails(t) PROVE Good(world)'
<1> DEFINE w1 == [world EXCEPT !.tx[t].parse = "wait", !.tx[t].hdr = FALSE]
<1>1. PICK reconnects \in Reconnects :
        Becomes([CancelSubmission(w1, t, reconnects) EXCEPT !.tx[t].status = "failed"])
  BY DEF ParserFails
<1>2. reconnects \in BOOLEAN
  BY DEF Reconnects
<1>3. Good(w1)
  BY ResetParserKeeps, KeepsGood DEF Good
<1> HIDE DEF w1
<1>4. Good(CancelSubmission(w1, t, reconnects))
  BY <1>2, <1>3, CancelSubmissionGood
<1>5. Good([CancelSubmission(w1, t, reconnects) EXCEPT !.tx[t].status = "failed"])
  BY <1>4, StatusKeeps, KeepsGood DEF Good, Statuses
<1> QED BY <1>1, <1>5, BecomesGood

\* ReleaseData.
LEMMA ReleaseDataStep == ASSUME Good(world), NEW t \in Tx, ReleaseData(t) PROVE Good(world)'
<1> DEFINE w1 == [world EXCEPT !.tx[t].unread = FALSE]
           w1a == ResponseDataParsed(w1)
           w2 == IF tx[t].hold THEN [w1a EXCEPT !.tx[t].hold = FALSE] ELSE w1
           w3 == IF tx[t].msgDone THEN TransactionComplete(w2, t) ELSE w2
<1>1. Good(w1)
  BY UnreadKeeps, KeepsGood DEF Good
<1> HIDE DEF w1
<1>2. Good(w1a) /\ w1a \in World
  BY <1>1, ResponseDataParsedGood DEF Good
<1> HIDE DEF w1a
<1>3. Good(w2) /\ w2 \in World
  BY <1>1, <1>2, UnreadKeeps, KeepsGood DEF Good
<1> HIDE DEF w2
<1>4. Good(w3)
  BY <1>3, TransactionCompleteKeeps, KeepsGood
<1>5. Becomes(w3)
  BY DEF ReleaseData, w1, w1a, w2
<1> HIDE DEF w3
<1> QED BY <1>4, <1>5, BecomesGood

-----------------------------------------------------------------------------
\* The initial world.
LEMMA InitGood == Init => Good(world)
<1> SUFFICES ASSUME Init PROVE Good(world)
  OBVIOUS
<1>1. PICK e : e = <<>>
  OBVIOUS
<1>2. e \in Seq(Tx)
  BY <1>1
<1>3. cm = [state |-> "EIdle", flags |-> {}, curReq |-> None, curResp |-> None,
            pendReq |-> e, pendResp |-> e, excess |-> FALSE, host |-> None,
            secure |-> FALSE, nonPersistent |-> FALSE, secureRetry |-> FALSE,
            connector |-> FALSE]
  BY <1>1 DEF Init
<1>4. cm \in Manager /\ cm.state = "EIdle" /\ ~cm.connector
  BY <1>2, <1>3 DEF Manager, States, Flags
<1>5. tx \in [Tx -> Transaction]
  BY NewTransactionType DEF Init
<1>6. sock \in Socket /\ ~sock.open
  BY ClosedType DEF Init
<1>7. panic \in SUBSET Assertions
  BY DEF Init
<1> QED BY <1>4, <1>5, <1>6, <1>7 DEF Good, Agrees, World, world, ConnectedStates

\* Every step takes a good world to a good world.
LEMMA NextGood == ASSUME Good(world), [Next]_vars PROVE Good(world)'
<1>1. CASE Streams
  BY <1>1, ConnectStep, SendDataCnfStep, ReceivedDataStep DEF Streams
<1>2. CASE ServerReply
  BY <1>2, ServerReplyStep
<1>3. CASE Losses
  BY <1>3, ConnectStep, LossStep DEF Losses
<1>4. ASSUME NEW t \in Tx, Submit(t) \/ Cancel(t) \/ Parties(t) \/ ParserFails(t)
      PROVE  Good(world)'
  BY <1>4, SubmitStep, CancelStep, ComposerRunStep, BodyPartStep, ParserRunStep,
     ReleaseDataStep, ParserFailsStep DEF Parties
<1>5. CASE UNCHANGED vars
  <2>1. world' = world
    BY <1>5 DEF vars, world
  <2> QED BY <2>1 DEF Good, Agrees
<1> QED BY <1>1, <1>2, <1>3, <1>4, <1>5 DEF Next

\* Whatever the transactions are and whatever the environment may do, every
\* variable keeps its type: the queues hold transactions, the current places a
\* transaction or NULL, and nothing is taken from an empty queue.
THEOREM TypeCorrect == Spec => []TypeOK
<1>1. Good(world) => TypeOK
  BY DEF Good, TypeOK
<1> QED BY <1>1, InitGood, NextGood, PTL DEF Spec

\* While no assertion of the source has failed, the manager's state agrees with
\* its streams and its connector, in every behaviour of every environment.
THEOREM ConnectionAgrees == Spec => []SocketAgrees
<1>1. Good(world) => SocketAgrees
  BY WorldIs DEF Good, Agrees, SocketAgrees
<1> QED BY <1>1, InitGood, NextGood, PTL DEF Spec

-----------------------------------------------------------------------------
(* Numbers and queues *)

\* A set of natural numbers that is not empty has a least one.
LEMMA Least ==
  ASSUME NEW S, S \subseteq Nat, S # {}
  PROVE  \E x \in S : \A y \in S : x <= y
<1>1. PICK x \in S : \A y \in S : ~(<<y, x>> \in OpToRel(<, Nat))
  BY NatLessThanWellFounded, WFMin
<1>2. \A y \in S : x <= y
  <2> SUFFICES ASSUME NEW y \in S, ~(x <= y) PROVE FALSE  OBVIOUS
  <2>1. y < x /\ x \in Nat /\ y \in Nat  OBVIOUS
  <2>2. <<y, x>> \in OpToRel(<, Nat)  BY <2>1, Zenon DEF OpToRel
  <2> QED BY <1>1, <2>2
<1> QED BY <1>2

\* A set of natural numbers with 0, and with n + 1 if with n, has them all.
LEMMA SetInduction ==
  ASSUME NEW S, 0 \in S, \A n \in Nat : n \in S => n + 1 \in S
  PROVE  \A n \in Nat : n \in S
<1> SUFFICES ASSUME {n \in Nat : n \notin S} # {} PROVE FALSE  OBVIOUS
<1>1. PICK x \in {n \in Nat : n \notin S} : \A y \in {n \in Nat : n \notin S} : x <= y
  <2> DEFINE N == {n \in Nat : n \notin S}
  <2>1. N \subseteq Nat /\ N # {}  OBVIOUS
  <2> HIDE DEF N
  <2>2. \E x \in N : \A y \in N : x <= y  BY <2>1, Least
  <2> QED BY <2>2 DEF N
<1>2. x \in Nat /\ x # 0  BY <1>1
<1>3. x - 1 \in Nat /\ ~(x <= x - 1)  BY <1>2
<1>4. x - 1 \in S  BY <1>1, <1>3
<1>5. x - 1 + 1 = x  BY <1>2
<1> QED BY <1>1, <1>3, <1>4, <1>5

\* The first element of a queue and the others.
LEMMA HeadAndTail ==
  ASSUME NEW T, NEW s \in Seq(T), s # <<>>
  PROVE  /\ Head(s) \in T /\ Head(s) \in ToSet(s) /\ Tail(s) \in Seq(T)
         /\ ToSet(s) = {Head(s)} \cup ToSet(Tail(s))
         /\ IsInjective(s) => IsInjective(Tail(s)) /\ Head(s) \notin ToSet(Tail(s))
<1>1. Len(s) \in Nat /\ Len(s) >= 1 /\ DOMAIN s = 1 .. Len(s) /\ s \in [1 .. Len(s) -> T]
  BY LenProperties, EmptySeq
<1>2. /\ Tail(s) \in Seq(T) /\ DOMAIN Tail(s) = 1 .. Len(s) - 1
      /\ \A i \in 1 .. Len(s) - 1 : Tail(s)[i] = s[i + 1]
  BY <1>1, HeadTailProperties
<1>3. Head(s) = s[1] /\ 1 \in DOMAIN s  BY <1>1, HeadTailProperties
<1>4. Head(s) \in T /\ Head(s) \in ToSet(s)  BY <1>1, <1>3 DEF ToSet
<1>5. ToSet(s) = {Head(s)} \cup ToSet(Tail(s))
  <2>1. ASSUME NEW e \in ToSet(s), e # Head(s) PROVE e \in ToSet(Tail(s))
    <3>1. PICK i \in DOMAIN s : e = s[i]  BY DEF ToSet
    <3>2. i # 1  BY <1>3, <2>1, <3>1
    <3>3. i - 1 \in 1 .. Len(s) - 1 /\ i - 1 + 1 = i  BY <1>1, <3>2
    <3>4. e = Tail(s)[i - 1]  BY <1>2, <3>1, <3>3
    <3> QED BY <1>2, <3>3, <3>4 DEF ToSet
  <2>2. ASSUME NEW e \in ToSet(Tail(s)) PROVE e \in ToSet(s)
    <3>1. PICK i \in 1 .. Len(s) - 1 : e = Tail(s)[i]  BY <1>2 DEF ToSet
    <3>2. i + 1 \in DOMAIN s /\ e = s[i + 1]  BY <1>1, <1>2, <3>1
    <3> QED BY <3>2 DEF ToSet
  <2> QED BY <1>4, <2>1, <2>2
<1>6. ASSUME IsInjective(s) PROVE IsInjective(Tail(s)) /\ Head(s) \notin ToSet(Tail(s))
  <2>1. \A i \in 1 .. Len(s) - 1 : i + 1 \in DOMAIN s /\ i + 1 # 1 /\ i \in Int  BY <1>1
  <2>2. IsInjective(Tail(s))
    <3> SUFFICES ASSUME NEW a \in DOMAIN Tail(s), NEW b \in DOMAIN Tail(s), Tail(s)[a] = Tail(s)[b] PROVE a = b
      BY Zenon DEF IsInjective
    <3>1. s[a + 1] = s[b + 1] /\ a + 1 \in DOMAIN s /\ b + 1 \in DOMAIN s  BY <1>2, <2>1
    <3>2. a + 1 = b + 1  BY <1>6, <3>1, Zenon DEF IsInjective
    <3> QED BY <1>2, <2>1, <3>2
  <2>3. ASSUME Head(s) \in ToSet(Tail(s)) PROVE FALSE
    <3>1. PICK i \in 1 .. Len(s) - 1 : Head(s) = s[i + 1]  BY <1>2, <2>3 DEF ToSet
    <3> QED BY <1>3, <1>6, <2>1, <3>1 DEF IsInjective
  <2> QED BY <2>2, <2>3
<1> QED BY <1>2, <1>4, <1>5, <1>6

\* What was not in a queue is appended.
LEMMA Appended ==
  ASSUME NEW T, NEW c \in Seq(T), NEW e \in T
  PROVE  /\ Append(c, e) \in Seq(T) /\ Append(c, e) # <<>>
         /\ ToSet(Append(c, e)) = ToSet(c) \cup {e}
         /\ c # <<>> => Head(Append(c, e)) = Head(c)
         /\ c = <<>> => Head(Append(c, e)) = e
         /\ IsInjective(c) /\ e \notin ToSet(c) => IsInjective(Append(c, e))
<1> DEFINE d == Append(c, e)
<1>1. Len(c) \in Nat /\ DOMAIN c = 1 .. Len(c)  BY LenProperties
<1>2. /\ d \in Seq(T) /\ DOMAIN d = 1 .. Len(c) + 1 /\ Len(d) = Len(c) + 1
      /\ \A j \in 1 .. Len(c) : d[j] = c[j]
      /\ d[Len(c) + 1] = e
  BY <1>1, AppendProperties
<1> HIDE DEF d
<1>3. \A j \in DOMAIN d : j = Len(c) + 1 \/ j \in DOMAIN c  BY <1>1, <1>2
<1>4. \A j \in DOMAIN c : j \in DOMAIN d /\ d[j] = c[j] /\ c[j] \in ToSet(c)  BY <1>1, <1>2 DEF ToSet
<1>5. Len(c) + 1 \in DOMAIN d  BY <1>1, <1>2
<1>6. ASSUME IsInjective(c), e \notin ToSet(c) PROVE IsInjective(d)
  <2> SUFFICES ASSUME NEW a \in DOMAIN d, NEW b \in DOMAIN d, d[a] = d[b] PROVE a = b
    BY Zenon DEF IsInjective
  <2> QED BY <1>2, <1>3, <1>4, <1>6 DEF IsInjective
<1>7. ToSet(d) = ToSet(c) \cup {e}
  <2>1. \A z : z \in ToSet(d) => z \in ToSet(c) \cup {e}  BY <1>2, <1>3, <1>4 DEF ToSet
  <2>2. \A z : z \in ToSet(c) => z \in ToSet(d)  BY <1>4 DEF ToSet
  <2>3. e \in ToSet(d)  BY <1>2, <1>5 DEF ToSet
  <2> QED BY <2>1, <2>2, <2>3
<1>8. d # <<>>  BY <1>1, <1>2, EmptySeq
<1>9. Head(d) = d[1]  BY <1>2, <1>8, HeadTailProperties
<1>10. CASE c = <<>>
  <2>1. Len(c) = 0  BY <1>10, EmptySeq
  <2> QED BY <1>2, <1>6, <1>7, <1>8, <1>9, <1>10, <2>1 DEF d
<1>11. CASE c # <<>>
  <2>1. Len(c) >= 1 /\ Head(c) = c[1]  BY <1>1, <1>11, EmptySeq, HeadTailProperties
  <2>2. d[1] = c[1]  BY <1>1, <1>2, <2>1
  <2> QED BY <1>2, <1>6, <1>7, <1>8, <1>9, <1>11, <2>1, <2>2 DEF d
<1> QED BY <1>10, <1>11

\* What RemoveAt leaves.
LEMMA Removed ==
  ASSUME NEW T, NEW s \in Seq(T), NEW k \in 1 .. Len(s)
  PROVE  /\ RemoveAt(s, k) \in Seq(T)
         /\ Len(RemoveAt(s, k)) = Len(s) - 1
         /\ \A i \in 1 .. Len(s) - 1 : RemoveAt(s, k)[i] = s[IF i < k THEN i ELSE i + 1]
<1> DEFINE a == SubSeq(s, 1, k - 1)
           b == SubSeq(s, k + 1, Len(s))
           n == Len(s)
<1>1. n \in Nat /\ k \in Int /\ 1 =< k /\ k =< n /\ \A i \in 1 .. n : s[i] \in T
  BY LenProperties, ElementOfSeq
<1>2. /\ a \in Seq(T) /\ Len(a) = k - 1
      /\ \A i \in 1 .. k - 1 : a[i] = s[i]
  <2>1. \A i \in 1 .. k - 1 : s[i] \in T  BY <1>1
  <2>2. 1 \in Int /\ k - 1 \in Int  BY <1>1
  <2>3. a \in Seq(T) /\ Len(a) = (IF 1 =< k - 1 THEN k - 1 - 1 + 1 ELSE 0)
        /\ \A i \in 1 .. k - 1 - 1 + 1 : a[i] = s[1 + i - 1]
    BY <2>1, <2>2, SubSeqProperties
  <2> HIDE DEF a
  <2> QED BY <1>1, <2>3
<1>3. /\ b \in Seq(T) /\ Len(b) = n - k
      /\ \A i \in 1 .. n - k : b[i] = s[k + i]
  <2>1. \A i \in k + 1 .. n : s[i] \in T  BY <1>1
  <2>2. k + 1 \in Int /\ n \in Int  BY <1>1
  <2>3. b \in Seq(T) /\ Len(b) = (IF k + 1 =< n THEN n - (k + 1) + 1 ELSE 0)
        /\ \A i \in 1 .. n - (k + 1) + 1 : b[i] = s[k + 1 + i - 1]
    BY <2>1, <2>2, SubSeqProperties
  <2> HIDE DEF b
  <2> QED BY <1>1, <2>3
<1>4. RemoveAt(s, k) = a \o b  BY DEF RemoveAt
<1> HIDE DEF a, b, n
<1>5. a \o b \in Seq(T) /\ Len(a \o b) = n - 1
      /\ \A i \in 1 .. n - 1 : (a \o b)[i] = IF i =< k - 1 THEN a[i] ELSE b[i - (k - 1)]
  <2>1. Len(a) + Len(b) = n - 1  BY <1>1, <1>2, <1>3
  <2> QED BY <1>2, <1>3, <2>1, ConcatProperties
<1>6. ASSUME NEW i \in 1 .. n - 1 PROVE (a \o b)[i] = s[IF i < k THEN i ELSE i + 1]
  <2>1. CASE i < k  BY <1>1, <1>2, <1>5, <2>1
  <2>2. CASE ~(i < k)
    <3>1. i - (k - 1) \in 1 .. n - k /\ k + (i - (k - 1)) = i + 1  BY <1>1, <2>2
    <3>2. b[i - (k - 1)] = s[i + 1]  BY <1>3, <3>1
    <3>3. ~(i =< k - 1)  BY <1>1, <2>2
    <3> QED BY <1>5, <2>2, <3>2, <3>3
  <2> QED BY <2>1, <2>2
<1> QED BY <1>4, <1>5, <1>6 DEF n

\* The entry of e is taken out of a queue that holds nothing twice.
LEMMA TakenOut ==
  ASSUME NEW T, NEW s \in Seq(T), IsInjective(s), NEW e
  PROVE  /\ Without(s, e) \in Seq(T) /\ IsInjective(Without(s, e))
         /\ ToSet(Without(s, e)) = ToSet(s) \ {e}
         /\ s # <<>> /\ Head(s) # e => Without(s, e) # <<>> /\ Head(Without(s, e)) = Head(s)
<1>0. Contains(s, e) <=> e \in ToSet(s)
  <2>1. DOMAIN s = 1 .. Len(s)  BY LenProperties
  <2> QED BY <2>1 DEF Contains, ToSet
<1>1. CASE e \notin ToSet(s)  BY <1>0, <1>1 DEF Without
<1>2. CASE e \in ToSet(s)
  <2>1. Len(s) \in Nat /\ DOMAIN s = 1 .. Len(s)  BY LenProperties
  <2> DEFINE k == CHOOSE i \in DOMAIN s : s[i] = e
             d == RemoveAt(s, k)
             n == Len(s)
             from(i) == IF i < k THEN i ELSE i + 1
  <2>2. k \in 1 .. Len(s) /\ s[k] = e  BY <1>2, <2>1 DEF ToSet
  <2>3. Without(s, e) = d  BY <1>0, <1>2 DEF Without
  <2> HIDE DEF k
  <2>4. d \in Seq(T) /\ Len(d) = n - 1 /\ \A i \in 1 .. n - 1 : d[i] = s[from(i)]
    BY <2>2, Removed
  <2>5. DOMAIN d = 1 .. n - 1  BY <2>4, LenProperties
  <2> HIDE DEF d
  <2>6. \A i \in 1 .. n - 1 : from(i) \in DOMAIN s /\ from(i) # k  BY <2>1, <2>2
  <2>7. \A i, j \in 1 .. n - 1 : from(i) = from(j) => i = j  BY <2>1, <2>2
  <2>8. \A j \in DOMAIN s : j # k => \E i \in 1 .. n - 1 : j = from(i)
    <3> SUFFICES ASSUME NEW j \in DOMAIN s, j # k PROVE \E i \in 1 .. n - 1 : j = from(i)  OBVIOUS
    <3>1. CASE j < k
      <4>1. j \in 1 .. n - 1 /\ j = from(j)  BY <2>1, <2>2, <3>1
      <4> QED BY <4>1
    <3>2. CASE j > k
      <4>1. j - 1 \in 1 .. n - 1 /\ j = from(j - 1)  BY <2>1, <2>2, <3>2
      <4> QED BY <4>1
    <3> QED BY <2>1, <2>2, <3>1, <3>2
  <2>9. s # <<>> /\ Head(s) # e => d # <<>> /\ Head(d) = Head(s)
    <3> SUFFICES ASSUME s # <<>>, Head(s) # e PROVE d # <<>> /\ Head(d) = Head(s)  OBVIOUS
    <3>1. Head(s) = s[1]  BY HeadTailProperties
    <3>2. 1 < k /\ 1 \in 1 .. n - 1  BY <2>1, <2>2, <3>1
    <3>3. d # <<>>  BY <2>1, <2>4, <3>2, EmptySeq
    <3>4. Head(d) = d[1]  BY <2>4, <3>3, HeadTailProperties
    <3> QED BY <2>4, <3>1, <3>2, <3>3, <3>4
  <2> HIDE DEF from, n
  <2>10. IsInjective(d)
    <3> SUFFICES ASSUME NEW a \in DOMAIN d, NEW b \in DOMAIN d, d[a] = d[b] PROVE a = b
      BY Zenon DEF IsInjective
    <3>1. s[from(a)] = s[from(b)] /\ from(a) \in DOMAIN s /\ from(b) \in DOMAIN s  BY <2>4, <2>5, <2>6
    <3>2. from(a) = from(b)  BY <3>1, Zenon DEF IsInjective
    <3> QED BY <2>5, <2>7, <3>2
  <2>11. ToSet(d) = ToSet(s) \ {e}
    <3>1. ASSUME NEW x \in ToSet(d) PROVE x \in ToSet(s) /\ x # e
      <4>1. PICK i \in 1 .. n - 1 : x = s[from(i)]  BY <2>4, <2>5 DEF ToSet
      <4>2. from(i) \in DOMAIN s /\ from(i) # k /\ k \in DOMAIN s  BY <2>1, <2>2, <2>6
      <4>3. s[from(i)] # s[k]  BY <4>2, Zenon DEF IsInjective
      <4> QED BY <2>2, <4>1, <4>2, <4>3 DEF ToSet
    <3>2. ASSUME NEW x \in ToSet(s), x # e PROVE x \in ToSet(d)
      <4>1. PICK j \in DOMAIN s : x = s[j]  BY DEF ToSet
      <4>2. PICK i \in 1 .. n - 1 : j = from(i)  BY <2>2, <2>8, <3>2, <4>1
      <4> QED BY <2>4, <2>5, <4>1, <4>2 DEF ToSet
    <3> QED BY <3>1, <3>2
  <2> QED BY <2>3, <2>4, <2>9, <2>10, <2>11
<1> QED BY <1>1, <1>2

-----------------------------------------------------------------------------
(* The heads of the answers *)

\* f is the function by which HeadsIn counts.
Heading(f, P, k) ==
  f = [n \in 0..k |-> IF n = 0 THEN <<>>
                      ELSE IF P[n].part = "head" THEN Append(f[n - 1], P[n].t) ELSE f[n - 1]]

\* The responses of which the first k pieces have a head, as a function of k, are defined.
LEMMA HeadingExists ==
  ASSUME NEW P, NEW k \in Nat PROVE \E f : Heading(f, P, k)
<1> DEFINE S == {n \in Nat : \E f : Heading(f, P, n)}
<1>1. 0 \in S
  <2> DEFINE f == [n \in 0 .. 0 |-> <<>>]
  <2>1. Heading(f, P, 0)  BY DEF Heading
  <2> QED BY <2>1
<1>2. ASSUME NEW n \in Nat, n \in S PROVE n + 1 \in S
  <2>1. PICK f : Heading(f, P, n)  BY <1>2
  <2> DEFINE next(e, i) == IF P[i].part = "head" THEN Append(e, P[i].t) ELSE e
             g == [i \in 0 .. n + 1 |-> IF i = 0 THEN <<>> ELSE next(f[i - 1], i)]
  <2>2. f = [i \in 0 .. n |-> IF i = 0 THEN <<>> ELSE next(f[i - 1], i)]  BY <2>1 DEF Heading
  <2> HIDE DEF next
  <2>3. \A i \in 0 .. n : g[i] = f[i]
    <3> SUFFICES ASSUME NEW i \in 0 .. n PROVE g[i] = f[i]  OBVIOUS
    <3>1. f[i] = IF i = 0 THEN <<>> ELSE next(f[i - 1], i)  BY <2>2
    <3>2. i \in 0 .. n + 1  OBVIOUS
    <3> QED BY <3>1, <3>2
  <2>4. \A i \in 0 .. n + 1 : i # 0 => i - 1 \in 0 .. n  OBVIOUS
  <2>5. g = [i \in 0 .. n + 1 |-> IF i = 0 THEN <<>> ELSE next(g[i - 1], i)]
    <3>1. \A i \in 0 .. n + 1 : i # 0 => g[i - 1] = f[i - 1]  BY <2>3, <2>4
    <3> HIDE DEF g
    <3>2. g = [i \in 0 .. n + 1 |-> IF i = 0 THEN <<>> ELSE next(f[i - 1], i)]  BY DEF g
    <3> QED BY <3>1, <3>2
  <2> HIDE DEF g
  <2>6. Heading(g, P, n + 1)  BY <2>5 DEF Heading, next
  <2> QED BY <2>6
<1> HIDE DEF S
<1>3. k \in S  BY <1>1, <1>2, SetInduction
<1> QED BY <1>3 DEF S

\* HeadsIn is the last value of any function that counts so.
LEMMA HeadsInIs ==
  ASSUME NEW P \in Seq(Piece)
  PROVE  \E f : Heading(f, P, Len(P)) /\ HeadsIn(P) = f[Len(P)]
<1>1. Len(P) \in Nat  BY LenProperties
<1> DEFINE heads == CHOOSE f : f = [n \in 0..Len(P) |-> IF n = 0 THEN <<>>
                      ELSE IF P[n].part = "head" THEN Append(f[n - 1], P[n].t) ELSE f[n - 1]]
<1>2. HeadsIn(P) = heads[Len(P)]  BY DEF HeadsIn
<1>3. Heading(heads, P, Len(P))
  <2>1. \E f : f = [n \in 0..Len(P) |-> IF n = 0 THEN <<>>
                      ELSE IF P[n].part = "head" THEN Append(f[n - 1], P[n].t) ELSE f[n - 1]]
    <3>1. PICK f : Heading(f, P, Len(P))  BY <1>1, HeadingExists
    <3> QED BY <3>1 DEF Heading
  <2>2. heads = [n \in 0..Len(P) |-> IF n = 0 THEN <<>>
                      ELSE IF P[n].part = "head" THEN Append(heads[n - 1], P[n].t) ELSE heads[n - 1]]
    BY <2>1, Zenon
  <2> QED BY <2>2, Zenon DEF Heading
<1> HIDE DEF heads
<1> QED BY <1>2, <1>3

\* Two functions that count the same pieces agree.
LEMMA HeadingSame ==
  ASSUME NEW P, NEW Q, NEW k \in Nat, NEW m \in Nat, k <= m, \A i \in 1 .. k : P[i] = Q[i],
         NEW f, Heading(f, P, k), NEW g, Heading(g, Q, m)
  PROVE  f[k] = g[k]
<1> DEFINE next(e, p) == IF p.part = "head" THEN Append(e, p.t) ELSE e
           S == {n \in Nat : n <= k => f[n] = g[n]}
<1>1. f = [n \in 0..k |-> IF n = 0 THEN <<>> ELSE next(f[n - 1], P[n])]
      /\ g = [n \in 0..m |-> IF n = 0 THEN <<>> ELSE next(g[n - 1], Q[n])]
  BY DEF Heading
<1> HIDE DEF next
<1>2. \A n \in 0 .. k : /\ f[n] = IF n = 0 THEN <<>> ELSE next(f[n - 1], P[n])
                        /\ g[n] = IF n = 0 THEN <<>> ELSE next(g[n - 1], Q[n])
  <2>1. \A n \in 0 .. k : n \in 0 .. m  OBVIOUS
  <2>2. \A n \in 0 .. k : f[n] = IF n = 0 THEN <<>> ELSE next(f[n - 1], P[n])  BY <1>1
  <2>3. \A n \in 0 .. m : g[n] = IF n = 0 THEN <<>> ELSE next(g[n - 1], Q[n])  BY <1>1
  <2> QED BY <2>1, <2>2, <2>3
<1>3. 0 \in S  BY <1>2
<1>4. ASSUME NEW n \in Nat, n \in S PROVE n + 1 \in S
  <2> SUFFICES ASSUME n + 1 <= k PROVE f[n + 1] = g[n + 1]  OBVIOUS
  <2>1. f[n] = g[n] /\ n + 1 \in 0 .. k /\ n + 1 \in 1 .. k /\ n + 1 # 0 /\ n + 1 - 1 = n  BY <1>4
  <2> QED BY <1>2, <2>1
<1> HIDE DEF S
<1>5. k \in S  BY <1>3, <1>4, SetInduction
<1> QED BY <1>5 DEF S

\* HeadsIn of no pieces, and of one more piece.
LEMMA NoHeads == HeadsIn(<<>>) = <<>>
<1>1. <<>> \in Seq(Piece) /\ Len(<<>>) = 0  BY EmptySeq
<1>2. PICK f : Heading(f, <<>>, 0) /\ HeadsIn(<<>>) = f[0]  BY <1>1, HeadsInIs
<1>3. f[0] = <<>>  BY <1>2 DEF Heading
<1> QED BY <1>2, <1>3

\* A piece more on the network is one more head when it is a head, and none otherwise.
LEMMA OneMore ==
  ASSUME NEW P \in Seq(Piece), NEW p \in Piece
  PROVE  HeadsIn(Append(P, p)) = IF p.part = "head" THEN Append(HeadsIn(P), p.t) ELSE HeadsIn(P)
<1> DEFINE Q == Append(P, p)
           k == Len(P)
<1>1. Q \in Seq(Piece) /\ Len(Q) = k + 1 /\ Q[k + 1] = p /\ k \in Nat /\ \A i \in 1 .. k : P[i] = Q[i]
  BY AppendProperties, LenProperties
<1> HIDE DEF Q, k
<1>2. PICK f : Heading(f, P, k) /\ HeadsIn(P) = f[k]  BY HeadsInIs DEF k
<1>3. PICK g : Heading(g, Q, k + 1) /\ HeadsIn(Q) = g[k + 1]  BY <1>1, HeadsInIs
<1>4. f[k] = g[k]
  <2>1. k + 1 \in Nat /\ k <= k + 1  BY <1>1
  <2> QED BY <1>1, <1>2, <1>3, <2>1, HeadingSame
<1>5. g[k + 1] = IF p.part = "head" THEN Append(g[k], p.t) ELSE g[k]
  <2>1. k + 1 \in 0 .. k + 1 /\ k + 1 # 0 /\ k + 1 - 1 = k  BY <1>1
  <2>2. \A n \in 0 .. k + 1 : g[n] = IF n = 0 THEN <<>>
          ELSE IF Q[n].part = "head" THEN Append(g[n - 1], Q[n].t) ELSE g[n - 1]
    BY <1>3 DEF Heading
  <2> DEFINE m == k + 1
  <2>3. m \in 0 .. k + 1 /\ m # 0 /\ m - 1 = k  BY <1>1, <2>1 DEF m
  <2> HIDE DEF m
  <2>4. g[m] = IF Q[m].part = "head" THEN Append(g[m - 1], Q[m].t) ELSE g[m - 1]  BY <2>2, <2>3
  <2>5. g[m - 1] = g[k]  BY <2>3
  <2>6. g[m] = IF Q[m].part = "head" THEN Append(g[k], Q[m].t) ELSE g[k]
    <3>1. CASE Q[m].part = "head"  BY <2>4, <2>5, <3>1
    <3>2. CASE Q[m].part # "head"  BY <2>4, <2>5, <3>2
    <3> QED BY <3>1, <3>2
  <2> QED BY <1>1, <2>6 DEF m
<1> QED BY <1>2, <1>3, <1>4, <1>5 DEF Q

\* The heads are of transactions, and those of two lists of pieces are those of the
\* first and those of the second.
LEMMA HeadsInType == ASSUME NEW P \in Seq(Piece) PROVE HeadsIn(P) \in Seq(Tx)
<1> DEFINE S == {n \in Nat : \A Q \in Seq(Piece) : Len(Q) = n => HeadsIn(Q) \in Seq(Tx)}
<1>1. 0 \in S
  <2>1. ASSUME NEW Q \in Seq(Piece), Len(Q) = 0 PROVE HeadsIn(Q) \in Seq(Tx)
    <3>1. Q = <<>>  BY <2>1, EmptySeq
    <3> QED BY <3>1, NoHeads, EmptySeq
  <2> QED BY <2>1
<1>2. ASSUME NEW n \in Nat, n \in S PROVE n + 1 \in S
  <2>1. ASSUME NEW Q \in Seq(Piece), Len(Q) = n + 1 PROVE HeadsIn(Q) \in Seq(Tx)
    <3>1. Q # <<>>  BY <2>1, EmptySeq
    <3>2. PICK P1 \in Seq(Piece), p \in Piece : Q = Append(P1, p)  BY <3>1, SequenceEmptyOrAppend
    <3>3. Len(P1) = n /\ Len(P1) \in Nat  BY <2>1, <3>2, AppendProperties, LenProperties
    <3>4. HeadsIn(P1) \in Seq(Tx)  BY <1>2, <3>3
    <3>5. p.t \in Tx  BY DEF Piece
    <3>6. Append(HeadsIn(P1), p.t) \in Seq(Tx)  BY <3>4, <3>5, AppendProperties
    <3> QED BY <3>2, <3>4, <3>6, OneMore
  <2> QED BY <2>1
<1> HIDE DEF S
<1>3. Len(P) \in S  BY <1>1, <1>2, SetInduction, LenProperties
<1> QED BY <1>3 DEF S

\* The heads in a buffer and then on the network are those of the one and then of the other.
LEMMA HeadsInBoth ==
  ASSUME NEW P \in Seq(Piece), NEW Q \in Seq(Piece)
  PROVE  HeadsIn(P \o Q) = HeadsIn(P) \o HeadsIn(Q)
<1> DEFINE S == {n \in Nat : \A R \in Seq(Piece) : Len(R) = n => HeadsIn(P \o R) = HeadsIn(P) \o HeadsIn(R)}
<1>0. HeadsIn(P) \in Seq(Tx)  BY HeadsInType
<1>1. 0 \in S
  <2>1. ASSUME NEW R \in Seq(Piece), Len(R) = 0 PROVE HeadsIn(P \o R) = HeadsIn(P) \o HeadsIn(R)
    <3>1. R = <<>>  BY <2>1, EmptySeq
    <3>2. P \o R = P  BY <3>1, ConcatEmptySeq
    <3>3. HeadsIn(P) \o HeadsIn(R) = HeadsIn(P)  BY <1>0, <3>1, NoHeads, ConcatEmptySeq
    <3> QED BY <3>2, <3>3
  <2> QED BY <2>1
<1>2. ASSUME NEW n \in Nat, n \in S PROVE n + 1 \in S
  <2>1. ASSUME NEW R \in Seq(Piece), Len(R) = n + 1 PROVE HeadsIn(P \o R) = HeadsIn(P) \o HeadsIn(R)
    <3>1. R # <<>>  BY <2>1, EmptySeq
    <3>2. PICK R1 \in Seq(Piece), p \in Piece : R = Append(R1, p)  BY <3>1, SequenceEmptyOrAppend
    <3>3. Len(R1) = n /\ Len(R1) \in Nat  BY <2>1, <3>2, AppendProperties, LenProperties
    <3>4. HeadsIn(P \o R1) = HeadsIn(P) \o HeadsIn(R1)  BY <1>2, <3>3
    <3>5. p.t \in Tx /\ HeadsIn(R1) \in Seq(Tx) /\ P \o R1 \in Seq(Piece)
      BY HeadsInType, ConcatProperties DEF Piece
    <3>6. P \o Append(R1, p) = Append(P \o R1, p)
      <4>1. Append(R1, p) = R1 \o <<p>> /\ Append(P \o R1, p) = (P \o R1) \o <<p>> /\ <<p>> \in Seq(Piece)
        BY <3>5, AppendIsConcat
      <4> QED BY <4>1, ConcatAssociative
    <3>7. HeadsIn(P) \o Append(HeadsIn(R1), p.t) = Append(HeadsIn(P) \o HeadsIn(R1), p.t)
      <4>1. HeadsIn(P) \o HeadsIn(R1) \in Seq(Tx) /\ <<p.t>> \in Seq(Tx)  BY <1>0, <3>5, ConcatProperties
      <4>2. Append(HeadsIn(R1), p.t) = HeadsIn(R1) \o <<p.t>>
            /\ Append(HeadsIn(P) \o HeadsIn(R1), p.t) = (HeadsIn(P) \o HeadsIn(R1)) \o <<p.t>>
        BY <3>5, <4>1, AppendIsConcat
      <4> QED BY <1>0, <3>5, <4>1, <4>2, ConcatAssociative
    <3>8. HeadsIn(P \o R) = IF p.part = "head" THEN Append(HeadsIn(P \o R1), p.t) ELSE HeadsIn(P \o R1)
      BY <3>2, <3>5, <3>6, OneMore
    <3>9. HeadsIn(R) = IF p.part = "head" THEN Append(HeadsIn(R1), p.t) ELSE HeadsIn(R1)
      BY <3>2, OneMore
    <3>10. CASE p.part = "head"  BY <3>4, <3>7, <3>8, <3>9, <3>10
    <3>11. CASE p.part # "head"  BY <3>4, <3>8, <3>9, <3>11
    <3> QED BY <3>10, <3>11
  <2> QED BY <2>1
<1> HIDE DEF S
<1>3. Len(Q) \in S  BY <1>1, <1>2, SetInduction, LenProperties
<1> QED BY <1>3 DEF S

-----------------------------------------------------------------------------
(* Queues one after the other *)

\* The empty queue, and the transactions of a queue.
LEMMA NoneIn == ToSet(<<>>) = {} /\ IsInjective(<<>>) /\ <<>> \in Seq(Tx)
<1>1. DOMAIN <<>> = {}  BY EmptySeq
<1> QED BY <1>1, EmptySeq DEF ToSet, IsInjective

\* The transactions of a queue, what Contains asks of it, and its first one before the others.
LEMMA SomeIn ==
  ASSUME NEW T, NEW s \in Seq(T)
  PROVE  /\ ToSet(s) \subseteq T
         /\ \A i \in 1 .. Len(s) : s[i] \in ToSet(s)
         /\ \A e : Contains(s, e) <=> e \in ToSet(s)
         /\ s # <<>> => s = <<Head(s)>> \o Tail(s)
<1>1. s \in [1 .. Len(s) -> T] /\ DOMAIN s = 1 .. Len(s) /\ Len(s) \in Nat  BY LenProperties
<1>2. ASSUME s # <<>> PROVE s = <<Head(s)>> \o Tail(s)
  <2>1. Len(s) >= 1  BY <1>1, <1>2, EmptySeq
  <2>2. SubSeq(s, 1, Len(s)) = <<s[1]>> \o SubSeq(s, 2, Len(s))
    <3>1. 1 \in 1 .. Len(s) /\ Len(s) \in 1 .. Len(s) /\ 1 + 1 = 2  BY <1>1, <2>1
    <3> QED BY <3>1, SubSeqRecursiveFirst
  <2>3. Tail(s) = SubSeq(s, 2, Len(s)) /\ SubSeq(s, 1, Len(s)) = s  BY <1>2, TailIsSubSeq, SubSeqFull
  <2>4. Head(s) = s[1]  BY <1>2
  <2> QED BY <2>2, <2>3, <2>4
<1> QED BY <1>1, <1>2 DEF ToSet, Contains

\* Who is in one queue followed by another.
LEMMA BothIn ==
  ASSUME NEW T, NEW a \in Seq(T), NEW b \in Seq(T)
  PROVE  a \o b \in Seq(T) /\ ToSet(a \o b) = ToSet(a) \cup ToSet(b)
<1>1. /\ Len(a) \in Nat /\ Len(b) \in Nat /\ DOMAIN a = 1 .. Len(a) /\ DOMAIN b = 1 .. Len(b)
      /\ a \o b \in Seq(T) /\ Len(a \o b) = Len(a) + Len(b) /\ DOMAIN (a \o b) = 1 .. Len(a) + Len(b)
      /\ \A i \in 1 .. Len(a) + Len(b) : (a \o b)[i] = IF i <= Len(a) THEN a[i] ELSE b[i - Len(a)]
  <2>1. a \o b \in Seq(T) /\ Len(a \o b) = Len(a) + Len(b)
        /\ \A i \in 1 .. Len(a) + Len(b) : (a \o b)[i] = IF i <= Len(a) THEN a[i] ELSE b[i - Len(a)]
    BY ConcatProperties
  <2>2. DOMAIN (a \o b) = 1 .. Len(a \o b)  BY <2>1, LenProperties
  <2> QED BY <2>1, <2>2, LenProperties
<1> DEFINE z == a \o b
           k == Len(a)
<1> HIDE DEF z, k
<1>2. ASSUME NEW e \in ToSet(z) PROVE e \in ToSet(a) \cup ToSet(b)
  <2>1. PICK i \in 1 .. k + Len(b) : e = z[i]  BY <1>1 DEF ToSet, z, k
  <2>2. CASE i <= k
    <3>1. i \in DOMAIN a /\ e = a[i]  BY <1>1, <2>1, <2>2 DEF z, k
    <3> QED BY <3>1 DEF ToSet
  <2>3. CASE ~(i <= k)
    <3>1. i - k \in DOMAIN b /\ e = b[i - k]  BY <1>1, <2>1, <2>3 DEF z, k
    <3> QED BY <3>1 DEF ToSet
  <2> QED BY <2>2, <2>3
<1>3. ASSUME NEW e \in ToSet(a) PROVE e \in ToSet(z)
  <2>1. PICK i \in 1 .. k : e = a[i]  BY <1>1 DEF ToSet, k
  <2>2. i \in DOMAIN z /\ e = z[i]  BY <1>1, <2>1 DEF z, k
  <2> QED BY <2>2 DEF ToSet
<1>4. ASSUME NEW e \in ToSet(b) PROVE e \in ToSet(z)
  <2>1. PICK i \in 1 .. Len(b) : e = b[i]  BY <1>1 DEF ToSet
  <2> DEFINE j == k + i
  <2>2. j \in 1 .. k + Len(b) /\ ~(j <= k) /\ j - k = i  BY <1>1, <2>1 DEF k
  <2> HIDE DEF j
  <2>3. z[j] = b[i]  BY <1>1, <2>2 DEF z, k
  <2>4. j \in DOMAIN z /\ e = z[j]  BY <1>1, <2>1, <2>2, <2>3 DEF z, k
  <2> QED BY <2>4 DEF ToSet
<1> QED BY <1>1, <1>2, <1>3, <1>4 DEF z

\* The one more in front of a queue.
LEMMA OneIn ==
  ASSUME NEW T, NEW e \in T
  PROVE  /\ <<e>> \in Seq(T) /\ ToSet(<<e>>) = {e} /\ IsInjective(<<e>>) /\ <<e>> # <<>>
         /\ Append(<<>>, e) = <<e>> /\ Len(<<e>>) = 1 /\ Tail(<<e>>) = <<>> /\ Head(<<e>>) = e
<1>1. <<e>> \in Seq(T) /\ Len(<<e>>) = 1 /\ <<e>>[1] = e /\ DOMAIN <<e>> = {1}  OBVIOUS
<1>2. <<e>> # <<>>  BY <1>1, EmptySeq
<1>3. <<>> \in Seq(T)  BY EmptySeq
<1>4. Append(<<>>, e) = <<e>>  BY <1>1, <1>3, AppendIsConcat, ConcatEmptySeq
<1>5. Tail(<<e>>) = <<>>
  <2>1. Tail(<<e>>) \in Seq(T) /\ Len(Tail(<<e>>)) = 0  BY <1>1, <1>2, HeadTailProperties
  <2> QED BY <2>1, EmptySeq
<1> QED BY <1>1, <1>2, <1>4, <1>5 DEF ToSet, IsInjective

\* Nobody is twice in e followed by a queue that e is not in.
LEMMA InFront ==
  ASSUME NEW T, NEW p \in Seq(T), IsInjective(p), NEW e \in T, e \notin ToSet(p)
  PROVE  IsInjective(<<e>> \o p)
<1> DEFINE z == <<e>> \o p
<1>1. Len(p) \in Nat /\ DOMAIN p = 1 .. Len(p) /\ <<e>> \in Seq(T) /\ Len(<<e>>) = 1 /\ <<e>>[1] = e
  BY LenProperties
<1>2. z \in Seq(T) /\ Len(z) = 1 + Len(p) /\ DOMAIN z = 1 .. 1 + Len(p)
      /\ \A i \in 1 .. 1 + Len(p) : z[i] = IF i <= 1 THEN <<e>>[i] ELSE p[i - 1]
  <2>1. z \in Seq(T) /\ Len(z) = 1 + Len(p)
        /\ \A i \in 1 .. 1 + Len(p) : z[i] = IF i <= 1 THEN <<e>>[i] ELSE p[i - 1]
    BY <1>1, ConcatProperties
  <2> HIDE DEF z
  <2> QED BY <2>1, LenProperties
<1> HIDE DEF z
<1>3. \A i \in DOMAIN z : (i = 1 /\ z[i] = e) \/ (i # 1 /\ i - 1 \in DOMAIN p /\ z[i] = p[i - 1])  BY <1>1, <1>2
<1>4. \A i \in DOMAIN p : p[i] # e  BY DEF ToSet
<1>5. ASSUME NEW i \in DOMAIN z, NEW j \in DOMAIN z, z[i] = z[j] PROVE i = j
  <2>1. CASE i = 1 \/ j = 1  BY <1>3, <1>4, <1>5, <2>1
  <2>2. CASE i # 1 /\ j # 1
    <3>1. i - 1 = j - 1  BY <1>3, <1>5, <2>2 DEF IsInjective
    <3> QED BY <1>2, <3>1
  <2> QED BY <2>1, <2>2
<1> QED BY <1>5 DEF IsInjective, z

\* RemoveAt in the second of two queues.
LEMMA RemovedBehind ==
  ASSUME NEW T, NEW a \in Seq(T), NEW b \in Seq(T), NEW k \in 1 .. Len(b)
  PROVE  RemoveAt(a \o b, Len(a) + k) = a \o RemoveAt(b, k)
<1> DEFINE z == a \o b
           m == Len(a)
           n == Len(b)
           r == RemoveAt(b, k)
           u == RemoveAt(z, m + k)
           v == a \o r
<1>1. m \in Nat /\ n \in Nat /\ 1 <= k /\ k <= n /\ k \in Int  BY LenProperties
<1>2. z \in Seq(T) /\ Len(z) = m + n /\ \A i \in 1 .. m + n : z[i] = IF i <= m THEN a[i] ELSE b[i - m]
  BY ConcatProperties
<1>3. r \in Seq(T) /\ Len(r) = n - 1 /\ \A i \in 1 .. n - 1 : r[i] = b[IF i < k THEN i ELSE i + 1]
  BY Removed
<1> HIDE DEF z, r
<1>4. v \in Seq(T) /\ Len(v) = m + (n - 1)
      /\ \A i \in 1 .. m + (n - 1) : v[i] = IF i <= m THEN a[i] ELSE r[i - m]
  <2>1. v \in Seq(T) /\ Len(v) = m + Len(r)
        /\ \A i \in 1 .. m + Len(r) : v[i] = IF i <= m THEN a[i] ELSE r[i - m]
    BY <1>3, ConcatProperties
  <2> HIDE DEF v, m, n
  <2> QED BY <1>3, <2>1
<1>5. u \in Seq(T) /\ Len(u) = m + n - 1
      /\ \A i \in 1 .. m + n - 1 : u[i] = z[IF i < m + k THEN i ELSE i + 1]
  <2> DEFINE j == m + k
  <2>1. j \in 1 .. Len(z)  BY <1>1, <1>2
  <2> HIDE DEF j
  <2>2. RemoveAt(z, j) \in Seq(T) /\ Len(RemoveAt(z, j)) = Len(z) - 1
        /\ \A i \in 1 .. Len(z) - 1 : RemoveAt(z, j)[i] = z[IF i < j THEN i ELSE i + 1]
    BY <1>2, <2>1, Removed
  <2>3. u = RemoveAt(z, j)  BY DEF j
  <2> HIDE DEF u, m, n
  <2>4. Len(z) - 1 = m + n - 1  BY <1>1, <1>2
  <2> QED BY <2>2, <2>3, <2>4 DEF j
<1> HIDE DEF u, v, m, n
<1>6. ASSUME NEW i \in 1 .. m + n - 1 PROVE u[i] = v[i]
  <2>1. CASE i <= m
    <3>1. u[i] = z[i] /\ z[i] = a[i] /\ v[i] = a[i]  BY <1>1, <1>2, <1>4, <1>5, <2>1
    <3> QED BY <3>1
  <2>2. CASE i > m /\ i < m + k
    <3>1. u[i] = z[i] /\ z[i] = b[i - m]  BY <1>1, <1>2, <1>5, <2>2
    <3>2. v[i] = r[i - m] /\ i - m \in 1 .. n - 1 /\ i - m < k  BY <1>1, <1>4, <2>2
    <3> QED BY <1>3, <3>1, <3>2
  <2>3. CASE i >= m + k
    <3> DEFINE j == i - m
               l == i + 1
    <3>1. l \in 1 .. m + n /\ ~(l <= m) /\ l - m = j + 1  BY <1>1, <2>3
    <3>2. j \in 1 .. n - 1 /\ ~(j < k)  BY <1>1, <2>3
    <3>3. u[i] = z[l] /\ v[i] = r[j]  BY <1>1, <1>4, <1>5, <2>3
    <3> HIDE DEF j, l
    <3>4. z[l] = b[j + 1]  BY <1>2, <3>1
    <3>5. r[j] = b[j + 1]  BY <1>3, <3>2
    <3> QED BY <3>3, <3>4, <3>5
  <2> QED BY <1>1, <2>1, <2>2, <2>3
<1>7. Len(u) = Len(v)  BY <1>1, <1>4, <1>5
<1>8. u = v  BY <1>4, <1>5, <1>6, <1>7, SeqEqual
<1> QED BY <1>8 DEF u, v, m, r, z

\* Concatenation, and the queue of one, by their laws alone.
Cat(a, b) == a \o b
One(e) == <<e>>
None0 == <<>>

\* Two queues that end alike still do when e is taken out of both.
LEMMA TakenOutOfBoth ==
  ASSUME NEW T, NEW a \in Seq(T), NEW q \in Seq(T), NEW b \in Seq(T), NEW p \in Seq(T),
         Cat(a, q) = Cat(b, p), IsInjective(Cat(b, p)), NEW e, e \in ToSet(q), e \in ToSet(p)
  PROVE  Cat(a, Without(q, e)) = Cat(b, Without(p, e))
<1>0. a \o q = b \o p /\ IsInjective(b \o p)  BY DEF Cat
<1> USE <1>0
<1> DEFINE z == b \o p
           k == CHOOSE i \in DOMAIN q : q[i] = e
           l == CHOOSE i \in DOMAIN p : p[i] = e
<1>1. Contains(q, e) /\ Contains(p, e)  BY SomeIn
<1>2. Without(q, e) = RemoveAt(q, k) /\ Without(p, e) = RemoveAt(p, l)  BY <1>1, Zenon DEF Without
<1>3. k \in DOMAIN q /\ q[k] = e /\ l \in DOMAIN p /\ p[l] = e  BY DEF ToSet
<1>4. DOMAIN q = 1 .. Len(q) /\ DOMAIN p = 1 .. Len(p) /\ Len(q) \in Nat /\ Len(p) \in Nat
      /\ Len(a) \in Nat /\ Len(b) \in Nat
  BY LenProperties
<1> HIDE DEF k, l
<1>5. z[Len(a) + k] = e /\ Len(a) + k \in DOMAIN z
  <2> DEFINE j == Len(a) + k
  <2>1. a \o q \in Seq(T) /\ Len(a \o q) = Len(a) + Len(q)
        /\ \A i \in 1 .. Len(a) + Len(q) : (a \o q)[i] = IF i <= Len(a) THEN a[i] ELSE q[i - Len(a)]
    BY ConcatProperties
  <2>2. DOMAIN (a \o q) = 1 .. Len(a) + Len(q)  BY <2>1, LenProperties
  <2>3. j \in 1 .. Len(a) + Len(q) /\ ~(j <= Len(a)) /\ j - Len(a) = k  BY <1>3, <1>4
  <2> HIDE DEF j
  <2>4. (a \o q)[j] = q[k]  BY <2>1, <2>3
  <2>5. j \in DOMAIN (a \o q)  BY <2>2, <2>3
  <2> QED BY <1>3, <2>4, <2>5 DEF j
<1>6. z[Len(b) + l] = e /\ Len(b) + l \in DOMAIN z
  <2> DEFINE j == Len(b) + l
  <2>1. b \o p \in Seq(T) /\ Len(b \o p) = Len(b) + Len(p)
        /\ \A i \in 1 .. Len(b) + Len(p) : (b \o p)[i] = IF i <= Len(b) THEN b[i] ELSE p[i - Len(b)]
    BY ConcatProperties
  <2>2. DOMAIN (b \o p) = 1 .. Len(b) + Len(p)  BY <2>1, LenProperties
  <2>3. j \in 1 .. Len(b) + Len(p) /\ ~(j <= Len(b)) /\ j - Len(b) = l  BY <1>3, <1>4
  <2> HIDE DEF j
  <2>4. (b \o p)[j] = p[l]  BY <2>1, <2>3
  <2>5. j \in DOMAIN (b \o p)  BY <2>2, <2>3
  <2> QED BY <1>3, <2>4, <2>5 DEF j
<1> HIDE DEF z
<1>7. Len(a) + k = Len(b) + l
  <2>1. IsInjective(z)  BY DEF z
  <2> QED BY <1>5, <1>6, <2>1, Zenon DEF IsInjective
<1>8. RemoveAt(z, Len(a) + k) = a \o RemoveAt(q, k)
  <2>1. RemoveAt(a \o q, Len(a) + k) = a \o RemoveAt(q, k)  BY <1>3, <1>4, RemovedBehind
  <2> QED BY <2>1 DEF z
<1>9. RemoveAt(z, Len(b) + l) = b \o RemoveAt(p, l)  BY <1>3, <1>4, RemovedBehind DEF z
<1> QED BY <1>2, <1>7, <1>8, <1>9 DEF Cat

-----------------------------------------------------------------------------
(* The invariant *)

\* A transaction that only waits for its response, one whose response is complete but
\* for the client's reading it, and one that the connection has nothing to do with.
Waiting(r) == r.status = "active" /\ r.parse = "wait" /\ ~r.hdr /\ ~r.unread /\ ~r.hold /\ ~r.msgDone
Held(r)    == r.status = "active" /\ r.parse = "wait" /\ r.unread /\ r.hold /\ r.msgDone
Off(r)     == r.status # "active" /\ r.parse = "wait" /\ ~r.unread /\ ~r.hold

\* The composer is not at work; it is; its buffer is with the output stream; it sends
\* the entity body.  Given: the server has all of the request.
Silent(r) == r.comp \in {"idle", "sent"}
Working == {"start", "headers", "part", "partSent", "wanted", "last", "lastSent", "ending"}
Writing == {"headers", "partSent", "lastSent"}
OfBody  == {"part", "partSent", "wanted", "last", "lastSent", "ending"}
Given(t, r) == r.comp \in {"lastSent", "ending", "idle", "sent"} \/ (r.comp = "headers" /\ t \notin HasBody)

First(c)        == "EFirstTransaction" \in c.flags
PendingWrite(c) == "EPendingWriteInConnectedState" \in c.flags

\* Those whose response is awaited.
Awaits(c) == ToSet(c.pendResp) \cup ({c.curResp} \ {None})

\* A connection that will be closed is for the current transaction alone.
Alone(c) ==
  /\ \A t \in Awaits(c) : t \in OwnConnection => c.nonPersistent
  /\ c.nonPersistent => c.pendReq = <<>> /\ c.pendResp = <<>>

\* Nothing is on its way.
Still(s) ==
  /\ s.writer = None /\ s.reader = "read"
  /\ s.buf = <<>> /\ s.net = <<>> /\ s.wire = <<>> /\ s.sent = {}

\* No transaction uses the connection.
Resting == {"EIdle", "EIdleConnected", "EClosing"}
Rest(c, x, s) ==
  /\ c.state \in Resting
  /\ c.curReq = None /\ c.curResp = None /\ c.pendReq = <<>> /\ c.pendResp = <<>> /\ ~c.excess
  /\ \A t \in Tx : Off(x[t]) /\ Silent(x[t])
  /\ Still(s)
  /\ s.hup => c.state = "EClosing"
  /\ c.state = "EClosing" => c.nonPersistent
  /\ c.state = "EIdleConnected" => ~c.nonPersistent
  /\ c.state # "EIdle" => ~First(c)
  /\ "ECannotPipeline" \notin c.flags /\ ~PendingWrite(c)

\* The connection is being made: nothing of any request has been sent.
Making == {"EConnecting", "EUpgrading"}
Make(c, x, s) ==
  /\ c.state \in Making
  /\ c.curReq \in Tx /\ c.curResp = c.curReq /\ c.pendReq = c.pendResp /\ ~c.excess
  /\ IsInjective(c.pendResp) /\ c.curResp \notin ToSet(c.pendResp)
  /\ Alone(c)
  /\ \A t \in Awaits(c) : Waiting(x[t]) /\ x[t].comp = "idle"
  /\ \A t \in Tx \ Awaits(c) : Off(x[t]) /\ Silent(x[t])
  /\ Still(s) /\ ~s.hup
  /\ ~PendingWrite(c)

\* The connection is in use; h is the transaction whose response is complete but for
\* the client's reading it, if there is one.  The queues: the requests that are held
\* back are among those whose response is awaited; all of them while the first one
\* on the connection, or the first one after it, is being sent.
Queues(c, h) ==
  /\ IsInjective(c.pendReq) /\ IsInjective(c.pendResp) /\ ToSet(c.pendReq) \subseteq ToSet(c.pendResp)
  /\ c.curResp \notin ToSet(c.pendResp) /\ h \notin Awaits(c)
  /\ c.curResp = None => h # None
  /\ Alone(c)
Mode(c, h) ==
  IF First(c)
  THEN /\ c.curReq # None /\ c.pendReq = c.pendResp /\ ~PendingWrite(c)
       /\ IF h = None THEN c.curResp = c.curReq ELSE c.curResp = None /\ c.curReq = h
  ELSE /\ c.curReq = None => c.pendReq = <<>>
       /\ c.curReq # None => c.curReq \in Awaits(c) \ ToSet(c.pendReq)
       /\ c.curResp = None => c.curReq = None /\ c.pendResp = <<>>
       /\ PendingWrite(c) => c.curReq # None /\ c.curReq = c.curResp /\ c.pendReq = c.pendResp /\ h = None

\* The parsers: only the one whose response is the current one is at work.
Current(r, h) ==
  /\ r.status = "active" /\ ~r.msgDone /\ ~r.hold
  /\ r.unread => r.parse = "end"
  /\ r.parse = "end" => r.hdr
  /\ r.parse # "wait" \/ r.hdr => Silent(r) /\ h = None
Parsers(c, x, h) ==
  /\ \A t \in ToSet(c.pendResp) : Waiting(x[t])
  /\ c.curResp # None => Current(x[c.curResp], h)
  /\ h # None => Silent(x[h])
  /\ \A t \in Tx \ Awaits(c) : t # h => Off(x[t])

\* The composers: only the one whose request is the current one is at work, and what
\* is on the wire is what they have sent.
Composers(c, x, s) ==
  /\ \A t \in Tx : t # c.curReq => Silent(x[t])
  /\ \A t \in ToSet(c.pendReq) : x[t].comp = "idle"
  /\ c.curReq # None /\ ~First(c) => x[c.curReq].comp \in Working
  /\ PendingWrite(c) => x[c.curReq].comp \in {"start", "headers"} /\ ~x[c.curReq].hdr
  /\ \A t \in Tx : x[t].comp \in OfBody => t \in HasBody
  /\ \A t \in Tx : x[t].comp \in Writing <=> s.writer = t
Wire(c, x, s) ==
  /\ IsInjective(s.wire) /\ s.sent \subseteq ToSet(s.wire)
  /\ \A t \in ToSet(s.wire) : x[t].comp # "start" /\ (t \in s.sent <=> Given(t, x[t]))
  /\ \A t \in Tx : Given(t, x[t]) \/ x[t].comp = "start" \/ t \in ToSet(s.wire)
  /\ s.hup => c.nonPersistent /\ s.wire = <<>> /\ \A t \in Tx : x[t].comp # "start"

\* The answers: those in the buffer and on the network, those the server has to give,
\* and those to the requests that are not sent yet, are the awaited ones, in order.
Starting(c, x) == IF c.curReq # None /\ x[c.curReq].comp = "start" THEN <<c.curReq>> ELSE <<>>
Headless(c, x) == IF c.curResp = None \/ x[c.curResp].hdr THEN <<>> ELSE <<c.curResp>>
Answers(c, x, s) ==
  HeadsIn(s.buf \o s.net) \o s.wire \o Starting(c, x) \o c.pendReq = Headless(c, x) \o c.pendResp

\* The parts of the answers: a body follows its head, which may have been parsed.
Midway(c, x) == c.curResp # None /\ x[c.curResp].hdr /\ x[c.curResp].parse # "end"
Parts(P, m, t) ==
  /\ \A i \in DOMAIN P : P[i].part = "tail" =>
       IF i = 1 THEN m /\ P[1].t = t
       ELSE P[i - 1].part = "head" /\ P[i - 1].t = P[i].t /\ P[i - 1].len = "sized"
  /\ \A i \in DOMAIN P : P[i].part = "head" /\ P[i].len = "sized" =>
       i + 1 \in DOMAIN P /\ P[i + 1].part = "tail"
  /\ m => P # <<>> /\ P[1].part = "tail"
Pieces(c, x, s) ==
  /\ Parts(s.buf \o s.net, Midway(c, x), c.curResp)
  /\ Midway(c, x) => x[c.curResp].len = "sized"
  /\ \A p \in ToSet(s.buf) \cup ToSet(s.net) :
       Given(p.t, x[p.t]) /\ (p.close => c.nonPersistent) /\ p.len # "unknown"
  /\ \A p \in ToSet(s.buf) : Silent(x[p.t])

\* The received buffer is with the parser at work, or with the client.
Token(c, x, s, h) ==
  /\ s.reader = "ack" <=> h # None \/ (c.curResp # None /\ x[c.curResp].parse # "wait")
  /\ s.reader = "read" => s.buf = <<>>
  /\ c.curResp # None /\ x[c.curResp].parse = "run" => s.buf # <<>>
  /\ c.excess <=> h # None /\ s.buf # <<>>

\* All but what the holder's own parser does (Held).
Loose(c, x, s, h) ==
  /\ c.state = "EConnected"
  /\ Queues(c, h) /\ Mode(c, h) /\ Parsers(c, x, h) /\ Composers(c, x, s) /\ Wire(c, x, s)
  /\ Answers(c, x, s) /\ Pieces(c, x, s) /\ Token(c, x, s, h)
Run(c, x, s, h) == Loose(c, x, s, h) /\ (h # None => Held(x[h]))

Fit(c, x, s) ==
  \/ Rest(c, x, s)
  \/ Make(c, x, s)
  \/ \E h \in Tx \cup {None} : Run(c, x, s, h)

\* Nothing has failed; a transaction is pipelined only when it may be, and no response
\* has a body that only the close delimits.
Sound(w) ==
  /\ w.panic = {}
  /\ "EDiscardSndDataCnf" \notin w.cm.flags
  /\ \A t \in Tx : (w.tx[t].pipeline => t \in Pipelinable) /\ w.tx[t].len # "unknown"

Ordered(w) == Good(w) /\ Sound(w) /\ Fit(w.cm, w.tx, w.sock)

-----------------------------------------------------------------------------
(* What the parts say of a connection in use *)

\* The members have their types.
Typed(c, x, s) == c \in Manager /\ x \in [Tx -> Transaction] /\ s \in Socket

\* The types of what a typed manager, its transactions and its streams hold.
LEMMA Types ==
  ASSUME NEW c, NEW x, NEW s, Typed(c, x, s)
  PROVE  /\ c.flags \in SUBSET Flags /\ c.curReq \in Tx \cup {None} /\ c.curResp \in Tx \cup {None}
         /\ c.pendReq \in Seq(Tx) /\ c.pendResp \in Seq(Tx) /\ c.excess \in BOOLEAN
         /\ c.nonPersistent \in BOOLEAN
         /\ \A t \in Tx : x[t] \in Transaction
         /\ s.writer \in Tx \cup {None} /\ s.reader \in {"read", "ack"} /\ s.buf \in Seq(Piece)
         /\ s.net \in Seq(Piece) /\ s.wire \in Seq(Tx) /\ s.sent \in SUBSET Tx /\ s.hup \in BOOLEAN
         /\ None \notin Tx
  BY ConstantsAssumption DEF Typed, Manager, Socket

\* The answers are in step: the same as four queues that make one.
LEMMA AnswersAre ==
  ASSUME NEW c, NEW x, NEW s, Typed(c, x, s)
  PROVE  /\ HeadsIn(s.buf) \in Seq(Tx) /\ HeadsIn(s.net) \in Seq(Tx) /\ HeadsIn(s.buf \o s.net) \in Seq(Tx)
         /\ HeadsIn(s.buf \o s.net) = HeadsIn(s.buf) \o HeadsIn(s.net)
         /\ s.buf \o s.net \in Seq(Piece)
         /\ Starting(c, x) \in Seq(Tx) /\ Headless(c, x) \in Seq(Tx)
<1>1. s.buf \o s.net \in Seq(Piece)  BY Types, ConcatProperties
<1>2. Starting(c, x) \in Seq(Tx)
  <2>1. CASE c.curReq \in Tx  BY <2>1, OneIn, NoneIn DEF Starting
  <2>2. CASE c.curReq = None  BY <2>2, NoneIn DEF Starting
  <2> QED BY <2>1, <2>2, Types
<1>3. Headless(c, x) \in Seq(Tx)
  <2>1. CASE c.curResp \in Tx  BY <2>1, OneIn, NoneIn DEF Headless
  <2>2. CASE c.curResp = None  BY <2>2, NoneIn DEF Headless
  <2> QED BY <2>1, <2>2, Types
<1> QED BY <1>1, <1>2, <1>3, Types, HeadsInType, HeadsInBoth

\* The awaited ones are different ones.
LEMMA AwaitedOnce ==
  ASSUME NEW c, NEW x, NEW s, Typed(c, x, s), NEW h, Queues(c, h)
  PROVE  /\ Headless(c, x) \o c.pendResp \in Seq(Tx) /\ IsInjective(Headless(c, x) \o c.pendResp)
         /\ ToSet(Headless(c, x) \o c.pendResp)
              = ToSet(c.pendResp) \cup IF c.curResp = None \/ x[c.curResp].hdr THEN {} ELSE {c.curResp}
         /\ ToSet(Headless(c, x) \o c.pendResp) \subseteq Awaits(c)
<1>1. IsInjective(c.pendResp) /\ c.curResp \notin ToSet(c.pendResp)  BY DEF Queues
<1>2. CASE c.curResp = None \/ x[c.curResp].hdr
  <2>1. Headless(c, x) = <<>>  BY <1>2 DEF Headless
  <2>2. Headless(c, x) \o c.pendResp = c.pendResp  BY <2>1, Types, ConcatEmptySeq
  <2> QED BY <1>1, <1>2, <2>2, Types DEF Awaits
<1>3. CASE ~(c.curResp = None \/ x[c.curResp].hdr)
  <2>1. Headless(c, x) = <<c.curResp>> /\ c.curResp \in Tx  BY <1>3, Types DEF Headless
  <2>2. IsInjective(<<c.curResp>> \o c.pendResp)  BY <1>1, <2>1, Types, InFront
  <2>3. <<c.curResp>> \o c.pendResp \in Seq(Tx)
        /\ ToSet(<<c.curResp>> \o c.pendResp) = {c.curResp} \cup ToSet(c.pendResp)
    <3> DEFINE o == <<c.curResp>>
               q == c.pendResp
    <3>1. o \in Seq(Tx) /\ ToSet(o) = {c.curResp} /\ q \in Seq(Tx)  BY <2>1, OneIn, Types
    <3> HIDE DEF o, q
    <3>2. o \o q \in Seq(Tx) /\ ToSet(o \o q) = ToSet(o) \cup ToSet(q)  BY <3>1, BothIn
    <3> QED BY <3>1, <3>2 DEF o, q
  <2> QED BY <1>3, <2>1, <2>2, <2>3, Types DEF Awaits
<1> QED BY <1>2, <1>3

\* Two queues that make one without a repetition have nobody in common.
LEMMA Apart ==
  ASSUME NEW T, NEW a \in Seq(T), NEW b \in Seq(T), IsInjective(a \o b)
  PROVE  IsInjective(a) /\ IsInjective(b) /\ ToSet(a) \cap ToSet(b) = {}
<1> DEFINE z == a \o b
           k == Len(a)
<1>1. k \in Nat /\ Len(b) \in Nat /\ DOMAIN a = 1 .. k /\ DOMAIN b = 1 .. Len(b)  BY LenProperties
<1>2. z \in Seq(T) /\ DOMAIN z = 1 .. k + Len(b)
      /\ \A i \in 1 .. k + Len(b) : z[i] = IF i <= k THEN a[i] ELSE b[i - k]
  <2>1. z \in Seq(T) /\ Len(z) = k + Len(b)
        /\ \A i \in 1 .. k + Len(b) : z[i] = IF i <= k THEN a[i] ELSE b[i - k]
    BY ConcatProperties
  <2> HIDE DEF z, k
  <2> QED BY <2>1, LenProperties
<1>3. \A i, j \in DOMAIN z : z[i] = z[j] => i = j  BY DEF IsInjective
<1> HIDE DEF z, k
<1>4. \A i \in DOMAIN a : i \in DOMAIN z /\ z[i] = a[i] /\ i <= k  BY <1>1, <1>2
<1>5. \A i \in DOMAIN b : k + i \in DOMAIN z /\ z[k + i] = b[i] /\ ~(k + i <= k)
  <2> SUFFICES ASSUME NEW i \in DOMAIN b
               PROVE  k + i \in DOMAIN z /\ z[k + i] = b[i] /\ ~(k + i <= k)
    OBVIOUS
  <2> DEFINE j == k + i
  <2>1. j \in 1 .. k + Len(b) /\ ~(j <= k) /\ j - k = i  BY <1>1
  <2> HIDE DEF j
  <2>2. z[j] = b[i]  BY <1>2, <2>1
  <2> QED BY <1>2, <2>1, <2>2 DEF j
<1>6. IsInjective(a)  BY <1>3, <1>4 DEF IsInjective
<1>7. IsInjective(b)
  <2> SUFFICES ASSUME NEW i \in DOMAIN b, NEW j \in DOMAIN b, b[i] = b[j] PROVE i = j
    BY Zenon DEF IsInjective
  <2>1. k + i = k + j  BY <1>3, <1>5
  <2> QED BY <1>1, <2>1
<1>8. ASSUME NEW e \in ToSet(a), e \in ToSet(b) PROVE FALSE
  <2>1. PICK i \in DOMAIN a : e = a[i]  BY DEF ToSet
  <2>2. PICK j \in DOMAIN b : e = b[j]  BY <1>8 DEF ToSet
  <2>3. i = k + j  BY <1>3, <1>4, <1>5, <2>1, <2>2
  <2> QED BY <1>4, <1>5, <2>3
<1> QED BY <1>6, <1>7, <1>8

\* The head of an answer is among the heads.
LEMMA HeadCounted ==
  ASSUME NEW P \in Seq(Piece), NEW i \in DOMAIN P, P[i].part = "head"
  PROVE  P[i].t \in ToSet(HeadsIn(P))
<1> DEFINE n == Len(P)
           a == SubSeq(P, 1, i - 1)
           b == SubSeq(P, i, n)
           d == SubSeq(P, i + 1, n)
<1>1. n \in Nat /\ DOMAIN P = 1 .. n /\ i \in 1 .. n /\ P[i] \in Piece /\ \A j \in 1 .. n : P[j] \in Piece
  BY LenProperties, ElementOfSeq
<1>2. a \in Seq(Piece) /\ d \in Seq(Piece) /\ <<P[i]>> \in Seq(Piece)
  <2>1. \A j \in 1 .. i - 1 : P[j] \in Piece  BY <1>1
  <2>2. \A j \in i + 1 .. n : P[j] \in Piece  BY <1>1
  <2>3. 1 \in Int /\ i - 1 \in Int /\ i + 1 \in Int /\ n \in Int  BY <1>1
  <2>4. a \in Seq(Piece)  BY <2>1, <2>3, SubSeqProperties
  <2>5. d \in Seq(Piece)  BY <2>2, <2>3, SubSeqProperties
  <2> QED BY <1>1, <2>4, <2>5
<1>3. P = a \o b
  <2>1. 1 \in 1 .. n + 1 /\ i - 1 \in 1 - 1 .. n /\ n \in i - 1 .. n /\ i - 1 + 1 = i  BY <1>1
  <2>2. SubSeq(P, 1, i - 1) \o SubSeq(P, i - 1 + 1, n) = SubSeq(P, 1, n)  BY <2>1, ConcatAdjacentSubSeq
  <2>3. SubSeq(P, 1, n) = P  BY SubSeqFull
  <2> QED BY <2>1, <2>2, <2>3
<1>4. b = <<P[i]>> \o d
  <2>1. i \in 1 .. n /\ n \in i .. n  BY <1>1
  <2> QED BY <2>1, SubSeqRecursiveFirst
<1> HIDE DEF a, b, d, n
<1>5. b \in Seq(Piece)  BY <1>2, <1>4, ConcatProperties
<1> DEFINE o == <<P[i]>>
           u == <<P[i].t>>
<1>6. HeadsIn(P) = HeadsIn(a) \o (HeadsIn(o) \o HeadsIn(d))
  <2>1. o \in Seq(Piece) /\ b = o \o d  BY <1>2, <1>4
  <2> HIDE DEF o
  <2>2. HeadsIn(b) = HeadsIn(o) \o HeadsIn(d)  BY <1>2, <2>1, HeadsInBoth
  <2>3. HeadsIn(P) = HeadsIn(a) \o HeadsIn(b)  BY <1>2, <1>3, <1>5, HeadsInBoth
  <2> QED BY <2>2, <2>3
<1>7. HeadsIn(o) = u /\ P[i].t \in Tx
  <2>1. Append(<<>>, P[i]) = <<P[i]>> /\ P[i].t \in Tx  BY <1>1, OneIn DEF Piece
  <2>2. Append(<<>>, P[i].t) = <<P[i].t>>  BY <2>1, OneIn
  <2>3. <<>> \in Seq(Piece)  BY EmptySeq
  <2> QED BY <1>1, <2>1, <2>2, <2>3, OneMore, NoHeads
<1>8. HeadsIn(a) \in Seq(Tx) /\ HeadsIn(d) \in Seq(Tx) /\ u \in Seq(Tx) /\ P[i].t \in ToSet(u)
  BY <1>2, <1>7, HeadsInType, OneIn
<1> HIDE DEF o, u
<1>9. u \o HeadsIn(d) \in Seq(Tx) /\ ToSet(u \o HeadsIn(d)) = ToSet(u) \cup ToSet(HeadsIn(d))
  BY <1>8, BothIn
<1>10. ToSet(HeadsIn(a) \o (u \o HeadsIn(d))) = ToSet(HeadsIn(a)) \cup ToSet(u \o HeadsIn(d))
  <2> DEFINE g == HeadsIn(a)
             v == u \o HeadsIn(d)
  <2>1. g \in Seq(Tx) /\ v \in Seq(Tx)  BY <1>8, <1>9
  <2> HIDE DEF g, v
  <2>2. ToSet(g \o v) = ToSet(g) \cup ToSet(v)  BY <2>1, BothIn
  <2> QED BY <2>2 DEF g, v
<1>11. HeadsIn(P) = HeadsIn(a) \o (u \o HeadsIn(d))  BY <1>6, <1>7
<1> QED BY <1>8, <1>9, <1>10, <1>11

\* Whose answers are there, who has been sent, who is held back: nobody is two of that.
LEMMA Owners ==
  ASSUME NEW c, NEW x, NEW s, Typed(c, x, s), NEW h, Queues(c, h), Answers(c, x, s), Pieces(c, x, s)
  PROVE  LET R == ToSet(Headless(c, x) \o c.pendResp) IN
         /\ \A p \in ToSet(s.buf) \cup ToSet(s.net) :
              /\ p \in Piece /\ p.t \in Awaits(c) /\ p.t \notin ToSet(c.pendReq) \cup ToSet(s.wire)
              /\ p.t \in R \/ (Midway(c, x) /\ p.t = c.curResp)
         /\ ToSet(s.wire) \subseteq R /\ ToSet(c.pendReq) \subseteq R
         /\ ToSet(s.wire) \cap ToSet(c.pendReq) = {}
         /\ ToSet(Starting(c, x)) \subseteq R
<1> DEFINE P == s.buf \o s.net
           A == HeadsIn(P)
           W == s.wire
           S == Starting(c, x)
           Q == c.pendReq
           Z == Headless(c, x) \o c.pendResp
<1>1. A \in Seq(Tx) /\ W \in Seq(Tx) /\ S \in Seq(Tx) /\ Q \in Seq(Tx) /\ P \in Seq(Piece)
      /\ s.buf \in Seq(Piece) /\ s.net \in Seq(Piece)
  BY AnswersAre, Types
<1>2. ((A \o W) \o S) \o Q = Z  BY DEF Answers
<1>3. IsInjective(Z) /\ ToSet(Z) \subseteq Awaits(c)  BY AwaitedOnce
<1>4. ToSet(P) = ToSet(s.buf) \cup ToSet(s.net) /\ ToSet(P) \subseteq Piece
  <2>1. ToSet(s.buf \o s.net) = ToSet(s.buf) \cup ToSet(s.net)  BY <1>1, BothIn
  <2>2. ToSet(s.buf) \subseteq Piece /\ ToSet(s.net) \subseteq Piece  BY <1>1, SomeIn
  <2> QED BY <2>1, <2>2
<1>5. Parts(P, Midway(c, x), c.curResp)  BY DEF Pieces
<1>6. Midway(c, x) => x[c.curResp].hdr /\ c.curResp \in Awaits(c)  BY Types DEF Midway, Awaits
<1>7. c.curResp \notin ToSet(c.pendResp)  BY DEF Queues
<1>8. ToSet(Z) = ToSet(c.pendResp) \cup IF c.curResp = None \/ x[c.curResp].hdr THEN {} ELSE {c.curResp}
  BY AwaitedOnce
<1> HIDE DEF P, A, W, S, Q, Z
<1>9. A \o W \in Seq(Tx) /\ (A \o W) \o S \in Seq(Tx)  BY <1>1, BothIn
<1>10. /\ ToSet(A \o W) = ToSet(A) \cup ToSet(W)
       /\ ToSet((A \o W) \o S) = ToSet(A \o W) \cup ToSet(S)
       /\ ToSet(((A \o W) \o S) \o Q) = ToSet((A \o W) \o S) \cup ToSet(Q)
  BY <1>1, <1>9, BothIn
<1>11. IsInjective((A \o W) \o S) /\ ToSet((A \o W) \o S) \cap ToSet(Q) = {}
  <2>1. IsInjective(((A \o W) \o S) \o Q)  BY <1>2, <1>3
  <2> QED BY <1>1, <1>9, <2>1, Apart
<1>12. IsInjective(A \o W)  BY <1>1, <1>9, <1>11, Apart
<1>13. ToSet(A) \cap ToSet(W) = {}  BY <1>1, <1>12, Apart
<1>14. ToSet(A) \subseteq ToSet(Z) /\ ToSet(W) \subseteq ToSet(Z) /\ ToSet(S) \subseteq ToSet(Z)
       /\ ToSet(Q) \subseteq ToSet(Z)
  BY <1>2, <1>10
<1>15. ASSUME NEW i \in DOMAIN P
       PROVE P[i].t \in ToSet(A) \/ (Midway(c, x) /\ P[i].t = c.curResp)
  <2>1. P[i].part \in {"head", "tail"}
    <3>1. P[i] \in ToSet(P)  BY DEF ToSet
    <3> QED BY <1>4, <3>1 DEF Piece
  <2>2. CASE P[i].part = "head"  BY <1>1, <2>2, HeadCounted DEF A
  <2>3. CASE P[i].part = "tail"
    <3>1. CASE i = 1  BY <1>5, <2>3, <3>1 DEF Parts
    <3>2. CASE i # 1
      <4>1. P[i - 1].part = "head" /\ P[i - 1].t = P[i].t  BY <1>5, <2>3, <3>2 DEF Parts
      <4>2. i - 1 \in DOMAIN P
        <5>1. DOMAIN P = 1 .. Len(P) /\ Len(P) \in Nat  BY <1>1, LenProperties
        <5> QED BY <3>2, <5>1
      <4>3. P[i - 1].t \in ToSet(A)  BY <1>1, <4>1, <4>2, HeadCounted DEF A
      <4> QED BY <4>1, <4>3
    <3> QED BY <3>1, <3>2
  <2> QED BY <2>1, <2>2, <2>3
<1>16. ASSUME NEW p \in ToSet(P)
       PROVE /\ p \in Piece /\ p.t \in Awaits(c) /\ p.t \notin ToSet(Q) \cup ToSet(W)
             /\ p.t \in ToSet(Z) \/ (Midway(c, x) /\ p.t = c.curResp)
  <2>1. PICK i \in DOMAIN P : p = P[i]  BY DEF ToSet
  <2>2. CASE p.t \in ToSet(A)  BY <1>3, <1>4, <1>10, <1>11, <1>13, <1>14, <2>2
  <2>3. CASE Midway(c, x) /\ p.t = c.curResp  BY <1>4, <1>6, <1>7, <1>8, <1>14, <2>3
  <2> QED BY <1>15, <2>1, <2>2, <2>3
<1>17. ToSet(W) \cap ToSet(Q) = {}  BY <1>10, <1>11
<1> QED BY <1>4, <1>14, <1>16, <1>17 DEF W, S, Q, Z

-----------------------------------------------------------------------------
(* Worlds in which one transaction is another *)

\* The world w in which r is the record of t.
Put(w, t, r) == [w EXCEPT !.tx[t] = r]

\* Put changes the transaction it is given and nothing else.
LEMMA PutIs ==
  ASSUME NEW w \in World, NEW t \in Tx, NEW r
  PROVE  LET v == Put(w, t, r) IN
         /\ v.cm = w.cm /\ v.sock = w.sock /\ v.panic = w.panic
         /\ v.tx[t] = r
         /\ \A u \in Tx : u # t => v.tx[u] = w.tx[u]
         /\ r \in Transaction => v \in World
  BY DEF Put, World

\* r and q are alike but for the composer; but for the parser and the client.
Alike(r, q) == /\ q.status = r.status /\ q.parse = r.parse /\ q.hdr = r.hdr /\ q.len = r.len
                 /\ q.unread = r.unread /\ q.hold = r.hold /\ q.msgDone = r.msgDone
                 /\ q.pipeline = r.pipeline
\* A transaction whose composer is elsewhere is alike but for that.
LEMMA CompIs ==
  ASSUME NEW r \in Transaction, NEW k \in ComposerStates
  PROVE  LET q == [r EXCEPT !.comp = k] IN
         q \in Transaction /\ q.comp = k /\ Alike(r, q)
  BY DEF Transaction, Alike

\* The composer of t is in another state.
Composer(w, t, k) == [w EXCEPT !.tx[t].comp = k]
\* Composer moves the composer of one transaction and changes nothing else.
LEMMA ComposerIs ==
  ASSUME NEW w \in World, NEW t \in Tx, NEW k \in ComposerStates
  PROVE  LET v == Composer(w, t, k) IN
         /\ v \in World /\ v.cm = w.cm /\ v.sock = w.sock /\ v.panic = w.panic
         /\ \A u \in Tx : u # t => v.tx[u] = w.tx[u]
         /\ v.tx[t].comp = k /\ Alike(w.tx[t], v.tx[t])
<1> DEFINE q == [w.tx[t] EXCEPT !.comp = k]
<1>1. w.tx[t] \in Transaction  BY DEF World
<1>2. q \in Transaction /\ q.comp = k /\ Alike(w.tx[t], q)  BY <1>1, CompIs
<1>3. Composer(w, t, k) = Put(w, t, q)  BY DEF Composer, Put
<1> HIDE DEF q
<1> DEFINE v == Put(w, t, q)
<1>4. /\ v \in World /\ v.cm = w.cm /\ v.sock = w.sock /\ v.panic = w.panic /\ v.tx[t] = q
      /\ \A u \in Tx : u # t => v.tx[u] = w.tx[u]
  BY <1>2, PutIs
<1> HIDE DEF v
<1>5. Composer(w, t, k) = v  BY <1>3 DEF v
<1> QED BY <1>2, <1>4, <1>5

\* The parser of t is reset.
LEMMA ResetIs ==
  ASSUME NEW w \in World, NEW t \in Tx
  PROVE  LET v == [w EXCEPT !.tx[t].parse = "wait", !.tx[t].hdr = FALSE] IN
         /\ v \in World /\ v.cm = w.cm /\ v.sock = w.sock /\ v.panic = w.panic
         /\ \A u \in Tx : u # t => v.tx[u] = w.tx[u]
         /\ v.tx[t] = [w.tx[t] EXCEPT !.parse = "wait", !.hdr = FALSE]
<1> DEFINE q == [w.tx[t] EXCEPT !.parse = "wait", !.hdr = FALSE]
<1>1. q \in Transaction  BY DEF World, Transaction, ParserStates
<1>2. [w EXCEPT !.tx[t].parse = "wait", !.tx[t].hdr = FALSE] = Put(w, t, q)  BY DEF World, Put
<1> HIDE DEF q
<1> DEFINE v == Put(w, t, q)
<1>3. /\ v \in World /\ v.cm = w.cm /\ v.sock = w.sock /\ v.panic = w.panic /\ v.tx[t] = q
      /\ \A u \in Tx : u # t => v.tx[u] = w.tx[u]
  BY <1>1, PutIs
<1> HIDE DEF v
<1> DEFINE z == [w EXCEPT !.tx[t].parse = "wait", !.tx[t].hdr = FALSE]
<1>4. z = v  BY <1>2 DEF v
<1> HIDE DEF z
<1>5. /\ z \in World /\ z.cm = w.cm /\ z.sock = w.sock /\ z.panic = w.panic
      /\ \A u \in Tx : u # t => z.tx[u] = w.tx[u]
      /\ z.tx[t] = q
  BY <1>3, <1>4
<1> QED BY <1>5 DEF z, q

-----------------------------------------------------------------------------
(* The transactions are told that the connection is lost *)

Vacant(c) == c.curReq = None /\ c.curResp = None /\ c.pendReq = <<>> /\ c.pendResp = <<>>
AllOff(x) == \A t \in Tx : Off(x[t]) /\ Silent(x[t])

\* What a change of the transactions may not do to the soundness of a world.
Tame(r, q) == (q.pipeline => r.pipeline) /\ (q.len = "unknown" => r.len = "unknown")

\* What is sound stays so when no transaction begins to be pipelined or to be delimited by the close.
LEMMA TameSound ==
  ASSUME NEW w, Sound(w), NEW v, v.panic = w.panic, "EDiscardSndDataCnf" \notin v.cm.flags,
         \A t \in Tx : Tame(w.tx[t], v.tx[t])
  PROVE  Sound(v)
  BY DEF Sound, Tame

\* A transaction that is told an error.
LEMMA FailedIs ==
  ASSUME NEW t, NEW r \in Transaction, NEW n, NEW e
  PROVE  LET q == Failed(t, r, n, e) IN
         /\ q.status \in {"retry", "failed"} /\ q.status # "active" /\ q.parse = r.parse /\ q.unread = r.unread /\ q.hold = r.hold
         /\ q.comp = r.comp /\ Tame(r, q)
  BY DEF Failed, Transaction, Tame

\* The world of NotifyPendingTransactions.
LEMMA NotifyIs ==
  ASSUME NEW w \in World, NEW e
  PROVE  LET v == NotifyPendingTransactions(w, e) IN
         /\ v.cm = [w.cm EXCEPT !.pendReq = <<>>, !.pendResp = <<>>]
         /\ v.tx = [t \in Tx |-> IF t \in ToSet(w.cm.pendResp)
                                 THEN Failed(t, w.tx[t], w.cm.nonPersistent, e) ELSE w.tx[t]]
         /\ v.sock = w.sock /\ v.panic = w.panic
  BY DEF NotifyPendingTransactions, World, Manager

\* Those in S have lost their place and are told so; the others keep their status.
Dropped(S, x, y) ==
  \A t \in Tx : IF t \in S THEN y[t].status \in {"retry", "failed"} ELSE y[t].status = x[t].status

\* All but those whose response is awaited are off, and these can be told an error.
Tellable(c, x) ==
  /\ c.curResp \in Tx /\ c.curResp \notin ToSet(c.pendResp)
  /\ x[c.curResp].parse = "wait" /\ ~x[c.curResp].unread /\ ~x[c.curResp].hold
  /\ \A t \in ToSet(c.pendResp) : Waiting(x[t])
  /\ \A t \in Tx : t # c.curResp /\ t \notin ToSet(c.pendResp) => Off(x[t])
  /\ \A t \in Tx : t # c.curReq => Silent(x[t])

\* They are told: the places are vacated.
Vacate(w) == [w EXCEPT !.cm.curReq = None, !.cm.curResp = None]
\* NotifyPendingTransactions, with the queues emptied, leaves no transaction that the
\* manager knows or that is still active, whatever the event.
LEMMA NotifyAll ==
  ASSUME NEW w \in World, \A t \in ToSet(w.cm.pendResp) : Waiting(w.tx[t]),
         \A t \in Tx : t \notin ToSet(w.cm.pendResp) => Off(w.tx[t]),
         \A t \in Tx : Silent(w.tx[t]), NEW e
  PROVE  LET v == Vacate(NotifyPendingTransactions(w, e)) IN
         /\ v \in World /\ Vacant(v.cm) /\ AllOff(v.tx) /\ v.sock = w.sock /\ v.panic = w.panic
         /\ v.cm.flags = w.cm.flags /\ v.cm.state = w.cm.state /\ v.cm.excess = w.cm.excess
         /\ v.cm.nonPersistent = w.cm.nonPersistent /\ v.cm.connector = w.cm.connector
         /\ \A t \in Tx : Tame(w.tx[t], v.tx[t])
         /\ Dropped(ToSet(w.cm.pendResp), w.tx, v.tx)
<1> DEFINE u == NotifyPendingTransactions(w, e)
           v == Vacate(u)
<1>1. /\ u.cm = [w.cm EXCEPT !.pendReq = <<>>, !.pendResp = <<>>]
      /\ u.tx = [t \in Tx |-> IF t \in ToSet(w.cm.pendResp)
                                 THEN Failed(t, w.tx[t], w.cm.nonPersistent, e) ELSE w.tx[t]]
      /\ u.sock = w.sock /\ u.panic = w.panic
  BY NotifyIs
<1>2. u \in World /\ v \in World  BY NotifyKeeps, NotifyAndVacateKeeps DEF Keeps, Vacate
<1> HIDE DEF u
<1>3. /\ v.cm = [u.cm EXCEPT !.curReq = None, !.curResp = None]
      /\ v.tx = u.tx /\ v.sock = u.sock /\ v.panic = u.panic
  BY <1>2 DEF World, Manager, Vacate
<1> HIDE DEF v
<1>4. /\ Vacant(v.cm) /\ v.cm.flags = w.cm.flags /\ v.cm.state = w.cm.state /\ v.cm.excess = w.cm.excess
      /\ v.cm.nonPersistent = w.cm.nonPersistent /\ v.cm.connector = w.cm.connector
  BY <1>1, <1>3 DEF World, Manager, Vacant
<1>5. ASSUME NEW t \in Tx
      PROVE  /\ Off(v.tx[t]) /\ Silent(v.tx[t]) /\ Tame(w.tx[t], v.tx[t])
             /\ IF t \in ToSet(w.cm.pendResp) THEN v.tx[t].status \in {"retry", "failed"}
                ELSE v.tx[t].status = w.tx[t].status
  <2>1. w.tx[t] \in Transaction  BY DEF World
  <2>2. CASE t \in ToSet(w.cm.pendResp)
    <3>1. v.tx[t] = Failed(t, w.tx[t], w.cm.nonPersistent, e)  BY <1>1, <1>3, <2>2
    <3>2. Waiting(w.tx[t]) /\ Silent(w.tx[t])  BY <2>2
    <3> QED BY <2>1, <2>2, <3>1, <3>2, FailedIs DEF Waiting, Off, Silent
  <2>3. CASE t \notin ToSet(w.cm.pendResp)
    <3>1. v.tx[t] = w.tx[t]  BY <1>1, <1>3, <2>3
    <3> QED BY <2>3, <3>1 DEF Tame
  <2> QED BY <2>2, <2>3
<1> QED BY <1>1, <1>2, <1>3, <1>4, <1>5 DEF AllOff, Dropped, u, v

\* ReportSocketError.
LEMMA ReportIs ==
  ASSUME NEW w \in World, Sound(w), Tellable(w.cm, w.tx), NEW err
  PROVE  LET v == ReportSocketError(w, err) IN
         /\ v \in World /\ Vacant(v.cm) /\ AllOff(v.tx) /\ v.sock = w.sock /\ Sound(v)
         /\ v.cm.state = w.cm.state /\ v.cm.excess = w.cm.excess
         /\ v.cm.nonPersistent = w.cm.nonPersistent /\ v.cm.connector = w.cm.connector
         /\ Dropped(Awaits(w.cm), w.tx, v.tx)
<1> DEFINE r  == w.cm.curResp
           w1 == IF w.cm.curReq = None THEN w ELSE CancelRequest(w, w.cm.curReq)
           w2 == CancelResponse(w1, r)
           w3 == ConnectionError(w2, w2.cm.curResp, err)
           e  == IF w3.cm.state # "EConnecting" /\ w3.cm.pendResp # <<>> THEN "pipelining" ELSE err
           v  == Vacate(NotifyPendingTransactions(w3, e))
<1>0. r \in Tx /\ r # None /\ r \notin ToSet(w.cm.pendResp)  BY ConstantsAssumption DEF Tellable
<1>1. ReportSocketError(w, err) = v  BY <1>0 DEF ReportSocketError, Vacate
<1>2. /\ w1 \in World /\ w1.cm = w.cm /\ w1.sock = w.sock /\ w1.panic = w.panic
      /\ \A t \in Tx : /\ w1.tx[t].status = w.tx[t].status /\ w1.tx[t].parse = w.tx[t].parse
                       /\ w1.tx[t].unread = w.tx[t].unread /\ w1.tx[t].hold = w.tx[t].hold
                       /\ w1.tx[t].hdr = w.tx[t].hdr /\ w1.tx[t].msgDone = w.tx[t].msgDone
                       /\ Silent(w1.tx[t]) /\ Tame(w.tx[t], w1.tx[t])
  <2>1. CASE w.cm.curReq = None
    <3>1. w1 = w /\ \A t \in Tx : t # w.cm.curReq  BY <2>1, ConstantsAssumption
    <3> QED BY <3>1 DEF Tame, Tellable
  <2>2. CASE w.cm.curReq # None
    <3>1. w.cm.curReq \in Tx  BY <2>2 DEF World, Manager
    <3>2. w1 = Composer(w, w.cm.curReq, "idle")  BY <2>2 DEF CancelRequest, Composer
    <3> HIDE DEF w1
    <3>3. /\ w1 \in World /\ w1.cm = w.cm /\ w1.sock = w.sock /\ w1.panic = w.panic
          /\ \A u \in Tx : u # w.cm.curReq => w1.tx[u] = w.tx[u]
          /\ w1.tx[w.cm.curReq].comp = "idle" /\ Alike(w.tx[w.cm.curReq], w1.tx[w.cm.curReq])
      <4> DEFINE q == w.cm.curReq
      <4>1. q \in Tx /\ "idle" \in ComposerStates  BY <3>1 DEF ComposerStates
      <4> HIDE DEF q
      <4> DEFINE z == Composer(w, q, "idle")
      <4>2. /\ z \in World /\ z.cm = w.cm /\ z.sock = w.sock /\ z.panic = w.panic
            /\ \A u \in Tx : u # q => z.tx[u] = w.tx[u]
            /\ z.tx[q].comp = "idle" /\ Alike(w.tx[q], z.tx[q])
        BY <4>1, ComposerIs
      <4>3. w1 = z  BY <3>2 DEF q
      <4> HIDE DEF z
      <4>4. /\ w1 \in World /\ w1.cm = w.cm /\ w1.sock = w.sock /\ w1.panic = w.panic
            /\ \A u \in Tx : u # q => w1.tx[u] = w.tx[u]
            /\ w1.tx[q].comp = "idle" /\ Alike(w.tx[q], w1.tx[q])
        BY <4>2, <4>3
      <4> QED BY <4>4 DEF q
    <3>4. \A t \in Tx : t # w.cm.curReq => Silent(w.tx[t])  BY DEF Tellable
    <3> QED BY <3>1, <3>3, <3>4 DEF Alike, Tame, Silent
  <2> QED BY <2>1, <2>2
<1>3. w1.tx[r].parse = "wait" /\ w1.tx[r].len # "unknown"
  BY <1>0, <1>2 DEF Tellable, Sound, Tame
<1> HIDE DEF w1
<1>4. /\ w2 \in World /\ w2.cm = w.cm /\ w2.sock = w.sock /\ w2.panic = w.panic
      /\ \A t \in Tx : t # r => w2.tx[t] = w1.tx[t]
      /\ w2.tx[r].parse = "wait" /\ w2.tx[r].len = w1.tx[r].len /\ w2.tx[r].unread = w1.tx[r].unread
      /\ w2.tx[r].hold = w1.tx[r].hold /\ w2.tx[r].comp = w1.tx[r].comp
      /\ w2.tx[r].pipeline = w1.tx[r].pipeline
  <2>1. w2 = [w1 EXCEPT !.tx[r].parse = "wait", !.tx[r].hdr = FALSE]
    BY <1>3 DEF CancelResponse
  <2> HIDE DEF w2
  <2>2. /\ w2 \in World /\ w2.cm = w1.cm /\ w2.sock = w1.sock /\ w2.panic = w1.panic
        /\ \A u \in Tx : u # r => w2.tx[u] = w1.tx[u]
        /\ w2.tx[r] = [w1.tx[r] EXCEPT !.parse = "wait", !.hdr = FALSE]
    BY <1>0, <1>2, <2>1, ResetIs
  <2>3. w1.tx[r] \in Transaction  BY <1>0, <1>2 DEF World
  <2> QED BY <1>2, <2>2, <2>3 DEF Transaction
<1>5. w3 = [w2 EXCEPT !.tx[r] = Failed(r, w2.tx[r], w2.cm.nonPersistent, err)]
  BY <1>0, <1>3, <1>4 DEF ConnectionError
<1>6. w3 \in World  BY <1>0, <1>4, ConnectionErrorKeeps DEF Keeps
<1> HIDE DEF w2
<1>7. /\ w3.cm = w.cm /\ w3.sock = w.sock /\ w3.panic = w.panic
      /\ \A t \in Tx : t # r => w3.tx[t] = w1.tx[t]
      /\ w3.tx[r] = Failed(r, w2.tx[r], w2.cm.nonPersistent, err)
  <2> DEFINE q == Failed(r, w2.tx[r], w2.cm.nonPersistent, err)
  <2>1. w3 = Put(w2, r, q)  BY <1>5 DEF Put
  <2> HIDE DEF w3, q
  <2> QED BY <1>0, <1>4, <2>1, PutIs DEF q
<1> HIDE DEF w3
<1>8. ASSUME NEW t \in Tx
      PROVE  /\ Silent(w3.tx[t]) /\ Tame(w.tx[t], w3.tx[t])
             /\ IF t = r THEN w3.tx[t].status \in {"retry", "failed"} ELSE w3.tx[t].status = w.tx[t].status
             /\ t \in ToSet(w.cm.pendResp) => Waiting(w3.tx[t])
             /\ t \notin ToSet(w.cm.pendResp) => Off(w3.tx[t])
  <2>1. CASE t = r
    <3>1. w2.tx[r] \in Transaction  BY <1>0, <1>4 DEF World
    <3>2. /\ w3.tx[r].status \in {"retry", "failed"} /\ w3.tx[r].status # "active" /\ w3.tx[r].parse = "wait" /\ w3.tx[r].unread = w2.tx[r].unread
          /\ w3.tx[r].hold = w2.tx[r].hold /\ w3.tx[r].comp = w2.tx[r].comp /\ Tame(w2.tx[r], w3.tx[r])
      BY <1>4, <1>7, <3>1, FailedIs
    <3>3. ~w2.tx[r].unread /\ ~w2.tx[r].hold  BY <1>0, <1>2, <1>4 DEF Tellable
    <3> QED BY <1>0, <1>2, <1>4, <2>1, <3>2, <3>3 DEF Off, Silent, Tame
  <2>2. CASE t # r
    <3>1. w3.tx[t] = w1.tx[t]  BY <1>7, <2>2
    <3> QED BY <1>2, <2>2, <3>1 DEF Tellable, Waiting, Off
  <2> QED BY <2>1, <2>2
<1> HIDE DEF e
<1>9. /\ v \in World /\ Vacant(v.cm) /\ AllOff(v.tx) /\ v.sock = w3.sock /\ v.panic = w3.panic
      /\ v.cm.flags = w3.cm.flags /\ v.cm.state = w3.cm.state /\ v.cm.excess = w3.cm.excess
      /\ v.cm.nonPersistent = w3.cm.nonPersistent /\ v.cm.connector = w3.cm.connector
      /\ \A t \in Tx : Tame(w3.tx[t], v.tx[t])
      /\ Dropped(ToSet(w3.cm.pendResp), w3.tx, v.tx)
  <2>1. ToSet(w.cm.pendResp) \subseteq Tx  BY SomeIn DEF World, Manager
  <2>2. /\ \A t \in ToSet(w3.cm.pendResp) : Waiting(w3.tx[t])
        /\ \A t \in Tx : t \notin ToSet(w3.cm.pendResp) => Off(w3.tx[t])
        /\ \A t \in Tx : Silent(w3.tx[t])
    BY <1>7, <1>8, <2>1
  <2> QED BY <1>6, <2>2, NotifyAll
<1> HIDE DEF v
<1>10. Sound(v)
  <2>1. \A t \in Tx : Tame(w.tx[t], v.tx[t])  BY <1>8, <1>9 DEF Tame
  <2>2. v.panic = w.panic /\ "EDiscardSndDataCnf" \notin v.cm.flags  BY <1>7, <1>9 DEF Sound
  <2> QED BY <2>1, <2>2, TameSound
<1>11. Dropped(Awaits(w.cm), w.tx, v.tx)
  <2>1. \A t \in Tx : t \in Awaits(w.cm) <=> t \in ToSet(w.cm.pendResp) \/ t = r
    BY <1>0 DEF Awaits
  <2>2. ASSUME NEW t \in Tx
        PROVE  IF t \in Awaits(w.cm) THEN v.tx[t].status \in {"retry", "failed"}
               ELSE v.tx[t].status = w.tx[t].status
    <3>1. IF t \in ToSet(w.cm.pendResp) THEN v.tx[t].status \in {"retry", "failed"}
          ELSE v.tx[t].status = w3.tx[t].status
      BY <1>7, <1>9 DEF Dropped
    <3>2. IF t = r THEN w3.tx[t].status \in {"retry", "failed"} ELSE w3.tx[t].status = w.tx[t].status
      BY <1>8
    <3> QED BY <2>1, <3>1, <3>2
  <2> QED BY <2>2 DEF Dropped
<1> QED BY <1>1, <1>7, <1>9, <1>10, <1>11 DEF v

\* SetIdleState, when all have been told and the streams are new.
LEMMA IdleRest ==
  ASSUME NEW w \in World, Sound(w), Vacant(w.cm), AllOff(w.tx), ~w.cm.excess, Still(w.sock), ~w.sock.hup
  PROVE  LET v == SetIdleState(w) IN Sound(v) /\ Rest(v.cm, v.tx, v.sock)
<1> DEFINE v == SetIdleState(w)
<1>1. /\ v.cm = [w.cm EXCEPT !.state = "EIdle",
                    !.flags = @ \ {"ECannotPipeline", "EPendingWriteInConnectedState"}]
      /\ v.tx = w.tx /\ v.sock = w.sock /\ v.panic = w.panic
  BY DEF SetIdleState, World
<1> HIDE DEF v
<1>2. /\ v.cm.state = "EIdle" /\ v.cm.flags = w.cm.flags \ {"ECannotPipeline", "EPendingWriteInConnectedState"}
      /\ Vacant(v.cm) /\ ~v.cm.excess
  BY <1>1 DEF World, Manager, Vacant
<1>3. Sound(v)  BY <1>1, <1>2 DEF Sound
<1>4. Rest(v.cm, v.tx, v.sock)
  BY <1>1, <1>2 DEF Rest, Resting, Vacant, AllOff, PendingWrite
<1> QED BY <1>3, <1>4 DEF v

\* The connection is lost, and the transactions are told.
LEMMA ToldRest ==
  ASSUME NEW w \in World, Sound(w), Tellable(w.cm, w.tx), ~w.cm.excess, Still(w.sock), ~w.sock.hup, NEW err
  PROVE  LET v == SetIdleState(ReportSocketError(w, err)) IN Sound(v) /\ Rest(v.cm, v.tx, v.sock)
<1> DEFINE u == ReportSocketError(w, err)
<1>1. /\ u \in World /\ Vacant(u.cm) /\ AllOff(u.tx) /\ u.sock = w.sock /\ Sound(u)
      /\ u.cm.excess = w.cm.excess
  BY ReportIs
<1> HIDE DEF u
<1>2. Sound(SetIdleState(u)) /\ Rest(SetIdleState(u).cm, SetIdleState(u).tx, SetIdleState(u).sock)
  BY <1>1, IdleRest
<1> QED BY <1>2 DEF u

-----------------------------------------------------------------------------
(* The connection is lost or cannot be made *)

\* A world that fits and is sound stays in order when it is the next one.
Sorted(w) == Sound(w) /\ Fit(w.cm, w.tx, w.sock)
\* A step to a world that is sorted is a step to an ordered one, types being kept.
LEMMA BecomesOrdered ==
  ASSUME Good(world)', NEW w, Becomes(w), Sorted(w)
  PROVE  Ordered(world)'
<1>1. cm' = w.cm /\ tx' = w.tx /\ sock' = w.sock /\ panic' = w.panic  BY DEF Becomes
<1>2. Sound(world)'  BY <1>1 DEF Sorted, Sound, world
<1>3. Fit(world.cm, world.tx, world.sock)'
  <2>1. Fit(cm', tx', sock')  BY <1>1 DEF Sorted
  <2> QED BY <2>1 DEF world
<1> QED BY <1>2, <1>3 DEF Ordered

\* A manager at rest is sorted.
LEMMA RestSorted == ASSUME NEW w, Sound(w), Rest(w.cm, w.tx, w.sock) PROVE Sorted(w)
  BY DEF Sorted, Fit
\* A manager that makes its connection is sorted.
LEMMA MakeSorted == ASSUME NEW w, Sound(w), Make(w.cm, w.tx, w.sock) PROVE Sorted(w)
  BY DEF Sorted, Fit
\* A manager whose connection is in use is sorted, whoever holds a complete response.
LEMMA RunSorted ==
  ASSUME NEW w, Sound(w), NEW h \in Tx \cup {None}, Run(w.cm, w.tx, w.sock, h) PROVE Sorted(w)
  BY DEF Sorted, Fit

\* What a world in order is.
LEMMA OrderedIs ==
  ASSUME Ordered(world)
  PROVE  /\ world \in World /\ Sound(world) /\ Fit(cm, tx, sock) /\ Typed(cm, tx, sock)
         /\ world.cm = cm /\ world.tx = tx /\ world.sock = sock /\ world.panic = panic
         /\ sock.open <=> cm.state \in ConnectedStates
         /\ cm.connector <=> cm.state = "EConnecting"
<1>1. world.cm = cm /\ world.tx = tx /\ world.sock = sock /\ world.panic = panic  BY DEF world
<1> QED BY <1>1 DEF Ordered, Good, Sound, Agrees, World, Typed

\* Those who wait for the connection, or for a response on it, can be told.
LEMMA MakeTellable ==
  ASSUME NEW c, NEW x, NEW s, Typed(c, x, s), Make(c, x, s) PROVE Tellable(c, x)
<1>1. c.curResp \in Tx /\ c.curReq = c.curResp /\ c.curResp \notin ToSet(c.pendResp) /\ None \notin Tx
  BY ConstantsAssumption DEF Make
<1>2. ToSet(c.pendResp) \subseteq Tx  BY Types, SomeIn
<1>3. \A t \in Tx : t \in Awaits(c) <=> t = c.curResp \/ t \in ToSet(c.pendResp)
  BY <1>1 DEF Awaits
<1> QED BY <1>1, <1>2, <1>3 DEF Make, Tellable, Waiting, Silent

\* While the input stream reads nobody holds a complete response, and every transaction
\* can be told that the connection is lost.
LEMMA RunTellable ==
  ASSUME NEW c, NEW x, NEW s, Typed(c, x, s), NEW h \in Tx \cup {None}, Run(c, x, s, h), s.reader = "read"
  PROVE  Tellable(c, x) /\ ~c.excess /\ h = None
<1>1. h = None /\ (c.curResp # None => x[c.curResp].parse = "wait") /\ ~c.excess
  BY DEF Run, Loose, Token
<1>2. c.curResp \in Tx /\ c.curResp # None  BY <1>1, Types DEF Run, Loose, Queues
<1>3. c.curResp \notin ToSet(c.pendResp)  BY DEF Run, Loose, Queues
<1>4. \A t \in Tx : t \in Awaits(c) <=> t = c.curResp \/ t \in ToSet(c.pendResp)
  BY <1>2 DEF Awaits
<1>5. /\ \A t \in ToSet(c.pendResp) : Waiting(x[t])
      /\ Current(x[c.curResp], h)
      /\ \A t \in Tx \ Awaits(c) : t # h => Off(x[t])
      /\ \A t \in Tx : t # c.curReq => Silent(x[t])
  BY <1>2 DEF Run, Loose, Parsers, Composers
<1>6. \A t \in Tx : t # h  BY <1>1, ConstantsAssumption
<1> QED BY <1>1, <1>2, <1>3, <1>4, <1>5, <1>6 DEF Tellable, Current

AllSilent(x) == \A t \in Tx : Silent(x[t])

\* HandleSocketError.
Resends(c) == "EPendingWriteInConnectedState" \in c.flags /\ c.curReq # None /\ c.curReq \notin Notified
NoPendingWrite(w) == [w EXCEPT !.cm.flags = @ \ {"EPendingWriteInConnectedState"}]

\* The three outcomes of HandleSocketError for an error that is not of the TLS handshake:
\* the close that was asked for, the resending on a new connection, the failing of all.
LEMMA HandleIs ==
  ASSUME NEW w \in World, NEW err, err # "sslAlert", NEW reconnects
  PROVE  LET v == HandleSocketError(w, err, reconnects)
             u == CancelRequest(w, w.cm.curReq)
         IN  /\ w.cm.state = "EClosing" => v = SetIdleState(w)
             /\ w.cm.state # "EClosing" /\ ~(err = "eof" /\ Resends(w.cm)) => v = SetIdleState(ReportSocketError(w, err))
             /\ w.cm.state # "EClosing" /\ err = "eof" /\ Resends(w.cm) =>
                  v = IF reconnects THEN ReconnectSocketL(u)
                      ELSE SetIdleState(ReportSocketError(NoPendingWrite(u), err))
  BY DEF HandleSocketError, Resends, NoPendingWrite

\* The same world without streams.
Unplug(w) == [w EXCEPT !.sock = ClosedSocket]
\* A socket that is closed has nothing in its streams.
LEMMA UnplugIs ==
  ASSUME NEW w \in World
  PROVE  LET v == Unplug(w) IN
         /\ v \in World /\ v.cm = w.cm /\ v.tx = w.tx /\ v.panic = w.panic
         /\ Still(v.sock) /\ ~v.sock.hup
         /\ Sound(w) => Sound(v)
<1>1. Unplug(w) \in World /\ Unplug(w).cm = w.cm /\ Unplug(w).tx = w.tx /\ Unplug(w).panic = w.panic
  BY CloseStreams DEF Unplug
<1>2. Unplug(w).sock = ClosedSocket  BY DEF Unplug, World
<1>3. Still(ClosedSocket) /\ ~ClosedSocket.hup  BY DEF Still, ClosedSocket
<1>4. Sound(w) => Sound(Unplug(w))  BY <1>1 DEF Sound
<1> QED BY <1>1, <1>2, <1>3, <1>4

\* The request that is being written is taken back: what remains.
LEMMA TakenBack ==
  ASSUME NEW w \in World, Sound(w), NEW s, Typed(w.cm, w.tx, s), NEW h \in Tx \cup {None},
         Run(w.cm, w.tx, s, h), s.reader = "read", PendingWrite(w.cm)
  PROVE  LET u == CancelRequest(w, w.cm.curReq) IN
         /\ u \in World /\ Sound(u) /\ u.cm = w.cm /\ u.sock = w.sock
         /\ Tellable(u.cm, u.tx) /\ AllSilent(u.tx)
         /\ \A t \in Awaits(u.cm) : Waiting(u.tx[t]) /\ u.tx[t].comp = "idle"
         /\ u.cm.curReq \in Tx /\ u.cm.curResp = u.cm.curReq /\ u.cm.pendReq = u.cm.pendResp
         /\ ~u.cm.excess
<1> DEFINE c == w.cm
           q == c.curReq
           u == Composer(w, q, "idle")
<1>0. CancelRequest(w, w.cm.curReq) = u  BY DEF CancelRequest, Composer
<1>1. Tellable(c, w.tx) /\ ~c.excess /\ h = None  BY RunTellable
<1>2. ~First(c) /\ q # None /\ q = c.curResp /\ c.pendReq = c.pendResp
  BY DEF Run, Loose, Mode
<1>3. q \in Tx /\ "idle" \in ComposerStates /\ ~w.tx[q].hdr /\ q \notin ToSet(c.pendResp)
      /\ \A t \in ToSet(c.pendResp) : w.tx[t].comp = "idle"
  BY <1>1, <1>2 DEF Tellable, Run, Loose, Composers, ComposerStates
<1> HIDE DEF q
<1>4. /\ u \in World /\ u.cm = w.cm /\ u.sock = w.sock /\ u.panic = w.panic
      /\ \A t \in Tx : t # q => u.tx[t] = w.tx[t]
      /\ u.tx[q].comp = "idle" /\ Alike(w.tx[q], u.tx[q])
  BY <1>3, ComposerIs
<1> HIDE DEF u
<1>5. c.curReq = q /\ c.curResp = q  BY <1>2 DEF q
<1>6. ToSet(c.pendResp) \subseteq Tx
  <2>1. c.pendResp \in Seq(Tx)  BY Types
  <2> QED BY <2>1, SomeIn
<1>7. Tellable(c, u.tx) /\ AllSilent(u.tx)
  BY <1>1, <1>3, <1>4, <1>5, <1>6 DEF Tellable, Alike, Silent, AllSilent, Waiting, Off
<1>8. Current(w.tx[q], h)  BY <1>3, <1>5, ConstantsAssumption DEF Run, Loose, Parsers
<1>9. Waiting(u.tx[q])  BY <1>1, <1>3, <1>4, <1>5, <1>8 DEF Current, Waiting, Alike, Tellable
<1>10. \A t \in Awaits(c) : Waiting(u.tx[t]) /\ u.tx[t].comp = "idle"
  <2>1. \A t \in Awaits(c) : t = q \/ t \in ToSet(c.pendResp)  BY <1>5 DEF Awaits
  <2>2. \A t \in ToSet(c.pendResp) : t \in Tx /\ t # q /\ Waiting(w.tx[t])  BY <1>1, <1>3, <1>6 DEF Tellable
  <2> QED BY <1>3, <1>4, <1>9, <2>1, <2>2
<1>11. Sound(u)
  <2>1. \A t \in Tx : Tame(w.tx[t], u.tx[t])
    <3> SUFFICES ASSUME NEW t \in Tx PROVE Tame(w.tx[t], u.tx[t])  OBVIOUS
    <3> QED BY <1>4 DEF Tame, Alike
  <2>2. "EDiscardSndDataCnf" \notin u.cm.flags  BY <1>4 DEF Sound
  <2> QED BY <1>4, <2>1, <2>2, TameSound
<1> QED BY <1>0, <1>1, <1>2, <1>3, <1>4, <1>5, <1>7, <1>10, <1>11

\* A connection is made for the transactions that wait.
LEMMA Reconnected ==
  ASSUME NEW u \in World, Sound(u), Still(u.sock), ~u.sock.hup, Tellable(u.cm, u.tx), AllSilent(u.tx),
         \A t \in Awaits(u.cm) : Waiting(u.tx[t]) /\ u.tx[t].comp = "idle",
         u.cm.curReq \in Tx, u.cm.curResp = u.cm.curReq, u.cm.pendReq = u.cm.pendResp,
         ~u.cm.excess, IsInjective(u.cm.pendResp), Alone(u.cm)
  PROVE  Sorted(ReconnectSocketL(u))
<1> DEFINE v == ReconnectSocketL(u)
<1>1. /\ v.cm = [u.cm EXCEPT !.flags = @ \ {"EPendingWriteInConnectedState"},
                     !.connector = TRUE, !.state = "EConnecting"]
      /\ v.tx = u.tx /\ v.sock = u.sock /\ v.panic = u.panic
  BY DEF ReconnectSocketL, World, Manager
<1> HIDE DEF v
<1>2. /\ v.cm.flags = u.cm.flags \ {"EPendingWriteInConnectedState"} /\ v.cm.state = "EConnecting"
      /\ v.cm.curReq = u.cm.curReq /\ v.cm.curResp = u.cm.curResp /\ v.cm.pendReq = u.cm.pendReq
      /\ v.cm.pendResp = u.cm.pendResp /\ v.cm.excess = u.cm.excess
      /\ v.cm.nonPersistent = u.cm.nonPersistent
  BY <1>1 DEF World, Manager
<1>3. Sound(v)  BY <1>1, <1>2 DEF Sound
<1>4. Awaits(v.cm) = Awaits(u.cm) /\ Alone(v.cm)  BY <1>2 DEF Awaits, Alone
<1>5. \A t \in Tx \ Awaits(v.cm) : Off(v.tx[t]) /\ Silent(v.tx[t])
  <2>1. \A t \in Tx \ Awaits(u.cm) : t # u.cm.curResp /\ t \notin ToSet(u.cm.pendResp)
    BY ConstantsAssumption DEF Awaits
  <2> QED BY <1>1, <1>4, <2>1 DEF Tellable, AllSilent
<1>6. \A t \in Awaits(v.cm) : Waiting(v.tx[t]) /\ v.tx[t].comp = "idle"  BY <1>1, <1>4
<1>7. v.cm.curResp \notin ToSet(v.cm.pendResp)  BY <1>2 DEF Tellable
<1>8. Make(v.cm, v.tx, v.sock)
  BY <1>1, <1>2, <1>4, <1>5, <1>6, <1>7 DEF Make, Making, PendingWrite
<1> QED BY <1>3, <1>8, MakeSorted DEF v

\* HandleSocketError, when there are no streams any more and no connector.
LEMMA Handled ==
  ASSUME NEW w \in World, Sound(w), NEW s, Typed(w.cm, w.tx, s), Fit(w.cm, w.tx, s), s.reader = "read",
         Still(w.sock), ~w.sock.hup, NEW err, err # "sslAlert", NEW reconnects
  PROVE  Sorted(HandleSocketError(w, err, reconnects))
<1> DEFINE c == w.cm
           v == HandleSocketError(w, err, reconnects)
           u == CancelRequest(w, c.curReq)
<1>1. /\ c.state = "EClosing" => v = SetIdleState(w)
      /\ c.state # "EClosing" /\ ~(err = "eof" /\ Resends(c)) => v = SetIdleState(ReportSocketError(w, err))
      /\ c.state # "EClosing" /\ err = "eof" /\ Resends(c) =>
           v = IF reconnects THEN ReconnectSocketL(u)
               ELSE SetIdleState(ReportSocketError(NoPendingWrite(u), err))
  BY HandleIs
<1> HIDE DEF v
<1>2. CASE Rest(c, w.tx, s)
  <2>1. /\ Vacant(c) /\ AllOff(w.tx) /\ ~c.excess /\ ~Resends(c)
    BY <1>2 DEF Rest, Vacant, AllOff, Resends
  <2>2. ReportSocketError(w, err) = w  BY <2>1 DEF ReportSocketError, Vacant
  <2>3. v = SetIdleState(w)  BY <1>1, <2>1, <2>2
  <2>4. Sound(SetIdleState(w)) /\ Rest(SetIdleState(w).cm, SetIdleState(w).tx, SetIdleState(w).sock)
    BY <2>1, IdleRest
  <2> QED BY <2>3, <2>4, RestSorted DEF v
<1>3. ASSUME Tellable(c, w.tx), ~c.excess, c.state # "EClosing", ~(err = "eof" /\ Resends(c))
      PROVE  Sorted(v)
  <2> DEFINE z == SetIdleState(ReportSocketError(w, err))
  <2>1. Sound(z) /\ Rest(z.cm, z.tx, z.sock)  BY <1>3, ToldRest
  <2>2. v = z  BY <1>1, <1>3
  <2> HIDE DEF z
  <2> QED BY <2>1, <2>2, RestSorted
<1>4. CASE Make(c, w.tx, s)
  <2>1. c.state # "EClosing" /\ ~Resends(c) /\ ~c.excess
    BY <1>4 DEF Make, Making, PendingWrite, Resends
  <2>2. Tellable(c, w.tx)  BY <1>4, MakeTellable
  <2> QED BY <1>3, <2>1, <2>2 DEF v
<1>5. ASSUME NEW h \in Tx \cup {None}, Run(c, w.tx, s, h) PROVE Sorted(v)
  <2>1. c.state # "EClosing"  BY <1>5 DEF Run, Loose
  <2>2. Tellable(c, w.tx) /\ ~c.excess  BY <1>5, RunTellable
  <2>3. CASE ~(err = "eof" /\ Resends(c))  BY <1>3, <2>1, <2>2, <2>3
  <2>4. CASE err = "eof" /\ Resends(c)
    <3>1. PendingWrite(c)  BY <2>4 DEF Resends, PendingWrite
    <3>2. /\ u \in World /\ Sound(u) /\ u.cm = w.cm /\ u.sock = w.sock
          /\ Tellable(u.cm, u.tx) /\ AllSilent(u.tx)
          /\ \A t \in Awaits(u.cm) : Waiting(u.tx[t]) /\ u.tx[t].comp = "idle"
          /\ u.cm.curReq \in Tx /\ u.cm.curResp = u.cm.curReq /\ u.cm.pendReq = u.cm.pendResp
          /\ ~u.cm.excess
      BY <1>5, <3>1, TakenBack
    <3> HIDE DEF u
    <3>3. IsInjective(u.cm.pendResp) /\ Alone(u.cm)  BY <1>5, <3>2 DEF Run, Loose, Queues
    <3>4. CASE reconnects
      <4>1. Sorted(ReconnectSocketL(u))  BY <3>2, <3>3, Reconnected
      <4> QED BY <1>1, <2>1, <2>4, <3>4, <4>1
    <3>5. CASE ~reconnects
      <4> DEFINE n == NoPendingWrite(u)
      <4>1. /\ n.cm = [u.cm EXCEPT !.flags = @ \ {"EPendingWriteInConnectedState"}]
            /\ n.tx = u.tx /\ n.sock = u.sock /\ n.panic = u.panic /\ n \in World
        BY <3>2 DEF NoPendingWrite, World, Manager
      <4> HIDE DEF n
      <4>2. /\ n.cm.curResp = u.cm.curResp /\ n.cm.pendResp = u.cm.pendResp /\ n.cm.curReq = u.cm.curReq
            /\ n.cm.excess = u.cm.excess /\ n.cm.flags \subseteq u.cm.flags
        BY <3>2, <4>1 DEF World, Manager
      <4>3. Sound(n) /\ Tellable(n.cm, n.tx) /\ ~n.cm.excess  BY <3>2, <4>1, <4>2 DEF Sound, Tellable
      <4>4. Still(n.sock) /\ ~n.sock.hup  BY <3>2, <4>1
      <4> DEFINE z == SetIdleState(ReportSocketError(n, err))
      <4>5. Sound(z) /\ Rest(z.cm, z.tx, z.sock)  BY <4>1, <4>3, <4>4, ToldRest
      <4>6. v = z  BY <1>1, <2>1, <2>4, <3>5 DEF n
      <4> HIDE DEF z
      <4> QED BY <4>5, <4>6, RestSorted
    <3> QED BY <3>4, <3>5
  <2> QED BY <2>3, <2>4
<1> QED BY <1>2, <1>4, <1>5 DEF Fit, v

\* ServerCloses.
LEMMA ServerClosesOrder == ASSUME Ordered(world), Good(world)', ServerCloses PROVE Ordered(world)'
<1>1. PICK reconnects \in Reconnects : Becomes(HandleSocketError(Unplug(world), "eof", reconnects))
  BY DEF ServerCloses, StreamClosed, Unplug
<1> DEFINE u == Unplug(world)
<1>2. /\ world \in World /\ Sound(world) /\ Fit(cm, tx, sock) /\ Typed(cm, tx, sock)
      /\ world.cm = cm /\ world.tx = tx /\ sock.reader = "read"
  BY OrderedIs DEF ServerCloses
<1>3. u \in World /\ u.cm = cm /\ u.tx = tx /\ Still(u.sock) /\ ~u.sock.hup /\ Sound(u)
  BY <1>2, UnplugIs
<1> HIDE DEF u
<1> DEFINE v == HandleSocketError(u, "eof", reconnects)
<1>4. Sorted(v)  BY <1>2, <1>3, Handled
<1>5. Becomes(v)  BY <1>1 DEF u
<1> HIDE DEF v
<1> QED BY <1>4, <1>5, BecomesOrdered

\* ConnectFails.
LEMMA ConnectFailsOrder == ASSUME Ordered(world), Good(world)', ConnectFails PROVE Ordered(world)'
<1> DEFINE w == [world EXCEPT !.cm.connector = FALSE]
<1>1. PICK err \in {"fail", "disconnected"}, reconnects \in Reconnects :
        Becomes(HandleConnectError(world, err, reconnects))
  BY DEF ConnectFails
<1>2. /\ world \in World /\ Sound(world) /\ Fit(cm, tx, sock) /\ Typed(cm, tx, sock)
      /\ world.cm = cm /\ world.tx = tx /\ world.sock = sock /\ world.panic = panic
      /\ cm.state = "EConnecting"
  BY OrderedIs DEF ConnectFails
<1>3. Make(cm, tx, sock)
  BY <1>2 DEF Fit, Rest, Resting, Run, Loose
<1>4. Tellable(cm, tx) /\ ~cm.excess /\ Still(sock) /\ ~sock.hup /\ ~Resends(cm)
  BY <1>2, <1>3, MakeTellable DEF Make, PendingWrite, Resends
<1>5. /\ w \in World /\ w.cm = [cm EXCEPT !.connector = FALSE] /\ w.tx = tx /\ w.sock = sock
      /\ w.panic = panic
  BY <1>2 DEF World, Manager
<1> HIDE DEF w
<1>6. /\ w.cm.curResp = cm.curResp /\ w.cm.pendResp = cm.pendResp /\ w.cm.curReq = cm.curReq
      /\ w.cm.excess = cm.excess /\ w.cm.flags = cm.flags /\ w.cm.state = cm.state
  BY <1>2, <1>5 DEF World, Manager
<1>7. Tellable(w.cm, w.tx) /\ ~w.cm.excess /\ Still(w.sock) /\ ~w.sock.hup /\ ~Resends(w.cm)
  BY <1>4, <1>5, <1>6 DEF Tellable, Resends
<1>8. Sound(w)  BY <1>2, <1>5, <1>6 DEF Sound
<1> DEFINE v == HandleSocketError(w, err, reconnects)
           z == SetIdleState(ReportSocketError(w, err))
<1>9. v = z
  <2>1. err # "sslAlert" /\ w.cm.state # "EClosing"  BY <1>2, <1>6
  <2> QED BY <1>5, <1>7, <2>1, HandleIs
<1>10. Sound(z) /\ Rest(z.cm, z.tx, z.sock)  BY <1>5, <1>7, <1>8, ToldRest
<1>11. z.cm.state = "EIdle"
  <2>1. ReportSocketError(w, err) \in World  BY <1>5, ReportSocketErrorKeeps DEF Keeps
  <2> QED BY <2>1 DEF SetIdleState, World, Manager
<1>12. Becomes(HandleConnectError(world, err, reconnects))  BY <1>1
<1>13. HandleConnectError(world, err, reconnects) = z
  <2>1. HandleConnectError(world, err, reconnects)
        = IF v.cm.state # "EIdle" THEN Panic(v, "HandleConnectError: not EIdle") ELSE v
    BY DEF HandleConnectError, w
  <2> HIDE DEF v, z
  <2> QED BY <1>9, <1>11, <2>1
<1> HIDE DEF z
<1> QED BY <1>10, <1>12, <1>13, RestSorted, BecomesOrdered

-----------------------------------------------------------------------------
(* The line of the answers: the heads that are there, the wire, the one that *)
(* starts, and the requests that are held back                             *)

\* Two queues joined are a queue.
LEMMA CatType ==
  ASSUME NEW T, NEW a \in Seq(T), NEW b \in Seq(T) PROVE Cat(a, b) \in Seq(T)
  BY ConcatProperties DEF Cat
\* The empty queue joined to another leaves it as it is, on either side.
LEMMA CatNone ==
  ASSUME NEW T, NEW a \in Seq(T)
  PROVE  None0 \in Seq(T) /\ Cat(a, None0) = a /\ Cat(None0, a) = a
  BY ConcatEmptySeq, EmptySeq DEF Cat, None0
\* Queues may be joined in any grouping.
LEMMA CatAssociative ==
  ASSUME NEW T, NEW a \in Seq(T), NEW b \in Seq(T), NEW d \in Seq(T)
  PROVE  Cat(Cat(a, b), d) = Cat(a, Cat(b, d))
  BY ConcatAssociative DEF Cat
\* A queue that joining does not lengthen is joined to the empty one.
LEMMA CatEmpty ==
  ASSUME NEW T, NEW a \in Seq(T), NEW b \in Seq(T)
  PROVE  /\ Cat(a, b) = b => a = None0
         /\ Cat(a, b) = None0 => a = None0 /\ b = None0
  BY ConcatEqualIffEmpty DEF Cat, None0
\* The queue of one is a queue.
LEMMA OneType == ASSUME NEW T, NEW e \in T PROVE One(e) \in Seq(T)
  BY OneIn DEF One
\* Append joins the queue of one.
LEMMA CatOne ==
  ASSUME NEW T, NEW a \in Seq(T), NEW e \in T
  PROVE  Append(a, e) = Cat(a, One(e))
  BY AppendIsConcat DEF Cat, One
\* A queue that is not empty is its first element joined to the others.
LEMMA CatHead ==
  ASSUME NEW T, NEW a \in Seq(T), a # None0
  PROVE  Head(a) \in T /\ Tail(a) \in Seq(T) /\ a = Cat(One(Head(a)), Tail(a))
  BY HeadAndTail, SomeIn DEF Cat, One, None0

\* One in front of a queue.
LEMMA FrontOne ==
  ASSUME NEW T, NEW e \in T, NEW s \in Seq(T)
  PROVE  Head(Cat(One(e), s)) = e /\ Tail(Cat(One(e), s)) = s /\ Cat(One(e), s) # None0
         /\ Cat(One(e), s)[1] = e /\ Cat(One(e), s) \in Seq(T)
<1>1. One(e) \in Seq(T) /\ Len(One(e)) = 1 /\ One(e)[1] = e  BY OneIn DEF One
<1>2. Len(s) \in Nat  BY LenProperties
<1> DEFINE z == Cat(One(e), s)
<1>3. z \in Seq(T) /\ Len(z) = 1 + Len(s)
      /\ \A i \in 1 .. 1 + Len(s) : z[i] = IF i <= 1 THEN One(e)[i] ELSE s[i - 1]
  <2> DEFINE o == One(e)
             y == o \o s
  <2>1. o \in Seq(T) /\ Len(o) = 1  BY <1>1
  <2> HIDE DEF o
  <2>2. y \in Seq(T) /\ Len(y) = Len(o) + Len(s)
      /\ \A i \in 1 .. Len(o) + Len(s) : y[i] = IF i <= Len(o) THEN o[i] ELSE s[i - Len(o)]
    BY <2>1, ConcatProperties
  <2>3. z = y  BY DEF Cat, o
  <2> HIDE DEF y, z
  <2>4. z \in Seq(T) /\ Len(z) = 1 + Len(s)
      /\ \A i \in 1 .. 1 + Len(s) : z[i] = IF i <= 1 THEN o[i] ELSE s[i - 1]
    BY <2>1, <2>2, <2>3
  <2> QED BY <2>4 DEF o
<1> HIDE DEF z
<1>4. z # <<>> /\ 1 \in 1 .. 1 + Len(s)  BY <1>2, <1>3, EmptySeq
<1>5. z[1] = e  BY <1>1, <1>3, <1>4
<1>6. Head(z) = e  BY <1>3, <1>4, <1>5
<1>7. Tail(z) \in Seq(T) /\ Len(Tail(z)) = Len(s) /\ \A i \in 1 .. Len(s) : Tail(z)[i] = s[i]
  <2>1. Tail(z) \in Seq(T) /\ Len(Tail(z)) = Len(z) - 1 /\ \A i \in 1 .. Len(Tail(z)) : Tail(z)[i] = z[i + 1]
    BY <1>3, <1>4, HeadTailProperties
  <2>2. \A i \in 1 .. Len(s) : i + 1 \in 1 .. 1 + Len(s) /\ ~(i + 1 <= 1) /\ i + 1 - 1 = i  BY <1>2
  <2>3. \A i \in 1 .. Len(s) : z[i + 1] = s[i]  BY <1>3, <2>2
  <2> QED BY <1>2, <1>3, <2>1, <2>3
<1>8. Tail(z) = s  BY <1>7, SeqEqual
<1> QED BY <1>3, <1>4, <1>5, <1>6, <1>8 DEF z, None0

\* Two queues that are the same start with the same.
LEMMA SameFirst ==
  ASSUME NEW T, NEW e \in T, NEW a \in Seq(T), NEW f \in T, NEW b \in Seq(T),
         Cat(One(e), a) = Cat(One(f), b)
  PROVE  e = f /\ a = b
<1>1. Head(Cat(One(e), a)) = e /\ Tail(Cat(One(e), a)) = a  BY FrontOne
<1>2. Head(Cat(One(f), b)) = f /\ Tail(Cat(One(f), b)) = b  BY FrontOne
<1> QED BY <1>1, <1>2

Line(a, w, s, q) == Cat(Cat(Cat(a, w), s), q)

\* Where the brackets are does not matter.
LEMMA Regroup ==
  ASSUME NEW a \in Seq(Tx), NEW w \in Seq(Tx), NEW s \in Seq(Tx), NEW q \in Seq(Tx)
  PROVE  /\ Line(a, w, s, q) \in Seq(Tx)
         /\ Line(a, w, s, q) = Cat(a, Cat(w, Cat(s, q)))
         /\ Line(a, w, None0, q) = Cat(a, Cat(w, q))
<1>1. Cat(a, w) \in Seq(Tx) /\ Cat(s, q) \in Seq(Tx)  BY CatType
<1>2. Cat(Cat(Cat(a, w), s), q) = Cat(Cat(a, w), Cat(s, q))  BY <1>1, CatAssociative
<1>3. Cat(Cat(a, w), Cat(s, q)) = Cat(a, Cat(w, Cat(s, q)))  BY <1>1, CatAssociative
<1>4. Cat(Cat(Cat(a, w), None0), q) = Cat(a, Cat(w, q))  BY <1>1, CatNone, CatAssociative
<1>5. Cat(Cat(a, w), Cat(s, q)) \in Seq(Tx)  BY <1>1, CatType
<1> QED BY <1>2, <1>3, <1>4, <1>5 DEF Line

\* One more is held back, and awaited.
LEMMA LineExtended ==
  ASSUME NEW a \in Seq(Tx), NEW w \in Seq(Tx), NEW s \in Seq(Tx), NEW q \in Seq(Tx),
         NEW h \in Seq(Tx), NEW r \in Seq(Tx), NEW t \in Tx, Line(a, w, s, q) = Cat(h, r)
  PROVE  Line(a, w, s, Append(q, t)) = Cat(h, Append(r, t))
<1> DEFINE b == Cat(Cat(a, w), s)
<1>1. b \in Seq(Tx) /\ One(t) \in Seq(Tx)
  <2>1. Cat(a, w) \in Seq(Tx)  BY CatType
  <2> QED BY <2>1, CatType, OneType
<1> HIDE DEF b
<1>2. Append(q, t) = Cat(q, One(t)) /\ Append(r, t) = Cat(r, One(t))  BY CatOne
<1>3. Cat(b, Cat(q, One(t))) = Cat(Cat(b, q), One(t))  BY <1>1, CatAssociative
<1>4. Cat(h, Cat(r, One(t))) = Cat(Cat(h, r), One(t))  BY <1>1, CatAssociative
<1>5. Cat(b, q) = Cat(h, r)  BY DEF Line, b
<1> QED BY <1>2, <1>3, <1>4, <1>5 DEF Line, b

\* A new one starts, and is awaited.
LEMMA LineStarted ==
  ASSUME NEW a \in Seq(Tx), NEW w \in Seq(Tx), NEW h \in Seq(Tx), NEW r \in Seq(Tx), NEW t \in Tx,
         Line(a, w, None0, None0) = Cat(h, r)
  PROVE  Line(a, w, One(t), None0) = Cat(h, Append(r, t))
<1>1. None0 \in Seq(Tx) /\ One(t) \in Seq(Tx) /\ Append(r, t) = Cat(r, One(t))
  BY CatNone, OneType, CatOne
<1>2. Cat(a, w) \in Seq(Tx) /\ Cat(Cat(a, w), One(t)) \in Seq(Tx)
  <2>1. Cat(a, w) \in Seq(Tx)  BY CatType
  <2> QED BY <1>1, <2>1, CatType
<1>3. Cat(Cat(a, w), None0) = Cat(a, w)  BY <1>2, CatNone
<1>4. Cat(Cat(Cat(a, w), One(t)), None0) = Cat(Cat(a, w), One(t))  BY <1>2, CatNone
<1>5. Cat(a, w) = Cat(h, r)  BY <1>3 DEF Line
<1>6. Cat(Cat(h, r), One(t)) = Cat(h, Cat(r, One(t)))  BY <1>1, CatAssociative
<1> QED BY <1>1, <1>4, <1>5, <1>6 DEF Line

\* The one that starts is sent.
LEMMA LineSent ==
  ASSUME NEW a \in Seq(Tx), NEW w \in Seq(Tx), NEW q \in Seq(Tx), NEW t \in Tx
  PROVE  Line(a, Append(w, t), None0, q) = Line(a, w, One(t), q)
<1>1. One(t) \in Seq(Tx) /\ Append(w, t) = Cat(w, One(t))  BY OneType, CatOne
<1>2. Cat(w, One(t)) \in Seq(Tx)  BY <1>1, CatType
<1>3. Cat(Cat(w, One(t)), q) = Cat(w, Cat(One(t), q))  BY <1>1, CatAssociative
<1>4. Line(a, w, One(t), q) = Cat(a, Cat(w, Cat(One(t), q)))  BY <1>1, Regroup
<1>5. Line(a, Cat(w, One(t)), None0, q) = Cat(a, Cat(Cat(w, One(t)), q))  BY <1>2, Regroup
<1> QED BY <1>1, <1>3, <1>4, <1>5

\* The first of the requests that are held back starts.
LEMMA LineNext ==
  ASSUME NEW a \in Seq(Tx), NEW w \in Seq(Tx), NEW q \in Seq(Tx), q # None0
  PROVE  Line(a, w, One(Head(q)), Tail(q)) = Line(a, w, None0, q)
<1>1. PICK e \in Tx, d \in Seq(Tx) : e = Head(q) /\ d = Tail(q) /\ q = Cat(One(e), d)  BY CatHead
<1>2. One(e) \in Seq(Tx)  BY OneType
<1>3. Line(a, w, One(e), d) = Cat(a, Cat(w, Cat(One(e), d)))  BY <1>2, Regroup
<1>4. Line(a, w, None0, q) = Cat(a, Cat(w, q))  BY Regroup
<1> QED BY <1>1, <1>3, <1>4

\* The first one on the wire is answered.
LEMMA LineAnswered ==
  ASSUME NEW a \in Seq(Tx), NEW w \in Seq(Tx), NEW s \in Seq(Tx), NEW q \in Seq(Tx), w # None0
  PROVE  Line(Append(a, Head(w)), Tail(w), s, q) = Line(a, w, s, q)
<1> DEFINE o == One(Head(w))
           d == Tail(w)
           sq == Cat(s, q)
<1>1. Head(w) \in Tx /\ d \in Seq(Tx) /\ w = Cat(o, d)  BY CatHead
<1>2. o \in Seq(Tx) /\ Append(a, Head(w)) = Cat(a, o)  BY <1>1, OneType, CatOne
<1>3. Cat(a, o) \in Seq(Tx) /\ sq \in Seq(Tx)  BY <1>2, CatType
<1> HIDE DEF o, d, sq
<1>4. Cat(d, sq) \in Seq(Tx)  BY <1>1, <1>3, CatType
<1>5. Cat(Cat(a, o), Cat(d, sq)) = Cat(a, Cat(o, Cat(d, sq)))  BY <1>2, <1>4, CatAssociative
<1>6. Cat(Cat(o, d), sq) = Cat(o, Cat(d, sq))  BY <1>1, <1>2, <1>3, CatAssociative
<1>7. Line(a, w, s, q) = Cat(a, Cat(w, sq))  BY Regroup DEF sq
<1>8. Line(Cat(a, o), d, s, q) = Cat(Cat(a, o), Cat(d, sq))  BY <1>1, <1>3, Regroup DEF sq
<1> QED BY <1>1, <1>2, <1>5, <1>6, <1>7, <1>8 DEF d

\* The first head is taken from the line.
LEMMA LineParsed ==
  ASSUME NEW a \in Seq(Tx), NEW w \in Seq(Tx), NEW s \in Seq(Tx), NEW q \in Seq(Tx), NEW t \in Tx
  PROVE  Line(Cat(One(t), a), w, s, q) = Cat(One(t), Line(a, w, s, q))
<1> DEFINE o == One(t)
           wsq == Cat(w, Cat(s, q))
<1>1. o \in Seq(Tx) /\ wsq \in Seq(Tx)
  <2>1. Cat(s, q) \in Seq(Tx)  BY CatType
  <2> QED BY <2>1, OneType, CatType
<1>2. Cat(o, a) \in Seq(Tx)  BY <1>1, CatType
<1> HIDE DEF o, wsq
<1>3. Cat(Cat(o, a), wsq) = Cat(o, Cat(a, wsq))  BY <1>1, CatAssociative
<1>4. Line(a, w, s, q) = Cat(a, wsq)  BY Regroup DEF wsq
<1>5. Line(Cat(o, a), w, s, q) = Cat(Cat(o, a), wsq)  BY <1>2, Regroup DEF wsq
<1> QED BY <1>3, <1>4, <1>5 DEF o

\* A line that is no longer than its end is empty in front.
LEMMA LineEmpty ==
  ASSUME NEW a \in Seq(Tx), NEW w \in Seq(Tx), NEW s \in Seq(Tx), NEW q \in Seq(Tx), Line(a, w, s, q) = q
  PROVE  a = None0 /\ w = None0 /\ s = None0
<1>1. Cat(a, w) \in Seq(Tx) /\ Cat(Cat(a, w), s) \in Seq(Tx)
  <2>1. Cat(a, w) \in Seq(Tx)  BY CatType
  <2> QED BY <2>1, CatType
<1>2. Cat(Cat(a, w), s) = None0  BY <1>1, CatEmpty DEF Line
<1>3. Cat(a, w) = None0 /\ s = None0  BY <1>1, <1>2, CatEmpty
<1> QED BY <1>3, CatEmpty

-----------------------------------------------------------------------------
(* The pieces of the answers                                               *)

\* The part Answers of the invariant, by the laws of joining.
LEMMA AnswersLine ==
  ASSUME NEW c, NEW x, NEW s
  PROVE  Answers(c, x, s) <=> Line(HeadsIn(s.buf \o s.net), s.wire, Starting(c, x), c.pendReq)
                                = Cat(Headless(c, x), c.pendResp)
  BY DEF Answers, Line, Cat

\* The first piece and the others.
LEMMA PiecesRest ==
  ASSUME NEW P \in Seq(Piece), P # <<>>
  PROVE  /\ Len(P) \in Nat /\ Len(P) >= 1 /\ DOMAIN P = 1 .. Len(P) /\ 1 \in DOMAIN P
         /\ P[1] \in Piece /\ P[1].t \in Tx /\ P[1] \in ToSet(P) /\ Head(P) = P[1]
         /\ Tail(P) \in Seq(Piece) /\ DOMAIN Tail(P) = 1 .. Len(P) - 1
         /\ \A i \in 1 .. Len(P) - 1 : Tail(P)[i] = P[i + 1]
         /\ ToSet(P) = {P[1]} \cup ToSet(Tail(P))
<1>1. Len(P) \in Nat /\ Len(P) >= 1 /\ DOMAIN P = 1 .. Len(P)  BY LenProperties, EmptySeq
<1>2. /\ Tail(P) \in Seq(Piece) /\ DOMAIN Tail(P) = 1 .. Len(P) - 1
      /\ \A i \in 1 .. Len(P) - 1 : Tail(P)[i] = P[i + 1]
  <2>1. /\ Tail(P) \in Seq(Piece) /\ Len(Tail(P)) = Len(P) - 1
        /\ \A i \in 1 .. Len(Tail(P)) : Tail(P)[i] = P[i + 1]
    BY HeadTailProperties
  <2>2. DOMAIN Tail(P) = 1 .. Len(Tail(P))  BY <2>1, LenProperties
  <2> QED BY <2>1, <2>2
<1>3. 1 \in DOMAIN P /\ P[1] \in Piece /\ Head(P) = P[1]  BY <1>1, ElementOfSeq
<1>4. P[1].t \in Tx  BY <1>3 DEF Piece
<1>5. P[1] \in ToSet(P)  BY <1>3 DEF ToSet
<1>6. ToSet(P) = {Head(P)} \cup ToSet(Tail(P))  BY HeadAndTail
<1> QED BY <1>1, <1>2, <1>3, <1>4, <1>5, <1>6

\* The heads of pieces are that of the first one, if it is a head, and those of the others.
LEMMA HeadFirst ==
  ASSUME NEW P \in Seq(Piece), P # <<>>
  PROVE  HeadsIn(P) = IF P[1].part = "head" THEN Cat(One(P[1].t), HeadsIn(Tail(P))) ELSE HeadsIn(Tail(P))
<1> DEFINE o == <<P[1]>>
           d == Tail(P)
<1>1. P[1] \in Piece /\ P[1].t \in Tx /\ Head(P) = P[1] /\ d \in Seq(Piece)  BY PiecesRest
<1>2. P = o \o d  BY <1>1, SomeIn
<1>3. o \in Seq(Piece) /\ Append(<<>>, P[1]) = o  BY <1>1, OneIn
<1>4. Append(<<>>, P[1].t) = One(P[1].t)  BY <1>1, OneIn DEF One
<1>5. HeadsIn(o) = IF P[1].part = "head" THEN One(P[1].t) ELSE None0
  <2>1. <<>> \in Seq(Piece)  BY EmptySeq
  <2> QED BY <1>1, <1>3, <1>4, <2>1, OneMore, NoHeads DEF None0
<1> HIDE DEF o, d
<1>6. HeadsIn(o \o d) = Cat(HeadsIn(o), HeadsIn(d))  BY <1>1, <1>3, HeadsInBoth DEF Cat
<1>7. HeadsIn(d) \in Seq(Tx)  BY <1>1, HeadsInType
<1>8. Cat(None0, HeadsIn(d)) = HeadsIn(d)  BY <1>7, CatNone
<1> QED BY <1>2, <1>5, <1>6, <1>8 DEF d

\* Without a head and without a rest of an answer there is no piece.
LEMMA NoPieces ==
  ASSUME NEW P \in Seq(Piece), NEW t, Parts(P, FALSE, t), HeadsIn(P) = None0
  PROVE  P = <<>>
<1> SUFFICES ASSUME P # <<>> PROVE FALSE  OBVIOUS
<1>1. 1 \in DOMAIN P /\ P[1] \in Piece  BY PiecesRest
<1>2. P[1].part # "tail"  BY <1>1 DEF Parts
<1>3. P[1].part = "head"  BY <1>1, <1>2 DEF Piece
<1>4. P[1].t \in ToSet(HeadsIn(P))  BY <1>1, <1>3, HeadCounted
<1> QED BY <1>4, NoneIn DEF None0

\* The parts of the answers after the first piece.
LEMMA PartsRest ==
  ASSUME NEW P \in Seq(Piece), P # <<>>, NEW m, NEW t, Parts(P, m, t),
         NEW n \in BOOLEAN, n <=> P[1].part = "head" /\ P[1].len = "sized",
         NEW u, n => u = P[1].t
  PROVE  Parts(Tail(P), n, u)
<1> DEFINE D == Tail(P)
           k == Len(P)
<1>1. k \in Nat /\ k >= 1 /\ DOMAIN P = 1 .. k /\ DOMAIN D = 1 .. k - 1
      /\ \A i \in 1 .. k - 1 : D[i] = P[i + 1]
  BY PiecesRest
<1>2. /\ \A i \in DOMAIN P : P[i].part = "tail" /\ i # 1 =>
           P[i - 1].part = "head" /\ P[i - 1].t = P[i].t /\ P[i - 1].len = "sized"
      /\ \A i \in DOMAIN P : P[i].part = "head" /\ P[i].len = "sized" =>
           i + 1 \in DOMAIN P /\ P[i + 1].part = "tail"
  BY DEF Parts
<1>2a. D \in Seq(Piece)  BY PiecesRest
<1> HIDE DEF D, k
<1>3. ASSUME NEW i \in DOMAIN D, D[i].part = "tail"
      PROVE  IF i = 1 THEN n /\ D[1].t = u
             ELSE D[i - 1].part = "head" /\ D[i - 1].t = D[i].t /\ D[i - 1].len = "sized"
  <2>1. PICK j \in DOMAIN P : j = i + 1 /\ j # 1 /\ j - 1 = i /\ P[j] = D[i]  BY <1>1
  <2>1a. P[j - 1].part = "head" /\ P[j - 1].t = P[j].t /\ P[j - 1].len = "sized"  BY <1>2, <1>3, <2>1
  <2>2. P[i].part = "head" /\ P[i].t = D[i].t /\ P[i].len = "sized"  BY <2>1, <2>1a
  <2>3. CASE i = 1  BY <2>2, <2>3
  <2>4. CASE i # 1
    <3>1. i - 1 \in 1 .. k - 1 /\ i - 1 + 1 = i  BY <1>1, <2>4
    <3>2. D[i - 1] = P[i]  BY <1>1, <3>1
    <3> QED BY <2>2, <2>4, <3>2
  <2> QED BY <2>3, <2>4
<1>4. ASSUME NEW i \in DOMAIN D, D[i].part = "head", D[i].len = "sized"
      PROVE  i + 1 \in DOMAIN D /\ D[i + 1].part = "tail"
  <2> DEFINE j == i + 1
  <2>1. j \in DOMAIN P /\ P[j] = D[i]  BY <1>1
  <2>2. j + 1 \in DOMAIN P /\ P[j + 1].part = "tail"  BY <1>2, <1>4, <2>1
  <2>3. j \in 1 .. k - 1 /\ j = i + 1  BY <1>1, <2>1, <2>2
  <2>4. D[j] = P[j + 1]  BY <1>1, <2>3
  <2> QED BY <1>1, <2>2, <2>3, <2>4
<1>5. n => D # <<>> /\ D[1].part = "tail"
  <2> SUFFICES ASSUME n PROVE D # <<>> /\ D[1].part = "tail"  OBVIOUS
  <2>1. 1 + 1 \in DOMAIN P /\ P[1 + 1].part = "tail"
    <3>1. 1 \in DOMAIN P  BY <1>1
    <3> QED BY <1>2, <3>1
  <2>2. 1 \in 1 .. k - 1  BY <1>1, <2>1
  <2>3. D[1] = P[1 + 1]  BY <1>1, <2>2
  <2>4. D # <<>>
    <3>1. Len(D) # 0  BY <1>1, <1>2a, <2>2, LenProperties
    <3> QED BY <3>1, EmptySeq
  <2> QED BY <2>1, <2>3, <2>4
<1> QED BY <1>3, <1>4, <1>5 DEF Parts, D

\* Whole answers that follow.
LEMMA PartsBoth ==
  ASSUME NEW P \in Seq(Piece), NEW R \in Seq(Piece), NEW m, NEW t, Parts(P, m, t), NEW u, Parts(R, FALSE, u)
  PROVE  Parts(P \o R, m, t)
<1> DEFINE Z == P \o R
           k == Len(P)
           l == Len(R)
<1>1. k \in Nat /\ l \in Nat /\ DOMAIN P = 1 .. k /\ DOMAIN R = 1 .. l  BY LenProperties
<1>2. Z \in Seq(Piece) /\ Len(Z) = k + l /\ DOMAIN Z = 1 .. k + l
      /\ \A i \in 1 .. k + l : Z[i] = IF i <= k THEN P[i] ELSE R[i - k]
  <2>1. Z \in Seq(Piece) /\ Len(Z) = k + l
        /\ \A i \in 1 .. k + l : Z[i] = IF i <= k THEN P[i] ELSE R[i - k]
    BY ConcatProperties
  <2> HIDE DEF Z, k, l
  <2> QED BY <2>1, LenProperties
<1>3. /\ \A i \in DOMAIN P : P[i].part = "tail" =>
           IF i = 1 THEN m /\ P[1].t = t
           ELSE P[i - 1].part = "head" /\ P[i - 1].t = P[i].t /\ P[i - 1].len = "sized"
      /\ \A i \in DOMAIN P : P[i].part = "head" /\ P[i].len = "sized" =>
           i + 1 \in DOMAIN P /\ P[i + 1].part = "tail"
      /\ m => P # <<>> /\ P[1].part = "tail"
  BY DEF Parts
<1>4. /\ \A i \in DOMAIN R : R[i].part = "tail" =>
           i # 1 /\ R[i - 1].part = "head" /\ R[i - 1].t = R[i].t /\ R[i - 1].len = "sized"
      /\ \A i \in DOMAIN R : R[i].part = "head" /\ R[i].len = "sized" =>
           i + 1 \in DOMAIN R /\ R[i + 1].part = "tail"
  BY DEF Parts
<1>5. P # <<>> => k >= 1  BY <1>1, EmptySeq DEF k
<1> HIDE DEF Z, k, l
<1>6. ASSUME NEW i \in DOMAIN Z, Z[i].part = "tail"
      PROVE  IF i = 1 THEN m /\ Z[1].t = t
             ELSE Z[i - 1].part = "head" /\ Z[i - 1].t = Z[i].t /\ Z[i - 1].len = "sized"
  <2>1. CASE i <= k
    <3>1. i \in DOMAIN P /\ Z[i] = P[i]  BY <1>1, <1>2, <2>1
    <3>2. CASE i = 1
      <4>1. 1 \in DOMAIN P /\ Z[1] = P[1] /\ P[1].part = "tail"  BY <1>6, <3>1, <3>2
      <4>2. m /\ P[1].t = t  BY <1>3, <4>1
      <4> QED BY <3>2, <4>1, <4>2
    <3>3. CASE i # 1
      <4>1. i - 1 \in 1 .. k + l /\ i - 1 <= k  BY <1>1, <1>2, <2>1, <3>3
      <4>2. Z[i - 1] = P[i - 1]  BY <1>2, <4>1
      <4> QED BY <1>3, <1>6, <3>1, <3>3, <4>2
    <3> QED BY <3>2, <3>3
  <2>2. CASE ~(i <= k)
    <3> DEFINE j == i - k
    <3>1. j \in DOMAIN R /\ Z[i] = R[j]  BY <1>1, <1>2, <2>2
    <3>2. j # 1 /\ R[j - 1].part = "head" /\ R[j - 1].t = R[j].t /\ R[j - 1].len = "sized"
      BY <1>4, <1>6, <3>1
    <3>3. i - 1 \in 1 .. k + l /\ ~(i - 1 <= k) /\ i - 1 - k = j - 1 /\ i # 1
      BY <1>1, <1>2, <2>2, <3>1, <3>2
    <3>4. Z[i - 1] = R[j - 1]  BY <1>2, <3>3
    <3> QED BY <3>1, <3>2, <3>3, <3>4
  <2> QED BY <2>1, <2>2
<1>7. ASSUME NEW i \in DOMAIN Z, Z[i].part = "head", Z[i].len = "sized"
      PROVE  i + 1 \in DOMAIN Z /\ Z[i + 1].part = "tail"
  <2>1. CASE i <= k
    <3>1. i \in DOMAIN P /\ Z[i] = P[i]  BY <1>1, <1>2, <2>1
    <3>2. i + 1 \in DOMAIN P /\ P[i + 1].part = "tail"  BY <1>3, <1>7, <3>1
    <3>3. i + 1 \in 1 .. k + l /\ i + 1 <= k  BY <1>1, <3>2
    <3>4. Z[i + 1] = P[i + 1]  BY <1>2, <3>3
    <3> QED BY <1>2, <3>2, <3>3, <3>4
  <2>2. CASE ~(i <= k)
    <3> DEFINE j == i - k
    <3>1. j \in DOMAIN R /\ Z[i] = R[j]  BY <1>1, <1>2, <2>2
    <3>2. j + 1 \in DOMAIN R /\ R[j + 1].part = "tail"  BY <1>4, <1>7, <3>1
    <3>3. i + 1 \in 1 .. k + l /\ ~(i + 1 <= k) /\ i + 1 - k = j + 1  BY <1>1, <1>2, <2>2, <3>2
    <3>4. Z[i + 1] = R[j + 1]
      <4>1. PICK y \in 1 .. k + l : y = i + 1 /\ ~(y <= k) /\ y - k = j + 1
        BY <1>1, <1>2, <3>3
      <4>2. Z[y] = R[y - k]  BY <1>2, <4>1
      <4> QED BY <4>1, <4>2
    <3> QED BY <1>2, <3>2, <3>3, <3>4
  <2> QED BY <2>1, <2>2
<1>8. m => Z # <<>> /\ Z[1].part = "tail"
  <2> SUFFICES ASSUME m PROVE Z # <<>> /\ Z[1].part = "tail"  OBVIOUS
  <2>1. 1 \in 1 .. k + l /\ 1 <= k  BY <1>1, <1>3, <1>5
  <2>2. Z[1] = P[1]  BY <1>2, <2>1
  <2>3. Z # <<>>  BY <1>1, <1>2, <2>1, EmptySeq
  <2> QED BY <1>3, <2>2, <2>3
<1> QED BY <1>6, <1>7, <1>8 DEF Parts, Z

\* The queue of two.
LEMMA TwoIn == ASSUME NEW T, NEW a \in T, NEW b \in T PROVE Append(<<a>>, b) = <<a, b>>
<1>1. PICK o \in Seq(T) : o = <<a>> /\ Len(o) = 1 /\ o[1] = a
  <2>1. <<a>> \in Seq(T) /\ Len(<<a>>) = 1 /\ <<a>>[1] = a  BY OneIn
  <2> QED BY <2>1
<1>2. PICK z \in Seq(T) : z = <<a, b>> /\ Len(z) = 2 /\ z[1] = a /\ z[2] = b
  <2>1. <<a, b>> \in Seq(T)  OBVIOUS
  <2>2. Len(<<a, b>>) = 2  OBVIOUS
  <2> QED BY <2>1, <2>2
<1>3. /\ Append(o, b) \in Seq(T) /\ Len(Append(o, b)) = 2
      /\ Append(o, b)[1] = a /\ Append(o, b)[2] = b
  <2>1. /\ Append(o, b) \in Seq(T) /\ Len(Append(o, b)) = Len(o) + 1
        /\ \A i \in 1 .. Len(o) : Append(o, b)[i] = o[i]
        /\ Append(o, b)[Len(o) + 1] = b
    BY AppendProperties
  <2>2. 1 \in 1 .. Len(o) /\ Len(o) + 1 = 2  BY <1>1
  <2> QED BY <1>1, <2>1, <2>2
<1>4. \A i \in 1 .. 2 : Append(o, b)[i] = z[i]
  <2>1. \A i \in 1 .. 2 : i = 1 \/ i = 2  OBVIOUS
  <2> QED BY <1>2, <1>3, <2>1
<1>5. Append(o, b) = z
  <2> DEFINE y == Append(o, b)
  <2>1. y \in Seq(T) /\ Len(y) = Len(z) /\ \A i \in 1 .. Len(y) : y[i] = z[i]  BY <1>2, <1>3, <1>4
  <2> HIDE DEF y
  <2>2. y = z  BY <2>1, SeqEqual
  <2> QED BY <2>2 DEF y
<1> QED BY <1>1, <1>2, <1>5

\* The first piece that is there is of the answer that is parsed.
LEMMA FirstPiece ==
  ASSUME NEW c, NEW x, NEW s, Typed(c, x, s), Answers(c, x, s), Pieces(c, x, s),
         c.curResp # None, x[c.curResp].parse # "end", s.buf \o s.net # <<>>
  PROVE  /\ (s.buf \o s.net)[1].t = c.curResp
         /\ (s.buf \o s.net)[1].part = "tail" <=> x[c.curResp].hdr
         /\ (s.buf \o s.net)[1] \in Piece
<1> DEFINE P == s.buf \o s.net
           r == c.curResp
           h == Head(P)
<1>1. P \in Seq(Piece) /\ P # <<>> /\ HeadsIn(P) \in Seq(Tx) /\ Starting(c, x) \in Seq(Tx)  BY AnswersAre
<1>2. Parts(P, Midway(c, x), r)  BY DEF Pieces
<1>3. r \in Tx /\ c.pendReq \in Seq(Tx) /\ c.pendResp \in Seq(Tx) /\ s.wire \in Seq(Tx)  BY Types
<1>4. Midway(c, x) <=> x[r].hdr  BY DEF Midway
<1>5. Line(HeadsIn(P), s.wire, Starting(c, x), c.pendReq) = Cat(Headless(c, x), c.pendResp)  BY AnswersLine
<1>6. ~x[r].hdr => Headless(c, x) = One(r)  BY DEF Headless, One
<1> HIDE DEF P, r
<1>7. 1 \in DOMAIN P /\ P[1] \in Piece /\ P[1].t \in Tx /\ Tail(P) \in Seq(Piece)  BY <1>1, PiecesRest
<1>8. CASE x[r].hdr
  <2>1. P[1].part = "tail"  BY <1>2, <1>4, <1>8 DEF Parts
  <2>2. P[1].t = r  BY <1>2, <1>7, <2>1 DEF Parts
  <2> QED BY <1>7, <1>8, <2>1, <2>2 DEF P, r
<1>9. CASE ~x[r].hdr
  <2>1. P[1].part # "tail"  BY <1>2, <1>4, <1>7, <1>9 DEF Parts
  <2>2. P[1].part = "head"  BY <1>7, <2>1 DEF Piece
  <2> DEFINE e == P[1].t
             a == HeadsIn(Tail(P))
             st == Starting(c, x)
  <2>3. HeadsIn(P) = Cat(One(e), a) /\ a \in Seq(Tx) /\ e \in Tx /\ st \in Seq(Tx)
    BY <1>1, <1>7, <2>2, HeadFirst, HeadsInType
  <2>4. Line(Cat(One(e), a), s.wire, st, c.pendReq) = Cat(One(r), c.pendResp)  BY <1>5, <1>6, <1>9, <2>3
  <2> DEFINE w == s.wire
             q == c.pendReq
             z == c.pendResp
  <2>5. w \in Seq(Tx) /\ q \in Seq(Tx) /\ z \in Seq(Tx) /\ Line(Cat(One(e), a), w, st, q) = Cat(One(r), z)
    BY <1>3, <2>4
  <2> HIDE DEF e, a, st, w, q, z
  <2>6. Line(Cat(One(e), a), w, st, q) = Cat(One(e), Line(a, w, st, q)) /\ Line(a, w, st, q) \in Seq(Tx)
    BY <2>3, <2>5, LineParsed, Regroup
  <2> DEFINE y == Line(a, w, st, q)
  <2>7. y \in Seq(Tx) /\ Cat(One(e), y) = Cat(One(r), z)  BY <2>5, <2>6
  <2> HIDE DEF y
  <2>8. e = r  BY <1>3, <2>3, <2>5, <2>7, SameFirst
  <2> QED BY <1>7, <1>9, <2>1, <2>8 DEF P, e, r
<1> QED BY <1>8, <1>9

=============================================================================
