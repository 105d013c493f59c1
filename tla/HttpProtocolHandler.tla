------------------------ MODULE HttpProtocolHandler ------------------------
(***************************************************************************)
(* CProtocolHandler, the queue of the transactions of a session, and       *)
(* CHttpClientHandler, which gives each of them one of its connection      *)
(* managers and takes back what the managers report.                       *)
(*                                                                         *)
(* The managers are here what the handler and each other's transactions    *)
(* can tell of them: their status, their connection information and their  *)
(* two queues.  Module HttpConnectionManager has one manager in full; left *)
(* to it are responses that a client has not read to their end, early      *)
(* answers, and a response that is completed while it is cancelled.        *)
(*                                                                         *)
(* A transaction's events run at a higher priority than the handler and    *)
(* the sockets: what was submitted together is pending together.           *)
(***************************************************************************)
EXTENDS Integers, Sequences, FiniteSets, SequencesExt

CONSTANTS
  Trans,               \* transactions
  Place,               \* Place[t]: host and port of t
  Secure,              \* transactions of the scheme https
  CanPipeline,         \* GETs of HTTP/1.1
  NonPersistent,       \* requests with "Connection: close"
  WithBody,            \* requests whose body may be beyond a Reset
  Invalid,             \* transactions whose URI has no host
  MaxConnectionManagers,
  MaxTransactionsToPipeline,
  EnableOptimalPipeline,
  MaxRetryCount,       \* KMaxRetryCount
  MaxSubmits           \* bound: how often the client submits, in total

ASSUME ConstantsAssumption ==
  /\ DOMAIN Place = Trans /\ Trans # {} /\ "none" \notin Trans
  /\ Secure \cup CanPipeline \cup NonPersistent \cup WithBody \cup Invalid \subseteq Trans
  /\ MaxConnectionManagers \in Nat \ {0} /\ MaxTransactionsToPipeline \in Nat \ {0}
  /\ MaxRetryCount \in Nat /\ MaxSubmits \in Nat
  /\ EnableOptimalPipeline \in BOOLEAN

VARIABLES
  trans,      \* the CHttpClientTransaction of each
  queue,      \* iTransactions
  active,     \* the handler is to run
  conn,       \* iConnectionManagers
  fallback,   \* CHttpPipelineFallback: failures of a place, 2 is the failed list
  events,     \* iEventQueue of each CTransaction
  client,     \* what the client knows
  submits,
  panic

vars == <<trans, queue, active, conn, fallback, events, client, submits, panic>>
world == [trans |-> trans, queue |-> queue, active |-> active, conn |-> conn,
          fallback |-> fallback, events |-> events, client |-> client, panic |-> panic]

None == "none"
Places == {Place[t] : t \in Trans}
Managers == 1 .. MaxConnectionManagers
ProtStates == {"EPending", "EActive", "ECancelled", "ECompleted"}
ConnStates == {"EIdle", "EConnecting", "EUpgrading", "EConnected", "EIdleConnected", "EClosing"}
Errors == {"KErrHttpPipeliningError", "KErrHttpNonPipeliningError", "KErrDisconnected",
           "KErrHttpInvalidUri", "KErrHttpCantResetRequestBody", "KErrCouldNotConnect"}
Events == {"ESubmit", "EResponseComplete"} \cup Errors
Clients == {"open", "waiting", "answered", "failed", "closed"}
Assertions == {"SetConnectionManager", "DisablePipelining", "CannotPipeline", "PendingResponses"}

\* manager = 0 is NULL.
ProtTransaction ==
  [state : ProtStates, manager : 0 .. MaxConnectionManagers,
   retries : 0 .. MaxRetryCount + 1, pipelining : BOOLEAN]

\* `responses' starts with the current response.
Manager ==
  [exists : BOOLEAN, state : ConnStates, place : Places, secure : BOOLEAN, persistent : BOOLEAN,
   cannotPipeline : BOOLEAN, first : BOOLEAN, pendingWrite : BOOLEAN,
   request : Trans \cup {None}, pending : Seq(Trans), responses : Seq(Trans)]

TypeOK ==
  /\ trans \in [Trans -> ProtTransaction]
  /\ queue \in Seq(Trans) /\ IsInjective(queue)
  /\ active \in BOOLEAN
  /\ conn \in [Managers -> Manager]
  /\ fallback \in [Places -> 0 .. 2]
  /\ events \in [Trans -> Seq(Events)]
  /\ client \in [Trans -> Clients]
  /\ submits \in 0 .. MaxSubmits
  /\ panic \subseteq Assertions

NewTransaction == [state |-> "EPending", manager |-> 0, retries |-> 0, pipelining |-> TRUE]

NewManager ==
  [exists |-> FALSE, state |-> "EIdle", place |-> CHOOSE p \in Places : TRUE, secure |-> FALSE,
   persistent |-> TRUE, cannotPipeline |-> FALSE, first |-> FALSE, pendingWrite |-> FALSE,
   request |-> None, pending |-> <<>>, responses |-> <<>>]

Init ==
  /\ trans = [t \in Trans |-> NewTransaction]
  /\ queue = <<>> /\ active = FALSE
  /\ conn = [m \in Managers |-> NewManager]
  /\ fallback = [p \in Places |-> 0]
  /\ events = [t \in Trans |-> <<>>]
  /\ client = [t \in Trans |-> "open"]
  /\ submits = 0 /\ panic = {}

Becomes(w) ==
  /\ trans' = w.trans /\ queue' = w.queue /\ active' = w.active /\ conn' = w.conn
  /\ fallback' = w.fallback /\ events' = w.events /\ client' = w.client /\ panic' = w.panic

\* The entry of t is found and removed.
Without(s, t) ==
  IF t \in ToSet(s) THEN RemoveAt(s, CHOOSE i \in DOMAIN s : s[i] = t) ELSE s

Check(w, holds, name) == IF holds THEN w ELSE [w EXCEPT !.panic = @ \cup {name}]
Alive == panic = {}

-----------------------------------------------------------------------------
(* The base class: the queue *)

CompleteSelf(w) == [w EXCEPT !.active = TRUE]

SendEvent(w, t, event) == [w EXCEPT !.events[t] = Append(@, event)]

\* An active transaction frees the resources that others may wait for.
CompleteIfActive(w, t) == IF w.trans[t].state = "EActive" THEN CompleteSelf(w) ELSE w

TransactionCompleted(w, t, event) ==
  [CompleteIfActive(SendEvent(w, t, event), t) EXCEPT !.trans[t].state = "ECompleted"]

-----------------------------------------------------------------------------
(* What the managers report, and what they do *)

\* A rerun without pipelining, or an error: the manager is done with t.
SetStatusError(w, t, error) ==
  LET w1 == IF error = "KErrHttpPipeliningError" THEN [w EXCEPT !.trans[t].pipelining = FALSE] ELSE w
  IN TransactionCompleted([w1 EXCEPT !.trans[t].manager = 0], t,
       IF error = "KErrEof" THEN "KErrDisconnected" ELSE error)

\* Mutant: no end to the retries.
RetryNeededAlways(w, t) == w.trans[t].state \notin {"ECancelled", "ECompleted"}

RetryNeeded(w, t) ==
  w.trans[t].state \notin {"ECancelled", "ECompleted"} /\ w.trans[t].retries < MaxRetryCount

ConnectionError(w, t, error) ==
  SetStatusError(w, t,
    IF error = "KErrEof" /\ RetryNeeded(w, t) /\ w.conn[w.trans[t].manager].persistent
    THEN "KErrHttpNonPipeliningError" ELSE error)

\* From the last one to the first.
NotifyPendingTransactions(w, m, error) ==
  LET c == w.conn[m].responses
      told[n \in 0 .. Len(c) - 1] ==
        IF n = 0 THEN w ELSE ConnectionError(told[n - 1], c[Len(c) - n + 1], error)
  IN [told[Len(c) - 1] EXCEPT !.conn[m].responses = <<Head(@)>>, !.conn[m].pending = <<>>]

\* Nobody asks an idle manager for its connection information.
SetIdleState(w, m) ==
  [w EXCEPT !.conn[m].state = "EIdle", !.conn[m].cannotPipeline = FALSE, !.conn[m].pendingWrite = FALSE,
            !.conn[m].place = NewManager.place, !.conn[m].secure = FALSE, !.conn[m].persistent = TRUE]

Forget(w, m) ==
  [w EXCEPT !.conn[m].request = None, !.conn[m].pending = <<>>, !.conn[m].responses = <<>>]

InsertPipelineFailedHost(w, place) == [w EXCEPT !.fallback[place] = IF @ < 2 THEN @ + 1 ELSE @]

ReportSocketError(w, m, error) ==
  LET c == w.conn[m]
      pipelined == c.state # "EConnecting" /\ Len(c.responses) > 1
      first == ConnectionError(w, Head(c.responses), error)
      rest == IF pipelined
              THEN NotifyPendingTransactions(InsertPipelineFailedHost(first, c.place), m, "KErrHttpPipeliningError")
              ELSE NotifyPendingTransactions(first, m, error)
  IN IF c.responses = <<>> THEN w ELSE Forget(rest, m)

\* A request that was to be the first on a connection the server has closed
\* meanwhile goes to a new one.
ReconnectSocket(w, m) == [w EXCEPT !.conn[m].pendingWrite = FALSE, !.conn[m].state = "EConnecting"]

HandleSocketError(w, m, error) ==
  LET c == w.conn[m]
  IN IF c.state = "EClosing" THEN SetIdleState(w, m)
     ELSE IF error = "KErrEof" /\ c.pendingWrite /\ c.request # None THEN ReconnectSocket(w, m)
     ELSE SetIdleState(ReportSocketError(w, m, error), m)

\* The manager closes: its own streams tell it so in state EClosing.
CloseConnection(w, m) == HandleSocketError([w EXCEPT !.conn[m].state = "EClosing"], m, "KErrEof")

Reusable(c, t) == c.place = Place[t] /\ (c.secure => t \in Secure)

Enqueue(w, m, t) ==
  LET c == w.conn[m]
  IN [w EXCEPT !.conn[m] =
       [c EXCEPT !.place = Place[t], !.secure = t \in Secure, !.persistent = t \notin NonPersistent,
                 !.request = IF @ = None THEN t ELSE @,
                 !.pending = IF c.request = None THEN @ ELSE Append(@, t),
                 !.responses = Append(@, t)]]

\* Mutant: the connection is kept, wherever it leads.
SubmitAnywhere(w, m, t) ==
  LET c == w.conn[m]
      q == Enqueue(w, m, t)
  IN CASE c.state = "EIdle" -> [q EXCEPT !.conn[m].state = "EConnecting"]
       [] c.state = "EIdleConnected" -> [q EXCEPT !.conn[m].state = "EConnected"]
       [] OTHER -> q

Submit(w, m, t) ==
  LET c == w.conn[m]
      closes == c.state = "EClosing" \/ (c.state = "EIdleConnected" /\ ~Reusable(c, t))
      w1 == Check(w, closes => c.responses = <<>>, "PendingResponses")
      w2 == IF closes THEN CloseConnection(w1, m) ELSE w1
      w3 == Check(w2, c.responses # <<>> => ~c.cannotPipeline, "CannotPipeline")
      q == Enqueue(w3, m, t)
      state == w2.conn[m].state
  IN CASE state = "EIdle" ->
            [q EXCEPT !.conn[m].state = "EConnecting",
                      !.conn[m].first = @ \/ ~w2.conn[m].cannotPipeline]
       [] state = "EIdleConnected" /\ t \in Secure /\ ~c.secure ->
            [q EXCEPT !.conn[m].state = "EUpgrading"]
       [] state = "EIdleConnected" /\ ~(t \in Secure /\ ~c.secure) ->
            [q EXCEPT !.conn[m].state = "EConnected", !.conn[m].pendingWrite = TRUE]
       [] OTHER -> q

\* A request that is waiting is taken out.  For the current response the
\* connection is closed; one that waits behind another is taken out, and its
\* request, which is on its way, is not called back.
CancelSubmission(w, m, t) ==
  LET c == w.conn[m]
      current == c.responses # <<>> /\ Head(c.responses) = t
      closed == IF c.state = "EConnecting" THEN SetIdleState(w, m) ELSE CloseConnection(w, m)
  IN IF current
     THEN Forget(NotifyPendingTransactions(closed, m, "KErrHttpNonPipeliningError"), m)
     ELSE [w EXCEPT !.conn[m].request = IF @ = t THEN None ELSE @,
                    !.conn[m].pending = Without(@, t), !.conn[m].responses = Without(@, t)]

-----------------------------------------------------------------------------
(* The base class: cancel and close *)

CancelTransactionHook(w, t) ==
  LET m == w.trans[t].manager
  IN IF m = 0 THEN w ELSE [CancelSubmission(w, m, t) EXCEPT !.trans[t].manager = 0]

HandleCancelTransaction(w, t) ==
  IF t \notin ToSet(w.queue) THEN w
  ELSE CancelTransactionHook([CompleteIfActive(w, t) EXCEPT !.trans[t].state = "ECancelled"], t)

HandleClosedTransaction(w, t) ==
  IF t \notin ToSet(w.queue) THEN w
  ELSE [CompleteIfActive(w, t) EXCEPT !.queue = Without(@, t), !.trans[t] = NewTransaction]

\* CTransaction: what is queued goes, and every filter hears of it at once.
Cancel(w, t) == HandleCancelTransaction([w EXCEPT !.events[t] = <<>>], t)

-----------------------------------------------------------------------------
(* Selecting a connection manager *)

MayPipeline(w, t) ==
  t \in CanPipeline /\ w.trans[t].pipelining /\ w.fallback[Place[t]] < 2

\* Mutant: a connection that is for one transaction only is offered to others.
StatusShared(c) ==
  CASE c.state \in {"EIdle", "EClosing"} -> "ENotConnected"
    [] c.state = "EIdleConnected" -> "EConnectedAndAvailable"
    [] c.state = "EConnecting" /\ EnableOptimalPipeline -> "EConnectingNotAvailable"
    [] OTHER -> IF c.persistent /\ Len(c.responses) < MaxTransactionsToPipeline
                THEN "EConnectedAndBusy" ELSE "EConnectedNotAvailable"

Status(c) ==
  CASE c.state \in {"EIdle", "EClosing"} -> "ENotConnected"
    [] c.state = "EIdleConnected" -> "EConnectedAndAvailable"
    [] c.state = "EConnecting" /\ EnableOptimalPipeline -> "EConnectingNotAvailable"
    [] OTHER -> IF ~c.cannotPipeline /\ c.persistent /\ Len(c.responses) < MaxTransactionsToPipeline
                THEN "EConnectedAndBusy" ELSE "EConnectedNotAvailable"

Existing(w) == {m \in Managers : w.conn[m].exists}
OfStatus(w, s) == {m \in Existing(w) : Status(w.conn[m]) = s}
MatchesPlace(w, t) == {m \in Existing(w) : w.conn[m].place = Place[t]}
MatchesSecurity(w, t) == {m \in Existing(w) : w.conn[m].secure = (t \in Secure)}
FirstOf(S) == CHOOSE m \in S : \A n \in S : m <= n
LastOf(S) == CHOOSE m \in S : \A n \in S : m >= n

\* The managers are kept in the order of their creation; the first "this is
\* the one!" ends the search, of the other choices the last one stays.
Selection(w, t) ==
  LET pipe == MayPipeline(w, t)
      available == OfStatus(w, "EConnectedAndAvailable") \cap MatchesPlace(w, t)
      theOnes == IF pipe THEN OfStatus(w, "EConnectedAndBusy") \cap MatchesPlace(w, t)
                                \cap MatchesSecurity(w, t)
                 ELSE available
      second == OfStatus(w, "ENotConnected")
      fourth == OfStatus(w, "EConnectedAndAvailable") \ MatchesPlace(w, t)
      connecting == pipe /\ OfStatus(w, "EConnectingNotAvailable") \cap MatchesPlace(w, t)
                             \cap MatchesSecurity(w, t) # {}
      number == Cardinality(Existing(w))
  IN CASE theOnes # {} -> [manager |-> FirstOf(theOnes), new |-> FALSE]
       [] theOnes = {} /\ pipe /\ available # {} -> [manager |-> LastOf(available), new |-> FALSE]
       [] theOnes = {} /\ ~(pipe /\ available # {}) ->
            IF second # {} THEN [manager |-> LastOf(second), new |-> TRUE]
            ELSE IF number < MaxConnectionManagers
            THEN [manager |-> IF connecting THEN 0 ELSE number + 1, new |-> ~connecting]
            ELSE IF fourth # {} THEN [manager |-> LastOf(fourth), new |-> TRUE]
            ELSE [manager |-> 0, new |-> TRUE]

DisablePipelining(w, m) ==
  LET w1 == Check(w, w.conn[m].state \in {"EIdle", "EIdleConnected", "EClosing"} /\ ~w.conn[m].cannotPipeline,
                  "DisablePipelining")
  IN [w1 EXCEPT !.conn[m].cannotPipeline = TRUE]

IncRetryCount(w, t) == [w EXCEPT !.trans[t].retries = IF @ <= MaxRetryCount THEN @ + 1 ELSE @]

\* A transaction that finds no manager stays pending.
Service(w, t) ==
  LET choice == Selection(w, t)
      m == choice.manager
      w1 == Check(w, w.trans[t].manager = 0, "SetConnectionManager")
      w2 == [w1 EXCEPT !.trans[t].manager = m, !.conn[m].exists = TRUE]
      w3 == IF choice.new THEN IncRetryCount(w2, t) ELSE w2
      w4 == IF MayPipeline(w, t) THEN w3 ELSE DisablePipelining(w3, m)
  IN IF m = 0 THEN w
     ELSE [Submit(w4, m, t) EXCEPT !.trans[t].state = "EActive"]

-----------------------------------------------------------------------------
(* The handler's steps *)

\* The scan goes on to the end of the queue, or to a transaction that leaves.
Leaving(w) == {i \in 1 .. Len(w.queue) : w.trans[w.queue[i]].state = "EPending" /\ w.queue[i] \in Invalid}

ServicePending(w, t) == IF w.trans[t].state = "EPending" THEN Service(w, t) ELSE w

\* RunError: the rest of the queue has to wait for the next run.
RunError(w, t) == HandleCancelTransaction(SendEvent(w, t, "KErrHttpInvalidUri"), t)

Scan(w) ==
  LET end == IF Leaving(w) = {} THEN Len(w.queue) ELSE FirstOf(Leaving(w)) - 1
      serviced[n \in 0 .. Len(w.queue)] ==
        IF n = 0 THEN w ELSE ServicePending(serviced[n - 1], w.queue[n])
  IN IF Leaving(w) = {} THEN serviced[end] ELSE RunError(serviced[end], w.queue[end + 1])

\* Nothing of a higher priority is to run.
Quiet == \A t \in Trans : events[t] = <<>>

RunL ==
  /\ Alive /\ active /\ Quiet
  /\ Becomes(Scan([world EXCEPT !.active = FALSE]))
  /\ UNCHANGED submits

Resubmit(w, t) ==
  IF w.trans[t].state = "ECancelled"
  THEN CompleteSelf([w EXCEPT !.trans[t].state = "EPending"]) ELSE w

SubmitTransaction(w, t) ==
  IF t \in ToSet(w.queue) THEN Resubmit(w, t)
  ELSE CompleteSelf([w EXCEPT !.queue = Append(@, t), !.trans[t] = NewTransaction])

Delivered(t) == [world EXCEPT !.events[t] = Tail(@)]

\* The handler gets the submission.
HandlerSubmits(t) ==
  /\ Alive /\ events[t] # <<>> /\ Head(events[t]) = "ESubmit"
  /\ Becomes(SubmitTransaction(Delivered(t), t))
  /\ UNCHANGED submits

\* The body cannot be sent again: SubmitTransactionL cancels and leaves.
ResetFails(t) ==
  /\ Alive /\ events[t] # <<>> /\ Head(events[t]) = "ESubmit"
  /\ t \in WithBody /\ t \in ToSet(queue) /\ trans[t].state = "ECancelled"
  /\ Becomes(SendEvent(Cancel(Delivered(t), t), t, "KErrHttpCantResetRequestBody"))
  /\ UNCHANGED submits

\* The client filter cancels what may be tried again, and submits it.
FilterRetries(t) ==
  /\ Alive /\ events[t] # <<>>
  /\ Head(events[t]) \in {"KErrHttpPipeliningError", "KErrHttpNonPipeliningError"}
  /\ Becomes(SendEvent(Cancel(Delivered(t), t), t, "ESubmit"))
  /\ UNCHANGED submits

\* Everything else reaches the client.
ClientHears(t) ==
  /\ Alive /\ events[t] # <<>>
  /\ Head(events[t]) \notin {"ESubmit", "KErrHttpPipeliningError", "KErrHttpNonPipeliningError"}
  /\ Becomes([Delivered(t) EXCEPT !.client[t] =
               IF Head(events[t]) = "EResponseComplete" THEN "answered" ELSE "failed"])
  /\ UNCHANGED submits

-----------------------------------------------------------------------------
(* The client *)

\* A transaction is submitted once; again after it was cancelled.
ClientSubmits(t) ==
  /\ Alive /\ client[t] = "open" /\ submits < MaxSubmits
  /\ Becomes(SendEvent([world EXCEPT !.client[t] = "waiting"], t, "ESubmit"))
  /\ submits' = submits + 1

ClientCancels(t) ==
  /\ Alive /\ client[t] \in {"waiting", "answered", "failed"}
  /\ Becomes([Cancel(world, t) EXCEPT !.client[t] = "open"])
  /\ UNCHANGED submits

ClientCloses(t) ==
  /\ Alive /\ client[t] # "closed"
  /\ t \in ToSet(queue) \/ events[t] # <<>>
  /\ Becomes([HandleClosedTransaction(Cancel(world, t), t) EXCEPT !.client[t] = "closed"])
  /\ UNCHANGED submits

-----------------------------------------------------------------------------
(* The connections *)

Connected(m) ==
  /\ Alive /\ Quiet /\ conn[m].state = "EConnecting"
  /\ conn' = [conn EXCEPT ![m].state = IF conn[m].secure THEN "EUpgrading" ELSE "EConnected"]
  /\ UNCHANGED <<trans, queue, active, fallback, events, client, submits, panic>>

SecureClientCnf(m) ==
  /\ Alive /\ Quiet /\ conn[m].state = "EUpgrading"
  /\ conn' = [conn EXCEPT ![m].state = "EConnected"]
  /\ UNCHANGED <<trans, queue, active, fallback, events, client, submits, panic>>

\* The first request of a connection stays the current one until its answer.
RequestComplete(m) ==
  LET c == conn[m] IN
  /\ Alive /\ Quiet /\ c.state = "EConnected" /\ c.request # None
  /\ c.first => c.pendingWrite
  /\ conn' = [conn EXCEPT
       ![m].pendingWrite = FALSE,
       ![m].request = IF c.first THEN @ ELSE IF c.pending = <<>> THEN None ELSE Head(c.pending),
       ![m].pending = IF c.first \/ @ = <<>> THEN @ ELSE Tail(@)]
  /\ UNCHANGED <<trans, queue, active, fallback, events, client, submits, panic>>

\* The server answers the current response, whose request has been written.
Answering(m) ==
  LET c == conn[m] IN
  /\ Alive /\ Quiet /\ c.state = "EConnected" /\ c.responses # <<>>
  /\ Head(c.responses) \notin ToSet(c.pending)
  /\ Head(c.responses) = c.request => c.first /\ ~c.pendingWrite

\* Its headers say "Connection: close".
MakeConnectionNonPersistent(m) ==
  LET w == [world EXCEPT !.conn[m].persistent = FALSE, !.conn[m].cannotPipeline = TRUE]
      told == NotifyPendingTransactions(w, m, "KErrHttpPipeliningError")
  IN /\ Answering(m) /\ conn[m].persistent
     /\ Becomes([told EXCEPT !.conn[m].request = None])
     /\ UNCHANGED submits

\* On to the next request, or idle again.
ResponseDataParsed(w, m) ==
  LET c == w.conn[m]
      parsed == IF c.pending # <<>>
                THEN [c EXCEPT !.first = FALSE, !.pendingWrite = TRUE,
                               !.request = Head(c.pending), !.pending = Tail(@)]
                ELSE [c EXCEPT !.first = FALSE, !.cannotPipeline = FALSE,
                               !.request = IF c.first THEN None ELSE @,
                               !.state = IF c.persistent THEN "EIdleConnected" ELSE "EClosing"]
  IN IF c.responses # <<>> /\ ~c.first THEN w ELSE [w EXCEPT !.conn[m] = parsed]

\* Mutant: the transaction keeps its manager.
ResponseCompleteKeeps(m) ==
  LET t == Head(conn[m].responses)
      taken == [world EXCEPT !.conn[m].responses = Tail(@)]
  IN /\ Answering(m)
     /\ Becomes(ResponseDataParsed(TransactionCompleted(taken, t, "EResponseComplete"), m))
     /\ UNCHANGED submits

\* The answer is complete and the client has read it.
ResponseComplete(m) ==
  LET t == Head(conn[m].responses)
      taken == [world EXCEPT !.conn[m].responses = Tail(@), !.trans[t].manager = 0]
  IN /\ Answering(m)
     /\ Becomes(ResponseDataParsed(TransactionCompleted(taken, t, "EResponseComplete"), m))
     /\ UNCHANGED submits

\* The server closes, or the network fails.
ConnectionLost(m) ==
  /\ Alive /\ Quiet /\ conn[m].state \notin {"EIdle", "EConnecting"}
  /\ Becomes(HandleSocketError(world, m, "KErrEof"))
  /\ UNCHANGED submits

HandleConnectError(m) ==
  /\ Alive /\ Quiet /\ conn[m].state = "EConnecting"
  /\ Becomes(HandleSocketError(world, m, "KErrCouldNotConnect"))
  /\ UNCHANGED submits

TransactionRuns(t) ==
  \/ HandlerSubmits(t) \/ ResetFails(t) \/ FilterRetries(t) \/ ClientHears(t)

ConnectionRuns(m) ==
  \/ Connected(m) \/ SecureClientCnf(m) \/ RequestComplete(m)
  \/ MakeConnectionNonPersistent(m) \/ ResponseComplete(m)
  \/ ConnectionLost(m) \/ HandleConnectError(m)

Next ==
  \/ RunL
  \/ \E t \in Trans : TransactionRuns(t) \/ ClientSubmits(t) \/ ClientCancels(t) \/ ClientCloses(t)
  \/ \E m \in Managers : ConnectionRuns(m)

Spec == Init /\ [][Next]_vars

(***************************************************************************)
(* Everything that is ready runs, and a connection with something to do    *)
(* gets on: its requests are written and answered, or it is lost.          *)
(***************************************************************************)
FairSpec ==
  /\ Spec
  /\ []<>~(Alive /\ active /\ Quiet) \/ []<><<RunL>>_vars
  /\ \A t \in Trans :
       []<>~(Alive /\ events[t] # <<>>) \/ []<><<TransactionRuns(t)>>_vars
  /\ \A m \in Managers :
       []<>~(Alive /\ Quiet /\ conn[m].responses # <<>>) \/ []<><<ConnectionRuns(m)>>_vars

-----------------------------------------------------------------------------
(* Properties *)

\* A transaction is active exactly while one manager has it, the one it knows:
\* no response is delivered to, and no error reported for, a transaction that
\* was cancelled, completed or closed (chttpclienthandler.cpp:991-1018, 1231, 1272).
OneManager ==
  \A t \in Trans, m \in Managers :
    /\ (t \in ToSet(conn[m].responses)) <=> (trans[t].manager = m)
    /\ (trans[t].manager = m) => trans[t].state = "EActive" /\ t \in ToSet(queue)

\* A transaction is submitted to a manager that is free for it, so that no
\* assertion of the handler, the transactions and the managers fails
\* (chttpclienttransaction.cpp:40, chttpconnectionmanager.cpp:86, 94, 118, 136, 836),
\* and what a connection has in its queues is all for the host it is connected to,
\* in the way the transaction asks for (chttpclienthandler.cpp:534-538).
RightConnection ==
  /\ TypeOK /\ panic = {}
  /\ \A m \in Managers : \A t \in ToSet(conn[m].responses) :
       conn[m].place = Place[t] /\ conn[m].secure = (t \in Secure)

\* Whatever is submitted is answered, or fails, unless the client takes it
\* back: it is not forgotten in the queue, and not tried again for ever.
Served == \A t \in Trans : (client[t] = "waiting") ~> (client[t] # "waiting")
=============================================================================
