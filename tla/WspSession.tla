------------------------------ MODULE WspSession ------------------------------
(***************************************************************************)
(* The WSP protocol handler: the session (CWspCOProtocolHandler over       *)
(* CProtocolHandler), its method transactions (CWspCOTransaction), what    *)
(* they send and receive (CWspCOTxData, CWspCORxData), the objects that    *)
(* send primitives later (CWspPrimitiveSender), the connection timer, and  *)
(* what the handler keeps of the proxy (CWspProxyInfoProvider).  On the    *)
(* other side of the wspinc interfaces, the provider and its gateway.      *)
(*                                                                         *)
(* A request is a header, the parts of its body and a trailer, a response  *)
(* the chunks of its SDUs; all are lengths.  Events for the client are     *)
(* told at once.  The gateway may never answer a connect.  Left out: WTLS, *)
(* pushes, exceptions, the encoding of headers, reading the communications *)
(* database, failed allocations.                                           *)
(*                                                                         *)
(* Env lists what may happen beyond a client that waits for the answer to  *)
(* what it asked.  The handler stands                                      *)
(*   "drops"      the gateway disconnects, suspends or aborts on its own   *)
(*   "redirects"  it sends the handler to another proxy                    *)
(*   "malformed"  a response cannot be decoded                             *)
(*   "newProxy"   the client changes its proxy between two sessions        *)
(* and does not stand (README, section 5)                                  *)
(*   "again"      Connect after a Disconnect that had to wait              *)
(*   "unresumed"  a new proxy after a session that was resumed             *)
(*   "resubmit"   Submit before the cancelled method has ended             *)
(*   "closeAborting"  Close while the handler aborts the method            *)
(*   "completing" the gateway aborts before it has its last answer         *)
(*   "unsent"     a session ends while a request waits for more of a body  *)
(*   "suspendResuming"  the gateway suspends instead of resuming           *)
(*   "renegotiates"  other capabilities while methods are out              *)
(***************************************************************************)
EXTENDS Integers, Sequences, FiniteSets, SequencesExt

CONSTANTS
  Trans,     \* the transactions
  Requests,  \* what they may ask: [header, body, parts, known, trailer]
  Responses, \* the answers, each the SDUs, each the lengths of its chunks
  Default,   \* the negotiated capabilities before any session
  Offers,    \* those the gateway may agree to
  Proxies,   \* the client's
  MaxActs,   \* bound: calls of the client, acts of the gateway on its own
  Env

Liberties == {"drops", "redirects", "malformed", "newProxy", "again", "unresumed", "resubmit",
              "closeAborting", "completing", "unsent", "suspendResuming", "renegotiates"}
Capabilities == [mor : Nat \ {0}, sdu : Nat, msg : Nat, ldt : BOOLEAN, resume : BOOLEAN]

\* A body comes in at least one part; an SDU has a chunk, and its last one is not empty unless all are.
ASSUME ConstantsAssumption ==
  /\ \A r \in Requests : /\ r.header \in Nat \ {0} /\ {r.body, r.known} \subseteq BOOLEAN /\ r.trailer \in Nat
                         /\ r.parts \in Seq(Nat) /\ (r.body => r.parts # <<>>)
  /\ \A sdus \in Responses :
       /\ sdus # <<>>
       /\ \A i \in DOMAIN sdus : /\ sdus[i] # <<>> /\ sdus[i] \in Seq(Nat)
                                 /\ Last(sdus[i]) = 0 => Range(sdus[i]) = {0}
                                 /\ i < Len(sdus) => Range(sdus[i]) # {0}
  /\ Default \in Capabilities /\ Offers \subseteq Capabilities
  /\ IsFiniteSet(Proxies) /\ Proxies # {} /\ "redirected" \notin Proxies
  /\ MaxActs \in Nat /\ Env \subseteq Liberties

VARIABLES
  session,   \* CWspCOProtocolHandler
  trans,     \* the CWspCOTransactions
  queue,     \* iTransactions
  gw,        \* the provider and the gateway
  client,
  panic      \* assertions that failed, and uses of what is gone

vars == <<session, trans, queue, gw, client, panic>>
world == [session |-> session, trans |-> trans, queue |-> queue, gw |-> gw, client |-> client, panic |-> panic]

Becomes(w) ==
  /\ session' = w.session /\ trans' = w.trans /\ queue' = w.queue
  /\ gw' = w.gw /\ client' = w.client /\ panic' = w.panic

Check(w, holds, name) == IF holds THEN w ELSE [w EXCEPT !.panic = @ \cup {name}]
Breach(w, holds, name) == IF holds THEN w ELSE [w EXCEPT !.gw.breach = @ \cup {name}]
Alive == panic = {}
May(liberty) == liberty \in Env
MayAct == client.acts < MaxActs
Acts(w) == [w EXCEPT !.client.acts = @ + 1]

\* TUint32 and the default buffer, smaller: what matters is that the one wraps, far from the sizes in use.
KMaxTUint32 == 2^16 - 1
KWspTxDataDefaultBufferSize == 4
U(n) == n % (KMaxTUint32 + 1)
Least(a, b) == IF a <= b THEN a ELSE b

NoTx == [state |-> "none", sdu |-> 0, msg |-> 0, limited |-> FALSE, info |-> 0, trailer |-> FALSE, head |-> 0,
         part |-> 0, done |-> FALSE, known |-> FALSE, buf |-> 0, room |-> 0, got |-> FALSE]
NoRx == [on |-> FALSE, more |-> FALSE, last |-> FALSE, got |-> FALSE]
Fresh == [state |-> "none", method |-> "ENullMethod", sender |-> "none", more |-> FALSE, sentRes |-> FALSE,
          clientAbort |-> FALSE, suicide |-> FALSE, finalRes |-> FALSE, tx |-> NoTx, rx |-> NoRx]
\* A method at the provider: what came of its request, the SDUs left and the chunks of the one delivered.
NoMethod == [state |-> "none", body |-> 0, size |-> 0, trailer |-> FALSE, sdus |-> <<>>, chunks |-> <<>>]
NoRequest == [header |-> 1, body |-> FALSE, parts |-> <<>>, known |-> TRUE, trailer |-> 0]
NotAsked == [state |-> "none", req |-> NoRequest, next |-> 1, supplying |-> FALSE, unread |-> 0]

Init ==
  /\ session = [state |-> "ENull", timer |-> FALSE, timedOut |-> FALSE, waiting |-> FALSE, asked |-> FALSE,
                completing |-> 0, sender |-> "none", self |-> FALSE, proxy |-> "none", locked |-> FALSE, caps |-> Default]
  /\ trans = [t \in Trans |-> Fresh] /\ queue = <<>>
  /\ gw = [reason |-> "none", m |-> [t \in Trans |-> NoMethod], breach |-> {}]
  /\ \E p \in Proxies : client = [session |-> "idle", proxy |-> p, t |-> [t \in Trans |-> NotAsked],
                                  forgets |-> FALSE, acts |-> 0]
  /\ panic = {}

SessionStates == {"ENull", "EConnecting", "EConnected", "ESuspending", "ESuspended", "EResuming", "EClosing"}
Primitives == {"none", "ESMethodInvokeData", "ESMethodResult", "ESMethodResultData", "ESMethodAbort"}

TypeOK ==
  /\ session.state \in SessionStates /\ session.sender \in {"none", "ESConnect", "ESDisconnect"}
  /\ session.completing \in 0 .. Cardinality(Trans) /\ session.caps \in Offers \cup {Default}
  /\ {session.timer, session.timedOut, session.waiting, session.asked, session.self, session.locked} \subseteq BOOLEAN
  /\ \A t \in Trans :
       /\ trans[t].state \in {"none", "EPending", "EActive", "ECompleted", "ECancelled", "closed"}
       /\ trans[t].method \in {"ENullMethod", "ERequesting", "EWaiting", "EWaiting2", "ECompleting", "EAborting"}
       /\ trans[t].sender \in Primitives
       /\ trans[t].tx.state \in {"none", "EIdle", "EDone", "EGotMoreData", "EWaitForMoreData", "EAbortMethod"}
       /\ {trans[t].tx.sdu, trans[t].tx.msg} \subseteq 0 .. KMaxTUint32
       /\ gw.m[t].state \in {"none", "invoked", "partial", "hungry", "waiting", "result", "lastResult",
                             "answered", "aborting"}
       /\ client.t[t].state \in {"none", "submitted", "complete", "failed", "cancelled", "closed"}
  /\ IsInjective(queue) /\ Range(queue) \subseteq Trans
  /\ client.session \in {"idle", "connecting", "connected", "disconnecting"} /\ client.acts \in 0 .. MaxActs

-----------------------------------------------------------------------------
(* CProtocolHandler                                                        *)

CompleteSelf(w) == [w EXCEPT !.session.self = TRUE]
\* Mutant: the end of an active transaction wakes nobody.
FreesSlotSilently(w, t) == w
FreesSlot(w, t) == IF w.trans[t].state = "EActive" THEN CompleteSelf(w) ELSE w

\* An outcome for the client, who is told of one only, and of none once it has closed the transaction.
Told(w, t, outcome) ==
  LET v == Check(Check(w, w.client.t[t].state # "closed", "event after Close"),
                 w.client.t[t].state \notin {"complete", "failed"}, "second outcome") IN
  IF v.client.t[t].state = "submitted" THEN [v EXCEPT !.client.t[t].state = outcome] ELSE v

TransactionFailed(w, t) ==
  IF t \notin Range(w.queue) THEN w
  ELSE [FreesSlot(w, t) EXCEPT !.trans[t].state = "ECancelled", !.trans[t].tx = NoTx, !.trans[t].rx = NoRx]

TransactionCompleted(w, t) == [FreesSlot(Told(w, t, "complete"), t) EXCEPT !.trans[t].state = "ECompleted"]

NumActiveTransactions(w) == Cardinality({t \in Range(w.queue) : w.trans[t].state = "EActive"})

-----------------------------------------------------------------------------
(* The provider (external), as the interfaces of wspinc promise            *)

\* What one primitive carries.
Carries(w, t, tx, more) ==
  LET m == w.gw.m[t]
      size == tx.head + tx.buf
      caps == w.session.caps IN
  [Breach(Breach(Breach(w, caps.sdu = 0 \/ size <= caps.sdu, "sdu"),
                 caps.msg = 0 \/ m.size + size <= caps.msg, "message"),
          ~more \/ caps.ldt, "ldt")
     EXCEPT !.gw.m[t].state = IF more THEN "partial" ELSE "invoked",
            !.gw.m[t].body = @ + tx.buf, !.gw.m[t].size = @ + size,
            !.gw.m[t].trailer = tx.head > 0 /\ m.state # "none"]

Outstanding(w) == {t \in Trans : w.gw.m[t].state \notin {"none", "aborting"}}

MethodInvokeReq(w, t, more) ==
  Carries(Breach(Breach(w, w.session.state \in {"EConnecting", "EConnected", "EResuming"}, "invoke"),
                 Cardinality(Outstanding(w)) < w.session.caps.mor, "mor"),
          t, w.trans[t].tx, more)

MethodAbortReq(w, t) == [w EXCEPT !.gw.m[t].state = "aborting"]

Responded(w, t) ==
  IF w.gw.m[t].state = "result" THEN [w EXCEPT !.gw.m[t].state = "answered"] ELSE [w EXCEPT !.gw.m[t] = NoMethod]

\* The session ends only as the client or the timer asked, and starts with the proxy the client or a redirection gave.
Wanted(w) == Breach(w, w.client.session = "disconnecting" \/ w.session.timedOut, "unasked")
RightProxy(w) == Breach(w, w.session.proxy \in {w.client.proxy, "redirected"}, "proxy")

-----------------------------------------------------------------------------
(* CWspPrimitiveSender, and the method's calls of the provider             *)

InitiateSend(w, t, primitive) == [w EXCEPT !.trans[t].sender = primitive]

\* The one primitive that goes out at once; the others of a request are sent later.
MethodInvoke(w, t, tx) ==
  LET more == tx.state # "EDone" \/ tx.trailer
      v == MethodInvokeReq(Check(w, tx.got, "KWspPanicNoRequestDataReceived"), t, more) IN
  [v EXCEPT !.trans[t].method = "ERequesting", !.trans[t].more = more,
            !.trans[t].tx.got = FALSE, !.trans[t].tx.buf = 0]

MethodInvokeData(w, t, tx) ==
  LET more == tx.state # "EDone" \/ tx.trailer
      v == Check(Check(w, w.session.caps.ldt, "KWspPanicLDTNotSuppoted"),
                 w.trans[t].method = "ERequesting" /\ tx.got, "KWspPanicNotExpectingMoreRequestData") IN
  [Carries(v, t, tx, more) EXCEPT !.trans[t].more = more, !.trans[t].tx.got = FALSE, !.trans[t].tx.buf = 0]

\* Mutant: a primitive that is still to be sent is not cancelled.
MethodAbortStillSends(w, t) ==
  LET v == Check(w, w.trans[t].method \notin {"EAborting", "ENullMethod"}, "KWspPanicBadMethodState") IN
  [MethodAbortReq(v, t) EXCEPT !.trans[t].method = "EAborting"]

MethodAbort(w, t) ==
  LET v == Check(w, w.trans[t].method \notin {"EAborting", "ENullMethod"}, "KWspPanicBadMethodState") IN
  [MethodAbortReq(v, t) EXCEPT !.trans[t].sender = "none", !.trans[t].method = "EAborting"]

SendInvokePrimitive(w, t) ==
  IF w.trans[t].method = "ENullMethod" THEN MethodInvoke(w, t, w.trans[t].tx)
  ELSE InitiateSend(Check(w, w.trans[t].method = "ERequesting", "KWspPanicBadMethodState"), t, "ESMethodInvokeData")

AbortInvoke(w, t) ==
  IF w.trans[t].method = "ENullMethod" THEN TransactionFailed(Told(w, t, "failed"), t)
  ELSE InitiateSend(Check(w, w.trans[t].method = "ERequesting", "KWspPanicBadMethodState"), t, "ESMethodAbort")

-----------------------------------------------------------------------------
(* CWspCOTxData                                                            *)

Total(r) == FoldLeft(+, 0, r.parts)
SDUSpace(caps) == IF caps.sdu = 0 THEN KMaxTUint32 ELSE caps.sdu

\* The first SDU and the message once the header is in; the trailer is counted in a limited message only.
WithHeader(caps, r) ==
  [NoTx EXCEPT !.state = "EIdle", !.sdu = U(SDUSpace(caps) - r.header), !.limited = caps.msg # 0,
               !.msg = IF caps.msg # 0 THEN U(caps.msg - r.header) ELSE 0,
               !.trailer = r.trailer > 0, !.info = IF caps.msg # 0 THEN r.trailer ELSE 0, !.head = r.header]

RequestTooBig(caps, r, tx) ==
  \/ r.header > SDUSpace(caps)
  \/ r.trailer > 0 /\ (~caps.ldt \/ (tx.limited /\ tx.info > tx.msg))
  \/ r.body /\ tx.limited /\ (IF r.known THEN Total(r) ELSE r.parts[1]) + tx.info > tx.msg

BufferFor(length) == (length \div KWspTxDataDefaultBufferSize + 1) * KWspTxDataDefaultBufferSize

WithBody(caps, r, tx) ==
  LET single == Len(r.parts) = 1
      known == r.known \/ (tx.limited /\ single) IN
  [tx EXCEPT !.part = r.parts[1], !.done = single, !.known = known,
             !.room = IF caps.sdu # 0 THEN caps.sdu ELSE IF known THEN Total(r) ELSE BufferFor(r.parts[1])]

UpdateState(tx) ==
  [tx EXCEPT !.state = IF tx.done THEN IF tx.part = 0 THEN "EDone" ELSE "EGotMoreData"
                       ELSE IF tx.sdu = 0 THEN "EGotMoreData" ELSE "EWaitForMoreData"]

Copied(tx) ==
  LET n == Least(tx.part, tx.sdu) IN
  UpdateState([tx EXCEPT !.buf = @ + n, !.part = @ - n, !.sdu = @ - n,
                         !.msg = IF tx.limited THEN U(@ - n) ELSE @])

\* The client takes a part back, and if it was not the last will say when it has the next.
SupplierReleases(w, t) ==
  IF w.client.t[t].next = Len(w.client.t[t].req.parts) THEN w
  ELSE [w EXCEPT !.client.t[t].next = @ + 1, !.client.t[t].supplying = TRUE]

Filled(w, t, tx) ==
  LET v == Check(w, tx.buf <= tx.room, "iBodyData overflows") IN
  IF tx.state = "EWaitForMoreData" THEN SupplierReleases([v EXCEPT !.trans[t].tx = tx], t)
  ELSE [v EXCEPT !.trans[t].tx = [tx EXCEPT !.got = TRUE]]

UpdateBodyData(w, t, tx) == Filled(Check(w, ~tx.got, "KWspPanicTxDataInInvalidState"), t, Copied(tx))

\* Mutant: a trailer that fits is taken for sent, and put in no SDU.
CheckTrailerForgets(tx, r) ==
  IF ~tx.limited \/ tx.info <= tx.sdu THEN [tx EXCEPT !.trailer = FALSE]
  ELSE IF U(tx.msg - tx.sdu) < tx.info THEN [tx EXCEPT !.state = "EAbortMethod"] ELSE tx

CheckTrailer(tx, r) ==
  IF ~tx.limited \/ tx.info <= tx.sdu THEN [tx EXCEPT !.trailer = FALSE, !.head = r.trailer]
  ELSE IF U(tx.msg - tx.sdu) < tx.info THEN [tx EXCEPT !.state = "EAbortMethod"] ELSE tx

DecideObserverAction(w, t, tx) ==
  IF tx.state = "EAbortMethod" THEN AbortInvoke(w, t)
  ELSE IF tx.state = "EWaitForMoreData" THEN w
  ELSE SendInvokePrimitive(IF tx.limited THEN [w EXCEPT !.trans[t].tx.msg = U(@ - tx.sdu)] ELSE w, t)

\* With the trailer looked at: it may go with the last of the body, but never in the first SDU.
SentOn(w, t, tx, checked) ==
  LET next == IF tx.state = "EDone" /\ tx.trailer THEN checked ELSE tx IN
  DecideObserverAction([w EXCEPT !.trans[t].tx = next], t, next)

SetRequestData(w, t, r, tx) ==
  IF r.body
  THEN LET v == UpdateBodyData(w, t, WithBody(w.session.caps, r, tx)) IN DecideObserverAction(v, t, v.trans[t].tx)
  ELSE LET ready == [tx EXCEPT !.done = TRUE, !.got = TRUE, !.state = "EDone"] IN
       DecideObserverAction([w EXCEPT !.trans[t].tx = ready], t, ready)

Later(w, t, r, tx) == SentOn(w, t, tx, CheckTrailer(tx, r))

FirstStill(tx) == IF tx.limited /\ U(tx.msg - tx.sdu) < tx.info THEN [tx EXCEPT !.state = "EAbortMethod"] ELSE tx

\* The body has grown by the part the client now has.
Grown(w, t, r, tx) ==
  LET v == UpdateBodyData(w, t, tx)
      now == v.trans[t].tx IN
  IF now.head = 0 THEN Later(v, t, r, now) ELSE SentOn(v, t, now, FirstStill(now))

NotifyMoreRequestData(w, t) ==
  LET c == w.client.t[t]
      size == c.req.parts[c.next]
      tx == [w.trans[t].tx EXCEPT !.part = size, !.done = c.next = Len(c.req.parts)]
      room == IF ~tx.known /\ w.session.caps.sdu = 0 /\ size + tx.buf > tx.room THEN BufferFor(size + tx.buf)
              ELSE tx.room
      v == Check(Check(w, w.trans[t].method \in {"ENullMethod", "ERequesting"}, "KWspPanicBadMethodState"),
                 tx.state = "EWaitForMoreData", "KWspPanicTxDataInInvalidState") IN
  IF ~tx.known /\ tx.limited /\ size + tx.info > tx.msg THEN AbortInvoke(v, t)
  ELSE Grown(v, t, c.req, [tx EXCEPT !.room = room])

\* The SDU that went out is confirmed: the next one starts, in what the message has left.
NextSDU(caps, tx) ==
  [tx EXCEPT !.head = 0, !.sdu = IF tx.limited THEN Least(SDUSpace(caps), tx.msg) ELSE SDUSpace(caps)]

ReceivedCnf(w, t, tx) ==
  LET v == Check(w, tx.state \in {"EDone", "EGotMoreData"}, "KWspPanicTxDataInInvalidState") IN
  IF tx.state = "EDone" /\ ~tx.trailer
  THEN IF w.client.t[t].req.body THEN SupplierReleases(v, t) ELSE v
  ELSE LET u == UpdateBodyData(v, t, NextSDU(w.session.caps, tx)) IN
       Later(u, t, w.client.t[t].req, u.trans[t].tx)
-----------------------------------------------------------------------------
(* CWspCOTransaction: results, aborts and the end                          *)

\* Mutant: the disconnect that waits for the last answer is forgotten.
NotifyMethodCompleteOnly(w) == [w EXCEPT !.session.completing = @ - 1]

NotifyMethodComplete(w) ==
  LET left == w.session.completing - 1 IN
  [w EXCEPT !.session.completing = left,
            !.session.sender = IF left = 0 /\ w.session.asked THEN "ESDisconnect" ELSE @]

\* A transaction that was closed deletes itself.
Ended(w, t) == IF w.trans[t].suicide THEN [w EXCEPT !.trans[t] = [Fresh EXCEPT !.state = "closed"]] ELSE w

PostResProcessing(w, t) ==
  IF w.trans[t].method = "ECompleting"
  THEN LET v == Check(w, w.trans[t].finalRes, "KWspPanicBadMethodState") IN
       Ended(NotifyMethodComplete([v EXCEPT !.trans[t].method = "ENullMethod", !.trans[t].finalRes = FALSE]), t)
  ELSE Check(w, w.trans[t].method = "EWaiting2", "KWspPanicBadMethodState")

MethodResultRes(w, t) == PostResProcessing([Responded(w, t) EXCEPT !.trans[t].sentRes = TRUE], t)
MethodResultDataRes(w, t) == PostResProcessing(Responded(w, t), t)

SendResponsePrimitive(w, t) ==
  LET final == w.trans[t].method = "ECompleting"
      v == IF final THEN [w EXCEPT !.session.completing = @ + 1] ELSE w IN
  InitiateSend([v EXCEPT !.trans[t].finalRes = final], t,
               IF w.trans[t].sentRes THEN "ESMethodResultData" ELSE "ESMethodResult")

AbortRequest(w, t) ==
  IF w.trans[t].method \in {"ENullMethod", "EAborting"} \/ w.trans[t].finalRes THEN w
  ELSE MethodAbort([w EXCEPT !.trans[t].clientAbort = TRUE], t)

Suicide(w, t) ==
  IF w.trans[t].method = "EAborting" \/ w.trans[t].finalRes THEN [w EXCEPT !.trans[t].suicide = TRUE]
  ELSE Ended([Check(w, w.trans[t].method = "ENullMethod", "KWspPanicBadMethodState") EXCEPT !.trans[t].suicide = TRUE], t)

MethodCnf(w, t) ==
  LET v == ReceivedCnf(Check(w, w.trans[t].method = "ERequesting", "KWspPanicBadMethodState"), t, w.trans[t].tx) IN
  IF v.trans[t].more THEN v ELSE [v EXCEPT !.trans[t].tx = NoTx, !.trans[t].method = "EWaiting"]

\* The client is told unless it was the client that aborted.
HandleMethodAbort(w, t) == IF w.trans[t].clientAbort THEN w ELSE TransactionFailed(Told(w, t, "failed"), t)

MethodAbortInd(w, t) ==
  LET v == Check(w, w.trans[t].method # "ENullMethod", "KWspPanicBadMethodState")
      final == [v EXCEPT !.trans[t].sender = "none", !.trans[t].finalRes = FALSE, !.gw.m[t] = NoMethod,
                         !.client.t[t].supplying = FALSE, !.client.t[t].unread = 0]
      u == HandleMethodAbort(IF w.trans[t].finalRes THEN NotifyMethodComplete(final) ELSE final, t) IN
  Ended([u EXCEPT !.trans[t].method = "ENullMethod"], t)

-----------------------------------------------------------------------------
(* CWspCORxData                                                            *)

AbortResponse(w, t) == InitiateSend(w, t, "ESMethodAbort")

ResponseComplete(w, t) == TransactionCompleted(w, t)

\* What is left of an SDU without the empty chunks it starts with; the last one stays.
Skipped(chunks) ==
  LET full == {i \in DOMAIN chunks : chunks[i] # 0} IN
  SubSeq(chunks, IF full = {} THEN Len(chunks) ELSE CHOOSE i \in full : \A j \in full : i <= j, Len(chunks))

\* An SDU without data is an error, unless it is the last one.
UpdateRx(w, t, chunks) ==
  IF chunks[1] = 0
  THEN LET v == [w EXCEPT !.gw.m[t].chunks = <<>>] IN
       IF w.trans[t].rx.more THEN AbortResponse(v, t) ELSE SendResponsePrimitive(v, t)
  ELSE [w EXCEPT !.gw.m[t].chunks = chunks, !.trans[t].rx.last = Len(chunks) = 1, !.trans[t].rx.got = TRUE]

UpdateBodyDataL(w, t) ==
  UpdateRx(Check(w, ~w.trans[t].rx.got, "KWspPanicResponseDataNotReleased"), t, Skipped(w.gw.m[t].chunks))

\* SetResponseDataL, UpdateResponseDataL
Received(w, t) ==
  LET v == UpdateBodyDataL(w, t) IN
  IF ~v.trans[t].rx.more /\ ~v.trans[t].rx.got THEN ResponseComplete(v, t) ELSE v

Delivered(w, t, more) ==
  [w EXCEPT !.trans[t].method = IF more THEN "EWaiting2" ELSE "ECompleting",
            !.trans[t].rx.on = TRUE, !.trans[t].rx.more = more,
            !.gw.m[t].state = IF more THEN "result" ELSE "lastResult",
            !.gw.m[t].chunks = Head(w.gw.m[t].sdus), !.gw.m[t].sdus = Tail(@)]

ReleaseData(w, t) ==
  LET v == [Check(w, w.trans[t].rx.got, "KWspPanicNoResponseDataReceived")
              EXCEPT !.gw.m[t].chunks = Tail(@), !.trans[t].rx.got = FALSE, !.client.t[t].unread = @ - 1] IN
  IF ~w.trans[t].rx.last THEN UpdateBodyDataL(v, t)
  ELSE IF w.trans[t].rx.more THEN SendResponsePrimitive(v, t) ELSE ResponseComplete(SendResponsePrimitive(v, t), t)
-----------------------------------------------------------------------------
(* CWspCOProtocolHandler, CWspProxyInfoProvider                            *)

\* A client that has asked to be disconnected waits for that.
SessionTold(w, event) ==
  [w EXCEPT !.client.session = IF event = "connected" /\ @ = "disconnecting" THEN @ ELSE event]
StartTimer(w) == [Check(w, ~w.session.timer, "CTimer::After") EXCEPT !.session.timer = TRUE]
CheckWaitingMethod(w) == IF w.session.waiting THEN [CompleteSelf(w) EXCEPT !.session.waiting = FALSE] ELSE w

\* A redirection locks the proxy for the one connect that follows.
UpdateProxyInfo(w) ==
  IF w.session.locked THEN [w EXCEPT !.session.locked = FALSE] ELSE [w EXCEPT !.session.proxy = w.client.proxy]
ProxyInfoUpdated(w) == [w EXCEPT !.session.proxy = w.client.proxy, !.session.locked = TRUE]

SessionConnect(w) ==
  LET v == RightProxy(UpdateProxyInfo(Check(w, w.session.state = "ENull", "KWspPanicSessionNotInValidState"))) IN
  CheckWaitingMethod([StartTimer(v) EXCEPT !.session.state = "EConnecting"])

\* With methods that still have to send their last answer, once they have.
SessionDisconnect(w, reason) ==
  LET v == Check(w, w.session.state \notin {"ENull", "EClosing"}, "KWspPanicSessionNotInValidState") IN
  IF w.session.completing > 0 THEN [v EXCEPT !.session.asked = TRUE]
  ELSE [v EXCEPT !.session.timer = FALSE, !.session.state = "EClosing", !.gw.reason = reason]

SessionSuspend(w) ==
  LET v == Check(w, w.session.caps.resume /\ w.session.state \in {"EConnected", "EResuming"},
                 "KWspPanicSessionNotInValidState") IN
  IF w.session.completing > 0 THEN [v EXCEPT !.session.asked = TRUE]
  ELSE [v EXCEPT !.session.timer = FALSE, !.session.state = "ESuspending"]

SessionResume(w) ==
  LET v == ProxyInfoUpdated(Check(w, w.session.caps.resume, "KWspPanicSessionNotInValidState")) IN
  IF w.session.proxy # w.client.proxy THEN SessionDisconnect(v, "EChangedProxyInSuspendedSession")
  ELSE CheckWaitingMethod([StartTimer(v) EXCEPT !.session.state = "EResuming"])

HandleConnectRequest(w) ==
  CASE w.session.state = "ENull" -> SessionConnect(w)
    [] w.session.state \in {"ESuspended", "ESuspending"} -> SessionResume(w)
    [] w.session.state = "EConnected" -> SessionTold(w, "connected")
    [] OTHER -> w

\* Suspended rather than disconnected, where the gateway agreed to that.
HandleDisconnectRequest(w) ==
  CASE w.session.state \in {"ENull", "ESuspended"} -> SessionTold(w, "idle")
    [] w.session.state = "EConnecting" -> SessionDisconnect(Wanted(w), "EUserReq")
    [] w.session.state = "EResuming" -> SessionSuspend(Wanted(w))
    [] w.session.state = "EConnected" -> IF w.session.caps.resume THEN SessionSuspend(Wanted(w))
                                         ELSE SessionDisconnect(Wanted(w), "EUserReq")
    [] OTHER -> w

SessionConnected(w) == [SessionTold(w, "connected") EXCEPT !.session.timer = FALSE, !.session.state = "EConnected"]

NoMethods(w) == Check(w, NumActiveTransactions(w) = 0, "KWspPanicMethodsStillOutstanding")
Disconnected(w) == [NoMethods(w) EXCEPT !.session.timer = FALSE, !.session.state = "ENull"]
ConnectsAgain(w) == [w EXCEPT !.session.sender = "ESConnect"]

DisconnectInd(w, reason) ==
  CASE reason = "EUserReq" -> SessionTold([Disconnected(w) EXCEPT !.session.timedOut = FALSE], "idle")
    [] reason = "EChangedProxyInSuspendedSession" -> ConnectsAgain(Disconnected(w))
    [] OTHER -> SessionTold(Disconnected(w), "idle")

\* A permanent redirection also changes the client's proxy.
Redirected(w, permanent) ==
  ConnectsAgain([Disconnected(w) EXCEPT !.session.proxy = "redirected", !.session.locked = TRUE,
                                        !.client.proxy = IF permanent THEN "redirected" ELSE @])

SuspendInd(w) ==
  [SessionTold(NoMethods(w), "idle") EXCEPT !.session.timedOut = FALSE, !.session.state = "ESuspended"]

-----------------------------------------------------------------------------
(* CProtocolHandler: submissions, and the scan that services them          *)

HandleCancelTransaction(w, t) == AbortRequest([FreesSlot(w, t) EXCEPT !.trans[t].state = "ECancelled"], t)

HandleClosedTransaction(w, t) ==
  LET v == [FreesSlot(w, t) EXCEPT !.queue = SelectSeq(@, LAMBDA u : u # t)] IN Suicide(AbortRequest(v, t), t)

\* Mutant: the number of methods that may be outstanding is not looked at.
VerdictUnlimited(w, r, tx) ==
  CASE w.session.state \in {"EClosing", "ESuspending"} -> "leaves"
    [] w.session.state \in {"ENull", "ESuspended"} -> "not now"
    [] OTHER -> IF RequestTooBig(w.session.caps, r, tx) THEN "leaves" ELSE "serviced"

\* What ServiceL answers for a transaction: "leaves", "not now" or "serviced".
Verdict(w, r, tx) ==
  CASE w.session.state \in {"EClosing", "ESuspending"} -> "leaves"
    [] w.session.state \in {"ENull", "ESuspended"} \/ NumActiveTransactions(w) = w.session.caps.mor -> "not now"
    [] OTHER -> IF RequestTooBig(w.session.caps, r, tx) THEN "leaves" ELSE "serviced"

InitRequest(w, t) ==
  LET v == Check(Check(w, w.trans[t].tx.state = "none", "KWspPanicTxDataObjectNotReset"),
                 w.trans[t].method = "ENullMethod", "KWspPanicMethodAlreadyActive")
      r == w.client.t[t].req IN
  SetRequestData([v EXCEPT !.trans[t].more = FALSE, !.trans[t].sentRes = FALSE, !.trans[t].clientAbort = FALSE,
                           !.trans[t].suicide = FALSE, !.trans[t].finalRes = FALSE],
                 t, r, WithHeader(w.session.caps, r))

Pends(w, t) == w.trans[t].state = "EPending"

\* A leave ends the scan: those behind it are looked at again only when something else completes the handler.
RunError(w, t, behind) ==
  HandleCancelTransaction([Told(w, t, "failed") EXCEPT !.client.forgets = @ \/ \E u \in behind : Pends(w, u)], t)

ServiceL(w, t, verdict, behind) ==
  CASE verdict = "leaves" -> RunError(w, t, behind)
    [] verdict = "serviced" -> [InitRequest(w, t) EXCEPT !.trans[t].state = "EActive"]
    [] OTHER -> IF w.session.state \in {"ENull", "ESuspended"} THEN [w EXCEPT !.session.waiting = TRUE] ELSE w

Scan(w, i, left) ==
  IF left \/ ~Pends(w, w.queue[i]) THEN [w |-> w, left |-> left]
  ELSE LET t == w.queue[i]
           verdict == Verdict(w, w.client.t[t].req, WithHeader(w.session.caps, w.client.t[t].req)) IN
       [w |-> ServiceL(w, t, verdict, {w.queue[j] : j \in i + 1 .. Len(w.queue)}), left |-> verdict = "leaves"]

RunL(w) == FoldLeft(LAMBDA acc, i : Scan(acc.w, i, acc.left), [w |-> w, left |-> FALSE],
                    [i \in 1 .. Len(w.queue) |-> i]).w

-----------------------------------------------------------------------------
(* What runs: the senders before the handler, the provider at any time     *)

NoSender == session.sender = "none" /\ \A t \in Trans : trans[t].sender = "none"

SessionSends ==
  /\ Alive /\ session.sender # "none"
  /\ LET w == [world EXCEPT !.session.sender = "none"] IN
     Becomes(IF session.sender = "ESConnect" THEN SessionConnect(w) ELSE HandleDisconnectRequest(w))

\* SendPrimitiveL of the transaction
TransactionSends(t) ==
  /\ Alive /\ session.sender = "none" /\ trans[t].sender # "none"
  /\ LET w == [world EXCEPT !.trans[t].sender = "none"] IN
     Becomes(CASE trans[t].sender = "ESMethodInvokeData" -> MethodInvokeData(w, t, trans[t].tx)
               [] trans[t].sender = "ESMethodResult" -> MethodResultRes(w, t)
               [] trans[t].sender = "ESMethodResultData" -> MethodResultDataRes(w, t)
               [] OTHER -> MethodAbort(w, t))

HandlerRuns ==
  /\ Alive /\ session.self /\ NoSender
  /\ Becomes(RunL([world EXCEPT !.session.self = FALSE]))

TimesOut ==
  /\ Alive /\ session.timer
  /\ Becomes(HandleDisconnectRequest([world EXCEPT !.session.timer = FALSE, !.session.timedOut = TRUE]))

ConnectCnf ==
  /\ Alive /\ session.state = "EConnecting"
  /\ \E caps \in IF Outstanding(world) = {} \/ May("renegotiates") THEN Offers ELSE {session.caps} :
       Becomes(SessionConnected([world EXCEPT !.session.caps = caps]))

ResumeCnf == Alive /\ session.state = "EResuming" /\ Becomes(SessionConnected(world))

\* Before a session ends its methods are aborted.
AllAborted(w) ==
  FoldLeft(LAMBDA v, t : IF v.gw.m[t].state = "none" THEN v ELSE MethodAbortInd(v, t), w, SetToSeq(Trans))

LastAnswersIn == May("completing") \/ \A t \in Trans : ~trans[t].finalRes

EndsAsAsked ==
  /\ Alive /\ session.state \in {"EClosing", "ESuspending"} /\ LastAnswersIn
  /\ Becomes(IF session.state = "EClosing" THEN DisconnectInd(AllAborted(world), gw.reason)
             ELSE SuspendInd(AllAborted(world)))

\* A request of several parts that is not at the gateway yet.
InParts(r) == Len(r.parts) > 1
Unsent == \E t \in Trans : /\ trans[t].state \in {"EPending", "EActive"} /\ trans[t].method = "ENullMethod"
                           /\ InParts(client.t[t].req)
MayEnd == LastAnswersIn /\ (Unsent => May("unsent"))

Drops ==
  /\ Alive /\ MayAct /\ May("drops") /\ MayEnd
  /\ session.state \in {"EConnecting", "EConnected", "EResuming", "ESuspended"}
  /\ Becomes(DisconnectInd(AllAborted(Acts(world)), "EPeerReq"))

DropsIntoSuspended ==
  /\ Alive /\ MayAct /\ May("drops") /\ MayEnd /\ session.caps.resume
  /\ session.state = "EConnected" \/ (session.state = "EResuming" /\ May("suspendResuming"))
  /\ Becomes(SuspendInd(AllAborted(Acts(world))))

Redirects ==
  /\ Alive /\ MayAct /\ May("redirects") /\ session.state = "EConnecting" /\ LastAnswersIn
  /\ \E permanent \in BOOLEAN : Becomes(Redirected(AllAborted(Acts(world)), permanent))

AbortsMethod(t) ==
  /\ Alive /\ MayAct /\ May("drops") /\ session.state = "EConnected"
  /\ gw.m[t].state \notin {"none", "aborting"} /\ (trans[t].finalRes => May("completing"))
  /\ Becomes(MethodAbortInd(Acts(world), t))

ConfirmsAbort(t) == Alive /\ gw.m[t].state = "aborting" /\ Becomes(MethodAbortInd(world, t))

Chunks(sdus) == Len(SelectSeq(FlattenSeq(sdus), LAMBDA n : n > 0))

Confirms(t) ==
  /\ Alive /\ session.state = "EConnected" /\ gw.m[t].state = "partial"
  /\ Becomes(MethodCnf([world EXCEPT !.gw.m[t].state = "hungry"], t))

\* With the last confirmation the response is on its way; in several SDUs only with large data transfer.
ConfirmsLast(t) ==
  /\ Alive /\ session.state = "EConnected" /\ gw.m[t].state = "invoked"
  /\ \E sdus \in {s \in Responses : session.caps.ldt \/ Len(s) = 1} :
       Becomes(MethodCnf([world EXCEPT !.gw.m[t].state = "waiting", !.gw.m[t].sdus = sdus,
                                       !.client.t[t].unread = Chunks(sdus)], t))

Results(t) ==
  /\ Alive /\ session.state = "EConnected" /\ gw.m[t].state \in {"waiting", "answered"}
  /\ LET first == gw.m[t].state = "waiting"
         v == Check(Check(world, trans[t].method = IF first THEN "EWaiting" ELSE "EWaiting2", "KWspPanicBadMethodState"),
                    first = ~trans[t].rx.on, "KWspPanicRxDataObjectNotReset")
         w == Delivered(v, t, Len(gw.m[t].sdus) > 1) IN
     \/ Becomes(Received(w, t))
     \/ May("malformed") /\ Becomes(AbortResponse(w, t))

-----------------------------------------------------------------------------
(* The client                                                              *)

Connect ==
  /\ Alive /\ MayAct /\ session.sender = "none"
  /\ client.session = "idle" \/ (client.session = "disconnecting" /\ session.state # "EClosing")
  /\ session.asked => May("again")
  /\ Becomes(HandleConnectRequest(SessionTold(Acts(world), "connecting")))

Disconnect ==
  /\ Alive /\ MayAct /\ session.sender = "none" /\ client.session \in {"connecting", "connected"}
  /\ Unsent => May("unsent")
  /\ Becomes(HandleDisconnectRequest(SessionTold(Acts(world), "disconnecting")))

NewProxy ==
  /\ Alive /\ MayAct /\ May("newProxy") /\ client.session = "idle" /\ session.state \in {"ENull", "ESuspended"}
  /\ session.locked => May("unresumed")
  /\ \E p \in Proxies \ {client.proxy} : Becomes([Acts(world) EXCEPT !.client.proxy = p])

Asked(w, t, r) ==
  [CompleteSelf(w) EXCEPT !.client.t[t] = [NotAsked EXCEPT !.state = "submitted", !.req = r],
                          !.trans[t].state = "EPending", !.trans[t].tx = NoTx, !.trans[t].rx = NoRx]

MaySubmit(r) == InParts(r) => May("unsent") \/ client.session = "connected"

Submit(t) ==
  /\ Alive /\ MayAct /\ client.t[t].state = "none"
  /\ \E r \in Requests : MaySubmit(r) /\ Becomes([Asked(Acts(world), t, r) EXCEPT !.queue = Append(@, t)])

\* SubmitTransactionL takes only cancelled ones again.
Resubmit(t) ==
  /\ Alive /\ MayAct /\ client.t[t].state \in {"failed", "cancelled"} /\ trans[t].state = "ECancelled"
  /\ MaySubmit(client.t[t].req) /\ (trans[t].method # "ENullMethod" => May("resubmit"))
  /\ Becomes(Asked(Acts(world), t, client.t[t].req))

Supplies(t) ==
  /\ Alive /\ client.t[t].supplying /\ client.t[t].state = "submitted"
  /\ Becomes(NotifyMoreRequestData([world EXCEPT !.client.t[t].supplying = FALSE], t))

Reads(t) == Alive /\ trans[t].rx.got /\ client.t[t].state = "submitted" /\ Becomes(ReleaseData(world, t))

Cancel(t) ==
  /\ Alive /\ MayAct /\ client.t[t].state = "submitted"
  /\ Becomes(HandleCancelTransaction([Acts(world) EXCEPT !.client.t[t].state = "cancelled",
                                                         !.client.t[t].supplying = FALSE], t))

Close(t) ==
  /\ Alive /\ MayAct /\ client.t[t].state \notin {"none", "closed"}
  /\ trans[t].method = "EAborting" /\ ~trans[t].clientAbort => May("closeAborting")
  /\ Becomes(HandleClosedTransaction([Acts(world) EXCEPT !.client.t[t] = [NotAsked EXCEPT !.state = "closed"]], t))

-----------------------------------------------------------------------------

Provider == \/ EndsAsAsked
            \/ \E t \in Trans : ConfirmsAbort(t) \/ Confirms(t) \/ ConfirmsLast(t) \/ Results(t)
Runs == SessionSends \/ HandlerRuns \/ TimesOut \/ \E t \in Trans : TransactionSends(t)
Goes == \E t \in Trans : Supplies(t) \/ Reads(t)
Progress == Provider \/ Runs \/ Goes

Next ==
  \/ Progress \/ ConnectCnf \/ ResumeCnf \/ Drops \/ DropsIntoSuspended \/ Redirects \/ Connect \/ Disconnect \/ NewProxy
  \/ \E t \in Trans : AbortsMethod(t) \/ Submit(t) \/ Resubmit(t) \/ Cancel(t) \/ Close(t)

Spec == Init /\ [][Next]_vars
\* What is ready to run, what the provider owes, and the client's next part or chunk.
Pending ==
  \/ ~NoSender \/ session.self \/ session.timer \/ session.state \in {"EClosing", "ESuspending"}
  \/ \E t \in Trans : \/ gw.m[t].state = "aborting"
                      \/ session.state = "EConnected" /\ gw.m[t].state \in {"invoked", "partial", "waiting", "answered"}
                      \/ client.t[t].state = "submitted" /\ (client.t[t].supplying \/ trans[t].rx.got)

\* The scheduler runs what is ready, the timer ends a connect nobody answers, the provider confirms and ends what
\* it was asked to, the client reads on.
Fairness == []<>~Pending \/ []<><<Progress>>_vars
FairSpec == Spec /\ Fairness

-----------------------------------------------------------------------------
(* Properties                                                              *)

\* What is sent keeps to what was negotiated: outstanding methods, the sizes of an SDU and of a message, large data
\* transfer; methods are invoked only in a session; a session ends only when the client or the timer asked, and uses
\* the client's proxy or the one it was redirected to (MWspCOMethodInvoker.h, CWspCOTxData.cpp, CWspProxyInfoProvider.cpp).
\* And no assertion of the handler fails, no buffer of a request overflows, and the client hears one outcome of what it
\* submitted and nothing after Close, with methods aborted, answered and closed in any order (CWspCOTransaction.cpp
\* MethodAbortInd, Suicide; CWspCOProtocolHandler.cpp DisconnectInd).
Contract == TypeOK /\ panic = {} /\ gw.breach = {}

\* A gateway that has a whole request has all of its body and its trailer, and a client that is told of the end of
\* the response has read all of it (CWspCOTxData::UpdateBodyData, CheckTrailer; CWspCORxData::ReleaseData).
WholeTransfer ==
  \A t \in Trans :
    /\ t \in Range(queue) /\ gw.m[t].state \in {"waiting", "result", "answered", "lastResult"} =>
         /\ gw.m[t].body = (IF client.t[t].req.body THEN Total(client.t[t].req) ELSE 0)
         /\ gw.m[t].trailer = (client.t[t].req.trailer > 0)
    /\ client.t[t].state = "complete" => client.t[t].unread = 0

\* Whom an active method waits for when nothing runs.
WaitsForSomeone(t) ==
  CASE trans[t].method = "ENullMethod" -> client.t[t].supplying
    [] trans[t].method = "ERequesting" -> client.t[t].supplying \/ gw.m[t].state \in {"invoked", "partial"}
    [] trans[t].method = "EWaiting" -> gw.m[t].state = "waiting"
    [] trans[t].method = "EWaiting2" -> trans[t].rx.got \/ gw.m[t].state = "answered"
    [] trans[t].method = "ECompleting" -> trans[t].rx.got
    [] OTHER -> gw.m[t].state = "aborting"

\* Why a submitted transaction is not looked at yet.
Waits ==
  \/ session.state \in {"EConnecting", "EConnected", "EResuming"} /\ NumActiveTransactions(world) = session.caps.mor
  \/ session.state \in {"ENull", "ESuspended", "EClosing"} /\ session.waiting
  \/ session.state \in {"EClosing", "ESuspending"} /\ NumActiveTransactions(world) > 0

\* When no active object is ready, every active method waits for the gateway or for the client, and no submission is
\* forgotten while a method could be invoked (CProtocolHandler.cpp RunL, CompleteSelf; CheckWaitingMethod), unless a
\* scan was given up (README, section 5).
Awake ==
  NoSender /\ ~session.self /\ Alive =>
    /\ \A t \in Range(queue) : trans[t].state = "EActive" => WaitsForSomeone(t)
    /\ client.forgets \/ Waits \/ ~\E t \in Range(queue) : Pends(world, t)

\* What the client submits comes to an outcome, unless the session ends first; a connect and a disconnect, too,
\* though the gateway may not answer and the disconnect may wait for methods to complete
\* (CWspCOProtocolHandler.cpp NotifyMethodComplete, HandleConnectionTimedOut).
Answered ==
  /\ \A t \in Trans : client.t[t].state = "submitted" ~>
                        (client.t[t].state # "submitted" \/ client.session = "idle" \/ client.forgets)
  /\ client.session \in {"connecting", "disconnecting"} ~> client.session \in {"idle", "connected"}
=============================================================================
