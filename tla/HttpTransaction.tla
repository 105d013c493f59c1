-------------------------- MODULE HttpTransaction --------------------------
(***************************************************************************)
(* CTransaction and the blocking state of CHTTPSession: the events of the  *)
(* transactions of a session, on their way through the chain of filters.   *)
(*                                                                         *)
(* Each transaction is an active object.  One run of its RunL offers the   *)
(* event at the head of its queue to one filter; ECancel, EClosed and the  *)
(* two events of a failure are sent synchronously, through all filters, in *)
(* the call that asks for them.  A filter's code calls back: it sends      *)
(* events, cancels, closes, leaves, or starts a nested active scheduler    *)
(* out of which every other active object may run.                         *)
(*                                                                         *)
(* The program has one thread.  `stack' holds its calls that are inside a  *)
(* filter or between two filters of a synchronous event; only the topmost  *)
(* call goes on, and whatever code runs between two visits of filters is   *)
(* one action.                                                             *)
(***************************************************************************)
EXTENDS Integers, Sequences, FiniteSets

CONSTANTS
  Tx,                 \* the transactions of the session
  Client,             \* iFilterQueue's last filter; 0 is the protocol handler
  Registered,         \* the events each filter is registered for
  MaxSends,           \* bound: the events sent, synchronous ones aside
  MaxDepth,           \* bound: calls inside one another
  Env                 \* what filters and client may do, see below

(***************************************************************************)
(* Env is the set of liberties of the filters and of the client:           *)
(*  "cancel"       they cancel transactions, from anywhere                 *)
(*  "close"        the client closes transactions, from anywhere but out   *)
(*                 of its callback for the failure the protocol handler    *)
(*                 has reported                                            *)
(*  "closeFailed"  it does so there, too                                   *)
(*  "nest"         a filter starts a nested active scheduler               *)
(*  "leave"        a filter leaves; its MHFRunError may use the            *)
(*                 transaction                                             *)
(*  "regret"       it does so after the transaction has been cancelled     *)
(*  "fail"         the protocol handler fails transactions                 *)
(*  "cipher"       the client asks for the cipher suite while there are    *)
(*                 outstanding events                                      *)
(* No filter sends ESuspend or EResume, none leaves or starts a scheduler  *)
(* in a synchronous event, and filters are neither added nor removed.      *)
(***************************************************************************)
Liberties == {"cancel", "close", "closeFailed", "nest", "leave", "regret", "fail", "cipher"}

Filters  == 0 .. Client
Outgoing == {"ESubmit", "ECancel", "EClosed", "EGetCipherSuite"}
Incoming == {"EGotResponseHeaders", "ESucceeded", "EUnrecoverableError", "EFailed"}
Events   == Outgoing \cup Incoming

ASSUME ConstantsAssumption ==
  /\ Client \in Nat \ {0}
  /\ Registered \in [Filters -> SUBSET Events]
  /\ Registered[0] = Events /\ Registered[Client] = Events
  /\ MaxSends \in Nat /\ MaxDepth \in Nat
  /\ Env \subseteq Liberties

VARIABLES
  tr,         \* the members of each transaction
  blocking,   \* iBlockingState of the session
  stack,      \* the calls that have not returned
  panic,      \* assertions that have failed
  sends       \* events sent, for the bound

vars == <<tr, blocking, stack, panic, sends>>
world == [tr |-> tr, blocking |-> blocking, stack |-> stack, panic |-> panic, sends |-> sends]

\* Standard values of THTTPFilterHandle.
EClient == -1
EProtocolHandler == -2
ECurrentFilter == -3
Handles == {EClient, EProtocolHandler, ECurrentFilter}

\* KErrCancel and the like never show: iStatus holds one of these.
States   == {"EPassive", "EFilter", "EInFilter", "EExiting", "EBlocked", "ECancelled"}
Blocking == {"ENormal", "EShouldBlock", "EHasBlocked"}

\* TEventRegistration.  `seen' is the history of its visits; an event has
\* visited no filter twice, so the sequences are short.
Direction(ev) == IF ev \in Outgoing THEN "out" ELSE "in"
Event == [ev : Events, start : Filters, seen : Seq(Filters)]
NoEvent == [ev |-> "ESubmit", start |-> 0, seen |-> <<>>]

\* "closed": removed from the session and its request and response deleted,
\* the object itself waits in EExiting; "deleted": it is gone.
Lives == {"open", "closed", "deleted"}

Transaction ==
  [status : States, active : BOOLEAN, queue : Seq(Event),
   sync : BOOLEAN, syncEvent : Event,     \* iProcessingSyncEvent, iCurrentSyncEvent
   next : Int, current : Filters,         \* iNextFilter, iCurrentFilter
   asyncFilter : Filters,                 \* iCurrentASyncFilter
   life : Lives,
   atHandler : BOOLEAN,                   \* the protocol handler has it
   cipher : BOOLEAN]                      \* the cipher suite is a property of it

\* "run": RunL has called MHFRunL; "error": RunError has called MHFRunError.
AsyncFrame == [kind : {"run", "error"}, t : Tx, f : Filters, nested : BOOLEAN]
\* A call of SynchronousSendEvent for `op', with its local variables.
SyncFrame ==
  [kind : {"sync"}, t : Tx, f : Filters, nested : BOOLEAN,
   turn : {"first", "in", "next"}, op : {"cancel", "close", "fail", "cipher"},
   ev : Events, handle : Handles, stored : Event, s : States, remembered : Filters, saved : States]

Assertions == {"AO already active", "no event", "EInvalidFilterHandle", "ETransactionUnhandledError"}

TypeOK ==
  /\ tr \in [Tx -> Transaction]
  /\ blocking \in Blocking
  /\ stack \in Seq(AsyncFrame \cup SyncFrame)
  /\ panic \subseteq Assertions
  /\ sends \in 0 .. MaxSends

NewTransaction ==
  [status |-> "EPassive", active |-> FALSE, queue |-> <<>>, sync |-> FALSE,
   syncEvent |-> NoEvent, next |-> 0, current |-> 0, asyncFilter |-> 0, life |-> "open",
   atHandler |-> FALSE, cipher |-> FALSE]

Init ==
  /\ tr = [t \in Tx |-> NewTransaction]
  /\ blocking = "ENormal"
  /\ stack = <<>>
  /\ panic = {}
  /\ sends = 0

-----------------------------------------------------------------------------
(* The chain of filters *)

Step(ev, f) == IF Direction(ev) = "out" THEN f - 1 ELSE f + 1
Beyond(ev, f, g) == IF Direction(ev) = "out" THEN g <= f ELSE g >= f

\* The filters from f on that want the event, and the first of them.
Onward(ev, f) == {g \in Filters : Beyond(ev, f, g) /\ ev \in Registered[g]}
First(ev, f) == CHOOSE g \in Onward(ev, f) : \A h \in Onward(ev, f) : Beyond(ev, g, h)

\* The filters an event is for: those after the one it starts at.
Path(e) == Onward(e.ev, Step(e.ev, e.start))

\* CurrentEvent and, behind it, the events that RemoveEvent would uncover: the
\* end of a synchronous event uncovers the queue.
EventList(r) == IF r.sync THEN <<r.syncEvent>> \o r.queue ELSE r.queue
EventAvailable(r) == EventList(r) # <<>>

\* FindFilterForThisEvent: where the k-th event of the list goes on from, those
\* that have a filter to go to, and the first of them.
Position(r, k) ==
  LET e == EventList(r)[k]
  IN  IF k = 1 /\ r.status # "EPassive" THEN Step(e.ev, r.next) ELSE Step(e.ev, e.start)
Wanted(r) == {k \in DOMAIN EventList(r) : Onward(EventList(r)[k].ev, Position(r, k)) # {}}
FirstWanted(r) == CHOOSE k \in Wanted(r) : \A j \in Wanted(r) : k <= j

\* FindNextFilter: the next filter of the current event, or the first one of the
\* next event that has any; the events before are removed.
FindNextFilter(r) ==
  LET events == EventList(r)
      n == Len(events)
      k0 == FirstWanted(r)
  IN  CASE n = 0 -> [r EXCEPT !.status = "EPassive"]
        [] n > 0 /\ Wanted(r) = {} ->
             [r EXCEPT !.status = "EPassive", !.sync = FALSE, !.queue = <<>>,
                       !.next = IF Direction(events[n].ev) = "out" THEN -1 ELSE Client + 1]
        [] OTHER ->
             [r EXCEPT !.status = "EFilter", !.sync = r.sync /\ k0 = 1,
                       !.queue = IF r.sync /\ k0 = 1 THEN r.queue
                                 ELSE SubSeq(r.queue, IF r.sync THEN k0 - 1 ELSE k0, Len(r.queue)),
                       !.next = First(events[k0].ev, Position(r, k0))]

-----------------------------------------------------------------------------
(* Operations from world to world *)

Panics(w, p) == [w EXCEPT !.panic = @ \cup {p}]
Top(w) == w.stack[Len(w.stack)]
Push(w, frame) == [w EXCEPT !.stack = Append(@, frame)]
Pop(w) == [w EXCEPT !.stack = SubSeq(@, 1, Len(@) - 1)]
Turned(w, turn) == [w EXCEPT !.stack[Len(w.stack)].turn = turn]

\* Activate(FindNextFilter()).
ActivateNext(w, t) ==
  LET r == FindNextFilter(w.tr[t])
  IN  CASE r.status = "EPassive" -> [w EXCEPT !.tr[t] = r]
        [] r.status # "EPassive" /\ r.active -> Panics(w, "AO already active")
        [] OTHER -> [w EXCEPT !.tr[t] = [r EXCEPT !.active = TRUE]]

\* Mutant: nobody who has blocked is woken.
UnblockWakesNobody(w) == [w EXCEPT !.blocking = "ENormal"]

\* CHTTPSession::Block, TransactionHasBlocked and Unblock, and for those who
\* have blocked CTransaction::Unblock.
Block(w) == [w EXCEPT !.blocking = "EShouldBlock"]
TransactionHasBlocked(w) == [w EXCEPT !.blocking = "EHasBlocked"]
Unblock(w) ==
  LET woken == IF w.blocking = "EHasBlocked"
               THEN {t \in Tx : w.tr[t].life = "open" /\ w.tr[t].status = "EBlocked"}
               ELSE {}
      w1 == [w EXCEPT !.blocking = "ENormal",
                      !.tr = [t \in Tx |-> IF t \in woken
                                THEN [w.tr[t] EXCEPT !.status = "EFilter", !.active = TRUE]
                                ELSE w.tr[t]]]
  IN  IF \E t \in woken : w.tr[t].active THEN Panics(w1, "AO already active") ELSE w1

\* RunOneFilterL up to the call of MHFRunL, and what the protocol handler notes.
EnterFilter(r) ==
  LET e == EventList(r)[1]
      visited == [e EXCEPT !.seen = Append(@, r.next)]
      r1 == [r EXCEPT !.current = r.next, !.status = "EInFilter",
                      !.asyncFilter = IF r.sync THEN @ ELSE r.next,
                      !.atHandler = IF r.next # 0 THEN @
                                    ELSE IF e.ev = "ESubmit" THEN TRUE
                                    ELSE @ /\ e.ev \notin {"ECancel", "EClosed"},
                      !.cipher = @ \/ (r.next = 0 /\ e.ev = "EGetCipherSuite")]
  IN  IF r.sync THEN [r1 EXCEPT !.syncEvent = visited] ELSE [r1 EXCEPT !.queue[1] = visited]

\* Mutant: a cancelled transaction goes on where it was.
LeaveFilterGoesOn(r) == IF r.status \in {"EInFilter", "ECancelled"}
                        THEN [r EXCEPT !.status = "EFilter"] ELSE r

\* RunOneFilterL after it.
LeaveFilter(r) ==
  CASE r.status = "EInFilter"  -> [r EXCEPT !.status = "EFilter"]
    [] r.status = "ECancelled" -> [r EXCEPT !.status = "EPassive"]
    [] OTHER -> r

\* AddEvent's choice of the filter an event starts at.
StartFilter(r, handle) ==
  CASE handle = EClient -> Client
    [] handle = EProtocolHandler -> 0
    [] OTHER -> r.current
ValidHandle(r, handle) ==
  handle = ECurrentFilter => r.status \in {"EInFilter", "ECancelled"}

\* AppendEvent: a synchronous event has a slot for one.
AppendEvent(r, e) ==
  IF r.sync THEN [r EXCEPT !.syncEvent = e] ELSE [r EXCEPT !.queue = Append(@, e)]

\* SendEvent.
SendEvent(w, t, ev, handle) ==
  LET r == w.tr[t]
      e == [ev |-> ev, start |-> StartFilter(r, handle), seen |-> <<>>]
      w1 == [w EXCEPT !.tr[t] = AppendEvent(r, e), !.sends = @ + 1]
  IN  CASE ~ValidHandle(r, handle) -> Panics(w, "EInvalidFilterHandle")
        [] ValidHandle(r, handle) /\ r.status = "EPassive" -> ActivateNext(w1, t)
        [] OTHER -> w1

\* Mutant: the status is not reset, so the event starts where the last one was.
SynchronousSendEventStale(w, t, op, ev, handle, saved) ==
  LET r == w.tr[t]
      e == [ev |-> ev, start |-> StartFilter(r, handle), seen |-> <<>>]
      frame == [kind |-> "sync", t |-> t, f |-> 0, nested |-> FALSE, turn |-> "first",
                op |-> op, ev |-> ev, handle |-> handle, stored |-> r.syncEvent, s |-> r.status,
                remembered |-> r.current, saved |-> saved]
  IN  Push([w EXCEPT !.tr[t] = [r EXCEPT !.sync = TRUE, !.syncEvent = e]], frame)

\* SynchronousSendEvent up to its loop.
SynchronousSendEvent(w, t, op, ev, handle, saved) ==
  LET r == w.tr[t]
      e == [ev |-> ev, start |-> StartFilter(r, handle), seen |-> <<>>]
      frame == [kind |-> "sync", t |-> t, f |-> 0, nested |-> FALSE, turn |-> "first",
                op |-> op, ev |-> ev, handle |-> handle, stored |-> r.syncEvent, s |-> r.status,
                remembered |-> r.current, saved |-> saved]
  IN  IF ValidHandle(r, handle)
      THEN Push([w EXCEPT !.tr[t] = [r EXCEPT !.sync = TRUE, !.syncEvent = e,
                                              !.status = "EPassive"]], frame)
      ELSE Panics(w, "EInvalidFilterHandle")

\* Mutant: the active object is not cancelled.
CancelTransactionStaysActive(w, t, op, handle) ==
  SynchronousSendEvent([w EXCEPT !.tr[t].queue = <<>>], t, op, "ECancel", handle, "EPassive")

\* CancelTransaction up to the synchronous event, as part of `op'.
CancelTransaction(w, t, op, handle) ==
  SynchronousSendEvent([w EXCEPT !.tr[t] = [@ EXCEPT !.queue = <<>>, !.active = FALSE]],
                       t, op, "ECancel", handle, "EPassive")

\* Mutant: outside of a filter the state is kept.
CancelledKeepsState(r) ==
  [r EXCEPT !.status = IF @ \in {"EInFilter", "ECancelled"} THEN "ECancelled" ELSE @]

\* The end of CancelTransaction.
Cancelled(r) ==
  [r EXCEPT !.status = IF @ \in {"EInFilter", "ECancelled"} THEN "ECancelled" ELSE "EPassive"]

\* Mutant: the transaction deletes itself under the filter that has closed it.
ClosedAtOnce(r, status) == [r EXCEPT !.active = FALSE, !.status = status, !.life = "deleted"]

\* The end of Close: a transaction that is in a filter is deleted by the code
\* that called the filter.
Closed(r, status) ==
  [r EXCEPT !.active = FALSE,
            !.status = IF status = "ECancelled" THEN "EExiting" ELSE status,
            !.life = IF status = "ECancelled" THEN "closed" ELSE "deleted"]

Delete(w, t) == [w EXCEPT !.tr[t] = [@ EXCEPT !.status = "EPassive", !.life = "deleted",
                                              !.active = FALSE]]

\* What follows a synchronous event in the operation that sent it.
Continue(w, t, frame) ==
  LET r == w.tr[t] IN
  CASE frame.op = "cancel" -> [w EXCEPT !.tr[t] = Cancelled(r)]
    [] frame.op = "close" /\ frame.ev = "ECancel" ->
         SynchronousSendEvent([w EXCEPT !.tr[t] = Cancelled(r)], t, "close", "EClosed",
                              EClient, Cancelled(r).status)
    [] frame.op = "close" /\ frame.ev = "EClosed" -> [w EXCEPT !.tr[t] = Closed(r, frame.saved)]
    [] frame.op = "fail" /\ frame.ev = "ECancel" ->
         SynchronousSendEvent([w EXCEPT !.tr[t] = Cancelled(r)], t, "fail",
                              "EUnrecoverableError", frame.handle, "EPassive")
    [] frame.op = "fail" /\ frame.ev = "EUnrecoverableError" /\ r.status # "EExiting" ->
         SynchronousSendEvent(w, t, "fail", "EFailed", frame.handle, "EPassive")
    [] OTHER -> w

-----------------------------------------------------------------------------
(* Who can act *)

Alive == panic = {}
Become(w) == /\ tr' = w.tr /\ blocking' = w.blocking
             /\ stack' = w.stack /\ panic' = w.panic /\ sends' = w.sends

\* The active scheduler waits: the outermost one, or a nested one.
Scheduling == IF stack = <<>> THEN TRUE ELSE Top(world).nested
\* Filter code runs; by InFilter(t) it is a filter of t.
FilterRuns == /\ stack # <<>> /\ ~Top(world).nested
              /\ Top(world).kind = "sync" => Top(world).turn = "in"
InFilter(t) == FilterRuns /\ Top(world).t = t
InAsyncFilter(t) == InFilter(t) /\ Top(world).kind \in {"run", "error"}
ClientRuns == Scheduling \/ (FilterRuns /\ Top(world).f = Client)
HasCall(t) == \E i \in DOMAIN stack : stack[i].t = t
Closing(t) == \E i \in DOMAIN stack : stack[i].t = t /\ stack[i].kind = "sync" /\ stack[i].op = "close"
Open(t) == tr[t].life = "open" /\ ~Closing(t)
MaySend(t) == Open(t) /\ sends < MaxSends
InRun(t) == \E i \in DOMAIN stack : stack[i].t = t /\ stack[i].kind # "sync"
MayCall == Len(stack) < MaxDepth
\* After it has been cancelled in its RunL, a transaction whose filter leaves is
\* not used in MHFRunError.
NoRegret(t) == "regret" \in Env \/ tr[t].status # "ECancelled"
               \/ \A i \in DOMAIN stack : stack[i].t = t => stack[i].kind # "error"

-----------------------------------------------------------------------------
(* The active scheduler and the returns of filters *)

RunReady(t) == Alive /\ Scheduling /\ tr[t].active /\ (MayCall \/ blocking # "ENormal")
ReturnReady(kind) == Alive /\ FilterRuns /\ Top(world).kind = kind
NextReady == /\ Alive /\ stack # <<>> /\ ~Top(world).nested
             /\ Top(world).kind = "sync" /\ Top(world).turn # "in"
StopReady == Alive /\ stack # <<>> /\ Top(world).nested

\* Mutant: nobody asks whether the session blocks.
RunLAnyway(t) ==
  LET r == [tr[t] EXCEPT !.active = FALSE]
      w == [world EXCEPT !.tr[t] = r]
      frame == [kind |-> "run", t |-> t, f |-> r.next, nested |-> FALSE]
  IN  /\ RunReady(t)
      /\ Become(IF EventAvailable(r)
                THEN Push(Block([w EXCEPT !.tr[t] = EnterFilter(r)]), frame)
                ELSE Panics(w, "no event"))

\* RunL: a transaction that runs out of another one's nested scheduler blocks.
RunL(t) ==
  LET r == [tr[t] EXCEPT !.active = FALSE]
      w == [world EXCEPT !.tr[t] = r]
      frame == [kind |-> "run", t |-> t, f |-> r.next, nested |-> FALSE]
  IN  /\ RunReady(t)
      /\ Become(CASE ~EventAvailable(r) -> Panics(w, "no event")
                 [] EventAvailable(r) /\ blocking # "ENormal" ->
                      TransactionHasBlocked([w EXCEPT !.tr[t].status = "EBlocked"])
                 [] OTHER -> Push(Block([w EXCEPT !.tr[t] = EnterFilter(r)]), frame))

\* MHFRunL returns to RunOneFilterL, and that to RunL.
FilterReturns ==
  LET t == Top(world).t
      r == LeaveFilter(tr[t])
      w == Unblock(Pop([world EXCEPT !.tr[t] = r]))
  IN  /\ ReturnReady("run")
      /\ Become(CASE r.status = "EExiting" -> Delete(w, t)
                 [] tr[t].status \in {"EInFilter", "ECancelled"} -> ActivateNext(w, t)
                 [] OTHER -> w)

\* MHFRunL returns to RunOneFilterL, and that to SynchronousSendEvent.
SyncFilterReturns ==
  LET t == Top(world).t IN
  /\ ReturnReady("sync")
  /\ Become(Turned([world EXCEPT !.tr[t] = LeaveFilter(@)], "next"))

\* One turn of SynchronousSendEvent's loop, or its end and what follows it.
NextSyncFilter ==
  LET frame == Top(world)
      t == frame.t
      r == IF frame.turn = "first" \/ tr[t].status \notin {"EPassive", "EExiting"}
           THEN FindNextFilter(tr[t]) ELSE tr[t]
      ended == [r EXCEPT !.current = frame.remembered, !.sync = FALSE, !.syncEvent = frame.stored,
                         !.status = IF @ = "EExiting" THEN @ ELSE frame.s]
      entered == [world EXCEPT !.tr[t] = EnterFilter(r), !.stack[Len(stack)].f = r.next]
  IN  /\ NextReady
      /\ Become(IF r.status \in {"EPassive", "EExiting"}
                THEN Continue(Pop([world EXCEPT !.tr[t] = ended]), t, frame)
                ELSE Turned(entered, "in"))

\* MHFRunL leaves: RunError offers the error to the filter that left.
FilterLeaves ==
  LET t == Top(world).t
      r == tr[t]
      w == Unblock(Pop(world))
      handler == IF r.sync THEN r.next ELSE r.asyncFilter
  IN  /\ ReturnReady("run") /\ "leave" \in Env
      /\ r.status = "ECancelled" => "regret" \in Env
      /\ Become(CASE r.status \in {"EInFilter", "ECancelled"} ->
                        [world EXCEPT !.stack[Len(stack)] = [@ EXCEPT !.kind = "error", !.f = handler]]
                 [] r.status = "EExiting" -> Delete(w, t)
                 [] OTHER -> Panics(world, "ETransactionUnhandledError"))

\* MHFRunError returns to RunError.
ErrorReturns ==
  LET t == Top(world).t
      w == IF tr[t].status = "EExiting" THEN Pop(world) ELSE ActivateNext(Pop(world), t)
      w1 == IF tr[t].sync THEN w ELSE Unblock(w)
  IN  /\ ReturnReady("error")
      /\ Become(IF tr[t].status = "EExiting" THEN Delete(w1, t) ELSE w1)

\* A filter's code starts a nested active scheduler, and stops it.
StartScheduler ==
  /\ ReturnReady("run") /\ "nest" \in Env
  /\ Become([world EXCEPT !.stack[Len(stack)].nested = TRUE])
StopScheduler ==
  /\ StopReady
  /\ Become([world EXCEPT !.stack[Len(stack)].nested = FALSE])

-----------------------------------------------------------------------------
(* What client, filters and protocol handler ask for: RHTTPTransaction *)

\* The client submits, out of its callback or from elsewhere.
ClientSubmits(t) ==
  /\ Alive /\ ClientRuns /\ MaySend(t) /\ ~tr[t].atHandler /\ NoRegret(t)
  /\ Become(SendEvent(world, t, "ESubmit", EClient))

\* The protocol handler tells of the response when it has the transaction.
HandlerSends(t) ==
  \E ev \in {"EGotResponseHeaders", "ESucceeded"} :
    /\ Alive /\ Scheduling /\ MaySend(t) /\ tr[t].atHandler
    /\ Become(SendEvent(world, t, ev, EProtocolHandler))

\* A filter sends an event on, out of its MHFRunL or MHFRunError.
FilterSends(t) ==
  \E ev \in {"ESubmit", "ESucceeded"} :
    /\ Alive /\ InAsyncFilter(t) /\ MaySend(t) /\ NoRegret(t)
    /\ Become(SendEvent(world, t, ev, ECurrentFilter))

\* RHTTPTransaction::Cancel: nothing while a synchronous event is on its way.
Cancel(t) ==
  /\ Alive /\ "cancel" \in Env /\ Open(t) /\ MayCall /\ ~tr[t].sync
  /\ \/ ClientRuns /\ Become(CancelTransaction(world, t, "cancel", EClient))
     \/ InAsyncFilter(t) /\ Become(CancelTransaction(world, t, "cancel", ECurrentFilter))

\* RHTTPTransaction::Close by the client.
Close(t) ==
  /\ Alive /\ "close" \in Env /\ Open(t) /\ MayCall /\ ClientRuns
  /\ "closeFailed" \in Env \/ ~HasCall(t) \/ InRun(t)
  /\ ~(tr[t].sync /\ tr[t].syncEvent.ev = "EClosed")
  /\ Become(CancelTransaction(world, t, "close", EClient))

\* RHTTPTransaction::Fail: by a filter that has left, out of its MHFRunError, or
\* by the protocol handler.
Fail(t) ==
  /\ Alive /\ Open(t) /\ MayCall /\ ~tr[t].sync
  /\ \/ /\ InFilter(t) /\ Top(world).kind = "error" /\ NoRegret(t)
        /\ Become(CancelTransaction(world, t, "fail", ECurrentFilter))
     \/ /\ Scheduling /\ "fail" \in Env /\ tr[t].atHandler
        /\ Become(CancelTransaction(world, t, "fail", EProtocolHandler))

\* CTransaction::CipherSuite, until the protocol handler has set the property.
CipherSuite(t) ==
  /\ Alive /\ Open(t) /\ MayCall /\ ClientRuns /\ tr[t].atHandler /\ ~tr[t].cipher
  /\ "cipher" \in Env \/ EventList(tr[t]) = <<>>
  /\ Become(SynchronousSendEvent(world, t, "cipher", "EGetCipherSuite", EClient, "EPassive"))

Calls(t) == \/ ClientSubmits(t) \/ HandlerSends(t) \/ FilterSends(t)
            \/ Cancel(t) \/ Close(t) \/ Fail(t) \/ CipherSuite(t)

Next ==
  \/ \E t \in Tx : RunL(t) \/ Calls(t)
  \/ FilterReturns \/ SyncFilterReturns \/ NextSyncFilter \/ FilterLeaves \/ ErrorReturns
  \/ StartScheduler \/ StopScheduler

Spec == Init /\ [][Next]_vars

\* The active scheduler runs what is ready, filters return and stop the schedulers
\* they started, and nobody calls for ever.
Ready ==
  \/ \E t \in Tx : RunReady(t)
  \/ \E kind \in {"run", "error", "sync"} : ReturnReady(kind)
  \/ NextReady \/ StopReady
Progress ==
  \/ \E t \in Tx : RunL(t)
  \/ FilterReturns \/ ErrorReturns \/ SyncFilterReturns \/ NextSyncFilter \/ StopScheduler
Fairness == /\ []<>~Ready \/ []<><<Progress>>_vars
            /\ <>[][~StartScheduler /\ ~\E t \in Tx : Calls(t)]_vars
FairSpec == Spec /\ Fairness

-----------------------------------------------------------------------------
(* Properties *)

\* No assertion fails and nothing loses its type: no active object is activated twice
\* or runs without an event, and no handle of a filter is used outside of it.
NoPanic == TypeOK /\ panic = {}

\* The events of a transaction reach its filters in order: each event has been
\* offered to the filters on its path one by one, none twice and none skipped,
\* and an event waits until those before it in the queue are done.
Visited(e) == {e.seen[i] : i \in DOMAIN e.seen}
InOrder ==
  \A t \in Tx : LET q == tr[t].queue IN
    \A k \in DOMAIN q :
      /\ k > 1 => q[k].seen = <<>>
      /\ \A i, j \in DOMAIN q[k].seen : i < j => q[k].seen[i] # q[k].seen[j]
                                               /\ Beyond(q[k].ev, q[k].seen[i], q[k].seen[j])
      /\ q[k].seen # <<>> =>
           Visited(q[k]) = Path(q[k]) \ Onward(q[k].ev, Step(q[k].ev, q[k].seen[Len(q[k].seen)]))

\* An event that is not cancelled goes through its whole path: the queue loses it
\* only then, and a synchronous event has ended only then, or with the transaction.
Complete ==
  [][LET n == Len(stack) IN
       /\ Len(stack') <= n =>
            \A t \in Tx : \A k \in 1 .. Len(tr[t].queue) - Len(tr'[t].queue) :
              Visited(tr[t].queue[k]) = Path(tr[t].queue[k])
       /\ stack # <<>> /\ Top(world).kind = "sync" /\ tr'[Top(world).t].status # "EExiting" =>
            \/ n \in DOMAIN stack' /\ stack'[n].kind = "sync" /\ stack'[n].ev = Top(world).ev
            \/ LET e == tr[Top(world).t].syncEvent IN Visited(e) = Path(e)]_vars

\* Only one transaction's RunL is inside a filter, the session blocks the others exactly
\* then, and no event is forgotten: a transaction with events in its queue is going to
\* run, waits for the one that runs, or is in a filter itself; it is active only with
\* an event.
Awake ==
  LET runs == {i \in DOMAIN stack : stack[i].kind \in {"run", "error"}} IN
  /\ Cardinality(runs) <= 1
  /\ (blocking # "ENormal") <=> (runs # {})
  /\ (\E t \in Tx : tr[t].status = "EBlocked") => blocking = "EHasBlocked"
  /\ \A t \in Tx : tr[t].life = "open" =>
       /\ tr[t].active <=> (tr[t].status = "EFilter" /\ ~HasCall(t))
       /\ tr[t].active => tr[t].queue # <<>>
       /\ tr[t].queue # <<>> => tr[t].active \/ tr[t].status = "EBlocked" \/ HasCall(t)

\* A transaction that was closed inside a filter is there until the filter has
\* returned, and no longer; and the protocol handler, which refers to those it has
\* been given until ECancel or EClosed, has none that is closed.  Nothing panics.
Lifetimes ==
  /\ NoPanic
  /\ \A t \in Tx : /\ tr[t].life = "closed" => HasCall(t)
                   /\ HasCall(t) => tr[t].life # "deleted"
                   /\ tr[t].life # "open" => ~tr[t].atHandler

\* Each event is delivered in the end, or cancelled.
Delivered == \A t \in Tx : (tr[t].queue # <<>> /\ tr[t].life = "open")
                           ~> (tr[t].queue = <<>> \/ tr[t].life # "open" \/ ~Alive)
=============================================================================
