------------------- MODULE HttpTransactionOrderProofs -------------------
(***************************************************************************)
(* The order of a transaction's events, for any number of transactions,    *)
(* any chain of filters and any bounds: each goes through the filters on   *)
(* its path one after the other, and leaves the queue at the end of it.    *)
(***************************************************************************)
EXTENDS HttpTransactionProofs

\* What is left out beside what Careful leaves out: a filter cancels a transaction,
\* leaves, and uses it again in its MHFRunError.
Tidy == Careful /\ "regret" \notin Env

-----------------------------------------------------------------------------
(* What is known of an event, of a transaction, and of one whose filter left *)

\* Where an event goes on from: after its last filter, or after its start.
Rest(e) == Step(e.ev, IF e.seen = <<>> THEN e.start ELSE e.seen[Len(e.seen)])

\* It has been to the filters of its path before that, one after the other.
InLine(e) ==
  /\ \A i, j \in DOMAIN e.seen : i < j => e.seen[i] # e.seen[j] /\ Beyond(e.ev, e.seen[i], e.seen[j])
  /\ Visited(e) = Path(e) \ Onward(e.ev, Rest(e))

\* The event at the head of the queue is in the filter the transaction is in, or is
\* going to the next one on its path; no other has been anywhere.
Queued(r) ==
  r.queue # <<>> =>
    LET e == r.queue[1] IN
    /\ InLine(e)
    /\ \A k \in DOMAIN r.queue : k > 1 => r.queue[k].seen = <<>>
    /\ r.status \in {"EFilter", "EBlocked"} => Onward(e.ev, Rest(e)) # {} /\ r.next = First(e.ev, Rest(e))
    /\ r.status = "EInFilter" => Rest(e) = Step(e.ev, r.next)
    /\ r.status \notin {"EFilter", "EBlocked", "EInFilter"} => e.seen = <<>>

\* A synchronous event has not been anywhere, or goes on after the last filter.
Sent(r) ==
  r.sync => LET e == r.syncEvent IN
            /\ InLine(e)
            /\ IF r.status = "EPassive" THEN e.seen = <<>> ELSE Rest(e) = Step(e.ev, r.next)

\* RunError would offer the first event after a cancellation in the middle of its path.
Regretless(T, s) ==
  s # <<>> /\ s[1].kind = "error" /\ T[s[1].t].status = "ECancelled" => T[s[1].t].queue = <<>>

Orderly(T, s) == (\A t \in Tx : Queued(T[t]) /\ Sent(T[t])) /\ Regretless(T, s)
OInv == IInv /\ Orderly(tr, stack)

\* The events that leave the queue from r to q have been to the whole of their path.
Passed(r, q) == \A k \in 1 .. Len(r.queue) - Len(q.queue) : Visited(r.queue[k]) = Path(r.queue[k])

-----------------------------------------------------------------------------
(* Events *)

\* An event that has been nowhere.
LEMMA FreshIs ==
  ASSUME NEW e, e.seen = <<>>
  PROVE  InLine(e) /\ Rest(e) = Step(e.ev, e.start)
<1>1. Rest(e) = Step(e.ev, e.start)  BY DEF Rest
<1>2. Visited(e) = {}  BY DEF Visited
<1>3. Path(e) \ Onward(e.ev, Rest(e)) = {}  BY <1>1 DEF Path
<1>4. DOMAIN e.seen = {}  OBVIOUS
<1> QED BY <1>1, <1>2, <1>3, <1>4 DEF InLine

\* The filter an event goes on from is one of the chain.
LEMMA RestIs ==
  ASSUME NEW e \in Event
  PROVE  \E f \in Filters : Rest(e) = Step(e.ev, f) /\ (e.seen = <<>> => f = e.start)
                            /\ (e.seen # <<>> => f = e.seen[Len(e.seen)] /\ Len(e.seen) \in DOMAIN e.seen)
<1>1. e.start \in Filters /\ e.seen \in Seq(Filters)  BY EventFields
<1>2. e.seen # <<>> => e.seen[Len(e.seen)] \in Filters /\ Len(e.seen) \in DOMAIN e.seen  BY <1>1
<1> QED BY <1>1, <1>2 DEF Rest

\* An event visits the next filter on its path.
LEMMA VisitInLine ==
  ASSUME NEW e \in Event, InLine(e), NEW n, Onward(e.ev, Rest(e)) # {}, n = First(e.ev, Rest(e))
  PROVE  InLine(Visit(e, n)) /\ Rest(Visit(e, n)) = Step(e.ev, n)
<1> DEFINE v == Visit(e, n)
           z == Append(e.seen, n)
<1>1. PICK f \in Filters : Rest(e) = Step(e.ev, f) /\ (e.seen = <<>> => f = e.start)
                            /\ (e.seen # <<>> => f = e.seen[Len(e.seen)] /\ Len(e.seen) \in DOMAIN e.seen)
  BY RestIs
<1>2. e.start \in Filters /\ e.seen \in Seq(Filters) /\ e.ev \in Events  BY EventFields
<1>3. \A g : g \in Filters <=> g \in Int /\ 0 <= g /\ g <= Client  BY ChainEnds
<1>4. f \in Int /\ e.start \in Int /\ Rest(e) \in Int  BY <1>1, <1>2, <1>3 DEF Step
<1>5. n \in Onward(e.ev, Rest(e)) /\ \A h \in Onward(e.ev, Rest(e)) : Beyond(e.ev, n, h)  BY <1>4, FirstOnward
<1>6. n \in Filters /\ n \in Int /\ Beyond(e.ev, Rest(e), n)  BY <1>3, <1>5 DEF Onward
<1>7. v \in Event /\ v.ev = e.ev /\ v.start = e.start  BY <1>6, VisitTyped
<1>8. v.seen = z
  <2>1. v = [e EXCEPT !.seen = z]  BY DEF Visit
  <2> HIDE DEF z
  <2> QED BY <2>1 DEF Event
<1>9. /\ z \in Seq(Filters) /\ Len(z) = Len(e.seen) + 1 /\ z # <<>> /\ z[Len(z)] = n /\ DOMAIN z = 1 .. Len(e.seen) + 1
      /\ DOMAIN e.seen = 1 .. Len(e.seen) /\ Len(e.seen) \in Nat
      /\ \A i \in DOMAIN e.seen : z[i] = e.seen[i] /\ e.seen[i] \in Filters
  BY <1>2, <1>6
<1> HIDE DEF v, z
<1>10. Rest(v) = Step(e.ev, n)  BY <1>7, <1>8, <1>9 DEF Rest
<1>11. Visited(v) = Visited(e) \cup {n}
  <2>1. \A y : y \in Visited(v) <=> \E i \in DOMAIN z : y = z[i]  BY <1>8 DEF Visited
  <2>2. \A y : y \in Visited(e) <=> \E i \in DOMAIN e.seen : y = e.seen[i]  BY DEF Visited
  <2>3. \A i : i \in DOMAIN z <=> i \in DOMAIN e.seen \/ i = Len(z)  BY <1>9
  <2>4. \A y : y \in Visited(v) <=> y \in Visited(e) \/ y = n  BY <1>9, <2>1, <2>2, <2>3
  <2> QED BY <2>4
<1>12. Beyond(e.ev, Step(e.ev, e.start), n)
  <2>1. CASE e.seen = <<>>  BY <1>1, <1>6, <2>1
  <2>2. CASE e.seen # <<>>
    <3>1. f \in Visited(e)  BY <1>1, <2>2 DEF Visited
    <3>2. f \in Path(e)  BY <3>1 DEF InLine
    <3>3. Beyond(e.ev, Step(e.ev, e.start), f)  BY <3>2 DEF Path, Onward
    <3> QED BY <1>1, <1>4, <1>6, <3>3 DEF Beyond, Step
  <2> QED BY <2>1, <2>2
<1>13. Onward(e.ev, Step(e.ev, n)) = Onward(e.ev, Rest(e)) \ {n}
  <2>1. \A h \in Filters : Beyond(e.ev, Step(e.ev, n), h) => Beyond(e.ev, Rest(e), h) /\ h # n
    BY <1>3, <1>4, <1>6 DEF Beyond, Step
  <2>2. \A h \in Filters : Beyond(e.ev, n, h) /\ h # n => Beyond(e.ev, Step(e.ev, n), h)
    BY <1>3, <1>6 DEF Beyond, Step
  <2> QED BY <1>5, <2>1, <2>2 DEF Onward
<1>14. n \in Path(e)  BY <1>5, <1>12 DEF Path, Onward
<1>15. Path(v) = Path(e)  BY <1>7 DEF Path
<1>16. Visited(v) = Path(v) \ Onward(v.ev, Rest(v))
  <2>1. Visited(e) = Path(e) \ Onward(e.ev, Rest(e))  BY DEF InLine
  <2> QED BY <1>7, <1>10, <1>11, <1>13, <1>14, <1>15, <2>1
<1>17. ASSUME NEW i \in DOMAIN v.seen, NEW j \in DOMAIN v.seen, i < j
       PROVE  v.seen[i] # v.seen[j] /\ Beyond(v.ev, v.seen[i], v.seen[j])
  <2>1. i \in DOMAIN e.seen /\ v.seen[i] = e.seen[i]  BY <1>8, <1>9, <1>17
  <2>2. CASE j \in DOMAIN e.seen
    <3>1. v.seen[j] = e.seen[j]  BY <1>8, <1>9, <2>2
    <3> QED BY <1>7, <1>17, <2>1, <2>2, <3>1 DEF InLine
  <2>3. CASE j \notin DOMAIN e.seen
    <3>1. v.seen[j] = n  BY <1>8, <1>9, <2>3
    <3>2. e.seen[i] \notin Onward(e.ev, Rest(e))  BY <2>1 DEF InLine, Visited
    <3>3. e.seen # <<>>  BY <2>1
    <3>4. e.seen[i] = f \/ Beyond(e.ev, e.seen[i], f)
      <4>1. i = Len(e.seen) \/ i < Len(e.seen)  BY <1>9, <2>1
      <4> QED BY <1>1, <2>1, <3>3, <4>1 DEF InLine
    <3>5. e.seen[i] \in Int  BY <1>3, <1>9, <2>1
    <3>6. Beyond(e.ev, e.seen[i], n)  BY <1>1, <1>4, <1>6, <3>4, <3>5 DEF Beyond, Step
    <3> QED BY <1>5, <1>7, <2>1, <3>1, <3>2, <3>6
  <2> QED BY <2>2, <2>3
<1> QED BY <1>7, <1>10, <1>16, <1>17 DEF InLine, v

-----------------------------------------------------------------------------
(* The next filter *)

\* Where FindNextFilter looks from is where each event goes on from.
Placed(r) ==
  \A k \in DOMAIN r.queue : /\ InLine(r.queue[k]) /\ Position(r, k) = Rest(r.queue[k])
                            /\ k > 1 => r.queue[k].seen = <<>>

\* FindNextFilter goes to the next filter on the path of the first event that has one, and
\* removes those before it, which have none left.
LEMMA FindsInOrder ==
  ASSUME NEW r \in Transaction, ~r.sync, Placed(r)
  PROVE  Queued(FindNextFilter(r)) /\ Passed(r, FindNextFilter(r))
<1> DEFINE events == r.queue
           n == Len(events)
           k0 == FirstWanted(r)
           q0 == SubSeq(events, k0, n)
           f0 == First(events[k0].ev, Position(r, k0))
           last == IF Direction(events[n].ev) = "out" THEN -1 ELSE Client + 1
<1>1. r.sync = FALSE /\ EventList(r) = events  BY TransactionFields DEF EventList
<1>2. events \in Seq(Event) /\ n \in Nat /\ DOMAIN events = 1 .. n  BY TransactionFields
<1>3. \A k \in 1 .. n : k \in Wanted(r) <=> Onward(events[k].ev, Rest(events[k])) # {}
  BY <1>1, <1>2 DEF Wanted, Placed
<1>4. \A k \in 1 .. n : k \notin Wanted(r) => Visited(events[k]) = Path(events[k])
  <2> SUFFICES ASSUME NEW k \in 1 .. n, k \notin Wanted(r) PROVE Visited(events[k]) = Path(events[k])  OBVIOUS
  <2>1. Onward(events[k].ev, Rest(events[k])) = {}  BY <1>3
  <2>2. InLine(events[k])  BY <1>2 DEF Placed
  <2> QED BY <2>1, <2>2 DEF InLine
<1>5. CASE n = 0
  <2>1. FindNextFilter(r) = [r EXCEPT !.status = "EPassive"]
    BY <1>1, <1>5 DEF FindNextFilter
  <2>2. FindNextFilter(r).queue = events /\ events = <<>>  BY <1>2, <1>5, <2>1 DEF Transaction
  <2> QED BY <2>2 DEF Queued, Passed
<1>6. CASE n > 0 /\ Wanted(r) = {}
  <2>1. FindNextFilter(r) = [r EXCEPT !.status = "EPassive", !.sync = FALSE, !.queue = <<>>, !.next = last]
    BY <1>1, <1>2, <1>6 DEF FindNextFilter
  <2> HIDE DEF last
  <2>2. FindNextFilter(r).queue = <<>>  BY <2>1 DEF Transaction
  <2> QED BY <1>2, <1>4, <1>6, <2>2 DEF Queued, Passed
<1>7. CASE n > 0 /\ Wanted(r) # {}
  <2> DEFINE p == FindNextFilter(r)
  <2>1. p.status = "EFilter" /\ p.queue = q0 /\ p.next = f0
    <3> DEFINE b == r.sync /\ FirstWanted(r) = 1
               q1 == IF b THEN r.queue
                     ELSE SubSeq(r.queue, IF r.sync THEN FirstWanted(r) - 1 ELSE FirstWanted(r), Len(r.queue))
               f1 == First(EventList(r)[FirstWanted(r)].ev, Position(r, FirstWanted(r)))
    <3>1. p = Found(r, b, q1, f1)  BY <1>1, <1>7, FindsFilter
    <3>2. b = FALSE  BY <1>1
    <3>3. q1 = q0 /\ f1 = f0  BY <1>1, <3>2
    <3> HIDE DEF b, q1, f1, q0, f0, p
    <3>4. p = Found(r, FALSE, q0, f0)  BY <3>1, <3>2, <3>3
    <3> QED BY <3>4 DEF Found, Transaction
  <2>2. Wanted(r) \subseteq 1 .. n  BY <1>1, <1>2 DEF Wanted
  <2>3. \E k \in Wanted(r) : \A j \in Wanted(r) : k <= j  BY <1>2, <1>7, <2>2, Least
  <2>4. k0 \in Wanted(r) /\ \A j \in Wanted(r) : k0 <= j  BY <2>3 DEF FirstWanted
  <2> HIDE DEF k0, p
  <2>5. k0 \in 1 .. n /\ Onward(events[k0].ev, Rest(events[k0])) # {}  BY <1>3, <2>2, <2>4
  <2>6. f0 = First(events[k0].ev, Rest(events[k0]))  BY <1>2, <2>5 DEF Placed
  <2>7. q0 \in Seq(Event) /\ Len(q0) = n - k0 + 1 /\ DOMAIN q0 = 1 .. n - k0 + 1
        /\ \A k \in 1 .. n - k0 + 1 : q0[k] = events[k0 + k - 1]
    BY <1>2, <2>5
  <2> HIDE DEF q0, f0
  <2>8. q0[1] = events[k0] /\ InLine(q0[1])  BY <1>2, <2>5, <2>7 DEF Placed
  <2>9. \A k \in DOMAIN q0 : k > 1 => q0[k].seen = <<>>
    <3> SUFFICES ASSUME NEW k \in DOMAIN q0, k > 1 PROVE q0[k].seen = <<>>  OBVIOUS
    <3>1. k0 + k - 1 \in 1 .. n /\ k0 + k - 1 > 1 /\ q0[k] = events[k0 + k - 1]  BY <1>2, <2>5, <2>7
    <3> QED BY <1>2, <3>1 DEF Placed
  <2>10. Queued(p)  BY <2>1, <2>5, <2>6, <2>8, <2>9 DEF Queued
  <2>11. Passed(r, p)
    <3> SUFFICES ASSUME NEW k \in 1 .. Len(r.queue) - Len(p.queue) PROVE Visited(r.queue[k]) = Path(r.queue[k])
      BY DEF Passed
    <3>1. k < k0 /\ k \in 1 .. n  BY <1>2, <2>1, <2>5, <2>7
    <3>2. k \notin Wanted(r)  BY <1>2, <2>4, <2>5, <3>1
    <3> QED BY <1>4, <3>1, <3>2
  <2> QED BY <2>10, <2>11 DEF p
<1> QED BY <1>2, <1>5, <1>6, <1>7

\* Nothing is said of the other members of a transaction.
LEMMA SameEvents ==
  ASSUME NEW r, NEW q, q.queue = r.queue, q.status = r.status, q.next = r.next
  PROVE  Queued(q) <=> Queued(r)
BY DEF Queued

\* Activating the transaction changes none of it.
LEMMA ActivatedInOrder ==
  ASSUME NEW r \in Transaction, ~r.sync, Placed(r)
  PROVE  Queued(Activated(r)) /\ Sent(Activated(r)) /\ Passed(r, Activated(r))
<1> DEFINE q == FindNextFilter(r)
           a == Activated(r)
<1>1. q \in Transaction /\ ~q.sync  BY FindInQueue
<1>2. Queued(q) /\ Passed(r, q)  BY FindsInOrder
<1>3. a = IF q.status = "EPassive" THEN q ELSE [q EXCEPT !.active = TRUE]  BY DEF Activated
<1> HIDE DEF q, a
<1>4. a.queue = q.queue /\ a.status = q.status /\ a.next = q.next /\ a.sync = q.sync
  BY <1>1, <1>3 DEF Transaction
<1>5. Queued(a)  BY <1>2, <1>4, SameEvents
<1>6. Sent(a)  BY <1>1, <1>4 DEF Sent
<1>7. Passed(r, a)  BY <1>2, <1>4 DEF Passed
<1> QED BY <1>5, <1>6, <1>7 DEF a

-----------------------------------------------------------------------------
(* What a step writes *)

Fine(r) == Queued(r) /\ Sent(r)

\* One transaction is written.
LEMMA FineUpd ==
  ASSUME NEW T \in [Tx -> Transaction], \A u \in Tx : Fine(T[u]), NEW t \in Tx, NEW q \in Transaction, Fine(q)
  PROVE  \A u \in Tx : Fine(Upd(T, t, q)[u])
<1>1. Upd(T, t, q)[t] = q /\ \A u \in Tx : u # t => Upd(T, t, q)[u] = T[u]  BY UpdTransaction
<1> HIDE DEF Fine
<1>2. \A u \in Tx : u = t \/ u # t  OBVIOUS
<1> QED BY <1>1, <1>2

\* It has lost events at the end of their path only.
LEMMA PassedUpd ==
  ASSUME NEW T \in [Tx -> Transaction], NEW t \in Tx, NEW q \in Transaction, Passed(T[t], q)
  PROVE  \A u \in Tx : Passed(T[u], Upd(T, t, q)[u])
<1>1. Upd(T, t, q)[t] = q /\ \A u \in Tx : u # t => Upd(T, t, q)[u] = T[u]  BY UpdTransaction
<1>2. \A u \in Tx : Passed(T[u], T[u])
  <2> SUFFICES ASSUME NEW u \in Tx PROVE Passed(T[u], T[u])  OBVIOUS
  <2>1. T[u].queue \in Seq(Event)  BY TransactionFields
  <2>2. Len(T[u].queue) - Len(T[u].queue) = 0  BY <2>1
  <2>3. 1 .. 0 = {}  OBVIOUS
  <2> QED BY <2>2, <2>3 DEF Passed
<1> HIDE DEF Passed
<1> QED BY <1>1, <1>2

\* Those who have blocked go on with the event they were about to go on with.
LEMMA WokenFine ==
  ASSUME NEW T \in [Tx -> Transaction], NEW b, \A u \in Tx : Fine(T[u])
  PROVE  /\ \A u \in Tx : Fine(Woken(T, b)[u])
         /\ \A u \in Tx : Woken(T, b)[u].queue = T[u].queue
<1> SUFFICES ASSUME NEW u \in Tx PROVE Fine(Woken(T, b)[u]) /\ Woken(T, b)[u].queue = T[u].queue
  OBVIOUS
<1>1. CASE b = "EHasBlocked" /\ Wakes(T[u])
  <2> DEFINE q == [T[u] EXCEPT !.status = "EFilter", !.active = TRUE]
  <2>1. Woken(T, b)[u] = q  BY <1>1 DEF Woken
  <2>2. T[u] \in Transaction  OBVIOUS
  <2>3. q.queue = T[u].queue /\ q.status = "EFilter" /\ q.next = T[u].next /\ q.sync = T[u].sync
        /\ q.syncEvent = T[u].syncEvent
    BY <2>2 DEF Transaction
  <2>4. T[u].status = "EBlocked" /\ Queued(T[u]) /\ Sent(T[u])  BY <1>1 DEF Wakes, Fine
  <2> HIDE DEF q
  <2>5. Queued(q)  BY <2>3, <2>4 DEF Queued
  <2>6. Sent(q)  BY <2>3, <2>4 DEF Sent
  <2> QED BY <2>1, <2>3, <2>5, <2>6 DEF Fine
<1>2. CASE ~(b = "EHasBlocked" /\ Wakes(T[u]))
  <2>1. Woken(T, b)[u] = T[u]  BY <1>2 DEF Woken
  <2> HIDE DEF Fine
  <2> QED BY <2>1
<1> QED BY <1>1, <1>2

-----------------------------------------------------------------------------
(* What a step may do *)

\* A synchronous event at the top of the stack goes on, has been everywhere, or ends with
\* the transaction.
Ends(T, s, X, z) ==
  s # <<>> /\ IsSync(s[Len(s)]) /\ X[s[Len(s)].t].status # "EExiting" =>
    \/ Len(s) \in DOMAIN z /\ IsSync(z[Len(s)]) /\ z[Len(s)].ev = s[Len(s)].ev
    \/ Visited(T[s[Len(s)].t].syncEvent) = Path(T[s[Len(s)].t].syncEvent)

Lost(T, s, X, z) == Len(z) <= Len(s) => \A u \in Tx : Passed(T[u], X[u])

\* From the transactions T and the stack s to X and z.
Moves(T, s, X, z) ==
  (\A u \in Tx : Fine(X[u])) /\ Regretless(X, z) /\ Lost(T, s, X, z) /\ Ends(T, s, X, z)

\* The step is one of the program.
LEMMA Moved ==
  ASSUME NEW X, NEW b, NEW z, NEW n, Become(W(X, b, z, n)), Moves(tr, stack, X, z)
  PROVE  Moves(tr, stack, tr', stack')
<1>1. tr' = X /\ stack' = z  BY DEF Become, W
<1> QED BY <1>1

\* It keeps the order, and is one that Complete allows.
LEMMA MovesAre ==
  ASSUME Moves(tr, stack, tr', stack')
  PROVE  /\ Orderly(tr, stack)'
         /\ Len(stack') <= Len(stack) =>
              \A t \in Tx : \A k \in 1 .. Len(tr[t].queue) - Len(tr'[t].queue) :
                Visited(tr[t].queue[k]) = Path(tr[t].queue[k])
         /\ stack # <<>> /\ Top(world).kind = "sync" /\ tr'[Top(world).t].status # "EExiting" =>
              \/ Len(stack) \in DOMAIN stack' /\ stack'[Len(stack)].kind = "sync"
                 /\ stack'[Len(stack)].ev = Top(world).ev
              \/ Visited(tr[Top(world).t].syncEvent) = Path(tr[Top(world).t].syncEvent)
<1>1. Orderly(tr, stack)' <=> Orderly(tr', stack')  BY DEF Orderly, Regretless, Queued, Sent
<1>2. Orderly(tr', stack')  BY DEF Orderly, Moves, Fine
<1>3. Top(world) = stack[Len(stack)]  BY DEF Top, world
<1>4. Ends(tr, stack, tr', stack') /\ Lost(tr, stack, tr', stack')  BY DEF Moves
<1>5. stack # <<>> /\ Top(world).kind = "sync" /\ tr'[Top(world).t].status # "EExiting" =>
        \/ Len(stack) \in DOMAIN stack' /\ stack'[Len(stack)].kind = "sync"
           /\ stack'[Len(stack)].ev = Top(world).ev
        \/ Visited(tr[Top(world).t].syncEvent) = Path(tr[Top(world).t].syncEvent)
  BY <1>3, <1>4 DEF Ends, IsSync
<1>6. Len(stack') <= Len(stack) =>
        \A t \in Tx : \A k \in 1 .. Len(tr[t].queue) - Len(tr'[t].queue) :
          Visited(tr[t].queue[k]) = Path(tr[t].queue[k])
  BY <1>4 DEF Lost, Passed
<1> QED BY <1>1, <1>2, <1>5, <1>6

\* What is known before a step.
LEMMA Ordered ==
  ASSUME OInv
  PROVE  /\ IInv /\ Good(tr, blocking, stack) /\ tr \in [Tx -> Transaction] /\ stack \in Seq(Frame)
         /\ \A u \in Tx : Fine(tr[u])
         /\ Regretless(tr, stack)
BY DEF OInv, Orderly, Fine, IInv, Good

\* Of one transaction:
LEMMA OrderlyIs ==
  ASSUME OInv, NEW t \in Tx
  PROVE  tr[t] \in Transaction /\ Queued(tr[t]) /\ Sent(tr[t])
BY Ordered DEF Fine

\* One transaction moves.
LEMMA OneMoves ==
  ASSUME NEW T \in [Tx -> Transaction], \A u \in Tx : Fine(T[u]), NEW s, NEW t \in Tx, NEW q \in Transaction,
         Queued(q), Sent(q), NEW z, Len(z) <= Len(s) => Passed(T[t], q),
         Regretless(Upd(T, t, q), z), Ends(T, s, Upd(T, t, q), z)
  PROVE  Moves(T, s, Upd(T, t, q), z)
<1>1. Fine(q)  BY DEF Fine
<1>2. \A u \in Tx : Fine(Upd(T, t, q)[u])
  <2> HIDE DEF Fine
  <2> QED BY <1>1, FineUpd
<1>3. Lost(T, s, Upd(T, t, q), z)
  <2> SUFFICES ASSUME Len(z) <= Len(s) PROVE \A u \in Tx : Passed(T[u], Upd(T, t, q)[u])  BY DEF Lost
  <2>1. Passed(T[t], q)  OBVIOUS
  <2> HIDE DEF Passed
  <2> QED BY <2>1, PassedUpd
<1> HIDE DEF Fine, Regretless, Ends, Lost
<1> QED BY <1>2, <1>3 DEF Moves

\* There is no synchronous event at the top.
LEMMA NoneEnds ==
  ASSUME NEW T, NEW s, NEW X, NEW z, s # <<>> => ~IsSync(s[Len(s)])
  PROVE  Ends(T, s, X, z)
BY DEF Ends

\* It stays.
LEMMA NothingEnds ==
  ASSUME NEW T, NEW s, NEW X, NEW z,
         s # <<>> => Len(s) \in DOMAIN z /\ (IsSync(s[Len(s)]) => IsSync(z[Len(s)]) /\ z[Len(s)].ev = s[Len(s)].ev)
  PROVE  Ends(T, s, X, z)
BY DEF Ends

\* No filter has left.
LEMMA NoError ==
  ASSUME NEW X, NEW z, z # <<>> => z[1].kind # "error"
  PROVE  Regretless(X, z)
BY DEF Regretless

\* The calls are the same, or others took their place.
LEMMA RegretKeeps ==
  ASSUME NEW T \in [Tx -> Transaction], NEW s, Regretless(T, s), NEW t \in Tx, NEW q \in Transaction, NEW z,
         z # <<>> /\ z[1].kind = "error" => s # <<>> /\ s[1].kind = "error" /\ z[1].t = s[1].t /\ s[1].t \in Tx,
         q.status = "ECancelled" /\ s # <<>> /\ s[1].kind = "error" /\ s[1].t = t => q.queue = <<>>
  PROVE  Regretless(Upd(T, t, q), z)
<1>1. Upd(T, t, q)[t] = q /\ \A u \in Tx : u # t => Upd(T, t, q)[u] = T[u]  BY UpdTransaction
<1> DEFINE X == Upd(T, t, q)
<1> HIDE DEF X
<1> SUFFICES ASSUME z # <<>>, z[1].kind = "error", X[z[1].t].status = "ECancelled" PROVE X[z[1].t].queue = <<>>
  BY DEF Regretless, X
<1>2. s # <<>> /\ s[1].kind = "error" /\ z[1].t = s[1].t /\ s[1].t \in Tx  OBVIOUS
<1>3. CASE s[1].t = t  BY <1>1, <1>2, <1>3 DEF X
<1>4. CASE s[1].t # t
  <2>1. X[z[1].t] = T[s[1].t]  BY <1>1, <1>2, <1>4 DEF X
  <2> QED BY <1>2, <2>1 DEF Regretless
<1> QED BY <1>3, <1>4

\* The calls at the bottom of the stack stay when one is pushed, popped or replaced.
LEMMA Bottom ==
  ASSUME NEW s \in Seq(Frame)
  PROVE  /\ \A x \in Frame : IsSync(x) /\ Append(s, x)[1].kind = "error" =>
              s # <<>> /\ s[1].kind = "error" /\ Append(s, x)[1].t = s[1].t /\ s[1].t \in Tx
         /\ \A z : s # <<>> /\ IsSync(s[Len(s)]) /\ Under(s, z) /\ z # <<>> /\ z[1].kind = "error" =>
              s # <<>> /\ s[1].kind = "error" /\ z[1].t = s[1].t /\ s[1].t \in Tx
         /\ \A y \in Frame : s # <<>> /\ IsSync(y) /\ Topped(s, y)[1].kind = "error" =>
              s[1].kind = "error" /\ Topped(s, y)[1].t = s[1].t /\ s[1].t \in Tx
<1>1. s # <<>> => s[1].t \in Tx /\ 1 \in DOMAIN s /\ DOMAIN s = 1 .. Len(s) /\ Len(s) \in Nat
  <2> SUFFICES ASSUME s # <<>> PROVE s[1].t \in Tx /\ 1 \in DOMAIN s /\ DOMAIN s = 1 .. Len(s) /\ Len(s) \in Nat  OBVIOUS
  <2>1. s[1] \in Frame /\ 1 \in DOMAIN s /\ DOMAIN s = 1 .. Len(s) /\ Len(s) \in Nat  OBVIOUS
  <2> QED BY <2>1, FrameKinds
<1>2. ASSUME NEW x \in Frame, IsSync(x), Append(s, x)[1].kind = "error"
      PROVE  s # <<>> /\ s[1].kind = "error" /\ Append(s, x)[1].t = s[1].t /\ s[1].t \in Tx
  <2>1. CASE s = <<>>
    <3>1. Append(s, x)[1] = x  BY <2>1
    <3> QED BY <1>2, <3>1 DEF IsSync
  <2>2. CASE s # <<>>
    <3>1. Append(s, x)[1] = s[1]  BY <1>1, <2>2, AppendIs
    <3> QED BY <1>1, <1>2, <2>2, <3>1
  <2> QED BY <2>1, <2>2
<1>3. ASSUME NEW y \in Frame, s # <<>>, IsSync(y), Topped(s, y)[1].kind = "error"
      PROVE  s[1].kind = "error" /\ Topped(s, y)[1].t = s[1].t /\ s[1].t \in Tx
  <2>1. CASE Len(s) = 1
    <3>1. Topped(s, y)[1] = y  BY <1>3, <2>1, ToppedIs
    <3> QED BY <1>3, <3>1 DEF IsSync
  <2>2. CASE Len(s) # 1
    <3>1. Topped(s, y)[1] = s[1]  BY <1>1, <1>3, <2>2, ToppedIs
    <3> QED BY <1>1, <1>3, <3>1
  <2> QED BY <2>1, <2>2
<1>4. ASSUME NEW z, s # <<>>, Under(s, z), z # <<>>, z[1].kind = "error"
      PROVE  s[1].kind = "error" /\ z[1].t = s[1].t /\ s[1].t \in Tx
  <2>1. CASE z = Cut(s)
    <3>1. 1 \in DOMAIN z
      <4>1. Cut(s) \in Seq(Frame)  BY <1>4, CutIs
      <4> QED BY <1>4, <2>1, <4>1
    <3>2. z[1] = s[1]  BY <1>4, <2>1, <3>1, CutIs
    <3> QED BY <1>1, <1>4, <3>2
  <2>2. ASSUME NEW y \in Frame, IsSync(y), z = Topped(s, y) PROVE s[1].kind = "error" /\ z[1].t = s[1].t /\ s[1].t \in Tx
    BY <1>3, <1>4, <2>2
  <2> QED BY <1>4, <2>1, <2>2 DEF Under
<1> QED BY <1>2, <1>3, <1>4

-----------------------------------------------------------------------------
(* RunL *)

\* The first event of a queue visits the filter it is going to.
LEMMA EnteredInOrder ==
  ASSUME NEW r \in Transaction, ~r.sync, r.queue # <<>>, r.next \in Filters, r.status = "EFilter", Queued(r)
  PROVE  Queued(EnterFilter(r)) /\ Sent(EnterFilter(r)) /\ Passed(r, EnterFilter(r))
<1> DEFINE q == EnterFilter(r)
           e == r.queue[1]
           v == Visit(e, r.next)
           z == Visiting(r)
<1>1. q.status = "EInFilter" /\ ~q.sync /\ q.next = r.next /\ q.queue = z  BY EnterIs
<1>2. r.queue \in Seq(Event)  BY TransactionFields
<1>3. e \in Event  BY <1>2
<1>4. /\ InLine(e) /\ Onward(e.ev, Rest(e)) # {} /\ r.next = First(e.ev, Rest(e))
      /\ \A k \in DOMAIN r.queue : k > 1 => r.queue[k].seen = <<>>
  BY DEF Queued
<1>5. InLine(v) /\ Rest(v) = Step(e.ev, r.next) /\ v.ev = e.ev /\ v \in Event
  <2> HIDE DEF e
  <2> QED BY <1>3, <1>4, VisitInLine, VisitTyped
<1>6. z # <<>> /\ z[1] = v /\ Len(z) = Len(r.queue) /\ DOMAIN z = DOMAIN r.queue
      /\ \A k \in DOMAIN z : k > 1 => z[k] = r.queue[k]
  <2>1. z = [r.queue EXCEPT ![1] = v]  BY DEF Visiting
  <2> HIDE DEF z, v
  <2> QED BY <1>2, <1>5, <2>1
<1> HIDE DEF z, v, q
<1>7. Queued(q)  BY <1>1, <1>4, <1>5, <1>6 DEF Queued
<1>8. Sent(q)  BY <1>1 DEF Sent
<1>9. Passed(r, q)
  <2>1. Len(r.queue) - Len(q.queue) = 0  BY <1>1, <1>2, <1>6
  <2>2. 1 .. 0 = {}  OBVIOUS
  <2> QED BY <2>1, <2>2 DEF Passed
<1> QED BY <1>7, <1>8, <1>9 DEF q

\* Nothing leaves a queue that stays as it is.
LEMMA NothingPassed ==
  ASSUME NEW r \in Transaction, NEW q, q.queue = r.queue
  PROVE  Passed(r, q)
<1>1. r.queue \in Seq(Event)  BY TransactionFields
<1>2. Len(r.queue) - Len(q.queue) = 0  BY <1>1
<1>3. 1 .. 0 = {}  OBVIOUS
<1> QED BY <1>2, <1>3 DEF Passed

\* RunL blocks, or offers an event to the next filter on its path.
LEMMA RunLMoves ==
  ASSUME OInv, NEW t \in Tx, RunL(t)
  PROVE  Moves(tr, stack, tr', stack')
<1> DEFINE r == tr[t]
           o == Idle(r)
<1>1. /\ r.active
      /\ \/ blocking # "ENormal" /\ Become(W(Upd(tr, t, Blocked(o)), "EHasBlocked", stack, sends))
         \/ /\ blocking = "ENormal" /\ stack = <<>>
            /\ Become(W(Upd(tr, t, EnterFilter(o)), "EShouldBlock", <<RunCall(t, o)>>, sends))
  BY Ordered, RunLIs
<1>2. /\ Good(tr, blocking, stack) /\ tr \in [Tx -> Transaction] /\ stack \in Seq(Frame) /\ \A u \in Tx : Fine(tr[u])
      /\ Regretless(tr, stack) /\ r \in Transaction /\ Queued(r) /\ Sent(r)
  BY Ordered, OrderlyIs
<1>3. Mine(stack, t) = {} /\ Resting(r) /\ r.life = "open" /\ r.status = "EFilter" /\ r.queue # <<>>
  BY <1>1, <1>2, ActiveRests
<1>4. ~r.sync /\ r.next \in Filters  BY <1>3 DEF Resting
<1>5. /\ o \in Transaction /\ o.queue = r.queue /\ o.status = "EFilter" /\ o.next = r.next /\ ~o.sync
  BY <1>2, <1>3, <1>4 DEF Idle, Transaction
<1>6. Queued(o)  BY <1>2, <1>3, <1>5, SameEvents
<1> HIDE DEF o
<1>7. CASE Become(W(Upd(tr, t, Blocked(o)), "EHasBlocked", stack, sends))
  <2> DEFINE q == Blocked(o)
  <2>1. q \in Transaction /\ q.queue = o.queue /\ q.status = "EBlocked" /\ q.next = o.next /\ ~q.sync
    BY <1>5 DEF Blocked, Transaction, States
  <2> HIDE DEF q
  <2>2. Queued(q)  BY <1>5, <1>6, <2>1 DEF Queued
  <2>3. Sent(q)  BY <2>1 DEF Sent
  <2>4. Passed(r, q)  BY <1>2, <1>5, <2>1, NothingPassed
  <2>5. Regretless(Upd(tr, t, q), stack)
    <3>1. stack # <<>> => stack[1].t \in Tx
      <4>1. stack # <<>> => stack[1] \in Frame  BY <1>2
      <4> QED BY <4>1, FrameKinds
    <3>2. q.status # "ECancelled"  BY <2>1
    <3> QED BY <1>2, <2>1, <3>1, <3>2, RegretKeeps
  <2>6. Ends(tr, stack, Upd(tr, t, q), stack)
    <3>1. stack # <<>> => Len(stack) \in DOMAIN stack  BY <1>2
    <3> QED BY <3>1, NothingEnds
  <2>7. Moves(tr, stack, Upd(tr, t, q), stack)  BY <1>2, <2>1, <2>2, <2>3, <2>4, <2>5, <2>6, OneMoves
  <2>8. Become(W(Upd(tr, t, q), "EHasBlocked", stack, sends))  BY <1>7 DEF q
  <2> QED BY <2>7, <2>8, Moved
<1>8. CASE stack = <<>> /\ Become(W(Upd(tr, t, EnterFilter(o)), "EShouldBlock", <<RunCall(t, o)>>, sends))
  <2> DEFINE q == EnterFilter(o)
             z == <<RunCall(t, o)>>
  <2>1. q \in Transaction  BY <1>3, <1>4, <1>5, EnterIs
  <2>2. Queued(q) /\ Sent(q) /\ Passed(o, q)  BY <1>3, <1>4, <1>5, <1>6, EnteredInOrder
  <2> HIDE DEF q
  <2>3. Passed(r, q)  BY <1>5, <2>2 DEF Passed
  <2>4. z # <<>> /\ z[1].kind = "run"  BY DEF RunCall
  <2> HIDE DEF z
  <2>5. Regretless(Upd(tr, t, q), z)  BY <2>4, NoError
  <2>6. Ends(tr, stack, Upd(tr, t, q), z)  BY <1>8, NoneEnds
  <2>7. Moves(tr, stack, Upd(tr, t, q), z)  BY <1>2, <2>1, <2>2, <2>3, <2>5, <2>6, OneMoves
  <2>8. Become(W(Upd(tr, t, q), "EShouldBlock", z, sends))  BY <1>8 DEF q, z
  <2> QED BY <2>7, <2>8, Moved
<1> QED BY <1>1, <1>7, <1>8

\* A RunL ends, with q what it has made of its transaction.
LEMMA RunOverMoves ==
  ASSUME OInv, stack # <<>>, ~IsSync(stack[Len(stack)]), NEW t \in Tx,
         NEW q \in Transaction, Queued(q), Sent(q), Passed(tr[t], q), RunOver(t, q)
  PROVE  Moves(tr, stack, tr', stack')
<1> DEFINE T == Upd(tr, t, q)
           X == Woken(T, blocking)
<1>1. tr \in [Tx -> Transaction] /\ \A u \in Tx : Fine(tr[u])  BY Ordered
<1>2. T \in [Tx -> Transaction]  BY <1>1, UpdTransaction
<1>3. Fine(q)  BY DEF Fine
<1>4. \A u \in Tx : Fine(T[u])
  <2> HIDE DEF Fine
  <2> QED BY <1>1, <1>3, FineUpd
<1>5. \A u \in Tx : Passed(tr[u], T[u])
  <2> HIDE DEF Passed
  <2> QED BY <1>1, PassedUpd
<1> HIDE DEF T
<1>6. (\A u \in Tx : Fine(X[u])) /\ \A u \in Tx : X[u].queue = T[u].queue
  <2> HIDE DEF Fine
  <2> QED BY <1>2, <1>4, WokenFine
<1> HIDE DEF X
<1>7. Lost(tr, stack, X, <<>>)  BY <1>5, <1>6 DEF Lost, Passed
<1> DEFINE z == <<>>
<1>8. Regretless(X, z)
  <2>1. z = <<>>  OBVIOUS
  <2> HIDE DEF z
  <2> QED BY <2>1, NoError
<1>9. Ends(tr, stack, X, z)
  <2> HIDE DEF z
  <2> QED BY NoneEnds
<1> HIDE DEF Fine
<1>10. Moves(tr, stack, X, z)  BY <1>6, <1>7, <1>8, <1>9 DEF Moves
<1>11. Become(W(X, "ENormal", z, sends))  BY DEF RunOver, X, T
<1> HIDE DEF z
<1> QED BY <1>10, <1>11, Moved

\* A transaction that was closed in its filter loses no event when it is deleted.
LEMMA DeletedMoves ==
  ASSUME OInv, stack # <<>>, ~IsSync(stack[Len(stack)]), NEW t, t = stack[Len(stack)].t,
         tr[t].life = "closed", RunOver(t, Deleted(tr[t]))
  PROVE  Moves(tr, stack, tr', stack')
<1> DEFINE r == tr[t]
           q == Deleted(r)
<1>1. r \in Transaction /\ ~r.sync /\ t \in Tx  BY Ordered, RunIs
<1>2. Queued(r) /\ Sent(r)  BY <1>1, OrderlyIs
<1>3. r.status = "EExiting"
  <2>1. InRunL(r, stack[Len(stack)])  BY Ordered, TopIsMine
  <2> QED BY <2>1 DEF InRunL
<1>4. q \in Transaction /\ q.queue = r.queue /\ q.status = "EPassive" /\ ~q.sync
  BY <1>1 DEF Deleted, Transaction, States, Lives
<1> HIDE DEF q, r
<1>5. Queued(q)  BY <1>2, <1>3, <1>4 DEF Queued
<1>6. Sent(q)  BY <1>4 DEF Sent
<1>7. Passed(r, q)  BY <1>1, <1>4, NothingPassed
<1> QED BY <1>1, <1>4, <1>5, <1>6, <1>7, RunOverMoves DEF q, r

\* After its filter the event goes on; after a cancellation the queue begins anew.
LEMMA LeftPlaced ==
  ASSUME NEW r \in Transaction, ~r.sync, Queued(r), r.status \in {"EInFilter", "ECancelled"}
  PROVE  Placed(LeaveFilter(r))
<1> DEFINE q == LeaveFilter(r)
<1>1. /\ q \in Transaction /\ ~q.sync /\ q.next = r.next /\ q.queue = r.queue
      /\ r.status = "EInFilter" => q.status = "EFilter"
      /\ r.status = "ECancelled" => q.status = "EPassive"
  BY LeaveIs
<1> HIDE DEF q
<1> SUFFICES ASSUME NEW k \in DOMAIN q.queue
             PROVE  /\ InLine(q.queue[k]) /\ Position(q, k) = Rest(q.queue[k])
                    /\ k > 1 => q.queue[k].seen = <<>>
  BY DEF Placed, q
<1>2. q.queue # <<>> /\ q.queue \in Seq(Event) /\ k \in Nat \ {0}  BY <1>1, TransactionFields
<1>3. EventList(q) = q.queue  BY <1>1 DEF EventList
<1>4. CASE k > 1
  <2>1. q.queue[k].seen = <<>>  BY <1>1, <1>2, <1>4 DEF Queued
  <2>2. InLine(q.queue[k]) /\ Rest(q.queue[k]) = Step(q.queue[k].ev, q.queue[k].start)  BY <2>1, FreshIs
  <2>3. Position(q, k) = Step(q.queue[k].ev, q.queue[k].start)  BY <1>3, <1>4 DEF Position
  <2> QED BY <2>1, <2>2, <2>3
<1>5. CASE k = 1 /\ r.status = "EInFilter"
  <2>1. InLine(q.queue[1]) /\ Rest(q.queue[1]) = Step(q.queue[1].ev, r.next)  BY <1>1, <1>2, <1>5 DEF Queued
  <2>2. Position(q, 1) = Step(q.queue[1].ev, q.next)  BY <1>1, <1>3, <1>5 DEF Position
  <2> QED BY <1>1, <1>5, <2>1, <2>2
<1>6. CASE k = 1 /\ r.status = "ECancelled"
  <2>1. q.queue[1].seen = <<>>  BY <1>1, <1>2, <1>6 DEF Queued
  <2>2. InLine(q.queue[1]) /\ Rest(q.queue[1]) = Step(q.queue[1].ev, q.queue[1].start)  BY <2>1, FreshIs
  <2>3. Position(q, 1) = Step(q.queue[1].ev, q.queue[1].start)  BY <1>1, <1>3, <1>6 DEF Position
  <2> QED BY <1>6, <2>2, <2>3
<1> QED BY <1>2, <1>4, <1>5, <1>6

\* MHFRunL returns.
LEMMA FilterReturnsMoves ==
  ASSUME OInv, FilterReturns
  PROVE  Moves(tr, stack, tr', stack')
<1> DEFINE t == Top(world).t
           r == tr[t]
           p == LeaveFilter(r)
           q == Activated(p)
<1>1. /\ stack # <<>> /\ ~IsSync(stack[Len(stack)]) /\ t = stack[Len(stack)].t
      /\ \/ /\ r.life = "open" /\ r.status \in {"EInFilter", "ECancelled"}
            /\ RunOver(t, Activated(LeaveFilter(tr[t])))
         \/ r.life = "closed" /\ RunOver(t, Deleted(tr[t]))
  <2> HIDE DEF t
  <2> QED BY Ordered, FilterReturnsIs DEF t
<1> HIDE DEF t
<1>2. r \in Transaction /\ ~r.sync /\ ~r.active /\ t \in Tx  BY <1>1, Ordered, RunIs
<1>3. Queued(r)  BY <1>2, OrderlyIs
<1>4. CASE r.life = "open" /\ r.status \in {"EInFilter", "ECancelled"} /\ RunOver(t, q)
  <2>1. p \in Transaction /\ ~p.sync /\ ~p.active /\ p.life = "open" /\ p.queue = r.queue  BY <1>2, <1>4, LeaveIs
  <2>2. Placed(p)  BY <1>2, <1>3, <1>4, LeftPlaced
  <2> HIDE DEF p
  <2>3. q \in Transaction  BY <2>1, ActivatedRests
  <2>4. Queued(q) /\ Sent(q) /\ Passed(p, q)  BY <2>1, <2>2, ActivatedInOrder
  <2> HIDE DEF q
  <2>5. Passed(r, q)  BY <2>1, <2>4 DEF Passed
  <2> QED BY <1>1, <1>2, <1>4, <2>3, <2>4, <2>5, RunOverMoves
<1>5. CASE r.life = "closed" /\ RunOver(t, Deleted(tr[t]))  BY <1>1, <1>5, DeletedMoves
<1> QED BY <1>1, <1>4, <1>5

\* An event that goes on at the end of RunError goes on after the filter that has left.
LEMMA ErrorPlaced ==
  ASSUME NEW r \in Transaction, ~r.sync, Queued(r), r.status = "EInFilter" \/ r.queue = <<>>
  PROVE  Placed(r)
<1> SUFFICES ASSUME NEW k \in DOMAIN r.queue
             PROVE  /\ InLine(r.queue[k]) /\ Position(r, k) = Rest(r.queue[k])
                    /\ k > 1 => r.queue[k].seen = <<>>
  BY DEF Placed
<1>2. r.queue # <<>> /\ r.queue \in Seq(Event) /\ k \in Nat \ {0}  BY TransactionFields
<1>3. EventList(r) = r.queue /\ r.status = "EInFilter"  BY <1>2 DEF EventList
<1>4. CASE k > 1
  <2>1. r.queue[k].seen = <<>>  BY <1>2, <1>4 DEF Queued
  <2>2. InLine(r.queue[k]) /\ Rest(r.queue[k]) = Step(r.queue[k].ev, r.queue[k].start)  BY <2>1, FreshIs
  <2>3. Position(r, k) = Step(r.queue[k].ev, r.queue[k].start)  BY <1>3, <1>4 DEF Position
  <2> QED BY <2>1, <2>2, <2>3
<1>5. CASE k = 1
  <2>1. InLine(r.queue[1]) /\ Rest(r.queue[1]) = Step(r.queue[1].ev, r.next)  BY <1>2, <1>3 DEF Queued
  <2>2. Position(r, 1) = Step(r.queue[1].ev, r.next)  BY <1>3 DEF Position
  <2> QED BY <1>5, <2>1, <2>2
<1> QED BY <1>2, <1>4, <1>5

\* MHFRunError returns.
LEMMA ErrorReturnsMoves ==
  ASSUME OInv, ErrorReturns
  PROVE  Moves(tr, stack, tr', stack')
<1> DEFINE t == Top(world).t
           r == tr[t]
           q == Activated(r)
<1>1. /\ stack # <<>> /\ ~IsSync(stack[Len(stack)]) /\ t = stack[Len(stack)].t /\ stack[Len(stack)].kind = "error"
      /\ \/ r.life = "open" /\ r.status \in {"EInFilter", "ECancelled"} /\ RunOver(t, Activated(tr[t]))
         \/ r.life = "closed" /\ RunOver(t, Deleted(tr[t]))
  <2> HIDE DEF t
  <2> QED BY Ordered, ErrorReturnsIs DEF t
<1> HIDE DEF t
<1>2. r \in Transaction /\ ~r.sync /\ ~r.active /\ t \in Tx  BY <1>1, Ordered, RunIs
<1>3. Queued(r)  BY <1>2, OrderlyIs
<1>4. CASE r.life = "open" /\ r.status \in {"EInFilter", "ECancelled"} /\ RunOver(t, q)
  <2>1. Len(stack) = 1  BY <1>1, Ordered, TopIsMine
  <2>2. r.status = "ECancelled" => r.queue = <<>>  BY <1>1, <2>1, Ordered DEF Regretless
  <2>3. Placed(r)  BY <1>2, <1>3, <1>4, <2>2, ErrorPlaced
  <2>4. q \in Transaction  BY <1>2, <1>4, ActivatedRests
  <2> HIDE DEF r
  <2>5. Queued(q) /\ Sent(q) /\ Passed(r, q)  BY <1>2, <2>3, ActivatedInOrder
  <2> HIDE DEF q
  <2> QED BY <1>1, <1>2, <1>4, <2>4, <2>5, RunOverMoves DEF r
<1>5. CASE r.life = "closed" /\ RunOver(t, Deleted(tr[t]))  BY <1>1, <1>5, DeletedMoves
<1> QED BY <1>1, <1>4, <1>5

-----------------------------------------------------------------------------
(* RunError, and nested schedulers *)

\* The transactions stay as they are.
LEMMA SameMoves ==
  ASSUME NEW T \in [Tx -> Transaction], \A u \in Tx : Fine(T[u]), NEW s, NEW z,
         Regretless(T, z), Ends(T, s, T, z)
  PROVE  Moves(T, s, T, z)
<1>1. \A u \in Tx : Passed(T[u], T[u])
  <2> SUFFICES ASSUME NEW u \in Tx PROVE Passed(T[u], T[u])  OBVIOUS
  <2>1. T[u] \in Transaction  OBVIOUS
  <2> HIDE DEF Passed
  <2> QED BY <2>1, NothingPassed
<1> HIDE DEF Passed
<1>2. Lost(T, s, T, z)  BY <1>1 DEF Lost
<1> HIDE DEF Fine, Regretless, Ends, Lost
<1> QED BY <1>2 DEF Moves

\* A filter leaves, and MHFRunError is called or the transaction deleted.
LEMMA FilterLeavesMoves ==
  ASSUME OInv, Tidy, FilterLeaves
  PROVE  Moves(tr, stack, tr', stack')
<1> DEFINE x == Top(world)
           t == x.t
<1>1. /\ stack # <<>> /\ ~IsSync(x) /\ x = stack[Len(stack)] /\ t = stack[Len(stack)].t
      /\ \/ /\ tr[t].life = "open" /\ (tr[t].status = "ECancelled" => "regret" \in Env)
            /\ \E f \in Filters : Become(W(tr, blocking, Topped(stack, ErrorCall(x, f)), sends))
         \/ tr[t].life = "closed" /\ RunOver(t, Deleted(tr[t]))
  <2>1. x = Top(world)  OBVIOUS
  <2> HIDE DEF x
  <2> QED BY <2>1, Ordered, FilterLeavesIs
<1> HIDE DEF x
<1>2. CASE tr[t].life = "closed" /\ RunOver(t, Deleted(tr[t]))  BY <1>1, <1>2, DeletedMoves
<1>3. ASSUME NEW f \in Filters, tr[t].status # "ECancelled",
             Become(W(tr, blocking, Topped(stack, ErrorCall(x, f)), sends))
      PROVE  Moves(tr, stack, tr', stack')
  <2> DEFINE y == ErrorCall(x, f)
             z == Topped(stack, y)
  <2>1. Len(stack) = 1 /\ x \in Frame /\ stack \in Seq(Frame)  BY <1>1, Ordered, TopIsMine
  <2>2. y \in Frame /\ y.t = t  BY <1>1, <2>1, AsyncCalls
  <2> HIDE DEF y
  <2>3. z[1] = y  BY <1>1, <2>1, <2>2, ToppedIs
  <2> HIDE DEF z
  <2>4. Regretless(tr, z)  BY <1>3, <2>2, <2>3 DEF Regretless
  <2>5. Ends(tr, stack, tr, z)  BY <1>1, NoneEnds
  <2>6. Moves(tr, stack, tr, z)
    <3> HIDE DEF Fine
    <3> QED BY <2>4, <2>5, Ordered, SameMoves
  <2>7. Become(W(tr, blocking, z, sends))  BY <1>3 DEF y, z
  <2> QED BY <2>6, <2>7, Moved
<1> QED BY <1>1, <1>2, <1>3 DEF Tidy

\* A nested scheduler starts, or stops.
LEMMA SchedulersMove ==
  ASSUME OInv, StartScheduler \/ StopScheduler
  PROVE  Moves(tr, stack, tr', stack')
<1> DEFINE x == Top(world)
<1>1. /\ stack # <<>> /\ x = stack[Len(stack)] /\ x.kind = "run"
      /\ \E on \in BOOLEAN : Become(W(tr, blocking, Topped(stack, Nested(x, on)), sends))
  <2> HIDE DEF x
  <2> QED BY Ordered, SchedulersAre DEF x
<1> HIDE DEF x
<1>2. ~IsSync(x)  BY <1>1 DEF IsSync
<1>3. PICK on \in BOOLEAN : Become(W(tr, blocking, Topped(stack, Nested(x, on)), sends))  BY <1>1
<1> DEFINE y == Nested(x, on)
           z == Topped(stack, y)
<1>4. Len(stack) = 1 /\ x \in Frame /\ stack \in Seq(Frame)  BY <1>1, <1>2, Ordered, TopIsMine
<1>5. y \in Frame /\ y.kind = "run"  BY <1>1, <1>2, <1>4, AsyncCalls
<1> HIDE DEF y
<1>6. z[1] = y  BY <1>1, <1>4, <1>5, ToppedIs
<1> HIDE DEF z
<1>7. Regretless(tr, z)  BY <1>5, <1>6, NoError
<1>8. Ends(tr, stack, tr, z)  BY <1>1, <1>2, NoneEnds
<1>9. Moves(tr, stack, tr, z)
  <2> HIDE DEF Fine
  <2> QED BY <1>7, <1>8, Ordered, SameMoves
<1>10. Become(W(tr, blocking, z, sends))  BY <1>3 DEF y, z
<1> QED BY <1>9, <1>10, Moved

-----------------------------------------------------------------------------
(* SendEvent *)

\* The event is the last one of the queue.
LEMMA AppendedQueue ==
  ASSUME NEW r \in Transaction, ~r.sync, NEW e \in Event
  PROVE  /\ AppendEvent(r, e).queue = Append(r.queue, e)
         /\ Len(AppendEvent(r, e).queue) = Len(r.queue) + 1
         /\ AppendEvent(r, e).queue[Len(r.queue) + 1] = e
         /\ \A k \in DOMAIN AppendEvent(r, e).queue : k \in 1 .. Len(r.queue) + 1
         /\ \A k \in 1 .. Len(r.queue) : AppendEvent(r, e).queue[k] = r.queue[k]
         /\ Len(r.queue) \in Nat
<1>1. r.queue \in Seq(Event)  BY TransactionFields
<1> DEFINE z == Append(r.queue, e)
<1>2. AppendEvent(r, e) = [r EXCEPT !.queue = z]  BY DEF AppendEvent
<1>3. Len(z) = Len(r.queue) + 1 /\ z[Len(r.queue) + 1] = e /\ DOMAIN z = 1 .. Len(r.queue) + 1
      /\ (\A k \in 1 .. Len(r.queue) : z[k] = r.queue[k]) /\ Len(r.queue) \in Nat
  BY <1>1
<1> HIDE DEF z
<1>4. AppendEvent(r, e).queue = z  BY <1>2 DEF Transaction
<1> QED BY <1>3, <1>4 DEF z

\* Behind others it waits.
LEMMA AppendedInOrder ==
  ASSUME NEW r \in Transaction, ~r.sync, Queued(r), NEW e \in Event, e.seen = <<>>,
         r.queue = <<>> => r.status = "ECancelled"
  PROVE  Queued(AppendEvent(r, e))
<1> DEFINE q == AppendEvent(r, e)
           n == Len(r.queue)
<1>1. q.status = r.status /\ q.next = r.next  BY AppendEventIs
<1>2. /\ n \in Nat /\ q.queue[n + 1] = e /\ (\A k \in DOMAIN q.queue : k \in 1 .. n + 1)
      /\ \A k \in 1 .. n : q.queue[k] = r.queue[k]
  BY AppendedQueue
<1>3. r.queue \in Seq(Event)  BY TransactionFields
<1>4. InLine(e) /\ Rest(e) = Step(e.ev, e.start)  BY FreshIs
<1>5. r.queue # <<>> => n > 0 /\ DOMAIN r.queue = 1 .. n  BY <1>3
<1>6. r.queue = <<>> => n = 0  OBVIOUS
<1> HIDE DEF q, n
<1>7. CASE r.queue = <<>>
  <2>1. q.queue[1] = e /\ \A k \in DOMAIN q.queue : k = 1  BY <1>2, <1>6, <1>7
  <2> QED BY <1>1, <1>4, <1>7, <2>1 DEF Queued, q
<1>8. CASE r.queue # <<>>
  <2>1. q.queue[1] = r.queue[1]  BY <1>2, <1>5, <1>8
  <2>2. \A k \in DOMAIN q.queue : k > 1 => q.queue[k].seen = <<>>
    <3> SUFFICES ASSUME NEW k \in DOMAIN q.queue, k > 1 PROVE q.queue[k].seen = <<>>  OBVIOUS
    <3>1. k = n + 1 \/ k \in 1 .. n  BY <1>2
    <3>2. CASE k = n + 1  BY <1>2, <3>2
    <3>3. CASE k \in 1 .. n
      <4>1. r.queue[k].seen = <<>>  BY <1>5, <1>8, <3>3 DEF Queued
      <4> QED BY <1>2, <3>3, <4>1
    <3> QED BY <3>1, <3>2, <3>3
  <2> QED BY <1>1, <1>8, <2>1, <2>2 DEF Queued, q
<1> QED BY <1>7, <1>8

\* Alone it begins.
LEMMA AppendedPlaced ==
  ASSUME NEW r \in Transaction, ~r.sync, r.queue = <<>>, r.status = "EPassive", NEW e \in Event, e.seen = <<>>
  PROVE  Placed(AppendEvent(r, e))
<1> DEFINE q == AppendEvent(r, e)
<1>1. q.status = "EPassive" /\ q.sync = r.sync  BY AppendEventIs
<1>2. (\A k \in DOMAIN q.queue : k = 1) /\ q.queue[1] = e
  <2>1. Len(r.queue) = 0  OBVIOUS
  <2> QED BY <2>1, AppendedQueue
<1>3. InLine(e) /\ Rest(e) = Step(e.ev, e.start)  BY FreshIs
<1> HIDE DEF q
<1>4. EventList(q) = q.queue  BY <1>1 DEF EventList
<1>5. Position(q, 1) = Step(e.ev, e.start)  BY <1>1, <1>2, <1>4 DEF Position
<1> QED BY <1>2, <1>3, <1>5 DEF Placed, q

\* While a synchronous event is on its way, only the client sends, and out of the end of
\* the chain.
LEMMA SyncAtClient ==
  ASSUME NEW T, NEW b, NEW s, Good(T, b, s), Calling(s), NEW t \in Tx, T[t].sync, T[t].life = "open"
  PROVE  /\ s # <<>> /\ IsSync(s[Len(s)])
         /\ T[t].next = Client /\ T[t].status = "EInFilter" /\ T[t].queue = <<>>
<1>1. Fits(t, T[t], s) /\ s \in Seq(Frame) /\ Lined(s)  BY DEF Good
<1>2. Mine(s, t) # {}  BY <1>1 DEF Fits, Resting
<1>3. PICK i \in Mine(s, t) : \A j \in Mine(s, t) : j <= i  BY <1>1, <1>2, LastCall
<1>4. i \in DOMAIN s /\ DOMAIN s = 1 .. Len(s) /\ Len(s) \in Nat  BY <1>1, <1>3 DEF Mine
<1>5. IsSync(s[i]) /\ InSync(T[t], s[i], Runs(s, t))  BY <1>1, <1>3 DEF Fits, InRunL
<1>6. s[i].turn = "in" /\ s[i].f = Client  BY <1>4, <1>5, OnlyFailures
<1>7. T[t].next = Client /\ T[t].status = "EInFilter" /\ T[t].queue = <<>>  BY <1>5, <1>6 DEF InSync
<1>8. s # <<>> /\ Len(s) \in DOMAIN s  BY <1>4
<1>9. IsSync(s[Len(s)])
  <2> SUFFICES ASSUME ~IsSync(s[Len(s)]) PROVE FALSE  OBVIOUS
  <2>1. Len(s) = 1  BY <1>1, <1>8 DEF Lined
  <2>2. i = Len(s)  BY <1>4, <2>1
  <2> QED BY <1>5, <2>2
<1> QED BY <1>7, <1>8, <1>9

\* No filter that has left sends after a cancellation.
LEMMA NoneRegrets ==
  ASSUME OInv, Tidy, NEW t \in Tx, NoRegret(t) \/ Scheduling, tr[t].status = "ECancelled",
         stack # <<>>, stack[1].kind = "error", stack[1].t = t
  PROVE  FALSE
<1>1. stack \in Seq(Frame) /\ Lined(stack)  BY Ordered DEF Good
<1>2. 1 \in DOMAIN stack /\ Len(stack) \in DOMAIN stack  BY <1>1
<1>3. CASE NoRegret(t)  BY <1>2, <1>3 DEF NoRegret, Tidy
<1>4. CASE Scheduling
  <2>1. Top(world) = stack[Len(stack)]  BY DEF Top, world
  <2>2. stack[Len(stack)].nested  BY <1>4, <2>1 DEF Scheduling
  <2>3. stack[Len(stack)].kind = "run"  BY <1>1, <1>2, <2>2 DEF Lined
  <2>4. Len(stack) = 1  BY <1>1, <1>2, <2>3 DEF Lined, IsSync
  <2> QED BY <2>3, <2>4
<1> QED BY <1>3, <1>4

\* Client, filters and protocol handler send.
LEMMA SendsMove ==
  ASSUME OInv, Tidy, NEW t \in Tx, ClientSubmits(t) \/ HandlerSends(t) \/ FilterSends(t)
  PROVE  Moves(tr, stack, tr', stack')
<1> DEFINE r == tr[t]
<1>1. PICK ev \in Events, handle \in Handles :
         /\ Calling(stack) /\ r.life = "open" /\ sends < MaxSends /\ ValidHandle(tr[t], handle)
         /\ Become(SendEvent(world, t, ev, handle))
         /\ stack # <<>> /\ IsSync(stack[Len(stack)]) => handle = EClient
         /\ NoRegret(t) \/ Scheduling
  BY Ordered, SendsAre
<1>2. /\ Good(tr, blocking, stack) /\ tr \in [Tx -> Transaction] /\ stack \in Seq(Frame) /\ \A u \in Tx : Fine(tr[u])
      /\ Regretless(tr, stack) /\ r \in Transaction /\ Queued(r) /\ Sent(r) /\ world = W(tr, blocking, stack, sends)
  BY Ordered, OrderlyIs, WorldBegins
<1> DEFINE e == Begun(ev, StartFilter(r, handle))
           q == AppendEvent(r, e)
           a == Activated(q)
<1>3. /\ q \in Transaction /\ e \in Event
      /\ r.status # "EPassive" => Become(W(Upd(tr, t, q), blocking, stack, sends + 1))
      /\ r.status = "EPassive" =>
           /\ Become(W(Upd(tr, t, a), blocking, stack, sends + 1))
           /\ Mine(stack, t) = {} /\ Resting(r) /\ ~q.sync /\ ~q.active /\ q.life = "open"
  BY <1>1, <1>2, SendIs
<1>4. e.seen = <<>> /\ e.start = StartFilter(r, handle)  BY DEF Begun
<1>5. ASSUME NEW p \in Transaction, Queued(p), Sent(p), Passed(r, p), p.status = "ECancelled" => r.status = "ECancelled",
             Become(W(Upd(tr, t, p), blocking, stack, sends + 1))
      PROVE  Moves(tr, stack, tr', stack')
  <2>1. Regretless(Upd(tr, t, p), stack)
    <3>1. stack # <<>> => stack[1].t \in Tx
      <4>1. stack # <<>> => stack[1] \in Frame  BY <1>2
      <4> QED BY <4>1, FrameKinds
    <3>2. ~(p.status = "ECancelled" /\ stack # <<>> /\ stack[1].kind = "error" /\ stack[1].t = t)
      BY <1>1, <1>5, NoneRegrets
    <3> QED BY <1>2, <3>1, <3>2, RegretKeeps
  <2>2. Ends(tr, stack, Upd(tr, t, p), stack)
    <3>1. stack # <<>> => Len(stack) \in DOMAIN stack  BY <1>2
    <3> QED BY <3>1, NothingEnds
  <2> HIDE DEF r
  <2>3. Moves(tr, stack, Upd(tr, t, p), stack)  BY <1>2, <1>5, <2>1, <2>2, OneMoves DEF r
  <2> QED BY <1>5, <2>3, Moved
<1> HIDE DEF e
<1>6. CASE r.status = "EPassive"
  <2>1. ~r.sync /\ r.queue = <<>>  BY <1>1, <1>3, <1>6 DEF Resting
  <2>2. Placed(q)  BY <1>2, <1>3, <1>4, <1>6, <2>1, AppendedPlaced
  <2>3. q \in Transaction /\ ~q.sync /\ ~q.active /\ q.life = "open"  BY <1>3, <1>6
  <2> HIDE DEF q
  <2>4. a \in Transaction /\ Resting(a) /\ a.life = "open"  BY <2>3, ActivatedRests
  <2>5. Queued(a) /\ Sent(a)  BY <2>2, <2>3, ActivatedInOrder
  <2> HIDE DEF a
  <2>6. a.queue \in Seq(Event)  BY <2>4, TransactionFields
  <2>7. Passed(r, a)
    <3>1. Len(r.queue) = 0 /\ Len(a.queue) \in Nat  BY <2>1, <2>6
    <3>2. 1 .. Len(r.queue) - Len(a.queue) = {}  BY <3>1
    <3> QED BY <3>2 DEF Passed
  <2>8. a.status # "ECancelled"  BY <2>4 DEF Resting
  <2>9. Become(W(Upd(tr, t, a), blocking, stack, sends + 1))  BY <1>3, <1>6
  <2> QED BY <1>5, <2>4, <2>5, <2>7, <2>8, <2>9
<1>7. CASE r.status # "EPassive" /\ ~r.sync
  <2>1. r.queue = <<>> => r.status = "ECancelled"  BY <1>1, <1>2, <1>7, StatusIs
  <2>2. Queued(q)  BY <1>2, <1>3, <1>4, <1>7, <2>1, AppendedInOrder
  <2>3. q.status = r.status /\ q.sync = r.sync  BY <1>2, <1>3, AppendEventIs
  <2>4. Len(q.queue) = Len(r.queue) + 1 /\ Len(r.queue) \in Nat  BY <1>2, <1>3, <1>7, AppendedQueue
  <2> HIDE DEF q
  <2>5. Sent(q)  BY <1>7, <2>3 DEF Sent
  <2>6. Passed(r, q)
    <3>1. 1 .. Len(r.queue) - Len(q.queue) = {}  BY <2>4
    <3> QED BY <3>1 DEF Passed
  <2> QED BY <1>3, <1>5, <1>7, <2>2, <2>3, <2>5, <2>6
<1>8. CASE r.status # "EPassive" /\ r.sync
  <2>1. /\ stack # <<>> /\ IsSync(stack[Len(stack)])
        /\ r.next = Client /\ r.status = "EInFilter" /\ r.queue = <<>>
    BY <1>1, <1>2, <1>8, SyncAtClient
  <2>2. e.start = Client  BY <1>1, <1>4, <2>1 DEF StartFilter, EClient, EProtocolHandler
  <2>3. /\ q.status = r.status /\ q.sync = r.sync /\ q.next = r.next /\ q.queue = r.queue /\ q.syncEvent = e
    BY <1>2, <1>3, <1>8, AppendEventIs
  <2> HIDE DEF q
  <2>4. InLine(e) /\ Rest(e) = Step(e.ev, e.start)  BY <1>4, FreshIs
  <2>5. Queued(q)  BY <2>1, <2>3 DEF Queued
  <2>6. Sent(q)  BY <2>1, <2>2, <2>3, <2>4 DEF Sent
  <2>7. Passed(r, q)  BY <1>2, <2>3, NothingPassed
  <2> QED BY <1>3, <1>5, <1>8, <2>3, <2>5, <2>6, <2>7
<1> QED BY <1>6, <1>7, <1>8

-----------------------------------------------------------------------------
(* Synchronous events *)

\* A synchronous event begins, and the queue of its transaction is empty.
LEMMA PushMoves ==
  ASSUME OInv, NEW t \in Tx, NEW r \in Transaction, r.queue = <<>>, NEW e \in Event, e.seen = <<>>,
         NEW x \in Frame, IsSync(x),
         Become(W(Upd(tr, t, Synced(r, e)), blocking, Append(stack, x), sends))
  PROVE  Moves(tr, stack, tr', stack')
<1> DEFINE q == Synced(r, e)
           z == Append(stack, x)
<1>1. /\ tr \in [Tx -> Transaction] /\ stack \in Seq(Frame) /\ \A u \in Tx : Fine(tr[u]) /\ Regretless(tr, stack)
  BY Ordered
<1>2. q \in Transaction /\ q.sync /\ q.syncEvent = e /\ q.status = "EPassive" /\ q.queue = <<>>  BY SyncedIs
<1>3. /\ Len(z) = Len(stack) + 1 /\ Len(stack) \in Nat
      /\ stack # <<>> => Len(stack) \in DOMAIN z /\ z[Len(stack)] = stack[Len(stack)]
  <2>1. stack # <<>> => Len(stack) \in DOMAIN stack  BY <1>1
  <2> QED BY <1>1, <2>1, AppendIs
<1>4. z[1].kind = "error" => stack # <<>> /\ stack[1].kind = "error" /\ z[1].t = stack[1].t /\ stack[1].t \in Tx
  BY <1>1, Bottom
<1>5. Become(W(Upd(tr, t, q), blocking, z, sends))  OBVIOUS
<1> HIDE DEF q, z
<1>6. Queued(q)  BY <1>2 DEF Queued
<1>7. Sent(q)  BY <1>2, FreshIs DEF Sent
<1>8. Len(z) <= Len(stack) => Passed(tr[t], q)  BY <1>3
<1>9. Regretless(Upd(tr, t, q), z)  BY <1>1, <1>2, <1>4, RegretKeeps
<1>10. Ends(tr, stack, Upd(tr, t, q), z)  BY <1>3, NothingEnds
<1>11. Moves(tr, stack, Upd(tr, t, q), z)  BY <1>1, <1>2, <1>6, <1>7, <1>8, <1>9, <1>10, OneMoves
<1> QED BY <1>5, <1>11, Moved

\* Cancel, Close and Fail begin with the same event.
LEMMA CancelsAre ==
  ASSUME IInv, NEW t \in Tx, Cancel(t) \/ Close(t) \/ Fail(t)
  PROVE  \E op \in {"cancel", "close", "fail"}, handle \in Handles :
           ValidHandle(tr[t], handle) /\ Become(CancelTransaction(world, t, op, handle))
<1>1. tr[t].life = "open"  BY DEF Cancel, Close, Fail, Open
<1>2. EClient \in Handles /\ EProtocolHandler \in Handles /\ ECurrentFilter \in Handles  BY DEF Handles
<1>3. ValidHandle(tr[t], EClient) /\ ValidHandle(tr[t], EProtocolHandler)
  BY DEF ValidHandle, EClient, EProtocolHandler, ECurrentFilter
<1>4. CASE Cancel(t)
  <2>1. CASE Become(CancelTransaction(world, t, "cancel", EClient))  BY <1>2, <1>3, <2>1
  <2>2. CASE InAsyncFilter(t) /\ Become(CancelTransaction(world, t, "cancel", ECurrentFilter))
    <3>1. InFilter(t) /\ ~IsSync(Top(world))  BY <2>2 DEF InAsyncFilter, IsSync
    <3>2. ValidHandle(tr[t], ECurrentFilter)  BY <1>1, <3>1, FilterHandle
    <3> QED BY <1>2, <2>2, <3>2
  <2> QED BY <1>4, <2>1, <2>2 DEF Cancel
<1>5. CASE Close(t)
  <2>1. Become(CancelTransaction(world, t, "close", EClient))  BY <1>5 DEF Close
  <2> QED BY <1>2, <1>3, <2>1
<1>6. CASE Fail(t)
  <2>1. CASE Become(CancelTransaction(world, t, "fail", EProtocolHandler))  BY <1>2, <1>3, <2>1
  <2>2. CASE InFilter(t) /\ Top(world).kind = "error" /\ Become(CancelTransaction(world, t, "fail", ECurrentFilter))
    <3>1. ~IsSync(Top(world))  BY <2>2 DEF IsSync
    <3>2. ValidHandle(tr[t], ECurrentFilter)  BY <1>1, <2>2, <3>1, FilterHandle
    <3> QED BY <1>2, <2>2, <3>2
  <2> QED BY <1>6, <2>1, <2>2 DEF Fail
<1> QED BY <1>4, <1>5, <1>6

\* They empty the queue and send it.
LEMMA CancelsMove ==
  ASSUME OInv, NEW t \in Tx, Cancel(t) \/ Close(t) \/ Fail(t)
  PROVE  Moves(tr, stack, tr', stack')
<1>1. PICK op \in {"cancel", "close", "fail"}, handle \in Handles :
         ValidHandle(tr[t], handle) /\ Become(CancelTransaction(world, t, op, handle))
  BY Ordered, CancelsAre
<1>2. tr \in [Tx -> Transaction] /\ tr[t] \in Transaction /\ world = W(tr, blocking, stack, sends)
  BY Ordered, OrderlyIs, WorldBegins
<1> DEFINE r == Stopped(tr[t])
           e == Begun("ECancel", StartFilter(r, handle))
           x == SyncCall(r, t, op, "ECancel", handle, "EPassive")
<1>3. r \in Transaction /\ r.queue = <<>>  BY <1>2, StoppedIs
<1>4. Become(W(Upd(tr, t, Synced(r, e)), blocking, Append(stack, x), sends))  BY <1>1, <1>2, CancelTurns
<1> HIDE DEF r
<1>5. "ECancel" \in Events /\ "EPassive" \in States /\ op \in {"cancel", "close", "fail", "cipher"}
  BY DEF Events, Outgoing, States
<1>6. e \in Event /\ e.seen = <<>>  BY <1>3, <1>5, StartIs DEF Begun
<1>7. x \in Frame /\ IsSync(x)  BY <1>3, <1>5, SyncCallIs
<1> HIDE DEF e, x
<1> QED BY <1>3, <1>4, <1>6, <1>7, PushMoves

\* CipherSuite sends its own when there are no events.
LEMMA CipherSuiteMoves ==
  ASSUME OInv, Tidy, NEW t \in Tx, CipherSuite(t)
  PROVE  Moves(tr, stack, tr', stack')
<1> DEFINE r == tr[t]
           e == Begun("EGetCipherSuite", StartFilter(r, EClient))
           x == SyncCall(r, t, "cipher", "EGetCipherSuite", EClient, "EPassive")
<1>1. /\ EventList(r) = <<>>
      /\ Become(SynchronousSendEvent(world, t, "cipher", "EGetCipherSuite", EClient, "EPassive"))
  BY DEF CipherSuite, Tidy, Careful
<1>2. r \in Transaction /\ world = W(tr, blocking, stack, sends)  BY Ordered, OrderlyIs, WorldBegins
<1>3. r.queue = <<>>
  <2>1. r.queue \in Seq(Event) /\ r.syncEvent \in Event /\ r.sync \in BOOLEAN  BY <1>2, TransactionFields
  <2>2. <<r.syncEvent>> \o r.queue # <<>>  BY <2>1
  <2> QED BY <1>1, <2>1, <2>2 DEF EventList
<1>4. ValidHandle(tr[t], EClient)  BY DEF ValidHandle, EClient, ECurrentFilter
<1>5. Become(W(Upd(tr, t, Synced(r, e)), blocking, Append(stack, x), sends))  BY <1>1, <1>2, <1>4, SyncTurns
<1>6. "EGetCipherSuite" \in Events /\ "EPassive" \in States /\ EClient \in Handles
  BY DEF Events, Outgoing, States, Handles
<1>7. e \in Event /\ e.seen = <<>>  BY <1>2, <1>6, StartIs DEF Begun
<1>8. x \in Frame /\ IsSync(x)  BY <1>2, <1>6, SyncCallIs
<1> HIDE DEF e, x, r
<1> QED BY <1>2, <1>3, <1>5, <1>7, <1>8, PushMoves DEF r

\* A call of SynchronousSendEvent goes on: another one has its place on the stack.
LEMMA TurnMoves ==
  ASSUME OInv, stack # <<>>, IsSync(stack[Len(stack)]), NEW t \in Tx, tr[t].queue = <<>>,
         NEW q \in Transaction, q.queue = <<>>, Sent(q), NEW y \in Frame, IsSync(y),
         y.ev = stack[Len(stack)].ev,
         Become(W(Upd(tr, t, q), blocking, Topped(stack, y), sends))
  PROVE  Moves(tr, stack, tr', stack')
<1> DEFINE z == Topped(stack, y)
<1>1. /\ tr \in [Tx -> Transaction] /\ stack \in Seq(Frame) /\ \A u \in Tx : Fine(tr[u]) /\ Regretless(tr, stack)
  BY Ordered
<1>2. Len(stack) \in DOMAIN z /\ z[Len(stack)] = y  BY <1>1, ToppedIs
<1>3. z[1].kind = "error" => stack # <<>> /\ stack[1].kind = "error" /\ z[1].t = stack[1].t /\ stack[1].t \in Tx
  BY <1>1, Bottom
<1> HIDE DEF z
<1>4. Queued(q)  BY DEF Queued
<1>5. Passed(tr[t], q)  BY <1>1, NothingPassed
<1>6. Regretless(Upd(tr, t, q), z)  BY <1>1, <1>3, RegretKeeps
<1>7. Ends(tr, stack, Upd(tr, t, q), z)  BY <1>2, NothingEnds
<1>8. Moves(tr, stack, Upd(tr, t, q), z)  BY <1>1, <1>4, <1>5, <1>6, <1>7, OneMoves
<1> QED BY <1>8, Moved DEF z

\* A filter returns to it.
LEMMA SyncFilterReturnsMoves ==
  ASSUME OInv, SyncFilterReturns
  PROVE  Moves(tr, stack, tr', stack')
<1> DEFINE x == Top(world)
           t == x.t
           r == tr[t]
           q == LeaveFilter(r)
           y == InTurn(x, "next")
<1>1. /\ stack # <<>> /\ x = stack[Len(stack)] /\ IsSync(x) /\ x.turn = "in"
      /\ Become(W(Upd(tr, t, LeaveFilter(tr[t])), blocking, Topped(stack, InTurn(x, "next")), sends))
  BY Ordered, SyncFilterReturnsIs
<1>2. x \in Frame /\ t \in Tx /\ r \in Transaction /\ InSync(r, x, Runs(stack, t))
  BY <1>1, Ordered, TopIsMine
<1>3. Sent(r) /\ r.queue = <<>>  BY <1>2, OrderlyIs DEF InSync
<1>4. /\ q \in Transaction /\ q.sync = r.sync /\ q.next = r.next /\ q.queue = r.queue /\ q.syncEvent = r.syncEvent
      /\ r.status = "EInFilter" => q.status = "EFilter"
      /\ r.status \notin {"EInFilter", "ECancelled"} => q = r
  BY <1>2, LeaveIs
<1>5. r.sync => r.status = "EInFilter"
  <2>1. r.life \in Lives  BY <1>2, TransactionFields
  <2> QED BY <1>1, <1>2, <2>1 DEF InSync, Lives
<1>6. y \in Frame /\ IsSync(y) /\ y.ev = x.ev
  <2> HIDE DEF x
  <2> QED BY <1>1, <1>2, TurnIs
<1> HIDE DEF y, q, x
<1>7. Sent(q)  BY <1>3, <1>4, <1>5 DEF Sent
<1> QED BY <1>1, <1>2, <1>3, <1>4, <1>6, <1>7, TurnMoves DEF q, y

\* The event of a turn goes on after its last filter.
LEMMA SentPlace ==
  ASSUME NEW r \in Transaction, r.sync, Sent(r)
  PROVE  InLine(r.syncEvent) /\ Place(r) = Rest(r.syncEvent)
<1>1. InLine(r.syncEvent)  BY DEF Sent
<1>2. r.status = "EPassive" => Rest(r.syncEvent) = Step(r.syncEvent.ev, r.syncEvent.start)
  BY FreshIs DEF Sent
<1> QED BY <1>1, <1>2 DEF Sent, Place

\* A turn of its loop, or its end.
LEMMA NextSyncFilterMoves ==
  ASSUME OInv, NextSyncFilter
  PROVE  Moves(tr, stack, tr', stack')
<1> DEFINE x == Top(world)
           t == x.t
           o == tr[t]
           r == FindNextFilter(o)
           e == o.syncEvent
<1>1. /\ stack # <<>> /\ x = stack[Len(stack)] /\ IsSync(x) /\ t \in Tx /\ x \in Frame
      /\ o \in Transaction /\ InSync(o, x, Runs(stack, t)) /\ o.queue = <<>>
  BY Ordered, NextTurn
<1>2. Sent(o)  BY <1>1, OrderlyIs
<1>3. /\ tr \in [Tx -> Transaction] /\ stack \in Seq(Frame) /\ \A u \in Tx : Fine(tr[u]) /\ Regretless(tr, stack)
  BY Ordered
<1>4. o.life = "open" => o.sync /\ InLine(e) /\ Place(o) = Rest(e)
  <2>1. o.life = "open" => o.sync  BY <1>1 DEF InSync
  <2> QED BY <1>1, <1>2, <2>1, SentPlace
<1>5. CASE o.life = "open" /\ r.status # "EPassive"
  <2> DEFINE q == EnterFilter(r)
             y == FrameIn(x, r.next)
  <2>1. r.next \in Filters /\ Become(W(Upd(tr, t, q), blocking, Topped(stack, y), sends))
    BY <1>5, Ordered, NextSyncFilterIs
  <2>2. Onward(e.ev, Place(o)) # {}  BY <1>1, <1>4, <1>5, FindOfSync
  <2>3. r \in Transaction /\ r.queue = <<>> /\ r.sync /\ r.next = First(e.ev, Place(o)) /\ Kept(r, o)
    BY <1>1, <1>4, <1>5, <2>2, FindOfSync
  <2>4. r.syncEvent = e /\ e \in Event  BY <1>1, <2>3, TransactionFields DEF Kept
  <2>5. y \in Frame /\ IsSync(y) /\ y.ev = x.ev
    <3> HIDE DEF x, r
    <3> QED BY <1>1, <2>1, FrameInIs
  <2> HIDE DEF r, y
  <2>6. /\ q \in Transaction /\ q.status = "EInFilter" /\ q.sync /\ q.next = r.next /\ q.queue = <<>>
        /\ q.syncEvent = Visit(e, r.next)
    BY <2>1, <2>3, <2>4, EnterIs
  <2>7. InLine(Visit(e, r.next)) /\ Rest(Visit(e, r.next)) = Step(e.ev, r.next) /\ Visit(e, r.next).ev = e.ev
    BY <1>4, <1>5, <2>1, <2>2, <2>3, <2>4, VisitInLine, VisitTyped
  <2> HIDE DEF q
  <2>8. Sent(q)  BY <2>6, <2>7 DEF Sent
  <2> HIDE DEF x
  <2> QED BY <1>1, <2>1, <2>5, <2>6, <2>8, TurnMoves
<1>6. CASE o.life = "open" => r.status = "EPassive"
  <2>1. PICK q, z : /\ Become(W(Upd(tr, t, q), blocking, z, sends)) /\ Good(Upd(tr, t, q), blocking, z)
                    /\ Restarts(q) /\ Under(stack, z) /\ (o.life # "open" => q.status = "EExiting")
    BY <1>6, Ordered, SyncEventOver
  <2>2. q \in Transaction /\ q.queue = <<>> /\ (q.sync => q.status = "EPassive" /\ q.syncEvent.seen = <<>>)
    BY <2>1 DEF Restarts
  <2>3. Queued(q)  BY <2>2 DEF Queued
  <2>4. Sent(q)  BY <2>2, FreshIs DEF Sent
  <2>5. Passed(o, q)  BY <1>1, <2>2, NothingPassed
  <2>6. z # <<>> /\ z[1].kind = "error" =>
          stack # <<>> /\ stack[1].kind = "error" /\ z[1].t = stack[1].t /\ stack[1].t \in Tx
    BY <1>1, <1>3, <2>1, Bottom
  <2>7. Regretless(Upd(tr, t, q), z)  BY <1>1, <1>3, <2>2, <2>6, RegretKeeps
  <2>8. o.life = "open" => Visited(e) = Path(e)
    <3> SUFFICES ASSUME o.life = "open" PROVE Visited(e) = Path(e)  OBVIOUS
    <3>1. Onward(e.ev, Place(o)) = {}
      <4>1. Onward(e.ev, Place(o)) # {} => r.status = "EFilter"  BY <1>1, <1>4, FindOfSync
      <4> QED BY <1>6, <4>1
    <3> HIDE DEF e, o
    <3> QED BY <1>4, <3>1 DEF InLine
  <2>9. o.life # "open" => q.status = "EExiting"  BY <2>1
  <2>10. Ends(tr, stack, Upd(tr, t, q), z)
    <3>1. Upd(tr, t, q)[t] = q  BY <1>1, <1>3, <2>2, UpdTransaction
    <3> HIDE DEF o
    <3> QED BY <1>1, <2>8, <2>9, <3>1 DEF Ends, o
  <2> HIDE DEF o, x
  <2>11. Moves(tr, stack, Upd(tr, t, q), z)
    BY <1>1, <1>3, <2>2, <2>3, <2>4, <2>5, <2>7, <2>10, OneMoves DEF o
  <2> QED BY <2>1, <2>11, Moved
<1> QED BY <1>5, <1>6

-----------------------------------------------------------------------------
(* The theorems *)

\* Every step moves the events in order.
LEMMA NextMoves ==
  ASSUME OInv, [Next]_vars, Tidy
  PROVE  Moves(tr, stack, tr', stack')
<1>1. CASE \E t \in Tx : RunL(t) \/ Calls(t)
  <2>1. PICK t \in Tx : RunL(t) \/ Calls(t)  BY <1>1
  <2>2. CASE RunL(t)  BY <2>2, RunLMoves
  <2>3. CASE ClientSubmits(t) \/ HandlerSends(t) \/ FilterSends(t)  BY <2>3, SendsMove
  <2>4. CASE Cancel(t) \/ Close(t) \/ Fail(t)  BY <2>4, CancelsMove
  <2>5. CASE CipherSuite(t)  BY <2>5, CipherSuiteMoves
  <2> QED BY <2>1, <2>2, <2>3, <2>4, <2>5 DEF Calls
<1>2. CASE FilterReturns  BY <1>2, FilterReturnsMoves
<1>3. CASE SyncFilterReturns  BY <1>3, SyncFilterReturnsMoves
<1>4. CASE NextSyncFilter  BY <1>4, NextSyncFilterMoves
<1>5. CASE FilterLeaves  BY <1>5, FilterLeavesMoves
<1>6. CASE ErrorReturns  BY <1>6, ErrorReturnsMoves
<1>7. CASE StartScheduler \/ StopScheduler  BY <1>7, SchedulersMove
<1>8. CASE UNCHANGED vars
  <2>1. tr' = tr /\ stack' = stack  BY <1>8 DEF vars
  <2>2. tr \in [Tx -> Transaction] /\ stack \in Seq(Frame) /\ (\A u \in Tx : Fine(tr[u])) /\ Regretless(tr, stack)
    BY Ordered
  <2>3. stack # <<>> => Len(stack) \in DOMAIN stack  BY <2>2
  <2>4. Ends(tr, stack, tr, stack)  BY <2>3, NothingEnds
  <2>5. Moves(tr, stack, tr, stack)  BY <2>2, <2>4, SameMoves
  <2> QED BY <2>1, <2>5
<1> QED BY <1>1, <1>2, <1>3, <1>4, <1>5, <1>6, <1>7, <1>8 DEF Next

\* The invariant holds at the start,
LEMMA InitInOrder == ASSUME Init PROVE OInv
<1>1. tr = [t \in Tx |-> NewTransaction] /\ stack = <<>>  BY DEF Init
<1>2. Queued(NewTransaction) /\ Sent(NewTransaction)  BY DEF Queued, Sent, NewTransaction
<1>3. \A t \in Tx : Queued(tr[t]) /\ Sent(tr[t])
  <2> HIDE DEF Queued, Sent
  <2> QED BY <1>1, <1>2
<1>4. Regretless(tr, stack)  BY <1>1 DEF Regretless
<1> QED BY <1>3, <1>4, InitIsGood DEF OInv, Orderly

\* and after every step.
LEMMA NextInOrder ==
  ASSUME OInv, [Next]_vars, Tidy
  PROVE  OInv'
<1>1. IInv'
  <2>1. IInv /\ Careful  BY DEF OInv, Tidy
  <2> QED BY <2>1, NextKeeps
<1>2. Orderly(tr, stack)'  BY NextMoves, MovesAre
<1> QED BY <1>1, <1>2 DEF OInv

\* It implies InOrder: the first event is in order, and the others have not begun.
LEMMA OrderlyInOrder == ASSUME OInv PROVE InOrder
<1> SUFFICES ASSUME NEW t \in Tx, NEW k \in DOMAIN tr[t].queue
             PROVE  LET e == tr[t].queue[k] IN
                    /\ k > 1 => e.seen = <<>>
                    /\ \A i, j \in DOMAIN e.seen : i < j => e.seen[i] # e.seen[j] /\ Beyond(e.ev, e.seen[i], e.seen[j])
                    /\ e.seen # <<>> => Visited(e) = Path(e) \ Onward(e.ev, Step(e.ev, e.seen[Len(e.seen)]))
  BY DEF InOrder
<1> DEFINE q == tr[t].queue
           e == q[k]
<1>1. tr[t] \in Transaction /\ Queued(tr[t])  BY OrderlyIs
<1>2. q \in Seq(Event) /\ q # <<>>  BY <1>1, TransactionFields
<1>3. InLine(q[1]) /\ \A j \in DOMAIN q : j > 1 => q[j].seen = <<>>  BY <1>1, <1>2 DEF Queued
<1>4. k > 1 => e.seen = <<>>  BY <1>3
<1>5. InLine(e)
  <2>1. k = 1 \/ k > 1  BY <1>2
  <2> HIDE DEF q
  <2> QED BY <1>3, <1>4, <2>1, FreshIs
<1> HIDE DEF e
<1>6. e.seen # <<>> => Rest(e) = Step(e.ev, e.seen[Len(e.seen)])  BY DEF Rest
<1> QED BY <1>4, <1>5, <1>6 DEF InLine, e

\* The invariant is one of every behaviour.
LEMMA AlwaysOrdered == ASSUME Tidy PROVE Spec => []OInv
<1>1. Init => OInv  BY InitInOrder
<1>2. OInv /\ [Next]_vars => OInv'  BY NextInOrder
<1> QED BY <1>1, <1>2, PTL DEF Spec

\* InOrder for any session, in which no filter uses a transaction in MHFRunError that was
\* cancelled before it left: the events of a transaction go through the filters on their
\* paths one event after the other, whatever filters and clients cancel, fail and close,
\* and no filter is passed over or visited twice (CTransaction::FindNextFilter,
\* RunOneFilterL, AppendEvent and the status that SynchronousSendEvent stores).
THEOREM TransactionsInOrder == ASSUME Tidy PROVE Spec => []InOrder
<1>1. OInv => InOrder  BY OrderlyInOrder
<1> QED BY <1>1, AlwaysOrdered, PTL

\* Complete for the same sessions: FindNextFilter and RemoveEvent drop an event from the
\* queue only at the end of its path, unless CancelTransaction empties the queue, and
\* SynchronousSendEvent does not return before its event has been to all of its filters,
\* unless the transaction was closed meanwhile.
THEOREM TransactionsComplete == ASSUME Tidy PROVE Spec => Complete
<1> DEFINE A == LET n == Len(stack) IN
                /\ Len(stack') <= n =>
                     \A t \in Tx : \A k \in 1 .. Len(tr[t].queue) - Len(tr'[t].queue) :
                       Visited(tr[t].queue[k]) = Path(tr[t].queue[k])
                /\ stack # <<>> /\ Top(world).kind = "sync" /\ tr'[Top(world).t].status # "EExiting" =>
                     \/ n \in DOMAIN stack' /\ stack'[n].kind = "sync" /\ stack'[n].ev = Top(world).ev
                     \/ LET e == tr[Top(world).t].syncEvent IN Visited(e) = Path(e)
<1>1. OInv /\ [Next]_vars => [A]_vars
  <2> SUFFICES ASSUME OInv, [Next]_vars PROVE A  OBVIOUS
  <2>1. Moves(tr, stack, tr', stack')  BY NextMoves
  <2> QED BY <2>1, MovesAre
<1> HIDE DEF A
<1>2. Complete <=> [][A]_vars  BY DEF Complete, A
<1>3. Spec => []OInv  BY AlwaysOrdered
<1> QED BY <1>1, <1>2, <1>3, PTL DEF Spec
=============================================================================
