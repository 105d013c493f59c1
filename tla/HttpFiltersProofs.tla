------------------------- MODULE HttpFiltersProofs -------------------------
(***************************************************************************)
(* Theorems about the filters of the HTTP client, for any number of        *)
(* transactions, any requests and responses and any limits.                *)
(***************************************************************************)
EXTENDS HttpFilters, FiniteSetTheorems, SequenceTheorems, WellFoundedInduction, TLAPS

-----------------------------------------------------------------------------
(* The inductive invariant *)

\* Where the events of a transaction are, r being what the chain and c what the
\* client knows of it, a whether its user is asked.
Headers == E("EGotResponseHeaders", "EStatusCodeHandler")
Lasts == {E("EResponseComplete", "ETidyUp"), E("KErr", "ETidyUp")}
Failure == E("EFailed", "EClient")
Failures == Lasts \cup {Failure}
AsAsked(r, c) == [method |-> r.method, uri |-> r.uri] = c.asked
Valid(r, c) == ~RequestFails(r) /\ (r.body => AsAsked(r, c))
First(c) == c.life = "busy" /\ c.ends = <<>> /\ ~c.refused

Closed(r, c) == /\ c.life = "closed" /\ c.ends = <<>> /\ ~c.refused
                /\ r.queue = <<>> /\ r.reply = "none"
Rests(r, c) ==
  /\ c.life \in {"idle", "confirm"} /\ ~c.refused
  /\ r.queue = <<>> /\ r.reply = "none"
  /\ c.ends \in {<<>>, <<"EFailed">>} \/ (c.ends = <<"ESucceeded">> /\ r.code < 300)
Fresh(r, c) ==
  /\ First(c) /\ r.reply = "none" /\ r.queue = <<E("ESubmit", "ETidyUp")>>
  /\ AsAsked(r, c) \/ Valid(r, c)
Leaves(r, c) ==
  /\ First(c) /\ Valid(r, c) /\ r.reply = "none"
  /\ \E to \in {"EStatusCodeHandler+1", "EProtocolHandler"} : r.queue = <<E("ESubmit", to)>>
Away(r, c) ==
  /\ First(c) /\ Valid(r, c) /\ r.reply \in {"waiting", "body"} /\ r.queue = <<>>
Returns(r, c) ==
  /\ First(c) /\ Valid(r, c) /\ r.code \in {301, 302, 305, 401}
  /\ \/ r.reply = "body" /\ r.queue = <<Headers>>
     \/ r.reply = "none" /\ \E last \in Lasts : r.queue = <<Headers, last>>
Over(r, c) ==
  /\ First(c) /\ Valid(r, c) /\ r.reply = "none"
  /\ \E last \in Lasts : r.queue = <<last>>
Told(r, c) ==
  /\ First(c) /\ r.reply = "none"
  /\ \/ r.queue = <<Failure>> /\ (AsAsked(r, c) \/ Valid(r, c))
     \/ r.queue = <<E("ESucceeded", "EClient")>> /\ Valid(r, c) /\ r.code < 300
     \/ r.queue = <<E("ERedirectRequiresConfirmation", "EClient")>> /\ ~RequestFails(r)
Refused(r, c) ==
  /\ c.refused /\ Valid(r, c) /\ r.code >= 300
  /\ \/ /\ c.life = "busy" /\ c.ends = <<>>
        /\ \/ r.reply = "body" /\ \E x \in Failures : r.queue = <<x>>
           \/ r.reply = "none" /\ \E x, y \in Failures : r.queue = <<x, y>>
     \/ /\ c.life = "idle" /\ c.ends = <<"EFailed">>
        /\ \/ r.reply = "body" /\ r.queue = <<>>
           \/ r.reply = "none" /\ \E x \in Failures : r.queue = <<x>>
     \/ /\ c.life = "idle" /\ c.ends \in {<<>>, <<"EFailed", "EFailed">>}
        /\ r.reply = "none" /\ r.queue = <<>>

Placed(r, c, a) ==
  \/ Closed(r, c)
  \/ Returns(r, c) /\ (a => r.code = 401)
  \/ ~a /\ (Rests(r, c) \/ Fresh(r, c) \/ Leaves(r, c) \/ Away(r, c) \/ Over(r, c)
             \/ Told(r, c) \/ Refused(r, c))
Places == \A t \in Tx : Placed(tr[t], client[t], asking = t)

\* The credentials: each is of a realm that there is, with an identity of its own; a
\* response 401 is one to a request without the right ones; and as long as the user is
\* asked there are none.
Granted(r) ==
  \/ Realm[r.uri] = None
  \/ /\ r.authorization # None
     /\ r.authorization.realm = Realm[r.uri]
     /\ r.authorization.password = Right[Realm[r.uri]]
     /\ Scheme[Realm[r.uri]] = "EDigest" => r.authorization.uri = r.uri
Challenged(r) == r.queue # <<>> /\ Head(r.queue) = Headers /\ r.code = 401
Challenges == \A t \in Tx : Challenged(tr[t]) => ~Granted(tr[t])

Numbered ==
  /\ \A i \in DOMAIN iCredentials : /\ iCredentials[i].id < iNextID
                                    /\ \E u \in Uris : Realm[u] = iCredentials[i].realm
  /\ \A t \in Tx : tr[t].status # None => tr[t].status < iNextID

Once ==
  /\ \A i, j \in DOMAIN iCredentials : iCredentials[i].realm = iCredentials[j].realm => i = j
  /\ \A t \in Tx : asking = t /\ client[t].life # "closed" =>
       \A i \in DOMAIN iCredentials : iCredentials[i].realm # Realm[tr[t].uri]

\* With credentials of its realm that it has tried before, a request carries them.
Sent(r) == \/ r.queue = <<E("ESubmit", "EProtocolHandler")>>
           \/ r.reply # "none"
           \/ r.queue # <<>> /\ Head(r.queue) = Headers
Carries(r, c) == /\ r.authorization # None
                 /\ r.authorization.realm = c.realm /\ r.authorization.password = c.password
Tried ==
  \A t \in Tx : Sent(tr[t]) =>
    \A i \in DOMAIN iCredentials :
      iCredentials[i].id = tr[t].status /\ iCredentials[i].realm = Realm[tr[t].uri]
        => Carries(tr[t], iCredentials[i])

\* Every identity is an answer of the user, or the user of a request's URI.
Spent == {t \in Tx : client[t].life = "closed" \/ tr[t].status # None}
Counted ==
  /\ iNextID =< answers + MaxSubmits * Cardinality(Spent)
  /\ \A t \in Tx : tr[t].user # None \/ tr[t].info # None => MaxSubmits # 0

IInv == TypeOK /\ Counted /\ Places /\ Challenges
OneBasicRealm ==
  /\ \A r \in Realms : Scheme[r] = "EBasic"
  /\ \A u, v \in Uris : Host[u] = Host[v] /\ Realm[u] # None /\ Realm[v] # None => Realm[u] = Realm[v]
IInvCredentials == IInv /\ Numbered /\ Once /\ Tried
-----------------------------------------------------------------------------
(* Worlds: the one in which transaction t is r, the client knows c of it, and *)
(* the credentials and the next identity are k and n.                         *)

World(t, r, c, k, n) ==
  [tr |-> [tr EXCEPT ![t] = r], creds |-> k, next |-> n, client |-> [client EXCEPT ![t] = c]]

\* Appending to a sequence of one.
LEMMA AppendToOne == \A x, y : Append(<<x>>, y) = <<x, y>>
<1> TAKE x, y
<1>1. <<x>> \in Seq({x, y}) /\ <<x, y>> \in Seq({x, y})  OBVIOUS
<1>2. Append(<<x>>, y) \in Seq({x, y}) /\ Len(Append(<<x>>, y)) = 2
      /\ Append(<<x>>, y)[1] = x /\ Append(<<x>>, y)[2] = y
  BY <1>1, AppendProperties
<1>3. Len(<<x, y>>) = 2 /\ <<x, y>>[1] = x /\ <<x, y>>[2] = y  OBVIOUS
<1>4. \A i \in 1 .. 2 : i = 1 \/ i = 2  OBVIOUS
<1> QED BY <1>1, <1>2, <1>3, <1>4, SeqEqual

\* The short queues that there are.
LEMMA Queues ==
  /\ \A x : Head(<<x>>) = x /\ Tail(<<x>>) = <<>> /\ <<x>> # <<>>
  /\ \A x : Append(<<>>, x) = <<x>>
  /\ \A x, y : Head(<<x, y>>) = x /\ <<x, y>> # <<>>
  /\ \A x, y : Tail(<<x, y>>) = <<y>>
  /\ \A x, y, z : <<x>> # <<y, z>>
<1>1. \A x : Head(<<x>>) = x /\ Tail(<<x>>) = <<>> /\ <<x>> # <<>>  OBVIOUS
<1>2. \A x : Append(<<>>, x) = <<x>>  OBVIOUS
<1>3. \A x, y : Head(<<x, y>>) = x /\ <<x, y>> # <<>>  OBVIOUS
<1>4. \A x, y : Tail(<<x, y>>) = <<y>>  OBVIOUS
<1>5. \A x, y, z : <<x>> # <<y, z>>  OBVIOUS
<1> QED BY <1>1, <1>2, <1>3, <1>4, <1>5

\* The world a step begins in.
LEMMA WorldBegins ==
  ASSUME TypeOK, NEW t \in Tx
  PROVE  w0 = World(t, tr[t], client[t], iCredentials, iNextID)
<1>1. tr = [tr EXCEPT ![t] = tr[t]] /\ client = [client EXCEPT ![t] = client[t]]
  BY DEF TypeOK
<1> QED BY <1>1 DEF World, w0

\* What is in a world.
LEMMA WorldParts ==
  ASSUME TypeOK, NEW t \in Tx, NEW r, NEW c, NEW k, NEW n
  PROVE  /\ World(t, r, c, k, n).tr[t] = r /\ World(t, r, c, k, n).client[t] = c
         /\ World(t, r, c, k, n).creds = k /\ World(t, r, c, k, n).next = n
BY DEF World, TypeOK

Turns(t, r, c) == tr' = [tr EXCEPT ![t] = r] /\ client' = [client EXCEPT ![t] = c]

\* What becomes of a world.
LEMMA WorldEnds ==
  ASSUME NEW t, NEW r, NEW c, NEW k, NEW n, Become(World(t, r, c, k, n))
  PROVE  Turns(t, r, c) /\ iCredentials' = k /\ iNextID' = n
BY DEF Become, World, Turns

-----------------------------------------------------------------------------
(* What the operations of a transaction make of a world *)

WithQueue(r, q) == [r EXCEPT !.queue = q]
Cancelled(r) == [r EXCEPT !.queue = <<>>, !.reply = "none"]
WithAuthorization(r, realm, password) ==
  [r EXCEPT !.authorization = [realm |-> realm, password |-> password, uri |-> r.uri]]
To(q, to) == [q EXCEPT ![1] = [q[1] EXCEPT !.to = to]]
Asked(c) == [c EXCEPT !.life = "confirm"]
Ended(c, ev) == [c EXCEPT !.ends = Append(c.ends, ev), !.life = "idle"]

\* SendEvent, on a world.
LEMMA SendEventTurns ==
  ASSUME TypeOK, NEW t \in Tx, NEW r, NEW c, NEW k, NEW n, NEW ev, NEW to
  PROVE  SendEvent(World(t, r, c, k, n), t, ev, to)
           = World(t, WithQueue(r, Append(r.queue, E(ev, to))), c, k, n)
<1>1. SendEvent(World(t, r, c, k, n), t, ev, to)
        = [World(t, r, c, k, n) EXCEPT !.tr = [[tr EXCEPT ![t] = r]
              EXCEPT ![t] = [r EXCEPT !.queue = Append(r.queue, E(ev, to))]]]
  BY DEF SendEvent, World, TypeOK
<1>2. [[tr EXCEPT ![t] = r] EXCEPT ![t] = [r EXCEPT !.queue = Append(r.queue, E(ev, to))]]
        = [tr EXCEPT ![t] = [r EXCEPT !.queue = Append(r.queue, E(ev, to))]]
  OBVIOUS
<1> QED BY <1>1, <1>2 DEF World, WithQueue

\* Done, on a world.
LEMMA DoneTurns ==
  ASSUME TypeOK, NEW t \in Tx, NEW r, NEW c, NEW k, NEW n
  PROVE  Done(World(t, r, c, k, n), t) = World(t, WithQueue(r, Tail(r.queue)), c, k, n)
<1>1. Done(World(t, r, c, k, n), t)
        = [World(t, r, c, k, n) EXCEPT !.tr = [[tr EXCEPT ![t] = r]
              EXCEPT ![t] = [r EXCEPT !.queue = Tail(r.queue)]]]
  BY DEF Done, World, TypeOK
<1>2. [[tr EXCEPT ![t] = r] EXCEPT ![t] = [r EXCEPT !.queue = Tail(r.queue)]]
        = [tr EXCEPT ![t] = [r EXCEPT !.queue = Tail(r.queue)]]
  OBVIOUS
<1> QED BY <1>1, <1>2 DEF World, WithQueue

\* GoesOn, on a world.
LEMMA GoesOnTurns ==
  ASSUME TypeOK, NEW t \in Tx, NEW r, NEW c, NEW k, NEW n, NEW to
  PROVE  GoesOn(World(t, r, c, k, n), t, to) = World(t, WithQueue(r, To(r.queue, to)), c, k, n)
<1>1. GoesOn(World(t, r, c, k, n), t, to)
        = [World(t, r, c, k, n) EXCEPT !.tr = [[tr EXCEPT ![t] = r]
              EXCEPT ![t] = [r EXCEPT !.queue = [r.queue EXCEPT ![1] = [r.queue[1] EXCEPT !.to = to]]]]]
  BY DEF GoesOn, World, TypeOK
<1>2. [[tr EXCEPT ![t] = r] EXCEPT ![t] = [r EXCEPT !.queue = [r.queue EXCEPT ![1] = [r.queue[1] EXCEPT !.to = to]]]]
        = [tr EXCEPT ![t] = [r EXCEPT !.queue = [r.queue EXCEPT ![1] = [r.queue[1] EXCEPT !.to = to]]]]
  OBVIOUS
<1> QED BY <1>1, <1>2 DEF World, WithQueue, To

\* Cancel, on a world.
LEMMA CancelTurns ==
  ASSUME TypeOK, NEW t \in Tx, NEW r, NEW c, NEW k, NEW n
  PROVE  Cancel(World(t, r, c, k, n), t) = World(t, Cancelled(r), c, k, n)
<1>1. Cancel(World(t, r, c, k, n), t)
        = [World(t, r, c, k, n) EXCEPT !.tr = [[tr EXCEPT ![t] = r]
              EXCEPT ![t] = [r EXCEPT !.queue = <<>>, !.reply = "none"]]]
  BY DEF Cancel, World, TypeOK
<1>2. [[tr EXCEPT ![t] = r] EXCEPT ![t] = [r EXCEPT !.queue = <<>>, !.reply = "none"]]
        = [tr EXCEPT ![t] = [r EXCEPT !.queue = <<>>, !.reply = "none"]]
  OBVIOUS
<1> QED BY <1>1, <1>2 DEF World, Cancelled

\* Tell of a redirection, on a world.
LEMMA ConfirmTurns ==
  ASSUME TypeOK, NEW t \in Tx, NEW r, NEW c, NEW k, NEW n
  PROVE  Tell(World(t, r, c, k, n), t, "ERedirectRequiresConfirmation") = World(t, r, Asked(c), k, n)
<1>1. Tell(World(t, r, c, k, n), t, "ERedirectRequiresConfirmation")
        = [World(t, r, c, k, n) EXCEPT !.client = [[client EXCEPT ![t] = c]
              EXCEPT ![t] = [c EXCEPT !.life = "confirm"]]]
  BY DEF Tell, World, TypeOK
<1>2. [[client EXCEPT ![t] = c] EXCEPT ![t] = [c EXCEPT !.life = "confirm"]]
        = [client EXCEPT ![t] = [c EXCEPT !.life = "confirm"]]
  OBVIOUS
<1> QED BY <1>1, <1>2 DEF World, Asked

\* Tell of an end, on a world.
LEMMA TellTurns ==
  ASSUME TypeOK, NEW t \in Tx, NEW r, NEW c, NEW k, NEW n, NEW ev,
         ev # "ERedirectRequiresConfirmation"
  PROVE  Tell(World(t, r, c, k, n), t, ev) = World(t, r, Ended(c, ev), k, n)
<1>1. Tell(World(t, r, c, k, n), t, ev)
        = [World(t, r, c, k, n) EXCEPT !.client = [[client EXCEPT ![t] = c]
              EXCEPT ![t] = [c EXCEPT !.ends = Append(c.ends, ev), !.life = "idle"]]]
  BY DEF Tell, World, TypeOK
<1>2. [[client EXCEPT ![t] = c] EXCEPT ![t] = [c EXCEPT !.ends = Append(c.ends, ev), !.life = "idle"]]
        = [client EXCEPT ![t] = [c EXCEPT !.ends = Append(c.ends, ev), !.life = "idle"]]
  OBVIOUS
<1> QED BY <1>1, <1>2 DEF World, Ended

\* Encode, on a world.
LEMMA EncodeTurns ==
  ASSUME TypeOK, NEW t \in Tx, NEW r, NEW c, NEW k, NEW n, NEW realm, NEW password
  PROVE  Encode(World(t, r, c, k, n), t, realm, password)
           = World(t, WithAuthorization(r, realm, password), c, k, n)
<1>1. Encode(World(t, r, c, k, n), t, realm, password)
        = [World(t, r, c, k, n) EXCEPT !.tr = [[tr EXCEPT ![t] = r]
              EXCEPT ![t] = [r EXCEPT !.authorization = [realm |-> realm, password |-> password, uri |-> r.uri]]]]
  BY DEF Encode, World, TypeOK
<1>2. [[tr EXCEPT ![t] = r] EXCEPT ![t] = [r EXCEPT !.authorization = [realm |-> realm, password |-> password, uri |-> r.uri]]]
        = [tr EXCEPT ![t] = [r EXCEPT !.authorization = [realm |-> realm, password |-> password, uri |-> r.uri]]]
  OBVIOUS
<1> QED BY <1>1, <1>2 DEF World, WithAuthorization

\* With the queue q and nothing with the protocol handler.
Anew(r, q) == [r EXCEPT !.queue = q, !.reply = "none"]

\* The queue of a changed transaction.
LEMMA QueueField ==
  ASSUME NEW r \in Transaction, NEW q
  PROVE  WithQueue(r, q).queue = q /\ Cancelled(r).queue = <<>>
BY DEF WithQueue, Cancelled, Transaction

\* A queue that replaces another one.
LEMMA QueueTwice ==
  ASSUME NEW r \in Transaction, NEW q, NEW p
  PROVE  WithQueue(WithQueue(r, q), p) = WithQueue(r, p)
BY DEF WithQueue, Transaction

\* A queue after Cancel.
LEMMA QueueAnew ==
  ASSUME NEW r \in Transaction, NEW q
  PROVE  WithQueue(Cancelled(r), q) = Anew(r, q)
BY DEF WithQueue, Cancelled, Anew, Transaction

\* ValidateRequest fails the request or lets it go on.
LEMMA ValidateRequestSteps ==
  ASSUME TypeOK, NEW t \in Tx, Become(ValidateRequest(w0, t))
  PROVE  /\ UNCHANGED <<iCredentials, iNextID>>
         /\ RequestFails(tr[t]) => Turns(t, Anew(tr[t], <<Failure>>), client[t])
         /\ ~RequestFails(tr[t]) =>
              Turns(t, WithQueue(tr[t], To(tr[t].queue, "EStatusCodeHandler+1")), client[t])
<1> DEFINE r == tr[t]
           c == client[t]
           w == World(t, r, c, iCredentials, iNextID)
<1>1. w0 = w /\ w.tr[t] = r /\ r \in Transaction  BY WorldBegins, WorldParts DEF TypeOK
<1>2. CASE RequestFails(r)
  <2>1. ValidateRequest(w, t) = SendEvent(Cancel(w, t), t, "EFailed", "EClient")
    BY <1>1, <1>2 DEF ValidateRequest
  <2>2. SendEvent(Cancel(w, t), t, "EFailed", "EClient")
          = World(t, WithQueue(Cancelled(r), Append(Cancelled(r).queue, Failure)), c, iCredentials, iNextID)
    BY CancelTurns, SendEventTurns DEF Failure
  <2>3. Cancelled(r).queue = <<>> /\ WithQueue(Cancelled(r), <<Failure>>) = Anew(r, <<Failure>>)
    BY <1>1, QueueField, QueueAnew
  <2> QED BY <1>1, <1>2, <2>1, <2>2, <2>3, Queues, WorldEnds
<1>3. CASE ~RequestFails(r)
  <2>1. ValidateRequest(w, t) = GoesOn(w, t, "EStatusCodeHandler+1")
    BY <1>1, <1>3 DEF ValidateRequest
  <2> QED BY <1>1, <1>3, <2>1, GoesOnTurns, WorldEnds
<1> QED BY <1>2, <1>3

Final(r, ev) == E(IF ev = "KErr" \/ r.code >= 300 THEN "EFailed" ELSE "ESucceeded", "EClient")

\* ValidateResponse replaces the last event by a final one.
LEMMA ValidateResponseSteps ==
  ASSUME TypeOK, NEW t \in Tx, Become(ValidateResponse(w0, t))
  PROVE  /\ UNCHANGED <<iCredentials, iNextID>>
         /\ Turns(t, WithQueue(tr[t], Append(Tail(tr[t].queue), Final(tr[t], Head(tr[t].queue).ev))), client[t])
<1> DEFINE r == tr[t]
           c == client[t]
           w == World(t, r, c, iCredentials, iNextID)
           ev == Head(r.queue).ev
           final == IF ev = "KErr" \/ r.code >= 300 THEN "EFailed" ELSE "ESucceeded"
<1>1. w0 = w /\ w.tr[t] = r /\ r \in Transaction  BY WorldBegins, WorldParts DEF TypeOK
<1>2. ValidateResponse(w, t) = SendEvent(Done(w, t), t, final, "EClient")
  BY <1>1 DEF ValidateResponse
<1>3. E(final, "EClient") = Final(r, ev)  BY DEF Final
<1> HIDE DEF final
<1>4. SendEvent(Done(w, t), t, final, "EClient")
        = World(t, WithQueue(WithQueue(r, Tail(r.queue)), Append(WithQueue(r, Tail(r.queue)).queue, E(final, "EClient"))),
                c, iCredentials, iNextID)
  BY DoneTurns, SendEventTurns
<1>5. WithQueue(r, Tail(r.queue)).queue = Tail(r.queue)
      /\ \A p : WithQueue(WithQueue(r, Tail(r.queue)), p) = WithQueue(r, p)
  BY <1>1, QueueField, QueueTwice
<1> QED BY <1>1, <1>2, <1>3, <1>4, <1>5, WorldEnds

Refuse(c) == [c EXCEPT !.refused = TRUE]
Refusing(w, t) == [w EXCEPT !.client[t].refused = TRUE]

\* A redirection that is refused, on a world.
LEMMA RefusingTurns ==
  ASSUME TypeOK, NEW t \in Tx, NEW r, NEW c, NEW k, NEW n
  PROVE  Refusing(World(t, r, c, k, n), t) = World(t, r, Refuse(c), k, n)
<1>1. Refusing(World(t, r, c, k, n), t)
        = [World(t, r, c, k, n) EXCEPT !.client = [[client EXCEPT ![t] = c] EXCEPT ![t] = [c EXCEPT !.refused = TRUE]]]
  BY DEF Refusing, World, TypeOK
<1>2. [[client EXCEPT ![t] = c] EXCEPT ![t] = [c EXCEPT !.refused = TRUE]]
        = [client EXCEPT ![t] = [c EXCEPT !.refused = TRUE]]
  OBVIOUS
<1> QED BY <1>1, <1>2 DEF World, Refuse

\* RedirectError, on a world.
LEMMA RedirectErrorTurns ==
  ASSUME TypeOK, NEW t \in Tx, NEW r \in Transaction, NEW c, NEW k, NEW n
  PROVE  RedirectError(World(t, r, c, k, n), t)
           = World(t, WithQueue(r, Append(Tail(r.queue), E("KErr", "ETidyUp"))), Refuse(c), k, n)
<1> DEFINE w == World(t, r, c, k, n)
<1>1. RedirectError(w, t) = SendEvent(Done(Refusing(w, t), t), t, "KErr", "ETidyUp")
  BY DEF RedirectError, Refusing
<1>2. SendEvent(Done(Refusing(w, t), t), t, "KErr", "ETidyUp")
        = World(t, WithQueue(WithQueue(r, Tail(r.queue)),
                             Append(WithQueue(r, Tail(r.queue)).queue, E("KErr", "ETidyUp"))), Refuse(c), k, n)
  BY RefusingTurns, DoneTurns, SendEventTurns
<1>3. WithQueue(r, Tail(r.queue)).queue = Tail(r.queue)
      /\ \A p : WithQueue(WithQueue(r, Tail(r.queue)), p) = WithQueue(r, p)
  BY QueueField, QueueTwice
<1> QED BY <1>1, <1>2, <1>3

\* SendEvent with an empty queue.
LEMMA SendFirstTurns ==
  ASSUME TypeOK, NEW t \in Tx, NEW r, NEW c, NEW k, NEW n, NEW ev, NEW to
  PROVE  r.queue = <<>> => SendEvent(World(t, r, c, k, n), t, ev, to)
           = World(t, WithQueue(r, <<E(ev, to)>>), c, k, n)
<1>1. SendEvent(World(t, r, c, k, n), t, ev, to) = World(t, WithQueue(r, Append(r.queue, E(ev, to))), c, k, n)
  BY SendEventTurns
<1>2. r.queue = <<>> => Append(r.queue, E(ev, to)) = <<E(ev, to)>>  BY Queues
<1> QED BY <1>1, <1>2

\* A world with another state of the transaction.
Put(w, t, r) == [w EXCEPT !.tr[t] = r]

\* Put, on a world.
LEMMA PutTurns ==
  ASSUME TypeOK, NEW t \in Tx, NEW r, NEW c, NEW k, NEW n, NEW s
  PROVE  Put(World(t, r, c, k, n), t, s) = World(t, s, c, k, n)
<1>1. Put(World(t, r, c, k, n), t, s)
        = [World(t, r, c, k, n) EXCEPT !.tr = [[tr EXCEPT ![t] = r]
              EXCEPT ![t] = s]]
  BY DEF Put, World, TypeOK
<1>2. [[tr EXCEPT ![t] = r] EXCEPT ![t] = s] = [tr EXCEPT ![t] = s]
  OBVIOUS
<1> QED BY <1>1, <1>2 DEF World

CountedOf(r) == [r EXCEPT !.count = r.count + 1]
Moved(r) == [CountedOf(r) EXCEPT !.uri = r.location, !.location = None]
Repeated(r) == IF r.code = 302 THEN AsGet(Cancelled(Moved(r))) ELSE Cancelled(Moved(r))

\* HandleRedirect refuses, asks or repeats the request.
LEMMA HandleRedirectSteps ==
  ASSUME TypeOK, NEW t \in Tx, tr[t].code \in {301, 302}, Become(HandleRedirect(w0, t))
  PROVE  /\ UNCHANGED <<iCredentials, iNextID>>
         /\ \/ Turns(t, WithQueue(tr[t], Append(Tail(tr[t].queue), E("KErr", "ETidyUp"))), Refuse(client[t]))
            \/ /\ tr[t].count < KRedirectLimit
               /\ Turns(t, WithQueue(CountedOf(tr[t]), Append(Tail(tr[t].queue), E("KErr", "ETidyUp"))), Refuse(client[t]))
            \/ /\ tr[t].count < KRedirectLimit /\ tr[t].location # None
               /\ tr[t].code = 301 /\ tr[t].method \notin {"EGET", "EHEAD"}
               /\ Turns(t, WithQueue(Cancelled(Moved(tr[t])), <<E("ERedirectRequiresConfirmation", "EClient")>>),
                        client[t])
            \/ /\ tr[t].count < KRedirectLimit /\ tr[t].location # None
               /\ tr[t].code = 301 => tr[t].method \in {"EGET", "EHEAD"}
               /\ Turns(t, WithQueue(Repeated(tr[t]), <<E("ESubmit", "ETidyUp")>>), client[t])
<1> DEFINE r == tr[t]
           c == client[t]
           w == World(t, r, c, iCredentials, iNextID)
           counted == [w EXCEPT !.tr[t].count = @ + 1]
           moving == [counted EXCEPT !.tr[t] = [@ EXCEPT !.uri = r.location, !.location = None]]
           redirected == Cancel(moving, t)
           repeated == [redirected EXCEPT !.tr[t] = IF r.code = 302 THEN AsGet(@) ELSE @]
<1>1. w0 = w /\ w.tr[t] = r /\ r \in Transaction  BY WorldBegins, WorldParts DEF TypeOK
<1>2. counted = World(t, CountedOf(r), c, iCredentials, iNextID)
  <2>1. counted = Put(w, t, CountedOf(r))  BY <1>1 DEF Put, CountedOf, TypeOK, World
  <2> QED BY <2>1, PutTurns
<1> HIDE DEF counted
<1>3. moving = World(t, Moved(r), c, iCredentials, iNextID)
  <2>1. moving = Put(counted, t, [counted.tr[t] EXCEPT !.uri = r.location, !.location = None])  BY DEF Put
  <2>2. counted.tr[t] = CountedOf(r)  BY <1>2, WorldParts
  <2>3. [counted.tr[t] EXCEPT !.uri = r.location, !.location = None] = Moved(r)  BY <2>2 DEF Moved
  <2> QED BY <2>1, <2>3, <1>2, PutTurns
<1> HIDE DEF moving
<1>4. redirected = World(t, Cancelled(Moved(r)), c, iCredentials, iNextID)  BY <1>3, CancelTurns
<1> HIDE DEF redirected
<1>5. repeated = World(t, Repeated(r), c, iCredentials, iNextID)
  <2>1. repeated = Put(redirected, t, IF r.code = 302 THEN AsGet(redirected.tr[t]) ELSE redirected.tr[t])  BY DEF Put
  <2>2. redirected.tr[t] = Cancelled(Moved(r))  BY <1>4, WorldParts
  <2>3. repeated = Put(redirected, t, Repeated(r))  BY <2>1, <2>2 DEF Repeated
  <2> QED BY <2>3, <1>4, PutTurns
<1> HIDE DEF repeated
<1>6. HandleRedirect(w, t) =
        CASE r.count >= KRedirectLimit -> RedirectError(w, t)
          [] r.count < KRedirectLimit /\ r.location = None -> RedirectError(counted, t)
          [] r.count < KRedirectLimit /\ r.location # None ->
               IF r.code = 301 /\ r.method \notin {"EGET", "EHEAD"}
               THEN SendEvent(redirected, t, "ERedirectRequiresConfirmation", "EClient")
               ELSE Submit(repeated, t)
  BY <1>1 DEF HandleRedirect, counted, moving, redirected, repeated
<1>7. r.count \in Nat /\ KRedirectLimit \in Nat /\ (r.count < KRedirectLimit => r.count + 1 \in 0 .. KRedirectLimit)
  BY <1>1, ConstantsAssumption DEF Transaction
<1>8. r.count < KRedirectLimit => CountedOf(r) \in Transaction /\ CountedOf(r).queue = r.queue
  BY <1>1, <1>7 DEF CountedOf, Transaction
<1>9. Cancelled(Moved(r)).queue = <<>> /\ Repeated(r).queue = <<>>
  BY <1>1 DEF Cancelled, Moved, CountedOf, Repeated, AsGet, Transaction
<1>10. CASE r.count >= KRedirectLimit
  BY <1>1, <1>6, <1>7, <1>10, RedirectErrorTurns, WorldEnds
<1>11. CASE r.count < KRedirectLimit /\ r.location = None
  <2>1. HandleRedirect(w, t) = RedirectError(counted, t)  BY <1>6, <1>7, <1>11
  <2>2. RedirectError(counted, t)
          = World(t, WithQueue(CountedOf(r), Append(Tail(r.queue), E("KErr", "ETidyUp"))), Refuse(c), iCredentials, iNextID)
    BY <1>2, <1>8, <1>11, RedirectErrorTurns
  <2> QED BY <1>1, <1>11, <2>1, <2>2, WorldEnds
<1>12. CASE r.count < KRedirectLimit /\ r.location # None /\ r.code = 301 /\ r.method \notin {"EGET", "EHEAD"}
  <2>1. HandleRedirect(w, t) = SendEvent(redirected, t, "ERedirectRequiresConfirmation", "EClient")
    BY <1>6, <1>7, <1>12
  <2>2. SendEvent(redirected, t, "ERedirectRequiresConfirmation", "EClient")
          = World(t, WithQueue(Cancelled(Moved(r)), <<E("ERedirectRequiresConfirmation", "EClient")>>), c, iCredentials, iNextID)
    BY <1>4, <1>9, SendFirstTurns
  <2> QED BY <1>1, <1>12, <2>1, <2>2, WorldEnds
<1>13. CASE r.count < KRedirectLimit /\ r.location # None /\ ~(r.code = 301 /\ r.method \notin {"EGET", "EHEAD"})
  <2>1. HandleRedirect(w, t) = Submit(repeated, t)  BY <1>6, <1>7, <1>13
  <2>2. Submit(repeated, t) = World(t, WithQueue(Repeated(r), <<E("ESubmit", "ETidyUp")>>), c, iCredentials, iNextID)
    BY <1>5, <1>9, SendFirstTurns DEF Submit
  <2> QED BY <1>1, <1>13, <2>1, <2>2, WorldEnds
<1> QED BY <1>7, <1>10, <1>11, <1>12, <1>13

Supplied(r) ==
  [r EXCEPT !.info = None, !.user = IF r.info = None THEN r.user ELSE r.info]
Onward(r) == WithQueue(Supplied(r), To(Supplied(r).queue, "EProtocolHandler"))

\* SupplyCredentials lets the request go on, with or without credentials.
LEMMA SupplyCredentialsSteps ==
  ASSUME TypeOK, NEW t \in Tx, Become(SupplyCredentials(w0, t))
  PROVE  LET k == FindCredentialsForURI(iCredentials, tr[t].uri) IN
         /\ UNCHANGED <<iCredentials, iNextID>>
         /\ \/ /\ ~(k # 0 /\ Scheme[iCredentials[k].realm] = "EBasic")
               /\ Turns(t, Onward(tr[t]), client[t])
            \/ /\ k # 0
               /\ Turns(t, WithAuthorization(Onward(tr[t]), iCredentials[k].realm, iCredentials[k].password), client[t])
<1> DEFINE r == tr[t]
           c == client[t]
           w == World(t, r, c, iCredentials, iNextID)
           k == FindCredentialsForURI(iCredentials, r.uri)
           supplied == [w EXCEPT !.tr[t] = [@ EXCEPT !.info = None, !.user = IF r.info = None THEN r.user ELSE r.info]]
           w1 == GoesOn(supplied, t, "EProtocolHandler")
<1>1. w0 = w /\ w.tr[t] = r /\ w.creds = iCredentials  BY WorldBegins, WorldParts
<1>2. supplied = World(t, Supplied(r), c, iCredentials, iNextID)
  <2>1. supplied = Put(w, t, [w.tr[t] EXCEPT !.info = None, !.user = IF r.info = None THEN r.user ELSE r.info])
    BY DEF Put
  <2>2. [w.tr[t] EXCEPT !.info = None, !.user = IF r.info = None THEN r.user ELSE r.info] = Supplied(r)
    BY <1>1 DEF Supplied
  <2> QED BY <2>1, <2>2, PutTurns
<1> HIDE DEF supplied
<1>3. w1 = World(t, Onward(r), c, iCredentials, iNextID)  BY <1>2, GoesOnTurns DEF Onward
<1> HIDE DEF w1
<1>4. SupplyCredentials(w, t) =
        IF k # 0 /\ Scheme[iCredentials[k].realm] = "EBasic"
        THEN Encode(w1, t, iCredentials[k].realm, iCredentials[k].password) ELSE w1
  BY <1>1 DEF SupplyCredentials, supplied, w1
<1> HIDE DEF k
<1>5. CASE k # 0 /\ Scheme[iCredentials[k].realm] = "EBasic"
  <2>1. SupplyCredentials(w, t) = World(t, WithAuthorization(Onward(r), iCredentials[k].realm, iCredentials[k].password),
                                        c, iCredentials, iNextID)
    BY <1>3, <1>4, <1>5, EncodeTurns
  <2> QED BY <1>1, <1>5, <2>1, WorldEnds DEF k
<1>6. CASE ~(k # 0 /\ Scheme[iCredentials[k].realm] = "EBasic")
  BY <1>1, <1>3, <1>4, <1>6, WorldEnds DEF k
<1> QED BY <1>5, <1>6

Entry(id, realm, password) == [id |-> id, realm |-> realm, password |-> password]

\* The request as it is repeated with credentials.
Signed(r, password, id) ==
  WithQueue(Cancelled([WithAuthorization(r, Realm[r.uri], password) EXCEPT !.status = id]),
            <<E("ESubmit", "EProtocolHandler")>>)

\* Resubmit, on a world, with new credentials or stored ones.
LEMMA ResubmitTurns ==
  ASSUME TypeOK, NEW t \in Tx, NEW r \in Transaction, NEW c, NEW k, NEW n, NEW password, NEW stored
  PROVE  /\ stored = 0 => Resubmit(World(t, r, c, k, n), t, password, stored) =
              World(t, Signed(r, password, n), c,
                    Append(k, Entry(n, Realm[r.uri], password)), n + 1)
         /\ stored # 0 => Resubmit(World(t, r, c, k, n), t, password, stored) =
              World(t, Signed(r, password, k[stored].id), c, k, n)
<1> DEFINE w == World(t, r, c, k, n)
           realm == Realm[r.uri]
           id == IF stored = 0 THEN n ELSE k[stored].id
           j == IF stored = 0 THEN Append(k, Entry(id, realm, password)) ELSE k
           m == IF stored = 0 THEN n + 1 ELSE n
           w1 == IF stored = 0 THEN [w EXCEPT !.creds = Append(@, [id |-> id, realm |-> realm, password |-> password]),
                                              !.next = @ + 1] ELSE w
           signed == [WithAuthorization(r, realm, password) EXCEPT !.status = id]
           w2 == [Encode(w1, t, realm, password) EXCEPT !.tr[t].status = id]
<1>1. w.tr[t] = r /\ w.creds = k /\ w.next = n  BY WorldParts
<1>2. w1 = World(t, r, c, j, m)  BY DEF World, Entry
<1>3. Resubmit(w, t, password, stored) = SubmitFromHere(Cancel(w2, t), t)
  BY <1>1 DEF Resubmit
<1> HIDE DEF w1, j, m, id
<1>4. Encode(w1, t, realm, password) = World(t, WithAuthorization(r, realm, password), c, j, m)
  BY <1>2, EncodeTurns
<1>5. w2 = World(t, signed, c, j, m)
  <2>1. w2 = Put(World(t, WithAuthorization(r, realm, password), c, j, m), t, signed)
    BY <1>4 DEF Put, World, TypeOK
  <2> QED BY <2>1, PutTurns
<1> HIDE DEF w2
<1>6. Cancelled(signed).queue = <<>>
  BY DEF Cancelled, WithAuthorization, Transaction
<1>7. SubmitFromHere(Cancel(w2, t), t) = World(t, WithQueue(Cancelled(signed), <<E("ESubmit", "EProtocolHandler")>>), c, j, m)
  BY <1>5, <1>6, CancelTurns, SendFirstTurns DEF SubmitFromHere
<1>8. WithQueue(Cancelled(signed), <<E("ESubmit", "EProtocolHandler")>>) = Signed(r, password, id)
  BY DEF Signed
<1> HIDE DEF signed
<1> QED BY <1>3, <1>7, <1>8 DEF id, j, m

NoUser(r) == [r EXCEPT !.user = None]

\* Challenge repeats the request with stored credentials or the user of the URI, or
\* asks; credentials that are wrong are gone.
LEMMA ChallengeSteps ==
  ASSUME TypeOK, NEW t \in Tx, Become(Challenge(w0, t)),
         NEW k, k = FindCredentials(iCredentials, Realm[tr[t].uri]),
         NEW wrong, wrong = Wrong(w0, t, k),
         NEW left, left = (IF wrong THEN RemoveAt(iCredentials, k) ELSE iCredentials)
  PROVE  \/ /\ k # 0 /\ ~wrong
            /\ iCredentials' = iCredentials /\ iNextID' = iNextID
            /\ Turns(t, Signed(NoUser(tr[t]), iCredentials[k].password, iCredentials[k].id), client[t])
         \/ /\ k = 0 \/ wrong
            /\ tr[t].status = None /\ tr[t].user # None
            /\ iNextID' = iNextID + 1
            /\ iCredentials' =
                 Append(left, Entry(iNextID, Realm[tr[t].uri], tr[t].user))
            /\ Turns(t, Signed(NoUser(tr[t]), tr[t].user, iNextID), client[t])
         \/ /\ k = 0 \/ wrong
            /\ tr[t].status # None \/ tr[t].user = None
            /\ iCredentials' = left /\ iNextID' = iNextID
            /\ Turns(t, tr[t], client[t])
<1> DEFINE r == tr[t]
           c == client[t]
           w == World(t, r, c, iCredentials, iNextID)
           forgotten == IF Wrong(w, t, k) THEN [w EXCEPT !.creds = RemoveAt(@, k)] ELSE w
           stored == IF Wrong(w, t, k) THEN 0 ELSE k
           mine == [forgotten EXCEPT !.tr[t].user = None]
<1>1. w0 = w /\ w.tr[t] = r /\ w.creds = iCredentials /\ r \in Transaction  BY WorldBegins, WorldParts DEF TypeOK
<1>2. wrong = Wrong(w, t, k)  BY <1>1
<1>3. wrong \in BOOLEAN  BY <1>2 DEF Wrong
<1>4. forgotten = World(t, r, c, left, iNextID)  BY <1>2 DEF World
<1>5. stored = IF wrong THEN 0 ELSE k  BY <1>2
<1> HIDE DEF forgotten, stored
<1>6. mine = World(t, NoUser(r), c, left, iNextID)
  <2>1. mine = Put(World(t, r, c, left, iNextID), t, NoUser(r))  BY <1>4 DEF Put, World, TypeOK, NoUser
  <2> QED BY <2>1, PutTurns
<1> HIDE DEF mine
<1>7. Challenge(w, t) =
        IF stored # 0 THEN Resubmit(mine, t, iCredentials[stored].password, stored)
        ELSE IF r.status = None /\ r.user # None THEN Resubmit(mine, t, r.user, 0)
        ELSE forgotten
  BY <1>1 DEF Challenge, forgotten, stored, mine
<1>8. NoUser(r) \in Transaction /\ NoUser(r).uri = r.uri  BY <1>1 DEF NoUser, Transaction
<1>9. CASE stored # 0
  <2>1. Challenge(w, t) = World(t, Signed(NoUser(r), iCredentials[k].password, iCredentials[k].id), c, iCredentials, iNextID)
    <3>1. stored = k /\ k # 0 /\ left = iCredentials  BY <1>3, <1>5, <1>9
    <3>2. Challenge(w, t) = Resubmit(mine, t, iCredentials[k].password, k)  BY <1>7, <3>1
    <3>3. mine = World(t, NoUser(r), c, iCredentials, iNextID)  BY <1>6, <3>1
    <3> QED BY <1>8, <3>1, <3>2, <3>3, ResubmitTurns
  <2> QED BY <1>1, <1>3, <1>5, <1>9, <2>1, WorldEnds
<1>10. CASE stored = 0 /\ r.status = None /\ r.user # None
  <2>1. Challenge(w, t) = World(t, Signed(NoUser(r), r.user, iNextID), c,
                            Append(left, Entry(iNextID, Realm[r.uri], r.user)), iNextID + 1)
    BY <1>6, <1>7, <1>8, <1>10, ResubmitTurns
  <2> QED BY <1>1, <1>3, <1>5, <1>10, <2>1, WorldEnds
<1>11. CASE stored = 0 /\ ~(r.status = None /\ r.user # None)
  <2>1. Challenge(w, t) = World(t, r, c, left, iNextID)  BY <1>4, <1>7, <1>11
  <2> QED BY <1>1, <1>3, <1>5, <1>11, <2>1, WorldEnds
<1> QED BY <1>9, <1>10, <1>11

WithReply(r, reply) == [r EXCEPT !.reply = reply]

\* Another state of the response, on a world.
LEMMA ReplyTurns ==
  ASSUME TypeOK, NEW t \in Tx, NEW p, NEW w, w = [w0 EXCEPT !.tr[t].reply = p]
  PROVE  w = World(t, WithReply(tr[t], p), client[t], iCredentials, iNextID)
<1>1. w = Put(w0, t, [w0.tr[t] EXCEPT !.reply = p])  BY DEF Put
<1>2. w0 = World(t, tr[t], client[t], iCredentials, iNextID)  BY WorldBegins
<1>3. w0.tr[t] = tr[t]  BY DEF w0
<1> QED BY <1>1, <1>2, <1>3, PutTurns DEF WithReply

\* Submitted hands the request to the protocol handler.
LEMMA SubmittedSteps ==
  ASSUME TypeOK, NEW t \in Tx, Submitted(t)
  PROVE  LET p == IF tr[t].reply = "none" THEN "waiting" ELSE tr[t].reply IN
         /\ UNCHANGED <<iCredentials, iNextID>>
         /\ Turns(t, WithQueue(WithReply(tr[t], p), Tail(tr[t].queue)), client[t])
<1> DEFINE p == IF tr[t].reply = "none" THEN "waiting" ELSE tr[t].reply
           w == [w0 EXCEPT !.tr[t].reply = IF @ = "none" THEN "waiting" ELSE @]
<1>1. w = [w0 EXCEPT !.tr[t].reply = p]  BY DEF w0
<1>2. Become(Done(w, t))  BY DEF Submitted
<1> HIDE DEF p, w
<1>3. w = World(t, WithReply(tr[t], p), client[t], iCredentials, iNextID)  BY <1>1, ReplyTurns
<1>4. WithReply(tr[t], p).queue = tr[t].queue  BY DEF TypeOK, Transaction, WithReply
<1> QED BY <1>2, <1>3, <1>4, DoneTurns, WorldEnds DEF p

\* The last event of a response arrives.
LEMMA ArrivalSteps ==
  ASSUME TypeOK, NEW t \in Tx, NEW ev, NEW to,
         Become(SendEvent([w0 EXCEPT !.tr[t].reply = "none"], t, ev, to))
  PROVE  /\ UNCHANGED <<iCredentials, iNextID>>
         /\ Turns(t, WithQueue(WithReply(tr[t], "none"), Append(tr[t].queue, E(ev, to))), client[t])
<1> DEFINE w == [w0 EXCEPT !.tr[t].reply = "none"]
<1>1. w = World(t, WithReply(tr[t], "none"), client[t], iCredentials, iNextID)  BY ReplyTurns
<1> HIDE DEF w
<1>2. WithReply(tr[t], "none").queue = tr[t].queue  BY DEF TypeOK, Transaction, WithReply
<1>3. Become(SendEvent(w, t, ev, to))  BY DEF w
<1> QED BY <1>1, <1>2, <1>3, SendEventTurns, WorldEnds

Answered(r, response) == [r EXCEPT !.reply = "body", !.code = response.code, !.location = response.location]

\* Answer brings the headers of a response.
LEMMA AnswerSteps ==
  ASSUME TypeOK, NEW t \in Tx, Answer(t)
  PROVE  \E response \in Responses :
           /\ tr[t].reply = "waiting" /\ (response.code = 401 <=> ~Authorized(t))
           /\ UNCHANGED <<iCredentials, iNextID>>
           /\ response.code \in {200, 404} => Turns(t, Answered(tr[t], response), client[t])
           /\ response.code \notin {200, 404} =>
                Turns(t, WithQueue(Answered(tr[t], response), Append(tr[t].queue, Headers)), client[t])
<1>1. PICK response \in Responses :
        /\ tr[t].reply = "waiting"
        /\ (response.code = 401) <=> ~Authorized(t)
        /\ Become(IF response.code \in {200, 404} THEN Arrives(w0, t, response)
                  ELSE SendEvent(Arrives(w0, t, response), t, "EGotResponseHeaders", "EStatusCodeHandler"))
  BY DEF Answer
<1> DEFINE w == Arrives(w0, t, response)
           r == Answered(tr[t], response)
<1>2. w = World(t, r, client[t], iCredentials, iNextID)
  <2>1. w = Put(w0, t, [w0.tr[t] EXCEPT !.reply = "body", !.code = response.code, !.location = response.location])
    BY DEF Put, Arrives
  <2>2. [w0.tr[t] EXCEPT !.reply = "body", !.code = response.code, !.location = response.location] = r
    BY DEF w0, Answered
  <2> QED BY <2>1, <2>2, WorldBegins, PutTurns
<1>3. r.queue = tr[t].queue  BY DEF Answered, TypeOK, Transaction
<1> HIDE DEF w, r
<1>4. SendEvent(w, t, "EGotResponseHeaders", "EStatusCodeHandler")
        = World(t, WithQueue(r, Append(tr[t].queue, Headers)), client[t], iCredentials, iNextID)
  BY <1>2, <1>3, SendEventTurns DEF Headers
<1> QED BY <1>1, <1>2, <1>4, WorldEnds DEF r, w

\* The client is told.
LEMMA ClientRunsSteps ==
  ASSUME TypeOK, NEW t \in Tx, NEW ev, Become(Done(Tell(w0, t, ev), t))
  PROVE  /\ UNCHANGED <<iCredentials, iNextID>>
         /\ ev = "ERedirectRequiresConfirmation" =>
              Turns(t, WithQueue(tr[t], Tail(tr[t].queue)), Asked(client[t]))
         /\ ev # "ERedirectRequiresConfirmation" =>
              Turns(t, WithQueue(tr[t], Tail(tr[t].queue)), Ended(client[t], ev))
<1> DEFINE c == IF ev = "ERedirectRequiresConfirmation" THEN Asked(client[t]) ELSE Ended(client[t], ev)
<1>1. w0 = World(t, tr[t], client[t], iCredentials, iNextID)  BY WorldBegins
<1>2. Tell(w0, t, ev) = World(t, tr[t], c, iCredentials, iNextID)  BY <1>1, ConfirmTurns, TellTurns
<1> HIDE DEF c
<1> QED BY <1>2, DoneTurns, WorldEnds DEF c

Requested(r, request) ==
  [r EXCEPT !.method = request.method, !.uri = request.uri, !.body = request.body, !.info = request.info]
Submitting(c, request, n) ==
  [life |-> "busy", ends |-> <<>>, refused |-> FALSE,
   asked |-> [method |-> request.method, uri |-> request.uri], submits |-> c.submits + n]
SubmitOf(t, request, n) ==
  [w0 EXCEPT !.tr[t] = [@ EXCEPT !.method = request.method, !.uri = request.uri, !.body = request.body,
                                 !.info = request.info],
             !.client[t] = Submitting(client[t], request, n)]

\* The client submits.
LEMMA SubmitAsSteps ==
  ASSUME TypeOK, NEW t \in Tx, NEW request, NEW n, SubmitAs(request, t, n)
  PROVE  /\ UNCHANGED <<iCredentials, iNextID, asking, answers>>
         /\ Turns(t, WithQueue(Requested(tr[t], request), Append(tr[t].queue, E("ESubmit", "ETidyUp"))),
                  Submitting(client[t], request, n))
<1> DEFINE w == SubmitOf(t, request, n)
           r == Requested(tr[t], request)
           c == Submitting(client[t], request, n)
<1>1. Become(Submit(w, t)) /\ UNCHANGED <<asking, answers>>
  BY DEF SubmitAs, SubmitOf, Submitting, Unasked
<1>2. w = World(t, r, c, iCredentials, iNextID)
  <2>1. w.tr = [tr EXCEPT ![t] = r]
    BY DEF SubmitOf, Requested, w0, TypeOK
  <2>2. w.client = [client EXCEPT ![t] = c]
    BY DEF SubmitOf, w0, TypeOK
  <2>3. w = [w0 EXCEPT !.tr = [tr EXCEPT ![t] = r], !.client = [client EXCEPT ![t] = c]]
    BY DEF SubmitOf, Requested, w0, TypeOK
  <2> QED BY <2>3 DEF World, w0
<1>3. r.queue = tr[t].queue  BY DEF Requested, TypeOK, Transaction
<1> HIDE DEF w, r, c
<1>4. Submit(w, t) = World(t, WithQueue(r, Append(tr[t].queue, E("ESubmit", "ETidyUp"))), c, iCredentials, iNextID)
  BY <1>2, <1>3, SendEventTurns DEF Submit
<1> QED BY <1>1, <1>4, WorldEnds DEF r, c

Idled(c) == [c EXCEPT !.life = "idle"]

\* The client cancels.
LEMMA ClientCancelsSteps ==
  ASSUME TypeOK, NEW t \in Tx, ClientCancels(t)
  PROVE  UNCHANGED <<iCredentials, iNextID>> /\ Turns(t, Cancelled(tr[t]), Idled(client[t]))
<1> DEFINE w == [w0 EXCEPT !.client[t].life = "idle"]
<1>1. w = World(t, tr[t], Idled(client[t]), iCredentials, iNextID)
  <2>1. w.client = [client EXCEPT ![t] = Idled(client[t])] /\ w.tr = tr  BY DEF w0, Idled, TypeOK
  <2>2. w = [tr |-> w.tr, creds |-> iCredentials, next |-> iNextID, client |-> w.client]  BY DEF w0
  <2>3. tr = [tr EXCEPT ![t] = tr[t]]  BY DEF TypeOK
  <2> QED BY <2>1, <2>2, <2>3 DEF World
<1>2. Become(Cancel(w, t))  BY DEF ClientCancels
<1> HIDE DEF w
<1> QED BY <1>1, <1>2, CancelTurns, WorldEnds

\* The client closes.
LEMMA ClientClosesSteps ==
  ASSUME TypeOK, NEW t \in Tx, ClientCloses(t)
  PROVE  UNCHANGED <<iCredentials, iNextID>> /\ Turns(t, NewTransaction, NewKnowledge("closed"))
BY DEF ClientCloses, Become, w0, Turns, TypeOK

\* The user answers.
LEMMA UserAnswersSteps ==
  ASSUME TypeOK, NEW t \in Tx, NEW password,
         Become(IF client[t].life = "closed" THEN w0 ELSE Resubmit(w0, t, password, 0))
  PROVE  /\ client[t].life = "closed" => UNCHANGED <<iCredentials, iNextID>> /\ Turns(t, tr[t], client[t])
         /\ client[t].life # "closed" =>
              /\ iCredentials' = Append(iCredentials, Entry(iNextID, Realm[tr[t].uri], password))
              /\ iNextID' = iNextID + 1
              /\ Turns(t, Signed(tr[t], password, iNextID), client[t])
<1>1. w0 = World(t, tr[t], client[t], iCredentials, iNextID) /\ tr[t] \in Transaction  BY WorldBegins DEF TypeOK
<1>2. CASE client[t].life = "closed"  BY <1>1, <1>2, WorldEnds
<1>3. CASE client[t].life # "closed"
  <2>1. Resubmit(w0, t, password, 0) =
          World(t, Signed(tr[t], password, iNextID), client[t],
                Append(iCredentials, Entry(iNextID, Realm[tr[t].uri], password)), iNextID + 1)
    BY <1>1, ResubmitTurns
  <2> QED BY <1>3, <2>1, WorldEnds
<1> QED BY <1>2, <1>3

\* The user gives no credentials.
LEMMA UserRefusesSteps ==
  ASSUME TypeOK, NEW t \in Tx, UserRefuses(t)
  PROVE  /\ UNCHANGED <<iCredentials, iNextID>>
         /\ tr[t].queue = <<>> => Turns(t, tr[t], client[t])
         /\ tr[t].queue # <<>> => Turns(t, WithQueue(tr[t], Tail(tr[t].queue)), client[t])
<1>1. w0 = World(t, tr[t], client[t], iCredentials, iNextID)  BY WorldBegins
<1> QED BY <1>1, DoneTurns, WorldEnds DEF UserRefuses

\* The question leaves.
LEMMA UserFailsSteps ==
  ASSUME TypeOK, NEW t \in Tx, UserFails(t)
  PROVE  /\ UNCHANGED <<iCredentials, iNextID>>
         /\ client[t].life = "closed" => Turns(t, tr[t], client[t])
         /\ client[t].life # "closed" => Turns(t, Cancelled(tr[t]), Ended(client[t], "EFailed"))
<1>1. w0 = World(t, tr[t], client[t], iCredentials, iNextID)  BY WorldBegins
<1>2. Become(IF client[t].life = "closed" THEN w0 ELSE Tell(Cancel(w0, t), t, "EFailed"))  BY DEF UserFails
<1>3. CASE client[t].life = "closed"  BY <1>1, <1>2, <1>3, WorldEnds
<1>4. CASE client[t].life # "closed"
  <2>1. Tell(Cancel(w0, t), t, "EFailed") = World(t, Cancelled(tr[t]), Ended(client[t], "EFailed"), iCredentials, iNextID)
    BY <1>1, CancelTurns, TellTurns
  <2> QED BY <1>2, <1>4, <2>1, WorldEnds
<1> QED BY <1>3, <1>4

\* A redirection is refused.
LEMMA RefusedSteps ==
  ASSUME TypeOK, NEW t \in Tx, Become(RedirectError(w0, t))
  PROVE  /\ UNCHANGED <<iCredentials, iNextID>>
         /\ Turns(t, WithQueue(tr[t], Append(Tail(tr[t].queue), E("KErr", "ETidyUp"))), Refuse(client[t]))
<1>1. w0 = World(t, tr[t], client[t], iCredentials, iNextID) /\ tr[t] \in Transaction  BY WorldBegins DEF TypeOK
<1> QED BY <1>1, RedirectErrorTurns, WorldEnds

-----------------------------------------------------------------------------
(* Where a step leaves the events of a transaction *)

\* An event at its next place, and events that differ.
LEMMA Movings ==
  /\ \A ev, to, next : To(<<E(ev, to)>>, next) = <<E(ev, next)>>
  /\ \A ev, to, f, next : E(ev, to) = E(f, next) <=> ev = f /\ to = next
<1>1. \A ev, to, next : To(<<E(ev, to)>>, next) = <<E(ev, next)>>
  BY DEF To, E
<1>2. \A ev, to, f, next : E(ev, to) = E(f, next) <=> ev = f /\ to = next
  BY DEF E
<1> QED BY <1>1, <1>2

\* The place of the first event tells where all of them are.
LEMMA FirstEvent ==
  ASSUME NEW r, NEW c, Placed(r, c, FALSE), r.queue # <<>>, NEW ev, NEW to, Head(r.queue) = E(ev, to)
  PROVE  /\ ev = "ESubmit" /\ to = "ETidyUp" => Fresh(r, c)
         /\ ev = "ESubmit" /\ to \in {"EStatusCodeHandler+1", "EProtocolHandler"} => Leaves(r, c) /\ r.queue = <<E("ESubmit", to)>>
         /\ ev = "EGotResponseHeaders" => Returns(r, c)
         /\ ev \in {"EResponseComplete", "KErr"} /\ to = "ETidyUp" => Over(r, c) \/ Refused(r, c)
         /\ to = "EClient" => Told(r, c) \/ Refused(r, c)
<1>1. CASE Closed(r, c)  BY <1>1 DEF Closed
<1>2. CASE Rests(r, c)  BY <1>2 DEF Rests
<1>3. CASE Fresh(r, c)
  <2>1. E(ev, to) = E("ESubmit", "ETidyUp")  BY <1>3, Queues DEF Fresh
  <2> QED BY <1>3, <2>1, Movings
<1>4. CASE Leaves(r, c)
  <2>1. PICK p \in {"EStatusCodeHandler+1", "EProtocolHandler"} : r.queue = <<E("ESubmit", p)>>  BY <1>4 DEF Leaves
  <2>2. E(ev, to) = E("ESubmit", p)  BY <2>1, Queues
  <2> QED BY <1>4, <2>1, <2>2, Movings
<1>5. CASE Away(r, c)  BY <1>5 DEF Away
<1>6. CASE Returns(r, c)
  <2>1. E(ev, to) = Headers  BY <1>6, Queues DEF Returns
  <2> QED BY <1>6, <2>1, Movings DEF Headers
<1>7. CASE Over(r, c)
  <2>1. E(ev, to) \in Lasts  BY <1>7, Queues DEF Over
  <2> QED BY <1>7, <2>1, Movings DEF Lasts
<1>8. CASE Told(r, c)
  <2>1. E(ev, to) \in {Failure, E("ESucceeded", "EClient"), E("ERedirectRequiresConfirmation", "EClient")}
    BY <1>8, Queues DEF Told
  <2> QED BY <1>8, <2>1, Movings DEF Failure
<1>9. CASE Refused(r, c)
  <2>1. E(ev, to) \in Failures  BY <1>9, Queues DEF Refused
  <2> QED BY <1>9, <2>1, Movings DEF Failures, Lasts, Failure
<1> QED BY <1>1, <1>2, <1>3, <1>4, <1>5, <1>6, <1>7, <1>8, <1>9 DEF Placed

\* Only a response that is on its way back asks for credentials.
LEMMA OnlyReturnsChallenged ==
  ASSUME NEW r, NEW c, NEW a \in BOOLEAN, Placed(r, c, a), Challenged(r)
  PROVE  Returns(r, c)
<1>1. CASE Returns(r, c)  BY <1>1
<1>2. CASE ~Returns(r, c)
  <2>1. CASE Closed(r, c)  BY <2>1 DEF Closed, Challenged
  <2>2. CASE Placed(r, c, FALSE)
    <3>1. r.queue # <<>> /\ Head(r.queue) = E("EGotResponseHeaders", "EStatusCodeHandler")  BY DEF Challenged, Headers
    <3> QED BY <2>2, <3>1, FirstEvent
  <2> QED BY <1>2, <2>1, <2>2 DEF Placed
<1> QED BY <1>1, <1>2

\* What is said of a request is said of all that have its method, URI and body.
LEMMA SameRequest ==
  ASSUME NEW r, NEW s, NEW c, NEW d, s.method = r.method, s.uri = r.uri, s.body = r.body, d.asked = c.asked
  PROVE  /\ RequestFails(s) <=> RequestFails(r)
         /\ AsAsked(r, c) => AsAsked(s, d)
         /\ Valid(r, c) => Valid(s, d)
BY DEF RequestFails, AsAsked, Valid

\* From Fresh, to the client or on its way.
LEMMA PlaceValidated ==
  ASSUME NEW r \in Transaction, NEW c \in Knowledge, Fresh(r, c)
  PROVE  /\ RequestFails(r) => Told(Anew(r, <<Failure>>), c)
         /\ ~RequestFails(r) => Leaves(WithQueue(r, To(r.queue, "EStatusCodeHandler+1")), c)
<1>1. ASSUME RequestFails(r) PROVE Told(Anew(r, <<Failure>>), c)
  <2> DEFINE s == Anew(r, <<Failure>>)
  <2>1. s.queue = <<Failure>> /\ s.reply = "none" /\ s.method = r.method /\ s.uri = r.uri /\ s.body = r.body
    BY DEF Anew, Transaction
  <2>2. AsAsked(r, c) /\ First(c)  BY <1>1 DEF Fresh, Valid
  <2>3. AsAsked(s, c)  BY <2>1, <2>2, SameRequest
  <2> QED BY <2>1, <2>2, <2>3 DEF Told
<1>2. ASSUME ~RequestFails(r) PROVE Leaves(WithQueue(r, To(r.queue, "EStatusCodeHandler+1")), c)
  <2> DEFINE s == WithQueue(r, To(r.queue, "EStatusCodeHandler+1"))
  <2>1. s.reply = r.reply /\ s.method = r.method /\ s.uri = r.uri /\ s.body = r.body
        /\ s.queue = To(r.queue, "EStatusCodeHandler+1")
    BY DEF WithQueue, Transaction
  <2>2. s.queue = <<E("ESubmit", "EStatusCodeHandler+1")>>  BY <2>1, Movings DEF Fresh
  <2>3. Valid(r, c) /\ First(c) /\ r.reply = "none"  BY <1>2 DEF Fresh, Valid
  <2>4. Valid(s, c)  BY <2>1, <2>3, SameRequest
  <2> QED BY <2>1, <2>2, <2>3, <2>4 DEF Leaves
<1> QED BY <1>1, <1>2

\* From the last event, to the client.
LEMMA PlaceConcluded ==
  ASSUME NEW r \in Transaction, NEW c \in Knowledge, Over(r, c) \/ Refused(r, c),
         NEW ev, Head(r.queue) = E(ev, "ETidyUp"), r.queue # <<>>,
         NEW s, s = WithQueue(r, Append(Tail(r.queue), Final(r, ev)))
  PROVE  Told(s, c) \/ Refused(s, c)
<1>1. s.reply = r.reply /\ s.method = r.method /\ s.uri = r.uri /\ s.body = r.body /\ s.code = r.code
      /\ s.queue = Append(Tail(r.queue), Final(r, ev))
  BY DEF WithQueue, Transaction
<1>2. CASE Over(r, c)
  <2>1. r.queue = <<E(ev, "ETidyUp")>>  BY <1>2, Queues DEF Over
  <2>2. s.queue = <<Final(r, ev)>>  BY <1>1, <2>1, Queues
  <2>3. Valid(s, c)  BY <1>1, <1>2, SameRequest DEF Over
  <2>4. Final(r, ev) = Failure \/ (Final(r, ev) = E("ESucceeded", "EClient") /\ ~(r.code >= 300))
    BY DEF Final, Failure
  <2>5. ~(r.code >= 300) => r.code < 300  BY DEF Transaction, Codes
  <2> QED BY <1>1, <1>2, <2>2, <2>3, <2>4, <2>5 DEF Told, Over
<1>3. CASE Refused(r, c)
  <2>1. Final(r, ev) = Failure  BY <1>3 DEF Final, Failure, Refused
  <2>2. Valid(s, c)  BY <1>1, <1>3, SameRequest DEF Refused
  <2>3. Failure \in Failures  BY DEF Failures
  <2>4. ASSUME NEW x, r.queue = <<x>> PROVE s.queue = <<Failure>>
    BY <1>1, <2>1, <2>4, Queues
  <2>5. ASSUME NEW x, NEW y, r.queue = <<x, y>> PROVE s.queue = <<y, Failure>>
    BY <1>1, <2>1, <2>5, Queues, AppendToOne
  <2> QED BY <1>1, <1>3, <2>2, <2>3, <2>4, <2>5 DEF Refused
<1> QED BY <1>2, <1>3

\* From the client, to rest.
LEMMA PlaceTold ==
  ASSUME NEW r \in Transaction, NEW c \in Knowledge, Told(r, c) \/ Refused(r, c),
         NEW ev, Head(r.queue) = E(ev, "EClient"), r.queue # <<>>,
         NEW s, s = WithQueue(r, Tail(r.queue)),
         NEW d, d = IF ev = "ERedirectRequiresConfirmation" THEN Asked(c) ELSE Ended(c, ev)
  PROVE  Rests(s, d) \/ Refused(s, d)
<1>1. s.reply = r.reply /\ s.method = r.method /\ s.uri = r.uri /\ s.body = r.body /\ s.code = r.code
      /\ s.queue = Tail(r.queue)
  BY DEF WithQueue, Transaction
<1>2. /\ d.asked = c.asked /\ d.refused = c.refused
      /\ ev = "ERedirectRequiresConfirmation" => d.life = "confirm" /\ d.ends = c.ends
      /\ ev # "ERedirectRequiresConfirmation" => d.life = "idle" /\ d.ends = Append(c.ends, ev)
  BY DEF Asked, Ended, Knowledge
<1>3. CASE Told(r, c)
  <2>1. r.queue = <<E(ev, "EClient")>>  BY <1>3, Queues DEF Told
  <2>2. s.queue = <<>>  BY <1>1, <2>1, Queues
  <2>3. ev # "ERedirectRequiresConfirmation" => d.ends = <<ev>>  BY <1>2, <1>3, Queues DEF Told, First
  <2>4. ev \in {"EFailed", "ESucceeded", "ERedirectRequiresConfirmation"} /\ (ev = "ESucceeded" => r.code < 300)
    <3>1. \/ E(ev, "EClient") = Failure
          \/ E(ev, "EClient") = E("ESucceeded", "EClient") /\ r.code < 300
          \/ E(ev, "EClient") = E("ERedirectRequiresConfirmation", "EClient")
      BY <1>3, <2>1, Queues DEF Told
    <3> QED BY <3>1, Movings DEF Failure
  <2> QED BY <1>1, <1>2, <1>3, <2>2, <2>3, <2>4 DEF Told, First, Rests
<1>4. CASE Refused(r, c)
  <2>1. ev = "EFailed"
    <3>1. E(ev, "EClient") \in Failures  BY <1>4, Queues DEF Refused
    <3> QED BY <3>1, Movings DEF Failures, Lasts, Failure
  <2>2. Valid(s, d)  BY <1>1, <1>2, <1>4, SameRequest DEF Refused
  <2>3. ASSUME NEW x, r.queue = <<x>> PROVE s.queue = <<>>
    BY <1>1, <2>3, Queues
  <2>4. ASSUME NEW x, NEW y, r.queue = <<x, y>> PROVE s.queue = <<y>>
    BY <1>1, <2>4, Queues
  <2>5. c.ends = <<>> => d.ends = <<"EFailed">>  BY <1>2, <2>1, Queues
  <2>6. c.ends = <<"EFailed">> => d.ends = <<"EFailed", "EFailed">>  BY <1>2, <2>1, AppendToOne
  <2> QED BY <1>1, <1>2, <1>4, <2>1, <2>2, <2>3, <2>4, <2>5, <2>6 DEF Refused
<1> QED BY <1>3, <1>4

\* From a response, to a refusal.
LEMMA PlaceRefused ==
  ASSUME NEW r \in Transaction, NEW c \in Knowledge, Returns(r, c), r.code # 401,
         NEW s, s \in {WithQueue(r, Append(Tail(r.queue), E("KErr", "ETidyUp"))),
                       WithQueue(CountedOf(r), Append(Tail(r.queue), E("KErr", "ETidyUp")))},
         NEW d, d = Refuse(c)
  PROVE  Refused(s, d)
<1> DEFINE last == E("KErr", "ETidyUp")
<1>1. s.reply = r.reply /\ s.method = r.method /\ s.uri = r.uri /\ s.body = r.body /\ s.code = r.code
      /\ s.queue = Append(Tail(r.queue), last)
  <2>1. CASE s = WithQueue(r, Append(Tail(r.queue), last))  BY <2>1 DEF WithQueue, Transaction
  <2>2. CASE s = WithQueue(CountedOf(r), Append(Tail(r.queue), last))
    BY <2>2 DEF WithQueue, CountedOf, Transaction
  <2> QED BY <2>1, <2>2
<1>2. d.asked = c.asked /\ d.refused = TRUE /\ d.life = c.life /\ d.ends = c.ends
  BY DEF Refuse, Knowledge
<1>3. last \in Failures /\ Lasts \subseteq Failures  BY DEF Failures, Lasts
<1>4. Valid(s, d)
  <2>1. Valid(r, c)  BY DEF Returns
  <2> QED BY <1>1, <1>2, <2>1, SameRequest
<1>5. CASE r.reply = "body" /\ r.queue = <<Headers>>
  <2>1. s.queue = <<last>>  BY <1>1, <1>5, Queues
  <2> QED BY <1>1, <1>2, <1>3, <1>4, <1>5, <2>1 DEF Refused, Returns, First
<1>6. CASE r.reply = "none" /\ \E x \in Lasts : r.queue = <<Headers, x>>
  <2>1. PICK x \in Lasts : r.queue = <<Headers, x>>  BY <1>6
  <2>2. s.queue = <<x, last>>  BY <1>1, <2>1, Queues, AppendToOne
  <2>3. \E y, z \in Failures : s.queue = <<y, z>>  BY <1>3, <2>2
  <2>4. s.code >= 300 /\ d.refused /\ d.life = "busy" /\ d.ends = <<>> /\ s.reply = "none"
    BY <1>1, <1>2, <1>6 DEF Returns, First
  <2> QED BY <1>4, <2>3, <2>4 DEF Refused
<1> QED BY <1>5, <1>6 DEF Returns

\* From a response, to a question to the client.
LEMMA PlaceAsks ==
  ASSUME NEW r \in Transaction, NEW c \in Knowledge, Returns(r, c), r.location \in Uris,
         r.code = 301, r.method \notin {"EGET", "EHEAD"},
         NEW s, s = WithQueue(Cancelled(Moved(r)), <<E("ERedirectRequiresConfirmation", "EClient")>>)
  PROVE  Told(s, c)
<1>1. /\ s.reply = "none" /\ s.method = r.method /\ s.body = r.body
      /\ s.queue = <<E("ERedirectRequiresConfirmation", "EClient")>>
  BY DEF WithQueue, Cancelled, Moved, CountedOf, Transaction
<1>2. ~RequestFails(s)  BY <1>1 DEF Returns, Valid, RequestFails
<1> QED BY <1>1, <1>2 DEF Told, Returns

\* From a response, to another request.
LEMMA PlaceRepeats ==
  ASSUME NEW r \in Transaction, NEW c \in Knowledge, Returns(r, c), r.location \in Uris, r.code \in {301, 302},
         r.code = 301 => r.method \in {"EGET", "EHEAD"},
         NEW s, s = WithQueue(Repeated(r), <<E("ESubmit", "ETidyUp")>>)
  PROVE  Fresh(s, c)
<1>1. CASE r.code = 302
  <2>1. /\ s.reply = "none" /\ s.method = "EGET" /\ s.body = FALSE
        /\ s.queue = <<E("ESubmit", "ETidyUp")>>
    BY <1>1 DEF WithQueue, Repeated, AsGet, Cancelled, Moved, CountedOf, Transaction
  <2>2. Valid(s, c)  BY <2>1 DEF Valid, RequestFails
  <2> QED BY <2>1, <2>2 DEF Fresh, Returns
<1>2. CASE r.code = 301
  <2>1. /\ s.reply = "none" /\ s.method = r.method /\ s.body = r.body
        /\ s.queue = <<E("ESubmit", "ETidyUp")>>
    BY <1>2 DEF WithQueue, Repeated, AsGet, Cancelled, Moved, CountedOf, Transaction
  <2>2. ~r.body  BY <1>2 DEF Returns, Valid, RequestFails
  <2>3. Valid(s, c)  BY <1>2, <2>1, <2>2 DEF Valid, RequestFails, Transaction
  <2> QED BY <2>1, <2>3 DEF Fresh, Returns
<1> QED BY <1>1, <1>2

\* On its way, past the authentication filter.
LEMMA PlaceSupplied ==
  ASSUME NEW r \in Transaction, NEW c \in Knowledge, Leaves(r, c),
         NEW realm, NEW password, NEW s, s \in {Onward(r), WithAuthorization(Onward(r), realm, password)}
  PROVE  Leaves(s, c) /\ s.queue = <<E("ESubmit", "EProtocolHandler")>>
<1>1. PICK to : r.queue = <<E("ESubmit", to)>>  BY DEF Leaves
<1>2. To(r.queue, "EProtocolHandler") = <<E("ESubmit", "EProtocolHandler")>>  BY <1>1, Movings
<1>3. LET o == Onward(r) IN
      /\ o.reply = r.reply /\ o.method = r.method /\ o.body = r.body /\ o.uri = r.uri
      /\ o.queue = To(r.queue, "EProtocolHandler")
  BY DEF Onward, Supplied, WithQueue, Transaction
<1>4. /\ s.reply = r.reply /\ s.method = r.method /\ s.body = r.body /\ s.uri = r.uri
      /\ s.queue = To(r.queue, "EProtocolHandler")
  <2>1. CASE s = Onward(r)  BY <1>3, <2>1
  <2>2. CASE s = WithAuthorization(Onward(r), realm, password)
    BY <1>3, <2>2 DEF WithAuthorization, Onward, Supplied, WithQueue, Transaction
  <2> QED BY <2>1, <2>2
<1>5. Valid(s, c)  BY <1>4, SameRequest DEF Leaves
<1> QED BY <1>2, <1>4, <1>5 DEF Leaves

\* From a response 401, on its way again.
LEMMA PlaceSigned ==
  ASSUME NEW r \in Transaction, NEW c \in Knowledge, Returns(r, c),
         NEW password, NEW id, NEW s, s \in {Signed(r, password, id), Signed(NoUser(r), password, id)}
  PROVE  Leaves(s, c) /\ s.queue = <<E("ESubmit", "EProtocolHandler")>>
<1>1. /\ s.reply = "none" /\ s.method = r.method /\ s.body = r.body /\ s.uri = r.uri
      /\ s.queue = <<E("ESubmit", "EProtocolHandler")>>
  <2>1. CASE s = Signed(r, password, id)
    BY <2>1 DEF Signed, WithQueue, Cancelled, WithAuthorization, Transaction
  <2>2. CASE s = Signed(NoUser(r), password, id)
    BY <2>2 DEF Signed, NoUser, WithQueue, Cancelled, WithAuthorization, Transaction
  <2> QED BY <2>1, <2>2
<1>2. Valid(s, c)  BY <1>1, SameRequest DEF Returns
<1> QED BY <1>1, <1>2 DEF Leaves, Returns

\* On its way, to the server.
LEMMA PlaceSubmitted ==
  ASSUME NEW r \in Transaction, NEW c \in Knowledge, Leaves(r, c),
         NEW s, s = WithQueue(WithReply(r, "waiting"), Tail(r.queue))
  PROVE  Away(s, c)
<1>1. /\ s.reply = "waiting" /\ s.method = r.method /\ s.body = r.body /\ s.uri = r.uri
      /\ s.queue = Tail(r.queue)
  BY DEF WithQueue, WithReply, Transaction
<1>2. s.queue = <<>>  BY <1>1, Queues DEF Leaves
<1>3. Valid(s, c)  BY <1>1, SameRequest DEF Leaves
<1> QED BY <1>1, <1>2, <1>3 DEF Away, Leaves

\* From the server, back.
LEMMA PlaceAnswered ==
  ASSUME NEW r \in Transaction, NEW c \in Knowledge, Away(r, c), NEW response \in Responses,
         NEW s, s = IF response.code \in {200, 404} THEN Answered(r, response)
                    ELSE WithQueue(Answered(r, response), Append(r.queue, Headers))
  PROVE  (Away(s, c) \/ Returns(s, c)) /\ s.code = response.code /\ s.uri = r.uri
         /\ s.authorization = r.authorization /\ s.reply = "body"
<1>1. /\ s.reply = "body" /\ s.method = r.method /\ s.body = r.body /\ s.uri = r.uri
      /\ s.authorization = r.authorization /\ s.code = response.code
      /\ response.code \in {200, 404} => s.queue = r.queue
      /\ response.code \notin {200, 404} => s.queue = Append(r.queue, Headers)
  BY DEF WithQueue, Answered, Transaction
<1>2. Valid(s, c)
  <2>1. Valid(r, c)  BY DEF Away
  <2> QED BY <1>1, <2>1, SameRequest
<1>3. response.code \in Codes  BY ConstantsAssumption
<1>4. CASE response.code \in {200, 404}  BY <1>1, <1>2, <1>4 DEF Away
<1>5. CASE response.code \notin {200, 404}
  <2>1. s.queue = <<Headers>>  BY <1>1, <1>5, Queues DEF Away
  <2> QED BY <1>1, <1>2, <1>3, <1>5, <2>1 DEF Away, Returns, Codes
<1> QED BY <1>4, <1>5

\* The last event joins what is there.
LEMMA PlaceArrived ==
  ASSUME NEW r \in Transaction, NEW c \in Knowledge, NEW a \in BOOLEAN, Placed(r, c, a), r.reply # "none",
         NEW last \in Lasts, NEW s, s = WithQueue(WithReply(r, "none"), Append(r.queue, last))
  PROVE  Placed(s, c, a)
<1>1. /\ s.reply = "none" /\ s.method = r.method /\ s.body = r.body /\ s.uri = r.uri /\ s.code = r.code
      /\ s.queue = Append(r.queue, last)
  BY DEF WithQueue, WithReply, Transaction
<1>2. CASE Away(r, c)
  <2>1. s.queue = <<last>>  BY <1>1, <1>2, Queues DEF Away
  <2>2. Valid(s, c)  BY <1>1, <1>2, SameRequest DEF Away
  <2>3. Over(s, c)  BY <1>1, <1>2, <2>1, <2>2 DEF Over, Away
  <2>4. ~a  BY <1>2 DEF Placed, Away, Closed, Returns, First
  <2> QED BY <2>3, <2>4 DEF Placed
<1>3. CASE Returns(r, c)
  <2>1. s.queue = <<Headers, last>>  BY <1>1, <1>3, AppendToOne DEF Returns
  <2>2. Valid(s, c)  BY <1>1, <1>3, SameRequest DEF Returns
  <2>3. Returns(s, c)  BY <1>1, <1>3, <2>1, <2>2 DEF Returns
  <2>4. a => r.code = 401
    BY <1>3 DEF Placed, Returns, Closed, First
  <2> QED BY <1>1, <2>3, <2>4 DEF Placed
<1>4. CASE Refused(r, c)
  <2>1. Valid(s, c)  BY <1>1, <1>4, SameRequest DEF Refused
  <2>2. last \in Failures  BY DEF Failures
  <2>3. r.queue = <<>> => s.queue = <<last>>  BY <1>1, Queues
  <2>4. ASSUME NEW x, r.queue = <<x>> PROVE s.queue = <<x, last>>  BY <1>1, <2>4, AppendToOne
  <2>5. Refused(s, c)  BY <1>1, <1>4, <2>1, <2>2, <2>3, <2>4 DEF Refused
  <2>6. ~a  BY <1>4 DEF Placed, Refused, Closed, Returns, First
  <2> QED BY <2>5, <2>6 DEF Placed
<1> QED BY <1>2, <1>3, <1>4 DEF Placed, Closed, Rests, Fresh, Leaves, Over, Told

\* From rest, to Fresh.
LEMMA PlaceRequested ==
  ASSUME NEW r \in Transaction, NEW c \in Knowledge, r.queue = <<>>, r.reply = "none",
         NEW request, NEW n, NEW s, s = WithQueue(Requested(r, request), Append(r.queue, E("ESubmit", "ETidyUp"))),
         NEW d, d = Submitting(c, request, n)
  PROVE  Fresh(s, d) /\ s.status = r.status /\ s.authorization = r.authorization
<1>1. /\ s.reply = "none" /\ s.method = request.method /\ s.uri = request.uri
      /\ s.status = r.status /\ s.authorization = r.authorization
      /\ s.queue = Append(r.queue, E("ESubmit", "ETidyUp"))
  BY DEF WithQueue, Requested, Transaction
<1>2. s.queue = <<E("ESubmit", "ETidyUp")>>  BY <1>1, Queues
<1>3. AsAsked(s, d) /\ First(d)  BY <1>1 DEF AsAsked, First, Submitting
<1> QED BY <1>1, <1>2, <1>3 DEF Fresh

\* Cancelled, to rest.
LEMMA PlaceCancelled ==
  ASSUME NEW r \in Transaction, NEW c \in Knowledge, Placed(r, c, FALSE), c.life = "busy",
         NEW s, s = Cancelled(r), NEW d, d = Idled(c)
  PROVE  Rests(s, d) \/ Refused(s, d)
<1>1. /\ s.reply = "none" /\ s.method = r.method /\ s.body = r.body /\ s.uri = r.uri /\ s.code = r.code
      /\ s.queue = <<>>
  BY DEF Cancelled, Transaction
<1>2. d.asked = c.asked /\ d.refused = c.refused /\ d.life = "idle" /\ d.ends = c.ends
  BY DEF Idled, Knowledge
<1>3. c.ends = <<>>
  BY DEF Placed, Closed, Rests, Fresh, Leaves, Away, Returns, Over, Told, Refused, First
<1>4. CASE ~c.refused  BY <1>1, <1>2, <1>3, <1>4 DEF Rests
<1>5. CASE c.refused
  <2>1. Valid(r, c) /\ r.code >= 300
    BY <1>5 DEF Placed, Closed, Rests, Fresh, Leaves, Away, Returns, Over, Told, Refused, First
  <2>2. Valid(s, d)  BY <1>1, <1>2, <2>1, SameRequest
  <2> QED BY <1>1, <1>2, <1>3, <1>5, <2>1, <2>2 DEF Refused
<1> QED BY <1>4, <1>5 DEF Knowledge

\* From a response 401, without credentials.
LEMMA PlaceUnanswered ==
  ASSUME NEW r \in Transaction, NEW c \in Knowledge, Returns(r, c)
  PROVE  /\ Away(WithQueue(r, Tail(r.queue)), c) \/ Over(WithQueue(r, Tail(r.queue)), c)
         /\ Rests(Cancelled(r), Ended(c, "EFailed"))
<1>1. Away(WithQueue(r, Tail(r.queue)), c) \/ Over(WithQueue(r, Tail(r.queue)), c)
  <2> DEFINE s == WithQueue(r, Tail(r.queue))
  <2>1. /\ s.reply = r.reply /\ s.method = r.method /\ s.body = r.body /\ s.uri = r.uri
        /\ s.queue = Tail(r.queue)
    BY DEF WithQueue, Transaction
  <2>2. Valid(s, c)
    <3>1. Valid(r, c)  BY DEF Returns
    <3> QED BY <2>1, <3>1, SameRequest
  <2>3. CASE r.reply = "body" /\ r.queue = <<Headers>>
    BY <2>1, <2>2, <2>3, Queues DEF Away, Returns
  <2>4. CASE r.reply = "none" /\ \E last \in Lasts : r.queue = <<Headers, last>>
    BY <2>1, <2>2, <2>4, Queues DEF Over, Returns
  <2> QED BY <2>3, <2>4 DEF Returns
<1>2. Rests(Cancelled(r), Ended(c, "EFailed"))
  <2>1. Cancelled(r).queue = <<>> /\ Cancelled(r).reply = "none"  BY DEF Cancelled, Transaction
  <2>2. LET d == Ended(c, "EFailed") IN d.life = "idle" /\ ~d.refused /\ d.ends = Append(c.ends, "EFailed")
    BY DEF Ended, Knowledge, Returns, First
  <2>3. Append(c.ends, "EFailed") = <<"EFailed">>  BY Queues DEF Returns, First
  <2> QED BY <2>1, <2>2, <2>3 DEF Rests
<1> QED BY <1>1, <1>2

-----------------------------------------------------------------------------
(* The places of the events are kept *)

\* A step of one transaction to a place keeps all of them.
LEMMA PlacesTurn ==
  ASSUME TypeOK, Places, NEW t \in Tx, NEW r, NEW c, Turns(t, r, c),
         asking' \in {asking, t} \/ (asking = t /\ asking' = None), asking' # asking => asking \in {t, None},
         Placed(r, c, asking' = t)
  PROVE  Places'
<1>1. SUFFICES ASSUME NEW u \in Tx PROVE Placed(tr'[u], client'[u], asking' = u)
  BY DEF Places
<1>2. CASE u = t  BY <1>2 DEF Turns, TypeOK
<1>3. CASE u # t
  <2>1. tr'[u] = tr[u] /\ client'[u] = client[u]  BY <1>3 DEF Turns, TypeOK
  <2>2. (asking' = u) = (asking = u)  BY <1>3, ConstantsAssumption
  <2>3. Placed(tr[u], client[u], asking = u)  BY DEF Places
  <2> QED BY <2>1, <2>2, <2>3
<1> QED BY <1>2, <1>3

\* A step of one transaction leaves the responses of the others.
LEMMA ChallengesTurn ==
  ASSUME TypeOK, Challenges, NEW t \in Tx, NEW r, NEW c, Turns(t, r, c), Challenged(r) => ~Granted(r)
  PROVE  Challenges'
BY DEF Challenges, Turns, TypeOK

\* A transaction that runs has a place, and nobody is asked.
LEMMA RunsPlaced ==
  ASSUME TypeOK, Places, NEW t \in Tx, NEW ev, NEW to, Runs(t, ev, to)
  PROVE  /\ asking = None /\ asking # t /\ Placed(tr[t], client[t], FALSE)
         /\ tr[t] \in Transaction /\ client[t] \in Knowledge
         /\ tr[t].queue # <<>> /\ Head(tr[t].queue) = E(ev, to)
<1>1. asking = None /\ asking # t  BY ConstantsAssumption DEF Runs
<1>2. Placed(tr[t], client[t], FALSE)  BY <1>1, Zenon DEF Places
<1> QED BY <1>1, <1>2 DEF Runs, TypeOK

\* A place that is not that of a response is a place, and has no challenge.
LEMMA NotReturning ==
  ASSUME NEW r, NEW c,
         Closed(r, c) \/ Rests(r, c) \/ Fresh(r, c) \/ Leaves(r, c) \/ Away(r, c) \/ Over(r, c)
           \/ Told(r, c) \/ Refused(r, c)
  PROVE  Placed(r, c, FALSE) /\ ~Challenged(r)
<1>1. Placed(r, c, FALSE)  BY DEF Placed
<1>2. ~(r.queue # <<>> /\ Head(r.queue) = Headers)
  <2>1. SUFFICES ASSUME r.queue # <<>>, Head(r.queue) = Headers PROVE FALSE  OBVIOUS
  <2>2. Head(r.queue) = E("EGotResponseHeaders", "EStatusCodeHandler")  BY <2>1 DEF Headers
  <2>3. CASE Closed(r, c)  BY <2>1, <2>3 DEF Closed
  <2>4. CASE Rests(r, c)  BY <2>1, <2>4 DEF Rests
  <2>5. CASE Away(r, c)  BY <2>1, <2>5 DEF Away
  <2>6. CASE Fresh(r, c)  BY <2>2, <2>6, Queues, Movings DEF Fresh
  <2>7. CASE Leaves(r, c)  BY <2>2, <2>7, Queues, Movings DEF Leaves
  <2>8. CASE Over(r, c)  BY <2>2, <2>8, Queues, Movings DEF Over, Lasts
  <2>9. CASE Told(r, c)  BY <2>2, <2>9, Queues, Movings DEF Told, Failure
  <2>10. CASE Refused(r, c)
    <3>1. Head(r.queue) \in Failures  BY <2>1, <2>10, Queues DEF Refused
    <3> QED BY <2>2, <3>1, Movings DEF Failures, Lasts, Failure
  <2> QED BY <2>3, <2>4, <2>5, <2>6, <2>7, <2>8, <2>9, <2>10
<1> QED BY <1>1, <1>2 DEF Challenged

\* A step to such a place.
LEMMA QuietTurn ==
  ASSUME TypeOK, Places, Challenges, NEW t \in Tx, NEW r, NEW c, Turns(t, r, c),
         asking' = asking \/ (asking = t /\ asking' = None), asking' # t,
         Closed(r, c) \/ Rests(r, c) \/ Fresh(r, c) \/ Leaves(r, c) \/ Away(r, c) \/ Over(r, c)
           \/ Told(r, c) \/ Refused(r, c)
  PROVE  Places' /\ Challenges'
<1>1. Placed(r, c, FALSE) /\ ~Challenged(r)  BY NotReturning
<1>2. (asking' = t) = FALSE  OBVIOUS
<1> QED BY <1>1, <1>2, PlacesTurn, ChallengesTurn

\* The places, in CValidationFilter.
LEMMA ValidationKeepsPlaces ==
  ASSUME TypeOK, Places, Challenges, NEW t \in Tx, Validation(t)
  PROVE  Places' /\ Challenges'
<1>1. CASE Runs(t, "ESubmit", "ETidyUp") /\ Become(ValidateRequest(w0, t)) /\ Unasked
  <2>1. Fresh(tr[t], client[t]) /\ asking = None /\ asking # t /\ asking' = asking
        /\ tr[t] \in Transaction /\ client[t] \in Knowledge
    <3>1. /\ asking = None /\ asking # t /\ Placed(tr[t], client[t], FALSE)
          /\ tr[t] \in Transaction /\ client[t] \in Knowledge
          /\ tr[t].queue # <<>> /\ Head(tr[t].queue) = E("ESubmit", "ETidyUp")
      BY <1>1, RunsPlaced
    <3>2. Fresh(tr[t], client[t])  BY <3>1, FirstEvent
    <3> QED BY <1>1, <3>1, <3>2 DEF Unasked
  <2>2. CASE RequestFails(tr[t])
    BY <1>1, <2>1, <2>2, ValidateRequestSteps, PlaceValidated, QuietTurn
  <2>3. CASE ~RequestFails(tr[t])
    BY <1>1, <2>1, <2>3, ValidateRequestSteps, PlaceValidated, QuietTurn
  <2> QED BY <2>2, <2>3
<1>2. ASSUME NEW ev \in {"EResponseComplete", "KErr"},
             Runs(t, ev, "ETidyUp"), Become(ValidateResponse(w0, t)), Unasked
      PROVE  Places' /\ Challenges'
  <2>1. /\ Over(tr[t], client[t]) \/ Refused(tr[t], client[t])
        /\ asking # t /\ asking' = asking /\ tr[t] \in Transaction /\ client[t] \in Knowledge
        /\ tr[t].queue # <<>> /\ Head(tr[t].queue) = E(ev, "ETidyUp")
    <3>1. /\ asking = None /\ asking # t /\ Placed(tr[t], client[t], FALSE)
          /\ tr[t] \in Transaction /\ client[t] \in Knowledge
          /\ tr[t].queue # <<>> /\ Head(tr[t].queue) = E(ev, "ETidyUp")
      BY <1>2, RunsPlaced
    <3>2. Over(tr[t], client[t]) \/ Refused(tr[t], client[t])  BY <3>1, FirstEvent
    <3> QED BY <1>2, <3>1, <3>2 DEF Unasked
  <2>2. Head(tr[t].queue).ev = ev  BY <2>1 DEF E
  <2> DEFINE r == WithQueue(tr[t], Append(Tail(tr[t].queue), Final(tr[t], ev)))
  <2>3. Turns(t, r, client[t])  BY <1>2, <2>2, ValidateResponseSteps
  <2>4. Told(r, client[t]) \/ Refused(r, client[t])  BY <2>1, PlaceConcluded
  <2> QED BY <2>1, <2>3, <2>4, QuietTurn
<1> QED BY <1>1, <1>2 DEF Validation

\* The places, in CRedirectFilter.
LEMMA RedirectionKeepsPlaces ==
  ASSUME TypeOK, Places, Challenges, NEW t \in Tx, Redirection(t)
  PROVE  Places' /\ Challenges'
<1> DEFINE r == tr[t]
           c == client[t]
           tail == Append(Tail(r.queue), E("KErr", "ETidyUp"))
<1>1. /\ Returns(r, c) /\ asking # t /\ asking' = asking
      /\ r \in Transaction /\ c \in Knowledge /\ r.code \in {301, 302, 305}
  <2>1. Runs(t, "EGotResponseHeaders", "EStatusCodeHandler") /\ asking' = asking /\ r.code \in {301, 302, 305}
    BY DEF Redirection, Unasked
  <2>2. /\ asking # t /\ Placed(r, c, FALSE) /\ r \in Transaction /\ c \in Knowledge
        /\ r.queue # <<>> /\ Head(r.queue) = E("EGotResponseHeaders", "EStatusCodeHandler")
    <3>1. Runs(t, "EGotResponseHeaders", "EStatusCodeHandler")  BY <2>1
    <3> QED BY <3>1, RunsPlaced
  <2>3. Returns(r, c)  BY <2>2, FirstEvent
  <2> QED BY <2>1, <2>2, <2>3
<1>2. r.code # 401  BY <1>1
<1>3. r.location # None => r.location \in Uris  BY <1>1 DEF Transaction
<1>4. ASSUME NEW s \in {WithQueue(r, tail), WithQueue(CountedOf(r), tail)}, Turns(t, s, Refuse(c))
      PROVE  Places' /\ Challenges'
  <2>1. Refused(s, Refuse(c))  BY <1>1, <1>2, <1>4, PlaceRefused
  <2> QED BY <1>1, <1>4, <2>1, QuietTurn
<1>5. CASE r.code = 305
  BY <1>4, <1>5, RefusedSteps DEF Redirection
<1>6. CASE r.code \in {301, 302}
  <2>1. Become(HandleRedirect(w0, t))  BY <1>6 DEF Redirection
  <2>2. CASE Turns(t, WithQueue(r, tail), Refuse(c))  BY <1>4, <2>2
  <2>3. CASE Turns(t, WithQueue(CountedOf(r), tail), Refuse(c))  BY <1>4, <2>3
  <2>4. CASE /\ r.location # None /\ r.code = 301 /\ r.method \notin {"EGET", "EHEAD"}
             /\ Turns(t, WithQueue(Cancelled(Moved(r)), <<E("ERedirectRequiresConfirmation", "EClient")>>), c)
    <3>1. Told(WithQueue(Cancelled(Moved(r)), <<E("ERedirectRequiresConfirmation", "EClient")>>), c)
      BY <1>1, <1>3, <2>4, PlaceAsks
    <3> QED BY <1>1, <2>4, <3>1, QuietTurn
  <2>5. CASE /\ r.location # None /\ (r.code = 301 => r.method \in {"EGET", "EHEAD"})
             /\ Turns(t, WithQueue(Repeated(r), <<E("ESubmit", "ETidyUp")>>), c)
    <3>1. Fresh(WithQueue(Repeated(r), <<E("ESubmit", "ETidyUp")>>), c)
      BY <1>1, <1>3, <1>6, <2>5, PlaceRepeats
    <3> QED BY <1>1, <2>5, <3>1, QuietTurn
  <2> QED BY <1>6, <2>1, <2>2, <2>3, <2>4, <2>5, HandleRedirectSteps
<1> QED BY <1>1, <1>5, <1>6

\* The places, in CAuthenticationFilter.
LEMMA AuthenticationKeepsPlaces ==
  ASSUME TypeOK, Places, Challenges, NEW t \in Tx, Authentication(t)
  PROVE  Places' /\ Challenges'
<1> DEFINE r == tr[t]
           c == client[t]
<1>1. ASSUME Runs(t, "ESubmit", "EStatusCodeHandler+1"), Become(SupplyCredentials(w0, t)), Unasked
      PROVE  Places' /\ Challenges'
  <2>1. /\ asking # t /\ Placed(r, c, FALSE) /\ r \in Transaction /\ c \in Knowledge
        /\ r.queue # <<>> /\ Head(r.queue) = E("ESubmit", "EStatusCodeHandler+1")
    BY <1>1, RunsPlaced
  <2>2. Leaves(r, c)  BY <2>1, FirstEvent
  <2>3. asking' = asking  BY <1>1 DEF Unasked
  <2>4. ASSUME NEW s, NEW realm, NEW password,
               s \in {Onward(r), WithAuthorization(Onward(r), realm, password)}, Turns(t, s, c)
        PROVE  Places' /\ Challenges'
    <3>1. Leaves(s, c)  BY <2>1, <2>2, <2>4, PlaceSupplied
    <3> QED BY <2>1, <2>3, <2>4, <3>1, QuietTurn
  <2> DEFINE k == FindCredentialsForURI(iCredentials, r.uri)
  <2>5. Turns(t, Onward(r), c) \/ Turns(t, WithAuthorization(Onward(r), iCredentials[k].realm, iCredentials[k].password), c)
    BY <1>1, SupplyCredentialsSteps
  <2> QED BY <2>4, <2>5
<1>2. ASSUME Runs(t, "EGotResponseHeaders", "EStatusCodeHandler"), r.code = 401, Become(Challenge(w0, t)),
             asking' = IF Asks(t) THEN t ELSE None
      PROVE  Places' /\ Challenges'
  <2>1. /\ asking = None /\ asking # t /\ Placed(r, c, FALSE) /\ r \in Transaction /\ c \in Knowledge
        /\ r.queue # <<>> /\ Head(r.queue) = E("EGotResponseHeaders", "EStatusCodeHandler")
    <3>1. Runs(t, "EGotResponseHeaders", "EStatusCodeHandler")  BY <1>2
    <3> QED BY <3>1, RunsPlaced
  <2>2. Returns(r, c)  BY <2>1, FirstEvent
  <2> DEFINE k == FindCredentials(iCredentials, Realm[r.uri])
             wrong == Wrong(w0, t, k)
  <2>3. Asks(t) = ((k = 0 \/ wrong) /\ (r.status # None \/ r.user = None))
    BY DEF Asks
  <2> HIDE DEF k, wrong
  <2>4. ASSUME NEW s, NEW password, NEW id, s = Signed(NoUser(r), password, id), Turns(t, s, c), ~Asks(t)
        PROVE  Places' /\ Challenges'
    <3>1. Leaves(s, c)  BY <2>1, <2>2, <2>4, PlaceSigned
    <3>2. asking' = asking  BY <1>2, <2>1, <2>4
    <3> QED BY <2>1, <2>4, <3>1, <3>2, QuietTurn
  <2>5. ASSUME Turns(t, r, c) PROVE Places' /\ Challenges'
    <3>1. asking' \in {t, None}  BY <1>2
    <3>2. (asking' = t) \in BOOLEAN /\ Placed(r, c, asking' = t)  BY <1>2, <2>2 DEF Placed
    <3>3. Challenged(r) => ~Granted(r)  BY DEF Challenges
    <3> QED BY <2>1, <2>5, <3>1, <3>2, <3>3, PlacesTurn, ChallengesTurn
  <2>6. \/ k # 0 /\ ~wrong /\ Turns(t, Signed(NoUser(r), iCredentials[k].password, iCredentials[k].id), c)
        \/ r.status = None /\ r.user # None /\ Turns(t, Signed(NoUser(r), r.user, iNextID), c)
        \/ Turns(t, r, c)
    BY <1>2, ChallengeSteps DEF k, wrong
  <2> QED BY <2>3, <2>4, <2>5, <2>6
<1> QED BY <1>1, <1>2 DEF Authentication

\* The places, at both ends of the chain.
LEMMA HandlerKeepsPlaces ==
  ASSUME TypeOK, Places, Challenges, NEW t \in Tx, Submitted(t) \/ ClientRuns(t)
  PROVE  Places' /\ Challenges'
<1> DEFINE r == tr[t]
           c == client[t]
<1>1. CASE Submitted(t)
  <2>1. Runs(t, "ESubmit", "EProtocolHandler") /\ asking' = asking  BY <1>1 DEF Submitted, Unasked
  <2>2. /\ asking # t /\ Placed(r, c, FALSE) /\ r \in Transaction /\ c \in Knowledge
        /\ r.queue # <<>> /\ Head(r.queue) = E("ESubmit", "EProtocolHandler")
    BY <2>1, RunsPlaced
  <2>3. Leaves(r, c)  BY <2>2, FirstEvent
  <2>4. Turns(t, WithQueue(WithReply(r, "waiting"), Tail(r.queue)), c)  BY <1>1, <2>3, SubmittedSteps DEF Leaves
  <2>5. Away(WithQueue(WithReply(r, "waiting"), Tail(r.queue)), c)  BY <2>2, <2>3, PlaceSubmitted
  <2> QED BY <2>1, <2>2, <2>4, <2>5, QuietTurn
<1>2. CASE ClientRuns(t)
  <2>1. PICK ev \in Events : Runs(t, ev, "EClient") /\ Become(Done(Tell(w0, t, ev), t)) /\ asking' = asking
    BY <1>2 DEF ClientRuns, Unasked
  <2>2. /\ asking # t /\ Placed(r, c, FALSE) /\ r \in Transaction /\ c \in Knowledge
        /\ r.queue # <<>> /\ Head(r.queue) = E(ev, "EClient")
    BY <2>1, RunsPlaced
  <2>3. Told(r, c) \/ Refused(r, c)  BY <2>2, FirstEvent
  <2> DEFINE s == WithQueue(r, Tail(r.queue))
             d == IF ev = "ERedirectRequiresConfirmation" THEN Asked(c) ELSE Ended(c, ev)
  <2>4. Turns(t, s, d)  BY <2>1, ClientRunsSteps
  <2>5. Rests(s, d) \/ Refused(s, d)  BY <2>2, <2>3, PlaceTold
  <2> HIDE DEF s, d
  <2> QED BY <2>1, <2>2, <2>4, <2>5, QuietTurn
<1> QED BY <1>1, <1>2

\* The places, when something comes from the server.
LEMMA ServerKeepsPlaces ==
  ASSUME TypeOK, Places, Challenges, NEW t \in Tx, Answer(t) \/ Complete(t) \/ Breaks(t)
  PROVE  Places' /\ Challenges'
<1> DEFINE r == tr[t]
           c == client[t]
           a == (asking = t)
<1>1. Placed(r, c, a) /\ r \in Transaction /\ c \in Knowledge /\ a \in BOOLEAN  BY DEF Places, TypeOK
<1>2. CASE Answer(t)
  <2>1. PICK response \in Responses :
          /\ r.reply = "waiting" /\ (response.code = 401 <=> ~Authorized(t))
          /\ response.code \in {200, 404} => Turns(t, Answered(r, response), c)
          /\ response.code \notin {200, 404} => Turns(t, WithQueue(Answered(r, response), Append(r.queue, Headers)), c)
    BY <1>2, AnswerSteps
  <2> DEFINE s == IF response.code \in {200, 404} THEN Answered(r, response)
                  ELSE WithQueue(Answered(r, response), Append(r.queue, Headers))
  <2>2. Away(r, c) /\ ~a
    BY <1>1, <2>1 DEF Placed, Closed, Rests, Fresh, Leaves, Returns, Over, Told, Refused
  <2>3. Turns(t, s, c)  BY <2>1
  <2>4. /\ Away(s, c) \/ Returns(s, c)
        /\ s.code = response.code /\ s.uri = r.uri /\ s.authorization = r.authorization
    BY <1>1, <2>2, PlaceAnswered
  <2> HIDE DEF s
  <2>5. Challenged(s) => ~Granted(s)  BY <2>1, <2>4 DEF Challenged, Granted, Authorized
  <2>6. asking' = asking  BY <1>2 DEF Answer, Unasked
  <2>7. Placed(s, c, asking' = t)  BY <2>2, <2>4, <2>6 DEF Placed
  <2> QED BY <2>3, <2>5, <2>6, <2>7, PlacesTurn, ChallengesTurn
<1>3. ASSUME NEW last \in Lasts, r.reply # "none", asking' = asking,
             Turns(t, WithQueue(WithReply(r, "none"), Append(r.queue, last)), c)
      PROVE  Places' /\ Challenges'
  <2> DEFINE s == WithQueue(WithReply(r, "none"), Append(r.queue, last))
  <2>1. Placed(s, c, a)  BY <1>1, <1>3, PlaceArrived
  <2>2. s.code = r.code /\ s.uri = r.uri /\ s.authorization = r.authorization /\ s.queue = Append(r.queue, last)
    BY <1>1 DEF WithQueue, WithReply, Transaction
  <2>3. ASSUME Challenged(s) PROVE ~Granted(s)
    <3>1. r.queue = <<>> => Head(s.queue) = last  BY <2>2, Queues
    <3>2. last # Headers  BY Movings DEF Lasts, Headers
    <3>3. r.queue # <<>> => Head(s.queue) = Head(r.queue)
      BY <1>1, <2>2, HeadTailAppend DEF Transaction
    <3>4. Challenged(r)  BY <2>2, <2>3, <3>1, <3>2, <3>3 DEF Challenged
    <3> QED BY <2>2, <3>4 DEF Challenges, Granted
  <2> HIDE DEF s
  <2> QED BY <1>3, <2>1, <2>3, PlacesTurn, ChallengesTurn DEF s
<1>4. CASE Complete(t)
  <2>1. E("EResponseComplete", "ETidyUp") \in Lasts  BY DEF Lasts
  <2> QED BY <1>3, <1>4, <2>1, ArrivalSteps DEF Complete, Unasked
<1>5. CASE Breaks(t)
  <2>1. E("KErr", "ETidyUp") \in Lasts  BY DEF Lasts
  <2> QED BY <1>3, <1>5, <2>1, ArrivalSteps DEF Breaks, Unasked
<1> QED BY <1>2, <1>4, <1>5

\* The places, when the client acts.
LEMMA ClientKeepsPlaces ==
  ASSUME Env = {}, TypeOK, Places, Challenges, NEW t \in Tx,
         ClientSubmits(t) \/ ClientConfirms(t) \/ ClientCancels(t) \/ ClientCloses(t)
  PROVE  Places' /\ Challenges'
<1> DEFINE r == tr[t]
           c == client[t]
           a == (asking = t)
<1>1. Placed(r, c, a) /\ r \in Transaction /\ c \in Knowledge /\ a \in BOOLEAN  BY DEF Places, TypeOK
<1>2. ASSUME NEW request, NEW n, SubmitAs(request, t, n), r.queue = <<>>, r.reply = "none", asking # t
      PROVE  Places' /\ Challenges'
  <2> DEFINE s == WithQueue(Requested(r, request), Append(r.queue, E("ESubmit", "ETidyUp")))
             d == Submitting(c, request, n)
  <2>1. Turns(t, s, d) /\ asking' = asking  BY <1>2, SubmitAsSteps
  <2>2. Fresh(s, d)  BY <1>1, <1>2, PlaceRequested
  <2> HIDE DEF s, d
  <2> QED BY <1>2, <2>1, <2>2, QuietTurn
<1>3. CASE ClientSubmits(t)
  <2>1. PICK request \in Requests[t] : SubmitAs(request, t, 1)  BY <1>3 DEF ClientSubmits
  <2>2. Quiet(t)  BY <1>3 DEF ClientSubmits
  <2> QED BY <1>2, <2>1, <2>2 DEF Quiet
<1>4. CASE ClientConfirms(t)
  <2>1. c.life = "confirm" /\ SubmitAs(r, t, 0)  BY <1>4 DEF ClientConfirms
  <2>2. Rests(r, c) /\ ~a
    BY <1>1, <2>1 DEF Placed, Closed, Fresh, Leaves, Away, Returns, Over, Told, Refused, First
  <2> QED BY <1>2, <2>1, <2>2 DEF Rests
<1>5. CASE ClientCancels(t)
  <2>1. c.life = "busy" /\ asking # t /\ asking' = asking  BY <1>5 DEF ClientCancels, Unasked
  <2>2. Placed(r, c, FALSE)
    <3>1. a = FALSE  BY <2>1
    <3> QED BY <1>1, <3>1
  <2>3. Turns(t, Cancelled(r), Idled(c))  BY <1>5, ClientCancelsSteps
  <2>4. Rests(Cancelled(r), Idled(c)) \/ Refused(Cancelled(r), Idled(c))  BY <1>1, <2>1, <2>2, PlaceCancelled
  <2> QED BY <2>1, <2>3, <2>4, QuietTurn
<1>6. CASE ClientCloses(t)
  <2>1. Turns(t, NewTransaction, NewKnowledge("closed"))  BY <1>6, ClientClosesSteps
  <2>2. Closed(NewTransaction, NewKnowledge("closed"))  BY DEF Closed, NewTransaction, NewKnowledge
  <2>3. Placed(NewTransaction, NewKnowledge("closed"), a) /\ ~Challenged(NewTransaction)
    BY <2>2 DEF Placed, Challenged, NewTransaction
  <2>4. asking' = asking  BY <1>6 DEF ClientCloses, Unasked
  <2> QED BY <2>1, <2>3, <2>4, PlacesTurn, ChallengesTurn
<1> QED BY <1>3, <1>4, <1>5, <1>6

\* The places, when the question to the user returns.
LEMMA UserKeepsPlaces ==
  ASSUME TypeOK, Places, Challenges, NEW t \in Tx, UserAnswers(t) \/ UserRefuses(t) \/ UserFails(t)
  PROVE  Places' /\ Challenges'
<1> DEFINE r == tr[t]
           c == client[t]
<1>1. asking = t /\ asking' = None /\ asking' # t
  BY ConstantsAssumption DEF UserAnswers, UserRefuses, UserFails
<1>2. /\ Closed(r, c) \/ Returns(r, c)
      /\ r \in Transaction /\ c \in Knowledge
  <2>1. (asking = t) = TRUE  BY <1>1
  <2>2. Placed(r, c, asking = t)  BY DEF Places
  <2> QED BY <2>1, <2>2 DEF Placed, TypeOK
<1>3. CASE Closed(r, c)
  <2>1. c.life = "closed" /\ r.queue = <<>>  BY <1>3 DEF Closed
  <2>2. Turns(t, r, c)
    <3>1. CASE UserAnswers(t)
      <4>1. PICK password : Become(IF c.life = "closed" THEN w0 ELSE Resubmit(w0, t, password, 0))
        BY <3>1 DEF UserAnswers
      <4> QED BY <2>1, <4>1, UserAnswersSteps
    <3>2. CASE UserRefuses(t)  BY <2>1, <3>2, UserRefusesSteps
    <3>3. CASE UserFails(t)  BY <2>1, <3>3, UserFailsSteps
    <3> QED BY <3>1, <3>2, <3>3
  <2> QED BY <1>1, <1>3, <2>2, QuietTurn
<1>4. CASE Returns(r, c)
  <2>1. c.life # "closed" /\ r.queue # <<>>  BY <1>4, Queues DEF Returns, First
  <2>2. CASE UserAnswers(t)
    <3>1. PICK password : Become(IF c.life = "closed" THEN w0 ELSE Resubmit(w0, t, password, 0))
      BY <2>2 DEF UserAnswers
    <3>2. Turns(t, Signed(r, password, iNextID), c)  BY <2>1, <3>1, UserAnswersSteps
    <3>3. Leaves(Signed(r, password, iNextID), c)  BY <1>2, <1>4, PlaceSigned
    <3> QED BY <1>1, <3>2, <3>3, QuietTurn
  <2>3. CASE UserRefuses(t)
    <3>1. Turns(t, WithQueue(r, Tail(r.queue)), c)  BY <2>1, <2>3, UserRefusesSteps
    <3>2. Away(WithQueue(r, Tail(r.queue)), c) \/ Over(WithQueue(r, Tail(r.queue)), c)
      BY <1>2, <1>4, PlaceUnanswered
    <3> QED BY <1>1, <3>1, <3>2, QuietTurn
  <2>4. CASE UserFails(t)
    <3>1. Turns(t, Cancelled(r), Ended(c, "EFailed"))  BY <2>1, <2>4, UserFailsSteps
    <3>2. Rests(Cancelled(r), Ended(c, "EFailed"))  BY <1>2, <1>4, PlaceUnanswered
    <3> QED BY <1>1, <3>1, <3>2, QuietTurn
  <2> QED BY <2>2, <2>3, <2>4
<1> QED BY <1>2, <1>3, <1>4

-----------------------------------------------------------------------------
(* The types are kept *)

\* The constants, and what is counted.
LEMMA Limits ==
  ASSUME TypeOK
  PROVE  /\ MaxSubmits \in Nat /\ MaxAnswers \in Nat /\ KRedirectLimit \in Nat \ {0}
         /\ Cardinality(Tx) \in Nat /\ MaxSubmits * Cardinality(Tx) \in Nat
         /\ Ids \subseteq Nat /\ None \notin Ids /\ iNextID \in Nat /\ answers \in 0 .. MaxAnswers
<1>1. MaxSubmits \in Nat /\ MaxAnswers \in Nat /\ KRedirectLimit \in Nat \ {0} /\ None \notin Nat /\ IsFiniteSet(Tx)
  BY ConstantsAssumption
<1>2. Cardinality(Tx) \in Nat  BY <1>1, FS_CardinalityType
<1>3. MaxSubmits * Cardinality(Tx) \in Nat  BY <1>1, <1>2
<1>4. Ids \subseteq Nat  BY <1>1, <1>3 DEF Ids
<1> QED BY <1>1, <1>2, <1>3, <1>4 DEF TypeOK

\* Every transaction that has tried credentials may have brought one identity with it.
LEMMA SpentGrows ==
  ASSUME TypeOK, NEW S \in SUBSET Tx, NEW T \in SUBSET Tx, S \subseteq T
  PROVE  /\ MaxSubmits * Cardinality(S) \in Nat /\ MaxSubmits * Cardinality(T) \in Nat
         /\ MaxSubmits * Cardinality(S) =< MaxSubmits * Cardinality(T)
         /\ (\E t \in T : t \notin S) /\ MaxSubmits # 0 =>
              MaxSubmits * Cardinality(S) + 1 =< MaxSubmits * Cardinality(T)
<1> DEFINE s == Cardinality(S)
           n == Cardinality(T)
<1>1. IsFiniteSet(T)  BY FS_Subset, ConstantsAssumption
<1>2. IsFiniteSet(S) /\ s =< n /\ (n = s => T = S)  BY <1>1, FS_Subset
<1>3. s \in Nat /\ n \in Nat  BY <1>1, <1>2, FS_CardinalityType
<1>4. (\E t \in T : t \notin S) => s + 1 =< n
  BY <1>2, <1>3
<1> HIDE DEF s, n
<1>5. PICK d \in Nat : n = s + d
  <2>1. n - s \in Nat /\ n = s + (n - s)  BY <1>2, <1>3 DEF s, n
  <2> QED BY <2>1
<1>6. MaxSubmits \in Nat  BY Limits
<1>7. MaxSubmits * n = MaxSubmits * s + MaxSubmits * d  BY <1>3, <1>5, <1>6
<1>8. MaxSubmits * s \in Nat /\ MaxSubmits * d \in Nat  BY <1>3, <1>5, <1>6
<1>9. d # 0 /\ MaxSubmits # 0 => MaxSubmits * d >= 1
  <2>1. SUFFICES ASSUME d # 0, MaxSubmits # 0 PROVE MaxSubmits * d >= 1  OBVIOUS
  <2>2. d >= 1 /\ MaxSubmits >= 1  BY <1>5, <1>6, <2>1
  <2> QED BY <1>5, <1>6, <2>2
<1>10. (\E t \in T : t \notin S) => d # 0  BY <1>3, <1>4, <1>5
<1>11. MaxSubmits * n \in Nat  BY <1>7, <1>8
<1>12. MaxSubmits * s =< MaxSubmits * n  BY <1>7, <1>8
<1>13. (\E t \in T : t \notin S) /\ MaxSubmits # 0 => MaxSubmits * s + 1 =< MaxSubmits * n
  BY <1>7, <1>8, <1>9, <1>10
<1> QED BY <1>8, <1>11, <1>12, <1>13 DEF s, n

\* What a step may do to the identities: it leaves spent what is spent, and a new
\* identity is an answer or the user of a transaction that has not been spent.
HasUser(r) == r.user # None \/ r.info # None
Lived(r, c, s, d) ==
  /\ s \in Transaction /\ d \in Knowledge
  /\ c.life = "closed" => d.life = "closed"
  /\ r.status # None /\ d.life # "closed" => s.status # None
  /\ HasUser(s) => MaxSubmits # 0

\* A step of one transaction, of the right type, keeps the types and the count.
LEMMA TypeTurn ==
  ASSUME TypeOK, Counted, NEW t \in Tx, NEW s, NEW d, Turns(t, s, d), Lived(tr[t], client[t], s, d),
         iCredentials' \in Seq(Credentials), asking' \in Tx \cup {None}, answers' \in 0 .. MaxAnswers,
         \/ iNextID' = iNextID /\ answers' = answers
         \/ iNextID' \in {iNextID, iNextID + 1} /\ answers' = answers + 1
         \/ /\ iNextID' = iNextID + 1 /\ answers' = answers
            /\ client[t].life # "closed" /\ tr[t].status = None /\ s.status # None /\ MaxSubmits # 0
  PROVE  TypeOK' /\ Counted'
<1>1. tr' \in [Tx -> Transaction] /\ client' \in [Tx -> Knowledge]
  BY DEF TypeOK, Turns, Lived
<1>2. \A u \in Tx : /\ u # t => tr'[u] = tr[u] /\ client'[u] = client[u]
                    /\ u = t => tr'[u] = s /\ client'[u] = d
  BY DEF TypeOK, Turns
<1>3. Spent \subseteq Spent' /\ Spent \in SUBSET Tx /\ Spent' \in SUBSET Tx
  BY <1>2 DEF Spent, Lived
<1>4. client[t].life # "closed" /\ tr[t].status = None /\ s.status # None => t \in Spent' /\ t \notin Spent
  BY <1>2 DEF Spent
<1>5. \A u \in Tx : HasUser(tr'[u]) => MaxSubmits # 0
  BY <1>2 DEF Lived, HasUser, Counted
<1> DEFINE n == MaxSubmits * Cardinality(Spent)
           m == MaxSubmits * Cardinality(Spent')
           all == MaxSubmits * Cardinality(Tx)
<1>6. n \in Nat /\ m \in Nat /\ n =< m /\ all \in Nat
      /\ (t \in Spent' /\ t \notin Spent /\ MaxSubmits # 0 => n + 1 =< m)
  BY <1>3, SpentGrows
<1>7. m =< all  BY <1>3, SpentGrows
<1>8. iNextID \in Nat /\ answers \in Nat /\ MaxAnswers \in Nat /\ answers' \in Nat /\ answers' =< MaxAnswers
  BY Limits
<1>9. iNextID =< answers + n  BY DEF Counted
<1>10. Ids = 0 .. MaxAnswers + all  BY DEF Ids
<1> HIDE DEF n, m, all
<1>11. iNextID' =< answers' + m /\ iNextID' \in Nat
  <2>1. CASE iNextID' = iNextID /\ answers' = answers  BY <1>6, <1>8, <1>9, <2>1
  <2>2. CASE iNextID' \in {iNextID, iNextID + 1} /\ answers' = answers + 1  BY <1>6, <1>8, <1>9, <2>2
  <2>3. CASE /\ iNextID' = iNextID + 1 /\ answers' = answers
             /\ client[t].life # "closed" /\ tr[t].status = None /\ s.status # None /\ MaxSubmits # 0
    BY <1>4, <1>6, <1>8, <1>9, <2>3
  <2> QED BY <2>1, <2>2, <2>3
<1>12. iNextID' \in Ids
  <2>1. iNextID' =< MaxAnswers + all
    <3>1. m \in Nat /\ all \in Nat /\ m =< all /\ iNextID' =< answers' + m /\ iNextID' \in Nat
      BY <1>6, <1>7, <1>11
    <3>2. answers' \in Nat /\ answers' =< MaxAnswers /\ MaxAnswers \in Nat  BY <1>8
    <3>3. \A x, y, z, v, u \in Nat : x =< y + z /\ z =< v /\ y =< u => x =< u + v  OBVIOUS
    <3> QED BY <3>1, <3>2, <3>3
  <2>2. Ids' = Ids  BY DEF Ids
  <2> QED BY <1>6, <1>8, <1>10, <1>11, <2>1, <2>2
<1>13. TypeOK'  BY <1>1, <1>12 DEF TypeOK
<1>14. Counted'
  <2>1. iNextID' =< answers' + MaxSubmits * Cardinality(Spent')  BY <1>11 DEF m
  <2> QED BY <1>5, <2>1 DEF Counted, HasUser
<1> QED BY <1>13, <1>14

\* Every event at every place is one.
LEMMA EventTyped ==
  ASSUME NEW ev \in Events, NEW to \in Positions
  PROVE  E(ev, to) \in Event
BY DEF E, Event

\* The events that are sent.
LEMMA HeadersTyped ==
  /\ Headers \in Event /\ Failure \in Event /\ \A last \in Lasts : last \in Event
  /\ \A to \in {"EProtocolHandler", "ETidyUp"} : E("ESubmit", to) \in Event
  /\ E("KErr", "ETidyUp") \in Event /\ E("ERedirectRequiresConfirmation", "EClient") \in Event
  /\ \A r, ev : Final(r, ev) \in Event
BY EventTyped DEF Events, Positions, Headers, Failure, Lasts, Final

\* The queues that become of a queue.
LEMMA QueueTyped ==
  ASSUME NEW q \in Seq(Event)
  PROVE  /\ \A x \in Event : Append(q, x) \in Seq(Event) /\ <<x>> \in Seq(Event)
         /\ <<>> \in Seq(Event)
         /\ q # <<>> => Tail(q) \in Seq(Event)
         /\ q # <<>> => \A to \in Positions : To(q, to) \in Seq(Event)
<1>1. \A x \in Event : Append(q, x) \in Seq(Event)  BY AppendProperties
<1>2. \A x \in Event : <<x>> \in Seq(Event)  OBVIOUS
<1>3. q # <<>> => Tail(q) \in Seq(Event)  BY HeadTailProperties
<1>4. ASSUME q # <<>>, NEW to \in Positions PROVE To(q, to) \in Seq(Event)
  <2>1. 1 \in 1 .. Len(q)  BY <1>4, EmptySeq, LenProperties
  <2>2. q[1] \in Event  BY <2>1, ElementOfSeq
  <2>3. [q[1] EXCEPT !.to = to] \in Event  BY <1>4, <2>2 DEF Event
  <2> QED BY <2>1, <2>3, ExceptSeq DEF To
<1> QED BY <1>1, <1>2, <1>3, <1>4

\* A transaction that is like another one: it forgets no credentials and gets no user.
Keeps(r, s) ==
  /\ s \in Transaction
  /\ r.status # None => s.status # None
  /\ HasUser(s) => HasUser(r)

\* Keeps is transitive.
LEMMA KeepsFurther ==
  ASSUME NEW r, NEW s, NEW q, Keeps(r, s), Keeps(s, q)
  PROVE  Keeps(r, q)
BY DEF Keeps

\* Operations on the queue keep it.
LEMMA QueuesKept ==
  ASSUME NEW r \in Transaction, NEW q \in Seq(Event)
  PROVE  /\ Keeps(r, WithQueue(r, q)) /\ Keeps(r, Cancelled(r)) /\ Keeps(r, Anew(r, q))
         /\ Cancelled(r).queue = <<>> /\ WithQueue(r, q).queue = q
<1>1. Keeps(r, WithQueue(r, q))  BY DEF Keeps, HasUser, WithQueue, Transaction
<1>2. Keeps(r, Cancelled(r))
  <2>1. <<>> \in Seq(Event)  OBVIOUS
  <2> QED BY <2>1 DEF Keeps, HasUser, Cancelled, Transaction
<1>3. Keeps(r, Anew(r, q))  BY DEF Keeps, HasUser, Anew, Transaction
<1> QED BY <1>1, <1>2, <1>3, QueueField

\* So do the others, within their limits.
LEMMA HeadersKept ==
  ASSUME NEW r \in Transaction
  PROVE  /\ \A reply \in {"none", "waiting", "body"} :
              Keeps(r, WithReply(r, reply)) /\ WithReply(r, reply).queue = r.queue
         /\ \A response \in Responses :
              Keeps(r, Answered(r, response)) /\ Answered(r, response).queue = r.queue
         /\ Keeps(r, NoUser(r)) /\ NoUser(r).queue = r.queue /\ NoUser(r).uri = r.uri
         /\ Keeps(r, Supplied(r)) /\ Supplied(r).queue = r.queue
         /\ \A realm \in Realms, password \in Passwords :
              /\ Keeps(r, WithAuthorization(r, realm, password))
              /\ WithAuthorization(r, realm, password).queue = r.queue
         /\ r.count < KRedirectLimit => Keeps(r, CountedOf(r)) /\ CountedOf(r).queue = r.queue
         /\ r.count < KRedirectLimit /\ r.location # None => Keeps(r, Moved(r)) /\ Keeps(r, Repeated(r))
<1>1. \A reply \in {"none", "waiting", "body"} :
        Keeps(r, WithReply(r, reply)) /\ WithReply(r, reply).queue = r.queue
  BY DEF Keeps, HasUser, WithReply, Transaction
<1>2. ASSUME NEW response \in Responses
      PROVE  Keeps(r, Answered(r, response)) /\ Answered(r, response).queue = r.queue
  <2>1. response.code \in Codes /\ response.location \in Uris \cup {None}  BY ConstantsAssumption
  <2> QED BY <2>1 DEF Keeps, HasUser, Answered, Transaction
<1>3. Keeps(r, NoUser(r)) /\ NoUser(r).queue = r.queue /\ NoUser(r).uri = r.uri
  BY DEF Keeps, HasUser, NoUser, Transaction
<1>4. Keeps(r, Supplied(r)) /\ Supplied(r).queue = r.queue
  BY DEF Keeps, HasUser, Supplied, Transaction
<1>5. ASSUME NEW realm \in Realms, NEW password \in Passwords
      PROVE  /\ Keeps(r, WithAuthorization(r, realm, password))
             /\ WithAuthorization(r, realm, password).queue = r.queue
  BY DEF Keeps, HasUser, WithAuthorization, Transaction
<1>6. ASSUME r.count < KRedirectLimit
      PROVE  Keeps(r, CountedOf(r)) /\ CountedOf(r).queue = r.queue
  <2>1. r.count + 1 \in 0 .. KRedirectLimit  BY <1>6, ConstantsAssumption DEF Transaction
  <2> QED BY <2>1 DEF Keeps, HasUser, CountedOf, Transaction
<1>7. ASSUME r.count < KRedirectLimit, r.location # None
      PROVE  Keeps(r, Moved(r)) /\ Keeps(r, Repeated(r))
  <2>1. Keeps(r, CountedOf(r)) /\ CountedOf(r) \in Transaction  BY <1>6, <1>7 DEF Keeps
  <2>2. r.location \in Uris  BY <1>7 DEF Transaction
  <2>3. Keeps(CountedOf(r), Moved(r))  BY <2>1, <2>2 DEF Keeps, HasUser, Moved, Transaction
  <2>4. Keeps(r, Moved(r))  BY <2>1, <2>3, KeepsFurther
  <2>5. Moved(r) \in Transaction  BY <2>4 DEF Keeps
  <2>6. Keeps(Moved(r), Cancelled(Moved(r)))
    <3>1. <<>> \in Seq(Event)  OBVIOUS
    <3> QED BY <2>5, <3>1, QueuesKept
  <2>7. Keeps(Cancelled(Moved(r)), AsGet(Cancelled(Moved(r))))
    <3>1. Cancelled(Moved(r)) \in Transaction  BY <2>6 DEF Keeps
    <3> QED BY <3>1 DEF Keeps, HasUser, AsGet, Transaction, Methods
  <2>8. Keeps(r, Cancelled(Moved(r)))  BY <2>4, <2>6, KeepsFurther
  <2>9. Keeps(r, AsGet(Cancelled(Moved(r))))  BY <2>7, <2>8, KeepsFurther
  <2> QED BY <2>4, <2>8, <2>9 DEF Repeated
<1> QED BY <1>1, <1>2, <1>3, <1>4, <1>5, <1>6, <1>7

\* A request that is repeated with credentials has their identity.
LEMMA SignedKept ==
  ASSUME NEW r \in Transaction, Realm[r.uri] \in Realms, NEW password \in Passwords, NEW id \in Ids, None \notin Ids
  PROVE  Keeps(r, Signed(r, password, id)) /\ Signed(r, password, id).status = id
<1> DEFINE a == WithAuthorization(r, Realm[r.uri], password)
           s == [a EXCEPT !.status = id]
<1>1. Keeps(r, a) /\ a \in Transaction  BY HeadersKept DEF Keeps
<1> HIDE DEF a
<1>2. Keeps(a, s) /\ s \in Transaction /\ s.status = id  BY <1>1 DEF Keeps, HasUser, Transaction
<1> HIDE DEF s
<1>3. E("ESubmit", "EProtocolHandler") \in Event  BY HeadersTyped
<1>4. <<>> \in Seq(Event) /\ <<E("ESubmit", "EProtocolHandler")>> \in Seq(Event)  BY <1>3
<1>5. Keeps(s, Cancelled(s)) /\ Cancelled(s) \in Transaction  BY <1>2, <1>4, QueuesKept DEF Keeps
<1>6. Keeps(Cancelled(s), WithQueue(Cancelled(s), <<E("ESubmit", "EProtocolHandler")>>))
  BY <1>4, <1>5, QueuesKept
<1>7. Signed(r, password, id) = WithQueue(Cancelled(s), <<E("ESubmit", "EProtocolHandler")>>)
  BY DEF Signed, s, a
<1>8. Signed(r, password, id).status = id
  BY <1>2, <1>7 DEF WithQueue, Cancelled, Transaction
<1>9. Keeps(r, s)  BY <1>1, <1>2, KeepsFurther
<1>10. Keeps(r, Cancelled(s))  BY <1>5, <1>9, KeepsFurther
<1> QED BY <1>6, <1>7, <1>8, <1>10, KeepsFurther

\* What the client knows.
LEMMA KnowledgeKept ==
  ASSUME NEW c \in Knowledge
  PROVE  /\ Refuse(c) \in Knowledge /\ Idled(c) \in Knowledge /\ Asked(c) \in Knowledge
         /\ Refuse(c).life = c.life
         /\ \A ev \in {"ESucceeded", "EFailed"} : Ended(c, ev) \in Knowledge
<1>1. Refuse(c) \in Knowledge /\ Refuse(c).life = c.life  BY DEF Refuse, Knowledge
<1>2. Idled(c) \in Knowledge  BY DEF Idled, Knowledge
<1>3. Asked(c) \in Knowledge  BY DEF Asked, Knowledge
<1>4. ASSUME NEW ev \in {"ESucceeded", "EFailed"} PROVE Ended(c, ev) \in Knowledge
  <2>1. Append(c.ends, ev) \in Seq({"ESucceeded", "EFailed"})  BY AppendProperties DEF Knowledge
  <2> QED BY <2>1 DEF Ended, Knowledge
<1> QED BY <1>1, <1>2, <1>3, <1>4

\* A step that brings no identity.
LEMMA QuietTypes ==
  ASSUME TypeOK, Counted, NEW t \in Tx, NEW s, NEW d, Turns(t, s, d), Keeps(tr[t], s), d \in Knowledge,
         client[t].life = "closed" => d.life = "closed",
         UNCHANGED <<iCredentials, iNextID, answers>>, asking' \in Tx \cup {None}
  PROVE  TypeOK' /\ Counted'
<1>1. Lived(tr[t], client[t], s, d)  BY DEF Lived, Keeps, Counted, HasUser
<1> QED BY <1>1, TypeTurn DEF TypeOK

-----------------------------------------------------------------------------
(* The credentials that are found and removed *)

\* Every set of numbers that has any has a least one.
LEMMA MinIsLeast ==
  ASSUME NEW S \in SUBSET Nat, S # {}
  PROVE  Min(S) \in S /\ \A n \in S : Min(S) =< n
<1>1. IsWellFoundedOn(OpToRel(<, Nat), Nat)  BY NatLessThanWellFounded
<1>2. PICK m \in S : \A n \in S : ~(<<n, m>> \in OpToRel(<, Nat))
  BY <1>1, WFMin
<1>3. m \in Nat /\ \A n \in S : n \in Nat /\ ~(n < m)  BY <1>2 DEF OpToRel
<1>4. \A n \in S : m =< n  BY <1>3
<1> QED BY <1>4 DEF Min

\* What FindCredentials finds.
LEMMA CredentialsFound ==
  ASSUME NEW creds \in Seq(Credentials), NEW realm
  PROVE  LET k == FindCredentials(creds, realm) IN
         /\ k \in 0 .. Len(creds)
         /\ k # 0 => k \in 1 .. Len(creds) /\ creds[k].realm = realm /\ creds[k] \in Credentials
         /\ k = 0 => \A i \in 1 .. Len(creds) : creds[i].realm # realm
<1> DEFINE k == FindCredentials(creds, realm)
           I == {i \in 1 .. Len(creds) : creds[i].realm = realm}
<1>1. k = IF I # {} THEN Min(I) ELSE 0  BY DEF FindCredentials, SelectInSeq
<1>2. Len(creds) \in Nat /\ I \in SUBSET Nat  OBVIOUS
<1> HIDE DEF k
<1>3. CASE I = {}  BY <1>1, <1>2, <1>3 DEF k
<1>4. CASE I # {}
  <2> HIDE DEF I
  <2>1. k \in I  BY <1>1, <1>2, <1>4, MinIsLeast
  <2>2. k \in 1 .. Len(creds) /\ creds[k].realm = realm  BY <2>1 DEF I
  <2>3. creds[k] \in Credentials  BY <2>2, ElementOfSeq
  <2> QED BY <1>2, <2>2, <2>3 DEF k
<1> QED BY <1>3, <1>4

\* What FindCredentialsForURI finds.
LEMMA CredentialsForURIFound ==
  ASSUME NEW creds \in Seq(Credentials), NEW u
  PROVE  LET k == FindCredentialsForURI(creds, u) IN
         /\ k # 0 => k \in 1 .. Len(creds) /\ HostOf(creds[k].realm) = Host[u] /\ creds[k] \in Credentials
         /\ k = 0 => \A i \in 1 .. Len(creds) : HostOf(creds[i].realm) # Host[u]
<1> DEFINE k == FindCredentialsForURI(creds, u)
           I == {i \in 1 .. Len(creds) : HostOf(creds[i].realm) = Host[u]}
<1>1. k = IF I # {} THEN Min(I) ELSE 0  BY DEF FindCredentialsForURI, SelectInSeq
<1>2. Len(creds) \in Nat /\ I \in SUBSET Nat  OBVIOUS
<1> HIDE DEF k
<1>3. CASE I = {}  BY <1>1, <1>2, <1>3 DEF k
<1>4. CASE I # {}
  <2> HIDE DEF I
  <2>1. k \in I  BY <1>1, <1>2, <1>4, MinIsLeast
  <2>2. k \in 1 .. Len(creds) /\ HostOf(creds[k].realm) = Host[u]  BY <2>1 DEF I
  <2>3. creds[k] \in Credentials  BY <2>2, ElementOfSeq
  <2> QED BY <1>2, <2>2, <2>3 DEF k
<1> QED BY <1>3, <1>4

\* What RemoveAt leaves.
LEMMA CredentialsRemoved ==
  ASSUME NEW T, NEW s \in Seq(T), NEW k \in 1 .. Len(s)
  PROVE  /\ RemoveAt(s, k) \in Seq(T)
         /\ Len(RemoveAt(s, k)) = Len(s) - 1
         /\ \A i \in 1 .. Len(s) - 1 : RemoveAt(s, k)[i] = s[IF i < k THEN i ELSE i + 1]
<1> DEFINE a == SubSeq(s, 1, k - 1)
           b == SubSeq(s, k + 1, Len(s))
           n == Len(s)
<1>1. n \in Nat /\ k \in Int /\ 1 =< k /\ k =< n /\ \A i \in 1 .. n : s[i] \in T
  BY LenProperties, ElementOfSeq
<1>2. /\ a \in Seq(T) /\ Len(a) = k - 1
      /\ \A i \in 1 .. k - 1 : a[i] = s[i]
  <2>1. \A i \in 1 .. k - 1 : s[i] \in T  BY <1>1
  <2>2. 1 \in Int /\ k - 1 \in Int  BY <1>1
  <2>3. a \in Seq(T) /\ Len(a) = (IF 1 =< k - 1 THEN k - 1 - 1 + 1 ELSE 0)
        /\ \A i \in 1 .. k - 1 - 1 + 1 : a[i] = s[1 + i - 1]
    BY <2>1, <2>2, SubSeqProperties
  <2> HIDE DEF a
  <2> QED BY <1>1, <2>3
<1>3. /\ b \in Seq(T) /\ Len(b) = n - k
      /\ \A i \in 1 .. n - k : b[i] = s[k + i]
  <2>1. \A i \in k + 1 .. n : s[i] \in T  BY <1>1
  <2>2. k + 1 \in Int /\ n \in Int  BY <1>1
  <2>3. b \in Seq(T) /\ Len(b) = (IF k + 1 =< n THEN n - (k + 1) + 1 ELSE 0)
        /\ \A i \in 1 .. n - (k + 1) + 1 : b[i] = s[k + 1 + i - 1]
    BY <2>1, <2>2, SubSeqProperties
  <2> HIDE DEF b
  <2> QED BY <1>1, <2>3
<1>4. RemoveAt(s, k) = a \o b  BY DEF RemoveAt
<1> HIDE DEF a, b, n
<1>5. a \o b \in Seq(T) /\ Len(a \o b) = n - 1
      /\ \A i \in 1 .. n - 1 : (a \o b)[i] = IF i =< k - 1 THEN a[i] ELSE b[i - (k - 1)]
  <2>1. Len(a) + Len(b) = n - 1  BY <1>1, <1>2, <1>3
  <2> QED BY <1>2, <1>3, <2>1, ConcatProperties
<1>6. ASSUME NEW i \in 1 .. n - 1 PROVE (a \o b)[i] = s[IF i < k THEN i ELSE i + 1]
  <2>1. CASE i < k  BY <1>1, <1>2, <1>5, <2>1
  <2>2. CASE ~(i < k)
    <3>1. i - (k - 1) \in 1 .. n - k /\ k + (i - (k - 1)) = i + 1  BY <1>1, <2>2
    <3>2. b[i - (k - 1)] = s[i + 1]  BY <1>3, <3>1
    <3>3. ~(i =< k - 1)  BY <1>1, <2>2
    <3> QED BY <1>5, <2>2, <3>2, <3>3
  <2> QED BY <2>1, <2>2
<1> QED BY <1>4, <1>5, <1>6 DEF n

\* Who is asked for credentials is asked for a realm.
LEMMA RealmChallenged ==
  ASSUME TypeOK, Challenges, NEW t \in Tx, Challenged(tr[t])
  PROVE  Realm[tr[t].uri] \in Realms
<1>1. tr[t].uri \in Uris  BY DEF TypeOK, Transaction
<1>2. Realm[tr[t].uri] # None  BY DEF Challenges, Granted
<1> QED BY <1>1, <1>2, ConstantsAssumption

-----------------------------------------------------------------------------
(* The types are kept, action by action *)

\* The parts of the state.
LEMMA Types ==
  ASSUME TypeOK, NEW t \in Tx
  PROVE  /\ tr[t] \in Transaction /\ client[t] \in Knowledge /\ tr[t].queue \in Seq(Event)
         /\ tr[t].queue # <<>> => Tail(tr[t].queue) \in Seq(Event)
         /\ asking \in Tx \cup {None}
BY QueueTyped DEF TypeOK, Transaction

\* The types, in CValidationFilter.
LEMMA ValidationTypes ==
  ASSUME TypeOK, Counted, NEW t \in Tx, Validation(t)
  PROVE  TypeOK' /\ Counted'
<1> DEFINE r == tr[t]
           c == client[t]
<1>1. r \in Transaction /\ c \in Knowledge /\ r.queue \in Seq(Event) /\ asking \in Tx \cup {None}  BY Types
<1>2. CASE Runs(t, "ESubmit", "ETidyUp") /\ Become(ValidateRequest(w0, t)) /\ Unasked
  <2>1. r.queue # <<>> /\ asking' = asking /\ answers' = answers  BY <1>2 DEF Runs, Unasked
  <2>2. <<Failure>> \in Seq(Event) /\ To(r.queue, "EStatusCodeHandler+1") \in Seq(Event)
    BY <1>1, <2>1, HeadersTyped, QueueTyped DEF Positions
  <2>3. UNCHANGED <<iCredentials, iNextID>>  BY <1>2, ValidateRequestSteps
  <2>4. \/ Turns(t, Anew(r, <<Failure>>), c)
        \/ Turns(t, WithQueue(r, To(r.queue, "EStatusCodeHandler+1")), c)
    BY <1>2, ValidateRequestSteps
  <2>5. Keeps(r, Anew(r, <<Failure>>)) /\ Keeps(r, WithQueue(r, To(r.queue, "EStatusCodeHandler+1")))
    BY <1>1, <2>2, QueuesKept
  <2> QED BY <1>1, <2>1, <2>3, <2>4, <2>5, QuietTypes
<1>3. ASSUME NEW ev \in {"EResponseComplete", "KErr"},
             Runs(t, ev, "ETidyUp"), Become(ValidateResponse(w0, t)), Unasked
      PROVE  TypeOK' /\ Counted'
  <2> DEFINE q == Append(Tail(r.queue), Final(r, Head(r.queue).ev))
  <2>1. r.queue # <<>> /\ asking' = asking /\ answers' = answers  BY <1>3 DEF Runs, Unasked
  <2>2. q \in Seq(Event)  BY <2>1, Types, HeadersTyped, QueueTyped
  <2>3. Turns(t, WithQueue(r, q), c) /\ UNCHANGED <<iCredentials, iNextID>>  BY <1>3, ValidateResponseSteps
  <2> HIDE DEF q
  <2>4. Keeps(r, WithQueue(r, q))  BY <1>1, <2>2, QueuesKept
  <2> QED BY <1>1, <2>1, <2>3, <2>4, QuietTypes
<1> QED BY <1>2, <1>3 DEF Validation

\* The types, in CRedirectFilter.
LEMMA RedirectionTypes ==
  ASSUME TypeOK, Counted, NEW t \in Tx, Redirection(t)
  PROVE  TypeOK' /\ Counted'
<1> DEFINE r == tr[t]
           c == client[t]
           tail == Append(Tail(r.queue), E("KErr", "ETidyUp"))
<1>1. /\ r \in Transaction /\ c \in Knowledge /\ asking' = asking /\ answers' = answers
      /\ asking \in Tx \cup {None} /\ r.queue # <<>>
  BY Types DEF Redirection, Unasked, Runs
<1>2. tail \in Seq(Event)  BY <1>1, Types, HeadersTyped, QueueTyped
<1>3. Refuse(c) \in Knowledge /\ Refuse(c).life = c.life  BY <1>1, KnowledgeKept
<1> HIDE DEF tail
<1>4. Keeps(r, WithQueue(r, tail))  BY <1>1, <1>2, QueuesKept
<1>5. CASE Become(RedirectError(w0, t))
  <2>1. Turns(t, WithQueue(r, tail), Refuse(c)) /\ UNCHANGED <<iCredentials, iNextID>>
    BY <1>5, RefusedSteps DEF tail
  <2> QED BY <1>1, <1>3, <1>4, <2>1, QuietTypes
<1>6. CASE r.code \in {301, 302} /\ Become(HandleRedirect(w0, t))
  <2>1. UNCHANGED <<iCredentials, iNextID>>  BY <1>6, HandleRedirectSteps
  <2>2. CASE Turns(t, WithQueue(r, tail), Refuse(c))
    BY <1>1, <1>3, <1>4, <2>1, <2>2, QuietTypes
  <2>3. CASE r.count < KRedirectLimit /\ Turns(t, WithQueue(CountedOf(r), tail), Refuse(c))
    <3>1. Keeps(r, CountedOf(r)) /\ CountedOf(r) \in Transaction  BY <1>1, <2>3, HeadersKept DEF Keeps
    <3>2. Keeps(CountedOf(r), WithQueue(CountedOf(r), tail))  BY <1>2, <3>1, QueuesKept
    <3>3. Keeps(r, WithQueue(CountedOf(r), tail))  BY <3>1, <3>2, KeepsFurther
    <3> QED BY <1>1, <1>3, <2>1, <2>3, <3>3, QuietTypes
  <2>4. ASSUME NEW s \in {Cancelled(Moved(r)), Repeated(r)}, NEW q \in Seq(Event),
               r.count < KRedirectLimit, r.location # None, Turns(t, WithQueue(s, q), c)
        PROVE  TypeOK' /\ Counted'
    <3>1. Keeps(r, s) /\ s \in Transaction
      <4>1. Keeps(r, Moved(r)) /\ Keeps(r, Repeated(r)) /\ Moved(r) \in Transaction
        BY <1>1, <2>4, HeadersKept DEF Keeps
      <4>2. Keeps(Moved(r), Cancelled(Moved(r)))  BY <2>4, <4>1, QueuesKept
      <4>3. Keeps(r, Cancelled(Moved(r)))  BY <4>1, <4>2, KeepsFurther
      <4> QED BY <2>4, <4>1, <4>3 DEF Keeps
    <3>2. Keeps(s, WithQueue(s, q))  BY <2>4, <3>1, QueuesKept
    <3>3. Keeps(r, WithQueue(s, q))  BY <3>1, <3>2, KeepsFurther
    <3> QED BY <1>1, <2>1, <2>4, <3>3, QuietTypes
  <2>5. /\ <<E("ERedirectRequiresConfirmation", "EClient")>> \in Seq(Event)
        /\ <<E("ESubmit", "ETidyUp")>> \in Seq(Event)
    <3>1. E("ERedirectRequiresConfirmation", "EClient") \in Event /\ E("ESubmit", "ETidyUp") \in Event
      BY HeadersTyped
    <3> QED BY <3>1
  <2>6. CASE /\ r.count < KRedirectLimit /\ r.location # None
             /\ Turns(t, WithQueue(Cancelled(Moved(r)), <<E("ERedirectRequiresConfirmation", "EClient")>>), c)
    BY <2>4, <2>5, <2>6
  <2>7. CASE /\ r.count < KRedirectLimit /\ r.location # None
             /\ Turns(t, WithQueue(Repeated(r), <<E("ESubmit", "ETidyUp")>>), c)
    BY <2>4, <2>5, <2>7
  <2> QED BY <1>6, <2>2, <2>3, <2>6, <2>7, HandleRedirectSteps DEF tail
<1> QED BY <1>5, <1>6 DEF Redirection

\* The types, at both ends of the chain.
LEMMA HandlerTypes ==
  ASSUME TypeOK, Counted, Places, NEW t \in Tx, Submitted(t) \/ ClientRuns(t)
  PROVE  TypeOK' /\ Counted'
<1> DEFINE r == tr[t]
           c == client[t]
<1>1. /\ r \in Transaction /\ c \in Knowledge /\ asking' = asking /\ answers' = answers
      /\ asking \in Tx \cup {None} /\ r.queue # <<>>
  BY Types DEF Submitted, ClientRuns, Unasked, Runs
<1>2. Tail(r.queue) \in Seq(Event)  BY <1>1, Types
<1>3. CASE Submitted(t)
  <2> DEFINE p == IF r.reply = "none" THEN "waiting" ELSE r.reply
             s == WithReply(r, p)
  <2>1. p \in {"none", "waiting", "body"}  BY <1>1 DEF Transaction
  <2>2. Turns(t, WithQueue(s, Tail(r.queue)), c) /\ UNCHANGED <<iCredentials, iNextID>>  BY <1>3, SubmittedSteps
  <2>3. Keeps(r, s) /\ s \in Transaction  BY <1>1, <2>1, HeadersKept DEF Keeps
  <2>4. Keeps(s, WithQueue(s, Tail(r.queue)))  BY <1>2, <2>3, QueuesKept
  <2>5. Keeps(r, WithQueue(s, Tail(r.queue)))  BY <2>3, <2>4, KeepsFurther
  <2> HIDE DEF s
  <2> QED BY <1>1, <2>2, <2>5, QuietTypes
<1>4. CASE ClientRuns(t)
  <2>1. PICK ev \in Events : Runs(t, ev, "EClient") /\ Become(Done(Tell(w0, t, ev), t))
    BY <1>4 DEF ClientRuns
  <2>2. Placed(r, c, FALSE) /\ r.queue # <<>> /\ Head(r.queue) = E(ev, "EClient")  BY <2>1, RunsPlaced
  <2>3. Told(r, c) \/ Refused(r, c)  BY <2>2, FirstEvent
  <2>4. ev \in {"ESucceeded", "EFailed", "ERedirectRequiresConfirmation"} /\ c.life # "closed"
    <3>1. CASE Told(r, c)
      <4>1. Head(r.queue) \in {Failure, E("ESucceeded", "EClient"), E("ERedirectRequiresConfirmation", "EClient")}
        BY <3>1, Queues DEF Told
      <4> QED BY <2>2, <3>1, <4>1, Movings DEF Failure, Told, First
    <3>2. CASE Refused(r, c)
      <4>1. Head(r.queue) \in Failures  BY <2>2, <3>2, Queues DEF Refused
      <4> QED BY <2>2, <3>2, <4>1, Movings DEF Failures, Lasts, Failure, Refused
    <3> QED BY <2>3, <3>1, <3>2
  <2> DEFINE d == IF ev = "ERedirectRequiresConfirmation" THEN Asked(c) ELSE Ended(c, ev)
  <2>5. Turns(t, WithQueue(r, Tail(r.queue)), d) /\ UNCHANGED <<iCredentials, iNextID>>
    BY <2>1, ClientRunsSteps
  <2>6. d \in Knowledge  BY <1>1, <2>4, KnowledgeKept
  <2>7. Keeps(r, WithQueue(r, Tail(r.queue)))  BY <1>1, <1>2, QueuesKept
  <2> HIDE DEF d
  <2> QED BY <1>1, <2>4, <2>5, <2>6, <2>7, QuietTypes
<1> QED BY <1>3, <1>4

\* The types, when something comes from the server.
LEMMA ServerTypes ==
  ASSUME TypeOK, Counted, NEW t \in Tx, Answer(t) \/ Complete(t) \/ Breaks(t)
  PROVE  TypeOK' /\ Counted'
<1> DEFINE r == tr[t]
           c == client[t]
<1>1. /\ r \in Transaction /\ c \in Knowledge /\ asking' = asking /\ answers' = answers
      /\ asking \in Tx \cup {None} /\ r.queue \in Seq(Event)
  BY Types DEF Answer, Complete, Breaks, Unasked
<1>2. ASSUME NEW s, Keeps(r, s), s.queue = r.queue, NEW x \in Event,
             Turns(t, s, c) \/ Turns(t, WithQueue(s, Append(r.queue, x)), c),
             UNCHANGED <<iCredentials, iNextID>>
      PROVE  TypeOK' /\ Counted'
  <2>1. Append(r.queue, x) \in Seq(Event) /\ s \in Transaction  BY <1>1, <1>2, QueueTyped DEF Keeps
  <2>2. Keeps(s, WithQueue(s, Append(r.queue, x)))  BY <2>1, QueuesKept
  <2>3. Keeps(r, WithQueue(s, Append(r.queue, x)))  BY <1>2, <2>2, KeepsFurther
  <2> QED BY <1>1, <1>2, <2>3, QuietTypes
<1>3. CASE Answer(t)
  <2>1. PICK response \in Responses :
          /\ UNCHANGED <<iCredentials, iNextID>>
          /\ response.code \in {200, 404} => Turns(t, Answered(r, response), c)
          /\ response.code \notin {200, 404} => Turns(t, WithQueue(Answered(r, response), Append(r.queue, Headers)), c)
    BY <1>3, AnswerSteps
  <2>2. Keeps(r, Answered(r, response)) /\ Answered(r, response).queue = r.queue  BY <1>1, HeadersKept
  <2> QED BY <1>2, <2>1, <2>2, HeadersTyped
<1>4. Keeps(r, WithReply(r, "none")) /\ WithReply(r, "none").queue = r.queue  BY <1>1, HeadersKept
<1>5. E("EResponseComplete", "ETidyUp") \in Event /\ E("KErr", "ETidyUp") \in Event
  BY EventTyped DEF Events, Positions
<1>6. CASE Complete(t)
  <2>1. /\ UNCHANGED <<iCredentials, iNextID>>
        /\ Turns(t, WithQueue(WithReply(r, "none"), Append(r.queue, E("EResponseComplete", "ETidyUp"))), c)
    BY <1>6, ArrivalSteps DEF Complete
  <2> QED BY <1>2, <1>4, <1>5, <2>1
<1>7. CASE Breaks(t)
  <2>1. /\ UNCHANGED <<iCredentials, iNextID>>
        /\ Turns(t, WithQueue(WithReply(r, "none"), Append(r.queue, E("KErr", "ETidyUp"))), c)
    BY <1>7, ArrivalSteps DEF Breaks
  <2> QED BY <1>2, <1>4, <1>5, <2>1
<1> QED BY <1>3, <1>6, <1>7

\* The types, in CAuthenticationFilter.
LEMMA AuthenticationTypes ==
  ASSUME TypeOK, Counted, Places, Challenges, NEW t \in Tx, Authentication(t)
  PROVE  TypeOK' /\ Counted'
<1> DEFINE r == tr[t]
           c == client[t]
<1>1. /\ r \in Transaction /\ c \in Knowledge /\ asking \in Tx \cup {None} /\ answers' = answers
      /\ r.queue # <<>> /\ r.queue \in Seq(Event) /\ c.life # "closed" /\ iCredentials \in Seq(Credentials)
      /\ iNextID \in Ids /\ None \notin Ids /\ iNextID \in Nat /\ answers \in 0 .. MaxAnswers
  BY Types, Limits DEF Authentication, Unasked, Runs, TypeOK
<1>2. ASSUME Runs(t, "ESubmit", "EStatusCodeHandler+1"), Become(SupplyCredentials(w0, t)), Unasked
      PROVE  TypeOK' /\ Counted'
  <2> DEFINE k == FindCredentialsForURI(iCredentials, r.uri)
             o == Onward(r)
  <2>1. Keeps(r, o) /\ o \in Transaction
    <3>1. Keeps(r, Supplied(r)) /\ Supplied(r) \in Transaction /\ Supplied(r).queue = r.queue
      BY <1>1, HeadersKept DEF Keeps
    <3>2. To(r.queue, "EProtocolHandler") \in Seq(Event)  BY <1>1, QueueTyped DEF Positions
    <3>3. Keeps(Supplied(r), o)  BY <3>1, <3>2, QueuesKept DEF Onward
    <3>4. Keeps(r, o)  BY <3>1, <3>3, KeepsFurther
    <3> QED BY <3>4 DEF Keeps
  <2>2. k # 0 => iCredentials[k] \in Credentials  BY <1>1, CredentialsForURIFound
  <2>3. \/ Turns(t, o, c)
        \/ k # 0 /\ Turns(t, WithAuthorization(o, iCredentials[k].realm, iCredentials[k].password), c)
    BY <1>2, SupplyCredentialsSteps
  <2>4. UNCHANGED <<iCredentials, iNextID>> /\ asking' = asking  BY <1>2, SupplyCredentialsSteps DEF Unasked
  <2> HIDE DEF k, o
  <2>5. CASE Turns(t, o, c)  BY <1>1, <2>1, <2>4, <2>5, QuietTypes
  <2>6. CASE k # 0 /\ Turns(t, WithAuthorization(o, iCredentials[k].realm, iCredentials[k].password), c)
    <3>1. iCredentials[k].realm \in Realms /\ iCredentials[k].password \in Passwords
      BY <2>2, <2>6 DEF Credentials
    <3>2. Keeps(o, WithAuthorization(o, iCredentials[k].realm, iCredentials[k].password))
      BY <2>1, <3>1, HeadersKept
    <3>3. Keeps(r, WithAuthorization(o, iCredentials[k].realm, iCredentials[k].password))
      BY <2>1, <3>2, KeepsFurther
    <3> QED BY <1>1, <2>4, <2>6, <3>3, QuietTypes
  <2> QED BY <2>3, <2>5, <2>6
<1>3. ASSUME Runs(t, "EGotResponseHeaders", "EStatusCodeHandler"), r.code = 401, Become(Challenge(w0, t)),
             asking' = IF Asks(t) THEN t ELSE None
      PROVE  TypeOK' /\ Counted'
  <2> DEFINE k == FindCredentials(iCredentials, Realm[r.uri])
             wrong == Wrong(w0, t, k)
             left == IF wrong THEN RemoveAt(iCredentials, k) ELSE iCredentials
             n == NoUser(r)
  <2>1. Realm[r.uri] \in Realms
    <3>1. Challenged(r)  BY <1>3 DEF Challenged, Runs, Headers
    <3> QED BY <3>1, RealmChallenged
  <2>2. asking' \in Tx \cup {None}  BY <1>3
  <2>3. k # 0 => k \in 1 .. Len(iCredentials) /\ iCredentials[k] \in Credentials  BY <1>1, CredentialsFound
  <2>4. wrong => k # 0  BY DEF Wrong
  <2>5. left \in Seq(Credentials)
    <3>1. CASE wrong  BY <1>1, <2>3, <2>4, <3>1, CredentialsRemoved
    <3>2. CASE ~wrong  BY <1>1, <3>2
    <3> QED BY <3>1, <3>2
  <2>6. n \in Transaction /\ Keeps(r, n) /\ n.uri = r.uri  BY <1>1, HeadersKept DEF Keeps
  <2>7. \/ k # 0 /\ iCredentials' = iCredentials /\ iNextID' = iNextID
           /\ Turns(t, Signed(n, iCredentials[k].password, iCredentials[k].id), c)
        \/ /\ r.status = None /\ r.user # None
           /\ iNextID' = iNextID + 1
           /\ iCredentials' = Append(left, Entry(iNextID, Realm[r.uri], r.user))
           /\ Turns(t, Signed(n, r.user, iNextID), c)
        \/ iCredentials' = left /\ iNextID' = iNextID /\ Turns(t, r, c)
    BY <1>3, ChallengeSteps
  <2> HIDE DEF k, wrong, left, n
  <2>8. CASE k # 0 /\ iCredentials' = iCredentials /\ iNextID' = iNextID
             /\ Turns(t, Signed(n, iCredentials[k].password, iCredentials[k].id), c)
    <3>1. iCredentials[k].password \in Passwords /\ iCredentials[k].id \in Ids
      BY <2>3, <2>8 DEF Credentials
    <3>2. Keeps(n, Signed(n, iCredentials[k].password, iCredentials[k].id))
      BY <1>1, <2>1, <2>6, <3>1, SignedKept
    <3>3. Keeps(r, Signed(n, iCredentials[k].password, iCredentials[k].id))
      BY <2>6, <3>2, KeepsFurther
    <3> QED BY <1>1, <2>2, <2>8, <3>3, QuietTypes
  <2>9. CASE /\ r.status = None /\ r.user # None
             /\ iNextID' = iNextID + 1
             /\ iCredentials' = Append(left, Entry(iNextID, Realm[r.uri], r.user))
             /\ Turns(t, Signed(n, r.user, iNextID), c)
    <3> DEFINE s == Signed(n, r.user, iNextID)
    <3>1. r.user \in Passwords  BY <1>1, <2>9 DEF Transaction
    <3>2. Entry(iNextID, Realm[r.uri], r.user) \in Credentials
      BY <1>1, <2>1, <3>1 DEF Entry, Credentials
    <3>3. iCredentials' \in Seq(Credentials)  BY <2>5, <2>9, <3>2, AppendProperties
    <3>4. Keeps(n, s) /\ s.status = iNextID  BY <1>1, <2>1, <2>6, <3>1, SignedKept
    <3>5. Keeps(r, s) /\ s.status # None  BY <1>1, <2>6, <3>4, KeepsFurther
    <3>6. HasUser(r) => MaxSubmits # 0  BY DEF Counted, HasUser
    <3>7. MaxSubmits # 0  BY <2>9, <3>6 DEF HasUser
    <3>8. Lived(r, c, s, c)  BY <1>1, <3>5, <3>6 DEF Lived, Keeps
    <3>9. answers' \in 0 .. MaxAnswers  BY <1>1
    <3>10. /\ iNextID' = iNextID + 1 /\ answers' = answers
           /\ c.life # "closed" /\ r.status = None /\ s.status # None /\ MaxSubmits # 0
      BY <1>1, <2>9, <3>5, <3>7
    <3>11. Turns(t, s, c)  BY <2>9
    <3> HIDE DEF s
    <3> QED BY <2>2, <3>3, <3>8, <3>9, <3>10, <3>11, TypeTurn
  <2>10. CASE iCredentials' = left /\ iNextID' = iNextID /\ Turns(t, r, c)
    <3>1. Lived(r, c, r, c)  BY <1>1 DEF Lived, HasUser, Counted
    <3> QED BY <1>1, <2>2, <2>5, <2>10, <3>1, TypeTurn
  <2> QED BY <2>7, <2>8, <2>9, <2>10
<1> QED BY <1>2, <1>3 DEF Authentication

\* The types, when the client acts.
LEMMA ClientTypes ==
  ASSUME TypeOK, Counted, NEW t \in Tx,
         ClientSubmits(t) \/ ClientConfirms(t) \/ ClientCancels(t) \/ ClientCloses(t)
  PROVE  TypeOK' /\ Counted'
<1> DEFINE r == tr[t]
           c == client[t]
<1>1. /\ r \in Transaction /\ c \in Knowledge /\ asking \in Tx \cup {None} /\ r.queue \in Seq(Event)
      /\ MaxSubmits \in Nat /\ answers \in 0 .. MaxAnswers /\ iCredentials \in Seq(Credentials)
  BY Types, Limits DEF TypeOK
<1>2. asking' = asking /\ answers' = answers
  BY DEF ClientSubmits, ClientConfirms, ClientCancels, ClientCloses, SubmitAs, Unasked
<1>3. ASSUME NEW request, NEW n, SubmitAs(request, t, n), c.life # "closed",
             request.method \in Methods, request.uri \in Uris, request.body \in BOOLEAN,
             request.info \in Passwords \cup {None}, c.submits + n \in 0 .. MaxSubmits,
             r.user # None \/ request.info # None => MaxSubmits # 0
      PROVE  TypeOK' /\ Counted'
  <2> DEFINE q == Requested(r, request)
             s == WithQueue(q, Append(r.queue, E("ESubmit", "ETidyUp")))
             d == Submitting(c, request, n)
  <2>1. Turns(t, s, d) /\ UNCHANGED <<iCredentials, iNextID>>  BY <1>3, SubmitAsSteps
  <2>2. /\ q \in Transaction /\ q.status = r.status
        /\ q.user = r.user /\ q.info = request.info
    BY <1>1, <1>3 DEF Requested, Transaction
  <2>3. d \in Knowledge /\ d.life = "busy"
    <3>1. <<>> \in Seq({"ESucceeded", "EFailed"})  OBVIOUS
    <3> QED BY <1>3, <3>1 DEF Submitting, Knowledge
  <2>4. Append(r.queue, E("ESubmit", "ETidyUp")) \in Seq(Event)  BY <1>1, HeadersTyped, QueueTyped
  <2>5. Keeps(q, s)  BY <2>2, <2>4, QueuesKept
  <2>6. Lived(r, c, s, d)
    BY <1>3, <2>2, <2>3, <2>5 DEF Lived, Keeps, HasUser
  <2> HIDE DEF s, d, q
  <2> QED BY <1>1, <1>2, <2>1, <2>6, TypeTurn
<1>4. CASE ClientSubmits(t)
  <2>1. PICK request \in Requests[t] : SubmitAs(request, t, 1) /\ c.life = "idle" /\ c.submits < MaxSubmits
    BY <1>4 DEF ClientSubmits
  <2>2. request \in Request  BY <2>1, ConstantsAssumption
  <2>3. c.submits + 1 \in 0 .. MaxSubmits /\ MaxSubmits # 0  BY <1>1, <2>1 DEF Knowledge
  <2> QED BY <1>3, <2>1, <2>2, <2>3 DEF Request
<1>5. CASE ClientConfirms(t)
  <2>1. SubmitAs(r, t, 0) /\ c.life = "confirm"  BY <1>5 DEF ClientConfirms
  <2>2. c.submits + 0 \in 0 .. MaxSubmits  BY <1>1 DEF Knowledge
  <2>3. r.user # None \/ r.info # None => MaxSubmits # 0  BY DEF Counted
  <2> QED BY <1>1, <1>3, <2>1, <2>2, <2>3 DEF Transaction
<1>6. CASE ClientCancels(t)
  <2>1. Turns(t, Cancelled(r), Idled(c)) /\ UNCHANGED <<iCredentials, iNextID>> /\ c.life = "busy"
    BY <1>6, ClientCancelsSteps DEF ClientCancels
  <2>2. Keeps(r, Cancelled(r)) /\ Idled(c) \in Knowledge  BY <1>1, QueuesKept, KnowledgeKept
  <2> QED BY <1>1, <1>2, <2>1, <2>2, QuietTypes
<1>7. CASE ClientCloses(t)
  <2>1. Turns(t, NewTransaction, NewKnowledge("closed")) /\ UNCHANGED <<iCredentials, iNextID>>
    BY <1>7, ClientClosesSteps
  <2>2. NewTransaction \in Transaction /\ ~HasUser(NewTransaction)
    <3>1. FirstUri \in Uris  BY ConstantsAssumption DEF FirstUri
    <3>2. 0 \in 0 .. KRedirectLimit  BY ConstantsAssumption
    <3>3. <<>> \in Seq(Event)  OBVIOUS
    <3> QED BY <3>1, <3>2, <3>3 DEF NewTransaction, Transaction, HasUser, Methods, Codes
  <2>3. NewKnowledge("closed") \in Knowledge /\ NewKnowledge("closed").life = "closed"
    <3>1. FirstUri \in Uris  BY ConstantsAssumption DEF FirstUri
    <3>2. <<>> \in Seq({"ESucceeded", "EFailed"})  OBVIOUS
    <3>3. 0 \in 0 .. MaxSubmits  BY <1>1
    <3> QED BY <3>1, <3>2, <3>3 DEF NewKnowledge, Knowledge, Methods
  <2>4. Lived(r, c, NewTransaction, NewKnowledge("closed"))  BY <2>2, <2>3 DEF Lived
  <2> QED BY <1>1, <1>2, <2>1, <2>4, TypeTurn
<1> QED BY <1>4, <1>5, <1>6, <1>7

\* The types, when the question to the user returns.
LEMMA UserTypes ==
  ASSUME TypeOK, Counted, Places, Challenges, NEW t \in Tx, UserAnswers(t) \/ UserRefuses(t) \/ UserFails(t)
  PROVE  TypeOK' /\ Counted'
<1> DEFINE r == tr[t]
           c == client[t]
<1>1. /\ r \in Transaction /\ c \in Knowledge /\ asking = t /\ asking' = None
      /\ MaxAnswers \in Nat /\ answers \in 0 .. MaxAnswers /\ iCredentials \in Seq(Credentials)
      /\ iNextID \in Ids /\ iNextID \in Nat /\ None \notin Ids
  BY Types, Limits DEF TypeOK, UserAnswers, UserRefuses, UserFails
<1>2. ASSUME UNCHANGED <<iCredentials, iNextID>>, answers' = answers, NEW s, NEW d, Keeps(r, s), d \in Knowledge,
             c.life = "closed" => d.life = "closed", Turns(t, s, d)
      PROVE  TypeOK' /\ Counted'
  BY <1>1, <1>2, QuietTypes
<1>3. Keeps(r, r)  BY <1>1 DEF Keeps
<1>4. CASE UserAnswers(t)
  <2>1. PICK password \in Passwords :
          Become(IF client[t].life = "closed" THEN w0 ELSE Resubmit(w0, t, password, 0))
    BY <1>4 DEF UserAnswers
  <2>2. answers < MaxAnswers /\ answers' = answers + 1  BY <1>4 DEF UserAnswers
  <2>3. answers' \in 0 .. MaxAnswers /\ asking' \in Tx \cup {None}  BY <1>1, <2>2
  <2>4. CASE c.life = "closed"
    <3>1. Turns(t, r, c) /\ UNCHANGED <<iCredentials, iNextID>>  BY <2>1, <2>4, UserAnswersSteps
    <3>2. Lived(r, c, r, c)  BY <1>1 DEF Lived, HasUser, Counted
    <3> QED BY <1>1, <2>2, <2>3, <3>1, <3>2, TypeTurn
  <2>5. CASE c.life # "closed"
    <3> DEFINE s == Signed(r, password, iNextID)
    <3>1. /\ iCredentials' = Append(iCredentials, Entry(iNextID, Realm[r.uri], password))
          /\ iNextID' = iNextID + 1 /\ Turns(t, s, c)
      BY <2>1, <2>5, UserAnswersSteps
    <3>2. Challenged(r)
      <4>1. (asking = t) = TRUE  BY <1>1
      <4>2. Placed(r, c, TRUE)  BY <4>1 DEF Places
      <4>3. Returns(r, c) /\ r.code = 401  BY <2>5, <4>2 DEF Placed, Closed
      <4> QED BY <4>3, Queues DEF Returns, Challenged
    <3>3. Realm[r.uri] \in Realms  BY <3>2, RealmChallenged
    <3>4. Entry(iNextID, Realm[r.uri], password) \in Credentials  BY <1>1, <3>3 DEF Entry, Credentials
    <3>5. iCredentials' \in Seq(Credentials)  BY <1>1, <3>1, <3>4, AppendProperties
    <3>6. Keeps(r, s)  BY <1>1, <3>3, SignedKept
    <3>7. Lived(r, c, s, c)  BY <1>1, <3>6 DEF Lived, Keeps, HasUser, Counted
    <3> HIDE DEF s
    <3> QED BY <2>2, <2>3, <3>1, <3>5, <3>7, TypeTurn
  <2> QED BY <2>4, <2>5
<1>5. CASE UserRefuses(t)
  <2>1. answers' = answers /\ UNCHANGED <<iCredentials, iNextID>>  BY <1>5, UserRefusesSteps DEF UserRefuses
  <2>2. CASE r.queue = <<>>
    <3>1. Turns(t, r, c)  BY <1>5, <2>2, UserRefusesSteps
    <3> QED BY <1>1, <1>2, <1>3, <2>1, <3>1
  <2>3. CASE r.queue # <<>>
    <3>1. Turns(t, WithQueue(r, Tail(r.queue)), c)  BY <1>5, <2>3, UserRefusesSteps
    <3>2. Keeps(r, WithQueue(r, Tail(r.queue)))  BY <1>1, <2>3, Types, QueuesKept
    <3> QED BY <1>1, <1>2, <2>1, <3>1, <3>2
  <2> QED BY <2>2, <2>3
<1>6. CASE UserFails(t)
  <2>1. answers' = answers /\ UNCHANGED <<iCredentials, iNextID>>  BY <1>6, UserFailsSteps DEF UserFails
  <2>2. CASE c.life = "closed"
    <3>1. Turns(t, r, c)  BY <1>6, <2>2, UserFailsSteps
    <3> QED BY <1>1, <1>2, <1>3, <2>1, <3>1
  <2>3. CASE c.life # "closed"
    <3>1. Turns(t, Cancelled(r), Ended(c, "EFailed"))  BY <1>6, <2>3, UserFailsSteps
    <3>2. Keeps(r, Cancelled(r)) /\ Ended(c, "EFailed") \in Knowledge
      <4>1. <<>> \in Seq(Event)  OBVIOUS
      <4> QED BY <1>1, <4>1, QueuesKept, KnowledgeKept
    <3> QED BY <1>2, <2>1, <2>3, <3>1, <3>2
  <2> QED BY <2>2, <2>3
<1> QED BY <1>4, <1>5, <1>6

-----------------------------------------------------------------------------
(* The inductive invariant, and what follows from it *)

\* The invariant holds at the start.
LEMMA Initially == Init => IInv
<1> SUFFICES ASSUME Init PROVE IInv  OBVIOUS
<1> DEFINE r == NewTransaction
           c == NewKnowledge("idle")
<1>1. /\ \A t \in Tx : tr[t] = r /\ client[t] = c /\ asking # t
      /\ tr = [t \in Tx |-> r] /\ client = [t \in Tx |-> c]
      /\ iCredentials = <<>> /\ iNextID = 0 /\ asking = None /\ answers = 0
  BY ConstantsAssumption DEF Init
<1>2. r \in Transaction
  <2>1. FirstUri \in Uris  BY ConstantsAssumption DEF FirstUri
  <2>2. 0 \in 0 .. KRedirectLimit  BY ConstantsAssumption
  <2>3. <<>> \in Seq(Event)  OBVIOUS
  <2> QED BY <2>1, <2>2, <2>3 DEF NewTransaction, Transaction, Methods, Codes
<1>3. c \in Knowledge
  <2>1. FirstUri \in Uris  BY ConstantsAssumption DEF FirstUri
  <2>2. <<>> \in Seq({"ESucceeded", "EFailed"})  OBVIOUS
  <2>3. 0 \in 0 .. MaxSubmits  BY ConstantsAssumption
  <2> QED BY <2>1, <2>2, <2>3 DEF NewKnowledge, Knowledge, Methods
<1>4. r.queue = <<>> /\ r.reply = "none" /\ r.user = None /\ r.info = None  BY DEF NewTransaction
<1>5. c.life = "idle" /\ c.ends = <<>> /\ ~c.refused  BY DEF NewKnowledge
<1> HIDE DEF r, c
<1>6. MaxSubmits \in Nat /\ MaxAnswers \in Nat /\ Cardinality(Tx) \in Nat /\ MaxSubmits * Cardinality(Tx) \in Nat
  <2>1. Cardinality(Tx) \in Nat  BY FS_CardinalityType, ConstantsAssumption
  <2> QED BY <2>1, ConstantsAssumption
<1>7. TypeOK
  <2>1. iNextID \in Ids /\ answers \in 0 .. MaxAnswers  BY <1>1, <1>6 DEF Ids
  <2>2. iCredentials \in Seq(Credentials)  BY <1>1
  <2> QED BY <1>1, <1>2, <1>3, <2>1, <2>2 DEF TypeOK
<1>8. Counted
  <2>1. MaxSubmits * Cardinality(Spent) \in Nat
    <3>1. Spent \in SUBSET Tx  BY DEF Spent
    <3> QED BY <1>7, <3>1, SpentGrows
  <2>2. iNextID =< answers + MaxSubmits * Cardinality(Spent)  BY <1>1, <2>1
  <2> QED BY <1>1, <1>4, <2>2 DEF Counted
<1>9. Rests(r, c)  BY <1>4, <1>5 DEF Rests
<1>10. Placed(r, c, FALSE) /\ ~Challenged(r)  BY <1>9, NotReturning
<1>11. Places
  <2> SUFFICES ASSUME NEW t \in Tx PROVE Placed(tr[t], client[t], asking = t)  BY DEF Places
  <2>1. (asking = t) = FALSE  BY <1>1
  <2> QED BY <1>1, <1>10, <2>1
<1>12. Challenges  BY <1>1, <1>10 DEF Challenges
<1> QED BY <1>7, <1>8, <1>11, <1>12 DEF IInv

\* Every step keeps it.
LEMMA Inductively ==
  ASSUME Env = {}, IInv, [Next]_vars
  PROVE  IInv'
<1>1. TypeOK /\ Counted /\ Places /\ Challenges  BY DEF IInv
<1>2. CASE UNCHANGED vars
  <2>1. UNCHANGED <<tr, iCredentials, iNextID, asking, client, answers>>  BY <1>2 DEF vars
  <2>2. TypeOK'  BY <1>1, <2>1 DEF TypeOK
  <2>3. Counted'
    <3>1. Spent' = Spent  BY <2>1 DEF Spent
    <3> QED BY <1>1, <2>1, <3>1 DEF Counted
  <2>4. Places' /\ Challenges'  BY <1>1, <2>1 DEF Places, Challenges
  <2> QED BY <2>2, <2>3, <2>4 DEF IInv
<1>3. ASSUME NEW t \in Tx, Validation(t) PROVE IInv'
  BY <1>1, <1>3, ValidationTypes, ValidationKeepsPlaces DEF IInv
<1>4. ASSUME NEW t \in Tx, Redirection(t) PROVE IInv'
  BY <1>1, <1>4, RedirectionTypes, RedirectionKeepsPlaces DEF IInv
<1>5. ASSUME NEW t \in Tx, Authentication(t) PROVE IInv'
  BY <1>1, <1>5, AuthenticationTypes, AuthenticationKeepsPlaces DEF IInv
<1>6. ASSUME NEW t \in Tx, Submitted(t) \/ ClientRuns(t) PROVE IInv'
  BY <1>1, <1>6, HandlerTypes, HandlerKeepsPlaces DEF IInv
<1>7. ASSUME NEW t \in Tx, Answer(t) \/ Complete(t) \/ Breaks(t) PROVE IInv'
  BY <1>1, <1>7, ServerTypes, ServerKeepsPlaces DEF IInv
<1>8. ASSUME NEW t \in Tx, ClientSubmits(t) \/ ClientConfirms(t) \/ ClientCancels(t) \/ ClientCloses(t) PROVE IInv'
  BY <1>1, <1>8, ClientTypes, ClientKeepsPlaces DEF IInv
<1>9. ASSUME NEW t \in Tx, UserAnswers(t) \/ UserRefuses(t) \/ UserFails(t) PROVE IInv'
  BY <1>1, <1>9, UserTypes, UserKeepsPlaces DEF IInv
<1> QED BY <1>2, <1>3, <1>4, <1>5, <1>6, <1>7, <1>8, <1>9 DEF Next

\* In its place a transaction has ended as it should.
LEMMA EndsInPlace ==
  ASSUME IInv
  PROVE  OneEnd
<1>1. TypeOK  BY DEF IInv
<1>2. ASSUME NEW t \in Tx
      PROVE  LET c == client[t] IN
             /\ Len(c.ends) <= IF c.refused THEN 2 ELSE 1
             /\ \A i \in DOMAIN c.ends : c.ends[i] = "ESucceeded" => Len(c.ends) = 1 /\ tr[t].code < 300
             /\ c.life \in {"idle", "confirm"} /\ ~c.refused => Quiet(t)
             /\ c.life = "busy" => ~Quiet(t)
  <2> DEFINE r == tr[t]
             c == client[t]
             a == (asking = t)
  <2>1. Placed(r, c, a) /\ a \in BOOLEAN /\ c.refused \in BOOLEAN
        /\ (Quiet(t) <=> r.queue = <<>> /\ r.reply = "none" /\ ~a)
    BY <1>1 DEF IInv, Places, Quiet, TypeOK, Knowledge
  <2>2. /\ Len(<<>>) = 0 /\ \A x : Len(<<x>>) = 1 /\ <<x>>[1] = x /\ <<x>> # <<>>
        /\ \A x, y : Len(<<x, y>>) = 2 /\ <<x, y>>[1] = x /\ <<x, y>>[2] = y /\ <<x, y>> # <<>>
    OBVIOUS
  <2>3. DOMAIN c.ends = 1 .. Len(c.ends)  BY <1>1 DEF TypeOK, Knowledge
  <2> SUFFICES /\ Len(c.ends) <= IF c.refused THEN 2 ELSE 1
               /\ \A i \in 1 .. Len(c.ends) : c.ends[i] = "ESucceeded" => Len(c.ends) = 1 /\ r.code < 300
               /\ c.life \in {"idle", "confirm"} /\ ~c.refused => r.queue = <<>> /\ r.reply = "none" /\ ~a
               /\ c.life = "busy" => ~(r.queue = <<>> /\ r.reply = "none" /\ ~a)
    BY <2>1, <2>3
  <2> HIDE DEF r, c, a
  <2>4. CASE Closed(r, c)  BY <2>2, <2>4 DEF Closed
  <2>5. CASE Returns(r, c)
    <3>1. c.ends = <<>> /\ ~c.refused /\ c.life = "busy"  BY <2>5 DEF Returns, First
    <3>2. r.queue # <<>>
      <4>1. r.queue = <<Headers>> \/ \E last \in Lasts : r.queue = <<Headers, last>>  BY <2>5 DEF Returns
      <4> QED BY <4>1, Queues
    <3> QED BY <2>2, <3>1, <3>2
  <2>6. CASE ~a /\ Rests(r, c)
    <3>1. c.life # "busy" /\ ~c.refused /\ r.queue = <<>> /\ r.reply = "none"  BY <2>6 DEF Rests
    <3>2. CASE c.ends = <<>>  BY <2>2, <2>6, <3>1, <3>2
    <3>3. CASE c.ends = <<"EFailed">>  BY <2>2, <2>6, <3>1, <3>3
    <3>4. CASE c.ends = <<"ESucceeded">> /\ r.code < 300  BY <2>2, <2>6, <3>1, <3>4
    <3> QED BY <2>6, <3>2, <3>3, <3>4 DEF Rests
  <2>7. CASE Fresh(r, c) \/ Leaves(r, c) \/ Away(r, c) \/ Over(r, c) \/ Told(r, c)
    <3>1. c.ends = <<>> /\ ~c.refused /\ c.life = "busy"
      BY <2>7 DEF Fresh, Leaves, Away, Over, Told, First
    <3>2. r.queue # <<>> \/ r.reply # "none"
      BY <2>2, <2>7 DEF Fresh, Leaves, Away, Over, Told
    <3> QED BY <2>2, <3>1, <3>2
  <2>8. CASE ~a /\ Refused(r, c)
    <3>1. c.refused  BY <2>8 DEF Refused
    <3>2. CASE /\ c.life = "busy" /\ c.ends = <<>>
               /\ \/ r.reply = "body" /\ \E x \in Failures : r.queue = <<x>>
                  \/ r.reply = "none" /\ \E x, y \in Failures : r.queue = <<x, y>>
      <4>1. r.queue # <<>>  BY <2>2, <3>2
      <4> QED BY <2>2, <3>1, <3>2, <4>1
    <3>3. CASE c.life = "idle" /\ c.ends = <<"EFailed">>  BY <2>2, <3>1, <3>3
    <3>4. CASE c.life = "idle" /\ c.ends = <<>>  BY <2>2, <3>1, <3>4
    <3>5. CASE c.life = "idle" /\ c.ends = <<"EFailed", "EFailed">>
      <4>1. \A i \in 1 .. 2 : i = 1 \/ i = 2  OBVIOUS
      <4> QED BY <2>2, <3>1, <3>5, <4>1
    <3> QED BY <2>8, <3>2, <3>3, <3>4, <3>5 DEF Refused
  <2> QED BY <2>1, <2>4, <2>5, <2>6, <2>7, <2>8 DEF Placed
<1> QED BY <1>1, <1>2 DEF OneEnd

\* In its place a request goes where the client has sent it.
LEMMA ConfirmedInPlace ==
  ASSUME IInv
  PROVE  Confirmed
<1> SUFFICES ASSUME NEW t \in Tx
             PROVE  /\ tr[t].reply # "none" /\ tr[t].body => AsAsked(tr[t], client[t])
                    /\ tr[t].queue # <<>> /\ ~AsAsked(tr[t], client[t]) => ~RequestFails(tr[t])
  BY DEF Confirmed, AsAsked
<1>1. Placed(tr[t], client[t], asking = t)  BY DEF IInv, Places
<1> QED BY <1>1, Queues DEF Placed, Closed, Returns, Rests, Fresh, Leaves, Away, Over, Told, Refused, Valid

\* The types, and the invariant, in every state.
THEOREM Invariant ==
  ASSUME Env = {}
  PROVE  Spec => []IInv
<1>1. Init => IInv  BY Initially
<1>2. IInv /\ [Next]_vars => IInv'  BY Inductively
<1> QED BY <1>1, <1>2, PTL DEF Spec

\* A submission has one end, that comes last and is told truly (see OneEnd).
THEOREM EndsOnce ==
  ASSUME Env = {}
  PROVE  Spec => []OneEnd
<1>1. Spec => []IInv  BY Invariant
<1>2. IInv => OneEnd  BY EndsInPlace
<1> QED BY <1>1, <1>2, PTL

\* A body goes only where the client has sent it (see Confirmed).
THEOREM AsksFirst ==
  ASSUME Env = {}
  PROVE  Spec => []Confirmed
<1>1. Spec => []IInv  BY Invariant
<1>2. IInv => Confirmed  BY ConfirmedInPlace
<1> QED BY <1>1, <1>2, PTL

-----------------------------------------------------------------------------
(* The credentials: a step of transaction t that leaves them alone *)

\* What is sent was sent before, with the same credentials.
Alike(r, s) == s.status = r.status /\ s.uri = r.uri /\ s.authorization = r.authorization
Carried(r, s) == Sent(s) => Sent(r) /\ Alike(r, s)

\* It keeps what is known of them.
LEMMA QuietCredentials ==
  ASSUME TypeOK, Numbered, Once, Tried, NEW t \in Tx, NEW s, NEW d, Turns(t, s, d),
         UNCHANGED <<iCredentials, iNextID>>,
         Carried(tr[t], s), s.status \in {tr[t].status, None},
         \A u \in Tx \ {t} : asking' = u => asking = u,
         asking' = t /\ d.life # "closed" => asking = t /\ client[t].life # "closed" /\ s.uri = tr[t].uri
  PROVE  Numbered' /\ Once' /\ Tried'
<1>1. \A u \in Tx : /\ u # t => tr'[u] = tr[u] /\ client'[u] = client[u]
                    /\ u = t => tr'[u] = s /\ client'[u] = d
  BY DEF TypeOK, Turns
<1>2. Numbered'
  <2>1. \A u \in Tx : tr'[u].status # None => tr'[u].status < iNextID  BY <1>1 DEF Numbered
  <2> QED BY <2>1 DEF Numbered
<1>3. Once'
  <2> SUFFICES ASSUME NEW u \in Tx, asking' = u, client'[u].life # "closed", NEW i \in DOMAIN iCredentials
               PROVE  iCredentials[i].realm # Realm[tr'[u].uri]
    BY DEF Once
  <2>1. asking = u /\ client[u].life # "closed" /\ tr'[u].uri = tr[u].uri  BY <1>1
  <2> QED BY <2>1 DEF Once
<1>4. Tried'
  <2> SUFFICES ASSUME NEW u \in Tx, Sent(tr'[u]), NEW i \in DOMAIN iCredentials,
                      iCredentials[i].id = tr'[u].status, iCredentials[i].realm = Realm[tr'[u].uri]
               PROVE  Carries(tr'[u], iCredentials[i])
    BY DEF Tried, Sent, Carries
  <2>1. Sent(tr[u]) /\ Alike(tr[u], tr'[u])  BY <1>1 DEF Carried, Alike
  <2>2. Carries(tr[u], iCredentials[i])  BY <2>1 DEF Tried, Alike
  <2> QED BY <2>1, <2>2 DEF Carries, Alike
<1> QED BY <1>2, <1>3, <1>4

\* Where nothing has been sent.
LEMMA NotSent ==
  ASSUME NEW r, NEW c
  PROVE  /\ Closed(r, c) \/ Rests(r, c) \/ Fresh(r, c) \/ Over(r, c) \/ Told(r, c) => ~Sent(r)
         /\ Refused(r, c) /\ r.reply = "none" => ~Sent(r)
         /\ Returns(r, c) \/ Away(r, c) \/ r.reply # "none" => Sent(r)
         /\ r.queue = <<E("ESubmit", "EProtocolHandler")>> => Sent(r)
         /\ r.queue = <<E("ESubmit", "EStatusCodeHandler+1")>> /\ r.reply = "none" => ~Sent(r)
<1>1. \A x : x # E("ESubmit", "EProtocolHandler") /\ x # Headers => <<x>> # <<E("ESubmit", "EProtocolHandler")>>
  <2> SUFFICES ASSUME NEW x, <<x>> = <<E("ESubmit", "EProtocolHandler")>> PROVE x = E("ESubmit", "EProtocolHandler")
    OBVIOUS
  <2>1. <<x>>[1] = <<E("ESubmit", "EProtocolHandler")>>[1]  OBVIOUS
  <2> QED BY <2>1
<1>2. ASSUME NEW x, r.reply = "none", r.queue = <<x>>, x # E("ESubmit", "EProtocolHandler"), x # Headers
      PROVE  ~Sent(r)
  BY <1>1, <1>2, Queues DEF Sent
<1>3. ASSUME r.reply = "none", r.queue = <<>> PROVE ~Sent(r)
  BY <1>3, Queues DEF Sent
<1>4. ASSUME NEW x, NEW y, r.reply = "none", r.queue = <<x, y>>, x # Headers PROVE ~Sent(r)
  BY <1>4, Queues DEF Sent
<1>5. /\ \A x \in Failures : x # E("ESubmit", "EProtocolHandler") /\ x # Headers
      /\ \A ev, to : ev \notin {"ESubmit", "EGotResponseHeaders"} \/ to \notin {"EProtocolHandler", "EStatusCodeHandler"} =>
           E(ev, to) # E("ESubmit", "EProtocolHandler") /\ E(ev, to) # Headers
  BY Movings DEF Failures, Failure, Lasts, Headers
<1>6. Closed(r, c) \/ Rests(r, c) => ~Sent(r)  BY <1>3 DEF Closed, Rests
<1>7. Fresh(r, c) => ~Sent(r)  BY <1>2, <1>5 DEF Fresh
<1>8. Over(r, c) => ~Sent(r)  BY <1>2, <1>5 DEF Over, Failures
<1>9. Told(r, c) => ~Sent(r)
  <2> SUFFICES ASSUME Told(r, c) PROVE ~Sent(r)  OBVIOUS
  <2>1. PICK x \in {Failure, E("ESucceeded", "EClient"), E("ERedirectRequiresConfirmation", "EClient")} :
          r.queue = <<x>> /\ r.reply = "none"
    BY DEF Told
  <2>2. x # E("ESubmit", "EProtocolHandler") /\ x # Headers  BY <1>5, <2>1 DEF Failures
  <2> QED BY <1>2, <2>1, <2>2
<1>10. ASSUME Refused(r, c), r.reply = "none" PROVE ~Sent(r)
  <2>1. CASE r.queue = <<>>  BY <1>3, <1>10, <2>1
  <2>2. CASE \E x \in Failures : r.queue = <<x>>  BY <1>2, <1>5, <1>10, <2>2
  <2>3. CASE \E x, y \in Failures : r.queue = <<x, y>>  BY <1>4, <1>5, <1>10, <2>3
  <2> QED BY <1>10, <2>1, <2>2, <2>3 DEF Refused
<1>11. Returns(r, c) \/ Away(r, c) \/ r.reply # "none" => Sent(r)  BY Queues DEF Returns, Away, Sent
<1>12. r.queue = <<E("ESubmit", "EProtocolHandler")>> => Sent(r)  BY DEF Sent
<1>13. r.queue = <<E("ESubmit", "EStatusCodeHandler+1")>> /\ r.reply = "none" => ~Sent(r)
  <2>1. E("ESubmit", "EStatusCodeHandler+1") # E("ESubmit", "EProtocolHandler")
        /\ E("ESubmit", "EStatusCodeHandler+1") # Headers
    BY Movings DEF Headers
  <2> QED BY <1>2, <2>1
<1> QED BY <1>6, <1>7, <1>8, <1>9, <1>10, <1>11, <1>12, <1>13

\* Operations that leave the credentials of a request.
LEMMA OperationsAlike ==
  ASSUME NEW r \in Transaction, NEW q
  PROVE  /\ Alike(r, WithQueue(r, q)) /\ WithQueue(r, q).reply = r.reply
         /\ Alike(r, Cancelled(r)) /\ Cancelled(r).reply = "none"
         /\ Alike(r, Anew(r, q))
         /\ \A reply : Alike(r, WithReply(r, reply)) /\ Alike(r, WithQueue(WithReply(r, reply), q))
                       /\ WithQueue(WithReply(r, reply), q).reply = reply
         /\ \A response : Alike(r, Answered(r, response)) /\ Alike(r, WithQueue(Answered(r, response), q))
         /\ Alike(r, WithQueue(CountedOf(r), q)) /\ WithQueue(CountedOf(r), q).reply = r.reply
         /\ WithQueue(Cancelled(Moved(r)), q).status = r.status
         /\ WithQueue(Repeated(r), q).status = r.status
         /\ \A request : WithQueue(Requested(r, request), q).status = r.status
<1>1. /\ Alike(r, WithQueue(r, q)) /\ WithQueue(r, q).reply = r.reply
      /\ Alike(r, Cancelled(r)) /\ Cancelled(r).reply = "none"
      /\ Alike(r, Anew(r, q))
  BY DEF Alike, WithQueue, Cancelled, Anew, Transaction
<1>2. \A reply : Alike(r, WithReply(r, reply)) /\ Alike(r, WithQueue(WithReply(r, reply), q))
                 /\ WithQueue(WithReply(r, reply), q).reply = reply
  BY DEF Alike, WithQueue, WithReply, Transaction
<1>3. \A response : Alike(r, Answered(r, response)) /\ Alike(r, WithQueue(Answered(r, response), q))
  BY DEF Alike, WithQueue, Answered, Transaction
<1>4. Alike(r, WithQueue(CountedOf(r), q)) /\ WithQueue(CountedOf(r), q).reply = r.reply
  BY DEF Alike, WithQueue, CountedOf, Transaction
<1>5. /\ WithQueue(Cancelled(Moved(r)), q).status = r.status
      /\ WithQueue(Repeated(r), q).status = r.status
  BY DEF WithQueue, Cancelled, Moved, CountedOf, Repeated, AsGet, Transaction
<1>6. \A request : WithQueue(Requested(r, request), q).status = r.status
  BY DEF WithQueue, Requested, Transaction
<1> QED BY <1>1, <1>2, <1>3, <1>4, <1>5, <1>6

CredentialsStay == iCredentials' = iCredentials /\ Numbered' /\ Once' /\ Tried'

\* The credentials, in CValidationFilter.
LEMMA ValidationCredentials ==
  ASSUME IInv, Numbered, Once, Tried, NEW t \in Tx, Validation(t)
  PROVE  CredentialsStay
<1> DEFINE r == tr[t]
           c == client[t]
<1>1. TypeOK /\ Places  BY DEF IInv
<1>2. CASE Runs(t, "ESubmit", "ETidyUp") /\ Become(ValidateRequest(w0, t)) /\ Unasked
  <2>1. /\ asking # t /\ Placed(r, c, FALSE) /\ r \in Transaction /\ c \in Knowledge
        /\ r.queue # <<>> /\ Head(r.queue) = E("ESubmit", "ETidyUp")
    BY <1>1, <1>2, RunsPlaced
  <2>2. Fresh(r, c) /\ asking' = asking  BY <1>2, <2>1, FirstEvent DEF Unasked
  <2>3. UNCHANGED <<iCredentials, iNextID>>  BY <1>1, <1>2, ValidateRequestSteps
  <2>4. CASE RequestFails(r)
    <3>1. Turns(t, Anew(r, <<Failure>>), c)  BY <1>1, <1>2, <2>4, ValidateRequestSteps
    <3>2. Told(Anew(r, <<Failure>>), c)  BY <2>1, <2>2, <2>4, PlaceValidated
    <3>3. Carried(r, Anew(r, <<Failure>>)) /\ Anew(r, <<Failure>>).status = r.status
      BY <2>1, <3>2, NotSent, OperationsAlike DEF Carried, Alike
    <3> QED BY <1>1, <2>1, <2>2, <2>3, <3>1, <3>3, QuietCredentials DEF CredentialsStay
  <2>5. CASE ~RequestFails(r)
    <3> DEFINE s == WithQueue(r, To(r.queue, "EStatusCodeHandler+1"))
    <3>1. Turns(t, s, c)  BY <1>1, <1>2, <2>5, ValidateRequestSteps
    <3>2. s.queue = <<E("ESubmit", "EStatusCodeHandler+1")>> /\ s.reply = "none"
      <4>1. s.queue = To(r.queue, "EStatusCodeHandler+1") /\ s.reply = r.reply
        BY <2>1, QueueField, OperationsAlike
      <4>2. r.queue = <<E("ESubmit", "ETidyUp")>> /\ r.reply = "none"  BY <2>2 DEF Fresh
      <4> QED BY <4>1, <4>2, Movings
    <3>3. Carried(r, s) /\ s.status = r.status
      <4>1. ~Sent(s)  BY <3>2, NotSent
      <4> QED BY <2>1, <4>1, OperationsAlike DEF Carried, Alike
    <3> HIDE DEF s
    <3> QED BY <1>1, <2>1, <2>2, <2>3, <3>1, <3>3, QuietCredentials DEF CredentialsStay
  <2> QED BY <2>4, <2>5
<1>3. ASSUME NEW ev \in {"EResponseComplete", "KErr"},
             Runs(t, ev, "ETidyUp"), Become(ValidateResponse(w0, t)), Unasked
      PROVE  CredentialsStay
  <2>1. /\ asking # t /\ Placed(r, c, FALSE) /\ r \in Transaction /\ c \in Knowledge
        /\ r.queue # <<>> /\ Head(r.queue) = E(ev, "ETidyUp")
    BY <1>1, <1>3, RunsPlaced
  <2>2. (Over(r, c) \/ Refused(r, c)) /\ asking' = asking  BY <1>3, <2>1, FirstEvent DEF Unasked
  <2>3. Head(r.queue).ev = ev  BY <2>1 DEF E
  <2> DEFINE s == WithQueue(r, Append(Tail(r.queue), Final(r, ev)))
  <2>4. Turns(t, s, c) /\ UNCHANGED <<iCredentials, iNextID>>  BY <1>1, <1>3, <2>3, ValidateResponseSteps
  <2>5. Told(s, c) \/ Refused(s, c)  BY <2>1, <2>2, PlaceConcluded
  <2>6. Alike(r, s) /\ s.reply = r.reply  BY <2>1, OperationsAlike
  <2>7. Carried(r, s)
    <3>1. Sent(s) => s.reply # "none"  BY <2>5, NotSent
    <3>2. r.reply # "none" => Sent(r)  BY NotSent
    <3> QED BY <2>6, <3>1, <3>2 DEF Carried
  <2>8. s.status = r.status  BY <2>6 DEF Alike
  <2> HIDE DEF s
  <2> QED BY <1>1, <2>1, <2>2, <2>4, <2>7, <2>8, QuietCredentials DEF CredentialsStay
<1> QED BY <1>2, <1>3 DEF Validation

\* The credentials, in CRedirectFilter.
LEMMA RedirectionCredentials ==
  ASSUME IInv, Numbered, Once, Tried, NEW t \in Tx, Redirection(t)
  PROVE  CredentialsStay
<1> DEFINE r == tr[t]
           c == client[t]
           tail == Append(Tail(r.queue), E("KErr", "ETidyUp"))
<1>1. TypeOK /\ Places  BY DEF IInv
<1>2. /\ Returns(r, c) /\ asking # t /\ asking' = asking
      /\ r \in Transaction /\ c \in Knowledge /\ r.code \in {301, 302, 305}
  <2>1. Runs(t, "EGotResponseHeaders", "EStatusCodeHandler") /\ asking' = asking /\ r.code \in {301, 302, 305}
    BY DEF Redirection, Unasked
  <2>2. Runs(t, "EGotResponseHeaders", "EStatusCodeHandler")  BY <2>1
  <2>3. /\ asking # t /\ Placed(r, c, FALSE) /\ r \in Transaction /\ c \in Knowledge
        /\ r.queue # <<>> /\ Head(r.queue) = E("EGotResponseHeaders", "EStatusCodeHandler")
    BY <1>1, <2>2, RunsPlaced
  <2>4. Returns(r, c)  BY <2>3, FirstEvent
  <2> QED BY <2>1, <2>3, <2>4
<1>3. r.location # None => r.location \in Uris  BY <1>2 DEF Transaction
<1>4. UNCHANGED <<iCredentials, iNextID>>  BY <1>1, RefusedSteps, HandleRedirectSteps DEF Redirection
<1>5. ASSUME NEW s, NEW d, Turns(t, s, d), Carried(r, s), s.status = r.status
      PROVE  CredentialsStay
  BY <1>1, <1>2, <1>4, <1>5, QuietCredentials DEF CredentialsStay
<1>6. ASSUME NEW s \in {WithQueue(r, tail), WithQueue(CountedOf(r), tail)}, Turns(t, s, Refuse(c))
      PROVE  CredentialsStay
  <2>1. Alike(r, s)  BY <1>2, <1>6, OperationsAlike
  <2>2. Sent(r)  BY <1>2, NotSent
  <2> QED BY <1>5, <1>6, <2>1, <2>2 DEF Carried, Alike
<1>7. CASE r.code = 305
  BY <1>1, <1>6, <1>7, RefusedSteps DEF Redirection
<1>8. CASE r.code \in {301, 302}
  <2>1. Become(HandleRedirect(w0, t))  BY <1>8 DEF Redirection
  <2>2. CASE Turns(t, WithQueue(r, tail), Refuse(c))  BY <1>6, <2>2
  <2>3. CASE Turns(t, WithQueue(CountedOf(r), tail), Refuse(c))  BY <1>6, <2>3
  <2>4. CASE /\ r.location # None /\ r.code = 301 /\ r.method \notin {"EGET", "EHEAD"}
             /\ Turns(t, WithQueue(Cancelled(Moved(r)), <<E("ERedirectRequiresConfirmation", "EClient")>>), c)
    <3> DEFINE s == WithQueue(Cancelled(Moved(r)), <<E("ERedirectRequiresConfirmation", "EClient")>>)
    <3>1. Told(s, c)  BY <1>2, <1>3, <2>4, PlaceAsks
    <3>2. Carried(r, s) /\ s.status = r.status  BY <1>2, <3>1, NotSent, OperationsAlike DEF Carried
    <3> HIDE DEF s
    <3> QED BY <1>5, <2>4, <3>2 DEF s
  <2>5. CASE /\ r.location # None /\ (r.code = 301 => r.method \in {"EGET", "EHEAD"})
             /\ Turns(t, WithQueue(Repeated(r), <<E("ESubmit", "ETidyUp")>>), c)
    <3> DEFINE s == WithQueue(Repeated(r), <<E("ESubmit", "ETidyUp")>>)
    <3>1. Fresh(s, c)  BY <1>2, <1>3, <1>8, <2>5, PlaceRepeats
    <3>2. Carried(r, s) /\ s.status = r.status  BY <1>2, <3>1, NotSent, OperationsAlike DEF Carried
    <3> HIDE DEF s
    <3> QED BY <1>5, <2>5, <3>2 DEF s
  <2> QED BY <1>1, <1>8, <2>1, <2>2, <2>3, <2>4, <2>5, HandleRedirectSteps
<1> QED BY <1>2, <1>7, <1>8

\* The credentials, at both ends of the chain.
LEMMA HandlerCredentials ==
  ASSUME IInv, Numbered, Once, Tried, NEW t \in Tx, Submitted(t) \/ ClientRuns(t)
  PROVE  CredentialsStay
<1> DEFINE r == tr[t]
           c == client[t]
<1>1. TypeOK /\ Places  BY DEF IInv
<1>2. CASE Submitted(t)
  <2>1. Runs(t, "ESubmit", "EProtocolHandler") /\ asking' = asking  BY <1>2 DEF Submitted, Unasked
  <2>2. /\ asking # t /\ Placed(r, c, FALSE) /\ r \in Transaction /\ c \in Knowledge
        /\ r.queue # <<>> /\ Head(r.queue) = E("ESubmit", "EProtocolHandler")
    BY <1>1, <2>1, RunsPlaced
  <2>3. Sent(r)
    <3>1. r.queue = <<E("ESubmit", "EProtocolHandler")>>  BY <2>2, FirstEvent
    <3> QED BY <3>1, NotSent
  <2> DEFINE p == IF r.reply = "none" THEN "waiting" ELSE r.reply
             s == WithQueue(WithReply(r, p), Tail(r.queue))
  <2>4. Turns(t, s, c) /\ UNCHANGED <<iCredentials, iNextID>>  BY <1>1, <1>2, SubmittedSteps
  <2>5. Alike(r, s)  BY <2>2, OperationsAlike
  <2>6. Carried(r, s) /\ s.status = r.status  BY <2>3, <2>5 DEF Carried, Alike
  <2> HIDE DEF s
  <2> QED BY <1>1, <2>1, <2>2, <2>4, <2>6, QuietCredentials DEF CredentialsStay
<1>3. CASE ClientRuns(t)
  <2>1. PICK ev \in Events : Runs(t, ev, "EClient") /\ Become(Done(Tell(w0, t, ev), t)) /\ asking' = asking
    BY <1>3 DEF ClientRuns, Unasked
  <2>2. /\ asking # t /\ Placed(r, c, FALSE) /\ r \in Transaction /\ c \in Knowledge
        /\ r.queue # <<>> /\ Head(r.queue) = E(ev, "EClient")
    BY <1>1, <2>1, RunsPlaced
  <2>3. Told(r, c) \/ Refused(r, c)  BY <2>2, FirstEvent
  <2> DEFINE s == WithQueue(r, Tail(r.queue))
             d == IF ev = "ERedirectRequiresConfirmation" THEN Asked(c) ELSE Ended(c, ev)
  <2>4. Turns(t, s, d) /\ UNCHANGED <<iCredentials, iNextID>>  BY <1>1, <2>1, ClientRunsSteps
  <2>5. Rests(s, d) \/ Refused(s, d)  BY <2>2, <2>3, PlaceTold
  <2>6. Alike(r, s) /\ s.reply = r.reply  BY <2>2, OperationsAlike
  <2>7. Carried(r, s)
    <3>1. Sent(s) => s.reply # "none"  BY <2>5, NotSent
    <3>2. r.reply # "none" => Sent(r)  BY NotSent
    <3> QED BY <2>6, <3>1, <3>2 DEF Carried
  <2>8. s.status = r.status  BY <2>6 DEF Alike
  <2> HIDE DEF s, d
  <2> QED BY <1>1, <2>1, <2>2, <2>4, <2>7, <2>8, QuietCredentials DEF CredentialsStay
<1> QED BY <1>2, <1>3

\* The credentials, when something comes from the server.
LEMMA ServerCredentials ==
  ASSUME IInv, Numbered, Once, Tried, NEW t \in Tx, Answer(t) \/ Complete(t) \/ Breaks(t)
  PROVE  CredentialsStay
<1> DEFINE r == tr[t]
           c == client[t]
<1>1. TypeOK /\ r \in Transaction  BY DEF IInv, TypeOK
<1>2. asking' = asking /\ r.reply # "none"
  BY DEF Answer, Complete, Breaks, Unasked
<1>3. Sent(r)  BY <1>2, NotSent
<1>4. ASSUME NEW s, Turns(t, s, c), Alike(r, s), UNCHANGED <<iCredentials, iNextID>>
      PROVE  CredentialsStay
  <2>1. Carried(r, s) /\ s.status = r.status /\ s.uri = r.uri  BY <1>3, <1>4 DEF Carried, Alike
  <2> QED BY <1>1, <1>2, <1>4, <2>1, QuietCredentials DEF CredentialsStay
<1>5. CASE Answer(t)
  <2>1. PICK response \in Responses :
          /\ UNCHANGED <<iCredentials, iNextID>>
          /\ response.code \in {200, 404} => Turns(t, Answered(r, response), c)
          /\ response.code \notin {200, 404} => Turns(t, WithQueue(Answered(r, response), Append(r.queue, Headers)), c)
    BY <1>1, <1>5, AnswerSteps
  <2>2. Alike(r, Answered(r, response)) /\ Alike(r, WithQueue(Answered(r, response), Append(r.queue, Headers)))
    BY <1>1, OperationsAlike
  <2> QED BY <1>4, <2>1, <2>2
<1>6. \A x : Alike(r, WithQueue(WithReply(r, "none"), Append(r.queue, x)))  BY <1>1, OperationsAlike
<1>7. CASE Complete(t)
  BY <1>1, <1>4, <1>6, <1>7, ArrivalSteps DEF Complete
<1>8. CASE Breaks(t)
  BY <1>1, <1>4, <1>6, <1>8, ArrivalSteps DEF Breaks
<1> QED BY <1>5, <1>7, <1>8

\* The credentials, when the client acts.
LEMMA ClientCredentials ==
  ASSUME Env = {}, IInv, Numbered, Once, Tried, NEW t \in Tx,
         ClientSubmits(t) \/ ClientConfirms(t) \/ ClientCancels(t) \/ ClientCloses(t)
  PROVE  CredentialsStay
<1> DEFINE r == tr[t]
           c == client[t]
           a == (asking = t)
<1>1. TypeOK /\ Placed(r, c, a) /\ r \in Transaction /\ c \in Knowledge /\ a \in BOOLEAN
  BY DEF IInv, Places, TypeOK
<1>2. asking' = asking
  BY DEF ClientSubmits, ClientConfirms, ClientCancels, ClientCloses, SubmitAs, Unasked
<1>3. ASSUME NEW request, NEW n, SubmitAs(request, t, n), r.queue = <<>>, r.reply = "none", asking # t
      PROVE  CredentialsStay
  <2> DEFINE s == WithQueue(Requested(r, request), Append(r.queue, E("ESubmit", "ETidyUp")))
             d == Submitting(c, request, n)
  <2>1. Turns(t, s, d) /\ UNCHANGED <<iCredentials, iNextID>>  BY <1>1, <1>3, SubmitAsSteps
  <2>2. Fresh(s, d)  BY <1>1, <1>3, PlaceRequested
  <2>3. Carried(r, s) /\ s.status = r.status  BY <1>1, <2>2, NotSent, OperationsAlike DEF Carried
  <2> HIDE DEF s, d
  <2> QED BY <1>1, <1>2, <1>3, <2>1, <2>3, QuietCredentials DEF CredentialsStay
<1>4. CASE ClientSubmits(t)
  <2>1. PICK request \in Requests[t] : SubmitAs(request, t, 1)  BY <1>4 DEF ClientSubmits
  <2>2. Quiet(t)  BY <1>4 DEF ClientSubmits
  <2> QED BY <1>3, <2>1, <2>2 DEF Quiet
<1>5. CASE ClientConfirms(t)
  <2>1. c.life = "confirm" /\ SubmitAs(r, t, 0)  BY <1>5 DEF ClientConfirms
  <2>2. Rests(r, c) /\ ~a
    BY <1>1, <2>1 DEF Placed, Closed, Fresh, Leaves, Away, Returns, Over, Told, Refused, First
  <2> QED BY <1>3, <2>1, <2>2 DEF Rests
<1>6. CASE ClientCancels(t)
  <2>1. c.life = "busy" /\ asking # t  BY <1>6 DEF ClientCancels
  <2>2. Placed(r, c, FALSE)
    <3>1. a = FALSE  BY <2>1
    <3> QED BY <1>1, <3>1
  <2>3. Turns(t, Cancelled(r), Idled(c)) /\ UNCHANGED <<iCredentials, iNextID>>  BY <1>1, <1>6, ClientCancelsSteps
  <2>4. Rests(Cancelled(r), Idled(c)) \/ Refused(Cancelled(r), Idled(c))  BY <1>1, <2>1, <2>2, PlaceCancelled
  <2>5. Carried(r, Cancelled(r)) /\ Cancelled(r).status = r.status
    BY <1>1, <2>4, NotSent, OperationsAlike DEF Carried, Alike
  <2> QED BY <1>1, <1>2, <2>1, <2>3, <2>5, QuietCredentials DEF CredentialsStay
<1>7. CASE ClientCloses(t)
  <2> DEFINE s == NewTransaction
             d == NewKnowledge("closed")
  <2>1. Turns(t, s, d) /\ UNCHANGED <<iCredentials, iNextID>>  BY <1>1, <1>7, ClientClosesSteps
  <2>2. Closed(s, d) /\ s.status = None /\ d.life = "closed"  BY DEF Closed, NewTransaction, NewKnowledge
  <2>3. Carried(r, s)  BY <2>2, NotSent DEF Carried
  <2> HIDE DEF s, d
  <2> QED BY <1>1, <1>2, <2>1, <2>2, <2>3, QuietCredentials DEF CredentialsStay
<1> QED BY <1>4, <1>5, <1>6, <1>7

-----------------------------------------------------------------------------
(* The credentials: the steps that send, store and forget them *)

\* What is left of the credentials when those of a realm are gone, if there are any.
Remains(left, realm) ==
  /\ left \in Seq(Credentials)
  /\ \A i \in DOMAIN left : left[i] \in Stored /\ left[i].realm # realm
  /\ \A i, j \in DOMAIN left : left[i].realm = left[j].realm => i = j

\* What FindCredentials and RemoveAt leave is what remains.
LEMMA LeftCredentials ==
  ASSUME iCredentials \in Seq(Credentials), Once, NEW realm, NEW wrong \in BOOLEAN,
         NEW k, k = FindCredentials(iCredentials, realm), k = 0 \/ wrong, wrong => k # 0,
         NEW left, left = IF wrong THEN RemoveAt(iCredentials, k) ELSE iCredentials
  PROVE  /\ Remains(left, realm)
         /\ \A i \in DOMAIN iCredentials :
              (\E j \in DOMAIN left : left[j] = iCredentials[i]) \/ (wrong /\ i = k)
<1> DEFINE creds == iCredentials
           n == Len(iCredentials)
<1>1. n \in Nat /\ DOMAIN creds = 1 .. n  OBVIOUS
<1>2. k \in 0 .. n /\ (k # 0 => k \in 1 .. n /\ creds[k].realm = realm)
      /\ (k = 0 => \A i \in 1 .. n : creds[i].realm # realm)
  BY CredentialsFound
<1>3. \A i, j \in 1 .. n : creds[i].realm = creds[j].realm => i = j  BY <1>1 DEF Once
<1>4. Stored = {creds[i] : i \in 1 .. n}  BY <1>1 DEF Stored
<1>5. CASE ~wrong
  <2>1. left = creds /\ k = 0  BY <1>5
  <2> QED BY <1>1, <1>2, <1>3, <1>4, <1>5, <2>1 DEF Remains
<1>6. CASE wrong
  <2> DEFINE at(i) == IF i < k THEN i ELSE i + 1
  <2>1. k \in 1 .. n /\ creds[k].realm = realm /\ left = RemoveAt(creds, k)  BY <1>2, <1>6
  <2>2. left \in Seq(Credentials) /\ Len(left) = n - 1 /\ \A i \in 1 .. n - 1 : left[i] = creds[at(i)]
    BY <2>1, CredentialsRemoved
  <2>3. DOMAIN left = 1 .. n - 1  BY <2>2, LenProperties
  <2>4. \A i \in 1 .. n - 1 : at(i) \in 1 .. n /\ at(i) # k  BY <1>1, <2>1
  <2>5. \A i, j \in 1 .. n - 1 : at(i) = at(j) => i = j  BY <1>1, <2>1
  <2>6. ASSUME NEW i \in 1 .. n - 1 PROVE left[i] \in Stored /\ left[i].realm # realm
    <3>1. left[i] = creds[at(i)] /\ at(i) \in 1 .. n /\ at(i) # k  BY <2>2, <2>4
    <3>2. creds[at(i)].realm # creds[k].realm  BY <1>3, <2>1, <3>1
    <3> QED BY <1>4, <2>1, <3>1, <3>2
  <2>7. ASSUME NEW i \in 1 .. n - 1, NEW j \in 1 .. n - 1, left[i].realm = left[j].realm PROVE i = j
    <3>1. creds[at(i)].realm = creds[at(j)].realm /\ at(i) \in 1 .. n /\ at(j) \in 1 .. n  BY <2>2, <2>4, <2>7
    <3>2. at(i) = at(j)  BY <1>3, <3>1
    <3> QED BY <2>5, <3>2
  <2>8. ASSUME NEW i \in 1 .. n, i # k PROVE \E j \in 1 .. n - 1 : left[j] = creds[i]
    <3>1. CASE i < k
      <4>1. i \in 1 .. n - 1 /\ at(i) = i  BY <1>1, <2>1, <3>1
      <4> QED BY <2>2, <4>1
    <3>2. CASE ~(i < k)
      <4>1. i - 1 \in 1 .. n - 1 /\ at(i - 1) = i  BY <1>1, <2>1, <2>8, <3>2
      <4> QED BY <2>2, <4>1
    <3> QED BY <3>1, <3>2
  <2>9. Remains(left, realm)  BY <2>2, <2>3, <2>6, <2>7 DEF Remains
  <2> QED BY <1>1, <1>6, <2>3, <2>8, <2>9
<1> QED BY <1>5, <1>6

\* The credentials of a transaction that does not move are those it has tried.
LEMMA OthersTried ==
  ASSUME TypeOK, Numbered, Tried, NEW t \in Tx, NEW s, NEW d, Turns(t, s, d),
         \A i \in DOMAIN iCredentials' : iCredentials'[i] \in Stored \/ iCredentials'[i].id = iNextID,
         Sent(s) => \A i \in DOMAIN iCredentials' :
           iCredentials'[i].id = s.status /\ iCredentials'[i].realm = Realm[s.uri] => Carries(s, iCredentials'[i])
  PROVE  Tried'
<1> SUFFICES ASSUME NEW u \in Tx, Sent(tr'[u]), NEW i \in DOMAIN iCredentials',
                    iCredentials'[i].id = tr'[u].status, iCredentials'[i].realm = Realm[tr'[u].uri]
             PROVE  Carries(tr'[u], iCredentials'[i])
  BY DEF Tried, Sent, Carries
<1>1. CASE u = t
  <2>1. tr'[u] = s  BY <1>1 DEF TypeOK, Turns
  <2> QED BY <2>1
<1>2. CASE u # t
  <2>1. tr'[u] = tr[u]  BY <1>2 DEF TypeOK, Turns
  <2>2. tr[u].status # iNextID
    <3>1. tr[u].status = None \/ tr[u].status < iNextID  BY DEF Numbered
    <3>2. iNextID \in Nat /\ iNextID # None /\ tr[u].status \in Ids \cup {None} /\ Ids \subseteq Nat
      BY Limits, ConstantsAssumption DEF TypeOK, Transaction
    <3> QED BY <3>1, <3>2
  <2>3. PICK j \in DOMAIN iCredentials : iCredentials[j] = iCredentials'[i]  BY <2>1, <2>2 DEF Stored
  <2> QED BY <2>1, <2>3 DEF Tried
<1> QED BY <1>1, <1>2

\* A request with new credentials: they are stored after what remains.
LEMMA NewCredentials ==
  ASSUME TypeOK, Numbered, Tried, NEW t \in Tx, NEW s, NEW d, Turns(t, s, d),
         NEW left, NEW password \in Passwords, Remains(left, Realm[s.uri]), s.uri \in Uris, Realm[s.uri] \in Realms,
         iCredentials' = Append(left, Entry(iNextID, Realm[s.uri], password)), iNextID' = iNextID + 1,
         s.status = iNextID, s.authorization = [realm |-> Realm[s.uri], password |-> password, uri |-> s.uri],
         asking' = None
  PROVE  Numbered' /\ Once' /\ Tried' /\ \A i \in DOMAIN left : left[i] \in Stored'
<1> DEFINE e == Entry(iNextID, Realm[s.uri], password)
           creds == Append(left, e)
           n == Len(left)
<1>1. e.id = iNextID /\ e.realm = Realm[s.uri] /\ e.password = password  BY DEF Entry
<1>2. iNextID \in Nat /\ Ids \subseteq Nat  BY Limits
<1>3. e \in Credentials  BY DEF TypeOK, Entry, Credentials
<1>4. left \in Seq(Credentials) /\ n \in Nat /\ DOMAIN left = 1 .. n  BY LenProperties DEF Remains
<1>5. /\ creds \in Seq(Credentials) /\ Len(creds) = n + 1 /\ DOMAIN creds = 1 .. n + 1
      /\ \A i \in 1 .. n : creds[i] = left[i]
      /\ creds[n + 1] = e
  BY <1>3, <1>4, AppendProperties, LenProperties
<1>6. \A i \in 1 .. n + 1 : i \in 1 .. n \/ i = n + 1  BY <1>4
<1>7. \A i \in 1 .. n : left[i] \in Stored /\ left[i].realm # Realm[s.uri]  BY <1>4 DEF Remains
<1>8. \A u \in Tx : tr'[u] = IF u = t THEN s ELSE tr[u]  BY DEF TypeOK, Turns
<1>9. iCredentials' = creds  OBVIOUS
<1> HIDE DEF e, creds, n
<1>10. Numbered'
  <2>1. ASSUME NEW i \in DOMAIN iCredentials'
        PROVE  iCredentials'[i].id < iNextID' /\ \E u \in Uris : Realm[u] = iCredentials'[i].realm
    <3>1. CASE i \in 1 .. n
      <4>1. creds[i] \in Stored  BY <1>5, <1>7, <3>1
      <4>2. PICK j \in DOMAIN iCredentials : iCredentials[j] = creds[i]  BY <4>1 DEF Stored
      <4>3. iCredentials[j].id < iNextID /\ \E u \in Uris : Realm[u] = iCredentials[j].realm  BY DEF Numbered
      <4>4. iCredentials[j].id \in Nat
        <5>1. iCredentials[j] \in Credentials  BY DEF TypeOK
        <5> QED BY <1>2, <5>1 DEF Credentials
      <4> QED BY <1>2, <1>9, <4>2, <4>3, <4>4
    <3>2. CASE i = n + 1  BY <1>1, <1>2, <1>5, <1>9, <3>2
    <3> QED BY <1>5, <1>6, <1>9, <3>1, <3>2
  <2>2. ASSUME NEW u \in Tx, tr'[u].status # None PROVE tr'[u].status < iNextID'
    <3>1. CASE u = t  BY <1>2, <1>8, <3>1
    <3>2. CASE u # t
      <4>1. tr'[u] = tr[u] /\ tr[u].status < iNextID  BY <1>8, <2>2, <3>2 DEF Numbered
      <4>2. tr[u].status \in Nat  BY <1>2, <2>2, <4>1 DEF TypeOK, Transaction
      <4> QED BY <1>2, <4>1, <4>2
    <3> QED BY <3>1, <3>2
  <2> QED BY <2>1, <2>2 DEF Numbered
<1>11. Once'
  <2>1. ASSUME NEW i \in DOMAIN iCredentials', NEW j \in DOMAIN iCredentials', iCredentials'[i].realm = iCredentials'[j].realm
        PROVE  i = j
    <3>1. CASE i \in 1 .. n /\ j \in 1 .. n  BY <1>4, <1>5, <1>9, <2>1, <3>1 DEF Remains
    <3>2. CASE i = n + 1 /\ j \in 1 .. n  BY <1>1, <1>5, <1>7, <1>9, <2>1, <3>2
    <3>3. CASE i \in 1 .. n /\ j = n + 1  BY <1>1, <1>5, <1>7, <1>9, <2>1, <3>3
    <3> QED BY <1>5, <1>6, <1>9, <3>1, <3>2, <3>3
  <2>2. \A u \in Tx : asking' # u  BY ConstantsAssumption
  <2> QED BY <2>1, <2>2 DEF Once
<1>12. Tried'
  <2>1. ASSUME NEW i \in DOMAIN iCredentials' PROVE iCredentials'[i] \in Stored \/ iCredentials'[i].id = iNextID
    BY <1>1, <1>5, <1>6, <1>7, <1>9
  <2>2. ASSUME NEW i \in DOMAIN iCredentials', iCredentials'[i].realm = Realm[s.uri] PROVE Carries(s, iCredentials'[i])
    <3>1. iCredentials'[i] = e  BY <1>5, <1>6, <1>7, <1>9, <2>2
    <3>2. s.authorization # None
      <4>1. s.authorization \in [realm : Realms, password : Passwords, uri : Uris]  OBVIOUS
      <4> QED BY <4>1, ConstantsAssumption
    <3> QED BY <1>1, <3>1, <3>2 DEF Carries
  <2> QED BY <2>1, <2>2, OthersTried
<1>13. \A i \in DOMAIN left : left[i] \in Stored'
  BY <1>4, <1>5, <1>6, <1>9 DEF Stored
<1> QED BY <1>10, <1>11, <1>12, <1>13

\* What a repeated request carries.
LEMMA SignedCarries ==
  ASSUME NEW r \in Transaction, NEW password, NEW id
  PROVE  /\ Signed(r, password, id).status = id /\ Signed(r, password, id).uri = r.uri
         /\ Signed(r, password, id).authorization = [realm |-> Realm[r.uri], password |-> password, uri |-> r.uri]
BY DEF Signed, WithQueue, Cancelled, WithAuthorization, Transaction

\* What a step forgets is wrong.
Forgets == \A c \in Stored \ Stored' : c.password # Right[c.realm]

\* In a host with one realm the credentials of the realm are found for the URI.
LEMMA SupplyCarries ==
  ASSUME OneBasicRealm, TypeOK, Numbered, Once, NEW u \in Uris,
         NEW k, k = FindCredentialsForURI(iCredentials, u),
         NEW i \in DOMAIN iCredentials, iCredentials[i].realm = Realm[u]
  PROVE  k = i /\ Scheme[iCredentials[k].realm] = "EBasic"
<1>1. iCredentials \in Seq(Credentials) /\ DOMAIN iCredentials = 1 .. Len(iCredentials)
  BY LenProperties DEF TypeOK
<1>2. \A j \in DOMAIN iCredentials : iCredentials[j].realm \in Realms
  <2>1. \A j \in DOMAIN iCredentials : iCredentials[j] \in Credentials  BY DEF TypeOK
  <2> QED BY <2>1 DEF Credentials
<1>3. \A realm \in Realms : (\E v \in Uris : Realm[v] = realm) =>
        \E v \in Uris : Realm[v] = realm /\ HostOf(realm) = Host[v]
  <2> SUFFICES ASSUME NEW realm \in Realms, \E v \in Uris : Realm[v] = realm
               PROVE  \E v \in Uris : Realm[v] = realm /\ HostOf(realm) = Host[v]
    OBVIOUS
  <2> DEFINE v == CHOOSE v \in Uris : Realm[v] = realm
  <2>1. v \in Uris /\ Realm[v] = realm  OBVIOUS
  <2>2. HostOf(realm) = Host[v]  BY DEF HostOf
  <2> QED BY <2>1, <2>2
<1>4. None \notin Realms  BY ConstantsAssumption
<1>5. HostOf(iCredentials[i].realm) = Host[u]
  <2>1. PICK v \in Uris : Realm[v] = iCredentials[i].realm /\ HostOf(iCredentials[i].realm) = Host[v]
    BY <1>2, <1>3
  <2> QED BY <1>2, <1>4, <2>1, ConstantsAssumption
<1>6. k # 0  BY <1>1, <1>5, CredentialsForURIFound
<1>7. k \in DOMAIN iCredentials /\ HostOf(iCredentials[k].realm) = Host[u]  BY <1>1, <1>6, CredentialsForURIFound
<1>8. iCredentials[k].realm = Realm[u]
  <2>1. \E v \in Uris : Realm[v] = iCredentials[k].realm  BY <1>7 DEF Numbered
  <2>2. PICK v \in Uris : Realm[v] = iCredentials[k].realm /\ HostOf(iCredentials[k].realm) = Host[v]
    BY <1>2, <1>3, <1>7, <2>1
  <2>3. Host[v] = Host[u] /\ Realm[v] # None /\ Realm[u] # None  BY <1>2, <1>4, <1>7, <2>2
  <2> QED BY <2>2, <2>3 DEF OneBasicRealm
<1> QED BY <1>2, <1>7, <1>8 DEF Once, OneBasicRealm

\* The credentials, in CAuthenticationFilter.
LEMMA AuthenticationCredentials ==
  ASSUME OneBasicRealm, IInv, Numbered, Once, Tried, NEW t \in Tx, Authentication(t)
  PROVE  Forgets /\ Numbered' /\ Once' /\ Tried'
<1> DEFINE r == tr[t]
           c == client[t]
<1>1. TypeOK /\ Places /\ Challenges  BY DEF IInv
<1>2. ASSUME iCredentials' = iCredentials PROVE Forgets  BY <1>2 DEF Forgets, Stored
<1>3. ASSUME Runs(t, "ESubmit", "EStatusCodeHandler+1"), Become(SupplyCredentials(w0, t)), Unasked
      PROVE  Forgets /\ Numbered' /\ Once' /\ Tried'
  <2>1. /\ asking = None /\ Placed(r, c, FALSE) /\ r \in Transaction /\ c \in Knowledge
        /\ r.queue # <<>> /\ Head(r.queue) = E("ESubmit", "EStatusCodeHandler+1")
    BY <1>1, <1>3, RunsPlaced
  <2>2. Leaves(r, c)  BY <2>1, FirstEvent
  <2> DEFINE k == FindCredentialsForURI(iCredentials, r.uri)
             o == Onward(r)
             signed == WithAuthorization(o, iCredentials[k].realm, iCredentials[k].password)
  <2>3. UNCHANGED <<iCredentials, iNextID>> /\ asking' = None  BY <1>1, <1>3, <2>1, SupplyCredentialsSteps DEF Unasked
  <2>4. o.status = r.status /\ o.uri = r.uri  BY <2>1 DEF Onward, Supplied, WithQueue, Transaction
  <2>5. /\ signed.status = r.status /\ signed.uri = r.uri
        /\ signed.authorization = [realm |-> iCredentials[k].realm, password |-> iCredentials[k].password, uri |-> r.uri]
    BY <2>1 DEF WithAuthorization, Onward, Supplied, WithQueue, Transaction
  <2>6. k # 0 => iCredentials[k] \in Credentials  BY <1>1, CredentialsForURIFound DEF TypeOK
  <2>7. r.uri \in Uris  BY <2>1 DEF Transaction
  <2>8. ASSUME NEW i \in DOMAIN iCredentials, iCredentials[i].realm = Realm[r.uri]
        PROVE  k = i /\ Scheme[iCredentials[k].realm] = "EBasic"
    BY <1>1, <2>7, <2>8, SupplyCarries
  <2>9. \/ ~(k # 0 /\ Scheme[iCredentials[k].realm] = "EBasic") /\ Turns(t, o, c)
        \/ k # 0 /\ Turns(t, signed, c)
    BY <1>1, <1>3, SupplyCredentialsSteps
  <2> HIDE DEF o, signed, k
  <2>10. ASSUME NEW s, Turns(t, s, c), s.status = r.status,
                \A i \in DOMAIN iCredentials : iCredentials[i].realm = Realm[s.uri] => Carries(s, iCredentials[i])
         PROVE  Forgets /\ Numbered' /\ Once' /\ Tried'
    <3>1. Tried'
      <4>1. \A i \in DOMAIN iCredentials' : iCredentials'[i] \in Stored  BY <2>3 DEF Stored
      <4> QED BY <1>1, <2>3, <2>10, <4>1, OthersTried
    <3>2. Numbered'
      <4>1. \A u \in Tx : tr'[u].status = tr[u].status  BY <1>1, <2>10 DEF TypeOK, Turns
      <4> QED BY <2>3, <4>1 DEF Numbered
    <3>3. Once'
      <4>1. \A u \in Tx : asking' # u  BY <2>3, ConstantsAssumption
      <4> QED BY <2>3, <4>1 DEF Once
    <3> QED BY <1>2, <2>3, <3>1, <3>2, <3>3
  <2>11. CASE ~(k # 0 /\ Scheme[iCredentials[k].realm] = "EBasic") /\ Turns(t, o, c)
    <3>1. \A i \in DOMAIN iCredentials : iCredentials[i].realm # Realm[o.uri]
      <4> SUFFICES ASSUME NEW i \in DOMAIN iCredentials, iCredentials[i].realm = Realm[r.uri] PROVE FALSE
        BY <2>4
      <4>1. k = i /\ Scheme[iCredentials[k].realm] = "EBasic"  BY <2>8
      <4>2. i # 0  BY <1>1, LenProperties DEF TypeOK
      <4> QED BY <2>11, <4>1, <4>2
    <3> QED BY <2>4, <2>10, <2>11, <3>1
  <2>12. CASE k # 0 /\ Turns(t, signed, c)
    <3>1. signed.authorization # None
      <4>1. iCredentials[k].realm \in Realms /\ iCredentials[k].password \in Passwords  BY <2>6, <2>12 DEF Credentials
      <4>2. signed.authorization \in [realm : Realms, password : Passwords, uri : Uris]  BY <2>5, <2>7, <4>1
      <4> QED BY <4>2, ConstantsAssumption
    <3>2. ASSUME NEW i \in DOMAIN iCredentials, iCredentials[i].realm = Realm[signed.uri]
          PROVE  Carries(signed, iCredentials[i])
      <4>1. k = i  BY <2>5, <2>8, <3>2
      <4> QED BY <2>5, <3>1, <4>1 DEF Carries
    <3> QED BY <2>5, <2>10, <2>12, <3>2
  <2> QED BY <2>9, <2>11, <2>12
<1>4. ASSUME Runs(t, "EGotResponseHeaders", "EStatusCodeHandler"), r.code = 401, Become(Challenge(w0, t)),
             asking' = IF Asks(t) THEN t ELSE None
      PROVE  Forgets /\ Numbered' /\ Once' /\ Tried'
  <2> DEFINE k == FindCredentials(iCredentials, Realm[r.uri])
             wrong == Wrong(w0, t, k)
             left == IF wrong THEN RemoveAt(iCredentials, k) ELSE iCredentials
             n == NoUser(r)
  <2>1. asking = None /\ r \in Transaction /\ c \in Knowledge /\ r.uri \in Uris /\ iCredentials \in Seq(Credentials)
    BY <1>1, <1>4 DEF Runs, TypeOK, Transaction
  <2>2. Challenged(r) /\ Sent(r)  BY <1>4 DEF Challenged, Sent, Runs, Headers
  <2>3. Realm[r.uri] \in Realms  BY <1>1, <2>2, RealmChallenged
  <2>4. k # 0 => k \in DOMAIN iCredentials /\ iCredentials[k] \in Credentials /\ iCredentials[k].realm = Realm[r.uri]
    BY <2>1, CredentialsFound
  <2>5. wrong \in BOOLEAN /\ (wrong => k # 0 /\ r.status = iCredentials[k].id)  BY DEF Wrong, w0
  <2>6. Asks(t) = ((k = 0 \/ wrong) /\ (r.status # None \/ r.user = None))  BY DEF Asks
  <2>7. n \in Transaction /\ n.uri = r.uri  BY <2>1, HeadersKept DEF Keeps
  <2>8. k = 0 \/ wrong =>
          /\ Remains(left, Realm[r.uri])
          /\ \A i \in DOMAIN iCredentials :
               (\E j \in DOMAIN left : left[j] = iCredentials[i]) \/ (wrong /\ i = k)
    BY <2>1, <2>5, LeftCredentials
  <2>9. wrong => iCredentials[k].password # Right[iCredentials[k].realm]
    <3> SUFFICES ASSUME wrong PROVE iCredentials[k].password # Right[iCredentials[k].realm]  OBVIOUS
    <3>1. Carries(r, iCredentials[k])  BY <2>2, <2>4, <2>5 DEF Tried
    <3>2. ~Granted(r)  BY <1>1, <2>2 DEF Challenges
    <3>3. Scheme[Realm[r.uri]] # "EDigest"  BY <2>3 DEF OneBasicRealm
    <3> QED BY <2>4, <2>5, <3>1, <3>2, <3>3 DEF Carries, Granted
  <2>10. ASSUME k = 0 \/ wrong, \A j \in DOMAIN left : left[j] \in Stored' PROVE Forgets
    <3> SUFFICES ASSUME NEW i \in DOMAIN iCredentials, iCredentials[i] \notin Stored'
                 PROVE  iCredentials[i].password # Right[iCredentials[i].realm]
      BY DEF Forgets, Stored
    <3> QED BY <2>8, <2>9, <2>10
  <2>11. \/ k # 0 /\ ~wrong /\ iCredentials' = iCredentials /\ iNextID' = iNextID
            /\ Turns(t, Signed(n, iCredentials[k].password, iCredentials[k].id), c)
         \/ /\ k = 0 \/ wrong
            /\ r.status = None /\ r.user # None
            /\ iNextID' = iNextID + 1
            /\ iCredentials' = Append(left, Entry(iNextID, Realm[r.uri], r.user))
            /\ Turns(t, Signed(n, r.user, iNextID), c)
         \/ /\ k = 0 \/ wrong
            /\ iCredentials' = left /\ iNextID' = iNextID /\ Turns(t, r, c)
    BY <1>1, <1>4, ChallengeSteps
  <2> HIDE DEF k, wrong, left, n
  <2>12. CASE k # 0 /\ ~wrong /\ iCredentials' = iCredentials /\ iNextID' = iNextID
              /\ Turns(t, Signed(n, iCredentials[k].password, iCredentials[k].id), c)
    <3> DEFINE s == Signed(n, iCredentials[k].password, iCredentials[k].id)
    <3>1. /\ s.status = iCredentials[k].id /\ s.uri = r.uri
          /\ s.authorization = [realm |-> Realm[r.uri], password |-> iCredentials[k].password, uri |-> r.uri]
      BY <2>7, SignedCarries
    <3>2. Carries(s, iCredentials[k])
      <4>1. iCredentials[k].password \in Passwords  BY <2>4, <2>12 DEF Credentials
      <4>2. s.authorization \in [realm : Realms, password : Passwords, uri : Uris]  BY <2>1, <2>3, <3>1, <4>1
      <4>3. s.authorization # None  BY <4>2, ConstantsAssumption
      <4> QED BY <2>4, <2>12, <3>1, <4>3 DEF Carries
    <3>3. Turns(t, s, c)  BY <2>12
    <3> HIDE DEF s
    <3>4. Tried'
      <4>1. \A i \in DOMAIN iCredentials' : iCredentials'[i] \in Stored  BY <2>12 DEF Stored
      <4>2. \A i \in DOMAIN iCredentials : iCredentials[i].realm = Realm[s.uri] => Carries(s, iCredentials[i])
        <5> SUFFICES ASSUME NEW i \in DOMAIN iCredentials, iCredentials[i].realm = Realm[s.uri]
                     PROVE  Carries(s, iCredentials[i])
          OBVIOUS
        <5>1. i = k  BY <2>4, <2>12, <3>1 DEF Once
        <5> QED BY <3>2, <5>1
      <4> QED BY <1>1, <2>12, <3>3, <4>1, <4>2, OthersTried
    <3>5. Numbered'
      <4>1. \A u \in Tx : tr'[u].status # None => tr'[u].status < iNextID
        BY <1>1, <2>4, <2>12, <3>1, <3>3 DEF TypeOK, Turns, Numbered
      <4> QED BY <2>12, <4>1 DEF Numbered
    <3>6. Once'
      <4>1. asking' = None
        <5>1. ~Asks(t)  BY <2>6, <2>12
        <5> QED BY <1>4, <5>1
      <4>2. \A u \in Tx : asking' # u  BY <4>1, ConstantsAssumption
      <4> QED BY <2>12, <4>2 DEF Once
    <3> QED BY <1>2, <2>12, <3>4, <3>5, <3>6
  <2>13. CASE /\ k = 0 \/ wrong
              /\ r.status = None /\ r.user # None
              /\ iNextID' = iNextID + 1
              /\ iCredentials' = Append(left, Entry(iNextID, Realm[r.uri], r.user))
              /\ Turns(t, Signed(n, r.user, iNextID), c)
    <3> DEFINE s == Signed(n, r.user, iNextID)
    <3>1. /\ s.status = iNextID /\ s.uri = r.uri
          /\ s.authorization = [realm |-> Realm[r.uri], password |-> r.user, uri |-> r.uri]
      BY <2>7, SignedCarries
    <3>2. r.user \in Passwords /\ asking' = None  BY <1>4, <2>1, <2>6, <2>13 DEF Transaction
    <3>3. Turns(t, s, c) /\ Remains(left, Realm[r.uri])  BY <2>8, <2>13
    <3> HIDE DEF s
    <3>4. Numbered' /\ Once' /\ Tried' /\ \A i \in DOMAIN left : left[i] \in Stored'
      BY <1>1, <2>1, <2>3, <2>13, <3>1, <3>2, <3>3, NewCredentials
    <3> QED BY <2>10, <2>13, <3>4
  <2>14. CASE /\ k = 0 \/ wrong
              /\ iCredentials' = left /\ iNextID' = iNextID /\ Turns(t, r, c)
    <3>1. Forgets  BY <2>10, <2>14 DEF Stored
    <3>2. \A u \in Tx : tr'[u] = tr[u] /\ client'[u] = client[u]  BY <1>1, <2>14 DEF TypeOK, Turns
    <3>3. \A i \in DOMAIN left : \E j \in DOMAIN iCredentials : left[i] = iCredentials[j]
      BY <2>8, <2>14 DEF Remains, Stored
    <3>4. Numbered'
      <4>1. \A i \in DOMAIN left : left[i].id < iNextID /\ \E u \in Uris : Realm[u] = left[i].realm
        BY <3>3 DEF Numbered
      <4> QED BY <2>14, <3>2, <4>1 DEF Numbered
    <3>5. Once'
      <4>1. asking' \in {t, None} /\ (\A u \in Tx : asking' = u => u = t)  BY <1>4, ConstantsAssumption
      <4>2. tr'[t].uri = r.uri  BY <3>2
      <4>3. Remains(left, Realm[r.uri])  BY <2>8, <2>14
      <4>4. \A i \in DOMAIN left : left[i].realm # Realm[r.uri]  BY <4>3 DEF Remains
      <4>5. \A i, j \in DOMAIN left : left[i].realm = left[j].realm => i = j  BY <4>3 DEF Remains
      <4> QED BY <2>14, <4>1, <4>2, <4>4, <4>5 DEF Once
    <3>6. Tried'
      <4> SUFFICES ASSUME NEW u \in Tx, Sent(tr'[u]), NEW i \in DOMAIN left,
                          left[i].id = tr'[u].status, left[i].realm = Realm[tr'[u].uri]
                   PROVE  Carries(tr'[u], left[i])
        BY <2>14 DEF Tried, Sent, Carries
      <4> QED BY <3>2, <3>3 DEF Tried
    <3> QED BY <3>1, <3>4, <3>5, <3>6
  <2> QED BY <2>11, <2>12, <2>13, <2>14
<1> QED BY <1>3, <1>4 DEF Authentication

\* The credentials, when the question to the user returns.
LEMMA UserCredentials ==
  ASSUME IInv, Numbered, Once, Tried, NEW t \in Tx, UserAnswers(t) \/ UserRefuses(t) \/ UserFails(t)
  PROVE  Forgets /\ Numbered' /\ Once' /\ Tried'
<1> DEFINE r == tr[t]
           c == client[t]
<1>1. TypeOK /\ Places /\ Challenges /\ r \in Transaction /\ c \in Knowledge /\ iCredentials \in Seq(Credentials)
  BY DEF IInv, TypeOK
<1>2. asking = t /\ asking' = None /\ \A u \in Tx : asking' # u
  BY ConstantsAssumption DEF UserAnswers, UserRefuses, UserFails
<1>3. Closed(r, c) \/ (Returns(r, c) /\ r.code = 401)
  <2>1. (asking = t) = TRUE  BY <1>2
  <2>2. Placed(r, c, asking = t)  BY <1>1 DEF Places
  <2> QED BY <2>1, <2>2 DEF Placed
<1>4. ASSUME UNCHANGED <<iCredentials, iNextID>>, NEW s, NEW d, Turns(t, s, d), Carried(r, s), s.status = r.status
      PROVE  Forgets /\ Numbered' /\ Once' /\ Tried'
  <2>1. Numbered' /\ Once' /\ Tried'  BY <1>1, <1>2, <1>4, QuietCredentials
  <2>2. Forgets  BY <1>4 DEF Forgets, Stored
  <2> QED BY <2>1, <2>2
<1>5. Carried(r, r)  BY DEF Carried, Alike
<1>6. CASE UserAnswers(t)
  <2>1. PICK password \in Passwords :
          Become(IF client[t].life = "closed" THEN w0 ELSE Resubmit(w0, t, password, 0))
    BY <1>6 DEF UserAnswers
  <2>2. CASE c.life = "closed"
    <3>1. Turns(t, r, c) /\ UNCHANGED <<iCredentials, iNextID>>  BY <1>1, <2>1, <2>2, UserAnswersSteps
    <3> QED BY <1>4, <1>5, <3>1
  <2>3. CASE c.life # "closed"
    <3> DEFINE s == Signed(r, password, iNextID)
    <3>1. /\ iCredentials' = Append(iCredentials, Entry(iNextID, Realm[r.uri], password))
          /\ iNextID' = iNextID + 1 /\ Turns(t, s, c)
      BY <1>1, <2>1, <2>3, UserAnswersSteps
    <3>2. Returns(r, c) /\ r.code = 401  BY <1>3, <2>3 DEF Closed
    <3>3. Challenged(r)  BY <3>2, Queues DEF Returns, Challenged
    <3>4. Realm[r.uri] \in Realms /\ r.uri \in Uris  BY <1>1, <3>3, RealmChallenged DEF Transaction
    <3>5. Remains(iCredentials, Realm[r.uri])
      <4>1. \A i \in DOMAIN iCredentials : iCredentials[i].realm # Realm[r.uri]  BY <1>2, <2>3 DEF Once
      <4>2. \A i, j \in DOMAIN iCredentials : iCredentials[i].realm = iCredentials[j].realm => i = j  BY DEF Once
      <4>3. \A i \in DOMAIN iCredentials : iCredentials[i] \in Stored  BY DEF Stored
      <4> QED BY <1>1, <4>1, <4>2, <4>3 DEF Remains
    <3>6. /\ s.status = iNextID /\ s.uri = r.uri
          /\ s.authorization = [realm |-> Realm[r.uri], password |-> password, uri |-> r.uri]
      BY <1>1, SignedCarries
    <3> HIDE DEF s
    <3>7. Numbered' /\ Once' /\ Tried' /\ \A i \in DOMAIN iCredentials : iCredentials[i] \in Stored'
      BY <1>1, <1>2, <3>1, <3>4, <3>5, <3>6, NewCredentials
    <3>8. Forgets  BY <3>7 DEF Forgets, Stored
    <3> QED BY <3>7, <3>8
  <2> QED BY <2>2, <2>3
<1>7. CASE UserRefuses(t)
  <2>1. UNCHANGED <<iCredentials, iNextID>>  BY <1>1, <1>7, UserRefusesSteps
  <2>2. CASE r.queue = <<>>
    <3>1. Turns(t, r, c)  BY <1>1, <1>7, <2>2, UserRefusesSteps
    <3> QED BY <1>4, <1>5, <2>1, <3>1
  <2>3. CASE r.queue # <<>>
    <3> DEFINE s == WithQueue(r, Tail(r.queue))
    <3>1. Turns(t, s, c)  BY <1>1, <1>7, <2>3, UserRefusesSteps
    <3>2. Sent(r)  BY <1>3, <2>3, NotSent DEF Closed
    <3>3. Alike(r, s)  BY <1>1, OperationsAlike
    <3>4. Carried(r, s) /\ s.status = r.status  BY <3>2, <3>3 DEF Carried, Alike
    <3> HIDE DEF s
    <3> QED BY <1>4, <2>1, <3>1, <3>4
  <2> QED BY <2>2, <2>3
<1>8. CASE UserFails(t)
  <2>1. UNCHANGED <<iCredentials, iNextID>>  BY <1>1, <1>8, UserFailsSteps
  <2>2. CASE c.life = "closed"
    <3>1. Turns(t, r, c)  BY <1>1, <1>8, <2>2, UserFailsSteps
    <3> QED BY <1>4, <1>5, <2>1, <3>1
  <2>3. CASE c.life # "closed"
    <3> DEFINE s == Cancelled(r)
    <3>1. Turns(t, s, Ended(c, "EFailed"))  BY <1>1, <1>8, <2>3, UserFailsSteps
    <3>2. Rests(s, Ended(c, "EFailed"))  BY <1>1, <1>3, <2>3, PlaceUnanswered DEF Closed
    <3>3. Carried(r, s) /\ s.status = r.status  BY <1>1, <3>2, NotSent, OperationsAlike DEF Carried, Alike
    <3> HIDE DEF s
    <3> QED BY <1>4, <2>1, <3>1, <3>3
  <2> QED BY <2>2, <2>3
<1> QED BY <1>6, <1>7, <1>8

\* Every step keeps the credentials right, and forgets wrong ones only.
LEMMA CredentialsInductively ==
  ASSUME Env = {}, OneBasicRealm, IInvCredentials, [Next]_vars
  PROVE  IInvCredentials' /\ Forgets
<1>1. IInv /\ Numbered /\ Once /\ Tried  BY DEF IInvCredentials
<1>2. IInv'  BY <1>1, Inductively
<1>3. CredentialsStay => Forgets /\ Numbered' /\ Once' /\ Tried'  BY DEF CredentialsStay, Forgets, Stored
<1>4. CASE UNCHANGED vars
  <2>1. UNCHANGED <<tr, iCredentials, iNextID, asking, client, answers>>  BY <1>4 DEF vars
  <2>2. Numbered' /\ Once'  BY <1>1, <2>1 DEF Numbered, Once
  <2>3. Tried'  BY <1>1, <2>1 DEF Tried, Sent, Carries
  <2> QED BY <1>2, <2>1, <2>2, <2>3 DEF IInvCredentials, Forgets, Stored
<1>5. ASSUME NEW t \in Tx, Validation(t) PROVE CredentialsStay
  BY <1>1, <1>5, ValidationCredentials
<1>6. ASSUME NEW t \in Tx, Redirection(t) PROVE CredentialsStay
  BY <1>1, <1>6, RedirectionCredentials
<1>7. ASSUME NEW t \in Tx, Authentication(t) PROVE Forgets /\ Numbered' /\ Once' /\ Tried'
  BY <1>1, <1>7, AuthenticationCredentials
<1>8. ASSUME NEW t \in Tx, Submitted(t) \/ ClientRuns(t) PROVE CredentialsStay
  BY <1>1, <1>8, HandlerCredentials
<1>9. ASSUME NEW t \in Tx, Answer(t) \/ Complete(t) \/ Breaks(t) PROVE CredentialsStay
  BY <1>1, <1>9, ServerCredentials
<1>10. ASSUME NEW t \in Tx, ClientSubmits(t) \/ ClientConfirms(t) \/ ClientCancels(t) \/ ClientCloses(t)
       PROVE  CredentialsStay
  BY <1>1, <1>10, ClientCredentials
<1>11. ASSUME NEW t \in Tx, UserAnswers(t) \/ UserRefuses(t) \/ UserFails(t)
       PROVE  Forgets /\ Numbered' /\ Once' /\ Tried'
  BY <1>1, <1>11, UserCredentials
<1>12. Forgets /\ Numbered' /\ Once' /\ Tried'
  BY <1>3, <1>4, <1>5, <1>6, <1>7, <1>8, <1>9, <1>10, <1>11 DEF Next, IInvCredentials
<1> QED BY <1>2, <1>12 DEF IInvCredentials

\* They are right at the start.
LEMMA CredentialsInitially == Init => IInvCredentials
<1> SUFFICES ASSUME Init PROVE IInvCredentials  OBVIOUS
<1>1. IInv  BY Initially
<1>2. iCredentials = <<>> /\ iNextID = 0 /\ \A t \in Tx : tr[t].status = None
  BY DEF Init, NewTransaction
<1>3. \A i \in DOMAIN iCredentials : FALSE  BY <1>2
<1> QED BY <1>1, <1>2, <1>3 DEF IInvCredentials, Numbered, Once, Tried

\* Credentials are forgotten only when they are wrong, and there is one for a realm:
\* in a host with one realm and basic credentials (see Forgotten).
THEOREM ForgetsTheWrongOnes ==
  ASSUME Env = {}, OneBasicRealm
  PROVE  Spec => Forgotten
<1>1. Init => IInvCredentials  BY CredentialsInitially
<1>2. IInvCredentials /\ [Next]_vars => IInvCredentials'  BY CredentialsInductively
<1>3. IInvCredentials /\ IInvCredentials' /\ [Next]_vars =>
        [/\ \A c \in Stored \ Stored' : c.password # Right[c.realm]
         /\ \A i, j \in DOMAIN iCredentials' :
              iCredentials'[i].realm = iCredentials'[j].realm => i = j]_vars
  BY CredentialsInductively DEF IInvCredentials, Forgets, Once
<1> QED BY <1>1, <1>2, <1>3, PTL DEF Spec, Forgotten
=============================================================================
