----------------------- MODULE HttpTransactionProofs -----------------------
(***************************************************************************)
(* Theorems about the events of HTTP transactions, for any number of       *)
(* transactions, any chain of filters and any bounds.                      *)
(***************************************************************************)
EXTENDS HttpTransaction, FiniteSetTheorems, WellFoundedInduction, TLAPS

-----------------------------------------------------------------------------
(* The inductive invariant: T the transactions, b the blocking state, s the
   stack *)

Frame == AsyncFrame \cup SyncFrame
IsSync(x) == x.kind = "sync"

\* The event a failure is told with; only these two reach the client inside of
\* a synchronous event.
Fails(x) == IsSync(x) /\ x.ev \in {"EUnrecoverableError", "EFailed"}

\* At the bottom the RunL of the only transaction that is in one, the only call a
\* nested scheduler may be in; on top of it a synchronous event, and on top of
\* that another one, which the client has asked for when it was told of a failure.
Lined(s) ==
  \A i \in DOMAIN s :
    /\ ~IsSync(s[i]) => i = 1
    /\ s[i].nested => s[i].kind = "run"
    /\ IsSync(s[i]) /\ i < Len(s) =>
         Fails(s[i]) /\ s[i].op = "fail" /\ s[i].turn = "in" /\ s[i].f = Client
    /\ i > 1 /\ IsSync(s[i]) /\ IsSync(s[i - 1]) =>
         /\ s[i].op # "fail"
         /\ s[i].t = s[i - 1].t => s[i].op = "close" /\ s[1].t = s[i].t /\ ~IsSync(s[1])

\* The calls of a transaction, and whether one is its RunL.
Mine(s, t) == {i \in DOMAIN s : s[i].t = t}
Runs(s, t) == \E i \in Mine(s, t) : ~IsSync(s[i])

\* The transaction is in no call.
Resting(r) ==
  /\ ~r.sync
  /\ r.life = "open" =>
       /\ r.status \in {"EPassive", "EFilter", "EBlocked"}
       /\ r.active <=> r.status = "EFilter"
       /\ r.queue = <<>> <=> r.status = "EPassive"
       /\ r.status # "EPassive" => r.next \in Filters
  /\ r.life # "closed"

\* It is in its RunL, and nothing is sent synchronously.
InRunL(r, x) ==
  /\ ~r.sync /\ ~r.active
  /\ r.life = "open" => /\ r.status \in {"EInFilter", "ECancelled"}
                        /\ r.status = "EInFilter" => r.queue # <<>>
  /\ r.life = "closed" => r.status = "EExiting"
  /\ r.life # "deleted"

\* The local variables of a call of SynchronousSendEvent: a says whether the
\* transaction is in its RunL.
Stored(x, a) ==
  /\ x.s \in (IF a THEN {"EInFilter", "ECancelled"} ELSE {"EPassive", "EFilter", "EBlocked"})
  /\ x.ev # "ECancel" => x.s \in {"ECancelled", "EPassive"}
  /\ x.handle = ECurrentFilter => a
  /\ x.ev = "EClosed" => x.saved = x.s
  /\ <<x.op, x.ev>> \in {<<"cancel", "ECancel">>, <<"close", "ECancel">>, <<"close", "EClosed">>,
                         <<"fail", "ECancel">>, <<"fail", "EUnrecoverableError">>, <<"fail", "EFailed">>,
                         <<"cipher", "EGetCipherSuite">>}

\* The protocol handler has not been told yet.
Ahead(r, x) == /\ x.ev = "ECancel"
               /\ IF x.turn = "first" THEN r.syncEvent.start = Client ELSE r.next > 0

\* A synchronous event is on its way.
InSync(r, x, a) ==
  /\ ~r.active /\ r.queue = <<>>
  /\ r.life = "open" =>
       /\ r.sync
       /\ x.turn = "first" => r.status = "EPassive"
       /\ x.turn = "in" => r.status = "EInFilter" /\ r.next = x.f
       /\ x.turn = "next" => r.status = "EFilter"
       /\ x.turn # "first" => r.next \in Filters
       /\ ~Fails(x) => r.syncEvent.ev = x.ev /\ (x.turn # "first" => r.next < Client)
       /\ x.op = "close" => (r.atHandler => Ahead(r, x))
  /\ r.life = "closed" => /\ r.status = "EExiting" /\ ~r.sync /\ a
                          /\ Fails(x) /\ x.turn \in {"in", "next"}
  /\ r.life # "deleted"

Fits(t, r, s) ==
  /\ r.life # "open" => ~r.atHandler /\ ~r.active /\ r.status # "EBlocked"
  /\ Mine(s, t) = {} => Resting(r)
  /\ \A i \in Mine(s, t) :
       /\ IsSync(s[i]) => Stored(s[i], Runs(s, t))
       /\ (\A j \in Mine(s, t) : j <= i) =>
            IF IsSync(s[i]) THEN InSync(r, s[i], Runs(s, t)) ELSE InRunL(r, s[i])

Good(T, b, s) ==
  /\ T \in [Tx -> Transaction] /\ b \in Blocking /\ s \in Seq(Frame)
  /\ Lined(s)
  /\ (b # "ENormal") <=> (s # <<>> /\ ~IsSync(s[1]))
  /\ \A t \in Tx : T[t].status = "EBlocked" => b = "EHasBlocked"
  /\ \A t \in Tx : Fits(t, T[t], s)

IInv == Good(tr, blocking, stack) /\ sends \in 0 .. MaxSends /\ panic = {}

-----------------------------------------------------------------------------
(* Types *)

\* The function f with another value at i, and a world in which no assertion failed.
Upd(f, i, x) == [f EXCEPT ![i] = x]
W(T, b, s, n) == [tr |-> T, blocking |-> b, stack |-> s, panic |-> {}, sends |-> n]

\* An updated function.
LEMMA UpdTyped ==
  ASSUME NEW S, NEW R, NEW f \in [S -> R], NEW i \in S, NEW x \in R
  PROVE  Upd(f, i, x) \in [S -> R] /\ Upd(f, i, x)[i] = x /\ \A j \in S : j # i => Upd(f, i, x)[j] = f[j]
BY DEF Upd

\* The chain has a first and a last filter.
LEMMA ChainEnds ==
  /\ Client \in Int /\ 0 \in Filters /\ Client \in Filters /\ Client > 0
  /\ \A f : f \in Filters <=> f \in Int /\ 0 <= f /\ f <= Client
BY ConstantsAssumption DEF Filters

\* A call is a run of RunL or a call of SynchronousSendEvent.
LEMMA FrameKinds ==
  ASSUME NEW x \in Frame
  PROVE  /\ x.t \in Tx /\ x.f \in Filters /\ x.nested \in BOOLEAN
         /\ IsSync(x) => x \in SyncFrame
         /\ ~IsSync(x) => x \in AsyncFrame
BY DEF Frame, AsyncFrame, SyncFrame, IsSync

\* The members of a transaction, and the local variables of a call.
LEMMA TransactionFields ==
  ASSUME NEW r \in Transaction
  PROVE  /\ r.status \in States /\ r.active \in BOOLEAN /\ r.queue \in Seq(Event) /\ r.sync \in BOOLEAN
         /\ r.syncEvent \in Event /\ r.next \in Int /\ r.current \in Filters /\ r.asyncFilter \in Filters
         /\ r.life \in Lives /\ r.atHandler \in BOOLEAN /\ r.cipher \in BOOLEAN
BY DEF Transaction

\* The members of an event.
LEMMA EventFields ==
  ASSUME NEW e \in Event
  PROVE  e.ev \in Events /\ e.start \in Filters /\ e.seen \in Seq(Filters)
BY DEF Event

-----------------------------------------------------------------------------
(* The chain of filters *)

\* A set of natural numbers that is not empty has a least one.
LEMMA Least ==
  ASSUME NEW S, S \subseteq Nat, S # {}
  PROVE  \E x \in S : \A y \in S : x <= y
<1>1. PICK x \in S : \A y \in S : ~(<<y, x>> \in OpToRel(<, Nat))
  BY NatLessThanWellFounded, WFMin
<1>2. \A y \in S : x <= y
  <2> SUFFICES ASSUME NEW y \in S, ~(x <= y) PROVE FALSE  OBVIOUS
  <2>1. y < x /\ x \in Nat /\ y \in Nat  OBVIOUS
  <2>2. <<y, x>> \in OpToRel(<, Nat)  BY <2>1, Zenon DEF OpToRel
  <2> QED BY <1>1, <2>2
<1> QED BY <1>2

\* There is a first filter among those that want an event.
LEMMA FirstOnward ==
  ASSUME NEW ev, NEW f \in Int, Onward(ev, f) # {}
  PROVE  First(ev, f) \in Onward(ev, f) /\ \A h \in Onward(ev, f) : Beyond(ev, First(ev, f), h)
<1> DEFINE S == Onward(ev, f)
<1>1. S \subseteq Filters  BY DEF Onward
<1>2. CASE Direction(ev) = "out"
  <2> DEFINE N == {Client - g : g \in S}
  <2>1. N \subseteq Nat /\ N # {}  BY <1>1, ChainEnds
  <2>3. PICK m \in N : \A n \in N : m <= n  BY <2>1, Least
  <2>4. PICK g \in S : m = Client - g  OBVIOUS
  <2>5. \A h \in S : Beyond(ev, g, h)
    <3> SUFFICES ASSUME NEW h \in S PROVE h <= g  BY <1>2 DEF Beyond
    <3>1. Client - h \in N  OBVIOUS
    <3>2. m <= Client - h  BY <2>3, <3>1
    <3> QED BY <1>1, <2>4, <3>2, ChainEnds
  <2> QED BY <2>5 DEF First
<1>3. CASE Direction(ev) # "out"
  <2>1. S \subseteq Nat  BY <1>1, ChainEnds
  <2>2. PICK g \in S : \A h \in S : g <= h  BY <2>1, Least
  <2>3. \A h \in S : Beyond(ev, g, h)
    <3> SUFFICES ASSUME NEW h \in S PROVE h >= g  BY <1>3 DEF Beyond
    <3> QED BY <2>1, <2>2
  <2> QED BY <2>3 DEF First
<1> QED BY <1>2, <1>3

\* It is a filter, and not the client when the event is outgoing.
LEMMA FirstIs ==
  ASSUME NEW ev, NEW x \in Filters, Onward(ev, Step(ev, x)) # {}
  PROVE  /\ First(ev, Step(ev, x)) \in Filters /\ ev \in Registered[First(ev, Step(ev, x))]
         /\ ev \in Outgoing => First(ev, Step(ev, x)) < x
<1> DEFINE f == Step(ev, x)
<1>1. x \in Int  BY ChainEnds
<1>2. f \in Int  BY <1>1 DEF Step
<1>3. First(ev, f) \in Onward(ev, f)  BY <1>2, FirstOnward
<1>4. First(ev, f) \in Filters /\ Beyond(ev, f, First(ev, f)) /\ ev \in Registered[First(ev, f)]  BY <1>3 DEF Onward
<1>5. ASSUME ev \in Outgoing PROVE First(ev, f) < x
  <2>1. First(ev, f) <= f /\ f = x - 1  BY <1>4, <1>5 DEF Beyond, Direction, Step
  <2> QED BY <1>1, <1>4, <2>1, ChainEnds
<1> QED BY <1>4, <1>5

\* The protocol handler is at the end of every outgoing path.
LEMMA HandlerOnward ==
  ASSUME NEW ev \in Outgoing, NEW x \in Filters, x > 0
  PROVE  0 \in Onward(ev, Step(ev, x))
<1>1. x \in Int  BY ChainEnds
<1>2. Step(ev, x) = x - 1 /\ Direction(ev) = "out"  BY DEF Step, Direction
<1>3. ev \in Registered[0]  BY ConstantsAssumption DEF Events
<1> QED BY <1>1, <1>2, <1>3, ChainEnds DEF Onward, Beyond

-----------------------------------------------------------------------------
(* The stack *)

\* The calls of t are the same in z as in s.
SameCalls(s, z, t) == Mine(z, t) = Mine(s, t) /\ \A i \in Mine(s, t) : z[i] = s[i]

\* A stack without its top, and with another top.
Cut(s) == SubSeq(s, 1, Len(s) - 1)
Topped(s, x) == [s EXCEPT ![Len(s)] = x]

\* What Fits says does not depend on the calls of others.
LEMMA SameFits ==
  ASSUME NEW t, NEW r, NEW s, NEW z, SameCalls(s, z, t), Fits(t, r, s)
  PROVE  Fits(t, r, z)
<1>1. Mine(z, t) = Mine(s, t) /\ \A i \in Mine(s, t) : z[i] = s[i]  BY DEF SameCalls
<1>2. Runs(z, t) = Runs(s, t)  BY <1>1 DEF Runs
<1> QED BY <1>1, <1>2 DEF Fits

\* A call is pushed.
LEMMA AppendIs ==
  ASSUME NEW s \in Seq(Frame), NEW x \in Frame
  PROVE  /\ Append(s, x) \in Seq(Frame) /\ Len(Append(s, x)) = Len(s) + 1
         /\ DOMAIN Append(s, x) = DOMAIN s \cup {Len(s) + 1} /\ Len(s) + 1 \notin DOMAIN s
         /\ Append(s, x)[Len(s) + 1] = x
         /\ \A i \in DOMAIN s : Append(s, x)[i] = s[i] /\ i \in 1 .. Len(s)
         /\ Len(s) \in Nat /\ DOMAIN s = 1 .. Len(s)
OBVIOUS

\* The top of the stack is popped.
LEMMA CutIs ==
  ASSUME NEW s \in Seq(Frame), s # <<>>
  PROVE  /\ Cut(s) \in Seq(Frame) /\ Len(Cut(s)) = Len(s) - 1
         /\ DOMAIN Cut(s) = DOMAIN s \ {Len(s)} /\ Len(s) \in DOMAIN s
         /\ \A i \in DOMAIN Cut(s) : Cut(s)[i] = s[i]
         /\ Len(s) \in Nat /\ DOMAIN s = 1 .. Len(s)
<1>1. Len(s) \in Nat /\ DOMAIN s = 1 .. Len(s) /\ Len(s) > 0  OBVIOUS
<1>2. Len(s) - 1 \in Nat /\ 1 .. Len(s) - 1 \subseteq DOMAIN s  BY <1>1
<1>3. Cut(s) = [i \in 1 .. Len(s) - 1 |-> s[i]]  BY <1>1, <1>2 DEF Cut
<1>4. \A i \in 1 .. Len(s) - 1 : s[i] \in Frame  BY <1>2
<1>5. Cut(s) \in Seq(Frame) /\ Len(Cut(s)) = Len(s) - 1 /\ DOMAIN Cut(s) = 1 .. Len(s) - 1
  BY <1>2, <1>3, <1>4
<1> QED BY <1>1, <1>3, <1>5

\* The top of the stack is replaced.
LEMMA ToppedIs ==
  ASSUME NEW s \in Seq(Frame), s # <<>>, NEW x \in Frame
  PROVE  /\ Topped(s, x) \in Seq(Frame) /\ Len(Topped(s, x)) = Len(s)
         /\ DOMAIN Topped(s, x) = DOMAIN s /\ Len(s) \in DOMAIN s
         /\ Topped(s, x)[Len(s)] = x
         /\ \A i \in DOMAIN s : i # Len(s) => Topped(s, x)[i] = s[i]
         /\ Len(s) \in Nat /\ DOMAIN s = 1 .. Len(s)
BY DEF Topped

\* The top is pushed, popped or replaced: the others have the same calls.
LEMMA AppendOthers ==
  ASSUME NEW s \in Seq(Frame), NEW x \in Frame, NEW u, u # x.t
  PROVE  SameCalls(s, Append(s, x), u)
BY AppendIs DEF SameCalls, Mine

\* The top is popped.
LEMMA CutOthers ==
  ASSUME NEW s \in Seq(Frame), s # <<>>, NEW u, u # s[Len(s)].t
  PROVE  SameCalls(s, Cut(s), u)
BY CutIs DEF SameCalls, Mine

\* The top is replaced by a call of the same transaction.
LEMMA ToppedOthers ==
  ASSUME NEW s \in Seq(Frame), s # <<>>, NEW x \in Frame, x.t = s[Len(s)].t, NEW u, u # x.t
  PROVE  SameCalls(s, Topped(s, x), u)
<1> DEFINE z == Topped(s, x)
<1>1. /\ DOMAIN z = DOMAIN s /\ z[Len(s)] = x /\ \A i \in DOMAIN s : i # Len(s) => z[i] = s[i]
  BY ToppedIs
<1> HIDE DEF z
<1>2. \A i \in DOMAIN s : z[i].t = u <=> s[i].t = u  BY <1>1
<1>3. Mine(z, u) = Mine(s, u)  BY <1>1, <1>2 DEF Mine
<1>4. ASSUME NEW i \in Mine(s, u) PROVE z[i] = s[i]
  <2>1. i \in DOMAIN s /\ s[i].t = u  BY DEF Mine
  <2>2. i # Len(s)  BY <2>1
  <2> QED BY <1>1, <2>1, <2>2
<1> QED BY <1>3, <1>4 DEF SameCalls, z

\* The call at the top of the stack is the last one of its transaction.
LEMMA TopIsMine ==
  ASSUME NEW T, NEW b, NEW s, Good(T, b, s), s # <<>>
  PROVE  LET x == s[Len(s)] IN
         /\ x \in Frame /\ x.t \in Tx /\ Len(s) \in Mine(s, x.t) /\ \A j \in Mine(s, x.t) : j <= Len(s)
         /\ T[x.t] \in Transaction
         /\ IsSync(x) => InSync(T[x.t], x, Runs(s, x.t)) /\ Stored(x, Runs(s, x.t))
         /\ ~IsSync(x) => InRunL(T[x.t], x) /\ Len(s) = 1 /\ s = <<x>> /\ Mine(s, x.t) = {1} /\ b # "ENormal"
<1> DEFINE x == s[Len(s)]
<1>1. s \in Seq(Frame) /\ T \in [Tx -> Transaction] /\ Lined(s)  BY DEF Good
<1>2. Len(s) \in DOMAIN s /\ x \in Frame /\ DOMAIN s = 1 .. Len(s) /\ Len(s) \in Nat  BY <1>1
<1>3. x.t \in Tx  BY <1>2, FrameKinds
<1>4. Len(s) \in Mine(s, x.t) /\ \A j \in Mine(s, x.t) : j <= Len(s)  BY <1>2 DEF Mine
<1>5. Fits(x.t, T[x.t], s)  BY <1>3 DEF Good
<1>6. ASSUME IsSync(x) PROVE InSync(T[x.t], x, Runs(s, x.t)) /\ Stored(x, Runs(s, x.t))
  BY <1>4, <1>5, <1>6 DEF Fits
<1>7. ASSUME ~IsSync(x) PROVE InRunL(T[x.t], x) /\ Len(s) = 1 /\ s = <<x>> /\ Mine(s, x.t) = {1} /\ b # "ENormal"
  <2>1. InRunL(T[x.t], x)  BY <1>4, <1>5, <1>7 DEF Fits
  <2>2. Len(s) = 1  BY <1>1, <1>2, <1>7 DEF Lined
  <2>3. s = <<x>>  BY <1>1, <2>2
  <2>4. Mine(s, x.t) = {1}  BY <1>2, <2>2 DEF Mine
  <2>5. b # "ENormal"  BY <1>7, <2>2 DEF Good
  <2> QED BY <2>1, <2>2, <2>3, <2>4, <2>5
<1> QED BY <1>1, <1>2, <1>3, <1>4, <1>6, <1>7

\* One transaction is written.
LEMMA UpdTransaction ==
  ASSUME NEW T \in [Tx -> Transaction], NEW t \in Tx, NEW r \in Transaction
  PROVE  /\ Upd(T, t, r) \in [Tx -> Transaction] /\ Upd(T, t, r)[t] = r
         /\ \A u \in Tx : u # t => Upd(T, t, r)[u] = T[u]
BY DEF Upd

\* One transaction and the calls of that one have changed.
LEMMA GoodStep ==
  ASSUME NEW T, NEW b, NEW s, Good(T, b, s), NEW t \in Tx, NEW r \in Transaction, NEW c \in Blocking,
         NEW z \in Seq(Frame), Lined(z), (c # "ENormal") <=> (z # <<>> /\ ~IsSync(z[1])),
         \A u \in Tx : u # t => SameCalls(s, z, u),
         b = "EHasBlocked" \/ r.status = "EBlocked" => c = "EHasBlocked", Fits(t, r, z)
  PROVE  Good(Upd(T, t, r), c, z)
<1>1. T \in [Tx -> Transaction]  BY DEF Good
<1>2. Upd(T, t, r) \in [Tx -> Transaction] /\ Upd(T, t, r)[t] = r /\ \A u \in Tx : u # t => Upd(T, t, r)[u] = T[u]
  BY <1>1, UpdTransaction
<1>3. \A u \in Tx : Upd(T, t, r)[u].status = "EBlocked" => c = "EHasBlocked"
  BY <1>2 DEF Good
<1>4. \A u \in Tx : Fits(u, Upd(T, t, r)[u], z)
  <2> SUFFICES ASSUME NEW u \in Tx, u # t PROVE Fits(u, Upd(T, t, r)[u], z)  BY <1>2
  <2>1. Fits(u, T[u], s)  BY DEF Good
  <2> QED BY <1>2, <2>1, SameFits
<1> QED BY <1>2, <1>3, <1>4 DEF Good

-----------------------------------------------------------------------------
(* Pushing and popping calls *)

\* A synchronous event may be begun here.
Pushable(s, x) ==
  s # <<>> /\ IsSync(s[Len(s)]) =>
    /\ Fails(s[Len(s)]) /\ s[Len(s)].op = "fail" /\ s[Len(s)].turn = "in" /\ s[Len(s)].f = Client
    /\ x.op # "fail"
    /\ x.t = s[Len(s)].t => x.op = "close" /\ s[1].t = x.t /\ ~IsSync(s[1])

\* A synchronous event that may be begun keeps the stack in line.
LEMMA LinedAppend ==
  ASSUME NEW s \in Seq(Frame), Lined(s), NEW x \in Frame, IsSync(x), ~x.nested, Pushable(s, x)
  PROVE  Lined(Append(s, x))
<1> DEFINE z == Append(s, x)
<1>1. /\ Len(z) = Len(s) + 1 /\ DOMAIN z = 1 .. Len(z) /\ z[Len(z)] = x /\ Len(s) \in Nat
      /\ \A i \in 1 .. Len(s) : z[i] = s[i] /\ i \in DOMAIN s
      /\ s = <<>> <=> Len(s) = 0
  BY AppendIs
<1> HIDE DEF z
<1>2. ASSUME NEW i \in 1 .. Len(s)
      PROVE  /\ ~IsSync(z[i]) => i = 1
             /\ z[i].nested => z[i].kind = "run"
             /\ IsSync(z[i]) => Fails(z[i]) /\ z[i].op = "fail" /\ z[i].turn = "in" /\ z[i].f = Client
             /\ i > 1 /\ IsSync(z[i]) /\ IsSync(z[i - 1]) =>
                  /\ z[i].op # "fail"
                  /\ z[i].t = z[i - 1].t => z[i].op = "close" /\ z[1].t = z[i].t /\ ~IsSync(z[1])
  <2>1. z[i] = s[i] /\ i \in DOMAIN s /\ z[1] = s[1] /\ (i > 1 => z[i - 1] = s[i - 1])  BY <1>1
  <2>2. i = Len(s) /\ IsSync(s[i]) => Fails(s[i]) /\ s[i].op = "fail" /\ s[i].turn = "in" /\ s[i].f = Client
    BY <1>1 DEF Pushable
  <2>3. i = Len(s) \/ i < Len(s)  BY <1>1
  <2> QED BY <2>1, <2>2, <2>3 DEF Lined
<1>3. Len(z) > 1 /\ IsSync(z[Len(z) - 1]) =>
        /\ z[Len(z)].op # "fail"
        /\ z[Len(z)].t = z[Len(z) - 1].t => z[Len(z)].op = "close" /\ z[1].t = z[Len(z)].t /\ ~IsSync(z[1])
  <2> SUFFICES ASSUME Len(s) > 0, IsSync(s[Len(s)])
               PROVE  x.op # "fail" /\ (x.t = s[Len(s)].t => x.op = "close" /\ s[1].t = x.t /\ ~IsSync(s[1]))
    BY <1>1
  <2> QED BY <1>1 DEF Pushable
<1>4. IsSync(z[Len(z)]) /\ ~z[Len(z)].nested  BY <1>1
<1>5. \A i \in DOMAIN z : i \in 1 .. Len(s) \/ i = Len(z)  BY <1>1
<1> QED BY <1>1, <1>2, <1>3, <1>4, <1>5 DEF Lined, z

\* So does the end of a call,
LEMMA LinedCut ==
  ASSUME NEW s \in Seq(Frame), Lined(s), s # <<>>
  PROVE  Lined(Cut(s))
<1> DEFINE z == Cut(s)
<1>1. /\ Len(z) = Len(s) - 1 /\ DOMAIN z = 1 .. Len(z) /\ Len(s) \in Nat
      /\ \A i \in 1 .. Len(z) : z[i] = s[i] /\ i \in DOMAIN s /\ 1 \in 1 .. Len(z)
  <2>1. Len(z) = Len(s) - 1 /\ DOMAIN z = DOMAIN s \ {Len(s)} /\ DOMAIN s = 1 .. Len(s) /\ Len(s) \in Nat  BY CutIs
  <2>2. \A i \in DOMAIN z : z[i] = s[i]  BY CutIs
  <2> HIDE DEF z
  <2> QED BY <2>1, <2>2
<1> HIDE DEF z
<1>2. \A i \in 1 .. Len(z) : i > 1 => z[i - 1] = s[i - 1]  BY <1>1
<1>3. \A i \in 1 .. Len(z) : z[1] = s[1]  BY <1>1
<1>4. \A i \in 1 .. Len(z) : i < Len(s)  BY <1>1
<1> QED BY <1>1, <1>2, <1>3, <1>4 DEF Lined, z

\* and a call of the same kind in place of the top.
LEMMA LinedTopped ==
  ASSUME NEW s \in Seq(Frame), Lined(s), s # <<>>, NEW x \in Frame, IsSync(x) <=> IsSync(s[Len(s)]),
         x.nested => x.kind = "run", x.t = s[Len(s)].t, IsSync(x) => x.op = s[Len(s)].op
  PROVE  Lined(Topped(s, x))
<1> DEFINE z == Topped(s, x)
           n == Len(s)
<1>1. /\ Len(z) = n /\ DOMAIN z = DOMAIN s /\ n \in DOMAIN s /\ z[n] = x
      /\ n \in Nat /\ DOMAIN s = 1 .. n
  BY ToppedIs
<1>2. \A i \in DOMAIN s : i # n => z[i] = s[i]  BY ToppedIs
<1> HIDE DEF z
<1>3. ASSUME NEW i \in 1 .. n
      PROVE  /\ IsSync(z[i]) <=> IsSync(s[i])
             /\ z[i].t = s[i].t
             /\ IsSync(z[i]) => z[i].op = s[i].op
             /\ z[i].nested => z[i].kind = "run"
             /\ i # n => z[i] = s[i]
  <2>1. CASE i = n  BY <1>1, <2>1
  <2>2. CASE i # n  BY <1>1, <1>2, <2>2 DEF Lined
  <2> QED BY <2>1, <2>2
<1>4. \A i \in 1 .. n : i > 1 => i - 1 \in 1 .. n /\ i - 1 # n  BY <1>1
<1>5. \A i \in 1 .. n : 1 \in 1 .. n  BY <1>1
<1> HIDE DEF n
<1>6. ASSUME NEW i \in 1 .. n
      PROVE  /\ ~IsSync(z[i]) => i = 1
             /\ z[i].nested => z[i].kind = "run"
             /\ IsSync(z[i]) /\ i < n => Fails(z[i]) /\ z[i].op = "fail" /\ z[i].turn = "in" /\ z[i].f = Client
             /\ i > 1 /\ IsSync(z[i]) /\ IsSync(z[i - 1]) =>
                  /\ z[i].op # "fail"
                  /\ z[i].t = z[i - 1].t => z[i].op = "close" /\ z[1].t = z[i].t /\ ~IsSync(z[1])
  <2>1. /\ ~IsSync(s[i]) => i = 1
        /\ IsSync(s[i]) /\ i < n => Fails(s[i]) /\ s[i].op = "fail" /\ s[i].turn = "in" /\ s[i].f = Client
        /\ i > 1 /\ IsSync(s[i]) /\ IsSync(s[i - 1]) =>
             /\ s[i].op # "fail"
             /\ s[i].t = s[i - 1].t => s[i].op = "close" /\ s[1].t = s[i].t /\ ~IsSync(s[1])
    BY <1>1 DEF Lined, n
  <2>2. i < n => z[i] = s[i]  BY <1>3
  <2>3. (IsSync(z[1]) <=> IsSync(s[1])) /\ z[1].t = s[1].t  BY <1>3, <1>5
  <2>4. i > 1 => z[i - 1] = s[i - 1]  BY <1>3, <1>4
  <2> QED BY <1>3, <2>1, <2>2, <2>3, <2>4
<1>7. Len(z) = n /\ DOMAIN z = 1 .. n  BY <1>1
<1> QED BY <1>6, <1>7 DEF Lined, z

\* A call that ends and begins again.
LEMMA CutAppend ==
  ASSUME NEW s \in Seq(Frame), s # <<>>, NEW x \in Frame
  PROVE  Append(Cut(s), x) = Topped(s, x)
<1> DEFINE c == Cut(s)
           z == Append(c, x)
           y == Topped(s, x)
           n == Len(s)
<1>1. c \in Seq(Frame) /\ Len(c) = n - 1 /\ DOMAIN c = DOMAIN s \ {n} /\ n \in Nat /\ DOMAIN s = 1 .. n /\ n \in DOMAIN s
  BY CutIs
<1>2. \A i \in DOMAIN c : c[i] = s[i]  BY CutIs
<1> HIDE DEF c
<1>3. z \in Seq(Frame) /\ Len(z) = n /\ z[n] = x /\ \A i \in DOMAIN c : z[i] = c[i]
  BY <1>1, AppendIs
<1>4. y \in Seq(Frame) /\ Len(y) = n /\ y[n] = x /\ \A i \in DOMAIN s : i # n => y[i] = s[i]
  BY ToppedIs
<1> HIDE DEF z, y
<1>5. \A i \in 1 .. n : z[i] = y[i]  BY <1>1, <1>2, <1>3, <1>4
<1>6. z = y  BY <1>1, <1>3, <1>4, <1>5
<1> QED BY <1>6 DEF z, y, c

\* Whether a transaction is in its RunL does not change with its synchronous events.
LEMMA RunsAppend ==
  ASSUME NEW s \in Seq(Frame), NEW x \in Frame, IsSync(x), NEW t
  PROVE  Runs(Append(s, x), t) = Runs(s, t)
<1>1. /\ DOMAIN Append(s, x) = DOMAIN s \cup {Len(s) + 1} /\ Append(s, x)[Len(s) + 1] = x
      /\ \A i \in DOMAIN s : Append(s, x)[i] = s[i]
  BY AppendIs
<1> QED BY <1>1 DEF Runs, Mine

\* The end of a synchronous event leaves the RunLs as they are,
LEMMA RunsCut ==
  ASSUME NEW s \in Seq(Frame), s # <<>>, IsSync(s[Len(s)]), NEW t
  PROVE  Runs(Cut(s), t) = Runs(s, t)
<1>1. DOMAIN Cut(s) = DOMAIN s \ {Len(s)} /\ \A i \in DOMAIN Cut(s) : Cut(s)[i] = s[i]  BY CutIs
<1> QED BY <1>1 DEF Runs, Mine

\* and so does another synchronous event in its place.
LEMMA RunsTopped ==
  ASSUME NEW s \in Seq(Frame), s # <<>>, IsSync(s[Len(s)]), NEW x \in Frame, IsSync(x), NEW t
  PROVE  Runs(Topped(s, x), t) = Runs(s, t)
<1> DEFINE z == Topped(s, x)
<1>1. /\ DOMAIN z = DOMAIN s /\ z[Len(s)] = x
      /\ \A i \in DOMAIN s : i # Len(s) => z[i] = s[i]
  BY ToppedIs
<1> HIDE DEF z
<1>2. \A i \in DOMAIN s : ~IsSync(z[i]) => z[i] = s[i]  BY <1>1
<1>3. \A i \in DOMAIN s : ~IsSync(s[i]) => z[i] = s[i]  BY <1>1
<1> QED BY <1>1, <1>2, <1>3 DEF Runs, Mine, z

-----------------------------------------------------------------------------
(* A transaction and its calls *)

\* A closed transaction refers to nothing any more.
Gone(r) == r.life # "open" => ~r.atHandler /\ ~r.active /\ r.status # "EBlocked"

\* A synchronous event of the transaction begins.
LEMMA FitsPush ==
  ASSUME NEW s \in Seq(Frame), NEW t, NEW r, Fits(t, r, s), NEW x \in Frame, IsSync(x), x.t = t,
         Stored(x, Runs(s, t)), NEW q, InSync(q, x, Runs(s, t)), Gone(q)
  PROVE  Fits(t, q, Append(s, x))
<1> DEFINE z == Append(s, x)
           n == Len(s) + 1
<1>1. /\ DOMAIN z = DOMAIN s \cup {n} /\ z[n] = x /\ \A i \in DOMAIN s : z[i] = s[i] /\ i \in 1 .. Len(s)
      /\ Len(s) \in Nat
  BY AppendIs
<1>2. Runs(z, t) = Runs(s, t)  BY RunsAppend
<1> HIDE DEF z
<1>3. Mine(z, t) = Mine(s, t) \cup {n}  BY <1>1 DEF Mine
<1>4. \A i \in Mine(s, t) : i < n /\ z[i] = s[i] /\ i \in Nat  BY <1>1 DEF Mine
<1>5. n \in Mine(z, t) /\ z[n] = x /\ n \in Nat  BY <1>1, <1>3
<1> HIDE DEF n
<1>6. \A i \in Mine(z, t) : (\A j \in Mine(z, t) : j <= i) => i = n  BY <1>3, <1>4, <1>5
<1>7. \A i \in Mine(z, t) : IsSync(z[i]) => Stored(z[i], Runs(z, t))
  BY <1>2, <1>3, <1>4, <1>5 DEF Fits
<1>8. \A i \in Mine(z, t) : (\A j \in Mine(z, t) : j <= i) => IsSync(z[i]) /\ InSync(q, z[i], Runs(z, t))
  BY <1>2, <1>5, <1>6
<1> QED BY <1>5, <1>7, <1>8 DEF Fits, Gone, z

\* The one at the top goes on.
LEMMA FitsTopped ==
  ASSUME NEW s \in Seq(Frame), s # <<>>, NEW t, s[Len(s)].t = t, IsSync(s[Len(s)]), NEW r, Fits(t, r, s),
         NEW x \in Frame, IsSync(x), x.t = t,
         Stored(x, Runs(s, t)), NEW q, InSync(q, x, Runs(s, t)), Gone(q)
  PROVE  Fits(t, q, Topped(s, x))
<1> DEFINE z == Topped(s, x)
           n == Len(s)
<1>1. /\ DOMAIN z = DOMAIN s /\ z[n] = x /\ n \in DOMAIN s /\ DOMAIN s = 1 .. n /\ n \in Nat
  BY ToppedIs
<1>2. \A i \in DOMAIN s : i # n => z[i] = s[i]  BY ToppedIs
<1>3. Runs(z, t) = Runs(s, t)  BY RunsTopped
<1> HIDE DEF z
<1>4. n \in Mine(z, t) /\ \A i \in Mine(z, t) : i <= n /\ (i # n => i \in Mine(s, t))
  BY <1>1, <1>2 DEF Mine
<1>5. Mine(z, t) \subseteq 1 .. n  BY <1>1 DEF Mine
<1> HIDE DEF n
<1>6. \A i \in Mine(z, t) : (\A j \in Mine(z, t) : j <= i) => i = n  BY <1>1, <1>4, <1>5
<1>7. \A i \in Mine(z, t) : IsSync(z[i]) => Stored(z[i], Runs(z, t))
  BY <1>1, <1>2, <1>3, <1>4, <1>5 DEF Fits
<1>8. \A i \in Mine(z, t) : (\A j \in Mine(z, t) : j <= i) => IsSync(z[i]) /\ InSync(q, z[i], Runs(z, t))
  BY <1>1, <1>3, <1>6
<1> QED BY <1>4, <1>7, <1>8 DEF Fits, Gone, z

\* Its members change, or the RunL at the top does.
LEMMA FitsStill ==
  ASSUME NEW t, NEW r, NEW s, Fits(t, r, s), NEW q, Gone(q),
         Mine(s, t) = {} => Resting(q),
         \A i \in Mine(s, t) : (\A j \in Mine(s, t) : j <= i) =>
            IF IsSync(s[i]) THEN InSync(q, s[i], Runs(s, t)) ELSE InRunL(q, s[i])
  PROVE  Fits(t, q, s)
BY DEF Fits, Gone

\* A RunL alone on the stack.
LEMMA FitsInRunL ==
  ASSUME NEW x \in Frame, ~IsSync(x), NEW q, InRunL(q, x), Gone(q)
  PROVE  Fits(x.t, q, <<x>>) /\ Lined(<<x>>) = (x.nested => x.kind = "run")
<1> DEFINE z == <<x>>
<1>1. DOMAIN z = {1} /\ z[1] = x /\ Len(z) = 1  OBVIOUS
<1> HIDE DEF z
<1>2. Mine(z, x.t) = {1}  BY <1>1 DEF Mine
<1>3. Fits(x.t, q, z)  BY <1>1, <1>2 DEF Fits, Gone
<1>4. Lined(z) = (x.nested => x.kind = "run")  BY <1>1 DEF Lined
<1> QED BY <1>3, <1>4 DEF z

\* With no call of it left, a transaction rests.
LEMMA FitsResting ==
  ASSUME NEW t, NEW q, Resting(q), Gone(q), NEW s, Mine(s, t) = {}
  PROVE  Fits(t, q, s)
BY DEF Fits, Gone

\* The empty stack.
LEMMA NoCalls ==
  /\ Lined(<<>>) /\ <<>> \in Seq(Frame) /\ \A t : Mine(<<>>, t) = {}
BY DEF Lined, Mine

\* Below a synchronous event at the top of the stack: no call of its transaction,
\* its RunL, or its RunL and a failure that the client is told of.
Beneath(s) ==
  LET x == s[Len(s)] IN
  \/ ~Runs(s, x.t) /\ Mine(Cut(s), x.t) = {}
  \/ Runs(s, x.t) /\ Mine(Cut(s), x.t) = {1} /\ ~IsSync(s[1])
  \/ /\ Runs(s, x.t) /\ Mine(Cut(s), x.t) = {1, 2} /\ ~IsSync(s[1])
     /\ IsSync(s[2]) /\ Fails(s[2]) /\ s[2].turn = "in" /\ x.op = "close"

\* What is beneath a synchronous event, by the order of the stack.
LEMMA BelowTop ==
  ASSUME NEW s \in Seq(Frame), Lined(s), s # <<>>, IsSync(s[Len(s)])
  PROVE  Beneath(s)
<1> DEFINE n == Len(s)
           x == s[n]
           t == x.t
           z == Cut(s)
<1>1. DOMAIN z = DOMAIN s \ {n} /\ n \in DOMAIN s /\ DOMAIN s = 1 .. n /\ n \in Nat  BY CutIs
<1>2. \A i \in DOMAIN z : z[i] = s[i]  BY CutIs
<1> HIDE DEF z
<1>3. \A i \in 1 .. n : i > 1 => IsSync(s[i])  BY <1>1 DEF Lined
<1>4. n <= 3
  <2> SUFFICES ASSUME n > 3 PROVE FALSE  BY <1>1
  <2>1. 2 \in DOMAIN s /\ 3 \in DOMAIN s /\ 3 < n /\ 3 - 1 = 2 /\ 3 > 1  BY <1>1
  <2>2. IsSync(s[2]) /\ IsSync(s[3])  BY <1>1, <1>3, <2>1
  <2>3. s[3].op = "fail"  BY <2>1, <2>2 DEF Lined
  <2>4. s[3].op # "fail"  BY <2>1, <2>2 DEF Lined
  <2> QED BY <2>3, <2>4
<1>5. CASE n = 1
  <2>1. Mine(z, t) = {} /\ ~Runs(s, t)  BY <1>1, <1>5 DEF Mine, Runs
  <2> QED BY <2>1 DEF Beneath, z
<1>6. CASE n = 2
  <2>1. Mine(z, t) = IF s[1].t = t THEN {1} ELSE {}  BY <1>1, <1>2, <1>6 DEF Mine
  <2>2. Mine(s, t) = (IF s[1].t = t THEN {1} ELSE {}) \cup {2}  BY <1>1, <1>6 DEF Mine
  <2>3. CASE s[1].t = t /\ IsSync(s[1])
    <3>1. 2 \in DOMAIN s /\ 2 > 1 /\ 2 - 1 = 1  BY <1>1, <1>6
    <3>2. ~IsSync(s[1])  BY <1>6, <2>3, <3>1 DEF Lined
    <3> QED BY <2>3, <3>2
  <2>4. CASE s[1].t = t /\ ~IsSync(s[1])
    <3>1. Runs(s, t)  BY <2>2, <2>4 DEF Runs
    <3> QED BY <2>1, <2>4, <3>1 DEF Beneath, z
  <2>5. CASE s[1].t # t
    <3>1. ~Runs(s, t)  BY <1>6, <2>2, <2>5 DEF Runs
    <3> QED BY <2>1, <2>5, <3>1 DEF Beneath, z
  <2> QED BY <2>3, <2>4, <2>5
<1>7. CASE n = 3
  <2>0. 2 \in DOMAIN s /\ 3 \in DOMAIN s /\ 1 \in DOMAIN s /\ 2 < 3 /\ 3 > 1 /\ 3 - 1 = 2 /\ 2 > 1 /\ 2 - 1 = 1
    BY <1>1, <1>7
  <2>1. IsSync(s[2]) /\ IsSync(s[3]) /\ Fails(s[2]) /\ s[2].turn = "in" /\ s[2].op = "fail"
    BY <1>1, <1>3, <1>7, <2>0 DEF Lined
  <2>2. ~IsSync(s[1])  BY <2>0, <2>1 DEF Lined
  <2>3. s[2].t = t => s[3].op = "close" /\ s[1].t = t  BY <1>7, <2>0, <2>1 DEF Lined
  <2>4. Mine(z, t) = (IF s[1].t = t THEN {1} ELSE {}) \cup (IF s[2].t = t THEN {2} ELSE {})
    BY <1>1, <1>2, <1>7 DEF Mine
  <2>5. Mine(s, t) = Mine(z, t) \cup {3}  BY <1>1, <1>2, <1>7 DEF Mine
  <2>6. Runs(s, t) <=> s[1].t = t  BY <1>7, <2>1, <2>2, <2>4, <2>5 DEF Runs
  <2>7. CASE s[2].t = t
    <3>1. Mine(z, t) = {1, 2}  BY <2>3, <2>4, <2>7
    <3> QED BY <1>7, <2>1, <2>2, <2>3, <2>6, <2>7, <3>1 DEF Beneath, z
  <2>8. CASE s[2].t # t
    <3>1. Mine(z, t) = IF s[1].t = t THEN {1} ELSE {}  BY <2>4, <2>8
    <3> QED BY <1>7, <2>2, <2>6, <3>1 DEF Beneath, z
  <2> QED BY <2>7, <2>8
<1> QED BY <1>1, <1>4, <1>5, <1>6, <1>7

\* A synchronous event ends.
LEMMA FitsCut ==
  ASSUME NEW s \in Seq(Frame), Lined(s), s # <<>>, NEW x, x = s[Len(s)], IsSync(x), NEW r, Fits(x.t, r, s),
         NEW q, Gone(q),
         ~Runs(s, x.t) => Resting(q),
         Runs(s, x.t) /\ Mine(Cut(s), x.t) = {1} => InRunL(q, s[1]),
         Runs(s, x.t) /\ x.op = "close" /\ IsSync(s[2]) /\ Fails(s[2]) /\ s[2].turn = "in" => InSync(q, s[2], TRUE)
  PROVE  Fits(x.t, q, Cut(s))
<1> DEFINE z == Cut(s)
           t == x.t
<1>1. DOMAIN z = DOMAIN s \ {Len(s)} /\ \A i \in DOMAIN z : z[i] = s[i]  BY CutIs
<1>2. Runs(z, t) = Runs(s, t)  BY RunsCut
<1>3. Beneath(s)  BY BelowTop
<1> HIDE DEF z
<1>4. \A i \in Mine(z, t) : i \in Mine(s, t) /\ z[i] = s[i]  BY <1>1 DEF Mine
<1>5. \A i \in Mine(z, t) : IsSync(z[i]) => Stored(z[i], Runs(z, t))  BY <1>2, <1>4 DEF Fits
<1>6. CASE Mine(z, t) = {}
  <2>1. ~Runs(s, t)  BY <1>2, <1>6 DEF Runs
  <2> QED BY <1>6, <2>1, FitsResting DEF z
<1>7. CASE Mine(z, t) = {1} /\ ~IsSync(s[1]) /\ Runs(s, t)
  <2>1. InRunL(q, z[1]) /\ ~IsSync(z[1])  BY <1>4, <1>7 DEF z
  <2> QED BY <1>5, <1>7, <2>1 DEF Fits, Gone, z
<1>8. CASE /\ Runs(s, t) /\ Mine(z, t) = {1, 2} /\ IsSync(s[2]) /\ Fails(s[2]) /\ s[2].turn = "in" /\ x.op = "close"
  <2>1. InSync(q, z[2], Runs(z, t)) /\ IsSync(z[2])
    <3>1. z[2] = s[2]  BY <1>4, <1>8
    <3>2. Runs(z, t) = TRUE  BY <1>2, <1>8 DEF Runs
    <3>3. InSync(q, s[2], TRUE)  BY <1>8
    <3> QED BY <1>8, <3>1, <3>2, <3>3
  <2>2. \A i \in Mine(z, t) : (\A j \in Mine(z, t) : j <= i) => i = 2  BY <1>8
  <2> QED BY <1>5, <1>8, <2>1, <2>2 DEF Fits, Gone, z
<1>9. \/ Mine(z, t) = {}
      \/ Mine(z, t) = {1} /\ ~IsSync(s[1]) /\ Runs(s, t)
      \/ Runs(s, t) /\ Mine(z, t) = {1, 2} /\ IsSync(s[2]) /\ Fails(s[2]) /\ s[2].turn = "in" /\ x.op = "close"
  BY <1>3 DEF Beneath, z
<1> QED BY <1>6, <1>7, <1>8, <1>9

-----------------------------------------------------------------------------
(* The next filter *)

\* The members that FindNextFilter leaves alone.
Kept(q, r) ==
  /\ q.active = r.active /\ q.syncEvent = r.syncEvent /\ q.current = r.current
  /\ q.asyncFilter = r.asyncFilter /\ q.life = r.life /\ q.atHandler = r.atHandler /\ q.cipher = r.cipher

\* Some event has a filter to go to.
Found(r, b, q, f) == [r EXCEPT !.status = "EFilter", !.sync = b, !.queue = q, !.next = f]

\* FindNextFilter where some event has a filter to go to.
LEMMA FindsFilter ==
  ASSUME NEW r, Len(EventList(r)) # 0, Wanted(r) # {}
  PROVE  LET k0 == FirstWanted(r)
         IN  FindNextFilter(r)
               = Found(r, r.sync /\ k0 = 1,
                       IF r.sync /\ k0 = 1 THEN r.queue
                       ELSE SubSeq(r.queue, IF r.sync THEN k0 - 1 ELSE k0, Len(r.queue)),
                       First(EventList(r)[k0].ev, Position(r, k0)))
BY Zenon DEF FindNextFilter, Found

\* Without a synchronous event: the next filter of the queue, if there is one.
LEMMA FindInQueue ==
  ASSUME NEW r \in Transaction, ~r.sync
  PROVE  LET q == FindNextFilter(r) IN
         /\ q \in Transaction /\ Kept(q, r) /\ ~q.sync
         /\ \/ q.status = "EPassive" /\ q.queue = <<>>
            \/ q.status = "EFilter" /\ q.queue # <<>> /\ q.next \in Filters
<1> DEFINE events == r.queue
           n == Len(events)
           k0 == FirstWanted(r)
           q0 == SubSeq(events, k0, n)
           f0 == First(events[k0].ev, Position(r, k0))
           last == IF Direction(events[n].ev) = "out" THEN -1 ELSE Client + 1
<1>1. r.sync = FALSE /\ EventList(r) = events  BY TransactionFields DEF EventList
<1>2. events \in Seq(Event) /\ n \in Nat /\ DOMAIN events = 1 .. n /\ r.next \in Int /\ Client \in Int
  BY TransactionFields, ChainEnds
<1>3. \A k \in 1 .. n : events[k].ev \in Events /\ events[k].start \in Filters
  <2>1. \A k \in 1 .. n : events[k] \in Event  BY <1>2
  <2> QED BY <2>1, EventFields
<1>4. \A k \in 1 .. n : Position(r, k) \in Int
  <2> SUFFICES ASSUME NEW k \in 1 .. n PROVE Position(r, k) \in Int  OBVIOUS
  <2>1. events[k].start \in Int  BY <1>3, ChainEnds
  <2> QED BY <1>1, <1>2, <2>1 DEF Step, Position
<1>5. CASE n = 0
  <2>1. FindNextFilter(r) = [r EXCEPT !.status = "EPassive"]
    BY <1>1, <1>5 DEF FindNextFilter
  <2>2. events = <<>>  BY <1>2, <1>5
  <2> QED BY <1>1, <2>1, <2>2 DEF Transaction, Kept, States
<1>6. CASE n > 0 /\ Wanted(r) = {}
  <2>1. FindNextFilter(r) = [r EXCEPT !.status = "EPassive", !.sync = FALSE, !.queue = <<>>, !.next = last]
    BY <1>1, <1>2, <1>6 DEF FindNextFilter
  <2>2. last \in Int  BY <1>2
  <2> HIDE DEF last
  <2>3. <<>> \in Seq(Event)  OBVIOUS
  <2> QED BY <2>1, <2>2, <2>3 DEF Transaction, Kept, States
<1>7. CASE n > 0 /\ Wanted(r) # {}
  <2>1. FindNextFilter(r) = [r EXCEPT !.status = "EFilter", !.sync = FALSE, !.queue = q0, !.next = f0]
    <3> DEFINE b == r.sync /\ FirstWanted(r) = 1
               q1 == IF b THEN r.queue
                     ELSE SubSeq(r.queue, IF r.sync THEN FirstWanted(r) - 1 ELSE FirstWanted(r), Len(r.queue))
               f1 == First(EventList(r)[FirstWanted(r)].ev, Position(r, FirstWanted(r)))
    <3>1. FindNextFilter(r) = Found(r, b, q1, f1)  BY <1>1, <1>7, FindsFilter
    <3>2. b = FALSE  BY <1>1
    <3>3. q1 = q0 /\ f1 = f0  BY <1>1, <3>2
    <3> HIDE DEF b, q1, f1, q0, f0
    <3>4. FindNextFilter(r) = Found(r, FALSE, q0, f0)  BY <3>1, <3>2, <3>3
    <3> QED BY <3>4 DEF Found
  <2>2. Wanted(r) \subseteq 1 .. n  BY <1>1, <1>2 DEF Wanted
  <2>3. \E k \in Wanted(r) : \A j \in Wanted(r) : k <= j  BY <1>2, <1>7, <2>2, Least
  <2>4. k0 \in Wanted(r)  BY <2>3 DEF FirstWanted
  <2> HIDE DEF k0
  <2>5. k0 \in 1 .. n /\ Onward(events[k0].ev, Position(r, k0)) # {}  BY <1>1, <1>2, <2>4 DEF Wanted
  <2>6. f0 \in Filters
    <3>1. Position(r, k0) \in Int  BY <1>4, <2>5
    <3>2. f0 \in Onward(events[k0].ev, Position(r, k0))  BY <2>5, <3>1, FirstOnward
    <3> QED BY <3>2 DEF Onward
  <2> HIDE DEF f0
  <2>7. q0 \in Seq(Event) /\ q0 # <<>>
    <3>1. Len(q0) = n - k0 + 1 /\ q0 \in Seq(Event)  BY <1>2, <2>5
    <3> HIDE DEF q0, n
    <3>2. Len(q0) > 0  BY <1>2, <2>5, <3>1
    <3> QED BY <3>1, <3>2
  <2> HIDE DEF q0
  <2>8. f0 \in Int  BY <2>6, ChainEnds
  <2> QED BY <2>1, <2>6, <2>7, <2>8 DEF Transaction, Kept, States
<1> QED BY <1>2, <1>5, <1>6, <1>7

\* With a synchronous event, and no other: its next filter, or its end.
Place(r) == IF r.status # "EPassive" THEN Step(r.syncEvent.ev, r.next) ELSE Step(r.syncEvent.ev, r.syncEvent.start)

\* The event goes on to its first filter from Place on, or is over if there is none.
LEMMA FindOfSync ==
  ASSUME NEW r \in Transaction, r.sync, r.queue = <<>>
  PROVE  /\ FindNextFilter(r) \in Transaction /\ Kept(FindNextFilter(r), r) /\ FindNextFilter(r).queue = <<>>
         /\ Onward(r.syncEvent.ev, Place(r)) = {} => FindNextFilter(r).status = "EPassive" /\ ~FindNextFilter(r).sync
         /\ Onward(r.syncEvent.ev, Place(r)) # {} =>
              /\ FindNextFilter(r).status = "EFilter" /\ FindNextFilter(r).sync
              /\ FindNextFilter(r).next = First(r.syncEvent.ev, Place(r)) /\ FindNextFilter(r).next \in Filters
<1> DEFINE e == r.syncEvent
           last == IF Direction(e.ev) = "out" THEN -1 ELSE Client + 1
<1>1. r.sync = TRUE /\ e \in Event /\ r.next \in Int /\ Client \in Int  BY TransactionFields, ChainEnds
<1>2. EventList(r) = <<e>>  BY <1>1 DEF EventList
<1>3. Len(EventList(r)) = 1 /\ EventList(r)[1] = e /\ DOMAIN EventList(r) = {1}  BY <1>2
<1>4. Position(r, 1) = Place(r)  BY <1>3 DEF Place, Position
<1>5. Place(r) \in Int
  <2>1. e.start \in Int  BY <1>1, EventFields, ChainEnds
  <2> QED BY <1>1, <2>1 DEF Place, Step
<1>6. Wanted(r) = IF Onward(e.ev, Place(r)) = {} THEN {} ELSE {1}  BY <1>3, <1>4 DEF Wanted
<1>7. CASE Onward(e.ev, Place(r)) = {}
  <2>1. Wanted(r) = {}  BY <1>6, <1>7
  <2>2. FindNextFilter(r) = [r EXCEPT !.status = "EPassive", !.sync = FALSE, !.queue = <<>>, !.next = last]
    BY <1>3, <2>1 DEF FindNextFilter
  <2>3. last \in Int  BY <1>1
  <2> HIDE DEF last
  <2>4. <<>> \in Seq(Event)  OBVIOUS
  <2> QED BY <1>7, <2>2, <2>3, <2>4 DEF Transaction, Kept, States
<1>8. CASE Onward(e.ev, Place(r)) # {}
  <2>1. Wanted(r) = {1}  BY <1>6, <1>8
  <2>2. FirstWanted(r) = 1  BY <2>1 DEF FirstWanted
  <2>3. FindNextFilter(r) = [r EXCEPT !.status = "EFilter", !.sync = TRUE, !.queue = r.queue,
                                      !.next = First(e.ev, Place(r))]
    <3> DEFINE b == r.sync /\ FirstWanted(r) = 1
               q1 == IF b THEN r.queue
                     ELSE SubSeq(r.queue, IF r.sync THEN FirstWanted(r) - 1 ELSE FirstWanted(r), Len(r.queue))
               f1 == First(EventList(r)[FirstWanted(r)].ev, Position(r, FirstWanted(r)))
    <3>0. Len(EventList(r)) # 0 /\ Wanted(r) # {}  BY <1>3, <2>1
    <3>1. FindNextFilter(r) = Found(r, b, q1, f1)  BY <3>0, FindsFilter
    <3>2. b = TRUE  BY <1>1, <2>2
    <3>3. q1 = r.queue /\ f1 = First(e.ev, Place(r))  BY <1>3, <1>4, <2>2, <3>2
    <3> HIDE DEF b, q1, f1
    <3>4. FindNextFilter(r) = Found(r, TRUE, r.queue, First(e.ev, Place(r)))  BY <3>1, <3>2, <3>3
    <3> QED BY <3>4 DEF Found
  <2>5. First(e.ev, Place(r)) \in Onward(e.ev, Place(r))  BY <1>5, <1>8, FirstOnward
  <2>6. First(e.ev, Place(r)) \in Filters  BY <2>5 DEF Onward
  <2>7. First(e.ev, Place(r)) \in Int  BY <2>6, ChainEnds
  <2> QED BY <1>8, <2>3, <2>6, <2>7 DEF Transaction, Kept, States
<1> QED BY <1>7, <1>8

-----------------------------------------------------------------------------
(* The operations, on a world in which no assertion has failed *)

\* What ActivateNext, Delete, SendEvent and SynchronousSendEvent make of a transaction.
Activated(r) == IF FindNextFilter(r).status = "EPassive" THEN FindNextFilter(r)
                ELSE [FindNextFilter(r) EXCEPT !.active = TRUE]
Deleted(r) == [r EXCEPT !.status = "EPassive", !.life = "deleted", !.active = FALSE]
Begun(ev, f) == [ev |-> ev, start |-> f, seen |-> <<>>]
Synced(r, e) == [r EXCEPT !.sync = TRUE, !.syncEvent = e, !.status = "EPassive"]
SyncCall(r, t, op, ev, handle, saved) ==
  [kind |-> "sync", t |-> t, f |-> 0, nested |-> FALSE, turn |-> "first",
   op |-> op, ev |-> ev, handle |-> handle, stored |-> r.syncEvent, s |-> r.status,
   remembered |-> r.current, saved |-> saved]
InTurn(x, turn) == [x EXCEPT !.turn = turn]
Stopped(r) == [r EXCEPT !.queue = <<>>, !.active = FALSE]

\* Everybody who has blocked is woken.
Wakes(r) == r.life = "open" /\ r.status = "EBlocked"
Woken(T, b) == IF b = "EHasBlocked"
               THEN [u \in Tx |-> IF Wakes(T[u]) THEN [T[u] EXCEPT !.status = "EFilter", !.active = TRUE] ELSE T[u]]
               ELSE T

\* The state as a world.
LEMMA WorldBegins == ASSUME IInv PROVE world = W(tr, blocking, stack, sends)
BY DEF IInv, world, W

\* The end of a step.
LEMMA StepEnds ==
  ASSUME NEW T, NEW b, NEW s, NEW n, Good(T, b, s), n \in 0 .. MaxSends, Become(W(T, b, s, n))
  PROVE  IInv'
<1>1. tr' = T /\ blocking' = b /\ stack' = s /\ panic' = {} /\ sends' = n  BY DEF Become, W
<1>2. IInv' = (Good(tr', blocking', stack') /\ sends' \in 0 .. MaxSends /\ panic' = {})  BY DEF IInv, Good
<1> QED BY <1>1, <1>2

\* A transaction is written.
LEMMA PutTurns ==
  ASSUME NEW T, NEW b, NEW s, NEW n, NEW t, NEW r
  PROVE  [W(T, b, s, n) EXCEPT !.tr[t] = r] = W(Upd(T, t, r), b, s, n)
BY DEF W, Upd

\* The stack is written.
LEMMA PutStack ==
  ASSUME NEW T, NEW b, NEW s, NEW n, NEW z
  PROVE  [W(T, b, s, n) EXCEPT !.stack = z] = W(T, b, z, n)
BY DEF W

\* Push, as a world,
LEMMA PushTurns ==
  ASSUME NEW T, NEW b, NEW s, NEW n, NEW x
  PROVE  Push(W(T, b, s, n), x) = W(T, b, Append(s, x), n)
<1> DEFINE w == W(T, b, s, n)
           z == Append(s, x)
<1>1. w.stack = s  BY DEF W
<1>2. Push(w, x) = [w EXCEPT !.stack = z]
  <2> HIDE DEF w
  <2> QED BY <1>1 DEF Push
<1> HIDE DEF z
<1>3. [w EXCEPT !.stack = z] = W(T, b, z, n)  BY PutStack
<1> QED BY <1>2, <1>3 DEF z

\* Pop,
LEMMA PopTurns ==
  ASSUME NEW T, NEW b, NEW s, NEW n
  PROVE  Pop(W(T, b, s, n)) = W(T, b, Cut(s), n)
<1> DEFINE w == W(T, b, s, n)
           z == Cut(s)
<1>1. w.stack = s  BY DEF W
<1>2. Pop(w) = [w EXCEPT !.stack = z]
  <2> HIDE DEF w
  <2> QED BY <1>1 DEF Pop, Cut
<1> HIDE DEF z
<1>3. [w EXCEPT !.stack = z] = W(T, b, z, n)  BY PutStack
<1> QED BY <1>2, <1>3 DEF z

\* Turned,
LEMMA TurnedTurns ==
  ASSUME NEW T, NEW b, NEW s \in Seq(Frame), s # <<>>, NEW n, NEW turn
  PROVE  Turned(W(T, b, s, n), turn) = W(T, b, Topped(s, InTurn(s[Len(s)], turn)), n)
<1> DEFINE w == W(T, b, s, n)
           k == Len(s)
           x == [s[k] EXCEPT !.turn = turn]
           z == [s EXCEPT ![k] = x]
<1>1. w.stack = s /\ k \in DOMAIN s  BY CutIs DEF W
<1>2. Turned(w, turn) = [w EXCEPT !.stack = z]
  <2>1. Turned(w, turn) = [w EXCEPT !.stack[k].turn = turn]  BY <1>1 DEF Turned
  <2>2. [w EXCEPT !.stack[k].turn = turn] = [w EXCEPT !.stack = [w.stack EXCEPT ![k] = [w.stack[k] EXCEPT !.turn = turn]]]
    <3> HIDE DEF k
    <3> QED BY DEF W
  <2> QED BY <1>1, <2>1, <2>2
<1>3. z = Topped(s, InTurn(s[Len(s)], turn))  BY DEF Topped, InTurn
<1> HIDE DEF z
<1>4. [w EXCEPT !.stack = z] = W(T, b, z, n)  BY PutStack
<1> QED BY <1>2, <1>3, <1>4

\* and Delete.
LEMMA DeleteTurns ==
  ASSUME NEW T \in [Tx -> Transaction], NEW b, NEW s, NEW n, NEW t \in Tx
  PROVE  Delete(W(T, b, s, n), t) = W(Upd(T, t, Deleted(T[t])), b, s, n)
BY DEF W, Delete, Deleted, Upd

\* The next filter is found and the active object activated.
LEMMA ActivateNextTurns ==
  ASSUME NEW T, NEW b, NEW s, NEW n, NEW t,
         FindNextFilter(T[t]).status = "EPassive" \/ ~FindNextFilter(T[t]).active
  PROVE  ActivateNext(W(T, b, s, n), t) = W(Upd(T, t, Activated(T[t])), b, s, n)
<1> DEFINE q == FindNextFilter(T[t])
           w == W(T, b, s, n)
<1>1. ActivateNext(w, t) = CASE q.status = "EPassive" -> [w EXCEPT !.tr[t] = q]
                             [] q.status # "EPassive" /\ q.active -> Panics(w, "AO already active")
                             [] OTHER -> [w EXCEPT !.tr[t] = [q EXCEPT !.active = TRUE]]
  BY DEF ActivateNext, W
<1>2. ActivateNext(w, t) = [w EXCEPT !.tr[t] = Activated(T[t])]
  <2> HIDE DEF w
  <2>1. CASE q.status = "EPassive"
    <3>1. Activated(T[t]) = q  BY <2>1 DEF Activated
    <3> HIDE DEF q
    <3> QED BY <1>1, <2>1, <3>1
  <2>2. CASE q.status # "EPassive"
    <3>1. Activated(T[t]) = [q EXCEPT !.active = TRUE] /\ ~q.active  BY <2>2 DEF Activated
    <3> HIDE DEF q
    <3>2. ActivateNext(w, t) = [w EXCEPT !.tr[t] = [q EXCEPT !.active = TRUE]]  BY <1>1, <2>2, <3>1
    <3> QED BY <3>1, <3>2
  <2> QED BY <2>1, <2>2
<1> QED BY <1>2, PutTurns

\* A transaction that was in nothing and may have something in its queue is where
\* it rests.
LEMMA ActivatedRests ==
  ASSUME NEW r \in Transaction, ~r.sync, ~r.active, r.life = "open"
  PROVE  /\ Activated(r) \in Transaction /\ Resting(Activated(r)) /\ Activated(r).life = "open"
         /\ Activated(r).status # "EBlocked"
         /\ FindNextFilter(r).status = "EPassive" \/ ~FindNextFilter(r).active
<1> DEFINE q == FindNextFilter(r)
<1>1. /\ q \in Transaction /\ ~q.sync /\ q.active = r.active /\ q.life = r.life
      /\ \/ q.status = "EPassive" /\ q.queue = <<>>
         \/ q.status = "EFilter" /\ q.queue # <<>> /\ q.next \in Filters
  BY FindInQueue DEF Kept
<1>2. Activated(r) = IF q.status = "EPassive" THEN q ELSE [q EXCEPT !.active = TRUE]  BY DEF Activated
<1> HIDE DEF q
<1>3. CASE q.status = "EPassive"
  <2>1. Activated(r) = q /\ q.queue = <<>>  BY <1>1, <1>2, <1>3
  <2>2. Resting(q)  BY <1>1, <1>3, <2>1 DEF Resting
  <2> QED BY <1>1, <1>3, <2>1, <2>2 DEF q
<1>4. CASE q.status = "EFilter"
  <2> DEFINE p == [q EXCEPT !.active = TRUE]
  <2>1. Activated(r) = p  BY <1>2, <1>4
  <2>2. p \in Transaction /\ p.active = TRUE /\ ~p.sync /\ p.life = q.life /\ p.status = "EFilter" /\ p.queue = q.queue /\ p.next = q.next
    BY <1>1, <1>4 DEF Transaction
  <2> HIDE DEF p
  <2>3. Resting(p)  BY <1>1, <1>4, <2>2 DEF Resting
  <2> QED BY <1>1, <1>4, <2>1, <2>2, <2>3 DEF q
<1> QED BY <1>1, <1>3, <1>4

-----------------------------------------------------------------------------
(* Events are sent *)

\* A transaction that has calls has a last one.
LEMMA LastCall ==
  ASSUME NEW s \in Seq(Frame), NEW t, Mine(s, t) # {}
  PROVE  \E i \in Mine(s, t) : \A j \in Mine(s, t) : j <= i
<1> DEFINE S == {Len(s) - i : i \in Mine(s, t)}
<1>1. Mine(s, t) \subseteq 1 .. Len(s) /\ Len(s) \in Nat  BY DEF Mine
<1>2. S \subseteq Nat /\ S # {}  BY <1>1
<1>3. PICK m \in S : \A n \in S : m <= n
  <2> HIDE DEF S
  <2> QED BY <1>2, Least
<1>4. PICK i \in Mine(s, t) : m = Len(s) - i  OBVIOUS
<1>5. \A j \in Mine(s, t) : j <= i
  <2> SUFFICES ASSUME NEW j \in Mine(s, t) PROVE j <= i  OBVIOUS
  <2>1. Len(s) - j \in S  OBVIOUS
  <2>2. m <= Len(s) - j  BY <1>3, <2>1
  <2> QED BY <1>1, <1>4, <2>2
<1> QED BY <1>5

\* Filter code runs only where the client is told of a failure, or no synchronous event
\* is on its way.
Calling(s) == s # <<>> /\ IsSync(s[Len(s)]) => s[Len(s)].turn = "in" /\ s[Len(s)].f = Client

\* Then all synchronous events on the stack are failures the client is told of.
LEMMA OnlyFailures ==
  ASSUME NEW T, NEW b, NEW s, Good(T, b, s), Calling(s)
  PROVE  \A i \in DOMAIN s : IsSync(s[i]) => /\ Fails(s[i]) /\ s[i].op = "fail" /\ s[i].turn = "in"
                                             /\ s[i].f = Client
<1> SUFFICES ASSUME NEW i \in DOMAIN s, IsSync(s[i])
             PROVE  Fails(s[i]) /\ s[i].op = "fail" /\ s[i].turn = "in" /\ s[i].f = Client
  OBVIOUS
<1>1. s \in Seq(Frame) /\ Lined(s)  BY DEF Good
<1>2. CASE i < Len(s)  BY <1>1, <1>2 DEF Lined
<1>3. CASE i = Len(s)
  <2> DEFINE x == s[i]
             r == T[x.t]
             a == Runs(s, x.t)
  <2>1. s # <<>> /\ x = s[Len(s)] /\ x.turn = "in" /\ x.f = Client  BY <1>1, <1>3 DEF Calling
  <2>2. InSync(r, x, a) /\ Stored(x, a) /\ x.t \in Tx /\ r \in Transaction  BY <1>3, <2>1, TopIsMine
  <2> HIDE DEF x, r, a
  <2>3. Fails(x)
    <3>1. CASE r.life = "open"
      <4>1. r.next = Client  BY <2>1, <2>2, <3>1 DEF InSync
      <4>2. ~(r.next < Client)  BY <4>1, ChainEnds
      <4> QED BY <2>1, <2>2, <3>1, <4>2 DEF InSync
    <3>2. CASE r.life # "open"
      <4>1. r.life = "closed"  BY <2>2, <3>2, TransactionFields DEF InSync, Lives
      <4> QED BY <2>2, <4>1 DEF InSync
    <3> QED BY <3>1, <3>2
  <2>4. x.op = "fail"  BY <2>2, <2>3 DEF Stored, Fails
  <2> QED BY <2>1, <2>3, <2>4 DEF x
<1> QED BY <1>1, <1>2, <1>3

\* Whoever may call: the scheduler waits, the client runs, or a filter in its RunL.
LEMMA CallersCall ==
  ASSUME IInv
  PROVE  /\ Scheduling => Calling(stack) /\ (stack # <<>> => ~IsSync(stack[Len(stack)]))
         /\ ClientRuns => Calling(stack)
         /\ \A t \in Tx : InAsyncFilter(t) =>
              Calling(stack) /\ stack # <<>> /\ stack[Len(stack)].t = t /\ ~IsSync(stack[Len(stack)])
<1>1. Good(tr, blocking, stack)  BY DEF IInv
<1>2. stack \in Seq(Frame) /\ Lined(stack)  BY <1>1 DEF Good
<1>3. Top(world) = stack[Len(stack)]  BY DEF Top, world
<1>4. stack # <<>> => Len(stack) \in DOMAIN stack  BY <1>2
<1>5. Scheduling /\ stack # <<>> => ~IsSync(stack[Len(stack)])
  BY <1>2, <1>3, <1>4 DEF Scheduling, Lined, IsSync
<1>6. ClientRuns => Calling(stack)
  BY <1>3, <1>5 DEF ClientRuns, FilterRuns, Calling, IsSync
<1>7. \A t \in Tx : InAsyncFilter(t) => stack # <<>> /\ stack[Len(stack)].t = t /\ ~IsSync(stack[Len(stack)])
  BY <1>3 DEF InAsyncFilter, InFilter, FilterRuns, IsSync
<1> QED BY <1>5, <1>6, <1>7 DEF Calling

Sending(w, t, r, m) == [w EXCEPT !.tr[t] = r, !.sends = m]

\* SendEvent writes a transaction and counts, for the bound.
LEMMA SendingTurns ==
  ASSUME NEW T, NEW b, NEW s, NEW n, NEW t, NEW r, NEW m
  PROVE  Sending(W(T, b, s, n), t, r, m) = W(Upd(T, t, r), b, s, m)
<1> DEFINE w == W(T, b, s, n)
           u == W(Upd(T, t, r), b, s, n)
<1>1. Sending(w, t, r, m) = [[w EXCEPT !.tr[t] = r] EXCEPT !.sends = m]  BY DEF Sending
<1>2. [w EXCEPT !.tr[t] = r] = u  BY PutTurns
<1>3. Sending(w, t, r, m) = [u EXCEPT !.sends = m]
  <2> HIDE DEF w, u
  <2> QED BY <1>1, <1>2
<1>4. [u EXCEPT !.sends = m] = W(Upd(T, t, r), b, s, m)  BY DEF W
<1> QED BY <1>3, <1>4

\* SendEvent, as a world.
LEMMA SendTurns ==
  ASSUME NEW T, NEW b, NEW s, NEW n, NEW t, T \in [Tx -> Transaction], t \in Tx, NEW ev, NEW handle,
         ValidHandle(T[t], handle), NEW e, e = Begun(ev, StartFilter(T[t], handle)),
         NEW q, q = AppendEvent(T[t], e)
  PROVE  SendEvent(W(T, b, s, n), t, ev, handle)
           = IF T[t].status = "EPassive" THEN ActivateNext(W(Upd(T, t, q), b, s, n + 1), t)
             ELSE W(Upd(T, t, q), b, s, n + 1)
<1> DEFINE w == W(T, b, s, n)
           r == w.tr[t]
<1>1. w.tr = T /\ r = T[t] /\ w.sends = n  BY DEF W
<1>2. Sending(w, t, q, n + 1) = W(Upd(T, t, q), b, s, n + 1)  BY SendingTurns
<1>3. SendEvent(w, t, ev, handle)
        = LET d == [ev |-> ev, start |-> StartFilter(r, handle), seen |-> <<>>]
              w1 == [w EXCEPT !.tr[t] = AppendEvent(r, d), !.sends = w.sends + 1]
          IN  CASE ~ValidHandle(r, handle) -> Panics(w, "EInvalidFilterHandle")
                [] ValidHandle(r, handle) /\ r.status = "EPassive" -> ActivateNext(w1, t)
                [] OTHER -> w1
  BY DEF SendEvent
<1> HIDE DEF w, r
<1>4. [ev |-> ev, start |-> StartFilter(r, handle), seen |-> <<>>] = e  BY <1>1 DEF Begun
<1> QED BY <1>1, <1>2, <1>3, <1>4 DEF w, Sending

\* Where an event starts.
LEMMA StartIs ==
  ASSUME NEW r \in Transaction, NEW ev \in Events, NEW handle
  PROVE  Begun(ev, StartFilter(r, handle)) \in Event
<1>1. StartFilter(r, handle) \in Filters  BY TransactionFields, ChainEnds DEF StartFilter
<1>2. <<>> \in Seq(Filters)  OBVIOUS
<1> QED BY <1>1, <1>2 DEF Begun, Event

\* AppendEvent keeps all but the slot of the event.
LEMMA AppendEventIs ==
  ASSUME NEW r \in Transaction, NEW e \in Event
  PROVE  LET q == AppendEvent(r, e) IN
         /\ q \in Transaction /\ q.status = r.status /\ q.active = r.active /\ q.sync = r.sync
         /\ q.next = r.next /\ q.life = r.life /\ q.atHandler = r.atHandler
         /\ r.sync => q.queue = r.queue /\ q.syncEvent = e
         /\ ~r.sync => q.queue # <<>> /\ q.syncEvent = r.syncEvent
<1>1. r.queue \in Seq(Event) /\ r.sync \in BOOLEAN  BY TransactionFields
<1> DEFINE z == Append(r.queue, e)
<1>2. z \in Seq(Event) /\ z # <<>>  BY <1>1
<1>3. AppendEvent(r, e) = IF r.sync THEN [r EXCEPT !.syncEvent = e] ELSE [r EXCEPT !.queue = z]
  BY DEF AppendEvent
<1> HIDE DEF z
<1>4. CASE r.sync  BY <1>3, <1>4 DEF Transaction
<1>5. CASE ~r.sync  BY <1>2, <1>3, <1>5 DEF Transaction
<1> QED BY <1>4, <1>5

-----------------------------------------------------------------------------
(* SendEvent keeps the invariant *)

\* Of two writings of a transaction the second stands.
LEMMA Twice ==
  ASSUME NEW T \in [Tx -> Transaction], NEW t \in Tx, NEW q, NEW z
  PROVE  Upd(Upd(T, t, q), t, z) = Upd(T, t, z)
BY DEF Upd

\* Without an event, no call of it may be on its way where SendEvent is called.
LEMMA PassiveRests ==
  ASSUME NEW T, NEW b, NEW s, Good(T, b, s), NEW t \in Tx, Calling(s), T[t].life = "open", T[t].status = "EPassive"
  PROVE  Mine(s, t) = {} /\ Resting(T[t])
<1>1. Fits(t, T[t], s) /\ s \in Seq(Frame)  BY DEF Good
<1>2. \A i \in DOMAIN s : IsSync(s[i]) => s[i].turn = "in"  BY OnlyFailures
<1>3. ASSUME Mine(s, t) # {}  PROVE FALSE
  <2>1. PICK i \in Mine(s, t) : \A j \in Mine(s, t) : j <= i  BY <1>1, <1>3, LastCall
  <2>2. i \in DOMAIN s  BY DEF Mine
  <2>3. IF IsSync(s[i]) THEN InSync(T[t], s[i], Runs(s, t)) ELSE InRunL(T[t], s[i])  BY <1>1, <2>1 DEF Fits
  <2> QED BY <1>2, <2>2, <2>3 DEF InSync, InRunL
<1> QED BY <1>1, <1>3 DEF Fits

\* With one, the new event changes nothing that Fits speaks of.
LEMMA AppendFits ==
  ASSUME NEW T, NEW b, NEW s, Good(T, b, s), NEW t \in Tx, Calling(s), T[t].life = "open", T[t].status # "EPassive",
         NEW e \in Event
  PROVE  Fits(t, AppendEvent(T[t], e), s)
<1> DEFINE r == T[t]
           q == AppendEvent(r, e)
<1>1. Fits(t, r, s) /\ s \in Seq(Frame) /\ r \in Transaction  BY DEF Good
<1>2. /\ q.status = r.status /\ q.active = r.active /\ q.sync = r.sync
      /\ q.next = r.next /\ q.life = r.life /\ q.atHandler = r.atHandler
      /\ r.sync => q.queue = r.queue
      /\ ~r.sync => q.queue # <<>>
  BY <1>1, AppendEventIs
<1>3. \A i \in DOMAIN s : IsSync(s[i]) => Fails(s[i]) /\ s[i].op = "fail" /\ s[i].turn = "in"
  BY OnlyFailures
<1> HIDE DEF q
<1>4. r.life = "open" /\ r.status # "EPassive"  OBVIOUS
<1> HIDE DEF r
<1>5. Gone(q)  BY <1>2, <1>4 DEF Gone
<1>6. Mine(s, t) = {} => Resting(q)
  BY <1>1, <1>2, <1>4 DEF Fits, Resting
<1>7. ASSUME NEW i \in Mine(s, t), \A j \in Mine(s, t) : j <= i
      PROVE  IF IsSync(s[i]) THEN InSync(q, s[i], Runs(s, t)) ELSE InRunL(q, s[i])
  <2>1. i \in DOMAIN s  BY DEF Mine
  <2>2. IF IsSync(s[i]) THEN InSync(r, s[i], Runs(s, t)) ELSE InRunL(r, s[i])  BY <1>1, <1>7 DEF Fits
  <2>3. CASE IsSync(s[i])
    <3>1. InSync(r, s[i], Runs(s, t)) /\ Fails(s[i]) /\ s[i].op = "fail" /\ s[i].turn = "in"
      BY <1>3, <2>1, <2>2, <2>3
    <3>2. InSync(q, s[i], Runs(s, t))  BY <1>2, <1>4, <3>1 DEF InSync
    <3> QED BY <2>3, <3>2
  <2>4. CASE ~IsSync(s[i])
    <3>1. InRunL(r, s[i])  BY <2>2, <2>4
    <3>2. InRunL(q, s[i])  BY <1>2, <1>4, <3>1 DEF InRunL
    <3> QED BY <2>4, <3>2
  <2> QED BY <2>3, <2>4
<1>8. Fits(t, q, s)  BY <1>1, <1>5, <1>6, <1>7, FitsStill
<1> QED BY <1>8 DEF q, r

\* The world w differs in the transactions only, and is a good one.
Reaches(w, b, s, n) == \E X : w = W(X, b, s, n) /\ Good(X, b, s)

\* SendEvent appends the event and, where the transaction was passive, activates it.
LEMMA SendIs ==
  ASSUME NEW T, NEW b, NEW s, Good(T, b, s), NEW t \in Tx, Calling(s), T[t].life = "open",
         NEW n, NEW ev \in Events, NEW handle, ValidHandle(T[t], handle),
         NEW e, e = Begun(ev, StartFilter(T[t], handle)), NEW q, q = AppendEvent(T[t], e)
  PROVE  /\ q \in Transaction /\ e \in Event
         /\ T[t].status # "EPassive" => SendEvent(W(T, b, s, n), t, ev, handle) = W(Upd(T, t, q), b, s, n + 1)
         /\ T[t].status = "EPassive" =>
              /\ SendEvent(W(T, b, s, n), t, ev, handle) = W(Upd(T, t, Activated(q)), b, s, n + 1)
              /\ Mine(s, t) = {} /\ Resting(T[t]) /\ ~q.sync /\ ~q.active /\ q.life = "open"
<1> DEFINE r == T[t]
           w1 == W(Upd(T, t, q), b, s, n + 1)
<1>1. T \in [Tx -> Transaction] /\ r \in Transaction  BY DEF Good
<1>2. e \in Event  BY <1>1, StartIs
<1>3. q \in Transaction /\ q.status = r.status /\ q.active = r.active /\ q.sync = r.sync /\ q.life = r.life
  BY <1>1, <1>2, AppendEventIs
<1>4. SendEvent(W(T, b, s, n), t, ev, handle) = IF r.status = "EPassive" THEN ActivateNext(w1, t) ELSE w1
  BY <1>1, SendTurns
<1>5. ASSUME r.status = "EPassive"
      PROVE  /\ SendEvent(W(T, b, s, n), t, ev, handle) = W(Upd(T, t, Activated(q)), b, s, n + 1)
             /\ Mine(s, t) = {} /\ Resting(r) /\ ~q.sync /\ ~q.active /\ q.life = "open"
  <2> DEFINE z == Activated(q)
  <2>1. Mine(s, t) = {} /\ Resting(r)  BY <1>5, PassiveRests
  <2>2. ~q.sync /\ ~q.active /\ q.life = "open"  BY <1>3, <1>5, <2>1 DEF Resting
  <2>3. FindNextFilter(q).status = "EPassive" \/ ~FindNextFilter(q).active  BY <1>3, <2>2, ActivatedRests
  <2>4. Upd(T, t, q)[t] = q  BY <1>1, <1>3, UpdTransaction
  <2>5. ActivateNext(w1, t) = W(Upd(Upd(T, t, q), t, z), b, s, n + 1)
    BY <2>3, <2>4, ActivateNextTurns
  <2>6. Upd(Upd(T, t, q), t, z) = Upd(T, t, z)  BY <1>1, Twice
  <2> HIDE DEF z
  <2>7. SendEvent(W(T, b, s, n), t, ev, handle) = W(Upd(T, t, z), b, s, n + 1)  BY <1>4, <1>5, <2>5, <2>6
  <2> QED BY <2>1, <2>2, <2>7 DEF z
<1> HIDE DEF w1
<1>6. r.status # "EPassive" => SendEvent(W(T, b, s, n), t, ev, handle) = w1  BY <1>4
<1> QED BY <1>2, <1>3, <1>5, <1>6 DEF w1

\* SendEvent keeps the invariant.
LEMMA SendKeeps ==
  ASSUME NEW T, NEW b, NEW s, Good(T, b, s), NEW t \in Tx, Calling(s), T[t].life = "open",
         NEW n, NEW ev \in Events, NEW handle, ValidHandle(T[t], handle)
  PROVE  Reaches(SendEvent(W(T, b, s, n), t, ev, handle), b, s, n + 1)
<1> DEFINE r == T[t]
           e == Begun(ev, StartFilter(r, handle))
           q == AppendEvent(r, e)
<1>1. T \in [Tx -> Transaction] /\ r \in Transaction /\ b \in Blocking /\ s \in Seq(Frame) /\ Lined(s)
  BY DEF Good
<1>2. e \in Event  BY <1>1, StartIs
<1>3. q \in Transaction /\ q.status = r.status /\ q.active = r.active /\ q.sync = r.sync /\ q.life = r.life
  BY <1>1, <1>2, AppendEventIs
<1>4. /\ r.status # "EPassive" => SendEvent(W(T, b, s, n), t, ev, handle) = W(Upd(T, t, q), b, s, n + 1)
      /\ r.status = "EPassive" =>
           /\ SendEvent(W(T, b, s, n), t, ev, handle) = W(Upd(T, t, Activated(q)), b, s, n + 1)
           /\ Mine(s, t) = {} /\ Resting(r) /\ ~q.sync /\ ~q.active /\ q.life = "open"
  BY SendIs
<1>5. (b # "ENormal") <=> (s # <<>> /\ ~IsSync(s[1]))  BY DEF Good
<1>6. r.status = "EBlocked" => b = "EHasBlocked"  BY DEF Good
<1>7. \A u \in Tx : SameCalls(s, s, u)  BY DEF SameCalls
<1>8. CASE r.status # "EPassive"
  <2>1. Fits(t, q, s)  BY <1>2, <1>8, AppendFits
  <2>2. Good(Upd(T, t, q), b, s)
    <3> HIDE DEF q, e
    <3> QED BY <1>1, <1>3, <1>5, <1>6, <1>7, <2>1, GoodStep
  <2> QED BY <1>4, <1>8, <2>2 DEF Reaches
<1>9. CASE r.status = "EPassive"
  <2> DEFINE z == Activated(q)
  <2> HIDE DEF q
  <2>1. z \in Transaction /\ Resting(z) /\ z.life = "open" /\ z.status # "EBlocked"
    BY <1>3, <1>4, <1>9, ActivatedRests
  <2> HIDE DEF z
  <2>2. Fits(t, z, s)  BY <1>4, <1>9, <2>1, FitsResting DEF Gone
  <2>3. Good(Upd(T, t, z), b, s)  BY <1>1, <1>5, <1>7, <2>1, <2>2, GoodStep
  <2> QED BY <1>4, <1>9, <2>3 DEF Reaches, z
<1> QED BY <1>8, <1>9

-----------------------------------------------------------------------------
(* A filter is entered *)

Entered(r, a, h, c) == [r EXCEPT !.current = r.next, !.status = "EInFilter", !.asyncFilter = a,
                                 !.atHandler = h, !.cipher = c]

\* What EnterFilter writes beside the event.
LEMMA EnteredTyped ==
  ASSUME NEW r \in Transaction, r.next \in Filters, NEW a \in Filters, NEW h \in BOOLEAN, NEW c \in BOOLEAN
  PROVE  LET q == Entered(r, a, h, c) IN
         /\ q \in Transaction /\ q.status = "EInFilter" /\ q.active = r.active /\ q.sync = r.sync
         /\ q.next = r.next /\ q.life = r.life /\ q.atHandler = h /\ q.queue = r.queue /\ q.syncEvent = r.syncEvent
BY DEF Entered, Transaction, States

SetQueue(r, z) == [r EXCEPT !.queue = z]
SetSyncEvent(r, e) == [r EXCEPT !.syncEvent = e]

\* The queue and the synchronous event are written.
LEMMA SetTyped ==
  ASSUME NEW r \in Transaction
  PROVE  /\ \A z \in Seq(Event) : LET q == SetQueue(r, z) IN
              /\ q \in Transaction /\ q.status = r.status /\ q.active = r.active /\ q.sync = r.sync
              /\ q.next = r.next /\ q.life = r.life /\ q.atHandler = r.atHandler /\ q.queue = z
         /\ \A e \in Event : LET q == SetSyncEvent(r, e) IN
              /\ q \in Transaction /\ q.status = r.status /\ q.active = r.active /\ q.sync = r.sync
              /\ q.next = r.next /\ q.life = r.life /\ q.atHandler = r.atHandler /\ q.queue = r.queue
              /\ q.syncEvent = e
BY DEF SetQueue, SetSyncEvent, Transaction

Visit(e, f) == [e EXCEPT !.seen = Append(e.seen, f)]
\* A visit is noted.
LEMMA VisitTyped ==
  ASSUME NEW e \in Event, NEW f \in Filters
  PROVE  Visit(e, f) \in Event /\ Visit(e, f).ev = e.ev /\ Visit(e, f).start = e.start
<1> DEFINE z == Append(e.seen, f)
<1>1. z \in Seq(Filters)  BY EventFields
<1>2. Visit(e, f) = [e EXCEPT !.seen = z]  BY DEF Visit
<1> HIDE DEF z
<1> QED BY <1>1, <1>2 DEF Event

\* A queue whose first event visits the next filter.
Visiting(r) == [r.queue EXCEPT ![1] = Visit(r.queue[1], r.next)]

\* RunOneFilterL up to the filter.
LEMMA EnterIs ==
  ASSUME NEW r \in Transaction, r.next \in Filters, r.sync \/ r.queue # <<>>
  PROVE  /\ EnterFilter(r) \in Transaction /\ EnterFilter(r).status = "EInFilter"
         /\ EnterFilter(r).active = r.active /\ EnterFilter(r).sync = r.sync
         /\ EnterFilter(r).next = r.next /\ EnterFilter(r).life = r.life
         /\ r.sync => /\ EnterFilter(r).queue = r.queue /\ EnterFilter(r).syncEvent.ev = r.syncEvent.ev
                      /\ EnterFilter(r).syncEvent = Visit(r.syncEvent, r.next)
                      /\ r.syncEvent.ev # "ESubmit" => (EnterFilter(r).atHandler => r.atHandler)
                      /\ r.syncEvent.ev \in {"ECancel", "EClosed"} /\ r.next = 0 => ~EnterFilter(r).atHandler
         /\ ~r.sync => EnterFilter(r).queue # <<>> /\ EnterFilter(r).queue = Visiting(r)
<1>1. /\ r.queue \in Seq(Event) /\ r.syncEvent \in Event /\ r.sync \in BOOLEAN /\ r.asyncFilter \in Filters
      /\ r.atHandler \in BOOLEAN /\ r.cipher \in BOOLEAN
  BY TransactionFields
<1> DEFINE e == EventList(r)[1]
           v == Visit(e, r.next)
           a == IF r.sync THEN r.asyncFilter ELSE r.next
           h == IF r.next # 0 THEN r.atHandler
                ELSE IF e.ev = "ESubmit" THEN TRUE ELSE r.atHandler /\ e.ev \notin {"ECancel", "EClosed"}
           c == r.cipher \/ (r.next = 0 /\ e.ev = "EGetCipherSuite")
           r1 == Entered(r, a, h, c)
           z == [r1.queue EXCEPT ![1] = v]
<1>2. EnterFilter(r) = IF r.sync THEN [r1 EXCEPT !.syncEvent = v] ELSE [r1 EXCEPT !.queue[1] = v]
  BY DEF EnterFilter, Entered, Visit
<1>3. a \in Filters /\ h \in BOOLEAN /\ c \in BOOLEAN
  <2>1. a \in Filters  BY <1>1
  <2>2. h \in BOOLEAN  BY <1>1
  <2>3. c \in BOOLEAN  BY <1>1
  <2> QED BY <2>1, <2>2, <2>3
<1>4. EventList(r) = IF r.sync THEN <<r.syncEvent>> \o r.queue ELSE r.queue  BY DEF EventList
<1>5. e \in Event /\ (r.sync => e = r.syncEvent) /\ (~r.sync => e = r.queue[1])
  <2>1. CASE r.sync
    <3>1. (<<r.syncEvent>> \o r.queue)[1] = r.syncEvent  BY <1>1
    <3> QED BY <1>1, <1>4, <2>1, <3>1
  <2>2. CASE ~r.sync
    <3>1. r.queue[1] \in Event  BY <1>1, <2>2
    <3> QED BY <1>4, <2>2, <3>1
  <2> QED BY <1>1, <2>1, <2>2
<1>6. /\ h => r.atHandler \/ e.ev = "ESubmit"
      /\ e.ev \in {"ECancel", "EClosed"} /\ r.next = 0 => ~h
  BY <1>1
<1> HIDE DEF a, h, c, e
<1>7. v \in Event /\ v.ev = e.ev  BY <1>5, VisitTyped
<1>8. /\ r1 \in Transaction /\ r1.status = "EInFilter" /\ r1.active = r.active /\ r1.sync = r.sync
      /\ r1.next = r.next /\ r1.life = r.life /\ r1.atHandler = h /\ r1.queue = r.queue /\ r1.syncEvent = r.syncEvent
  BY <1>3, EnteredTyped
<1>9. ~r.sync => z \in Seq(Event) /\ z # <<>> /\ z = Visiting(r)
  <2> SUFFICES ASSUME ~r.sync PROVE z \in Seq(Event) /\ z # <<>> /\ z = Visiting(r)  OBVIOUS
  <2> DEFINE q == r1.queue
  <2>1. q \in Seq(Event) /\ q # <<>>  BY <1>1, <1>8
  <2> HIDE DEF q, v
  <2>2. [q EXCEPT ![1] = v] \in Seq(Event) /\ [q EXCEPT ![1] = v] # <<>>  BY <1>7, <2>1
  <2>3. q = r.queue /\ v = Visit(r.queue[1], r.next)  BY <1>5, <1>8 DEF q, v
  <2>4. [q EXCEPT ![1] = v] = Visiting(r)  BY <2>3 DEF Visiting
  <2> QED BY <2>2, <2>4 DEF q
<1>10. EnterFilter(r) = IF r.sync THEN SetSyncEvent(r1, v) ELSE SetQueue(r1, z)
  BY <1>2 DEF SetSyncEvent, SetQueue
<1>13. r.sync => v = Visit(r.syncEvent, r.next)  BY <1>5
<1> HIDE DEF z, v, r1
<1>11. CASE r.sync
  <2>1. EnterFilter(r) = SetSyncEvent(r1, v)  BY <1>10, <1>11
  <2> DEFINE q == SetSyncEvent(r1, v)
  <2>2. /\ q \in Transaction /\ q.status = r1.status /\ q.active = r1.active /\ q.sync = r1.sync
        /\ q.next = r1.next /\ q.life = r1.life /\ q.atHandler = r1.atHandler /\ q.queue = r1.queue
        /\ q.syncEvent = v
    BY <1>7, <1>8, SetTyped
  <2> HIDE DEF q
  <2>3. EnterFilter(r) = q  BY <2>1 DEF q
  <2> QED BY <1>5, <1>6, <1>7, <1>8, <1>11, <1>13, <2>2, <2>3
<1>12. CASE ~r.sync
  <2>1. EnterFilter(r) = SetQueue(r1, z)  BY <1>10, <1>12
  <2> DEFINE q == SetQueue(r1, z)
  <2>2. /\ q \in Transaction /\ q.status = r1.status /\ q.active = r1.active /\ q.sync = r1.sync
        /\ q.next = r1.next /\ q.life = r1.life /\ q.atHandler = r1.atHandler /\ q.queue = z
    BY <1>8, <1>9, <1>12, SetTyped
  <2> HIDE DEF q
  <2>3. EnterFilter(r) = q  BY <2>1 DEF q
  <2> QED BY <1>8, <1>9, <1>12, <2>2, <2>3
<1> QED BY <1>1, <1>11, <1>12

-----------------------------------------------------------------------------
(* RunL and the calls of filters out of it *)

\* A RunL goes on with another state of its transaction.
LEMMA RunKeeps ==
  ASSUME NEW T, NEW b, NEW s, Good(T, b, s), s # <<>>, ~IsSync(s[Len(s)]), NEW y \in Frame, ~IsSync(y),
         y.t = s[Len(s)].t, y.nested => y.kind = "run", NEW r \in Transaction, InRunL(r, y), Gone(r)
  PROVE  Good(Upd(T, y.t, r), b, Topped(s, y))
<1> DEFINE x == s[Len(s)]
           z == Topped(s, y)
<1>1. T \in [Tx -> Transaction] /\ b \in Blocking /\ s \in Seq(Frame)  BY DEF Good
<1>2. x \in Frame /\ x.t \in Tx /\ s = <<x>> /\ Len(s) = 1 /\ b # "ENormal"  BY TopIsMine
<1>3. z = <<y>>
  <2>1. z \in Seq(Frame) /\ Len(z) = 1 /\ z[1] = y  BY <1>1, <1>2, ToppedIs
  <2> QED BY <2>1
<1>4. z \in Seq(Frame)  BY <1>1, ToppedIs
<1>5. \A u \in Tx : u # y.t => SameCalls(s, z, u)  BY <1>1, ToppedOthers
<1> HIDE DEF z
<1>6. Fits(y.t, r, z) /\ Lined(z)
  <2>1. Lined(<<y>>) = (y.nested => y.kind = "run")  BY FitsInRunL
  <2>2. Fits(y.t, r, <<y>>)  BY FitsInRunL
  <2> QED BY <1>3, <2>1, <2>2
<1>7. (b # "ENormal") <=> (z # <<>> /\ ~IsSync(z[1]))  BY <1>2, <1>3
<1>8. b = "EHasBlocked" \/ r.status = "EBlocked" => b = "EHasBlocked"
  <2>1. r.status # "EBlocked"
    BY DEF InRunL, Gone, Transaction, Lives
  <2> QED BY <2>1
<1>9. y.t \in Tx  BY <1>2
<1>10. Good(Upd(T, y.t, r), b, z)  BY <1>1, <1>4, <1>5, <1>6, <1>7, <1>8, <1>9, GoodStep
<1> QED BY <1>10 DEF z

SetBlocking(w, b) == [w EXCEPT !.blocking = b]
SetAll(w, F) == [w EXCEPT !.tr = F]

\* The blocking state or all transactions are written.
LEMMA SetTurns ==
  ASSUME NEW T, NEW b, NEW s, NEW n
  PROVE  /\ \A c : SetBlocking(W(T, b, s, n), c) = W(T, c, s, n)
         /\ \A F : SetAll(W(T, b, s, n), F) = W(F, b, s, n)
<1>1. \A c : SetBlocking(W(T, b, s, n), c) = W(T, c, s, n)  BY DEF W, SetBlocking
<1>2. \A F : SetAll(W(T, b, s, n), F) = W(F, b, s, n)  BY DEF W, SetAll
<1> QED BY <1>1, <1>2

\* Those who have blocked wake.
LEMMA UnblockTurns ==
  ASSUME NEW T, NEW b, NEW s, NEW n, T \in [Tx -> Transaction], \A u \in Tx : Wakes(T[u]) => ~T[u].active
  PROVE  Unblock(W(T, b, s, n)) = W(Woken(T, b), "ENormal", s, n)
<1> DEFINE w == W(T, b, s, n)
           k == IF w.blocking = "EHasBlocked"
                THEN {t \in Tx : w.tr[t].life = "open" /\ w.tr[t].status = "EBlocked"} ELSE {}
           F == [t \in Tx |-> IF t \in k THEN [w.tr[t] EXCEPT !.status = "EFilter", !.active = TRUE] ELSE w.tr[t]]
           w1 == [w EXCEPT !.blocking = "ENormal", !.tr = F]
<1>1. w.tr = T /\ w.blocking = b  BY DEF W
<1>2. k = IF b = "EHasBlocked" THEN {t \in Tx : Wakes(T[t])} ELSE {}  BY <1>1 DEF Wakes
<1>3. F = Woken(T, b)
  <2> HIDE DEF k, w
  <2>1. F = [t \in Tx |-> IF t \in k THEN [T[t] EXCEPT !.status = "EFilter", !.active = TRUE] ELSE T[t]]  BY <1>1
  <2>2. CASE b = "EHasBlocked"
    <3>1. \A t \in Tx : t \in k <=> Wakes(T[t])  BY <1>2, <2>2
    <3>2. F = [t \in Tx |-> IF Wakes(T[t]) THEN [T[t] EXCEPT !.status = "EFilter", !.active = TRUE] ELSE T[t]]
      BY <2>1, <3>1
    <3> QED BY <2>2, <3>2 DEF Woken
  <2>3. CASE b # "EHasBlocked"
    <3>1. F = [t \in Tx |-> T[t]]  BY <1>2, <2>1, <2>3
    <3>2. F = T  BY <3>1
    <3> QED BY <2>3, <3>2 DEF Woken
  <2> QED BY <2>2, <2>3
<1>4. Unblock(w) = IF \E t \in k : w.tr[t].active THEN Panics(w1, "AO already active") ELSE w1
  BY DEF Unblock
<1>5. ~\E t \in k : w.tr[t].active
  <2> HIDE DEF k, w
  <2> QED BY <1>1, <1>2
<1> HIDE DEF F, k
<1>6. w1 = W(F, "ENormal", s, n)
  <2>1. w1 = SetAll(SetBlocking(w, "ENormal"), F)  BY Zenon DEF SetAll, SetBlocking
  <2>2. SetBlocking(w, "ENormal") = W(T, "ENormal", s, n)  BY SetTurns
  <2> HIDE DEF w
  <2>3. w1 = SetAll(W(T, "ENormal", s, n), F)  BY <2>1, <2>2
  <2> QED BY <2>3, SetTurns
<1> QED BY <1>3, <1>4, <1>5, <1>6

\* What waking makes of the others when one transaction leaves its RunL.
LEMMA WokenUpd ==
  ASSUME NEW T \in [Tx -> Transaction], NEW b, NEW t \in Tx, NEW r, NEW z, ~Wakes(r), ~Wakes(z)
  PROVE  /\ Upd(Woken(Upd(T, t, r), b), t, z) = Woken(Upd(T, t, z), b)
         /\ Woken(Upd(T, t, r), b)[t] = r
BY DEF Woken, Upd

\* Who wakes rests as before, and is going to run.
LEMMA WokenRests ==
  ASSUME NEW r \in Transaction, Resting(r), Gone(r), Wakes(r), NEW q, q = [r EXCEPT !.status = "EFilter", !.active = TRUE]
  PROVE  q \in Transaction /\ Resting(q) /\ Gone(q) /\ q.status # "EBlocked" /\ ~r.active
BY DEF Transaction, Resting, Gone, Wakes, States

\* The last call on the stack, a RunL, returns.
LEMMA RunEnds ==
  ASSUME NEW T, NEW b, NEW s, Good(T, b, s), s # <<>>, ~IsSync(s[Len(s)]), NEW t, t = s[Len(s)].t,
         NEW r \in Transaction, Resting(r), Gone(r), r.status # "EBlocked"
  PROVE  /\ Good(Woken(Upd(T, t, r), b), "ENormal", <<>>)
         /\ \A u \in Tx : Wakes(Upd(T, t, r)[u]) => ~Upd(T, t, r)[u].active
<1> DEFINE k == Upd(T, t, r)
           g == Woken(k, b)
<1>1. T \in [Tx -> Transaction] /\ b \in Blocking /\ s \in Seq(Frame)  BY DEF Good
<1>2. s[Len(s)] \in Frame /\ t \in Tx /\ s = <<s[Len(s)]>> /\ Len(s) = 1 /\ b # "ENormal"  BY TopIsMine
<1>3. k \in [Tx -> Transaction] /\ k[t] = r /\ \A u \in Tx : u # t => k[u] = T[u]  BY <1>1, <1>2, UpdTransaction
<1>4. \A u \in Tx : u # t => Resting(T[u]) /\ Gone(T[u])
  <2> SUFFICES ASSUME NEW u \in Tx, u # t PROVE Resting(T[u]) /\ Gone(T[u])  OBVIOUS
  <2>1. Mine(s, u) = {}  BY <1>1, <1>2 DEF Mine
  <2>2. Fits(u, T[u], s)  BY DEF Good
  <2> QED BY <2>1, <2>2 DEF Fits, Gone
<1>5. \A u \in Tx : Resting(k[u]) /\ Gone(k[u]) /\ k[u] \in Transaction  BY <1>3, <1>4
<1>6. \A u \in Tx : k[u].status = "EBlocked" => b = "EHasBlocked"  BY <1>3 DEF Good
<1> HIDE DEF k
<1>7. \A u \in Tx : Wakes(k[u]) => ~k[u].active  BY <1>5, WokenRests
<1>8. ASSUME NEW u \in Tx
      PROVE  g[u] \in Transaction /\ Resting(g[u]) /\ Gone(g[u]) /\ g[u].status # "EBlocked"
  <2>1. CASE b = "EHasBlocked" /\ Wakes(k[u])
    <3>1. g[u] = [k[u] EXCEPT !.status = "EFilter", !.active = TRUE]  BY <2>1 DEF Woken
    <3> QED BY <1>5, <2>1, <3>1, WokenRests
  <2>2. CASE ~(b = "EHasBlocked" /\ Wakes(k[u]))
    <3>1. g[u] = k[u]  BY <1>3, <2>2 DEF Woken
    <3>2. k[u].status # "EBlocked"  BY <1>5, <1>6, <2>2 DEF Wakes, Gone
    <3> QED BY <1>5, <3>1, <3>2
  <2> QED BY <2>1, <2>2
<1>9. g \in [Tx -> Transaction]
  <2>1. g = [u \in Tx |-> g[u]]  BY <1>3 DEF Woken
  <2> HIDE DEF g
  <2> QED BY <1>8, <2>1
<1> HIDE DEF g
<1>10. \A u \in Tx : Fits(u, g[u], <<>>)  BY <1>8, NoCalls, FitsResting
<1>11. Good(g, "ENormal", <<>>)  BY <1>8, <1>9, <1>10, NoCalls DEF Good, Blocking
<1> QED BY <1>7, <1>11 DEF g, k

-----------------------------------------------------------------------------
(* The active scheduler: RunL *)

\* What RunL does first, and where it blocks.
Idle(r) == [r EXCEPT !.active = FALSE]
Blocked(r) == [r EXCEPT !.status = "EBlocked"]
RunCall(t, r) == [kind |-> "run", t |-> t, f |-> r.next, nested |-> FALSE]

\* An active object that may run is in no filter and has an event.
LEMMA ActiveRests ==
  ASSUME NEW T, NEW b, NEW s, Good(T, b, s), NEW t \in Tx, T[t].active
  PROVE  Mine(s, t) = {} /\ Resting(T[t]) /\ T[t].life = "open" /\ T[t].status = "EFilter" /\ T[t].queue # <<>>
<1>1. Fits(t, T[t], s) /\ s \in Seq(Frame)  BY DEF Good
<1>2. ASSUME Mine(s, t) # {}  PROVE FALSE
  <2>1. PICK i \in Mine(s, t) : \A j \in Mine(s, t) : j <= i  BY <1>1, <1>2, LastCall
  <2>2. IF IsSync(s[i]) THEN InSync(T[t], s[i], Runs(s, t)) ELSE InRunL(T[t], s[i])  BY <1>1, <2>1 DEF Fits
  <2> QED BY <2>2 DEF InSync, InRunL
<1>3. Resting(T[t]) /\ T[t].life = "open"  BY <1>1, <1>2 DEF Fits
<1> QED BY <1>2, <1>3 DEF Resting

\* It waits while another one is in a filter.
LEMMA RunBlocks ==
  ASSUME NEW T, NEW b, NEW s, Good(T, b, s), NEW t \in Tx, T[t].active, b # "ENormal",
         NEW q, q = Blocked(Idle(T[t]))
  PROVE  Good(Upd(T, t, q), "EHasBlocked", s)
<1>1. T[t] \in Transaction /\ b \in Blocking /\ s \in Seq(Frame) /\ Lined(s)  BY DEF Good
<1>2. Mine(s, t) = {} /\ Resting(T[t]) /\ T[t].life = "open" /\ T[t].status = "EFilter" /\ T[t].queue # <<>>
  BY ActiveRests
<1>3. q \in Transaction /\ q.status = "EBlocked" /\ ~q.active /\ q.life = "open" /\ q.queue = T[t].queue
      /\ q.next = T[t].next /\ q.sync = T[t].sync
  BY <1>1, <1>2 DEF Transaction, States, Blocked, Idle
<1>4. Resting(q) /\ Gone(q)  BY <1>2, <1>3 DEF Resting, Gone
<1>5. Fits(t, q, s)  BY <1>2, <1>4, FitsResting
<1>6. \A u \in Tx : SameCalls(s, s, u)  BY DEF SameCalls
<1>7. (b # "ENormal") <=> (s # <<>> /\ ~IsSync(s[1]))  BY DEF Good
<1> QED BY <1>1, <1>3, <1>5, <1>6, <1>7, GoodStep DEF Blocking

\* Or it enters a filter, the only call then.
LEMMA RunEnters ==
  ASSUME NEW T, NEW b, NEW s, Good(T, b, s), s = <<>>, NEW t \in Tx, T[t].active,
         NEW r, r = Idle(T[t]), NEW x, x = RunCall(t, r)
  PROVE  Good(Upd(T, t, EnterFilter(r)), "EShouldBlock", <<x>>)
<1>1. T[t] \in Transaction /\ b \in Blocking /\ T \in [Tx -> Transaction]  BY DEF Good
<1>2. Resting(T[t]) /\ T[t].life = "open" /\ T[t].status = "EFilter" /\ T[t].queue # <<>>  BY ActiveRests
<1>3. r \in Transaction /\ ~r.active /\ r.life = "open" /\ r.queue # <<>> /\ r.next \in Filters /\ ~r.sync
  BY <1>1, <1>2 DEF Transaction, Resting, Idle
<1> DEFINE q == EnterFilter(r)
<1>4. q \in Transaction /\ q.status = "EInFilter" /\ ~q.active /\ ~q.sync /\ q.life = "open" /\ q.queue # <<>>
  BY <1>3, EnterIs
<1>5. x \in Frame /\ ~IsSync(x) /\ x.t = t /\ ~x.nested  BY <1>3 DEF Frame, AsyncFrame, IsSync, RunCall
<1> HIDE DEF q
<1>6. InRunL(q, x) /\ Gone(q)  BY <1>4 DEF InRunL, Gone
<1> DEFINE z == <<x>>
<1>7. Fits(t, q, z) /\ Lined(z)
  <2>1. Fits(x.t, q, <<x>>)  BY <1>5, <1>6, FitsInRunL
  <2>2. Lined(<<x>>) = (x.nested => x.kind = "run")  BY <1>5, <1>6, FitsInRunL
  <2> QED BY <1>5, <2>1, <2>2
<1>8. z \in Seq(Frame) /\ z # <<>> /\ z[1] = x /\ DOMAIN z = {1}  BY <1>5
<1>9. \A u \in Tx : u # t => SameCalls(s, z, u)
  <2> SUFFICES ASSUME NEW u \in Tx, u # t PROVE SameCalls(s, z, u)  OBVIOUS
  <2>1. Mine(s, u) = {}  BY NoCalls
  <2> HIDE DEF z
  <2>2. Mine(z, u) = {}  BY <1>5, <1>8 DEF Mine
  <2> QED BY <2>1, <2>2 DEF SameCalls
<1>10. b # "EHasBlocked"  BY DEF Good
<1> HIDE DEF z
<1>12. ("EShouldBlock" # "ENormal") <=> (z # <<>> /\ ~IsSync(z[1]))  BY <1>5, <1>8
<1>13. b = "EHasBlocked" \/ q.status = "EBlocked" => "EShouldBlock" = "EHasBlocked"  BY <1>4, <1>10
<1>14. "EShouldBlock" \in Blocking  BY DEF Blocking
<1>11. Good(Upd(T, t, q), "EShouldBlock", z)
  BY <1>4, <1>7, <1>8, <1>9, <1>12, <1>13, <1>14, GoodStep
<1> QED BY <1>11 DEF z, q

\* RunL blocks the transaction or enters its next filter: it has an event.
LEMMA RunLIs ==
  ASSUME IInv, NEW t \in Tx, RunL(t), NEW o, o = Idle(tr[t])
  PROVE  /\ tr[t].active
         /\ \/ blocking # "ENormal" /\ Become(W(Upd(tr, t, Blocked(o)), "EHasBlocked", stack, sends))
            \/ /\ blocking = "ENormal" /\ stack = <<>>
               /\ Become(W(Upd(tr, t, EnterFilter(o)), "EShouldBlock", <<RunCall(t, o)>>, sends))
<1> DEFINE r == [tr[t] EXCEPT !.active = FALSE]
           w == [world EXCEPT !.tr[t] = r]
           x == [kind |-> "run", t |-> t, f |-> r.next, nested |-> FALSE]
           k == Upd(tr, t, r)
           v == W(k, blocking, stack, sends)
<1>1. /\ RunReady(t)
      /\ Become(CASE ~EventAvailable(r) -> Panics(w, "no event")
                  [] EventAvailable(r) /\ blocking # "ENormal" ->
                       TransactionHasBlocked([w EXCEPT !.tr[t].status = "EBlocked"])
                  [] OTHER -> Push(Block([w EXCEPT !.tr[t] = EnterFilter(r)]), x))
  BY DEF RunL
<1>2. Good(tr, blocking, stack) /\ sends \in 0 .. MaxSends /\ tr \in [Tx -> Transaction] /\ stack \in Seq(Frame)
  BY DEF IInv, Good
<1>3. tr[t].active /\ Scheduling  BY <1>1 DEF RunReady
<1>4. tr[t] \in Transaction /\ ~tr[t].sync /\ tr[t].queue # <<>>  BY <1>2, <1>3, ActiveRests DEF Resting
<1>5. r \in Transaction /\ ~r.sync /\ r.queue # <<>>  BY <1>4 DEF Transaction
<1>6. EventAvailable(r)  BY <1>5 DEF EventAvailable, EventList
<1>7. w = v
  <2>1. world = W(tr, blocking, stack, sends)  BY WorldBegins
  <2> HIDE DEF r
  <2> QED BY <2>1, PutTurns
<1>8. k[t] = r /\ v.tr = k  BY <1>2, <1>5, UpdTransaction DEF W
<1>9. r = o /\ x = RunCall(t, r)  BY DEF Idle, RunCall
<1>10. CASE blocking # "ENormal"
  <2> DEFINE q == [r EXCEPT !.status = "EBlocked"]
  <2>1. q = Blocked(r)  BY DEF Blocked
  <2> HIDE DEF w, v
  <2>2. [v EXCEPT !.tr[t].status = "EBlocked"] = [v EXCEPT !.tr[t] = q]
    <3> HIDE DEF k, r
    <3> QED BY <1>8
  <2> HIDE DEF q, r
  <2>3. [v EXCEPT !.tr[t] = q] = W(Upd(k, t, q), blocking, stack, sends)  BY PutTurns DEF v
  <2>4. Upd(k, t, q) = Upd(tr, t, q)  BY <1>2, Twice
  <2>5. TransactionHasBlocked([w EXCEPT !.tr[t].status = "EBlocked"])
          = SetBlocking(W(Upd(tr, t, q), blocking, stack, sends), "EHasBlocked")
    BY <1>7, <2>2, <2>3, <2>4 DEF TransactionHasBlocked, SetBlocking
  <2>6. Become(W(Upd(tr, t, q), "EHasBlocked", stack, sends))
    BY <1>1, <1>6, <1>10, <2>5, SetTurns
  <2> QED BY <1>3, <1>9, <1>10, <2>1, <2>6
<1>11. CASE blocking = "ENormal"
  <2>1. stack = <<>>
    <3> SUFFICES ASSUME stack # <<>> PROVE FALSE  OBVIOUS
    <3>1. ~IsSync(stack[Len(stack)])  BY <1>3, CallersCall
    <3> QED BY <1>2, <1>11, <3>1, TopIsMine
  <2> DEFINE q == EnterFilter(r)
  <2> HIDE DEF w, v, q, x, r
  <2>4. [v EXCEPT !.tr[t] = q] = W(Upd(k, t, q), blocking, stack, sends)  BY PutTurns DEF v
  <2>5. Upd(k, t, q) = Upd(tr, t, q)  BY <1>2, Twice
  <2>6. Block([w EXCEPT !.tr[t] = q]) = SetBlocking(W(Upd(tr, t, q), blocking, stack, sends), "EShouldBlock")
    BY <1>7, <2>4, <2>5 DEF Block, SetBlocking
  <2>7. Push(Block([w EXCEPT !.tr[t] = q]), x) = W(Upd(tr, t, q), "EShouldBlock", Append(stack, x), sends)
    BY <2>6, SetTurns, PushTurns
  <2>8. Append(stack, x) = <<x>>  BY <2>1
  <2>9. Become(W(Upd(tr, t, q), "EShouldBlock", <<x>>, sends))
    BY <1>1, <1>6, <1>11, <2>7, <2>8 DEF q
  <2> QED BY <1>3, <1>9, <1>11, <2>1, <2>9 DEF q
<1> QED BY <1>10, <1>11

\* RunL keeps the invariant.
LEMMA RunLKeeps ==
  ASSUME IInv, NEW t \in Tx, RunL(t)
  PROVE  IInv'
<1> DEFINE r == Idle(tr[t])
           x == RunCall(t, r)
<1>1. Good(tr, blocking, stack) /\ sends \in 0 .. MaxSends  BY DEF IInv
<1>2. /\ tr[t].active
      /\ \/ blocking # "ENormal" /\ Become(W(Upd(tr, t, Blocked(r)), "EHasBlocked", stack, sends))
         \/ /\ blocking = "ENormal" /\ stack = <<>>
            /\ Become(W(Upd(tr, t, EnterFilter(r)), "EShouldBlock", <<x>>, sends))
  BY RunLIs
<1> HIDE DEF r, x
<1>3. CASE blocking # "ENormal"
  <2>1. Good(Upd(tr, t, Blocked(r)), "EHasBlocked", stack)  BY <1>1, <1>2, <1>3, RunBlocks DEF r
  <2> QED BY <1>1, <1>2, <1>3, <2>1, StepEnds
<1>4. CASE blocking = "ENormal"
  <2>1. Good(Upd(tr, t, EnterFilter(r)), "EShouldBlock", <<x>>)  BY <1>1, <1>2, <1>4, RunEnters DEF r, x
  <2> QED BY <1>1, <1>2, <1>4, <2>1, StepEnds
<1> QED BY <1>3, <1>4

-----------------------------------------------------------------------------
(* Filters return to RunL, or leave *)

\* Writing what is there changes nothing.
LEMMA UpdSame ==
  ASSUME NEW T \in [Tx -> Transaction], NEW t \in Tx
  PROVE  Upd(T, t, T[t]) = T
BY DEF Upd

\* Nobody who wakes is active.
LEMMA UnblockUpd ==
  ASSUME NEW T, NEW b, NEW s, Good(T, b, s), NEW t \in Tx, NEW r \in Transaction, ~Wakes(r), NEW z, NEW n
  PROVE  Unblock(W(Upd(T, t, r), b, z, n)) = W(Woken(Upd(T, t, r), b), "ENormal", z, n)
<1> DEFINE k == Upd(T, t, r)
<1>1. T \in [Tx -> Transaction]  BY DEF Good
<1>2. k \in [Tx -> Transaction] /\ k[t] = r /\ \A u \in Tx : u # t => k[u] = T[u]  BY <1>1, UpdTransaction
<1>3. \A u \in Tx : T[u].active => T[u].status = "EFilter"  BY ActiveRests
<1> HIDE DEF k
<1>4. ASSUME NEW u \in Tx, Wakes(k[u])  PROVE ~k[u].active
  <2>1. u # t  BY <1>2, <1>4
  <2> QED BY <1>2, <1>3, <1>4, <2>1 DEF Wakes
<1>5. Unblock(W(k, b, z, n)) = W(Woken(k, b), "ENormal", z, n)  BY <1>2, <1>4, UnblockTurns
<1> QED BY <1>5 DEF k

\* RunL goes on to the next filter, and the session wakes the others, in either order.
LEMMA RunLeft ==
  ASSUME NEW T, NEW b, NEW s, Good(T, b, s), s # <<>>, ~IsSync(s[Len(s)]), NEW t, t = s[Len(s)].t,
         NEW r \in Transaction, ~r.sync, ~r.active, r.life = "open", r.status # "EBlocked", NEW n
  PROVE  LET X == Woken(Upd(T, t, Activated(r)), b) IN
         /\ Good(X, "ENormal", <<>>)
         /\ ActivateNext(Unblock(W(Upd(T, t, r), b, Cut(s), n)), t) = W(X, "ENormal", <<>>, n)
         /\ Unblock(ActivateNext(W(Upd(T, t, r), b, Cut(s), n), t)) = W(X, "ENormal", <<>>, n)
<1> DEFINE z == Activated(r)
           k == Upd(T, t, r)
           g == Woken(k, b)
           X == Woken(Upd(T, t, z), b)
<1>1. T \in [Tx -> Transaction] /\ t \in Tx /\ s \in Seq(Frame) /\ Len(s) = 1  BY TopIsMine DEF Good
<1>2. Cut(s) = <<>>  BY <1>1 DEF Cut
<1>3. /\ z \in Transaction /\ Resting(z) /\ z.life = "open" /\ z.status # "EBlocked"
      /\ FindNextFilter(r).status = "EPassive" \/ ~FindNextFilter(r).active
  BY ActivatedRests
<1>4. k[t] = r  BY <1>1, UpdTransaction
<1>5. ~Wakes(r) /\ ~Wakes(z) /\ Gone(z)  BY <1>3 DEF Wakes, Gone
<1> HIDE DEF z
<1>6. Good(X, "ENormal", <<>>)  BY <1>3, <1>5, RunEnds
<1>7. Unblock(W(k, b, <<>>, n)) = W(g, "ENormal", <<>>, n)  BY <1>1, <1>5, UnblockUpd
<1>8. g[t] = r /\ Upd(g, t, z) = X  BY <1>1, <1>5, WokenUpd
<1>9. ActivateNext(W(g, "ENormal", <<>>, n), t) = W(X, "ENormal", <<>>, n)
  <2> HIDE DEF g, X
  <2>1. ActivateNext(W(g, "ENormal", <<>>, n), t) = W(Upd(g, t, z), "ENormal", <<>>, n)
    BY <1>3, <1>8, ActivateNextTurns DEF z
  <2> QED BY <1>8, <2>1
<1>10. ActivateNext(W(k, b, <<>>, n), t) = W(Upd(T, t, z), b, <<>>, n)
  <2> DEFINE y == Upd(k, t, z)
  <2>1. y = Upd(T, t, z)  BY <1>1, Twice
  <2> HIDE DEF k, y
  <2>2. ActivateNext(W(k, b, <<>>, n), t) = W(Upd(k, t, z), b, <<>>, n)
    BY <1>3, <1>4, ActivateNextTurns DEF z
  <2> QED BY <2>1, <2>2 DEF y
<1>11. Unblock(W(Upd(T, t, z), b, <<>>, n)) = W(X, "ENormal", <<>>, n)  BY <1>1, <1>3, <1>5, UnblockUpd
<1> HIDE DEF k, g, X
<1> QED BY <1>2, <1>6, <1>7, <1>9, <1>10, <1>11 DEF X, z, k

\* The transaction was closed in the filter, and is deleted now.
LEMMA RunGone ==
  ASSUME NEW T, NEW b, NEW s, Good(T, b, s), s # <<>>, ~IsSync(s[Len(s)]), NEW t, t = s[Len(s)].t,
         T[t].life = "closed", NEW n
  PROVE  LET X == Woken(Upd(T, t, Deleted(T[t])), b) IN
         /\ Good(X, "ENormal", <<>>)
         /\ Delete(Unblock(W(T, b, Cut(s), n)), t) = W(X, "ENormal", <<>>, n)
<1> DEFINE r == T[t]
           z == Deleted(r)
           g == Woken(T, b)
           X == Woken(Upd(T, t, z), b)
<1>1. T \in [Tx -> Transaction] /\ t \in Tx /\ s \in Seq(Frame) /\ Len(s) = 1 /\ r \in Transaction  BY TopIsMine DEF Good
<1>2. Cut(s) = <<>>  BY <1>1 DEF Cut
<1>3. InRunL(r, s[Len(s)]) /\ Gone(r)
  <2>1. InRunL(r, s[Len(s)])  BY TopIsMine
  <2>2. Fits(t, r, s)  BY <1>1 DEF Good
  <2> QED BY <2>1, <2>2 DEF Fits, Gone
<1>4. z \in Transaction /\ Resting(z) /\ Gone(z) /\ z.status # "EBlocked"
  BY <1>1, <1>3 DEF Deleted, Transaction, States, Lives, InRunL, Resting, Gone
<1>5. ~Wakes(r) /\ ~Wakes(z)  BY <1>4 DEF Wakes
<1> HIDE DEF z
<1>6. Good(X, "ENormal", <<>>)  BY <1>4, RunEnds
<1>7. Upd(T, t, r) = T  BY <1>1, UpdSame
<1> HIDE DEF r
<1>8. Unblock(W(T, b, <<>>, n)) = W(g, "ENormal", <<>>, n)
  <2>1. Unblock(W(Upd(T, t, r), b, <<>>, n)) = W(Woken(Upd(T, t, r), b), "ENormal", <<>>, n)
    BY <1>1, <1>5, UnblockUpd
  <2> QED BY <1>7, <2>1
<1>9. g[t] = r /\ Upd(g, t, z) = X
  <2>1. Woken(Upd(T, t, r), b)[t] = r /\ Upd(Woken(Upd(T, t, r), b), t, z) = Woken(Upd(T, t, z), b)
    <3> HIDE DEF g, X
    <3>1. T \in [Tx -> Transaction] /\ t \in Tx /\ ~Wakes(r) /\ ~Wakes(z)  BY <1>1, <1>5
    <3> QED BY ONLY <3>1, WokenUpd
  <2> QED BY <1>7, <2>1
<1>10. g \in [Tx -> Transaction]
  <2>1. Good(Woken(Upd(T, t, z), b), "ENormal", <<>>)  BY <1>6
  <2>2. Woken(Upd(T, t, z), b) \in [Tx -> Transaction]  BY <2>1 DEF Good
  <2>3. DOMAIN g = Tx /\ g = [u \in Tx |-> g[u]]  BY <1>1 DEF Woken
  <2>4. \A u \in Tx : u # t => Woken(Upd(T, t, z), b)[u] = g[u]  BY <1>1 DEF Woken, Upd
  <2> HIDE DEF g
  <2>5. \A u \in Tx : g[u] \in Transaction  BY <1>1, <1>9, <2>2, <2>4
  <2> QED BY <2>3, <2>5
<1>11. Delete(W(g, "ENormal", <<>>, n), t) = W(X, "ENormal", <<>>, n)
  <2> HIDE DEF g, X
  <2>1. Delete(W(g, "ENormal", <<>>, n), t) = W(Upd(g, t, Deleted(g[t])), "ENormal", <<>>, n)
    BY <1>1, <1>10, DeleteTurns
  <2> QED BY <1>9, <2>1 DEF z
<1> HIDE DEF g, X
<1> QED BY <1>2, <1>6, <1>8, <1>11 DEF X, z, r

\* LeaveFilter changes the state only, and that only in a filter.
LEMMA LeaveIs ==
  ASSUME NEW r \in Transaction
  PROVE  /\ LeaveFilter(r) \in Transaction /\ LeaveFilter(r).active = r.active /\ LeaveFilter(r).sync = r.sync
         /\ LeaveFilter(r).next = r.next /\ LeaveFilter(r).life = r.life /\ LeaveFilter(r).queue = r.queue
         /\ LeaveFilter(r).atHandler = r.atHandler /\ LeaveFilter(r).syncEvent = r.syncEvent
         /\ r.status = "EInFilter" => LeaveFilter(r).status = "EFilter"
         /\ r.status = "ECancelled" => LeaveFilter(r).status = "EPassive"
         /\ r.status \notin {"EInFilter", "ECancelled"} => LeaveFilter(r) = r
<1>1. CASE r.status = "EInFilter"
  <2>1. LeaveFilter(r) = [r EXCEPT !.status = "EFilter"]  BY <1>1 DEF LeaveFilter
  <2> QED BY <1>1, <2>1 DEF Transaction, States
<1>2. CASE r.status = "ECancelled"
  <2>1. LeaveFilter(r) = [r EXCEPT !.status = "EPassive"]  BY <1>2 DEF LeaveFilter
  <2> QED BY <1>2, <2>1 DEF Transaction, States
<1>3. CASE r.status \notin {"EInFilter", "ECancelled"}
  <2>1. LeaveFilter(r) = r  BY <1>3 DEF LeaveFilter
  <2> QED BY <1>3, <2>1
<1> QED BY <1>1, <1>2, <1>3

-----------------------------------------------------------------------------
(* The steps of RunL keep the invariant *)

\* The call at the top.
LEMMA TopNow ==
  ASSUME IInv, stack # <<>>
  PROVE  /\ Top(world) = stack[Len(stack)] /\ Good(tr, blocking, stack) /\ sends \in 0 .. MaxSends
         /\ tr \in [Tx -> Transaction] /\ stack \in Seq(Frame)
         /\ world = W(tr, blocking, stack, sends)
         /\ Top(world) \in Frame /\ Top(world).t \in Tx /\ tr[Top(world).t] \in Transaction
<1>1. Good(tr, blocking, stack) /\ sends \in 0 .. MaxSends  BY DEF IInv
<1>2. Top(world) = stack[Len(stack)]  BY DEF Top, world
<1> QED BY <1>1, <1>2, TopIsMine, WorldBegins DEF Good

\* A return of MHFRunL or of MHFRunError.
LEMMA ReturnsOf ==
  ASSUME IInv, NEW kind \in {"run", "error"}, ReturnReady(kind)
  PROVE  /\ stack # <<>> /\ ~IsSync(stack[Len(stack)]) /\ Top(world).kind = kind
         /\ InRunL(tr[Top(world).t], Top(world)) /\ Gone(tr[Top(world).t])
<1>1. stack # <<>> /\ Top(world).kind = kind  BY DEF ReturnReady, FilterRuns
<1>2. Top(world) = stack[Len(stack)] /\ Good(tr, blocking, stack) /\ Top(world).t \in Tx  BY <1>1, TopNow
<1>3. ~IsSync(stack[Len(stack)])  BY <1>1, <1>2 DEF IsSync
<1>4. Fits(Top(world).t, tr[Top(world).t], stack)  BY <1>2 DEF Good
<1>5. InRunL(tr[Top(world).t], Top(world))  BY <1>1, <1>2, <1>3, TopIsMine
<1>6. Gone(tr[Top(world).t])  BY <1>4 DEF Fits, Gone
<1> QED BY <1>1, <1>3, <1>5, <1>6

\* RunL is over: its transaction is q, and those who have blocked are woken.
RunOver(t, q) == Become(W(Woken(Upd(tr, t, q), blocking), "ENormal", <<>>, sends))

\* MHFRunL returns: the next filter is found, or the transaction deleted.
LEMMA FilterReturnsIs ==
  ASSUME IInv, FilterReturns, NEW t, t = Top(world).t
  PROVE  /\ stack # <<>> /\ ~IsSync(stack[Len(stack)]) /\ t = stack[Len(stack)].t
         /\ \/ /\ tr[t].life = "open" /\ tr[t].status \in {"EInFilter", "ECancelled"}
               /\ RunOver(t, Activated(LeaveFilter(tr[t])))
            \/ tr[t].life = "closed" /\ RunOver(t, Deleted(tr[t]))
<1> DEFINE r == LeaveFilter(tr[t])
           w == Unblock(Pop([world EXCEPT !.tr[t] = r]))
<1>1. /\ ReturnReady("run")
      /\ Become(CASE r.status = "EExiting" -> Delete(w, t)
                  [] tr[t].status \in {"EInFilter", "ECancelled"} -> ActivateNext(w, t)
                  [] OTHER -> w)
  BY DEF FilterReturns
<1>2. stack # <<>> /\ ~IsSync(stack[Len(stack)]) /\ InRunL(tr[t], Top(world)) /\ Gone(tr[t])  BY <1>1, ReturnsOf
<1>3. /\ Good(tr, blocking, stack) /\ t \in Tx /\ t = stack[Len(stack)].t
      /\ tr \in [Tx -> Transaction] /\ world = W(tr, blocking, stack, sends) /\ tr[t] \in Transaction
  BY <1>2, TopNow
<1>4. w = Unblock(W(Upd(tr, t, r), blocking, Cut(stack), sends))
  <2> HIDE DEF r
  <2>1. [world EXCEPT !.tr[t] = r] = W(Upd(tr, t, r), blocking, stack, sends)  BY <1>3, PutTurns
  <2>2. Pop(W(Upd(tr, t, r), blocking, stack, sends)) = W(Upd(tr, t, r), blocking, Cut(stack), sends)  BY PopTurns
  <2> QED BY <2>1, <2>2
<1>5. /\ r \in Transaction /\ r.active = tr[t].active /\ r.sync = tr[t].sync /\ r.life = tr[t].life
      /\ tr[t].status = "EInFilter" => r.status = "EFilter"
      /\ tr[t].status = "ECancelled" => r.status = "EPassive"
      /\ tr[t].status \notin {"EInFilter", "ECancelled"} => r = tr[t]
  BY <1>3, LeaveIs
<1> HIDE DEF w, r
<1>6. CASE tr[t].life = "open"
  <2>1. tr[t].status \in {"EInFilter", "ECancelled"} /\ ~tr[t].active /\ ~tr[t].sync  BY <1>2, <1>6 DEF InRunL
  <2>2. r.status # "EExiting" /\ r.status # "EBlocked"  BY <1>5, <2>1
  <2>3. Become(ActivateNext(w, t))  BY <1>1, <2>1, <2>2
  <2> DEFINE X == Woken(Upd(tr, t, Activated(r)), blocking)
  <2>4. ActivateNext(w, t) = W(X, "ENormal", <<>>, sends)
    BY <1>2, <1>3, <1>4, <1>5, <1>6, <2>1, <2>2, RunLeft
  <2>5. RunOver(t, Activated(r))  BY <2>3, <2>4 DEF RunOver
  <2> QED BY <1>2, <1>3, <1>6, <2>1, <2>5 DEF r
<1>7. CASE tr[t].life # "open"
  <2>1. tr[t].life = "closed" /\ tr[t].status = "EExiting"  BY <1>2, <1>3, <1>7 DEF InRunL, Transaction, Lives
  <2>2. r = tr[t] /\ r.status = "EExiting" /\ Upd(tr, t, r) = tr  BY <1>3, <1>5, <2>1, UpdSame
  <2>3. Become(Delete(w, t))  BY <1>1, <2>2
  <2> DEFINE X == Woken(Upd(tr, t, Deleted(tr[t])), blocking)
  <2>4. Delete(w, t) = W(X, "ENormal", <<>>, sends)  BY <1>2, <1>3, <1>4, <2>1, <2>2, RunGone
  <2>5. RunOver(t, Deleted(tr[t]))  BY <2>3, <2>4 DEF RunOver
  <2> QED BY <1>2, <1>3, <2>1, <2>5
<1> QED BY <1>6, <1>7

\* MHFRunError returns: the same.
LEMMA ErrorReturnsIs ==
  ASSUME IInv, ErrorReturns, NEW t, t = Top(world).t
  PROVE  /\ stack # <<>> /\ ~IsSync(stack[Len(stack)]) /\ t = stack[Len(stack)].t
         /\ stack[Len(stack)].kind = "error"
         /\ \/ /\ tr[t].life = "open" /\ tr[t].status \in {"EInFilter", "ECancelled"}
               /\ RunOver(t, Activated(tr[t]))
            \/ tr[t].life = "closed" /\ RunOver(t, Deleted(tr[t]))
<1> DEFINE w == IF tr[t].status = "EExiting" THEN Pop(world) ELSE ActivateNext(Pop(world), t)
           w1 == IF tr[t].sync THEN w ELSE Unblock(w)
<1>1. ReturnReady("error") /\ Become(IF tr[t].status = "EExiting" THEN Delete(w1, t) ELSE w1)  BY DEF ErrorReturns
<1>2. /\ stack # <<>> /\ ~IsSync(stack[Len(stack)]) /\ InRunL(tr[t], Top(world)) /\ Gone(tr[t])
      /\ Top(world).kind = "error"
  BY <1>1, ReturnsOf
<1>3. /\ Good(tr, blocking, stack) /\ t \in Tx /\ t = stack[Len(stack)].t /\ Top(world) = stack[Len(stack)]
      /\ tr \in [Tx -> Transaction] /\ world = W(tr, blocking, stack, sends) /\ tr[t] \in Transaction
  BY <1>2, TopNow
<1>4. Pop(world) = W(tr, blocking, Cut(stack), sends) /\ Upd(tr, t, tr[t]) = tr  BY <1>3, PopTurns, UpdSame
<1>5. ~tr[t].sync /\ ~tr[t].active  BY <1>2 DEF InRunL
<1>6. CASE tr[t].life = "open"
  <2>1. tr[t].status \in {"EInFilter", "ECancelled"}  BY <1>2, <1>6 DEF InRunL
  <2>2. Become(Unblock(ActivateNext(Pop(world), t)))  BY <1>1, <1>5, <2>1
  <2> DEFINE r == tr[t]
             X == Woken(Upd(tr, t, Activated(r)), blocking)
  <2>3. r \in Transaction /\ ~r.sync /\ ~r.active /\ r.life = "open" /\ r.status # "EBlocked"
    BY <1>3, <1>5, <1>6, <2>1
  <2>4. Upd(tr, t, r) = tr  BY <1>4
  <2> HIDE DEF r
  <2>5. Unblock(ActivateNext(W(tr, blocking, Cut(stack), sends), t)) = W(X, "ENormal", <<>>, sends)
    BY <1>2, <1>3, <2>3, <2>4, RunLeft
  <2>6. RunOver(t, Activated(r))  BY <1>4, <2>2, <2>5 DEF RunOver
  <2> QED BY <1>2, <1>3, <1>6, <2>1, <2>6 DEF r
<1>7. CASE tr[t].life # "open"
  <2>1. tr[t].life = "closed" /\ tr[t].status = "EExiting"  BY <1>2, <1>3, <1>7 DEF InRunL, Transaction, Lives
  <2>2. Become(Delete(Unblock(Pop(world)), t))  BY <1>1, <1>5, <2>1
  <2> DEFINE X == Woken(Upd(tr, t, Deleted(tr[t])), blocking)
  <2>3. Delete(Unblock(W(tr, blocking, Cut(stack), sends)), t) = W(X, "ENormal", <<>>, sends)
    BY <1>2, <1>3, <2>1, RunGone
  <2>4. RunOver(t, Deleted(tr[t]))  BY <1>4, <2>2, <2>3 DEF RunOver
  <2> QED BY <1>2, <1>3, <2>1, <2>4
<1> QED BY <1>6, <1>7

\* The end of a RunL keeps the invariant.
LEMMA RunOverKeeps ==
  ASSUME IInv, stack # <<>>, ~IsSync(stack[Len(stack)]), NEW t, t = stack[Len(stack)].t
  PROVE  /\ \A r \in Transaction :
              ~r.sync /\ ~r.active /\ r.life = "open" /\ r.status # "EBlocked" /\ RunOver(t, Activated(r)) => IInv'
         /\ tr[t].life = "closed" /\ RunOver(t, Deleted(tr[t])) => IInv'
<1>1. Good(tr, blocking, stack) /\ sends \in 0 .. MaxSends  BY DEF IInv
<1>2. ASSUME NEW r \in Transaction, ~r.sync, ~r.active, r.life = "open", r.status # "EBlocked", RunOver(t, Activated(r))
      PROVE  IInv'
  <2> DEFINE X == Woken(Upd(tr, t, Activated(r)), blocking)
  <2>1. Good(X, "ENormal", <<>>)  BY <1>1, <1>2, RunLeft
  <2>2. Become(W(X, "ENormal", <<>>, sends))  BY <1>2 DEF RunOver
  <2> HIDE DEF X
  <2> QED BY <1>1, <2>1, <2>2, StepEnds
<1>3. ASSUME tr[t].life = "closed", RunOver(t, Deleted(tr[t]))
      PROVE  IInv'
  <2> DEFINE X == Woken(Upd(tr, t, Deleted(tr[t])), blocking)
  <2>1. Good(X, "ENormal", <<>>)  BY <1>1, <1>3, RunGone
  <2>2. Become(W(X, "ENormal", <<>>, sends))  BY <1>3 DEF RunOver
  <2> HIDE DEF X
  <2> QED BY <1>1, <2>1, <2>2, StepEnds
<1> QED BY <1>2, <1>3

\* A filter that returns finds a transaction in its RunL.
LEMMA RunIs ==
  ASSUME IInv, stack # <<>>, ~IsSync(stack[Len(stack)]), NEW t, t = stack[Len(stack)].t
  PROVE  tr[t] \in Transaction /\ ~tr[t].sync /\ ~tr[t].active /\ t \in Tx
<1>1. Good(tr, blocking, stack)  BY DEF IInv
<1>2. tr[t] \in Transaction /\ t \in Tx /\ InRunL(tr[t], stack[Len(stack)])  BY <1>1, TopIsMine
<1> QED BY <1>2 DEF InRunL

\* The return of MHFRunL keeps the invariant,
LEMMA FilterReturnsKeeps ==
  ASSUME IInv, FilterReturns
  PROVE  IInv'
<1> DEFINE t == Top(world).t
           r == LeaveFilter(tr[t])
<1>1. /\ stack # <<>> /\ ~IsSync(stack[Len(stack)]) /\ t = stack[Len(stack)].t
      /\ \/ /\ tr[t].life = "open" /\ tr[t].status \in {"EInFilter", "ECancelled"}
            /\ RunOver(t, Activated(r))
         \/ tr[t].life = "closed" /\ RunOver(t, Deleted(tr[t]))
  BY FilterReturnsIs
<1> HIDE DEF t
<1>2. tr[t] \in Transaction /\ ~tr[t].sync /\ ~tr[t].active  BY <1>1, RunIs
<1>3. r \in Transaction /\ r.active = tr[t].active /\ r.sync = tr[t].sync /\ r.life = tr[t].life
      /\ (tr[t].status \in {"EInFilter", "ECancelled"} => r.status # "EBlocked")
  BY <1>2, LeaveIs
<1> HIDE DEF r
<1> QED BY <1>1, <1>2, <1>3, RunOverKeeps

\* and that of MHFRunError.
LEMMA ErrorReturnsKeeps ==
  ASSUME IInv, ErrorReturns
  PROVE  IInv'
<1> DEFINE t == Top(world).t
<1>1. /\ stack # <<>> /\ ~IsSync(stack[Len(stack)]) /\ t = stack[Len(stack)].t
      /\ \/ /\ tr[t].life = "open" /\ tr[t].status \in {"EInFilter", "ECancelled"}
            /\ RunOver(t, Activated(tr[t]))
         \/ tr[t].life = "closed" /\ RunOver(t, Deleted(tr[t]))
  BY ErrorReturnsIs
<1> HIDE DEF t
<1>2. tr[t] \in Transaction /\ ~tr[t].sync /\ ~tr[t].active  BY <1>1, RunIs
<1> QED BY <1>1, <1>2, RunOverKeeps

ErrorCall(x, f) == [x EXCEPT !.kind = "error", !.f = f]
Nested(x, on) == [x EXCEPT !.nested = on]

\* RunL goes on to RunError, or with a nested scheduler.
LEMMA AsyncCalls ==
  ASSUME NEW x \in Frame, ~IsSync(x)
  PROVE  /\ \A f \in Filters : /\ ErrorCall(x, f) \in Frame /\ ~IsSync(ErrorCall(x, f)) /\ ErrorCall(x, f).t = x.t
                               /\ ErrorCall(x, f).nested = x.nested /\ ErrorCall(x, f).kind = "error"
         /\ \A on \in BOOLEAN : /\ Nested(x, on) \in Frame /\ ~IsSync(Nested(x, on)) /\ Nested(x, on).t = x.t
                                /\ Nested(x, on).nested = on /\ Nested(x, on).kind = x.kind
<1>1. x \in AsyncFrame  BY FrameKinds
<1> QED BY <1>1 DEF ErrorCall, Nested, AsyncFrame, Frame, IsSync

\* A filter leaves: it is told in RunError, or the transaction deleted.
LEMMA FilterLeavesIs ==
  ASSUME IInv, FilterLeaves, NEW x, x = Top(world), NEW t, t = x.t
  PROVE  /\ stack # <<>> /\ ~IsSync(x) /\ ~x.nested /\ x = stack[Len(stack)] /\ t = stack[Len(stack)].t
         /\ \/ /\ tr[t].life = "open" /\ (tr[t].status = "ECancelled" => "regret" \in Env)
               /\ \E f \in Filters : Become(W(tr, blocking, Topped(stack, ErrorCall(x, f)), sends))
            \/ tr[t].life = "closed" /\ RunOver(t, Deleted(tr[t]))
<1> DEFINE w == Unblock(Pop(world))
           f == IF tr[t].sync THEN tr[t].next ELSE tr[t].asyncFilter
<1>1. /\ ReturnReady("run") /\ (tr[t].status = "ECancelled" => "regret" \in Env)
      /\ Become(CASE tr[t].status \in {"EInFilter", "ECancelled"} ->
                        [world EXCEPT !.stack[Len(stack)] = [@ EXCEPT !.kind = "error", !.f = f]]
                  [] tr[t].status = "EExiting" -> Delete(w, t)
                  [] OTHER -> Panics(world, "ETransactionUnhandledError"))
  BY DEF FilterLeaves
<1>2. stack # <<>> /\ ~IsSync(stack[Len(stack)]) /\ InRunL(tr[t], x) /\ Gone(tr[t])  BY <1>1, ReturnsOf
<1>3. /\ Good(tr, blocking, stack) /\ t \in Tx /\ x = stack[Len(stack)] /\ x \in Frame
      /\ tr \in [Tx -> Transaction] /\ world = W(tr, blocking, stack, sends) /\ tr[t] \in Transaction
      /\ stack \in Seq(Frame)
  BY <1>2, TopNow
<1>4. Pop(world) = W(tr, blocking, Cut(stack), sends) /\ Upd(tr, t, tr[t]) = tr  BY <1>3, PopTurns, UpdSame
<1>5. ~tr[t].sync /\ f \in Filters  BY <1>2, <1>3, TransactionFields DEF InRunL
<1>6. ~x.nested  BY <1>1 DEF ReturnReady, FilterRuns
<1>7. CASE tr[t].life = "open"
  <2>1. tr[t].status \in {"EInFilter", "ECancelled"}  BY <1>2, <1>7 DEF InRunL
  <2> DEFINE y == ErrorCall(x, f)
             z == Topped(stack, y)
  <2>2. Become([world EXCEPT !.stack = z])
    <3>1. [world EXCEPT !.stack[Len(stack)] = [@ EXCEPT !.kind = "error", !.f = f]] = [world EXCEPT !.stack = z]
      <4>1. world.stack = stack  BY <1>3 DEF W
      <4> HIDE DEF f
      <4>2. [world EXCEPT !.stack[Len(stack)] = [@ EXCEPT !.kind = "error", !.f = f]]
              = [world EXCEPT !.stack = [stack EXCEPT ![Len(stack)] = [stack[Len(stack)] EXCEPT !.kind = "error", !.f = f]]]
        BY <4>1
      <4> QED BY <1>3, <4>2 DEF ErrorCall, Topped
    <3> QED BY <1>1, <2>1, <3>1
  <2> HIDE DEF y, z
  <2>3. [world EXCEPT !.stack = z] = W(tr, blocking, z, sends)  BY <1>3, PutStack
  <2>4. \E g \in Filters : Become(W(tr, blocking, Topped(stack, ErrorCall(x, g)), sends))
    BY <1>5, <2>2, <2>3 DEF z, y
  <2> HIDE DEF f
  <2> QED BY <1>1, <1>2, <1>3, <1>6, <1>7, <2>4
<1>8. CASE tr[t].life # "open"
  <2>1. tr[t].life = "closed" /\ tr[t].status = "EExiting"  BY <1>2, <1>3, <1>8 DEF InRunL, Transaction, Lives
  <2>2. Become(Delete(Unblock(Pop(world)), t))  BY <1>1, <2>1
  <2>3. t = stack[Len(stack)].t  BY <1>3
  <2> DEFINE X == Woken(Upd(tr, t, Deleted(tr[t])), blocking)
  <2>4. Delete(Unblock(W(tr, blocking, Cut(stack), sends)), t) = W(X, "ENormal", <<>>, sends)
    BY <1>2, <1>3, <2>1, <2>3, RunGone
  <2>5. RunOver(t, Deleted(tr[t]))  BY <1>4, <2>2, <2>4 DEF RunOver
  <2> HIDE DEF f
  <2> QED BY <1>2, <1>3, <1>6, <2>1, <2>5
<1> QED BY <1>7, <1>8

\* A filter that leaves keeps the invariant: RunError finds a transaction to tell it of.
LEMMA FilterLeavesKeeps ==
  ASSUME IInv, FilterLeaves
  PROVE  IInv'
<1> DEFINE x == Top(world)
           t == x.t
<1>1. /\ stack # <<>> /\ ~IsSync(x) /\ ~x.nested /\ x = stack[Len(stack)] /\ t = stack[Len(stack)].t
      /\ \/ /\ tr[t].life = "open"
            /\ \E f \in Filters : Become(W(tr, blocking, Topped(stack, ErrorCall(x, f)), sends))
         \/ tr[t].life = "closed" /\ RunOver(t, Deleted(tr[t]))
  BY FilterLeavesIs
<1>2. Good(tr, blocking, stack) /\ sends \in 0 .. MaxSends /\ tr \in [Tx -> Transaction]  BY DEF IInv, Good
<1>3. x \in Frame /\ t \in Tx /\ tr[t] \in Transaction /\ InRunL(tr[t], x)  BY <1>1, <1>2, TopIsMine
<1> HIDE DEF x
<1>4. CASE tr[t].life = "open"
  <2>1. PICK f \in Filters : Become(W(tr, blocking, Topped(stack, ErrorCall(x, f)), sends))  BY <1>1, <1>4
  <2> DEFINE y == ErrorCall(x, f)
  <2>2. y \in Frame /\ ~IsSync(y) /\ y.t = t /\ ~y.nested  BY <1>1, <1>3, AsyncCalls
  <2> HIDE DEF y
  <2>3. InRunL(tr[t], y) /\ Gone(tr[t])  BY <1>3, <1>4 DEF InRunL, Gone
  <2>4. Good(Upd(tr, y.t, tr[t]), blocking, Topped(stack, y))
    <3>1. y.t = stack[Len(stack)].t /\ ~IsSync(stack[Len(stack)])  BY <1>1, <2>2
    <3> HIDE DEF t
    <3> QED BY <1>1, <1>2, <1>3, <2>2, <2>3, <3>1, RunKeeps
  <2>5. Good(tr, blocking, Topped(stack, y))  BY <1>2, <1>3, <2>2, <2>4, UpdSame
  <2> QED BY <1>2, <2>1, <2>5, StepEnds DEF y
<1>5. CASE tr[t].life # "open"
  <2> HIDE DEF t
  <2>1. ~IsSync(stack[Len(stack)])  BY <1>1
  <2> QED BY <1>1, <1>5, <2>1, RunOverKeeps
<1> QED BY <1>4, <1>5

\* A nested scheduler starts and stops in a RunL.
LEMMA SchedulersAre ==
  ASSUME IInv, StartScheduler \/ StopScheduler, NEW x, x = Top(world)
  PROVE  /\ stack # <<>> /\ x = stack[Len(stack)] /\ x.kind = "run"
         /\ \E on \in BOOLEAN : Become(W(tr, blocking, Topped(stack, Nested(x, on)), sends))
<1>1. \E on \in BOOLEAN : /\ stack # <<>> /\ Become([world EXCEPT !.stack[Len(stack)].nested = on])
                          /\ on => x.kind = "run"
                          /\ ~on => x.nested
  <2>1. CASE StartScheduler
    <3>1. stack # <<>> /\ Become([world EXCEPT !.stack[Len(stack)].nested = TRUE]) /\ x.kind = "run"
      BY <2>1 DEF StartScheduler, ReturnReady, FilterRuns
    <3> QED BY <3>1
  <2>2. CASE StopScheduler
    <3>1. stack # <<>> /\ Become([world EXCEPT !.stack[Len(stack)].nested = FALSE]) /\ x.nested
      BY <2>2 DEF StopScheduler, StopReady
    <3> QED BY <3>1
  <2> QED BY <2>1, <2>2
<1>2. PICK on \in BOOLEAN : /\ stack # <<>> /\ Become([world EXCEPT !.stack[Len(stack)].nested = on])
                            /\ on => x.kind = "run"
                            /\ ~on => x.nested
  BY <1>1
<1>3. /\ Good(tr, blocking, stack) /\ x = stack[Len(stack)]
      /\ world = W(tr, blocking, stack, sends) /\ stack \in Seq(Frame)
  BY <1>2, TopNow
<1>4. x.kind = "run"
  <2>1. Lined(stack) /\ Len(stack) \in DOMAIN stack  BY <1>2, <1>3 DEF Good
  <2> QED BY <1>2, <1>3, <2>1 DEF Lined
<1> DEFINE z == Topped(stack, Nested(x, on))
<1>5. [world EXCEPT !.stack[Len(stack)].nested = on] = [world EXCEPT !.stack = z]
  <2>1. world.stack = stack  BY <1>3 DEF W
  <2>2. [world EXCEPT !.stack[Len(stack)].nested = on]
          = [world EXCEPT !.stack = [stack EXCEPT ![Len(stack)] = [stack[Len(stack)] EXCEPT !.nested = on]]]
    BY <2>1
  <2> QED BY <1>3, <2>2 DEF Nested, Topped
<1> HIDE DEF z
<1>6. [world EXCEPT !.stack = z] = W(tr, blocking, z, sends)  BY <1>3, PutStack
<1>7. Become(W(tr, blocking, z, sends))  BY <1>2, <1>5, <1>6
<1> QED BY <1>2, <1>3, <1>4, <1>7 DEF z

\* They keep the invariant.
LEMMA SchedulersKeep ==
  ASSUME IInv, StartScheduler \/ StopScheduler
  PROVE  IInv'
<1> DEFINE x == Top(world)
           t == x.t
<1>1. /\ stack # <<>> /\ x = stack[Len(stack)] /\ x.kind = "run"
      /\ \E on \in BOOLEAN : Become(W(tr, blocking, Topped(stack, Nested(x, on)), sends))
  BY SchedulersAre
<1>2. PICK on \in BOOLEAN : Become(W(tr, blocking, Topped(stack, Nested(x, on)), sends))  BY <1>1
<1>3. /\ Good(tr, blocking, stack) /\ sends \in 0 .. MaxSends /\ t \in Tx /\ x \in Frame
      /\ tr \in [Tx -> Transaction] /\ tr[t] \in Transaction /\ stack \in Seq(Frame)
  BY <1>1, TopNow
<1>4. ~IsSync(x)  BY <1>1 DEF IsSync
<1> DEFINE y == Nested(x, on)
<1>5. y \in Frame /\ ~IsSync(y) /\ y.t = t /\ (y.nested => y.kind = "run")  BY <1>1, <1>3, <1>4, AsyncCalls
<1> HIDE DEF y
<1>6. InRunL(tr[t], y) /\ Gone(tr[t])
  <2>1. Fits(t, tr[t], stack)  BY <1>3 DEF Good
  <2>2. InRunL(tr[t], x)  BY <1>1, <1>3, <1>4, TopIsMine
  <2> QED BY <2>1, <2>2 DEF Fits, Gone, InRunL
<1>7. Good(Upd(tr, y.t, tr[t]), blocking, Topped(stack, y))
  <2> HIDE DEF t
  <2>1. y.t = stack[Len(stack)].t /\ ~IsSync(stack[Len(stack)])  BY <1>1, <1>4, <1>5 DEF t
  <2> QED BY <1>1, <1>3, <1>5, <1>6, <2>1, RunKeeps
<1>8. Good(tr, blocking, Topped(stack, y))  BY <1>3, <1>5, <1>7, UpdSame
<1> QED BY <1>2, <1>3, <1>8, StepEnds DEF y

\* Whoever sends an event, from where, and how: while a synchronous event is on its
\* way only the client does.
LEMMA SendsAre ==
  ASSUME IInv, NEW t \in Tx, ClientSubmits(t) \/ HandlerSends(t) \/ FilterSends(t)
  PROVE  \E ev \in Events, handle \in Handles :
           /\ Calling(stack) /\ tr[t].life = "open" /\ sends < MaxSends /\ ValidHandle(tr[t], handle)
           /\ Become(SendEvent(world, t, ev, handle))
           /\ stack # <<>> /\ IsSync(stack[Len(stack)]) => handle = EClient
           /\ NoRegret(t) \/ Scheduling
<1>1. {"ESubmit", "EGotResponseHeaders", "ESucceeded"} \subseteq Events  BY DEF Events, Outgoing, Incoming
<1>2. CASE ClientSubmits(t)
  <2>1. Become(SendEvent(world, t, "ESubmit", EClient)) /\ MaySend(t) /\ ClientRuns /\ NoRegret(t)
    BY <1>2 DEF ClientSubmits
  <2>2. ValidHandle(tr[t], EClient)  BY DEF ValidHandle, EClient, ECurrentFilter
  <2> QED BY <1>1, <2>1, <2>2, CallersCall DEF MaySend, Open, Handles
<1>3. CASE HandlerSends(t)
  <2>1. PICK ev \in {"EGotResponseHeaders", "ESucceeded"} :
           Scheduling /\ MaySend(t) /\ Become(SendEvent(world, t, ev, EProtocolHandler))
    BY <1>3 DEF HandlerSends
  <2>2. ValidHandle(tr[t], EProtocolHandler)  BY DEF ValidHandle, EProtocolHandler, ECurrentFilter
  <2>3. Calling(stack) /\ (stack # <<>> => ~IsSync(stack[Len(stack)]))  BY <2>1, CallersCall
  <2> QED BY <1>1, <2>1, <2>2, <2>3 DEF MaySend, Open, Handles
<1>4. CASE FilterSends(t)
  <2>1. PICK ev \in {"ESubmit", "ESucceeded"} :
           InAsyncFilter(t) /\ MaySend(t) /\ NoRegret(t) /\ Become(SendEvent(world, t, ev, ECurrentFilter))
    BY <1>4 DEF FilterSends
  <2>2. /\ Calling(stack) /\ stack # <<>> /\ stack[Len(stack)].t = t /\ ~IsSync(stack[Len(stack)])
        /\ Good(tr, blocking, stack)
    BY <2>1, CallersCall DEF IInv
  <2>3. InRunL(tr[t], stack[Len(stack)])  BY <2>2, TopIsMine
  <2>4. ValidHandle(tr[t], ECurrentFilter)  BY <2>1, <2>3 DEF ValidHandle, InRunL, MaySend, Open
  <2> QED BY <1>1, <2>1, <2>2, <2>4 DEF MaySend, Open, Handles
<1> QED BY <1>2, <1>3, <1>4

\* They keep the invariant.
LEMMA SendsKeep ==
  ASSUME IInv, NEW t \in Tx, ClientSubmits(t) \/ HandlerSends(t) \/ FilterSends(t)
  PROVE  IInv'
<1>1. PICK ev \in Events, handle \in Handles :
        /\ Calling(stack) /\ tr[t].life = "open" /\ sends < MaxSends /\ ValidHandle(tr[t], handle)
        /\ Become(SendEvent(world, t, ev, handle))
  BY SendsAre
<1>2. Good(tr, blocking, stack) /\ sends \in 0 .. MaxSends /\ world = W(tr, blocking, stack, sends)
  BY WorldBegins DEF IInv
<1>3. PICK X : SendEvent(W(tr, blocking, stack, sends), t, ev, handle) = W(X, blocking, stack, sends + 1)
               /\ Good(X, blocking, stack)
  <2>1. Reaches(SendEvent(W(tr, blocking, stack, sends), t, ev, handle), blocking, stack, sends + 1)
    BY <1>1, <1>2, SendKeeps
  <2> QED BY <2>1 DEF Reaches
<1>4. sends + 1 \in 0 .. MaxSends  BY <1>1, <1>2, ConstantsAssumption
<1>5. Become(W(X, blocking, stack, sends + 1))  BY <1>1, <1>2, <1>3
<1> QED BY <1>3, <1>4, <1>5, StepEnds

-----------------------------------------------------------------------------
(* Synchronous events: a call begins, goes on and ends *)

\* A synchronous event begins.
LEMMA SyncPushes ==
  ASSUME NEW T, NEW b, NEW s, Good(T, b, s), NEW x \in Frame, IsSync(x), ~x.nested, Pushable(s, x),
         NEW t, t = x.t, Stored(x, Runs(s, t)), NEW q \in Transaction, InSync(q, x, Runs(s, t)), Gone(q),
         q.status # "EBlocked"
  PROVE  Good(Upd(T, t, q), b, Append(s, x))
<1> DEFINE z == Append(s, x)
<1>1. s \in Seq(Frame) /\ Lined(s) /\ b \in Blocking /\ t \in Tx  BY FrameKinds DEF Good
<1>2. /\ z \in Seq(Frame) /\ DOMAIN z = DOMAIN s \cup {Len(s) + 1} /\ z[Len(s) + 1] = x
      /\ \A i \in DOMAIN s : z[i] = s[i]
      /\ Len(s) \in Nat /\ DOMAIN s = 1 .. Len(s) /\ Len(z) = Len(s) + 1
  BY <1>1, AppendIs
<1>3. Lined(z)  BY <1>1, LinedAppend
<1>4. \A u \in Tx : u # t => SameCalls(s, z, u)  BY <1>1, AppendOthers
<1>5. Fits(t, q, z)
  <2>1. Fits(t, T[t], s)  BY <1>1 DEF Good
  <2> QED BY <1>1, <2>1, FitsPush
<1> HIDE DEF z
<1>6. (b # "ENormal") <=> (z # <<>> /\ ~IsSync(z[1]))
  <2>1. (b # "ENormal") <=> (s # <<>> /\ ~IsSync(s[1]))  BY DEF Good
  <2>2. CASE s = <<>>
    <3>1. Len(s) + 1 = 1  BY <2>2
    <3> QED BY <1>2, <2>1, <2>2, <3>1
  <2>3. CASE s # <<>>
    <3>1. z[1] = s[1] /\ z # <<>>  BY <1>1, <1>2, <2>3
    <3> QED BY <2>1, <2>3, <3>1
  <2> QED BY <2>2, <2>3
<1>7. b = "EHasBlocked" \/ q.status = "EBlocked" => b = "EHasBlocked"  OBVIOUS
<1>8. Good(Upd(T, t, q), b, z)  BY <1>1, <1>2, <1>3, <1>4, <1>5, <1>6, <1>7, GoodStep
<1> QED BY <1>8 DEF z

\* A synchronous event goes on.
LEMMA SyncGoesOn ==
  ASSUME NEW T, NEW b, NEW s, Good(T, b, s), s # <<>>, IsSync(s[Len(s)]), NEW t, t = s[Len(s)].t,
         NEW y \in Frame, IsSync(y), ~y.nested, y.t = t, y.op = s[Len(s)].op, Stored(y, Runs(s, t)),
         NEW q \in Transaction, InSync(q, y, Runs(s, t)), Gone(q), q.status # "EBlocked"
  PROVE  Good(Upd(T, t, q), b, Topped(s, y))
<1> DEFINE z == Topped(s, y)
<1>1. s \in Seq(Frame) /\ Lined(s) /\ b \in Blocking /\ t \in Tx  BY TopIsMine DEF Good
<1>2. /\ z \in Seq(Frame) /\ Len(z) = Len(s) /\ z[Len(s)] = y /\ Len(s) \in DOMAIN s /\ DOMAIN s = 1 .. Len(s)
      /\ Len(s) \in Nat /\ \A i \in DOMAIN s : i # Len(s) => z[i] = s[i]
  BY <1>1, ToppedIs
<1>3. Lined(z)
  <2>1. (IsSync(y) <=> IsSync(s[Len(s)])) /\ (y.nested => y.kind = "run") /\ y.t = s[Len(s)].t
        /\ (IsSync(y) => y.op = s[Len(s)].op)
    OBVIOUS
  <2> QED BY <1>1, <2>1, LinedTopped
<1>4. \A u \in Tx : u # t => SameCalls(s, z, u)  BY <1>1, ToppedOthers
<1>5. Fits(t, q, z)
  <2>1. Fits(t, T[t], s)  BY <1>1 DEF Good
  <2> QED BY <1>1, <2>1, FitsTopped
<1> HIDE DEF z
<1>6. (b # "ENormal") <=> (z # <<>> /\ ~IsSync(z[1]))
  <2>1. (b # "ENormal") <=> (s # <<>> /\ ~IsSync(s[1]))  BY DEF Good
  <2>2. z # <<>>  BY <1>2
  <2>3. CASE Len(s) = 1  BY <1>2, <2>1, <2>2, <2>3
  <2>4. CASE Len(s) # 1
    <3>1. z[1] = s[1]  BY <1>2, <2>4
    <3> QED BY <2>1, <2>2, <3>1
  <2> QED BY <2>3, <2>4
<1>7. b = "EHasBlocked" \/ q.status = "EBlocked" => b = "EHasBlocked"  OBVIOUS
<1>8. Good(Upd(T, t, q), b, z)  BY <1>1, <1>2, <1>3, <1>4, <1>5, <1>6, <1>7, GoodStep
<1> QED BY <1>8 DEF z

\* A synchronous event ends, and the call beneath it finds its transaction as it needs it.
LEMMA SyncEnds ==
  ASSUME NEW T, NEW b, NEW s, Good(T, b, s), s # <<>>, NEW x, x = s[Len(s)], IsSync(x), NEW t, t = x.t,
         NEW q \in Transaction, Gone(q), q.status # "EBlocked",
         ~Runs(s, t) => Resting(q),
         Runs(s, t) /\ Mine(Cut(s), t) = {1} => InRunL(q, s[1]),
         Runs(s, t) /\ x.op = "close" /\ IsSync(s[2]) /\ Fails(s[2]) /\ s[2].turn = "in" => InSync(q, s[2], TRUE)
  PROVE  Good(Upd(T, t, q), b, Cut(s))
<1> DEFINE z == Cut(s)
<1>1. s \in Seq(Frame) /\ Lined(s) /\ b \in Blocking /\ t \in Tx  BY TopIsMine DEF Good
<1>2. /\ z \in Seq(Frame) /\ Len(z) = Len(s) - 1 /\ DOMAIN z = DOMAIN s \ {Len(s)} /\ DOMAIN s = 1 .. Len(s)
      /\ Len(s) \in Nat /\ \A i \in DOMAIN z : z[i] = s[i]
  BY <1>1, CutIs
<1>3. Lined(z)  BY <1>1, LinedCut
<1>4. \A u \in Tx : u # t => SameCalls(s, z, u)  BY <1>1, CutOthers
<1>5. Fits(t, q, z)
  <2>1. Fits(x.t, T[x.t], s)  BY <1>1 DEF Good
  <2> HIDE DEF z
  <2>2. Fits(x.t, q, Cut(s))  BY <1>1, <2>1, FitsCut
  <2> QED BY <2>2 DEF z
<1> HIDE DEF z
<1>6. (b # "ENormal") <=> (z # <<>> /\ ~IsSync(z[1]))
  <2>1. (b # "ENormal") <=> (s # <<>> /\ ~IsSync(s[1]))  BY DEF Good
  <2>2. CASE Len(s) = 1  BY <1>2, <2>1, <2>2
  <2>3. CASE Len(s) # 1
    <3>1. Len(s) > 1  BY <1>1, <2>3
    <3>2. z[1] = s[1] /\ z # <<>>  BY <1>2, <3>1
    <3> QED BY <2>1, <3>2
  <2> QED BY <2>2, <2>3
<1>7. b = "EHasBlocked" \/ q.status = "EBlocked" => b = "EHasBlocked"  OBVIOUS
<1>8. Good(Upd(T, t, q), b, z)  BY <1>1, <1>2, <1>3, <1>4, <1>5, <1>6, <1>7, GoodStep
<1> QED BY <1>8 DEF z

\* Where a synchronous event starts.
LEMMA SyncedIs ==
  ASSUME NEW r \in Transaction, NEW e \in Event
  PROVE  /\ Synced(r, e) \in Transaction /\ Synced(r, e).sync /\ Synced(r, e).syncEvent = e
         /\ Synced(r, e).status = "EPassive" /\ Synced(r, e).active = r.active /\ Synced(r, e).queue = r.queue
         /\ Synced(r, e).next = r.next /\ Synced(r, e).life = r.life /\ Synced(r, e).atHandler = r.atHandler
BY DEF Synced, Transaction, States

\* A call of SynchronousSendEvent.
LEMMA SyncCallIs ==
  ASSUME NEW r \in Transaction, NEW t \in Tx, NEW op \in {"cancel", "close", "fail", "cipher"}, NEW ev \in Events,
         NEW handle \in Handles, NEW saved \in States
  PROVE  LET x == SyncCall(r, t, op, ev, handle, saved) IN
         /\ x \in Frame /\ IsSync(x) /\ ~x.nested /\ x.t = t /\ x.op = op /\ x.ev = ev /\ x.handle = handle
         /\ x.turn = "first" /\ x.s = r.status /\ x.saved = saved
<1>1. r.syncEvent \in Event /\ r.status \in States /\ r.current \in Filters  BY TransactionFields
<1>2. 0 \in Filters  BY ChainEnds
<1> DEFINE x == SyncCall(r, t, op, ev, handle, saved)
<1>3. x \in SyncFrame  BY <1>1, <1>2 DEF SyncCall, SyncFrame
<1> QED BY <1>3 DEF SyncCall, Frame, IsSync

\* SynchronousSendEvent, as a world.
LEMMA SyncTurns ==
  ASSUME NEW T, NEW b, NEW s, NEW n, NEW t, NEW op, NEW ev, NEW handle, NEW saved, ValidHandle(T[t], handle),
         NEW e, e = Begun(ev, StartFilter(T[t], handle)), NEW x, x = SyncCall(T[t], t, op, ev, handle, saved)
  PROVE  SynchronousSendEvent(W(T, b, s, n), t, op, ev, handle, saved)
           = W(Upd(T, t, Synced(T[t], e)), b, Append(s, x), n)
<1> DEFINE w == W(T, b, s, n)
           r == w.tr[t]
           q == Synced(T[t], e)
<1>1. w.tr = T /\ r = T[t]  BY DEF W
<1>2. SynchronousSendEvent(w, t, op, ev, handle, saved)
        = LET d == [ev |-> ev, start |-> StartFilter(r, handle), seen |-> <<>>]
              frame == SyncCall(r, t, op, ev, handle, saved)
          IN  IF ValidHandle(r, handle)
              THEN Push([w EXCEPT !.tr[t] = Synced(r, d)], frame)
              ELSE Panics(w, "EInvalidFilterHandle")
  BY DEF SynchronousSendEvent, SyncCall, Synced
<1> HIDE DEF w, r
<1>3. SynchronousSendEvent(w, t, op, ev, handle, saved) = Push([w EXCEPT !.tr[t] = q], x)
  BY <1>1, <1>2 DEF Begun
<1> HIDE DEF q
<1>4. [w EXCEPT !.tr[t] = q] = W(Upd(T, t, q), b, s, n)  BY PutTurns DEF w
<1>5. Push(W(Upd(T, t, q), b, s, n), x) = W(Upd(T, t, q), b, Append(s, x), n)  BY PushTurns
<1> QED BY <1>3, <1>4, <1>5 DEF w, q

\* What SynchronousSendEvent leaves behind fits the call it has begun.
LEMMA SyncedFits ==
  ASSUME NEW r \in Transaction, r.life = "open", ~r.active, r.queue = <<>>, NEW t \in Tx, NEW op, NEW ev \in Events,
         op \in {"cancel", "close", "fail", "cipher"}, NEW handle \in Handles, NEW saved \in States,
         NEW a \in BOOLEAN, op = "close" /\ r.atHandler => ev = "ECancel" /\ handle = EClient
  PROVE  LET q == Synced(r, Begun(ev, StartFilter(r, handle))) IN
         /\ q \in Transaction /\ Gone(q) /\ q.status # "EBlocked"
         /\ InSync(q, SyncCall(r, t, op, ev, handle, saved), a)
<1> DEFINE e == Begun(ev, StartFilter(r, handle))
           q == Synced(r, e)
           x == SyncCall(r, t, op, ev, handle, saved)
<1>1. e \in Event /\ e.ev = ev /\ (handle = EClient => e.start = Client)
  <2>1. e \in Event  BY StartIs
  <2>2. handle = EClient => StartFilter(r, handle) = Client
    <3>1. EClient # EProtocolHandler  BY DEF EClient, EProtocolHandler
    <3> QED BY <3>1 DEF StartFilter
  <2>3. e.ev = ev /\ e.start = StartFilter(r, handle)  BY DEF Begun
  <2> QED BY <2>1, <2>2, <2>3
<1> HIDE DEF e
<1>2. /\ q \in Transaction /\ q.sync /\ q.syncEvent = e
      /\ q.status = "EPassive" /\ q.active = r.active /\ q.queue = r.queue
      /\ q.next = r.next /\ q.life = r.life /\ q.atHandler = r.atHandler
  BY <1>1, SyncedIs
<1>3. x.turn = "first" /\ x.op = op /\ x.ev = ev  BY SyncCallIs
<1> HIDE DEF q, x
<1>4. Ahead(q, x) \/ ~q.atHandler \/ op # "close"  BY <1>1, <1>2, <1>3 DEF Ahead
<1>5. InSync(q, x, a)  BY <1>1, <1>2, <1>3, <1>4 DEF InSync
<1>6. Gone(q)  BY <1>2 DEF Gone
<1> QED BY <1>2, <1>5, <1>6 DEF q, x, e

-----------------------------------------------------------------------------
(* Cancel, Close, Fail and CipherSuite begin a synchronous event *)

\* What is left out here: the client closes the transaction in its callback for the
\* failure the protocol handler has reported, and it asks for the cipher suite while
\* there are outstanding events.
Careful == {"closeFailed", "cipher"} \cap Env = {}

\* The states of a transaction with no synchronous event on its way.
LEMMA StatusIs ==
  ASSUME NEW T, NEW b, NEW s, Good(T, b, s), NEW t \in Tx, T[t].life = "open", ~T[t].sync
  PROVE  /\ T[t].status \in (IF Runs(s, t) THEN {"EInFilter", "ECancelled"} ELSE {"EPassive", "EFilter", "EBlocked"})
         /\ T[t].queue = <<>> => ~T[t].active /\ T[t].status \in {"EPassive", "ECancelled"}
         /\ s # <<>> /\ IsSync(s[Len(s)]) => s[Len(s)].t # t
<1>1. Fits(t, T[t], s) /\ s \in Seq(Frame)  BY DEF Good
<1>2. CASE Mine(s, t) = {}
  <2>1. ~Runs(s, t) /\ Resting(T[t])  BY <1>1, <1>2 DEF Runs, Fits
  <2>2. s # <<>> => Len(s) \in DOMAIN s  BY <1>1
  <2>3. s # <<>> => s[Len(s)].t # t  BY <1>2, <2>2 DEF Mine
  <2> QED BY <2>1, <2>3 DEF Resting
<1>3. CASE Mine(s, t) # {}
  <2>1. PICK i \in Mine(s, t) : \A j \in Mine(s, t) : j <= i  BY <1>1, <1>3, LastCall
  <2>2. IF IsSync(s[i]) THEN InSync(T[t], s[i], Runs(s, t)) ELSE InRunL(T[t], s[i])  BY <1>1, <2>1 DEF Fits
  <2>3. ~IsSync(s[i]) /\ InRunL(T[t], s[i])  BY <2>2 DEF InSync
  <2>4. Runs(s, t)  BY <2>1, <2>3 DEF Runs
  <2>5. s # <<>> /\ IsSync(s[Len(s)]) => s[Len(s)].t # t
    <3> SUFFICES ASSUME s # <<>>, IsSync(s[Len(s)]), s[Len(s)].t = t PROVE FALSE  OBVIOUS
    <3>1. InSync(T[t], s[Len(s)], Runs(s, t))  BY TopIsMine
    <3> QED BY <3>1 DEF InSync
  <2> QED BY <2>3, <2>4, <2>5 DEF InRunL
<1> QED BY <1>2, <1>3

\* What CancelTransaction does before its event.
LEMMA StoppedIs ==
  ASSUME NEW r \in Transaction
  PROVE  /\ Stopped(r) \in Transaction /\ Stopped(r).queue = <<>> /\ ~Stopped(r).active /\ Stopped(r).life = r.life
         /\ Stopped(r).status = r.status /\ Stopped(r).atHandler = r.atHandler
<1> DEFINE z == <<>>
<1>1. z \in Seq(Event)  OBVIOUS
<1>2. Stopped(r) = [r EXCEPT !.queue = z, !.active = FALSE]  BY DEF Stopped
<1>3. z = <<>>  OBVIOUS
<1> HIDE DEF z
<1>4. /\ Stopped(r) \in Transaction /\ Stopped(r).queue = z /\ ~Stopped(r).active /\ Stopped(r).life = r.life
      /\ Stopped(r).status = r.status /\ Stopped(r).atHandler = r.atHandler
  BY <1>1, <1>2 DEF Transaction
<1> QED BY <1>3, <1>4

\* Cancelling begins.
LEMMA CancelTurns ==
  ASSUME NEW T, NEW b, NEW s, NEW n, T \in [Tx -> Transaction], NEW t \in Tx, NEW op, NEW handle,
         ValidHandle(T[t], handle), NEW r, r = Stopped(T[t]),
         NEW e, e = Begun("ECancel", StartFilter(r, handle)),
         NEW x, x = SyncCall(r, t, op, "ECancel", handle, "EPassive")
  PROVE  CancelTransaction(W(T, b, s, n), t, op, handle) = W(Upd(T, t, Synced(r, e)), b, Append(s, x), n)
<1> DEFINE w == W(T, b, s, n)
           k == Upd(T, t, r)
<1>1. w.tr = T  BY DEF W
<1>2. CancelTransaction(w, t, op, handle)
        = SynchronousSendEvent([w EXCEPT !.tr[t] = [w.tr[t] EXCEPT !.queue = <<>>, !.active = FALSE]],
                               t, op, "ECancel", handle, "EPassive")
  BY DEF CancelTransaction
<1>3. CancelTransaction(w, t, op, handle)
        = SynchronousSendEvent([w EXCEPT !.tr[t] = r], t, op, "ECancel", handle, "EPassive")
  <2> HIDE DEF w
  <2> QED BY <1>1, <1>2 DEF Stopped
<1>4. [w EXCEPT !.tr[t] = r] = W(k, b, s, n)  BY PutTurns
<1>5. T[t] \in Transaction  OBVIOUS
<1>6. r \in Transaction /\ r.status = T[t].status  BY <1>5, StoppedIs
<1>7. k[t] = r  BY <1>6, UpdTransaction
<1>8. ValidHandle(k[t], handle)  BY <1>6, <1>7 DEF ValidHandle
<1>9. SynchronousSendEvent(W(k, b, s, n), t, op, "ECancel", handle, "EPassive")
        = W(Upd(k, t, Synced(r, e)), b, Append(s, x), n)
  <2> HIDE DEF k
  <2>1. e = Begun("ECancel", StartFilter(k[t], handle))  BY <1>7
  <2>2. x = SyncCall(k[t], t, op, "ECancel", handle, "EPassive")  BY <1>7
  <2>3. SynchronousSendEvent(W(k, b, s, n), t, op, "ECancel", handle, "EPassive")
          = W(Upd(k, t, Synced(k[t], e)), b, Append(s, x), n)
    BY <1>8, <2>1, <2>2, SyncTurns
  <2> QED BY <1>7, <2>3
<1>10. Upd(k, t, Synced(r, e)) = Upd(T, t, Synced(r, e))  BY Twice
<1> QED BY <1>3, <1>4, <1>9, <1>10

\* CancelTransaction keeps the invariant, whatever it is a part of.
LEMMA CancelKeeps ==
  ASSUME IInv, NEW t \in Tx, NEW op \in {"cancel", "close", "fail"}, NEW handle \in Handles,
         ValidHandle(tr[t], handle), tr[t].life = "open", op = "close" => handle = EClient,
         NEW x, x = SyncCall(Stopped(tr[t]), t, op, "ECancel", handle, "EPassive"),
         Pushable(stack, x), tr[t].status \in (IF Runs(stack, t) THEN {"EInFilter", "ECancelled"}
                                               ELSE {"EPassive", "EFilter", "EBlocked"}),
         handle = ECurrentFilter => Runs(stack, t),
         Become(CancelTransaction(world, t, op, handle))
  PROVE  IInv'
<1> DEFINE r == Stopped(tr[t])
           e == Begun("ECancel", StartFilter(r, handle))
           q == Synced(r, e)
<1>1. /\ Good(tr, blocking, stack) /\ sends \in 0 .. MaxSends /\ tr \in [Tx -> Transaction]
      /\ world = W(tr, blocking, stack, sends) /\ tr[t] \in Transaction
  BY WorldBegins DEF IInv, Good
<1>2. Become(W(Upd(tr, t, q), blocking, Append(stack, x), sends))  BY <1>1, CancelTurns
<1>3. /\ r \in Transaction /\ r.queue = <<>> /\ ~r.active /\ r.life = "open"
      /\ r.status = tr[t].status /\ r.atHandler = tr[t].atHandler
  BY <1>1, StoppedIs
<1>4. x = SyncCall(r, t, op, "ECancel", handle, "EPassive")  OBVIOUS
<1>5. "ECancel" \in Events /\ "EPassive" \in States /\ op \in {"cancel", "close", "fail", "cipher"}
  BY DEF Events, Outgoing, States
<1>6. Runs(stack, t) \in BOOLEAN  BY DEF Runs
<1> HIDE DEF r
<1>7. q \in Transaction /\ Gone(q) /\ q.status # "EBlocked"  BY <1>3, <1>5, <1>6, SyncedFits
<1>8. InSync(q, x, Runs(stack, t))  BY <1>3, <1>4, <1>5, <1>6, SyncedFits
<1>9. /\ x \in Frame /\ IsSync(x) /\ ~x.nested /\ x.t = t /\ x.op = op /\ x.ev = "ECancel" /\ x.handle = handle
      /\ x.s = r.status
  BY <1>3, <1>4, <1>5, SyncCallIs
<1>10. Stored(x, Runs(stack, t))  BY <1>3, <1>9 DEF Stored
<1> HIDE DEF q
<1>11. Good(Upd(tr, t, q), blocking, Append(stack, x))  BY <1>1, <1>7, <1>8, <1>9, <1>10, SyncPushes
<1> QED BY <1>1, <1>2, <1>11, StepEnds

-----------------------------------------------------------------------------
(* The client and the filters cancel, close and fail *)

\* Where a call may begin: for a transaction with no synchronous event, wherever calls
\* are made.
LEMMA FreePushable ==
  ASSUME NEW T, NEW b, NEW s, Good(T, b, s), Calling(s), NEW t \in Tx, T[t].life = "open", ~T[t].sync,
         NEW x, x.t = t, x.op # "fail" \/ (s # <<>> => ~IsSync(s[Len(s)]))
  PROVE  Pushable(s, x)
<1>1. SUFFICES ASSUME s # <<>>, IsSync(s[Len(s)]) PROVE Pushable(s, x)  BY DEF Pushable
<1>2. s \in Seq(Frame) /\ Len(s) \in DOMAIN s  BY <1>1 DEF Good
<1>3. Fails(s[Len(s)]) /\ s[Len(s)].op = "fail" /\ s[Len(s)].turn = "in" /\ s[Len(s)].f = Client
  BY <1>1, <1>2, OnlyFailures
<1>4. s[Len(s)].t # t  BY <1>1, StatusIs
<1> QED BY <1>1, <1>3, <1>4 DEF Pushable

\* A filter calls out of its RunL.
LEMMA FilterHandle ==
  ASSUME IInv, NEW t \in Tx, InFilter(t), ~IsSync(Top(world)), tr[t].life = "open"
  PROVE  Runs(stack, t) /\ ValidHandle(tr[t], ECurrentFilter) /\ stack # <<>> /\ ~IsSync(stack[Len(stack)])
<1>1. stack # <<>>  BY DEF InFilter, FilterRuns
<1>2. Top(world) = stack[Len(stack)] /\ Good(tr, blocking, stack) /\ Top(world).t = t  BY <1>1, TopNow DEF InFilter
<1>3. InRunL(tr[t], Top(world)) /\ Len(stack) \in Mine(stack, t)  BY <1>1, <1>2, TopIsMine
<1> QED BY <1>1, <1>2, <1>3 DEF InRunL, ValidHandle, Runs

\* Cancel keeps the invariant.
LEMMA CancelOpKeeps ==
  ASSUME IInv, NEW t \in Tx, Cancel(t)
  PROVE  IInv'
<1>1. tr[t].life = "open" /\ ~tr[t].sync  BY DEF Cancel, Open
<1>2. Good(tr, blocking, stack)  BY DEF IInv
<1>3. tr[t].status \in (IF Runs(stack, t) THEN {"EInFilter", "ECancelled"} ELSE {"EPassive", "EFilter", "EBlocked"})
  BY <1>1, <1>2, StatusIs
<1>4. PICK handle \in {EClient, ECurrentFilter} :
         /\ Calling(stack) /\ ValidHandle(tr[t], handle) /\ (handle = ECurrentFilter => Runs(stack, t))
         /\ Become(CancelTransaction(world, t, "cancel", handle))
  <2>1. CASE ClientRuns /\ Become(CancelTransaction(world, t, "cancel", EClient))
    <3>1. EClient # ECurrentFilter  BY DEF EClient, ECurrentFilter
    <3> QED BY <2>1, <3>1, CallersCall DEF ValidHandle
  <2>2. CASE InAsyncFilter(t) /\ Become(CancelTransaction(world, t, "cancel", ECurrentFilter))
    <3>1. InFilter(t) /\ ~IsSync(Top(world))  BY <2>2 DEF InAsyncFilter, IsSync
    <3> QED BY <1>1, <2>2, <3>1, FilterHandle, CallersCall
  <2> QED BY <2>1, <2>2 DEF Cancel
<1> DEFINE x == SyncCall(Stopped(tr[t]), t, "cancel", "ECancel", handle, "EPassive")
<1>5. x.t = t /\ x.op = "cancel"  BY DEF SyncCall
<1>6. Pushable(stack, x)
  <2> HIDE DEF x
  <2> QED BY <1>1, <1>2, <1>4, <1>5, FreePushable
<1>7. handle \in Handles  BY DEF Handles
<1> QED BY <1>1, <1>3, <1>4, <1>6, <1>7, CancelKeeps

\* Close keeps the invariant.
LEMMA CloseKeeps ==
  ASSUME IInv, NEW t \in Tx, Close(t), Careful
  PROVE  IInv'
<1>1. /\ tr[t].life = "open" /\ ClientRuns /\ (~HasCall(t) \/ InRun(t))
      /\ Become(CancelTransaction(world, t, "close", EClient))
  BY DEF Close, Open, Careful
<1>2. Good(tr, blocking, stack) /\ stack \in Seq(Frame) /\ Lined(stack)  BY DEF IInv, Good
<1>3. Calling(stack)  BY <1>1, CallersCall
<1>4. InRun(t) => Runs(stack, t) /\ 1 \in DOMAIN stack /\ stack[1].t = t /\ ~IsSync(stack[1])
  <2> SUFFICES ASSUME InRun(t) PROVE Runs(stack, t) /\ 1 \in DOMAIN stack /\ stack[1].t = t /\ ~IsSync(stack[1])
    OBVIOUS
  <2>1. PICK i \in DOMAIN stack : stack[i].t = t /\ ~IsSync(stack[i])  BY DEF InRun, IsSync
  <2>2. i = 1  BY <1>2, <2>1 DEF Lined
  <2> QED BY <2>1, <2>2 DEF Runs, Mine
<1>5. tr[t].status \in (IF Runs(stack, t) THEN {"EInFilter", "ECancelled"} ELSE {"EPassive", "EFilter", "EBlocked"})
  <2>1. CASE ~tr[t].sync  BY <1>1, <1>2, <2>1, StatusIs
  <2>2. CASE tr[t].sync
    <3>1. Fits(t, tr[t], stack)  BY <1>2 DEF Good
    <3>2. Mine(stack, t) # {}  BY <2>2, <3>1 DEF Fits, Resting
    <3>3. PICK i \in Mine(stack, t) : \A j \in Mine(stack, t) : j <= i  BY <1>2, <3>2, LastCall
    <3>4. i \in DOMAIN stack /\ stack[i].t = t  BY <3>3 DEF Mine
    <3>5. Runs(stack, t)  BY <1>1, <1>4, <3>4 DEF HasCall
    <3>6. IsSync(stack[i]) /\ InSync(tr[t], stack[i], Runs(stack, t))
      BY <2>2, <3>1, <3>3 DEF Fits, InRunL
    <3>7. stack[i].turn = "in"  BY <1>2, <1>3, <3>4, <3>6, OnlyFailures
    <3> QED BY <1>1, <3>5, <3>6, <3>7 DEF InSync
  <2> QED BY <2>1, <2>2
<1>6. EClient # ECurrentFilter /\ EClient \in Handles  BY DEF EClient, ECurrentFilter, Handles
<1> DEFINE x == SyncCall(Stopped(tr[t]), t, "close", "ECancel", EClient, "EPassive")
<1>7. x.t = t /\ x.op = "close"  BY DEF SyncCall
<1> HIDE DEF x
<1>8. Pushable(stack, x)
  <2> SUFFICES ASSUME stack # <<>>, IsSync(stack[Len(stack)]) PROVE Pushable(stack, x)  BY DEF Pushable
  <2>1. Len(stack) \in DOMAIN stack  BY <1>2
  <2>2. Fails(stack[Len(stack)]) /\ stack[Len(stack)].op = "fail" /\ stack[Len(stack)].turn = "in"
        /\ stack[Len(stack)].f = Client
    BY <1>2, <1>3, <2>1, OnlyFailures
  <2>3. stack[Len(stack)].t = t => HasCall(t)  BY <2>1 DEF HasCall
  <2> QED BY <1>1, <1>4, <1>7, <2>2, <2>3 DEF Pushable
<1> QED BY <1>1, <1>5, <1>6, <1>8, CancelKeeps DEF ValidHandle, x

\* Fail keeps the invariant.
LEMMA FailKeeps ==
  ASSUME IInv, NEW t \in Tx, Fail(t)
  PROVE  IInv'
<1>1. tr[t].life = "open" /\ ~tr[t].sync  BY DEF Fail, Open
<1>2. Good(tr, blocking, stack)  BY DEF IInv
<1>3. tr[t].status \in (IF Runs(stack, t) THEN {"EInFilter", "ECancelled"} ELSE {"EPassive", "EFilter", "EBlocked"})
  BY <1>1, <1>2, StatusIs
<1>4. PICK handle \in {EProtocolHandler, ECurrentFilter} :
         /\ stack # <<>> => ~IsSync(stack[Len(stack)])
         /\ ValidHandle(tr[t], handle) /\ (handle = ECurrentFilter => Runs(stack, t))
         /\ Become(CancelTransaction(world, t, "fail", handle))
  <2>1. CASE Scheduling /\ Become(CancelTransaction(world, t, "fail", EProtocolHandler))
    <3>1. EProtocolHandler # ECurrentFilter  BY DEF EProtocolHandler, ECurrentFilter
    <3> QED BY <2>1, <3>1, CallersCall DEF ValidHandle
  <2>2. CASE InFilter(t) /\ Top(world).kind = "error" /\ Become(CancelTransaction(world, t, "fail", ECurrentFilter))
    <3>1. ~IsSync(Top(world))  BY <2>2 DEF IsSync
    <3> QED BY <1>1, <2>2, <3>1, FilterHandle
  <2> QED BY <2>1, <2>2 DEF Fail
<1> DEFINE x == SyncCall(Stopped(tr[t]), t, "fail", "ECancel", handle, "EPassive")
<1>6. Pushable(stack, x)  BY <1>4 DEF Pushable
<1>7. handle \in Handles  BY DEF Handles
<1> QED BY <1>1, <1>3, <1>4, <1>6, <1>7, CancelKeeps

\* CipherSuite keeps the invariant.
LEMMA CipherSuiteKeeps ==
  ASSUME IInv, NEW t \in Tx, CipherSuite(t), Careful
  PROVE  IInv'
<1>1. /\ tr[t].life = "open" /\ ClientRuns /\ EventList(tr[t]) = <<>>
      /\ Become(SynchronousSendEvent(world, t, "cipher", "EGetCipherSuite", EClient, "EPassive"))
  BY DEF CipherSuite, Open, Careful
<1>2. /\ Good(tr, blocking, stack) /\ sends \in 0 .. MaxSends /\ tr \in [Tx -> Transaction]
      /\ world = W(tr, blocking, stack, sends)
  BY WorldBegins DEF IInv, Good
<1> DEFINE r == tr[t]
           e == Begun("EGetCipherSuite", StartFilter(r, EClient))
           q == Synced(r, e)
           x == SyncCall(r, t, "cipher", "EGetCipherSuite", EClient, "EPassive")
<1>3. r \in Transaction  BY <1>2
<1>4. ~r.sync /\ r.queue = <<>>
  <2>1. r.queue \in Seq(Event) /\ r.syncEvent \in Event /\ r.sync \in BOOLEAN  BY <1>3, TransactionFields
  <2>2. <<r.syncEvent>> \o r.queue # <<>>  BY <2>1
  <2> QED BY <1>1, <2>1, <2>2 DEF EventList
<1>5. /\ r.status \in (IF Runs(stack, t) THEN {"EInFilter", "ECancelled"} ELSE {"EPassive", "EFilter", "EBlocked"})
      /\ ~r.active /\ r.status \in {"EPassive", "ECancelled"}
  BY <1>1, <1>2, <1>4, StatusIs
<1>6. EClient # ECurrentFilter /\ EClient \in Handles  BY DEF EClient, ECurrentFilter, Handles
<1>7. "EGetCipherSuite" \in Events /\ "EPassive" \in States  BY DEF Events, Outgoing, States
<1>8. Runs(stack, t) \in BOOLEAN  BY DEF Runs
<1>9. ValidHandle(r, EClient)  BY <1>6 DEF ValidHandle
<1>10. Become(W(Upd(tr, t, q), blocking, Append(stack, x), sends))  BY <1>1, <1>2, <1>9, SyncTurns
<1>11. r.life = "open"  BY <1>1
<1> HIDE DEF r
<1>12. q \in Transaction /\ Gone(q) /\ q.status # "EBlocked"
  <2>1. e \in Event  BY <1>3, <1>7, StartIs
  <2> HIDE DEF e
  <2>2. q \in Transaction /\ q.status = "EPassive" /\ q.life = r.life  BY <1>3, <2>1, SyncedIs
  <2> HIDE DEF q
  <2> QED BY <1>11, <2>2 DEF Gone
<1>13. InSync(q, x, Runs(stack, t))  BY <1>3, <1>4, <1>5, <1>6, <1>7, <1>8, <1>11, SyncedFits
<1>14. /\ x \in Frame /\ IsSync(x) /\ ~x.nested /\ x.t = t /\ x.op = "cipher" /\ x.ev = "EGetCipherSuite"
       /\ x.handle = EClient /\ x.s = r.status
  BY <1>3, <1>6, <1>7, SyncCallIs
<1>15. Stored(x, Runs(stack, t))  BY <1>5, <1>6, <1>14 DEF Stored
<1>16. Pushable(stack, x)
  <2>1. Calling(stack)  BY <1>1, CallersCall
  <2> HIDE DEF x
  <2> QED BY <1>1, <1>2, <1>4, <1>14, <2>1, FreePushable DEF r
<1> HIDE DEF q, x
<1>17. Good(Upd(tr, t, q), blocking, Append(stack, x))
  BY <1>2, <1>12, <1>13, <1>14, <1>15, <1>16, SyncPushes
<1> QED BY <1>2, <1>10, <1>17, StepEnds

-----------------------------------------------------------------------------
(* A filter returns to a synchronous event *)

\* The local variables of SynchronousSendEvent.
LEMMA SyncFrames ==
  ASSUME NEW x \in Frame, IsSync(x)
  PROVE  /\ x.op \in {"cancel", "close", "fail", "cipher"} /\ x.ev \in Events /\ x.handle \in Handles
         /\ x.s \in States /\ x.saved \in States /\ x.stored \in Event /\ x.remembered \in Filters
         /\ x.turn \in {"first", "in", "next"}
<1>1. x \in SyncFrame  BY FrameKinds
<1> QED BY <1>1 DEF SyncFrame

\* The same call at another place of its loop.
LEMMA TurnIs ==
  ASSUME NEW x \in Frame, IsSync(x), NEW turn \in {"first", "in", "next"}, NEW y, y = InTurn(x, turn)
  PROVE  /\ y \in Frame /\ IsSync(y) /\ y.t = x.t /\ y.f = x.f /\ y.nested = x.nested /\ y.turn = turn
         /\ y.op = x.op /\ y.ev = x.ev /\ y.handle = x.handle /\ y.s = x.s /\ y.saved = x.saved
<1>1. x \in SyncFrame  BY FrameKinds
<1>2. y \in SyncFrame  BY <1>1 DEF InTurn, SyncFrame
<1>3. /\ y.t = x.t /\ y.f = x.f /\ y.nested = x.nested /\ y.turn = turn /\ y.kind = "sync"
      /\ y.op = x.op /\ y.ev = x.ev /\ y.handle = x.handle /\ y.s = x.s /\ y.saved = x.saved
  BY <1>1 DEF InTurn, SyncFrame
<1>4. y \in Frame /\ IsSync(y)  BY <1>2, <1>3 DEF Frame, IsSync
<1> QED BY <1>3, <1>4

\* They stay as they are from filter to filter.
LEMMA StoredAgain ==
  ASSUME NEW x, NEW y, NEW a, Stored(x, a), y.s = x.s, y.ev = x.ev, y.handle = x.handle, y.saved = x.saved, y.op = x.op
  PROVE  Stored(y, a)
BY DEF Stored

\* A filter returns from a synchronous event.
LEMMA SyncFilterReturnsIs ==
  ASSUME IInv, SyncFilterReturns, NEW x, x = Top(world), NEW t, t = x.t
  PROVE  /\ stack # <<>> /\ x = stack[Len(stack)] /\ IsSync(x) /\ x.turn = "in" /\ ~x.nested
         /\ Become(W(Upd(tr, t, LeaveFilter(tr[t])), blocking, Topped(stack, InTurn(x, "next")), sends))
<1> DEFINE q == LeaveFilter(tr[t])
<1>1. ReturnReady("sync") /\ Become(Turned([world EXCEPT !.tr[t] = LeaveFilter(@)], "next"))  BY DEF SyncFilterReturns
<1>2. stack # <<>> /\ x.kind = "sync" /\ x.turn = "in" /\ ~x.nested  BY <1>1 DEF ReturnReady, FilterRuns
<1>3. x = stack[Len(stack)] /\ world = W(tr, blocking, stack, sends) /\ stack \in Seq(Frame)
  BY <1>2, TopNow
<1>4. world.tr = tr  BY <1>3 DEF W
<1>5. [world EXCEPT !.tr[t] = LeaveFilter(@)] = [world EXCEPT !.tr[t] = q]  BY <1>4
<1> HIDE DEF q
<1>6. [world EXCEPT !.tr[t] = q] = W(Upd(tr, t, q), blocking, stack, sends)  BY <1>3, PutTurns
<1>7. Turned(W(Upd(tr, t, q), blocking, stack, sends), "next")
        = W(Upd(tr, t, q), blocking, Topped(stack, InTurn(stack[Len(stack)], "next")), sends)
  BY <1>2, <1>3, TurnedTurns
<1>8. Become(W(Upd(tr, t, q), blocking, Topped(stack, InTurn(x, "next")), sends))  BY <1>1, <1>3, <1>5, <1>6, <1>7
<1> QED BY <1>2, <1>3, <1>8 DEF IsSync, q

\* It keeps the invariant.
LEMMA SyncFilterReturnsKeeps ==
  ASSUME IInv, SyncFilterReturns
  PROVE  IInv'
<1> DEFINE x == Top(world)
           t == x.t
           q == LeaveFilter(tr[t])
           y == InTurn(x, "next")
           a == Runs(stack, t)
<1>1. /\ stack # <<>> /\ x = stack[Len(stack)] /\ IsSync(x) /\ x.turn = "in" /\ ~x.nested
      /\ Become(W(Upd(tr, t, q), blocking, Topped(stack, y), sends))
  BY SyncFilterReturnsIs
<1>2. /\ Good(tr, blocking, stack) /\ sends \in 0 .. MaxSends /\ t \in Tx /\ x \in Frame
      /\ tr \in [Tx -> Transaction] /\ tr[t] \in Transaction /\ stack \in Seq(Frame)
  BY <1>1, TopNow
<1>5. InSync(tr[t], x, a) /\ Stored(x, a) /\ Gone(tr[t])
  <2>1. Fits(t, tr[t], stack)  BY <1>2 DEF Good
  <2>2. InSync(tr[t], x, a) /\ Stored(x, a)  BY <1>1, <1>2, TopIsMine
  <2> QED BY <2>1, <2>2 DEF Fits, Gone
<1>6. /\ y \in Frame /\ IsSync(y) /\ y.t = x.t /\ y.nested = x.nested /\ y.turn = "next"
      /\ y.op = x.op /\ y.ev = x.ev /\ y.handle = x.handle /\ y.s = x.s /\ y.saved = x.saved
  <2> HIDE DEF x
  <2> QED BY <1>1, <1>2, TurnIs
<1>8. /\ q \in Transaction /\ q.active = tr[t].active /\ q.sync = tr[t].sync
      /\ q.next = tr[t].next /\ q.life = tr[t].life /\ q.queue = tr[t].queue
      /\ q.atHandler = tr[t].atHandler /\ q.syncEvent = tr[t].syncEvent
      /\ tr[t].status = "EInFilter" => q.status = "EFilter"
      /\ tr[t].status \notin {"EInFilter", "ECancelled"} => q = tr[t]
  BY <1>2, LeaveIs
<1>9. Stored(y, a)  BY <1>5, <1>6, StoredAgain
<1>10. Fails(y) <=> Fails(x)  BY <1>1, <1>6 DEF Fails
<1> HIDE DEF q, y, a
<1>11. InSync(q, y, a) /\ Gone(q) /\ q.status # "EBlocked"
  <2>1. CASE tr[t].life = "open"
    <3>1. tr[t].status = "EInFilter"  BY <1>1, <1>5, <2>1 DEF InSync
    <3>2. q.status = "EFilter"  BY <1>8, <3>1
    <3>3. Ahead(tr[t], x) => Ahead(q, y)  BY <1>1, <1>6, <1>8 DEF Ahead
    <3>4. InSync(q, y, a)  BY <1>1, <1>5, <1>6, <1>8, <1>10, <2>1, <3>2, <3>3 DEF InSync
    <3> QED BY <1>8, <2>1, <3>2, <3>4 DEF Gone
  <2>2. CASE tr[t].life # "open"
    <3>1. tr[t].life = "closed" /\ tr[t].status = "EExiting"
      BY <1>2, <1>5, <2>2 DEF InSync, Transaction, Lives
    <3>2. q = tr[t]  BY <1>8, <3>1
    <3>3. InSync(q, y, a)  BY <1>5, <1>6, <1>10, <3>1, <3>2 DEF InSync
    <3> QED BY <1>5, <3>1, <3>2, <3>3
  <2> QED BY <2>1, <2>2
<1>12. Good(Upd(tr, t, q), blocking, Topped(stack, y))
  <2> HIDE DEF x
  <2> QED BY <1>1, <1>2, <1>6, <1>8, <1>9, <1>11, SyncGoesOn DEF a
<1> QED BY <1>1, <1>2, <1>12, StepEnds

-----------------------------------------------------------------------------
(* The end of a synchronous event, and what follows it *)

Ended(r, x) == [r EXCEPT !.current = x.remembered, !.sync = FALSE, !.syncEvent = x.stored,
                         !.status = IF r.status = "EExiting" THEN r.status ELSE x.s]

\* The end of SynchronousSendEvent restores what it has stored.
LEMMA EndedIs ==
  ASSUME NEW r \in Transaction, NEW x \in Frame, IsSync(x)
  PROVE  /\ Ended(r, x) \in Transaction /\ ~Ended(r, x).sync
         /\ Ended(r, x).status = (IF r.status = "EExiting" THEN r.status ELSE x.s)
         /\ Ended(r, x).active = r.active /\ Ended(r, x).queue = r.queue /\ Ended(r, x).life = r.life
         /\ Ended(r, x).atHandler = r.atHandler
<1>1. x.stored \in Event /\ x.remembered \in Filters /\ x.s \in States  BY SyncFrames
<1> DEFINE v == IF r.status = "EExiting" THEN r.status ELSE x.s
<1>2. v \in States  BY <1>1, TransactionFields
<1>3. Ended(r, x) = [r EXCEPT !.current = x.remembered, !.sync = FALSE, !.syncEvent = x.stored, !.status = v]
  BY DEF Ended
<1> HIDE DEF v
<1>4. /\ Ended(r, x) \in Transaction /\ ~Ended(r, x).sync /\ Ended(r, x).status = v
      /\ Ended(r, x).active = r.active /\ Ended(r, x).queue = r.queue /\ Ended(r, x).life = r.life
      /\ Ended(r, x).atHandler = r.atHandler
  BY <1>1, <1>2, <1>3 DEF Transaction
<1> QED BY <1>4 DEF v

\* The end of CancelTransaction.
LEMMA CancelledIs ==
  ASSUME NEW r \in Transaction
  PROVE  /\ Cancelled(r) \in Transaction /\ Cancelled(r).sync = r.sync /\ Cancelled(r).active = r.active
         /\ Cancelled(r).queue = r.queue /\ Cancelled(r).life = r.life /\ Cancelled(r).atHandler = r.atHandler
         /\ Cancelled(r).status = (IF r.status \in {"EInFilter", "ECancelled"} THEN "ECancelled" ELSE "EPassive")
<1> DEFINE v == IF r.status \in {"EInFilter", "ECancelled"} THEN "ECancelled" ELSE "EPassive"
<1>1. v \in States  BY DEF States
<1>2. Cancelled(r) = [r EXCEPT !.status = v]  BY DEF Cancelled
<1> HIDE DEF v
<1>3. /\ Cancelled(r) \in Transaction /\ Cancelled(r).sync = r.sync /\ Cancelled(r).active = r.active
      /\ Cancelled(r).queue = r.queue /\ Cancelled(r).life = r.life /\ Cancelled(r).atHandler = r.atHandler
      /\ Cancelled(r).status = v
  BY <1>1, <1>2 DEF Transaction
<1> QED BY <1>3 DEF v

\* The end of Close.
LEMMA ClosedIs ==
  ASSUME NEW r \in Transaction, NEW saved \in States
  PROVE  /\ Closed(r, saved) \in Transaction /\ Closed(r, saved).sync = r.sync /\ ~Closed(r, saved).active
         /\ Closed(r, saved).queue = r.queue /\ Closed(r, saved).atHandler = r.atHandler
         /\ Closed(r, saved).status = (IF saved = "ECancelled" THEN "EExiting" ELSE saved)
         /\ Closed(r, saved).life = (IF saved = "ECancelled" THEN "closed" ELSE "deleted")
<1> DEFINE v == IF saved = "ECancelled" THEN "EExiting" ELSE saved
           l == IF saved = "ECancelled" THEN "closed" ELSE "deleted"
<1>1. v \in States /\ l \in Lives  BY DEF States, Lives
<1>2. Closed(r, saved) = [r EXCEPT !.active = FALSE, !.status = v, !.life = l]  BY DEF Closed
<1> HIDE DEF v, l
<1>3. /\ Closed(r, saved) \in Transaction /\ Closed(r, saved).sync = r.sync /\ ~Closed(r, saved).active
      /\ Closed(r, saved).queue = r.queue /\ Closed(r, saved).atHandler = r.atHandler
      /\ Closed(r, saved).status = v /\ Closed(r, saved).life = l
  BY <1>1, <1>2 DEF Transaction
<1> QED BY <1>3 DEF v, l

\* A transaction with no event; a says whether it is in its RunL.
Emptied(r, a) ==
  /\ r \in Transaction /\ ~r.sync /\ ~r.active /\ r.queue = <<>> /\ r.life = "open"
  /\ r.status = IF a THEN "ECancelled" ELSE "EPassive"

\* It has no event, and a synchronous one has been nowhere.
Restarts(q) == q \in Transaction /\ q.queue = <<>> /\ (q.sync => q.status = "EPassive" /\ q.syncEvent.seen = <<>>)

\* The call has returned, or a synchronous event takes its place.
Under(s, z) == z = Cut(s) \/ \E y \in Frame : IsSync(y) /\ z = Topped(s, y)

Settled(w, T, b, s, t, n) ==
  \E q, z : w = W(Upd(T, t, q), b, z, n) /\ Good(Upd(T, t, q), b, z) /\ Restarts(q) /\ Under(s, z)

\* The operation is done.
LEMMA SyncDone ==
  ASSUME NEW T, NEW b, NEW s, Good(T, b, s), s # <<>>, NEW x, x = s[Len(s)], IsSync(x), NEW t, t = x.t,
         x.op # "close", NEW q, Emptied(q, Runs(s, t)), NEW n
  PROVE  Settled(W(Upd(T, t, q), b, Cut(s), n), T, b, s, t, n)
<1> DEFINE a == Runs(s, t)
<1>1. a \in BOOLEAN  BY DEF Runs
<1>2. q \in Transaction /\ Gone(q) /\ q.status # "EBlocked"  BY DEF Emptied, Gone
<1>3. ~a => Resting(q)  BY DEF Emptied, Resting
<1>4. a => InRunL(q, s[1])  BY DEF Emptied, InRunL
<1>5. Good(Upd(T, t, q), b, Cut(s))  BY <1>2, <1>3, <1>4, SyncEnds
<1>6. Restarts(q)  BY DEF Emptied, Restarts
<1>7. Under(s, Cut(s))  BY DEF Under
<1> QED BY <1>5, <1>6, <1>7 DEF Settled

\* The operation goes on with its next synchronous event.
NextEvent(op, ev) == \/ op = "close" /\ ev = "EClosed"
                     \/ op = "fail" /\ ev \in {"EUnrecoverableError", "EFailed"}
\* The next synchronous event of the same operation.
LEMMA SyncAgain ==
  ASSUME NEW T, NEW b, NEW s, Good(T, b, s), s # <<>>, NEW x, x = s[Len(s)], IsSync(x), NEW t, t = x.t,
         NEW r, Emptied(r, Runs(s, t)), NEW op, op = x.op, NEW ev,
         NextEvent(op, ev),
         NEW handle \in Handles, handle = ECurrentFilter => Runs(s, t), NEW saved \in States,
         ev = "EClosed" => saved = r.status, op = "close" => ~r.atHandler, NEW n
  PROVE  Settled(SynchronousSendEvent(W(Upd(T, t, r), b, Cut(s), n), t, op, ev, handle, saved), T, b, s, t, n)
<1> DEFINE a == Runs(s, t)
           e == Begun(ev, StartFilter(r, handle))
           q == Synced(r, e)
           y == SyncCall(r, t, op, ev, handle, saved)
           k == Upd(T, t, r)
<1>1. T \in [Tx -> Transaction] /\ t \in Tx /\ s \in Seq(Frame) /\ x \in Frame  BY TopIsMine DEF Good
<1>2. r \in Transaction /\ ~r.active /\ r.queue = <<>> /\ r.life = "open" /\ r.status = (IF a THEN "ECancelled" ELSE "EPassive")
  BY DEF Emptied
<1>3. a \in BOOLEAN  BY DEF Runs
<1>4. op \in {"cancel", "close", "fail", "cipher"} /\ ev \in Events /\ ev # "ECancel"
  BY DEF Events, Outgoing, Incoming, NextEvent
<1>5. ValidHandle(r, handle)  BY <1>2 DEF ValidHandle
<1>6. k[t] = r  BY <1>1, <1>2, UpdTransaction
<1>7. /\ y \in Frame /\ IsSync(y) /\ ~y.nested /\ y.t = t /\ y.op = op /\ y.ev = ev /\ y.handle = handle
      /\ y.turn = "first" /\ y.s = r.status /\ y.saved = saved
  BY <1>1, <1>2, <1>4, SyncCallIs
<1>8. SynchronousSendEvent(W(k, b, Cut(s), n), t, op, ev, handle, saved) = W(Upd(T, t, q), b, Topped(s, y), n)
  <2> HIDE DEF k
  <2>1. e = Begun(ev, StartFilter(k[t], handle)) /\ y = SyncCall(k[t], t, op, ev, handle, saved)
        /\ ValidHandle(k[t], handle)
    BY <1>5, <1>6
  <2> HIDE DEF e, y
  <2>2. SynchronousSendEvent(W(k, b, Cut(s), n), t, op, ev, handle, saved)
          = W(Upd(k, t, Synced(k[t], e)), b, Append(Cut(s), y), n)
    BY <2>1, SyncTurns
  <2>3. Upd(k, t, q) = Upd(T, t, q)  BY <1>1, Twice DEF k
  <2>4. Append(Cut(s), y) = Topped(s, y)  BY <1>1, <1>7, CutAppend
  <2> QED BY <1>6, <2>2, <2>3, <2>4
<1>9. op = "close" /\ r.atHandler => ev = "ECancel" /\ handle = EClient  BY DEF NextEvent
<1>10. InSync(q, y, a)  BY <1>1, <1>2, <1>3, <1>4, <1>9, SyncedFits
<1>11. q \in Transaction /\ Gone(q) /\ q.status # "EBlocked" /\ Restarts(q)
  <2>1. e \in Event  BY <1>2, <1>4, StartIs
  <2>2. e.seen = <<>>  BY DEF Begun
  <2> HIDE DEF e
  <2>3. q \in Transaction /\ q.status = "EPassive" /\ q.life = r.life /\ q.queue = r.queue /\ q.syncEvent = e
    BY <1>2, <2>1, SyncedIs
  <2> HIDE DEF q
  <2> QED BY <1>2, <2>2, <2>3 DEF Gone, Restarts
<1>12. Stored(y, a)  BY <1>2, <1>4, <1>7 DEF Stored, NextEvent
<1> HIDE DEF q, y, e
<1>13. Good(Upd(T, t, q), b, Topped(s, y))  BY <1>7, <1>10, <1>11, <1>12, SyncGoesOn
<1>14. Under(s, Topped(s, y))  BY <1>7 DEF Under
<1> QED BY <1>8, <1>11, <1>13, <1>14 DEF Settled

\* The transaction is closed, or deleted.
LEMMA SyncCloses ==
  ASSUME NEW T, NEW b, NEW s, Good(T, b, s), s # <<>>, NEW x, x = s[Len(s)], IsSync(x), NEW t, t = x.t,
         NEW r, Emptied(r, Runs(s, t)), ~r.atHandler, NEW n
  PROVE  Settled(W(Upd(T, t, Closed(r, r.status)), b, Cut(s), n), T, b, s, t, n)
<1> DEFINE a == Runs(s, t)
           q == Closed(r, r.status)
<1>1. r \in Transaction /\ ~r.sync /\ r.queue = <<>> /\ r.status = (IF a THEN "ECancelled" ELSE "EPassive")
  BY DEF Emptied
<1>2. a \in BOOLEAN /\ r.status \in States  BY <1>1, TransactionFields DEF Runs
<1>3. /\ q \in Transaction /\ ~q.sync /\ ~q.active /\ q.queue = <<>> /\ ~q.atHandler
      /\ q.status = (IF a THEN "EExiting" ELSE "EPassive")
      /\ q.life = (IF a THEN "closed" ELSE "deleted")
  BY <1>1, <1>2, ClosedIs
<1> HIDE DEF q
<1>4. Gone(q) /\ q.status # "EBlocked"  BY <1>3 DEF Gone
<1>5. ~a => Resting(q)  BY <1>3 DEF Resting
<1>6. a => InRunL(q, s[1])  BY <1>3 DEF InRunL
<1>7. a /\ x.op = "close" /\ IsSync(s[2]) /\ Fails(s[2]) /\ s[2].turn = "in" => InSync(q, s[2], TRUE)
  BY <1>3 DEF InSync
<1>8. Good(Upd(T, t, q), b, Cut(s))  BY <1>3, <1>4, <1>5, <1>6, <1>7, SyncEnds
<1>9. Restarts(q)  BY <1>3 DEF Restarts
<1>10. Under(s, Cut(s))  BY DEF Under
<1> QED BY <1>8, <1>9, <1>10 DEF Settled, q

\* The end of a failure's events under a transaction that the client has closed there.
LEMMA SyncExits ==
  ASSUME NEW T, NEW b, NEW s, Good(T, b, s), s # <<>>, NEW x, x = s[Len(s)], IsSync(x), NEW t, t = x.t,
         x.op # "close", Runs(s, t), NEW q \in Transaction, ~q.sync, ~q.active, q.queue = <<>>,
         q.life = "closed", q.status = "EExiting", ~q.atHandler
  PROVE  Good(Upd(T, t, q), b, Cut(s))
<1>1. Gone(q)  BY DEF Gone
<1>2. InRunL(q, s[1])  BY DEF InRunL
<1> QED BY <1>1, <1>2, SyncEnds

-----------------------------------------------------------------------------
(* The loop of SynchronousSendEvent *)

\* A transaction that is back in the state its call has stored.
LEMMA CancelledEmpties ==
  ASSUME NEW d \in Transaction, ~d.sync, ~d.active, d.queue = <<>>, d.life = "open", NEW a \in BOOLEAN,
         d.status \in (IF a THEN {"EInFilter", "ECancelled"} ELSE {"EPassive", "EFilter", "EBlocked"})
  PROVE  Emptied(Cancelled(d), a) /\ Cancelled(d).atHandler = d.atHandler
<1> DEFINE c == Cancelled(d)
<1>1. /\ c \in Transaction /\ ~c.sync /\ ~c.active /\ c.queue = <<>> /\ c.life = "open" /\ c.atHandler = d.atHandler
      /\ c.status = (IF d.status \in {"EInFilter", "ECancelled"} THEN "ECancelled" ELSE "EPassive")
  BY CancelledIs
<1> HIDE DEF c
<1>2. c.status = (IF a THEN "ECancelled" ELSE "EPassive")  BY <1>1
<1> QED BY <1>1, <1>2 DEF Emptied, c

\* What follows the synchronous event of an open transaction,
LEMMA ContinueOpen ==
  ASSUME NEW T, NEW b, NEW s, Good(T, b, s), s # <<>>, NEW x, x = s[Len(s)], IsSync(x), NEW t, t = x.t,
         NEW d \in Transaction, ~d.sync, ~d.active, d.queue = <<>>, d.life = "open", d.status = x.s,
         x.op = "close" => ~d.atHandler, NEW n
  PROVE  Settled(Continue(W(Upd(T, t, d), b, Cut(s), n), t, x), T, b, s, t, n)
<1> DEFINE a == Runs(s, t)
           k == Upd(T, t, d)
           w == W(k, b, Cut(s), n)
           c == Cancelled(d)
           v == W(Upd(T, t, c), b, Cut(s), n)
<1>1. T \in [Tx -> Transaction] /\ t \in Tx /\ x \in Frame /\ Stored(x, a)  BY TopIsMine DEF Good
<1>2. x.handle \in Handles /\ x.saved \in States  BY <1>1, SyncFrames
<1>3. a \in BOOLEAN  BY DEF Runs
<1>4. d.status \in (IF a THEN {"EInFilter", "ECancelled"} ELSE {"EPassive", "EFilter", "EBlocked"})
      /\ (x.handle = ECurrentFilter => a)
  BY <1>1 DEF Stored
<1>5. Emptied(c, a) /\ c.atHandler = d.atHandler  BY <1>3, <1>4, CancelledEmpties
<1>6. x.ev # "ECancel" => Emptied(d, a)  BY <1>1, <1>3, <1>4 DEF Stored, Emptied
<1>7. k[t] = d /\ w.tr = k /\ w.tr[t] = d  BY <1>1, UpdTransaction DEF W
<1>8. [w EXCEPT !.tr[t] = c] = v
  <2>1. Upd(k, t, c) = Upd(T, t, c)  BY <1>1, Twice
  <2> HIDE DEF k, c
  <2>2. [w EXCEPT !.tr[t] = c] = W(Upd(k, t, c), b, Cut(s), n)  BY PutTurns
  <2> QED BY <2>1, <2>2
<1> HIDE DEF w, v, c
<1>9. CASE x.op = "cancel"
  <2>1. Continue(w, t, x) = [w EXCEPT !.tr[t] = Cancelled(w.tr[t])]  BY <1>9, Zenon DEF Continue
  <2>2. Continue(w, t, x) = v  BY <1>7, <1>8, <2>1 DEF c
  <2>3. Settled(v, T, b, s, t, n)  BY <1>5, <1>9, SyncDone DEF v
  <2> QED BY <2>2, <2>3 DEF w
<1>10. CASE x.op = "close" /\ x.ev = "ECancel"
  <2>1. Continue(w, t, x) = SynchronousSendEvent([w EXCEPT !.tr[t] = Cancelled(w.tr[t])], t, "close", "EClosed",
                                                 EClient, Cancelled(w.tr[t]).status)
    BY <1>10 DEF Continue
  <2>2. Continue(w, t, x) = SynchronousSendEvent(v, t, "close", "EClosed", EClient, c.status)
    BY <1>7, <1>8, <2>1 DEF c
  <2>3. EClient \in Handles /\ EClient # ECurrentFilter  BY DEF Handles, EClient, ECurrentFilter
  <2>4. c.status \in States  BY <1>5, TransactionFields DEF Emptied
  <2>5. ~c.atHandler  BY <1>5, <1>10
  <2>6. Settled(SynchronousSendEvent(v, t, "close", "EClosed", EClient, c.status), T, b, s, t, n)
    <3>1. NextEvent("close", "EClosed")  BY DEF NextEvent
    <3>2. "close" = x.op  BY <1>10
    <3>3. "EClosed" = "EClosed" => c.status = c.status  OBVIOUS
    <3>4. EClient = ECurrentFilter => Runs(s, t)  BY <2>3
    <3> QED BY <1>5, <2>3, <2>4, <2>5, <3>1, <3>2, <3>3, <3>4, SyncAgain DEF v
  <2> QED BY <2>2, <2>6 DEF w
<1>11. CASE x.op = "close" /\ x.ev = "EClosed"
  <2>1. Continue(w, t, x) = [w EXCEPT !.tr[t] = Closed(w.tr[t], x.saved)]  BY <1>11 DEF Continue
  <2>2. x.saved = d.status  BY <1>1, <1>11 DEF Stored
  <2> DEFINE q == Closed(d, d.status)
  <2>3. Continue(w, t, x) = [w EXCEPT !.tr[t] = q]  BY <1>7, <2>1, <2>2
  <2> HIDE DEF q
  <2>4. [w EXCEPT !.tr[t] = q] = W(Upd(T, t, q), b, Cut(s), n)
    <3>1. Upd(k, t, q) = Upd(T, t, q)  BY <1>1, Twice
    <3> HIDE DEF k
    <3>2. [w EXCEPT !.tr[t] = q] = W(Upd(k, t, q), b, Cut(s), n)  BY PutTurns DEF w
    <3> QED BY <3>1, <3>2
  <2>5. Settled(W(Upd(T, t, q), b, Cut(s), n), T, b, s, t, n)
    <3>1. Emptied(d, a) /\ ~d.atHandler  BY <1>6, <1>11
    <3> QED BY <3>1, SyncCloses DEF q
  <2> QED BY <2>3, <2>4, <2>5 DEF w
<1>12. CASE x.op = "fail" /\ x.ev = "ECancel"
  <2>1. Continue(w, t, x) = SynchronousSendEvent([w EXCEPT !.tr[t] = Cancelled(w.tr[t])], t, "fail",
                                                 "EUnrecoverableError", x.handle, "EPassive")
    BY <1>12 DEF Continue
  <2>2. Continue(w, t, x) = SynchronousSendEvent(v, t, "fail", "EUnrecoverableError", x.handle, "EPassive")
    BY <1>7, <1>8, <2>1 DEF c
  <2>3. "EPassive" \in States  BY DEF States
  <2>4. Settled(SynchronousSendEvent(v, t, "fail", "EUnrecoverableError", x.handle, "EPassive"), T, b, s, t, n)
    <3>1. NextEvent("fail", "EUnrecoverableError") /\ "fail" = x.op  BY <1>12 DEF NextEvent
    <3> QED BY <1>2, <1>4, <1>5, <2>3, <3>1, SyncAgain DEF v
  <2> QED BY <2>2, <2>4 DEF w
<1>13. CASE x.op = "fail" /\ x.ev = "EUnrecoverableError"
  <2>1. Emptied(d, a) /\ d.status # "EExiting"  BY <1>6, <1>13 DEF Emptied
  <2>2. Continue(w, t, x) = SynchronousSendEvent(w, t, "fail", "EFailed", x.handle, "EPassive")
    BY <1>7, <1>13, <2>1 DEF Continue
  <2>3. "EPassive" \in States  BY DEF States
  <2>4. Settled(SynchronousSendEvent(w, t, "fail", "EFailed", x.handle, "EPassive"), T, b, s, t, n)
    <3>1. NextEvent("fail", "EFailed") /\ "fail" = x.op  BY <1>13 DEF NextEvent
    <3> QED BY <1>2, <1>4, <2>1, <2>3, <3>1, SyncAgain DEF w
  <2> QED BY <2>2, <2>4 DEF w
<1>14. CASE (x.op = "fail" /\ x.ev = "EFailed") \/ (x.op = "cipher" /\ x.ev = "EGetCipherSuite")
  <2>1. Emptied(d, a)  BY <1>6, <1>14
  <2>2. Continue(w, t, x) = w  BY <1>14, Zenon DEF Continue
  <2>3. Settled(w, T, b, s, t, n)  BY <1>14, <2>1, SyncDone DEF w
  <2> QED BY <2>2, <2>3 DEF w
<1>15. \/ x.op = "cancel"
       \/ x.op = "close" /\ (x.ev = "ECancel" \/ x.ev = "EClosed")
       \/ x.op = "fail" /\ (x.ev = "ECancel" \/ x.ev = "EUnrecoverableError" \/ x.ev = "EFailed")
       \/ x.op = "cipher" /\ x.ev = "EGetCipherSuite"
  BY <1>1 DEF Stored
<1> QED BY <1>9, <1>10, <1>11, <1>12, <1>13, <1>14, <1>15

\* and of one that was closed while the client was told of its failure.
LEMMA ContinueClosed ==
  ASSUME NEW T, NEW b, NEW s, Good(T, b, s), s # <<>>, NEW x, x = s[Len(s)], IsSync(x), NEW t, t = x.t,
         NEW d \in Transaction, ~d.sync, ~d.active, d.queue = <<>>, d.life = "closed",
         d.status = "EExiting", ~d.atHandler, Fails(x), Runs(s, t), NEW n
  PROVE  Continue(W(Upd(T, t, d), b, Cut(s), n), t, x) = W(Upd(T, t, d), b, Cut(s), n)
         /\ Good(Upd(T, t, d), b, Cut(s))
<1> DEFINE w == W(Upd(T, t, d), b, Cut(s), n)
<1>1. T \in [Tx -> Transaction] /\ t \in Tx /\ Stored(x, Runs(s, t))  BY TopIsMine DEF Good
<1>2. x.op = "fail" /\ x.ev # "ECancel"  BY <1>1 DEF Stored, Fails
<1>3. w.tr[t] = d  BY <1>1, UpdTransaction DEF W
<1>4. Good(Upd(T, t, d), b, Cut(s))  BY <1>2, SyncExits
<1> HIDE DEF w
<1>5. Continue(w, t, x) = w  BY <1>2, <1>3 DEF Continue
<1> QED BY <1>4, <1>5 DEF w

-----------------------------------------------------------------------------
(* The next filter of a synchronous event *)

FrameIn(x, f) == [x EXCEPT !.f = f, !.turn = "in"]

\* A synchronous event enters a filter.
LEMMA FrameInIs ==
  ASSUME NEW x \in Frame, IsSync(x), NEW f \in Filters
  PROVE  LET y == FrameIn(x, f) IN
         /\ y \in Frame /\ IsSync(y) /\ y.t = x.t /\ y.f = f /\ y.nested = x.nested /\ y.turn = "in"
         /\ y.op = x.op /\ y.ev = x.ev /\ y.handle = x.handle /\ y.s = x.s /\ y.saved = x.saved
<1> DEFINE y == FrameIn(x, f)
<1>1. x \in SyncFrame  BY FrameKinds
<1>2. y \in SyncFrame  BY <1>1 DEF FrameIn, SyncFrame
<1>3. /\ y.t = x.t /\ y.f = f /\ y.nested = x.nested /\ y.turn = "in" /\ y.kind = "sync"
      /\ y.op = x.op /\ y.ev = x.ev /\ y.handle = x.handle /\ y.s = x.s /\ y.saved = x.saved
  BY <1>1 DEF FrameIn, SyncFrame
<1> HIDE DEF y
<1>4. y \in Frame /\ IsSync(y)  BY <1>2, <1>3 DEF Frame, IsSync
<1> QED BY <1>3, <1>4 DEF y

\* The synchronous event has a filter to go to.
LEMMA SyncEnters ==
  ASSUME NEW T, NEW b, NEW s, Good(T, b, s), s # <<>>, NEW x, x = s[Len(s)], IsSync(x), ~x.nested, x.turn # "in",
         NEW t, t = x.t, T[t].life = "open", NEW r, r = FindNextFilter(T[t]), r.status # "EPassive"
  PROVE  Good(Upd(T, t, EnterFilter(r)), b, Topped(s, FrameIn(x, r.next)))
<1> DEFINE o == T[t]
           a == Runs(s, t)
           p == IF o.status # "EPassive" THEN o.next ELSE o.syncEvent.start
           ev == o.syncEvent.ev
           q == EnterFilter(r)
           y == FrameIn(x, r.next)
<1>1. T \in [Tx -> Transaction] /\ t \in Tx /\ x \in Frame /\ Stored(x, a) /\ InSync(o, x, a) /\ o \in Transaction
  BY TopIsMine DEF Good
<1>2. x.turn \in {"first", "next"}  BY <1>1, SyncFrames
<1>3. /\ o.sync /\ o.queue = <<>> /\ ~o.active
      /\ x.turn = "first" => o.status = "EPassive"
      /\ x.turn = "next" => o.status = "EFilter" /\ o.next \in Filters
      /\ ~Fails(x) => ev = x.ev
      /\ x.op = "close" => (o.atHandler => Ahead(o, x))
  BY <1>1, <1>2 DEF InSync
<1>4. p \in Filters /\ Place(o) = Step(ev, p) /\ ev \in Events
  <2>1. o.syncEvent \in Event  BY <1>1, TransactionFields
  <2>2. o.syncEvent.start \in Filters /\ ev \in Events  BY <2>1, EventFields
  <2> QED BY <1>2, <1>3, <2>2 DEF Place
<1>5. Onward(ev, Place(o)) # {}  BY <1>1, <1>3, FindOfSync
<1>6. /\ r \in Transaction /\ r.queue = <<>> /\ r.status = "EFilter" /\ r.sync
      /\ r.next = First(ev, Place(o)) /\ r.next \in Filters
  BY <1>1, <1>3, <1>5, FindOfSync
<1>7. Kept(r, o)  BY <1>1, <1>3, FindOfSync
<1>8. r.active = o.active /\ r.syncEvent = o.syncEvent /\ r.life = "open" /\ r.atHandler = o.atHandler
  BY <1>7 DEF Kept
<1>9. ev \in Outgoing => r.next < p  BY <1>4, <1>5, <1>6, FirstIs
<1>10. /\ q \in Transaction /\ q.status = "EInFilter" /\ q.active = r.active /\ q.sync = r.sync
       /\ q.next = r.next /\ q.life = r.life /\ q.queue = r.queue /\ q.syncEvent.ev = r.syncEvent.ev
       /\ r.syncEvent.ev # "ESubmit" => (q.atHandler => r.atHandler)
       /\ r.syncEvent.ev \in {"ECancel", "EClosed"} /\ r.next = 0 => ~q.atHandler
  BY <1>6, EnterIs
<1>11. /\ y \in Frame /\ IsSync(y) /\ y.t = x.t /\ y.f = r.next /\ y.nested = x.nested /\ y.turn = "in"
       /\ y.op = x.op /\ y.ev = x.ev /\ y.handle = x.handle /\ y.s = x.s /\ y.saved = x.saved
  BY <1>1, <1>6, FrameInIs
<1>12. Fails(y) <=> Fails(x)  BY <1>11 DEF Fails
<1>13. ~Fails(x) => ev \in Outgoing  BY <1>1, <1>3 DEF Stored, Fails, Outgoing
<1>14. x.op = "close" => ~Fails(x) /\ x.ev \in {"ECancel", "EClosed"}  BY <1>1 DEF Stored, Fails
<1>15. p \in Int /\ r.next \in Int /\ p <= Client /\ 0 <= r.next /\ Client \in Int  BY <1>4, <1>6, ChainEnds
<1> HIDE DEF q, y, p, a, ev
<1>16. ~Fails(x) => q.next < Client  BY <1>9, <1>10, <1>13, <1>15
<1>17. x.op = "close" => (q.atHandler => Ahead(q, y))
  <2> SUFFICES ASSUME x.op = "close", q.atHandler PROVE Ahead(q, y)  OBVIOUS
  <2>1. ~Fails(x) /\ x.ev \in {"ECancel", "EClosed"} /\ ev = x.ev  BY <1>3, <1>14
  <2>2. o.atHandler  BY <1>8, <1>10, <2>1 DEF ev
  <2>3. x.ev = "ECancel"  BY <1>3, <2>2 DEF Ahead
  <2>4. r.next # 0  BY <1>8, <1>10, <2>1 DEF ev
  <2>5. q.next > 0  BY <1>10, <1>15, <2>4
  <2> QED BY <1>11, <2>3, <2>5 DEF Ahead
<1>18. InSync(q, y, a)
  <2>1. ~Fails(x) => q.syncEvent.ev = x.ev  BY <1>3, <1>8, <1>10 DEF ev
  <2> HIDE DEF o
  <2> QED BY <1>3, <1>6, <1>8, <1>10, <1>11, <1>12, <1>16, <1>17, <2>1 DEF InSync
<1>19. Gone(q) /\ q.status # "EBlocked"  BY <1>8, <1>10 DEF Gone
<1>20. Stored(y, a)  BY <1>1, <1>11, StoredAgain
<1>21. Good(Upd(T, t, q), b, Topped(s, y))
  <2> HIDE DEF o
  <2> QED BY <1>10, <1>11, <1>18, <1>19, <1>20, SyncGoesOn DEF a
<1> QED BY <1>21 DEF q, y

\* It has none.
LEMMA SyncOver ==
  ASSUME NEW T, NEW b, NEW s, Good(T, b, s), s # <<>>, NEW x, x = s[Len(s)], IsSync(x), x.turn # "in",
         NEW t, t = x.t, T[t].life = "open", NEW r, r = FindNextFilter(T[t]), r.status = "EPassive", NEW n
  PROVE  Settled(Continue(W(Upd(T, t, Ended(r, x)), b, Cut(s), n), t, x), T, b, s, t, n)
<1> DEFINE o == T[t]
           a == Runs(s, t)
           p == IF o.status # "EPassive" THEN o.next ELSE o.syncEvent.start
           ev == o.syncEvent.ev
           d == Ended(r, x)
<1>1. T \in [Tx -> Transaction] /\ t \in Tx /\ x \in Frame /\ Stored(x, a) /\ InSync(o, x, a) /\ o \in Transaction
  BY TopIsMine DEF Good
<1>2. x.turn \in {"first", "next"}  BY <1>1, SyncFrames
<1>3. /\ o.sync /\ o.queue = <<>> /\ ~o.active
      /\ x.turn = "first" => o.status = "EPassive"
      /\ x.turn = "next" => o.status = "EFilter" /\ o.next \in Filters
      /\ ~Fails(x) => ev = x.ev
      /\ x.op = "close" => (o.atHandler => Ahead(o, x))
  BY <1>1, <1>2 DEF InSync
<1>4. p \in Filters /\ Place(o) = Step(ev, p) /\ ev \in Events
  <2>1. o.syncEvent \in Event  BY <1>1, TransactionFields
  <2>2. o.syncEvent.start \in Filters /\ ev \in Events  BY <2>1, EventFields
  <2> QED BY <1>2, <1>3, <2>2 DEF Place
<1>5. r \in Transaction /\ r.queue = <<>> /\ Kept(r, o)  BY <1>1, <1>3, FindOfSync
<1>6. Onward(ev, Place(o)) = {}
  <2>1. Onward(ev, Place(o)) # {} => r.status = "EFilter"  BY <1>1, <1>3, FindOfSync
  <2> QED BY <2>1
<1>7. r.active = o.active /\ r.life = "open" /\ r.atHandler = o.atHandler  BY <1>5 DEF Kept
<1>8. /\ d \in Transaction /\ ~d.sync /\ d.status = x.s
      /\ d.active = r.active /\ d.queue = r.queue /\ d.life = r.life /\ d.atHandler = r.atHandler
  BY <1>1, <1>5, EndedIs
<1>9. x.op = "close" => ~d.atHandler
  <2> SUFFICES ASSUME x.op = "close", o.atHandler PROVE FALSE  BY <1>7, <1>8
  <2>1. Ahead(o, x) /\ x.ev = "ECancel" /\ ev = x.ev  BY <1>1, <1>3 DEF Stored, Fails, Ahead
  <2>2. p > 0
    <3>1. CASE x.turn = "first"
      <4>1. p = Client  BY <1>3, <2>1, <3>1 DEF Ahead
      <4> HIDE DEF p
      <4> QED BY <4>1, ChainEnds
    <3>2. CASE x.turn = "next"
      <4>1. p = o.next  BY <1>3, <3>2
      <4> QED BY <2>1, <3>2, <4>1 DEF Ahead
    <3> QED BY <1>2, <3>1, <3>2
  <2> HIDE DEF p, ev
  <2>3. ev \in Outgoing  BY <2>1 DEF Outgoing
  <2>4. 0 \in Onward(ev, Step(ev, p))  BY <1>4, <2>2, <2>3, HandlerOnward
  <2> QED BY <1>4, <1>6, <2>4
<1> HIDE DEF d
<1>10. Settled(Continue(W(Upd(T, t, d), b, Cut(s), n), t, x), T, b, s, t, n)
  <2> HIDE DEF o
  <2>1. d \in Transaction /\ ~d.sync /\ ~d.active /\ d.queue = <<>> /\ d.life = "open" /\ d.status = x.s
    BY <1>3, <1>5, <1>7, <1>8
  <2> QED BY <1>9, <2>1, ContinueOpen
<1> QED BY <1>10 DEF d

\* Two writings at once are two writings.
LEMMA TwoKeys ==
  ASSUME NEW w, NEW t, NEW q, NEW k, NEW f
  PROVE  [w EXCEPT !.tr[t] = q, !.stack[k].f = f] = [[w EXCEPT !.tr[t] = q] EXCEPT !.stack[k].f = f]
OBVIOUS

\* The call is at the top of the stack, and between two filters.
LEMMA NextTurn ==
  ASSUME IInv, NextSyncFilter, NEW x, x = Top(world), NEW t, t = x.t
  PROVE  /\ stack # <<>> /\ x = stack[Len(stack)] /\ IsSync(x) /\ x.turn \in {"first", "next"} /\ ~x.nested
         /\ Good(tr, blocking, stack) /\ sends \in 0 .. MaxSends /\ t \in Tx /\ x \in Frame
         /\ tr \in [Tx -> Transaction] /\ world = W(tr, blocking, stack, sends) /\ tr[t] \in Transaction
         /\ stack \in Seq(Frame)
         /\ InSync(tr[t], x, Runs(stack, t)) /\ Gone(tr[t]) /\ tr[t].queue = <<>>
<1>1. NextReady  BY DEF NextSyncFilter
<1>2. stack # <<>> /\ x.kind = "sync" /\ x.turn # "in" /\ ~x.nested  BY <1>1 DEF NextReady
<1>3. /\ Good(tr, blocking, stack) /\ sends \in 0 .. MaxSends /\ t \in Tx /\ x = stack[Len(stack)] /\ x \in Frame
      /\ tr \in [Tx -> Transaction] /\ world = W(tr, blocking, stack, sends) /\ tr[t] \in Transaction
      /\ stack \in Seq(Frame)
  BY <1>2, TopNow
<1>4. IsSync(x)  BY <1>2 DEF IsSync
<1>5. InSync(tr[t], x, Runs(stack, t)) /\ Gone(tr[t]) /\ tr[t].queue = <<>>
  <2>1. Fits(t, tr[t], stack)  BY <1>3 DEF Good
  <2>2. InSync(tr[t], x, Runs(stack, t))  BY <1>2, <1>3, <1>4, TopIsMine
  <2> QED BY <2>1, <2>2 DEF Fits, Gone, InSync
<1>6. x.turn \in {"first", "next"}  BY <1>2, <1>3, <1>4, SyncFrames
<1> QED BY <1>2, <1>3, <1>4, <1>5, <1>6

\* Its event enters the next filter, or is over.
LEMMA NextSyncFilterIs ==
  ASSUME IInv, NextSyncFilter, NEW x, x = Top(world), NEW t, t = x.t, NEW r, r = FindNextFilter(tr[t])
  PROVE  /\ tr[t].life = "open" /\ r.status # "EPassive" =>
              /\ r.next \in Filters
              /\ Become(W(Upd(tr, t, EnterFilter(r)), blocking, Topped(stack, FrameIn(x, r.next)), sends))
         /\ tr[t].life = "open" /\ r.status = "EPassive" =>
              Become(Continue(W(Upd(tr, t, Ended(r, x)), blocking, Cut(stack), sends), t, x))
         /\ tr[t].life # "open" =>
              /\ tr[t].life = "closed" /\ tr[t].status = "EExiting" /\ ~tr[t].sync /\ Runs(stack, t) /\ Fails(x)
              /\ ~tr[t].active /\ ~tr[t].atHandler
              /\ Become(Continue(W(Upd(tr, t, Ended(tr[t], x)), blocking, Cut(stack), sends), t, x))
<1> DEFINE o == IF x.turn = "first" \/ tr[t].status \notin {"EPassive", "EExiting"}
                THEN FindNextFilter(tr[t]) ELSE tr[t]
           d == [o EXCEPT !.current = x.remembered, !.sync = FALSE, !.syncEvent = x.stored,
                          !.status = IF @ = "EExiting" THEN @ ELSE x.s]
           into == [world EXCEPT !.tr[t] = EnterFilter(o), !.stack[Len(stack)].f = o.next]
<1>1. Become(IF o.status \in {"EPassive", "EExiting"}
             THEN Continue(Pop([world EXCEPT !.tr[t] = d]), t, x)
             ELSE Turned(into, "in"))
  BY DEF NextSyncFilter
<1>2. stack # <<>> /\ x = stack[Len(stack)] /\ IsSync(x) /\ x.turn \in {"first", "next"} /\ ~x.nested
  BY NextTurn
<1>3. /\ t \in Tx /\ x \in Frame /\ tr \in [Tx -> Transaction] /\ world = W(tr, blocking, stack, sends)
      /\ tr[t] \in Transaction /\ stack \in Seq(Frame)
  BY NextTurn
<1>4. InSync(tr[t], x, Runs(stack, t)) /\ Gone(tr[t]) /\ tr[t].queue = <<>>  BY NextTurn
<1>5. Pop([world EXCEPT !.tr[t] = d]) = W(Upd(tr, t, d), blocking, Cut(stack), sends)
  <2> HIDE DEF d
  <2>1. [world EXCEPT !.tr[t] = d] = W(Upd(tr, t, d), blocking, stack, sends)  BY <1>3, PutTurns
  <2> QED BY <1>2, <1>3, <2>1, PopTurns
<1>6. d = Ended(o, x)  BY DEF Ended
<1>7. CASE tr[t].life = "open"
  <2>1. tr[t].sync  BY <1>4, <1>7 DEF InSync
  <2>2. x.turn = "first" \/ tr[t].status = "EFilter"  BY <1>2, <1>4, <1>7 DEF InSync
  <2>3. o = r  BY <2>2
  <2>4. r.status \in {"EPassive", "EFilter"} /\ (r.status = "EFilter" => r.next \in Filters)
    BY <1>3, <1>4, <2>1, FindOfSync
  <2>5. ASSUME r.status = "EPassive"
        PROVE  Become(Continue(W(Upd(tr, t, Ended(r, x)), blocking, Cut(stack), sends), t, x))
    <3>1. Become(Continue(Pop([world EXCEPT !.tr[t] = d]), t, x))  BY <1>1, <2>3, <2>5
    <3> HIDE DEF o, d
    <3> QED BY <1>5, <1>6, <2>3, <3>1
  <2>6. ASSUME r.status # "EPassive"
        PROVE  Become(W(Upd(tr, t, EnterFilter(r)), blocking, Topped(stack, FrameIn(x, r.next)), sends))
    <3> DEFINE q == EnterFilter(r)
               y == FrameIn(x, r.next)
               z == Topped(stack, [x EXCEPT !.f = r.next])
               entered == [world EXCEPT !.tr[t] = EnterFilter(r), !.stack[Len(stack)].f = r.next]
    <3>1. r.status = "EFilter" /\ r.next \in Filters  BY <2>4, <2>6
    <3>2. Become(Turned(entered, "in"))  BY <1>1, <2>3, <3>1
    <3> HIDE DEF o, d, into
    <3>3. Turned(entered, "in") = W(Upd(tr, t, q), blocking, Topped(stack, y), sends)
      <4> DEFINE v == W(Upd(tr, t, q), blocking, stack, sends)
                 g == [x EXCEPT !.f = r.next]
      <4>1. [world EXCEPT !.tr[t] = q] = v
        <5> HIDE DEF q
        <5> QED BY <1>3, PutTurns
      <4>2. entered = [[world EXCEPT !.tr[t] = q] EXCEPT !.stack[Len(stack)].f = r.next] BY TwoKeys
      <4>3. v.stack = stack  BY DEF W
      <4>4. entered = [v EXCEPT !.stack = [stack EXCEPT ![Len(stack)] = [stack[Len(stack)] EXCEPT !.f = r.next]]]
        <5> HIDE DEF v, q, entered
        <5>1. entered = [v EXCEPT !.stack[Len(stack)].f = r.next]  BY <4>1, <4>2
        <5> QED BY <4>3, <5>1
      <4>5. z = [stack EXCEPT ![Len(stack)] = [stack[Len(stack)] EXCEPT !.f = r.next]]  BY <1>2, <1>3 DEF Topped
      <4> HIDE DEF z, entered
      <4>6. entered = [v EXCEPT !.stack = z]  BY <4>4, <4>5
      <4>7. [v EXCEPT !.stack = z] = W(Upd(tr, t, q), blocking, z, sends)
        <5> HIDE DEF q
        <5> QED BY PutStack
      <4>8. g \in Frame
        <5>1. x \in SyncFrame  BY <1>2, <1>3, FrameKinds
        <5>2. g \in SyncFrame  BY <3>1, <5>1 DEF SyncFrame
        <5> QED BY <5>2 DEF Frame
      <4>9. z \in Seq(Frame) /\ Len(z) = Len(stack) /\ z[Len(z)] = g /\ z # <<>>
        <5> HIDE DEF g
        <5>1. z = Topped(stack, g)  BY DEF z, g
        <5>2. z \in Seq(Frame) /\ Len(z) = Len(stack) /\ z[Len(stack)] = g /\ Len(stack) \in DOMAIN z
          BY <1>2, <1>3, <4>8, <5>1, ToppedIs
        <5> QED BY <5>2
      <4>10. Turned(W(Upd(tr, t, q), blocking, z, sends), "in")
               = W(Upd(tr, t, q), blocking, Topped(z, InTurn(z[Len(z)], "in")), sends)
        <5> HIDE DEF q
        <5> QED BY <4>9, TurnedTurns
      <4>11. InTurn(g, "in") = y
        <5>1. x \in SyncFrame  BY <1>2, <1>3, FrameKinds
        <5> QED BY <5>1 DEF InTurn, FrameIn, SyncFrame
      <4>12. Topped(z, y) = Topped(stack, y)  BY <1>2, <1>3, <4>5, <4>9 DEF Topped
      <4> HIDE DEF q, y, g
      <4> QED BY <4>6, <4>7, <4>9, <4>10, <4>11, <4>12
    <3> HIDE DEF q, y, entered
    <3>4. Become(W(Upd(tr, t, q), blocking, Topped(stack, y), sends))  BY <3>2, <3>3
    <3> QED BY <3>4 DEF q, y
  <2> QED BY <1>7, <2>4, <2>5, <2>6
<1>8. CASE tr[t].life # "open"
  <2>1. /\ tr[t].life = "closed" /\ tr[t].status = "EExiting" /\ ~tr[t].sync /\ Runs(stack, t) /\ Fails(x)
        /\ x.turn = "next" /\ ~tr[t].active /\ ~tr[t].atHandler
    BY <1>2, <1>3, <1>4, <1>8 DEF InSync, Transaction, Lives, Gone
  <2>2. o = tr[t]  BY <2>1
  <2>3. Become(Continue(Pop([world EXCEPT !.tr[t] = d]), t, x))  BY <1>1, <2>1, <2>2
  <2> HIDE DEF o, d
  <2>4. Become(Continue(W(Upd(tr, t, Ended(tr[t], x)), blocking, Cut(stack), sends), t, x))
    BY <1>5, <1>6, <2>2, <2>3
  <2> QED BY <1>8, <2>1, <2>4
<1> QED BY <1>7, <1>8

\* A synchronous event that is over leaves a transaction without events.
LEMMA SyncEventOver ==
  ASSUME IInv, NextSyncFilter, NEW x, x = Top(world), NEW t, t = x.t, NEW r, r = FindNextFilter(tr[t]),
         tr[t].life = "open" => r.status = "EPassive"
  PROVE  \E q, z : /\ Become(W(Upd(tr, t, q), blocking, z, sends)) /\ Good(Upd(tr, t, q), blocking, z)
                   /\ Restarts(q) /\ Under(stack, z) /\ (tr[t].life # "open" => q.status = "EExiting")
<1>1. /\ stack # <<>> /\ x = stack[Len(stack)] /\ IsSync(x) /\ x.turn # "in" /\ ~x.nested
      /\ Good(tr, blocking, stack) /\ t \in Tx /\ x \in Frame /\ tr[t] \in Transaction /\ tr[t].queue = <<>>
  BY NextTurn
<1>2. CASE tr[t].life = "open"
  <2> DEFINE w == Continue(W(Upd(tr, t, Ended(r, x)), blocking, Cut(stack), sends), t, x)
  <2>1. Become(w)  BY <1>2, NextSyncFilterIs
  <2>2. Settled(w, tr, blocking, stack, t, sends)  BY <1>1, <1>2, SyncOver
  <2> HIDE DEF w
  <2>3. PICK q, z : w = W(Upd(tr, t, q), blocking, z, sends) /\ Good(Upd(tr, t, q), blocking, z)
                    /\ Restarts(q) /\ Under(stack, z)
    BY <2>2 DEF Settled
  <2> QED BY <1>2, <2>1, <2>3
<1>3. CASE tr[t].life # "open"
  <2> DEFINE d == Ended(tr[t], x)
             w == Continue(W(Upd(tr, t, d), blocking, Cut(stack), sends), t, x)
  <2>1. /\ tr[t].life = "closed" /\ tr[t].status = "EExiting" /\ ~tr[t].sync /\ Runs(stack, t) /\ Fails(x)
        /\ ~tr[t].active /\ ~tr[t].atHandler /\ Become(w)
    BY <1>3, NextSyncFilterIs
  <2>2. d \in Transaction /\ ~d.sync /\ d.status = "EExiting" /\ ~d.active /\ d.life = "closed"
        /\ ~d.atHandler /\ d.queue = <<>>
    BY <1>1, <2>1, EndedIs
  <2> HIDE DEF d
  <2>3. w = W(Upd(tr, t, d), blocking, Cut(stack), sends) /\ Good(Upd(tr, t, d), blocking, Cut(stack))
    BY <1>1, <2>1, <2>2, ContinueClosed
  <2> HIDE DEF w
  <2>4. Restarts(d)  BY <2>2 DEF Restarts
  <2>5. Under(stack, Cut(stack))  BY DEF Under
  <2> QED BY <2>1, <2>2, <2>3, <2>4, <2>5
<1> QED BY <1>2, <1>3

\* A turn of SynchronousSendEvent's loop, or its end, keeps the invariant.
LEMMA NextSyncFilterKeeps ==
  ASSUME IInv, NextSyncFilter
  PROVE  IInv'
<1> DEFINE x == Top(world)
           t == x.t
           r == FindNextFilter(tr[t])
<1>1. /\ stack # <<>> /\ x = stack[Len(stack)] /\ IsSync(x) /\ x.turn # "in" /\ ~x.nested
      /\ Good(tr, blocking, stack) /\ sends \in 0 .. MaxSends
  BY NextTurn
<1>2. CASE tr[t].life = "open" /\ r.status # "EPassive"
  <2> DEFINE q == EnterFilter(r)
             y == FrameIn(x, r.next)
  <2>1. Become(W(Upd(tr, t, q), blocking, Topped(stack, y), sends))  BY <1>2, NextSyncFilterIs
  <2>2. Good(Upd(tr, t, q), blocking, Topped(stack, y))
    <3> HIDE DEF x
    <3> QED BY <1>1, <1>2, SyncEnters
  <2> HIDE DEF q, y
  <2> QED BY <1>1, <2>1, <2>2, StepEnds
<1>3. CASE tr[t].life = "open" => r.status = "EPassive"
  <2>1. PICK q, z : Become(W(Upd(tr, t, q), blocking, z, sends)) /\ Good(Upd(tr, t, q), blocking, z)
    BY <1>3, SyncEventOver
  <2> QED BY <1>1, <2>1, StepEnds
<1> QED BY <1>2, <1>3

-----------------------------------------------------------------------------
(* The theorems *)

\* A transaction that is in a call has one that came last, and neither runs nor is it gone.
LEMMA InCall ==
  ASSUME NEW T, NEW b, NEW s, Good(T, b, s), NEW t \in Tx, Mine(s, t) # {}
  PROVE  ~T[t].active /\ T[t].life # "deleted"
<1>1. Fits(t, T[t], s) /\ s \in Seq(Frame)  BY DEF Good
<1>2. PICK i \in Mine(s, t) : \A j \in Mine(s, t) : j <= i  BY <1>1, LastCall
<1>3. IF IsSync(s[i]) THEN InSync(T[t], s[i], Runs(s, t)) ELSE InRunL(T[t], s[i])  BY <1>1, <1>2 DEF Fits
<1> QED BY <1>3 DEF InSync, InRunL

\* HasCall, in terms of the calls of a transaction.
LEMMA HasCallIs ==
  ASSUME NEW t
  PROVE  HasCall(t) <=> Mine(stack, t) # {}
BY DEF HasCall, Mine

\* A transaction starts with nothing to do.
LEMMA NewRests == NewTransaction \in Transaction /\ Resting(NewTransaction) /\ Gone(NewTransaction)
                  /\ NewTransaction.status # "EBlocked"
<1> DEFINE z == <<>>
<1>1. z \in Seq(Event) /\ z \in Seq(Filters)  OBVIOUS
<1>2. NoEvent \in Event
  <2>1. NoEvent = [ev |-> "ESubmit", start |-> 0, seen |-> z]  BY DEF NoEvent
  <2> HIDE DEF z
  <2> QED BY <1>1, <2>1, ChainEnds DEF Event, Events, Outgoing
<1>3. NewTransaction =
        [status |-> "EPassive", active |-> FALSE, queue |-> z, sync |-> FALSE,
         syncEvent |-> NoEvent, next |-> 0, current |-> 0, asyncFilter |-> 0, life |-> "open",
         atHandler |-> FALSE, cipher |-> FALSE]
  BY DEF NewTransaction
<1>4. NewTransaction \in Transaction
  <2> HIDE DEF z
  <2> QED BY <1>1, <1>2, <1>3, ChainEnds DEF Transaction, States, Lives
<1> QED BY <1>4 DEF Resting, Gone, NewTransaction

\* The invariant holds at the start.
LEMMA InitIsGood == ASSUME Init PROVE IInv
<1>1. /\ tr = [t \in Tx |-> NewTransaction] /\ blocking = "ENormal" /\ stack = <<>> /\ panic = {} /\ sends = 0
  BY DEF Init
<1>2. tr \in [Tx -> Transaction] /\ \A t \in Tx : tr[t] = NewTransaction  BY <1>1, NewRests
<1>3. Lined(stack) /\ stack \in Seq(Frame) /\ \A t : Mine(stack, t) = {}  BY <1>1, NoCalls
<1>4. \A t \in Tx : Fits(t, tr[t], stack) /\ tr[t].status # "EBlocked"
  BY <1>2, <1>3, NewRests, FitsResting
<1>5. Good(tr, blocking, stack)  BY <1>1, <1>2, <1>3, <1>4 DEF Good, Blocking
<1>6. sends \in 0 .. MaxSends  BY <1>1, ConstantsAssumption
<1> QED BY <1>1, <1>5, <1>6 DEF IInv

\* Every step keeps it.
LEMMA NextKeeps ==
  ASSUME IInv, [Next]_vars, Careful
  PROVE  IInv'
<1>1. CASE \E t \in Tx : RunL(t) \/ Calls(t)
  <2>1. PICK t \in Tx : RunL(t) \/ Calls(t)  BY <1>1
  <2>2. CASE RunL(t)  BY <2>2, RunLKeeps
  <2>3. CASE ClientSubmits(t) \/ HandlerSends(t) \/ FilterSends(t)  BY <2>3, SendsKeep
  <2>4. CASE Cancel(t)  BY <2>4, CancelOpKeeps
  <2>5. CASE Close(t)  BY <2>5, CloseKeeps
  <2>6. CASE Fail(t)  BY <2>6, FailKeeps
  <2>7. CASE CipherSuite(t)  BY <2>7, CipherSuiteKeeps
  <2> QED BY <2>1, <2>2, <2>3, <2>4, <2>5, <2>6, <2>7 DEF Calls
<1>2. CASE FilterReturns  BY <1>2, FilterReturnsKeeps
<1>3. CASE SyncFilterReturns  BY <1>3, SyncFilterReturnsKeeps
<1>4. CASE NextSyncFilter  BY <1>4, NextSyncFilterKeeps
<1>5. CASE FilterLeaves  BY <1>5, FilterLeavesKeeps
<1>6. CASE ErrorReturns  BY <1>6, ErrorReturnsKeeps
<1>7. CASE StartScheduler \/ StopScheduler  BY <1>7, SchedulersKeep
<1>8. CASE UNCHANGED vars
  <2>1. tr' = tr /\ blocking' = blocking /\ stack' = stack /\ panic' = panic /\ sends' = sends
    BY <1>8 DEF vars
  <2>2. IInv' = (Good(tr', blocking', stack') /\ sends' \in 0 .. MaxSends /\ panic' = {})  BY DEF IInv, Good
  <2> QED BY <2>1, <2>2 DEF IInv
<1> QED BY <1>1, <1>2, <1>3, <1>4, <1>5, <1>6, <1>7, <1>8 DEF Next

\* The invariant implies Awake: the call at the bottom of the stack is the only RunL.
LEMMA GoodIsAwake == ASSUME IInv PROVE Awake
<1>1. Good(tr, blocking, stack) /\ stack \in Seq(Frame) /\ Lined(stack)  BY DEF IInv, Good
<1> DEFINE runs == {i \in DOMAIN stack : stack[i].kind \in {"run", "error"}}
<1>2. \A i \in DOMAIN stack : stack[i].kind \in {"run", "error"} <=> ~IsSync(stack[i])
  <2> SUFFICES ASSUME NEW i \in DOMAIN stack
               PROVE  stack[i].kind \in {"run", "error"} <=> ~IsSync(stack[i])
    OBVIOUS
  <2>1. stack[i] \in Frame  BY <1>1
  <2> QED BY <2>1 DEF Frame, AsyncFrame, SyncFrame, IsSync
<1>3. runs \subseteq {1}  BY <1>1, <1>2 DEF Lined
<1>4. runs # {} <=> stack # <<>> /\ ~IsSync(stack[1])
  <2>1. stack # <<>> => 1 \in DOMAIN stack  BY <1>1
  <2>2. runs # {} => 1 \in runs  BY <1>3
  <2> QED BY <1>1, <1>2, <2>1, <2>2
<1> HIDE DEF runs
<1>5. Cardinality(runs) <= 1
  <2>1. runs = {} \/ runs = {1}  BY <1>3
  <2>2. Cardinality({}) = 0 /\ Cardinality({1}) = 1  BY FS_EmptySet, FS_Singleton
  <2> QED BY <2>1, <2>2
<1>6. (blocking # "ENormal") <=> (runs # {})
  <2>1. (blocking # "ENormal") <=> (stack # <<>> /\ ~IsSync(stack[1]))  BY <1>1 DEF Good
  <2> QED BY <1>4, <2>1
<1>7. (\E t \in Tx : tr[t].status = "EBlocked") => blocking = "EHasBlocked"  BY <1>1 DEF Good
<1>8. ASSUME NEW t \in Tx, tr[t].life = "open"
      PROVE  /\ tr[t].active <=> (tr[t].status = "EFilter" /\ ~HasCall(t))
             /\ tr[t].active => tr[t].queue # <<>>
             /\ tr[t].queue # <<>> => tr[t].active \/ tr[t].status = "EBlocked" \/ HasCall(t)
  <2>1. Fits(t, tr[t], stack)  BY <1>1 DEF Good
  <2>2. CASE Mine(stack, t) = {}
    <3>1. Resting(tr[t]) /\ ~HasCall(t)  BY <2>1, <2>2, HasCallIs DEF Fits
    <3> QED BY <1>8, <3>1 DEF Resting
  <2>3. CASE Mine(stack, t) # {}
    <3>1. ~tr[t].active /\ HasCall(t)  BY <1>1, <2>3, InCall, HasCallIs
    <3> QED BY <3>1
  <2> QED BY <2>2, <2>3
<1> QED BY <1>5, <1>6, <1>7, <1>8 DEF Awake, runs

\* The invariant implies Lifetimes.
LEMMA GoodIsAlive == ASSUME IInv PROVE Lifetimes
<1>1. Good(tr, blocking, stack)  BY DEF IInv
<1>2. NoPanic
  <2>1. /\ tr \in [Tx -> Transaction] /\ blocking \in Blocking /\ stack \in Seq(AsyncFrame \cup SyncFrame)
    BY <1>1 DEF Good, Frame
  <2>2. panic = {} /\ panic \subseteq Assertions /\ sends \in 0 .. MaxSends  BY DEF IInv
  <2> QED BY <2>1, <2>2 DEF NoPanic, TypeOK
<1>3. ASSUME NEW t \in Tx
      PROVE  /\ tr[t].life = "closed" => HasCall(t)
             /\ HasCall(t) => tr[t].life # "deleted"
             /\ tr[t].life # "open" => ~tr[t].atHandler
  <2>1. Fits(t, tr[t], stack)  BY <1>1 DEF Good
  <2>2. tr[t].life # "open" => ~tr[t].atHandler  BY <2>1 DEF Fits
  <2>3. HasCall(t) => tr[t].life # "deleted"  BY <1>1, InCall, HasCallIs
  <2>4. ~HasCall(t) => tr[t].life # "closed"  BY <2>1, HasCallIs DEF Fits, Resting
  <2> QED BY <2>2, <2>3, <2>4
<1> QED BY <1>2, <1>3 DEF Lifetimes

\* The invariant is one of every behaviour.
LEMMA AlwaysGood == ASSUME Careful PROVE Spec => []IInv
<1>1. Init => IInv  BY InitIsGood
<1>2. IInv /\ [Next]_vars => IInv'  BY NextKeeps
<1> QED BY <1>1, <1>2, PTL DEF Spec

\* Awake for any session: one RunL at a time is in a filter, however schedulers are
\* nested and whatever the filters and the client call, the session blocks the others
\* exactly then, and a transaction with events is active, blocked or in a filter
\* (CTransaction::RunL, ActivateNextEvent, CHTTPSession::SetBlocking and the Unblock it
\* ends with).
THEOREM TransactionsWake == ASSUME Careful PROVE Spec => []Awake
<1>1. IInv => Awake  BY GoodIsAwake
<1> QED BY <1>1, AlwaysGood, PTL

\* Lifetimes for any session: no assertion fails, a transaction that was closed inside
\* of its filter is there until that filter has returned, and the protocol handler has
\* none that is closed (CTransaction::Close, RunOneFilterL, RunL and RunError).
THEOREM TransactionsLive == ASSUME Careful PROVE Spec => []Lifetimes
<1>1. IInv => Lifetimes  BY GoodIsAlive
<1> QED BY <1>1, AlwaysGood, PTL
=============================================================================
